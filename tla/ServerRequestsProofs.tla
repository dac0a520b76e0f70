------------------------ MODULE ServerRequestsProofs ------------------------
(***************************************************************************)
(* Proofs about ServerRequests for any number of requests and permits: the *)
(* handlers implement ForgejoAuth, so that its theorems hold of them, and  *)
(* what they add to it.                                                    *)
(***************************************************************************)
EXTENDS ServerRequests, ForgejoAuthProofs

\* Permits are finitely many, and a staged file has one.
PermitsHeld ==
  /\ data \subseteq Requests /\ IsFiniteSet(data) /\ Cardinality(data) <= MaxData
  /\ basic \subseteq Requests /\ IsFiniteSet(basic) /\ Cardinality(basic) <= MaxBasic
  /\ staged \subseteq basic

\* A request is in authenticate_forgejo exactly while its handler awaits it,
\* and for the access the handler asked.
CallsAgree ==
  /\ call \in [Requests -> Calls]
  /\ \A r \in Requests :
       IF At(r, "checking") THEN req[r] # Idle /\ req[r].key = call[r].key
                            ELSE req[r] = Idle

RequestsInv == TypeOK /\ PermitsHeld /\ CallsAgree

\* The fields of a handler that has begun.
LEMMA CallFields ==
  ASSUME NEW c \in Calls, c # None
  PROVE  c.at \in {"permit", "auth", "checking", "work", "body"} /\ c.op \in Ops /\ c.key \in Key
BY DEF Calls

-----------------------------------------------------------------------------
(* The handlers implement ForgejoAuth.                                      *)

\* Every step of a handler is one of ForgejoAuth or leaves its variables alone:
\* a client that disconnects is one that is refused or is done.
LEMMA StepImplements ==
  ASSUME RequestsInv, [RequestsNext]_allVars
  PROVE  [Next]_vars
<1> USE DEF RequestsInv
<1>1. CASE UNCHANGED allVars
  BY <1>1 DEF allVars
<1>2. CASE Environment
  BY <1>2 DEF Environment, Next
<1>3. ASSUME NEW r \in Requests, Authenticate(r)
      PROVE  Next
  <2>1. call[r].key \in Key
    BY <1>3, CallFields DEF Authenticate, At, None, CallsAgree
  <2>. QED
    BY <1>3, <2>1 DEF Authenticate, Next
<1>4. ASSUME NEW r \in Requests, Checking(r) \/ Authenticated(r)
      PROVE  Next
  BY <1>4 DEF Checking, Authenticated, Next
<1>5. ASSUME NEW r \in Requests, Refused(r)
      PROVE  [Next]_vars
  BY <1>5 DEF Refused, Next
<1>6. ASSUME NEW r \in Requests, Disconnect(r)
      PROVE  [Next]_vars
  <2>1. req[r] \in Request /\ req' = [req EXCEPT ![r] = Idle]
    BY <1>6 DEF Disconnect, TypeOK
  <2>2. CASE req[r] = Idle
    <3>1. req' = req
      BY <2>1, <2>2 DEF TypeOK
    <3>. QED
      BY <1>6, <3>1 DEF Disconnect, vars
  <2>3. CASE req[r] # Idle
    BY <1>6, <2>1, <2>3, RequestFields DEF Disconnect, Proceed, Refuse, Move, Next
  <2>. QED
    BY <2>2, <2>3
<1>7. ASSUME NEW r \in Requests,
             \/ \E op \in Ops, key \in Key : Arrive(r, op, key)
             \/ AcquireData(r) \/ AcquireBasic(r)
             \/ Respond(r) \/ Stream(r) \/ StreamEnds(r)
      PROVE  UNCHANGED vars
  BY <1>7 DEF Arrive, AcquireData, AcquireBasic, Respond, Stream, StreamEnds
<1>. QED
  BY <1>1, <1>2, <1>3, <1>4, <1>5, <1>6, <1>7 DEF RequestsNext

-----------------------------------------------------------------------------
(* Permits.                                                                 *)

\* A free permit may be given to one more request.
LEMMA PermitFits ==
  ASSUME NEW S, IsFiniteSet(S), NEW n \in Nat, Cardinality(S) < n, NEW r
  PROVE  IsFiniteSet(S \cup {r}) /\ Cardinality(S \cup {r}) <= n
<1>1. Cardinality(S) \in Nat
  BY FS_CardinalityType
<1>2. /\ IsFiniteSet(S \cup {r})
      /\ Cardinality(S \cup {r}) \in {Cardinality(S), Cardinality(S) + 1}
  BY FS_AddElement
<1>. QED
  BY ONLY <1>1, <1>2, n \in Nat, Cardinality(S) < n

\* A permit that is given back leaves the semaphore within its limit.
LEMMA PermitReturned ==
  ASSUME NEW S, IsFiniteSet(S), NEW n \in Nat, Cardinality(S) <= n, NEW r
  PROVE  IsFiniteSet(S \ {r}) /\ Cardinality(S \ {r}) <= n
<1>1. IsFiniteSet(S \ {r}) /\ Cardinality(S \ {r}) <= Cardinality(S)
  BY FS_Subset
<1>2. Cardinality(S) \in Nat /\ Cardinality(S \ {r}) \in Nat
  BY <1>1, FS_CardinalityType
<1>. QED
  BY ONLY <1>1, <1>2, n \in Nat, Cardinality(S) <= n

\* Every step keeps the permits within their limits.
LEMMA PermitsStep ==
  ASSUME PermitsHeld, [RequestsNext]_allVars
  PROVE  PermitsHeld'
<1>0. MaxData \in Nat /\ MaxBasic \in Nat
  BY PermitsAssumption
<1> USE DEF PermitsHeld
<1>1. CASE UNCHANGED <<data, basic, staged>>
  BY <1>1
<1>2. ASSUME NEW r \in Requests, Drop(r)
      PROVE  PermitsHeld'
  <2>1. /\ IsFiniteSet(data \ {r}) /\ Cardinality(data \ {r}) <= MaxData
        /\ IsFiniteSet(basic \ {r}) /\ Cardinality(basic \ {r}) <= MaxBasic
    BY <1>0, PermitReturned
  <2>. QED
    BY <1>2, <2>1 DEF Drop
<1>3. ASSUME NEW r \in Requests, AcquireData(r)
      PROVE  PermitsHeld'
  <2>1. IsFiniteSet(data \cup {r}) /\ Cardinality(data \cup {r}) <= MaxData
    BY <1>0, <1>3, PermitFits DEF AcquireData
  <2>. QED
    BY <1>3, <2>1 DEF AcquireData
<1>4. ASSUME NEW r \in Requests, AcquireBasic(r)
      PROVE  PermitsHeld'
  <2>1. IsFiniteSet(basic \cup {r}) /\ Cardinality(basic \cup {r}) <= MaxBasic
    BY <1>0, <1>4, PermitFits DEF AcquireBasic
  <2>. QED
    BY <1>4, <2>1 DEF AcquireBasic
<1>5. ASSUME NEW r \in Requests,
             \/ \E op \in Ops, key \in Key : Arrive(r, op, key)
             \/ Authenticate(r) \/ Checking(r) \/ Authenticated(r) \/ Stream(r)
      PROVE  UNCHANGED <<data, basic, staged>>
  BY <1>5 DEF Arrive, Authenticate, Checking, Authenticated, Stream
<1>6. ASSUME NEW r \in Requests, Refused(r) \/ Respond(r) \/ StreamEnds(r) \/ Disconnect(r)
      PROVE  Drop(r)
  BY <1>6 DEF Refused, Respond, StreamEnds, Disconnect
<1>7. CASE Environment \/ UNCHANGED allVars
  BY <1>1, <1>7 DEF Environment, allVars
<1>. QED
  BY <1>1, <1>2, <1>3, <1>4, <1>5, <1>6, <1>7 DEF RequestsNext

-----------------------------------------------------------------------------
(* The handler and its authentication.                                      *)

\* A step of the handler of one request, which leaves it at c and its
\* authentication at q.
LEMMA CallMoves ==
  ASSUME CallsAgree, TypeOK, NEW r \in Requests, NEW c \in Calls, NEW q,
         call' = [call EXCEPT ![r] = c], req' = [req EXCEPT ![r] = q],
         IF c.at = "checking" THEN q # Idle /\ q.key = c.key ELSE q = Idle
  PROVE  CallsAgree'
<1>1. call'[r] = c /\ \A s \in Requests \ {r} : call'[s] = call[s]
  BY DEF CallsAgree
<1>2. req'[r] = q /\ \A s \in Requests \ {r} : req'[s] = req[s]
  BY DEF TypeOK
<1>3. call' \in [Requests -> Calls]
  BY DEF CallsAgree
<1>. QED
  BY <1>1, <1>2, <1>3 DEF CallsAgree, At

\* Another place of the same call.
LEMMA CallAt ==
  ASSUME NEW c \in Calls, c # None, NEW where \in {"permit", "auth", "checking", "work", "body"}
  PROVE  /\ [c EXCEPT !.at = where] \in Calls
         /\ [c EXCEPT !.at = where].at = where
         /\ [c EXCEPT !.at = where].key = c.key
         /\ [c EXCEPT !.at = where].op = c.op
BY DEF Calls

\* Every step keeps handlers and authentications together.
LEMMA AgreeStep ==
  ASSUME RequestsInv, [RequestsNext]_allVars
  PROVE  CallsAgree'
<1> USE DEF RequestsInv
<1>0. None \in Calls /\ None.at = "none" /\ call \in [Requests -> Calls] /\ req \in [Requests -> Request]
  BY DEF Calls, None, CallsAgree, TypeOK
<1>1. CASE UNCHANGED <<call, req>>
  BY <1>1 DEF CallsAgree, At
<1>2. CASE Environment \/ UNCHANGED allVars
  BY <1>1, <1>2 DEF Environment, Change, Tick, allVars, vars
<1>3. ASSUME NEW r \in Requests, NEW op \in Ops, NEW key \in Key, Arrive(r, op, key)
      PROVE  CallsAgree'
  <2>1. DEFINE c == [at |-> IF PermitFirst(op) THEN "permit" ELSE "auth", op |-> op, key |-> key]
  <2>2. c \in Calls /\ c.at # "checking"
    BY DEF Calls
  <2>3. req[r] = Idle /\ call' = [call EXCEPT ![r] = c] /\ req' = req
    BY <1>3 DEF Arrive, CallsAgree, At, vars
  <2>4. req' = [req EXCEPT ![r] = Idle]
    BY <1>0, <2>3
  <2>. HIDE DEF c
  <2>. QED
    BY <2>2, <2>3, <2>4, CallMoves
<1>4. ASSUME NEW r \in Requests, Authenticate(r)
      PROVE  CallsAgree'
  <2>1. call[r] \in Calls /\ call[r] # None
    BY <1>0, <1>4 DEF Authenticate, At
  <2>2. DEFINE c == [call[r] EXCEPT !.at = "checking"]
  <2>3. c \in Calls /\ c.at = "checking" /\ c.key = call[r].key
    BY <2>1, CallAt
  <2>4. call' = [call EXCEPT ![r] = c]
    BY <1>4 DEF Authenticate, Goto
  <2>5. PICK q : q # Idle /\ q.key = call[r].key /\ req' = [req EXCEPT ![r] = q]
    <3>1. CASE Hit(r, call[r].key)
      BY <3>1 DEF Hit, Move, Idle
    <3>2. CASE Miss(r, call[r].key)
      BY <3>2 DEF Miss, Move, Idle
    <3>. QED
      BY <1>4, <3>1, <3>2 DEF Authenticate
  <2>. HIDE DEF c
  <2>. QED
    BY <2>3, <2>4, <2>5, CallMoves
<1>5. ASSUME NEW r \in Requests, Checking(r)
      PROVE  CallsAgree'
  <2>1. req[r] \in Request /\ req[r] # Idle
    BY <1>0, <1>5 DEF Checking, UserAnswer, RepoAnswer, Insert, Idle
  <2>2. call[r].at = "checking" /\ req[r].key = call[r].key /\ call[r] \in Calls
    BY <1>0, <2>1 DEF CallsAgree, At
  <2>3. PICK q : q # Idle /\ q.key = req[r].key /\ req' = [req EXCEPT ![r] = q]
    <3>1. CASE UserAnswer(r)
      <4>1. DEFINE q == [req[r] EXCEPT !.pc = "repo", !.since = now]
      <4>2. q.pc = "repo" /\ q.key = req[r].key
        BY <2>1 DEF Request
      <4>. QED
        BY <3>1, <4>2 DEF UserAnswer, Move, Idle
    <3>2. CASE RepoAnswer(r)
      <4>1. DEFINE q == [req[r] EXCEPT !.pc = "allowed",
                           !.admin = perm[<<req[r].key.token, req[r].key.repo>>] = "admin"]
      <4>2. q.pc = "allowed" /\ q.key = req[r].key
        BY <2>1 DEF Request
      <4>3. req' = [req EXCEPT ![r] = q]
        BY <3>2 DEF RepoAnswer, Move
      <4>4. q # Idle
        BY <4>2 DEF Idle
      <4>. HIDE DEF q
      <4>. QED
        BY ONLY <4>2, <4>3, <4>4, Zenon
    <3>3. CASE Insert(r)
      <4>1. DEFINE q == [req[r] EXCEPT !.pc = "granted"]
      <4>2. q.pc = "granted" /\ q.key = req[r].key
        BY <2>1 DEF Request
      <4>. QED
        BY <3>3, <4>2 DEF Insert, Move, Idle
    <3>. QED
      BY <1>5, <3>1, <3>2, <3>3 DEF Checking
  <2>4. call' = [call EXCEPT ![r] = call[r]]
    BY <1>0, <1>5 DEF Checking
  <2>. QED
    BY <2>2, <2>3, <2>4, CallMoves
<1>6. ASSUME NEW r \in Requests, Authenticated(r)
      PROVE  CallsAgree'
  <2>1. call[r] \in Calls /\ call[r] # None
    <3>1. req[r] # Idle
      BY <1>6 DEF Authenticated, Proceed, Idle
    <3>. QED
      BY <1>0, <3>1 DEF CallsAgree, At
  <2>2. PICK where \in {"work", "permit"} : call' = [call EXCEPT ![r] = [call[r] EXCEPT !.at = where]]
    BY <1>6 DEF Authenticated, Goto
  <2>3. [call[r] EXCEPT !.at = where] \in Calls /\ [call[r] EXCEPT !.at = where].at = where
    <3>1. where \in {"permit", "auth", "checking", "work", "body"}
      BY <2>2
    <3>. QED
      BY ONLY <2>1, <3>1, CallAt, Zenon
  <2>4. req' = [req EXCEPT ![r] = Idle]
    BY <1>6 DEF Authenticated, Proceed, Move
  <2>. QED
    BY <2>2, <2>3, <2>4, CallMoves
<1>7. ASSUME NEW r \in Requests, Refused(r) \/ Disconnect(r)
      PROVE  CallsAgree'
  <2>1. call' = [call EXCEPT ![r] = None]
    BY <1>7 DEF Refused, Disconnect, Drop
  <2>2. req' = [req EXCEPT ![r] = Idle]
    <3>1. CASE At(r, "auth") /\ UNCHANGED vars
      <4>1. req[r] = Idle /\ req' = req
        BY <3>1 DEF CallsAgree, At, vars
      <4>. QED
        BY <1>0, <4>1
    <3>. QED
      BY <1>7, <3>1 DEF Refused, Refuse, Disconnect, Move
  <2>. QED
    BY <1>0, <2>1, <2>2, CallMoves
<1>8. ASSUME NEW r \in Requests, Respond(r) \/ StreamEnds(r)
      PROVE  CallsAgree'
  <2>1. call' = [call EXCEPT ![r] = None] /\ req' = req
    BY <1>8 DEF Respond, StreamEnds, Drop, vars
  <2>2. req[r] = Idle
    BY <1>8 DEF Respond, StreamEnds, CallsAgree, At
  <2>3. req' = [req EXCEPT ![r] = Idle]
    BY <1>0, <2>1, <2>2
  <2>. QED
    BY <1>0, <2>1, <2>3, CallMoves
<1>9. ASSUME NEW r \in Requests, AcquireData(r) \/ AcquireBasic(r) \/ Stream(r)
      PROVE  CallsAgree'
  <2>1. call[r] \in Calls /\ call[r] # None /\ req[r] = Idle /\ req' = req
    BY <1>0, <1>9 DEF AcquireData, AcquireBasic, Stream, CallsAgree, At, vars
  <2>2. PICK where \in {"auth", "work", "body"} :
          call' = [call EXCEPT ![r] = [call[r] EXCEPT !.at = where]]
    BY <1>9 DEF AcquireData, AcquireBasic, Stream, Goto
  <2>3. [call[r] EXCEPT !.at = where] \in Calls /\ [call[r] EXCEPT !.at = where].at = where
    <3>1. where \in {"permit", "auth", "checking", "work", "body"}
      BY <2>2
    <3>. QED
      BY ONLY <2>1, <3>1, CallAt, Zenon
  <2>4. req' = [req EXCEPT ![r] = Idle]
    BY <1>0, <2>1
  <2>. QED
    BY <2>2, <2>3, <2>4, CallMoves
<1>. QED
  BY <1>2, <1>3, <1>4, <1>5, <1>6, <1>7, <1>8, <1>9 DEF RequestsNext

-----------------------------------------------------------------------------
\* RequestsInv holds in every state.
LEMMA RequestsInvariant == RequestsSpec => []RequestsInv
<1>1. RequestsInit => RequestsInv
  <2> SUFFICES ASSUME RequestsInit PROVE RequestsInv
    OBVIOUS
  <2>1. TypeOK
    BY TimesAssumption DEF RequestsInit, Init, TypeOK, Request
  <2>2. PermitsHeld
    BY FS_EmptySet, PermitsAssumption DEF RequestsInit, PermitsHeld
  <2>3. CallsAgree
    BY DEF RequestsInit, Init, CallsAgree, Calls, None, At
  <2>. QED
    BY <2>1, <2>2, <2>3 DEF RequestsInv
<1>2. RequestsInv /\ [RequestsNext]_allVars => RequestsInv'
  BY StepImplements, TypeStep, PermitsStep, AgreeStep DEF RequestsInv
<1>. QED
  BY <1>1, <1>2, PTL DEF RequestsSpec

\* The handlers implement ForgejoAuth, however they end: a client that
\* disconnects while its request authenticates leaves no trace in it.
THEOREM HandlersAuthenticate == RequestsSpec => Spec
<1>1. RequestsInit => Init
  BY DEF RequestsInit
<1>2. RequestsInv /\ [RequestsNext]_allVars => [Next]_vars
  BY StepImplements
<1>. QED
  BY <1>1, <1>2, RequestsInvariant, PTL DEF RequestsSpec, Spec

\* No request is granted a right that Forgejo did not give it less than
\* Ttl + Timeout ago, although clients disconnect.
THEOREM HandlersGrantRecent == RequestsSpec => []GrantsAreRecent
BY HandlersAuthenticate, GrantsStayRecent, PTL

\* The cache of decisions never exceeds its capacity.
THEOREM HandlersBoundCache == RequestsSpec => []CacheBounded
BY HandlersAuthenticate, CacheStaysBounded, PTL

\* Types, the two limits on permits, and that only a handler that awaits its
\* authentication has one under way.
THEOREM RequestsTypeCorrect == RequestsSpec => []RequestsTypeOK
<1>1. RequestsInv => RequestsTypeOK
  BY DEF RequestsInv, PermitsHeld, CallsAgree, RequestsTypeOK, At
<1>. QED
  BY <1>1, RequestsInvariant, PTL

\* The staging directory never holds more files than there are permits.
THEOREM StagingStaysBounded == RequestsSpec => []StagingBounded
<1>1. RequestsInv => StagingBounded
  <2> SUFFICES ASSUME PermitsHeld PROVE StagingBounded
    BY DEF RequestsInv
  <2>1. Cardinality(staged) <= Cardinality(basic) /\ IsFiniteSet(staged)
    BY FS_Subset DEF PermitsHeld
  <2>2. Cardinality(staged) \in Nat /\ Cardinality(basic) \in Nat /\ MaxBasic \in Nat
    BY <2>1, FS_CardinalityType, PermitsAssumption DEF PermitsHeld
  <2>. QED
    BY <2>1, <2>2 DEF PermitsHeld, StagingBounded
<1>. QED
  BY <1>1, RequestsInvariant, PTL

\* The work of a chunk request begins with a right held less than
\* Ttl + Timeout ago, however long it waited for its permit.
THEOREM DataWorkIsAuthorized == RequestsSpec => WorkAuthorized
<1>1. ASSUME RequestsInv, GrantsAreRecent, [RequestsNext]_allVars,
             NEW r \in Requests, ~ At(r, "none"), ~ At(r, "work"), At(r, "work")',
             call[r].op = "data"
      PROVE  HeldWithin(call[r].key, Ttl + Timeout)'
  <2> USE <1>1 DEF RequestsInv
  <2>0. call \in [Requests -> Calls] /\ None.at = "none"
    BY DEF CallsAgree, None
  <2>1. call[r] \in Calls /\ call[r] # None
    BY <2>0 DEF At
  <2>2. Authenticated(r)
    <3>1. call' # call
      BY DEF At
    <3>2. PICK s \in Requests :
            \/ \E op \in Ops, key \in Key : Arrive(s, op, key)
            \/ Authenticate(s) \/ Authenticated(s) \/ Drop(s)
            \/ AcquireData(s) \/ AcquireBasic(s) \/ Stream(s)
      BY <3>1 DEF RequestsNext, allVars, Environment, Checking, Refused, Respond, StreamEnds,
                  Disconnect
    <3>3. s = r
      BY <2>0, <3>2 DEF Arrive, Authenticate, Authenticated, Drop, AcquireData, AcquireBasic,
                        Stream, Goto, At
    <3>4. ~ Drop(r) /\ ~ AcquireBasic(r) /\ ~ Stream(r)
      BY <2>0 DEF Drop, AcquireBasic, Stream, Staging, At
    <3>5. ~ Authenticate(r) /\ ~ AcquireData(r)
      <4>1. ASSUME NEW where \in {"checking", "auth"}, Goto(r, where)
            PROVE  FALSE
        BY <2>0, <2>1, <4>1, CallAt DEF Goto, At
      <4>. QED
        BY <4>1 DEF Authenticate, AcquireData, PermitFirst
    <3>. QED
      BY <3>2, <3>3, <3>4, <3>5 DEF Arrive
  <2>3. req[r].pc = "granted" /\ UNCHANGED <<now, last>>
    BY <2>2 DEF Authenticated, Proceed
  <2>4. req[r].key = call[r].key /\ req[r] # Idle
    BY <2>3 DEF CallsAgree, Idle
  <2>5. req[r].key \in Granted(r)
    BY <2>4, RequestFields, RightsOfKey DEF TypeOK, Granted
  <2>6. HeldWithin(call[r].key, Ttl + Timeout)
    BY <2>3, <2>4, <2>5 DEF GrantsAreRecent
  <2>7. call'[r].key = call[r].key
    <3>1. PICK where \in {"work", "permit"} :
            call' = [call EXCEPT ![r] = [call[r] EXCEPT !.at = where]]
      BY <2>2 DEF Authenticated, Goto
    <3>. QED
      BY <2>0, <2>1, <3>1, CallAt
  <2>. QED
    BY <2>3, <2>6, <2>7 DEF HeldWithin
<1>2. RequestsInv /\ GrantsAreRecent /\ [RequestsNext]_allVars =>
        [\A r \in Requests :
           ~ At(r, "none") /\ ~ At(r, "work") /\ At(r, "work")' /\ call[r].op = "data"
             => HeldWithin(call[r].key, Ttl + Timeout)']_allVars
  BY <1>1
<1>. QED
  BY <1>2, RequestsInvariant, HandlersGrantRecent, PTL DEF RequestsSpec, WorkAuthorized
=============================================================================
