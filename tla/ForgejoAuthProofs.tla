------------------------- MODULE ForgejoAuthProofs -------------------------
(***************************************************************************)
(* Proofs about ForgejoAuth for any tokens, repositories, requests, times  *)
(* and cache capacity.                                                     *)
(***************************************************************************)
EXTENDS ForgejoAuth, FiniteSetTheorems, TLAPS

Active(r) == req[r].pc \in {"user", "repo", "allowed"}

\* What the fields of a request and of an entry are.
LEMMA RequestFields ==
  ASSUME NEW q \in Request, q # Idle
  PROVE  /\ q.pc \in {"user", "repo", "allowed", "granted"}
         /\ q.key \in Key /\ q.since \in Nat /\ q.admin \in BOOLEAN
BY DEF Request

\* The fields of a cache entry.
LEMMA EntryFields ==
  ASSUME NEW e \in Entry
  PROVE  e.key \in Key /\ e.admin \in BOOLEAN /\ e.expires \in Nat
BY DEF Entry

\* An entry grants at least the access it was made for.
LEMMA RightsOfKey ==
  ASSUME NEW key \in Key, NEW admin \in BOOLEAN
  PROVE  /\ RightsOf(key, admin) \subseteq Rights
         /\ key \in RightsOf(key, admin)
BY DEF RightsOf, Rights, Key

\* A sufficient answer of Forgejo grants what the request will be granted.
LEMMA AnswerGrants ==
  ASSUME NEW key \in Key, NEW l, NEW p, key.token \in l,
         Allows(key.access, p[<<key.token, key.repo>>])
  PROVE  RightsOf(key, p[<<key.token, key.repo>>] = "admin") \subseteq Granting(l, p)
<1>1. key \in Granting(l, p)
  BY DEF Key, Rights, Granting, Allows
<1>2. ASSUME p[<<key.token, key.repo>>] = "admin"
      PROVE  [key EXCEPT !.access = "Admin"] \in Granting(l, p)
  BY <1>2 DEF Key, Rights, Granting
<1>. QED
  BY <1>1, <1>2 DEF RightsOf

-----------------------------------------------------------------------------
(* Types.                                                                   *)

\* Every step preserves the types.
LEMMA TypeStep ==
  ASSUME TypeOK, [Next]_vars
  PROVE  TypeOK'
<1> USE DEF TypeOK
<1>0. MaxTime \in Nat /\ Ttl \in Nat /\ now \in Nat
  BY TimesAssumption
<1>1. CASE UNCHANGED vars
  BY <1>1 DEF vars
<1>2. CASE Change
  <2>1. live' \subseteq Tokens /\ perm' \in [Tokens \X Repos -> Levels]
    BY <1>2 DEF Change
  <2>2. last' \in [Rights -> 0 .. MaxTime]
    BY <1>0, <1>2 DEF Change, Witness
  <2>. QED
    BY <1>2, <2>1, <2>2 DEF Change
<1>3. CASE Tick
  <2>1. now' \in 1 .. MaxTime /\ last' \in [Rights -> 0 .. MaxTime]
    BY <1>0, <1>3 DEF Tick, Witness
  <2>. QED
    BY <1>3, <2>1 DEF Tick
<1>4. ASSUME NEW r \in Requests, NEW key \in Key, Hit(r, key)
      PROVE  TypeOK'
  <2>1. PICK e \in cache : Move(r, [pc |-> "granted", key |-> key, since |-> now, admin |-> e.admin])
    BY <1>4 DEF Hit
  <2>2. [pc |-> "granted", key |-> key, since |-> now, admin |-> e.admin] \in Request
    BY <1>0, EntryFields DEF Request
  <2>. QED
    BY <1>4, <2>1, <2>2 DEF Hit, Move
<1>5. ASSUME NEW r \in Requests, NEW key \in Key, Miss(r, key)
      PROVE  TypeOK'
  <2>1. [pc |-> "user", key |-> key, since |-> now, admin |-> FALSE] \in Request
    BY <1>0 DEF Request
  <2>. QED
    BY <1>5, <2>1 DEF Miss, Move
<1>6. ASSUME NEW r \in Requests, UserAnswer(r)
      PROVE  TypeOK'
  <2>1. req[r] \in Request /\ req[r] # Idle
    BY <1>6 DEF UserAnswer, Idle
  <2>2. [req[r] EXCEPT !.pc = "repo", !.since = now] \in Request
    BY <1>0, <2>1 DEF Request
  <2>. QED
    BY <1>6, <2>2 DEF UserAnswer, Move
<1>7. ASSUME NEW r \in Requests, RepoAnswer(r)
      PROVE  TypeOK'
  <2>1. req[r] \in Request /\ req[r] # Idle
    BY <1>7 DEF RepoAnswer, Idle
  <2>2. \A b \in BOOLEAN : [req[r] EXCEPT !.pc = "allowed", !.admin = b] \in Request
    BY <2>1 DEF Request
  <2>3. req' \in [Requests -> Request]
    BY <1>7, <2>2 DEF RepoAnswer, Move
  <2>. QED
    BY <1>7, <2>3 DEF RepoAnswer
<1>8. ASSUME NEW r \in Requests, Insert(r)
      PROVE  TypeOK'
  <2>1. req[r] \in Request /\ req[r] # Idle
    BY <1>8 DEF Insert, Idle
  <2>2. DEFINE new == [key |-> req[r].key, admin |-> req[r].admin, expires |-> now + Ttl]
  <2>3. new \in Entry /\ new.key = req[r].key
    BY <1>0, <2>1, RequestFields DEF Entry
  <2>4. PICK kept \in Evict({e \in cache : Fresh(e)}) :
          cache' = {e \in kept : e.key # req[r].key} \cup {new}
    BY <1>8 DEF Insert
  <2>5. kept \subseteq cache
    BY <2>4 DEF Evict
  <2>. HIDE DEF new
  <2>6. cache' \subseteq Entry /\ \A d, e \in cache' : d.key = e.key => d = e
    BY <2>3, <2>4, <2>5
  <2>7. [req[r] EXCEPT !.pc = "granted"] \in Request
    BY <2>1 DEF Request
  <2>. QED
    BY <1>8, <2>6, <2>7 DEF Insert, Move
<1>9. ASSUME NEW r \in Requests, Refuse(r) \/ Proceed(r)
      PROVE  TypeOK'
  BY <1>9 DEF Refuse, Proceed, Move, Request
<1>. QED
  BY <1>1, <1>2, <1>3, <1>4, <1>5, <1>6, <1>7, <1>8, <1>9 DEF Next

\* Every variable keeps its type, and the cache has one entry for a key,
\* although two requests may insert one at the same time.
THEOREM TypeInvariant == Spec => []TypeOK
<1>1. Init => TypeOK
  BY TimesAssumption DEF Init, TypeOK, Request
<1>. QED
  BY <1>1, TypeStep, PTL DEF Spec

-----------------------------------------------------------------------------
(* The age of a granted right.                                              *)

\* The history variable is true to Forgejo's state.
LastIsTrue ==
  \A k \in Rights : /\ last[k] <= now
                    /\ k \in Granting(live, perm) => last[k] = now

\* The HTTP client gives up a request after Timeout.
AnswersAreTimely ==
  \A r \in Requests : Active(r) => req[r].since \in 1 .. now /\ now - req[r].since <= Timeout

\* What a received answer grants, Forgejo granted after the request was sent.
AllowedSinceSent ==
  \A r \in Requests : req[r].pc = "allowed" =>
    \A k \in Granted(r) : req[r].since <= last[k]

\* What an entry grants, Forgejo granted at most Timeout before the insertion.
EntriesAreRecent ==
  \A e \in cache : \A k \in RightsOf(e.key, e.admin) :
    last[k] # 0 /\ e.expires <= last[k] + Ttl + Timeout

Recent ==
  /\ LastIsTrue
  /\ AnswersAreTimely
  /\ AllowedSinceSent
  /\ EntriesAreRecent
  /\ GrantsAreRecent

\* A right once held is never forgotten, and its time never goes back.
LEMMA LastGrows ==
  ASSUME TypeOK, LastIsTrue, Change \/ Tick
  PROVE  /\ LastIsTrue'
         /\ \A k \in Rights : last'[k] \in Nat /\ last[k] \in Nat /\ last[k] <= last'[k]
<1>0. MaxTime \in Nat /\ now \in Nat
  BY TimesAssumption DEF TypeOK
<1>1. \A k \in Rights : last[k] \in Nat
  BY <1>0 DEF TypeOK
<1>2. PICK t \in Nat : now <= t /\ now' = t /\ Witness(t, live', perm')
  BY <1>0 DEF Change, Tick, Witness
<1>3. \A k \in Rights : last'[k] = IF k \in Granting(live', perm') THEN t ELSE last[k]
  BY <1>2 DEF Witness
<1>4. \A k \in Rights : last[k] <= now
  BY DEF LastIsTrue
<1>5. \A k \in Rights : last'[k] \in Nat /\ last[k] <= last'[k] /\ last'[k] <= t
  BY ONLY <1>0, <1>1, <1>2, <1>3, <1>4
<1>6. LastIsTrue'
  BY <1>2, <1>3, <1>5 DEF LastIsTrue
<1>. QED
  BY <1>1, <1>5, <1>6

\* The rights of an entry, or of a request, are members of Rights.
LEMMA RightsTyped ==
  ASSUME TypeOK
  PROVE  /\ \A e \in cache : RightsOf(e.key, e.admin) \subseteq Rights /\ e.expires \in Nat
         /\ \A r \in Requests : req[r] # Idle =>
              Granted(r) \subseteq Rights /\ req[r].since \in Nat /\ req[r].key \in Key
BY RequestFields, EntryFields, RightsOfKey DEF TypeOK, Granted

\* Neither the clock nor a change at Forgejo makes a right too old.
LEMMA PassingTime ==
  ASSUME TypeOK, Recent, Change \/ Tick
  PROVE  Recent'
<1>0. now \in Nat /\ Ttl \in Nat /\ Timeout \in Nat /\ MaxTime \in Nat
  BY TimesAssumption DEF TypeOK
<1>1. LastIsTrue' /\ \A k \in Rights : last'[k] \in Nat /\ last[k] \in Nat /\ last[k] <= last'[k]
  BY LastGrows DEF Recent
<1>2. req' = req /\ cache' = cache
  BY DEF Change, Tick
<1>3. AnswersAreTimely'
  <2>1. CASE Change
    BY <1>2, <2>1 DEF Change, Recent, AnswersAreTimely, Active
  <2>2. CASE Tick
    <3>1. \A r \in Requests : Active(r) => now - req[r].since < Timeout /\ req[r].since \in 1 .. now
      BY <2>2 DEF Tick, Active, Recent, AnswersAreTimely
    <3>2. \A r \in Requests : Active(r)' = Active(r)
      BY <1>2 DEF Active
    <3>. QED
      BY <1>0, <1>2, <2>2, <3>1, <3>2 DEF Tick, AnswersAreTimely
  <2>. QED
    BY <2>1, <2>2
<1>4. AllowedSinceSent'
  <2> SUFFICES ASSUME NEW r \in Requests, req[r].pc = "allowed", NEW k \in Granted(r)
               PROVE  req[r].since <= last'[k]
    BY <1>2 DEF AllowedSinceSent, Granted
  <2>1. req[r].since <= last[k]
    BY DEF Recent, AllowedSinceSent
  <2>2. req[r].since \in Nat /\ k \in Rights
    BY RightsTyped DEF Idle
  <2>. QED
    BY ONLY <1>1, <2>1, <2>2
<1>5. EntriesAreRecent'
  <2> SUFFICES ASSUME NEW e \in cache, NEW k \in RightsOf(e.key, e.admin)
               PROVE  last'[k] # 0 /\ e.expires <= last'[k] + Ttl + Timeout
    BY <1>2 DEF EntriesAreRecent
  <2>1. last[k] # 0 /\ e.expires <= last[k] + Ttl + Timeout
    BY DEF Recent, EntriesAreRecent
  <2>2. e.expires \in Nat /\ k \in Rights
    BY RightsTyped
  <2>. QED
    BY ONLY <1>0, <1>1, <2>1, <2>2
<1>6. GrantsAreRecent'
  <2>1. CASE Tick
    BY <1>2, <2>1 DEF Tick, GrantsAreRecent
  <2>2. CASE Change
    <3> SUFFICES ASSUME NEW r \in Requests, req[r].pc = "granted", NEW k \in Granted(r)
                 PROVE  last'[k] # 0 /\ now - last'[k] < Ttl + Timeout
      BY <1>2, <2>2 DEF Change, GrantsAreRecent, HeldWithin, Granted
    <3>1. last[k] # 0 /\ now - last[k] < Ttl + Timeout
      BY DEF Recent, GrantsAreRecent, HeldWithin
    <3>2. k \in Rights
      BY RightsTyped DEF Idle
    <3>. QED
      BY ONLY <1>0, <1>1, <3>1, <3>2
  <2>. QED
    BY <2>1, <2>2
<1>. QED
  BY <1>1, <1>3, <1>4, <1>5, <1>6 DEF Recent

\* A step of one request, to the state q.
LEMMA RequestMoves ==
  ASSUME TypeOK, Recent, NEW r \in Requests, NEW q, Move(r, q),
         UNCHANGED <<now, live, perm, last>>,
         \A e \in cache' : \A k \in RightsOf(e.key, e.admin) :
            last[k] # 0 /\ e.expires <= last[k] + Ttl + Timeout,
         q.pc \in {"user", "repo", "allowed"} =>
            q.since \in 1 .. now /\ now - q.since <= Timeout,
         q.pc = "allowed" => \A k \in RightsOf(q.key, q.admin) : q.since <= last[k],
         q.pc = "granted" => \A k \in RightsOf(q.key, q.admin) : HeldWithin(k, Ttl + Timeout)
  PROVE  Recent'
<1>1. req' = [req EXCEPT ![r] = q] /\ req'[r] = q /\ \A s \in Requests \ {r} : req'[s] = req[s]
  BY DEF Move, TypeOK
<1>2. LastIsTrue'
  BY DEF Recent, LastIsTrue
<1>3. AnswersAreTimely'
  BY <1>1 DEF Recent, AnswersAreTimely, Active
<1>4. AllowedSinceSent'
  BY <1>1 DEF Recent, AllowedSinceSent, Granted
<1>5. EntriesAreRecent'
  BY DEF EntriesAreRecent
<1>6. GrantsAreRecent'
  BY <1>1 DEF Recent, GrantsAreRecent, Granted, HeldWithin
<1>. QED
  BY <1>2, <1>3, <1>4, <1>5, <1>6 DEF Recent

\* Every step keeps the ages of rights within their bounds.
LEMMA RecentStep ==
  ASSUME TypeOK, Recent, [Next]_vars
  PROVE  Recent'
<1>0. now \in Nat \ {0} /\ Ttl \in Nat \ {0} /\ Timeout \in Nat \ {0}
  BY TimesAssumption DEF TypeOK
<1>1. \A k \in Rights : last[k] \in Nat /\ last[k] <= now
  BY TimesAssumption DEF TypeOK, Recent, LastIsTrue
<1>2. \A e \in cache : \A k \in RightsOf(e.key, e.admin) :
        last[k] # 0 /\ e.expires <= last[k] + Ttl + Timeout
  BY DEF Recent, EntriesAreRecent
<1>3. CASE UNCHANGED vars
  BY <1>3 DEF vars, Recent, LastIsTrue, AnswersAreTimely, AllowedSinceSent,
              EntriesAreRecent, GrantsAreRecent, Active, Granted, HeldWithin
<1>4. CASE Change \/ Tick
  BY <1>4, PassingTime
<1>5. ASSUME NEW r \in Requests, NEW key \in Key, Hit(r, key)
      PROVE  Recent'
  <2>1. PICK e \in cache : /\ e.key = key /\ e.expires > now
                           /\ Move(r, [pc |-> "granted", key |-> key, since |-> now,
                                       admin |-> e.admin])
    BY <1>5 DEF Hit, Fresh
  <2>2. \A k \in RightsOf(key, e.admin) : HeldWithin(k, Ttl + Timeout)
    <3> SUFFICES ASSUME NEW k \in RightsOf(key, e.admin)
                 PROVE  last[k] # 0 /\ now - last[k] < Ttl + Timeout
      BY DEF HeldWithin
    <3>1. k \in Rights /\ e.expires \in Nat
      BY <2>1, RightsTyped
    <3>2. last[k] # 0 /\ e.expires <= last[k] + Ttl + Timeout
      BY <1>2, <2>1
    <3>. QED
      BY ONLY <1>0, <1>1, <2>1, <3>1, <3>2
  <2>3. UNCHANGED <<now, live, perm, cache, last>>
    BY <1>5 DEF Hit
  <2>. QED
    BY <1>2, <2>1, <2>2, <2>3, RequestMoves
<1>6. ASSUME NEW r \in Requests, NEW key \in Key, Miss(r, key)
      PROVE  Recent'
  <2>1. cache' \subseteq cache /\ UNCHANGED <<now, live, perm, last>>
    BY <1>6 DEF Miss
  <2>2. Move(r, [pc |-> "user", key |-> key, since |-> now, admin |-> FALSE])
    BY <1>6 DEF Miss
  <2>3. now \in 1 .. now /\ now - now <= Timeout
    BY <1>0
  <2>. QED
    BY <1>2, <2>1, <2>2, <2>3, RequestMoves
<1>7. ASSUME NEW r \in Requests, UserAnswer(r)
      PROVE  Recent'
  <2>1. req[r] \in Request /\ req[r] # Idle
    BY <1>7 DEF UserAnswer, Idle, TypeOK
  <2>2. DEFINE q == [req[r] EXCEPT !.pc = "repo", !.since = now]
  <2>3. q.pc = "repo" /\ q.since = now
    BY <2>1 DEF Request
  <2>4. Move(r, q) /\ UNCHANGED <<now, live, perm, cache, last>>
    BY <1>7 DEF UserAnswer
  <2>5. now \in 1 .. now /\ now - now <= Timeout
    BY <1>0
  <2>. HIDE DEF q
  <2>. QED
    BY <1>2, <2>3, <2>4, <2>5, RequestMoves
<1>8. ASSUME NEW r \in Requests, RepoAnswer(r)
      PROVE  Recent'
  <2>1. req[r] \in Request /\ req[r] # Idle /\ req[r].key \in Key /\ req[r].since \in Nat
    BY <1>8, RequestFields DEF RepoAnswer, Idle, TypeOK
  <2>2. DEFINE level == perm[<<req[r].key.token, req[r].key.repo>>]
               q == [req[r] EXCEPT !.pc = "allowed", !.admin = level = "admin"]
  <2>3. /\ q.pc = "allowed" /\ q.since = req[r].since /\ q.key = req[r].key
        /\ q.admin = (level = "admin")
    BY <2>1 DEF Request
  <2>4. Move(r, q) /\ UNCHANGED <<now, live, perm, cache, last>>
    BY <1>8 DEF RepoAnswer
  <2>5. q.since \in 1 .. now /\ now - q.since <= Timeout
    BY <1>8, <2>3 DEF RepoAnswer, Recent, AnswersAreTimely, Active
  <2>6. RightsOf(q.key, q.admin) \subseteq Granting(live, perm)
    BY <1>8, <2>1, <2>3, AnswerGrants DEF RepoAnswer
  <2>7. \A k \in RightsOf(q.key, q.admin) : q.since <= last[k]
    <3>1. \A k \in Granting(live, perm) : last[k] = now
      BY DEF Granting, Recent, LastIsTrue
    <3>. QED
      BY <2>5, <2>6, <3>1
  <2>. HIDE DEF q
  <2>. QED
    BY <1>2, <2>3, <2>4, <2>5, <2>7, RequestMoves
<1>9. ASSUME NEW r \in Requests, Insert(r)
      PROVE  Recent'
  <2>1. /\ req[r] \in Request /\ req[r] # Idle /\ req[r].since \in Nat
        /\ Granted(r) \subseteq Rights /\ req[r].pc = "allowed"
    BY <1>9, RightsTyped DEF Insert, Idle, TypeOK
  <2>2. DEFINE q == [req[r] EXCEPT !.pc = "granted"]
               new == [key |-> req[r].key, admin |-> req[r].admin, expires |-> now + Ttl]
  <2>3. q.pc = "granted" /\ q.key = req[r].key /\ q.admin = req[r].admin
    BY <2>1 DEF Request
  <2>4. Move(r, q) /\ UNCHANGED <<now, live, perm, last>>
    BY <1>9 DEF Insert
  <2>5. now - req[r].since <= Timeout /\ req[r].since \in 1 .. now
    BY <2>1 DEF Recent, AnswersAreTimely, Active
  <2>6. \A k \in Granted(r) : req[r].since <= last[k]
    BY <2>1 DEF Recent, AllowedSinceSent
  <2>7. \A k \in Granted(r) : last[k] # 0 /\ now <= last[k] + Timeout
    BY ONLY <1>0, <1>1, <2>1, <2>5, <2>6
  <2>8. \A k \in RightsOf(q.key, q.admin) : HeldWithin(k, Ttl + Timeout)
    <3>1. \A k \in Granted(r) : last[k] # 0 /\ now - last[k] < Ttl + Timeout
      BY ONLY <1>0, <1>1, <2>1, <2>7
    <3>. QED
      BY <2>3, <3>1 DEF HeldWithin, Granted
  <2>9. \A k \in RightsOf(new.key, new.admin) :
          last[k] # 0 /\ new.expires <= last[k] + Ttl + Timeout
    <3>1. \A k \in Granted(r) : last[k] # 0 /\ now + Ttl <= last[k] + Ttl + Timeout
      BY ONLY <1>0, <1>1, <2>1, <2>7
    <3>. QED
      BY <3>1 DEF Granted
  <2>10. PICK kept \in Evict({e \in cache : Fresh(e)}) :
           cache' = {e \in kept : e.key # req[r].key} \cup {new}
    BY <1>9 DEF Insert
  <2>11. kept \subseteq cache
    BY <2>10 DEF Evict
  <2>. HIDE DEF q, new
  <2>12. \A e \in cache' : \A k \in RightsOf(e.key, e.admin) :
           last[k] # 0 /\ e.expires <= last[k] + Ttl + Timeout
    BY <1>2, <2>9, <2>10, <2>11
  <2>. QED
    BY <2>3, <2>4, <2>8, <2>12, RequestMoves
<1>10. ASSUME NEW r \in Requests, Refuse(r) \/ Proceed(r)
       PROVE  Recent'
  <2>1. Move(r, Idle) /\ UNCHANGED <<now, live, perm, cache, last>> /\ Idle.pc = "idle"
    BY <1>10 DEF Refuse, Proceed, Idle
  <2>. QED
    BY <1>2, <2>1, RequestMoves
<1>. QED
  BY <1>3, <1>4, <1>5, <1>6, <1>7, <1>8, <1>9, <1>10 DEF Next

\* No request is granted, from the cache or by an answer, a right that Forgejo
\* did not give it less than Ttl + Timeout ago.
THEOREM GrantsStayRecent == Spec => []GrantsAreRecent
<1>1. Init => Recent
  <2> SUFFICES ASSUME Init PROVE Recent
    OBVIOUS
  <2>1. LastIsTrue
    BY DEF Init, LastIsTrue
  <2>2. \A r \in Requests : req[r].pc = "idle"
    BY DEF Init, Idle
  <2>. QED
    BY <2>1, <2>2 DEF Init, Recent, AnswersAreTimely, AllowedSinceSent, EntriesAreRecent,
                      GrantsAreRecent, Active
<1>2. TypeOK /\ Recent /\ [Next]_vars => Recent'
  BY RecentStep
<1>3. Recent => GrantsAreRecent
  BY DEF Recent
<1>. QED
  BY <1>1, <1>2, <1>3, TypeInvariant, PTL DEF Spec

-----------------------------------------------------------------------------
(* The size of the cache.                                                   *)

FiniteCache == IsFiniteSet(cache) /\ CacheBounded

\* Eviction leaves room for one entry.
LEMMA EvictionMakesRoom ==
  ASSUME NEW C, IsFiniteSet(C), Cardinality(C) <= Capacity, NEW kept \in Evict(C)
  PROVE  IsFiniteSet(kept) /\ Cardinality(kept) < Capacity
<1>0. Capacity \in Nat
  BY CapacityAssumption
<1>1. Cardinality(C) \in Nat
  BY FS_CardinalityType
<1>2. CASE Cardinality(C) >= Capacity
  <2>1. PICK e \in C : kept = C \ {e}
    BY <1>2 DEF Evict
  <2>2. IsFiniteSet(kept) /\ Cardinality(kept) = Cardinality(C) - 1
    BY <2>1, FS_RemoveElement
  <2>. QED
    BY ONLY <1>0, <1>1, <2>2, Cardinality(C) <= Capacity
<1>3. CASE ~ (Cardinality(C) >= Capacity)
  <2>1. kept = C
    BY <1>3 DEF Evict
  <2>. QED
    BY <1>0, <1>1, <1>3, <2>1
<1>. QED
  BY <1>2, <1>3

\* The cache never holds more than Capacity entries.
THEOREM CacheStaysBounded == Spec => []CacheBounded
<1>0. Capacity \in Nat
  BY CapacityAssumption
<1>1. Init => FiniteCache
  BY <1>0, FS_EmptySet DEF Init, FiniteCache, CacheBounded
<1>2. ASSUME FiniteCache, [Next]_vars
      PROVE  FiniteCache'
  <2>1. CASE cache' \subseteq cache
    <3>1. IsFiniteSet(cache') /\ Cardinality(cache') <= Cardinality(cache)
      BY <2>1, <1>2, FS_Subset DEF FiniteCache
    <3>2. Cardinality(cache') \in Nat /\ Cardinality(cache) \in Nat
      BY <1>2, <3>1, FS_CardinalityType DEF FiniteCache
    <3>. QED
      BY <1>0, <1>2, <3>1, <3>2 DEF FiniteCache, CacheBounded
  <2>2. ASSUME NEW r \in Requests, Insert(r)
        PROVE  FiniteCache'
    <3>1. DEFINE fresh == {e \in cache : Fresh(e)}
                 new == [key |-> req[r].key, admin |-> req[r].admin, expires |-> now + Ttl]
    <3>2. PICK kept \in Evict(fresh) :
            cache' = {e \in kept : e.key # req[r].key} \cup {new}
      BY <2>2 DEF Insert
    <3>3. fresh \subseteq cache /\ {e \in kept : e.key # req[r].key} \subseteq kept
      OBVIOUS
    <3>4. /\ IsFiniteSet(fresh) /\ Cardinality(fresh) <= Cardinality(cache)
          /\ Cardinality(fresh) \in Nat /\ Cardinality(cache) \in Nat
      BY <1>2, <3>3, FS_Subset, FS_CardinalityType DEF FiniteCache
    <3>. HIDE DEF fresh, new
    <3>5. Cardinality(fresh) <= Capacity
      BY <1>0, <1>2, <3>4 DEF FiniteCache, CacheBounded
    <3>6. IsFiniteSet(kept) /\ Cardinality(kept) < Capacity
      BY <3>2, <3>4, <3>5, EvictionMakesRoom
    <3>7. DEFINE others == {e \in kept : e.key # req[r].key}
    <3>8. IsFiniteSet(others) /\ Cardinality(others) <= Cardinality(kept)
      BY <3>3, <3>6, FS_Subset
    <3>. HIDE DEF others
    <3>9. /\ IsFiniteSet(others \cup {new})
          /\ Cardinality(others \cup {new}) \in {Cardinality(others), Cardinality(others) + 1}
      BY <3>8, FS_AddElement
    <3>10. Cardinality(others) \in Nat /\ Cardinality(kept) \in Nat
      BY <3>6, <3>8, FS_CardinalityType
    <3>11. Cardinality(others \cup {new}) <= Capacity
      BY ONLY <1>0, <3>6, <3>8, <3>9, <3>10
    <3>. QED
      BY <3>2, <3>9, <3>11 DEF FiniteCache, CacheBounded, others
  <2>. QED
    BY <1>2, <2>1, <2>2 DEF Next, vars, Change, Tick, Hit, Miss, UserAnswer, RepoAnswer,
                            Refuse, Proceed
<1>3. FiniteCache => CacheBounded
  BY DEF FiniteCache
<1>. QED
  BY <1>1, <1>2, <1>3, PTL DEF Spec
=============================================================================
