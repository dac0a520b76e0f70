-------------------------- MODULE ServerRequests --------------------------
(***************************************************************************)
(* The path of a request through the server: authentication, the two       *)
(* semaphores that bound the data plane, the staged file of a basic        *)
(* transfer, and a client that may disconnect at any time.                 *)
(*                                                                         *)
(* The handlers of the chunk protocol acquire a permit of data_requests    *)
(* and then authenticate; those of basic transfers authenticate and then   *)
(* acquire a permit of basic_transfers.  The other handlers authenticate   *)
(* and take no permit.                                                     *)
(***************************************************************************)
EXTENDS ForgejoAuth

CONSTANTS
  MaxData,    \* permits of data_requests, 64
  MaxBasic    \* permits of basic_transfers, 2

ASSUME PermitsAssumption == {MaxData, MaxBasic} \subseteq Nat \ {0}

VARIABLES
  data,       \* requests with a permit of data_requests
  basic,      \* requests with a permit of basic_transfers
  staged,     \* requests with a temporary file in the staging directory
  call        \* the handler of each request

allVars == <<vars, data, basic, staged, call>>

\* Handlers: a chunk's upload, finalization or download; a basic upload; a
\* basic download; anything else.
Ops == {"data", "upload", "download", "other"}
AccessOf(op) ==
  CASE op \in {"data", "other"} -> {"Read", "Write"}
    [] op = "upload" -> {"Write"}
    [] op = "download" -> {"Read"}

None == [at |-> "none"]
Calls ==
  {None} \cup [at : {"permit", "auth", "checking", "work", "body"}, op : Ops, key : Key]

RequestsTypeOK ==
  /\ TypeOK
  /\ {data, basic, staged} \subseteq SUBSET Requests
  /\ Cardinality(data) <= MaxData
  /\ Cardinality(basic) <= MaxBasic
  /\ call \in [Requests -> Calls]
  /\ \A r \in Requests : call[r].at # "checking" => req[r] = Idle

RequestsInit ==
  /\ Init
  /\ data = {}
  /\ basic = {}
  /\ staged = {}
  /\ call = [r \in Requests |-> None]

At(r, where) == call[r].at = where
Goto(r, where) == call' = [call EXCEPT ![r].at = where]

\* Whether a handler acquires its permit before it authenticates.
\* (Mutant: never.)
PermitLast(op) == FALSE
PermitFirst(op) == op = "data"

Staging(op) == op \in {"upload", "download"}

-----------------------------------------------------------------------------
(* A request arrives and authenticates.                                     *)

Arrive(r, op, key) ==
  /\ At(r, "none")
  /\ key.access \in AccessOf(op)
  /\ call' = [call EXCEPT ![r] =
                [at |-> IF PermitFirst(op) THEN "permit" ELSE "auth", op |-> op, key |-> key]]
  /\ UNCHANGED <<vars, data, basic, staged>>

\* Authentication begins with the lookup in the cache.
Authenticate(r) ==
  /\ At(r, "auth")
  /\ Hit(r, call[r].key) \/ Miss(r, call[r].key)
  /\ Goto(r, "checking")
  /\ UNCHANGED <<data, basic, staged>>

\* Its later steps are those of ForgejoAuth.
Checking(r) ==
  /\ UserAnswer(r) \/ RepoAnswer(r) \/ Insert(r)
  /\ UNCHANGED <<data, basic, staged, call>>

\* The handler goes on with the identity, to its permit or to its work.
Authenticated(r) ==
  /\ Proceed(r)
  /\ Goto(r, IF call[r].op = "other" \/ PermitFirst(call[r].op) THEN "work" ELSE "permit")
  /\ UNCHANGED <<data, basic, staged>>

\* A chunk request gets its permit.
AcquireData(r) ==
  /\ At(r, "permit") /\ call[r].op = "data"
  /\ Cardinality(data) < MaxData
  /\ data' = data \cup {r}
  /\ Goto(r, IF PermitFirst("data") THEN "auth" ELSE "work")
  /\ UNCHANGED <<vars, basic, staged>>

\* A basic transfer gets its permit and creates its temporary file.
AcquireBasic(r) ==
  /\ At(r, "permit") /\ Staging(call[r].op)
  /\ Cardinality(basic) < MaxBasic
  /\ basic' = basic \cup {r}
  /\ staged' = staged \cup {r}
  /\ Goto(r, "work")
  /\ UNCHANGED <<vars, data>>

-----------------------------------------------------------------------------
(* The handler ends.  Permit and temporary file are values its future owns  *)
(* and are dropped with it.                                                 *)

Drop(r) ==
  /\ call' = [call EXCEPT ![r] = None]
  /\ data' = data \ {r}
  /\ basic' = basic \ {r}
  /\ staged' = staged \ {r}

\* Authentication refuses, for want of the header before it has looked at the
\* cache.
Refused(r) ==
  /\ Refuse(r) \/ (At(r, "auth") /\ UNCHANGED vars)
  /\ Drop(r)

\* The handler returns, with an answer or an error; an OID, a length or a
\* repository that is refused ends a basic transfer before its permit.
Respond(r) ==
  /\ At(r, "work") \/ (At(r, "permit") /\ ~ PermitFirst(call[r].op))
  /\ Drop(r)
  /\ UNCHANGED vars

\* download_basic returns a stream that owns the file and the permit.
\* (Mutant: it owns the file only.)
StreamWithoutPermit(r) ==
  /\ At(r, "work") /\ call[r].op = "download"
  /\ Goto(r, "body")
  /\ basic' = basic \ {r}
  /\ UNCHANGED <<vars, data, staged>>
Stream(r) ==
  /\ At(r, "work") /\ call[r].op = "download"
  /\ Goto(r, "body")
  /\ UNCHANGED <<vars, data, basic, staged>>

\* The last byte is sent.
StreamEnds(r) ==
  /\ At(r, "body")
  /\ Drop(r)
  /\ UNCHANGED vars

\* The client disconnects: the server drops the handler's future, or the
\* stream, wherever it is.
Disconnect(r) ==
  /\ ~ At(r, "none")
  /\ Drop(r)
  /\ req' = [req EXCEPT ![r] = Idle]
  /\ UNCHANGED <<now, live, perm, cache, last>>

-----------------------------------------------------------------------------
Environment ==
  /\ Change \/ Tick
  /\ UNCHANGED <<data, basic, staged, call>>

RequestsNext ==
  \/ Environment
  \/ \E r \in Requests :
       \/ \E op \in Ops, key \in Key : Arrive(r, op, key)
       \/ Authenticate(r) \/ Checking(r) \/ Authenticated(r) \/ Refused(r)
       \/ AcquireData(r) \/ AcquireBasic(r)
       \/ Respond(r) \/ Stream(r) \/ StreamEnds(r) \/ Disconnect(r)

RequestsSpec == RequestsInit /\ [][RequestsNext]_allVars

-----------------------------------------------------------------------------
\* However transfers end, the staging directory never holds more temporary
\* files than there are permits: a download keeps its permit after its handler
\* has returned, until its file is removed.
StagingBounded == Cardinality(staged) <= MaxBasic

\* A request of the chunk protocol, however long it waited for a permit,
\* begins its work only with a right that Forgejo granted less than
\* Ttl + Timeout before: it is authenticated after the wait.  (The work of a
\* basic transfer begins after a wait of any length, with an older decision.)
WorkAuthorized ==
  [][\A r \in Requests :
       ~ At(r, "none") /\ ~ At(r, "work") /\ At(r, "work")' /\ call[r].op = "data"
         => HeldWithin(call[r].key, Ttl + Timeout)']_allVars
=============================================================================
