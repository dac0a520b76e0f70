---------------------------- MODULE ForgejoAuth ----------------------------
(***************************************************************************)
(* authenticate_forgejo: the cache of repository decisions and the two     *)
(* requests to Forgejo that fill it, while Forgejo's permissions change.   *)
(*                                                                         *)
(* Time is a counter of ticks.  The HTTP client gives each of the two      *)
(* requests up a fixed time after it is sent; a step on the cache, behind  *)
(* its mutex, takes no time.                                               *)
(***************************************************************************)
EXTENDS Naturals, FiniteSets

CONSTANTS
  Tokens,     \* values of the Authorization header
  Repos,
  Requests,   \* requests the server handles at a time
  Ttl,        \* ForgejoAuthorizationCache.ttl, 30 seconds
  Capacity,   \* ForgejoAuthorizationCache.capacity, 10,000
  Timeout,    \* of the HTTP client, 10 seconds
  MaxTime     \* bound on the clock

ASSUME TimesAssumption == {Ttl, Timeout, MaxTime} \subseteq Nat \ {0}
ASSUME CapacityAssumption == Capacity \in Nat \ {0}

VARIABLES
  now,
  live,     \* external: tokens Forgejo accepts
  perm,     \* external: highest permission of a token in a repository
  cache,    \* unexpired and expired entries: [key, admin, expires]
  req,      \* the requests
  last      \* history variable: when a token last had a right, 0 for never

vars == <<now, live, perm, cache, req, last>>

Levels == {"none", "pull", "push", "admin"}
Key == [token : Tokens, repo : Repos, access : {"Read", "Write"}]
Rights == [token : Tokens, repo : Repos, access : {"Read", "Write", "Admin"}]
Entry == [key : Key, admin : BOOLEAN, expires : Nat]

\* The fields of a request: `since` is the time it arrived or its pending HTTP
\* request was sent, `admin` the flag of its identity.
Idle == [pc |-> "idle"]
Request ==
  {Idle} \cup [pc : {"user", "repo", "allowed", "granted"}, key : Key,
               since : Nat, admin : BOOLEAN]

TypeOK ==
  /\ now \in 1 .. MaxTime
  /\ live \subseteq Tokens
  /\ perm \in [Tokens \X Repos -> Levels]
  /\ cache \subseteq Entry
  /\ \A d, e \in cache : d.key = e.key => d = e
  /\ req \in [Requests -> Request]
  /\ last \in [Rights -> 0 .. MaxTime]

\* What the answer to the repository request must contain.
Allows(access, level) ==
  level \in IF access = "Read" THEN {"pull", "push", "admin"} ELSE {"push", "admin"}

\* The rights that Forgejo's state gives.
Granting(l, p) ==
  {k \in Rights :
     /\ k.token \in l
     /\ p[<<k.token, k.repo>>] \in CASE k.access = "Read"  -> {"pull", "push", "admin"}
                                      [] k.access = "Write" -> {"push", "admin"}
                                      [] k.access = "Admin" -> {"admin"}}

Init ==
  /\ now = 1
  /\ live \in SUBSET Tokens
  /\ perm \in [Tokens \X Repos -> Levels]
  /\ cache = {}
  /\ req = [r \in Requests |-> Idle]
  /\ last = [k \in Rights |-> IF k \in Granting(live, perm) THEN 1 ELSE 0]

-----------------------------------------------------------------------------
(* Forgejo and time.                                                        *)

Witness(t, l, p) ==
  last' = [k \in Rights |-> IF k \in Granting(l, p) THEN t ELSE last[k]]

\* A token is revoked or issued, a permission changed.
Change ==
  /\ \/ \E t \in Tokens : live' = (live \ {t}) \cup ({t} \ live)
        /\ UNCHANGED perm
     \/ \E tr \in Tokens \X Repos, level \in Levels :
          perm' = [perm EXCEPT ![tr] = level]
        /\ UNCHANGED live
  /\ Witness(now, live', perm')
  /\ UNCHANGED <<now, cache, req>>

\* A pending HTTP request does not outlive the client's timeout, and a step on
\* the cache does not wait.
Tick ==
  /\ now < MaxTime
  /\ \A r \in Requests :
       /\ req[r].pc # "granted"
       /\ req[r].pc \in {"user", "repo", "allowed"} => now - req[r].since < Timeout
  /\ now' = now + 1
  /\ Witness(now + 1, live, perm)
  /\ UNCHANGED <<live, perm, cache, req>>

-----------------------------------------------------------------------------
(* authenticate_forgejo.                                                    *)

Move(r, state) == req' = [req EXCEPT ![r] = state]

\* When an entry may still be used.
\* (Mutant: expiry is never looked at.)
AlwaysFresh(e) == TRUE
Fresh(e) == e.expires > now

\* The lookup answers the request.
Hit(r, key) ==
  /\ req[r].pc = "idle"
  /\ \E e \in cache :
       /\ e.key = key
       /\ Fresh(e)
       /\ Move(r, [pc |-> "granted", key |-> key, since |-> now,
                   admin |-> e.admin])
  /\ UNCHANGED <<now, live, perm, cache, last>>

\* The lookup fails and removes what has expired under the key; the request
\* for the current user is sent.
Miss(r, key) ==
  /\ req[r].pc = "idle"
  /\ ~ \E e \in cache : e.key = key /\ Fresh(e)
  /\ cache' = {e \in cache : e.key # key}
  /\ Move(r, [pc |-> "user", key |-> key, since |-> now,
              admin |-> FALSE])
  /\ UNCHANGED <<now, live, perm, last>>

\* Forgejo accepts the token; the request for the repository is sent.
UserAnswer(r) ==
  /\ req[r].pc = "user"
  /\ req[r].key.token \in live
  /\ Move(r, [req[r] EXCEPT !.pc = "repo", !.since = now])
  /\ UNCHANGED <<now, live, perm, cache, last>>

\* Forgejo answers with permissions that suffice.
RepoAnswer(r) ==
  /\ req[r].pc = "repo"
  /\ LET key == req[r].key IN
       /\ key.token \in live
       /\ Allows(key.access, perm[<<key.token, key.repo>>])
       /\ Move(r, [req[r] EXCEPT !.pc = "allowed",
                                 !.admin = perm[<<key.token, key.repo>>] = "admin"])
  /\ UNCHANGED <<now, live, perm, cache, last>>

\* The entries kept before an insertion: the unexpired ones and, at the limit,
\* all of them but the one that expires first.
\* (Mutant: the limit is exceeded by one.)
EvictLate(kept) ==
  IF Cardinality(kept) > Capacity
  THEN {kept \ {e} : e \in {e \in kept : \A d \in kept : e.expires <= d.expires}}
  ELSE {kept}
Evict(kept) ==
  IF Cardinality(kept) >= Capacity
  THEN {kept \ {e} : e \in {e \in kept : \A d \in kept : e.expires <= d.expires}}
  ELSE {kept}

\* The answer has arrived and is put into the cache.
\* (Mutant: next to an older entry for the same key.)
InsertAgain(r) ==
  /\ req[r].pc = "allowed"
  /\ \E kept \in Evict({e \in cache : Fresh(e)}) :
       cache' = {e \in cache : e.key = req[r].key} \cup kept
                \cup {[key |-> req[r].key, admin |-> req[r].admin, expires |-> now + Ttl]}
  /\ Move(r, [req[r] EXCEPT !.pc = "granted"])
  /\ UNCHANGED <<now, live, perm, last>>
Insert(r) ==
  /\ req[r].pc = "allowed"
  /\ \E kept \in Evict({e \in cache : Fresh(e)}) :
       cache' = {e \in kept : e.key # req[r].key}
                \cup {[key |-> req[r].key, admin |-> req[r].admin, expires |-> now + Ttl]}
  /\ Move(r, [req[r] EXCEPT !.pc = "granted"])
  /\ UNCHANGED <<now, live, perm, last>>

\* 401, 403, 404, a transport error or a timeout: nothing is cached.
Refuse(r) ==
  /\ req[r].pc \in {"user", "repo", "allowed"}
  /\ Move(r, Idle)
  /\ UNCHANGED <<now, live, perm, cache, last>>

\* The handler proceeds with the identity.
Proceed(r) ==
  /\ req[r].pc = "granted"
  /\ Move(r, Idle)
  /\ UNCHANGED <<now, live, perm, cache, last>>

Next ==
  \/ Change
  \/ Tick
  \/ \E r \in Requests :
       \/ \E key \in Key : Hit(r, key) \/ Miss(r, key)
       \/ UserAnswer(r) \/ RepoAnswer(r) \/ Insert(r) \/ Refuse(r) \/ Proceed(r)

Spec == Init /\ [][Next]_vars

-----------------------------------------------------------------------------
\* The cache never holds more entries than its capacity, although requests for
\* different keys, and twice for the same one, insert concurrently.
CacheBounded == Cardinality(cache) <= Capacity

\* The right k was held less than t ago.
HeldWithin(k, t) == last[k] # 0 /\ now - last[k] < t

\* What a request is granted: its access and, if its identity says so, the
\* administrator's rights.
RightsOf(key, admin) ==
  {k \in Rights : k = key \/ (admin /\ k = [key EXCEPT !.access = "Admin"])}
Granted(r) == RightsOf(req[r].key, req[r].admin)

\* Whatever a request is granted was granted by Forgejo less than Ttl + Timeout
\* ago: the entry it found was inserted less than Ttl ago, after an answer that
\* took at most Timeout to arrive.  It is the bound the code keeps; the documented
\* one is RevokedWithinTtl.
GrantsAreRecent ==
  \A r \in Requests : req[r].pc = "granted" =>
    \A k \in Granted(r) : HeldWithin(k, Ttl + Timeout)

\* docs/OPERATIONS.md: "revocation and permission changes take effect within 30
\* seconds", which is Ttl: nothing is granted on a right that was last held more
\* than Ttl ago.  The code counts Ttl from the insertion into the cache instead
\* of from Forgejo's answer.
RevokedWithinTtl ==
  \A r \in Requests : req[r].pc = "granted" =>
    \A k \in Granted(r) : last[k] # 0 /\ now - last[k] <= Ttl
=============================================================================
