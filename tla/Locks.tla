------------------------------- MODULE Locks -------------------------------
(***************************************************************************)
(* The Git LFS lock API: create_lock, unlock, list_locks and verify_locks  *)
(* over table lfs_locks.  Every SQL statement is atomic; a handler that    *)
(* issues two of them, or a client that reads page after page, interleaves *)
(* with all the others.                                                    *)
(*                                                                         *)
(* A lock id is a random UUID, so a new lock can sort anywhere among the   *)
(* ones a client is paging through.  A path is the sequence of its         *)
(* components, as split('/') returns it.                                   *)
(***************************************************************************)
EXTENDS Naturals, FiniteSets, Sequences

CONSTANTS
  Ids,        \* UUIDs in their database order
  Repos,
  Users,      \* subjects
  Managers,   \* pairs <<user, repository>> authenticated as administrator
  Paths,      \* paths that clients ask for
  Unlocks,    \* concurrent unlock requests
  Readers,    \* concurrent clients of list_locks and verify_locks
  Limits,     \* page limits that clients ask for
  MaxPage,    \* the server's page limit (100 in the code)
  Absent         \* an absent query parameter

ASSUME IdsAssumption == Ids \subseteq Nat \ {0}
ASSUME ManagersAssumption == Managers \subseteq Users \X Repos
ASSUME PageAssumption == Limits \subseteq Nat /\ MaxPage \in Nat \ {0}

VARIABLES
  locks,    \* table lfs_locks
  used,     \* ids generated so far: new_v4 does not repeat one
  unl,      \* unlock requests between their SELECT and their DELETE
  lst       \* listings, from the first page to the last

vars == <<locks, used, unl, lst>>

Lock == [id : Ids, repo : Repos, path : Paths, owner : Users]
Request == [user : Users, repo : Repos, id : Ids, force : BOOLEAN]
Query == [user : Users, repo : Repos, path : Paths \cup {Absent}, id : Ids \cup {Absent}]

\* The two history fields of a listing are `got`, how often each lock was
\* returned, and `steady`, the locks it asks for that existed since it began.
Listing == [query : Query, cursor : Ids \cup {0}, done : BOOLEAN,
            got : [Ids -> Nat], ours : SUBSET Lock, theirs : SUBSET Lock,
            steady : SUBSET Lock]

TypeOK ==
  /\ locks \subseteq Lock
  /\ used \subseteq Ids
  /\ \A l \in locks : l.id \in used
  /\ \A l, m \in locks : l # m => l.id # m.id /\ <<l.repo, l.path>> # <<m.repo, m.path>>
  /\ \A r \in Unlocks : unl[r] = {} \/ \E q \in Request : unl[r] = {q}
  /\ \A v \in Readers : lst[v] = {} \/ \E x \in lst[v] : x \in Listing /\ lst[v] = {x}

Init ==
  /\ locks = {}
  /\ used = {}
  /\ unl = [r \in Unlocks |-> {}]
  /\ lst = [v \in Readers |-> {}]

-----------------------------------------------------------------------------
\* validate_lock_path: no component is empty or "..".
\* (The empty path is <<"">>, and one with a leading slash begins with "".)
ValidPath(p) == \A i \in DOMAIN p : p[i] \notin {"", ".."}

\* create_lock; a path that is locked already is the 409 answer.
\* (Mutant: without UNIQUE (repository_id, path).)
CreateTwice(u, r, p, i) ==
  /\ ValidPath(p)
  /\ i \notin used
  /\ locks' = locks \cup {[id |-> i, repo |-> r, path |-> p, owner |-> u]}
  /\ used' = used \cup {i}
  /\ UNCHANGED <<unl, lst>>
CreateLock(u, r, p, i) ==
  /\ ValidPath(p)
  /\ ~ \E l \in locks : l.repo = r /\ l.path = p
  /\ i \notin used
  /\ locks' = locks \cup {[id |-> i, repo |-> r, path |-> p, owner |-> u]}
  /\ used' = used \cup {i}
  /\ UNCHANGED <<unl, lst>>

-----------------------------------------------------------------------------
(* unlock.                                                                  *)

\* Who may unlock a lock of owner o.
\* (Mutant: force is enough.)
ForceSuffices(q, o) == o = q.user \/ q.force
MayUnlock(q, o) == o = q.user \/ (q.force /\ <<q.user, q.repo>> \in Managers)

\* The SELECT of owner_subject and the decision on it; 404 and 403 change nothing.
UnlockCheck(r, q) ==
  /\ unl[r] = {}
  /\ \E l \in locks : l.id = q.id /\ l.repo = q.repo /\ MayUnlock(q, l.owner)
  /\ unl' = [unl EXCEPT ![r] = {q}]
  /\ UNCHANGED <<locks, used, lst>>

\* The lock leaves the table, and the history of every listing under way.
Remove(gone) ==
  /\ locks' = locks \ gone
  /\ lst' = [v \in Readers |-> {[x EXCEPT !.steady = @ \ gone] : x \in lst[v]}]

\* The DELETE by id, a statement of its own; no row is the second 404.
UnlockDelete(r) ==
  \E q \in unl[r] :
    /\ Remove({l \in locks : l.id = q.id /\ l.repo = q.repo})
    /\ unl' = [unl EXCEPT ![r] = {}]
    /\ UNCHANGED used

\* The connection is lost, or the server stops, between the two statements.
UnlockLost(r) ==
  /\ unl[r] # {}
  /\ unl' = [unl EXCEPT ![r] = {}]
  /\ UNCHANGED <<locks, used, lst>>

-----------------------------------------------------------------------------
(* list_locks and verify_locks.                                             *)

\* clamp(1, 100).
\* (Mutant: no lower bound.)
Capped(n) == IF n > MaxPage THEN MaxPage ELSE n
Clamped(n) == IF n < 1 THEN 1 ELSE IF n > MaxPage THEN MaxPage ELSE n

\* The WHERE clause without the cursor.
Wanted(q) ==
  {l \in locks : l.repo = q.repo /\ q.path \in {Absent, l.path} /\ q.id \in {Absent, l.id}}

\* ORDER BY id LIMIT n.
First(n, S) == {l \in S : Cardinality({m \in S : m.id < l.id}) < n}

\* Whether there is a next page, of the limit + 1 rows that were read.
\* (Mutant: a full page means that there is no next one.)
OneMore(rows, n) == Cardinality(rows) > n + 1
HasMore(rows, n) == Cardinality(rows) > n

\* load_locks_page, its result added to what the client has.
\* The empty page has no last lock and hence no cursor, whatever has_more is.
ReadPage(x, limit) ==
  LET q    == x.query
      n    == Clamped(limit)
      rows == First(n + 1, {l \in Wanted(q) : l.id > x.cursor})
      page == First(n, rows)
      more == HasMore(rows, n) /\ page # {}
  IN  [x EXCEPT
        !.cursor = IF more THEN (CHOOSE l \in page : \A m \in page : m.id <= l.id).id ELSE @,
        !.done   = ~ more,
        !.got    = [i \in Ids |-> @[i] + Cardinality({l \in page : l.id = i})],
        !.ours   = @ \cup {l \in page : l.owner = q.user},
        !.theirs = @ \cup {l \in page : l.owner # q.user}]

\* A request without a cursor.  verify_locks sends neither path nor id.
FirstPage(v, q, limit) ==
  /\ lst[v] = {}
  /\ lst' = [lst EXCEPT ![v] =
               {ReadPage([query |-> q, cursor |-> 0, done |-> FALSE,
                          got |-> [i \in Ids |-> 0], ours |-> {}, theirs |-> {},
                          steady |-> Wanted(q)], limit)}]
  /\ UNCHANGED <<locks, used, unl>>

\* A request with the cursor of the previous answer.
NextPage(v, limit) ==
  \E x \in lst[v] :
    /\ ~ x.done
    /\ lst' = [lst EXCEPT ![v] = {ReadPage(x, limit)}]
    /\ UNCHANGED <<locks, used, unl>>

\* The client is done with the listing or gives it up.
Forget(v) ==
  /\ lst[v] # {}
  /\ lst' = [lst EXCEPT ![v] = {}]
  /\ UNCHANGED <<locks, used, unl>>

Next ==
  \/ \E u \in Users, r \in Repos, p \in Paths, i \in Ids : CreateLock(u, r, p, i)
  \/ \E r \in Unlocks : (\E q \in Request : UnlockCheck(r, q)) \/ UnlockDelete(r) \/ UnlockLost(r)
  \/ \E v \in Readers :
       \/ \E n \in Limits : (\E q \in Query : FirstPage(v, q, n)) \/ NextPage(v, n)
       \/ Forget(v)

Spec == Init /\ [][Next]_vars

-----------------------------------------------------------------------------
\* unlock checks the owner in one statement and deletes in another, and it
\* deletes by id: still, every lock that disappears is removed by a request of
\* its owner, or by a forced one of an administrator of the lock's repository.
OnlyEntitledUnlock ==
  [][\A l \in locks \ locks' :
       \E r \in Unlocks : \E q \in unl[r] \ unl'[r] :
         q.id = l.id /\ (q.user = l.owner \/ (q.force /\ <<q.user, l.repo>> \in Managers))]_vars

\* Locks come and go between the pages of a listing: one that existed all the
\* time is returned exactly once, and no lock is returned twice.
ListingExact ==
  \A v \in Readers : \A x \in lst[v] :
    /\ \A i \in Ids : x.got[i] <= 1
    /\ x.done => \A l \in x.steady : x.got[l.id] = 1

\* verify_locks, which git-lfs asks before a push: when the last page is read,
\* a lock that someone else held all the time is among theirs, and nothing
\* is both ours and theirs.
VerifySeesTheirs ==
  \A v \in Readers : \A x \in lst[v] :
    /\ x.ours \cap x.theirs = {}
    /\ x.done => \A l \in x.steady : l.owner # x.query.user => l \in x.theirs
=============================================================================
