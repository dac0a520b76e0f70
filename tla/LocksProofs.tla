---------------------------- MODULE LocksProofs ----------------------------
(***************************************************************************)
(* Proofs about the lock API, for any number of users, repositories, locks *)
(* and concurrent requests: unlock, which checks in one statement and      *)
(* deletes in another, removes only what its caller may remove, and a      *)
(* listing read page by page is exact while locks come and go.             *)
(***************************************************************************)
EXTENDS Locks, FiniteSetTheorems, WellFoundedInduction, TLAPS

\* What the SELECT found still holds at the DELETE: ids are never used again,
\* and a lock never changes hands.
Entitled ==
  /\ DOMAIN unl = Unlocks
  /\ unl = [r \in Unlocks |-> unl[r]]
  /\ \A l \in locks : l.id \in used
  /\ \A l, m \in locks : l.id = m.id => l = m
  /\ \A r \in Unlocks : \A q \in unl[r] :
       /\ q.id \in used
       /\ \A l \in locks : l.id = q.id /\ l.repo = q.repo => MayUnlock(q, l.owner)

\* Every step of create_lock, unlock and the listings preserves it.
LEMMA EntitledInvariant == Spec => []Entitled
<1>1. Init => Entitled
  BY DEF Init, Entitled
<1>2. Entitled /\ [Next]_vars => Entitled'
  <2> SUFFICES ASSUME Entitled, [Next]_vars
               PROVE  Entitled'
    OBVIOUS
  <2> USE DEF Entitled
  <2>1. CASE UNCHANGED vars
    BY <2>1 DEF vars, MayUnlock
  <2>2. ASSUME NEW u \in Users, NEW r \in Repos, NEW p \in Paths, NEW i \in Ids,
               CreateLock(u, r, p, i)
        PROVE  Entitled'
    <3> DEFINE new == [id |-> i, repo |-> r, path |-> p, owner |-> u]
    <3>1. /\ i \notin used /\ used' = used \cup {i}
          /\ locks' = locks \cup {new} /\ unl' = unl
      BY <2>2 DEF CreateLock
    <3>2. new.id = i
      OBVIOUS
    <3> HIDE DEF new
    <3>. QED
      BY <3>1, <3>2 DEF MayUnlock
  <2>3. ASSUME NEW r \in Unlocks, NEW q \in Request, UnlockCheck(r, q)
        PROVE  Entitled'
    <3>1. locks' = locks /\ used' = used /\ unl' = [unl EXCEPT ![r] = {q}]
      BY <2>3 DEF UnlockCheck
    <3>2. PICK l \in locks : l.id = q.id /\ l.repo = q.repo /\ MayUnlock(q, l.owner)
      BY <2>3 DEF UnlockCheck
    <3>3. q.id \in used /\ \A m \in locks : m.id = q.id /\ m.repo = q.repo => MayUnlock(q, m.owner)
      BY <3>2
    <3>4. ASSUME NEW t \in Unlocks, NEW p \in unl'[t]
          PROVE  /\ p.id \in used
                 /\ \A m \in locks : m.id = p.id /\ m.repo = p.repo => MayUnlock(p, m.owner)
      <4>1. p = q \/ p \in unl[t]
        BY <3>1, <3>4
      <4>. QED
        BY <4>1, <3>3
    <3>5. DOMAIN unl' = Unlocks /\ unl' = [t \in Unlocks |-> unl'[t]]
      BY <3>1
    <3>. QED
      BY <3>1, <3>4, <3>5 DEF MayUnlock
  <2>4. ASSUME NEW r \in Unlocks, UnlockDelete(r) \/ UnlockLost(r)
        PROVE  Entitled'
    <3>1. locks' \subseteq locks /\ used' = used /\ unl' = [unl EXCEPT ![r] = {}]
      BY <2>4 DEF UnlockDelete, UnlockLost, Remove
    <3>2. DOMAIN unl' = Unlocks /\ unl' = [t \in Unlocks |-> unl'[t]]
      BY <3>1
    <3>3. ASSUME NEW t \in Unlocks, NEW p \in unl'[t]
          PROVE  p \in unl[t]
      BY <3>1, <3>3
    <3>. QED
      BY <3>1, <3>2, <3>3 DEF MayUnlock
  <2>5. ASSUME NEW v \in Readers,
               \/ \E n \in Limits : (\E q \in Query : FirstPage(v, q, n)) \/ NextPage(v, n)
               \/ Forget(v)
        PROVE  Entitled'
    <3>1. UNCHANGED <<locks, used, unl>>
      BY <2>5 DEF FirstPage, NextPage, Forget
    <3>. QED
      BY <3>1 DEF MayUnlock
  <2>. QED
    BY <2>1, <2>2, <2>3, <2>4, <2>5 DEF Next
<1>. QED
  BY <1>1, <1>2, PTL DEF Spec

\* Every lock that unlock removes is removed by its owner, or by force by an
\* administrator of its repository, although another request may unlock the
\* path and a third lock it again between the check and the deletion.
THEOREM UnlockIsEntitled == Spec => OnlyEntitledUnlock
<1>1. Entitled /\ [Next]_vars =>
        [\A l \in locks \ locks' :
           \E r \in Unlocks : \E q \in unl[r] \ unl'[r] :
             q.id = l.id /\ (q.user = l.owner \/ (q.force /\ <<q.user, l.repo>> \in Managers))]_vars
  <2> SUFFICES ASSUME Entitled, [Next]_vars, NEW l \in locks \ locks'
               PROVE  \E r \in Unlocks : \E q \in unl[r] \ unl'[r] :
                        /\ q.id = l.id
                        /\ q.user = l.owner \/ (q.force /\ <<q.user, l.repo>> \in Managers)
    BY DEF vars
  <2>1. PICK r \in Unlocks : UnlockDelete(r)
    BY DEF Next, vars, CreateLock, UnlockCheck, UnlockLost, FirstPage, NextPage, Forget
  <2>2. PICK q \in unl[r] : /\ locks' = locks \ {m \in locks : m.id = q.id /\ m.repo = q.repo}
                            /\ unl' = [unl EXCEPT ![r] = {}]
    BY <2>1 DEF UnlockDelete, Remove
  <2>3. l.id = q.id /\ l.repo = q.repo /\ q \in unl[r] \ unl'[r]
    BY <2>2 DEF Entitled
  <2>4. MayUnlock(q, l.owner)
    BY <2>3 DEF Entitled
  <2>. QED
    BY <2>3, <2>4 DEF MayUnlock
<1>. QED
  BY <1>1, EntitledInvariant, PTL DEF Spec, OnlyEntitledUnlock

-----------------------------------------------------------------------------
(* Pages.  A set of locks as a query finds them: finitely many, in the      *)
(* order of their ids.                                                      *)

Ordered(S) ==
  /\ IsFiniteSet(S)
  /\ \A l \in S : l.id \in Nat
  /\ \A l, m \in S : l.id = m.id => l = m

\* A set of natural numbers has a least element.
LEMMA LeastNatural ==
  ASSUME NEW T, T \subseteq Nat, T # {}
  PROVE  \E x \in T : \A y \in T : x <= y
<1> DEFINE R == OpToRel(<, Nat)
<1>1. IsWellFoundedOn(R, Nat)
  BY NatLessThanWellFounded
<1>2. \A x, y \in Nat : y < x => <<y, x>> \in R
  BY DEF OpToRel
<1> HIDE DEF R
<1>3. PICK x \in T : \A y \in T : ~(<<y, x>> \in R)
  BY <1>1, WFMin
<1>4. ASSUME NEW y \in T
      PROVE  x <= y
  <2>1. x \in Nat /\ y \in Nat
    OBVIOUS
  <2>2. ~(y < x)
    BY <1>2, <1>3, <2>1
  <2>. QED
    BY <2>1, <2>2
<1>. QED
  BY <1>4

\* Every part of an ordered set has a first and a last lock.
LEMMA FirstLock ==
  ASSUME NEW S, Ordered(S), NEW T, T \subseteq S, T # {}
  PROVE  \E l \in T : \A m \in T : l.id <= m.id
<1> DEFINE N == {l.id : l \in T}
<1>1. N \subseteq Nat /\ N # {}
  BY DEF Ordered
<1>2. PICK x \in N : \A y \in N : x <= y
  BY <1>1, LeastNatural
<1>. QED
  BY <1>2

\* A set of locks that is not empty has a last one.
LEMMA LastLock ==
  ASSUME NEW S, Ordered(S), S # {}
  PROVE  \E l \in S : \A m \in S : m.id <= l.id
<1> DEFINE Above(l) == {m \in S : m.id > l.id}
           N == {Cardinality(Above(l)) : l \in S}
<1>1. \A l \in S : IsFiniteSet(Above(l)) /\ Cardinality(Above(l)) \in Nat
  BY FS_Subset, FS_CardinalityType DEF Ordered
<1>2. N \subseteq Nat /\ N # {}
  BY <1>1
<1>3. PICK x \in N : \A y \in N : x <= y
  BY <1>2, LeastNatural
<1>4. PICK l \in S : x = Cardinality(Above(l))
  BY <1>3
<1>5. ASSUME NEW m \in S, ~(m.id <= l.id)
      PROVE  FALSE
  <2>1. m.id > l.id /\ l.id \in Nat /\ m.id \in Nat
    BY <1>5 DEF Ordered
  <2>2. Above(m) \subseteq Above(l) /\ m \in Above(l) /\ m \notin Above(m)
    BY <2>1 DEF Ordered
  <2>3. Cardinality(Above(m)) <= Cardinality(Above(l))
        /\ (Cardinality(Above(l)) = Cardinality(Above(m)) => Above(l) = Above(m))
    BY <1>1, <2>2, FS_Subset
  <2>4. Cardinality(Above(l)) <= Cardinality(Above(m))
    BY <1>3, <1>4
  <2>. QED
    BY <1>1, <2>2, <2>3, <2>4, SMTT(30)
<1>. QED
  BY <1>5

\* The locks before a given one.
Before(l, S) == {m \in S : m.id < l.id}

\* Finitely many locks precede a given one.
LEMMA BeforeFinite ==
  ASSUME NEW S, Ordered(S), NEW l \in S
  PROVE  IsFiniteSet(Before(l, S)) /\ Cardinality(Before(l, S)) \in Nat
BY FS_Subset, FS_CardinalityType DEF Ordered, Before

\* LIMIT n of an ordered set is ordered and leaves no gap.
LEMMA LimitLeavesNoGap ==
  ASSUME NEW S, Ordered(S), NEW n \in Nat
  PROVE  /\ First(n, S) \subseteq S
         /\ Ordered(First(n, S))
         /\ \A l \in First(n, S), m \in S : m.id <= l.id => m \in First(n, S)
<1>1. First(n, S) \subseteq S
  BY DEF First
<1>2. Ordered(First(n, S))
  BY <1>1, FS_Subset DEF Ordered
<1>3. ASSUME NEW l \in First(n, S), NEW m \in S, m.id <= l.id
      PROVE  m \in First(n, S)
  <2>1. l \in S /\ l.id \in Nat /\ m.id \in Nat
    BY <1>1 DEF Ordered
  <2>2. Before(m, S) \subseteq Before(l, S)
    BY <1>3, <2>1 DEF Ordered, Before
  <2>3. Cardinality(Before(m, S)) <= Cardinality(Before(l, S))
    BY <2>1, <2>2, BeforeFinite, FS_Subset
  <2>4. Cardinality(Before(l, S)) < n
    BY DEF First, Before
  <2>5. Cardinality(Before(m, S)) < n
    BY <2>1, <2>3, <2>4, BeforeFinite
  <2>. QED
    BY <2>5 DEF First, Before
<1>. QED
  BY <1>1, <1>2, <1>3

\* Fewer rows than the limit are all the rows.
LEMMA LimitNotReached ==
  ASSUME NEW S, Ordered(S), NEW n \in Nat, Cardinality(First(n, S)) < n
  PROVE  First(n, S) = S
<1> SUFFICES ASSUME S \ First(n, S) # {}
             PROVE  FALSE
  BY DEF First
<1>1. PICK l \in S \ First(n, S) : \A m \in S \ First(n, S) : l.id <= m.id
  BY FirstLock
<1>2. Before(l, S) \subseteq First(n, S)
  BY <1>1 DEF Before, Ordered
<1>3. IsFiniteSet(First(n, S))
  BY LimitLeavesNoGap DEF Ordered
<1>4. Cardinality(Before(l, S)) <= Cardinality(First(n, S)) /\ Cardinality(First(n, S)) \in Nat
  BY <1>2, <1>3, FS_Subset, FS_CardinalityType
<1>5. Cardinality(Before(l, S)) \in Nat
  BY BeforeFinite
<1>6. Cardinality(Before(l, S)) < n
  BY <1>4, <1>5
<1>. QED
  BY <1>1, <1>6 DEF First, Before

\* A set within the limit is returned whole.
LEMMA LimitLargeEnough ==
  ASSUME NEW S, Ordered(S), NEW n \in Nat, Cardinality(S) <= n
  PROVE  First(n, S) = S
<1> SUFFICES ASSUME NEW l \in S
             PROVE  Cardinality(Before(l, S)) < n
  BY DEF First, Before
<1>1. Before(l, S) \subseteq S /\ l \notin Before(l, S) /\ IsFiniteSet(S)
  BY DEF Before, Ordered
<1>2. /\ Cardinality(Before(l, S)) <= Cardinality(S)
      /\ Cardinality(S) = Cardinality(Before(l, S)) => S = Before(l, S)
      /\ Cardinality(S) \in Nat
  BY <1>1, FS_Subset, FS_CardinalityType
<1>3. Cardinality(Before(l, S)) \in Nat
  BY BeforeFinite
<1>4. Cardinality(S) # Cardinality(Before(l, S))
  BY <1>1, <1>2
<1>. QED
  BY <1>2, <1>3, <1>4

\* The clamped limit is at least one.
LEMMA LimitPositive ==
  ASSUME NEW limit \in Limits
  PROVE  Clamped(limit) \in Nat /\ Clamped(limit) >= 1
BY PageAssumption DEF Clamped

\* What load_locks_page returns of the rows S behind the cursor: all of them
\* when it says that there are no more, otherwise all up to its last one.
PageOf(S, n) == First(n, First(n + 1, S))
MoreOf(S, n) == HasMore(First(n + 1, S), n) /\ PageOf(S, n) # {}

\* A page has every lock up to its last one, or all of them if no page follows.
LEMMA PageIsExact ==
  ASSUME NEW S, Ordered(S), NEW n \in Nat, n >= 1
  PROVE  /\ PageOf(S, n) \subseteq S
         /\ ~MoreOf(S, n) => PageOf(S, n) = S
         /\ MoreOf(S, n) => \E l \in PageOf(S, n) :
              /\ \A m \in PageOf(S, n) : m.id <= l.id
              /\ PageOf(S, n) = {m \in S : m.id <= l.id}
<1> DEFINE rows == First(n + 1, S)
           page == First(n, rows)
<1>1. n + 1 \in Nat
  OBVIOUS
<1>2. /\ rows \subseteq S /\ Ordered(rows)
      /\ \A l \in rows, m \in S : m.id <= l.id => m \in rows
  BY <1>1, LimitLeavesNoGap
<1>3. /\ page \subseteq rows /\ Ordered(page)
      /\ \A l \in page, m \in rows : m.id <= l.id => m \in page
  BY <1>2, LimitLeavesNoGap
<1>4. Cardinality(rows) \in Nat
  BY <1>2, FS_CardinalityType DEF Ordered
<1>5. ASSUME page = {}
      PROVE  page = S
  <2>1. Cardinality(page) = 0
    BY <1>5, FS_EmptySet
  <2>2. Cardinality(page) < n
    BY <2>1
  <2>3. page = rows
    BY <1>2, <2>2, LimitNotReached
  <2>4. Cardinality(rows) < n + 1
    BY <2>1, <2>3
  <2>5. rows = S
    BY <1>1, <2>4, LimitNotReached
  <2>. QED
    BY <2>3, <2>5
<1>6. ASSUME ~(Cardinality(rows) > n)
      PROVE  page = S
  <2>1. Cardinality(rows) < n + 1 /\ Cardinality(rows) <= n
    BY <1>4, <1>6
  <2>2. rows = S
    BY <1>1, <2>1, LimitNotReached
  <2>3. page = rows
    BY <1>2, <2>1, LimitLargeEnough
  <2>. QED
    BY <2>2, <2>3
<1>7. ASSUME page # {}
      PROVE  \E l \in page :
               /\ \A m \in page : m.id <= l.id
               /\ page = {m \in S : m.id <= l.id}
  <2>1. PICK l \in page : \A m \in page : m.id <= l.id
    BY <1>3, <1>7, LastLock
  <2>2. \A m \in S : m.id <= l.id => m \in page
    BY <1>2, <1>3
  <2>. QED
    BY <1>2, <1>3, <2>1, <2>2
<1> HIDE DEF rows, page
<1>8. PageOf(S, n) = page /\ (MoreOf(S, n) <=> Cardinality(rows) > n /\ page # {})
  BY DEF PageOf, MoreOf, HasMore, rows, page
<1>. QED
  BY <1>2, <1>3, <1>5, <1>6, <1>7, <1>8

-----------------------------------------------------------------------------
(* The table, the requests under way, and the listings.                     *)

Tabled ==
  /\ locks \subseteq Lock
  /\ IsFiniteSet(locks)
  /\ used \subseteq Ids
  /\ \A l, m \in locks : l.repo = m.repo /\ l.path = m.path => l = m
  /\ \A r \in Unlocks : unl[r] = {} \/ \E q \in Request : unl[r] = {q}

\* What a listing holds: every lock up to the cursor that is there since the
\* beginning was returned, once, and nothing beyond the cursor was.
Paged(x) ==
  /\ x \in Listing
  /\ x.steady \subseteq Wanted(x.query)
  /\ \A i \in Ids : x.got[i] <= 1
  /\ \A i \in Ids : ~x.done /\ i > x.cursor => x.got[i] = 0
  /\ \A l \in x.steady : x.done \/ l.id <= x.cursor =>
       x.got[l.id] = 1 /\ (l.owner # x.query.user => l \in x.theirs)
  /\ \A l \in x.ours : l.owner = x.query.user
  /\ \A l \in x.theirs : l.owner # x.query.user

Listed ==
  /\ DOMAIN lst = Readers /\ lst = [v \in Readers |-> lst[v]]
  /\ \A v \in Readers : lst[v] = {} \/ \E x : lst[v] = {x}
  /\ \A v \in Readers : \A x \in lst[v] : Paged(x)

\* The table keeps its type and its unique keys.
LEMMA TabledInvariant == Spec => []Tabled
<1>1. Init => Tabled
  BY FS_EmptySet DEF Init, Tabled
<1>2. Entitled /\ Tabled /\ [Next]_vars => Tabled'
  <2> SUFFICES ASSUME Entitled, Tabled, [Next]_vars
               PROVE  Tabled'
    OBVIOUS
  <2>1. CASE UNCHANGED <<locks, used, unl>>
    BY <2>1 DEF Tabled
  <2>2. ASSUME NEW u \in Users, NEW r \in Repos, NEW p \in Paths, NEW i \in Ids,
               CreateLock(u, r, p, i)
        PROVE  Tabled'
    <3> DEFINE new == [id |-> i, repo |-> r, path |-> p, owner |-> u]
    <3>1. /\ used' = used \cup {i} /\ locks' = locks \cup {new} /\ unl' = unl
          /\ ~ \E l \in locks : l.repo = r /\ l.path = p
      BY <2>2 DEF CreateLock
    <3>2. new \in Lock /\ new.repo = r /\ new.path = p
      BY DEF Lock
    <3> HIDE DEF new
    <3>3. IsFiniteSet(locks')
      BY <3>1, FS_AddElement DEF Tabled
    <3>. QED
      BY <3>1, <3>2, <3>3 DEF Tabled
  <2>3. ASSUME NEW r \in Unlocks, NEW q \in Request, UnlockCheck(r, q)
        PROVE  Tabled'
    BY <2>3 DEF UnlockCheck, Tabled, Entitled
  <2>4. ASSUME NEW r \in Unlocks, UnlockDelete(r) \/ UnlockLost(r)
        PROVE  Tabled'
    <3>1. locks' \subseteq locks /\ used' = used /\ unl' = [unl EXCEPT ![r] = {}]
      BY <2>4 DEF UnlockDelete, UnlockLost, Remove
    <3>2. IsFiniteSet(locks')
      BY <3>1, FS_Subset DEF Tabled
    <3>3. \A t \in Unlocks : unl'[t] = {} \/ unl'[t] = unl[t]
      BY <3>1 DEF Entitled
    <3>. QED
      BY <3>1, <3>2, <3>3 DEF Tabled
  <2>5. ASSUME NEW v \in Readers,
               \/ \E n \in Limits : (\E q \in Query : FirstPage(v, q, n)) \/ NextPage(v, n)
               \/ Forget(v)
        PROVE  Tabled'
    BY <2>1, <2>5 DEF FirstPage, NextPage, Forget
  <2>. QED
    BY <2>1, <2>2, <2>3, <2>4, <2>5 DEF Next, vars
<1>. QED
  BY <1>1, <1>2, EntitledInvariant, PTL DEF Spec

\* What the WHERE clause selects is ordered by id.
LEMMA WantedOrdered ==
  ASSUME Entitled, Tabled, NEW q, NEW c
  PROVE  Ordered({l \in Wanted(q) : l.id > c})
<1> DEFINE S == {l \in Wanted(q) : l.id > c}
<1>1. S \subseteq locks
  BY DEF Wanted
<1>2. \A l \in locks : l.id \in Nat
  BY IdsAssumption DEF Tabled, Lock
<1>. QED
  BY <1>1, <1>2, FS_Subset DEF Ordered, Entitled, Tabled

\* A page adds to the listing exactly the locks between its old and its new
\* cursor, or all the rest when it is the last one.
LEMMA PageAdvances ==
  ASSUME Entitled, Tabled, NEW x, Paged(x), ~x.done, NEW limit \in Limits
  PROVE  Paged(ReadPage(x, limit))
<1> DEFINE q    == x.query
           n    == Clamped(limit)
           S    == {l \in Wanted(q) : l.id > x.cursor}
           page == PageOf(S, n)
           more == MoreOf(S, n)
           y    == ReadPage(x, limit)
           last == (CHOOSE l \in page : \A m \in page : m.id <= l.id).id
<1>1. n \in Nat /\ n >= 1
  BY LimitPositive
<1>2. Ordered(S)
  BY WantedOrdered
<1>3. S \subseteq locks /\ S \subseteq Lock
  BY DEF Wanted, Tabled
<1>4. page \subseteq S /\ (~more => page = S)
  BY <1>1, <1>2, PageIsExact
<1>5. ASSUME more
      PROVE  /\ last \in Ids /\ last > x.cursor
             /\ page = {m \in S : m.id <= last}
  <2> HIDE DEF S, n
  <2>1. PICK l \in page : /\ \A m \in page : m.id <= l.id
                          /\ page = {m \in S : m.id <= l.id}
    BY <1>1, <1>2, <1>5, PageIsExact
  <2> DEFINE k == CHOOSE h \in page : \A m \in page : m.id <= h.id
  <2>2. k \in page /\ \A m \in page : m.id <= k.id
    BY <2>1
  <2>3. k.id = l.id
    <3>1. k.id <= l.id /\ l.id <= k.id
      BY <2>1, <2>2
    <3>2. k.id \in Nat /\ l.id \in Nat
      BY <1>2, <1>4, <2>2 DEF Ordered
    <3>. QED
      BY <3>1, <3>2
  <2>4. l.id \in Ids /\ l.id > x.cursor
    BY <1>3, <1>4 DEF Lock, S
  <2>. QED
    BY <2>1, <2>3, <2>4
<1>6. y = [x EXCEPT
            !.cursor = IF more THEN last ELSE @,
            !.done   = ~ more,
            !.got    = [i \in Ids |-> @[i] + Cardinality({l \in page : l.id = i})],
            !.ours   = @ \cup {l \in page : l.owner = q.user},
            !.theirs = @ \cup {l \in page : l.owner # q.user}]
  BY DEF ReadPage, PageOf, MoreOf
<1>7. x \in Listing
  BY DEF Paged
<1> HIDE DEF last, more, page, S, n, y
<1>8. /\ y.query = x.query /\ y.steady = x.steady
      /\ y.cursor = IF more THEN last ELSE x.cursor
      /\ y.got = [i \in Ids |-> x.got[i] + Cardinality({l \in page : l.id = i})]
      /\ y.ours = x.ours \cup {l \in page : l.owner = q.user}
      /\ y.theirs = x.theirs \cup {l \in page : l.owner # q.user}
  BY <1>6, <1>7 DEF Listing
<1>9. y.done = ~more
  BY <1>6, <1>7 DEF Listing
<1>10. \A i \in Ids : /\ (\E l \in page : l.id = i) => Cardinality({l \in page : l.id = i}) = 1
                      /\ (\A l \in page : l.id # i) => Cardinality({l \in page : l.id = i}) = 0
  <2> SUFFICES ASSUME NEW i \in Ids
               PROVE  /\ (\E l \in page : l.id = i) => Cardinality({l \in page : l.id = i}) = 1
                      /\ (\A l \in page : l.id # i) => Cardinality({l \in page : l.id = i}) = 0
    OBVIOUS
  <2>1. ASSUME NEW l \in page, l.id = i
        PROVE  Cardinality({m \in page : m.id = i}) = 1
    <3>1. {m \in page : m.id = i} = {l}
      BY <1>2, <1>4, <2>1 DEF Ordered
    <3>. QED
      BY <3>1, FS_Singleton
  <2>2. ASSUME \A l \in page : l.id # i
        PROVE  Cardinality({m \in page : m.id = i}) = 0
    <3>1. {m \in page : m.id = i} = {}
      BY <2>2
    <3>. QED
      BY <3>1, FS_EmptySet
  <2>. QED
    BY <2>1, <2>2
<1>11. y \in Listing
  <2>1. \A i \in Ids : x.got[i] + Cardinality({l \in page : l.id = i}) \in Nat
    <3> SUFFICES ASSUME NEW i \in Ids
                 PROVE  x.got[i] + Cardinality({l \in page : l.id = i}) \in Nat
      OBVIOUS
    <3>1. x.got[i] \in Nat
      BY <1>7 DEF Listing
    <3>2. Cardinality({l \in page : l.id = i}) \in {0, 1}
      BY <1>10
    <3>. QED
      BY <3>1, <3>2
  <2>2. y.got \in [Ids -> Nat]
    BY <1>8, <2>1
  <2>3. y.ours \in SUBSET Lock /\ y.theirs \in SUBSET Lock
    BY <1>3, <1>4, <1>7, <1>8 DEF Listing
  <2>4. y.cursor \in Ids \cup {0}
    BY <1>5, <1>7, <1>8 DEF Listing
  <2>5. y.query \in Query /\ y.steady \in SUBSET Lock
    BY <1>7, <1>8 DEF Listing
  <2>6. y.done \in BOOLEAN
    BY <1>9
  <2>7. y = [query |-> y.query, cursor |-> y.cursor, done |-> y.done, got |-> y.got,
             ours |-> y.ours, theirs |-> y.theirs, steady |-> y.steady]
    BY <1>6, <1>7 DEF Listing
  <2>. QED
    BY <2>2, <2>3, <2>4, <2>5, <2>6, <2>7 DEF Listing
<1>12. \A i \in Ids : x.got[i] \in Nat /\ i \in Nat
  BY <1>7, IdsAssumption DEF Listing
<1>13. x.cursor \in Nat /\ y.cursor \in Nat
  <2>1. x.cursor \in Ids \cup {0}
    BY <1>7 DEF Listing
  <2>2. y.cursor \in Ids \cup {0}
    BY <1>11 DEF Listing
  <2>3. Ids \cup {0} \subseteq Nat
    BY IdsAssumption
  <2>. QED
    BY <2>1, <2>2, <2>3
<1>14. \A i \in Ids : y.got[i] <= 1
  <2> SUFFICES ASSUME NEW i \in Ids
               PROVE  y.got[i] <= 1
    OBVIOUS
  <2>1. y.got[i] = x.got[i] + Cardinality({l \in page : l.id = i})
    BY <1>8
  <2>2. CASE \A l \in page : l.id # i
    BY <1>10, <1>12, <2>1, <2>2 DEF Paged
  <2>3. CASE \E l \in page : l.id = i
    <3>1. i > x.cursor
      BY <1>4, <2>3 DEF S
    <3>2. x.got[i] = 0
      BY <3>1 DEF Paged
    <3>. QED
      BY <1>10, <2>1, <2>3, <3>2
  <2>. QED
    BY <2>2, <2>3
<1>15. \A i \in Ids : ~y.done /\ i > y.cursor => y.got[i] = 0
  <2> SUFFICES ASSUME NEW i \in Ids, more, i > y.cursor
               PROVE  y.got[i] = 0
    BY <1>9
  <2>1. y.cursor = last
    BY <1>8
  <2>2. \A l \in page : l.id # i
    BY <1>2, <1>5, <1>12, <1>13, <2>1 DEF Ordered
  <2>3. x.got[i] = 0
    BY <1>5, <1>12, <1>13, <2>1 DEF Paged
  <2>4. y.got[i] = x.got[i] + Cardinality({l \in page : l.id = i})
    BY <1>8
  <2>. QED
    BY <1>10, <2>2, <2>3, <2>4
<1>16. \A l \in y.steady : y.done \/ l.id <= y.cursor =>
         y.got[l.id] = 1 /\ (l.owner # y.query.user => l \in y.theirs)
  <2> SUFFICES ASSUME NEW l \in x.steady, ~more \/ l.id <= y.cursor
               PROVE  y.got[l.id] = 1 /\ (l.owner # q.user => l \in y.theirs)
    BY <1>8, <1>9
  <2>1. l \in Wanted(q) /\ l.id \in Ids /\ l.id \in Nat
    BY <1>12 DEF Paged, Wanted, Tabled, Lock
  <2>2. y.got[l.id] = x.got[l.id] + Cardinality({m \in page : m.id = l.id})
    BY <1>8, <2>1
  <2>3. CASE l.id <= x.cursor
    <3>1. x.got[l.id] = 1 /\ (l.owner # q.user => l \in x.theirs)
      BY <2>3 DEF Paged
    <3>2. \A m \in page : m.id # l.id
      BY <1>2, <1>4, <1>13, <2>1, <2>3 DEF S, Ordered
    <3>. QED
      BY <1>8, <1>10, <2>1, <2>2, <3>1, <3>2
  <2>4. CASE ~(l.id <= x.cursor)
    <3>1. l \in S
      BY <1>13, <2>1, <2>4 DEF S
    <3>2. l \in page
      BY <1>4, <1>5, <1>8, <3>1
    <3>3. x.got[l.id] = 0
      BY <1>13, <2>1, <2>4 DEF Paged
    <3>. QED
      BY <1>8, <1>10, <2>1, <2>2, <3>2, <3>3
  <2>. QED
    BY <2>3, <2>4
<1>17. (\A l \in y.ours : l.owner = y.query.user) /\ (\A l \in y.theirs : l.owner # y.query.user)
  BY <1>8 DEF Paged
<1>18. y.steady \subseteq Wanted(y.query)
  BY <1>8 DEF Paged
<1>19. Paged(y)
  BY <1>11, <1>14, <1>15, <1>16, <1>17, <1>18 DEF Paged
<1>. QED
  BY <1>19 DEF y

\* Listings stay exact, whatever is locked and unlocked between two pages.
LEMMA ListedInvariant == Spec => []Listed
<1>1. Init => Listed
  BY DEF Init, Listed
<1>2. Entitled /\ Tabled /\ Listed /\ [Next]_vars => Listed'
  <2> SUFFICES ASSUME Entitled, Tabled, Listed, [Next]_vars
               PROVE  Listed'
    OBVIOUS
  <2>1. ASSUME UNCHANGED lst, locks \subseteq locks'
        PROVE  Listed'
    <3>1. \A x : Wanted(x.query) \subseteq Wanted(x.query)'
      BY <2>1 DEF Wanted
    <3>2. \A x : Paged(x) => Paged(x)'
      BY <3>1 DEF Paged
    <3>. QED
      BY <2>1, <3>2 DEF Listed
  <2>2. ASSUME NEW u \in Users, NEW r \in Repos, NEW p \in Paths, NEW i \in Ids,
               CreateLock(u, r, p, i)
        PROVE  Listed'
    BY <2>1, <2>2 DEF CreateLock
  <2>3. ASSUME NEW r \in Unlocks, (\E q \in Request : UnlockCheck(r, q)) \/ UnlockLost(r)
        PROVE  Listed'
    BY <2>1, <2>3 DEF UnlockCheck, UnlockLost
  <2>4. ASSUME NEW gone, Remove(gone)
        PROVE  Listed'
    <3>1. /\ locks' = locks \ gone
          /\ lst' = [v \in Readers |-> {[x EXCEPT !.steady = @ \ gone] : x \in lst[v]}]
      BY <2>4 DEF Remove
    <3>2. ASSUME NEW x, Paged(x)
          PROVE  Paged([x EXCEPT !.steady = @ \ gone])'
      <4> DEFINE y == [x EXCEPT !.steady = @ \ gone]
      <4>1. x \in Listing
        BY <3>2 DEF Paged
      <4>2. /\ y.query = x.query /\ y.cursor = x.cursor /\ y.got = x.got
            /\ y.ours = x.ours /\ y.theirs = x.theirs /\ y.steady = x.steady \ gone
        BY <4>1 DEF Listing
      <4>3. y.done = x.done
        BY <4>1 DEF Listing
      <4>4. y \in Listing
        BY <4>1 DEF Listing
      <4> HIDE DEF y
      <4>5. y.steady \subseteq Wanted(y.query)'
        BY <3>1, <3>2, <4>2 DEF Paged, Wanted
      <4>6. Paged(y)'
        BY <3>2, <4>2, <4>3, <4>4, <4>5 DEF Paged
      <4>. QED
        BY <4>6 DEF y
    <3>3. \A v \in Readers : lst'[v] = {} \/ \E x : lst'[v] = {x}
      <4> SUFFICES ASSUME NEW v \in Readers
                   PROVE  lst'[v] = {} \/ \E x : lst'[v] = {x}
        OBVIOUS
      <4>1. lst'[v] = {[x EXCEPT !.steady = @ \ gone] : x \in lst[v]}
        BY <3>1
      <4>2. CASE lst[v] = {}
        BY <4>1, <4>2
      <4>3. ASSUME NEW x, lst[v] = {x}
            PROVE  lst'[v] = {[x EXCEPT !.steady = @ \ gone]}
        BY <4>1, <4>3
      <4>. QED
        BY <4>2, <4>3 DEF Listed
    <3>4. ASSUME NEW v \in Readers, NEW y \in lst'[v]
          PROVE  Paged(y)'
      <4>1. PICK x \in lst[v] : y = [x EXCEPT !.steady = @ \ gone]
        BY <3>1
      <4>2. Paged([x EXCEPT !.steady = @ \ gone])'
        BY <3>2 DEF Listed
      <4>. QED
        BY <4>1, <4>2 DEF Paged
    <3>5. DOMAIN lst' = Readers /\ lst' = [v \in Readers |-> lst'[v]]
      BY <3>1
    <3>. QED
      BY <3>3, <3>4, <3>5 DEF Listed
  <2>5. ASSUME NEW v \in Readers, NEW q \in Query, NEW n \in Limits, FirstPage(v, q, n)
        PROVE  Listed'
    <3> DEFINE x == [query |-> q, cursor |-> 0, done |-> FALSE,
                     got |-> [i \in Ids |-> 0], ours |-> {}, theirs |-> {},
                     steady |-> Wanted(q)]
    <3>1. lst' = [lst EXCEPT ![v] = {ReadPage(x, n)}] /\ UNCHANGED locks
      BY <2>5 DEF FirstPage
    <3>2. Wanted(q) \subseteq Lock
      BY DEF Wanted, Tabled
    <3>3. x \in Listing
      BY <3>2 DEF Listing
    <3>4. \A l \in Wanted(q) : ~(l.id <= 0)
      <4>1. \A l \in Wanted(q) : l.id \in Ids
        BY <3>2 DEF Lock
      <4>2. \A i \in Ids : ~(i <= 0)
        BY IdsAssumption
      <4>. QED
        BY <4>1, <4>2
    <3>5. Paged(x)
      BY <3>3, <3>4 DEF Paged
    <3>6. ~x.done
      OBVIOUS
    <3> HIDE DEF x
    <3>7. Paged(ReadPage(x, n))
      BY <3>5, <3>6, PageAdvances
    <3>8. \A z : Paged(z) => Paged(z)'
      BY <3>1 DEF Paged, Wanted
    <3>. QED
      BY <3>1, <3>7, <3>8 DEF Listed
  <2>6. ASSUME NEW v \in Readers, NEW n \in Limits, NextPage(v, n)
        PROVE  Listed'
    <3>1. PICK x \in lst[v] : /\ ~x.done /\ UNCHANGED locks
                              /\ lst' = [lst EXCEPT ![v] = {ReadPage(x, n)}]
      BY <2>6 DEF NextPage
    <3>2. Paged(ReadPage(x, n))
      BY <3>1, PageAdvances DEF Listed
    <3>3. \A z : Paged(z) => Paged(z)'
      BY <3>1 DEF Paged, Wanted
    <3>. QED
      BY <3>1, <3>2, <3>3 DEF Listed
  <2>7. ASSUME NEW v \in Readers, Forget(v)
        PROVE  Listed'
    <3>1. lst' = [lst EXCEPT ![v] = {}] /\ UNCHANGED locks
      BY <2>7 DEF Forget
    <3>2. \A z : Paged(z) => Paged(z)'
      BY <3>1 DEF Paged, Wanted
    <3>. QED
      BY <3>1, <3>2 DEF Listed
  <2>8. CASE UNCHANGED vars
    BY <2>1, <2>8 DEF vars
  <2>. QED
    BY <2>2, <2>3, <2>4, <2>5, <2>6, <2>7, <2>8 DEF Next, UnlockDelete
<1>. QED
  BY <1>1, <1>2, EntitledInvariant, TabledInvariant, PTL DEF Spec

\* Ids and paths stay unique, requests and listings keep their types.
THEOREM LocksTyped == Spec => []TypeOK
<1>1. Entitled /\ Tabled /\ Listed => TypeOK
  <2> SUFFICES ASSUME Entitled, Tabled, Listed
               PROVE  TypeOK
    OBVIOUS
  <2>1. \A l, m \in locks : l # m => l.id # m.id /\ <<l.repo, l.path>> # <<m.repo, m.path>>
    BY DEF Entitled, Tabled
  <2>2. \A v \in Readers : lst[v] = {} \/ \E x \in lst[v] : x \in Listing /\ lst[v] = {x}
    BY DEF Listed, Paged
  <2>. QED
    BY <2>1, <2>2 DEF Entitled, Tabled, TypeOK
<1>. QED
  BY <1>1, EntitledInvariant, TabledInvariant, ListedInvariant, PTL

\* Reading page after page returns each lock that existed all the time exactly
\* once and no lock twice, for every page limit and every interleaving.
THEOREM ListingsAreExact == Spec => []ListingExact
<1>1. Listed => ListingExact
  BY DEF Listed, Paged, ListingExact
<1>. QED
  BY <1>1, ListedInvariant, PTL

\* verify_locks reports every lock that someone else held all the time, and
\* never counts a lock on both sides.
THEOREM TheirsAreSeen == Spec => []VerifySeesTheirs
<1>1. Listed => VerifySeesTheirs
  BY DEF Listed, Paged, VerifySeesTheirs
<1>. QED
  BY <1>1, ListedInvariant, PTL
=============================================================================
