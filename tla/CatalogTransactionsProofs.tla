--------------------- MODULE CatalogTransactionsProofs ---------------------
(***************************************************************************)
(* Proofs about CatalogTransactions, for any number of connections,        *)
(* objects and chunks: the statements of concurrent transactions together  *)
(* do what the abstract Catalog does in one step.                          *)
(***************************************************************************)
EXTENDS CatalogTransactions, FiniteSetTheorems, TLAPS

-----------------------------------------------------------------------------
(* Stage 1: the shape of a transaction at each of its statements.           *)

Positions == {"idle", "chunks", "refs", "count", "exists", "upserted",
              "delete", "uncount", "drain", "dequeue", "provider"}
Publishing == {"chunks", "refs", "count", "exists"}
Collecting == {"delete", "uncount"}
Draining == {"drain", "dequeue", "provider"}

TxTypes ==
  [pc : Positions, man : Manifests \cup {NoManifest},
   order : (UNION {[Ordinals(m) -> Ordinals(m)] : m \in Manifests}) \cup {<<>>},
   at : Nat, chunk : Chunks \cup {NoChunk},
   new : SUBSET Chunks, wrote : SUBSET Chunks, val : [Chunks -> Int],
   keys : SUBSET Chunks, excl : SUBSET Chunks, enq : SUBSET Chunks, list : SUBSET Chunks]

TableTypes ==
  /\ objects \in [Oids -> Manifests \cup {NoManifest}]
  /\ rows \subseteq Chunks
  /\ refs \in [Chunks -> Int]
  /\ queue \subseteq Chunks
  /\ tx \in [Tx -> TxTypes]

\* The chunks of a manifest.
ChunkSet(m) == {ChunksOf[m][i] : i \in Ordinals(m)}

\* What the transaction works on, and what it may hold, at each position.
Shape(r) ==
  /\ r.new \subseteq r.wrote
  /\ r.pc \in Publishing =>
       /\ r.man \in Manifests /\ r.order = InOrder(r.man)
       /\ r.at \in 1..(Len(ChunksOf[r.man]) + 1)
       /\ r.pc = "count" => r.at \in Ordinals(r.man)
       /\ r.new \subseteq ChunkSet(r.man) /\ r.enq = {} /\ r.excl = {}
  /\ r.pc \in Collecting =>
       /\ r.man \in Manifests /\ r.order \in Orders(r.man)
       /\ r.at \in 1..(Len(ChunksOf[r.man]) + 1)
       /\ r.new = {} /\ r.keys = {} /\ r.excl = {}
       /\ r.pc = "delete" => r.at = 1 /\ r.wrote = {} /\ r.enq = {}
  /\ r.pc \in Draining => r.new = {} /\ r.wrote = {} /\ r.keys = {} /\ r.enq = {}
  /\ r.pc = "drain" => r.excl = {}
  /\ r.pc \in {"dequeue", "provider"} => r.chunk \in Chunks /\ r.excl \subseteq {r.chunk}
  /\ r.pc = "provider" => r.chunk \in r.excl
  /\ r.pc = "upserted" => r.excl = {} /\ r.enq = {}
  /\ r.pc = "idle" => r = Idle

\* Its locks and versions are of rows that exist, or that it has inserted itself.
Grounded(r, R) ==
  /\ r.excl \subseteq R
  /\ r.new \cap R = {}
  /\ r.keys \subseteq R \cup r.new

\* A publication that has inserted its object found none; a collection works on
\* the manifest that is still committed.
Placed(r, O) ==
  /\ r.pc \in {"refs", "count"} => O[OidOf[r.man]] = NoManifest
  /\ r.pc \in Collecting => O[OidOf[r.man]] = r.man

\* The rows already counted that name chunk c.
Done(r, c) ==
  {j \in Ordinals(r.man) : j < r.at /\ ChunksOf[r.man][r.order[j]] = c}

\* The uncommitted counts are the committed ones plus what was counted so far.
Counted(r, N) ==
  /\ r.pc \in {"chunks", "exists", "upserted"} => \A c \in r.wrote : r.val[c] = N[c]
  /\ r.pc \in {"refs", "count"} => \A c \in Chunks :
       /\ c \in r.wrote => r.val[c] = N[c] + Cardinality(Done(r, c))
       /\ c \notin r.wrote => Done(r, c) = {}
       /\ Done(r, c) # {} => c \in r.keys
  /\ r.pc = "count" => ChunksOf[r.man][r.order[r.at]] \in r.keys
  /\ r.pc = "uncount" => \A c \in Chunks :
       /\ c \in r.wrote => Done(r, c) # {} /\ r.val[c] = N[c] - Cardinality(Done(r, c))
       /\ c \notin r.wrote => Done(r, c) = {}
       /\ c \in r.enq => c \in r.wrote /\ r.val[c] = 0
  /\ r.pc = "provider" => N[r.chunk] = 0

Sound(r, O, R, N) == Shape(r) /\ Grounded(r, R) /\ Placed(r, O) /\ Counted(r, N)

\* Two transactions never hold conflicting versions and locks, publish the same
\* object or collect.
Apart(r, s) ==
  /\ r.wrote \cap s.wrote = {} /\ r.excl \cap s.excl = {}
  /\ r.wrote \cap s.excl = {} /\ r.excl \cap s.wrote = {}
  /\ r.keys \cap s.excl = {} /\ r.excl \cap s.keys = {}
  /\ r.pc \in Publishing /\ s.pc \in Publishing => OidOf[r.man] # OidOf[s.man]
  /\ ~ (r.pc \in Collecting /\ s.pc \in Collecting)

\* The rows of object_chunks that name a chunk, and its count.
Holders(O, c) ==
  {p \in Oids \X Nat : /\ O[p[1]] # NoManifest
                       /\ p[2] \in Ordinals(O[p[1]])
                       /\ ChunksOf[O[p[1]]][p[2]] = c}
Exact(O, R, N) ==
  /\ \A o \in Oids : O[o] # NoManifest => OidOf[O[o]] = o
  /\ \A c \in Chunks :
       /\ IsFiniteSet(Holders(O, c))
       /\ N[c] = Cardinality(Holders(O, c))
       /\ N[c] # 0 => c \in R

Inv ==
  /\ TableTypes
  /\ Exact(objects, rows, refs)
  /\ \A t \in Tx : Sound(tx[t], objects, rows, refs)
  /\ \A t, u \in Tx : t # u => Apart(tx[t], tx[u])

\* The ordinals of a manifest.
LEMMA OrdinalsTypes ==
  ASSUME NEW m \in Manifests
  PROVE  /\ OidOf[m] \in Oids
         /\ Len(ChunksOf[m]) \in Nat
         /\ Ordinals(m) = 1..Len(ChunksOf[m])
         /\ \A i \in Ordinals(m) : ChunksOf[m][i] \in Chunks
         /\ IsFiniteSet(Ordinals(m))
         /\ InOrder(m) \in Orders(m)
         /\ Orders(m) \subseteq [Ordinals(m) -> Ordinals(m)]
<1>1. ChunksOf[m] \in Seq(Chunks) /\ OidOf[m] \in Oids
  BY ManifestsAssumption
<1>2. /\ Len(ChunksOf[m]) \in Nat
      /\ Ordinals(m) = 1..Len(ChunksOf[m])
      /\ \A i \in Ordinals(m) : ChunksOf[m][i] \in Chunks
  BY <1>1 DEF Ordinals
<1>3. 1 \in Int /\ Len(ChunksOf[m]) \in Int
  BY <1>2
<1>4. IsFiniteSet(1..Len(ChunksOf[m]))
  BY ONLY <1>3, FS_Interval
<1>5. InOrder(m) \in Orders(m) /\ Orders(m) \subseteq [Ordinals(m) -> Ordinals(m)]
  BY DEF InOrder, Orders
<1>. QED
  BY <1>1, <1>2, <1>4, <1>5

\* The row a publication or a collection works on.
LEMMA RowTypes ==
  ASSUME NEW t \in Tx, Shape(tx[t]), tx[t].pc \in Publishing \cup Collecting, More(t)
  PROVE  /\ tx[t].at \in Ordinals(tx[t].man)
         /\ tx[t].order[tx[t].at] \in Ordinals(tx[t].man)
         /\ Row(t) \in ChunkSet(tx[t].man)
         /\ Row(t) \in Chunks
<1>2. tx[t].man \in Manifests /\ tx[t].order \in Orders(tx[t].man)
  BY OrdinalsTypes DEF Shape
<1>3. tx[t].at \in Ordinals(tx[t].man)
  BY DEF More
<1>4. tx[t].order[tx[t].at] \in Ordinals(tx[t].man)
  BY <1>2, <1>3, OrdinalsTypes
<1>. QED
  BY <1>2, <1>3, <1>4, OrdinalsTypes DEF Row, ChunkSet

\* The fields of a transaction that has not begun.
LEMMA IdleFields ==
  /\ Idle.pc = "idle" /\ Idle.man = NoManifest /\ Idle.order = <<>> /\ Idle.at = 1
  /\ Idle.chunk = NoChunk /\ Idle.new = {} /\ Idle.wrote = {}
  /\ Idle.val = [c \in Chunks |-> 0] /\ Idle.keys = {} /\ Idle.excl = {}
  /\ Idle.enq = {} /\ Idle.list = {}
BY DEF Idle

\* A connection without a transaction is typed.
LEMMA IdleTyped == Idle \in TxTypes
<1>1. <<>> \in (UNION {[Ordinals(m) -> Ordinals(m)] : m \in Manifests}) \cup {<<>>}
  OBVIOUS
<1> DEFINE O == (UNION {[Ordinals(m) -> Ordinals(m)] : m \in Manifests}) \cup {<<>>}
<1> HIDE DEF O
<1>2. Idle.order \in O
  BY <1>1, IdleFields DEF O
<1>. QED
  BY <1>2 DEF Idle, TxTypes, Positions, O

\* A connection without a transaction holds nothing.
LEMMA IdleShaped == Shape(Idle)
BY IdleFields DEF Shape, Publishing, Collecting, Draining

\* One transaction moves, to record r.
Moves(t, r) ==
  /\ tx' \in [Tx -> TxTypes] /\ tx'[t] = r
  /\ \A u \in Tx : u # t => tx'[u] = tx[u]

\* A step of one transaction leaves the others alone.
LEMMA SetMoves ==
  ASSUME TableTypes, NEW t \in Tx, NEW r \in TxTypes, Set(t, r)
  PROVE  Moves(t, r)
BY DEF TableTypes, Set, Moves

\* Orders of the rows of a manifest are typed.
LEMMA OrderTyped ==
  ASSUME NEW m \in Manifests, NEW f \in Orders(m)
  PROVE  f \in (UNION {[Ordinals(n) -> Ordinals(n)] : n \in Manifests}) \cup {<<>>}
BY OrdinalsTypes

\* UPDATE chunks: a count is changed if the row is found.
LEMMA Added ==
  ASSUME TableTypes, NEW t \in Tx, NEW c \in Chunks, NEW n \in Int
  PROVE  LET r == AddTo(t, c, n) IN
         /\ r \in TxTypes
         /\ r.pc = tx[t].pc /\ r.man = tx[t].man /\ r.order = tx[t].order
         /\ r.at = tx[t].at /\ r.chunk = tx[t].chunk /\ r.new = tx[t].new
         /\ r.keys = tx[t].keys /\ r.excl = tx[t].excl /\ r.enq = tx[t].enq /\ r.list = tx[t].list
         /\ c \notin Visible(t) => r.wrote = tx[t].wrote /\ r.val = tx[t].val
         /\ c \in Visible(t) => /\ r.wrote = tx[t].wrote \cup {c}
                                /\ r.val = [tx[t].val EXCEPT ![c] = Count(t, c) + n]
<1>1. tx[t] \in TxTypes
  BY DEF TableTypes
<1>2. Count(t, c) + n \in Int
  BY <1>1 DEF Count, TableTypes, TxTypes
<1>3. CASE c \notin Visible(t)
  BY <1>1, <1>3 DEF AddTo
<1>4. CASE c \in Visible(t)
  <2> DEFINE r == [tx[t] EXCEPT !.wrote = @ \cup {c}, !.val[c] = Count(t, c) + n]
  <2>1. r = AddTo(t, c, n)
    BY <1>4 DEF AddTo
  <2>2. /\ r.pc = tx[t].pc /\ r.man = tx[t].man /\ r.order = tx[t].order
         /\ r.at = tx[t].at /\ r.chunk = tx[t].chunk /\ r.new = tx[t].new
         /\ r.keys = tx[t].keys /\ r.excl = tx[t].excl /\ r.enq = tx[t].enq /\ r.list = tx[t].list
    BY <1>1 DEF TxTypes
  <2>3. r.wrote = tx[t].wrote \cup {c} /\ r.val = [tx[t].val EXCEPT ![c] = Count(t, c) + n]
    BY <1>1 DEF TxTypes
  <2>4. r \in TxTypes
    BY <1>1, <1>2 DEF TxTypes
  <2> HIDE DEF r
  <2>. QED
    BY <1>4, <2>1, <2>2, <2>3, <2>4
<1>. QED
  BY <1>3, <1>4

-----------------------------------------------------------------------------
(* What each statement does to its own transaction, field by field.         *)

\* The transaction ends.
LEMMA Ends ==
  ASSUME TableTypes, NEW t \in Tx, Set(t, Idle)
  PROVE  Moves(t, Idle)
BY SetMoves, IdleTyped

\* register_and_store_chunk's upsert writes and key-locks one row.
LEMMA UpsertMoves ==
  ASSUME TableTypes, NEW t \in Tx, NEW c \in Chunks, tx[t] = Idle, Upsert(t, c)
  PROVE  /\ Moves(t, tx'[t])
         /\ LET r == tx'[t] IN
            /\ r.pc = "upserted" /\ r.man = NoManifest
            /\ r.new = {c} \ rows /\ r.wrote = {c} /\ r.keys = {c}
            /\ r.excl = {} /\ r.enq = {} /\ r.list = {}
            /\ r.val[c] = IF c \in rows THEN refs[c] ELSE 0
            /\ \A d \in Chunks : d # c => r.val[d] = 0
<1> DEFINE a == AddTo(t, c, 0)
           r == [a EXCEPT !.pc = "upserted", !.wrote = {c}, !.new = {c} \ rows, !.keys = {c}]
<1>1. /\ a \in TxTypes
      /\ a.man = tx[t].man /\ a.excl = tx[t].excl /\ a.enq = tx[t].enq /\ a.list = tx[t].list
      /\ c \notin Visible(t) => a.val = tx[t].val
      /\ c \in Visible(t) => a.val = [tx[t].val EXCEPT ![c] = Count(t, c) + 0]
  BY Added
<1>2. Set(t, r)
  BY DEF Upsert
<1>3. Visible(t) = rows /\ Count(t, c) = refs[c] /\ refs[c] \in Int
  BY IdleFields DEF Visible, Count, TableTypes
<1>4. /\ a.val[c] = IF c \in rows THEN refs[c] ELSE 0
      /\ \A d \in Chunks : d # c => a.val[d] = 0
  BY <1>1, <1>3, IdleFields
<1>5. a.man = NoManifest /\ a.excl = {} /\ a.enq = {} /\ a.list = {}
  BY <1>1, IdleFields
<1> HIDE DEF a
<1>6. r \in TxTypes
  BY <1>1 DEF TxTypes, Positions
<1>7. /\ r.pc = "upserted" /\ r.new = {c} \ rows /\ r.wrote = {c} /\ r.keys = {c}
      /\ r.man = a.man /\ r.excl = a.excl /\ r.enq = a.enq /\ r.list = a.list /\ r.val = a.val
  BY <1>1 DEF TxTypes
<1> HIDE DEF r
<1>8. Moves(t, r) /\ tx'[t] = r
  BY <1>2, <1>6, SetMoves DEF Moves
<1>. QED
  BY <1>4, <1>5, <1>7, <1>8

\* A publication begins at its first chunk, holding nothing.
LEMMA StartPublishMoves ==
  ASSUME TableTypes, NEW t \in Tx, NEW m \in Manifests, StartPublish(t, m)
  PROVE  /\ Moves(t, tx'[t])
         /\ LET r == tx'[t] IN
            /\ r.pc = "chunks" /\ r.man = m /\ r.order = InOrder(m) /\ r.at = 1
            /\ r.new = {} /\ r.wrote = {} /\ r.keys = {}
            /\ r.val = Idle.val /\ r.excl = {} /\ r.enq = {} /\ r.list = {}
<1> DEFINE r == [Idle EXCEPT !.pc = "chunks", !.man = m, !.order = InOrder(m)]
<1>1. Set(t, r)
  BY DEF StartPublish
<1>2. InOrder(m) \in (UNION {[Ordinals(n) -> Ordinals(n)] : n \in Manifests}) \cup {<<>>}
  BY OrdinalsTypes, OrderTyped
<1>3. r \in TxTypes
  BY <1>2, IdleTyped DEF TxTypes, Positions
<1>4. /\ r.pc = "chunks" /\ r.man = m /\ r.order = InOrder(m) /\ r.at = 1
      /\ r.new = {} /\ r.wrote = {} /\ r.keys = {}
      /\ r.val = Idle.val /\ r.excl = {} /\ r.enq = {} /\ r.list = {}
  BY IdleFields DEF Idle
<1> HIDE DEF r
<1>. QED
  BY <1>1, <1>3, <1>4, SetMoves DEF Moves

\* INSERT INTO chunks adds a row with count zero, or finds one and does nothing.
LEMMA InsertChunkMoves ==
  ASSUME TableTypes, NEW t \in Tx, Row(t) \in Chunks, InsertChunk(t)
  PROVE  /\ Moves(t, tx'[t])
         /\ LET r == tx'[t]
                n == {Row(t)} \ Visible(t) IN
            /\ r.pc = tx[t].pc /\ r.man = tx[t].man /\ r.order = tx[t].order
            /\ r.at = tx[t].at + 1
            /\ r.new = tx[t].new \cup n /\ r.wrote = tx[t].wrote \cup n
            /\ r.keys = tx[t].keys /\ r.excl = tx[t].excl
            /\ r.enq = tx[t].enq /\ r.list = tx[t].list
            /\ r.val = [c \in Chunks |-> IF c \in n THEN 0 ELSE tx[t].val[c]]
<1> DEFINE a == Inserted(t, Row(t))
           r == [a EXCEPT !.at = @ + 1]
           n == {Row(t)} \ Visible(t)
<1>1. tx[t] \in TxTypes
  BY DEF TableTypes
<1>2. /\ a \in TxTypes
      /\ a.pc = tx[t].pc /\ a.man = tx[t].man /\ a.order = tx[t].order /\ a.at = tx[t].at
      /\ a.keys = tx[t].keys /\ a.excl = tx[t].excl /\ a.enq = tx[t].enq /\ a.list = tx[t].list
  <2>1. CASE Row(t) \in Visible(t)
    BY <1>1, <2>1 DEF Inserted
  <2>2. CASE Row(t) \notin Visible(t)
    <3>1. a = [tx[t] EXCEPT !.new = @ \cup {Row(t)}, !.wrote = @ \cup {Row(t)}, !.val[Row(t)] = 0]
      BY <2>2 DEF Inserted
    <3> HIDE DEF a
    <3>2. a \in TxTypes
      <4>1. [tx[t].val EXCEPT ![Row(t)] = 0] \in [Chunks -> Int]
        BY <1>1 DEF TxTypes
      <4> DEFINE v == [tx[t].val EXCEPT ![Row(t)] = 0]
      <4>2. a = [tx[t] EXCEPT !.new = @ \cup {Row(t)}, !.wrote = @ \cup {Row(t)}, !.val = v]
        BY <1>1, <3>1 DEF TxTypes
      <4>3. v \in [Chunks -> Int]
        BY <4>1
      <4> HIDE DEF v
      <4>. QED
        BY ONLY <1>1, <4>2, <4>3, Row(t) \in Chunks DEF TxTypes
    <3>3. /\ a.pc = tx[t].pc /\ a.man = tx[t].man /\ a.order = tx[t].order /\ a.at = tx[t].at
          /\ a.keys = tx[t].keys /\ a.excl = tx[t].excl
          /\ a.enq = tx[t].enq /\ a.list = tx[t].list
      BY <1>1, <3>1 DEF TxTypes
    <3>. QED
      BY <3>2, <3>3
  <2>. QED
    BY <2>1, <2>2
<1>3. /\ a.new = tx[t].new \cup n /\ a.wrote = tx[t].wrote \cup n
      /\ a.val = [c \in Chunks |-> IF c \in n THEN 0 ELSE tx[t].val[c]]
  <2>1. CASE Row(t) \in Visible(t)
    <3>1. a = tx[t] /\ n = {}
      BY <2>1 DEF Inserted
    <3>2. tx[t].val \in [Chunks -> Int]
      BY <1>1 DEF TxTypes
    <3>. QED
      BY <3>1, <3>2
  <2>2. CASE Row(t) \notin Visible(t)
    <3>1. n = {Row(t)}
      BY <2>2
    <3>2. a = [tx[t] EXCEPT !.new = @ \cup {Row(t)}, !.wrote = @ \cup {Row(t)}, !.val[Row(t)] = 0]
      BY <2>2 DEF Inserted
    <3>3. tx[t].val \in [Chunks -> Int]
      BY <1>1 DEF TxTypes
    <3>4. /\ a.new = tx[t].new \cup {Row(t)} /\ a.wrote = tx[t].wrote \cup {Row(t)}
          /\ a.val = [tx[t].val EXCEPT ![Row(t)] = 0]
      BY <1>1, <3>2 DEF TxTypes
    <3> HIDE DEF a
    <3>. QED
      BY <3>1, <3>3, <3>4
  <2>. QED
    BY <2>1, <2>2
<1>4. Set(t, r)
  BY DEF InsertChunk
<1> HIDE DEF a
<1>5. r \in TxTypes
  BY <1>2, SMTT(30) DEF TxTypes
<1>6. /\ r.pc = a.pc /\ r.man = a.man /\ r.order = a.order /\ r.at = a.at + 1
      /\ r.new = a.new /\ r.wrote = a.wrote /\ r.val = a.val
      /\ r.keys = a.keys /\ r.excl = a.excl /\ r.enq = a.enq /\ r.list = a.list
  BY <1>2 DEF TxTypes
<1> HIDE DEF r
<1>7. Moves(t, r) /\ tx'[t] = r
  BY <1>4, <1>5, SetMoves DEF Moves
<1>. QED
  BY <1>2, <1>3, <1>6, <1>7

\* INSERT INTO objects decides whether there is anything to count.
LEMMA InsertObjectMoves ==
  ASSUME TableTypes, NEW t \in Tx, InsertObject(t)
  PROVE  /\ Moves(t, tx'[t])
         /\ LET r == tx'[t] IN
            /\ r.pc = IF objects[OidOf[tx[t].man]] = NoManifest THEN "refs" ELSE "exists"
            /\ r.man = tx[t].man /\ r.order = tx[t].order /\ r.at = 1
            /\ r.new = tx[t].new /\ r.wrote = tx[t].wrote /\ r.val = tx[t].val
            /\ r.keys = tx[t].keys /\ r.excl = tx[t].excl
            /\ r.enq = tx[t].enq /\ r.list = tx[t].list
<1> DEFINE p == IF objects[OidOf[tx[t].man]] = NoManifest THEN "refs" ELSE "exists"
           r == [tx[t] EXCEPT !.at = 1, !.pc = p]
<1>1. tx[t] \in TxTypes /\ p \in {"refs", "exists"}
  BY DEF TableTypes
<1>2. Set(t, r)
  BY DEF InsertObject
<1> HIDE DEF p
<1>3. r \in TxTypes
  BY <1>1 DEF TxTypes, Positions
<1>4. /\ r.pc = p /\ r.man = tx[t].man /\ r.order = tx[t].order /\ r.at = 1
      /\ r.new = tx[t].new /\ r.wrote = tx[t].wrote /\ r.val = tx[t].val
      /\ r.keys = tx[t].keys /\ r.excl = tx[t].excl
      /\ r.enq = tx[t].enq /\ r.list = tx[t].list
  BY <1>1 DEF TxTypes
<1> HIDE DEF r
<1>5. Moves(t, r) /\ tx'[t] = r
  BY <1>2, <1>3, SetMoves DEF Moves
<1>. QED
  BY <1>4, <1>5 DEF p

\* INSERT INTO object_chunks key-locks the row of the chunk it names.
LEMMA InsertRefMoves ==
  ASSUME TableTypes, NEW t \in Tx, Row(t) \in Chunks, Row(t) \in Visible(t), InsertRef(t)
  PROVE  /\ Moves(t, tx'[t])
         /\ LET r == tx'[t] IN
            /\ r.pc = "count"
            /\ r.man = tx[t].man /\ r.order = tx[t].order /\ r.at = tx[t].at
            /\ r.new = tx[t].new /\ r.wrote = tx[t].wrote /\ r.val = tx[t].val
            /\ r.keys = tx[t].keys \cup {Row(t)} /\ r.excl = tx[t].excl
            /\ r.enq = tx[t].enq /\ r.list = tx[t].list
<1> DEFINE r == [tx[t] EXCEPT !.pc = "count", !.keys = @ \cup {Row(t)}]
<1>1. tx[t] \in TxTypes
  BY DEF TableTypes
<1>2. Set(t, r)
  BY DEF InsertRef
<1>3. r \in TxTypes
  BY <1>1 DEF TxTypes, Positions
<1>4. /\ r.pc = "count" /\ r.man = tx[t].man /\ r.order = tx[t].order /\ r.at = tx[t].at
      /\ r.new = tx[t].new /\ r.wrote = tx[t].wrote /\ r.val = tx[t].val
      /\ r.keys = tx[t].keys \cup {Row(t)} /\ r.excl = tx[t].excl
      /\ r.enq = tx[t].enq /\ r.list = tx[t].list
  BY <1>1 DEF TxTypes
<1> HIDE DEF r
<1>5. Moves(t, r) /\ tx'[t] = r
  BY <1>2, <1>3, SetMoves DEF Moves
<1>. QED
  BY <1>4, <1>5

\* reference_count + 1: the row has a version of this transaction.
LEMMA AddOneMoves ==
  ASSUME TableTypes, NEW t \in Tx, Row(t) \in Chunks, Row(t) \in Visible(t), AddOne(t)
  PROVE  /\ Moves(t, tx'[t])
         /\ LET r == tx'[t] IN
            /\ r.pc = "refs"
            /\ r.man = tx[t].man /\ r.order = tx[t].order /\ r.at = tx[t].at + 1
            /\ r.new = tx[t].new /\ r.wrote = tx[t].wrote \cup {Row(t)}
            /\ r.keys = tx[t].keys /\ r.excl = tx[t].excl
            /\ r.enq = tx[t].enq /\ r.list = tx[t].list
            /\ r.val = [tx[t].val EXCEPT ![Row(t)] = Count(t, Row(t)) + 1]
<1> DEFINE a == AddTo(t, Row(t), 1)
           r == [a EXCEPT !.pc = "refs", !.at = @ + 1]
<1>1. /\ a \in TxTypes
      /\ a.pc = tx[t].pc /\ a.man = tx[t].man /\ a.order = tx[t].order /\ a.at = tx[t].at
      /\ a.new = tx[t].new /\ a.wrote = tx[t].wrote \cup {Row(t)}
      /\ a.keys = tx[t].keys /\ a.excl = tx[t].excl /\ a.enq = tx[t].enq /\ a.list = tx[t].list
      /\ a.val = [tx[t].val EXCEPT ![Row(t)] = Count(t, Row(t)) + 1]
  BY Added
<1>2. Set(t, r)
  BY DEF AddOne
<1>6. a \in TxTypes
  BY <1>1
<1> HIDE DEF a
<1>7. a.at + 1 \in Nat
  BY <1>6 DEF TxTypes
<1>3. r \in TxTypes
  BY ONLY <1>6, <1>7 DEF TxTypes, Positions
<1>4. /\ r.pc = "refs" /\ r.man = a.man /\ r.order = a.order /\ r.at = a.at + 1
      /\ r.new = a.new /\ r.wrote = a.wrote /\ r.val = a.val
      /\ r.keys = a.keys /\ r.excl = a.excl /\ r.enq = a.enq /\ r.list = a.list
  BY <1>1 DEF TxTypes
<1> HIDE DEF r
<1>5. Moves(t, r) /\ tx'[t] = r
  BY <1>2, <1>3, SetMoves DEF Moves
<1>. QED
  BY <1>1, <1>4, <1>5

\* reference_count - 1, and the queue entry when it becomes zero.
LEMMA SubOneMoves ==
  ASSUME TableTypes, NEW t \in Tx, Row(t) \in Chunks, Row(t) \in Visible(t), SubOne(t)
  PROVE  /\ Moves(t, tx'[t])
         /\ LET r == tx'[t] IN
            /\ r.pc = tx[t].pc
            /\ r.man = tx[t].man /\ r.order = tx[t].order /\ r.at = tx[t].at + 1
            /\ r.new = tx[t].new /\ r.wrote = tx[t].wrote \cup {Row(t)}
            /\ r.keys = tx[t].keys /\ r.excl = tx[t].excl /\ r.list = tx[t].list
            /\ r.enq = tx[t].enq \cup IF Count(t, Row(t)) = 1 THEN {Row(t)} \ queue ELSE {}
            /\ r.val = [tx[t].val EXCEPT ![Row(t)] = Count(t, Row(t)) - 1]
<1> DEFINE a == AddTo(t, Row(t), -1)
           e == a.enq \cup IF Count(t, Row(t)) = 1 THEN {Row(t)} \ queue ELSE {}
           r == [a EXCEPT !.at = @ + 1, !.enq = e]
<1>1. /\ a \in TxTypes
      /\ a.pc = tx[t].pc /\ a.man = tx[t].man /\ a.order = tx[t].order /\ a.at = tx[t].at
      /\ a.new = tx[t].new /\ a.wrote = tx[t].wrote \cup {Row(t)}
      /\ a.keys = tx[t].keys /\ a.excl = tx[t].excl /\ a.enq = tx[t].enq /\ a.list = tx[t].list
      /\ a.val = [tx[t].val EXCEPT ![Row(t)] = Count(t, Row(t)) + (-1)]
  BY Added
<1>2. Set(t, [a EXCEPT !.at = @ + 1,
                !.enq = @ \cup IF Count(t, Row(t)) = 1 THEN {Row(t)} \ queue ELSE {}])
  BY DEF SubOne
<1>3. Count(t, Row(t)) \in Int
  BY DEF Count, TableTypes, TxTypes
<1>4. Count(t, Row(t)) + (-1) = Count(t, Row(t)) - 1
  BY ONLY <1>3
<1> HIDE DEF a
<1>5. r = [a EXCEPT !.at = @ + 1, !.enq = @ \cup IF Count(t, Row(t)) = 1 THEN {Row(t)} \ queue ELSE {}]
  BY <1>1 DEF TxTypes
<1>6. e \in SUBSET Chunks /\ a.at + 1 \in Nat /\ a \in TxTypes
  BY <1>1 DEF TxTypes
<1> HIDE DEF e
<1>7. r \in TxTypes
  BY ONLY <1>6 DEF TxTypes
<1>8. /\ r.pc = a.pc /\ r.man = a.man /\ r.order = a.order /\ r.at = a.at + 1
      /\ r.new = a.new /\ r.wrote = a.wrote /\ r.val = a.val
      /\ r.keys = a.keys /\ r.excl = a.excl /\ r.enq = e /\ r.list = a.list
  BY <1>1 DEF TxTypes
<1>9. Set(t, r)
  BY <1>2, <1>5
<1> HIDE DEF r
<1>10. Moves(t, r) /\ tx'[t] = r
  BY <1>9, <1>7, SetMoves DEF Moves
<1>11. e = tx[t].enq \cup IF Count(t, Row(t)) = 1 THEN {Row(t)} \ queue ELSE {}
  BY <1>1 DEF e
<1>. QED
  BY <1>1, <1>4, <1>8, <1>10, <1>11

\* A collection takes the rows of its object in any order.
LEMMA StartCollectMoves ==
  ASSUME TableTypes, NEW t \in Tx, NEW o \in Oids, StartCollect(t, o)
  PROVE  /\ Moves(t, tx'[t])
         /\ LET r == tx'[t] IN
            /\ r.pc = "delete" /\ r.man = objects[o] /\ r.man \in Manifests
            /\ r.order \in Orders(objects[o]) /\ r.at = 1
            /\ r.new = {} /\ r.wrote = {} /\ r.keys = {}
            /\ r.val = Idle.val /\ r.excl = {} /\ r.enq = {} /\ r.list = {}
<1>1. objects[o] \in Manifests
  BY DEF TableTypes, StartCollect
<1>2. PICK f \in Orders(objects[o]) :
        Set(t, [Idle EXCEPT !.pc = "delete", !.man = objects[o], !.order = f])
  BY DEF StartCollect
<1> DEFINE r == [Idle EXCEPT !.pc = "delete", !.man = objects[o], !.order = f]
<1>3. f \in (UNION {[Ordinals(n) -> Ordinals(n)] : n \in Manifests}) \cup {<<>>}
  BY <1>1, OrderTyped
<1>4. r \in TxTypes
  BY <1>1, <1>3, IdleTyped DEF TxTypes, Positions
<1>5. /\ r.pc = "delete" /\ r.man = objects[o] /\ r.order = f /\ r.at = 1
      /\ r.new = {} /\ r.wrote = {} /\ r.keys = {}
      /\ r.val = Idle.val /\ r.excl = {} /\ r.enq = {} /\ r.list = {}
  BY IdleFields DEF Idle
<1> HIDE DEF r
<1>6. Set(t, r)
  BY <1>2 DEF r
<1>. QED
  BY <1>1, <1>4, <1>5, <1>6, SetMoves DEF Moves

\* DELETE FROM objects takes no lock on a chunk.
LEMMA DeleteObjectMoves ==
  ASSUME TableTypes, NEW t \in Tx, DeleteObject(t)
  PROVE  /\ Moves(t, tx'[t])
         /\ LET r == tx'[t] IN
            /\ r.pc = "uncount"
            /\ r.man = tx[t].man /\ r.order = tx[t].order /\ r.at = tx[t].at
            /\ r.new = tx[t].new /\ r.wrote = tx[t].wrote /\ r.val = tx[t].val
            /\ r.keys = tx[t].keys /\ r.excl = tx[t].excl
            /\ r.enq = tx[t].enq /\ r.list = tx[t].list
<1> DEFINE r == [tx[t] EXCEPT !.pc = "uncount"]
<1>1. tx[t] \in TxTypes
  BY DEF TableTypes
<1>2. Set(t, r)
  BY DEF DeleteObject
<1>3. r \in TxTypes
  BY <1>1 DEF TxTypes, Positions
<1>4. /\ r.pc = "uncount"
      /\ r.man = tx[t].man /\ r.order = tx[t].order /\ r.at = tx[t].at
      /\ r.new = tx[t].new /\ r.wrote = tx[t].wrote /\ r.val = tx[t].val
      /\ r.keys = tx[t].keys /\ r.excl = tx[t].excl
      /\ r.enq = tx[t].enq /\ r.list = tx[t].list
  BY <1>1 DEF TxTypes
<1> HIDE DEF r
<1>5. Moves(t, r) /\ tx'[t] = r
  BY <1>2, <1>3, SetMoves DEF Moves
<1>. QED
  BY <1>4, <1>5

\* A drain begins with the entries it read.
LEMMA ReadQueueMoves ==
  ASSUME TableTypes, NEW t \in Tx, ReadQueue(t)
  PROVE  /\ Moves(t, tx'[t])
         /\ LET r == tx'[t] IN
            /\ r.pc = "drain" /\ r.new = {} /\ r.wrote = {} /\ r.keys = {}
            /\ r.val = Idle.val /\ r.excl = {} /\ r.enq = {} /\ r.list = queue
<1> DEFINE r == [Idle EXCEPT !.pc = "drain", !.list = queue]
<1>1. r \in TxTypes
  BY IdleTyped DEF TxTypes, Positions, TableTypes
<1>2. /\ r.pc = "drain" /\ r.new = {} /\ r.wrote = {} /\ r.keys = {}
      /\ r.val = Idle.val /\ r.excl = {} /\ r.enq = {} /\ r.list = queue
  BY IdleFields DEF Idle
<1>3. Set(t, r)
  BY DEF ReadQueue
<1> HIDE DEF r
<1>. QED
  BY <1>1, <1>2, <1>3, SetMoves DEF Moves

\* A drain goes on with the rest of its entries.
LEMMA NextEntryMoves ==
  ASSUME TableTypes, NEW t \in Tx, Set(t, NextEntry(t))
  PROVE  /\ Moves(t, tx'[t])
         /\ LET r == tx'[t] IN
            /\ r.pc = "drain" /\ r.new = {} /\ r.wrote = {} /\ r.keys = {}
            /\ r.val = Idle.val /\ r.excl = {} /\ r.enq = {} /\ r.list = tx[t].list \ {tx[t].chunk}
<1> DEFINE r == [Idle EXCEPT !.pc = "drain", !.list = tx[t].list \ {tx[t].chunk}]
<1>1. tx[t].list \subseteq Chunks
  BY DEF TableTypes, TxTypes
<1>2. r \in TxTypes
  BY <1>1, IdleTyped DEF TxTypes, Positions
<1>3. /\ r.pc = "drain" /\ r.new = {} /\ r.wrote = {} /\ r.keys = {}
      /\ r.val = Idle.val /\ r.excl = {} /\ r.enq = {} /\ r.list = tx[t].list \ {tx[t].chunk}
  BY IdleFields DEF Idle
<1>4. Set(t, r)
  BY DEF NextEntry
<1> HIDE DEF r
<1>. QED
  BY <1>2, <1>3, <1>4, SetMoves DEF Moves

\* SELECT ... FOR UPDATE locks the row it finds.
LEMMA SelectMoves ==
  ASSUME TableTypes, NEW t \in Tx, NEW c \in Chunks, SelectForUpdate(t, c)
  PROVE  /\ Moves(t, tx'[t])
         /\ LET r == tx'[t] IN
            /\ r.pc = IF c \in rows /\ refs[c] = 0 THEN "provider" ELSE "dequeue"
            /\ r.chunk = c /\ r.excl = {c} \cap rows
            /\ r.new = tx[t].new /\ r.wrote = tx[t].wrote /\ r.val = tx[t].val
            /\ r.keys = tx[t].keys /\ r.enq = tx[t].enq /\ r.list = tx[t].list
<1> DEFINE p == IF c \in rows /\ refs[c] = 0 THEN "provider" ELSE "dequeue"
           r == [tx[t] EXCEPT !.chunk = c, !.excl = {c} \cap rows, !.pc = p]
<1>1. tx[t] \in TxTypes /\ p \in {"provider", "dequeue"}
  BY DEF TableTypes
<1>2. Set(t, r)
  BY DEF SelectForUpdate
<1> HIDE DEF p
<1>3. r \in TxTypes
  BY <1>1 DEF TxTypes, Positions
<1>4. /\ r.pc = p /\ r.chunk = c /\ r.excl = {c} \cap rows
      /\ r.new = tx[t].new /\ r.wrote = tx[t].wrote /\ r.val = tx[t].val
      /\ r.keys = tx[t].keys /\ r.enq = tx[t].enq /\ r.list = tx[t].list
  BY <1>1 DEF TxTypes
<1> HIDE DEF r
<1>5. Moves(t, r) /\ tx'[t] = r
  BY <1>2, <1>3, SetMoves DEF Moves
<1>. QED
  BY <1>4, <1>5 DEF p

-----------------------------------------------------------------------------
(* Steps within a transaction keep the invariant.                           *)

\* A connection without a transaction satisfies every part of the invariant.
LEMMA IdleSound ==
  /\ \A O, R, N : Sound(Idle, O, R, N)
  /\ \A s : Apart(Idle, s)
<1>1. ASSUME NEW O, NEW R, NEW N
      PROVE  Sound(Idle, O, R, N)
  BY IdleFields, IdleShaped DEF Sound, Grounded, Placed, Counted, Collecting
<1>2. ASSUME NEW s
      PROVE  Apart(Idle, s)
  BY IdleFields DEF Apart, Publishing, Collecting
<1>. QED
  BY <1>1, <1>2

\* Being apart is mutual.
LEMMA ApartSymmetric ==
  ASSUME NEW r, NEW s, Apart(r, s)
  PROVE  Apart(s, r)
BY DEF Apart

\* A step that changes one transaction, and perhaps the tables.
LEMMA StepKeepsInv ==
  ASSUME Inv, NEW t \in Tx, Moves(t, tx'[t]),
         objects' \in [Oids -> Manifests \cup {NoManifest}],
         rows' \subseteq Chunks, refs' \in [Chunks -> Int], queue' \subseteq Chunks,
         Exact(objects', rows', refs'),
         Sound(tx'[t], objects', rows', refs'),
         \A u \in Tx : u # t => Apart(tx'[t], tx[u]) /\ Sound(tx[u], objects', rows', refs')
  PROVE  Inv'
<1>1. tx' \in [Tx -> TxTypes] /\ \A u \in Tx : u # t => tx'[u] = tx[u]
  BY DEF Moves
<1>2. TableTypes'
  BY <1>1 DEF TableTypes
<1>3. \A u \in Tx : Sound(tx'[u], objects', rows', refs')
  BY <1>1
<1>4. ASSUME NEW u \in Tx, NEW v \in Tx, u # v
      PROVE  Apart(tx'[u], tx'[v])
  <2>1. CASE u = t
    BY <1>1, <1>4, <2>1
  <2>2. CASE v = t
    BY <1>1, <1>4, <2>2, ApartSymmetric
  <2>3. CASE u # t /\ v # t
    <3>1. tx'[u] = tx[u] /\ tx'[v] = tx[v]
      BY <1>1, <2>3
    <3>2. Apart(tx[u], tx[v])
      BY <1>4 DEF Inv
    <3>. QED
      BY <3>1, <3>2
  <2>. QED
    BY <2>1, <2>2, <2>3
<1>. QED
  BY <1>2, <1>3, <1>4 DEF Inv

\* A step that commits nothing.
LEMMA LocalStep ==
  ASSUME Inv, NEW t \in Tx, Moves(t, tx'[t]), UNCHANGED db,
         Sound(tx'[t], objects, rows, refs),
         \A u \in Tx : u # t => Apart(tx'[t], tx[u])
  PROVE  Inv'
<1>1. objects' = objects /\ rows' = rows /\ refs' = refs /\ queue' = queue
  BY DEF db
<1>2. /\ objects' \in [Oids -> Manifests \cup {NoManifest}]
      /\ rows' \subseteq Chunks /\ refs' \in [Chunks -> Int] /\ queue' \subseteq Chunks
  BY <1>1 DEF Inv, TableTypes
<1>3. Exact(objects', rows', refs') /\ Sound(tx'[t], objects', rows', refs')
  BY <1>1 DEF Inv
<1>4. \A u \in Tx : u # t => Apart(tx'[t], tx[u]) /\ Sound(tx[u], objects', rows', refs')
  BY <1>1 DEF Inv
<1>. QED
  BY <1>2, <1>3, <1>4, StepKeepsInv

\* The invariant as it is used for one transaction.
LEMMA InvFacts ==
  ASSUME Inv, NEW t \in Tx
  PROVE  /\ TableTypes /\ tx[t] \in TxTypes
         /\ Shape(tx[t]) /\ Grounded(tx[t], rows)
         /\ Placed(tx[t], objects) /\ Counted(tx[t], refs)
         /\ \A u \in Tx : u # t => Apart(tx[t], tx[u])
         /\ \A u \in Tx : Grounded(tx[u], rows)
         /\ tx[t].pc = "idle" => tx[t] = Idle
BY DEF Inv, Sound, TableTypes, Shape

\* A rollback, and a drain that ends.
LEMMA EndKeepsInv ==
  ASSUME Inv, NEW t \in Tx, Set(t, Idle), UNCHANGED db
  PROVE  Inv'
<1>1. Moves(t, Idle) /\ tx'[t] = Idle
  BY Ends, InvFacts DEF Moves
<1>. QED
  BY <1>1, IdleSound, LocalStep

\* The upsert of register_and_store_chunk keeps the invariant.
LEMMA UpsertKeepsInv ==
  ASSUME Inv, NEW t \in Tx, NEW c \in Chunks, Upsert(t, c)
  PROVE  Inv'
<1> DEFINE r == tx'[t]
<1>1. tx[t] = Idle
  BY InvFacts DEF Upsert
<1>2. /\ Moves(t, r)
      /\ r.pc = "upserted" /\ r.man = NoManifest
      /\ r.new = {c} \ rows /\ r.wrote = {c} /\ r.keys = {c}
      /\ r.excl = {} /\ r.enq = {} /\ r.list = {}
      /\ r.val[c] = IF c \in rows THEN refs[c] ELSE 0
  BY <1>1, InvFacts, UpsertMoves
<1> HIDE DEF r
<1>3. refs[c] # 0 => c \in rows
  BY DEF Inv, Exact
<1>4. Sound(r, objects, rows, refs)
  BY <1>2, <1>3 DEF Sound, Shape, Grounded, Placed, Counted, Publishing, Collecting, Draining
<1>5. ASSUME NEW u \in Tx, u # t
      PROVE  Apart(r, tx[u])
  <2>1. c \notin tx[u].wrote /\ c \notin tx[u].excl
    BY <1>5 DEF Upsert, Updating, Writing, Excluding, Others
  <2>. QED
    BY <1>2, <2>1 DEF Apart, Publishing, Collecting
<1>. QED
  BY <1>2, <1>4, <1>5, LocalStep DEF Upsert, r

\* At the first row nothing is counted.
LEMMA NothingDone ==
  ASSUME NEW r, r.man \in Manifests, r.at = 1, NEW c
  PROVE  Done(r, c) = {}
BY OrdinalsTypes DEF Done

\* BEGIN of publish_manifest keeps the invariant.
LEMMA StartPublishKeepsInv ==
  ASSUME Inv, NEW t \in Tx, NEW m \in Manifests, StartPublish(t, m)
  PROVE  Inv'
<1> DEFINE r == tx'[t]
<1>1. /\ Moves(t, r)
      /\ r.pc = "chunks" /\ r.man = m /\ r.order = InOrder(m) /\ r.at = 1
      /\ r.new = {} /\ r.wrote = {} /\ r.keys = {}
      /\ r.excl = {} /\ r.enq = {} /\ r.list = {}
  BY InvFacts, StartPublishMoves
<1> HIDE DEF r
<1>2. Len(ChunksOf[m]) \in Nat
  BY OrdinalsTypes
<1>3. Sound(r, objects, rows, refs)
  BY <1>1, <1>2 DEF Sound, Shape, Grounded, Placed, Counted, Publishing, Collecting, Draining
<1>4. ASSUME NEW u \in Tx, u # t
      PROVE  Apart(r, tx[u])
  <2>1. tx[u].pc \in Publishing => OidOf[tx[u].man] # OidOf[m]
    BY <1>4 DEF StartPublish, Others, Publishing
  <2>. QED
    BY <1>1, <2>1 DEF Apart, Publishing, Collecting
<1>. QED
  BY <1>1, <1>3, <1>4, LocalStep DEF StartPublish, r

\* BEGIN of a collection keeps the invariant.
LEMMA StartCollectKeepsInv ==
  ASSUME Inv, NEW t \in Tx, NEW o \in Oids, StartCollect(t, o)
  PROVE  Inv'
<1> DEFINE r == tx'[t]
<1>1. /\ Moves(t, r)
      /\ r.pc = "delete" /\ r.man = objects[o] /\ r.man \in Manifests
      /\ r.order \in Orders(objects[o]) /\ r.at = 1
      /\ r.new = {} /\ r.wrote = {} /\ r.keys = {}
      /\ r.excl = {} /\ r.enq = {} /\ r.list = {}
  BY InvFacts, StartCollectMoves
<1> HIDE DEF r
<1>2. Len(ChunksOf[r.man]) \in Nat
  BY <1>1, OrdinalsTypes
<1>3. OidOf[objects[o]] = o
  BY DEF StartCollect, Inv, Exact
<1>4. Sound(r, objects, rows, refs)
  BY <1>1, <1>2, <1>3
     DEF Sound, Shape, Grounded, Placed, Counted, Publishing, Collecting, Draining
<1>5. ASSUME NEW u \in Tx, u # t
      PROVE  Apart(r, tx[u])
  <2>1. tx[u].pc \notin Collecting
    BY <1>5 DEF StartCollect, Others, Collecting
  <2>. QED
    BY <1>1, <2>1 DEF Apart, Publishing, Collecting
<1>. QED
  BY <1>1, <1>4, <1>5, LocalStep DEF StartCollect, r

\* The steps of a drain that commit nothing keep the invariant.
LEMMA DrainStepsKeepInv ==
  ASSUME Inv, NEW t \in Tx, ReadQueue(t) \/ PassOver(t) \/ \E c \in Chunks : SelectForUpdate(t, c)
  PROVE  Inv'
<1> DEFINE r == tx'[t]
<1>1. CASE ReadQueue(t) \/ PassOver(t)
  <2>1. /\ Moves(t, r)
        /\ r.pc = "drain" /\ r.new = {} /\ r.wrote = {} /\ r.keys = {}
        /\ r.excl = {} /\ r.enq = {}
    BY <1>1, InvFacts, ReadQueueMoves, NextEntryMoves DEF PassOver
  <2> HIDE DEF r
  <2>2. Sound(r, objects, rows, refs)
    BY <2>1 DEF Sound, Shape, Grounded, Placed, Counted, Publishing, Collecting, Draining
  <2>3. \A u \in Tx : Apart(r, tx[u])
    BY <2>1 DEF Apart, Publishing, Collecting
  <2>. QED
    BY <1>1, <2>1, <2>2, <2>3, LocalStep DEF ReadQueue, PassOver, r
<1>2. ASSUME NEW c \in Chunks, SelectForUpdate(t, c)
      PROVE  Inv'
  <2>1. tx[t].pc = "drain" /\ Shape(tx[t])
    BY <1>2, InvFacts DEF SelectForUpdate
  <2>2. tx[t].new = {} /\ tx[t].wrote = {} /\ tx[t].keys = {} /\ tx[t].enq = {}
    BY <2>1 DEF Shape, Draining
  <2>3. /\ Moves(t, r)
        /\ r.pc = IF c \in rows /\ refs[c] = 0 THEN "provider" ELSE "dequeue"
        /\ r.chunk = c /\ r.excl = {c} \cap rows
        /\ r.new = {} /\ r.wrote = {} /\ r.keys = {} /\ r.enq = {}
    BY <1>2, <2>2, InvFacts, SelectMoves
  <2> HIDE DEF r
  <2>4. Sound(r, objects, rows, refs)
    BY <2>3 DEF Sound, Shape, Grounded, Placed, Counted, Publishing, Collecting, Draining
  <2>5. ASSUME NEW u \in Tx, u # t
        PROVE  Apart(r, tx[u])
    <3>1. c \in rows => c \notin tx[u].wrote /\ c \notin tx[u].excl /\ c \notin tx[u].keys
      BY <1>2, <2>5 DEF SelectForUpdate, Locking, Updating, Writing, Excluding, Others
    <3>. QED
      BY <2>3, <3>1 DEF Apart, Publishing, Collecting
  <2>. QED
    BY <1>2, <2>3, <2>4, <2>5, LocalStep DEF SelectForUpdate, r
<1>. QED
  BY <1>1, <1>2

\* The insertion of a chunk keeps the invariant.
LEMMA InsertChunkKeepsInv ==
  ASSUME Inv, NEW t \in Tx, InsertChunk(t)
  PROVE  Inv'
<1> DEFINE r == tx'[t]
           n == {Row(t)} \ Visible(t)
<1>1. tx[t].pc = "chunks" /\ More(t) /\ Shape(tx[t]) /\ UNCHANGED db
  BY InvFacts DEF InsertChunk
<1>2. Row(t) \in Chunks /\ Row(t) \in ChunkSet(tx[t].man) /\ tx[t].at \in Ordinals(tx[t].man)
  BY <1>1, RowTypes DEF Publishing
<1>3. /\ Moves(t, r)
      /\ r.pc = tx[t].pc /\ r.man = tx[t].man /\ r.order = tx[t].order
      /\ r.at = tx[t].at + 1
      /\ r.new = tx[t].new \cup n /\ r.wrote = tx[t].wrote \cup n
      /\ r.keys = tx[t].keys /\ r.excl = tx[t].excl
      /\ r.enq = tx[t].enq /\ r.list = tx[t].list
      /\ r.val = [c \in Chunks |-> IF c \in n THEN 0 ELSE tx[t].val[c]]
  BY <1>2, InvFacts, InsertChunkMoves
<1> HIDE DEF r
<1>4. n \subseteq ChunkSet(tx[t].man) /\ n \cap rows = {} /\ n \subseteq Chunks
  BY <1>2 DEF Visible
<1>5. Shape(r)
  <2>1. tx[t].man \in Manifests /\ tx[t].order = InOrder(tx[t].man)
        /\ tx[t].new \subseteq ChunkSet(tx[t].man) /\ tx[t].enq = {} /\ tx[t].excl = {}
        /\ tx[t].new \subseteq tx[t].wrote
    BY <1>1 DEF Shape, Publishing
  <2>2. tx[t].at + 1 \in 1..(Len(ChunksOf[tx[t].man]) + 1)
    BY <1>2, <2>1, OrdinalsTypes
  <2> HIDE DEF n
  <2>. QED
    BY <1>1, <1>3, <1>4, <2>1, <2>2 DEF Shape, Publishing, Collecting, Draining
<1>6. Grounded(r, rows)
  BY <1>3, <1>4, InvFacts DEF Grounded
<1>7. Placed(r, objects)
  BY <1>1, <1>3 DEF Placed, Collecting
<1>8. Counted(r, refs)
  <2>1. \A c \in n : refs[c] = 0
    BY <1>4 DEF Inv, Exact
  <2>2. \A c \in tx[t].wrote : tx[t].val[c] = refs[c]
    BY <1>1, InvFacts DEF Counted
  <2>3. tx[t].wrote \subseteq Chunks
    BY InvFacts DEF TxTypes
  <2> HIDE DEF n
  <2>4. \A c \in r.wrote : r.val[c] = refs[c]
    BY <1>3, <1>4, <2>1, <2>2, <2>3
  <2>. QED
    BY <1>1, <1>3, <2>4 DEF Counted
<1>9. ASSUME NEW u \in Tx, u # t
      PROVE  Apart(r, tx[u])
  <2>1. n \cap tx[u].wrote = {}
    BY <1>9 DEF InsertChunk, Writing, Others
  <2>2. n \cap tx[u].excl = {}
    BY <1>4, <1>9, InvFacts DEF Grounded
  <2>3. Apart(tx[t], tx[u]) /\ tx[t].excl = {}
    BY <1>1, <1>9, InvFacts DEF Shape, Publishing
  <2> HIDE DEF n
  <2>. QED
    BY <1>3, <2>1, <2>2, <2>3 DEF Apart
<1>. QED
  BY <1>1, <1>3, <1>5, <1>6, <1>7, <1>8, <1>9, LocalStep DEF r, Sound

\* The insertion of an object keeps the invariant.
LEMMA InsertObjectKeepsInv ==
  ASSUME Inv, NEW t \in Tx, InsertObject(t)
  PROVE  Inv'
<1> DEFINE r == tx'[t]
<1>1. tx[t].pc = "chunks" /\ Shape(tx[t]) /\ UNCHANGED db
  BY InvFacts DEF InsertObject
<1>2. /\ Moves(t, r)
      /\ r.pc = IF objects[OidOf[tx[t].man]] = NoManifest THEN "refs" ELSE "exists"
      /\ r.man = tx[t].man /\ r.order = tx[t].order /\ r.at = 1
      /\ r.new = tx[t].new /\ r.wrote = tx[t].wrote /\ r.val = tx[t].val
      /\ r.keys = tx[t].keys /\ r.excl = tx[t].excl
      /\ r.enq = tx[t].enq /\ r.list = tx[t].list
  BY InvFacts, InsertObjectMoves
<1> HIDE DEF r
<1>3. tx[t].man \in Manifests /\ Len(ChunksOf[tx[t].man]) \in Nat
  BY <1>1, OrdinalsTypes DEF Shape, Publishing
<1>4. Shape(r)
  BY <1>1, <1>2, <1>3 DEF Shape, Publishing, Collecting, Draining
<1>5. Grounded(r, rows) /\ Placed(r, objects)
  BY <1>2, InvFacts DEF Grounded, Placed, Collecting
<1>6. Counted(r, refs)
  <2>1. \A c \in tx[t].wrote : tx[t].val[c] = refs[c]
    BY <1>1, InvFacts DEF Counted
  <2>2. \A c : Done(r, c) = {}
    BY <1>2, <1>3, NothingDone
  <2>3. Cardinality({}) = 0
    BY FS_EmptySet
  <2>4. \A c \in Chunks : refs[c] + 0 = refs[c]
    BY InvFacts DEF TableTypes
  <2>. QED
    BY <1>2, <2>1, <2>2, <2>3, <2>4 DEF Counted
<1>7. ASSUME NEW u \in Tx, u # t
      PROVE  Apart(r, tx[u])
  <2>1. Apart(tx[t], tx[u])
    BY <1>7, InvFacts
  <2>. QED
    BY <1>1, <1>2, <2>1 DEF Apart, Publishing, Collecting
<1>. QED
  BY <1>1, <1>2, <1>4, <1>5, <1>6, <1>7, LocalStep DEF r, Sound

\* A publication of which a chunk's row has gone rolls back; otherwise the row
\* is locked.
LEMMA InsertRefKeepsInv ==
  ASSUME Inv, NEW t \in Tx, InsertRef(t)
  PROVE  Inv'
<1> DEFINE r == tx'[t]
<1>1. tx[t].pc = "refs" /\ More(t) /\ Shape(tx[t]) /\ UNCHANGED db
  BY InvFacts DEF InsertRef
<1>2. CASE Row(t) \notin Visible(t)
  BY <1>2, EndKeepsInv DEF InsertRef
<1>3. CASE Row(t) \in Visible(t)
  <2>1. Row(t) \in Chunks /\ tx[t].at \in Ordinals(tx[t].man)
    BY <1>1, RowTypes DEF Publishing
  <2>2. /\ Moves(t, r)
        /\ r.pc = "count"
        /\ r.man = tx[t].man /\ r.order = tx[t].order /\ r.at = tx[t].at
        /\ r.new = tx[t].new /\ r.wrote = tx[t].wrote /\ r.val = tx[t].val
        /\ r.keys = tx[t].keys \cup {Row(t)} /\ r.excl = tx[t].excl
        /\ r.enq = tx[t].enq /\ r.list = tx[t].list
    BY <1>3, <2>1, InvFacts, InsertRefMoves
  <2> HIDE DEF r
  <2>3. Shape(r)
    BY <1>1, <2>1, <2>2 DEF Shape, Publishing, Collecting, Draining
  <2>4. Grounded(r, rows) /\ Placed(r, objects)
    BY <1>1, <1>3, <2>2, InvFacts DEF Grounded, Placed, Collecting, Visible
  <2>5. Counted(r, refs)
    <3>1. \A c : Done(r, c) = Done(tx[t], c)
      BY <2>2 DEF Done
    <3>2. ChunksOf[r.man][r.order[r.at]] = Row(t)
      BY <2>2 DEF Row
    <3>3. Counted(tx[t], refs)
      BY InvFacts
    <3>. QED
      BY <1>1, <2>2, <3>1, <3>2, <3>3 DEF Counted
  <2>6. ASSUME NEW u \in Tx, u # t
        PROVE  Apart(r, tx[u])
    <3>1. Apart(tx[t], tx[u])
      BY <2>6, InvFacts
    <3>2. Row(t) \notin tx[u].excl
      BY <2>6 DEF InsertRef, Excluding, Others
    <3>3. tx[t].excl = {}
      BY <1>1 DEF Shape, Publishing
    <3>. QED
      BY <1>1, <2>2, <3>1, <3>2, <3>3 DEF Apart, Publishing, Collecting
  <2>. QED
    BY <1>1, <2>2, <2>3, <2>4, <2>5, <2>6, LocalStep DEF r, Sound
<1>. QED
  BY <1>2, <1>3

\* Finitely many rows are counted.
LEMMA DoneFinite ==
  ASSUME NEW r, r.man \in Manifests, NEW c
  PROVE  IsFiniteSet(Done(r, c)) /\ Cardinality(Done(r, c)) \in Nat
<1>1. IsFiniteSet(Done(r, c))
  BY OrdinalsTypes, FS_Subset DEF Done
<1>. QED
  BY <1>1, FS_CardinalityType

\* What is counted once the next row has been.
LEMMA DoneNext ==
  ASSUME NEW r, NEW q, r.man \in Manifests, r.at \in Ordinals(r.man),
         q.man = r.man, q.order = r.order, q.at = r.at + 1, NEW c
  PROVE  /\ IsFiniteSet(Done(r, c)) /\ Cardinality(Done(r, c)) \in Nat
         /\ r.at \notin Done(r, c)
         /\ c # ChunksOf[r.man][r.order[r.at]] => Done(q, c) = Done(r, c)
         /\ c = ChunksOf[r.man][r.order[r.at]] =>
              /\ Done(q, c) = Done(r, c) \cup {r.at}
              /\ Cardinality(Done(q, c)) = Cardinality(Done(r, c)) + 1
<1>1. IsFiniteSet(Ordinals(r.man)) /\ Ordinals(r.man) \subseteq Int
  BY OrdinalsTypes
<1>2. IsFiniteSet(Done(r, c))
  BY <1>1, FS_Subset DEF Done
<1>3. Cardinality(Done(r, c)) \in Nat
  BY <1>2, FS_CardinalityType
<1>4. r.at \notin Done(r, c)
  BY <1>1 DEF Done
<1>5. \A j \in Ordinals(r.man) : j < q.at <=> j < r.at \/ j = r.at
  BY <1>1
<1>6. ASSUME c # ChunksOf[r.man][r.order[r.at]]
      PROVE  Done(q, c) = Done(r, c)
  BY <1>5, <1>6 DEF Done
<1>7. ASSUME c = ChunksOf[r.man][r.order[r.at]]
      PROVE  /\ Done(q, c) = Done(r, c) \cup {r.at}
             /\ Cardinality(Done(q, c)) = Cardinality(Done(r, c)) + 1
  <2>1. Done(q, c) = Done(r, c) \cup {r.at}
    BY <1>5, <1>7 DEF Done
  <2>2. Cardinality(Done(r, c) \cup {r.at}) = Cardinality(Done(r, c)) + 1
    BY <1>2, <1>4, FS_AddElement
  <2>. QED
    BY <2>1, <2>2
<1>. QED
  BY <1>2, <1>3, <1>4, <1>6, <1>7

\* Counting a row up keeps the invariant.
LEMMA AddOneKeepsInv ==
  ASSUME Inv, NEW t \in Tx, AddOne(t)
  PROVE  Inv'
<1> DEFINE r == tx'[t]
           k == Row(t)
<1>1. tx[t].pc = "count" /\ Shape(tx[t]) /\ Counted(tx[t], refs) /\ UNCHANGED db
  BY InvFacts DEF AddOne
<1>2. tx[t].man \in Manifests /\ tx[t].at \in Ordinals(tx[t].man) /\ tx[t].excl = {}
  BY <1>1 DEF Shape, Publishing
<1>3. k \in Chunks /\ More(t)
  BY <1>1, <1>2, RowTypes DEF Publishing, More
<1>4. k \in tx[t].keys
  BY <1>1 DEF Counted, Row
<1>5. k \in Visible(t)
  BY <1>4, InvFacts DEF Grounded, Visible
<1>6. /\ Moves(t, r)
      /\ r.pc = "refs"
      /\ r.man = tx[t].man /\ r.order = tx[t].order /\ r.at = tx[t].at + 1
      /\ r.new = tx[t].new /\ r.wrote = tx[t].wrote \cup {k}
      /\ r.keys = tx[t].keys /\ r.excl = tx[t].excl
      /\ r.enq = tx[t].enq /\ r.list = tx[t].list
      /\ r.val = [tx[t].val EXCEPT ![k] = Count(t, k) + 1]
  BY <1>3, <1>5, InvFacts, AddOneMoves
<1>7. \A c \in Chunks :
        /\ IsFiniteSet(Done(tx[t], c)) /\ Cardinality(Done(tx[t], c)) \in Nat
        /\ c # k => Done(r, c) = Done(tx[t], c)
        /\ c = k => /\ Done(r, c) = Done(tx[t], c) \cup {tx[t].at}
                    /\ Cardinality(Done(r, c)) = Cardinality(Done(tx[t], c)) + 1
  <2>1. /\ r.man = tx[t].man /\ r.order = tx[t].order /\ r.at = tx[t].at + 1
        /\ k = ChunksOf[tx[t].man][tx[t].order[tx[t].at]]
    BY <1>6 DEF Row
  <2> HIDE DEF r, k
  <2>. QED
    BY ONLY <1>2, <2>1, DoneNext
<1> HIDE DEF r, k
<1>8. Shape(r)
  <2>1. tx[t].at + 1 \in 1..(Len(ChunksOf[tx[t].man]) + 1)
    BY <1>2, OrdinalsTypes
  <2>. QED
    BY <1>1, <1>2, <1>6, <2>1 DEF Shape, Publishing, Collecting, Draining
<1>9. Grounded(r, rows) /\ Placed(r, objects)
  BY <1>1, <1>6, InvFacts DEF Grounded, Placed, Collecting
<1>10. Counted(r, refs)
  <2>1. refs[k] \in Int /\ tx[t].val \in [Chunks -> Int] /\ refs \in [Chunks -> Int]
    BY <1>3, InvFacts DEF TableTypes, TxTypes
  <2>2. Count(t, k) = refs[k] + Cardinality(Done(tx[t], k))
    <3>1. CASE k \in tx[t].wrote
      BY <1>1, <1>3, <3>1 DEF Counted, Count
    <3>2. CASE k \notin tx[t].wrote
      <4>1. Done(tx[t], k) = {}
        BY <1>1, <1>3, <3>2 DEF Counted
      <4>2. refs[k] + Cardinality({}) = refs[k]
        BY <2>1, FS_EmptySet
      <4>. QED
        BY <3>2, <4>1, <4>2 DEF Count
    <3>. QED
      BY <3>1, <3>2
  <2>3. r.val[k] = refs[k] + Cardinality(Done(r, k))
    <3>1. r.val[k] = Count(t, k) + 1
      BY <1>3, <1>6, <2>1
    <3>2. Cardinality(Done(r, k)) = Cardinality(Done(tx[t], k)) + 1
          /\ Cardinality(Done(tx[t], k)) \in Nat
      BY <1>3, <1>7
    <3>. QED
      BY <2>1, <2>2, <3>1, <3>2
  <2>4. ASSUME NEW c \in Chunks
        PROVE  /\ c \in r.wrote => r.val[c] = refs[c] + Cardinality(Done(r, c))
               /\ c \notin r.wrote => Done(r, c) = {}
               /\ Done(r, c) # {} => c \in r.keys
    <3>1. CASE c = k
      BY <1>4, <1>6, <2>3, <3>1
    <3>2. CASE c # k
      <4>1. r.val[c] = tx[t].val[c] /\ (c \in r.wrote <=> c \in tx[t].wrote)
            /\ Done(r, c) = Done(tx[t], c)
        BY <1>6, <1>7, <2>1, <3>2
      <4>. QED
        BY <1>1, <1>6, <4>1 DEF Counted
    <3>. QED
      BY <3>1, <3>2
  <2>. QED
    BY <1>6, <2>4 DEF Counted
<1>11. ASSUME NEW u \in Tx, u # t
       PROVE  Apart(r, tx[u])
  <2>1. Apart(tx[t], tx[u])
    BY <1>11, InvFacts
  <2>2. k \notin tx[u].wrote /\ k \notin tx[u].excl
    BY <1>11 DEF AddOne, Updating, Writing, Excluding, Others, k
  <2>. QED
    BY <1>1, <1>2, <1>6, <2>1, <2>2 DEF Apart, Publishing, Collecting
<1>. QED
  BY <1>1, <1>6, <1>8, <1>9, <1>10, <1>11, LocalStep DEF r, Sound

\* The deletion of an object keeps the invariant.
LEMMA DeleteObjectKeepsInv ==
  ASSUME Inv, NEW t \in Tx, DeleteObject(t)
  PROVE  Inv'
<1> DEFINE r == tx'[t]
<1>1. tx[t].pc = "delete" /\ Shape(tx[t]) /\ UNCHANGED db
  BY InvFacts DEF DeleteObject
<1>2. /\ Moves(t, r)
      /\ r.pc = "uncount"
      /\ r.man = tx[t].man /\ r.order = tx[t].order /\ r.at = tx[t].at
      /\ r.new = tx[t].new /\ r.wrote = tx[t].wrote /\ r.val = tx[t].val
      /\ r.keys = tx[t].keys /\ r.excl = tx[t].excl
      /\ r.enq = tx[t].enq /\ r.list = tx[t].list
  BY InvFacts, DeleteObjectMoves
<1> HIDE DEF r
<1>3. /\ tx[t].man \in Manifests /\ tx[t].order \in Orders(tx[t].man) /\ tx[t].at = 1
      /\ tx[t].new = {} /\ tx[t].keys = {} /\ tx[t].excl = {}
      /\ tx[t].wrote = {} /\ tx[t].enq = {}
      /\ Len(ChunksOf[tx[t].man]) \in Nat
  BY <1>1, OrdinalsTypes DEF Shape, Collecting
<1>4. Shape(r) /\ Grounded(r, rows) /\ Placed(r, objects)
  BY <1>1, <1>2, <1>3, InvFacts
     DEF Shape, Grounded, Placed, Publishing, Collecting, Draining
<1>5. Counted(r, refs)
  <2>1. \A c : Done(r, c) = {}
    BY <1>2, <1>3, NothingDone
  <2>. QED
    BY <1>2, <1>3, <2>1 DEF Counted
<1>6. ASSUME NEW u \in Tx, u # t
      PROVE  Apart(r, tx[u])
  <2>1. Apart(tx[t], tx[u])
    BY <1>6, InvFacts
  <2>. QED
    BY <1>1, <1>2, <2>1 DEF Apart, Publishing, Collecting
<1>. QED
  BY <1>1, <1>2, <1>4, <1>5, <1>6, LocalStep DEF r, Sound

\* The rows a collection has counted, and the next one, are still committed
\* rows of object_chunks: the count it finds is positive, and the chunk exists.
LEMMA StillCounted ==
  ASSUME Inv, NEW t \in Tx, tx[t].pc = "uncount", NEW D \in SUBSET Ordinals(tx[t].man),
         NEW c \in Chunks, \A j \in D : ChunksOf[tx[t].man][tx[t].order[j]] = c
  PROVE  IsFiniteSet(D) /\ Cardinality(D) <= refs[c] /\ (D # {} => c \in rows)
<1> DEFINE m == tx[t].man
           H == Holders(objects, c)
           f == [j \in D |-> <<OidOf[m], tx[t].order[j]>>]
<1>1. m \in Manifests /\ tx[t].order \in Orders(m) /\ objects[OidOf[m]] = m
  BY InvFacts DEF Shape, Collecting, Placed
<1>2. /\ OidOf[m] \in Oids /\ IsFiniteSet(Ordinals(m)) /\ Ordinals(m) \subseteq Nat
      /\ tx[t].order \in [Ordinals(m) -> Ordinals(m)] /\ m # NoManifest
  BY <1>1, OrdinalsTypes, ManifestsAssumption
<1>3. IsFiniteSet(H) /\ refs[c] = Cardinality(H) /\ (refs[c] # 0 => c \in rows)
  BY DEF Inv, Exact
<1>4. f \in [D -> H]
  <2> SUFFICES ASSUME NEW j \in D
               PROVE  <<OidOf[m], tx[t].order[j]>> \in H
    OBVIOUS
  <2>1. tx[t].order[j] \in Ordinals(m) /\ tx[t].order[j] \in Nat
    BY <1>2
  <2>. QED
    BY <1>1, <1>2, <2>1 DEF Holders
<1>5. \A i, j \in D : f[i] = f[j] => i = j
  BY <1>1 DEF Orders
<1>6. f \in Injection(D, H)
  BY <1>4, <1>5 DEF Injection, IsInjective
<1>7. IsFiniteSet(D) /\ Cardinality(D) <= Cardinality(H)
  BY <1>3, <1>6, FS_Injection
<1>8. D # {} => Cardinality(D) # 0 /\ Cardinality(D) \in Nat
  BY <1>7, FS_EmptySet, FS_CardinalityType
<1>9. Cardinality(H) \in Nat
  BY <1>3, FS_CardinalityType
<1>10. D # {} => refs[c] # 0
  BY <1>3, <1>7, <1>8, <1>9
<1>. QED
  BY <1>3, <1>7, <1>10

\* The row that a collection counts down next is still in the count.
LEMMA RowStillCounted ==
  ASSUME Inv, NEW t \in Tx, SubOne(t)
  PROVE  LET d == Cardinality(Done(tx[t], Row(t))) IN
         /\ Row(t) \in Chunks /\ Row(t) \in rows
         /\ d \in Nat /\ refs[Row(t)] \in Int /\ d + 1 <= refs[Row(t)]
         /\ Count(t, Row(t)) = refs[Row(t)] - d
         /\ Count(t, Row(t)) - 1 \in Nat
<1> DEFINE k == Row(t)
           d == Cardinality(Done(tx[t], k))
<1>1. tx[t].pc = "uncount" /\ More(t) /\ Shape(tx[t]) /\ Counted(tx[t], refs)
  BY InvFacts DEF SubOne
<1>2. tx[t].man \in Manifests /\ tx[t].at \in Ordinals(tx[t].man)
  BY <1>1 DEF Shape, Collecting, More
<1>3. k \in Chunks
  BY <1>1, RowTypes DEF Collecting
<1>4. d + 1 <= refs[k] /\ k \in rows /\ d \in Nat /\ refs[k] \in Int
  <2> DEFINE D == Done(tx[t], k) \cup {tx[t].at}
  <2>1. IsFiniteSet(Done(tx[t], k)) /\ d \in Nat
    BY <1>2, DoneFinite
  <2>2. tx[t].at \notin Done(tx[t], k)
    BY <1>2, OrdinalsTypes DEF Done
  <2>3. Cardinality(D) = d + 1
    BY <2>1, <2>2, FS_AddElement
  <2>4. D \in SUBSET Ordinals(tx[t].man) /\ D # {}
    BY <1>2 DEF Done
  <2>5. \A j \in D : ChunksOf[tx[t].man][tx[t].order[j]] = k
    BY DEF Done, Row
  <2> HIDE DEF D, k
  <2>6. Cardinality(D) <= refs[k] /\ k \in rows
    BY <1>1, <1>3, <2>4, <2>5, StillCounted
  <2>7. refs[k] \in Int
    BY <1>3, InvFacts DEF TableTypes
  <2>. QED
    BY <2>1, <2>3, <2>6, <2>7
<1> HIDE DEF k
<1>5. Count(t, k) = refs[k] - d
  <2>1. CASE k \in tx[t].wrote
    BY <1>1, <1>3, <2>1 DEF Counted, Count
  <2>2. CASE k \notin tx[t].wrote
    <3>1. d = 0
      BY <1>1, <1>3, <2>2, FS_EmptySet DEF Counted
    <3>2. refs[k] - 0 = refs[k]
      BY <1>4
    <3>. QED
      BY <2>2, <3>1, <3>2 DEF Count
  <2>. QED
    BY <2>1, <2>2
<1> HIDE DEF d
<1>6. Count(t, k) - 1 \in Nat
  BY <1>4, <1>5
<1>. QED
  BY <1>3, <1>4, <1>5, <1>6 DEF k, d

\* Counting a row down keeps the invariant.
LEMMA SubOneKeepsInv ==
  ASSUME Inv, NEW t \in Tx, SubOne(t)
  PROVE  Inv'
<1> DEFINE r == tx'[t]
           k == Row(t)
           d == Cardinality(Done(tx[t], k))
<1>1. tx[t].pc = "uncount" /\ More(t) /\ Shape(tx[t]) /\ Counted(tx[t], refs) /\ UNCHANGED db
  BY InvFacts DEF SubOne
<1>2. /\ tx[t].man \in Manifests /\ tx[t].at \in Ordinals(tx[t].man)
      /\ tx[t].new = {} /\ tx[t].keys = {} /\ tx[t].excl = {}
  BY <1>1 DEF Shape, Collecting, More
<1>3. k \in Chunks
  BY <1>1, RowTypes DEF Collecting
<1>4. d + 1 <= refs[k] /\ k \in rows /\ d \in Nat /\ refs[k] \in Int
  BY RowStillCounted
<1>5. /\ Moves(t, r)
      /\ r.pc = tx[t].pc
      /\ r.man = tx[t].man /\ r.order = tx[t].order /\ r.at = tx[t].at + 1
      /\ r.new = tx[t].new /\ r.wrote = tx[t].wrote \cup {k}
      /\ r.keys = tx[t].keys /\ r.excl = tx[t].excl /\ r.list = tx[t].list
      /\ r.enq = tx[t].enq \cup IF Count(t, k) = 1 THEN {k} \ queue ELSE {}
      /\ r.val = [tx[t].val EXCEPT ![k] = Count(t, k) - 1]
  <2>1. k \in Visible(t)
    BY <1>4 DEF Visible
  <2>. QED
    BY <1>3, <2>1, InvFacts, SubOneMoves
<1>6. \A c \in Chunks :
        /\ IsFiniteSet(Done(tx[t], c)) /\ Cardinality(Done(tx[t], c)) \in Nat
        /\ c # k => Done(r, c) = Done(tx[t], c)
        /\ c = k => /\ Done(r, c) = Done(tx[t], c) \cup {tx[t].at}
                    /\ Cardinality(Done(r, c)) = Cardinality(Done(tx[t], c)) + 1
  <2>1. /\ r.man = tx[t].man /\ r.order = tx[t].order /\ r.at = tx[t].at + 1
        /\ k = ChunksOf[tx[t].man][tx[t].order[tx[t].at]]
    BY <1>5 DEF Row
  <2> HIDE DEF r, k
  <2>. QED
    BY ONLY <1>2, <2>1, DoneNext
<1> HIDE DEF r, k
<1>7. Shape(r) /\ Grounded(r, rows) /\ Placed(r, objects)
  <2>1. tx[t].at + 1 \in 1..(Len(ChunksOf[tx[t].man]) + 1)
    BY <1>2, OrdinalsTypes
  <2>2. Shape(r)
    BY <1>1, <1>2, <1>5, <2>1 DEF Shape, Publishing, Collecting, Draining
  <2>3. Grounded(r, rows) /\ Placed(r, objects)
    BY <1>1, <1>2, <1>5, InvFacts DEF Grounded, Placed, Collecting
  <2>. QED
    BY <2>2, <2>3
<1>8. Counted(r, refs)
  <2>1. tx[t].val \in [Chunks -> Int] /\ refs \in [Chunks -> Int]
    BY InvFacts DEF TableTypes, TxTypes
  <2>2. Count(t, k) = refs[k] - d /\ (k \in tx[t].enq => refs[k] - d = 0)
    <3>1. CASE k \in tx[t].wrote
      BY <1>1, <1>3, <3>1 DEF Counted, Count
    <3>2. CASE k \notin tx[t].wrote
      <4>1. Done(tx[t], k) = {} /\ k \notin tx[t].enq
        BY <1>1, <1>3, <3>2 DEF Counted
      <4>2. d = 0
        BY <4>1, FS_EmptySet
      <4>3. refs[k] - 0 = refs[k]
        BY <1>4
      <4>. QED
        BY <3>2, <4>1, <4>2, <4>3 DEF Count
    <3>. QED
      BY <3>1, <3>2
  <2>3. /\ r.val[k] = refs[k] - Cardinality(Done(r, k))
        /\ Done(r, k) # {}
        /\ k \in r.enq => r.val[k] = 0
    <3> HIDE DEF d
    <3>1. r.val[k] = Count(t, k) - 1
      BY <1>3, <1>5, <2>1
    <3>2. Cardinality(Done(r, k)) = d + 1 /\ Done(r, k) # {}
      BY <1>3, <1>6 DEF d
    <3>3. r.val[k] = refs[k] - (d + 1)
      BY <1>4, <2>2, <3>1
    <3>4. k \notin tx[t].enq
      BY <1>4, <2>2
    <3>5. Count(t, k) = 1 <=> r.val[k] = 0
      BY <1>4, <2>2, <3>1
    <3>. QED
      BY <1>5, <3>2, <3>3, <3>4, <3>5
  <2>4. ASSUME NEW c \in Chunks
        PROVE  /\ c \in r.wrote => Done(r, c) # {} /\ r.val[c] = refs[c] - Cardinality(Done(r, c))
               /\ c \notin r.wrote => Done(r, c) = {}
               /\ c \in r.enq => c \in r.wrote /\ r.val[c] = 0
    <3>1. CASE c = k
      <4>1. k \in r.wrote
        BY <1>5
      <4>. QED
        BY <2>3, <3>1, <4>1
    <3>2. CASE c # k
      <4>1. /\ r.val[c] = tx[t].val[c] /\ (c \in r.wrote <=> c \in tx[t].wrote)
            /\ (c \in r.enq <=> c \in tx[t].enq)
            /\ Done(r, c) = Done(tx[t], c)
        BY <1>5, <1>6, <2>1, <3>2
      <4>. QED
        BY <1>1, <4>1 DEF Counted
    <3>. QED
      BY <3>1, <3>2
  <2>. QED
    BY <1>1, <1>5, <2>4 DEF Counted
<1>9. ASSUME NEW u \in Tx, u # t
      PROVE  Apart(r, tx[u])
  <2>1. Apart(tx[t], tx[u])
    BY <1>9, InvFacts
  <2>2. k \notin tx[u].wrote /\ k \notin tx[u].excl
    BY <1>9 DEF SubOne, Updating, Writing, Excluding, Others, k
  <2>. QED
    BY <1>1, <1>2, <1>5, <2>1, <2>2 DEF Apart, Publishing, Collecting
<1>. QED
  BY <1>1, <1>5, <1>7, <1>8, <1>9, LocalStep DEF r, Sound

-----------------------------------------------------------------------------
(* The tables: what a publication or a collection does to the counts.       *)

\* The rows of object_chunks that manifest m brings for chunk c.
Mine(m, c) == {<<OidOf[m], i>> : i \in {j \in Ordinals(m) : ChunksOf[m][j] = c}}

\* The rows that a manifest adds are as many as Catalog counts.
LEMMA MineCounted ==
  ASSUME NEW m \in Manifests, NEW c
  PROVE  /\ IsFiniteSet(Mine(m, c)) /\ Cardinality(Mine(m, c)) = Cat!Uses(m, c)
         /\ IsFiniteSet({j \in Ordinals(m) : ChunksOf[m][j] = c})
         /\ Cat!Uses(m, c) = Cardinality({j \in Ordinals(m) : ChunksOf[m][j] = c})
         /\ Cat!Uses(m, c) \in Nat
         /\ Cat!Uses(m, c) # 0 => c \in ChunkSet(m)
<1> DEFINE I == {j \in Ordinals(m) : ChunksOf[m][j] = c}
           f == [i \in I |-> <<OidOf[m], i>>]
<1>1. IsFiniteSet(I)
  BY OrdinalsTypes, FS_Subset
<1>2. Cat!Uses(m, c) = Cardinality(I)
  BY DEF Cat!Uses, Cat!Ordinals, Ordinals, Cat!Cardinality, Cardinality
<1>3. f \in Bijection(I, Mine(m, c))
  <2>1. f \in [I -> Mine(m, c)] /\ \A i, j \in I : f[i] = f[j] => i = j
    BY DEF Mine
  <2>2. \A p \in Mine(m, c) : \E i \in I : f[i] = p
    BY DEF Mine
  <2>. QED
    BY <2>1, <2>2 DEF Bijection, Injection, IsInjective, Surjection
<1> HIDE DEF f
<1>4. IsFiniteSet(Mine(m, c)) /\ Cardinality(Mine(m, c)) = Cardinality(I)
  BY <1>1, <1>3, FS_Bijection DEF ExistsBijection
<1>5. Cardinality(I) \in Nat
  BY <1>1, FS_CardinalityType
<1>6. c \notin ChunkSet(m) => I = {}
  BY DEF ChunkSet
<1> HIDE DEF I
<1>7. Cardinality(I) # 0 => I # {}
  BY FS_EmptySet
<1>. QED
  BY <1>1, <1>2, <1>4, <1>5, <1>6, <1>7 DEF I

\* Publishing adds the manifest's rows and no others.
LEMMA HoldersWith ==
  ASSUME NEW O \in [Oids -> Manifests \cup {NoManifest}], NEW m \in Manifests, NEW c,
         O[OidOf[m]] = NoManifest
  PROVE  LET P == [O EXCEPT ![OidOf[m]] = m] IN
         /\ Holders(P, c) = Holders(O, c) \cup Mine(m, c)
         /\ Holders(O, c) \cap Mine(m, c) = {}
<1> DEFINE P == [O EXCEPT ![OidOf[m]] = m]
<1>1. OidOf[m] \in Oids /\ m # NoManifest /\ Ordinals(m) \subseteq Nat
  BY OrdinalsTypes, ManifestsAssumption
<1>2. P[OidOf[m]] = m /\ \A o \in Oids : o # OidOf[m] => P[o] = O[o]
  BY <1>1
<1> HIDE DEF P
<1>3. ASSUME NEW p \in Holders(P, c)
      PROVE  p \in Holders(O, c) \cup Mine(m, c)
  <2>1. CASE p[1] = OidOf[m]
    <3>1. p = <<OidOf[m], p[2]>> /\ p[2] \in Ordinals(m) /\ ChunksOf[m][p[2]] = c
      BY <1>2, <2>1 DEF Holders
    <3>. QED
      BY <3>1 DEF Mine
  <2>2. CASE p[1] # OidOf[m]
    BY <1>2, <2>2 DEF Holders
  <2>. QED
    BY <2>1, <2>2
<1>4. ASSUME NEW p \in Holders(O, c)
      PROVE  p \in Holders(P, c) /\ p[1] # OidOf[m]
  BY <1>2 DEF Holders
<1>5. ASSUME NEW p \in Mine(m, c)
      PROVE  p \in Holders(P, c) /\ p[1] = OidOf[m]
  BY <1>1, <1>2 DEF Holders, Mine
<1>6. Holders(P, c) = Holders(O, c) \cup Mine(m, c) /\ Holders(O, c) \cap Mine(m, c) = {}
  BY <1>3, <1>4, <1>5
<1>. QED
  BY <1>6 DEF P

\* Counts stay exact when an object is published.
LEMMA PublishExact ==
  ASSUME NEW O \in [Oids -> Manifests \cup {NoManifest}], NEW R, NEW N \in [Chunks -> Int],
         Exact(O, R, N), NEW m \in Manifests, O[OidOf[m]] = NoManifest
  PROVE  Exact([O EXCEPT ![OidOf[m]] = m], R \cup ChunkSet(m),
               [c \in Chunks |-> N[c] + Cat!Uses(m, c)])
<1> DEFINE P == [O EXCEPT ![OidOf[m]] = m]
           M == [c \in Chunks |-> N[c] + Cat!Uses(m, c)]
<1>1. \A o \in Oids : P[o] # NoManifest => OidOf[P[o]] = o
  BY DEF Exact
<1>2. ASSUME NEW c \in Chunks
      PROVE  /\ IsFiniteSet(Holders(P, c))
             /\ M[c] = Cardinality(Holders(P, c))
             /\ M[c] # 0 => c \in R \cup ChunkSet(m)
  <2>1. /\ Holders(P, c) = Holders(O, c) \cup Mine(m, c)
        /\ Holders(O, c) \cap Mine(m, c) = {}
    BY HoldersWith
  <2>2. /\ IsFiniteSet(Holders(O, c)) /\ N[c] = Cardinality(Holders(O, c))
        /\ N[c] # 0 => c \in R
    BY DEF Exact
  <2>3. /\ IsFiniteSet(Mine(m, c)) /\ Cardinality(Mine(m, c)) = Cat!Uses(m, c)
        /\ Cat!Uses(m, c) \in Nat /\ (Cat!Uses(m, c) # 0 => c \in ChunkSet(m))
    BY MineCounted
  <2>4. /\ IsFiniteSet(Holders(O, c) \cup Mine(m, c))
        /\ Cardinality(Holders(O, c) \cup Mine(m, c))
             = Cardinality(Holders(O, c)) + Cardinality(Mine(m, c)) - Cardinality({})
    BY <2>1, <2>2, <2>3, FS_Union
  <2>5. Cardinality({}) = 0 /\ N[c] \in Int /\ M[c] = N[c] + Cat!Uses(m, c)
    BY FS_EmptySet
  <2> HIDE DEF P, M
  <2>. QED
    BY <2>1, <2>2, <2>3, <2>4, <2>5
<1>. QED
  BY <1>1, <1>2 DEF Exact

\* Counts stay exact when an object is removed.
LEMMA RemoveExact ==
  ASSUME NEW O \in [Oids -> Manifests \cup {NoManifest}], NEW R, NEW N \in [Chunks -> Int],
         Exact(O, R, N), NEW o \in Oids, O[o] # NoManifest
  PROVE  Exact([O EXCEPT ![o] = NoManifest], R,
               [c \in Chunks |-> N[c] - Cat!Uses(O[o], c)])
<1> DEFINE P == [O EXCEPT ![o] = NoManifest]
           m == O[o]
           M == [c \in Chunks |-> N[c] - Cat!Uses(m, c)]
<1>1. \A q \in Oids : P[q] # NoManifest => OidOf[P[q]] = q
  BY DEF Exact
<1>2. m \in Manifests /\ OidOf[m] = o
  BY DEF Exact
<1>3. /\ P \in [Oids -> Manifests \cup {NoManifest}] /\ P[OidOf[m]] = NoManifest
      /\ O = [P EXCEPT ![OidOf[m]] = m]
  BY <1>2
<1> HIDE DEF P, m
<1>4. ASSUME NEW c \in Chunks
      PROVE  /\ IsFiniteSet(Holders(P, c))
             /\ M[c] = Cardinality(Holders(P, c))
             /\ M[c] # 0 => c \in R
  <2>1. /\ Holders(O, c) = Holders(P, c) \cup Mine(m, c)
        /\ Holders(P, c) \cap Mine(m, c) = {}
    BY <1>2, <1>3, HoldersWith
  <2>2. /\ IsFiniteSet(Holders(O, c)) /\ N[c] = Cardinality(Holders(O, c))
        /\ N[c] # 0 => c \in R
    BY DEF Exact
  <2>3. /\ IsFiniteSet(Mine(m, c)) /\ Cardinality(Mine(m, c)) = Cat!Uses(m, c)
        /\ Cat!Uses(m, c) \in Nat
    BY <1>2, MineCounted
  <2>4. IsFiniteSet(Holders(P, c)) /\ Cardinality(Holders(P, c)) <= Cardinality(Holders(O, c))
    BY <2>1, <2>2, FS_Subset
  <2>5. /\ Cardinality(Holders(P, c) \cup Mine(m, c))
             = Cardinality(Holders(P, c)) + Cardinality(Mine(m, c)) - Cardinality({})
    BY <2>1, <2>3, <2>4, FS_Union
  <2>6. Cardinality({}) = 0 /\ N[c] \in Int /\ M[c] = N[c] - Cat!Uses(m, c)
        /\ Cardinality(Holders(P, c)) \in Nat
    BY <2>4, FS_EmptySet, FS_CardinalityType
  <2> HIDE DEF M
  <2>. QED
    BY <2>1, <2>2, <2>3, <2>4, <2>5, <2>6
<1>. QED
  BY <1>1, <1>4 DEF Exact, P, m

\* A transaction that has counted every row has counted what Uses says.
LEMMA AllDone ==
  ASSUME NEW r, r.man \in Manifests, r.order \in Orders(r.man),
         r.at \in 1..(Len(ChunksOf[r.man]) + 1), r.at \notin Ordinals(r.man), NEW c
  PROVE  /\ Cardinality(Done(r, c)) = Cat!Uses(r.man, c)
         /\ Done(r, c) # {} <=> c \in ChunkSet(r.man)
<1> DEFINE m == r.man
           f == r.order
           I == {j \in Ordinals(m) : ChunksOf[m][j] = c}
           g == [j \in Done(r, c) |-> f[j]]
<1>1. /\ Ordinals(m) = 1..Len(ChunksOf[m]) /\ Len(ChunksOf[m]) \in Nat
      /\ IsFiniteSet(Ordinals(m)) /\ f \in [Ordinals(m) -> Ordinals(m)]
  BY OrdinalsTypes
<1>2. \A j \in Ordinals(m) : j < r.at
  BY <1>1
<1>3. Done(r, c) = {j \in Ordinals(m) : ChunksOf[m][f[j]] = c}
  BY <1>2 DEF Done
<1>4. \A i, j \in Ordinals(m) : f[i] = f[j] => i = j
  BY DEF Orders
<1>5. f \in Surjection(Ordinals(m), Ordinals(m))
  <2>1. f \in Injection(Ordinals(m), Ordinals(m))
    BY <1>1, <1>4 DEF Injection, IsInjective
  <2>. QED
    BY <1>1, <2>1, FS_Injection
<1>6. \A i \in Ordinals(m) : \E j \in Ordinals(m) : f[j] = i
  BY <1>5 DEF Surjection
<1>7. g \in Bijection(Done(r, c), I)
  <2>1. g \in [Done(r, c) -> I] /\ \A i, j \in Done(r, c) : g[i] = g[j] => i = j
    BY <1>1, <1>3, <1>4
  <2>2. \A i \in I : \E j \in Done(r, c) : g[j] = i
    BY <1>3, <1>6
  <2>. QED
    BY <2>1, <2>2 DEF Bijection, Injection, IsInjective, Surjection
<1>8. Done(r, c) # {} <=> I # {}
  <2>1. g \in [Done(r, c) -> I] /\ \A i \in I : \E j \in Done(r, c) : g[j] = i
    BY <1>7 DEF Bijection, Surjection
  <2> HIDE DEF g, I
  <2>. QED
    BY <2>1
<1> HIDE DEF g
<1>9. IsFiniteSet(Done(r, c))
  BY DoneFinite
<1>10. Cardinality(I) = Cardinality(Done(r, c))
  BY <1>7, <1>9, FS_Bijection DEF ExistsBijection
<1>11. Cat!Uses(m, c) = Cardinality(I)
  BY MineCounted
<1>12. I # {} <=> c \in ChunkSet(m)
  BY DEF ChunkSet
<1>. QED
  BY <1>8, <1>10, <1>11, <1>12

-----------------------------------------------------------------------------
(* Commits: each is one step of the abstract catalog.                       *)

\* A commit does not disturb what the other transactions have found and counted.
LEMMA CommitOthers ==
  ASSUME Inv, NEW t \in Tx, CommitRows(t)
  PROVE  /\ rows' \subseteq Chunks /\ refs' \in [Chunks -> Int]
         /\ \A u \in Tx : u # t =>
              Shape(tx[u]) /\ Grounded(tx[u], rows') /\ Counted(tx[u], refs')
<1>1. /\ rows' = rows \cup tx[t].new
      /\ refs' = [c \in Chunks |-> Count(t, c)]
  BY DEF CommitRows
<1>2. tx[t] \in TxTypes /\ TableTypes /\ tx[t].new \subseteq tx[t].wrote
  BY InvFacts DEF Shape
<1>3. rows' \subseteq Chunks
  BY <1>1, <1>2 DEF TableTypes, TxTypes
<1>4. \A c \in Chunks : Count(t, c) \in Int
  BY <1>2 DEF Count, TableTypes, TxTypes
<1>5. refs' \in [Chunks -> Int]
  BY <1>1, <1>4
<1>6. ASSUME NEW u \in Tx, u # t
      PROVE  Shape(tx[u]) /\ Grounded(tx[u], rows') /\ Counted(tx[u], refs')
  <2>1. /\ Apart(tx[t], tx[u]) /\ Grounded(tx[u], rows) /\ Counted(tx[u], refs)
        /\ Shape(tx[u]) /\ tx[u] \in TxTypes
    BY <1>6, InvFacts
  <2>2. tx[u].new \subseteq tx[u].wrote
    BY <2>1 DEF Shape
  <2>3. Grounded(tx[u], rows')
    BY <1>1, <1>2, <2>1, <2>2 DEF Grounded, Apart
  <2>4. \A c \in Chunks : c \in tx[u].wrote \/ c \in tx[u].excl => refs'[c] = refs[c]
    BY <1>1, <2>1 DEF Apart, Count
  <2>5. tx[u].pc = "provider" => tx[u].chunk \in Chunks /\ tx[u].chunk \in tx[u].excl
    BY <2>1 DEF Shape
  <2>6. tx[u].wrote \subseteq Chunks
    BY <2>1 DEF TxTypes
  <2>7. Counted(tx[u], refs')
    BY <2>1, <2>4, <2>5, <2>6 DEF Counted
  <2>. QED
    BY <2>1, <2>3, <2>7
<1>. QED
  BY <1>3, <1>5, <1>6

\* Another chunk row changes no count.
LEMMA MoreRowsExact ==
  ASSUME NEW O, NEW R, NEW S, NEW N, Exact(O, R, N), R \subseteq S
  PROVE  Exact(O, S, N)
BY DEF Exact

\* A registration, or a publication of what is already published.
LEMMA CommitRowsOnly ==
  ASSUME Inv, NEW t \in Tx, CommitUpsert(t) \/ CommitExisting(t)
  PROVE  Inv' /\ Cat!Next
<1>1. /\ tx[t].pc \in {"upserted", "exists"} /\ CommitRows(t) /\ Set(t, Idle)
      /\ objects' = objects /\ queue' = queue
  BY DEF CommitUpsert, CommitExisting
<1>2. /\ rows' \subseteq Chunks /\ refs' \in [Chunks -> Int]
      /\ \A u \in Tx : u # t =>
           Shape(tx[u]) /\ Grounded(tx[u], rows') /\ Counted(tx[u], refs')
  BY <1>1, CommitOthers
<1>3. rows' = rows \cup tx[t].new /\ refs' = [c \in Chunks |-> Count(t, c)]
  BY <1>1 DEF CommitRows
<1>4. refs' = refs
  <2>1. \A c \in Chunks : Count(t, c) = refs[c]
    BY <1>1, InvFacts DEF Counted, Count
  <2>. QED
    BY <1>3, <2>1, InvFacts DEF TableTypes
<1>5. Cat!Next
  <2>1. tx[t].new \in SUBSET Chunks
    BY InvFacts DEF TxTypes
  <2>2. Cat!AddRows(tx[t].new)
    BY <1>1, <1>3, <1>4 DEF Cat!AddRows
  <2>. QED
    BY <2>1, <2>2 DEF Cat!Next
<1>6. Exact(objects', rows', refs')
  BY <1>1, <1>3, <1>4, MoreRowsExact DEF Inv
<1>7. Moves(t, Idle) /\ tx'[t] = Idle
  BY <1>1, InvFacts, Ends DEF Moves
<1>8. \A u \in Tx : u # t => Sound(tx[u], objects', rows', refs')
  BY <1>1, <1>2, InvFacts DEF Sound
<1>9. objects' \in [Oids -> Manifests \cup {NoManifest}] /\ queue' \subseteq Chunks
  BY <1>1, InvFacts DEF TableTypes
<1>10. Inv'
  BY <1>2, <1>6, <1>7, <1>8, <1>9, IdleSound, StepKeepsInv
<1>. QED
  BY <1>5, <1>10

\* COMMIT of a publication is the step Publish of Catalog.
LEMMA CommitPublishStep ==
  ASSUME Inv, NEW t \in Tx, CommitPublish(t)
  PROVE  Inv' /\ Cat!Next
<1> DEFINE m == tx[t].man
<1>1. /\ tx[t].pc = "refs" /\ ~ More(t) /\ CommitRows(t) /\ Set(t, Idle)
      /\ objects' = [objects EXCEPT ![OidOf[m]] = m] /\ queue' = queue
  BY DEF CommitPublish
<1>2. /\ rows' \subseteq Chunks /\ refs' \in [Chunks -> Int]
      /\ \A u \in Tx : u # t =>
           Shape(tx[u]) /\ Grounded(tx[u], rows') /\ Counted(tx[u], refs')
  BY <1>1, CommitOthers
<1>3. rows' = rows \cup tx[t].new /\ refs' = [c \in Chunks |-> Count(t, c)]
  BY <1>1 DEF CommitRows
<1>4. /\ m \in Manifests /\ tx[t].order = InOrder(m)
      /\ tx[t].at \in 1..(Len(ChunksOf[m]) + 1)
      /\ tx[t].new \subseteq ChunkSet(m) /\ objects[OidOf[m]] = NoManifest
      /\ tx[t].keys \subseteq rows \cup tx[t].new
      /\ Counted(tx[t], refs)
  BY <1>1, InvFacts DEF Shape, Publishing, Placed, Grounded
<1>5. m # NoManifest /\ OidOf[m] \in Oids /\ tx[t].order \in Orders(m)
      /\ ChunkSet(m) \subseteq Chunks
  BY <1>4, ManifestsAssumption, OrdinalsTypes DEF ChunkSet
<1>6. \A c : /\ Cardinality(Done(tx[t], c)) = Cat!Uses(m, c)
             /\ Done(tx[t], c) # {} <=> c \in ChunkSet(m)
  BY <1>1, <1>4, <1>5, AllDone DEF More
<1> HIDE DEF m
<1>7. rows' = rows \cup ChunkSet(m)
  <2>1. ChunkSet(m) \subseteq tx[t].keys
    BY <1>1, <1>4, <1>5, <1>6 DEF Counted
  <2>. QED
    BY <1>3, <1>4, <2>1
<1>8. refs' = [c \in Chunks |-> refs[c] + Cat!Uses(m, c)]
  <2>1. ASSUME NEW c \in Chunks
        PROVE  Count(t, c) = refs[c] + Cat!Uses(m, c)
    <3>1. CASE c \in tx[t].wrote
      BY <1>1, <1>4, <1>6, <3>1 DEF Counted, Count
    <3>2. CASE c \notin tx[t].wrote
      <4>1. Done(tx[t], c) = {}
        BY <1>1, <1>4, <3>2 DEF Counted
      <4>2. Cat!Uses(m, c) = 0
        BY <1>6, <4>1, FS_EmptySet
      <4>3. refs[c] \in Int
        BY InvFacts DEF TableTypes
      <4>4. refs[c] + 0 = refs[c]
        BY <4>3
      <4>. QED
        BY <3>2, <4>2, <4>4 DEF Count
    <3>. QED
      BY <3>1, <3>2
  <2>. QED
    BY <1>3, <2>1
<1>9. Cat!Next
  <2>1. ChunkSet(m) = Cat!ChunkSet(m)
    BY DEF ChunkSet, Cat!ChunkSet, Ordinals, Cat!Ordinals
  <2>2. Cat!Publish(m)
    BY <1>1, <1>4, <1>7, <1>8, <2>1 DEF Cat!Publish
  <2>. QED
    BY <1>4, <2>2 DEF Cat!Next
<1>10. TableTypes
  BY InvFacts
<1>11. Exact(objects', rows', refs')
  <2>1. Exact(objects, rows, refs)
    BY DEF Inv
  <2>2. objects \in [Oids -> Manifests \cup {NoManifest}] /\ refs \in [Chunks -> Int]
    BY <1>10 DEF TableTypes
  <2>3. Exact([objects EXCEPT ![OidOf[m]] = m], rows \cup ChunkSet(m),
              [c \in Chunks |-> refs[c] + Cat!Uses(m, c)])
    BY <1>4, <2>1, <2>2, PublishExact
  <2>. QED
    BY <1>1, <1>7, <1>8, <2>3
<1>12. ASSUME NEW u \in Tx, u # t
       PROVE  Sound(tx[u], objects', rows', refs')
  <2>1. Apart(tx[t], tx[u]) /\ Placed(tx[u], objects) /\ Shape(tx[u])
    BY <1>12, InvFacts
  <2>2. tx[u].pc \in {"refs", "count"} => OidOf[tx[u].man] # OidOf[m] /\ tx[u].man \in Manifests
    BY <1>1, <2>1 DEF Apart, Publishing, Shape, m
  <2>3. tx[u].pc \in Collecting => OidOf[tx[u].man] # OidOf[m] /\ tx[u].man \in Manifests
    BY <1>4, <2>1, ManifestsAssumption DEF Placed, Shape
  <2>4. \A o \in Oids : o # OidOf[m] => objects'[o] = objects[o]
    BY <1>1, <1>10 DEF TableTypes
  <2>5. Placed(tx[u], objects')
    BY <2>1, <2>2, <2>3, <2>4, ManifestsAssumption DEF Placed
  <2>. QED
    BY <1>2, <1>12, <2>5 DEF Sound
<1>13. objects' \in [Oids -> Manifests \cup {NoManifest}] /\ queue' \subseteq Chunks
  BY <1>1, <1>4, <1>10 DEF TableTypes
<1>14. Moves(t, Idle) /\ tx'[t] = Idle
  BY <1>1, <1>10, Ends DEF Moves
<1>15. Inv'
  BY <1>2, <1>11, <1>12, <1>13, <1>14, IdleSound, StepKeepsInv
<1>. QED
  BY <1>9, <1>15

\* COMMIT of a collection is the step Remove of Catalog.
LEMMA CommitCollectStep ==
  ASSUME Inv, NEW t \in Tx, CommitCollect(t)
  PROVE  Inv' /\ Cat!Next
<1> DEFINE m == tx[t].man
           o == OidOf[m]
<1>1. /\ tx[t].pc = "uncount" /\ ~ More(t) /\ CommitRows(t) /\ Set(t, Idle)
      /\ objects' = [objects EXCEPT ![o] = NoManifest] /\ queue' = queue \cup tx[t].enq
  BY DEF CommitCollect
<1>2. /\ rows' \subseteq Chunks /\ refs' \in [Chunks -> Int]
      /\ \A u \in Tx : u # t =>
           Shape(tx[u]) /\ Grounded(tx[u], rows') /\ Counted(tx[u], refs')
  BY <1>1, CommitOthers
<1>3. rows' = rows \cup tx[t].new /\ refs' = [c \in Chunks |-> Count(t, c)]
  BY <1>1 DEF CommitRows
<1>4. /\ m \in Manifests /\ tx[t].order \in Orders(m)
      /\ tx[t].at \in 1..(Len(ChunksOf[m]) + 1)
      /\ tx[t].new = {} /\ objects[o] = m
      /\ Counted(tx[t], refs) /\ tx[t].enq \subseteq Chunks
  BY <1>1, InvFacts DEF Shape, Collecting, Placed, TxTypes
<1>5. m # NoManifest /\ o \in Oids /\ ChunkSet(m) \subseteq Chunks
  BY <1>4, ManifestsAssumption, OrdinalsTypes DEF ChunkSet
<1>6. \A c : /\ Cardinality(Done(tx[t], c)) = Cat!Uses(m, c)
             /\ Done(tx[t], c) # {} <=> c \in ChunkSet(m)
  BY <1>1, <1>4, <1>5, AllDone DEF More
<1> HIDE DEF m, o
<1>7. TableTypes
  BY InvFacts
<1>8. refs' = [c \in Chunks |-> refs[c] - Cat!Uses(m, c)]
  <2>1. ASSUME NEW c \in Chunks
        PROVE  Count(t, c) = refs[c] - Cat!Uses(m, c)
    <3>1. CASE c \in tx[t].wrote
      BY <1>1, <1>4, <1>6, <3>1 DEF Counted, Count
    <3>2. CASE c \notin tx[t].wrote
      <4>1. Done(tx[t], c) = {}
        BY <1>1, <1>4, <3>2 DEF Counted
      <4>2. Cat!Uses(m, c) = 0
        BY <1>6, <4>1, FS_EmptySet
      <4>3. refs[c] \in Int
        BY <1>7 DEF TableTypes
      <4>4. refs[c] - 0 = refs[c]
        BY <4>3
      <4>. QED
        BY <3>2, <4>2, <4>4 DEF Count
    <3>. QED
      BY <3>1, <3>2
  <2>. QED
    BY <1>3, <2>1
<1>9. tx[t].enq \subseteq {c \in ChunkSet(m) : refs'[c] = 0}
  <2>1. \A c \in Chunks : c \in tx[t].wrote <=> c \in ChunkSet(m)
    BY <1>1, <1>4, <1>6 DEF Counted
  <2>2. \A c \in Chunks : c \in tx[t].wrote => refs'[c] = tx[t].val[c]
    BY <1>3 DEF Count
  <2>3. \A c \in Chunks : c \in tx[t].enq => c \in tx[t].wrote /\ tx[t].val[c] = 0
    BY <1>1, <1>4 DEF Counted
  <2>. QED
    BY <1>4, <1>5, <2>1, <2>2, <2>3
<1>10. Cat!Next
  <2>1. ChunkSet(m) = Cat!ChunkSet(m)
    BY DEF ChunkSet, Cat!ChunkSet, Ordinals, Cat!Ordinals
  <2>2. rows' = rows
    BY <1>3, <1>4
  <2>3. Cat!Remove(o)
    BY <1>1, <1>4, <1>5, <1>8, <1>9, <2>1, <2>2 DEF Cat!Remove
  <2>. QED
    BY <1>5, <2>3 DEF Cat!Next
<1>11. Exact(objects', rows', refs')
  <2>1. Exact(objects, rows, refs)
    BY DEF Inv
  <2>2. objects \in [Oids -> Manifests \cup {NoManifest}] /\ refs \in [Chunks -> Int]
    BY <1>7 DEF TableTypes
  <2>3. Exact([objects EXCEPT ![o] = NoManifest], rows,
              [c \in Chunks |-> refs[c] - Cat!Uses(objects[o], c)])
    <3>1. objects[o] # NoManifest
      BY <1>4, <1>5
    <3>. QED
      BY ONLY <1>5, <2>1, <2>2, <3>1, RemoveExact
  <2>. QED
    BY <1>1, <1>3, <1>4, <1>8, <2>3
<1>12. ASSUME NEW u \in Tx, u # t
       PROVE  Sound(tx[u], objects', rows', refs')
  <2>1. Apart(tx[t], tx[u]) /\ Placed(tx[u], objects) /\ Shape(tx[u])
    BY <1>12, InvFacts
  <2>2. tx[u].pc \notin Collecting
    BY <1>1, <2>1 DEF Apart, Collecting
  <2>3. \A q \in Oids : objects'[q] = IF q = o THEN NoManifest ELSE objects[q]
    BY <1>1, <1>7 DEF TableTypes
  <2>4. tx[u].pc \in {"refs", "count"} => OidOf[tx[u].man] \in Oids
    BY <2>1, ManifestsAssumption DEF Shape, Publishing
  <2>5. Placed(tx[u], objects')
    BY <2>1, <2>2, <2>3, <2>4 DEF Placed
  <2>. QED
    BY <1>2, <1>12, <2>5 DEF Sound
<1>13. objects' \in [Oids -> Manifests \cup {NoManifest}] /\ queue' \subseteq Chunks
  BY <1>1, <1>4, <1>7 DEF TableTypes
<1>14. Moves(t, Idle) /\ tx'[t] = Idle
  BY <1>1, <1>7, Ends DEF Moves
<1>15. Inv'
  BY <1>2, <1>11, <1>12, <1>13, <1>14, IdleSound, StepKeepsInv
<1>. QED
  BY <1>10, <1>15

\* The transaction of an entry of the queue.
LEMMA DrainCommitStep ==
  ASSUME Inv, NEW t \in Tx, Dequeue(t) \/ Forget(t)
  PROVE  Inv' /\ Cat!Next
<1> DEFINE r == tx'[t]
           k == tx[t].chunk
<1>1. /\ tx[t].pc \in {"dequeue", "provider"} /\ Set(t, NextEntry(t))
      /\ objects' = objects /\ refs' = refs /\ queue' = queue \ {k}
  BY DEF Dequeue, Forget
<1>2. /\ TableTypes /\ k \in Chunks /\ tx[t].excl \subseteq {k}
      /\ tx[t].pc = "provider" => k \in tx[t].excl /\ refs[k] = 0
  BY <1>1, InvFacts DEF Shape, Counted
<1>3. /\ Moves(t, r)
      /\ r.pc = "drain" /\ r.new = {} /\ r.wrote = {} /\ r.keys = {}
      /\ r.excl = {} /\ r.enq = {}
  BY <1>1, <1>2, NextEntryMoves
<1> HIDE DEF r, k
<1>4. rows' = rows \/ (tx[t].pc = "provider" /\ rows' = rows \ {k})
  BY DEF Dequeue, Forget, k
<1>5. Cat!Next
  <2>1. CASE Dequeue(t)
    <3>1. Cat!Dequeue(k)
      BY <2>1 DEF Dequeue, Cat!Dequeue, k
    <3>. QED
      BY <1>2, <3>1 DEF Cat!Next
  <2>2. CASE Forget(t)
    <3>1. refs[k] = 0
      BY <1>2, <2>2 DEF Forget
    <3>2. Cat!Forget(k)
      BY <2>2, <3>1 DEF Forget, Cat!Forget, k
    <3>. QED
      BY <1>2, <3>2 DEF Cat!Next
  <2>. QED
    BY <2>1, <2>2
<1>6. /\ objects' \in [Oids -> Manifests \cup {NoManifest}] /\ refs' \in [Chunks -> Int]
      /\ rows' \subseteq Chunks /\ queue' \subseteq Chunks
  BY <1>1, <1>2, <1>4 DEF TableTypes
<1>7. Exact(objects', rows', refs')
  BY <1>1, <1>2, <1>4 DEF Inv, Exact
<1>8. Sound(r, objects', rows', refs')
  BY <1>3 DEF Sound, Shape, Grounded, Placed, Counted, Publishing, Collecting, Draining
<1>9. ASSUME NEW u \in Tx, u # t
      PROVE  Apart(r, tx[u]) /\ Sound(tx[u], objects', rows', refs')
  <2>1. Apart(r, tx[u])
    BY <1>3 DEF Apart, Publishing, Collecting
  <2>2. Apart(tx[t], tx[u]) /\ Grounded(tx[u], rows)
    BY <1>9, InvFacts
  <2>3. Grounded(tx[u], rows')
    BY <1>2, <1>4, <2>2 DEF Grounded, Apart
  <2>. QED
    BY <1>1, <2>1, <2>3, InvFacts DEF Sound
<1>10. Inv'
  BY <1>3, <1>6, <1>7, <1>8, <1>9, StepKeepsInv DEF r
<1>. QED
  BY <1>5, <1>10

-----------------------------------------------------------------------------
(* The theorems.                                                            *)

\* Empty tables and no transactions satisfy the invariant.
LEMMA InitInv == Init => Inv
<1> SUFFICES ASSUME Init
             PROVE  Inv
  OBVIOUS
<1>1. TableTypes
  BY IdleTyped DEF Init, TableTypes
<1>2. Exact(objects, rows, refs)
  <2>1. \A c \in Chunks : Holders(objects, c) = {}
    BY DEF Init, Holders
  <2>2. IsFiniteSet({}) /\ Cardinality({}) = 0
    BY FS_EmptySet
  <2>. QED
    BY <2>1, <2>2 DEF Init, Exact
<1>3. \A t \in Tx : tx[t] = Idle
  BY DEF Init
<1>. QED
  BY <1>1, <1>2, <1>3, IdleSound DEF Inv

\* Every statement keeps the invariant and is a step of Catalog, or none.
LEMMA NextStep == Inv /\ [Next]_vars => Inv' /\ [Cat!Next]_(Cat!vars)
<1> SUFFICES ASSUME Inv, [Next]_vars
             PROVE  Inv' /\ [Cat!Next]_(Cat!vars)
  OBVIOUS
<1>1. ASSUME UNCHANGED db
      PROVE  UNCHANGED Cat!vars
  BY <1>1 DEF db, Cat!vars
<1>2. ASSUME NEW t \in Tx, Start(t)
      PROVE  Inv' /\ UNCHANGED db
  <2>1. Inv'
    BY <1>2, UpsertKeepsInv, StartPublishKeepsInv, StartCollectKeepsInv, DrainStepsKeepInv
       DEF Start
  <2>2. UNCHANGED db
    BY <1>2 DEF Start, Upsert, StartPublish, StartCollect, ReadQueue
  <2>. QED
    BY <2>1, <2>2
<1>3. ASSUME NEW t \in Tx, Abort(t) \/ EndDrain(t)
      PROVE  Inv' /\ UNCHANGED db
  BY <1>3, EndKeepsInv DEF Abort, EndDrain
<1>4. ASSUME NEW t \in Tx,
             InsertChunk(t) \/ InsertObject(t) \/ InsertRef(t) \/ AddOne(t)
             \/ DeleteObject(t) \/ SubOne(t) \/ PassOver(t)
             \/ \E c \in Chunks : SelectForUpdate(t, c)
      PROVE  Inv' /\ UNCHANGED db
  <2>1. Inv'
    BY <1>4, InsertChunkKeepsInv, InsertObjectKeepsInv, InsertRefKeepsInv, AddOneKeepsInv,
       DeleteObjectKeepsInv, SubOneKeepsInv, DrainStepsKeepInv
  <2>2. UNCHANGED db
    BY <1>4 DEF InsertChunk, InsertObject, InsertRef, AddOne, DeleteObject, SubOne,
                PassOver, SelectForUpdate
  <2>. QED
    BY <2>1, <2>2
<1>5. ASSUME NEW t \in Tx,
             CommitUpsert(t) \/ CommitExisting(t) \/ CommitPublish(t) \/ CommitCollect(t)
             \/ Dequeue(t) \/ Forget(t)
      PROVE  Inv' /\ Cat!Next
  BY <1>5, CommitRowsOnly, CommitPublishStep, CommitCollectStep, DrainCommitStep
<1>6. CASE UNCHANGED vars
  <2>1. UNCHANGED db /\ tx' = tx
    BY <1>6 DEF vars
  <2>2. objects' = objects /\ rows' = rows /\ refs' = refs /\ queue' = queue
    BY <2>1 DEF db
  <2>3. Inv'
    BY <2>1, <2>2 DEF Inv, TableTypes
  <2>. QED
    BY <1>1, <2>1, <2>3
<1>. QED
  BY <1>1, <1>2, <1>3, <1>4, <1>5, <1>6 DEF Next, Step

\* Inv holds in every state.
LEMMA InvInvariant == Spec => []Inv
BY InitInv, NextStep, PTL DEF Spec

\* However the statements of registrations, publications, collections and drains
\* interleave, and whichever of them roll back, the committed tables take only
\* the steps of the abstract catalog: no count is lost or applied twice, and no
\* chunk's row is deleted while a publication relies on it.
THEOREM TransactionsRefineCatalog == Spec => ImplementsCatalog
<1>1. Init => Cat!Init
  BY DEF Init, Cat!Init
<1>. QED
  BY <1>1, NextStep, InvInvariant, PTL DEF Spec, ImplementsCatalog, Cat!Spec

\* The uncommitted counts are never negative: a collection takes away only what
\* publications have put there.
Natural == \A t \in Tx : tx[t].val \in [Chunks -> Nat]

\* Exact counts are numbers of rows.
LEMMA CountsNatural == Inv => refs \in [Chunks -> Nat]
<1> SUFFICES ASSUME Inv
             PROVE  refs \in [Chunks -> Nat]
  OBVIOUS
<1>1. \A c \in Chunks : refs[c] \in Nat
  BY FS_CardinalityType DEF Inv, Exact
<1>. QED
  BY <1>1 DEF Inv, TableTypes

\* Uncommitted counts are numbers of rows as well.
LEMMA NaturalInvariant == Spec => []Natural
<1>1. Init => Natural
  BY IdleFields DEF Init, Natural
<1>2. Inv /\ Natural /\ [Next]_vars => Natural'
  <2> SUFFICES ASSUME Inv, Natural, [Next]_vars
               PROVE  Natural'
    OBVIOUS
  <2>1. ASSUME NEW t \in Tx, Moves(t, tx'[t]), tx'[t].val \in [Chunks -> Nat]
        PROVE  Natural'
    BY <2>1 DEF Natural, Moves
  <2>2. Idle.val \in [Chunks -> Nat]
    BY IdleFields
  <2>3. refs \in [Chunks -> Nat]
    BY CountsNatural
  <2>4. ASSUME NEW t \in Tx, Set(t, Idle)
        PROVE  Natural'
    <3>1. Moves(t, Idle) /\ tx'[t] = Idle
      BY <2>4, InvFacts, Ends DEF Moves
    <3>. QED
      BY <2>1, <2>2, <3>1
  <2>5. ASSUME NEW t \in Tx, Start(t)
        PROVE  Natural'
    <3>1. ASSUME NEW c \in Chunks, Upsert(t, c)
          PROVE  Natural'
      <4>1. /\ Moves(t, tx'[t])
            /\ tx'[t].val[c] = IF c \in rows THEN refs[c] ELSE 0
            /\ \A d \in Chunks : d # c => tx'[t].val[d] = 0
        BY <3>1, InvFacts, UpsertMoves DEF Upsert
      <4>2. tx'[t].val \in [Chunks -> Int]
        BY <4>1 DEF Moves, TxTypes
      <4>3. tx'[t].val \in [Chunks -> Nat]
        BY <2>3, <4>1, <4>2
      <4>. QED
        BY <2>1, <4>1, <4>3
    <3>2. ASSUME NEW m \in Manifests, StartPublish(t, m)
          PROVE  Natural'
      BY <2>1, <2>2, <3>2, InvFacts, StartPublishMoves
    <3>3. ASSUME NEW o \in Oids, StartCollect(t, o)
          PROVE  Natural'
      BY <2>1, <2>2, <3>3, InvFacts, StartCollectMoves
    <3>4. CASE ReadQueue(t)
      BY <2>1, <2>2, <3>4, InvFacts, ReadQueueMoves
    <3>. QED
      BY <2>5, <3>1, <3>2, <3>3, <3>4 DEF Start
  <2>6. ASSUME NEW t \in Tx, InsertChunk(t)
        PROVE  Natural'
    <3>1. Row(t) \in Chunks
      BY <2>6, InvFacts, RowTypes DEF InsertChunk, Publishing
    <3>2. /\ Moves(t, tx'[t])
          /\ tx'[t].val = [c \in Chunks |-> IF c \in {Row(t)} \ Visible(t)
                                            THEN 0 ELSE tx[t].val[c]]
      BY <2>6, <3>1, InvFacts, InsertChunkMoves
    <3>3. tx'[t].val \in [Chunks -> Nat]
      BY <3>2 DEF Natural
    <3>. QED
      BY <2>1, <3>2, <3>3
  <2>7. ASSUME NEW t \in Tx, InsertObject(t) \/ InsertRef(t) \/ DeleteObject(t)
                             \/ \E c \in Chunks : SelectForUpdate(t, c)
        PROVE  Natural'
    <3>1. CASE InsertRef(t) /\ Row(t) \notin Visible(t)
      BY <2>4, <3>1 DEF InsertRef
    <3>2. InsertRef(t) => Row(t) \in Chunks
      BY InvFacts, RowTypes DEF InsertRef, Publishing
    <3>3. CASE ~ (InsertRef(t) /\ Row(t) \notin Visible(t))
      <4>1. Moves(t, tx'[t]) /\ tx'[t].val = tx[t].val
        BY <2>7, <3>2, <3>3, InvFacts, InsertObjectMoves, InsertRefMoves, DeleteObjectMoves,
           SelectMoves
      <4>. QED
        BY <2>1, <4>1 DEF Natural
    <3>. QED
      BY <3>1, <3>3
  <2>8. ASSUME NEW t \in Tx, AddOne(t)
        PROVE  Natural'
    <3>1. /\ Row(t) \in Chunks /\ Row(t) \in Visible(t) /\ Count(t, Row(t)) \in Nat
      <4>1. tx[t].pc = "count" /\ More(t) /\ Shape(tx[t])
        BY <2>8, InvFacts DEF AddOne, Shape, Publishing, More
      <4>2. Row(t) \in Chunks
        BY <4>1, RowTypes DEF Publishing
      <4>3. Row(t) \in Visible(t)
        BY <4>1, InvFacts DEF Counted, Grounded, Visible, Row
      <4>. QED
        BY <2>3, <4>2, <4>3 DEF Count, Natural
    <3>2. /\ Moves(t, tx'[t])
          /\ tx'[t].val = [tx[t].val EXCEPT ![Row(t)] = Count(t, Row(t)) + 1]
      BY <2>8, <3>1, InvFacts, AddOneMoves
    <3>3. tx'[t].val \in [Chunks -> Nat]
      BY <3>1, <3>2 DEF Natural
    <3>. QED
      BY <2>1, <3>2, <3>3
  <2>9. ASSUME NEW t \in Tx, SubOne(t)
        PROVE  Natural'
    <3>1. Row(t) \in Chunks /\ Row(t) \in rows /\ Count(t, Row(t)) - 1 \in Nat
      BY <2>9, RowStillCounted
    <3>2. /\ Moves(t, tx'[t])
          /\ tx'[t].val = [tx[t].val EXCEPT ![Row(t)] = Count(t, Row(t)) - 1]
      BY <2>9, <3>1, InvFacts, SubOneMoves DEF Visible
    <3>3. tx'[t].val \in [Chunks -> Nat]
      BY <3>1, <3>2 DEF Natural
    <3>. QED
      BY <2>1, <3>2, <3>3
  <2>10. ASSUME NEW t \in Tx, Set(t, NextEntry(t))
         PROVE  Natural'
    BY <2>1, <2>2, <2>10, InvFacts, NextEntryMoves
  <2>11. CASE UNCHANGED vars
    BY <2>11 DEF vars, Natural
  <2>. QED
    BY <2>4, <2>5, <2>6, <2>7, <2>8, <2>9, <2>10, <2>11
       DEF Next, Step, Abort, CommitUpsert, CommitPublish, CommitExisting, CommitCollect,
           Dequeue, PassOver, Forget, EndDrain
<1>. QED
  BY <1>1, <1>2, InvInvariant, PTL DEF Spec

\* Every transaction is where its statements can have led it, and no count, not
\* even an uncommitted one, is ever negative.
THEOREM TransactionsTyped == Spec => []TypeOK
<1>1. Inv /\ Natural => TypeOK
  <2> SUFFICES ASSUME Inv, Natural
               PROVE  TypeOK
    OBVIOUS
  <2>1. TableTypes /\ refs \in [Chunks -> Nat]
    BY CountsNatural DEF Inv
  <2>2. ASSUME NEW t \in Tx
        PROVE  /\ tx[t].pc \in Positions
               /\ tx[t].man \in Manifests \cup {NoManifest}
               /\ tx[t].at \in Nat
               /\ tx[t].chunk \in Chunks \cup {NoChunk}
               /\ tx[t].new \subseteq tx[t].wrote
               /\ tx[t].val \in [Chunks -> Nat]
               /\ tx[t].wrote \subseteq Chunks /\ tx[t].keys \subseteq Chunks
               /\ tx[t].excl \subseteq Chunks /\ tx[t].enq \subseteq Chunks
               /\ tx[t].list \subseteq Chunks
    <3>1. tx[t] \in TxTypes /\ tx[t].new \subseteq tx[t].wrote
      BY InvFacts DEF Shape
    <3>. QED
      BY <3>1 DEF TxTypes, Natural
  <2>3. \A t \in Tx :
          UNION {tx[t].wrote, tx[t].keys, tx[t].excl, tx[t].enq, tx[t].list} \subseteq Chunks
    BY <2>2
  <2>4. DOMAIN tx = Tx
    BY <2>1 DEF TableTypes
  <2>. QED
    BY <2>1, <2>2, <2>3, <2>4 DEF TypeOK, TableTypes, Positions
<1>. QED
  BY <1>1, InvInvariant, NaturalInvariant, PTL

\* A transaction that is waited for holds something.
LEMMA BlockersHold ==
  ASSUME NEW t \in Tx, NEW u \in Blockers(t)
  PROVE  /\ tx[t].pc \in {"chunks", "refs", "count", "uncount", "drain"}
         /\ u \in Tx /\ u # t
         /\ tx[t].pc = "refs" => tx[u].excl # {}
         /\ tx[u].wrote # {} \/ tx[u].excl # {} \/ tx[u].keys # {} \/ tx[u].pc = "uncount"
<1> USE DEF Writing, Excluding, Others
<1>1. tx[t].pc \in {"chunks", "refs", "count", "uncount", "drain"}
  BY DEF Blockers
<1>2. CASE tx[t].pc = "chunks"
  <2>1. u \in Writing(t, Row(t)) \/ u \in Deleting(t)
    BY <1>2 DEF Blockers
  <2>. QED
    BY <1>2, <2>1 DEF Deleting
<1>3. CASE tx[t].pc = "refs"
  <2>1. u \in Excluding(t, Row(t))
    BY <1>3 DEF Blockers
  <2>. QED
    BY <1>3, <2>1
<1>4. CASE tx[t].pc \in {"count", "uncount"}
  <2>1. u \in Updating(t, Row(t))
    BY <1>4 DEF Blockers
  <2>. QED
    BY <1>4, <2>1 DEF Updating
<1>5. CASE tx[t].pc = "drain"
  <2>1. PICK c \in tx[t].list : u \in Locking(t, c)
    BY <1>5 DEF Blockers
  <2>. QED
    BY <1>5, <2>1 DEF Locking, Updating
<1>. QED
  BY <1>1, <1>2, <1>3, <1>4, <1>5

\* Only publications at a chunk's insertion or count, and collections at a
\* count, can wait in a circle.  A drain never does: while it waits it holds
\* nothing, and while it holds a row it waits for nobody; so a transaction that
\* has had the provider delete bytes is never the victim of a deadlock.
THEOREM DrainsOutsideDeadlocks == Spec => []DrainsNeverDeadlock
<1>1. Inv => DrainsNeverDeadlock
  <2> SUFFICES ASSUME Inv, NEW S \in SUBSET Tx, Circle(S), NEW t \in S
               PROVE  tx[t].pc \in {"chunks", "count", "uncount"}
    BY DEF DrainsNeverDeadlock
  <2>1. \A u \in S : Blockers(u) \cap S # {}
    BY DEF Circle, Stuck
  <2>2. PICK b \in S : b \in Blockers(t)
    BY <2>1
  <2>3. /\ tx[t].pc \in {"chunks", "refs", "count", "uncount", "drain"}
        /\ b \in Tx /\ b # t
        /\ tx[t].pc = "refs" => tx[b].excl # {}
    BY <2>2, BlockersHold
  <2>4. ASSUME tx[t].pc = "refs"
        PROVE  FALSE
    <3>1. tx[b].pc \in {"chunks", "refs", "count", "uncount", "drain"}
      BY <2>1, <2>3, BlockersHold
    <3>2. Shape(tx[b])
      BY <2>3, InvFacts
    <3>. QED
      BY <2>3, <2>4, <3>1, <3>2 DEF Shape, Publishing, Collecting
  <2>5. ASSUME tx[t].pc = "drain"
        PROVE  FALSE
    <3> DEFINE R == S \ {t}
    <3>1. tx[t].wrote = {} /\ tx[t].excl = {} /\ tx[t].keys = {}
      BY <2>5, InvFacts DEF Shape, Draining
    <3>2. \A u \in R : t \notin Blockers(u)
      BY <2>5, <3>1, BlockersHold
    <3>3. \A u \in R : Blockers(u) \cap R # {}
      BY <2>1, <3>2
    <3>4. R # {} /\ R \in SUBSET S
      BY <2>2, <2>3
    <3>5. R = S
      BY <3>3, <3>4 DEF Circle, Stuck
    <3>. QED
      BY <3>5
  <2>. QED
    BY <2>3, <2>4, <2>5
<1>. QED
  BY <1>1, InvInvariant, PTL
=============================================================================
