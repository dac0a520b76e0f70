------------------------ MODULE TransferAgentProofs ------------------------
(***************************************************************************)
(* Proofs about the transfer agent, for any number of workers and chunks   *)
(* and any sequence of requests: what an upload has acknowledged when it   *)
(* is finalized, what a download writes and keeps in memory, and what the  *)
(* agent answers.                                                          *)
(***************************************************************************)
EXTENDS TransferAgent, FiniteSetTheorems, TLAPS

\* The width of the channels is the number of workers.
LEMMA Widths ==
  /\ Up!Width = Cardinality(Workers) /\ Down!Width = Cardinality(Workers)
  /\ Cardinality(Workers) \in Nat \ {0}
<1>1. Up!Width = Cardinality(Workers) /\ Down!Width = Cardinality(Workers)
  BY DEF Up!Width, Down!Width, Up!Cardinality, Down!Cardinality, Cardinality
<1>2. Cardinality(Workers) \in Nat /\ Cardinality(Workers) # 0
  BY WorkersAssumption, FS_CardinalityType, FS_EmptySet
<1>. QED
  BY <1>1, <1>2

-----------------------------------------------------------------------------
(* Uploads.                                                                 *)

Exited == {w \in Workers : wk[w].pc = "exited"}

UploadTypes ==
  /\ main \in {"begin", "chunk", "send", "poll", "join", "finalize", "done", "failed"}
  /\ try \in 1 .. Attempts
  /\ missing \subseteq Up!Index
  /\ length \in 0 .. Total /\ pos \in 0 .. length
  /\ jobs \in Seq(Up!Index) /\ Len(jobs) <= Cardinality(Workers)
  /\ errors \in Nat
  /\ wk \in [Workers -> Up!Worker]

\* A missing chunk that the file has yielded is acknowledged, on its way, or
\* lost to an error that will be noticed.
UploadFlow ==
  /\ \A k \in DOMAIN jobs : jobs[k] \in missing /\ jobs[k] < pos
  /\ \A w \in Workers : wk[w].pc = "put" => wk[w].index \in missing /\ wk[w].index < pos
  /\ \A i \in acked : i \in missing /\ i < pos
  /\ main = "send" => pos > 0 /\ pos - 1 \in missing
  /\ \/ bad = TRUE \/ errors > 0
     \/ \A i \in missing : i < pos =>
          \/ i \in acked
          \/ \E k \in DOMAIN jobs : jobs[k] = i
          \/ \E w \in Workers : wk[w].pc = "put" /\ wk[w].index = i
          \/ main = "send" /\ i = pos - 1

\* Where the threads are.  A worker that has stopped without an error found the
\* channel empty and closed.
UploadThreads ==
  /\ bad \in BOOLEAN /\ open \in BOOLEAN
  /\ errors <= Cardinality(Exited)
  /\ main = "begin" =>
       /\ pos = 0 /\ missing = {} /\ acked = {} /\ jobs = <<>> /\ errors = 0
       /\ bad = FALSE /\ open = TRUE /\ wk = [w \in Workers |-> Up!Idle]
  /\ main \in {"chunk", "send", "poll"} => open = TRUE /\ bad = FALSE
  /\ main \in {"join", "finalize", "done"} => open = FALSE
  /\ main \in {"join", "finalize", "done"} => bad = TRUE \/ pos = length
  /\ main \in {"finalize", "done"} => bad = FALSE /\ errors = 0
  /\ main \in {"finalize", "done"} \/ (main = "failed" /\ open = FALSE) => Exited = Workers
  /\ main = "failed" /\ open = TRUE => jobs = <<>> /\ wk = [w \in Workers |-> Up!Idle]
  /\ bad = TRUE \/ errors > 0 \/ Exited = {} \/ (open = FALSE /\ jobs = <<>>)

UploadInv == UploadTypes /\ UploadFlow /\ UploadThreads

\* The fields of an upload worker at each of its positions.
LEMMA WorkerShapes ==
  /\ Up!Idle \in Up!Worker /\ Up!Idle.pc = "take"
  /\ \A s \in Up!Worker : /\ s.pc \in {"take", "put", "exited"}
                          /\ s.pc = "exited" => s = [pc |-> "exited"]
                          /\ s.pc = "take" => s = Up!Idle
                          /\ s.pc = "put" =>
                               /\ s.index \in Up!Index /\ s.attempt \in 1 .. Attempts
                               /\ s = [pc |-> "put", index |-> s.index, attempt |-> s.attempt]
BY DEF Up!Worker, Up!Idle

\* There are no more stopped workers than workers.
LEMMA ExitedFinite == IsFiniteSet(Exited) /\ Cardinality(Exited) \in Nat
                      /\ Cardinality(Exited) <= Cardinality(Workers)
<1>1. Exited \in SUBSET Workers
  BY DEF Exited
<1>. QED
  BY <1>1, WorkersAssumption, FS_Subset, FS_CardinalityType

\* The main thread keeps the types.
LEMMA UploadMainTypes ==
  ASSUME UploadTypes, UploadFlow, Up!MainStep
  PROVE  UploadTypes'
<1> USE DEF UploadTypes
<1>0. Cardinality(Workers) \in Nat /\ Up!Width = Cardinality(Workers)
  BY Widths
<1>1. ASSUME NEW m \in SUBSET Up!Index, Up!BeginOk(m)
      PROVE  UploadTypes'
  BY <1>1, AttemptsAssumption DEF Up!BeginOk
<1>2. CASE Up!Retry
  BY <1>2, AttemptsAssumption DEF Up!Retry, Up!plan
<1>3. CASE Up!GiveUp \/ Up!LastChunk \/ Up!ReadError \/ Up!SendError \/ Up!Join \/ Up!FinalizeOk
  BY <1>3 DEF Up!GiveUp, Up!LastChunk, Up!ReadError, Up!SendError, Up!Join, Up!FinalizeOk,
              Up!EndLoop, Up!plan
<1>4. CASE Up!NextChunk
  BY <1>4, ManifestAssumption DEF Up!NextChunk, Up!plan
<1>5. CASE Up!SendChunk
  <2>1. pos - 1 \in Up!Index
    BY <1>5 DEF Up!SendChunk, UploadFlow
  <2>2. jobs' \in Seq(Up!Index) /\ Len(jobs') <= Cardinality(Workers)
    BY <1>0, <1>5, <2>1 DEF Up!SendChunk
  <2>. QED
    BY <1>5, <2>2 DEF Up!SendChunk, Up!plan
<1>6. CASE Up!Poll
  BY <1>6 DEF Up!Poll, Up!EndLoop, Up!plan
<1>. QED
  BY <1>1, <1>2, <1>3, <1>4, <1>5, <1>6 DEF Up!MainStep

\* The producer loses no chunk without noting an error.
LEMMA UploadMainFlow ==
  ASSUME UploadTypes, UploadFlow, UploadThreads, Up!MainStep
  PROVE  UploadFlow'
<1> USE DEF UploadTypes, UploadFlow
<1>1. ASSUME NEW m \in SUBSET Up!Index, Up!BeginOk(m)
      PROVE  UploadFlow'
  <2>1. /\ main = "begin" /\ pos = 0 /\ acked = {} /\ jobs = <<>>
        /\ wk = [w \in Workers |-> Up!Idle]
    BY <1>1 DEF Up!BeginOk, UploadThreads
  <2>2. \A i \in m : ~ (i < 0)
    BY ManifestAssumption DEF Up!Index
  <2>3. missing' = m /\ pos' = 0 /\ acked' = {} /\ jobs' = <<>> /\ main' = "chunk"
        /\ wk' = [w \in Workers |-> Up!Idle]
    BY <1>1, <2>1 DEF Up!BeginOk
  <2>. QED
    BY <2>2, <2>3 DEF Up!Idle
<1>2. CASE Up!Retry \/ Up!GiveUp \/ Up!Join \/ Up!FinalizeOk
  BY <1>2 DEF Up!Retry, Up!GiveUp, Up!Join, Up!FinalizeOk, Up!plan
<1>3. CASE Up!LastChunk
  <2>1. bad' = FALSE /\ bad = FALSE
    BY <1>3 DEF Up!LastChunk, Up!EndLoop, UploadThreads
  <2>. QED
    BY <1>3, <2>1 DEF Up!LastChunk, Up!EndLoop, Up!plan
<1>4. CASE Up!ReadError \/ Up!SendError
  <2>1. bad' = TRUE
    BY <1>4 DEF Up!ReadError, Up!SendError, Up!EndLoop
  <2>. QED
    BY <1>4, <2>1 DEF Up!ReadError, Up!SendError, Up!EndLoop, Up!plan
<1>5. CASE Up!NextChunk
  <2>1. /\ main = "chunk" /\ pos' = pos + 1 /\ main' = IF pos \in missing THEN "send" ELSE "poll"
        /\ missing' = missing /\ acked' = acked /\ jobs' = jobs /\ wk' = wk
        /\ bad' = bad /\ errors' = errors /\ pos \in Nat /\ missing \subseteq Nat
    BY <1>5, ManifestAssumption DEF Up!NextChunk, Up!plan, Up!Index
  <2>2. \A i \in missing : i < pos => i < pos'
    BY <2>1
  <2>3. \A i \in missing : i < pos' => i < pos \/ i = pos
    BY <2>1
  <2>4. pos' - 1 = pos /\ pos' > 0
    BY <2>1
  <2>. QED
    BY <2>1, <2>2, <2>3, <2>4
<1>6. CASE Up!SendChunk
  <2>1. /\ main = "send" /\ main' = "poll" /\ jobs' = Append(jobs, pos - 1)
        /\ UNCHANGED <<missing, acked, wk, bad, errors, pos>>
        /\ pos - 1 \in missing /\ pos \in Nat
    BY <1>6 DEF Up!SendChunk, Up!plan
  <2>2. pos - 1 < pos
    BY <2>1
  <2>3. /\ DOMAIN jobs' = 1 .. Len(jobs) + 1 /\ DOMAIN jobs = 1 .. Len(jobs)
        /\ Len(jobs) \in Nat
        /\ \A k \in DOMAIN jobs : k \in DOMAIN jobs' /\ jobs'[k] = jobs[k]
        /\ jobs'[Len(jobs) + 1] = pos - 1 /\ Len(jobs) + 1 \in DOMAIN jobs'
        /\ \A k \in DOMAIN jobs' : k \in DOMAIN jobs \/ k = Len(jobs) + 1
    BY <2>1
  <2>4. \A k \in DOMAIN jobs' : jobs'[k] \in missing /\ jobs'[k] < pos
    BY <2>1, <2>2, <2>3
  <2>. QED
    BY <2>1, <2>3, <2>4
<1>7. CASE Up!Poll
  <2>1. main = "poll" /\ UNCHANGED <<pos, missing, acked, jobs, wk>> /\ main' \in {"join", "chunk"}
    BY <1>7 DEF Up!Poll, Up!EndLoop, Up!plan
  <2>2. bad' = TRUE \/ (bad' = bad /\ errors' = errors)
    BY <1>7 DEF Up!Poll, Up!EndLoop
  <2>. QED
    BY <2>1, <2>2
<1>. QED
  BY <1>1, <1>2, <1>3, <1>4, <1>5, <1>6, <1>7 DEF Up!MainStep

\* The producer finds the workers where it expects them.
LEMMA UploadMainThreads ==
  ASSUME UploadTypes, UploadThreads, Up!MainStep
  PROVE  UploadThreads'
<1> USE DEF UploadThreads
<1>0. wk' = wk /\ Exited' = Exited /\ length' = length
  BY DEF Up!MainStep, Up!BeginOk, Up!Retry, Up!GiveUp, Up!LastChunk, Up!ReadError,
         Up!NextChunk, Up!SendChunk, Up!SendError, Up!Poll, Up!Join, Up!FinalizeOk,
         Up!plan, Exited
<1>1. ASSUME NEW m \in SUBSET Up!Index, Up!BeginOk(m)
      PROVE  UploadThreads'
  <2>1. Exited = {}
    BY <1>1 DEF Up!BeginOk, Exited, Up!Idle
  <2>. QED
    BY <1>0, <1>1, <2>1 DEF Up!BeginOk
<1>2. CASE Up!Retry
  BY <1>0, <1>2 DEF Up!Retry, Up!plan
<1>3. CASE Up!GiveUp
  BY <1>0, <1>3 DEF Up!GiveUp, Up!plan
<1>4. CASE Up!LastChunk
  BY <1>0, <1>4 DEF Up!LastChunk, Up!EndLoop, Up!plan
<1>5. CASE Up!ReadError \/ Up!SendError
  BY <1>0, <1>5 DEF Up!ReadError, Up!SendError, Up!EndLoop, Up!plan
<1>6. CASE Up!NextChunk
  BY <1>0, <1>6 DEF Up!NextChunk, Up!plan
<1>7. CASE Up!SendChunk
  BY <1>0, <1>7 DEF Up!SendChunk, Up!plan
<1>8. CASE Up!Poll
  <2>1. errors \in Nat /\ Cardinality(Exited) \in Nat
    BY ExitedFinite DEF UploadTypes
  <2>2. CASE errors > 0
    <3>1. /\ main' = "join" /\ bad' = TRUE /\ open' = FALSE /\ errors' = errors - 1
          /\ UNCHANGED <<pos, missing, acked, jobs>>
      BY <1>8, <2>2 DEF Up!Poll, Up!EndLoop, Up!plan
    <3>2. errors' <= Cardinality(Exited)'
      BY <1>0, <2>1, <3>1
    <3>. QED
      BY <1>0, <3>1, <3>2
  <2>3. CASE ~ (errors > 0)
    BY <1>0, <1>8, <2>3 DEF Up!Poll, Up!plan
  <2>. QED
    BY <2>2, <2>3
<1>9. CASE Up!Join
  <2>1. Exited = Workers /\ main = "join" /\ open = FALSE
    BY <1>9 DEF Up!Join, Exited
  <2>2. UNCHANGED <<pos, missing, acked, jobs, bad, open, errors>>
    BY <1>9 DEF Up!Join, Up!plan
  <2>3. \/ main' = "failed"
        \/ main' = "finalize" /\ bad = FALSE /\ ~ (errors > 0)
    BY <1>9 DEF Up!Join, Up!Failed
  <2>4. ~ (errors > 0) => errors = 0
    BY DEF UploadTypes
  <2>. QED
    BY <1>0, <2>1, <2>2, <2>3, <2>4
<1>10. CASE Up!FinalizeOk
  BY <1>0, <1>10 DEF Up!FinalizeOk, Up!plan
<1>. QED
  BY <1>1, <1>2, <1>3, <1>4, <1>5, <1>6, <1>7, <1>8, <1>9, <1>10 DEF Up!MainStep

\* A worker moves to state s.
LEMMA UploadMoves ==
  ASSUME UploadTypes, NEW w \in Workers, NEW s \in Up!Worker, Up!Move(w, s)
  PROVE  /\ wk' \in [Workers -> Up!Worker] /\ wk'[w] = s
         /\ \A v \in Workers : v # w => wk'[v] = wk[v]
BY DEF UploadTypes, Up!Move

\* A worker that stops early has sent an error.
LEMMA UploadWorkerInv ==
  ASSUME UploadInv, NEW w \in Workers, Up!WorkerStep(w)
  PROVE  UploadInv'
<1> USE DEF UploadInv
<1>0. /\ UploadTypes /\ UploadFlow /\ UploadThreads /\ wk[w] \in Up!Worker
      /\ missing \subseteq Nat /\ pos \in Nat
  BY ManifestAssumption DEF UploadTypes, Up!Index
<1>1. CASE Up!Take(w)
  <2> DEFINE s == [pc |-> "put", index |-> Head(jobs), attempt |-> 1]
  <2>1. /\ Up!Started /\ wk[w].pc = "take" /\ jobs # <<>> /\ Up!Move(w, s) /\ jobs' = Tail(jobs)
        /\ UNCHANGED <<main, try, missing, length, pos, bad, open, errors, acked>>
    BY <1>1 DEF Up!Take, Up!plan
  <2>2. /\ jobs \in Seq(Up!Index) /\ Len(jobs) \in Nat \ {0} /\ Head(jobs) = jobs[1]
        /\ Head(jobs) \in Up!Index /\ 1 \in DOMAIN jobs
        /\ jobs' \in Seq(Up!Index) /\ Len(jobs') = Len(jobs) - 1
        /\ DOMAIN jobs = 1 .. Len(jobs) /\ DOMAIN jobs' = 1 .. Len(jobs) - 1
        /\ \A k \in DOMAIN jobs' : jobs'[k] = jobs[k + 1]
    BY <2>1 DEF UploadTypes
  <2>3. s \in Up!Worker
    BY <2>2, AttemptsAssumption DEF Up!Worker
  <2>4. s.pc = "put" /\ s.index = jobs[1]
    BY <2>2
  <2> HIDE DEF s
  <2>5. /\ wk' \in [Workers -> Up!Worker] /\ wk'[w] = s
        /\ \A v \in Workers : v # w => wk'[v] = wk[v]
    BY <2>1, <2>3, UploadMoves
  <2>6. Cardinality(Workers) \in Nat
    BY Widths
  <2>7. UploadTypes'
    BY <2>1, <2>2, <2>5, <2>6 DEF UploadTypes
  <2>8. \A k \in DOMAIN jobs' : k + 1 \in DOMAIN jobs
    BY <2>2
  <2>9. \A k \in DOMAIN jobs : k = 1 \/ (k - 1 \in DOMAIN jobs' /\ jobs'[k - 1] = jobs[k])
    BY <2>2
  <2>10. UploadFlow'
    <3>1. /\ \A k \in DOMAIN jobs' : jobs'[k] \in missing /\ jobs'[k] < pos
          /\ \A v \in Workers : wk'[v].pc = "put" => wk'[v].index \in missing /\ wk'[v].index < pos
      BY <2>2, <2>4, <2>5, <2>8 DEF UploadFlow
    <3>2. ASSUME NEW i \in missing, i < pos,
                 \/ i \in acked
                 \/ \E k \in DOMAIN jobs : jobs[k] = i
                 \/ \E v \in Workers : wk[v].pc = "put" /\ wk[v].index = i
                 \/ main = "send" /\ i = pos - 1
          PROVE  \/ i \in acked
                 \/ \E k \in DOMAIN jobs' : jobs'[k] = i
                 \/ \E v \in Workers : wk'[v].pc = "put" /\ wk'[v].index = i
                 \/ main = "send" /\ i = pos - 1
      <4>1. ASSUME NEW k \in DOMAIN jobs, jobs[k] = i
            PROVE  \/ \E j \in DOMAIN jobs' : jobs'[j] = i
                   \/ \E v \in Workers : wk'[v].pc = "put" /\ wk'[v].index = i
        BY <2>4, <2>5, <2>9, <4>1
      <4>2. ASSUME NEW v \in Workers, wk[v].pc = "put", wk[v].index = i
            PROVE  wk'[v].pc = "put" /\ wk'[v].index = i
        BY <2>1, <2>5, <4>2
      <4>. QED
        BY <3>2, <4>1, <4>2
    <3>. QED
      BY <2>1, <3>1, <3>2 DEF UploadFlow
  <2>11. Exited' = Exited
    BY <2>1, <2>4, <2>5 DEF Exited
  <2>12. main # "begin" /\ ~ (main = "failed" /\ open = TRUE)
    BY <2>1 DEF Up!Started
  <2>13. ~ (main \in {"finalize", "done"} \/ (main = "failed" /\ open = FALSE))
    BY <2>1 DEF UploadThreads, Exited
  <2>14. UploadThreads'
    BY <2>1, <2>11, <2>12, <2>13 DEF UploadThreads
  <2>. QED
    BY <2>7, <2>10, <2>14
<1>2. CASE Up!Exit(w)
  <2> DEFINE s == [pc |-> "exited"]
  <2>1. /\ Up!Started /\ wk[w].pc = "take" /\ jobs = <<>> /\ open = FALSE /\ Up!Move(w, s)
        /\ UNCHANGED <<main, try, missing, length, pos, bad, jobs, open, errors, acked>>
    BY <1>2 DEF Up!Exit, Up!plan, UploadThreads
  <2>2. s \in Up!Worker /\ s.pc = "exited"
    BY DEF Up!Worker
  <2> HIDE DEF s
  <2>3. /\ wk' \in [Workers -> Up!Worker] /\ wk'[w] = s
        /\ \A v \in Workers : v # w => wk'[v] = wk[v]
    BY <2>1, <2>2, UploadMoves
  <2>4. UploadTypes'
    BY <2>1, <2>3 DEF UploadTypes
  <2>5. \A v \in Workers : wk'[v].pc = "put" <=> wk[v].pc = "put"
    BY <2>1, <2>2, <2>3
  <2>6. UploadFlow'
    BY <2>1, <2>2, <2>3, <2>5 DEF UploadFlow
  <2>7. Exited' = Exited \cup {w}
    BY <2>2, <2>3 DEF Exited
  <2>8. Cardinality(Exited') >= Cardinality(Exited)
    BY <2>7, ExitedFinite, FS_AddElement
  <2>9. Cardinality(Exited') \in Nat /\ Cardinality(Exited) \in Nat /\ errors \in Nat
    <3>1. Cardinality(Exited \cup {w}) \in Nat /\ Cardinality(Exited) \in Nat
      BY ExitedFinite, FS_AddElement
    <3>2. errors \in Nat
      BY DEF UploadTypes
    <3>. QED
      BY <2>7, <3>1, <3>2
  <2>10. errors' <= Cardinality(Exited')
    BY <2>1, <2>8, <2>9 DEF UploadThreads
  <2>11. Exited # Workers
    BY <2>1 DEF Exited
  <2>12. UploadThreads'
    BY <2>1, <2>10, <2>11 DEF UploadThreads, Up!Started
  <2>. QED
    BY <2>4, <2>6, <2>12
<1>3. CASE Up!PutOk(w)
  <2>1. /\ wk[w].pc = "put" /\ acked' = acked \cup {wk[w].index} /\ Up!Move(w, Up!Idle)
        /\ UNCHANGED <<main, try, missing, length, pos, bad, jobs, open, errors>>
    BY <1>3 DEF Up!PutOk, Up!plan
  <2>2. /\ wk' \in [Workers -> Up!Worker] /\ wk'[w] = Up!Idle
        /\ \A v \in Workers : v # w => wk'[v] = wk[v]
    BY <2>1, UploadMoves, WorkerShapes
  <2>3. Up!Idle.pc = "take"
    BY WorkerShapes
  <2>4. UploadTypes'
    BY <2>1, <2>2 DEF UploadTypes
  <2>5. UploadFlow'
    <3>1. /\ \A v \in Workers : wk'[v].pc = "put" => wk'[v] = wk[v]
          /\ \A v \in Workers : wk[v].pc = "put" => v = w \/ wk'[v] = wk[v]
      BY <2>2, <2>3
    <3>2. wk[w].index \in missing /\ wk[w].index < pos /\ wk[w].index \in acked'
      BY <2>1 DEF UploadFlow
    <3>. QED
      BY <2>1, <3>1, <3>2 DEF UploadFlow
  <2>6. UploadThreads'
    <3>1. Exited' = Exited
      BY <2>1, <2>2, <2>3 DEF Exited
    <3>2. /\ main # "begin" /\ ~ (main = "failed" /\ open = TRUE)
      BY <2>1 DEF UploadThreads, Up!Idle
    <3>3. Exited # Workers
      BY <2>1 DEF Exited
    <3>. QED
      BY <2>1, <3>1, <3>2, <3>3 DEF UploadThreads
  <2>. QED
    BY <2>4, <2>5, <2>6
<1>4. CASE Up!PutRetry(w)
  <2> DEFINE s == [wk[w] EXCEPT !.attempt = @ + 1]
  <2>1. /\ wk[w].pc = "put" /\ wk[w].attempt < Attempts /\ Up!Move(w, s)
        /\ UNCHANGED <<main, try, missing, length, pos, bad, jobs, open, errors, acked>>
    BY <1>4 DEF Up!PutRetry, Up!plan
  <2>2. /\ wk[w].index \in Up!Index /\ wk[w].attempt \in 1 .. Attempts
        /\ wk[w] = [pc |-> "put", index |-> wk[w].index, attempt |-> wk[w].attempt]
    BY <1>0, <2>1, WorkerShapes
  <2>3. s = [pc |-> "put", index |-> wk[w].index, attempt |-> wk[w].attempt + 1]
    BY <2>2
  <2>4. wk[w].attempt + 1 \in 1 .. Attempts
    BY <2>1, <2>2, AttemptsAssumption
  <2>5. s \in Up!Worker /\ s.pc = "put" /\ s.index = wk[w].index
    BY <2>2, <2>3, <2>4 DEF Up!Worker
  <2> HIDE DEF s
  <2>6. /\ wk' \in [Workers -> Up!Worker] /\ wk'[w] = s
        /\ \A v \in Workers : v # w => wk'[v] = wk[v]
    BY <2>1, <2>5, UploadMoves
  <2>7. \A v \in Workers : /\ wk'[v].pc = wk[v].pc
                           /\ wk[v].pc = "put" => wk'[v].index = wk[v].index
    BY <2>1, <2>5, <2>6
  <2>8. UploadTypes'
    BY <2>1, <2>6 DEF UploadTypes
  <2>9. UploadFlow'
    BY <2>1, <2>7 DEF UploadFlow
  <2>10. UploadThreads'
    <3>1. Exited' = Exited
      BY <2>7 DEF Exited
    <3>2. /\ main # "begin" /\ ~ (main = "failed" /\ open = TRUE)
      BY <2>1 DEF UploadThreads, Up!Idle
    <3>. QED
      BY <2>1, <3>1, <3>2 DEF UploadThreads
  <2>. QED
    BY <2>8, <2>9, <2>10
<1>5. CASE Up!PutError(w)
  <2> DEFINE s == [pc |-> "exited"]
  <2>1. /\ wk[w].pc = "put" /\ errors' = errors + 1 /\ Up!Move(w, s)
        /\ UNCHANGED <<main, try, missing, length, pos, bad, jobs, open, acked>>
    BY <1>5 DEF Up!PutError, Up!plan
  <2>2. s \in Up!Worker /\ s.pc = "exited"
    BY DEF Up!Worker
  <2> HIDE DEF s
  <2>3. /\ wk' \in [Workers -> Up!Worker] /\ wk'[w] = s
        /\ \A v \in Workers : v # w => wk'[v] = wk[v]
    BY <2>1, <2>2, UploadMoves
  <2>4. errors \in Nat /\ errors' \in Nat /\ errors' > 0
    BY <2>1 DEF UploadTypes
  <2>5. UploadTypes'
    BY <2>1, <2>3, <2>4 DEF UploadTypes
  <2>6. \A v \in Workers : wk'[v].pc = "put" => wk'[v] = wk[v]
    BY <2>2, <2>3
  <2>7. UploadFlow'
    BY <2>1, <2>4, <2>6 DEF UploadFlow
  <2>8. UploadThreads'
    <3>1. Exited' = Exited \cup {w} /\ w \notin Exited
      BY <2>1, <2>2, <2>3 DEF Exited
    <3>2. Cardinality(Exited \cup {w}) = Cardinality(Exited) + 1 /\ Cardinality(Exited) \in Nat
      BY <3>1, ExitedFinite, FS_AddElement
    <3>3. errors <= Cardinality(Exited)
      BY DEF UploadThreads
    <3>4. errors' <= Cardinality(Exited')
      BY <2>1, <2>4, <3>1, <3>2, <3>3
    <3>5. /\ main # "begin" /\ ~ (main = "failed" /\ open = TRUE)
      BY <2>1 DEF UploadThreads, Up!Idle
    <3>6. Exited # Workers
      BY <3>1
    <3>7. main \notin {"finalize", "done"} /\ ~ (main = "failed" /\ open = FALSE)
      BY <3>6 DEF UploadThreads
    <3>. QED
      BY <2>1, <2>4, <3>4, <3>5, <3>7 DEF UploadThreads
  <2>. QED
    BY <2>5, <2>7, <2>8
<1>. QED
  BY <1>1, <1>2, <1>3, <1>4, <1>5 DEF Up!WorkerStep

\* What the invariant says of an upload that ends.
LEMMA UploadFacts ==
  ASSUME UploadInv
  PROVE  /\ Up!TypeOK /\ Up!FinalizeAfterAcks
         /\ main \in {"done", "failed"} =>
              \/ wk = [w \in Workers |-> Up!Idle]
              \/ wk = [w \in Workers |-> [pc |-> "exited"]]
<1>1. UploadTypes /\ UploadFlow /\ UploadThreads
  BY DEF UploadInv
<1>2. Up!TypeOK
  <2>1. jobs \in Seq(missing)
    <3>1. /\ Len(jobs) \in Nat /\ DOMAIN jobs = 1 .. Len(jobs)
          /\ jobs = [k \in 1 .. Len(jobs) |-> jobs[k]]
      BY <1>1 DEF UploadTypes
    <3>2. \A k \in 1 .. Len(jobs) : jobs[k] \in missing
      BY <1>1, <3>1 DEF UploadFlow
    <3>. QED
      BY <3>1, <3>2
  <2>2. errors \in 0 .. Up!Width /\ Len(jobs) <= Up!Width
    <3>1. errors \in Nat /\ errors <= Cardinality(Exited) /\ Len(jobs) <= Cardinality(Workers)
      BY <1>1 DEF UploadTypes, UploadThreads
    <3>. QED
      BY <3>1, ExitedFinite, Widths
  <2>3. acked \subseteq missing
    BY <1>1 DEF UploadFlow
  <2>4. bad \in BOOLEAN /\ open \in BOOLEAN
    BY <1>1 DEF UploadThreads
  <2>. QED
    BY <1>1, <2>1, <2>2, <2>3, <2>4 DEF Up!TypeOK, UploadTypes
<1>3. Up!FinalizeAfterAcks
  <2> SUFFICES ASSUME main \in {"finalize", "done"}
               PROVE  acked = missing \cap (0 .. length - 1)
    BY DEF Up!FinalizeAfterAcks
  <2>1. /\ bad = FALSE /\ errors = 0 /\ pos = length /\ Exited = Workers /\ open = FALSE
    BY <1>1 DEF UploadThreads
  <2>2. jobs = <<>>
    BY <1>1, <2>1, WorkersAssumption DEF UploadThreads
  <2>3. \A w \in Workers : wk[w].pc # "put"
    BY <2>1 DEF Exited
  <2>4. length \in Nat /\ missing \subseteq Nat
    BY <1>1, ManifestAssumption DEF UploadTypes, Up!Index
  <2>5. \A i \in missing : i < pos => i \in acked
    BY <1>1, <2>1, <2>2, <2>3 DEF UploadFlow
  <2>6. \A i \in acked : i \in missing /\ i < pos
    BY <1>1 DEF UploadFlow
  <2>7. \A i \in Nat : i < length <=> i \in 0 .. length - 1
    BY <2>4
  <2>. QED
    BY <2>1, <2>4, <2>5, <2>6, <2>7
<1>4. ASSUME main \in {"done", "failed"}
      PROVE  \/ wk = [w \in Workers |-> Up!Idle]
             \/ wk = [w \in Workers |-> [pc |-> "exited"]]
  <2>1. CASE main = "failed" /\ open = TRUE
    BY <1>1, <2>1 DEF UploadThreads
  <2>2. CASE ~ (main = "failed" /\ open = TRUE)
    <3>1. Exited = Workers
      BY <1>1, <1>4, <2>2 DEF UploadThreads
    <3>2. \A w \in Workers : wk[w] = [pc |-> "exited"]
      BY <1>1, <3>1, WorkerShapes DEF Exited, UploadTypes
    <3>. QED
      BY <1>1, <3>2 DEF UploadTypes
  <2>. QED
    BY <2>1, <2>2
<1>. QED
  BY <1>2, <1>3, <1>4

-----------------------------------------------------------------------------
(* Downloads.                                                               *)

\* The workers that have a chunk in hand, or are getting one.
Active == {w \in Workers : wk[w].pc \notin {"take", "exited"}}

DownloadTypes ==
  /\ main \in {"manifest", "fill", "recv", "drain", "refill", "joinOk", "joinError",
               "kept", "failed"}
  /\ next \in 0 .. Total
  /\ file \in Seq(Down!Index)
  /\ pending \subseteq Down!Index
  /\ jobs \in Seq(Down!Index) /\ Len(jobs) <= Cardinality(Workers)
  /\ results \in Seq(Down!Index \X BOOLEAN) /\ Len(results) <= Cardinality(Workers)
  /\ wk \in [Workers -> Down!Worker]
  /\ disk \in [Digests -> {"absent", "valid", "corrupt"}]
  /\ open \in BOOLEAN /\ genuine \in BOOLEAN

\* Every chunk that was scheduled and is not written is in one place at most,
\* and there are never more of them than workers.
DownloadFlow ==
  /\ \A i \in DOMAIN file : file[i] = i - 1
  /\ Len(jobs) + Cardinality(Active) + Len(results) + Cardinality(pending) <= next - Len(file)
  /\ next - Len(file) <= Cardinality(Workers)
  /\ main \in {"manifest", "fill"} => file = <<>>
  /\ main = "refill" => next < Total /\ next - Len(file) < Cardinality(Workers)

DownloadThreads ==
  /\ main = "manifest" => jobs = <<>> /\ open = TRUE /\ wk = [w \in Workers |-> Down!Idle]
  /\ main = "kept" => Down!HashMatches /\ wk = [w \in Workers |-> [pc |-> "exited"]]
  /\ main = "failed" =>
       \/ wk = [w \in Workers |-> [pc |-> "exited"]]
       \/ jobs = <<>> /\ open = TRUE /\ wk = [w \in Workers |-> Down!Idle]

DownloadInv == DownloadTypes /\ DownloadFlow /\ DownloadThreads

\* The fields of a download worker at each of its positions.
LEMMA DownloadShapes ==
  /\ Down!Idle \in Down!Worker /\ Down!Idle.pc = "take"
  /\ \A s \in Down!Worker :
       /\ s.pc \in {"take", "exited", "read", "remove", "publish", "send", "sendError", "fetch"}
       /\ s.pc = "exited" => s = [pc |-> "exited"]
       /\ s.pc \notin {"take", "exited"} => s.index \in Down!Index
       /\ s.pc = "fetch" => s.attempt \in 1 .. Attempts
BY DEF Down!Worker, Down!Idle

\* What is counted in a download is finite.
LEMMA DownloadCards ==
  ASSUME DownloadTypes
  PROVE  /\ IsFiniteSet(Active) /\ Cardinality(Active) \in Nat
         /\ IsFiniteSet(pending) /\ Cardinality(pending) \in Nat
         /\ Len(jobs) \in Nat /\ Len(results) \in Nat /\ Len(file) \in Nat /\ next \in Nat
         /\ Cardinality(Workers) \in Nat \ {0} /\ Total \in Nat
<1>1. IsFiniteSet(Active)
  BY WorkersAssumption, FS_Subset DEF Active
<1>2. 0 \in Int /\ Total - 1 \in Int
  BY ManifestAssumption
<1>3. IsFiniteSet(0 .. Total - 1)
  BY ONLY <1>2, FS_Interval
<1>4. IsFiniteSet(pending)
  BY <1>3, FS_Subset DEF DownloadTypes, Down!Index
<1>5. Cardinality(Active) \in Nat /\ Cardinality(pending) \in Nat
  BY <1>1, <1>4, FS_CardinalityType
<1>6. Len(jobs) \in Nat /\ Len(results) \in Nat /\ Len(file) \in Nat /\ next \in Nat
  BY ManifestAssumption DEF DownloadTypes
<1>. QED
  BY <1>1, <1>4, <1>5, <1>6, Widths, ManifestAssumption

\* A worker moves to state s.
LEMMA DownloadMoves ==
  ASSUME DownloadTypes, NEW w \in Workers, NEW s \in Down!Worker, Down!Move(w, s)
  PROVE  /\ wk' \in [Workers -> Down!Worker] /\ wk'[w] = s
         /\ \A v \in Workers : v # w => wk'[v] = wk[v]
         /\ Active' = IF s.pc \in {"take", "exited"} THEN Active \ {w} ELSE Active \cup {w}
<1>1. /\ wk' \in [Workers -> Down!Worker] /\ wk'[w] = s
      /\ \A v \in Workers : v # w => wk'[v] = wk[v]
  BY DEF DownloadTypes, Down!Move
<1>2. Active' = IF s.pc \in {"take", "exited"} THEN Active \ {w} ELSE Active \cup {w}
  BY <1>1 DEF Active
<1>. QED
  BY <1>1, <1>2

\* A step of a worker that has a chunk, and keeps it.
LEMMA DownloadKeeps ==
  ASSUME DownloadInv, NEW w \in Workers, w \in Active, main # "manifest",
         NEW s \in Down!Worker, s.pc \notin {"take", "exited"}, Down!Move(w, s),
         UNCHANGED <<main, next, file, pending, jobs, open, results, genuine>>,
         disk' \in [Digests -> {"absent", "valid", "corrupt"}]
  PROVE  DownloadInv'
<1>1. DownloadTypes /\ DownloadFlow /\ DownloadThreads
  BY DEF DownloadInv
<1>2. wk' \in [Workers -> Down!Worker] /\ Active' = Active
  BY <1>1, DownloadMoves
<1>3. DownloadTypes'
  BY <1>1, <1>2 DEF DownloadTypes
<1>4. DownloadFlow'
  BY <1>1, <1>2 DEF DownloadFlow
<1>5. main \notin {"manifest", "kept", "failed"}
  BY <1>1 DEF DownloadThreads, Active, Down!Idle
<1>6. DownloadThreads'
  BY <1>5 DEF DownloadThreads
<1>. QED
  BY <1>3, <1>4, <1>6 DEF DownloadInv

\* A worker hands each chunk on at most once.
LEMMA DownloadWorkerInv ==
  ASSUME DownloadInv, NEW w \in Workers, Down!WorkerStep(w)
  PROVE  DownloadInv'
<1>0. /\ DownloadTypes /\ DownloadFlow /\ DownloadThreads
      /\ wk[w] \in Down!Worker
  BY DEF DownloadInv, DownloadTypes
<1>1. ASSUME wk[w].pc \notin {"take", "exited"}
      PROVE  w \in Active /\ wk[w].index \in Down!Index /\ Down!Entry(w) \in Digests
  BY <1>0, <1>1, DownloadShapes, ManifestAssumption DEF Active, Down!Entry, Down!Index
<1>2. ASSUME NEW i \in Down!Index
      PROVE  /\ \A p \in {"read", "remove", "publish", "send", "sendError"} :
                  [pc |-> p, index |-> i] \in Down!Worker /\ [pc |-> p, index |-> i].pc = p
             /\ \A n \in 1 .. Attempts :
                  /\ [pc |-> "fetch", index |-> i, attempt |-> n] \in Down!Worker
                  /\ [pc |-> "fetch", index |-> i, attempt |-> n].pc = "fetch"
  BY DEF Down!Worker
<1>3. 1 \in 1 .. Attempts
  BY AttemptsAssumption
<1> USE DEF Down!At, Down!mainVars
<1>4. CASE Down!ReadCache(w)
  <2>1. wk[w].pc = "read" /\ main # "manifest"
    BY <1>4 DEF Down!ReadCache
  <2>2. PICK s \in Down!Worker : s.pc \notin {"take", "exited"} /\ Down!Move(w, s)
    <3>1. disk[Down!Entry(w)] \in {"absent", "valid", "corrupt"}
      BY <1>0, <1>1, <2>1 DEF DownloadTypes
    <3>2. \/ Down!Move(w, Down!Go("send", w)) \/ Down!Move(w, Down!Go("remove", w))
          \/ Down!Move(w, Down!Fetch(w, 1))
      BY <1>4, <3>1 DEF Down!ReadCache
    <3>. QED
      BY <1>1, <1>2, <1>3, <2>1, <3>2 DEF Down!Go, Down!Fetch
  <2>3. UNCHANGED <<main, next, file, pending, jobs, open, results, genuine, disk>>
    BY <1>4 DEF Down!ReadCache
  <2>. QED
    BY <1>0, <1>1, <2>1, <2>2, <2>3, DownloadKeeps DEF DownloadTypes
<1>5. CASE Down!RemoveCorrupt(w)
  <2>1. wk[w].pc = "remove" /\ main # "manifest"
    BY <1>5 DEF Down!RemoveCorrupt
  <2>2. /\ \/ Down!Move(w, Down!Fetch(w, 1)) \/ Down!Move(w, Down!Go("sendError", w))
        /\ disk' = [disk EXCEPT ![Down!Entry(w)] = "absent"] \/ disk' = disk
        /\ UNCHANGED <<main, next, file, pending, jobs, open, results, genuine>>
    BY <1>5 DEF Down!RemoveCorrupt
  <2>3. PICK s \in Down!Worker : s.pc \notin {"take", "exited"} /\ Down!Move(w, s)
    BY <1>1, <1>2, <1>3, <2>1, <2>2 DEF Down!Go, Down!Fetch
  <2>4. disk' \in [Digests -> {"absent", "valid", "corrupt"}]
    BY <1>0, <2>2 DEF DownloadTypes
  <2>. QED
    BY <1>1, <2>1, <2>2, <2>3, <2>4, DownloadKeeps
<1>6. CASE Down!FetchOk(w) \/ Down!FetchRetry(w) \/ Down!FetchError(w)
  <2>1. wk[w].pc = "fetch" /\ main # "manifest"
    BY <1>6 DEF Down!FetchOk, Down!FetchRetry, Down!FetchError
  <2>2. /\ \/ Down!Move(w, Down!Go("publish", w)) \/ Down!Move(w, Down!Go("sendError", w))
           \/ Down!Move(w, Down!Fetch(w, wk[w].attempt + 1)) /\ wk[w].attempt < Attempts
        /\ UNCHANGED <<main, next, file, pending, jobs, open, results, genuine, disk>>
    BY <1>6 DEF Down!FetchOk, Down!FetchRetry, Down!FetchError
  <2>3. wk[w].attempt < Attempts => wk[w].attempt + 1 \in 1 .. Attempts
    BY <1>0, <2>1, DownloadShapes, AttemptsAssumption
  <2>4. PICK s \in Down!Worker : s.pc \notin {"take", "exited"} /\ Down!Move(w, s)
    BY <1>1, <1>2, <2>1, <2>2, <2>3 DEF Down!Go, Down!Fetch
  <2>. QED
    BY <1>0, <1>1, <2>1, <2>2, <2>4, DownloadKeeps DEF DownloadTypes
<1>7. CASE Down!Publish(w)
  <2>1. wk[w].pc = "publish" /\ main # "manifest"
    BY <1>7 DEF Down!Publish
  <2>2. /\ Down!Move(w, Down!Go("send", w))
        /\ disk' = [disk EXCEPT ![Down!Entry(w)] = IF @ = "absent" THEN "valid" ELSE @]
        /\ UNCHANGED <<main, next, file, pending, jobs, open, results, genuine>>
    BY <1>7 DEF Down!Publish
  <2>3. PICK s \in Down!Worker : s.pc \notin {"take", "exited"} /\ Down!Move(w, s)
    BY <1>1, <1>2, <2>1, <2>2 DEF Down!Go
  <2>4. disk' \in [Digests -> {"absent", "valid", "corrupt"}]
    BY <1>0, <1>1, <2>1, <2>2 DEF DownloadTypes
  <2>. QED
    BY <1>1, <2>1, <2>2, <2>3, <2>4, DownloadKeeps
<1>8. CASE Down!Take(w)
  <2> DEFINE s == [pc |-> "read", index |-> Head(jobs)]
  <2>1. /\ wk[w].pc = "take" /\ jobs # <<>> /\ Down!Move(w, s) /\ jobs' = Tail(jobs)
        /\ UNCHANGED <<main, next, file, pending, open, results, disk, genuine>>
    BY <1>8 DEF Down!Take
  <2>2. /\ Head(jobs) \in Down!Index /\ jobs' \in Seq(Down!Index)
        /\ Len(jobs') = Len(jobs) - 1 /\ Len(jobs) \in Nat
    BY <1>0, <2>1 DEF DownloadTypes
  <2>3. s \in Down!Worker /\ s.pc = "read"
    BY <1>2, <2>2
  <2> HIDE DEF s
  <2>4. wk' \in [Workers -> Down!Worker] /\ Active' = Active \cup {w}
    BY <1>0, <2>1, <2>3, DownloadMoves
  <2>5. Cardinality(Active') = Cardinality(Active) + 1
    <3>1. w \notin Active
      BY <2>1 DEF Active
    <3>. QED
      BY <1>0, <2>4, <3>1, DownloadCards, FS_AddElement
  <2>6. /\ Cardinality(Active) \in Nat /\ Cardinality(pending) \in Nat /\ Len(results) \in Nat
        /\ Len(file) \in Nat /\ next \in Nat /\ Cardinality(Workers) \in Nat
    BY <1>0, DownloadCards
  <2>7. Len(jobs') <= Cardinality(Workers)
    BY <1>0, <2>2, <2>6 DEF DownloadTypes
  <2>8. DownloadTypes'
    BY <1>0, <2>1, <2>2, <2>4, <2>7 DEF DownloadTypes
  <2>9. Len(jobs') + Cardinality(Active') = Len(jobs) + Cardinality(Active)
    BY <2>2, <2>5, <2>6
  <2>10. DownloadFlow'
    BY <1>0, <2>1, <2>9 DEF DownloadFlow
  <2>11. main \notin {"manifest", "kept", "failed"}
    BY <1>0, <2>1 DEF DownloadThreads
  <2>12. DownloadThreads'
    BY <2>1, <2>11 DEF DownloadThreads
  <2>. QED
    BY <2>8, <2>10, <2>12 DEF DownloadInv
<1>9. CASE Down!Exit(w)
  <2> DEFINE s == [pc |-> "exited"]
  <2>1. /\ wk[w].pc = "take" /\ jobs = <<>> /\ ~ open /\ Down!Move(w, s)
        /\ UNCHANGED <<main, next, file, pending, jobs, open, results, disk, genuine>>
    BY <1>9 DEF Down!Exit
  <2>2. s \in Down!Worker /\ s.pc = "exited"
    BY DEF Down!Worker
  <2> HIDE DEF s
  <2>3. wk' \in [Workers -> Down!Worker] /\ Active' = Active \ {w}
    BY <1>0, <2>1, <2>2, DownloadMoves
  <2>4. Active' = Active
    BY <2>1, <2>3 DEF Active
  <2>5. DownloadTypes'
    BY <1>0, <2>1, <2>3 DEF DownloadTypes
  <2>6. DownloadFlow'
    BY <1>0, <2>1, <2>4 DEF DownloadFlow
  <2>7. main \notin {"manifest", "kept", "failed"}
    BY <1>0, <2>1 DEF DownloadThreads
  <2>8. DownloadThreads'
    BY <2>1, <2>7 DEF DownloadThreads
  <2>. QED
    BY <2>5, <2>6, <2>8 DEF DownloadInv
<1>10. CASE Down!SendResult(w)
  <2> DEFINE e == <<wk[w].index, wk[w].pc = "send">>
  <2>1. /\ wk[w].pc \in {"send", "sendError"} /\ main # "manifest"
        /\ Len(results) < Down!Width /\ results' = Append(results, e)
        /\ Down!Move(w, Down!Idle)
        /\ UNCHANGED <<main, next, file, pending, jobs, open, disk, genuine>>
    BY <1>10 DEF Down!SendResult
  <2>2. w \in Active /\ e \in Down!Index \X BOOLEAN
    BY <1>1, <2>1
  <2> HIDE DEF e
  <2>3. /\ Cardinality(Active) \in Nat /\ Cardinality(pending) \in Nat /\ Len(results) \in Nat
        /\ Len(jobs) \in Nat /\ Len(file) \in Nat /\ next \in Nat
        /\ Cardinality(Workers) \in Nat /\ IsFiniteSet(Active)
    BY <1>0, DownloadCards
  <2>4. results' \in Seq(Down!Index \X BOOLEAN) /\ Len(results') = Len(results) + 1
    BY <1>0, <2>1, <2>2 DEF DownloadTypes
  <2>5. Len(results') <= Cardinality(Workers)
    BY <2>1, <2>3, <2>4, Widths
  <2>6. wk' \in [Workers -> Down!Worker] /\ Active' = Active \ {w}
    BY <1>0, <2>1, DownloadMoves, DownloadShapes
  <2>7. Cardinality(Active') = Cardinality(Active) - 1
    BY <2>2, <2>3, <2>6, FS_RemoveElement
  <2>8. DownloadTypes'
    BY <1>0, <2>1, <2>4, <2>5, <2>6 DEF DownloadTypes
  <2>9. Len(jobs) + Cardinality(Active') + Len(results')
          = Len(jobs) + Cardinality(Active) + Len(results)
    <3>1. /\ Len(results') = Len(results) + 1 /\ Len(results) \in Nat
          /\ Len(jobs) \in Nat /\ Cardinality(Active) \in Nat
      BY <2>3, <2>4
    <3>. QED
      BY ONLY <2>7, <3>1
  <2>10. DownloadFlow'
    BY <1>0, <2>1, <2>9 DEF DownloadFlow
  <2>11. main \notin {"manifest", "kept", "failed"}
    BY <1>0, <2>1 DEF DownloadThreads, Down!Idle
  <2>12. DownloadThreads'
    BY <2>1, <2>11 DEF DownloadThreads
  <2>. QED
    BY <2>8, <2>10, <2>12 DEF DownloadInv
<1>. QED
  BY <1>4, <1>5, <1>6, <1>7, <1>8, <1>9, <1>10 DEF Down!WorkerStep

\* A prune, or another process, changes the cache only.
LEMMA PruneInv ==
  ASSUME DownloadInv, NEW d \in Digests, Down!Prune(d)
  PROVE  DownloadInv'
<1>1. /\ UNCHANGED <<main, next, file, pending, jobs, open, results, wk, genuine>>
      /\ disk' = [disk EXCEPT ![d] = "absent"]
  BY DEF Down!Prune, Down!mainVars
<1>2. Active' = Active
  BY <1>1 DEF Active
<1>3. DownloadTypes'
  BY <1>1 DEF DownloadInv, DownloadTypes
<1>4. DownloadFlow' /\ DownloadThreads'
  BY <1>1, <1>2 DEF DownloadInv, DownloadFlow, DownloadThreads, Down!HashMatches
<1>. QED
  BY <1>3, <1>4 DEF DownloadInv

\* The main thread schedules a chunk only when it has written one.
LEMMA DownloadMainInv ==
  ASSUME DownloadInv, Down!MainStep
  PROVE  DownloadInv'
<1>0. /\ DownloadTypes /\ DownloadFlow /\ DownloadThreads
  BY DEF DownloadInv
<1>1. /\ wk' = wk /\ Active' = Active /\ disk' = disk /\ genuine' = genuine
  BY DEF Down!MainStep, Down!ManifestOk, Down!ManifestError, Down!Fill, Down!Recv, Down!Drain,
         Down!WriteError, Down!Refill, Down!Finish, Down!KeepError, Active
<1>2. /\ IsFiniteSet(pending) /\ Cardinality(pending) \in Nat /\ Cardinality(Active) \in Nat
      /\ Len(jobs) \in Nat /\ Len(results) \in Nat /\ Len(file) \in Nat /\ next \in Nat
      /\ Cardinality(Workers) \in Nat \ {0} /\ Total \in Nat
  BY <1>0, DownloadCards
<1>3. Down!Width = Cardinality(Workers)
  BY Widths
\* Steps that only move the main thread, or close the channel.
<1>4. ASSUME UNCHANGED <<next, file, pending, jobs, results>>, open' \in BOOLEAN,
             main' \in {"fill", "recv", "joinOk", "joinError"},
             main' = "fill" => main = "manifest"
      PROVE  DownloadInv'
  <2>1. DownloadTypes'
    BY <1>0, <1>1, <1>4 DEF DownloadTypes
  <2>2. DownloadFlow'
    BY <1>0, <1>1, <1>4 DEF DownloadFlow
  <2>3. DownloadThreads'
    BY <1>4 DEF DownloadThreads
  <2>. QED
    BY <2>1, <2>2, <2>3 DEF DownloadInv
<1>5. CASE Down!ManifestOk
  BY <1>0, <1>4, <1>5 DEF Down!ManifestOk, DownloadTypes
<1>6. CASE Down!ManifestError
  <2>1. UNCHANGED <<next, file, pending, jobs, open, results>> /\ main = "manifest"
        /\ main' = "failed"
    BY <1>6 DEF Down!ManifestError
  <2>2. DownloadTypes' /\ DownloadFlow'
    BY <1>0, <1>1, <2>1 DEF DownloadTypes, DownloadFlow
  <2>3. DownloadThreads'
    BY <1>0, <1>1, <2>1 DEF DownloadThreads
  <2>. QED
    BY <2>2, <2>3 DEF DownloadInv
\* One more chunk is scheduled.
<1>7. ASSUME Down!Schedule, next < Total, next - Len(file) < Cardinality(Workers),
             UNCHANGED <<file, pending, open, results>>, main' \in {"fill", "drain"},
             main' = "fill" => main = "fill"
      PROVE  DownloadInv'
  <2>1. jobs' = Append(jobs, next) /\ next' = next + 1 /\ Len(jobs) < Cardinality(Workers)
    BY <1>3, <1>7 DEF Down!Schedule
  <2>2. next \in Down!Index /\ next' \in 0 .. Total
    BY <1>2, <1>7, <2>1 DEF Down!Index
  <2>3. jobs' \in Seq(Down!Index) /\ Len(jobs') = Len(jobs) + 1
    BY <1>0, <2>1, <2>2 DEF DownloadTypes
  <2>4. Len(jobs') <= Cardinality(Workers)
    BY <1>2, <2>1, <2>3
  <2>5. DownloadTypes'
    BY <1>0, <1>1, <1>7, <2>2, <2>3, <2>4 DEF DownloadTypes
  <2>6. /\ Len(jobs') + Cardinality(Active) + Len(results) + Cardinality(pending)
             <= next' - Len(file)
        /\ next' - Len(file) <= Cardinality(Workers)
    BY <1>0, <1>2, <1>7, <2>1, <2>3, SMTT(30) DEF DownloadFlow
  <2>7. DownloadFlow'
    BY <1>0, <1>1, <1>7, <2>6 DEF DownloadFlow
  <2>8. DownloadThreads'
    BY <1>7 DEF DownloadThreads
  <2>. QED
    BY <2>5, <2>7, <2>8 DEF DownloadInv
<1>8. CASE Down!Fill
  <2>1. CASE next < Total /\ next < Down!Window
    <3>1. /\ Down!Schedule /\ main = "fill" /\ main' = main
          /\ UNCHANGED <<file, pending, open, results>>
      BY <1>8, <2>1 DEF Down!Fill
    <3>2. Len(file) = 0
      BY <1>0, <3>1 DEF DownloadFlow
    <3>3. next - Len(file) < Cardinality(Workers)
      BY <1>2, <1>3, <2>1, <3>2 DEF Down!Window
    <3>. QED
      BY <1>7, <2>1, <3>1, <3>3
  <2>2. CASE ~ (next < Total /\ next < Down!Window)
    BY <1>0, <1>4, <1>8, <2>2 DEF Down!Fill, DownloadTypes
  <2>. QED
    BY <2>1, <2>2
<1>9. CASE Down!Refill
  BY <1>0, <1>7, <1>9 DEF Down!Refill, DownloadFlow
<1>10. CASE Down!WriteError
  BY <1>4, <1>10 DEF Down!WriteError, Down!Leave
<1>11. CASE Down!Recv
  <2>1. CASE Len(file) = Total
    BY <1>4, <1>11, <2>1 DEF Down!Recv, Down!Leave
  <2>2. CASE Len(file) # Total
    <3>1. /\ results # <<>> /\ results' = Tail(results) /\ main = "recv"
          /\ UNCHANGED <<next, file, jobs>>
      BY <1>11, <2>2 DEF Down!Recv
    <3>2. \/ pending' = pending \cup {Head(results)[1]} /\ main' = "drain" /\ open' = open
          \/ pending' = pending /\ main' = "joinError" /\ open' = FALSE
      BY <1>11, <2>2 DEF Down!Recv, Down!Leave
    <3>3. /\ results' \in Seq(Down!Index \X BOOLEAN) /\ Len(results') = Len(results) - 1
          /\ Head(results)[1] \in Down!Index
      BY <1>0, <3>1 DEF DownloadTypes
    <3>4. Cardinality(pending') \in Nat /\ Cardinality(pending') <= Cardinality(pending) + 1
      <4>1. IsFiniteSet(pending) /\ Cardinality(pending) \in Nat
        BY <1>2
      <4>2. ASSUME NEW x
            PROVE  /\ Cardinality(pending \cup {x}) \in Nat
                   /\ Cardinality(pending \cup {x}) <= Cardinality(pending) + 1
        <5>1. Cardinality(pending \cup {x})
                = IF x \in pending THEN Cardinality(pending) ELSE Cardinality(pending) + 1
          BY ONLY <4>1, FS_AddElement
        <5>. QED
          BY ONLY <4>1, <5>1
      <4>3. CASE pending' = pending \cup {Head(results)[1]}
        BY ONLY <4>2, <4>3
      <4>4. CASE pending' = pending
        BY ONLY <4>1, <4>4
      <4>. QED
        BY ONLY <3>2, <4>3, <4>4
    <3>5. Len(results') <= Cardinality(Workers)
      BY <1>0, <1>2, <3>3 DEF DownloadTypes
    <3>6. DownloadTypes'
      BY <1>0, <1>1, <3>1, <3>2, <3>3, <3>5 DEF DownloadTypes
    <3>7. Len(jobs) + Cardinality(Active) + Len(results') + Cardinality(pending')
            <= next - Len(file)
      BY <1>0, <1>2, <3>3, <3>4, SMTT(30) DEF DownloadFlow
    <3>8. DownloadFlow'
      BY <1>0, <1>1, <3>1, <3>2, <3>7 DEF DownloadFlow
    <3>9. DownloadThreads'
      BY <3>2 DEF DownloadThreads
    <3>. QED
      BY <3>6, <3>8, <3>9 DEF DownloadInv
  <2>. QED
    BY <2>1, <2>2
<1>12. CASE Down!Drain
  <2>1. CASE Down!Writable = {}
    BY <1>0, <1>4, <1>12, <2>1 DEF Down!Drain, DownloadTypes
  <2>2. CASE Down!Writable # {}
    <3> DEFINE i == Len(file)
    <3>1. /\ i \in pending /\ pending' = pending \ {i} /\ file' = Append(file, i)
          /\ main' = Down!AfterWrite /\ UNCHANGED <<next, jobs, open, results>>
      BY <1>12, <2>2 DEF Down!Drain, Down!Writable
    <3>2. i \in Down!Index
      BY <1>0, <3>1 DEF DownloadTypes
    <3>3. /\ file' \in Seq(Down!Index) /\ Len(file') = Len(file) + 1
          /\ DOMAIN file' = 1 .. Len(file) + 1 /\ DOMAIN file = 1 .. Len(file)
          /\ \A k \in DOMAIN file : file'[k] = file[k]
          /\ file'[Len(file) + 1] = i
      BY <1>0, <3>1, <3>2 DEF DownloadTypes
    <3>4. Cardinality(pending') = Cardinality(pending) - 1
      BY <1>2, <3>1, FS_RemoveElement
    <3>5. main' \in {"refill", "drain"} /\ (main' = "refill" => next < Total)
      BY <3>1 DEF Down!AfterWrite
    <3>6. DownloadTypes'
      BY <1>0, <1>1, <3>1, <3>3, <3>5 DEF DownloadTypes
    <3>7. \A k \in DOMAIN file' : file'[k] = k - 1
      <4>1. \A k \in DOMAIN file' : k \in DOMAIN file \/ k = Len(file) + 1
        BY <1>2, <3>3
      <4>2. (Len(file) + 1) - 1 = Len(file)
        BY <1>2
      <4>. QED
        BY <1>0, <3>3, <4>1, <4>2 DEF DownloadFlow
    <3>8. /\ Len(jobs) + Cardinality(Active) + Len(results) + Cardinality(pending')
               <= next - Len(file')
          /\ next - Len(file') < Cardinality(Workers)
          /\ next - Len(file') <= Cardinality(Workers)
      BY <1>0, <1>2, <3>3, <3>4, SMTT(30) DEF DownloadFlow
    <3>9. DownloadFlow'
      BY <1>1, <3>1, <3>5, <3>7, <3>8 DEF DownloadFlow
    <3>10. DownloadThreads'
      BY <3>5 DEF DownloadThreads
    <3>. QED
      BY <3>6, <3>9, <3>10 DEF DownloadInv
  <2>. QED
    BY <2>1, <2>2
<1>13. CASE Down!Finish \/ Down!KeepError
  <2>1. /\ UNCHANGED <<next, file, pending, jobs, open, results>>
        /\ \A w \in Workers : wk[w].pc = "exited"
        /\ main' = "failed" \/ (main' = "kept" /\ Down!HashMatches)
    BY <1>13 DEF Down!Finish, Down!KeepError
  <2>2. wk = [w \in Workers |-> [pc |-> "exited"]]
    BY <1>0, <2>1, DownloadShapes DEF DownloadTypes
  <2>3. DownloadTypes' /\ DownloadFlow'
    BY <1>0, <1>1, <2>1 DEF DownloadTypes, DownloadFlow
  <2>4. Down!HashMatches' = Down!HashMatches
    BY <1>1, <2>1 DEF Down!HashMatches
  <2>5. DownloadThreads'
    BY <1>1, <2>1, <2>2, <2>4 DEF DownloadThreads
  <2>. QED
    BY <2>3, <2>5 DEF DownloadInv
<1>. QED
  BY <1>5, <1>6, <1>8, <1>9, <1>10, <1>11, <1>12, <1>13 DEF Down!MainStep

\* What the download invariant implies.
LEMMA DownloadFacts ==
  ASSUME DownloadInv
  PROVE  /\ Down!TypeOK /\ Down!FileInOrder /\ Down!BoundedMemory
         /\ main = "kept" => genuine = TRUE /\ file = [i \in 1 .. Total |-> i - 1]
         /\ main \in {"kept", "failed"} =>
              \/ wk = [w \in Workers |-> Up!Idle]
              \/ wk = [w \in Workers |-> [pc |-> "exited"]]
<1>1. DownloadTypes /\ DownloadFlow /\ DownloadThreads
  BY DEF DownloadInv
<1>2. /\ IsFiniteSet(Active) /\ Cardinality(Active) \in Nat /\ Cardinality(pending) \in Nat
      /\ Len(jobs) \in Nat /\ Len(results) \in Nat /\ Len(file) \in Nat /\ next \in Nat
      /\ Cardinality(Workers) \in Nat /\ Total \in Nat
  BY <1>1, DownloadCards
<1>3. Len(jobs) + Cardinality(Active) + Len(results) + Cardinality(pending) <= next - Len(file)
      /\ next - Len(file) <= Cardinality(Workers)
  BY <1>1 DEF DownloadFlow
<1>4. Down!TypeOK
  <2>1. Len(file) <= next
    BY ONLY <1>2, <1>3
  <2>. QED
    BY <1>1, <2>1, Widths DEF Down!TypeOK, DownloadTypes
<1>5. ASSUME main = "kept"
      PROVE  genuine = TRUE /\ file = [i \in 1 .. Total |-> i - 1] /\ Len(file) = Total
  <2>1. genuine /\ file = [i \in 1 .. Total |-> i - 1]
    BY <1>1, <1>5 DEF DownloadThreads, Down!HashMatches
  <2>2. genuine = TRUE
    BY <1>1, <2>1 DEF DownloadTypes
  <2>3. Len(file) = Total
    <3>1. DOMAIN file = 1 .. Total
      BY ONLY <2>1
    <3>2. file \in Seq(Down!Index)
      BY <1>1 DEF DownloadTypes
    <3>3. DOMAIN file = 1 .. Len(file)
      BY ONLY <3>2
    <3>. QED
      BY ONLY <1>2, <3>1, <3>3
  <2>. QED
    BY <2>1, <2>2, <2>3
<1>6. Down!FileInOrder
  BY <1>1, <1>5 DEF Down!FileInOrder, DownloadFlow
<1>7. Down!BoundedMemory
  <2> DEFINE M == {w \in Workers : wk[w].pc \in {"publish", "send"}}
  <2>1. M \in SUBSET Active
    BY DEF Active
  <2>2. IsFiniteSet(M) /\ Cardinality(M) <= Cardinality(Active)
    BY <1>2, <2>1, FS_Subset
  <2>3. Cardinality(M) \in Nat
    BY <2>2, FS_CardinalityType
  <2> HIDE DEF M
  <2>4. Cardinality(M) + Len(results) + Cardinality(pending) <= Cardinality(Workers)
    BY ONLY <1>2, <1>3, <2>2, <2>3
  <2>5. Down!Cardinality(M) = Cardinality(M) /\ Down!Cardinality(pending) = Cardinality(pending)
    BY DEF Down!Cardinality, Cardinality
  <2>. QED
    BY <2>4, <2>5, Widths DEF Down!BoundedMemory, M
<1>8. ASSUME main \in {"kept", "failed"}
      PROVE  \/ wk = [w \in Workers |-> Up!Idle]
             \/ wk = [w \in Workers |-> [pc |-> "exited"]]
  BY <1>1, <1>8 DEF DownloadThreads, Up!Idle, Down!Idle
<1>. QED
  BY <1>4, <1>5, <1>6, <1>7, <1>8

-----------------------------------------------------------------------------
(* The agent: one request after the other.                                  *)

AgentInv ==
  /\ agent \in {"line", "upload", "download", "progress", "complete", "ended", "fatal"}
  /\ initialized \in BOOLEAN
  /\ outcome \in {"none", "uploaded", "downloaded", "error"}
  /\ agent = "upload" => UploadInv /\ file = <<>>
  /\ agent = "download" => DownloadInv
  /\ agent \notin {"upload", "download"} => NoCall

\* AgentInv holds in every state.
LEMMA AgentInvariant == Spec => []AgentInv
<1>1. Init => AgentInv
  BY DEF Init, AgentInv
<1>2. AgentInv /\ [Next]_vars => AgentInv'
  <2> SUFFICES ASSUME AgentInv, [Next]_vars
               PROVE  AgentInv'
    OBVIOUS
  <2>1. CASE UNCHANGED vars
    <3>1. UNCHANGED <<agent, initialized, outcome, main, jobs, open, wk, try, missing, length,
                      pos, bad, errors, acked, next, file, pending, results, disk, genuine>>
      BY <2>1 DEF vars, agentVars, pipeline, uploadVars, downloadVars
    <3>2. UploadInv' = UploadInv
      BY <3>1 DEF UploadInv, UploadTypes, UploadFlow, UploadThreads, Exited
    <3>3. DownloadInv' = DownloadInv
      BY <3>1 DEF DownloadInv, DownloadTypes, DownloadFlow, DownloadThreads, Active,
                  Down!HashMatches
    <3>4. NoCall' = NoCall
      BY <3>1 DEF NoCall
    <3>. QED
      BY <3>1, <3>2, <3>3, <3>4 DEF AgentInv
  <2>2. ASSUME agent \notin {"upload", "download"}, agent' \notin {"upload", "download"},
               UNCHANGED pipeline
        PROVE  NoCall'
    <3>1. NoCall
      BY <2>2 DEF AgentInv
    <3>2. NoCall' = NoCall
      BY <2>2 DEF NoCall, pipeline, uploadVars, downloadVars
    <3>. QED
      BY <3>1, <3>2
  <2>3. CASE InitLine \/ BadLine \/ LastLine \/ EmitProgress \/ EmitComplete \/ WriteFails
    <3>1. /\ agent \notin {"upload", "download"} /\ UNCHANGED pipeline
          /\ agent' \in {"line", "fatal", "ended", "complete"}
          /\ initialized' = initialized \/ initialized' = TRUE
          /\ outcome' = outcome \/ outcome' = "none"
      BY <2>3 DEF InitLine, BadLine, LastLine, EmitProgress, EmitComplete, WriteFails
    <3>2. NoCall'
      BY <2>2, <3>1
    <3>. QED
      BY <3>1, <3>2 DEF AgentInv
  <2>4. CASE UploadLine
    <3>1. NoCall
      BY <2>4 DEF UploadLine, AgentInv
    <3>2. /\ agent' = "upload" /\ main' = "begin" /\ length' \in 0 .. Total
          /\ jobs' = <<>> /\ open' = TRUE /\ wk' = [w \in Workers |-> Up!Idle]
          /\ try' = 1 /\ missing' = {} /\ pos' = 0 /\ bad' = FALSE /\ errors' = 0 /\ acked' = {}
          /\ file' = <<>> /\ initialized' = initialized /\ outcome' = outcome
      BY <2>4, <3>1 DEF UploadLine, NoCall, downloadVars
    <3>3. UploadTypes'
      BY <3>2, Widths, AttemptsAssumption, ManifestAssumption, WorkerShapes DEF UploadTypes
    <3>4. UploadFlow'
      BY <3>2, WorkerShapes DEF UploadFlow
    <3>5. Exited' = {}
      BY <3>2, WorkerShapes DEF Exited
    <3>6. UploadThreads'
      <4>1. errors' <= Cardinality(Exited')
        <5>1. Cardinality(Exited') = 0 /\ errors' = 0
          BY ONLY <3>2, <3>5, FS_EmptySet
        <5>. QED
          BY ONLY <5>1
      <4>. QED
        BY <3>2, <3>5, <4>1 DEF UploadThreads
    <3>. QED
      BY <3>2, <3>3, <3>4, <3>6 DEF AgentInv, UploadInv
  <2>5. CASE DownloadLine
    <3>1. NoCall
      BY <2>5 DEF DownloadLine, AgentInv
    <3>2. /\ agent' = "download" /\ main' = "manifest"
          /\ jobs' = <<>> /\ open' = TRUE /\ wk' = [w \in Workers |-> Up!Idle]
          /\ next' = 0 /\ file' = <<>> /\ pending' = {} /\ results' = <<>>
          /\ disk' \in [Digests -> {"absent", "valid", "corrupt"}] /\ genuine' \in BOOLEAN
          /\ initialized' = initialized /\ outcome' = outcome
      BY <2>5, <3>1 DEF DownloadLine, NoCall
    <3>3. Up!Idle = Down!Idle
      BY DEF Up!Idle, Down!Idle
    <3>4. DownloadTypes'
      BY <3>2, <3>3, Widths, ManifestAssumption, DownloadShapes DEF DownloadTypes
    <3>5. Active' = {}
      BY <3>2, WorkerShapes DEF Active
    <3>6. DownloadFlow'
      BY <3>2, <3>5, Widths, FS_EmptySet DEF DownloadFlow
    <3>7. DownloadThreads'
      BY <3>2, <3>3 DEF DownloadThreads
    <3>. QED
      BY <3>2, <3>4, <3>6, <3>7 DEF AgentInv, DownloadInv
  <2>6. CASE Return
    <3>1. NoCall'
      BY <2>6 DEF Return, NoCall
    <3>2. /\ agent' \in {"complete", "progress"} /\ initialized' = initialized
          /\ outcome' \in {"uploaded", "downloaded", "error"}
      BY <2>6 DEF Return, Returned
    <3>. QED
      BY <3>1, <3>2 DEF AgentInv
  <2>7. ASSUME UploadMain \/ \E w \in Workers : UploadWorker(w)
        PROVE  AgentInv'
    <3>1. /\ agent = "upload" /\ UNCHANGED <<agent, initialized, outcome, file>>
      BY <2>7 DEF UploadMain, UploadWorker, agentVars, downloadVars
    <3>2. UploadInv
      BY <3>1 DEF AgentInv
    <3>3. UploadInv'
      BY <2>7, <3>2, UploadMainTypes, UploadMainFlow, UploadMainThreads, UploadWorkerInv
         DEF UploadMain, UploadWorker, UploadInv
    <3>. QED
      BY <3>1, <3>3 DEF AgentInv
  <2>8. ASSUME DownloadMain \/ (\E w \in Workers : DownloadWorker(w))
               \/ \E d \in Digests : OtherProcess(d)
        PROVE  AgentInv'
    <3>1. /\ agent = "download" /\ UNCHANGED <<agent, initialized, outcome>>
      BY <2>8 DEF DownloadMain, DownloadWorker, OtherProcess, agentVars
    <3>2. DownloadInv
      BY <3>1 DEF AgentInv
    <3>3. DownloadInv'
      BY <2>8, <3>2, DownloadMainInv, DownloadWorkerInv, PruneInv
         DEF DownloadMain, DownloadWorker, OtherProcess
    <3>. QED
      BY <3>1, <3>3 DEF AgentInv
  <2>. QED
    BY <2>1, <2>3, <2>4, <2>5, <2>6, <2>7, <2>8 DEF Next, Line, Answer
<1>. QED
  BY <1>1, <1>2, PTL DEF Spec

\* Every variable of the agent and of the active pipeline keeps its type; outside
\* a call nothing of an earlier request is left.
THEOREM AgentTyped == Spec => []TypeOK
<1>1. AgentInv => TypeOK
  BY UploadFacts, DownloadFacts DEF AgentInv, TypeOK
<1>. QED
  BY <1>1, AgentInvariant, PTL

\* Whatever fails and whenever the producer looks for errors, an upload is
\* finalized only when each missing chunk the file yielded is acknowledged.
THEOREM FinalizedIsComplete == Spec => []FinalizeAfterAcks
<1>1. AgentInv => FinalizeAfterAcks
  <2> SUFFICES ASSUME AgentInv
               PROVE  Up!FinalizeAfterAcks
    BY DEF FinalizeAfterAcks
  <2>1. CASE agent = "upload"
    BY <2>1, UploadFacts DEF AgentInv
  <2>2. CASE agent # "upload"
    <3>1. main \notin {"finalize", "done"}
      BY <2>2 DEF AgentInv, DownloadInv, DownloadTypes, NoCall
    <3>. QED
      BY <3>1 DEF Up!FinalizeAfterAcks
  <2>. QED
    BY <2>1, <2>2
<1>. QED
  BY <1>1, AgentInvariant, PTL

\* The chunks are written in the manifest's order, in whatever order the workers
\* complete them, and a file is kept only if it is the whole object.
THEOREM WrittenInOrder == Spec => []FileInOrder
<1>1. AgentInv => FileInOrder
  <2> SUFFICES ASSUME AgentInv
               PROVE  Down!FileInOrder
    BY DEF FileInOrder
  <2>1. CASE agent = "download"
    BY <2>1, DownloadFacts DEF AgentInv
  <2>2. CASE agent # "download"
    <3>1. main # "kept" /\ file = <<>>
      BY <2>2 DEF AgentInv, UploadInv, UploadTypes, NoCall
    <3>. QED
      BY <3>1 DEF Down!FileInOrder
  <2>. QED
    BY <2>1, <2>2
<1>. QED
  BY <1>1, AgentInvariant, PTL

\* However slow one chunk is, a download holds at most as many chunks in memory
\* as it has workers, besides the one it has just written.
THEOREM MemoryIsBounded == Spec => []BoundedMemory
<1>1. AgentInv => BoundedMemory
  BY DownloadFacts DEF AgentInv, BoundedMemory
<1>. QED
  BY <1>1, AgentInvariant, PTL

\* A call, successful or not, leaves no thread of its own behind.
THEOREM NoThreadOutlivesItsCall == Spec => []ThreadsJoined
<1>1. AgentInv => ThreadsJoined
  <2> SUFFICES ASSUME AgentInv, main \in {"done", "kept", "failed"}
               PROVE  /\ \A w \in Workers : wk[w].pc \in {"take", "exited"}
                      /\ \A v, w \in Workers : wk[v] = wk[w]
    BY DEF ThreadsJoined
  <2>1. \/ wk = [w \in Workers |-> Up!Idle]
        \/ wk = [w \in Workers |-> [pc |-> "exited"]]
    <3>1. CASE agent = "upload"
      <4>1. UploadInv /\ main # "kept"
        BY <3>1 DEF AgentInv, UploadInv, UploadTypes
      <4>. QED
        BY <4>1, UploadFacts
    <3>2. CASE agent = "download"
      <4>1. DownloadInv /\ main # "done"
        BY <3>2 DEF AgentInv, DownloadInv, DownloadTypes
      <4>. QED
        BY <4>1, DownloadFacts
    <3>3. CASE agent \notin {"upload", "download"}
      BY <3>3 DEF AgentInv, NoCall
    <3>. QED
      BY <3>1, <3>2, <3>3
  <2>. QED
    BY <2>1 DEF Up!Idle
<1>. QED
  BY <1>1, AgentInvariant, PTL

\* Git LFS is told that a transfer succeeded only when it did, completely, and
\* every request that was begun is answered: a failed object does not end the
\* process.
THEOREM AnswersAreTruthful == Spec => AnswersTruthful
<1> DEFINE A == /\ outcome' = "uploaded" /\ outcome = "none" =>
                     main = "done" /\ acked = missing \cap (0 .. length - 1)
                /\ outcome' = "downloaded" /\ outcome = "none" =>
                     main = "kept" /\ genuine /\ file = [i \in 1 .. Total |-> i - 1]
                /\ agent \in {"upload", "download"} /\ agent' # agent =>
                     agent' \in {"progress", "complete"}
<1>1. AgentInv /\ [Next]_vars => [A]_vars
  <2> SUFFICES ASSUME AgentInv, Next
               PROVE  A
    OBVIOUS
  <2>1. CASE Return
    <3>1. /\ agent \in {"upload", "download"} /\ main \in {"done", "kept", "failed"}
          /\ outcome' = Returned /\ agent' \in {"complete", "progress"}
      BY <2>1 DEF Return
    <3>2. /\ outcome' = "uploaded" => main = "done"
          /\ outcome' = "downloaded" => main = "kept"
      BY <3>1 DEF Returned
    <3>3. ASSUME main = "done"
          PROVE  acked = missing \cap (0 .. length - 1)
      <4>1. agent = "upload"
        BY <3>1, <3>3 DEF AgentInv, DownloadInv, DownloadTypes
      <4>. QED
        BY <3>3, <4>1, UploadFacts DEF AgentInv, Up!FinalizeAfterAcks
    <3>4. ASSUME main = "kept"
          PROVE  genuine /\ file = [i \in 1 .. Total |-> i - 1]
      <4>1. agent = "download"
        BY <3>1, <3>4 DEF AgentInv, UploadInv, UploadTypes
      <4>. QED
        BY <3>4, <4>1, DownloadFacts DEF AgentInv
    <3>. QED
      BY <3>1, <3>2, <3>3, <3>4
  <2>2. CASE ~ Return
    <3>1. \/ outcome' = outcome \/ outcome' = "none"
      BY <2>2 DEF Next, Line, Answer, InitLine, BadLine, LastLine, UploadLine, DownloadLine,
                  EmitProgress, EmitComplete, WriteFails, UploadMain, DownloadMain,
                  UploadWorker, DownloadWorker, OtherProcess, agentVars
    <3>2. agent \in {"upload", "download"} => agent' = agent
      BY <2>2 DEF Next, Line, Answer, InitLine, BadLine, LastLine, UploadLine, DownloadLine,
                  EmitProgress, EmitComplete, WriteFails, UploadMain, DownloadMain,
                  UploadWorker, DownloadWorker, OtherProcess, agentVars
    <3>. QED
      BY <3>1, <3>2
  <2>. QED
    BY <2>1, <2>2
<1>. QED
  BY <1>1, AgentInvariant, PTL DEF Spec, AnswersTruthful
=============================================================================
