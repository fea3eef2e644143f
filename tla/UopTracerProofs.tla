--------------------------- MODULE UopTracerProofs ---------------------------
(***************************************************************************)
(* The micro-op tracer of cpu/uop_tracer.cc loses no record, keeps the     *)
(* program order of every CPU and prints true totals at exit, for every    *)
(* number of threads and records and every size of the buffer.             *)
(***************************************************************************)
EXTENDS UopTracer, FiniteSetTheorems, SequenceTheorems, TLAPS

At(where) == {t \in Thread : pc[t] = where}

out == stream \o buffer

(***************************************************************************)
(* The counters are advanced before the buffer is locked, so they are      *)
(* ahead of it by the threads that are inside writeRecord().               *)
(***************************************************************************)
Counted ==
  /\ recordsWritten = Len(stream) + Len(buffer) + Cardinality(At("append"))
  /\ recordsWritten + droppedNoInst + Cardinality(At("record")) <= recordRequests

\* The buffer is below its limit whenever bufferMutex is free.
Bounded == Len(buffer) < bufferLimit \/ buffer = <<>>

\* After flush() of the exit callback nothing changes any more.
Ended ==
  /\ over # "no" => buffer = <<>> /\ \A t \in Thread : pc[t] = "cpu"
  /\ over = "reported" =>
       report = [requests |-> recordRequests, written |-> recordsWritten,
                 dropped |-> droppedNoInst]

(***************************************************************************)
(* What a thread has put out is older than the record it works on; without *)
(* this, ProgramOrder says nothing about the next append().                *)
(***************************************************************************)
Older ==
  \A i \in 1..Len(out) :
    /\ out[i].n <= num[out[i].thread]
    /\ pc[out[i].thread] # "cpu" => out[i].n < num[out[i].thread]

\* A thread inside the tracer works on a record.
Numbered == \A t \in Thread : pc[t] # "cpu" => num[t] >= 1

Inv == TypeOK /\ Numbered /\ Counted /\ Bounded /\ Ended /\ Older /\ ProgramOrder

-----------------------------------------------------------------------------
\* Arithmetic of the counters when a record is requested, written or dropped.
LEMMA Balance ==
  ASSUME NEW w \in Nat, NEW d \in Nat, NEW r \in Nat, NEW q \in Nat, w + d + r <= q
  PROVE  /\ w + d + (r + 1) <= q + 1 /\ (w + 1) + d + (r - 1) <= q
         /\ w + (d + 1) + (r - 1) <= q
  OBVIOUS

\* Threads at one place are finitely many; how their number changes when one
\* arrives or leaves (the atomic increments of writeRecord()).
LEMMA AtFinite ==
  ASSUME NEW where PROVE IsFiniteSet(At(where)) /\ Cardinality(At(where)) \in Nat
<1>1. At(where) \in SUBSET Thread
  BY DEF At
<1> QED
  BY <1>1, ThreadAssumption, FS_Subset, FS_CardinalityType

\* How the numbers of threads at each place change when t moves.
LEMMA Moves ==
  ASSUME pc \in [Thread -> {"cpu", "record", "append"}],
         NEW t \in Thread, NEW from, NEW to \in {"cpu", "record", "append"},
         pc[t] = from, from # to, pc' = [pc EXCEPT ![t] = to]
  PROVE  /\ Cardinality(At(to)') = Cardinality(At(to)) + 1
         /\ Cardinality(At(from)') = Cardinality(At(from)) - 1
         /\ \A other : other \notin {from, to} => At(other)' = At(other)
<1>1. At(to)' = At(to) \cup {t} /\ t \notin At(to)
  BY DEF At
<1>2. At(from)' = At(from) \ {t} /\ t \in At(from)
  BY DEF At
<1>3. \A other : other \notin {from, to} => At(other)' = At(other)
  BY DEF At
<1>4. Cardinality(At(to) \cup {t}) = Cardinality(At(to)) + 1
  BY <1>1, AtFinite, FS_AddElement
<1>5. Cardinality(At(from) \ {t}) = Cardinality(At(from)) - 1
  BY <1>2, AtFinite, FS_RemoveElement
<1> QED
  BY <1>1, <1>2, <1>3, <1>4, <1>5

\* stream and buffer together grow at the end and nowhere else, whether
\* append() flushes or not; flush() leaves them as they are.
LEMMA OutGrows ==
  ASSUME TypeOK, NEW t \in Thread, pc[t] = "append", append(t), num[t] >= 1
  PROVE  /\ out' = Append(out, [thread |-> t, n |-> num[t]])
         /\ stream' \in Seq(Record) /\ buffer' \in Seq(Record)
         /\ Len(stream') + Len(buffer') = Len(stream) + Len(buffer) + 1
         /\ Len(buffer') < bufferLimit \/ buffer' = <<>>
<1> DEFINE r == [thread |-> t, n |-> num[t]]
           b == Append(buffer, r)
<1>1. r \in Record
  BY DEF TypeOK, Record
<1>2. stream \in Seq(Record) /\ buffer \in Seq(Record) /\ b \in Seq(Record)
  BY <1>1, AppendProperties DEF TypeOK
<1>3. stream \o b = Append(out, r)
  <2>1. b = buffer \o <<r>> /\ Append(stream \o buffer, r) = (stream \o buffer) \o <<r>>
    BY <1>1, <1>2, AppendIsConcat, ConcatProperties
  <2>2. <<r>> \in Seq(Record)
    BY <1>1
  <2>3. (stream \o buffer) \o <<r>> = stream \o (buffer \o <<r>>)
    BY <1>2, <2>2, ConcatAssociative
  <2> QED
    BY <2>1, <2>3 DEF out
<1>4. Len(b) = Len(buffer) + 1 /\ Len(stream \o b) = Len(stream) + Len(b)
  BY <1>1, <1>2, AppendProperties, ConcatProperties
<1>5. stream \o b \in Seq(Record) /\ (stream \o b) \o <<>> = stream \o b
  BY <1>2, ConcatProperties, ConcatEmptySeq
<1>6. CASE bufferLimit = 0 \/ Len(b) >= bufferLimit
  <2>1. stream' = stream \o b /\ buffer' = <<>>
    BY <1>6 DEF append
  <2> QED
    BY <2>1, <1>2, <1>3, <1>4, <1>5 DEF out
<1>7. CASE ~(bufferLimit = 0 \/ Len(b) >= bufferLimit)
  <2>1. stream' = stream /\ buffer' = b
    BY <1>7 DEF append
  <2> QED
    BY <2>1, <1>2, <1>3, <1>4, <1>7, SizeAssumption DEF out
<1> QED
  BY <1>6, <1>7

-----------------------------------------------------------------------------
\* The tracer starts with zero counters and an empty buffer.
LEMMA InitInv == Init => Inv
<1> SUFFICES ASSUME Init PROVE Inv
  OBVIOUS
<1>1. At("append") = {} /\ At("record") = {}
  BY DEF Init, At
<1>2. out = <<>>
  BY DEF Init, out
<1>3. TypeOK /\ Numbered /\ Bounded /\ Ended
  BY SizeAssumption DEF Init, TypeOK, Numbered, Bounded, Ended
<1>4. Counted
  <2>1. Cardinality(At("append")) = 0 /\ Cardinality(At("record")) = 0
    BY <1>1, FS_EmptySet
  <2> QED
    BY <2>1 DEF Init, Counted
<1>5. Older /\ ProgramOrder
  BY <1>2 DEF Older, ProgramOrder, out
<1> QED
  BY <1>3, <1>4, <1>5 DEF Inv

\* What the file and the buffer hold are records.
LEMMA OutTyped ==
  ASSUME TypeOK
  PROVE  /\ out \in Seq(Record) /\ Len(out) \in Nat
         /\ \A i \in 1..Len(out) : out[i].thread \in Thread /\ out[i].n \in Nat
<1>1. out \in Seq(Record)
  BY ConcatProperties DEF TypeOK, out
<1>2. \A i \in 1..Len(out) : out[i] \in Record
  BY <1>1, ElementOfSeq
<1>3. \A r \in Record : r.thread \in Thread /\ r.n \in Nat
  BY SizeAssumption DEF Record
<1> QED
  BY <1>1, <1>2, <1>3, LenProperties

\* A step that leaves the output alone, and takes no thread out of its record
\* backwards, keeps what Older and ProgramOrder say of it.
LEMMA OutUnchanged ==
  ASSUME TypeOK, Older, ProgramOrder, out' = out,
         num' \in [Thread -> Nat],
         \A t \in Thread : \/ num'[t] = num[t] /\ (pc'[t] # "cpu" => pc[t] # "cpu")
                           \/ num'[t] = num[t] + 1
  PROVE  Older' /\ ProgramOrder'
<1>2. \A i \in 1..Len(out) : out[i].thread \in Thread /\ out[i].n \in Nat
  BY OutTyped
<1>3. ProgramOrder'
  BY Zenon DEF ProgramOrder, out
<1>4. Older'
  <2> SUFFICES ASSUME NEW i \in 1..Len(out)
               PROVE  /\ out[i].n <= num'[out[i].thread]
                      /\ pc'[out[i].thread] # "cpu" => out[i].n < num'[out[i].thread]
    BY DEF Older
  <2> DEFINE t == out[i].thread
  <2>1. t \in Thread /\ out[i].n \in Nat /\ num[t] \in Nat /\ num'[t] \in Nat
    BY <1>2 DEF TypeOK
  <2>2. out[i].n <= num[t] /\ (pc[t] # "cpu" => out[i].n < num[t])
    BY DEF Older
  <2> QED
    BY <2>1, <2>2
<1> QED
  BY <1>3, <1>4

\* Every step of a CPU thread and of the exit callback keeps Inv.
LEMMA NextInv == Inv /\ [Next]_vars => Inv'
<1> SUFFICES ASSUME Inv, [Next]_vars PROVE Inv'
  OBVIOUS
<1> USE DEF Inv
<1>0. /\ recordRequests \in Nat /\ recordsWritten \in Nat /\ droppedNoInst \in Nat
      /\ Cardinality(At("append")) \in Nat /\ Cardinality(At("record")) \in Nat
      /\ Len(stream) \in Nat /\ Len(buffer) \in Nat
  BY AtFinite, LenProperties DEF TypeOK
<1>1. ASSUME NEW t \in Thread, getInstRecord(t) PROVE Inv'
  <2>1. /\ Cardinality(At("record")') = Cardinality(At("record")) + 1
        /\ At("append")' = At("append")
    BY <1>1, Moves, Zenon DEF getInstRecord, TypeOK
  <2>2. TypeOK' /\ Numbered' /\ Bounded' /\ Ended'
    BY <1>1, SizeAssumption DEF getInstRecord, TypeOK, Numbered, Bounded, Ended
  <2>3. Counted'
    <3>1. /\ recordRequests' = recordRequests + 1 /\ recordsWritten' = recordsWritten
          /\ droppedNoInst' = droppedNoInst /\ stream' = stream /\ buffer' = buffer
      BY <1>1 DEF getInstRecord
    <3>2. Cardinality(At("append")') = Cardinality(At("append"))
      BY <2>1
    <3>3. /\ recordsWritten = Len(stream) + Len(buffer) + Cardinality(At("append"))
          /\ recordsWritten + droppedNoInst + Cardinality(At("record")) <= recordRequests
      BY DEF Counted
    <3>4. recordsWritten' = Len(stream') + Len(buffer') + Cardinality(At("append")')
      BY <3>1, <3>2, <3>3
    <3>5. recordsWritten' + droppedNoInst' + Cardinality(At("record")') <= recordRequests'
      BY <1>0, <2>1, <3>1, <3>3, Balance, Zenon
    <3> QED
      BY <3>4, <3>5 DEF Counted
  <2>4. Older' /\ ProgramOrder'
    BY <1>1, <2>2, OutUnchanged DEF getInstRecord, TypeOK, out
  <2> QED
    BY <2>2, <2>3, <2>4
<1>2. ASSUME NEW t \in Thread, Squash(t) PROVE Inv'
  <2>1. /\ Cardinality(At("record")') = Cardinality(At("record")) - 1
        /\ At("append")' = At("append")
    BY <1>2, Moves, Zenon DEF Squash, TypeOK
  <2>2. TypeOK' /\ Numbered' /\ Bounded' /\ Ended'
    BY <1>2 DEF Squash, counters, TypeOK, Numbered, Bounded, Ended
  <2>3. Counted'
    BY <1>0, <1>2, <2>1 DEF Squash, counters, Counted
  <2>4. Older' /\ ProgramOrder'
    BY <1>2, <2>2, OutUnchanged DEF Squash, counters, TypeOK, out
  <2> QED
    BY <2>2, <2>3, <2>4
<1>3. ASSUME NEW t \in Thread, writeRecord(t) PROVE Inv'
  <2>0. /\ pc[t] = "record"
        /\ pc' = [pc EXCEPT ![t] = "append"] \/ pc' = [pc EXCEPT ![t] = "cpu"]
        /\ recordsWritten' \in Nat /\ droppedNoInst' \in Nat
        /\ recordRequests' = recordRequests /\ buffer' = buffer /\ stream' = stream
        /\ num' = num /\ over' = over /\ report' = report
    BY <1>0, <1>3 DEF writeRecord
  <2>1. TypeOK' /\ Numbered' /\ Bounded' /\ Ended'
    BY <2>0 DEF TypeOK, Numbered, Bounded, Ended
  <2>2. Counted'
    <3>1. CASE pc' = [pc EXCEPT ![t] = "append"]
      <4>1. /\ Cardinality(At("record")') = Cardinality(At("record")) - 1
            /\ Cardinality(At("append")') = Cardinality(At("append")) + 1
        BY <1>3, <3>1, Moves, Zenon DEF writeRecord, TypeOK
      <4>2. recordsWritten' = recordsWritten + 1 /\ droppedNoInst' = droppedNoInst
        BY <1>3, <3>1 DEF writeRecord, TypeOK
      <4>3. recordsWritten' = Len(stream') + Len(buffer') + Cardinality(At("append")')
        BY <1>0, <2>0, <4>1, <4>2 DEF Counted
      <4>4. recordsWritten' + droppedNoInst' + Cardinality(At("record")') <= recordRequests'
        BY <1>0, <2>0, <4>1, <4>2, Balance DEF Counted
      <4> QED
        BY <4>3, <4>4 DEF Counted
    <3>2. CASE pc' = [pc EXCEPT ![t] = "cpu"]
      <4>1. /\ Cardinality(At("record")') = Cardinality(At("record")) - 1
            /\ At("append")' = At("append")
        BY <1>3, <3>2, Moves, Zenon DEF writeRecord, TypeOK
      <4>2. recordsWritten' = recordsWritten /\ droppedNoInst' = droppedNoInst + 1
        BY <1>3, <3>2 DEF writeRecord, TypeOK
      <4> QED
        BY <1>0, <2>0, <4>1, <4>2, Balance DEF Counted
    <3> QED
      BY <1>3, <3>1, <3>2 DEF writeRecord
  <2>3. Older' /\ ProgramOrder'
    BY <2>0, <2>1, OutUnchanged DEF TypeOK, out
  <2> QED
    BY <2>1, <2>2, <2>3
<1>4. ASSUME NEW t \in Thread, append(t) PROVE Inv'
  <2> DEFINE r == [thread |-> t, n |-> num[t]]
  <2>0. pc[t] = "append" /\ num[t] >= 1 /\ pc' = [pc EXCEPT ![t] = "cpu"]
    BY <1>4 DEF append, Numbered
  <2>1. /\ out' = Append(out, r)
        /\ stream' \in Seq(Record) /\ buffer' \in Seq(Record)
        /\ Len(stream') + Len(buffer') = Len(stream) + Len(buffer) + 1
        /\ Len(buffer') < bufferLimit \/ buffer' = <<>>
    BY <1>4, <2>0, OutGrows
  <2>2. /\ Cardinality(At("append")') = Cardinality(At("append")) - 1
        /\ At("record")' = At("record")
    BY <2>0, Moves, Zenon DEF TypeOK
  <2>3. TypeOK' /\ Numbered' /\ Bounded' /\ Ended'
    BY <1>4, <2>0, <2>1 DEF append, counters, TypeOK, Numbered, Bounded, Ended
  <2>4. Counted'
    <3>1. Len(stream') \in Nat /\ Len(buffer') \in Nat
      BY <2>1, LenProperties
    <3>2. /\ recordRequests' = recordRequests /\ recordsWritten' = recordsWritten
          /\ droppedNoInst' = droppedNoInst
      BY <1>4 DEF append, counters
    <3>3. /\ recordsWritten' = Len(stream') + Len(buffer') + Cardinality(At("append")')
          /\ recordsWritten' + droppedNoInst' + Cardinality(At("record")') <= recordRequests'
      BY <1>0, <2>1, <2>2, <3>1, <3>2 DEF Counted
    <3> QED
      BY <3>3, Zenon DEF Counted
  <2>5. r \in Record /\ out \in Seq(Record)
    BY <2>0, OutTyped DEF TypeOK, Record
  <2>6. /\ Len(out') = Len(out) + 1 /\ Len(out) \in Nat
        /\ \A i \in 1..Len(out) : out'[i] = out[i]
        /\ out'[Len(out) + 1] = r
    BY <2>1, <2>5, AppendProperties, LenProperties
  <2>7. \A i \in 1..Len(out) : out[i].thread \in Thread /\ out[i].n \in Nat
    BY OutTyped
  <2>8. num' = num /\ num[t] \in Nat
    BY <1>4 DEF append, TypeOK
  <2>9. Older'
    <3> SUFFICES ASSUME NEW i \in 1..Len(out')
                 PROVE  /\ out'[i].n <= num'[out'[i].thread]
                        /\ pc'[out'[i].thread] # "cpu" => out'[i].n < num'[out'[i].thread]
      BY DEF Older
    <3>1. CASE i = Len(out) + 1
      BY <2>0, <2>6, <2>8, <3>1 DEF TypeOK
    <3>2. CASE i \in 1..Len(out)
      BY <2>0, <2>6, <2>7, <2>8, <3>2 DEF Older, TypeOK
    <3> QED
      BY <2>6, <3>1, <3>2
  <2>10. ProgramOrder'
    <3> SUFFICES ASSUME NEW i \in 1..Len(out'), NEW j \in 1..Len(out'), i < j,
                        out'[i].thread = out'[j].thread
                 PROVE  out'[i].n < out'[j].n
      BY DEF ProgramOrder, out
    <3>1. i \in 1..Len(out)
      BY <2>6
    <3>2. CASE j = Len(out) + 1
      BY <2>0, <2>6, <3>1, <3>2 DEF Older
    <3>3. CASE j \in 1..Len(out)
      BY <2>6, <3>1, <3>3, Zenon DEF ProgramOrder, out
    <3> QED
      BY <2>6, <3>2, <3>3
  <2> QED
    BY <2>3, <2>4, <2>9, <2>10
<1>5. CASE flush
  <2>1. stream \o buffer \in Seq(Record) /\ Len(stream \o buffer) = Len(stream) + Len(buffer)
    BY ConcatProperties DEF TypeOK
  <2>2. out' = out
    BY <1>5, <2>1, ConcatEmptySeq DEF flush, out
  <2>3. TypeOK' /\ Numbered' /\ Bounded' /\ Ended'
    BY <1>5, <2>1 DEF flush, counters, TypeOK, Numbered, Bounded, Ended
  <2>4. Counted'
    <3>1. At("append")' = At("append") /\ At("record")' = At("record")
      BY <1>5 DEF flush, At
    <3>2. Len(buffer') = 0
      BY <1>5 DEF flush
    <3> QED
      BY <1>0, <1>5, <2>1, <3>1, <3>2 DEF flush, counters, Counted
  <2>5. Older' /\ ProgramOrder'
    BY <1>5, <2>2, <2>3, OutUnchanged DEF flush, TypeOK
  <2> QED
    BY <2>3, <2>4, <2>5
<1>6. CASE inform
  <2>1. TypeOK' /\ Numbered' /\ Bounded' /\ Ended'
    BY <1>6 DEF inform, counters, TypeOK, Numbered, Bounded, Ended
  <2>2. Counted'
    BY <1>6 DEF inform, counters, Counted, At
  <2>3. Older' /\ ProgramOrder'
    BY <1>6, <2>1, OutUnchanged DEF inform, TypeOK, out
  <2> QED
    BY <2>1, <2>2, <2>3
<1>7. CASE UNCHANGED vars
  <2>1. TypeOK' /\ Numbered' /\ Bounded' /\ Ended'
    BY <1>7 DEF vars, TypeOK, Numbered, Bounded, Ended
  <2>2. Counted'
    BY <1>7 DEF vars, Counted, At
  <2>3. Older' /\ ProgramOrder'
    BY <1>7, <2>1, OutUnchanged DEF vars, TypeOK, out
  <2> QED
    BY <2>1, <2>2, <2>3
<1> QED
  BY <1>1, <1>2, <1>3, <1>4, <1>5, <1>6, <1>7 DEF Next

\* The inductive invariant holds in every reachable state.
LEMMA Invariance == Spec => []Inv
BY InitInv, NextInv, PTL DEF Spec

(***************************************************************************)
(* No record counted by writeRecord() is lost by append() and flush(), the *)
(* buffer keeps its limit, and the exit message tells the truth.           *)
(***************************************************************************)
THEOREM RecordsKept == Spec => []NothingLost
<1>1. Inv => NothingLost
  <2> SUFFICES ASSUME Inv PROVE NothingLost
    OBVIOUS
  <2>1. recordsWritten = Len(stream) + Len(buffer)
                           + Cardinality({t \in Thread : pc[t] = "append"})
    BY DEF Inv, Counted, At
  <2>2. ASSUME over = "reported"
        PROVE  report.written = Len(stream) /\ report.written + report.dropped <= report.requests
    <3>1. At("append") = {} /\ At("record") = {} /\ buffer = <<>>
      BY <2>2 DEF Inv, Ended, At
    <3>2. Cardinality(At("append")) = 0 /\ Cardinality(At("record")) = 0 /\ Len(buffer) = 0
      BY <3>1, FS_EmptySet
    <3>3. Len(stream) \in Nat
      BY LenProperties DEF Inv, TypeOK
    <3> QED
      BY <2>2, <3>2, <3>3 DEF Inv, TypeOK, Counted, Ended
  <2> QED
    BY <2>1, <2>2 DEF NothingLost, Inv, Bounded
<1> QED
  BY <1>1, Invariance, PTL

(***************************************************************************)
(* The records of one thread are in the file and the buffer in the order   *)
(* of its instructions, each at most once, whatever append() and flush()   *)
(* of other threads do in between.                                         *)
(***************************************************************************)
THEOREM OrderKept == Spec => []ProgramOrder
<1>1. Inv => ProgramOrder
  BY DEF Inv
<1> QED
  BY <1>1, Invariance, PTL
=============================================================================
