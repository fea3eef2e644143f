------------------------------ MODULE UopTracer ------------------------------
(***************************************************************************)
(* MicroOpVerboseTracer, cpu/uop_tracer.{hh,cc}: CPUs on several simulator *)
(* threads share a tracer that counts records, collects them in a buffer   *)
(* under bufferMutex and writes the buffer out when it is full and at exit.*)
(* A record is its thread and its number; an entry has size 1.  The two    *)
(* reasons to drop a record have one counter.                              *)
(***************************************************************************)
EXTENDS Integers, Sequences, FiniteSets

CONSTANTS Thread,
          bufferLimit, \* buffer_size, in entries; 0 writes every entry out
          MaxRecords   \* bound: instructions a thread traces

ASSUME ThreadAssumption == IsFiniteSet(Thread)
ASSUME SizeAssumption == bufferLimit \in Nat /\ MaxRecords \in Nat

VARIABLES
  recordRequests, recordsWritten, droppedNoInst, \* the atomic counters
  buffer, stream, \* sequences of records
  pc,             \* per thread: in the simulated CPU, or in writeRecord()
  num,            \* per thread: number of its current record
  over,           \* "no", "flushed", "reported": the exit callback
  report          \* what the exit callback printed

vars == <<recordRequests, recordsWritten, droppedNoInst, buffer, stream, pc, num,
          over, report>>

Record == [thread : Thread, n : 1..MaxRecords]
NoReport == [requests |-> 0, written |-> 0, dropped |-> 0]

TypeOK ==
  /\ recordRequests \in Nat /\ recordsWritten \in Nat /\ droppedNoInst \in Nat
  /\ buffer \in Seq(Record)
  /\ stream \in Seq(Record)
  /\ pc \in [Thread -> {"cpu", "record", "append"}]
  /\ num \in [Thread -> 0..MaxRecords]
  /\ over \in {"no", "flushed", "reported"}

Init ==
  /\ recordRequests = 0 /\ recordsWritten = 0 /\ droppedNoInst = 0
  /\ buffer = <<>> /\ stream = <<>>
  /\ pc = [t \in Thread |-> "cpu"]
  /\ num = [t \in Thread |-> 0]
  /\ over = "no"
  /\ report = NoReport

counters == <<recordRequests, recordsWritten, droppedNoInst>>

\* getInstRecord(): the instruction may later be squashed and never dumped.
getInstRecord(t) ==
  /\ over = "no" /\ pc[t] = "cpu" /\ num[t] < MaxRecords
  /\ recordRequests' = recordRequests + 1
  /\ num' = [num EXCEPT ![t] = @ + 1]
  /\ pc' = [pc EXCEPT ![t] = "record"]
  /\ UNCHANGED <<recordsWritten, droppedNoInst, buffer, stream, over, report>>

Squash(t) ==
  /\ pc[t] = "record"
  /\ pc' = [pc EXCEPT ![t] = "cpu"]
  /\ UNCHANGED <<counters, buffer, stream, num, over, report>>

\* writeRecord() up to append(): a record with no thread or no instruction is
\* dropped and counted; the others are counted before they are appended.
writeRecord(t) ==
  /\ pc[t] = "record"
  /\ \/ /\ recordsWritten' = recordsWritten + 1
        /\ pc' = [pc EXCEPT ![t] = "append"]
        /\ UNCHANGED droppedNoInst
     \/ /\ droppedNoInst' = droppedNoInst + 1
        /\ pc' = [pc EXCEPT ![t] = "cpu"]
        /\ UNCHANGED recordsWritten
  /\ UNCHANGED <<recordRequests, buffer, stream, num, over, report>>

\* Mutant of append: the full buffer replaces the entry that does not fit.
appendLosesEntry(t) ==
  /\ pc[t] = "append"
  /\ IF bufferLimit = 0 \/ Len(buffer) + 1 >= bufferLimit
       THEN stream' = stream \o buffer /\ buffer' = <<>>
       ELSE buffer' = Append(buffer, [thread |-> t, n |-> num[t]]) /\ UNCHANGED stream
  /\ pc' = [pc EXCEPT ![t] = "cpu"]
  /\ UNCHANGED <<counters, num, over, report>>

\* Mutant of append: the entry is written ahead of the full buffer.
appendEntryFirst(t) ==
  LET entry == <<[thread |-> t, n |-> num[t]]>>
  IN  /\ pc[t] = "append"
      /\ IF bufferLimit = 0 \/ Len(buffer) + 1 >= bufferLimit
           THEN stream' = stream \o entry \o buffer /\ buffer' = <<>>
           ELSE buffer' = buffer \o entry /\ UNCHANGED stream
      /\ pc' = [pc EXCEPT ![t] = "cpu"]
      /\ UNCHANGED <<counters, num, over, report>>

\* append(), under bufferMutex.
append(t) ==
  LET b == Append(buffer, [thread |-> t, n |-> num[t]])
  IN  /\ pc[t] = "append"
      /\ IF bufferLimit = 0 \/ Len(b) >= bufferLimit
           THEN stream' = stream \o b /\ buffer' = <<>>
           ELSE buffer' = b /\ UNCHANGED stream
      /\ pc' = [pc EXCEPT ![t] = "cpu"]
      /\ UNCHANGED <<counters, num, over, report>>

\* The exit callback, run once the simulator threads have stopped: flush()
\* and then the message with the counters.
flush ==
  /\ over = "no" /\ \A t \in Thread : pc[t] = "cpu"
  /\ stream' = stream \o buffer
  /\ buffer' = <<>>
  /\ over' = "flushed"
  /\ UNCHANGED <<counters, pc, num, report>>

inform ==
  /\ over = "flushed"
  /\ report' = [requests |-> recordRequests, written |-> recordsWritten,
                dropped |-> droppedNoInst]
  /\ over' = "reported"
  /\ UNCHANGED <<counters, buffer, stream, pc, num>>

Next ==
  \/ \E t \in Thread : \/ getInstRecord(t) \/ Squash(t) \/ writeRecord(t) \/ append(t)
  \/ flush \/ inform

Spec == Init /\ [][Next]_vars

-----------------------------------------------------------------------------
\* What a thread has appended is in the file and the buffer in program order,
\* without repetition, whatever the interleaving and the flushes.
ProgramOrder ==
  LET out == stream \o buffer
  IN  \A i, j \in 1..Len(out) :
        i < j /\ out[i].thread = out[j].thread => out[i].n < out[j].n

\* Every record counted as written is in the file, in the buffer, or about to
\* be appended by its thread; the buffer stays below its limit.  The message of
\* the exit callback is therefore true: as many records are in the file as it
\* says, and no more were written or dropped than requested.
NothingLost ==
  /\ recordsWritten = Len(stream) + Len(buffer)
                        + Cardinality({t \in Thread : pc[t] = "append"})
  /\ Len(buffer) < bufferLimit \/ buffer = <<>>
  /\ over = "reported" => /\ report.written = Len(stream)
                          /\ report.written + report.dropped <= report.requests

=============================================================================
