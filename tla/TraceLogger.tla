----------------------------- MODULE TraceLogger -----------------------------
(***************************************************************************)
(* The runtime of the basic-block tracer,                                  *)
(* perfvec/block_trace/tracer/runtime/trace_logger.cpp: instrumented       *)
(* threads number their events with an atomic counter and write each as a  *)
(* line of the JSONL file, the text and the newline with a write() each,   *)
(* under a mutex.  The JSON text is abstracted to the event's number.      *)
(***************************************************************************)
EXTENDS Integers, Sequences

CONSTANTS Thread,
          MaxEvents \* bound: events a thread produces

VARIABLES
  sequence, \* sequence_
  mu,       \* the holder of mu_, or {}
  open,     \* fd_ >= 0
  file,     \* what has been written: event numbers, and -1 for a newline
  pc, seq,  \* per thread: where it is, and the number of its event
  made,     \* per thread: the numbers its events were given, in order
  dropped   \* the numbers of events that found the file closed

vars == <<sequence, mu, open, file, pc, seq, made, dropped>>

Newline == -1

TypeOK ==
  /\ sequence \in Nat
  /\ mu \in SUBSET Thread
  /\ open \in BOOLEAN
  /\ file \in Seq(Nat \cup {Newline})
  /\ pc \in [Thread -> {"run", "log", "text", "newline", "close"}]
  /\ seq \in [Thread -> Nat]
  /\ made \in [Thread -> Seq(Nat)]
  /\ dropped \in SUBSET Nat

Init ==
  /\ sequence = 0
  /\ mu = {}
  /\ open = TRUE
  /\ file = <<>>
  /\ pc = [t \in Thread |-> "run"]
  /\ seq = [t \in Thread |-> 0]
  /\ made = [t \in Thread |-> <<>>]
  /\ dropped = {}

\* Mutant of next_sequence: the counter is read and not advanced.
next_sequencePeeks(t) ==
  /\ seq' = [seq EXCEPT ![t] = sequence]
  /\ UNCHANGED sequence

\* sequence_.fetch_add(1).
next_sequence(t) ==
  /\ seq' = [seq EXCEPT ![t] = sequence]
  /\ sequence' = sequence + 1

\* A hook (__bbtrace_on_basic_block and the like) numbers its event.
Hook(t) ==
  /\ pc[t] = "run" /\ Len(made[t]) < MaxEvents
  /\ next_sequence(t)
  /\ made' = [made EXCEPT ![t] = Append(@, seq'[t])]
  /\ pc' = [pc EXCEPT ![t] = "log"]
  /\ UNCHANGED <<mu, open, file, dropped>>

\* Mutant of log: an event that finds the mutex taken is dropped.
logTryLock(t) ==
  /\ pc[t] = "log"
  /\ IF open /\ mu = {}
       THEN pc' = [pc EXCEPT ![t] = "text"] /\ mu' = {t} /\ UNCHANGED dropped
       ELSE /\ pc' = [pc EXCEPT ![t] = "run"]
            /\ dropped' = dropped \cup {seq[t]}
            /\ UNCHANGED mu
  /\ UNCHANGED <<sequence, open, file, seq, made>>

\* log(): takes the mutex and returns at once when the file is closed.
log(t) ==
  /\ pc[t] = "log" /\ mu = {}
  /\ IF open
       THEN pc' = [pc EXCEPT ![t] = "text"] /\ mu' = {t} /\ UNCHANGED dropped
       ELSE /\ pc' = [pc EXCEPT ![t] = "run"]
            /\ dropped' = dropped \cup {seq[t]}
            /\ UNCHANGED mu
  /\ UNCHANGED <<sequence, open, file, seq, made>>

writeText(t) ==
  /\ pc[t] = "text"
  /\ file' = Append(file, seq[t])
  /\ pc' = [pc EXCEPT ![t] = "newline"]
  /\ UNCHANGED <<sequence, mu, open, seq, made, dropped>>

writeNewline(t) ==
  /\ pc[t] = "newline"
  /\ file' = Append(file, Newline)
  /\ pc' = [pc EXCEPT ![t] = "run"]
  /\ mu' = mu \ {t}
  /\ UNCHANGED <<sequence, open, seq, made, dropped>>

\* __bbtrace_finalize() is called between two events of a thread.
finalize(t) ==
  /\ pc[t] = "run" /\ open
  /\ pc' = [pc EXCEPT ![t] = "close"]
  /\ UNCHANGED <<sequence, mu, open, file, seq, made, dropped>>

flush_and_close(t) ==
  /\ pc[t] = "close" /\ mu = {}
  /\ open' = FALSE
  /\ pc' = [pc EXCEPT ![t] = "run"]
  /\ UNCHANGED <<sequence, mu, file, seq, made, dropped>>

Step(t) ==
  log(t) \/ writeText(t) \/ writeNewline(t) \/ flush_and_close(t)

Next == \E t \in Thread : Step(t) \/ Hook(t) \/ finalize(t)

Spec == Init /\ [][Next]_vars

-----------------------------------------------------------------------------
Written == {file[i] : i \in 1..Len(file)} \ {Newline}
InHand == {seq[t] : t \in {u \in Thread : pc[u] \in {"log", "text"}}}

\* Every number the counter has given out is on exactly one line, in the hands
\* of one thread, or dropped because the file was closed (next_sequence, log).
\* The lines are whole: a text is followed by its newline before the next text,
\* though they are two write() calls of concurrent threads.
EachEventOnce ==
  /\ \A i \in 1..Len(file) : (file[i] = Newline) <=> (i % 2 = 0)
  /\ Written \cup InHand \cup dropped = 0..(sequence - 1)
  /\ Written \cap InHand = {} /\ Written \cap dropped = {} /\ InHand \cap dropped = {}
  /\ \A i, j \in 1..Len(file) : file[i] = file[j] /\ file[i] # Newline => i = j

\* The lines of one thread are in the order of its events, and those it lost
\* are its last: the trace of a thread is a prefix of what it did.
ThreadTraceIsPrefix ==
  \A t \in Thread : \A i, j \in 1..Len(made[t]) :
    i < j /\ made[t][j] \in Written =>
      \E a, b \in 1..Len(file) : a < b /\ file[a] = made[t][i] /\ file[b] = made[t][j]

=============================================================================
