-------------------------- MODULE TraceLoggerProofs --------------------------
(***************************************************************************)
(* The runtime of the basic-block tracer writes every numbered event on a  *)
(* line of its own at most once and loses only the last events of a        *)
(* thread, for every set of threads and every number of events.            *)
(***************************************************************************)
EXTENDS TraceLogger, SequenceTheorems, TLAPS

\* A thread is inside log() and its event is not in the file yet.
busy(t) == pc[t] \in {"log", "text"}

(***************************************************************************)
(* mu_ is held between the two write() calls, by one thread, and by nobody *)
(* once the file is closed; only a closed file drops events.               *)
(***************************************************************************)
Locked ==
  /\ \A t \in Thread : pc[t] \in {"text", "newline"} <=> t \in mu
  /\ \A t, u \in mu : t = u
  /\ ~open => mu = {}
  /\ dropped # {} => ~open

\* The file ends inside a line only while a thread is between the two writes.
Lines ==
  /\ \A t \in Thread : pc[t] = "newline" => Len(file) % 2 = 1
  /\ Len(file) % 2 = 1 => \E t \in Thread : pc[t] = "newline"

\* Threads in log() hold different numbers.
Distinct == \A t, u \in Thread : busy(t) /\ busy(u) /\ seq[t] = seq[u] => t = u

\* The event in hand is the thread's last; log() is through with the others.
Made ==
  \A t \in Thread :
    /\ busy(t) => Len(made[t]) >= 1 /\ made[t][Len(made[t])] = seq[t]
    /\ \A k \in 1..Len(made[t]) :
         \/ k = Len(made[t]) /\ busy(t)
         \/ made[t][k] \in Written
         \/ made[t][k] \in dropped

Inv == TypeOK /\ Locked /\ Lines /\ Distinct /\ Made /\ EachEventOnce /\ ThreadTraceIsPrefix

-----------------------------------------------------------------------------
\* A write() adds at the end of the file and nowhere else.
LEMMA FileGrows ==
  ASSUME TypeOK, NEW x \in Nat \cup {Newline}, file' = Append(file, x)
  PROVE  /\ file' \in Seq(Nat \cup {Newline})
         /\ Len(file) \in Nat /\ Len(file') = Len(file) + 1
         /\ \A i \in 1..Len(file) : file'[i] = file[i]
         /\ file'[Len(file) + 1] = x
         /\ Written' = (Written \cup {x}) \ {Newline}
<1>1. file \in Seq(Nat \cup {Newline})
  BY DEF TypeOK
<1>2. /\ file' \in Seq(Nat \cup {Newline})
      /\ Len(file) \in Nat /\ Len(file') = Len(file) + 1
      /\ \A i \in 1..Len(file) : file'[i] = file[i]
      /\ file'[Len(file) + 1] = x
  BY <1>1, AppendProperties, LenProperties
<1>3. Written' = (Written \cup {x}) \ {Newline}
  BY <1>2 DEF Written
<1> QED
  BY <1>2, <1>3

\* A number in the hands of a thread is the last that thread was given, and no
\* other thread was ever given it (next_sequence() is a fetch_add).
LEMMA InHandIsLast ==
  ASSUME Inv, NEW t \in Thread, busy(t), NEW u \in Thread,
         NEW k \in 1..Len(made[u]), made[u][k] = seq[t]
  PROVE  u = t /\ k = Len(made[u])
<1>1. seq[t] \in InHand
  BY DEF InHand, busy
<1>2. seq[t] \notin Written /\ seq[t] \notin dropped
  BY <1>1 DEF Inv, EachEventOnce
<1>3. k = Len(made[u]) /\ busy(u)
  BY <1>2 DEF Inv, Made
<1>4. seq[u] = seq[t]
  BY <1>3 DEF Inv, Made
<1> QED
  BY <1>3, <1>4 DEF Inv, Distinct

\* Before main() the file is open and empty.
LEMMA InitInv == Init => Inv
<1> SUFFICES ASSUME Init PROVE Inv
  OBVIOUS
<1>1. Written = {} /\ InHand = {} /\ Len(file) = 0
  BY DEF Init, Written, InHand
<1>2. TypeOK /\ Locked /\ Lines /\ Distinct /\ Made
  BY <1>1 DEF Init, TypeOK, Locked, Lines, Distinct, Made, busy
<1>3. EachEventOnce /\ ThreadTraceIsPrefix
  BY <1>1 DEF Init, EachEventOnce, ThreadTraceIsPrefix
<1> QED
  BY <1>2, <1>3 DEF Inv

\* A hook gives its thread a number that is in no file and no other hand.
LEMMA HookInv == ASSUME Inv, NEW t \in Thread, Hook(t) PROVE Inv'
<1> USE DEF Inv
<1>0. /\ pc[t] = "run" /\ pc' = [pc EXCEPT ![t] = "log"]
      /\ seq' = [seq EXCEPT ![t] = sequence] /\ sequence' = sequence + 1
      /\ mu' = mu /\ open' = open /\ file' = file /\ dropped' = dropped
  BY DEF Hook, next_sequence
<1>1. sequence \in Nat /\ made[t] \in Seq(Nat) /\ seq'[t] = sequence
  BY <1>0 DEF TypeOK
<1>2. made' = [made EXCEPT ![t] = Append(made[t], sequence)]
  BY <1>1 DEF Hook
<1>3. /\ made'[t] \in Seq(Nat)
      /\ Len(made[t]) \in Nat /\ Len(made'[t]) = Len(made[t]) + 1
      /\ \A k \in 1..Len(made[t]) : made'[t][k] = made[t][k]
      /\ made'[t][Len(made[t]) + 1] = sequence
      /\ \A u \in Thread \ {t} : made'[u] = made[u]
  <2>1. made'[t] = Append(made[t], sequence) /\ \A u \in Thread \ {t} : made'[u] = made[u]
    BY <1>2 DEF TypeOK
  <2> QED
    BY <1>1, <2>1, AppendProperties, LenProperties
<1>4. Written' = Written /\ InHand' = InHand \cup {sequence}
  BY <1>0 DEF Written, InHand, TypeOK
<1>5. sequence \notin Written \cup InHand \cup dropped
  BY <1>1 DEF EachEventOnce
<1>6. TypeOK'
  BY <1>0, <1>1, <1>2, <1>3 DEF TypeOK
<1>7. Locked' /\ Lines'
  BY <1>0 DEF Locked, Lines, TypeOK
<1>8. Distinct'
  <2>1. \A u \in Thread : busy(u) => seq[u] # sequence
    BY <1>5 DEF InHand, busy
  <2> QED
    BY <1>0, <2>1 DEF Distinct, busy, TypeOK
<1>9. Made'
  <2> SUFFICES ASSUME NEW u \in Thread
      PROVE  /\ busy(u)' => Len(made'[u]) >= 1 /\ made'[u][Len(made'[u])] = seq'[u]
             /\ \A k \in 1..Len(made'[u]) :
                  \/ k = Len(made'[u]) /\ busy(u)'
                  \/ made'[u][k] \in Written'
                  \/ made'[u][k] \in dropped'
    BY DEF Made
  <2>1. CASE u = t
    <3>1. ~busy(t) /\ busy(t)'
      BY <1>0 DEF busy, TypeOK
    <3>2. Len(made'[t]) >= 1 /\ made'[t][Len(made'[t])] = seq'[t]
      BY <1>1, <1>3
    <3>3. ASSUME NEW k \in 1..Len(made'[t]), k # Len(made'[t])
          PROVE  made'[t][k] \in Written' \/ made'[t][k] \in dropped'
      <4>1. k \in 1..Len(made[t]) /\ made'[t][k] = made[t][k]
        BY <1>3, <3>3
      <4> QED
        BY <1>0, <1>4, <3>1, <4>1 DEF Made
    <3> QED
      BY <2>1, <3>1, <3>2, <3>3
  <2>2. CASE u # t
    BY Zenon, <1>0, <1>3, <1>4, <2>2 DEF Made, busy, TypeOK
  <2> QED
    BY <2>1, <2>2
<1>10. EachEventOnce'
  <2>1. Written' \cup InHand' \cup dropped' = 0..(sequence' - 1)
    BY <1>0, <1>1, <1>4 DEF EachEventOnce
  <2> QED
    BY <1>0, <1>4, <1>5, <2>1 DEF EachEventOnce
<1>11. ThreadTraceIsPrefix'
  <2> SUFFICES ASSUME NEW u \in Thread, NEW i \in 1..Len(made'[u]), NEW j \in 1..Len(made'[u]),
                      i < j, made'[u][j] \in Written
               PROVE  \E a, b \in 1..Len(file) :
                         a < b /\ file[a] = made'[u][i] /\ file[b] = made'[u][j]
    BY SMTT(30), <1>0, <1>4 DEF ThreadTraceIsPrefix
  <2>1. CASE u = t
    <3>1. j # Len(made[t]) + 1
      BY <1>3, <1>5, <2>1
    <3>2. i \in 1..Len(made[t]) /\ j \in 1..Len(made[t])
      <4>1. Len(made[t]) \in Nat /\ i \in 1..(Len(made[t]) + 1) /\ j \in 1..(Len(made[t]) + 1)
        BY <1>3, <2>1
      <4> QED
        BY <3>1, <4>1, SMTT(30)
    <3>3. made'[u][i] = made[t][i] /\ made'[u][j] = made[t][j]
      BY <1>3, <2>1, <3>2
    <3>4. \E a, b \in 1..Len(file) : a < b /\ file[a] = made[t][i] /\ file[b] = made[t][j]
      BY <3>2, <3>3 DEF ThreadTraceIsPrefix
    <3> QED
      BY <3>3, <3>4
  <2>2. CASE u # t
    <3>1. made'[u] = made[u]
      BY <1>3, <2>2
    <3>2. i \in 1..Len(made[u]) /\ j \in 1..Len(made[u]) /\ made[u][j] \in Written
      BY <3>1
    <3>3. \E a, b \in 1..Len(file) : a < b /\ file[a] = made[u][i] /\ file[b] = made[u][j]
      BY <3>2, Zenon DEF ThreadTraceIsPrefix
    <3> QED
      BY <3>1, <3>3, Zenon
  <2> QED
    BY <2>1, <2>2
<1> QED
  BY <1>6, <1>7, <1>8, <1>9, <1>10, <1>11

\* log() either takes the event to the file or, the file closed, drops it.
LEMMA logInv == ASSUME Inv, NEW t \in Thread, log(t) PROVE Inv'
<1> USE DEF Inv
<1>0. /\ pc[t] = "log" /\ mu = {} /\ seq[t] \in Nat
      /\ sequence' = sequence /\ open' = open /\ file' = file /\ seq' = seq /\ made' = made
  BY DEF log, TypeOK
<1>1. Written' = Written
  BY <1>0 DEF Written
<1>2. ThreadTraceIsPrefix'
  BY <1>0, <1>1 DEF ThreadTraceIsPrefix
<1>3. CASE open
  <2>0. pc' = [pc EXCEPT ![t] = "text"] /\ mu' = {t} /\ dropped' = dropped
    BY <1>3 DEF log
  <2>1. TypeOK' /\ Locked'
    BY <1>0, <1>3, <2>0 DEF TypeOK, Locked
  <2>2. \A u \in Thread : busy(u)' = busy(u) /\ (pc'[u] = "newline" <=> pc[u] = "newline")
    BY <1>0, <2>0 DEF busy, TypeOK
  <2>3. InHand' = InHand
    BY <1>0, <2>2 DEF InHand, busy
  <2>4. Lines' /\ Distinct'
    BY <1>0, <2>2 DEF Lines, Distinct
  <2>5. Made'
    BY <1>0, <1>1, <2>0, <2>2 DEF Made
  <2>6. EachEventOnce'
    BY <1>0, <1>1, <2>0, <2>3 DEF EachEventOnce
  <2> QED
    BY <1>2, <2>1, <2>4, <2>5, <2>6
<1>4. CASE ~open
  <2>0. pc' = [pc EXCEPT ![t] = "run"] /\ mu' = mu /\ dropped' = dropped \cup {seq[t]}
    BY <1>4 DEF log
  <2>1. TypeOK' /\ Locked'
    BY Zenon, <1>0, <1>4, <2>0 DEF TypeOK, Locked
  <2>2. /\ busy(t) /\ ~busy(t)'
        /\ \A u \in Thread \ {t} : busy(u)' = busy(u)
        /\ \A u \in Thread : pc'[u] = "newline" <=> pc[u] = "newline"
    BY <1>0, <2>0 DEF busy, TypeOK
  <2>3. InHand' = InHand \ {seq[t]} /\ seq[t] \in InHand
    BY <1>0, <2>2 DEF InHand, busy, Distinct
  <2>4. Lines' /\ Distinct'
    BY <1>0, <2>2 DEF Lines, Distinct
  <2>5. Made'
    BY <1>0, <1>1, <2>0, <2>2 DEF Made
  <2>6. EachEventOnce'
    BY <1>0, <1>1, <2>0, <2>3 DEF EachEventOnce
  <2> QED
    BY <1>2, <2>1, <2>4, <2>5, <2>6
<1> QED
  BY <1>3, <1>4

\* The text of an event follows every line its thread has written before,
\* because as long as the mutex is held nothing has been dropped.
LEMMA writeTextInv == ASSUME Inv, NEW t \in Thread, writeText(t) PROVE Inv'
<1> USE DEF Inv
<1>0. /\ pc[t] = "text" /\ pc' = [pc EXCEPT ![t] = "newline"] /\ seq[t] \in Nat
      /\ file' = Append(file, seq[t])
      /\ sequence' = sequence /\ mu' = mu /\ open' = open /\ seq' = seq /\ made' = made
      /\ dropped' = dropped
  BY DEF writeText, TypeOK
<1>1. /\ file' \in Seq(Nat \cup {Newline})
      /\ Len(file) \in Nat /\ Len(file') = Len(file) + 1
      /\ \A i \in 1..Len(file) : file'[i] = file[i]
      /\ file'[Len(file) + 1] = seq[t]
  BY <1>0, FileGrows
<1>2. Written' = Written \cup {seq[t]} /\ seq[t] # Newline
  <2>1. Written' = (Written \cup {seq[t]}) \ {Newline}
    BY <1>0, FileGrows
  <2>2. Newline \notin Written
    BY DEF Written
  <2> QED
    BY <1>0, <2>1, <2>2 DEF Newline
<1>3. /\ busy(t) /\ ~busy(t)'
      /\ \A u \in Thread \ {t} : busy(u)' = busy(u)
  BY <1>0 DEF busy, TypeOK
<1>4. InHand' = InHand \ {seq[t]} /\ seq[t] \in InHand
  BY <1>0, <1>3 DEF InHand, busy, Distinct
<1>5. open /\ dropped = {} /\ \A u \in Thread : u # t => pc[u] \notin {"text", "newline"}
  BY <1>0 DEF Locked
<1>6. TypeOK' /\ Locked'
  BY <1>0, <1>1 DEF TypeOK, Locked
<1>7. Len(file) % 2 = 0
  BY <1>0, <1>1, <1>5 DEF Lines
<1>8. Lines'
  <2>1. Len(file') % 2 = 1
    BY <1>1, <1>7
  <2>2. pc'[t] = "newline"
    BY <1>0 DEF TypeOK
  <2> QED
    BY <2>1, <2>2 DEF Lines
<1>9. Distinct'
  BY <1>0, <1>3 DEF Distinct
<1>10. Made'
  BY SMTT(30), <1>0, <1>2, <1>3 DEF Made
<1>11. EachEventOnce'
  <2>1. ASSUME NEW i \in 1..Len(file')
        PROVE  (file'[i] = Newline) <=> (i % 2 = 0)
    BY <1>1, <1>2, <1>7 DEF EachEventOnce
  <2>2. seq[t] \notin Written
    BY <1>4 DEF EachEventOnce
  <2>3. ASSUME NEW i \in 1..Len(file'), NEW j \in 1..Len(file'),
               file'[i] = file'[j], file'[i] # Newline
        PROVE  i = j
    <3>1. \A k \in 1..Len(file) : file[k] # seq[t]
      BY <1>2, <2>2 DEF Written
    <3> QED
      BY <1>1, <2>3, <3>1 DEF EachEventOnce
  <2>4. /\ Written' \cup InHand' \cup dropped' = 0..(sequence' - 1)
        /\ Written' \cap InHand' = {} /\ Written' \cap dropped' = {}
        /\ InHand' \cap dropped' = {}
    BY <1>0, <1>2, <1>4, <1>5 DEF EachEventOnce
  <2> QED
    BY SMTT(30), <2>1, <2>3, <2>4 DEF EachEventOnce
<1>12. ThreadTraceIsPrefix'
  <2> SUFFICES ASSUME NEW u \in Thread, NEW i \in 1..Len(made'[u]), NEW j \in 1..Len(made'[u]),
                      i < j, made'[u][j] \in Written'
               PROVE  \E a, b \in 1..Len(file') :
                         a < b /\ file'[a] = made'[u][i] /\ file'[b] = made'[u][j]
    BY SMTT(30) DEF ThreadTraceIsPrefix
  <2>0. made'[u] = made[u] /\ i \in 1..Len(made[u]) /\ j \in 1..Len(made[u])
    BY <1>0
  <2>1. CASE made[u][j] \in Written
    <3>1. PICK a \in 1..Len(file), b \in 1..Len(file) :
                 a < b /\ file[a] = made[u][i] /\ file[b] = made[u][j]
      BY <2>0, <2>1 DEF ThreadTraceIsPrefix
    <3>2. /\ a \in 1..Len(file') /\ b \in 1..Len(file')
          /\ file'[a] = made'[u][i] /\ file'[b] = made'[u][j]
      BY <1>1, <2>0, <3>1
    <3> QED
      BY <3>1, <3>2
  <2>2. CASE made[u][j] = seq[t]
    <3>1. u = t /\ j = Len(made[u])
      BY <1>3, <2>0, <2>2, InHandIsLast
    <3>2. Len(made[u]) \in Nat
      BY LenProperties DEF TypeOK
    <3>3. made[u][i] \in Written
      BY <1>5, <2>0, <3>1, <3>2 DEF Made
    <3>4. PICK a \in 1..Len(file) : file[a] = made[u][i]
      BY <3>3 DEF Written
    <3>5. /\ a \in 1..Len(file') /\ Len(file) + 1 \in 1..Len(file') /\ a < Len(file) + 1
          /\ file'[a] = made'[u][i] /\ file'[Len(file) + 1] = made'[u][j]
      BY <1>1, <2>0, <2>2, <3>4
    <3> QED
      BY <3>5
  <2> QED
    BY <1>2, <2>0, <2>1, <2>2
<1> QED
  BY <1>6, <1>8, <1>9, <1>10, <1>11, <1>12

\* The newline ends the line of the thread that releases the mutex.
LEMMA writeNewlineInv == ASSUME Inv, NEW t \in Thread, writeNewline(t) PROVE Inv'
<1> USE DEF Inv
<1>0. /\ pc[t] = "newline" /\ pc' = [pc EXCEPT ![t] = "run"] /\ mu' = mu \ {t}
      /\ file' = Append(file, Newline)
      /\ sequence' = sequence /\ open' = open /\ seq' = seq /\ made' = made
      /\ dropped' = dropped
  BY DEF writeNewline
<1>1. /\ file' \in Seq(Nat \cup {Newline})
      /\ Len(file) \in Nat /\ Len(file') = Len(file) + 1
      /\ \A i \in 1..Len(file) : file'[i] = file[i]
      /\ file'[Len(file) + 1] = Newline
  BY Zenon, <1>0, FileGrows
<1>2. Written' = Written
  <2>1. Written' = (Written \cup {Newline}) \ {Newline}
    BY Zenon, <1>0, FileGrows
  <2> QED
    BY <2>1, Zenon DEF Written
<1>3. \A u \in Thread : busy(u)' = busy(u)
  BY <1>0 DEF busy, TypeOK
<1>4. InHand' = InHand
  BY <1>0, <1>3 DEF InHand, busy
<1>5. mu = {t} /\ open /\ \A u \in Thread : pc'[u] # "newline"
  BY <1>0 DEF Locked, TypeOK
<1>6. TypeOK' /\ Locked'
  BY <1>0, <1>1, <1>5 DEF TypeOK, Locked
<1>7. Len(file) % 2 = 1
  BY <1>0 DEF Lines
<1>8. Lines'
  <2>1. Len(file') % 2 = 0
    BY <1>1, <1>7
  <2> QED
    BY <1>5, <2>1 DEF Lines
<1>9. Distinct' /\ Made'
  BY <1>0, <1>2, <1>3 DEF Distinct, Made
<1>10. EachEventOnce'
  <2>1. ASSUME NEW i \in 1..Len(file')
        PROVE  (file'[i] = Newline) <=> (i % 2 = 0)
    BY SMTT(30), <1>1, <1>7 DEF EachEventOnce
  <2>2. ASSUME NEW i \in 1..Len(file'), NEW j \in 1..Len(file'),
               file'[i] = file'[j], file'[i] # Newline
        PROVE  i = j
    BY <1>1, <2>2 DEF EachEventOnce
  <2> QED
    BY <1>0, <1>2, <1>4, <2>1, <2>2 DEF EachEventOnce
<1>11. ThreadTraceIsPrefix'
  <2> SUFFICES ASSUME NEW u \in Thread, NEW i \in 1..Len(made'[u]), NEW j \in 1..Len(made'[u]),
                      i < j, made'[u][j] \in Written'
               PROVE  \E a, b \in 1..Len(file') :
                         a < b /\ file'[a] = made'[u][i] /\ file'[b] = made'[u][j]
    BY DEF ThreadTraceIsPrefix
  <2>0. made'[u] = made[u] /\ i \in 1..Len(made[u]) /\ j \in 1..Len(made[u])
    BY <1>0
  <2>1. PICK a \in 1..Len(file), b \in 1..Len(file) :
               a < b /\ file[a] = made[u][i] /\ file[b] = made[u][j]
    BY <1>2, <2>0 DEF ThreadTraceIsPrefix
  <2>2. /\ a \in 1..Len(file') /\ b \in 1..Len(file')
        /\ file'[a] = made'[u][i] /\ file'[b] = made'[u][j]
    BY <1>1, <2>0, <2>1
  <2> QED
    BY <2>1, <2>2
<1> QED
  BY <1>6, <1>8, <1>9, <1>10, <1>11

\* A step of a thread that holds neither an event nor the mutex, and leaves
\* the file's contents alone.
LEMMA AsideInv ==
  ASSUME Inv,
         pc' \in [Thread -> {"run", "log", "text", "newline", "close"}],
         \A u \in Thread : pc'[u] = pc[u] \/ {pc[u], pc'[u]} \subseteq {"run", "close"},
         open' \in BOOLEAN, open' => open, ~open' => mu = {},
         UNCHANGED <<sequence, mu, file, seq, made, dropped>>
  PROVE  Inv'
<1> USE DEF Inv
<1>1. \A u \in Thread : /\ busy(u)' = busy(u)
                        /\ pc'[u] = "newline" <=> pc[u] = "newline"
                        /\ pc'[u] = "text" <=> pc[u] = "text"
  BY DEF busy
<1>2. Written' = Written /\ InHand' = InHand
  BY <1>1 DEF Written, InHand, busy
<1>3. TypeOK' /\ Locked' /\ Lines'
  BY SMTT(30), <1>1 DEF TypeOK, Locked, Lines
<1>4. Distinct' /\ Made'
  BY <1>1, <1>2 DEF Distinct, Made
<1>5. EachEventOnce' /\ ThreadTraceIsPrefix'
  BY <1>2 DEF EachEventOnce, ThreadTraceIsPrefix
<1> QED
  BY <1>3, <1>4, <1>5

\* Every step of a thread keeps Inv.
LEMMA NextInv == Inv /\ [Next]_vars => Inv'
<1> SUFFICES ASSUME Inv, [Next]_vars PROVE Inv'
  OBVIOUS
<1>1. ASSUME NEW t \in Thread, finalize(t) PROVE Inv'
  <2>1. /\ pc[t] = "run" /\ pc' = [pc EXCEPT ![t] = "close"]
        /\ open' = open /\ UNCHANGED <<sequence, mu, file, seq, made, dropped>>
    BY <1>1 DEF finalize
  <2> QED
    BY <2>1, AsideInv DEF Inv, TypeOK, Locked
<1>2. ASSUME NEW t \in Thread, flush_and_close(t) PROVE Inv'
  <2>1. /\ pc[t] = "close" /\ pc' = [pc EXCEPT ![t] = "run"] /\ mu = {}
        /\ open' = FALSE /\ UNCHANGED <<sequence, mu, file, seq, made, dropped>>
    BY <1>2 DEF flush_and_close
  <2> QED
    BY Zenon, <2>1, AsideInv DEF Inv, TypeOK
<1>3. CASE UNCHANGED vars
  BY <1>3, AsideInv DEF vars, Inv, TypeOK, Locked
<1> QED
  BY <1>1, <1>2, <1>3, HookInv, logInv, writeTextInv, writeNewlineInv DEF Next, Step

\* The inductive invariant holds in every reachable state.
LEMMA Invariance == Spec => []Inv
BY InitInv, NextInv, PTL DEF Spec

(***************************************************************************)
(* Every number next_sequence() has given out is on exactly one whole line *)
(* of the file, in the hands of one thread in log(), or was dropped by     *)
(* log() because the file was closed.                                      *)
(***************************************************************************)
THEOREM EventsWrittenOnce == Spec => []EachEventOnce
<1>1. Inv => EachEventOnce
  BY DEF Inv
<1> QED
  BY <1>1, Invariance, PTL

(***************************************************************************)
(* log() keeps the order of a thread's events in the file, and whatever    *)
(* flush_and_close() makes it drop comes after all it has written.         *)
(***************************************************************************)
THEOREM PrefixKept == Spec => []ThreadTraceIsPrefix
<1>1. Inv => ThreadTraceIsPrefix
  BY DEF Inv
<1> QED
  BY <1>1, Invariance, PTL
=============================================================================
