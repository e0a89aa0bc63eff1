---------------------------- MODULE Application_proofs ---------------------------
(****************************************************************************)
(* Proofs about what the application and the command parser keep besides    *)
(* the servers and the line being typed.                                    *)
(*                                                                          *)
(* The shared receive buffer, for any number of servers and any size.  What *)
(* a thread prints is decided when it receives: the buffer must be empty    *)
(* then (CleanBetween, if no other thread holds a message), and nothing may *)
(* write to it before the callback has read it (InBuffer).                  *)
(*                                                                          *)
(* The history of commands, for any number of processes and of lines: the   *)
(* file has the lines that were typed.                                      *)
(*                                                                          *)
(* The test driver, for any scripts, any commands and any size of the       *)
(* queue.  Three invariants, which need nothing of each other but the       *)
(* types: QueueInv follows the texts from cli_out to the buffer, ResultsInv *)
(* the results of each activation of run_test_case, and TextsOK says that   *)
(* what the stores are read from is text.                                   *)
(****************************************************************************)
EXTENDS UtParser, RecvBuffer, CmdHistory, DataLemmas, SequenceTheorems

(****************************************************************************)
(* The receive buffer.                                                      *)
(****************************************************************************)
RecvTypeOK ==
  /\ bytes \in [Slots -> Nat]
  /\ thread \in [Servers -> {"none", "select", "got", "printed"}]
  /\ got \in [Servers -> Message \cup {None}]
  /\ shown = [s \in Servers |-> shown[s]]
  /\ tainted \in [Servers -> BOOLEAN] /\ left_over \in BOOLEAN
  /\ \A s \in Servers : thread[s] \in {"got", "printed"} => got[s] \in Message

\* The buffer with the message m and nothing else.
Filled(m) == [i \in Slots |-> IF i < m.len THEN m.text ELSE 0]
InBuffer == \A s \in Servers : thread[s] = "got" /\ ~tainted[s] => bytes = Filled(got[s])

RecvInv == RecvTypeOK /\ CleanBetween /\ InBuffer /\ PrintedAsSent

\* A string ends at its first 0.
LEMMA StringOfFilled ==
  ASSUME NEW m \in Message, m.len < BufSize
  PROVE  AsString(Filled(m)) = [i \in 0..(m.len - 1) |-> m.text]
  <1> DEFINE f == Filled(m)
             Ends(n) == (n = BufSize \/ f[n] = 0) /\ \A i \in 0..(n - 1) : f[i] # 0
             len == CHOOSE n \in 0..BufSize : Ends(n)
  <1>1. m.len \in 0..BufSize /\ m.text \in Nat \ {0} /\ BufSize \in Nat \ {0}
    BY RecvAssumption DEF Message
  <1>2. \A i \in 0..(BufSize - 1) : f[i] = IF i < m.len THEN m.text ELSE 0
    BY DEF Filled, Slots
  <1> HIDE DEF f
  <1>3. Ends(m.len)
    BY <1>1, <1>2
  <1>4. ASSUME NEW n \in 0..BufSize, Ends(n)
        PROVE  n = m.len
    <2>1. ~(n < m.len)
      BY <1>1, <1>2, <1>4
    <2>2. ~(m.len < n)
      <3>1. f[m.len] = 0
        BY <1>1, <1>2
      <3> QED BY <1>1, <1>4, <3>1
    <2> QED BY <1>1, <2>1, <2>2
  <1>5. len = m.len
    BY <1>1, <1>3, <1>4
  <1>6. AsString(f) = [i \in 0..(len - 1) |-> f[i]]
    BY DEF AsString
  <1>7. \A i \in 0..(m.len - 1) : f[i] = m.text
    BY <1>1, <1>2
  <1> HIDE DEF len
  <1> QED BY <1>5, <1>6, <1>7 DEF f

LEMMA RecvInitInv == RecvInit => RecvInv
  <1> SUFFICES ASSUME RecvInit
               PROVE  RecvInv
    OBVIOUS
  <1>1. RecvTypeOK
    BY DEF RecvInit, RecvTypeOK, NoText
  <1> QED BY <1>1 DEF RecvInit, RecvInv, CleanBetween, InBuffer, PrintedAsSent

LEMMA StartThreadStep ==
  ASSUME RecvInv, NEW s \in Servers, StartThread(s)
  PROVE  RecvInv'
  <1>1. \A t \in Servers : thread'[t] = IF t = s THEN "select" ELSE thread[t]
    BY DEF RecvInv, RecvTypeOK, StartThread
  <1>2. RecvTypeOK'
    BY <1>1 DEF RecvInv, RecvTypeOK, StartThread
  <1>3. CleanBetween'
    BY <1>1 DEF RecvInv, CleanBetween, StartThread
  <1>4. InBuffer'
    BY <1>1 DEF RecvInv, InBuffer, StartThread
  <1>5. PrintedAsSent'
    BY <1>1 DEF RecvInv, PrintedAsSent, StartThread
  <1> QED BY <1>2, <1>3, <1>4, <1>5 DEF RecvInv

\* What is received into a clean buffer is alone in it.
LEMMA RecvStep ==
  ASSUME RecvInv, NEW s \in Servers, Recv(s)
  PROVE  RecvInv'
  <1>1. PICK m \in Message : /\ bytes' = [i \in Slots |-> IF i < m.len THEN m.text ELSE bytes[i]]
                             /\ got' = [got EXCEPT ![s] = m]
    BY DEF Recv
  <1>2. /\ \A t \in Servers : thread'[t] = IF t = s THEN "got" ELSE thread[t]
        /\ \A t \in Servers : got'[t] = IF t = s THEN m ELSE got[t]
        /\ \A t \in Servers : shown'[t] = IF t = s THEN None ELSE shown[t]
    BY <1>1 DEF RecvInv, RecvTypeOK, Recv
  <1>3. /\ tainted'[s] = (left_over \/ \E u \in Servers \ {s} : thread[u] \in {"got", "printed"})
        /\ \A t \in Servers : t # s => tainted'[t] = (tainted[t] \/ t \in Holders(s))
    BY DEF Recv
  <1>4. RecvTypeOK'
    <2>1. bytes' \in [Slots -> Nat]
      BY <1>1, RecvAssumption DEF RecvInv, RecvTypeOK, Message
    <2>2. thread' \in [Servers -> {"none", "select", "got", "printed"}]
      BY DEF RecvInv, RecvTypeOK, Recv
    <2>3. got' \in [Servers -> Message \cup {None}]
      BY <1>1 DEF RecvInv, RecvTypeOK
    <2>4. shown' = [t \in Servers |-> shown'[t]]
      BY DEF RecvInv, RecvTypeOK, Recv
    <2>5. tainted' \in [Servers -> BOOLEAN] /\ left_over' \in BOOLEAN
      BY DEF RecvInv, RecvTypeOK, Recv
    <2>6. \A t \in Servers : thread'[t] \in {"got", "printed"} => got'[t] \in Message
      BY <1>2 DEF RecvInv, RecvTypeOK
    <2> QED BY <2>1, <2>2, <2>3, <2>4, <2>5, <2>6 DEF RecvTypeOK
  <1>5. CleanBetween'
    BY <1>2 DEF CleanBetween
  <1>6. InBuffer'
    <2> SUFFICES ASSUME NEW t \in Servers, thread'[t] = "got", ~tainted'[t]
                 PROVE  bytes' = Filled(got'[t])
      BY DEF InBuffer, Filled
    <2>1. CASE t = s
      <3>1. ~left_over /\ \A u \in Servers : thread[u] \in {"none", "select"}
        BY <1>3, <2>1 DEF RecvInv, RecvTypeOK, Recv
      <3>2. bytes = NoText
        BY <3>1 DEF RecvInv, CleanBetween
      <3> QED BY <1>1, <1>2, <2>1, <3>2 DEF Filled, NoText
    <2>2. CASE t # s
      BY <1>2, <1>3, <2>2 DEF Holders
    <2> QED BY <2>1, <2>2
  <1>7. PrintedAsSent'
    <2> SUFFICES ASSUME NEW t \in Servers, thread'[t] = "printed", ~tainted'[t], got'[t].len < BufSize
                 PROVE  shown'[t] = [i \in 0..(got'[t].len - 1) |-> got'[t].text]
      BY DEF PrintedAsSent
    <2>1. t # s /\ thread[t] = "printed" /\ got'[t] = got[t] /\ shown'[t] = shown[t]
      BY <1>2
    <2>2. ~tainted[t]
      BY <1>3, <2>1
    <2> QED BY <2>1, <2>2 DEF RecvInv, PrintedAsSent
  <1> QED BY <1>4, <1>5, <1>6, <1>7 DEF RecvInv

LEMMA CallbackStep ==
  ASSUME RecvInv, NEW s \in Servers, Callback(s)
  PROVE  RecvInv'
  <1>0. PICK str \in Printings(bytes) : shown' = [shown EXCEPT ![s] = str]
    BY DEF Callback
  <1>1. /\ \A t \in Servers : thread'[t] = IF t = s THEN "printed" ELSE thread[t]
        /\ \A t \in Servers : shown'[t] = IF t = s THEN str ELSE shown[t]
    BY <1>0 DEF RecvInv, RecvTypeOK, Callback
  <1>2. RecvTypeOK'
    BY <1>0, <1>1 DEF RecvInv, RecvTypeOK, Callback
  <1>3. CleanBetween'
    BY <1>1 DEF CleanBetween
  <1>4. InBuffer'
    BY <1>1 DEF RecvInv, InBuffer, Callback
  <1>5. PrintedAsSent'
    <2> SUFFICES ASSUME NEW t \in Servers, thread'[t] = "printed", ~tainted'[t], got'[t].len < BufSize
                 PROVE  shown'[t] = [i \in 0..(got'[t].len - 1) |-> got'[t].text]
      BY DEF PrintedAsSent
    <2>1. CASE t = s
      <3>1. got[s] \in Message /\ bytes = Filled(got[s]) /\ got[s].len < BufSize
        BY <2>1 DEF RecvInv, RecvTypeOK, InBuffer, Callback
      <3>2. got[s].len \in Slots /\ bytes[got[s].len] = 0
        BY <3>1, RecvAssumption DEF Message, Slots, Filled
      <3>3. str = AsString(bytes)
        BY <3>2 DEF Printings
      <3>4. shown'[s] = [i \in 0..(got[s].len - 1) |-> got[s].text]
        BY <1>1, <3>1, <3>3, StringOfFilled
      <3> QED BY <2>1, <3>4 DEF Callback
    <2>2. CASE t # s
      BY <1>1, <2>2 DEF RecvInv, PrintedAsSent, Callback
    <2> QED BY <2>1, <2>2
  <1> QED BY <1>2, <1>3, <1>4, <1>5 DEF RecvInv

\* The memset spoils the message of every other thread.
LEMMA ClearStep ==
  ASSUME RecvInv, NEW s \in Servers, Clear(s) \/ PassClient(s)
  PROVE  RecvInv'
  <1>1. /\ bytes' = NoText /\ got' = got /\ shown' = shown /\ left_over' = FALSE
        /\ \A t \in Servers : thread'[t] = IF t = s THEN "select" ELSE thread[t]
    BY DEF RecvInv, RecvTypeOK, Clear, PassClient
  <1>2. \A t \in Servers : tainted'[t] = (tainted[t] \/ t \in Holders(s))
    BY DEF Clear, PassClient, Taint
  <1>3. RecvTypeOK'
    <2>1. NoText \in [Slots -> Nat]
      BY DEF NoText
    <2>2. thread' \in [Servers -> {"none", "select", "got", "printed"}]
      BY DEF RecvInv, RecvTypeOK, Clear, PassClient
    <2>3. tainted' \in [Servers -> BOOLEAN]
      BY DEF RecvInv, RecvTypeOK, Clear, PassClient, Taint
    <2> QED BY <1>1, <2>1, <2>2, <2>3 DEF RecvInv, RecvTypeOK
  <1>4. CleanBetween'
    BY <1>1 DEF CleanBetween, NoText, Slots
  <1>5. InBuffer'
    BY <1>1, <1>2 DEF InBuffer, Holders
  <1>6. PrintedAsSent'
    BY <1>1, <1>2 DEF RecvInv, PrintedAsSent
  <1> QED BY <1>3, <1>4, <1>5, <1>6 DEF RecvInv

LEMMA CancelThreadStep ==
  ASSUME RecvInv, NEW s \in Servers, CancelThread(s)
  PROVE  RecvInv'
  <1>1. \A t \in Servers : thread'[t] = IF t = s THEN "none" ELSE thread[t]
    BY DEF RecvInv, RecvTypeOK, CancelThread
  <1>2. RecvTypeOK'
    BY <1>1 DEF RecvInv, RecvTypeOK, CancelThread
  <1>3. CleanBetween'
    <2> SUFFICES ASSUME \A t \in Servers : thread'[t] \in {"none", "select"}, ~left_over'
                 PROVE  bytes' = NoText
      BY DEF CleanBetween, NoText, Slots
    <2>1. ~left_over /\ thread[s] = "select"
      BY DEF CancelThread
    <2>2. \A t \in Servers : thread[t] \in {"none", "select"}
      BY <1>1, <2>1
    <2> QED BY <2>1, <2>2 DEF RecvInv, CleanBetween, CancelThread
  <1>4. InBuffer'
    BY <1>1 DEF RecvInv, InBuffer, CancelThread
  <1>5. PrintedAsSent'
    BY <1>1 DEF RecvInv, PrintedAsSent, CancelThread
  <1> QED BY <1>2, <1>3, <1>4, <1>5 DEF RecvInv

\* The application prints a message as it was sent, unless another server or a
\* cancelled thread had the buffer meanwhile, or the message fills it.
THEOREM ReceivedPrintedAsSent == RecvSpec => []PrintedAsSent
  <1>1. RecvInit => RecvInv
    BY RecvInitInv
  <1>2. RecvInv /\ [RecvNext]_recvVars => RecvInv'
    <2> SUFFICES ASSUME RecvInv, [RecvNext]_recvVars
                 PROVE  RecvInv'
      OBVIOUS
    <2>1. CASE RecvNext
      BY <2>1, StartThreadStep, RecvStep, CallbackStep, ClearStep, CancelThreadStep DEF RecvNext
    <2>2. CASE UNCHANGED recvVars
      BY <2>2 DEF recvVars, RecvInv, RecvTypeOK, CleanBetween, InBuffer, PrintedAsSent
    <2> QED BY <2>1, <2>2
  <1>3. RecvInv => PrintedAsSent
    BY DEF RecvInv
  <1> QED BY <1>1, <1>2, <1>3, PTL DEF RecvSpec

(****************************************************************************)
(* The history of commands.                                                 *)
(****************************************************************************)
TypedLine == [line : LineKinds, ok : BOOLEAN, asked : BOOLEAN, loaded : BOOLEAN, process : Nat]
HistoryTypeOK ==
  /\ records \in Seq(Recordable) /\ typed \in Seq(TypedLine)
  /\ cmd_counter \in Nat /\ process \in Nat
  /\ reloaded \in BOOLEAN /\ last_command \in Recordable \cup {"none"}
  /\ \A i \in 1..Len(typed) : typed[i].process <= process

\* The lines of process p up to the i-th that could be recorded.
Complete(p, i) == {j \in 1..i : typed[j].process = p /\ typed[j].ok /\ ~typed[j].loaded}

\* Unless repeat loaded a file, recording is on at the prompt, and the counter
\* is that of this process's complete lines, up to its limit.
Counts ==
  ~reloaded =>
    /\ cmd_recording_enabled
    /\ IF Cardinality(Complete(process, Len(typed))) <= MaxSaved
       THEN cmd_counter = Cardinality(Complete(process, Len(typed)))
       ELSE cmd_counter = MaxSaved
HistoryInv == HistoryTypeOK /\ Counts /\ HistoryHasTyped

LEMMA CompleteIsFinite ==
  ASSUME NEW p, NEW i \in Nat
  PROVE  /\ IsFiniteSet(Complete(p, i)) /\ Cardinality(Complete(p, i)) \in Nat
         /\ IsFiniteSet(KeptUpTo(i)) /\ Cardinality(KeptUpTo(i)) \in Nat
         /\ IsFiniteSet(AskedUpTo(i)) /\ Cardinality(AskedUpTo(i)) \in Nat
         /\ LastOf(i) \in Nat
<1>1. IsFiniteSet(1..i)
  BY FS_Interval
<1>2. Complete(p, i) \in SUBSET (1..i) /\ KeptUpTo(i) \in SUBSET (1..i) /\ AskedUpTo(i) \in SUBSET (1..i)
  BY DEF Complete, KeptUpTo, AskedUpTo
<1>3. IsFiniteSet(Complete(p, i)) /\ IsFiniteSet(KeptUpTo(i)) /\ IsFiniteSet(AskedUpTo(i))
  BY <1>1, <1>2, FS_Subset
<1>4. /\ Cardinality(Complete(p, i)) \in Nat /\ Cardinality(KeptUpTo(i)) \in Nat
      /\ Cardinality(AskedUpTo(i)) \in Nat
  BY <1>3, FS_CardinalityType
<1> QED BY <1>3, <1>4 DEF LastOf

\* The lines of the file that stand for an earlier line are before its end.
LEMMA LastOfGrows ==
  ASSUME NEW n \in Nat, NEW i \in KeptUpTo(n)
  PROVE  /\ i \in 1..n /\ LastOf(i) \in 1..LastOf(n)
         /\ typed[i].asked => LastOf(i) - 1 \in 1..LastOf(n)
<1>1. i \in 1..n /\ i \in KeptUpTo(i)
  BY DEF KeptUpTo
<1>2. KeptUpTo(i) \subseteq KeptUpTo(n) /\ AskedUpTo(i) \subseteq AskedUpTo(n)
  BY <1>1 DEF KeptUpTo, AskedUpTo
<1>3. /\ IsFiniteSet(KeptUpTo(i)) /\ IsFiniteSet(KeptUpTo(n)) /\ IsFiniteSet(AskedUpTo(i)) /\ IsFiniteSet(AskedUpTo(n))
      /\ Cardinality(KeptUpTo(i)) \in Nat /\ Cardinality(KeptUpTo(n)) \in Nat
      /\ Cardinality(AskedUpTo(i)) \in Nat /\ Cardinality(AskedUpTo(n)) \in Nat
  BY <1>1, CompleteIsFinite
<1>4. Cardinality(KeptUpTo(i)) <= Cardinality(KeptUpTo(n)) /\ Cardinality(AskedUpTo(i)) <= Cardinality(AskedUpTo(n))
  BY <1>2, <1>3, FS_Subset
<1>5. Cardinality(KeptUpTo(i)) # 0
  BY <1>1, <1>3, FS_EmptySet
<1>6. ASSUME typed[i].asked PROVE Cardinality(AskedUpTo(i)) # 0
  <2>1. i \in AskedUpTo(i)
    BY <1>1, <1>6 DEF AskedUpTo
  <2> QED BY <1>3, <2>1, FS_EmptySet
<1> QED BY <1>1, <1>3, <1>4, <1>5, <1>6 DEF LastOf

LEMMA HistoryInitInv == HistoryInit => HistoryInv
<1> SUFFICES ASSUME HistoryInit PROVE HistoryInv
  OBVIOUS
<1>1. typed = <<>> /\ records = <<>> /\ Len(typed) = 0 /\ Len(records) = 0
  BY DEF HistoryInit
<1>2. Complete(process, 0) = {} /\ KeptUpTo(0) = {} /\ AskedUpTo(0) = {}
  BY DEF Complete, KeptUpTo, AskedUpTo
<1>3. Cardinality({}) = 0
  BY FS_EmptySet
<1>4. HistoryTypeOK
  <2>1. <<>> \in Seq(Recordable) /\ <<>> \in Seq(TypedLine)
    BY EmptySeq
  <2>2. \A i \in 1..Len(typed) : typed[i].process <= process
    BY <1>1
  <2> QED BY <1>1, <2>1, <2>2 DEF HistoryInit, HistoryTypeOK
<1>5. Counts
  <2>1. Cardinality(Complete(process, Len(typed))) = 0 /\ MaxSaved \in Nat
    BY <1>1, <1>2, <1>3, HistoryAssumption
  <2> QED BY <2>1 DEF HistoryInit, Counts
<1>6. HistoryHasTyped
  <2>1. LastOf(0) = 0
    BY <1>2, <1>3 DEF LastOf
  <2>2. LastOf(Len(typed)) = 0 /\ KeptUpTo(Len(typed)) = {}
    BY <1>1, <1>2, <2>1
  <2> QED BY <1>1, <2>2 DEF HistoryHasTyped
<1> QED BY <1>4, <1>5, <1>6 DEF HistoryInv

\* A line more leaves what is said of those before it.
LEMMA EarlierStay ==
  ASSUME HistoryTypeOK, NEW r \in TypedLine, typed' = Append(typed, r)
  PROVE  /\ Len(typed') = Len(typed) + 1 /\ typed' \in Seq(TypedLine) /\ Len(typed) \in Nat
         /\ \A i \in 1..Len(typed) : typed'[i] = typed[i]
         /\ typed'[Len(typed) + 1] = r
         /\ \A i \in 0..Len(typed) : /\ KeptUpTo(i)' = KeptUpTo(i) /\ AskedUpTo(i)' = AskedUpTo(i)
                                    /\ LastOf(i)' = LastOf(i) /\ \A p : Complete(p, i)' = Complete(p, i)
<1>1. /\ Len(typed') = Len(typed) + 1 /\ typed' \in Seq(TypedLine) /\ Len(typed) \in Nat
      /\ \A i \in 1..Len(typed) : typed'[i] = typed[i]
      /\ typed'[Len(typed) + 1] = r
  BY AppendProperties, LenProperties DEF HistoryTypeOK
<1>2. ASSUME NEW i \in 0..Len(typed) PROVE \A p : Complete(p, i)' = Complete(p, i)
  <2>1. \A j \in 1..i : typed'[j] = typed[j]
    BY <1>1
  <2> QED BY <2>1 DEF Complete
<1>3. ASSUME NEW j \in 1..Len(typed) PROVE Kept(j)' <=> Kept(j)
  <2>1. Complete(typed[j].process, j)' = Complete(typed[j].process, j) /\ typed'[j] = typed[j]
    BY <1>1, <1>2
  <2> QED BY <2>1 DEF Kept, Complete
<1>4. ASSUME NEW i \in 0..Len(typed) PROVE KeptUpTo(i)' = KeptUpTo(i)
  <2>1. \A j \in 1..i : Kept(j)' <=> Kept(j)
    BY <1>1, <1>3
  <2> QED BY <2>1 DEF KeptUpTo
<1>5. ASSUME NEW i \in 0..Len(typed) PROVE AskedUpTo(i)' = AskedUpTo(i) /\ LastOf(i)' = LastOf(i)
  <2>1. AskedUpTo(i)' = AskedUpTo(i)
    <3>1. \A j \in KeptUpTo(i) : typed'[j] = typed[j]
      BY <1>1 DEF KeptUpTo
    <3> QED BY <1>4, <3>1 DEF AskedUpTo
  <2> QED BY <1>4, <2>1 DEF LastOf
<1> QED BY <1>1, <1>2, <1>4, <1>5

LEMMA TwoMore ==
  ASSUME NEW S, NEW s \in Seq(S), NEW x \in S
  PROVE  /\ s \o <<x, x>> \in Seq(S) /\ Len(s \o <<x, x>>) = Len(s) + 2
         /\ \A k \in 1..Len(s) : (s \o <<x, x>>)[k] = s[k]
         /\ (s \o <<x, x>>)[Len(s) + 1] = x /\ (s \o <<x, x>>)[Len(s) + 2] = x
<1>1. <<x, x>> \in Seq(S) /\ Len(<<x, x>>) = 2 /\ Len(s) \in Nat
  BY LenProperties
<1> QED BY <1>1, ConcatProperties

LEMMA RecordIs ==
  ASSUME NEW l \in LineKinds, NEW asked \in BOOLEAN, NEW s \in Seq(Recordable)
  PROVE  /\ s \o Record(l, asked) \in Seq(Recordable) /\ Len(s) \in Nat
         /\ Len(s \o Record(l, asked)) = Len(s) + (IF asked THEN 2 ELSE 1)
         /\ \A k \in 1..Len(s) : (s \o Record(l, asked))[k] = s[k]
         /\ asked => /\ (s \o Record(l, asked))[Len(s) + 1] = "blank"
                     /\ (s \o Record(l, asked))[Len(s) + 2] = "blank"
         /\ ~asked => (s \o Record(l, asked))[Len(s) + 1] = l
<1>1. "blank" \in Recordable /\ l \in Recordable /\ Len(s) \in Nat
  BY LenProperties DEF Recordable
<1>2. CASE asked
  <2>1. Record(l, asked) = <<"blank", "blank">>
    BY <1>2 DEF Record
  <2>2. /\ s \o Record(l, asked) \in Seq(Recordable) /\ Len(s \o Record(l, asked)) = Len(s) + 2
        /\ \A k \in 1..Len(s) : (s \o Record(l, asked))[k] = s[k]
        /\ (s \o Record(l, asked))[Len(s) + 1] = "blank" /\ (s \o Record(l, asked))[Len(s) + 2] = "blank"
    <3> DEFINE x == "blank"
    <3>1. x \in Recordable /\ Record(l, asked) = <<x, x>>
      BY <1>1, <2>1
    <3> HIDE DEF x
    <3>2. /\ s \o <<x, x>> \in Seq(Recordable) /\ Len(s \o <<x, x>>) = Len(s) + 2
          /\ \A k \in 1..Len(s) : (s \o <<x, x>>)[k] = s[k]
          /\ (s \o <<x, x>>)[Len(s) + 1] = x /\ (s \o <<x, x>>)[Len(s) + 2] = x
      BY <3>1, TwoMore
    <3>3. x = "blank"
      BY DEF x
    <3> QED BY <3>1, <3>2, <3>3, Zenon
  <2> QED BY <1>1, <1>2, <2>2
<1>3. CASE ~asked
  <2>1. Record(l, asked) = <<l>>
    BY <1>3 DEF Record
  <2>2. <<l>> \in Seq(Recordable) /\ Len(<<l>>) = 1
    BY <1>1
  <2> QED BY <1>1, <1>3, <2>1, <2>2
<1> QED BY <1>2, <1>3

LEMMA TypeCommandStep ==
  ASSUME HistoryInv, NEW l \in LineKinds, NEW ok \in BOOLEAN, NEW asked \in BOOLEAN, TypeCommand(l, ok, asked)
  PROVE  HistoryInv'
<1>0. PICK n \in Nat, p \in Nat : n = Len(typed) /\ p = process
  BY LenProperties DEF HistoryInv, HistoryTypeOK
<1> DEFINE done(i) == Cardinality(Complete(p, i))
           kept(i) == Cardinality(KeptUpTo(i))
<1>1. PICK loaded \in BOOLEAN :
        /\ typed' = Append(typed, [line |-> l, ok |-> ok, asked |-> asked, loaded |-> loaded, process |-> p])
        /\ IF Recorded(ok, loaded)
           THEN records' = records \o Record(l, asked) /\ cmd_counter' = cmd_counter + 1
           ELSE UNCHANGED <<records, cmd_counter>>
        /\ cmd_recording_enabled' = EnabledAfter(loaded)
  BY <1>0 DEF TypeCommand, MayLoad
<1>2. last_command' = LeftInBuffer(l, asked) /\ process = p /\ process' = p /\ reloaded' = reloaded
  BY <1>0 DEF TypeCommand
<1> DEFINE r == [line |-> l, ok |-> ok, asked |-> asked, loaded |-> loaded, process |-> p]
<1>3. r \in TypedLine /\ cmd_counter \in Nat /\ records \in Seq(Recordable)
  BY DEF HistoryInv, HistoryTypeOK, TypedLine
<1>4. /\ Len(typed') = n + 1 /\ typed' \in Seq(TypedLine)
      /\ \A i \in 1..n : typed'[i] = typed[i]
      /\ typed'[n + 1] = r
      /\ \A i \in 0..n : /\ KeptUpTo(i)' = KeptUpTo(i) /\ Complete(p, i)' = Complete(p, i)
                         /\ AskedUpTo(i)' = AskedUpTo(i) /\ LastOf(i)' = LastOf(i)
  BY <1>0, <1>1, <1>3, EarlierStay DEF HistoryInv
<1> DEFINE more == IF asked THEN 2 ELSE 1
<1>5. /\ records' \in Seq(Recordable) /\ cmd_counter' \in Nat /\ Len(records) \in Nat
      /\ \A k \in 1..Len(records) : records'[k] = records[k]
      /\ Recorded(ok, loaded) =>
           /\ Len(records') = Len(records) + more
           /\ asked => records'[Len(records) + 1] = "blank" /\ records'[Len(records) + 2] = "blank"
           /\ ~asked => records'[Len(records) + 1] = l
      /\ ~Recorded(ok, loaded) => records' = records
  <2>1. CASE Recorded(ok, loaded)
    <3>1. records' = records \o Record(l, asked) /\ cmd_counter' = cmd_counter + 1
      BY <1>1, <2>1
    <3>2. cmd_counter' \in Nat
      BY <1>3, <3>1
    <3> DEFINE R == records \o Record(l, asked)
    <3>3. /\ R \in Seq(Recordable) /\ Len(records) \in Nat
          /\ Len(R) = Len(records) + more
          /\ \A k \in 1..Len(records) : R[k] = records[k]
          /\ asked => R[Len(records) + 1] = "blank" /\ R[Len(records) + 2] = "blank"
          /\ ~asked => R[Len(records) + 1] = l
      <4>1. records \in Seq(Recordable) /\ l \in LineKinds /\ asked \in BOOLEAN
        BY <1>3
      <4> QED BY ONLY <4>1, RecordIs, SMTT(30)
    <3>4. records' = R
      BY <3>1
    <3> HIDE DEF R, more
    <3> QED BY <2>1, <3>2, <3>3, <3>4, Zenon
  <2>2. CASE ~Recorded(ok, loaded)
    BY <1>1, <1>3, <2>2, LenProperties
  <2> QED BY <2>1, <2>2
<1>6. HistoryTypeOK'
  <2>1. \A i \in 1..(n + 1) : typed'[i].process <= p
    <3>1. \A i \in 1..n : typed'[i].process <= p
      BY <1>0, <1>4 DEF HistoryInv, HistoryTypeOK
    <3>2. typed'[n + 1].process <= p
      BY <1>3, <1>4
    <3> QED BY <1>4, <3>1, <3>2
  <2>2. last_command' \in Recordable
    BY <1>2 DEF LeftInBuffer, Recordable
  <2> QED BY <1>2, <1>4, <1>5, <2>1, <2>2 DEF HistoryInv, HistoryTypeOK
<1>7. ASSUME ~reloaded'
      PROVE  Counts' /\ HistoryHasTyped'
  <2>1. /\ cmd_recording_enabled
        /\ cmd_counter = IF done(n) <= MaxSaved THEN done(n) ELSE MaxSaved
        /\ Len(records) = LastOf(n)
        /\ \A i \in KeptUpTo(n) :
             IF typed[i].asked
             THEN records[LastOf(i) - 1] = "blank" /\ records[LastOf(i)] = "blank"
             ELSE records[LastOf(i)] = typed[i].line
    BY <1>0, <1>2, <1>7 DEF HistoryInv, Counts, HistoryHasTyped
  <2>2. done(n) \in Nat /\ kept(n) \in Nat /\ MaxSaved \in Nat /\ LastOf(n) \in Nat
    BY <1>4, CompleteIsFinite, HistoryAssumption
  <2>3. Complete(p, n + 1)' = IF ok /\ ~loaded THEN Complete(p, n) \cup {n + 1} ELSE Complete(p, n)
    <3>1. Complete(p, n)' = Complete(p, n)
      BY <1>4
    <3>2. Complete(p, n + 1)'
            = Complete(p, n)' \cup {j \in {n + 1} : typed'[j].process = p /\ typed'[j].ok /\ ~typed'[j].loaded}
      BY <1>2, <1>4 DEF Complete
    <3>3. {j \in {n + 1} : typed'[j].process = p /\ typed'[j].ok /\ ~typed'[j].loaded}
            = IF ok /\ ~loaded THEN {n + 1} ELSE {}
      BY <1>4
    <3> QED BY <3>1, <3>2, <3>3
  <2>4. Cardinality(Complete(p, n + 1)') = IF ok /\ ~loaded THEN done(n) + 1 ELSE done(n)
    <3>1. n + 1 \notin Complete(p, n)
      BY <1>4 DEF Complete
    <3>2. Cardinality(Complete(p, n) \cup {n + 1}) = done(n) + 1
      BY <1>4, <3>1, CompleteIsFinite, FS_AddElement
    <3> QED BY <2>3, <3>2
  <2>5. Recorded(ok, loaded) <=> ok /\ ~loaded /\ done(n) < MaxSaved
    BY <2>1, <2>2 DEF Recorded
  <2>6. Counts'
    <3>1. cmd_recording_enabled'
      BY <1>1 DEF EnabledAfter
    <3>2. cmd_counter' = IF Recorded(ok, loaded) THEN cmd_counter + 1 ELSE cmd_counter
      BY <1>1
    <3>3. cmd_counter' = IF Cardinality(Complete(p, n + 1)') <= MaxSaved
                         THEN Cardinality(Complete(p, n + 1)') ELSE MaxSaved
      <4> HIDE DEF done
      <4> QED BY <2>1, <2>2, <2>4, <2>5, <3>2
    <3>4. Complete(process, Len(typed))' = Complete(p, n + 1)'
      BY <1>2, <1>4
    <3> QED BY <3>1, <3>3, <3>4 DEF Counts
  <2>7. Kept(n + 1)' <=> Recorded(ok, loaded)
    <3>1. Kept(n + 1)' <=> ok /\ ~loaded /\ Cardinality(Complete(p, n + 1)') <= MaxSaved
      BY <1>2, <1>4 DEF Kept, Complete
    <3> QED BY <2>2, <2>4, <2>5, <3>1
  <2>8. KeptUpTo(n + 1)' = IF Recorded(ok, loaded) THEN KeptUpTo(n) \cup {n + 1} ELSE KeptUpTo(n)
    <3>1. KeptUpTo(n + 1)' = KeptUpTo(n)' \cup (IF Recorded(ok, loaded) THEN {n + 1} ELSE {})
      BY <1>4, <2>7 DEF KeptUpTo
    <3>2. KeptUpTo(n)' = KeptUpTo(n)
      BY <1>4
    <3> QED BY <3>1, <3>2
  <2>9. LastOf(n + 1)' = IF Recorded(ok, loaded) THEN LastOf(n) + more ELSE LastOf(n)
    <3>1. n + 1 \notin KeptUpTo(n) /\ n + 1 \notin AskedUpTo(n)
      BY <1>4 DEF KeptUpTo, AskedUpTo
    <3>2. /\ Cardinality(KeptUpTo(n) \cup {n + 1}) = kept(n) + 1
          /\ Cardinality(AskedUpTo(n) \cup {n + 1}) = Cardinality(AskedUpTo(n)) + 1
      BY <1>4, <3>1, CompleteIsFinite, FS_AddElement
    <3>3. AskedUpTo(n + 1)' = IF Recorded(ok, loaded) /\ asked THEN AskedUpTo(n) \cup {n + 1} ELSE AskedUpTo(n)
      <4>1. AskedUpTo(n + 1)' = {j \in KeptUpTo(n + 1)' : typed'[j].asked}
        BY DEF AskedUpTo
      <4>2. {j \in KeptUpTo(n) : typed'[j].asked} = AskedUpTo(n)
        <5>1. \A j \in KeptUpTo(n) : typed'[j] = typed[j]
          BY <1>4 DEF KeptUpTo
        <5> QED BY <5>1 DEF AskedUpTo
      <4>3. typed'[n + 1].asked = asked
        BY <1>4
      <4>4. CASE Recorded(ok, loaded)
        <5>1. KeptUpTo(n + 1)' = KeptUpTo(n) \cup {n + 1}
          BY <2>8, <4>4
        <5>2. AskedUpTo(n + 1)' = {j \in KeptUpTo(n) : typed'[j].asked} \cup (IF asked THEN {n + 1} ELSE {})
          BY <4>1, <4>3, <5>1
        <5> QED BY <4>2, <4>4, <5>2
      <4>5. CASE ~Recorded(ok, loaded)
        BY <2>8, <4>1, <4>2, <4>5
      <4> QED BY <4>4, <4>5
    <3>4. LastOf(n + 1)' = Cardinality(KeptUpTo(n + 1)') + Cardinality(AskedUpTo(n + 1)')
      BY DEF LastOf
    <3>5. kept(n) \in Nat /\ Cardinality(AskedUpTo(n)) \in Nat /\ LastOf(n) = kept(n) + Cardinality(AskedUpTo(n))
      BY CompleteIsFinite DEF LastOf
    <3> QED BY <2>8, <3>2, <3>3, <3>4, <3>5
  <2>10. Len(records') = LastOf(n + 1)'
    BY <1>5, <2>1, <2>9
  <2>11. ASSUME NEW i \in KeptUpTo(n + 1)'
         PROVE  IF typed'[i].asked
                THEN records'[LastOf(i)' - 1] = "blank" /\ records'[LastOf(i)'] = "blank"
                ELSE records'[LastOf(i)'] = typed'[i].line
    <3>1. CASE i \in KeptUpTo(n)
      <4>1. i \in 1..n /\ LastOf(i) \in 1..LastOf(n) /\ (typed[i].asked => LastOf(i) - 1 \in 1..LastOf(n))
        BY <3>1, LastOfGrows
      <4>2. typed'[i] = typed[i] /\ LastOf(i)' = LastOf(i)
        BY <1>4, <4>1
      <4>3. /\ records'[LastOf(i)] = records[LastOf(i)]
            /\ typed[i].asked => records'[LastOf(i) - 1] = records[LastOf(i) - 1]
        BY <1>5, <2>1, <4>1
      <4> QED BY <2>1, <3>1, <4>2, <4>3
    <3>2. CASE i \notin KeptUpTo(n)
      <4>1. i = n + 1 /\ Recorded(ok, loaded)
        BY <2>8, <3>2
      <4>2. LastOf(i)' = Len(records) + more /\ Len(records) \in Nat
        BY <1>5, <2>1, <2>9, <4>1
      <4>3. typed'[i].line = l /\ typed'[i].asked = asked
        BY <1>4, <4>1
      <4>4. CASE asked
        <5>1. LastOf(i)' = Len(records) + 2 /\ LastOf(i)' - 1 = Len(records) + 1
          BY <4>2, <4>4
        <5> QED BY <1>5, <4>1, <4>3, <4>4, <5>1
      <4>5. CASE ~asked
        <5>1. LastOf(i)' = Len(records) + 1
          BY <4>2, <4>5
        <5> QED BY <1>5, <4>1, <4>3, <4>5, <5>1
      <4> QED BY <4>4, <4>5
    <3> QED BY <3>1, <3>2
  <2>12. KeptUpTo(Len(typed))' = KeptUpTo(n + 1)' /\ LastOf(Len(typed))' = LastOf(n + 1)'
    BY <1>4
  <2> QED BY <1>4, <2>6, <2>10, <2>11, <2>12 DEF HistoryHasTyped
<1> QED BY <1>6, <1>7 DEF HistoryInv, Counts, HistoryHasTyped

\* Nothing changes for the lines while no line is typed.
LEMMA HasTypedStays ==
  ASSUME HistoryHasTyped, records' = records, typed' = typed, ~reloaded' => ~reloaded
  PROVE  HistoryHasTyped'
<1>1. \A i : Kept(i)' <=> Kept(i)
  BY DEF Kept
<1>2. \A i : KeptUpTo(i)' = KeptUpTo(i)
  BY <1>1 DEF KeptUpTo
<1>3. Len(typed)' = Len(typed) /\ Len(records)' = Len(records)
  OBVIOUS
<1>4. \A i : LastOf(i)' = LastOf(i)
  BY <1>2 DEF LastOf, AskedUpTo
<1> QED BY <1>2, <1>3, <1>4 DEF HistoryHasTyped

LEMMA RepeatStep == ASSUME HistoryInv, RepeatCommand PROVE HistoryInv'
<1>1. UNCHANGED <<records, cmd_counter, last_command, process, typed>>
  BY DEF RepeatCommand
<1>2. PICK loaded \in BOOLEAN : /\ cmd_recording_enabled' = (cmd_recording_enabled /\ ~loaded)
                                /\ reloaded' = (reloaded \/ loaded)
  BY DEF RepeatCommand, MayLoad
<1>3. reloaded' \in BOOLEAN /\ (~reloaded' => ~reloaded /\ (cmd_recording_enabled => cmd_recording_enabled'))
  BY <1>2, Zenon
<1>4. HistoryTypeOK'
  BY <1>1, <1>3 DEF HistoryInv, HistoryTypeOK
<1>5. Counts'
  BY <1>1, <1>3 DEF HistoryInv, Counts, Complete
<1>6. HistoryHasTyped'
  BY <1>1, <1>3, HasTypedStays DEF HistoryInv
<1> QED BY <1>4, <1>5, <1>6 DEF HistoryInv

LEMMA NextProcessStep == ASSUME HistoryInv, NextProcess PROVE HistoryInv'
<1>1. /\ process' = process + 1 /\ cmd_counter' = 0 /\ cmd_recording_enabled' = TRUE
      /\ last_command' = "none" /\ UNCHANGED <<records, typed, reloaded>>
  BY DEF NextProcess
<1>t. \A i \in 1..Len(typed) : typed[i].process <= process /\ typed[i].process \in Nat
  <2>1. \A i \in 1..Len(typed) : typed[i] \in TypedLine
    BY ElementOfSeq DEF HistoryInv, HistoryTypeOK
  <2> QED BY <2>1 DEF HistoryInv, HistoryTypeOK, TypedLine
<1>2. HistoryTypeOK'
  <2>1. \A i \in 1..Len(typed) : typed[i].process <= process + 1
    BY <1>t DEF HistoryInv, HistoryTypeOK
  <2> QED BY <1>1, <2>1 DEF HistoryInv, HistoryTypeOK
<1>3. Counts'
  <2>1. \A j \in 1..Len(typed) : typed[j].process # process + 1
    BY <1>t DEF HistoryInv, HistoryTypeOK
  <2>2. Complete(process, Len(typed))' = {}
    BY <1>1, <2>1 DEF Complete
  <2>3. Cardinality(Complete(process, Len(typed))') = 0 /\ MaxSaved \in Nat
    BY <2>2, FS_EmptySet, HistoryAssumption
  <2> QED BY <1>1, <2>3 DEF Counts
<1>4. HistoryHasTyped'
  BY <1>1, HasTypedStays DEF HistoryInv
<1> QED BY <1>2, <1>3, <1>4 DEF HistoryInv

\* In every process the file of the history has the complete lines that were
\* typed, each once and in order (record_command), but loads of a file and
\* what comes when MAX_SAVED_CMDS are recorded; in place of a line that asked
\* "Choice" it has two blank ones (find_matching_param); until repeat loads a file.
THEOREM HistoryIsKept == HistorySpec => []HistoryHasTyped
<1>1. HistoryInv /\ [HistoryNext]_historyVars => HistoryInv'
  <2> SUFFICES ASSUME HistoryInv, [HistoryNext]_historyVars PROVE HistoryInv'
    OBVIOUS
  <2>1. ASSUME NEW l \in LineKinds, NEW asked \in BOOLEAN, TypeCommand(l, TRUE, asked) PROVE HistoryInv'
    BY <2>1, TypeCommandStep
  <2>2. ASSUME NEW asked \in BOOLEAN, TypeCommand("plain", FALSE, asked) PROVE HistoryInv'
    BY <2>2, TypeCommandStep DEF LineKinds
  <2>3. ASSUME HistoryOverruns \/ UNCHANGED historyVars PROVE HistoryInv'
    <3>1. UNCHANGED <<records, cmd_counter, cmd_recording_enabled, last_command, process, typed, reloaded>>
      BY <2>3 DEF HistoryOverruns, historyVars
    <3>2. HistoryTypeOK'
      BY <3>1 DEF HistoryInv, HistoryTypeOK
    <3>3. Counts'
      BY <3>1 DEF HistoryInv, Counts, Complete
    <3>4. HistoryHasTyped'
      BY <3>1, HasTypedStays DEF HistoryInv
    <3> QED BY <3>2, <3>3, <3>4 DEF HistoryInv
  <2> QED BY <2>1, <2>2, <2>3, RepeatStep, NextProcessStep DEF HistoryNext
<1>2. HistoryInv => HistoryHasTyped
  BY DEF HistoryInv
<1> QED BY <1>1, <1>2, HistoryInitInv, PTL DEF HistorySpec

(****************************************************************************)
(* The test driver: the types.                                              *)
(****************************************************************************)
Result == [pass : BOOLEAN, tc : Nat]
Activation ==
  [tc_no : Nat, current : Nat, results : Seq(Result), at : {"read", "skip", "sent"},
   cmd : Cmds \cup {<<>>}, in_case : BOOLEAN, proper : BOOLEAN]

DriverTypeOK ==
  /\ fate \in {"up", "hung", "dead"}
  /\ runs \in Seq(Activation)
  /\ \A i \in 1..Len(runs) : runs[i].at = "sent" => runs[i].cmd \in Cmds
  /\ running \in BOOLEAN
  /\ mq \in Seq(Messages)
  /\ surplus \in BOOLEAN /\ nested \in BOOLEAN

(****************************************************************************)
(* What happens to the activations: the running one changes, a new one is   *)
(* put on top of it, or it ends.                                            *)
(****************************************************************************)
LEMMA RunIsOne ==
  ASSUME runs \in Seq(Activation), runs # <<>>
  PROVE  Run \in Activation /\ Len(runs) \in 1..Len(runs)
  <1>1. Len(runs) \in Nat \ {0}
    BY EmptySeq
  <1>2. Len(runs) \in 1..Len(runs)
    BY <1>1
  <1> QED BY <1>2, ElementOfSeq DEF Run

LEMMA RunSet ==
  ASSUME runs \in Seq(Activation), runs # <<>>, NEW r \in Activation, SetRun(r)
  PROVE  /\ runs' \in Seq(Activation) /\ Len(runs') = Len(runs) /\ runs' # <<>> /\ Run' = r
         /\ \A i \in 1..Len(runs) : runs'[i] = IF i = Len(runs) THEN r ELSE runs[i]
  <1>1. Len(runs) \in 1..Len(runs) /\ Len(runs) \in Nat \ {0}
    BY RunIsOne, EmptySeq
  <1>2. runs' = [runs EXCEPT ![Len(runs)] = r]
    BY DEF SetRun
  <1>3. runs' \in Seq(Activation) /\ Len(runs') = Len(runs)
    BY <1>1, <1>2, ExceptSeq
  <1>4. \A i \in 1..Len(runs) : runs'[i] = IF i = Len(runs) THEN r ELSE runs[i]
    BY <1>2, LenProperties
  <1>5. runs' # <<>>
    BY <1>1, <1>3, EmptySeq
  <1> QED BY <1>1, <1>3, <1>4, <1>5 DEF Run

LEMMA RunEntered ==
  ASSUME runs \in Seq(Activation), NEW r \in Activation, runs' = Append(runs, r)
  PROVE  /\ runs' \in Seq(Activation) /\ Len(runs') = Len(runs) + 1 /\ runs' # <<>> /\ Run' = r
         /\ \A i \in 1..Len(runs) : runs'[i] = runs[i]
  <1>1. /\ runs' \in Seq(Activation) /\ Len(runs') = Len(runs) + 1
        /\ \A i \in 1..Len(runs) : runs'[i] = runs[i]
        /\ runs'[Len(runs) + 1] = r
    BY AppendProperties
  <1>2. Len(runs) \in Nat
    BY LenProperties
  <1>3. runs' # <<>>
    BY <1>1, <1>2, EmptySeq
  <1> QED BY <1>1, <1>3 DEF Run

LEMMA Popped ==
  ASSUME NEW S, NEW s \in Seq(S), NEW k \in 0..Len(s)
  PROVE  /\ SubSeq(s, 1, k) \in Seq(S) /\ Len(SubSeq(s, 1, k)) = k
         /\ \A i \in 1..k : SubSeq(s, 1, k)[i] = s[i]
  OBVIOUS

LEMMA RunLeft ==
  ASSUME runs \in Seq(Activation), runs # <<>>, runs' = SubSeq(runs, 1, Len(runs) - 1)
  PROVE  /\ runs' \in Seq(Activation) /\ Len(runs') = Len(runs) - 1
         /\ \A i \in 1..Len(runs) - 1 : runs'[i] = runs[i]
         /\ runs' # <<>> => Len(runs) - 1 \in 1..Len(runs) - 1 /\ Run' = runs[Len(runs) - 1]
  <1>1. Len(runs) \in Nat \ {0}
    BY EmptySeq
  <1>2. Len(runs) - 1 \in 0..Len(runs)
    BY <1>1
  <1>3. /\ runs' \in Seq(Activation) /\ Len(runs') = Len(runs) - 1
        /\ \A i \in 1..Len(runs) - 1 : runs'[i] = runs[i]
    BY <1>2, Popped
  <1>4. ASSUME runs' # <<>>
        PROVE  Len(runs) - 1 \in 1..Len(runs) - 1
    <2>1. Len(runs') \in Nat \ {0}
      BY <1>3, <1>4, EmptySeq
    <2> QED BY <1>1, <1>3, <2>1
  <1> QED BY <1>3, <1>4 DEF Run

LEMMA NewRunIsOne ==
  ASSUME NEW n \in TcNos
  PROVE  NewRun(n) \in Activation
  <1>1. n % TcWidth \in Nat
    BY UtAssumption
  <1>2. <<>> \in Seq(Result)
    OBVIOUS
  <1> QED BY <1>1, <1>2 DEF NewRun, Activation

LEMMA NoRuns ==
  /\ <<>> \in Seq(Activation) /\ <<>> \in Seq(Messages)
  /\ \A i \in 1..Len(<<>>) : FALSE
  BY EmptySeq

LEMMA UtInitTyped == UtInit => DriverTypeOK
  BY NoRuns DEF UtInit, DriverTypeOK

LEMMA DieTyped ==
  ASSUME DriverTypeOK, Die
  PROVE  DriverTypeOK'
  BY NoRuns DEF DriverTypeOK, Die

\* What the types need of an activation that changes, begins or ends.
RunsOK ==
  /\ runs \in Seq(Activation)
  /\ \A i \in 1..Len(runs) : runs[i].at = "sent" => runs[i].cmd \in Cmds

LEMMA SetTyped ==
  ASSUME RunsOK, runs # <<>>, NEW r \in Activation, r.at = "sent" => r.cmd \in Cmds, SetRun(r)
  PROVE  RunsOK'
  BY RunSet DEF RunsOK

LEMMA EnterTyped ==
  ASSUME RunsOK, NEW n \in TcNos, runs' = Append(runs, NewRun(n))
  PROVE  RunsOK'
  <1>1. NewRun(n) \in Activation /\ NewRun(n).at # "sent"
    BY NewRunIsOne DEF NewRun
  <1>2. Len(runs) \in Nat
    BY LenProperties DEF RunsOK
  <1>3. /\ runs' \in Seq(Activation) /\ Len(runs') = Len(runs) + 1
        /\ \A i \in 1..Len(runs) : runs'[i] = runs[i]
        /\ runs'[Len(runs) + 1] = NewRun(n)
    BY <1>1, AppendProperties DEF RunsOK
  <1>4. \A i \in 1..Len(runs') : i \in 1..Len(runs) \/ i = Len(runs) + 1
    BY <1>2, <1>3
  <1> QED BY <1>1, <1>3, <1>4 DEF RunsOK

LEMMA LeaveTyped ==
  ASSUME RunsOK, runs # <<>>, Leave
  PROVE  RunsOK' /\ running' \in BOOLEAN
  <1>1. /\ runs' \in Seq(Activation) /\ Len(runs') = Len(runs) - 1
        /\ \A i \in 1..Len(runs) - 1 : runs'[i] = runs[i]
    BY RunLeft DEF Leave, RunsOK
  <1>2. \A i \in 1..Len(runs) - 1 : i \in 1..Len(runs)
    BY LenProperties DEF RunsOK
  <1> QED BY <1>1, <1>2 DEF Leave, RunsOK

\* cli_out fills the queue and no more.
LEMMA CliOutTyped ==
  ASSUME NEW c \in Cmds, CliOut(c.outs), mq \in Seq(Messages)
  PROVE  mq' \in Seq(Messages) /\ (fate' = fate \/ fate' = "hung")
  <1>1. c.outs \in Seq(Messages)
    BY UtAssumption DEF CmdRecord
  <1>2. CASE ~running
    BY <1>2 DEF CliOut
  <1>3. CASE running /\ Len(c.outs) > MaxMq - Len(mq)
    <2>1. mq' = mq \o SubSeq(c.outs, 1, MaxMq - Len(mq)) /\ fate' = "hung"
      BY <1>3 DEF CliOut
    <2>2. Len(c.outs) \in Nat /\ Len(mq) \in Nat /\ MaxMq - Len(mq) \in Int
      BY <1>1, LenProperties, UtAssumption
    <2>3. \A i \in 1..MaxMq - Len(mq) : c.outs[i] \in Messages
      BY <1>1, <1>3, <2>2, ElementOfSeq
    <2>4. SubSeq(c.outs, 1, MaxMq - Len(mq)) \in Seq(Messages)
      BY <1>1, <2>2, <2>3, SubSeqProperties
    <2> QED BY <2>1, <2>4, ConcatProperties
  <1>4. CASE running /\ ~(Len(c.outs) > MaxMq - Len(mq))
    BY <1>1, <1>4, ConcatProperties DEF CliOut
  <1> QED BY <1>2, <1>3, <1>4

(****************************************************************************)
(* Types.                                                                   *)
(****************************************************************************)
LEMMA FoundTyped ==
  ASSUME DriverTypeOK, runs # <<>>, NEW n \in TcNos, Found(n)
  PROVE  DriverTypeOK'
  <1>1. Run \in Activation /\ n % TcWidth \in Nat
    BY RunIsOne, UtAssumption DEF DriverTypeOK
  <1> DEFINE r == [Run EXCEPT !.current = n % TcWidth, !.at = "read", !.in_case = TRUE,
                              !.proper = @ /\ ~Run.in_case]
  <1>2. r \in Activation /\ r.at = "read"
    BY <1>1 DEF Activation
  <1>3. RunsOK'
    BY <1>2, SetTyped DEF DriverTypeOK, RunsOK, Found
  <1> QED BY <1>3 DEF DriverTypeOK, RunsOK, Found

LEMMA SearchTyped ==
  ASSUME DriverTypeOK, runs # <<>>, NEW n \in TcNos, Search(n)
  PROVE  DriverTypeOK'
  <1>1. Run \in Activation /\ n % TcWidth \in Nat
    BY RunIsOne, UtAssumption DEF DriverTypeOK
  <1> DEFINE r == [Run EXCEPT !.current = n % TcWidth, !.at = "skip"]
  <1>2. r \in Activation /\ r.at = "skip"
    BY <1>1 DEF Activation
  <1>3. RunsOK'
    BY <1>2, SetTyped DEF DriverTypeOK, RunsOK, Search
  <1> QED BY <1>3 DEF DriverTypeOK, RunsOK, Search

LEMMA EndTyped ==
  ASSUME DriverTypeOK, runs # <<>>, End
  PROVE  DriverTypeOK'
  <1>1. CASE Run.tc_no # 0 /\ running
    BY <1>1, LeaveTyped DEF DriverTypeOK, RunsOK, End, Leave
  <1>2. CASE ~(Run.tc_no # 0 /\ running)
    <2>1. Run \in Activation /\ <<>> \in Seq(Result)
      BY RunIsOne, EmptySeq DEF DriverTypeOK
    <2> DEFINE r == [Run EXCEPT !.results = ResultsCleaned, !.in_case = FALSE]
    <2>2. r \in Activation /\ r.at = Run.at /\ Run.at = "read"
      BY <2>1 DEF Activation, ResultsCleaned, End, Reads
    <2>3. RunsOK'
      BY <1>2, <2>2, SetTyped DEF DriverTypeOK, RunsOK, End
    <2> QED BY <1>2, <2>3 DEF DriverTypeOK, RunsOK, End
  <1> QED BY <1>1, <1>2

LEMMA CmdTyped ==
  ASSUME DriverTypeOK, NEW c \in Cmds, Cmd(c)
  PROVE  DriverTypeOK'
  <1>1. Run \in Activation /\ runs # <<>>
    BY RunIsOne DEF DriverTypeOK, Cmd, Reads
  <1> DEFINE r == [Run EXCEPT !.at = "sent", !.cmd = c]
  <1>2. r \in Activation /\ r.cmd \in Cmds
    BY <1>1 DEF Activation
  <1>3. RunsOK'
    BY <1>1, <1>2, SetTyped DEF DriverTypeOK, RunsOK, Cmd
  <1>4. mq' \in Seq(Messages) /\ fate' \in {"up", "hung", "dead"}
    BY CliOutTyped DEF DriverTypeOK, Cmd
  <1> QED BY <1>3, <1>4 DEF DriverTypeOK, RunsOK, Cmd

LEMMA ReceiveTyped ==
  ASSUME DriverTypeOK, Receive
  PROVE  DriverTypeOK'
  <1>1. Run \in Activation /\ runs # <<>>
    BY RunIsOne DEF DriverTypeOK, Receive
  <1> DEFINE r == [Run EXCEPT !.at = "read", !.cmd = <<>>]
  <1>2. r \in Activation /\ r.at = "read"
    BY <1>1 DEF Activation
  <1>3. RunsOK'
    BY <1>1, <1>2, SetTyped DEF DriverTypeOK, RunsOK, Receive
  <1>4. mq' \in Seq(Messages)
    BY HeadTailProperties DEF DriverTypeOK, Receive
  <1> QED BY <1>3, <1>4 DEF DriverTypeOK, RunsOK, Receive

LEMMA PatternLineTyped ==
  ASSUME DriverTypeOK, NEW word, NEW match, PatternLine(word, match)
  PROVE  DriverTypeOK'
  <1> DEFINE pass == PatternMatch(recv, word) = match
             result == [pass |-> pass, tc |-> Run.current]
             r == [Run EXCEPT !.results = Append(@, result), !.proper = @ /\ Run.in_case]
  <1>1. Run \in Activation /\ runs # <<>> /\ Run.at = "read"
    BY RunIsOne DEF DriverTypeOK, PatternLine, Reads
  <1>2. result \in Result
    BY <1>1 DEF Result, Activation
  <1>3. r \in Activation /\ r.at = "read"
    <2> HIDE DEF result
    <2>1. Append(Run.results, result) \in Seq(Result)
      BY <1>1, <1>2, AppendProperties DEF Activation
    <2> QED BY <1>1, <2>1 DEF Activation
  <1>4. RunsOK'
    BY <1>1, <1>3, SetTyped DEF DriverTypeOK, RunsOK, PatternLine, TcAppendResult
  <1> QED BY <1>4 DEF DriverTypeOK, RunsOK, PatternLine

LEMMA DriverTypes == DriverTypeOK /\ [UtNext]_utVars => DriverTypeOK'
  <1> SUFFICES ASSUME DriverTypeOK, [UtNext]_utVars
               PROVE  DriverTypeOK'
    OBVIOUS
  <1>1. ASSUME NEW n \in TcNos, Enter(n)
        PROVE  DriverTypeOK'
    BY <1>1, EnterTyped DEF DriverTypeOK, RunsOK, Enter
  <1>2. ASSUME NEW n \in TcNos, RunUt(n) \/ ScriptRunUt(n)
        PROVE  DriverTypeOK'
    BY <1>1, <1>2, DieTyped DEF RunUt, ScriptRunUt, NoSuchFile
  <1>3. ASSUME NEW n \in TcNos, Begin(n) \/ BeginInSearch(n)
        PROVE  DriverTypeOK'
    BY <1>3, FoundTyped, SearchTyped DEF Begin, BeginInSearch, Reads
  <1>4. ASSUME EndOfFile \/ Abort
        PROVE  DriverTypeOK'
    BY <1>4, LeaveTyped DEF EndOfFile, Abort, Reads, Leave, DriverTypeOK, RunsOK
  <1>5. ASSUME End
        PROVE  DriverTypeOK'
    BY <1>5, EndTyped DEF End, Reads
  <1>6. ASSUME NEW c \in Cmds, Cmd(c)
        PROVE  DriverTypeOK'
    BY <1>6, CmdTyped
  <1>7. ASSUME CmdFails \/ Kill
        PROVE  DriverTypeOK'
    BY <1>7, DieTyped DEF CmdFails, Kill
  <1>8. ASSUME Receive
        PROVE  DriverTypeOK'
    BY <1>8, ReceiveTyped
  <1>9. ASSUME NEW word \in Words, GrepLine(word)
        PROVE  DriverTypeOK'
    BY <1>9 DEF GrepLine, DriverTypeOK
  <1>10. ASSUME NEW word \in Words, NEW match \in BOOLEAN, PatternLine(word, match)
         PROVE  DriverTypeOK'
    BY <1>10, PatternLineTyped
  <1>11. ASSUME NEW k \in Stores, NEW index \in 0..2, IntStore(k, index)
         PROVE  DriverTypeOK'
    <2>1. CASE Die
      BY <2>1, DieTyped
    <2>2. CASE UNCHANGED <<fate, runs, running, mq, recv, due, surplus, nested>>
      BY <2>2 DEF DriverTypeOK
    <2> QED BY <1>11, <2>1, <2>2 DEF IntStore
  <1>12. ASSUME Restart
         PROVE  DriverTypeOK'
    BY <1>12 DEF Restart, DriverTypeOK
  <1>13. CASE UNCHANGED utVars
    BY <1>13 DEF utVars, DriverTypeOK
  <1> QED BY <1>2, <1>3, <1>4, <1>5, <1>6, <1>7, <1>8, <1>9, <1>10, <1>11, <1>12, <1>13 DEF UtNext

(****************************************************************************)
(* The texts on their way from cli_out to the buffer.                       *)
(****************************************************************************)
AtSent == runs # <<>> /\ Run.at = "sent"
InFlight == IF AtSent /\ running THEN Run.cmd.outs ELSE <<>>

\* A run that is not the running one waits in a line of its script.
OuterReads == \A i \in 1..Len(runs) - 1 : runs[i].at # "sent"

QueueInv ==
  /\ DriverTypeOK
  /\ OuterReads
  /\ fate = "dead" => runs = <<>>
  /\ HungBySurplus
  /\ ~surplus => mq = InFlight
  /\ ~surplus /\ AtSent /\ running => Len(Run.cmd.outs) <= Expected(Run.cmd)
  /\ ~nested /\ runs # <<>> /\ Run.in_case => running
  /\ ~surplus /\ ~nested => recv = due

LEMMA QueueInit == UtInit => QueueInv
  <1> SUFFICES ASSUME UtInit
               PROVE  QueueInv
    OBVIOUS
  <1>1. DriverTypeOK
    BY UtInitTyped
  <1>2. OuterReads
    BY EmptySeq DEF UtInit, OuterReads
  <1> QED BY <1>1, <1>2 DEF UtInit, QueueInv, HungBySurplus, InFlight, AtSent

LEMMA SetOuter ==
  ASSUME DriverTypeOK, OuterReads, runs # <<>>, NEW r \in Activation, SetRun(r)
  PROVE  OuterReads'
  <1>1. /\ Len(runs') = Len(runs)
        /\ \A i \in 1..Len(runs) : runs'[i] = IF i = Len(runs) THEN r ELSE runs[i]
    BY RunSet DEF DriverTypeOK
  <1>2. Len(runs) \in Nat
    BY LenProperties DEF DriverTypeOK
  <1> QED BY <1>1, <1>2 DEF OuterReads

\* Whatever a run does that leaves its test case and the texts alone.
LEMMA QueueQuiet ==
  ASSUME QueueInv, runs # <<>>, Run.at # "sent", DriverTypeOK',
         NEW r \in Activation, SetRun(r), r.at # "sent",
         r.in_case => Run.in_case,
         UNCHANGED <<fate, running, mq, recv, due, surplus, nested>>
  PROVE  QueueInv'
  <1>1. OuterReads'
    BY SetOuter DEF QueueInv
  <1>2. runs' # <<>> /\ Run' = r
    BY RunSet DEF QueueInv, DriverTypeOK
  <1>3. ~AtSent /\ ~AtSent'
    BY <1>2 DEF AtSent
  <1>4. fate # "dead"
    BY DEF QueueInv
  <1>5. InFlight = <<>> /\ InFlight' = <<>>
    BY <1>3 DEF InFlight
  <1> QED BY <1>1, <1>2, <1>3, <1>4, <1>5 DEF QueueInv, HungBySurplus

LEMMA QueueFound ==
  ASSUME QueueInv, runs # <<>>, Run.at # "sent", NEW n \in TcNos, Found(n)
  PROVE  QueueInv'
  <1> DEFINE r == [Run EXCEPT !.current = n % TcWidth, !.at = "read", !.in_case = TRUE,
                              !.proper = @ /\ ~Run.in_case]
  <1>1. Run \in Activation /\ n % TcWidth \in Nat
    BY RunIsOne, UtAssumption DEF QueueInv, DriverTypeOK
  <1>2. r \in Activation /\ r.at = "read" /\ SetRun(r)
    BY <1>1 DEF Activation, Found
  <1>3. DriverTypeOK' /\ OuterReads' /\ runs' # <<>> /\ Run' = r
    <2> HIDE DEF r
    <2> QED BY <1>2, FoundTyped, SetOuter, RunSet DEF QueueInv, DriverTypeOK
  <1>4. ~AtSent /\ ~AtSent'
    BY <1>2, <1>3 DEF AtSent
  <1>5. InFlight = <<>> /\ InFlight' = <<>>
    BY <1>4 DEF InFlight
  <1>6. fate # "dead"
    BY DEF QueueInv
  <1> QED BY <1>3, <1>4, <1>5, <1>6 DEF QueueInv, HungBySurplus, Found

LEMMA QueueSearch ==
  ASSUME QueueInv, runs # <<>>, Run.at # "sent", NEW n \in TcNos, Search(n)
  PROVE  QueueInv'
  <1> DEFINE r == [Run EXCEPT !.current = n % TcWidth, !.at = "skip"]
  <1>1. Run \in Activation /\ n % TcWidth \in Nat
    BY RunIsOne, UtAssumption DEF QueueInv, DriverTypeOK
  <1>2. r \in Activation /\ r.at = "skip" /\ SetRun(r) /\ r.in_case = Run.in_case
    BY <1>1 DEF Activation, Search
  <1>3. DriverTypeOK'
    BY SearchTyped DEF QueueInv
  <1> HIDE DEF r
  <1> QED BY <1>2, <1>3, QueueQuiet DEF Search

LEMMA QueueLeave ==
  ASSUME QueueInv, runs # <<>>, Run.at # "sent", DriverTypeOK', Leave,
         UNCHANGED <<fate, mq, recv, due, surplus>>
  PROVE  QueueInv'
  <1>1. /\ Len(runs') = Len(runs) - 1
        /\ \A i \in 1..Len(runs) - 1 : runs'[i] = runs[i]
        /\ runs' # <<>> => Len(runs) - 1 \in 1..Len(runs) - 1 /\ Run' = runs[Len(runs) - 1]
    BY RunLeft DEF QueueInv, DriverTypeOK, Leave
  <1>2. Len(runs) \in Nat
    BY LenProperties DEF QueueInv, DriverTypeOK
  <1>3. OuterReads'
    BY <1>1, <1>2 DEF QueueInv, OuterReads
  <1>4. ~AtSent /\ ~AtSent'
    BY <1>1 DEF QueueInv, OuterReads, AtSent
  <1>5. InFlight = <<>> /\ InFlight' = <<>>
    BY <1>4 DEF InFlight
  <1>6. ASSUME ~nested', runs' # <<>>
        PROVE  ~nested /\ ~Run'.in_case
    <2>1. Len(runs) > 1 /\ Run' = runs[Len(runs) - 1]
      BY <1>1, <1>2, <1>6
    <2> QED BY <1>6, <2>1 DEF Leave
  <1>7. ASSUME fate = "dead"
        PROVE  FALSE
    BY <1>7 DEF QueueInv
  <1> QED BY <1>3, <1>4, <1>5, <1>6, <1>7 DEF QueueInv, HungBySurplus, Leave

LEMMA QueueEnter ==
  ASSUME QueueInv, fate = "up", NEW n \in TcNos, Enter(n), runs = <<>> \/ Run.at # "sent"
  PROVE  QueueInv'
  <1>1. NewRun(n) \in Activation /\ NewRun(n).at # "sent" /\ ~NewRun(n).in_case
    BY NewRunIsOne DEF NewRun
  <1>2. /\ Len(runs') = Len(runs) + 1 /\ runs' # <<>> /\ Run' = NewRun(n)
        /\ \A i \in 1..Len(runs) : runs'[i] = runs[i]
    BY <1>1, RunEntered DEF QueueInv, DriverTypeOK, Enter
  <1>3. DriverTypeOK'
    BY EnterTyped DEF QueueInv, DriverTypeOK, RunsOK, Enter
  <1>4. OuterReads'
    <2>1. Len(runs) \in Nat
      BY LenProperties DEF QueueInv, DriverTypeOK
    <2>2. ASSUME NEW i \in 1..Len(runs)
          PROVE  runs[i].at # "sent"
      <3>1. runs # <<>>
        BY <2>2, EmptySeq
      <3>2. i \in 1..Len(runs) - 1 \/ i = Len(runs)
        BY <2>1, <2>2
      <3> QED BY <3>1, <3>2 DEF QueueInv, OuterReads, Run
    <2> QED BY <1>2, <2>1, <2>2 DEF OuterReads
  <1>5. ~AtSent /\ ~AtSent'
    BY <1>1, <1>2 DEF AtSent
  <1>6. InFlight = <<>> /\ InFlight' = <<>>
    BY <1>5 DEF InFlight
  <1> QED BY <1>1, <1>2, <1>3, <1>4, <1>5, <1>6 DEF QueueInv, HungBySurplus, Enter

\* A process that ends leaves a surplus unless the queue is empty.
LEMMA QueueDie ==
  ASSUME QueueInv, Die
  PROVE  QueueInv'
  <1>1. DriverTypeOK'
    BY DieTyped DEF QueueInv
  <1>2. OuterReads'
    BY EmptySeq DEF Die, OuterReads
  <1> QED BY <1>1, <1>2 DEF QueueInv, HungBySurplus, InFlight, AtSent, Die

LEMMA QueueEnd ==
  ASSUME QueueInv, runs # <<>>, End
  PROVE  QueueInv'
  <1>1. DriverTypeOK'
    BY EndTyped DEF QueueInv
  <1>2. CASE Run.tc_no # 0 /\ running
    BY <1>1, <1>2, QueueLeave DEF End, Reads
  <1>3. CASE ~(Run.tc_no # 0 /\ running)
    <2>1. Run \in Activation /\ <<>> \in Seq(Result)
      BY RunIsOne, EmptySeq DEF QueueInv, DriverTypeOK
    <2> DEFINE r == [Run EXCEPT !.results = ResultsCleaned, !.in_case = FALSE]
    <2>2. r \in Activation /\ r.at = Run.at /\ Run.at = "read" /\ ~r.in_case /\ SetRun(r)
      BY <1>3, <2>1 DEF Activation, ResultsCleaned, End, Reads
    <2> HIDE DEF r
    <2> QED BY <1>1, <1>3, <2>2, QueueQuiet DEF End
  <1> QED BY <1>2, <1>3

\* An empty queue has room for the text of a show command.
LEMMA CliOutFits ==
  ASSUME NEW c \in Cmds, CliOut(c.outs), mq = <<>>, running, Len(c.outs) <= 1
  PROVE  mq' = c.outs /\ fate' = fate
  <1>1. c.outs \in Seq(Messages)
    BY UtAssumption DEF CmdRecord
  <1>2. Len(c.outs) \in Nat /\ Len(mq) = 0 /\ MaxMq - Len(mq) = MaxMq /\ MaxMq \in Nat \ {0}
    BY <1>1, EmptySeq, LenProperties, UtAssumption
  <1>3. ~(Len(c.outs) > MaxMq - Len(mq))
    BY <1>2
  <1>4. mq \o c.outs = c.outs
    BY <1>1, ConcatEmptySeq
  <1> QED BY <1>3, <1>4 DEF CliOut

LEMMA QueueCmd ==
  ASSUME QueueInv, NEW c \in Cmds, Cmd(c)
  PROVE  QueueInv'
  <1> DEFINE r == [Run EXCEPT !.at = "sent", !.cmd = c]
  <1>1. Run \in Activation /\ runs # <<>> /\ Run.at = "read" /\ fate = "up"
    BY RunIsOne DEF QueueInv, DriverTypeOK, Cmd, Reads
  <1>2. r \in Activation /\ r.at = "sent" /\ r.cmd = c /\ r.in_case = Run.in_case /\ SetRun(r)
    BY <1>1 DEF Activation, Cmd
  <1>3. DriverTypeOK'
    BY CmdTyped DEF QueueInv
  <1>4. OuterReads' /\ runs' # <<>> /\ Run' = r
    <2> HIDE DEF r
    <2> QED BY <1>1, <1>2, SetOuter, RunSet DEF QueueInv, DriverTypeOK
  <1>5. AtSent' /\ InFlight' = IF running THEN c.outs ELSE <<>>
    BY <1>2, <1>4 DEF AtSent, InFlight, Cmd
  <1>6. fate' = "up" \/ fate' = "hung"
    BY <1>1, CliOutTyped DEF QueueInv, DriverTypeOK, Cmd
  <1>7. ASSUME ~surplus'
        PROVE  /\ ~surplus /\ fate' = "up" /\ mq' = InFlight'
               /\ running => Len(c.outs) <= Expected(c)
    <2>1. ~surplus /\ (running => ~(Len(c.outs) > Expected(c)))
      BY <1>7 DEF Cmd
    <2>2. mq = <<>>
      BY <1>1, <2>1 DEF QueueInv, InFlight, AtSent
    <2>3. Len(c.outs) \in Nat /\ Expected(c) \in {0, 1}
      BY UtAssumption, LenProperties DEF CmdRecord, Expected
    <2>4. CASE running
      BY <1>1, <1>5, <2>1, <2>2, <2>3, <2>4, CliOutFits DEF Cmd
    <2>5. CASE ~running
      BY <1>1, <1>5, <2>1, <2>2, <2>5 DEF Cmd, CliOut
    <2> QED BY <2>1, <2>4, <2>5
  <1> HIDE DEF r
  <1>8. running' = running /\ nested' = nested /\ recv' = recv /\ due' = due
    BY DEF Cmd
  <1> QED BY <1>1, <1>2, <1>3, <1>4, <1>5, <1>6, <1>7, <1>8 DEF QueueInv, HungBySurplus

\* What a show command waits for is the only text in the queue, or there is none.
LEMMA QueueReceive ==
  ASSUME QueueInv, Receive
  PROVE  QueueInv'
  <1> DEFINE r == [Run EXCEPT !.at = "read", !.cmd = <<>>]
  <1>1. Run \in Activation /\ runs # <<>> /\ Run.at = "sent" /\ fate = "up"
    BY RunIsOne DEF QueueInv, DriverTypeOK, Receive
  <1>2. r \in Activation /\ r.at = "read" /\ r.in_case = Run.in_case /\ SetRun(r)
    BY <1>1 DEF Activation, Receive
  <1>3. DriverTypeOK'
    BY ReceiveTyped DEF QueueInv
  <1>4. OuterReads' /\ runs' # <<>> /\ Run' = r
    <2> HIDE DEF r
    <2> QED BY <1>1, <1>2, SetOuter, RunSet DEF QueueInv, DriverTypeOK
  <1>5. InFlight' = <<>> /\ ~AtSent'
    BY <1>2, <1>4 DEF AtSent, InFlight
  <1>6. Run.cmd \in Cmds
    BY <1>1, RunIsOne DEF QueueInv, DriverTypeOK, Run
  <1>7. Run.cmd.outs \in Seq(Messages) /\ Len(Run.cmd.outs) \in Nat /\ Run.cmd.show \in BOOLEAN
    BY <1>6, UtAssumption, LenProperties DEF CmdRecord
  <1>8. ASSUME ~surplus
        PROVE  mq' = <<>> /\ (~nested => recv' = due')
    <2>1. CASE running /\ Run.cmd.show
      <3>1. mq = Run.cmd.outs /\ Len(mq) <= 1
        BY <1>1, <1>8, <2>1 DEF QueueInv, InFlight, AtSent, Expected
      <3>2. CASE mq = <<>>
        BY <2>1, <3>1, <3>2 DEF Receive, Printed
      <3>3. CASE mq # <<>>
        <4>1. mq \in Seq(Messages) /\ Len(mq) \in Nat \ {0}
          BY <3>3, EmptySeq DEF QueueInv, DriverTypeOK
        <4>2. Len(mq) = 1
          <5>1. Len(mq) <= 1
            BY <3>1
          <5>2. \A k \in Nat \ {0} : k <= 1 => k = 1
            OBVIOUS
          <5> QED BY ONLY <4>1, <5>1, <5>2, Zenon
        <4>3. Head(mq) = mq[1] /\ Tail(mq) \in Seq(Messages) /\ Len(Tail(mq)) = 0
          BY <4>1, <4>2
        <4>4. Tail(mq) = <<>>
          BY <4>3, EmptySeq
        <4> QED BY <2>1, <3>1, <3>3, <4>3, <4>4 DEF Receive, Printed
      <3> QED BY <3>2, <3>3
    <2>2. CASE running /\ ~Run.cmd.show
      <3>1. mq = Run.cmd.outs /\ Len(Run.cmd.outs) <= 0
        BY <1>1, <1>8, <2>2 DEF QueueInv, InFlight, AtSent, Expected
      <3>2. mq = <<>>
        BY <1>7, <3>1, EmptySeq
      <3> QED BY <1>8, <2>2, <3>2 DEF QueueInv, Receive, Printed
    <2>3. CASE ~running
      <3>1. mq = <<>>
        BY <1>8, <2>3 DEF QueueInv, InFlight
      <3>2. ~nested => ~Run.in_case
        BY <1>1, <2>3 DEF QueueInv
      <3> QED BY <1>8, <2>3, <3>1, <3>2 DEF QueueInv, Receive, Printed
    <2> QED BY <2>1, <2>2, <2>3
  <1> HIDE DEF r
  <1>9. UNCHANGED <<fate, running, surplus, nested>>
    BY DEF Receive
  <1> QED BY <1>1, <1>2, <1>3, <1>4, <1>5, <1>8, <1>9 DEF QueueInv, HungBySurplus

LEMMA QueuePatternLine ==
  ASSUME QueueInv, NEW word, NEW match, PatternLine(word, match)
  PROVE  QueueInv'
  <1> DEFINE result == [pass |-> PatternMatch(recv, word) = match, tc |-> Run.current]
             r == [Run EXCEPT !.results = Append(@, result), !.proper = @ /\ Run.in_case]
  <1>1. Run \in Activation /\ runs # <<>> /\ Run.at = "read"
    BY RunIsOne DEF QueueInv, DriverTypeOK, PatternLine, Reads
  <1>2. result \in Result
    BY <1>1 DEF Result, Activation
  <1>3. r \in Activation /\ r.at = "read" /\ r.in_case = Run.in_case
    <2> HIDE DEF result
    <2>1. Append(Run.results, result) \in Seq(Result)
      BY <1>1, <1>2, AppendProperties DEF Activation
    <2> QED BY <1>1, <2>1 DEF Activation
  <1>4. SetRun(r)
    BY DEF PatternLine, TcAppendResult
  <1>5. DriverTypeOK'
    BY PatternLineTyped DEF QueueInv
  <1> HIDE DEF r
  <1> QED BY <1>1, <1>3, <1>4, <1>5, QueueQuiet DEF PatternLine

LEMMA QueueStep == QueueInv /\ [UtNext]_utVars => QueueInv'
  <1> SUFFICES ASSUME QueueInv, [UtNext]_utVars
               PROVE  QueueInv'
    OBVIOUS
  <1>0. DriverTypeOK'
    BY DriverTypes DEF QueueInv
  <1>1. ASSUME NEW n \in TcNos, RunUt(n) \/ ScriptRunUt(n)
        PROVE  QueueInv'
    BY <1>1, QueueEnter, QueueDie DEF RunUt, ScriptRunUt, NoSuchFile, Reads
  <1>2. ASSUME NEW n \in TcNos, Begin(n) \/ BeginInSearch(n)
        PROVE  QueueInv'
    BY <1>2, QueueFound, QueueSearch DEF Begin, BeginInSearch, Reads
  <1>3. ASSUME EndOfFile \/ Abort
        PROVE  QueueInv'
    BY <1>0, <1>3, QueueLeave DEF EndOfFile, Abort, Reads
  <1>4. ASSUME End
        PROVE  QueueInv'
    BY <1>4, QueueEnd DEF End, Reads
  <1>5. ASSUME NEW c \in Cmds, Cmd(c)
        PROVE  QueueInv'
    BY <1>5, QueueCmd
  <1>6. ASSUME CmdFails \/ Kill
        PROVE  QueueInv'
    BY <1>6, QueueDie DEF CmdFails, Kill
  <1>7. ASSUME Receive
        PROVE  QueueInv'
    BY <1>7, QueueReceive
  <1>8. ASSUME NEW word \in Words, GrepLine(word)
        PROVE  QueueInv'
    BY <1>0, <1>8 DEF GrepLine, QueueInv, OuterReads, HungBySurplus, InFlight, AtSent, Run
  <1>9. ASSUME NEW word \in Words, NEW match \in BOOLEAN, PatternLine(word, match)
        PROVE  QueueInv'
    BY <1>9, QueuePatternLine
  <1>10. ASSUME NEW k \in Stores, NEW index \in 0..2, IntStore(k, index)
         PROVE  QueueInv'
    <2>1. CASE Die
      BY <2>1, QueueDie
    <2>2. CASE UNCHANGED <<fate, runs, running, mq, recv, due, surplus, nested>>
      BY <1>0, <2>2 DEF QueueInv, OuterReads, HungBySurplus, InFlight, AtSent, Run
    <2> QED BY <1>10, <2>1, <2>2 DEF IntStore
  <1>11. ASSUME Restart
         PROVE  QueueInv'
    BY <1>0, <1>11 DEF Restart, QueueInv, OuterReads, HungBySurplus, InFlight, AtSent, Run
  <1>12. CASE UNCHANGED utVars
    BY <1>0, <1>12 DEF utVars, QueueInv, OuterReads, HungBySurplus, InFlight, AtSent, Run
  <1> QED BY <1>1, <1>2, <1>3, <1>4, <1>5, <1>6, <1>7, <1>8, <1>9, <1>10, <1>11, <1>12 DEF UtNext

\* The driver never waits for ever in cli_out unless a text lies in the queue
\* that no show command was to receive.
THEOREM DriverHungBySurplus == UtSpec => []HungBySurplus
  <1>1. UtInit => QueueInv
    BY QueueInit
  <1>2. QueueInv /\ [UtNext]_utVars => QueueInv'
    BY QueueStep
  <1>3. QueueInv => HungBySurplus
    BY DEF QueueInv
  <1> QED BY <1>1, <1>2, <1>3, PTL DEF UtSpec

\* What a test case judges is what its last show command printed, unless there
\* is such a text or a run inside the test case has ended.
THEOREM DriverBufferIsLastShow == UtSpec => []BufferIsLastShow
  <1>1. UtInit => QueueInv
    BY QueueInit
  <1>2. QueueInv /\ [UtNext]_utVars => QueueInv'
    BY QueueStep
  <1>3. QueueInv => BufferIsLastShow
    BY DEF QueueInv, BufferIsLastShow
  <1> QED BY <1>1, <1>2, <1>3, PTL DEF UtSpec

(****************************************************************************)
(* The results of each activation.                                          *)
(****************************************************************************)
OwnResults(r) ==
  /\ r.proper /\ ~r.in_case => r.results = <<>>
  /\ r.in_case /\ r.at # "skip" /\ r.tc_no # 0 => r.current = r.tc_no
  /\ r.proper /\ r.at # "skip" => \A j \in 1..Len(r.results) : r.results[j].tc = r.current

AllOwn == \A i \in 1..Len(runs) : OwnResults(runs[i])
ResultsInv == DriverTypeOK /\ AllOwn

LEMMA OwnSet ==
  ASSUME ResultsInv, runs # <<>>, NEW r \in Activation, SetRun(r), OwnResults(Run) => OwnResults(r)
  PROVE  AllOwn'
  <1>1. OwnResults(r)
    BY RunIsOne DEF ResultsInv, DriverTypeOK, AllOwn, Run
  <1>2. /\ Len(runs') = Len(runs)
        /\ \A i \in 1..Len(runs) : runs'[i] = IF i = Len(runs) THEN r ELSE runs[i]
    BY RunSet DEF ResultsInv, DriverTypeOK
  <1> QED BY <1>1, <1>2 DEF ResultsInv, AllOwn, OwnResults

LEMMA OwnEntered ==
  ASSUME ResultsInv, NEW n \in TcNos, Enter(n)
  PROVE  AllOwn'
  <1>1. NewRun(n) \in Activation
    BY NewRunIsOne
  <1>2. OwnResults(NewRun(n))
    BY EmptySeq DEF OwnResults, NewRun
  <1>3. /\ Len(runs') = Len(runs) + 1
        /\ \A i \in 1..Len(runs) : runs'[i] = runs[i]
        /\ runs'[Len(runs) + 1] = NewRun(n)
    BY <1>1, AppendProperties DEF ResultsInv, DriverTypeOK, Enter
  <1>4. \A i \in 1..Len(runs') : i \in 1..Len(runs) \/ i = Len(runs) + 1
    BY <1>3, LenProperties DEF ResultsInv, DriverTypeOK
  <1>5. ASSUME NEW i \in 1..Len(runs')
        PROVE  OwnResults(runs'[i])
    BY <1>2, <1>3, <1>4 DEF ResultsInv, AllOwn
  <1> QED BY <1>5 DEF AllOwn, OwnResults

LEMMA OwnLeft ==
  ASSUME ResultsInv, runs # <<>>, Leave
  PROVE  AllOwn'
  <1>1. Len(runs') = Len(runs) - 1 /\ \A i \in 1..Len(runs) - 1 : runs'[i] = runs[i]
    BY RunLeft DEF ResultsInv, DriverTypeOK, Leave
  <1>2. \A i \in 1..Len(runs) - 1 : i \in 1..Len(runs)
    BY LenProperties DEF ResultsInv, DriverTypeOK
  <1>3. ASSUME NEW i \in 1..Len(runs')
        PROVE  OwnResults(runs'[i])
    BY <1>1, <1>2 DEF ResultsInv, AllOwn
  <1> QED BY <1>3 DEF AllOwn, OwnResults

LEMMA OwnDead ==
  ASSUME Die
  PROVE  AllOwn'
  BY EmptySeq DEF Die, AllOwn

\* A test case begins: without results, if the one before was ended.
LEMMA OwnFound ==
  ASSUME ResultsInv, runs # <<>>, NEW n \in TcNos, Wanted(n), Found(n)
  PROVE  AllOwn'
  <1> DEFINE r == [Run EXCEPT !.current = n % TcWidth, !.at = "read", !.in_case = TRUE,
                              !.proper = @ /\ ~Run.in_case]
  <1>1. Run \in Activation /\ n % TcWidth \in Nat
    BY RunIsOne, UtAssumption DEF ResultsInv, DriverTypeOK
  <1>2. /\ r \in Activation /\ SetRun(r)
        /\ r.results = Run.results /\ r.in_case /\ r.tc_no = Run.tc_no /\ r.current = n % TcWidth
        /\ r.proper => Run.proper /\ ~Run.in_case
    BY <1>1 DEF Activation, Found
  <1>3. OwnResults(Run) => OwnResults(r)
    <2> HIDE DEF r
    <2>1. r.tc_no # 0 => r.current = r.tc_no
      BY <1>2 DEF Wanted
    <2>2. OwnResults(Run) /\ r.proper => r.results = <<>>
      BY <1>2 DEF OwnResults
    <2>3. OwnResults(Run) /\ r.proper => \A j \in 1..Len(r.results) : r.results[j].tc = r.current
      BY <2>2, EmptySeq
    <2> QED BY <1>2, <2>1, <2>3 DEF OwnResults
  <1> HIDE DEF r
  <1> QED BY <1>2, <1>3, OwnSet

LEMMA OwnSearch ==
  ASSUME ResultsInv, runs # <<>>, NEW n \in TcNos, Search(n)
  PROVE  AllOwn'
  <1> DEFINE r == [Run EXCEPT !.current = n % TcWidth, !.at = "skip"]
  <1>1. Run \in Activation /\ n % TcWidth \in Nat
    BY RunIsOne, UtAssumption DEF ResultsInv, DriverTypeOK
  <1>2. /\ r \in Activation /\ SetRun(r) /\ r.at = "skip"
        /\ r.results = Run.results /\ r.in_case = Run.in_case /\ r.proper = Run.proper
    BY <1>1 DEF Activation, Search
  <1> HIDE DEF r
  <1>3. OwnResults(Run) => OwnResults(r)
    BY <1>2 DEF OwnResults
  <1> QED BY <1>2, <1>3, OwnSet

LEMMA OwnEnd ==
  ASSUME ResultsInv, runs # <<>>, End
  PROVE  AllOwn'
  <1>1. CASE Run.tc_no # 0 /\ running
    BY <1>1, OwnLeft DEF End
  <1>2. CASE ~(Run.tc_no # 0 /\ running)
    <2>1. Run \in Activation /\ <<>> \in Seq(Result)
      BY RunIsOne, EmptySeq DEF ResultsInv, DriverTypeOK
    <2> DEFINE r == [Run EXCEPT !.results = ResultsCleaned, !.in_case = FALSE]
    <2>2. r \in Activation /\ SetRun(r) /\ r.results = <<>> /\ ~r.in_case
      BY <1>2, <2>1 DEF Activation, ResultsCleaned, End
    <2> HIDE DEF r
    <2>3. OwnResults(r)
      BY <2>2, EmptySeq DEF OwnResults
    <2> QED BY <2>2, <2>3, OwnSet
  <1> QED BY <1>1, <1>2

\* A command, and the return from it, leave the results alone.
LEMMA OwnCmd ==
  ASSUME ResultsInv, NEW c \in Cmds, Cmd(c)
  PROVE  AllOwn'
  <1> DEFINE r == [Run EXCEPT !.at = "sent", !.cmd = c]
  <1>1. Run \in Activation /\ runs # <<>> /\ Run.at = "read"
    BY RunIsOne DEF ResultsInv, DriverTypeOK, Cmd, Reads
  <1>2. /\ r \in Activation /\ SetRun(r) /\ r.at # "skip" /\ Run.at # "skip"
        /\ r.results = Run.results /\ r.in_case = Run.in_case /\ r.proper = Run.proper
        /\ r.current = Run.current /\ r.tc_no = Run.tc_no
    BY <1>1 DEF Activation, Cmd
  <1> HIDE DEF r
  <1>3. OwnResults(Run) => OwnResults(r)
    BY <1>2 DEF OwnResults
  <1> QED BY <1>1, <1>2, <1>3, OwnSet

LEMMA OwnReceive ==
  ASSUME ResultsInv, Receive
  PROVE  AllOwn'
  <1> DEFINE r == [Run EXCEPT !.at = "read", !.cmd = <<>>]
  <1>1. Run \in Activation /\ runs # <<>> /\ Run.at = "sent"
    BY RunIsOne DEF ResultsInv, DriverTypeOK, Receive
  <1>2. /\ r \in Activation /\ SetRun(r) /\ r.at # "skip" /\ Run.at # "skip"
        /\ r.results = Run.results /\ r.in_case = Run.in_case /\ r.proper = Run.proper
        /\ r.current = Run.current /\ r.tc_no = Run.tc_no
    BY <1>1 DEF Activation, Receive
  <1> HIDE DEF r
  <1>3. OwnResults(Run) => OwnResults(r)
    BY <1>2 DEF OwnResults
  <1> QED BY <1>1, <1>2, <1>3, OwnSet

\* A result outside a test case makes the script improper.
LEMMA OwnPatternLine ==
  ASSUME ResultsInv, NEW word, NEW match, PatternLine(word, match)
  PROVE  AllOwn'
  <1> DEFINE result == [pass |-> PatternMatch(recv, word) = match, tc |-> Run.current]
             r == [Run EXCEPT !.results = Append(@, result), !.proper = @ /\ Run.in_case]
  <1>1. Run \in Activation /\ runs # <<>> /\ Run.at = "read"
    BY RunIsOne DEF ResultsInv, DriverTypeOK, PatternLine, Reads
  <1>2. result \in Result /\ result.tc = Run.current
    BY <1>1 DEF Result, Activation
  <1>3. /\ r \in Activation /\ r.at = "read" /\ r.in_case = Run.in_case
        /\ r.results = Append(Run.results, result) /\ r.current = Run.current /\ r.tc_no = Run.tc_no
        /\ r.proper => Run.proper /\ Run.in_case
    <2> HIDE DEF result
    <2>1. Append(Run.results, result) \in Seq(Result)
      BY <1>1, <1>2, AppendProperties DEF Activation
    <2> QED BY <1>1, <2>1 DEF Activation
  <1>4. SetRun(r)
    BY DEF PatternLine, TcAppendResult
  <1>5. OwnResults(Run) => OwnResults(r)
    <2> HIDE DEF r, result
    <2>1. Run.results \in Seq(Result)
      BY <1>1 DEF Activation
    <2>2. ASSUME OwnResults(Run), r.proper, NEW j \in 1..Len(r.results)
          PROVE  r.results[j].tc = r.current
      <3>1. /\ Len(r.results) = Len(Run.results) + 1
            /\ \A i \in 1..Len(Run.results) : r.results[i] = Run.results[i]
            /\ r.results[Len(Run.results) + 1] = result
        BY <1>2, <1>3, <2>1, AppendProperties
      <3>2. j \in 1..Len(Run.results) \/ j = Len(Run.results) + 1
        BY <2>1, <3>1, LenProperties
      <3>3. \A i \in 1..Len(Run.results) : Run.results[i].tc = Run.current
        BY <1>1, <1>3, <2>2 DEF OwnResults
      <3> QED BY <1>2, <1>3, <3>1, <3>2, <3>3
    <2> QED BY <1>1, <1>3, <2>2 DEF OwnResults
  <1> HIDE DEF r
  <1> QED BY <1>1, <1>3, <1>4, <1>5, OwnSet

LEMMA ResultsStep == ResultsInv /\ [UtNext]_utVars => ResultsInv'
  <1> SUFFICES ASSUME ResultsInv, [UtNext]_utVars
               PROVE  AllOwn'
    BY DriverTypes DEF ResultsInv
  <1>1. ASSUME NEW n \in TcNos, RunUt(n) \/ ScriptRunUt(n)
        PROVE  AllOwn'
    BY <1>1, OwnEntered, OwnDead DEF RunUt, ScriptRunUt, NoSuchFile
  <1>2. ASSUME NEW n \in TcNos, Begin(n) \/ BeginInSearch(n)
        PROVE  AllOwn'
    BY <1>2, OwnFound, OwnSearch DEF Begin, BeginInSearch, Reads
  <1>3. ASSUME EndOfFile \/ Abort
        PROVE  AllOwn'
    BY <1>3, OwnLeft DEF EndOfFile, Abort, Reads
  <1>4. ASSUME End
        PROVE  AllOwn'
    BY <1>4, OwnEnd DEF End, Reads
  <1>5. ASSUME NEW c \in Cmds, Cmd(c)
        PROVE  AllOwn'
    BY <1>5, OwnCmd
  <1>6. ASSUME CmdFails \/ Kill
        PROVE  AllOwn'
    BY <1>6, OwnDead DEF CmdFails, Kill
  <1>7. ASSUME Receive
        PROVE  AllOwn'
    BY <1>7, OwnReceive
  <1>8. ASSUME NEW word \in Words, NEW match \in BOOLEAN, PatternLine(word, match)
        PROVE  AllOwn'
    BY <1>8, OwnPatternLine
  <1>9. CASE UNCHANGED runs
    BY <1>9 DEF ResultsInv, AllOwn, OwnResults
  <1>10. ASSUME NEW k \in Stores, NEW index \in 0..2, IntStore(k, index)
         PROVE  AllOwn'
    BY <1>9, <1>10, OwnDead DEF IntStore
  <1> QED BY <1>1, <1>2, <1>3, <1>4, <1>5, <1>6, <1>7, <1>8, <1>9, <1>10 DEF UtNext, GrepLine, Restart, utVars

\* The results that a test case prints are its own, and a run of one test case
\* has no others, in a script that keeps patterns inside test cases and ends one
\* before it begins the next.
THEOREM DriverResultsAreOwn == UtSpec => []ResultsAreOwn
  <1>1. UtInit => ResultsInv
    BY UtInitTyped, EmptySeq DEF UtInit, ResultsInv, AllOwn
  <1>2. ResultsInv /\ [UtNext]_utVars => ResultsInv'
    BY ResultsStep
  <1>3. ResultsInv => ResultsAreOwn
    <2> SUFFICES ASSUME ResultsInv,
                        NEW i \in 1..Len(runs), runs[i].proper, runs[i].at # "skip",
                        NEW j \in 1..Len(runs[i].results)
                 PROVE  /\ runs[i].results[j].tc = runs[i].current
                        /\ runs[i].tc_no # 0 => runs[i].current = runs[i].tc_no
      BY DEF ResultsAreOwn
    <2>1. OwnResults(runs[i])
      BY DEF ResultsInv, AllOwn
    <2>2. runs[i].results # <<>>
      BY EmptySeq
    <2> QED BY <2>1, <2>2 DEF OwnResults
  <1> QED BY <1>1, <1>2, <1>3, PTL DEF UtSpec

(****************************************************************************)
(* The numbers of a text.  StoresNumberSeen holds as leaving out words that *)
(* are no numbers leaves the numbers and their order.                       *)
(****************************************************************************)
\* KeptAt as its recursion: f[i] is what is kept of the first i elements.
LEMMA KeptAtIs ==
  ASSUME NEW S, NEW s \in Seq(S), NEW places
  PROVE  \E f \in [0..Len(s) -> Seq(S)] :
           /\ KeptAt(s, places) = f[Len(s)]
           /\ f[0] = <<>>
           /\ \A i \in 1..Len(s) : f[i] = IF i \in places THEN Append(f[i - 1], s[i]) ELSE f[i - 1]
<1> DEFINE Recursion(f) ==
             f = [i \in 0..Len(s) |->
                    IF i = 0 THEN <<>> ELSE IF i \in places THEN Append(f[i - 1], s[i]) ELSE f[i - 1]]
           step == [p \in (1..Len(s)) \X Seq(S) |-> IF p[1] \in places THEN Append(p[2], s[p[1]]) ELSE p[2]]
<1>1. Len(s) \in Nat /\ \A i \in 1..Len(s) : s[i] \in S
  BY LenProperties, ElementOfSeq
<1>2. <<>> \in Seq(S)
  BY EmptySeq
<1>3. step \in [(1..Len(s)) \X Seq(S) -> Seq(S)]
  BY <1>1, AppendProperties
<1>4. \A i \in 1..Len(s) : \A r \in Seq(S) : step[<<i, r>>] = IF i \in places THEN Append(r, s[i]) ELSE r
  OBVIOUS
<1>5. PICK n, none, T : n \in Nat /\ n = Len(s) /\ none = <<>> /\ T = Seq(S)
  BY <1>1
<1>6. PICK f : Steps(f, n, T, none, step)
  <2>1. none \in T /\ step \in [(1..n) \X T -> T]
    BY <1>2, <1>3, <1>5
  <2> HIDE DEF step
  <2> QED BY <1>5, <2>1, StepsExist
<1>7. f \in [0..Len(s) -> Seq(S)] /\ f[0] = <<>> /\ \A i \in 1..Len(s) : f[i] = step[<<i, f[i - 1]>>]
  BY <1>5, <1>6 DEF Steps
<1> HIDE DEF step
<1>8. \A i \in 1..Len(s) : f[i] = IF i \in places THEN Append(f[i - 1], s[i]) ELSE f[i - 1]
  <2> SUFFICES ASSUME NEW i \in 1..Len(s)
               PROVE  f[i] = IF i \in places THEN Append(f[i - 1], s[i]) ELSE f[i - 1]
    OBVIOUS
  <2>1. f[i - 1] \in Seq(S)
    <3>1. i - 1 \in 0..Len(s)
      BY <1>1
    <3> QED BY <1>7, <3>1
  <2> QED BY <1>4, <1>7, <2>1
<1>9. Recursion(f)
  <2>1. \A i \in 0..Len(s) : f[i] = IF i = 0 THEN <<>> ELSE IF i \in places THEN Append(f[i - 1], s[i]) ELSE f[i - 1]
    <3>1. \A i \in 0..Len(s) : i = 0 \/ i \in 1..Len(s)
      BY <1>1
    <3> QED BY <1>8, <1>7, <3>1
  <2>2. f = [i \in 0..Len(s) |-> f[i]]
    BY <1>7
  <2> QED BY <2>1, <2>2
<1>10. ASSUME NEW w, Recursion(w) PROVE w = f
  <2>1. w = [i \in 0..Len(s) |-> w[i]] /\ w[0] = <<>>
    BY <1>1, <1>10
  <2>2. \A i \in 1..Len(s) : w[i - 1] \in Seq(S) => w[i] = step[<<i, w[i - 1]>>]
    <3> SUFFICES ASSUME NEW i \in 1..Len(s), w[i - 1] \in Seq(S) PROVE w[i] = step[<<i, w[i - 1]>>]
      OBVIOUS
    <3>1. i \in 0..Len(s) /\ i # 0
      BY <1>1
    <3>2. w[i] = IF i \in places THEN Append(w[i - 1], s[i]) ELSE w[i - 1]
      BY <1>10, <3>1
    <3> QED BY <1>4, <3>2
  <2> HIDE DEF Recursion
  <2>3. StepsIn(w, n, T, none, step)
    BY <1>5, <2>1, <2>2 DEF StepsIn
  <2> QED BY <1>5, <1>6, <2>3, StepsUnique
<1>11. KeptAt(s, places) = f[Len(s)]
  <2>1. KeptAt(s, places) = (CHOOSE w : Recursion(w))[Len(s)]
    BY DEF KeptAt
  <2> HIDE DEF Recursion
  <2>2. (CHOOSE w : Recursion(w)) = f
    BY <1>9, <1>10
  <2> QED BY <2>1, <2>2
<1> QED BY <1>8, <1>11, <1>7

\* Flat as its recursion: f[i] is the first i sequences in one.
LEMMA FlatIs ==
  ASSUME NEW S, NEW s \in Seq(Seq(S))
  PROVE  \E f \in [0..Len(s) -> Seq(S)] :
           /\ Flat(s) = f[Len(s)]
           /\ f[0] = <<>>
           /\ \A i \in 1..Len(s) : f[i] = f[i - 1] \o s[i]
<1> DEFINE Recursion(f) == f = [i \in 0..Len(s) |-> IF i = 0 THEN <<>> ELSE f[i - 1] \o s[i]]
           step == [p \in (1..Len(s)) \X Seq(S) |-> p[2] \o s[p[1]]]
<1>1. Len(s) \in Nat /\ \A i \in 1..Len(s) : s[i] \in Seq(S)
  BY LenProperties, ElementOfSeq
<1>2. <<>> \in Seq(S)
  BY EmptySeq
<1>3. step \in [(1..Len(s)) \X Seq(S) -> Seq(S)]
  BY <1>1, ConcatProperties
<1>4. \A i \in 1..Len(s) : \A r \in Seq(S) : step[<<i, r>>] = r \o s[i]
  OBVIOUS
<1>5. PICK n, none, T : n \in Nat /\ n = Len(s) /\ none = <<>> /\ T = Seq(S)
  BY <1>1
<1>6. PICK f : Steps(f, n, T, none, step)
  <2>1. none \in T /\ step \in [(1..n) \X T -> T]
    BY <1>2, <1>3, <1>5
  <2> HIDE DEF step
  <2> QED BY <1>5, <2>1, StepsExist
<1>7. f \in [0..Len(s) -> Seq(S)] /\ f[0] = <<>> /\ \A i \in 1..Len(s) : f[i] = step[<<i, f[i - 1]>>]
  BY <1>5, <1>6 DEF Steps
<1> HIDE DEF step
<1>8. \A i \in 1..Len(s) : f[i] = f[i - 1] \o s[i]
  <2> SUFFICES ASSUME NEW i \in 1..Len(s) PROVE f[i] = f[i - 1] \o s[i]
    OBVIOUS
  <2>1. f[i - 1] \in Seq(S)
    <3>1. i - 1 \in 0..Len(s)
      BY <1>1
    <3> QED BY <1>7, <3>1
  <2> QED BY <1>4, <1>7, <2>1
<1>9. Recursion(f)
  <2>1. \A i \in 0..Len(s) : f[i] = IF i = 0 THEN <<>> ELSE f[i - 1] \o s[i]
    <3>1. \A i \in 0..Len(s) : i = 0 \/ i \in 1..Len(s)
      BY <1>1
    <3> QED BY <1>8, <1>7, <3>1
  <2>2. f = [i \in 0..Len(s) |-> f[i]]
    BY <1>7
  <2> QED BY <2>1, <2>2
<1>10. ASSUME NEW w, Recursion(w) PROVE w = f
  <2>1. w = [i \in 0..Len(s) |-> w[i]] /\ w[0] = <<>>
    BY <1>1, <1>10
  <2>2. \A i \in 1..Len(s) : w[i - 1] \in Seq(S) => w[i] = step[<<i, w[i - 1]>>]
    <3> SUFFICES ASSUME NEW i \in 1..Len(s), w[i - 1] \in Seq(S) PROVE w[i] = step[<<i, w[i - 1]>>]
      OBVIOUS
    <3>1. i \in 0..Len(s) /\ i # 0
      BY <1>1
    <3>2. w[i] = w[i - 1] \o s[i]
      BY <1>10, <3>1
    <3> QED BY <1>4, <3>2
  <2> HIDE DEF Recursion
  <2>3. StepsIn(w, n, T, none, step)
    BY <1>5, <2>1, <2>2 DEF StepsIn
  <2> QED BY <1>5, <1>6, <2>3, StepsUnique
<1>11. Flat(s) = f[Len(s)]
  <2>1. Flat(s) = (CHOOSE w : Recursion(w))[Len(s)]
    BY DEF Flat
  <2> HIDE DEF Recursion
  <2>2. (CHOOSE w : Recursion(w)) = f
    BY <1>9, <1>10
  <2> QED BY <2>1, <2>2
<1> QED BY <1>8, <1>11, <1>7

\* What is kept of a sequence are elements of it.
LEMMA GrepTyped ==
  ASSUME NEW lines \in Seq(Seq(Words)), NEW word
  PROVE  Grep(lines, word) \in Seq(Seq(Words))
<1> DEFINE places == {i \in 1..Len(lines) : LineHas(lines[i], word)}
<1> HIDE DEF places
<1>1. PICK f \in [0..Len(lines) -> Seq(Seq(Words))] : KeptAt(lines, places) = f[Len(lines)]
  BY KeptAtIs
<1>2. Len(lines) \in 0..Len(lines)
  BY LenProperties
<1> QED BY <1>1, <1>2 DEF Grep, places

\* Numbers as its recursion.
LEMMA NumbersAre ==
  ASSUME NEW s \in Seq(Words)
  PROVE  \E f \in [0..Len(s) -> Seq(Words)] :
           /\ Numbers(s) = f[Len(s)]
           /\ f[0] = <<>>
           /\ \A i \in 1..Len(s) : f[i] = IF s[i] \in DOMAIN Number THEN Append(f[i - 1], s[i]) ELSE f[i - 1]
<1> DEFINE places == {i \in 1..Len(s) : s[i] \in DOMAIN Number}
<1>1. \A i \in 1..Len(s) : i \in places <=> s[i] \in DOMAIN Number
  OBVIOUS
<1>2. Numbers(s) = KeptAt(s, places)
  BY DEF Numbers
<1> HIDE DEF places
<1>3. PICK f \in [0..Len(s) -> Seq(Words)] :
        /\ KeptAt(s, places) = f[Len(s)]
        /\ f[0] = <<>>
        /\ \A i \in 1..Len(s) : f[i] = IF i \in places THEN Append(f[i - 1], s[i]) ELSE f[i - 1]
  BY KeptAtIs
<1> QED BY <1>1, <1>2, <1>3

LEMMA AppendConcat ==
  ASSUME NEW r \in Seq(Words), NEW s \in Seq(Words), NEW w \in Words
  PROVE  Append(r \o s, w) = r \o Append(s, w)
<1>1. r \o s \in Seq(Words) /\ <<w>> \in Seq(Words)
  BY ConcatProperties
<1>2. Append(r \o s, w) = (r \o s) \o <<w>> /\ Append(s, w) = s \o <<w>>
  BY <1>1, AppendIsConcat
<1>3. (r \o s) \o <<w>> = r \o (s \o <<w>>)
  BY <1>1, ConcatAssociative
<1> QED BY <1>2, <1>3

\* The numbers of two texts in one are those of the first and those of the other.
LEMMA NumbersOfBoth ==
  ASSUME NEW r \in Seq(Words), NEW s \in Seq(Words)
  PROVE  Numbers(r \o s) = Numbers(r) \o Numbers(s)
<1> DEFINE t == r \o s
<1>1. /\ t \in Seq(Words) /\ Len(t) = Len(r) + Len(s) /\ Len(r) \in Nat /\ Len(s) \in Nat
      /\ \A i \in 1..Len(r) + Len(s) : t[i] = IF i <= Len(r) THEN r[i] ELSE s[i - Len(r)]
      /\ \A i \in 1..Len(r) : r[i] \in Words
      /\ \A i \in 1..Len(s) : s[i] \in Words
  BY ConcatProperties, LenProperties, ElementOfSeq
<1> HIDE DEF t
<1>2. PICK f \in [0..Len(r) -> Seq(Words)] :
        /\ Numbers(r) = f[Len(r)] /\ f[0] = <<>>
        /\ \A i \in 1..Len(r) : f[i] = IF r[i] \in DOMAIN Number THEN Append(f[i - 1], r[i]) ELSE f[i - 1]
  BY NumbersAre
<1>3. PICK g \in [0..Len(s) -> Seq(Words)] :
        /\ Numbers(s) = g[Len(s)] /\ g[0] = <<>>
        /\ \A i \in 1..Len(s) : g[i] = IF s[i] \in DOMAIN Number THEN Append(g[i - 1], s[i]) ELSE g[i - 1]
  BY NumbersAre
<1>4. PICK h \in [0..Len(t) -> Seq(Words)] :
        /\ Numbers(t) = h[Len(t)] /\ h[0] = <<>>
        /\ \A i \in 1..Len(t) : h[i] = IF t[i] \in DOMAIN Number THEN Append(h[i - 1], t[i]) ELSE h[i - 1]
  BY <1>1, NumbersAre
<1>5. h[Len(r)] = f[Len(r)]
  <2> DEFINE T == {i \in 0..Len(r) : h[i] # f[i]}
  <2>0. Len(r) \in 0..Len(r)
    BY <1>1
  <2> SUFFICES ASSUME T # {} PROVE FALSE
    BY <2>0
  <2>1. T \subseteq Nat
    OBVIOUS
  <2>2. PICK i \in T : \A k \in T : i <= k
    <3> HIDE DEF T
    <3> QED BY <2>1, LeastNumber
  <2>3. i \in 0..Len(r) /\ h[i] # f[i]
    OBVIOUS
  <2>4. i # 0
    BY <1>2, <1>4, <2>3
  <2>5. i - 1 \notin T
    <3> HIDE DEF T
    <3> QED BY <1>1, <2>2, <2>3
  <2>6. h[i - 1] = f[i - 1]
    BY <1>1, <2>3, <2>4, <2>5
  <2> HIDE DEF T
  <2>7. i \in 1..Len(r) /\ i \in 1..Len(t) /\ t[i] = r[i]
    BY <1>1, <2>3, <2>4
  <2> QED BY <1>2, <1>4, <2>3, <2>6, <2>7
<1>6. \A j \in 0..Len(s) : h[Len(r) + j] = f[Len(r)] \o g[j]
  <2> DEFINE T == {j \in 0..Len(s) : h[Len(r) + j] # f[Len(r)] \o g[j]}
  <2> SUFFICES ASSUME T # {} PROVE FALSE
    OBVIOUS
  <2>1. T \subseteq Nat
    OBVIOUS
  <2>2. PICK j \in T : \A k \in T : j <= k
    <3> HIDE DEF T
    <3> QED BY <2>1, LeastNumber
  <2>3. j \in 0..Len(s) /\ h[Len(r) + j] # f[Len(r)] \o g[j]
    OBVIOUS
  <2>4. f[Len(r)] \in Seq(Words)
    <3>1. Len(r) \in 0..Len(r)
      BY <1>1
    <3> QED BY <1>2, <3>1
  <2>5. j # 0
    <3>1. f[Len(r)] \o <<>> = f[Len(r)]
      BY <2>4, ConcatEmptySeq
    <3>2. Len(r) + 0 = Len(r)
      BY <1>1
    <3> QED BY <1>3, <1>5, <2>3, <3>1, <3>2
  <2>6. j - 1 \notin T
    <3> HIDE DEF T
    <3> QED BY <1>1, <2>2, <2>3
  <2>7. h[Len(r) + (j - 1)] = f[Len(r)] \o g[j - 1]
    <3>1. j - 1 \in 0..Len(s)
      BY <1>1, <2>3, <2>5
    <3> QED BY <2>6, <3>1
  <2> HIDE DEF T
  <2>8. /\ j \in 1..Len(s) /\ j - 1 \in 0..Len(s) /\ Len(r) + j \in 1..Len(t)
        /\ (Len(r) + j) - 1 = Len(r) + (j - 1)
    BY <1>1, <2>3, <2>5
  <2>9. t[Len(r) + j] = s[j]
    <3>1. ~(Len(r) + j <= Len(r)) /\ (Len(r) + j) - Len(r) = j /\ Len(r) + j \in 1..Len(r) + Len(s)
      BY <1>1, <2>8
    <3> QED BY <1>1, <3>1
  <2>10. h[Len(r) + j] = IF s[j] \in DOMAIN Number THEN Append(f[Len(r)] \o g[j - 1], s[j]) ELSE f[Len(r)] \o g[j - 1]
    BY <1>4, <2>7, <2>8, <2>9
  <2>11. g[j] = IF s[j] \in DOMAIN Number THEN Append(g[j - 1], s[j]) ELSE g[j - 1]
    BY <1>3, <2>8
  <2>12. Append(f[Len(r)] \o g[j - 1], s[j]) = f[Len(r)] \o Append(g[j - 1], s[j])
    <3>1. g[j - 1] \in Seq(Words)
      BY <1>3, <2>8
    <3>2. s[j] \in Words
      BY <1>1, <2>8
    <3> DEFINE a == f[Len(r)]
               c == g[j - 1]
               w == s[j]
    <3>3. a \in Seq(Words) /\ c \in Seq(Words) /\ w \in Words
      BY <2>4, <3>1, <3>2
    <3> HIDE DEF a, c, w
    <3>4. Append(a \o c, w) = a \o Append(c, w)
      BY <3>3, AppendConcat
    <3> QED BY <3>4 DEF a, c, w
  <2> QED BY <2>3, <2>10, <2>11, <2>12
<1>7. h[Len(t)] = f[Len(r)] \o g[Len(s)]
  BY <1>1, <1>6
<1> QED BY <1>2, <1>3, <1>4, <1>7 DEF t

LEMMA NumbersOfOne ==
  ASSUME NEW w \in Words, w \notin DOMAIN Number
  PROVE  Numbers(<<w>>) = <<>> /\ <<w>> \in Seq(Words)
<1>1. <<w>> \in Seq(Words) /\ Len(<<w>>) = 1 /\ <<w>>[1] = w
  OBVIOUS
<1>2. PICK f \in [0..Len(<<w>>) -> Seq(Words)] :
        /\ Numbers(<<w>>) = f[Len(<<w>>)] /\ f[0] = <<>>
        /\ \A i \in 1..Len(<<w>>) : f[i] = IF <<w>>[i] \in DOMAIN Number THEN Append(f[i - 1], <<w>>[i]) ELSE f[i - 1]
  BY <1>1, NumbersAre
<1>3. f[1] = f[1 - 1]
  BY <1>1, <1>2
<1> QED BY <1>1, <1>2, <1>3

\* A line without its ends has the same numbers, if the ends are none.
LEMMA NumbersWithoutEnds ==
  ASSUME NEW s \in Seq(Words), NEW first \in {1, 2},
         s # <<>> => s[1] \notin DOMAIN Number /\ s[Len(s)] \notin DOMAIN Number
  PROVE  SubSeq(s, first, Len(s) - 1) \in Seq(Words) /\ Numbers(SubSeq(s, first, Len(s) - 1)) = Numbers(s)
<1>1. Len(s) \in Nat /\ (\A i \in 1..Len(s) : s[i] \in Words) /\ (s # <<>> => Len(s) # 0)
  BY LenProperties, ElementOfSeq, EmptySeq
<1>2. SubSeq(s, first, Len(s) - 1) \in Seq(Words) /\ SubSeq(s, 1, Len(s) - 1) \in Seq(Words)
  <2>1. \A i \in first..(Len(s) - 1) : s[i] \in Words
    BY <1>1
  <2>2. \A i \in 1..(Len(s) - 1) : s[i] \in Words
    BY <1>1
  <2> QED BY <1>1, <2>1, <2>2, SubSeqProperties
<1>3. CASE s = <<>>
  <2>1. SubSeq(s, first, Len(s) - 1) = <<>>
    <3>1. Len(s) = 0 /\ Len(s) - 1 < first /\ Len(s) - 1 \in Int /\ first \in Int
      BY <1>3, EmptySeq
    <3> QED BY <3>1, SubSeqEmpty
  <2> QED BY <1>2, <1>3, <2>1
<1>4. CASE s # <<>>
  <2>0. Len(s) \in 1..Len(s) /\ 1 \in 1..Len(s)
    BY <1>1, <1>4
  <2>1. s = SubSeq(s, 1, Len(s) - 1) \o <<s[Len(s)]>>
    <3>1. SubSeq(s, 1, Len(s)) = SubSeq(s, 1, Len(s) - 1) \o <<s[Len(s)]>>
      BY <2>0, SubSeqRecursiveSecond
    <3> QED BY <3>1, SubSeqFull
  <2>2. Numbers(<<s[Len(s)]>>) = <<>> /\ <<s[Len(s)]>> \in Seq(Words)
    BY <1>1, <1>4, <2>0, NumbersOfOne
  <2>3. Numbers(s) = Numbers(SubSeq(s, 1, Len(s) - 1)) \o <<>>
    BY <1>2, <2>1, <2>2, NumbersOfBoth
  <2>4. \A r \in Seq(Words) : Numbers(r) \in Seq(Words)
    <3> SUFFICES ASSUME NEW r \in Seq(Words) PROVE Numbers(r) \in Seq(Words)
      OBVIOUS
    <3>1. PICK f \in [0..Len(r) -> Seq(Words)] : Numbers(r) = f[Len(r)]
      BY NumbersAre
    <3> QED BY <3>1, LenProperties
  <2>5. Numbers(s) = Numbers(SubSeq(s, 1, Len(s) - 1))
    BY <1>2, <2>3, <2>4, ConcatEmptySeq
  <2>6. CASE first = 2
    <3>1. CASE Len(s) = 1
      <4>1. SubSeq(s, 1, Len(s) - 1) = <<>> /\ SubSeq(s, 2, Len(s) - 1) = <<>>
        BY <3>1, SubSeqEmpty
      <4> QED BY <1>2, <2>5, <2>6, <4>1
    <3>2. CASE Len(s) # 1
      <4>1. 1 \in 1..Len(s) /\ Len(s) - 1 \in 1..Len(s)
        <5>1. Len(s) \in Nat /\ Len(s) \in 1..Len(s) /\ Len(s) # 1
          BY <1>1, <2>0, <3>2
        <5> DEFINE n == Len(s)
        <5> HIDE DEF n
        <5>2. n \in Nat /\ n \in 1..n /\ n # 1
          BY <5>1 DEF n
        <5>3. 1 \in 1..n /\ n - 1 \in 1..n
          BY <5>2
        <5> QED BY <5>3 DEF n
      <4>2. SubSeq(s, 1, Len(s) - 1) = <<s[1]>> \o SubSeq(s, 1 + 1, Len(s) - 1)
        BY <4>1, SubSeqRecursiveFirst
      <4>3. SubSeq(s, 1, Len(s) - 1) = <<s[1]>> \o SubSeq(s, 2, Len(s) - 1)
        BY <4>2
      <4>4. Numbers(<<s[1]>>) = <<>> /\ <<s[1]>> \in Seq(Words)
        BY <1>1, <1>4, <2>0, NumbersOfOne
      <4>5. Numbers(s) = <<>> \o Numbers(SubSeq(s, 2, Len(s) - 1))
        BY <1>2, <2>5, <2>6, <4>3, <4>4, NumbersOfBoth
      <4> QED BY <1>2, <2>4, <2>6, <4>5, ConcatEmptySeq
    <3> QED BY <3>1, <3>2
  <2> QED BY <1>2, <2>5, <2>6
<1> QED BY <1>3, <1>4

\* Sequences that have the same numbers one by one have them in one, too.
LEMMA NumbersOfFlat ==
  ASSUME NEW s \in Seq(Seq(Words)), NEW t \in Seq(Seq(Words)), Len(s) = Len(t),
         \A i \in 1..Len(s) : Numbers(s[i]) = Numbers(t[i])
  PROVE  Numbers(Flat(s)) = Numbers(Flat(t))
<1>1. Len(s) \in Nat /\ \A i \in 1..Len(s) : s[i] \in Seq(Words) /\ t[i] \in Seq(Words)
  BY LenProperties, ElementOfSeq
<1>2. PICK f \in [0..Len(s) -> Seq(Words)] :
        Flat(s) = f[Len(s)] /\ f[0] = <<>> /\ \A i \in 1..Len(s) : f[i] = f[i - 1] \o s[i]
  BY FlatIs
<1>3. PICK g \in [0..Len(s) -> Seq(Words)] :
        Flat(t) = g[Len(s)] /\ g[0] = <<>> /\ \A i \in 1..Len(s) : g[i] = g[i - 1] \o t[i]
  BY FlatIs
<1> DEFINE T == {i \in 0..Len(s) : Numbers(f[i]) # Numbers(g[i])}
<1>4. T = {}
  <2> SUFFICES ASSUME T # {} PROVE FALSE
    OBVIOUS
  <2>1. T \subseteq Nat
    OBVIOUS
  <2>2. PICK i \in T : \A k \in T : i <= k
    <3> HIDE DEF T
    <3> QED BY <2>1, LeastNumber
  <2>3. i \in 0..Len(s) /\ Numbers(f[i]) # Numbers(g[i])
    OBVIOUS
  <2>4. i # 0
    BY <1>2, <1>3, <2>3
  <2>5. i - 1 \notin T
    <3> HIDE DEF T
    <3> QED BY <1>1, <2>2, <2>3
  <2>6. i \in 1..Len(s) /\ i - 1 \in 0..Len(s)
    BY <1>1, <2>3, <2>4
  <2>7. Numbers(f[i - 1]) = Numbers(g[i - 1])
    BY <2>5, <2>6
  <2> HIDE DEF T
  <2>8. f[i - 1] \in Seq(Words) /\ g[i - 1] \in Seq(Words) /\ s[i] \in Seq(Words) /\ t[i] \in Seq(Words)
    BY <1>1, <2>6
  <2>9. Numbers(f[i - 1] \o s[i]) = Numbers(f[i - 1]) \o Numbers(s[i])
    BY <2>8, NumbersOfBoth
  <2>10. Numbers(g[i - 1] \o t[i]) = Numbers(g[i - 1]) \o Numbers(t[i])
    BY <2>8, NumbersOfBoth
  <2>11. f[i] = f[i - 1] \o s[i] /\ g[i] = g[i - 1] \o t[i] /\ Numbers(s[i]) = Numbers(t[i])
    BY <1>2, <1>3, <2>6
  <2> QED BY <2>3, <2>7, <2>9, <2>10, <2>11
<1>5. Len(s) \notin T /\ Len(s) \in 0..Len(s)
  BY <1>1, <1>4
<1>6. Numbers(f[Len(s)]) = Numbers(g[Len(s)])
  BY <1>5
<1> QED BY <1>2, <1>3, <1>6

LEMMA NumbersOfText ==
  ASSUME NEW lines \in Seq(Seq(Words)), NumbersInside(lines)
  PROVE  Numbers(Apart(lines)) = Numbers(Flat(lines))
<1> DEFINE t == [i \in 1..Len(lines) |-> SubSeq(lines[i], IF i = 1 THEN 1 ELSE 2, Len(lines[i]) - 1)]
<1>1. Len(lines) \in Nat /\ \A i \in 1..Len(lines) : lines[i] \in Seq(Words)
  BY LenProperties, ElementOfSeq
<1>2. ASSUME NEW i \in 1..Len(lines) PROVE t[i] \in Seq(Words) /\ Numbers(t[i]) = Numbers(lines[i])
  <2>1. PICK first \in {1, 2} : first = IF i = 1 THEN 1 ELSE 2
    OBVIOUS
  <2>2. lines[i] # <<>> => lines[i][1] \notin DOMAIN Number /\ lines[i][Len(lines[i])] \notin DOMAIN Number
    BY DEF NumbersInside
  <2>3. t[i] = SubSeq(lines[i], first, Len(lines[i]) - 1)
    BY <2>1
  <2> HIDE DEF t
  <2> QED BY <1>1, <2>2, <2>3, NumbersWithoutEnds
<1>3. t \in Seq(Seq(Words)) /\ Len(t) = Len(lines)
  BY <1>1, <1>2
<1>4. Apart(lines) = Flat(t)
  BY DEF Apart
<1> HIDE DEF t
<1> QED BY <1>2, <1>3, <1>4, NumbersOfFlat

TextsOK == DriverTypeOK /\ recv \in Seq(Seq(Words)) /\ int_store = [k \in Stores |-> int_store[k]]

LEMMA TextsStep == TextsOK /\ [UtNext]_utVars => TextsOK'
<1> SUFFICES ASSUME TextsOK, [UtNext]_utVars PROVE TextsOK'
  OBVIOUS
<1>1. DriverTypeOK /\ DriverTypeOK'
  BY DriverTypes DEF TextsOK
<1>0. /\ <<>> \in Seq(Seq(Words)) /\ Messages \subseteq Seq(Seq(Words))
      /\ recv \in Seq(Seq(Words)) /\ int_store = [k \in Stores |-> int_store[k]]
  BY EmptySeq, UtAssumption DEF TextsOK
<1>2. CASE UNCHANGED <<recv, int_store>>
  BY <1>0, <1>1, <1>2 DEF TextsOK
<1>3. CASE Die
  BY <1>0, <1>1, <1>3 DEF TextsOK, Die, NoStores
<1>4. CASE Receive
  <2>1. recv' \in Seq(Seq(Words))
    <3>1. mq # <<>> => Head(mq) \in Messages
      BY <1>1, HeadTailProperties DEF DriverTypeOK
    <3> QED BY <1>0, <1>4, <3>1 DEF Receive
  <2> QED BY <1>0, <1>1, <1>4, <2>1 DEF TextsOK, Receive
<1>5. ASSUME NEW word \in Words, GrepLine(word) PROVE TextsOK'
  <2>1. recv' \in Seq(Seq(Words)) /\ int_store' = int_store
    BY <1>0, <1>5, GrepTyped DEF GrepLine
  <2> QED BY <1>0, <1>1, <2>1 DEF TextsOK
<1>6. ASSUME NEW k \in Stores, NEW index \in 0..2, IntStore(k, index) PROVE TextsOK'
  <2>1. CASE index = 0
    BY <1>3, <1>6, <2>1 DEF IntStore
  <2>2. CASE index # 0
    <3>1. recv' = recv /\ int_store' = [int_store EXCEPT ![k] = StringFetchInteger(recv, index)]
      BY <1>6, <2>2 DEF IntStore
    <3> QED BY <1>0, <1>1, <3>1 DEF TextsOK
  <2> QED BY <2>1, <2>2
<1>7. ASSUME NEW n \in TcNos, RunUt(n) \/ ScriptRunUt(n) \/ Begin(n) \/ BeginInSearch(n)
      PROVE  TextsOK'
  <2>1. Die \/ UNCHANGED <<recv, int_store>>
    BY <1>7 DEF RunUt, ScriptRunUt, Begin, BeginInSearch, Enter, NoSuchFile, Found, Search
  <2> QED BY <1>2, <1>3, <2>1
<1>8. CASE EndOfFile \/ Abort \/ End
  BY <1>2, <1>8 DEF EndOfFile, Abort, End
<1>9. ASSUME NEW c \in Cmds, Cmd(c) PROVE TextsOK'
  BY <1>2, <1>9 DEF Cmd
<1>10. CASE CmdFails \/ Kill
  BY <1>3, <1>10 DEF CmdFails, Kill
<1>11. ASSUME NEW word \in Words, NEW match \in BOOLEAN, PatternLine(word, match) PROVE TextsOK'
  BY <1>2, <1>11 DEF PatternLine
<1>12. CASE Restart \/ UNCHANGED utVars
  BY <1>2, <1>12 DEF Restart, utVars
<1> QED BY <1>4, <1>5, <1>6, <1>7, <1>8, <1>9, <1>10, <1>11, <1>12 DEF UtNext

\* An INT_STORE line of any script finds, in any text of lines that begin and end
\* with words, the number that the reader of the text would count to: that
\* string_fetch_integer takes the words at the ends of two lines for one
\* (string_util.c:280) loses no number of it.
THEOREM DriverStoresNumberSeen == UtSpec => StoresNumberSeen
<1> DEFINE Seen == \A k \in Stores, index \in 1..2 :
                     IntStore(k, index) /\ NumbersInside(recv) => int_store'[k] = NumberAt(Flat(recv), index)
<1>1. UtInit => TextsOK
  <2>1. UtInit => DriverTypeOK
    BY UtInitTyped
  <2>2. UtInit => recv \in Seq(Seq(Words)) /\ int_store = [k \in Stores |-> int_store[k]]
    BY EmptySeq DEF UtInit, NoStores
  <2> QED BY <2>1, <2>2 DEF TextsOK
<1>2. TextsOK => Seen
  <2> SUFFICES ASSUME TextsOK, NEW k \in Stores, NEW index \in 1..2, IntStore(k, index), NumbersInside(recv)
               PROVE  int_store'[k] = NumberAt(Flat(recv), index)
    OBVIOUS
  <2>1. int_store' = [int_store EXCEPT ![k] = StringFetchInteger(recv, index)]
    BY DEF IntStore
  <2>2. int_store'[k] = NumberAt(Apart(recv), index)
    BY <2>1 DEF TextsOK, StringFetchInteger
  <2>3. Numbers(Apart(recv)) = Numbers(Flat(recv))
    BY NumbersOfText DEF TextsOK
  <2> QED BY <2>2, <2>3 DEF NumberAt
<1> QED BY <1>1, <1>2, TextsStep, PTL DEF UtSpec, StoresNumberSeen
================================================================================
