---------------------------- MODULE TcpServer_proofs ----------------------------
(****************************************************************************)
(* Proofs about TcpServer for any clients, managers, threads and commands:  *)
(* its types, that it keeps to its application what AppView promises, that  *)
(* it loses no message, and when the handoff of a new client can fail.      *)
(****************************************************************************)
EXTENDS TcpServer, FiniteSetTheorems, SequenceTheorems, WellFoundedInduction, TLAPS

(****************************************************************************)
(* Sequences and the loop over the ready clients.                           *)
(****************************************************************************)
LEMMA RangeOfAppend ==
  ASSUME NEW S, NEW s \in Seq(S), NEW e \in S
  PROVE  Append(s, e) \in Seq(S) /\ Range(Append(s, e)) = Range(s) \cup {e}
<1>1. /\ Append(s, e) \in Seq(S) /\ DOMAIN s = 1..Len(s) /\ Len(s) \in Nat
      /\ DOMAIN Append(s, e) = 1..(Len(s) + 1)
      /\ Append(s, e)[Len(s) + 1] = e
      /\ \A i \in 1..Len(s) : Append(s, e)[i] = s[i]
  BY AppendProperties, LenProperties
<1> QED BY <1>1 DEF Range

LEMMA RangeOfConcat ==
  ASSUME NEW S, NEW s \in Seq(S), NEW t \in Seq(S)
  PROVE  s \o t \in Seq(S) /\ Range(s \o t) = Range(s) \cup Range(t)
BY ConcatProperties, RangeConcatenation

LEMMA EmptySeqOfClients == <<>> \in Seq(Clients) /\ DOMAIN <<>> = {}
OBVIOUS

LEMMA EmptyList == Range(<<>>) = {}
BY DEF Range

LEMMA ElementsOfSeq == ASSUME NEW S, NEW s \in Seq(S) PROVE DOMAIN s \subseteq Nat /\ Range(s) \subseteq S
BY RangeOfSeq, LenProperties

LEMMA AppendKeeps == \A s \in Seq(Clients), c \in Clients : Append(s, c) \in Seq(Clients)
OBVIOUS

\* The first ready client is one of the ready clients.
LEMMA FirstIsOne ==
  ASSUME NEW f, DOMAIN f \subseteq Nat, DOMAIN f # {}
  PROVE  First(f) \in Range(f) /\ Min(DOMAIN f) \in DOMAIN f
<1> DEFINE Initials == {0..i : i \in DOMAIN f}
<1>1. Initials \subseteq FiniteSubsetsOf(Nat) /\ Initials # {}
  <2>1. ASSUME NEW i \in DOMAIN f PROVE 0..i \in FiniteSubsetsOf(Nat)
    <3>1. i \in Int /\ 0 \in Int /\ 0..i \in SUBSET Nat
      OBVIOUS
    <3>2. IsFiniteSet(0..i)
      BY <3>1, FS_Interval
    <3> QED BY <3>1, <3>2 DEF FiniteSubsetsOf
  <2> QED BY <2>1
<1>2. IsWellFoundedOn(StrictSubsetOrdering(Nat), FiniteSubsetsOf(Nat))
  BY FS_StrictSubsetOrderingWellFounded
<1> HIDE DEF Initials
<1>3. PICK I \in Initials : \A J \in Initials : ~(<<J, I>> \in StrictSubsetOrdering(Nat))
  BY <1>1, <1>2, WFMin
<1>4. PICK x \in DOMAIN f : I = 0..x
  BY <1>3 DEF Initials
<1>5. ASSUME NEW y \in DOMAIN f, y < x PROVE FALSE
  <2>1. 0..y \in Initials
    BY DEF Initials
  <2>2. 0..y \subseteq 0..x /\ x \in 0..x /\ x \notin 0..y /\ 0..y \subseteq Nat /\ 0..x \subseteq Nat
    BY <1>5
  <2>3. <<0..y, I>> \in StrictSubsetOrdering(Nat)
    BY <1>4, <2>2 DEF StrictSubsetOrdering
  <2> QED BY <1>3, <2>1, <2>3
<1>6. \A y \in DOMAIN f : x <= y
  BY <1>5
<1>7. Min(DOMAIN f) \in DOMAIN f
  BY <1>6 DEF Min
<1> QED BY <1>7 DEF First, Range

LEMMA ButFirstIsLess ==
  ASSUME NEW f PROVE DOMAIN ButFirst(f) \subseteq DOMAIN f /\ Range(ButFirst(f)) \subseteq Range(f)
BY DEF ButFirst, Restrict, Range

(****************************************************************************)
(* The types.  AccAdd and AccRelink store accClient, which is a client only *)
(* because Accept set it and nothing clears it until the handoff is over;   *)
(* the receive loop uses a client that is there only because the loop ends  *)
(* with the last ready one.                                                 *)
(****************************************************************************)
Handing == HandingOver => accClient \in told
Visiting == \A d \in Drs : drsPc[d] \in {"recv", "eof", "deliver"} => DOMAIN drsTodo[d] # {}
TInv == TypeOK /\ Handing /\ Visiting

\* The types in parts: what an action leaves alone keeps its part.
ControlTypes ==
  /\ fate \in {"up", "exit", "stopped"} \cup Faults
  /\ culprit \in Actors \cup {"none", "drs"}
  /\ flags \subseteq {"RUN", "NACC", "NLIS"}
  /\ pc \in [Actors -> CliPcs \cup AccPcs] /\ pc["cli"] \in CliPcs /\ pc["acc"] \in AccPcs
  /\ mgr \in [Actors -> Managers \cup {Nil}]
  /\ cliOp \in AllCommands \cup {"none"}
AcceptorTypes == accObj \in {"null", "fresh", "running"} /\ accCancel \in BOOLEAN /\ accClient \in Clients \cup {Nil}
ManagerTypes ==
  /\ svc \in Managers \cup {Nil}
  /\ mgrState \in [Managers -> {"unborn", "live", "freed"}]
  /\ mgrThread \in [Managers -> Drs \cup {Nil, Fresh}]
  /\ mgrList \in [Managers -> Seq(Clients)] /\ mgrFds \in [Managers -> SUBSET Clients]
ReceiverTypes ==
  /\ drsPc \in [Drs -> DrsPcs] /\ drsCancel \in [Drs -> BOOLEAN]
  /\ drsMgr \in [Drs -> Managers \cup {Nil}] /\ drsJoin \in [Drs -> Actors \cup {"none"}]
  /\ drsTodo = [d \in Drs |-> drsTodo[d]]
  /\ \A d \in Drs : DOMAIN drsTodo[d] \subseteq Nat /\ Range(drsTodo[d]) \subseteq Clients
  /\ drsGot \in [Drs -> Nat \cup {-1}]
ClientTypes ==
  /\ db \in Seq(Clients)
  /\ sock \in [Clients -> {"away", "backlog", "open", "refused", "closed"}]
  /\ peer \in [Clients -> {"up", "closed", "reset"}]
  /\ rx \in [Clients -> Nat] /\ sent \in [Clients -> Nat] /\ dlv \in [Clients -> Nat]
  /\ told \subseteq Clients /\ cut \subseteq Clients

LEMMA TypeParts == TypeOK <=> ControlTypes /\ AcceptorTypes /\ ManagerTypes /\ ReceiverTypes /\ ClientTypes
BY DEF TypeOK, ControlTypes, AcceptorTypes, ManagerTypes, ReceiverTypes, ClientTypes

LEMMA TypesJoin ==
  ASSUME ControlTypes', AcceptorTypes', ManagerTypes', ReceiverTypes', ClientTypes', Handing', Visiting'
  PROVE  TInv'
BY DEF TInv, TypeOK, ControlTypes, AcceptorTypes, ManagerTypes, ReceiverTypes, ClientTypes

LEMMA KeptTypes ==
  ASSUME TInv
  PROVE  /\ UNCHANGED accVars => AcceptorTypes'
         /\ UNCHANGED mgrVars => ManagerTypes'
         /\ UNCHANGED drsVars => ReceiverTypes' /\ Visiting'
         /\ UNCHANGED <<db, netVars, appVars, cut>> => ClientTypes'
         /\ Up /\ UNCHANGED <<flags, threadVars>> => ControlTypes'
         /\ UNCHANGED <<threadVars, accVars, appVars>> => Handing'
<1>1. ControlTypes /\ Handing /\ AcceptorTypes /\ ManagerTypes /\ ReceiverTypes /\ Visiting /\ ClientTypes
  BY TypeParts DEF TInv
<1>2. ASSUME UNCHANGED accVars PROVE AcceptorTypes'
  BY <1>1, <1>2 DEF AcceptorTypes, accVars
<1>3. ASSUME UNCHANGED mgrVars PROVE ManagerTypes'
  BY <1>1, <1>3 DEF ManagerTypes, mgrVars
<1>4. ASSUME UNCHANGED drsVars PROVE ReceiverTypes' /\ Visiting'
  BY <1>1, <1>4 DEF ReceiverTypes, Visiting, drsVars
<1>5. ASSUME UNCHANGED <<db, netVars, appVars, cut>> PROVE ClientTypes'
  BY <1>1, <1>5 DEF ClientTypes, netVars, appVars
<1>6. ASSUME Up, UNCHANGED <<flags, threadVars>> PROVE ControlTypes'
  BY <1>1, <1>6 DEF ControlTypes, Up, fateVars, threadVars
<1>7. ASSUME UNCHANGED <<threadVars, accVars, appVars>> PROVE Handing'
  BY <1>1, <1>7 DEF Handing, HandingOver, threadVars, accVars, appVars
<1> QED BY <1>2, <1>3, <1>4, <1>5, <1>6, <1>7

LEMMA CrashTypes ==
  ASSUME TInv, NEW a \in Actors \cup {"drs"}, NEW why \in {"exit"} \cup Faults, Crash(a, why)
  PROVE  TInv'
BY DEF TInv, TypeOK, Handing, HandingOver, Visiting, Actors, Crash, Faults, threadVars, accVars, mgrVars,
       drsVars, netVars, appVars

LEMMA VisitedIsClient ==
  ASSUME TInv, NEW d \in Drs, drsPc[d] \in {"recv", "eof", "deliver"}
  PROVE  First(drsTodo[d]) \in Clients /\ First(drsTodo[d]) \in Range(drsTodo[d])
BY FirstIsOne DEF TInv, TypeOK, Visiting

LEMMA CliTypes == ASSUME TInv, CliStep PROVE TInv'
<1>1. ASSUME Start PROVE TInv'
  BY <1>1
  DEF TInv, TypeOK, Handing, HandingOver, Visiting, Actors, Start, Command, At, Up, Goto, CliPcs,
      AccPcs, AllCommands, fateVars, threadVars, accVars, mgrVars, drsVars, netVars, appVars
<1>2. ASSUME \E op \in {"stop_acc", "stop"} : StopAccepting(op) PROVE TInv'
  BY <1>2
  DEF TInv, TypeOK, Handing, HandingOver, Visiting, Actors, StopAccepting, Command, At, Up, Goto,
      CliPcs, AccPcs, AllCommands, fateVars, threadVars, accVars, mgrVars, drsVars, netVars, appVars
<1>3. ASSUME AcceptorStopped PROVE TInv'
  BY <1>3
  DEF TInv, TypeOK, Handing, HandingOver, Visiting, Actors, AcceptorStopped, Command, At, Up, Goto,
      CliPcs, AccPcs, AllCommands, fateVars, threadVars, accVars, mgrVars, drsVars, netVars, appVars
<1>4. ASSUME StartAccepting PROVE TInv'
  BY <1>4
  DEF TInv, TypeOK, Handing, HandingOver, Visiting, Actors, StartAccepting, Command, At, Up, Goto,
      CliPcs, AccPcs, AllCommands, fateVars, threadVars, accVars, mgrVars, drsVars, netVars, appVars
<1>5. ASSUME StopListening PROVE TInv'
  BY <1>5
  DEF TInv, TypeOK, Handing, HandingOver, Visiting, Actors, StopListening, Command, At, Up, Goto,
      CliPcs, AccPcs, AllCommands, fateVars, threadVars, accVars, mgrVars, drsVars, netVars, appVars
<1>6. ASSUME FreeManager PROVE TInv'
  <2>1. mgrList' \in [Managers -> Seq(Clients)]
    BY <1>6, EmptySeqOfClients DEF FreeManager, TInv, TypeOK
  <2>2. mgrState' \in [Managers -> {"unborn", "live", "freed"}] /\ mgrFds' \in [Managers -> SUBSET Clients]
    BY <1>6 DEF FreeManager, TInv, TypeOK
  <2> QED
    BY <1>6, <2>1, <2>2
    DEF TInv, TypeOK, Handing, HandingOver, Visiting, Actors, FreeManager, At, Up, Goto, CliPcs,
        AccPcs, fateVars, threadVars, accVars, mgrVars, drsVars, netVars, appVars
<1>7. ASSUME ListeningStopped PROVE TInv'
  BY <1>7
  DEF TInv, TypeOK, Handing, HandingOver, Visiting, Actors, ListeningStopped, Command, At, Up, Goto,
      CliPcs, AccPcs, AllCommands, fateVars, threadVars, accVars, mgrVars, drsVars, netVars, appVars
<1>8. ASSUME StartListening PROVE TInv'
  <2>1. PICK m \in Managers :
          /\ svc' = m /\ mgrState' = [mgrState EXCEPT ![m] = "live"]
          /\ mgrThread' = [mgrThread EXCEPT ![m] = Fresh]
          /\ mgrList' = [mgrList EXCEPT ![m] = <<>>] /\ mgrFds' = [mgrFds EXCEPT ![m] = {}]
          /\ mgr' = [mgr EXCEPT !["cli"] = m]
    BY <1>8 DEF StartListening
  <2>2. /\ Up /\ flags' = flags /\ cliOp' = "start_svc" /\ pc' = [pc EXCEPT !["cli"] = "create"]
        /\ UNCHANGED <<accVars, drsVars, db, netVars, appVars, cut>>
    BY <1>8 DEF StartListening, Command, At, Goto
  <2>3. ManagerTypes'
    BY <2>1, EmptySeqOfClients DEF TInv, TypeOK, ManagerTypes
  <2>4. ControlTypes'
    BY <2>1, <2>2 DEF TInv, TypeOK, ControlTypes, Up, fateVars, Actors, CliPcs, AllCommands
  <2>5. Handing'
    BY <2>2 DEF TInv, TypeOK, Handing, HandingOver, Actors, appVars, accVars
  <2> QED BY <2>2, <2>3, <2>4, <2>5, KeptTypes, TypesJoin
<1>9. ASSUME CommandStarted PROVE TInv'
  BY <1>9
  DEF TInv, TypeOK, Handing, HandingOver, Visiting, Actors, CommandStarted, Command, At, Up, Goto,
      CliPcs, AccPcs, AllCommands, fateVars, threadVars, accVars, mgrVars, drsVars, netVars, appVars
<1>10. ASSUME StopNoAcceptor PROVE TInv'
  BY <1>10
  DEF TInv, TypeOK, Handing, HandingOver, Visiting, Actors, StopNoAcceptor, Command, At, Up, Goto,
      CliPcs, AccPcs, AllCommands, fateVars, threadVars, accVars, mgrVars, drsVars, netVars, appVars
<1>11. ASSUME StopManager PROVE TInv'
  <2>1. AcceptorTypes' /\ ManagerTypes' /\ ReceiverTypes' /\ Visiting' /\ ClientTypes'
    BY <1>11, KeptTypes DEF StopManager
  <2>2. ControlTypes' /\ Handing'
    BY <1>11
    DEF TInv, TypeOK, ControlTypes, Handing, HandingOver, Actors, StopManager, At, Up, Goto, CliPcs,
        AccPcs, 
      fateVars, accVars, appVars
  <2> QED BY <2>1, <2>2, TypesJoin
<1>12. ASSUME Purge PROVE TInv'
  BY <1>12, EmptySeqOfClients
  DEF TInv, TypeOK, Handing, HandingOver, Visiting, Actors, Purge, Command, At, Up, Goto, CliPcs,
      AccPcs, AllCommands, fateVars, threadVars, accVars, mgrVars, drsVars, netVars, appVars
<1>13. ASSUME StartAgain \/ StopUnstarted \/ FreeFault PROVE TInv'
  BY <1>13, CrashTypes DEF StartAgain, StopUnstarted, FreeFault, Faults, Actors
<1> QED
  BY <1>1, <1>2, <1>3, <1>4, <1>5, <1>6, <1>7, <1>8, <1>9, <1>10, <1>11, <1>12, <1>13 DEF CliStep

LEMMA ThreadTypes == ASSUME TInv, NEW a \in Actors, ThreadStep(a) PROVE TInv'
<1>1. ASSUME CancelDrs(a) PROVE TInv'
  <2>1. ReceiverTypes' /\ Visiting'
    BY <1>1 DEF CancelDrs, TInv, TypeOK, ReceiverTypes, Visiting
  <2>2. AcceptorTypes' /\ ManagerTypes' /\ ClientTypes'
    BY <1>1, KeptTypes DEF CancelDrs
  <2>3. ControlTypes' /\ Handing'
    BY <1>1
    DEF TInv, TypeOK, ControlTypes, Handing, HandingOver, Actors, CancelDrs, At, Up, Goto, CliPcs,
        AccPcs, 
      fateVars, accVars, appVars
  <2> QED BY <2>1, <2>2, <2>3, TypesJoin
<1>2. ASSUME JoinDrs(a) PROVE TInv'
  <2>1. drsJoin' \in [Drs -> Actors \cup {"none"}]
    <3>1. drsJoin' = drsJoin \/ drsJoin' = [drsJoin EXCEPT ![mgrThread[mgr[a]]] = a]
      BY <1>2 DEF JoinDrs
    <3>2. drsJoin \in [Drs -> Actors \cup {"none"}]
      BY DEF TInv, TypeOK
    <3> QED BY <3>1, <3>2
  <2>2. Goto(a, "joining") \/ Goto(a, "forget")
    BY <1>2 DEF JoinDrs
  <2>3. /\ Up /\ pc[a] = "join"
        /\ UNCHANGED <<flags, mgr, cliOp, accVars, mgrVars, drsPc, drsCancel, drsMgr, drsTodo, drsGot,
                       db, netVars, appVars, cut>>
    BY <1>2 DEF JoinDrs, At
  <2> QED
    BY <2>1, <2>2, <2>3
    DEF TInv, TypeOK, Handing, HandingOver, Visiting, Actors, Up, Goto, CliPcs, AccPcs, fateVars,
        threadVars, accVars, mgrVars, drsVars, netVars, appVars
<1>3. ASSUME DrsJoined(a) PROVE TInv'
  BY <1>3
  DEF TInv, TypeOK, Handing, HandingOver, Visiting, Actors, DrsJoined, LiveManager, At, Up, Goto,
      CliPcs, AccPcs, DrsPcs, fateVars, threadVars, accVars, mgrVars, drsVars, netVars, appVars
<1>4. ASSUME ForgetDrs(a) PROVE TInv'
  BY <1>4
  DEF TInv, TypeOK, Handing, HandingOver, Visiting, Actors, ForgetDrs, LiveManager, At, Up, Goto,
      CliPcs, AccPcs, DrsPcs, fateVars, threadVars, accVars, mgrVars, drsVars, netVars, appVars
<1>5. ASSUME CreateDrs(a) PROVE TInv'
  BY <1>5
  DEF TInv, TypeOK, Handing, HandingOver, Visiting, Actors, CreateDrs, LiveManager, At, Up, Goto,
      CliPcs, AccPcs, DrsPcs, fateVars, threadVars, accVars, mgrVars, drsVars, netVars, appVars
<1>6. ASSUME StopFault(a) PROVE TInv'
  <2>1. HandleFault(mgr[a]) # "none" => HandleFault(mgr[a]) \in Faults
    BY DEF HandleFault, Faults
  <2>2. PICK why \in {"exit"} \cup Faults : Crash(a, why)
    BY <1>6, <2>1 DEF StopFault, Faults
  <2> QED BY <2>2, CrashTypes
<1> QED
  BY <1>1, <1>2, <1>3, <1>4, <1>5, <1>6 DEF ThreadStep

LEMMA AccTypes == ASSUME TInv, AccStep PROVE TInv'
<1>1. ASSUME AccSetup PROVE TInv'
  BY <1>1
  DEF TInv, TypeOK, Handing, HandingOver, Visiting, Actors, AccSetup, LiveManager, At, Up, Goto,
      CliPcs, AccPcs, fateVars, threadVars, accVars, mgrVars, drsVars, netVars, appVars
<1>2. ASSUME \E c \in Clients : Accept(c) PROVE TInv'
  BY <1>2
  DEF TInv, TypeOK, Handing, HandingOver, Visiting, Actors, Accept, LiveManager, At, Up, Goto,
      CliPcs, AccPcs, fateVars, threadVars, accVars, mgrVars, drsVars, netVars, appVars
<1>3. ASSUME AccCallback PROVE TInv'
  <2>1. AcceptorTypes' /\ ManagerTypes' /\ ReceiverTypes' /\ Visiting' /\ ClientTypes'
    BY <1>3, KeptTypes DEF AccCallback
  <2>2. ControlTypes' /\ Handing'
    BY <1>3
    DEF TInv, TypeOK, ControlTypes, Handing, HandingOver, Actors, AccCallback, At, Up, Goto, CliPcs,
        AccPcs, 
      fateVars, accVars, appVars
  <2> QED BY <2>1, <2>2, TypesJoin
<1>4. ASSUME AccAdd PROVE TInv'
  BY <1>4, AppendKeeps
  DEF TInv, TypeOK, Handing, HandingOver, Visiting, Actors, AccAdd, LiveManager, At, Up, Goto,
      CliPcs, AccPcs, fateVars, threadVars, accVars, mgrVars, drsVars, netVars, appVars
<1>5. ASSUME AccHandoff PROVE TInv'
  BY <1>5
  DEF TInv, TypeOK, Handing, HandingOver, Visiting, Actors, AccHandoff, LiveManager, At, Up, Goto,
      CliPcs, AccPcs, fateVars, threadVars, accVars, mgrVars, drsVars, netVars, appVars
<1>6. ASSUME AccRelink PROVE TInv'
  BY <1>6, AppendKeeps
  DEF TInv, TypeOK, Handing, HandingOver, Visiting, Actors, AccRelink, LiveManager, At, Up, Goto,
      CliPcs, AccPcs, fateVars, threadVars, accVars, mgrVars, drsVars, netVars, appVars
<1>7. ASSUME AccNap PROVE TInv'
  BY <1>7
  DEF TInv, TypeOK, Handing, HandingOver, Visiting, Actors, AccNap, LiveManager, At, Up, Goto,
      CliPcs, AccPcs, fateVars, threadVars, accVars, mgrVars, drsVars, netVars, appVars
<1>8. ASSUME AccCancelled PROVE TInv'
  <2>1. ManagerTypes'
    BY <1>8, KeptTypes DEF AccCancelled
  <2>2. ReceiverTypes' /\ Visiting'
    BY <1>8 DEF AccCancelled, TInv, TypeOK, ReceiverTypes, Visiting, Actors
  <2>3. ClientTypes' /\ AcceptorTypes'
    <3>1. pc["acc"] \in {"callback", "joining", "relink"} => accClient \in Clients
      BY DEF TInv, TypeOK, Handing, HandingOver
    <3> QED BY <1>8, <3>1 DEF AccCancelled, TInv, TypeOK, ClientTypes, AcceptorTypes, netVars, appVars
  <2>4. ControlTypes' /\ Handing'
    BY <1>8
    DEF TInv, TypeOK, ControlTypes, Handing, HandingOver, Actors, AccCancelled, Up, Goto, CliPcs,
        AccPcs, 
      fateVars, appVars
  <2> QED BY <2>1, <2>2, <2>3, <2>4, TypesJoin
<1>9. ASSUME AccSetupFails \/ AccFault PROVE TInv'
  BY <1>9, CrashTypes DEF AccSetupFails, AccFault, Faults, Actors
<1> QED
  BY <1>1, <1>2, <1>3, <1>4, <1>5, <1>6, <1>7, <1>8, <1>9 DEF AccStep

LEMMA DrsTypes == ASSUME TInv, NEW d \in Drs, DrsStep(d) PROVE TInv'
<1>1. ASSUME DrsStart(d) PROVE TInv'
  BY <1>1
  DEF TInv, TypeOK, Handing, HandingOver, Visiting, Actors, DrsStart, LiveManager, DrsAt, DrsGoto,
      Up, DrsPcs, Range, fateVars, threadVars, accVars, mgrVars, drsVars, netVars, appVars
<1>2. ASSUME DrsCopy(d) PROVE TInv'
  BY <1>2, ConcatProperties
  DEF TInv, TypeOK, Handing, HandingOver, Visiting, Actors, DrsCopy, LiveManager, DrsAt, DrsGoto,
      Up, DrsPcs, Range, fateVars, threadVars, accVars, mgrVars, drsVars, netVars, appVars
<1>3. ASSUME DrsPrep(d) PROVE TInv'
  BY <1>3, RangeOfSeq
  DEF TInv, TypeOK, Handing, HandingOver, Visiting, Actors, DrsPrep, LiveManager, DrsAt, DrsGoto,
      Up, DrsPcs, Range, fateVars, threadVars, accVars, mgrVars, drsVars, netVars, appVars
<1>4. ASSUME DrsSelect(d) PROVE TInv'
  <2> DEFINE list == mgrList[drsMgr[d]]
             ready == {i \in DOMAIN list : list[i] \in mgrFds[drsMgr[d]] /\ Readable(list[i])}
  <2>1. list \in Seq(Clients)
    BY <1>4 DEF DrsSelect, DrsAt, LiveManager, TInv, TypeOK
  <2>2. ready # {} /\ ready \subseteq Nat /\ \A i \in ready : list[i] \in Clients
    BY <1>4, <2>1, ElementsOfSeq DEF DrsSelect, Range
  <2>3. drsTodo' = [drsTodo EXCEPT ![d] = [i \in ready |-> list[i]]]
    BY <1>4 DEF DrsSelect
  <2>4. /\ Up /\ DrsGoto(d, "recv")
        /\ UNCHANGED <<flags, threadVars, accVars, mgrVars, drsCancel, drsMgr, drsJoin, drsGot,
                       db, netVars, appVars, cut>>
    BY <1>4 DEF DrsSelect, DrsAt
  <2> HIDE DEF list, ready
  <2>5. /\ drsTodo' = [e \in Drs |-> drsTodo'[e]]
        /\ \A e \in Drs : DOMAIN drsTodo'[e] \subseteq Nat /\ Range(drsTodo'[e]) \subseteq Clients
        /\ DOMAIN drsTodo'[d] # {} /\ \A e \in Drs \ {d} : drsTodo'[e] = drsTodo[e]
    <3> DEFINE visits == [i \in ready |-> list[i]]
    <3>1. /\ drsTodo = [e \in Drs |-> drsTodo[e]]
          /\ \A e \in Drs : DOMAIN drsTodo[e] \subseteq Nat /\ Range(drsTodo[e]) \subseteq Clients
      BY DEF TInv, TypeOK
    <3>2. DOMAIN visits = ready /\ Range(visits) \subseteq Clients
      BY <2>2 DEF Range
    <3>3. drsTodo' = [drsTodo EXCEPT ![d] = visits]
      BY <2>3
    <3> HIDE DEF visits
    <3>4. /\ drsTodo' = [e \in Drs |-> drsTodo'[e]] /\ drsTodo'[d] = visits
          /\ \A e \in Drs \ {d} : drsTodo'[e] = drsTodo[e]
      BY <3>1, <3>3
    <3> QED BY <2>2, <3>1, <3>2, <3>4
  <2>6. drsPc' \in [Drs -> DrsPcs] /\ \A e \in Drs \ {d} : drsPc'[e] = drsPc[e]
    BY <2>4 DEF DrsGoto, TInv, TypeOK, DrsPcs
  <2>7. Visiting'
    BY <2>5, <2>6 DEF TInv, Visiting
  <2> QED
    BY <2>4, <2>5, <2>6, <2>7
    DEF TInv, TypeOK, Handing, HandingOver, Up, fateVars, threadVars, accVars, mgrVars, drsVars,
        netVars, appVars
<1>5. ASSUME DrsRecv(d) PROVE TInv'
  <2> DEFINE c == First(drsTodo[d])
  <2>1. c \in Clients
    BY <1>5, VisitedIsClient DEF DrsRecv, DrsAt
  <2>2. /\ Up /\ drsPc[d] = "recv" /\ (DrsGoto(d, "deliver") \/ DrsGoto(d, "eof"))
        /\ UNCHANGED <<flags, threadVars, accVars, mgrVars, drsCancel, drsMgr, drsJoin, drsTodo,
                       db, sock, sent, appVars, cut>>
    BY <1>5 DEF DrsRecv, DrsAt
  <2>3. \/ \E n \in 1..rx[c] : /\ drsGot' = [drsGot EXCEPT ![d] = n]
                               /\ rx' = [rx EXCEPT ![c] = @ - n] /\ UNCHANGED peer
        \/ UNCHANGED <<drsGot, rx, peer>>
        \/ /\ drsGot' = [drsGot EXCEPT ![d] = -1] /\ UNCHANGED rx
           /\ peer' = [peer EXCEPT ![c] = "closed"]
    BY <1>5 DEF DrsRecv
  <2>4. drsGot \in [Drs -> Nat \cup {-1}] /\ rx \in [Clients -> Nat]
        /\ peer \in [Clients -> {"up", "closed", "reset"}]
    BY DEF TInv, TypeOK
  <2> HIDE DEF c
  <2>5. drsGot' \in [Drs -> Nat \cup {-1}] /\ rx' \in [Clients -> Nat]
        /\ peer' \in [Clients -> {"up", "closed", "reset"}]
    BY <2>1, <2>3, <2>4
  <2>6. drsPc' \in [Drs -> DrsPcs] /\ \A e \in Drs \ {d} : drsPc'[e] = drsPc[e]
    BY <2>2 DEF DrsGoto, TInv, TypeOK, DrsPcs
  <2>7. Visiting'
    BY <2>2, <2>6 DEF TInv, Visiting
  <2> QED
    BY <2>2, <2>5, <2>6, <2>7
    DEF TInv, TypeOK, Handing, HandingOver, Up, fateVars, threadVars, accVars, mgrVars, netVars, appVars
<1>6. ASSUME DrsEof(d) PROVE TInv'
  BY <1>6
  DEF TInv, TypeOK, Handing, HandingOver, Visiting, Actors, DrsEof, LiveManager, DrsAt, DrsGoto, Up,
      DrsPcs, Range, fateVars, threadVars, accVars, mgrVars, drsVars, netVars, appVars
<1>7. ASSUME DrsDeliver(d) PROVE TInv'
  <2> DEFINE c == First(drsTodo[d])
             left == ButFirst(drsTodo[d])
  <2>1. /\ Up /\ DrsGoto(d, IF DOMAIN left = {} THEN "select" ELSE "recv")
        /\ dlv' = IF drsGot[d] > 0 THEN [dlv EXCEPT ![c] = @ + drsGot[d]] ELSE dlv
        /\ drsGot' = [drsGot EXCEPT ![d] = 0] /\ drsTodo' = [drsTodo EXCEPT ![d] = left]
        /\ UNCHANGED <<flags, threadVars, accVars, mgrVars, drsCancel, drsMgr, drsJoin,
                       db, netVars, told, cut>>
    BY <1>7 DEF DrsDeliver, DrsAt
  <2>c. c \in Clients
    BY <1>7, VisitedIsClient DEF DrsDeliver, DrsAt
  <2>2. DOMAIN left \subseteq Nat /\ Range(left) \subseteq Clients
    BY ButFirstIsLess DEF TInv, TypeOK
  <2> HIDE DEF c, left
  <2>3. dlv' \in [Clients -> Nat] /\ drsGot' \in [Drs -> Nat \cup {-1}]
    <3>1. /\ dlv \in [Clients -> Nat] /\ drsGot \in [Drs -> Nat \cup {-1}]
          /\ drsGot[d] \in Int
      BY DEF TInv, TypeOK
    <3>2. CASE drsGot[d] > 0
      <4> DEFINE n == dlv[c] + drsGot[d]
      <4>1. n \in Nat
        BY <2>c, <3>1, <3>2
      <4>2. dlv' = [dlv EXCEPT ![c] = n]
        BY <2>1, <3>2
      <4> HIDE DEF n
      <4> QED BY <2>1, <3>1, <4>1, <4>2
    <3>3. CASE ~(drsGot[d] > 0)
      BY <2>1, <3>1, <3>3
    <3> QED BY <3>2, <3>3
  <2>4. /\ drsTodo' = [e \in Drs |-> drsTodo'[e]] /\ drsTodo'[d] = left
        /\ \A e \in Drs \ {d} : drsTodo'[e] = drsTodo[e]
    BY <2>1 DEF TInv, TypeOK
  <2>5. ControlTypes' /\ AcceptorTypes' /\ ManagerTypes'
    BY <2>1, KeptTypes
  <2>6. /\ drsPc' \in [Drs -> DrsPcs] /\ \A e \in Drs \ {d} : drsPc'[e] = drsPc[e]
        /\ drsPc'[d] = IF DOMAIN left = {} THEN "select" ELSE "recv"
    BY <2>1 DEF DrsGoto, TInv, TypeOK, DrsPcs
  <2>7. Visiting' /\ Handing'
    BY <2>1, <2>4, <2>6 DEF TInv, Visiting, Handing, HandingOver, threadVars, accVars
  <2>8. ReceiverTypes'
    BY <2>1, <2>2, <2>3, <2>4, <2>6 DEF TInv, TypeOK, ReceiverTypes
  <2>9. ClientTypes'
    BY <2>1, <2>3 DEF TInv, TypeOK, ClientTypes, netVars
  <2> QED BY <2>5, <2>7, <2>8, <2>9, TypesJoin
<1>8. ASSUME DrsCancelled(d) PROVE TInv'
  <2>1. /\ Up /\ DrsGoto(d, "done") /\ drsTodo' = [drsTodo EXCEPT ![d] = <<>>]
        /\ UNCHANGED <<flags, threadVars, accVars, mgrVars, drsCancel, drsMgr, drsJoin, drsGot,
                       db, netVars, appVars, cut>>
    BY <1>8 DEF DrsCancelled
  <2>2. /\ drsTodo' = [e \in Drs |-> drsTodo'[e]] /\ drsTodo'[d] = <<>>
        /\ \A e \in Drs \ {d} : drsTodo'[e] = drsTodo[e]
    BY <2>1 DEF TInv, TypeOK
  <2>3. DOMAIN drsTodo'[d] \subseteq Nat /\ Range(drsTodo'[d]) \subseteq Clients
    BY <2>2, EmptySeqOfClients DEF Range
  <2>4. ControlTypes' /\ Handing' /\ AcceptorTypes' /\ ManagerTypes' /\ ClientTypes'
    BY <2>1, KeptTypes
  <2>5. ReceiverTypes' /\ Visiting'
    BY <2>1, <2>2, <2>3 DEF TInv, TypeOK, ReceiverTypes, Visiting, DrsGoto, DrsPcs
  <2> QED BY <2>4, <2>5, TypesJoin
<1>9. ASSUME DrsFault(d) PROVE TInv'
  BY <1>9, CrashTypes DEF DrsFault, Faults, Actors
<1> QED
  BY <1>1, <1>2, <1>3, <1>4, <1>5, <1>6, <1>7, <1>8, <1>9 DEF DrsStep

LEMMA TypeStep == ASSUME TInv, [Next]_vars PROVE TInv'
<1>1. ASSUME NEW c \in Clients, ClientStep(c) PROVE TInv'
  <2>1. sock' \in [Clients -> {"away", "backlog", "open", "refused", "closed"}]
    <3>1. sock' = sock \/ sock' = [sock EXCEPT ![c] = "backlog"]
      BY <1>1 DEF ClientStep, Connect, Send, Hangup
    <3> QED BY <3>1 DEF TInv, TypeOK
  <2>2. peer' \in [Clients -> {"up", "closed", "reset"}]
    BY <1>1 DEF ClientStep, Connect, Send, Hangup, TInv, TypeOK
  <2>3. rx' \in [Clients -> Nat] /\ sent' \in [Clients -> Nat]
    <3>1. rx \in [Clients -> Nat] /\ sent \in [Clients -> Nat]
      BY DEF TInv, TypeOK
    <3>2. \/ UNCHANGED <<rx, sent>>
          \/ rx' = [rx EXCEPT ![c] = @ + 1] /\ sent' = [sent EXCEPT ![c] = @ + 1]
      BY <1>1 DEF ClientStep, Connect, Send, Hangup, netVars
    <3> QED BY <3>1, <3>2
  <2>4. Up /\ UNCHANGED <<flags, threadVars, accVars, mgrVars, drsVars, db, appVars, cut>>
    BY <1>1 DEF ClientStep, Connect, Send, Hangup
  <2>5. ControlTypes' /\ Handing' /\ AcceptorTypes' /\ ManagerTypes' /\ ReceiverTypes' /\ Visiting'
    BY <2>4, KeptTypes
  <2>6. ClientTypes'
    BY <2>1, <2>2, <2>3, <2>4 DEF TInv, TypeOK, ClientTypes, appVars
  <2> QED BY <2>5, <2>6, TypesJoin
<1>2. ASSUME UNCHANGED vars PROVE TInv'
  BY <1>2 DEF TInv, TypeOK, Handing, HandingOver, Visiting, Actors, vars,
      fateVars, threadVars, accVars, mgrVars, drsVars, netVars, appVars
<1> QED
  BY <1>1, <1>2, CliTypes, ThreadTypes, AccTypes, DrsTypes DEF Next, Rest

LEMMA TypeInit == Init => TInv
<1> SUFFICES ASSUME Init PROVE TInv
  OBVIOUS
<1>1. \A d \in Drs : drsTodo[d] = <<>> /\ drsPc[d] = "free"
  BY DEF Init
<1>2. /\ drsTodo = [d \in Drs |-> drsTodo[d]]
      /\ \A d \in Drs : DOMAIN drsTodo[d] \subseteq Nat /\ Range(drsTodo[d]) \subseteq Clients
  BY <1>1, EmptySeqOfClients DEF Init, Range
<1>3. mgrList \in [Managers -> Seq(Clients)] /\ db \in Seq(Clients)
  BY EmptySeqOfClients DEF Init
<1>4. pc \in [Actors -> CliPcs \cup AccPcs] /\ pc["cli"] = "idle" /\ pc["acc"] = "none"
  BY DEF Init, Actors, CliPcs, AccPcs
<1> QED
BY <1>1, <1>2, <1>3, <1>4
DEF Init, TInv, TypeOK, Handing, HandingOver, Visiting, Actors, CliPcs, AccPcs, DrsPcs, Range

\* Every variable keeps its type, in every run with any number of clients,
\* managers and threads.
THEOREM ServerTypeOK == Spec => []TypeOK
<1>1. TInv => TypeOK
  BY DEF TInv
<1> QED BY <1>1, TypeInit, TypeStep, PTL DEF Spec

(****************************************************************************)
(* What the application sees.  A client is stored, listed and polled only   *)
(* by the handoff that follows client_connected, and is announced once: it  *)
(* leaves the backlog with accept and never comes back to it.               *)
(****************************************************************************)
Unannounced == \A c \in Clients : sock[c] \in {"away", "backlog"} => c \notin told
AInv == AnnouncedFirst /\ Unannounced

\* Nothing that AInv or the application speaks of changes.
Quiet == UNCHANGED <<told, dlv, db, mgrList, mgrFds, drsTodo, sock>>

\* The steps that are not quiet.
CliLoud == AcceptorStopped \/ FreeManager \/ StartListening \/ Purge
AccLoud == (\E c \in Clients : Accept(c)) \/ AccAdd \/ AccRelink
DrsLoud(d) ==
  DrsCopy(d) \/ DrsPrep(d) \/ DrsSelect(d) \/ DrsDeliver(d) \/ DrsCancelled(d)

LEMMA CliQuiet == ASSUME CliStep PROVE Quiet \/ CliLoud
<1>1. Start \/ StartAgain \/ StopUnstarted \/ StartAccepting \/ StopListening => Quiet
  BY
  DEF Start, StartAgain, StopUnstarted, StartAccepting, StopListening, Quiet, fateVars, threadVars,
      accVars, mgrVars, drsVars, netVars, appVars, Crash, Up, At, Goto
<1>2. ASSUME NEW op \in {"stop_acc", "stop"}, StopAccepting(op) PROVE Quiet
  BY <1>2
  DEF StopAccepting, Quiet, fateVars, threadVars, accVars, mgrVars, drsVars, netVars, appVars,
      Crash, Up, At, Goto
<1>3. FreeFault \/ ListeningStopped \/ CommandStarted \/ StopNoAcceptor \/ StopManager => Quiet
  BY
  DEF FreeFault, ListeningStopped, CommandStarted, StopNoAcceptor, StopManager, Quiet, fateVars,
      threadVars, accVars, mgrVars, drsVars, netVars, appVars, Crash, Up, At, Goto
<1> QED BY <1>1, <1>2, <1>3 DEF CliStep, CliLoud

LEMMA ThreadQuiet == ASSUME NEW a \in Actors, ThreadStep(a) PROVE Quiet
<1>1. CancelDrs(a) \/ JoinDrs(a) \/ DrsJoined(a) => Quiet
  BY
  DEF CancelDrs, JoinDrs, DrsJoined, Quiet, fateVars, threadVars, accVars, mgrVars, drsVars,
      netVars, appVars, Crash, Up, At, Goto
<1>2. ForgetDrs(a) \/ CreateDrs(a) \/ StopFault(a) => Quiet
  BY
  DEF ForgetDrs, CreateDrs, StopFault, Quiet, fateVars, threadVars, accVars, mgrVars, drsVars,
      netVars, appVars, Crash, Up, At, Goto
<1> QED BY <1>1, <1>2 DEF ThreadStep

LEMMA AccQuiet == ASSUME AccStep PROVE Quiet \/ AccLoud
<1>1. AccSetup \/ AccSetupFails \/ AccCallback \/ AccHandoff => Quiet
  BY
  DEF AccSetup, AccSetupFails, AccCallback, AccHandoff, Quiet, fateVars, threadVars, accVars,
      mgrVars, drsVars, netVars, appVars, Crash, Up, At, Goto
<1>2. AccNap \/ AccFault \/ AccCancelled => Quiet
  BY
  DEF AccNap, AccFault, AccCancelled, Quiet, fateVars, threadVars, accVars, mgrVars, drsVars,
      netVars, appVars, Crash, Up, At, Goto
<1> QED BY <1>1, <1>2 DEF AccStep, AccLoud

LEMMA DrsQuiet == ASSUME NEW d \in Drs, DrsStep(d) PROVE Quiet \/ DrsLoud(d)
<1>1. DrsStart(d) \/ DrsRecv(d) \/ DrsEof(d) \/ DrsFault(d) => Quiet
  BY
  DEF DrsStart, DrsRecv, DrsEof, DrsFault, DrsAt, Quiet, fateVars, threadVars, accVars, mgrVars,
      drsVars, netVars, appVars, Crash, Up, At, Goto
<1> QED BY <1>1 DEF DrsStep, DrsLoud

LEMMA QuietKeeps == ASSUME TInv, AInv, Quiet PROVE AInv'
BY DEF AInv, AnnouncedFirst, Unannounced, Quiet

LEMMA CliAnnounces == ASSUME TInv, AInv, CliLoud PROVE AInv' /\ UNCHANGED <<told, dlv>>
<1>1. ASSUME AcceptorStopped PROVE AInv' /\ UNCHANGED <<told, dlv>>
  BY <1>1
  DEF AInv, AnnouncedFirst, Unannounced, AcceptorStopped, TInv, TypeOK, fateVars, threadVars,
      accVars, mgrVars, drsVars, netVars, appVars, Crash, Up, At, Goto
<1>2. ASSUME FreeManager PROVE AInv' /\ UNCHANGED <<told, dlv>>
  <2>1. /\ mgrList' = [mgrList EXCEPT ![mgr["cli"]] = <<>>]
        /\ mgrFds' = [mgrFds EXCEPT ![mgr["cli"]] = {}]
        /\ UNCHANGED <<told, dlv, db, drsTodo, sock>>
    BY <1>2
    DEF FreeManager, fateVars, threadVars, accVars, mgrVars, drsVars, netVars, appVars, Crash, Up,
        At, Goto
  <2>2. mgrList \in [Managers -> Seq(Clients)] /\ mgrFds \in [Managers -> SUBSET Clients]
    BY DEF TInv, TypeOK
  <2> QED BY <2>1, <2>2, EmptyList DEF AInv, AnnouncedFirst, Unannounced
<1>3. ASSUME StartListening PROVE AInv' /\ UNCHANGED <<told, dlv>>
  <2>1. PICK m \in Managers : /\ mgrList' = [mgrList EXCEPT ![m] = <<>>]
                              /\ mgrFds' = [mgrFds EXCEPT ![m] = {}]
    BY <1>3 DEF StartListening
  <2>2. UNCHANGED <<told, dlv, db, drsTodo, sock>>
    BY <1>3
    DEF StartListening, fateVars, threadVars, accVars, mgrVars, drsVars, netVars, appVars, Crash,
        Up, At, Goto
  <2>3. mgrList \in [Managers -> Seq(Clients)] /\ mgrFds \in [Managers -> SUBSET Clients]
    BY DEF TInv, TypeOK
  <2> QED BY <2>1, <2>2, <2>3, EmptyList DEF AInv, AnnouncedFirst, Unannounced
<1>4. ASSUME Purge PROVE AInv' /\ UNCHANGED <<told, dlv>>
  BY <1>4, EmptyList
  DEF AInv, AnnouncedFirst, Unannounced, Purge, TInv, TypeOK, fateVars, threadVars, accVars,
      mgrVars, drsVars, netVars, appVars, Crash, Up, At, Goto
<1> QED BY <1>1, <1>2, <1>3, <1>4 DEF CliLoud

LEMMA AccAnnounces ==
  ASSUME TInv, AInv, AccLoud PROVE AInv' /\ [App!Next]_<<told, dlv>>
<1>1. ASSUME NEW c \in Clients, Accept(c) PROVE AInv' /\ App!ClientConnected(c)
  <2>1. /\ sock[c] = "backlog" /\ sock' = [sock EXCEPT ![c] = "open"]
        /\ told' = told \cup {c} /\ UNCHANGED <<db, mgrList, mgrFds, drsTodo, dlv>>
    BY <1>1
    DEF Accept, fateVars, threadVars, accVars, mgrVars, drsVars, netVars, appVars, Crash, Up, At,
        Goto
  <2> QED BY <2>1 DEF AInv, AnnouncedFirst, Unannounced, TInv, TypeOK, App!ClientConnected
<1>2. ASSUME AccAdd PROVE AInv' /\ UNCHANGED <<told, dlv>>
  <2>1. /\ db' = Append(db, accClient) /\ db \in Seq(Clients)
        /\ accClient \in told /\ accClient \in Clients
    BY <1>2
    DEF AccAdd, TInv, TypeOK, Handing, HandingOver, fateVars, threadVars, accVars, mgrVars, drsVars,
        netVars, appVars, Crash, Up, At, Goto
  <2>2. Range(db') = Range(db) \cup {accClient}
    BY <2>1, RangeOfAppend
  <2>3. UNCHANGED <<told, dlv, mgrList, mgrFds, drsTodo, sock>>
    BY <1>2
    DEF AccAdd, fateVars, threadVars, accVars, mgrVars, drsVars, netVars, appVars, Crash, Up, At,
        Goto
  <2> QED BY <2>1, <2>2, <2>3 DEF AInv, AnnouncedFirst, Unannounced
<1>3. ASSUME AccRelink PROVE AInv' /\ UNCHANGED <<told, dlv>>
  <2> DEFINE m == mgr["acc"]
  <2>1. /\ m \in Managers /\ mgrList' = [mgrList EXCEPT ![m] = Append(mgrList[m], accClient)]
        /\ UNCHANGED <<told, dlv, db, mgrFds, drsTodo, sock>>
    BY <1>3
    DEF AccRelink, LiveManager, fateVars, threadVars, accVars, mgrVars, drsVars, netVars, appVars,
        Crash, Up, At, Goto
  <2>2. accClient \in told /\ accClient \in Clients /\ mgrList \in [Managers -> Seq(Clients)]
    BY <1>3
    DEF AccRelink, TInv, TypeOK, Handing, HandingOver, fateVars, threadVars, accVars, mgrVars,
        drsVars, netVars, appVars, Crash, Up, At, Goto
  <2> HIDE DEF m
  <2>3. Range(Append(mgrList[m], accClient)) = Range(mgrList[m]) \cup {accClient}
    BY <2>1, <2>2, RangeOfAppend
  <2>4. \A n \in Managers : Range(mgrList'[n]) \subseteq Range(mgrList[n]) \cup {accClient}
    BY <2>1, <2>2, <2>3
  <2> QED BY <2>1, <2>2, <2>4 DEF AInv, AnnouncedFirst, Unannounced
<1> QED BY <1>1, <1>2, <1>3 DEF AccLoud, App!Next

LEMMA DrsAnnounces ==
  ASSUME TInv, AInv, NEW d \in Drs, DrsLoud(d) PROVE AInv' /\ [App!Next]_<<told, dlv>>
<1>0. /\ mgrList \in [Managers -> Seq(Clients)] /\ mgrFds \in [Managers -> SUBSET Clients]
      /\ drsTodo = [e \in Drs |-> drsTodo[e]] /\ db \in Seq(Clients)
      /\ dlv \in [Clients -> Nat] /\ drsGot[d] \in Int
  BY DEF TInv, TypeOK
<1>1. ASSUME DrsCopy(d) PROVE AInv' /\ UNCHANGED <<told, dlv>>
  <2> DEFINE m == drsMgr[d]
  <2>1. /\ m \in Managers /\ mgrList' = [mgrList EXCEPT ![m] = mgrList[m] \o db]
        /\ UNCHANGED <<told, dlv, db, mgrFds, drsTodo, sock>>
    BY <1>1
    DEF DrsCopy, DrsAt, LiveManager, fateVars, threadVars, accVars, mgrVars, drsVars, netVars,
        appVars, Crash, Up, At, Goto
  <2> HIDE DEF m
  <2>2. Range(mgrList[m] \o db) = Range(mgrList[m]) \cup Range(db)
    BY <1>0, <2>1, RangeOfConcat
  <2>3. \A n \in Managers : Range(mgrList'[n]) \subseteq Range(mgrList[n]) \cup Range(db)
    BY <1>0, <2>1, <2>2
  <2> QED BY <2>1, <2>3 DEF AInv, AnnouncedFirst, Unannounced
<1>2. ASSUME DrsPrep(d) PROVE AInv' /\ UNCHANGED <<told, dlv>>
  <2> DEFINE m == drsMgr[d]
  <2>1. /\ m \in Managers /\ mgrFds' = [mgrFds EXCEPT ![m] = Range(mgrList[m])]
        /\ UNCHANGED <<told, dlv, db, mgrList, drsTodo, sock>>
    BY <1>2
    DEF DrsPrep, DrsAt, LiveManager, fateVars, threadVars, accVars, mgrVars, drsVars, netVars,
        appVars, Crash, Up, At, Goto
  <2> HIDE DEF m
  <2> QED BY <1>0, <2>1 DEF AInv, AnnouncedFirst, Unannounced
<1>3. ASSUME DrsSelect(d) PROVE AInv' /\ UNCHANGED <<told, dlv>>
  <2> DEFINE list == mgrList[drsMgr[d]]
             ready == {i \in DOMAIN list : list[i] \in mgrFds[drsMgr[d]] /\ Readable(list[i])}
             visits == [i \in ready |-> list[i]]
  <2>1. /\ drsMgr[d] \in Managers /\ drsTodo' = [drsTodo EXCEPT ![d] = visits]
        /\ UNCHANGED <<told, dlv, db, mgrList, mgrFds, sock>>
    BY <1>3
    DEF DrsSelect, DrsAt, LiveManager, fateVars, threadVars, accVars, mgrVars, drsVars, netVars,
        appVars, Crash, Up, At, Goto
  <2>2. Range(visits) \subseteq Range(list)
    BY DEF Range
  <2>3. Range(list) \subseteq told
    BY <2>1 DEF AInv, AnnouncedFirst
  <2> HIDE DEF visits, list
  <2>4. Range(visits) \subseteq told /\ \A e \in Drs : drsTodo'[e] = IF e = d THEN visits ELSE drsTodo[e]
    BY <1>0, <2>1, <2>2, <2>3
  <2> QED BY <2>1, <2>4 DEF AInv, AnnouncedFirst, Unannounced
<1>4. ASSUME DrsDeliver(d) PROVE AInv' /\ [App!Next]_<<told, dlv>>
  <2> DEFINE c == First(drsTodo[d])
             left == ButFirst(drsTodo[d])
  <2>1. /\ dlv' = IF drsGot[d] > 0 THEN [dlv EXCEPT ![c] = dlv[c] + drsGot[d]] ELSE dlv
        /\ drsTodo' = [drsTodo EXCEPT ![d] = left]
        /\ UNCHANGED <<told, db, mgrList, mgrFds, sock>>
    BY <1>4
    DEF DrsDeliver, fateVars, threadVars, accVars, mgrVars, drsVars, netVars, appVars, Crash, Up,
        At, Goto
  <2>2. c \in Clients /\ c \in Range(drsTodo[d])
    BY <1>4, VisitedIsClient DEF DrsDeliver, DrsAt
  <2>3. c \in told
    BY <2>2 DEF AInv, AnnouncedFirst
  <2>4. Range(left) \subseteq Range(drsTodo[d])
    BY ButFirstIsLess
  <2> HIDE DEF c, left
  <2>5. AInv'
    <3>1. \A e \in Drs : Range(drsTodo'[e]) \subseteq Range(drsTodo[e])
      BY <1>0, <2>1, <2>4
    <3> QED BY <2>1, <3>1 DEF AInv, AnnouncedFirst, Unannounced
  <2>6. CASE drsGot[d] > 0
    <3>1. dlv' = [dlv EXCEPT ![c] = dlv[c] + drsGot[d]]
      BY <2>1, <2>6
    <3>2. dlv'[c] > dlv[c] /\ dlv' = [dlv EXCEPT ![c] = dlv'[c]]
      BY <1>0, <2>2, <2>6, <3>1
    <3>3. App!ClientMsgRecvd(c)
      BY <2>1, <2>3, <3>2 DEF App!ClientMsgRecvd
    <3> QED BY <2>2, <2>5, <3>3 DEF App!Next
  <2>7. CASE ~(drsGot[d] > 0)
    BY <2>1, <2>5, <2>7
  <2> QED BY <2>6, <2>7
<1>5. ASSUME DrsCancelled(d) PROVE AInv' /\ UNCHANGED <<told, dlv>>
  <2>1. /\ drsTodo' = [drsTodo EXCEPT ![d] = <<>>]
        /\ UNCHANGED <<told, dlv, db, mgrList, mgrFds, sock>>
    BY <1>5
    DEF DrsCancelled, fateVars, threadVars, accVars, mgrVars, drsVars, netVars, appVars, Crash, Up,
        At, Goto
  <2>2. \A e \in Drs : drsTodo'[e] = IF e = d THEN <<>> ELSE drsTodo[e]
    BY <1>0, <2>1
  <2> QED BY <2>1, <2>2, EmptyList DEF AInv, AnnouncedFirst, Unannounced
<1> QED BY <1>1, <1>2, <1>3, <1>4, <1>5 DEF DrsLoud

LEMMA AnnounceStep ==
  ASSUME TInv, AInv, [Next]_vars PROVE AInv' /\ [App!Next]_<<told, dlv>>
<1>1. Quiet => AInv' /\ UNCHANGED <<told, dlv>>
  BY QuietKeeps DEF Quiet
<1>2. ASSUME NEW c \in Clients, ClientStep(c) PROVE AInv' /\ UNCHANGED <<told, dlv>>
  <2>1. CASE Connect(c)
    BY <2>1
    DEF Connect, AInv, AnnouncedFirst, Unannounced, TInv, TypeOK, fateVars, threadVars, accVars,
        mgrVars, drsVars, netVars, appVars, Crash, Up, At, Goto
  <2>2. Send(c) \/ Hangup(c) => Quiet
    BY
    DEF Send, Hangup, Quiet, fateVars, threadVars, accVars, mgrVars, drsVars, netVars, appVars,
        Crash, Up, At, Goto
  <2> QED BY <1>1, <1>2, <2>1, <2>2 DEF ClientStep
<1>3. UNCHANGED vars => Quiet
  BY DEF Quiet, vars, fateVars, threadVars, accVars, mgrVars, drsVars, netVars, appVars, Crash, Up, At, Goto
<1>4. CASE CliStep
  BY <1>1, <1>4, CliQuiet, CliAnnounces
<1>5. ASSUME NEW a \in Actors, ThreadStep(a) PROVE AInv' /\ UNCHANGED <<told, dlv>>
  BY <1>1, <1>5, ThreadQuiet
<1>6. CASE AccStep
  BY <1>1, <1>6, AccQuiet, AccAnnounces
<1>7. ASSUME NEW d \in Drs, DrsStep(d) PROVE AInv' /\ [App!Next]_<<told, dlv>>
  BY <1>1, <1>7, DrsQuiet, DrsAnnounces
<1> QED BY <1>1, <1>2, <1>3, <1>4, <1>5, <1>6, <1>7 DEF Next, Rest

LEMMA AnnounceInit == Init => AInv /\ App!Init
<1> SUFFICES ASSUME Init PROVE AInv /\ App!Init
  OBVIOUS
<1>1. /\ db = <<>> /\ told = {} /\ \A m \in Managers : mgrList[m] = <<>> /\ mgrFds[m] = {}
      /\ \A d \in Drs : drsTodo[d] = <<>>
  BY DEF Init
<1> QED BY <1>1, EmptyList DEF Init, AInv, AnnouncedFirst, Unannounced, App!Init

\* Whatever is stored, listed, polled or being visited was announced to the
\* application, under every interleaving of commands, handoffs and cancels.
THEOREM ServerAnnouncedFirst == Spec => []AnnouncedFirst
<1>1. AInv => AnnouncedFirst
  BY DEF AInv
<1> QED BY <1>1, TypeInit, TypeStep, AnnounceInit, AnnounceStep, PTL DEF Spec

\* The server implements AppView: each client is announced once and before
\* any of its messages, and what is delivered only grows.
THEOREM ServerImplementsAppView == Spec => AppSpec
<1> QED
  BY TypeInit, TypeStep, AnnounceInit, AnnounceStep, PTL DEF Spec, AppSpec, App!Spec

(****************************************************************************)
(* What the receive threads use is stored.  The handoff lists a client that *)
(* AccAdd has stored (Handed), and everything else is copied from a list or *)
(* from the database itself, which nothing but the end of stop empties.     *)
(****************************************************************************)
HandoffPcs == {"handoff", "cancel", "join", "joining", "forget", "relink", "create", "nap"}
Handed == pc["acc"] \in HandoffPcs => accClient \in Range(db)
SInv == fate # "stopped" => StoredFirst /\ Handed

\* A step that leaves a handoff alone, goes on with it or ends it.
GoesOn == pc'["acc"] \in HandoffPcs => pc["acc"] \in HandoffPcs /\ accClient' = accClient

LEMMA CliGoesOn == ASSUME TInv, CliStep PROVE GoesOn
<1>1. pc \in [Actors -> CliPcs \cup AccPcs] /\ "cli" \in Actors /\ "acc" \in Actors
  BY DEF TInv, TypeOK, Actors
<1>2. Start \/ StartAgain \/ StopUnstarted \/ StartAccepting \/ StopListening => GoesOn
  BY <1>1
  DEF Start, StartAgain, StopUnstarted, StartAccepting, StopListening, GoesOn, HandoffPcs,
      threadVars, accVars, Crash, Up, At, Goto
<1>3. ASSUME NEW op \in {"stop_acc", "stop"}, StopAccepting(op) PROVE GoesOn
  BY <1>1, <1>3 DEF StopAccepting, GoesOn, HandoffPcs, threadVars, accVars, Up, At, Goto
<1>4. FreeFault \/ ListeningStopped \/ CommandStarted \/ StopNoAcceptor \/ StopManager => GoesOn
  BY <1>1
  DEF FreeFault, ListeningStopped, CommandStarted, StopNoAcceptor, StopManager, GoesOn, HandoffPcs,
      threadVars, accVars, Crash, Up, At, Goto
<1>5. AcceptorStopped \/ FreeManager \/ StartListening \/ Purge => GoesOn
  BY <1>1
  DEF AcceptorStopped, FreeManager, StartListening, Purge, GoesOn, HandoffPcs, threadVars, accVars,
      Up, At, Goto
<1> QED BY <1>2, <1>3, <1>4, <1>5 DEF CliStep

LEMMA ThreadGoesOn == ASSUME TInv, NEW a \in Actors, ThreadStep(a) PROVE GoesOn
<1>1. pc \in [Actors -> CliPcs \cup AccPcs] /\ "acc" \in Actors
  BY DEF TInv, TypeOK, Actors
<1>2. CancelDrs(a) \/ JoinDrs(a) \/ DrsJoined(a) => GoesOn
  BY <1>1 DEF CancelDrs, JoinDrs, DrsJoined, GoesOn, HandoffPcs, threadVars, accVars, Up, At, Goto
<1>3. ForgetDrs(a) \/ CreateDrs(a) \/ StopFault(a) => GoesOn
  BY <1>1 DEF ForgetDrs, CreateDrs, StopFault, GoesOn, HandoffPcs, threadVars, accVars, Crash, Up, At, Goto
<1> QED BY <1>2, <1>3 DEF ThreadStep

LEMMA AccGoesOn == ASSUME TInv, AccStep PROVE GoesOn \/ AccAdd
<1>1. pc \in [Actors -> CliPcs \cup AccPcs] /\ "acc" \in Actors
  BY DEF TInv, TypeOK, Actors
<1>2. AccSetup \/ AccSetupFails \/ AccCallback \/ AccHandoff \/ AccRelink => GoesOn
  BY <1>1
  DEF AccSetup, AccSetupFails, AccCallback, AccHandoff, AccRelink, GoesOn, HandoffPcs, threadVars,
      accVars, Crash, Up, At, Goto
<1>3. AccNap \/ AccFault \/ AccCancelled => GoesOn
  BY <1>1 DEF AccNap, AccFault, AccCancelled, GoesOn, HandoffPcs, threadVars, accVars, Crash, Up, At, Goto
<1>4. ASSUME NEW c \in Clients, Accept(c) PROVE GoesOn
  BY <1>1, <1>4 DEF Accept, GoesOn, HandoffPcs, Up, At, Goto
<1> QED BY <1>2, <1>3, <1>4 DEF AccStep

LEMMA DrsGoesOn == ASSUME NEW d \in Drs, DrsStep(d) PROVE GoesOn
<1>1. UNCHANGED <<pc, accClient>>
  BY
  DEF DrsStep, DrsStart, DrsCopy, DrsPrep, DrsSelect, DrsRecv, DrsEof, DrsDeliver, DrsCancelled,
      DrsFault, threadVars, accVars, Crash
<1> QED BY <1>1 DEF GoesOn

\* A process that has ended takes no step.
LEMMA EndedStays == ASSUME [Next]_vars, fate = "stopped" PROVE UNCHANGED vars
<1>1. ~CliStep
  BY
  DEF CliStep, Start, StartAgain, StopAccepting, StopUnstarted, AcceptorStopped, StartAccepting,
      StopListening, FreeManager, FreeFault, ListeningStopped, StartListening, CommandStarted,
      StopNoAcceptor, StopManager, Purge, Command, Up, At
<1>2. \A a \in Actors : ~ThreadStep(a)
  BY DEF ThreadStep, CancelDrs, JoinDrs, DrsJoined, ForgetDrs, CreateDrs, StopFault, Up, At
<1>3. ~AccStep
  BY
  DEF AccStep, AccSetup, AccSetupFails, Accept, AccCallback, AccAdd, AccHandoff, AccRelink, AccNap,
      AccFault, AccCancelled, Up, At
<1>4. \A d \in Drs : ~DrsStep(d)
  BY
  DEF DrsStep, DrsStart, DrsCopy, DrsPrep, DrsSelect, DrsRecv, DrsEof, DrsDeliver, DrsCancelled,
      DrsFault, DrsAt, Up
<1>5. \A c \in Clients : ~ClientStep(c)
  BY DEF ClientStep, Connect, Send, Hangup, Up
<1> QED BY <1>1, <1>2, <1>3, <1>4, <1>5 DEF Next, Rest

LEMMA QuietStores == ASSUME StoredFirst, Handed, Quiet, GoesOn PROVE StoredFirst' /\ Handed'
BY DEF StoredFirst, Handed, Quiet, GoesOn

LEMMA CliStores ==
  ASSUME TInv, StoredFirst, Handed, CliLoud, GoesOn, fate' # "stopped" PROVE StoredFirst' /\ Handed'
<1>0. mgrList \in [Managers -> Seq(Clients)] /\ mgrFds \in [Managers -> SUBSET Clients]
  BY DEF TInv, TypeOK
<1>1. CASE AcceptorStopped
  BY <1>1 DEF StoredFirst, Handed, AcceptorStopped, GoesOn, mgrVars, drsVars
<1>2. CASE FreeManager
  <2>1. /\ mgrList' = [mgrList EXCEPT ![mgr["cli"]] = <<>>] /\ mgrFds' = [mgrFds EXCEPT ![mgr["cli"]] = {}]
        /\ UNCHANGED <<db, drsTodo>>
    BY <1>2 DEF FreeManager, drsVars
  <2> QED BY <1>0, <2>1, EmptyList DEF StoredFirst, Handed, GoesOn
<1>3. CASE StartListening
  <2>1. PICK m \in Managers : /\ mgrList' = [mgrList EXCEPT ![m] = <<>>]
                              /\ mgrFds' = [mgrFds EXCEPT ![m] = {}]
    BY <1>3 DEF StartListening
  <2>2. UNCHANGED <<db, drsTodo>>
    BY <1>3 DEF StartListening, drsVars
  <2> QED BY <1>0, <2>1, <2>2, EmptyList DEF StoredFirst, Handed, GoesOn
<1>4. ~Purge
  BY DEF Purge
<1> QED BY <1>1, <1>2, <1>3, <1>4 DEF CliLoud

\* The handoff stores the client before it lists it.
LEMMA AccStores ==
  ASSUME TInv, StoredFirst, Handed, AccLoud, GoesOn \/ AccAdd PROVE StoredFirst' /\ Handed'
<1>1. ASSUME NEW c \in Clients, Accept(c) PROVE StoredFirst' /\ Handed'
  <2>1. UNCHANGED <<db, mgrList, mgrFds, drsTodo>> /\ pc'["acc"] = "callback"
    BY <1>1 DEF Accept, mgrVars, drsVars, At, Goto, TInv, TypeOK, Actors
  <2> QED BY <2>1 DEF StoredFirst, Handed, HandoffPcs
<1>2. CASE AccAdd
  <2>1. /\ db' = Append(db, accClient) /\ db \in Seq(Clients) /\ accClient \in Clients
        /\ UNCHANGED <<accClient, mgrList, mgrFds, drsTodo>>
    BY <1>2 DEF AccAdd, TInv, TypeOK, Handing, HandingOver, accVars, mgrVars, drsVars, At
  <2>2. Range(db') = Range(db) \cup {accClient}
    BY <2>1, RangeOfAppend
  <2> QED BY <2>1, <2>2 DEF StoredFirst, Handed
<1>3. CASE AccRelink
  <2> DEFINE m == mgr["acc"]
  <2>1. /\ m \in Managers /\ mgrList' = [mgrList EXCEPT ![m] = Append(mgrList[m], accClient)]
        /\ UNCHANGED <<accClient, db, mgrFds, drsTodo>>
    BY <1>3 DEF AccRelink, LiveManager, accVars, drsVars, At
  <2>2. accClient \in Range(db) /\ accClient \in Clients /\ mgrList \in [Managers -> Seq(Clients)]
    BY <1>3 DEF AccRelink, Handed, HandoffPcs, TInv, TypeOK, Handing, HandingOver, At
  <2> HIDE DEF m
  <2>3. Range(Append(mgrList[m], accClient)) = Range(mgrList[m]) \cup {accClient}
    BY <2>1, <2>2, RangeOfAppend
  <2>4. \A n \in Managers : Range(mgrList'[n]) \subseteq Range(mgrList[n]) \cup {accClient}
    BY <2>1, <2>2, <2>3
  <2> QED BY <2>1, <2>2, <2>4 DEF StoredFirst, Handed
<1> QED BY <1>1, <1>2, <1>3 DEF AccLoud

LEMMA DrsStores ==
  ASSUME TInv, StoredFirst, Handed, NEW d \in Drs, DrsLoud(d), GoesOn PROVE StoredFirst' /\ Handed'
<1>0. /\ mgrList \in [Managers -> Seq(Clients)] /\ mgrFds \in [Managers -> SUBSET Clients]
      /\ drsTodo = [e \in Drs |-> drsTodo[e]] /\ db \in Seq(Clients)
  BY DEF TInv, TypeOK
<1>1. db' = db
  BY DEF DrsLoud, DrsCopy, DrsPrep, DrsSelect, DrsDeliver, DrsCancelled
<1>2. Handed'
  BY <1>1 DEF Handed, GoesOn
<1>3. CASE DrsCopy(d)
  <2> DEFINE m == drsMgr[d]
  <2>1. /\ m \in Managers /\ mgrList' = [mgrList EXCEPT ![m] = mgrList[m] \o db]
        /\ UNCHANGED <<mgrFds, drsTodo>>
    BY <1>3 DEF DrsCopy, DrsAt, LiveManager
  <2> HIDE DEF m
  <2>2. Range(mgrList[m] \o db) = Range(mgrList[m]) \cup Range(db)
    BY <1>0, <2>1, RangeOfConcat
  <2>3. \A n \in Managers : Range(mgrList'[n]) \subseteq Range(mgrList[n]) \cup Range(db)
    BY <1>0, <2>1, <2>2
  <2> QED BY <1>1, <1>2, <2>1, <2>3 DEF StoredFirst
<1>4. CASE DrsPrep(d)
  <2> DEFINE m == drsMgr[d]
  <2>1. /\ m \in Managers /\ mgrFds' = [mgrFds EXCEPT ![m] = Range(mgrList[m])]
        /\ UNCHANGED <<mgrList, drsTodo>>
    BY <1>4 DEF DrsPrep, DrsAt, LiveManager
  <2> HIDE DEF m
  <2> QED BY <1>0, <1>1, <1>2, <2>1 DEF StoredFirst
<1>5. CASE DrsSelect(d)
  <2> DEFINE list == mgrList[drsMgr[d]]
             ready == {i \in DOMAIN list : list[i] \in mgrFds[drsMgr[d]] /\ Readable(list[i])}
             visits == [i \in ready |-> list[i]]
  <2>1. /\ drsMgr[d] \in Managers /\ drsTodo' = [drsTodo EXCEPT ![d] = visits]
        /\ UNCHANGED <<mgrList, mgrFds>>
    BY <1>5 DEF DrsSelect, DrsAt, LiveManager, mgrVars
  <2>2. Range(visits) \subseteq Range(list)
    BY DEF Range
  <2>3. Range(list) \subseteq Range(db)
    BY <2>1 DEF StoredFirst
  <2> HIDE DEF visits, list
  <2>4. Range(visits) \subseteq Range(db) /\ \A e \in Drs : drsTodo'[e] = IF e = d THEN visits ELSE drsTodo[e]
    BY <1>0, <2>1, <2>2, <2>3
  <2> QED BY <1>1, <1>2, <2>1, <2>4 DEF StoredFirst
<1>6. CASE DrsDeliver(d)
  <2> DEFINE left == ButFirst(drsTodo[d])
  <2>1. drsTodo' = [drsTodo EXCEPT ![d] = left] /\ UNCHANGED <<mgrList, mgrFds>>
    BY <1>6 DEF DrsDeliver, mgrVars
  <2>2. Range(left) \subseteq Range(drsTodo[d])
    BY ButFirstIsLess
  <2> HIDE DEF left
  <2>3. \A e \in Drs : Range(drsTodo'[e]) \subseteq Range(drsTodo[e])
    BY <1>0, <2>1, <2>2
  <2> QED BY <1>1, <1>2, <2>1, <2>3 DEF StoredFirst
<1>7. CASE DrsCancelled(d)
  <2>1. drsTodo' = [drsTodo EXCEPT ![d] = <<>>] /\ UNCHANGED <<mgrList, mgrFds>>
    BY <1>7 DEF DrsCancelled, mgrVars
  <2>2. \A e \in Drs : drsTodo'[e] = IF e = d THEN <<>> ELSE drsTodo[e]
    BY <1>0, <2>1
  <2> QED BY <1>1, <1>2, <2>1, <2>2, EmptyList DEF StoredFirst
<1> QED BY <1>3, <1>4, <1>5, <1>6, <1>7 DEF DrsLoud

LEMMA StoreStep == ASSUME TInv, SInv, [Next]_vars PROVE SInv'
<1> SUFFICES ASSUME fate' # "stopped" PROVE StoredFirst' /\ Handed'
  BY DEF SInv
<1>1. fate # "stopped"
  BY EndedStays DEF vars, fateVars
<1>2. StoredFirst /\ Handed
  BY <1>1 DEF SInv
<1>3. Quiet /\ GoesOn => StoredFirst' /\ Handed'
  BY <1>2, QuietStores
<1>4. CASE CliStep
  BY <1>2, <1>3, <1>4, CliGoesOn, CliQuiet, CliStores
<1>5. ASSUME NEW a \in Actors, ThreadStep(a) PROVE StoredFirst' /\ Handed'
  BY <1>3, <1>5, ThreadGoesOn, ThreadQuiet
<1>6. CASE AccStep
  BY <1>2, <1>3, <1>6, AccGoesOn, AccQuiet, AccStores DEF AccLoud
<1>7. ASSUME NEW d \in Drs, DrsStep(d) PROVE StoredFirst' /\ Handed'
  BY <1>2, <1>3, <1>7, DrsGoesOn, DrsQuiet, DrsStores
<1>8. ASSUME NEW c \in Clients, ClientStep(c) PROVE StoredFirst' /\ Handed'
  <2>1. UNCHANGED <<db, mgrList, mgrFds, drsTodo, pc, accClient>>
    BY <1>8 DEF ClientStep, Connect, Send, Hangup, threadVars, accVars, mgrVars, drsVars
  <2> QED BY <1>2, <2>1 DEF StoredFirst, Handed
<1>9. CASE UNCHANGED vars
  <2>1. UNCHANGED <<db, mgrList, mgrFds, drsTodo, pc, accClient>>
    BY <1>9 DEF vars, threadVars, accVars, mgrVars, drsVars
  <2> QED BY <1>2, <2>1 DEF StoredFirst, Handed
<1> QED BY <1>4, <1>5, <1>6, <1>7, <1>8, <1>9 DEF Next, Rest

LEMMA StoreInit == Init => SInv
<1> SUFFICES ASSUME Init PROVE SInv
  OBVIOUS
<1>1. /\ \A m \in Managers : mgrList[m] = <<>> /\ mgrFds[m] = {}
      /\ \A d \in Drs : drsTodo[d] = <<>>
      /\ pc["acc"] = "none"
  BY DEF Init, Actors
<1> QED BY <1>1, EmptyList DEF SInv, StoredFirst, Handed, HandoffPcs

\* Until stop has purged the database, every client that a manager lists or
\* polls or a receive thread visits is in it, under all commands.
THEOREM ServerStoredFirst == Spec => [](fate # "stopped" => StoredFirst)
<1>1. SInv => (fate # "stopped" => StoredFirst)
  BY DEF SInv
<1> QED BY <1>1, StoreInit, TypeInit, TypeStep, StoreStep, PTL DEF Spec

(****************************************************************************)
(* Sums over finite sets.  SumFunctionOnSet picks one element after the     *)
(* other: such a function of the subsets exists and is unique, and the      *)
(* order does not matter.                                                   *)
(****************************************************************************)
Some(s) == CHOOSE x \in s : TRUE
Adds(g, f, S) == g = [s \in SUBSET S |-> IF s = {} THEN 0 ELSE f[Some(s)] + g[s \ {Some(s)}]]

LEMMA SomeIsIn == \A s : s # {} => Some(s) \in s
BY DEF Some

\* Of any finite sets, one has no proper subset among them.
LEMMA SmallestSet ==
  ASSUME NEW S, NEW T, T \subseteq FiniteSubsetsOf(S), T # {}
  PROVE  \E m \in T : \A s \in T : s \subseteq m => s = m
<1>1. PICK m \in T : \A s \in T : ~(<<s, m>> \in StrictSubsetOrdering(S))
  BY WFMin, FS_StrictSubsetOrderingWellFounded
<1>2. \A s \in T : s \subseteq m /\ s # m => <<s, m>> \in StrictSubsetOrdering(S)
  BY DEF StrictSubsetOrdering, FiniteSubsetsOf
<1>3. \A s \in T : s \subseteq m => s = m
  BY <1>1, <1>2
<1> QED BY <1>3

LEMMA Adding ==
  ASSUME NEW f, NEW S, NEW g, Adds(g, f, S)
  PROVE  \A s \in SUBSET S : g[s] = IF s = {} THEN 0 ELSE f[Some(s)] + g[s \ {Some(s)}]
<1> DEFINE body(s) == IF s = {} THEN 0 ELSE f[Some(s)] + g[s \ {Some(s)}]
<1>1. g = [s \in SUBSET S |-> body(s)]
  BY DEF Adds
<1> HIDE DEF body
<1>2. \A s \in SUBSET S : g[s] = body(s)
  BY <1>1
<1> QED BY <1>2 DEF body

LEMMA SumsAgree ==
  ASSUME NEW f, NEW S, IsFiniteSet(S), NEW R, NEW g, NEW h, Adds(g, f, S), Adds(h, f, R)
  PROVE  \A u \in (SUBSET S) \cap (SUBSET R) : g[u] = h[u]
<1> DEFINE T == {u \in (SUBSET S) \cap (SUBSET R) : g[u] # h[u]}
<1>1. SUFFICES ASSUME T # {} PROVE FALSE
  OBVIOUS
<1>2. T \subseteq FiniteSubsetsOf(S)
  BY FS_FiniteSubsetsOfFinite
<1>3. PICK u \in T : \A s \in T : s \subseteq u => s = u
  <2> HIDE DEF T
  <2> QED BY <1>1, <1>2, SmallestSet
<1>4. u # {} /\ g[u \ {Some(u)}] # h[u \ {Some(u)}]
  <2>1. u \in SUBSET S /\ u \in SUBSET R /\ g[u] # h[u]
    BY <1>3
  <2> HIDE DEF T
  <2>2. g[u] = IF u = {} THEN 0 ELSE f[Some(u)] + g[u \ {Some(u)}]
    BY <2>1, Adding
  <2>3. h[u] = IF u = {} THEN 0 ELSE f[Some(u)] + h[u \ {Some(u)}]
    BY <2>1, Adding
  <2> QED BY <2>1, <2>2, <2>3
<1>5. u \ {Some(u)} \in T /\ u \ {Some(u)} # u
  BY <1>4, SomeIsIn
<1> QED BY <1>3, <1>5

LEMMA SumExists ==
  ASSUME NEW f, NEW S, IsFiniteSet(S) PROVE \E g : Adds(g, f, S)
<1> DEFINE T == {u \in SUBSET S : ~ \E g : Adds(g, f, u)}
<1>1. SUFFICES ASSUME T # {} PROVE FALSE
  OBVIOUS
<1>2. T \subseteq FiniteSubsetsOf(S)
  BY FS_FiniteSubsetsOfFinite
<1>3. PICK u \in T : \A s \in T : s \subseteq u => s = u
  <2> HIDE DEF T
  <2> QED BY <1>1, <1>2, SmallestSet
<1> DEFINE sumOf(s) == CHOOSE h : Adds(h, f, s)
           F(s) == sumOf(s)[s]
           G == [s \in SUBSET u |-> IF s = {} THEN 0 ELSE f[Some(s)] + F(s \ {Some(s)})]
<1>4. \A s \in SUBSET u : s # u => Adds(sumOf(s), f, s) /\ IsFiniteSet(s)
  <2> TAKE s \in SUBSET u
  <2>1. s # u => \E h : Adds(h, f, s)
    BY <1>3
  <2>2. IsFiniteSet(s)
    BY FS_Subset
  <2> QED BY <2>1, <2>2
<1> HIDE DEF sumOf
<1>5. ASSUME NEW s \in SUBSET u, s # u PROVE G[s] = F(s)
  <2>1. F(s) = IF s = {} THEN 0 ELSE f[Some(s)] + sumOf(s)[s \ {Some(s)}]
    BY <1>4, <1>5, Adding
  <2>2. s # {} => s \ {Some(s)} \in SUBSET s /\ s \ {Some(s)} # u
    BY <1>5
  <2>3. ASSUME s # {} PROVE sumOf(s)[s \ {Some(s)}] = F(s \ {Some(s)})
    <3> DEFINE t == s \ {Some(s)}
    <3>1. t \in (SUBSET s) \cap (SUBSET t) /\ t \in SUBSET u /\ t # u
      BY <1>5, <2>2, <2>3
    <3>2. Adds(sumOf(s), f, s) /\ IsFiniteSet(s)
      BY <1>4, <1>5
    <3>3. Adds(sumOf(t), f, t)
      BY <1>4, <3>1
    <3> HIDE DEF t
    <3>4. sumOf(s)[t] = sumOf(t)[t]
      BY <3>1, <3>2, <3>3, SumsAgree
    <3> QED BY <3>4 DEF t
  <2> QED BY <2>1, <2>3
<1>6. ASSUME NEW s \in SUBSET u, s # {} PROVE G[s \ {Some(s)}] = F(s \ {Some(s)})
  <2>1. s \ {Some(s)} \in SUBSET u /\ s \ {Some(s)} # u
    BY <1>6, SomeIsIn
  <2> QED BY <1>5, <2>1
<1>7. G = [s \in SUBSET u |-> IF s = {} THEN 0 ELSE f[Some(s)] + G[s \ {Some(s)}]]
  <2> DEFINE one(s) == IF s = {} THEN 0 ELSE f[Some(s)] + F(s \ {Some(s)})
             two(s) == IF s = {} THEN 0 ELSE f[Some(s)] + G[s \ {Some(s)}]
  <2>1. \A s \in SUBSET u : one(s) = two(s)
    BY <1>6
  <2>2. G = [s \in SUBSET u |-> one(s)]
    OBVIOUS
  <2> HIDE DEF one, G
  <2>3. G = [s \in SUBSET u |-> two(s)]
    <3> HIDE DEF two
    <3> QED BY <2>1, <2>2
  <2> QED BY <2>3
<1>8. Adds(G, f, u)
  <2> HIDE DEF G
  <2> QED BY <1>7 DEF Adds
<1> QED BY <1>3, <1>8

LEMMA SumIsOne ==
  ASSUME NEW f, NEW S, IsFiniteSet(S), NEW g, Adds(g, f, S) PROVE SumFunctionOnSet(f, S) = g[S]
<1> DEFINE sum == CHOOSE h : Adds(h, f, S)
<1>1. SumFunctionOnSet(f, S) = sum[S]
  BY DEF SumFunctionOnSet, FoldFunctionOnSet, MapThenFoldSet, Adds, Some
<1>2. Adds(sum, f, S)
  OBVIOUS
<1> HIDE DEF sum
<1>3. S \in (SUBSET S) \cap (SUBSET S)
  OBVIOUS
<1>4. sum[S] = g[S]
  BY <1>2, <1>3, SumsAgree
<1> QED BY <1>1, <1>4

LEMMA SumOfNone == ASSUME NEW f PROVE SumFunctionOnSet(f, {}) = 0
<1>1. PICK g : Adds(g, f, {})
  BY SumExists, FS_EmptySet
<1> QED BY <1>1, SumIsOne, FS_EmptySet, Adding

LEMMA SumOfMore ==
  ASSUME NEW f, NEW S, IsFiniteSet(S), S # {}
  PROVE  SumFunctionOnSet(f, S) = f[Some(S)] + SumFunctionOnSet(f, S \ {Some(S)})
<1> DEFINE less == S \ {Some(S)}
<1>1. PICK g : Adds(g, f, S)
  BY SumExists
<1>2. IsFiniteSet(less) /\ less \in (SUBSET S) \cap (SUBSET less) /\ S \in SUBSET S
  BY FS_Subset
<1> HIDE DEF less
<1>3. PICK h : Adds(h, f, less)
  BY <1>2, SumExists
<1>4. h[less] = g[less]
  BY <1>1, <1>2, <1>3, SumsAgree
<1>5. g[S] = f[Some(S)] + g[less]
  BY <1>1, <1>2, Adding DEF less
<1>6. SumFunctionOnSet(f, S) = g[S] /\ SumFunctionOnSet(f, less) = h[less]
  BY <1>1, <1>2, <1>3, SumIsOne
<1> QED BY <1>4, <1>5, <1>6 DEF less

LEMMA SumIsInt ==
  ASSUME NEW D, NEW f \in [D -> Int], NEW S, S \subseteq D, IsFiniteSet(S)
  PROVE  SumFunctionOnSet(f, S) \in Int
<1> DEFINE T == {u \in SUBSET S : SumFunctionOnSet(f, u) \notin Int}
<1>1. SUFFICES ASSUME T # {} PROVE FALSE
  OBVIOUS
<1>2. T \subseteq FiniteSubsetsOf(S)
  BY FS_FiniteSubsetsOfFinite
<1>3. PICK u \in T : \A s \in T : s \subseteq u => s = u
  <2> HIDE DEF T
  <2> QED BY <1>1, <1>2, SmallestSet
<1>4. u \in SUBSET S /\ SumFunctionOnSet(f, u) \notin Int
  BY <1>3
<1>5. u # {}
  BY <1>4, SumOfNone
<1>6. Some(u) \in u /\ u \ {Some(u)} # u /\ u \ {Some(u)} \in SUBSET S
  BY <1>4, <1>5, SomeIsIn
<1>7. SumFunctionOnSet(f, u \ {Some(u)}) \in Int
  <2>1. u \ {Some(u)} \notin T
    <3> HIDE DEF T
    <3> QED BY <1>3, <1>6
  <2> QED BY <1>6, <2>1
<1>8. IsFiniteSet(u)
  BY <1>4, FS_Subset
<1>9. SumFunctionOnSet(f, u) = f[Some(u)] + SumFunctionOnSet(f, u \ {Some(u)})
  BY <1>5, <1>8, SumOfMore
<1>10. f[Some(u)] \in Int
  BY <1>4, <1>6
<1> QED BY <1>4, <1>7, <1>9, <1>10

LEMMA SumWithout ==
  ASSUME NEW D, NEW f \in [D -> Int], NEW S, S \subseteq D, IsFiniteSet(S), NEW d \in S
  PROVE  SumFunctionOnSet(f, S) = f[d] + SumFunctionOnSet(f, S \ {d})
<1> DEFINE wrong(u) == \E e \in u : SumFunctionOnSet(f, u) # f[e] + SumFunctionOnSet(f, u \ {e})
           T == {u \in SUBSET S : wrong(u)}
<1>1. SUFFICES ASSUME T # {} PROVE FALSE
  OBVIOUS
<1>2. T \subseteq FiniteSubsetsOf(S)
  BY FS_FiniteSubsetsOfFinite
<1>3. PICK u \in T : \A s \in T : s \subseteq u => s = u
  <2> HIDE DEF T
  <2> QED BY <1>1, <1>2, SmallestSet
<1>4. u \in SUBSET S /\ wrong(u)
  BY <1>3
<1>5. PICK e \in u : SumFunctionOnSet(f, u) # f[e] + SumFunctionOnSet(f, u \ {e})
  BY <1>4
<1> DEFINE x == Some(u)
<1>6. x \in u
  BY <1>5, SomeIsIn
<1>7. IsFiniteSet(u) /\ \A s \in SUBSET u : IsFiniteSet(s) /\ s \subseteq D
  BY <1>4, FS_Subset
<1>8. SumFunctionOnSet(f, u) = f[x] + SumFunctionOnSet(f, u \ {x})
  BY <1>6, <1>7, SumOfMore
<1> HIDE DEF x
<1>9. x # e /\ e \in u \ {x} /\ x \in u \ {e} /\ u \ {x} # u /\ u \ {e} # u
  BY <1>5, <1>6, <1>8
<1>10. u \ {x} \notin T /\ u \ {e} \notin T
  <2> HIDE DEF T
  <2> QED BY <1>3, <1>9
<1>11. SumFunctionOnSet(f, u \ {x}) = f[e] + SumFunctionOnSet(f, (u \ {x}) \ {e})
  BY <1>4, <1>9, <1>10
<1>12. SumFunctionOnSet(f, u \ {e}) = f[x] + SumFunctionOnSet(f, (u \ {e}) \ {x})
  BY <1>4, <1>9, <1>10
<1>13. (u \ {x}) \ {e} = (u \ {e}) \ {x}
  OBVIOUS
<1> DEFINE rest == SumFunctionOnSet(f, (u \ {e}) \ {x})
<1>14. rest \in Int
  BY <1>7, SumIsInt
<1>15. f[x] \in Int /\ f[e] \in Int
  BY <1>4, <1>5, <1>6
<1> HIDE DEF rest
<1>16. SumFunctionOnSet(f, u) = f[x] + (f[e] + rest) /\ SumFunctionOnSet(f, u \ {e}) = f[x] + rest
  BY <1>8, <1>11, <1>12, <1>13 DEF rest
<1>17. SumFunctionOnSet(f, u) = f[e] + SumFunctionOnSet(f, u \ {e})
  BY <1>14, <1>15, <1>16
<1> QED BY <1>5, <1>17

LEMMA SumOfSame ==
  ASSUME NEW f, NEW g, NEW S, IsFiniteSet(S), \A d \in S : f[d] = g[d]
  PROVE  SumFunctionOnSet(f, S) = SumFunctionOnSet(g, S)
<1> DEFINE T == {u \in SUBSET S : SumFunctionOnSet(f, u) # SumFunctionOnSet(g, u)}
<1>1. SUFFICES ASSUME T # {} PROVE FALSE
  OBVIOUS
<1>2. T \subseteq FiniteSubsetsOf(S)
  BY FS_FiniteSubsetsOfFinite
<1>3. PICK u \in T : \A s \in T : s \subseteq u => s = u
  <2> HIDE DEF T
  <2> QED BY <1>1, <1>2, SmallestSet
<1>4. u \in SUBSET S /\ SumFunctionOnSet(f, u) # SumFunctionOnSet(g, u)
  BY <1>3
<1>5. u # {}
  BY <1>4, SumOfNone
<1>6. Some(u) \in u /\ u \ {Some(u)} # u /\ u \ {Some(u)} \in SUBSET S /\ f[Some(u)] = g[Some(u)]
  BY <1>4, <1>5, SomeIsIn
<1>7. SumFunctionOnSet(f, u \ {Some(u)}) = SumFunctionOnSet(g, u \ {Some(u)})
  <2>1. u \ {Some(u)} \notin T
    <3> HIDE DEF T
    <3> QED BY <1>3, <1>6
  <2> QED BY <1>6, <2>1
<1>8. IsFiniteSet(u)
  BY <1>4, FS_Subset
<1> QED BY <1>4, <1>5, <1>6, <1>7, <1>8, SumOfMore

(****************************************************************************)
(* No message is lost.  Between recvfrom and client_msg_recvd the messages  *)
(* are with one receive thread and one client, and there is no cancellation *)
(* point: a thread that is not about to deliver has none in hand.           *)
(****************************************************************************)
Empty == \A d \in Drs : drsPc[d] # "deliver" => drsGot[d] = 0
InFew == \A c \in Clients : IsFiniteSet(InHand(c))
LInv == NothingLost /\ Empty /\ InFew

LEMMA NoneLostInit == Init => LInv
<1> SUFFICES ASSUME Init PROVE LInv
  OBVIOUS
<1>1. /\ Empty /\ \A c \in Clients : InHand(c) = {}
      /\ \A c \in Clients : sent[c] = 0 /\ rx[c] = 0 /\ dlv[c] = 0
  BY DEF Init, Empty, InHand
<1> QED BY <1>1, SumOfNone, FS_EmptySet DEF LInv, NothingLost, InFew

\* A step at which no thread receives or delivers and no client sends.
Still ==
  /\ UNCHANGED <<drsGot, rx, sent, dlv>>
  /\ \A d \in Drs : drsPc[d] = "deliver" => drsPc'[d] = "deliver" /\ drsTodo'[d] = drsTodo[d]

LEMMA StillKeeps == ASSUME LInv, Still PROVE LInv'
<1>1. Empty'
  BY DEF LInv, Empty, Still
<1>2. ASSUME NEW c \in Clients PROVE InHand(c)' = InHand(c)
  BY DEF LInv, Empty, Still, InHand
<1>3. ASSUME NEW c \in Clients PROVE IsFiniteSet(InHand(c))' /\ (sent[c] = rx[c] + dlv[c] + SumFunctionOnSet(drsGot, InHand(c)))'
  BY <1>2 DEF LInv, NothingLost, InFew, Still
<1> QED BY <1>1, <1>3 DEF LInv, NothingLost, InFew

LEMMA CliStill == ASSUME CliStep PROVE Still
BY
DEF CliStep, Start, StartAgain, StopAccepting, StopUnstarted, AcceptorStopped, StartAccepting,
    StopListening, FreeManager, FreeFault, ListeningStopped, StartListening, CommandStarted,
    StopNoAcceptor, StopManager, Purge, Crash, Still, drsVars, netVars, appVars

LEMMA ThreadStill == ASSUME TInv, NEW a \in Actors, ThreadStep(a) PROVE Still
<1>1. drsPc \in [Drs -> DrsPcs]
  BY DEF TInv, TypeOK
<1>2. ASSUME DrsJoined(a) \/ CreateDrs(a) PROVE Still
  BY <1>1, <1>2 DEF DrsJoined, CreateDrs, Still, netVars, appVars
<1>3. ASSUME CancelDrs(a) \/ JoinDrs(a) \/ ForgetDrs(a) \/ StopFault(a) PROVE Still
  BY <1>3 DEF CancelDrs, JoinDrs, ForgetDrs, StopFault, Crash, Still, drsVars, netVars, appVars
<1> QED BY <1>2, <1>3 DEF ThreadStep

LEMMA AccStill == ASSUME AccStep PROVE Still
BY
DEF AccStep, AccSetup, AccSetupFails, Accept, AccCallback, AccAdd, AccHandoff, AccRelink, AccNap,
    AccFault, 
       AccCancelled, Crash, Still, drsVars, netVars, appVars

LEMMA ReceiveLosesNone == ASSUME TInv, LInv, NEW d \in Drs, DrsRecv(d) PROVE LInv'
<1> DEFINE c == First(drsTodo[d])
<1>0. /\ drsPc[d] = "recv" /\ drsPc \in [Drs -> DrsPcs] /\ drsGot \in [Drs -> Int] /\ drsGot' \in [Drs -> Int]
      /\ rx \in [Clients -> Nat] /\ DOMAIN drsTodo[d] # {}
      /\ \A x \in Clients : rx[x] \in Int /\ dlv[x] \in Int
  <2>1. TInv'
    BY DrsTypes DEF DrsStep
  <2>2. drsGot' \in [Drs -> Nat \cup {-1}] /\ drsGot \in [Drs -> Nat \cup {-1}]
    BY <2>1 DEF TInv, TypeOK
  <2>3. drsPc[d] = "recv" /\ DOMAIN drsTodo[d] # {}
    BY DEF TInv, Visiting, DrsRecv, DrsAt
  <2> QED BY <2>2, <2>3 DEF TInv, TypeOK
<1>1. /\ drsGot[d] = 0 /\ \A e \in Drs \ {d} : drsGot'[e] = drsGot[e]
      /\ \A e \in Drs \ {d} : drsPc'[e] = drsPc[e]
      /\ UNCHANGED <<drsTodo, sent, dlv>>
  BY <1>0 DEF LInv, Empty, DrsRecv, DrsGoto, appVars
<1>2. Empty'
  BY <1>0, <1>1 DEF LInv, Empty, DrsRecv, DrsGoto
<1>3. ASSUME NEW x \in Clients
      PROVE  /\ d \notin InHand(x) /\ InHand(x) \subseteq Drs /\ IsFiniteSet(InHand(x))
             /\ sent[x] = rx[x] + dlv[x] + SumFunctionOnSet(drsGot, InHand(x))
  <2>1. IsFiniteSet(InHand(x)) /\ sent[x] = rx[x] + dlv[x] + SumFunctionOnSet(drsGot, InHand(x))
    BY DEF LInv, NothingLost, InFew
  <2> QED BY <1>1, <2>1 DEF InHand
<1>4. ASSUME NEW x \in Clients
      PROVE  SumFunctionOnSet(drsGot', InHand(x)) = SumFunctionOnSet(drsGot, InHand(x))
  <2>1. \A e \in InHand(x) : drsGot'[e] = drsGot[e]
    BY <1>1, <1>3
  <2> QED BY <1>3, <2>1, SumOfSame
<1>5. ASSUME NEW x \in Clients, drsGot'[d] <= 0 \/ x # c
      PROVE  InHand(x)' = InHand(x) /\ rx'[x] = rx[x]
  BY <1>0, <1>1, <1>5 DEF InHand, DrsRecv
<1>6. ASSUME NEW x \in Clients, drsGot'[d] > 0, x = c
      PROVE  InHand(x)' = InHand(x) \cup {d} /\ rx'[x] = rx[x] - drsGot'[d]
  BY <1>0, <1>1, <1>6 DEF InHand, DrsRecv
<1>7. ASSUME NEW x \in Clients
      PROVE  IsFiniteSet(InHand(x))' /\ (sent[x] = rx[x] + dlv[x] + SumFunctionOnSet(drsGot, InHand(x)))'
  <2>1. CASE drsGot'[d] <= 0 \/ x # c
    BY <1>1, <1>3, <1>4, <1>5, <2>1
  <2>2. CASE drsGot'[d] > 0 /\ x = c
    <3> DEFINE S == InHand(x)
    <3>1. S' = S \cup {d} /\ IsFiniteSet(S') /\ S' \subseteq Drs /\ d \in S' /\ S' \ {d} = S
      BY <1>3, <1>6, <2>2, FS_AddElement
    <3>2. SumFunctionOnSet(drsGot', S') = drsGot'[d] + SumFunctionOnSet(drsGot', S' \ {d})
      BY <1>0, <3>1, SumWithout
    <3>3. SumFunctionOnSet(drsGot, S) \in Int
      BY <1>0, <1>3, SumIsInt
    <3>4. SumFunctionOnSet(drsGot', S') = drsGot'[d] + SumFunctionOnSet(drsGot, S)
      BY <1>4, <3>1, <3>2
    <3> QED BY <1>0, <1>1, <1>3, <1>6, <2>2, <3>1, <3>3, <3>4
  <2> QED BY <1>0, <2>1, <2>2
<1> QED BY <1>2, <1>7 DEF LInv, NothingLost, InFew

LEMMA DeliverLosesNone == ASSUME TInv, LInv, NEW d \in Drs, DrsDeliver(d) PROVE LInv'
<1> DEFINE c == First(drsTodo[d])
<1>0. /\ drsPc[d] = "deliver" /\ drsPc \in [Drs -> DrsPcs] /\ drsGot \in [Drs -> Int] /\ drsGot' \in [Drs -> Int]
      /\ c \in Clients /\ dlv \in [Clients -> Nat] /\ DOMAIN drsTodo[d] # {}
      /\ \A x \in Clients : rx[x] \in Int /\ dlv[x] \in Int
  <2>1. TInv'
    BY DrsTypes DEF DrsStep
  <2>2. drsPc[d] = "deliver"
    BY DEF DrsDeliver, DrsAt
  <2>3. c \in Clients
    BY <2>2, VisitedIsClient
  <2>4. drsGot' \in [Drs -> Nat \cup {-1}] /\ drsGot \in [Drs -> Nat \cup {-1}]
    BY <2>1 DEF TInv, TypeOK
  <2> QED BY <2>2, <2>3, <2>4 DEF TInv, TypeOK, Visiting
<1>1. /\ drsGot'[d] = 0 /\ \A e \in Drs \ {d} : drsGot'[e] = drsGot[e] /\ drsTodo'[e] = drsTodo[e]
      /\ \A e \in Drs \ {d} : drsPc'[e] = drsPc[e]
      /\ UNCHANGED <<sent, rx>> /\ drsPc'[d] # "deliver"
  <2>1. drsTodo = [e \in Drs |-> drsTodo[e]]
    BY DEF TInv, TypeOK
  <2> QED BY <1>0, <2>1 DEF DrsDeliver, DrsGoto, netVars
<1>2. Empty'
  BY <1>1 DEF LInv, Empty
<1>3. ASSUME NEW x \in Clients
      PROVE  /\ InHand(x) \subseteq Drs /\ IsFiniteSet(InHand(x)) /\ InHand(x)' = InHand(x) \ {d}
             /\ sent[x] = rx[x] + dlv[x] + SumFunctionOnSet(drsGot, InHand(x))
  <2>1. IsFiniteSet(InHand(x)) /\ sent[x] = rx[x] + dlv[x] + SumFunctionOnSet(drsGot, InHand(x))
    BY DEF LInv, NothingLost, InFew
  <2> QED BY <1>1, <2>1 DEF InHand
<1>4. ASSUME NEW x \in Clients
      PROVE  /\ IsFiniteSet(InHand(x) \ {d})
             /\ SumFunctionOnSet(drsGot', InHand(x) \ {d}) = SumFunctionOnSet(drsGot, InHand(x) \ {d})
  <2>1. \A e \in InHand(x) \ {d} : drsGot'[e] = drsGot[e]
    BY <1>1, <1>3
  <2>2. IsFiniteSet(InHand(x) \ {d})
    BY <1>3, FS_RemoveElement
  <2> QED BY <2>1, <2>2, SumOfSame
<1>5. ASSUME NEW x \in Clients
      PROVE  IsFiniteSet(InHand(x))' /\ (sent[x] = rx[x] + dlv[x] + SumFunctionOnSet(drsGot, InHand(x)))'
  <2>1. CASE d \notin InHand(x)
    <3>1. dlv'[x] = dlv[x]
      BY <1>0, <2>1 DEF InHand, DrsDeliver
    <3>2. InHand(x) \ {d} = InHand(x)
      BY <2>1
    <3> QED BY <1>1, <1>3, <1>4, <3>1, <3>2
  <2>2. CASE d \in InHand(x)
    <3>1. dlv'[x] = dlv[x] + drsGot[d]
      BY <1>0, <2>2 DEF InHand, DrsDeliver
    <3>2. SumFunctionOnSet(drsGot, InHand(x)) = drsGot[d] + SumFunctionOnSet(drsGot, InHand(x) \ {d})
      BY <1>0, <1>3, <2>2, SumWithout
    <3>3. SumFunctionOnSet(drsGot, InHand(x) \ {d}) \in Int
      BY <1>0, <1>3, <1>4, SumIsInt
    <3> DEFINE others == SumFunctionOnSet(drsGot, InHand(x) \ {d})
    <3>4. drsGot[d] \in Int /\ rx[x] \in Int /\ dlv[x] \in Int /\ sent'[x] = sent[x] /\ rx'[x] = rx[x]
      BY <1>0, <1>1
    <3>5. sent[x] = rx[x] + dlv[x] + (drsGot[d] + others) /\ others \in Int
      BY <1>3, <3>2, <3>3
    <3>6. SumFunctionOnSet(drsGot', InHand(x) \ {d}) = others
      BY <1>4
    <3> HIDE DEF others
    <3>7. sent'[x] = rx'[x] + dlv'[x] + SumFunctionOnSet(drsGot', InHand(x) \ {d})
      BY <3>1, <3>4, <3>5, <3>6
    <3> QED BY <1>3, <1>4, <3>7
  <2> QED BY <2>1, <2>2
<1> QED BY <1>2, <1>5 DEF LInv, NothingLost, InFew

LEMMA DrsLosesNone == ASSUME TInv, LInv, NEW d \in Drs, DrsStep(d) PROVE LInv'
<1>1. ASSUME ~DrsRecv(d), ~DrsDeliver(d) PROVE Still
  <2>1. drsPc \in [Drs -> DrsPcs] /\ drsTodo = [e \in Drs |-> drsTodo[e]]
    BY DEF TInv, TypeOK
  <2> QED
    BY <1>1, <2>1
    DEF DrsStep, DrsStart, DrsCopy, DrsPrep, DrsSelect, DrsEof, DrsCancelled, DrsFault, Crash,
        DrsAt, DrsGoto, Still, drsVars, netVars, appVars
<1> QED BY <1>1, StillKeeps, ReceiveLosesNone, DeliverLosesNone

LEMMA ClientLosesNone == ASSUME TInv, LInv, NEW c \in Clients, ClientStep(c) PROVE LInv'
<1>1. ASSUME Connect(c) \/ Hangup(c) PROVE LInv'
  BY <1>1, StillKeeps DEF Connect, Hangup, Still, drsVars, appVars
<1>2. ASSUME Send(c) PROVE LInv'
  <2>1. Empty' /\ InFew' /\ \A x \in Clients : InHand(x)' = InHand(x)
    BY <1>2 DEF LInv, Empty, InFew, InHand, Send, drsVars
  <2>2. UNCHANGED <<drsGot, dlv>> /\ rx \in [Clients -> Nat] /\ sent \in [Clients -> Nat] /\ dlv \in [Clients -> Nat]
    BY <1>2 DEF Send, drsVars, appVars, TInv, TypeOK
  <2>3. ASSUME NEW x \in Clients PROVE (sent[x] = rx[x] + dlv[x] + SumFunctionOnSet(drsGot, InHand(x)))'
    <3> DEFINE held == SumFunctionOnSet(drsGot, InHand(x))
    <3>1. held \in Int
      <4>1. IsFiniteSet(InHand(x)) /\ drsGot \in [Drs -> Nat \cup {-1}]
        BY DEF LInv, InFew, TInv, TypeOK
      <4>2. InHand(x) \subseteq Drs /\ drsGot \in [Drs -> Int]
        BY <4>1 DEF InHand
      <4> QED BY <4>1, <4>2, SumIsInt
    <3>2. held' = held /\ sent[x] = rx[x] + dlv[x] + held
      BY <2>1, <2>2 DEF LInv, NothingLost
    <3>3. sent'[x] - sent[x] = rx'[x] - rx[x] /\ sent'[x] \in Int /\ rx'[x] \in Int
      BY <1>2, <2>2 DEF Send
    <3> HIDE DEF held
    <3>4. sent'[x] = rx'[x] + dlv'[x] + held'
      BY <2>2, <3>1, <3>2, <3>3
    <3> QED BY <3>4 DEF held
  <2> QED BY <2>1, <2>3 DEF LInv, NothingLost
<1> QED BY <1>1, <1>2 DEF ClientStep

LEMMA NoneLostStep == ASSUME TInv, LInv, [Next]_vars PROVE LInv'
<1>1. ASSUME UNCHANGED vars PROVE LInv'
  BY <1>1, StillKeeps DEF Still, vars, drsVars, netVars, appVars
<1> QED
  BY <1>1, CliStill, ThreadStill, AccStill, StillKeeps, DrsLosesNone, ClientLosesNone DEF Next, Rest

\* Whatever the commands, the cancellations and the clients do, each message
\* a client sent is in its socket, given to the application, or in the hands
\* of a thread that gives it to the application next.
THEOREM NoMessageIsLost == Spec => []NothingLost
<1>1. LInv => NothingLost
  BY DEF LInv
<1> QED BY <1>1, TypeInit, TypeStep, NoneLostInit, NoneLostStep, PTL DEF Spec

(****************************************************************************)
(* When a handoff fails.  The accept thread uses the manager it found and   *)
(* the handle it finds there, while commands free the one and forget the    *)
(* other: the invariant says who may have touched them at every step of     *)
(* both, whatever the commands are and whenever they come.                  *)
(****************************************************************************)
Entered == {"cancel", "join", "joining", "forget", "relink", "create", "nap"}
Stopping == pc["cli"] \in {"cancel", "join", "joining", "forget", "free", "clear"}

\* What a command does while the accept thread runs.
Commanded ==
  /\ (fate = "up" => culprit = "none") /\ ("RUN" \in flags => accObj # "fresh")
  /\ (accObj # "running" => pc["acc"] = "none") /\ ("NACC" \in flags => accObj = "null")
  /\ pc["cli"] = "idle" <=> cliOp = "none"
  /\ pc["cli"] = "acc_join" => cliOp \in {"stop_acc", "stop"}
  /\ pc["cli"] \in {"create", "nap"} => cliOp \in {"start", "start_svc"}
  /\ Stopping => cliOp \in {"stop", "stop_svc"}
  /\ pc["cli"] \in {"svc", "purge"} => cliOp = "stop"
  /\ pc["cli"] = "purge" => svc = Nil

\* One manager lives, the one the controller points to until stop forgets it.
Managed ==
  /\ svc = Nil <=> "NLIS" \in flags /\ cliOp # "start_svc"
  /\ cliOp = "start_svc" => "NLIS" \in flags
  /\ \A m \in Managers : mgrState[m] = "live" <=> m = svc /\ pc["cli"] # "clear"
  /\ pc["cli"] \in {"create", "nap"} \/ Stopping => mgr["cli"] = svc /\ svc # Nil
  /\ pc["acc"] \in Entered => mgr["acc"] # Nil

\* A thread that is waited for is one of the waiter's manager.
Joined ==
  /\ \A a \in Actors, d \in Drs : drsJoin[d] = a =>
       pc[a] = "joining" /\ drsPc[d] # "free" /\ drsMgr[d] = mgr[a] /\ \A e \in Drs : drsJoin[e] = a => e = d
  /\ \A d \in Drs : svc # Nil /\ mgrThread[svc] = d /\ drsPc[d] # "free" => drsMgr[d] = svc

\* The handle of the manager, which start and every handoff make afresh.
Replacing == mgr["acc"] = svc /\ pc["acc"] \in {"forget", "relink", "create"}
HandleKnown ==
  /\ pc["cli"] = "create" =>
       /\ mgrThread[svc] = Fresh
       /\ mgr["acc"] = svc => pc["acc"] \notin {"join", "joining", "forget", "relink", "create"}
  /\ pc["acc"] = "create" /\ mgr["acc"] = svc /\ ~Stopping => mgrThread[svc] = Fresh
  /\ accObj = "fresh" => /\ svc # Nil /\ mgrThread[svc] = Fresh
                         /\ "NLIS" \notin flags /\ pc["cli"] \in {"idle", "cancel"}
  /\ cut = {} /\ accObj # "fresh" /\ svc # Nil /\ pc["cli"] # "create" /\ ~Stopping /\ ~Replacing
       => mgrThread[svc] \in Drs /\ drsPc[mgrThread[svc]] # "free"

HInv == Commanded /\ Managed /\ Joined /\ HandleKnown /\ HandoffSafe

LEMMA HandInit == Init => HInv
<1> SUFFICES ASSUME Init PROVE HInv
  OBVIOUS
<1>1. pc["cli"] = "idle" /\ pc["acc"] = "none" /\ accObj = "fresh" /\ svc \in Managers /\ Nil \notin Managers
  BY NilAssumption DEF Init, Actors
<1>2. Commanded /\ Managed /\ HandoffSafe
  BY <1>1 DEF Init, Commanded, Managed, HandoffSafe, Stopping, Entered
<1>3. Joined /\ HandleKnown
  BY <1>1 DEF Init, Joined, HandleKnown, Stopping, Replacing, Actors
<1> QED BY <1>2, <1>3 DEF HInv

\* A step that leaves alone what the invariant speaks of.
LEMMA HandFrame ==
  ASSUME HInv, Up,
         UNCHANGED <<flags, threadVars, accObj, svc, mgrState, mgrThread, drsMgr, drsJoin, cut>>,
         \A d \in Drs : drsPc'[d] = "free" <=> drsPc[d] = "free"
  PROVE  HInv'
<1>1. Commanded' /\ Managed' /\ HandoffSafe'
  BY DEF HInv, Commanded, Managed, HandoffSafe, Stopping, Entered, Up, fateVars, threadVars
<1>2. Joined' /\ HandleKnown'
  BY DEF HInv, Joined, HandleKnown, Stopping, Replacing, threadVars
<1> QED BY <1>1, <1>2 DEF HInv

LEMMA HandCrash ==
  ASSUME HInv, NEW a, NEW why, why # "up", Crash(a, why),
         a = "acc" /\ why # "exit" =>
           "RUN" \notin flags \/ "NLIS" \in flags \/ pc["cli"] # "idle" \/ cut # {} \/ mgr["acc"] # svc
  PROVE  HInv'
<1>1. Commanded' /\ Managed' /\ HandoffSafe'
  BY DEF HInv, Commanded, Managed, HandoffSafe, Stopping, Entered, Crash, threadVars, accVars, mgrVars
<1>2. Joined' /\ HandleKnown'
  BY DEF HInv, Joined, HandleKnown, Stopping, Replacing, Crash, threadVars, accVars, mgrVars, drsVars
<1> QED BY <1>1, <1>2 DEF HInv

LEMMA CliHand == ASSUME TInv, HInv, CliStep PROVE HInv'
<1>0. /\ pc \in [Actors -> CliPcs \cup AccPcs] /\ mgr \in [Actors -> Managers \cup {Nil}]
      /\ "cli" \in Actors /\ "acc" \in Actors /\ Nil \notin Managers /\ svc \in Managers \cup {Nil}
  BY NilAssumption DEF TInv, TypeOK, Actors
<1>q. ASSUME Commanded', fate' = "up" PROVE HandoffSafe'
  BY <1>q DEF Commanded, HandoffSafe
<1>1. ASSUME Start PROVE HInv'
  <2>1. Commanded' /\ Managed'
    BY <1>0, <1>1
    DEF HInv, Commanded, Managed, HandleKnown, Stopping, Entered, Start, Command, At, Up, fateVars, mgrVars
  <2>2. Joined' /\ HandleKnown'
    BY <1>0, <1>1
    DEF HInv, Commanded, Joined, HandleKnown, Stopping, Replacing, Start, Command, At, mgrVars, drsVars
  <2> QED BY <1>1, <1>q, <2>1, <2>2 DEF HInv, Start, Command, At, Up, fateVars
<1>2. ASSUME NEW op \in {"stop_acc", "stop"}, StopAccepting(op) PROVE HInv'
  <2>1. Commanded' /\ Managed'
    BY <1>0, <1>2
    DEF HInv, Commanded, Managed, Stopping, Entered, StopAccepting, Command, At, Up, Goto, fateVars, mgrVars
  <2>2. Joined' /\ HandleKnown'
    BY <1>0, <1>2
    DEF HInv, Joined, HandleKnown, Stopping, Replacing, StopAccepting, Command, At, Goto, mgrVars, drsVars
  <2> QED BY <1>2, <1>q, <2>1, <2>2 DEF HInv, StopAccepting, Command, At, Up, fateVars
<1>3. ASSUME AcceptorStopped PROVE HInv'
  <2>1. Commanded' /\ Managed'
    BY <1>0, <1>3
    DEF HInv, Commanded, Managed, HandleKnown, Stopping, Entered, AcceptorStopped, At, Up, fateVars, mgrVars
  <2>2. Joined' /\ HandleKnown'
    BY <1>0, <1>3
    DEF HInv, Commanded, Joined, HandleKnown, Stopping, Replacing, AcceptorStopped, At, mgrVars, drsVars
  <2> QED BY <1>3, <1>q, <2>1, <2>2 DEF HInv, AcceptorStopped, At, Up, fateVars
<1>4. ASSUME StartAccepting PROVE HInv'
  <2>1. Commanded' /\ Managed'
    BY <1>0, <1>4
    DEF HInv, Commanded, Managed, Stopping, Entered, StartAccepting, Command, At, Up, Goto,
        fateVars, mgrVars
  <2>2. Joined' /\ HandleKnown'
    BY <1>0, <1>4
    DEF HInv, Commanded, Joined, HandleKnown, Stopping, Replacing, StartAccepting, Command, At,
        Goto, mgrVars, drsVars
  <2> QED BY <1>4, <1>q, <2>1, <2>2 DEF HInv, StartAccepting, Command, At, Up, fateVars
<1>5. ASSUME StopListening PROVE HInv'
  <2>1. Commanded' /\ Managed'
    BY <1>0, <1>5
    DEF HInv, Commanded, Managed, Stopping, Entered, StopListening, Command, At, Up, Goto, fateVars,
        accVars, mgrVars
  <2>2. Joined' /\ HandleKnown'
    BY <1>0, <1>5
    DEF HInv, Joined, HandleKnown, Stopping, Replacing, StopListening, Command, At, Goto, accVars,
        mgrVars, drsVars
  <2> QED BY <1>5, <1>q, <2>1, <2>2 DEF HInv, StopListening, Command, At, Up, fateVars
<1>6. ASSUME FreeManager PROVE HInv'
  <2>1. Commanded' /\ Managed'
    BY <1>0, <1>6
    DEF TInv, TypeOK, HInv, Commanded, Managed, Stopping, Entered, FreeManager, At, Up, Goto,
        fateVars, accVars
  <2>2. Joined' /\ HandleKnown'
    BY <1>0, <1>6
    DEF HInv, Joined, HandleKnown, Stopping, Replacing, FreeManager, At, Goto, accVars, drsVars
  <2> QED BY <1>6, <1>q, <2>1, <2>2 DEF HInv, FreeManager, At, Up, fateVars
<1>7. ASSUME ListeningStopped PROVE HInv'
  <2>1. Commanded' /\ Managed'
    BY <1>0, <1>7
    DEF HInv, Commanded, Managed, Stopping, Entered, ListeningStopped, At, Up, Goto, fateVars, accVars
  <2>2. Joined' /\ HandleKnown'
    BY <1>0, <1>7
    DEF HInv, Managed, Entered, Joined, HandleKnown, Stopping, Replacing, ListeningStopped, At,
        Goto, accVars, drsVars
  <2> QED BY <1>7, <1>q, <2>1, <2>2 DEF HInv, ListeningStopped, At, Up, fateVars
<1>8. ASSUME StartListening PROVE HInv'
  <2>1. Commanded' /\ Managed'
    BY <1>0, <1>8
    DEF TInv, TypeOK, HInv, Commanded, Managed, Stopping, Entered, StartListening, Command, At, Up,
        Goto, fateVars, accVars
  <2>2. Joined' /\ HandleKnown'
    BY <1>0, <1>8, FreshAssumption
    DEF TInv, TypeOK, HInv, Joined, HandleKnown, Stopping, Replacing, StartListening, Command, At,
        Goto, accVars, drsVars
  <2> QED BY <1>8, <1>q, <2>1, <2>2 DEF HInv, StartListening, Command, At, Up, fateVars
<1>9. ASSUME CommandStarted PROVE HInv'
  <2>1. Commanded' /\ Managed'
    BY <1>0, <1>9
    DEF HInv, Commanded, Managed, HandleKnown, Stopping, Entered, CommandStarted, At, Up, Goto,
        fateVars, accVars, mgrVars
  <2>2. Joined' /\ HandleKnown'
    BY <1>0, <1>9
    DEF HInv, Joined, HandleKnown, Stopping, Replacing, CommandStarted, At, Goto, accVars, mgrVars, drsVars
  <2> QED BY <1>9, <1>q, <2>1, <2>2 DEF HInv, CommandStarted, At, Up, fateVars
<1>10. ASSUME StopNoAcceptor PROVE HInv'
  <2>1. Commanded' /\ Managed'
    BY <1>0, <1>10
    DEF HInv, Commanded, Managed, Stopping, Entered, StopNoAcceptor, Command, At, Up, Goto,
        fateVars, accVars, mgrVars
  <2>2. Joined' /\ HandleKnown'
    BY <1>0, <1>10
    DEF HInv, Joined, HandleKnown, Stopping, Replacing, StopNoAcceptor, Command, At, Goto, accVars,
        mgrVars, drsVars
  <2> QED BY <1>10, <1>q, <2>1, <2>2 DEF HInv, StopNoAcceptor, Command, At, Up, fateVars
<1>11. ASSUME StopManager PROVE HInv'
  <2>1. Commanded' /\ Managed'
    BY <1>0, <1>11
    DEF HInv, Commanded, Managed, Stopping, Entered, StopManager, At, Up, Goto, fateVars, accVars, mgrVars
  <2>2. Joined' /\ HandleKnown'
    BY <1>0, <1>11
    DEF HInv, Joined, HandleKnown, Stopping, Replacing, StopManager, At, Goto, accVars, mgrVars, drsVars
  <2> QED BY <1>11, <1>q, <2>1, <2>2 DEF HInv, StopManager, At, Up, fateVars
<1>12. ASSUME Purge PROVE HInv'
  <2>1. Commanded' /\ Managed' /\ HandoffSafe'
    BY <1>0, <1>12
    DEF HInv, Commanded, Managed, HandoffSafe, Stopping, Entered, Purge, Goto, accVars, mgrVars
  <2>2. Joined' /\ HandleKnown'
    BY <1>0, <1>12
    DEF HInv, Joined, HandleKnown, Stopping, Replacing, Purge, Goto, accVars, mgrVars, drsVars
  <2> QED BY <2>1, <2>2 DEF HInv
<1>13. ASSUME StartAgain \/ StopUnstarted \/ FreeFault PROVE HInv'
  BY <1>13, HandCrash DEF StartAgain, StopUnstarted, FreeFault
<1> QED
  BY <1>1, <1>2, <1>3, <1>4, <1>5, <1>6, <1>7, <1>8, <1>9, <1>10, <1>11, <1>12, <1>13 DEF CliStep

LEMMA ThreadHand == ASSUME TInv, HInv, NEW a \in Actors, ThreadStep(a) PROVE HInv'
<1>0. /\ pc \in [Actors -> CliPcs \cup AccPcs] /\ mgr \in [Actors -> Managers \cup {Nil}]
      /\ "cli" \in Actors /\ "acc" \in Actors /\ (a = "cli" \/ a = "acc")
      /\ Nil \notin Managers /\ svc \in Managers \cup {Nil} /\ Nil \notin Drs /\ Fresh \notin Drs /\ Fresh # Nil
      /\ mgrThread \in [Managers -> Drs \cup {Nil, Fresh}]
      /\ drsPc \in [Drs -> DrsPcs] /\ drsMgr \in [Drs -> Managers \cup {Nil}] /\ drsJoin \in [Drs -> Actors \cup {"none"}]
  BY NilAssumption, FreshAssumption DEF TInv, TypeOK, Actors
<1>q. ASSUME Commanded', fate' = "up" PROVE HandoffSafe'
  BY <1>q DEF Commanded, HandoffSafe
<1>h. ASSUME HandleFault(mgr[a]) = "none"
      PROVE  LiveManager(mgr[a]) /\ mgrThread[mgr[a]] \in Drs /\ drsPc[mgrThread[mgr[a]]] # "free"
  BY <1>0, <1>h DEF HandleFault, LiveManager
<1>o. LiveManager(mgr[a]) => mgr[a] = svc /\ svc # Nil /\ pc["cli"] # "clear"
  BY <1>0 DEF LiveManager, HInv, Managed
<1>1. ASSUME CancelDrs(a) PROVE HInv'
  <2>1. Commanded' /\ Managed'
    BY <1>0, <1>1
    DEF HInv, Commanded, Managed, Stopping, Entered, CancelDrs, At, Up, Goto, fateVars, accVars, mgrVars
  <2>2. Joined' /\ HandleKnown'
    BY <1>0, <1>h, <1>o, <1>1
    DEF HInv, Commanded, Joined, HandleKnown, Stopping, Replacing, CancelDrs, At, Goto, accVars, mgrVars
  <2> QED BY <1>1, <1>q, <2>1, <2>2 DEF HInv, CancelDrs, At, Up, fateVars
<1>2. ASSUME JoinDrs(a) PROVE HInv'
  <2> DEFINE d == mgrThread[mgr[a]]
  <2>1. Commanded' /\ Managed'
    BY <1>0, <1>2
    DEF HInv, Commanded, Managed, Stopping, Entered, JoinDrs, At, Up, Goto, fateVars, accVars, mgrVars
  <2>2. mgr[a] = svc /\ svc # Nil /\ d \in Drs /\ drsPc[d] # "free" /\ pc[a] = "join"
    BY <1>o, <1>h, <1>2 DEF JoinDrs, At
  <2>3. /\ \/ drsJoin' = [drsJoin EXCEPT ![d] = a] /\ drsJoin[d] = "none" /\ pc' = [pc EXCEPT ![a] = "joining"]
           \/ drsJoin' = drsJoin /\ pc' = [pc EXCEPT ![a] = "forget"]
        /\ UNCHANGED <<flags, mgr, accObj, svc, mgrThread, drsPc, drsMgr, cut>>
    BY <1>2 DEF JoinDrs, Goto, accVars, mgrVars
  <2>4. Joined'
    <3>1. drsMgr[d] = mgr[a] /\ \A e \in Drs : drsJoin[e] # a
      BY <2>2 DEF HInv, Joined
    <3> QED BY <1>0, <2>2, <2>3, <3>1 DEF HInv, Joined
  <2>5. HandleKnown'
    <3>1. CASE a = "cli"
      BY <1>0, <2>2, <2>3, <3>1 DEF HInv, Commanded, HandleKnown, Stopping, Replacing
    <3>2. CASE a = "acc"
      <4>1. pc["cli"] # "create" /\ accObj # "fresh"
        BY <2>2, <3>2 DEF HInv, Commanded, HandleKnown
      <4>2. pc'["cli"] = pc["cli"] /\ pc'["acc"] \in {"joining", "forget"}
        BY <1>0, <2>3, <3>2
      <4> QED BY <2>2, <2>3, <3>2, <4>1, <4>2 DEF HandleKnown, Replacing
    <3> QED BY <1>0, <3>1, <3>2
  <2> QED BY <1>2, <1>q, <2>1, <2>4, <2>5 DEF HInv, JoinDrs, At, Up, fateVars
<1>3. ASSUME DrsJoined(a) PROVE HInv'
  <2>1. Commanded' /\ Managed'
    BY <1>0, <1>3
    DEF HInv, Commanded, Managed, Stopping, Entered, DrsJoined, At, Up, Goto, fateVars, accVars, mgrVars
  <2>2. Joined'
    BY <1>0, <1>3 DEF HInv, Joined, DrsJoined, At, Goto, accVars, mgrVars, Actors
  <2>3. HandleKnown'
    BY <1>0, <1>3
    DEF HInv, Commanded, Managed, Joined, HandleKnown, Stopping, Replacing, DrsJoined, At, Goto,
        accVars, mgrVars
  <2> QED BY <1>3, <1>q, <2>1, <2>2, <2>3 DEF HInv, DrsJoined, At, Up, fateVars
<1>4. ASSUME ForgetDrs(a) PROVE HInv'
  <2>1. Commanded' /\ Managed'
    BY <1>0, <1>4
    DEF HInv, Commanded, Managed, Stopping, Entered, ForgetDrs, At, Up, Goto, fateVars, accVars
  <2>2. Joined' /\ HandleKnown'
    BY <1>0, <1>o, <1>4
    DEF HInv, Commanded, Joined, HandleKnown, Stopping, Replacing, ForgetDrs, At, Goto, accVars, drsVars
  <2> QED BY <1>4, <1>q, <2>1, <2>2 DEF HInv, ForgetDrs, At, Up, fateVars
<1>5. ASSUME CreateDrs(a) PROVE HInv'
  <2>1. Commanded' /\ Managed'
    BY <1>0, <1>5
    DEF HInv, Commanded, Managed, Stopping, Entered, CreateDrs, At, Up, Goto, fateVars, accVars
  <2>2. Joined' /\ HandleKnown'
    BY <1>0, <1>o, <1>5
    DEF HInv, Commanded, Joined, HandleKnown, Stopping, Replacing, CreateDrs, At, Goto, accVars
  <2> QED BY <1>5, <1>q, <2>1, <2>2 DEF HInv, CreateDrs, At, Up, fateVars
<1>6. ASSUME StopFault(a) PROVE HInv'
  <2>1. PICK why : Crash(a, why) /\ why # "up"
    BY <1>6 DEF StopFault, HandleFault
  <2>2. ASSUME a = "acc", "NLIS" \notin flags, pc["cli"] = "idle", cut = {}, mgr["acc"] = svc PROVE FALSE
    <3>1. LiveManager(svc) /\ svc # Nil /\ ~Stopping
      BY <1>0, <2>2 DEF HInv, Managed, LiveManager, Stopping
    <3>2. pc["acc"] \in {"cancel", "join", "create"}
      BY <1>6, <2>2, <3>1 DEF StopFault, Actors
    <3>3. accObj # "fresh"
      BY <3>2 DEF HInv, Commanded
    <3>4. CASE pc["acc"] = "create"
      BY <1>0, <1>6, <2>2, <3>1, <3>4 DEF HInv, HandleKnown, StopFault, Actors
    <3>5. CASE pc["acc"] # "create"
      <4>1. mgrThread[svc] \in Drs /\ drsPc[mgrThread[svc]] # "free"
        BY <2>2, <3>1, <3>2, <3>3, <3>5 DEF HInv, HandleKnown, Replacing
      <4>2. HandleFault(svc) = "none"
        BY <1>0, <3>1, <4>1 DEF HandleFault
      <4> QED BY <1>6, <2>2, <3>1, <3>2, <3>5, <4>2 DEF StopFault, Actors
    <3> QED BY <3>4, <3>5
  <2> QED BY <2>1, <2>2, HandCrash
<1> QED BY <1>1, <1>2, <1>3, <1>4, <1>5, <1>6 DEF ThreadStep

LEMMA AccHand == ASSUME TInv, HInv, AccStep PROVE HInv'
<1>0. /\ pc \in [Actors -> CliPcs \cup AccPcs] /\ mgr \in [Actors -> Managers \cup {Nil}]
      /\ "cli" \in Actors /\ "acc" \in Actors /\ Nil \notin Managers /\ svc \in Managers \cup {Nil}
  BY NilAssumption DEF TInv, TypeOK, Actors
<1>q. ASSUME Commanded', fate' = "up" PROVE HandoffSafe'
  BY <1>q DEF Commanded, HandoffSafe
<1>r. accObj # "running" => pc["acc"] = "none"
  BY DEF HInv, Commanded
<1>1. ASSUME AccSetup \/ (\E c \in Clients : Accept(c)) \/ AccCallback \/ AccAdd PROVE HInv'
  <2>1. PICK p \in {"accept", "callback", "add", "handoff"} :
          /\ Up /\ Goto("acc", p) /\ pc["acc"] \in {"setup", "accept", "callback", "add"}
          /\ UNCHANGED <<flags, mgr, cliOp, accObj, mgrVars, drsVars, cut>>
    BY <1>1 DEF AccSetup, Accept, AccCallback, AccAdd, At, accVars
  <2>2. Commanded' /\ Managed'
    BY <1>0, <2>1 DEF HInv, Commanded, Managed, Stopping, Entered, Up, Goto, fateVars, mgrVars
  <2>3. Joined' /\ HandleKnown'
    BY <1>0, <2>1 DEF HInv, Joined, HandleKnown, Stopping, Replacing, Goto, mgrVars, drsVars
  <2> QED BY <1>q, <2>1, <2>2, <2>3 DEF HInv, Up, fateVars
<1>2. ASSUME AccHandoff PROVE HInv'
  <2>1. Commanded' /\ Managed'
    BY <1>0, <1>2
    DEF HInv, Commanded, Managed, Stopping, Entered, AccHandoff, At, Up, Goto, fateVars, accVars, mgrVars
  <2>2. Joined' /\ HandleKnown'
    BY <1>0, <1>2
    DEF HInv, Joined, HandleKnown, Stopping, Replacing, AccHandoff, At, Goto, accVars, mgrVars, drsVars
  <2> QED BY <1>2, <1>q, <2>1, <2>2 DEF HInv, AccHandoff, At, Up, fateVars
<1>3. ASSUME AccRelink PROVE HInv'
  <2>1. mgr["acc"] = svc /\ svc \in Managers /\ mgrThread \in [Managers -> Drs \cup {Nil, Fresh}] /\ Fresh \notin Drs
    BY <1>0, <1>3, FreshAssumption DEF AccRelink, LiveManager, HInv, Managed, TInv, TypeOK
  <2>2. Commanded' /\ Managed'
    BY <1>0, <1>3
    DEF HInv, Commanded, Managed, Stopping, Entered, AccRelink, At, Up, Goto, fateVars, accVars
  <2>3. Joined' /\ HandleKnown'
    BY <1>0, <1>3, <2>1
    DEF HInv, Commanded, Joined, HandleKnown, Stopping, Replacing, AccRelink, At, Goto, accVars, drsVars
  <2> QED BY <1>3, <1>q, <2>2, <2>3 DEF HInv, AccRelink, At, Up, fateVars
<1>4. ASSUME AccNap PROVE HInv'
  <2>1. Commanded' /\ Managed'
    BY <1>0, <1>4
    DEF HInv, Commanded, Managed, Stopping, Entered, AccNap, At, Up, Goto, fateVars, mgrVars
  <2>2. Joined' /\ HandleKnown'
    BY <1>0, <1>4
    DEF HInv, Joined, HandleKnown, Stopping, Replacing, AccNap, At, Goto, mgrVars, drsVars
  <2> QED BY <1>4, <1>q, <2>1, <2>2 DEF HInv, AccNap, At, Up, fateVars
<1>5. ASSUME AccCancelled PROVE HInv'
  <2>1. /\ pc' = [pc EXCEPT !["acc"] = "done"] /\ mgr' = [mgr EXCEPT !["acc"] = Nil] /\ Up
        /\ (pc["acc"] = "relink" => cut' # {}) /\ (cut' = {} => cut = {})
        /\ pc["acc"] \in {"accept", "callback", "joining", "relink", "nap"}
        /\ UNCHANGED <<flags, cliOp, accObj, mgrVars, drsPc, drsMgr>>
        /\ \A d \in Drs : drsJoin'[d] = IF drsJoin[d] = "acc" THEN "none" ELSE drsJoin[d]
    BY <1>5 DEF AccCancelled, Goto
  <2>2. Commanded' /\ Managed'
    BY <1>0, <2>1 DEF HInv, Commanded, Managed, Stopping, Entered, Up, fateVars, mgrVars
  <2>3. Joined' /\ HandleKnown'
    BY <1>0, <2>1 DEF HInv, Joined, HandleKnown, Stopping, Replacing, Actors, mgrVars
  <2> QED BY <1>q, <2>1, <2>2, <2>3 DEF HInv, Up, fateVars
<1>6. ASSUME AccSetupFails \/ AccFault PROVE HInv'
  <2>1. ASSUME AccFault, "NLIS" \notin flags, pc["cli"] = "idle", mgr["acc"] = svc PROVE FALSE
    BY <1>0, <2>1 DEF AccFault, LiveManager, HInv, Managed, Entered
  <2> QED BY <1>6, <2>1, HandCrash DEF AccSetupFails, AccFault
<1> QED BY <1>1, <1>2, <1>3, <1>4, <1>5, <1>6 DEF AccStep

LEMMA DrsHand == ASSUME TInv, HInv, NEW d \in Drs, DrsStep(d) PROVE HInv'
<1>1. ASSUME DrsFault(d) PROVE HInv'
  BY <1>1, HandCrash DEF DrsFault
<1>2. ASSUME ~DrsFault(d) PROVE HInv'
  <2>1. /\ Up /\ drsPc[d] # "free"
        /\ \E p \in {"copy", "prep", "select", "recv", "eof", "deliver", "done"} : DrsGoto(d, p)
        /\ UNCHANGED <<flags, threadVars, accObj, svc, mgrState, mgrThread, drsMgr, drsJoin, cut>>
    BY <1>2
    DEF DrsStep, DrsStart, DrsCopy, DrsPrep, DrsSelect, DrsRecv, DrsEof, DrsDeliver, DrsCancelled,
        DrsAt, accVars, mgrVars
  <2>2. drsPc \in [Drs -> DrsPcs]
    BY DEF TInv, TypeOK
  <2> QED BY <2>1, <2>2, HandFrame DEF DrsGoto
<1> QED BY <1>1, <1>2

LEMMA HandStep == ASSUME TInv, HInv, [Next]_vars PROVE HInv'
<1>1. ASSUME NEW c \in Clients, ClientStep(c) PROVE HInv'
  BY <1>1, HandFrame DEF ClientStep, Connect, Send, Hangup, accVars, mgrVars, drsVars
<1>2. ASSUME UNCHANGED vars PROVE HInv'
  <2>1. Commanded' /\ Managed' /\ HandoffSafe'
    BY <1>2
    DEF HInv, Commanded, Managed, HandoffSafe, Stopping, Entered, vars, fateVars, threadVars,
        accVars, mgrVars
  <2>2. Joined' /\ HandleKnown'
    BY <1>2 DEF HInv, Joined, HandleKnown, Stopping, Replacing, vars, threadVars, accVars, mgrVars, drsVars
  <2> QED BY <2>1, <2>2 DEF HInv
<1> QED BY <1>1, <1>2, CliHand, ThreadHand, AccHand, DrsHand DEF Next, Rest

\* Whatever the commands and whenever they come, a handoff of the accept
\* thread dies of a freed manager or of a handle that names no thread only
\* before start has finished, with listening off or a command in progress,
\* after a cancel that cut an earlier handoff, or with the manager replaced
\* under it: in every other state client_fd_start_listen is safe.
THEOREM HandoffFailsOnlyInARace == Spec => []HandoffSafe
<1>1. HInv => HandoffSafe
  BY DEF HInv
<1> QED BY <1>1, TypeInit, TypeStep, HandInit, HandStep, PTL DEF Spec
================================================================================
