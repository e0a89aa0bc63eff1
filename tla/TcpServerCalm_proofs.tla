-------------------------- MODULE TcpServerCalm_proofs --------------------------
(****************************************************************************)
(* Proofs about a TcpServer whose manager is replaced, if it is, only while *)
(* nothing else is under way: either the instance has no stop_svc and no    *)
(* start_svc, and commands and clients come at any moment, or it has all    *)
(* commands, and each is given when the one before it is over and no client *)
(* is being taken in.                                                       *)
(****************************************************************************)
EXTENDS TcpServer_proofs

NoRestart == Commands \cap {"stop_svc", "start_svc"} = {}
Calm == ~Overlap \/ NoRestart

\* The accept thread has no client in hand.
Aside == pc["acc"] \in {"none", "setup", "accept", "done"}
AllFree == \A d \in Drs : drsPc[d] = "free"

(****************************************************************************)
(* The two threads that stop and start a receive thread never do so at the  *)
(* same time, except that a handoff may come to a manager whose first       *)
(* thread start has yet to create, and fails there.                         *)
(****************************************************************************)

\* What a command does while the accept thread runs.
Operator ==
  /\ (accObj = "running" <=> pc["acc"] # "none") /\ (accObj = "null" <=> "NACC" \in flags)
  /\ accCancel => pc["cli"] = "acc_join"
  /\ pc["acc"] = "done" => accCancel
  /\ pc["cli"] = "idle" <=> cliOp = "none"
  /\ pc["cli"] = "acc_join" => cliOp \in {"stop_acc", "stop"}
  /\ pc["cli"] \in {"create", "nap"} => cliOp \in {"start", "start_svc"}
  /\ pc["cli"] \in {"cancel", "join", "joining", "forget", "free", "clear"} => cliOp \in {"stop", "stop_svc"}
  /\ pc["cli"] \in {"svc", "purge"} => cliOp = "stop"
  /\ cliOp = "stop" /\ pc["cli"] # "acc_join" => pc["acc"] = "none"
  /\ ("RUN" \in flags => accObj # "fresh") /\ cliOp \in Commands \cup {"none"}
  /\ ~Overlap => cut = {} /\ (pc["cli"] # "idle" \/ "NLIS" \in flags => Aside)
  /\ Overlap => /\ cliOp \notin {"stop_svc", "start_svc"}
                /\ "NLIS" \in flags => pc["acc"] = "none" /\ (pc["cli"] = "purge" \/ fate = "stopped")

\* One manager lives, and whoever is inside a method is inside one of its.
Owner ==
  /\ pc["acc"] \in {"cancel", "join", "joining", "forget", "relink", "create"} => mgr["acc"] = svc /\ svc # Nil
  /\ pc["cli"] \in {"create", "nap", "cancel", "join", "joining", "forget", "free", "clear"}
       => mgr["cli"] = svc /\ svc # Nil
  /\ svc = Nil <=> "NLIS" \in flags /\ cliOp # "start_svc"
  /\ cliOp = "start_svc" => "NLIS" \in flags
  /\ pc["cli"] = "purge" => svc = Nil
  /\ \A m \in Managers : mgrState[m] = "live" <=> m = svc /\ pc["cli"] # "clear"

\* A receive thread runs only where the handle of the manager names it.
Named == \A d \in Drs : drsPc[d] # "free" => svc # Nil /\ mgrThread[svc] = d /\ drsMgr[d] = svc
Replaced ==
  /\ pc["acc"] \in {"forget", "relink", "create"} \/ pc["cli"] \in {"forget", "free", "clear", "create"} => AllFree
  /\ pc["acc"] = "relink" \/ pc["cli"] \in {"free", "clear"} => mgrThread[svc] = Nil
  /\ pc["acc"] = "create" \/ pc["cli"] = "create" => mgrThread[svc] = Fresh
  /\ pc["cli"] = "create" => pc["acc"] \notin {"join", "joining", "forget", "relink", "create", "nap"}
  /\ accObj = "fresh" => /\ svc # Nil /\ mgrThread[svc] = Fresh /\ AllFree
                         /\ "NLIS" \notin flags /\ pc["cli"] \in {"idle", "cancel"}

\* The thread is asked to end by the one that joins it next.
Awaited ==
  /\ \A d \in Drs : /\ drsJoin[d] = "acc" => pc["acc"] = "joining"
                    /\ drsJoin[d] = "cli" => pc["cli"] = "joining"
                    /\ drsPc[d] = "free" => drsJoin[d] = "none" /\ ~drsCancel[d]
                    /\ drsPc[d] = "done" => drsCancel[d]
                    /\ cut = {} /\ drsCancel[d] => {pc["acc"], pc["cli"]} \cap {"join", "joining"} # {}

\* Unless a handoff was cut, the handle names a thread between two handoffs.
HandleValid ==
  cut = {} /\ svc # Nil /\ accObj # "fresh" /\ pc["acc"] \notin {"forget", "relink", "create"}
    /\ pc["cli"] \notin {"forget", "free", "clear", "create"}
    => mgrThread[svc] \in Drs /\ drsPc[mgrThread[svc]] # "free"

Handle == Named /\ Replaced /\ Awaited /\ HandleValid
CInv == Operator /\ Owner /\ Handle

LEMMA CliCalm ==
  ASSUME Calm, TInv, CInv, CliStep PROVE Operator' /\ Owner'
<1>0. /\ pc \in [Actors -> CliPcs \cup AccPcs] /\ mgr \in [Actors -> Managers \cup {Nil}]
      /\ pc["cli"] \in CliPcs /\ pc["acc"] \in AccPcs /\ "cli" \in Actors /\ "acc" \in Actors
      /\ Nil \notin Managers /\ svc \in Managers \cup {Nil} /\ accCancel \in BOOLEAN
  BY NilAssumption DEF TInv, TypeOK, Actors
<1>1. ASSUME Start PROVE Operator' /\ Owner'
  BY <1>0, <1>1 DEF CInv, Operator, Owner, Handle, Replaced, Aside, Start, Command, mgrVars
<1>2. ASSUME NEW op \in {"stop_acc", "stop"}, StopAccepting(op) PROVE Operator' /\ Owner'
  BY <1>0, <1>2 DEF CInv, Operator, Owner, Aside, StopAccepting, HandingOver, Command, At, Goto, mgrVars
<1>3. ASSUME AcceptorStopped PROVE Operator' /\ Owner'
  BY <1>0, <1>3 DEF CInv, Operator, Owner, Aside, AcceptorStopped, mgrVars
<1>4. ASSUME StartAccepting PROVE Operator' /\ Owner'
  BY <1>0, <1>4 DEF CInv, Operator, Owner, Aside, StartAccepting, Command, At, Up, Goto, mgrVars
<1>5. ASSUME StopListening PROVE Operator' /\ Owner'
  BY <1>0, <1>5
  DEF Calm, NoRestart, CInv, Operator, Owner, Aside, StopListening, HandingOver, Command, At, Goto,
      accVars, mgrVars
<1>6. ASSUME FreeManager PROVE Operator' /\ Owner'
  BY <1>0, <1>6 DEF TInv, TypeOK, CInv, Operator, Owner, Aside, FreeManager, At, Goto, accVars
<1>7. ASSUME ListeningStopped PROVE Operator' /\ Owner'
  BY <1>0, <1>7 DEF CInv, Operator, Owner, Aside, ListeningStopped, At, Goto, accVars
<1>8. ASSUME StartListening PROVE Operator' /\ Owner'
  BY <1>0, <1>8
  DEF TInv, TypeOK, CInv, Operator, Owner, Aside, StartListening, Command, At, Up, Goto, accVars
<1>9. ASSUME CommandStarted PROVE Operator' /\ Owner'
  BY <1>0, <1>9 DEF CInv, Operator, Owner, Handle, Replaced, CommandStarted, At, Goto, accVars, mgrVars
<1>10. ASSUME StopNoAcceptor PROVE Operator' /\ Owner'
  BY <1>0, <1>10 DEF CInv, Operator, Owner, Aside, StopNoAcceptor, Command, At, Up, Goto, accVars, mgrVars
<1>11. ASSUME StopManager PROVE Operator' /\ Owner'
  BY <1>0, <1>11 DEF CInv, Operator, Owner, Aside, StopManager, At, Goto, accVars, mgrVars
<1>12. ASSUME Purge PROVE Operator' /\ Owner'
  BY <1>0, <1>12 DEF CInv, Operator, Owner, Aside, Purge, Goto, accVars, mgrVars
<1>13. ASSUME StartAgain \/ StopUnstarted \/ FreeFault PROVE Operator' /\ Owner'
  BY <1>0, <1>13
  DEF CInv, Operator, Owner, Aside, StartAgain, StopUnstarted, FreeFault, Crash, threadVars,
      accVars, mgrVars
<1> QED
  BY <1>1, <1>2, <1>3, <1>4, <1>5, <1>6, <1>7, <1>8, <1>9, <1>10, <1>11, <1>12, <1>13 DEF CliStep

LEMMA CliHandles ==
  ASSUME Calm, TInv, CInv, CliStep PROVE Handle'
<1>0. /\ pc \in [Actors -> CliPcs \cup AccPcs] /\ mgr \in [Actors -> Managers \cup {Nil}]
      /\ pc["cli"] \in CliPcs /\ pc["acc"] \in AccPcs /\ "cli" \in Actors /\ "acc" \in Actors
      /\ Nil \notin Managers /\ svc \in Managers \cup {Nil} /\ mgrThread \in [Managers -> Drs \cup {Nil, Fresh}]
  BY NilAssumption DEF TInv, TypeOK, Actors
<1>1. ASSUME Start PROVE Handle'
  BY <1>0, <1>1 DEF CInv, Handle, Named, Replaced, Awaited, HandleValid, AllFree, Start, mgrVars, drsVars
<1>2. ASSUME NEW op \in {"stop_acc", "stop"}, StopAccepting(op) PROVE Handle'
  BY <1>0, <1>2
  DEF CInv, Handle, Named, Replaced, Awaited, HandleValid, AllFree, StopAccepting, Command, At,
      Goto, mgrVars, drsVars
<1>3. ASSUME AcceptorStopped PROVE Handle'
  BY <1>0, <1>3
  DEF CInv, Handle, Named, Replaced, Awaited, HandleValid, AcceptorStopped, At, mgrVars, drsVars
<1>4. ASSUME StartAccepting PROVE Handle'
  BY <1>0, <1>4
  DEF CInv, Operator, Handle, Named, Replaced, Awaited, HandleValid, StartAccepting, Command, At,
      Goto, mgrVars, drsVars
<1>5. ASSUME StopListening PROVE Handle'
  BY <1>0, <1>5
  DEF CInv, Handle, Named, Replaced, Awaited, HandleValid, AllFree, StopListening, Command, At,
      Goto, accVars, mgrVars, drsVars
<1>6. ASSUME FreeManager PROVE Handle'
  BY <1>0, <1>6
  DEF CInv, Handle, Named, Replaced, Awaited, HandleValid, AllFree, FreeManager, At, Goto, accVars,
      drsVars
<1>7. ASSUME ListeningStopped PROVE Handle'
  BY <1>0, <1>7
  DEF CInv, Operator, Handle, Named, Replaced, Awaited, HandleValid, AllFree, Aside,
      ListeningStopped, At, Goto, accVars, drsVars
<1>8. ASSUME StartListening PROVE Handle'
  BY <1>0, <1>8
  DEF CInv, Operator, Owner, Handle, Named, Replaced, Awaited, HandleValid, AllFree, Aside,
      StartListening, HandingOver, Command, At, Goto, accVars, drsVars
<1>9. ASSUME CommandStarted PROVE Handle'
  BY <1>0, <1>9
  DEF CInv, Handle, Named, Replaced, Awaited, HandleValid, AllFree, CommandStarted, At, Goto,
      accVars, mgrVars, drsVars
<1>10. ASSUME StopNoAcceptor PROVE Handle'
  BY <1>0, <1>10
  DEF CInv, Handle, Named, Replaced, Awaited, HandleValid, AllFree, StopNoAcceptor, Command, At,
      Goto, accVars, mgrVars, drsVars
<1>11. ASSUME StopManager PROVE Handle'
  BY <1>0, <1>11
  DEF CInv, Handle, Named, Replaced, Awaited, HandleValid, AllFree, StopManager, At, Goto, accVars,
      mgrVars, drsVars
<1>12. ASSUME Purge PROVE Handle'
  BY <1>0, <1>12
  DEF CInv, Handle, Named, Replaced, Awaited, HandleValid, AllFree, Purge, Goto, accVars, mgrVars,
      drsVars
<1>13. ASSUME StartAgain \/ StopUnstarted \/ FreeFault PROVE Handle'
  BY <1>13
  DEF CInv, Handle, Named, Replaced, Awaited, HandleValid, AllFree, StartAgain, StopUnstarted,
      FreeFault, Crash, threadVars, accVars, mgrVars, drsVars
<1> QED
  BY <1>1, <1>2, <1>3, <1>4, <1>5, <1>6, <1>7, <1>8, <1>9, <1>10, <1>11, <1>12, <1>13 DEF CliStep

LEMMA CrashCalm == ASSUME CInv, fate = "up", NEW a, NEW why, Crash(a, why) PROVE CInv'
BY
DEF CInv, Operator, Owner, Handle, Named, Replaced, Awaited, HandleValid, AllFree, Aside, Crash,
    threadVars, accVars, mgrVars, drsVars

LEMMA ThreadCalm ==
  ASSUME Calm, TInv, CInv, NEW a \in Actors, ThreadStep(a) PROVE CInv'
<1>0. /\ pc \in [Actors -> CliPcs \cup AccPcs] /\ mgr \in [Actors -> Managers \cup {Nil}]
      /\ pc["cli"] \in CliPcs /\ pc["acc"] \in AccPcs /\ "cli" \in Actors /\ "acc" \in Actors
      /\ Nil \notin Managers /\ svc \in Managers \cup {Nil} /\ mgrThread \in [Managers -> Drs \cup {Nil, Fresh}]
      /\ drsPc \in [Drs -> DrsPcs] /\ drsCancel \in [Drs -> BOOLEAN] /\ drsMgr \in [Drs -> Managers \cup {Nil}]
      /\ drsJoin \in [Drs -> Actors \cup {"none"}] /\ Fresh \notin Drs /\ Fresh # Nil /\ Nil \notin Drs
  BY NilAssumption, FreshAssumption DEF TInv, TypeOK, Actors
<1>c. a = "cli" \/ a = "acc"
  BY DEF Actors
<1>h. HandleFault(mgr[a]) = "none" => LiveManager(mgr[a]) /\ mgrThread[mgr[a]] \in Drs /\ drsPc[mgrThread[mgr[a]]] # "free"
  BY <1>0 DEF HandleFault, LiveManager
<1>1. ASSUME CancelDrs(a) PROVE CInv'
  <2>1. CASE a = "cli"
    <3>1. Operator' /\ Owner'
      BY <1>0, <1>1, <2>1 DEF CInv, Operator, Owner, Aside, CancelDrs, At, Goto, accVars, mgrVars
    <3>2. Named' /\ Replaced'
      BY <1>0, <1>h, <1>1, <2>1
      DEF CInv, Handle, Named, Replaced, AllFree, CancelDrs, Goto, accVars, mgrVars
    <3>3. Awaited'
      BY <1>0, <1>h, <1>1, <2>1 DEF CInv, Handle, Awaited, CancelDrs, At, Goto
    <3>4. HandleValid'
      BY <1>0, <1>h, <1>1, <2>1 DEF CInv, Handle, HandleValid, CancelDrs, At, Goto, accVars, mgrVars
    <3> QED BY <3>1, <3>2, <3>3, <3>4 DEF CInv, Handle
  <2>2. CASE a = "acc"
    <3>1. Operator' /\ Owner'
      BY <1>0, <1>1, <2>2 DEF CInv, Operator, Owner, Aside, CancelDrs, At, Goto, accVars, mgrVars
    <3>2. Named' /\ Replaced'
      BY <1>0, <1>h, <1>1, <2>2
      DEF CInv, Handle, Named, Replaced, AllFree, CancelDrs, Goto, accVars, mgrVars
    <3>3. Awaited'
      BY <1>0, <1>h, <1>1, <2>2 DEF CInv, Handle, Awaited, CancelDrs, At, Goto
    <3>4. HandleValid'
      BY <1>0, <1>h, <1>1, <2>2 DEF CInv, Handle, HandleValid, CancelDrs, At, Goto, accVars, mgrVars
    <3> QED BY <3>1, <3>2, <3>3, <3>4 DEF CInv, Handle
  <2> QED BY <1>c, <2>1, <2>2
<1>2. ASSUME JoinDrs(a) PROVE CInv'
  <2> DEFINE d == mgrThread[mgr[a]]
  <2>1. d \in Drs /\ drsPc[d] # "free" /\ pc[a] = "join"
    BY <1>h, <1>2 DEF JoinDrs, At
  <2>2. ~(pc["cli"] \in {"join", "joining"} /\ pc["acc"] \in {"join", "joining"})
    BY DEF CInv, Operator, Aside
  <2>3. drsJoin[d] = "none"
    BY <1>0, <1>c, <2>1, <2>2 DEF CInv, Handle, Awaited, Actors
  <2>4. Up /\ drsJoin' = [drsJoin EXCEPT ![d] = a] /\ pc' = [pc EXCEPT ![a] = "joining"]
    BY <1>2, <2>3 DEF JoinDrs, At, Goto
  <2>5. UNCHANGED <<flags, mgr, cliOp, accVars, mgrVars, drsPc, drsCancel, drsMgr, cut>>
    BY <1>2 DEF JoinDrs
  <2> HIDE DEF d
  <2>6. CASE a = "cli"
    <3>1. Operator' /\ Owner'
      BY <1>0, <2>1, <2>4, <2>5, <2>6 DEF CInv, Operator, Owner, Aside, accVars, mgrVars
    <3>2. Named' /\ Replaced'
      BY <1>0, <2>1, <2>4, <2>5, <2>6 DEF CInv, Handle, Named, Replaced, AllFree, accVars, mgrVars
    <3>3. Awaited' /\ HandleValid'
      BY <1>0, <2>1, <2>2, <2>4, <2>5, <2>6 DEF CInv, Handle, Awaited, HandleValid, accVars, mgrVars
    <3> QED BY <3>1, <3>2, <3>3 DEF CInv, Handle
  <2>7. CASE a = "acc"
    <3>1. Operator' /\ Owner'
      BY <1>0, <2>1, <2>4, <2>5, <2>7 DEF CInv, Operator, Owner, Aside, accVars, mgrVars
    <3>2. Named' /\ Replaced'
      BY <1>0, <2>1, <2>4, <2>5, <2>7 DEF CInv, Handle, Named, Replaced, AllFree, accVars, mgrVars
    <3>3. Awaited' /\ HandleValid'
      BY <1>0, <2>1, <2>2, <2>4, <2>5, <2>7 DEF CInv, Handle, Awaited, HandleValid, accVars, mgrVars
    <3> QED BY <3>1, <3>2, <3>3 DEF CInv, Handle
  <2> QED BY <1>c, <2>6, <2>7
<1>3. ASSUME DrsJoined(a) PROVE CInv'
  <2>1. CASE a = "cli"
    <3>1. Operator' /\ Owner'
      BY <1>0, <1>3, <2>1 DEF CInv, Operator, Owner, Aside, DrsJoined, At, Goto, accVars, mgrVars
    <3>2. Named' /\ Replaced'
      BY <1>0, <1>h, <1>3, <2>1 DEF CInv, Handle, Named, Replaced, AllFree, DrsJoined, Goto, accVars
    <3>3. Awaited'
      BY <1>0, <1>h, <1>3, <2>1 DEF CInv, Handle, Named, Awaited, DrsJoined
    <3>4. HandleValid'
      BY <1>0, <1>h, <1>3, <2>1 DEF HandleValid, DrsJoined, Goto
    <3> QED BY <3>1, <3>2, <3>3, <3>4 DEF CInv, Handle
  <2>2. CASE a = "acc"
    <3>1. Operator' /\ Owner'
      BY <1>0, <1>3, <2>2 DEF CInv, Operator, Owner, Aside, DrsJoined, At, Goto, accVars, mgrVars
    <3>2. Named' /\ Replaced'
      BY <1>0, <1>h, <1>3, <2>2 DEF CInv, Handle, Named, Replaced, AllFree, DrsJoined, Goto, accVars
    <3>3. Awaited'
      BY <1>0, <1>h, <1>3, <2>2 DEF CInv, Handle, Named, Awaited, DrsJoined
    <3>4. HandleValid'
      BY <1>0, <1>h, <1>3, <2>2 DEF HandleValid, DrsJoined, Goto
    <3> QED BY <3>1, <3>2, <3>3, <3>4 DEF CInv, Handle
  <2> QED BY <1>c, <2>1, <2>2
<1>4. ASSUME ForgetDrs(a) PROVE CInv'
  <2>1. CASE a = "cli"
    <3>1. Operator' /\ Owner'
      BY <1>0, <1>4, <2>1 DEF CInv, Operator, Owner, Aside, ForgetDrs, At, Goto, accVars
    <3>2. Named' /\ Replaced'
      BY <1>0, <1>h, <1>4, <2>1
      DEF CInv, Operator, Owner, Handle, Named, Replaced, AllFree, Aside, ForgetDrs, At, Goto,
          accVars, drsVars
    <3>3. Awaited'
      BY <1>0, <1>h, <1>4, <2>1 DEF CInv, Handle, Awaited, ForgetDrs, At, Goto, drsVars
    <3>4. HandleValid'
      BY <1>0, <1>h, <1>4, <2>1 DEF HandleValid, ForgetDrs, Goto
    <3> QED BY <3>1, <3>2, <3>3, <3>4 DEF CInv, Handle
  <2>2. CASE a = "acc"
    <3>1. Operator' /\ Owner'
      BY <1>0, <1>4, <2>2 DEF CInv, Operator, Owner, Aside, ForgetDrs, At, Goto, accVars
    <3>2. Named' /\ Replaced'
      BY <1>0, <1>h, <1>4, <2>2
      DEF CInv, Operator, Owner, Handle, Named, Replaced, AllFree, ForgetDrs, At, Goto, accVars,
          drsVars
    <3>3. Awaited'
      BY <1>0, <1>h, <1>4, <2>2 DEF CInv, Handle, Awaited, ForgetDrs, At, Goto, drsVars
    <3>4. HandleValid'
      BY <1>0, <1>h, <1>4, <2>2 DEF HandleValid, ForgetDrs, Goto
    <3> QED BY <3>1, <3>2, <3>3, <3>4 DEF CInv, Handle
  <2> QED BY <1>c, <2>1, <2>2
<1>5. ASSUME CreateDrs(a) PROVE CInv'
  <2>1. CASE a = "cli"
    <3>1. Operator' /\ Owner'
      BY <1>0, <1>5, <2>1 DEF CInv, Operator, Owner, Aside, CreateDrs, At, Goto, accVars
    <3>2. Named' /\ Replaced'
      BY <1>0, <1>h, <1>5, <2>1 DEF CInv, Owner, Handle, Named, Replaced, CreateDrs, At, Goto, accVars
    <3>3. Awaited'
      BY <1>0, <1>h, <1>5, <2>1 DEF CInv, Handle, Awaited, CreateDrs, At, Goto
    <3>4. HandleValid'
      BY <1>0, <1>h, <1>5, <2>1 DEF CInv, Owner, HandleValid, CreateDrs, At
    <3> QED BY <3>1, <3>2, <3>3, <3>4 DEF CInv, Handle
  <2>2. CASE a = "acc"
    <3>1. Operator' /\ Owner'
      BY <1>0, <1>5, <2>2 DEF CInv, Operator, Owner, Aside, CreateDrs, At, Goto, accVars
    <3>2. Named' /\ Replaced'
      BY <1>0, <1>h, <1>5, <2>2
      DEF CInv, Operator, Owner, Handle, Named, Replaced, Aside, CreateDrs, At, Goto, accVars
    <3>3. Awaited'
      BY <1>0, <1>h, <1>5, <2>2 DEF CInv, Handle, Awaited, CreateDrs, At, Goto
    <3>4. HandleValid'
      BY <1>0, <1>h, <1>5, <2>2 DEF CInv, Owner, HandleValid, CreateDrs, At
    <3> QED BY <3>1, <3>2, <3>3, <3>4 DEF CInv, Handle
  <2> QED BY <1>c, <2>1, <2>2
<1>6. ASSUME StopFault(a) PROVE CInv'
  BY <1>6, CrashCalm DEF StopFault
<1> QED
  BY <1>1, <1>2, <1>3, <1>4, <1>5, <1>6 DEF ThreadStep

LEMMA AccCalm == ASSUME Calm, TInv, CInv, AccStep PROVE CInv'
<1>0. /\ pc \in [Actors -> CliPcs \cup AccPcs] /\ mgr \in [Actors -> Managers \cup {Nil}]
      /\ pc["cli"] \in CliPcs /\ pc["acc"] \in AccPcs /\ "cli" \in Actors /\ "acc" \in Actors
      /\ Nil \notin Managers /\ svc \in Managers \cup {Nil} /\ mgrThread \in [Managers -> Drs \cup {Nil, Fresh}]
      /\ drsPc \in [Drs -> DrsPcs] /\ drsCancel \in [Drs -> BOOLEAN] /\ drsMgr \in [Drs -> Managers \cup {Nil}]
      /\ drsJoin \in [Drs -> Actors \cup {"none"}] /\ Fresh \notin Drs /\ Fresh # Nil /\ Nil \notin Drs
  BY NilAssumption, FreshAssumption DEF TInv, TypeOK, Actors
<1>1. ASSUME AccSetup PROVE CInv'
  <2>1. Operator' /\ Owner'
    BY <1>0, <1>1 DEF CInv, Operator, Owner, Aside, AccSetup, At, Goto, accVars, mgrVars
  <2>2. Named' /\ Replaced'
    BY <1>0, <1>1 DEF CInv, Handle, Named, Replaced, AllFree, AccSetup, Goto, accVars, mgrVars, drsVars
  <2>3. Awaited' /\ HandleValid'
    BY <1>0, <1>1 DEF CInv, Handle, Awaited, HandleValid, AccSetup, At, Goto, accVars, mgrVars, drsVars
  <2> QED BY <2>1, <2>2, <2>3 DEF CInv, Handle
<1>2. ASSUME NEW c \in Clients, Accept(c) PROVE CInv'
  <2>1. Operator' /\ Owner'
    BY <1>0, <1>2 DEF CInv, Operator, Owner, Accept, At, Goto, mgrVars
  <2>2. Named' /\ Replaced'
    BY <1>0, <1>2 DEF CInv, Handle, Named, Replaced, AllFree, Accept, Goto, mgrVars, drsVars
  <2>3. Awaited' /\ HandleValid'
    BY <1>0, <1>2 DEF CInv, Handle, Awaited, HandleValid, Accept, At, Goto, mgrVars, drsVars
  <2> QED BY <2>1, <2>2, <2>3 DEF CInv, Handle
<1>3. ASSUME AccCallback PROVE CInv'
  <2>1. Operator' /\ Owner'
    BY <1>0, <1>3 DEF CInv, Operator, Owner, Aside, AccCallback, At, Goto, accVars, mgrVars
  <2>2. Named' /\ Replaced'
    BY <1>0, <1>3 DEF CInv, Handle, Named, Replaced, AllFree, AccCallback, Goto, accVars, mgrVars, drsVars
  <2>3. Awaited' /\ HandleValid'
    BY <1>0, <1>3 DEF CInv, Handle, Awaited, HandleValid, AccCallback, At, Goto, accVars, mgrVars, drsVars
  <2> QED BY <2>1, <2>2, <2>3 DEF CInv, Handle
<1>4. ASSUME AccAdd PROVE CInv'
  <2>1. Operator' /\ Owner'
    BY <1>0, <1>4 DEF CInv, Operator, Owner, Aside, AccAdd, At, Goto, accVars, mgrVars
  <2>2. Named' /\ Replaced'
    BY <1>0, <1>4 DEF CInv, Handle, Named, Replaced, AllFree, AccAdd, Goto, accVars, mgrVars, drsVars
  <2>3. Awaited' /\ HandleValid'
    BY <1>0, <1>4 DEF CInv, Handle, Awaited, HandleValid, AccAdd, At, Goto, accVars, mgrVars, drsVars
  <2> QED BY <2>1, <2>2, <2>3 DEF CInv, Handle
<1>5. ASSUME AccHandoff PROVE CInv'
  <2>1. Operator' /\ Owner'
    BY <1>0, <1>5 DEF CInv, Operator, Owner, Aside, AccHandoff, At, Goto, accVars, mgrVars
  <2>2. Named' /\ Replaced'
    BY <1>0, <1>5 DEF CInv, Handle, Named, Replaced, AllFree, AccHandoff, Goto, accVars, mgrVars, drsVars
  <2>3. Awaited' /\ HandleValid'
    BY <1>0, <1>5 DEF CInv, Handle, Awaited, HandleValid, AccHandoff, At, Goto, accVars, mgrVars, drsVars
  <2> QED BY <2>1, <2>2, <2>3 DEF CInv, Handle
<1>6. ASSUME AccRelink PROVE CInv'
  <2>1. Operator' /\ Owner'
    BY <1>0, <1>6 DEF CInv, Operator, Owner, Aside, AccRelink, At, Goto, accVars
  <2>2. Named' /\ Replaced'
    BY <1>0, <1>6
    DEF CInv, Operator, Owner, Handle, Named, Replaced, AllFree, Aside, AccRelink, At, Goto,
        accVars, drsVars
  <2>3. Awaited' /\ HandleValid'
    BY <1>0, <1>6 DEF CInv, Handle, Awaited, HandleValid, AccRelink, At, Goto, drsVars
  <2> QED BY <2>1, <2>2, <2>3 DEF CInv, Handle
<1>7. ASSUME AccNap PROVE CInv'
  <2>1. Operator' /\ Owner'
    BY <1>0, <1>7 DEF CInv, Operator, Owner, Aside, AccNap, At, Goto, mgrVars
  <2>2. Named' /\ Replaced'
    BY <1>0, <1>7 DEF CInv, Handle, Named, Replaced, AllFree, AccNap, Goto, mgrVars, drsVars
  <2>3. Awaited' /\ HandleValid'
    BY <1>0, <1>7 DEF CInv, Handle, Awaited, HandleValid, AccNap, At, Goto, mgrVars, drsVars
  <2> QED BY <2>1, <2>2, <2>3 DEF CInv, Handle
<1>8. ASSUME AccCancelled PROVE CInv'
  <2>1. Operator' /\ Owner'
    BY <1>0, <1>8 DEF CInv, Operator, Owner, Aside, AccCancelled, Goto, mgrVars
  <2>2. Named' /\ Replaced'
    BY <1>0, <1>8 DEF CInv, Handle, Named, Replaced, AllFree, AccCancelled, Goto, mgrVars
  <2>3. Awaited' /\ HandleValid'
    BY <1>0, <1>8
    DEF CInv, Operator, Handle, Replaced, Awaited, HandleValid, AccCancelled, Up, mgrVars, AccPcs
  <2> QED BY <2>1, <2>2, <2>3 DEF CInv, Handle
<1>9. ASSUME AccSetupFails \/ AccFault PROVE CInv'
  BY <1>9, CrashCalm DEF AccSetupFails, AccFault
<1> QED
  BY <1>1, <1>2, <1>3, <1>4, <1>5, <1>6, <1>7, <1>8, <1>9 DEF AccStep

\* What a receive thread does leaves the control of the others alone, and
\* only a cancel ends it.
Runs(d) ==
  /\ UNCHANGED <<fateVars, flags, threadVars, accVars, svc, mgrState, mgrThread, drsCancel, drsMgr, drsJoin, cut>>
  /\ drsPc[d] # "free"
  /\ \E p \in DrsPcs \ {"free"} : DrsGoto(d, p) /\ (p = "done" => drsCancel[d])

LEMMA DrsRuns == ASSUME NEW d \in Drs, DrsStep(d) PROVE Runs(d) \/ DrsFault(d)
<1>1. DrsStart(d) \/ DrsCopy(d) \/ DrsPrep(d) => Runs(d)
  BY DEF DrsStart, DrsCopy, DrsPrep, DrsAt, Up, Runs, DrsPcs, mgrVars
<1>2. DrsSelect(d) \/ DrsEof(d) \/ DrsDeliver(d) => Runs(d)
  BY DEF DrsSelect, DrsEof, DrsDeliver, DrsAt, Up, Runs, DrsPcs, mgrVars
<1>3. DrsRecv(d) \/ DrsCancelled(d) => Runs(d)
  BY DEF DrsRecv, DrsCancelled, DrsAt, Up, Runs, DrsPcs, mgrVars
<1> QED BY <1>1, <1>2, <1>3 DEF DrsStep

LEMMA DrsCalm == ASSUME TInv, CInv, NEW d \in Drs, DrsStep(d) PROVE CInv'
<1>1. CASE DrsFault(d)
  BY <1>1, CrashCalm DEF DrsFault
<1>2. CASE Runs(d)
  <2>0. drsPc \in [Drs -> DrsPcs]
    BY DEF TInv, TypeOK
  <2>1. Operator' /\ Owner'
    BY <1>2 DEF CInv, Operator, Owner, Aside, Runs, fateVars, threadVars, accVars
  <2>2. Named' /\ Replaced'
    BY <1>2, <2>0 DEF CInv, Handle, Named, Replaced, AllFree, Runs, DrsGoto, threadVars, accVars
  <2>3. Awaited' /\ HandleValid'
    BY <1>2, <2>0 DEF CInv, Handle, Awaited, HandleValid, Runs, DrsGoto, threadVars, accVars
  <2> QED BY <2>1, <2>2, <2>3 DEF CInv, Handle
<1> QED BY <1>1, <1>2, DrsRuns

LEMMA CalmStep == ASSUME Calm, TInv, CInv, [Next]_vars PROVE CInv'
<1>1. ASSUME UNCHANGED <<fateVars, flags, threadVars, accVars, mgrVars, drsVars, cut>> PROVE CInv'
  BY <1>1
  DEF CInv, Operator, Owner, Handle, Named, Replaced, Awaited, HandleValid, AllFree, Aside,
      fateVars, threadVars, accVars, mgrVars, drsVars
<1>2. ASSUME NEW c \in Clients, ClientStep(c) PROVE CInv'
  BY <1>1, <1>2 DEF ClientStep, Connect, Send, Hangup, Up
<1>3. UNCHANGED vars => CInv'
  BY <1>1 DEF vars
<1>4. CliStep => CInv'
  BY CliCalm, CliHandles DEF CInv
<1> QED
  BY <1>2, <1>3, <1>4, ThreadCalm, AccCalm, DrsCalm DEF Next, Rest

LEMMA CalmInit == Init => CInv
<1> SUFFICES ASSUME Init PROVE CInv
  OBVIOUS
<1>1. pc["cli"] = "idle" /\ pc["acc"] = "none"
  BY DEF Init, Actors
<1> QED
  BY <1>1, NilAssumption
  DEF Init, CInv, Operator, Owner, Handle, Named, Replaced, Awaited, HandleValid, AllFree

\* At most one receive thread runs, so no two share client_recv_buffer or
\* read one socket: every handoff ends the thread before it makes another.
THEOREM OneReceiver == ASSUME Calm PROVE Spec => []AtMostOneDrs
<1>1. CInv => AtMostOneDrs
  BY DEF CInv, Handle, Named, AtMostOneDrs, Live
<1>2. TInv /\ CInv /\ [Next]_vars => CInv'
  BY CalmStep
<1> QED BY <1>1, <1>2, CalmInit, TypeInit, TypeStep, PTL DEF Spec

LoopPcs == {"select", "recv", "eof", "deliver"}

LEMMA StableStep ==
  ASSUME TInv, CInv, [Next]_vars, NEW d \in Drs, drsPc[d] \in LoopPcs
  PROVE  mgrList'[drsMgr[d]] = mgrList[drsMgr[d]] /\ mgrFds'[drsMgr[d]] = mgrFds[drsMgr[d]]
<1> DEFINE Kept == mgrList'[drsMgr[d]] = mgrList[drsMgr[d]] /\ mgrFds'[drsMgr[d]] = mgrFds[drsMgr[d]]
<1>0. /\ \A e \in Drs : drsPc[e] # "free" => e = d
      /\ ~AllFree /\ mgrList \in [Managers -> Seq(Clients)] /\ mgrFds \in [Managers -> SUBSET Clients]
      /\ drsPc[d] \notin {"free", "copy", "prep"}
  BY DEF LoopPcs, CInv, Handle, Named, AllFree, TInv, TypeOK
<1>1. CASE Quiet
  BY <1>1 DEF Quiet
<1>2. CASE CliLoud
  <2>1. ~FreeManager
    BY <1>0 DEF FreeManager, At, CInv, Handle, Replaced
  <2>2. AcceptorStopped \/ Purge => Kept
    BY DEF AcceptorStopped, Purge, mgrVars
  <2>3. ASSUME StartListening PROVE Kept
    <3>1. PICK m \in Managers : /\ \A e \in Drs : drsMgr[e] # m
                                /\ mgrList' = [mgrList EXCEPT ![m] = <<>>] /\ mgrFds' = [mgrFds EXCEPT ![m] = {}]
      BY <2>3 DEF StartListening
    <3> QED BY <1>0, <3>1
  <2> QED BY <1>2, <2>1, <2>2, <2>3 DEF CliLoud
<1>3. CASE AccLoud
  <2>1. ~AccRelink
    BY <1>0 DEF AccRelink, At, CInv, Handle, Replaced
  <2>2. AccAdd \/ (\E c \in Clients : Accept(c)) => Kept
    BY DEF AccAdd, Accept, mgrVars
  <2> QED BY <1>3, <2>1, <2>2 DEF AccLoud
<1>4. ASSUME NEW e \in Drs, DrsLoud(e) PROVE Kept
  <2>1. ~DrsCopy(e) /\ ~DrsPrep(e)
    BY <1>0 DEF DrsCopy, DrsPrep, DrsAt
  <2>2. DrsSelect(e) \/ DrsDeliver(e) \/ DrsCancelled(e) => Kept
    BY DEF DrsSelect, DrsDeliver, DrsCancelled, mgrVars
  <2> QED BY <1>4, <2>1, <2>2 DEF DrsLoud
<1>5. ASSUME NEW c \in Clients, ClientStep(c) PROVE Kept
  BY <1>5 DEF ClientStep, Connect, Send, Hangup, mgrVars
<1>6. UNCHANGED vars => Kept
  BY DEF vars, mgrVars
<1> QED
  BY <1>1, <1>2, <1>3, <1>4, <1>5, <1>6, CliQuiet, ThreadQuiet, AccQuiet, DrsQuiet DEF Next, Rest

\* No step changes the list under the loop that walks it with an iterator:
\* a client is listed, and a manager emptied, only when its thread has ended.
THEOREM LoopKeepsItsList == ASSUME Calm PROVE Spec => ListIsStable
<1>1. TInv /\ CInv /\ [Next]_vars =>
        [\A d \in Drs : drsPc[d] \in {"recv", "eof", "deliver"} =>
            mgrList'[drsMgr[d]] = mgrList[drsMgr[d]]]_vars
  BY StableStep DEF LoopPcs
<1>2. TInv /\ CInv /\ [Next]_vars => CInv'
  BY CalmStep
<1> QED BY <1>1, <1>2, CalmInit, TypeInit, TypeStep, PTL DEF Spec, ListIsStable

(****************************************************************************)
(* stop.  Every announced client is in the database, in the hands of the    *)
(* accept thread, or was when that thread was cancelled; the backlog goes   *)
(* with the accept thread.                                                  *)
(****************************************************************************)
Holding(c) == pc["acc"] \in {"callback", "add"} /\ accClient = c
Sockets ==
  /\ \A c \in told : sock[c] = "closed" \/ (sock[c] = "open" /\ (c \in Range(db) \cup cut \/ Holding(c)))
  /\ \A c \in Clients : sock[c] = "backlog" => Listening

\* A step that takes no client out of the accept thread's hands unless it
\* cuts it off, and does not close the listening socket.
Steady ==
  /\ cut \subseteq cut' /\ (Listening => Listening')
  /\ \A c \in Clients : Holding(c) => Holding(c)' \/ c \in cut'

LEMMA CliSteady == ASSUME TInv, CInv, CliStep PROVE Steady \/ AcceptorStopped
<1>0. pc \in [Actors -> CliPcs \cup AccPcs] /\ "cli" \in Actors /\ "acc" \in Actors
  BY DEF TInv, TypeOK, Actors
<1>1. Start \/ StartAccepting => Steady
  BY <1>0 DEF CInv, Operator, Start, StartAccepting, Steady, Listening, Holding
<1>2. StartAgain \/ StopUnstarted \/ StopListening \/ StartListening \/ StopNoAcceptor => Steady
  BY <1>0
  DEF StartAgain, StopUnstarted, StopListening, StartListening, StopNoAcceptor, Goto, Crash, Steady,
      Listening, Holding, threadVars, accVars
<1>3. ASSUME NEW op \in {"stop_acc", "stop"}, StopAccepting(op) PROVE Steady
  BY <1>0, <1>3 DEF StopAccepting, Goto, Steady, Listening, Holding
<1>4. FreeManager \/ FreeFault \/ ListeningStopped \/ CommandStarted \/ StopManager \/ Purge => Steady
  BY <1>0
  DEF FreeManager, FreeFault, ListeningStopped, CommandStarted, StopManager, Purge, Goto, Crash,
      Steady, Listening, Holding, threadVars, accVars
<1> QED BY <1>1, <1>2, <1>3, <1>4 DEF CliStep

LEMMA ThreadSteady == ASSUME TInv, NEW a \in Actors, ThreadStep(a) PROVE Steady
<1>0. pc \in [Actors -> CliPcs \cup AccPcs] /\ "cli" \in Actors /\ "acc" \in Actors
  BY DEF TInv, TypeOK, Actors
<1>1. CancelDrs(a) \/ JoinDrs(a) \/ DrsJoined(a) => Steady
  BY <1>0 DEF CancelDrs, JoinDrs, DrsJoined, At, Goto, Steady, Listening, Holding, accVars
<1>2. ForgetDrs(a) \/ CreateDrs(a) \/ StopFault(a) => Steady
  BY <1>0
  DEF ForgetDrs, CreateDrs, StopFault, At, Goto, Crash, Steady, Listening, Holding, threadVars,
      accVars
<1> QED BY <1>1, <1>2 DEF ThreadStep

LEMMA AccSteady == ASSUME TInv, AccStep PROVE Steady \/ AccAdd
<1>0. pc \in [Actors -> CliPcs \cup AccPcs] /\ "cli" \in Actors /\ "acc" \in Actors
  BY DEF TInv, TypeOK, Actors
<1>1. AccSetup \/ AccSetupFails \/ AccCallback \/ AccHandoff \/ AccRelink => Steady
  BY <1>0
  DEF AccSetup, AccSetupFails, AccCallback, AccHandoff, AccRelink, At, Goto, Crash, Steady,
      Listening, Holding, accVars
<1>2. AccNap \/ AccFault \/ AccCancelled => Steady
  BY <1>0 DEF AccNap, AccFault, AccCancelled, At, Goto, Crash, Steady, Listening, Holding, threadVars
<1>3. ASSUME NEW c \in Clients, Accept(c) PROVE Steady
  BY <1>0, <1>3 DEF Accept, At, Goto, Steady, Listening, Holding
<1> QED BY <1>1, <1>2, <1>3 DEF AccStep

LEMMA DrsSteady == ASSUME NEW d \in Drs, DrsStep(d) PROVE Steady
<1>1. UNCHANGED <<pc, accClient, cut>>
  BY DrsRuns DEF Runs, DrsFault, Crash, threadVars, accVars
<1> QED BY <1>1 DEF Steady, Listening, Holding

LEMMA SteadyKeeps ==
  ASSUME TInv, Sockets, Steady, UNCHANGED <<told, db, sock>> PROVE Sockets'
BY DEF Sockets, Steady, TInv, TypeOK

LEMMA SocketsStep == ASSUME TInv, CInv, AInv, Sockets, [Next]_vars PROVE Sockets'
<1>0. pc \in [Actors -> CliPcs \cup AccPcs] /\ "cli" \in Actors /\ "acc" \in Actors
  BY DEF TInv, TypeOK, Actors
<1>1. Steady /\ Quiet => Sockets'
  BY SteadyKeeps DEF Quiet
<1>2. CASE CliStep
  <2>1. CASE AcceptorStopped
    <3>1. /\ sock' = [c \in Clients |-> IF sock[c] = "backlog" THEN "refused" ELSE sock[c]]
          /\ UNCHANGED <<told, db, cut>> /\ pc["acc"] = "done"
      BY <2>1 DEF AcceptorStopped, appVars
    <3> QED BY <3>1 DEF Sockets, Holding, TInv, TypeOK
  <2>2. CASE Purge
    <3>1. /\ sock' = [c \in Clients |-> IF c \in Range(db) THEN "closed" ELSE sock[c]]
          /\ UNCHANGED <<told, cut>> /\ pc["acc"] = "none" /\ Steady
      BY <1>2, <2>2, CliSteady DEF Purge, appVars, CInv, Operator, AcceptorStopped
    <3>2. told \subseteq Clients /\ ~Listening /\ \A c \in Clients : ~Holding(c)
      BY <3>1 DEF TInv, TypeOK, Listening, Holding
    <3>3. \A c \in Clients : sock[c] # "backlog"
      BY <3>2 DEF Sockets
    <3>4. ASSUME NEW c \in told PROVE sock'[c] = "closed" \/ (sock'[c] = "open" /\ c \in cut)
      <4>1. c \in Clients /\ (sock[c] = "closed" \/ (sock[c] = "open" /\ c \in Range(db) \cup cut))
        BY <3>2 DEF Sockets
      <4>2. sock'[c] = IF c \in Range(db) THEN "closed" ELSE sock[c]
        BY <3>1, <4>1
      <4> QED BY <4>1, <4>2
    <3>5. \A c \in Clients : sock'[c] # "backlog"
      BY <3>1, <3>3
    <3>6. told' = told /\ cut' = cut
      BY <3>1
    <3>7. \A c \in told' : sock'[c] = "closed" \/ (sock'[c] = "open" /\ c \in cut')
      BY <3>4, <3>6
    <3> QED BY <3>5, <3>7 DEF Sockets
  <2>3. CASE FreeManager \/ StartListening
    <3>1. Steady /\ UNCHANGED <<told, db, sock>>
      BY <1>2, <2>3, CliSteady
      DEF FreeManager, StartListening, AcceptorStopped, Command, At, netVars, appVars
    <3> QED BY <3>1, SteadyKeeps
  <2> QED BY <1>1, <1>2, <2>1, <2>2, <2>3, CliSteady, CliQuiet DEF CliLoud
<1>3. ASSUME NEW a \in Actors, ThreadStep(a) PROVE Sockets'
  BY <1>1, <1>3, ThreadSteady, ThreadQuiet
<1>4. CASE AccStep
  <2>1. ASSUME NEW c \in Clients, Accept(c) PROVE Sockets'
    <3>1. /\ sock' = [sock EXCEPT ![c] = "open"] /\ told' = told \cup {c} /\ accClient' = c
          /\ pc["acc"] = "accept" /\ pc' = [pc EXCEPT !["acc"] = "callback"] /\ UNCHANGED <<db, cut>>
      BY <2>1 DEF Accept, At, Goto
    <3> QED BY <1>0, <3>1 DEF Sockets, Holding, Listening, TInv, TypeOK
  <2>2. CASE AccAdd
    <3>1. /\ db' = Append(db, accClient) /\ db \in Seq(Clients) /\ accClient \in Clients
          /\ pc["acc"] = "add" /\ pc' = [pc EXCEPT !["acc"] = "handoff"] /\ UNCHANGED <<told, sock, cut, accClient>>
      BY <2>2 DEF AccAdd, At, Goto, netVars, appVars, accVars, TInv, TypeOK, Handing, HandingOver
    <3>2. Range(db') = Range(db) \cup {accClient}
      BY <3>1, RangeOfAppend
    <3> QED BY <1>0, <3>1, <3>2 DEF Sockets, Holding, Listening
  <2>3. CASE AccRelink
    <3>1. Steady /\ UNCHANGED <<told, db, sock>>
      BY <1>4, <2>3, AccSteady DEF AccRelink, AccAdd, At, netVars, appVars
    <3> QED BY <3>1, SteadyKeeps
  <2> QED BY <1>1, <1>4, <2>1, <2>2, <2>3, AccSteady, AccQuiet DEF AccLoud
<1>5. ASSUME NEW d \in Drs, DrsStep(d) PROVE Sockets'
  <2>1. UNCHANGED <<told, db, sock>>
    BY <1>5, DrsQuiet
    DEF Quiet, DrsLoud, DrsCopy, DrsPrep, DrsSelect, DrsDeliver, DrsCancelled, netVars, appVars
  <2> QED BY <1>5, <2>1, DrsSteady, SteadyKeeps
<1>6. ASSUME NEW c \in Clients, ClientStep(c) PROVE Sockets'
  <2>1. /\ UNCHANGED <<told, db, cut, pc, accClient>>
        /\ \/ sock' = sock
           \/ sock' = [sock EXCEPT ![c] = "backlog"] /\ Listening /\ sock[c] = "away"
    BY <1>6 DEF ClientStep, Connect, Send, Hangup, appVars, threadVars, accVars
  <2> QED BY <2>1 DEF Sockets, Holding, Listening, TInv, TypeOK
<1>7. CASE UNCHANGED vars
  <2>1. UNCHANGED <<told, db, sock, cut, pc, accClient>>
    BY <1>7 DEF vars, netVars, appVars, threadVars, accVars
  <2> QED BY <2>1 DEF Sockets, Holding, Listening
<1> QED BY <1>2, <1>3, <1>4, <1>5, <1>6, <1>7 DEF Next, Rest

\* Only purge stops the process.
LEMMA FateStep == ASSUME [Next]_vars, ~Purge PROVE UNCHANGED fate \/ fate' # "stopped"
<1>1. CliStep => UNCHANGED fate \/ fate' # "stopped"
  BY
  DEF CliStep, Start, StartAgain, StopAccepting, StopUnstarted, AcceptorStopped, StartAccepting,
      StopListening, FreeManager, FreeFault, ListeningStopped, StartListening, CommandStarted,
      StopNoAcceptor, StopManager, Command, Crash, Up, At, fateVars
<1>2. ASSUME NEW a \in Actors, ThreadStep(a) PROVE UNCHANGED fate \/ fate' # "stopped"
  BY <1>2
  DEF ThreadStep, CancelDrs, JoinDrs, DrsJoined, ForgetDrs, CreateDrs, StopFault, HandleFault,
      Crash, Up, At, fateVars
<1>3. AccStep => UNCHANGED fate \/ fate' # "stopped"
  BY
  DEF AccStep, AccSetup, AccSetupFails, Accept, AccCallback, AccAdd, AccHandoff, AccRelink, AccNap,
      AccFault, AccCancelled, Crash, Up, At, fateVars
<1>4. ASSUME NEW d \in Drs, DrsStep(d) PROVE UNCHANGED fate \/ fate' # "stopped"
  BY <1>4, DrsRuns DEF Runs, DrsFault, Crash, fateVars
<1>5. ASSUME NEW c \in Clients, ClientStep(c) PROVE UNCHANGED fate
  BY <1>5 DEF ClientStep, Connect, Send, Hangup, Up, fateVars
<1>6. UNCHANGED vars => UNCHANGED fate
  BY DEF vars, fateVars
<1> QED BY <1>1, <1>2, <1>3, <1>4, <1>5, <1>6 DEF Next, Rest

LEMMA StopStep == ASSUME TInv, CInv, Sockets, StopIsComplete, [Next]_vars PROVE StopIsComplete'
<1>1. CASE fate = "stopped"
  <2>1. UNCHANGED vars
    BY <1>1, EndedStays
  <2> QED BY <2>1 DEF StopIsComplete, vars, fateVars, threadVars, drsVars, netVars, appVars
<1>2. CASE fate # "stopped" /\ Purge
  <2>1. /\ pc["cli"] = "purge" /\ pc["acc"] = "none" /\ pc'["acc"] = "none" /\ AllFree
    BY <1>2 DEF Purge, Goto, CInv, Operator, Owner, Handle, Named, AllFree
  <2>2. /\ sock' = [c \in Clients |-> IF c \in Range(db) THEN "closed" ELSE sock[c]]
        /\ UNCHANGED <<told, cut, drsPc>>
    BY <1>2 DEF Purge, drsVars, appVars
  <2> QED BY <2>1, <2>2 DEF StopIsComplete, Sockets, Holding, Listening, AllFree
<1>3. CASE fate # "stopped" /\ ~Purge
  <2>1. fate' # "stopped"
    BY <1>3, FateStep
  <2> QED BY <2>1 DEF StopIsComplete
<1> QED BY <1>1, <1>2, <1>3

\* stop leaves no thread running, no connection in the backlog, and closes
\* every announced client but one cut off with the accept thread.
THEOREM StopLeavesNothing == ASSUME Calm PROVE Spec => []StopIsComplete
<1>1. Init => Sockets /\ StopIsComplete
  <2> SUFFICES ASSUME Init PROVE Sockets /\ StopIsComplete
    OBVIOUS
  <2> QED BY DEF Init, Sockets, StopIsComplete
<1>2. TInv /\ CInv /\ [Next]_vars => CInv'
  BY CalmStep
<1>3. TInv /\ AInv /\ [Next]_vars => AInv'
  BY AnnounceStep
<1>4. Init => AInv
  BY AnnounceInit
<1> QED
  BY <1>1, <1>2, <1>3, <1>4, CalmInit, TypeInit, TypeStep, SocketsStep, StopStep, PTL DEF Spec

(****************************************************************************)
(* What the manager serves.  A manager made by start_svc fills its list     *)
(* from the database on its own thread, so start_svc must outlast that.     *)
(****************************************************************************)
Patient == NoRestart \/ (~Overlap /\ Prompt)

Filling == cliOp = "start_svc" /\ (pc["cli"] = "create" \/ \E d \in Drs : drsPc[d] \in {"start", "copy"})
Copies ==
  /\ \A d \in Drs : drsPc[d] = "copy" \/ (drsPc[d] = "start" /\ "NLIS" \in flags) => cliOp = "start_svc"
  /\ Filling => mgrList[svc] = <<>>

LEMMA CliCopies == ASSUME Patient, TInv, CInv, Copies, CliStep PROVE Copies'
<1>0. /\ pc \in [Actors -> CliPcs \cup AccPcs] /\ "cli" \in Actors /\ "acc" \in Actors
      /\ Nil \notin Managers /\ svc \in Managers \cup {Nil} /\ mgrList \in [Managers -> Seq(Clients)]
  BY NilAssumption DEF TInv, TypeOK, Actors
<1>1. Start \/ StartAccepting => Copies'
  BY <1>0 DEF CInv, Operator, Copies, Filling, Start, StartAccepting, Command, At, drsVars
<1>2. StopListening \/ StopNoAcceptor \/ StopManager \/ Purge => Copies'
  BY <1>0
  DEF CInv, Operator, Copies, Filling, StopListening, StopNoAcceptor, StopManager, Purge, Command,
      At, drsVars
<1>3. FreeManager \/ ListeningStopped => Copies'
  BY <1>0
  DEF CInv, Handle, Replaced, AllFree, Copies, Filling, FreeManager, ListeningStopped, At, Goto,
      drsVars
<1>4. StartListening => Copies'
  BY <1>0 DEF Copies, StartListening
<1>5. CommandStarted => Copies'
  BY <1>0 DEF Patient, NoRestart, CInv, Operator, Copies, Filling, CommandStarted, Started, drsVars
<1>6. StartAgain \/ StopUnstarted \/ FreeFault => Copies'
  BY DEF Copies, Filling, StartAgain, StopUnstarted, FreeFault, Crash, threadVars, mgrVars, drsVars
<1>7. ASSUME NEW op \in {"stop_acc", "stop"}, StopAccepting(op) PROVE Copies'
  BY <1>0, <1>7 DEF CInv, Operator, Copies, Filling, StopAccepting, Command, At, drsVars
<1>8. AcceptorStopped => Copies'
  BY <1>0 DEF CInv, Operator, Copies, Filling, AcceptorStopped, drsVars
<1> QED BY <1>1, <1>2, <1>3, <1>4, <1>5, <1>6, <1>7, <1>8 DEF CliStep

LEMMA ThreadCopies == ASSUME Patient, TInv, CInv, Copies, NEW a \in Actors, ThreadStep(a) PROVE Copies'
<1>0. /\ pc \in [Actors -> CliPcs \cup AccPcs] /\ "cli" \in Actors /\ "acc" \in Actors
      /\ Nil \notin Managers /\ svc \in Managers \cup {Nil} /\ drsPc \in [Drs -> DrsPcs] /\ a \in {"cli", "acc"}
  BY NilAssumption DEF TInv, TypeOK, Actors
<1>1. CancelDrs(a) \/ JoinDrs(a) => Copies'
  BY <1>0 DEF Copies, Filling, CancelDrs, JoinDrs, Goto, mgrVars
<1>2. DrsJoined(a) \/ ForgetDrs(a) => Copies'
  BY <1>0 DEF Copies, Filling, DrsJoined, ForgetDrs, Goto, mgrVars, drsVars
<1>3. CreateDrs(a) => Copies'
  BY <1>0 DEF CInv, Operator, Owner, Aside, Copies, Filling, CreateDrs, At
<1>4. StopFault(a) => Copies'
  BY DEF Copies, Filling, StopFault, Crash, threadVars, mgrVars, drsVars
<1> QED BY <1>1, <1>2, <1>3, <1>4 DEF ThreadStep

LEMMA AccCopies == ASSUME TInv, CInv, Copies, AccStep PROVE Copies'
<1>0. /\ pc \in [Actors -> CliPcs \cup AccPcs] /\ "cli" \in Actors /\ "acc" \in Actors
      /\ mgrList \in [Managers -> Seq(Clients)]
  BY DEF TInv, TypeOK, Actors
<1>1. AccSetup \/ AccCallback \/ AccAdd \/ AccHandoff \/ AccNap \/ AccCancelled => Copies'
  BY <1>0
  DEF Copies, Filling, AccSetup, AccCallback, AccAdd, AccHandoff, AccNap, AccCancelled, Goto,
      mgrVars, drsVars
<1>2. \A c : Accept(c) => Copies'
  BY <1>0 DEF Copies, Filling, Accept, Goto, mgrVars, drsVars
<1>3. AccRelink => Copies'
  BY <1>0 DEF CInv, Operator, Aside, Copies, Filling, AccRelink, At, drsVars
<1>4. AccSetupFails \/ AccFault => Copies'
  BY DEF Copies, Filling, AccSetupFails, AccFault, Crash, threadVars, mgrVars, drsVars
<1> QED BY <1>1, <1>2, <1>3, <1>4 DEF AccStep

LEMMA DrsCopies == ASSUME TInv, CInv, Copies, NEW d \in Drs, DrsStep(d) PROVE Copies'
<1>0. /\ drsPc \in [Drs -> DrsPcs] /\ mgrList \in [Managers -> Seq(Clients)] /\ svc \in Managers \cup {Nil}
  BY DEF TInv, TypeOK
<1>1. DrsStart(d) => Copies'
  BY <1>0 DEF Copies, Filling, DrsStart, DrsAt, DrsGoto, mgrVars, threadVars
<1>2. DrsCopy(d) => Copies'
  BY <1>0
  DEF CInv, Handle, Named, Replaced, AllFree, Copies, Filling, DrsCopy, DrsAt, DrsGoto, mgrVars,
      threadVars
<1>3. DrsPrep(d) \/ DrsSelect(d) \/ DrsRecv(d) \/ DrsEof(d) \/ DrsDeliver(d) \/ DrsCancelled(d) => Copies'
  BY <1>0
  DEF Copies, Filling, DrsPrep, DrsSelect, DrsRecv, DrsEof, DrsDeliver, DrsCancelled, DrsGoto,
      mgrVars, threadVars
<1>4. DrsFault(d) => Copies'
  BY DEF Copies, Filling, DrsFault, Crash, threadVars, mgrVars, drsVars
<1> QED BY <1>1, <1>2, <1>3, <1>4 DEF DrsStep

LEMMA CopiesStep == ASSUME Patient, TInv, CInv, Copies, [Next]_vars PROVE Copies'
<1>1. UNCHANGED <<flags, threadVars, mgrVars, drsVars>> => Copies'
  BY DEF Copies, Filling, threadVars, mgrVars, drsVars
<1>2. ASSUME NEW c \in Clients, ClientStep(c) PROVE Copies'
  BY <1>1, <1>2 DEF ClientStep, Connect, Send, Hangup
<1>3. UNCHANGED vars => Copies'
  BY <1>1 DEF vars
<1> QED BY <1>2, <1>3, CliCopies, ThreadCopies, AccCopies, DrsCopies DEF Next, Rest

(****************************************************************************)
(* No list names a client twice: the accept thread takes a client once,     *)
(* stores it once, and lists it once, in the order it stored it.            *)
(****************************************************************************)
Taken == pc["acc"] \in {"callback", "add"}
Unlisted == pc["acc"] \in {"handoff", "cancel", "join", "joining", "forget", "relink"}
Once ==
  /\ IsInjective(db) /\ ListedOnce
  /\ Taken => accClient \notin Range(db)
  /\ Unlisted => \A m \in Managers : accClient \notin Range(mgrList[m])

\* A step with which the client in hand stays as it is or is no longer in hand.
Passes ==
  /\ Taken' => Taken /\ accClient' = accClient
  /\ Unlisted' => Unlisted /\ accClient' = accClient

LEMMA EmptyOnce == IsInjective(<<>>)
BY DEF IsInjective

LEMMA AppendOnce ==
  ASSUME NEW S, NEW s \in Seq(S), NEW e \in S, IsInjective(s), e \notin Range(s) PROVE IsInjective(Append(s, e))
<1>1. /\ DOMAIN s = 1..Len(s) /\ Len(s) \in Nat /\ DOMAIN Append(s, e) = 1..(Len(s) + 1)
      /\ Append(s, e)[Len(s) + 1] = e /\ \A i \in 1..Len(s) : Append(s, e)[i] = s[i]
  BY AppendProperties, LenProperties
<1> QED BY <1>1 DEF IsInjective, Range

LEMMA EmptyConcat == ASSUME NEW S, NEW s \in Seq(S) PROVE <<>> \o s = s
BY ConcatEmptySeq

LEMMA CliPasses == ASSUME TInv, CliStep PROVE Passes
<1>0. pc \in [Actors -> CliPcs \cup AccPcs] /\ "cli" \in Actors /\ "acc" \in Actors
  BY DEF TInv, TypeOK, Actors
<1>1. Start \/ StartAgain \/ StopUnstarted \/ StartAccepting \/ StopListening => Passes
  BY <1>0
  DEF Start, StartAgain, StopUnstarted, StartAccepting, StopListening, Passes, Taken, Unlisted,
      Goto, Crash, threadVars, accVars
<1>2. ASSUME NEW op \in {"stop_acc", "stop"}, StopAccepting(op) PROVE Passes
  BY <1>0, <1>2 DEF StopAccepting, Passes, Taken, Unlisted, Goto
<1>3. FreeFault \/ ListeningStopped \/ CommandStarted \/ StopNoAcceptor \/ StopManager => Passes
  BY <1>0
  DEF FreeFault, ListeningStopped, CommandStarted, StopNoAcceptor, StopManager, Passes, Taken,
      Unlisted, Goto, Crash, threadVars, accVars
<1>4. AcceptorStopped \/ FreeManager \/ StartListening \/ Purge => Passes
  BY <1>0 DEF AcceptorStopped, FreeManager, StartListening, Purge, Passes, Taken, Unlisted, Goto, accVars
<1> QED BY <1>1, <1>2, <1>3, <1>4 DEF CliStep

LEMMA ThreadPasses == ASSUME TInv, NEW a \in Actors, ThreadStep(a) PROVE Passes
<1>0. pc \in [Actors -> CliPcs \cup AccPcs] /\ "cli" \in Actors /\ "acc" \in Actors
  BY DEF TInv, TypeOK, Actors
<1>1. CancelDrs(a) \/ JoinDrs(a) \/ DrsJoined(a) => Passes
  BY <1>0 DEF CancelDrs, JoinDrs, DrsJoined, Passes, Taken, Unlisted, At, Goto, accVars
<1>2. ForgetDrs(a) \/ CreateDrs(a) \/ StopFault(a) => Passes
  BY <1>0 DEF ForgetDrs, CreateDrs, StopFault, Passes, Taken, Unlisted, At, Goto, Crash, threadVars, accVars
<1> QED BY <1>1, <1>2 DEF ThreadStep

LEMMA AccPasses ==
  ASSUME TInv, AccStep PROVE Passes \/ AccAdd \/ \E c \in Clients : Accept(c)
<1>0. pc \in [Actors -> CliPcs \cup AccPcs] /\ "cli" \in Actors /\ "acc" \in Actors
  BY DEF TInv, TypeOK, Actors
<1>1. AccSetup \/ AccSetupFails \/ AccCallback \/ AccHandoff \/ AccRelink => Passes
  BY <1>0
  DEF AccSetup, AccSetupFails, AccCallback, AccHandoff, AccRelink, Passes, Taken, Unlisted, At,
      Goto, Crash, threadVars, accVars
<1>2. AccNap \/ AccFault \/ AccCancelled => Passes
  BY <1>0 DEF AccNap, AccFault, AccCancelled, Passes, Taken, Unlisted, Goto, Crash, threadVars, accVars
<1> QED BY <1>1, <1>2 DEF AccStep

LEMMA PassesKeeps ==
  ASSUME Once, Passes, UNCHANGED <<db, mgrList>> PROVE Once'
BY DEF Once, ListedOnce, Passes

LEMMA CliOnce == ASSUME TInv, Once, CliStep PROVE Once'
<1>0. mgrList \in [Managers -> Seq(Clients)] /\ mgr \in [Actors -> Managers \cup {Nil}]
  BY DEF TInv, TypeOK
<1>1. Passes
  BY CliPasses
<1>2. CASE Quiet \/ AcceptorStopped
  BY <1>1, <1>2, PassesKeeps DEF Quiet, AcceptorStopped, mgrVars
<1>3. CASE FreeManager \/ StartListening
  <2>1. PICK m : mgrList' = [mgrList EXCEPT ![m] = <<>>] /\ db' = db
    BY <1>3 DEF FreeManager, StartListening
  <2>2. \A n \in Managers : mgrList'[n] = <<>> \/ mgrList'[n] = mgrList[n]
    BY <1>0, <2>1
  <2> QED BY <1>1, <2>1, <2>2, EmptyOnce, EmptyList DEF Once, ListedOnce, Passes
<1>4. CASE Purge
  BY <1>1, <1>4, EmptyOnce, EmptyList DEF Purge, mgrVars, Once, ListedOnce, Passes
<1> QED BY <1>2, <1>3, <1>4, CliQuiet DEF CliLoud

LEMMA AccOnce == ASSUME TInv, AInv, SInv, Once, AccStep PROVE Once'
<1>0. /\ mgrList \in [Managers -> Seq(Clients)] /\ db \in Seq(Clients)
      /\ pc \in [Actors -> CliPcs \cup AccPcs] /\ "acc" \in Actors
  BY DEF TInv, TypeOK, Actors
<1>1. ASSUME NEW c \in Clients, Accept(c) PROVE Once'
  <2>1. /\ sock[c] = "backlog" /\ accClient' = c /\ pc' = [pc EXCEPT !["acc"] = "callback"] /\ UNCHANGED <<db, mgrList>>
    BY <1>1 DEF Accept, Goto, mgrVars
  <2>2. c \notin Range(db)
    BY <2>1 DEF AInv, AnnouncedFirst, Unannounced
  <2> QED BY <1>0, <2>1, <2>2 DEF Once, ListedOnce, Taken, Unlisted
<1>2. CASE AccAdd
  <2>1. /\ db' = Append(db, accClient) /\ Taken /\ accClient \in Clients /\ fate = "up"
        /\ pc' = [pc EXCEPT !["acc"] = "handoff"] /\ UNCHANGED <<mgrList, accClient>>
    BY <1>2 DEF AccAdd, Taken, At, Up, Goto, mgrVars, accVars, TInv, TypeOK, Handing, HandingOver
  <2>2. IsInjective(db')
    BY <1>0, <2>1, AppendOnce DEF Once
  <2>3. \A m \in Managers : accClient \notin Range(mgrList[m])
    BY <2>1 DEF SInv, StoredFirst, Once
  <2> QED BY <1>0, <2>1, <2>2, <2>3 DEF Once, ListedOnce, Taken, Unlisted
<1>3. CASE AccRelink
  <2> DEFINE m == mgr["acc"]
  <2>1. /\ m \in Managers /\ mgrList' = [mgrList EXCEPT ![m] = Append(mgrList[m], accClient)]
        /\ Unlisted /\ accClient \in Clients /\ pc' = [pc EXCEPT !["acc"] = "create"] /\ UNCHANGED <<db, accClient>>
    BY <1>3 DEF AccRelink, LiveManager, Unlisted, At, Goto, accVars, TInv, TypeOK, Handing, HandingOver
  <2> HIDE DEF m
  <2>2. IsInjective(Append(mgrList[m], accClient))
    BY <1>0, <2>1, AppendOnce DEF Once, ListedOnce
  <2> QED BY <1>0, <2>1, <2>2 DEF Once, ListedOnce, Taken, Unlisted
<1>4. CASE Quiet /\ Passes
  BY <1>4, PassesKeeps DEF Quiet
<1> QED BY <1>1, <1>2, <1>3, <1>4, AccQuiet, AccPasses DEF AccLoud

LEMMA DrsOnce == ASSUME TInv, CInv, Copies, Once, NEW d \in Drs, DrsStep(d) PROVE Once'
<1>0. mgrList \in [Managers -> Seq(Clients)] /\ db \in Seq(Clients)
  BY DEF TInv, TypeOK
<1>1. Passes
  BY DrsRuns DEF Runs, DrsFault, Crash, Passes, Taken, Unlisted, threadVars, accVars
<1>2. CASE DrsCopy(d)
  <2>1. cliOp = "start_svc" /\ drsMgr[d] \in Managers /\ mgrList[drsMgr[d]] = <<>>
    BY <1>2 DEF DrsCopy, DrsAt, LiveManager, Copies, Filling, CInv, Handle, Named
  <2>2. Aside
    BY <2>1 DEF CInv, Operator
  <2>3. mgrList' = [mgrList EXCEPT ![drsMgr[d]] = db] /\ db' = db /\ pc' = pc
    BY <1>0, <1>2, <2>1, EmptyConcat DEF DrsCopy, threadVars
  <2> QED BY <1>0, <2>1, <2>2, <2>3 DEF Once, ListedOnce, Aside, Taken, Unlisted
<1>3. CASE ~DrsCopy(d)
  <2>1. UNCHANGED <<db, mgrList>>
    BY <1>3, DrsQuiet DEF Quiet, DrsLoud, DrsPrep, DrsSelect, DrsDeliver, DrsCancelled, mgrVars
  <2> QED BY <1>1, <2>1, PassesKeeps
<1> QED BY <1>2, <1>3

LEMMA OnceStep == ASSUME TInv, CInv, AInv, SInv, Copies, Once, [Next]_vars PROVE Once'
<1>1. ASSUME NEW a \in Actors, ThreadStep(a) PROVE Once'
  BY <1>1, ThreadPasses, ThreadQuiet, PassesKeeps DEF Quiet
<1>2. ASSUME NEW c \in Clients, ClientStep(c) PROVE Once'
  <2>1. UNCHANGED <<db, mgrList, pc, accClient>>
    BY <1>2 DEF ClientStep, Connect, Send, Hangup, threadVars, accVars, mgrVars
  <2> QED BY <2>1, PassesKeeps DEF Passes, Taken, Unlisted
<1>3. CASE UNCHANGED vars
  <2>1. UNCHANGED <<db, mgrList, pc, accClient>>
    BY <1>3 DEF vars, threadVars, accVars, mgrVars
  <2> QED BY <2>1, PassesKeeps DEF Passes, Taken, Unlisted
<1> QED BY <1>1, <1>2, <1>3, CliOnce, AccOnce, DrsOnce DEF Next, Rest

\* All that is needed to follow a client through the lists.
PInv == TInv /\ CInv /\ AInv /\ SInv /\ Copies /\ Once

LEMMA PatientInit == Init => PInv
<1> SUFFICES ASSUME Init PROVE Copies /\ Once
  BY TypeInit, CalmInit, AnnounceInit, StoreInit DEF PInv
<1>1. /\ db = <<>> /\ pc["acc"] = "none" /\ cliOp = "none" /\ \A m \in Managers : mgrList[m] = <<>>
      /\ \A d \in Drs : drsPc[d] = "free"
  BY DEF Init, Actors
<1> QED BY <1>1, EmptyOnce, EmptyList DEF Copies, Filling, Once, ListedOnce

LEMMA PatientStep == ASSUME Patient, PInv, [Next]_vars PROVE PInv'
BY TypeStep, CalmStep, AnnounceStep, StoreStep, CopiesStep, OnceStep DEF Patient, Calm, PInv

\* Every list names a client once, whatever is connected, stopped and
\* replaced, so a round of the loop reads each readable socket once.
THEOREM ListsNameOnce == ASSUME Patient PROVE Spec => []ListedOnce
<1>1. PInv => ListedOnce
  BY DEF PInv, Once
<1>2. PInv /\ [Next]_vars => PInv'
  BY PatientStep
<1> QED BY <1>1, <1>2, PatientInit, PTL DEF Spec

(****************************************************************************)
(* The loop over the ready clients never blocks: nobody else reads their    *)
(* sockets, and it comes to each of them once.                              *)
(****************************************************************************)
Ready ==
  \A d \in Drs : drsPc[d] \in {"recv", "eof", "deliver"} =>
    /\ IsInjective(drsTodo[d])
    /\ \A i \in DOMAIN drsTodo[d] :
         i # Min(DOMAIN drsTodo[d]) \/ drsPc[d] = "recv" => Readable(drsTodo[d][i])

\* A step that makes no socket unreadable and visits no client.
Undisturbed ==
  /\ \A c \in Clients : Readable(c) => Readable(c)'
  /\ \A d \in Drs : drsPc'[d] \in {"recv", "eof", "deliver"} => drsPc[d] \in {"recv", "eof", "deliver"}
  /\ \A d \in Drs : drsPc'[d] = "recv" => drsPc[d] = "recv"
  /\ UNCHANGED drsTodo

LEMMA UndisturbedReady == ASSUME TInv, Ready, Undisturbed PROVE Ready'
<1> SUFFICES ASSUME NEW d \in Drs, drsPc'[d] \in {"recv", "eof", "deliver"}
             PROVE  /\ IsInjective(drsTodo'[d])
                    /\ \A i \in DOMAIN drsTodo'[d] :
                         i # Min(DOMAIN drsTodo'[d]) \/ drsPc'[d] = "recv" => Readable(drsTodo[d][i])'
  BY DEF Ready
<1>1. drsPc[d] \in {"recv", "eof", "deliver"} /\ (drsPc'[d] = "recv" => drsPc[d] = "recv") /\ drsTodo' = drsTodo
  BY DEF Undisturbed
<1>2. \A i \in DOMAIN drsTodo[d] : drsTodo[d][i] \in Clients
  BY DEF TInv, TypeOK, Range
<1> QED BY <1>1, <1>2 DEF Ready, Undisturbed

LEMMA CliUndisturbed == ASSUME CliStep PROVE UNCHANGED <<rx, peer, drsTodo, drsPc>>
<1>1. Start \/ StartAgain \/ StopUnstarted \/ StartAccepting \/ StopListening => UNCHANGED <<rx, peer, drsTodo, drsPc>>
  BY DEF Start, StartAgain, StopUnstarted, StartAccepting, StopListening, Crash, netVars, drsVars
<1>2. ASSUME NEW op \in {"stop_acc", "stop"}, StopAccepting(op) PROVE UNCHANGED <<rx, peer, drsTodo, drsPc>>
  BY <1>2 DEF StopAccepting, netVars, drsVars
<1>3. FreeFault \/ ListeningStopped \/ CommandStarted \/ StopNoAcceptor \/ StopManager => UNCHANGED <<rx, peer, drsTodo, drsPc>>
  BY DEF FreeFault, ListeningStopped, CommandStarted, StopNoAcceptor, StopManager, Crash, netVars, drsVars
<1>4. AcceptorStopped \/ FreeManager \/ StartListening \/ Purge => UNCHANGED <<rx, peer, drsTodo, drsPc>>
  BY DEF AcceptorStopped, FreeManager, StartListening, Purge, netVars, drsVars
<1> QED BY <1>1, <1>2, <1>3, <1>4 DEF CliStep

LEMMA ThreadUndisturbed == ASSUME TInv, NEW a \in Actors, ThreadStep(a) PROVE Undisturbed
<1>0. drsPc \in [Drs -> DrsPcs]
  BY DEF TInv, TypeOK
<1>1. CancelDrs(a) \/ JoinDrs(a) \/ DrsJoined(a) => Undisturbed
  BY <1>0 DEF CancelDrs, JoinDrs, DrsJoined, netVars, Undisturbed, Readable
<1>2. ForgetDrs(a) \/ CreateDrs(a) \/ StopFault(a) => Undisturbed
  BY <1>0 DEF ForgetDrs, CreateDrs, StopFault, Crash, drsVars, netVars, Undisturbed, Readable
<1> QED BY <1>1, <1>2 DEF ThreadStep

LEMMA AccUndisturbed == ASSUME AccStep PROVE UNCHANGED <<rx, peer, drsTodo, drsPc>>
<1>1. AccSetup \/ AccSetupFails \/ AccCallback \/ AccHandoff \/ AccRelink => UNCHANGED <<rx, peer, drsTodo, drsPc>>
  BY DEF AccSetup, AccSetupFails, AccCallback, AccHandoff, AccRelink, Crash, netVars, drsVars
<1>2. AccAdd \/ AccNap \/ AccFault \/ AccCancelled => UNCHANGED <<rx, peer, drsTodo, drsPc>>
  BY DEF AccAdd, AccNap, AccFault, AccCancelled, Crash, netVars, drsVars
<1>3. ASSUME NEW c \in Clients, Accept(c) PROVE UNCHANGED <<rx, peer, drsTodo, drsPc>>
  BY <1>3 DEF Accept, drsVars
<1> QED BY <1>1, <1>2, <1>3 DEF AccStep

LEMMA ClientUndisturbed == ASSUME TInv, NEW c \in Clients, ClientStep(c) PROVE Undisturbed
<1>0. rx \in [Clients -> Nat] /\ peer \in [Clients -> {"up", "closed", "reset"}]
  BY DEF TInv, TypeOK
<1>1. CASE Connect(c)
  BY <1>1 DEF Connect, Undisturbed, Readable, drsVars
<1>2. CASE Send(c)
  BY <1>0, <1>2 DEF Send, Undisturbed, Readable, drsVars
<1>3. CASE Hangup(c)
  BY <1>0, <1>3 DEF Hangup, Undisturbed, Readable, drsVars
<1> QED BY <1>1, <1>2, <1>3 DEF ClientStep

LEMMA DrsReady == ASSUME TInv, CInv, Once, Ready, NEW d \in Drs, DrsStep(d) PROVE Ready'
<1>0. /\ drsPc \in [Drs -> DrsPcs] /\ drsTodo = [e \in Drs |-> drsTodo[e]]
      /\ \A e \in Drs : DOMAIN drsTodo[e] \subseteq Nat /\ Range(drsTodo[e]) \subseteq Clients
  BY DEF TInv, TypeOK
<1>1. CASE DrsStart(d) \/ DrsCopy(d) \/ DrsPrep(d) \/ DrsEof(d) \/ DrsFault(d)
  <2>1. UNCHANGED <<rx, peer, drsTodo>>
    BY <1>1 DEF DrsStart, DrsCopy, DrsPrep, DrsEof, DrsFault, Crash, netVars, drsVars
  <2>2. \/ UNCHANGED drsPc
        \/ drsPc' = [drsPc EXCEPT ![d] = "copy"] \/ drsPc' = [drsPc EXCEPT ![d] = "prep"]
        \/ drsPc' = [drsPc EXCEPT ![d] = "select"]
        \/ drsPc[d] = "eof" /\ drsPc' = [drsPc EXCEPT ![d] = "deliver"]
    BY <1>1 DEF DrsStart, DrsCopy, DrsPrep, DrsEof, DrsFault, Crash, DrsAt, DrsGoto, drsVars
  <2>3. Undisturbed
    BY <1>0, <2>1, <2>2 DEF Undisturbed, Readable
  <2> QED BY <2>3, UndisturbedReady
<1>2. ASSUME drsPc[d] # "free", NEW p \in DrsPcs, DrsGoto(d, p),
             p \in {"recv", "eof", "deliver"} =>
               /\ IsInjective(drsTodo'[d])
               /\ \A i \in DOMAIN drsTodo'[d] :
                    i # Min(DOMAIN drsTodo'[d]) \/ p = "recv" => rx'[drsTodo'[d][i]] > 0 \/ peer'[drsTodo'[d][i]] # "up"
      PROVE  Ready'
  <2>1. \A e \in Drs \ {d} : drsPc'[e] = "free"
    BY <1>0, <1>2 DEF DrsGoto, CInv, Handle, Named
  <2>2. drsPc'[d] = p
    BY <1>0, <1>2 DEF DrsGoto
  <2> QED BY <1>2, <2>1, <2>2 DEF Ready, Readable
<1>3. CASE DrsSelect(d)
  <2> DEFINE list == mgrList[drsMgr[d]]
             ready == {i \in DOMAIN list : list[i] \in mgrFds[drsMgr[d]] /\ Readable(list[i])}
             visits == [i \in ready |-> list[i]]
  <2>1. /\ drsPc[d] = "select" /\ DrsGoto(d, "recv") /\ drsMgr[d] \in Managers /\ UNCHANGED <<rx, peer>>
        /\ drsTodo' = [drsTodo EXCEPT ![d] = visits]
    BY <1>3 DEF DrsSelect, DrsAt, LiveManager, netVars
  <2>2. IsInjective(list)
    BY <2>1 DEF Once, ListedOnce
  <2>3. IsInjective(visits) /\ \A i \in DOMAIN visits : Readable(visits[i])
    BY <2>2 DEF IsInjective
  <2> HIDE DEF visits
  <2>4. drsTodo'[d] = visits
    BY <1>0, <2>1
  <2> QED BY <1>2, <2>1, <2>3, <2>4 DEF Readable, DrsPcs
<1>4. CASE DrsRecv(d)
  <2> DEFINE todo == drsTodo[d]
             c == First(todo)
  <2>1. /\ drsPc[d] = "recv" /\ (DrsGoto(d, "deliver") \/ DrsGoto(d, "eof")) /\ UNCHANGED drsTodo
        /\ \/ \E n \in 1..rx[c] : rx' = [rx EXCEPT ![c] = @ - n] /\ UNCHANGED peer
           \/ UNCHANGED <<rx, peer>>
           \/ peer' = [peer EXCEPT ![c] = "closed"] /\ UNCHANGED rx
    BY <1>4 DEF DrsRecv, DrsAt
  <2>2. /\ IsInjective(todo) /\ \A i \in DOMAIN todo : Readable(todo[i])
        /\ c = todo[Min(DOMAIN todo)] /\ Min(DOMAIN todo) \in DOMAIN todo
    BY <1>0, <2>1, FirstIsOne DEF Ready, TInv, Visiting, First
  <2>3. rx \in [Clients -> Nat] /\ peer \in [Clients -> {"up", "closed", "reset"}] /\ \A i \in DOMAIN todo : todo[i] \in Clients
    BY <1>0 DEF TInv, TypeOK, Range
  <2>4. \A i \in DOMAIN todo : i # Min(DOMAIN todo) => todo[i] # c
    BY <2>2 DEF IsInjective
  <2> HIDE DEF todo, c
  <2>5. \A x \in Clients : x # c => rx'[x] = rx[x] /\ peer'[x] = peer[x]
    BY <2>1, <2>3
  <2>6. \A i \in DOMAIN todo : i # Min(DOMAIN todo) => rx'[todo[i]] > 0 \/ peer'[todo[i]] # "up"
    BY <2>2, <2>3, <2>4, <2>5 DEF Readable
  <2>7. drsTodo'[d] = todo
    BY <2>1 DEF todo
  <2> QED BY <1>2, <2>1, <2>2, <2>6, <2>7 DEF DrsPcs
<1>5. CASE DrsDeliver(d)
  <2> DEFINE todo == drsTodo[d]
             left == ButFirst(todo)
             p == IF DOMAIN left = {} THEN "select" ELSE "recv"
  <2>1. /\ drsPc[d] = "deliver" /\ DrsGoto(d, p) /\ UNCHANGED <<rx, peer>>
        /\ drsTodo' = [drsTodo EXCEPT ![d] = left]
    BY <1>5 DEF DrsDeliver, DrsAt, netVars
  <2>2. /\ IsInjective(todo)
        /\ \A i \in DOMAIN todo : i # Min(DOMAIN todo) => Readable(todo[i])
    BY <2>1 DEF Ready
  <2>3. DOMAIN left = DOMAIN todo \ {Min(DOMAIN todo)} /\ \A i \in DOMAIN left : left[i] = todo[i]
    BY DEF ButFirst, Restrict
  <2>4. IsInjective(left) /\ \A i \in DOMAIN left : Readable(left[i])
    BY <2>2, <2>3 DEF IsInjective
  <2>5. p \in DrsPcs
    BY DEF DrsPcs
  <2> HIDE DEF left, p
  <2>6. drsTodo'[d] = left
    BY <1>0, <2>1
  <2> QED BY <1>2, <2>1, <2>4, <2>5, <2>6 DEF Readable
<1>6. CASE DrsCancelled(d)
  BY <1>2, <1>6 DEF DrsCancelled, DrsPcs
<1> QED BY <1>1, <1>3, <1>4, <1>5, <1>6 DEF DrsStep

LEMMA ReadyStep == ASSUME TInv, CInv, Once, Ready, [Next]_vars PROVE Ready'
<1>1. UNCHANGED <<rx, peer, drsTodo, drsPc>> => Undisturbed
  BY DEF Undisturbed, Readable
<1>2. UNCHANGED vars => UNCHANGED <<rx, peer, drsTodo, drsPc>>
  BY DEF vars, netVars, drsVars
<1>3. Undisturbed => Ready'
  BY UndisturbedReady
<1> QED
  BY <1>1, <1>2, <1>3, CliUndisturbed, ThreadUndisturbed, AccUndisturbed, ClientUndisturbed,
     DrsReady
  DEF Next, Rest

\* recvfrom is only called on a socket that has data, its end or an error to
\* give, so one silent client never holds up the others.
THEOREM LoopNeverBlocks == ASSUME Patient PROVE Spec => []RecvNeverBlocks
<1>1. Init => Ready
  BY DEF Init, Ready
<1>2. PInv /\ [Next]_vars => PInv'
  BY PatientStep
<1>3. PInv /\ Ready /\ [Next]_vars => Ready'
  BY ReadyStep DEF PInv
<1>4. PInv /\ Ready => RecvNeverBlocks
  <2> SUFFICES ASSUME PInv, Ready, NEW d \in Drs, drsPc[d] = "recv" PROVE Readable(First(drsTodo[d]))
    BY DEF RecvNeverBlocks
  <2>1. DOMAIN drsTodo[d] \subseteq Nat /\ DOMAIN drsTodo[d] # {}
    BY DEF PInv, TInv, TypeOK, Visiting
  <2>2. Min(DOMAIN drsTodo[d]) \in DOMAIN drsTodo[d]
    BY <2>1, FirstIsOne
  <2> QED BY <2>2 DEF Ready, First
<1> QED BY <1>1, <1>2, <1>3, <1>4, PatientInit, PTL DEF Spec

(****************************************************************************)
(* No command makes a server that was started fail, if each command and     *)
(* each client finds the one before it done.                                *)
(****************************************************************************)
LEMMA HandlesHold ==
  ASSUME ~Overlap, PInv, "RUN" \in flags, NEW a \in Actors
  PROVE  /\ pc[a] \in {"cancel", "join"} => HandleFault(mgr[a]) = "none"
         /\ pc[a] \in {"forget", "relink", "create"} => LiveManager(mgr[a])
         /\ pc[a] = "create" => mgrThread[mgr[a]] # Nil
         /\ ~(pc["acc"] = "forget" /\ pc["cli"] = "forget")
<1>0. a \in {"cli", "acc"} /\ Nil \notin Managers /\ Nil \notin Drs /\ Fresh # Nil /\ Fresh \notin Drs
      /\ svc \in Managers \cup {Nil}
  BY NilAssumption, FreshAssumption DEF Actors, PInv, TInv, TypeOK
<1>1. Operator /\ Owner /\ Replaced /\ HandleValid /\ accObj # "fresh" /\ cut = {}
  BY DEF PInv, CInv, Handle, Operator
<1>2. pc[a] \in {"cancel", "join", "forget", "relink", "create"} => mgr[a] = svc /\ svc \in Managers /\ LiveManager(svc)
  BY <1>0, <1>1 DEF Operator, Owner, Aside, LiveManager, PInv, TInv, TypeOK, CliPcs
<1>3. pc[a] \in {"cancel", "join"} => mgrThread[svc] \in Drs /\ drsPc[mgrThread[svc]] # "free"
  BY <1>0, <1>1, <1>2 DEF Operator, Aside, HandleValid
<1>4. pc[a] \in {"cancel", "join"} => HandleFault(mgr[a]) = "none"
  BY <1>0, <1>2, <1>3 DEF HandleFault
<1>5. pc[a] = "create" => mgrThread[svc] = Fresh
  BY <1>0, <1>1 DEF Replaced
<1>6. ~(pc["acc"] = "forget" /\ pc["cli"] = "forget")
  BY <1>1 DEF Operator, Aside
<1> QED BY <1>0, <1>2, <1>4, <1>5, <1>6

\* What can make the process fail.
LEMMA FaultCauses ==
  ASSUME [Next]_vars, fate' \in Faults
  PROVE  \/ UNCHANGED vars
         \/ StartAgain \/ StopUnstarted \/ FreeFault \/ AccFault
         \/ (\E a \in Actors : StopFault(a)) \/ (\E d \in Drs : DrsFault(d))
<1>0. ~Up /\ ~(fate' = "stopped") /\ ~(fate' = "exit")
  BY DEF Up, fateVars, Faults
<1>1. CliStep => StartAgain \/ StopUnstarted \/ FreeFault
  BY <1>0
  DEF CliStep, Start, StopAccepting, AcceptorStopped, StartAccepting, StopListening, FreeManager,
      ListeningStopped, StartListening, CommandStarted, StopNoAcceptor, StopManager, Purge, Command,
      At
<1>2. ASSUME NEW a \in Actors, ThreadStep(a) PROVE StopFault(a)
  BY <1>0, <1>2 DEF ThreadStep, CancelDrs, JoinDrs, DrsJoined, ForgetDrs, CreateDrs, At
<1>3. AccStep => AccFault
  BY <1>0
  DEF AccStep, AccSetup, AccSetupFails, Accept, AccCallback, AccAdd, AccHandoff, AccRelink, AccNap,
      AccCancelled, Crash, At
<1>4. ASSUME NEW d \in Drs, DrsStep(d) PROVE DrsFault(d)
  BY <1>0, <1>4
  DEF DrsStep, DrsStart, DrsCopy, DrsPrep, DrsSelect, DrsRecv, DrsEof, DrsDeliver, DrsCancelled,
      DrsAt
<1>5. ASSUME NEW c \in Clients PROVE ~ClientStep(c)
  BY <1>0 DEF ClientStep, Connect, Send, Hangup
<1> QED BY <1>1, <1>2, <1>3, <1>4, <1>5 DEF Next, Rest

LEMMA FaultStep == ASSUME ~Overlap, PInv, OrderlySafe, [Next]_vars PROVE OrderlySafe'
<1> SUFFICES ASSUME fate' \in Faults \ {"null_acceptor"}, "RUN" \in flags' PROVE FALSE
  BY DEF OrderlySafe
<1>0. /\ svc \in Managers \cup {Nil} /\ mgrList \in [Managers -> Seq(Clients)]
      /\ accObj # "fresh" \/ "RUN" \notin flags
      /\ Operator /\ Owner /\ Named /\ Replaced
  BY DEF PInv, CInv, Handle, TInv, TypeOK, Operator
<1>1. ~UNCHANGED vars
  BY DEF OrderlySafe, vars, fateVars
<1>2. ~StartAgain
  BY DEF StartAgain, Crash, Faults
<1>3. ~StopUnstarted
  BY <1>0 DEF StopUnstarted, Crash
<1>4. ASSUME FreeFault PROVE FALSE
  <2>1. pc["cli"] = "free" /\ mgr["cli"] = svc /\ svc \in Managers /\ mgrThread[svc] = Nil
    BY <1>0, <1>4 DEF FreeFault, Owner, Replaced
  <2>2. IsInjective(mgrList[svc])
    BY <2>1 DEF PInv, Once, ListedOnce
  <2>3. DOMAIN mgrList[svc] \subseteq Int
    BY <1>0, <2>1, ElementsOfSeq
  <2>4. IteratorSurvives(mgrList[svc])
    BY <2>2, <2>3 DEF IteratorSurvives, IsInjective
  <2> QED BY <1>4, <2>1, <2>4 DEF FreeFault
<1>5. ASSUME NEW a \in Actors, StopFault(a) PROVE FALSE
  <2>1. "RUN" \in flags
    BY <1>5 DEF StopFault, Crash
  <2>2. "cli" \in Actors /\ "acc" \in Actors
    BY DEF Actors
  <2> QED BY <1>5, <2>1, <2>2, HandlesHold DEF StopFault
<1>6. ASSUME AccFault PROVE FALSE
  <2>1. "RUN" \in flags /\ pc["acc"] \in {"handoff", "relink"} /\ "acc" \in Actors
    BY <1>6 DEF AccFault, Crash, Actors
  <2>2. pc["acc"] = "relink" => LiveManager(mgr["acc"])
    BY <2>1, HandlesHold
  <2>3. svc # Nil
    BY <1>0, <2>1 DEF Operator, Owner, Aside
  <2> QED BY <1>6, <2>2, <2>3 DEF AccFault
<1>7. ASSUME NEW d \in Drs, DrsFault(d) PROVE FALSE
  <2>1. drsPc[d] # "free" /\ drsMgr[d] = svc /\ svc \in Managers /\ ~AllFree
    BY <1>0, <1>7 DEF DrsFault, Live, Named, AllFree
  <2>2. pc["cli"] # "clear"
    BY <1>0, <2>1 DEF Replaced
  <2> QED BY <1>0, <1>7, <2>1, <2>2 DEF DrsFault, Owner, LiveManager
<1> QED BY <1>1, <1>2, <1>3, <1>4, <1>5, <1>6, <1>7, FaultCauses

\* Once start has finished, no sequence of commands and no client crashes a
\* server that does one thing at a time, but for a start without acceptor.
THEOREM OrderlyIsSafe == ASSUME ~Overlap, Patient PROVE Spec => []OrderlySafe
<1>1. Init => OrderlySafe
  BY DEF Init, OrderlySafe
<1>2. PInv /\ [Next]_vars => PInv'
  BY PatientStep
<1>3. PInv /\ OrderlySafe /\ [Next]_vars => OrderlySafe'
  BY FaultStep
<1> QED BY <1>1, <1>2, <1>3, PatientInit, PTL DEF Spec

(****************************************************************************)
(* What is stored is served: the list of the manager falls behind the       *)
(* database by the client being handed over and no other, and the set of    *)
(* descriptors a receive thread polls is made from the list as it starts.   *)
(****************************************************************************)
Listing == IF Unlisted THEN {accClient} ELSE {}
Comparable == cut = {} /\ svc # Nil /\ pc["cli"] # "clear" /\ fate # "stopped" /\ ~Filling
Listed == Comparable => Range(db) = Range(mgrList[svc]) \cup Listing
Polled ==
  \A d \in Drs : drsPc[d] \in {"select", "recv", "eof", "deliver"} => mgrFds[drsMgr[d]] = Range(mgrList[drsMgr[d]])

LEMMA CliListed == ASSUME Patient, TInv, CInv, Listed, CliStep PROVE Listed'
<1>0. /\ pc \in [Actors -> CliPcs \cup AccPcs] /\ "cli" \in Actors /\ "acc" \in Actors
      /\ svc \in Managers \cup {Nil} /\ Nil \notin Managers /\ mgrList \in [Managers -> Seq(Clients)]
  BY NilAssumption DEF TInv, TypeOK, Actors
<1>1. Start \/ StartAccepting => Listed'
  BY <1>0
  DEF CInv, Operator, Listed, Comparable, Listing, Filling, Unlisted, Start, StartAccepting,
      Command, At, Up, Goto, fateVars, mgrVars, drsVars, accVars
<1>2. ASSUME NEW op \in {"stop_acc", "stop"}, StopAccepting(op) PROVE Listed'
  BY <1>0, <1>2
  DEF CInv, Operator, Listed, Comparable, Listing, Filling, Unlisted, StopAccepting, Command, At,
      Up, Goto, mgrVars
<1>3. AcceptorStopped => Listed'
  BY <1>0
  DEF CInv, Operator, Listed, Comparable, Listing, Filling, Unlisted, AcceptorStopped, At, Up,
      mgrVars
<1>4. StopListening \/ StopNoAcceptor \/ StopManager => Listed'
  BY <1>0
  DEF CInv, Operator, Listed, Comparable, Listing, Filling, Unlisted, StopListening, StopNoAcceptor,
      StopManager, Command, At, Up, Goto, mgrVars, accVars
<1>5. FreeManager \/ ListeningStopped \/ Purge => Listed'
  BY <1>0 DEF Comparable, Listed, FreeManager, ListeningStopped, Purge, Goto
<1>6. StartListening => Listed'
  BY <1>0 DEF Comparable, Listed, Filling, StartListening, Goto
<1>7. CommandStarted => Listed'
  BY <1>0
  DEF Patient, NoRestart, CInv, Operator, Listed, Comparable, Listing, Filling, Unlisted,
      CommandStarted, Started, At, Up, Goto, mgrVars, accVars
<1>8. StartAgain \/ StopUnstarted \/ FreeFault => Listed'
  BY
  DEF Comparable, Listed, Listing, Filling, Unlisted, StartAgain, StopUnstarted, FreeFault, Crash,
      threadVars, accVars, mgrVars, drsVars
<1> QED BY <1>1, <1>2, <1>3, <1>4, <1>5, <1>6, <1>7, <1>8 DEF CliStep

LEMMA ThreadListed == ASSUME TInv, CInv, Listed, NEW a \in Actors, ThreadStep(a) PROVE Listed'
<1>0. /\ pc \in [Actors -> CliPcs \cup AccPcs] /\ "cli" \in Actors /\ "acc" \in Actors /\ a \in {"cli", "acc"}
      /\ drsPc \in [Drs -> DrsPcs]
  BY DEF TInv, TypeOK, Actors
<1>1. CancelDrs(a) \/ JoinDrs(a) => Listed'
  BY <1>0
  DEF Listed, Comparable, Listing, Filling, Unlisted, CancelDrs, JoinDrs, At, Up, Goto, mgrVars,
      accVars
<1>2. DrsJoined(a) => Listed'
  BY <1>0 DEF Listed, Comparable, Listing, Filling, Unlisted, DrsJoined, At, Up, Goto, mgrVars, accVars
<1>3. ForgetDrs(a) => Listed'
  BY <1>0 DEF Listed, Comparable, Listing, Filling, Unlisted, ForgetDrs, At, Up, Goto, drsVars, accVars
<1>4. CreateDrs(a) => Listed'
  BY <1>0 DEF Listed, Comparable, Listing, Filling, Unlisted, CreateDrs, At, Up, Goto, accVars
<1>5. StopFault(a) => Listed'
  BY
  DEF Comparable, Listed, Listing, Filling, Unlisted, StopFault, Crash, threadVars, accVars,
      mgrVars, drsVars
<1> QED BY <1>1, <1>2, <1>3, <1>4, <1>5 DEF ThreadStep

LEMMA AccListed == ASSUME TInv, CInv, Listed, AccStep PROVE Listed'
<1>0. /\ pc \in [Actors -> CliPcs \cup AccPcs] /\ "cli" \in Actors /\ "acc" \in Actors
      /\ mgrList \in [Managers -> Seq(Clients)] /\ db \in Seq(Clients)
  BY DEF TInv, TypeOK, Actors
<1>1. AccSetup \/ AccCallback \/ AccHandoff \/ AccNap => Listed'
  BY <1>0
  DEF Listed, Comparable, Listing, Filling, Unlisted, AccSetup, AccCallback, AccHandoff, AccNap, At,
      Up, Goto, fateVars, mgrVars, drsVars, accVars
<1>2. ASSUME NEW c \in Clients, Accept(c) PROVE Listed'
  BY <1>0, <1>2 DEF Listed, Comparable, Listing, Filling, Unlisted, Accept, At, Up, Goto, mgrVars, drsVars
<1>3. CASE AccAdd
  <2>1. /\ db' = Append(db, accClient) /\ accClient \in Clients /\ pc["acc"] = "add" /\ Goto("acc", "handoff")
        /\ UNCHANGED <<fateVars, cliOp, accClient, svc, mgrList, drsPc, cut>>
    BY <1>3 DEF AccAdd, At, Up, mgrVars, drsVars, accVars, TInv, TypeOK, Handing, HandingOver
  <2>2. Range(db') = Range(db) \cup {accClient}
    BY <1>0, <2>1, RangeOfAppend
  <2>3. Comparable' => Comparable
    BY <1>0, <2>1 DEF Comparable, Filling, Goto, fateVars
  <2> QED BY <1>0, <2>1, <2>2, <2>3 DEF Listed, Listing, Unlisted, Goto
<1>4. CASE AccRelink
  <2>1. /\ mgr["acc"] = svc /\ svc \in Managers /\ mgrList' = [mgrList EXCEPT ![svc] = Append(mgrList[svc], accClient)]
        /\ accClient \in Clients /\ pc["acc"] = "relink" /\ Goto("acc", "create")
        /\ UNCHANGED <<fateVars, cliOp, accClient, svc, db, drsPc, cut>>
    BY <1>4
    DEF AccRelink, At, Up, LiveManager, CInv, Owner, drsVars, accVars, TInv, TypeOK, Handing,
        HandingOver
  <2>2. Range(mgrList'[svc]) = Range(mgrList[svc]) \cup {accClient}
    <3>1. mgrList'[svc] = Append(mgrList[svc], accClient)
      BY <1>0, <2>1
    <3> QED BY <1>0, <2>1, <3>1, RangeOfAppend
  <2>3. Comparable' => Comparable
    BY <1>0, <2>1 DEF Comparable, Filling, Goto, fateVars
  <2> QED BY <1>0, <2>1, <2>2, <2>3 DEF Listed, Listing, Unlisted, Goto
<1>5. CASE AccCancelled
  <2>1. pc["acc"] \in {"callback", "joining", "relink"} => cut' # {}
    BY <1>5 DEF AccCancelled
  <2>2. pc["acc"] \in {"accept", "nap"} => cut' = cut /\ ~Unlisted
    BY <1>5 DEF AccCancelled, Unlisted
  <2>3. ~Unlisted'
    BY <1>0, <1>5 DEF AccCancelled, Goto, Unlisted
  <2>4. UNCHANGED <<fate, cliOp, svc, mgrList, db, drsPc>> /\ pc'["cli"] = pc["cli"]
    BY <1>0, <1>5 DEF AccCancelled, Goto, Up, fateVars, mgrVars
  <2> QED BY <1>5, <2>1, <2>2, <2>3, <2>4 DEF AccCancelled, Listed, Listing, Comparable, Filling
<1>6. AccSetupFails \/ AccFault => Listed'
  BY
  DEF Comparable, Listed, Listing, Filling, Unlisted, AccSetupFails, AccFault, Crash, threadVars,
      accVars, mgrVars, drsVars
<1> QED BY <1>1, <1>2, <1>3, <1>4, <1>5, <1>6 DEF AccStep

LEMMA DrsListed == ASSUME PInv, Listed, NEW d \in Drs, DrsStep(d) PROVE Listed'
<1>0. drsPc \in [Drs -> DrsPcs] /\ mgrList \in [Managers -> Seq(Clients)] /\ db \in Seq(Clients)
  BY DEF PInv, TInv, TypeOK
<1>1. CASE DrsCopy(d)
  <2>1. cliOp = "start_svc" /\ drsMgr[d] = svc /\ svc \in Managers /\ mgrList[svc] = <<>>
    BY <1>1 DEF DrsCopy, DrsAt, LiveManager, PInv, Copies, Filling, CInv, Handle, Named
  <2>2. Aside
    BY <2>1 DEF PInv, CInv, Operator
  <2>3. mgrList' = [mgrList EXCEPT ![svc] = db] /\ UNCHANGED <<db, pc, svc, accClient>>
    BY <1>0, <1>1, <2>1, EmptyConcat DEF DrsCopy, threadVars, accVars
  <2> QED BY <1>0, <2>1, <2>2, <2>3 DEF Listed, Listing, Unlisted, Aside
<1>2. CASE ~DrsCopy(d)
  <2>1. UNCHANGED <<db, mgrList>>
    BY <1>2, DrsQuiet DEF Quiet, DrsLoud, DrsPrep, DrsSelect, DrsDeliver, DrsCancelled, mgrVars
  <2>2. UNCHANGED <<pc, cliOp, svc, accClient, cut>> /\ (fate # "stopped" \/ UNCHANGED fate)
    BY DrsRuns DEF Runs, DrsFault, Crash, threadVars, accVars, mgrVars, fateVars
  <2>3. Filling => Filling'
    <3>1. \A e \in Drs : drsPc[e] \in {"start", "copy"} => cliOp # "start_svc" \/ drsPc'[e] \in {"start", "copy"}
      <4>1. ASSUME DrsStart(d), cliOp = "start_svc" PROVE DrsGoto(d, "copy")
        BY <4>1 DEF DrsStart, PInv, CInv, Owner
      <4>2. DrsPrep(d) \/ DrsSelect(d) \/ DrsRecv(d) \/ DrsEof(d) \/ DrsDeliver(d) \/ DrsCancelled(d) =>
              drsPc[d] \notin {"start", "copy"} /\ \E p : DrsGoto(d, p)
        BY DEF DrsPrep, DrsSelect, DrsRecv, DrsEof, DrsDeliver, DrsCancelled, DrsAt
      <4>3. DrsFault(d) => UNCHANGED drsPc
        BY DEF DrsFault, Crash, drsVars
      <4>4. DrsStart(d) => \E p : DrsGoto(d, p)
        BY DEF DrsStart
      <4> QED BY <1>0, <1>2, <4>1, <4>2, <4>3, <4>4 DEF DrsStep, DrsGoto
    <3> QED BY <2>2, <3>1 DEF Filling
  <2> QED BY <2>1, <2>2, <2>3 DEF Listed, Comparable, Listing, Unlisted
<1> QED BY <1>1, <1>2

LEMMA ListedStep == ASSUME Patient, PInv, Listed, [Next]_vars PROVE Listed'
<1>1. UNCHANGED <<fateVars, threadVars, accVars, mgrVars, drsVars, db, cut>> => Listed'
  BY DEF Listed, Comparable, Listing, Filling, Unlisted, fateVars, threadVars, accVars, mgrVars, drsVars
<1>2. ASSUME NEW c \in Clients, ClientStep(c) PROVE Listed'
  BY <1>1, <1>2 DEF ClientStep, Connect, Send, Hangup, Up
<1>3. UNCHANGED vars => Listed'
  BY <1>1 DEF vars
<1> QED BY <1>2, <1>3, CliListed, ThreadListed, AccListed, DrsListed DEF Next, Rest, PInv

\* A receive thread comes to the loop through DrsPrep and stays its manager's.
LEMMA LoopEntered ==
  ASSUME TInv, [Next]_vars, NEW d \in Drs, drsPc'[d] \in LoopPcs
  PROVE  DrsPrep(d) \/ (drsPc[d] \in LoopPcs /\ drsMgr'[d] = drsMgr[d])
<1> DEFINE Stays == drsPc[d] \in LoopPcs /\ drsMgr'[d] = drsMgr[d]
<1>0. drsPc \in [Drs -> DrsPcs] /\ drsMgr \in [Drs -> Managers \cup {Nil}]
  BY DEF TInv, TypeOK
<1>1. CASE UNCHANGED <<drsPc, drsMgr>>
  BY <1>1
<1>2. CliStep => UNCHANGED <<drsPc, drsMgr>>
  <2>1. Start \/ StartAgain \/ StopUnstarted \/ StartAccepting \/ StopListening => UNCHANGED <<drsPc, drsMgr>>
    BY DEF Start, StartAgain, StopUnstarted, StartAccepting, StopListening, Crash, drsVars
  <2>2. ASSUME NEW op \in {"stop_acc", "stop"}, StopAccepting(op) PROVE UNCHANGED <<drsPc, drsMgr>>
    BY <2>2 DEF StopAccepting, drsVars
  <2>3. FreeFault \/ ListeningStopped \/ CommandStarted \/ StopNoAcceptor \/ StopManager => UNCHANGED <<drsPc, drsMgr>>
    BY DEF FreeFault, ListeningStopped, CommandStarted, StopNoAcceptor, StopManager, Crash, drsVars
  <2>4. AcceptorStopped \/ FreeManager \/ StartListening \/ Purge => UNCHANGED <<drsPc, drsMgr>>
    BY DEF AcceptorStopped, FreeManager, StartListening, Purge, drsVars
  <2> QED BY <2>1, <2>2, <2>3, <2>4 DEF CliStep
<1>3. AccStep => UNCHANGED <<drsPc, drsMgr>>
  BY
  DEF AccStep, AccSetup, AccSetupFails, Accept, AccCallback, AccAdd, AccHandoff, AccRelink, AccNap,
      AccFault, AccCancelled, Crash, drsVars
<1>4. ASSUME NEW a \in Actors, ThreadStep(a) PROVE Stays
  <2>1. CancelDrs(a) \/ JoinDrs(a) \/ ForgetDrs(a) \/ StopFault(a) => UNCHANGED <<drsPc, drsMgr>>
    BY DEF CancelDrs, JoinDrs, ForgetDrs, StopFault, Crash, drsVars
  <2>2. DrsJoined(a) \/ CreateDrs(a) => Stays
    BY <1>0 DEF DrsJoined, CreateDrs, LoopPcs
  <2> QED BY <1>4, <2>1, <2>2 DEF ThreadStep
<1>5. ASSUME NEW e \in Drs, DrsStep(e) PROVE DrsPrep(d) \/ Stays
  <2>1. drsMgr' = drsMgr
    BY <1>5, DrsRuns DEF Runs, DrsFault, Crash, drsVars
  <2>2. DrsStart(e) \/ DrsCopy(e) \/ DrsCancelled(e) => drsPc[d] \in LoopPcs
    BY <1>0 DEF DrsStart, DrsCopy, DrsCancelled, DrsGoto, LoopPcs
  <2>3. DrsPrep(e) => DrsPrep(d) \/ drsPc[d] \in LoopPcs
    BY <1>0 DEF DrsPrep, DrsGoto, LoopPcs
  <2>4. DrsSelect(e) \/ DrsRecv(e) \/ DrsEof(e) \/ DrsDeliver(e) => drsPc[d] \in LoopPcs
    BY <1>0 DEF DrsSelect, DrsRecv, DrsEof, DrsDeliver, DrsAt, DrsGoto, LoopPcs
  <2>5. DrsFault(e) => drsPc[d] \in LoopPcs
    BY DEF DrsFault, Crash, drsVars
  <2> QED BY <1>5, <2>1, <2>2, <2>3, <2>4, <2>5 DEF DrsStep
<1>6. ASSUME NEW c \in Clients, ClientStep(c) PROVE UNCHANGED <<drsPc, drsMgr>>
  BY <1>6 DEF ClientStep, Connect, Send, Hangup, drsVars
<1>7. UNCHANGED vars => UNCHANGED <<drsPc, drsMgr>>
  BY DEF vars, drsVars
<1> QED BY <1>1, <1>2, <1>3, <1>4, <1>5, <1>6, <1>7 DEF Next, Rest

LEMMA PolledStep == ASSUME TInv, CInv, Polled, [Next]_vars PROVE Polled'
<1> SUFFICES ASSUME NEW d \in Drs, drsPc'[d] \in LoopPcs
             PROVE  mgrFds'[drsMgr'[d]] = Range(mgrList'[drsMgr'[d]])
  BY DEF Polled, LoopPcs
<1>1. CASE DrsPrep(d)
  <2>1. /\ drsMgr[d] \in Managers /\ UNCHANGED <<drsMgr, mgrList>>
        /\ mgrFds' = [mgrFds EXCEPT ![drsMgr[d]] = Range(mgrList[drsMgr[d]])]
    BY <1>1 DEF DrsPrep, DrsAt, LiveManager
  <2> QED BY <2>1 DEF TInv, TypeOK
<1>2. CASE drsPc[d] \in LoopPcs /\ drsMgr'[d] = drsMgr[d]
  BY <1>2, StableStep DEF Polled, LoopPcs
<1> QED BY <1>1, <1>2, LoopEntered

\* When no command runs and no client is being taken in, a running server
\* that listens polls and serves exactly the clients it stores, on a thread
\* that is not about to end, unless a handoff was ever cut by a cancel.
THEOREM AllAreServed == ASSUME Patient PROVE Spec => []AllServed
<1>1. Init => Listed /\ Polled
  <2> SUFFICES ASSUME Init PROVE Listed /\ Polled
    OBVIOUS
  <2>1. /\ db = <<>> /\ pc["acc"] = "none" /\ \A m \in Managers : mgrList[m] = <<>>
        /\ svc \in Managers /\ \A d \in Drs : drsPc[d] = "free"
    BY DEF Init, Actors
  <2> QED BY <2>1 DEF Listed, Listing, Unlisted, Polled
<1>2. PInv /\ [Next]_vars => PInv'
  BY PatientStep
<1>3. PInv /\ Listed /\ [Next]_vars => Listed'
  BY ListedStep
<1>4. PInv /\ Polled /\ [Next]_vars => Polled'
  BY PolledStep DEF PInv
<1>5. PInv /\ Listed /\ Polled => AllServed
  <2> SUFFICES ASSUME PInv, Listed, Polled, Settled, cut = {} PROVE ServesAll
    BY DEF AllServed
  <2>1. /\ fate = "up" /\ pc["cli"] = "idle" /\ "RUN" \in flags /\ "NLIS" \notin flags
        /\ pc["acc"] \in {"none", "setup", "accept", "done"}
    BY DEF Settled, HandingOver
  <2>2. cliOp = "none" /\ svc # Nil /\ svc \in Managers /\ accObj # "fresh"
    BY <2>1 DEF PInv, CInv, Operator, Owner, TInv, TypeOK
  <2>3. Range(mgrList[svc]) = Range(db)
    BY <2>1, <2>2 DEF Listed, Comparable, Listing, Filling, Unlisted
  <2>4. PICK d \in Drs : mgrThread[svc] = d /\ drsPc[d] # "free"
    BY <2>1, <2>2 DEF PInv, CInv, Handle, HandleValid
  <2>5. drsMgr[d] = svc /\ ~drsCancel[d] /\ drsPc[d] # "done"
    BY <2>1, <2>4 DEF PInv, CInv, Handle, Named, Awaited
  <2>6. Started(d) => drsPc[d] \in LoopPcs
    BY <2>4, <2>5 DEF Started, LoopPcs, PInv, TInv, TypeOK, DrsPcs
  <2>7. Started(d) => mgrFds[svc] = Range(db)
    BY <2>3, <2>5, <2>6 DEF Polled, LoopPcs
  <2> QED BY <2>2, <2>3, <2>4, <2>5, <2>7 DEF ServesAll, Live
<1> QED BY <1>1, <1>2, <1>3, <1>4, <1>5, PatientInit, PTL DEF Spec
=================================================================================
