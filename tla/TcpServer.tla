------------------------------- MODULE TcpServer -------------------------------
(****************************************************************************)
(* One tcp_server_controller with its three parts and its three threads:    *)
(*   "cli"  the main thread, which runs the operator's commands;            *)
(*   "acc"  the accept thread of tcp_new_connection_acceptor (CAS);         *)
(*   Drs    the receive threads of tcp_client_service_manager (DRS), one    *)
(*          identity per pthread: every new client cancels, joins and       *)
(*          re-creates the thread.                                          *)
(* An action is the code of one thread between two points at which another  *)
(* thread can see or disturb it: a system call that blocks, a cancellation  *)
(* point, a read or a write of an object the threads share.                 *)
(* Memory errors (a null or freed object, a pthread handle that names no    *)
(* thread) end the execution: fate records which one, culprit the thread.   *)
(****************************************************************************)
EXTENDS Integers, Sequences, FiniteSetsExt

CONSTANTS Clients,   \* TCP clients, each of which connects at most once
          Managers,  \* tcp_client_service_manager objects
          Drs,       \* pthreads that run the DRS loop
          Commands,  \* the operator commands of this instance
          MaxMsgs,   \* messages one client sends at most
          Overlap,   \* commands are given, and clients connect, at any moment
          Prompt,    \* sleep(1) outlasts the start of the thread just created
          Nil,       \* the null pointer
          Fresh      \* a pthread_t that pthread_create has not written yet

AllCommands == {"start", "stop_acc", "start_acc", "stop_svc", "start_svc", "stop"}

ASSUME CommandsAssumption == Commands \subseteq AllCommands
ASSUME MaxMsgsAssumption == MaxMsgs \in Nat
ASSUME SchedulingAssumption == Overlap \in BOOLEAN /\ Prompt \in BOOLEAN
ASSUME NilAssumption == Nil \notin Clients \cup Managers \cup Drs
ASSUME FreshAssumption == Fresh \notin Drs /\ Fresh # Nil

VARIABLES
  fate, culprit,     \* how the process stands, and the thread that ended it
  flags,             \* state_flags: RUN, NACC (not accepting), NLIS (not listening)
  pc, mgr,           \* of "cli" and "acc": next step, and `this` of a manager's method
  cliOp,             \* the command "cli" is running
  accObj,            \* tcp_new_con_acc: null, constructed, or with its thread
  accCancel,         \* a pthread_cancel is pending on the accept thread
  accClient,         \* tcp_clnt of the accept loop
  svc,               \* tcp_cl_svc_mgr
  mgrState,          \* a manager's memory: unborn, live or freed
  mgrThread,         \* client_svc_mgr_thread
  mgrList,           \* tcp_client_db of a manager
  mgrFds,            \* backup_fd_set
  drsPc, drsCancel, drsMgr,
  drsJoin,           \* joinid of the pthread: who is waiting in pthread_join
  drsTodo,           \* ready clients the loop has yet to visit, by place in the list
  drsGot,            \* rcv_bytes
  db,                \* tcp_client_db of the database manager
  sock, peer, rx,    \* each client's connection: stage, far end, unread messages
  sent,              \* messages sent by each client
  told,              \* clients announced by client_connected
  dlv,               \* messages given to client_msg_recvd
  cut                \* clients in hand when the accept thread was cancelled

fateVars == <<fate, culprit>>
threadVars == <<pc, mgr, cliOp>>
accVars == <<accObj, accCancel, accClient>>
mgrVars == <<svc, mgrState, mgrThread, mgrList, mgrFds>>
drsVars == <<drsPc, drsCancel, drsMgr, drsJoin, drsTodo, drsGot>>
netVars == <<sock, peer, rx, sent>>
appVars == <<told, dlv>>
vars == <<fateVars, flags, threadVars, accVars, mgrVars, drsVars, db, netVars, appVars, cut>>

Actors == {"cli", "acc"}
CliPcs == {"idle", "acc_join", "svc", "cancel", "join", "joining", "forget",
           "free", "clear", "create", "nap", "purge"}
AccPcs == {"none", "setup", "accept", "callback", "add", "handoff", "cancel", "join",
           "joining", "forget", "relink", "create", "nap", "done"}
DrsPcs == {"free", "start", "copy", "prep", "select", "recv", "eof", "deliver", "done"}
Faults == {"null_acceptor", "null_manager", "freed_manager", "null_thread",
           "bad_thread", "double_free", "assert_thread", "dangling_iterator"}

First(f) == f[Min(DOMAIN f)]
ButFirst(f) == Restrict(f, DOMAIN f \ {Min(DOMAIN f)})
Live(d) == drsPc[d] \notin {"free", "done"}
Listening == pc["acc"] \notin {"none", "setup"}
HandingOver == pc["acc"] \notin {"none", "setup", "accept", "done"}
LiveManager(m) == m \in Managers /\ mgrState[m] = "live"
Started(d) == drsPc[d] \notin {"start", "copy", "prep"}

Up == fate = "up" /\ UNCHANGED fateVars
Goto(a, p) == pc' = [pc EXCEPT ![a] = p]
At(a, p) == Up /\ pc[a] = p
Crash(a, why) ==
  /\ fate' = why /\ culprit' = a
  /\ UNCHANGED <<flags, threadVars, accVars, mgrVars, drsVars, db, netVars, appVars, cut>>

Command(op) == op \in Commands /\ At("cli", "idle")
DrsAt(d, p) == Up /\ drsPc[d] = p /\ LiveManager(drsMgr[d])
DrsGoto(d, p) == drsPc' = [drsPc EXCEPT ![d] = p]

\* recvfrom on c returns without blocking.
Readable(c) == rx[c] > 0 \/ peer[c] # "up"

Init ==
  /\ fate = "up" /\ culprit = "none" /\ flags = {}
  /\ pc = [a \in Actors |-> IF a = "cli" THEN "idle" ELSE "none"]
  /\ mgr = [a \in Actors |-> Nil]
  /\ cliOp = "none"
  /\ accObj = "fresh" /\ accCancel = FALSE /\ accClient = Nil
  /\ svc \in Managers
  /\ mgrState = [m \in Managers |-> IF m = svc THEN "live" ELSE "unborn"]
  /\ mgrThread = [m \in Managers |-> Fresh]
  /\ mgrList = [m \in Managers |-> <<>>]
  /\ mgrFds = [m \in Managers |-> {}]
  /\ drsPc = [d \in Drs |-> "free"]
  /\ drsCancel = [d \in Drs |-> FALSE]
  /\ drsMgr = [d \in Drs |-> Nil]
  /\ drsJoin = [d \in Drs |-> "none"]
  /\ drsTodo = [d \in Drs |-> <<>>]
  /\ drsGot = [d \in Drs |-> 0]
  /\ db = <<>>
  /\ sock = [c \in Clients |-> "away"]
  /\ peer = [c \in Clients |-> "up"]
  /\ rx = [c \in Clients |-> 0]
  /\ sent = [c \in Clients |-> 0]
  /\ told = {}
  /\ dlv = [c \in Clients |-> 0]
  /\ cut = {}

(****************************************************************************)
(* Faulty variants of some actions, each with a mistake that is easy to     *)
(* make there.  They are no part of the specification: they show that the   *)
(* properties below tell the code from its near misses.                     *)
(****************************************************************************)

\* JoinDrs without pthread_join.
JoinSkipped(a) ==
  /\ At(a, "join") /\ Goto(a, "forget")
  /\ UNCHANGED <<flags, mgr, cliOp, accVars, mgrVars, drsVars, db, netVars, appVars, cut>>

\* ListeningStopped without the flag.
FlagForgotten ==
  /\ At("cli", "clear")
  /\ svc' = Nil /\ UNCHANGED flags
  /\ mgr' = [mgr EXCEPT !["cli"] = Nil]
  /\ Goto("cli", IF cliOp = "stop" THEN "purge" ELSE "idle")
  /\ cliOp' = IF cliOp = "stop" THEN "stop" ELSE "none"
  /\ UNCHANGED <<accVars, mgrState, mgrThread, mgrList, mgrFds, drsVars, db, netVars, appVars, cut>>

\* Purge that frees the clients and leaves their sockets open.
SocketsForgotten ==
  /\ fate = "up" /\ pc["cli"] = "purge"
  /\ db' = <<>> /\ flags' = flags \ {"RUN"}
  /\ fate' = "stopped" /\ Goto("cli", "idle") /\ cliOp' = "none"
  /\ UNCHANGED <<culprit, mgr, accVars, mgrVars, drsVars, netVars, appVars, cut>>

\* Accept without client_connected.
AcceptSilent(c) ==
  /\ At("acc", "accept") /\ ~accCancel /\ sock[c] = "backlog"
  /\ sock' = [sock EXCEPT ![c] = "open"] /\ accClient' = c
  /\ Goto("acc", "callback")
  /\ UNCHANGED <<flags, mgr, cliOp, accObj, accCancel, mgrVars, drsVars, db, peer, rx, sent,
                 appVars, cut>>

\* AccAdd without add_client_to_db.
NotStored ==
  /\ At("acc", "add") /\ Goto("acc", "handoff")
  /\ UNCHANGED <<flags, mgr, cliOp, accVars, mgrVars, drsVars, db, netVars, appVars, cut>>

\* AccHandoff that lists the client before it stops the receive thread.
ListedEarly ==
  /\ At("acc", "handoff") /\ svc # Nil
  /\ mgrList' = [mgrList EXCEPT ![svc] = Append(@, accClient)]
  /\ mgr' = [mgr EXCEPT !["acc"] = svc] /\ Goto("acc", "cancel")
  /\ UNCHANGED <<flags, cliOp, accVars, svc, mgrState, mgrThread, mgrFds, drsVars, db, netVars,
                 appVars, cut>>

\* AccRelink without a new handle.
HandleNotMade ==
  /\ At("acc", "relink") /\ LiveManager(mgr["acc"])
  /\ mgrList' = [mgrList EXCEPT ![mgr["acc"]] = Append(@, accClient)]
  /\ Goto("acc", "create")
  /\ UNCHANGED <<flags, mgr, cliOp, accVars, svc, mgrState, mgrThread, mgrFds, drsVars, db,
                 netVars, appVars, cut>>

\* DrsStart that never, or always, takes the database.
NeverCopies(d) ==
  /\ DrsAt(d, "start") /\ DrsGoto(d, "prep")
  /\ UNCHANGED <<flags, threadVars, accVars, mgrVars, drsCancel, drsMgr, drsJoin, drsTodo, drsGot,
                 db, netVars, appVars, cut>>
AlwaysCopies(d) ==
  /\ DrsAt(d, "start") /\ DrsGoto(d, "copy")
  /\ UNCHANGED <<flags, threadVars, accVars, mgrVars, drsCancel, drsMgr, drsJoin, drsTodo, drsGot,
                 db, netVars, appVars, cut>>

\* DrsPrep that keeps the descriptor set of the thread before.
StaleFds(d) ==
  /\ DrsAt(d, "prep") /\ DrsGoto(d, "select")
  /\ UNCHANGED <<flags, threadVars, accVars, mgrVars, drsCancel, drsMgr, drsJoin, drsTodo, drsGot,
                 db, netVars, appVars, cut>>

\* DrsSelect without the FD_ISSET test.
ReadyUntested(d) ==
  /\ DrsAt(d, "select") /\ ~drsCancel[d]
  /\ \E c \in mgrFds[drsMgr[d]] : Readable(c)
  /\ drsTodo' = [drsTodo EXCEPT ![d] = mgrList[drsMgr[d]]]
  /\ DrsGoto(d, "recv")
  /\ UNCHANGED <<flags, threadVars, accVars, mgrVars, drsCancel, drsMgr, drsJoin, drsGot,
                 db, netVars, appVars, cut>>

\* DrsDeliver that takes recvfrom's -1 for a length.
ErrorDelivered(d) ==
  /\ DrsAt(d, "deliver")
  /\ dlv' = [dlv EXCEPT ![First(drsTodo[d])] = @ + drsGot[d]]
  /\ drsGot' = [drsGot EXCEPT ![d] = 0]
  /\ drsTodo' = [drsTodo EXCEPT ![d] = ButFirst(@)]
  /\ DrsGoto(d, IF DOMAIN ButFirst(drsTodo[d]) = {} THEN "select" ELSE "recv")
  /\ UNCHANGED <<flags, threadVars, accVars, mgrVars, drsCancel, drsMgr, drsJoin,
                 db, netVars, told, cut>>

\* DrsCancelled with asynchronous cancellation, or with cancellation
\* disabled around select.
CancelledAnywhere(d) ==
  /\ Up /\ drsCancel[d] /\ Live(d)
  /\ DrsGoto(d, "done") /\ drsTodo' = [drsTodo EXCEPT ![d] = <<>>]
  /\ UNCHANGED <<flags, threadVars, accVars, mgrVars, drsCancel, drsMgr, drsJoin, drsGot,
                 db, netVars, appVars, cut>>
CancelledInRecv(d) ==
  /\ Up /\ drsCancel[d] /\ drsPc[d] \in {"recv", "eof"}
  /\ DrsGoto(d, "done") /\ drsTodo' = [drsTodo EXCEPT ![d] = <<>>]
  /\ UNCHANGED <<flags, threadVars, accVars, mgrVars, drsCancel, drsMgr, drsJoin, drsGot,
                 db, netVars, appVars, cut>>

(****************************************************************************)
(* stop_tcp_client_service_manager_thread and                               *)
(* start_tcp_client_service_manager_thread, run by the main thread in a     *)
(* command and by the accept thread for a new client: a is the caller,      *)
(* mgr[a] the manager.                                                      *)
(****************************************************************************)

\* What the pthread functions make of the handle of manager m.
HandleFault(m) ==
  CASE ~LiveManager(m) -> "freed_manager"
    [] LiveManager(m) /\ mgrThread[m] = Nil -> "null_thread"
    [] LiveManager(m) /\ mgrThread[m] = Fresh -> "bad_thread"
    [] LiveManager(m) /\ mgrThread[m] \in Drs /\ drsPc[mgrThread[m]] = "free" -> "bad_thread"
    [] OTHER -> "none"

CancelDrs(a) ==
  /\ At(a, "cancel") /\ HandleFault(mgr[a]) = "none"
  /\ drsCancel' = [drsCancel EXCEPT ![mgrThread[mgr[a]]] = TRUE]
  /\ Goto(a, "join")
  /\ UNCHANGED <<flags, mgr, cliOp, accVars, mgrVars, drsPc, drsMgr, drsJoin, drsTodo, drsGot,
                 db, netVars, appVars, cut>>

\* pthread_join gives EINVAL at once when another thread already waits for d.
JoinDrs(a) ==
  /\ At(a, "join") /\ HandleFault(mgr[a]) = "none"
  /\ LET d == mgrThread[mgr[a]] IN
       \/ drsJoin[d] = "none" /\ drsJoin' = [drsJoin EXCEPT ![d] = a] /\ Goto(a, "joining")
       \/ drsJoin[d] # "none" /\ UNCHANGED drsJoin /\ Goto(a, "forget")
  /\ UNCHANGED <<flags, mgr, cliOp, accVars, mgrVars, drsPc, drsCancel, drsMgr, drsTodo, drsGot,
                 db, netVars, appVars, cut>>

DrsJoined(a) ==
  /\ At(a, "joining")
  /\ \E d \in Drs :
       /\ drsJoin[d] = a /\ drsPc[d] = "done"
       /\ drsPc' = [drsPc EXCEPT ![d] = "free"]
       /\ drsJoin' = [drsJoin EXCEPT ![d] = "none"]
       /\ drsMgr' = [drsMgr EXCEPT ![d] = Nil]
       /\ drsCancel' = [drsCancel EXCEPT ![d] = FALSE]
  /\ Goto(a, "forget")
  /\ UNCHANGED <<flags, mgr, cliOp, accVars, mgrVars, drsTodo, drsGot, db, netVars, appVars, cut>>

\* delete client_svc_mgr_thread; client_svc_mgr_thread = nullptr.
ForgetDrs(a) ==
  /\ At(a, "forget") /\ LiveManager(mgr[a])
  /\ mgrThread' = [mgrThread EXCEPT ![mgr[a]] = Nil]
  /\ Goto(a, IF a = "acc" THEN "relink" ELSE "free")
  /\ UNCHANGED <<flags, mgr, cliOp, accVars, svc, mgrState, mgrList, mgrFds, drsVars,
                 db, netVars, appVars, cut>>

CreateDrs(a) ==
  /\ At(a, "create") /\ LiveManager(mgr[a]) /\ mgrThread[mgr[a]] # Nil
  /\ \E d \in Drs :
       /\ drsPc[d] = "free"
       /\ drsPc' = [drsPc EXCEPT ![d] = "start"]
       /\ drsMgr' = [drsMgr EXCEPT ![d] = mgr[a]]
       /\ mgrThread' = [mgrThread EXCEPT ![mgr[a]] = d]
  /\ Goto(a, "nap")
  /\ UNCHANGED <<flags, mgr, cliOp, accVars, svc, mgrState, mgrList, mgrFds, drsCancel, drsJoin,
                 drsTodo, drsGot, db, netVars, appVars, cut>>

\* The errors of these steps: a bad handle or manager, and two threads
\* that delete the same handle.
StopFault(a) ==
  /\ fate = "up"
  /\ \/ pc[a] \in {"cancel", "join"} /\ HandleFault(mgr[a]) # "none"
        /\ Crash(a, HandleFault(mgr[a]))
     \/ pc[a] \in {"forget", "create"} /\ ~LiveManager(mgr[a])
        /\ Crash(a, "freed_manager")
     \/ pc[a] = "create" /\ LiveManager(mgr[a]) /\ mgrThread[mgr[a]] = Nil
        /\ Crash(a, "null_thread")
     \/ (\A b \in Actors : pc[b] = "forget" /\ mgr[b] = mgr[a])
        /\ LiveManager(mgr[a]) /\ mgrThread[mgr[a]] # Nil
        /\ Crash(a, "double_free")

(****************************************************************************)
(* The commands of the main thread (config_tcp_server_handler).             *)
(****************************************************************************)
\* start: the accept thread, then the receive thread of the manager.
Start ==
  /\ Command("start") /\ accObj = "fresh"
  /\ accObj' = "running" /\ cliOp' = "start"
  /\ pc' = [pc EXCEPT !["acc"] = "setup", !["cli"] = "create"]
  /\ mgr' = [mgr EXCEPT !["cli"] = svc]
  /\ UNCHANGED <<flags, accCancel, accClient, mgrVars, drsVars, db, netVars, appVars, cut>>

\* A second start runs the accept thread's bind again on a bound socket,
\* which exits the process; without an acceptor it dereferences null.
StartAgain ==
  /\ fate = "up" /\ pc["cli"] = "idle" /\ "start" \in Commands
  /\ \/ accObj = "running" /\ Crash("cli", "exit")
     \/ accObj = "null" /\ Crash("cli", "null_acceptor")

\* stop_connection_accepting_svc: cancel the accept thread, then join it.
StopAccepting(op) ==
  /\ Command(op) /\ "NACC" \notin flags /\ accObj = "running"
  /\ Overlap \/ ~HandingOver
  /\ accCancel' = TRUE /\ cliOp' = op
  /\ Goto("cli", "acc_join")
  /\ UNCHANGED <<flags, mgr, accObj, accClient, mgrVars, drsVars, db, netVars, appVars, cut>>

StopUnstarted ==
  /\ fate = "up" /\ pc["cli"] = "idle" /\ accObj = "fresh"
  /\ {"stop", "stop_acc"} \cap Commands # {}
  /\ Crash("cli", "bad_thread")

\* The join returns; close() refuses the connections still in the backlog.
AcceptorStopped ==
  /\ At("cli", "acc_join") /\ pc["acc"] = "done"
  /\ sock' = [c \in Clients |-> IF sock[c] = "backlog" THEN "refused" ELSE sock[c]]
  /\ accObj' = "null" /\ flags' = flags \cup {"NACC"}
  /\ pc' = [pc EXCEPT !["acc"] = "none", !["cli"] = IF cliOp = "stop" THEN "svc" ELSE "idle"]
  /\ cliOp' = IF cliOp = "stop" THEN "stop" ELSE "none"
  /\ accCancel' = FALSE
  /\ UNCHANGED <<mgr, accClient, mgrVars, drsVars, db, peer, rx, sent, appVars, cut>>

StartAccepting ==
  /\ Command("start_acc") /\ "NACC" \in flags
  /\ accObj' = "running" /\ flags' = flags \ {"NACC"}
  /\ Goto("acc", "setup")
  /\ UNCHANGED <<mgr, cliOp, accCancel, accClient, mgrVars, drsVars, db, netVars, appVars, cut>>

\* stop_tcp_client_svc_mgr: calls the manager's stop.
StopListening ==
  /\ Command("stop_svc") /\ "NLIS" \notin flags
  /\ Overlap \/ ~HandingOver
  /\ cliOp' = "stop_svc"
  /\ mgr' = [mgr EXCEPT !["cli"] = svc] /\ Goto("cli", "cancel")
  /\ UNCHANGED <<flags, accVars, mgrVars, drsVars, db, netVars, appVars, cut>>

\* stop's loop removes every value equal to the one it stands on: it loses
\* its place when the next node holds a value that is removed.
IteratorSurvives(s) ==
  \A i, j \in DOMAIN s :
    i < j /\ s[i] = s[j] => \E k \in i..j : \A h \in 1..(i - 1) : s[k] # s[h] /\ s[k] # s[i]

FreeManager ==
  /\ At("cli", "free")
  /\ mgrThread[mgr["cli"]] = Nil /\ IteratorSurvives(mgrList[mgr["cli"]])
  /\ mgrState' = [mgrState EXCEPT ![mgr["cli"]] = "freed"]
  /\ mgrList' = [mgrList EXCEPT ![mgr["cli"]] = <<>>]
  /\ mgrFds' = [mgrFds EXCEPT ![mgr["cli"]] = {}]
  /\ Goto("cli", "clear")
  /\ UNCHANGED <<flags, mgr, cliOp, accVars, svc, mgrThread, drsVars, db, netVars, appVars, cut>>

FreeFault ==
  /\ fate = "up" /\ pc["cli"] = "free"
  /\ \/ mgrThread[mgr["cli"]] # Nil /\ Crash("cli", "assert_thread")
     \/ mgrThread[mgr["cli"]] = Nil /\ ~IteratorSurvives(mgrList[mgr["cli"]])
        /\ Crash("cli", "dangling_iterator")

ListeningStopped ==
  /\ At("cli", "clear")
  /\ svc' = Nil /\ flags' = flags \cup {"NLIS"}
  /\ mgr' = [mgr EXCEPT !["cli"] = Nil]
  /\ Goto("cli", IF cliOp = "stop" THEN "purge" ELSE "idle")
  /\ cliOp' = IF cliOp = "stop" THEN "stop" ELSE "none"
  /\ UNCHANGED <<accVars, mgrState, mgrThread, mgrList, mgrFds, drsVars, db, netVars, appVars, cut>>

\* start_tcp_client_svc_mgr: a new manager is published before its thread exists.
StartListening ==
  /\ Command("start_svc") /\ "NLIS" \in flags
  /\ \E m \in Managers :
       /\ mgrState[m] # "live" /\ mgr["acc"] # m /\ \A d \in Drs : drsMgr[d] # m
       /\ svc' = m
       /\ mgrState' = [mgrState EXCEPT ![m] = "live"]
       /\ mgrThread' = [mgrThread EXCEPT ![m] = Fresh]
       /\ mgrList' = [mgrList EXCEPT ![m] = <<>>]
       /\ mgrFds' = [mgrFds EXCEPT ![m] = {}]
       /\ mgr' = [mgr EXCEPT !["cli"] = m]
  /\ cliOp' = "start_svc" /\ Goto("cli", "create")
  /\ UNCHANGED <<flags, accVars, drsVars, db, netVars, appVars, cut>>

\* The end of sleep(1) in start_tcp_client_service_manager_thread, back in
\* start or in start_tcp_client_svc_mgr.
CommandStarted ==
  /\ At("cli", "nap") /\ (Prompt => \A d \in Drs : Started(d))
  /\ flags' = IF cliOp = "start" THEN flags \cup {"RUN"} ELSE flags \ {"NLIS"}
  /\ Goto("cli", "idle") /\ cliOp' = "none"
  /\ mgr' = [mgr EXCEPT !["cli"] = Nil]
  /\ UNCHANGED <<accVars, mgrVars, drsVars, db, netVars, appVars, cut>>

\* stop when no acceptor is left to stop.
StopNoAcceptor ==
  /\ Command("stop") /\ accObj = "null"
  /\ cliOp' = "stop" /\ Goto("cli", "svc")
  /\ UNCHANGED <<flags, mgr, accVars, mgrVars, drsVars, db, netVars, appVars, cut>>

\* The second half of stop: the service manager, if there is one.
StopManager ==
  /\ At("cli", "svc")
  /\ \/ svc # Nil /\ "NLIS" \notin flags /\ Goto("cli", "cancel")
     \/ (svc = Nil \/ "NLIS" \in flags) /\ Goto("cli", "purge")
  /\ mgr' = [mgr EXCEPT !["cli"] = svc]
  /\ UNCHANGED <<flags, cliOp, accVars, mgrVars, drsVars, db, netVars, appVars, cut>>

\* purge, then delete of the database and of the controller itself.
Purge ==
  /\ fate = "up" /\ pc["cli"] = "purge"
  /\ sock' = [c \in Clients |-> IF c \in Range(db) THEN "closed" ELSE sock[c]]
  /\ db' = <<>> /\ flags' = flags \ {"RUN"}
  /\ fate' = "stopped" /\ Goto("cli", "idle") /\ cliOp' = "none"
  /\ UNCHANGED <<culprit, mgr, accVars, mgrVars, drsVars, peer, rx, sent, appVars, cut>>

(****************************************************************************)
(* The accept thread.                                                       *)
(****************************************************************************)
\* bind may fail, which exits the process.
AccSetup ==
  /\ At("acc", "setup") /\ Goto("acc", "accept")
  /\ UNCHANGED <<flags, mgr, cliOp, accVars, mgrVars, drsVars, db, netVars, appVars, cut>>

AccSetupFails == fate = "up" /\ pc["acc"] = "setup" /\ Crash("acc", "exit")

\* accept returns, the tcp_client is made and client_connected is called.
Accept(c) ==
  /\ At("acc", "accept") /\ ~accCancel /\ sock[c] = "backlog"
  /\ Overlap \/ (pc["cli"] = "idle" /\ "RUN" \in flags /\ "NLIS" \notin flags)
  /\ sock' = [sock EXCEPT ![c] = "open"]
  /\ accClient' = c /\ told' = told \cup {c}
  /\ Goto("acc", "callback")
  /\ UNCHANGED <<flags, mgr, cliOp, accObj, accCancel, mgrVars, drsVars, db, peer, rx, sent, dlv, cut>>

AccCallback ==
  /\ At("acc", "callback") /\ Goto("acc", "add")
  /\ UNCHANGED <<flags, mgr, cliOp, accVars, mgrVars, drsVars, db, netVars, appVars, cut>>

AccAdd ==
  /\ At("acc", "add")
  /\ db' = Append(db, accClient) /\ Goto("acc", "handoff")
  /\ UNCHANGED <<flags, mgr, cliOp, accVars, mgrVars, drsVars, netVars, appVars, cut>>

\* this->tcp_cl_svc_mgr->client_fd_start_listen: the pointer is read here.
AccHandoff ==
  /\ At("acc", "handoff") /\ svc # Nil
  /\ mgr' = [mgr EXCEPT !["acc"] = svc] /\ Goto("acc", "cancel")
  /\ UNCHANGED <<flags, cliOp, accVars, mgrVars, drsVars, db, netVars, appVars, cut>>

AccRelink ==
  /\ At("acc", "relink") /\ LiveManager(mgr["acc"])
  /\ mgrList' = [mgrList EXCEPT ![mgr["acc"]] = Append(@, accClient)]
  /\ mgrThread' = [mgrThread EXCEPT ![mgr["acc"]] = Fresh]
  /\ Goto("acc", "create")
  /\ UNCHANGED <<flags, mgr, cliOp, accVars, svc, mgrState, mgrFds, drsVars, db, netVars,
                 appVars, cut>>

\* sleep(1) after the thread is created; the accept loop goes round.
AccNap ==
  /\ At("acc", "nap") /\ ~accCancel /\ (Prompt => \A d \in Drs : Started(d))
  /\ Goto("acc", "accept")
  /\ accClient' = Nil /\ mgr' = [mgr EXCEPT !["acc"] = Nil]
  /\ UNCHANGED <<flags, cliOp, accObj, accCancel, mgrVars, drsVars, db, netVars, appVars, cut>>

AccFault ==
  /\ fate = "up"
  /\ \/ pc["acc"] = "handoff" /\ svc = Nil /\ Crash("acc", "null_manager")
     \/ pc["acc"] = "relink" /\ ~LiveManager(mgr["acc"]) /\ Crash("acc", "freed_manager")

\* The pending cancel is acted on at a cancellation point: accept, the
\* output of the callback and of client_fd_start_listen, pthread_join, sleep.
AccCancelled ==
  /\ Up /\ accCancel /\ pc["acc"] \in {"accept", "callback", "joining", "relink", "nap"}
  /\ Goto("acc", "done")
  /\ cut' = IF pc["acc"] \in {"callback", "joining", "relink"} THEN cut \cup {accClient} ELSE cut
  /\ drsJoin' = [d \in Drs |-> IF drsJoin[d] = "acc" THEN "none" ELSE drsJoin[d]]
  /\ accClient' = Nil /\ mgr' = [mgr EXCEPT !["acc"] = Nil]
  /\ UNCHANGED <<flags, cliOp, accObj, accCancel, mgrVars, drsPc, drsCancel, drsMgr, drsTodo,
                 drsGot, db, netVars, appVars>>

(****************************************************************************)
(* A receive thread, d, of manager drsMgr[d].                               *)
(****************************************************************************)
DrsStart(d) ==
  /\ DrsAt(d, "start")
  /\ DrsGoto(d, IF "NLIS" \in flags THEN "copy" ELSE "prep")
  /\ UNCHANGED <<flags, threadVars, accVars, mgrVars, drsCancel, drsMgr, drsJoin, drsTodo, drsGot,
                 db, netVars, appVars, cut>>

\* A manager started while listening is disabled takes the whole database.
DrsCopy(d) ==
  /\ DrsAt(d, "copy")
  /\ mgrList' = [mgrList EXCEPT ![drsMgr[d]] = @ \o db]
  /\ DrsGoto(d, "prep")
  /\ UNCHANGED <<flags, threadVars, accVars, svc, mgrState, mgrThread, mgrFds, drsCancel, drsMgr,
                 drsJoin, drsTodo, drsGot, db, netVars, appVars, cut>>

DrsPrep(d) ==
  /\ DrsAt(d, "prep")
  /\ mgrFds' = [mgrFds EXCEPT ![drsMgr[d]] = Range(mgrList[drsMgr[d]])]
  /\ DrsGoto(d, "select")
  /\ UNCHANGED <<flags, threadVars, accVars, svc, mgrState, mgrThread, mgrList, drsCancel, drsMgr,
                 drsJoin, drsTodo, drsGot, db, netVars, appVars, cut>>

\* select returns, and the loop over the list starts.  The list cannot
\* change while the loop runs, except at its end by a client that is not ready.
DrsSelect(d) ==
  /\ DrsAt(d, "select") /\ ~drsCancel[d]
  /\ LET list == mgrList[drsMgr[d]]
         ready == {i \in DOMAIN list : list[i] \in mgrFds[drsMgr[d]] /\ Readable(list[i])} IN
       ready # {} /\ drsTodo' = [drsTodo EXCEPT ![d] = [i \in ready |-> list[i]]]
  /\ DrsGoto(d, "recv")
  /\ UNCHANGED <<flags, threadVars, accVars, mgrVars, drsCancel, drsMgr, drsJoin, drsGot,
                 db, netVars, appVars, cut>>

\* recvfrom: some of what is queued, or 0 for the end of the stream, or -1
\* for a connection the client reset.
DrsRecv(d) ==
  /\ DrsAt(d, "recv") /\ ~drsCancel[d]
  /\ LET c == First(drsTodo[d]) IN
       \/ \E n \in 1..rx[c] :
            /\ drsGot' = [drsGot EXCEPT ![d] = n] /\ rx' = [rx EXCEPT ![c] = @ - n]
            /\ DrsGoto(d, "deliver") /\ UNCHANGED peer
       \/ /\ rx[c] = 0 /\ peer[c] = "closed"
          /\ DrsGoto(d, "eof") /\ UNCHANGED <<drsGot, rx, peer>>
       \/ /\ rx[c] = 0 /\ peer[c] = "reset"
          /\ drsGot' = [drsGot EXCEPT ![d] = -1] /\ peer' = [peer EXCEPT ![c] = "closed"]
          /\ DrsGoto(d, "deliver") /\ UNCHANGED rx
  /\ UNCHANGED <<flags, threadVars, accVars, mgrVars, drsCancel, drsMgr, drsJoin, drsTodo,
                 db, sock, sent, appVars, cut>>

DrsEof(d) ==
  /\ DrsAt(d, "eof") /\ ~drsCancel[d] /\ DrsGoto(d, "deliver")
  /\ UNCHANGED <<flags, threadVars, accVars, mgrVars, drsCancel, drsMgr, drsJoin, drsTodo, drsGot,
                 db, netVars, appVars, cut>>

\* client_msg_recvd (msgd is always null), then the next ready client.
DrsDeliver(d) ==
  /\ DrsAt(d, "deliver")
  /\ dlv' = IF drsGot[d] > 0 THEN [dlv EXCEPT ![First(drsTodo[d])] = @ + drsGot[d]] ELSE dlv
  /\ drsGot' = [drsGot EXCEPT ![d] = 0]
  /\ drsTodo' = [drsTodo EXCEPT ![d] = ButFirst(@)]
  /\ DrsGoto(d, IF DOMAIN ButFirst(drsTodo[d]) = {} THEN "select" ELSE "recv")
  /\ UNCHANGED <<flags, threadVars, accVars, mgrVars, drsCancel, drsMgr, drsJoin,
                 db, netVars, told, cut>>

\* Deferred cancellation, at select, recvfrom and sleep.
DrsCancelled(d) ==
  /\ Up /\ drsCancel[d] /\ drsPc[d] \in {"select", "recv", "eof"}
  /\ DrsGoto(d, "done") /\ drsTodo' = [drsTodo EXCEPT ![d] = <<>>]
  /\ UNCHANGED <<flags, threadVars, accVars, mgrVars, drsCancel, drsMgr, drsJoin, drsGot,
                 db, netVars, appVars, cut>>

DrsFault(d) ==
  /\ fate = "up" /\ Live(d) /\ ~LiveManager(drsMgr[d])
  /\ Crash("drs", "freed_manager")

(****************************************************************************)
(* The clients.                                                             *)
(****************************************************************************)
Connect(c) ==
  /\ Up /\ Listening /\ sock[c] = "away"
  /\ sock' = [sock EXCEPT ![c] = "backlog"]
  /\ UNCHANGED <<flags, threadVars, accVars, mgrVars, drsVars, db, peer, rx, sent, appVars, cut>>

Connected(c) == sock[c] \in {"backlog", "open"} /\ peer[c] = "up"

Send(c) ==
  /\ Up /\ Connected(c) /\ sent[c] < MaxMsgs
  /\ sent' = [sent EXCEPT ![c] = @ + 1] /\ rx' = [rx EXCEPT ![c] = @ + 1]
  /\ UNCHANGED <<flags, threadVars, accVars, mgrVars, drsVars, db, sock, peer, appVars, cut>>

Hangup(c) ==
  /\ Up /\ Connected(c)
  /\ \E how \in {"closed", "reset"} : peer' = [peer EXCEPT ![c] = how]
  /\ UNCHANGED <<flags, threadVars, accVars, mgrVars, drsVars, db, sock, rx, sent, appVars, cut>>

\* Nothing is left to do: the process has ended, or every thread waits for
\* a command, a connection or a message that does not come.
Waiting ==
  /\ pc["cli"] = "idle"
  /\ \/ pc["acc"] = "none"
     \/ pc["acc"] = "accept" /\ \A c \in Clients : sock[c] # "backlog"
  /\ \A d \in Drs : \/ drsPc[d] \in {"free", "done"}
                    \/ drsPc[d] = "select" /\ \A c \in mgrFds[drsMgr[d]] : ~Readable(c)

Rest == (fate # "up" \/ Waiting) /\ UNCHANGED vars

CliStep ==
  \/ Start \/ StartAgain \/ StopAccepting("stop_acc") \/ StopAccepting("stop")
  \/ StopUnstarted \/ AcceptorStopped \/ StartAccepting \/ StopListening
  \/ FreeManager \/ FreeFault \/ ListeningStopped \/ StartListening \/ CommandStarted
  \/ StopNoAcceptor \/ StopManager \/ Purge

ThreadStep(a) ==
  CancelDrs(a) \/ JoinDrs(a) \/ DrsJoined(a) \/ ForgetDrs(a) \/ CreateDrs(a) \/ StopFault(a)

AccStep ==
  \/ AccSetup \/ AccSetupFails \/ (\E c \in Clients : Accept(c)) \/ AccCallback \/ AccAdd
  \/ AccHandoff \/ AccRelink \/ AccNap \/ AccFault \/ AccCancelled

DrsStep(d) ==
  \/ DrsStart(d) \/ DrsCopy(d) \/ DrsPrep(d) \/ DrsSelect(d) \/ DrsRecv(d) \/ DrsEof(d)
  \/ DrsDeliver(d) \/ DrsCancelled(d) \/ DrsFault(d)

ClientStep(c) == Connect(c) \/ Send(c) \/ Hangup(c)

Next ==
  \/ CliStep
  \/ \E a \in Actors : ThreadStep(a)
  \/ AccStep
  \/ \E d \in Drs : DrsStep(d)
  \/ \E c \in Clients : ClientStep(c)
  \/ Rest

Spec == Init /\ [][Next]_vars

\* The scheduler runs every thread that can run.  Operator and clients owe
\* nothing: the main thread is only fair inside a command.
FairSpec ==
  /\ Spec
  /\ WF_vars(pc["cli"] # "idle" /\ CliStep)
  /\ WF_vars(ThreadStep("cli"))
  /\ WF_vars(ThreadStep("acc"))
  /\ WF_vars(AccStep)
  /\ \A d \in Drs : WF_vars(DrsStep(d))

(****************************************************************************)
(* Properties.                                                              *)
(****************************************************************************)

\* Type invariant: every variable holds a value its C++ object can hold.
TypeOK ==
  /\ fate \in {"up", "exit", "stopped"} \cup Faults
  /\ culprit \in Actors \cup {"none", "drs"}
  /\ flags \subseteq {"RUN", "NACC", "NLIS"}
  /\ pc \in [Actors -> CliPcs \cup AccPcs] /\ pc["cli"] \in CliPcs /\ pc["acc"] \in AccPcs
  /\ mgr \in [Actors -> Managers \cup {Nil}]
  /\ cliOp \in AllCommands \cup {"none"}
  /\ accObj \in {"null", "fresh", "running"}
  /\ accCancel \in BOOLEAN
  /\ accClient \in Clients \cup {Nil}
  /\ svc \in Managers \cup {Nil}
  /\ mgrState \in [Managers -> {"unborn", "live", "freed"}]
  /\ mgrThread \in [Managers -> Drs \cup {Nil, Fresh}]
  /\ mgrList \in [Managers -> Seq(Clients)]
  /\ mgrFds \in [Managers -> SUBSET Clients]
  /\ drsPc \in [Drs -> DrsPcs]
  /\ drsCancel \in [Drs -> BOOLEAN]
  /\ drsMgr \in [Drs -> Managers \cup {Nil}]
  /\ drsJoin \in [Drs -> Actors \cup {"none"}]
  /\ drsTodo = [d \in Drs |-> drsTodo[d]]
  /\ \A d \in Drs : DOMAIN drsTodo[d] \subseteq Nat /\ Range(drsTodo[d]) \subseteq Clients
  /\ drsGot \in [Drs -> Nat \cup {-1}]
  /\ db \in Seq(Clients)
  /\ sock \in [Clients -> {"away", "backlog", "open", "refused", "closed"}]
  /\ peer \in [Clients -> {"up", "closed", "reset"}]
  /\ rx \in [Clients -> Nat] /\ sent \in [Clients -> Nat] /\ dlv \in [Clients -> Nat]
  /\ told \subseteq Clients /\ cut \subseteq Clients

\* No two receive threads run at once: the thread of a new client replaces
\* the one before it, so no two of them read the same sockets or the one
\* client_recv_buffer.
AtMostOneDrs == \A d, e \in Drs : Live(d) /\ Live(e) => d = e

\* Receive threads that have taken messages of client c and not delivered them.
InHand(c) == {d \in Drs : drsGot[d] > 0 /\ DOMAIN drsTodo[d] # {} /\ First(drsTodo[d]) = c}

\* No message is lost or given twice to the application: a cancelled receive
\* thread never ends between recvfrom and client_msg_recvd.
NothingLost ==
  \A c \in Clients : sent[c] = rx[c] + dlv[c] + SumFunctionOnSet(drsGot, InHand(c))

\* A client is announced by client_connected before it is stored, listed,
\* polled or visited, so before any of its messages is delivered.
AnnouncedFirst ==
  /\ Range(db) \subseteq told
  /\ \A m \in Managers : Range(mgrList[m]) \cup mgrFds[m] \subseteq told
  /\ \A d \in Drs : Range(drsTodo[d]) \subseteq told

\* What the receive threads use is in the database, which alone knows which
\* clients to free: purge closes every client that a manager lists or polls.
StoredFirst ==
  /\ \A m \in Managers : Range(mgrList[m]) \cup mgrFds[m] \subseteq Range(db)
  /\ \A d \in Drs : Range(drsTodo[d]) \subseteq Range(db)

\* A client is in a manager's list at most once: recvfrom is called once per
\* readable socket and round.
ListedOnce == \A m \in Managers : IsInjective(mgrList[m])

\* The server polls the sockets of all clients on one thread, which never
\* blocks in recvfrom on one of them.
RecvNeverBlocks == \A d \in Drs : drsPc[d] = "recv" => Readable(First(drsTodo[d]))

\* With no command and no handoff in progress, a running server that listens
\* serves exactly the clients it stores, on the thread its handle names,
\* unless the accept thread was cancelled with a client in its hands.
Settled ==
  /\ fate = "up" /\ pc["cli"] = "idle" /\ ~HandingOver
  /\ "RUN" \in flags /\ "NLIS" \notin flags
ServesAll ==
  /\ svc \in Managers /\ Range(mgrList[svc]) = Range(db)
  /\ \E d \in Drs : /\ mgrThread[svc] = d /\ drsMgr[d] = svc
                    /\ Live(d) /\ ~drsCancel[d]
                    /\ Started(d) => mgrFds[svc] = Range(db)
AllServed == Settled /\ cut = {} => ServesAll

\* A handoff fails only when start has not finished, listening is disabled,
\* a command is running, an earlier handoff was cut by a cancel, or the
\* manager was replaced under it.
HandoffSafe ==
  culprit = "acc" /\ fate # "exit" =>
    \/ "RUN" \notin flags \/ "NLIS" \in flags \/ pc["cli"] # "idle"
    \/ cut # {} \/ mgr["acc"] # svc

\* Once start has finished, no command and no client makes the server fail,
\* but for a second start without an acceptor.
OrderlySafe == "RUN" \in flags => fate \notin Faults \ {"null_acceptor"}

\* Connecting clients never make the server fail.
ClientsHarmless == ~(culprit = "acc" /\ fate \in Faults)

\* The assertion in tcp_client_service_manager::stop.
ThreadIsGone == fate # "assert_thread"

\* stop leaves no thread behind, and no announced client connected but those
\* cut off with the accept thread.
StopIsComplete ==
  fate = "stopped" =>
    /\ pc["acc"] = "none" /\ \A d \in Drs : drsPc[d] = "free"
    /\ \A c \in Clients : sock[c] = "closed" \/ c \notin told \/ c \in cut
    /\ \A c \in Clients : sock[c] # "backlog"

\* The list of a manager does not change under the loop that walks it.
ListIsStable ==
  [][\A d \in Drs : drsPc[d] \in {"recv", "eof", "deliver"} =>
        mgrList'[drsMgr[d]] = mgrList[drsMgr[d]]]_vars

\* A client that connects is announced and all it sends delivered, unless
\* accepting is disabled before that, or a handoff was cut by it.
Served ==
  \A c \in Clients :
    sock[c] \in {"backlog", "open"} ~>
      \/ fate # "up"
      \/ c \in told /\ rx[c] = 0
      \/ pc["acc"] = "none" \/ accCancel \/ cut # {}

\* Every command returns to the operator.
CommandReturns == pc["cli"] # "idle" ~> pc["cli"] = "idle" \/ fate # "up"

\* The library implements what it promises to the application.
App == INSTANCE AppView WITH given <- dlv
AppSpec == App!Spec
================================================================================
