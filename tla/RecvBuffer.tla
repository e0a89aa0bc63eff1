-------------------------------- MODULE RecvBuffer -------------------------------
(****************************************************************************)
(* client_recv_buffer: the one buffer into which the receive threads of all *)
(* servers of a process receive, from which the callback of the application *)
(* prints, and which they clear after every client.  A message is a number  *)
(* of equal bytes, none of them 0; the callback prints up to the first 0.   *)
(****************************************************************************)
EXTENDS Integers

CONSTANTS Servers,   \* the servers that are started
          BufSize,   \* MAX_CLIENT_BUFFER_SIZE
          Texts,     \* the bytes messages are made of
          None

ASSUME RecvAssumption == BufSize \in Nat \ {0} /\ Texts \subseteq Nat \ {0} /\ None \notin Texts

VARIABLES bytes,    \* client_recv_buffer
          thread,   \* of each server: "none", in "select", with what it "got", or "printed"
          got,      \* the message each thread received last
          shown,    \* what its callback printed of it
          tainted,  \* something else was in the buffer with that message
          left_over \* a thread was cancelled in its callback and nobody has cleared since

recvVars == <<bytes, thread, got, shown, tainted, left_over>>

Slots == 0..(BufSize - 1)
\* Of length 0 at the end of a connection, which takes the same way.
Message == [text : Texts, len : 0..BufSize]
NoText == [i \in Slots |-> 0]

RecvInit ==
  /\ bytes = NoText
  /\ thread = [s \in Servers |-> "none"]
  /\ got = [s \in Servers |-> None] /\ shown = [s \in Servers |-> None]
  /\ tainted = [s \in Servers |-> FALSE] /\ left_over = FALSE

\* The string at the start of the buffer, as far as the buffer goes.
AsString(f) ==
  LET len == CHOOSE n \in 0..BufSize : (n = BufSize \/ f[n] = 0) /\ \A i \in 0..(n - 1) : f[i] # 0
  IN [i \in 0..(len - 1) |-> f[i]]

\* What is printed of the buffer: with no 0 in it, what lies behind it as well.
Printings(f) ==
  {AsString(f)} \cup
  IF \E i \in Slots : f[i] = 0 THEN {}
  ELSE {[i \in 0..BufSize |-> IF i < BufSize THEN f[i] ELSE c] : c \in Texts}

\* The threads whose message is in the buffer that s writes to.
Holders(s) == {t \in Servers \ {s} : thread[t] = "got"}
Taint(s) == tainted' = [t \in Servers |-> tainted[t] \/ t \in Holders(s)]

(****************************************************************************)
(* Faulty variants of the operations below: near misses of the code, not    *)
(* part of the specification, that the properties tell from it.             *)
(****************************************************************************)
\* The buffer is cleared for the clients that sent nothing only.
ClearNot(s) ==
  /\ thread[s] = "printed"
  /\ thread' = [thread EXCEPT ![s] = "select"]
  /\ Taint(s)
  /\ left_over' = FALSE
  /\ UNCHANGED <<bytes, got, shown>>

(****************************************************************************)
(* The thread of server s.                                                  *)
(****************************************************************************)
StartThread(s) ==
  /\ thread[s] = "none"
  /\ thread' = [thread EXCEPT ![s] = "select"]
  /\ UNCHANGED <<bytes, got, shown, tainted, left_over>>

\* recvfrom writes the bytes of the message and no more.
Recv(s) ==
  /\ thread[s] = "select"
  /\ \E m \in Message :
       /\ bytes' = [i \in Slots |-> IF i < m.len THEN m.text ELSE bytes[i]]
       /\ got' = [got EXCEPT ![s] = m]
  /\ thread' = [thread EXCEPT ![s] = "got"]
  /\ shown' = [shown EXCEPT ![s] = None]
  /\ tainted' = [t \in Servers |->
                    IF t = s THEN left_over \/ \E u \in Servers \ {s} : thread[u] \in {"got", "printed"}
                    ELSE tainted[t] \/ t \in Holders(s)]
  /\ UNCHANGED left_over

\* appln_client_msg_recvd prints the buffer as a string.
Callback(s) ==
  /\ thread[s] = "got"
  /\ \E str \in Printings(bytes) : shown' = [shown EXCEPT ![s] = str]
  /\ thread' = [thread EXCEPT ![s] = "printed"]
  /\ UNCHANGED <<bytes, got, tainted, left_over>>

\* The memset at the end of the loop body, behind a message and for a client
\* that sent nothing.
Clear(s) ==
  /\ thread[s] = "printed"
  /\ bytes' = NoText
  /\ thread' = [thread EXCEPT ![s] = "select"]
  /\ Taint(s)
  /\ left_over' = FALSE
  /\ UNCHANGED <<got, shown>>
PassClient(s) ==
  /\ thread[s] = "select"
  /\ bytes' = NoText
  /\ Taint(s)
  /\ left_over' = FALSE
  /\ UNCHANGED <<thread, got, shown>>

\* A new client or a command cancels the thread: in select, or where the
\* callback writes, and then nothing is printed and nothing cleared.
CancelThread(s) ==
  /\ thread[s] \in {"select", "got"}
  /\ thread' = [thread EXCEPT ![s] = "none"]
  /\ left_over' = (left_over \/ thread[s] = "got")
  /\ UNCHANGED <<bytes, got, shown, tainted>>

RecvNext ==
  \E s \in Servers : StartThread(s) \/ Recv(s) \/ Callback(s) \/ Clear(s) \/ PassClient(s) \/ CancelThread(s)

RecvSpec == RecvInit /\ [][RecvNext]_recvVars

(****************************************************************************)
(* Properties.                                                              *)
(****************************************************************************)
\* The application prints a message as it was sent, unless a message of another
\* server shared the buffer with it or was cleared away with it, a thread that
\* was cancelled in its callback left a message there, or the message fills the
\* buffer and has no end.
PrintedAsSent ==
  \A s \in Servers :
    thread[s] = "printed" /\ ~tainted[s] /\ got[s].len < BufSize =>
      shown[s] = [i \in 0..(got[s].len - 1) |-> got[s].text]

\* Between messages there is nothing in the buffer that a later message could
\* be printed with: only a thread that was cancelled in its callback leaves any.
CleanBetween ==
  (\A s \in Servers : thread[s] \in {"none", "select"}) /\ ~left_over => bytes = NoText
================================================================================
