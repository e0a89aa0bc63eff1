-------------------------------- MODULE AppView --------------------------------
(****************************************************************************)
(* What the library promises the application through its callbacks: each    *)
(* client is announced once, before any of its messages, and the messages   *)
(* it is given only ever grow in number.                                    *)
(****************************************************************************)
EXTENDS Naturals

CONSTANT Clients

VARIABLES told,   \* clients announced by client_connected
          given   \* messages given by client_msg_recvd, per client

Init == told = {} /\ given = [c \in Clients |-> 0]

ClientConnected(c) ==
  /\ c \notin told
  /\ told' = told \cup {c}
  /\ UNCHANGED given

ClientMsgRecvd(c) ==
  /\ c \in told
  /\ given'[c] > given[c]
  /\ given' = [given EXCEPT ![c] = given'[c]]
  /\ UNCHANGED told

Next == \E c \in Clients : ClientConnected(c) \/ ClientMsgRecvd(c)

Spec == Init /\ [][Next]_<<told, given>>
================================================================================
