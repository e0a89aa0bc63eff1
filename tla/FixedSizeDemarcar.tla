--------------------------- MODULE FixedSizeDemarcar ---------------------------
(****************************************************************************)
(* tcp_msg_fixed_size_demarcar on its byte_circular_buffer: the receive     *)
(* thread hands each recvfrom to process_msg, which stores the bytes and    *)
(* gives the application every whole message the ring holds.  The callback  *)
(* writes to the terminal, so a receive thread that is being replaced can   *)
(* end there, in the middle of the loop; its successor goes on with the     *)
(* same ring.                                                               *)
(****************************************************************************)
EXTENDS ByteCircularBuffer

CONSTANTS MsgSize,    \* msg_fixed_size
          MaxRecv,    \* MAX_CLIENT_BUFFER_SIZE: the most one recvfrom returns
          Endings,    \* what recvfrom gives at the end: 0, or -1 as a uint16_t
          MaxCancels  \* bound on the receive threads cancelled in the callback

ASSUME MsgSizeAssumption == MsgSize \in 1..ReadSize
ASSUME MaxRecvAssumption == MaxRecv \in Nat /\ MsgSize <= MaxRecv
ASSUME EndingsAssumption == Endings \subseteq {0, 65535} /\ MaxCancels \in Nat

VARIABLES step,      \* "idle", "flush", "callback", or "aborted" by the assertion
          msgs,      \* messages given to client_msg_recvd
          lastMsg,   \* the bytes of the latest one
          cancels    \* receive threads cancelled in the callback

demVars == <<vars, step, msgs, lastMsg, cancels>>

DemInit == Init /\ step = "idle" /\ msgs = 0 /\ lastMsg = <<>> /\ cancels = 0

(****************************************************************************)
(* Faulty variants of the operations below: near misses of the code, not    *)
(* part of the specification, that the properties tell from it.             *)
(****************************************************************************)
\* One message for each process_msg.
FlushesOnce ==
  /\ step = "callback" /\ step' = "idle"
  /\ UNCHANGED <<vars, msgs, lastMsg, cancels>>

\* A new thread that starts with an empty ring.
CancelResets ==
  /\ step = "callback" /\ cancels < MaxCancels
  /\ step' = "idle" /\ cancels' = cancels + 1
  /\ BcbReset
  /\ UNCHANGED <<msgs, lastMsg>>

(****************************************************************************)
(* The code.                                                                *)
(****************************************************************************)
ReadyToFlush == current_size \div MsgSize > 0

\* assert(bcb_write(...)): the process ends when bcb_write returns 0.
WriteAsserted(n) == WriteRefused(n) \/ n = 0

ProcessMsg(n) ==
  /\ step = "idle" /\ written + n <= MaxBytes
  /\ ~WriteAsserted(n) /\ BcbWrite(n)
  /\ step' = IF ReadyToFlush' THEN "flush" ELSE "idle"
  /\ UNCHANGED <<msgs, lastMsg, cancels>>

ProcessMsgAborts(n) ==
  /\ step = "idle" /\ WriteAsserted(n)
  /\ step' = "aborted"
  /\ UNCHANGED <<vars, msgs, lastMsg, cancels>>

\* One round of the loop of process_client_msg: a message, or its end.
FlushOne ==
  /\ step = "flush" /\ BcbRead(MsgSize, TRUE)
  /\ step' = "callback" /\ msgs' = msgs + 1
  /\ lastMsg' = [i \in 1..MsgSize |-> data'[i - 1]]
  /\ UNCHANGED cancels

FlushEnds ==
  /\ step = "flush" /\ ReadRefused(MsgSize)
  /\ step' = "idle"
  /\ UNCHANGED <<vars, msgs, lastMsg, cancels>>

CallbackReturns ==
  /\ step = "callback" /\ step' = "flush"
  /\ UNCHANGED <<vars, msgs, lastMsg, cancels>>

Cancelled ==
  /\ step = "callback" /\ cancels < MaxCancels
  /\ step' = "idle" /\ cancels' = cancels + 1
  /\ UNCHANGED <<vars, msgs, lastMsg>>

Finished == (step = "aborted" \/ written + 1 > MaxBytes) /\ UNCHANGED demVars

DemNext ==
  \/ \E n \in (1..MaxRecv) \cup Endings : ProcessMsg(n) \/ ProcessMsgAborts(n)
  \/ FlushOne \/ FlushEnds \/ CallbackReturns \/ Cancelled \/ Finished

DemSpec == DemInit /\ [][DemNext]_demVars

(****************************************************************************)
(* Properties.                                                              *)
(****************************************************************************)
DemTypeOK ==
  /\ TypeOK
  /\ step \in {"idle", "flush", "callback", "aborted"}
  /\ msgs \in Nat /\ cancels \in 0..MaxCancels
  /\ lastMsg \in {<<>>} \cup [1..MsgSize -> Nat]

\* Between two calls of process_msg less than a message is left in the ring,
\* and at most a message short of a recvfrom more for every thread that was
\* cancelled in the callback: what it leaves is flushed only by the next call.
LeftoverBounded ==
  step = "idle" => current_size <= MsgSize - 1 + cancels * (MaxRecv - MsgSize)

\* The assertion of process_msg holds for every recvfrom that returned bytes:
\* the ring has room for it.  (It fails at the end of every stream.)
DataNeverAborts == [][\A n \in 1..MaxRecv : ~ProcessMsgAborts(n)]_demVars

\* The k-th message is the k-th MsgSize bytes of the client's stream, over every
\* wrap of the ring and every cancelled thread; unless it crosses the end of the
\* ring, for then what stood behind that end is at its beginning (ReadWrapped).
MessageInStream ==
  step = "callback" =>
    LET start == (msgs - 1) * MsgSize
        leading == Size - (start % Size) IN
      \A i \in 1..MsgSize :
        IF MsgSize <= leading THEN lastMsg[i] = start + i
        ELSE i <= MsgSize - leading => lastMsg[i] = start + leading + i

\* Each message is the next MsgSize bytes of the client's stream.
MessageIsNext ==
  step = "callback" => \A i \in 1..MsgSize : lastMsg[i] = taken - MsgSize + i
================================================================================
