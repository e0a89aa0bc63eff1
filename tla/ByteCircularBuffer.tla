--------------------------- MODULE ByteCircularBuffer --------------------------
(****************************************************************************)
(* byte_circular_buffer: a ring of buffer_size bytes that one thread writes *)
(* and reads.  A byte is named by its place in the stream that was written  *)
(* (the first byte is 1); 0 is a byte nobody wrote.  One operator per       *)
(* branch of bcb_write and of bcb_read.                                     *)
(****************************************************************************)
EXTENDS Integers, Sequences

CONSTANTS Size,      \* buffer_size
          ReadSize,  \* bytes in the buffer the caller of bcb_read passes
          MaxBytes   \* bound on the length of the stream

ASSUME SizeAssumption == Size \in Nat /\ 1 <= Size /\ Size <= 65535
ASSUME ReadSizeAssumption == ReadSize \in Nat \ {0} /\ MaxBytes \in Nat

VARIABLES buffer, front, rear, current_size,
          data,      \* the caller's buffer
          written,   \* bytes accepted by bcb_write so far
          taken      \* bytes removed by bcb_read or bcb_reset so far

vars == <<buffer, front, rear, current_size, data, written, taken>>

Init ==
  /\ buffer = [i \in 0..(Size - 1) |-> 0]
  /\ front = 0 /\ rear = 0 /\ current_size = 0
  /\ data = [i \in 0..(ReadSize - 1) |-> 0]
  /\ written = 0 /\ taken = 0

(****************************************************************************)
(* Faulty variants of the operations below: near misses of the code, not    *)
(* part of the specification, that the properties tell from it.             *)
(****************************************************************************)
NeverWraps(i) == i              \* an index left at the end of the buffer

RefusesExactFit(n) == current_size = Size \/ Size - current_size <= n

\* The second memcpy takes its bytes from the start of the data again.
RewritesLeading(n) ==
  LET leading == Size - front
      Put(f, at, k, first) ==
        [i \in 0..(Size - 1) |-> IF at <= i /\ i < at + k THEN first + (i - at) ELSE f[i]]
  IN /\ buffer' = Put(Put(buffer, front, leading, written + 1), 0, n - leading, written + 1)
     /\ front' = n - leading

\* The read starts at slot 0.
ReadsFromSlotZero(n, remove) ==
  /\ data' = [i \in DOMAIN data |-> IF i < n THEN buffer[i] ELSE data[i]]
  /\ rear' = IF ~remove THEN rear ELSE IF rear + n = Size THEN 0 ELSE rear + n

ResetKeepsFront ==
  /\ current_size' = 0 /\ rear' = 0 /\ taken' = written
  /\ UNCHANGED <<front, buffer, data, written>>

\* An index or a size that ran off the end starts again.
Wrap(i) == IF i >= Size THEN i - Size ELSE i
AtEnd(i) == IF i = Size THEN 0 ELSE i

IsFull == current_size = Size
AvailableSize == Size - current_size

(****************************************************************************)
(* bcb_write(data, n): the next n bytes of the stream.                      *)
(****************************************************************************)
WriteRefused(n) == IsFull \/ AvailableSize < n

\* Bytes first, first + 1, ... copied to n slots from slot `at`.
Filled(f, at, n, first) ==
  [i \in 0..(Size - 1) |-> IF at <= i /\ i < at + n THEN first + (i - at) ELSE f[i]]

WriteInOneRun(n) ==
  /\ buffer' = Filled(buffer, front, n, written + 1)
  /\ front' = AtEnd(front + n)

WriteWrapped(n) ==
  LET leading == Size - front IN
    /\ buffer' = Filled(Filled(buffer, front, leading, written + 1),
                        0, n - leading, written + 1 + leading)
    /\ front' = n - leading

BcbWrite(n) ==
  /\ ~WriteRefused(n)
  /\ IF front < rear \/ n <= Size - front THEN WriteInOneRun(n) ELSE WriteWrapped(n)
  /\ current_size' = current_size + n
  /\ written' = written + n
  /\ UNCHANGED <<rear, data, taken>>

(****************************************************************************)
(* bcb_read(data, n, remove_read_bytes).                                    *)
(****************************************************************************)
ReadRefused(n) == current_size < n

\* n slots from slot `at`, copied to the start of d.
Copied(d, at, n) == [i \in DOMAIN d |-> IF i < n THEN buffer[at + i] ELSE d[i]]

ReadWraps(n) == ~(rear < front) /\ n > Size - rear

ReadInOneRun(n, remove) ==
  /\ data' = Copied(data, rear, n)
  /\ rear' = IF remove THEN AtEnd(rear + n) ELSE rear

\* The second memcpy starts at data again, not after the leading bytes.
ReadWrapped(n, remove) ==
  LET leading == Size - rear IN
    /\ data' = Copied(Copied(data, rear, leading), 0, n - leading)
    /\ rear' = IF remove THEN n - leading ELSE rear

BcbRead(n, remove) ==
  /\ ~ReadRefused(n)
  /\ IF ReadWraps(n) THEN ReadWrapped(n, remove) ELSE ReadInOneRun(n, remove)
  /\ current_size' = IF remove THEN current_size - n ELSE current_size
  /\ taken' = IF remove THEN taken + n ELSE taken
  /\ UNCHANGED <<buffer, front, written>>

BcbReset ==
  /\ current_size' = 0 /\ front' = 0 /\ rear' = 0
  /\ taken' = written
  /\ UNCHANGED <<buffer, data, written>>

\* A refused call returns 0 and changes nothing.
Refused(n) == (WriteRefused(n) \/ ReadRefused(n)) /\ UNCHANGED vars

Write(n) == written + n <= MaxBytes /\ BcbWrite(n)

Next ==
  \/ \E n \in 0..Size : Write(n) \/ Refused(n)
  \/ \E n \in 0..ReadSize, remove \in BOOLEAN : BcbRead(n, remove)
  \/ BcbReset

Spec == Init /\ [][Next]_vars

(****************************************************************************)
(* Properties.                                                              *)
(****************************************************************************)
\* Type invariant: the indices name slots, whatever branch moved them, so no
\* memcpy of a later call leaves the buffer.
TypeOK ==
  /\ buffer \in [0..(Size - 1) -> Nat]
  /\ front \in 0..(Size - 1) /\ rear \in 0..(Size - 1)
  /\ current_size \in 0..Size
  /\ data \in [0..(ReadSize - 1) -> Nat]
  /\ written \in Nat /\ taken \in Nat

\* current_size, which alone tells an empty ring from a full one, agrees with
\* the indices and with the bytes that went in and out.
Accounting ==
  /\ current_size = written - taken
  /\ front = Wrap(rear + current_size)

\* The ring holds exactly the bytes not read yet, oldest at rear: a write
\* never lands on an unread byte, on whichever side of the end it falls.
HoldsUnread ==
  \A k \in 0..(Size - 1) : k < current_size => buffer[Wrap(rear + k)] = taken + 1 + k

\* A read that does not cross the end of the ring gives the oldest bytes.
ReadsOldest ==
  [][\A n \in 1..ReadSize :
       BcbRead(n, TRUE) /\ ~ReadWraps(n) =>
         \A i \in 0..(n - 1) : data'[i] = taken + 1 + i]_vars
================================================================================
