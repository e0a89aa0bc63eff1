----------------------------- MODULE SerializeBuffer ----------------------------
(****************************************************************************)
(* The serialisation buffer that collects the values of a command, as the   *)
(* command parser uses it: whole units of UnitSize bytes (tlv_struct_t) are *)
(* appended, one is taken back, and the position is saved and restored.     *)
(* b is what lies below `next`, one element per unit.                       *)
(****************************************************************************)
EXTENDS Integers, Sequences

CONSTANTS UnitSize,  \* sizeof(tlv_struct_t)
          InitSize   \* bytes of the buffer at first

ASSUME UnitSizeAssumption == UnitSize \in Nat \ {0}
ASSUME InitSizeAssumption == InitSize \in Nat /\ UnitSize <= InitSize

NewBuffer == [b |-> <<>>, size |-> InitSize, checkpoint |-> 0]

\* A faulty variant: the buffer grows once it has overflowed.
FittedLate(s) == IF s.size < Len(s.b) * UnitSize THEN 2 * s.size ELSE s.size

\* serialize_string doubles the buffer while the unit does not fit: once,
\* since a unit is no larger than the buffer.
Fitted(s) == IF s.size - Len(s.b) * UnitSize < UnitSize THEN 2 * s.size ELSE s.size
Collect(s, unit) == [b |-> Append(s.b, unit), size |-> Fitted(s), checkpoint |-> s.checkpoint]

\* `next` moves, the bytes stay; the checkpoint is never ahead of `next`.
Cut(s, n, checkpoint) == [b |-> SubSeq(s.b, 1, n), size |-> s.size, checkpoint |-> checkpoint]
Mark(s) == [b |-> s.b, size |-> s.size, checkpoint |-> Len(s.b)]
RestoreBuffer(s) == Cut(s, s.checkpoint, s.checkpoint)
Reset(s) == Cut(s, 0, 0)

\* The units of a branch of the tree, one after the other into the buffer that
\* was reset: its size doubles until they fit (one size, stated as a set).
Refills(s, units) ==
  LET need == Len(units) * UnitSize
      sizes == {y \in s.size..(s.size + 2 * need) : \E k \in 0..Len(units) : y = s.size * 2 ^ k} IN
  {[b |-> units, size |-> y, checkpoint |-> Len(units)] :
     y \in {z \in sizes : need <= z /\ (z > s.size => z < 2 * need)}}

\* serialize_buffer_skip by one unit backwards, of a buffer that is not empty.
Rewind(s) == Cut(s, Len(s.b) - 1, s.checkpoint)
================================================================================
