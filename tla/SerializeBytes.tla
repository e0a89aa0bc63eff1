------------------------------ MODULE SerializeBytes -----------------------------
(****************************************************************************)
(* serialize.c: the buffer of bytes behind the values of a command.  b is   *)
(* the memory, `next` where the following value goes, `checkpoint` where    *)
(* restore goes back to.  A value is as many bytes as its type has, all     *)
(* alike; Unset is a byte of memory that nobody wrote.                      *)
(****************************************************************************)
EXTENDS Integers

CONSTANTS DefaultSize,  \* SERIALIZE_BUFFER_DEFAULT_SIZE
          TypeSize,     \* sizeof, for "char", "int", "float", "double" and "tlv"
          Bytes, Unset, \* what the bytes of a value are told apart by
          MaxNext       \* bound on the length of the contents

ASSUME SerAssumption ==
  /\ DefaultSize \in Nat \ {0} /\ MaxNext \in Nat
  /\ TypeSize \in [{"char", "int", "float", "double", "tlv"} -> Nat \ {0}]
  /\ Unset \notin Bytes

VARIABLES b, size, next, checkpoint,
          said,     \* the last byte written at each offset that still counts
          emptied,  \* the buffer was truncated when there was nothing in it
          state     \* "ok", "stuck" in a loop that doubles 0, or "overran" b

serVars == <<b, size, next, checkpoint, said, emptied, state>>

\* init_serialized_buffer
SerInit ==
  /\ b = [i \in 0..(DefaultSize - 1) |-> Unset]
  /\ size = DefaultSize /\ next = 0 /\ checkpoint = 0
  /\ said = [i \in {} |-> Unset]
  /\ emptied = FALSE /\ state = "ok"

\* A faulty variant of Resized: the new memory does not have the bytes of the old.
ResizedFresh(f, n) == [i \in 0..(n - 1) |-> IF n = size THEN f[i] ELSE Unset]

\* realloc keeps what it can, memcpy replaces n bytes from offset `at`.
Resized(f, n) == [i \in 0..(n - 1) |-> IF i \in DOMAIN f THEN f[i] ELSE Unset]
Written(f, at, n, v) == [i \in DOMAIN f \cup at..(at + n - 1) |-> IF i \in at..(at + n - 1) THEN v ELSE f[i]]

(****************************************************************************)
(* Faulty variants of the operations below: near misses of the code, not    *)
(* part of the specification, that the properties tell from it.             *)
(****************************************************************************)
\* The copy is made as large as the checkpoint.
SizedByCheckpoint == checkpoint

(****************************************************************************)
(* Growing: the size doubles until n more bytes fit, and is 0 for ever when *)
(* it is 0.                                                                 *)
(****************************************************************************)
Grown(n) ==
  LET grow[s \in Nat] == IF s - next >= n THEN s ELSE grow[2 * s]
  IN grow[size]
Endless(n) == size - next < n /\ size = 0
Stuck == state' = "stuck" /\ UNCHANGED <<b, size, next, checkpoint, said, emptied>>

\* What every serialize function does with its n bytes.
Serialize(n, v) ==
  IF Endless(n) THEN Stuck
  ELSE /\ size' = Grown(n)
       /\ b' = Written(Resized(b, size'), next, n, v)
       /\ said' = Written(said, next, n, v)
       /\ next' = next + n
       /\ UNCHANGED <<checkpoint, emptied, state>>

SerializeInt(v) == Serialize(TypeSize["int"], v)
SerializeInt8(v) == Serialize(TypeSize["char"], v)
SerializeUint8(v) == Serialize(TypeSize["char"], v)
SerializeInt32(v) == Serialize(TypeSize["int"], v)
SerializeUint32(v) == Serialize(TypeSize["int"], v)
SerializeFloat(v) == Serialize(TypeSize["float"], v)
SerializeDouble(v) == Serialize(TypeSize["double"], v)
SerializeString(n, v) == Serialize(n, v)

\* serialize_buffer_skip, forwards over bytes that it leaves as they are or
\* backwards over what was written.
Skip(n) ==
  IF Endless(n) THEN Stuck
  ELSE /\ size' = Grown(n)
       /\ b' = Resized(b, size')
       /\ next' = next + n
       /\ UNCHANGED <<checkpoint, said, emptied, state>>

MarkCheckpoint == checkpoint' = next /\ UNCHANGED <<b, size, next, said, emptied, state>>
RestoreCheckpoint == next' = checkpoint /\ UNCHANGED <<b, size, checkpoint, said, emptied, state>>
ResetBuffer == next' = 0 /\ checkpoint' = 0 /\ UNCHANGED <<b, size, said, emptied, state>>

\* truncate_serialize_buffer: a copy of exactly the bytes below next, whose
\* checkpoint is 0.
CopySize == next
Truncate ==
  /\ next # size
  /\ size' = CopySize /\ next' = CopySize /\ checkpoint' = 0
  /\ b' = Resized(b, CopySize)
  /\ said' = [i \in DOMAIN said \cap 0..(next - 1) |-> said[i]]
  /\ emptied' = (next = 0)
  /\ UNCHANGED state

\* de_serialize_string and deserialize_primitive move over n bytes of a value,
\* the macro without the check.
Deserialize(n) == size - next >= n /\ next' = next + n /\ UNCHANGED <<b, size, checkpoint, said, emptied, state>>

\* copy_in_serialized_buffer_by_offset: n bytes must be free behind next, and
\* the offset alone must lie in the buffer.
CopyIn(n, v, offset) ==
  /\ size - next >= n /\ offset <= size
  /\ IF offset + n > size
     THEN state' = "overran" /\ UNCHANGED <<b, said>>
     ELSE b' = Written(b, offset, n, v) /\ said' = Written(said, offset, n, v) /\ UNCHANGED state
  /\ UNCHANGED <<size, next, checkpoint, emptied>>

SerNext ==
  /\ state = "ok"
  /\ \/ \E v \in Bytes :
          \/ next + TypeSize["int"] <= MaxNext /\ (SerializeInt(v) \/ SerializeInt32(v) \/ SerializeUint32(v))
          \/ next + TypeSize["char"] <= MaxNext /\ (SerializeInt8(v) \/ SerializeUint8(v))
          \/ next + TypeSize["float"] <= MaxNext /\ SerializeFloat(v)
          \/ next + TypeSize["double"] <= MaxNext /\ SerializeDouble(v)
          \/ next + TypeSize["tlv"] <= MaxNext /\ SerializeString(TypeSize["tlv"], v)
          \/ \E n \in 1..TypeSize["tlv"], offset \in 0..size : CopyIn(n, v, offset)
     \/ \E n \in -next..(MaxNext - next) : Skip(n)
     \/ \E t \in DOMAIN TypeSize : Deserialize(TypeSize[t])
     \/ MarkCheckpoint \/ RestoreCheckpoint \/ ResetBuffer \/ Truncate

SerSpec == SerInit /\ [][SerNext]_serVars

(****************************************************************************)
(* Properties.                                                              *)
(****************************************************************************)
\* What was written at an offset is read back there: growing, truncating,
\* skipping and going back to the checkpoint lose none of it.
ReadsBack == \A i \in DOMAIN said : i < size /\ b[i] = said[i]

\* The doubling ends in every call but one: the one that follows a truncation
\* of the buffer while it was empty, which leaves a size of 0.
GrowthEnds == state = "stuck" => emptied
================================================================================
