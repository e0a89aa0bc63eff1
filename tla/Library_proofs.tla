------------------------------ MODULE Library_proofs -----------------------------
(****************************************************************************)
(* Proofs about two parts of the command parser that keep their data in     *)
(* static memory or in memory of their own.                                 *)
(*                                                                          *)
(* The serialisation buffer, for every size it starts with and all sizes of *)
(* values: what was written is read back, and the doubling ends unless the  *)
(* buffer was truncated when it was empty.                                  *)
(*                                                                          *)
(* The tokeniser, for lines of any length and an array of any number of     *)
(* slots: the array has the words of the last line.  The substitution, for  *)
(* any line: every occurrence of the variable is replaced, if they do not   *)
(* touch.  Both are recursions over the line; what they return is shown by  *)
(* the least, or the last, place where it would be wrong.                   *)
(****************************************************************************)
EXTENDS SerializeBytes, StringUtil, DataLemmas, SequenceTheorems

(****************************************************************************)
(* The serialisation buffer.                                                *)
(****************************************************************************)
\* The position and the checkpoint are in the buffer, nothing counts that is
\* not in it, and only the truncation of an empty buffer leaves no memory.
SerTypeOK ==
  /\ size \in Nat /\ next \in 0..size /\ checkpoint \in 0..size
  /\ b \in [0..(size - 1) -> Bytes \cup {Unset}]
  /\ DOMAIN said \subseteq 0..(size - 1)
  /\ size = 0 => emptied
SerInv == SerTypeOK /\ ReadsBack /\ GrowthEnds

(****************************************************************************)
(* The doubling.  g is what the loop returns for each size it starts from.  *)
(****************************************************************************)
Doubling(g, need, low) ==
  g = [s \in {k \in Nat \ {0} : k >= low} |-> IF s >= need THEN s ELSE g[2 * s]]

\* Where the loop has not enough yet, it goes on from a larger size: so it can
\* be followed from the sizes that are enough down to any other.
LEMMA DoublingExists ==
  ASSUME NEW need \in Int, NEW low \in Nat \ {0}
  PROVE  \E g : Doubling(g, need, low)
<1> DEFINE From(l) == {k \in Nat \ {0} : k >= l}
           T == {d \in Nat : \E l \in Nat \ {0} : d = need - l /\ ~ \E g : Doubling(g, need, l)}
<1>1. ASSUME NEW l \in Nat \ {0}, l >= need PROVE \E g : Doubling(g, need, l)
  <2> DEFINE g == [s \in From(l) |-> s]
  <2>1. g = [s \in From(l) |-> IF s >= need THEN s ELSE g[2 * s]]
    BY <1>1
  <2> QED BY <2>1 DEF Doubling
<1>2. T = {}
  <2> SUFFICES ASSUME T # {} PROVE FALSE
    OBVIOUS
  <2>1. PICK d \in T : \A k \in T : d <= k
    BY LeastNumber
  <2>2. PICK l \in Nat \ {0} : d = need - l /\ ~ \E g : Doubling(g, need, l)
    BY <2>1
  <2>3. l < need
    BY <1>1, <2>2
  <2>4. d - 1 \notin T
    BY <2>1
  <2>5. \E g : Doubling(g, need, l + 1)
    BY <2>2, <2>3, <2>4
  <2>6. PICK h : Doubling(h, need, l + 1)
    BY <2>5
  <2> HIDE DEF T
  <2> DEFINE g == [s \in From(l) |-> IF s = l THEN h[2 * l] ELSE h[s]]
  <2>7. \A s \in From(l + 1) : h[s] = IF s >= need THEN s ELSE h[2 * s]
    BY <2>6 DEF Doubling
  <2>8. ASSUME NEW s \in From(l) PROVE g[s] = IF s >= need THEN s ELSE g[2 * s]
    <3>1. 2 * s \in From(l) /\ 2 * s # l /\ g[2 * s] = h[2 * s]
      OBVIOUS
    <3>2. CASE s = l
      BY <2>3, <3>1, <3>2
    <3>3. CASE s # l
      <4>1. s \in From(l + 1)
        BY <3>3
      <4> QED BY <2>7, <3>1, <3>3, <4>1
    <3> QED BY <3>2, <3>3
  <2>9. g = [s \in From(l) |-> IF s >= need THEN s ELSE g[2 * s]]
    BY <2>8
  <2> QED BY <2>2, <2>9 DEF Doubling
<1>3. need - low \notin T
  BY <1>2
<1> QED BY <1>1, <1>3

LEMMA DoublingFits ==
  ASSUME NEW need \in Int, NEW g, Doubling(g, need, 1), NEW s \in Nat \ {0}
  PROVE  g[s] \in Nat /\ g[s] >= s /\ g[s] >= need
<1> DEFINE fits(k) == g[k] \in Nat /\ g[k] >= k /\ g[k] >= need
           T == {d \in Nat : \E k \in Nat \ {0} : d = need - k /\ ~fits(k)}
<1>1. \A k \in Nat \ {0} : g[k] = IF k >= need THEN k ELSE g[2 * k]
  BY DEF Doubling
<1>2. \A k \in Nat \ {0} : k >= need => fits(k)
  BY <1>1
<1>3. T = {}
  <2> SUFFICES ASSUME T # {} PROVE FALSE
    OBVIOUS
  <2>1. PICK d \in T : \A k \in T : d <= k
    BY LeastNumber
  <2>2. PICK k \in Nat \ {0} : d = need - k /\ ~fits(k)
    BY <2>1
  <2>3. k < need /\ g[k] = g[2 * k] /\ 2 * k \in Nat \ {0} /\ 2 * k > k
    BY <1>1, <1>2, <2>2
  <2>4. ~fits(2 * k)
    BY <2>2, <2>3
  <2>5. 2 * k < need
    BY <1>2, <2>3, <2>4
  <2>6. need - 2 * k \in T /\ need - 2 * k < d
    BY <2>2, <2>3, <2>4, <2>5
  <2> HIDE DEF T
  <2> QED BY <2>1, <2>2, <2>6
<1>4. need - s \notin T
  BY <1>3
<1> QED BY <1>2, <1>4

\* The size after a call is enough for its bytes, and never less than before.
LEMMA GrownFits ==
  ASSUME size \in Nat, next \in Nat, NEW n \in Int, ~Endless(n)
  PROVE  Grown(n) \in Nat /\ Grown(n) >= size /\ Grown(n) >= next + n
<1> DEFINE IsGrow(g) == g = [s \in Nat |-> IF s - next >= n THEN s ELSE g[2 * s]]
           grow == CHOOSE g : IsGrow(g)
<1>1. \E g : IsGrow(g)
  <2>1. PICK h : Doubling(h, next + n, 1)
    BY DoublingExists
  <2>2. \A s \in Nat \ {0} : h[s] = IF s - next >= n THEN s ELSE h[2 * s]
    BY <2>1 DEF Doubling
  <2> DEFINE g == [s \in Nat |-> IF s = 0 THEN 0 ELSE h[s]]
  <2>3. ASSUME NEW s \in Nat PROVE g[s] = IF s - next >= n THEN s ELSE g[2 * s]
    BY <2>2
  <2>4. g = [s \in Nat |-> IF s - next >= n THEN s ELSE g[2 * s]]
    BY <2>3
  <2> QED BY <2>4
<1>2. IsGrow(grow) /\ Grown(n) = grow[size]
  BY <1>1 DEF Grown
<1> HIDE DEF grow
<1>3. \A s \in Nat : grow[s] = IF s - next >= n THEN s ELSE grow[2 * s]
  BY <1>2
<1>4. CASE size = 0
  BY <1>2, <1>3, <1>4 DEF Endless
<1>5. CASE size # 0
  <2> DEFINE g == [s \in {k \in Nat \ {0} : k >= 1} |-> grow[s]]
  <2>1. g = [s \in {k \in Nat \ {0} : k >= 1} |-> IF s >= next + n THEN s ELSE g[2 * s]]
    BY <1>3
  <2>2. Doubling(g, next + n, 1)
    BY <2>1 DEF Doubling
  <2>3. g[size] = grow[size] /\ size \in Nat \ {0}
    BY <1>5
  <2> HIDE DEF g
  <2> QED BY <1>2, <2>2, <2>3, DoublingFits
<1> QED BY <1>4, <1>5

(****************************************************************************)
(* The operations.                                                          *)
(****************************************************************************)
\* A byte of memory after it was resized, and after n bytes were written to it.
LEMMA ResizedIs ==
  ASSUME NEW m \in Nat, NEW f \in [0..(m - 1) -> Bytes \cup {Unset}], NEW n \in Nat
  PROVE  /\ Resized(f, n) \in [0..(n - 1) -> Bytes \cup {Unset}]
         /\ \A i \in 0..(n - 1) : i < m => Resized(f, n)[i] = f[i]
BY DEF Resized

LEMMA WrittenMemory ==
  ASSUME NEW m \in Nat, NEW f \in [0..(m - 1) -> Bytes \cup {Unset}],
         NEW at \in Nat, NEW n \in Nat, at + n <= m, NEW v \in Bytes
  PROVE  Written(f, at, n, v) \in [0..(m - 1) -> Bytes \cup {Unset}]
<1>1. DOMAIN f = 0..(m - 1) /\ 0..(m - 1) \cup at..(at + n - 1) = 0..(m - 1)
  OBVIOUS
<1> QED BY <1>1 DEF Written

LEMMA SerInitInv == SerInit => SerInv
BY SerAssumption DEF SerInit, SerInv, SerTypeOK, ReadsBack, GrowthEnds

\* What is written counts and is in the memory, however the memory was moved.
LEMMA SerializeStep ==
  ASSUME SerInv, state = "ok", NEW n \in Nat \ {0}, NEW v \in Bytes, Serialize(n, v)
  PROVE  SerInv'
<1>1. CASE Endless(n)
  BY <1>1 DEF Serialize, Stuck, Endless, SerInv, SerTypeOK, ReadsBack, GrowthEnds
<1>2. CASE ~Endless(n)
  <2>1. size' \in Nat /\ size' >= size /\ size' >= next + n /\ next' = next + n
    BY <1>2, GrownFits DEF Serialize, SerInv, SerTypeOK
  <2>2. /\ b' = Written(Resized(b, size'), next, n, v) /\ said' = Written(said, next, n, v)
        /\ UNCHANGED <<checkpoint, emptied, state>>
    BY <1>2 DEF Serialize
  <2>3. /\ size \in Nat /\ next \in Nat /\ next <= size /\ checkpoint \in 0..size
        /\ b \in [0..(size - 1) -> Bytes \cup {Unset}]
        /\ DOMAIN said \subseteq 0..(size - 1) /\ \A i \in DOMAIN said : b[i] = said[i]
    BY DEF SerInv, SerTypeOK, ReadsBack
  <2> DEFINE r == Resized(b, size')
  <2>4. r \in [0..(size' - 1) -> Bytes \cup {Unset}] /\ \A i \in 0..(size' - 1) : i < size => r[i] = b[i]
    <3>1. size \in Nat /\ size' \in Nat /\ b \in [0..(size - 1) -> Bytes \cup {Unset}]
      BY <2>1, <2>3
    <3> QED BY <3>1, ResizedIs DEF r
  <2> HIDE DEF r
  <2>5. b' \in [0..(size' - 1) -> Bytes \cup {Unset}]
    BY <2>1, <2>2, <2>3, <2>4, WrittenMemory DEF r
  <2>s. DOMAIN said \subseteq Nat /\ DOMAIN r = 0..(size' - 1) /\ DOMAIN r \subseteq Nat
    BY <2>3, <2>4
  <2>6. /\ DOMAIN said' = DOMAIN said \cup next..(next + n - 1)
        /\ \A i \in DOMAIN said' : said'[i] = IF i \in next..(next + n - 1) THEN v ELSE said[i]
    BY <2>2 DEF Written
  <2>7. \A i \in 0..(size' - 1) : b'[i] = IF i \in next..(next + n - 1) THEN v ELSE r[i]
    <3>1. b' = Written(r, next, n, v)
      BY <2>2 DEF r
    <3>2. \A i \in DOMAIN r \cup next..(next + n - 1) : b'[i] = IF i \in next..(next + n - 1) THEN v ELSE r[i]
      BY <3>1 DEF Written
    <3> QED BY <2>s, <3>2
  <2>8. SerTypeOK'
    <3>1. next' \in 0..size' /\ checkpoint' \in 0..size' /\ size' # 0
      BY <2>1, <2>2, <2>3
    <3>2. DOMAIN said' \subseteq 0..(size' - 1)
      BY <2>1, <2>3, <2>6
    <3> QED BY <2>1, <2>5, <3>1, <3>2 DEF SerTypeOK
  <2>9. ASSUME NEW i \in DOMAIN said' PROVE i < size' /\ b'[i] = said'[i]
    <3>1. i \in 0..(size' - 1) /\ (i \in DOMAIN said => i < size)
      BY <2>1, <2>3, <2>6
    <3>2. /\ said'[i] = IF i \in next..(next + n - 1) THEN v ELSE said[i]
          /\ b'[i] = IF i \in next..(next + n - 1) THEN v ELSE r[i]
      BY <2>6, <2>7, <3>1
    <3>3. i \in next..(next + n - 1) \/ r[i] = said[i]
      BY <2>3, <2>4, <2>6, <3>1
    <3> QED BY <2>1, <3>1, <3>2, <3>3
  <2> QED BY <2>2, <2>8, <2>9 DEF SerInv, ReadsBack, GrowthEnds
<1> QED BY <1>1, <1>2

LEMMA SkipStep ==
  ASSUME SerInv, state = "ok", NEW n \in Int, n >= -next, Skip(n)
  PROVE  SerInv'
<1>1. CASE Endless(n)
  BY <1>1 DEF Skip, Stuck, Endless, SerInv, SerTypeOK, ReadsBack, GrowthEnds
<1>2. CASE ~Endless(n)
  <2>1. size' \in Nat /\ size' >= size /\ size' >= next + n /\ next' = next + n
    BY <1>2, GrownFits DEF Skip, SerInv, SerTypeOK
  <2>2. b' = Resized(b, size') /\ UNCHANGED <<checkpoint, said, emptied, state>>
    BY <1>2 DEF Skip
  <2>3. /\ b' \in [0..(size' - 1) -> Bytes \cup {Unset}]
        /\ \A i \in 0..(size' - 1) : i < size => b'[i] = b[i]
    BY <2>1, <2>2, ResizedIs DEF SerInv, SerTypeOK
  <2>4. SerTypeOK'
    <3>1. next' \in 0..size' /\ checkpoint' \in 0..size' /\ DOMAIN said' \subseteq 0..(size' - 1)
      BY <2>1, <2>2 DEF SerInv, SerTypeOK
    <3>2. size' = 0 => emptied'
      BY <2>1, <2>2 DEF SerInv, SerTypeOK
    <3> QED BY <2>1, <2>3, <3>1, <3>2 DEF SerTypeOK
  <2>5. ReadsBack'
    <3>1. said' = said /\ \A i \in DOMAIN said : i \in 0..(size - 1) /\ b[i] = said[i]
      BY <2>2 DEF SerInv, SerTypeOK, ReadsBack
    <3>2. \A i \in DOMAIN said : i \in 0..(size' - 1) /\ i < size /\ i < size'
      BY <2>1, <3>1 DEF SerInv, SerTypeOK
    <3>3. \A i \in DOMAIN said : b'[i] = said[i]
      BY <2>3, <3>1, <3>2
    <3> QED BY <3>1, <3>2, <3>3 DEF ReadsBack
  <2> QED BY <2>2, <2>4, <2>5 DEF SerInv, GrowthEnds
<1> QED BY <1>1, <1>2

LEMMA TruncateStep == ASSUME SerInv, state = "ok", Truncate PROVE SerInv'
<1>1. size' = next /\ next' = next /\ checkpoint' = 0 /\ next \in Nat /\ next < size
  BY DEF Truncate, CopySize, SerInv, SerTypeOK
<1>2. /\ b' \in [0..(next - 1) -> Bytes \cup {Unset}]
      /\ \A i \in 0..(next - 1) : b'[i] = b[i]
  BY <1>1, ResizedIs DEF Truncate, CopySize, SerInv, SerTypeOK
<1>3. /\ DOMAIN said' \subseteq 0..(next - 1)
      /\ \A i \in DOMAIN said' : i \in DOMAIN said /\ said'[i] = said[i]
  BY DEF Truncate
<1>4. SerTypeOK'
  <2>1. next' \in 0..size' /\ checkpoint' \in 0..size' /\ DOMAIN said' \subseteq 0..(size' - 1)
    BY <1>1, <1>3
  <2>2. size' = 0 => emptied'
    BY <1>1 DEF Truncate
  <2> QED BY <1>1, <1>2, <2>1, <2>2 DEF SerTypeOK
<1>5. ReadsBack'
  BY <1>1, <1>2, <1>3 DEF SerInv, SerTypeOK, ReadsBack
<1> QED BY <1>4, <1>5 DEF Truncate, SerInv, GrowthEnds

LEMMA CopyInStep ==
  ASSUME SerInv, state = "ok", NEW n \in Nat \ {0}, NEW v \in Bytes, NEW offset \in 0..size, CopyIn(n, v, offset)
  PROVE  SerInv'
<1>1. CASE offset + n > size
  BY <1>1 DEF CopyIn, SerInv, SerTypeOK, ReadsBack, GrowthEnds
<1>2. CASE offset + n <= size
  <2>1. /\ size \in Nat /\ offset \in Nat /\ b \in [0..(size - 1) -> Bytes \cup {Unset}]
        /\ DOMAIN said \subseteq 0..(size - 1) /\ \A i \in DOMAIN said : b[i] = said[i]
    BY DEF SerInv, SerTypeOK, ReadsBack
  <2>2. b' = Written(b, offset, n, v) /\ said' = Written(said, offset, n, v)
        /\ UNCHANGED <<size, next, checkpoint, emptied, state>>
    BY <1>2, <2>1 DEF CopyIn
  <2>3. b' \in [0..(size - 1) -> Bytes \cup {Unset}]
    BY <1>2, <2>1, <2>2, WrittenMemory
  <2>s. DOMAIN said \subseteq Nat /\ DOMAIN b = 0..(size - 1) /\ DOMAIN b \subseteq Nat
    BY <2>1
  <2>4. /\ DOMAIN said' = DOMAIN said \cup offset..(offset + n - 1)
        /\ \A i \in DOMAIN said' : said'[i] = IF i \in offset..(offset + n - 1) THEN v ELSE said[i]
    BY <2>2 DEF Written
  <2>5. \A i \in 0..(size - 1) : b'[i] = IF i \in offset..(offset + n - 1) THEN v ELSE b[i]
    <3>1. \A i \in DOMAIN b \cup offset..(offset + n - 1) : b'[i] = IF i \in offset..(offset + n - 1) THEN v ELSE b[i]
      BY <2>2 DEF Written
    <3> QED BY <2>s, <3>1
  <2>6. SerTypeOK' /\ ReadsBack'
    BY <1>2, <2>1, <2>2, <2>3, <2>4, <2>5 DEF SerInv, SerTypeOK, ReadsBack
  <2> QED BY <2>2, <2>6 DEF SerInv, GrowthEnds
<1> QED BY <1>1, <1>2 DEF SerInv, SerTypeOK

\* Going to another position, forwards by a value or back, writes nothing.
LEMMA MoveStep ==
  ASSUME SerInv, state = "ok",
         \/ \E t \in DOMAIN TypeSize : Deserialize(TypeSize[t])
         \/ MarkCheckpoint \/ RestoreCheckpoint \/ ResetBuffer
  PROVE  SerInv'
<1>1. ASSUME NEW t \in DOMAIN TypeSize, Deserialize(TypeSize[t]) PROVE SerInv'
  <2>1. TypeSize[t] \in Nat
    BY SerAssumption
  <2> QED BY <1>1, <2>1 DEF Deserialize, SerInv, SerTypeOK, ReadsBack, GrowthEnds
<1>2. ASSUME MarkCheckpoint \/ RestoreCheckpoint \/ ResetBuffer PROVE SerInv'
  BY <1>2 DEF MarkCheckpoint, RestoreCheckpoint, ResetBuffer, SerInv, SerTypeOK, ReadsBack, GrowthEnds
<1> QED BY <1>1, <1>2

LEMMA SerStep == ASSUME SerInv, [SerNext]_serVars PROVE SerInv'
<1>0. \A t \in DOMAIN TypeSize : TypeSize[t] \in Nat \ {0}
  BY SerAssumption
<1>d. {"char", "int", "float", "double", "tlv"} = DOMAIN TypeSize
  BY SerAssumption
<1>1. ASSUME NEW v \in Bytes, NEW t \in DOMAIN TypeSize, state = "ok", Serialize(TypeSize[t], v)
      PROVE  SerInv'
  BY <1>0, <1>1, SerializeStep
<1>2. ASSUME NEW v \in Bytes, state = "ok",
             \/ SerializeInt(v) \/ SerializeInt32(v) \/ SerializeUint32(v) \/ SerializeInt8(v) \/ SerializeUint8(v)
             \/ SerializeFloat(v) \/ SerializeDouble(v) \/ SerializeString(TypeSize["tlv"], v)
      PROVE  SerInv'
  BY <1>d, <1>1, <1>2
  DEF SerializeInt, SerializeInt32, SerializeUint32, SerializeInt8, SerializeUint8, SerializeFloat,
      SerializeDouble, SerializeString
<1>3. ASSUME NEW v \in Bytes, NEW n \in 1..TypeSize["tlv"], NEW offset \in 0..size, state = "ok", CopyIn(n, v, offset)
      PROVE  SerInv'
  <2>1. n \in Nat \ {0}
    BY <1>0, <1>d
  <2> QED BY <1>3, <2>1, CopyInStep
<1>4. ASSUME NEW n \in -next..(MaxNext - next), state = "ok", Skip(n) PROVE SerInv'
  <2>1. n \in Int /\ n >= -next
    BY SerAssumption DEF SerInv, SerTypeOK
  <2> QED BY <1>4, <2>1, SkipStep
<1>5. ASSUME UNCHANGED serVars PROVE SerInv'
  BY <1>5 DEF serVars, SerInv, SerTypeOK, ReadsBack, GrowthEnds
<1> QED BY <1>2, <1>3, <1>4, <1>5, MoveStep, TruncateStep DEF SerNext

LEMMA SerAlways == SerSpec => []SerInv
BY SerInitInv, SerStep, PTL DEF SerSpec

\* Whatever the sizes of the values and however often the buffer grows, is
\* truncated, or is moved about in, a byte that was written is at its offset.
THEOREM WrittenIsReadBack == SerSpec => []ReadsBack
<1>1. SerInv => ReadsBack
  BY DEF SerInv
<1> QED BY <1>1, SerAlways, PTL

\* The loop that doubles the size ends (serialize.c:93 and its like), unless
\* the buffer was truncated when there was nothing in it.
THEOREM DoublingEnds == SerSpec => []GrowthEnds
<1>1. SerInv => GrowthEnds
  BY DEF SerInv
<1> QED BY <1>1, SerAlways, PTL

(****************************************************************************)
(* The tokeniser.                                                           *)
(****************************************************************************)
LEMMA TrimTyped ==
  ASSUME NEW s \in Seq(Chars)
  PROVE  Trim(s) \in Seq(Chars)
<1> DEFINE solid == {i \in 1..Len(s) : s[i] \notin Spaces}
           first == CHOOSE i \in solid : \A j \in solid : i <= j
           last == CHOOSE i \in solid : \A j \in solid : i >= j
<1>1. Len(s) \in Nat /\ \A i \in 1..Len(s) : s[i] \in Chars
  BY LenProperties, ElementOfSeq
<1>2. CASE solid = {}
  BY <1>2 DEF Trim
<1>3. CASE solid # {}
  <2>1. solid \subseteq 0..Len(s) /\ solid \subseteq Nat
    BY <1>1
  <2>2. first \in solid
    <3> HIDE DEF solid
    <3>1. \E i \in solid : \A j \in solid : i <= j
      BY <1>3, <2>1, LeastNumber
    <3> QED BY <3>1
  <2>3. last \in solid
    <3> HIDE DEF solid
    <3>1. PICK i \in solid : \A j \in solid : j <= i
      BY <1>1, <1>3, <2>1, GreatestNumber
    <3>2. \A j \in solid : i >= j
      BY <1>1, <2>1, <3>1
    <3> QED BY <3>2
  <2>4. Trim(s) = SubSeq(s, first, last)
    BY <1>3 DEF Trim
  <2>5. first \in 1..Len(s) /\ last \in 1..Len(s)
    <3> HIDE DEF first, last
    <3> QED BY <2>2, <2>3
  <2> HIDE DEF solid, first, last
  <2>6. \A i \in first..last : s[i] \in Chars
    BY <1>1, <2>5
  <2>7. SubSeq(s, first, last) \in Seq(Chars)
    BY <1>1, <2>5, <2>6, SubSeqProperties
  <2> QED BY <2>4, <2>7
<1> QED BY <1>2, <1>3

\* The words of the first i characters, from those of the i - 1 before.
WordsWith(s, delim, done, i) ==
  CASE s[i] = delim -> done
    [] s[i] # delim /\ (i = 1 \/ s[i - 1] = delim) -> Append(done, <<s[i]>>)
    [] OTHER -> [done EXCEPT ![Len(done)] = Append(@, s[i])]

\* WordsOf as its recursion: f[i] is the words of the first i characters.
WordsSoFar(f, s, delim) ==
  /\ f \in [0..Len(s) -> Seq(Seq(Chars))] /\ f[0] = <<>>
  /\ \A i \in 1..Len(s) : f[i] = WordsWith(s, delim, f[i - 1], i)

LEMMA WordsAre ==
  ASSUME NEW s \in Seq(Chars), NEW delim
  PROVE  \E f : WordsSoFar(f, s, delim) /\ WordsOf(s, delim) = f[Len(s)]
<1> DEFINE n == Len(s)
           W == Seq(Seq(Chars))
           Body(i, done) == CASE s[i] = delim -> done
                              [] s[i] # delim /\ (i = 1 \/ s[i - 1] = delim) -> Append(done, <<s[i]>>)
                              [] OTHER -> [done EXCEPT ![Len(done)] = Append(@, s[i])]
           step == [q \in (1..Len(s)) \X W |-> Body(q[1], q[2])]
           Recursion(w) ==
             w = [i \in 0..Len(s) |->
                    IF i = 0 THEN <<>>
                    ELSE LET done == w[i - 1] IN
                      CASE s[i] = delim -> done
                        [] s[i] # delim /\ (i = 1 \/ s[i - 1] = delim) -> Append(done, <<s[i]>>)
                        [] OTHER -> [done EXCEPT ![Len(done)] = Append(@, s[i])]]
<1>1. n \in Nat /\ (\A i \in 1..Len(s) : s[i] \in Chars) /\ <<>> \in W
  BY LenProperties, ElementOfSeq, EmptySeq
<1>2. ASSUME NEW i \in 1..Len(s), NEW done \in W PROVE Body(i, done) \in W
  <2>1. s[i] \in Chars /\ <<s[i]>> \in Seq(Chars)
    BY <1>1
  <2>2. Append(done, <<s[i]>>) \in W
    BY <2>1, AppendProperties
  <2>3. [done EXCEPT ![Len(done)] = Append(@, s[i])] \in W
    <3>1. CASE done = <<>>
      <4>1. Len(done) = 0 /\ DOMAIN done = {} /\ done = [j \in {} |-> done[j]]
        BY <3>1
      <4>2. [done EXCEPT ![Len(done)] = Append(@, s[i])] = done
        BY <4>1
      <4> QED BY <4>2
    <3>2. CASE done # <<>>
      <4>1. Len(done) \in 1..Len(done)
        <5>1. Len(done) \in Nat /\ Len(done) # 0
          BY <3>2, LenProperties, EmptySeq
        <5> QED BY <5>1
      <4>2. done[Len(done)] \in Seq(Chars)
        BY <4>1, ElementOfSeq
      <4>3. Append(done[Len(done)], s[i]) \in Seq(Chars)
        BY <2>1, <4>2, AppendProperties
      <4>4. [done EXCEPT ![Len(done)] = Append(done[Len(done)], s[i])] \in W
        BY <4>1, <4>3, ExceptSeq
      <4> QED BY <4>4
    <3> QED BY <3>1, <3>2
  <2> QED BY <2>2, <2>3
<1>3. step \in [(1..n) \X W -> W] /\ \A i \in 1..n : \A done \in W : step[<<i, done>>] = Body(i, done)
  <2> HIDE DEF Body, W
  <2> QED BY <1>2
<1>4. PICK none, S : none = <<>> /\ S = W
  OBVIOUS
<1>5. PICK f : Steps(f, n, S, none, step)
  <2>1. none \in S /\ step \in [(1..n) \X S -> S]
    BY <1>1, <1>3, <1>4
  <2> HIDE DEF step, n, W
  <2> QED BY <1>1, <2>1, StepsExist
<1>6. f \in [0..n -> S] /\ f[0] = none /\ \A i \in 1..n : f[i] = step[<<i, f[i - 1]>>]
  BY <1>5 DEF Steps
<1>7. \A i \in 1..n : f[i] = Body(i, f[i - 1])
  <2> SUFFICES ASSUME NEW i \in 1..n PROVE f[i] = Body(i, f[i - 1])
    OBVIOUS
  <2>1. i - 1 \in 0..n
    BY <1>1
  <2> HIDE DEF step, n, W, Body
  <2> QED BY <1>3, <1>4, <1>6, <2>1
<1>8. Recursion(f)
  <2>1. ASSUME NEW i \in 0..Len(s)
        PROVE  f[i] = IF i = 0 THEN <<>>
                      ELSE LET done == f[i - 1] IN
                        CASE s[i] = delim -> done
                          [] s[i] # delim /\ (i = 1 \/ s[i - 1] = delim) -> Append(done, <<s[i]>>)
                          [] OTHER -> [done EXCEPT ![Len(done)] = Append(@, s[i])]
    <3>1. i = 0 \/ (i # 0 /\ i \in 1..n)
      BY <1>1
    <3>2. i = 0 => f[i] = <<>>
      BY <1>4, <1>6
    <3>3. i # 0 => f[i] = Body(i, f[i - 1])
      BY <1>7, <3>1
    <3> HIDE DEF step, n, W
    <3> QED BY <3>2, <3>3
  <2>2. f = [i \in 0..Len(s) |-> f[i]]
    BY <1>6
  <2> HIDE DEF step, Body
  <2> QED BY <2>1, <2>2
<1>9. ASSUME NEW w, Recursion(w) PROVE w = f
  <2>1. w = [i \in 0..n |-> w[i]]
    BY <1>9
  <2>2. w[0] = none
    BY <1>1, <1>4, <1>9
  <2>3. \A i \in 1..n : w[i - 1] \in S => w[i] = step[<<i, w[i - 1]>>]
    <3> SUFFICES ASSUME NEW i \in 1..n, w[i - 1] \in S PROVE w[i] = step[<<i, w[i - 1]>>]
      OBVIOUS
    <3>1. i \in 0..Len(s) /\ i # 0
      BY <1>1
    <3>2. w[i] = Body(i, w[i - 1])
      BY <1>9, <3>1
    <3> HIDE DEF step, W, Body, Recursion
    <3> QED BY <1>3, <1>4, <3>2
  <2>4. StepsIn(w, n, S, none, step)
    <3> HIDE DEF step, n, W, Recursion
    <3> QED BY <2>1, <2>2, <2>3 DEF StepsIn
  <2> HIDE DEF step, n, W, Recursion
  <2> QED BY <1>1, <1>5, <2>4, StepsUnique
<1>10. WordsOf(s, delim) = f[Len(s)]
  <2>1. WordsOf(s, delim) = (CHOOSE w : Recursion(w))[Len(s)]
    BY DEF WordsOf
  <2> HIDE DEF Recursion
  <2>2. (CHOOSE w : Recursion(w)) = f
    BY <1>8, <1>9
  <2> QED BY <2>1, <2>2
<1>11. \A i \in 1..Len(s) : f[i] = WordsWith(s, delim, f[i - 1], i)
  BY <1>7 DEF WordsWith
<1>12. f \in [0..Len(s) -> Seq(Seq(Chars))] /\ f[0] = <<>>
  BY <1>4, <1>6
<1> HIDE DEF step, Recursion, Body, W, n
<1>13. WordsSoFar(f, s, delim)
  BY <1>11, <1>12 DEF WordsSoFar
<1> QED BY <1>10, <1>13

(****************************************************************************)
(* The number of words begun up to each character.                          *)
(****************************************************************************)
Begun(s, delim, i) == Cardinality({j \in Starts(s, delim) : j <= i})

LEMMA BegunSteps ==
  ASSUME NEW s \in Seq(Chars), NEW delim
  PROVE  /\ Begun(s, delim, 0) = 0
         /\ Begun(s, delim, Len(s)) = Cardinality(Starts(s, delim))
         /\ \A i \in 0..Len(s) : Begun(s, delim, i) \in Nat
         /\ \A i \in 1..Len(s) :
              Begun(s, delim, i) = Begun(s, delim, i - 1) + (IF i \in Starts(s, delim) THEN 1 ELSE 0)
         /\ \A h, i \in 0..Len(s) : h <= i => Begun(s, delim, h) <= Begun(s, delim, i)
<1> DEFINE starts == Starts(s, delim)
           Upto(i) == {j \in starts : j <= i}
<1>1. Len(s) \in Nat /\ starts \subseteq 1..Len(s)
  BY LenProperties DEF Starts, Solid
<1>2. IsFiniteSet(1..Len(s)) /\ IsFiniteSet(starts)
  BY <1>1, CardUpTo, FS_Subset
<1>t. \A j \in starts : j \in Int /\ 1 <= j /\ j <= Len(s)
  BY <1>1
<1> HIDE DEF starts
<1>3. \A i : IsFiniteSet(Upto(i)) /\ Cardinality(Upto(i)) \in Nat
  <2>1. \A i : Upto(i) \in SUBSET starts
    OBVIOUS
  <2> HIDE DEF Upto
  <2> QED BY <1>2, <2>1, FS_Subset, FS_CardinalityType
<1>4. Begun(s, delim, 0) = 0
  <2>1. Upto(0) = {}
    BY <1>t
  <2> QED BY <2>1, FS_EmptySet DEF Begun, starts
<1>5. Begun(s, delim, Len(s)) = Cardinality(starts)
  <2>1. Upto(Len(s)) = starts
    BY <1>t
  <2> QED BY <2>1 DEF Begun, starts
<1>6. ASSUME NEW i \in 1..Len(s)
      PROVE  Cardinality(Upto(i)) = Cardinality(Upto(i - 1)) + (IF i \in starts THEN 1 ELSE 0)
  <2>1. CASE i \in starts
    <3>1. Upto(i) = Upto(i - 1) \cup {i} /\ i \notin Upto(i - 1)
      <4>1. \A j \in starts : j <= i <=> j <= i - 1 \/ j = i
        BY <1>t, <2>1
      <4>2. ~(i <= i - 1)
        OBVIOUS
      <4> QED BY <2>1, <4>1, <4>2
    <3>2. IsFiniteSet(Upto(i - 1)) /\ Cardinality(Upto(i - 1)) \in Nat
      BY <1>3
    <3> HIDE DEF Upto
    <3> QED BY <2>1, <3>1, <3>2, FS_AddElement
  <2>2. CASE i \notin starts
    <3>1. Upto(i) = Upto(i - 1)
      BY <1>t, <2>2
    <3>2. Cardinality(Upto(i - 1)) \in Nat
      BY <1>3
    <3> HIDE DEF Upto
    <3> QED BY <2>2, <3>1, <3>2
  <2> QED BY <2>1, <2>2
<1>7. ASSUME NEW h \in 0..Len(s), NEW i \in 0..Len(s), h <= i PROVE Cardinality(Upto(h)) <= Cardinality(Upto(i))
  <2>1. Upto(h) \in SUBSET Upto(i)
    BY <1>t, <1>7
  <2>2. IsFiniteSet(Upto(i))
    BY <1>3
  <2> HIDE DEF Upto
  <2> QED BY <2>1, <2>2, FS_Subset
<1> QED BY <1>3, <1>4, <1>5, <1>6, <1>7 DEF Begun, starts

(****************************************************************************)
(* The words of the first i characters are as many as have begun there, and *)
(* each is whole where it ends before, or with the last of them; which, if  *)
(* it is no delimiter, belongs to the last word.                            *)
(****************************************************************************)
Prefix(s, delim, words, i) ==
  /\ Len(words) = Begun(s, delim, i)
  /\ \A h \in Starts(s, delim) : \A e \in h..i :
       h..e \subseteq Solid(s, delim) /\ (e = i \/ e + 1 \notin Solid(s, delim))
         => words[Begun(s, delim, h)] = SubSeq(s, h, e)
  /\ i \in Solid(s, delim) =>
       \E h \in Starts(s, delim) : h <= i /\ h..i \subseteq Solid(s, delim) /\ Begun(s, delim, h) = Begun(s, delim, i)

LEMMA PrefixStep ==
  ASSUME NEW s \in Seq(Chars), NEW delim, NEW i \in 1..Len(s), NEW words \in Seq(Seq(Chars)), NEW more,
         Prefix(s, delim, words, i - 1),
         more = WordsWith(s, delim, words, i)
  PROVE  Prefix(s, delim, more, i)
<1> DEFINE solid == Solid(s, delim)
           starts == Starts(s, delim)
           B(k) == Begun(s, delim, k)
<1>1. Len(s) \in Nat /\ (\A k \in 1..Len(s) : s[k] \in Chars) /\ Len(words) \in Nat
  BY LenProperties, ElementOfSeq
<1>2. \A k \in 1..Len(s) : k \in solid <=> s[k] # delim
  BY DEF Solid
<1>3. /\ \A k : k \in solid => k \in 1..Len(s)
      /\ \A k : k \in starts <=> k \in solid /\ k - 1 \notin solid
  BY DEF Solid, Starts
<1>4. /\ \A k \in 0..Len(s) : B(k) \in Nat
      /\ \A k \in 1..Len(s) : B(k) = B(k - 1) + (IF k \in starts THEN 1 ELSE 0)
      /\ \A h, k \in 0..Len(s) : h <= k => B(h) <= B(k)
      /\ B(0) = 0
  BY BegunSteps
<1>5. /\ Len(words) = B(i - 1)
      /\ \A h \in starts : \A e \in h..(i - 1) :
           h..e \subseteq solid /\ (e = i - 1 \/ e + 1 \notin solid) => words[B(h)] = SubSeq(s, h, e)
      /\ i - 1 \in solid => \E h \in starts : h <= i - 1 /\ h..(i - 1) \subseteq solid /\ B(h) = B(i - 1)
  BY DEF Prefix
<1> SUFFICES /\ Len(more) = B(i)
             /\ \A h \in starts : \A e \in h..i :
                  h..e \subseteq solid /\ (e = i \/ e + 1 \notin solid) => more[B(h)] = SubSeq(s, h, e)
             /\ i \in solid => \E h \in starts : h <= i /\ h..i \subseteq solid /\ B(h) = B(i)
  BY DEF Prefix
<1> HIDE DEF solid, starts, B
<1>6. i \in Int /\ 1 <= i /\ i <= Len(s) /\ i \in 0..Len(s) /\ i - 1 \in 0..Len(s)
  BY <1>1
\* A word that begins before i has a number up to that of the words so far.
<1>7. \A h \in starts : h \in 1..Len(s) /\ (h <= i - 1 => B(h) \in 1..Len(words))
  <2> SUFFICES ASSUME NEW h \in starts PROVE h \in 1..Len(s) /\ (h <= i - 1 => B(h) \in 1..Len(words))
    OBVIOUS
  <2>1. h \in 1..Len(s) /\ h \in 0..Len(s) /\ h - 1 \in 0..Len(s)
    BY <1>1, <1>3
  <2>2. B(h) = B(h - 1) + 1 /\ B(h - 1) \in Nat
    BY <1>4, <2>1
  <2>3. h <= i - 1 => B(h) <= B(i - 1)
    BY <1>4, <1>6, <2>1
  <2> QED BY <1>5, <1>1, <2>1, <2>2, <2>3
<1>8. CASE i \notin solid
  <2>1. more = words /\ i \notin starts
    BY <1>2, <1>3, <1>8 DEF WordsWith
  <2>2. B(i) = B(i - 1)
    <3>1. B(i) = B(i - 1) + (IF i \in starts THEN 1 ELSE 0) /\ B(i - 1) \in Nat
      BY <1>4, <1>6
    <3> QED BY <2>1, <3>1
  <2>3. ASSUME NEW h \in starts, NEW e \in h..i, h..e \subseteq solid, e = i \/ e + 1 \notin solid
        PROVE  more[B(h)] = SubSeq(s, h, e)
    <3>1. h \in Int /\ e \in h..e
      BY <1>7
    <3>2. e # i
      BY <1>8, <2>3, <3>1
    <3>3. e \in h..(i - 1) /\ e + 1 \notin solid
      BY <1>6, <2>3, <3>1, <3>2
    <3> QED BY <1>5, <2>1, <2>3, <3>3
  <2> QED BY <1>5, <1>8, <2>1, <2>2, <2>3
<1>9. CASE i \in starts
  <2>1. i \in solid /\ i - 1 \notin solid
    BY <1>3, <1>9
  <2>2. s[i] # delim /\ (i = 1 \/ s[i - 1] = delim)
    <3>1. i # 1 => i - 1 \in 1..Len(s)
      BY <1>6
    <3> QED BY <1>2, <2>1, <3>1
  <2>3. more = Append(words, <<s[i]>>)
    BY <2>2 DEF WordsWith
  <2>4. /\ more \in Seq(Seq(Chars)) /\ Len(more) = Len(words) + 1 /\ more[Len(words) + 1] = <<s[i]>>
        /\ \A k \in 1..Len(words) : more[k] = words[k]
    <3>1. <<s[i]>> \in Seq(Chars)
      BY <1>1
    <3> QED BY <2>3, <3>1, AppendProperties
  <2>5. B(i) = B(i - 1) + 1
    <3>1. B(i) = B(i - 1) + (IF i \in starts THEN 1 ELSE 0)
      BY <1>4
    <3> QED BY <1>9, <3>1
  <2>6. ASSUME NEW h \in starts, NEW e \in h..i, h..e \subseteq solid, e = i \/ e + 1 \notin solid
        PROVE  more[B(h)] = SubSeq(s, h, e)
    <3>1. h \in Int /\ e \in Int /\ h <= e /\ e <= i
      BY <1>6, <1>7
    <3>2. CASE h = i
      <4>1. e = i
        BY <1>6, <3>1, <3>2
      <4>2. SubSeq(s, i, i) = <<s[i]>>
        <5>1. i \in 1..Len(s) /\ i \in i..Len(s)
          BY <1>6
        <5>2. SubSeq(s, i, i) = <<s[i]>> \o SubSeq(s, i + 1, i)
          BY <5>1, SubSeqRecursiveFirst
        <5>3. SubSeq(s, i + 1, i) = <<>>
          BY <1>6, SubSeqEmpty
        <5>4. <<s[i]>> \in Seq(Chars)
          BY <1>1
        <5> QED BY <5>2, <5>3, <5>4, ConcatEmptySeq
      <4> QED BY <1>5, <2>4, <2>5, <3>2, <4>1, <4>2
    <3>3. CASE h # i
      <4>1. h <= i - 1
        BY <1>6, <3>1, <3>3
      <4>2. e # i
        <5>1. e = i => i - 1 \in h..e
          BY <1>6, <3>1, <4>1
        <5> QED BY <2>1, <2>6, <5>1
      <4>3. e \in h..(i - 1) /\ e + 1 \notin solid
        BY <1>6, <2>6, <3>1, <4>2
      <4>4. words[B(h)] = SubSeq(s, h, e)
        BY <1>5, <2>6, <4>3
      <4> QED BY <1>7, <2>4, <4>1, <4>4
    <3> QED BY <3>2, <3>3
  <2>7. i <= i /\ i..i \subseteq solid
    BY <1>6, <2>1
  <2> QED BY <1>5, <1>9, <2>4, <2>5, <2>6, <2>7
<1>10. CASE i \in solid /\ i \notin starts
  <2>1. i - 1 \in solid
    BY <1>3, <1>10
  <2>2. s[i] # delim /\ ~(i = 1) /\ ~(s[i - 1] = delim)
    BY <1>2, <1>3, <1>6, <1>10, <2>1
  <2>3. more = [words EXCEPT ![Len(words)] = Append(words[Len(words)], s[i])]
    BY <2>2 DEF WordsWith
  <2>4. PICK last \in starts : last <= i - 1 /\ last..(i - 1) \subseteq solid /\ B(last) = B(i - 1)
    BY <1>5, <2>1
  <2>5. Len(words) \in 1..Len(words) /\ B(last) = Len(words)
    BY <1>5, <1>7, <2>4
  <2>6. words[Len(words)] \in Seq(Chars) /\ Append(words[Len(words)], s[i]) \in Seq(Chars)
    <3>1. words[Len(words)] \in Seq(Chars)
      BY <2>5, ElementOfSeq
    <3> QED BY <1>1, <3>1, AppendProperties
  <2>7. /\ Len(more) = Len(words) /\ more[Len(words)] = Append(words[Len(words)], s[i])
        /\ \A k \in 1..Len(words) : k # Len(words) => more[k] = words[k]
    BY <2>3, <2>5, <2>6, ExceptSeq
  <2>8. B(i) = B(i - 1)
    <3>1. B(i) = B(i - 1) + (IF i \in starts THEN 1 ELSE 0) /\ B(i - 1) \in Nat
      BY <1>4, <1>6
    <3> QED BY <1>10, <3>1
  <2>9. ASSUME NEW h \in starts, NEW e \in h..i, h..e \subseteq solid, e = i \/ e + 1 \notin solid
        PROVE  more[B(h)] = SubSeq(s, h, e)
    <3>1. h \in 1..Len(s) /\ e \in Int /\ h <= e /\ e <= i /\ h <= i - 1 /\ last \in 1..Len(s)
      <4>1. h # i
        BY <1>10
      <4>2. h \in 1..Len(s) /\ last \in 1..Len(s)
        BY <1>7
      <4> QED BY <1>6, <4>1, <4>2
    <3>2. CASE e = i
      \* No word begins between h and i, so h is the last one's beginning.
      <4>1. words[B(h)] = SubSeq(s, h, i - 1)
        <5>1. i - 1 \in h..(i - 1) /\ h..(i - 1) \subseteq h..e
          BY <1>6, <3>1, <3>2
        <5> QED BY <1>5, <2>9, <5>1
      <4>2. h = last
        <5>1. CASE h < last
          <6>1. last - 1 \in h..e
            BY <1>6, <2>4, <3>1, <3>2, <5>1
          <6> QED BY <1>3, <2>9, <6>1
        <5>2. CASE last < h
          <6>1. h - 1 \in last..(i - 1)
            BY <1>6, <2>4, <3>1, <5>2
          <6> QED BY <1>3, <2>4, <6>1
        <5> QED BY <3>1, <5>1, <5>2
      <4>3. SubSeq(s, h, i) = SubSeq(s, h, i - 1) \o <<s[i]>>
        <5>1. i \in h..Len(s)
          BY <1>6, <3>1
        <5> QED BY <3>1, <5>1, SubSeqRecursiveSecond
      <4>4. Append(words[Len(words)], s[i]) = words[Len(words)] \o <<s[i]>>
        BY <1>1, <2>6, AppendIsConcat
      <4> QED BY <2>5, <2>7, <3>2, <4>1, <4>2, <4>3, <4>4
    <3>3. CASE e # i
      <4>1. e \in h..(i - 1) /\ e + 1 \notin solid
        BY <1>6, <2>9, <3>1, <3>3
      <4>2. words[B(h)] = SubSeq(s, h, e)
        BY <1>5, <2>9, <4>1
      \* Between e and i a further word has begun.
      <4>3. B(h) # Len(words)
        <5>1. e + 1 < last
          <6>1. e # i - 1
            BY <1>6, <1>10, <4>1
          <6>2. e + 1 <= i - 1
            BY <1>6, <4>1, <6>1
          <6>3. e + 1 \notin last..(i - 1)
            BY <2>4, <4>1
          <6> QED BY <1>6, <3>1, <6>2, <6>3
        <5>2. B(last) = B(last - 1) + 1
          BY <1>4, <3>1
        <5>3. B(h) <= B(last - 1) /\ B(last - 1) \in Nat /\ B(h) \in Nat
          <6>1. h \in 0..Len(s) /\ last - 1 \in 0..Len(s) /\ h <= last - 1
            BY <3>1, <5>1
          <6> QED BY <1>4, <6>1
        <5> QED BY <2>5, <5>2, <5>3
      <4> QED BY <1>7, <2>7, <3>1, <4>2, <4>3
    <3> QED BY <3>2, <3>3
  <2>10. last <= i /\ last..i \subseteq solid /\ B(last) = B(i)
    <3>1. last \in Int /\ \A k \in last..i : k \in last..(i - 1) \/ k = i
      BY <1>6, <1>7
    <3> QED BY <1>6, <1>10, <2>4, <2>8, <3>1
  <2> QED BY <1>5, <2>7, <2>8, <2>9, <2>10
<1> QED BY <1>3, <1>8, <1>9, <1>10

LEMMA WordsOfPrefix ==
  ASSUME NEW s \in Seq(Chars), NEW delim
  PROVE  Prefix(s, delim, WordsOf(s, delim), Len(s))
<1>1. Len(s) \in Nat
  BY LenProperties
<1>0. PICK f : WordsSoFar(f, s, delim) /\ WordsOf(s, delim) = f[Len(s)]
  BY WordsAre
<1>2. /\ f \in [0..Len(s) -> Seq(Seq(Chars))] /\ f[0] = <<>>
      /\ \A i \in 1..Len(s) : f[i] = WordsWith(s, delim, f[i - 1], i)
  BY <1>0 DEF WordsSoFar
<1> DEFINE T == {i \in 0..Len(s) : ~Prefix(s, delim, f[i], i)}
<1>3. T = {}
  <2> SUFFICES ASSUME T # {} PROVE FALSE
    OBVIOUS
  <2>1. T \subseteq Nat
    OBVIOUS
  <2>2. PICK i \in T : \A k \in T : i <= k
    <3> HIDE DEF T
    <3> QED BY <2>1, LeastNumber
  <2>3. i \in 0..Len(s) /\ ~Prefix(s, delim, f[i], i)
    OBVIOUS
  <2>4. i # 0
    <3> SUFFICES Prefix(s, delim, f[0], 0)
      BY <2>3
    <3>1. Len(f[0]) = Begun(s, delim, 0)
      BY <1>2, BegunSteps
    <3>2. \A h \in Solid(s, delim) : h \in 1..Len(s)
      BY DEF Solid
    <3>3. \A h \in Starts(s, delim) : h \in 1..Len(s)
      BY <3>2 DEF Starts
    <3>4. \A h \in Starts(s, delim) : h..0 = {}
      BY <3>3
    <3> QED BY <3>1, <3>2, <3>4 DEF Prefix
  <2>5. i \in 1..Len(s) /\ i - 1 \in 0..Len(s) /\ i - 1 \notin T
    <3> HIDE DEF T
    <3> QED BY <1>1, <2>2, <2>3, <2>4
  <2>6. Prefix(s, delim, f[i - 1], i - 1)
    BY <2>5
  <2> HIDE DEF T
  <2>7. f[i - 1] \in Seq(Seq(Chars))
    BY <1>2, <2>5
  <2>8. f[i] = WordsWith(s, delim, f[i - 1], i)
    BY <1>2, <2>5
  <2>9. PICK words, more : words \in Seq(Seq(Chars)) /\ words = f[i - 1] /\ more = f[i]
    BY <2>7
  <2>10. Prefix(s, delim, words, i - 1)
    BY <2>6, <2>9
  <2>11. words \in Seq(Seq(Chars)) /\ more = WordsWith(s, delim, words, i)
    BY <2>8, <2>9
  <2>12. Prefix(s, delim, more, i)
    BY <2>5, <2>10, <2>11, PrefixStep
  <2> QED BY <2>3, <2>9, <2>12
<1>4. Len(s) \in 0..Len(s) /\ Len(s) \notin T
  <2> HIDE DEF T
  <2> QED BY <1>1, <1>3
<1>5. Prefix(s, delim, f[Len(s)], Len(s))
  BY <1>4
<1> QED BY <1>0, <1>5

TokenInv == DOMAIN slots = 0..(MaxTokens - 1) /\ TokensAreWords

LEMMA TokenizeStep ==
  ASSUME TokenInv, ~overran, NEW s \in Strings, NEW delim \in Delims, Tokenize(s, delim)
  PROVE  TokenInv'
<1> DEFINE line == Trim(s)
           words == WordsOf(line, delim)
           solid == Solid(line, delim)
           starts == Starts(line, delim)
<1>1. line \in Seq(Chars) /\ MaxTokens \in Nat
  BY TrimTyped, StringAssumption
<1>2. asked' = <<s, delim>> /\ asked'[1] = s /\ asked'[2] = delim
  BY DEF Tokenize
<1>3. DOMAIN slots' = 0..(MaxTokens - 1)
  BY DEF Tokenize, TokenInv
<1> SUFFICES ASSUME Cardinality(starts) <= MaxTokens
             PROVE  /\ ~overran' /\ token_cnt' = Cardinality(starts)
                    /\ \A h \in starts : \A e \in h..Len(line) :
                         h..e \subseteq solid /\ e + 1 \notin solid
                           => slots'[Cardinality({j \in starts : j < h})] = SubSeq(line, h, e)
  BY <1>2, <1>3 DEF TokenInv, TokensAreWords
<1>4. Prefix(line, delim, words, Len(line))
  <2> HIDE DEF line
  <2> QED BY <1>1, WordsOfPrefix
<1> HIDE DEF line
<1>5. /\ Len(line) \in Nat
      /\ Begun(line, delim, Len(line)) = Cardinality(starts)
      /\ \A i \in 0..Len(line) : Begun(line, delim, i) \in Nat
      /\ \A i \in 1..Len(line) :
           Begun(line, delim, i) = Begun(line, delim, i - 1) + (IF i \in starts THEN 1 ELSE 0)
      /\ \A h, i \in 0..Len(line) : h <= i => Begun(line, delim, h) <= Begun(line, delim, i)
  BY <1>1, BegunSteps, LenProperties
<1>6. Len(words) = Cardinality(starts) /\ Len(words) \in Nat /\ ~TooMany(words)
  <2>1. Len(words) = Begun(line, delim, Len(line))
    BY <1>4 DEF Prefix
  <2>2. Len(line) \in 0..Len(line)
    BY <1>5
  <2>3. Len(words) = Cardinality(starts) /\ Len(words) \in Nat
    BY <1>5, <2>1, <2>2
  <2>4. ~(Len(words) > MaxTokens)
    BY <1>1, <2>3
  <2> QED BY <2>3, <2>4 DEF TooMany
<1>7. /\ slots' = [i \in DOMAIN slots |-> IF i < Len(words) THEN Stored(slots[i], words[i + 1]) ELSE slots[i]]
      /\ token_cnt' = Len(words) /\ overran' = overran
  BY <1>6 DEF Tokenize, line
<1>8. ASSUME NEW h \in starts, NEW e \in h..Len(line), h..e \subseteq solid, e + 1 \notin solid
      PROVE  slots'[Cardinality({j \in starts : j < h})] = SubSeq(line, h, e)
  <2>1. \A j \in starts : j \in 1..Len(line)
    BY DEF Starts, Solid
  <2>2. h \in 1..Len(line) /\ h - 1 \in 0..Len(line) /\ h \in 0..Len(line) /\ Len(line) \in 0..Len(line) /\ h <= Len(line)
    BY <1>5, <2>1
  <2>3. Cardinality({j \in starts : j < h}) = Begun(line, delim, h - 1)
    <3>1. \A j \in starts : j < h <=> j <= h - 1
      BY <2>1, <2>2
    <3>2. {j \in starts : j < h} = {j \in starts : j <= h - 1}
      BY <3>1
    <3> QED BY <3>2 DEF Begun
  <2> DEFINE k == Begun(line, delim, h - 1)
  <2>4. k \in Nat /\ Begun(line, delim, h) = k + 1 /\ k + 1 <= Len(words)
    <3>1. k \in Nat /\ Begun(line, delim, h) = k + 1
      BY <1>5, <2>2
    <3>2. Begun(line, delim, h) <= Begun(line, delim, Len(line))
      BY <1>5, <2>2
    <3> QED BY <1>5, <1>6, <3>1, <3>2
  <2>5. words[k + 1] = SubSeq(line, h, e)
    BY <1>4, <1>8, <2>4 DEF Prefix
  <2> HIDE DEF k
  <2>6. k \in DOMAIN slots /\ k < Len(words)
    <3>1. DOMAIN slots = 0..(MaxTokens - 1)
      BY DEF TokenInv
    <3>2. k \in 0..(MaxTokens - 1) /\ k < Len(words)
      BY <1>1, <1>6, <2>4
    <3> QED BY <3>1, <3>2
  <2>7. slots'[k] = words[k + 1]
    <3> HIDE DEF words
    <3> QED BY <1>7, <2>6 DEF Stored
  <2> QED BY <2>3, <2>5, <2>7 DEF k
<1> QED BY <1>6, <1>7, <1>8

\* tokenizer, for lines of any length and an array of any number of slots: what a caller
\* finds there are the words of its own line, each whole and in order, and a line of no
\* more words than there are slots stays inside the array (string_util.c:71-119).
THEOREM CallerFindsItsWords == TokenSpec => []TokensAreWords
<1>1. TokenInit => TokenInv
  BY DEF TokenInit, TokenInv, TokensAreWords
<1>2. ASSUME TokenInv, [TokenNext]_tokenVars PROVE TokenInv'
  <2>1. ASSUME ~overran, NEW s \in Strings, NEW delim \in Delims, Tokenize(s, delim) PROVE TokenInv'
    BY <1>2, <2>1, TokenizeStep
  <2>2. CASE ReInitTokens
    BY <1>2, <2>2 DEF ReInitTokens, TokenInv, TokensAreWords
  <2>3. CASE UNCHANGED tokenVars
    BY <1>2, <2>3 DEF tokenVars, TokenInv, TokensAreWords
  <2> QED BY <1>2, <2>1, <2>2, <2>3 DEF TokenNext
<1>3. TokenInv => TokensAreWords
  BY DEF TokenInv
<1> QED BY <1>1, <1>2, <1>3, PTL DEF TokenSpec

(****************************************************************************)
(* The substitution.                                                        *)
(****************************************************************************)
LEMMA SubIs ==
  /\ Len(Sub) \in Nat \ {0}
  /\ \A s \in Seq(Chars) : \A i, h \in 1..Len(s) : Hit(s, h) /\ h < i /\ i < h + Len(Sub) => ~Hit(s, i)
<1>1. Sub \in Seq(Chars) /\ Sub # <<>> /\ \A i \in 2..Len(Sub) : Sub[i] # Sub[1]
  BY StringAssumption
<1>2. Len(Sub) \in Nat \ {0}
  BY <1>1, LenProperties, EmptySeq
<1>3. ASSUME NEW s \in Seq(Chars), NEW i \in 1..Len(s), NEW h \in 1..Len(s),
             Hit(s, h), h < i, i < h + Len(Sub), Hit(s, i)
      PROVE  FALSE
  <2>1. Len(s) \in Nat /\ \A k \in 1..Len(s) : s[k] \in Chars
    BY LenProperties, ElementOfSeq
  <2>2. \A p \in 1..Len(s) : Hit(s, p) => \A k \in 1..Len(Sub) : Sub[k] = s[p + k - 1]
    <3> SUFFICES ASSUME NEW p \in 1..Len(s), Hit(s, p) PROVE \A k \in 1..Len(Sub) : Sub[k] = s[p + k - 1]
      OBVIOUS
    <3>1. p + Len(Sub) - 1 \in Int /\ p \in Int /\ p + Len(Sub) - 1 <= Len(s)
      BY <1>2, <2>1 DEF Hit
    <3>2. \A k \in p..(p + Len(Sub) - 1) : s[k] \in Chars
      BY <2>1, <3>1
    <3>3. \A k \in 1..((p + Len(Sub) - 1) - p + 1) : SubSeq(s, p, p + Len(Sub) - 1)[k] = s[p + k - 1]
      BY <3>1, <3>2, SubSeqProperties
    <3>4. (p + Len(Sub) - 1) - p + 1 = Len(Sub)
      BY <1>2
    <3>5. SubSeq(s, p, p + Len(Sub) - 1) = Sub
      BY DEF Hit
    <3> QED BY <3>3, <3>4, <3>5
  <2>3. i - h + 1 \in 2..Len(Sub) /\ h + (i - h + 1) - 1 = i /\ i + 1 - 1 = i /\ 1 \in 1..Len(Sub)
        /\ i - h + 1 \in 1..Len(Sub)
    BY <1>2, <1>3, <2>1
  <2>4. Sub[i - h + 1] = s[i]
    BY <1>3, <2>2, <2>3
  <2>5. Sub[1] = s[i]
    BY <1>3, <2>2, <2>3
  <2> QED BY <1>1, <2>3, <2>4, <2>5
<1> QED BY <1>2, <1>3

\* What a hit reaches to.
LEMMA HitFits ==
  ASSUME NEW s \in Seq(Chars), NEW i \in 1..Len(s), Hit(s, i)
  PROVE  i + Len(Sub) \in 2..(Len(s) + 1)
BY LenProperties, SubIs DEF Hit

\* Replaced as its recursion, from the end of the line.
LEMMA ReplacedIs ==
  ASSUME NEW s \in Seq(Chars), NEW new \in Seq(Chars)
  PROVE  \E f \in [1..(Len(s) + 2) -> Seq(Chars)] :
           /\ Replaced(s, new) = f[1]
           /\ f[Len(s) + 1] = <<>> /\ f[Len(s) + 2] = <<>>
           /\ \A i \in 1..Len(s) :
                f[i] = IF Hit(s, i)
                       THEN new \o (IF i + Len(Sub) > Len(s) THEN <<>> ELSE <<s[i + Len(Sub)]>>)
                                \o f[i + Len(Sub) + 1]
                       ELSE <<s[i]>> \o f[i + 1]
<1> DEFINE n == Len(s)
           K == Len(s) + 2
           Body(i, r) == IF Hit(s, i)
                         THEN new \o (IF i + Len(Sub) > Len(s) THEN <<>> ELSE <<s[i + Len(Sub)]>>) \o r
                         ELSE <<s[i]>> \o r
           later == [i \in 1..Len(s) |-> IF Hit(s, i) THEN i + Len(Sub) + 1 ELSE i + 1]
           step == [p \in (1..Len(s)) \X Seq(Chars) |-> Body(p[1], p[2])]
           Recursion(w) ==
             w = [i \in 1..(Len(s) + 2) |->
                    CASE i > Len(s) -> <<>>
                      [] i <= Len(s) /\ Hit(s, i) ->
                           LET after == i + Len(Sub)
                           IN new \o (IF after > Len(s) THEN <<>> ELSE <<s[after]>>) \o w[after + 1]
                      [] OTHER -> <<s[i]>> \o w[i + 1]]
<1>1. n \in Nat /\ K \in Nat /\ n \in 0..K /\ \A i \in 1..Len(s) : s[i] \in Chars
  BY LenProperties, ElementOfSeq
<1>2. \A i \in 1..Len(s) : i < later[i] /\ later[i] \in 1..K
  <2> SUFFICES ASSUME NEW i \in 1..Len(s) PROVE i < later[i] /\ later[i] \in 1..K
    OBVIOUS
  <2>1. later[i] = IF Hit(s, i) THEN i + Len(Sub) + 1 ELSE i + 1
    OBVIOUS
  <2>2. CASE Hit(s, i)
    <3>1. i + Len(Sub) \in 2..(Len(s) + 1) /\ Len(Sub) \in Nat \ {0}
      BY <2>2, HitFits, SubIs
    <3> HIDE DEF later
    <3> QED BY <1>1, <2>1, <2>2, <3>1
  <2>3. CASE ~Hit(s, i)
    <3> HIDE DEF later
    <3> QED BY <1>1, <2>1, <2>3
  <2> QED BY <2>2, <2>3
<1>3. later \in [1..n -> 1..K]
  BY <1>2
<1>4. ASSUME NEW i \in 1..Len(s), NEW r \in Seq(Chars) PROVE Body(i, r) \in Seq(Chars)
  <2>1. CASE Hit(s, i)
    <3>1. i + Len(Sub) \in 2..(Len(s) + 1)
      BY <2>1, HitFits
    <3> DEFINE one == IF i + Len(Sub) > Len(s) THEN <<>> ELSE <<s[i + Len(Sub)]>>
    <3>2. one \in Seq(Chars)
      <4>1. CASE i + Len(Sub) > Len(s)
        BY <4>1
      <4>2. CASE ~(i + Len(Sub) > Len(s))
        <5>1. i + Len(Sub) \in 1..Len(s)
          BY <1>1, <3>1, <4>2
        <5>2. s[i + Len(Sub)] \in Chars
          BY <1>1, <5>1
        <5> QED BY <4>2, <5>2
      <4> QED BY <4>1, <4>2
    <3> HIDE DEF one
    <3>3. new \o one \o r \in Seq(Chars)
      BY <3>2, ConcatProperties
    <3> QED BY <2>1, <3>3 DEF one
  <2>2. CASE ~Hit(s, i)
    <3>1. <<s[i]>> \in Seq(Chars)
      BY <1>1
    <3>2. <<s[i]>> \o r \in Seq(Chars)
      BY <3>1, ConcatProperties
    <3> QED BY <2>2, <3>2
  <2> QED BY <2>1, <2>2
<1>5. step \in [(1..n) \X Seq(Chars) -> Seq(Chars)] /\ \A i \in 1..n : \A r \in Seq(Chars) : step[<<i, r>>] = Body(i, r)
  <2> HIDE DEF Body
  <2> QED BY <1>4
<1>6. <<>> \in Seq(Chars)
  BY EmptySeq
<1>7. PICK f : Descends(f, K, n, Seq(Chars), <<>>, later, step)
  <2>1. PICK none \in Seq(Chars) : none = <<>>
    BY <1>6
  <2>2. Later(later, K, n)
    BY <1>2, <1>3 DEF Later
  <2> HIDE DEF later, step, n, K
  <2>3. \E f : Descends(f, K, n, Seq(Chars), none, later, step)
    BY <1>1, <1>5, <2>2, DescentExists
  <2> QED BY <2>1, <2>3
<1>8. f \in [1..K -> Seq(Chars)] /\ \A i \in 1..K : f[i] = IF i > n THEN <<>> ELSE step[<<i, f[later[i]]>>]
  BY <1>7 DEF Descends
<1>9. \A i \in 1..n : f[i] = Body(i, f[later[i]])
  <2> SUFFICES ASSUME NEW i \in 1..n PROVE f[i] = Body(i, f[later[i]])
    OBVIOUS
  <2> HIDE DEF later, step, Body, K
  <2>1. i \in 1..K /\ ~(i > n) /\ later[i] \in 1..K
    BY <1>1, <1>2 DEF K
  <2> QED BY <1>5, <1>8, <2>1
<1>10. Recursion(f)
  <2>1. ASSUME NEW i \in 1..(Len(s) + 2)
        PROVE  f[i] = CASE i > Len(s) -> <<>>
                        [] i <= Len(s) /\ Hit(s, i) ->
                             LET after == i + Len(Sub)
                             IN new \o (IF after > Len(s) THEN <<>> ELSE <<s[after]>>) \o f[after + 1]
                        [] OTHER -> <<s[i]>> \o f[i + 1]
    <3>1. CASE i > Len(s)
      <4>1. i \in 1..K /\ i > n /\ ~(i <= Len(s))
        BY <1>1, <3>1
      <4>2. f[i] = <<>>
        <5> HIDE DEF n, K, later, step
        <5> QED BY <1>8, <4>1
      <4> QED BY <3>1, <4>1, <4>2
    <3>2. CASE ~(i > Len(s))
      <4>1. i \in 1..n /\ i <= Len(s)
        BY <1>1, <3>2
      <4>2. f[i] = Body(i, f[later[i]])
        BY <1>9, <4>1
      <4>3. CASE Hit(s, i)
        <5>1. later[i] = i + Len(Sub) + 1
          BY <4>1, <4>3
        <5> HIDE DEF later
        <5> QED BY <3>2, <4>1, <4>2, <4>3, <5>1
      <4>4. CASE ~Hit(s, i)
        <5>1. later[i] = i + 1
          BY <4>1, <4>4
        <5> HIDE DEF later
        <5> QED BY <3>2, <4>1, <4>2, <4>4, <5>1
      <4> QED BY <4>3, <4>4
    <3> QED BY <3>1, <3>2
  <2>2. f = [i \in 1..(Len(s) + 2) |-> f[i]]
    BY <1>8
  <2> HIDE DEF later, step, Body
  <2> QED BY <2>1, <2>2
<1>11. ASSUME NEW w, Recursion(w) PROVE w = f
  <2>1. w = [i \in 1..K |-> w[i]] /\ \A i \in 1..K : i > n => w[i] = <<>>
    BY <1>11
  <2>2. \A i \in 1..n : w[later[i]] \in Seq(Chars) => w[i] = step[<<i, w[later[i]]>>]
    <3> SUFFICES ASSUME NEW i \in 1..n, w[later[i]] \in Seq(Chars) PROVE w[i] = step[<<i, w[later[i]]>>]
      OBVIOUS
    <3>1. i \in 1..(Len(s) + 2) /\ i <= Len(s) /\ ~(i > Len(s))
      BY <1>1
    <3>2. w[i] = Body(i, w[later[i]])
      <4>1. CASE Hit(s, i)
        <5>1. later[i] = i + Len(Sub) + 1
          BY <4>1
        <5> HIDE DEF later
        <5> QED BY <1>11, <3>1, <4>1, <5>1
      <4>2. CASE ~Hit(s, i)
        <5>1. later[i] = i + 1
          BY <4>2
        <5> HIDE DEF later
        <5> QED BY <1>11, <3>1, <4>2, <5>1
      <4> QED BY <4>1, <4>2
    <3> HIDE DEF later, step, Body
    <3> QED BY <1>5, <3>2
  <2>3. Later(later, K, n)
    BY <1>2, <1>3 DEF Later
  <2>4. PICK none, S : none = <<>> /\ S = Seq(Chars)
    OBVIOUS
  <2>5. Descends(f, K, n, S, none, later, step)
    BY <1>7, <2>4
  <2>6. DescendsIn(w, K, n, S, none, later, step)
    <3> HIDE DEF later, step, n, K, Recursion
    <3> QED BY <2>1, <2>2, <2>4 DEF DescendsIn
  <2> HIDE DEF later, step, n, K, Recursion
  <2> QED BY <1>1, <2>3, <2>5, <2>6, DescentUnique
<1>12. Replaced(s, new) = f[1]
  <2>1. Replaced(s, new) = (CHOOSE w : Recursion(w))[1]
    BY DEF Replaced
  <2> HIDE DEF Recursion
  <2>2. (CHOOSE w : Recursion(w)) = f
    BY <1>10, <1>11
  <2> QED BY <2>1, <2>2
<1>13. f[Len(s) + 1] = <<>> /\ f[Len(s) + 2] = <<>>
  <2>1. Len(s) + 1 \in 1..K /\ Len(s) + 2 \in 1..K /\ Len(s) + 1 > n /\ Len(s) + 2 > n
    BY <1>1
  <2> HIDE DEF n, K, later, step
  <2> QED BY <1>8, <2>1
<1>14. \A i \in 1..Len(s) :
                f[i] = IF Hit(s, i)
                       THEN new \o (IF i + Len(Sub) > Len(s) THEN <<>> ELSE <<s[i + Len(Sub)]>>)
                                \o f[i + Len(Sub) + 1]
                       ELSE <<s[i]>> \o f[i + 1]
  <2> SUFFICES ASSUME NEW i \in 1..Len(s)
               PROVE  f[i] = IF Hit(s, i)
                             THEN new \o (IF i + Len(Sub) > Len(s) THEN <<>> ELSE <<s[i + Len(Sub)]>>)
                                      \o f[i + Len(Sub) + 1]
                             ELSE <<s[i]>> \o f[i + 1]
    OBVIOUS
  <2>1. f[i] = Body(i, f[later[i]]) /\ later[i] = IF Hit(s, i) THEN i + Len(Sub) + 1 ELSE i + 1
    BY <1>9
  <2> HIDE DEF later
  <2> QED BY <2>1
<1> HIDE DEF later, step, Body, Recursion, n
<1> QED BY <1>8, <1>12, <1>13, <1>14

\* Cat as its recursion.
LEMMA CatIs ==
  ASSUME NEW p \in Seq(Seq(Chars))
  PROVE  \E g \in [1..(Len(p) + 1) -> Seq(Chars)] :
           /\ Cat(p) = g[1]
           /\ g[Len(p) + 1] = <<>>
           /\ \A i \in 1..Len(p) : g[i] = p[i] \o g[i + 1]
<1> DEFINE n == Len(p)
           K == Len(p) + 1
           later == [i \in 1..Len(p) |-> i + 1]
           step == [q \in (1..Len(p)) \X Seq(Chars) |-> p[q[1]] \o q[2]]
           Recursion(w) == w = [i \in 1..(Len(p) + 1) |-> IF i > Len(p) THEN <<>> ELSE p[i] \o w[i + 1]]
<1>1. n \in Nat /\ K \in Nat /\ n \in 0..K /\ (\A i \in 1..Len(p) : p[i] \in Seq(Chars)) /\ <<>> \in Seq(Chars)
  BY LenProperties, ElementOfSeq, EmptySeq
<1>2. Later(later, K, n)
  BY <1>1 DEF Later
<1>3. step \in [(1..n) \X Seq(Chars) -> Seq(Chars)] /\ \A i \in 1..n : \A r \in Seq(Chars) : step[<<i, r>>] = p[i] \o r
  BY <1>1, ConcatProperties
<1>4. PICK none, S : none = <<>> /\ S = Seq(Chars)
  OBVIOUS
<1>5. PICK f : Descends(f, K, n, S, none, later, step)
  <2>1. none \in S /\ step \in [(1..n) \X S -> S]
    BY <1>1, <1>3, <1>4
  <2> HIDE DEF later, step, n, K
  <2> QED BY <1>1, <1>2, <2>1, DescentExists
<1>6. f \in [1..K -> S] /\ \A i \in 1..K : f[i] = IF i > n THEN none ELSE step[<<i, f[later[i]]>>]
  BY <1>5 DEF Descends
<1>7. \A i \in 1..n : f[i] = p[i] \o f[i + 1]
  <2> SUFFICES ASSUME NEW i \in 1..n PROVE f[i] = p[i] \o f[i + 1]
    OBVIOUS
  <2>1. later[i] = i + 1 /\ i \in 1..K /\ ~(i > n) /\ i + 1 \in 1..K
    BY <1>1
  <2> HIDE DEF later, step, n, K
  <2> QED BY <1>3, <1>4, <1>6, <2>1
<1>8. f[Len(p) + 1] = <<>>
  <2>1. Len(p) + 1 \in 1..K /\ Len(p) + 1 > n
    BY <1>1
  <2> HIDE DEF later, step, n, K
  <2> QED BY <1>4, <1>6, <2>1
<1>9. Recursion(f)
  <2>1. ASSUME NEW i \in 1..(Len(p) + 1) PROVE f[i] = IF i > Len(p) THEN <<>> ELSE p[i] \o f[i + 1]
    <3>1. (i = Len(p) + 1 /\ i > Len(p)) \/ (i \in 1..n /\ ~(i > Len(p)))
      BY <1>1
    <3> HIDE DEF later, step, K
    <3> QED BY <1>7, <1>8, <3>1
  <2>2. f = [i \in 1..(Len(p) + 1) |-> f[i]]
    BY <1>6
  <2> QED BY <2>1, <2>2
<1>10. ASSUME NEW w, Recursion(w) PROVE w = f
  <2>1. w = [i \in 1..K |-> w[i]] /\ \A i \in 1..K : i > n => w[i] = none
    BY <1>4, <1>10
  <2>2. \A i \in 1..n : w[later[i]] \in S => w[i] = step[<<i, w[later[i]]>>]
    <3> SUFFICES ASSUME NEW i \in 1..n, w[later[i]] \in S PROVE w[i] = step[<<i, w[later[i]]>>]
      OBVIOUS
    <3>1. i \in 1..K /\ ~(i > n) /\ later[i] = i + 1
      BY <1>1
    <3>2. w[i] = p[i] \o w[i + 1]
      BY <1>10, <3>1
    <3> HIDE DEF later, step
    <3> QED BY <1>3, <1>4, <3>1, <3>2
  <2>3. DescendsIn(w, K, n, S, none, later, step)
    <3> HIDE DEF later, step, n, K, Recursion
    <3> QED BY <2>1, <2>2 DEF DescendsIn
  <2> HIDE DEF later, step, n, K, Recursion
  <2> QED BY <1>1, <1>2, <1>5, <2>3, DescentUnique
<1>11. Cat(p) = f[1]
  <2>1. Cat(p) = (CHOOSE w : Recursion(w))[1]
    BY DEF Cat
  <2> HIDE DEF Recursion
  <2>2. (CHOOSE w : Recursion(w)) = f
    BY <1>9, <1>10
  <2> QED BY <2>1, <2>2
<1> HIDE DEF later, step, Recursion
<1> QED BY <1>4, <1>6, <1>7, <1>8, <1>11

\* One occurrence after the other, the line is that of its pieces: shown from the end of
\* the line, of the places that are inside of no occurrence.
LEMMA ReplacedIsPieces ==
  ASSUME NEW s \in Seq(Chars), NEW new \in Seq(Chars),
         \A h \in 1..Len(s) : Hit(s, h) => ~Hit(s, h + Len(Sub))
  PROVE  Replaced(s, new) = Cat(Pieces(s, new))
<1> DEFINE n == Len(s)
           m == Len(Sub)
           p == Pieces(s, new)
<1>1. n \in Nat /\ m \in Nat \ {0} /\ (\A i \in 1..n : s[i] \in Chars /\ <<s[i]>> \in Seq(Chars)) /\ <<>> \in Seq(Chars)
  BY LenProperties, ElementOfSeq, EmptySeq, SubIs
<1>2. /\ p \in Seq(Seq(Chars)) /\ Len(p) = n
      /\ \A i \in 1..n : p[i] = IF Hit(s, i) THEN new ELSE IF Inside(s, i) THEN <<>> ELSE <<s[i]>>
  <2>1. \A i \in 1..n : (IF Hit(s, i) THEN new ELSE IF Inside(s, i) THEN <<>> ELSE <<s[i]>>) \in Seq(Chars)
    BY <1>1
  <2>2. /\ p = [i \in 1..n |-> IF Hit(s, i) THEN new ELSE IF Inside(s, i) THEN <<>> ELSE <<s[i]>>]
        /\ n \in Nat
    BY <1>1 DEF Pieces
  <2> HIDE DEF p, n
  <2>3. p \in [1..n -> Seq(Chars)]
    BY <2>1, <2>2
  <2>4. p \in Seq(Seq(Chars)) /\ Len(p) = n
    BY <2>2, <2>3, IsASeq
  <2> QED BY <2>2, <2>4
<1>3. PICK f \in [1..(n + 2) -> Seq(Chars)] :
        /\ Replaced(s, new) = f[1]
        /\ f[n + 1] = <<>> /\ f[n + 2] = <<>>
        /\ \A i \in 1..n :
                f[i] = IF Hit(s, i)
                       THEN new \o (IF i + m > n THEN <<>> ELSE <<s[i + m]>>) \o f[i + m + 1]
                       ELSE <<s[i]>> \o f[i + 1]
  BY ReplacedIs
<1>4. PICK g \in [1..(n + 1) -> Seq(Chars)] :
        Cat(p) = g[1] /\ g[n + 1] = <<>> /\ \A i \in 1..n : g[i] = p[i] \o g[i + 1]
  <2>1. \E g \in [1..(Len(p) + 1) -> Seq(Chars)] :
           Cat(p) = g[1] /\ g[Len(p) + 1] = <<>> /\ \A i \in 1..Len(p) : g[i] = p[i] \o g[i + 1]
    <3> HIDE DEF p
    <3> QED BY <1>2, CatIs
  <2> QED BY <1>2, <2>1
<1>5. \A i \in 1..n : Hit(s, i) => i + m \in 2..(n + 1)
  BY HitFits
<1>6. \A i, h \in 1..n : Hit(s, h) /\ h < i /\ i < h + m => ~Hit(s, i)
  BY SubIs
<1>7. \A i : Inside(s, i) <=> \E h \in 1..n : Hit(s, h) /\ h < i /\ i < h + m
  BY DEF Inside
<1>8. \A h \in 1..n : Hit(s, h) => ~Hit(s, h + m)
  OBVIOUS
<1> HIDE DEF n, m, p
\* What is inside of an occurrence becomes nothing.
<1>9. ASSUME NEW h \in 1..n, Hit(s, h) PROVE g[h + 1] = g[h + m]
  <2> DEFINE T == {k \in (h + 1)..(h + m) : g[k] # g[h + m]}
  <2>0. h + m \in 2..(n + 1)
    BY <1>5, <1>9
  <2>1. T = {}
    <3> SUFFICES ASSUME T # {} PROVE FALSE
      OBVIOUS
    <3>0. n + 1 \in Nat /\ \A k \in (h + 1)..(h + m) : k \in 0..(n + 1)
      BY <1>1, <2>0
    <3>1. T \subseteq 0..(n + 1)
      BY <3>0
    <3>2. PICK k \in T : \A j \in T : j <= k
      <4> HIDE DEF T
      <4> QED BY <3>0, <3>1, GreatestNumber
    <3>3. k \in (h + 1)..(h + m) /\ g[k] # g[h + m]
      OBVIOUS
    <3>4. k # h + m
      BY <3>3
    <3>5. k + 1 \in (h + 1)..(h + m) /\ k + 1 \notin T
      <4> HIDE DEF T
      <4> QED BY <1>1, <3>2, <3>3, <3>4
    <3>6. g[k + 1] = g[h + m]
      BY <3>5
    <3> HIDE DEF T
    <3>7. k \in 1..n /\ h < k /\ k < h + m /\ k + 1 \in 1..(n + 1)
      BY <1>1, <2>0, <3>3, <3>4
    <3>8. ~Hit(s, k) /\ Inside(s, k)
      BY <1>6, <1>7, <1>9, <3>7
    <3>9. p[k] = <<>>
      BY <1>2, <3>7, <3>8
    <3>10. g[k] = <<>> \o g[k + 1] /\ g[k + 1] \in Seq(Chars)
      BY <1>4, <3>7, <3>9
    <3>11. g[k] = g[k + 1]
      BY <3>10, ConcatEmptySeq
    <3> QED BY <3>3, <3>6, <3>11
  <2>2. h + 1 \in (h + 1)..(h + m) /\ h + 1 \notin T
    <3>1. h + 1 \in (h + 1)..(h + m)
      BY <1>1
    <3> HIDE DEF T
    <3> QED BY <2>1, <3>1
  <2> QED BY <2>2
<1> DEFINE T == {i \in 1..(n + 1) : ~Inside(s, i) /\ f[i] # g[i]}
<1>10. T = {}
  <2> SUFFICES ASSUME T # {} PROVE FALSE
    OBVIOUS
  <2>1. T \subseteq 0..(n + 1) /\ n + 1 \in Nat
    BY <1>1
  <2>2. PICK i \in T : \A j \in T : j <= i
    <3> HIDE DEF T
    <3> QED BY <2>1, GreatestNumber
  <2>3. i \in 1..(n + 1) /\ ~Inside(s, i) /\ f[i] # g[i]
    OBVIOUS
  <2>4. \A j \in 1..(n + 1) : i < j /\ ~Inside(s, j) => f[j] = g[j]
    <3>1. \A j \in 1..(n + 1) : i < j => j \notin T
      <4> HIDE DEF T
      <4> QED BY <1>1, <2>2, <2>3
    <3> QED BY <3>1
  <2> HIDE DEF T
  <2>5. i \in 1..n
    <3>1. i # n + 1
      BY <1>3, <1>4, <2>3
    <3>2. n \in Nat /\ i \in 1..(n + 1)
      BY <1>1, <2>3
    <3> QED BY <3>1, <3>2
  <2>6. CASE ~Hit(s, i)
    <3>1. ~Inside(s, i + 1)
      <4> SUFFICES ASSUME NEW h \in 1..n, Hit(s, h), h < i + 1, i + 1 < h + m PROVE FALSE
        BY <1>7
      <4>1. n \in Nat /\ m \in Nat
        BY <1>1
      <4>2. h = i \/ (h < i /\ i < h + m)
        BY <2>5, <4>1
      <4> QED BY <1>7, <2>3, <2>6, <4>2
    <3>2. i + 1 \in 1..(n + 1) /\ i < i + 1
      BY <1>1, <2>5
    <3>3. f[i + 1] = g[i + 1]
      BY <2>4, <3>1, <3>2
    <3>4. p[i] = <<s[i]>>
      BY <1>2, <2>3, <2>5, <2>6
    <3>5. f[i] = <<s[i]>> \o f[i + 1]
      BY <1>3, <2>5, <2>6
    <3>6. g[i] = p[i] \o g[i + 1]
      BY <1>4, <2>5
    <3> QED BY <2>3, <3>3, <3>4, <3>5, <3>6
  <2>7. CASE Hit(s, i)
    <3>1. i + m \in 2..(n + 1)
      BY <1>5, <2>5, <2>7
    <3>2. g[i] = new \o g[i + m]
      <4>1. g[i] = p[i] \o g[i + 1] /\ p[i] = new
        BY <1>2, <1>4, <2>5, <2>7
      <4>2. g[i + 1] = g[i + m]
        BY <1>9, <2>5, <2>7
      <4> QED BY <4>1, <4>2
    <3>3. CASE i + m > n
      <4>1. i + m = n + 1 /\ i + m + 1 = n + 2
        BY <1>1, <2>5, <3>1, <3>3
      <4>2. f[i] = new \o <<>> \o <<>>
        <5>1. f[i] = new \o (IF i + m > n THEN <<>> ELSE <<s[i + m]>>) \o f[i + m + 1]
          BY <1>3, <2>5, <2>7
        <5> QED BY <1>3, <3>3, <4>1, <5>1
      <4>3. g[i] = new \o <<>>
        BY <1>4, <3>2, <4>1
      <4>4. new \o <<>> = new
        BY ConcatEmptySeq
      <4> QED BY <2>3, <4>2, <4>3, <4>4
    <3>4. CASE ~(i + m > n)
      <4>1. i + m \in 1..n /\ i < i + m /\ i + m + 1 \in 1..(n + 1) /\ i < i + m + 1
        BY <1>1, <2>5, <3>1, <3>4
      <4>2. ~Hit(s, i + m)
        BY <1>8, <2>5, <2>7
      <4>3. ~Inside(s, i + m)
        <5> SUFFICES ASSUME NEW h \in 1..n, Hit(s, h), h < i + m, i + m < h + m PROVE FALSE
          BY <1>7
        <5>1. i < h
          BY <1>1, <2>5
        <5> QED BY <1>6, <2>5, <2>7, <5>1
      <4>4. ~Inside(s, i + m + 1)
        <5> SUFFICES ASSUME NEW h \in 1..n, Hit(s, h), h < i + m + 1, i + m + 1 < h + m PROVE FALSE
          BY <1>7
        <5>1. h = i + m \/ (h < i + m /\ i + m < h + m)
          BY <1>1, <2>5
        <5> QED BY <1>7, <4>2, <4>3, <5>1
      <4>5. f[i + m + 1] = g[i + m + 1]
        BY <2>4, <4>1, <4>4
      <4>6. g[i + m] = <<s[i + m]>> \o g[i + m + 1]
        <5>1. p[i + m] = <<s[i + m]>>
          BY <1>2, <4>1, <4>2, <4>3
        <5> QED BY <1>4, <4>1, <5>1
      <4>7. f[i] = new \o <<s[i + m]>> \o f[i + m + 1]
        <5>1. f[i] = new \o (IF i + m > n THEN <<>> ELSE <<s[i + m]>>) \o f[i + m + 1]
          BY <1>3, <2>5, <2>7
        <5> QED BY <3>4, <5>1
      <4>8. <<s[i + m]>> \in Seq(Chars) /\ g[i + m + 1] \in Seq(Chars)
        BY <1>1, <1>4, <4>1
      <4>9. (new \o <<s[i + m]>>) \o g[i + m + 1] = new \o (<<s[i + m]>> \o g[i + m + 1])
        <5>1. \A q, r \in Seq(Chars) : (new \o q) \o r = new \o (q \o r)
          BY ConcatAssociative
        <5> QED BY <4>8, <5>1
      <4> QED BY <2>3, <3>2, <4>5, <4>6, <4>7, <4>9
    <3> QED BY <3>3, <3>4
  <2> QED BY <2>6, <2>7
<1>11. ~Inside(s, 1) /\ 1 \in 1..(n + 1)
  BY <1>1, <1>7
<1>12. 1 \notin T
  <2> HIDE DEF T
  <2> QED BY <1>10
<1>13. f[1] = g[1]
  BY <1>11, <1>12
<1> QED BY <1>3, <1>4, <1>13 DEF p

\* A line is one of the texts until a variable is replaced in it; from then on it is
\* what the replacement made of it.
Substituted ==
  /\ was = <<>> => text \in Texts \cup {<<>>}
  /\ was # <<>> => was \in Texts \X New /\ text = Replaced(was[1], was[2])

LEMMA SubstitutedInductive == TextSpec => []Substituted
<1>1. TextInit => Substituted
  BY DEF TextInit, Substituted
<1>2. ASSUME Substituted, [TextNext]_textVars PROVE Substituted'
  <2>1. ASSUME NEW s \in Texts, ReadText(s) PROVE Substituted'
    BY <1>2, <2>1 DEF ReadText, Substituted
  <2>2. ASSUME NEW new \in New, ReplaceSubstring(new) PROVE Substituted'
    <3>1. text \in Texts /\ was' = <<text, new>> /\ text' = Replaced(text, new)
      BY <1>2, <2>2 DEF ReplaceSubstring, Substituted
    <3>2. was' # <<>> /\ was'[1] = text /\ was'[2] = new /\ was' \in Texts \X New
      BY <3>1
    <3> QED BY <3>1, <3>2 DEF Substituted
  <2>3. CASE LineDone
    BY <1>2, <2>3 DEF LineDone, Substituted
  <2>4. CASE UNCHANGED textVars
    BY <1>2, <2>4 DEF textVars, Substituted
  <2> QED BY <1>2, <2>1, <2>2, <2>3, <2>4 DEF TextNext
<1> QED BY <1>1, <1>2, PTL DEF TextSpec

\* replaceSubstring, for any line, any value and any variable whose first character is
\* nowhere else in it: each occurrence becomes the value and the rest of the line stays,
\* unless one occurrence stands directly behind another (string_util.c:163-202).
THEOREM ReplacementIsWhole == TextSpec => []ReplacesSeparated
<1>1. Substituted => ReplacesSeparated
  <2> SUFFICES ASSUME Substituted, was # <<>>, \A h \in 1..Len(was[1]) : Hit(was[1], h) => ~Hit(was[1], h + Len(Sub))
               PROVE  text = Cat(Pieces(was[1], was[2]))
    BY DEF ReplacesSeparated
  <2>1. was \in Texts \X New /\ text = Replaced(was[1], was[2])
    BY DEF Substituted
  <2>2. was[1] \in Seq(Chars) /\ was[2] \in Seq(Chars)
    BY <2>1, StringAssumption
  <2> QED BY <2>1, <2>2, ReplacedIsPieces
<1> QED BY <1>1, SubstitutedInductive, PTL
================================================================================
