------------------------ MODULE FixedSizeDemarcar_proofs -----------------------
(****************************************************************************)
(* Proofs about the receive path of a client, for every size of the ring,   *)
(* of the caller's buffer and of a message.                                 *)
(*                                                                          *)
(* The ring: BInv is inductive.  The indices are in range, they agree with  *)
(* current_size, and the ring holds the unread bytes in order.              *)
(*                                                                          *)
(* The demarcar: each message is where it belongs in the stream, the bytes  *)
(* left over are bounded, and with room for them the assertion of           *)
(* process_msg never fails.                                                 *)
(****************************************************************************)
EXTENDS FixedSizeDemarcar, TLAPS

(****************************************************************************)
(* byte_circular_buffer.                                                    *)
(****************************************************************************)
\* The inductive invariant.
BInv == TypeOK /\ Accounting /\ HoldsUnread

\* What BInv says of the numbers, in the form the arithmetic needs.
LEMMA Numbers ==
  ASSUME BInv
  PROVE  /\ Size \in Nat /\ Size > 0 /\ ReadSize \in Nat
         /\ front \in Nat /\ front < Size /\ rear \in Nat /\ rear < Size
         /\ current_size \in Nat /\ current_size <= Size
         /\ written \in Nat /\ taken \in Nat /\ current_size = written - taken
         /\ rear + current_size < Size => front = rear + current_size
         /\ rear + current_size >= Size => front = rear + current_size - Size
BY SizeAssumption, ReadSizeAssumption DEF BInv, TypeOK, Accounting, Wrap

\* An accepted write, whichever branch it takes, in one formula: the slots
\* after the unread bytes take the new ones, on either side of the end.
LEMMA WriteEffect ==
  ASSUME BInv, NEW n \in Nat, BcbWrite(n)
  PROVE  /\ n <= Size - current_size
         /\ current_size' = current_size + n /\ written' = written + n
         /\ rear' = rear /\ data' = data /\ taken' = taken
         /\ front + n >= Size => front' = front + n - Size
         /\ front + n < Size => front' = front + n
         /\ buffer' = [i \in 0..(Size - 1) |->
                         IF front <= i /\ i < front + n THEN written + 1 + (i - front)
                         ELSE IF i < front + n - Size THEN written + 1 + (Size - front) + i
                         ELSE buffer[i]]
<1>0. /\ current_size # Size /\ n <= Size - current_size
      /\ current_size' = current_size + n /\ written' = written + n
      /\ rear' = rear /\ data' = data /\ taken' = taken
  BY Numbers DEF BcbWrite, WriteRefused, IsFull, AvailableSize
<1>1. CASE front < rear \/ n <= Size - front
  <2>1. front + n <= Size
    BY <1>0, <1>1, Numbers
  <2>2. /\ buffer' = [i \in 0..(Size - 1) |->
                        IF front <= i /\ i < front + n THEN written + 1 + (i - front) ELSE buffer[i]]
        /\ front' = IF front + n = Size THEN 0 ELSE front + n
    BY <1>1 DEF BcbWrite, WriteInOneRun, Filled, AtEnd
  <2>3. \A i \in 0..(Size - 1) : ~(i < front + n - Size)
    BY <2>1, Numbers
  <2>4. /\ front + n >= Size => front' = front + n - Size
        /\ front + n < Size => front' = front + n
    <3>1. front' = IF front + n = Size THEN 0 ELSE front + n
      BY <2>2
    <3> QED BY <2>1, <3>1, Numbers
  <2>5. \A i \in 0..(Size - 1) :
          (IF front <= i /\ i < front + n THEN written + 1 + (i - front)
           ELSE IF i < front + n - Size THEN written + 1 + (Size - front) + i ELSE buffer[i])
          = IF front <= i /\ i < front + n THEN written + 1 + (i - front) ELSE buffer[i]
    BY <2>3
  <2>6. buffer' = [i \in 0..(Size - 1) |->
                     IF front <= i /\ i < front + n THEN written + 1 + (i - front)
                     ELSE IF i < front + n - Size THEN written + 1 + (Size - front) + i
                     ELSE buffer[i]]
    BY <2>2, <2>5
  <2> QED BY <1>0, <2>4, <2>6
<1>2. CASE ~(front < rear \/ n <= Size - front)
  <2> DEFINE leading == Size - front
             f1 == Filled(buffer, front, leading, written + 1)
  <2>1. front + n > Size /\ n - leading <= front /\ n - leading = front + n - Size
    BY <1>0, <1>2, Numbers
  <2>2. buffer' = Filled(f1, 0, n - leading, written + 1 + leading) /\ front' = n - leading
    BY <1>2 DEF BcbWrite, WriteWrapped
  <2>3. ASSUME NEW i \in 0..(Size - 1)
        PROVE  /\ f1[i] = IF front <= i THEN written + 1 + (i - front) ELSE buffer[i]
               /\ (0 <= i /\ i < 0 + (n - leading)) <=> i < front + n - Size
               /\ i - 0 = i
               /\ i < front + n - Size => ~(front <= i)
               /\ i < front + n
    <3>1. i < front + leading /\ i >= 0 /\ i \in Int
      BY Numbers
    <3> QED BY <3>1, <2>1, Numbers DEF Filled
  <2>4. buffer' = [i \in 0..(Size - 1) |->
                     IF 0 <= i /\ i < 0 + (n - leading) THEN written + 1 + leading + (i - 0)
                     ELSE f1[i]]
    BY <2>2 DEF Filled
  <2> HIDE DEF f1
  <2>5. buffer' = [i \in 0..(Size - 1) |->
                         IF front <= i /\ i < front + n THEN written + 1 + (i - front)
                         ELSE IF i < front + n - Size THEN written + 1 + (Size - front) + i
                         ELSE buffer[i]]
    BY <2>3, <2>4
  <2>6. /\ front + n >= Size => front' = front + n - Size
        /\ front + n < Size => front' = front + n
    BY <2>1, <2>2, Numbers
  <2> QED BY <1>0, <2>5, <2>6
<1> QED BY <1>1, <1>2

\* A write accepted by bcb_write keeps BInv.
LEMMA WriteKeeps == ASSUME BInv, NEW n \in Nat, BcbWrite(n) PROVE BInv'
<1> DEFINE new(i) == IF front <= i /\ i < front + n THEN written + 1 + (i - front)
                     ELSE IF i < front + n - Size THEN written + 1 + (Size - front) + i
                     ELSE buffer[i]
<1>0. /\ Size \in Nat /\ Size > 0
      /\ front \in Nat /\ front < Size /\ rear \in Nat /\ rear < Size
      /\ current_size \in Nat /\ current_size <= Size
      /\ written \in Nat /\ taken \in Nat /\ current_size = written - taken
      /\ rear + current_size < Size => front = rear + current_size
      /\ rear + current_size >= Size => front = rear + current_size - Size
  BY Numbers
<1>1. /\ n <= Size - current_size
      /\ current_size' = current_size + n /\ written' = written + n
      /\ rear' = rear /\ data' = data /\ taken' = taken
      /\ front + n >= Size => front' = front + n - Size
      /\ front + n < Size => front' = front + n
  BY WriteEffect
<1>2. buffer' = [i \in 0..(Size - 1) |-> new(i)]
  BY WriteEffect
<1>3. ASSUME NEW i \in 0..(Size - 1) PROVE new(i) \in Nat /\ buffer'[i] = new(i)
  <2>1. buffer[i] \in Nat
    BY DEF BInv, TypeOK
  <2>2. i \in Nat
    BY <1>0
  <2>3. new(i) \in Nat
    BY <1>0, <2>1, <2>2
  <2> HIDE DEF new
  <2> QED BY <1>2, <2>3
<1>4. TypeOK'
  <2>1. data' \in [0..(ReadSize - 1) -> Nat]
    BY <1>1 DEF BInv, TypeOK
  <2>2. buffer' \in [0..(Size - 1) -> Nat]
    <3> HIDE DEF new
    <3> QED BY <1>2, <1>3
  <2>3. /\ front' \in 0..(Size - 1) /\ rear' \in 0..(Size - 1) /\ current_size' \in 0..Size
        /\ written' \in Nat /\ taken' \in Nat
    <3> HIDE DEF new
    <3> QED BY <1>0, <1>1
  <2> QED BY <2>1, <2>2, <2>3 DEF TypeOK
<1>5. Accounting'
  <2>1. current_size' = written' - taken'
    BY <1>0, <1>1
  <2>2. rear' + current_size' < Size => front' = rear' + current_size'
    BY <1>0, <1>1
  <2>3. rear' + current_size' >= Size => front' = rear' + current_size' - Size
    BY <1>0, <1>1
  <2>4. rear' \in Nat /\ current_size' \in Nat
    BY <1>0, <1>1
  <2>5. Size \in Nat
    BY <1>0
  <2> QED BY <2>1, <2>2, <2>3, <2>4, <2>5 DEF Accounting, Wrap
<1>6. HoldsUnread'
  <2> SUFFICES ASSUME NEW k \in 0..(Size - 1), k < current_size + n
               PROVE  buffer'[Wrap(rear + k)] = taken + 1 + k
    BY <1>1 DEF HoldsUnread, Wrap
  <2>0. k \in Nat /\ k < Size
    BY <1>0
  <2> DEFINE slot == Wrap(rear + k)
  <2>1. /\ rear + k >= Size => slot = rear + k - Size
        /\ rear + k < Size => slot = rear + k
    BY <1>0, <2>0 DEF Wrap
  <2> HIDE DEF slot
  <2>3. slot \in Nat /\ slot < Size
    BY <1>0, <2>0, <2>1
  <2>2. buffer'[slot] = new(slot)
    <3>1. slot \in 0..(Size - 1)
      BY <1>0, <2>3
    <3> HIDE DEF new
    <3> QED BY <1>3, <3>1
  <2>6. SUFFICES buffer'[slot] = taken + 1 + k
    BY DEF slot
  <2>4. CASE k < current_size
    <3>1. buffer[slot] = taken + 1 + k
      BY <2>4 DEF BInv, HoldsUnread, slot
    <3>2. ~(front <= slot /\ slot < front + n)
      BY <1>0, <1>1, <2>0, <2>1, <2>3, <2>4
    <3>3. ~(slot < front + n - Size)
      BY <1>0, <1>1, <2>0, <2>1, <2>3, <2>4
    <3> QED BY <2>2, <3>1, <3>2, <3>3
  <2>5. CASE k >= current_size
    <3>1. \/ slot = front + (k - current_size)
          \/ slot = front + (k - current_size) - Size
      BY <1>0, <1>1, <2>0, <2>1, <2>3, <2>5
    <3>2. CASE slot = front + (k - current_size)
      <4>1. front <= slot /\ slot < front + n /\ written + 1 + (slot - front) = taken + 1 + k
        BY <1>0, <1>1, <2>0, <2>3, <2>5, <3>2
      <4> QED BY <2>2, <4>1
    <3>3. CASE slot = front + (k - current_size) - Size
      <4>1. /\ ~(front <= slot) /\ slot < front + n - Size
            /\ written + 1 + (Size - front) + slot = taken + 1 + k
        BY <1>0, <1>1, <2>0, <2>3, <2>5, <3>3
      <4> QED BY <2>2, <4>1
    <3> QED BY <3>1, <3>2, <3>3
  <2> QED BY <1>0, <2>0, <2>4, <2>5
<1> QED BY <1>4, <1>5, <1>6 DEF BInv

\* A memcpy of m bytes from slot `at` reads the ring only.
LEMMA CopiedType ==
  ASSUME BInv, NEW d \in [0..(ReadSize - 1) -> Nat], NEW at \in Nat, NEW m \in Nat,
         at + m <= Size
  PROVE  Copied(d, at, m) \in [0..(ReadSize - 1) -> Nat]
<1>1. ASSUME NEW i \in 0..(ReadSize - 1), i < m PROVE buffer[at + i] \in Nat
  <2>1. at + i \in 0..(Size - 1)
    BY <1>1, Numbers
  <2> QED BY <2>1 DEF BInv, TypeOK
<1> QED BY <1>1 DEF Copied

\* A read, wrapped or not, removing or not, in one formula.
LEMMA ReadEffect ==
  ASSUME BInv, NEW n \in 0..ReadSize, NEW remove \in BOOLEAN, BcbRead(n, remove)
  PROVE  /\ n \in Nat /\ n <= current_size
         /\ current_size' = IF remove THEN current_size - n ELSE current_size
         /\ taken' = IF remove THEN taken + n ELSE taken
         /\ ~remove => rear' = rear
         /\ remove /\ rear + n >= Size => rear' = rear + n - Size
         /\ remove /\ rear + n < Size => rear' = rear + n
         /\ buffer' = buffer /\ front' = front /\ written' = written
         /\ data' \in [0..(ReadSize - 1) -> Nat]
<1>1. /\ n \in Nat /\ n <= current_size
      /\ current_size' = IF remove THEN current_size - n ELSE current_size
      /\ taken' = IF remove THEN taken + n ELSE taken
      /\ buffer' = buffer /\ front' = front /\ written' = written
  BY Numbers DEF BcbRead, ReadRefused
<1>2. data \in [0..(ReadSize - 1) -> Nat]
  BY DEF BInv, TypeOK
<1>3. CASE ~ReadWraps(n)
  <2>1. rear + n <= Size
    BY <1>1, <1>3, Numbers DEF ReadWraps
  <2>2. data' = Copied(data, rear, n) /\ rear' = IF remove THEN AtEnd(rear + n) ELSE rear
    BY <1>3 DEF BcbRead, ReadInOneRun
  <2>3. data' \in [0..(ReadSize - 1) -> Nat]
    BY <1>1, <1>2, <2>1, <2>2, CopiedType, Numbers
  <2>4. /\ rear + n >= Size => AtEnd(rear + n) = rear + n - Size
        /\ rear + n < Size => AtEnd(rear + n) = rear + n
    <3>1. rear \in Nat /\ n \in Nat /\ Size \in Nat
      BY <1>1, Numbers
    <3> QED BY <2>1, <3>1 DEF AtEnd
  <2> QED BY <1>1, <2>2, <2>3, <2>4
<1>4. CASE ReadWraps(n)
  <2> DEFINE leading == Size - rear
  <2>1. leading \in Nat /\ n - leading \in Nat /\ n - leading <= Size /\ rear + leading <= Size
    BY <1>1, <1>4, Numbers DEF ReadWraps
  <2>2. /\ data' = Copied(Copied(data, rear, leading), 0, n - leading)
        /\ rear' = IF remove THEN n - leading ELSE rear
    BY <1>4 DEF BcbRead, ReadWrapped
  <2>3. Copied(data, rear, leading) \in [0..(ReadSize - 1) -> Nat]
    BY <1>2, <2>1, CopiedType, Numbers
  <2>4. Copied(Copied(data, rear, leading), 0, n - leading) \in [0..(ReadSize - 1) -> Nat]
    <3> DEFINE first == Copied(data, rear, leading)
    <3>1. 0 \in Nat /\ 0 + (n - leading) <= Size
      BY <2>1, Numbers
    <3> HIDE DEF first, leading
    <3> QED BY <2>1, <2>3, <3>1, CopiedType
  <2>5. rear + n >= Size /\ n - leading = rear + n - Size
    BY <1>1, <2>1, Numbers
  <2>6. rear + n \in Nat /\ Size \in Nat
    BY <1>1, Numbers
  <2>7. /\ ~remove => rear' = rear
        /\ remove => rear' = rear + n - Size
    BY <2>2, <2>5
  <2> QED BY <1>1, <2>2, <2>4, <2>5, <2>6, <2>7
<1> QED BY <1>3, <1>4

\* A read keeps BInv.
LEMMA ReadKeeps ==
  ASSUME BInv, NEW n \in 0..ReadSize, NEW remove \in BOOLEAN, BcbRead(n, remove) PROVE BInv'
<1>0. /\ Size \in Nat /\ Size > 0
      /\ front \in Nat /\ front < Size /\ rear \in Nat /\ rear < Size
      /\ current_size \in Nat /\ current_size <= Size
      /\ written \in Nat /\ taken \in Nat /\ current_size = written - taken
      /\ rear + current_size < Size => front = rear + current_size
      /\ rear + current_size >= Size => front = rear + current_size - Size
  BY Numbers
<1>1. /\ n \in Nat /\ n <= current_size
      /\ current_size' = IF remove THEN current_size - n ELSE current_size
      /\ taken' = IF remove THEN taken + n ELSE taken
      /\ ~remove => rear' = rear
      /\ remove /\ rear + n >= Size => rear' = rear + n - Size
      /\ remove /\ rear + n < Size => rear' = rear + n
      /\ buffer' = buffer /\ front' = front /\ written' = written
      /\ data' \in [0..(ReadSize - 1) -> Nat]
  BY ReadEffect
<1>2. CASE ~remove
  BY <1>1, <1>2 DEF BInv, TypeOK, Accounting, HoldsUnread, Wrap
<1>3. CASE remove
  <2>1. current_size' = current_size - n /\ taken' = taken + n
    BY <1>1, <1>3
  <2>2. rear' \in Nat /\ rear' < Size
    BY <1>0, <1>1, <1>3
  <2>3. TypeOK'
    <3>1. buffer' \in [0..(Size - 1) -> Nat]
      BY <1>1 DEF BInv, TypeOK
    <3>2. /\ front' \in 0..(Size - 1) /\ rear' \in 0..(Size - 1)
          /\ current_size' \in 0..Size /\ written' \in Nat /\ taken' \in Nat
      BY <1>0, <1>1, <2>1, <2>2
    <3> QED BY <1>1, <3>1, <3>2 DEF TypeOK
  <2>4. Accounting'
    <3>1. current_size' = written' - taken'
      BY <1>0, <1>1, <2>1
    <3>2. rear' + current_size' < Size => front' = rear' + current_size'
      BY <1>0, <1>1, <1>3, <2>1
    <3>3. rear' + current_size' >= Size => front' = rear' + current_size' - Size
      BY <1>0, <1>1, <1>3, <2>1
    <3>4. rear' \in Nat /\ current_size' \in Nat
      <4>1. n \in Nat /\ n <= current_size /\ current_size \in Nat
        BY <1>0, <1>1
      <4> QED BY <2>1, <2>2, <4>1
    <3>5. Size \in Nat
      BY <1>0
    <3> QED BY <3>1, <3>2, <3>3, <3>4, <3>5 DEF Accounting, Wrap
  <2>5. HoldsUnread'
    <3> SUFFICES ASSUME NEW k \in 0..(Size - 1), k < current_size - n
                 PROVE  buffer[Wrap(rear' + k)] = taken + n + 1 + k
      BY <1>1, <2>1 DEF HoldsUnread, Wrap
    <3>0. k \in Nat /\ k < Size
      BY <1>0
    <3>1. n + k \in 0..(Size - 1) /\ n + k < current_size
      BY <1>0, <1>1, <3>0
    <3>2. buffer[Wrap(rear + (n + k))] = taken + 1 + (n + k)
      BY <3>1 DEF BInv, HoldsUnread
    <3>3. CASE rear + n >= Size
      BY <1>0, <1>1, <1>3, <3>0, <3>2, <3>3 DEF Wrap
    <3>4. CASE rear + n < Size
      <4>1. rear' + k = rear + (n + k)
        BY <1>0, <1>1, <1>3, <3>0, <3>4
      <4>2. taken + 1 + (n + k) = taken + n + 1 + k
        BY <1>0, <1>1, <3>0
      <4> QED BY <3>2, <4>1, <4>2
    <3> QED BY <1>0, <1>1, <3>3, <3>4
  <2> QED BY <2>3, <2>4, <2>5 DEF BInv
<1> QED BY <1>2, <1>3

\* bcb_reset keeps BInv.
LEMMA ResetKeeps == ASSUME BInv, BcbReset PROVE BInv'
<1>1. /\ current_size' = 0 /\ front' = 0 /\ rear' = 0 /\ taken' = written
      /\ buffer' = buffer /\ data' = data /\ written' = written
  BY DEF BcbReset
<1>2. TypeOK'
  BY <1>1, Numbers DEF BInv, TypeOK
<1>3. Accounting' /\ HoldsUnread'
  BY <1>1, Numbers DEF Accounting, HoldsUnread, Wrap
<1> QED BY <1>2, <1>3 DEF BInv

\* BInv holds at the start.
LEMMA BInvInit == Init => BInv
<1> SUFFICES ASSUME Init PROVE BInv
  OBVIOUS
<1> USE SizeAssumption, ReadSizeAssumption DEF Init
<1>0. Size \in Nat /\ Size > 0 /\ ReadSize \in Nat
  OBVIOUS
<1>1. TypeOK
  <2>1. buffer \in [0..(Size - 1) -> Nat] /\ data \in [0..(ReadSize - 1) -> Nat]
    OBVIOUS
  <2>2. 0 \in 0..(Size - 1) /\ 0 \in 0..Size
    BY <1>0
  <2> QED BY <2>1, <2>2 DEF TypeOK
<1>2. Accounting
  BY <1>0 DEF Accounting, Wrap
<1>3. HoldsUnread
  <2>1. \A k \in 0..(Size - 1) : ~(k < current_size)
    BY <1>0
  <2> QED BY <2>1 DEF HoldsUnread
<1> QED BY <1>1, <1>2, <1>3 DEF BInv

\* BInv holds in every state of the buffer.
THEOREM BufferInvariant == Spec => []BInv
<1>1. BInv /\ [Next]_vars => BInv'
  <2> SUFFICES ASSUME BInv, [Next]_vars PROVE BInv'
    OBVIOUS
  <2>1. ASSUME NEW n \in 0..Size, Write(n) PROVE BInv'
    BY <2>1, WriteKeeps, SizeAssumption DEF Write
  <2>2. ASSUME UNCHANGED vars PROVE BInv'
    BY <2>2 DEF vars, BInv, TypeOK, Accounting, HoldsUnread, Wrap
  <2>3. ASSUME NEW n \in 0..Size, Refused(n) PROVE BInv'
    BY <2>2, <2>3 DEF Refused
  <2>4. ASSUME NEW n \in 0..ReadSize, NEW remove \in BOOLEAN, BcbRead(n, remove) PROVE BInv'
    BY <2>4, ReadKeeps
  <2>5. ASSUME BcbReset PROVE BInv'
    BY <2>5, ResetKeeps
  <2> QED BY <2>1, <2>2, <2>3, <2>4, <2>5 DEF Next
<1> QED BY BInvInit, <1>1, PTL DEF Spec

\* The indices name slots of the ring in every state: no memcpy leaves it.
THEOREM BufferTypeOK == Spec => []TypeOK
<1>1. BInv => TypeOK
  BY DEF BInv
<1> QED BY BufferInvariant, <1>1, PTL

\* current_size always agrees with the indices and with what went in and out.
THEOREM BufferAccounting == Spec => []Accounting
<1>1. BInv => Accounting
  BY DEF BInv
<1> QED BY BufferInvariant, <1>1, PTL

\* No write ever lands on a byte that was not read: the ring holds exactly
\* the unread bytes, oldest first.
THEOREM BufferHoldsUnread == Spec => []HoldsUnread
<1>1. BInv => HoldsUnread
  BY DEF BInv
<1> QED BY BufferInvariant, <1>1, PTL

\* A read that does not cross the end of the ring gives the oldest bytes.
THEOREM BufferReadsOldest == Spec => ReadsOldest
<1> DEFINE Oldest == \A n \in 1..ReadSize :
                       BcbRead(n, TRUE) /\ ~ReadWraps(n) =>
                         \A i \in 0..(n - 1) : data'[i] = taken + 1 + i
<1>1. BInv => Oldest
  <2> SUFFICES ASSUME BInv, NEW n \in 1..ReadSize, BcbRead(n, TRUE), ~ReadWraps(n),
                      NEW i \in 0..(n - 1)
               PROVE  data'[i] = taken + 1 + i
    OBVIOUS
  <2>0. n \in 0..ReadSize /\ i \in Nat /\ i < n /\ i \in 0..(ReadSize - 1)
    BY Numbers
  <2>1. n <= current_size /\ data' = Copied(data, rear, n)
    BY <2>0, ReadEffect DEF BcbRead, ReadInOneRun
  <2>2. data'[i] = buffer[rear + i]
    BY <2>0, <2>1 DEF Copied, BInv, TypeOK
  <2>4. i \in 0..(Size - 1) /\ i < current_size /\ Wrap(rear + i) = rear + i
    BY <2>0, <2>1, Numbers DEF ReadWraps, Wrap
  <2>5. buffer[Wrap(rear + i)] = taken + 1 + i
    BY <2>4 DEF BInv, HoldsUnread
  <2> QED BY <2>2, <2>4, <2>5
<1>2. BInv /\ [Next]_vars => [Oldest]_vars
  BY <1>1
<1> QED BY BufferInvariant, <1>2, PTL DEF Spec, ReadsOldest

(****************************************************************************)
(* The fixed-size demarcar.                                                 *)
(****************************************************************************)
\* Where a message begins, in the stream and in the ring.  Both hold whatever
\* recvfrom returns.
WholeMessages == taken = msgs * MsgSize
Offset == rear = taken % Size
DInv == BInv /\ DemTypeOK /\ WholeMessages /\ Offset /\ MessageInStream

\* Arithmetic that no step below should have to redo.
LEMMA Distribute == ASSUME NEW a \in Nat, NEW b \in Nat PROVE (a + 1) * b = a * b + b /\ a * b \in Nat
OBVIOUS

LEMMA Monotone == ASSUME NEW a \in Nat, NEW b \in Nat, NEW c \in Nat, a <= b PROVE a * c <= b * c
OBVIOUS

LEMMA DivPositive == ASSUME NEW a \in Nat, NEW b \in Nat \ {0} PROVE a \div b > 0 <=> a >= b
OBVIOUS

LEMMA DivMod ==
  ASSUME NEW a \in Nat, NEW b \in Nat \ {0}
  PROVE  a = (a \div b) * b + (a % b) /\ a \div b \in Nat /\ a % b \in 0..(b - 1)
OBVIOUS

LEMMA ModIs ==
  ASSUME NEW k \in Nat, NEW b \in Nat \ {0}, NEW r \in 0..(b - 1) PROVE (k * b + r) % b = r
OBVIOUS

\* At most once round the ring.
LEMMA ModStep ==
  ASSUME NEW a \in Nat, NEW b \in Nat \ {0}, NEW n \in 0..b
  PROVE  (a + n) % b = IF (a % b) + n >= b THEN ((a % b) + n) - b ELSE (a % b) + n
<1>1. PICK k \in Nat, r \in 0..(b - 1) : a = k * b + r /\ a % b = r
  BY DivMod
<1>2. (k + 1) * b = k * b + b /\ k * b \in Nat /\ k + 1 \in Nat
  OBVIOUS
<1>3. CASE r + n >= b
  <2>1. a + n = (k + 1) * b + (r + n - b) /\ r + n - b \in 0..(b - 1)
    BY <1>1, <1>2, <1>3
  <2>2. ((k + 1) * b + (r + n - b)) % b = r + n - b
    BY <1>2, <2>1, ModIs
  <2> QED BY <1>1, <1>3, <2>1, <2>2
<1>4. CASE ~(r + n >= b)
  <2>1. a + n = k * b + (r + n) /\ r + n \in 0..(b - 1)
    BY <1>1, <1>2, <1>4
  <2>2. (k * b + (r + n)) % b = r + n
    BY <2>1, ModIs
  <2> QED BY <1>1, <1>4, <2>1, <2>2
<1> QED BY <1>3, <1>4

LEMMA ConstantFacts ==
  /\ MsgSize \in Nat /\ MsgSize >= 1 /\ MsgSize <= ReadSize /\ MaxRecv \in Nat /\ MsgSize <= MaxRecv
  /\ MaxCancels \in Nat /\ Size \in Nat /\ ReadSize \in Nat
  /\ \A n \in (1..MaxRecv) \cup Endings : n \in Nat
BY MsgSizeAssumption, MaxRecvAssumption, EndingsAssumption, SizeAssumption, ReadSizeAssumption

\* The ring's invariant is kept by every step of the demarcar.
LEMMA RingKept == ASSUME BInv, [DemNext]_demVars PROVE BInv'
<1>1. ASSUME NEW n \in (1..MaxRecv) \cup Endings, ProcessMsg(n) PROVE BInv'
  BY <1>1, WriteKeeps, ConstantFacts DEF ProcessMsg
<1>2. ASSUME FlushOne PROVE BInv'
  <2>1. MsgSize \in 0..ReadSize
    BY ConstantFacts
  <2> QED BY <1>2, <2>1, ReadKeeps DEF FlushOne
<1>3. ASSUME UNCHANGED vars PROVE BInv'
  BY <1>3 DEF vars, BInv, TypeOK, Accounting, HoldsUnread, Wrap
<1> QED
  BY <1>1, <1>2, <1>3
  DEF DemNext, demVars, ProcessMsgAborts, FlushEnds, CallbackReturns, Cancelled, Finished

\* A message takes exactly MsgSize bytes out of the ring.
LEMMA FlushEffect ==
  ASSUME BInv, FlushOne
  PROVE  /\ current_size >= MsgSize /\ current_size' = current_size - MsgSize
         /\ taken' = taken + MsgSize /\ data' \in [0..(ReadSize - 1) -> Nat]
<1>1. MsgSize \in 0..ReadSize
  BY ConstantFacts
<1>2. BcbRead(MsgSize, TRUE)
  BY DEF FlushOne
<1>3. /\ MsgSize <= current_size /\ data' \in [0..(ReadSize - 1) -> Nat]
      /\ current_size' = IF TRUE THEN current_size - MsgSize ELSE current_size
      /\ taken' = IF TRUE THEN taken + MsgSize ELSE taken
  BY <1>1, <1>2, ReadEffect
<1> QED BY <1>3, Numbers, ConstantFacts

\* Removing moves `rear` round the ring as far as the stream.
LEMMA OffsetMoves == ASSUME BInv, Offset, FlushOne PROVE Offset'
<1>1. MsgSize \in 0..ReadSize /\ MsgSize \in Nat
  BY ConstantFacts
<1>2. /\ MsgSize <= current_size /\ taken' = taken + MsgSize
      /\ rear + MsgSize >= Size => rear' = rear + MsgSize - Size
      /\ rear + MsgSize < Size => rear' = rear + MsgSize
  BY <1>1, ReadEffect, FlushEffect DEF FlushOne
<1>3. Size \in Nat \ {0} /\ taken \in Nat /\ MsgSize \in 0..Size /\ rear \in Nat
  BY <1>1, <1>2, Numbers
<1>4. (taken + MsgSize) % Size
        = IF (taken % Size) + MsgSize >= Size THEN ((taken % Size) + MsgSize) - Size ELSE (taken % Size) + MsgSize
  BY <1>3, ModStep
<1>5. rear' = (taken + MsgSize) % Size
  BY <1>1, <1>2, <1>3, <1>4 DEF Offset
<1> QED BY <1>2, <1>5 DEF Offset

\* What bcb_read puts where, with the oldest bytes at `rear`: a run, or what
\* stood behind the end of the ring over the beginning of what stood before it.
LEMMA FlushGives ==
  ASSUME BInv, FlushOne, NEW i \in 0..(MsgSize - 1)
  PROVE  /\ MsgSize <= Size - rear => data'[i] = taken + 1 + i
         /\ ~(MsgSize <= Size - rear) /\ i < MsgSize - (Size - rear) => data'[i] = taken + (Size - rear) + 1 + i
<1>0. /\ i \in Nat /\ i < MsgSize /\ i \in DOMAIN data
      /\ MsgSize \in Nat /\ MsgSize <= current_size
  <2>1. i \in 0..(ReadSize - 1) /\ i \in Nat /\ i < MsgSize
    BY ConstantFacts
  <2>2. DOMAIN data = 0..(ReadSize - 1)
    BY DEF BInv, TypeOK
  <2> QED BY <2>1, <2>2, FlushEffect, ConstantFacts
<1>r. IF ReadWraps(MsgSize) THEN ReadWrapped(MsgSize, TRUE) ELSE ReadInOneRun(MsgSize, TRUE)
  BY DEF FlushOne, BcbRead
<1>1. ASSUME MsgSize <= Size - rear PROVE data'[i] = taken + 1 + i
  <2>1. ~ReadWraps(MsgSize)
    BY <1>0, <1>1, Numbers DEF ReadWraps
  <2>t. data' = Copied(data, rear, MsgSize)
    BY <1>r, <2>1 DEF ReadInOneRun
  <2>2. data'[i] = buffer[rear + i]
    BY <1>0, <2>t DEF Copied
  <2>3. i \in 0..(Size - 1) /\ i < current_size /\ Wrap(rear + i) = rear + i
    BY <1>0, <1>1, Numbers DEF Wrap
  <2>4. buffer[Wrap(rear + i)] = taken + 1 + i
    BY <2>3 DEF BInv, HoldsUnread
  <2> QED BY <2>2, <2>3, <2>4
<1>2. ASSUME ~(MsgSize <= Size - rear), i < MsgSize - (Size - rear)
      PROVE  data'[i] = taken + (Size - rear) + 1 + i
  <2>1. ReadWraps(MsgSize)
    BY <1>0, <1>2, Numbers DEF ReadWraps
  <2>2. data' = Copied(Copied(data, rear, Size - rear), 0, MsgSize - (Size - rear))
    BY <1>r, <2>1 DEF ReadWrapped
  <2>3. DOMAIN Copied(data, rear, Size - rear) = DOMAIN data
    BY DEF Copied
  <2>4. data'[i] = buffer[0 + i] /\ 0 + i = i
    BY <1>0, <1>2, <2>2, <2>3 DEF Copied
  <2> DEFINE k == (Size - rear) + i
  <2>5. k \in 0..(Size - 1) /\ k < current_size /\ Wrap(rear + k) = i
    BY <1>0, <1>2, Numbers DEF Wrap
  <2>6. buffer[Wrap(rear + k)] = taken + 1 + k
    BY <2>5 DEF BInv, HoldsUnread
  <2>7. taken + 1 + k = taken + (Size - rear) + 1 + i
    BY <1>0, Numbers
  <2> QED BY <2>4, <2>5, <2>6, <2>7
<1> QED BY <1>1, <1>2

\* The message that is read is the one its number says.
LEMMA FlushInStream ==
  ASSUME BInv, DemTypeOK, WholeMessages, Offset, FlushOne PROVE MessageInStream'
<1>1. /\ msgs' = msgs + 1 /\ lastMsg' = [i \in 1..MsgSize |-> data'[i - 1]]
      /\ msgs \in Nat /\ (msgs' - 1) * MsgSize = taken /\ taken % Size = rear
  BY ConstantFacts DEF FlushOne, DemTypeOK, WholeMessages, Offset
<1>2. SUFFICES ASSUME NEW i \in 1..MsgSize
               PROVE  IF MsgSize <= Size - rear THEN lastMsg'[i] = taken + i
                      ELSE i <= MsgSize - (Size - rear) => lastMsg'[i] = taken + (Size - rear) + i
  BY <1>1, Zenon DEF MessageInStream
<1>3. i \in Nat /\ i - 1 \in 0..(MsgSize - 1) /\ lastMsg'[i] = data'[i - 1] /\ MsgSize \in Nat
  BY <1>1, ConstantFacts
<1>4. /\ MsgSize <= Size - rear => data'[i - 1] = taken + 1 + (i - 1)
      /\ ~(MsgSize <= Size - rear) /\ i - 1 < MsgSize - (Size - rear)
           => data'[i - 1] = taken + (Size - rear) + 1 + (i - 1)
  BY <1>3, FlushGives
<1>5. /\ taken + 1 + (i - 1) = taken + i
      /\ taken + (Size - rear) + 1 + (i - 1) = taken + (Size - rear) + i
      /\ i <= MsgSize - (Size - rear) => i - 1 < MsgSize - (Size - rear)
  BY <1>3, Numbers
<1> QED BY <1>3, <1>4, <1>5

\* Between two messages nothing moves that a message is about.
LEMMA OffsetStays ==
  ASSUME Offset, MessageInStream, UNCHANGED <<rear, taken, msgs, lastMsg>>,
         step' = "callback" => step = "callback"
  PROVE  Offset' /\ MessageInStream'
BY DEF Offset, MessageInStream

LEMMA DInvInit == DemInit => DInv
<1> SUFFICES ASSUME DemInit PROVE DInv
  OBVIOUS
<1>1. BInv
  BY BInvInit DEF DemInit
<1>2. DemTypeOK
  BY <1>1, ConstantFacts DEF DemInit, DemTypeOK, BInv
<1>3. WholeMessages
  BY ConstantFacts DEF DemInit, Init, WholeMessages
<1>4. Offset
  <2>1. (0 * Size + 0) % Size = 0 /\ 0 * Size + 0 = 0
    BY SizeAssumption, ModIs
  <2> QED BY <2>1 DEF DemInit, Init, Offset
<1>5. MessageInStream
  BY DEF DemInit, MessageInStream
<1> QED BY <1>1, <1>2, <1>3, <1>4, <1>5 DEF DInv

LEMMA DInvStep == ASSUME DInv, [DemNext]_demVars PROVE DInv'
<1>0. BInv /\ BInv' /\ TypeOK'
  BY RingKept DEF DInv, BInv
<1>1. ASSUME NEW n \in (1..MaxRecv) \cup Endings, ProcessMsg(n) PROVE DInv'
  <2>1. step' \in {"idle", "flush"} /\ UNCHANGED <<msgs, lastMsg, cancels, taken, rear>>
    BY <1>1 DEF ProcessMsg, BcbWrite
  <2> QED BY <1>0, <2>1, OffsetStays DEF DInv, DemTypeOK, WholeMessages
<1>2. ASSUME FlushOne PROVE DInv'
  <2>1. /\ step' = "callback" /\ msgs' = msgs + 1 /\ cancels' = cancels
        /\ lastMsg' = [i \in 1..MsgSize |-> data'[i - 1]]
    BY <1>2 DEF FlushOne
  <2>2. taken' = taken + MsgSize /\ data' \in [0..(ReadSize - 1) -> Nat]
    BY <1>0, <1>2, FlushEffect
  <2>3. lastMsg' \in [1..MsgSize -> Nat]
    <3>1. ASSUME NEW i \in 1..MsgSize PROVE data'[i - 1] \in Nat
      <4>1. i - 1 \in 0..(ReadSize - 1)
        BY ConstantFacts
      <4> QED BY <2>2, <4>1
    <3> QED BY <2>1, <3>1
  <2>4. DemTypeOK'
    BY <1>0, <2>1, <2>3 DEF DInv, DemTypeOK
  <2>5. WholeMessages'
    <3>1. msgs \in Nat /\ taken = msgs * MsgSize /\ MsgSize \in Nat
      BY ConstantFacts DEF DInv, DemTypeOK, WholeMessages
    <3>2. (msgs + 1) * MsgSize = msgs * MsgSize + MsgSize
      BY <3>1, Distribute
    <3> QED BY <2>1, <2>2, <3>1, <3>2 DEF WholeMessages
  <2> QED BY <1>0, <1>2, <2>4, <2>5, OffsetMoves, FlushInStream DEF DInv
<1>3. ASSUME Cancelled PROVE DInv'
  <2>1. /\ step' = "idle" /\ cancels' = cancels + 1 /\ cancels < MaxCancels
        /\ UNCHANGED <<taken, rear, msgs, lastMsg>>
    BY <1>3 DEF Cancelled, vars
  <2>2. cancels' \in 0..MaxCancels
    BY <2>1, ConstantFacts DEF DInv, DemTypeOK
  <2> QED BY <1>0, <2>1, <2>2, OffsetStays DEF DInv, DemTypeOK, WholeMessages
<1>4. ASSUME UNCHANGED <<taken, rear, msgs, lastMsg, cancels>>,
             step' \in {step, "idle", "flush", "aborted"} PROVE DInv'
  BY <1>0, <1>4, OffsetStays DEF DInv, DemTypeOK, WholeMessages
<1> QED
  BY <1>1, <1>2, <1>3, <1>4
  DEF DemNext, demVars, vars, ProcessMsgAborts, FlushEnds, CallbackReturns, Finished

\* Type correctness of the demarcar and of its ring.
THEOREM DemarcarTypeOK == DemSpec => []DemTypeOK
<1>1. DInv => DemTypeOK
  BY DEF DInv
<1>2. DInv /\ [DemNext]_demVars => DInv'
  BY DInvStep
<1> QED BY DInvInit, <1>1, <1>2, PTL DEF DemSpec

\* Each message the application gets is the one of its number in the stream that
\* was received (process_client_msg), whatever recvfrom returns, wherever the ring
\* wraps and whichever threads are cancelled; of one that crosses the end of the
\* ring this is said of what stood behind the end.
THEOREM DemarcarMessageInStream == DemSpec => []MessageInStream
<1>1. DInv => MessageInStream
  BY DEF DInv
<1>2. DInv /\ [DemNext]_demVars => DInv'
  BY DInvStep
<1> QED BY DInvInit, <1>1, <1>2, PTL DEF DemSpec

(****************************************************************************)
(* How many bytes can be left over.  The bound of LeftoverBounded is not    *)
(* inductive alone: during the loop the ring also holds what the current    *)
(* recvfrom brought.                                                        *)
(****************************************************************************)
Spare == MaxRecv - MsgSize
Bound == MsgSize - 1 + cancels * Spare

LInv ==
  /\ step = "idle" => current_size <= Bound
  /\ step = "flush" => current_size <= Bound + MaxRecv
  /\ step = "callback" => current_size <= Bound + Spare

\* Room for the leftover of every cancelled thread and one recvfrom more.
Room == MsgSize - 1 + MaxRecv + MaxCancels * (MaxRecv - MsgSize) <= Size

LEMMA BoundFacts ==
  ASSUME DInv
  PROVE  /\ Spare \in Nat /\ cancels \in Nat /\ cancels * Spare \in Nat /\ Bound \in Nat
         /\ Bound >= MsgSize - 1 /\ Bound = MsgSize - 1 + cancels * Spare
<1>1. Spare \in Nat /\ cancels \in Nat
  BY ConstantFacts DEF Spare, DInv, DemTypeOK
<1>2. cancels * Spare \in Nat
  BY <1>1, Distribute
<1> QED BY <1>1, <1>2, ConstantFacts DEF Bound

\* What recvfrom gives at the end of a stream does not get into the ring: 0 is
\* asserted away, and -1 as a uint16_t is more than the ring holds.
LEMMA OnlyBytesFit ==
  ASSUME Size < 65535, current_size \in Nat, NEW n \in (1..MaxRecv) \cup Endings, ProcessMsg(n)
  PROVE  n \in 1..MaxRecv
<1>1. n # 0 /\ ~(Size - current_size < n)
  BY DEF ProcessMsg, WriteAsserted, WriteRefused, AvailableSize
<1>2. n # 65535
  BY <1>1, ConstantFacts
<1> QED BY <1>1, <1>2, EndingsAssumption

LEMMA LInvStep ==
  ASSUME Size < 65535, DInv, LInv, [DemNext]_demVars PROVE LInv'
<1>0. BInv /\ current_size \in Nat /\ MsgSize \in Nat /\ MsgSize >= 1 /\ MaxRecv \in Nat
      /\ MsgSize <= MaxRecv /\ Spare = MaxRecv - MsgSize
  BY Numbers, ConstantFacts DEF DInv, Spare
<1>1. ASSUME NEW n \in (1..MaxRecv) \cup Endings, ProcessMsg(n) PROVE LInv'
  <2>1. n \in Nat /\ n <= MaxRecv
    BY <1>0, <1>1, OnlyBytesFit
  <2>2. /\ current_size' = current_size + n /\ cancels' = cancels /\ step = "idle"
        /\ step' = IF current_size' \div MsgSize > 0 THEN "flush" ELSE "idle"
    BY <1>1 DEF ProcessMsg, BcbWrite, ReadyToFlush
  <2>3. Bound' = Bound
    BY <2>2 DEF Bound, Spare
  <2>4. current_size <= Bound
    BY <2>2 DEF LInv
  <2>5. current_size' \in Nat /\ current_size' <= Bound + MaxRecv
    BY <1>0, <2>1, <2>2, <2>4, BoundFacts
  <2>6. CASE step' = "flush"
    BY <2>3, <2>5, <2>6 DEF LInv
  <2>7. CASE step' = "idle"
    <3> DEFINE rest == current_size'
    <3>1. ~(rest \div MsgSize > 0)
      BY <2>2, <2>7
    <3>2. rest \in Nat /\ MsgSize \in Nat \ {0}
      BY <1>0, <2>5
    <3> HIDE DEF rest
    <3>3. rest < MsgSize
      BY <3>1, <3>2, DivPositive
    <3>4. current_size' <= Bound
      BY <1>0, <2>5, <3>3, BoundFacts DEF rest
    <3> QED BY <2>3, <2>7, <3>4 DEF LInv
  <2> QED BY <2>2, <2>6, <2>7
<1>2. ASSUME FlushOne PROVE LInv'
  <2>1. step = "flush" /\ step' = "callback" /\ cancels' = cancels
    BY <1>2 DEF FlushOne
  <2>2. current_size' = current_size - MsgSize
    BY <1>0, <1>2, FlushEffect
  <2>3. Bound' = Bound /\ current_size <= Bound + MaxRecv
    BY <2>1 DEF Bound, Spare, LInv
  <2>4. current_size' <= Bound + Spare
    BY <1>0, <2>2, <2>3, BoundFacts
  <2>5. Spare' = Spare
    BY DEF Spare
  <2> QED BY <2>1, <2>3, <2>4, <2>5 DEF LInv
<1>3. ASSUME Cancelled PROVE LInv'
  <2>1. /\ step = "callback" /\ step' = "idle" /\ cancels' = cancels + 1
        /\ current_size' = current_size
    BY <1>3 DEF Cancelled, vars
  <2>2. Bound' = Bound + Spare
    <3>1. (cancels + 1) * Spare = cancels * Spare + Spare
      BY BoundFacts, Distribute
    <3>2. Bound' = MsgSize - 1 + (cancels + 1) * Spare
      BY <2>1 DEF Bound, Spare
    <3> QED BY <1>0, <3>1, <3>2, BoundFacts
  <2> QED BY <2>1, <2>2 DEF LInv
<1>4. ASSUME FlushEnds PROVE LInv'
  <2>1. /\ step' = "idle" /\ current_size < MsgSize /\ current_size' = current_size
        /\ cancels' = cancels
    BY <1>0, <1>4 DEF FlushEnds, ReadRefused, vars
  <2>2. Bound' = Bound
    BY <2>1 DEF Bound, Spare
  <2>3. current_size <= Bound
    BY <1>0, <2>1, BoundFacts
  <2> QED BY <2>1, <2>2, <2>3 DEF LInv
<1>5. ASSUME CallbackReturns PROVE LInv'
  <2>1. /\ step = "callback" /\ step' = "flush" /\ current_size' = current_size
        /\ cancels' = cancels
    BY <1>5 DEF CallbackReturns, vars
  <2>2. Bound' = Bound /\ current_size <= Bound + Spare
    BY <2>1 DEF Bound, Spare, LInv
  <2>3. current_size <= Bound + MaxRecv
    BY <1>0, <2>2, BoundFacts
  <2> QED BY <2>1, <2>2, <2>3 DEF LInv
<1>6. ASSUME step' = "aborted" PROVE LInv'
  BY <1>6 DEF LInv
<1>7. ASSUME UNCHANGED demVars PROVE LInv'
  BY <1>7 DEF LInv, Bound, Spare, demVars, vars
<1> QED
  BY <1>1, <1>2, <1>3, <1>4, <1>5, <1>6, <1>7 DEF DemNext, ProcessMsgAborts, Finished

LEMMA LInvInit == DemInit => LInv
<1> SUFFICES ASSUME DemInit PROVE LInv
  OBVIOUS
<1>1. DInv /\ step = "idle" /\ current_size = 0
  BY DInvInit DEF DemInit, Init
<1> QED BY <1>1, BoundFacts, ConstantFacts DEF LInv

\* The leftover between two calls of process_msg is bounded by the number of
\* receive threads that were cancelled in the callback.
THEOREM DemarcarLeftover == ASSUME Size < 65535 PROVE DemSpec => []LeftoverBounded
<1>1. LInv => LeftoverBounded
  BY DEF LInv, LeftoverBounded, Bound, Spare
<1>2. DInv /\ LInv /\ [DemNext]_demVars => DInv' /\ LInv'
  BY DInvStep, LInvStep
<1> QED BY DInvInit, LInvInit, <1>1, <1>2, PTL DEF DemSpec

\* With room for that leftover and one recvfrom more, the assertion of
\* process_msg never fails for a recvfrom that returned bytes.
THEOREM DemarcarNeverAborts == ASSUME Size < 65535, Room PROVE DemSpec => DataNeverAborts
<1> DEFINE DataAborts == \E n \in 1..MaxRecv : ProcessMsgAborts(n)
<1>1. DInv /\ LInv => ~DataAborts
  <2> SUFFICES ASSUME DInv, LInv, NEW n \in 1..MaxRecv, step = "idle", WriteRefused(n) \/ n = 0
               PROVE FALSE
    BY DEF ProcessMsgAborts, WriteAsserted
  <2>1. n \in Nat /\ 1 <= n /\ n <= MaxRecv
    BY ConstantFacts
  <2>2. current_size <= Bound /\ current_size \in Nat /\ BInv
    BY Numbers DEF LInv, DInv
  <2>3. cancels * Spare <= MaxCancels * Spare /\ MaxCancels * Spare \in Nat
    <3>1. cancels <= MaxCancels /\ MaxCancels \in Nat
      BY ConstantFacts DEF DInv, DemTypeOK
    <3> QED BY <3>1, BoundFacts, Monotone, Distribute
  <2>4. MsgSize - 1 + MaxRecv + MaxCancels * Spare <= Size
    BY DEF Room, Spare
  <2>5. current_size + MaxRecv <= Size
    BY <2>2, <2>3, <2>4, BoundFacts, ConstantFacts
  <2>6. current_size # Size /\ ~(Size - current_size < n)
    BY <2>1, <2>2, <2>5, ConstantFacts
  <2> QED BY <2>1, <2>6 DEF WriteRefused, IsFull, AvailableSize
<1>2. DInv /\ LInv /\ [DemNext]_demVars => [\A n \in 1..MaxRecv : ~ProcessMsgAborts(n)]_demVars
  BY <1>1
<1>3. DInv /\ LInv /\ [DemNext]_demVars => DInv' /\ LInv'
  BY DInvStep, LInvStep
<1> QED BY DInvInit, LInvInit, <1>2, <1>3, PTL DEF DemSpec, DataNeverAborts
================================================================================
