------------------------------ MODULE GlThread_proofs ----------------------------
(****************************************************************************)
(* Proofs about glthread lists, for any cells and any number of lists.      *)
(*                                                                          *)
(* The pointers: LinksAgree is inductive together with the types.           *)
(* DeletesAll also needs that no list runs into a circle: the cells can be  *)
(* numbered so that right pointers lead upwards, and an insertion shifts    *)
(* the numbers to make room.                                                *)
(*                                                                          *)
(* The refinement of ListView: some assignment L of sequences to the heads  *)
(* says what the pointers link (Lists), and every call either leaves it or  *)
(* changes it as ListView may (Moved).                                      *)
(****************************************************************************)
EXTENDS GlThread, Functions, DataLemmas, SequenceTheorems

\* Right pointers lead upwards under some numbering of the cells.
Upwards(rank, f) == \A c \in Cells : f[c] # Null => rank[c] < rank[f[c]]
Acyclic(f) == \E rank \in [Cells -> Int] : Upwards(rank, f)

ListInv == ListTypeOK /\ LinksAgree /\ Acyclic(right) /\ DeletesAll

LEMMA NullIsNoCell == Null \notin Cells
  BY CellsAssumption DEF Cells

\* A cell that is in no list is nobody's neighbour.
LEMMA UnqueuedAlone ==
  ASSUME ListTypeOK, LinksAgree, NEW n \in Nodes, ~Queued(n)
  PROVE  /\ left[n] = Null /\ right[n] = Null
         /\ \A c \in Cells : left[c] # n /\ right[c] # n
  <1>1. left[n] = Null /\ right[n] = Null
    BY DEF Queued
  <1>2. \A c \in Cells : left[c] # n /\ right[c] # n
    BY <1>1, NullIsNoCell DEF LinksAgree, Cells
  <1> QED BY <1>1, <1>2

\* glthread_add_next keeps the two directions each other's inverse.
LEMMA AddNextLinks ==
  ASSUME ListTypeOK, LinksAgree, NEW n \in Nodes, ~Queued(n), NEW c \in Cells \ {n}, AddNext(c, n)
  PROVE  /\ left' \in [Cells -> Cells \cup {Null}]
         /\ right' \in [Cells -> Cells \cup {Null}]
         /\ LinksAgree'
  <1>1. n \in Cells /\ c \in Cells /\ c # n
    BY DEF Cells
  <1>2. left \in [Cells -> Cells \cup {Null}] /\ right \in [Cells -> Cells \cup {Null}]
    BY DEF ListTypeOK
  <1>3. left' \in [Cells -> Cells \cup {Null}] /\ right' \in [Cells -> Cells \cup {Null}]
    BY <1>1, <1>2 DEF AddNext
  <1>4. /\ \A x \in Cells : right'[x] = IF x = n THEN right[c] ELSE IF x = c THEN n ELSE right[x]
        /\ \A x \in Cells : left'[x] = IF x = n THEN c ELSE IF x = right[c] THEN n ELSE left[x]
    BY <1>1, <1>2 DEF AddNext
  <1>5. \A a, b \in Cells : right'[a] = b <=> left'[b] = a
    BY <1>1, <1>4, UnqueuedAlone, NullIsNoCell DEF LinksAgree
  <1> QED BY <1>3, <1>5 DEF LinksAgree

\* So does glthread_add_before.
LEMMA AddBeforeLinks ==
  ASSUME ListTypeOK, LinksAgree, NEW n \in Nodes, ~Queued(n), NEW c \in Cells \ {n}, AddBefore(c, n)
  PROVE  /\ left' \in [Cells -> Cells \cup {Null}]
         /\ right' \in [Cells -> Cells \cup {Null}]
         /\ LinksAgree'
  <1>1. n \in Cells /\ c \in Cells /\ c # n
    BY DEF Cells
  <1>2. left \in [Cells -> Cells \cup {Null}] /\ right \in [Cells -> Cells \cup {Null}]
    BY DEF ListTypeOK
  <1>3. left' \in [Cells -> Cells \cup {Null}] /\ right' \in [Cells -> Cells \cup {Null}]
    BY <1>1, <1>2 DEF AddBefore
  <1>4. /\ \A x \in Cells : left'[x] = IF x = n THEN left[c] ELSE IF x = c THEN n ELSE left[x]
        /\ \A x \in Cells : right'[x] = IF x = n THEN c ELSE IF x = left[c] THEN n ELSE right[x]
    BY <1>1, <1>2 DEF AddBefore
  <1>5. \A a, b \in Cells : right'[a] = b <=> left'[b] = a
    BY <1>1, <1>4, UnqueuedAlone, NullIsNoCell DEF LinksAgree
  <1> QED BY <1>3, <1>5 DEF LinksAgree

\* And remove_glthread, whichever neighbours the cell has.
LEMMA RemoveLinks ==
  ASSUME ListTypeOK, LinksAgree, NEW n \in Cells, Remove(n)
  PROVE  /\ left' \in [Cells -> Cells \cup {Null}]
         /\ right' \in [Cells -> Cells \cup {Null}]
         /\ LinksAgree'
  <1>1. left \in [Cells -> Cells \cup {Null}] /\ right \in [Cells -> Cells \cup {Null}]
    BY DEF ListTypeOK
  <1>2. left' \in [Cells -> Cells \cup {Null}] /\ right' \in [Cells -> Cells \cup {Null}]
    BY <1>1 DEF Remove
  <1>3. \A a, b \in Cells : right'[a] = b <=> left'[b] = a
    BY <1>1, NullIsNoCell DEF Remove, LinksAgree
  <1> QED BY <1>2, <1>3 DEF LinksAgree

\* An insertion behind c gives the new cell the number behind that of c.
LEMMA AddNextAcyclic ==
  ASSUME ListTypeOK, LinksAgree, Acyclic(right),
         NEW n \in Nodes, ~Queued(n), NEW c \in Cells \ {n}, AddNext(c, n)
  PROVE  Acyclic(right')
  <1>1. n \in Cells /\ c \in Cells /\ c # n
    BY DEF Cells
  <1>2. PICK rank \in [Cells -> Int] : Upwards(rank, right)
    BY DEF Acyclic
  <1> DEFINE shifted == [x \in Cells |-> IF x = n THEN rank[c] + 1
                                         ELSE IF rank[x] > rank[c] THEN rank[x] + 1 ELSE rank[x]]
  <1>3. shifted \in [Cells -> Int]
    BY <1>1
  <1>4. \A x \in Cells : right'[x] = IF x = n THEN right[c] ELSE IF x = c THEN n ELSE right[x]
    BY <1>1 DEF AddNext, ListTypeOK
  <1>5. ASSUME NEW x \in Cells, right'[x] # Null
        PROVE  shifted[x] < shifted[right'[x]]
    <2>1. right \in [Cells -> Cells \cup {Null}]
      BY DEF ListTypeOK
    <2>2. CASE x = n
      <3>1. right'[x] = right[c] /\ right[c] \in Cells /\ right[c] # n
        BY <1>1, <1>4, <1>5, <2>1, <2>2, UnqueuedAlone
      <3>2. rank[c] < rank[right[c]]
        BY <1>1, <1>2, <3>1, NullIsNoCell DEF Upwards
      <3>3. rank[c] \in Int /\ rank[right[c]] \in Int
        BY <1>1, <3>1
      <3>4. shifted[n] = rank[c] + 1 /\ shifted[right[c]] = rank[right[c]] + 1
        BY <1>1, <3>1, <3>2
      <3> QED BY <2>2, <3>1, <3>2, <3>3, <3>4
    <2>3. CASE x = c
      <3>1. right'[x] = n
        BY <1>1, <1>4, <2>3
      <3>2. shifted[n] = rank[c] + 1 /\ shifted[c] = rank[c] /\ rank[c] \in Int
        BY <1>1
      <3> QED BY <2>3, <3>1, <3>2
    <2>4. CASE x # n /\ x # c
      <3>1. right'[x] = right[x] /\ right[x] \in Cells /\ right[x] # n
        BY <1>4, <1>5, <2>1, <2>4, UnqueuedAlone
      <3>2. rank[x] < rank[right[x]]
        BY <1>2, <3>1, NullIsNoCell DEF Upwards
      <3>3. rank[c] \in Int /\ rank[x] \in Int /\ rank[right[x]] \in Int
        BY <1>1, <3>1
      <3>4. /\ shifted[x] = IF rank[x] > rank[c] THEN rank[x] + 1 ELSE rank[x]
            /\ shifted[right[x]] = IF rank[right[x]] > rank[c] THEN rank[right[x]] + 1 ELSE rank[right[x]]
        BY <2>4, <3>1
      <3> QED BY <3>1, <3>2, <3>3, <3>4
    <2> QED BY <2>2, <2>3, <2>4
  <1> HIDE DEF shifted
  <1>6. Upwards(shifted, right')
    BY <1>5 DEF Upwards
  <1> QED BY <1>3, <1>6 DEF Acyclic

\* An insertion before c, the number before that of c.
LEMMA AddBeforeAcyclic ==
  ASSUME ListTypeOK, LinksAgree, Acyclic(right),
         NEW n \in Nodes, ~Queued(n), NEW c \in Cells \ {n}, AddBefore(c, n)
  PROVE  Acyclic(right')
  <1>1. n \in Cells /\ c \in Cells /\ c # n
    BY DEF Cells
  <1>2. PICK rank \in [Cells -> Int] : Upwards(rank, right)
    BY DEF Acyclic
  <1> DEFINE shifted == [x \in Cells |-> IF x = n THEN rank[c] - 1
                                         ELSE IF rank[x] < rank[c] THEN rank[x] - 1 ELSE rank[x]]
  <1>3. shifted \in [Cells -> Int]
    BY <1>1
  <1>4. \A x \in Cells : right'[x] = IF x = n THEN c ELSE IF x = left[c] THEN n ELSE right[x]
    BY <1>1 DEF AddBefore, ListTypeOK
  <1>5. ASSUME NEW x \in Cells, right'[x] # Null
        PROVE  shifted[x] < shifted[right'[x]]
    <2>1. right \in [Cells -> Cells \cup {Null}]
      BY DEF ListTypeOK
    <2>2. CASE x = n
      <3>1. right'[x] = c
        BY <1>1, <1>4, <2>2
      <3>2. shifted[n] = rank[c] - 1 /\ shifted[c] = rank[c] /\ rank[c] \in Int
        BY <1>1
      <3> QED BY <2>2, <3>1, <3>2
    <2>3. CASE x # n /\ x = left[c]
      <3>1. right'[x] = n
        BY <1>1, <1>4, <2>3
      <3>2. right[x] = c
        BY <1>1, <2>3 DEF LinksAgree
      <3>3. rank[x] < rank[c] /\ rank[x] \in Int /\ rank[c] \in Int
        BY <1>1, <1>2, <3>2, NullIsNoCell DEF Upwards
      <3>4. shifted[x] = rank[x] - 1 /\ shifted[n] = rank[c] - 1
        BY <1>1, <2>3, <3>3
      <3> QED BY <3>1, <3>3, <3>4
    <2>4. CASE x # n /\ x # left[c]
      <3>1. right'[x] = right[x] /\ right[x] \in Cells /\ right[x] # n
        BY <1>4, <1>5, <2>1, <2>4, UnqueuedAlone
      <3>2. rank[x] < rank[right[x]]
        BY <1>2, <3>1, NullIsNoCell DEF Upwards
      <3>3. rank[c] \in Int /\ rank[x] \in Int /\ rank[right[x]] \in Int
        BY <1>1, <3>1
      <3>4. /\ shifted[x] = IF rank[x] < rank[c] THEN rank[x] - 1 ELSE rank[x]
            /\ shifted[right[x]] = IF rank[right[x]] < rank[c] THEN rank[right[x]] - 1 ELSE rank[right[x]]
        BY <2>4, <3>1
      <3> QED BY <3>1, <3>2, <3>3, <3>4
    <2> QED BY <2>2, <2>3, <2>4
  <1> HIDE DEF shifted
  <1>6. Upwards(shifted, right')
    BY <1>5 DEF Upwards
  <1> QED BY <1>3, <1>6 DEF Acyclic

\* A removal leaves the numbers as they are.
LEMMA RemoveAcyclic ==
  ASSUME ListTypeOK, LinksAgree, Acyclic(right), NEW n \in Cells, Remove(n)
  PROVE  Acyclic(right')
  <1>1. PICK rank \in [Cells -> Int] : Upwards(rank, right)
    BY DEF Acyclic
  <1>2. right \in [Cells -> Cells \cup {Null}]
    BY DEF ListTypeOK
  <1>3. \A x \in Cells : right'[x] = IF x = n THEN Null ELSE IF x = left[n] THEN right[n] ELSE right[x]
    BY DEF Remove
  <1>4. ASSUME NEW x \in Cells, right'[x] # Null
        PROVE  rank[x] < rank[right'[x]]
    <2>1. CASE x = left[n]
      <3>1. right[x] = n
        BY <2>1 DEF LinksAgree
      <3>2. right'[x] = right[n] /\ right[n] \in Cells
        BY <1>2, <1>3, <1>4, <2>1
      <3>3. rank[x] < rank[n] /\ rank[n] < rank[right[n]]
        BY <1>1, <3>1, <3>2, NullIsNoCell DEF Upwards
      <3>4. rank[x] \in Int /\ rank[n] \in Int /\ rank[right[n]] \in Int
        BY <3>2
      <3> QED BY <3>2, <3>3, <3>4
    <2>2. CASE x # left[n]
      <3>1. right'[x] = right[x] /\ right[x] # Null
        BY <1>3, <1>4, <2>2
      <3> QED BY <1>1, <3>1 DEF Upwards
    <2> QED BY <2>1, <2>2
  <1>5. Upwards(rank, right')
    BY <1>4 DEF Upwards
  <1> QED BY <1>5 DEF Acyclic

LEMMA ListInitInv == ListInit => ListInv
  <1> SUFFICES ASSUME ListInit PROVE ListInv
    OBVIOUS
  <1>1. ListTypeOK
    BY DEF ListInit, ListTypeOK
  <1>2. LinksAgree
    BY NullIsNoCell DEF ListInit, LinksAgree
  <1>3. Acyclic(right)
    <2> DEFINE flat == [c \in Cells |-> 0]
    <2>1. flat \in [Cells -> Int]
      OBVIOUS
    <2>2. Upwards(flat, right)
      BY DEF ListInit, Upwards
    <2> QED BY <2>1, <2>2 DEF Acyclic
  <1>4. DeletesAll
    BY DEF ListInit, DeletesAll
  <1> QED BY <1>1, <1>2, <1>3, <1>4 DEF ListInv

\* A call outside the loop of delete_glthread_list.
LEMMA IdleInv ==
  ASSUME ListInv, Idle,
         left' \in [Cells -> Cells \cup {Null}], right' \in [Cells -> Cells \cup {Null}],
         LinksAgree', Acyclic(right')
  PROVE  ListInv'
  <1>1. ListTypeOK'
    BY DEF ListInv, ListTypeOK, Idle
  <1>2. DeletesAll'
    BY DEF DeletesAll, Idle
  <1> QED BY <1>1, <1>2 DEF ListInv

LEMMA InsertInv ==
  ASSUME ListInv, Idle, NEW n \in Nodes, ~Queued(n), NEW c \in Cells \ {n}, AddNext(c, n) \/ AddBefore(c, n)
  PROVE  ListInv'
  <1>1. ListTypeOK /\ LinksAgree /\ Acyclic(right)
    BY DEF ListInv
  <1>2. CASE AddNext(c, n)
    BY <1>1, <1>2, AddNextLinks, AddNextAcyclic, IdleInv
  <1>3. CASE AddBefore(c, n)
    BY <1>1, <1>3, AddBeforeLinks, AddBeforeAcyclic, IdleInv
  <1> QED BY <1>2, <1>3

\* A turn of the loop: the head is the left neighbour of the node it removes,
\* and not that node itself, as the list is no circle.
LEMMA DeleteOneInv ==
  ASSUME ListInv, DeleteOne
  PROVE  ListInv'
  <1>1. ListTypeOK /\ LinksAgree /\ Acyclic(right) /\ DeletesAll
    BY DEF ListInv
  <1>2. doomed \in Cells /\ saved \in Cells /\ right[doomed] = saved /\ left[saved] = doomed
    BY <1>1 DEF DeleteOne, ListTypeOK, DeletesAll, LinksAgree, Cells
  <1>3. Remove(saved) /\ saved' = right[saved] /\ doomed' = doomed
    BY DEF DeleteOne
  <1>4. doomed # saved
    <2>1. PICK rank \in [Cells -> Int] : Upwards(rank, right)
      BY <1>1 DEF Acyclic
    <2>2. rank[doomed] < rank[saved] /\ rank[doomed] \in Int
      BY <1>2, <2>1, NullIsNoCell DEF Upwards
    <2> QED BY <2>2
  <1>5. right'[doomed] = right[saved]
    BY <1>2, <1>3, <1>4 DEF Remove
  <1>6. ListTypeOK'
    BY <1>1, <1>2, <1>3, RemoveLinks DEF ListTypeOK
  <1>7. DeletesAll'
    BY <1>3, <1>5 DEF DeletesAll
  <1> QED BY <1>1, <1>2, <1>3, <1>6, <1>7, RemoveLinks, RemoveAcyclic DEF ListInv

LEMMA ListStepInv == ListInv /\ [ListNext]_listVars => ListInv'
  <1> SUFFICES ASSUME ListInv, [ListNext]_listVars PROVE ListInv'
    OBVIOUS
  <1>1. ASSUME NEW n \in Nodes, NEW c \in Cells \ {n}, CallAddNext(c, n) \/ CallAddBefore(c, n)
        PROVE  ListInv'
    BY <1>1, InsertInv DEF CallAddNext, CallAddBefore
  <1>2. ASSUME NEW n \in Nodes, NEW h \in Heads, AddLast(h, n) \/ PriorityInsert(h, n)
        PROVE  ListInv'
    <2>1. PICK c \in Cells \ {n} : AddNext(c, n)
      BY <1>2 DEF AddLast, PriorityInsert
    <2>2. Idle /\ ~Queued(n)
      BY <1>2 DEF AddLast, PriorityInsert
    <2> QED BY <2>1, <2>2, InsertInv
  <1>3. ASSUME NEW n \in Cells, Idle, Remove(n)
        PROVE  ListInv'
    BY <1>3, RemoveLinks, RemoveAcyclic, IdleInv DEF ListInv
  <1>4. ASSUME NEW n \in Nodes, CallRemove(n)
        PROVE  ListInv'
    BY <1>3, <1>4 DEF CallRemove, Cells
  <1>5. ASSUME NEW h \in Heads, DequeueFirst(h)
        PROVE  ListInv'
    <2>1. right[h] \in Cells
      BY <1>5 DEF DequeueFirst, ListInv, ListTypeOK, Cells
    <2> QED BY <1>3, <1>5, <2>1 DEF DequeueFirst
  <1>6. ASSUME NEW h \in Heads, DeleteBegin(h)
        PROVE  ListInv'
    <2>1. right' = right /\ left' = left /\ doomed' = h /\ saved' = right[h]
      BY <1>6 DEF DeleteBegin
    <2>2. ListTypeOK' /\ LinksAgree' /\ DeletesAll'
      BY <2>1 DEF ListInv, ListTypeOK, LinksAgree, DeletesAll, Cells
    <2> QED BY <2>1, <2>2 DEF ListInv
  <1>7. CASE DeleteOne
    BY <1>7, DeleteOneInv
  <1>8. CASE DeleteEnd
    <2>1. right' = right /\ left' = left /\ doomed' = Null /\ saved' = saved
      BY <1>8 DEF DeleteEnd
    <2>2. ListTypeOK' /\ LinksAgree' /\ DeletesAll'
      BY <2>1 DEF ListInv, ListTypeOK, LinksAgree, DeletesAll
    <2> QED BY <2>1, <2>2 DEF ListInv
  <1>9. CASE UNCHANGED listVars
    <2>1. right' = right /\ left' = left /\ doomed' = doomed /\ saved' = saved
      BY <1>9 DEF listVars
    <2>2. ListTypeOK' /\ LinksAgree' /\ DeletesAll'
      BY <2>1 DEF ListInv, ListTypeOK, LinksAgree, DeletesAll
    <2> QED BY <2>1, <2>2 DEF ListInv
  <1> QED BY <1>1, <1>2, <1>4, <1>5, <1>6, <1>7, <1>8, <1>9 DEF ListNext

LEMMA ListAlways == ListSpec => []ListInv
  BY ListInitInv, ListStepInv, PTL DEF ListSpec

\* The two pointers of every cell agree with those of its neighbours after any
\* sequence of glthread calls: no pointer to a removed node is left behind.
THEOREM ListLinksAgree == ListSpec => []LinksAgree
  <1>1. ListInv => LinksAgree
    BY DEF ListInv
  <1> QED BY <1>1, ListAlways, PTL

\* The loop of delete_glthread_list stands on the first node that is left at
\* every turn, and so removes them all.
THEOREM ListDeletesAll == ListSpec => []DeletesAll
  <1>1. ListInv => DeletesAll
    BY DEF ListInv
  <1> QED BY <1>1, ListAlways, PTL

(****************************************************************************)
(* The lists as sequences.  L gives each head the nodes behind it; no node  *)
(* is in two places, and a list filled by priority is in order.             *)
(****************************************************************************)
At(s, h, i) == IF i = 0 THEN h ELSE s[i]
Linked(s, h) == \A i \in 0..Len(s) : right[At(s, h, i)] = IF i = Len(s) THEN Null ELSE s[i + 1]
Apart(L) ==
  \A g, h \in Heads : \A i \in 1..Len(L[g]), j \in 1..Len(L[h]) : L[g][i] = L[h][j] => g = h /\ i = j
Ordered(s) == \A i, j \in 1..Len(s) : i <= j => Key[s[i]] <= Key[s[j]]
Lists(L) ==
  /\ L \in [Heads -> Seq(Nodes)]
  /\ \A h \in Heads : Linked(L[h], h)
  /\ Apart(L)
  /\ \A h \in SortedHeads : Ordered(L[h])

LEMMA PutAtIs ==
  ASSUME NEW S, NEW s \in Seq(S), NEW i \in 0..Len(s), NEW n \in S
  PROVE  /\ View!PutAt(s, i, n) \in Seq(S) /\ Len(View!PutAt(s, i, n)) = Len(s) + 1
         /\ \A j \in 1..(Len(s) + 1) :
              View!PutAt(s, i, n)[j] = IF j <= i THEN s[j] ELSE IF j = i + 1 THEN n ELSE s[j - 1]
<1> DEFINE a == SubSeq(s, 1, i)
           b == SubSeq(s, i + 1, Len(s))
<1>1. Len(s) \in Nat /\ \A j \in 1..Len(s) : s[j] \in S
  BY LenProperties, ElementOfSeq
<1>2. a \in Seq(S) /\ Len(a) = i /\ \A j \in 1..i : a[j] = s[j]
  BY <1>1, SubSeqProperties
<1>3. b \in Seq(S) /\ Len(b) = Len(s) - i /\ \A j \in 1..(Len(s) - i) : b[j] = s[i + j]
  BY <1>1, SubSeqProperties
<1> HIDE DEF a, b
<1>4. <<n>> \in Seq(S) /\ Len(<<n>>) = 1 /\ <<n>>[1] = n
  OBVIOUS
<1>5. /\ a \o <<n>> \in Seq(S) /\ Len(a \o <<n>>) = i + 1
      /\ \A j \in 1..(i + 1) : (a \o <<n>>)[j] = IF j <= i THEN a[j] ELSE <<n>>[j - i]
  BY <1>2, <1>4, ConcatProperties
<1> DEFINE c == a \o <<n>>
<1> HIDE DEF c
<1>6. /\ c \o b \in Seq(S) /\ Len(c \o b) = Len(s) + 1
      /\ \A j \in 1..(Len(s) + 1) : (c \o b)[j] = IF j <= i + 1 THEN c[j] ELSE b[j - (i + 1)]
  BY <1>1, <1>3, <1>5, ConcatProperties DEF c
<1>7. View!PutAt(s, i, n) = c \o b
  BY DEF View!PutAt, a, b, c
<1>8. ASSUME NEW j \in 1..(Len(s) + 1)
      PROVE  (c \o b)[j] = IF j <= i THEN s[j] ELSE IF j = i + 1 THEN n ELSE s[j - 1]
  <2>1. CASE j <= i
    BY <1>1, <1>2, <1>5, <1>6, <2>1 DEF c
  <2>2. CASE j = i + 1
    BY <1>1, <1>4, <1>5, <1>6, <2>2 DEF c
  <2>3. CASE j > i + 1
    <3>1. (c \o b)[j] = b[j - (i + 1)] /\ j - (i + 1) \in 1..(Len(s) - i)
      BY <1>1, <1>6, <2>3
    <3>2. b[j - (i + 1)] = s[j - 1]
      BY <1>1, <1>3, <3>1
    <3> QED BY <1>1, <2>3, <3>1, <3>2
  <2>4. j <= i \/ j = i + 1 \/ j > i + 1
    BY <1>1
  <2> QED BY <2>1, <2>2, <2>3, <2>4
<1> QED BY <1>6, <1>7, <1>8

LEMMA TakeFromIs ==
  ASSUME NEW S, NEW s \in Seq(S), NEW i \in 1..Len(s)
  PROVE  /\ View!TakeFrom(s, i) \in Seq(S) /\ Len(View!TakeFrom(s, i)) = Len(s) - 1
         /\ \A j \in 1..(Len(s) - 1) : View!TakeFrom(s, i)[j] = IF j < i THEN s[j] ELSE s[j + 1]
<1> DEFINE a == SubSeq(s, 1, i - 1)
           b == SubSeq(s, i + 1, Len(s))
<1>1. Len(s) \in Nat /\ \A j \in 1..Len(s) : s[j] \in S
  BY LenProperties, ElementOfSeq
<1>2. a \in Seq(S) /\ Len(a) = i - 1 /\ \A j \in 1..(i - 1) : a[j] = s[j]
  BY <1>1, SubSeqProperties
<1>3. b \in Seq(S) /\ Len(b) = Len(s) - i /\ \A j \in 1..(Len(s) - i) : b[j] = s[i + j]
  BY <1>1, SubSeqProperties
<1> HIDE DEF a, b
<1>4. /\ a \o b \in Seq(S) /\ Len(a \o b) = Len(s) - 1
      /\ \A j \in 1..(Len(s) - 1) : (a \o b)[j] = IF j <= i - 1 THEN a[j] ELSE b[j - (i - 1)]
  <2>1. /\ a \o b \in Seq(S) /\ Len(a \o b) = Len(a) + Len(b)
        /\ \A j \in 1..(Len(a) + Len(b)) : (a \o b)[j] = IF j <= Len(a) THEN a[j] ELSE b[j - Len(a)]
    BY <1>2, <1>3, ConcatProperties
  <2>2. Len(a) + Len(b) = Len(s) - 1
    BY <1>1, <1>2, <1>3
  <2> QED BY <1>2, <2>1, <2>2
<1>5. View!TakeFrom(s, i) = a \o b
  BY DEF View!TakeFrom, a, b
<1>6. ASSUME NEW j \in 1..(Len(s) - 1) PROVE (a \o b)[j] = IF j < i THEN s[j] ELSE s[j + 1]
  <2>1. CASE j < i
    BY <1>1, <1>2, <1>4, <2>1
  <2>2. CASE j >= i
    <3>1. (a \o b)[j] = b[j - (i - 1)] /\ j - (i - 1) \in 1..(Len(s) - i)
      BY <1>1, <1>4, <2>2
    <3>2. b[j - (i - 1)] = s[j + 1]
      BY <1>1, <1>3, <3>1
    <3> QED BY <1>1, <2>2, <3>1, <3>2
  <2>3. j < i \/ j >= i
    BY <1>1
  <2> QED BY <2>1, <2>2, <2>3
<1> QED BY <1>4, <1>5, <1>6

\* The walk behind a head finds the nodes it leads to, and stops in time.
LEMMA ItemsAre ==
  ASSUME NEW h \in Heads, NEW s \in Seq(Nodes), Linked(s, h),
         \A i, j \in 1..Len(s) : s[i] = s[j] => i = j
  PROVE  Items(h) = s
<1> DEFINE N == Cardinality(Nodes)
           f == Reached(h)
           g == [i \in 0..N + 1 |-> IF i <= Len(s) THEN At(s, h, i) ELSE Null]
<1>1. Len(s) \in Nat /\ s \in [1..Len(s) -> Nodes] /\ \A i \in 1..Len(s) : s[i] \in Nodes
  BY LenProperties, ElementOfSeq
<1>2. N \in Nat
  BY CellsAssumption, FS_CardinalityType
<1>3. Len(s) <= N
  <2>1. s \in Injection(1..Len(s), Nodes)
    BY <1>1 DEF Injection, IsInjective
  <2>2. Cardinality(1..Len(s)) <= Cardinality(Nodes)
    BY <2>1, CellsAssumption, FS_Injection
  <2>3. Cardinality(1..Len(s)) = Len(s)
    BY <1>1, CardUpTo
  <2> QED BY <2>2, <2>3
<1>4. h # Null /\ \A n \in Nodes : n # Null
  BY NullIsNoCell DEF Cells
<1>5. \A i \in 0..N + 1 : i <= Len(s) => At(s, h, i) # Null
  BY <1>1, <1>4 DEF At
<1> HIDE DEF N
<1>6. ASSUME NEW i \in 0..N + 1
      PROVE  g[i] = IF i = 0 THEN h ELSE IF g[i - 1] = Null THEN Null ELSE right[g[i - 1]]
  <2>1. CASE i = 0
    BY <1>1, <2>1 DEF At
  <2>2. CASE i # 0 /\ i - 1 <= Len(s)
    <3>1. i - 1 \in 0..N + 1 /\ i - 1 \in 0..Len(s) /\ g[i - 1] = At(s, h, i - 1) /\ g[i - 1] # Null
      BY <1>1, <1>2, <1>5, <2>2
    <3>2. right[g[i - 1]] = IF i - 1 = Len(s) THEN Null ELSE s[i]
      BY <1>1, <3>1 DEF Linked
    <3>3. g[i] = IF i <= Len(s) THEN s[i] ELSE Null
      BY <2>2 DEF At
    <3> HIDE DEF g
    <3> QED BY <1>1, <2>2, <3>1, <3>2, <3>3
  <2>3. CASE i # 0 /\ i - 1 > Len(s)
    BY <1>1, <1>2, <2>3
  <2> QED BY <1>1, <2>1, <2>2, <2>3
<1> DEFINE Walk(w) == w = [i \in 0..N + 1 |-> IF i = 0 THEN h ELSE IF w[i - 1] = Null THEN Null ELSE right[w[i - 1]]]
<1>7. Walk(f)
  <2>1. Walk(g)
    BY <1>6
  <2>2. f = CHOOSE w : Walk(w)
    BY DEF Reached, N
  <2> HIDE DEF f, g, Walk
  <2> QED BY <2>1, <2>2
<1> HIDE DEF f
<1>8. \A i \in 0..N + 1 : f[i] = IF i = 0 THEN h ELSE IF f[i - 1] = Null THEN Null ELSE right[f[i - 1]]
  BY <1>7
<1>9. \A i \in 0..N + 1 : f[i] = g[i]
  <2> DEFINE T == {i \in 0..N + 1 : f[i] # g[i]}
  <2> SUFFICES ASSUME T # {} PROVE FALSE
    OBVIOUS
  <2>1. T \subseteq Nat
    BY <1>2
  <2>2. PICK i \in T : \A k \in T : i <= k
    BY <2>1, LeastNumber
  <2>3. i # 0
    BY <1>6, <1>8, <2>2
  <2>4. i - 1 \in 0..N + 1 /\ f[i - 1] = g[i - 1]
    BY <1>2, <2>2, <2>3
  <2> HIDE DEF g
  <2> QED BY <1>6, <1>8, <2>2, <2>3, <2>4
<1>10. \A i \in 1..Len(s) : f[i] = s[i]
  BY <1>1, <1>2, <1>3, <1>9 DEF At
<1>11. {j \in 1..N + 1 : f[j] # Null} = 1..Len(s)
  <2>1. \A j \in 1..N + 1 : f[j] # Null <=> j <= Len(s)
    BY <1>1, <1>2, <1>5, <1>9
  <2> QED BY <1>1, <1>2, <1>3, <2>1
<1>12. Cardinality({j \in 1..N + 1 : f[j] # Null}) = Len(s)
  BY <1>1, <1>11, CardUpTo
<1>13. Items(h) = [i \in 1..Len(s) |-> f[i]]
  BY <1>12 DEF Items, f, N
<1>14. [i \in 1..Len(s) |-> f[i]] = s
  BY <1>1, <1>10
<1> QED BY <1>13, <1>14

LEMMA ItemsOfLists == \A L : Lists(L) => [h \in Heads |-> Items(h)] = L
<1> SUFFICES ASSUME NEW L, Lists(L) PROVE [h \in Heads |-> Items(h)] = L
  OBVIOUS
<1>1. ASSUME NEW h \in Heads PROVE Items(h) = L[h]
  BY ItemsAre DEF Lists, Apart
<1>2. L \in [Heads -> Seq(Nodes)]
  BY DEF Lists
<1> QED BY <1>1, <1>2

LEMMA ItemsOfListsNext == (\A L : Lists(L) => [h \in Heads |-> Items(h)] = L)'
BY ItemsOfLists, PTL

\* Where a cell is in the lists, it is once, and one that is queued nowhere is
\* in none.
LEMMA OnLists ==
  ASSUME ListTypeOK, LinksAgree, NEW L, Lists(L)
  PROVE  /\ L \in [Heads -> Seq(Nodes)]
         /\ \A h \in Heads : Len(L[h]) \in Nat /\ \A i \in 1..Len(L[h]) : L[h][i] \in Nodes
         /\ \A h \in Heads : \A i \in 0..Len(L[h]) : At(L[h], h, i) \in Cells
         /\ \A h \in Heads : \A i \in 0..Len(L[h]) :
              right[At(L[h], h, i)] = IF i = Len(L[h]) THEN Null ELSE L[h][i + 1]
         /\ \A g, h \in Heads : \A i \in 0..Len(L[g]), j \in 0..Len(L[h]) :
              At(L[g], g, i) = At(L[h], h, j) => g = h /\ i = j
         /\ \A n \in Nodes : ~Queued(n) => \A h \in Heads : \A i \in 0..Len(L[h]) : At(L[h], h, i) # n
<1>1. L \in [Heads -> Seq(Nodes)]
  BY DEF Lists
<1>2. \A h \in Heads : Len(L[h]) \in Nat /\ \A i \in 1..Len(L[h]) : L[h][i] \in Nodes
  BY <1>1, LenProperties, ElementOfSeq
<1>3. \A h \in Heads : \A i \in 0..Len(L[h]) : At(L[h], h, i) \in Cells
  BY <1>2 DEF At, Cells
<1>4. \A h \in Heads : \A i \in 0..Len(L[h]) :
        right[At(L[h], h, i)] = IF i = Len(L[h]) THEN Null ELSE L[h][i + 1]
  BY DEF Lists, Linked
<1>5. ASSUME NEW g \in Heads, NEW h \in Heads, NEW i \in 0..Len(L[g]), NEW j \in 0..Len(L[h]),
             At(L[g], g, i) = At(L[h], h, j)
      PROVE  g = h /\ i = j
  <2>1. \A k \in 1..Len(L[g]) : L[g][k] \notin Heads
    BY <1>2, CellsAssumption
  <2>2. \A k \in 1..Len(L[h]) : L[h][k] \notin Heads
    BY <1>2, CellsAssumption
  <2>3. CASE i = 0 \/ j = 0
    BY <1>2, <1>5, <2>1, <2>2, <2>3 DEF At
  <2>4. CASE i # 0 /\ j # 0
    <3>1. i \in 1..Len(L[g]) /\ j \in 1..Len(L[h]) /\ L[g][i] = L[h][j]
      BY <1>2, <1>5, <2>4 DEF At
    <3> QED BY <3>1 DEF Lists, Apart
  <2> QED BY <2>3, <2>4
<1>6. ASSUME NEW n \in Nodes, ~Queued(n), NEW h \in Heads, NEW i \in 0..Len(L[h]), At(L[h], h, i) = n
      PROVE  FALSE
  <2>1. i # 0
    BY <1>6, CellsAssumption DEF At
  <2>2. i - 1 \in 0..Len(L[h]) /\ i - 1 # Len(L[h]) /\ L[h][(i - 1) + 1] = n
    BY <1>2, <1>6, <2>1 DEF At
  <2>3. right[At(L[h], h, i - 1)] = n /\ At(L[h], h, i - 1) \in Cells
    BY <1>3, <1>4, <2>2
  <2> QED BY <1>6, <2>3, UnqueuedAlone
<1> QED BY <1>1, <1>2, <1>3, <1>4, <1>5, <1>6

\* Behind the i-th cell of a list the new node is its (i + 1)-th.
LEMMA PutLists ==
  ASSUME ListTypeOK, LinksAgree, NEW L, Lists(L),
         NEW n \in Nodes, ~Queued(n), NEW h \in Heads, NEW i \in 0..Len(L[h]),
         \A x \in Cells : right'[x] = IF x = n THEN right[At(L[h], h, i)]
                                      ELSE IF x = At(L[h], h, i) THEN n ELSE right[x],
         h \in SortedHeads => \A j \in 1..Len(L[h]) : /\ j <= i => Key[L[h][j]] <= Key[n]
                                                      /\ j > i => Key[n] <= Key[L[h][j]]
  PROVE  Lists([L EXCEPT ![h] = View!PutAt(L[h], i, n)])'
<1> DEFINE s == L[h]
           p == View!PutAt(s, i, n)
           M == [L EXCEPT ![h] = p]
<1>1. /\ L \in [Heads -> Seq(Nodes)]
      /\ \A g \in Heads : Len(L[g]) \in Nat /\ \A k \in 1..Len(L[g]) : L[g][k] \in Nodes
      /\ \A g \in Heads : \A k \in 0..Len(L[g]) : At(L[g], g, k) \in Cells
      /\ \A g \in Heads : \A k \in 0..Len(L[g]) :
           right[At(L[g], g, k)] = IF k = Len(L[g]) THEN Null ELSE L[g][k + 1]
      /\ \A f, g \in Heads : \A j \in 0..Len(L[f]), k \in 0..Len(L[g]) :
           At(L[f], f, j) = At(L[g], g, k) => f = g /\ j = k
      /\ \A g \in Heads : \A k \in 0..Len(L[g]) : At(L[g], g, k) # n
  BY OnLists
<1>2. s \in Seq(Nodes) /\ Len(s) \in Nat /\ i \in Nat /\ i <= Len(s) /\ n \in Cells
  BY <1>1 DEF Cells
<1>3. /\ p \in Seq(Nodes) /\ Len(p) = Len(s) + 1
      /\ \A j \in 1..(Len(s) + 1) : p[j] = IF j <= i THEN s[j] ELSE IF j = i + 1 THEN n ELSE s[j - 1]
  <2>1. s \in Seq(Nodes) /\ i \in 0..Len(s) /\ n \in Nodes
    BY <1>2
  <2> HIDE DEF s
  <2> QED BY <2>1, PutAtIs
<1> HIDE DEF p
<1>4. M \in [Heads -> Seq(Nodes)] /\ M[h] = p /\ \A g \in Heads : g # h => M[g] = L[g]
  BY <1>1, <1>3
<1> HIDE DEF M
<1>5. ASSUME NEW g \in Heads, g # h, NEW k \in 0..Len(L[g])
      PROVE  right'[At(L[g], g, k)] = IF k = Len(L[g]) THEN Null ELSE L[g][k + 1]
  BY <1>1, <1>2, <1>5
<1>6. ASSUME NEW k \in 0..Len(p)
      PROVE  right'[At(p, h, k)] = IF k = Len(p) THEN Null ELSE p[k + 1]
  <2>1. CASE k < i
    <3>1. k \in 0..Len(s) /\ At(p, h, k) = At(s, h, k) /\ k + 1 \in 1..Len(s) /\ k # i /\ k # Len(p)
      BY <1>2, <1>3, <2>1 DEF At
    <3>2. right'[At(s, h, k)] = right[At(s, h, k)] /\ right[At(s, h, k)] = s[k + 1]
      BY <1>1, <1>2, <2>1, <3>1
    <3>3. p[k + 1] = s[k + 1]
      BY <1>2, <1>3, <2>1, <3>1
    <3> QED BY <3>1, <3>2, <3>3
  <2>2. CASE k = i
    <3>1. At(p, h, k) = At(s, h, i) /\ p[k + 1] = n /\ k # Len(p)
      BY <1>2, <1>3, <2>2 DEF At
    <3>2. right'[At(s, h, i)] = n
      BY <1>1, <1>2
    <3> QED BY <3>1, <3>2
  <2>3. CASE k = i + 1
    <3>1. At(p, h, k) = n /\ right'[n] = IF i = Len(s) THEN Null ELSE s[i + 1]
      BY <1>1, <1>2, <1>3, <2>3 DEF At
    <3>2. i # Len(s) => p[k + 1] = s[i + 1]
      BY <1>2, <1>3, <2>3
    <3>3. k = Len(p) <=> i = Len(s)
      BY <1>2, <1>3, <2>3
    <3> QED BY <3>1, <3>2, <3>3
  <2>4. CASE k > i + 1
    <3>1. k - 1 \in 0..Len(s) /\ At(p, h, k) = At(s, h, k - 1) /\ k - 1 # i
      BY <1>2, <1>3, <2>4 DEF At
    <3>2. right'[At(s, h, k - 1)] = right[At(s, h, k - 1)]
      BY <1>1, <1>2, <3>1
    <3>a. k \in Nat /\ (k - 1) + 1 = k /\ (k + 1) - 1 = k
      OBVIOUS
    <3>3. right[At(s, h, k - 1)] = IF k - 1 = Len(s) THEN Null ELSE s[k]
      <4>1. right[At(s, h, k - 1)] = IF k - 1 = Len(s) THEN Null ELSE s[(k - 1) + 1]
        BY <1>1, <3>1
      <4> QED BY <3>a, <4>1
    <3>4. k - 1 # Len(s) => p[k + 1] = s[k]
      <4>1. k - 1 # Len(s) => k + 1 \in 1..(Len(s) + 1) /\ k + 1 > i + 1
        BY <1>2, <1>3, <2>4
      <4>2. k - 1 # Len(s) => p[k + 1] = s[(k + 1) - 1]
        BY <1>2, <1>3, <4>1
      <4> QED BY <3>a, <4>2
    <3>5. k = Len(p) <=> k - 1 = Len(s)
      BY <1>2, <1>3
    <3> QED BY <3>1, <3>2, <3>3, <3>4, <3>5
  <2>5. k < i \/ k = i \/ k = i + 1 \/ k > i + 1
    BY <1>2, <1>3
  <2> QED BY <2>1, <2>2, <2>3, <2>4, <2>5
<1>7. \A g \in Heads : \A k \in 0..Len(M[g]) :
        right'[At(M[g], g, k)] = IF k = Len(M[g]) THEN Null ELSE M[g][k + 1]
  BY <1>4, <1>5, <1>6
<1> DEFINE from(j) == IF j <= i THEN j ELSE j - 1
<1>8. \A g \in Heads : g # h => \A j \in 1..Len(L[g]) : L[g][j] # n /\ \A k \in 1..Len(s) : L[g][j] # s[k]
  BY <1>1, <1>2 DEF At
<1>9. ASSUME NEW j \in 1..Len(p), NEW k \in 1..Len(p), p[j] = p[k] PROVE j = k
  <2>1. \A a \in 1..Len(s) : s[a] # n
    BY <1>1, <1>2 DEF At
  <2>2. \A a, b \in 1..Len(s) : s[a] = s[b] => a = b
    BY <1>1, <1>2 DEF At
  <2>3. \A a \in 1..Len(p) : a # i + 1 => p[a] = s[from(a)] /\ from(a) \in 1..Len(s)
    BY <1>2, <1>3
  <2>4. p[i + 1] = n
    BY <1>2, <1>3
  <2>5. CASE j = i + 1 \/ k = i + 1
    <3> HIDE DEF from
    <3> QED BY <1>9, <2>1, <2>3, <2>4, <2>5
  <2>6. CASE j # i + 1 /\ k # i + 1
    <3>1. from(j) = from(k)
      BY <1>9, <2>2, <2>3, <2>6
    <3> QED BY <1>2, <1>3, <2>6, <3>1
  <2> QED BY <2>5, <2>6
<1>10. ASSUME NEW g \in Heads, g # h, NEW j \in 1..Len(L[g]), NEW k \in 1..Len(p) PROVE L[g][j] # p[k]
  <2>1. p[k] = n \/ \E a \in 1..Len(s) : p[k] = s[a]
    <3>1. k # i + 1 => p[k] = s[from(k)] /\ from(k) \in 1..Len(s)
      BY <1>2, <1>3
    <3> QED BY <1>2, <1>3, <3>1
  <2> QED BY <1>8, <1>10, <2>1
<1>11. \A f, g \in Heads : \A j \in 1..Len(M[f]), k \in 1..Len(M[g]) : M[f][j] = M[g][k] => f = g /\ j = k
  <2> SUFFICES ASSUME NEW f \in Heads, NEW g \in Heads, NEW j \in 1..Len(M[f]), NEW k \in 1..Len(M[g]),
                      M[f][j] = M[g][k]
               PROVE  f = g /\ j = k
    OBVIOUS
  <2>1. CASE f = h /\ g = h
    BY <1>4, <1>9, <2>1
  <2>2. CASE f # h /\ g = h
    BY <1>4, <1>10, <2>2
  <2>3. CASE f = h /\ g # h
    BY <1>4, <1>10, <2>3
  <2>4. CASE f # h /\ g # h
    BY <1>4, <2>4 DEF Lists, Apart
  <2> QED BY <2>1, <2>2, <2>3, <2>4
<1>12. ASSUME NEW g \in SortedHeads PROVE Ordered(M[g])
  <2>1. CASE g # h
    BY <1>4, <2>1, CellsAssumption DEF Lists
  <2>2. CASE g = h
    <3>1. \A a, b \in 1..Len(s) : a <= b => Key[s[a]] <= Key[s[b]]
      BY <2>2 DEF Lists, Ordered
    <3>2. \A a \in 1..Len(s) : /\ Key[s[a]] \in Int
                               /\ a <= i => Key[s[a]] <= Key[n]
                               /\ a > i => Key[n] <= Key[s[a]]
      BY <1>1, <2>2, KeyAssumption
    <3>3. Key[n] \in Int
      BY KeyAssumption
    <3>4. ASSUME NEW j \in 1..Len(p), NEW k \in 1..Len(p), j <= k PROVE Key[p[j]] <= Key[p[k]]
      <4>1. j # i + 1 => p[j] = s[from(j)] /\ from(j) \in 1..Len(s)
        BY <1>2, <1>3
      <4>2. k # i + 1 => p[k] = s[from(k)] /\ from(k) \in 1..Len(s)
        BY <1>2, <1>3
      <4>3. p[i + 1] = n
        BY <1>2, <1>3
      <4>4. CASE j # i + 1 /\ k # i + 1
        <5>1. from(j) <= from(k)
          BY <1>2, <1>3, <3>4, <4>4
        <5> QED BY <3>1, <4>1, <4>2, <4>4, <5>1
      <4>5. CASE j = i + 1 /\ k # i + 1
        <5>1. from(k) > i
          BY <1>2, <1>3, <3>4, <4>5
        <5> QED BY <3>2, <4>2, <4>3, <4>5, <5>1
      <4>6. CASE j # i + 1 /\ k = i + 1
        <5>1. from(j) <= i
          BY <1>2, <1>3, <3>4, <4>6
        <5> QED BY <3>2, <4>1, <4>3, <4>6, <5>1
      <4>7. CASE j = i + 1 /\ k = i + 1
        BY <3>3, <4>3, <4>7
      <4> QED BY <4>4, <4>5, <4>6, <4>7
    <3> QED BY <1>4, <2>2, <3>4 DEF Ordered
  <2> QED BY <2>1, <2>2
<1>13. Lists(M)'
  BY <1>4, <1>7, <1>11, <1>12 DEF Lists, Linked, Apart
<1> QED BY <1>13 DEF M, p

\* Without its i-th node a list is linked, and the others are untouched.
LEMMA TakeLists ==
  ASSUME ListTypeOK, LinksAgree, NEW L, Lists(L),
         NEW h \in Heads, NEW i \in 1..Len(L[h]), Remove(L[h][i])
  PROVE  Lists([L EXCEPT ![h] = View!TakeFrom(L[h], i)])'
<1> DEFINE s == L[h]
           n == s[i]
           c == At(s, h, i - 1)
           p == View!TakeFrom(s, i)
           M == [L EXCEPT ![h] = p]
<1>1. /\ L \in [Heads -> Seq(Nodes)]
      /\ \A g \in Heads : Len(L[g]) \in Nat /\ \A k \in 1..Len(L[g]) : L[g][k] \in Nodes
      /\ \A g \in Heads : \A k \in 0..Len(L[g]) : At(L[g], g, k) \in Cells
      /\ \A g \in Heads : \A k \in 0..Len(L[g]) :
           right[At(L[g], g, k)] = IF k = Len(L[g]) THEN Null ELSE L[g][k + 1]
      /\ \A f, g \in Heads : \A j \in 0..Len(L[f]), k \in 0..Len(L[g]) :
           At(L[f], f, j) = At(L[g], g, k) => f = g /\ j = k
  BY OnLists
<1>2. s \in Seq(Nodes) /\ Len(s) \in Nat /\ i \in Nat /\ 1 <= i /\ i <= Len(s)
  BY <1>1
<1>3. /\ p \in Seq(Nodes) /\ Len(p) = Len(s) - 1
      /\ \A j \in 1..(Len(s) - 1) : p[j] = IF j < i THEN s[j] ELSE s[j + 1]
  <2>1. s \in Seq(Nodes) /\ i \in 1..Len(s)
    BY <1>2
  <2> HIDE DEF s
  <2> QED BY <2>1, TakeFromIs
<1> HIDE DEF p
<1>4. M \in [Heads -> Seq(Nodes)] /\ M[h] = p /\ \A g \in Heads : g # h => M[g] = L[g]
  BY <1>1, <1>3
<1> HIDE DEF M
<1>5. /\ n = At(s, h, i) /\ n \in Cells /\ c \in Cells /\ right[c] = n
      /\ right[n] = IF i = Len(s) THEN Null ELSE s[i + 1]
  <2>1. i - 1 \in 0..Len(s) /\ i \in 0..Len(s) /\ i - 1 # Len(s) /\ (i - 1) + 1 = i
    BY <1>2
  <2>2. n = At(s, h, i)
    BY <1>2 DEF At
  <2>3. right[c] = IF i - 1 = Len(s) THEN Null ELSE s[(i - 1) + 1]
    BY <1>1, <2>1
  <2> QED BY <1>1, <2>1, <2>2, <2>3
<1>6. \A x \in Cells : right'[x] = IF x = n THEN Null ELSE IF x = c THEN right[n] ELSE right[x]
  <2>1. left[n] = c
    BY <1>5 DEF LinksAgree
  <2> QED BY <2>1 DEF Remove
<1> HIDE DEF n, c
<1>7. ASSUME NEW g \in Heads, g # h, NEW k \in 0..Len(L[g])
      PROVE  right'[At(L[g], g, k)] = IF k = Len(L[g]) THEN Null ELSE L[g][k + 1]
  <2>1. i - 1 \in 0..Len(s) /\ i \in 0..Len(s)
    BY <1>2
  <2>2. At(L[g], g, k) # n /\ At(L[g], g, k) # c
    BY <1>1, <1>5, <1>7, <2>1 DEF c
  <2> QED BY <1>1, <1>6, <2>2
<1>8. ASSUME NEW k \in 0..Len(p)
      PROVE  right'[At(p, h, k)] = IF k = Len(p) THEN Null ELSE p[k + 1]
  <2>0. k \in Nat /\ (k + 1) + 1 = k + 2 /\ i - 1 \in 0..Len(s) /\ i \in 0..Len(s)
    BY <1>2
  <2>1. CASE k < i - 1
    <3>1. k \in 0..Len(s) /\ At(p, h, k) = At(s, h, k) /\ k # Len(s) /\ k # Len(p) /\ k # i /\ k # i - 1
      BY <1>2, <1>3, <2>1 DEF At
    <3>2. At(s, h, k) # n /\ At(s, h, k) # c
      BY <1>1, <1>5, <2>0, <3>1 DEF c
    <3>3. right'[At(s, h, k)] = s[k + 1]
      BY <1>1, <1>6, <3>1, <3>2
    <3>4. p[k + 1] = s[k + 1]
      <4>1. k + 1 \in 1..(Len(s) - 1) /\ k + 1 < i
        BY <1>2, <2>0, <2>1
      <4> QED BY <1>3, <4>1
    <3> QED BY <3>1, <3>3, <3>4
  <2>2. CASE k = i - 1
    <3>1. At(p, h, k) = c
      BY <1>2, <1>3, <2>2 DEF At, c
    <3>2. c # n
      BY <1>1, <1>2, <1>5, <2>0 DEF c
    <3>3. right'[c] = IF i = Len(s) THEN Null ELSE s[i + 1]
      BY <1>5, <1>6, <3>2
    <3>4. k = Len(p) <=> i = Len(s)
      BY <1>2, <1>3, <2>2
    <3>5. i # Len(s) => p[k + 1] = s[i + 1]
      <4>1. k + 1 = i
        BY <1>2, <2>2
      <4>2. i # Len(s) => i \in 1..(Len(s) - 1)
        BY <1>2
      <4> QED BY <1>2, <1>3, <4>1, <4>2
    <3> QED BY <3>1, <3>3, <3>4, <3>5
  <2>3. CASE k > i - 1
    <3>1. k + 1 \in 0..Len(s) /\ At(p, h, k) = At(s, h, k + 1) /\ k + 1 # i /\ k + 1 # i - 1
      BY <1>2, <1>3, <2>3 DEF At
    <3>2. At(s, h, k + 1) # n /\ At(s, h, k + 1) # c
      BY <1>1, <1>5, <2>0, <3>1 DEF c
    <3>3. right'[At(s, h, k + 1)] = IF k + 1 = Len(s) THEN Null ELSE s[(k + 1) + 1]
      BY <1>1, <1>6, <3>1, <3>2
    <3>4. k = Len(p) <=> k + 1 = Len(s)
      BY <1>2, <1>3
    <3>5. k + 1 # Len(s) => p[k + 1] = s[(k + 1) + 1]
      <4>0. Len(p) = Len(s) - 1
        BY <1>3
      <4>1. k \in Nat /\ k <= Len(s) - 1 /\ ~(k + 1 < i)
        BY <1>2, <2>3, <4>0
      <4>2. k + 1 # Len(s) => k + 1 \in 1..(Len(s) - 1)
        BY <1>2, <4>1
      <4> QED BY <1>3, <4>1, <4>2
    <3> QED BY <3>1, <3>3, <3>4, <3>5
  <2>4. k < i - 1 \/ k = i - 1 \/ k > i - 1
    BY <1>2
  <2> QED BY <2>1, <2>2, <2>3, <2>4
<1>9. \A g \in Heads : \A k \in 0..Len(M[g]) :
        right'[At(M[g], g, k)] = IF k = Len(M[g]) THEN Null ELSE M[g][k + 1]
  BY <1>4, <1>7, <1>8
<1> DEFINE from(j) == IF j < i THEN j ELSE j + 1
<1>10. \A j \in 1..Len(p) : p[j] = s[from(j)] /\ from(j) \in 1..Len(s)
  BY <1>2, <1>3
<1>11. \A f, g \in Heads : \A j \in 1..Len(M[f]), k \in 1..Len(M[g]) : M[f][j] = M[g][k] => f = g /\ j = k
  <2> SUFFICES ASSUME NEW f \in Heads, NEW g \in Heads, NEW j \in 1..Len(M[f]), NEW k \in 1..Len(M[g]),
                      M[f][j] = M[g][k]
               PROVE  f = g /\ j = k
    OBVIOUS
  <2>0. \A f1, g1 \in Heads : \A a \in 1..Len(L[f1]), b1 \in 1..Len(L[g1]) : L[f1][a] = L[g1][b1] => f1 = g1 /\ a = b1
    BY DEF Lists, Apart
  <2>1. CASE f = h /\ g = h
    <3>1. j \in 1..Len(p) /\ k \in 1..Len(p) /\ p[j] = p[k]
      BY <1>4, <2>1
    <3>2. s[from(j)] = s[from(k)] /\ from(j) \in 1..Len(s) /\ from(k) \in 1..Len(s)
      BY <1>10, <3>1
    <3>3. from(j) = from(k)
      <4> HIDE DEF from
      <4> QED BY <2>0, <3>2
    <3> QED BY <1>2, <1>3, <2>1, <3>1, <3>3
  <2>2. CASE f # h /\ g = h
    BY <1>4, <1>10, <2>0, <2>2
  <2>3. CASE f = h /\ g # h
    BY <1>4, <1>10, <2>0, <2>3
  <2>4. CASE f # h /\ g # h
    BY <1>4, <2>0, <2>4
  <2> QED BY <2>1, <2>2, <2>3, <2>4
<1>12. ASSUME NEW g \in SortedHeads PROVE Ordered(M[g])
  <2>1. CASE g # h
    BY <1>4, <2>1, CellsAssumption DEF Lists
  <2>2. CASE g = h
    <3>1. \A a, b1 \in 1..Len(s) : a <= b1 => Key[s[a]] <= Key[s[b1]]
      BY <2>2 DEF Lists, Ordered
    <3>2. ASSUME NEW j \in 1..Len(p), NEW k \in 1..Len(p), j <= k PROVE Key[p[j]] <= Key[p[k]]
      <4>1. from(j) <= from(k)
        BY <1>2, <1>3, <3>2
      <4> QED BY <1>10, <3>1, <4>1
    <3> QED BY <1>4, <2>2, <3>2 DEF Ordered
  <2> QED BY <2>1, <2>2
<1>13. Lists(M)'
  BY <1>4, <1>9, <1>11, <1>12 DEF Lists, Linked, Apart
<1> QED BY <1>13 DEF M, p

\* Pointers that lie in no list may change.
LEMMA OtherLists ==
  ASSUME ListTypeOK, LinksAgree, NEW L, Lists(L),
         \A h \in Heads : \A i \in 0..Len(L[h]) : right'[At(L[h], h, i)] = right[At(L[h], h, i)]
  PROVE  Lists(L)'
BY DEF Lists, Linked, Apart

\* Where a loop along a list stops that looks for the first node in stops.
LEMMA CellBeforeIs ==
  ASSUME ListTypeOK, LinksAgree, NEW L, Lists(L), NEW h \in Heads, NEW stops
  PROVE  \E k \in 0..Len(L[h]) :
           /\ CellBefore(h, stops) = At(L[h], h, k)
           /\ \A j \in 1..k : L[h][j] \notin stops
           /\ k # Len(L[h]) => L[h][k + 1] \in stops
<1> DEFINE s == L[h]
           n == {i \in 1..Len(s) : \A j \in 1..i : s[j] \notin stops}
           C == {l \in 1..(Len(s) + 1) : l \notin n}
<1>1. Len(s) \in Nat /\ Items(h) = s
  <2>1. \A i, j \in 1..Len(s) : s[i] = s[j] => i = j
    BY DEF Lists, Apart
  <2>2. s \in Seq(Nodes) /\ Linked(s, h) /\ Len(s) \in Nat
    BY OnLists DEF Lists
  <2> HIDE DEF s
  <2> QED BY <2>1, <2>2, ItemsAre
<1>2. C \subseteq Nat /\ C # {}
  <2>1. Len(s) + 1 \in C
    BY <1>1
  <2> QED BY <1>1, <2>1
<1>3. PICK l \in C : \A k \in C : l <= k
  <2> HIDE DEF C
  <2> QED BY <1>2, LeastNumber
<1>4. l \in 1..(Len(s) + 1) /\ l - 1 \in 0..Len(s) /\ l \notin n
  BY <1>1, <1>3
<1>5. n = 1..(l - 1)
  <2>1. ASSUME NEW i \in n PROVE i < l
    <3>1. i \in 1..Len(s) /\ \A j \in 1..i : s[j] \notin stops
      OBVIOUS
    <3>2. i >= l => l \in n
      BY <1>1, <1>4, <3>1
    <3> QED BY <1>1, <1>4, <3>1, <3>2
  <2>2. ASSUME NEW i \in 1..(l - 1) PROVE i \in n
    BY <1>1, <1>3, <1>4
  <2> QED BY <1>4, <2>1, <2>2
<1>6. Cardinality(n) = l - 1
  <2>1. l - 1 \in Nat
    BY <1>1, <1>4
  <2> HIDE DEF n
  <2> QED BY <1>5, <2>1, CardUpTo
<1>7. CellBefore(h, stops) = At(s, h, l - 1)
  <2>1. CellBefore(h, stops) = IF n = {} THEN h ELSE s[Cardinality(n)]
    BY <1>1 DEF CellBefore
  <2>2. n = {} <=> l - 1 = 0
    <3> HIDE DEF n
    <3> QED BY <1>1, <1>4, <1>5
  <2> HIDE DEF n, s
  <2> QED BY <1>6, <2>1, <2>2 DEF At
<1>8. \A j \in 1..(l - 1) : s[j] \notin stops
  <2>1. \A j \in n : s[j] \notin stops
    BY <1>1
  <2> HIDE DEF n
  <2> QED BY <1>5, <2>1
<1>9. l - 1 # Len(s) => s[(l - 1) + 1] \in stops
  <2>1. l - 1 # Len(s) => l \in 1..Len(s)
    BY <1>1, <1>4
  <2>2. l \in 1..Len(s) => \E j \in 1..l : s[j] \in stops
    BY <1>4
  <2>3. \A j \in 1..l : s[j] \in stops => j = l
    BY <1>4, <1>8
  <2>4. (l - 1) + 1 = l
    BY <1>4
  <2> QED BY <2>1, <2>2, <2>3, <2>4
<1> QED BY <1>4, <1>7, <1>8, <1>9

(****************************************************************************)
(* The calls as moves of ListView.                                          *)
(****************************************************************************)
Moved(L, M) ==
  \E h \in Heads :
    \/ \E n \in Nodes : \E i \in 0..Len(L[h]) :
         /\ h \in SortedHeads => i = View!NoWorse(L[h], n)
         /\ \A g \in Heads : \A j \in 1..Len(L[g]) : L[g][j] # n
         /\ M = [L EXCEPT ![h] = View!PutAt(L[h], i, n)]
    \/ \E i \in 1..Len(L[h]) : M = [L EXCEPT ![h] = View!TakeFrom(L[h], i)]

\* An insertion behind the i-th cell of a list is a Put, where no better node
\* is behind it and no worse one before.
LEMMA PutMoves ==
  ASSUME ListTypeOK, LinksAgree, NEW L, Lists(L),
         NEW n \in Nodes, ~Queued(n), NEW h \in Heads, NEW i \in 0..Len(L[h]),
         \A x \in Cells : right'[x] = IF x = n THEN right[At(L[h], h, i)]
                                      ELSE IF x = At(L[h], h, i) THEN n ELSE right[x],
         h \in SortedHeads => \A j \in 1..Len(L[h]) : j <= i <=> Key[L[h][j]] <= Key[n]
  PROVE  \E M : Lists(M)' /\ Moved(L, M)
<1>1. /\ Len(L[h]) \in Nat /\ \A j \in 1..Len(L[h]) : L[h][j] \in Nodes
      /\ \A g \in Heads : Len(L[g]) \in Nat /\ \A j \in 0..Len(L[g]) : At(L[g], g, j) # n
  BY OnLists
<1>2. Key[n] \in Int /\ \A j \in 1..Len(L[h]) : Key[L[h][j]] \in Int
  BY <1>1, KeyAssumption
<1>3. h \in SortedHeads => \A j \in 1..Len(L[h]) : /\ j <= i => Key[L[h][j]] <= Key[n]
                                                   /\ j > i => Key[n] <= Key[L[h][j]]
  BY <1>1, <1>2
<1>4. Lists([L EXCEPT ![h] = View!PutAt(L[h], i, n)])'
  BY <1>3, PutLists
<1>5. h \in SortedHeads => i = View!NoWorse(L[h], n)
  <2> SUFFICES ASSUME h \in SortedHeads PROVE i = View!NoWorse(L[h], n)
    OBVIOUS
  <2>1. {j \in 1..Len(L[h]) : Key[L[h][j]] <= Key[n]} = 1..i
    <3>1. \A j \in 1..Len(L[h]) : Key[L[h][j]] <= Key[n] <=> j <= i
      OBVIOUS
    <3> QED BY <1>1, <3>1
  <2>2. Cardinality(1..i) = i
    BY <1>1, CardUpTo
  <2>3. View!NoWorse(L[h], n) = Cardinality({j \in 1..Len(L[h]) : Key[L[h][j]] <= Key[n]})
    BY DEF View!NoWorse, View!Cardinality, Cardinality
  <2> QED BY <2>1, <2>2, <2>3
<1>6. \A g \in Heads : \A j \in 1..Len(L[g]) : L[g][j] # n
  BY <1>1 DEF At
<1>7. Moved(L, [L EXCEPT ![h] = View!PutAt(L[h], i, n)])
  BY <1>5, <1>6 DEF Moved
<1> QED BY <1>4, <1>7

LEMMA TakeMoves ==
  ASSUME ListTypeOK, LinksAgree, NEW L, Lists(L),
         NEW h \in Heads, NEW i \in 1..Len(L[h]), Remove(L[h][i])
  PROVE  \E M : Lists(M)' /\ Moved(L, M)
<1>1. Lists([L EXCEPT ![h] = View!TakeFrom(L[h], i)])'
  BY TakeLists
<1>2. Moved(L, [L EXCEPT ![h] = View!TakeFrom(L[h], i)])
  BY DEF Moved
<1> QED BY <1>1, <1>2

\* glthread_add_next behind a cell that is At(L[h], h, i).
LEMMA AddNextMoves ==
  ASSUME ListTypeOK, LinksAgree, NEW L, Lists(L),
         NEW n \in Nodes, ~Queued(n), NEW h \in Heads, NEW i \in 0..Len(L[h]), AddNext(At(L[h], h, i), n),
         h \in SortedHeads => \A j \in 1..Len(L[h]) : j <= i <=> Key[L[h][j]] <= Key[n]
  PROVE  \E M : Lists(M)' /\ Moved(L, M)
<1>1. At(L[h], h, i) \in Cells /\ At(L[h], h, i) # n /\ n \in Cells
  BY OnLists DEF Cells
<1>2. \A x \in Cells : right'[x] = IF x = n THEN right[At(L[h], h, i)]
                                   ELSE IF x = At(L[h], h, i) THEN n ELSE right[x]
  BY <1>1 DEF AddNext, ListTypeOK
<1> QED BY <1>2, PutMoves

\* Taking out a cell wherever it is.
LEMMA RemoveMoves ==
  ASSUME ListTypeOK, LinksAgree, NEW L, Lists(L), NEW n \in Nodes, Remove(n)
  PROVE  Lists(L)' \/ \E M : Lists(M)' /\ Moved(L, M)
<1>1. CASE \E h \in Heads : \E i \in 1..Len(L[h]) : L[h][i] = n
  BY <1>1, TakeMoves
<1>2. CASE \A h \in Heads : \A i \in 1..Len(L[h]) : L[h][i] # n
  <2>1. ASSUME NEW h \in Heads, NEW i \in 0..Len(L[h])
        PROVE  right'[At(L[h], h, i)] = right[At(L[h], h, i)]
    <3>1. Len(L[h]) \in Nat /\ At(L[h], h, i) \in Cells
      BY OnLists
    <3>2. At(L[h], h, i) # n
      BY <1>2, <3>1, CellsAssumption DEF At
    <3>3. At(L[h], h, i) # left[n]
      <4>1. right[At(L[h], h, i)] = IF i = Len(L[h]) THEN Null ELSE L[h][i + 1]
        BY OnLists
      <4>2. right[At(L[h], h, i)] # n
        BY <1>2, <3>1, <4>1, CellsAssumption
      <4>3. n \in Cells
        BY DEF Cells
      <4> QED BY <3>1, <4>2, <4>3 DEF LinksAgree
    <3> QED BY <3>1, <3>2, <3>3 DEF Remove
  <2> QED BY <2>1, OtherLists
<1> QED BY <1>1, <1>2

\* Where a caller that has a plain list may insert: at one of its cells.
LEMMA PlainIs ==
  ASSUME NEW L, Lists(L), NEW c, Plain(c)
  PROVE  \E h \in Heads \ SortedHeads : \E i \in 0..Len(L[h]) : c = At(L[h], h, i)
<1>1. \A h \in Heads : Items(h) = L[h]
  BY ItemsOfLists
<1>2. \A h \in Heads : Len(L[h]) \in Nat
  BY LenProperties DEF Lists
<1>3. CASE c \in Heads \ SortedHeads
  <2>1. 0 \in 0..Len(L[c]) /\ c = At(L[c], c, 0)
    BY <1>2, <1>3 DEF At
  <2> QED BY <1>3, <2>1
<1>4. CASE \E h \in Heads \ SortedHeads : \E i \in 1..Len(Items(h)) : Items(h)[i] = c
  <2>0. PICK h \in Heads \ SortedHeads : \E i \in 1..Len(L[h]) : L[h][i] = c
    BY <1>1, <1>4
  <2>1. PICK i \in 1..Len(L[h]) : L[h][i] = c
    BY <2>0
  <2>2. i \in 0..Len(L[h]) /\ c = At(L[h], h, i)
    BY <1>2, <2>1 DEF At
  <2> QED BY <2>2
<1> QED BY <1>3, <1>4 DEF Plain

\* Every step of the specification is a move of ListView or leaves the lists.
LEMMA StepMoves ==
  ASSUME ListInv, NEW L, Lists(L), [ListNext]_listVars
  PROVE  Lists(L)' \/ \E M : Lists(M)' /\ Moved(L, M)
<1>0. ListTypeOK /\ LinksAgree /\ DeletesAll
  BY DEF ListInv
<1>s. right' = right => Lists(L)'
  BY <1>0, OtherLists
<1>1. ASSUME NEW n \in Nodes, NEW c \in Cells \ {n}, CallAddNext(c, n)
      PROVE  \E M : Lists(M)' /\ Moved(L, M)
  <2>0. PICK h \in Heads \ SortedHeads : \E i \in 0..Len(L[h]) : c = At(L[h], h, i)
    BY <1>1, PlainIs DEF CallAddNext
  <2>1. PICK i \in 0..Len(L[h]) : c = At(L[h], h, i)
    BY <2>0
  <2> QED BY <1>0, <1>1, <2>1, AddNextMoves DEF CallAddNext
<1>2. ASSUME NEW n \in Nodes, NEW c \in Cells \ {n}, CallAddBefore(c, n)
      PROVE  Lists(L)' \/ \E M : Lists(M)' /\ Moved(L, M)
  <2>0. PICK h \in Heads \ SortedHeads : \E i \in 0..Len(L[h]) : c = At(L[h], h, i)
    BY <1>2, PlainIs DEF CallAddBefore
  <2>1. PICK i \in 0..Len(L[h]) : c = At(L[h], h, i)
    BY <2>0
  <2>2. ~Queued(n) /\ n \in Cells /\ c \in Cells /\ c # n
    BY <1>2 DEF CallAddBefore, Cells
  <2>3. \A x \in Cells : right'[x] = IF x = n THEN c ELSE IF x = left[c] THEN n ELSE right[x]
    BY <1>2 DEF CallAddBefore, AddBefore
  <2>4. CASE i = 0
    <3>1. ASSUME NEW g \in Heads, NEW k \in 0..Len(L[g])
          PROVE  right'[At(L[g], g, k)] = right[At(L[g], g, k)]
      <4>1. /\ At(L[g], g, k) \in Cells /\ At(L[g], g, k) # n /\ Len(L[g]) \in Nat
            /\ right[At(L[g], g, k)] = IF k = Len(L[g]) THEN Null ELSE L[g][k + 1]
            /\ \A j \in 1..Len(L[g]) : L[g][j] \in Nodes
        BY <1>0, <2>2, OnLists
      <4>2. c \in Heads /\ c # Null /\ c \notin Nodes
        BY <2>1, <2>4, CellsAssumption DEF At
      <4>3. right[At(L[g], g, k)] # c
        BY <4>1, <4>2
      <4>4. At(L[g], g, k) # left[c]
        BY <1>0, <2>2, <4>1, <4>3 DEF LinksAgree
      <4> QED BY <2>3, <4>1, <4>4
    <3> QED BY <1>0, <3>1, OtherLists
  <2>5. CASE i # 0
    <3>1. i - 1 \in 0..Len(L[h]) /\ i - 1 # Len(L[h]) /\ (i - 1) + 1 = i /\ c = L[h][i]
      BY <1>0, <2>1, <2>5, OnLists DEF At
    <3>2. right[At(L[h], h, i - 1)] = c /\ At(L[h], h, i - 1) \in Cells
      <4>1. right[At(L[h], h, i - 1)] = IF i - 1 = Len(L[h]) THEN Null ELSE L[h][(i - 1) + 1]
        BY <1>0, <3>1, OnLists
      <4>2. At(L[h], h, i - 1) \in Cells
        BY <1>0, <3>1, OnLists
      <4> QED BY <3>1, <4>1, <4>2
    <3>3. left[c] = At(L[h], h, i - 1)
      BY <1>0, <2>2, <3>2 DEF LinksAgree
    <3>4. \A x \in Cells : right'[x] = IF x = n THEN right[At(L[h], h, i - 1)]
                                       ELSE IF x = At(L[h], h, i - 1) THEN n ELSE right[x]
      BY <2>3, <3>2, <3>3
    <3> QED BY <1>0, <2>2, <3>1, <3>4, PutMoves
  <2> QED BY <2>4, <2>5
<1>3. ASSUME NEW n \in Nodes, NEW h \in Heads, AddLast(h, n)
      PROVE  \E M : Lists(M)' /\ Moved(L, M)
  <2>1. PICK k \in 0..Len(L[h]) : LastOf(h) = At(L[h], h, k)
    BY <1>0, CellBeforeIs DEF LastOf
  <2>2. ~Queued(n) /\ h \notin SortedHeads /\ AddNext(At(L[h], h, k), n)
    BY <1>3, <2>1 DEF AddLast
  <2> QED BY <1>0, <2>2, AddNextMoves
<1>4. ASSUME NEW n \in Nodes, NEW h \in Heads, PriorityInsert(h, n)
      PROVE  \E M : Lists(M)' /\ Moved(L, M)
  <2> DEFINE worse == {c \in Nodes : Key[n] < Key[c]}
  <2>1. PICK k \in 0..Len(L[h]) : /\ Place(h, n) = At(L[h], h, k)
                                  /\ \A j \in 1..k : L[h][j] \notin worse
                                  /\ k # Len(L[h]) => L[h][k + 1] \in worse
    BY <1>0, CellBeforeIs DEF Place
  <2>2. ~Queued(n) /\ AddNext(At(L[h], h, k), n)
    BY <1>4, <2>1 DEF PriorityInsert
  <2>3. Len(L[h]) \in Nat /\ \A j \in 1..Len(L[h]) : L[h][j] \in Nodes
    BY <1>0, OnLists
  <2>4. Key[n] \in Int /\ \A j \in 1..Len(L[h]) : Key[L[h][j]] \in Int
    BY <2>3, KeyAssumption
  <2>5. ASSUME h \in SortedHeads, NEW j \in 1..Len(L[h])
        PROVE  j <= k <=> Key[L[h][j]] <= Key[n]
    <3>1. CASE j <= k
      <4>1. ~(Key[n] < Key[L[h][j]])
        BY <2>1, <2>3, <3>1
      <4> QED BY <2>4, <3>1, <4>1
    <3>2. CASE j > k
      <4>1. k + 1 \in 1..Len(L[h]) /\ k + 1 <= j /\ k # Len(L[h])
        BY <2>3, <3>2
      <4>2. Key[n] < Key[L[h][k + 1]]
        BY <2>1, <4>1
      <4>3. Key[L[h][k + 1]] <= Key[L[h][j]]
        BY <2>5, <4>1 DEF Lists, Ordered
      <4>4. Key[L[h][k + 1]] \in Int /\ Key[L[h][j]] \in Int /\ Key[n] \in Int
        BY <2>4, <4>1
      <4>5. ~(Key[L[h][j]] <= Key[n])
        BY <4>2, <4>3, <4>4
      <4>6. ~(j <= k)
        BY <2>3, <3>2
      <4> QED BY <4>5, <4>6
    <3> QED BY <2>3, <3>1, <3>2
  <2> QED BY <1>0, <2>2, <2>5, AddNextMoves
<1>5. ASSUME NEW n \in Nodes, CallRemove(n)
      PROVE  Lists(L)' \/ \E M : Lists(M)' /\ Moved(L, M)
  BY <1>0, <1>5, RemoveMoves DEF CallRemove
<1>6. ASSUME NEW h \in Heads, right[h] # Null, Remove(right[h])
      PROVE  \E M : Lists(M)' /\ Moved(L, M)
  <2>1. 0 \in 0..Len(L[h]) /\ Len(L[h]) \in Nat /\ At(L[h], h, 0) = h
    BY <1>0, OnLists DEF At
  <2>2. right[h] = IF 0 = Len(L[h]) THEN Null ELSE L[h][0 + 1]
    <3>1. right[At(L[h], h, 0)] = IF 0 = Len(L[h]) THEN Null ELSE L[h][0 + 1]
      BY <1>0, <2>1, OnLists
    <3> QED BY <2>1, <3>1
  <2>3. 1 \in 1..Len(L[h]) /\ right[h] = L[h][1]
    BY <1>6, <2>1, <2>2
  <2> QED BY <1>0, <1>6, <2>3, TakeMoves
<1>7. ASSUME NEW h \in Heads, DequeueFirst(h)
      PROVE  \E M : Lists(M)' /\ Moved(L, M)
  BY <1>6, <1>7 DEF DequeueFirst
<1>8. CASE DeleteOne
  <2>1. doomed \in Heads /\ right[doomed] # Null /\ Remove(right[doomed])
    BY <1>0, <1>8 DEF DeleteOne, DeletesAll, ListTypeOK
  <2> QED BY <1>6, <2>1
<1>9. ASSUME NEW h \in Heads, DeleteBegin(h) PROVE Lists(L)'
  BY <1>s, <1>9 DEF DeleteBegin
<1>10. CASE DeleteEnd
  BY <1>s, <1>10 DEF DeleteEnd
<1>11. CASE UNCHANGED listVars
  BY <1>s, <1>11 DEF listVars
<1> QED BY <1>1, <1>2, <1>3, <1>4, <1>5, <1>7, <1>8, <1>9, <1>10, <1>11 DEF ListNext

\* A move between the sequences behind the heads is a step of ListView.
LEMMA MovesNext ==
  ASSUME NEW L, NEW M, Lists(L), Lists(M)', Moved(L, M)
  PROVE  View!Next
<1>1. [h \in Heads |-> Items(h)] = L
  BY ItemsOfLists
<1>2. ([h \in Heads |-> Items(h)])' = M
  BY ItemsOfListsNext
<1> QED BY <1>1, <1>2 DEF Moved, View!Next, View!Put, View!Take, View!Listed

HasLists == \E L : Lists(L)

LEMMA InitLists == ListInit => HasLists /\ View!Init
<1> SUFFICES ASSUME ListInit PROVE HasLists /\ View!Init
  OBVIOUS
<1> DEFINE L == [h \in Heads |-> <<>>]
<1>1. L \in [Heads -> Seq(Nodes)] /\ \A h \in Heads : L[h] = <<>> /\ Len(L[h]) = 0
  OBVIOUS
<1> HIDE DEF L
<1>2. \A h \in Heads : Linked(L[h], h)
  BY <1>1 DEF Linked, At, ListInit, Cells
<1>3. Lists(L)
  BY <1>1, <1>2, CellsAssumption DEF Lists, Apart, Ordered
<1>4. [h \in Heads |-> Items(h)] = L
  BY <1>3, ItemsOfLists
<1>5. HasLists
  BY <1>3 DEF HasLists
<1> QED BY <1>4, <1>5 DEF View!Init, L

LEMMA StepLists ==
  ListInv /\ HasLists /\ [ListNext]_listVars => HasLists' /\ [View!Next]_([h \in Heads |-> Items(h)])
<1> SUFFICES ASSUME ListInv, HasLists, [ListNext]_listVars
             PROVE  HasLists' /\ [View!Next]_([h \in Heads |-> Items(h)])
  OBVIOUS
<1>1. PICK L : Lists(L)
  BY DEF HasLists
<1>2. CASE Lists(L)'
  <2>1. [h \in Heads |-> Items(h)] = L
    BY <1>1, ItemsOfLists
  <2>2. ([h \in Heads |-> Items(h)])' = L
    BY <1>2, ItemsOfListsNext
  <2>3. HasLists'
    BY <1>2 DEF HasLists
  <2> QED BY <2>1, <2>2, <2>3
<1>3. ASSUME NEW M, Lists(M)', Moved(L, M) PROVE HasLists' /\ View!Next
  <2>1. View!Next
    BY <1>1, <1>3, MovesNext
  <2> QED BY <1>3, <2>1 DEF HasLists
<1> QED BY <1>1, <1>2, <1>3, StepMoves

\* glthread implements ListView: whatever the calls and however long, each one
\* puts one node where its list wants it or takes one out, and no other node
\* moves or is lost.
THEOREM ListImplementsView == ListSpec => ListKept
<1>1. ListInit => HasLists /\ View!Init
  BY InitLists
<1>2. ListInv /\ HasLists /\ [ListNext]_listVars => HasLists' /\ [View!Next]_([h \in Heads |-> Items(h)])
  BY StepLists
<1> QED BY <1>1, <1>2, ListAlways, PTL DEF ListSpec, ListKept, View!Spec
================================================================================
