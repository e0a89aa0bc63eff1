--------------------------------- MODULE GlThread -------------------------------
(****************************************************************************)
(* gluethread/glthread.c: the intrusive list of the command parser.  A cell *)
(* is a glthread_t, the head of a list or the glue of a node; left and      *)
(* right are its two pointers.  One action per function that writes a       *)
(* pointer; delete_glthread_list takes one step per turn of its loop.       *)
(****************************************************************************)
EXTENDS Integers, Sequences, FiniteSets

CONSTANTS Nodes,        \* the cells that callers put into lists
          Heads,        \* the heads of lists
          SortedHeads,  \* heads of the lists filled by priority alone
          Null,
          Key           \* the number of a node that comp_fn compares

ASSUME CellsAssumption ==
  /\ IsFiniteSet(Nodes)
  /\ Nodes \cap Heads = {}
  /\ Null \notin Nodes \cup Heads
  /\ SortedHeads \subseteq Heads
ASSUME KeyAssumption == Key \in [Nodes -> Int]

VARIABLES left, right,
          doomed,  \* the head delete_glthread_list works on, or Null
          saved    \* the _glthread_ptr of its loop

listVars == <<left, right, doomed, saved>>

Cells == Nodes \cup Heads

\* init_glthread of every cell.
ListInit ==
  /\ left = [c \in Cells |-> Null]
  /\ right = [c \in Cells |-> Null]
  /\ doomed = Null /\ saved = Null

\* IS_QUEUED_UP_IN_THREAD, and the walk of ITERATE_GLTHREAD_BEGIN behind head h.
Queued(c) == ~(right[c] = Null /\ left[c] = Null)

Reached(h) ==
  LET f[i \in 0..Cardinality(Nodes) + 1] ==
        IF i = 0 THEN h ELSE IF f[i - 1] = Null THEN Null ELSE right[f[i - 1]]
  IN f
Items(h) ==
  LET f == Reached(h)
  IN [i \in 1..Cardinality({j \in 1..Cardinality(Nodes) + 1 : f[j] # Null}) |-> f[i]]

\* The cell of the walk after which a new one goes: the last of those before
\* the first of those in `stops`.
CellBefore(h, stops) ==
  LET s == Items(h)
      n == {i \in 1..Len(s) : \A j \in 1..i : s[j] \notin stops}
  IN IF n = {} THEN h ELSE s[Cardinality(n)]

(****************************************************************************)
(* Faulty variants of the operations below: near misses of the code, not    *)
(* part of the specification, that the properties tell from it.             *)
(****************************************************************************)
\* The old successor of c still points back at c.
AddNextHalf(c, n) ==
  /\ right' = [right EXCEPT ![c] = n, ![n] = right[c]]
  /\ left' = [left EXCEPT ![n] = c]

\* A node goes before its equals.
PlaceBeforeEquals(h, n) == CellBefore(h, {c \in Nodes : Key[n] <= Key[c]})

\* The loop follows the pointer of the node it has just removed.
DeleteFollowsRemoved ==
  /\ doomed # Null /\ saved # Null
  /\ left' = [c \in Cells |-> IF c = saved THEN Null ELSE IF c = right[saved] THEN left[saved] ELSE left[c]]
  /\ right' = [c \in Cells |-> IF c = saved THEN Null ELSE IF c = left[saved] THEN right[saved] ELSE right[c]]
  /\ saved' = right'[saved]
  /\ UNCHANGED doomed

(****************************************************************************)
(* The list operations.                                                     *)
(****************************************************************************)
\* glthread_add_next(c, n): at the end of a list nothing is written to the
\* right pointer of n, which is null already as n is in no list.
AddNext(c, n) ==
  /\ right' = [right EXCEPT ![c] = n, ![n] = right[c]]
  /\ left' = [x \in Cells |-> IF x = n THEN c ELSE IF x = right[c] THEN n ELSE left[x]]

\* glthread_add_before(c, n): before the head of a list, n is out of its reach.
AddBefore(c, n) ==
  /\ right' = [x \in Cells |-> IF x = n THEN c ELSE IF x = left[c] THEN n ELSE right[x]]
  /\ left' = [left EXCEPT ![c] = n, ![n] = left[c]]

\* remove_glthread(n): the neighbours are joined, and n is left with no pointers
\* whichever neighbours it had.
Remove(n) ==
  /\ left' = [c \in Cells |-> IF c = n THEN Null ELSE IF c = right[n] THEN left[n] ELSE left[c]]
  /\ right' = [c \in Cells |-> IF c = n THEN Null ELSE IF c = left[n] THEN right[n] ELSE right[c]]

\* The end of the list, where glthread_add_last inserts.
LastOf(h) == CellBefore(h, {})

\* Where glthread_priority_insert inserts: its case of one node and its loop
\* stop at the first node that comp_fn puts after n.
Place(h, n) == CellBefore(h, {c \in Nodes : Key[n] < Key[c]})

(****************************************************************************)
(* The calls.  A node is inserted when it is in no list.                    *)
(****************************************************************************)
Idle == doomed = Null /\ UNCHANGED <<doomed, saved>>
Plain(c) == c \in Heads \ SortedHeads \/ \E h \in Heads \ SortedHeads : \E i \in 1..Len(Items(h)) : Items(h)[i] = c

CallAddNext(c, n) == Idle /\ ~Queued(n) /\ Plain(c) /\ AddNext(c, n)
CallAddBefore(c, n) == Idle /\ ~Queued(n) /\ Plain(c) /\ AddBefore(c, n)
AddLast(h, n) ==
  /\ Idle /\ ~Queued(n) /\ h \notin SortedHeads
  /\ \E c \in Cells \ {n} : c = LastOf(h) /\ AddNext(c, n)

\* A head that only has something before it is not IS_GLTHREAD_LIST_EMPTY, and
\* the code would then insert after a null pointer.
PriorityInsert(h, n) ==
  /\ Idle /\ ~Queued(n)
  /\ ~(left[h] # Null /\ right[h] = Null)
  /\ \E c \in Cells \ {n} : c = Place(h, n) /\ AddNext(c, n)

CallRemove(n) == Idle /\ Remove(n)
DequeueFirst(h) == Idle /\ right[h] # Null /\ Remove(right[h])

\* delete_glthread_list: the loop has read the right pointer of a node before
\* it removes the node.
DeleteBegin(h) ==
  /\ doomed = Null
  /\ doomed' = h /\ saved' = right[h]
  /\ UNCHANGED <<left, right>>
DeleteOne ==
  /\ doomed # Null /\ saved # Null
  /\ Remove(saved)
  /\ saved' = right[saved]
  /\ UNCHANGED doomed
DeleteEnd ==
  /\ doomed # Null /\ saved = Null
  /\ doomed' = Null
  /\ UNCHANGED <<left, right, saved>>

ListNext ==
  \/ \E n \in Nodes :
       \/ \E c \in Cells \ {n} : CallAddNext(c, n) \/ CallAddBefore(c, n)
       \/ \E h \in Heads : AddLast(h, n) \/ PriorityInsert(h, n)
       \/ CallRemove(n)
  \/ \E h \in Heads : DequeueFirst(h) \/ DeleteBegin(h)
  \/ DeleteOne
  \/ DeleteEnd

ListSpec == ListInit /\ [][ListNext]_listVars

(****************************************************************************)
(* Properties.                                                              *)
(****************************************************************************)
\* Type invariant: a pointer names a cell or nothing.
ListTypeOK ==
  /\ left \in [Cells -> Cells \cup {Null}]
  /\ right \in [Cells -> Cells \cup {Null}]
  /\ doomed \in Heads \cup {Null}
  /\ saved \in Cells \cup {Null}

\* The two directions of the list are each other's inverse after every
\* operation: no cell keeps a pointer to one that was removed, so that a node
\* which glthread_add_next appends without touching its right pointer ends the
\* list.
LinksAgree == \A a, b \in Cells : right[a] = b <=> left[b] = a

\* The loop of delete_glthread_list is always at the first node that is left,
\* whatever its removals do to the pointers, and so ends with an empty list.
DeletesAll == doomed # Null => saved = right[doomed]

\* glthread keeps the promise of ListView: every call inserts or takes out one
\* node, where ListView says, and disturbs no other.
View == INSTANCE ListView WITH items <- [h \in Heads |-> Items(h)]
ListKept == View!Spec
================================================================================
