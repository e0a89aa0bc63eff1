--------------------------------- MODULE ListView -------------------------------
(****************************************************************************)
(* What glthread promises its callers: every head has a sequence of nodes   *)
(* behind it, and an operation inserts one node or takes one node out.  In  *)
(* a list that is filled by priority alone a node goes behind all those     *)
(* that are no worse, so equal nodes keep the order in which they came.     *)
(****************************************************************************)
EXTENDS Integers, Sequences, FiniteSets

CONSTANTS Nodes, Heads, SortedHeads, Key

VARIABLE items

Listed(n) == \E h \in Heads : \E i \in 1..Len(items[h]) : items[h][i] = n

PutAt(s, i, n) == SubSeq(s, 1, i) \o <<n>> \o SubSeq(s, i + 1, Len(s))
TakeFrom(s, i) == SubSeq(s, 1, i - 1) \o SubSeq(s, i + 1, Len(s))

NoWorse(s, n) == Cardinality({i \in 1..Len(s) : Key[s[i]] <= Key[n]})

\* What list h may be after one operation, when it is s before it.
Put(h, s) ==
  \E n \in Nodes : \E i \in 0..Len(s) :
    /\ h \in SortedHeads => i = NoWorse(s, n)
    /\ ~Listed(n)
    /\ items' = [items EXCEPT ![h] = PutAt(s, i, n)]
Take(h, s) == \E i \in 1..Len(s) : items' = [items EXCEPT ![h] = TakeFrom(s, i)]

Init == items = [h \in Heads |-> <<>>]
Next == \E h \in Heads : LET s == items[h] IN Put(h, s) \/ Take(h, s)
Spec == Init /\ [][Next]_items
================================================================================
