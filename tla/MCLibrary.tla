-------------------------------- MODULE MCLibrary -------------------------------
(****************************************************************************)
(* The instances of the parts of the two libraries that do not interact,    *)
(* checked side by side: `part` says which of them a behaviour exercises.   *)
(****************************************************************************)
EXTENDS ByteCircularBuffer, GlThread, SerializeBytes, StringUtil

VARIABLE part

libVars == <<vars, listVars, serVars, tokenVars, textVars, part>>

LibInit ==
  /\ Init /\ ListInit /\ SerInit /\ TokenInit /\ TextInit
  /\ part \in {"ring", "list", "serialize", "tokens", "text"}

Ring == part = "ring" /\ Next /\ UNCHANGED <<listVars, serVars, tokenVars, textVars>>
List == part = "list" /\ ListNext /\ UNCHANGED <<vars, serVars, tokenVars, textVars>>
Serializer == part = "serialize" /\ SerNext /\ UNCHANGED <<vars, listVars, tokenVars, textVars>>
Tokens == part = "tokens" /\ TokenNext /\ UNCHANGED <<vars, listVars, serVars, textVars>>
Text == part = "text" /\ TextNext /\ UNCHANGED <<vars, listVars, serVars, tokenVars>>

LibNext == UNCHANGED part /\ (Ring \/ List \/ Serializer \/ Tokens \/ Text)
LibSpec == LibInit /\ [][LibNext]_libVars

\* Two pairs of nodes that compare equal.
NodeKey == [n \in Nodes |-> IF n \in {"n1", "n2"} THEN 1 ELSE 2]

\* A double needs the memory of the first value twice doubled at once.
TypeSizes == [char |-> 1, int |-> 2, float |-> 2, double |-> 3, tlv |-> 2]

Characters == {"a", "b", " ", "\t", ">", "$", "1", "7"}

\* Lines for the tokeniser: all of up to two characters, those with as many words as fit and
\* with one more, and prompts, which are cut at ">".
Blanks == {" ", "\t"}
UpTo(S, n) == UNION {[1..k -> S] : k \in 0..n}
TokenLines == UpTo({"a", " ", "\t"}, 2) \cup
  { <<"a", "b", " ", "a">>, <<"a", " ", "b", "b">>, <<"a", " ", "a", " ", "b">>,
    <<" ", "a", " ", " ", "b", "\t">>, <<"a", " ", "b", " ", "b", " ", "a">>,
    <<"a", ">", " ", "b", "b">>, <<"b", "b", ">">>, <<">">> }

\* Lines with every arrangement of the variable, up to two of them.
Variable == <<"$", "1">>
ScriptTexts == UpTo({"$", "1", "a"}, 5)
Values == {<<"7">>, <<"7", "7">>}
================================================================================
