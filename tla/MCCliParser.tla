------------------------------- MODULE MCCliParser ------------------------------
(* The instance of CliParser that TLC checks: the tree of the application.  *)
EXTENDS CliParser, CliTree, FiniteSets

\* Only the leaf of "debug ut" is validated: the checks of the library by type
\* let every string pass.
TreeAccepts == [p \in TreeParams |-> IF p = "ut_enable" THEN {"enable", "disable"} ELSE STRING]

\* Of the tokens in the lines below, those that abbreviate a name.
NamePrefixes ==
  [n \in {r[4] : r \in AllRows} |->
     CASE n \in {"config", "console", "connect"} -> {"con"}
       [] n \in {"disable-conn-accept", "disable-client-listen"} -> {"disable"}
       [] n = "tcp-server" -> {"tcp"} [] n = "repeat" -> {"rep"} [] n = "cd.." -> {"cd"}
       [] OTHER -> {}]

\* No parameter has more children than options has room for.
ASSUME ChildrenFit == \A p \in TreeParams : Cardinality(TreeOptions[p]) <= MaxChildren

TypedLines == {
  <<>>, <<"con">>, <<"config", "/">>, <<"tcp", "s1", "?">>, <<"cd">>, <<"cd..">>,
  <<"config", "no", "tcp-server", "s2", "/">>, <<"no", "disable">>, <<"no", "?">>,
  <<"connect", "1.1.1.1", "?">>, <<"do", "show", "tcp-server", "s1">>, <<"do", "show", "/">>,
  <<"do", "?">>, <<"show", "history", "3">>, <<"do", "show", "history">>, <<"rep">>,
  <<"config", "load", "f">>, <<"connect", "1.1.1.1", "80">>, <<"debug", "ut", "on">>,
  <<"/">>, <<".">>, <<"cls">>, <<"run", "term">> }
HeldLines ==
  {<<>>, <<"connect", "1.1.1.1", "?">>, <<"config", "tcp-server", "s1", "/">>, <<"start">>,
   <<"repeat">>}

\* A holder is read only for a leaf on the way to the cursor, to the parameter
\* matched last or to a cursor that `do` will return to, and each of these came
\* there through the leaf, which wrote it; the others are dead.
Live == {cursor, param} \cup {frames[i].old : i \in {j \in 1..Len(frames) : frames[j].kind = "do"}}
View ==
  <<fate, pc, cursor, tlv_buff, frames, line, todo, param, op, last, clean,
    [p \in AllLeaves |-> IF \E q \in Live : \E i \in 1..Len(Path[q]) : Path[q][i] = p
                        THEN holder[p] ELSE Nil]>>
================================================================================
