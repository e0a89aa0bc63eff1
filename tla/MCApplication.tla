------------------------------ MODULE MCApplication ------------------------------
(****************************************************************************)
(* The instances of three parts of the process that do not interact,        *)
(* checked side by side: the driver of test scripts, the receive buffer and *)
(* the history of commands.                                                 *)
(****************************************************************************)
EXTENDS UtParser, RecvBuffer, CmdHistory

VARIABLE part

appVars == <<utVars, recvVars, historyVars, part>>

AppInit == UtInit /\ RecvInit /\ HistoryInit /\ part \in {"driver", "receive", "history"}
Driver == part = "driver" /\ UtNext /\ UNCHANGED <<recvVars, historyVars>>
Receivers == part = "receive" /\ RecvNext /\ UNCHANGED <<utVars, historyVars>>
History == part = "history" /\ HistoryNext /\ UNCHANGED <<utVars, recvVars>>
AppNext == UNCHANGED part /\ (Driver \/ Receivers \/ History)
AppSpec == AppInit /\ [][AppNext]_appVars

\* A text of one line with a number inside it, and one of two lines with the
\* number where string_fetch_integer does not see it.
OneLine == << <<"w", "7", "x">> >>
TwoLines == << <<"x">>, <<"7">> >>
Outputs == {OneLine, TwoLines}
NumberWords == [w \in {"7"} |-> 7]
CommandOf(show, outs, ok) == [show |-> show, outs |-> outs, ok |-> ok]
ScriptCmds == {
  CommandOf(TRUE, <<OneLine>>, TRUE), CommandOf(TRUE, <<>>, TRUE), CommandOf(TRUE, <<TwoLines, OneLine>>, TRUE),
  CommandOf(FALSE, <<TwoLines>>, TRUE), CommandOf(FALSE, <<>>, TRUE), CommandOf(TRUE, <<OneLine>>, FALSE) }
================================================================================
