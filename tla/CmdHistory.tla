-------------------------------- MODULE CmdHistory -------------------------------
(****************************************************************************)
(* The history of the command parser: record_command appends the lines that *)
(* were typed to a file which outlives the process, show_history_callback   *)
(* reads it into an array of offsets and runs the line that is chosen, and  *)
(* repeat runs the last line again.  Of a line only matters whether it is   *)
(* `show history`, may load a file of commands (`config load`, and `run ut` *)
(* with a script that does), or neither; and whether a token of it, or of   *)
(* a line that it runs, had several matches: the answer to "Choice", a      *)
(* number alone, is then read to its end into the buffer of the typed line. *)
(****************************************************************************)
EXTENDS Integers, Sequences, FiniteSets

CONSTANTS MaxSaved,                 \* MAX_SAVED_CMDS
          MaxTyped, MaxProcesses    \* bounds: lines typed, and processes

ASSUME HistoryAssumption == MaxSaved \in Nat \ {0} /\ MaxTyped \in Nat /\ MaxProcesses \in Nat \ {0}

LineKinds == {"plain", "load", "history"}
Recordable == LineKinds \cup {"blank"}

VARIABLES records,                \* CMD_HIST_RECORD_FILE
          cmd_counter,            \* the lines this process has recorded
          cmd_recording_enabled,
          last_command,           \* last_command_input_buffer
          parser_fate,            \* "up", or "overran" the array of offsets
          process,                \* which process it is
          typed,                  \* every line typed, and what became of it
          reloaded                \* repeat has loaded a file of commands

historyVars == <<records, cmd_counter, cmd_recording_enabled, last_command, parser_fate, process, typed, reloaded>>

HistoryInit ==
  /\ records = <<>> /\ cmd_counter = 0 /\ cmd_recording_enabled = TRUE
  /\ last_command = "none" /\ parser_fate = "up"
  /\ process = 1 /\ typed = <<>> /\ reloaded = FALSE

\* show history has an offset for every line of the file and one for its end.
Overruns(l) == l = "history" /\ Len(records) + 1 > MaxSaved

\* Whether a line, or the line of the history it runs in turn, loads a file of
\* commands: a file that is not there changes nothing.
MayLoad(l) ==
  IF l = "load" \/ (l = "history" /\ \E i \in 1..Len(records) : records[i] = "load")
  THEN BOOLEAN ELSE {FALSE}

(****************************************************************************)
(* Faulty variants of the operations below: near misses of the code, not    *)
(* part of the specification, that the properties tell from it.             *)
(****************************************************************************)
\* Recording stays off after a file was loaded.
EnabledAfterNot(loaded) == cmd_recording_enabled /\ ~loaded

(****************************************************************************)
(* One turn of command_parser's loop.                                       *)
(****************************************************************************)
Recorded(ok, loaded) == ok /\ cmd_recording_enabled /\ ~loaded /\ cmd_counter < MaxSaved
EnabledAfter(loaded) == TRUE

\* cons_input_buffer when the line has run: the newline behind the answer, if
\* there was one.  record_command writes the buffer and a newline of its own.
LeftInBuffer(l, asked) == IF asked THEN "blank" ELSE l
Record(l, asked) == IF asked THEN <<"blank", "blank">> ELSE <<l>>

TypeCommand(l, ok, asked) ==
  /\ parser_fate = "up" /\ Len(typed) < MaxTyped
  /\ ~Overruns(l)
  /\ \E loaded \in MayLoad(l) :
       /\ typed' = Append(typed, [line |-> l, ok |-> ok, asked |-> asked, loaded |-> loaded,
                                 process |-> process])
       /\ IF Recorded(ok, loaded)
          THEN records' = records \o Record(l, asked) /\ cmd_counter' = cmd_counter + 1
          ELSE UNCHANGED <<records, cmd_counter>>
       /\ cmd_recording_enabled' = EnabledAfter(loaded)
  /\ last_command' = LeftInBuffer(l, asked)
  /\ UNCHANGED <<parser_fate, process, reloaded>>

\* repeat goes round the loop early.
RepeatCommand ==
  /\ parser_fate = "up" /\ last_command # "none" /\ ~Overruns(last_command)
  /\ \E loaded \in MayLoad(last_command) :
       /\ cmd_recording_enabled' = (cmd_recording_enabled /\ ~loaded)
       /\ reloaded' = (reloaded \/ loaded)
  /\ UNCHANGED <<records, cmd_counter, last_command, parser_fate, process, typed>>

HistoryOverruns ==
  /\ parser_fate = "up" /\ Overruns("history")
  /\ parser_fate' = "overran"
  /\ UNCHANGED <<records, cmd_counter, cmd_recording_enabled, last_command, process, typed, reloaded>>

\* The process ends, and the next one finds the file.
NextProcess ==
  /\ process < MaxProcesses
  /\ process' = process + 1
  /\ cmd_counter' = 0 /\ cmd_recording_enabled' = TRUE
  /\ last_command' = "none" /\ parser_fate' = "up"
  /\ UNCHANGED <<records, typed, reloaded>>

HistoryNext ==
  \/ \E l \in LineKinds, asked \in BOOLEAN : TypeCommand(l, TRUE, asked)
  \/ \E asked \in BOOLEAN : TypeCommand("plain", FALSE, asked)
  \/ RepeatCommand \/ HistoryOverruns \/ NextProcess

HistorySpec == HistoryInit /\ [][HistoryNext]_historyVars

(****************************************************************************)
(* Properties.                                                              *)
(****************************************************************************)
\* The file has every complete line that was typed, once and in order, over any
\* number of processes, but the loads of a file and what a process types
\* beyond MAX_SAVED_CMDS; two blank lines stand for a line that asked "Choice";
\* unless repeat has loaded a file, for then the next line is missing too.
Kept(i) ==
  /\ typed[i].ok /\ ~typed[i].loaded
  /\ Cardinality({j \in 1..i : typed[j].process = typed[i].process /\ typed[j].ok /\ ~typed[j].loaded}) <= MaxSaved
KeptUpTo(i) == {j \in 1..i : Kept(j)}
AskedUpTo(i) == {j \in KeptUpTo(i) : typed[j].asked}
LastOf(i) == Cardinality(KeptUpTo(i)) + Cardinality(AskedUpTo(i))
HistoryHasTyped ==
  ~reloaded =>
    /\ Len(records) = LastOf(Len(typed))
    /\ \A i \in KeptUpTo(Len(typed)) :
         IF typed[i].asked
         THEN records[LastOf(i) - 1] = "blank" /\ records[LastOf(i)] = "blank"
         ELSE records[LastOf(i)] = typed[i].line
================================================================================
