-------------------------------- MODULE CliParser -------------------------------
(****************************************************************************)
(* The command parser: a line of tokens is matched against the tree of      *)
(* parameters from the cursor on, the values of the leaves it meets are     *)
(* collected in tlv_buff, and the callback of the last parameter is called  *)
(* with them.  A command can leave the cursor below the root (a mode): the  *)
(* values on the way to it then stay in the buffer, under a checkpoint, for *)
(* the commands typed in the mode.                                          *)
(* Callbacks and files run lines inside lines; frames is the stack of them. *)
(* Errors that end the process or corrupt its memory end the execution:     *)
(* fate says which one.                                                     *)
(****************************************************************************)
EXTENDS SerializeBuffer

CONSTANTS Params, Root, Config, DoHook,        \* the tree: its parameters, and
          Kind, Name, Handler, Parent,         \* of each the fields of param_t,
          Options, Caps,                       \* its children, which of "/", "?", "." it has,
          Branch, Path,                        \* the child of Root above it, the leaves on the way
          Accepts,                             \* tokens the validation of a leaf lets pass
          Abbrev,                              \* tokens that are proper prefixes of a name
          Lines, FileLines,                    \* lines that are typed, and that files hold
          MaxFrames, MaxFile, MaxUnits,        \* bounds: nesting of lines, lines of a file,
                                               \* units in the buffer when a line is typed
          Nil                                  \* no parameter, no value

Leaf(p) == Kind[p] = "LEAF"
AllLeaves == {p \in Params : Leaf(p)}

\* Branch and Path are what the walk along the parents gives; the last line
\* is what libcli_register_param, support_cmd_negation and init_libcli make of
\* options.
ASSUME TreeAssumption ==
  /\ Root \in Params /\ Config \in Params /\ DoHook \in Params
  /\ Nil \notin Params /\ Nil \notin STRING /\ "CMDCODE" \notin Params
  /\ Root # DoHook /\ Config \notin {Root, DoHook}
  /\ Kind \in [Params -> {"CMD", "LEAF", "NO_CMD"}]
  /\ Handler \in [Params -> {"none", "plain", "config", "history", "repeat", "exit", "server",
                             "show_server"}]
  /\ Options \in [Params -> SUBSET (Params \ {Root, DoHook})]
  /\ Caps \in [Params -> SUBSET {"/", "?", "."}] /\ "/" \notin Caps[DoHook]
  /\ Kind[Root] = "CMD" /\ Kind[DoHook] = "CMD"
  /\ Handler[Root] = "none" /\ Handler[DoHook] = "none"
  /\ Path \in [Params -> Seq(AllLeaves)] /\ Path[Root] = <<>> /\ Path[DoHook] = <<>>
  /\ \A p \in Params \ {Root, DoHook} :
       /\ Parent[p] \in Params \ {DoHook}
       /\ Path[p] = IF Leaf(p) THEN Append(Path[Parent[p]], p) ELSE Path[Parent[p]]
       /\ Branch[p] = IF Parent[p] = Root THEN p ELSE Branch[Parent[p]]
       /\ Leaf(p) => \A i \in 1..Len(Path[Parent[p]]) : Path[Parent[p]][i] # p
  /\ \A p \in Params : \A q \in Options[p] :
       Parent[q] = IF p = DoHook THEN Root ELSE IF Kind[p] = "NO_CMD" THEN Parent[p] ELSE p
\* init_libcli registers config and repeat at the root, and nothing below
\* repeat; it gives the do hook commands without a callback.
ASSUME ConfigAssumption ==
  /\ \A p \in Params : Handler[p] = "config" <=> p = Config
  /\ Parent[Config] = Root /\ Kind[Config] = "CMD"
ASSUME RepeatAssumption ==
  \A p \in Params : Handler[p] = "repeat" => Parent[p] = Root /\ Kind[p] = "CMD" /\ Caps[p] = {}
ASSUME DoHookAssumption ==
  \A p \in Options[DoHook] : Kind[p] = "CMD" /\ Handler[p] = "none"
\* support_cmd_negation asserts that it works below config.
ASSUME NegationAssumption ==
  \A p \in Params : Kind[p] = "NO_CMD" => Name[p] = "no" /\ Parent[p] # Root /\ Branch[p] = Config
ASSUME LinesAssumption ==
  /\ Lines \subseteq Seq(STRING) /\ FileLines \subseteq Seq(STRING)
  /\ MaxFrames \in Nat \ {0} /\ MaxFile \in Nat /\ MaxUnits \in Nat

\* main.cpp registers its callbacks below the leaf with the name of a server,
\* and those that configure one below leaves they know.
ServerLeaves ==
  {"tcp-server-name", "tcp-server-addr", "tcp-server-port", "remote-addr", "remote-port"}
ASSUME ServerAssumption ==
  \A p \in Params :
    /\ Handler[p] \in {"server", "show_server"} =>
         \E i \in 1..Len(Path[p]) : Name[Path[p][i]] = "tcp-server-name"
    /\ Handler[p] = "server" => \A i \in 1..Len(Path[p]) : Name[Path[p][i]] \in ServerLeaves

VARIABLES
  fate,       \* "up", "exit", or the error that ended the process
  pc,         \* what the parser does next
  cursor,     \* cmd_tree_cursor
  tlv_buff,
  holder,     \* value_holder of each leaf
  frames,     \* the lines being run, the innermost last
  line, todo, \* the innermost line, and its tokens not yet matched
  param,      \* the parameter matched last
  op,         \* enable_or_disable
  last,       \* last_command_input_buffer
  clean       \* no command has spoiled the buffer since the prompt of the root

vars == <<fate, pc, cursor, tlv_buff, holder, frames, line, todo, param, op, last, clean>>

Faults == {"mode_at_root", "no_parent", "not_a_leaf", "impossible", "underrun", "unknown_leaf",
           "no_name"}

Frame(kind, l) == [kind |-> kind, old |-> Nil, left |-> 0, src |-> l]
Top == frames[Len(frames)]
Below == SubSeq(frames, 1, Len(frames) - 1)
WithTop(f) == Append(Below, f)

Running(p) == fate = "up" /\ pc = p
Fault(why) == fate' = why /\ UNCHANGED <<pc, cursor, tlv_buff, holder, frames, line, todo, param,
                                         op, last, clean>>

\* A unit of the buffer: a leaf and its value, or the code of a command.
Code(p) == <<"CMDCODE", p>>
Values(p) == [i \in 1..Len(Path[p]) |-> <<Path[p][i], holder[Path[p][i]]>>]

Init ==
  /\ fate = "up" /\ pc = "prompt" /\ cursor = Root
  /\ tlv_buff = NewBuffer
  /\ holder = [p \in AllLeaves |-> Nil]
  /\ frames = <<>> /\ line = <<>> /\ todo = <<>>
  /\ param = Root /\ op = "unknown" /\ last = <<>> /\ clean = TRUE

(****************************************************************************)
(* command_parser and parse_input_cmd: the line is typed, or comes from a   *)
(* callback; the built-in commands are tried before the tree.               *)
(* The unit-test runner, `run ut` with a file and a number, is left out.    *)
(****************************************************************************)
TypeLine(l) ==
  /\ Running("prompt") /\ Len(tlv_buff.b) <= MaxUnits /\ pc' = "dispatch"
  /\ line' = l /\ frames' = <<Frame("line", l)>>
  /\ UNCHANGED <<fate, cursor, tlv_buff, holder, todo, param, op, last, clean>>

IsDo(l) == Len(l) > 1 /\ l[1] = "do" /\ cursor # Root
IsRepeat(l) == Len(l) > 0 /\ (l[1] = "repeat" \/ l[1] \in Abbrev["repeat"])
IsLoad(l) == Len(l) = 3 /\ l[1] = "config" /\ l[2] = "load"
BuiltIn(l) == l \in {<<>>, <<"cd..">>, <<"cd">>, <<"cls">>} \/ IsDo(l) \/ IsRepeat(l) \/ IsLoad(l)

\* A line of blanks returns at once; the lines around it go on.  (Enter alone
\* is not even remembered.)
EmptyLine ==
  /\ Running("dispatch") /\ line = <<>>
  /\ frames' = Below /\ pc' = IF Len(frames) = 1 THEN "prompt" ELSE "finish"
  /\ last' = IF Len(frames) = 1 THEN <<>> ELSE last
  /\ UNCHANGED <<fate, cursor, tlv_buff, holder, line, todo, param, op, clean>>

\* build_tlv_buffer starts at the cursor.
Walk(from, tokens) == pc' = "walk" /\ param' = from /\ todo' = tokens /\ op' = "unknown"

TreeLine ==
  /\ Running("dispatch") /\ ~BuiltIn(line)
  /\ Walk(cursor, line)
  /\ UNCHANGED <<fate, cursor, tlv_buff, holder, frames, line, last, clean>>

DoLine ==
  /\ Running("dispatch") /\ IsDo(line) /\ cursor # DoHook
  /\ IF Branch[cursor] = Config
       THEN /\ frames' = WithTop([Top EXCEPT !.kind = "do", !.old = cursor])
            /\ cursor' = DoHook /\ tlv_buff' = Reset(tlv_buff)
            /\ Walk(DoHook, Tail(line))
       ELSE pc' = "finish" /\ UNCHANGED <<cursor, tlv_buff, frames, todo, param, op>>
  /\ UNCHANGED <<fate, holder, line, last, clean>>

\* parser_process_repeat_cmd: parse_input_cmd of the line before.
RepeatLine ==
  /\ Running("dispatch") /\ IsRepeat(line) /\ ~IsDo(line) /\ Len(frames) < MaxFrames
  /\ line' = last /\ frames' = Append(frames, Frame("line", last))
  /\ UNCHANGED <<fate, pc, cursor, tlv_buff, holder, todo, param, op, last, clean>>

GoUpLine ==
  /\ Running("dispatch") /\ line = <<"cd..">> /\ cursor # DoHook
  /\ cursor = Root \/ ~Leaf(cursor) \/ tlv_buff.b # <<>>
  /\ IF cursor = Root
       THEN UNCHANGED <<cursor, tlv_buff, holder>>
       ELSE /\ cursor' = Parent[cursor]
            /\ holder' = IF Leaf(cursor) THEN [holder EXCEPT ![cursor] = Nil] ELSE holder
            /\ tlv_buff' = IF cursor' = Root THEN Reset(tlv_buff)
                           ELSE IF Leaf(cursor) THEN Mark(Rewind(tlv_buff)) ELSE tlv_buff
  /\ pc' = "finish"
  /\ UNCHANGED <<fate, frames, line, todo, param, op, last, clean>>

GoTopLine ==
  /\ Running("dispatch") /\ line = <<"cd">> /\ cursor # DoHook /\ Kind[cursor] # "NO_CMD"
  /\ cursor' = Root
  /\ holder' = [p \in AllLeaves |-> IF \E i \in 1..Len(Path[cursor]) : Path[cursor][i] = p
                                    THEN Nil ELSE holder[p]]
  /\ tlv_buff' = IF cursor = Root THEN tlv_buff ELSE Reset(tlv_buff)
  /\ pc' = "finish"
  /\ UNCHANGED <<fate, frames, line, todo, param, op, last, clean>>

ClearScreenLine ==
  /\ Running("dispatch") /\ line = <<"cls">> /\ pc' = "finish"
  /\ UNCHANGED <<fate, cursor, tlv_buff, holder, frames, line, todo, param, op, last, clean>>

\* The do hook has no parent, "no" is no leaf, and a buffer that is empty
\* cannot be rewound.
DispatchFault ==
  /\ Running("dispatch")
  /\ \/ cursor = DoHook /\ (IsDo(line) \/ line \in {<<"cd..">>, <<"cd">>}) /\ Fault("no_parent")
     \/ line = <<"cd">> /\ Kind[cursor] = "NO_CMD" /\ Fault("not_a_leaf")
     \/ line = <<"cd..">> /\ Leaf(cursor) /\ tlv_buff.b = <<>> /\ Fault("underrun")

(****************************************************************************)
(* parse_file: every line goes to the tree; the buffer is reset before it.  *)
(****************************************************************************)
\* A reset below the root loses the values of the mode.
ResetInMode == clean' = (clean /\ Path[cursor] = <<>>)

LoadLine ==
  /\ Running("dispatch") /\ IsLoad(line)
  /\ \/ /\ Len(frames) < MaxFrames /\ pc' = "file"
        /\ frames' = Append(frames, [Frame("file", line) EXCEPT !.left = MaxFile])
        /\ tlv_buff' = Reset(tlv_buff) /\ ResetInMode
     \/ pc' = "finish" /\ UNCHANGED <<frames, tlv_buff, clean>>      \* it cannot be opened
  /\ UNCHANGED <<fate, cursor, holder, line, todo, param, op, last>>

FileLine(l) ==
  /\ Running("file") /\ Top.left > 0
  /\ frames' = WithTop([Top EXCEPT !.left = @ - 1])
  /\ tlv_buff' = Reset(tlv_buff) /\ ResetInMode
  /\ line' = l /\ Walk(cursor, l)
  /\ UNCHANGED <<fate, cursor, holder, last>>

EndOfFile ==
  /\ Running("file") /\ frames' = Below /\ pc' = "finish"
  /\ UNCHANGED <<fate, cursor, tlv_buff, holder, line, todo, param, op, last, clean>>

(****************************************************************************)
(* build_tlv_buffer: one token after the other.                             *)
(****************************************************************************)
\* find_matching_param: an exact match, or else what the token abbreviates;
\* of several the operator chooses one or none; without any, the leaf.
Commands(p) == {q \in Options[p] : ~Leaf(q)}
Exact(p, t) == {q \in Commands(p) : Name[q] = t}
Matching(p, t) ==
  IF Exact(p, t) # {} THEN Exact(p, t) ELSE {q \in Commands(p) : t \in Abbrev[Name[q]]}
Leaves(p, t) == IF Matching(p, t) = {} THEN {q \in Options[p] : Leaf(q)} ELSE {}
Several(s) == \E q, r \in s : q # r
Chooses == Several(Matching(param, Head(todo)))

\* The choice is read into the buffer of the typed line, which is forgotten.
Asked == [frames EXCEPT ![1].src = IF IsRepeat(@) THEN @ ELSE <<>>]

\* The next token is none of the built-in commands of the parameter.
Matches == Running("walk") /\ todo # <<>> /\ Head(todo) \notin Caps[param]

\* A faulty variant: the "no" of the mode negates, the one of the line does not.
MatchAfterNo ==
  /\ Matches /\ todo' = Tail(todo)
  /\ param' \in Matching(param, Head(todo))
  /\ op' = IF Kind[param] = "NO_CMD" THEN "disable" ELSE op
  /\ frames' = IF Chooses THEN Asked ELSE frames
  /\ UNCHANGED <<fate, pc, cursor, tlv_buff, holder, line, last, clean>>

MatchCommand ==
  /\ Matches /\ todo' = Tail(todo)
  /\ param' \in Matching(param, Head(todo))
  /\ op' = IF Kind[param'] = "NO_CMD" THEN "disable" ELSE op
  /\ frames' = IF Chooses THEN Asked ELSE frames
  /\ UNCHANGED <<fate, pc, cursor, tlv_buff, holder, line, last, clean>>

MatchLeaf ==
  /\ Matches /\ todo' = Tail(todo)
  /\ param' \in Leaves(param, Head(todo)) /\ Head(todo) \in Accepts[param']
  /\ holder' = [holder EXCEPT ![param'] = Head(todo)]
  /\ tlv_buff' = Collect(tlv_buff, <<param', Head(todo)>>)
  /\ UNCHANGED <<fate, pc, cursor, frames, line, op, last, clean>>

ChoiceRefused ==
  /\ Matches /\ Chooses /\ frames' = Asked /\ pc' = "finish"
  /\ UNCHANGED <<fate, cursor, tlv_buff, holder, line, todo, param, op, last, clean>>

\* Not found, not valid, tokens after a built-in, or at the end
\* a parameter without a callback.
Fails ==
  \/ /\ todo # <<>> /\ Head(todo) \notin Caps[param]
     /\ LET t == Head(todo) IN
          \/ Matching(param, t) = {} /\ Leaves(param, t) = {}
          \/ \E q \in Leaves(param, t) : t \notin Accepts[q]
  \/ todo # <<>> /\ Head(todo) \in Caps[param] /\ Len(todo) > 1
  \/ todo = <<>> /\ Handler[param] = "none"

WalkFails ==
  /\ Running("walk") /\ Fails /\ pc' = "finish"
  /\ UNCHANGED <<fate, cursor, tlv_buff, holder, frames, line, todo, param, op, last, clean>>

Ends(c) == Running("walk") /\ todo = <<c>> /\ c \in Caps[param]

\* A faulty variant: "?" moves the cursor and keeps the old checkpoint.
SubOptionsUnmarked ==
  /\ Ends("?") /\ param # DoHook
  /\ cursor' = param /\ pc' = "finish"
  /\ UNCHANGED <<fate, tlv_buff, holder, frames, line, todo, param, op, last, clean>>

\* "?": the cursor moves too.
SubOptions ==
  /\ Ends("?") /\ param # DoHook
  /\ tlv_buff' = Mark(tlv_buff) /\ cursor' = param /\ pc' = "finish"
  /\ UNCHANGED <<fate, holder, frames, line, todo, param, op, last, clean>>

Expand ==
  /\ Ends(".") /\ pc' = "finish"
  /\ UNCHANGED <<fate, cursor, tlv_buff, holder, frames, line, todo, param, op, last, clean>>

OpMode(p) == IF Branch[p] # Config THEN "operational" ELSE IF op = "disable" THEN op ELSE "enable"

\* A faulty variant: the checkpoint is set behind the code of the command.
EnterModeMarkedLate ==
  /\ Ends("/") /\ param # Root
  /\ op' = OpMode(param)
  /\ tlv_buff' = Mark(Collect(tlv_buff, Code(param))) /\ cursor' = param
  /\ pc' = IF Handler[param] = "none" THEN "finish" ELSE "handler"
  /\ UNCHANGED <<fate, holder, frames, line, todo, param, last, clean>>

EnterMode ==
  /\ Ends("/") /\ param # Root
  /\ op' = OpMode(param)
  /\ tlv_buff' = Collect(Mark(tlv_buff), Code(param)) /\ cursor' = param
  /\ pc' = IF Handler[param] = "none" THEN "finish" ELSE "handler"
  /\ UNCHANGED <<fate, holder, frames, line, todo, param, last, clean>>

Execute ==
  /\ Running("walk") /\ todo = <<>> /\ Handler[param] # "none"
  /\ op' = OpMode(param)
  /\ tlv_buff' = IF Handler[param] \in {"config", "repeat"} THEN tlv_buff
                 ELSE Collect(tlv_buff, Code(param))
  /\ pc' = "handler"
  /\ UNCHANGED <<fate, cursor, holder, frames, line, todo, param, last, clean>>

\* get_current_branch_hook refuses the root, and build_mode_console_name
\* climbs from the do hook to a null parent.
WalkFault ==
  \/ Ends("/") /\ param = Root /\ Fault("mode_at_root")
  \/ Ends("?") /\ param = DoHook /\ Fault("no_parent")

(****************************************************************************)
(* The callbacks.                                                           *)
(****************************************************************************)
Calls(h) == Running("handler") /\ Handler[param] = h

\* The units a callback loops over: all but the last.
Args == SubSeq(tlv_buff.b, 1, Len(tlv_buff.b) - 1)
Id(unit) == IF unit[1] = "CMDCODE" THEN "CMDCODE" ELSE Name[unit[1]]
HasStranger == \E i \in 1..Len(Args) : Id(Args[i]) \notin ServerLeaves
HasName == \E i \in 1..Len(Args) : Id(Args[i]) = "tcp-server-name"

PlainHandler ==
  /\ \/ Calls("plain")
     \/ Calls("server") /\ ~HasStranger /\ HasName
     \/ Calls("show_server") /\ HasName
  /\ pc' = "finish"
  /\ UNCHANGED <<fate, cursor, tlv_buff, holder, frames, line, todo, param, op, last, clean>>

\* assert(0) on a unit that is no leaf of these commands; a std::string
\* made from a null name.
HandlerFault ==
  \/ Calls("server") /\ HasStranger /\ Fault("unknown_leaf")
  \/ ((Calls("server") /\ ~HasStranger) \/ Calls("show_server")) /\ ~HasName /\ Fault("no_name")

\* config_mode_enter_handler marks whatever is in the buffer.
ConfigHandler ==
  /\ Calls("config") /\ pc' = "finish"
  /\ cursor' = Config /\ tlv_buff' = Mark(tlv_buff)
  /\ clean' = (clean /\ tlv_buff.b = <<>>)
  /\ UNCHANGED <<fate, holder, frames, line, todo, param, op, last>>

\* A line of the history file, which outlives the process, or none of them
\* (<<>>); repeat is never recorded.  It runs on top of the units of the
\* command that asked for it.
HistoryHandler(l) ==
  /\ Calls("history") /\ Len(frames) < MaxFrames /\ ~IsRepeat(l)
  /\ line' = l /\ frames' = Append(frames, Frame("line", l))
  /\ pc' = "dispatch" /\ clean' = FALSE
  /\ UNCHANGED <<fate, cursor, tlv_buff, holder, todo, param, op, last>>

HistoryRefused ==
  /\ Calls("history") /\ pc' = "finish"
  /\ UNCHANGED <<fate, cursor, tlv_buff, holder, frames, line, todo, param, op, last, clean>>

\* repeat in a file.
RepeatHandler ==
  /\ Calls("repeat") /\ Len(frames) < MaxFrames
  /\ line' = last /\ frames' = Append(frames, Frame("line", last)) /\ pc' = "dispatch"
  /\ UNCHANGED <<fate, cursor, tlv_buff, holder, todo, param, op, last, clean>>

ExitHandler ==
  /\ Calls("exit") /\ fate' = "exit"
  /\ UNCHANGED <<pc, cursor, tlv_buff, holder, frames, line, todo, param, op, last, clean>>

(****************************************************************************)
(* The end of a line.                                                       *)
(****************************************************************************)
\* After `do` the cursor goes back, and the buffer is filled again from the
\* values the leaves hold, unless the command has entered a mode.
DoReturnsBare ==                        \* a faulty variant: the buffer stays empty
  /\ Running("finish") /\ Top.kind = "do" /\ cursor = DoHook /\ Kind[Top.old] # "NO_CMD"
  /\ frames' = WithTop([Top EXCEPT !.kind = "line"])
  /\ cursor' = Top.old
  /\ UNCHANGED <<fate, pc, tlv_buff, holder, line, todo, param, op, last, clean>>

DoReturns ==
  /\ Running("finish") /\ Top.kind = "do" /\ cursor = DoHook /\ Kind[Top.old] # "NO_CMD"
  /\ frames' = WithTop([Top EXCEPT !.kind = "line"])
  /\ cursor' = Top.old
  /\ tlv_buff' \in Refills(tlv_buff, Values(Top.old))
  /\ UNCHANGED <<fate, pc, holder, line, todo, param, op, last, clean>>

DoEntersMode ==
  /\ Running("finish") /\ Top.kind = "do" /\ cursor \notin {DoHook, Root}
  /\ Branch[cursor] # Config
  /\ frames' = WithTop([Top EXCEPT !.kind = "line"])
  /\ UNCHANGED <<fate, pc, cursor, tlv_buff, holder, line, todo, param, op, last, clean>>

DoFault ==
  /\ Running("finish") /\ Top.kind = "do"
  /\ \/ cursor = DoHook /\ Kind[Top.old] = "NO_CMD" /\ Fault("not_a_leaf")
     \/ cursor \notin {DoHook, Root} /\ Branch[cursor] = Config /\ Fault("impossible")
     \/ cursor = Root /\ Fault("mode_at_root")

Settle == /\ tlv_buff' = IF cursor = Root THEN Reset(tlv_buff) ELSE RestoreBuffer(tlv_buff)
          /\ line' = <<>> /\ todo' = <<>> /\ param' = Root /\ op' = "unknown"

FinishFileLine ==
  /\ Running("finish") /\ Top.kind = "file"
  /\ Settle /\ pc' = "file"
  /\ UNCHANGED <<fate, cursor, holder, frames, last, clean>>

FinishLine ==
  /\ Running("finish") /\ Top.kind = "line"
  /\ Settle /\ frames' = Below
  /\ IF Len(frames) = 1
       THEN /\ pc' = "prompt" /\ last' = IF IsRepeat(Top.src) THEN last ELSE Top.src
            /\ clean' = (clean \/ cursor = Root)
       ELSE pc' = "finish" /\ UNCHANGED <<last, clean>>
  /\ UNCHANGED <<fate, cursor, holder>>

\* The process has ended, or a bound is reached: the one on nested lines, or
\* the one on units, which only "/" typed in the mode of config again and
\* again gets to.
AtBound ==
  \/ Running("prompt") /\ Len(tlv_buff.b) > MaxUnits
  \/ /\ Len(frames) = MaxFrames
     /\ Calls("repeat") \/ (Running("dispatch") /\ IsRepeat(line) /\ ~IsDo(line))
Rest == (fate # "up" \/ AtBound) /\ UNCHANGED vars

Next ==
  \/ \E l \in Lines : TypeLine(l) \/ HistoryHandler(l)
  \/ EmptyLine \/ TreeLine \/ DoLine \/ RepeatLine \/ GoUpLine \/ GoTopLine \/ ClearScreenLine
  \/ DispatchFault \/ LoadLine \/ (\E l \in FileLines : FileLine(l)) \/ EndOfFile
  \/ MatchCommand \/ MatchLeaf \/ ChoiceRefused \/ WalkFails
  \/ SubOptions \/ Expand \/ EnterMode \/ Execute
  \/ WalkFault \/ PlainHandler \/ HandlerFault \/ ConfigHandler \/ HistoryRefused \/ RepeatHandler
  \/ ExitHandler \/ DoReturns \/ DoEntersMode \/ DoFault \/ FinishFileLine \/ FinishLine \/ Rest

Spec == Init /\ [][Next]_vars

(****************************************************************************)
(* Properties.                                                              *)
(****************************************************************************)
Units == Params \X (STRING \cup {Nil}) \cup {"CMDCODE"} \X Params

\* The state has its types, and what the parser has collected fits in the
\* buffer, with the checkpoint below it (serialize_string, restore).
CliTypeOK ==
  /\ fate \in {"up", "exit"} \cup Faults
  /\ pc \in {"prompt", "dispatch", "file", "walk", "handler", "finish"}
  /\ cursor \in Params /\ param \in Params
  /\ holder \in [AllLeaves -> STRING \cup {Nil}]
  /\ tlv_buff.b \in Seq(Units) /\ tlv_buff.size \in Nat
  /\ Len(tlv_buff.b) * UnitSize <= tlv_buff.size
  /\ tlv_buff.checkpoint \in 0..Len(tlv_buff.b)
  /\ Len(frames) \in 0..MaxFrames
  /\ op \in {"unknown", "enable", "disable", "operational"} /\ clean \in BOOLEAN

\* Whenever the next line is awaited in a mode, the buffer holds the values of
\* the leaves on the way to the cursor, none of them forgotten, and returns to
\* them after every command typed there (parse_input_cmd, go_one_level_up, do).
BufferFitsCursor ==
  (fate = "up" /\ pc = "prompt" /\ clean) =>
     /\ tlv_buff.b = Values(cursor) /\ tlv_buff.checkpoint = Len(tlv_buff.b)
     /\ \A i \in 1..Len(Path[cursor]) : holder[Path[cursor][i]] # Nil

\* A callback gets the values of the leaves above its parameter, from the root
\* on, and the code of the command behind them, however much of the path was
\* typed in this line and however much in earlier modes (build_tlv_buffer).
HandlerSeesPath ==
  (fate = "up" /\ pc = "handler" /\ clean /\ Handler[param] \notin {"config", "repeat"}) =>
     tlv_buff.b = Append(Values(param), Code(param))

\* A command disables only if "no" is in its own line: the negation of one
\* line, of the mode it entered or of the line a callback runs is not inherited.
NegationIsTyped ==
  (pc = "handler" /\ op = "disable") =>
     \E i \in 1..Len(line) : line[i] \in {"no"} \cup Abbrev["no"]

\* Until something spoils the buffer, no command line drives a callback into
\* its assert(0), `do` into its impossible case, or `cd..` below the buffer.
CommandsSafe == clean => fate \notin {"unknown_leaf", "no_name", "impossible", "underrun"}

\* At the prompt no unit of the buffer is a command code: "we would not want
\* cmd code in subsequent comds in mode" (parser.c).
NoCodeInMode ==
  (fate = "up" /\ pc = "prompt") => \A i \in 1..Len(tlv_buff.b) : tlv_buff.b[i][1] # "CMDCODE"
================================================================================
