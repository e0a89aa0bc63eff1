--------------------------------- MODULE CliTree --------------------------------
(****************************************************************************)
(* The tree of commands of the server application: the commands the library *)
(* registers in init_libcli, then those of main.cpp, in the order of the    *)
(* calls.  A row is a parameter: where it is registered, its identity, its  *)
(* kind, its name (the leaf_id of a leaf) and what its callback does.       *)
(****************************************************************************)
EXTENDS Integers, Sequences

LibRows == <<
  <<"ROOT", "show", "CMD", "show", "none">>,
  <<"show", "help", "CMD", "help", "plain">>,
  <<"show", "show_history", "CMD", "history", "history">>,
  <<"show_history", "no_of_commands", "LEAF", "N", "history">>,
  <<"show", "show_resgistered", "CMD", "registered", "none">>,
  <<"show_resgistered", "show_resgistered_cmds", "CMD", "commands", "plain">>,
  <<"ROOT", "debug", "CMD", "debug", "none">>,
  <<"debug", "debug_ut", "CMD", "ut", "none">>,
  <<"debug_ut", "ut_enable", "LEAF", "ut-enable", "plain">>,
  <<"debug", "debug_show", "CMD", "show", "none">>,
  <<"debug_show", "debug_show_cmdtree", "CMD", "cmdtree", "plain">>,
  <<"ROOT", "config", "CMD", "config", "config">>,
  <<"config", "load", "CMD", "load", "none">>,
  <<"load", "file_name", "LEAF", "file-name", "plain">>,
  <<"config", "supportsave", "CMD", "supportsave", "none">>,
  <<"supportsave", "supportsave_enable", "CMD", "enable", "plain">>,
  <<"ROOT", "clear", "CMD", "clear", "none">>,
  <<"ROOT", "run", "CMD", "run", "none">>,
  <<"run", "terminate", "CMD", "term", "exit">>,
  <<"run", "run_ut", "CMD", "ut", "none">>,
  <<"run_ut", "ut_file_path", "LEAF", "ut-file-name", "none">>,
  <<"ut_file_path", "tc_no", "LEAF", "tc-no", "plain">>,
  <<"ROOT", "repeat", "CMD", "repeat", "repeat">>,
  <<"config", "config_console", "CMD", "console", "none">>,
  <<"config_console", "config_console_name", "CMD", "name", "none">>,
  <<"config_console_name", "config_console_name_name", "LEAF", "cons-name", "plain">>,
  <<"ROOT", "cls", "CMD", "cls", "plain">>,
  <<"ROOT", "exit_cmd", "CMD", "cd..", "plain">>,
  <<"ROOT", "end_cmd", "CMD", "cd", "plain">> >>

ConfigRows == <<
  <<"config", "tcp_server", "CMD", "tcp-server", "none">>,
  <<"tcp_server", "server_name", "LEAF", "tcp-server-name", "server">>,
  <<"server_name", "connect", "CMD", "connect", "none">>,
  <<"connect", "remote_machine_addr", "LEAF", "remote-addr", "none">>,
  <<"remote_machine_addr", "remote_machine_port", "LEAF", "remote-port", "server">>,
  <<"server_name", "dis_conn_accept", "CMD", "disable-conn-accept", "server">>,
  <<"server_name", "disable_client_listen", "CMD", "disable-client-listen", "server">>,
  <<"server_name", "tcp_server_addr", "LEAF", "tcp-server-addr", "none">>,
  <<"tcp_server_addr", "tcp_server_port", "LEAF", "tcp-server-port", "server">>,
  <<"server_name", "start", "CMD", "start", "server">>,
  <<"server_name", "server_no", "NO_CMD", "no", "plain">>,
  <<"config", "config_no", "NO_CMD", "no", "plain">> >>

ShowRows == <<
  <<"show", "show_tcp_server", "CMD", "tcp-server", "none">>,
  <<"show_tcp_server", "show_server_name", "LEAF", "tcp-server-name", "show_server">> >>

Rows == LibRows \o ConfigRows \o ShowRows

\* The parameters that init_libcli makes without registering them.
RootParam == <<"NULL", "ROOT", "CMD", "ROOT", "none">>
DoHookParam == <<"NULL", "DO_HOOK", "CMD", "DO_HOOK", "none">>

AllRows == {Rows[i] : i \in 1..Len(Rows)} \cup {RootParam, DoHookParam}
TreeParams == {r[2] : r \in AllRows}
Row(p) == CHOOSE r \in AllRows : r[2] = p

TreeParent == [p \in TreeParams |-> Row(p)[1]]
TreeKind == [p \in TreeParams |-> Row(p)[3]]
TreeName == [p \in TreeParams |-> Row(p)[4]]
TreeHandler == [p \in TreeParams |-> Row(p)[5]]

\* options: libcli_register_param adds a parameter to those of its parent;
\* support_cmd_negation gives "no" what its parent has when "no" is made; the
\* do hook is filled by hand.
Children(p, rows) == {rows[i][2] : i \in {j \in 1..Len(rows) : rows[j][1] = p}}
Before(p) == SubSeq(Rows, 1, (CHOOSE i \in 1..Len(Rows) : Rows[i][2] = p) - 1)
TreeOptions ==
  [p \in TreeParams |->
     IF p = "DO_HOOK" THEN {"show", "debug", "clear"}
     ELSE IF TreeKind[p] = "NO_CMD" THEN Children(TreeParent[p], Before(p))
     ELSE Children(p, Rows)]

\* The built-in commands come with the first child: "/" to enter the mode, "?"
\* and "."; neither "no" nor the do hook is a mode.
TreeCaps ==
  [p \in TreeParams |->
     IF p = "DO_HOOK" \/ TreeKind[p] = "NO_CMD" THEN {"?", "."}
     ELSE IF TreeOptions[p] # {} THEN {"/", "?", "."} ELSE {}]

\* What get_current_branch_hook finds, and the leaves a walk along the parents
\* meets.
BranchOf[p \in TreeParams] ==
  IF TreeParent[p] \in {"ROOT", "NULL"} THEN p ELSE BranchOf[TreeParent[p]]
PathTo[p \in TreeParams] ==
  (IF TreeParent[p] = "NULL" THEN <<>> ELSE PathTo[TreeParent[p]])
    \o (IF TreeKind[p] = "LEAF" THEN <<p>> ELSE <<>>)
Branches == [p \in TreeParams |-> BranchOf[p]]
Paths == [p \in TreeParams |-> PathTo[p]]

\* MAX_OPTION_SIZE - CHILDREN_START_INDEX
MaxChildren == 13
================================================================================
