# A verification development of the TCP server library

The repository is a C++ library for multithreaded TCP servers (`src/*.cpp`), an
application that runs such servers from a command line (`src/main.cpp`), and
the C library for that command line (`src/CommandParser`). This directory holds
TLA+ models of it, TLC configurations that check them on small instances, and
proofs that TLAPS checks for every value of the constants.

## 1. Inventory

| Component | Source | State | Operations | Model |
|---|---|---|---|---|
| Server controller (TCS) | `tcp_server_controller.cpp` | `state_flags`, pointers to the three parts, the callbacks | `start`, `stop`, `process_new_client`, disable/enable accepting, disable/enable listening | `TcpServer` |
| Connection acceptor (CAS) | `tcp_new_connection_acceptor.cpp` | `accept_fd`, `accept_new_conn_thread` | its thread (socket, bind, listen, accept loop), start, cancel and join | `TcpServer` |
| Client service manager (DRS) | `tcp_client_service_manager.cpp` | `tcp_client_db` (a list), `active_fd_set`, `backup_fd_set`, `client_svc_mgr_thread` | its thread (select, recvfrom, callback), start, cancel and join, `client_fd_start_listen`, `stop` | `TcpServer` |
| Client database (DBM) | `tcp_client_db_manager.cpp`, `tcp_client.cpp` | `tcp_client_db` (a list) under a rwlock | add, copy to a list, purge | `TcpServer` |
| Byte circular buffer | `byte_circular_buffer.cpp` | `buffer`, `front`, `rear`, `current_size` | write, read or peek, reset | `ByteCircularBuffer` |
| Fixed-size demarcar | `tcp_msg_demarcar.cpp`, `tcp_msg_fixed_size_demarcar.cpp` | the ring and a message buffer | `process_msg` | `FixedSizeDemarcar` |
| Variable-size demarcar | `tcp_msg_variable_size_demarcar.cpp` | the ring | `process_client_msg` | not modelled |
| Server application | `main.cpp` | `tcp_server_list`, and `client_recv_buffer` of the service manager, which all servers share | create a server, the commands on a server, the callbacks | commands: `TcpServer`; the shared buffer: `RecvBuffer` |
| Command parser | `CommandParser/cmd_hier.c`, `parser.c`, `clistd.c` | the parameter tree, the cursor, the buffer of collected values with a checkpoint | parse a command, enter and leave modes, `do`, `repeat`, history, load a file | `CliTree`, `CliParser` |
| Serialisation buffer | `CommandParser/serialize.c` | a growing buffer, its position and its checkpoint | append, skip, mark, restore, reset, truncate, copy in, read | bytes: `SerializeBytes`; values: `SerializeBuffer` |
| Tokeniser and substitution | `CommandParser/string_util.c` | the static array of tokens | split, trim, replace, search, filter, fetch a number | `StringUtil`; the last three: `UtParser` |
| glthread list | `CommandParser/gluethread/` | two pointers per node | insert at four places, remove, dequeue, delete a list | `ListView`, `GlThread` |
| History of commands | `CommandParser/clistd.c`, `parser.c` | a file, a counter, a switch, the last line | record, list and run again, `repeat` | `CmdHistory` |
| Test driver | `CommandParser/ut/utinfra/ut_parser.c` | a message queue, the receive buffer, `TC_RUNNING`, results, three integers | run the test cases of a script, `cli_out` | `UtParser` |
| Address conversion, sample clients, demonstrations | `network_utils.cpp`, `client_*.cpp`, `CommandParser/main*.c`, `testapp.c` | — | straight library calls, example programs | not modelled |

### How the parts interact

A server has three threads, and no lock but the database's rwlock:

* the **main thread** runs the operator's commands (`config_tcp_server_handler`)
  and, through the controller, creates, cancels and joins the other two;
* the **accept thread** accepts a client, calls the application, stores the
  client in the database and then *hands it over*: `client_fd_start_listen`
  cancels and joins the receive thread, appends the client to the list that this
  thread walks, and creates the thread anew, with a new `pthread_t`;
* the **receive thread** copies the sockets of its list into an `fd_set`, waits
  in `select`, and for each ready client calls `recvfrom` and then the
  application (or a demarcar).

They share `state_flags`, the pointer `tcp_cl_svc_mgr`, the handle
`client_svc_mgr_thread`, the manager's list and the database. All cancellation
is deferred: a thread ends at a cancellation point, never between two.

The **command parser** runs in the main thread. It matches the tokens of a line
against the tree from the *cursor* on, collects the values of the leaves it meets in
one serialisation buffer, and calls the callback of the last parameter with it. A
mode leaves the cursor below the root and the values on the way to it in the buffer,
under a checkpoint. Callbacks call the parser again (history, repeat), and the
callback of `config tcp-server` is where the parser meets the servers.

The **test driver** (`run ut`) is itself a callback. It feeds the lines of a script to
the parser and reads what the callbacks print: these print with `cli_out`, which sends
the text to a POSIX message queue while a test case runs, and the driver takes it out of
the queue when the command has returned. Sender and receiver are the same thread, and the
queue outlives the process.

The servers of a process are independent but for `client_recv_buffer`, a static array
into which the receive threads of all of them receive.

### What is hard

* The handoff and a command can stop, clear, create and free the same receive
  thread, handle and manager at once; each reads a shared pointer more than once.
* A cancelled accept thread leaves a handoff half done.
* A receive thread copies the whole database at its start if a flag says that
  listening was off; `sleep(1)` is what keeps the flag up long enough.
* A cancelled receive thread must not lose what it has taken from a socket.
* A ring whose indices meet both when it is full and when it is empty.
* A parser whose value buffer and cursor must agree over modes, errors, files and lines
  that run inside lines.
* A queue that the thread which fills it must empty, with a timeout that never waits, over
  crashes and over scripts inside test cases.
* A buffer shared by threads that clear it, print from it and can be cancelled in between.
* Statics that stay from one call to the next: the tokens, the history, the pointers of a
  node that left a list.

`PROJECT.json` lists each of these as a hazard at its line, with the properties
that would notice it.

### What makes each component correct

* Controller, acceptor, manager, database, together: no command and no client
  makes the process fail; at most one receive thread; a client is announced,
  stored and listed before it is served, once; nothing received is lost; a
  settled server serves exactly the clients it stores; commands return; `stop`
  leaves nothing behind.
* Ring: the indices stay inside the buffer, the ring holds exactly the unread
  bytes in order, a read gives the oldest of them.
* Demarcar: a message is the bytes of the stream that its number says; the ring never runs
  out of room.
* Parser: the buffer holds the values of the path from the root to the cursor
  and nothing else, whatever was typed before.
* Test driver: a test case judges what its own last show command printed, and prints its
  own results; the driver does not hang.
* The shared receive buffer: a message is printed as it was sent.
* Lists: the two directions agree, and a call moves one node and disturbs no other.
  Serialisation: what was written is read back. Tokeniser: the words of this line. History:
  every complete line that was typed, once and in order (section 5 says which are not).

## 2. Modules

| Module | What it is |
|---|---|
| `AppView` | the abstract specification: what the application sees through its callbacks |
| `TcpServer` | one server: commands, three kinds of threads, clients, the network |
| `MCTcpServer` | `TcpServer` with the symmetry set TLC uses |
| `TcpServer_proofs` | theorems about `TcpServer` under any commands at any moment |
| `TcpServerCalm_proofs` | those that need a manager that is not replaced in the middle of something |
| `ByteCircularBuffer` | the ring |
| `FixedSizeDemarcar`, `FixedSizeDemarcar_proofs` | the demarcar, which EXTENDS the ring, and the theorems about both |
| `SerializeBuffer` | the buffer of values, as operators |
| `CliTree` | the tree of commands the library and `main.cpp` register |
| `CliParser` | the parser, over any tree |
| `CliParser_proofs` | theorems about the parser over any tree |
| `MCCliParser` | `CliParser` over `CliTree`, with the lines TLC types |
| `UtParser` | the test driver, its queue and its scripts |
| `RecvBuffer` | the receive buffer of several servers |
| `CmdHistory` | the history file, the recording of lines and `repeat` |
| `Application_proofs` | theorems about the three above |
| `MCApplication` | the three above, side by side: `part` says which one a behaviour exercises |
| `ListView` | the abstract specification of glthread: a sequence of nodes per head |
| `GlThread`, `GlThread_proofs` | the lists as cells with two pointers, their theorems and the refinement |
| `SerializeBytes` | the serialisation buffer byte by byte |
| `StringUtil` | the tokeniser with its static array, and `replaceSubstring` |
| `Library_proofs` | theorems about the two above |
| `DataLemmas` | lemmas about numbers and recursive functions that the proofs share |
| `MCLibrary` | the ring, the lists, the serialisation buffer, the tokeniser and the substitution, side by side |

Next to what they vary, the modules define *faulty variants*: an action or operator
with one plausible mistake. They are not part of any specification.
`PROJECT.json` pairs each property with a variant under which TLC finds it violated.

### TcpServer: state and steps

An action is the code of one thread up to the next point where another thread
can see it or stop it. `pc["cli"]` and `pc["acc"]` say where the main and the
accept thread are, `drsPc[d]` where receive thread `d` is, and a receive thread
is a member of `Drs` per pthread, since a handle may name a thread that is gone
or was never made. `mgr[a]` is `this` of the manager's method that thread `a`
runs: it was read from `svc` (`tcp_cl_svc_mgr`) at the call and stays, although
`svc` may change. `mgrThread[m]` is the handle, with `Nil` for a null pointer and
`Fresh` for a `pthread_t` that was allocated and not written: this is how
`StopFault` and `HandleFault` know what a cancel or a join would do.

| Code | Actions |
|---|---|
| `stop_tcp_client_service_manager_thread`, by either thread | `CancelDrs`, `JoinDrs`, `DrsJoined`, `ForgetDrs`, `StopFault` |
| `start_tcp_client_service_manager_thread` | `CreateDrs`, then `AccNap` or `CommandStarted` for its `sleep(1)` |
| `tcp_server_controller::start`, second `start` | `Start`, `StartAgain` |
| `stop`, disable accepting | `StopAccepting`, `StopUnstarted`, `AcceptorStopped`, `StopNoAcceptor`, `StopManager`, `Purge` |
| enable accepting | `StartAccepting` |
| disable/enable listening | `StopListening`, `FreeManager`, `FreeFault`, `ListeningStopped`, `StartListening` |
| the accept thread | `AccSetup`, `AccSetupFails`, `Accept`, `AccCallback`, `AccAdd`, `AccHandoff`, `AccRelink`, `AccFault`, `AccCancelled` |
| the receive thread | `DrsStart`, `DrsCopy`, `DrsPrep`, `DrsSelect`, `DrsRecv`, `DrsEof`, `DrsDeliver`, `DrsCancelled`, `DrsFault` |
| a client (external) | `Connect`, `Send`, `Hangup` |

What is abstracted: a message is a unit of `rx[c]`, not bytes; a client is its
identity, not its address; `accept` and `bind` do not fail but for a second
`start`, whose thread finds the port taken and exits the process; a failed
`select` is left out. Memory errors end an execution with `fate` naming the error
and `culprit` the thread: C++ says nothing about what would follow.

`Overlap = FALSE` narrows the operator and the clients to one thing at a time; it
makes the properties of the `Orderly` run meaningful, which do not hold otherwise.
`Prompt = TRUE` says that a new thread has read its flag within the second that
`sleep(1)` gives it.

### ByteCircularBuffer and FixedSizeDemarcar

A byte is the number of its place in the stream, so that every property about
"which bytes" is arithmetic. `BcbWrite` and `BcbRead` have one operator per branch
of the code. `bcb_read`'s second `memcpy` writes to `data` and not to `data` plus
the length of the first, and so does `ReadWrapped`.

No code of the repository installs a demarcar (`tcp_new_connection_acceptor.cpp:85`
sets `msgd` to null). `FixedSizeDemarcar` models the class as the receive thread
calls it (`tcp_client_service_manager.cpp:65-67`), with the cancellation it would
meet there: the callback writes to the terminal, and a write is a cancellation
point, so a thread that is being replaced can end between two messages.

`MessageInStream` says of each message which bytes of the stream it has. The ring starts at slot
0 and every byte goes through it, so a message that starts at byte `start` of the stream starts
in slot `start % Size`; `leading` is the room from there to the end of the ring. A message that
fits in it is whole. Of a longer one `bcb_read` keeps what stood behind the end, at its
beginning, and the property says this much of it; `MessageIsNext`, which the run `DemarcarWrap`
finds violated, is what the message should have been.

### SerializeBuffer, CliTree and CliParser

A unit of the buffer is a leaf with its value, or the code of a command; the buffer is
the sequence of units below its position, its size in bytes and its checkpoint. The
tree is a constant of `CliParser`: `Kind`, `Name`, `Handler`, `Parent`, `Options` and
`Caps` are the fields of `param_t`. `CliTree` gives them the values that `init_libcli`
and `tcp_build_cli` register, call by call. What the proofs need of a tree is a named assumption each, which TLC evaluates
for this one: `TreeAssumption` is what the registering functions make sure of; that `config`
and `repeat` are at the root and that the do hook has no callbacks of its own
(`ConfigAssumption`, `RepeatAssumption`, `DoHookAssumption`) is what `init_libcli` registers;
`NegationAssumption` is what `support_cmd_negation` asserts; `ServerAssumption` is where
`main.cpp` registers its callbacks, and the leaves they know.

A typed line is a sequence of tokens. `dispatch` is the chain of built-in commands in
`parse_input_cmd`, `walk` is the loop of `build_tlv_buffer` with one action per token,
`handler` the callback, `finish` the end of `parse_input_cmd`. `frames` is the C stack:
a line, a file that is read line by line, or a line after `do`, on top of the one whose
callback runs it.

| Code | Actions |
|---|---|
| `command_parser` | `TypeLine`, the last part of `FinishLine` |
| `parse_input_cmd` | `EmptyLine`, `TreeLine`, `DoLine`, `RepeatLine`, `GoUpLine`, `GoTopLine`, `ClearScreenLine`, `LoadLine`, `DispatchFault`; `DoReturns`, `DoEntersMode`, `DoFault`, `FinishLine` |
| `parse_file` | `LoadLine`, `FileLine`, `FinishFileLine`, `EndOfFile` |
| `find_matching_param`, `build_tlv_buffer` | `MatchCommand`, `MatchLeaf`, `ChoiceRefused`, `WalkFails`, `SubOptions`, `EnterMode`, `Expand`, `Execute`, `WalkFault` |
| callbacks | `ConfigHandler`, `HistoryHandler`, `HistoryRefused`, `RepeatHandler`, `ExitHandler`, `PlainHandler`, `HandlerFault` |

The callbacks of the server are here only as far as they read the buffer: a unit they do
not know is their `assert(0)`, a missing name a null `std::string`. What they do to a
server is in `TcpServer`.

`clean` is a history variable: it says that since the last prompt at the root nothing has
put the buffer and the cursor apart in one of the ways section 5 lists (a file loaded in a
mode, a history line, `config /`). Properties about the buffer have it as a premise, so
each says: these are the *only* ways. They say nothing of the buffer after one of them:
section 5 does, and the run `CliMode`. Every prompt at the root makes it true again,
because the buffer is reset there.

Left out: `run ut`, which is in `UtParser`; the SIGINT handler; the `brief` extension of
show commands (which no command of the application enables); and the recording of commands,
which is in `CmdHistory` and here a file that holds any line or none.

### UtParser

`runs` is the C stack of `run_test_case`: a script can hold `run ut`, and then the driver runs
inside itself. An activation is at "read" (a line of the script comes next), "skip" (it looks
for the wanted test case) or "sent" (the command of a `:CMD:` line has run, and what it
printed has not been received). A script is not a constant: any line may come next. `mq` is the
queue, `recv` the buffer the patterns are matched against, `running` is `TC_RUNNING`.

| Code | Actions |
|---|---|
| `run_test_case`, from the prompt and from a script | `RunUt`, `ScriptRunUt`, `EndOfFile`, `Abort` |
| `:TESTCASE-BEGIN:`, and the search for a test case | `Begin`, `BeginInSearch` |
| `:TESTCASE-END:` | `End` |
| `:CMD:` with `cli_out`; its assertion; `mq_timedreceive` | `Cmd`; `CmdFails`; `Receive` |
| `:PATTERN-MATCH:`, `:PATTERN-NOT-MATCH:`, `tc_append_result` | `PatternLine` |
| `:GREP:`, `:INT_STORE1:` to `:INT_STORE3:` | `GrepLine`, `IntStore` |
| the process dies, the next one opens the queue | `Kill`, `Restart` |

`due`, `surplus`, `nested` and an activation's `in_case` and `proper` are history variables:
what the last show command printed; that a text was sent no show command was to receive; that a
run ended inside a test case of another; that a test case has begun and not ended; and that the
script kept its patterns inside test cases. The properties have them as premises,
and without its premise TLC finds each of them violated.

What is abstracted: a text is a sequence of lines of words and a pattern is one word; lines
that only print, sleep or set a description change nothing; the number of a step, which only
shows in a printed result, gives way to the number of the test case; the values of `INT_STORE`
are not put back into the lines (how they are is `replaceSubstring`, in `StringUtil`).
`ut_test_handler` is marked as unused in the source.

### RecvBuffer and CmdHistory

`RecvBuffer` is the loop of the receive thread seen from the buffer: `Recv` writes the
message over what is there, `Callback` prints up to the first 0 byte (and behind the buffer
if it has none), `Clear` and `PassClient` are the `memset` at the end of the loop body,
which also runs for a client that sent nothing; `CancelThread` ends a thread at `select` and
at the write of the callback, which `TcpServer` shows as a thread that ends right after its
callback. `tainted` and `left_over` record that something else was in the buffer.

In `CmdHistory` a line is `show history`, one that may load a file of commands (`config load`, or
`run ut` of a script with such a line), or neither; and it may have asked "Choice", itself or in a
line it ran (`asked`). `find_matching_param` reads the end of the answer into the buffer of the
typed line, so what is left in it (`LeftInBuffer`) is a newline: `record_command` writes this and
one of its own, two blank lines, and `repeat` has a blank line to run. `TypeCommand` and
`RepeatCommand` are a turn of the loop of `command_parser`, with and without its early
`continue`; `NextProcess` starts the program again on the same file. `HistoryOverruns` is the
point behind which the code writes outside an array (section 5).

### GlThread, SerializeBytes and StringUtil

`GlThread` has one action per function that writes a pointer; `delete_glthread_list` takes one
step per turn of its loop, so that a step can be seen at which its saved pointer must be right.
`SortedHeads` are lists filled by `glthread_priority_insert` alone: for these `ListView` says
where a node goes, for the others only that it goes somewhere.

`SerializeBytes` has the memory of the buffer byte by byte; all bytes of one value are alike,
and the five sizes of values are constants, of which two alike would do. `said` is the last byte
written at each offset. A call that would loop for ever ends in "stuck", one that writes behind
the memory in "overran". `SerializeBuffer` is the same buffer in whole values, as the parser
uses it.

In `StringUtil` a string is a sequence of characters. `slots` is the static array of tokens,
which is not cleared between two lines that both parse. Left out: a word that is longer than a
slot. At a variable that ends a line `replaceSubstring` looks for the next one behind the
terminator; there is a second terminator, where `strtok` cut off the newline, and a value (the
digits of an `int`) is at most one character longer than the variable, so that this one is not
overwritten. `StringAssumption` says so, and that a variable has its `$` at its beginning only.

## 3. Runs

| Run | Instance | Shows |
|---|---|---|
| `Serve` | 2 clients, 1 manager, 2 pthreads, `start`, disable/enable accepting, `stop`, fair threads | `StoredFirst`, `AtMostOneDrs`, `AllServed`, `StopIsComplete`, `CommandReturns`, `ListIsStable`, `Served` |
| `Orderly` | 2 clients, 2 managers, all commands one at a time, prompt | `OrderlySafe`, `AllServed`, `ListedOnce`, `RecvNeverBlocks` |
| `Race` | 2 clients, all commands at any moment | `TypeOK`, `AnnouncedFirst`, `NothingLost`, `HandoffSafe`, `AppSpec` |
| `Library` | ring of 4 bytes and stream of 9; 4 nodes, 2 heads; sizes of values 1 to 3; 2 tokens; lines of up to 5 characters | `Accounting`, `HoldsUnread`, `ReadsOldest`, `LinksAgree`, `DeletesAll`, `ListKept`, `ReadsBack`, `GrowthEnds`, `TokensAreWords`, `ReplacesSeparated` |
| `Application` | queue of 1 text, runs 2 deep, 2 test case numbers; 2 servers, buffer of 3 bytes; history of 2 lines, 4 typed, 2 processes | `BufferIsLastShow`, `HungBySurplus`, `ResultsAreOwn`, `StoresNumberSeen`, `PrintedAsSent`, `HistoryHasTyped` |
| `Demarcar` | ring of 8, messages of 3, `recvfrom` of 1 to 4 or an end of stream, 2 cancelled threads | `LeftoverBounded`, `DataNeverAborts`, `MessageInStream` |
| `Cli` | the application's tree, 23 lines, 5 lines in files | `CliTypeOK`, `BufferFitsCursor`, `HandlerSeesPath`, `NegationIsTyped`, `CommandsSafe` |
| `StartRace` | `start`, clients at any moment | finds `ClientsHarmless` violated |
| `StopAssert` | `start`, disable/enable listening | finds `ThreadIsGone` violated |
| `CommandsLive` | all commands, fair threads | finds `CommandReturns` violated |
| `DemarcarWrap` | as `Demarcar`, without cancellation | finds `MessageIsNext` violated |
| `CliMode` | as `Cli` | finds `NoCodeInMode` violated |

`Library` and `Application` do not check for deadlock: their parts really stop, at the bound on
the stream, with a buffer that is stuck or overrun, with a tokeniser that has written behind its
array, with a driver that hangs, or with a history at its bounds.

### Why these bounds

Two clients are the fewest that give the receive thread a list to walk, a handoff
while another client is served, and a second client in the backlog. Two pthreads
are what exists at once: a receive thread and its replacement, or one cancelled by
each of two callers; a pthread that was joined is free again, so executions are not
bounded by their number. Two managers give a manager that was freed, one that
replaced it and, since `start_svc` takes an unborn one only, an operator who
re-enables listening once. One message per client is enough for one to be in the
kernel, in a thread's hands or delivered, at each step of a handoff; the receive
actions allow any number and the theorems do not bound it.

A ring of four bytes with a stream of nine wraps twice, at every alignment; in
`Demarcar` the ring is exactly as large as `Room` in the proofs demands; its size is no multiple
of a message's, so messages begin at six of its slots and cross the end at both places they can.

The lists have four nodes, so that an insertion and a removal each happen at the head, at
the end and between two nodes, with two pairs of nodes that compare equal; two heads let a
node move from one list to another. The serialisation buffer starts with one byte and a value
has up to three, so that one call doubles twice; `MaxNext = 3` fills it from every position and
checkpoint. Two token slots are one more than the fewest that tell the last slot from the
others; the lines have up to three words. Lines of five characters over `$`, `1` and another
hold the variable twice, adjacent, apart and half.

`MaxMq = 1` (the code has `MAX_MESSAGES`) makes the queue full with the first text; two texts in
a row are then one too many, as `MAX_MESSAGES + 1` would be. `TcWidth = 4` with the numbers 1
and 4 has a number that becomes 0 as 65536 does. `MaxDepth = 2` is a run inside a test case;
`MaxResults = 1` is a result that must be gone when the next test case prints. A receive buffer
of three bytes holds a message with its end, a message without one and the rest of a longer one;
`BufSize` is in no premise but that of the message that fills it. `MaxSaved = 2` with four lines
over two processes reaches the counter's limit in each process, or goes beyond it in one, and
fills the array; each line may ask "Choice" or not.

`Cli` types its lines in every order, so that every mode a combination of them reaches is a mode
from which each of them is tried. Among them are a leaf that is invalid, a token with several
matches, an abbreviation, `no` in a line and as a place of its own, and a mode entered by `/`,
by `?`, by `config` and from `do`. `MaxFrames = 3` lets a line run a line that runs a line (a
fourth would only repeat what the third can do to the buffer, since the end of a line does the
same at every depth); `MaxFile = 2` a file that enters a mode and acts in it, twice over by
nesting. `MaxUnits` is reached by `/` typed again and again in the mode of `config`, the only
way the buffer grows from prompt to prompt. The buffer starts with room for one unit and not
for ten, so that it doubles within a line and again where a mode or `do` adds to it. `VIEW` drops the values of leaves that lie neither on the way to
the cursor nor to the parameter matched last nor to a cursor `do` returns to: each is written
again before it is read.

### Fairness

`FairSpec` is weak fairness of each thread: the main thread while a command runs,
the accept thread, each receive thread. The code's threads are pthreads with
default scheduling, each of which the kernel runs when it can run. A thread that
waits in `accept`, `select`, `pthread_join` or `sleep` has an action that is enabled
exactly when the call would return. Clients and the operator are not fair: a client
need not send and nobody need type a command. Fairness is per thread and not per
action, so it does not force `select` to return rather than to be cancelled.

## 4. Proofs

`tlapm` checks every proof from nothing; no lemma is assumed.

* `ServerTypeOK` — types hold in every reachable state of every instance. `TypeOK`
  is not inductive: a receive thread takes the first of the clients it has still to
  visit, and the accept thread appends `accClient`, which must not be null. The
  invariant `TInv` adds `Handing` (a thread that hands over has a client) and
  `Visiting` (a thread at `recvfrom` or after it has somebody to visit).
* `ServerAnnouncedFirst` — nothing is stored, listed, polled or visited before it
  was announced. `AInv` adds `Unannounced`: the accept thread's client is announced,
  and a client that is still away or in the backlog is not.
* `ServerStoredFirst` — until `stop` has emptied the database, every client that is listed,
  polled or visited is stored. What is needed besides is `Handed`: from `AccAdd` on to the end
  of the handoff the accept thread's client is in the database. No step takes a client from it
  but `Purge`, after which the server has no step left. The run `Serve` shows more
  (`StoredFirst` also when the process has stopped) for its instance.
* `ServerImplementsAppView` — every step of the server is a step of `AppView` or
  leaves its variables alone: each client is announced once and before its first
  message, and what was given only grows. The refinement mapping is `told`, and
  `given <- dlv`.
* `NoMessageIsLost` — what a client has sent is what is in its socket, what was given and what
  receive threads have in hand. `LInv` adds that only a thread between `recvfrom` and the
  callback has something in hand (no step of those can be cancelled), and that few threads do,
  so that the sum over threads is one over a finite set. Two such sums of functions that agree
  on the set are equal: of the subsets on which they differ there would be a smallest one.
* `HandoffFailsOnlyInARace` — under any commands at any moment, a handoff fails only in the
  circumstances `HandoffSafe` lists. `HInv` says when that is not the case what the handle of
  the manager is: `Fresh` between its allocation and `pthread_create`, `Nil` between the join
  and the next allocation, and the name of a thread otherwise (`HandleKnown`). It rests on
  which step of which command the main thread is at (`Commanded`), on which manager lives
  (`Managed`) and on who is waited for (`Joined`).

### The server when its manager is not replaced

The other properties of `TcpServer` are false when a command that replaces the manager meets a
handoff (section 5), so their theorems have a premise, `Calm`: the instance has no `stop_svc`
and `start_svc`, whatever else happens at any moment, or it has all commands and `Overlap` is
false. These are the runs `Serve` and `Orderly`, for every size.

* `OneReceiver`, `LoopKeepsItsList`, `StopLeavesNothing`, `OrderlyIsSafe`. `CInv` is the
  conjunction of `Operator` (which command is at which step, and what that says about the
  accept thread), `Owner` (one manager lives, and whoever is inside a method is inside one of
  its methods) and `Handle`: a receive thread runs only where the manager's handle names it;
  none runs between the join and the next creation; a thread that is asked to end is the one
  that is joined next. `StopLeavesNothing` also needs where the socket of each client is.
* `ListsNameOnce`, `LoopNeverBlocks`, `AllAreServed`. These add that nobody is stored twice,
  which the copy of the database at a thread's start could do: the premise `Patient` is
  `Calm` with, if managers are replaced, `Prompt`. `PInv` adds `Copies` (who copies the database
  found an empty list) and `Once` (no client is both in a list and still to be put there);
  then follow `Ready` (who is ready in the set of `select` has something to receive), `Listed`
  and `Polled` (a client that is stored is listed, and one that is listed is polled, but on the
  way there).

### The ring, the demarcar and the lists

* `BufferAccounting`, `BufferHoldsUnread`, `BufferReadsOldest` — for every size of
  the ring up to a `uint16_t` and every sequence of operations. The invariant is the
  conjunction of the three parts: where a write lands depends on `front`, which
  depends on `current_size`.
* `DemarcarMessageInStream`, `DemarcarLeftover`, `DemarcarNeverAborts` — for every
  size of message, `recvfrom` and ring. The first follows from `BufferHoldsUnread`'s invariant
  with `Offset`, that the slot to be read is the one the stream's position says
  (`rear = taken % Size`), and `WholeMessages`, that nothing was taken but whole messages; then
  the slots a read copies hold the bytes the message's number says, up to the end of the ring
  and behind it. `LInv` bounds what the ring holds at each
  step of the loop. The last two assume a ring below 65535 bytes (`-1` cast to
  `uint16_t` must not fit), the last also `Room`: with the code's 10240 bytes and
  1024-byte `recvfrom`s there is room for messages of one byte and eight cancelled
  threads, and for more threads with longer messages.
* `ListLinksAgree`, `ListDeletesAll` — for any finite set of nodes, any heads and every sequence
  of calls. `LinksAgree` is inductive only with `Acyclic`: the right pointers can be numbered
  upwards, so that no node follows itself and a removed node is never its own neighbour;
  `DeletesAll` is the third part.
* `ListImplementsView` — every call is a step of `ListView`. What a head holds is a recursive
  function of the pointers, so the proof says instead that *some* assignment of sequences to
  the heads is linked, has every node at most once and is in order where the list is sorted
  (`Lists`); each call leaves it or changes it in one place (`Moved`), and the function that
  follows the pointers gives this one.

### The parser

* `CliTypeCorrect`, `NegationCorrect`, `BufferIsCursor`, `HandlerGetsPath`, `CommandsAreSafe` —
  for every tree that satisfies the assumptions, any lines, any size of the buffer. `IInv` is
  `TInv` (types, and the shape of the stack of lines), `NInv` (what is still to be matched was
  typed, and so was the `no` that was matched), `CInv` and `CommandsSafe`. `CInv` follows the
  buffer while nothing has spoiled it: below the checkpoint it holds the values of the way to
  the cursor (`AtCursor`); at a prompt nothing else (`Waiting`); during the walk those of the
  way on to the parameter matched last (`Walking`); in a callback these and its code
  (`Calling`); and a line under `do` is the innermost one and stays out of the branch of
  `config`, so that the cursor it returns to still has its values (`Doing`). `CommandsSafe` is
  inductive only beside it: what a callback asserts is about the buffer.

### The library and the application

* `WrittenIsReadBack`, `DoublingEnds` — for any initial size, any sizes of values and any
  sequence of calls. `SerInv` has the types with the position inside the memory; only the
  truncation of an empty buffer leaves a size of 0, and any other size doubles often enough.
* `CallerFindsItsWords` — for any line, delimiter and number of slots. `Prefix` follows the
  tokeniser through the line: so far it has as many words as began, each whole but the last,
  which may still grow.
* `ReplacementIsWhole` — for any line, value and variable, when no two occurrences touch. It
  goes from the end of the line to its start; a place inside an occurrence begins none, since
  the variable holds its first character once.
* `DriverHungBySurplus`, `DriverBufferIsLastShow` — for any script, any commands, any size of
  the queue and any depth of nested runs. `QueueInv` says what the queue holds without a surplus
  text: nothing, but between a show command and its receive exactly what it printed. From this
  `cli_out` always finds room, and what is received is what is due; the invariant also needs
  that only the innermost run can be between the two, and that a run inside a test case has
  `TC_RUNNING` set unless `nested`.
* `DriverResultsAreOwn` — `ResultsInv` says it of every activation on the stack, together with
  what it rests on: there are no results outside a test case, and the case that is read is the
  wanted one.
* `DriverStoresNumberSeen` — for any texts, before and after any `:GREP:`. What leaves words out
  that are no numbers leaves the numbers and their order, and joining two lines that begin and
  end with words makes one word of two words.
* `ReceivedPrintedAsSent` — for any servers and any size of the buffer. `CleanBetween` says that
  the buffer is empty when no thread holds a message and none was cancelled with one; `InBuffer`
  that a message nobody met is in it and followed by zeros.
* `HistoryIsKept` — for any number of lines and processes. `HistoryInv` adds to the types
  `Counts`: until `repeat` has loaded a file, recording is on at the prompt, and the counter is
  the number of this process's complete lines up to `MAX_SAVED_CMDS`. A line's place in the file
  is `LastOf`: the number of lines kept up to it, those that asked "Choice" twice.

### From which assumptions, and what stays with TLC

The proofs assume only the named assumptions on constants; TLC evaluates these in
every run. The provers cannot instantiate the library's induction theorems, whose parameter is
an operator. `DataLemmas` goes another way round: a set of numbers that is not empty has a
least element (`LeastNumber`), so a property that is false of some prefix is false of a
shortest one; and a function that is defined by what it is one place before exists and is
unique (`StepsExist`, `StepsUnique`, and `DescentExists` and `DescentUnique` from the other
end). With these the recursive functions of the models are reasoned about.

Model-checked only are the liveness properties, `Served` and `CommandReturns`, which are out of
the prover's reach, and the properties of the runs that find them violated.


## 5. What the models say about the code

Five disagreements are runs of their own and findings in `PROJECT.json`:

* `StartRace`: `start` creates the accept thread before the receive thread. A client
  accepted in between makes the handoff cancel a `pthread_t` that is still zero.
* `StopAssert`: disabling listening while a client is handed over: the handoff stores
  a new handle between the manager's clearing it and `assert(... == NULL)`.
* `CommandsLive`: disabling listening reads the handle once to cancel and once to
  join. A handoff in between replaces the thread; the command joins a thread nobody
  cancelled, and never returns.
* `DemarcarWrap`: a message across the end of the ring arrives with its first bytes
  overwritten.
* `CliMode`: `config /` leaves the code of the command in the buffer of the mode. The next
  `tcp-server X` in it meets the code as a parameter and asserts (`main.cpp:92`), and each
  further `/` adds one more.

Others met while modelling, which a change of a configuration shows:

* A client that connects while listening is disabled makes the accept thread call a
  null manager (`AccFault` from `AccHandoff`; `HandoffSafe` lists the circumstance).
* Disabling accepting during a handoff leaves the other clients without a receive
  thread, and `stop` after it joins through a null handle (`AllServed` and
  `HandoffSafe` name it with `cut`).
* A handoff that overlaps disabling and enabling of listening lists its client twice,
  and `recvfrom` blocks for all clients (`ListedOnce`, without `Overlap = FALSE`).
* If the new receive thread needs more than a second to read the flag it takes no
  client from the database (`AllServed`, with `Prompt = FALSE`).
* The end of a connection is given to the application as a message of 0 or -1 bytes;
  `client_disconnected` is never called although `README.md:9` promises notification,
  and the client stays in list and database (`DrsEof`, `DrsRecv`). With a demarcar the
  0 bytes fail the assertion of `process_msg` (`ProcessMsgAborts`).
* `/` at the root fails the assertion of `get_current_branch_hook` before
  `mode_enter_callback` can say "Mode not supported at root level" (`WalkFault`).
* `config load` in a mode resets the buffer and leaves the cursor (`parser.c:475`, `483`):
  the mode's commands then lack the server's name, and `cd..` takes a unit off an empty buffer
  (`HandlerFault`, `DispatchFault`). A blank line of such a file runs the callback of the mode.
* A line picked from the history runs on top of the units of the `show history` that asked
  for it; a `config tcp-server` line then asserts (`HandlerFault`).
* `do ?` climbs from the do hook to a null parent; after `no ?` the cursor is on a parameter
  that `cd` and `do` take for a leaf (`WalkFault`, `DispatchFault`, `DoFault`).
* `cli_out` waits for room in a queue that only its own thread empties: a command that prints
  more than the queue holds, or whose texts no show command receives, hangs the driver
  (`HungBySurplus` names them with `surplus`). The queue is not unlinked, so a text that a
  process left there is the answer to the first show command of the next process.
* `mq_wait_time` is an absolute time long past: `mq_timedreceive` never waits, and a show command
  that prints nothing leaves an empty buffer, in which `:PATTERN-NOT-MATCH:` passes.
* `run ut` in a script clears `TC_RUNNING` when it ends, and the rest of the test case around it
  judges an old buffer (`BufferIsLastShow` names it with `nested`). A script that begins a test case
  before it has ended the last prints the results of both (`ResultsAreOwn`, `proper`).
* `string_fetch_integer` splits at blanks only: a number at the end or the start of a line is none
  (`StoresNumberSeen`, `NumbersInside`).
* `tokenizer` notices a word too many when it has stored it behind the array (`overran`).
* `replaceSubstring` does not see a variable that stands directly behind another
  (`ReplacesSeparated`).
* `truncate_serialize_buffer` of an empty buffer leaves a size of 0, which the loops of every
  serialize function double for ever (`GrowthEnds`). `copy_in_serialized_buffer_by_offset`
  checks the length and the offset, not their sum (`CopyIn`).
* `show history` has an offset for every line of the file and one for its end, in an array of
  `MAX_SAVED_CMDS`; the file has that many lines after one process and more after two
  (`HistoryOverruns`).
* When `repeat` has loaded a file, the next complete line is not recorded (`HistoryHasTyped`,
  `reloaded`).
* Two servers receive into one buffer: a message can be printed with the bytes of another, or
  not at all (`PrintedAsSent`, `tainted`).
* The answer to "Choice" is read into the buffer of the typed line, where `parser.c:109` says
  "Read \n and discard". `repeat` then has a blank line to run, and the history two blank lines in
  place of the one that was typed (`HistoryHasTyped`, `asked`; `Asked` in `CliParser`).

## 6. Plan

1. (done) `TcpServer` with its runs; `AppView`; the ring and the demarcar; type
   correctness, announcement, refinement, and the theorems on ring and demarcar.
2. (done) `SerializeBuffer`, `CliTree`, `CliParser` with their runs.
3. (done) The containers and the statics: `GlThread` with `ListView`, `SerializeBytes`,
   `StringUtil`, `UtParser`, `RecvBuffer`, `CmdHistory`; theorems on the lists, the driver and
   the receive buffer; `ServerStoredFirst`.
4. (done) Every safety property that a run checks, proved for all values of the constants; the
   refinement of `ListView`.
5. An abstract specification of the parser, in which a command sees exactly the values of its
   path, with `CliParser` shown to implement it up to where `clean` ends.

## 7. Not modelled

* What the modules leave out is listed with each in section 2.
* The list of servers in `main.cpp`: a server is added to it and never taken out. The code that
  stops a server and then keeps it listed (`main.cpp:151-165`) is reached by no command that is
  registered.
* The variable-size demarcar is unfinished (`README.md:32` has it as a next step): its loop
  passes on a buffer that it never filled.
* The SIGINT handler, which only prints or exits; printing; `network_utils.cpp`; the two sample
  clients; the demonstrations of the parser (`main1.c` to `main4.c`, `testapp.c`), which
  register trees of their own.
* `create_active_client` and `look_up_client_db` are empty or called by nobody.
