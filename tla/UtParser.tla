--------------------------------- MODULE UtParser -------------------------------
(****************************************************************************)
(* ut/utinfra/ut_parser.c: the driver that runs a script of test cases      *)
(* through the command parser and judges what the show commands print.  The *)
(* handlers of the application print with cli_out, which puts the text into *)
(* a POSIX message queue while a test case runs; the driver takes it out    *)
(* again after the command, in the same thread.  The queue outlives the     *)
(* process.  A script is whatever lines it turns out to have; `run ut` in a *)
(* script runs another one inside it.                                       *)
(****************************************************************************)
EXTENDS Integers, Sequences, FiniteSets

CONSTANTS TcWidth,   \* 2 ^ 16: a test case number is a uint16_t
          TcNos,     \* the numbers in scripts and in `run ut`
          Words,     \* what messages are made of
          Number,    \* the numbers among the words, and their values
          Messages,  \* the texts of the handlers: lines of words
          Cmds,      \* the commands of scripts, see CmdRecord
          MaxMq,     \* MAX_MESSAGES
          Stores,    \* 1 .. 3: int_store1, int_store2, int_store3
          MaxDepth, MaxResults  \* bounds on nested runs and on unprinted results

\* show: its text contains "show"; outs: the texts its handler gives cli_out;
\* ok: parse_input_cmd returns COMPLETE.
CmdRecord == [show : BOOLEAN, outs : Seq(Messages), ok : BOOLEAN]

ASSUME UtAssumption ==
  /\ TcWidth \in Nat \ {0} /\ TcNos \subseteq Nat /\ MaxMq \in Nat \ {0}
  /\ Cmds \subseteq CmdRecord /\ DOMAIN Number \subseteq Words
  /\ Messages \subseteq Seq(Seq(Words))

VARIABLES fate,       \* "up", "hung" in mq_send, or "dead"
          runs,       \* the activations of run_test_case, the last one running
          running,    \* TC_RUNNING
          mq,         \* /ut_parser_msg_q
          recv,       \* ut_parser_recv_buff: lines, none when its size is 0
          int_store,
          due,        \* what the last show command printed, as filtered since
          surplus,    \* a text was sent that no show command was to receive
          nested      \* a run ended inside a test case of another one

utVars == <<fate, runs, running, mq, recv, int_store, due, surplus, nested>>

NoStores == [k \in Stores |-> 0]
UtInit ==
  /\ fate = "up" /\ runs = <<>> /\ running = FALSE /\ mq = <<>>
  /\ recv = <<>> /\ int_store = NoStores
  /\ due = <<>> /\ surplus = FALSE /\ nested = FALSE

\* The process ends, at an assertion or for any other reason: its memory is gone
\* and the queue keeps what it holds.
Die ==
  /\ fate' = "dead"
  /\ runs' = <<>> /\ running' = FALSE /\ recv' = <<>> /\ int_store' = NoStores
  /\ due' = <<>> /\ surplus' = (mq # <<>>) /\ nested' = FALSE
  /\ UNCHANGED mq

Run == runs[Len(runs)]
SetRun(r) == runs' = [runs EXCEPT ![Len(runs)] = r]
Reads == fate = "up" /\ runs # <<>> /\ Run.at = "read"

NewRun(n) ==
  [tc_no |-> n % TcWidth, current |-> 0, results |-> <<>>, at |-> "read", cmd |-> <<>>,
   in_case |-> FALSE, proper |-> TRUE]

(****************************************************************************)
(* The texts of the application.                                            *)
(****************************************************************************)
\* pattern_match, with a pattern that is one word; grep keeps whole lines.
LineHas(line, word) == \E i \in 1..Len(line) : line[i] = word
PatternMatch(lines, word) == \E i \in 1..Len(lines) : LineHas(lines[i], word)
KeptAt(s, places) ==
  LET f[i \in 0..Len(s)] ==
        IF i = 0 THEN <<>> ELSE IF i \in places THEN Append(f[i - 1], s[i]) ELSE f[i - 1]
  IN f[Len(s)]
Grep(lines, word) == KeptAt(lines, {i \in 1..Len(lines) : LineHas(lines[i], word)})

\* string_fetch_integer splits at blanks only: a word at the end of a line is
\* one with the newline and the first word of the line that follows.
Flat(seqs) ==
  LET f[i \in 0..Len(seqs)] == IF i = 0 THEN <<>> ELSE f[i - 1] \o seqs[i] IN f[Len(seqs)]
Apart(lines) == Flat([i \in 1..Len(lines) |-> SubSeq(lines[i], IF i = 1 THEN 1 ELSE 2, Len(lines[i]) - 1)])
Numbers(words) == KeptAt(words, {i \in 1..Len(words) : words[i] \in DOMAIN Number})
NumberAt(words, index) ==
  IF index \in 1..Len(Numbers(words)) THEN Number[Numbers(words)[index]] ELSE 0
\* A faulty variant: the count begins with 1.
NumberBefore(lines, index) == NumberAt(Apart(lines), index - 1)
StringFetchInteger(lines, index) == NumberAt(Apart(lines), index)

\* What a script that has run the command c may judge next: what a show command
\* of a test case printed, or one behind the case of a run of all of them.
Printed(c) ==
  IF c.show /\ (running \/ Run.in_case)
  THEN IF c.outs = <<>> THEN <<>> ELSE c.outs[1]
  ELSE due

(****************************************************************************)
(* Faulty variants of the operations below: near misses of the code, not    *)
(* part of the specification, that the properties tell from it.             *)
(****************************************************************************)
\* A timeout leaves the buffer as it was.
ReceiveKeepsBuffer ==
  /\ fate = "up" /\ runs # <<>> /\ Run.at = "sent"
  /\ SetRun([Run EXCEPT !.at = "read"])
  /\ IF Run.cmd.show /\ running /\ mq # <<>>
     THEN recv' = Head(mq) /\ mq' = Tail(mq)
     ELSE UNCHANGED <<recv, mq>>
  /\ due' = Printed(Run.cmd)
  /\ UNCHANGED <<fate, running, int_store, surplus, nested>>

\* The buffer is judged without waiting for the text.
ReceiveNever ==
  /\ fate = "up" /\ runs # <<>> /\ Run.at = "sent"
  /\ SetRun([Run EXCEPT !.at = "read"])
  /\ UNCHANGED <<fate, running, mq, recv, int_store, due, surplus, nested>>

\* The next test case ends the search, whichever it is.
EndsSearch(n) == TRUE

\* The results are printed and kept.
ResultsKept == Run.results

(****************************************************************************)
(* run_test_case begins: at the prompt, or as a command of a script.        *)
(****************************************************************************)
Enter(n) ==
  /\ runs' = Append(runs, NewRun(n))
  /\ UNCHANGED <<fate, running, mq, recv, int_store, due, surplus, nested>>
NoSuchFile == Die

RunUt(n) == fate = "up" /\ runs = <<>> /\ (Enter(n) \/ NoSuchFile)
ScriptRunUt(n) == Reads /\ Len(runs) < MaxDepth /\ (Enter(n) \/ NoSuchFile)

\* It ends with its results unprinted if some are left, and with it the test
\* case of the run around it is no longer taken for one.
Leave ==
  /\ runs' = SubSeq(runs, 1, Len(runs) - 1)
  /\ running' = FALSE
  /\ nested' = (nested \/ (Len(runs) > 1 /\ runs[Len(runs) - 1].in_case))

EndOfFile ==
  /\ fate = "up" /\ runs # <<>> /\ Run.at \in {"read", "skip"}
  /\ Leave
  /\ UNCHANGED <<fate, mq, recv, int_store, due, surplus>>
Abort == Reads /\ Leave /\ UNCHANGED <<fate, mq, recv, int_store, due, surplus>>

(****************************************************************************)
(* The lines of a script.                                                   *)
(****************************************************************************)
Wanted(n) == Run.tc_no = 0 \/ n % TcWidth = Run.tc_no

\* A line :TESTCASE-BEGIN:, read by the loop of run_test_case or by the search
\* for the wanted test case.
Found(n) ==
  /\ SetRun([Run EXCEPT !.current = n % TcWidth, !.at = "read", !.in_case = TRUE,
                        !.proper = @ /\ ~Run.in_case])
  /\ running' = TRUE
  /\ UNCHANGED <<fate, mq, recv, int_store, due, surplus, nested>>
Search(n) ==
  /\ SetRun([Run EXCEPT !.current = n % TcWidth, !.at = "skip"])
  /\ UNCHANGED <<fate, running, mq, recv, int_store, due, surplus, nested>>

Begin(n) == Reads /\ IF Wanted(n) THEN Found(n) ELSE Search(n)
BeginInSearch(n) ==
  /\ fate = "up" /\ runs # <<>> /\ Run.at = "skip"
  /\ IF Wanted(n) THEN Found(n) ELSE Search(n)

\* tc_print_result, then tc_cleanup_result_list.
ResultsCleaned == <<>>
End ==
  /\ Reads
  /\ IF Run.tc_no # 0 /\ running
     THEN Leave
     ELSE SetRun([Run EXCEPT !.results = ResultsCleaned, !.in_case = FALSE]) /\ UNCHANGED <<running, nested>>
  /\ UNCHANGED <<fate, mq, recv, int_store, due, surplus>>

\* :CMD: the handler prints with cli_out, which waits for ever for room in the
\* queue: the thread that would make it is this one.
CliOut(outs) ==
  IF ~running THEN UNCHANGED <<mq, fate>>
  ELSE LET room == MaxMq - Len(mq)
       IN IF Len(outs) > room
          THEN mq' = mq \o SubSeq(outs, 1, room) /\ fate' = "hung"
          ELSE mq' = mq \o outs /\ UNCHANGED fate

Expected(c) == IF c.show THEN 1 ELSE 0
Cmd(c) ==
  /\ Reads
  /\ CliOut(c.outs)
  /\ SetRun([Run EXCEPT !.at = "sent", !.cmd = c])
  /\ surplus' = (surplus \/ (running /\ Len(c.outs) > Expected(c)))
  /\ UNCHANGED <<running, recv, int_store, due, nested>>

\* assert(status == COMPLETE), and what follows it: mq_timedreceive gives up at
\* once, as mq_wait_time is long past, when the queue is empty.
CmdFails ==
  /\ fate = "up" /\ runs # <<>> /\ Run.at = "sent" /\ ~Run.cmd.ok
  /\ Die
Receive ==
  /\ fate = "up" /\ runs # <<>> /\ Run.at = "sent" /\ Run.cmd.ok
  /\ SetRun([Run EXCEPT !.at = "read", !.cmd = <<>>])
  /\ IF Run.cmd.show /\ running
     THEN IF mq = <<>> THEN recv' = <<>> /\ UNCHANGED mq ELSE recv' = Head(mq) /\ mq' = Tail(mq)
     ELSE UNCHANGED <<recv, mq>>
  /\ due' = Printed(Run.cmd)
  /\ UNCHANGED <<fate, running, int_store, surplus, nested>>

\* :PATTERN-MATCH: and :PATTERN-NOT-MATCH:, and tc_append_result.  The number of
\* the step, which is only printed, gives way to that of the test case.
TcAppendResult(pass) ==
  SetRun([Run EXCEPT !.results = Append(@, [pass |-> pass, tc |-> Run.current]),
                     !.proper = @ /\ Run.in_case])
PatternLine(word, match) ==
  /\ Reads /\ Len(Run.results) < MaxResults
  /\ TcAppendResult(PatternMatch(recv, word) = match)
  /\ UNCHANGED <<fate, running, mq, recv, int_store, due, surplus, nested>>

GrepLine(word) ==
  /\ Reads
  /\ recv' = Grep(recv, word) /\ due' = Grep(due, word)
  /\ UNCHANGED <<fate, runs, running, mq, int_store, surplus, nested>>

\* :INT_STORE1: to :INT_STORE3:, which insist on an index.
IntStore(k, index) ==
  /\ Reads
  /\ IF index = 0
     THEN Die
     ELSE /\ int_store' = [int_store EXCEPT ![k] = StringFetchInteger(recv, index)]
          /\ UNCHANGED <<fate, runs, running, mq, recv, due, surplus, nested>>

(****************************************************************************)
(* The process may end at any time; the queue keeps its text.               *)
(****************************************************************************)
Kill == fate # "dead" /\ Die
\* ut_parser_init of the next process opens the queue as it finds it.
Restart == fate = "dead" /\ fate' = "up" /\ UNCHANGED <<runs, running, mq, recv, int_store, due, surplus, nested>>

UtNext ==
  \/ \E n \in TcNos : RunUt(n) \/ ScriptRunUt(n) \/ Begin(n) \/ BeginInSearch(n)
  \/ EndOfFile \/ Abort \/ End
  \/ \E c \in Cmds : Cmd(c)
  \/ CmdFails \/ Receive
  \/ \E word \in Words : GrepLine(word) \/ \E match \in BOOLEAN : PatternLine(word, match)
  \/ \E k \in Stores, index \in 0..2 : IntStore(k, index)
  \/ Kill \/ Restart

UtSpec == UtInit /\ [][UtNext]_utVars

(****************************************************************************)
(* Properties.                                                              *)
(****************************************************************************)
\* What a test case judges is what its last show command printed, nothing when
\* it printed nothing, and never a text of a command before: unless a text was
\* sent that no show command was to receive, or a run inside the test case made
\* the driver forget that one is running.
BufferIsLastShow == fate = "up" /\ ~surplus /\ ~nested => recv = due

\* The driver waits for ever only when a text lies in the queue that no show
\* command was to receive: one of another command, a second one of a show
\* command, or one that a process that died has left there.
HungBySurplus == fate = "hung" => surplus

\* The results a test case prints are its own, and a run of one test case has
\* no others, when the script keeps its patterns inside test cases and ends a
\* test case before it begins the next.
ResultsAreOwn ==
  \A i \in 1..Len(runs) :
    LET r == runs[i] IN
      r.proper /\ r.at # "skip" =>
        \A j \in 1..Len(r.results) :
          r.results[j].tc = r.current /\ (r.tc_no # 0 => r.current = r.tc_no)

\* An INT_STORE line finds the number that the reader of the text would count
\* to, if no line begins or ends with a number.
NumbersInside(lines) ==
  \A i \in 1..Len(lines) :
    lines[i] # <<>> => {lines[i][1], lines[i][Len(lines[i])]} \cap DOMAIN Number = {}
StoresNumberSeen ==
  [][\A k \in Stores, index \in 1..2 :
       IntStore(k, index) /\ NumbersInside(recv) => int_store'[k] = NumberAt(Flat(recv), index)]_utVars
================================================================================
