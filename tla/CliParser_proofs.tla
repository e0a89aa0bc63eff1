----------------------------- MODULE CliParser_proofs ----------------------------
(****************************************************************************)
(* Proofs about CliParser for every tree of commands and all lines: what    *)
(* the buffer holds when a line is awaited and when a callback is called,   *)
(* that a negation is typed, and which errors no line can cause.            *)
(****************************************************************************)
EXTENDS CliParser, SequenceTheorems, TLAPS

(****************************************************************************)
(* The inductive invariant.                                                 *)
(****************************************************************************)
FrameSet == [kind : {"line", "do", "file"}, old : Params \cup {Nil}, left : Nat, src : Seq(STRING)]
Buffers == [b : Seq(Units), size : Nat, checkpoint : Nat]

ControlOK ==
  /\ fate \in {"up", "exit"} \cup Faults
  /\ pc \in {"prompt", "dispatch", "file", "walk", "handler", "finish"}
  /\ cursor \in Params /\ param \in Params
  /\ op \in {"unknown", "enable", "disable", "operational"} /\ clean \in BOOLEAN
TextOK == line \in Seq(STRING) /\ todo \in Seq(STRING) /\ last \in Seq(STRING)
HolderOK == holder \in [AllLeaves -> STRING \cup {Nil}]
Sound(s) ==
  /\ s \in Buffers /\ UnitSize <= s.size
  /\ Len(s.b) * UnitSize <= s.size /\ s.checkpoint <= Len(s.b)
\* A line is being run but at the prompt; a file is run by a line below it.
FramesOK ==
  /\ frames \in Seq(FrameSet) /\ Len(frames) <= MaxFrames
  /\ pc = "prompt" <=> frames = <<>>
  /\ frames # <<>> => frames[1].kind # "file"
  /\ pc = "file" => Top.kind = "file"
  /\ pc = "dispatch" => Top.kind = "line"
  /\ \A i \in 1..Len(frames) : frames[i].kind = "do" => frames[i].old \in Params
TInv == ControlOK /\ TextOK /\ HolderOK /\ Sound(tlv_buff) /\ FramesOK

\* What is still to be matched was typed, and so was the "no" that was matched.
Typed(t) == \E i \in 1..Len(line) : line[i] = t
NoIsTyped == \E i \in 1..Len(line) : line[i] \in {"no"} \cup Abbrev["no"]
NInv ==
  /\ pc = "walk" => \A i \in 1..Len(todo) : Typed(todo[i])
  /\ pc \in {"walk", "handler"} /\ op = "disable" => NoIsTyped

\* While nothing has spoiled the buffer: it holds the values of the way to the
\* cursor below the checkpoint, and behind them those of the way on to the
\* parameter.  A line that runs under `do` is the innermost, and stays out of
\* the branch of config.
Known(p) == \A i \in 1..Len(Path[p]) : holder[Path[p][i]] # Nil
Starts(p) ==
  /\ Len(Path[p]) <= Len(tlv_buff.b)
  /\ \A i \in 1..Len(Path[p]) : tlv_buff.b[i] = Values(p)[i]
AtCursor == tlv_buff.checkpoint = Len(Path[cursor]) /\ Starts(cursor) /\ Known(cursor)
Waiting == pc \in {"prompt", "dispatch"} => tlv_buff.b = Values(cursor)
Walking == pc = "walk" => tlv_buff.b = Values(param) /\ Known(param)
Calling ==
  pc = "handler" =>
    /\ Handler[param] \notin {"config", "repeat"} => tlv_buff.b = Append(Values(param), Code(param))
    /\ Handler[param] = "repeat" => tlv_buff.b = <<>>
Operational(p) == p # Root /\ Branch[p] # Config /\ Handler[p] # "repeat"
UnderDo ==
  /\ pc \in {"walk", "handler", "finish"}
  /\ cursor # Root /\ (cursor = DoHook \/ Branch[cursor] # Config)
  /\ pc \in {"walk", "handler"} => param = DoHook \/ Operational(param)
Doing ==
  \A i \in 1..Len(frames) :
    frames[i].kind = "do" => i = Len(frames) /\ Known(frames[i].old) /\ UnderDo
CleanState == AtCursor /\ Waiting /\ Walking /\ Calling /\ Doing
CInv == fate = "up" /\ clean => CleanState

IInv == TInv /\ NInv /\ CInv /\ CommandsSafe

(****************************************************************************)
(* The tree.                                                                *)
(****************************************************************************)
LEMMA PathTypes ==
  ASSUME NEW p \in Params
  PROVE  /\ Path[p] \in Seq(AllLeaves) /\ Len(Path[p]) \in Nat
         /\ \A i \in 1..Len(Path[p]) : Path[p][i] \in AllLeaves /\ Path[p][i] \in Params
<1>1. Path[p] \in Seq(AllLeaves)
  BY TreeAssumption
<1>2. AllLeaves \subseteq Params
  BY DEF AllLeaves
<1> QED BY <1>1, <1>2, ElementOfSeq, LenProperties

\* An option continues the way to the parameter that offers it.
LEMMA PathStep ==
  ASSUME NEW p \in Params, NEW q \in Options[p]
  PROVE  /\ q \in Params \ {Root, DoHook}
         /\ Path[q] = IF Leaf(q) THEN Append(Path[p], q) ELSE Path[p]
         /\ Leaf(q) => \A i \in 1..Len(Path[p]) : Path[p][i] # q
<1>1. q \in Params \ {Root, DoHook}
  BY TreeAssumption
<1>2. Path[Parent[q]] = Path[p]
  <2>1. CASE p = DoHook
    BY <2>1, TreeAssumption
  <2>2. CASE p # DoHook /\ Kind[p] = "NO_CMD"
    <3>1. p \in Params \ {Root, DoHook} /\ ~Leaf(p)
      BY <2>2, TreeAssumption DEF Leaf
    <3>2. Parent[q] = Parent[p]
      BY <2>2, TreeAssumption
    <3>3. Path[p] = Path[Parent[p]]
      BY <3>1, TreeAssumption
    <3> QED BY <3>2, <3>3
  <2>3. CASE p # DoHook /\ Kind[p] # "NO_CMD"
    BY <2>3, TreeAssumption
  <2> QED BY <2>1, <2>2, <2>3
<1> QED BY <1>1, <1>2, TreeAssumption

LEMMA PathOfCommand ==
  ASSUME NEW p \in Params, p \notin {Root, DoHook}, Parent[p] = Root, Kind[p] = "CMD"
  PROVE  Path[p] = <<>>
BY TreeAssumption DEF Leaf

LEMMA PathOfConfig == Path[Config] = <<>> /\ Branch[Config] = Config
BY PathOfCommand, ConfigAssumption, TreeAssumption

LEMMA PathOfRepeat ==
  ASSUME NEW p \in Params, Handler[p] = "repeat"
  PROVE  Path[p] = <<>>
BY PathOfCommand, RepeatAssumption, TreeAssumption

\* Under `do` no line gets into the branch of config, nor to repeat.
LEMMA OptionOfDoHook ==
  ASSUME NEW q \in Options[DoHook]
  PROVE  Operational(q)
<1>1. q \in Params \ {Root, DoHook} /\ Parent[q] = Root /\ Branch[q] = q
  BY TreeAssumption
<1> QED BY <1>1, DoHookAssumption, ConfigAssumption DEF Operational

LEMMA OptionOfOperational ==
  ASSUME NEW p \in Params, p # DoHook, Operational(p), NEW q \in Options[p]
  PROVE  Operational(q)
<1>1. q \in Params \ {Root, DoHook} /\ Kind[p] # "NO_CMD" /\ Parent[q] = p /\ Branch[q] = Branch[p]
  BY TreeAssumption, NegationAssumption DEF Operational
<1> QED BY <1>1, RepeatAssumption DEF Operational

(****************************************************************************)
(* The buffer.                                                              *)
(****************************************************************************)
LEMMA UnitTypes ==
  /\ \A p \in Params : Code(p) \in Units
  /\ \A p \in Params, t \in STRING \cup {Nil} : <<p, t>> \in Units
BY DEF Units, Code

LEMMA ValuesOf ==
  ASSUME NEW h \in [AllLeaves -> STRING \cup {Nil}], NEW p \in Params
  PROVE  LET v == [i \in 1..Len(Path[p]) |-> <<Path[p][i], h[Path[p][i]]>>] IN
           v \in Seq(Units) /\ Len(v) = Len(Path[p])
<1> DEFINE v == [i \in 1..Len(Path[p]) |-> <<Path[p][i], h[Path[p][i]]>>]
<1>1. \A i \in 1..Len(Path[p]) : <<Path[p][i], h[Path[p][i]]>> \in Units
  BY PathTypes, UnitTypes
<1>2. v \in [1..Len(Path[p]) -> Units] /\ Len(Path[p]) \in Nat
  BY <1>1, PathTypes
<1> HIDE DEF v
<1>3. v \in Seq(Units)
  BY <1>2, SeqDef
<1>4. Len(v) = Len(Path[p])
  BY <1>2, <1>3, LenProperties
<1> QED BY <1>3, <1>4 DEF v

LEMMA ValuesTypes ==
  ASSUME HolderOK, NEW p \in Params
  PROVE  /\ Values(p) \in Seq(Units) /\ Len(Values(p)) = Len(Path[p])
         /\ \A i \in 1..Len(Path[p]) : Values(p)[i] = <<Path[p][i], holder[Path[p][i]]>>
BY ValuesOf DEF HolderOK, Values

LEMMA NewIsSound == Sound(NewBuffer)
BY UnitSizeAssumption, InitSizeAssumption DEF Sound, Buffers, NewBuffer

LEMMA CollectIsSound ==
  ASSUME NEW s, Sound(s), NEW u \in Units
  PROVE  /\ Sound(Collect(s, u)) /\ Collect(s, u).checkpoint = s.checkpoint
         /\ Collect(s, u).b = Append(s.b, u)
<1> DEFINE used == Len(s.b) * UnitSize
<1>1. s.b \in Seq(Units) /\ s.size \in Nat /\ s.checkpoint \in Nat /\ Len(s.b) \in Nat
  BY LenProperties DEF Sound, Buffers
<1>2. Append(s.b, u) \in Seq(Units) /\ Len(Append(s.b, u)) = Len(s.b) + 1
  BY <1>1, AppendProperties
<1>3. (Len(s.b) + 1) * UnitSize = used + UnitSize /\ used \in Nat
  BY <1>1, UnitSizeAssumption
<1>4. Fitted(s) \in Nat /\ UnitSize <= Fitted(s) /\ used + UnitSize <= Fitted(s)
  <2>1. UnitSize <= s.size /\ used <= s.size /\ UnitSize \in Nat
    BY UnitSizeAssumption DEF Sound
  <2>2. Fitted(s) = IF s.size - used < UnitSize THEN 2 * s.size ELSE s.size
    BY DEF Fitted
  <2> HIDE DEF used
  <2> QED BY <1>1, <1>3, <2>1, <2>2
<1> HIDE DEF used
<1> QED BY <1>1, <1>2, <1>3, <1>4 DEF Sound, Buffers, Collect

LEMMA FrontOfSeq ==
  ASSUME NEW S, NEW s \in Seq(S), NEW n \in Nat, n <= Len(s)
  PROVE  /\ SubSeq(s, 1, n) \in Seq(S) /\ Len(SubSeq(s, 1, n)) = n
         /\ \A i \in 1..n : SubSeq(s, 1, n)[i] = s[i]
<1>1. Len(s) \in Nat /\ \A i \in 1..n : s[i] \in S
  BY LenProperties, ElementOfSeq
<1> QED BY <1>1, SubSeqProperties

LEMMA CutIsSound ==
  ASSUME NEW s, Sound(s), NEW n \in Nat, n <= Len(s.b), NEW c \in Nat, c <= n
  PROVE  /\ Sound(Cut(s, n, c)) /\ Cut(s, n, c).checkpoint = c
         /\ Len(Cut(s, n, c).b) = n /\ \A i \in 1..n : Cut(s, n, c).b[i] = s.b[i]
<1>1. s.b \in Seq(Units) /\ s.size \in Nat /\ Len(s.b) \in Nat /\ UnitSize \in Nat
  BY LenProperties, UnitSizeAssumption DEF Sound, Buffers
<1> DEFINE f == SubSeq(s.b, 1, n)
<1>2. f \in Seq(Units) /\ Len(f) = n /\ \A i \in 1..n : f[i] = s.b[i]
  BY <1>1, FrontOfSeq
<1>3. n * UnitSize <= Len(s.b) * UnitSize /\ n * UnitSize \in Nat /\ Len(s.b) * UnitSize \in Nat
  BY <1>1
<1>4. n * UnitSize <= s.size /\ UnitSize <= s.size
  BY <1>1, <1>3 DEF Sound
<1>5. Cut(s, n, c) = [b |-> f, size |-> s.size, checkpoint |-> c]
  BY DEF Cut
<1> HIDE DEF f
<1>6. Cut(s, n, c).b = f /\ Cut(s, n, c).size = s.size /\ Cut(s, n, c).checkpoint = c
  BY <1>5
<1>7. Cut(s, n, c) \in Buffers
  BY <1>1, <1>2, <1>5 DEF Buffers
<1> QED BY <1>1, <1>2, <1>4, <1>6, <1>7 DEF Sound

LEMMA MarkIsSound ==
  ASSUME NEW s, Sound(s)
  PROVE  Sound(Mark(s)) /\ Mark(s).b = s.b /\ Mark(s).checkpoint = Len(s.b)
<1>1. s.b \in Seq(Units) /\ Len(s.b) \in Nat
  BY LenProperties DEF Sound, Buffers
<1> QED BY <1>1 DEF Sound, Buffers, Mark

LEMMA ResetIsSound ==
  ASSUME NEW s, Sound(s)
  PROVE  Sound(Reset(s)) /\ Reset(s).b = <<>> /\ Reset(s).checkpoint = 0
<1>1. s.b \in Seq(Units) /\ Len(s.b) \in Nat
  BY LenProperties DEF Sound, Buffers
<1>2. Sound(Cut(s, 0, 0)) /\ Cut(s, 0, 0).checkpoint = 0 /\ Len(Cut(s, 0, 0).b) = 0
  BY <1>1, CutIsSound
<1>3. Cut(s, 0, 0).b \in Seq(Units)
  BY <1>2 DEF Sound, Buffers
<1> QED BY <1>2, <1>3, EmptySeq DEF Reset

LEMMA RestoreIsSound ==
  ASSUME NEW s, Sound(s)
  PROVE  /\ Sound(RestoreBuffer(s)) /\ RestoreBuffer(s).checkpoint = s.checkpoint
         /\ Len(RestoreBuffer(s).b) = s.checkpoint
         /\ \A i \in 1..s.checkpoint : RestoreBuffer(s).b[i] = s.b[i]
<1>1. s.checkpoint \in Nat /\ s.checkpoint <= Len(s.b)
  BY DEF Sound, Buffers
<1> QED BY <1>1, CutIsSound DEF RestoreBuffer

LEMMA RewindIsSound ==
  ASSUME NEW s, Sound(s), s.b # <<>>
  PROVE  /\ Sound(Mark(Rewind(s))) /\ Mark(Rewind(s)).checkpoint = Len(s.b) - 1
         /\ Len(Mark(Rewind(s)).b) = Len(s.b) - 1
         /\ \A i \in 1..(Len(s.b) - 1) : Mark(Rewind(s)).b[i] = s.b[i]
<1> DEFINE n == Len(s.b) - 1
<1>1. s.b \in Seq(Units) /\ n \in Nat /\ n <= Len(s.b)
  <2>1. s.b \in Seq(Units)
    BY DEF Sound, Buffers
  <2>2. Len(s.b) \in Nat /\ Len(s.b) # 0
    BY <2>1, EmptySeq, LenProperties
  <2> QED BY <2>1, <2>2
<1>2. Len(SubSeq(s.b, 1, n)) = n
  BY <1>1, FrontOfSeq
<1>3. Mark(Rewind(s)) = Cut(s, n, n)
  BY <1>2 DEF Mark, Rewind, Cut
<1> QED BY <1>1, <1>3, CutIsSound

LEMMA RefillsAreSound ==
  ASSUME NEW s, Sound(s), NEW units \in Seq(Units), NEW t \in Refills(s, units)
  PROVE  Sound(t) /\ t.b = units /\ t.checkpoint = Len(units)
<1>1. Len(units) \in Nat /\ UnitSize \in Nat /\ s.size \in Nat /\ UnitSize <= s.size
  BY LenProperties, UnitSizeAssumption DEF Sound, Buffers
<1> DEFINE need == Len(units) * UnitSize
<1>2. need \in Nat
  BY <1>1
<1>3. PICK y \in s.size..(s.size + 2 * need) :
        need <= y /\ t = [b |-> units, size |-> y, checkpoint |-> Len(units)]
  BY DEF Refills
<1>4. y \in Nat /\ s.size <= y
  BY <1>1, <1>2, <1>3
<1> QED BY <1>1, <1>3, <1>4 DEF Sound, Buffers

(****************************************************************************)
(* The stack of lines.                                                      *)
(****************************************************************************)
LEMMA Lengths == frames \in Seq(FrameSet) => Len(frames) \in Nat /\ (frames = <<>> <=> Len(frames) = 0)
BY EmptySeq, LenProperties

LEMMA TopIsFrame ==
  ASSUME frames \in Seq(FrameSet), frames # <<>>
  PROVE  /\ Len(frames) \in Nat \ {0} /\ Top \in FrameSet
         /\ \A i \in 1..Len(frames) : frames[i] \in FrameSet
<1>1. Len(frames) \in Nat \ {0}
  BY Lengths
<1>2. \A i \in 1..Len(frames) : frames[i] \in FrameSet
  BY ElementOfSeq
<1> QED BY <1>1, <1>2 DEF Top

LEMMA BelowTop ==
  ASSUME frames \in Seq(FrameSet), frames # <<>>
  PROVE  /\ Below \in Seq(FrameSet) /\ Len(Below) = Len(frames) - 1
         /\ \A i \in 1..(Len(frames) - 1) : Below[i] = frames[i]
<1>1. Len(frames) \in Nat \ {0}
  BY TopIsFrame
<1> DEFINE n == Len(frames) - 1
<1>2. n \in Nat /\ n <= Len(frames)
  BY <1>1
<1>3. /\ SubSeq(frames, 1, n) \in Seq(FrameSet) /\ Len(SubSeq(frames, 1, n)) = n
      /\ \A i \in 1..n : SubSeq(frames, 1, n)[i] = frames[i]
  BY <1>2, FrontOfSeq
<1> QED BY <1>3 DEF Below

LEMMA NewTop ==
  ASSUME frames \in Seq(FrameSet), frames # <<>>, NEW f \in FrameSet
  PROVE  /\ WithTop(f) \in Seq(FrameSet) /\ Len(WithTop(f)) = Len(frames)
         /\ WithTop(f)[Len(frames)] = f
         /\ \A i \in 1..(Len(frames) - 1) : WithTop(f)[i] = frames[i]
<1>1. Len(frames) \in Nat \ {0} /\ Below \in Seq(FrameSet) /\ Len(Below) = Len(frames) - 1
  BY TopIsFrame, BelowTop
<1>2. /\ Append(Below, f) \in Seq(FrameSet) /\ Len(Append(Below, f)) = Len(Below) + 1
      /\ \A i \in 1..Len(Below) : Append(Below, f)[i] = Below[i]
      /\ Append(Below, f)[Len(Below) + 1] = f
  BY <1>1, AppendProperties
<1> QED BY <1>1, <1>2, BelowTop DEF WithTop

LEMMA FrameTypes ==
  ASSUME NEW l \in Seq(STRING)
  PROVE  /\ Frame("line", l) \in FrameSet /\ Frame("line", l).kind = "line"
         /\ [Frame("file", l) EXCEPT !.left = MaxFile] \in FrameSet
         /\ [Frame("file", l) EXCEPT !.left = MaxFile].kind = "file"
BY LinesAssumption DEF Frame, FrameSet

LEMMA TopChanged ==
  ASSUME frames \in Seq(FrameSet), frames # <<>>
  PROVE  /\ [Top EXCEPT !.kind = "line"] \in FrameSet /\ [Top EXCEPT !.kind = "line"].kind = "line"
         /\ \A p \in Params : LET f == [Top EXCEPT !.kind = "do", !.old = p] IN
              f \in FrameSet /\ f.kind = "do" /\ f.old = p
         /\ Top.left > 0 => LET f == [Top EXCEPT !.left = @ - 1] IN
              f \in FrameSet /\ f.kind = Top.kind
<1> DEFINE t == Top
<1>1. t \in FrameSet
  BY TopIsFrame
<1> HIDE DEF t
<1>2. [t EXCEPT !.kind = "line"] \in FrameSet /\ [t EXCEPT !.kind = "line"].kind = "line"
  BY <1>1 DEF FrameSet
<1>3. ASSUME NEW p \in Params
      PROVE  LET f == [t EXCEPT !.kind = "do", !.old = p] IN
               f \in FrameSet /\ f.kind = "do" /\ f.old = p
  BY <1>1 DEF FrameSet
<1>4. ASSUME t.left > 0
      PROVE  LET f == [t EXCEPT !.left = @ - 1] IN f \in FrameSet /\ f.kind = t.kind
  <2>1. t.left - 1 \in Nat
    BY <1>1, <1>4 DEF FrameSet
  <2>2. \A n \in Nat : LET f == [t EXCEPT !.left = n] IN f \in FrameSet /\ f.kind = t.kind
    BY <1>1 DEF FrameSet
  <2>3. [t EXCEPT !.left = @ - 1] = [t EXCEPT !.left = t.left - 1]
    OBVIOUS
  <2> QED BY <2>1, <2>2, <2>3
<1> QED BY <1>2, <1>3, <1>4 DEF t

LEMMA AskedFrames ==
  ASSUME frames \in Seq(FrameSet), frames # <<>>
  PROVE  /\ Asked \in Seq(FrameSet) /\ Len(Asked) = Len(frames)
         /\ \A i \in 1..Len(frames) :
              Asked[i].kind = frames[i].kind /\ Asked[i].old = frames[i].old
<1>1. /\ Len(frames) \in Nat \ {0} /\ DOMAIN frames = 1..Len(frames)
      /\ \A i \in 1..Len(frames) : frames[i] \in FrameSet
  BY TopIsFrame, LenProperties
<1> DEFINE f == [frames[1] EXCEPT !.src = IF IsRepeat(@) THEN @ ELSE <<>>]
           g == [frames EXCEPT ![1] = f]
<1>2. f \in FrameSet /\ f.kind = frames[1].kind /\ f.old = frames[1].old
  <2>1. frames[1] \in FrameSet /\ <<>> \in Seq(STRING)
    BY <1>1
  <2>2. ASSUME NEW r \in FrameSet
        PROVE  LET h == [r EXCEPT !.src = IF IsRepeat(@) THEN @ ELSE <<>>] IN
                 h \in FrameSet /\ h.kind = r.kind /\ h.old = r.old
    BY <2>1 DEF FrameSet
  <2> QED BY <2>1, <2>2
<1>3. Asked = g
  BY <1>1 DEF Asked
<1> HIDE DEF f
<1>4. g \in [1..Len(frames) -> FrameSet] /\ g[1] = f /\ \A i \in 2..Len(frames) : g[i] = frames[i]
  BY <1>1, <1>2
<1>5. g \in Seq(FrameSet) /\ Len(g) = Len(frames)
  BY <1>1, <1>4, SeqDef, LenProperties
<1> HIDE DEF g
<1>6. \A i \in 1..Len(frames) : g[i].kind = frames[i].kind /\ g[i].old = frames[i].old
  BY <1>1, <1>2, <1>4
<1> QED BY <1>3, <1>5, <1>6

LEMMA FramesPushed ==
  ASSUME FramesOK, frames # <<>>, Len(frames) < MaxFrames,
         NEW f \in FrameSet, frames' = Append(frames, f),
         \/ pc' = "dispatch" /\ f.kind = "line"
         \/ pc' = "file" /\ f.kind = "file"
  PROVE  FramesOK'
<1>1. Len(frames) \in Nat \ {0} /\ frames \in Seq(FrameSet)
  BY TopIsFrame DEF FramesOK
<1>2. /\ frames' \in Seq(FrameSet) /\ Len(frames') = Len(frames) + 1
      /\ frames'[Len(frames) + 1] = f /\ \A i \in 1..Len(frames) : frames'[i] = frames[i]
  BY <1>1, AppendProperties
<1>3. frames' # <<>> /\ Top' = f /\ frames'[1] = frames[1]
  BY <1>1, <1>2, EmptySeq DEF Top
<1>4. Len(frames') <= MaxFrames
  BY <1>1, <1>2, LinesAssumption
<1>5. \A i \in 1..Len(frames') : frames'[i].kind = "do" => frames'[i].old \in Params
  BY <1>1, <1>2 DEF FramesOK
<1> QED BY <1>2, <1>3, <1>4, <1>5 DEF FramesOK

LEMMA FramesPopped ==
  ASSUME FramesOK, frames # <<>>, frames' = Below,
         pc' = IF Len(frames) = 1 THEN "prompt" ELSE "finish"
  PROVE  FramesOK'
<1>1. Len(frames) \in Nat \ {0} /\ frames \in Seq(FrameSet)
  BY TopIsFrame DEF FramesOK
<1>2. /\ frames' \in Seq(FrameSet) /\ Len(frames') = Len(frames) - 1
      /\ \A i \in 1..(Len(frames) - 1) : frames'[i] = frames[i]
  BY <1>1, BelowTop
<1>3. frames' = <<>> <=> Len(frames) = 1
  BY <1>1, <1>2, EmptySeq
<1>4. frames' # <<>> => frames'[1] = frames[1]
  BY <1>1, <1>2, <1>3
<1>5. Len(frames') <= MaxFrames
  BY <1>1, <1>2, LinesAssumption DEF FramesOK
<1>6. \A i \in 1..Len(frames') : frames'[i].kind = "do" => frames'[i].old \in Params
  BY <1>1, <1>2 DEF FramesOK
<1> QED BY <1>1, <1>2, <1>3, <1>4, <1>5, <1>6 DEF FramesOK

LEMMA FramesRetopped ==
  ASSUME FramesOK, frames # <<>>, NEW f \in FrameSet, frames' = WithTop(f),
         pc' \in {"walk", "finish"},
         f.kind = "file" => Top.kind = "file", f.kind = "do" => f.old \in Params
  PROVE  FramesOK'
<1>1. Len(frames) \in Nat \ {0} /\ frames \in Seq(FrameSet)
  BY TopIsFrame DEF FramesOK
<1>2. /\ frames' \in Seq(FrameSet) /\ Len(frames') = Len(frames)
      /\ frames'[Len(frames)] = f
      /\ \A i \in 1..(Len(frames) - 1) : frames'[i] = frames[i]
  BY <1>1, NewTop
<1>3. frames' # <<>>
  BY <1>1, <1>2, EmptySeq
<1>4. frames'[1].kind # "file"
  <2>1. CASE Len(frames) = 1
    BY <1>2, <2>1 DEF FramesOK, Top
  <2>2. CASE Len(frames) # 1
    BY <1>1, <1>2, <2>2 DEF FramesOK
  <2> QED BY <2>1, <2>2
<1>5. \A i \in 1..Len(frames') : frames'[i].kind = "do" => frames'[i].old \in Params
  BY <1>1, <1>2 DEF FramesOK
<1> QED BY <1>2, <1>3, <1>4, <1>5 DEF FramesOK

LEMMA FramesKept ==
  ASSUME FramesOK, frames # <<>>, frames' = frames \/ frames' = Asked,
         pc' \in {"walk", "handler", "finish"} \/ (pc' = "file" /\ Top.kind = "file")
  PROVE  FramesOK'
<1>1. Len(frames) \in Nat \ {0} /\ frames \in Seq(FrameSet)
  BY TopIsFrame DEF FramesOK
<1>2. /\ frames' \in Seq(FrameSet) /\ Len(frames') = Len(frames)
      /\ \A i \in 1..Len(frames) :
           frames'[i].kind = frames[i].kind /\ frames'[i].old = frames[i].old
  BY <1>1, AskedFrames
<1>3. frames' # <<>> /\ Top'.kind = Top.kind /\ frames'[1].kind = frames[1].kind
  BY <1>1, <1>2, EmptySeq DEF Top
<1> QED BY <1>1, <1>2, <1>3 DEF FramesOK

(****************************************************************************)
(* Every step keeps the types.                                              *)
(****************************************************************************)
LEMMA FaultTypes ==
  ASSUME TInv, NEW why \in Faults, Fault(why), pc # "prompt"
  PROVE  TInv'
BY DEF TInv, ControlOK, TextOK, HolderOK, FramesOK, Top, Fault

LEMMA NoSteps ==
  ASSUME TInv, UNCHANGED vars
  PROVE  TInv'
BY DEF TInv, ControlOK, TextOK, HolderOK, FramesOK, Top, vars

\* The actions that end the execution or leave all but pc alone.
Ending == DispatchFault \/ WalkFault \/ HandlerFault \/ DoFault
Passing == ClearScreenLine \/ WalkFails \/ Expand \/ PlainHandler \/ HistoryRefused

LEMMA EndingTypes ==
  ASSUME TInv, Ending
  PROVE  TInv'
<1>1. PICK why \in Faults : Fault(why) /\ pc # "prompt"
  BY DEF Ending, DispatchFault, WalkFault, HandlerFault, DoFault, Faults, Running, Calls, Ends
<1> QED BY <1>1, FaultTypes

LEMMA PassingTypes ==
  ASSUME TInv, Passing
  PROVE  TInv'
<1>1. /\ pc \in {"dispatch", "walk", "handler"} /\ pc' = "finish"
      /\ UNCHANGED <<fate, cursor, tlv_buff, holder, frames, line, todo, param, op, last, clean>>
  BY DEF Passing, ClearScreenLine, WalkFails, Expand, PlainHandler, HistoryRefused, Running,
         Calls, Ends
<1>2. FramesOK'
  <2>1. FramesOK /\ frames # <<>>
    BY <1>1 DEF TInv, FramesOK
  <2> QED BY <1>1, <2>1, FramesKept
<1> QED BY <1>1, <1>2 DEF TInv, ControlOK, TextOK, HolderOK

LEMMA TypedLineTypes ==
  ASSUME TInv, NEW l \in Lines, TypeLine(l)
  PROVE  TInv'
<1>1. l \in Seq(STRING) /\ Frame("line", l) \in FrameSet /\ Frame("line", l).kind = "line"
  BY LinesAssumption, FrameTypes
<1> DEFINE f == Frame("line", l)
<1>2. frames' = <<f>> /\ pc' = "dispatch" /\ line' = l
  BY DEF TypeLine
<1> HIDE DEF f
<1>3. /\ <<f>> \in Seq(FrameSet) /\ Len(<<f>>) = 1 /\ <<f>>[1] = f /\ <<f>> # <<>>
  BY <1>1 DEF f
<1>4. FramesOK'
  BY <1>1, <1>2, <1>3, LinesAssumption DEF FramesOK, Top, f
<1> QED BY <1>1, <1>2, <1>4 DEF TInv, ControlOK, TextOK, HolderOK, TypeLine

\* A line on top of the others.
Pushing ==
  \/ RepeatLine \/ RepeatHandler \/ \E l \in Lines : HistoryHandler(l)
LEMMA PushingTypes ==
  ASSUME TInv, Pushing
  PROVE  TInv'
<1>1. PICK l \in Seq(STRING) :
        /\ line' = l /\ frames' = Append(frames, Frame("line", l)) /\ Len(frames) < MaxFrames
        /\ pc \in {"dispatch", "handler"} /\ pc' = "dispatch"
        /\ UNCHANGED <<fate, cursor, tlv_buff, holder, todo, param, op, last>>
        /\ clean' \in {clean, FALSE}
  BY LinesAssumption
     DEF Pushing, RepeatLine, RepeatHandler, HistoryHandler, TInv, TextOK, Running, Calls
<1>2. FramesOK'
  <2>1. FramesOK /\ frames # <<>>
    BY <1>1 DEF TInv, FramesOK
  <2> QED BY <1>1, <2>1, FrameTypes, FramesPushed
<1> QED BY <1>1, <1>2 DEF TInv, ControlOK, TextOK, HolderOK

LEMMA LoadLineTypes ==
  ASSUME TInv, LoadLine
  PROVE  TInv'
<1>1. FramesOK /\ frames # <<>> /\ Sound(tlv_buff) /\ line \in Seq(STRING)
  BY DEF TInv, FramesOK, LoadLine, Running, TextOK
<1>2. CASE pc' = "file"
  <2>1. /\ frames' = Append(frames, [Frame("file", line) EXCEPT !.left = MaxFile])
        /\ Len(frames) < MaxFrames /\ tlv_buff' = Reset(tlv_buff) /\ ResetInMode
        /\ UNCHANGED <<fate, cursor, holder, line, todo, param, op, last>>
    BY <1>2 DEF LoadLine
  <2>2. FramesOK'
    BY <1>1, <1>2, <2>1, FrameTypes, FramesPushed
  <2>3. Sound(tlv_buff)'
    BY <1>1, <2>1, ResetIsSound
  <2> QED BY <1>2, <2>1, <2>2, <2>3 DEF TInv, ControlOK, TextOK, HolderOK, ResetInMode
<1>3. CASE pc' # "file"
  <2>1. pc' = "finish"
        /\ UNCHANGED <<fate, cursor, tlv_buff, holder, frames, line, todo, param, op, last, clean>>
    BY <1>3 DEF LoadLine
  <2>2. FramesOK'
    BY <1>1, <2>1, FramesKept
  <2> QED BY <2>1, <2>2 DEF TInv, ControlOK, TextOK, HolderOK
<1> QED BY <1>2, <1>3

LEMMA EmptyLineTypes ==
  ASSUME TInv, EmptyLine
  PROVE  TInv'
<1>1. FramesOK /\ frames # <<>>
  BY DEF TInv, FramesOK, EmptyLine, Running
<1>2. FramesOK'
  BY <1>1, FramesPopped DEF EmptyLine
<1>3. last' \in Seq(STRING)
  BY DEF EmptyLine, TInv, TextOK
<1> QED BY <1>2, <1>3 DEF TInv, ControlOK, TextOK, HolderOK, EmptyLine

LEMMA EndOfFileTypes ==
  ASSUME TInv, EndOfFile
  PROVE  TInv'
<1>1. FramesOK /\ frames # <<>> /\ Top.kind = "file"
  BY DEF TInv, FramesOK, EndOfFile, Running
<1>2. Len(frames) # 1
  BY <1>1 DEF FramesOK, Top
<1>3. FramesOK'
  BY <1>1, <1>2, FramesPopped DEF EndOfFile
<1> QED BY <1>3 DEF TInv, ControlOK, TextOK, HolderOK, EndOfFile

LEMMA TailTypes ==
  ASSUME NEW t \in Seq(STRING), t # <<>>
  PROVE  Head(t) \in STRING /\ Tail(t) \in Seq(STRING)
BY HeadTailProperties

LEMMA WalkTypes ==
  ASSUME TInv, TreeLine \/ DoLine
  PROVE  TInv'
<1>1. /\ FramesOK /\ frames # <<>> /\ Sound(tlv_buff) /\ line \in Seq(STRING)
      /\ cursor \in Params /\ DoHook \in Params
  BY TreeAssumption DEF TInv, FramesOK, TreeLine, DoLine, Running, TextOK, ControlOK
<1>2. CASE TreeLine
  <2>1. FramesOK'
    BY <1>1, <1>2, FramesKept DEF TreeLine, Walk
  <2> QED BY <1>1, <1>2, <2>1 DEF TInv, ControlOK, TextOK, HolderOK, TreeLine, Walk
<1>3. CASE DoLine /\ Branch[cursor] = Config
  <2>1. /\ frames' = WithTop([Top EXCEPT !.kind = "do", !.old = cursor])
        /\ cursor' = DoHook /\ tlv_buff' = Reset(tlv_buff)
        /\ pc' = "walk" /\ param' = DoHook /\ todo' = Tail(line) /\ op' = "unknown"
        /\ UNCHANGED <<fate, holder, line, last, clean>> /\ Len(line) > 1
    BY <1>3 DEF DoLine, Walk, IsDo
  <2>2. FramesOK'
    BY <1>1, <2>1, TopChanged, FramesRetopped, TopIsFrame DEF FramesOK
  <2>3. Sound(tlv_buff)'
    BY <1>1, <2>1, ResetIsSound
  <2>4. todo' \in Seq(STRING)
    BY <1>1, <2>1, TailTypes, EmptySeq
  <2> QED BY <1>1, <2>1, <2>2, <2>3, <2>4 DEF TInv, ControlOK, TextOK, HolderOK
<1>4. CASE DoLine /\ Branch[cursor] # Config
  <2>1. pc' = "finish"
        /\ UNCHANGED <<fate, cursor, tlv_buff, holder, frames, line, todo, param, op, last, clean>>
    BY <1>4 DEF DoLine
  <2>2. FramesOK'
    BY <1>1, <2>1, FramesKept
  <2> QED BY <2>1, <2>2 DEF TInv, ControlOK, TextOK, HolderOK
<1> QED BY <1>2, <1>3, <1>4

LEMMA FileLineTypes ==
  ASSUME TInv, NEW l \in FileLines, FileLine(l)
  PROVE  TInv'
<1>1. /\ FramesOK /\ frames # <<>> /\ Top.kind = "file" /\ Top.left > 0
      /\ Sound(tlv_buff) /\ cursor \in Params /\ l \in Seq(STRING)
  BY LinesAssumption DEF TInv, FramesOK, FileLine, Running, ControlOK
<1>2. FramesOK'
  <2> DEFINE f == [Top EXCEPT !.left = @ - 1]
  <2>1. f \in FrameSet /\ f.kind = "file"
    BY <1>1, TopChanged DEF FramesOK
  <2>2. frames' = WithTop(f) /\ pc' = "walk"
    BY DEF FileLine, Walk
  <2> HIDE DEF f
  <2> QED BY <1>1, <2>1, <2>2, FramesRetopped
<1>3. Sound(tlv_buff)'
  BY <1>1, ResetIsSound DEF FileLine
<1> QED BY <1>1, <1>2, <1>3 DEF TInv, ControlOK, TextOK, HolderOK, FileLine, Walk, ResetInMode

\* The cursor moves, the stack of lines stays.
LEMMA GoUpTypes ==
  ASSUME TInv, GoUpLine
  PROVE  TInv'
<1>1. /\ FramesOK /\ frames # <<>> /\ Sound(tlv_buff) /\ cursor \in Params
      /\ pc' = "finish" /\ UNCHANGED <<fate, frames, line, todo, param, op, last, clean>>
  BY DEF TInv, FramesOK, GoUpLine, Running, ControlOK
<1>2. FramesOK'
  BY <1>1, FramesKept
<1>3. CASE cursor = Root
  BY <1>1, <1>2, <1>3 DEF TInv, ControlOK, TextOK, HolderOK, GoUpLine
<1>4. CASE cursor # Root
  <2>1. /\ cursor' = Parent[cursor] /\ cursor # DoHook
        /\ holder' = IF Leaf(cursor) THEN [holder EXCEPT ![cursor] = Nil] ELSE holder
        /\ tlv_buff' = IF cursor' = Root THEN Reset(tlv_buff)
                       ELSE IF Leaf(cursor) THEN Mark(Rewind(tlv_buff)) ELSE tlv_buff
        /\ Leaf(cursor) => tlv_buff.b # <<>>
    BY <1>4 DEF GoUpLine
  <2>2. cursor' \in Params
    BY <1>1, <1>4, <2>1, TreeAssumption
  <2>3. HolderOK'
    BY <2>1 DEF TInv, HolderOK, AllLeaves
  <2>4. Sound(tlv_buff)'
    BY <1>1, <2>1, ResetIsSound, RewindIsSound
  <2> QED BY <1>1, <1>2, <2>2, <2>3, <2>4 DEF TInv, ControlOK, TextOK
<1> QED BY <1>3, <1>4

LEMMA GoTopTypes ==
  ASSUME TInv, GoTopLine
  PROVE  TInv'
<1>1. /\ FramesOK /\ frames # <<>> /\ Sound(tlv_buff) /\ pc' = "finish"
      /\ UNCHANGED <<fate, frames, line, todo, param, op, last, clean>> /\ cursor' = Root
  BY DEF TInv, FramesOK, GoTopLine, Running
<1>2. FramesOK'
  BY <1>1, FramesKept
<1>3. HolderOK'
  BY DEF GoTopLine, TInv, HolderOK
<1>4. Sound(tlv_buff)'
  BY <1>1, ResetIsSound DEF GoTopLine
<1> QED BY <1>1, <1>2, <1>3, <1>4, TreeAssumption DEF TInv, ControlOK, TextOK

LEMMA ConfigTypes ==
  ASSUME TInv, SubOptions \/ ConfigHandler
  PROVE  TInv'
<1>1. /\ FramesOK /\ frames # <<>> /\ Sound(tlv_buff) /\ pc' = "finish"
      /\ UNCHANGED <<fate, holder, frames, line, todo, param, op, last>>
      /\ tlv_buff' = Mark(tlv_buff) /\ clean' \in {clean, clean /\ tlv_buff.b = <<>>}
  BY DEF TInv, FramesOK, SubOptions, ConfigHandler, Running, Ends, Calls
<1>2. FramesOK'
  BY <1>1, FramesKept
<1>3. Sound(tlv_buff)'
  BY <1>1, MarkIsSound
<1>4. cursor' \in Params
  BY TreeAssumption DEF SubOptions, ConfigHandler, TInv, ControlOK
<1>5. clean' \in BOOLEAN
  BY <1>1 DEF TInv, ControlOK
<1> QED BY <1>1, <1>2, <1>3, <1>4, <1>5 DEF TInv, ControlOK, TextOK, HolderOK

\* Matching a token.
LEMMA MatchesAnOption ==
  ASSUME param \in Params, NEW t
  PROVE  /\ Matching(param, t) \subseteq Options[param] /\ Leaves(param, t) \subseteq Options[param]
         /\ \A q \in Matching(param, t) : ~Leaf(q)
         /\ \A q \in Leaves(param, t) : Leaf(q)
         /\ Options[param] \subseteq Params \ {Root, DoHook}
BY TreeAssumption DEF Matching, Exact, Commands, Leaves

LEMMA MatchCommandTypes ==
  ASSUME TInv, MatchCommand
  PROVE  TInv'
<1>1. /\ FramesOK /\ frames # <<>> /\ param \in Params /\ todo \in Seq(STRING) /\ todo # <<>>
      /\ pc = "walk" /\ (frames' = frames \/ frames' = Asked)
      /\ todo' = Tail(todo) /\ param' \in Matching(param, Head(todo)) /\ op' \in {op, "disable"}
      /\ UNCHANGED <<fate, pc, cursor, tlv_buff, holder, line, last, clean>>
  BY DEF TInv, FramesOK, MatchCommand, Matches, Running, ControlOK, TextOK
<1>2. FramesOK'
  BY <1>1, FramesKept
<1>3. param' \in Params
  BY <1>1, MatchesAnOption
<1>4. todo' \in Seq(STRING)
  BY <1>1, TailTypes
<1> QED BY <1>1, <1>2, <1>3, <1>4 DEF TInv, ControlOK, TextOK, HolderOK

LEMMA MatchLeafTypes ==
  ASSUME TInv, MatchLeaf
  PROVE  TInv'
<1>1. /\ FramesOK /\ frames # <<>> /\ param \in Params /\ todo \in Seq(STRING) /\ todo # <<>>
      /\ pc = "walk" /\ todo' = Tail(todo) /\ param' \in Leaves(param, Head(todo))
      /\ holder' = [holder EXCEPT ![param'] = Head(todo)]
      /\ tlv_buff' = Collect(tlv_buff, <<param', Head(todo)>>)
      /\ UNCHANGED <<fate, pc, cursor, frames, line, op, last, clean>> /\ Sound(tlv_buff)
  BY DEF TInv, FramesOK, MatchLeaf, Matches, Running, ControlOK, TextOK
<1>2. FramesOK'
  BY <1>1, FramesKept
<1>3. param' \in Params /\ Head(todo) \in STRING /\ todo' \in Seq(STRING)
  BY <1>1, MatchesAnOption, TailTypes
<1>4. Sound(tlv_buff)'
  BY <1>1, <1>3, UnitTypes, CollectIsSound
<1>5. HolderOK'
  BY <1>1, <1>3 DEF TInv, HolderOK
<1> QED BY <1>1, <1>2, <1>3, <1>4, <1>5 DEF TInv, ControlOK, TextOK

LEMMA ChoiceRefusedTypes ==
  ASSUME TInv, ChoiceRefused
  PROVE  TInv'
<1>1. /\ FramesOK /\ frames # <<>> /\ frames' = Asked /\ pc' = "finish"
      /\ UNCHANGED <<fate, cursor, tlv_buff, holder, line, todo, param, op, last, clean>>
  BY DEF TInv, FramesOK, ChoiceRefused, Matches, Running
<1>2. FramesOK'
  BY <1>1, FramesKept
<1> QED BY <1>1, <1>2 DEF TInv, ControlOK, TextOK, HolderOK

LEMMA CallTypes ==
  ASSUME TInv, EnterMode \/ Execute
  PROVE  TInv'
<1>1. /\ FramesOK /\ frames # <<>> /\ Sound(tlv_buff) /\ param \in Params /\ cursor \in Params
      /\ pc' \in {"finish", "handler"} /\ op' = OpMode(param) /\ cursor' \in {cursor, param}
      /\ UNCHANGED <<fate, holder, frames, line, todo, param, last, clean>>
      /\ \/ tlv_buff' = Collect(Mark(tlv_buff), Code(param))
         \/ tlv_buff' = Collect(tlv_buff, Code(param))
         \/ tlv_buff' = tlv_buff
  BY DEF TInv, FramesOK, EnterMode, Execute, Running, Ends, ControlOK
<1>2. FramesOK'
  BY <1>1, FramesKept
<1>3. Sound(tlv_buff)'
  BY <1>1, MarkIsSound, UnitTypes, CollectIsSound
<1>4. op' \in {"unknown", "enable", "disable", "operational"}
  BY <1>1 DEF OpMode
<1> QED BY <1>1, <1>2, <1>3, <1>4 DEF TInv, ControlOK, TextOK, HolderOK

LEMMA ExitTypes ==
  ASSUME TInv, ExitHandler
  PROVE  TInv'
BY DEF TInv, ControlOK, TextOK, HolderOK, FramesOK, Top, ExitHandler, Calls, Running

\* The end of a line.
LEMMA DoReturnsTypes ==
  ASSUME TInv, DoReturns \/ DoEntersMode
  PROVE  TInv'
<1>1. /\ FramesOK /\ frames # <<>> /\ Top.kind = "do" /\ Sound(tlv_buff) /\ cursor \in Params
      /\ frames' = WithTop([Top EXCEPT !.kind = "line"]) /\ pc' = "finish"
      /\ UNCHANGED <<fate, holder, line, todo, param, op, last, clean>> /\ HolderOK
      /\ \/ UNCHANGED <<cursor, tlv_buff>>
         \/ cursor' = Top.old /\ tlv_buff' \in Refills(tlv_buff, Values(Top.old))
  BY DEF TInv, FramesOK, DoReturns, DoEntersMode, Running, ControlOK
<1>2. Top.old \in Params
  BY <1>1, TopIsFrame DEF FramesOK, Top
<1>3. FramesOK'
  <2> DEFINE f == [Top EXCEPT !.kind = "line"]
  <2>1. f \in FrameSet /\ f.kind = "line"
    BY <1>1, TopChanged DEF FramesOK
  <2> HIDE DEF f
  <2>2. frames' = WithTop(f)
    BY <1>1 DEF f
  <2> QED BY <1>1, <2>1, <2>2, FramesRetopped
<1>4. Sound(tlv_buff)' /\ cursor' \in Params
  BY <1>1, <1>2, ValuesTypes, RefillsAreSound
<1> QED BY <1>1, <1>3, <1>4 DEF TInv, ControlOK, TextOK, HolderOK

LEMMA SettleTypes ==
  ASSUME TInv, Settle, UNCHANGED <<fate, cursor, holder>>,
         pc' \in {"prompt", "file", "finish"}, last' \in Seq(STRING), clean' \in BOOLEAN, FramesOK'
  PROVE  TInv'
<1>1. Sound(tlv_buff)'
  BY ResetIsSound, RestoreIsSound DEF Settle, TInv
<1>2. <<>> \in Seq(STRING)
  OBVIOUS
<1> QED BY <1>1, <1>2, TreeAssumption DEF Settle, TInv, ControlOK, TextOK, HolderOK

LEMMA FinishTypes ==
  ASSUME TInv, FinishFileLine \/ FinishLine
  PROVE  TInv'
<1>1. FramesOK /\ frames # <<>> /\ clean \in BOOLEAN /\ last \in Seq(STRING)
  BY DEF TInv, FramesOK, FinishFileLine, FinishLine, Running, ControlOK, TextOK
<1>2. CASE FinishFileLine
  <2>1. FramesOK'
    BY <1>1, <1>2, FramesKept DEF FinishFileLine
  <2> QED BY <1>1, <1>2, <2>1, SettleTypes DEF FinishFileLine
<1>3. CASE FinishLine
  <2>1. FramesOK'
    BY <1>1, <1>3, FramesPopped DEF FinishLine
  <2>2. Top.src \in Seq(STRING)
    BY <1>1, TopIsFrame DEF FramesOK, FrameSet
  <2>3. last' \in Seq(STRING) /\ clean' \in BOOLEAN /\ pc' \in {"prompt", "finish"}
    BY <1>1, <1>3, <2>2 DEF FinishLine
  <2> QED BY <1>3, <2>1, <2>3, SettleTypes DEF FinishLine
<1> QED BY <1>2, <1>3

LEMMA TypeStep ==
  ASSUME TInv, [Next]_vars
  PROVE  TInv'
<1>1. CASE \E l \in Lines : TypeLine(l)
  BY <1>1, TypedLineTypes
<1>2. CASE \E l \in FileLines : FileLine(l)
  BY <1>2, FileLineTypes
<1>3. CASE Ending \/ Passing \/ Pushing
  BY <1>3, EndingTypes, PassingTypes, PushingTypes
<1>4. CASE UNCHANGED vars
  BY <1>4, NoSteps
<1>5. CASE \/ EmptyLine \/ TreeLine \/ DoLine \/ GoUpLine \/ GoTopLine \/ LoadLine \/ EndOfFile
           \/ MatchCommand \/ MatchLeaf \/ ChoiceRefused \/ SubOptions \/ ConfigHandler
           \/ EnterMode \/ Execute \/ ExitHandler \/ DoReturns \/ DoEntersMode
           \/ FinishFileLine \/ FinishLine
  BY <1>5, EmptyLineTypes, WalkTypes, GoUpTypes, GoTopTypes, LoadLineTypes, EndOfFileTypes,
     MatchCommandTypes, MatchLeafTypes, ChoiceRefusedTypes, ConfigTypes, CallTypes, ExitTypes,
     DoReturnsTypes, FinishTypes
<1> QED BY <1>1, <1>2, <1>3, <1>4, <1>5 DEF Next, Rest, Ending, Passing, Pushing

LEMMA TypeInit == Init => TInv
<1> SUFFICES ASSUME Init PROVE TInv
  OBVIOUS
<1>1. Sound(tlv_buff)
  BY NewIsSound DEF Init
<1>2. FramesOK
  BY LinesAssumption DEF Init, FramesOK
<1>3. HolderOK
  BY DEF Init, HolderOK
<1> QED BY <1>1, <1>2, <1>3, TreeAssumption DEF Init, TInv, ControlOK, TextOK

LEMMA TypesImply == TInv => CliTypeOK
<1> SUFFICES ASSUME TInv PROVE CliTypeOK
  OBVIOUS
<1>1. Len(frames) \in 0..MaxFrames
  BY Lengths, LinesAssumption DEF TInv, FramesOK
<1>2. tlv_buff.b \in Seq(Units) /\ tlv_buff.size \in Nat /\ tlv_buff.checkpoint \in 0..Len(tlv_buff.b)
      /\ Len(tlv_buff.b) * UnitSize <= tlv_buff.size
  BY LenProperties DEF TInv, Sound, Buffers
<1> QED BY <1>1, <1>2 DEF TInv, ControlOK, HolderOK, CliTypeOK

\* Whatever is typed or read from files, the state has its types, and what has
\* been collected fits in the buffer (collect_tlv, restore, do).
THEOREM CliTypeCorrect == Spec => []CliTypeOK
<1>1. Init => TInv
  BY TypeInit
<1>2. TInv /\ [Next]_vars => TInv'
  BY TypeStep
<1> QED BY <1>1, <1>2, TypesImply, PTL DEF Spec

(****************************************************************************)
(* Negation.                                                                *)
(****************************************************************************)
LEMMA MatchedNo ==
  ASSUME param \in Params, NEW t, NEW q \in Matching(param, t), Kind[q] = "NO_CMD"
  PROVE  t \in {"no"} \cup Abbrev["no"]
<1>1. q \in Params /\ Name[q] = "no"
  BY MatchesAnOption, NegationAssumption
<1> QED BY <1>1 DEF Matching, Exact

LEMMA TailOfTyped ==
  ASSUME TInv, NInv, pc = "walk", todo # <<>>
  PROVE  /\ Typed(Head(todo))
         /\ \A i \in 1..Len(Tail(todo)) : Typed(Tail(todo)[i])
<1>1. /\ todo \in Seq(STRING) /\ Len(todo) \in Nat /\ Len(todo) # 0
      /\ Len(Tail(todo)) = Len(todo) - 1 /\ Head(todo) = todo[1]
      /\ \A i \in 1..Len(Tail(todo)) : Tail(todo)[i] = todo[i + 1]
  BY HeadTailProperties, LenProperties, EmptySeq DEF TInv, TextOK
<1> QED BY <1>1 DEF NInv

LEMMA NegationStep ==
  ASSUME TInv, NInv, [Next]_vars
  PROVE  NInv'
<1>1. CASE MatchCommand \/ MatchLeaf
  <2>1. /\ pc = "walk" /\ pc' = "walk" /\ todo # <<>> /\ todo' = Tail(todo) /\ line' = line
        /\ param \in Params
    BY <1>1 DEF MatchCommand, MatchLeaf, Matches, Running, TInv, ControlOK
  <2>2. Typed(Head(todo)) /\ \A i \in 1..Len(todo') : Typed(todo'[i])
    BY <2>1, TailOfTyped
  <2>3. ASSUME op' = "disable" PROVE NoIsTyped
    <3>1. CASE op = "disable"
      BY <2>1, <3>1 DEF NInv
    <3>2. CASE op # "disable"
      <4>1. param' \in Matching(param, Head(todo)) /\ Kind[param'] = "NO_CMD"
        BY <1>1, <2>3, <3>2 DEF MatchCommand, MatchLeaf
      <4>2. Head(todo) \in {"no"} \cup Abbrev["no"]
        BY <2>1, <4>1, MatchedNo
      <4> QED BY <2>2, <4>2 DEF Typed, NoIsTyped
    <3> QED BY <3>1, <3>2
  <2> QED BY <2>1, <2>2, <2>3 DEF NInv, Typed, NoIsTyped
<1>2. CASE EnterMode \/ Execute
  <2>1. pc = "walk" /\ pc' # "walk" /\ line' = line /\ (op' = "disable" => op = "disable")
    BY <1>2 DEF EnterMode, Execute, Running, Ends, OpMode
  <2> QED BY <2>1 DEF NInv, NoIsTyped
<1>3. CASE TreeLine \/ \E l \in FileLines : FileLine(l)
  <2>1. op' = "unknown" /\ todo' = line'
    BY <1>3 DEF TreeLine, FileLine, Walk
  <2> QED BY <2>1 DEF NInv, Typed
<1>4. CASE DoLine
  <2>1. CASE pc' = "walk"
    <3>1. op' = "unknown" /\ todo' = Tail(line) /\ line' = line /\ Len(line) > 1
      BY <1>4, <2>1 DEF DoLine, Walk, IsDo
    <3>2. /\ line \in Seq(STRING) /\ Len(line) \in Nat /\ line # <<>>
          /\ Len(Tail(line)) = Len(line) - 1
          /\ \A i \in 1..Len(Tail(line)) : Tail(line)[i] = line[i + 1]
      BY <3>1, HeadTailProperties, LenProperties, EmptySeq DEF TInv, TextOK
    <3> QED BY <3>1, <3>2 DEF NInv, Typed
  <2>2. CASE pc' # "walk"
    BY <1>4, <2>2 DEF DoLine, Walk, NInv
  <2> QED BY <2>1, <2>2
<1>5. CASE Ending \/ ExitHandler \/ UNCHANGED vars
  <2>1. UNCHANGED <<pc, line, todo, op>>
    BY <1>5 DEF Ending, DispatchFault, WalkFault, HandlerFault, DoFault, Fault, ExitHandler, vars
  <2> QED BY <2>1 DEF NInv, Typed, NoIsTyped
<1>6. CASE Passing \/ Pushing \/ \E l \in Lines : TypeLine(l)
  <2>1. pc' \in {"finish", "dispatch"}
    BY <1>6 DEF Passing, ClearScreenLine, WalkFails, Expand, PlainHandler, HistoryRefused,
                Pushing, RepeatLine, RepeatHandler, HistoryHandler, TypeLine, Running
  <2> QED BY <2>1 DEF NInv
<1>7. CASE \/ EmptyLine \/ GoUpLine \/ GoTopLine \/ LoadLine \/ EndOfFile
           \/ ChoiceRefused \/ SubOptions \/ ConfigHandler \/ DoReturns \/ DoEntersMode
           \/ FinishFileLine \/ FinishLine
  <2>1. pc' \in {"prompt", "finish", "file"}
    BY <1>7 DEF EmptyLine, GoUpLine, GoTopLine, LoadLine, EndOfFile, ChoiceRefused, SubOptions,
                ConfigHandler, DoReturns, DoEntersMode, FinishFileLine, FinishLine, Running
  <2> QED BY <2>1 DEF NInv
<1> QED BY <1>1, <1>2, <1>3, <1>4, <1>5, <1>6, <1>7 DEF Next, Rest, Ending, Passing, Pushing

\* A callback is told to disable only if "no", or what abbreviates it, is in
\* the line it is called for: no mode, callback or file hands a negation on.
THEOREM NegationCorrect == Spec => []NegationIsTyped
<1>1. Init => NInv
  BY DEF Init, NInv
<1>2. TInv /\ NInv /\ [Next]_vars => TInv' /\ NInv'
  BY TypeStep, NegationStep
<1>3. NInv => NegationIsTyped
  BY DEF NInv, NegationIsTyped, NoIsTyped
<1> QED BY <1>1, <1>2, <1>3, TypeInit, PTL DEF Spec

(****************************************************************************)
(* While nothing has spoiled the buffer.                                    *)
(****************************************************************************)
NoDo == \A i \in 1..Len(frames) : frames[i].kind # "do"

LEMMA NoDoIsDoing == NoDo => Doing
BY DEF NoDo, Doing

LEMMA NotUnderDo ==
  ASSUME Doing, pc \notin {"walk", "handler", "finish"} \/ Top.kind # "do"
  PROVE  NoDo
BY DEF NoDo, Doing, UnderDo, Top

LEMMA NoDoPushed ==
  ASSUME TInv, NoDo, NEW f \in FrameSet, f.kind # "do", frames' = Append(frames, f)
  PROVE  NoDo'
<1>1. frames \in Seq(FrameSet) /\ Len(frames) \in Nat
  BY Lengths DEF TInv, FramesOK
<1>2. /\ Len(frames') = Len(frames) + 1 /\ frames'[Len(frames) + 1] = f
      /\ \A i \in 1..Len(frames) : frames'[i] = frames[i]
  BY <1>1, AppendProperties
<1> QED BY <1>1, <1>2 DEF NoDo

LEMMA NoDoPopped ==
  ASSUME TInv, NoDo, frames # <<>>, frames' = Below
  PROVE  NoDo'
<1>1. frames \in Seq(FrameSet) /\ Len(frames) \in Nat
  BY Lengths DEF TInv, FramesOK
<1>2. Len(frames') = Len(frames) - 1 /\ \A i \in 1..(Len(frames) - 1) : frames'[i] = frames[i]
  BY <1>1, BelowTop
<1> QED BY <1>1, <1>2 DEF NoDo

\* Below the top no line runs under `do`.
LEMMA NoDoRetopped ==
  ASSUME TInv, Doing, frames # <<>>, NEW f \in FrameSet, f.kind # "do", frames' = WithTop(f)
  PROVE  NoDo'
<1>1. frames \in Seq(FrameSet) /\ Len(frames) \in Nat
  BY Lengths DEF TInv, FramesOK
<1>2. /\ Len(frames') = Len(frames) /\ frames'[Len(frames)] = f
      /\ \A i \in 1..(Len(frames) - 1) : frames'[i] = frames[i]
  BY <1>1, NewTop
<1> QED BY <1>1, <1>2 DEF NoDo, Doing

LEMMA KnownKept ==
  ASSUME UNCHANGED holder
  PROVE  \A p : (Known(p) <=> Known(p)') /\ Values(p)' = Values(p)
BY DEF Known, Values

LEMMA DoingKept ==
  ASSUME TInv, Doing, frames # <<>>, frames' = frames \/ frames' = Asked,
         \A p \in Params : Known(p) => Known(p)', UnderDo => UnderDo'
  PROVE  Doing'
<1>1. frames \in Seq(FrameSet)
  BY DEF TInv, FramesOK
<1>2. /\ Len(frames') = Len(frames)
      /\ \A i \in 1..Len(frames) :
           frames'[i].kind = frames[i].kind /\ frames'[i].old = frames[i].old
  BY <1>1, AskedFrames
<1>3. SUFFICES ASSUME NEW i \in 1..Len(frames'), frames'[i].kind = "do"
               PROVE  i = Len(frames') /\ Known(frames[i].old)' /\ UnderDo'
  BY DEF Doing
<1>4. i = Len(frames) /\ Known(frames[i].old) /\ UnderDo
  BY <1>2, <1>3 DEF Doing
<1>5. PICK p \in Params : p = frames[i].old /\ p = frames'[i].old
  BY <1>2, <1>3 DEF TInv, FramesOK
<1>6. Known(p)'
  BY <1>4, <1>5
<1>7. Known(frames[i].old)'
  BY <1>5, <1>6 DEF Known
<1> QED BY <1>2, <1>4, <1>7

LEMMA CursorKept ==
  ASSUME AtCursor, UNCHANGED <<cursor, tlv_buff, holder>>
  PROVE  AtCursor'
BY DEF AtCursor, Starts, Known, Values

\* A parameter below the root without a leaf on the way.
LEMMA NoLeaves ==
  ASSUME NEW p \in Params, Path[p] = <<>>
  PROVE  Known(p) /\ Known(p)' /\ Starts(p) /\ Starts(p)' /\ Values(p) = <<>> /\ Values(p)' = <<>>
         /\ Len(Path[p]) = 0
BY DEF Known, Starts, Values

LEMMA SameBuffers ==
  ASSUME NEW s \in Seq(Units), NEW t \in Seq(Units), Len(s) = Len(t),
         \A i \in 1..Len(s) : s[i] = t[i]
  PROVE  s = t
BY SeqEqual

LEMMA CleanPassing ==
  ASSUME TInv, CleanState, Passing \/ ChoiceRefused \/ (LoadLine /\ pc' # "file")
  PROVE  CleanState'
<1>1. /\ pc \in {"dispatch", "walk", "handler"} /\ pc' = "finish"
      /\ UNCHANGED <<cursor, tlv_buff, holder>> /\ (frames' = frames \/ frames' = Asked)
  BY DEF Passing, ClearScreenLine, WalkFails, Expand, PlainHandler, HistoryRefused,
         ChoiceRefused, LoadLine, Matches, Running, Calls, Ends
<1>2. AtCursor' /\ Waiting' /\ Walking' /\ Calling'
  BY <1>1, CursorKept DEF CleanState, Waiting, Walking, Calling
<1>3. Doing'
  <2>1. UnderDo => UnderDo'
    BY <1>1 DEF UnderDo
  <2>2. frames # <<>>
    BY <1>1 DEF TInv, FramesOK
  <2> QED BY <1>1, <2>1, <2>2, KnownKept, DoingKept DEF CleanState
<1> QED BY <1>2, <1>3 DEF CleanState

LEMMA CleanTypedLine ==
  ASSUME TInv, CleanState, NEW l \in Lines, TypeLine(l)
  PROVE  CleanState'
<1>1. /\ pc = "prompt" /\ pc' = "dispatch" /\ UNCHANGED <<cursor, tlv_buff, holder>>
      /\ frames' = <<Frame("line", l)>>
  BY DEF TypeLine, Running
<1>2. NoDo'
  <2> DEFINE f == Frame("line", l)
  <2>1. f.kind = "line" /\ frames' = <<f>>
    BY <1>1 DEF Frame
  <2> HIDE DEF f
  <2> QED BY <2>1 DEF NoDo
<1>3. AtCursor' /\ Waiting' /\ Walking' /\ Calling'
  BY <1>1, CursorKept, KnownKept DEF CleanState, Waiting, Walking, Calling
<1> QED BY <1>2, <1>3, NoDoIsDoing, PTL DEF CleanState

LEMMA RepeatOnNothing ==
  ASSUME TInv, CleanState, RepeatHandler
  PROVE  tlv_buff.b = <<>> /\ Path[cursor] = <<>> /\ NoDo
<1>1. pc = "handler" /\ Handler[param] = "repeat" /\ cursor \in Params
  BY DEF RepeatHandler, Calls, Running, TInv, ControlOK
<1>2. tlv_buff.b = <<>>
  BY <1>1 DEF CleanState, Calling
<1>3. Len(Path[cursor]) <= 0
  BY <1>2 DEF CleanState, AtCursor, Starts
<1>4. Path[cursor] = <<>>
  BY <1>1, <1>3, PathTypes, EmptySeq
<1>5. ~UnderDo
  BY <1>1, TreeAssumption DEF UnderDo, Operational
<1> QED BY <1>2, <1>4, <1>5 DEF CleanState, Doing, NoDo

LEMMA CleanPushing ==
  ASSUME TInv, CleanState, Pushing, clean'
  PROVE  CleanState'
<1>1. PICK l \in Seq(STRING) :
        /\ pc' = "dispatch" /\ UNCHANGED <<cursor, tlv_buff, holder>>
        /\ frames' = Append(frames, Frame("line", l))
  BY LinesAssumption
     DEF Pushing, RepeatLine, RepeatHandler, HistoryHandler, TInv, TextOK, Running, Calls
<1>2. RepeatLine \/ RepeatHandler
  BY DEF Pushing, HistoryHandler
<1>3. NoDo /\ tlv_buff.b = Values(cursor)
  <2>1. CASE RepeatLine
    BY <2>1, NotUnderDo DEF RepeatLine, Running, CleanState, Waiting
  <2>2. CASE RepeatHandler
    BY <2>2, RepeatOnNothing, NoLeaves DEF TInv, ControlOK
  <2> QED BY <1>2, <2>1, <2>2
<1>4. NoDo'
  BY <1>1, <1>3, FrameTypes, NoDoPushed
<1>5. AtCursor' /\ Waiting' /\ Walking' /\ Calling'
  BY <1>1, <1>3, CursorKept, KnownKept DEF CleanState, Waiting, Walking, Calling
<1> QED BY <1>4, <1>5, NoDoIsDoing, PTL DEF CleanState

\* A buffer that is reset where no leaf is on the way.
LEMMA ResetAtCursor ==
  ASSUME TInv, cursor' \in Params, Path[cursor'] = <<>>, tlv_buff' = Reset(tlv_buff)
  PROVE  AtCursor' /\ tlv_buff'.b = <<>> /\ Known(cursor)' /\ Values(cursor)' = <<>>
<1>1. tlv_buff'.b = <<>> /\ tlv_buff'.checkpoint = 0
  BY ResetIsSound DEF TInv
<1> QED BY <1>1 DEF AtCursor, Starts, Known, Values

LEMMA CleanLoadLine ==
  ASSUME TInv, CleanState, LoadLine, pc' = "file", clean'
  PROVE  CleanState'
<1>1. /\ frames' = Append(frames, [Frame("file", line) EXCEPT !.left = MaxFile])
      /\ tlv_buff' = Reset(tlv_buff) /\ Path[cursor] = <<>> /\ cursor' = cursor
      /\ pc = "dispatch" /\ cursor \in Params /\ line \in Seq(STRING)
  BY DEF LoadLine, ResetInMode, Running, TInv, ControlOK, TextOK
<1>2. NoDo'
  BY <1>1, FrameTypes, NotUnderDo, NoDoPushed DEF CleanState
<1>3. AtCursor'
  BY <1>1, ResetAtCursor
<1>4. Waiting' /\ Walking' /\ Calling'
  BY DEF Waiting, Walking, Calling
<1> QED BY <1>2, <1>3, <1>4, NoDoIsDoing, PTL DEF CleanState

LEMMA CleanEmptyLine ==
  ASSUME TInv, CleanState, EmptyLine \/ EndOfFile
  PROVE  CleanState'
<1>1. /\ UNCHANGED <<cursor, tlv_buff, holder>> /\ frames' = Below /\ frames # <<>>
      /\ pc' \in {"prompt", "finish"} /\ (pc' = "prompt" => pc = "dispatch")
      /\ pc \in {"dispatch", "file"}
  BY DEF EmptyLine, EndOfFile, Running, TInv, FramesOK
<1>2. NoDo'
  BY <1>1, NotUnderDo, NoDoPopped DEF CleanState
<1>3. AtCursor' /\ Waiting' /\ Walking' /\ Calling'
  BY <1>1, CursorKept, KnownKept DEF CleanState, Waiting, Walking, Calling
<1> QED BY <1>2, <1>3, NoDoIsDoing, PTL DEF CleanState

LEMMA CleanTreeLine ==
  ASSUME TInv, CleanState, TreeLine
  PROVE  CleanState'
<1>1. /\ pc = "dispatch" /\ pc' = "walk" /\ param' = cursor
      /\ UNCHANGED <<cursor, tlv_buff, holder, frames>>
  BY DEF TreeLine, Walk, Running
<1>2. NoDo'
  BY <1>1, NotUnderDo DEF CleanState, NoDo
<1>3. AtCursor' /\ Waiting' /\ Calling'
  BY <1>1, CursorKept DEF CleanState, Waiting, Calling
<1>4. Walking'
  BY <1>1 DEF CleanState, Waiting, AtCursor, Walking, Known, Values
<1> QED BY <1>2, <1>3, <1>4, NoDoIsDoing, PTL DEF CleanState

LEMMA CleanFileLine ==
  ASSUME TInv, CleanState, NEW l \in FileLines, FileLine(l), clean'
  PROVE  CleanState'
<1>1. /\ pc = "file" /\ pc' = "walk" /\ param' = cursor /\ cursor' = cursor
      /\ tlv_buff' = Reset(tlv_buff) /\ Path[cursor] = <<>> /\ cursor \in Params
      /\ frames' = WithTop([Top EXCEPT !.left = @ - 1]) /\ Top.left > 0 /\ frames # <<>>
      /\ Top.kind = "file"
  BY DEF FileLine, Walk, Running, ResetInMode, TInv, ControlOK, FramesOK
<1>2. NoDo'
  <2> DEFINE f == [Top EXCEPT !.left = @ - 1]
  <2>1. f \in FrameSet /\ f.kind # "do"
    BY <1>1, TopChanged DEF TInv, FramesOK
  <2>2. frames' = WithTop(f)
    BY <1>1
  <2> HIDE DEF f
  <2> QED BY <1>1, <2>1, <2>2, NoDoRetopped DEF CleanState
<1>3. AtCursor' /\ tlv_buff'.b = <<>> /\ Known(cursor)' /\ Values(cursor)' = <<>>
  BY <1>1, ResetAtCursor
<1>4. Walking'
  BY <1>1, <1>3 DEF Walking, Known, Values
<1>5. Waiting' /\ Calling'
  BY <1>1 DEF Waiting, Calling
<1> QED BY <1>2, <1>3, <1>4, <1>5, NoDoIsDoing, PTL DEF CleanState

LEMMA CleanDoLine ==
  ASSUME TInv, CleanState, DoLine
  PROVE  CleanState'
<1>1. /\ pc = "dispatch" /\ cursor \in Params /\ frames # <<>> /\ NoDo
      /\ frames \in Seq(FrameSet) /\ holder' = holder
  BY NotUnderDo DEF DoLine, Running, CleanState, TInv, ControlOK, FramesOK
<1>2. CASE Branch[cursor] = Config
  <2> DEFINE f == [Top EXCEPT !.kind = "do", !.old = cursor]
  <2>1. /\ frames' = WithTop(f) /\ cursor' = DoHook /\ tlv_buff' = Reset(tlv_buff)
        /\ pc' = "walk" /\ param' = DoHook
    BY <1>2 DEF DoLine, Walk
  <2>2. f \in FrameSet /\ f.kind = "do" /\ f.old = cursor
    BY <1>1, TopChanged
  <2> HIDE DEF f
  <2>3. AtCursor' /\ tlv_buff'.b = <<>> /\ Known(cursor)' /\ Values(cursor)' = <<>>
    BY <2>1, ResetAtCursor, TreeAssumption
  <2>4. Walking'
    BY <2>1, <2>3 DEF Walking, Known, Values
  <2>5. Waiting' /\ Calling'
    BY <2>1 DEF Waiting, Calling
  <2>6. UnderDo'
    BY <2>1, TreeAssumption DEF UnderDo
  <2>7. /\ Len(frames') = Len(frames) /\ Len(frames) \in Nat \ {0} /\ frames'[Len(frames)] = f
        /\ \A i \in 1..(Len(frames) - 1) : frames'[i] = frames[i]
    BY <1>1, <2>1, <2>2, NewTop, TopIsFrame
  <2>8. ASSUME NEW i \in 1..Len(frames'), frames'[i].kind = "do"
        PROVE  i = Len(frames') /\ Known(frames[i].old)' /\ UnderDo'
    <3>1. i = Len(frames)
      BY <1>1, <2>7, <2>8 DEF NoDo
    <3>2. frames'[i].old = cursor
      BY <2>2, <2>7, <3>1
    <3>3. Known(cursor)
      BY DEF CleanState, AtCursor
    <3>4. Known(frames[i].old)'
      BY <1>1, <3>2, <3>3 DEF Known
    <3> QED BY <2>6, <2>7, <3>1, <3>4
  <2>9. Doing'
    BY <2>8 DEF Doing
  <2> QED BY <2>3, <2>4, <2>5, <2>9 DEF CleanState
<1>3. CASE Branch[cursor] # Config
  <2>1. pc' = "finish" /\ UNCHANGED <<cursor, tlv_buff, holder, frames>>
    BY <1>3 DEF DoLine
  <2>2. AtCursor' /\ Waiting' /\ Walking' /\ Calling' /\ NoDo'
    BY <1>1, <2>1, CursorKept DEF CleanState, Waiting, Walking, Calling, NoDo
  <2> QED BY <2>2, NoDoIsDoing, PTL DEF CleanState
<1> QED BY <1>2, <1>3

LEMMA CleanGoUp ==
  ASSUME TInv, CleanState, GoUpLine
  PROVE  CleanState'
<1>1. /\ pc = "dispatch" /\ pc' = "finish" /\ frames' = frames
      /\ cursor \in Params /\ Sound(tlv_buff) /\ HolderOK
  BY DEF GoUpLine, Running, TInv, ControlOK
<1>2. NoDo'
  BY <1>1, NotUnderDo DEF CleanState, NoDo
<1>3. Waiting' /\ Walking' /\ Calling'
  BY <1>1 DEF Waiting, Walking, Calling
<1>4. AtCursor /\ tlv_buff.b = Values(cursor) /\ Known(cursor)
  BY <1>1 DEF CleanState, Waiting, AtCursor
<1>5. AtCursor'
  <2>1. CASE cursor = Root
    BY <1>4, <2>1, CursorKept DEF GoUpLine
  <2>2. CASE cursor # Root /\ Parent[cursor] = Root
    <3>1. cursor' = Root /\ tlv_buff' = Reset(tlv_buff)
      BY <2>2 DEF GoUpLine
    <3> QED BY <3>1, ResetAtCursor, TreeAssumption
  <2>3. CASE cursor # Root /\ Parent[cursor] # Root /\ ~Leaf(cursor)
    <3>1. cursor' = Parent[cursor] /\ UNCHANGED <<tlv_buff, holder>> /\ cursor # DoHook
      BY <2>3 DEF GoUpLine
    <3>2. Path[cursor'] = Path[cursor]
      BY <1>1, <2>3, <3>1, TreeAssumption
    <3> QED BY <1>4, <3>1, <3>2 DEF AtCursor, Starts, Known, Values
  <2>4. CASE cursor # Root /\ Parent[cursor] # Root /\ Leaf(cursor)
    <3>1. /\ cursor' = Parent[cursor] /\ tlv_buff' = Mark(Rewind(tlv_buff)) /\ cursor # DoHook
          /\ holder' = [holder EXCEPT ![cursor] = Nil] /\ tlv_buff.b # <<>>
      BY <2>4 DEF GoUpLine
    <3> DEFINE up == Path[Parent[cursor]]
    <3>2. /\ Path[cursor] = Append(up, cursor) /\ Parent[cursor] \in Params
          /\ \A i \in 1..Len(up) : up[i] # cursor
      BY <1>1, <2>4, <3>1, TreeAssumption
    <3>3. /\ up \in Seq(AllLeaves) /\ Len(up) \in Nat
          /\ \A i \in 1..Len(up) : up[i] \in AllLeaves
      BY <3>2, PathTypes
    <3>4. cursor \in AllLeaves
      BY <1>1, <2>4 DEF AllLeaves
    <3>5. Path[cursor'] = up
      BY <3>1
    <3> HIDE DEF up
    <3>6. Len(Path[cursor]) = Len(up) + 1 /\ \A i \in 1..Len(up) : Path[cursor][i] = up[i]
      BY <3>2, <3>3, <3>4, AppendProperties
    <3>7. \A i \in 1..Len(up) : holder'[up[i]] = holder[up[i]]
      BY <1>1, <3>1, <3>2, <3>3 DEF HolderOK
    <3>8. /\ Len(tlv_buff.b) = Len(up) + 1
          /\ \A i \in 1..Len(up) : tlv_buff.b[i] = <<up[i], holder[up[i]]>>
      BY <1>1, <1>4, <3>3, <3>6, ValuesTypes
    <3>9. /\ tlv_buff'.checkpoint = Len(up) /\ Len(tlv_buff'.b) = Len(up)
          /\ \A i \in 1..Len(up) : tlv_buff'.b[i] = tlv_buff.b[i]
      <4>1. Len(tlv_buff.b) - 1 = Len(up)
        BY <3>3, <3>8
      <4> QED BY <1>1, <3>1, <4>1, RewindIsSound
    <3>10. Known(cursor)'
      BY <1>4, <3>3, <3>5, <3>6, <3>7 DEF Known
    <3>11. Starts(cursor)'
      BY <3>3, <3>5, <3>7, <3>8, <3>9 DEF Starts, Values
    <3> QED BY <3>5, <3>9, <3>10, <3>11 DEF AtCursor
  <2> QED BY <2>1, <2>2, <2>3, <2>4
<1> QED BY <1>2, <1>3, <1>5, NoDoIsDoing, PTL DEF CleanState

LEMMA CleanGoTop ==
  ASSUME TInv, CleanState, GoTopLine
  PROVE  CleanState'
<1>1. pc = "dispatch" /\ pc' = "finish" /\ frames' = frames /\ cursor' = Root
  BY DEF GoTopLine, Running
<1>2. NoDo'
  BY <1>1, NotUnderDo DEF CleanState, NoDo
<1>3. Waiting' /\ Walking' /\ Calling'
  BY <1>1 DEF Waiting, Walking, Calling
<1>4. AtCursor'
  <2>1. CASE cursor = Root
    <3>1. tlv_buff' = tlv_buff /\ tlv_buff.checkpoint = 0
      BY <2>1, TreeAssumption DEF GoTopLine, CleanState, AtCursor
    <3> QED BY <1>1, <3>1, NoLeaves, TreeAssumption DEF AtCursor, Starts, Known
  <2>2. CASE cursor # Root
    BY <1>1, <2>2, ResetAtCursor, TreeAssumption DEF GoTopLine
  <2> QED BY <2>1, <2>2
<1> QED BY <1>2, <1>3, <1>4, NoDoIsDoing, PTL DEF CleanState

\* What has been walked becomes the way to the cursor.
LEMMA MarkAtCursor ==
  ASSUME TInv, NEW p \in Params, tlv_buff.b = Values(p), Known(p), cursor' = p, holder' = holder,
         tlv_buff'.checkpoint = Len(tlv_buff.b), Len(tlv_buff.b) <= Len(tlv_buff'.b),
         \A i \in 1..Len(tlv_buff.b) : tlv_buff'.b[i] = tlv_buff.b[i]
  PROVE  AtCursor'
<1>1. Len(tlv_buff.b) = Len(Path[p])
  BY ValuesTypes DEF TInv
<1>2. Known(cursor)' /\ Values(cursor)' = Values(p)
  BY DEF Known, Values
<1>3. Starts(cursor)'
  BY <1>1, <1>2 DEF Starts
<1> QED BY <1>1, <1>2, <1>3 DEF AtCursor

LEMMA CleanSubOptions ==
  ASSUME TInv, CleanState, SubOptions
  PROVE  CleanState'
<1>1. /\ pc = "walk" /\ pc' = "finish" /\ UNCHANGED <<frames, holder>> /\ cursor' = param
      /\ tlv_buff' = Mark(tlv_buff) /\ param # DoHook /\ param \in Params /\ frames # <<>>
      /\ Sound(tlv_buff)
  BY DEF SubOptions, Ends, Running, TInv, ControlOK, FramesOK
<1>2. tlv_buff.b = Values(param) /\ Known(param)
  BY <1>1 DEF CleanState, Walking
<1>3. AtCursor'
  <2>1. Len(tlv_buff.b) \in Nat
    BY <1>1, LenProperties DEF Sound, Buffers
  <2> QED BY <1>1, <1>2, <2>1, MarkIsSound, MarkAtCursor
<1>4. Waiting' /\ Walking' /\ Calling'
  BY <1>1 DEF Waiting, Walking, Calling
<1>5. UnderDo => UnderDo'
  BY <1>1 DEF UnderDo, Operational
<1>6. Doing'
  BY <1>1, <1>5, KnownKept, DoingKept DEF CleanState
<1> QED BY <1>3, <1>4, <1>6 DEF CleanState

LEMMA CleanConfig ==
  ASSUME TInv, CleanState, ConfigHandler, clean'
  PROVE  CleanState'
<1>1. /\ pc = "handler" /\ pc' = "finish" /\ UNCHANGED <<frames, holder>> /\ cursor' = Config
      /\ tlv_buff' = Mark(tlv_buff) /\ param \in Params /\ Sound(tlv_buff)
      /\ Handler[param] = "config" /\ tlv_buff.b = <<>>
  BY DEF ConfigHandler, Calls, Running, TInv, ControlOK
<1>2. ~UnderDo
  BY <1>1, ConfigAssumption, TreeAssumption, PathOfConfig DEF UnderDo, Operational
<1>3. NoDo'
  BY <1>1, <1>2 DEF CleanState, Doing, NoDo
<1>4. AtCursor'
  <2>1. tlv_buff'.checkpoint = 0
    BY <1>1, MarkIsSound
  <2> QED BY <1>1, <2>1, NoLeaves, PathOfConfig, TreeAssumption DEF AtCursor, Starts, Known
<1>5. Waiting' /\ Walking' /\ Calling'
  BY <1>1 DEF Waiting, Walking, Calling
<1> QED BY <1>3, <1>4, <1>5, NoDoIsDoing, PTL DEF CleanState

\* The way on from the parameter, by a command.
LEMMA CleanMatchCommand ==
  ASSUME TInv, CleanState, MatchCommand
  PROVE  CleanState'
<1>1. /\ pc = "walk" /\ pc' = "walk" /\ (frames' = frames \/ frames' = Asked) /\ frames # <<>>
      /\ UNCHANGED <<cursor, tlv_buff, holder>> /\ param \in Params
      /\ param' \in Matching(param, Head(todo))
  BY DEF MatchCommand, Matches, Running, TInv, ControlOK, FramesOK
<1>2. param' \in Options[param] /\ ~Leaf(param')
  BY <1>1, MatchesAnOption
<1>3. AtCursor' /\ Waiting' /\ Calling'
  BY <1>1, CursorKept DEF CleanState, Waiting, Calling
<1>4. Walking'
  <2>1. Path[param'] = Path[param]
    BY <1>1, <1>2, PathStep
  <2> QED BY <1>1, <2>1 DEF CleanState, Walking, Known, Values
<1>5. UnderDo => UnderDo'
  BY <1>1, <1>2, OptionOfDoHook, OptionOfOperational DEF UnderDo
<1>6. Doing'
  BY <1>1, <1>5, KnownKept, DoingKept DEF CleanState
<1> QED BY <1>3, <1>4, <1>6 DEF CleanState

\* By a leaf: its value is new, those on the way to it stay.
LEMMA CleanMatchLeaf ==
  ASSUME TInv, CleanState, MatchLeaf
  PROVE  CleanState'
<1>1. /\ pc = "walk" /\ pc' = "walk" /\ frames' = frames /\ frames # <<>>
      /\ cursor' = cursor /\ param \in Params /\ cursor \in Params
      /\ param' \in Leaves(param, Head(todo)) /\ todo \in Seq(STRING) /\ todo # <<>>
      /\ holder' = [holder EXCEPT ![param'] = Head(todo)]
      /\ tlv_buff' = Collect(tlv_buff, <<param', Head(todo)>>) /\ Sound(tlv_buff) /\ HolderOK
  BY DEF MatchLeaf, Matches, Running, TInv, ControlOK, FramesOK, TextOK
<1> DEFINE q == param'
           t == Head(todo)
           way == Path[param]
<1>2. q \in Options[param] /\ Leaf(q) /\ q \in Params /\ q \in AllLeaves
  BY <1>1, MatchesAnOption DEF AllLeaves
<1>3. t \in STRING /\ t # Nil
  BY <1>1, TailTypes, TreeAssumption
<1>4. Path[q] = Append(way, q) /\ \A i \in 1..Len(way) : way[i] # q
  BY <1>1, <1>2, PathStep
<1>5. /\ holder' = [holder EXCEPT ![q] = t]
      /\ tlv_buff' = Collect(tlv_buff, <<q, t>>) /\ param' = q
  BY <1>1
<1> HIDE DEF q, t
<1>6. /\ way \in Seq(AllLeaves) /\ Len(way) \in Nat
      /\ \A i \in 1..Len(way) : way[i] \in AllLeaves
  BY <1>1, PathTypes
<1>7. /\ tlv_buff.b = Values(param) /\ Known(param) /\ Len(tlv_buff.b) = Len(way)
      /\ \A i \in 1..Len(way) : tlv_buff.b[i] = <<way[i], holder[way[i]]>>
  BY <1>1, ValuesTypes DEF CleanState, Walking
<1> HIDE DEF way
<1>8. /\ Len(Path[q]) = Len(way) + 1 /\ Path[q][Len(way) + 1] = q
      /\ \A i \in 1..Len(way) : Path[q][i] = way[i]
  BY <1>2, <1>4, <1>6, AppendProperties
<1>9. <<q, t>> \in Units
  BY <1>2, <1>3, UnitTypes
<1>10. /\ tlv_buff'.checkpoint = tlv_buff.checkpoint /\ tlv_buff'.b = Append(tlv_buff.b, <<q, t>>)
       /\ tlv_buff'.b \in Seq(Units) /\ tlv_buff.b \in Seq(Units)
  BY <1>1, <1>5, <1>9, CollectIsSound DEF Sound, Buffers
<1>11. /\ Len(tlv_buff'.b) = Len(way) + 1 /\ tlv_buff'.b[Len(way) + 1] = <<q, t>>
       /\ \A i \in 1..Len(way) : tlv_buff'.b[i] = tlv_buff.b[i]
  BY <1>7, <1>9, <1>10, AppendProperties
<1>12. holder'[q] = t /\ \A p \in AllLeaves \ {q} : holder'[p] = holder[p]
  BY <1>1, <1>2, <1>5 DEF HolderOK
<1>13. HolderOK'
  BY <1>1, <1>3, <1>5 DEF HolderOK
<1>14. Walking'
  <2>1. \A i \in 1..Len(Path[q]) : tlv_buff'.b[i] = <<Path[q][i], holder'[Path[q][i]]>>
    <3>1. ASSUME NEW i \in 1..Len(way)
          PROVE  tlv_buff'.b[i] = <<Path[q][i], holder'[Path[q][i]]>>
      BY <1>4, <1>6, <1>7, <1>8, <1>11, <1>12
    <3> QED BY <1>6, <1>8, <1>11, <1>12, <3>1
  <2>2. /\ Values(param)' \in Seq(Units) /\ Len(Values(param)') = Len(Path[q])
        /\ \A i \in 1..Len(Path[q]) : Values(param)'[i] = <<Path[q][i], holder'[Path[q][i]]>>
    <3>1. Values(param)' = [i \in 1..Len(Path[q]) |-> <<Path[q][i], holder'[Path[q][i]]>>]
      BY <1>5 DEF Values
    <3>2. holder' \in [AllLeaves -> STRING \cup {Nil}]
      BY <1>13 DEF HolderOK
    <3> HIDE DEF q
    <3> QED BY <1>2, <3>1, <3>2, ValuesOf
  <2>3. tlv_buff'.b = Values(param)'
    <3>1. Len(tlv_buff'.b) = Len(Values(param)')
      BY <1>8, <1>11, <2>2
    <3>2. \A i \in 1..Len(tlv_buff'.b) : tlv_buff'.b[i] = Values(param)'[i]
      BY <1>8, <1>11, <2>1, <2>2
    <3> QED BY <1>10, <2>2, <3>1, <3>2, SameBuffers
  <2>4. ASSUME NEW i \in 1..Len(Path[q])
        PROVE  holder'[Path[q][i]] # Nil
    <3>1. CASE i = Len(way) + 1
      BY <1>3, <1>8, <1>12, <3>1
    <3>2. CASE i \in 1..Len(way)
      BY <1>4, <1>6, <1>7, <1>8, <1>12, <3>2 DEF Known, way
    <3> QED BY <1>6, <1>8, <3>1, <3>2
  <2> QED BY <1>5, <2>3, <2>4 DEF Walking, Known
<1>15. AtCursor'
  <2> DEFINE here == Path[cursor]
  <2>1. /\ Len(here) \in Nat /\ Len(here) <= Len(way)
        /\ \A i \in 1..Len(here) : here[i] \in AllLeaves
    BY <1>1, <1>7, PathTypes DEF CleanState, AtCursor, Starts
  <2>2. \A i \in 1..Len(here) : tlv_buff.b[i] = <<here[i], holder[here[i]]>>
    BY <1>1, ValuesTypes DEF CleanState, AtCursor, Starts
  <2>3. ASSUME NEW i \in 1..Len(here)
        PROVE  /\ here[i] # q /\ holder'[here[i]] = holder[here[i]]
               /\ tlv_buff'.b[i] = <<here[i], holder'[here[i]]>> /\ holder'[here[i]] # Nil
    <3>1. i \in 1..Len(way)
      BY <1>6, <2>1
    <3>2. <<here[i], holder[here[i]]>> = <<way[i], holder[way[i]]>>
      BY <1>7, <2>2, <3>1
    <3>3. here[i] # q /\ here[i] \in AllLeaves
      BY <1>4, <2>1, <3>1, <3>2
    <3>4. holder'[here[i]] = holder[here[i]]
      BY <1>12, <3>3
    <3>5. holder[here[i]] # Nil
      BY DEF CleanState, AtCursor, Known
    <3>6. tlv_buff'.b[i] = <<here[i], holder'[here[i]]>>
      BY <1>11, <2>2, <3>1, <3>4
    <3> QED BY <3>3, <3>4, <3>5, <3>6
  <2>4. Path[cursor'] = here
    BY <1>1
  <2> HIDE DEF here
  <2>5. Known(cursor)'
    BY <2>3, <2>4 DEF Known
  <2>6. Len(here) <= Len(tlv_buff'.b)
    BY <1>6, <1>11, <2>1
  <2>7. Starts(cursor)'
    BY <2>3, <2>4, <2>6 DEF Starts, Values
  <2>8. tlv_buff'.checkpoint = Len(Path[cursor'])
    BY <1>1, <1>10 DEF CleanState, AtCursor
  <2> QED BY <2>5, <2>7, <2>8 DEF AtCursor
<1>16. Waiting' /\ Calling'
  BY <1>1 DEF Waiting, Calling
<1>17. UnderDo => UnderDo'
  <2>1. param = DoHook \/ Operational(param) => Operational(param')
    BY <1>1, <1>2, <1>5, OptionOfDoHook, OptionOfOperational
  <2> QED BY <1>1, <2>1 DEF UnderDo
<1>18. \A p \in Params : Known(p) => Known(p)'
  <2>1. ASSUME NEW p \in Params, Known(p), NEW i \in 1..Len(Path[p])
        PROVE  holder'[Path[p][i]] # Nil
    BY <1>3, <1>12, <2>1, PathTypes DEF Known
  <2> QED BY <2>1 DEF Known
<1>19. Doing'
  BY <1>1, <1>17, <1>18, DoingKept DEF CleanState
<1> QED BY <1>14, <1>15, <1>16, <1>19 DEF CleanState

LEMMA CodeCollected ==
  ASSUME NEW s, Sound(s), NEW p \in Params
  PROVE  LET t == Collect(s, Code(p)) IN
           /\ t.b = Append(s.b, Code(p)) /\ t.checkpoint = s.checkpoint
           /\ Len(s.b) \in Nat /\ Len(t.b) = Len(s.b) + 1
           /\ \A i \in 1..Len(s.b) : t.b[i] = s.b[i]
<1>1. s.b \in Seq(Units) /\ Code(p) \in Units
  BY UnitTypes DEF Sound, Buffers
<1>2. Collect(s, Code(p)).b = Append(s.b, Code(p)) /\ Collect(s, Code(p)).checkpoint = s.checkpoint
  BY <1>1, CollectIsSound
<1> QED BY <1>1, <1>2, AppendProperties, LenProperties

LEMMA CleanEnterMode ==
  ASSUME TInv, CleanState, EnterMode
  PROVE  CleanState'
<1>1. /\ pc = "walk" /\ pc' \in {"finish", "handler"} /\ UNCHANGED <<frames, holder, param>>
      /\ cursor' = param /\ tlv_buff' = Collect(Mark(tlv_buff), Code(param))
      /\ "/" \in Caps[param] /\ param # Root /\ param \in Params /\ frames # <<>>
      /\ Sound(tlv_buff)
  BY DEF EnterMode, Ends, Running, TInv, ControlOK, FramesOK
<1>2. tlv_buff.b = Values(param) /\ Known(param)
  BY <1>1 DEF CleanState, Walking
<1>3. param # DoHook /\ Handler[param] # "repeat"
  BY <1>1, TreeAssumption, RepeatAssumption
<1> DEFINE m == Mark(tlv_buff)
<1>4. Sound(m) /\ m.b = tlv_buff.b /\ m.checkpoint = Len(tlv_buff.b)
  BY <1>1, MarkIsSound
<1>5. tlv_buff' = Collect(m, Code(param))
  BY <1>1
<1> HIDE DEF m
<1>6. /\ tlv_buff'.b = Append(tlv_buff.b, Code(param)) /\ tlv_buff'.checkpoint = Len(tlv_buff.b)
      /\ Len(tlv_buff.b) \in Nat /\ Len(tlv_buff'.b) = Len(tlv_buff.b) + 1
      /\ \A i \in 1..Len(tlv_buff.b) : tlv_buff'.b[i] = tlv_buff.b[i]
  BY <1>1, <1>4, <1>5, CodeCollected
<1>7. AtCursor'
  <2>1. Len(tlv_buff.b) <= Len(tlv_buff'.b)
    BY <1>6
  <2> QED BY <1>1, <1>2, <1>6, <2>1, MarkAtCursor
<1>8. Calling'
  BY <1>1, <1>2, <1>3, <1>6 DEF Calling, Values, Code
<1>9. Waiting' /\ Walking'
  BY <1>1 DEF Waiting, Walking
<1>10. UnderDo => UnderDo'
  BY <1>1, <1>3 DEF UnderDo, Operational
<1>11. Doing'
  BY <1>1, <1>10, KnownKept, DoingKept DEF CleanState
<1> QED BY <1>7, <1>8, <1>9, <1>11 DEF CleanState

LEMMA CleanExecute ==
  ASSUME TInv, CleanState, Execute
  PROVE  CleanState'
<1>1. /\ pc = "walk" /\ pc' = "handler" /\ UNCHANGED <<cursor, frames, holder, param>>
      /\ tlv_buff' = IF Handler[param] \in {"config", "repeat"} THEN tlv_buff
                     ELSE Collect(tlv_buff, Code(param))
      /\ param \in Params /\ frames # <<>> /\ Sound(tlv_buff)
  BY DEF Execute, Running, TInv, ControlOK, FramesOK
<1>2. tlv_buff.b = Values(param) /\ AtCursor
  BY <1>1 DEF CleanState, Walking
<1>3. /\ tlv_buff'.checkpoint = tlv_buff.checkpoint /\ Len(tlv_buff.b) <= Len(tlv_buff'.b)
      /\ \A i \in 1..Len(tlv_buff.b) : tlv_buff'.b[i] = tlv_buff.b[i]
      /\ Handler[param] \notin {"config", "repeat"} =>
           tlv_buff'.b = Append(tlv_buff.b, Code(param))
      /\ Len(tlv_buff.b) \in Nat
  <2>1. CASE Handler[param] \in {"config", "repeat"}
    BY <1>1, <2>1, LenProperties DEF Sound, Buffers
  <2>2. CASE Handler[param] \notin {"config", "repeat"}
    <3>1. tlv_buff' = Collect(tlv_buff, Code(param))
      BY <1>1, <2>2
    <3>2. /\ tlv_buff'.b = Append(tlv_buff.b, Code(param))
          /\ tlv_buff'.checkpoint = tlv_buff.checkpoint
          /\ Len(tlv_buff.b) \in Nat /\ Len(tlv_buff'.b) = Len(tlv_buff.b) + 1
          /\ \A i \in 1..Len(tlv_buff.b) : tlv_buff'.b[i] = tlv_buff.b[i]
      BY <1>1, <3>1, CodeCollected
    <3> QED BY <2>2, <3>2
  <2> QED BY <2>1, <2>2
<1>4. AtCursor'
  <2> DEFINE n == Len(Path[cursor])
  <2>1. n \in Nat
    BY PathTypes DEF TInv, ControlOK
  <2>2. /\ tlv_buff.checkpoint = n /\ n <= Len(tlv_buff.b) /\ Known(cursor)
        /\ \A i \in 1..n : tlv_buff.b[i] = Values(cursor)[i]
    BY <1>2 DEF AtCursor, Starts
  <2>3. n <= Len(tlv_buff'.b) /\ \A i \in 1..n : tlv_buff'.b[i] = tlv_buff.b[i]
    BY <1>3, <2>1, <2>2
  <2>4. cursor' = cursor /\ Values(cursor)' = Values(cursor) /\ Known(cursor)'
    BY <1>1, <2>2 DEF Values, Known
  <2> QED BY <1>3, <2>2, <2>3, <2>4 DEF AtCursor, Starts
<1>5. Calling'
  <2>1. Handler[param] = "repeat" => tlv_buff'.b = <<>>
    BY <1>1, <1>2, PathOfRepeat, NoLeaves
  <2> QED BY <1>1, <1>2, <1>3, <2>1 DEF Calling, Values, Code
<1>6. Waiting' /\ Walking'
  BY <1>1 DEF Waiting, Walking
<1>7. UnderDo => UnderDo'
  BY <1>1 DEF UnderDo
<1>8. Doing'
  BY <1>1, <1>7, KnownKept, DoingKept DEF CleanState
<1> QED BY <1>4, <1>5, <1>6, <1>8 DEF CleanState

LEMMA CleanDoReturns ==
  ASSUME TInv, CleanState, DoReturns \/ DoEntersMode
  PROVE  CleanState'
<1>1. /\ pc = "finish" /\ pc' = "finish" /\ frames # <<>> /\ Top.kind = "do"
      /\ frames' = WithTop([Top EXCEPT !.kind = "line"]) /\ holder' = holder
      /\ frames \in Seq(FrameSet) /\ HolderOK /\ Sound(tlv_buff)
      /\ \/ UNCHANGED <<cursor, tlv_buff>>
         \/ cursor' = Top.old /\ tlv_buff' \in Refills(tlv_buff, Values(Top.old))
  BY DEF DoReturns, DoEntersMode, Running, TInv, FramesOK
<1>2. NoDo'
  <2> DEFINE f == [Top EXCEPT !.kind = "line"]
  <2>1. f \in FrameSet /\ f.kind # "do"
    BY <1>1, TopChanged
  <2>2. frames' = WithTop(f)
    BY <1>1
  <2> HIDE DEF f
  <2> QED BY <1>1, <2>1, <2>2, NoDoRetopped DEF CleanState
<1>3. Waiting' /\ Walking' /\ Calling'
  BY <1>1 DEF Waiting, Walking, Calling
<1>4. AtCursor'
  <2>1. CASE UNCHANGED <<cursor, tlv_buff>>
    BY <1>1, <2>1, CursorKept DEF CleanState
  <2>2. CASE cursor' = Top.old /\ tlv_buff' \in Refills(tlv_buff, Values(Top.old))
    <3>1. PICK p \in Params : p = Top.old
      BY <1>1, TopIsFrame DEF TInv, FramesOK, Top
    <3>2. Known(p)
      BY <1>1, <3>1, TopIsFrame DEF CleanState, Doing, Top
    <3>3. Values(p) \in Seq(Units) /\ Len(Values(p)) = Len(Path[p])
      BY <1>1, ValuesTypes
    <3>4. tlv_buff'.b = Values(p) /\ tlv_buff'.checkpoint = Len(Path[p])
      BY <1>1, <2>2, <3>1, <3>3, RefillsAreSound
    <3>5. cursor' = p /\ Known(cursor)' /\ Values(cursor)' = Values(p)
      BY <1>1, <2>2, <3>1, <3>2 DEF Known, Values
    <3>6. Len(Path[p]) \in Nat
      BY PathTypes
    <3> QED BY <3>3, <3>4, <3>5, <3>6 DEF AtCursor, Starts
  <2> QED BY <1>1, <2>1, <2>2
<1> QED BY <1>2, <1>3, <1>4, NoDoIsDoing, PTL DEF CleanState

\* After a line only the values on the way to the cursor are left.
LEMMA SettleAtCursor ==
  ASSUME TInv, Settle, UNCHANGED <<cursor, holder>>, AtCursor \/ cursor = Root
  PROVE  AtCursor' /\ tlv_buff'.b = Values(cursor)'
<1>1. cursor \in Params /\ Sound(tlv_buff) /\ HolderOK
  BY DEF TInv, ControlOK
<1>2. CASE cursor = Root
  <2>1. tlv_buff' = Reset(tlv_buff)
    BY <1>2 DEF Settle
  <2> QED BY <1>2, <2>1, ResetAtCursor, TreeAssumption
<1>3. CASE cursor # Root
  <2> DEFINE n == Len(Path[cursor])
  <2>1. /\ tlv_buff' = RestoreBuffer(tlv_buff) /\ tlv_buff.checkpoint = n /\ Known(cursor)
        /\ n <= Len(tlv_buff.b) /\ \A i \in 1..n : tlv_buff.b[i] = Values(cursor)[i]
    BY <1>3 DEF Settle, AtCursor, Starts
  <2>2. /\ Sound(tlv_buff)' /\ tlv_buff'.checkpoint = n /\ Len(tlv_buff'.b) = n
        /\ \A i \in 1..n : tlv_buff'.b[i] = tlv_buff.b[i]
    BY <1>1, <2>1, RestoreIsSound
  <2>3. Values(cursor) \in Seq(Units) /\ Len(Values(cursor)) = n /\ n \in Nat
    BY <1>1, ValuesTypes, PathTypes
  <2>4. tlv_buff'.b \in Seq(Units)
    BY <2>2 DEF Sound, Buffers
  <2>5. tlv_buff'.b = Values(cursor)
    BY <2>1, <2>2, <2>3, <2>4, SameBuffers
  <2>6. cursor' = cursor /\ Values(cursor)' = Values(cursor) /\ Known(cursor)'
    BY <2>1 DEF Values, Known
  <2> QED BY <2>2, <2>3, <2>5, <2>6 DEF AtCursor, Starts
<1> QED BY <1>2, <1>3

LEMMA CleanFinishFileLine ==
  ASSUME TInv, CleanState, FinishFileLine
  PROVE  CleanState'
<1>1. /\ pc' = "file" /\ UNCHANGED <<cursor, holder, frames>> /\ Settle /\ Top.kind = "file"
  BY DEF FinishFileLine
<1>2. NoDo'
  BY <1>1, NotUnderDo DEF CleanState, NoDo
<1>3. AtCursor'
  BY <1>1, SettleAtCursor DEF CleanState
<1>4. Waiting' /\ Walking' /\ Calling'
  BY <1>1 DEF Waiting, Walking, Calling
<1> QED BY <1>2, <1>3, <1>4, NoDoIsDoing, PTL DEF CleanState

\* At the prompt of the root the buffer is in order again, whatever was in it.
LEMMA CleanFinishLine ==
  ASSUME TInv, CInv, FinishLine, clean'
  PROVE  CleanState'
<1>1. /\ fate = "up" /\ pc = "finish" /\ UNCHANGED <<cursor, holder>> /\ frames' = Below
      /\ Settle /\ Top.kind = "line" /\ frames # <<>> /\ frames \in Seq(FrameSet)
      /\ pc' \in {"prompt", "finish"} /\ (clean \/ (cursor = Root /\ Len(frames) = 1))
  BY DEF FinishLine, Running, TInv, FramesOK
<1>2. NoDo'
  <2>1. CASE clean
    BY <1>1, <2>1, NotUnderDo, NoDoPopped DEF CInv, CleanState
  <2>2. CASE Len(frames) = 1
    BY <1>1, <2>2, BelowTop DEF NoDo
  <2> QED BY <1>1, <2>1, <2>2
<1>3. AtCursor' /\ tlv_buff'.b = Values(cursor)'
  BY <1>1, SettleAtCursor DEF CInv, CleanState
<1>4. Waiting' /\ Walking' /\ Calling'
  BY <1>1, <1>3 DEF Waiting, Walking, Calling
<1> QED BY <1>2, <1>3, <1>4, NoDoIsDoing, PTL DEF CleanState

LEMMA CleanStep ==
  ASSUME TInv, CInv, [Next]_vars
  PROVE  CInv'
<1> SUFFICES ASSUME fate' = "up", clean'
             PROVE  CleanState'
  BY DEF CInv
<1>1. CASE FinishLine
  BY <1>1, CleanFinishLine
<1>2. CASE ~FinishLine
  <2>1. ~Ending /\ ~ExitHandler
    BY DEF Ending, DispatchFault, WalkFault, HandlerFault, DoFault, Fault, ExitHandler
  <2>2. CASE Passing \/ ChoiceRefused \/ LoadLine
    <3>1. CleanState
      BY <2>2 DEF Passing, ClearScreenLine, WalkFails, Expand, PlainHandler, HistoryRefused,
                  ChoiceRefused, LoadLine, ResetInMode, CInv
    <3> QED BY <2>2, <3>1, CleanPassing, CleanLoadLine
  <2>3. CASE Pushing
    <3>1. CleanState
      BY <2>3 DEF Pushing, RepeatLine, RepeatHandler, HistoryHandler, CInv
    <3> QED BY <2>3, <3>1, CleanPushing
  <2>4. CASE \/ (\E l \in Lines : TypeLine(l)) \/ (\E l \in FileLines : FileLine(l))
            \/ EmptyLine \/ EndOfFile \/ TreeLine \/ DoLine \/ GoUpLine \/ GoTopLine
    <3>1. CleanState
      BY <2>4 DEF TypeLine, FileLine, ResetInMode, EmptyLine, EndOfFile, TreeLine, DoLine,
                  GoUpLine, GoTopLine, CInv
    <3> QED BY <2>4, <3>1, CleanTypedLine, CleanFileLine, CleanEmptyLine, CleanTreeLine,
            CleanDoLine, CleanGoUp, CleanGoTop
  <2>5. CASE MatchCommand \/ MatchLeaf \/ SubOptions \/ EnterMode \/ Execute \/ ConfigHandler
    <3>1. CleanState
      BY <2>5 DEF MatchCommand, MatchLeaf, SubOptions, EnterMode, Execute, ConfigHandler, CInv
    <3> QED BY <2>5, <3>1, CleanMatchCommand, CleanMatchLeaf, CleanSubOptions, CleanEnterMode,
            CleanExecute, CleanConfig
  <2>6. CASE DoReturns \/ DoEntersMode \/ FinishFileLine
    <3>1. CleanState
      BY <2>6 DEF DoReturns, DoEntersMode, FinishFileLine, CInv
    <3> QED BY <2>6, <3>1, CleanDoReturns, CleanFinishFileLine
  <2>7. CASE UNCHANGED vars
    <3>1. CleanState
      BY <2>7 DEF vars, CInv
    <3> QED BY <2>7, <3>1 DEF vars, CleanState, AtCursor, Starts, Known, Values, Waiting, Walking,
                              Calling, Code, Doing, UnderDo
  <2> QED BY <1>2, <2>1, <2>2, <2>3, <2>4, <2>5, <2>6, <2>7
          DEF Next, Rest, Ending, Passing, Pushing
<1> QED BY <1>1, <1>2

LEMMA CleanInit == Init => CInv
<1> SUFFICES ASSUME Init PROVE CleanState
  BY DEF CInv
<1>1. tlv_buff.b = <<>> /\ tlv_buff.checkpoint = 0 /\ Path[cursor] = <<>> /\ pc = "prompt"
      /\ frames = <<>> /\ cursor \in Params
  BY TreeAssumption DEF Init, NewBuffer
<1>2. AtCursor /\ tlv_buff.b = Values(cursor)
  BY <1>1, NoLeaves DEF AtCursor
<1> QED BY <1>1, <1>2 DEF CleanState, Waiting, Walking, Calling, Doing

\* What a callback below the leaf with the name of a server is called with.
LEMMA ServerArgs ==
  ASSUME TInv, CleanState, pc = "handler", Handler[param] \in {"server", "show_server"}
  PROVE  HasName /\ (Handler[param] = "server" => ~HasStranger)
<1>1. param \in Params /\ HolderOK
  BY DEF TInv, ControlOK
<1> DEFINE way == Path[param]
           b == tlv_buff.b
<1>2. /\ Len(way) \in Nat /\ \A i \in 1..Len(way) : way[i] \in Params
      /\ Values(param) \in Seq(Units) /\ Len(Values(param)) = Len(way)
      /\ \A i \in 1..Len(way) : Values(param)[i] = <<way[i], holder[way[i]]>>
  BY <1>1, PathTypes, ValuesTypes
<1>3. b = Append(Values(param), Code(param))
  BY DEF CleanState, Calling
<1> HIDE DEF way, b
<1>4. /\ b \in Seq(Units) /\ Len(b) = Len(way) + 1
      /\ \A i \in 1..Len(way) : b[i] = Values(param)[i]
  BY <1>1, <1>2, <1>3, UnitTypes, AppendProperties
<1>5. Len(b) - 1 = Len(way) /\ Len(way) <= Len(b)
  BY <1>2, <1>4
<1>6. Args = SubSeq(b, 1, Len(way))
  BY <1>5 DEF Args, b
<1>7. Len(Args) = Len(way) /\ \A i \in 1..Len(way) : Args[i] = b[i]
  BY <1>2, <1>4, <1>5, <1>6, FrontOfSeq
<1>8. \A i \in 1..Len(way) : Id(Args[i]) = Name[way[i]]
  <2>1. SUFFICES ASSUME NEW i \in 1..Len(way) PROVE Id(Args[i]) = Name[way[i]]
    OBVIOUS
  <2>2. Args[i] = <<way[i], holder[way[i]]>>
    BY <1>2, <1>4, <1>7
  <2>3. Args[i][1] = way[i] /\ way[i] # "CMDCODE"
    BY <1>2, <2>2, TreeAssumption
  <2> QED BY <2>3 DEF Id
<1> QED BY <1>1, <1>7, <1>8, ServerAssumption DEF HasName, HasStranger, way

LEMMA SafeStep ==
  ASSUME TInv, CInv, CommandsSafe, [Next]_vars
  PROVE  CommandsSafe'
<1>1. CASE Ending
  <2>1. PICK why \in Faults : Fault(why) /\ fate = "up"
    BY <1>1 DEF Ending, DispatchFault, WalkFault, HandlerFault, DoFault, Faults, Running, Calls,
                Ends
  <2>2. fate' = why /\ clean' = clean
    BY <2>1 DEF Fault
  <2> SUFFICES ASSUME clean PROVE fate' \notin {"unknown_leaf", "no_name", "impossible", "underrun"}
    BY <2>2 DEF CommandsSafe
  <2>3. CleanState
    BY <2>1 DEF CInv
  <2>4. CASE DispatchFault
    <3>1. pc = "dispatch" /\ cursor \in Params
      BY <2>4 DEF DispatchFault, Running, TInv, ControlOK
    <3>2. tlv_buff.b = Values(cursor) /\ Len(Values(cursor)) = Len(Path[cursor])
      BY <2>3, <3>1, ValuesTypes DEF CleanState, Waiting, TInv
    <3>3. ASSUME Leaf(cursor) PROVE Path[cursor] # <<>>
      <4>1. cursor \in Params \ {Root, DoHook}
        BY <3>1, <3>3, TreeAssumption DEF Leaf
      <4>2. Parent[cursor] \in Params /\ Path[cursor] = Append(Path[Parent[cursor]], cursor)
        BY <3>3, <4>1, TreeAssumption
      <4>3. Path[Parent[cursor]] \in Seq(AllLeaves) /\ cursor \in AllLeaves
        BY <3>1, <3>3, <4>2, PathTypes DEF AllLeaves
      <4> QED BY <4>2, <4>3, AppendProperties
    <3>4. ASSUME Leaf(cursor) PROVE tlv_buff.b # <<>>
      BY <3>1, <3>2, <3>3, <3>4, PathTypes, EmptySeq
    <3> QED BY <2>4, <3>4 DEF DispatchFault, Fault
  <2>5. CASE WalkFault
    BY <2>5 DEF WalkFault, Fault
  <2>6. CASE HandlerFault
    BY <2>3, <2>6, ServerArgs DEF HandlerFault, Calls, Running
  <2>7. CASE DoFault
    <3>1. UnderDo
      BY <2>3, <2>7, TopIsFrame DEF DoFault, Running, TInv, FramesOK, CleanState, Doing, Top
    <3> QED BY <2>7, <3>1 DEF DoFault, Fault, UnderDo
  <2> QED BY <1>1, <2>4, <2>5, <2>6, <2>7 DEF Ending
<1>2. CASE ~Ending
  <2>1. fate' \in {"up", "exit"} \/ (fate' = fate /\ clean' = clean)
    BY <1>2 DEF Next, vars, Rest, Ending, TypeLine, HistoryHandler, EmptyLine, TreeLine, DoLine,
                RepeatLine, GoUpLine, GoTopLine, ClearScreenLine, LoadLine, FileLine, EndOfFile,
                MatchCommand, Matches, MatchLeaf, ChoiceRefused, WalkFails, SubOptions, Expand,
                EnterMode, Execute, PlainHandler, ConfigHandler, HistoryRefused, RepeatHandler,
                ExitHandler, DoReturns, DoEntersMode, FinishFileLine, FinishLine, Running, Ends,
                Calls
  <2> QED BY <2>1 DEF CommandsSafe
<1> QED BY <1>1, <1>2

LEMMA CleanAlways == Spec => [](TInv /\ CInv /\ CommandsSafe)
<1>1. Init => TInv /\ CInv /\ CommandsSafe
  BY TypeInit, CleanInit DEF Init, CommandsSafe
<1>2. TInv /\ CInv /\ CommandsSafe /\ [Next]_vars => (TInv /\ CInv /\ CommandsSafe)'
  BY TypeStep, CleanStep, SafeStep
<1> QED BY <1>1, <1>2, PTL DEF Spec

\* Whenever a line is awaited in a mode, the buffer holds the values of the
\* leaves on the way to the cursor and nothing else, and returns to them:
\* however the mode was reached, left for another or interrupted by `do`.
THEOREM BufferIsCursor == Spec => []BufferFitsCursor
<1>1. TInv /\ CInv => BufferFitsCursor
  <2> SUFFICES ASSUME TInv, CInv, fate = "up", pc = "prompt", clean
               PROVE  /\ tlv_buff.b = Values(cursor) /\ tlv_buff.checkpoint = Len(tlv_buff.b)
                      /\ \A i \in 1..Len(Path[cursor]) : holder[Path[cursor][i]] # Nil
    BY DEF BufferFitsCursor
  <2>1. AtCursor /\ tlv_buff.b = Values(cursor)
    BY DEF CInv, CleanState, Waiting
  <2>2. Len(Values(cursor)) = Len(Path[cursor])
    BY ValuesTypes DEF TInv, ControlOK
  <2> QED BY <2>1, <2>2 DEF AtCursor, Known
<1> QED BY <1>1, CleanAlways, PTL

\* A callback is called with the values of all the leaves above its parameter
\* and the code of the command, whatever part of the way was typed in modes.
THEOREM HandlerGetsPath == Spec => []HandlerSeesPath
<1>1. CInv => HandlerSeesPath
  BY DEF CInv, CleanState, Calling, HandlerSeesPath
<1> QED BY <1>1, CleanAlways, PTL

\* While nothing has spoiled the buffer no line drives a callback into its
\* assert(0) or to a null name, `do` to the case it takes for impossible, or
\* `cd..` below the buffer.
THEOREM CommandsAreSafe == Spec => []CommandsSafe
BY CleanAlways, PTL
================================================================================
