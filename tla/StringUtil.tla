-------------------------------- MODULE StringUtil -------------------------------
(****************************************************************************)
(* string_util.c: the tokeniser, whose words stay in a static array from    *)
(* one call to the next, and the substitution of a variable in a line.  A   *)
(* string is the sequence of its characters.  A word is shorter than        *)
(* LEAF_VALUE_HOLDER_SIZE.                                                  *)
(****************************************************************************)
EXTENDS Integers, Sequences, FiniteSets

CONSTANTS MaxTokens,   \* MAX_CMD_TREE_DEPTH
          Chars,       \* the characters
          Spaces,      \* the characters isspace accepts
          Delims,      \* the delimiters tokenizer is called with
          Strings,     \* the strings given to the tokeniser
          Texts, Sub, New  \* lines, the variable in them and its values

\* A variable, "$INT_STORE1", holds its first character nowhere else, and a value,
\* the digits of an int, is not so much longer that it reaches behind the end of a
\* line that ends with the variable (see Replaced).
ASSUME StringAssumption ==
  /\ MaxTokens \in Nat \ {0}
  /\ Strings \subseteq Seq(Chars) /\ Texts \subseteq Seq(Chars) /\ New \subseteq Seq(Chars)
  /\ Sub \in Seq(Chars) \ {<<>>} /\ \A i \in 2..Len(Sub) : Sub[i] # Sub[1]
  /\ \A new \in New : Len(new) <= Len(Sub) + 1

VARIABLES slots,      \* tokens[0 .. MAX_CMD_TREE_DEPTH - 1]
          token_cnt,  \* of the call before
          overran,    \* a call wrote behind the array
          asked,      \* the line and the delimiter of that call
          text,       \* the line in which a variable is replaced
          was         \* that line, and the value, before the replacement

tokenVars == <<slots, token_cnt, overran, asked>>
textVars == <<text, was>>

TokenInit ==
  /\ slots = [i \in 0..(MaxTokens - 1) |-> <<>>]
  /\ token_cnt = 0 /\ overran = FALSE /\ asked = <<>>
TextInit == text = <<>> /\ was = <<>>

\* string_space_trim
Trim(s) ==
  LET solid == {i \in 1..Len(s) : s[i] \notin Spaces}
  IN IF solid = {} THEN <<>>
     ELSE LET first == CHOOSE i \in solid : \A j \in solid : i <= j
              last == CHOOSE i \in solid : \A j \in solid : i >= j
          IN SubSeq(s, first, last)

\* strtok: the words of s between runs of delimiters, in order.
WordsOf(s, delim) ==
  LET words[i \in 0..Len(s)] ==
        IF i = 0 THEN <<>>
        ELSE LET done == words[i - 1] IN
          CASE s[i] = delim -> done
            [] s[i] # delim /\ (i = 1 \/ s[i - 1] = delim) -> Append(done, <<s[i]>>)
            [] OTHER -> [done EXCEPT ![Len(done)] = Append(@, s[i])]
  IN words[Len(s)]

(****************************************************************************)
(* Faulty variants of the operations below: near misses of the code, not    *)
(* part of the specification, that the properties tell from it.             *)
(****************************************************************************)
\* The slot is not cleared first: a longer word before leaves its end.
StoredOver(old, word) == word \o SubSeq(old, Len(word) + 1, Len(old))

\* What follows the first occurrence is not searched.
ReplacedOnce(s, new) ==
  LET hits == {i \in 1..(Len(s) - Len(Sub) + 1) : SubSeq(s, i, i + Len(Sub) - 1) = Sub}
      hit == CHOOSE i \in hits : \A j \in hits : i <= j
  IN IF hits = {} THEN s
     ELSE SubSeq(s, 1, hit - 1) \o new \o SubSeq(s, hit + Len(Sub), Len(s))

\* untokenize, then strncpy of the word without its end.
Stored(old, word) == word

(****************************************************************************)
(* tokenizer(s, delim): a line of one word too many is noticed only when    *)
(* the word has been stored behind the array; then every slot is cleared.   *)
(****************************************************************************)
TooMany(words) == Len(words) > MaxTokens
Tokenize(s, delim) ==
  LET words == WordsOf(Trim(s), delim) IN
    /\ asked' = <<s, delim>>
    /\ IF TooMany(words)
       THEN /\ overran' = TRUE
            /\ slots' = [i \in DOMAIN slots |-> <<>>]
            /\ token_cnt' = 0
       ELSE /\ slots' = [i \in DOMAIN slots |->
                           IF i < Len(words) THEN Stored(slots[i], words[i + 1]) ELSE slots[i]]
            /\ token_cnt' = Len(words)
            /\ UNCHANGED overran

\* re_init_tokens, with which the parser ends a command; what it had read is done
\* with.
ReInitTokens ==
  /\ slots' = [i \in DOMAIN slots |-> <<>>]
  /\ token_cnt' = 0 /\ asked' = <<>>
  /\ UNCHANGED overran

TokenNext ==
  /\ ~overran
  /\ \/ \E s \in Strings, delim \in Delims : Tokenize(s, delim)
     \/ ReInitTokens

TokenSpec == TokenInit /\ [][TokenNext]_tokenVars

(****************************************************************************)
(* replaceSubstring(s, Sub, new).  The loop counter already stands behind   *)
(* the new text when the loop counts on, so that the character there is     *)
(* kept unseen.  At the end of the line the comparison runs on over the two *)
(* terminators; the line then ends with the new text because the newline    *)
(* that strtok cut off has left a second one.                               *)
(****************************************************************************)
Hit(s, i) == i + Len(Sub) - 1 <= Len(s) /\ SubSeq(s, i, i + Len(Sub) - 1) = Sub

Replaced(s, new) ==
  LET from[i \in 1..(Len(s) + 2)] ==
        CASE i > Len(s) -> <<>>
          [] i <= Len(s) /\ Hit(s, i) ->
               LET after == i + Len(Sub)
               IN new \o (IF after > Len(s) THEN <<>> ELSE <<s[after]>>) \o from[after + 1]
          [] OTHER -> <<s[i]>> \o from[i + 1]
  IN from[1]

ReadText(s) == text = <<>> /\ was = <<>> /\ text' = s /\ UNCHANGED was
ReplaceSubstring(new) == text # <<>> /\ was = <<>> /\ text' = Replaced(text, new) /\ was' = <<text, new>>
LineDone == was # <<>> /\ text' = <<>> /\ was' = <<>>

TextNext ==
  \/ \E s \in Texts : ReadText(s)
  \/ \E new \in New : ReplaceSubstring(new)
  \/ LineDone

TextSpec == TextInit /\ [][TextNext]_textVars

(****************************************************************************)
(* Properties.                                                              *)
(****************************************************************************)
\* The characters of a line that are no delimiters, and those that begin a word.
Solid(s, delim) == {i \in 1..Len(s) : s[i] # delim}
Starts(s, delim) == {i \in Solid(s, delim) : i - 1 \notin Solid(s, delim)}

\* The words a caller finds in the array are those of its line, each at the
\* place of its number and whole, whatever the calls before left there; and a
\* line of no more words than the array has slots is taken whole and stays
\* inside.
TokensAreWords ==
  asked # <<>> =>
    LET line == Trim(asked[1])
        solid == Solid(line, asked[2])
        starts == Starts(line, asked[2])
    IN Cardinality(starts) <= MaxTokens =>
         /\ ~overran
         /\ token_cnt = Cardinality(starts)
         /\ \A i \in starts : \A e \in i..Len(line) :
              i..e \subseteq solid /\ e + 1 \notin solid
                => slots[Cardinality({j \in starts : j < i})] = SubSeq(line, i, e)

\* The pieces, one behind the other.
Cat(pieces) ==
  LET from[i \in 1..(Len(pieces) + 1)] ==
        IF i > Len(pieces) THEN <<>> ELSE pieces[i] \o from[i + 1]
  IN from[1]

\* What each character of s becomes: the value where an occurrence of the variable
\* begins, nothing inside of one, itself elsewhere.
Inside(s, i) == \E h \in 1..Len(s) : Hit(s, h) /\ h < i /\ i < h + Len(Sub)
Pieces(s, new) ==
  [i \in 1..Len(s) |-> IF Hit(s, i) THEN new ELSE IF Inside(s, i) THEN <<>> ELSE <<s[i]>>]

\* Every occurrence of the variable is replaced and nothing else, unless one
\* occurrence stands directly behind another.
ReplacesSeparated ==
  (was # <<>> /\ \A h \in 1..Len(was[1]) : Hit(was[1], h) => ~Hit(was[1], h + Len(Sub)))
    => text = Cat(Pieces(was[1], was[2]))
================================================================================
