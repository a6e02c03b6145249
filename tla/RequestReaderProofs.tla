------------------------ MODULE RequestReaderProofs ------------------------
(* Proofs about reading requests, for texts of any length and buffers of   *)
(* any size: the cursors stay where they belong, buffers are overrun and   *)
(* NULL is looked through only for the reasons that are known, no text     *)
(* keeps the reader busy for ever, and what is read is what RLI defines.   *)
EXTENDS RequestReader, SequenceTheorems, TLAPS

(***************************************************************************)
(* The inductive invariant: what was read of the token that is read, how   *)
(* many tokens there can be by now, and what the parser's calls wait for.  *)
(***************************************************************************)

\* No blank and no parenthesis from i on and before j
WordIn(i, j)   == \A k \in i .. j - 1 : text[k] \notin Blanks \cup Parens

\* A string that begins at i, with no end before j
StringIn(i, j) == i < j /\ text[i] = Quote /\ \A k \in i + 1 .. j - 1 : text[k] # Quote

\* Where the token that is read began and what it is made of
TokenInv ==
  /\ pc = "token"  => start = curr /\ (At(Blanks) => start = 1)
  /\ pc = "string" => StringIn(start, curr)
  /\ pc = "word"   => /\ WordIn(start, curr)
                      /\ start = curr => ~At(Parens) /\ (At(Blanks) => start = 1)
  /\ pc = "commit" => /\ curr = start + 1 \/ WordIn(start, curr) \/ StringIn(start, curr - 1)
                      /\ start = curr => AtEnd \/ (start = 1 /\ At(Blanks))

\* Each token but an empty one at either end has a character of its own.
TokenCountInv ==
  /\ pc \in {"token", "string", "word", "commit"} =>
       /\ Len(tokens) < start
       /\ \A k \in 1 .. Len(tokens) : tokens[k].to < start
  /\ pc = "blank" => \/ Len(tokens) < curr
                     \/ Len(tokens) = curr /\ At(Blanks)

\* What the calls of the parser wait for
ParseInv ==
  /\ pc \in Lexing => cursor = 1 /\ stack = <<>>
  /\ pc = "args"   => Len(stack) > 0 /\ Top = "func"
  /\ pc = "expr" /\ PastEnd =>
       Len(tokens) > 0 /\ tokens[Len(tokens)].to = tokens[Len(tokens)].from
         /\ text[tokens[Len(tokens)].from] = "'"

Inv ==
  /\ TypeOK /\ TokensFollow /\ TokenInv /\ TokenCountInv /\ ParseInv
  /\ OverrunNeedsLongToken /\ CrashNeedsLastTick /\ StackIsBounded

-----------------------------------------------------------------------------
\* Numbers for the steps below
LEMMA Numbers ==
  ASSUME Inv
  PROVE  /\ curr \in Nat \ {0} /\ start \in Nat \ {0} /\ start <= curr
         /\ Len(text) \in Nat /\ curr <= Len(text) + 1
         /\ Len(tokens) \in Nat /\ cursor \in Nat \ {0} /\ cursor <= Len(tokens) + 1
         /\ Len(stack) \in Nat /\ MaxToken \in Nat /\ MaxToken > 1
         /\ \A k \in 1 .. Len(tokens) : tokens[k].from \in Nat \ {0} /\ tokens[k].to \in Nat
<1>1. text \in Seq(Chars) /\ tokens \in Seq(Token) /\ stack \in Seq({"func", "tick"})
  BY ReaderAssumption DEF Inv, TypeOK
<1>2. Len(text) \in Nat /\ Len(tokens) \in Nat /\ Len(stack) \in Nat
  BY <1>1
<1>3. \A k \in 1 .. Len(tokens) : tokens[k] \in Token
  BY <1>1
<1>4. \A k \in 1 .. Len(tokens) : tokens[k].from \in Nat \ {0} /\ tokens[k].to \in Nat
  BY <1>3 DEF Token
<1>5. curr \in 1 .. Len(text) + 1 /\ start \in 1 .. curr /\ cursor \in 1 .. Len(tokens) + 1
  BY DEF Inv, TypeOK
<1> QED BY <1>2, <1>4, <1>5, ReaderAssumption

\* The first characters of a word, or of a string, are a piece that is not cut.
LEMMA LongWord ==
  ASSUME Inv, WordIn(start, curr), curr - start >= MaxToken
  PROVE  \E i \in 1 .. Len(text) : Uncut(i, MaxToken)
<1>1. /\ start \in Nat \ {0} /\ curr \in Nat /\ Len(text) \in Nat /\ curr <= Len(text) + 1
      /\ MaxToken \in Nat /\ MaxToken > 1
  BY ReaderAssumption DEF Inv, TypeOK
<1>2. start \in 1 .. Len(text) /\ start + MaxToken - 1 <= Len(text)
  BY <1>1
<1>3. \A j \in start .. start + MaxToken - 1 : text[j] \notin Blanks \cup Parens
  BY <1>1 DEF WordIn
<1> QED BY <1>2, <1>3 DEF Uncut

\* A string that fills the buffer is such a piece of text.
LEMMA LongString ==
  ASSUME Inv, NEW j \in {curr - 1, curr}, StringIn(start, j), curr - start >= MaxToken
  PROVE  \E i \in 1 .. Len(text) : Uncut(i, MaxToken)
<1>1. /\ start \in Nat \ {0} /\ curr \in Nat /\ Len(text) \in Nat /\ curr <= Len(text) + 1
      /\ MaxToken \in Nat /\ MaxToken > 1
  BY ReaderAssumption DEF Inv, TypeOK
<1>2. start \in 1 .. Len(text) /\ start + MaxToken - 1 <= Len(text)
  BY <1>1
<1>3. text[start] = Quote /\ \A k \in start + 1 .. start + MaxToken - 2 : text[k] # Quote
  BY <1>1 DEF StringIn
<1> QED BY <1>2, <1>3 DEF Uncut

\* What a character that is taken leaves as it was
LEMMA TakeKeeps ==
  ASSUME Inv, NEW next \in {"string", "word", "commit"}, Take(next), ~AtEnd,
         pc \in {"token", "string", "word"},
         UNCHANGED <<text, start, tokens, cursor, stack>>,
         next = "string" => StringIn(start, curr'),
         next = "word" => WordIn(start, curr'),
         next = "commit" => curr' = start + 1 \/ StringIn(start, curr' - 1),
         curr - start >= MaxToken => \E i \in 1 .. Len(text) : Uncut(i, MaxToken)
  PROVE  Inv'
<1> USE DEF Take
<1>1. /\ curr \in Nat \ {0} /\ start \in Nat \ {0} /\ start <= curr /\ Len(text) \in Nat
      /\ curr <= Len(text) + 1 /\ Len(tokens) \in Nat /\ MaxToken \in Nat
      /\ \A k \in 1 .. Len(tokens) : tokens[k].to \in Nat
  BY Numbers
<1>2. curr' = curr + 1 /\ (pc' = next \/ pc' = "overrun") /\ curr <= Len(text)
  BY <1>1 DEF AtEnd
<1>3. TypeOK'
  BY <1>1, <1>2 DEF Inv, TypeOK, Lexing, Final
<1>4. TokensFollow'
  BY <1>1, <1>2 DEF Inv, TokensFollow
<1>5. TokenInv'
  BY <1>1, <1>2 DEF TokenInv, StringIn, WordIn
<1>6. TokenCountInv'
  BY <1>2 DEF Inv, TokenCountInv
<1>7. ParseInv' /\ CrashNeedsLastTick' /\ StackIsBounded'
  BY <1>2 DEF Inv, ParseInv, CrashNeedsLastTick, StackIsBounded, Lexing
<1>8. OverrunNeedsLongToken'
  BY <1>1, <1>2 DEF OverrunNeedsLongToken, Uncut
<1> QED BY <1>3, <1>4, <1>5, <1>6, <1>7, <1>8 DEF Inv

\* The tokenizer keeps the invariant.
LEMMA TokenizeStep ==
  ASSUME Inv, Tokenize PROVE Inv'
<1>1. /\ curr \in Nat \ {0} /\ start \in Nat \ {0} /\ start <= curr /\ Len(text) \in Nat
      /\ curr <= Len(text) + 1 /\ Len(tokens) \in Nat /\ MaxToken \in Nat /\ MaxToken > 1
      /\ \A k \in 1 .. Len(tokens) : tokens[k].from \in Nat \ {0} /\ tokens[k].to \in Nat
  BY Numbers
<1>2. TypeOK /\ TokensFollow /\ TokenInv /\ TokenCountInv /\ ParseInv
  BY DEF Inv
<1>3. CASE Parenthesis
  <2>1. ~AtEnd /\ start = curr /\ Take("commit")
    BY <1>2, <1>3 DEF Parenthesis, At, TokenInv
  <2>2. curr' = start + 1 /\ ~(curr - start >= MaxToken)
    BY <1>1, <2>1 DEF Take
  <2> QED BY <1>3, <2>1, <2>2, TakeKeeps DEF Parenthesis
<1>4. CASE OpenString
  <2>1. ~AtEnd /\ start = curr /\ Take("string") /\ text[curr] = Quote
    BY <1>2, <1>4 DEF OpenString, At, TokenInv
  <2>2. StringIn(start, curr') /\ ~(curr - start >= MaxToken)
    BY <1>1, <2>1 DEF Take, StringIn
  <2> QED BY <1>4, <2>1, <2>2, TakeKeeps DEF OpenString
<1>5. CASE InString
  <2>1. StringIn(start, curr) /\ pc = "string" /\ UNCHANGED <<text, start, tokens, cursor, stack>>
    BY <1>2, <1>5 DEF InString, TokenInv
  <2>2. curr - start >= MaxToken => \E i \in 1 .. Len(text) : Uncut(i, MaxToken)
    BY <2>1, LongString
  <2>3. CASE AtEnd
    <3>1. pc' = "mismatched" /\ curr' = curr
      BY <1>5, <2>3 DEF InString
    <3> QED BY <2>1, <3>1 DEF Inv, TypeOK, TokensFollow, TokenInv, TokenCountInv, ParseInv,
              OverrunNeedsLongToken, CrashNeedsLastTick, StackIsBounded, Lexing, Final
  <2>4. CASE ~AtEnd /\ At({Quote})
    <3>1. Take("commit")
      BY <1>5, <2>4 DEF InString
    <3>2. StringIn(start, curr' - 1)
      BY <1>1, <2>1, <3>1 DEF Take
    <3> QED BY <2>1, <2>2, <2>4, <3>1, <3>2, TakeKeeps
  <2>5. CASE ~AtEnd /\ ~At({Quote})
    <3>1. Take("string") /\ text[curr] # Quote
      BY <1>5, <2>5 DEF InString, At
    <3>2. StringIn(start, curr')
      BY <1>1, <2>1, <3>1 DEF Take, StringIn
    <3> QED BY <2>1, <2>2, <2>5, <3>1, <3>2, TakeKeeps
  <2> QED BY <2>3, <2>4, <2>5
<1>6. CASE StartWord
  <2>1. /\ pc = "token" /\ pc' = "word" /\ ~At(Parens)
        /\ UNCHANGED <<text, curr, start, tokens, cursor, stack>>
    BY <1>6 DEF StartWord, At
  <2>2. start = curr /\ (At(Blanks) => start = 1)
    BY <1>2, <2>1 DEF TokenInv
  <2>3. WordIn(start, curr)
    BY <1>1, <2>2 DEF WordIn
  <2>4. TypeOK' /\ TokensFollow' /\ TokenCountInv' /\ ParseInv'
    BY <1>2, <2>1 DEF TypeOK, TokensFollow, TokenCountInv, ParseInv, Lexing
  <2>5. TokenInv'
    BY <2>1, <2>2, <2>3 DEF TokenInv, WordIn, At, AtEnd
  <2> QED BY <2>1, <2>4, <2>5 DEF Inv, OverrunNeedsLongToken, CrashNeedsLastTick, StackIsBounded
<1>7. CASE InWord
  <2>1. /\ pc = "word" /\ UNCHANGED <<text, start, tokens, cursor, stack>>
        /\ WordIn(start, curr) /\ (start = curr => ~At(Parens) /\ (At(Blanks) => start = 1))
    BY <1>2, <1>7 DEF InWord, TokenInv
  <2>2. CASE AtEnd \/ At(Blanks \cup Parens)
    <3>1. pc' = "commit" /\ curr' = curr
      BY <1>7, <2>2 DEF InWord
    <3>2. start = curr => AtEnd \/ (start = 1 /\ At(Blanks))
      BY <2>1, <2>2 DEF At
    <3>3. TokenInv'
      BY <2>1, <3>1, <3>2 DEF TokenInv, WordIn, At, AtEnd
    <3>4. TypeOK' /\ TokensFollow' /\ TokenCountInv' /\ ParseInv'
      BY <1>2, <2>1, <3>1 DEF TypeOK, TokensFollow, TokenCountInv, ParseInv, Lexing
    <3> QED BY <2>1, <3>1, <3>3, <3>4 DEF Inv, OverrunNeedsLongToken, CrashNeedsLastTick, StackIsBounded
  <2>3. CASE ~AtEnd /\ ~At(Blanks \cup Parens)
    <3>1. Take("word") /\ text[curr] \notin Blanks \cup Parens
      BY <1>7, <2>3 DEF InWord, At
    <3>2. WordIn(start, curr')
      BY <1>1, <2>1, <3>1 DEF Take, WordIn
    <3>3. curr - start >= MaxToken => \E i \in 1 .. Len(text) : Uncut(i, MaxToken)
      BY <2>1, LongWord
    <3> QED BY <2>1, <2>3, <3>1, <3>2, <3>3, TakeKeeps
  <2> QED BY <2>2, <2>3
<1>8. CASE Commit
  <2> DEFINE token == [from |-> start, to |-> curr - 1]
  <2>1. /\ pc = "commit" /\ UNCHANGED <<text, curr, start, cursor, stack>>
        /\ Len(tokens) < start /\ (\A k \in 1 .. Len(tokens) : tokens[k].to < start)
        /\ start = curr => AtEnd \/ (start = 1 /\ At(Blanks))
        /\ curr = start + 1 \/ WordIn(start, curr) \/ StringIn(start, curr - 1)
        /\ cursor = 1 /\ stack = <<>>
    BY <1>2, <1>8 DEF Commit, TokenInv, TokenCountInv, ParseInv, Lexing
  <2>2. CASE curr - start >= MaxToken
    <3>1. pc' = "overrun" /\ tokens' = tokens
      BY <1>1, <1>8, <2>2 DEF Commit
    <3>2. \E i \in 1 .. Len(text) : Uncut(i, MaxToken)
      <4>1. curr # start + 1
        BY <1>1, <2>2
      <4> QED BY <2>1, <2>2, <4>1, LongWord, LongString
    <3>3. OverrunNeedsLongToken'
      BY <2>1, <3>2 DEF OverrunNeedsLongToken, Uncut
    <3> QED BY <1>2, <2>1, <3>1, <3>3 DEF Inv, TypeOK, TokensFollow, TokenInv, TokenCountInv, ParseInv,
              CrashNeedsLastTick, StackIsBounded, Lexing, Final
  <2>3. CASE curr - start < MaxToken
    <3>1. tokens' = Append(tokens, token) /\ pc' = IF AtEnd THEN "expr" ELSE "blank"
      BY <1>8, <2>3 DEF Commit
    <3>2. token \in Token
      BY <1>1 DEF Token
    <3>3. tokens \in Seq(Token)
      BY <1>2 DEF TypeOK
    <3>4. /\ tokens' \in Seq(Token) /\ Len(tokens') = Len(tokens) + 1
          /\ tokens'[Len(tokens) + 1] = token
          /\ \A k \in 1 .. Len(tokens) : tokens'[k] = tokens[k]
      <4> HIDE DEF token
      <4> QED BY <3>1, <3>2, <3>3
    <3>5. TypeOK'
      BY <1>1, <1>2, <2>1, <3>1, <3>4 DEF TypeOK, Lexing, Parsing
    <3>6. TokensFollow'
      <4>1. AtEnd => curr = Len(text) + 1
        BY DEF AtEnd
      <4>2. ASSUME NEW k \in 1 .. Len(tokens) + 1
            PROVE  /\ tokens'[k].to < curr /\ tokens'[k].from <= tokens'[k].to + 1
                   /\ tokens'[k].from = tokens'[k].to + 1 => tokens'[k].from \in {1, Len(text) + 1}
                   /\ k > 1 => tokens'[k - 1].to < tokens'[k].from
        <5>1. CASE k = Len(tokens) + 1
          <6>1. tokens'[k].from = start /\ tokens'[k].to = curr - 1
            BY <3>4, <5>1
          <6>2. k > 1 => tokens'[k - 1].to < start
            BY <1>1, <2>1, <3>4, <5>1
          <6> QED BY <1>1, <2>1, <4>1, <6>1, <6>2
        <5>2. CASE k \in 1 .. Len(tokens)
          <6>1. tokens'[k] = tokens[k] /\ (k > 1 => tokens'[k - 1] = tokens[k - 1])
            BY <1>1, <3>4, <5>2
          <6> QED BY <1>2, <5>2, <6>1 DEF TokensFollow
        <5> QED BY <1>1, <5>1, <5>2
      <4> QED BY <2>1, <3>4, <4>2 DEF TokensFollow
    <3>7. TokenInv'
      BY <3>1 DEF TokenInv
    <3>8. TokenCountInv'
      <4>1. ~AtEnd => Len(tokens') < curr \/ (Len(tokens') = curr /\ At(Blanks))
        BY <1>1, <2>1, <3>4
      <4> QED BY <2>1, <3>1, <4>1 DEF TokenCountInv, At, AtEnd
    <3>9. ParseInv'
      BY <1>1, <2>1, <3>1, <3>4 DEF ParseInv, PastEnd, Lexing
    <3> QED BY <2>1, <3>1, <3>5, <3>6, <3>7, <3>8, <3>9
             DEF Inv, OverrunNeedsLongToken, CrashNeedsLastTick, StackIsBounded
  <2> QED BY <1>1, <2>2, <2>3
<1>9. CASE SkipBlanks
  <2>1. pc = "blank" /\ UNCHANGED <<text, tokens, cursor, stack>>
    BY <1>9 DEF SkipBlanks
  <2>2. Len(tokens) < curr \/ (Len(tokens) = curr /\ At(Blanks))
    BY <1>2, <2>1 DEF TokenCountInv
  <2>3. CASE At(Blanks)
    <3>1. curr' = curr + 1 /\ curr <= Len(text) /\ UNCHANGED <<pc, start>>
      BY <1>1, <1>9, <2>3 DEF SkipBlanks, At, AtEnd
    <3>2. TypeOK' /\ TokensFollow'
      BY <1>1, <1>2, <2>1, <3>1 DEF TypeOK, TokensFollow
    <3>3. TokenInv' /\ TokenCountInv' /\ ParseInv'
      BY <1>1, <1>2, <2>1, <2>2, <3>1 DEF TokenInv, TokenCountInv, ParseInv
    <3> QED BY <2>1, <3>1, <3>2, <3>3 DEF Inv, OverrunNeedsLongToken, CrashNeedsLastTick, StackIsBounded
  <2>4. CASE ~At(Blanks)
    <3>1. pc' = "token" /\ start' = curr /\ curr' = curr
      BY <1>9, <2>4 DEF SkipBlanks
    <3>2. TypeOK' /\ TokensFollow' /\ ParseInv'
      BY <1>1, <1>2, <2>1, <3>1 DEF TypeOK, TokensFollow, ParseInv, Lexing
    <3>3. TokenInv'
      BY <2>1, <2>4, <3>1 DEF TokenInv, At, AtEnd
    <3>4. TokenCountInv'
      BY <1>1, <1>2, <2>1, <2>2, <2>4, <3>1 DEF TokenCountInv, TokensFollow
    <3> QED BY <2>1, <3>1, <3>2, <3>3, <3>4 DEF Inv, OverrunNeedsLongToken, CrashNeedsLastTick, StackIsBounded
  <2> QED BY <2>3, <2>4
<1> QED BY <1>3, <1>4, <1>5, <1>6, <1>7, <1>8, <1>9 DEF Tokenize

\* A call is pushed on the stack of the parser, or the top one returns.
LEMMA StackChanges ==
  ASSUME Inv
  PROVE  /\ \A f \in {"func", "tick"} :
              /\ Append(stack, f) \in Seq({"func", "tick"})
              /\ Len(Append(stack, f)) = Len(stack) + 1
              /\ Append(stack, f)[Len(stack) + 1] = f
         /\ stack # <<>> =>
              /\ SubSeq(stack, 1, Len(stack) - 1) \in Seq({"func", "tick"})
              /\ Len(SubSeq(stack, 1, Len(stack) - 1)) = Len(stack) - 1
              /\ Len(stack) > 0 /\ Top \in {"func", "tick"}
<1> DEFINE S == {"func", "tick"}
<1>1. stack \in Seq(S) /\ Len(stack) \in Nat
  BY DEF Inv, TypeOK
<1> SUFFICES /\ \A f \in S : /\ Append(stack, f) \in Seq(S)
                             /\ Len(Append(stack, f)) = Len(stack) + 1
                             /\ Append(stack, f)[Len(stack) + 1] = f
             /\ stack # <<>> => /\ SubSeq(stack, 1, Len(stack) - 1) \in Seq(S)
                               /\ Len(SubSeq(stack, 1, Len(stack) - 1)) = Len(stack) - 1
                               /\ Len(stack) > 0 /\ Top \in S
  OBVIOUS
<1> HIDE DEF S
<1>2. ASSUME NEW f \in S
      PROVE  /\ Append(stack, f) \in Seq(S) /\ Len(Append(stack, f)) = Len(stack) + 1
             /\ Append(stack, f)[Len(stack) + 1] = f
  BY <1>1, AppendProperties
<1>3. ASSUME stack # <<>>
      PROVE  /\ SubSeq(stack, 1, Len(stack) - 1) \in Seq(S)
             /\ Len(SubSeq(stack, 1, Len(stack) - 1)) = Len(stack) - 1
             /\ Len(stack) > 0 /\ Top \in S
  <2>1. Len(stack) > 0
    BY <1>1, <1>3, EmptySeq
  <2>2. stack[Len(stack)] \in S
    BY <1>1, <2>1, ElementOfSeq
  <2>3. /\ SubSeq(stack, 1, Len(stack) - 1) \in Seq(S)
        /\ Len(SubSeq(stack, 1, Len(stack) - 1)) = Len(stack) - 1
    <3>1. \A i \in 1 .. Len(stack) - 1 : stack[i] \in S
      BY <1>1, <2>1, ElementOfSeq
    <3>2. Len(stack) - 1 \in Int /\ 1 \in Int
      BY <1>1
    <3>3. /\ SubSeq(stack, 1, Len(stack) - 1) \in Seq(S)
          /\ Len(SubSeq(stack, 1, Len(stack) - 1)) =
               IF 1 <= Len(stack) - 1 THEN Len(stack) - 1 - 1 + 1 ELSE 0
      BY <3>1, <3>2, SubSeqProperties
    <3>4. \A n \in Nat : n > 0 => (IF 1 <= n - 1 THEN n - 1 - 1 + 1 ELSE 0) = n - 1
      OBVIOUS
    <3>5. Len(stack) \in Nat
      BY <1>1
    <3> QED BY <2>1, <3>3, <3>4, <3>5, Zenon
  <2> QED BY <2>1, <2>2, <2>3 DEF Top
<1> QED BY <1>2, <1>3

\* The parser keeps the invariant.
LEMMA ParseStep ==
  ASSUME Inv, Parse PROVE Inv'
<1>1. /\ Len(tokens) \in Nat /\ cursor \in Nat \ {0} /\ cursor <= Len(tokens) + 1
      /\ Len(stack) \in Nat /\ Len(stack) < cursor
  BY Numbers DEF Inv, StackIsBounded
<1>2. TypeOK /\ ParseInv
  BY DEF Inv
<1>3. /\ pc \in Parsing /\ UNCHANGED <<text, curr, start, tokens>>
  BY DEF Parse, ParseFunc, ParseTick, ParseLiteral, ParseCrashes, ParseArgs, ReturnValue, Parsing
<1>4. TokensFollow'
  BY <1>3 DEF Inv, TokensFollow
\* What is left to show of a step: where the cursor, the stack and the parser are.
<1>5. ASSUME pc' \in Parsing \cup {"parsed", "error", "crash"},
             cursor' \in Nat \ {0}, cursor' <= Len(tokens) + 1, stack' \in Seq({"func", "tick"}),
             Len(stack') < cursor', ParseInv', CrashNeedsLastTick', pc' = "parsed" => stack' = <<>>
      PROVE  Inv'
  <2>1. TypeOK'
    BY <1>1, <1>2, <1>3, <1>5 DEF TypeOK, Final
  <2>2. TokenInv' /\ TokenCountInv' /\ OverrunNeedsLongToken'
    BY <1>5 DEF TokenInv, TokenCountInv, OverrunNeedsLongToken, Parsing
  <2> QED BY <1>4, <1>5, <2>1, <2>2 DEF Inv, StackIsBounded
<1>6. ASSUME pc' = "error", UNCHANGED <<cursor, stack>> PROVE Inv'
  BY <1>1, <1>2, <1>5, <1>6 DEF TypeOK, ParseInv, CrashNeedsLastTick, Lexing
<1>7. CASE ParseFunc
  <2>1. CASE Null
    BY <1>6, <2>1 DEF Null
  <2>2. CASE /\ cursor + 1 <= Len(tokens) /\ cursor' = cursor + 2
             /\ stack' = Append(stack, "func") /\ pc' = "args"
    <3>1. stack' \in Seq({"func", "tick"}) /\ Len(stack') = Len(stack) + 1 /\ stack'[Len(stack')] = "func"
      BY <2>2, StackChanges
    <3>2. ParseInv' /\ CrashNeedsLastTick'
      BY <1>1, <2>2, <3>1 DEF ParseInv, CrashNeedsLastTick, Top, Lexing
    <3> QED BY <1>1, <1>5, <2>2, <3>1, <3>2 DEF Parsing
  <2> QED BY <1>1, <1>7, <2>1, <2>2 DEF ParseFunc, Push
<1>8. CASE ParseTick
  <2>1. /\ cursor <= Len(tokens) /\ Is("'") /\ cursor' = cursor + 1
        /\ stack' = Append(stack, "tick") /\ pc = "expr" /\ pc' = "expr"
    BY <1>1, <1>8 DEF ParseTick, Push, PastEnd
  <2>2. stack' \in Seq({"func", "tick"}) /\ Len(stack') = Len(stack) + 1
    BY <2>1, StackChanges
  <2>3. ParseInv' /\ CrashNeedsLastTick'
    <3>1. cursor' > Len(tokens) => cursor = Len(tokens)
      BY <1>1, <2>1
    <3> QED BY <1>1, <1>3, <2>1, <3>1 DEF ParseInv, CrashNeedsLastTick, PastEnd, Is, Lexing
  <2> QED BY <1>1, <1>5, <2>1, <2>2, <2>3 DEF Parsing
<1>9. CASE ParseLiteral
  <2>1. cursor <= Len(tokens) /\ cursor' = cursor + 1 /\ stack' = stack /\ pc' = "value"
    BY <1>1, <1>9 DEF ParseLiteral, PastEnd
  <2> QED BY <1>1, <1>2, <1>5, <2>1 DEF Parsing, TypeOK, ParseInv, CrashNeedsLastTick, Lexing
<1>10. CASE ParseCrashes
  <2>1. pc = "expr" /\ PastEnd /\ pc' = "crash" /\ UNCHANGED <<cursor, stack>>
    BY <1>10 DEF ParseCrashes
  <2>2. ParseInv' /\ CrashNeedsLastTick'
    BY <1>2, <1>3, <2>1 DEF ParseInv, CrashNeedsLastTick, Lexing
  <2> QED BY <1>1, <1>2, <1>5, <2>1, <2>2 DEF TypeOK
<1>11. CASE ParseArgs
  <2>1. pc = "args" /\ stack # <<>>
    BY <1>2, <1>11 DEF ParseArgs, ParseInv
  <2>2. CASE Null
    BY <1>6, <2>2 DEF Null
  <2>3. CASE cursor <= Len(tokens) /\ cursor' = cursor + 1 /\ Pop /\ pc' = "value"
    <3>1. stack' \in Seq({"func", "tick"}) /\ Len(stack') = Len(stack) - 1
      BY <2>1, <2>3, StackChanges DEF Pop
    <3> QED BY <1>1, <1>5, <2>3, <3>1 DEF Parsing, ParseInv, CrashNeedsLastTick, Lexing
  <2>4. CASE ~PastEnd /\ pc' = "expr" /\ UNCHANGED <<cursor, stack>>
    BY <1>1, <1>2, <1>3, <1>5, <2>4 DEF Parsing, TypeOK, ParseInv, CrashNeedsLastTick, PastEnd, Lexing
  <2> QED BY <1>1, <1>11, <2>2, <2>3, <2>4 DEF ParseArgs, PastEnd
<1>12. CASE ReturnValue
  <2>1. pc = "value" /\ cursor' = cursor
    BY <1>12 DEF ReturnValue
  <2>2. CASE stack = <<>> /\ pc' = "parsed" /\ stack' = stack
    BY <1>1, <1>2, <1>5, <2>1, <2>2 DEF Parsing, TypeOK, ParseInv, CrashNeedsLastTick, Lexing
  <2>3. CASE stack # <<>> /\ Top = "func" /\ pc' = "args" /\ stack' = stack
    <3>1. Len(stack) > 0
      BY <2>3, StackChanges
    <3> QED BY <1>1, <1>2, <1>5, <2>1, <2>3, <3>1 DEF Parsing, TypeOK, ParseInv, CrashNeedsLastTick, Lexing, Top
  <2>4. CASE stack # <<>> /\ Pop /\ pc' = pc
    <3>1. stack' \in Seq({"func", "tick"}) /\ Len(stack') = Len(stack) - 1
      BY <2>4, StackChanges DEF Pop
    <3> QED BY <1>1, <1>5, <2>1, <2>4, <3>1 DEF Parsing, ParseInv, CrashNeedsLastTick, Lexing
  <2> QED BY <1>12, <2>2, <2>3, <2>4 DEF ReturnValue
<1> QED BY <1>7, <1>8, <1>9, <1>10, <1>11, <1>12 DEF Parse

\* The invariant holds before anything is read.
LEMMA InitInv ==
  ASSUME Init PROVE Inv
<1> USE DEF Init
<1>1. Len(text) \in Nat
  BY ReaderAssumption
<1>2. <<>> \in Seq(Token) /\ <<>> \in Seq({"func", "tick"}) /\ Len(<<>>) = 0
  OBVIOUS
<1>3. TypeOK
  BY <1>1, <1>2 DEF TypeOK, Lexing
<1>4. TokensFollow /\ TokenInv /\ TokenCountInv /\ ParseInv
  BY <1>2 DEF TokensFollow, TokenInv, TokenCountInv, ParseInv, Lexing
<1>5. OverrunNeedsLongToken /\ CrashNeedsLastTick /\ StackIsBounded
  BY <1>2 DEF OverrunNeedsLongToken, CrashNeedsLastTick, StackIsBounded
<1> QED BY <1>3, <1>4, <1>5 DEF Inv

\* The inductive invariant holds while a request is read (ME_RLI_tokenize,
\* ME_RLI_IR_expr_parse).
THEOREM ReaderInvariance == Spec => []Inv
<1>1. Inv /\ UNCHANGED vars => Inv'
  BY DEF vars, Inv, TypeOK, TokensFollow, TokenInv, TokenCountInv, ParseInv, OverrunNeedsLongToken,
         CrashNeedsLastTick, StackIsBounded, StringIn, WordIn, At, AtEnd, Uncut, PastEnd, Top
<1>2. Inv /\ [Next]_vars => Inv'
  BY <1>1, TokenizeStep, ParseStep DEF Next
<1> QED BY <1>2, InitInv, PTL DEF Spec

\* No cursor leaves the text or the list of tokens.
THEOREM CursorsStayInside == Spec => []TypeOK
<1>1. Inv => TypeOK
  BY DEF Inv
<1> QED BY <1>1, ReaderInvariance, PTL

\* Tokens follow each other and are empty only at the ends of the text.
THEOREM TokensFollowEachOther == Spec => []TokensFollow
<1>1. Inv => TokensFollow
  BY DEF Inv
<1> QED BY <1>1, ReaderInvariance, PTL

\* Only a long piece of text without a boundary overruns the buffer of a token.
THEOREM OverrunsHaveACause == Spec => []OverrunNeedsLongToken
<1>1. Inv => OverrunNeedsLongToken
  BY DEF Inv
<1> QED BY <1>1, ReaderInvariance, PTL

\* Only a tick that ends the tokens makes the parser look through NULL.
THEOREM ParserCrashesHaveACause == Spec => []CrashNeedsLastTick
<1>1. Inv => CrashNeedsLastTick
  BY DEF Inv
<1> QED BY <1>1, ReaderInvariance, PTL

\* The recursion is no deeper than the request has tokens.
THEOREM RecursionIsBounded == Spec => []StackIsBounded
<1>1. Inv => StackIsBounded
  BY DEF Inv
<1> QED BY <1>1, ReaderInvariance, PTL

-----------------------------------------------------------------------------
\* What is left to do is a number, and a step leaves less of it.
LEMMA WorkIsCounted ==
  ASSUME Inv
  PROVE  /\ Work \in Nat
         /\ Rank[pc] \in 0 .. 3
         /\ pc \in Lexing => Len(tokens) <= Len(text) + 1
<1>1. /\ curr \in Nat \ {0} /\ start \in Nat \ {0} /\ start <= curr
      /\ Len(text) \in Nat /\ curr <= Len(text) + 1
      /\ Len(tokens) \in Nat /\ cursor \in Nat \ {0} /\ cursor <= Len(tokens) + 1
      /\ Len(stack) \in Nat
  BY Numbers
<1>2. pc \in Lexing \cup Parsing \cup Final
  BY DEF Inv, TypeOK
<1>3. Rank[pc] \in 0 .. 3
  BY <1>2 DEF Rank
<1>4. pc \in Lexing => Len(tokens) <= Len(text) + 1
  BY <1>1 DEF Inv, TokenCountInv, Lexing
<1> QED BY <1>1, <1>3, <1>4 DEF Work

\* Each step leaves less to do.
LEMMA StepCounts ==
  ASSUME Inv, Inv', Next PROVE Work' < Work
<1>1. /\ curr \in Nat \ {0} /\ curr <= Len(text) + 1 /\ Len(text) \in Nat
      /\ Len(tokens) \in Nat /\ cursor \in Nat \ {0} /\ cursor <= Len(tokens) + 1
      /\ Len(stack) \in Nat
  BY Numbers
<1>2. pc \in Lexing => Len(tokens) <= Len(text) + 1 /\ cursor = 1 /\ Len(stack) = 0
  BY WorkIsCounted DEF Inv, ParseInv
<1> DEFINE all == Lexing \cup Parsing \cup Final
<1>3. /\ Rank["blank"] = 3 /\ Rank["token"] = 2 /\ Rank["string"] = 1 /\ Rank["word"] = 1
      /\ Rank["commit"] = 0 /\ Rank["value"] = 3 /\ Rank["args"] = 2 /\ Rank["expr"] = 1
      /\ \A p \in Final : Rank[p] = 0
  BY DEF Rank, Lexing, Parsing, Final
<1>4. UNCHANGED text
  BY DEF Next, Tokenize, Parenthesis, OpenString, InString, StartWord, InWord, Commit, SkipBlanks,
         Parse, ParseFunc, ParseTick, ParseLiteral, ParseCrashes, ParseArgs, ReturnValue
<1> HIDE DEF Rank
\* The tokenizer gives up.
<1>5. ASSUME pc \in Lexing, pc' \in Final, UNCHANGED <<tokens, cursor, stack>> PROVE Work' < Work
  <2>1. Work >= 4 * (Len(text) + 2) + Rank[pc]
    BY <1>1, <1>2, <1>5, WorkIsCounted DEF Work
  <2>2. Work' = 4 * Len(tokens)
    BY <1>1, <1>2, <1>3, <1>5 DEF Work, Lexing, Final
  <2>3. Rank[pc] \in 0 .. 3 /\ Work \in Nat
    BY WorkIsCounted
  <2> QED BY <1>1, <1>2, <1>5, <2>1, <2>2, <2>3
\* The tokenizer takes a character or looks at it another way.
<1>6. ASSUME pc \in Lexing, pc' \in Lexing, UNCHANGED tokens,
             \/ curr' = curr + 1 /\ Rank[pc'] <= Rank[pc]
             \/ curr' = curr /\ Rank[pc'] < Rank[pc]
      PROVE  Work' < Work
  <2>1. Rank[pc] \in 0 .. 3 /\ Rank[pc'] \in 0 .. 3
    BY WorkIsCounted, <1>3, <1>6 DEF Lexing
  <2>2. /\ Work = 4 * (Len(text) + 2) + 4 * (Len(text) + 1 - curr) + 4 * (Len(text) + 2 - Len(tokens)) + Rank[pc]
        /\ Work' = 4 * (Len(text) + 2) + 4 * (Len(text) + 1 - curr') + 4 * (Len(text) + 2 - Len(tokens)) + Rank[pc']
    BY <1>4, <1>6 DEF Work
  <2>3. \A a, b, c, r, s \in Int :
          /\ s <= r => a + 4 * (b - (c + 1)) + s < a + 4 * (b - c) + r
          /\ s < r  => a + 4 * (b - c) + s < a + 4 * (b - c) + r
    OBVIOUS
  <2> DEFINE a == 4 * (Len(text) + 2) + 4 * (Len(text) + 2 - Len(tokens))
             b == Len(text) + 1
  <2>4. a \in Int /\ b \in Int /\ curr \in Int /\ Rank[pc] \in Int /\ Rank[pc'] \in Int
    BY <1>1, <2>1
  <2>5. Work = a + 4 * (b - curr) + Rank[pc] /\ Work' = a + 4 * (b - curr') + Rank[pc']
    <3>1. Work = a + 4 * (b - curr) + Rank[pc]
      BY <1>1, <2>1, <2>2
    <3>2. Work' = a + 4 * (b - curr') + Rank[pc']
      <4>1. curr' \in Int
        BY <1>1, <1>6
      <4>2. Len(text) \in Int /\ Len(tokens) \in Int /\ Rank[pc'] \in Int
        BY <1>1, <2>1
      <4>3. \A l, n, c, r \in Int :
              4 * (l + 2) + 4 * (l + 1 - c) + 4 * (l + 2 - n) + r
                = 4 * (l + 2) + 4 * (l + 2 - n) + 4 * (l + 1 - c) + r
        OBVIOUS
      <4> QED BY <2>2, <4>1, <4>2, <4>3
    <3> QED BY <3>1, <3>2
  <2> HIDE DEF a, b
  <2>6. CASE curr' = curr + 1 /\ Rank[pc'] <= Rank[pc]
    BY <2>3, <2>4, <2>5, <2>6
  <2>7. CASE curr' = curr /\ Rank[pc'] < Rank[pc]
    BY <2>3, <2>4, <2>5, <2>7
  <2> QED BY <1>6, <2>6, <2>7
\* A character that is taken
<1>7. ASSUME NEW next \in Lexing, pc \in Lexing, Rank[next] <= Rank[pc], Take(next),
             UNCHANGED <<tokens, cursor, stack>>
      PROVE  Work' < Work
  <2>1. CASE pc' = "overrun"
    BY <1>5, <1>7, <2>1 DEF Final
  <2>2. CASE pc' = next
    BY <1>6, <1>7, <2>2 DEF Take
  <2> QED BY <1>7, <2>1, <2>2 DEF Take
<1>8. CASE Parenthesis \/ OpenString
  <2>1. pc = "token" /\ UNCHANGED <<tokens, cursor, stack>> /\ (Take("commit") \/ Take("string"))
    BY <1>8 DEF Parenthesis, OpenString
  <2>2. Rank["commit"] <= Rank["token"] /\ Rank["string"] <= Rank["token"]
    BY <1>3
  <2> QED BY <1>7, <2>1, <2>2 DEF Lexing
<1>9. CASE InString
  <2>1. pc = "string" /\ UNCHANGED <<tokens, cursor, stack>>
    BY <1>9 DEF InString
  <2>2. CASE pc' = "mismatched"
    BY <1>5, <2>1, <2>2 DEF Lexing, Final
  <2>3. CASE Take("commit") \/ Take("string")
    <3>1. Rank["commit"] <= Rank["string"] /\ Rank["string"] <= Rank["string"]
      BY <1>3
    <3> QED BY <1>7, <2>1, <2>3, <3>1 DEF Lexing
  <2> QED BY <1>9, <2>2, <2>3 DEF InString
<1>10. CASE StartWord
  <2>1. pc = "token" /\ pc' = "word" /\ UNCHANGED <<curr, tokens>>
    BY <1>10 DEF StartWord
  <2> QED BY <1>3, <1>6, <2>1 DEF Lexing
<1>11. CASE InWord
  <2>1. pc = "word" /\ UNCHANGED <<tokens, cursor, stack>>
    BY <1>11 DEF InWord
  <2>2. CASE pc' = "commit" /\ UNCHANGED curr
    BY <1>3, <1>6, <2>1, <2>2 DEF Lexing
  <2>3. CASE Take("word")
    <3>1. Rank["word"] <= Rank["word"]
      BY <1>3
    <3> QED BY <1>7, <2>1, <2>3, <3>1 DEF Lexing
  <2> QED BY <1>11, <2>2, <2>3 DEF InWord
<1>12. CASE Commit
  <2>1. pc = "commit" /\ UNCHANGED <<curr, cursor, stack>>
    BY <1>12 DEF Commit
  <2>2. CASE pc' = "overrun" /\ UNCHANGED tokens
    BY <1>5, <2>1, <2>2 DEF Lexing, Final
  <2> DEFINE token == [from |-> start, to |-> curr - 1]
  <2>3. CASE pc' \in {"expr", "blank"} /\ tokens' = Append(tokens, token)
    <3> HIDE DEF token
    <3>1. Len(tokens') = Len(tokens) + 1
      BY <2>3 DEF Inv, TypeOK
    <3>2. Len(tokens) <= Len(text) + 1 /\ cursor = 1 /\ Len(stack) = 0
      BY <1>2, <2>1 DEF Lexing
    <3>3. Work = 4 * (Len(text) + 2) + 4 * (Len(text) + 1 - curr) + 4 * (Len(text) + 2 - Len(tokens))
      BY <1>1, <1>3, <2>1 DEF Work, Lexing
    <3>4. CASE pc' = "expr"
      <4>1. Work' = 4 * (Len(tokens) + 1) + 1
        BY <1>1, <1>3, <2>1, <3>1, <3>2, <3>4 DEF Work, Lexing
      <4> QED BY <1>1, <3>2, <3>3, <4>1
    <3>5. CASE pc' = "blank"
      <4>1. Work' = 4 * (Len(text) + 2) + 4 * (Len(text) + 1 - curr) + 4 * (Len(text) + 1 - Len(tokens)) + 3
        BY <1>1, <1>3, <1>4, <2>1, <3>1, <3>5 DEF Work, Lexing
      <4> QED BY <1>1, <3>3, <4>1
    <3> QED BY <2>3, <3>4, <3>5
  <2> QED BY <1>12, <2>2, <2>3 DEF Commit
<1>13. CASE SkipBlanks
  <2>1. pc = "blank" /\ UNCHANGED <<tokens, cursor, stack>>
    BY <1>13 DEF SkipBlanks
  <2>2. CASE curr' = curr + 1 /\ pc' = pc
    BY <1>3, <1>6, <2>1, <2>2 DEF Lexing
  <2>3. CASE curr' = curr /\ pc' = "token"
    BY <1>3, <1>6, <2>1, <2>3 DEF Lexing
  <2> QED BY <1>13, <2>2, <2>3 DEF SkipBlanks
\* The parser: what its steps do to the three parts of its work
<1>14. ASSUME pc \in Parsing, pc' \in Parsing \cup Final, UNCHANGED tokens,
              cursor' \in Nat, Len(stack') \in Nat,
              4 * (cursor' - cursor) > 2 * (Len(stack') - Len(stack)) + Rank[pc'] - Rank[pc]
       PROVE  Work' < Work
  <2>1. Rank[pc] \in 0 .. 3 /\ Rank[pc'] \in 0 .. 3
    BY WorkIsCounted, <1>3, <1>14 DEF Parsing
  <2>2. /\ Work = 4 * (Len(tokens) + 1 - cursor) + 2 * Len(stack) + Rank[pc]
        /\ Work' = 4 * (Len(tokens) + 1 - cursor') + 2 * Len(stack') + Rank[pc']
    BY <1>14 DEF Work, Lexing, Parsing, Final
  <2>3. \A n, c, d, k, l, r, s \in Int :
          4 * (d - c) > 2 * (l - k) + s - r => 4 * (n + 1 - d) + 2 * l + s < 4 * (n + 1 - c) + 2 * k + r
    OBVIOUS
  <2>4. /\ Len(tokens) \in Int /\ cursor \in Int /\ cursor' \in Int /\ Len(stack) \in Int
        /\ Len(stack') \in Int /\ Rank[pc] \in Int /\ Rank[pc'] \in Int
    <3>1. Len(tokens) \in Int /\ cursor \in Int /\ Len(stack) \in Int
      BY <1>1
    <3>2. cursor' \in Int
      BY <1>14
    <3>3. Len(stack') \in Int
      BY <1>14
    <3>4. Rank[pc] \in Int
      BY <2>1
    <3>5. Rank[pc'] \in Int
      BY <2>1
    <3> QED BY <3>1, <3>2, <3>3, <3>4, <3>5
  <2> QED BY <1>14, <2>2, <2>3, <2>4
<1>15. ASSUME pc \in Parsing, pc' \in Parsing \cup Final, UNCHANGED <<tokens, cursor, stack>>,
              Rank[pc'] < Rank[pc], Rank[pc'] \in 0 .. 3
       PROVE  Work' < Work
  <2>1. Rank[pc] \in 0 .. 3
    BY WorkIsCounted
  <2> QED BY <1>1, <1>14, <1>15, <2>1
<1>16. CASE ParseFunc
  <2>1. pc = "expr" /\ UNCHANGED tokens
    BY <1>16 DEF ParseFunc
  <2>2. CASE Null
    BY <1>3, <1>15, <2>1, <2>2 DEF Null, Parsing, Final
  <2>3. CASE cursor' = cursor + 2 /\ stack' = Append(stack, "func") /\ pc' = "args"
    <3>1. Len(stack') = Len(stack) + 1
      BY <2>3, StackChanges
    <3>2. 4 * (cursor' - cursor) = 8 /\ Len(stack') - Len(stack) = 1 /\ Rank[pc'] - Rank[pc] = 1
          /\ cursor' \in Nat /\ Len(stack') \in Nat
      BY <1>1, <1>3, <2>1, <2>3, <3>1
    <3> QED BY <1>14, <2>1, <2>3, <3>2 DEF Parsing
  <2> QED BY <1>1, <1>16, <2>2, <2>3 DEF ParseFunc, Push
<1>17. CASE ParseTick
  <2>1. pc = "expr" /\ pc' = "expr" /\ cursor' = cursor + 1 /\ stack' = Append(stack, "tick") /\ UNCHANGED tokens
    BY <1>17 DEF ParseTick, Push
  <2>2. Len(stack') = Len(stack) + 1
    BY <2>1, StackChanges
  <2>3. 4 * (cursor' - cursor) = 4 /\ Len(stack') - Len(stack) = 1 /\ Rank[pc'] - Rank[pc] = 0
        /\ cursor' \in Nat /\ Len(stack') \in Nat
    BY <1>1, <1>3, <2>1, <2>2
  <2> QED BY <1>14, <2>1, <2>3 DEF Parsing
<1>18. CASE ParseLiteral
  <2>1. pc = "expr" /\ pc' = "value" /\ cursor' = cursor + 1 /\ stack' = stack /\ UNCHANGED tokens
    BY <1>18 DEF ParseLiteral
  <2>2. 4 * (cursor' - cursor) = 4 /\ Len(stack') - Len(stack) = 0 /\ Rank[pc'] - Rank[pc] = 2
        /\ cursor' \in Nat /\ Len(stack') \in Nat
    BY <1>1, <1>3, <2>1
  <2> QED BY <1>14, <2>1, <2>2 DEF Parsing
<1>19. CASE ParseCrashes
  BY <1>3, <1>15, <1>19 DEF ParseCrashes, Parsing, Final
<1>20. CASE ParseArgs
  <2>1. pc = "args" /\ UNCHANGED tokens /\ stack # <<>>
    BY <1>20 DEF ParseArgs, Inv, ParseInv
  <2>2. CASE Null
    BY <1>3, <1>15, <2>1, <2>2 DEF Null, Parsing, Final
  <2>3. CASE cursor' = cursor + 1 /\ Pop /\ pc' = "value"
    <3>1. Len(stack') = Len(stack) - 1 /\ Len(stack) > 0
      BY <2>1, <2>3, StackChanges DEF Pop
    <3>2. 4 * (cursor' - cursor) = 4 /\ Len(stack') - Len(stack) = -1 /\ Rank[pc'] - Rank[pc] = 1
          /\ cursor' \in Nat /\ Len(stack') \in Nat
      BY <1>1, <1>3, <2>1, <2>3, <3>1
    <3> QED BY <1>14, <2>1, <2>3, <3>2 DEF Parsing
  <2>4. CASE pc' = "expr" /\ UNCHANGED <<cursor, stack>>
    BY <1>3, <1>15, <2>1, <2>4 DEF Parsing
  <2> QED BY <1>20, <2>2, <2>3, <2>4 DEF ParseArgs
<1>21. CASE ReturnValue
  <2>1. pc = "value" /\ UNCHANGED <<tokens, cursor>>
    BY <1>21 DEF ReturnValue
  <2>2. CASE pc' \in {"parsed", "args"} /\ stack' = stack
    <3>1. Rank[pc'] < Rank[pc] /\ Rank[pc'] \in 0 .. 3
      BY <1>3, <2>1, <2>2 DEF Final
    <3> QED BY <1>15, <2>1, <2>2, <3>1 DEF Parsing, Final
  <2>3. CASE stack # <<>> /\ Pop /\ pc' = pc
    <3>1. Len(stack') = Len(stack) - 1 /\ Len(stack) > 0
      BY <2>3, StackChanges DEF Pop
    <3>2. 4 * (cursor' - cursor) = 0 /\ Len(stack') - Len(stack) = -1 /\ Rank[pc'] - Rank[pc] = 0
          /\ cursor' \in Nat /\ Len(stack') \in Nat
      BY <1>1, <1>3, <2>1, <2>3, <3>1
    <3> QED BY <1>14, <2>1, <2>3, <3>2 DEF Parsing
  <2> QED BY <1>21, <2>2, <2>3 DEF ReturnValue
<1> QED BY <1>8, <1>9, <1>10, <1>11, <1>12, <1>13, <1>16, <1>17, <1>18, <1>19, <1>20, <1>21
        DEF Next, Tokenize, Parse

\* Every step of the tokenizer and of the parser leaves less to do, so that no
\* text keeps the measurer reading for ever.
THEOREM ReadingIsBounded == Spec => EveryStepCounts
<1>1. Inv /\ Inv' /\ [Next]_vars => [Work' < Work /\ Work \in Nat]_vars
  BY StepCounts, WorkIsCounted
<1> QED BY <1>1, ReaderInvariance, PTL DEF EveryStepCounts, Spec

(***************************************************************************)
(* What is read.  The tokens are those of the text: of the one that is     *)
(* read, where it begins and what it is made of is known.                  *)
(***************************************************************************)
ReadInv ==
  /\ TokensAreThoseOfTheText
  /\ pc \in {"token", "string", "word", "commit"} => Begins(Len(tokens), start)
  /\ pc = "word" /\ start <= Len(text) => text[start] \notin Parens \cup {Quote}
  /\ pc = "commit" => Ends(start, curr)
  /\ pc = "blank" => /\ tokens # <<>>
                     /\ tokens[Len(tokens)].to + 1 <= curr /\ tokens[Len(tokens)].to + 1 <= Len(text)
                     /\ \A k \in tokens[Len(tokens)].to + 1 .. curr - 1 : text[k] \in Blanks

\* What a step that adds no token keeps
LEMMA TokensStay ==
  ASSUME UNCHANGED <<text, tokens>>
  PROVE  /\ \A n, i : Begins(n, i)' <=> Begins(n, i)
         /\ \A i, j : Ends(i, j)' <=> Ends(i, j)
         /\ (\A n \in 1 .. Len(tokens) :
               Begins(n - 1, tokens[n].from) /\ Ends(tokens[n].from, tokens[n].to + 1))'
            <=> (\A n \in 1 .. Len(tokens) :
               Begins(n - 1, tokens[n].from) /\ Ends(tokens[n].from, tokens[n].to + 1))
BY DEF Begins, Ends

\* Each step of the tokenizer keeps to the text.
LEMMA ReadStep ==
  ASSUME Inv, Inv', ReadInv, Tokenize PROVE ReadInv'
<1>1. /\ curr \in Nat \ {0} /\ start \in Nat \ {0} /\ start <= curr /\ Len(text) \in Nat
      /\ curr <= Len(text) + 1 /\ Len(tokens) \in Nat
      /\ \A k \in 1 .. Len(tokens) : tokens[k].from \in Nat \ {0} /\ tokens[k].to \in Nat
  BY Numbers
<1>2. TokenInv /\ tokens \in Seq(Token)
  BY DEF Inv, TypeOK
<1> DEFINE Read == \A n \in 1 .. Len(tokens) :
                     Begins(n - 1, tokens[n].from) /\ Ends(tokens[n].from, tokens[n].to + 1)
<1>3. Read
  BY DEF ReadInv, TokensAreThoseOfTheText
\* A step within a token, or one that gives up
<1>4. ASSUME UNCHANGED <<text, tokens, start>>, pc \in {"token", "string", "word", "commit"},
             pc' \in {"string", "word", "commit", "overrun", "mismatched"},
             pc' = "word" /\ start <= Len(text) => text[start] \notin Parens \cup {Quote},
             pc' = "commit" => Ends(start, curr'),
             pc' = "mismatched" => /\ start <= Len(text) /\ text[start] = Quote
                                   /\ \A k \in start + 1 .. Len(text) : text[k] # Quote
      PROVE  ReadInv'
  <2>1. Begins(Len(tokens), start)
    BY <1>4 DEF ReadInv
  <2>2. Read' /\ Begins(Len(tokens), start)' /\ (pc' = "commit" => Ends(start, curr)')
    <3>1. Read'
      BY <1>3, <1>4, TokensStay
    <3>2. Begins(Len(tokens), start)'
      BY <1>4, <2>1 DEF Begins
    <3>3. ASSUME pc' = "commit" PROVE Ends(start, curr)'
      BY <1>4, <3>3 DEF Ends
    <3> QED BY <3>1, <3>2, <3>3
  <2>3. TokensAreThoseOfTheText'
    BY <1>4, <2>2 DEF TokensAreThoseOfTheText, Parsing
  <2> QED BY <1>4, <2>2, <2>3 DEF ReadInv
<1>5. CASE Parenthesis
  <2>1. /\ pc = "token" /\ start = curr /\ curr <= Len(text) /\ text[curr] \in Parens
        /\ curr' = curr + 1 /\ pc' \in {"commit", "overrun"} /\ UNCHANGED <<text, tokens, start>>
    BY <1>1, <1>2, <1>5 DEF Parenthesis, At, AtEnd, Take, TokenInv
  <2>2. Ends(start, curr')
    BY <1>1, <2>1 DEF Ends
  <2> QED BY <1>4, <2>1, <2>2
<1>6. CASE OpenString
  <2>1. pc = "token" /\ pc' \in {"string", "overrun"} /\ UNCHANGED <<text, tokens, start>>
    BY <1>6 DEF OpenString, Take
  <2> QED BY <1>4, <2>1
<1>7. CASE InString
  <2>1. /\ pc = "string" /\ UNCHANGED <<text, tokens, start>> /\ start < curr /\ text[start] = Quote
        /\ \A k \in start + 1 .. curr - 1 : text[k] # Quote
    BY <1>2, <1>7 DEF InString, TokenInv, StringIn
  <2>2. CASE AtEnd
    <3>1. pc' = "mismatched" /\ curr = Len(text) + 1
      BY <1>7, <2>2 DEF InString, AtEnd
    <3>2. start <= Len(text) /\ \A k \in start + 1 .. Len(text) : text[k] # Quote
      BY <1>1, <2>1, <3>1
    <3> QED BY <1>4, <2>1, <3>1, <3>2
  <2>3. CASE ~AtEnd /\ At({Quote})
    <3>1. /\ pc' \in {"commit", "overrun"} /\ curr' = curr + 1 /\ text[curr] = Quote
          /\ curr <= Len(text)
      BY <1>1, <1>7, <2>3 DEF InString, Take, At, AtEnd
    <3>2. start + 1 < curr' /\ curr' - 1 = curr /\ curr' - 2 = curr - 1 /\ curr' <= Len(text) + 1
      BY <1>1, <2>1, <3>1
    <3>3. Ends(start, curr')
      BY <1>1, <2>1, <3>1, <3>2 DEF Ends
    <3> QED BY <1>4, <2>1, <3>1, <3>3
  <2>4. CASE ~AtEnd /\ ~At({Quote})
    <3>1. pc' \in {"string", "overrun"}
      BY <1>7, <2>4 DEF InString, Take
    <3> QED BY <1>4, <2>1, <3>1
  <2> QED BY <2>2, <2>3, <2>4
<1>8. CASE StartWord
  <2>1. /\ pc = "token" /\ pc' = "word" /\ start = curr /\ UNCHANGED <<text, tokens, start>>
        /\ curr <= Len(text) => text[curr] \notin Parens \cup {Quote}
    BY <1>1, <1>2, <1>8 DEF StartWord, TokenInv, At, AtEnd
  <2> QED BY <1>4, <2>1
<1>9. CASE InWord
  <2>1. /\ pc = "word" /\ UNCHANGED <<text, tokens, start>> /\ WordIn(start, curr)
        /\ start <= Len(text) => text[start] \notin Parens \cup {Quote}
    BY <1>2, <1>9 DEF InWord, TokenInv, ReadInv
  <2>2. CASE AtEnd \/ At(Blanks \cup Parens)
    <3>1. pc' = "commit" /\ curr' = curr /\ (curr = Len(text) + 1 \/ text[curr] \in Blanks \cup Parens)
      BY <1>9, <2>2 DEF InWord, At, AtEnd
    <3>2. Ends(start, curr')
      BY <1>1, <2>1, <3>1 DEF Ends, WordIn
    <3> QED BY <1>4, <2>1, <3>1, <3>2
  <2>3. CASE ~AtEnd /\ ~At(Blanks \cup Parens)
    <3>1. pc' \in {"word", "overrun"}
      BY <1>9, <2>3 DEF InWord, Take
    <3> QED BY <1>4, <2>1, <3>1
  <2> QED BY <2>2, <2>3
<1>10. CASE Commit
  <2>1. /\ pc = "commit" /\ UNCHANGED <<text, curr, start>>
        /\ Begins(Len(tokens), start) /\ Ends(start, curr)
    BY <1>10 DEF Commit, ReadInv
  <2>2. CASE pc' = "overrun" /\ UNCHANGED tokens
    BY <1>4, <2>1, <2>2
  <2> DEFINE token == [from |-> start, to |-> curr - 1]
  <2>3. CASE tokens' = Append(tokens, token) /\ pc' = IF AtEnd THEN "expr" ELSE "blank"
    <3>1. /\ tokens' # <<>> /\ Len(tokens') = Len(tokens) + 1
          /\ tokens'[Len(tokens) + 1].from = start /\ tokens'[Len(tokens) + 1].to = curr - 1
          /\ \A k \in 1 .. Len(tokens) : tokens'[k] = tokens[k]
      <4>1. token \in Token
        BY <1>1 DEF Token
      <4>2. token.from = start /\ token.to = curr - 1
        OBVIOUS
      <4> HIDE DEF token
      <4>3. /\ Len(tokens') = Len(tokens) + 1 /\ tokens'[Len(tokens) + 1] = token
            /\ \A k \in 1 .. Len(tokens) : tokens'[k] = tokens[k]
        BY <1>2, <2>3, <4>1
      <4>4. tokens' # <<>>
        BY <1>1, <4>3
      <4> QED BY <4>2, <4>3, <4>4
    <3>2. curr - 1 + 1 = curr
      BY <1>1
    <3>3. Read'
      <4> SUFFICES ASSUME NEW n \in 1 .. Len(tokens) + 1
                   PROVE  (Begins(n - 1, tokens[n].from) /\ Ends(tokens[n].from, tokens[n].to + 1))'
        BY <3>1
      <4>1. n - 1 # 0 => tokens'[n - 1] = tokens[n - 1]
        <5>1. n - 1 # 0 => n - 1 \in 1 .. Len(tokens)
          BY <1>1
        <5> QED BY <3>1, <5>1
      <4>2. CASE n = Len(tokens) + 1
        <5>1. tokens'[n].from = start /\ tokens'[n].to + 1 = curr /\ Begins(n - 1, start)
          BY <1>1, <2>1, <3>1, <3>2, <4>2
        <5>2. (Begins(n - 1, tokens[n].from))'
          BY <2>1, <4>1, <5>1 DEF Begins
        <5>3. (Ends(tokens[n].from, tokens[n].to + 1))'
          BY <2>1, <5>1 DEF Ends
        <5> QED BY <5>2, <5>3
      <4>3. CASE n \in 1 .. Len(tokens)
        <5>1. tokens'[n] = tokens[n] /\ Begins(n - 1, tokens[n].from) /\ Ends(tokens[n].from, tokens[n].to + 1)
          BY <1>3, <3>1, <4>3
        <5>2. (Begins(n - 1, tokens[n].from))'
          BY <2>1, <4>1, <5>1 DEF Begins
        <5>3. (Ends(tokens[n].from, tokens[n].to + 1))'
          BY <2>1, <5>1 DEF Ends
        <5> QED BY <5>2, <5>3
      <4> QED BY <1>1, <4>2, <4>3
    <3>4. tokens'[Len(tokens')].to = curr - 1
      BY <3>1
    <3>5. CASE AtEnd
      <4>1. curr - 1 = Len(text) /\ pc' = "expr"
        BY <1>1, <2>3, <3>5 DEF AtEnd
      <4>2. TokensAreThoseOfTheText'
        BY <2>1, <3>1, <3>3, <3>4, <4>1 DEF TokensAreThoseOfTheText
      <4> QED BY <4>1, <4>2 DEF ReadInv
    <3>6. CASE ~AtEnd
      <4>1. curr <= Len(text)
        BY <1>1, <3>6 DEF AtEnd
      <4>2. pc' = "blank"
        BY <2>3, <3>6
      <4>3. TokensAreThoseOfTheText'
        BY <3>3, <4>2 DEF TokensAreThoseOfTheText, Parsing
      <4> QED BY <1>1, <2>1, <3>1, <3>2, <3>4, <4>1, <4>2, <4>3 DEF ReadInv
    <3> QED BY <3>5, <3>6
  <2> QED BY <1>10, <2>2, <2>3 DEF Commit
<1>11. CASE SkipBlanks
  <2> DEFINE j == tokens[Len(tokens)].to + 1
  <2>1. /\ pc = "blank" /\ UNCHANGED <<text, tokens>> /\ tokens # <<>>
        /\ j <= curr /\ j <= Len(text) /\ \A k \in j .. curr - 1 : text[k] \in Blanks
    BY <1>11 DEF SkipBlanks, ReadInv
  <2>2. Len(tokens) # 0 /\ j \in Nat
    <3>1. Len(tokens) # 0
      BY <1>2, <2>1, EmptySeq
    <3> QED BY <1>1, <3>1
  <2>3. Read'
    BY <1>3, <2>1, TokensStay
  <2>4. pc' \in {"blank", "token"} => TokensAreThoseOfTheText'
    BY <2>3 DEF TokensAreThoseOfTheText, Parsing
  <2>5. CASE At(Blanks)
    <3>1. curr' = curr + 1 /\ text[curr] \in Blanks /\ pc' = pc
      BY <1>11, <2>5 DEF SkipBlanks, At
    <3>2. j <= curr' /\ \A k \in j .. curr' - 1 : text[k] \in Blanks
      <4> HIDE DEF j
      <4>1. \A k \in j .. curr : k \in j .. curr - 1 \/ k = curr
        BY <1>1, <2>2
      <4> QED BY <1>1, <2>1, <2>2, <3>1, <4>1
    <3> QED BY <2>1, <2>4, <3>1, <3>2 DEF ReadInv
  <2>6. CASE ~At(Blanks)
    <3>1. pc' = "token" /\ start' = curr /\ (curr = Len(text) + 1 \/ text[curr] \notin Blanks)
      BY <1>11, <2>6 DEF SkipBlanks, At, AtEnd
    <3>2. Begins(Len(tokens), start')
      BY <2>1, <2>2, <3>1 DEF Begins
    <3>3. Begins(Len(tokens), start)'
      BY <2>1, <3>2, TokensStay DEF Begins
    <3> QED BY <2>4, <3>1, <3>3 DEF ReadInv
  <2> QED BY <2>5, <2>6
<1> QED BY <1>5, <1>6, <1>7, <1>8, <1>9, <1>10, <1>11 DEF Tokenize

\* So the tokens are those of the text all along.
LEMMA ReadInvariance == Spec => []ReadInv
<1>1. Init => ReadInv
  BY DEF Init, ReadInv, TokensAreThoseOfTheText, Begins, Parsing
<1>2. ASSUME Inv, Inv', ReadInv, [Next]_vars PROVE ReadInv'
  <2>1. CASE Tokenize
    BY <1>2, <2>1, ReadStep
  <2>2. CASE Parse
    <3>1. /\ pc \in Parsing /\ pc' \in Parsing \cup {"parsed", "error", "crash"}
          /\ UNCHANGED <<text, start, curr, tokens>>
      BY <2>2 DEF Parse, ParseFunc, ParseTick, ParseLiteral, ParseCrashes, ParseArgs, ReturnValue,
                  Null, Parsing
    <3>2. TokensAreThoseOfTheText'
      BY <1>2, <3>1, TokensStay DEF ReadInv, TokensAreThoseOfTheText, Parsing
    <3> QED BY <3>1, <3>2 DEF ReadInv, Parsing
  <2>3. CASE UNCHANGED vars
    BY <1>2, <2>3, TokensStay DEF vars, ReadInv, TokensAreThoseOfTheText, Begins, Ends
  <2> QED BY <1>2, <2>1, <2>2, <2>3 DEF Next
<1> QED BY <1>1, <1>2, ReaderInvariance, PTL DEF Spec

\* What the cursors of the tokenizer cut out of a text, of any length, are its
\* tokens: none is missed, split or joined (ME_RLI_tokenize).
THEOREM TokensAreRead == Spec => []TokensAreThoseOfTheText
<1>1. ReadInv => TokensAreThoseOfTheText
  BY DEF ReadInv
<1> QED BY <1>1, ReadInvariance, PTL

(***************************************************************************)
(* What is parsed.  Of a derivation in the grammar, the parser's stack has  *)
(* the part that is not done.  Both directions follow it by a function on   *)
(* the levels of the stack: where the expression of a level began, and      *)
(* where it ends in a derivation of the whole.                              *)
(***************************************************************************)

\* Elements of the grammar
LEMMA ConstructsAre ==
  ASSUME NEW x \in Constructs
  PROVE  \E c \in {"expr", "args"}, i \in Places, j \in Places : x = <<c, i, j>>
BY DEF Constructs

\* Places are numbers, and any two of them make a construct.
LEMMA PlacesAre ==
  ASSUME Inv
  PROVE  /\ Len(tokens) \in Nat /\ Places \subseteq Nat /\ 1 \in Places
         /\ \A i : i \in Places <=> i \in Nat /\ 1 <= i /\ i <= Len(tokens) + 1
         /\ \A c \in {"expr", "args"}, i \in Places, j \in Places : <<c, i, j>> \in Constructs
<1>1. Len(tokens) \in Nat
  BY Numbers
<1>2. \A c \in {"expr", "args"}, i \in Places, j \in Places : <<c, i, j>> \in Constructs
  BY DEF Constructs
<1> QED BY <1>1, <1>2 DEF Places

\* What is derived is closed under the rules,
LEMMA DerivedIsClosed ==
  ASSUME Inv PROVE ClosedUnderGrammar(Derived) /\ Derived \in SUBSET Constructs
<1>1. Derived \in SUBSET Constructs
  BY DEF Derived
<1>2. ASSUME NEW x \in Constructs, \A D \in SUBSET Constructs : ClosedUnderGrammar(D) => x \in D
      PROVE  x \in Derived
  BY <1>2 DEF Derived
<1>3. ASSUME NEW x \in Derived, NEW D \in SUBSET Constructs, ClosedUnderGrammar(D)
      PROVE  x \in D
  BY <1>3 DEF Derived
<1>4. ASSUME NEW i \in 1 .. Len(tokens)
      PROVE  /\ i \in Places /\ i + 1 \in Places
             /\ i < Len(tokens) => i + 2 \in Places
  BY PlacesAre
<1> HIDE DEF Derived
<1>5. ASSUME NEW i \in 1 .. Len(tokens) PROVE ClosedAt(Derived, i)
  <2>1. ASSUME ~IsAt(i, "("), ~IsAt(i, "'") PROVE <<"expr", i, i + 1>> \in Derived
    <3>1. ASSUME NEW D \in SUBSET Constructs, ClosedUnderGrammar(D) PROVE <<"expr", i, i + 1>> \in D
      BY <2>1, <3>1 DEF ClosedUnderGrammar, ClosedAt
    <3> QED BY <1>2, <1>4, <3>1, PlacesAre
  <2>2. ASSUME IsAt(i, "'"), NEW j \in Places, <<"expr", i + 1, j>> \in Derived
        PROVE  <<"expr", i, j>> \in Derived
    <3>1. ASSUME NEW D \in SUBSET Constructs, ClosedUnderGrammar(D) PROVE <<"expr", i, j>> \in D
      BY <1>3, <2>2, <3>1 DEF ClosedUnderGrammar, ClosedAt
    <3> QED BY <1>2, <1>4, <3>1, PlacesAre
  <2>3. ASSUME IsAt(i, "("), i < Len(tokens), ~IsAt(i + 1, ")"), NEW j \in Places,
               <<"args", i + 2, j>> \in Derived
        PROVE  <<"expr", i, j>> \in Derived
    <3>1. ASSUME NEW D \in SUBSET Constructs, ClosedUnderGrammar(D) PROVE <<"expr", i, j>> \in D
      BY <1>3, <2>3, <3>1 DEF ClosedUnderGrammar, ClosedAt
    <3> QED BY <1>2, <1>4, <3>1, PlacesAre
  <2>4. ASSUME IsAt(i, ")") PROVE <<"args", i, i + 1>> \in Derived
    <3>1. ASSUME NEW D \in SUBSET Constructs, ClosedUnderGrammar(D) PROVE <<"args", i, i + 1>> \in D
      BY <2>4, <3>1 DEF ClosedUnderGrammar, ClosedAt
    <3> QED BY <1>2, <1>4, <3>1, PlacesAre
  <2>5. ASSUME ~IsAt(i, ")"), NEW k \in Places, NEW j \in Places,
               <<"expr", i, k>> \in Derived, <<"args", k, j>> \in Derived
        PROVE  <<"args", i, j>> \in Derived
    <3>1. ASSUME NEW D \in SUBSET Constructs, ClosedUnderGrammar(D) PROVE <<"args", i, j>> \in D
      BY <1>3, <2>5, <3>1 DEF ClosedUnderGrammar, ClosedAt
    <3> QED BY <1>2, <1>4, <3>1, PlacesAre
  <2> QED BY <2>1, <2>2, <2>3, <2>4, <2>5 DEF ClosedAt
<1> QED BY <1>1, <1>5 DEF ClosedUnderGrammar

\* and everything in it is made by a rule: what no rule makes could be left out.
MadeExpr(i, j) ==
  /\ i <= Len(tokens)
  /\ \/ ~IsAt(i, "(") /\ ~IsAt(i, "'") /\ j = i + 1
     \/ IsAt(i, "'") /\ <<"expr", i + 1, j>> \in Derived
     \/ IsAt(i, "(") /\ i < Len(tokens) /\ ~IsAt(i + 1, ")") /\ <<"args", i + 2, j>> \in Derived
MadeArgs(i, j) ==
  /\ i <= Len(tokens)
  /\ \/ IsAt(i, ")") /\ j = i + 1
     \/ /\ ~IsAt(i, ")")
        /\ \E k \in Places : <<"expr", i, k>> \in Derived /\ <<"args", k, j>> \in Derived

\* What is derived was made by a rule.
LEMMA DerivedIsMade ==
  ASSUME Inv, NEW i \in Places, NEW j \in Places
  PROVE  /\ <<"expr", i, j>> \in Derived => MadeExpr(i, j)
         /\ <<"args", i, j>> \in Derived => MadeArgs(i, j)
<1> DEFINE D == {x \in Derived : /\ x[1] = "expr" => MadeExpr(x[2], x[3])
                                 /\ x[1] = "args" => MadeArgs(x[2], x[3])}
<1>1. \A a, b : /\ <<"expr", a, b>> \in D <=> <<"expr", a, b>> \in Derived /\ MadeExpr(a, b)
                /\ <<"args", a, b>> \in D <=> <<"args", a, b>> \in Derived /\ MadeArgs(a, b)
  OBVIOUS
<1>2. D \in SUBSET Constructs /\ \A x \in D : x \in Derived
  BY DerivedIsClosed
<1>3. \A x \in Derived : \A E \in SUBSET Constructs : ClosedUnderGrammar(E) => x \in E
  BY DEF Derived
<1> HIDE DEF D
<1>4. ClosedUnderGrammar(D)
  <2> SUFFICES ASSUME NEW a \in 1 .. Len(tokens) PROVE ClosedAt(D, a)
    BY DEF ClosedUnderGrammar
  <2>1. a <= Len(tokens)
    BY PlacesAre
  <2>2. ClosedAt(Derived, a)
    BY DerivedIsClosed DEF ClosedUnderGrammar
  <2>3. ~IsAt(a, "(") /\ ~IsAt(a, "'") => <<"expr", a, a + 1>> \in D
    BY <1>1, <2>1, <2>2 DEF ClosedAt, MadeExpr
  <2>4. IsAt(a, "'") => \A b \in Places : <<"expr", a + 1, b>> \in D => <<"expr", a, b>> \in D
    BY <1>1, <1>2, <2>1, <2>2 DEF ClosedAt, MadeExpr
  <2>5. IsAt(a, "(") /\ a < Len(tokens) /\ ~IsAt(a + 1, ")") =>
          \A b \in Places : <<"args", a + 2, b>> \in D => <<"expr", a, b>> \in D
    BY <1>1, <1>2, <2>1, <2>2 DEF ClosedAt, MadeExpr
  <2>6. IsAt(a, ")") => <<"args", a, a + 1>> \in D
    BY <1>1, <2>1, <2>2 DEF ClosedAt, MadeArgs
  <2>7. ~IsAt(a, ")") => \A k, b \in Places :
          <<"expr", a, k>> \in D /\ <<"args", k, b>> \in D => <<"args", a, b>> \in D
    BY <1>1, <1>2, <2>1, <2>2 DEF ClosedAt, MadeArgs
  <2> QED BY <2>3, <2>4, <2>5, <2>6, <2>7 DEF ClosedAt
<1> QED BY <1>1, <1>2, <1>3, <1>4

\* The calls that wait for the end of an expression: behind a value, a function
\* does not any more.
Waiting == IF pc = "args" THEN Len(stack) - 1 ELSE Len(stack)

\* D has an expression that begins at y if it has what is waited for from x on.
Begun(D, f, x, y) ==
  /\ f = "tick" => \A j \in Nat : <<"expr", x, j>> \in D => <<"expr", y, j>> \in D
  /\ f = "func" => \A k, j \in Nat :
       <<"expr", x, k>> \in D /\ <<"args", k, j>> \in D => <<"expr", y, j>> \in D

\* b has where the expression of each level began.
Followed(D, b) ==
  /\ b[1] = 1
  /\ \A r \in 1 .. Waiting : Begun(D, stack[r], b[r + 1], b[r])
  /\ pc = "expr" => b[Len(stack) + 1] = cursor
  /\ pc \in {"value", "parsed"} => <<"expr", b[Len(stack) + 1], cursor>> \in D
  /\ pc = "args" => \A j \in Nat : <<"args", cursor, j>> \in D => <<"expr", b[Len(stack)], j>> \in D

\* What is waited for ends before x in a derivation of what ends before y.
Ending(D, f, x, y) ==
  /\ f = "tick" => x = y
  /\ f = "func" => <<"args", x, y>> \in D

\* e has where the expression of each level ends in a derivation of one that
\* ends before m.
Foreseen(D, m, e) ==
  /\ e[1] = m
  /\ \A r \in 1 .. Waiting : Ending(D, stack[r], e[r + 1], e[r])
  /\ pc = "expr" => <<"expr", cursor, e[Len(stack) + 1]>> \in D
  /\ pc \in {"value", "parsed"} => cursor = e[Len(stack) + 1]
  /\ pc = "args" => <<"args", cursor, e[Len(stack)]>> \in D
  /\ pc \notin {"error", "crash"}

Level == [Nat -> Nat]
GrammarInv ==
  /\ pc \in Parsing \cup {"parsed"} =>
       \A D \in SUBSET Constructs : ClosedUnderGrammar(D) => \E b \in Level : Followed(D, b)
  /\ pc \in Parsing \cup {"parsed", "error", "crash"} =>
       \A m \in Places : <<"expr", 1, m>> \in Derived => \E e \in Level : Foreseen(Derived, m, e)

\* The grammar is about the tokens only.
LEMMA GrammarStays ==
  ASSUME UNCHANGED <<text, tokens>>
  PROVE  /\ Places' = Places /\ Constructs' = Constructs /\ Derived' = Derived
         /\ \A D : ClosedUnderGrammar(D)' <=> ClosedUnderGrammar(D)
<1>1. Places' = Places /\ Constructs' = Constructs
  BY DEF Places, Constructs
<1>2. \A D : ClosedUnderGrammar(D)' <=> ClosedUnderGrammar(D)
  BY <1>1 DEF ClosedUnderGrammar, ClosedAt, IsAt
<1>3. Derived' = Derived
  BY <1>1, <1>2 DEF Derived
<1> QED BY <1>1, <1>2, <1>3

\* What is on the stack stays there, but for its top.
LEMMA StackElements ==
  ASSUME Inv
  PROVE  /\ \A f \in {"func", "tick"} : \A r \in 1 .. Len(stack) : Append(stack, f)[r] = stack[r]
         /\ stack # <<>> =>
              \A r \in 1 .. Len(stack) - 1 : SubSeq(stack, 1, Len(stack) - 1)[r] = stack[r]
<1> DEFINE S == {"func", "tick"}
<1>1. stack \in Seq(S) /\ Len(stack) \in Nat
  BY DEF Inv, TypeOK
<1> HIDE DEF S
<1>2. \A f \in S : \A r \in 1 .. Len(stack) : Append(stack, f)[r] = stack[r]
  BY <1>1, AppendProperties
<1>3. ASSUME stack # <<>>, NEW r \in 1 .. Len(stack) - 1
      PROVE  SubSeq(stack, 1, Len(stack) - 1)[r] = stack[r]
  BY <1>1, <1>3
<1> QED BY <1>2, <1>3 DEF S

\* A step of the parser, as the derivation sees it
LEMMA ParserSteps ==
  ASSUME Inv, Parse
  PROVE  /\ pc \in Parsing /\ UNCHANGED <<text, tokens>>
         /\ \/ /\ pc = "expr" /\ cursor <= Len(tokens) /\ IsAt(cursor, "(")
               /\ ~(cursor < Len(tokens) /\ ~IsAt(cursor + 1, ")")) /\ pc' = "error"
            \/ /\ pc = "expr" /\ cursor < Len(tokens) /\ IsAt(cursor, "(") /\ ~IsAt(cursor + 1, ")")
               /\ pc' = "args" /\ cursor' = cursor + 2 /\ stack' = Append(stack, "func")
            \/ /\ pc = "expr" /\ cursor <= Len(tokens) /\ IsAt(cursor, "'")
               /\ pc' = "expr" /\ cursor' = cursor + 1 /\ stack' = Append(stack, "tick")
            \/ /\ pc = "expr" /\ cursor <= Len(tokens) /\ ~IsAt(cursor, "(") /\ ~IsAt(cursor, "'")
               /\ pc' = "value" /\ cursor' = cursor + 1 /\ stack' = stack
            \/ pc = "expr" /\ cursor > Len(tokens) /\ pc' = "crash"
            \/ pc = "args" /\ cursor > Len(tokens) /\ pc' = "error"
            \/ /\ pc = "args" /\ cursor <= Len(tokens) /\ IsAt(cursor, ")") /\ stack # <<>>
               /\ pc' = "value" /\ cursor' = cursor + 1 /\ stack' = SubSeq(stack, 1, Len(stack) - 1)
            \/ /\ pc = "args" /\ cursor <= Len(tokens) /\ ~IsAt(cursor, ")") /\ stack # <<>>
               /\ pc' = "expr" /\ cursor' = cursor /\ stack' = stack
            \/ pc = "value" /\ stack = <<>> /\ pc' = "parsed" /\ cursor' = cursor /\ stack' = stack
            \/ pc = "value" /\ stack # <<>> /\ Top = "func" /\ pc' = "args" /\ cursor' = cursor /\ stack' = stack
            \/ /\ pc = "value" /\ stack # <<>> /\ Top = "tick" /\ pc' = "value" /\ cursor' = cursor
               /\ stack' = SubSeq(stack, 1, Len(stack) - 1)
<1>1. Len(tokens) \in Nat /\ cursor \in Nat
  BY Numbers
<1>2. stack # <<>> => Top \in {"func", "tick"}
  BY StackChanges
<1>3. pc = "args" => stack # <<>>
  BY DEF Inv, ParseInv
<1>4. CASE ParseFunc
  BY <1>1, <1>4 DEF ParseFunc, PastEnd, Is, IsAt, Null, Push, Parsing
<1>5. CASE ParseTick
  BY <1>1, <1>5 DEF ParseTick, PastEnd, Is, IsAt, Push, Parsing
<1>8. CASE ParseLiteral
  BY <1>1, <1>8 DEF ParseLiteral, PastEnd, Is, IsAt, Parsing
<1>9. CASE ParseCrashes
  BY <1>1, <1>9 DEF ParseCrashes, PastEnd, Parsing
<1>6. CASE ParseArgs
  BY <1>1, <1>3, <1>6 DEF ParseArgs, PastEnd, Is, IsAt, Null, Pop, Parsing
<1>7. CASE ReturnValue
  BY <1>2, <1>7 DEF ReturnValue, Pop, Parsing
<1> QED BY <1>4, <1>5, <1>6, <1>7, <1>8, <1>9 DEF Parse

\* A level is changed, and the others stay.
Changed(b, c, m, v) == c[m] = v /\ \A r \in Nat : r # m => c[r] = b[r]

\* There is such a sequence of levels.
LEMMA LevelChanges ==
  ASSUME NEW b \in Level, NEW m \in Nat, NEW v \in Nat
  PROVE  \E c \in Level : Changed(b, c, m, v)
<1>1. [b EXCEPT ![m] = v] \in [Nat -> Nat]
  BY DEF Level
<1>2. [b EXCEPT ![m] = v][m] = v /\ \A r \in Nat : r # m => [b EXCEPT ![m] = v][r] = b[r]
  BY DEF Level
<1> QED BY <1>1, <1>2 DEF Level, Changed

\* The stack is a level higher, or a level lower.
LEMMA StackLevels ==
  ASSUME Inv, NEW n \in Nat, n = Len(stack)
  PROVE  /\ \A f \in {"func", "tick"} : stack' = Append(stack, f) =>
              Len(stack') = n + 1 /\ stack'[n + 1] = f /\ \A r \in 1 .. n : stack'[r] = stack[r]
         /\ stack # <<>> /\ stack' = SubSeq(stack, 1, Len(stack) - 1) =>
              n > 0 /\ Len(stack') = n - 1 /\ \A r \in 1 .. n - 1 : stack'[r] = stack[r]
         /\ stack # <<>> => n > 0 /\ Top = stack[n]
BY StackChanges, StackElements DEF Top

\* What the rules make at the cursor
LEMMA RulesAtCursor ==
  ASSUME Inv, NEW D \in SUBSET Constructs, ClosedUnderGrammar(D), cursor <= Len(tokens)
  PROVE  /\ ~IsAt(cursor, "(") /\ ~IsAt(cursor, "'") => <<"expr", cursor, cursor + 1>> \in D
         /\ IsAt(cursor, "'") => \A j \in Nat : <<"expr", cursor + 1, j>> \in D => <<"expr", cursor, j>> \in D
         /\ IsAt(cursor, "(") /\ cursor < Len(tokens) /\ ~IsAt(cursor + 1, ")") =>
              \A j \in Nat : <<"args", cursor + 2, j>> \in D => <<"expr", cursor, j>> \in D
         /\ IsAt(cursor, ")") => <<"args", cursor, cursor + 1>> \in D
         /\ ~IsAt(cursor, ")") => \A k, j \in Nat :
              <<"expr", cursor, k>> \in D /\ <<"args", k, j>> \in D => <<"args", cursor, j>> \in D
<1>1. cursor \in 1 .. Len(tokens)
  BY Numbers
<1>2. ClosedAt(D, cursor)
  BY <1>1 DEF ClosedUnderGrammar
<1>3. \A c, i, j : <<c, i, j>> \in D => i \in Places /\ j \in Places
  BY DEF Constructs
<1> QED BY <1>2, <1>3 DEF ClosedAt

\* Each step of the parser keeps to what is derived ...
LEMMA FollowedStep ==
  ASSUME Inv, Parse, NEW D \in SUBSET Constructs, ClosedUnderGrammar(D),
         NEW b \in Level, Followed(D, b), pc' \in Parsing \cup {"parsed"},
         NEW n \in Nat, n = Len(stack)
  PROVE  \E c \in Level : Followed(D, c)'
<1>1. Len(tokens) \in Nat /\ cursor \in Nat \ {0}
  BY Numbers
<1>2. CASE /\ pc = "expr" /\ cursor < Len(tokens) /\ IsAt(cursor, "(") /\ ~IsAt(cursor + 1, ")")
           /\ pc' = "args" /\ cursor' = cursor + 2 /\ stack' = Append(stack, "func")
  <2>1. Len(stack') = n + 1 /\ \A r \in 1 .. n : stack'[r] = stack[r]
    BY <1>2, StackLevels
  <2>2. cursor <= Len(tokens)
    BY <1>1, <1>2
  <2>3. \A j \in Nat : <<"args", cursor + 2, j>> \in D => <<"expr", cursor, j>> \in D
    BY <1>2, <2>2, RulesAtCursor
  <2>4. Waiting = n /\ Waiting' = n
    BY <1>2, <2>1 DEF Waiting
  <2>5. Followed(D, b)'
    BY <1>2, <2>1, <2>3, <2>4 DEF Followed
  <2> QED BY <2>5
<1>3. CASE /\ pc = "expr" /\ cursor <= Len(tokens) /\ IsAt(cursor, "'")
           /\ pc' = "expr" /\ cursor' = cursor + 1 /\ stack' = Append(stack, "tick")
  <2>1. Len(stack') = n + 1 /\ stack'[n + 1] = "tick" /\ \A r \in 1 .. n : stack'[r] = stack[r]
    BY <1>3, StackLevels
  <2>2. Waiting = n /\ Waiting' = n + 1
    BY <1>3, <2>1 DEF Waiting
  <2>3. PICK c \in Level : Changed(b, c, n + 2, cursor + 1)
    <3>1. n + 2 \in Nat /\ cursor + 1 \in Nat
      BY <1>1
    <3> QED BY <3>1, LevelChanges
  <2>4. \A r \in 1 .. n : c[r] = b[r] /\ c[r + 1] = b[r + 1]
    BY <2>3 DEF Changed
  <2>5. c[1] = 1 /\ c[n + 1] = cursor /\ c[n + 2] = cursor + 1
    BY <1>3, <2>3 DEF Followed, Changed
  <2>6. Begun(D, "tick", c[n + 2], c[n + 1])
    BY <1>3, <2>5, RulesAtCursor DEF Begun
  <2>7. \A r \in 1 .. n : Begun(D, stack'[r], c[r + 1], c[r])
    BY <2>1, <2>2, <2>4 DEF Followed
  <2>8. \A r \in 1 .. n + 1 : Begun(D, stack'[r], c[r + 1], c[r])
    <3>1. \A r \in 1 .. n + 1 : r \in 1 .. n \/ r = n + 1
      OBVIOUS
    <3>2. n + 1 + 1 = n + 2
      OBVIOUS
    <3> QED BY <2>1, <2>6, <2>7, <3>1, <3>2
  <2>9. c[Len(stack') + 1] = cursor'
    <3>1. n + 1 + 1 = n + 2
      OBVIOUS
    <3> QED BY <1>3, <2>1, <2>5, <3>1
  <2>10. Followed(D, c)'
    BY <1>3, <2>2, <2>5, <2>8, <2>9 DEF Followed
  <2> QED BY <2>10
<1>4. CASE /\ pc = "expr" /\ cursor <= Len(tokens) /\ ~IsAt(cursor, "(") /\ ~IsAt(cursor, "'")
           /\ pc' = "value" /\ cursor' = cursor + 1 /\ stack' = stack
  <2>1. <<"expr", cursor, cursor + 1>> \in D
    BY <1>4, RulesAtCursor
  <2>2. Waiting = n /\ Waiting' = n
    BY <1>4 DEF Waiting
  <2>3. Followed(D, b)'
    BY <1>4, <2>1, <2>2 DEF Followed
  <2> QED BY <2>3
<1>5. CASE /\ pc = "args" /\ cursor <= Len(tokens) /\ IsAt(cursor, ")") /\ stack # <<>>
           /\ pc' = "value" /\ cursor' = cursor + 1 /\ stack' = SubSeq(stack, 1, Len(stack) - 1)
  <2>1. n > 0 /\ Len(stack') = n - 1 /\ \A r \in 1 .. n - 1 : stack'[r] = stack[r]
    BY <1>5, StackLevels
  <2>2. <<"expr", b[n], cursor + 1>> \in D
    BY <1>1, <1>5, RulesAtCursor DEF Followed
  <2>3. Waiting = n - 1 /\ Waiting' = n - 1 /\ Len(stack') + 1 = n
    BY <1>5, <2>1 DEF Waiting
  <2>4. Followed(D, b)'
    BY <1>5, <2>1, <2>2, <2>3 DEF Followed
  <2> QED BY <2>4
<1>6. CASE /\ pc = "args" /\ cursor <= Len(tokens) /\ ~IsAt(cursor, ")") /\ stack # <<>>
           /\ pc' = "expr" /\ cursor' = cursor /\ stack' = stack
  <2>1. n > 0 /\ stack[n] = "func"
    BY <1>6, StackLevels DEF Inv, ParseInv
  <2>2. Waiting = n - 1 /\ Waiting' = n
    BY <1>6 DEF Waiting
  <2>3. PICK c \in Level : Changed(b, c, n + 1, cursor)
    <3>1. n + 1 \in Nat /\ cursor \in Nat
      BY <1>1
    <3> QED BY <3>1, LevelChanges
  <2>4. /\ c[1] = 1 /\ c[n] = b[n] /\ c[n + 1] = cursor
        /\ \A r \in 1 .. n - 1 : c[r] = b[r] /\ c[r + 1] = b[r + 1]
    <3>1. 1 # n + 1 /\ n # n + 1 /\ \A r \in 1 .. n - 1 : r \in Nat /\ r # n + 1 /\ r + 1 \in Nat /\ r + 1 # n + 1
      BY <2>1
    <3> QED BY <2>3, <3>1 DEF Followed, Changed
  <2>5. Begun(D, "func", c[n + 1], c[n])
    <3>1. \A j \in Nat : <<"args", cursor, j>> \in D => <<"expr", b[n], j>> \in D
      BY <1>6 DEF Followed
    <3> QED BY <1>6, <2>4, <3>1, RulesAtCursor DEF Begun
  <2>6. \A r \in 1 .. n - 1 : Begun(D, stack[r], c[r + 1], c[r])
    BY <2>2, <2>4 DEF Followed
  <2>7. \A r \in 1 .. n : Begun(D, stack[r], c[r + 1], c[r])
    <3>1. \A r \in 1 .. n : r \in 1 .. n - 1 \/ r = n
      OBVIOUS
    <3> QED BY <2>1, <2>5, <2>6, <3>1
  <2>8. Followed(D, c)'
    BY <1>6, <2>2, <2>4, <2>7 DEF Followed
  <2> QED BY <2>8
<1>7. CASE pc = "value" /\ stack = <<>> /\ pc' = "parsed" /\ cursor' = cursor /\ stack' = stack
  <2>1. Waiting = n /\ Waiting' = n
    BY <1>7 DEF Waiting
  <2>2. Followed(D, b)'
    BY <1>7, <2>1 DEF Followed
  <2> QED BY <2>2
<1>8. CASE pc = "value" /\ stack # <<>> /\ Top = "func" /\ pc' = "args" /\ cursor' = cursor /\ stack' = stack
  <2>1. n > 0 /\ stack[n] = "func"
    BY <1>8, StackLevels
  <2>2. Waiting = n /\ Waiting' = n - 1
    BY <1>8 DEF Waiting
  <2>3. n \in 1 .. n /\ \A r \in 1 .. n - 1 : r \in 1 .. n
    BY <2>1
  <2>4. Begun(D, "func", b[n + 1], b[n]) /\ <<"expr", b[n + 1], cursor>> \in D
    BY <1>8, <2>1, <2>2, <2>3 DEF Followed
  <2>5. \A j \in Nat : <<"args", cursor, j>> \in D => <<"expr", b[n], j>> \in D
    BY <1>1, <2>4 DEF Begun
  <2>6. Followed(D, b)'
    BY <1>8, <2>2, <2>3, <2>5 DEF Followed
  <2> QED BY <2>6
<1>9. CASE /\ pc = "value" /\ stack # <<>> /\ Top = "tick" /\ pc' = "value" /\ cursor' = cursor
           /\ stack' = SubSeq(stack, 1, Len(stack) - 1)
  <2>1. n > 0 /\ stack[n] = "tick" /\ Len(stack') = n - 1 /\ \A r \in 1 .. n - 1 : stack'[r] = stack[r]
    BY <1>9, StackLevels
  <2>2. Waiting = n /\ Waiting' = n - 1 /\ Len(stack') + 1 = n
    BY <1>9, <2>1 DEF Waiting
  <2>3. n \in 1 .. n /\ \A r \in 1 .. n - 1 : r \in 1 .. n
    BY <2>1
  <2>4. Begun(D, "tick", b[n + 1], b[n]) /\ <<"expr", b[n + 1], cursor>> \in D
    BY <1>9, <2>1, <2>2, <2>3 DEF Followed
  <2>5. <<"expr", b[n], cursor>> \in D
    BY <1>1, <2>4 DEF Begun
  <2>6. Followed(D, b)'
    BY <1>9, <2>1, <2>2, <2>3, <2>5 DEF Followed
  <2> QED BY <2>6
<1>10. pc' \notin {"error", "crash"}
  BY DEF Parsing
<1> QED BY <1>2, <1>3, <1>4, <1>5, <1>6, <1>7, <1>8, <1>9, <1>10, ParserSteps

\* What made an element of the grammar that begins at the cursor
LEMMA MadeAtCursor ==
  ASSUME Inv, NEW j
  PROVE  /\ <<"expr", cursor, j>> \in Derived => MadeExpr(cursor, j)
         /\ <<"args", cursor, j>> \in Derived => MadeArgs(cursor, j)
<1>1. \A c, i, k : <<c, i, k>> \in Derived => i \in Places /\ k \in Places
  BY DerivedIsClosed DEF Constructs
<1> QED BY <1>1, DerivedIsMade

\* ... and to all of it.
LEMMA ForeseenStep ==
  ASSUME Inv, Parse, NEW m, NEW e \in Level, Foreseen(Derived, m, e),
         NEW D, D = Derived, NEW n \in Nat, n = Len(stack)
  PROVE  \E c \in Level : Foreseen(D, m, c)'
<1>1. Len(tokens) \in Nat /\ cursor \in Nat \ {0} /\ Foreseen(D, m, e)
  BY Numbers
<1>2. /\ pc = "expr" => MadeExpr(cursor, e[n + 1])
      /\ pc = "args" => MadeArgs(cursor, e[n])
  <2>1. /\ pc = "expr" => <<"expr", cursor, e[n + 1]>> \in Derived
        /\ pc = "args" => <<"args", cursor, e[n]>> \in Derived
    BY DEF Foreseen
  <2> QED BY <2>1, MadeAtCursor
<1>3. ~(IsAt(cursor, "(") /\ IsAt(cursor, "'"))
  BY DEF IsAt
<1>4. CASE /\ pc = "expr" /\ cursor <= Len(tokens) /\ IsAt(cursor, "(")
           /\ ~(cursor < Len(tokens) /\ ~IsAt(cursor + 1, ")")) /\ pc' = "error"
  BY <1>2, <1>3, <1>4 DEF MadeExpr
<1>5. CASE /\ pc = "expr" /\ cursor < Len(tokens) /\ IsAt(cursor, "(") /\ ~IsAt(cursor + 1, ")")
           /\ pc' = "args" /\ cursor' = cursor + 2 /\ stack' = Append(stack, "func")
  <2>1. Len(stack') = n + 1 /\ \A r \in 1 .. n : stack'[r] = stack[r]
    BY <1>5, StackLevels
  <2>2. <<"args", cursor + 2, e[n + 1]>> \in D
    BY <1>2, <1>3, <1>5 DEF MadeExpr
  <2>3. Waiting = n /\ Waiting' = n
    BY <1>5, <2>1 DEF Waiting
  <2>4. Foreseen(D, m, e)'
    BY <1>1, <1>5, <2>1, <2>2, <2>3 DEF Foreseen
  <2> QED BY <2>4
<1>6. CASE /\ pc = "expr" /\ cursor <= Len(tokens) /\ IsAt(cursor, "'")
           /\ pc' = "expr" /\ cursor' = cursor + 1 /\ stack' = Append(stack, "tick")
  <2>1. Len(stack') = n + 1 /\ stack'[n + 1] = "tick" /\ \A r \in 1 .. n : stack'[r] = stack[r]
    BY <1>6, StackLevels
  <2>2. Waiting = n /\ Waiting' = n + 1
    BY <1>6, <2>1 DEF Waiting
  <2>3. <<"expr", cursor + 1, e[n + 1]>> \in D
    BY <1>2, <1>3, <1>6 DEF MadeExpr
  <2>4. PICK c \in Level : Changed(e, c, n + 2, e[n + 1])
    <3>1. n + 2 \in Nat /\ e[n + 1] \in Nat
      BY DEF Level
    <3> QED BY <3>1, LevelChanges
  <2>5. c[1] = e[1] /\ c[n + 1] = e[n + 1] /\ c[n + 2] = e[n + 1]
    BY <2>4 DEF Changed
  <2>6. \A r \in 1 .. n : c[r] = e[r] /\ c[r + 1] = e[r + 1]
    BY <2>4 DEF Changed
  <2>7. \A r \in 1 .. n : Ending(D, stack'[r], c[r + 1], c[r])
    BY <1>1, <2>1, <2>2, <2>6 DEF Foreseen
  <2>8. Ending(D, "tick", c[n + 2], c[n + 1])
    BY <2>5 DEF Ending
  <2>9. n + 1 + 1 = n + 2 /\ \A r \in 1 .. n + 1 : r \in 1 .. n \/ r = n + 1
    OBVIOUS
  <2>10. \A r \in 1 .. n + 1 : Ending(D, stack'[r], c[r + 1], c[r])
    BY <2>1, <2>7, <2>8, <2>9
  <2>11. <<"expr", cursor', c[Len(stack') + 1]>> \in D
    BY <1>6, <2>1, <2>3, <2>5, <2>9
  <2>12. Foreseen(D, m, c)'
    BY <1>1, <1>6, <2>2, <2>5, <2>10, <2>11 DEF Foreseen
  <2> QED BY <2>12
<1>7. CASE /\ pc = "expr" /\ cursor <= Len(tokens) /\ ~IsAt(cursor, "(") /\ ~IsAt(cursor, "'")
           /\ pc' = "value" /\ cursor' = cursor + 1 /\ stack' = stack
  <2>1. cursor + 1 = e[n + 1]
    BY <1>2, <1>7 DEF MadeExpr
  <2>2. Waiting = n /\ Waiting' = n
    BY <1>7 DEF Waiting
  <2>3. Foreseen(D, m, e)'
    BY <1>1, <1>7, <2>1, <2>2 DEF Foreseen
  <2> QED BY <2>3
<1>8. CASE pc = "expr" /\ cursor > Len(tokens) /\ pc' = "crash"
  BY <1>1, <1>2, <1>8 DEF MadeExpr
<1>9. CASE pc = "args" /\ cursor > Len(tokens) /\ pc' = "error"
  BY <1>1, <1>2, <1>9 DEF MadeArgs
<1>10. CASE /\ pc = "args" /\ cursor <= Len(tokens) /\ IsAt(cursor, ")") /\ stack # <<>>
            /\ pc' = "value" /\ cursor' = cursor + 1 /\ stack' = SubSeq(stack, 1, Len(stack) - 1)
  <2>1. n > 0 /\ Len(stack') = n - 1 /\ \A r \in 1 .. n - 1 : stack'[r] = stack[r]
    BY <1>10, StackLevels
  <2>2. cursor + 1 = e[n]
    BY <1>2, <1>10 DEF MadeArgs
  <2>3. Waiting = n - 1 /\ Waiting' = n - 1 /\ Len(stack') + 1 = n
    BY <1>10, <2>1 DEF Waiting
  <2>4. Foreseen(D, m, e)'
    BY <1>1, <1>10, <2>1, <2>2, <2>3 DEF Foreseen
  <2> QED BY <2>4
<1>11. CASE /\ pc = "args" /\ cursor <= Len(tokens) /\ ~IsAt(cursor, ")") /\ stack # <<>>
            /\ pc' = "expr" /\ cursor' = cursor /\ stack' = stack
  <2>1. n > 0 /\ stack[n] = "func"
    BY <1>11, StackLevels DEF Inv, ParseInv
  <2>2. Waiting = n - 1 /\ Waiting' = n
    BY <1>11 DEF Waiting
  <2>3. PICK k \in Places : <<"expr", cursor, k>> \in D /\ <<"args", k, e[n]>> \in D
    BY <1>2, <1>11 DEF MadeArgs
  <2>4. PICK c \in Level : Changed(e, c, n + 1, k)
    <3>1. n + 1 \in Nat /\ k \in Nat
      BY PlacesAre
    <3> QED BY <3>1, LevelChanges
  <2>5. /\ c[1] = e[1] /\ c[n] = e[n] /\ c[n + 1] = k
        /\ \A r \in 1 .. n - 1 : c[r] = e[r] /\ c[r + 1] = e[r + 1]
    <3>1. 1 # n + 1 /\ n # n + 1 /\ \A r \in 1 .. n - 1 : r \in Nat /\ r # n + 1 /\ r + 1 \in Nat /\ r + 1 # n + 1
      BY <2>1
    <3> QED BY <2>4, <3>1 DEF Changed
  <2>6. \A r \in 1 .. n - 1 : Ending(D, stack[r], c[r + 1], c[r])
    BY <1>1, <2>2, <2>5 DEF Foreseen
  <2>7. Ending(D, "func", c[n + 1], c[n])
    BY <2>3, <2>5 DEF Ending
  <2>8. \A r \in 1 .. n : Ending(D, stack[r], c[r + 1], c[r])
    <3>1. \A r \in 1 .. n : r \in 1 .. n - 1 \/ r = n
      OBVIOUS
    <3> QED BY <2>1, <2>6, <2>7, <3>1
  <2>9. Foreseen(D, m, c)'
    BY <1>1, <1>11, <2>2, <2>3, <2>5, <2>8 DEF Foreseen
  <2> QED BY <2>9
<1>12. CASE pc = "value" /\ stack = <<>> /\ pc' = "parsed" /\ cursor' = cursor /\ stack' = stack
  <2>1. Waiting = n /\ Waiting' = n
    BY <1>12 DEF Waiting
  <2>2. Foreseen(D, m, e)'
    BY <1>1, <1>12, <2>1 DEF Foreseen
  <2> QED BY <2>2
<1>13. CASE pc = "value" /\ stack # <<>> /\ Top = "func" /\ pc' = "args" /\ cursor' = cursor /\ stack' = stack
  <2>1. n > 0 /\ stack[n] = "func"
    BY <1>13, StackLevels
  <2>2. Waiting = n /\ Waiting' = n - 1
    BY <1>13 DEF Waiting
  <2>3. n \in 1 .. n /\ \A r \in 1 .. n - 1 : r \in 1 .. n
    BY <2>1
  <2>4. Ending(D, "func", e[n + 1], e[n]) /\ cursor = e[n + 1]
    BY <1>1, <1>13, <2>1, <2>2, <2>3 DEF Foreseen
  <2>5. <<"args", cursor, e[n]>> \in D
    BY <2>4 DEF Ending
  <2>6. Foreseen(D, m, e)'
    BY <1>1, <1>13, <2>2, <2>3, <2>5 DEF Foreseen
  <2> QED BY <2>6
<1>14. CASE /\ pc = "value" /\ stack # <<>> /\ Top = "tick" /\ pc' = "value" /\ cursor' = cursor
            /\ stack' = SubSeq(stack, 1, Len(stack) - 1)
  <2>1. n > 0 /\ stack[n] = "tick" /\ Len(stack') = n - 1 /\ \A r \in 1 .. n - 1 : stack'[r] = stack[r]
    BY <1>14, StackLevels
  <2>2. Waiting = n /\ Waiting' = n - 1 /\ Len(stack') + 1 = n
    BY <1>14, <2>1 DEF Waiting
  <2>3. n \in 1 .. n /\ \A r \in 1 .. n - 1 : r \in 1 .. n
    BY <2>1
  <2>4. Ending(D, "tick", e[n + 1], e[n]) /\ cursor = e[n + 1]
    BY <1>1, <1>14, <2>1, <2>2, <2>3 DEF Foreseen
  <2>5. cursor = e[n]
    BY <2>4 DEF Ending
  <2>6. Foreseen(D, m, e)'
    BY <1>1, <1>14, <2>1, <2>2, <2>3, <2>5 DEF Foreseen
  <2> QED BY <2>6
<1> QED BY <1>4, <1>5, <1>6, <1>7, <1>8, <1>9, <1>10, <1>11, <1>12, <1>13, <1>14, ParserSteps

\* The parser begins: one level, at the first token.
LEMMA GrammarStarts ==
  ASSUME Inv, pc = "expr", cursor = 1, stack = <<>> PROVE GrammarInv
<1>1. Len(stack) = 0 /\ Waiting = 0
  BY DEF Waiting
<1>2. ASSUME NEW m \in Nat PROVE [r \in Nat |-> m] \in Level /\ [r \in Nat |-> m][1] = m
  BY DEF Level
<1>3. \A D : Followed(D, [r \in Nat |-> 1])
  BY <1>1, <1>2 DEF Followed
<1>4. ASSUME NEW m \in Places, <<"expr", 1, m>> \in Derived
      PROVE  \E e \in Level : Foreseen(Derived, m, e)
  <2> DEFINE e == [r \in Nat |-> m]
  <2>1. e \in Level /\ e[1] = m
    BY <1>2, PlacesAre
  <2> HIDE DEF e
  <2>2. Foreseen(Derived, m, e)
    BY <1>1, <1>4, <2>1 DEF Foreseen
  <2> QED BY <2>1, <2>2
<1>5. [r \in Nat |-> 1] \in Level
  BY <1>2
<1> QED BY <1>3, <1>4, <1>5 DEF GrammarInv

\* The parser keeps to the grammar all along.
LEMMA GrammarInvariance == Spec => []GrammarInv
<1>1. Init => GrammarInv
  BY DEF Init, GrammarInv, Parsing
<1>2. ASSUME Inv, Inv', GrammarInv, [Next]_vars PROVE GrammarInv'
  <2>1. CASE Tokenize
    <3>1. pc \in Lexing /\ UNCHANGED <<cursor, stack>>
      BY <2>1 DEF Tokenize, Parenthesis, OpenString, InString, StartWord, InWord, Commit, SkipBlanks, Lexing
    <3>2. pc' \in Lexing \cup {"expr", "overrun", "mismatched"}
      BY <2>1 DEF Tokenize, Parenthesis, OpenString, InString, StartWord, InWord, Commit, SkipBlanks, Take, Lexing
    <3>3. CASE pc' = "expr"
      <4>1. cursor' = 1 /\ stack' = <<>>
        BY <1>2, <3>1 DEF Inv, ParseInv
      <4>2. (Inv /\ pc = "expr" /\ cursor = 1 /\ stack = <<>> => GrammarInv)'
        BY GrammarStarts, PTL
      <4> QED BY <1>2, <3>3, <4>1, <4>2
    <3>4. CASE pc' # "expr"
      BY <3>2, <3>4 DEF GrammarInv, Lexing, Parsing
    <3> QED BY <3>3, <3>4
  <2>2. CASE Parse
    <3> DEFINE n == Len(stack)
    <3>1. n \in Nat /\ pc \in Parsing /\ UNCHANGED <<text, tokens>>
      BY <1>2, <2>2, Numbers, ParserSteps
    <3>2. /\ Places' = Places /\ Constructs' = Constructs /\ Derived' = Derived
          /\ \A D : ClosedUnderGrammar(D)' <=> ClosedUnderGrammar(D)
      BY <3>1, GrammarStays
    <3>3. ASSUME pc' \in Parsing \cup {"parsed"}, NEW D \in SUBSET Constructs, ClosedUnderGrammar(D)
          PROVE  \E c \in Level : Followed(D, c)'
      <4>1. PICK b \in Level : Followed(D, b)
        BY <1>2, <3>1, <3>3 DEF GrammarInv
      <4> QED BY <1>2, <2>2, <3>1, <3>3, <4>1, FollowedStep
    <3>4. ASSUME NEW m \in Places, <<"expr", 1, m>> \in Derived
          PROVE  \E c \in Level : Foreseen(Derived, m, c)'
      <4>1. PICK e \in Level : Foreseen(Derived, m, e)
        BY <1>2, <3>1, <3>4 DEF GrammarInv
      <4>2. ASSUME NEW D, D = Derived PROVE \E c \in Level : Foreseen(D, m, c)'
        BY <1>2, <2>2, <3>1, <4>1, <4>2, ForeseenStep
      <4> QED BY <3>2, <4>2
    <3> QED BY <3>2, <3>3, <3>4 DEF GrammarInv
  <2>3. CASE UNCHANGED vars
    <3>1. /\ Places' = Places /\ Constructs' = Constructs /\ Derived' = Derived
          /\ \A D : ClosedUnderGrammar(D)' <=> ClosedUnderGrammar(D)
      BY <2>3, GrammarStays DEF vars
    <3>2. \A D, b : Followed(D, b)' <=> Followed(D, b)
      BY <2>3 DEF vars, Followed, Waiting
    <3>3. \A D, m, e : Foreseen(D, m, e)' <=> Foreseen(D, m, e)
      BY <2>3 DEF vars, Foreseen, Waiting
    <3> QED BY <1>2, <2>3, <3>1, <3>2, <3>3 DEF vars, GrammarInv
  <2> QED BY <1>2, <2>1, <2>2, <2>3 DEF Next
<1> QED BY <1>1, <1>2, ReaderInvariance, PTL DEF Spec

\* However many tokens a request has, the recursive descent finds the expression
\* that it begins with, and no other one, and refuses it only if there is none
\* (ME_RLI_IR_expr_parse).
THEOREM ParserDecidesTheGrammar == Spec => []ParsedIsAnExpression
<1>1. ASSUME Inv, GrammarInv PROVE ParsedIsAnExpression
  <2>1. ASSUME pc = "parsed", NEW j \in Places PROVE <<"expr", 1, j>> \in Derived <=> j = cursor
    <3>1. Len(stack) = 0 /\ cursor \in Places
      BY <1>1, <2>1, Numbers DEF Inv, StackIsBounded, Places
    <3>2. ASSUME <<"expr", 1, j>> \in Derived PROVE j = cursor
      <4>1. PICK e \in Level : Foreseen(Derived, j, e)
        BY <1>1, <2>1, <3>2 DEF GrammarInv
      <4> QED BY <2>1, <3>1, <4>1 DEF Foreseen
    <3>3. <<"expr", 1, cursor>> \in Derived
      <4>1. PICK b \in Level : Followed(Derived, b)
        BY <1>1, <2>1, DerivedIsClosed DEF GrammarInv
      <4> QED BY <2>1, <3>1, <4>1 DEF Followed
    <3> QED BY <3>2, <3>3
  <2>2. ASSUME pc \in {"error", "crash"}, NEW j \in Places, <<"expr", 1, j>> \in Derived PROVE FALSE
    <3>1. PICK e \in Level : Foreseen(Derived, j, e)
      BY <1>1, <2>2 DEF GrammarInv
    <3> QED BY <2>2, <3>1 DEF Foreseen
  <2> QED BY <2>1, <2>2 DEF ParsedIsAnExpression
<1> QED BY <1>1, ReaderInvariance, GrammarInvariance, PTL

(***************************************************************************)
(* What RLI defines.  The tokens are those that RLI cuts out of the text,  *)
(* and the parser's stack has the part of RLI's reading that is not done.  *)
(***************************************************************************)
Written == INSTANCE RLIProofs WITH HookIndex <- 0, Base <- <<>>, Leaves <- {}, Arity <- <<>>, MaxDepth <- 0,
                                   heap <- <<>>, expr <- 0, depth <- 0

\* No heap is needed to read a text: what is assumed of one holds of none.
LEMMA NoHeap ==
  /\ Written!IsHeap(<<>>) /\ {} \subseteq DOMAIN <<>>
  /\ DOMAIN <<>> \subseteq Written!Words /\ \A name \in DOMAIN <<>> : <<>>[name] \in Nat
  /\ 0 \in Nat /\ 0 \in Int
BY DEF Written!IsHeap

\* The tokens, as texts
Pieces == [k \in 1 .. Len(tokens) |-> SubSeq(text, tokens[k].from, tokens[k].to)]

\* A token is a piece of one character if it has that one.
LEMMA PiecesAre ==
  ASSUME Inv
  PROVE  /\ Len(Pieces) = Len(tokens)
         /\ \A k \in 1 .. Len(tokens) : \A c : Pieces[k] = <<c>> <=> IsAt(k, c)
<1>1. Len(tokens) \in Nat /\ Len(text) \in Nat
  BY Numbers
<1>2. Len(Pieces) = Len(tokens)
  BY <1>1 DEF Pieces
<1>3. ASSUME NEW k \in 1 .. Len(tokens), NEW c PROVE Pieces[k] = <<c>> <=> IsAt(k, c)
  <2> DEFINE i == tokens[k].from
             j == tokens[k].to
  <2>1. i \in Nat \ {0} /\ j \in Nat /\ i <= j + 1 /\ j <= Len(text)
    <3>1. i \in Nat \ {0} /\ j \in Nat /\ curr \in Nat /\ curr <= Len(text) + 1
      BY Numbers
    <3>2. j < curr /\ i <= j + 1
      BY DEF Inv, TokensFollow
    <3> QED BY <1>1, <3>1, <3>2
  <2>2. Pieces[k] = SubSeq(text, i, j)
    BY DEF Pieces
  <2>3. IsAt(k, c) <=> j = i /\ text[i] = c
    BY DEF IsAt
  <2>4. text \in Seq(Chars)
    BY ReaderAssumption DEF Inv, TypeOK
  <2> HIDE DEF i, j
  <2>5. DOMAIN SubSeq(text, i, j) = 1 .. j + 1 - i /\ \A m \in 1 .. j + 1 - i : SubSeq(text, i, j)[m] = text[i + m - 1]
    BY <2>1, <2>4
  <2>6. CASE j = i
    <3>1. SubSeq(text, i, j) = [m \in 1 .. 1 |-> text[i]]
      BY <2>1, <2>4, <2>6
    <3>2. SubSeq(text, i, j) = <<text[i]>>
      BY <3>1
    <3> QED BY <2>2, <2>3, <2>6, <3>2
  <2>7. CASE j # i
    <3>1. DOMAIN <<c>> = {1}
      OBVIOUS
    <3>2. 1 .. j + 1 - i # {1}
      <4>1. 2 \in 1 .. j + 1 - i \/ 1 \notin 1 .. j + 1 - i
        BY <2>1, <2>7
      <4> QED BY <4>1
    <3> QED BY <2>2, <2>3, <2>5, <2>7, <3>1, <3>2
  <2> QED BY <2>6, <2>7
<1> QED BY <1>2, <1>3

\* How RLI's readings end at a token
LEMMA ReadingsEnd ==
  ASSUME Inv, NEW p, p = Written!Parser(Pieces), NEW c \in 1 .. Len(tokens) + 1
  PROVE  /\ c > Len(tokens) => p[<<"expr", c>>].is = "crash" /\ p[<<"args", c>>].is = "null"
         /\ c <= Len(tokens) /\ IsAt(c, "(") /\ ~(c < Len(tokens) /\ ~IsAt(c + 1, ")")) =>
              p[<<"expr", c>>].is = "null"
         /\ c < Len(tokens) /\ IsAt(c, "(") /\ ~IsAt(c + 1, ")") =>
              Written!EndAlike(p[<<"expr", c>>], p[<<"args", c + 2>>])
         /\ c <= Len(tokens) /\ IsAt(c, "'") => Written!EndAlike(p[<<"expr", c>>], p[<<"expr", c + 1>>])
         /\ c <= Len(tokens) /\ ~IsAt(c, "(") /\ ~IsAt(c, "'") =>
              p[<<"expr", c>>].is = "expr" /\ p[<<"expr", c>>].curr = c + 1
         /\ c <= Len(tokens) /\ IsAt(c, ")") => p[<<"args", c>>].is = "expr" /\ p[<<"args", c>>].curr = c + 1
         /\ c <= Len(tokens) /\ ~IsAt(c, ")") /\ p[<<"expr", c>>].is # "expr" =>
              p[<<"args", c>>] = p[<<"expr", c>>]
         /\ c <= Len(tokens) /\ ~IsAt(c, ")") /\ p[<<"expr", c>>].is = "expr" =>
              Written!EndAlike(p[<<"args", c>>], p[<<"args", p[<<"expr", c>>].curr>>])
<1> DEFINE ts == Pieces
<1>1. Len(tokens) \in Nat /\ c \in Nat /\ Len(ts) = Len(tokens)
  BY Numbers, PiecesAre
<1>2. \A k \in 1 .. Len(tokens) : /\ ts[k] = Written!Open <=> IsAt(k, "(")
                                  /\ ts[k] = Written!Close <=> IsAt(k, ")")
                                  /\ ts[k] = Written!Tick <=> IsAt(k, "'")
  BY PiecesAre DEF Written!Open, Written!Close, Written!Tick
<1>3. Len(ts) \in Nat /\ c \in 1 .. Len(ts) + 1 /\ p = Written!Parser(ts)
  BY <1>1
<1> HIDE DEF ts
<1>4. Written!ExprEndsAt(p, ts, c) /\ Written!ArgsEndAt(p, ts, c)
  BY <1>3, NoHeap, Written!ParserEnds
<1>5. Written!Null.is = "null" /\ Written!Crash.is = "crash"
  BY DEF Written!Null, Written!Crash
<1>6. c + 1 > Len(ts) \/ c + 1 \in 1 .. Len(tokens)
  BY <1>1
<1>7. c <= Len(tokens) => c \in 1 .. Len(tokens)
  BY <1>1
<1>8. c + 1 <= Len(ts) <=> c < Len(tokens)
  BY <1>1
<1>9. c + 1 > Len(ts) <=> ~(c < Len(tokens))
  BY <1>1
<1>10. c < Len(tokens) => c <= Len(tokens)
  BY <1>1
<1>11. ~(IsAt(c, "(") /\ IsAt(c, "'"))
  BY DEF IsAt
<1>12. /\ c > Len(tokens) => p[<<"expr", c>>].is = "crash" /\ p[<<"args", c>>].is = "null"
       /\ c <= Len(tokens) /\ IsAt(c, "(") /\ ~(c < Len(tokens) /\ ~IsAt(c + 1, ")")) =>
            p[<<"expr", c>>].is = "null"
  BY <1>1, <1>2, <1>4, <1>5, <1>6, <1>7, <1>8, <1>9 DEF Written!ExprEndsAt, Written!ArgsEndAt
<1>13. c < Len(tokens) /\ IsAt(c, "(") /\ ~IsAt(c + 1, ")") =>
              Written!EndAlike(p[<<"expr", c>>], p[<<"args", c + 2>>])
  BY <1>2, <1>4, <1>6, <1>7, <1>8, <1>9, <1>10 DEF Written!ExprEndsAt
<1>14. /\ c <= Len(tokens) /\ IsAt(c, "'") => Written!EndAlike(p[<<"expr", c>>], p[<<"expr", c + 1>>])
       /\ c <= Len(tokens) /\ ~IsAt(c, "(") /\ ~IsAt(c, "'") =>
            p[<<"expr", c>>].is = "expr" /\ p[<<"expr", c>>].curr = c + 1
  BY <1>1, <1>2, <1>4, <1>7, <1>11 DEF Written!ExprEndsAt
<1>15. /\ c <= Len(tokens) /\ IsAt(c, ")") => p[<<"args", c>>].is = "expr" /\ p[<<"args", c>>].curr = c + 1
       /\ c <= Len(tokens) /\ ~IsAt(c, ")") /\ p[<<"expr", c>>].is # "expr" =>
              p[<<"args", c>>] = p[<<"expr", c>>]
       /\ c <= Len(tokens) /\ ~IsAt(c, ")") /\ p[<<"expr", c>>].is = "expr" =>
              Written!EndAlike(p[<<"args", c>>], p[<<"args", p[<<"expr", c>>].curr>>])
  BY <1>1, <1>2, <1>4, <1>7 DEF Written!ArgsEndAt
<1> QED BY <1>12, <1>13, <1>14, <1>15

\* What is read at y ends as what is waited for does, from x on.
Awaited(p, f, x, y) ==
  /\ f = "tick" => Written!EndAlike(p[<<"expr", y>>], p[<<"expr", x>>])
  /\ f = "func" => /\ x \in 1 .. Len(tokens) /\ ~IsAt(x, ")")
                   /\ Written!EndAlike(p[<<"expr", y>>], p[<<"args", x>>])

\* If there is no expression at x, that is how all of the reading ends.
Lost(p, x) == p[<<"expr", x>>].is # "expr" => p[<<"expr", 1>>].is = p[<<"expr", x>>].is

\* b has where the expression of each level began, for RLI's reading p.
Read(p, b) ==
  /\ b[1] = 1
  /\ \A r \in 1 .. Waiting : Awaited(p, stack[r], b[r + 1], b[r])
  /\ \A r \in 1 .. Waiting + 1 : Lost(p, b[r])
  /\ pc = "expr" => b[Len(stack) + 1] = cursor
  /\ pc \in {"value", "parsed"} => /\ p[<<"expr", b[Len(stack) + 1]>>].is = "expr"
                                   /\ p[<<"expr", b[Len(stack) + 1]>>].curr = cursor
  /\ pc = "args" => Written!EndAlike(p[<<"expr", b[Len(stack)]>>], p[<<"args", cursor>>])

\* The reading that is going on is RLI's, and so is its end.
ReadingInv ==
  LET p == Written!Parser(Pieces)
  IN /\ pc \in Parsing \cup {"parsed"} => \E b \in Level : Read(p, b)
     /\ pc = "error" => p[<<"expr", 1>>].is = "null"
     /\ pc = "crash" => p[<<"expr", 1>>].is = "crash"

\* Where nothing can be read, the reading is lost.
LEMMA LostAtCursor ==
  ASSUME Inv, NEW p, p = Written!Parser(Pieces), NEW b \in Level, Read(p, b), NEW n \in Nat, n = Len(stack)
  PROVE  /\ pc = "expr" => Lost(p, cursor)
         /\ pc = "args" /\ p[<<"args", cursor>>].is # "expr" => p[<<"expr", 1>>].is = p[<<"args", cursor>>].is
<1>1. pc = "expr" => Lost(p, cursor)
  <2> SUFFICES ASSUME pc = "expr" PROVE Lost(p, cursor)
    OBVIOUS
  <2>1. Waiting = n /\ n + 1 \in 1 .. n + 1
    BY DEF Waiting
  <2> QED BY <2>1 DEF Read
<1>2. ASSUME pc = "args", p[<<"args", cursor>>].is # "expr" PROVE p[<<"expr", 1>>].is = p[<<"args", cursor>>].is
  <2>1. n > 0
    BY <1>2 DEF Inv, ParseInv
  <2>2. Waiting + 1 = n /\ n \in 1 .. n
    BY <1>2, <2>1 DEF Waiting
  <2>3. Lost(p, b[n]) /\ Written!EndAlike(p[<<"expr", b[n]>>], p[<<"args", cursor>>])
    BY <1>2, <2>2 DEF Read
  <2> QED BY <1>2, <2>3 DEF Lost, Written!EndAlike
<1> QED BY <1>1, <1>2

\* Each step of the parser goes on with the reading that RLI defines.
LEMMA ReadingStep ==
  ASSUME Inv, Parse, NEW p, p = Written!Parser(Pieces),
         NEW b \in Level, Read(p, b), NEW n \in Nat, n = Len(stack)
  PROVE  /\ pc' \in Parsing \cup {"parsed"} => \E c \in Level : Read(p, c)'
         /\ pc' = "error" => p[<<"expr", 1>>].is = "null"
         /\ pc' = "crash" => p[<<"expr", 1>>].is = "crash"
<1>1. Len(tokens) \in Nat /\ cursor \in Nat \ {0} /\ cursor \in 1 .. Len(tokens) + 1
  BY Numbers
<1>u. UNCHANGED <<text, tokens>>
  BY ParserSteps
<1>a. /\ \A f, x, y : Awaited(p, f, x, y)' <=> Awaited(p, f, x, y)
      /\ \A x : Lost(p, x)' <=> Lost(p, x)
  BY <1>u DEF Awaited, Lost, IsAt
<1>l. /\ pc = "expr" => Lost(p, cursor)
      /\ pc = "args" /\ p[<<"args", cursor>>].is # "expr" => p[<<"expr", 1>>].is = p[<<"args", cursor>>].is
  BY LostAtCursor
<1>e. CASE /\ pc = "expr" /\ cursor <= Len(tokens) /\ IsAt(cursor, "(")
           /\ ~(cursor < Len(tokens) /\ ~IsAt(cursor + 1, ")")) /\ pc' = "error"
  <2>1. p[<<"expr", cursor>>].is = "null"
    BY <1>1, <1>e, ReadingsEnd
  <2>2. p[<<"expr", 1>>].is = "null"
    BY <1>e, <1>l, <2>1 DEF Lost
  <2> QED BY <1>e, <2>2 DEF Parsing
<1>c. CASE pc = "expr" /\ cursor > Len(tokens) /\ pc' = "crash"
  <2>1. p[<<"expr", cursor>>].is = "crash"
    BY <1>1, <1>c, ReadingsEnd
  <2>2. p[<<"expr", 1>>].is = "crash"
    BY <1>c, <1>l, <2>1 DEF Lost
  <2> QED BY <1>c, <2>2 DEF Parsing
<1>d. CASE pc = "args" /\ cursor > Len(tokens) /\ pc' = "error"
  <2>1. p[<<"args", cursor>>].is = "null"
    BY <1>1, <1>d, ReadingsEnd
  <2>2. p[<<"expr", 1>>].is = "null"
    BY <1>d, <1>l, <2>1
  <2> QED BY <1>d, <2>2 DEF Parsing
<1>2. CASE /\ pc = "expr" /\ cursor < Len(tokens) /\ IsAt(cursor, "(") /\ ~IsAt(cursor + 1, ")")
           /\ pc' = "args" /\ cursor' = cursor + 2 /\ stack' = Append(stack, "func")
  <2>1. Len(stack') = n + 1 /\ \A r \in 1 .. n : stack'[r] = stack[r]
    BY <1>2, StackLevels
  <2>3. Written!EndAlike(p[<<"expr", cursor>>], p[<<"args", cursor + 2>>])
    BY <1>1, <1>2, ReadingsEnd
  <2>4. Waiting = n /\ Waiting' = n
    BY <1>2, <2>1 DEF Waiting
  <2>5. Read(p, b)'
    <3>1. b[1] = 1 /\ b[n + 1] = cursor /\ (\A r \in 1 .. n : Awaited(p, stack[r], b[r + 1], b[r]))
          /\ \A r \in 1 .. n + 1 : Lost(p, b[r])
      BY <1>2, <2>4 DEF Read
    <3>2. /\ \A r \in 1 .. n : Awaited(p, stack[r], b[r + 1], b[r])'
          /\ \A r \in 1 .. n + 1 : Lost(p, b[r])'
      BY <1>a, <2>1, <3>1
    <3> QED BY <1>2, <2>1, <2>3, <2>4, <3>1, <3>2 DEF Read
  <2> QED BY <1>2, <2>5
<1>3. CASE /\ pc = "expr" /\ cursor <= Len(tokens) /\ IsAt(cursor, "'")
           /\ pc' = "expr" /\ cursor' = cursor + 1 /\ stack' = Append(stack, "tick")
  <2>1. Len(stack') = n + 1 /\ stack'[n + 1] = "tick" /\ \A r \in 1 .. n : stack'[r] = stack[r]
    BY <1>3, StackLevels
  <2>2. Waiting = n /\ Waiting' = n + 1
    BY <1>3, <2>1 DEF Waiting
  <2>3. PICK c \in Level : Changed(b, c, n + 2, cursor + 1)
    <3>1. n + 2 \in Nat /\ cursor + 1 \in Nat
      BY <1>1
    <3> QED BY <3>1, LevelChanges
  <2>4. \A r \in 1 .. n : c[r] = b[r] /\ c[r + 1] = b[r + 1]
    BY <2>3 DEF Changed
  <2>5. c[1] = 1 /\ c[n + 1] = cursor /\ c[n + 2] = cursor + 1
    BY <1>3, <2>3 DEF Read, Changed
  <2>6. Written!EndAlike(p[<<"expr", cursor>>], p[<<"expr", cursor + 1>>])
    BY <1>1, <1>3, ReadingsEnd
  <2>7. Awaited(p, "tick", c[n + 2], c[n + 1])
    BY <2>5, <2>6 DEF Awaited
  <2>8. Lost(p, cursor + 1)
    BY <1>3, <1>l, <2>6 DEF Lost, Written!EndAlike
  <2>9. n + 1 + 1 = n + 2 /\ (\A r \in 1 .. n + 1 : r \in 1 .. n \/ r = n + 1)
        /\ \A r \in 1 .. n + 2 : r \in 1 .. n + 1 \/ r = n + 2
    OBVIOUS
  <2>10. \A r \in 1 .. n + 1 : Awaited(p, stack[r], c[r + 1], c[r])'
    <3>1. \A r \in 1 .. n : Awaited(p, stack[r], b[r + 1], b[r])
      BY <2>2 DEF Read
    <3>2. \A r \in 1 .. n : Awaited(p, stack'[r], c[r + 1], c[r])
      BY <2>1, <2>4, <3>1
    <3>3. Awaited(p, stack'[n + 1], c[n + 1 + 1], c[n + 1])
      BY <2>1, <2>7, <2>9
    <3>4. \A r \in 1 .. n + 1 : Awaited(p, stack'[r], c[r + 1], c[r])
      BY <2>9, <3>2, <3>3
    <3> QED BY <1>a, <3>4
  <2>11. \A r \in 1 .. n + 2 : Lost(p, c[r])'
    <3>1. \A r \in 1 .. n + 1 : Lost(p, b[r])
      BY <2>2 DEF Read
    <3>2. \A r \in 1 .. n + 1 : c[r] = b[r]
      BY <2>3 DEF Changed
    <3>3. \A r \in 1 .. n + 2 : Lost(p, c[r])
      BY <2>5, <2>8, <2>9, <3>1, <3>2
    <3> QED BY <1>a, <3>3
  <2>12. Read(p, c)'
    BY <1>3, <2>1, <2>2, <2>5, <2>9, <2>10, <2>11 DEF Read
  <2> QED BY <1>3, <2>12
<1>4. CASE /\ pc = "expr" /\ cursor <= Len(tokens) /\ ~IsAt(cursor, "(") /\ ~IsAt(cursor, "'")
           /\ pc' = "value" /\ cursor' = cursor + 1 /\ stack' = stack
  <2>1. p[<<"expr", cursor>>].is = "expr" /\ p[<<"expr", cursor>>].curr = cursor + 1
    BY <1>1, <1>4, ReadingsEnd
  <2>2. Waiting = n /\ Waiting' = n
    BY <1>4 DEF Waiting
  <2>3. Read(p, b)'
    <3>1. b[1] = 1 /\ b[n + 1] = cursor /\ (\A r \in 1 .. n : Awaited(p, stack[r], b[r + 1], b[r]))
          /\ \A r \in 1 .. n + 1 : Lost(p, b[r])
      BY <1>4, <2>2 DEF Read
    <3>2. /\ \A r \in 1 .. n : Awaited(p, stack[r], b[r + 1], b[r])'
          /\ \A r \in 1 .. n + 1 : Lost(p, b[r])'
      BY <1>a, <1>4, <3>1
    <3> QED BY <1>4, <2>1, <2>2, <3>1, <3>2 DEF Read
  <2> QED BY <1>4, <2>3
<1>5. CASE /\ pc = "args" /\ cursor <= Len(tokens) /\ IsAt(cursor, ")") /\ stack # <<>>
           /\ pc' = "value" /\ cursor' = cursor + 1 /\ stack' = SubSeq(stack, 1, Len(stack) - 1)
  <2>1. n > 0 /\ Len(stack') = n - 1 /\ \A r \in 1 .. n - 1 : stack'[r] = stack[r]
    BY <1>5, StackLevels
  <2>2. p[<<"args", cursor>>].is = "expr" /\ p[<<"args", cursor>>].curr = cursor + 1
    BY <1>1, <1>5, ReadingsEnd
  <2>3. p[<<"expr", b[n]>>].is = "expr" /\ p[<<"expr", b[n]>>].curr = cursor + 1
    BY <1>5, <2>2 DEF Read, Written!EndAlike
  <2>4. Waiting = n - 1 /\ Waiting' = n - 1 /\ Len(stack') + 1 = n /\ n - 1 + 1 = n
    BY <1>5, <2>1 DEF Waiting
  <2>5. Read(p, b)'
    <3>1. b[1] = 1 /\ (\A r \in 1 .. n - 1 : Awaited(p, stack[r], b[r + 1], b[r]))
          /\ \A r \in 1 .. n : Lost(p, b[r])
      BY <1>5, <2>4 DEF Read
    <3>2. /\ \A r \in 1 .. n - 1 : Awaited(p, stack[r], b[r + 1], b[r])'
          /\ \A r \in 1 .. n : Lost(p, b[r])'
      BY <1>a, <2>1, <3>1
    <3> QED BY <1>5, <2>3, <2>4, <3>1, <3>2 DEF Read
  <2> QED BY <1>5, <2>5
<1>6. CASE /\ pc = "args" /\ cursor <= Len(tokens) /\ ~IsAt(cursor, ")") /\ stack # <<>>
           /\ pc' = "expr" /\ cursor' = cursor /\ stack' = stack
  <2>1. n > 0 /\ stack[n] = "func" /\ n - 1 + 1 = n
    BY <1>6, StackLevels DEF Inv, ParseInv
  <2>2. Waiting = n - 1 /\ Waiting' = n
    BY <1>6 DEF Waiting
  <2>3. PICK c \in Level : Changed(b, c, n + 1, cursor)
    <3>1. n + 1 \in Nat /\ cursor \in Nat
      BY <1>1
    <3> QED BY <3>1, LevelChanges
  <2>4. /\ c[1] = 1 /\ c[n] = b[n] /\ c[n + 1] = cursor
        /\ (\A r \in 1 .. n - 1 : c[r] = b[r] /\ c[r + 1] = b[r + 1])
        /\ \A r \in 1 .. n : c[r] = b[r]
    <3>1. /\ 1 # n + 1 /\ n # n + 1 /\ \A r \in 1 .. n - 1 : r \in Nat /\ r # n + 1 /\ r + 1 \in Nat /\ r + 1 # n + 1
          /\ \A r \in 1 .. n : r \in Nat /\ r # n + 1
      BY <2>1
    <3> QED BY <2>3, <3>1 DEF Read, Changed
  <2>5. Awaited(p, "func", c[n + 1], c[n])
    <3>1. Written!EndAlike(p[<<"expr", b[n]>>], p[<<"args", cursor>>]) /\ cursor \in 1 .. Len(tokens)
      BY <1>1, <1>6 DEF Read
    <3> QED BY <1>6, <2>4, <3>1 DEF Awaited
  <2>6. Lost(p, cursor)
    <3>1. p[<<"expr", cursor>>].is # "expr" => p[<<"args", cursor>>] = p[<<"expr", cursor>>]
      BY <1>1, <1>6, ReadingsEnd
    <3> QED BY <1>6, <1>l, <3>1 DEF Lost
  <2>7. \A r \in 1 .. n : Awaited(p, stack[r], c[r + 1], c[r])'
    <3>1. \A r \in 1 .. n - 1 : Awaited(p, stack[r], b[r + 1], b[r])
      BY <2>2 DEF Read
    <3>2. \A r \in 1 .. n - 1 : Awaited(p, stack[r], c[r + 1], c[r])
      BY <2>4, <3>1
    <3>3. \A r \in 1 .. n : r \in 1 .. n - 1 \/ r = n
      OBVIOUS
    <3>4. \A r \in 1 .. n : Awaited(p, stack[r], c[r + 1], c[r])
      BY <2>1, <2>5, <3>2, <3>3
    <3> QED BY <1>a, <1>6, <3>4
  <2>8. \A r \in 1 .. n + 1 : Lost(p, c[r])'
    <3>1. \A r \in 1 .. n : Lost(p, b[r])
      BY <2>1, <2>2 DEF Read
    <3>2. \A r \in 1 .. n + 1 : r \in 1 .. n \/ r = n + 1
      OBVIOUS
    <3>3. \A r \in 1 .. n + 1 : Lost(p, c[r])
      BY <2>4, <2>6, <3>1, <3>2
    <3> QED BY <1>a, <3>3
  <2>9. Read(p, c)'
    BY <1>6, <2>2, <2>4, <2>7, <2>8 DEF Read
  <2> QED BY <1>6, <2>9
<1>7. CASE pc = "value" /\ stack = <<>> /\ pc' = "parsed" /\ cursor' = cursor /\ stack' = stack
  <2>1. Waiting = n /\ Waiting' = n
    BY <1>7 DEF Waiting
  <2>2. Read(p, b)'
    <3>1. /\ \A r \in 1 .. n : Awaited(p, stack[r], b[r + 1], b[r])
          /\ \A r \in 1 .. n + 1 : Lost(p, b[r])
      BY <2>1 DEF Read
    <3>2. /\ \A r \in 1 .. n : Awaited(p, stack[r], b[r + 1], b[r])'
          /\ \A r \in 1 .. n + 1 : Lost(p, b[r])'
      BY <1>a, <1>7, <3>1
    <3> QED BY <1>7, <2>1, <3>2 DEF Read
  <2> QED BY <1>7, <2>2
<1>8. CASE pc = "value" /\ stack # <<>> /\ Top = "func" /\ pc' = "args" /\ cursor' = cursor /\ stack' = stack
  <2>1. n > 0 /\ stack[n] = "func"
    BY <1>8, StackLevels
  <2>2. Waiting = n /\ Waiting' = n - 1
    BY <1>8 DEF Waiting
  <2>3. n \in 1 .. n /\ (\A r \in 1 .. n - 1 : r \in 1 .. n) /\ (\A r \in 1 .. n : r \in 1 .. n + 1) /\ n - 1 + 1 = n
    BY <2>1
  <2>4. Awaited(p, "func", b[n + 1], b[n])
    BY <1>8, <2>1, <2>2, <2>3 DEF Read
  <2>5. p[<<"expr", b[n + 1]>>].is = "expr" /\ p[<<"expr", b[n + 1]>>].curr = cursor
    BY <1>8 DEF Read
  <2>6. Written!EndAlike(p[<<"args", b[n + 1]>>], p[<<"args", cursor>>])
    <3> DEFINE x == b[n + 1]
    <3>1. x \in 1 .. Len(tokens) /\ ~IsAt(x, ")")
      BY <2>4 DEF Awaited
    <3>2. x \in 1 .. Len(tokens) + 1 /\ x <= Len(tokens)
      BY <1>1, <3>1
    <3> HIDE DEF x
    <3>3. p[<<"expr", x>>].is = "expr" => Written!EndAlike(p[<<"args", x>>], p[<<"args", p[<<"expr", x>>].curr>>])
      BY <3>1, <3>2, ReadingsEnd
    <3>4. p[<<"expr", x>>].is = "expr" /\ p[<<"expr", x>>].curr = cursor
      BY <2>5 DEF x
    <3>5. Written!EndAlike(p[<<"args", x>>], p[<<"args", cursor>>])
      BY <3>3, <3>4
    <3> QED BY <3>5 DEF x
  <2>7. Written!EndAlike(p[<<"expr", b[n]>>], p[<<"args", cursor>>])
    BY <2>4, <2>6 DEF Awaited, Written!EndAlike
  <2>8. Read(p, b)'
    <3>1. /\ b[1] = 1
          /\ \A r \in 1 .. n - 1 : Awaited(p, stack[r], b[r + 1], b[r])
          /\ \A r \in 1 .. n : Lost(p, b[r])
      BY <2>2, <2>3 DEF Read
    <3>2. /\ \A r \in 1 .. n - 1 : Awaited(p, stack[r], b[r + 1], b[r])'
          /\ \A r \in 1 .. n : Lost(p, b[r])'
      BY <1>a, <1>8, <3>1
    <3> QED BY <1>8, <2>2, <2>3, <2>7, <3>1, <3>2 DEF Read
  <2> QED BY <1>8, <2>8
<1>9. CASE /\ pc = "value" /\ stack # <<>> /\ Top = "tick" /\ pc' = "value" /\ cursor' = cursor
           /\ stack' = SubSeq(stack, 1, Len(stack) - 1)
  <2>1. n > 0 /\ stack[n] = "tick" /\ Len(stack') = n - 1 /\ \A r \in 1 .. n - 1 : stack'[r] = stack[r]
    BY <1>9, StackLevels
  <2>2. Waiting = n /\ Waiting' = n - 1 /\ Len(stack') + 1 = n
    BY <1>9, <2>1 DEF Waiting
  <2>3. n \in 1 .. n /\ (\A r \in 1 .. n - 1 : r \in 1 .. n) /\ (\A r \in 1 .. n : r \in 1 .. n + 1) /\ n - 1 + 1 = n
    BY <2>1
  <2>4. Awaited(p, "tick", b[n + 1], b[n])
    BY <1>9, <2>1, <2>2, <2>3 DEF Read
  <2>5. p[<<"expr", b[n]>>].is = "expr" /\ p[<<"expr", b[n]>>].curr = cursor
    BY <1>9, <2>4 DEF Read, Awaited, Written!EndAlike
  <2>6. Read(p, b)'
    <3>1. /\ b[1] = 1
          /\ \A r \in 1 .. n - 1 : Awaited(p, stack[r], b[r + 1], b[r])
          /\ \A r \in 1 .. n : Lost(p, b[r])
      BY <2>2, <2>3 DEF Read
    <3>2. /\ \A r \in 1 .. n - 1 : Awaited(p, stack[r], b[r + 1], b[r])'
          /\ \A r \in 1 .. n : Lost(p, b[r])'
      BY <1>a, <2>1, <3>1
    <3> QED BY <1>9, <2>2, <2>3, <2>5, <3>1, <3>2 DEF Read
  <2> QED BY <1>9, <2>6
<1> QED BY <1>2, <1>3, <1>4, <1>5, <1>6, <1>7, <1>8, <1>9, <1>e, <1>c, <1>d, ParserSteps

\* The characters that separate are those of RLI.
LEMMA SameCharacters ==
  Parens = Written!Parens /\ Quote = Written!Quote /\ Blanks = {Written!Blank}
<1>1. Parens = Written!Parens
  BY DEF Parens, Written!Parens
<1>2. Quote = Written!Quote
  BY DEF Quote, Written!Quote
<1>3. Blanks = {Written!Blank}
  BY Zenon DEF Blanks, Written!Blank
<1> QED BY <1>1, <1>2, <1>3

\* Where the tokens end, and what begins behind them, is what RLI finds there.
LEMMA TokensAreCut ==
  ASSUME Inv, TokensAreThoseOfTheText
  PROVE  /\ \A k \in 1 .. Len(tokens) : /\ tokens[k].from \in 1 .. Len(text) + 1
                                        /\ Written!TokenEnd(text, tokens[k].from) = tokens[k].to + 1
         /\ \A k \in 1 .. Len(tokens) : \A i \in 1 .. Len(text) + 1 :
              Begins(k, i) => /\ tokens[k].to + 1 <= Len(text)
                              /\ Written!NotBlank(text, tokens[k].to + 1) = i
<1>1. Len(text) \in Nat
  BY Numbers
<1>2. \A k \in 1 .. Len(tokens) : tokens[k].from \in Nat \ {0} /\ tokens[k].to \in Nat
  BY Numbers
<1>3. ASSUME NEW k \in 1 .. Len(tokens)
      PROVE  /\ tokens[k].from \in 1 .. Len(text) + 1
             /\ Written!TokenEnd(text, tokens[k].from) = tokens[k].to + 1
  <2> DEFINE i == tokens[k].from
             j == tokens[k].to + 1
  <2>1. Ends(i, j)
    BY DEF TokensAreThoseOfTheText
  <2>2. i \in Nat \ {0} /\ j \in Nat
    BY <1>2
  <2> HIDE DEF i, j
  <2>3. i \in 1 .. Len(text) + 1 /\ j \in i .. Len(text) + 1
    BY <1>1, <2>1, <2>2 DEF Ends
  <2>4. Written!TokenAt(text, i, j)
    BY <2>1, SameCharacters DEF Ends, Written!TokenAt
  <2>5. Written!TokenEnd(text, i) = j
    BY <1>1, <2>3, <2>4, NoHeap, Written!TokenEndAt
  <2> QED BY <2>3, <2>5 DEF i, j
<1>4. ASSUME NEW k \in 1 .. Len(tokens), NEW i \in 1 .. Len(text) + 1, Begins(k, i)
      PROVE  tokens[k].to + 1 <= Len(text) /\ Written!NotBlank(text, tokens[k].to + 1) = i
  <2> DEFINE j == tokens[k].to + 1
  <2>0. k # 0 /\ j \in Nat /\ j >= 1
    BY <1>2
  <2>1. j <= i /\ j <= Len(text) /\ (\A m \in j .. i - 1 : text[m] \in Blanks)
        /\ (i = Len(text) + 1 \/ text[i] \notin Blanks)
    BY <1>4, <2>0 DEF Begins
  <2> HIDE DEF j
  <2>2. j \in 1 .. Len(text) + 1 /\ i \in j .. Len(text) + 1 /\ ~(Len(text) + 1 <= Len(text))
    BY <1>1, <2>0, <2>1
  <2>3. (\A m \in j .. i - 1 : text[m] = Written!Blank) /\ (i <= Len(text) => text[i] # Written!Blank)
    BY <2>1, <2>2, SameCharacters
  <2>4. Written!NotBlank(text, j) = i
    BY <1>1, <2>2, <2>3, NoHeap, Written!NotBlankAt
  <2> QED BY <2>1, <2>4 DEF j
<1> QED BY <1>3, <1>4

\* All of them are RLI's tokens of the text ...
LEMMA TokensAreDefined ==
  ASSUME Inv, TokensAreThoseOfTheText, tokens # <<>>, tokens[Len(tokens)].to = Len(text)
  PROVE  Written!Tokenize(text) = Pieces
<1> DEFINE n == Len(tokens)
           F == [k \in 1 .. n |-> tokens[k].from]
           E == [k \in 1 .. n |-> tokens[k].to + 1]
<1>1. Len(text) \in Nat /\ n \in Nat /\ n # 0
  <2>1. tokens \in Seq(Token)
    BY DEF Inv, TypeOK
  <2>2. n # 0
    BY <2>1, EmptySeq
  <2> QED BY <2>2, Numbers
<1>2. \A k \in 1 .. n : F[k] = tokens[k].from /\ E[k] = tokens[k].to + 1 /\ tokens[k].to \in Nat
  BY Numbers
<1>3. 1 <= n /\ 1 \in 1 .. n /\ n \in 1 .. n
  BY <1>1
<1>4. F[1] = 1
  <2>1. Begins(1 - 1, tokens[1].from)
    BY <1>3 DEF TokensAreThoseOfTheText
  <2> QED BY <1>2, <1>3, <2>1 DEF Begins
<1>5. E[n] = Len(text) + 1
  BY <1>2, <1>3
<1>p. Pieces = [k \in 1 .. n |-> SubSeq(text, F[k], E[k] - 1)]
  <2>1. \A k \in 1 .. n : E[k] - 1 = tokens[k].to
    BY <1>2
  <2> HIDE DEF E, F
  <2> QED BY <1>2, <2>1 DEF Pieces
<1> HIDE DEF E, F
<1>6. Written!Cut(text, n, F, E)
  <2> SUFFICES ASSUME NEW k \in 1 .. n
               PROVE  /\ F[k] \in 1 .. Len(text) + 1 /\ Written!TokenEnd(text, F[k]) = E[k]
                      /\ k < n => E[k] <= Len(text) /\ Written!NotBlank(text, E[k]) = F[k + 1]
    BY DEF Written!Cut
  <2>1. F[k] \in 1 .. Len(text) + 1 /\ Written!TokenEnd(text, F[k]) = E[k]
    BY <1>2, TokensAreCut
  <2>2. ASSUME k < n PROVE E[k] <= Len(text) /\ Written!NotBlank(text, E[k]) = F[k + 1]
    <3>1. k + 1 \in 1 .. n /\ k + 1 - 1 = k
      BY <1>1, <2>2
    <3>2. Begins(k + 1 - 1, tokens[k + 1].from) /\ F[k + 1] = tokens[k + 1].from
      BY <1>2, <3>1 DEF TokensAreThoseOfTheText
    <3>3. Begins(k, F[k + 1]) /\ F[k + 1] \in 1 .. Len(text) + 1
      BY <3>1, <3>2, TokensAreCut
    <3> QED BY <1>2, <3>3, TokensAreCut
  <2> QED BY <2>1, <2>2
<1>7. Written!TokensFrom(text)[F[1]] = [k \in 1 .. n |-> SubSeq(text, F[k], E[k] - 1)]
  BY <1>1, <1>3, <1>5, <1>6, NoHeap, Written!CutTokens
<1> QED BY <1>4, <1>7, <1>p DEF Written!Tokenize

\* ... and it has none if a string has no end.
LEMMA NoTokensAreDefined ==
  ASSUME Inv, TokensAreThoseOfTheText, pc = "mismatched"
  PROVE  Written!Tokenize(text) = <<>>
<1> DEFINE n == Len(tokens)
           F == [k \in 1 .. n + 1 |-> IF k = n + 1 THEN start ELSE tokens[k].from]
           E == [k \in 1 .. n + 1 |-> IF k = n + 1 THEN Len(text) + 2 ELSE tokens[k].to + 1]
<1>1. Len(text) \in Nat /\ n \in Nat /\ start \in Nat \ {0}
  BY Numbers
<1>2. \A k \in 1 .. n : F[k] = tokens[k].from /\ E[k] = tokens[k].to + 1 /\ tokens[k].to \in Nat
  BY <1>1, Numbers
<1>3. F[n + 1] = start /\ E[n + 1] = Len(text) + 2
  BY <1>1
<1>4. /\ Begins(n, start) /\ start <= Len(text) /\ text[start] = Quote
      /\ \A k \in start + 1 .. Len(text) : text[k] # Quote
  BY DEF TokensAreThoseOfTheText
<1>5. F[1] = 1
  <2>1. CASE n = 0
    BY <1>3, <1>4, <2>1 DEF Begins
  <2>2. CASE n # 0
    <3>1. 1 \in 1 .. n
      BY <1>1, <2>2
    <3>2. Begins(1 - 1, tokens[1].from)
      BY <3>1 DEF TokensAreThoseOfTheText
    <3> QED BY <1>2, <3>1, <3>2 DEF Begins
  <2> QED BY <2>1, <2>2
<1>6. Written!TokenEnd(text, start) = Len(text) + 2
  <2>1. start \in 1 .. Len(text) /\ text[start] = Written!Quote /\ \A k \in start + 1 .. Len(text) : text[k] # Written!Quote
    BY <1>1, <1>4, SameCharacters
  <2> QED BY <1>1, <2>1, NoHeap, Written!NoTokenAt
<1> HIDE DEF E, F
<1>7. \A k \in 1 .. n + 1 : k \in 1 .. n \/ k = n + 1
  BY <1>1
<1> DEFINE m == n + 1
<1>8. Written!Cut(text, m, F, E)
  <2> SUFFICES ASSUME NEW k \in 1 .. m
               PROVE  /\ F[k] \in 1 .. Len(text) + 1 /\ Written!TokenEnd(text, F[k]) = E[k]
                      /\ k < m => E[k] <= Len(text) /\ Written!NotBlank(text, E[k]) = F[k + 1]
    <3> HIDE DEF m
    <3> QED BY DEF Written!Cut
  <2>0. start \in 1 .. Len(text) + 1
    BY <1>1, <1>4
  <2>1. F[k] \in 1 .. Len(text) + 1 /\ Written!TokenEnd(text, F[k]) = E[k]
    <3>1. CASE k \in 1 .. n
      BY <1>2, <3>1, TokensAreCut
    <3>2. CASE k = n + 1
      BY <1>3, <1>6, <2>0, <3>2
    <3> QED BY <1>7, <3>1, <3>2
  <2>2. ASSUME k < m PROVE E[k] <= Len(text) /\ Written!NotBlank(text, E[k]) = F[k + 1]
    <3>1. k \in 1 .. n /\ k + 1 \in 1 .. n + 1 /\ k + 1 - 1 = k
      BY <1>1, <2>2
    <3>2. Begins(k, F[k + 1]) /\ F[k + 1] \in 1 .. Len(text) + 1
      <4>1. CASE k + 1 \in 1 .. n
        <5>1. Begins(k + 1 - 1, tokens[k + 1].from) /\ F[k + 1] = tokens[k + 1].from
          BY <1>2, <4>1 DEF TokensAreThoseOfTheText
        <5> QED BY <3>1, <4>1, <5>1, TokensAreCut
      <4>2. CASE k + 1 = n + 1
        <5>1. k = n
          BY <1>1, <4>2
        <5> QED BY <1>3, <1>4, <2>0, <5>1
      <4> QED BY <1>7, <3>1, <4>1, <4>2
    <3> QED BY <1>2, <3>1, <3>2, TokensAreCut
  <2> QED BY <2>1, <2>2
<1>9. m \in Nat /\ 1 <= m /\ E[m] = Len(text) + 2
  BY <1>1, <1>3
<1> HIDE DEF m
<1>10. Written!TokensFrom(text)[F[1]] = Written!NoTokens
  BY <1>1, <1>8, <1>9, NoHeap, Written!CutFails
<1> QED BY <1>5, <1>10 DEF Written!Tokenize, Written!NoTokens

\* RLI is the same wherever it is used.
LEMMA SameRLI ==
  ASSUME NEW in, NEW ts
  PROVE  /\ Reference!Tokenize(in) = Written!Tokenize(in)
         /\ Reference!Parse(ts) = Written!Parse(ts)
<1>1. Reference!Tokenize(in) = Written!Tokenize(in)
  BY DEF Reference!Tokenize, Reference!TokensFrom, Reference!TokenEnd, Reference!NotBlank, Reference!FirstIn, Reference!NoTokens,
         Written!Tokenize, Written!TokensFrom, Written!TokenEnd, Written!NotBlank, Written!FirstIn, Written!NoTokens,
         Reference!Min, Written!Min, Reference!Parens, Reference!Quote, Reference!Blank, Written!Parens, Written!Quote, Written!Blank
<1>2. Reference!Parser(ts) = Written!Parser(ts)
  BY DEF Reference!Parser, Reference!ParseExpr, Reference!ParseFunc, Reference!ParseArgs, Reference!ParseValue, Reference!Parsed,
         Reference!Null, Reference!Crash, Reference!Open, Reference!Close, Reference!Tick, Reference!Func, Reference!Value, Reference!Lexpr,
         Reference!Literal, Reference!IntVal, Reference!StrVal, Reference!Empty, Reference!Quote,
         Written!Parser, Written!ParseExpr, Written!ParseFunc, Written!ParseArgs, Written!ParseValue, Written!Parsed,
         Written!Null, Written!Crash, Written!Open, Written!Close, Written!Tick, Written!Func, Written!Value, Written!Lexpr,
         Written!Literal, Written!IntVal, Written!StrVal, Written!Empty, Written!Quote
<1> QED BY <1>1, <1>2 DEF Reference!Parse, Written!Parse, Reference!NoTokens, Written!NoTokens, Reference!Null, Written!Null

\* The reading begins at the first token.
LEMMA ReadingStarts ==
  ASSUME Inv, pc = "expr", cursor = 1, stack = <<>> PROVE ReadingInv
<1> DEFINE p == Written!Parser(Pieces)
           b == [r \in Nat |-> 1]
<1>1. Len(stack) = 0 /\ Waiting = 0
  BY DEF Waiting
<1>2. b \in Level /\ \A r \in Nat : b[r] = 1
  BY DEF Level
<1> HIDE DEF p, b
<1>3. Read(p, b)
  BY <1>1, <1>2 DEF Read, Lost
<1> QED BY <1>2, <1>3 DEF ReadingInv, p

\* The steps keep to it all along.
LEMMA ReadingInvariance == Spec => []ReadingInv
<1>1. Init => ReadingInv
  BY DEF Init, ReadingInv, Parsing
<1>2. ASSUME Inv, Inv', ReadingInv, [Next]_vars PROVE ReadingInv'
  <2>1. CASE Tokenize
    <3>1. pc \in Lexing /\ UNCHANGED <<cursor, stack>>
      BY <2>1 DEF Tokenize, Parenthesis, OpenString, InString, StartWord, InWord, Commit, SkipBlanks, Lexing
    <3>2. pc' \in Lexing \cup {"expr", "overrun", "mismatched"}
      BY <2>1 DEF Tokenize, Parenthesis, OpenString, InString, StartWord, InWord, Commit, SkipBlanks, Take, Lexing
    <3>3. CASE pc' = "expr"
      <4>1. cursor' = 1 /\ stack' = <<>>
        BY <1>2, <3>1 DEF Inv, ParseInv
      <4>2. (Inv /\ pc = "expr" /\ cursor = 1 /\ stack = <<>> => ReadingInv)'
        BY ReadingStarts, PTL
      <4> QED BY <1>2, <3>3, <4>1, <4>2
    <3>4. CASE pc' # "expr"
      BY <3>2, <3>4 DEF ReadingInv, Lexing, Parsing
    <3> QED BY <3>3, <3>4
  <2>2. CASE Parse
    <3> DEFINE n == Len(stack)
    <3>1. n \in Nat /\ pc \in Parsing /\ UNCHANGED <<text, tokens>>
      BY <1>2, <2>2, Numbers, ParserSteps
    <3>2. Pieces' = Pieces
      BY <3>1 DEF Pieces
    <3>3. PICK b \in Level : Read(Written!Parser(Pieces), b)
      BY <1>2, <3>1 DEF ReadingInv
    <3>4. ASSUME NEW p, p = Written!Parser(Pieces)
          PROVE  /\ pc' \in Parsing \cup {"parsed"} => \E c \in Level : Read(p, c)'
                 /\ pc' = "error" => p[<<"expr", 1>>].is = "null"
                 /\ pc' = "crash" => p[<<"expr", 1>>].is = "crash"
      <4>1. Read(p, b)
        BY <3>3, <3>4
      <4> QED BY <1>2, <2>2, <3>1, <3>4, <4>1, ReadingStep
    <3>5. ASSUME NEW p, p = Written!Parser(Pieces)
          PROVE  ReadingInv'
      <4>1. p = Written!Parser(Pieces')
        BY <3>2, <3>5
      <4> QED BY <3>4, <3>5, <4>1 DEF ReadingInv
    <3> QED BY <3>5
  <2>3. CASE UNCHANGED vars
    <3>1. Pieces' = Pieces /\ pc' = pc
      BY <2>3 DEF vars, Pieces
    <3>2. \A p, b : Read(p, b)' <=> Read(p, b)
      BY <2>3 DEF vars, Read, Waiting, Awaited, Lost, IsAt
    <3> QED BY <1>2, <3>1, <3>2 DEF ReadingInv
  <2> QED BY <1>2, <2>1, <2>2, <2>3 DEF Next
<1> QED BY <1>1, <1>2, ReaderInvariance, PTL DEF Spec

\* However long a text is, the cursors, the buffer and the stack come to what
\* the definitions of RLI say: the same tokens, the same end of the expression,
\* and NULL, or a look through NULL, for the same texts (ME_RLI_tokenize,
\* ME_RLI_IR_expr_parse).
THEOREM ReaderImplementsRLI == Spec => []ReadsAsDefined
<1>1. ASSUME Inv, ReadInv, ReadingInv PROVE ReadsAsDefined
  <2> DEFINE ts == Reference!Tokenize(text)
             r  == Reference!Parse(ts)
             p  == Written!Parser(Pieces)
  <2>1. TokensAreThoseOfTheText
    BY <1>1 DEF ReadInv
  <2>2. ts = Written!Tokenize(text) /\ r = Written!Parse(ts)
    BY SameRLI
  <2>3. pc = "mismatched" => ts = <<>>
    BY <1>1, <2>1, <2>2, NoTokensAreDefined
  <2>4. ASSUME pc \in Parsing \cup {"parsed", "error", "crash"}
        PROVE  ts = Pieces /\ r = p[<<"expr", 1>>]
    <3>1. tokens # <<>> /\ tokens[Len(tokens)].to = Len(text)
      BY <2>1, <2>4 DEF TokensAreThoseOfTheText
    <3>2. ts = Pieces
      BY <1>1, <2>1, <2>2, <3>1, TokensAreDefined
    <3>3. Pieces # <<>>
      <4>1. Len(tokens) # 0
        BY <1>1, <3>1, EmptySeq DEF Inv, TypeOK
      <4>2. Len(Pieces) # 0
        BY <1>1, <4>1, PiecesAre
      <4> QED BY <4>2
    <3> HIDE DEF ts, r
    <3> QED BY <2>2, <3>2, <3>3 DEF Written!Parse, Written!NoTokens
  <2>5. pc = "parsed" => p[<<"expr", 1>>].is = "expr" /\ p[<<"expr", 1>>].curr = cursor
    <3> SUFFICES ASSUME pc = "parsed" PROVE p[<<"expr", 1>>].is = "expr" /\ p[<<"expr", 1>>].curr = cursor
      OBVIOUS
    <3>1. PICK b \in Level : Read(p, b)
      BY <1>1 DEF ReadingInv
    <3>2. Len(stack) = 0
      BY <1>1 DEF Inv, StackIsBounded
    <3> HIDE DEF p
    <3> QED BY <3>1, <3>2 DEF Read
  <2>6. /\ pc = "error" => p[<<"expr", 1>>].is = "null"
        /\ pc = "crash" => p[<<"expr", 1>>].is = "crash"
    BY <1>1 DEF ReadingInv
  <2> HIDE DEF p
  <2>7. pc \in Parsing \cup {"parsed", "error", "crash"} => ts = Pieces
    BY <2>4
  <2>8. /\ pc = "parsed" => r.is = "expr" /\ r.curr = cursor
        /\ pc = "error" => r.is = "null"
        /\ pc = "crash" => r.is = "crash"
    <3> HIDE DEF r, ts
    <3> QED BY <2>4, <2>5, <2>6
  <2> QED BY <2>3, <2>7, <2>8 DEF ReadsAsDefined, Pieces
<1> QED BY <1>1, ReaderInvariance, ReadInvariance, ReadingInvariance, PTL

-----------------------------------------------------------------------------
(* Blanks between tokens and at the end.                                   *)

\* Spaced puts the tokens of any text together as Written!Spread does.
LEMMA SameSpacing == ASSUME NEW ts PROVE Spaced(ts) = Written!Spread(ts)
<1>1. [k \in 1 .. Len(ts) |-> <<" ">> \o ts[k]] = Written!Parts(ts)
  BY Zenon DEF Written!Parts, Written!Blank
<1>2. \A s : FlattenSeq(s) = Written!FlattenSeq(s)
  BY DEF FlattenSeq, Written!FlattenSeq
<1> QED BY <1>1, <1>2 DEF Spaced, Written!Spread

\* For texts of every length: blanks between tokens and one at the end do not
\* change what is read (ME_RLI_tokenize).
THEOREM LayoutIsNotRead == Spec => []LayoutDoesNotMatter
<1>1. ASSUME Inv PROVE LayoutDoesNotMatter
  <2> DEFINE S  == Chars \cup {Written!Blank}
             ts == Reference!Tokenize(text)
             w  == Written!Tokenize(text)
  <2>1. text \in Seq(S) /\ Written!Blank \in S
    <3>1. text \in Seq(Chars)
      BY <1>1, ReaderAssumption DEF Inv, TypeOK
    <3>2. Chars \subseteq S
      OBVIOUS
    <3> HIDE DEF S
    <3>3. text \in Seq(S)
      BY <3>1, <3>2
    <3> QED BY <3>3 DEF S
  <2>2. \A in : Reference!Tokenize(in) = Written!Tokenize(in)
    BY SameRLI
  <2>3. \A us : Reference!Parse(us) = Written!Parse(us)
    BY SameRLI
  <2>4. ts = w
    BY <2>2
  <2> HIDE DEF S, ts
  <2>5. ASSUME ts # <<>>, <<>> \notin ToSet(ts) PROVE Reference!Tokenize(Spaced(ts)) = ts
    <3>1. \A k \in 1 .. Len(w) : w[k] # Written!Empty
      <4>1. w \in Seq(Written!TokensOf(S))
        BY <2>1, NoHeap, Written!TokensAreTokens
      <4>2. DOMAIN w = 1 .. Len(w)
        <5> DEFINE V == Written!TokensOf(S)
        <5>1. w \in Seq(V)
          BY <4>1
        <5> HIDE DEF V, w
        <5> QED BY <5>1
      <4> HIDE DEF w
      <4> QED BY <2>4, <2>5, <4>2 DEF ToSet, Written!Empty
    <3>2. w # <<>>
      BY <2>4, <2>5
    <3>3. Written!Tokenize(Written!Spread(w)) = w
      BY <2>1, <3>1, <3>2, NoHeap, Written!SpreadIsReadBack
    <3>4. Spaced(ts) = Written!Spread(w)
      BY <2>4, SameSpacing
    <3> HIDE DEF w
    <3> QED BY <2>2, <2>4, <3>3, <3>4
  <2>6. ASSUME Reference!Parse(ts).is # "crash"
        PROVE  Reference!Parse(Reference!Tokenize(Append(text, " "))) = Reference!Parse(ts)
    <3>1. Written!Parse(w).is # "crash"
      BY <2>3, <2>4, <2>6
    <3>2. Written!Parse(Written!Tokenize(Append(text, Written!Blank))) = Written!Parse(w)
      BY <2>1, <3>1, NoHeap, Written!BlankAtEndIsNothing
    <3>3. Append(text, " ") = Append(text, Written!Blank)
      BY Zenon DEF Written!Blank
    <3>4. Reference!Parse(Reference!Tokenize(Append(text, Written!Blank))) = Reference!Parse(ts)
      BY <2>2, <2>3, <2>4, <3>2
    <3> QED BY Zenon, <3>3, <3>4
  <2> QED BY Zenon, <2>5, <2>6 DEF LayoutDoesNotMatter, ts
<1> QED BY <1>1, ReaderInvariance, PTL
=============================================================================
