--------------------------- MODULE RequestReader ---------------------------
(***************************************************************************)
(* How a request is read, step by step: the loops of ME_RLI_tokenize over  *)
(* one text, and the recursive descent of ME_RLI_IR_expr_parse over its    *)
(* tokens, whose C stack is a variable.  RLI defines what is read; this    *)
(* module is about the cursors, the buffer and the stack on the way.       *)
(***************************************************************************)
EXTENDS Integers, SequencesExt

CONSTANTS
  Chars,     \* the characters of texts
  Texts,     \* the texts of requests
  MaxToken   \* bytes of a token's buffer (64)

Blanks == {" "}
Quote  == "\""
Parens == {"(", ")"}

ASSUME ReaderAssumption ==
  Texts \subseteq Seq(Chars) /\ MaxToken \in Nat \ {0, 1}

VARIABLES
  text,     \* the request
  pc,       \* what is read next, or how reading ended
  curr,     \* the character looked at; the text ends before Len(text) + 1
  start,    \* where the token that is read began
  tokens,   \* the tokens: ranges of the text, to = from - 1 if empty
  cursor,   \* the token that the parser looks at
  stack     \* the calls of the parser that wait for an expression

vars == <<text, pc, curr, start, tokens, cursor, stack>>

Lexing  == {"token", "string", "word", "commit", "blank"}
Parsing == {"expr", "args", "value"}
\* "mismatched", "error": NULL is returned; "overrun", "crash": the measurer
\* is lost
Final   == {"mismatched", "overrun", "parsed", "error", "crash"}

Init ==
  /\ text \in Texts
  /\ pc = "token" /\ curr = 1 /\ start = 1 /\ tokens = <<>>
  /\ cursor = 1 /\ stack = <<>>

-----------------------------------------------------------------------------
(* The tokenizer.                                                          *)

AtEnd == curr = Len(text) + 1    \* in[curr] == 0
At(S) == ~AtEnd /\ text[curr] \in S

\* token[token_curr++] = in[curr++]: the buffer's length is not looked at
Take(next) ==
  /\ curr' = curr + 1
  /\ pc' = IF curr - start < MaxToken THEN next ELSE "overrun"

Parenthesis ==
  /\ pc = "token" /\ At(Parens)
  /\ Take("commit") /\ UNCHANGED <<text, start, tokens, cursor, stack>>

OpenString ==
  /\ pc = "token" /\ At({Quote})
  /\ Take("string") /\ UNCHANGED <<text, start, tokens, cursor, stack>>

InString ==
  /\ pc = "string"
  /\ IF AtEnd THEN pc' = "mismatched" /\ UNCHANGED curr
     ELSE IF At({Quote}) THEN Take("commit") ELSE Take("string")
  /\ UNCHANGED <<text, start, tokens, cursor, stack>>

StartWord ==
  /\ pc = "token" /\ ~At(Parens \cup {Quote})
  /\ pc' = "word" /\ UNCHANGED <<text, curr, start, tokens, cursor, stack>>

\* A quote inside of a word is a character like others.
InWord ==
  /\ pc = "word"
  /\ IF AtEnd \/ At(Blanks \cup Parens)
       THEN pc' = "commit" /\ UNCHANGED curr
       ELSE Take("word")
  /\ UNCHANGED <<text, start, tokens, cursor, stack>>

\* Mutant: the end is looked for after blanks only
CommitLate ==
  /\ pc = "commit"
  /\ IF curr - start < MaxToken
       THEN /\ tokens' = Append(tokens, [from |-> start, to |-> curr - 1])
            /\ pc' = "blank"
       ELSE pc' = "overrun" /\ UNCHANGED tokens
  /\ UNCHANGED <<text, curr, start, cursor, stack>>

\* token[token_curr] = 0, and the token is copied to the list of tokens
Commit ==
  /\ pc = "commit"
  /\ IF curr - start < MaxToken
       THEN /\ tokens' = Append(tokens, [from |-> start, to |-> curr - 1])
            /\ pc' = IF AtEnd THEN "expr" ELSE "blank"
       ELSE pc' = "overrun" /\ UNCHANGED tokens
  /\ UNCHANGED <<text, curr, start, cursor, stack>>

\* Mutant: token_curr is not set back between two tokens
SkipBlanksKeepStart ==
  /\ pc = "blank"
  /\ IF At(Blanks)
       THEN curr' = curr + 1 /\ UNCHANGED <<pc, start>>
       ELSE pc' = "token" /\ UNCHANGED <<curr, start>>
  /\ UNCHANGED <<text, tokens, cursor, stack>>

\* token_curr = 0 was set when the token was copied.
SkipBlanks ==
  /\ pc = "blank"
  /\ IF At(Blanks)
       THEN curr' = curr + 1 /\ UNCHANGED <<pc, start>>
       ELSE pc' = "token" /\ start' = curr /\ UNCHANGED curr
  /\ UNCHANGED <<text, tokens, cursor, stack>>

Tokenize == Parenthesis \/ OpenString \/ InString \/ StartWord \/ InWord \/ Commit \/ SkipBlanks

-----------------------------------------------------------------------------
(* The parser.  An element of the stack is a call of ME_RLI_IR_func_parse  *)
(* that reads an argument, or one of ME_RLI_IR_value_parse after a tick.   *)

PastEnd == cursor > Len(tokens)     \* *curr == NULL
Is(c)   == tokens[cursor].to = tokens[cursor].from /\ text[tokens[cursor].from] = c

Top     == stack[Len(stack)]
Push(f) == stack' = Append(stack, f)
Pop     == stack' = SubSeq(stack, 1, Len(stack) - 1)

\* Nothing comes back from the calls that wait: NULL goes through all of them.
Null == pc' = "error" /\ UNCHANGED <<cursor, stack>>

\* The parenthesis and the name; any token but ")" is a name.
ParseFunc ==
  /\ pc = "expr" /\ ~PastEnd /\ Is("(")
  /\ LET name == cursor + 1
     IN IF name > Len(tokens) \/ (tokens[name].to = tokens[name].from /\ text[tokens[name].from] = ")")
          THEN Null
          ELSE cursor' = name + 1 /\ Push("func") /\ pc' = "args"
  /\ UNCHANGED <<text, curr, start, tokens>>

ParseTick ==
  /\ pc = "expr" /\ ~PastEnd /\ Is("'")
  /\ cursor' = cursor + 1 /\ Push("tick") /\ UNCHANGED pc
  /\ UNCHANGED <<text, curr, start, tokens>>

ParseLiteral ==
  /\ pc = "expr" /\ ~PastEnd /\ ~Is("(") /\ ~Is("'")
  /\ cursor' = cursor + 1 /\ pc' = "value"
  /\ UNCHANGED <<text, curr, start, tokens, stack>>

\* strcmp((*curr)->value, "(") with *curr NULL
ParseCrashes ==
  /\ pc = "expr" /\ PastEnd
  /\ pc' = "crash"
  /\ UNCHANGED <<text, curr, start, tokens, cursor, stack>>

\* Mutant: the end of the tokens is not looked for among arguments
ParseArgsUnchecked ==
  /\ pc = "args"
  /\ IF ~PastEnd /\ Is(")") THEN cursor' = cursor + 1 /\ Pop /\ pc' = "value"
     ELSE pc' = "expr" /\ UNCHANGED <<cursor, stack>>
  /\ UNCHANGED <<text, curr, start, tokens>>

\* The next argument, or the end of the function
ParseArgs ==
  /\ pc = "args"
  /\ IF PastEnd THEN Null
     ELSE IF Is(")") THEN cursor' = cursor + 1 /\ Pop /\ pc' = "value"
     ELSE pc' = "expr" /\ UNCHANGED <<cursor, stack>>
  /\ UNCHANGED <<text, curr, start, tokens>>

\* Mutant: what was quoted is not closed
ReturnValueOpen ==
  /\ pc = "value"
  /\ IF stack = <<>> THEN pc' = "parsed" /\ UNCHANGED stack
     ELSE pc' = "args" /\ UNCHANGED stack
  /\ UNCHANGED <<text, curr, start, tokens, cursor>>

\* An expression goes to the call that waits for it.
ReturnValue ==
  /\ pc = "value"
  /\ IF stack = <<>> THEN pc' = "parsed" /\ UNCHANGED stack
     ELSE IF Top = "func" THEN pc' = "args" /\ UNCHANGED stack
     ELSE Pop /\ UNCHANGED pc
  /\ UNCHANGED <<text, curr, start, tokens, cursor>>

Parse == ParseFunc \/ ParseTick \/ ParseLiteral \/ ParseCrashes \/ ParseArgs \/ ReturnValue

Next == Tokenize \/ Parse
Spec == Init /\ [][Next]_vars

-----------------------------------------------------------------------------
(* Properties.                                                             *)

Token == [from : Nat \ {0}, to : Nat]

\* Every variable has its type, and no cursor leaves what it runs over: the
\* text is not read behind the zero that ends it, the tokens not behind NULL.
TypeOK ==
  /\ text \in Texts /\ pc \in Lexing \cup Parsing \cup Final
  /\ curr \in 1 .. Len(text) + 1 /\ start \in 1 .. curr
  /\ tokens \in Seq(Token)
  /\ cursor \in 1 .. Len(tokens) + 1
  /\ stack \in Seq({"func", "tick"})

\* Tokens follow each other in the text, and none is empty but one before
\* blanks at the start and one after blanks at the end (three cursors are kept
\* by hand in ME_RLI_tokenize).
TokensFollow ==
  \A k \in 1 .. Len(tokens) :
    /\ tokens[k].to < curr /\ tokens[k].from <= tokens[k].to + 1
    /\ tokens[k].from = tokens[k].to + 1 => tokens[k].from \in {1, Len(text) + 1}
    /\ k > 1 => tokens[k - 1].to < tokens[k].from

\* The token that begins at i ends before j: it is a parenthesis, a string up to
\* its next quote, or all up to a blank, a parenthesis or the end.
Ends(i, j) ==
  /\ i <= j /\ j <= Len(text) + 1
  /\ \/ i < j /\ text[i] \in Parens /\ j = i + 1
     \/ i + 1 < j /\ text[i] = Quote /\ text[j - 1] = Quote
          /\ \A k \in i + 1 .. j - 2 : text[k] # Quote
     \/ /\ i <= Len(text) => text[i] \notin Parens \cup {Quote}
        /\ \A k \in i .. j - 1 : text[k] \notin Blanks \cup Parens
        /\ j = Len(text) + 1 \/ text[j] \in Blanks \cup Parens

\* Behind n tokens, the next one begins at i: at the start of the text, or where
\* the blanks behind the last one end.
Begins(n, i) ==
  IF n = 0 THEN i = 1
  ELSE LET j == tokens[n].to + 1
       IN /\ j <= i /\ j <= Len(text)
          /\ \A k \in j .. i - 1 : text[k] \in Blanks
          /\ i = Len(text) + 1 \/ text[i] \notin Blanks

\* The tokens are those of the text from its start on, in order, and all of them
\* when they are parsed.  No token is made of a string without an end; one is
\* there if NULL is returned (ME_RLI_tokenize).
TokensAreThoseOfTheText ==
  /\ \A n \in 1 .. Len(tokens) :
       Begins(n - 1, tokens[n].from) /\ Ends(tokens[n].from, tokens[n].to + 1)
  /\ pc \in Parsing \cup {"parsed", "error", "crash"} =>
       tokens # <<>> /\ tokens[Len(tokens)].to = Len(text)
  /\ pc = "mismatched" => /\ Begins(Len(tokens), start) /\ start <= Len(text) /\ text[start] = Quote
                          /\ \A k \in start + 1 .. Len(text) : text[k] # Quote

\* Token number n is the character c.
IsAt(n, c) == tokens[n].to = tokens[n].from /\ text[tokens[n].from] = c

\* The grammar of requests: what is an expression, and what is the rest of a
\* function behind its name.  An element <<x, i, j>> is an x that begins at token
\* i and ends before token j; D has what the rules make, at i, of its elements.
Places     == 1 .. Len(tokens) + 1
Constructs == {"expr", "args"} \X Places \X Places
ClosedAt(D, i) ==
  /\ ~IsAt(i, "(") /\ ~IsAt(i, "'") => <<"expr", i, i + 1>> \in D
  /\ IsAt(i, "'") => \A j \in Places : <<"expr", i + 1, j>> \in D => <<"expr", i, j>> \in D
  /\ IsAt(i, "(") /\ i < Len(tokens) /\ ~IsAt(i + 1, ")") =>
       \A j \in Places : <<"args", i + 2, j>> \in D => <<"expr", i, j>> \in D
  /\ IsAt(i, ")") => <<"args", i, i + 1>> \in D
  /\ ~IsAt(i, ")") => \A k, j \in Places :
       <<"expr", i, k>> \in D /\ <<"args", k, j>> \in D => <<"args", i, j>> \in D
ClosedUnderGrammar(D) == \A i \in 1 .. Len(tokens) : ClosedAt(D, i)

\* What the grammar derives: the least set that is closed under its rules
Derived == {x \in Constructs : \A D \in SUBSET Constructs : ClosedUnderGrammar(D) => x \in D}

\* The parser accepts the requests that begin with an expression, and what it
\* reads of one is that expression: no other one begins there.  It refuses a
\* request, or looks through NULL, only if no expression begins it
\* (ME_RLI_IR_expr_parse).
ParsedIsAnExpression ==
  /\ pc = "parsed" => \A j \in Places : <<"expr", 1, j>> \in Derived <=> j = cursor
  /\ pc \in {"error", "crash"} => \A j \in Places : <<"expr", 1, j>> \notin Derived

Reference == INSTANCE RLI WITH HookIndex <- 0

\* The steps of the tokenizer and the parser come to what RLI defines: the same
\* tokens, the same cursor behind an expression, and the same ends.
ReadsAsDefined ==
  LET ts == Reference!Tokenize(text)
      p  == Reference!Parse(ts)
  IN /\ pc = "mismatched" => ts = <<>>
     /\ pc \in Parsing \cup {"parsed", "error", "crash"} =>
          ts = [k \in 1 .. Len(tokens) |-> SubSeq(text, tokens[k].from, tokens[k].to)]
     /\ pc = "parsed" => p.is = "expr" /\ p.curr = cursor
     /\ pc = "error"  => p.is = "null"
     /\ pc = "crash"  => p.is = "crash"

\* The texts of tokens with a blank between each two
Spaced(ts) == Tail(FlattenSeq([k \in 1 .. Len(ts) |-> <<" ">> \o ts[k]]))

\* Blanks between tokens and at the end do not change what a request means (but
\* for a tick at the end).  A blank at the start does: it is a token, which
\* parses as 0 (ME_RLI_tokenize looks for the end of the text before blanks).
LayoutDoesNotMatter ==
  pc = "token" /\ curr = 1 =>
    LET ts     == Reference!Tokenize(text)
        parsed == Reference!Parse(ts)
    IN /\ ts # <<>> /\ <<>> \notin ToSet(ts) => Reference!Tokenize(Spaced(ts)) = ts
       /\ parsed.is # "crash" => Reference!Parse(Reference!Tokenize(Append(text, " "))) = parsed

\* A piece of a text that no token boundary cuts: a string, or no blank and no
\* parenthesis in it
Uncut(i, n) ==
  /\ i + n - 1 <= Len(text)
  /\ \/ \A j \in i .. i + n - 1 : text[j] \notin Blanks \cup Parens
     \/ text[i] = Quote /\ \A j \in i + 1 .. i + n - 2 : text[j] # Quote

\* The buffer of a token is overrun only by a piece of text with no boundary in
\* it that leaves no room for the zero: never by many short tokens, and not by
\* one of MaxToken - 1 characters ("TODO ensure token length").
OverrunNeedsLongToken ==
  pc = "overrun" => \E i \in 1 .. Len(text) : Uncut(i, MaxToken)

\* The parser looks through a NULL cursor only after a tick that is the last
\* token.
CrashNeedsLastTick ==
  pc = "crash" =>
    Len(tokens) > 0 /\ tokens[Len(tokens)].to = tokens[Len(tokens)].from
      /\ text[tokens[Len(tokens)].from] = "'"

\* No request makes the parser's recursion deeper than it has tokens, and none
\* ends with a call left waiting.
StackIsBounded ==
  /\ Len(stack) < cursor
  /\ pc = "parsed" => stack = <<>>

\* What is left to read, in steps: each reads a character or a token, ends one,
\* or comes nearer to doing so.
Rank == [p \in Lexing \cup Parsing \cup Final |->
           CASE p = "blank" -> 3 [] p = "token" -> 2 [] p \in {"string", "word"} -> 1
             [] p = "value" -> 3 [] p = "args" -> 2 [] p = "expr" -> 1
             [] OTHER -> 0]
Work ==
  IF pc \in Lexing
    THEN 4 * (Len(text) + 2) + 4 * (Len(text) + 1 - curr) + 4 * (Len(text) + 2 - Len(tokens)) + Rank[pc]
    ELSE 4 * (Len(tokens) + 1 - cursor) + 2 * Len(stack) + Rank[pc]

\* Every step leaves less to do: no text keeps the measurer reading for ever.
EveryStepCounts == [][Work' < Work /\ Work \in Nat]_vars
=============================================================================
