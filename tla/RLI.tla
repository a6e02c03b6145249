-------------------------------- MODULE RLI --------------------------------
(***************************************************************************)
(* The request language: ME_RLI_tokenize, the recursive descent of         *)
(* ME_RLI_IR_expr_parse and the evaluation of ME_RLI_IR_expr_eval, which   *)
(* calls the API.  A text is a sequence of characters, where one character *)
(* stands for a whole word or number; a call of the API is recorded in the *)
(* order in which it is made.                                              *)
(***************************************************************************)
EXTENDS Integers, SequencesExt

CONSTANT
  HookIndex   \* what ME_API_hook returns: -1 if it could not add the hook

-----------------------------------------------------------------------------
(* Tokens: sequences of characters.                                        *)

Blank == " "
Quote == "\""
Parens == {"(", ")"}
Open  == <<"(">>
Close == <<")">>
Tick  == <<"'">>
Empty == <<>>        \* the token that blanks at the start or end make

NoTokens == <<>>     \* "mismatched quotes"; a text has at least one token

\* The first position from i on that is in S, or the one after the text
FirstIn(S, in, i) == Min({j \in i .. Len(in) : in[j] \in S} \cup {Len(in) + 1})

\* Mutant: blanks are not looked for inside of a word
TokenEndKeepsBlanks(in, i) ==
  IF i > Len(in) THEN i
  ELSE IF in[i] \in Parens THEN i + 1
  ELSE IF in[i] = Quote THEN FirstIn({Quote}, in, i + 1) + 1
  ELSE FirstIn(Parens, in, i)

\* The position after the token that starts at i; past Len(in) + 1 if that is
\* a string which is not closed
TokenEnd(in, i) ==
  IF i > Len(in) THEN i
  ELSE IF in[i] \in Parens THEN i + 1
  ELSE IF in[i] = Quote THEN FirstIn({Quote}, in, i + 1) + 1
  ELSE FirstIn(Parens \cup {Blank}, in, i)

NotBlank(in, i) == Min({j \in i .. Len(in) : in[j] # Blank} \cup {Len(in) + 1})

\* The tokens from each place on.  The end is looked for before blanks are
\* skipped, so that blanks at the end of the text make an empty token.
TokensFrom(in) ==
  LET from[i \in 1 .. Len(in) + 1] ==
        LET end   == TokenEnd(in, i)
            token == SubSeq(in, i, end - 1)
            rest  == from[NotBlank(in, end)]
        IN IF end > Len(in) + 1 THEN NoTokens
           ELSE IF end = Len(in) + 1 THEN <<token>>
           ELSE IF rest = NoTokens THEN NoTokens ELSE <<token>> \o rest
  IN from

Tokenize(in) == TokensFrom(in)[1]

-----------------------------------------------------------------------------
(* Values and expressions.                                                 *)

IntVal(n)   == [type |-> "int", int |-> n]
StrVal      == [type |-> "string"]
Lexpr(e)    == [type |-> "lexpr", lexpr |-> e]
Other(t)    == [type |-> t]    \* void, measurement, event, feature
Error       == [type |-> "error"]

Value(v)         == [kind |-> "value", value |-> v]
Func(name, args) == [kind |-> "func", name |-> name, args |-> args]

\* atoi(): "1" stands for every number but 0, and what is no number is 0
Literal(t) ==
  IF t # Empty /\ t[1] = Quote THEN StrVal
  ELSE IF t # Empty /\ t[1] = "1" THEN IntVal(1) ELSE IntVal(0)

-----------------------------------------------------------------------------
(* The parser.  Its cursor "curr" is an index into the tokens ts.          *)

Parsed(e, curr) == [is |-> "expr", expr |-> e, curr |-> curr]
Null  == [is |-> "null"]    \* a parse error
Crash == [is |-> "crash"]   \* *curr is NULL and is looked at

ParseFunc(parse, ts, curr) ==
  IF curr > Len(ts) THEN Null
  ELSE IF ts[curr] = Close THEN Null
  ELSE LET args == parse[<<"args", curr + 1>>]
       IN IF args.is # "expr" THEN args ELSE Parsed(Func(ts[curr], args.expr), args.curr)

\* Mutant: what follows a tick is not parsed as an expression
ParseValueFlat(parse, ts, curr) ==
  IF ts[curr] = Tick /\ curr < Len(ts)
    THEN Parsed(Value(Lexpr(Value(Literal(ts[curr + 1])))), curr + 2)
    ELSE Parsed(Value(Literal(ts[curr])), curr + 1)

\* Anything that is no parenthesis or tick is a value, ")" included.
ParseValue(parse, ts, curr) ==
  LET quoted == parse[<<"expr", curr + 1>>]
  IN IF ts[curr] # Tick THEN Parsed(Value(Literal(ts[curr])), curr + 1)
     ELSE IF quoted.is = "expr" THEN Parsed(Value(Lexpr(quoted.expr)), quoted.curr)
     ELSE quoted

ParseExpr(parse, ts, curr) ==
  IF curr > Len(ts) THEN Crash
  ELSE IF ts[curr] = Open THEN ParseFunc(parse, ts, curr + 1)
  ELSE ParseValue(parse, ts, curr)

\* The rest of the arguments of a function, and its parenthesis
ParseArgs(parse, ts, curr) ==
  LET arg  == parse[<<"expr", curr>>]
      rest == parse[<<"args", arg.curr>>]
  IN IF curr > Len(ts) THEN Null
     ELSE IF ts[curr] = Close THEN Parsed(<<>>, curr + 1)
     ELSE IF arg.is # "expr" THEN arg
     ELSE IF rest.is # "expr" THEN rest
     ELSE Parsed(<<arg.expr>> \o rest.expr, rest.curr)

\* What is read at each token: an expression, or a list of arguments
Parser(ts) ==
  LET parse[p \in {"expr", "args"} \X (1 .. Len(ts) + 1)] ==
        IF p[1] = "expr" THEN ParseExpr(parse, ts, p[2]) ELSE ParseArgs(parse, ts, p[2])
  IN parse

\* What BE_rhandler_dispatch parses; tokens that are left over are not looked at
Parse(ts) == IF ts = NoTokens THEN Null ELSE Parser(ts)[<<"expr", 1>>]

-----------------------------------------------------------------------------
(* The API: what each function expects, and what it returns.               *)

API ==
  [ set_target    |-> [takes |-> <<"int">>,                    gives |-> "void"],
    detach        |-> [takes |-> <<>>,                         gives |-> "void"],
    quit          |-> [takes |-> <<>>,                         gives |-> "void"],
    print_context |-> [takes |-> <<>>,                         gives |-> "void"],
    measure       |-> [takes |-> <<"feature">>,                gives |-> "measurement"],
    store         |-> [takes |-> <<"int", "measurement">>,     gives |-> "void"],
    load          |-> [takes |-> <<"int">>,                    gives |-> "measurement"],
    delay         |-> [takes |-> <<"int", "int", "event">>,    gives |-> "event"],
    reach         |-> [takes |-> <<"string", "int", "int">>,   gives |-> "event"],
    reach_func    |-> [takes |-> <<"string", "int">>,          gives |-> "event"],
    reach_syscall |-> [takes |-> <<"string", "int">>,          gives |-> "event"],
    hook          |-> [takes |-> <<"event", "lexpr">>,         gives |-> "int"],
    callstack     |-> [takes |-> <<>>,                         gives |-> "feature"],
    var           |-> [takes |-> <<"string">>,                 gives |-> "feature"],
    mem           |-> [takes |-> <<"string", "string">>,       gives |-> "feature"],
    kill          |-> [takes |-> <<"int">>,                    gives |-> "void"],
    enable        |-> [takes |-> <<"int">>,                    gives |-> "void"],
    disable       |-> [takes |-> <<"int">>,                    gives |-> "void"],
    gdb           |-> [takes |-> <<"string">>,                 gives |-> "void"] ]

IsCall(name) == Len(name) = 1 /\ name[1] \in DOMAIN API
Types(vals)  == [k \in 1 .. Len(vals) |-> vals[k].type]

\* Mutant: only the number of the arguments is checked
CheckArgsNumber(takes, vals) == Len(vals) = Len(takes)

CheckArgs(takes, vals) == Types(vals) = takes

Result(name) ==
  IF API[name].gives = "int" THEN IntVal(HookIndex) ELSE Other(API[name].gives)

-----------------------------------------------------------------------------
(* The evaluator: a value and the calls that were made for it.  The        *)
(* expression is on a heap h, a sequence of Value and Func whose arguments *)
(* and lexprs are the numbers of others; eval has the results of these.    *)

\* What f has for each of the arguments
Each(f, args) == [k \in 1 .. Len(args) |-> f[args[k]]]

Yields(v, calls) == [val |-> v, calls |-> calls]
Failed(r) == r.val.type = "error"

CallAPI(name, vals) ==
  IF CheckArgs(API[name].takes, vals)
    THEN Yields(Result(name), <<name>>)
    ELSE Yields(Error, <<>>)

EvalPrint(vals) == Yields(IF Len(vals) = 1 THEN Other("void") ELSE Error, <<>>)

EvalEq(vals) ==
  Yields(IF ~CheckArgs(<<"int", "int">>, vals) THEN Error
         ELSE IF vals[1] = vals[2] THEN IntVal(1)
         ELSE IntVal(0), <<>>)

\* The branches are arguments like others: both were evaluated before.
EvalIf(vals) ==
  Yields(IF Len(vals) # 3 \/ vals[1].type # "int" THEN Error
         ELSE IF vals[1].int # 0 THEN vals[2]
         ELSE vals[3], <<>>)

\* What an expression among the arguments of seq comes to
SeqResults(eval, vals) ==
  [k \in 1 .. Len(vals) |->
     IF vals[k].type = "lexpr" THEN eval[vals[k].lexpr] ELSE Yields(Error, <<>>)]

\* Mutant: the return is inside of the loop
EvalSeqFirst(vals, results) ==
  IF vals = <<>> THEN Yields(Other("void"), <<>>)
  ELSE IF vals[1].type # "lexpr" THEN Yields(Error, <<>>)
  ELSE Yields(Other("void"), results[1].calls)

\* Expressions one after the other; what they yield, errors too, is dropped.
EvalSeq(vals, results) ==
  LET after[k \in 0 .. Len(vals)] ==
        IF k = 0 THEN Yields(Other("void"), <<>>)
        ELSE LET r == after[k - 1]
             IN IF Failed(r) THEN r
                ELSE IF vals[k].type = "lexpr" THEN Yields(r.val, r.calls \o results[k].calls)
                ELSE Yields(Error, r.calls)
  IN after[Len(vals)]

Apply(eval, name, vals) ==
  IF name = <<"print">> THEN EvalPrint(vals)
  ELSE IF name = <<"seq">> THEN EvalSeq(vals, SeqResults(eval, vals))
  ELSE IF name = <<"eq">> THEN EvalEq(vals)
  ELSE IF name = <<"if">> THEN EvalIf(vals)
  ELSE IF IsCall(name) THEN CallAPI(name[1], vals)
  ELSE Yields(Error, <<>>)   \* "No such function!"

NothingDone == [failed |-> FALSE, vals |-> <<>>, calls |-> <<>>]

\* Mutant: an error among the arguments does not end their evaluation
EvalArgsAll(results) ==
  LET done[k \in 0 .. Len(results)] ==
        IF k = 0 THEN NothingDone
        ELSE LET before == done[k - 1]
                 r      == results[k]
             IN [failed |-> before.failed \/ Failed(r), vals |-> Append(before.vals, r.val),
                 calls |-> before.calls \o r.calls]
  IN done[Len(results)]

\* Arguments from left to right, up to the first error
EvalArgs(results) ==
  LET done[k \in 0 .. Len(results)] ==
        IF k = 0 THEN NothingDone
        ELSE LET before == done[k - 1]
                 r      == results[k]
             IN IF before.failed THEN before
                ELSE [failed |-> Failed(r), vals |-> Append(before.vals, r.val),
                      calls |-> before.calls \o r.calls]
  IN done[Len(results)]

EvalFunc(eval, f) ==
  LET done == EvalArgs(Each(eval, f.args))
      r    == Apply(eval, f.name, done.vals)
  IN IF done.failed THEN Yields(Error, done.calls)
                    ELSE Yields(r.val, done.calls \o r.calls)

Eval(h) ==
  LET eval[n \in DOMAIN h] ==
        IF h[n].kind = "value" THEN Yields(h[n].value, <<>>) ELSE EvalFunc(eval, h[n])
  IN eval
=============================================================================
