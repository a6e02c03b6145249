------------------------------ MODULE Requests ------------------------------
(***************************************************************************)
(* Requests of any shape, well typed or not: that each can be written and  *)
(* read, and what its evaluation calls.  A request is an expression on a   *)
(* heap, in which what an expression holds comes before it; it grows by    *)
(* being put into another one.                                             *)
(***************************************************************************)
EXTENDS RLI

CONSTANTS
  Base,      \* expressions to begin with
  Leaves,    \* those that stand beside the request among arguments
  Arity,     \* the number of arguments that each name of a function is given
  MaxDepth   \* bound: how often a request is put into another expression

\* The words that names and numbers are written with
Special == {Blank, Quote, "'"} \cup Parens
Words   == STRING \ Special

Literals == {IntVal(0), IntVal(1), StrVal}
Values(n) == {Value(v) : v \in Literals \cup {Lexpr(m) : m \in 1 .. n - 1}}
Funcs(n)  == [kind : {"func"}, name : [1 .. 1 -> Words], args : Seq(1 .. n - 1)]
IsHeap(h) ==
  /\ Len(h) \in Nat /\ h = [n \in 1 .. Len(h) |-> h[n]]
  /\ \A n \in 1 .. Len(h) : h[n] \in Values(n) \cup Funcs(n)

ASSUME RequestsAssumption ==
  /\ IsHeap(Base) /\ Leaves \subseteq DOMAIN Base
  /\ DOMAIN Arity \subseteq Words /\ \A name \in DOMAIN Arity : Arity[name] \in Nat
  /\ MaxDepth \in Nat /\ HookIndex \in Int

VARIABLES heap, expr, depth
vars == <<heap, expr, depth>>

\* Argument lists with the request at one place and leaves at the others
ArgsWith(n) ==
  {a \in [1 .. n -> Leaves \cup {expr}] : \E k \in 1 .. n : a[k] = expr}

Init == heap = Base /\ expr \in DOMAIN Base /\ depth = 0

Build(e) == heap' = Append(heap, e) /\ expr' = Len(heap) + 1
Wrap     == \E name \in DOMAIN Arity : \E args \in ArgsWith(Arity[name]) : Build(Func(<<name>>, args))
QuoteIt  == Build(Value(Lexpr(expr)))

Next == depth < MaxDepth /\ depth' = depth + 1 /\ (Wrap \/ QuoteIt)
Spec == Init /\ [][Next]_vars

-----------------------------------------------------------------------------
(* What should be read and called: the other way round, from the           *)
(* expression to its text, its type and its calls.                         *)

TextOf(h) ==
  LET text[n \in DOMAIN h] ==
        IF h[n].kind = "func"
          THEN LET args == Each(text, h[n].args)
               IN Open \o h[n].name
                    \o FlattenSeq([k \in 1 .. Len(args) |-> <<Blank>> \o args[k]]) \o Close
          ELSE IF h[n].value.type = "lexpr" THEN Tick \o <<Blank>> \o text[h[n].value.lexpr]
          ELSE IF h[n].value.type = "string" THEN <<Quote, "s", Quote>>
          ELSE IF h[n].value = IntVal(0) THEN <<"0">> ELSE <<"1">>
  IN text

\* The expression itself, as the parser yields it
Tree(h) ==
  LET tree[n \in DOMAIN h] ==
        IF h[n].kind = "func" THEN Func(h[n].name, Each(tree, h[n].args))
        ELSE IF h[n].value.type = "lexpr" THEN Value(Lexpr(tree[h[n].value.lexpr]))
        ELSE h[n]
  IN tree

\* What f has for each of the arguments that is an expression with a tick
Quoted(e) == e.kind = "value" /\ e.value.type = "lexpr"
EachQuoted(f, h, args, none) ==
  [k \in 1 .. Len(args) |-> IF Quoted(h[args[k]]) THEN f[h[args[k]].value.lexpr] ELSE none]

\* The types of expressions, "error" for one that is not well typed.  An "if"
\* gives one type, whatever the branch; a "seq" gets expressions as they are
\* written, which are well typed themselves.
FuncType(name, types, quoted) ==
  IF \E k \in 1 .. Len(types) : types[k] = "error" THEN "error"
  ELSE IF name = <<"print">> /\ Len(types) = 1 THEN "void"
  ELSE IF name = <<"eq">> /\ types = <<"int", "int">> THEN "int"
  ELSE IF name = <<"if">> /\ Len(types) = 3 /\ types[1] = "int" /\ types[2] = types[3] THEN types[2]
  ELSE IF name = <<"seq">> /\ \A k \in 1 .. Len(types) : quoted[k] # "error" THEN "void"
  ELSE IF IsCall(name) /\ types = API[name[1]].takes THEN API[name[1]].gives
  ELSE "error"

TypeOf(h) ==
  LET type[n \in DOMAIN h] ==
        IF h[n].kind = "value" THEN h[n].value.type
        ELSE FuncType(h[n].name, Each(type, h[n].args), EachQuoted(type, h, h[n].args, "error"))
  IN type

Uses(h, name) ==
  LET uses[n \in DOMAIN h] ==
        IF h[n].kind = "func"
          THEN h[n].name = <<name>> \/ \E k \in 1 .. Len(h[n].args) : uses[h[n].args[k]]
          ELSE Quoted(h[n]) /\ uses[h[n].value.lexpr]
  IN uses

\* The calls in the order in which a reader expects them: arguments first
Postorder(h) ==
  LET calls[n \in DOMAIN h] ==
        IF h[n].kind = "value" THEN <<>>
        ELSE FlattenSeq(Each(calls, h[n].args))
             \o (IF h[n].name = <<"seq">> THEN FlattenSeq(EachQuoted(calls, h, h[n].args, <<>>))
                 ELSE IF IsCall(h[n].name) THEN h[n].name ELSE <<>>)
  IN calls

-----------------------------------------------------------------------------
(* Properties.                                                             *)

\* Every request can be written, and is read as what it is, whatever follows it
\* in the text (BE_rhandler_dispatch does not look at the rest).
RequestsAreReadBack ==
  LET p == Parse(Tokenize(TextOf(heap)[expr] \o Close)) IN p.is = "expr" /\ p.expr = Tree(heap)[expr]

\* A well-typed request does not fail, has its type, and makes all of its calls,
\* arguments first and from left to right (ME_RLI_IR_func_eval and the checks
\* of each ME_RLI_IR_API_ function).
TypedRequestsSucceed ==
  TypeOf(heap)[expr] # "error" =>
    LET r == Eval(heap)[expr]
    IN ~Failed(r) /\ r.val.type = TypeOf(heap)[expr] /\ r.calls = Postorder(heap)[expr]

\* One that is not well typed fails, and what it has called by then is the start
\* of what it says: nothing is called after an error.  (seq goes on after one,
\* and the branch of an "if" that has the wrong type may not be the one taken.)
ErrorsEndTheRequest ==
  TypeOf(heap)[expr] = "error" /\ ~Uses(heap, "seq")[expr] /\ ~Uses(heap, "if")[expr] =>
    LET r == Eval(heap)[expr] IN Failed(r) /\ IsPrefix(r.calls, Postorder(heap)[expr])

\* An event, a feature or a measurement that a call takes is what the call just
\* before it gave, so that a request is its sequence of calls (the "val" of
\* Measurer); "if" is the exception, for it gives either of two.
ArgumentsAreLastResults ==
  ~Uses(heap, "if")[expr] =>
    LET calls == Eval(heap)[expr].calls
    IN \A k \in 1 .. Len(calls) :
         \A t \in ToSet(API[calls[k]].takes) \cap {"event", "feature", "measurement"} :
           k > 1 /\ API[calls[k - 1]].gives = t
=============================================================================
