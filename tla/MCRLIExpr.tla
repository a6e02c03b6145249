----------------------------- MODULE MCRLIExpr -----------------------------
(* An instance of Requests for the model checker: functions of every kind,  *)
(* and one that is not there.                                               *)
EXTENDS Requests

MCBase ==
  << Func(<<"callstack">>, <<>>), Func(<<"detach">>, <<>>), Value(IntVal(1)), Value(StrVal),
     Value(Lexpr(2)), Func(<<"measure">>, <<1>>), Func(<<"reach_func">>, <<4, 3>>) >>
MCLeaves == 3 .. 7

MCArity == [reach_func |-> 2, delay |-> 3, hook |-> 2, measure |-> 1, var |-> 1, store |-> 2,
            if |-> 3, seq |-> 2, eq |-> 2, print |-> 1, nosuch |-> 1, quit |-> 1]
=============================================================================
