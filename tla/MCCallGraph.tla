----------------------------- MODULE MCCallGraph -----------------------------
(* An instance of CallGraphTransfer for the model checker, one of whose     *)
(* functions has a blank in its name.                                       *)
EXTENDS CallGraphTransfer

TwoFunctions == {<<"f">>, <<"g", Data!Blank, "f">>}
Nameless     == Data!Null
SignalFrame  == <<"signal", Data!Blank>>
=============================================================================
