---------------------------- MODULE MCTestSession ----------------------------
(* An instance of TestSession for the model checker: before they are        *)
(* assigned, "a" and "b" may hold what the test expects of either of them,  *)
(* or something else.                                                       *)
EXTENDS TestSession

ExpectedOrElse == {0, 2, 45, 46}
=============================================================================
