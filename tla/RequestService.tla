--------------------------- MODULE RequestService ---------------------------
(***************************************************************************)
(* What a driver expects of a measurer: it asks for one evaluation at a    *)
(* time, each request is evaluated at most once, and what it takes as an   *)
(* answer is the answer to the request it has just made.  Either side may  *)
(* stop at any point.                                                      *)
(***************************************************************************)
EXTENDS Naturals, Sequences

VARIABLES
  asked,       \* requests made so far; they are numbered from 1
  evaluated,   \* the requests that were evaluated, in order
  answered     \* the requests whose answer the driver took, in order

vars == <<asked, evaluated, answered>>

Init == asked = 0 /\ evaluated = <<>> /\ answered = <<>>

Ask ==
  /\ Len(answered) = asked
  /\ asked' = asked + 1
  /\ UNCHANGED <<evaluated, answered>>

Evaluate ==
  /\ Len(evaluated) = asked - 1
  /\ evaluated' = Append(evaluated, asked)
  /\ UNCHANGED <<asked, answered>>

Answer ==
  /\ Len(answered) = asked - 1 /\ Len(evaluated) = asked
  /\ answered' = Append(answered, asked)
  /\ UNCHANGED <<asked, evaluated>>

Next == Ask \/ Evaluate \/ Answer

Spec == Init /\ [][Next]_vars
=============================================================================
