--------------------------- MODULE MeasurementLog ---------------------------
(* What the measurement store promises a driver: slot i is the log of the   *)
(* measurements that "store" put there, newest first, and "load" answers    *)
(* with the whole of it, until a request stores what it has loaded.         *)
EXTENDS Naturals, Sequences

CONSTANTS
  Slots,   \* indexes of the store
  Indexes  \* indexes that requests use

VARIABLES
  log,       \* log[i]: the measurements stored at i, newest first
  taken,     \* number of measurements taken so far; they are 1 .. taken
  response,  \* the last answer to a load
  restored   \* a loaded measurement was stored

vars == <<log, taken, response, restored>>

Init ==
  /\ log = [i \in Slots |-> <<>>]
  /\ taken = 0 /\ response = <<>> /\ restored = FALSE

\* An index outside of the store holds nothing, and nothing is stored there.
Put(i) ==
  /\ taken' = taken + 1
  /\ log' = IF i \in Slots THEN [log EXCEPT ![i] = <<taken + 1>> \o @] ELSE log
  /\ UNCHANGED <<response, restored>>

Get(i) ==
  /\ response' = IF i \in Slots THEN log[i] ELSE <<>>
  /\ UNCHANGED <<log, taken, restored>>

\* (store i (load j)) links a measurement that is in a log already; nothing is
\* promised from then on.
Restore == restored' = TRUE

Next == Restore \/ \E i \in Indexes : Put(i) \/ Get(i)

Spec == Init /\ [][Next]_vars
=============================================================================
