------------------------- MODULE MCMeasurementStore -------------------------
(* Instances of MeasurementStore for the model checker.                     *)
EXTENDS MeasurementStore

\* Every slot, and the first index past the end
AllIndexes == 0 .. StoreSize
=============================================================================
