---------------------------- MODULE MCFairBatch ----------------------------
(***************************************************************************)
(* Instances of FairBatch: requests of one record, and requests of two     *)
(* records or four bytes, where two large records are too much for one and *)
(* a large and a small one just fit.                                       *)
(***************************************************************************)
EXTENDS FairBatch

MCUnitSize == [r \in 1 .. N |-> 1]

MCUnequalSize == [r \in 1 .. N |-> IF r % 2 = 1 THEN MaxBytes - 1 ELSE 1]
=============================================================================
