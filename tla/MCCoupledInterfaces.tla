------------------------ MODULE MCCoupledInterfaces ------------------------
(* CoupledInterfaces with two inputs that may be exchanged for each other.  *)
(* The blade interface, whose rows are looked at, takes one more step.      *)
EXTENDS CoupledInterfaces, TLC

MCMaxTime == [k \in Kinds |-> IF k = "blade" THEN 3 ELSE 2]

MCSymmetry == Permutations(Loads)
=============================================================================
