----------------------------- MODULE MCOutputs -----------------------------
(***************************************************************************)
(* Outputs for TLC: two of the five state components.                      *)
(***************************************************************************)
EXTENDS Outputs

PositionThenVelocity == <<"x", "v">>

\* Nothing buffered, both alike as TurbineInterface asks for, and the time
\* series alone.
NoneBothOrSeries == {<<0, 0>>, <<2, 2>>, <<0, 2>>}
============================================================================
