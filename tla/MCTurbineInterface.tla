------------------------- MODULE MCTurbineInterface -------------------------
(***************************************************************************)
(* TurbineInterface for TLC: a blade section with more sections than       *)
(* nodes, one between nodes, and a tower with one section.                 *)
(***************************************************************************)
EXTENDS TurbineInterface

Section(s, arm, ref) == [s |-> s, arm |-> arm, ref |-> ref]
ThirdTurn == <<1, 1, 1, 1>>
HalfTurn == <<0, 0, 2, 0>>

BladeAndTower ==
  << << Section(0, <<0, -1, 2>>, NoRotation), Section(1, <<0, 3, 1>>, ThirdTurn),
        Section(3, <<0, 2, -1>>, HalfTurn), Section(4, <<0, 0, 1>>, NoRotation) >>,
     << Section(2, <<0, 1, 0>>, ThirdTurn) >> >>

\* Without aerodynamics; all blades alike; the second blade different; with a tower.
Maps == { <<>>, <<1>>, <<1, 2>>, <<1, 1>>, <<1, 2, 1>>, <<1, 1, 1, 2>> }

UnturnedAndTurned == {NoRotation, ThirdTurn}
=============================================================================
