------------------------ MODULE MCConstraintKernels ------------------------
(* ConstraintKernels with rotations of the cube's tetrahedral group.        *)
EXTENDS ConstraintKernels, TLC

MCTypes == TwoNodes \cup PositionOnly \cup {"FixedBC", "PrescribedBC"}
\* No turn, third turns about two diagonals, a half turn.
MCOrientations == {NoRotation, <<1, 1, 1, 1>>, <<1, -1, 1, 1>>, <<0, 0, 2, 0>>}
MCShifts == {<<0, 0, 0>>, <<1, 0, -2>>}
MCBasePosition == <<1, 0, 2>>
MCOffsets == {<<0, 0, 0>>, <<0, 2, 0>>, <<1, 2, -1>>}
MCHingeAxes == {<<0, 0, 0>>, <<1, 0, 0>>, <<0, 0, -3>>}
MCControlAxes == {<<1, 1, 1>>, <<0, 1, 0>>}
MCAngles == <<1, 1, 1>> :> {0, 2, 8} @@ <<0, 1, 0>> :> {3}
MCTorques == {2}
MCMultipliers == {<<1, -2, 3, 2, 0, -1>>}
MCTangent == Blocks(MatrixTimes(2, Identity(3)), ZeroMatrix(3), ZeroMatrix(3),
                    << <<1, 2, 0>>, <<0, 1, 3>>, <<0, 1, 1>> >>)
=============================================================================
