----------------------------- MODULE Kinematics -----------------------------
(***************************************************************************)
(* The vector, matrix and quaternion operators of src/src/math that the    *)
(* constraint kernels are written with, in exact arithmetic.               *)
(*                                                                         *)
(* A quaternion is held doubled, <<2w, 2x, 2y, 2z>>.  The unit quaternions *)
(* with whole or with half components (the 24 Hurwitz units) are closed    *)
(* under the operators, and their rotation matrices are matrices of whole  *)
(* numbers, so nothing is rounded.  Operators that halve in the code       *)
(* (AX_Matrix, AxialVectorOfMatrix) are held doubled as well.              *)
(***************************************************************************)
EXTENDS Integers, Sequences, FiniteSetsExt

----------------------------------------------------------------------------
(* Vectors and matrices: sequences, and sequences of rows.                 *)

Indices(v) == 1 .. Len(v)
ZeroVector(n) == [i \in 1 .. n |-> 0]
ZeroMatrix(n) == [i \in 1 .. n |-> ZeroVector(n)]
Identity(n)   == [i \in 1 .. n |-> [j \in 1 .. n |-> IF i = j THEN 1 ELSE 0]]

Plus(a, b)  == [i \in Indices(a) |-> a[i] + b[i]]
Minus(a, b) == [i \in Indices(a) |-> a[i] - b[i]]
Times(n, a) == [i \in Indices(a) |-> n * a[i]]
MatrixTimes(n, A) == [i \in Indices(A) |-> Times(n, A[i])]
Transposed(A) == [j \in Indices(A[1]) |-> [i \in Indices(A) |-> A[i][j]]]

\* math/vector_operations.hpp
DotProduct(a, b) == MapThenSumSet(LAMBDA i : a[i] * b[i], Indices(a))
CrossProduct(a, b) ==
  << a[2] * b[3] - a[3] * b[2], a[3] * b[1] - a[1] * b[3], a[1] * b[2] - a[2] * b[1] >>
VecTilde_Transposed(v) == << <<0, v[3], -v[2]>>, <<-v[3], 0, v[1]>>, <<v[2], -v[1], 0>> >>
VecTilde(v) == << <<0, -v[3], v[2]>>, <<v[3], 0, -v[1]>>, <<-v[2], v[1], 0>> >>

Applied(A, v)   == [i \in Indices(A) |-> DotProduct(A[i], v)]
Product(A, B)   == LET columns == Transposed(B) IN
                   [i \in Indices(A) |-> [j \in Indices(columns) |-> DotProduct(A[i], columns[j])]]

\* A 6 by 6 matrix from its blocks.
Blocks(A, B, C, D) == [i \in 1 .. 6 |-> IF i <= 3 THEN A[i] \o B[i] ELSE C[i - 3] \o D[i - 3]]

----------------------------------------------------------------------------
(* Matrices of rotations (math/matrix_operations.hpp), doubled.            *)

Trace(A) == A[1][1] + A[2][2] + A[3][3]

\* Twice AX(A) = tr(A)/2 I - A/2.
AX_Matrix(A) ==
  [i \in 1 .. 3 |-> [j \in 1 .. 3 |-> (IF i = j THEN Trace(A) ELSE 0) - A[i][j]]]

\* Twice the axial vector.
AxialVectorOfMatrix(A) == <<A[3][2] - A[2][3], A[1][3] - A[3][1], A[2][1] - A[1][2]>>

----------------------------------------------------------------------------
(* Quaternions (math/quaternion_operations.hpp), doubled.                  *)

NoRotation == <<2, 0, 0, 0>>

\* The products of two doubled components are four times too large.
QuaternionToRotationMatrix(q) ==
  LET w == q[1]  x == q[2]  y == q[3]  z == q[4]
      quarters ==
        << << w*w + x*x - y*y - z*z, 2 * (x*y - w*z), 2 * (x*z + w*y) >>,
           << 2 * (x*y + w*z), w*w - x*x + y*y - z*z, 2 * (y*z - w*x) >>,
           << 2 * (x*z - w*y), 2 * (y*z + w*x), w*w - x*x - y*y + z*z >> >>
  IN [i \in 1 .. 3 |-> [j \in 1 .. 3 |-> quarters[i][j] \div 4]]

RotateVectorByQuaternion(q, v) == Applied(QuaternionToRotationMatrix(q), v)

\* The code divides the conjugate by the length, which is 1 for a rotation.
QuaternionInverse(q) == <<q[1], -q[2], -q[3], -q[4]>>

QuaternionCompose_Swapped(p, q) ==
  << (p[1]*q[1] - p[2]*q[2] - p[3]*q[3] - p[4]*q[4]) \div 2,
     (p[1]*q[2] + p[2]*q[1] - p[3]*q[4] + p[4]*q[3]) \div 2,
     (p[1]*q[3] + p[2]*q[4] + p[3]*q[1] - p[4]*q[2]) \div 2,
     (p[1]*q[4] - p[2]*q[3] + p[3]*q[2] + p[4]*q[1]) \div 2 >>
QuaternionCompose(p, q) ==
  << (p[1]*q[1] - p[2]*q[2] - p[3]*q[3] - p[4]*q[4]) \div 2,
     (p[1]*q[2] + p[2]*q[1] + p[3]*q[4] - p[4]*q[3]) \div 2,
     (p[1]*q[3] - p[2]*q[4] + p[3]*q[1] + p[4]*q[2]) \div 2,
     (p[1]*q[4] + p[2]*q[3] - p[3]*q[2] + p[4]*q[1]) \div 2 >>

\* An angle is counted in sixths of a turn.  About a coordinate axis half turns
\* are exact (angles 0, 3, 6, 9), about a diagonal of the cube third turns (even
\* angles); the sine is scaled so that it multiplies a vector of whole numbers.
HalfAngleCosine(angle) ==
  CASE angle % 12 = 0 -> 2 [] angle % 12 \in {2, 10} -> 1 [] angle % 12 \in {3, 9} -> 0
    [] angle % 12 \in {4, 8} -> -1 [] angle % 12 = 6 -> -2
HalfAngleSine(angle) ==
  CASE angle % 12 \in {0, 6} -> 0 [] angle % 12 \in {2, 4} -> 1 [] angle % 12 = 3 -> 2
    [] angle % 12 \in {8, 10} -> -1 [] angle % 12 = 9 -> -2
RotationVectorToQuaternion(axis, angle) ==
  <<HalfAngleCosine(angle)>> \o Times(HalfAngleSine(angle), axis)
=============================================================================
