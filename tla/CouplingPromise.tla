--------------------------- MODULE CouplingPromise ---------------------------
(***************************************************************************)
(* What a coupled interface promises the solver that drives it.  The       *)
(* simulation is at a point: the inputs of the steps that led there.  It   *)
(* can be marked and taken back to the mark for a correction step, and it  *)
(* can be stored in a file that outlives the process.  A step that fails   *)
(* loses the point, but neither the mark, nor the file, nor what the       *)
(* caller sees.                                                            *)
(*                                                                         *)
(* A write may leave the file as it was or damage it, and does not tell.   *)
(* Loading a damaged file loses the point, which returning to the mark     *)
(* finds again, and may take away the reference positions, which only      *)
(* loading an undamaged file brings back: until then a step leads to the   *)
(* right motion at wrong positions.                                        *)
(***************************************************************************)
EXTENDS Naturals, Sequences

CONSTANTS Loads,      \* the inputs a step can be given
          Broken,     \* a point no sequence of accepted steps leads to
          Unreadable  \* a file that is missing or empty

\* A situation is a record: at, a point; placed, whether its positions are those
\* of that point; anchored, whether the reference positions are intact.
VARIABLES here,     \* the situation of the simulation
          mark,     \* where RestoreState takes it
          stored,   \* where reading the file takes it
          motion,   \* the point the caller sees the motion of
          position  \* the point the caller sees the positions of

vars == <<here, mark, stored, motion, position>>

Start == [at |-> << >>, placed |-> TRUE, anchored |-> TRUE]

\* The caller sees the point of s and, if s is placed, its positions; where the
\* simulation is lost it may see anything.
Shows(s) ==
    /\ s.at # Broken => motion' = s.at
    /\ s.placed => position' = s.at

Extend(p, l) == IF p = Broken THEN Broken ELSE Append(p, l)

\* Neither direction of a copy carries the reference positions.
Copied(from, to) == [from EXCEPT !.anchored = to.anchored]

\* What a file may hold after it was to be written.
Damaged == {[at |-> Broken, placed |-> FALSE, anchored |-> a] : a \in {FALSE, here.anchored}}
Written == {stored, here, Unreadable} \cup Damaged

InitRun == here = Start /\ mark = Start /\ motion = << >> /\ position = << >>

Init == InitRun /\ stored = Unreadable

\* A step converges: the caller sees where it led.
Advance(l) ==
    /\ here' = [at       |-> Extend(here.at, l),
                placed   |-> here.at # Broken /\ here.anchored,
                anchored |-> here.anchored]
    /\ Shows(here')
    /\ UNCHANGED <<mark, stored>>

Fail ==
    /\ here' = [at |-> Broken, placed |-> FALSE, anchored |-> here.anchored]
    /\ UNCHANGED <<mark, stored, motion, position>>

Mark ==
    /\ mark' = Copied(here, mark)
    /\ UNCHANGED <<here, stored, motion, position>>

Return ==
    /\ here' = Copied(mark, here)
    /\ Shows(here')
    /\ UNCHANGED <<mark, stored>>

Store ==
    /\ stored' \in Written
    /\ UNCHANGED <<here, mark, motion, position>>

Load ==
    /\ stored # Unreadable
    /\ here' = stored
    /\ Shows(stored)
    /\ UNCHANGED <<mark, stored>>

\* The process ends and another one begins; the file stays as it was, unless
\* the old process was writing it.
Restart ==
    /\ here' = Start /\ mark' = Start /\ motion' = << >> /\ position' = << >>
    /\ stored' \in Written

Next == (\E l \in Loads : Advance(l)) \/ Fail \/ Mark \/ Return \/ Store \/ Load \/ Restart

Spec == Init /\ [][Next]_vars
=============================================================================
