---------------------------- MODULE LoadPromise ----------------------------
(***************************************************************************)
(* What Step of src/src/step/step.hpp promises its caller, without how: a  *)
(* call works towards equilibrium under the loads it was given, the state  *)
(* it will hand back is only ever replaced by one that holds more of them, *)
(* and it returns true exactly when that state holds them all, up to the   *)
(* tolerance on the load factor.                                           *)
(***************************************************************************)
EXTENDS Integers

CONSTANT InvTol   \* inverse of that tolerance

VARIABLES
  busy,     \* a call is under way
  shown,    \* what the caller would get back now: [q, f]
  goal,     \* the loads the call was given
  held,     \* shown holds a part of them, found by this call
  result

vars == <<busy, shown, goal, held, result>>

\* f is a smaller part of the same loads than g.
Less(f, g) == f.id = g.id /\ f.num * g.den < g.num * f.den

\* f is all of g, or falls short of it by less than the tolerance.
All(f, g) ==
  /\ f.id = g.id
  /\ f.num * g.den <= g.num * f.den
  /\ (g.num * f.den - f.num * g.den) * InvTol < g.num * f.den

Holds(s) == s.q = [kind |-> "equilibrium", load |-> s.f]

Init ==
  /\ busy = FALSE
  /\ shown.q.kind = "initial"
  /\ goal = shown.f
  /\ held = FALSE
  /\ result = "none"

\* The caller changes the loads between two calls.
SetLoads ==
  /\ ~busy
  /\ shown'.q = shown.q
  /\ result' = "none"
  /\ UNCHANGED <<busy, goal, held>>

\* A call that is allowed no attempt returns at once.
Begin ==
  /\ ~busy
  /\ goal' = shown.f
  /\ held' = FALSE
  /\ \/ busy' = TRUE /\ result' = "none"
     \/ busy' = FALSE /\ result' = "false"
  /\ UNCHANGED shown

\* What replaces the state is in equilibrium and holds more than before.
Climb ==
  /\ busy
  /\ Holds(shown')
  /\ held => Less(shown.f, shown'.f)
  /\ UNCHANGED goal

HoldMore ==
  /\ Climb
  /\ Less(shown'.f, goal) /\ ~All(shown'.f, goal)
  /\ held' = TRUE
  /\ \/ busy' = TRUE /\ result' = "none"
     \/ busy' = FALSE /\ result' = "false"

HoldAll ==
  /\ Climb
  /\ All(shown'.f, goal)
  /\ busy' = FALSE
  /\ result' = "true"
  /\ UNCHANGED held

GiveUp ==
  /\ busy
  /\ busy' = FALSE
  /\ result' = "false"
  /\ UNCHANGED <<shown, goal, held>>

\* A dynamic step: true means equilibrium under the loads, which are kept.
SolveOnce ==
  /\ ~busy
  /\ goal' = shown.f
  /\ shown'.f = shown.f
  /\ result' \in {"true", "false"}
  /\ result' = "true" => Holds(shown')
  /\ UNCHANGED <<busy, held>>

Next == SetLoads \/ Begin \/ HoldMore \/ HoldAll \/ GiveUp \/ SolveOnce

Spec == Init /\ [][Next]_vars
============================================================================
