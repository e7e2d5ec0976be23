---------------------------- MODULE OutputStore ----------------------------
(***************************************************************************)
(* What a buffering writer of simulation output promises: a stored value   *)
(* is only ever replaced by the one accepted last for its place, and when  *)
(* a closing call returns normally everything accepted is stored.          *)
(***************************************************************************)
CONSTANTS
  Keys,    \* the places of the file: variable and timestep
  Values,
  Missing  \* what a place holds that was never written

VARIABLES
  accepted,  \* the value last accepted for every place
  stored,    \* what the file holds
  settled    \* the last call promised that all is stored

vars == <<accepted, stored, settled>>

Contents == [Keys -> Values \cup {Missing}]

Init ==
  /\ accepted = [k \in Keys |-> Missing]
  /\ stored = accepted
  /\ settled = FALSE

\* Any part of what is accepted may reach the file at any time.
SomeStored(contents) ==
  /\ stored' \in Contents
  /\ \A k \in Keys : stored'[k] \in {stored[k], contents[k]}

Accept(k, v) ==
  /\ accepted' = [accepted EXCEPT ![k] = v]
  /\ SomeStored(accepted')
  /\ settled' = FALSE

Persist ==
  /\ SomeStored(accepted)
  /\ settled' = FALSE
  /\ UNCHANGED accepted

Settle ==
  /\ stored' = accepted
  /\ settled' = TRUE
  /\ UNCHANGED accepted

Next ==
  \/ \E k \in Keys, v \in Values : Accept(k, v)
  \/ Persist
  \/ Settle

Spec == Init /\ [][Next]_vars
============================================================================
