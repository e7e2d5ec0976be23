-------------------------- MODULE CoupledInterfaces --------------------------
(***************************************************************************)
(* The three interfaces a coupled solver drives kynema-fmb through:        *)
(* interfaces/cfd, interfaces/turbine and interfaces/blade, for a dynamic  *)
(* solve.  Each keeps the State on the device, a saved State, copies of    *)
(* the motion on the host, and what it hands its caller: the motion of the *)
(* nodes and, for the turbine, constraint loads and outputs for the        *)
(* controller.                                                             *)
(*                                                                         *)
(* The content of a field is abstracted to the inputs of the accepted      *)
(* steps it results from; Broken is a content that no such steps lead to:  *)
(* an iterate, a NaN, or what was computed from fields that do not belong  *)
(* together.                                                               *)
(***************************************************************************)
EXTENDS Naturals, Sequences

CONSTANTS Kinds,       \* the interfaces that are looked at
          Builds,      \* values of aliased that are looked at
          Loads,       \* the inputs a step can be given
          Broken,      \* see above
          Unset,       \* uninitialised host memory
          Unreadable,  \* a restart file that is missing or empty
          MaxSteps,    \* bound: accepted steps from the initial state
          MaxTime,     \* bound: steps counted by an index, for each interface
          Cuts         \* bound: how many fields of a damaged file are whole

VARIABLES kind,        \* which interface this is
          aliased,     \* whether the host copies are the State's own memory
          state,       \* fields of State on the device
          time_step,   \* State::time_step
          state_save,  \* fields of the saved State
          save_time,   \* its time_step
          host_state,  \* the copies of the motion on the host
          nodes,       \* the motion the caller sees
          host_output, \* constraints.host_output: azimuth and rotor speed
          reaction,    \* the constraint loads the caller sees
          current_timestep, \* the index of the CFD interface
          rows,        \* output file: the content written at each index
          file,        \* fields of the restart file
          returned     \* what the last call was or returned

vars == <<kind, aliased, state, time_step, state_save, save_time, host_state, nodes,
          host_output, reaction, current_timestep, rows, file, returned>>

\* q_prev, q_delta and tangent are overwritten before a step reads them.  x0,
\* the reference positions, is intact (<< >>) or Broken; x is q applied to it.
Fields       == {"x0", "x", "q", "v", "vd", "a", "f"}
MotionFields == {"x", "q", "v", "vd"}

\* The fields a dynamic step starts from.  The loads are among them where the
\* CFD interface sets those of the platform in the State's own memory and
\* leaves the other nodes' as they are; elsewhere all of them are set anew.
LiveFields == {"q", "v", "vd", "a"} \cup IF kind = "cfd" /\ aliased THEN {"f"} ELSE {}

Histories == UNION {[1..n -> Loads] : n \in 0..MaxSteps}
Contents  == Histories \cup {Broken}

ASSUME InterfaceAssumption ==
    /\ Kinds \subseteq {"cfd", "turbine", "blade"}
    /\ Builds \subseteq BOOLEAN
    /\ MaxSteps \in Nat
    /\ MaxTime \in [Kinds -> Nat]
    /\ Cuts \subseteq 0..6
    /\ Broken \notin Histories
    /\ Unset \notin Contents
    /\ Unreadable \notin [Fields -> Contents]
    /\ Unreadable \notin [at : Contents, placed : BOOLEAN, anchored : BOOLEAN]

Motion(s) == [c \in MotionFields |-> s[c]]
All(content) == [c \in Fields |-> content]

\* The point a State is at: the fields a step starts from belong together.
Point(s) == IF \A c \in LiveFields : s[c] = s["q"] THEN s["q"] ELSE Broken

Extend(p, l) == IF p = Broken THEN Broken ELSE Append(p, l)

\* Positions at point p, given the reference positions.
Placed(p, reference) == IF reference = Broken THEN Broken ELSE p

\* The constructor, up to reading a checkpoint: the snapshot is cloned and the
\* host copies are refreshed; nothing sets host_output.
Constructed ==
    /\ state = All(<< >>) /\ time_step = 0
    /\ state_save = All(<< >>) /\ save_time = 0
    /\ host_state = Motion(All(<< >>)) /\ nodes = Motion(All(<< >>))
    /\ host_output = Unset
    /\ reaction = << >>
    /\ current_timestep = 0
    /\ rows = << >>
    /\ returned = "start"

\* HostState is made of mirror views: of memory of its own where the State is
\* on a device, and of the State's own memory where that is the host's.
Init == kind \in Kinds /\ aliased \in Builds /\ Constructed /\ file = Unreadable

-----------------------------------------------------------------------------
(* Step. *)

\* What the solve starts from: the blade interface hands it the velocities its
\* caller sees.
Started == IF kind = "blade" THEN [state EXCEPT !["v"] = nodes["v"]] ELSE state

\* The fields after a solve that led to p: positions are computed from the
\* reference positions, which no step changes.
Solved(p) ==
    [c \in Fields |-> CASE c = "x0" -> state["x0"]
                       [] c = "x"  -> Placed(p, state["x0"])
                       [] OTHER    -> p]

\* The constraint outputs of a converged step are computed from its positions.
Converged_OutputBefore(l) ==
    /\ state' = Solved(Extend(Point(Started), l))
    /\ host_output' = state["x"]
Converged(l) ==
    /\ state' = Solved(Extend(Point(Started), l))
    /\ host_output' = state'["x"]

\* Fields of the last iterate; positions and outputs are not published.
RanOut ==
    /\ state' = [c \in Fields |-> IF c \in {"x0", "x"} THEN state[c] ELSE Broken]
    /\ UNCHANGED host_output

\* The loop ends as if converged and publishes NaN before false is returned.
TurnedNaN ==
    /\ state' = Solved(Broken)
    /\ host_output' = Broken

\* Copies of the state on the host, and the nodes from them.
Refresh_HostOnly == host_state' = Motion(state') /\ UNCHANGED nodes
Refresh == host_state' = Motion(state') /\ nodes' = host_state'

\* A row of the output file: the motion on the host at an index.
Written(index) ==
    [i \in DOMAIN rows \cup {index} |-> IF i = index THEN host_state'["q"] ELSE rows[i]]

\* What a converged step hands out besides the motion.  The turbine's rows are
\* written by a call of their own and are left out here.
Publish ==
    /\ reaction' = IF kind = "turbine" THEN state'["q"] ELSE reaction
    /\ rows' = CASE kind = "cfd"     -> Written(current_timestep)
                 [] kind = "blade"   -> Written(time_step')
                 [] kind = "turbine" -> rows
    /\ current_timestep' = IF kind = "cfd" THEN current_timestep + 1 ELSE current_timestep

StepSucceeds(l) ==
    /\ Converged(l)
    /\ Refresh
    /\ Publish
    /\ returned' = "true"

\* The interface returns before anything is refreshed; the blade interface has
\* by then written the caller's velocities to its host copy.  Host copies that
\* are the State's own memory show what the solve left there; the motion of the
\* nodes is the caller's in either case.
StepFails ==
    /\ RanOut \/ TurnedNaN
    /\ host_state' = CASE aliased                     -> Motion(state')
                       [] ~aliased /\ kind = "blade" -> [host_state EXCEPT !["v"] = nodes["v"]]
                       [] OTHER                       -> host_state
    /\ UNCHANGED <<nodes, reaction, rows, current_timestep>>
    /\ returned' = "false"

\* The index is advanced before the outcome of the solve is known.
Step(l) ==
    /\ Point(Started) # Broken => Len(Point(Started)) < MaxSteps
    /\ time_step < MaxTime[kind]
    /\ current_timestep < MaxTime[kind]
    /\ time_step' = time_step + 1
    /\ StepSucceeds(l) \/ StepFails
    /\ UNCHANGED <<kind, aliased, state_save, save_time, file>>

-----------------------------------------------------------------------------
(* Snapshot. *)

\* CopyStateData: the index and all fields but the reference positions, which
\* it takes to be the same in both.
CopiedFields_NoA(old, copy) == [old EXCEPT !["x0"] = copy["x0"], !["a"] = copy["a"]]
CopiedFields(old, copy) == [old EXCEPT !["x0"] = copy["x0"]]
CopiedTime_Kept(old, copy) == copy
CopiedTime(old, copy) == old

SaveState ==
    /\ state_save' = CopiedFields(state, state_save)
    /\ save_time' = CopiedTime(time_step, save_time)
    /\ UNCHANGED <<kind, aliased, state, time_step, host_state, nodes, host_output, reaction,
                   current_timestep, rows, file, returned>>

RestoreState ==
    /\ state' = CopiedFields(state_save, state)
    /\ time_step' = CopiedTime(save_time, time_step)
    /\ Refresh
    /\ returned' = "restored"
    /\ UNCHANGED <<kind, aliased, state_save, save_time, host_output, reaction,
                   current_timestep, rows, file>>

-----------------------------------------------------------------------------
(* Restart file: the CFD interface's WriteRestart and ReadRestart and the   *)
(* turbine's WriteCheckpointFile and ReadCheckpointFile.                    *)

HasFile == kind \in {"cfd", "turbine"}

\* A file whose end is missing: the first count fields are whole.
WriteOrder == <<"x0", "x", "q", "v", "vd", "a", "f">>
CutShort(count) == [c \in Fields |-> IF \E i \in 1..count : WriteOrder[i] = c
                                     THEN state[c] ELSE Broken]

\* What opening the file for writing and writing to it can end with.  The file
\* stays as it was when it cannot be opened: the turbine's call then throws,
\* the CFD interface's returns as if it had written.  No write is checked, and
\* what was written last may be missing when the device is full.
Incomplete == {file, Unreadable} \cup {CutShort(count) : count \in Cuts}

WriteRestart ==
    /\ HasFile
    /\ file' \in {state} \cup Incomplete
    /\ UNCHANGED <<kind, aliased, state, time_step, state_save, save_time, host_state, nodes,
                   host_output, reaction,
                   current_timestep, rows, returned>>

\* A missing or empty file throws before anything is changed.  The reads of
\* what is missing in a file cut short are not checked: the field gets what
\* the buffer held.  The reference positions are read like the others.
ReadRestart ==
    /\ HasFile
    /\ file # Unreadable
    /\ state' = file
    /\ Refresh
    /\ returned' = "read"
    /\ UNCHANGED <<kind, aliased, time_step, state_save, save_time, host_output, reaction,
                   current_timestep, rows, file>>

\* A process ends and another constructs its interface.
Restarted ==
    /\ state' = All(<< >>) /\ time_step' = 0
    /\ state_save' = All(<< >>) /\ save_time' = 0
    /\ host_state' = Motion(All(<< >>)) /\ nodes' = Motion(All(<< >>))
    /\ host_output' = Unset
    /\ reaction' = << >>
    /\ current_timestep' = 0
    /\ rows' = << >>
    /\ returned' = "start"
    /\ UNCHANGED <<kind, aliased>>

NewRun == Restarted /\ UNCHANGED file

\* The old process ended while it was writing.
CrashWhileWriting ==
    /\ HasFile
    /\ file' \in Incomplete
    /\ Restarted

-----------------------------------------------------------------------------
(* What ApplyController, called now, shows the controller: azimuth and rotor *)
(* speed from host_output, root moments from the constraint loads, turned by *)
(* the positions of the nodes.                                               *)
ControllerInput == [azimuth |-> host_output, moments |-> reaction, position |-> nodes["x"]]

Next ==
    \/ \E l \in Loads : Step(l)
    \/ SaveState
    \/ RestoreState
    \/ WriteRestart
    \/ ReadRestart
    \/ NewRun
    \/ CrashWhileWriting

Spec == Init /\ [][Next]_vars

-----------------------------------------------------------------------------
(* Properties. *)

Returns == {"start", "true", "false", "restored", "read"}

\* Every variable has its type.
TypeOK ==
    /\ kind \in Kinds
    /\ aliased \in Builds
    /\ state \in [Fields -> Contents]
    /\ state_save \in [Fields -> Contents]
    /\ file \in [Fields -> Contents] \cup {Unreadable}
    /\ host_state \in [MotionFields -> Contents]
    /\ nodes \in [MotionFields -> Contents]
    /\ {time_step, save_time, current_timestep} \subseteq 0..MaxTime[kind]
    /\ host_output \in Contents \cup {Unset}
    /\ reaction \in Contents
    /\ DOMAIN rows \subseteq 0..MaxTime[kind]
    /\ \A i \in DOMAIN rows : rows[i] \in Contents
    /\ returned \in Returns

\* Unless the last call was a step that failed, the state on the device, the
\* copies on the host and the motion the caller sees are of one point.  After a
\* failed step the copies, which the aerodynamics and the outputs read, agree
\* with the nodes where they have memory of their own, and with the State,
\* iterate or NaN, where they share its memory.
MotionMatchesState ==
    /\ host_state = IF aliased THEN Motion(state) ELSE nodes
    /\ returned # "false" => nodes = Motion(state)

\* A controller that is called after a step that converged is shown azimuth,
\* root moments and positions of that step, whatever was tried, failed and
\* taken back before it, as long as no damaged file has been read into the
\* reference positions.
FeedbackIsOfOneStep ==
    kind = "turbine" /\ returned = "true" /\ state["x0"] # Broken =>
        ControllerInput = [azimuth |-> state["q"], moments |-> state["q"], position |-> state["q"]]

\* While the blade's simulation is at a point, its output file holds the steps
\* that led there, each at its index: a repeated step replaces the row of the
\* step it repeats, and no row of a discarded trial is left among them.
RowsFollowPath ==
    kind = "blade" /\ Point(state) # Broken =>
        /\ time_step = Len(Point(state))
        /\ \A i \in 1..time_step :
              i \in DOMAIN rows /\ rows[i] = SubSeq(Point(state), 1, i)

\* What the promise says of a State: the point it is at, whether its positions
\* are those of that point, and whether its reference positions are intact.
Situation(s) ==
    [at       |-> Point(s),
     placed   |-> Point(s) # Broken /\ s["x"] = Point(s),
     anchored |-> s["x0"] # Broken]

\* The interface keeps the promise of an abstract simulation that can be
\* advanced, marked, taken back, stored and loaded, with its motion and its
\* positions shown to the caller.
Promise == INSTANCE CouplingPromise
    WITH here     <- Situation(state),
         mark     <- Situation(state_save),
         stored   <- IF file = Unreadable THEN Unreadable ELSE Situation(file),
         motion   <- nodes["q"],
         position <- nodes["x"]
KeepsCouplingPromise == Promise!Spec
=============================================================================
