# TLA+ models and proofs for kynema-fmb

kynema-fmb is a flexible multibody solver in C++ on top of Kokkos. This
directory holds TLA+ modules that model its control flow and bookkeeping, TLC
configurations that check them on small instances, and TLAPS proofs of the
properties that matter most. Paths below are relative to the repository
checkout, whose sources are under `src/src/`.

Most modules abstract numbers to where they come from: they ask whether the
right quantities, computed at the right iterate, are combined in the right
place and in the right order, and what is left behind when something fails.
Whether the generalized-alpha scheme is accurate is not a question of theirs.
Where formulas are written twice and must agree (residuals and gradients of
constraints, motion and loads of aerodynamic sections), the modules compute,
with rotations of the cube, for which all numbers are exact.

## Inventory

| Part | State it keeps | Operations | Behaviour that is hard |
|---|---|---|---|
| Nonlinear solve, `step/step.hpp` | `State` (q, q_delta, v, vd, a, x, f, tangent, time_step), `Solver` (A, b, x, convergence_err), element and constraint buffers, `lambda`, `host_output` | `SolveStep` and its thirteen phases, `ExtractSystemMatrices` | A and b are accumulated into across phases; two entry points share the storage; a NaN ends the loop; an early return leaves half of the results |
| Load reduction, `step/step.hpp` | snapshot, load factors, retries | `Step` | a sequence of successes and failures decides which snapshot and which factor come next |
| Degree-of-freedom numbering, `dof_management/` | allocation table, map table, element and constraint freedom tables | four functions in order | device threads merge into shared nodes; uninitialized memory; a shifted scan |
| Matrix structure, `solver/` | row pointers, column indices | `CreateFullMatrix`, `Solver::Solver` | one kernel counts, another fills; uninitialized columns |
| Assembly kernels, `solver/contribute_*`, `copy_*` | A.values, b | one kernel per contribution | blocks are found by their first column |
| Constraints, `constraints/` | types, signatures, row ranges, axes, inputs, `lambda`, residual and gradient views, `output`, `host_output` | constructor, `UpdateViews`, residual and gradient kernels, `UpdateLambdaPrediction` | every type writes some of the shared views, none of which is initialized; residual and gradient are separate formulas; 3- and 6-DOF nodes mix |
| Elements, `elements/` | connectivity, signatures, quadrature data | builders | three kinds are concatenated into one numbering |
| Beam quadrature kernel, `system/beams/` | team scratch memory, element results | `CalculateQuadraturePointValues`, one team per element | threads of a team share scratch memory under three barriers; the last vector of a row is padded; scratch memory is not cleared |
| Linear solver handles, `solver/linear_solver/` | symbolic and numeric factors of nine libraries | symbolic, numeric, solve | statuses ignored, objects replaced without release |
| Snapshots and restart files, `state/` | a second `State`, a binary file | `CloneState`, `CopyStateData`, write, read | what a copy leaves out; truncated files |
| Interfaces, `interfaces/{cfd,turbine,blade}` | host copies, turbine motion and loads, saved state, timestep | `Step`, `SaveState`, `RestoreState`, restart, outputs, controller | a coupled solver repeats steps; host and device copies; values outside the snapshot |
| Turbine, `interfaces/components/turbine.cpp`, `beam.cpp` | node ids, constraints, control variables | constructor, `GetMotion`, `GetLoads`, `SetLoads` | ten parts tied by constraints on overlapping lists of ids; references into growing vectors; the order of the initial motions |
| Aerodynamics, `interfaces/components/aerodynamics.*` | bodies: weights, motion and loads of sections | `CalculateMotion`, `CalculateAerodynamicLoads`, `SetAerodynamicLoads`, `CalculateNodalLoads`, `AddNodalLoadsToState` | one flat matrix of weights used in both directions; arms with two signs in two frames |
| Time series of a turbine, `interfaces/turbine/turbine_interface.cpp` | channel names, offsets, one row | `BuildTimeSeriesSchema`, `WriteTimeSeriesData` | offsets and strides are kept apart from the names |
| Controller and DISCON, `interfaces/components/controller.cpp`, `utilities/controllers/discon.cpp` | swap array, static internal state | `CallController`, `DISCON` | state shared by all controllers; repeated times after a restore; calls that throw |
| Writers, `utilities/netcdf/` | file handle, row buffer, component buffers | write, flush, close, open, destroy | flushes fail half way and are retried; reuse of a flushed buffer |
| Outputs, `interfaces/outputs.cpp` | the two writers | write, close, open | a call is several writes, each of which may throw |
| Model builder, `model/` | lists of nodes, elements, constraints | add, create, import, export | references into growing vectors |
| Math, `math/` | none | rotations, quadratures, interpolation | order of factors, signs and transpositions |
| Mass, spring and prediction kernels, viz, vendor | numeric data | pure computation | numeric only |

How they interact. `Model` builds `State`, `Elements` and `Constraints`;
`CreateSolver` numbers the degrees of freedom, builds the matrix structure and
runs the symbolic factorization. A step reads loads from the `State`, runs the
Newton loop on the shared element and constraint buffers, and publishes
positions and constraint outputs. The interfaces copy loads in and motion out,
keep one snapshot for a coupled solver that repeats steps, call a controller
between steps, and hand host copies to the writers. Device kernels run in
order on one execution space; only threads inside a kernel are concurrent.

What makes each part correct is stated as properties below; `PROJECT.json`
lists every hazard at its line with the properties that cover it.

## Modules

| Module | Models | Abstraction |
|---|---|---|
| `SolveStep` | `SolveStep` and `ExtractSystemMatrices`, one action per phase | the iterate is a version number; A and b are the sets of terms added since they were zeroed, each tagged with the version and parameters it was computed at |
| `SolveStep_proofs` | inductive invariant and proofs | |
| `LoadStepping` | `Step`, with the solve as one action of three outcomes; the mapping to `LoadPromise` | content of the state is initial, an equilibrium under some loads, an iterate, or NaN; load factors are exact fractions |
| `LoadPromise` | what `Step` promises its caller | the loads held in equilibrium, as a fraction of the loads asked for |
| `LoadStepping_proofs` | inductive invariant, proofs, refinement | |
| `FreedomTables` | `dof_management/`, `ComputeNumSystemDofs` | a signature is a set of blocks of `Block` components |
| `SparsityPattern` | `CreateFullMatrix`, extends `FreedomTables`; and where assembly writes | columns are numbers; values are left out |
| `SparsityPattern_proofs` | inductive invariants and proofs, of `FreedomTables` too | |
| `CoupledInterfaces` | the interfaces of `interfaces/{cfd,turbine,blade}`, snapshots and restart files | a field holds the inputs of the accepted steps it results from, or `Broken` |
| `CouplingPromise` | what an interface promises a coupled solver | |
| `MCCoupledInterfaces` | `CoupledInterfaces` with two inputs that may be exchanged (symmetry) | |
| `CoupledInterfaces_proofs` | inductive invariant, proofs, refinement | |
| `BeamTeam` | a team of `calculate_quadrature_point_values.hpp` and the functors it runs | a location holds the element its value was computed for |
| `MCBeamTeam` | `BeamTeam` with three elements | |
| `BeamTeam_proofs` | inductive invariant and proofs | |
| `TimeSeriesWriter` | `time_series_writer.cpp` | a row is one value, all rows differ |
| `NodeStateWriter` | `node_state_writer.cpp` | the variables of a component are one value |
| `OutputStore` | what a buffering writer promises | |
| `Outputs` | `interfaces/outputs.cpp`, composes `NodeStateWriter` and `TimeSeriesWriter` | |
| `MCOutputs` | `Outputs` with two components | |
| `Outputs_proofs` | inductive invariant, proofs, refinement | |
| `Kinematics` | the rotations of `math/` | doubled quaternions, the 24 Hurwitz units |
| `ConstraintKernels` | a constraint from its constructor to the assembly | one constraint, its nodes moved freely |
| `MCConstraintKernels` | rotations, offsets and axes that are tried | |
| `TurbineAssembly` | `Model` as the constructor of `Turbine` uses it | a position is the list of motions it came about by |
| `TurbineInterface` | extends `TurbineAssembly`: aerodynamic bodies, time series, loads | positions in quarters of a beam, weights in eighths; a row holds names of quantities |
| `TurbineInterface_proofs` | inductive invariants and proofs, of `TurbineAssembly` too | |
| `MCTurbineInterface` | the airfoil maps and sections that are tried | |
| `TurbineControl` | `Controller`, `DISCON` and the calls of `TurbineInterface`, for several turbines | integers for times, angles, speeds and torques |
| `MCTurbineControl` | the configurations that are tried | |
| `TurbineControl_proofs` | inductive invariant and proofs | |

A definition whose name ends in an underscore and a word, such as
`Scan_Exclusive`, is a seeded fault: a form the code might wrongly have had. No
specification uses it. Each checked property has one that violates it, which
shows that the property can fail.

### SolveStep

The program counter `pc` names the phase about to run. `q` stands for q, q_delta,
v and vd, which are always updated together. `lam` counts the updates added to
`lambda` since `ResetConstraints` zeroed it. An element kind contributes a term
to A tagged with the version its buffers were computed at and the pass whose
parameters it was computed with (springs take no parameters); constraint
gradients carry the flag `include_tangent`. `SolveSystem` chooses the error:
`large` (above one), `small` or `nan`. `AcceptStep` runs for both of the last two,
as the loop condition `err > 1.` does. `ExtractSystemMatrices` shares everything
with the solve. Its passes go through the same phases as an iteration (`ExtractReset`,
`ExtractElements`, `ExtractAssembleElements`, for the constraints `ExtractGradients`
and `ExtractAssembleGradients`, then `ExtractCopy`), and A is emptied by `ExtractReset`
only: what a forgotten reset would leave there is what `ExtractedMatricesArePure`
looks for. The two calls alternate in any order. `Distance` is the number of phases
a call has left at most; `EveryCallCountsDown` says that each step makes it
smaller, so that every call returns is a safety property and no fairness is assumed.

### LoadStepping

The code bisects a double. The model keeps `low`, `cur`, `high` over a common
denominator `den` that doubles when an attempt fails, so the arithmetic is exact:
halving a double is exact for as many halvings as the code makes. The tolerance
1e-10 is `1 / InvTol`. `entry` is the state the call found; it is a ghost but for
`entry.f`, which is `loads_baseline`. `commits` is a ghost that counts converged
attempts.

### FreedomTables and SparsityPattern

Every mesh of the given size is an initial state: any element kinds on any
distinct nodes, numbered beams first, then masses, then springs, and any
constraints of the types in `UsedTypes`. Merges are interleaved one `atomic_or`
at a time; a kernel starts when the one before has ended. `SparsityPattern` goes
on where the numbering ends: row lengths, row pointers, then the filling
threads in any order into uninitialized columns, then the sort. Assembly has no
state of its own here: the operators `ElementTermsLand`, `GradientTermsLand` and
`TransposeTermsLand` say where its kernels write.

### CoupledInterfaces

The three interfaces do the same with small differences, so one module holds
all of them and `kind` says which one it is; an action branches on `kind` where
the code differs. All three are modelled for a dynamic solve; the static one is
`LoadStepping`. A step is one action with the outcomes of `SolveStep`: it
converges, it runs out of iterations and leaves the last iterate in the fields a
step starts from (`LiveFields`), or it turns NaN and publishes that too. The
inputs of a step (loads, aerodynamic loads, control signals, prescribed
displacements) are one value `l`; a field of the state is the sequence of these
values, since a step depends on nothing else: `q_prev`, `q_delta`, `tangent` and
`lambda` are overwritten before they are read, and so is `f`, except where the CFD
interface sets the loads of the platform in the State's own memory and leaves
those of the other nodes. A step that starts from fields of
different points gives `Broken`. `x0`, the reference positions, is whole or `Broken`; a
step computes the positions from it (`Placed`) and never changes it.

`aliased` tells the builds apart: `HostState` is made of mirror views, which are
the State's own memory when that is the host's, and memory of their own
otherwise. After a failed step the host copies therefore show the iterate or NaN
on the one and the step before on the other, while the nodes keep the motion of the
step before on both (`StepFails`, `MotionMatchesState`). The blade interface replaces the velocities on
the device by those its caller sees (`Started`), which are assumed to be the ones
the interface handed out.

A restart file holds fields, `x0` first. A process can end while it writes one
(`CrashWhileWriting`), and a call that writes one can fail: the CFD interface
checks neither that the file opened nor that it was written, the turbine only that
it opened, so the file may be as before, empty or cut short afterwards
(`Incomplete`). What is missing is read as `Broken`, because the reader
leaves its buffer as it was. A file cut short within `x0` leaves reference positions
that `RestoreState` does not bring back, since `CopyStateData` copies all fields
but that one. `CouplingPromise` says so: the mark keeps the point of the
simulation, but positions are of that point only while the reference positions
are intact (`placed`, `anchored`), and these come back with an undamaged file only. `returned` is what the caller knows of the last call.
`ControllerInput` is what `ApplyController` would show the controller now.

### BeamTeam

A stage is one `Kokkos::parallel_for` over the team (or one copy into scratch
memory), an item one index of its range with everything its functor does. The
backend deals items to threads in turn, which is how Kokkos' static schedule
with chunk one does it; `next` is the item a thread takes. A thread passes a
stage without a barrier at once; it enters the stages in `Barriers` when all
have reached them. `Effects` lists what each functor writes and what it reads
to do so; the arithmetic is left out, so `NothingStale` says that all operands
are values of the present element, not that the formula is right. `mem` is kept
from one element to the next, as scratch memory is. The block of a matrix stage
has one item per row and vector of columns; only the lanes `NumLanes` counts
are stored.

### The writers and Outputs

A value is the number of the write it came from, so a row in the wrong place is
recognized. A call that throws is a step that sets `threw` and has the effects
the code has had by then. An exception out of a destructor terminates the
program. Retrying, closing, reopening and destroying come in any order.

`Outputs` holds an instance of each writer. `pending` is the set of writes a call
of `WriteOutput` has left; `Due` is the next of them, in the order of the
components, the row of the time series last (`Writes`). The first that throws ends
the call, as an exception does. `Close` leaves the time series open when the node-state
writer throws. The accessors that hand the writers out make direct use of them
possible, so those calls are steps as well.

### ConstraintKernels and Kinematics

One constraint of any type runs through `Construct`, `ResetConstraints`, and per
iteration `Iterate` (the solve moved nodes and multipliers), `UpdateConstraintVariables` (`UpdateViews` and the kernel of
the type) and `Assemble` (what the assembly kernels read, by the numbers of rows
and active freedoms). All views start as `Garbage`. The kernels are translated
formula by formula. `ConstraintFunction` states what the constraint is with
rotation matrices and node positions instead, without quaternions and
displacements; it is linear in the pose of each node, so a difference is its
derivative, and the gradient can be compared exactly. The tangent operator is
some matrix without symmetry.

### TurbineAssembly and TurbineInterface

`TurbineAssembly` runs the constructor of `Turbine` statement group by statement
group, from `CreateBlade` to `SetInitialRotorVelocity`. It computes no coordinates: a
reference position is a point and the motions it was given, in order, and two
positions are equal when they came about alike. Nodes are in one vector whose storage moves
when it grows (`Capacity`); reading through a reference taken before that
gives either position or a stray one.

`TurbineInterface` goes on with the constructor of `TurbineInterface`, then takes one of two ways: it builds the schema
and writes a row, or it updates aerodynamic loads and steps. `index` is derived
from the list of groups as `index_map_` is while channels are added. A step adds
loads the caller set (`SetLoads`) and those of the bodies; the motion after it is any.

### TurbineControl

`disc` is the static `InternalState`; `turbines` holds, for each turbine, whether
its controller was built, the outputs and commands of the controller, and the controls in force.
A call is one action: copy in, the control laws, copy out, error, commands,
controls. `ApplyController` may come at any time value, also an earlier one,
since a coupled solver repeats steps. The low-pass filter may end anywhere
between the old and the measured speed. A quotient by zero elapsed time is an infinity,
which the rate limit cuts, or NaN, which is kept. Pitch angles and torques go through the
floats of the swap array (`Float`): they are rounded to multiples of a unit, `PitchUlp`
and `TorqueUlp`, both ways, as `CopyToSwapArray` and `CopyFromSwapArray` do.

With `read_checkpoint` the constructor of the controller sets status -9
(`StartStatus`). The first call then runs neither the set-up nor the control laws
and checks nothing: it replaces static state by the numbers of a file
(`UnpackInternalStateFromFile`) and leaves the commands as they were, so zeros, which
`InitializeController` puts in force. A checkpoint is written without anything between
its numbers, so what is read is not what was written: the numbers are any
(`Checkpoints`), and the read ends early or the file does not open (`FieldsRead`).
From then on these numbers are in what DISCON commands to whatever turbine calls
it, until the first call of some turbine sets the state anew. The history variable
`unpacked` and the field `unpacked` of a turbine record how far they have come;
`Fresh` turbines are those they have not reached, and `WithinLimits`,
`CommandsAreRateLimited` and `RepeatsChangeNothing` are stated of these: nothing in
the code would bound a number that was read. `FailedControllerStaysOut` is stated for
every start and says what a turbine with an actuator that is refused has in force:
what it was built with or, when its first call was the unchecked one, zero commands.

What is assumed of the numbers is what the compiled constants satisfy:
`ControllerConstants` orders the speeds and pitch angles of the regions and asks
for slopes without a sign and for a float of the largest pitch not below it, as
that of 1.570796 is. `CheckpointsAssumption` types what is read from a file: speeds the
filter can hold, pitch angles without a sign, any other numbers. `InputsAssumption` says which inputs the turbines hand
in. `WithinLimits` bounds the torque from below only for a rotor that does not
turn backwards and as long as time was never taken back: after a rewind the filter
extrapolates, and its speed may be of either sign.

## Runs

| Run | Question | Bounds |
|---|---|---|
| `SolveStep` | does each linear system hold the present iterate's terms and no others; what is published when; does every phase bring a call closer to its return | two iterations, three calls: enough for a loop to converge, to run out, and for either call to follow the other |
| `LoadStepping` | what the snapshot is, what a failure leaves; refinement of `LoadPromise` (true means all of the loads, up to the tolerance) | five retries, two calls; tolerance 1/16, finer than five halvings can come near to full load, as 1e-10 is for the retries a caller asks for |
| `SparsityPattern` | numbering, over all interleavings and meshes; does filling agree with counting; do terms land | three nodes, two elements, one constraint of each type that changes the pattern, blocks of two, so a revolute joint has one row more than blocks |
| `Outputs` | is a row lost or misplaced in the first batch; do rows follow the node outputs; refinement of `OutputStore` under failing flushes | two components, two timesteps, three records and three rows; nothing buffered, both writers buffering two, or the time series alone: batches are full, cut short and empty |
| `BeamTeam` | do threads of a team race; is anything read that is left over, padded or unset; is the result complete | three threads, vectors of two; three elements: the last vector padded, vectors exactly filled after a larger element, and fewer nodes and quadrature points than threads |
| `CoupledInterfaces` | do device, host and caller agree; is a snapshot complete; do rows follow the accepted path; refinement of `CouplingPromise` | two inputs, two accepted steps; three counted steps for the blade interface, whose rows are looked at, two for the others: a trial can be longer than the path that replaces it, and a failure can lie between; both builds; files cut within the first field, before the fields a step starts from, and before the last |
| `ConstraintKernels` | is memory read that was never written; are residual and gradient those of the constraint; do reactions balance | every type; no turn, two third turns that do not commute, a half turn; two shifts; targets at the base, along an axis and askew; hinge axes given and defaulted |
| `TurbineInterface` | is every part held once; does the start satisfy the constraints; are channels where their names are; do nodal loads do the work of section loads | one to three blades, beams of order one and two and an invalid one, nodes before the turbine or none, every option; sections at the ends, in between, more and fewer than nodes |
| `TurbineControl` | limits, rate limits, repeated calls, failed controllers | two turbines with controllers enabled, not enabled, failing or missing, started afresh or from a checkpoint; an interval of two ticks, started at one, and times up to four: calls within an interval, after it, repeated, taken back and past `Horizon`; floats two units apart, so that limits and commands are rounded up, down and not at all; a file with numbers out of range, read whole, in part or not at all: 97,684 states |
| `TimeSeriesWriterReuse` | are later batches faithful | violated, see below |
| `TurbineInitialPitch` | does the initial pitch agree with the command | violated, see below |
| `ConstraintGradient` | is the gradient the derivative everywhere | violated, see below |

The types of the modules with proofs are proved, so no run checks them again.

Deadlock is not checked where the system stops: the bounds on calls and writes
are reached, the solver has been created, the team has taken its last element,
the writer has been destroyed, a constructor has thrown, the row has been written,
or a controller was called past the times it is asked about.

No module assumes fairness. That a call of the solve returns follows from counting down
(`EveryCallCountsDown`). Nothing is claimed of the end of a team: it rests
on Kokkos running all threads of a team together and on barriers that every thread
meets, which the stages being the same for all of them makes true by itself.

## What the runs show the code does otherwise

- `TimeSeriesWriterReuse`: the comment in `FlushBuffer` says the data will be
  overwritten; it is appended to, and the second batch stores the first one again.
  `FirstBatchIsFaithful` is therefore stated up to the first flush.
- `TurbineInitialPitch`: the blades start turned about the axis from apex to root,
  and their constraints hold them turned by the same angle about the axis from
  root to apex. `StartSatisfiesConstraints` is therefore stated for the opposite angle.
- `ConstraintGradient`: the kernels store the angular block of the target gradient
  transposed, as their comment says and the theory manual does not. Both agree where
  the angular residual is zero, which is what `GradientIsExactAtSolutions` states.

Further observations made while modelling. No run asks about them by itself;
where a property leaves something out because of one, it is said here.

Solver and state:

- The comment on `CreateFullMatrix` says the column indices of a row are unique;
  two elements with two nodes in common make columns occur twice, and the
  assembly kernels, which write consecutive offsets, then miss columns.
  `TermsLandInTheirColumn` is stated for meshes without such elements.
- A static `Step` advances `time_step` by one for each attempt it keeps
  (`TimeStepCountsCommits`), so by more than one when it needed the load reduction.
- A checkpoint cut short is read without an error into a state that is of no
  step, and the CFD interface does not notice when a restart file cannot be written.
  The refinement accounts for it: reading such a file loses the point, and the
  reference positions with it when the cut is within `x0`, which a restore does not mend.
- After a failed step, what the host copies show depends on the build (`aliased`).

Constraints and rotations:

- The base block of a revolute joint has no term for an offset between its nodes
  (`OffsetHinge`); the turbine's shaft hinge has none.
- `CalculateAxes` divides by one plus the x component of the axis: an axis along
  -x gives NaN. The run leaves it out (`HasFrame`).
- The angular residual vanishes at half turns as well; `Held` says so.
- `QuaternionInverse` divides by the length and not by its square, which is right
  for rotations only.

Turbine:

- `CreateIntermediateNodes` reads `tower_top_node` after `AddNode` may have moved it.
- Beams with a prescribed root of their own are held twice; nothing refuses them.
- `ValidateInput` of the turbine throws when its beams are in the model already.
- `nacelle_cm_node` is not in `GetMotion` or `SetLoads`: loads set there are ignored.
- `azimuth_angle` of the input only reaches the controller; the blades are placed without it.
- The aerodynamic loads of the tower have no channels.
- `CalculateJacobianXi` reads out of bounds with one section, and the look-up
  of a polar asserts when the angle of attack is its last point.

Control:

- `ApplyController` is to use the current system state; after `RestoreState` it
  uses azimuth and rotor speed of the step taken back, as `host_output` is not
  part of the snapshot. `FeedbackIsOfOneStep` is stated of the moment after a
  step. Before the first step `host_output` is uninitialized memory (`Unset`).
- `SaveState` and `RestoreState` leave the controller alone; that a repeated call
  changes nothing (`RepeatsChangeNothing`) rests on the communication interval.
- From `Horizon` on the scaled time of `kOnePlusEps` makes up an interval by
  itself, so a repeated call is due with zero elapsed time and gives NaN.
- `ApplyController` uses the pitch outputs of the blades whether or not pitch control
  is enabled, and writes three of them however many blades there are.
- The first call overwrites the initial pitch and yaw with the commands of the controller.
- A start from a checkpoint puts zero pitch and torque in force, accepts an actuator
  every later call refuses, and lets the numbers of the file, which are not those
  that were written, into the commands of every turbine of the process.
- The float of a limit may lie above it (1.570796 and 47402.91 do), so commands can.

Writers and interfaces:

- The destructor of a node-state writer that was closed syncs a closed file and
  throws: `Destroy` then ends the program (`alive = "terminated"`).
- `Outputs::Close` leaves the time series open when the node-state writer throws.
- `RestoreState` does not take the CFD interface's current timestep index back; a
  repeated step gets the next row. `RowsFollowPath` is therefore stated for the
  blade interface, which uses `State::time_step`.

## Proofs

`SolveStep_proofs` proves type correctness and every safety property of
`SolveStep`, for every `MaxIter` and `MaxCalls`. The invariant `Inv` strengthens
`TypeOK` in three parts. `StorageInv` says, for each phase of an iteration, what
element and constraint buffers, A and b already hold: without it a property
about the moment of the solve says nothing about how the system got there.
`ExtractInv` says the same of the phases of a pass and of the matrices copied out so far.
`CallsCountDown` needs of the loop only that the counter is below the limit once the head is passed. `LoopInv` ties the counter, the error
and the history together: every entry but the last is large, and `lam` counts the
entries while the system has constraints. Each part has its own lemma of
preservation, over all the actions that can disturb it.

`LoadStepping_proofs` proves type correctness, `SnapshotHoldsLowerBound`,
`FailureKeepsConvergedState` and `TimeStepCountsCommits`, for any number of
retries and any tolerance. The invariant adds, between two attempts, that the
next factor lies above `low` and not above full load, and that the snapshot is in
equilibrium with exactly `low / den` of the baseline or is the state of the call.
The lemmas about fractions (doubling, cancelling, a proper part is less than the
whole) carry the arithmetic. `KeepsPromise` is the refinement of `LoadPromise`: an
attempt that converges is `Climb` (a strictly larger fraction of the loads is
held), setting loads and returning are steps of their own, every other step is a
stutter. That true means all of the loads needs `AllOfLoads`: the test of
the loop for full load holds only of fractions within the tolerance of one.

`CoupledInterfaces_proofs` proves every property of the run, for any interfaces,
inputs and bounds, and that `CoupledInterfaces` implements `CouplingPromise`. The
invariant adds three parts. `LostInv`: after a step that failed, q is lost.
`WholeInv`: the fields of the blade interface, which reads no file, belong
together or q shows that they do not; with `LostInv` it follows that the velocities
handed back to the device are those it has (`StartsFromPoint`). `PathInv`: the
saved state is no later than the present one and both have their rows, so that
what is written after a snapshot leaves the rows of the snapshot alone; without
it a restore could uncover rows of a discarded trial. The refinement then goes
action by action: `SaveState` is `Mark`, `RestoreState` is `Return`, and so on; a write is
`Store` and a crash while writing `Restart`, with any of the files the promise allows
(`WrittenSituation`, `CutShortSituation`). That a copy carries the point of a state
but not its reference positions is `CopiedSituation`.

`BeamTeam_proofs` proves type correctness, `LoadsFitScratch` and `NoRace` for every
team size, vector width and list of elements. `NoRace` holds only of states that
can be reached; what makes it inductive is that threads are never separated by a
barrier (`Together`: when one is past a barrier, every other has reached it in the same
element or is in a later one) and that a thread's items are those of
its own share (`Shares`: `next[t] % TeamSize = t`). It then remains to compare any two
stages between the same barriers: they write different buffers from those the
other uses, or different rows of one. For the vectorised stages that takes
`PairsStoredOnce`: the stored lanes of two items never meet.
`NothingStale` and `ResultComplete` take more, `FlowInv`. A thread takes the
items of its share in order, so every item of an earlier stage that is not ahead
of its owner has been run (`Started`, `Close`: no thread is more than one element
behind). `DataInv` says what that means for the memory: what an item of a thread
stores is in place, with values of the thread's element, from the time the
thread is past the item until some thread begins the next element; what the two stages that write
results store is in place for ever. The rest is about the functors: every
operand of an item is stored by an item of an earlier stage, which lies behind a
barrier or is the thread's own (`OperandsHaveSources`, `SourceIsHeld`).
`ScratchHoldsPadding` says that the padded rows of the largest element are within
what the launch asks for, which `LoadsFitScratch` rests on.

`TurbineControl_proofs` proves `WithinLimits`, `FailedControllerStaysOut`,
`CommandsAreRateLimited` and `RepeatsChangeNothing`, for any turbines, inputs, times
and constants the assumptions allow. The laws are shared and the limits are
those of each turbine, so the invariant `Sound` speaks of three things as long
as no call came late: unless it may hold numbers of a checkpoint, the static state of
DISCON is within the limits and both laws last ran at the same time; the controls in
force of each turbine no such number has reached are within the limits, up to a float;
those of the turbine that was served last, if it is `Fresh`, are the ones the static
state holds, rounded, which is what a rate limit that counts from the static state rests
on. A first call takes nothing over from the static state but the torque, which its
first pass does not use (`FirstCallSetsUp`), so it makes the state sound again whatever
was read from a file (`FirstPassIsSound`). The rounding is monotone and does not move
what is rounded already (`FloatMonotone`, `FloatOfFloat`), so a command handed in
again comes back as it was; twice the distance to a float is at most a unit (`FloatNear`),
and the
floats of two numbers differ by at most a unit more than these do (`FloatsApart`). `PassIsSound` is the lemma about one pass of both laws; the integral of the
pitch control is cut so that its product stays within the limits, which is where
the slopes, gains and quotients of integers come in.

`SparsityPattern_proofs` first proves `NumberingIsExact` of `FreedomTables`, for
every mesh, every size of a block and every interleaving of the merges. `ThreadsInv` says which threads are still to run in
which kernel, `MergedInv` that the table of active components is the union of
what the threads that have run merged, `ScanInv` that the offsets are the
sums of the counts before them, `TablesInv` and `SizeInv` what the two tables and
the size were read from. Ranges that are sums of what comes before cannot
overlap and leave no gap (`RangesFill`). The sums are `MapThenSumSet`, which is
defined by choice among recursive functions; the lemmas up to `SumOfNext` show that it is
a sum at all, by looking at a smallest set for which it is not (`SmallestOf`), since
the induction theorems of the library cannot be used.

It goes on from that invariant and proves `RowsFilledExactly` for every mesh, every size of a block and every order of the filling threads; and
that `NumberingIsExact` stays true while the solver is created. `CountedInv`: once
counted, a row is as long as the list of columns that belongs into it. Counting
multiplies and adds widths, filling writes one list after the other, so this needs
`NodeRowLength`: the lengths of the lists that are joined are the widths that were
added; it rests on the nodes of an element being distinct. `PointersInv`: the
pointers are the sums of the lengths before them, so rows lie apart and
none reaches past the columns (`WithinRow`, `SlotsApart`). `FilledInv`:
whatever thread has run, its rows hold what belongs there. It is kept because a
thread writes its own rows and all of them (`WrittenRows`), and no two threads
have a row in common (`NodeRowsApart`, `ConstraintRowsApart`).

On top of that it proves `TermsLandInTheirColumn`, what assembly later relies on.
`SortedInv` (theorem `SortedRowsHoldTheirColumns`): after the sort a row holds its own columns,
sorted; a slot belongs to one row, so no column changes its row. The sort is
modelled by what it does: the p-th entry is the column that fewer than p
columns are below and at least p are not above. That such a column exists in every place is a
matter of ranks: the ranks of n different columns are n different numbers of
1 .. n, so none is missing (`Ranks`, `SortedRowAscends`). No row holds a column twice unless two
elements share two nodes: the columns of a row are the ranges of different nodes
and of different constraints, which lie apart (`NodeRowEntries`, `ConstraintRowEntries`;
`FlattenedEntries` for lists of lists). Among ascending numbers without repetition a block
of consecutive ones has nothing in between (`BlocksStayTogether`), so the offset
at which the first column is found leads to all of them (`BlockLands`).

`Outputs_proofs` proves `AcceptedRowsAreKept`, `FirstBatchIsFaithful` and
`RowsFollowNodeOutputs`, and that the node-state writer implements
`OutputStore`, for any components, timesteps, buffer sizes and numbers of records.
`NodeInv`: the file of a component, overlaid with its buffer, is what its callers
were told is accepted. `SeriesInv` says it of rows, up to the second batch, for which the run
`TimeSeriesWriterReuse` shows it false. `CallInv` ties the two writers:
before the row of a timestep is written, every enabled component is still
pending or has accepted the timestep. The refinement takes every step of the
writer to `Persist`, `Settle`, `Accept` or a stutter; a flush that fails half way
persists a part.

`TurbineInterface_proofs` proves `PitchTurnsItsBlade`, `StartSatisfiesConstraints`,
`HeldOnce` and `RotorTurnsAsOneBody` for any number of blades, any orders of the
beams and any inputs, and that they stay true where the constructor of the interface
goes on. `AssemblyInv` says at each function of the constructor what has been built so
far, since every function trusts the ones before it and what they did can no longer be
told from the calls: the beams lie side by side and the other nodes after them
(`BeamsTo`, `BetweenNodes`); each node was moved by the motions of its own part, each once and
in order (`Placed`), which takes that no node is in the lists of two blades; every
tie is in the list of constraints exactly once (`Tied`), and every node has the displacement of the
parts it belongs to (`Moved`) and turns if it belongs to the rotor (`RotorTurns`).
`HeldOnce` then follows from the list of ties: `TieOfBeam` and `TieOfNode` name the one tie that
holds a body, `NextOf` the body it is held by, and `WayDown` goes that way: from
the blade over apex, hub, azimuth node, shaft base and yaw bearing to the tower and the
ground, seven steps, no more than there are bodies. The rotor are the bodies
that pass the azimuth node on that way (`Behind`, `WhoSpins`). What the constructor does
blade by blade is a fold; that it equals one change of all nodes at once
(`Changed`) is shown as for the sums of `FreedomTables`, at a smallest set where it fails.

The same module proves `ChannelsHoldTheirValue`. `ChannelsInOrder`: the channels
are the names of the groups of the schema one after the other, and the index of a group
leads to its first name (`GroupsInOrder`). `RowIsTold`: whatever
`WriteTimeSeriesData` writes at once are the meanings of consecutive names of one group,
from the offset on that it is written to, and every name of every group is told
by some write (`Told`). So every write agrees with one and the same row, and by
`RowAfterWrites` their order does not matter: that row is the result, since every place
is reached. The names are all different, since the group of a channel can be told from its name
(`KeyOf`, `NoNameTwice`) and in a group its place can. That the stride over the
sections of a body is the number of their channels is used in `SectionWriteTold`, where a
stride too short or too long would tell a name twice or not at all. The one thing needed
of the state before is that blades and bodies are lists (`Wired`), which `AssemblyInv`
gives.

Assumptions: those named in the modules (`SolveStepAssumption`,
`LoadSteppingAssumption`, `InterfaceAssumption`, `TeamAssumption`,
`ControllerNumbers`, `ControllerConstants`, `CheckpointsAssumption`, `InputsAssumption`, `FreedomAssumption`,
`TypesAssumption`, `OutputsAssumption`, `AssemblyAssumption`,
`AerodynamicsAssumption`), nothing else.

Only model-checked:

- The five properties of `ConstraintKernels`: its kernels compute with products of rotations and
  matrices, sums over rows of three and of six, which the provers do not find their way
  through, and what a value is that was computed from `Garbage` is known to TLC only.
- `AppliedLoadsDoSectionWork`: two sums over nodes and sections, exchanged, of products of
  weights and vectors; the sums of the library are defined by choice and the products
  are not linear for the provers. The sections and velocities that are tried are generic.

## Plan

1. Proofs: `AppliedLoadsDoSectionWork`, from a lemma that finite sums may be exchanged, and
   `NothingUnwrittenIsTaken` of `ConstraintKernels`.
2. Linear solver handles: symbolic, numeric and solve under failing statuses.
3. `WriteValuesAtTimestep` of the time series.
4. The inputs of beam elements: sections, quadratures and their refinement.

## Not modelled, and why

- Mass, spring and prediction kernels, quadratures, beam sections, airfoil polars:
  floating-point functions of their inputs, without control of their own.
- `utilities/aerodynamics`: the binding of an external library, which nothing in the
  interfaces calls.
- The call of DISCON that writes a checkpoint (status -8): `SetStatusWriteCheckpoint`
  has no caller. The call that reads one (status -9) is modelled.
- The output kernel of the revolute joint: angles by arc functions; which
  step its results are of is part of `CoupledInterfaces`.
- Linear solver handles and `WriteValuesAtTimestep`: in the plan.
- Visualization and vendored code are outside the solver.
