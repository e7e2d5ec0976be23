-------------------------- MODULE NodeStateWriter --------------------------
(***************************************************************************)
(* The buffered writer of nodal state, node_state_writer.cpp of            *)
(* src/src/utilities/netcdf: one buffer of records per state component     *)
(* (position, displacement, velocity, acceleration, force), flushed when   *)
(* full, by Close and by the destructor.  The six or seven variables of a  *)
(* component are written together and are one value here; each write has a *)
(* value of its own.  A call that throws is a step that sets threw.        *)
(*                                                                         *)
(* A definition whose name ends in an underscore and a word is a seeded    *)
(* fault (see module SolveStep).                                           *)
(***************************************************************************)
EXTENDS Integers, Sequences, FiniteSets

CONSTANTS
  Order,       \* the component prefixes in the order of GetComponentIndex
  BufferSizes, \* the buffer sizes that are looked at
  MaxStep,     \* bound: the largest timestep written
  MaxWrites    \* bound: records written

Components == {Order[i] : i \in DOMAIN Order}

VARIABLES
  alive,      \* "alive", "destroyed", or "terminated" by a throwing destructor
  bufferSize, \* buffer_size_
  enabled,    \* enabled_state_prefixes_: components with variables in the file
  isOpen,     \* the file has a valid id
  file,       \* value of every component and timestep in the file
  buffers,    \* state_buffers_: records [t, v] of every component
  writes,     \* records written so far (bound), which also numbers the values
  latest,     \* the value last accepted for every component and timestep
  call,       \* the last call
  threw       \* the last call threw an exception

vars == <<alive, bufferSize, enabled, isOpen, file, buffers, writes, latest,
          call, threw>>

Timesteps == 0 .. MaxStep
Places == Components \X Timesteps
Missing == 0

----------------------------------------------------------------------------
\* The constructor reserves room for the records of a batch, and has none.
Init ==
  /\ alive = "alive"
  /\ bufferSize \in BufferSizes
  /\ enabled \in SUBSET Components
  /\ isOpen = TRUE
  /\ file = [p \in Places |-> Missing]
  /\ buffers = [c \in Components |-> <<>>]
  /\ writes = 0
  /\ latest = [p \in Places |-> Missing]
  /\ call = "create"
  /\ threw = FALSE

\* The records of component c written in order: the last one of a timestep
\* is the one that stays.
RecordsAt(records, t) == {i \in DOMAIN records : records[i].t = t}
Write_FirstWins(f, c, records) ==
  [p \in Places |->
     LET at == RecordsAt(records, p[2])
     IN IF p[1] # c \/ at = {} THEN f[p]
        ELSE records[CHOOSE i \in at : \A j \in at : i <= j].v]
Write(f, c, records) ==
  [p \in Places |->
     LET at == RecordsAt(records, p[2])
     IN IF p[1] # c \/ at = {} THEN f[p]
        ELSE records[CHOOSE i \in at : \A j \in at : j <= i].v]

\* A write to a closed file or to a variable that was never defined throws.
Writable(c) == isOpen /\ c \in enabled

\* The components FlushAllBuffers flushes: in order, up to the first one
\* with records that cannot be written.
Blocked == {i \in DOMAIN Order : buffers[Order[i]] # <<>> /\ ~Writable(Order[i])}
Flushed == {Order[i] : i \in {j \in DOMAIN Order : \A k \in Blocked : j < k}}

\* FlushAllBuffers ends with a Sync, which throws on a closed file.
FlushAllThrows == Blocked # {} \/ ~isOpen

FlushAllBuffers ==
  /\ file' = [p \in Places |->
                IF p[1] \in Flushed THEN Write(file, p[1], buffers[p[1]])[p] ELSE file[p]]
  /\ buffers' = [c \in Components |-> IF c \in Flushed THEN <<>> ELSE buffers[c]]

----------------------------------------------------------------------------
\* WriteStateDataAtTimestep refuses an unknown prefix, or vectors of
\* different sizes, before anything happens.
RefuseData ==
  /\ alive = "alive"
  /\ call' = "write"
  /\ threw' = TRUE
  /\ UNCHANGED <<alive, bufferSize, enabled, isOpen, file, buffers, writes, latest>>

WriteUnbuffered(c, t) ==
  /\ alive = "alive"
  /\ bufferSize = 0
  /\ writes < MaxWrites
  /\ writes' = writes + 1
  /\ IF Writable(c)
     THEN /\ file' = [file EXCEPT ![<<c, t>>] = writes + 1]
          /\ latest' = [latest EXCEPT ![<<c, t>>] = writes + 1]
     ELSE UNCHANGED <<file, latest>>
  /\ threw' = ~Writable(c)
  /\ call' = "write"
  /\ UNCHANGED <<alive, bufferSize, enabled, isOpen, buffers>>

\* The record is stored first; a flush that throws leaves it in the buffer.
WriteBuffered(c, t) ==
  /\ alive = "alive"
  /\ bufferSize > 0
  /\ writes < MaxWrites
  /\ writes' = writes + 1
  /\ latest' = [latest EXCEPT ![<<c, t>>] = writes + 1]
  /\ LET records == Append(buffers[c], [t |-> t, v |-> writes + 1])
         full    == Len(records) >= bufferSize
     IN /\ IF full /\ Writable(c)
           THEN /\ file' = Write(file, c, records)
                /\ buffers' = [buffers EXCEPT ![c] = <<>>]
           ELSE /\ buffers' = [buffers EXCEPT ![c] = records]
                /\ UNCHANGED file
        /\ threw' = (full /\ ~Writable(c))
  /\ call' = "write"
  /\ UNCHANGED <<alive, bufferSize, enabled, isOpen>>

\* Close: if flushing throws, the file is not closed.
Close ==
  /\ alive = "alive"
  /\ \/ /\ bufferSize > 0
        /\ FlushAllBuffers
        /\ threw' = FlushAllThrows
        /\ isOpen' = (isOpen /\ FlushAllThrows)
     \/ /\ bufferSize = 0
        /\ isOpen' = FALSE
        /\ threw' = FALSE
        /\ UNCHANGED <<file, buffers>>
  /\ call' = "close"
  /\ UNCHANGED <<alive, bufferSize, enabled, writes, latest>>

Open ==
  /\ alive = "alive"
  /\ isOpen' = TRUE
  /\ threw' = FALSE
  /\ call' = "open"
  /\ UNCHANGED <<alive, bufferSize, enabled, file, buffers, writes, latest>>

\* The destructor flushes a buffered writer; then the file closes itself.
Destroy ==
  /\ alive = "alive"
  /\ \/ /\ bufferSize > 0
        /\ FlushAllBuffers
        /\ threw' = FlushAllThrows
        /\ alive' = IF FlushAllThrows THEN "terminated" ELSE "destroyed"
     \/ /\ bufferSize = 0
        /\ alive' = "destroyed"
        /\ threw' = FALSE
        /\ UNCHANGED <<file, buffers>>
  /\ isOpen' = FALSE
  /\ call' = "destroy"
  /\ UNCHANGED <<bufferSize, enabled, writes, latest>>

Next ==
  \/ RefuseData
  \/ \E c \in Components, t \in Timesteps : WriteUnbuffered(c, t) \/ WriteBuffered(c, t)
  \/ Close
  \/ Open
  \/ Destroy

Spec == Init /\ [][Next]_vars

----------------------------------------------------------------------------
(* Properties.                                                             *)

\* The promise of an output store, kept by this writer.
Store == INSTANCE OutputStore WITH
  Keys     <- Places,
  Values   <- 1 .. MaxWrites,
  Missing  <- Missing,
  accepted <- latest,
  stored   <- file,
  settled  <- call \in {"close", "destroy"} /\ ~threw

(* The writer keeps the promise of an output store, also when a flush      *)
(* fails half way through the components and is tried again: a stored      *)
(* value is replaced only by a later one of its place, and a Close or a    *)
(* destruction that returns normally has stored everything.                *)
KeepsOutputPromise == Store!Spec
============================================================================
