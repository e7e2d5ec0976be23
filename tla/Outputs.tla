------------------------------ MODULE Outputs ------------------------------
(***************************************************************************)
(* The outputs of an interface, src/src/interfaces/outputs.cpp: a node-    *)
(* state writer and, if a file is named for it, a time-series writer,      *)
(* driven together.  One call writes the enabled components of the nodal   *)
(* state one after the other and, from TurbineInterface::WriteOutput, the  *)
(* row of the time series; the first write that throws ends the call.      *)
(* Both writers can also be reached directly, through GetOutputWriter and  *)
(* GetTimeSeriesWriter.                                                    *)
(*                                                                         *)
(* A definition whose name ends in an underscore and a word is a seeded    *)
(* fault (see module SolveStep).                                           *)
(***************************************************************************)
EXTENDS Integers, Sequences, FiniteSets

CONSTANTS
  Order,         \* the component prefixes in the order they are written
  BufferSizes,   \* buffer sizes of the node-state and the time-series writer
  MaxStep,       \* bound: the largest timestep written
  MaxRecords,    \* bound: records written to the node-state writer
  MaxRows        \* bound: rows written to the time-series writer

Components == {Order[i] : i \in DOMAIN Order}
Row == "row"

\* The writes of a call, in their order.
Writes == Append(Order, Row)

ASSUME OutputsAssumption ==
  /\ Order \in Seq(STRING)
  /\ Cardinality(Components) = Len(Order)
  /\ Row \notin Components
  /\ BufferSizes \subseteq Nat \X Nat
  /\ MaxStep \in Nat /\ MaxRecords \in Nat /\ MaxRows \in Nat

VARIABLES
  nAlive, nBufferSize, enabled, nOpen, nFile, buffers, nWrites, latest,
  nCall, nThrew,         \* output_writer_, see module NodeStateWriter
  sAlive, sBufferSize, sOpen, sFile, data, start, numRows, sWrites, given,
  flushes, sCall, sThrew, \* time_series_writer_, see module TimeSeriesWriter
  hasSeries,             \* time_series_writer_ is not null
  pending,               \* the writes the present call has left
  at                     \* the timestep it writes

node == <<nAlive, nBufferSize, enabled, nOpen, nFile, buffers, nWrites, latest,
          nCall, nThrew>>
series == <<sAlive, sBufferSize, sOpen, sFile, data, start, numRows, sWrites,
            given, flushes, sCall, sThrew>>
vars == <<node, series, hasSeries, pending, at>>

Node == INSTANCE NodeStateWriter WITH
  BufferSizes <- {sizes[1] : sizes \in BufferSizes}, MaxWrites <- MaxRecords,
  alive <- nAlive, bufferSize <- nBufferSize, isOpen <- nOpen, file <- nFile,
  writes <- nWrites, call <- nCall, threw <- nThrew

Series == INSTANCE TimeSeriesWriter WITH
  BufferSizes <- {sizes[2] : sizes \in BufferSizes}, MaxRow <- MaxStep, MaxWrites <- MaxRows,
  alive <- sAlive, bufferSize <- sBufferSize, isOpen <- sOpen, file <- sFile,
  writes <- sWrites, call <- sCall, threw <- sThrew

Timesteps == 0 .. MaxStep

----------------------------------------------------------------------------
\* Without a time-series file there is nothing to tell such writers apart by.
Init ==
  /\ Node!Init
  /\ Series!Init
  /\ <<nBufferSize, sBufferSize>> \in BufferSizes
  /\ hasSeries \in BOOLEAN
  /\ ~hasSeries => sBufferSize = 0
  /\ pending = {}
  /\ at = 0

BetweenCalls == pending = {} /\ nAlive = "alive" /\ sAlive = "alive"

IsStateComponentEnabled(prefix) == prefix \in enabled

\* WriteNodeOutputsAtTimestep, alone or followed by the row of WriteOutput.
WriteOutput(t) ==
  /\ BetweenCalls
  /\ \E rows \in {{}, IF hasSeries THEN {Row} ELSE {}} :
       pending' = {c \in Components : IsStateComponentEnabled(c)} \cup rows
  /\ nWrites + Cardinality(enabled) <= MaxRecords
  /\ Row \in pending' => sWrites < MaxRows
  /\ at' = t
  /\ UNCHANGED <<node, series, hasSeries>>

\* The write of the present call that is next.
Due(w) ==
  /\ w \in pending
  /\ \E i \in DOMAIN Writes : w = Writes[i] /\ \A j \in 1 .. i - 1 : Writes[j] \notin pending

AfterWrite_GoesOn(c) == pending \ {c}
AfterWrite(c) == IF nThrew' THEN {} ELSE pending \ {c}

WriteComponent(c) ==
  /\ Due(c)
  /\ Node!WriteUnbuffered(c, at) \/ Node!WriteBuffered(c, at)
  /\ pending' = AfterWrite(c)
  /\ UNCHANGED <<series, hasSeries, at>>

WriteTimeSeriesRowAtTimestep ==
  /\ Due(Row)
  /\ \/ Series!WriteUnbuffered(at)
     \/ Series!WriteContiguous(at)
     \/ Series!WriteElsewhere(at)
  /\ pending' = {}
  /\ UNCHANGED <<node, hasSeries, at>>

\* Close: if the node-state writer throws, the time series stays open.
Close ==
  /\ BetweenCalls
  /\ Node!Close
  /\ IF hasSeries /\ ~nThrew' THEN Series!Close ELSE UNCHANGED series
  /\ UNCHANGED <<hasSeries, pending, at>>

Open ==
  /\ BetweenCalls
  /\ Node!Open
  /\ IF hasSeries THEN Series!Open ELSE UNCHANGED series
  /\ UNCHANGED <<hasSeries, pending, at>>

\* The destructor: the member declared last goes first.
Destroy ==
  /\ BetweenCalls
  /\ IF hasSeries THEN Series!Destroy ELSE UNCHANGED series
  /\ IF sAlive' = "terminated" THEN UNCHANGED node ELSE Node!Destroy
  /\ UNCHANGED <<hasSeries, pending, at>>

\* Direct use of the node-state writer: a component that may not be enabled,
\* or data that is refused.
UseOutputWriter ==
  /\ BetweenCalls
  /\ \/ Node!RefuseData
     \/ \E c \in Components \ enabled, t \in Timesteps :
          Node!WriteUnbuffered(c, t) \/ Node!WriteBuffered(c, t)
  /\ UNCHANGED <<series, hasSeries, pending, at>>

\* Direct use of the time-series writer: Flush, or a row of another width.
UseTimeSeriesWriter ==
  /\ BetweenCalls
  /\ hasSeries
  /\ Series!Flush \/ Series!RefuseRow
  /\ UNCHANGED <<node, hasSeries, pending, at>>

Next ==
  \/ \E t \in Timesteps : WriteOutput(t)
  \/ \E c \in Components : WriteComponent(c)
  \/ WriteTimeSeriesRowAtTimestep
  \/ Close
  \/ Open
  \/ Destroy
  \/ UseOutputWriter
  \/ UseTimeSeriesWriter

Spec == Init /\ [][Next]_vars

----------------------------------------------------------------------------
(* Properties.                                                             *)

(* No row is lost: a row the time-series writer accepted is in the file or *)
(* in the buffer, through flushes that fail on a closed file, batches cut  *)
(* short by a row elsewhere, and closings that the node-state writer ends  *)
(* before they reach the time series.                                      *)
AcceptedRowsAreKept == Series!AcceptedRowsAreKept

(* Until its second batch, and always without a buffer, the time series    *)
(* holds under each timestep the value given last for that timestep, or    *)
(* has it in its buffer.                                                   *)
FirstBatchIsFaithful == Series!FirstBatchIsFaithful

(* The node-state writer keeps the promise of an output store, also when   *)
(* the call that drives it is cut short between two components, or when a  *)
(* flush fails half way through them and is tried again: a stored value is *)
(* replaced only by a later one of its place, and a Close or a destruction *)
(* that returns normally has stored everything.                            *)
KeepsOutputPromise == Node!KeepsOutputPromise

(* The two files agree: a row is in the time series only for a timestep    *)
(* whose nodal state was accepted, every enabled component of it, whatever *)
(* writes were refused by a closed file.                                   *)
RowsFollowNodeOutputs ==
  \A t \in Timesteps :
    given[t] # <<>> => \A c \in enabled : latest[<<c, t>>] # Node!Missing
============================================================================
