-------------------------- MODULE TimeSeriesWriter --------------------------
(***************************************************************************)
(* The buffered writer of time-series rows,                                *)
(* src/src/utilities/netcdf/time_series_writer.cpp, over the open or       *)
(* closed file of netcdf_file.cpp.  A row of channels is one value; every  *)
(* write has a value of its own, so a row that ends up at the wrong        *)
(* timestep is recognized.  A call that throws is a step that sets threw;  *)
(* an exception out of the destructor ends the program.                    *)
(*                                                                         *)
(* A definition whose name ends in an underscore and a word is a seeded    *)
(* fault (see module SolveStep).                                           *)
(***************************************************************************)
EXTENDS Integers, Sequences

CONSTANTS
  BufferSizes, \* the buffer sizes that are looked at
  MaxRow,      \* bound: the largest timestep written
  MaxWrites    \* bound: rows written

VARIABLES
  alive,      \* "alive", "destroyed", or "terminated" by a throwing destructor
  bufferSize, \* buffer_size_: rows to buffer, 0 for none
  isOpen,     \* the file has a valid id
  file,       \* the variable time_series_channel_outputs: value of every row
  data,       \* buffer_.data
  start,      \* buffer_.start_timestep
  numRows,    \* buffer_.num_rows
  writes,     \* rows written so far (bound), which also numbers the values
  given,      \* for every row, the values the caller has given it, in order
  flushes,    \* batches written to the file so far
  call,       \* the last call
  threw       \* the last call threw an exception

buffer == <<data, start, numRows>>
vars == <<alive, bufferSize, isOpen, file, buffer, writes, given, flushes, call, threw>>

Rows == 0 .. MaxRow
Missing == 0

----------------------------------------------------------------------------
Init ==
  /\ alive = "alive"
  /\ bufferSize \in BufferSizes
  /\ isOpen = TRUE
  /\ file = [t \in Rows |-> Missing]
  /\ data = <<>>
  /\ start = 0
  /\ numRows = 0
  /\ writes = 0
  /\ given = [t \in Rows |-> <<>>]
  /\ flushes = 0
  /\ call = "create"
  /\ threw = FALSE

(* WriteVariableAt with a batch: n values from the front of d, to the rows *)
(* from first on.                                                          *)
FileWith(f, first, n, d) ==
  [t \in Rows |-> IF t \in first .. first + n - 1 THEN d[t - first + 1] ELSE f[t]]

\* FlushBuffer does nothing without rows, and throws on a closed file.
FlushFails(n) == n > 0 /\ ~isOpen

\* What FlushBuffer leaves of num_rows.
RowsAfterFlush(n) == IF FlushFails(n) THEN n ELSE 0

Flushed(n) == IF n > 0 /\ isOpen THEN flushes + 1 ELSE flushes

----------------------------------------------------------------------------
(* WriteRowAtTimestep.                                                     *)

Give(t) ==
  /\ writes < MaxWrites
  /\ alive = "alive"
  /\ writes' = writes + 1
  /\ call' = "write"

Unbuffered == bufferSize = 0

\* A row of the wrong width is refused before anything happens.
RefuseRow ==
  /\ alive = "alive"
  /\ call' = "write"
  /\ threw' = TRUE
  /\ UNCHANGED <<alive, bufferSize, isOpen, file, buffer, writes, given, flushes>>

WriteUnbuffered(t) ==
  /\ Give(t)
  /\ Unbuffered
  /\ file' = IF isOpen THEN [file EXCEPT ![t] = writes + 1] ELSE file
  /\ given' = IF isOpen THEN [given EXCEPT ![t] = Append(@, writes + 1)] ELSE given
  /\ threw' = ~isOpen
  /\ UNCHANGED <<alive, bufferSize, isOpen, buffer, flushes>>

ContinuesBatch(t) == numRows = 0 \/ t = start + numRows

\* A full buffer is flushed at once.
IsFull(n) == n >= bufferSize

\* The row starts a batch or continues the present one.
BatchStart_NotMoved(oldRows, t) == start
BatchStart(oldRows, t) == IF oldRows = 0 THEN t ELSE start

Buffered(t, oldFile, oldRows, oldFlushes) ==
  LET first == BatchStart(oldRows, t)
      d     == Append(data, writes + 1)
      n     == oldRows + 1
      full  == IsFull(n)
  IN /\ data' = d
     /\ start' = first
     /\ given' = [given EXCEPT ![t] = Append(@, writes + 1)]
     /\ IF full /\ isOpen
        THEN /\ file' = FileWith(oldFile, first, n, d)
             /\ flushes' = oldFlushes + 1
        ELSE file' = oldFile /\ flushes' = oldFlushes
     /\ numRows' = IF full THEN RowsAfterFlush(n) ELSE n
     /\ threw' = (full /\ ~isOpen)

WriteContiguous(t) ==
  /\ Give(t)
  /\ ~Unbuffered
  /\ ContinuesBatch(t)
  /\ Buffered(t, file, numRows, flushes)
  /\ UNCHANGED <<alive, bufferSize, isOpen>>

\* A row elsewhere ends the present batch: it is flushed, and a new batch
\* starts.  If the flush throws, the new row is not stored.
WriteElsewhere_DropsBatch(t) ==
  /\ Give(t)
  /\ ~Unbuffered
  /\ ~ContinuesBatch(t)
  /\ Buffered(t, file, 0, flushes)
  /\ UNCHANGED <<alive, bufferSize, isOpen>>
WriteElsewhere(t) ==
  /\ Give(t)
  /\ ~Unbuffered
  /\ ~ContinuesBatch(t)
  /\ IF isOpen
     THEN Buffered(t, FileWith(file, start, numRows, data), 0, flushes + 1)
     ELSE /\ threw' = TRUE
          /\ UNCHANGED <<file, buffer, given, flushes>>
  /\ UNCHANGED <<alive, bufferSize, isOpen>>

----------------------------------------------------------------------------
(* The other calls.                                                        *)

\* The effect of FlushBuffer on the file and the buffer.  The data is not
\* cleared: only the number of rows is reset.
FlushBuffer ==
  /\ file' = IF isOpen THEN FileWith(file, start, numRows, data) ELSE file
  /\ flushes' = Flushed(numRows)
  /\ numRows' = RowsAfterFlush(numRows)
  /\ UNCHANGED <<data, start>>

\* Flush: syncs only an open file, so without rows it never throws.
Flush ==
  /\ alive = "alive"
  /\ FlushBuffer
  /\ threw' = FlushFails(numRows)
  /\ call' = "flush"
  /\ UNCHANGED <<alive, bufferSize, isOpen, writes, given>>

\* Close flushes first; that throws only if the file is closed already.
Close ==
  /\ alive = "alive"
  /\ FlushBuffer
  /\ threw' = FlushFails(numRows)
  /\ isOpen' = FALSE
  /\ call' = "close"
  /\ UNCHANGED <<alive, bufferSize, writes, given>>

Open ==
  /\ alive = "alive"
  /\ isOpen' = TRUE
  /\ threw' = FALSE
  /\ call' = "open"
  /\ UNCHANGED <<alive, bufferSize, file, buffer, writes, given, flushes>>

\* The destructor flushes; then the file closes itself.
Destroy ==
  /\ alive = "alive"
  /\ FlushBuffer
  /\ threw' = FlushFails(numRows)
  /\ alive' = IF FlushFails(numRows) THEN "terminated" ELSE "destroyed"
  /\ isOpen' = FALSE
  /\ call' = "destroy"
  /\ UNCHANGED <<bufferSize, writes, given>>

Next ==
  \/ RefuseRow
  \/ \E t \in Rows : WriteUnbuffered(t) \/ WriteContiguous(t) \/ WriteElsewhere(t)
  \/ Flush
  \/ Close
  \/ Open
  \/ Destroy

Spec == Init /\ [][Next]_vars

----------------------------------------------------------------------------
(* Properties.                                                             *)

BufferedRows == start .. start + numRows - 1

(* No row is lost: a row the writer accepted is in the file or in the      *)
(* buffer, through flushes that fail on a closed file and through batches  *)
(* cut short by a row elsewhere.  Only the end of the program loses rows.  *)
AcceptedRowsAreKept ==
  alive # "terminated" =>
    \A t \in Rows : given[t] # <<>> => file[t] # Missing \/ t \in BufferedRows

(* Until the first batch has been followed by another, and always without  *)
(* a buffer, the file holds under each timestep a value that was given for *)
(* it, and the last one unless the row waits in the buffer.                *)
FirstBatchIsFaithful ==
  Unbuffered \/ flushes <= 1 =>
    \A t \in Rows :
      /\ \/ file[t] = Missing
         \/ \E i \in DOMAIN given[t] : given[t][i] = file[t]
      /\ file[t] # Missing /\ t \notin BufferedRows => file[t] = given[t][Len(given[t])]

(* What the comment at the end of FlushBuffer relies on ("it will be       *)
(* overwritten next time"): every row of the file holds a value given for  *)
(* that row.  The data is appended to, not overwritten, so the second      *)
(* batch writes the rows of the first one again.                           *)
FileHoldsGivenValues ==
  \A t \in Rows :
    \/ file[t] = Missing
    \/ \E i \in DOMAIN given[t] : given[t][i] = file[t]
============================================================================
