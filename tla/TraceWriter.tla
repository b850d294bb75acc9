---------------------------- MODULE TraceWriter -----------------------------
(***************************************************************************)
(* The Chrome-trace writer (profiler/trace.cpp): events are buffered under *)
(* mu_ and written to the file when FlushAt of them are buffered, on       *)
(* flush() and in the destructor.  Every operation takes the mutex once,   *)
(* so each is one action; several threads call them.                       *)
(*                                                                         *)
(* The file is the sequence of records written to it: which event, and     *)
(* whether a comma precedes it.  Its "[" is there from the start when the  *)
(* file could be opened, its "]" once `closed`.  The text of an event is   *)
(* left out.  `added` is a history variable: what add_event was given.     *)
(***************************************************************************)
EXTENDS Integers, Sequences

CONSTANTS
    FlushAt,    \* add_event's threshold (1000)
    Threads,    \* the threads that trace
    Names       \* the names of their events

ASSUME TraceConstants == FlushAt \in Nat \ {0}

VARIABLES
    is_open,        \* file_.is_open()
    events,         \* events_
    first_event,    \* first_event_
    file,           \* what write_event wrote
    closed,         \* the destructor has run
    added

traceVars == <<is_open, events, first_event, file, closed, added>>

TraceInit ==
    /\ is_open \in BOOLEAN
    /\ events = <<>> /\ file = <<>> /\ added = <<>>
    /\ first_event = TRUE
    /\ closed = FALSE

(* Mutant: the flag is looked at once for the whole buffer. *)
WriteOneComma(buffer) ==
    IF is_open
    THEN /\ file' = file \o [i \in 1 .. Len(buffer) |->
                                [comma |-> ~first_event, event |-> buffer[i]]]
         /\ first_event' = (first_event /\ buffer = <<>>)
    ELSE UNCHANGED <<file, first_event>>

(* The loop over events_ that calls write_event, which does nothing when   *)
(* the file is not open.                                                   *)
WriteEvents(buffer) ==
    IF is_open
    THEN /\ file' = file \o [i \in 1 .. Len(buffer) |->
                                [comma |-> ~first_event \/ i > 1, event |-> buffer[i]]]
         /\ first_event' = (first_event /\ buffer = <<>>)
    ELSE UNCHANGED <<file, first_event>>

(* Mutant: the event that fills the buffer is dropped with it. *)
AddEventLate(e) ==
    /\ ~closed
    /\ added' = Append(added, e)
    /\ IF Len(events) + 1 >= FlushAt
       THEN WriteEvents(events) /\ events' = <<>>
       ELSE events' = Append(events, e) /\ UNCHANGED <<file, first_event>>
    /\ UNCHANGED <<is_open, closed>>

(* Mutant: the buffer is written out one event too late. *)
AddEventBeyond(e) ==
    /\ ~closed
    /\ added' = Append(added, e)
    /\ IF Len(events) + 1 > FlushAt
       THEN WriteEvents(Append(events, e)) /\ events' = <<>>
       ELSE events' = Append(events, e) /\ UNCHANGED <<file, first_event>>
    /\ UNCHANGED <<is_open, closed>>

add_event(e) ==
    /\ ~closed
    /\ added' = Append(added, e)
    /\ IF Len(events) + 1 >= FlushAt
       THEN WriteEvents(Append(events, e)) /\ events' = <<>>
       ELSE events' = Append(events, e) /\ UNCHANGED <<file, first_event>>
    /\ UNCHANGED <<is_open, closed>>

flush ==
    /\ ~closed
    /\ WriteEvents(events)
    /\ events' = <<>>
    /\ UNCHANGED <<is_open, closed, added>>

(* ~TraceWriter: flush, then the closing bracket. *)
Destroy ==
    /\ ~closed
    /\ WriteEvents(events)
    /\ events' = <<>>
    /\ closed' = TRUE
    /\ UNCHANGED <<is_open, added>>

-----------------------------------------------------------------------------
(* Any threads calling any operations, up to the destructor. *)
TraceNext ==
    \/ \E t \in Threads, n \in Names : add_event([tid |-> t, name |-> n])
    \/ flush
    \/ Destroy

TraceSpec == TraceInit /\ [][TraceNext]_traceVars

(* The state is well formed, and between calls fewer than FlushAt events   *)
(* are buffered, whether or not the file could be opened.                  *)
TraceTypeOK ==
    /\ is_open \in BOOLEAN /\ first_event \in BOOLEAN /\ closed \in BOOLEAN
    /\ added \in Seq([tid : Threads, name : Names])
    /\ events \in Seq([tid : Threads, name : Names])
    /\ file \in Seq([comma : BOOLEAN, event : [tid : Threads, name : Names]])
    /\ Len(events) < FlushAt

(* No event is lost, duplicated or reordered: what is in the file followed *)
(* by what is buffered is what add_event was given, in the order of the    *)
(* calls; after the destructor all of it is in the file.                   *)
TraceComplete ==
    /\ closed => events = <<>>
    /\ is_open =>
         /\ Len(added) = Len(file) + Len(events)
         /\ \A i \in 1 .. Len(file) : file[i].event = added[i]
         /\ \A i \in 1 .. Len(events) : events[i] = added[Len(file) + i]

(* The file is a JSON array: every event but the first has a comma before  *)
(* it, across the batches in which it is written.                          *)
TraceWellFormed ==
    /\ first_event = (file = <<>>)
    /\ \A i \in 1 .. Len(file) : file[i].comma = (i > 1)

=============================================================================
