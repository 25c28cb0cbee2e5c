------------------------------ MODULE EventFeed ------------------------------
(***************************************************************************)
(* Progress events: the bounded buffer of JobService (_emit_locked and     *)
(* events of xworkbench/jobs.py), the page that the route cuts out of it   *)
(* (_public_progress of api.py) and the reader of terminal.py              *)
(* (_poll_queue), which the server may outlive or restart under.           *)
(***************************************************************************)
EXTENDS Integers, FiniteSets

CONSTANTS
  Jobs,        \* jobs that events are about
  Capacity,    \* event_capacity of the buffer
  Limit,       \* events in a response
  MaxSequence, \* bound of the events of an epoch
  MaxEpoch     \* bound of the starts of the server

VARIABLES
  epoch,    \* the event epoch of the running server
  sequence, \* its last event
  buffer,   \* _event_buffer: it is in the order of the numbers, so a set says as much
  reader    \* epoch and last sequence of the reader, what it knows, its request

vars == <<epoch, sequence, buffer, reader>>

NoResponse == [epoch |-> 0, last |-> 0, gap |-> FALSE, numbers |-> {}]

Init ==
  /\ epoch = 1 /\ sequence = 0 /\ buffer = {}
  /\ reader = [epoch |-> 0, last |-> 0, known |-> {}, phase |-> "idle", response |-> NoResponse]

-----------------------------------------------------------------------------
(* The server *)

First(events) == {e \in events : \A d \in events : e.n <= d.n}
Last(events)  == {e \in events : \A d \in events : d.n <= e.n}

\* A persisted event replaces one of the same job at the end of the buffer; a
\* full buffer drops its first event.
Emit(job, persisted) ==
  LET merged == {e \in Last(buffer) : persisted /\ e.persisted /\ e.job = job}
      gone   == IF merged # {} THEN merged
                ELSE IF Cardinality(buffer) = Capacity THEN First(buffer) ELSE {} IN
  /\ sequence < MaxSequence
  /\ sequence' = sequence + 1
  /\ buffer' = (buffer \ gone) \union {[n |-> sequence + 1, job |-> job, persisted |-> persisted]}
  /\ UNCHANGED <<epoch, reader>>

\* A new process: everything is gone and the epoch is another one.
Restart ==
  /\ epoch < MaxEpoch
  /\ epoch' = epoch + 1 /\ sequence' = 0 /\ buffer' = {}
  /\ UNCHANGED reader

\* The events that do not follow the one before them.
Loose(events) == {e \in events : \A d \in events : e.n # d.n + 1}

\* Mutant: only holes between the events of a response count.
GapInside(events, after) == \E e \in Loose(events) : e \notin First(events)

\* The numbers do not follow each other, or the first one does not follow the
\* request.
Gap(events, after) ==
  \/ events = {} /\ after < sequence
  \/ \E e \in Loose(events) : e.n # after + 1

\* _public_progress: the gap is that of all events after the request that the
\* buffer still holds, the page holds the first of them.
Answer(after) ==
  LET events == {e \in buffer : e.n > after}
      page   == {e \in events : Cardinality({d \in events : d.n < e.n}) < Limit} IN
  [epoch   |-> epoch,
   last    |-> IF Cardinality(events) > Limit THEN CHOOSE n \in {e.n : e \in Last(page)} : TRUE
               ELSE sequence,
   gap     |-> Gap(events, after),
   numbers |-> {e.n : e \in page}]

-----------------------------------------------------------------------------
(* The reader; a response that is lost leaves it as it was *)

Poll ==
  /\ reader.phase = "idle"
  /\ reader' = [reader EXCEPT !.phase = "first", !.response = Answer(reader.last)]
  /\ UNCHANGED <<epoch, sequence, buffer>>

Lose ==
  /\ reader.phase # "idle"
  /\ reader' = [reader EXCEPT !.phase = "idle", !.response = NoResponse]
  /\ UNCHANGED <<epoch, sequence, buffer>>

\* The server is another one, or has fewer events than the reader has read.
Reset ==
  \/ reader.epoch # 0 /\ reader.response.epoch # reader.epoch
  \/ reader.response.last < reader.last

\* What the reader has got, or was told that it has missed.
Learned(from, gap) ==
  {<<reader.response.epoch, n>> :
     n \in reader.response.numbers \union (IF gap THEN (from + 1)..reader.response.last ELSE {})}

Take ==
  /\ reader.phase = "first" /\ ~Reset
  /\ reader' = [epoch |-> reader.response.epoch, last |-> reader.response.last,
                known |-> reader.known \union Learned(reader.last, reader.response.gap),
                phase |-> "idle", response |-> NoResponse]
  /\ UNCHANGED <<epoch, sequence, buffer>>

\* Everything is read again from the start ...
PollAgain ==
  /\ reader.phase = "first" /\ Reset
  /\ reader' = [reader EXCEPT !.phase = "again", !.response = Answer(0)]
  /\ UNCHANGED <<epoch, sequence, buffer>>

\* ... and shown as a gap.
TakeAgain ==
  /\ reader.phase = "again"
  /\ reader' = [epoch |-> reader.response.epoch, last |-> reader.response.last,
                known |-> Learned(0, TRUE), phase |-> "idle", response |-> NoResponse]
  /\ UNCHANGED <<epoch, sequence, buffer>>

Next ==
  \/ \E job \in Jobs, persisted \in BOOLEAN : Emit(job, persisted)
  \/ Restart \/ Poll \/ Lose \/ Take \/ PollAgain \/ TakeAgain

Spec == Init /\ [][Next]_vars

-----------------------------------------------------------------------------
(* Properties *)

\* Whatever is dropped, merged, cut off or restarted, each event up to the
\* place of the reader has reached it, or it was told that some are missing.
NoSilentGap == \A n \in 1..reader.last : <<reader.epoch, n>> \in reader.known
=============================================================================
