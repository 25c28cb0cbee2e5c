---------------------------- MODULE BatchApproval ----------------------------
(***************************************************************************)
(* The approval of batches in xworkbench/api.py: a preview issues a        *)
(* manifest with a digest under a key of this server process, and a        *)
(* confirmation that brings both back checks them, prepares the items one  *)
(* after another and admits them in one transaction (submit_batch,         *)
(* admit_batch).  Confirmations run in threads, may be repeated after a    *)
(* lost answer and outlive time limits while they prepare; the batch may   *)
(* be cancelled (cancel_remaining), its rows end, are resumed and are      *)
(* deleted, and the server dies.  Single jobs take from the same capacity. *)
(* A resumption takes what it needs: it does not count the active rows.    *)
(***************************************************************************)
EXTENDS Integers, FiniteSets

CONSTANTS
  Source,   \* the saved sources, which never change
  Thread,   \* threads of the server
  Capacity, \* max_queue
  Spans,    \* the deadlines that may be asked for, in instants
  PreviewLeast, PreviewMost, \* the limits of the time that a preview is good for
  MaxTime,  \* bound of the clock
  MaxBatch, \* bound of the previews
  MaxSingles, \* bound of the single jobs there are at once
  MaxLife   \* bound of the starts of the server

VARIABLES
  clock,   \* the time
  life,    \* the running server process: its batch_approval_key
  issued,  \* the digests that were given out: a key and the manifest under it
  handler, \* for each thread the manifest that it confirms and the items to prepare
  rows,    \* the rows of batches
  singles, \* the number of single jobs in each status but the last
  gone     \* rows that were deleted

vars == <<clock, life, issued, handler, rows, singles, gone>>

\* admitted and resumed: active, and how it came to be; stopped: cancelled,
\* interrupted, partial or failed so that it may be resumed; over: any other end.
Active == {"admitted", "resumed"}
Status == Active \union {"stopped", "over"}

NoManifest == [batch |-> 0, sources |-> {}, limit |-> 0, expires |-> 0, deadline |-> 0]
Idle       == [manifest |-> NoManifest, left |-> {}]

Init ==
  /\ clock = 0 /\ life = 1 /\ issued = {} /\ rows = {} /\ gone = {}
  /\ singles = [admitted |-> 0, resumed |-> 0, stopped |-> 0]
  /\ handler = [t \in Thread |-> Idle]

Becomes(t, h) == handler' = [handler EXCEPT ![t] = h]

InStatus(status) == singles[status] + Cardinality({r \in rows : r.status = status})

\* SELECT COUNT(*) over the active statuses
ActiveRows == InStatus("admitted") + InStatus("resumed")

Tick == clock < MaxTime /\ clock' = clock + 1 /\ UNCHANGED <<life, issued, handler, rows, singles, gone>>

-----------------------------------------------------------------------------
(* Preview and confirmation *)

\* A preview is good for half of the time that the jobs have, within its limits.
PreviewTime(span) ==
  LET half == span \div 2 IN
  IF half < PreviewLeast THEN PreviewLeast ELSE IF half > PreviewMost THEN PreviewMost ELSE half

\* A preview of at least two sources under a new batch identifier.
Preview ==
  /\ Cardinality(issued) < MaxBatch
  /\ \E sources \in SUBSET Source, span \in Spans :
       /\ Cardinality(sources) >= 2
       /\ issued' = issued \union
            {[key |-> life,
              manifest |-> [batch |-> Cardinality(issued) + 1, sources |-> sources, limit |-> 1,
                            expires |-> clock + PreviewTime(span), deadline |-> clock + span]]}
  /\ UNCHANGED <<clock, life, handler, rows, singles, gone>>

\* What a client may bring back with a digest.
Edited(manifest) ==
  {manifest, [manifest EXCEPT !.limit = 2], [manifest EXCEPT !.deadline = @ + 1]}
    \union {[manifest EXCEPT !.sources = @ \ {s}] : s \in manifest.sources}

\* Mutant: the digest is that of the batch identifier.
MatchesBatch(digest, manifest) == digest.key = life /\ digest.manifest.batch = manifest.batch

\* _approval_digest: an HMAC over the manifest, under a key that is lost with
\* the process.
Matches(digest, manifest) == digest = [key |-> life, manifest |-> manifest]

\* The manifest is the one of a preview of this process that has not expired.
Confirm(t) ==
  /\ handler[t] = Idle
  /\ \E digest \in issued : \E manifest \in Edited(digest.manifest) :
       /\ Matches(digest, manifest)
       /\ clock < manifest.expires
       /\ Becomes(t, [manifest |-> manifest, left |-> manifest.sources])
  /\ UNCHANGED <<clock, life, issued, rows, singles, gone>>

\* registry.prepare of one item, which may take its time.
PrepareItem(t) ==
  /\ clock < handler[t].manifest.deadline
  /\ \E s \in handler[t].left : Becomes(t, [handler[t] EXCEPT !.left = @ \ {s}])
  /\ UNCHANGED <<clock, life, issued, rows, singles, gone>>

\* The rows that the batch has already keep their approval: it must be this one.
Agrees(manifest) ==
  \A r \in rows : r.batch = manifest.batch =>
    r.limit = manifest.limit /\ r.deadline = manifest.deadline

\* The sources of a batch whose idempotency key has no row.
Missing(manifest) ==
  manifest.sources \ {r.source : r \in {q \in rows : q.batch = manifest.batch}}

\* submit_batch, under the storage lock: what has a row is returned, whatever
\* became of it, and the rest is inserted, if there is room for all of it.
Admit(t) ==
  LET manifest == handler[t].manifest
      missing  == Missing(manifest) IN
  /\ manifest # NoManifest /\ handler[t].left = {}
  /\ clock < manifest.deadline /\ Agrees(manifest)
  /\ missing = {} \/ ActiveRows + Cardinality(missing) <= Capacity
  /\ rows' = rows \union
       {[batch |-> manifest.batch, source |-> s, limit |-> manifest.limit,
         deadline |-> manifest.deadline, admitted |-> clock, life |-> life,
         status |-> "admitted"] : s \in missing}
  /\ Becomes(t, Idle)
  /\ UNCHANGED <<clock, life, issued, singles, gone>>

\* Refused: too late, no session, no room; or there is nobody left to answer.
Refuse(t) ==
  /\ handler[t] # Idle /\ Becomes(t, Idle)
  /\ UNCHANGED <<clock, life, issued, rows, singles, gone>>

\* create_job: a plan that is the one of its request, without a key, so that a
\* repeated call is another job.
CreateJob ==
  /\ ActiveRows < Capacity
  /\ singles.admitted + singles.resumed + singles.stopped < MaxSingles
  /\ singles' = [singles EXCEPT !.admitted = @ + 1]
  /\ UNCHANGED <<clock, life, issued, handler, rows, gone>>

-----------------------------------------------------------------------------
(* What becomes of the rows *)

Turned(some, status) ==
  rows' = (rows \ some) \union {[r EXCEPT !.status = status] : r \in some}

End ==
  /\ \E row \in rows, status \in Status \ Active : row.status \in Active /\ Turned({row}, status)
  /\ UNCHANGED <<clock, life, issued, handler, singles, gone>>

EndSingle ==
  /\ \E status \in Active :
       /\ singles[status] > 0
       /\ \/ singles' = [singles EXCEPT ![status] = @ - 1]
          \/ singles' = [singles EXCEPT ![status] = @ - 1, !.stopped = @ + 1]
  /\ UNCHANGED <<clock, life, issued, handler, rows, gone>>

\* resume_job: the row is active again as it was approved, however many others
\* are.  What jobs.resume compares with max_queue before, the queue in memory,
\* may hold fewer jobs than the table and may refuse: the step need not be taken.
Resume ==
  /\ \E row \in rows : /\ row.status = "stopped" /\ clock < row.deadline
                       /\ Turned({row}, "resumed")
  /\ UNCHANGED <<clock, life, issued, handler, singles, gone>>

ResumeSingle ==
  /\ singles.stopped > 0
  /\ singles' = [singles EXCEPT !.stopped = @ - 1, !.resumed = @ + 1]
  /\ UNCHANGED <<clock, life, issued, handler, rows, gone>>

Delete ==
  /\ \E row \in rows : /\ row.status \notin Active
                       /\ rows' = rows \ {row}
                       /\ gone' = gone \union {<<row.batch, row.source>>}
  /\ UNCHANGED <<clock, life, issued, handler, singles>>

DeleteSingle ==
  /\ singles.stopped > 0 /\ singles' = [singles EXCEPT !.stopped = @ - 1]
  /\ UNCHANGED <<clock, life, issued, handler, rows, gone>>

\* cancel_remaining: the rows of a batch that are active, one transaction each
\* under the storage lock.
CancelBatch ==
  /\ \E batch \in 1..MaxBatch :
       LET active == {r \in rows : r.batch = batch /\ r.status \in Active} IN
       active # {} /\ Turned(active, "stopped")
  /\ UNCHANGED <<clock, life, issued, handler, singles, gone>>

\* The server dies, possibly in the middle of a cancellation.
Crash ==
  /\ life < MaxLife /\ life' = life + 1
  /\ handler' = [t \in Thread |-> Idle]
  /\ \E batch \in 1..MaxBatch :
       \E some \in SUBSET {r \in rows : r.batch = batch /\ r.status \in Active} :
         Turned(some, "stopped")
  /\ UNCHANGED <<clock, issued, singles, gone>>

Next ==
  \/ Tick \/ Preview \/ CreateJob \/ End \/ EndSingle \/ Resume \/ ResumeSingle
  \/ Delete \/ DeleteSingle \/ CancelBatch \/ Crash
  \/ \E t \in Thread : Confirm(t) \/ PrepareItem(t) \/ Admit(t) \/ Refuse(t)

Spec == Init /\ [][Next]_vars

-----------------------------------------------------------------------------
(* Properties *)

\* Whoever confirms, resumes and deletes what, how often and how late: a row is
\* what the process that admitted it had shown, was admitted before its
\* deadline, and is there with all rows of its batch but those that were
\* deleted.  The jobs that are active since their admission keep to the
\* capacity; what is active beyond it was resumed.
ApprovalHonoured ==
  /\ \A r \in rows : \E digest \in issued :
       LET m == digest.manifest IN
       /\ m.batch = r.batch /\ digest.key = r.life
       /\ r.source \in m.sources /\ r.limit = m.limit /\ r.deadline = m.deadline
       /\ r.admitted < r.deadline
       /\ \A s \in m.sources : \/ \E q \in rows : q.batch = m.batch /\ q.source = s
                               \/ <<m.batch, s>> \in gone
  /\ InStatus("admitted") <= Capacity
=============================================================================
