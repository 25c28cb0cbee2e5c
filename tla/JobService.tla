----------------------------- MODULE JobService -----------------------------
(***************************************************************************)
(* The service of xworkbench/jobs.py over the durable table (JobStore) and *)
(* the in-process queue (Scheduler): HTTP handler threads that submit,     *)
(* cancel, resume and delete, worker threads that lease and collect, and a *)
(* process that stops, crashes and starts again.                           *)
(*                                                                         *)
(* A step is a section under one of the two locks: a transaction under     *)
(* _storage_lock, or a critical section of the Condition.  Only a          *)
(* submission keeps the storage lock while it waits for the condition.     *)
(***************************************************************************)
EXTENDS Integers, SequencesExt

CONSTANTS
  JobId, Request, Post, ReportedCode,
  Thread,        \* worker threads of a process
  Client,        \* threads that handle HTTP requests
  Calls,         \* the calls that clients make, a subset of CallName
  Faults,        \* "crash", "shutdown": how a process may end; "pause": the governor
  LeaseTime,     \* lease_seconds
  MaxQueue,      \* max_queue, also the capacity of the admissions
  MaxTime, MaxSequence, MaxAttempts,  \* bounds of JobStore
  MaxEpoch,      \* bound of the number of processes
  NoKey, NoBatch, NoWorker, NoRequest, NoItem, NoClient, UnknownAuth

CallName == {"submit", "submit_batch", "cancel", "resume", "delete"}

\* The request of a migrated row: JobStore asks for one, no row here is migrated.
LegacyRequest == [key |-> NoKey, batch |-> NoBatch, source |-> NoRequest, auth |-> UnknownAuth,
                  priority |-> 0, deadline |-> MaxTime]

\* worker_id names the process and the thread.
Owner == (1..MaxEpoch) \X Thread

\* What a row is queued as: its own priority, or 0 after a resumption; a row
\* that is gone is routed by its id.
ItemOf(j, q)   == [job |-> j, priority |-> q.priority, source |-> q.source, auth |-> q.auth]
Resumed(j, q)  == [ItemOf(j, q) EXCEPT !.priority = 0]
Unroutable(j)  == [job |-> j, priority |-> 0, source |-> j, auth |-> UnknownAuth]
Item == {ItemOf(j, q) : j \in JobId, q \in Request} \union {Resumed(j, q) : j \in JobId, q \in Request}
        \union {Unroutable(j) : j \in JobId}

VARIABLES
  jobs, obs, fts, lastStatus, now,                               \* JobStore
  lanes, order, known, active, activeSources, activeAuth,        \* Scheduler
  inbox, phase, held, paused, stop,
  process,  \* "serving", "recovering", "requeued", "loading", "down" or "failed"
  epoch,    \* the number of the process
  guard,    \* the client that keeps the storage lock between two steps
  client,   \* where every client stands in its call
  task      \* where every worker stands in run_once

storeVars == <<jobs, obs, fts, lastStatus, now>>
schedVars == <<lanes, order, known, active, activeSources, activeAuth, inbox, phase, held,
               paused, stop>>
vars == <<storeVars, schedVars, process, epoch, guard, client, task>>

Store == INSTANCE JobStore
           WITH Worker <- Owner, Legacy <- {}, SavedSource <- {}, Capacity <- MaxQueue,
                MaxUsage <- 0
Sched == INSTANCE Scheduler WITH Worker <- Thread, Calls <- {}

ASSUME JobServiceAssumption ==
  /\ Calls \subseteq CallName /\ Faults \subseteq {"crash", "shutdown", "pause"}
  /\ JobId \subseteq Nat \ {0} /\ IsFiniteSet(JobId) /\ IsFiniteSet(Request) /\ IsFiniteSet(Post)
  /\ \A q \in Request : /\ Store!RequestShape(q)
                        /\ q.deadline \in 1..MaxTime /\ q.priority \in Nat
  /\ ReportedCode \subseteq Store!NotRequeued \union {"provider_error"}
  /\ LeaseTime \in Nat \ {0} /\ MaxQueue \in Nat \ {0} /\ MaxEpoch \in Nat \ {0}
  /\ MaxTime \in Nat \ {0} /\ MaxSequence \in Nat /\ MaxAttempts \in Nat
  /\ NoRequest \notin Request \union {LegacyRequest} /\ NoWorker \notin Owner
  /\ NoItem \notin Item /\ NoClient \notin Client

Idle == [step |-> "idle", job |-> 0, items |-> <<>>]

Init ==
  /\ jobs = [j \in JobId |-> Store!NoRow] /\ obs = {} /\ fts = {} /\ lastStatus = <<>> /\ now = 1
  /\ Sched!Init
  /\ process = "serving" /\ epoch = 1
  /\ guard = NoClient /\ client = [c \in Client |-> Idle]
  /\ task = [t \in Thread |-> "none"]

StorageFree == guard = NoClient
Jobs(S) == {i.job : i \in S}
Goes(c, step) == client' = [client EXCEPT ![c].step = step]

-----------------------------------------------------------------------------
(* Submission *)

Begins(c, call) == process = "serving" /\ call \in Calls /\ client[c].step = "idle"

\* A new row has an id that was never used: the smallest such one stands for all.
FreshId(j) == jobs[j].status = "absent" /\ \A k \in JobId : k < j => jobs[k].status # "absent"

\* submit: the admission creates a row, or finds the one that holds the key.
\* The storage lock stays taken.  A full queue changes nothing.
SubmitCall(c, q) ==
  /\ Begins(c, "submit") /\ stop = "no" /\ StorageFree
  /\ \/ \E j \in JobId :
          /\ FreshId(j) /\ Store!AdmitJob(q, j)
          /\ client' = [client EXCEPT ![c] =
                          [step |-> "admitted", job |-> j, items |-> <<ItemOf(j, q)>>]]
     \/ \E j \in Store!Existing(q) :
          /\ ~Store!KeyClash(q) /\ q.batch = NoBatch
          /\ client' = [client EXCEPT ![c] =
                          [step |-> "existing", job |-> j, items |-> <<ItemOf(j, q)>>]]
          /\ UNCHANGED storeVars
  /\ guard' = c
  /\ UNCHANGED <<schedVars, process, epoch, task>>

\* known_locally, then get_job: an existing row is queued again only if this
\* process does not know it.
SubmitLook(c) ==
  /\ client[c].step = "existing" /\ Sched!LockFree
  /\ LET j == client[c].job IN
     IF j \in Jobs(known) \union Jobs(active) \/ jobs[j].status # "queued"
       THEN client' = [client EXCEPT ![c] = Idle] /\ guard' = NoClient /\ phase' = Sched!Notified
       ELSE Goes(c, "admitted") /\ UNCHANGED <<guard, phase>>
  /\ UNCHANGED <<storeVars, lanes, order, known, active, activeSources, activeAuth, inbox, held,
                 paused, stop, process, epoch, task>>

\* The queued rows of a batch as items, in the order of their sequence numbers.
BatchItems(table, batch) ==
  LET rows == {j \in JobId : table[j].status = "queued" /\ table[j].req \in batch} IN
  [n \in 1..Cardinality(rows) |->
     LET j == CHOOSE k \in rows : Cardinality({i \in rows : table[i].seq < table[k].seq}) = n - 1
     IN  ItemOf(j, table[j].req)]

\* submit_batch: every item is admitted, or all of them were before.
BatchCall(c, batch) ==
  /\ Begins(c, "submit_batch") /\ stop = "no" /\ StorageFree
  /\ \E b \in {q.batch : q \in batch} :
       \/ Store!AdmitBatch(batch, b)
       \/ /\ b # NoBatch /\ Store!NewItems(batch) = {} /\ Store!ManifestAgrees(batch, b)
          /\ \A q \in batch : ~Store!KeyClash(q)
          /\ UNCHANGED storeVars
  /\ LET items == BatchItems(jobs', batch) IN
     /\ items # <<>>
     /\ client' = [client EXCEPT ![c] = [step |-> "batched", job |-> 0, items |-> items]]
  /\ guard' = c
  /\ UNCHANGED <<schedVars, process, epoch, task>>

\* The caller takes the condition to enqueue.
EnqueueCall(c) ==
  /\ client[c].step \in {"admitted", "batched", "routed"}
  /\ Sched!Submit(client[c].items)
  /\ Goes(c, IF client[c].step = "batched" THEN "enqueuing batch" ELSE "enqueuing")
  /\ UNCHANGED <<storeVars, process, epoch, guard, task>>

\* One item of the loop; after the last one the call returns and gives the
\* storage lock back if it had it.
EnqueueItem(c) ==
  /\ client[c].step \in {"enqueuing", "enqueuing batch"}
  /\ Sched!SkipKnown \/ Sched!Enqueue
  /\ IF inbox' # <<>> THEN UNCHANGED <<client, guard>>
     ELSE /\ client' = [client EXCEPT ![c] = Idle]
          /\ guard' = IF guard = c THEN NoClient ELSE guard
  /\ UNCHANGED <<storeVars, process, epoch, task>>

\* QueueFullError after the admission was committed.
EnqueueFull(c) ==
  /\ client[c].step \in {"enqueuing", "enqueuing batch"}
  /\ Sched!Overflow
  /\ Goes(c, IF client[c].step = "enqueuing" THEN "refused" ELSE "batch refused")
  /\ guard' = IF guard = c THEN NoClient ELSE guard
  /\ UNCHANGED <<storeVars, process, epoch, task>>

\* The error reaches the caller.
Refuse(c) ==
  /\ client[c].step \in {"refused", "batch refused"}
  /\ client' = [client EXCEPT ![c] = Idle]
  /\ UNCHANGED <<storeVars, schedVars, process, epoch, guard, task>>

-----------------------------------------------------------------------------
(* Cancellation, resumption, deletion *)

\* cancel: the row first, the queue in a second section.
CancelCall(c, j) ==
  /\ Begins(c, "cancel") /\ StorageFree
  /\ Store!RequestCancel(j)
  /\ client' = [client EXCEPT ![c] = [step |-> "cancelled", job |-> j, items |-> <<>>]]
  /\ UNCHANGED <<schedVars, process, epoch, guard, task>>

CancelForget(c) ==
  /\ client[c].step = "cancelled"
  /\ Sched!Withdraw(client[c].job)
  /\ client' = [client EXCEPT ![c] = Idle]
  /\ UNCHANGED <<storeVars, process, epoch, guard, task>>

\* resume of a row that there is: the capacity, the row, the routing and the
\* queue are four sections.
ResumeCall(c, j) ==
  /\ Begins(c, "resume") /\ Sched!LockFree
  /\ jobs[j].status \in Store!JobStatus /\ Cardinality(known) < MaxQueue
  /\ client' = [client EXCEPT ![c] = [step |-> "resuming", job |-> j, items |-> <<>>]]
  /\ UNCHANGED <<storeVars, schedVars, process, epoch, guard, task>>

ResumeRow(c) ==
  /\ client[c].step = "resuming" /\ StorageFree
  /\ \/ Store!ResumeJob(client[c].job) /\ Goes(c, "resumed")
     \/ /\ ~Store!CanResume(client[c].job)
        /\ client' = [client EXCEPT ![c] = Idle] /\ UNCHANGED storeVars
  /\ UNCHANGED <<schedVars, process, epoch, guard, task>>

\* _job_routing
ResumeRoute(c) ==
  /\ client[c].step = "resumed" /\ StorageFree
  /\ LET j == client[c].job
         i == IF jobs[j].status \in Store!JobStatus THEN Resumed(j, jobs[j].req) ELSE Unroutable(j)
     IN  client' = [client EXCEPT ![c] = [@ EXCEPT !.step = "routed", !.items = <<i>>]]
  /\ UNCHANGED <<storeVars, schedVars, process, epoch, guard, task>>

\* The route calls Storage.delete_job without the storage lock.
DeleteCall(j) ==
  /\ process = "serving" /\ "delete" \in Calls
  /\ Store!DeleteJob(j)
  /\ UNCHANGED <<schedVars, process, epoch, guard, client, task>>

ClientStep(c) ==
  \/ SubmitLook(c) \/ EnqueueCall(c) \/ EnqueueItem(c) \/ EnqueueFull(c) \/ Refuse(c)
  \/ CancelForget(c) \/ ResumeRow(c) \/ ResumeRoute(c)

-----------------------------------------------------------------------------
(* Workers *)

Mine(t)     == held[t].job
OwnerOf(t)  == <<epoch, t>>
Moves(t, x) == task' = [task EXCEPT ![t] = x]
Running     == process = "serving"

TakeJob(t) ==
  /\ Running /\ Sched!Dispatch(t) /\ Moves(t, "taken")
  /\ UNCHANGED <<storeVars, process, epoch, guard, client>>

\* The other steps of the worker loop.
LoopStep(t) ==
  /\ Running
  /\ \/ Sched!Sleep(t) \/ Sched!DozeOver(t) \/ Sched!Exit(t)
     \/ "pause" \in Faults /\ Sched!Doze(t)
  /\ UNCHANGED <<storeVars, process, epoch, guard, client, task>>

\* run_once: a row that cannot be leased is dropped without a trace.
LeaseStep(t) ==
  /\ task[t] = "taken" /\ StorageFree
  /\ IF Store!CanLease(Mine(t), now + LeaseTime)
       THEN Store!LeaseJob(Mine(t), OwnerOf(t), now + LeaseTime) /\ Moves(t, "collecting")
       ELSE Moves(t, "done") /\ UNCHANGED storeVars
  /\ UNCHANGED <<schedVars, process, epoch, guard, client>>

\* on_batch; a row that is no longer running takes nothing.
Persist(t, batch) ==
  /\ task[t] = "collecting" /\ StorageFree
  /\ Store!AddPosts(Mine(t), batch, 0)
  /\ UNCHANGED <<schedVars, process, epoch, guard, client, task>>

\* Mutant: a failed heartbeat ends the collection without a word.
HeartbeatAbandons(t) ==
  /\ task[t] = "collecting" /\ StorageFree /\ stop = "no"
  /\ \/ Store!HeartbeatJob(Mine(t), OwnerOf(t), now + LeaseTime) /\ UNCHANGED task
     \/ /\ ~Store!CanHeartbeat(Mine(t), OwnerOf(t), now + LeaseTime)
        /\ Moves(t, "done") /\ UNCHANGED storeVars
  /\ UNCHANGED <<schedVars, process, epoch, guard, client>>

\* should_cancel when a heartbeat is due.
Heartbeat(t) ==
  /\ task[t] = "collecting" /\ StorageFree /\ stop = "no"
  /\ LET j == Mine(t) IN
     \/ Store!HeartbeatJob(j, OwnerOf(t), now + LeaseTime) /\ UNCHANGED task
     \/ /\ ~Store!CanHeartbeat(j, OwnerOf(t), now + LeaseTime)
        /\ Moves(t, IF jobs[j].cancel THEN "cancelling" ELSE "lost")
        /\ UNCHANGED storeVars
  /\ UNCHANGED <<schedVars, process, epoch, guard, client>>

\* should_cancel that returns True.
NoticeCancel(t) ==
  /\ task[t] = "collecting"
  /\ stop # "no" \/ (StorageFree /\ jobs[Mine(t)].cancel)
  /\ Moves(t, "cancelling")
  /\ UNCHANGED <<storeVars, schedVars, process, epoch, guard, client>>

\* The provider returns, or raises an error of its own.
Returns(t) ==
  /\ task[t] = "collecting"
  /\ \E end \in {"finishing"} \union (IF ReportedCode = {} THEN {} ELSE {"failing"}) : Moves(t, end)
  /\ UNCHANGED <<storeVars, schedVars, process, epoch, guard, client>>

\* A transition of the row of t, which the store refuses to anyone but its owner.
Reports(t, allowed, Write) ==
  /\ StorageFree
  /\ IF Store!CanTransition(Mine(t), allowed, OwnerOf(t)) THEN Write ELSE UNCHANGED storeVars
  /\ Moves(t, "done")
  /\ UNCHANGED <<schedVars, process, epoch, guard, client>>

FinishStep(t) ==
  /\ task[t] = "finishing"
  /\ \E partial \in BOOLEAN :
       Reports(t, {"running"}, Store!FinishJob(Mine(t), partial, OwnerOf(t)))

Interruption == [status |-> "interrupted", code |-> "interrupted", retryable |-> TRUE]
Cancellation == [status |-> "cancelled", code |-> "cancelled", retryable |-> TRUE]

\* Mutant: a collection that the shutdown ends is reported by nobody.
CancelledUnreported(t) ==
  /\ task[t] = "cancelling" /\ StorageFree
  /\ IF stop = "no" /\ Store!CanTransition(Mine(t), Store!Active, OwnerOf(t))
       THEN Store!FailJob(Mine(t), Cancellation, OwnerOf(t)) ELSE UNCHANGED storeVars
  /\ Moves(t, "done")
  /\ UNCHANGED <<schedVars, process, epoch, guard, client>>

\* _handle_collection_error of a CollectionCancelled.
CancelledStep(t) ==
  /\ task[t] = "cancelling"
  /\ Reports(t, Store!Active,
             Store!FailJob(Mine(t), IF stop = "no" THEN Cancellation ELSE Interruption, OwnerOf(t)))

\* _handle_collection_error of any other error: a shutdown makes it an
\* interruption, a failed heartbeat can be retried.
FailedStep(t) ==
  /\ task[t] \in {"failing", "lost"}
  /\ LET status == IF jobs[Mine(t)].collected > 0 THEN "partial" ELSE "failed"
         failures ==
           CASE stop # "no"        -> {Interruption}
             [] task[t] = "lost"   -> {[status |-> status, code |-> "provider_error", retryable |-> TRUE]}
             [] OTHER              -> {f \in Store!Failure : f.status = status}
     IN  \E f \in failures : Reports(t, Store!Active, Store!FailJob(Mine(t), f, OwnerOf(t)))

\* A provider that has run out of its rate limit and may wait.
RateLimitedStep(t) ==
  /\ task[t] = "failing" /\ stop = "no" /\ "rate_limited" \in ReportedCode
  /\ Reports(t, {"running"}, Store!WaitJob(Mine(t), OwnerOf(t)))

\* Mutant: an error of the read skips the rest of the finally clause.
ReadBackRaises(t) ==
  /\ task[t] = "done" /\ StorageFree /\ Moves(t, "none")
  /\ UNCHANGED <<storeVars, schedVars, process, epoch, guard, client>>

\* The finally clause reads the row once more and then frees the slots.
ReadBack(t) ==
  /\ task[t] = "done" /\ StorageFree /\ Moves(t, "leaving")
  /\ UNCHANGED <<storeVars, schedVars, process, epoch, guard, client>>

LeaveJob(t) ==
  /\ task[t] = "leaving" /\ Sched!Done(t) /\ Moves(t, "none")
  /\ UNCHANGED <<storeVars, process, epoch, guard, client>>

\* The steps of a worker but taking a job and extending its lease.
OwnStep(t) ==
  \/ LoopStep(t) \/ LeaseStep(t) \/ NoticeCancel(t) \/ Returns(t)
  \/ FinishStep(t) \/ CancelledStep(t) \/ FailedStep(t) \/ RateLimitedStep(t)
  \/ ReadBack(t) \/ LeaveJob(t)

WorkerStep(t) == TakeJob(t) \/ Heartbeat(t) \/ OwnStep(t)

-----------------------------------------------------------------------------
(* The process *)

\* Everything in memory is gone; the table stays.
MemoryLost ==
  /\ lanes' = [l \in Sched!Lane |-> <<>>] /\ order' = [p \in Sched!Priority |-> <<>>]
  /\ known' = {} /\ active' = {} /\ activeSources' = {} /\ activeAuth' = {} /\ inbox' = <<>>
  /\ phase' = [t \in Thread |-> "scanning"] /\ held' = [t \in Thread |-> NoItem]
  /\ paused' = FALSE /\ stop' = "no"
  /\ guard' = NoClient /\ client' = [c \in Client |-> Idle] /\ task' = [t \in Thread |-> "none"]

Crash ==
  /\ "crash" \in Faults /\ process \in {"serving", "recovering", "requeued", "loading"}
  /\ process' = "down" /\ MemoryLost
  /\ UNCHANGED <<storeVars, epoch>>

\* shutdown: set the event, notify, join the threads, release the lock.
Shutdown ==
  /\ "shutdown" \in Faults /\ process = "serving"
  /\ Sched!SetStop \/ Sched!TellStop
  /\ UNCHANGED <<storeVars, process, epoch, guard, client, task>>

ShutdownEnds ==
  /\ process = "serving" /\ stop = "told" /\ \A t \in Thread : phase[t] = "exited"
  /\ process' = "down" /\ MemoryLost
  /\ UNCHANGED <<storeVars, epoch>>

Restart ==
  /\ process \in {"down", "failed"} /\ epoch < MaxEpoch
  /\ process' = "recovering" /\ epoch' = epoch + 1
  /\ UNCHANGED <<storeVars, schedVars, guard, client, task>>

\* The rows that the first pass of recover_jobs ends.
Recoverable(j) ==
  /\ jobs[j].status \in Store!Active
  /\ jobs[j].cancel \/ jobs[j].status = "waiting" \/ Store!Blocked(j)

Recover ==
  /\ process = "recovering"
  /\ \/ \E j \in JobId : Recoverable(j) /\ Store!RecoverRow(j) /\ UNCHANGED process
     \/ /\ \A j \in JobId : ~Recoverable(j)
        /\ \/ Store!RequeueAbandoned
           \/ (\A j \in JobId : ~Store!Abandoned(j)) /\ UNCHANGED storeVars
        /\ process' = "requeued"
  /\ UNCHANGED <<schedVars, epoch, guard, client, task>>

\* Mutant: only rows that were never leased are queued again.
QueuedUntried == {j \in JobId : jobs[j].status = "queued" /\ ~jobs[j].cancel /\ jobs[j].attempt = 0}

\* Storage.list_queued_jobs: higher priorities first, then a turn of every
\* source before the next turn, the source with the oldest row first.
Queued == {j \in JobId : jobs[j].status = "queued" /\ ~jobs[j].cancel}
SameLane(j) == {k \in Queued : /\ jobs[k].req.priority = jobs[j].req.priority
                               /\ jobs[k].req.source = jobs[j].req.source}
SourceTurn(j) == Cardinality({k \in SameLane(j) : jobs[k].seq <= jobs[j].seq})
SourceFirst(j) == CHOOSE n \in {jobs[k].seq : k \in SameLane(j)} : \A k \in SameLane(j) : n <= jobs[k].seq
Before(j, k) ==
  \/ jobs[j].req.priority > jobs[k].req.priority
  \/ /\ jobs[j].req.priority = jobs[k].req.priority
     /\ \/ SourceTurn(j) < SourceTurn(k)
        \/ SourceTurn(j) = SourceTurn(k) /\ SourceFirst(j) < SourceFirst(k)
QueuedList ==
  LET ranked == [n \in 1..Cardinality(Queued) |->
                   CHOOSE j \in Queued : Cardinality({k \in Queued : Before(k, j)}) = n - 1]
  IN  [n \in DOMAIN ranked |-> ItemOf(ranked[n], jobs[ranked[n]].req)]

Load ==
  /\ process = "requeued"
  /\ inbox' = QueuedList
  /\ process' = IF Queued = {} THEN "serving" ELSE "loading"
  /\ UNCHANGED <<storeVars, lanes, order, known, active, activeSources, activeAuth, phase, held,
                 paused, stop, epoch, guard, client, task>>

LoadItem ==
  /\ process = "loading"
  /\ Sched!SkipKnown \/ Sched!Enqueue
  /\ process' = IF inbox' = <<>> THEN "serving" ELSE process
  /\ UNCHANGED <<storeVars, epoch, guard, client, task>>

\* start() that raises QueueFullError: the process ends.
LoadFull ==
  /\ process = "loading" /\ ~Sched!IsKnown(Head(inbox)) /\ Cardinality(known) >= MaxQueue
  /\ process' = "failed" /\ MemoryLost
  /\ UNCHANGED <<storeVars, epoch>>

Tick == Store!Tick /\ UNCHANGED <<schedVars, process, epoch, guard, client, task>>

Next ==
  \/ \E c \in Client, q \in Request : SubmitCall(c, q)
  \/ \E c \in Client, batch \in SUBSET Request : BatchCall(c, batch)
  \/ \E c \in Client, j \in JobId : CancelCall(c, j) \/ ResumeCall(c, j)
  \/ \E j \in JobId : DeleteCall(j)
  \/ \E c \in Client : ClientStep(c)
  \/ \E t \in Thread : WorkerStep(t)
  \/ \E t \in Thread, batch \in SUBSET Post : Persist(t, batch)
  \/ Crash \/ Shutdown \/ ShutdownEnds \/ Restart \/ Recover \/ Load \/ LoadItem \/ LoadFull
  \/ Tick

Spec == Init /\ [][Next]_vars

\* A process that runs makes progress: handlers return, a thread that keeps
\* asking for a lock gets it, captures end, the governor does not pause for
\* ever, the start-up completes.  Nothing makes a process end or start, a
\* client call or the clock move.
Fairness ==
  /\ \A c \in Client : SF_vars(ClientStep(c))
  /\ \A t \in Thread : SF_vars(TakeJob(t)) /\ SF_vars(OwnStep(t))
  /\ WF_vars(Recover) /\ WF_vars(Load) /\ WF_vars(LoadItem) /\ WF_vars(LoadFull)

FairSpec == Spec /\ Fairness

-----------------------------------------------------------------------------
(* Properties *)

Collecting == {"collecting", "finishing", "failing", "lost", "cancelling"}

\* Every variable of the composition holds a value of its domain.
TypeOK ==
  /\ Store!TypeOK /\ Sched!TypeOK
  /\ process \in {"serving", "recovering", "requeued", "loading", "down", "failed"}
  /\ epoch \in 1..MaxEpoch /\ guard \in Client \union {NoClient}
  /\ \A c \in Client : /\ client[c].job \in JobId \union {0} /\ client[c].items \in Seq(Item)
                       /\ client[c].step = "idle" => client[c] = Idle
  /\ \A t \in Thread : task[t] = "none" <=> held[t] = NoItem

\* Two captures that are under way never share a source or an auth state of
\* their durable rows, through every resumption, recovery and routing.
OneCapturePerSourceAndAuth ==
  \A t, u \in Thread : t # u /\ task[t] \in Collecting /\ task[u] \in Collecting =>
    /\ Mine(t) # Mine(u)
    /\ jobs[Mine(t)].req.source # jobs[Mine(u)].req.source
    /\ jobs[Mine(t)].req.auth # jobs[Mine(u)].req.auth

\* A lease of the running process has the worker behind it that took it, and
\* no worker collects for a row that another one has leased: a cancelled and
\* resumed job is never leased again before its first worker has let go of it.
EveryLeaseHasItsWorker ==
  process = "serving" =>
    /\ \A j \in JobId : jobs[j].status = "running" /\ jobs[j].owner[1] = epoch =>
         \E t \in Thread : jobs[j].owner = OwnerOf(t) /\ held[t] # NoItem /\ Mine(t) = j
                          /\ task[t] \in Collecting
    /\ \A t \in Thread : task[t] \in Collecting =>
         jobs[Mine(t)].owner \in {OwnerOf(t), NoWorker}

\* Nobody is in the middle of anything.
Quiet ==
  /\ process = "serving" /\ stop = "no" /\ Sched!LockFree
  /\ \A c \in Client : client[c].step = "idle"
  /\ \A t \in Thread : task[t] = "none"

\* A row that is queued and still has time for a lease is known to the process
\* that serves the table: no race leaves it behind in the table alone.
NoStrandedJob ==
  Quiet => \A j \in JobId :
    jobs[j].status = "queued" /\ now + LeaseTime <= jobs[j].deadline => j \in Jobs(known)

\* What waits in memory is queued in the table, but for a cancellation that is
\* still on its way: the capacity is not taken up by jobs that can never start.
PendingIsQueued ==
  process = "serving" => \A i \in known :
    \/ jobs[i.job].status = "queued"
    \/ \E c \in Client : client[c].step = "cancelled" /\ client[c].job = i.job

\* The in-memory queue and the table tell of the same queued rows.
QueueMatchesTable == NoStrandedJob /\ PendingIsQueued

\* "Running work is interrupted truthfully": when a shutdown has joined its
\* workers, none of its leases is left on a running row.
ShutdownInterruptsTruthfully ==
  [][ShutdownEnds => \A j \in Store!InState({"running"}) : jobs[j].owner[1] # epoch]_vars

\* Every queued job that is not cancelled starts, or runs out of time.
QueuedJobStarts ==
  \A j \in JobId :
    jobs[j].status = "queued" ~>
      \/ jobs[j].status # "queued" \/ now + LeaseTime > jobs[j].deadline
      \/ process # "serving" \/ stop # "no"

\* "All jobs are admitted atomically or none are admitted": a batch that is
\* refused because the queue is full has left no queued row.
RefusedBatchAdmitsNothing ==
  \A c \in Client : client[c].step = "batch refused" =>
    \A n \in DOMAIN client[c].items : jobs[client[c].items[n].job].status # "queued"
=============================================================================
