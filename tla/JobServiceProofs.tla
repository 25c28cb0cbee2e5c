--------------------------- MODULE JobServiceProofs ---------------------------
(***************************************************************************)
(* Proofs about JobService.  They rest on the theorems of its two parts:   *)
(* every step of the service is a step of the durable table, and keeps the *)
(* inductive invariant of the scheduler.                                   *)
(***************************************************************************)
EXTENDS JobService, SequenceTheorems, Counting

StoreP == INSTANCE JobStoreProofs
            WITH Worker <- Owner, Legacy <- {}, SavedSource <- {}, Capacity <- MaxQueue, MaxUsage <- 0
SchedP == INSTANCE SchedulerProofs WITH Worker <- Thread, Calls <- {}

-----------------------------------------------------------------------------
(* The assumptions of the parts hold                                        *)

\* The image of a finite set is finite.
LEMMA FiniteImage ==
  ASSUME NEW S, IsFiniteSet(S), NEW f, f = [x \in S |-> f[x]]
  PROVE  IsFiniteSet({f[x] : x \in S})
<1> DEFINE T == {f[x] : x \in S}
<1>1. f \in [S -> T]
  <2>1. [x \in S |-> f[x]] \in [S -> T]
    OBVIOUS
  <2> QED
    BY <2>1
<1>2. f \in Surjection(S, T)
  BY <1>1 DEF Surjection
<1> HIDE DEF T
<1> QED
  BY <1>2, FS_Surjection DEF T

LEMMA ItemsFinite == IsFiniteSet(Item)
<1> DEFINE P == JobId \X Request
           f == [e \in P |-> ItemOf(e[1], e[2])]
           g == [e \in P |-> Resumed(e[1], e[2])]
           h == [j \in JobId |-> Unroutable(j)]
<1>1. IsFiniteSet(P)
  BY JobServiceAssumption, FS_Product
<1>2. IsFiniteSet({f[e] : e \in P}) /\ IsFiniteSet({g[e] : e \in P}) /\ IsFiniteSet({h[j] : j \in JobId})
  <2>1. f = [e \in P |-> f[e]] /\ g = [e \in P |-> g[e]] /\ h = [j \in JobId |-> h[j]]
    OBVIOUS
  <2>2. IsFiniteSet(JobId)
    BY JobServiceAssumption
  <2> HIDE DEF f, g, h
  <2> QED
    BY <1>1, <2>1, <2>2, FiniteImage
<1>3. Item = ({f[e] : e \in P} \union {g[e] : e \in P}) \union {h[j] : j \in JobId}
  <2>1. ASSUME NEW j \in JobId, NEW q \in Request
        PROVE  <<j, q>> \in P /\ f[<<j, q>>] = ItemOf(j, q) /\ g[<<j, q>>] = Resumed(j, q)
    <3>1. <<j, q>> \in P /\ <<j, q>>[1] = j /\ <<j, q>>[2] = q
      OBVIOUS
    <3> HIDE DEF P
    <3>2. f[<<j, q>>] = ItemOf(<<j, q>>[1], <<j, q>>[2])
      BY <3>1
    <3>3. g[<<j, q>>] = Resumed(<<j, q>>[1], <<j, q>>[2])
      BY <3>1
    <3> QED
      BY <3>1, <3>2, <3>3
  <2>2. ASSUME NEW e \in P
        PROVE  /\ e[1] \in JobId /\ e[2] \in Request
               /\ f[e] = ItemOf(e[1], e[2]) /\ g[e] = Resumed(e[1], e[2])
    OBVIOUS
  <2>3. \A j \in JobId : h[j] = Unroutable(j)
    OBVIOUS
  <2> HIDE DEF f, g, h, P
  <2>4. Item \subseteq ({f[e] : e \in P} \union {g[e] : e \in P}) \union {h[j] : j \in JobId}
    <3>1. \A j \in JobId, q \in Request : ItemOf(j, q) \in {f[e] : e \in P}
      BY <2>1
    <3>2. \A j \in JobId, q \in Request : Resumed(j, q) \in {g[e] : e \in P}
      BY <2>1
    <3>3. \A j \in JobId : Unroutable(j) \in {h[k] : k \in JobId}
      BY <2>3
    <3> QED
      BY <3>1, <3>2, <3>3 DEF Item
  <2>5. ({f[e] : e \in P} \union {g[e] : e \in P}) \union {h[j] : j \in JobId} \subseteq Item
    BY <2>2, <2>3 DEF Item
  <2> QED
    BY <2>4, <2>5
<1> HIDE DEF f, g, h, P
<1> QED
  BY <1>2, <1>3, FS_Union

\* What an item is made of.
LEMMA ItemParts ==
  ASSUME NEW i \in Item
  PROVE  /\ i.job \in JobId /\ i.priority \in Nat
         /\ DOMAIN i = {"job", "priority", "source", "auth"}
BY JobServiceAssumption DEF Item, ItemOf, Resumed, Unroutable

\* A job of the table can be queued.
LEMMA RowItems ==
  ASSUME NEW j \in JobId
  PROVE  /\ Unroutable(j) \in Item /\ j \in SchedP!Job
         /\ \A q \in Request : ItemOf(j, q) \in Item /\ Resumed(j, q) \in Item
<1>1. Unroutable(j) \in Item /\ \A q \in Request : ItemOf(j, q) \in Item /\ Resumed(j, q) \in Item
  BY DEF Item
<1>2. Unroutable(j).job = j
  BY DEF Unroutable
<1> QED
  BY <1>1, <1>2 DEF SchedP!Job

LEMMA SchedulerAssumed ==
  /\ \A i \in Item : DOMAIN i = {"job", "priority", "source", "auth"}
  /\ SchedP!IsFiniteSet(Item) /\ SchedP!Priority \subseteq Nat
  /\ {} \subseteq Seq(Item) /\ MaxQueue \in Nat \ {0} /\ NoItem \notin Item
<1>1. SchedP!IsFiniteSet(Item)
  BY ItemsFinite DEF IsFiniteSet, SchedP!IsFiniteSet
<1>2. SchedP!Priority \subseteq Nat
  BY ItemParts DEF SchedP!Priority
<1> QED
  BY <1>1, <1>2, ItemParts, JobServiceAssumption

LEMMA StoreAssumed ==
  /\ JobId \subseteq Nat /\ StoreP!IsFiniteSet(JobId) /\ {} \subseteq JobId
  /\ StoreP!IsFiniteSet(Request) /\ StoreP!IsFiniteSet(Post)
  /\ \A q \in Request \union {LegacyRequest} : StoreP!RequestShape(q)
  /\ \A q \in Request \union {LegacyRequest} : q.deadline \in StoreP!Time
  /\ LegacyRequest.key = NoKey /\ LegacyRequest.batch = NoBatch
  /\ NoRequest \notin Request \union {LegacyRequest}
  /\ NoWorker \notin Owner
  /\ ReportedCode \subseteq StoreP!NotRequeued \union {"provider_error"}
  /\ MaxQueue \in Nat /\ MaxTime \in Nat \ {0} /\ MaxSequence \in Nat
  /\ MaxAttempts \in Nat /\ 0 \in Nat
<1>1. StoreP!IsFiniteSet(JobId) /\ StoreP!IsFiniteSet(Request) /\ StoreP!IsFiniteSet(Post)
  BY JobServiceAssumption DEF IsFiniteSet, StoreP!IsFiniteSet
<1>2. StoreP!NotRequeued = Store!NotRequeued
  BY DEF StoreP!NotRequeued, Store!NotRequeued, StoreP!NotResumable, Store!NotResumable
<1>3. \A q \in Request \union {LegacyRequest} :
         StoreP!RequestShape(q) /\ q.deadline \in StoreP!Time
  BY JobServiceAssumption DEF StoreP!RequestShape, Store!RequestShape, LegacyRequest, StoreP!Time
<1>4. LegacyRequest.key = NoKey /\ LegacyRequest.batch = NoBatch
  BY DEF LegacyRequest
<1> QED
  BY <1>1, <1>2, <1>3, <1>4, JobServiceAssumption

-----------------------------------------------------------------------------
(* The steps of the two parts are those of the modules the proofs are about *)

\* What JobService calls on the scheduler.
SchedulerStep ==
  \/ Sched!SkipKnown \/ Sched!Enqueue \/ Sched!Overflow
  \/ \E j \in JobId : Sched!Withdraw(j)
  \/ \E t \in Thread : \/ Sched!Dispatch(t) \/ Sched!Sleep(t) \/ Sched!Doze(t)
                       \/ Sched!DozeOver(t) \/ Sched!Done(t) \/ Sched!Exit(t)
  \/ Sched!SetStop \/ Sched!TellStop

LEMMA SameDispatch == ASSUME NEW t \in Thread, Sched!Dispatch(t) PROVE SchedP!Dispatch(t)
BY DEF Sched!Dispatch, SchedP!Dispatch, Sched!Scanning, SchedP!Scanning, Sched!LockFree,
   SchedP!LockFree, Sched!Priority, SchedP!Priority, Sched!Chosen, SchedP!Chosen,
   Sched!Open, SchedP!Open, Sched!Free, SchedP!Free, Sched!Turn, SchedP!Turn,
   Sched!LaneOf, SchedP!LaneOf, Sched!Rotated, SchedP!Rotated, Sched!PhasesAfterScan,
   SchedP!PhasesAfterScan, Sched!Notified, SchedP!Notified

LEMMA SchedulerMoves == SchedulerStep => SchedP!Next
<1> SUFFICES ASSUME SchedulerStep PROVE SchedP!Next
  OBVIOUS
<1>1. CASE Sched!SkipKnown
  <2>1. SchedP!SkipKnown
    BY <1>1
       DEF Sched!SkipKnown, SchedP!SkipKnown, Sched!IsKnown, SchedP!IsKnown, Sched!Jobs,
           SchedP!Jobs, Sched!Advance, SchedP!Advance, Sched!Notified, SchedP!Notified,
           Sched!queueVars, SchedP!queueVars, Sched!activeVars, SchedP!activeVars
  <2> QED
    BY <2>1 DEF SchedP!EnqueueStep, SchedP!Next
<1>2. CASE Sched!Enqueue
  <2>1. SchedP!Enqueue
    BY <1>2
       DEF Sched!Enqueue, SchedP!Enqueue, Sched!IsKnown, SchedP!IsKnown, Sched!Jobs,
           SchedP!Jobs, Sched!LaneOf, SchedP!LaneOf, Sched!Cardinality, SchedP!Cardinality,
           Sched!Advance, SchedP!Advance, Sched!Notified, SchedP!Notified, Sched!queueVars,
           SchedP!queueVars, Sched!activeVars, SchedP!activeVars
  <2> QED
    BY <2>1 DEF SchedP!EnqueueStep, SchedP!Next
<1>3. CASE Sched!Overflow
  <2>1. SchedP!Overflow
    BY <1>3
       DEF Sched!Overflow, SchedP!Overflow, Sched!IsKnown, SchedP!IsKnown, Sched!Jobs,
           SchedP!Jobs, Sched!Cardinality, SchedP!Cardinality, Sched!queueVars,
           SchedP!queueVars, Sched!activeVars, SchedP!activeVars
  <2> QED
    BY <2>1 DEF SchedP!EnqueueStep, SchedP!Next
<1>4. ASSUME NEW j \in JobId, Sched!Withdraw(j) PROVE SchedP!Next
  <2>1. SchedP!Withdraw(j)
    BY <1>4
       DEF Sched!Withdraw, SchedP!Withdraw, Sched!LockFree, SchedP!LockFree, Sched!Jobs,
           SchedP!Jobs, Sched!Removed, SchedP!Removed, Sched!RemoveAt, SchedP!RemoveAt,
           Sched!IndexOf, SchedP!IndexOf, Sched!LaneOf, SchedP!LaneOf, Sched!Notified,
           SchedP!Notified, Sched!queueVars, SchedP!queueVars, Sched!activeVars,
           SchedP!activeVars
  <2> QED
    BY <2>1, RowItems DEF SchedP!Next
<1>5. ASSUME NEW t \in Thread,
             \/ Sched!Dispatch(t) \/ Sched!Sleep(t) \/ Sched!Doze(t)
             \/ Sched!DozeOver(t) \/ Sched!Done(t) \/ Sched!Exit(t)
      PROVE  SchedP!Next
  <2>1. CASE Sched!Dispatch(t)
    <3>1. SchedP!Dispatch(t)
      BY <2>1, SameDispatch
    <3> QED
      BY <3>1 DEF SchedP!WorkerStep, SchedP!Next
  <2>2. CASE Sched!Sleep(t)
    <3>1. SchedP!Sleep(t)
      BY <2>2
         DEF Sched!Sleep, SchedP!Sleep, Sched!Scanning, SchedP!Scanning, Sched!LockFree,
             SchedP!LockFree, Sched!Priority, SchedP!Priority, Sched!Open, SchedP!Open,
             Sched!Free, SchedP!Free, Sched!Turn, SchedP!Turn, Sched!PhasesAfterScan,
             SchedP!PhasesAfterScan, Sched!Notified, SchedP!Notified, Sched!queueVars,
             SchedP!queueVars, Sched!activeVars, SchedP!activeVars
    <3> QED
      BY <3>1 DEF SchedP!WorkerStep, SchedP!Next
  <2>3. CASE Sched!Doze(t)
    <3>1. SchedP!Doze(t)
      BY <2>3
         DEF Sched!Doze, SchedP!Doze, Sched!Scanning, SchedP!Scanning, Sched!LockFree,
             SchedP!LockFree, Sched!queueVars, SchedP!queueVars, Sched!activeVars,
             SchedP!activeVars
    <3> QED
      BY <3>1 DEF SchedP!WorkerStep, SchedP!Next
  <2>4. CASE Sched!DozeOver(t)
    <3>1. SchedP!DozeOver(t)
      BY <2>4
         DEF Sched!DozeOver, SchedP!DozeOver, Sched!queueVars, SchedP!queueVars,
             Sched!activeVars, SchedP!activeVars
    <3> QED
      BY <3>1 DEF SchedP!WorkerStep, SchedP!Next
  <2>5. CASE Sched!Done(t)
    <3>1. SchedP!Done(t)
      BY <2>5
         DEF Sched!Done, SchedP!Done, Sched!LockFree, SchedP!LockFree, Sched!Notified,
             SchedP!Notified, Sched!queueVars, SchedP!queueVars
    <3> QED
      BY <3>1 DEF SchedP!WorkerStep, SchedP!Next
  <2>6. CASE Sched!Exit(t)
    <3>1. SchedP!Exit(t)
      BY <2>6
         DEF Sched!Exit, SchedP!Exit, Sched!Scanning, SchedP!Scanning, Sched!LockFree,
             SchedP!LockFree, Sched!queueVars, SchedP!queueVars, Sched!activeVars,
             SchedP!activeVars
    <3> QED
      BY <3>1 DEF SchedP!WorkerStep, SchedP!Next
  <2> QED
    BY <1>5, <2>1, <2>2, <2>3, <2>4, <2>5, <2>6
<1>6. CASE Sched!SetStop \/ Sched!TellStop
  <2>1. SchedP!SetStop \/ SchedP!TellStop
    BY <1>6
       DEF Sched!SetStop, SchedP!SetStop, Sched!TellStop, SchedP!TellStop, Sched!LockFree,
           SchedP!LockFree, Sched!Notified, SchedP!Notified, Sched!queueVars, SchedP!queueVars,
           Sched!activeVars, SchedP!activeVars
  <2> QED
    BY <2>1 DEF SchedP!Next
<1> QED
  BY <1>1, <1>2, <1>3, <1>4, <1>5, <1>6 DEF SchedulerStep

\* So they keep the invariant of the scheduler.
LEMMA SchedulerKeeps == SchedP!IInv /\ SchedulerStep => SchedP!IInv'
BY SchedulerMoves, SchedP!NextInv, SchedulerAssumed

\* What JobService calls on the table.
LEMMA StoreMoves == [Store!Next]_storeVars => [StoreP!Next]_(StoreP!storeVars)
<1> SUFFICES ASSUME Store!Next PROVE StoreP!Next
  BY DEF storeVars, StoreP!storeVars
<1> QED
  BY
       DEF Store!Next, StoreP!Next, Store!AdmitJob, StoreP!AdmitJob, Store!Existing,
           StoreP!Existing, Store!Cardinality, StoreP!Cardinality, Store!InState,
           StoreP!InState, Store!Active, StoreP!Active, Store!Unused, StoreP!Unused,
           Store!NextSequence, StoreP!NextSequence, Store!Present, StoreP!Present,
           Store!JobStatus, StoreP!JobStatus, Store!Terminal, StoreP!Terminal,
           Store!AdmittedRow, StoreP!AdmittedRow, Store!NoRow, StoreP!NoRow, Store!NoCode,
           StoreP!NoCode, Store!NoTime, StoreP!NoTime, Store!NoSnapshot, StoreP!NoSnapshot,
           Store!Marked, StoreP!Marked, Store!AdmitBatch, StoreP!AdmitBatch, Store!KeyClash,
           StoreP!KeyClash, Store!ManifestAgrees, StoreP!ManifestAgrees, Store!NewItems,
           StoreP!NewItems, Store!Placement, StoreP!Placement, Store!Time, StoreP!Time,
           Store!LeaseJob, StoreP!LeaseJob, Store!HeartbeatJob, StoreP!HeartbeatJob,
           Store!CanLease, StoreP!CanLease, Store!CanHeartbeat, StoreP!CanHeartbeat,
           Store!Claimable, StoreP!Claimable, Store!LeaseConflict, StoreP!LeaseConflict,
           Store!SameAuth, StoreP!SameAuth, Store!SameSource, StoreP!SameSource,
           Store!StartedRow, StoreP!StartedRow, Store!ClaimJob, StoreP!ClaimJob, Store!AddPosts,
           StoreP!AddPosts, Store!Writable, StoreP!Writable, Store!Posts, StoreP!Posts,
           Store!Positions, StoreP!Positions, Store!RecordCancelledUsage,
           StoreP!RecordCancelledUsage, Store!FinishJob, StoreP!FinishJob, Store!FailJob,
           StoreP!FailJob, Store!WaitJob, StoreP!WaitJob, Store!Failure, StoreP!Failure,
           Store!NotResumable, StoreP!NotResumable, Store!Transition, StoreP!Transition,
           Store!CanTransition, StoreP!CanTransition, Store!TransitionedRow,
           StoreP!TransitionedRow, Store!Outcome, StoreP!Outcome, Store!RequestCancel,
           StoreP!RequestCancel, Store!ResumeJob, StoreP!ResumeJob, Store!CanResume,
           StoreP!CanResume, Store!RecoverRow, StoreP!RecoverRow, Store!Blocked, StoreP!Blocked,
           Store!NotRequeued, StoreP!NotRequeued, Store!DeleteJob, StoreP!DeleteJob,
           Store!Delete, StoreP!Delete, Store!Tombstone, StoreP!Tombstone,
           Store!RequeueAbandoned, StoreP!RequeueAbandoned, Store!Abandoned, StoreP!Abandoned,
           Store!RequeuedRow, StoreP!RequeuedRow, Store!PurgeSnapshots, StoreP!PurgeSnapshots,
           Store!Purged, StoreP!Purged, Store!Newer, StoreP!Newer, Store!Tick, StoreP!Tick

LEMMA SameTypes == Store!TypeOK <=> StoreP!TypeOK
BY
       DEF Store!TypeOK, StoreP!TypeOK, Store!Row, StoreP!Row, Store!JobStatus,
           StoreP!JobStatus, Store!Active, StoreP!Active, Store!Terminal, StoreP!Terminal,
           Store!Code, StoreP!Code, Store!NoCode, StoreP!NoCode, Store!NotRequeued,
           StoreP!NotRequeued, Store!NotResumable, StoreP!NotResumable, Store!NoTime,
           StoreP!NoTime, Store!Time, StoreP!Time, Store!Snapshot, StoreP!Snapshot,
           Store!Observation, StoreP!Observation, Store!NoStatus, StoreP!NoStatus

-----------------------------------------------------------------------------
(* Every step of the service is a step of the table                         *)

StepName == {"idle", "admitted", "existing", "batched", "enqueuing", "enqueuing batch", "refused",
             "batch refused", "cancelled", "resuming", "resumed", "routed"}
\* The steps of a call that goes on with the row of its job.
Named == {"existing", "cancelled", "resuming", "resumed"}
TaskName == {"none", "taken", "done", "leaving"} \union Collecting
ClientRecord == [step : StepName, job : JobId \union {0}, items : Seq(Item)]

ClientInv ==
  /\ client \in [Client -> ClientRecord]
  /\ \A c \in Client : /\ client[c].step = "idle" => client[c] = Idle
                       /\ client[c].step \in Named => client[c].job \in JobId

ProcessInv ==
  /\ process \in {"serving", "recovering", "requeued", "loading", "down", "failed"}
  /\ epoch \in 1..MaxEpoch /\ guard \in Client \union {NoClient}

\* A worker works on the item it holds.
TaskInv == task \in [Thread -> TaskName] /\ \A t \in Thread : task[t] = "none" <=> held[t] = NoItem

LEMMA HeldItem ==
  ASSUME SchedP!IInv, ProcessInv, TaskInv, NEW t \in Thread, task[t] # "none"
  PROVE  held[t] \in Item /\ Mine(t) \in JobId /\ OwnerOf(t) \in Owner
<1>1. held[t] \in Item
  BY DEF SchedP!IInv, SchedP!SlotType, TaskInv
<1> QED
  BY <1>1, ItemParts DEF Mine, OwnerOf, Owner, ProcessInv

\* The expiry of a lease within a deadline is a time.
LEMMA LeaseTimes ==
  ASSUME StoreP!TypeOK, NEW j \in JobId, now + LeaseTime <= jobs[j].deadline
  PROVE  now + LeaseTime \in Store!Time
<1>1. now \in 1..MaxTime /\ jobs[j].deadline \in {0} \union 1..MaxTime
  BY DEF StoreP!TypeOK, StoreP!Row, StoreP!Time, StoreP!NoTime
<1> QED
  BY <1>1, JobServiceAssumption DEF Store!Time

\* What JobService calls on the table but to lease a row.
NoStart ==
  \/ \E q \in Request, j \in JobId : Store!AdmitJob(q, j)
  \/ \E batch \in SUBSET Request : \E b \in {q.batch : q \in batch} : Store!AdmitBatch(batch, b)
  \/ \E j \in JobId, w \in Owner, e \in Store!Time : Store!HeartbeatJob(j, w, e)
  \/ \E j \in JobId, batch \in SUBSET Post : Store!AddPosts(j, batch, 0)
  \/ \E j \in JobId, partial \in BOOLEAN, w \in Owner : Store!FinishJob(j, partial, w)
  \/ \E j \in JobId, f \in Store!Failure, w \in Owner : Store!FailJob(j, f, w)
  \/ \E j \in JobId, w \in Owner : Store!WaitJob(j, w)
  \/ \E j \in JobId :
       Store!RequestCancel(j) \/ Store!ResumeJob(j) \/ Store!RecoverRow(j) \/ Store!DeleteJob(j)
  \/ Store!RequeueAbandoned \/ Store!Tick

\* A worker leases the row of its item.
Starts(t) ==
  /\ task[t] = "taken" /\ task' = [task EXCEPT ![t] = "collecting"]
  /\ Mine(t) \in JobId /\ OwnerOf(t) \in Owner /\ now + LeaseTime \in Store!Time
  /\ Store!LeaseJob(Mine(t), OwnerOf(t), now + LeaseTime)
  /\ UNCHANGED <<schedVars, process, epoch, guard, client>>

LEMMA LeaseShape ==
  ASSUME StoreP!TypeOK, SchedP!IInv, ProcessInv, TaskInv, NEW t \in Thread, LeaseStep(t)
  PROVE  \/ Starts(t)
         \/ Moves(t, "done") /\ UNCHANGED storeVars
<1>1. Mine(t) \in JobId /\ OwnerOf(t) \in Owner /\ task[t] = "taken"
  BY HeldItem DEF LeaseStep
<1>2. CASE Store!CanLease(Mine(t), now + LeaseTime)
  <2>1. now + LeaseTime \in Store!Time
    BY <1>1, <1>2, LeaseTimes DEF Store!CanLease
  <2> QED
    BY <1>1, <1>2, <2>1 DEF LeaseStep, Starts, Moves
<1>3. CASE ~Store!CanLease(Mine(t), now + LeaseTime)
  BY <1>3 DEF LeaseStep
<1> QED
  BY <1>2, <1>3

LEMMA StoreShape ==
  ASSUME StoreP!TypeOK, SchedP!IInv, ClientInv, ProcessInv, TaskInv, [Next]_vars
  PROVE  \/ [NoStart]_storeVars
         \/ \E t \in Thread : Starts(t)
<1>1. ASSUME NEW c \in Client, NEW q \in Request, SubmitCall(c, q) PROVE [NoStart]_storeVars
  BY <1>1 DEF SubmitCall, NoStart
<1>2. ASSUME NEW c \in Client, NEW batch \in SUBSET Request, BatchCall(c, batch)
      PROVE  [NoStart]_storeVars
  BY <1>2 DEF BatchCall, NoStart
<1>3. ASSUME NEW c \in Client, NEW j \in JobId, CancelCall(c, j) \/ ResumeCall(c, j)
      PROVE  [NoStart]_storeVars
  BY <1>3 DEF CancelCall, ResumeCall, NoStart
<1>4. ASSUME NEW j \in JobId, DeleteCall(j) PROVE [NoStart]_storeVars
  BY <1>4 DEF DeleteCall, NoStart
<1>5. ASSUME NEW c \in Client, ClientStep(c) PROVE [NoStart]_storeVars
  <2>1. CASE ResumeRow(c)
    <3>1. client[c].job \in JobId
      BY <2>1 DEF ResumeRow, ClientInv, Named
    <3> QED
      BY <2>1, <3>1 DEF ResumeRow, NoStart
  <2>2. CASE \/ SubmitLook(c) \/ EnqueueCall(c) \/ EnqueueItem(c) \/ EnqueueFull(c) \/ Refuse(c)
             \/ CancelForget(c) \/ ResumeRoute(c)
    BY <2>2 DEF SubmitLook, EnqueueCall, EnqueueItem, EnqueueFull, Refuse, CancelForget,
                ResumeRoute
  <2> QED
    BY <1>5, <2>1, <2>2 DEF ClientStep
<1>6. ASSUME NEW t \in Thread, task[t] # "none"
      PROVE  Mine(t) \in JobId /\ OwnerOf(t) \in Owner
  BY <1>6, HeldItem
<1>7. ASSUME NEW t \in Thread, LeaseStep(t) PROVE [NoStart]_storeVars \/ Starts(t)
  BY <1>7, LeaseShape
<1>8. ASSUME NEW t \in Thread, Heartbeat(t) PROVE [NoStart]_storeVars
  <2>1. Mine(t) \in JobId /\ OwnerOf(t) \in Owner
    BY <1>6, <1>8 DEF Heartbeat
  <2>2. CASE Store!HeartbeatJob(Mine(t), OwnerOf(t), now + LeaseTime)
    <3>1. now + LeaseTime \in Store!Time
      BY <2>1, <2>2, LeaseTimes DEF Store!HeartbeatJob, Store!CanHeartbeat
    <3> QED
      BY <2>1, <2>2, <3>1 DEF NoStart
  <2>3. CASE UNCHANGED storeVars
    BY <2>3
  <2> QED
    BY <1>8, <2>2, <2>3 DEF Heartbeat
<1>9. ASSUME NEW t \in Thread, WorkerStep(t) PROVE [NoStart]_storeVars \/ Starts(t)
  <2>1. CASE LeaseStep(t) \/ Heartbeat(t)
    BY <1>7, <1>8, <2>1
  <2>2. CASE FinishStep(t)
    <3>1. PICK partial \in BOOLEAN :
             Store!FinishJob(Mine(t), partial, OwnerOf(t)) \/ UNCHANGED storeVars
      BY <2>2 DEF FinishStep, Reports
    <3> QED
      BY <1>6, <2>2, <3>1 DEF FinishStep, NoStart
  <2>3. CASE CancelledStep(t)
    <3>1. Interruption \in Store!Failure /\ Cancellation \in Store!Failure
      BY DEF Interruption, Cancellation, Store!Failure
    <3>2. PICK f \in Store!Failure :
             Store!FailJob(Mine(t), f, OwnerOf(t)) \/ UNCHANGED storeVars
      BY <2>3, <3>1 DEF CancelledStep, Reports
    <3> QED
      BY <1>6, <2>3, <3>2 DEF CancelledStep, NoStart
  <2>4. CASE FailedStep(t)
    <3> DEFINE status == IF jobs[Mine(t)].collected > 0 THEN "partial" ELSE "failed"
    <3>1. /\ Interruption \in Store!Failure
          /\ [status |-> status, code |-> "provider_error", retryable |-> TRUE] \in Store!Failure
      BY DEF Interruption, Store!Failure
    <3>2. PICK f \in Store!Failure :
             Store!FailJob(Mine(t), f, OwnerOf(t)) \/ UNCHANGED storeVars
      BY <2>4, <3>1 DEF FailedStep, Reports
    <3> QED
      BY <1>6, <2>4, <3>2 DEF FailedStep, NoStart
  <2>5. CASE RateLimitedStep(t)
    <3>1. Store!WaitJob(Mine(t), OwnerOf(t)) \/ UNCHANGED storeVars
      BY <2>5 DEF RateLimitedStep, Reports
    <3> QED
      BY <1>6, <2>5, <3>1 DEF RateLimitedStep, NoStart
  <2>6. CASE \/ TakeJob(t) \/ LoopStep(t) \/ NoticeCancel(t) \/ Returns(t)
             \/ ReadBack(t) \/ LeaveJob(t)
    BY <2>6 DEF TakeJob, LoopStep, NoticeCancel, Returns, ReadBack, LeaveJob
  <2> QED
    BY <1>9, <2>1, <2>2, <2>3, <2>4, <2>5, <2>6 DEF WorkerStep, OwnStep
<1>10. ASSUME NEW t \in Thread, NEW batch \in SUBSET Post, Persist(t, batch)
      PROVE  [NoStart]_storeVars
  <2>1. Mine(t) \in JobId /\ 0 \in 0..0
    BY <1>6, <1>10 DEF Persist
  <2> QED
    BY <1>10, <2>1 DEF Persist, NoStart
<1>11. CASE Recover
  BY <1>11 DEF Recover, NoStart
<1>12. CASE Tick
  BY <1>12 DEF Tick, NoStart
<1>13. CASE Crash \/ Shutdown \/ ShutdownEnds \/ Restart \/ Load \/ LoadItem \/ LoadFull
  BY <1>13 DEF Crash, Shutdown, ShutdownEnds, Restart, Load, LoadItem, LoadFull
<1>14. CASE UNCHANGED vars
  BY <1>14 DEF vars
<1> QED
  BY <1>1, <1>2, <1>3, <1>4, <1>5, <1>9, <1>10, <1>11, <1>12, <1>13, <1>14 DEF Next

LEMMA StoreStep ==
  ASSUME StoreP!TypeOK, SchedP!IInv, ClientInv, ProcessInv, TaskInv, [Next]_vars
  PROVE  [Store!Next]_storeVars
<1>1. NoStart => Store!Next
  BY DEF NoStart, Store!Next
<1>2. ASSUME NEW t \in Thread, Starts(t) PROVE Store!Next
  BY <1>2 DEF Starts, Store!Next
<1> QED
  BY <1>1, <1>2, StoreShape

-----------------------------------------------------------------------------
(* The lists of rows that the service enqueues: each position has a row     *)

\* Rows with numbers of their own are listed in the order of these numbers.
LEMMA BatchListed ==
  ASSUME NEW table, NEW batch \in SUBSET Request,
         \A j \in JobId : table[j].seq \in Nat,
         \A j, k \in JobId : table[j].status = "queued" /\ table[k].status = "queued"
                               /\ table[j].seq = table[k].seq => j = k
  PROVE  /\ BatchItems(table, batch) \in Seq(Item)
         /\ \A n \in DOMAIN BatchItems(table, batch) :
              \E j \in JobId : /\ table[j].status = "queued" /\ table[j].req \in Request
                               /\ BatchItems(table, batch)[n] = ItemOf(j, table[j].req)
         /\ \A j \in JobId : table[j].status = "queued" /\ table[j].req \in batch =>
              \E n \in DOMAIN BatchItems(table, batch) :
                BatchItems(table, batch)[n] = ItemOf(j, table[j].req)
<1> DEFINE rows == {j \in JobId : table[j].status = "queued" /\ table[j].req \in batch}
           L == {e \in rows \X rows : table[e[1]].seq < table[e[2]].seq}
           chosen(n) == CHOOSE k \in rows : Cardinality({i \in rows : table[i].seq < table[k].seq}) = n - 1
<1>1. IsFiniteSet(rows) /\ rows \subseteq JobId
  BY JobServiceAssumption, FS_Subset
<1>2. \A i, j \in rows : <<i, j>> \in L <=> table[i].seq < table[j].seq
  OBVIOUS
<1>3. /\ \A i \in rows : table[i].seq \in Nat
      /\ \A i, j \in rows : table[i].seq = table[j].seq => i = j
      /\ \A i \in rows : i \in JobId /\ table[i].status = "queued" /\ table[i].req \in Request
  OBVIOUS
<1>4. \A k \in rows : Below(L, rows, k) = {i \in rows : table[i].seq < table[k].seq}
  BY <1>2 DEF Below
<1>5. BatchItems(table, batch) =
        [n \in 1..Cardinality(rows) |-> ItemOf(chosen(n), table[chosen(n)].req)]
  BY DEF BatchItems
<1> HIDE DEF rows, L
<1>6. Orders(L, rows)
  BY <1>2, <1>3 DEF Orders
<1>7. Cardinality(rows) \in Nat
  BY <1>1, FS_CardinalityType
<1>8. ASSUME NEW n \in 1..Cardinality(rows)
      PROVE  chosen(n) \in rows /\ Cardinality(Below(L, rows, chosen(n))) = n - 1
  <2>1. n - 1 \in Nat /\ n - 1 < Cardinality(rows)
    BY <1>7
  <2>2. PICK k \in rows : Cardinality(Below(L, rows, k)) = n - 1
    BY <1>1, <1>6, <2>1, RankTaken
  <2>3. Cardinality({i \in rows : table[i].seq < table[k].seq}) = n - 1
    BY <1>4, <2>2
  <2>4. /\ chosen(n) \in rows
        /\ Cardinality({i \in rows : table[i].seq < table[chosen(n)].seq}) = n - 1
    BY <2>3
  <2> QED
    BY <1>4, <2>4
<1> HIDE DEF chosen
<1>9. ASSUME NEW n \in 1..Cardinality(rows)
      PROVE  /\ chosen(n) \in JobId /\ table[chosen(n)].status = "queued"
             /\ table[chosen(n)].req \in Request
             /\ ItemOf(chosen(n), table[chosen(n)].req) \in Item
  BY <1>3, <1>8, RowItems
<1>10. BatchItems(table, batch) \in Seq(Item)
  BY <1>5, <1>7, <1>9, IsASeq
<1>11. ASSUME NEW j \in rows
       PROVE  \E n \in DOMAIN BatchItems(table, batch) :
                BatchItems(table, batch)[n] = ItemOf(j, table[j].req)
  <2> DEFINE n == Cardinality(Below(L, rows, j)) + 1
  <2>1. /\ n \in 1..Cardinality(rows)
        /\ \A i \in rows : Cardinality(Below(L, rows, i)) = Cardinality(Below(L, rows, j)) => i = j
    BY <1>1, <1>6, RankOwn
  <2>2. Cardinality(Below(L, rows, j)) \in Nat
    BY <1>1, FS_Subset, FS_CardinalityType DEF Below
  <2>3. n - 1 = Cardinality(Below(L, rows, j))
    BY <2>2
  <2>4. chosen(n) = j
    BY <1>8, <2>1, <2>3
  <2> HIDE DEF n
  <2> QED
    BY <1>5, <2>1, <2>4
<1>12. \A j \in JobId : table[j].status = "queued" /\ table[j].req \in batch => j \in rows
  BY DEF rows
<1> QED
  BY <1>5, <1>9, <1>10, <1>11, <1>12

\* A row stands at its turn among the queued rows of its priority and source.
LEMMA Turns ==
  ASSUME StoreP!TypeOK, StoreP!SequenceUnique, NEW j \in Queued
  PROVE  /\ SourceTurn(j) \in Nat /\ SourceFirst(j) \in Nat
         /\ \E k \in SameLane(j) : jobs[k].seq = SourceFirst(j)
<1>1. \A k \in JobId : jobs[k].seq \in Nat
  BY DEF StoreP!TypeOK, StoreP!Row
<1>2. IsFiniteSet({k \in SameLane(j) : jobs[k].seq <= jobs[j].seq})
  BY JobServiceAssumption, FS_Subset DEF SameLane, Queued
<1>3. SourceTurn(j) \in Nat
  BY <1>2, FS_CardinalityType DEF SourceTurn
<1> DEFINE S == {jobs[k].seq : k \in SameLane(j)}
<1>4. S \in SUBSET Nat /\ S # {}
  BY <1>1 DEF SameLane, Queued
<1>5. PICK n \in S : \A m \in S : n <= m
  BY <1>4, LeastNumber
<1>6. \A k \in SameLane(j) : n <= jobs[k].seq
  BY <1>5
<1>7. SourceFirst(j) \in S
  BY <1>5, <1>6 DEF SourceFirst
<1> QED
  BY <1>3, <1>4, <1>7

\* Two queued rows of a priority with the same turn and the same first row are one.
LEMMA TurnsTell ==
  ASSUME StoreP!TypeOK, StoreP!SequenceUnique, NEW j \in Queued, NEW k \in Queued,
         jobs[j].req.priority = jobs[k].req.priority,
         SourceTurn(j) = SourceTurn(k), SourceFirst(j) = SourceFirst(k)
  PROVE  j = k
<1>1. /\ \A i \in JobId : jobs[i].seq \in Nat
      /\ \A i, l \in Queued : jobs[i].seq = jobs[l].seq => i = l
  BY DEF StoreP!TypeOK, StoreP!Row, StoreP!SequenceUnique, StoreP!Present, StoreP!JobStatus,
         StoreP!Active, Queued
<1>2. SameLane(j) = SameLane(k)
  <2>1. PICK i \in SameLane(j) : jobs[i].seq = SourceFirst(j)
    BY Turns
  <2>2. PICK l \in SameLane(k) : jobs[l].seq = SourceFirst(k)
    BY Turns
  <2>3. i = l
    BY <1>1, <2>1, <2>2 DEF SameLane
  <2> QED
    BY <2>3 DEF SameLane
<1> DEFINE upTo(i) == {l \in SameLane(j) : jobs[l].seq <= jobs[i].seq}
<1>3. SourceTurn(j) = Cardinality(upTo(j)) /\ SourceTurn(k) = Cardinality(upTo(k))
  BY <1>2 DEF SourceTurn
<1>4. IsFiniteSet(upTo(j)) /\ IsFiniteSet(upTo(k))
  BY JobServiceAssumption, FS_Subset DEF SameLane, Queued
<1>5. j \in SameLane(j) /\ k \in SameLane(j) /\ j \in JobId /\ k \in JobId
  BY <1>2 DEF SameLane, Queued
<1>6. ASSUME NEW i \in {j, k}, NEW l \in {j, k}, jobs[i].seq < jobs[l].seq PROVE FALSE
  <2>1. upTo(i) \subseteq upTo(l)
    BY <1>1, <1>5, <1>6 DEF SameLane, Queued
  <2>2. l \in upTo(l) /\ l \notin upTo(i)
    BY <1>1, <1>5, <1>6
  <2>3. IsFiniteSet(upTo(i)) /\ IsFiniteSet(upTo(l)) /\ Cardinality(upTo(i)) = Cardinality(upTo(l))
    BY <1>3, <1>4
  <2> HIDE DEF upTo
  <2> QED
    BY <2>1, <2>2, <2>3, FS_Subset
<1>7. jobs[j].seq = jobs[k].seq
  BY <1>1, <1>5, <1>6
<1> QED
  BY <1>1, <1>7

\* The order of list_queued_jobs is total: every position has a row.
LEMMA QueueListed ==
  ASSUME StoreP!TypeOK, StoreP!SequenceUnique,
         \A j \in JobId : jobs[j].status = "queued" => jobs[j].req \in Request
  PROVE  /\ QueuedList \in Seq(Item)
         /\ \A n \in DOMAIN QueuedList :
              \E j \in Queued : QueuedList[n] = ItemOf(j, jobs[j].req)
         /\ \A j \in Queued : \E n \in DOMAIN QueuedList : QueuedList[n] = ItemOf(j, jobs[j].req)
<1> DEFINE R == Queued
           L == {e \in R \X R : Before(e[1], e[2])}
           ranked == [n \in 1..Cardinality(R) |->
                        CHOOSE j \in R : Cardinality({k \in R : Before(k, j)}) = n - 1]
<1>1. IsFiniteSet(R) /\ Cardinality(R) \in Nat
  BY JobServiceAssumption, FS_Subset, FS_CardinalityType DEF Queued
<1>2. \A j \in R : /\ SourceTurn(j) \in Nat /\ SourceFirst(j) \in Nat
                   /\ j \in JobId /\ jobs[j].req \in Request /\ jobs[j].req.priority \in Nat
  BY Turns, JobServiceAssumption DEF Queued
<1>3. \A j, k \in R : <<j, k>> \in L <=> Before(j, k)
  OBVIOUS
<1>4. QueuedList = [n \in 1..Cardinality(R) |-> ItemOf(ranked[n], jobs[ranked[n]].req)]
  BY DEF QueuedList
<1>5. \A n \in 1..Cardinality(R) :
        ranked[n] = CHOOSE j \in R : Cardinality({k \in R : Before(k, j)}) = n - 1
  OBVIOUS
<1>6. ASSUME NEW j \in R, NEW k \in R, jobs[j].req.priority = jobs[k].req.priority,
             SourceTurn(j) = SourceTurn(k), SourceFirst(j) = SourceFirst(k)
      PROVE  j = k
  BY <1>6, TurnsTell
<1> HIDE DEF R, L, ranked
<1>7. Orders(L, R)
  <2>1. \A i, j, k \in R : Before(i, j) /\ Before(j, k) => Before(i, k)
    BY <1>2 DEF Before
  <2>2. \A i \in R : ~Before(i, i)
    BY <1>2 DEF Before
  <2>3. \A i, j \in R : i # j => Before(i, j) \/ Before(j, i)
    BY <1>2, <1>6 DEF Before
  <2> QED
    BY <1>3, <2>1, <2>2, <2>3 DEF Orders
<1>8. \A k \in R : Below(L, R, k) = {i \in R : Before(i, k)}
  BY <1>3 DEF Below
<1>9. ASSUME NEW n \in 1..Cardinality(R)
      PROVE  ranked[n] \in R /\ Cardinality(Below(L, R, ranked[n])) = n - 1
  <2>1. n - 1 \in Nat /\ n - 1 < Cardinality(R)
    BY <1>1
  <2>2. PICK k \in R : Cardinality(Below(L, R, k)) = n - 1
    BY <1>1, <1>7, <2>1, RankTaken
  <2>3. Cardinality({i \in R : Before(i, k)}) = n - 1
    BY <1>8, <2>2
  <2>4. ranked[n] \in R /\ Cardinality({i \in R : Before(i, ranked[n])}) = n - 1
    BY <1>5, <2>3
  <2> QED
    BY <1>8, <2>4
<1>10. ASSUME NEW n \in 1..Cardinality(R)
       PROVE  ItemOf(ranked[n], jobs[ranked[n]].req) \in Item
  BY <1>2, <1>9, RowItems
<1>11. QueuedList \in Seq(Item)
  BY <1>1, <1>4, <1>10, IsASeq
<1>12. ASSUME NEW j \in R
       PROVE  \E n \in DOMAIN QueuedList : QueuedList[n] = ItemOf(j, jobs[j].req)
  <2> DEFINE n == Cardinality(Below(L, R, j)) + 1
  <2>1. /\ n \in 1..Cardinality(R)
        /\ \A i \in R : Cardinality(Below(L, R, i)) = Cardinality(Below(L, R, j)) => i = j
    BY <1>1, <1>7, RankOwn
  <2>2. Cardinality(Below(L, R, j)) \in Nat
    BY <1>1, FS_Subset, FS_CardinalityType DEF Below
  <2>3. n - 1 = Cardinality(Below(L, R, j))
    BY <2>2
  <2>4. ranked[n] = j
    BY <1>9, <2>1, <2>3
  <2> HIDE DEF n
  <2> QED
    BY <1>4, <2>1, <2>4
<1> QED
  BY <1>4, <1>9, <1>11, <1>12 DEF R

-----------------------------------------------------------------------------
(* The invariant of the scheduler is kept                                   *)

\* The rows are those of requests.
ReqInv == \A j \in JobId : jobs[j].status # "absent" => jobs[j].req \in Request

\* What every operator needs to make sense.
Typed ==
  /\ StoreP!RowInv /\ StoreP!SequenceUnique /\ ReqInv
  /\ SchedP!IInv /\ ClientInv /\ ProcessInv /\ TaskInv

\* The steps of the service, as the scheduler sees them.
LEMMA SchedulerShape ==
  ASSUME ClientInv, [Next]_vars
  PROVE  \/ SchedulerStep \/ UNCHANGED schedVars \/ MemoryLost \/ Load
         \/ \E c \in Client : SubmitLook(c) \/ EnqueueCall(c)
<1>1. ASSUME NEW c \in Client, NEW q \in Request, SubmitCall(c, q) PROVE UNCHANGED schedVars
  BY <1>1 DEF SubmitCall
<1>2. ASSUME NEW c \in Client, NEW batch \in SUBSET Request, BatchCall(c, batch)
      PROVE  UNCHANGED schedVars
  BY <1>2 DEF BatchCall
<1>3. ASSUME NEW j \in JobId, DeleteCall(j) \/ \E c \in Client : CancelCall(c, j) \/ ResumeCall(c, j)
      PROVE  UNCHANGED schedVars
  BY <1>3 DEF CancelCall, ResumeCall, DeleteCall
<1>4. ASSUME NEW c \in Client, CancelForget(c) PROVE SchedulerStep
  <2>1. client[c].job \in JobId
    BY <1>4 DEF CancelForget, ClientInv, Named
  <2> QED
    BY <1>4, <2>1 DEF CancelForget, SchedulerStep
<1>5. ASSUME NEW c \in Client, EnqueueItem(c) \/ EnqueueFull(c) PROVE SchedulerStep
  BY <1>5 DEF EnqueueItem, EnqueueFull, SchedulerStep
<1>6. ASSUME NEW c \in Client, Refuse(c) \/ ResumeRow(c) \/ ResumeRoute(c) PROVE UNCHANGED schedVars
  BY <1>6 DEF Refuse, ResumeRow, ResumeRoute
<1>7. ASSUME NEW t \in Thread, TakeJob(t) \/ LoopStep(t) \/ LeaveJob(t) PROVE SchedulerStep
  BY <1>7 DEF TakeJob, LoopStep, LeaveJob, SchedulerStep
<1>8. ASSUME NEW t \in Thread,
             \/ LeaseStep(t) \/ Heartbeat(t) \/ NoticeCancel(t) \/ Returns(t) \/ FinishStep(t)
             \/ CancelledStep(t) \/ FailedStep(t) \/ RateLimitedStep(t) \/ ReadBack(t)
      PROVE  UNCHANGED schedVars
  BY <1>8 DEF LeaseStep, Heartbeat, NoticeCancel, Returns, FinishStep, CancelledStep, FailedStep,
              RateLimitedStep, ReadBack, Reports
<1>9. ASSUME NEW t \in Thread, NEW batch \in SUBSET Post, Persist(t, batch) PROVE UNCHANGED schedVars
  BY <1>9 DEF Persist
<1>10. CASE Crash \/ ShutdownEnds \/ LoadFull
  BY <1>10 DEF Crash, ShutdownEnds, LoadFull
<1>11. CASE Shutdown \/ LoadItem
  BY <1>11 DEF Shutdown, LoadItem, SchedulerStep
<1>12. CASE Restart \/ Recover \/ Tick \/ UNCHANGED vars
  BY <1>12 DEF Restart, Recover, Tick, vars
<1>13. CASE Load
  BY <1>13
<1>14. ASSUME NEW c \in Client, ClientStep(c)
       PROVE  SchedulerStep \/ UNCHANGED schedVars \/ SubmitLook(c) \/ EnqueueCall(c)
  BY <1>4, <1>5, <1>6, <1>14 DEF ClientStep
<1>15. ASSUME NEW t \in Thread, WorkerStep(t) PROVE SchedulerStep \/ UNCHANGED schedVars
  BY <1>7, <1>8, <1>15 DEF WorkerStep, OwnStep
<1> QED
  BY <1>1, <1>2, <1>3, <1>9, <1>10, <1>11, <1>12, <1>13, <1>14, <1>15 DEF Next

\* A process that ends leaves a scheduler in its initial state.
LEMMA LostIsInitial == MemoryLost => SchedP!IInv'
<1>1. MemoryLost => SchedP!Init'
  BY DEF MemoryLost, SchedP!Init, SchedP!Lane, Sched!Lane, SchedP!Priority, Sched!Priority,
         SchedP!Source, Sched!Source
<1>2. SchedP!Init => SchedP!IInv
  BY SchedP!InitInv, SchedulerAssumed
<1> QED
  BY <1>1, <1>2, PTL

LEMMA SchedulerKept == Typed /\ [Next]_vars => SchedP!IInv'
<1> SUFFICES ASSUME Typed, [Next]_vars PROVE SchedP!IInv'
  OBVIOUS
<1>1. SchedP!IInv /\ ClientInv /\ StoreP!TypeOK /\ StoreP!SequenceUnique
  BY DEF Typed, StoreP!RowInv
<1>2. /\ phase \in [Thread -> SchedP!PhaseSet] /\ inbox \in Seq(Item)
      /\ paused \in BOOLEAN /\ stop \in {"no", "set", "told"}
  BY <1>1 DEF SchedP!IInv, SchedP!RestType
<1>3. CASE SchedulerStep
  BY <1>1, <1>3, SchedulerKeeps
<1>4. CASE UNCHANGED schedVars
  <2>1. UNCHANGED SchedP!schedVars
    BY <1>4 DEF schedVars, SchedP!schedVars
  <2> QED
    BY <1>1, <2>1, SchedP!NextInv, SchedulerAssumed
<1>5. CASE MemoryLost
  BY <1>5, LostIsInitial
<1>6. CASE Load
  <2>1. QueuedList \in Seq(Item)
    <3>1. \A j \in JobId : jobs[j].status = "queued" => jobs[j].req \in Request
      BY DEF Typed, ReqInv
    <3> QED
      BY <1>1, <3>1, QueueListed
  <2>2. /\ UNCHANGED SchedP!queueVars /\ UNCHANGED SchedP!activeVars /\ inbox' = QueuedList
        /\ phase' = phase /\ paused' = paused /\ stop' = stop
    BY <1>6 DEF Load, SchedP!queueVars, SchedP!activeVars
  <2> QED
    BY <1>1, <1>2, <2>1, <2>2, SchedP!PhaseOnly, SchedulerAssumed
<1>7. ASSUME NEW c \in Client, SubmitLook(c) PROVE SchedP!IInv'
  <2>1. /\ UNCHANGED SchedP!queueVars /\ UNCHANGED SchedP!activeVars
        /\ inbox' = inbox /\ paused' = paused /\ stop' = stop
        /\ phase' = SchedP!Notified \/ phase' = phase
    BY <1>7 DEF SubmitLook, SchedP!queueVars, SchedP!activeVars, SchedP!Notified, Sched!Notified
  <2>2. /\ SchedP!Notified \in [Thread -> SchedP!PhaseSet]
        /\ \A t \in Thread : SchedP!Notified[t] = "busy" <=> phase[t] = "busy"
    BY <1>2, SchedP!NotifiedPhases, SchedulerAssumed
  <2>3. /\ phase' \in [Thread -> SchedP!PhaseSet]
        /\ \A t \in Thread : phase'[t] = "busy" <=> phase[t] = "busy"
    BY <1>2, <2>1, <2>2
  <2> QED
    BY <1>1, <1>2, <2>1, <2>3, SchedP!PhaseOnly, SchedulerAssumed
<1>8. ASSUME NEW c \in Client, EnqueueCall(c) PROVE SchedP!IInv'
  <2>1. client[c].items \in Seq(Item)
    BY <1>1 DEF ClientInv, ClientRecord
  <2>2. /\ UNCHANGED SchedP!queueVars /\ UNCHANGED SchedP!activeVars /\ inbox' = client[c].items
        /\ phase' = phase /\ paused' = paused /\ stop' = stop
    BY <1>8 DEF EnqueueCall, Sched!Submit, Sched!queueVars, Sched!activeVars, SchedP!queueVars,
                SchedP!activeVars
  <2> QED
    BY <1>1, <1>2, <2>1, <2>2, SchedP!PhaseOnly, SchedulerAssumed
<1> QED
  BY <1>1, <1>3, <1>4, <1>5, <1>6, <1>7, <1>8, SchedulerShape

\* The scheduler invents no items: they come from its lock holder, wait, and
\* are held.
LEMMA ItemsMove ==
  ASSUME SchedP!IInv, SchedulerStep
  PROVE  /\ known' \subseteq known \union {inbox[n] : n \in DOMAIN inbox}
         /\ \A n \in DOMAIN inbox' : \E m \in DOMAIN inbox : inbox'[n] = inbox[m]
         /\ \A t \in Thread : held'[t] \in known \union {held[t], NoItem}
<1>0. inbox \in Seq(Item) /\ held \in [Thread -> Item \union {NoItem}]
  BY DEF SchedP!IInv, SchedP!RestType, SchedP!SlotType
<1>1. CASE Sched!SkipKnown \/ Sched!Enqueue
  <2>1. inbox # <<>> /\ inbox' = Tail(inbox) /\ held' = held
    BY <1>1 DEF Sched!SkipKnown, Sched!Enqueue, Sched!Advance, Sched!activeVars
  <2>2. known' \subseteq known \union {Head(inbox)}
    BY <1>1 DEF Sched!SkipKnown, Sched!Enqueue, Sched!queueVars
  <2>3. /\ Len(inbox) \in Nat /\ Len(inbox) # 0 /\ DOMAIN inbox = 1..Len(inbox)
        /\ Head(inbox) = inbox[1] /\ DOMAIN Tail(inbox) = 1..(Len(inbox) - 1)
        /\ \A n \in 1..(Len(inbox) - 1) : Tail(inbox)[n] = inbox[n + 1]
    BY <1>0, <2>1, EmptySeq, LenProperties, HeadTailProperties
  <2>4. 1 \in DOMAIN inbox /\ \A n \in DOMAIN Tail(inbox) : n + 1 \in DOMAIN inbox
    BY <2>3
  <2>5. \A n \in DOMAIN inbox' : n + 1 \in DOMAIN inbox /\ inbox'[n] = inbox[n + 1]
    BY <2>1, <2>3, <2>4
  <2> QED
    BY <2>1, <2>2, <2>3, <2>4, <2>5
<1>2. CASE Sched!Overflow
  BY <1>2 DEF Sched!Overflow, Sched!queueVars, Sched!activeVars
<1>3. ASSUME NEW j \in JobId, Sched!Withdraw(j)
      PROVE  known' \subseteq known /\ inbox' = inbox /\ held' = held
  BY <1>3 DEF Sched!Withdraw, Sched!Removed, Sched!queueVars, Sched!activeVars
<1>4. ASSUME NEW t \in Thread, Sched!Dispatch(t)
      PROVE  /\ known' \subseteq known /\ inbox' = inbox
             /\ \A u \in Thread : held'[u] \in known \union {held[u], NoItem}
  <2>1. SchedP!Dispatch(t)
    BY <1>4, SameDispatch
  <2>2. inbox' = inbox /\ \E i \in known : held' = [held EXCEPT ![t] = i] /\ known' = known \ {i}
    BY <2>1, SchedP!DispatchTakes, SchedulerAssumed
  <2> QED
    BY <1>0, <2>2
<1>5. ASSUME NEW t \in Thread, Sched!Done(t)
      PROVE  /\ known' = known /\ inbox' = inbox
             /\ \A u \in Thread : held'[u] \in {held[u], NoItem}
  BY <1>0, <1>5 DEF Sched!Done, Sched!queueVars
<1>6. ASSUME NEW t \in Thread,
             Sched!Sleep(t) \/ Sched!Doze(t) \/ Sched!DozeOver(t) \/ Sched!Exit(t)
      PROVE  known' = known /\ inbox' = inbox /\ held' = held
  BY <1>6 DEF Sched!Sleep, Sched!Doze, Sched!DozeOver, Sched!Exit, Sched!queueVars, Sched!activeVars
<1>7. CASE Sched!SetStop \/ Sched!TellStop
  BY <1>7 DEF Sched!SetStop, Sched!TellStop, Sched!queueVars, Sched!activeVars
<1> QED
  BY <1>1, <1>2, <1>3, <1>4, <1>5, <1>6, <1>7 DEF SchedulerStep

-----------------------------------------------------------------------------
(* The types are kept                                                       *)

LEMMA NextStore == Typed /\ [Next]_vars => [StoreP!Next]_(StoreP!storeVars)
BY StoreStep, StoreMoves DEF Typed, StoreP!RowInv

LEMMA TableKept == Typed /\ [Next]_vars => StoreP!RowInv' /\ StoreP!SequenceUnique'
BY NextStore, StoreP!NextInv, StoreP!SequenceStep, StoreAssumed DEF Typed, StoreP!RowInv

\* What a step of the service may do to a row.
LEMMA RowMoves ==
  ASSUME Typed, [Next]_vars, NEW j \in JobId
  PROVE  /\ jobs[j] \in StoreP!Row /\ StoreP!RowStep(jobs[j], jobs'[j])
         /\ jobs[j].status # "absent" =>
              /\ jobs'[j].status # "absent" /\ jobs'[j].req = jobs[j].req
              /\ jobs[j].status = "deleted" => jobs'[j].status = "deleted"
<1>1. StoreP!TypeOK /\ [StoreP!Next]_(StoreP!storeVars)
  BY NextStore DEF Typed, StoreP!RowInv
<1>2. jobs[j] \in StoreP!Row /\ StoreP!RowStep(jobs[j], jobs'[j])
  BY <1>1, StoreP!NextRow, StoreAssumed DEF StoreP!TypeOK
<1> QED
  BY <1>2, StoreP!IdentityKept, StoreAssumed

LEMMA RequestsKept == Typed /\ [Next]_vars => ReqInv'
<1> SUFFICES ASSUME Typed, [Next]_vars, NEW j \in JobId, jobs'[j].status # "absent"
             PROVE  jobs'[j].req \in Request
  BY DEF ReqInv
<1>1. CASE jobs[j].status # "absent"
  BY <1>1, RowMoves DEF Typed, ReqInv
<1>2. CASE jobs[j].status = "absent"
  <2>1. jobs'[j] = jobs[j] \/ StoreP!Admits(jobs[j], jobs'[j])
    <3>1. StoreP!RowStep(jobs[j], jobs'[j])
      BY RowMoves
    <3> QED
      BY <1>2, <3>1
         DEF StoreP!RowStep, StoreP!QuietStep, StoreP!Resumes, StoreP!Leases, StoreP!Claims,
             StoreP!Renews, StoreP!Collects, StoreP!Bills, StoreP!Ends, StoreP!Requeues,
             StoreP!Deletes, StoreP!Active, StoreP!Terminal
  <2>2. PICK q \in Request, manifest \in SUBSET Request, n \in Nat :
          jobs'[j] = StoreP!AdmittedRow(q, manifest, n)
    BY <1>2, <2>1 DEF StoreP!Admits
  <2> QED
    BY <2>2, StoreP!AdmittedColumns, StoreAssumed
<1> QED
  BY <1>1, <1>2

\* A call that goes on.
LEMMA ClientMoves ==
  ASSUME ClientInv, NEW c \in Client, NEW r \in ClientRecord,
         r.step = "idle" => r = Idle, r.step \in Named => r.job \in JobId,
         client' = [client EXCEPT ![c] = r]
  PROVE  ClientInv'
BY DEF ClientInv

\* The records that the steps write.
LEMMA ClientRecords ==
  /\ Idle \in ClientRecord
  /\ \A step \in StepName, j \in JobId \union {0}, items \in Seq(Item) :
       /\ [step |-> step, job |-> j, items |-> items] \in ClientRecord
       /\ [step |-> step, job |-> j, items |-> items].step = step
       /\ [step |-> step, job |-> j, items |-> items].job = j
  /\ \A r \in ClientRecord, step \in StepName :
       /\ [r EXCEPT !.step = step] \in ClientRecord
       /\ [r EXCEPT !.step = step].step = step /\ [r EXCEPT !.step = step].job = r.job
<1>1. Idle \in ClientRecord
  <2>1. <<>> \in Seq(Item)
    OBVIOUS
  <2> QED
    BY <2>1 DEF ClientRecord, StepName, Idle
<1>2. \A step \in StepName, j \in JobId \union {0}, items \in Seq(Item) :
        /\ [step |-> step, job |-> j, items |-> items] \in ClientRecord
        /\ [step |-> step, job |-> j, items |-> items].step = step
        /\ [step |-> step, job |-> j, items |-> items].job = j
  BY DEF ClientRecord
<1>3. ASSUME NEW r \in ClientRecord, NEW step \in StepName
      PROVE  /\ [r EXCEPT !.step = step] \in ClientRecord
             /\ [r EXCEPT !.step = step].step = step /\ [r EXCEPT !.step = step].job = r.job
  BY DEF ClientRecord
<1> QED
  BY <1>1, <1>2, <1>3

LEMMA ClientsKept == Typed /\ [Next]_vars => ClientInv'
<1> SUFFICES ASSUME Typed, [Next]_vars PROVE ClientInv'
  OBVIOUS
<1> USE DEF ClientRecord
<1>0. ClientInv /\ client \in [Client -> ClientRecord]
  BY DEF Typed, ClientInv
<1> HIDE DEF ClientRecord
<1>1. ASSUME NEW c \in Client, client' = [client EXCEPT ![c] = Idle] PROVE ClientInv'
  BY <1>0, <1>1, ClientRecords, ClientMoves DEF Idle, Named
<1>2. ASSUME NEW c \in Client, NEW step \in StepName, Goes(c, step), step # "idle",
             step \in Named => client[c].job \in JobId
      PROVE  ClientInv'
  <2> DEFINE r == [client[c] EXCEPT !.step = step]
  <2>1. r \in ClientRecord /\ r.step = step /\ r.job = client[c].job
    BY <1>0, ClientRecords
  <2>2. client' = [client EXCEPT ![c] = r]
    BY <1>0, <1>2 DEF Goes
  <2> HIDE DEF r
  <2> QED
    BY <1>0, <1>2, <2>1, <2>2, ClientMoves
<1>3. ASSUME NEW c \in Client, NEW step \in StepName \ {"idle"}, NEW j \in JobId \union {0},
             step \in Named => j \in JobId, NEW items \in Seq(Item),
             client' = [client EXCEPT ![c] = [step |-> step, job |-> j, items |-> items]]
      PROVE  ClientInv'
  <2> DEFINE r == [step |-> step, job |-> j, items |-> items]
  <2>1. r \in ClientRecord /\ r.step = step /\ r.job = j
    BY ClientRecords
  <2>2. client' = [client EXCEPT ![c] = r]
    BY <1>3
  <2> HIDE DEF r
  <2> QED
    BY <1>0, <1>3, <2>1, <2>2, ClientMoves
<1>4. ASSUME UNCHANGED client PROVE ClientInv'
  BY <1>0, <1>4 DEF ClientInv
<1>5. CASE MemoryLost
  BY <1>5, ClientRecords DEF MemoryLost, ClientInv, Named, Idle
<1>6. <<>> \in Seq(Item) /\ \A i \in Item : <<i>> \in Seq(Item)
  OBVIOUS
<1>7. ASSUME NEW c \in Client, NEW q \in Request, SubmitCall(c, q) PROVE ClientInv'
  <2>1. PICK j \in JobId, step \in {"admitted", "existing"} :
          client' = [client EXCEPT ![c] = [step |-> step, job |-> j, items |-> <<ItemOf(j, q)>>]]
    BY <1>7 DEF SubmitCall, Store!Existing, Store!Present
  <2>2. <<ItemOf(j, q)>> \in Seq(Item)
    BY <1>6, RowItems
  <2>3. step \in StepName \ {"idle"}
    BY DEF StepName
  <2> QED
    BY <1>3, <2>1, <2>2, <2>3
<1>8. ASSUME NEW c \in Client, NEW batch \in SUBSET Request, BatchCall(c, batch) PROVE ClientInv'
  <2>1. StoreP!RowInv' /\ StoreP!SequenceUnique'
    BY TableKept
  <2>2. /\ \A j \in JobId : jobs'[j].seq \in Nat
        /\ \A j, k \in JobId : jobs'[j].status = "queued" /\ jobs'[k].status = "queued"
                                 /\ jobs'[j].seq = jobs'[k].seq => j = k
    <3>1. \A j \in JobId : jobs'[j] \in StoreP!Row
      BY <2>1 DEF StoreP!RowInv, StoreP!TypeOK
    <3>2. \A j \in JobId : jobs'[j].seq \in Nat
      BY <3>1 DEF StoreP!Row
    <3>3. \A j, k \in JobId : jobs'[j].status = "queued" /\ jobs'[k].status = "queued"
                                /\ jobs'[j].seq = jobs'[k].seq => j = k
      BY <2>1 DEF StoreP!SequenceUnique, StoreP!Present, StoreP!JobStatus, StoreP!Active
    <3> QED
      BY <3>2, <3>3
  <2>3. BatchItems(jobs', batch) \in Seq(Item)
    BY <2>2, BatchListed
  <2>4. client' = [client EXCEPT ![c] = [step |-> "batched", job |-> 0,
                                         items |-> BatchItems(jobs', batch)]]
    BY <1>8 DEF BatchCall
  <2>5. "batched" \in StepName \ {"idle"} /\ "batched" \notin Named
    BY DEF StepName, Named
  <2> QED
    BY <1>3, <2>3, <2>4, <2>5
<1>9. ASSUME NEW c \in Client, NEW j \in JobId, CancelCall(c, j) \/ ResumeCall(c, j)
      PROVE  ClientInv'
  <2>1. PICK step \in {"cancelled", "resuming"} :
          client' = [client EXCEPT ![c] = [step |-> step, job |-> j, items |-> <<>>]]
    BY <1>9 DEF CancelCall, ResumeCall
  <2>2. step \in StepName \ {"idle"}
    BY DEF StepName
  <2> QED
    BY <1>3, <1>6, <2>1, <2>2
<1>10. ASSUME NEW c \in Client, SubmitLook(c) PROVE ClientInv'
  <2>1. client' = [client EXCEPT ![c] = Idle] \/ Goes(c, "admitted")
    BY <1>10 DEF SubmitLook
  <2> QED
    BY <1>1, <1>2, <2>1 DEF StepName, Named
<1>11. ASSUME NEW c \in Client, EnqueueCall(c) \/ EnqueueFull(c) PROVE ClientInv'
  <2>1. PICK step \in {"enqueuing", "enqueuing batch", "refused", "batch refused"} : Goes(c, step)
    BY <1>11 DEF EnqueueCall, EnqueueFull
  <2> QED
    BY <1>2, <2>1 DEF StepName, Named
<1>12. ASSUME NEW c \in Client, EnqueueItem(c) \/ Refuse(c) \/ CancelForget(c) PROVE ClientInv'
  <2>1. client' = [client EXCEPT ![c] = Idle] \/ UNCHANGED client
    BY <1>12 DEF EnqueueItem, Refuse, CancelForget
  <2> QED
    BY <1>1, <1>4, <2>1
<1>13. ASSUME NEW c \in Client, ResumeRow(c) PROVE ClientInv'
  <2>1. client' = [client EXCEPT ![c] = Idle] \/ Goes(c, "resumed")
    BY <1>13 DEF ResumeRow
  <2>2. client[c].job \in JobId
    BY <1>0, <1>13 DEF ResumeRow, ClientInv, Named
  <2> QED
    BY <1>1, <1>2, <2>1, <2>2 DEF StepName
<1>14. ASSUME NEW c \in Client, ResumeRoute(c) PROVE ClientInv'
  <2> DEFINE j == client[c].job
             i == IF jobs[j].status \in Store!JobStatus THEN Resumed(j, jobs[j].req)
                  ELSE Unroutable(j)
             r == [client[c] EXCEPT !.step = "routed", !.items = <<i>>]
  <2>1. j \in JobId
    BY <1>0, <1>14 DEF ResumeRoute, ClientInv, Named
  <2>2. i \in Item
    <3>1. jobs[j].status \in Store!JobStatus => jobs[j].req \in Request
      BY <2>1 DEF Typed, ReqInv, Store!JobStatus, Store!Active, Store!Terminal
    <3> QED
      BY <2>1, <3>1, RowItems
  <2>3. client' = [client EXCEPT ![c] = r]
    BY <1>0, <1>14 DEF ResumeRoute
  <2>4. "routed" \in StepName /\ "routed" \notin Named /\ client[c] \in ClientRecord
    BY <1>0 DEF StepName, Named
  <2> HIDE DEF i
  <2>5. <<i>> \in Seq(Item)
    BY <1>6, <2>2
  <2>6. r \in ClientRecord /\ r.step = "routed"
    <3>1. ASSUME NEW x \in ClientRecord, NEW step \in StepName, NEW items \in Seq(Item)
          PROVE  /\ [x EXCEPT !.step = step, !.items = items] \in ClientRecord
                 /\ [x EXCEPT !.step = step, !.items = items].step = step
      BY DEF ClientRecord
    <3> QED
      BY <2>4, <2>5, <3>1
  <2> HIDE DEF r
  <2> QED
    BY <1>0, <2>3, <2>4, <2>6, ClientMoves
<1>15. ASSUME NEW j \in JobId, DeleteCall(j) PROVE UNCHANGED client
  BY <1>15 DEF DeleteCall
<1>16. ASSUME NEW c \in Client, ClientStep(c) PROVE ClientInv'
  BY <1>10, <1>11, <1>12, <1>13, <1>14, <1>16 DEF ClientStep
<1>17. ASSUME NEW t \in Thread, WorkerStep(t) PROVE UNCHANGED client
  BY <1>17 DEF WorkerStep, OwnStep, TakeJob, LoopStep, LeaveJob, LeaseStep, Heartbeat, NoticeCancel,
               Returns, FinishStep, CancelledStep, FailedStep, RateLimitedStep, ReadBack, Reports
<1>18. ASSUME NEW t \in Thread, NEW batch \in SUBSET Post, Persist(t, batch) PROVE UNCHANGED client
  BY <1>18 DEF Persist
<1>19. CASE Crash \/ ShutdownEnds \/ LoadFull
  BY <1>5, <1>19 DEF Crash, ShutdownEnds, LoadFull
<1>20. CASE Shutdown \/ Restart \/ Recover \/ Load \/ LoadItem \/ Tick \/ UNCHANGED vars
  BY <1>4, <1>20 DEF Shutdown, Restart, Recover, Load, LoadItem, Tick, vars
<1> QED
  BY <1>4, <1>7, <1>8, <1>9, <1>15, <1>16, <1>17, <1>18, <1>19, <1>20 DEF Next

\* The steps that leave what the workers hold and do.
LEMMA HeldKept ==
  ASSUME \/ Sched!SkipKnown \/ Sched!Enqueue \/ Sched!Overflow \/ Sched!SetStop \/ Sched!TellStop
         \/ \E j \in JobId : Sched!Withdraw(j)
         \/ \E c \in Client : Sched!Submit(client[c].items)
         \/ \E t \in Thread : Sched!Sleep(t) \/ Sched!Doze(t) \/ Sched!DozeOver(t) \/ Sched!Exit(t)
         \/ UNCHANGED schedVars
  PROVE  held' = held
BY DEF Sched!SkipKnown, Sched!Enqueue, Sched!Overflow, Sched!SetStop, Sched!TellStop,
       Sched!Withdraw, Sched!Submit, Sched!Sleep, Sched!Doze, Sched!DozeOver, Sched!Exit,
       Sched!Advance, Sched!activeVars, schedVars

\* A worker that has a job goes on with it.
GoesOn(t) ==
  /\ task[t] # "none" /\ UNCHANGED <<schedVars, process, epoch, client>>
  /\ \E x \in TaskName \ {"none"} : task' = [task EXCEPT ![t] = x]

\* Only a worker changes what it does and holds, but for the end of a process.
LEMMA WorkerShape ==
  ASSUME ClientInv, [Next]_vars
  PROVE  \/ UNCHANGED <<task, held>>
         \/ MemoryLost /\ process' \in {"down", "failed"}
         \/ \E t \in Thread : WorkerStep(t)
<1>1. ASSUME NEW c \in Client, NEW q \in Request, SubmitCall(c, q) PROVE UNCHANGED <<task, held>>
  BY <1>1, HeldKept DEF SubmitCall
<1>2. ASSUME NEW c \in Client, NEW batch \in SUBSET Request, BatchCall(c, batch)
      PROVE  UNCHANGED <<task, held>>
  BY <1>2, HeldKept DEF BatchCall
<1>3. ASSUME NEW j \in JobId, DeleteCall(j) \/ \E c \in Client : CancelCall(c, j) \/ ResumeCall(c, j)
      PROVE  UNCHANGED <<task, held>>
  BY <1>3, HeldKept DEF CancelCall, ResumeCall, DeleteCall
<1>4. ASSUME NEW c \in Client, ClientStep(c) PROVE UNCHANGED <<task, held>>
  <2>1. CASE SubmitLook(c)
    BY <2>1 DEF SubmitLook
  <2>2. CASE EnqueueCall(c)
    BY <2>2, HeldKept DEF EnqueueCall
  <2>3. CASE EnqueueItem(c) \/ EnqueueFull(c)
    BY <2>3, HeldKept DEF EnqueueItem, EnqueueFull
  <2>4. CASE CancelForget(c)
    <3>1. client[c].job \in JobId
      BY <2>4 DEF CancelForget, ClientInv, Named
    <3> QED
      BY <2>4, <3>1, HeldKept DEF CancelForget
  <2>5. CASE Refuse(c) \/ ResumeRow(c) \/ ResumeRoute(c)
    BY <2>5, HeldKept DEF Refuse, ResumeRow, ResumeRoute
  <2> QED
    BY <1>4, <2>1, <2>2, <2>3, <2>4, <2>5 DEF ClientStep
<1>5. ASSUME NEW t \in Thread, NEW batch \in SUBSET Post, Persist(t, batch)
       PROVE  UNCHANGED <<task, held>>
  BY <1>5, HeldKept DEF Persist
<1>6. CASE Crash \/ ShutdownEnds \/ LoadFull
  BY <1>6 DEF Crash, ShutdownEnds, LoadFull
<1>7. CASE Shutdown \/ LoadItem
  BY <1>7, HeldKept DEF Shutdown, LoadItem
<1>8. CASE Restart \/ Recover \/ Tick
  BY <1>8, HeldKept DEF Restart, Recover, Tick
<1>9. CASE Load \/ UNCHANGED vars
  BY <1>9, HeldKept DEF Load, vars
<1> QED
  BY <1>1, <1>2, <1>3, <1>4, <1>5, <1>6, <1>7, <1>8, <1>9 DEF Next

\* What a step of the service does to the workers.
LEMMA TaskShape ==
  ASSUME ClientInv, TaskInv, [Next]_vars
  PROVE  \/ UNCHANGED <<task, held>> \/ MemoryLost
         \/ \E t \in Thread : GoesOn(t) \/ TakeJob(t) \/ LeaveJob(t)
<1>1. ASSUME NEW t \in Thread, LoopStep(t) PROVE UNCHANGED <<task, held>>
  BY <1>1, HeldKept DEF LoopStep
<1>2. ASSUME NEW t \in Thread,
             \/ NoticeCancel(t) \/ FinishStep(t) \/ CancelledStep(t) \/ FailedStep(t)
             \/ RateLimitedStep(t) \/ ReadBack(t)
      PROVE  GoesOn(t)
  <2>1. task[t] # "none" /\ \E x \in {"cancelling", "done", "leaving"} : Moves(t, x)
    BY <1>2 DEF NoticeCancel, FinishStep, CancelledStep, FailedStep, RateLimitedStep, ReadBack,
                Reports
  <2>2. UNCHANGED <<schedVars, process, epoch, client>>
    BY <1>2 DEF NoticeCancel, FinishStep, CancelledStep, FailedStep, RateLimitedStep, ReadBack,
                Reports
  <2> QED
    BY <2>1, <2>2 DEF GoesOn, Moves, TaskName, Collecting
<1>3. ASSUME NEW t \in Thread, LeaseStep(t) \/ Returns(t) PROVE GoesOn(t)
  <2>1. task[t] # "none" /\ \E x \in {"collecting", "done", "finishing", "failing"} : Moves(t, x)
    BY <1>3 DEF LeaseStep, Returns
  <2>2. UNCHANGED <<schedVars, process, epoch, client>>
    BY <1>3 DEF LeaseStep, Returns
  <2> QED
    BY <2>1, <2>2 DEF GoesOn, Moves, TaskName, Collecting
<1>4. ASSUME NEW t \in Thread, Heartbeat(t) PROVE GoesOn(t) \/ UNCHANGED <<task, held>>
  <2>1. task[t] # "none" /\ (UNCHANGED task \/ \E x \in {"cancelling", "lost"} : Moves(t, x))
    BY <1>4 DEF Heartbeat
  <2>2. UNCHANGED <<schedVars, process, epoch, client>>
    BY <1>4 DEF Heartbeat
  <2> QED
    BY <2>1, <2>2, HeldKept DEF GoesOn, Moves, TaskName, Collecting
<1>5. ASSUME NEW t \in Thread, WorkerStep(t)
      PROVE  UNCHANGED <<task, held>> \/ GoesOn(t) \/ TakeJob(t) \/ LeaveJob(t)
  BY <1>1, <1>2, <1>3, <1>4, <1>5 DEF WorkerStep, OwnStep
<1> QED
  BY <1>5, WorkerShape

\* A worker takes a known item.
LEMMA TakenItem ==
  ASSUME SchedP!IInv, NEW t \in Thread, TakeJob(t)
  PROVE  /\ held[t] = NoItem /\ task' = [task EXCEPT ![t] = "taken"]
         /\ \E i \in known : i \in Item /\ held' = [held EXCEPT ![t] = i] /\ known' = known \ {i}
         /\ UNCHANGED <<storeVars, process, epoch, guard, client, inbox>>
<1>1. SchedP!Dispatch(t)
  BY SameDispatch DEF TakeJob
<1> QED
  BY <1>1, SchedP!DispatchTakes, SchedulerAssumed DEF TakeJob, Moves, SchedP!IInv, SchedP!QueueType

LEMMA TasksKept == Typed /\ [Next]_vars => TaskInv'
<1> SUFFICES ASSUME Typed, [Next]_vars PROVE TaskInv'
  OBVIOUS
<1>1. /\ TaskInv /\ ClientInv /\ SchedP!IInv
      /\ task \in [Thread -> TaskName] /\ held \in [Thread -> Item \union {NoItem}]
      /\ \A t \in Thread : task[t] = "none" <=> held[t] = NoItem
      /\ NoItem \notin Item /\ "none" \in TaskName /\ "taken" \in TaskName
  BY JobServiceAssumption DEF Typed, TaskInv, SchedP!IInv, SchedP!SlotType, TaskName
<1>2. CASE UNCHANGED <<task, held>>
  BY <1>1, <1>2 DEF TaskInv
<1>3. CASE MemoryLost
  BY <1>1, <1>3 DEF MemoryLost, TaskInv
<1>4. ASSUME NEW t \in Thread, GoesOn(t) PROVE TaskInv'
  <2>1. PICK x \in TaskName \ {"none"} : task' = [task EXCEPT ![t] = x]
    BY <1>4 DEF GoesOn
  <2>2. held' = held /\ task[t] # "none"
    BY <1>4, HeldKept DEF GoesOn
  <2> QED
    BY <1>1, <2>1, <2>2 DEF TaskInv
<1>5. ASSUME NEW t \in Thread, TakeJob(t) PROVE TaskInv'
  <2>1. /\ task' = [task EXCEPT ![t] = "taken"]
        /\ \E i \in known : i \in Item /\ held' = [held EXCEPT ![t] = i] /\ known' = known \ {i}
    BY <1>1, <1>5, TakenItem
  <2> QED
    BY <1>1, <2>1 DEF TaskInv
<1>6. ASSUME NEW t \in Thread, LeaveJob(t) PROVE TaskInv'
  BY <1>1, <1>6 DEF LeaveJob, Sched!Done, Moves, TaskInv
<1> QED
  BY <1>1, <1>2, <1>3, <1>4, <1>5, <1>6, TaskShape

LEMMA ProcessKept == Typed /\ [Next]_vars => ProcessInv'
<1> SUFFICES ASSUME ProcessInv, [Next]_vars PROVE ProcessInv'
  BY DEF Typed
<1>1. CASE UNCHANGED <<process, epoch, guard>>
  BY <1>1 DEF ProcessInv
<1>2. ASSUME NEW c \in Client, NEW q \in Request, SubmitCall(c, q) PROVE ProcessInv'
  BY <1>2 DEF SubmitCall, ProcessInv
<1>3. ASSUME NEW c \in Client, NEW batch \in SUBSET Request, BatchCall(c, batch) PROVE ProcessInv'
  BY <1>3 DEF BatchCall, ProcessInv
<1>4. ASSUME NEW j \in JobId, DeleteCall(j) \/ \E c \in Client : CancelCall(c, j) \/ ResumeCall(c, j)
      PROVE  UNCHANGED <<process, epoch, guard>>
  BY <1>4 DEF CancelCall, ResumeCall, DeleteCall
<1>5. ASSUME NEW c \in Client, ClientStep(c) PROVE ProcessInv'
  BY <1>5 DEF ClientStep, SubmitLook, EnqueueCall, EnqueueItem, EnqueueFull, Refuse, CancelForget,
              ResumeRow, ResumeRoute, ProcessInv
<1>6. ASSUME NEW t \in Thread, WorkerStep(t) PROVE UNCHANGED <<process, epoch, guard>>
  BY <1>6 DEF WorkerStep, OwnStep, TakeJob, LoopStep, LeaveJob, LeaseStep, Heartbeat, NoticeCancel,
              Returns, FinishStep, CancelledStep, FailedStep, RateLimitedStep, ReadBack, Reports
<1>7. ASSUME NEW t \in Thread, NEW batch \in SUBSET Post, Persist(t, batch)
      PROVE  UNCHANGED <<process, epoch, guard>>
  BY <1>7 DEF Persist
<1>8. CASE Crash \/ ShutdownEnds \/ LoadFull
  BY <1>8 DEF Crash, ShutdownEnds, LoadFull, MemoryLost, ProcessInv
<1>9. CASE Shutdown \/ Recover \/ Load \/ LoadItem \/ Tick \/ UNCHANGED vars
  BY <1>9 DEF Shutdown, Recover, Load, LoadItem, Tick, vars, ProcessInv
<1>10. CASE Restart
  BY <1>10, JobServiceAssumption DEF Restart, ProcessInv
<1> QED
  BY <1>1, <1>2, <1>3, <1>4, <1>5, <1>6, <1>7, <1>8, <1>9, <1>10 DEF Next

\* The types are inductive.
LEMMA TypesKept == Typed /\ [Next]_vars => Typed'
BY TableKept, RequestsKept, SchedulerKept, ClientsKept, ProcessKept, TasksKept DEF Typed

LEMMA TypesStart == Init => Typed
<1> SUFFICES ASSUME Init PROVE Typed
  OBVIOUS
<1>1. StoreP!Init
  BY DEF Init, StoreP!Init, StoreP!Posts, StoreP!NoRow, Store!NoRow, StoreP!NoCode, Store!NoCode,
         StoreP!NoTime, Store!NoTime, StoreP!NoSnapshot, Store!NoSnapshot
<1>2. StoreP!RowInv
  BY <1>1, StoreP!InitRow, StoreAssumed
<1>3. \A j \in JobId : jobs[j].status = "absent"
  BY DEF Init, Store!NoRow
<1>4. StoreP!SequenceUnique /\ ReqInv
  BY <1>3 DEF StoreP!SequenceUnique, StoreP!Present, StoreP!JobStatus, StoreP!Active,
              StoreP!Terminal, ReqInv
<1>5. SchedP!IInv
  <2>1. SchedP!Init
    BY DEF Init, Sched!Init, SchedP!Init, SchedP!Lane, Sched!Lane, SchedP!Priority, Sched!Priority,
           SchedP!Source, Sched!Source
  <2> QED
    BY <2>1, SchedP!InitInv, SchedulerAssumed
<1>6. ClientInv
  BY ClientRecords DEF Init, ClientInv, Named, Idle
<1>7. ProcessInv /\ TaskInv
  BY JobServiceAssumption DEF Init, Sched!Init, ProcessInv, TaskInv, TaskName
<1> QED
  BY <1>2, <1>4, <1>5, <1>6, <1>7 DEF Typed

LEMMA TypedHolds == Spec => []Typed
BY TypesStart, TypesKept, PTL DEF Spec

\* The composition keeps the types of its parts and its own: a call, a worker
\* and a process are always where the code can be.
THEOREM ServiceTyped == Spec => []TypeOK
<1>1. Typed => TypeOK
  <2> SUFFICES ASSUME Typed PROVE TypeOK
    OBVIOUS
  <2>1. Store!TypeOK
    BY SameTypes DEF Typed, StoreP!RowInv
  <2>2. Sched!TypeOK
    <3>1. SchedP!TypeOK
      BY SchedP!TypesByInv, SchedulerAssumed DEF Typed
    <3> QED
      BY <3>1 DEF Sched!TypeOK, SchedP!TypeOK, Sched!Lane, SchedP!Lane, Sched!Priority,
                  SchedP!Priority, Sched!Source, SchedP!Source, Sched!Auth, SchedP!Auth
  <2>3. \A c \in Client : /\ client[c].job \in JobId \union {0} /\ client[c].items \in Seq(Item)
                          /\ client[c].step = "idle" => client[c] = Idle
    BY DEF Typed, ClientInv, ClientRecord
  <2> QED
    BY <2>1, <2>2, <2>3 DEF Typed, ProcessInv, TaskInv, TypeOK
<1> QED
  BY <1>1, TypedHolds, PTL

\* Whatever the service does to the durable table is one of the table's own
\* transactions, called as the table allows: its theorems hold of the service.
THEOREM StoreImplemented == Spec => Store!Spec
<1>1. Init => Store!Init
  BY DEF Init, Store!Init, Store!Posts
<1>2. Typed /\ [Next]_vars => [Store!Next]_(Store!storeVars)
  BY StoreStep DEF Typed, StoreP!RowInv, storeVars, Store!storeVars
<1> QED
  BY <1>1, <1>2, TypedHolds, PTL DEF Spec, Store!Spec

-----------------------------------------------------------------------------
(* An item names the source and the auth state of the row it stands for     *)

\* A row that is gone need not be what its item says: it is never leased.
Faithful(table, i) ==
  /\ table[i.job].status # "absent"
  /\ table[i.job].status # "deleted" =>
       i.source = table[i.job].req.source /\ i.auth = table[i.job].req.auth

FaithfulClient(c) ==
  /\ client[c].step \in Named => jobs[client[c].job].status # "absent"
  /\ \A n \in DOMAIN client[c].items : Faithful(jobs, client[c].items[n])

FaithfulWorker(t) ==
  /\ task[t] # "none" => Faithful(jobs, held[t])
  /\ task[t] \in Collecting =>
       held[t].source = jobs[Mine(t)].req.source /\ held[t].auth = jobs[Mine(t)].req.auth

FaithInv ==
  /\ \A c \in Client : FaithfulClient(c)
  /\ \A n \in DOMAIN inbox : Faithful(jobs, inbox[n])
  /\ \A i \in known : Faithful(jobs, i)
  /\ \A t \in Thread : FaithfulWorker(t)

\* No step makes an item unfaithful.
LEMMA FaithStays ==
  ASSUME Typed, [Next]_vars
  PROVE  /\ \A i \in Item : Faithful(jobs, i) => Faithful(jobs', i)
         /\ \A j \in JobId : jobs[j].status # "absent" =>
              jobs'[j].status # "absent" /\ jobs'[j].req = jobs[j].req
<1>1. ASSUME NEW j \in JobId, jobs[j].status # "absent"
      PROVE  /\ jobs'[j].status # "absent" /\ jobs'[j].req = jobs[j].req
             /\ jobs[j].status = "deleted" => jobs'[j].status = "deleted"
  BY <1>1, RowMoves
<1>2. ASSUME NEW i \in Item, Faithful(jobs, i) PROVE Faithful(jobs', i)
  <2>1. i.job \in JobId
    BY ItemParts
  <2> QED
    BY <1>1, <1>2, <2>1 DEF Faithful
<1> QED
  BY <1>1, <1>2

\* What is queued for a row that is there is faithful.
LEMMA RowFaithful ==
  ASSUME NEW table, NEW j, table[j].status # "absent"
  PROVE  /\ Faithful(table, ItemOf(j, table[j].req))
         /\ Faithful(table, Resumed(j, table[j].req))
         /\ table[j].status = "deleted" => Faithful(table, Unroutable(j))
<1>1. /\ ItemOf(j, table[j].req).job = j /\ ItemOf(j, table[j].req).source = table[j].req.source
      /\ ItemOf(j, table[j].req).auth = table[j].req.auth
  BY DEF ItemOf
<1>2. /\ Resumed(j, table[j].req).job = j
      /\ Resumed(j, table[j].req).source = table[j].req.source
      /\ Resumed(j, table[j].req).auth = table[j].req.auth
  BY DEF ItemOf, Resumed
<1>3. Unroutable(j).job = j
  BY DEF Unroutable
<1> QED
  BY <1>1, <1>2, <1>3 DEF Faithful

LEMMA FaithStart == Init => FaithInv
BY DEF Init, Sched!Init, FaithInv, FaithfulClient, FaithfulWorker, Named, Idle, Collecting

\* A client whose items and row are those it had, or none, stays faithful.
LEMMA ClientFaith ==
  ASSUME Typed, FaithInv, [Next]_vars, NEW c \in Client,
         client'[c].items \in {client[c].items, <<>>},
         client'[c].step \in Named =>
           \/ client[c].step \in Named /\ client'[c].job = client[c].job
           \/ jobs'[client'[c].job].status # "absent"
  PROVE  FaithfulClient(c)'
<1>1. client[c].items \in Seq(Item) /\ FaithfulClient(c)
  BY DEF Typed, ClientInv, ClientRecord, FaithInv
<1>2. ASSUME NEW n \in DOMAIN client'[c].items PROVE Faithful(jobs', client'[c].items[n])
  <2>1. client'[c].items = client[c].items
    BY <1>2
  <2>2. client[c].items[n] \in Item /\ Faithful(jobs, client[c].items[n])
    BY <1>1, <1>2, <2>1, ElementOfSeq DEF FaithfulClient
  <2> QED
    BY <2>1, <2>2, FaithStays
<1>3. client'[c].step \in Named => jobs'[client'[c].job].status # "absent"
  <2>1. client[c].step \in Named => client[c].job \in JobId
    BY DEF Typed, ClientInv
  <2> QED
    BY <1>1, <2>1, FaithStays DEF FaithfulClient
<1> QED
  BY <1>2, <1>3 DEF FaithfulClient

\* A client moves by its own steps, but for the end of a process.
LEMMA OwnShape ==
  ASSUME ClientInv, [Next]_vars, NEW d \in Client
  PROVE  \/ client'[d] = client[d] \/ ClientStep(d)
         \/ MemoryLost /\ process' \in {"down", "failed"}
         \/ \E q \in Request : SubmitCall(d, q)
         \/ \E batch \in SUBSET Request : BatchCall(d, batch)
         \/ \E j \in JobId : CancelCall(d, j) \/ ResumeCall(d, j)
<1>0. client \in [Client -> ClientRecord]
  BY DEF ClientInv
<1>1. ASSUME NEW c \in Client, NEW r, client' = [client EXCEPT ![c] = r], c # d
      PROVE  client'[d] = client[d]
  BY <1>0, <1>1
<1>2. ASSUME NEW c \in Client, NEW q \in Request, SubmitCall(c, q), c # d PROVE client'[d] = client[d]
  <2>1. \E r : client' = [client EXCEPT ![c] = r]
    BY <1>2 DEF SubmitCall
  <2> QED
    BY <1>1, <1>2, <2>1
<1>3. ASSUME NEW c \in Client, NEW batch \in SUBSET Request, BatchCall(c, batch), c # d
      PROVE  client'[d] = client[d]
  <2>1. \E r : client' = [client EXCEPT ![c] = r]
    BY <1>3 DEF BatchCall
  <2> QED
    BY <1>1, <1>3, <2>1
<1>4. ASSUME NEW c \in Client, NEW j \in JobId, CancelCall(c, j) \/ ResumeCall(c, j), c # d
      PROVE  client'[d] = client[d]
  <2>1. \E r : client' = [client EXCEPT ![c] = r]
    BY <1>4 DEF CancelCall, ResumeCall
  <2> QED
    BY <1>1, <1>4, <2>1
<1>5. ASSUME NEW c \in Client, ClientStep(c), c # d PROVE client'[d] = client[d]
  <2>1. UNCHANGED client \/ \E r : client' = [client EXCEPT ![c] = r]
    <3>1. ASSUME NEW step, Goes(c, step) PROVE \E r : client' = [client EXCEPT ![c] = r]
      <4>1. client' = [client EXCEPT ![c] = [client[c] EXCEPT !.step = step]]
        BY <3>1 DEF Goes
      <4> QED
        BY <4>1
    <3>2. CASE \/ SubmitLook(c) \/ EnqueueCall(c) \/ EnqueueFull(c) \/ ResumeRow(c)
      BY <3>1, <3>2 DEF SubmitLook, EnqueueCall, EnqueueFull, ResumeRow
    <3>3. CASE EnqueueItem(c) \/ Refuse(c) \/ CancelForget(c)
      BY <3>3 DEF EnqueueItem, Refuse, CancelForget
    <3>4. CASE ResumeRoute(c)
      BY <3>4 DEF ResumeRoute
    <3> QED
      BY <1>5, <3>2, <3>3, <3>4 DEF ClientStep
  <2> QED
    BY <1>1, <1>5, <2>1
<1>6. ASSUME NEW t \in Thread, WorkerStep(t) PROVE UNCHANGED client
  BY <1>6 DEF WorkerStep, OwnStep, TakeJob, LoopStep, LeaveJob, LeaseStep, Heartbeat, NoticeCancel,
              Returns, FinishStep, CancelledStep, FailedStep, RateLimitedStep, ReadBack, Reports
<1>7. ASSUME NEW t \in Thread, NEW batch \in SUBSET Post, Persist(t, batch) PROVE UNCHANGED client
  BY <1>7 DEF Persist
<1>8. CASE Crash \/ ShutdownEnds \/ LoadFull
  BY <1>8 DEF Crash, ShutdownEnds, LoadFull
<1>9. CASE \/ Shutdown \/ Restart \/ Recover \/ Load \/ LoadItem \/ Tick \/ UNCHANGED vars
           \/ \E j \in JobId : DeleteCall(j)
  BY <1>9 DEF Shutdown, Restart, Recover, Load, LoadItem, Tick, DeleteCall, vars
<1> QED
  BY <1>2, <1>3, <1>4, <1>5, <1>6, <1>7, <1>8, <1>9 DEF Next

\* A client keeps its items and its row, forgets them, or starts to work on others.
Keeps(c) ==
  /\ client'[c].items \in {client[c].items, <<>>}
  /\ client'[c].step \in Named =>
       client[c].step \in Named /\ client'[c].job = client[c].job

LEMMA ClientShape ==
  ASSUME ClientInv, [Next]_vars, NEW d \in Client
  PROVE  \/ Keeps(d) \/ ResumeRoute(d)
         \/ \E q \in Request : SubmitCall(d, q)
         \/ \E batch \in SUBSET Request : BatchCall(d, batch)
         \/ \E j \in JobId : CancelCall(d, j) \/ ResumeCall(d, j)
<1>0. client \in [Client -> ClientRecord] /\ client[d] \in ClientRecord
  BY DEF ClientInv
<1>1. ASSUME client'[d] = client[d] \/ client'[d] = Idle PROVE Keeps(d)
  BY <1>1 DEF Keeps, Idle, Named
<1>2. ASSUME NEW step \in StepName, Goes(d, step), step \in Named => client[d].step \in Named
      PROVE  Keeps(d)
  <2>1. client' = [client EXCEPT ![d] = [client[d] EXCEPT !.step = step]]
    BY <1>2 DEF Goes
  <2>2. client'[d] = [client[d] EXCEPT !.step = step]
    BY <1>0, <2>1
  <2> QED
    BY <1>0, <1>2, <2>2 DEF Keeps, ClientRecord
<1>3. ASSUME MemoryLost PROVE Keeps(d)
  BY <1>1, <1>3 DEF MemoryLost
<1>4. ASSUME client' = [client EXCEPT ![d] = Idle] PROVE Keeps(d)
  BY <1>0, <1>1, <1>4
<1>5. ASSUME SubmitLook(d) PROVE Keeps(d)
  <2>1. client' = [client EXCEPT ![d] = Idle] \/ Goes(d, "admitted")
    BY <1>5 DEF SubmitLook
  <2> QED
    BY <1>2, <1>4, <2>1 DEF StepName, Named
<1>6. ASSUME EnqueueCall(d) \/ EnqueueFull(d) PROVE Keeps(d)
  <2>1. PICK step \in {"enqueuing", "enqueuing batch", "refused", "batch refused"} : Goes(d, step)
    BY <1>6 DEF EnqueueCall, EnqueueFull
  <2> QED
    BY <1>2, <2>1 DEF StepName, Named
<1>7. ASSUME EnqueueItem(d) \/ Refuse(d) \/ CancelForget(d) PROVE Keeps(d)
  <2>1. client' = [client EXCEPT ![d] = Idle] \/ UNCHANGED client
    BY <1>7 DEF EnqueueItem, Refuse, CancelForget
  <2> QED
    BY <1>1, <1>4, <2>1
<1>8. ASSUME ResumeRow(d) PROVE Keeps(d)
  <2>1. client' = [client EXCEPT ![d] = Idle] \/ Goes(d, "resumed")
    BY <1>8 DEF ResumeRow
  <2>2. client[d].step \in Named
    BY <1>8 DEF ResumeRow, Named
  <2> QED
    BY <1>2, <1>4, <2>1, <2>2 DEF StepName
<1>9. ASSUME ClientStep(d) PROVE Keeps(d) \/ ResumeRoute(d)
  BY <1>5, <1>6, <1>7, <1>8, <1>9 DEF ClientStep
<1>10. client'[d] = client[d] \/ MemoryLost \/ ClientStep(d) => Keeps(d) \/ ResumeRoute(d)
  BY <1>1, <1>3, <1>9
<1> QED
  BY <1>10, OwnShape

\* A call that is refused or goes on leaves its client faithful, and so does
\* one that finds rows to enqueue.
LEMMA ClientsFaithful == Typed /\ FaithInv /\ [Next]_vars => \A c \in Client : FaithfulClient(c)'
<1> SUFFICES ASSUME Typed, FaithInv, [Next]_vars, NEW c \in Client PROVE FaithfulClient(c)'
  OBVIOUS
<1>0. client \in [Client -> ClientRecord] /\ ClientInv
  BY DEF Typed, ClientInv
<1>1. CASE Keeps(c)
  BY <1>1, ClientFaith DEF Keeps
<1>2. ASSUME NEW q \in Request, SubmitCall(c, q) PROVE FaithfulClient(c)'
  <2>1. PICK j \in JobId, step \in {"admitted", "existing"} :
          /\ jobs'[j].status # "absent" /\ jobs'[j].req = q
          /\ client' = [client EXCEPT ![c] = [step |-> step, job |-> j, items |-> <<ItemOf(j, q)>>]]
    <3>1. ASSUME NEW j \in JobId, FreshId(j), Store!AdmitJob(q, j)
          PROVE  jobs'[j].status # "absent" /\ jobs'[j].req = q
      <4>1. jobs \in [JobId -> StoreP!Row]
        BY DEF Typed, StoreP!RowInv, StoreP!TypeOK
      <4>2. PICK n \in 1..MaxSequence : jobs' = [jobs EXCEPT ![j] = Store!AdmittedRow(q, {}, n)]
        BY <3>1 DEF Store!AdmitJob
      <4>3. /\ Store!AdmittedRow(q, {}, n).status = "queued"
            /\ Store!AdmittedRow(q, {}, n).req = q
        BY DEF Store!AdmittedRow, Store!NoRow
      <4> QED
        BY <4>1, <4>2, <4>3
    <3>2. ASSUME NEW j \in Store!Existing(q), ~Store!KeyClash(q), UNCHANGED storeVars
          PROVE  j \in JobId /\ jobs'[j].status # "absent" /\ jobs'[j].req = q
      BY <3>2 DEF Store!Existing, Store!Present, Store!KeyClash, storeVars, Store!JobStatus,
                  Store!Active, Store!Terminal
    <3> QED
      BY <1>2, <3>1, <3>2 DEF SubmitCall
  <2>2. client'[c] = [step |-> step, job |-> j, items |-> <<ItemOf(j, q)>>]
    BY <1>0, <2>1
  <2>3. client'[c].job = j /\ client'[c].items = <<ItemOf(j, q)>>
    BY <2>2
  <2>4. Faithful(jobs', ItemOf(j, q))
    BY <2>1, RowFaithful
  <2> QED
    BY <2>1, <2>3, <2>4 DEF FaithfulClient
<1>3. ASSUME NEW batch \in SUBSET Request, BatchCall(c, batch) PROVE FaithfulClient(c)'
  <2>1. StoreP!RowInv' /\ StoreP!SequenceUnique'
    BY TableKept
  <2>2. \A j \in JobId : jobs'[j] \in StoreP!Row
    BY <2>1 DEF StoreP!RowInv, StoreP!TypeOK
  <2>3. \A j \in JobId : jobs'[j].seq \in Nat
    BY <2>2 DEF StoreP!Row
  <2>4. \A j, k \in JobId : jobs'[j].status = "queued" /\ jobs'[k].status = "queued"
                              /\ jobs'[j].seq = jobs'[k].seq => j = k
    BY <2>1 DEF StoreP!SequenceUnique, StoreP!Present, StoreP!JobStatus, StoreP!Active
  <2>5. \A n \in DOMAIN BatchItems(jobs', batch) :
          \E j \in JobId : /\ jobs'[j].status = "queued"
                           /\ BatchItems(jobs', batch)[n] = ItemOf(j, jobs'[j].req)
    BY <2>3, <2>4, BatchListed
  <2>6. client'[c] = [step |-> "batched", job |-> 0, items |-> BatchItems(jobs', batch)]
    BY <1>0, <1>3 DEF BatchCall
  <2>7. client'[c].step = "batched" /\ client'[c].items = BatchItems(jobs', batch)
    BY <2>6
  <2>8. \A n \in DOMAIN BatchItems(jobs', batch) : Faithful(jobs', BatchItems(jobs', batch)[n])
    BY <2>5, RowFaithful
  <2> QED
    BY <2>7, <2>8 DEF FaithfulClient, Named
<1>4. ASSUME NEW j \in JobId, CancelCall(c, j) \/ ResumeCall(c, j) PROVE FaithfulClient(c)'
  <2>1. PICK step \in {"cancelled", "resuming"} :
          client' = [client EXCEPT ![c] = [step |-> step, job |-> j, items |-> <<>>]]
    BY <1>4 DEF CancelCall, ResumeCall
  <2>2. client'[c].items = <<>> /\ client'[c].job = j
    BY <1>0, <2>1
  <2>3. jobs[j].status # "absent"
    BY <1>4 DEF CancelCall, ResumeCall, Store!RequestCancel, Store!Transition, Store!CanTransition,
                Store!JobStatus, Store!Active, Store!Terminal
  <2>4. jobs'[j].status # "absent"
    BY <2>3, FaithStays
  <2> QED
    BY <2>2, <2>4, ClientFaith
<1>5. CASE ResumeRoute(c)
  <2> DEFINE j == client[c].job
             i == IF jobs[j].status \in Store!JobStatus THEN Resumed(j, jobs[j].req)
                  ELSE Unroutable(j)
  <2>1. j \in JobId /\ jobs[j].status # "absent" /\ client[c] \in ClientRecord /\ jobs' = jobs
    BY <1>0, <1>5 DEF ResumeRoute, ClientInv, Named, FaithInv, FaithfulClient, storeVars
  <2>2. jobs[j].status \notin Store!JobStatus => jobs[j].status = "deleted"
    BY <2>1 DEF Typed, StoreP!RowInv, StoreP!TypeOK, StoreP!Row, StoreP!JobStatus, StoreP!Active,
                StoreP!Terminal, Store!JobStatus, Store!Active, Store!Terminal
  <2>3. Faithful(jobs', i)
    BY <2>1, <2>2, RowFaithful
  <2>4. client'[c] = [client[c] EXCEPT !.step = "routed", !.items = <<i>>]
    BY <1>0, <1>5 DEF ResumeRoute
  <2> HIDE DEF i, j
  <2>5. client'[c].step = "routed" /\ client'[c].items = <<i>>
    BY <2>1, <2>4 DEF ClientRecord
  <2> QED
    BY <2>3, <2>5 DEF FaithfulClient, Named
<1> QED
  BY <1>0, <1>1, <1>2, <1>3, <1>4, <1>5, ClientShape

\* A worker begins to collect when it has leased its row, and stops with a report.
ReportStep(t) == FinishStep(t) \/ CancelledStep(t) \/ FailedStep(t) \/ RateLimitedStep(t)

LEMMA CollectingMoves ==
  ASSUME Typed, [Next]_vars, NEW t \in Thread
  PROVE  \/ Starts(t)
         \/ task'[t] \in Collecting /\ task[t] \in Collecting /\ held'[t] = held[t]
         \/ task'[t] \notin Collecting /\ task[t] \notin Collecting
         \/ task'[t] \notin Collecting /\ (process' \in {"down", "failed"} \/ ReportStep(t))
<1> DEFINE Goal == \/ Starts(t)
                   \/ task'[t] \in Collecting /\ task[t] \in Collecting /\ held'[t] = held[t]
                   \/ task'[t] \notin Collecting /\ task[t] \notin Collecting
                   \/ task'[t] \notin Collecting /\ (process' \in {"down", "failed"} \/ ReportStep(t))
<1>0. /\ TaskInv /\ ClientInv /\ SchedP!IInv /\ ProcessInv /\ StoreP!TypeOK
      /\ task \in [Thread -> TaskName] /\ held \in [Thread -> Item \union {NoItem}]
      /\ \A u \in Thread : task[u] = "none" <=> held[u] = NoItem
  BY DEF Typed, TaskInv, StoreP!RowInv, SchedP!IInv, SchedP!SlotType
<1>1. ASSUME task'[t] = task[t], held'[t] = held[t] PROVE Goal
  BY <1>1
<1>2. ASSUME MemoryLost, process' \in {"down", "failed"} PROVE Goal
  BY <1>2 DEF MemoryLost, Collecting
<1>3. ASSUME NEW u \in Thread, NEW x, Moves(u, x), UNCHANGED schedVars, u # t PROVE Goal
  BY <1>0, <1>1, <1>3, HeldKept DEF Moves
<1>4. ASSUME NEW u \in Thread, TakeJob(u) PROVE Goal
  <2>1. /\ held[u] = NoItem /\ task' = [task EXCEPT ![u] = "taken"]
        /\ \E i : held' = [held EXCEPT ![u] = i]
    BY <1>0, <1>4, TakenItem
  <2> QED
    BY <1>0, <1>1, <2>1 DEF Collecting
<1>5. ASSUME NEW u \in Thread, LeaveJob(u) PROVE Goal
  <2>1. /\ task[u] = "leaving" /\ task' = [task EXCEPT ![u] = "none"]
        /\ held' = [held EXCEPT ![u] = NoItem]
    BY <1>5 DEF LeaveJob, Sched!Done, Moves
  <2> QED
    BY <1>0, <1>1, <2>1 DEF Collecting
<1>6. ASSUME NEW u \in Thread, LoopStep(u) PROVE Goal
  BY <1>1, <1>6, HeldKept DEF LoopStep
<1>7. ASSUME NEW u \in Thread, LeaseStep(u) PROVE Goal
  <2>1. Starts(u) \/ Moves(u, "done")
    BY <1>0, <1>7, LeaseShape
  <2>2. task[u] = "taken" /\ UNCHANGED schedVars
    BY <1>7 DEF LeaseStep
  <2>3. u # t => Goal
    <3>1. \E x : Moves(u, x)
      BY <2>1 DEF Starts, Moves
    <3> QED
      BY <1>3, <2>2, <3>1
  <2>4. u = t => Goal
    BY <1>0, <2>1, <2>2 DEF Moves, Collecting
  <2> QED
    BY <2>3, <2>4
<1>8. ASSUME NEW u \in Thread, Heartbeat(u) \/ NoticeCancel(u) \/ Returns(u) PROVE Goal
  <2>1. /\ task[u] = "collecting" /\ UNCHANGED schedVars
        /\ UNCHANGED task \/ \E x \in {"cancelling", "lost", "finishing", "failing"} : Moves(u, x)
    BY <1>8 DEF Heartbeat, NoticeCancel, Returns
  <2> QED
    BY <1>0, <1>1, <2>1, HeldKept DEF Moves, Collecting
<1>9. ASSUME NEW u \in Thread, ReportStep(u) PROVE Goal
  <2>1. Moves(u, "done") /\ UNCHANGED schedVars
    BY <1>9 DEF ReportStep, FinishStep, CancelledStep, FailedStep, RateLimitedStep, Reports
  <2> QED
    BY <1>0, <1>3, <1>9, <2>1 DEF Moves, Collecting
<1>10. ASSUME NEW u \in Thread, ReadBack(u) PROVE Goal
  <2>1. task[u] = "done" /\ Moves(u, "leaving") /\ UNCHANGED schedVars
    BY <1>10 DEF ReadBack
  <2> QED
    BY <1>0, <1>3, <2>1 DEF Moves, Collecting
<1>11. ASSUME NEW u \in Thread, WorkerStep(u) PROVE Goal
  BY <1>4, <1>5, <1>6, <1>7, <1>8, <1>9, <1>10, <1>11 DEF WorkerStep, OwnStep, ReportStep
<1> QED
  BY <1>0, <1>1, <1>2, <1>11, WorkerShape

\* The items in memory stay faithful.
LEMMA ItemsFaithful ==
  ASSUME Typed, FaithInv, [Next]_vars
  PROVE  /\ \A n \in DOMAIN inbox' : Faithful(jobs', inbox'[n])
         /\ \A i \in known' : Faithful(jobs', i)
         /\ \A t \in Thread : held'[t] # NoItem => Faithful(jobs', held'[t])
<1>0. /\ SchedP!IInv /\ ClientInv /\ inbox \in Seq(Item) /\ known \subseteq Item
      /\ held \in [Thread -> Item \union {NoItem}]
      /\ \A t \in Thread : task[t] = "none" <=> held[t] = NoItem
  BY DEF Typed, TaskInv, SchedP!IInv, SchedP!SlotType, SchedP!RestType, SchedP!QueueType
<1>1. /\ \A n \in DOMAIN inbox : Faithful(jobs', inbox[n])
      /\ \A i \in known : Faithful(jobs', i)
      /\ \A t \in Thread : held[t] # NoItem => Faithful(jobs', held[t])
  <2>1. \A n \in DOMAIN inbox : inbox[n] \in Item
    BY <1>0, ElementOfSeq
  <2> QED
    BY <1>0, <2>1, FaithStays DEF FaithInv, FaithfulWorker
<1>2. CASE SchedulerStep
  <2>1. /\ known' \subseteq known \union {inbox[n] : n \in DOMAIN inbox}
        /\ \A n \in DOMAIN inbox' : \E m \in DOMAIN inbox : inbox'[n] = inbox[m]
        /\ \A t \in Thread : held'[t] \in known \union {held[t], NoItem}
    BY <1>0, <1>2, ItemsMove
  <2> QED
    BY <1>1, <2>1
<1>3. CASE UNCHANGED schedVars
  BY <1>1, <1>3 DEF schedVars
<1>4. CASE MemoryLost
  BY <1>4 DEF MemoryLost
<1>5. CASE Load
  <2>1. \A n \in DOMAIN QueuedList : \E j \in Queued : QueuedList[n] = ItemOf(j, jobs[j].req)
    <3>1. \A j \in JobId : jobs[j].status = "queued" => jobs[j].req \in Request
      BY DEF Typed, ReqInv
    <3> QED
      BY <3>1, QueueListed DEF Typed, StoreP!RowInv
  <2>2. inbox' = QueuedList /\ jobs' = jobs /\ known' = known /\ held' = held
    BY <1>5 DEF Load, storeVars
  <2>3. \A j \in Queued : Faithful(jobs, ItemOf(j, jobs[j].req))
    BY RowFaithful DEF Queued
  <2> QED
    BY <1>1, <2>1, <2>2, <2>3
<1>6. ASSUME NEW c \in Client, SubmitLook(c) PROVE UNCHANGED <<inbox, known, held>>
  BY <1>6 DEF SubmitLook
<1>7. ASSUME NEW c \in Client, EnqueueCall(c)
      PROVE  UNCHANGED <<known, held, jobs>> /\ inbox' = client[c].items
  BY <1>7 DEF EnqueueCall, Sched!Submit, Sched!queueVars, Sched!activeVars, storeVars
<1>8. ASSUME NEW c \in Client, SubmitLook(c) \/ EnqueueCall(c)
      PROVE  /\ \A n \in DOMAIN inbox' : Faithful(jobs', inbox'[n])
             /\ known' = known /\ held' = held
  BY <1>1, <1>6, <1>7, <1>8 DEF FaithInv, FaithfulClient
<1> QED
  BY <1>0, <1>1, <1>2, <1>3, <1>4, <1>5, <1>8, SchedulerShape

LEMMA FaithKept == Typed /\ FaithInv /\ [Next]_vars => FaithInv'
<1> SUFFICES ASSUME Typed, FaithInv, [Next]_vars PROVE FaithInv'
  OBVIOUS
<1>1. \A t \in Thread : task'[t] # "none" => held'[t] # NoItem
  BY TasksKept DEF TaskInv
<1>2. ASSUME NEW t \in Thread, task'[t] \in Collecting
      PROVE  held'[t].source = jobs'[held'[t].job].req.source /\ held'[t].auth = jobs'[held'[t].job].req.auth
  <2>1. CASE Starts(t)
    <3>1. /\ task[t] = "taken" /\ held' = held /\ Mine(t) \in JobId
          /\ Store!LeaseJob(Mine(t), OwnerOf(t), now + LeaseTime)
      BY <2>1, HeldKept DEF Starts
    <3>2. jobs[Mine(t)].status = "queued" /\ Faithful(jobs, held[t])
      BY <3>1 DEF Store!LeaseJob, Store!CanLease, Store!Claimable, FaithInv, FaithfulWorker
    <3>3. jobs'[Mine(t)].req = jobs[Mine(t)].req
      BY <3>1, <3>2, FaithStays
    <3> QED
      BY <3>1, <3>2, <3>3 DEF Faithful, Mine
  <2>2. CASE task[t] \in Collecting /\ held'[t] = held[t]
    <3>1. /\ Faithful(jobs, held[t]) /\ held[t].source = jobs[Mine(t)].req.source
          /\ held[t].auth = jobs[Mine(t)].req.auth /\ Mine(t) \in JobId
      BY <2>2, HeldItem DEF Typed, FaithInv, FaithfulWorker, Collecting
    <3> QED
      BY <2>2, <3>1, FaithStays DEF Faithful, Mine
  <2> QED
    BY <1>2, <2>1, <2>2, CollectingMoves
<1>3. ASSUME NEW t \in Thread PROVE FaithfulWorker(t)'
  BY <1>1, <1>2, ItemsFaithful DEF FaithfulWorker, Mine
<1> QED
  BY <1>3, ItemsFaithful, ClientsFaithful DEF FaithInv

LEMMA FaithHolds == Spec => [](Typed /\ FaithInv)
<1>1. Typed /\ FaithInv /\ [Next]_vars => (Typed /\ FaithInv)'
  BY TypesKept, FaithKept
<1> QED
  BY <1>1, TypesStart, FaithStart, PTL DEF Spec

\* Two workers never collect for one job, source or auth state at a time: what
\* the scheduler keeps apart are the columns of the durable rows, whatever way
\* an item came into the queue (admission, recovery, resumption).
THEOREM CapturesApart == Spec => []OneCapturePerSourceAndAuth
<1>1. Typed /\ FaithInv => OneCapturePerSourceAndAuth
  <2> SUFFICES ASSUME Typed, FaithInv, NEW t \in Thread, NEW u \in Thread, t # u,
                      task[t] \in Collecting, task[u] \in Collecting
               PROVE  /\ Mine(t) # Mine(u)
                      /\ jobs[Mine(t)].req.source # jobs[Mine(u)].req.source
                      /\ jobs[Mine(t)].req.auth # jobs[Mine(u)].req.auth
    BY DEF OneCapturePerSourceAndAuth
  <2>1. held[t] # NoItem /\ held[u] # NoItem
    BY DEF Typed, TaskInv, Collecting
  <2>2. held[t].source # held[u].source /\ held[t].auth # held[u].auth /\ held[t].job # held[u].job
    BY <2>1 DEF Typed, SchedP!IInv, SchedP!ExclusiveSlots
  <2> QED
    BY <2>2 DEF FaithInv, FaithfulWorker, Mine
<1> QED
  BY <1>1, FaithHolds, PTL

-----------------------------------------------------------------------------
(* A lease and the worker behind it                                         *)

\* But for a lease, what the service does starts no row of the table.
LEMMA NoStartMoves == [NoStart]_storeVars => [StoreP!NoStart]_(StoreP!storeVars)
<1> SUFFICES ASSUME NoStart PROVE StoreP!NoStart
  BY DEF storeVars, StoreP!storeVars
<1>1. ASSUME NEW q \in Request, NEW j \in JobId, Store!AdmitJob(q, j) PROVE StoreP!NoStart
  <2>1. StoreP!AdmitJob(q, j)
    BY <1>1
       DEF Store!AdmitJob, StoreP!AdmitJob, Store!Existing, StoreP!Existing, Store!Cardinality,
           StoreP!Cardinality, Store!InState, StoreP!InState, Store!Active, StoreP!Active,
           Store!Unused, StoreP!Unused, Store!NextSequence, StoreP!NextSequence,
           Store!Present, StoreP!Present, Store!JobStatus, StoreP!JobStatus, Store!Terminal,
           StoreP!Terminal, Store!AdmittedRow, StoreP!AdmittedRow, Store!NoRow, StoreP!NoRow,
           Store!NoCode, StoreP!NoCode, Store!NoTime, StoreP!NoTime, Store!NoSnapshot,
           StoreP!NoSnapshot, Store!Marked, StoreP!Marked
  <2> QED
    BY <2>1 DEF StoreP!NoStart
<1>2. ASSUME NEW batch \in SUBSET Request, NEW b \in {q.batch : q \in batch},
             Store!AdmitBatch(batch, b)
      PROVE  StoreP!NoStart
  <2>1. StoreP!AdmitBatch(batch, b)
    BY <1>2
       DEF Store!AdmitBatch, StoreP!AdmitBatch, Store!KeyClash, StoreP!KeyClash,
           Store!ManifestAgrees, StoreP!ManifestAgrees, Store!NewItems, StoreP!NewItems,
           Store!Placement, StoreP!Placement, Store!Existing, StoreP!Existing, Store!Cardinality,
           StoreP!Cardinality, Store!InState, StoreP!InState, Store!Active, StoreP!Active,
           Store!Unused, StoreP!Unused, Store!NextSequence, StoreP!NextSequence,
           Store!Present, StoreP!Present, Store!JobStatus, StoreP!JobStatus, Store!Terminal,
           StoreP!Terminal, Store!AdmittedRow, StoreP!AdmittedRow, Store!NoRow, StoreP!NoRow,
           Store!NoCode, StoreP!NoCode, Store!NoTime, StoreP!NoTime, Store!NoSnapshot,
           StoreP!NoSnapshot
  <2> QED
    BY <2>1 DEF StoreP!NoStart
<1>3. ASSUME NEW j \in JobId, NEW w \in Owner, NEW e \in Store!Time, Store!HeartbeatJob(j, w, e)
      PROVE  StoreP!NoStart
  <2>1. StoreP!HeartbeatJob(j, w, e) /\ e \in StoreP!Time
    BY <1>3 DEF Store!HeartbeatJob, StoreP!HeartbeatJob, Store!CanHeartbeat, StoreP!CanHeartbeat,
                Store!Time, StoreP!Time
  <2> QED
    BY <2>1 DEF StoreP!NoStart
<1>4. ASSUME NEW j \in JobId, NEW batch \in SUBSET Post, Store!AddPosts(j, batch, 0)
      PROVE  StoreP!NoStart
  <2>1. StoreP!AddPosts(j, batch, 0)
    BY <1>4 DEF Store!AddPosts, StoreP!AddPosts, Store!Writable, StoreP!Writable, Store!Posts,
                StoreP!Posts, Store!Positions, StoreP!Positions, Store!Cardinality,
                StoreP!Cardinality
  <2>2. 0 \in 0..0
    OBVIOUS
  <2> QED
    BY <2>1, <2>2 DEF StoreP!NoStart
<1>5. ASSUME NEW j \in JobId, NEW partial \in BOOLEAN, NEW w \in Owner, Store!FinishJob(j, partial, w)
      PROVE  StoreP!NoStart
  <2>1. StoreP!FinishJob(j, partial, w)
    BY <1>5 DEF Store!FinishJob, StoreP!FinishJob, Store!Transition, StoreP!Transition,
                Store!CanTransition, StoreP!CanTransition, Store!TransitionedRow,
                StoreP!TransitionedRow, Store!Outcome, StoreP!Outcome, Store!NoCode, StoreP!NoCode,
                Store!NoSnapshot, StoreP!NoSnapshot, Store!NoTime, StoreP!NoTime, Store!Marked,
                StoreP!Marked
  <2> QED
    BY <2>1 DEF StoreP!NoStart
<1>6. ASSUME NEW j \in JobId, NEW f \in Store!Failure, NEW w \in Owner, Store!FailJob(j, f, w)
      PROVE  StoreP!NoStart
  <2>1. StoreP!FailJob(j, f, w)
    BY <1>6 DEF Store!FailJob, StoreP!FailJob, Store!Transition, StoreP!Transition,
                Store!CanTransition, StoreP!CanTransition, Store!TransitionedRow,
                StoreP!TransitionedRow, Store!Outcome, StoreP!Outcome, Store!NoSnapshot,
                StoreP!NoSnapshot, Store!NoTime, StoreP!NoTime, Store!Marked, StoreP!Marked,
                Store!Active, StoreP!Active
  <2>2. f \in StoreP!Failure
    BY <1>6 DEF Store!Failure, StoreP!Failure, Store!NotResumable, StoreP!NotResumable
  <2> QED
    BY <2>1, <2>2 DEF StoreP!NoStart
<1>7. ASSUME NEW j \in JobId, NEW w \in Owner, Store!WaitJob(j, w) PROVE StoreP!NoStart
  <2>1. StoreP!WaitJob(j, w)
    BY <1>7 DEF Store!WaitJob, StoreP!WaitJob, Store!Transition, StoreP!Transition,
                Store!CanTransition, StoreP!CanTransition, Store!TransitionedRow,
                StoreP!TransitionedRow, Store!Outcome, StoreP!Outcome, Store!NoSnapshot,
                StoreP!NoSnapshot, Store!NoTime, StoreP!NoTime, Store!Marked, StoreP!Marked
  <2> QED
    BY <2>1 DEF StoreP!NoStart
<1>8. ASSUME NEW j \in JobId, Store!RequestCancel(j) \/ Store!RecoverRow(j) PROVE StoreP!NoStart
  <2>1. StoreP!RequestCancel(j) \/ StoreP!RecoverRow(j)
    BY <1>8 DEF Store!RequestCancel, StoreP!RequestCancel, Store!RecoverRow, StoreP!RecoverRow,
                Store!Blocked, StoreP!Blocked, Store!NotRequeued, StoreP!NotRequeued,
                Store!NotResumable, StoreP!NotResumable, Store!Transition, StoreP!Transition,
                Store!CanTransition, StoreP!CanTransition, Store!TransitionedRow,
                StoreP!TransitionedRow, Store!Outcome, StoreP!Outcome, Store!NoSnapshot,
                StoreP!NoSnapshot, Store!NoTime, StoreP!NoTime, Store!Marked, StoreP!Marked,
                Store!Active, StoreP!Active
  <2> QED
    BY <2>1 DEF StoreP!NoStart
<1>9. ASSUME NEW j \in JobId, Store!ResumeJob(j) \/ Store!DeleteJob(j) PROVE StoreP!NoStart
  <2>1. StoreP!ResumeJob(j) \/ StoreP!DeleteJob(j)
    BY <1>9 DEF Store!ResumeJob, StoreP!ResumeJob, Store!CanResume, StoreP!CanResume,
                Store!NotResumable, StoreP!NotResumable, Store!NextSequence, StoreP!NextSequence,
                Store!Present, StoreP!Present, Store!JobStatus, StoreP!JobStatus,
                Store!Active, StoreP!Active, Store!Terminal, StoreP!Terminal, Store!NoCode,
                StoreP!NoCode, Store!NoSnapshot, StoreP!NoSnapshot, Store!NoTime, StoreP!NoTime,
                Store!DeleteJob, StoreP!DeleteJob, Store!Delete, StoreP!Delete, Store!Tombstone,
                StoreP!Tombstone, Store!NoRow, StoreP!NoRow
  <2> QED
    BY <2>1 DEF StoreP!NoStart
<1>10. ASSUME Store!RequeueAbandoned \/ Store!Tick PROVE StoreP!NoStart
  <2>1. StoreP!RequeueAbandoned \/ StoreP!Tick
    BY <1>10 DEF Store!RequeueAbandoned, StoreP!RequeueAbandoned, Store!Abandoned, StoreP!Abandoned,
                 Store!RequeuedRow, StoreP!RequeuedRow, Store!NoTime, StoreP!NoTime,
                 Store!Tick, StoreP!Tick
  <2> QED
    BY <2>1 DEF StoreP!NoStart
<1> QED
  BY <1>1, <1>2, <1>3, <1>4, <1>5, <1>6, <1>7, <1>8, <1>9, <1>10 DEF NoStart

\* What a step does to the process.
LEMMA ProcessShape ==
  ASSUME ProcessInv, [Next]_vars
  PROVE  \/ UNCHANGED <<process, epoch>>
         \/ /\ process \in {"recovering", "requeued", "loading"} /\ process' \notin {"down", "failed"}
            /\ UNCHANGED <<epoch, task>>
         \/ MemoryLost /\ process' \in {"down", "failed"} /\ UNCHANGED epoch
         \/ Restart
<1>1. ASSUME NEW c \in Client, NEW q \in Request, SubmitCall(c, q) PROVE UNCHANGED <<process, epoch>>
  BY <1>1 DEF SubmitCall
<1>2. ASSUME NEW c \in Client, NEW batch \in SUBSET Request, BatchCall(c, batch)
      PROVE  UNCHANGED <<process, epoch>>
  BY <1>2 DEF BatchCall
<1>3. ASSUME NEW j \in JobId, DeleteCall(j) \/ \E c \in Client : CancelCall(c, j) \/ ResumeCall(c, j)
      PROVE  UNCHANGED <<process, epoch>>
  BY <1>3 DEF CancelCall, ResumeCall, DeleteCall
<1>4. ASSUME NEW c \in Client, ClientStep(c) PROVE UNCHANGED <<process, epoch>>
  BY <1>4 DEF ClientStep, SubmitLook, EnqueueCall, EnqueueItem, EnqueueFull, Refuse, CancelForget,
              ResumeRow, ResumeRoute
<1>5. ASSUME NEW t \in Thread, WorkerStep(t) PROVE UNCHANGED <<process, epoch>>
  BY <1>5 DEF WorkerStep, OwnStep, TakeJob, LoopStep, LeaveJob, LeaseStep, Heartbeat, NoticeCancel,
              Returns, FinishStep, CancelledStep, FailedStep, RateLimitedStep, ReadBack, Reports
<1>6. ASSUME NEW t \in Thread, NEW batch \in SUBSET Post, Persist(t, batch)
      PROVE  UNCHANGED <<process, epoch>>
  BY <1>6 DEF Persist
<1>7. CASE Crash \/ ShutdownEnds \/ LoadFull
  BY <1>7 DEF Crash, ShutdownEnds, LoadFull
<1>8. CASE Recover
  BY <1>8 DEF Recover
<1>9. CASE Load \/ LoadItem
  BY <1>9 DEF Load, LoadItem
<1>10. CASE Shutdown \/ Tick \/ UNCHANGED vars
  BY <1>10 DEF Shutdown, Tick, vars
<1> QED
  BY <1>1, <1>2, <1>3, <1>4, <1>5, <1>6, <1>7, <1>8, <1>9, <1>10 DEF Next

OwnedInv == \A j \in JobId : jobs[j].status = "running" => jobs[j].owner \in Owner /\ jobs[j].owner[1] <= epoch

\* A lease of the process has a worker that still collects for its row, a
\* collecting worker finds no lease but its own, and without a process that
\* serves nobody works.
WorkerOf(j, t) == jobs[j].owner = OwnerOf(t) /\ task[t] \in Collecting /\ Mine(t) = j
HeldInv ==
  process \notin {"down", "failed"} =>
    \A j \in JobId : jobs[j].status = "running" /\ jobs[j].owner[1] = epoch => \E t \in Thread : WorkerOf(j, t)
UndisputedInv == \A t \in Thread : task[t] \in Collecting => jobs[Mine(t)].owner \in {OwnerOf(t), NoWorker}
AsleepInv == process # "serving" => \A t \in Thread : task[t] = "none"

OwnersInv == OwnedInv /\ HeldInv /\ UndisputedInv /\ AsleepInv

LEMMA OwnersStart == Init => OwnersInv
BY DEF Init, OwnersInv, OwnedInv, HeldInv, UndisputedInv, AsleepInv, Store!NoRow, Collecting

LEMMA AsleepKept == Typed /\ AsleepInv /\ [Next]_vars => AsleepInv'
<1> SUFFICES ASSUME Typed, AsleepInv, [Next]_vars, process' # "serving", NEW t \in Thread
             PROVE  task'[t] = "none"
  BY DEF AsleepInv
<1>1. ProcessInv /\ ClientInv /\ TaskInv
  BY DEF Typed
<1>2. CASE MemoryLost
  BY <1>2 DEF MemoryLost
<1>3. CASE UNCHANGED task /\ process # "serving"
  BY <1>3 DEF AsleepInv
<1>4. CASE Restart
  BY <1>4 DEF Restart, AsleepInv
<1>5. CASE UNCHANGED process
  <2>1. ASSUME NEW u \in Thread, GoesOn(u) \/ TakeJob(u) \/ LeaveJob(u) PROVE FALSE
    <3>1. task[u] = "none"
      BY <1>5 DEF AsleepInv
    <3> QED
      BY <1>5, <2>1, <3>1 DEF GoesOn, TakeJob, LeaveJob, Running
  <2> QED
    BY <1>1, <1>2, <1>3, <1>5, <2>1, TaskShape
<1> QED
  BY <1>1, <1>2, <1>3, <1>4, <1>5, ProcessShape

\* What a lease does.
LEMMA StartedTable ==
  ASSUME Typed, NEW t \in Thread, Starts(t)
  PROVE  /\ jobs'[Mine(t)].status = "running" /\ jobs'[Mine(t)].owner = OwnerOf(t)
         /\ \A k \in JobId : k # Mine(t) => jobs'[k] = jobs[k]
         /\ task[t] = "taken" /\ task' = [task EXCEPT ![t] = "collecting"]
         /\ Mine(t) \in JobId /\ OwnerOf(t) \in Owner
         /\ UNCHANGED <<process, epoch, held>>
<1>1. /\ task[t] = "taken" /\ task' = [task EXCEPT ![t] = "collecting"]
      /\ Mine(t) \in JobId /\ OwnerOf(t) \in Owner /\ UNCHANGED <<process, epoch, held>>
      /\ jobs' = [jobs EXCEPT ![Mine(t)] = Store!StartedRow(jobs[Mine(t)], OwnerOf(t), now + LeaseTime)]
  BY HeldKept DEF Starts, Store!LeaseJob
<1>2. jobs \in [JobId -> StoreP!Row] /\ jobs[Mine(t)] \in StoreP!Row
  BY <1>1 DEF Typed, StoreP!RowInv, StoreP!TypeOK
<1>3. ASSUME NEW r \in StoreP!Row, NEW w, NEW e
      PROVE  Store!StartedRow(r, w, e).status = "running" /\ Store!StartedRow(r, w, e).owner = w
  BY DEF Store!StartedRow, StoreP!Row
<1> QED
  BY <1>1, <1>2, <1>3

\* A running row ran before under the same owner, or has just been leased.
LEMMA RunningMoves ==
  ASSUME Typed, [Next]_vars, NEW j \in JobId, jobs'[j].status = "running"
  PROVE  \/ jobs[j].status = "running" /\ jobs'[j].owner = jobs[j].owner
         \/ \E t \in Thread : Starts(t) /\ Mine(t) = j
<1>1. [NoStart]_storeVars \/ \E t \in Thread : Starts(t)
  BY StoreShape DEF Typed, StoreP!RowInv
<1>2. CASE [NoStart]_storeVars
  <2>1. [StoreP!NoStart]_(StoreP!storeVars) /\ StoreP!TypeOK
    BY <1>2, NoStartMoves DEF Typed, StoreP!RowInv
  <2> QED
    BY <2>1, StoreP!StillRunning, StoreAssumed
<1>3. ASSUME NEW t \in Thread, Starts(t), Mine(t) # j
      PROVE  jobs[j].status = "running" /\ jobs'[j].owner = jobs[j].owner
  BY <1>3, StartedTable
<1> QED
  BY <1>1, <1>2, <1>3

LEMMA OwnedKept == Typed /\ OwnedInv /\ [Next]_vars => OwnedInv'
<1> SUFFICES ASSUME Typed, OwnedInv, [Next]_vars, NEW j \in JobId, jobs'[j].status = "running"
             PROVE  jobs'[j].owner \in Owner /\ jobs'[j].owner[1] <= epoch'
  BY DEF OwnedInv
<1>1. ProcessInv /\ epoch \in Nat
  BY JobServiceAssumption DEF Typed, ProcessInv
<1>2. epoch' \in Nat /\ epoch <= epoch'
  BY <1>1, ProcessShape DEF Restart
<1>3. CASE jobs[j].status = "running" /\ jobs'[j].owner = jobs[j].owner
  <2>1. jobs[j].owner \in Owner /\ jobs[j].owner[1] <= epoch /\ jobs[j].owner[1] \in Nat
    BY <1>3, JobServiceAssumption DEF OwnedInv, Owner
  <2> QED
    BY <1>1, <1>2, <1>3, <2>1
<1>4. ASSUME NEW t \in Thread, Starts(t), Mine(t) = j
      PROVE  jobs'[j].owner \in Owner /\ jobs'[j].owner[1] <= epoch'
  <2>1. jobs'[j].owner = <<epoch, t>> /\ jobs'[j].owner \in Owner /\ epoch' = epoch
    BY <1>4, StartedTable DEF OwnerOf
  <2> QED
    BY <1>1, <2>1
<1> QED
  BY <1>3, <1>4, RunningMoves

\* A report of the worker that has the lease ends the run of its row.
LEMMA TransitionLeaves ==
  ASSUME Typed, NEW j \in JobId, NEW allowed \in SUBSET StoreP!Active,
         NEW target \in StoreP!Terminal \union {"waiting"}, NEW code \in StoreP!Code,
         NEW retryable \in BOOLEAN, NEW w, Store!Transition(j, allowed, target, code, retryable, w)
  PROVE  jobs'[j].status \notin {"running", "queued"}
<1>1. StoreP!Transition(j, allowed, target, code, retryable, w)
  BY DEF Store!Transition, StoreP!Transition, Store!CanTransition, StoreP!CanTransition,
         Store!TransitionedRow, StoreP!TransitionedRow, Store!Outcome, StoreP!Outcome,
         Store!NoSnapshot, StoreP!NoSnapshot, Store!NoTime, StoreP!NoTime, Store!Marked,
         StoreP!Marked
<1>2. jobs'[j].status \in StoreP!Terminal
  BY <1>1, StoreP!TransitionStops, StoreAssumed DEF Typed, StoreP!RowInv
<1> QED
  BY <1>2 DEF StoreP!Terminal

LEMMA ReportEnds ==
  ASSUME Typed, NEW t \in Thread, ReportStep(t), task[t] \in Collecting,
         jobs[Mine(t)].status = "running", jobs[Mine(t)].owner = OwnerOf(t)
  PROVE  jobs'[Mine(t)].status # "running"
<1>1. Mine(t) \in JobId
  BY HeldItem DEF Typed, Collecting
<1>2. \A allowed : "running" \in allowed => Store!CanTransition(Mine(t), allowed, OwnerOf(t))
  BY DEF Store!CanTransition
<1>3. /\ {"running"} \in SUBSET StoreP!Active /\ "running" \in Store!Active
      /\ Store!Active \in SUBSET StoreP!Active
  BY DEF StoreP!Active, Store!Active
<1>4. CASE FinishStep(t)
  <2>1. PICK partial \in BOOLEAN : Store!FinishJob(Mine(t), partial, OwnerOf(t))
    BY <1>2, <1>4 DEF FinishStep, Reports
  <2>2. /\ (IF partial THEN "partial" ELSE "succeeded") \in StoreP!Terminal
        /\ Store!NoCode \in StoreP!Code
    BY DEF StoreP!Terminal, Store!NoCode, StoreP!Code, StoreP!NoCode
  <2> QED
    BY <1>1, <1>3, <2>1, <2>2, TransitionLeaves DEF Store!FinishJob
<1>5. CASE RateLimitedStep(t)
  <2>1. Store!WaitJob(Mine(t), OwnerOf(t))
    BY <1>2, <1>5 DEF RateLimitedStep, Reports
  <2>2. "rate_limited" \in StoreP!Code
    BY DEF StoreP!Code, StoreP!NotRequeued, StoreP!NotResumable
  <2> QED
    BY <1>1, <1>3, <2>1, <2>2, TransitionLeaves DEF Store!WaitJob
<1>6. ASSUME NEW f \in Store!Failure, Store!FailJob(Mine(t), f, OwnerOf(t))
      PROVE  jobs'[Mine(t)].status # "running"
  <2>0. f \in StoreP!Failure
    BY DEF Store!Failure, StoreP!Failure, Store!NotResumable, StoreP!NotResumable
  <2>1. f.status \in StoreP!Terminal
    BY <2>0, StoreP!FailureEnds, StoreAssumed
  <2>2. f.code \in StoreP!Code /\ f.retryable \in BOOLEAN
    BY <2>0, StoreP!FailureType, StoreAssumed
  <2> QED
    BY <1>1, <1>3, <1>6, <2>1, <2>2, TransitionLeaves DEF Store!FailJob
<1>7. CASE CancelledStep(t)
  <2>1. Interruption \in Store!Failure /\ Cancellation \in Store!Failure
    BY DEF Interruption, Cancellation, Store!Failure
  <2>2. \E f \in Store!Failure : Store!FailJob(Mine(t), f, OwnerOf(t))
    BY <1>2, <1>3, <1>7, <2>1 DEF CancelledStep, Reports
  <2> QED
    BY <1>6, <2>2
<1>8. CASE FailedStep(t)
  <2> DEFINE status == IF jobs[Mine(t)].collected > 0 THEN "partial" ELSE "failed"
  <2>1. /\ Interruption \in Store!Failure
        /\ [status |-> status, code |-> "provider_error", retryable |-> TRUE] \in Store!Failure
    BY DEF Interruption, Store!Failure
  <2>2. \E f \in Store!Failure : Store!FailJob(Mine(t), f, OwnerOf(t))
    BY <1>2, <1>3, <1>8, <2>1 DEF FailedStep, Reports
  <2> QED
    BY <1>6, <2>2
<1> QED
  BY <1>4, <1>5, <1>7, <1>8 DEF ReportStep

LEMMA HeldStays == Typed /\ OwnersInv /\ [Next]_vars => HeldInv'
<1> SUFFICES ASSUME Typed, OwnersInv, [Next]_vars, process' \notin {"down", "failed"}, NEW j \in JobId,
                    jobs'[j].status = "running", jobs'[j].owner[1] = epoch'
             PROVE  \E t \in Thread : WorkerOf(j, t)'
  BY DEF HeldInv
<1>1. ProcessInv /\ epoch \in Nat
  BY JobServiceAssumption DEF Typed, ProcessInv
<1>2. ASSUME Restart PROVE FALSE
  <2>1. jobs' = jobs /\ epoch' = epoch + 1
    BY <1>2 DEF Restart, storeVars
  <2>2. jobs[j].owner[1] <= epoch
    BY <2>1 DEF OwnersInv, OwnedInv
  <2> QED
    BY <1>1, <2>1, <2>2
<1>3. epoch' = epoch /\ process \notin {"down", "failed"}
  BY <1>1, <1>2, ProcessShape
<1>4. ASSUME NEW t \in Thread, Starts(t), Mine(t) = j PROVE WorkerOf(j, t)'
  <2>1. task'[t] \in Collecting
    BY <1>4, StartedTable DEF Typed, TaskInv, Collecting
  <2> QED
    BY <1>3, <1>4, <2>1, StartedTable DEF WorkerOf, OwnerOf, Mine
<1>5. CASE jobs[j].status = "running" /\ jobs'[j].owner = jobs[j].owner
  <2>1. PICK t \in Thread : WorkerOf(j, t)
    BY <1>3, <1>5 DEF OwnersInv, HeldInv
  <2>2. ~Starts(t)
    BY <2>1 DEF WorkerOf, Starts, Collecting
  <2>3. ~ReportStep(t)
    BY <1>5, <2>1, ReportEnds DEF WorkerOf
  <2>4. task'[t] \in Collecting /\ held'[t] = held[t]
    BY <2>1, <2>2, <2>3, CollectingMoves DEF WorkerOf
  <2> QED
    BY <1>3, <1>5, <2>1, <2>4 DEF WorkerOf, OwnerOf, Mine
<1> QED
  BY <1>4, <1>5, RunningMoves

LEMMA UndisputedKept == Typed /\ OwnersInv /\ [Next]_vars => UndisputedInv'
<1> SUFFICES ASSUME Typed, OwnersInv, [Next]_vars, NEW t \in Thread, task'[t] \in Collecting
             PROVE  jobs'[held'[t].job].owner \in {<<epoch', t>>, NoWorker}
  BY DEF UndisputedInv, Mine, OwnerOf
<1>1. CASE Starts(t)
  BY <1>1, StartedTable DEF Mine, OwnerOf
<1>2. CASE task[t] \in Collecting /\ held'[t] = held[t]
  <2>1. Mine(t) \in JobId /\ held[t] # NoItem /\ jobs[Mine(t)].owner \in {OwnerOf(t), NoWorker}
    BY <1>2, HeldItem DEF Typed, TaskInv, OwnersInv, UndisputedInv, Collecting
  <2>2. epoch' = epoch
    <3>1. process = "serving"
      BY <1>2 DEF OwnersInv, AsleepInv, Collecting
    <3> QED
      BY <3>1, ProcessShape DEF Typed, Restart
  <2>3. CASE jobs'[Mine(t)].status # "running"
    BY <1>2, <2>1, <2>3, TableKept DEF Mine, StoreP!RowInv, StoreP!LeaseInv
  <2>4. CASE jobs[Mine(t)].status = "running" /\ jobs'[Mine(t)].owner = jobs[Mine(t)].owner
    BY <1>2, <2>1, <2>2, <2>4 DEF Mine, OwnerOf
  <2>5. ASSUME NEW u \in Thread, Starts(u), Mine(u) = Mine(t) PROVE FALSE
    <3>1. u # t
      BY <1>2, <2>5 DEF Starts, Collecting
    <3>2. held[u] # NoItem
      BY <2>5 DEF Starts, Typed, TaskInv
    <3> QED
      BY <2>1, <2>5, <3>1, <3>2 DEF Typed, SchedP!IInv, SchedP!ExclusiveSlots, Mine
  <2> QED
    BY <2>1, <2>3, <2>4, <2>5, RunningMoves
<1> QED
  BY <1>1, <1>2, CollectingMoves

LEMMA OwnersKept == Typed /\ OwnersInv /\ [Next]_vars => OwnersInv'
BY OwnedKept, HeldStays, UndisputedKept, AsleepKept DEF OwnersInv

LEMMA OwnersHold == Spec => [](Typed /\ OwnersInv)
<1>1. Typed /\ OwnersInv /\ [Next]_vars => (Typed /\ OwnersInv)'
  BY TypesKept, OwnersKept
<1> QED
  BY <1>1, TypesStart, OwnersStart, PTL DEF Spec

\* Every lease of the running process has its worker, and a row that was
\* cancelled and resumed is not leased to a second worker while the first one
\* still collects for it.
THEOREM LeasesHaveWorkers == Spec => []EveryLeaseHasItsWorker
<1>1. Typed /\ OwnersInv => EveryLeaseHasItsWorker
  <2> SUFFICES ASSUME Typed, OwnersInv, process = "serving" PROVE EveryLeaseHasItsWorker
    BY DEF EveryLeaseHasItsWorker
  <2>1. ASSUME NEW j \in JobId, jobs[j].status = "running", jobs[j].owner[1] = epoch
        PROVE  \E t \in Thread : /\ jobs[j].owner = OwnerOf(t) /\ held[t] # NoItem /\ Mine(t) = j
                                 /\ task[t] \in Collecting
    <3>1. PICK t \in Thread : WorkerOf(j, t)
      BY <2>1 DEF OwnersInv, HeldInv
    <3> QED
      BY <3>1 DEF WorkerOf, Typed, TaskInv, Collecting
  <2>2. \A t \in Thread : task[t] \in Collecting => jobs[Mine(t)].owner \in {OwnerOf(t), NoWorker}
    BY DEF OwnersInv, UndisputedInv
  <2> QED
    BY <2>1, <2>2 DEF EveryLeaseHasItsWorker
<1> QED
  BY <1>1, OwnersHold, PTL

\* A shutdown that has joined its workers leaves no row running under a lease
\* of this process: each worker has reported before it left.
THEOREM ShutdownTruthful == Spec => ShutdownInterruptsTruthfully
<1>1. Typed /\ OwnersInv =>
        [ShutdownEnds => \A j \in Store!InState({"running"}) : jobs[j].owner[1] # epoch]_vars
  <2> SUFFICES ASSUME Typed, OwnersInv, ShutdownEnds, NEW j \in JobId, jobs[j].status = "running",
                      jobs[j].owner[1] = epoch
               PROVE  FALSE
    BY DEF Store!InState
  <2>1. process = "serving" /\ \A t \in Thread : phase[t] = "exited"
    BY DEF ShutdownEnds
  <2>2. PICK t \in Thread : WorkerOf(j, t)
    BY <2>1 DEF OwnersInv, HeldInv
  <2>3. held[t] # NoItem
    BY <2>2 DEF WorkerOf, Typed, TaskInv, Collecting
  <2> QED
    BY <2>1, <2>3 DEF Typed, SchedP!IInv, SchedP!ExclusiveSlots
<1> QED
  BY <1>1, OwnersHold, PTL DEF ShutdownInterruptsTruthfully

-----------------------------------------------------------------------------
(* What waits in memory is queued in the table, if nothing is resumed: a    *)
(* resumption queues in memory what may be cancelled again by then          *)

\* The steps of a call between its admission and the end of its enqueueing.
Admitting == {"existing", "admitted", "batched", "enqueuing", "enqueuing batch"}

WaitsQueued(j) ==
  \/ jobs[j].status = "queued"
  \/ \E c \in Client : client[c].step = "cancelled" /\ client[c].job = j

\* A call that has admitted rows keeps the storage lock until they are enqueued.
PendingClient(c) ==
  /\ client[c].step \notin {"resuming", "resumed", "routed"}
  /\ client[c].step \in Admitting => guard = c
  /\ client[c].step = "existing" =>
       \A n \in DOMAIN client[c].items : client[c].items[n].job = client[c].job
  /\ client[c].step \in {"admitted", "batched"} =>
       \A n \in DOMAIN client[c].items : jobs[client[c].items[n].job].status = "queued"

\* The lock is taken while items are on their way, and free without a process.
LockInv ==
  /\ inbox # <<>> => \/ process = "loading"
                     \/ process = "serving" /\ guard # NoClient
  /\ process # "serving" => guard = NoClient /\ \A c \in Client : client[c].step = "idle"
  /\ process \notin {"serving", "loading"} => known = {}

PendingInv ==
  /\ LockInv /\ \A c \in Client : PendingClient(c)
  /\ \A n \in DOMAIN inbox : jobs[inbox[n].job].status = "queued"
  /\ \A i \in known : WaitsQueued(i.job)

LEMMA PendingStart == Init => PendingInv
<1> SUFFICES ASSUME Init PROVE PendingInv
  OBVIOUS
<1>1. inbox = <<>> /\ known = {} /\ process = "serving"
  BY DEF Init, Sched!Init
<1>2. \A c \in Client : client[c] = Idle
  BY DEF Init
<1>3. \A c \in Client : client[c].step = "idle"
  BY <1>2 DEF Idle
<1>4. DOMAIN inbox = {}
  BY <1>1
<1> QED
  BY <1>1, <1>3, <1>4 DEF PendingInv, LockInv, PendingClient, Admitting

\* A transition touches one row.
LEMMA TransitionOne ==
  ASSUME NEW k \in JobId, NEW allowed, NEW target, NEW code, NEW retryable, NEW w,
         Store!Transition(k, allowed, target, code, retryable, w), NEW j \in JobId, j # k, Typed
  PROVE  jobs'[j] = jobs[j]
BY DEF Store!Transition, Typed, StoreP!RowInv, StoreP!TypeOK

\* A report touches a row that runs.
LEMMA ReportOne ==
  ASSUME Typed, NEW t \in Thread, ReportStep(t), NEW j \in JobId, jobs[j].status = "queued"
  PROVE  jobs'[j] = jobs[j]
<1>1. Mine(t) \in JobId /\ OwnerOf(t) \in Owner
  BY HeldItem DEF Typed, ReportStep, FinishStep, CancelledStep, FailedStep, RateLimitedStep
<1>2. ASSUME NEW allowed, NEW target, NEW code, NEW retryable,
             Store!Transition(Mine(t), allowed, target, code, retryable, OwnerOf(t))
      PROVE  jobs'[j] = jobs[j]
  <2>1. jobs[Mine(t)].owner = OwnerOf(t) /\ OwnerOf(t) # NoWorker
    BY <1>1, <1>2, JobServiceAssumption DEF Store!Transition, Store!CanTransition
  <2>2. jobs[Mine(t)].status = "running"
    BY <1>1, <2>1 DEF Typed, StoreP!RowInv, StoreP!LeaseInv
  <2> QED
    BY <1>1, <1>2, <2>2, TransitionOne
<1>3. ASSUME UNCHANGED storeVars PROVE jobs'[j] = jobs[j]
  BY <1>3 DEF storeVars
<1>4. CASE FinishStep(t)
  <2>1. UNCHANGED storeVars \/ \E partial \in BOOLEAN : Store!FinishJob(Mine(t), partial, OwnerOf(t))
    BY <1>4 DEF FinishStep, Reports
  <2> QED
    BY <1>2, <1>3, <2>1 DEF Store!FinishJob
<1>5. CASE RateLimitedStep(t)
  <2>1. UNCHANGED storeVars \/ Store!WaitJob(Mine(t), OwnerOf(t))
    BY <1>5 DEF RateLimitedStep, Reports
  <2> QED
    BY <1>2, <1>3, <2>1 DEF Store!WaitJob
<1>6. CASE CancelledStep(t) \/ FailedStep(t)
  <2>1. UNCHANGED storeVars \/ \E f : Store!FailJob(Mine(t), f, OwnerOf(t))
    BY <1>6 DEF CancelledStep, FailedStep, Reports
  <2> QED
    BY <1>2, <1>3, <2>1 DEF Store!FailJob
<1> QED
  BY <1>4, <1>5, <1>6 DEF ReportStep

\* A row leaves the queue by a cancellation, a lease or the recovery.
LEMMA QueuedMoves ==
  ASSUME Typed, PendingInv, [Next]_vars, NEW j \in JobId, jobs[j].status = "queued"
  PROVE  \/ jobs'[j].status = "queued" \/ Recover
         \/ \E c \in Client : CancelCall(c, j)
         \/ \E t \in Thread : LeaseStep(t) /\ Starts(t) /\ Mine(t) = j
<1>0. jobs \in [JobId -> StoreP!Row]
  BY DEF Typed, StoreP!RowInv, StoreP!TypeOK
<1>1. ASSUME NEW c \in Client, NEW q \in Request, SubmitCall(c, q) PROVE jobs'[j] = jobs[j]
  BY <1>0, <1>1 DEF SubmitCall, FreshId, Store!AdmitJob, storeVars
<1>2. ASSUME NEW c \in Client, NEW batch \in SUBSET Request, BatchCall(c, batch)
      PROVE  jobs'[j] = jobs[j]
  <2>1. ASSUME NEW b, Store!AdmitBatch(batch, b) PROVE jobs'[j] = jobs[j]
    <3> DEFINE new == Store!NewItems(batch)
    <3>1. PICK n \in 1..MaxSequence : \E f \in Store!Placement(new, n) :
             jobs' = [k \in JobId |->
                        IF \E q \in new : f[q].id = k
                          THEN LET q == CHOOSE r \in new : f[r].id = k
                               IN  Store!AdmittedRow(q, batch, f[q].seq)
                          ELSE jobs[k]]
      BY <2>1 DEF Store!AdmitBatch
    <3>2. \A f \in Store!Placement(new, n) : ~\E q \in new : f[q].id = j
      BY DEF Store!Placement, Store!Unused
    <3> QED
      BY <3>1, <3>2
  <2> QED
    BY <1>2, <2>1 DEF BatchCall, storeVars
<1>3. ASSUME NEW c \in Client, NEW k \in JobId, CancelCall(c, k) \/ ResumeCall(c, k)
      PROVE  jobs'[j] = jobs[j] \/ CancelCall(c, j)
  BY <1>3, TransitionOne DEF CancelCall, ResumeCall, Store!RequestCancel, storeVars
<1>4. ASSUME NEW k \in JobId, DeleteCall(k) PROVE jobs'[j] = jobs[j]
  BY <1>0, <1>4 DEF DeleteCall, Store!DeleteJob, Store!Delete, Store!Terminal
<1>5. ASSUME NEW c \in Client, ClientStep(c) PROVE jobs'[j] = jobs[j]
  <2>1. ~ResumeRow(c)
    BY DEF ResumeRow, PendingInv, PendingClient
  <2> QED
    BY <1>5, <2>1 DEF ClientStep, SubmitLook, EnqueueCall, EnqueueItem, EnqueueFull, Refuse,
                      CancelForget, ResumeRoute, storeVars
<1>6. ASSUME NEW t \in Thread, WorkerStep(t)
      PROVE  jobs'[j].status = "queued" \/ (LeaseStep(t) /\ Starts(t) /\ Mine(t) = j)
  <2>1. CASE LeaseStep(t)
    <3>1. Starts(t) \/ UNCHANGED storeVars
      BY <2>1, LeaseShape DEF Typed, StoreP!RowInv
    <3> QED
      BY <2>1, <3>1, StartedTable DEF storeVars
  <2>2. CASE Heartbeat(t)
    BY <1>0, <2>2 DEF Heartbeat, Store!HeartbeatJob, Store!CanHeartbeat, storeVars
  <2>3. CASE ReportStep(t)
    BY <2>3, ReportOne
  <2>4. CASE \/ TakeJob(t) \/ LoopStep(t) \/ NoticeCancel(t) \/ Returns(t) \/ ReadBack(t)
             \/ LeaveJob(t)
    BY <2>4 DEF TakeJob, LoopStep, NoticeCancel, Returns, ReadBack, LeaveJob, storeVars
  <2> QED
    BY <1>6, <2>1, <2>2, <2>3, <2>4 DEF WorkerStep, OwnStep, ReportStep
<1>7. ASSUME NEW t \in Thread, NEW batch \in SUBSET Post, Persist(t, batch) PROVE jobs'[j] = jobs[j]
  BY <1>0, <1>7 DEF Persist, Store!AddPosts, Store!Writable
<1>8. CASE \/ Crash \/ Shutdown \/ ShutdownEnds \/ Restart \/ Load \/ LoadItem \/ LoadFull
           \/ Tick \/ UNCHANGED vars
  BY <1>8 DEF Crash, Shutdown, ShutdownEnds, Restart, Load, LoadItem, LoadFull, Tick, Store!Tick,
              vars, storeVars
<1> QED
  BY <1>1, <1>2, <1>3, <1>4, <1>5, <1>6, <1>7, <1>8 DEF Next

\* While a call keeps the storage lock or the start-up loads the queue, no row
\* leaves the queue.
LEMMA GuardedStays ==
  ASSUME Typed, OwnersInv, PendingInv, [Next]_vars, guard # NoClient \/ process = "loading",
         NEW j \in JobId, jobs[j].status = "queued"
  PROVE  jobs'[j].status = "queued"
<1>1. ~Recover
  BY DEF Recover, PendingInv, LockInv
<1>2. \A c \in Client : ~CancelCall(c, j)
  BY DEF CancelCall, Begins, StorageFree
<1>3. \A t \in Thread : ~LeaseStep(t)
  BY DEF LeaseStep, StorageFree, OwnersInv, AsleepInv
<1> QED
  BY <1>1, <1>2, <1>3, QueuedMoves

\* Without resumptions a client stands at a step of the other calls.
LEMMA NoResumption ==
  ASSUME "resume" \notin Calls, PendingInv, NEW c \in Client
  PROVE  /\ \A j : ~ResumeCall(c, j)
         /\ ~ResumeRow(c) /\ ~ResumeRoute(c)
         /\ EnqueueCall(c) \/ EnqueueItem(c) \/ EnqueueFull(c) \/ SubmitLook(c) => guard = c
BY DEF ResumeCall, Begins, ResumeRow, ResumeRoute, EnqueueCall, EnqueueItem, EnqueueFull, SubmitLook,
       PendingInv, PendingClient, Admitting

\* What happens to the lists and the lock when a step does not lose the memory.
LEMMA MemoryMoves ==
  ASSUME ClientInv,
         \/ \E t \in Thread : WorkerStep(t) \/ \E batch \in SUBSET Post : Persist(t, batch)
         \/ Shutdown
  PROVE  /\ UNCHANGED <<inbox, guard, client, process>> /\ known' \subseteq known
         /\ known' = known \/ process = "serving"
<1>1. ASSUME NEW t \in Thread, TakeJob(t)
      PROVE  /\ UNCHANGED <<inbox, guard, client, process>> /\ known' \subseteq known
             /\ process = "serving"
  <2>1. SchedP!Dispatch(t)
    BY <1>1, SameDispatch DEF TakeJob
  <2>2. inbox' = inbox /\ known' \subseteq known
    BY <2>1 DEF SchedP!Dispatch
  <2> QED
    BY <1>1, <2>2 DEF TakeJob, Running
<1>2. ASSUME NEW t \in Thread, LoopStep(t) \/ LeaveJob(t)
      PROVE  UNCHANGED <<inbox, guard, client, process, known>>
  BY <1>2 DEF LoopStep, LeaveJob, Sched!Sleep, Sched!Doze, Sched!DozeOver, Sched!Exit, Sched!Done,
              Sched!queueVars
<1>3. ASSUME NEW t \in Thread,
             \/ LeaseStep(t) \/ Heartbeat(t) \/ NoticeCancel(t) \/ Returns(t) \/ FinishStep(t)
             \/ CancelledStep(t) \/ FailedStep(t) \/ RateLimitedStep(t) \/ ReadBack(t)
      PROVE  UNCHANGED <<inbox, guard, client, process, known>>
  BY <1>3 DEF LeaseStep, Heartbeat, NoticeCancel, Returns, FinishStep, CancelledStep, FailedStep,
              RateLimitedStep, ReadBack, Reports, schedVars
<1>4. ASSUME NEW t \in Thread, NEW batch \in SUBSET Post, Persist(t, batch)
      PROVE  UNCHANGED <<inbox, guard, client, process, known>>
  BY <1>4 DEF Persist, schedVars
<1>5. CASE Shutdown
  BY <1>5 DEF Shutdown, Sched!SetStop, Sched!TellStop, Sched!queueVars
<1> QED
  BY <1>1, <1>2, <1>3, <1>4, <1>5 DEF WorkerStep, OwnStep

\* A start-up that has nothing to queue does not keep the condition.
LEMMA NothingListed == ASSUME Typed, Queued = {} PROVE QueuedList = <<>>
<1>1. \A j \in JobId : jobs[j].status = "queued" => jobs[j].req \in Request
  BY DEF Typed, ReqInv
<1>2. QueuedList \in Seq(Item) /\ DOMAIN QueuedList = {}
  BY <1>1, QueueListed DEF Typed, StoreP!RowInv
<1> QED
  BY <1>2

LEMMA LockKept ==
  ASSUME "resume" \notin Calls, Typed, PendingInv, [Next]_vars
  PROVE  LockInv'
<1>0. LockInv /\ ClientInv
  BY DEF PendingInv, Typed
<1>1. ASSUME NEW c \in Client, NEW q \in Request, SubmitCall(c, q) PROVE LockInv'
  <2>1. process = "serving" /\ process' = process /\ guard' # NoClient
    BY <1>1, JobServiceAssumption DEF SubmitCall, Begins
  <2> QED
    BY <2>1 DEF LockInv
<1>2. ASSUME NEW c \in Client, NEW batch \in SUBSET Request, BatchCall(c, batch) PROVE LockInv'
  <2>1. process = "serving" /\ process' = process /\ guard' # NoClient
    BY <1>2, JobServiceAssumption DEF BatchCall, Begins
  <2> QED
    BY <2>1 DEF LockInv
<1>3. ASSUME NEW c \in Client, NEW j \in JobId, CancelCall(c, j) \/ ResumeCall(c, j) PROVE LockInv'
  <2>1. process = "serving" /\ process' = process /\ guard' = guard /\ inbox' = inbox
    BY <1>3 DEF CancelCall, ResumeCall, Begins, schedVars
  <2> QED
    BY <1>0, <2>1 DEF LockInv
<1>4. ASSUME NEW c \in Client, ClientStep(c) PROVE LockInv'
  <2>1. client[c].step # "idle"
    BY <1>4 DEF ClientStep, SubmitLook, EnqueueCall, EnqueueItem, EnqueueFull, Refuse, CancelForget,
                ResumeRow, ResumeRoute
  <2>2. process = "serving" /\ process' = process
    BY <1>0, <1>4, <2>1 DEF LockInv, ClientStep, SubmitLook, EnqueueCall, EnqueueItem, EnqueueFull,
                            Refuse, CancelForget, ResumeRow, ResumeRoute
  <2>3. inbox' # <<>> => guard' # NoClient
    <3>1. CASE SubmitLook(c) \/ CancelForget(c)
      BY <3>1 DEF SubmitLook, CancelForget, Sched!LockFree, Sched!Withdraw
    <3>2. CASE EnqueueCall(c) \/ EnqueueItem(c)
      <4>1. guard = c
        BY <3>2, NoResumption
      <4>2. inbox' # <<>> => guard' = guard
        BY <3>2 DEF EnqueueCall, EnqueueItem
      <4> QED
        BY <4>1, <4>2, JobServiceAssumption
    <3>3. CASE EnqueueFull(c)
      BY <3>3 DEF EnqueueFull, Sched!Overflow
    <3>4. CASE Refuse(c)
      BY <1>0, <2>2, <3>4 DEF Refuse, schedVars, LockInv
    <3> QED
      BY <1>4, <3>1, <3>2, <3>3, <3>4, NoResumption DEF ClientStep
  <2> QED
    BY <2>2, <2>3 DEF LockInv
<1>5. CASE \/ \E t \in Thread : WorkerStep(t) \/ \E batch \in SUBSET Post : Persist(t, batch)
           \/ Shutdown
  <2>1. /\ UNCHANGED <<inbox, guard, client, process>> /\ known' \subseteq known
        /\ known' = known \/ process = "serving"
    BY <1>0, <1>5, MemoryMoves
  <2> QED
    BY <1>0, <2>1 DEF LockInv
<1>6. CASE Crash \/ ShutdownEnds \/ LoadFull
  <2>1. inbox' = <<>> /\ known' = {} /\ guard' = NoClient /\ \A c \in Client : client'[c].step = "idle"
    BY <1>6 DEF Crash, ShutdownEnds, LoadFull, MemoryLost, Idle
  <2> QED
    BY <2>1 DEF LockInv
<1>7. CASE Restart \/ Recover
  <2>1. UNCHANGED <<inbox, known, guard, client>> /\ process \notin {"serving", "loading"}
        /\ process' # "serving"
    BY <1>7 DEF Restart, Recover, schedVars
  <2> QED
    BY <1>0, <2>1 DEF LockInv
<1>8. CASE Load
  <2>1. /\ inbox' = QueuedList /\ UNCHANGED <<known, guard, client>> /\ process = "requeued"
        /\ process' = IF Queued = {} THEN "serving" ELSE "loading"
    BY <1>8 DEF Load
  <2> QED
    BY <1>0, <2>1, NothingListed DEF LockInv
<1>9. CASE LoadItem
  <2>1. /\ UNCHANGED <<guard, client>> /\ process = "loading"
        /\ process' = IF inbox' = <<>> THEN "serving" ELSE process
    BY <1>9 DEF LoadItem
  <2> QED
    BY <1>0, <2>1 DEF LockInv
<1>10. CASE Tick \/ UNCHANGED vars \/ \E j \in JobId : DeleteCall(j)
  BY <1>0, <1>10 DEF LockInv, Tick, DeleteCall, vars, schedVars
<1> QED
  BY <1>1, <1>2, <1>3, <1>4, <1>5, <1>6, <1>7, <1>8, <1>9, <1>10 DEF Next

\* The lock is taken by a submission, and given back by the client that has it
\* when its items are in the queue or have been refused.
LEMMA GuardMoves ==
  ASSUME "resume" \notin Calls, Typed, PendingInv, [Next]_vars
  PROVE  \/ guard' = guard \/ guard = NoClient \/ MemoryLost
         \/ guard \in Client /\ client'[guard].step \notin Admitting
<1>0. client \in [Client -> ClientRecord]
  BY DEF Typed, ClientInv
<1>1. ASSUME NEW c \in Client,
             \/ \E q \in Request : SubmitCall(c, q)
             \/ \E batch \in SUBSET Request : BatchCall(c, batch)
      PROVE  guard = NoClient
  BY <1>1 DEF SubmitCall, BatchCall, StorageFree
<1>2. ASSUME NEW c \in Client, NEW j \in JobId, CancelCall(c, j) \/ ResumeCall(c, j)
      PROVE  guard' = guard
  BY <1>2 DEF CancelCall, ResumeCall
<1>3. ASSUME NEW c \in Client, ClientStep(c)
      PROVE  guard' = guard \/ (guard \in Client /\ client'[guard].step \notin Admitting)
  <2>1. CASE SubmitLook(c) \/ EnqueueItem(c)
    <3>1. guard = c
      BY <2>1, NoResumption
    <3>2. guard' = guard \/ client' = [client EXCEPT ![c] = Idle]
      BY <2>1 DEF SubmitLook, EnqueueItem
    <3>3. client' = [client EXCEPT ![c] = Idle] => client'[c] = Idle
      BY <1>0
    <3>4. Idle.step \notin Admitting
      BY DEF Idle, Admitting
    <3> QED
      BY <3>1, <3>2, <3>3, <3>4
  <2>2. CASE EnqueueFull(c)
    <3>1. guard = c
      BY <2>2, NoResumption
    <3>2. client' = [client EXCEPT ![c] =
                       [client[c] EXCEPT !.step = IF client[c].step = "enqueuing" THEN "refused"
                                                  ELSE "batch refused"]]
      BY <2>2 DEF EnqueueFull, Goes
    <3>3. client'[c].step \in {"refused", "batch refused"}
      BY <1>0, <3>2 DEF ClientRecord
    <3> QED
      BY <3>1, <3>3 DEF Admitting
  <2>3. CASE EnqueueCall(c) \/ Refuse(c) \/ CancelForget(c) \/ ResumeRow(c) \/ ResumeRoute(c)
    BY <2>3 DEF EnqueueCall, Refuse, CancelForget, ResumeRow, ResumeRoute
  <2> QED
    BY <1>3, <2>1, <2>2, <2>3 DEF ClientStep
<1>4. ASSUME \/ \E t \in Thread : WorkerStep(t) \/ \E batch \in SUBSET Post : Persist(t, batch)
             \/ Shutdown
      PROVE  guard' = guard
  BY <1>4, MemoryMoves DEF Typed
<1>5. ASSUME Crash \/ ShutdownEnds \/ LoadFull PROVE MemoryLost
  BY <1>5 DEF Crash, ShutdownEnds, LoadFull
<1>6. ASSUME \/ Restart \/ Recover \/ Load \/ LoadItem \/ Tick \/ UNCHANGED vars
             \/ \E j \in JobId : DeleteCall(j)
      PROVE  guard' = guard
  BY <1>6 DEF Restart, Recover, Load, LoadItem, Tick, DeleteCall, vars
<1> QED
  BY <1>1, <1>2, <1>3, <1>4, <1>5, <1>6 DEF Next

\* What a client takes to the condition is queued: it keeps the lock from the
\* transaction that admitted or found its rows.
LEMMA ClientPends ==
  ASSUME "resume" \notin Calls, Typed, OwnersInv, PendingInv, [Next]_vars, NEW d \in Client
  PROVE  PendingClient(d)'
<1>0. /\ client \in [Client -> ClientRecord] /\ ClientInv /\ client[d].items \in Seq(Item)
      /\ PendingClient(d) /\ d # NoClient
  BY JobServiceAssumption DEF Typed, ClientInv, ClientRecord, PendingInv
<1>1. ASSUME client'[d].step \notin Admitting \union {"resuming", "resumed", "routed"}
      PROVE  PendingClient(d)'
  BY <1>1 DEF PendingClient, Admitting
<1>2. ASSUME client'[d] = Idle PROVE PendingClient(d)'
  BY <1>1, <1>2 DEF Idle, Admitting
<1>3. ASSUME client'[d].step \in {"admitted", "batched"}, guard' = d,
             \A n \in DOMAIN client'[d].items : jobs'[client'[d].items[n].job].status = "queued"
      PROVE  PendingClient(d)'
  BY <1>3 DEF PendingClient, Admitting
<1>4. CASE client'[d] = client[d]
  <2>1. CASE client[d].step \in Admitting
    <3>1. guard = d
      BY <1>0, <2>1 DEF PendingClient
    <3>2. CASE MemoryLost
      BY <1>2, <3>2 DEF MemoryLost
    <3>3. CASE guard' = guard
      <4>1. ASSUME NEW n \in DOMAIN client[d].items, client[d].step \in {"admitted", "batched"}
            PROVE  jobs'[client[d].items[n].job].status = "queued"
        <5>1. client[d].items[n].job \in JobId
          BY <1>0, <4>1, ElementOfSeq, ItemParts
        <5>2. jobs[client[d].items[n].job].status = "queued"
          BY <1>0, <4>1 DEF PendingClient
        <5> QED
          BY <1>0, <3>1, <5>1, <5>2, GuardedStays
      <4> QED
        BY <1>0, <1>4, <3>1, <3>3, <4>1 DEF PendingClient
    <3> QED
      BY <1>0, <1>4, <2>1, <3>1, <3>2, <3>3, GuardMoves
  <2>2. CASE client[d].step \notin Admitting
    BY <1>0, <1>1, <1>4, <2>2 DEF PendingClient
  <2> QED
    BY <2>1, <2>2
<1>5. CASE MemoryLost
  BY <1>2, <1>5 DEF MemoryLost
<1>6. ASSUME NEW q \in Request, SubmitCall(d, q) PROVE PendingClient(d)'
  <2>1. ASSUME NEW j \in JobId, FreshId(j), Store!AdmitJob(q, j),
               client' = [client EXCEPT ![d] =
                            [step |-> "admitted", job |-> j, items |-> <<ItemOf(j, q)>>]]
        PROVE  PendingClient(d)'
    <3>1. client'[d].step = "admitted" /\ client'[d].items = <<ItemOf(j, q)>>
      BY <1>0, <2>1
    <3>2. jobs \in [JobId -> StoreP!Row]
      BY DEF Typed, StoreP!RowInv, StoreP!TypeOK
    <3>3. PICK n \in 1..MaxSequence : jobs' = [jobs EXCEPT ![j] = Store!AdmittedRow(q, {}, n)]
      BY <2>1 DEF Store!AdmitJob
    <3>4. Store!AdmittedRow(q, {}, n).status = "queued"
      BY DEF Store!AdmittedRow, Store!NoRow
    <3>5. jobs'[j].status = "queued" /\ ItemOf(j, q).job = j
      BY <3>2, <3>3, <3>4 DEF ItemOf
    <3>6. guard' = d
      BY <1>6 DEF SubmitCall
    <3> QED
      BY <1>3, <3>1, <3>5, <3>6
  <2>2. ASSUME NEW j, client' = [client EXCEPT ![d] =
                            [step |-> "existing", job |-> j, items |-> <<ItemOf(j, q)>>]]
        PROVE  PendingClient(d)'
    <3>1. client'[d].step = "existing" /\ client'[d].items = <<ItemOf(j, q)>> /\ client'[d].job = j
      BY <1>0, <2>2
    <3>2. guard' = d /\ ItemOf(j, q).job = j
      BY <1>6 DEF SubmitCall, ItemOf
    <3> QED
      BY <3>1, <3>2 DEF PendingClient, Admitting
  <2> QED
    BY <1>6, <2>1, <2>2 DEF SubmitCall
<1>7. ASSUME NEW batch \in SUBSET Request, BatchCall(d, batch) PROVE PendingClient(d)'
  <2>1. StoreP!RowInv' /\ StoreP!SequenceUnique'
    BY TableKept
  <2>2. \A j \in JobId : jobs'[j] \in StoreP!Row
    BY <2>1 DEF StoreP!RowInv, StoreP!TypeOK
  <2>3. \A j \in JobId : jobs'[j].seq \in Nat
    BY <2>2 DEF StoreP!Row
  <2>4. \A j, k \in JobId : jobs'[j].status = "queued" /\ jobs'[k].status = "queued"
                              /\ jobs'[j].seq = jobs'[k].seq => j = k
    BY <2>1 DEF StoreP!SequenceUnique, StoreP!Present, StoreP!JobStatus, StoreP!Active
  <2>5. \A n \in DOMAIN BatchItems(jobs', batch) :
          \E j \in JobId : /\ jobs'[j].status = "queued"
                           /\ BatchItems(jobs', batch)[n] = ItemOf(j, jobs'[j].req)
    BY <2>3, <2>4, BatchListed
  <2>6. client'[d] = [step |-> "batched", job |-> 0, items |-> BatchItems(jobs', batch)] /\ guard' = d
    BY <1>0, <1>7 DEF BatchCall
  <2>7. client'[d].step = "batched" /\ client'[d].items = BatchItems(jobs', batch)
    BY <2>6
  <2>8. \A n \in DOMAIN BatchItems(jobs', batch) :
          jobs'[BatchItems(jobs', batch)[n].job].status = "queued"
    BY <2>5 DEF ItemOf
  <2> QED
    BY <1>3, <2>6, <2>7, <2>8
<1>8. ASSUME NEW j \in JobId, CancelCall(d, j) PROVE PendingClient(d)'
  <2>1. client'[d].step = "cancelled"
    BY <1>0, <1>8 DEF CancelCall
  <2> QED
    BY <1>1, <2>1 DEF Admitting
<1>9. CASE SubmitLook(d)
  <2>1. CASE client' = [client EXCEPT ![d] = Idle]
    BY <1>0, <1>2, <2>1
  <2>2. CASE Goes(d, "admitted") /\ guard' = guard /\ jobs[client[d].job].status = "queued"
    <3>1. client' = [client EXCEPT ![d] = [client[d] EXCEPT !.step = "admitted"]]
      BY <2>2 DEF Goes
    <3>2. client'[d].step = "admitted" /\ client'[d].items = client[d].items
      BY <1>0, <3>1 DEF ClientRecord
    <3>3. guard = d /\ jobs' = jobs /\ client[d].step = "existing"
      BY <1>9, NoResumption DEF SubmitLook, storeVars
    <3>4. \A n \in DOMAIN client[d].items : client[d].items[n].job = client[d].job
      BY <1>0, <3>3 DEF PendingClient
    <3> QED
      BY <1>3, <2>2, <3>2, <3>3, <3>4
  <2> QED
    BY <1>9, <2>1, <2>2 DEF SubmitLook
<1>10. CASE EnqueueCall(d)
  <2>1. PICK step \in {"enqueuing", "enqueuing batch"} : Goes(d, step)
    BY <1>10 DEF EnqueueCall
  <2>2. client' = [client EXCEPT ![d] = [client[d] EXCEPT !.step = step]]
    BY <2>1 DEF Goes
  <2>3. client'[d].step \in {"enqueuing", "enqueuing batch"}
    BY <1>0, <2>2 DEF ClientRecord
  <2>4. guard' = d
    BY <1>10, NoResumption DEF EnqueueCall
  <2> QED
    BY <2>3, <2>4 DEF PendingClient
<1>11. CASE EnqueueFull(d)
  <2>1. PICK step \in {"refused", "batch refused"} : Goes(d, step)
    BY <1>11 DEF EnqueueFull
  <2>2. client' = [client EXCEPT ![d] = [client[d] EXCEPT !.step = step]]
    BY <2>1 DEF Goes
  <2>3. client'[d].step \in {"refused", "batch refused"}
    BY <1>0, <2>2 DEF ClientRecord
  <2> QED
    BY <1>1, <2>3 DEF Admitting
<1>12. CASE EnqueueItem(d) \/ Refuse(d) \/ CancelForget(d)
  <2>1. client' = client \/ client' = [client EXCEPT ![d] = Idle]
    BY <1>12 DEF EnqueueItem, Refuse, CancelForget
  <2> QED
    BY <1>0, <1>2, <1>4, <2>1
<1>13. CASE ClientStep(d)
  BY <1>9, <1>10, <1>11, <1>12, <1>13, NoResumption DEF ClientStep
<1> QED
  BY <1>0, <1>4, <1>5, <1>6, <1>7, <1>8, <1>13, OwnShape, NoResumption

\* What is on its way to the queue stays queued in the table.
LEMMA InboxPends ==
  ASSUME "resume" \notin Calls, Typed, OwnersInv, PendingInv, [Next]_vars,
         NEW n \in DOMAIN inbox'
  PROVE  jobs'[inbox'[n].job].status = "queued"
<1>0. ClientInv /\ SchedP!IInv /\ inbox \in Seq(Item)
  BY DEF Typed, SchedP!IInv, SchedP!RestType
<1>1. ASSUME NEW m \in DOMAIN inbox PROVE jobs'[inbox[m].job].status = "queued"
  <2>1. inbox[m].job \in JobId
    BY <1>0, ElementOfSeq, ItemParts
  <2>2. guard # NoClient \/ process = "loading"
    BY <1>1 DEF PendingInv, LockInv
  <2> QED
    BY <2>1, <2>2, GuardedStays DEF PendingInv
<1>2. CASE SchedulerStep
  <2>1. \E m \in DOMAIN inbox : inbox'[n] = inbox[m]
    BY <1>0, <1>2, ItemsMove
  <2> QED
    BY <1>1, <2>1
<1>3. CASE UNCHANGED schedVars
  BY <1>1, <1>3 DEF schedVars
<1>4. CASE MemoryLost
  BY <1>4 DEF MemoryLost
<1>5. CASE Load
  <2>1. \A j \in JobId : jobs[j].status = "queued" => jobs[j].req \in Request
    BY DEF Typed, ReqInv
  <2>2. inbox' = QueuedList /\ jobs' = jobs
    BY <1>5 DEF Load, storeVars
  <2>3. PICK j \in Queued : QueuedList[n] = ItemOf(j, jobs[j].req)
    BY <2>1, <2>2, QueueListed DEF Typed, StoreP!RowInv
  <2> QED
    BY <2>2, <2>3 DEF Queued, ItemOf
<1>6. ASSUME NEW c \in Client, SubmitLook(c) PROVE inbox' = inbox
  BY <1>6 DEF SubmitLook
<1>7. ASSUME NEW c \in Client, EnqueueCall(c) PROVE jobs'[inbox'[n].job].status = "queued"
  <2>1. /\ inbox' = client[c].items /\ jobs' = jobs
        /\ client[c].step \in {"admitted", "batched", "routed"}
    BY <1>7 DEF EnqueueCall, Sched!Submit, storeVars
  <2>2. client[c].step \in {"admitted", "batched"}
    BY <2>1 DEF PendingInv, PendingClient
  <2> QED
    BY <2>1, <2>2 DEF PendingInv, PendingClient
<1> QED
  BY <1>0, <1>1, <1>2, <1>3, <1>4, <1>5, <1>6, <1>7, SchedulerShape

\* What waits is queued, or its cancellation is on the way to withdraw it; a
\* worker has taken its job out of what waits before it leases the row.
LEMMA WaitingPends ==
  ASSUME "resume" \notin Calls, Typed, OwnersInv, PendingInv, [Next]_vars,
         NEW i \in known, i \in known'
  PROVE  WaitsQueued(i.job)'
<1>0. /\ ClientInv /\ SchedP!IInv /\ i \in Item /\ i.job \in JobId /\ client \in [Client -> ClientRecord]
      /\ process \in {"serving", "loading"}
  <2>1. i \in Item
    BY DEF Typed, SchedP!IInv, SchedP!QueueType
  <2> QED
    BY <2>1, ItemParts DEF Typed, ClientInv, PendingInv, LockInv
<1>1. CASE jobs[i.job].status = "queued"
  <2>1. ~Recover
    BY <1>0 DEF Recover
  <2>2. ASSUME NEW c \in Client, CancelCall(c, i.job) PROVE WaitsQueued(i.job)'
    <3>1. client'[c] = [step |-> "cancelled", job |-> i.job, items |-> <<>>]
      BY <1>0, <2>2 DEF CancelCall
    <3>2. client'[c].step = "cancelled" /\ client'[c].job = i.job
      BY <3>1
    <3> QED
      BY <3>2 DEF WaitsQueued
  <2>3. ASSUME NEW t \in Thread, LeaseStep(t), Mine(t) = i.job PROVE FALSE
    <3>1. held[t] # NoItem
      BY <2>3 DEF LeaseStep, Typed, TaskInv
    <3>2. held[t] \in active
      BY <1>0, <3>1 DEF SchedP!IInv, SchedP!ExclusiveSlots
    <3> QED
      BY <1>0, <2>3, <3>2 DEF SchedP!IInv, SchedP!JobsInv, Mine
  <2> QED
    BY <1>0, <1>1, <2>1, <2>2, <2>3, QueuedMoves DEF WaitsQueued
<1>2. ASSUME NEW c \in Client, client[c].step = "cancelled", client[c].job = i.job
      PROVE  WaitsQueued(i.job)'
  <2>1. ~MemoryLost
    BY DEF MemoryLost
  <2>2. ~CancelForget(c)
    <3>1. ASSUME CancelForget(c) PROVE FALSE
      <4>1. i.job \in Sched!Jobs(known) /\ Sched!Withdraw(i.job)
        BY <1>2, <3>1 DEF CancelForget, Sched!Jobs
      <4>2. PICK k \in known : k.job = i.job /\ known' = known \ {k}
        BY <4>1 DEF Sched!Withdraw, Sched!Removed
      <4> QED
        BY <1>0, <4>2 DEF SchedP!IInv, SchedP!JobsInv
    <3> QED
      BY <3>1
  <2>3. client'[c] = client[c]
    <3>1. ~ClientStep(c)
      BY <1>2, <2>2 DEF ClientStep, SubmitLook, EnqueueCall, EnqueueItem, EnqueueFull, Refuse,
                        ResumeRow, ResumeRoute
    <3>2. /\ \A q : ~SubmitCall(c, q)
          /\ \A batch : ~BatchCall(c, batch)
          /\ \A j : ~CancelCall(c, j) /\ ~ResumeCall(c, j)
      BY <1>2 DEF SubmitCall, BatchCall, CancelCall, ResumeCall, Begins
    <3> QED
      BY <1>0, <2>1, <3>1, <3>2, OwnShape
  <2> QED
    BY <1>2, <2>3 DEF WaitsQueued
<1> QED
  BY <1>1, <1>2 DEF PendingInv, WaitsQueued

\* What joins those that wait came from the lock holder.
LEMMA WaitingComes ==
  ASSUME SchedP!IInv, ClientInv, [Next]_vars
  PROVE  known' \subseteq known \union {inbox[n] : n \in DOMAIN inbox}
<1>1. ASSUME SchedulerStep PROVE known' \subseteq known \union {inbox[n] : n \in DOMAIN inbox}
  BY <1>1, ItemsMove
<1>2. ASSUME UNCHANGED schedVars \/ MemoryLost \/ Load PROVE known' \subseteq known
  BY <1>2 DEF schedVars, MemoryLost, Load
<1>3. ASSUME NEW c \in Client, SubmitLook(c) \/ EnqueueCall(c) PROVE known' = known
  BY <1>3 DEF SubmitLook, EnqueueCall, Sched!Submit, Sched!queueVars
<1> QED
  BY <1>1, <1>2, <1>3, SchedulerShape

LEMMA PendingKept ==
  ASSUME "resume" \notin Calls, Typed, OwnersInv, PendingInv, [Next]_vars
  PROVE  PendingInv'
<1>1. LockInv'
  BY LockKept
<1>2. \A c \in Client : PendingClient(c)'
  BY ClientPends
<1>3. \A n \in DOMAIN inbox' : jobs'[inbox'[n].job].status = "queued"
  BY InboxPends
<1>4. ASSUME NEW i \in known' PROVE WaitsQueued(i.job)'
  <2>1. CASE i \in known
    BY <2>1, WaitingPends
  <2>2. ASSUME NEW n \in DOMAIN inbox, i = inbox[n] PROVE WaitsQueued(i.job)'
    <3>1. inbox \in Seq(Item)
      BY DEF Typed, SchedP!IInv, SchedP!RestType
    <3>2. inbox[n].job \in JobId
      BY <3>1, ElementOfSeq, ItemParts
    <3>3. guard # NoClient \/ process = "loading"
      BY <2>2 DEF PendingInv, LockInv
    <3>4. jobs'[i.job].status = "queued"
      BY <2>2, <3>2, <3>3, GuardedStays DEF PendingInv
    <3> QED
      BY <3>4 DEF WaitsQueued
  <2> QED
    BY <2>1, <2>2, WaitingComes DEF Typed
<1> QED
  BY <1>1, <1>2, <1>3, <1>4 DEF PendingInv

\* Where nothing is resumed, the capacity of the in-memory queue is never taken
\* up by a job that cannot start: whatever waits is queued in the table, but for
\* a cancellation that is about to withdraw it.
THEOREM PendingQueued ==
  ASSUME "resume" \notin Calls
  PROVE  Spec => []PendingIsQueued
<1>1. Typed /\ OwnersInv /\ PendingInv /\ [Next]_vars => (Typed /\ OwnersInv /\ PendingInv)'
  BY TypesKept, OwnersKept, PendingKept
<1>2. PendingInv => PendingIsQueued
  BY DEF PendingInv, WaitsQueued, PendingIsQueued
<1> QED
  BY <1>1, <1>2, TypesStart, OwnersStart, PendingStart, PTL DEF Spec

-----------------------------------------------------------------------------
(* What is queued in the table is known to the process, unless something    *)
(* is resumed, overflows or meets the lease of a process that has died      *)

\* A queued row that still has time for a lease.
InTime(j) == jobs[j].status = "queued" /\ now + LeaseTime <= jobs[j].deadline

\* A row that the process knows of: it waits, is on its way to the queue, or
\* has just been taken.
Awaited(j) ==
  \/ j \in Jobs(known)
  \/ \E n \in DOMAIN inbox : inbox[n].job = j
  \/ \E c \in Client : /\ client[c].step \in {"admitted", "batched"}
                       /\ \E n \in DOMAIN client[c].items : client[c].items[n].job = j
  \/ \E t \in Thread : task[t] = "taken" /\ Mine(t) = j

CancelledInv == \A j \in JobId : jobs[j].status = "queued" => ~jobs[j].cancel
AwaitedInv   == process \in {"serving", "loading"} => \A j \in JobId : InTime(j) => Awaited(j)
WithdrawnInv == \A c \in Client : client[c].step = "cancelled" => jobs[client[c].job].status # "queued"

\* A worker that is past its lease has no row that still waits for one.
PastInv == \A t \in Thread : task[t] \notin {"none", "taken"} => ~InTime(Mine(t))

ListedInv == CancelledInv /\ AwaitedInv /\ WithdrawnInv /\ PastInv

\* The lease of an earlier process that has not run out yet keeps job j from starting.
DeadLease(j) ==
  \E k \in JobId \ {j} :
    /\ jobs[k].status = "running" /\ jobs[k].owner # NoWorker /\ jobs[k].expiry > now
    /\ jobs[k].owner[1] # epoch /\ (Store!SameAuth(j, k) \/ Store!SameSource(j, k))

\* A report makes no row wait.
LEMMA ReportAdds ==
  ASSUME Typed, NEW t \in Thread, ReportStep(t), NEW j \in JobId
  PROVE  jobs'[j] = jobs[j] \/ jobs'[j].status # "queued"
<1>1. Mine(t) \in JobId
  BY HeldItem DEF Typed, ReportStep, FinishStep, CancelledStep, FailedStep, RateLimitedStep
<1>2. {"running"} \in SUBSET StoreP!Active /\ Store!Active \in SUBSET StoreP!Active
  BY DEF StoreP!Active, Store!Active
<1>3. ASSUME NEW allowed \in SUBSET StoreP!Active, NEW target \in StoreP!Terminal \union {"waiting"},
             NEW code \in StoreP!Code, NEW retryable \in BOOLEAN,
             Store!Transition(Mine(t), allowed, target, code, retryable, OwnerOf(t))
      PROVE  jobs'[j] = jobs[j] \/ jobs'[j].status # "queued"
  <2>1. CASE j = Mine(t)
    BY <1>3, <2>1, TransitionLeaves DEF StoreP!Terminal
  <2> QED
    BY <1>1, <1>3, <2>1, TransitionOne
<1>4. ASSUME UNCHANGED storeVars PROVE jobs'[j] = jobs[j]
  BY <1>4 DEF storeVars
<1>5. CASE FinishStep(t)
  <2>1. UNCHANGED storeVars \/ \E partial \in BOOLEAN : Store!FinishJob(Mine(t), partial, OwnerOf(t))
    BY <1>5 DEF FinishStep, Reports
  <2>2. /\ \A partial \in BOOLEAN : (IF partial THEN "partial" ELSE "succeeded") \in StoreP!Terminal
        /\ Store!NoCode \in StoreP!Code
    BY DEF StoreP!Terminal, Store!NoCode, StoreP!Code, StoreP!NoCode
  <2> QED
    BY <1>2, <1>3, <1>4, <2>1, <2>2 DEF Store!FinishJob
<1>6. CASE RateLimitedStep(t)
  <2>1. UNCHANGED storeVars \/ Store!WaitJob(Mine(t), OwnerOf(t))
    BY <1>6 DEF RateLimitedStep, Reports
  <2>2. "rate_limited" \in StoreP!Code
    BY DEF StoreP!Code, StoreP!NotRequeued, StoreP!NotResumable
  <2> QED
    BY <1>2, <1>3, <1>4, <2>1, <2>2 DEF Store!WaitJob
<1>7. ASSUME NEW f \in Store!Failure, Store!FailJob(Mine(t), f, OwnerOf(t))
      PROVE  jobs'[j] = jobs[j] \/ jobs'[j].status # "queued"
  <2>0. f \in StoreP!Failure
    BY DEF Store!Failure, StoreP!Failure, Store!NotResumable, StoreP!NotResumable
  <2>1. f.status \in StoreP!Terminal
    BY <2>0, StoreP!FailureEnds, StoreAssumed
  <2>2. f.code \in StoreP!Code /\ f.retryable \in BOOLEAN
    BY <2>0, StoreP!FailureType, StoreAssumed
  <2> QED
    BY <1>2, <1>3, <1>7, <2>1, <2>2 DEF Store!FailJob
<1>8. CASE CancelledStep(t)
  <2>1. Interruption \in Store!Failure /\ Cancellation \in Store!Failure
    BY DEF Interruption, Cancellation, Store!Failure
  <2>2. UNCHANGED storeVars \/ \E f \in Store!Failure : Store!FailJob(Mine(t), f, OwnerOf(t))
    BY <1>8, <2>1 DEF CancelledStep, Reports
  <2> QED
    BY <1>4, <1>7, <2>2
<1>9. CASE FailedStep(t)
  <2> DEFINE status == IF jobs[Mine(t)].collected > 0 THEN "partial" ELSE "failed"
  <2>1. /\ Interruption \in Store!Failure
        /\ [status |-> status, code |-> "provider_error", retryable |-> TRUE] \in Store!Failure
    BY DEF Interruption, Store!Failure
  <2>2. UNCHANGED storeVars \/ \E f \in Store!Failure : Store!FailJob(Mine(t), f, OwnerOf(t))
    BY <1>9, <2>1 DEF FailedStep, Reports
  <2> QED
    BY <1>4, <1>7, <2>2
<1> QED
  BY <1>5, <1>6, <1>8, <1>9 DEF ReportStep

\* Without resumptions a row comes to the queue by its admission or by the recovery.
LEMMA QueuedComes ==
  ASSUME "resume" \notin Calls, Typed, PendingInv, [Next]_vars, NEW j \in JobId,
         jobs'[j].status = "queued"
  PROVE  \/ jobs[j].status = "queued" \/ Recover
         \/ /\ jobs[j].status = "absent"
            /\ \E c \in Client : \/ \E q \in Request : SubmitCall(c, q)
                               \/ \E batch \in SUBSET Request : BatchCall(c, batch)
<1>0. /\ jobs \in [JobId -> StoreP!Row]
      /\ jobs'[j] = jobs[j] => jobs[j].status = "queued"
  BY DEF Typed, StoreP!RowInv, StoreP!TypeOK
<1>1. ASSUME NEW c \in Client, NEW q \in Request, SubmitCall(c, q)
      PROVE  jobs'[j] = jobs[j] \/ jobs[j].status = "absent"
  BY <1>0, <1>1 DEF SubmitCall, FreshId, Store!AdmitJob, storeVars
<1>2. ASSUME NEW c \in Client, NEW batch \in SUBSET Request, BatchCall(c, batch)
      PROVE  jobs'[j] = jobs[j] \/ jobs[j].status = "absent"
  <2>1. ASSUME NEW b, Store!AdmitBatch(batch, b), jobs[j].status # "absent" PROVE jobs'[j] = jobs[j]
    <3> DEFINE new == Store!NewItems(batch)
    <3>1. PICK n \in 1..MaxSequence : \E f \in Store!Placement(new, n) :
             jobs' = [k \in JobId |->
                        IF \E q \in new : f[q].id = k
                          THEN LET q == CHOOSE r \in new : f[r].id = k
                               IN  Store!AdmittedRow(q, batch, f[q].seq)
                          ELSE jobs[k]]
      BY <2>1 DEF Store!AdmitBatch
    <3>2. \A f \in Store!Placement(new, n) : ~\E q \in new : f[q].id = j
      BY <2>1 DEF Store!Placement, Store!Unused
    <3> QED
      BY <3>1, <3>2
  <2> QED
    BY <1>2, <2>1 DEF BatchCall, storeVars
<1>3. ASSUME NEW c \in Client, NEW k \in JobId, CancelCall(c, k)
      PROVE  jobs'[j] = jobs[j] \/ jobs'[j].status # "queued"
  <2>1. CASE j = k
    <3>1. Store!Transition(k, Store!Active, "cancelled", "cancelled", TRUE, NoWorker)
      BY <1>3 DEF CancelCall, Store!RequestCancel
    <3>2. /\ Store!Active \in SUBSET StoreP!Active /\ "cancelled" \in StoreP!Terminal
          /\ "cancelled" \in StoreP!Code
      BY DEF Store!Active, StoreP!Active, StoreP!Terminal, StoreP!Code
    <3> QED
      BY <2>1, <3>1, <3>2, TransitionLeaves DEF StoreP!Terminal
  <2> QED
    BY <1>3, <2>1, TransitionOne DEF CancelCall, Store!RequestCancel
<1>4. ASSUME NEW k \in JobId, DeleteCall(k) PROVE jobs'[j] = jobs[j] \/ jobs'[j].status # "queued"
  BY <1>0, <1>4 DEF DeleteCall, Store!DeleteJob, Store!Delete, Store!Tombstone, Store!NoRow
<1>5. ASSUME NEW c \in Client, ClientStep(c) PROVE jobs'[j] = jobs[j]
  BY <1>5, NoResumption
     DEF ClientStep, SubmitLook, EnqueueCall, EnqueueItem, EnqueueFull, Refuse, CancelForget, storeVars
<1>6. ASSUME NEW t \in Thread, WorkerStep(t)
      PROVE  jobs'[j] = jobs[j] \/ jobs'[j].status # "queued" \/ jobs[j].status = "queued"
  <2>1. CASE LeaseStep(t)
    <3>1. Starts(t) \/ UNCHANGED storeVars
      BY <2>1, LeaseShape DEF Typed, StoreP!RowInv
    <3> QED
      BY <3>1, StartedTable DEF storeVars
  <2>2. CASE Heartbeat(t)
    BY <1>0, <2>2 DEF Heartbeat, Store!HeartbeatJob, storeVars, StoreP!Row
  <2>3. CASE ReportStep(t)
    BY <2>3, ReportAdds
  <2>4. CASE \/ TakeJob(t) \/ LoopStep(t) \/ NoticeCancel(t) \/ Returns(t) \/ ReadBack(t)
             \/ LeaveJob(t)
    BY <2>4 DEF TakeJob, LoopStep, NoticeCancel, Returns, ReadBack, LeaveJob, storeVars
  <2> QED
    BY <1>6, <2>1, <2>2, <2>3, <2>4 DEF WorkerStep, OwnStep, ReportStep
<1>7. ASSUME NEW t \in Thread, NEW batch \in SUBSET Post, Persist(t, batch)
      PROVE  jobs'[j] = jobs[j] \/ jobs'[j].status # "queued"
  <2>1. PICK n, u : jobs' = [jobs EXCEPT ![Mine(t)] = [jobs[Mine(t)] EXCEPT !.collected = n, !.usage = u]]
    BY <1>7 DEF Persist, Store!AddPosts
  <2>2. jobs[Mine(t)].status = "running"
    BY <1>7 DEF Persist, Store!AddPosts, Store!Writable
  <2> QED
    BY <1>0, <2>1, <2>2 DEF StoreP!Row
<1>8. CASE \/ Crash \/ Shutdown \/ ShutdownEnds \/ Restart \/ Load \/ LoadItem \/ LoadFull
           \/ Tick \/ UNCHANGED vars
  BY <1>0, <1>8
     DEF Crash, Shutdown, ShutdownEnds, Restart, Load, LoadItem, LoadFull, Tick, Store!Tick,
         vars, storeVars
<1>9. \A c \in Client, k \in JobId : ~ResumeCall(c, k)
  BY NoResumption
<1> QED
  BY <1>0, <1>1, <1>2, <1>3, <1>4, <1>5, <1>6, <1>7, <1>8, <1>9 DEF Next

\* The clock never goes back.
LEMMA ClockMoves ==
  ASSUME Typed, [Next]_vars
  PROVE  now \in Nat /\ now' \in Nat /\ now <= now'
<1>0. now \in Nat
  BY JobServiceAssumption DEF Typed, StoreP!RowInv, StoreP!TypeOK, StoreP!Time
<1>1. [NoStart]_storeVars \/ \E t \in Thread : Starts(t)
  BY StoreShape DEF Typed, StoreP!RowInv
<1>2. now' = now \/ now' = now + 1
  <2>1. CASE NoStart
    BY <2>1
       DEF NoStart, Store!AdmitJob, Store!AdmitBatch, Store!HeartbeatJob, Store!AddPosts,
           Store!FinishJob, Store!FailJob, Store!WaitJob, Store!RequestCancel, Store!ResumeJob,
           Store!RecoverRow, Store!DeleteJob, Store!Delete, Store!RequeueAbandoned, Store!Tick,
           Store!Transition
  <2>2. CASE UNCHANGED storeVars
    BY <2>2 DEF storeVars
  <2>3. ASSUME NEW t \in Thread, Starts(t) PROVE now' = now
    BY <2>3 DEF Starts, Store!LeaseJob
  <2> QED
    BY <1>1, <2>1, <2>2, <2>3
<1> QED
  BY <1>0, <1>2

\* Time only runs out: a row that was there has been in time all along.
LEMMA InTimeBefore ==
  ASSUME "resume" \notin Calls, Typed, PendingInv, [Next]_vars, NEW j \in JobId,
         InTime(j)', jobs[j].status # "absent", process # "recovering"
  PROVE  InTime(j)
<1>1. jobs[j].status = "queued"
  <2>1. jobs'[j].status = "queued"
    BY DEF InTime
  <2> QED
    BY <2>1, QueuedComes DEF Recover
<1>2. jobs'[j].deadline = jobs[j].deadline
  <2>1. jobs'[j].status = "queued"
    BY DEF InTime
  <2>2. jobs[j] \in StoreP!Row /\ StoreP!RowStep(jobs[j], jobs'[j])
    BY RowMoves
  <2> QED
    BY <2>1, <2>2, StoreP!QueuedColumns, StoreAssumed
<1>3. jobs[j].deadline \in Nat
  BY JobServiceAssumption DEF Typed, StoreP!RowInv, StoreP!TypeOK, StoreP!Row, StoreP!NoTime, StoreP!Time
<1>4. now' + LeaseTime <= jobs[j].deadline
  BY <1>2 DEF InTime
<1>5. LeaseTime \in Nat
  BY JobServiceAssumption
<1> QED
  BY <1>1, <1>3, <1>4, <1>5, ClockMoves DEF InTime

LEMMA CancelledKept ==
  ASSUME Typed, CancelledInv, [Next]_vars
  PROVE  CancelledInv'
<1> SUFFICES ASSUME NEW j \in JobId, jobs'[j].status = "queued" PROVE ~jobs'[j].cancel
  BY DEF CancelledInv
<1>1. jobs[j] \in StoreP!Row /\ StoreP!RowStep(jobs[j], jobs'[j])
  BY RowMoves
<1>2. jobs'[j] = jobs[j] \/ ~jobs'[j].cancel
  BY <1>1, StoreP!QueuedColumns, StoreAssumed
<1> QED
  BY <1>2 DEF CancelledInv

\* A row that a client has cancelled does not wait again while the client is on
\* its way to the queue.
LEMMA WithdrawnKept ==
  ASSUME "resume" \notin Calls, Typed, FaithInv, PendingInv, WithdrawnInv, [Next]_vars
  PROVE  WithdrawnInv'
<1> SUFFICES ASSUME NEW c \in Client, client'[c].step = "cancelled"
             PROVE  jobs'[client'[c].job].status # "queued"
  BY DEF WithdrawnInv
<1>0. ClientInv /\ client \in [Client -> ClientRecord]
  BY DEF Typed, ClientInv
<1>1. ASSUME NEW j \in JobId, CancelCall(c, j) PROVE jobs'[client'[c].job].status # "queued"
  <2>1. client'[c] = [step |-> "cancelled", job |-> j, items |-> <<>>]
    BY <1>0, <1>1 DEF CancelCall
  <2>2. client'[c].job = j
    BY <2>1
  <2>3. Store!Transition(j, Store!Active, "cancelled", "cancelled", TRUE, NoWorker)
    BY <1>1 DEF CancelCall, Store!RequestCancel
  <2>4. /\ Store!Active \in SUBSET StoreP!Active /\ "cancelled" \in StoreP!Terminal
        /\ "cancelled" \in StoreP!Code
    BY DEF Store!Active, StoreP!Active, StoreP!Terminal, StoreP!Code
  <2> QED
    BY <2>2, <2>3, <2>4, TransitionLeaves
<1>2. CASE client[c].step = "cancelled" /\ client'[c] = client[c]
  <2>1. /\ client[c].job \in JobId /\ jobs[client[c].job].status \notin {"queued", "absent"}
    BY <1>0, <1>2 DEF ClientInv, Named, WithdrawnInv, FaithInv, FaithfulClient
  <2>2. ~Recover
    BY <1>2 DEF Recover, PendingInv, LockInv
  <2> QED
    BY <1>2, <2>1, <2>2, QueuedComes
<1>3. ASSUME ClientStep(c) PROVE client[c].step = "cancelled" /\ client'[c] = client[c]
  <2>1. ASSUME NEW step, Goes(c, step), step # "cancelled" PROVE FALSE
    <3>1. client' = [client EXCEPT ![c] = [client[c] EXCEPT !.step = step]]
      BY <2>1 DEF Goes
    <3>2. client'[c].step = step
      BY <1>0, <3>1 DEF ClientRecord
    <3> QED
      BY <2>1, <3>2
  <2>2. client' # [client EXCEPT ![c] = Idle]
    BY <1>0 DEF Idle
  <2>3. ~SubmitLook(c) /\ ~EnqueueCall(c) /\ ~EnqueueFull(c)
    BY <2>1, <2>2 DEF SubmitLook, EnqueueCall, EnqueueFull
  <2>4. ~Refuse(c) /\ ~CancelForget(c)
    BY <2>2 DEF Refuse, CancelForget
  <2>5. ~EnqueueItem(c)
    BY <2>2 DEF EnqueueItem
  <2> QED
    BY <1>3, <2>3, <2>4, <2>5, NoResumption DEF ClientStep
<1>4. ASSUME NEW q \in Request, SubmitCall(c, q) PROVE FALSE
  <2>1. PICK step, j, items :
          /\ step \in {"admitted", "existing"}
          /\ client' = [client EXCEPT ![c] = [step |-> step, job |-> j, items |-> items]]
    BY <1>4 DEF SubmitCall
  <2>2. client'[c] = [step |-> step, job |-> j, items |-> items]
    BY <1>0, <2>1
  <2>3. client'[c].step = step
    BY <2>2
  <2> QED
    BY <2>1, <2>3
<1>5. ASSUME NEW batch \in SUBSET Request, BatchCall(c, batch) PROVE FALSE
  <2>1. client'[c] = [step |-> "batched", job |-> 0, items |-> BatchItems(jobs', batch)]
    BY <1>0, <1>5 DEF BatchCall
  <2>2. client'[c].step = "batched"
    BY <2>1
  <2> QED
    BY <2>2
<1>6. ~MemoryLost
  BY DEF MemoryLost, Idle
<1> QED
  BY <1>0, <1>1, <1>2, <1>3, <1>4, <1>5, <1>6, OwnShape, NoResumption

\* What a step does to what a worker does and holds.
LEMMA TaskMoves ==
  ASSUME Typed, [Next]_vars, NEW t \in Thread
  PROVE  \/ task'[t] = task[t] /\ held'[t] = held[t]
         \/ MemoryLost /\ process' \in {"down", "failed"}
         \/ TakeJob(t) /\ task[t] = "none" /\ task'[t] = "taken"
         \/ LeaseStep(t) /\ held'[t] = held[t]
         \/ task[t] \notin {"none", "taken"} /\ (held'[t] = held[t] \/ task'[t] = "none")
<1>0. /\ ClientInv /\ SchedP!IInv /\ task \in [Thread -> TaskName]
      /\ held \in [Thread -> Item \union {NoItem}]
      /\ \A u \in Thread : task[u] = "none" <=> held[u] = NoItem
  BY DEF Typed, TaskInv, SchedP!IInv, SchedP!SlotType
<1>1. ASSUME NEW u \in Thread, TakeJob(u)
      PROVE  IF u = t THEN task[t] = "none" /\ task'[t] = "taken"
                      ELSE task'[t] = task[t] /\ held'[t] = held[t]
  BY <1>0, <1>1, TakenItem
<1>2. ASSUME NEW u \in Thread, LoopStep(u) PROVE task' = task /\ held' = held
  BY <1>2, HeldKept DEF LoopStep
<1>3. ASSUME NEW u \in Thread, LeaveJob(u)
      PROVE  IF u = t THEN task[t] = "leaving" /\ task'[t] = "none"
                      ELSE task'[t] = task[t] /\ held'[t] = held[t]
  BY <1>0, <1>3 DEF LeaveJob, Moves, Sched!Done
<1>4. ASSUME NEW u \in Thread, LeaseStep(u)
      PROVE  held' = held /\ (u # t => task'[t] = task[t])
  BY <1>0, <1>4 DEF LeaseStep, Moves, schedVars
<1>5. ASSUME NEW u \in Thread,
             \/ Heartbeat(u) \/ NoticeCancel(u) \/ Returns(u) \/ ReportStep(u) \/ ReadBack(u)
      PROVE  held' = held /\ (IF u = t THEN task[t] \notin {"none", "taken"} ELSE task'[t] = task[t])
  <2>1. held' = held /\ task[u] \notin {"none", "taken"}
    BY <1>5 DEF Heartbeat, NoticeCancel, Returns, ReportStep, FinishStep, CancelledStep, FailedStep,
                RateLimitedStep, ReadBack, Reports, schedVars
  <2>2. UNCHANGED task \/ \E x : Moves(u, x)
    BY <1>5 DEF Heartbeat, NoticeCancel, Returns, ReportStep, FinishStep, CancelledStep, FailedStep,
                RateLimitedStep, ReadBack, Reports
  <2> QED
    BY <1>0, <2>1, <2>2 DEF Moves
<1>6. ASSUME NEW u \in Thread, WorkerStep(u)
      PROVE  \/ TakeJob(u) \/ LoopStep(u) \/ LeaveJob(u) \/ LeaseStep(u)
             \/ Heartbeat(u) \/ NoticeCancel(u) \/ Returns(u) \/ ReportStep(u) \/ ReadBack(u)
  BY <1>6 DEF WorkerStep, OwnStep, ReportStep
<1> QED
  BY <1>0, <1>1, <1>2, <1>3, <1>4, <1>5, <1>6, WorkerShape

\* A row in time that cannot be leased is blocked by the lease of a dead
\* process: a worker of this one holds other slots than its fellow.
LEMMA LeaseDrops ==
  ASSUME Typed, FaithInv, OwnersInv, CancelledInv, NEW t \in Thread, LeaseStep(t), ~Starts(t),
         InTime(Mine(t))
  PROVE  DeadLease(Mine(t))
<1>0. /\ StoreP!TypeOK /\ SchedP!IInv /\ task[t] = "taken" /\ held[t] # NoItem
      /\ Mine(t) \in JobId /\ OwnerOf(t) \in Owner
  BY HeldItem DEF LeaseStep, Typed, TaskInv, StoreP!RowInv
<1>1. ~Store!CanLease(Mine(t), now + LeaseTime)
  <2>1. ASSUME Store!CanLease(Mine(t), now + LeaseTime) PROVE FALSE
    <3>1. now + LeaseTime \in Store!Time
      BY <1>0, <2>1, LeaseTimes DEF Store!CanLease
    <3> QED
      BY <1>0, <2>1, <3>1 DEF LeaseStep, Starts, Moves
  <2> QED
    BY <2>1
<1>2. Store!Claimable(Mine(t)) /\ now + LeaseTime <= jobs[Mine(t)].deadline
  <2>1. /\ jobs[Mine(t)].status = "queued" /\ ~jobs[Mine(t)].cancel
        /\ now + LeaseTime <= jobs[Mine(t)].deadline
    BY <1>0 DEF InTime, CancelledInv
  <2>2. now \in Nat /\ jobs[Mine(t)].deadline \in Nat /\ LeaseTime \in Nat \ {0}
    <3>1. jobs[Mine(t)] \in StoreP!Row /\ now \in StoreP!Time
      BY <1>0 DEF StoreP!TypeOK
    <3>2. jobs[Mine(t)].deadline \in {StoreP!NoTime} \union StoreP!Time
      BY <3>1 DEF StoreP!Row
    <3> QED
      BY <3>1, <3>2, JobServiceAssumption DEF StoreP!NoTime, StoreP!Time
  <2> QED
    BY <2>1, <2>2 DEF Store!Claimable
<1>3. PICK k \in Store!Present \ {Mine(t)} :
         /\ jobs[k].status = "running" /\ jobs[k].owner # NoWorker /\ jobs[k].expiry > now
         /\ Store!SameAuth(Mine(t), k) \/ Store!SameSource(Mine(t), k)
  BY <1>1, <1>2 DEF Store!CanLease, Store!LeaseConflict
<1>4. k \in JobId
  BY DEF Store!Present
<1>5. ASSUME jobs[k].owner[1] = epoch PROVE FALSE
  <2>1. process = "serving"
    BY <1>0 DEF OwnersInv, AsleepInv
  <2>2. PICK u \in Thread : WorkerOf(k, u)
    BY <1>3, <1>4, <1>5, <2>1 DEF OwnersInv, HeldInv
  <2>3. u # t /\ held[u] # NoItem
    BY <1>3, <2>2 DEF WorkerOf, Typed, TaskInv, Collecting
  <2>4. held[u].source = jobs[k].req.source /\ held[u].auth = jobs[k].req.auth
    BY <2>2 DEF WorkerOf, FaithInv, FaithfulWorker
  <2>5. /\ held[t].source = jobs[Mine(t)].req.source
        /\ held[t].auth = jobs[Mine(t)].req.auth
    BY <1>0, <1>2 DEF FaithInv, FaithfulWorker, Faithful, Mine, Store!Claimable
  <2> QED
    BY <1>0, <1>3, <2>3, <2>4, <2>5
       DEF SchedP!IInv, SchedP!ExclusiveSlots, Store!SameAuth, Store!SameSource
<1> QED
  BY <1>3, <1>4, <1>5 DEF DeadLease

LEMMA PastKept ==
  ASSUME "resume" \notin Calls, Typed, FaithInv, OwnersInv, PendingInv, CancelledInv, PastInv,
         [Next]_vars, \A t \in Thread : LeaseStep(t) => ~DeadLease(Mine(t))
  PROVE  PastInv'
<1> SUFFICES ASSUME NEW t \in Thread, NEW j, j = held'[t].job, InTime(j)',
                    task'[t] \notin {"none", "taken"}
             PROVE  FALSE
  BY DEF PastInv, Mine, InTime
<1>1. CASE LeaseStep(t) /\ held'[t] = held[t]
  <2>0. j = Mine(t)
    BY <1>1 DEF Mine
  <2>1. CASE Starts(t)
    BY <2>0, <2>1, StartedTable DEF InTime
  <2>2. CASE ~Starts(t)
    <3>1. UNCHANGED storeVars
      BY <1>1, <2>2, LeaseShape DEF Typed, StoreP!RowInv
    <3>2. InTime(j)
      BY <3>1 DEF storeVars, InTime
    <3> QED
      BY <1>1, <2>0, <2>2, <3>2, LeaseDrops
  <2> QED
    BY <2>1, <2>2
<1>2. CASE task[t] \notin {"none", "taken"} /\ held'[t] = held[t]
  <2>0. j = Mine(t)
    BY <1>2 DEF Mine
  <2>1. j \in JobId /\ jobs[j].status # "absent"
    BY <1>2, <2>0, HeldItem DEF Typed, FaithInv, FaithfulWorker, Faithful, Mine
  <2>2. process = "serving"
    BY <1>2 DEF OwnersInv, AsleepInv
  <2>3. InTime(j)
    BY <2>1, <2>2, InTimeBefore
  <2> QED
    BY <1>2, <2>0, <2>3 DEF PastInv
<1>3. CASE MemoryLost
  BY <1>3 DEF MemoryLost
<1> QED
  BY <1>1, <1>2, <1>3, TaskMoves

\* What a step does to what waits and to what is on its way to the queue.
LEMMA QueueShape ==
  ASSUME ClientInv, [Next]_vars
  PROVE  \/ UNCHANGED <<known, inbox>> \/ Load
         \/ MemoryLost /\ process' \in {"down", "failed"}
         \/ \E t \in Thread : TakeJob(t)
         \/ \E c \in Client : CancelForget(c) \/ EnqueueCall(c) \/ EnqueueFull(c)
         \/ (Sched!SkipKnown \/ Sched!Enqueue) /\ UNCHANGED <<task, held>>
<1>1. ASSUME NEW c \in Client, NEW q \in Request, SubmitCall(c, q) PROVE UNCHANGED <<known, inbox>>
  BY <1>1 DEF SubmitCall, schedVars
<1>2. ASSUME NEW c \in Client, NEW batch \in SUBSET Request, BatchCall(c, batch)
      PROVE  UNCHANGED <<known, inbox>>
  BY <1>2 DEF BatchCall, schedVars
<1>3. ASSUME NEW j \in JobId, DeleteCall(j) \/ \E c \in Client : CancelCall(c, j) \/ ResumeCall(c, j)
      PROVE  UNCHANGED <<known, inbox>>
  BY <1>3 DEF CancelCall, ResumeCall, DeleteCall, schedVars
<1>4. ASSUME NEW c \in Client, SubmitLook(c) \/ Refuse(c) \/ ResumeRow(c) \/ ResumeRoute(c)
      PROVE  UNCHANGED <<known, inbox>>
  BY <1>4 DEF SubmitLook, Refuse, ResumeRow, ResumeRoute, schedVars
<1>5. ASSUME LoadItem \/ \E c \in Client : EnqueueItem(c)
      PROVE  (Sched!SkipKnown \/ Sched!Enqueue) /\ UNCHANGED <<task, held>>
  <2>1. (Sched!SkipKnown \/ Sched!Enqueue) /\ UNCHANGED task
    BY <1>5 DEF LoadItem, EnqueueItem
  <2> QED
    BY <2>1, HeldKept
<1>6. ASSUME NEW t \in Thread, WorkerStep(t), ~TakeJob(t) PROVE UNCHANGED <<known, inbox>>
  <2>1. CASE LoopStep(t) \/ LeaveJob(t)
    BY <2>1 DEF LoopStep, LeaveJob, Sched!Sleep, Sched!Doze, Sched!DozeOver, Sched!Exit, Sched!Done,
                Sched!queueVars
  <2>2. CASE \/ LeaseStep(t) \/ Heartbeat(t) \/ NoticeCancel(t) \/ Returns(t) \/ FinishStep(t)
             \/ CancelledStep(t) \/ FailedStep(t) \/ RateLimitedStep(t) \/ ReadBack(t)
    BY <2>2 DEF LeaseStep, Heartbeat, NoticeCancel, Returns, FinishStep, CancelledStep, FailedStep,
                RateLimitedStep, ReadBack, Reports, schedVars
  <2> QED
    BY <1>6, <2>1, <2>2 DEF WorkerStep, OwnStep
<1>7. ASSUME NEW t \in Thread, NEW batch \in SUBSET Post, Persist(t, batch)
      PROVE  UNCHANGED <<known, inbox>>
  BY <1>7 DEF Persist, schedVars
<1>8. ASSUME Crash \/ ShutdownEnds \/ LoadFull PROVE MemoryLost /\ process' \in {"down", "failed"}
  BY <1>8 DEF Crash, ShutdownEnds, LoadFull
<1>9. ASSUME Shutdown \/ Restart \/ Recover \/ Tick \/ UNCHANGED vars PROVE UNCHANGED <<known, inbox>>
  BY <1>9 DEF Shutdown, Restart, Recover, Tick, vars, schedVars, Sched!SetStop, Sched!TellStop,
              Sched!queueVars
<1>10. ASSUME NEW c \in Client, ClientStep(c)
       PROVE  \/ SubmitLook(c) \/ Refuse(c) \/ ResumeRow(c) \/ ResumeRoute(c)
              \/ EnqueueItem(c) \/ CancelForget(c) \/ EnqueueCall(c) \/ EnqueueFull(c)
  BY <1>10 DEF ClientStep
<1> QED
  BY <1>1, <1>2, <1>3, <1>4, <1>5, <1>6, <1>7, <1>8, <1>9, <1>10 DEF Next

\* One item of the loop under the condition: it waits afterwards, or a worker
\* of the process has it already.
LEMMA HeadListed ==
  ASSUME SchedP!IInv, Sched!SkipKnown \/ Sched!Enqueue, NEW n \in DOMAIN inbox
  PROVE  \/ \E m \in DOMAIN inbox' : inbox'[m] = inbox[n]
         \/ inbox[n].job \in Jobs(known')
         \/ inbox[n].job \in Jobs(active)
<1>0. inbox \in Seq(Item)
  BY DEF SchedP!IInv, SchedP!RestType
<1>1. inbox # <<>> /\ inbox' = Tail(inbox)
  BY DEF Sched!SkipKnown, Sched!Enqueue, Sched!Advance
<1>2. /\ Len(inbox) \in Nat /\ DOMAIN inbox = 1..Len(inbox) /\ Head(inbox) = inbox[1]
      /\ DOMAIN Tail(inbox) = 1..(Len(inbox) - 1)
      /\ \A m \in 1..(Len(inbox) - 1) : Tail(inbox)[m] = inbox[m + 1]
  BY <1>0, <1>1, EmptySeq, LenProperties, HeadTailProperties
<1>3. CASE n = 1
  <2>1. CASE Sched!SkipKnown
    BY <1>2, <1>3, <2>1 DEF Sched!SkipKnown, Sched!IsKnown, Sched!Jobs, Jobs, Sched!queueVars
  <2>2. CASE Sched!Enqueue
    <3>1. inbox[n] \in known'
      BY <1>2, <1>3, <2>2 DEF Sched!Enqueue
    <3> QED
      BY <3>1 DEF Jobs
  <2> QED
    BY <2>1, <2>2
<1>4. CASE n # 1
  <2>1. n - 1 \in 1..(Len(inbox) - 1) /\ (n - 1) + 1 = n
    BY <1>2, <1>4
  <2> QED
    BY <1>1, <1>2, <2>1
<1> QED
  BY <1>3, <1>4

\* What waits goes on to wait, is taken by a worker, or is withdrawn by the
\* client that has cancelled it.
LEMMA KnownStays ==
  ASSUME Typed, FaithInv, OwnersInv, PendingInv, WithdrawnInv, [Next]_vars,
         process' \notin {"down", "failed"}, NEW i \in known, InTime(i.job)
  PROVE  \/ i \in known'
         \/ \E t \in Thread : task'[t] = "taken" /\ held'[t] = i
<1>0. /\ ClientInv /\ SchedP!IInv /\ task \in [Thread -> TaskName]
      /\ held \in [Thread -> Item \union {NoItem}]
  BY DEF Typed, TaskInv, SchedP!IInv, SchedP!SlotType
<1>1. ASSUME NEW t \in Thread, TakeJob(t) PROVE i \in known' \/ (task'[t] = "taken" /\ held'[t] = i)
  <2>1. /\ task' = [task EXCEPT ![t] = "taken"]
        /\ \E k \in known : held' = [held EXCEPT ![t] = k] /\ known' = known \ {k}
    BY <1>0, <1>1, TakenItem
  <2> QED
    BY <1>0, <2>1
<1>2. ASSUME NEW c \in Client, CancelForget(c) PROVE i \in known'
  <2>1. client[c].step = "cancelled" /\ Sched!Withdraw(client[c].job)
    BY <1>2 DEF CancelForget
  <2>2. i.job # client[c].job
    BY <2>1 DEF WithdrawnInv, InTime
  <2>3. known' = known \/ \E k \in known : k.job = client[c].job /\ known' = known \ {k}
    BY <2>1 DEF Sched!Withdraw, Sched!Removed, Sched!queueVars
  <2> QED
    BY <2>2, <2>3
<1>3. ASSUME NEW c \in Client, EnqueueCall(c) \/ EnqueueFull(c) PROVE i \in known'
  BY <1>3 DEF EnqueueCall, EnqueueFull, Sched!Submit, Sched!Overflow, Sched!queueVars
<1>4. ASSUME Sched!SkipKnown \/ Sched!Enqueue PROVE i \in known'
  BY <1>4 DEF Sched!SkipKnown, Sched!Enqueue, Sched!queueVars
<1>5. ASSUME Load PROVE i \in known'
  BY <1>5 DEF Load
<1> QED
  BY <1>0, <1>1, <1>2, <1>3, <1>4, <1>5, QueueShape

\* A row in time that the process knows of stays known to it.
LEMMA AwaitedStays ==
  ASSUME "resume" \notin Calls, Typed, FaithInv, OwnersInv, PendingInv, WithdrawnInv, PastInv, PastInv',
         [Next]_vars, \A c \in Client : ~EnqueueFull(c), process' \notin {"down", "failed"}, ~Load,
         NEW j \in JobId, InTime(j), InTime(j)', Awaited(j)
  PROVE  Awaited(j)'
<1>0. /\ ClientInv /\ SchedP!IInv /\ inbox \in Seq(Item)
      /\ \A t \in Thread : task[t] = "none" <=> held[t] = NoItem
  BY DEF Typed, TaskInv, SchedP!IInv, SchedP!RestType
<1>1. CASE j \in Jobs(known)
  <2>1. PICK i \in known : i.job = j
    BY <1>1 DEF Jobs
  <2>2. i \in known' \/ \E t \in Thread : task'[t] = "taken" /\ held'[t] = i
    BY <2>1, KnownStays
  <2> QED
    BY <2>1, <2>2 DEF Awaited, Jobs, Mine
<1>2. ASSUME NEW n \in DOMAIN inbox, inbox[n].job = j PROVE Awaited(j)'
  <2>1. CASE UNCHANGED <<known, inbox>>
    BY <1>2, <2>1 DEF Awaited
  <2>2. ASSUME NEW t \in Thread, TakeJob(t) PROVE Awaited(j)'
    <3>1. inbox' = inbox
      BY <1>0, <2>2, TakenItem
    <3> QED
      BY <1>2, <3>1 DEF Awaited
  <2>3. ASSUME NEW c \in Client, CancelForget(c) \/ EnqueueCall(c) PROVE FALSE
    <3>1. inbox = <<>>
      BY <2>3 DEF CancelForget, EnqueueCall, Sched!Withdraw, Sched!Submit, Sched!LockFree
    <3> QED
      BY <1>2, <3>1
  <2>4. CASE (Sched!SkipKnown \/ Sched!Enqueue) /\ UNCHANGED <<task, held>>
    <3>1. CASE \E m \in DOMAIN inbox' : inbox'[m] = inbox[n]
      BY <1>2, <3>1 DEF Awaited
    <3>2. CASE inbox[n].job \in Jobs(known')
      BY <1>2, <3>2 DEF Awaited
    <3>3. CASE inbox[n].job \in Jobs(active)
      <4>1. PICK i \in active : i.job = j
        BY <1>2, <3>3 DEF Jobs
      <4>2. PICK t \in Thread : held[t] = i /\ held[t] # NoItem
        BY <1>0 DEF SchedP!IInv, SchedP!ExclusiveSlots
      <4>3. Mine(t) = j /\ task[t] # "none"
        BY <1>0, <4>1, <4>2 DEF Mine
      <4>4. task[t] = "taken"
        BY <4>3 DEF PastInv
      <4> QED
        BY <2>4, <4>3, <4>4 DEF Awaited, Mine
    <3> QED
      BY <1>0, <2>4, <3>1, <3>2, <3>3, HeadListed
  <2> QED
    BY <1>0, <2>1, <2>2, <2>3, <2>4, QueueShape
<1>3. ASSUME NEW c \in Client, client[c].step \in {"admitted", "batched"},
             NEW n \in DOMAIN client[c].items, client[c].items[n].job = j
      PROVE  Awaited(j)'
  <2>1. CASE client'[c] = client[c]
    BY <1>3, <2>1 DEF Awaited
  <2>2. CASE EnqueueCall(c)
    <3>1. inbox' = client[c].items
      BY <2>2 DEF EnqueueCall, Sched!Submit
    <3> QED
      BY <1>3, <3>1 DEF Awaited
  <2>3. ~ClientStep(c) \/ EnqueueCall(c)
    BY <1>3 DEF ClientStep, SubmitLook, EnqueueItem, EnqueueFull, Refuse, CancelForget, ResumeRow,
                ResumeRoute
  <2>4. /\ \A q : ~SubmitCall(c, q)
        /\ \A batch : ~BatchCall(c, batch)
        /\ \A k : ~CancelCall(c, k) /\ ~ResumeCall(c, k)
    BY <1>3 DEF SubmitCall, BatchCall, CancelCall, ResumeCall, Begins
  <2> QED
    BY <1>0, <2>1, <2>2, <2>3, <2>4, OwnShape
<1>4. ASSUME NEW t \in Thread, task[t] = "taken", Mine(t) = j PROVE Awaited(j)'
  <2>1. CASE task'[t] = task[t] /\ held'[t] = held[t]
    BY <1>4, <2>1 DEF Awaited, Mine
  <2>2. CASE LeaseStep(t) /\ held'[t] = held[t]
    <3>1. held'[t].job = j
      BY <1>4, <2>2 DEF Mine
    <3>2. task'[t] \in {"collecting", "done"}
      BY <2>2 DEF LeaseStep, Moves, Typed, TaskInv
    <3> QED
      BY <3>1, <3>2 DEF PastInv, Mine, InTime
  <2> QED
    BY <1>4, <2>1, <2>2, TaskMoves
<1> QED
  BY <1>1, <1>2, <1>3, <1>4 DEF Awaited

\* A process serves or loads because it did, or because it begins to load.
LEMMA ProcessServes ==
  ASSUME ProcessInv, [Next]_vars, ~Load, process' \in {"serving", "loading"}
  PROVE  process \in {"serving", "loading"}
<1>1. CASE UNCHANGED process
  BY <1>1
<1>2. CASE process \in {"recovering", "requeued", "loading"} /\ UNCHANGED <<epoch, task>>
  <2>1. CASE process \in {"recovering", "requeued"} /\ process' # process
    BY <2>1 DEF Next, SubmitCall, BatchCall, CancelCall, ResumeCall, DeleteCall, ClientStep, SubmitLook,
                EnqueueCall, EnqueueItem, EnqueueFull, Refuse, CancelForget, ResumeRow, ResumeRoute,
                WorkerStep, OwnStep, TakeJob, LoopStep, LeaseStep, Heartbeat, NoticeCancel, Returns,
                FinishStep, CancelledStep, FailedStep, RateLimitedStep, ReadBack, LeaveJob, Reports,
                Persist, Crash, Shutdown, ShutdownEnds, Restart, Recover, LoadItem, LoadFull, Tick, vars
  <2> QED
    BY <1>2, <2>1
<1>3. CASE Restart
  BY <1>3 DEF Restart
<1> QED
  BY <1>1, <1>2, <1>3, ProcessShape

\* A row that is admitted is in the hands of the client that has admitted it.
LEMMA AdmittedAwaits ==
  ASSUME Typed, [Next]_vars, NEW c \in Client, NEW j \in JobId,
         jobs[j].status = "absent", jobs'[j].status = "queued",
         \/ \E q \in Request : SubmitCall(c, q)
         \/ \E batch \in SUBSET Request : BatchCall(c, batch)
  PROVE  /\ client'[c].step \in {"admitted", "batched"}
         /\ \E n \in DOMAIN client'[c].items : client'[c].items[n].job = j
<1>0. client \in [Client -> ClientRecord] /\ jobs \in [JobId -> StoreP!Row] /\ jobs'[j] # jobs[j]
  BY DEF Typed, ClientInv, StoreP!RowInv, StoreP!TypeOK
<1>1. ASSUME NEW q \in Request, SubmitCall(c, q)
      PROVE  client'[c] = [step |-> "admitted", job |-> j, items |-> <<ItemOf(j, q)>>]
  <2>1. PICK k \in JobId : /\ Store!AdmitJob(q, k)
                           /\ client' = [client EXCEPT ![c] =
                                [step |-> "admitted", job |-> k, items |-> <<ItemOf(k, q)>>]]
    BY <1>0, <1>1 DEF SubmitCall, storeVars
  <2>2. PICK r : jobs' = [jobs EXCEPT ![k] = r]
    BY <2>1 DEF Store!AdmitJob
  <2>3. k = j
    BY <1>0, <2>2
  <2> QED
    BY <1>0, <2>1, <2>3
<1>2. ASSUME NEW q \in Request, SubmitCall(c, q)
      PROVE  /\ client'[c].step = "admitted"
             /\ \E n \in DOMAIN client'[c].items : client'[c].items[n].job = j
  <2> DEFINE r == [step |-> "admitted", job |-> j, items |-> <<ItemOf(j, q)>>]
  <2>1. client'[c].step = "admitted" /\ client'[c].items = <<ItemOf(j, q)>>
    <3>1. r.step = "admitted" /\ r.items = <<ItemOf(j, q)>>
      OBVIOUS
    <3>2. client'[c] = r
      BY <1>1, <1>2
    <3> HIDE DEF r
    <3> QED
      BY <3>1, <3>2
  <2> HIDE DEF r
  <2>2. 1 \in DOMAIN client'[c].items /\ client'[c].items[1] = ItemOf(j, q)
    BY <2>1
  <2> QED
    BY <2>1, <2>2 DEF ItemOf
<1>3. ASSUME NEW batch \in SUBSET Request, BatchCall(c, batch)
      PROVE  /\ client'[c].step = "batched"
             /\ \E n \in DOMAIN client'[c].items : client'[c].items[n].job = j
  <2>1. jobs'[j].req \in batch
    <3>1. PICK b : Store!AdmitBatch(batch, b)
      BY <1>0, <1>3 DEF BatchCall, storeVars
    <3> DEFINE new == Store!NewItems(batch)
    <3>2. PICK n \in 1..MaxSequence : \E f \in Store!Placement(new, n) :
             jobs' = [k \in JobId |->
                        IF \E q \in new : f[q].id = k
                          THEN LET q == CHOOSE r \in new : f[r].id = k
                               IN  Store!AdmittedRow(q, batch, f[q].seq)
                          ELSE jobs[k]]
      BY <3>1 DEF Store!AdmitBatch
    <3>3. PICK f \in Store!Placement(new, n) :
             jobs' = [k \in JobId |->
                        IF \E q \in new : f[q].id = k
                          THEN LET q == CHOOSE r \in new : f[r].id = k
                               IN  Store!AdmittedRow(q, batch, f[q].seq)
                          ELSE jobs[k]]
      BY <3>2
    <3>4. PICK q \in new : jobs'[j] = Store!AdmittedRow(q, batch, f[q].seq)
      BY <1>0, <3>3
    <3>5. Store!AdmittedRow(q, batch, f[q].seq).req = q /\ q \in batch
      BY <3>4 DEF Store!AdmittedRow, Store!NoRow, Store!NewItems
    <3> QED
      BY <3>4, <3>5
  <2>2. StoreP!RowInv' /\ StoreP!SequenceUnique'
    BY TableKept
  <2>3. \A k \in JobId : jobs'[k] \in StoreP!Row
    BY <2>2 DEF StoreP!RowInv, StoreP!TypeOK
  <2>4. \A k \in JobId : jobs'[k].seq \in Nat
    BY <2>3 DEF StoreP!Row
  <2>5. \A k, m \in JobId : jobs'[k].status = "queued" /\ jobs'[m].status = "queued"
                              /\ jobs'[k].seq = jobs'[m].seq => k = m
    BY <2>2 DEF StoreP!SequenceUnique, StoreP!Present, StoreP!JobStatus, StoreP!Active
  <2>6. \E n \in DOMAIN BatchItems(jobs', batch) :
          BatchItems(jobs', batch)[n] = ItemOf(j, jobs'[j].req)
    BY <2>1, <2>4, <2>5, BatchListed
  <2>7. client'[c] = [step |-> "batched", job |-> 0, items |-> BatchItems(jobs', batch)]
    BY <1>0, <1>3 DEF BatchCall
  <2>8. client'[c].step = "batched" /\ client'[c].items = BatchItems(jobs', batch)
    BY <2>7
  <2> QED
    BY <2>6, <2>8 DEF ItemOf
<1> QED
  BY <1>2, <1>3

LEMMA AwaitedKept ==
  ASSUME "resume" \notin Calls, Typed, FaithInv, OwnersInv, PendingInv, ListedInv, PastInv', [Next]_vars,
         \A c \in Client : ~EnqueueFull(c)
  PROVE  AwaitedInv'
<1> SUFFICES ASSUME process' \in {"serving", "loading"}, NEW j \in JobId, InTime(j)'
             PROVE  Awaited(j)'
  BY DEF AwaitedInv
<1>1. CASE Load
  <2>1. inbox' = QueuedList /\ jobs' = jobs /\ now' = now
    BY <1>1 DEF Load, storeVars
  <2>2. j \in Queued
    BY <2>1 DEF Queued, InTime, ListedInv, CancelledInv
  <2>3. \A k \in JobId : jobs[k].status = "queued" => jobs[k].req \in Request
    BY DEF Typed, ReqInv
  <2>4. \E n \in DOMAIN QueuedList : QueuedList[n] = ItemOf(j, jobs[j].req)
    BY <2>2, <2>3, QueueListed DEF Typed, StoreP!RowInv
  <2> QED
    BY <2>1, <2>4 DEF Awaited, ItemOf
<1>2. CASE ~Load
  <2>1. process \in {"serving", "loading"}
    BY <1>2, ProcessServes DEF Typed
  <2>2. CASE jobs[j].status = "absent"
    <3>1. \E c \in Client : \/ \E q \in Request : SubmitCall(c, q)
                            \/ \E batch \in SUBSET Request : BatchCall(c, batch)
      BY <2>1, <2>2, QueuedComes DEF InTime, Recover
    <3> QED
      BY <2>2, <3>1, AdmittedAwaits DEF InTime, Awaited
  <2>3. CASE jobs[j].status # "absent"
    <3>1. InTime(j)
      BY <2>1, <2>3, InTimeBefore
    <3>2. Awaited(j)
      BY <2>1, <3>1 DEF ListedInv, AwaitedInv
    <3> QED
      BY <1>2, <3>1, <3>2, AwaitedStays DEF ListedInv
  <2> QED
    BY <2>2, <2>3
<1> QED
  BY <1>1, <1>2

LEMMA ListedStart == Init => ListedInv
<1> SUFFICES ASSUME Init PROVE ListedInv
  OBVIOUS
<1>1. \A j \in JobId : jobs[j].status = "absent"
  BY DEF Init, Store!NoRow
<1>2. \A c \in Client : client[c].step = "idle"
  BY DEF Init, Idle
<1>3. \A t \in Thread : task[t] = "none"
  BY DEF Init
<1> QED
  BY <1>1, <1>2, <1>3
     DEF ListedInv, CancelledInv, AwaitedInv, WithdrawnInv, PastInv, InTime

LEMMA ListedKept ==
  ASSUME "resume" \notin Calls, Typed, FaithInv, OwnersInv, PendingInv, ListedInv, [Next]_vars,
         [\A c \in Client : ~EnqueueFull(c)]_vars,
         [\A t \in Thread : LeaseStep(t) => ~DeadLease(Mine(t))]_vars
  PROVE  ListedInv'
<1>1. CASE UNCHANGED vars
  BY <1>1 DEF vars, storeVars, schedVars, ListedInv, CancelledInv, AwaitedInv, WithdrawnInv, PastInv,
              InTime, Awaited, Mine, Jobs
<1>2. CASE /\ \A c \in Client : ~EnqueueFull(c)
           /\ \A t \in Thread : LeaseStep(t) => ~DeadLease(Mine(t))
  <2>1. PastInv'
    BY <1>2, PastKept DEF ListedInv
  <2> QED
    BY <1>2, <2>1, AwaitedKept, CancelledKept, WithdrawnKept DEF ListedInv
<1> QED
  BY <1>1, <1>2

\* The queue in memory and the table tell of the same queued rows.  There are
\* three ways to leave a row behind, and no race beside them: a resumption,
\* whose routing and queueing come after its row; a submission that is refused
\* at the queue after its admission was committed; and a lease that an earlier
\* process has left, on which the worker drops the row.  Without these three
\* every interleaving of submissions, cancellations, deletions, workers,
\* crashes, shutdowns and recoveries keeps the two alike.
THEOREM QueueMatched ==
  ASSUME "resume" \notin Calls
  PROVE  /\ Spec
         /\ [][\A c \in Client : ~EnqueueFull(c)]_vars
         /\ [][\A t \in Thread : LeaseStep(t) => ~DeadLease(Mine(t))]_vars
         => []QueueMatchesTable
<1> DEFINE I == Typed /\ OwnersInv /\ FaithInv /\ PendingInv /\ ListedInv
           Fits == \A c \in Client : ~EnqueueFull(c)
           Clear == \A t \in Thread : LeaseStep(t) => ~DeadLease(Mine(t))
<1>1. I /\ [Next]_vars /\ [Fits]_vars /\ [Clear]_vars => I'
  BY TypesKept, OwnersKept, FaithKept, PendingKept, ListedKept
<1>2. Init => I
  BY TypesStart, OwnersStart, FaithStart, PendingStart, ListedStart
<1>3. I => QueueMatchesTable
  <2> SUFFICES ASSUME I PROVE QueueMatchesTable
    OBVIOUS
  <2>1. PendingIsQueued
    BY DEF PendingInv, WaitsQueued, PendingIsQueued
  <2>2. ASSUME Quiet, NEW j \in JobId, InTime(j) PROVE j \in Jobs(known)
    <3>1. Awaited(j)
      BY <2>2 DEF Quiet, ListedInv, AwaitedInv
    <3>2. DOMAIN inbox = {}
      BY <2>2 DEF Quiet, Sched!LockFree
    <3> QED
      BY <2>2, <3>1, <3>2 DEF Awaited, Quiet
  <2>3. NoStrandedJob
    BY <2>2 DEF NoStrandedJob, InTime
  <2> QED
    BY <2>1, <2>3 DEF QueueMatchesTable
<1> QED
  BY <1>1, <1>2, <1>3, PTL DEF Spec
=============================================================================
