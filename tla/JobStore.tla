------------------------------ MODULE JobStore ------------------------------
(***************************************************************************)
(* The durable jobs table of xworkbench/storage.py.                        *)
(*                                                                         *)
(* Every action is one committed SQLite transaction of class Storage.  The *)
(* module says nothing about who calls them: workers, HTTP handlers and    *)
(* the start-up recovery may interleave in any order, and a process may    *)
(* die between any two transactions, so whatever is proved here holds for  *)
(* every caller.  JobService restricts the calls to those the program      *)
(* makes.                                                                  *)
(***************************************************************************)
EXTENDS Integers, FiniteSets

CONSTANTS
  JobId,         \* row ids; a uuid4 is never reused, so an id is used once
  Legacy,        \* the ids that a version 1-3 database had before migration
  Request,       \* admissible requests: the identity of an admission
  LegacyRequest, \* the request of a migrated row
  Worker,        \* lease owners
  Post,          \* post ids a provider may return
  ReportedCode,  \* error codes that providers report
  SavedSource,   \* ids of the sources table; other sources are fingerprints
  Capacity,      \* queue_capacity of the admissions
  MaxTime,       \* bound of the clock
  MaxSequence,   \* bound of enqueue_sequence
  MaxAttempts,   \* bound of attempt_number
  MaxUsage,      \* bound of the official resource count
  NoKey, NoBatch, NoWorker, NoRequest

\* The values that the properties tell apart among the error codes.
NoCode        == "none"
NotResumable  == {"rate_limited", "session_expired"}
NotRequeued   == NotResumable \union {"login_required"}
Code          == NotRequeued \union
                 {NoCode, "cancelled", "interrupted", "deadline_exceeded", "provider_error"}

Active    == {"queued", "running", "waiting"}
Terminal  == {"succeeded", "partial", "failed", "cancelled", "interrupted"}
JobStatus == Active \union Terminal
NoStatus  == "none"   \* a saved source that no job has used

\* julianday(NULL) is never greater than a time: 0 stands for a NULL expiry.
NoTime == 0
Time   == 1..MaxTime

\* (snapshot_at, snapshot_partial), both NULL until a row is terminal.
NoSnapshot == [at |-> NoTime, partial |-> FALSE]
Snapshot   == [at : {NoTime} \union Time, partial : BOOLEAN]

\* What the admission identity holds beside the key and the batch.
RequestShape(q) == DOMAIN q = {"key", "batch", "source", "auth", "priority", "deadline"}

ASSUME JobStoreAssumption ==
  /\ JobId \subseteq Nat /\ IsFiniteSet(JobId) /\ Legacy \subseteq JobId
  /\ IsFiniteSet(Request) /\ IsFiniteSet(Post)
  /\ \A q \in Request \union {LegacyRequest} : RequestShape(q)
  /\ \A q \in Request \union {LegacyRequest} : q.deadline \in Time
  /\ LegacyRequest.key = NoKey /\ LegacyRequest.batch = NoBatch
  /\ NoRequest \notin Request \union {LegacyRequest}
  /\ NoWorker \notin Worker
  /\ ReportedCode \subseteq NotRequeued \union {"provider_error"}
  /\ Capacity \in Nat /\ MaxTime \in Nat \ {0} /\ MaxSequence \in Nat
  /\ MaxAttempts \in Nat /\ MaxUsage \in Nat

VARIABLES
  jobs,  \* the jobs table: a row per id
  obs,   \* the post_observations table
  fts,   \* the (job, post) pairs of the post_observations_fts index
  lastStatus, \* sources.last_status of every saved source
  now    \* the wall clock

storeVars == <<jobs, obs, fts, lastStatus, now>>

-----------------------------------------------------------------------------
(* Rows.  An id without a row has status "absent"; a deleted row leaves a   *)
(* tombstone, which no operation reads: its request and manifest are kept   *)
(* as history for the properties.                                           *)

NoRow == [status    |-> "absent", req     |-> NoRequest, manifest |-> {},
          seq       |-> 0,        cancel  |-> FALSE,     code     |-> NoCode,
          retryable |-> FALSE,    collected |-> 0,       attempt  |-> 0,
          segment   |-> -1,       deadline |-> NoTime,   owner    |-> NoWorker,
          expiry    |-> NoTime,   snapshot |-> NoSnapshot, usage  |-> 0]

Row == [status    : JobStatus \union {"absent", "deleted"},
        req       : Request \union {LegacyRequest, NoRequest},
        manifest  : SUBSET Request,
        seq       : Nat,
        cancel    : BOOLEAN,
        code      : Code,
        retryable : BOOLEAN,
        collected : Nat,
        attempt   : Nat,
        segment   : Nat \union {-1},
        deadline  : {NoTime} \union Time,
        owner     : Worker \union {NoWorker},
        expiry    : {NoTime} \union Time,
        snapshot  : Snapshot,
        usage     : Nat]

Observation == [job : JobId, post : Post, position : Nat, segment : Nat \union {-1}]

Present == {j \in JobId : jobs[j].status \in JobStatus}
InState(S) == {j \in JobId : jobs[j].status \in S}
Posts(j) == {o.post : o \in {p \in obs : p.job = j}}

\* UPDATE sources SET last_status = status WHERE id = source_id
Marked(source, status) ==
  IF source \in SavedSource THEN [lastStatus EXCEPT ![source] = status] ELSE lastStatus

\* Mutant: the next number is taken from the row count.
NextSequenceByCount(n) == n \in 1..MaxSequence /\ n = Cardinality(Present) + 1

\* Storage._next_enqueue_sequence: n is MAX(enqueue_sequence) + 1.
NextSequence(n) ==
  /\ n \in 1..MaxSequence
  /\ \A j \in Present : jobs[j].seq < n
  /\ n = 1 \/ \E j \in Present : jobs[j].seq = n - 1

\* A migrated database: terminal rows get their old finish time as snapshot
\* and as deadline, active ones a fresh deadline, and the attempt number is
\* rebuilt from the capture segment.
LegacyRow ==
  {r \in [status : JobStatus, req : {LegacyRequest}, manifest : {{}}, seq : 1..Cardinality(Legacy),
          cancel : BOOLEAN, code : Code, retryable : BOOLEAN, collected : {0, 1},
          attempt : {0, 1}, segment : {-1, 0}, deadline : {1, LegacyRequest.deadline},
          owner : {NoWorker}, expiry : {NoTime},
          snapshot : {NoSnapshot} \union [at : {1}, partial : BOOLEAN], usage : {0}] :
     /\ r.attempt = r.segment + 1
     /\ r.cancel => r.status \in Active \union {"cancelled"}
     /\ IF r.status \in Terminal
          THEN /\ r.deadline = 1
               /\ r.snapshot = [at |-> 1, partial |-> \/ r.status = "partial"
                                                      \/ r.status # "succeeded" /\ r.collected > 0]
          ELSE r.deadline = LegacyRequest.deadline /\ r.snapshot = NoSnapshot}

Init ==
  /\ jobs \in [JobId -> LegacyRow \union {NoRow}]
  /\ \A j \in JobId : jobs[j] # NoRow <=> j \in Legacy
  /\ \A j, k \in Legacy : j # k => jobs[j].seq # jobs[k].seq
  /\ obs \in SUBSET {[job |-> j, post |-> p, position |-> 0, segment |-> jobs[j].segment] :
                        j \in Legacy, p \in Post}
  /\ \A j \in Legacy : Cardinality(Posts(j)) = jobs[j].collected
  /\ fts = {<<o.job, o.post>> : o \in obs}
  /\ lastStatus = [s \in SavedSource |-> NoStatus]
  /\ now = 1

-----------------------------------------------------------------------------
(* Admission *)

\* Mutant: a finished row frees its key.
ExistingActive(q) == {j \in InState(Active) : q.key # NoKey /\ jobs[j].req.key = q.key}

\* Storage._existing_admission: the row that holds the key of q.
Existing(q) == {j \in Present : q.key # NoKey /\ jobs[j].req.key = q.key}

\* "idempotency_key was already used for a different job."
KeyClash(q) == \E j \in Existing(q) : jobs[j].req # q

\* Storage._insert_admission
AdmittedRow(q, manifest, seq) ==
  [NoRow EXCEPT !.status = "queued", !.req = q, !.manifest = manifest, !.seq = seq,
                !.deadline = q.deadline]

Unused(j) == jobs[j].status = "absent"

\* Storage.admit_job that returns "created".
AdmitJob(q, j) ==
  /\ q.batch = NoBatch /\ q.deadline > now
  /\ Existing(q) = {}
  /\ Cardinality(InState(Active)) < Capacity
  /\ Unused(j)
  /\ \E n \in 1..MaxSequence :
       NextSequence(n) /\ jobs' = [jobs EXCEPT ![j] = AdmittedRow(q, {}, n)]
  /\ lastStatus' = Marked(q.source, "queued")
  /\ UNCHANGED <<obs, fts, now>>

\* Mutant: an earlier manifest of the batch is not compared.
ManifestIgnored(batch, b) == TRUE

\* "batch_id was already used with a different manifest."
ManifestAgrees(batch, b) == \A j \in Present : jobs[j].req.batch = b => jobs[j].manifest = batch

\* The items of a batch that get a row: those whose key has none.
NewItems(batch) == {q \in batch : Existing(q) = {}}

\* An assignment of row ids and of consecutive sequence numbers to new items.
Placement(new, n) ==
  {f \in [new -> [id : JobId, seq : n..(n + Cardinality(new) - 1)]] :
     /\ \A q \in new : Unused(f[q].id)
     /\ \A q, r \in new : q # r => f[q].id # f[r].id /\ f[q].seq # f[r].seq}

\* Storage.admit_batch that returns "admitted": every item or none.
AdmitBatch(batch, b) ==
  /\ batch # {} /\ b # NoBatch
  /\ \A q \in batch : q.batch = b /\ q.key # NoKey /\ q.deadline > now /\ ~KeyClash(q)
  /\ \A q, r \in batch : q.key = r.key => q = r
  /\ ManifestAgrees(batch, b)
  /\ LET new == NewItems(batch) IN
     /\ new # {}
     /\ Cardinality(InState(Active)) + Cardinality(new) <= Capacity
     /\ \E n \in 1..MaxSequence :
          /\ NextSequence(n) /\ n + Cardinality(new) - 1 <= MaxSequence
          /\ \E f \in Placement(new, n) :
               jobs' = [j \in JobId |->
                          IF \E q \in new : f[q].id = j
                            THEN LET q == CHOOSE r \in new : f[r].id = j
                                 IN  AdmittedRow(q, batch, f[q].seq)
                            ELSE jobs[j]]
     /\ lastStatus' = [s \in SavedSource |->
                         IF \E q \in new : q.source = s THEN "queued" ELSE lastStatus[s]]
  /\ UNCHANGED <<obs, fts, now>>

-----------------------------------------------------------------------------
(* Leases *)

\* The source of a row is its saved source id or, without one, its fingerprint.
SameSource(j, k) == jobs[j].req.source = jobs[k].req.source
SameAuth(j, k)   == jobs[j].req.auth = jobs[k].req.auth

\* A running row whose lease has not expired blocks its source and its auth state.
LeaseConflict(j) ==
  \E k \in Present \ {j} :
    /\ jobs[k].status = "running" /\ jobs[k].owner # NoWorker /\ jobs[k].expiry > now
    /\ SameAuth(j, k) \/ SameSource(j, k)

\* Mutant: the cancellation flag is not looked at.
ClaimableCancelled(j) == jobs[j].status = "queued" /\ jobs[j].deadline > now

Claimable(j) == jobs[j].status = "queued" /\ ~jobs[j].cancel /\ jobs[j].deadline > now

CanLease(j, expiry) == Claimable(j) /\ expiry <= jobs[j].deadline /\ ~LeaseConflict(j)

StartedRow(r, w, expiry) ==
  [r EXCEPT !.status = "running", !.code = NoCode, !.retryable = FALSE,
            !.attempt = @ + 1, !.segment = @ + 1, !.owner = w, !.expiry = expiry]

\* Storage.lease_job that returns a row.
LeaseJob(j, w, expiry) ==
  /\ CanLease(j, expiry) /\ expiry > now /\ jobs[j].attempt < MaxAttempts
  /\ jobs' = [jobs EXCEPT ![j] = StartedRow(@, w, expiry)]
  /\ lastStatus' = Marked(jobs[j].req.source, "running")
  /\ UNCHANGED <<obs, fts, now>>

\* Storage.claim_job: a start without a lease, for callers without an owner.
ClaimJob(j) ==
  /\ Claimable(j) /\ jobs[j].attempt < MaxAttempts
  /\ jobs' = [jobs EXCEPT ![j] = StartedRow(@, @.owner, @.expiry)]
  /\ lastStatus' = Marked(jobs[j].req.source, "running")
  /\ UNCHANGED <<obs, fts, now>>

\* Mutant: the approved deadline does not bound the renewal.
CanHeartbeatPastDeadline(j, w, expiry) ==
  jobs[j].status = "running" /\ jobs[j].owner = w /\ ~jobs[j].cancel

CanHeartbeat(j, w, expiry) ==
  /\ jobs[j].status = "running" /\ jobs[j].owner = w /\ ~jobs[j].cancel
  /\ expiry <= jobs[j].deadline

\* Storage.heartbeat_job that returns True; an expired lease is no obstacle.
HeartbeatJob(j, w, expiry) ==
  /\ CanHeartbeat(j, w, expiry) /\ expiry > now
  /\ jobs' = [jobs EXCEPT ![j].expiry = expiry]
  /\ UNCHANGED <<obs, fts, lastStatus, now>>

-----------------------------------------------------------------------------
(* Persisted batches *)

Writable(j) == jobs[j].status = "running" /\ ~jobs[j].cancel

\* Mutant: the first new post skips a position.
PositionsOffByOne(j, new) ==
  {f \in [new -> (jobs[j].collected + 1)..(jobs[j].collected + Cardinality(new))] :
     \A p, q \in new : p # q => f[p] # f[q]}

\* Positions for the posts of a batch that the row does not have yet.
Positions(j, new) ==
  {f \in [new -> jobs[j].collected..(jobs[j].collected + Cardinality(new) - 1)] :
     \A p, q \in new : p # q => f[p] # f[q]}

\* Mutant: a repeated post replaces its earlier observation.
AddPostsReplacing(j, batch, used) ==
  /\ Writable(j) /\ jobs[j].segment >= 0 /\ jobs[j].usage + used <= MaxUsage
  /\ \E f \in Positions(j, batch) :
       obs' = {o \in obs : o.job # j \/ o.post \notin batch}
              \union {[job |-> j, post |-> p, position |-> f[p],
                       segment |-> jobs[j].segment] : p \in batch}
  /\ jobs' = [jobs EXCEPT ![j].collected = @ + Cardinality(batch), ![j].usage = @ + used]
  /\ fts' = fts \union {<<j, p>> : p \in batch}
  /\ UNCHANGED <<lastStatus, now>>

\* Storage.add_posts on a running row: the batch, its index entries, the
\* count and the resources commit together; a capture without a segment is refused.
AddPosts(j, batch, used) ==
  /\ Writable(j) /\ jobs[j].segment >= 0 /\ jobs[j].usage + used <= MaxUsage
  /\ LET new == batch \ Posts(j) IN
     /\ jobs' = [jobs EXCEPT ![j].collected = @ + Cardinality(new), ![j].usage = @ + used]
     /\ \E f \in Positions(j, new) :
          obs' = obs \union {[job |-> j, post |-> p, position |-> f[p],
                              segment |-> jobs[j].segment] : p \in new}
     /\ fts' = fts \union {<<j, p>> : p \in new}
  /\ UNCHANGED <<lastStatus, now>>

\* Storage.record_cancelled_official_usage that returns True.
RecordCancelledUsage(j, used) ==
  /\ jobs[j].status = "cancelled" /\ jobs[j].cancel /\ jobs[j].usage + used <= MaxUsage
  /\ jobs' = [jobs EXCEPT ![j].usage = @ + used]
  /\ UNCHANGED <<obs, fts, lastStatus, now>>

-----------------------------------------------------------------------------
(* Terminal transitions *)

\* What Storage._transition_job writes: a cancellation that was requested
\* wins over every other target, and a wait becomes terminal at once.
Outcome(r, target, code, retryable) ==
  IF r.cancel
    THEN [status |-> "cancelled", code |-> "cancelled", retryable |-> TRUE]
  ELSE IF target = "waiting"
    THEN [status |-> IF r.collected > 0 THEN "partial" ELSE "failed",
          code |-> "rate_limited", retryable |-> FALSE]
  ELSE [status |-> target, code |-> code, retryable |-> retryable]

\* Mutant: only the status "partial" marks a snapshot as partial.
TransitionedWhole(r, target, code, retryable, time) ==
  LET o == Outcome(r, target, code, retryable) IN
  [r EXCEPT !.status = o.status, !.code = o.code, !.retryable = o.retryable,
            !.cancel = @ \/ o.status = "cancelled", !.owner = NoWorker, !.expiry = NoTime,
            !.snapshot = [at |-> time, partial |-> o.status = "partial"]]

TransitionedRow(r, target, code, retryable, time) ==
  LET o == Outcome(r, target, code, retryable) IN
  [r EXCEPT !.status    = o.status,
            !.code      = o.code,
            !.retryable = o.retryable,
            !.cancel    = @ \/ o.status = "cancelled",
            !.snapshot  = IF @ # NoSnapshot THEN @
                          ELSE [at |-> time,
                                partial |-> \/ o.status = "partial"
                                            \/ o.status # "succeeded" /\ r.collected > 0],
            !.owner     = NoWorker,
            !.expiry    = NoTime]

\* w is NoWorker when the caller names no lease owner.
CanTransition(j, allowed, w) == jobs[j].status \in allowed /\ w \in {NoWorker, jobs[j].owner}

\* Mutant: the saved source is not told.
TransitionUnmarked(j, allowed, target, code, retryable, w) ==
  /\ CanTransition(j, allowed, w)
  /\ jobs' = [jobs EXCEPT ![j] = TransitionedRow(@, target, code, retryable, now)]
  /\ UNCHANGED <<obs, fts, lastStatus, now>>

Transition(j, allowed, target, code, retryable, w) ==
  /\ CanTransition(j, allowed, w)
  /\ jobs' = [jobs EXCEPT ![j] = TransitionedRow(@, target, code, retryable, now)]
  /\ lastStatus' = Marked(jobs[j].req.source, Outcome(jobs[j], target, code, retryable).status)
  /\ UNCHANGED <<obs, fts, now>>

FinishJob(j, partial, w) ==
  Transition(j, {"running"}, IF partial THEN "partial" ELSE "succeeded", NoCode, FALSE, w)

\* The (status, code, retryable) triples that JobService fails a job with: its
\* own, for a storage error of its callbacks, and those of the providers.
Failure ==
  {[status |-> "interrupted", code |-> "interrupted", retryable |-> TRUE],
   [status |-> "cancelled", code |-> "cancelled", retryable |-> TRUE]}
  \union [status : {"failed", "partial"}, code : {"provider_error"}, retryable : {TRUE}]
  \union [status : {"failed", "partial"}, code : ReportedCode \ NotResumable, retryable : BOOLEAN]
  \union [status : {"failed", "partial"}, code : ReportedCode, retryable : {FALSE}]

\* Mutant: status and error code change places.
FailJobSwapped(j, f, w) == Transition(j, Active, f.code, f.status, f.retryable, w)

\* Mutant: an interrupted row may still be failed.
FailJobInterrupted(j, f, w) ==
  Transition(j, Active \union {"interrupted"}, f.status, f.code, f.retryable, w)

FailJob(j, f, w) == Transition(j, Active, f.status, f.code, f.retryable, w)

WaitJob(j, w) == Transition(j, {"running"}, "waiting", "rate_limited", FALSE, w)

RequestCancel(j) == Transition(j, Active, "cancelled", "cancelled", TRUE, NoWorker)

-----------------------------------------------------------------------------
(* Resumption, recovery, deletion *)

\* Mutant: the codes that need a new approval do not matter.
CanResumeAnyCode(j) ==
  /\ \/ jobs[j].status \in {"cancelled", "interrupted", "partial"}
     \/ jobs[j].status = "failed" /\ jobs[j].retryable
  /\ jobs[j].deadline > now

CanResume(j) ==
  /\ \/ jobs[j].status \in {"cancelled", "interrupted", "partial"}
     \/ jobs[j].status = "failed" /\ jobs[j].retryable
  /\ jobs[j].code \notin NotResumable
  /\ jobs[j].deadline > now

\* Mutant: a resumed row keeps its old place in the queue.
ResumeInPlace(j) ==
  /\ CanResume(j)
  /\ jobs' = [jobs EXCEPT ![j] =
                [@ EXCEPT !.status = "queued", !.cancel = FALSE, !.code = NoCode,
                          !.retryable = FALSE, !.snapshot = NoSnapshot]]
  /\ UNCHANGED <<obs, fts, lastStatus, now>>

\* Storage.resume_job: the row goes behind every other row.
ResumeJob(j) ==
  /\ CanResume(j)
  /\ \E n \in 1..MaxSequence :
       /\ NextSequence(n)
       /\ jobs' = [jobs EXCEPT ![j] =
                     [@ EXCEPT !.status = "queued", !.cancel = FALSE, !.code = NoCode,
                               !.retryable = FALSE, !.snapshot = NoSnapshot,
                               !.owner = NoWorker, !.expiry = NoTime, !.seq = n]]
  /\ UNCHANGED <<obs, fts, lastStatus, now>>

Blocked(j) == jobs[j].deadline <= now \/ jobs[j].code \in NotRequeued

\* The first pass of Storage.recover_jobs, a transaction per active row.
RecoverRow(j) ==
  \/ /\ jobs[j].cancel
     /\ Transition(j, Active, "cancelled", "cancelled", TRUE, NoWorker)
  \/ /\ ~jobs[j].cancel /\ jobs[j].status = "waiting"
     /\ Transition(j, {"waiting"}, "waiting", "rate_limited", FALSE, NoWorker)
  \/ /\ ~jobs[j].cancel /\ jobs[j].status # "waiting" /\ Blocked(j)
     /\ Transition(j, Active, IF jobs[j].collected > 0 THEN "partial" ELSE "failed",
                   IF jobs[j].code \in NotRequeued THEN jobs[j].code ELSE "deadline_exceeded",
                   FALSE, NoWorker)

\* A running row that the last statement of Storage.recover_jobs requeues.
\* An unexpired lease is left to its owner.
Abandoned(j) ==
  /\ jobs[j].status = "running" /\ ~jobs[j].cancel /\ jobs[j].deadline > now
  /\ jobs[j].owner = NoWorker \/ jobs[j].expiry <= now

RequeuedRow(r) ==
  [r EXCEPT !.status = "queued", !.code = "interrupted", !.retryable = TRUE,
            !.owner = NoWorker, !.expiry = NoTime]

RequeueAbandoned ==
  /\ \E j \in JobId : Abandoned(j)
  /\ jobs' = [j \in JobId |-> IF Abandoned(j) THEN RequeuedRow(jobs[j]) ELSE jobs[j]]
  /\ UNCHANGED <<obs, fts, lastStatus, now>>

Tombstone(r) == [NoRow EXCEPT !.status = "deleted", !.req = r.req, !.manifest = r.manifest]

\* Mutant: the text index is forgotten, it has no foreign key.
DeleteKeepsIndex(S) ==
  /\ jobs' = [j \in JobId |-> IF j \in S THEN Tombstone(jobs[j]) ELSE jobs[j]]
  /\ obs' = {o \in obs : o.job \notin S}
  /\ UNCHANGED <<fts, lastStatus, now>>

\* Rows, their observations (ON DELETE CASCADE) and their index entries go together.
Delete(S) ==
  /\ jobs' = [j \in JobId |-> IF j \in S THEN Tombstone(jobs[j]) ELSE jobs[j]]
  /\ obs' = {o \in obs : o.job \notin S}
  /\ fts' = {e \in fts : e[1] \notin S}
  /\ UNCHANGED <<lastStatus, now>>

DeleteJob(j) == jobs[j].status \in Terminal /\ Delete({j})

\* Mutant: the order of the retention rank is reversed.
Older(j) ==
  {k \in InState(Terminal) \ {j} : SameSource(j, k) /\ jobs[k].snapshot.at < jobs[j].snapshot.at}

\* The terminal rows of the source of j that rank before j: newer, or as
\* new with a greater id.
Newer(j) ==
  {k \in InState(Terminal) \ {j} :
     /\ SameSource(j, k)
     /\ \/ jobs[k].snapshot.at > jobs[j].snapshot.at
        \/ jobs[k].snapshot.at = jobs[j].snapshot.at /\ k > j}

\* Storage.purge_snapshots without a cut-off; cutoff limits it to older rows.
Purged(keep, cutoff) ==
  {j \in InState(Terminal) : Cardinality(Newer(j)) >= keep /\ jobs[j].snapshot.at < cutoff}

PurgeSnapshots(keep, cutoff) == Purged(keep, cutoff) # {} /\ Delete(Purged(keep, cutoff))

Tick == now < MaxTime /\ now' = now + 1 /\ UNCHANGED <<jobs, obs, fts, lastStatus>>

-----------------------------------------------------------------------------
Next ==
  \/ \E q \in Request, j \in JobId : AdmitJob(q, j)
  \/ \E batch \in SUBSET Request : \E b \in {q.batch : q \in batch} : AdmitBatch(batch, b)
  \/ \E j \in JobId, w \in Worker, e \in Time : LeaseJob(j, w, e) \/ HeartbeatJob(j, w, e)
  \/ \E j \in JobId, batch \in SUBSET Post, u \in 0..MaxUsage : AddPosts(j, batch, u)
  \/ \E j \in JobId, u \in 1..MaxUsage : RecordCancelledUsage(j, u)
  \/ \E j \in JobId, partial \in BOOLEAN, w \in Worker \union {NoWorker} : FinishJob(j, partial, w)
  \/ \E j \in JobId, f \in Failure, w \in Worker \union {NoWorker} : FailJob(j, f, w)
  \/ \E j \in JobId, w \in Worker \union {NoWorker} : WaitJob(j, w)
  \/ \E j \in JobId :
       ClaimJob(j) \/ RequestCancel(j) \/ ResumeJob(j) \/ RecoverRow(j) \/ DeleteJob(j)
  \/ RequeueAbandoned
  \/ \E keep \in 0..Cardinality(JobId), cutoff \in 1..(MaxTime + 1) : PurgeSnapshots(keep, cutoff)
  \/ Tick

Spec == Init /\ [][Next]_storeVars

-----------------------------------------------------------------------------
(* Properties *)

\* Every column holds a value of its domain.
TypeOK ==
  /\ jobs \in [JobId -> Row]
  /\ obs \subseteq Observation
  /\ fts \subseteq JobId \X Post
  /\ lastStatus \in [SavedSource -> JobStatus \union {NoStatus}]
  /\ now \in Time

\* A lease exists only on a running row and never reaches past the approved
\* deadline: every way out of "running" gives the lease back.
LeaseWithinDeadline ==
  \A j \in JobId :
    /\ jobs[j].owner = NoWorker <=> jobs[j].expiry = NoTime
    /\ jobs[j].owner # NoWorker => /\ jobs[j].status = "running"
                                   /\ jobs[j].expiry <= jobs[j].deadline

\* A row has snapshot metadata exactly while it is terminal, and a snapshot
\* that is not marked partial is a success or holds no post.
SnapshotMatchesStatus ==
  \A j \in Present :
    /\ jobs[j].status \in Terminal <=> jobs[j].snapshot # NoSnapshot
    /\ jobs[j].status \in Terminal /\ jobs[j].collected > 0 =>
         (jobs[j].snapshot.partial \/ jobs[j].status = "succeeded")

\* The observations of a row sit at positions 0..collected-1 without a gap,
\* and a later position never belongs to an earlier capture segment: resumed
\* captures extend the sequence of the ones before.
PositionsContiguous ==
  \A j \in JobId :
    LET mine == {o \in obs : o.job = j} IN
    /\ {o.position : o \in mine} = 0..(jobs[j].collected - 1)
    /\ \A o, p \in mine : o.position = p.position => o = p
    /\ \A o, p \in mine : o.post = p.post => o = p
    /\ \A o, p \in mine : o.position <= p.position => o.segment <= p.segment
    /\ \A o \in mine : o.segment <= jobs[j].segment

\* The text index holds exactly the stored observations, whatever was deleted.
IndexMirrorsObservations == fts = {<<o.job, o.post>> : o \in obs}

\* enqueue_sequence is unique among the rows, however admissions, batches,
\* resumptions and deletions of the newest row interleave.
SequenceUnique == \A j, k \in Present : jobs[j].seq = jobs[k].seq => j = k

\* An idempotency key belongs to one row and so to one request.
OneRowPerKey ==
  \A j, k \in Present : jobs[j].req.key # NoKey /\ jobs[j].req.key = jobs[k].req.key => j = k

\* A batch is admitted whole: for every row of a batch each request of its
\* manifest was admitted under the same manifest (and perhaps deleted since),
\* and two manifests never share a batch while one of them still has rows.
BatchAdmittedWhole ==
  /\ \A j \in JobId : \A q \in jobs[j].manifest :
       \E k \in JobId : jobs[k].req = q /\ jobs[k].manifest = jobs[j].manifest
  /\ \A j, k \in Present : jobs[j].req.batch # NoBatch /\ jobs[j].req.batch = jobs[k].req.batch
                             => jobs[j].manifest = jobs[k].manifest

\* A saved source that is shown as queued or running has a job that is
\* neither finished nor deleted: no interleaving of several jobs of a source
\* leaves an active status behind.
LastStatusHonest ==
  \A s \in SavedSource :
    lastStatus[s] \in Active => \E j \in InState(Active) : jobs[j].req.source = s

\* A cancellation that was requested is never lost: a row that carries the
\* flag while it is active (a migrated one) ends as cancelled and nothing
\* else happens to it, and a cancelled row leaves that state only by a
\* resumption, which clears the flag, or by deletion.
CancellationWins ==
  [][\A j \in Present : jobs[j].cancel =>
       \/ jobs'[j].status = "deleted"
       \/ jobs'[j].status \in {jobs[j].status, "cancelled"} /\ jobs'[j].attempt = jobs[j].attempt
       \/ jobs[j].status = "cancelled" /\ jobs'[j].status = "queued" /\ ~jobs'[j].cancel]_storeVars

\* A terminal snapshot is immutable: until it is resumed or deleted, nothing of a
\* terminal row changes but the resource count of a cancelled official capture,
\* whatever late worker, heartbeat or recovery still refers to it.
TerminalImmutable ==
  [][\A j \in InState(Terminal) :
       \/ jobs'[j].status \in {"queued", "deleted"}
       \/ jobs'[j] = jobs[j]
       \/ jobs[j].cancel /\ jobs'[j] = [jobs[j] EXCEPT !.usage = jobs'[j].usage]]_storeVars

\* "A rate limit ends the current job as partial or failed and nonretryable;
\* any later attempt is a new approved capture": such a row is never queued again.
RateLimitIsFinal ==
  [][\A j \in InState(Terminal \union {"waiting"}) :
       jobs[j].code \in NotResumable /\ ~jobs[j].cancel
         => jobs'[j].status \in Terminal \union {jobs[j].status, "deleted"}]_storeVars

\* Stored observations are evidence: none is changed, moved or removed while
\* its row exists.
ObservationsAppendOnly ==
  [][\A o \in obs : o \in obs' \/ jobs'[o.job].status = "deleted"]_storeVars

\* A row that starts to wait in the queue stands behind every other row, and
\* one that the recovery requeues keeps its place.
QueueOrderKept ==
  [][\A j \in JobId : jobs'[j].status = "queued" /\ jobs[j].status # "queued" =>
       IF jobs[j].status = "running" THEN jobs'[j].seq = jobs[j].seq
       ELSE \A k \in Present : jobs'[j].seq > jobs[k].seq]_storeVars

\* A purge keeps the `keep` newest terminal snapshots of every source and never
\* selects a job that is not terminal.
PurgeKeepsNewest ==
  [][\A keep \in 0..Cardinality(JobId), cutoff \in 1..(MaxTime + 1) :
       PurgeSnapshots(keep, cutoff) =>
         \A j \in Present :
           LET left == {k \in JobId : /\ jobs[k].status \in Terminal /\ SameSource(j, k)
                                      /\ jobs'[k].status = jobs[k].status}
           IN  jobs'[j].status = "deleted" =>
                 /\ jobs[j].status \in Terminal
                 /\ Cardinality(left) >= keep
                 /\ \A k \in left : jobs[k].snapshot.at >= jobs[j].snapshot.at]_storeVars
=============================================================================
