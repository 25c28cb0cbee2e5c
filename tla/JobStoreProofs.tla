--------------------------- MODULE JobStoreProofs ---------------------------
(***************************************************************************)
(* Theorems of JobStore for every value of its constants: any number of    *)
(* rows, requests, workers, posts and instants.                            *)
(*                                                                         *)
(* Types come first.  Most theorems after them speak of one row at a time: *)
(* RowStep says what any transaction may do to a row; that every           *)
(* transaction obeys it is proved once (NextRow), and the theorems follow  *)
(* from RowStep alone.                                                     *)
(***************************************************************************)
EXTENDS JobStore, Counting

-----------------------------------------------------------------------------
(* Types *)

\* The literals that the operators write belong to the column domains.
LEMMA Literals ==
  /\ JobStatus = Active \union Terminal /\ NoCode \in Code /\ "cancelled" \in Code
  /\ "interrupted" \in Code /\ "rate_limited" \in Code /\ "deadline_exceeded" \in Code
  /\ {"queued", "running", "waiting"} = Active
  /\ {"succeeded", "partial", "failed", "cancelled", "interrupted"} = Terminal
  /\ {NoTime} \union Time \subseteq Nat /\ NoSnapshot \in Snapshot
BY JobStoreAssumption
   DEF JobStatus, Active, Terminal, Code, NoCode, NotRequeued, NotResumable, NoTime, Time,
       NoSnapshot, Snapshot

-----------------------------------------------------------------------------
(* What the row operators return *)

\* An id without a row is a row value too.
LEMMA NoRowType == NoRow \in Row
BY Literals DEF NoRow, Row

\* _insert_admission writes a well-typed row.
LEMMA AdmittedRowType ==
  ASSUME NEW q \in Request, NEW manifest \in SUBSET Request, NEW n \in Nat
  PROVE  AdmittedRow(q, manifest, n) \in Row
<1>1. q.deadline \in Time
  BY JobStoreAssumption
<1>2. QED
  BY <1>1, NoRowType, Literals DEF AdmittedRow, Row

\* Overwriting the columns of a start keeps the row type.
LEMMA RowUpdate ==
  ASSUME NEW r \in Row, NEW status \in JobStatus, NEW code \in Code, NEW retryable \in BOOLEAN,
         NEW attempt \in Nat, NEW segment \in Nat \union {-1},
         NEW w \in Worker \union {NoWorker}, NEW e \in {NoTime} \union Time
  PROVE  [r EXCEPT !.status = status, !.code = code, !.retryable = retryable,
                   !.attempt = attempt, !.segment = segment, !.owner = w, !.expiry = e] \in Row
BY ZenonT(60) DEF Row

\* So does overwriting the columns of a requeue.
LEMMA RequeueUpdate ==
  ASSUME NEW r \in Row, NEW status \in JobStatus, NEW code \in Code, NEW retryable \in BOOLEAN,
         NEW w \in Worker \union {NoWorker}, NEW e \in {NoTime} \union Time
  PROVE  [r EXCEPT !.status = status, !.code = code, !.retryable = retryable,
                   !.owner = w, !.expiry = e] \in Row
BY DEF Row

\* So does overwriting the columns of a resumption.
LEMMA ResumeUpdate ==
  ASSUME NEW r \in Row, NEW status \in JobStatus, NEW cancel \in BOOLEAN, NEW code \in Code,
         NEW retryable \in BOOLEAN, NEW snapshot \in Snapshot,
         NEW w \in Worker \union {NoWorker}, NEW e \in {NoTime} \union Time, NEW n \in Nat
  PROVE  [r EXCEPT !.status = status, !.cancel = cancel, !.code = code,
                   !.retryable = retryable, !.snapshot = snapshot,
                   !.owner = w, !.expiry = e, !.seq = n] \in Row
BY ZenonT(60) DEF Row

\* lease_job and claim_job write a well-typed row.
LEMMA StartedRowType ==
  ASSUME NEW r \in Row, NEW w \in Worker \union {NoWorker}, NEW e \in {NoTime} \union Time
  PROVE  StartedRow(r, w, e) \in Row
<1>1. r.attempt + 1 \in Nat /\ r.segment + 1 \in Nat \union {-1}
  BY DEF Row
<1>2. "running" \in JobStatus /\ NoCode \in Code /\ FALSE \in BOOLEAN
  BY Literals
<1>3. QED
  BY <1>1, <1>2, RowUpdate, ZenonT(60) DEF StartedRow

\* Whatever the target of a transition, it ends in a status.
LEMMA OutcomeType ==
  ASSUME NEW r \in Row, NEW target \in JobStatus, NEW code \in Code, NEW retryable \in BOOLEAN
  PROVE  /\ Outcome(r, target, code, retryable).status \in JobStatus
         /\ Outcome(r, target, code, retryable).code \in Code
         /\ Outcome(r, target, code, retryable).retryable \in BOOLEAN
BY Literals DEF Outcome

\* _transition_job writes a well-typed row.
LEMMA TransitionedRowType ==
  ASSUME NEW r \in Row, NEW target \in JobStatus, NEW code \in Code,
         NEW retryable \in BOOLEAN, NEW time \in Time
  PROVE  TransitionedRow(r, target, code, retryable, time) \in Row
<1> DEFINE o == Outcome(r, target, code, retryable)
<1>1. o.status \in JobStatus /\ o.code \in Code /\ o.retryable \in BOOLEAN
  BY OutcomeType
<1> HIDE DEF o
<1>2. QED
  <2>1. r.cancel \in BOOLEAN /\ r.snapshot \in Snapshot
    BY DEF Row
  <2> DEFINE c == r.cancel \/ o.status = "cancelled"
             s == IF r.snapshot # NoSnapshot THEN r.snapshot
                  ELSE [at |-> time,
                        partial |-> \/ o.status = "partial"
                                    \/ o.status # "succeeded" /\ r.collected > 0]
  <2>2. c \in BOOLEAN /\ s \in Snapshot
    BY <2>1, Literals DEF Snapshot
  <2>3. TransitionedRow(r, target, code, retryable, time)
          = [r EXCEPT !.status = o.status, !.code = o.code, !.retryable = o.retryable,
                      !.cancel = c, !.snapshot = s, !.owner = NoWorker, !.expiry = NoTime]
    BY DEF TransitionedRow, o
  <2> HIDE DEF c, s
  <2>4. QED
    BY <1>1, <2>2, <2>3, Literals, ZenonT(60) DEF Row

\* A deleted row leaves a value of the row type.
LEMMA TombstoneType ==
  ASSUME NEW r \in Row
  PROVE  Tombstone(r) \in Row
<1>1. r.req \in Request \union {LegacyRequest, NoRequest} /\ r.manifest \in SUBSET Request
  BY DEF Row
<1>2. QED
  BY <1>1, NoRowType, ZenonT(60) DEF Tombstone, Row

\* A migrated row is a row.
LEMMA LegacyRowType == LegacyRow \subseteq Row
<1> SUFFICES ASSUME NEW r \in LegacyRow PROVE r \in Row
  OBVIOUS
<1>1. IsFiniteSet(Legacy) /\ Cardinality(Legacy) \in Nat
  BY JobStoreAssumption, FS_Subset, FS_CardinalityType
<1>2. {1, LegacyRequest.deadline} \subseteq {NoTime} \union Time
  BY JobStoreAssumption DEF Time
<1>3. 1 \in Time
  BY JobStoreAssumption DEF Time
<1>4. {NoSnapshot} \union [at : {1}, partial : BOOLEAN] \subseteq Snapshot
  <2>1. NoSnapshot \in Snapshot
    BY Literals
  <2>2. ASSUME NEW s \in [at : {1}, partial : BOOLEAN] PROVE s \in Snapshot
    BY <1>3 DEF Snapshot
  <2>3. QED
    BY <2>1, <2>2
<1> DEFINE snapshots == {NoSnapshot} \union [at : {1}, partial : BOOLEAN]
           deadlines == {1, LegacyRequest.deadline}
           seqs == 1..Cardinality(Legacy)
<1>5. r \in [status : JobStatus, req : {LegacyRequest}, manifest : {{}},
             seq : seqs, cancel : BOOLEAN, code : Code, retryable : BOOLEAN,
             collected : {0, 1}, attempt : {0, 1}, segment : {-1, 0}, deadline : deadlines,
             owner : {NoWorker}, expiry : {NoTime}, snapshot : snapshots, usage : {0}]
  BY DEF LegacyRow
<1>6. /\ deadlines \subseteq {NoTime} \union Time /\ snapshots \subseteq Snapshot
      /\ seqs \subseteq Nat /\ NoTime \in {NoTime} \union Time
  BY <1>1, <1>2, <1>4 DEF snapshots, deadlines, seqs
<1> HIDE DEF snapshots, deadlines, seqs
<1>7. /\ r.status \in JobStatus /\ r.req = LegacyRequest /\ r.manifest = {}
      /\ r.seq \in seqs /\ r.cancel \in BOOLEAN /\ r.code \in Code
      /\ r.retryable \in BOOLEAN /\ r.collected \in {0, 1} /\ r.attempt \in {0, 1}
      /\ r.segment \in {-1, 0} /\ r.deadline \in deadlines /\ r.owner = NoWorker
      /\ r.expiry = NoTime /\ r.snapshot \in snapshots /\ r.usage = 0
  BY <1>5
<1>8. r = [status |-> r.status, req |-> r.req, manifest |-> r.manifest, seq |-> r.seq,
           cancel |-> r.cancel, code |-> r.code, retryable |-> r.retryable,
           collected |-> r.collected, attempt |-> r.attempt, segment |-> r.segment,
           deadline |-> r.deadline, owner |-> r.owner, expiry |-> r.expiry,
           snapshot |-> r.snapshot, usage |-> r.usage]
  BY <1>5
<1>9. /\ r.seq \in Nat /\ r.collected \in Nat /\ r.attempt \in Nat
      /\ r.segment \in Nat \union {-1} /\ r.usage \in Nat
  <2>1. {0, 1} \subseteq Nat /\ {-1, 0} \subseteq Nat \union {-1}
    OBVIOUS
  <2>2. QED
    BY <1>6, <1>7, <2>1
<1>10. /\ r.deadline \in {NoTime} \union Time /\ r.snapshot \in Snapshot
       /\ r.expiry \in {NoTime} \union Time
  BY <1>6, <1>7
<1>11. QED
  BY <1>7, <1>8, <1>9, <1>10 DEF Row

-----------------------------------------------------------------------------
(* Type correctness *)

\* Overwriting the row of an id keeps the table well typed.
LEMMA TableUpdate ==
  ASSUME jobs \in [JobId -> Row], NEW j \in JobId, NEW r \in Row
  PROVE  [jobs EXCEPT ![j] = r] \in [JobId -> Row]
OBVIOUS

\* Marking a source with a status keeps the sources table well typed.
LEMMA MarkedType ==
  ASSUME lastStatus \in [SavedSource -> JobStatus \union {NoStatus}],
         NEW source, NEW status \in JobStatus
  PROVE  Marked(source, status) \in [SavedSource -> JobStatus \union {NoStatus}]
BY DEF Marked

\* Every transition to a terminal state keeps the table and the sources well typed.
LEMMA TransitionType ==
  ASSUME TypeOK, NEW j \in JobId, NEW allowed, NEW target \in JobStatus, NEW code \in Code,
         NEW retryable \in BOOLEAN, NEW w, Transition(j, allowed, target, code, retryable, w)
  PROVE  TypeOK'
<1>1. jobs[j] \in Row /\ now \in Time
  BY DEF TypeOK
<1>2. TransitionedRow(jobs[j], target, code, retryable, now) \in Row
  BY <1>1, TransitionedRowType
<1>3. Outcome(jobs[j], target, code, retryable).status \in JobStatus
  BY <1>1, OutcomeType
<1>4. jobs' \in [JobId -> Row]
  BY <1>2 DEF Transition, TypeOK
<1>5. lastStatus' \in [SavedSource -> JobStatus \union {NoStatus}]
  BY <1>3, MarkedType DEF Transition, TypeOK
<1>6. QED
  BY <1>4, <1>5 DEF Transition, TypeOK

\* Removing a set of rows with what hangs on them keeps the tables well typed.
LEMMA DeleteType ==
  ASSUME TypeOK, NEW S, Delete(S)
  PROVE  TypeOK'
<1>1. \A j \in JobId : Tombstone(jobs[j]) \in Row
  BY TombstoneType DEF TypeOK
<1>2. jobs' \in [JobId -> Row]
  BY <1>1 DEF Delete, TypeOK
<1>3. QED
  BY <1>2 DEF Delete, TypeOK

\* A job is failed with a status, a code and a flag.
LEMMA FailureType ==
  ASSUME NEW f \in Failure
  PROVE  f.status \in JobStatus /\ f.code \in Code /\ f.retryable \in BOOLEAN
<1>1. ReportedCode \subseteq Code
  BY JobStoreAssumption DEF Code
<1>2. CASE \/ f = [status |-> "interrupted", code |-> "interrupted", retryable |-> TRUE]
           \/ f = [status |-> "cancelled", code |-> "cancelled", retryable |-> TRUE]
  <2>1. /\ f.status \in {"interrupted", "cancelled"} /\ f.code \in {"interrupted", "cancelled"}
        /\ f.retryable = TRUE
    BY <1>2
  <2>2. QED
    BY <2>1, Literals
<1>3. CASE f \in [status : {"failed", "partial"}, code : ReportedCode \ NotResumable,
                  retryable : BOOLEAN]
  <2>1. f.status \in {"failed", "partial"} /\ f.code \in ReportedCode /\ f.retryable \in BOOLEAN
    BY <1>3
  <2>2. QED
    BY <1>1, <2>1, Literals
<1>4. CASE f \in [status : {"failed", "partial"}, code : ReportedCode, retryable : {FALSE}]
  <2>1. f.status \in {"failed", "partial"} /\ f.code \in ReportedCode /\ f.retryable = FALSE
    BY <1>4
  <2>2. QED
    BY <1>1, <2>1, Literals
<1>5. CASE f \in [status : {"failed", "partial"}, code : {"provider_error"}, retryable : {TRUE}]
  <2>1. f.status \in {"failed", "partial"} /\ f.code = "provider_error" /\ f.retryable = TRUE
    BY <1>5
  <2>2. QED
    BY <2>1, Literals DEF Code
<1>6. QED
  BY <1>2, <1>3, <1>4, <1>5 DEF Failure

\* The initial table holds migrated rows only.
LEMMA InitType == Init => TypeOK
<1> SUFFICES ASSUME Init PROVE TypeOK
  OBVIOUS
<1>1. jobs \in [JobId -> Row]
  BY LegacyRowType, NoRowType DEF Init
<1>2. obs \subseteq Observation
  <2>1. \A j \in Legacy : j \in JobId /\ jobs[j].segment \in Nat \union {-1}
    BY <1>1, JobStoreAssumption DEF Row
  <2>2. QED
    BY <2>1 DEF Init, Observation
<1>3. fts \subseteq JobId \X Post
  BY <1>2 DEF Init, Observation
<1>4. lastStatus \in [SavedSource -> JobStatus \union {NoStatus}]
  BY DEF Init
<1>5. now \in Time
  BY JobStoreAssumption DEF Init, Time
<1>6. QED
  BY <1>1, <1>2, <1>3, <1>4, <1>5 DEF TypeOK

\* No transaction writes a value outside the domain of its column.
LEMMA NextType == TypeOK /\ [Next]_storeVars => TypeOK'
<1> SUFFICES ASSUME TypeOK, [Next]_storeVars PROVE TypeOK'
  OBVIOUS
<1>1. ASSUME NEW q \in Request, NEW j \in JobId, AdmitJob(q, j)
      PROVE  TypeOK'
  <2>1. PICK n \in 1..MaxSequence : jobs' = [jobs EXCEPT ![j] = AdmittedRow(q, {}, n)]
    BY <1>1 DEF AdmitJob
  <2>2. n \in Nat
    BY JobStoreAssumption
  <2>3. AdmittedRow(q, {}, n) \in Row
    BY <2>2, AdmittedRowType
  <2>4. jobs' \in [JobId -> Row]
    BY <2>1, <2>3 DEF TypeOK
  <2>5. lastStatus' \in [SavedSource -> JobStatus \union {NoStatus}]
    BY <1>1, Literals, MarkedType DEF AdmitJob, TypeOK
  <2>6. QED
    BY <1>1, <2>4, <2>5 DEF AdmitJob, TypeOK
<1>2. ASSUME NEW batch \in SUBSET Request, NEW b, AdmitBatch(batch, b)
      PROVE  TypeOK'
  <2> DEFINE new == NewItems(batch)
  <2>1. IsFiniteSet(new) /\ Cardinality(new) \in Nat /\ new \subseteq Request
    BY JobStoreAssumption, FS_Subset, FS_CardinalityType DEF NewItems
  <2>2. PICK n \in 1..MaxSequence : \E g \in Placement(new, n) :
               jobs' = [j \in JobId |->
                          IF \E q \in new : g[q].id = j
                            THEN LET q == CHOOSE r \in new : g[r].id = j
                                 IN  AdmittedRow(q, batch, g[q].seq)
                            ELSE jobs[j]]
    BY <1>2 DEF AdmitBatch
  <2>3. PICK f \in Placement(new, n) :
               jobs' = [j \in JobId |->
                          IF \E q \in new : f[q].id = j
                            THEN LET q == CHOOSE r \in new : f[r].id = j
                                 IN  AdmittedRow(q, batch, f[q].seq)
                            ELSE jobs[j]]
    BY <2>2
  <2>4. \A q \in new : f[q].seq \in Nat
    BY <2>1, JobStoreAssumption DEF Placement
  <2> HIDE DEF new
  <2>5. ASSUME NEW j \in JobId PROVE jobs'[j] \in Row
    <3>1. CASE \E q \in new : f[q].id = j
      <4> DEFINE c == CHOOSE r \in new : f[r].id = j
      <4>1. c \in new
        BY <3>1
      <4>2. jobs'[j] = AdmittedRow(c, batch, f[c].seq)
        BY <2>3, <3>1
      <4> HIDE DEF c
      <4>3. c \in Request /\ f[c].seq \in Nat
        BY <2>1, <2>4, <4>1
      <4>4. QED
        BY <4>2, <4>3, AdmittedRowType
    <3>2. CASE ~\E q \in new : f[q].id = j
      BY <2>3, <3>2 DEF TypeOK
    <3>3. QED
      BY <3>1, <3>2
  <2>6. jobs' \in [JobId -> Row]
    BY <2>3, <2>5
  <2>7. lastStatus' \in [SavedSource -> JobStatus \union {NoStatus}]
    BY <1>2, Literals DEF AdmitBatch, TypeOK
  <2>8. QED
    BY <1>2, <2>6, <2>7 DEF AdmitBatch, TypeOK
<1>3. ASSUME NEW j \in JobId, NEW w \in Worker, NEW e \in Time, LeaseJob(j, w, e)
      PROVE  TypeOK'
  <2>1. StartedRow(jobs[j], w, e) \in Row
    BY StartedRowType DEF TypeOK
  <2>2. jobs' \in [JobId -> Row]
    BY <1>3, <2>1 DEF LeaseJob, TypeOK
  <2>3. lastStatus' \in [SavedSource -> JobStatus \union {NoStatus}]
    BY <1>3, Literals, MarkedType DEF LeaseJob, TypeOK
  <2>4. QED
    BY <1>3, <2>2, <2>3 DEF LeaseJob, TypeOK
<1>4. ASSUME NEW j \in JobId, NEW w \in Worker, NEW e \in Time, HeartbeatJob(j, w, e)
      PROVE  TypeOK'
  <2>1. [jobs[j] EXCEPT !.expiry = e] \in Row
    BY DEF TypeOK, Row
  <2>2. jobs' = [jobs EXCEPT ![j] = [jobs[j] EXCEPT !.expiry = e]]
    BY <1>4 DEF HeartbeatJob, TypeOK
  <2>3. jobs' \in [JobId -> Row]
    BY <2>1, <2>2 DEF TypeOK
  <2>4. QED
    BY <1>4, <2>3 DEF HeartbeatJob, TypeOK
<1>5. ASSUME NEW j \in JobId, NEW batch \in SUBSET Post, NEW u \in 0..MaxUsage,
             AddPosts(j, batch, u)
      PROVE  TypeOK'
  <2> DEFINE new == batch \ Posts(j)
  <2>1. Cardinality(new) \in Nat /\ u \in Nat
    BY JobStoreAssumption, FS_Subset, FS_CardinalityType
  <2>2. jobs' = [jobs EXCEPT ![j] = [jobs[j] EXCEPT !.collected = @ + Cardinality(new),
                                                   !.usage = @ + u]]
    BY <1>5 DEF AddPosts, TypeOK
  <2>3. PICK f \in Positions(j, new) :
          obs' = obs \union {[job |-> j, post |-> p, position |-> f[p],
                              segment |-> jobs[j].segment] : p \in new}
    BY <1>5 DEF AddPosts
  <2>4. fts' = fts \union {<<j, p>> : p \in new}
    BY <1>5 DEF AddPosts
  <2>5. jobs[j] \in Row /\ new \subseteq Post
    BY DEF TypeOK
  <2> HIDE DEF new
  <2>6. jobs[j].collected + Cardinality(new) \in Nat /\ jobs[j].usage + u \in Nat
    BY <2>1, <2>5 DEF Row
  <2>7. jobs' \in [JobId -> Row]
    <3> DEFINE c == jobs[j].collected + Cardinality(new)
               v == jobs[j].usage + u
    <3>1. jobs' = [jobs EXCEPT ![j] = [jobs[j] EXCEPT !.collected = c, !.usage = v]]
      BY <2>2
    <3>2. c \in Nat /\ v \in Nat
      BY <2>6
    <3> HIDE DEF c, v
    <3>3. [jobs[j] EXCEPT !.collected = c, !.usage = v] \in Row
      BY <2>5, <3>2 DEF Row
    <3>4. QED
      BY <3>1, <3>3 DEF TypeOK
  <2>8. obs' \subseteq Observation
    <3>1. \A p \in new : f[p] \in Nat
      BY <2>1, <2>5 DEF Positions, Row
    <3>2. jobs[j].segment \in Nat \union {-1}
      BY <2>5 DEF Row
    <3>3. QED
      BY <2>3, <2>5, <3>1, <3>2 DEF Observation, TypeOK
  <2>9. fts' \subseteq JobId \X Post
    BY <2>4, <2>5 DEF TypeOK
  <2>10. QED
    BY <1>5, <2>7, <2>8, <2>9 DEF AddPosts, TypeOK
<1>6. ASSUME NEW j \in JobId, NEW u \in 1..MaxUsage, RecordCancelledUsage(j, u)
      PROVE  TypeOK'
  <2>1. jobs[j] \in Row
    BY DEF TypeOK
  <2>2. jobs[j].usage + u \in Nat
    BY <2>1, JobStoreAssumption DEF Row
  <2>3. [jobs[j] EXCEPT !.usage = @ + u] \in Row
    BY <2>1, <2>2 DEF Row
  <2>4. jobs' = [jobs EXCEPT ![j] = [jobs[j] EXCEPT !.usage = @ + u]]
    BY <1>6 DEF RecordCancelledUsage, TypeOK
  <2>5. jobs' \in [JobId -> Row]
    BY <2>3, <2>4 DEF TypeOK
  <2>6. QED
    BY <1>6, <2>5 DEF RecordCancelledUsage, TypeOK
<1>7. ASSUME NEW j \in JobId, NEW partial \in BOOLEAN, NEW w, FinishJob(j, partial, w)
      PROVE  TypeOK'
  <2>1. (IF partial THEN "partial" ELSE "succeeded") \in JobStatus /\ NoCode \in Code
    BY Literals
  <2>2. QED
    BY <1>7, <2>1, TransitionType DEF FinishJob
<1>8. ASSUME NEW j \in JobId, NEW f \in Failure, NEW w, FailJob(j, f, w)
      PROVE  TypeOK'
  <2>1. f.status \in JobStatus /\ f.code \in Code /\ f.retryable \in BOOLEAN
    BY FailureType
  <2>2. QED
    BY <1>8, <2>1, TransitionType DEF FailJob
<1>9. ASSUME NEW j \in JobId, NEW w, WaitJob(j, w)
      PROVE  TypeOK'
  BY <1>9, Literals, TransitionType DEF WaitJob
<1>10. ASSUME NEW j \in JobId, ClaimJob(j)
       PROVE  TypeOK'
  <2>1. jobs[j] \in Row /\ jobs[j].owner \in Worker \union {NoWorker}
        /\ jobs[j].expiry \in {NoTime} \union Time
    BY DEF TypeOK, Row
  <2>2. StartedRow(jobs[j], jobs[j].owner, jobs[j].expiry) \in Row
    BY <2>1, StartedRowType
  <2>3. jobs' \in [JobId -> Row]
    BY <1>10, <2>2 DEF ClaimJob, TypeOK
  <2>4. lastStatus' \in [SavedSource -> JobStatus \union {NoStatus}]
    BY <1>10, Literals, MarkedType DEF ClaimJob, TypeOK
  <2>5. QED
    BY <1>10, <2>3, <2>4 DEF ClaimJob, TypeOK
<1>11. ASSUME NEW j \in JobId, RequestCancel(j)
       PROVE  TypeOK'
  BY <1>11, Literals, TransitionType DEF RequestCancel
<1>12. ASSUME NEW j \in JobId, ResumeJob(j)
       PROVE  TypeOK'
  <2> DEFINE resumed(n) == [jobs[j] EXCEPT !.status = "queued", !.cancel = FALSE, !.code = NoCode,
                               !.retryable = FALSE, !.snapshot = NoSnapshot,
                               !.owner = NoWorker, !.expiry = NoTime, !.seq = n]
  <2>1. PICK n \in 1..MaxSequence : jobs' = [jobs EXCEPT ![j] = resumed(n)]
    BY <1>12 DEF ResumeJob
  <2>2. n \in Nat /\ jobs[j] \in Row
    BY JobStoreAssumption DEF TypeOK
  <2>3. resumed(n) \in Row
    <3>1. "queued" \in JobStatus /\ NoCode \in Code /\ NoSnapshot \in Snapshot
      BY Literals
    <3>2. QED
      BY <2>2, <3>1, ResumeUpdate
  <2>4. jobs' \in [JobId -> Row]
    BY <2>1, <2>3 DEF TypeOK
  <2>5. QED
    BY <1>12, <2>4 DEF ResumeJob, TypeOK
<1>13. ASSUME NEW j \in JobId, RecoverRow(j)
       PROVE  TypeOK'
  <2>1. jobs[j].code \in Code
    BY DEF TypeOK, Row
  <2> DEFINE target == IF jobs[j].collected > 0 THEN "partial" ELSE "failed"
             code == IF jobs[j].code \in NotRequeued THEN jobs[j].code ELSE "deadline_exceeded"
  <2>2. target \in JobStatus /\ code \in Code
    BY <2>1, Literals
  <2>3. CASE Transition(j, Active, "cancelled", "cancelled", TRUE, NoWorker)
    BY <2>3, Literals, TransitionType
  <2>4. CASE Transition(j, {"waiting"}, "waiting", "rate_limited", FALSE, NoWorker)
    BY <2>4, Literals, TransitionType
  <2>5. CASE Transition(j, Active, target, code, FALSE, NoWorker)
    <3> HIDE DEF target, code
    <3>1. QED
      BY <2>2, <2>5, TransitionType
  <2>6. QED
    BY <1>13, <2>3, <2>4, <2>5 DEF RecoverRow
<1>14. ASSUME NEW j \in JobId, DeleteJob(j)
       PROVE  TypeOK'
  BY <1>14, DeleteType DEF DeleteJob
<1>15. CASE RequeueAbandoned
  <2>1. ASSUME NEW j \in JobId PROVE RequeuedRow(jobs[j]) \in Row
    <3>1. jobs[j] \in Row
      BY DEF TypeOK
    <3>2. "queued" \in JobStatus /\ "interrupted" \in Code
      BY Literals
    <3>3. QED
      BY <3>1, <3>2, RequeueUpdate DEF RequeuedRow
  <2>2. jobs' \in [JobId -> Row]
    BY <1>15, <2>1 DEF RequeueAbandoned, TypeOK
  <2>3. QED
    BY <1>15, <2>2 DEF RequeueAbandoned, TypeOK
<1>16. ASSUME NEW keep, NEW cutoff, PurgeSnapshots(keep, cutoff)
       PROVE  TypeOK'
  BY <1>16, DeleteType DEF PurgeSnapshots
<1>17. CASE Tick
  BY <1>17, JobStoreAssumption DEF Tick, TypeOK, Time
<1>18. CASE UNCHANGED storeVars
  BY <1>18 DEF storeVars, TypeOK
<1>19. QED
  BY <1>1, <1>2, <1>3, <1>4, <1>5, <1>6, <1>7, <1>8, <1>9, <1>10, <1>11, <1>12, <1>13, <1>14,
     <1>15, <1>16, <1>17, <1>18 DEF Next

\* Every column of every table keeps its domain in every behaviour of the store,
\* for any number of rows, callers and instants.
THEOREM TypeCorrect == Spec => []TypeOK
<1>1. QED
  BY InitType, NextType, PTL DEF Spec

-----------------------------------------------------------------------------
(* What a transaction does to one row: r becomes s. *)

Admits(r, s) ==
  /\ r.status = "absent"
  /\ \E q \in Request, manifest \in SUBSET Request, n \in Nat : s = AdmittedRow(q, manifest, n)

Leases(r, s) ==
  /\ r.status = "queued" /\ ~r.cancel
  /\ \E w \in Worker, e \in Time : e <= r.deadline /\ s = StartedRow(r, w, e)

Claims(r, s) == r.status = "queued" /\ ~r.cancel /\ s = StartedRow(r, r.owner, r.expiry)

Renews(r, s) ==
  /\ r.status = "running" /\ ~r.cancel /\ r.owner \in Worker
  /\ \E e \in Time : e <= r.deadline /\ s = [r EXCEPT !.expiry = e]

Collects(r, s) ==
  /\ r.status = "running" /\ ~r.cancel
  /\ \E n, u \in Nat : s = [r EXCEPT !.collected = n, !.usage = u]

Bills(r, s) ==
  /\ r.status = "cancelled" /\ r.cancel
  /\ \E u \in Nat : s = [r EXCEPT !.usage = u]

Ends(r, s) ==
  /\ r.status \in Active
  /\ \E target \in Terminal \union {"waiting"}, code \in Code, retryable \in BOOLEAN, time \in Time :
       s = TransitionedRow(r, target, code, retryable, time)

Resumes(r, s) ==
  /\ r.status \in Terminal /\ r.code \notin NotResumable
  /\ \E n \in Nat : s = [r EXCEPT !.status = "queued", !.cancel = FALSE, !.code = NoCode,
                                  !.retryable = FALSE, !.snapshot = NoSnapshot,
                                  !.owner = NoWorker, !.expiry = NoTime, !.seq = n]

Requeues(r, s) == r.status = "running" /\ ~r.cancel /\ s = RequeuedRow(r)

Deletes(r, s) == r.status \in Terminal /\ s = Tombstone(r)

\* Every change but an admission and a resumption: the row keeps its place and
\* its request.
QuietStep(r, s) ==
  \/ s = r
  \/ Leases(r, s) \/ Claims(r, s) \/ Renews(r, s) \/ Collects(r, s)
  \/ Bills(r, s) \/ Ends(r, s) \/ Requeues(r, s) \/ Deletes(r, s)

RowStep(r, s) == Admits(r, s) \/ Resumes(r, s) \/ QuietStep(r, s)

-----------------------------------------------------------------------------
(* Every transaction obeys RowStep *)

\* A transaction that overwrites one row obeys RowStep if the overwriting does.
LEMMA OneRow ==
  ASSUME jobs \in [JobId -> Row], NEW j \in JobId, NEW s,
         jobs' = [jobs EXCEPT ![j] = s], RowStep(jobs[j], s)
  PROVE  \A k \in JobId : RowStep(jobs[k], jobs'[k])
<1> SUFFICES ASSUME NEW k \in JobId PROVE RowStep(jobs[k], jobs'[k])
  OBVIOUS
<1>1. CASE k = j
  <2>1. jobs'[j] = s
    OBVIOUS
  <2>2. QED
    BY <1>1, <2>1
<1>2. CASE k # j
  <2>1. jobs'[k] = jobs[k]
    BY <1>2
  <2>2. QED
    BY <2>1 DEF RowStep, QuietStep
<1>3. QED
  BY <1>1, <1>2

\* A transaction that overwrites one row is quiet if the overwriting is.
LEMMA OneQuietRow ==
  ASSUME jobs \in [JobId -> Row], NEW j \in JobId, NEW s,
         jobs' = [jobs EXCEPT ![j] = s], QuietStep(jobs[j], s)
  PROVE  \A k \in JobId : QuietStep(jobs[k], jobs'[k])
<1> SUFFICES ASSUME NEW k \in JobId PROVE QuietStep(jobs[k], jobs'[k])
  OBVIOUS
<1>1. CASE k = j
  <2>1. jobs'[j] = s
    OBVIOUS
  <2>2. QED
    BY <1>1, <2>1
<1>2. CASE k # j
  <2>1. jobs'[k] = jobs[k]
    BY <1>2
  <2>2. QED
    BY <2>1 DEF QuietStep
<1>3. QED
  BY <1>1, <1>2

\* A transaction that leaves the jobs table alone is quiet.
LEMMA NoRowChanged ==
  ASSUME jobs' = jobs
  PROVE  \A k \in JobId : QuietStep(jobs[k], jobs'[k])
BY DEF QuietStep

\* A transition with legal arguments is an end.
LEMMA TransitionRow ==
  ASSUME TypeOK, NEW j \in JobId, NEW allowed \in SUBSET Active,
         NEW target \in Terminal \union {"waiting"}, NEW code \in Code,
         NEW retryable \in BOOLEAN, NEW w, Transition(j, allowed, target, code, retryable, w)
  PROVE  \A k \in JobId : QuietStep(jobs[k], jobs'[k])
<1>1. jobs \in [JobId -> Row] /\ now \in Time
  BY DEF TypeOK
<1> DEFINE s == TransitionedRow(jobs[j], target, code, retryable, now)
<1>2. jobs[j].status \in Active /\ jobs' = [jobs EXCEPT ![j] = s]
  BY DEF Transition, CanTransition
<1>3. Ends(jobs[j], s)
  BY <1>1, <1>2 DEF Ends
<1> HIDE DEF s
<1>4. QuietStep(jobs[j], s)
  BY <1>3 DEF QuietStep
<1>5. QED
  BY <1>1, <1>2, <1>4, OneQuietRow

\* Removing terminal rows only deletes.
LEMMA DeleteRows ==
  ASSUME TypeOK, NEW S, S \subseteq InState(Terminal), Delete(S)
  PROVE  \A k \in JobId : QuietStep(jobs[k], jobs'[k])
<1> SUFFICES ASSUME NEW k \in JobId PROVE QuietStep(jobs[k], jobs'[k])
  OBVIOUS
<1>1. CASE k \in S
  <2>1. jobs'[k] = Tombstone(jobs[k]) /\ jobs[k].status \in Terminal
    BY <1>1 DEF Delete, InState
  <2>2. QED
    BY <2>1 DEF QuietStep, Deletes
<1>2. CASE k \notin S
  BY <1>2 DEF Delete, QuietStep
<1>3. QED
  BY <1>1, <1>2

\* A job is failed with a terminal status.
LEMMA FailureEnds == \A f \in Failure : f.status \in Terminal
<1> SUFFICES ASSUME NEW f \in Failure PROVE f.status \in Terminal
  OBVIOUS
<1>1. CASE \/ f = [status |-> "interrupted", code |-> "interrupted", retryable |-> TRUE]
           \/ f = [status |-> "cancelled", code |-> "cancelled", retryable |-> TRUE]
  <2>1. f.status \in {"interrupted", "cancelled"}
    BY <1>1
  <2>2. QED
    BY <2>1, Literals
<1>2. CASE \/ f \in [status : {"failed", "partial"}, code : ReportedCode \ NotResumable,
                     retryable : BOOLEAN]
           \/ f \in [status : {"failed", "partial"}, code : {"provider_error"}, retryable : {TRUE}]
           \/ f \in [status : {"failed", "partial"}, code : ReportedCode, retryable : {FALSE}]
  <2>1. f.status \in {"failed", "partial"}
    BY <1>2
  <2>2. QED
    BY <2>1, Literals
<1>3. QED
  BY <1>1, <1>2 DEF Failure

\* What admit_batch does, without its CHOOSE: the new items go to unused ids
\* of their own, with queue numbers of their own behind every row.
BatchEffect(batch, new, f) ==
  /\ new \subseteq batch
  /\ \A q \in batch \ new : Existing(q) # {}
  /\ \A q \in new : /\ Existing(q) = {} /\ f[q].id \in JobId /\ f[q].seq \in Nat
                   /\ jobs[f[q].id].status = "absent"
                   /\ jobs'[f[q].id] = AdmittedRow(q, batch, f[q].seq)
                   /\ \A k \in Present : jobs[k].seq < f[q].seq
  /\ \A q, r \in new : q # r => f[q].id # f[r].id /\ f[q].seq # f[r].seq
  /\ \A k \in JobId : (\A q \in new : f[q].id # k) => jobs'[k] = jobs[k]
  /\ lastStatus' = [s \in SavedSource |->
                       IF \E q \in new : q.source = s THEN "queued" ELSE lastStatus[s]]

\* A batch that is admitted has such an effect.
LEMMA BatchPlaced ==
  ASSUME TypeOK, NEW batch \in SUBSET Request, NEW b, AdmitBatch(batch, b)
  PROVE  \E new, f : BatchEffect(batch, new, f)
<1> DEFINE new == NewItems(batch)
<1>1. /\ new \in SUBSET batch /\ Cardinality(new) \in Nat
      /\ \A q \in new : Existing(q) = {}
      /\ \A q \in batch \ new : Existing(q) # {}
  BY JobStoreAssumption, FS_Subset, FS_CardinalityType DEF NewItems
<1>2. PICK n \in 1..MaxSequence :
             /\ NextSequence(n)
             /\ \E g \in Placement(new, n) :
                  jobs' = [j \in JobId |->
                             IF \E q \in new : g[q].id = j
                               THEN LET q == CHOOSE r \in new : g[r].id = j
                                    IN  AdmittedRow(q, batch, g[q].seq)
                               ELSE jobs[j]]
  BY DEF AdmitBatch
<1>3. PICK f \in Placement(new, n) :
             jobs' = [j \in JobId |->
                        IF \E q \in new : f[q].id = j
                          THEN LET q == CHOOSE r \in new : f[r].id = j
                               IN  AdmittedRow(q, batch, f[q].seq)
                          ELSE jobs[j]]
  BY <1>2
<1>4. n \in Nat /\ \A k \in Present : jobs[k].seq \in Nat /\ jobs[k].seq < n
  BY <1>2, JobStoreAssumption DEF NextSequence, TypeOK, Present, Row
<1>5. /\ \A q \in new : /\ f[q].id \in JobId /\ f[q].seq \in Nat /\ n <= f[q].seq
                       /\ jobs[f[q].id].status = "absent"
      /\ \A q, r \in new : q # r => f[q].id # f[r].id /\ f[q].seq # f[r].seq
  BY <1>1, <1>4 DEF Placement, Unused
<1>6. lastStatus' = [s \in SavedSource |->
                       IF \E q \in new : q.source = s THEN "queued" ELSE lastStatus[s]]
  BY DEF AdmitBatch
<1> HIDE DEF new
<1>7. ASSUME NEW q \in new PROVE jobs'[f[q].id] = AdmittedRow(q, batch, f[q].seq)
  <2> DEFINE c == CHOOSE r \in new : f[r].id = f[q].id
  <2>1. c \in new /\ f[c].id = f[q].id
    OBVIOUS
  <2>2. c = q
    BY <1>5, <2>1
  <2>3. jobs'[f[q].id] = AdmittedRow(c, batch, f[c].seq)
    BY <1>3, <1>5
  <2> HIDE DEF c
  <2>4. QED
    BY <2>2, <2>3
<1>8. \A k \in JobId : (\A q \in new : f[q].id # k) => jobs'[k] = jobs[k]
  BY <1>3
<1>9. \A q \in new : \A k \in Present : jobs[k].seq < f[q].seq
  BY <1>4, <1>5
<1>10. BatchEffect(batch, new, f)
  BY <1>1, <1>5, <1>6, <1>7, <1>8, <1>9 DEF BatchEffect
<1>11. QED
  BY <1>10

\* An id that a batch gives a row was unused; the other rows stay as they are.
LEMMA BatchRows ==
  ASSUME TypeOK, NEW batch \in SUBSET Request, NEW b, AdmitBatch(batch, b)
  PROVE  \A k \in JobId : RowStep(jobs[k], jobs'[k])
<1>1. PICK new, f : BatchEffect(batch, new, f)
  BY BatchPlaced
<1> SUFFICES ASSUME NEW k \in JobId PROVE RowStep(jobs[k], jobs'[k])
  OBVIOUS
<1>2. CASE \E q \in new : f[q].id = k
  <2>1. PICK q \in new : f[q].id = k
    BY <1>2
  <2>2. /\ q \in Request /\ f[q].seq \in Nat /\ jobs[k].status = "absent"
        /\ jobs'[k] = AdmittedRow(q, batch, f[q].seq)
    BY <1>1, <2>1 DEF BatchEffect
  <2>3. Admits(jobs[k], jobs'[k])
    BY <2>2 DEF Admits
  <2>4. QED
    BY <2>3 DEF RowStep
<1>3. CASE ~\E q \in new : f[q].id = k
  <2>1. jobs'[k] = jobs[k]
    BY <1>1, <1>3 DEF BatchEffect
  <2>2. QED
    BY <2>1 DEF RowStep, QuietStep
<1>4. QED
  BY <1>2, <1>3

\* A transaction admits, resumes one row, or is quiet on every row.
LEMMA NextShape ==
  ASSUME TypeOK, [Next]_storeVars
  PROVE  \/ \E q \in Request, j \in JobId : AdmitJob(q, j)
         \/ \E batch \in SUBSET Request : \E b \in {q.batch : q \in batch} : AdmitBatch(batch, b)
         \/ \E j \in JobId : ResumeJob(j)
         \/ \A k \in JobId : QuietStep(jobs[k], jobs'[k])
<1> DEFINE Goal == \A k \in JobId : QuietStep(jobs[k], jobs'[k])
<1> USE DEF Goal
<1>0. jobs \in [JobId -> Row] /\ now \in Time
  BY DEF TypeOK
<1>1. ASSUME NEW j \in JobId, NEW w \in Worker, NEW e \in Time, LeaseJob(j, w, e)
      PROVE  Goal
  <2> DEFINE s == StartedRow(jobs[j], w, e)
  <2>1. jobs' = [jobs EXCEPT ![j] = s] /\ Leases(jobs[j], s)
    BY <1>1 DEF LeaseJob, CanLease, Claimable, Leases
  <2> HIDE DEF s
  <2>2. QED
    BY <1>0, <2>1, OneQuietRow DEF QuietStep
<1>2. ASSUME NEW j \in JobId, NEW w \in Worker, NEW e \in Time, HeartbeatJob(j, w, e)
      PROVE  Goal
  <2> DEFINE s == [jobs[j] EXCEPT !.expiry = e]
  <2>1. jobs' = [jobs EXCEPT ![j] = s] /\ Renews(jobs[j], s)
    BY <1>2 DEF HeartbeatJob, CanHeartbeat, Renews
  <2> HIDE DEF s
  <2>2. QED
    BY <1>0, <2>1, OneQuietRow DEF QuietStep
<1>3. ASSUME NEW j \in JobId, NEW batch \in SUBSET Post, NEW u \in 0..MaxUsage,
             AddPosts(j, batch, u)
      PROVE  Goal
  <2> DEFINE n == jobs[j].collected + Cardinality(batch \ Posts(j))
             v == jobs[j].usage + u
             s == [jobs[j] EXCEPT !.collected = n, !.usage = v]
  <2>1. Cardinality(batch \ Posts(j)) \in Nat /\ u \in Nat
    BY JobStoreAssumption, FS_Subset, FS_CardinalityType
  <2>2. n \in Nat /\ v \in Nat
    BY <1>0, <2>1 DEF Row
  <2>3. jobs' = [jobs EXCEPT ![j] = s]
    BY <1>3 DEF AddPosts
  <2>4. jobs[j].status = "running" /\ ~jobs[j].cancel
    BY <1>3 DEF AddPosts, Writable
  <2> HIDE DEF n, v
  <2>5. Collects(jobs[j], s)
    BY <2>2, <2>4 DEF Collects
  <2> HIDE DEF s
  <2>6. QED
    BY <1>0, <2>3, <2>5, OneQuietRow DEF QuietStep
<1>4. ASSUME NEW j \in JobId, NEW u \in 1..MaxUsage, RecordCancelledUsage(j, u)
      PROVE  Goal
  <2> DEFINE v == jobs[j].usage + u
             s == [jobs[j] EXCEPT !.usage = v]
  <2>1. v \in Nat
    BY <1>0, JobStoreAssumption DEF Row
  <2>2. jobs' = [jobs EXCEPT ![j] = s] /\ jobs[j].status = "cancelled" /\ jobs[j].cancel
    BY <1>4 DEF RecordCancelledUsage
  <2> HIDE DEF v
  <2>3. Bills(jobs[j], s)
    BY <2>1, <2>2 DEF Bills
  <2> HIDE DEF s
  <2>4. QED
    BY <1>0, <2>2, <2>3, OneQuietRow DEF QuietStep
<1>5. ASSUME NEW j \in JobId, NEW partial \in BOOLEAN, NEW w, FinishJob(j, partial, w)
      PROVE  Goal
  <2>1. /\ (IF partial THEN "partial" ELSE "succeeded") \in Terminal /\ NoCode \in Code
        /\ {"running"} \in SUBSET Active
    BY Literals
  <2>2. QED
    BY <1>5, <2>1, TransitionRow DEF FinishJob
<1>6. ASSUME NEW j \in JobId, NEW f \in Failure, NEW w, FailJob(j, f, w)
      PROVE  Goal
  <2>1. f.status \in Terminal /\ f.code \in Code /\ f.retryable \in BOOLEAN
    BY FailureType, FailureEnds
  <2>2. QED
    BY <1>6, <2>1, TransitionRow DEF FailJob
<1>7. ASSUME NEW j \in JobId, NEW w, WaitJob(j, w)
      PROVE  Goal
  <2>1. {"running"} \in SUBSET Active
    BY Literals
  <2>2. QED
    BY <1>7, <2>1, Literals, TransitionRow DEF WaitJob
<1>8. ASSUME NEW j \in JobId, ClaimJob(j)
       PROVE  Goal
  <2> DEFINE s == StartedRow(jobs[j], jobs[j].owner, jobs[j].expiry)
  <2>1. jobs' = [jobs EXCEPT ![j] = s] /\ Claims(jobs[j], s)
    BY <1>8 DEF ClaimJob, Claimable, Claims
  <2> HIDE DEF s
  <2>2. QED
    BY <1>0, <2>1, OneQuietRow DEF QuietStep
<1>9. ASSUME NEW j \in JobId, RequestCancel(j)
       PROVE  Goal
  BY <1>9, Literals, TransitionRow DEF RequestCancel
<1>10. ASSUME NEW j \in JobId, RecoverRow(j)
       PROVE  Goal
  <2> DEFINE target == IF jobs[j].collected > 0 THEN "partial" ELSE "failed"
             code == IF jobs[j].code \in NotRequeued THEN jobs[j].code ELSE "deadline_exceeded"
  <2>1. target \in Terminal /\ code \in Code
    BY <1>0, Literals DEF Row
  <2>2. {"waiting"} \in SUBSET Active
    BY Literals
  <2>3. CASE Transition(j, Active, "cancelled", "cancelled", TRUE, NoWorker)
    BY <2>3, Literals, TransitionRow
  <2>4. CASE Transition(j, {"waiting"}, "waiting", "rate_limited", FALSE, NoWorker)
    BY <2>2, <2>4, Literals, TransitionRow
  <2>5. CASE Transition(j, Active, target, code, FALSE, NoWorker)
    <3> HIDE DEF target, code
    <3>1. QED
      BY <2>1, <2>5, TransitionRow
  <2>6. QED
    BY <1>10, <2>3, <2>4, <2>5 DEF RecoverRow
<1>11. ASSUME NEW j \in JobId, DeleteJob(j)
       PROVE  Goal
  <2>1. {j} \subseteq InState(Terminal) /\ Delete({j})
    BY <1>11 DEF DeleteJob, InState
  <2>2. QED
    BY <2>1, DeleteRows
<1>12. CASE RequeueAbandoned
  <2> SUFFICES ASSUME NEW k \in JobId PROVE QuietStep(jobs[k], jobs'[k])
    OBVIOUS
  <2>1. CASE Abandoned(k)
    <3>1. jobs'[k] = RequeuedRow(jobs[k]) /\ jobs[k].status = "running" /\ ~jobs[k].cancel
      BY <1>12, <2>1 DEF RequeueAbandoned, Abandoned
    <3>2. QED
      BY <3>1 DEF QuietStep, Requeues
  <2>2. CASE ~Abandoned(k)
    BY <1>12, <2>2 DEF RequeueAbandoned, QuietStep
  <2>3. QED
    BY <2>1, <2>2
<1>13. ASSUME NEW keep, NEW cutoff, PurgeSnapshots(keep, cutoff)
       PROVE  Goal
  <2>1. Purged(keep, cutoff) \subseteq InState(Terminal) /\ Delete(Purged(keep, cutoff))
    BY <1>13 DEF PurgeSnapshots, Purged
  <2>2. QED
    BY <2>1, DeleteRows
<1>14. CASE Tick
  BY <1>14, NoRowChanged DEF Tick
<1>15. CASE UNCHANGED storeVars
  BY <1>15, NoRowChanged DEF storeVars
<1>16. QED
  BY <1>1, <1>2, <1>3, <1>4, <1>5, <1>6, <1>7, <1>8, <1>9, <1>10, <1>11, <1>12, <1>13,
     <1>14, <1>15 DEF Next

\* Every transaction changes every row by a RowStep.
LEMMA NextRow ==
  ASSUME TypeOK, [Next]_storeVars
  PROVE  \A k \in JobId : RowStep(jobs[k], jobs'[k])
<1> DEFINE Goal == \A k \in JobId : RowStep(jobs[k], jobs'[k])
<1> USE DEF Goal
<1>0. jobs \in [JobId -> Row]
  BY DEF TypeOK
<1>1. ASSUME NEW q \in Request, NEW j \in JobId, AdmitJob(q, j)
      PROVE  Goal
  <2>1. PICK n \in 1..MaxSequence : jobs' = [jobs EXCEPT ![j] = AdmittedRow(q, {}, n)]
    BY <1>1 DEF AdmitJob
  <2>2. n \in Nat /\ jobs[j].status = "absent"
    BY <1>1, JobStoreAssumption DEF AdmitJob, Unused
  <2> DEFINE s == AdmittedRow(q, {}, n)
  <2>3. Admits(jobs[j], s)
    BY <2>2 DEF Admits
  <2>4. jobs' = [jobs EXCEPT ![j] = s]
    BY <2>1
  <2> HIDE DEF s
  <2>5. QED
    BY <1>0, <2>3, <2>4, OneRow DEF RowStep
<1>2. ASSUME NEW batch \in SUBSET Request, NEW b, AdmitBatch(batch, b)
      PROVE  Goal
  BY <1>2, BatchRows
<1>3. ASSUME NEW j \in JobId, ResumeJob(j)
       PROVE  Goal
  <2> DEFINE resumed(n) == [jobs[j] EXCEPT !.status = "queued", !.cancel = FALSE, !.code = NoCode,
                               !.retryable = FALSE, !.snapshot = NoSnapshot,
                               !.owner = NoWorker, !.expiry = NoTime, !.seq = n]
  <2>1. PICK n \in 1..MaxSequence : jobs' = [jobs EXCEPT ![j] = resumed(n)]
    BY <1>3 DEF ResumeJob
  <2>2. n \in Nat
    BY JobStoreAssumption
  <2>3. jobs[j].status \in Terminal /\ jobs[j].code \notin NotResumable
    BY <1>3, Literals DEF ResumeJob, CanResume
  <2>4. Resumes(jobs[j], resumed(n))
    BY <2>2, <2>3 DEF Resumes
  <2> HIDE DEF resumed
  <2>5. QED
    BY <1>0, <2>1, <2>4, OneRow DEF RowStep
<1>4. QED
  BY <1>1, <1>2, <1>3, NextShape DEF RowStep

-----------------------------------------------------------------------------
(* What the columns of a row keep to *)

LeaseInv(r) ==
  /\ r.owner = NoWorker <=> r.expiry = NoTime
  /\ r.owner # NoWorker => r.status = "running" /\ r.expiry <= r.deadline

\* A row that carries the cancellation flag is active or cancelled, never ended otherwise.
CancelInv(r) == r.cancel => r.status \in Active \union {"cancelled"}

SnapshotInv(r) ==
  r.status \in JobStatus =>
    /\ r.status \in Terminal <=> r.snapshot # NoSnapshot
    /\ r.status \in Terminal /\ r.collected > 0 => r.snapshot.partial \/ r.status = "succeeded"

\* The columns that a transition writes, one by one.
LEMMA TransitionedColumns ==
  ASSUME NEW r \in Row, NEW target \in Terminal \union {"waiting"}, NEW code \in Code,
         NEW retryable \in BOOLEAN, NEW time \in Time
  PROVE  LET s == TransitionedRow(r, target, code, retryable, time) IN
         /\ s.status \in Terminal /\ s.owner = NoWorker /\ s.expiry = NoTime
         /\ s.cancel <=> r.cancel \/ s.status = "cancelled"
         /\ r.cancel => s.status = "cancelled"
         /\ s.collected = r.collected /\ s.attempt = r.attempt
         /\ r.snapshot = NoSnapshot =>
              /\ s.snapshot # NoSnapshot
              /\ s.collected > 0 => s.snapshot.partial \/ s.status = "succeeded"
<1> DEFINE o == Outcome(r, target, code, retryable)
           snap == IF r.snapshot # NoSnapshot THEN r.snapshot
                   ELSE [at |-> time,
                         partial |-> \/ o.status = "partial"
                                     \/ o.status # "succeeded" /\ r.collected > 0]
           s == TransitionedRow(r, target, code, retryable, time)
<1>1. o.status \in Terminal /\ (r.cancel => o.status = "cancelled")
  BY Literals DEF Outcome
<1>2. r.snapshot = NoSnapshot =>
        /\ snap # NoSnapshot
        /\ r.collected > 0 => snap.partial \/ o.status = "succeeded"
  <2>1. SUFFICES ASSUME r.snapshot = NoSnapshot
                 PROVE  /\ snap # NoSnapshot
                        /\ r.collected > 0 => snap.partial \/ o.status = "succeeded"
    OBVIOUS
  <2>2. snap = [at |-> time, partial |-> \/ o.status = "partial"
                                         \/ o.status # "succeeded" /\ r.collected > 0]
    BY <2>1
  <2>3. snap.at = time /\ NoSnapshot.at = NoTime /\ time # NoTime
    BY <2>2, JobStoreAssumption DEF NoSnapshot, NoTime, Time
  <2>4. QED
    BY <2>2, <2>3
<1>3. /\ s.status = o.status /\ s.owner = NoWorker /\ s.expiry = NoTime
      /\ s.cancel = (r.cancel \/ o.status = "cancelled") /\ s.snapshot = snap
      /\ s.collected = r.collected /\ s.attempt = r.attempt
  BY DEF TransitionedRow, Row
<1> HIDE DEF o, snap, s
<1>4. QED
  BY <1>1, <1>2, <1>3 DEF s

\* What the row operators write to the columns of the invariants.
LEMMA WrittenColumns ==
  ASSUME NEW r \in Row
  PROVE  /\ \A q \in Request, manifest \in SUBSET Request, n \in Nat :
              LET s == AdmittedRow(q, manifest, n) IN
              /\ s.status = "queued" /\ ~s.cancel /\ s.snapshot = NoSnapshot
              /\ s.owner = NoWorker /\ s.expiry = NoTime
         /\ \A w \in Worker \union {NoWorker}, e \in {NoTime} \union Time :
              LET s == StartedRow(r, w, e) IN
              /\ s.status = "running" /\ s.cancel = r.cancel /\ s.snapshot = r.snapshot
              /\ s.owner = w /\ s.expiry = e /\ s.deadline = r.deadline
         /\ LET s == RequeuedRow(r) IN
              /\ s.status = "queued" /\ s.cancel = r.cancel /\ s.snapshot = r.snapshot
              /\ s.owner = NoWorker /\ s.expiry = NoTime
         /\ LET s == Tombstone(r) IN
              /\ s.status = "deleted" /\ ~s.cancel /\ s.owner = NoWorker /\ s.expiry = NoTime
BY DEF AdmittedRow, StartedRow, RequeuedRow, Tombstone, NoRow, Row

\* No transaction leaves a lease on a row that is not running, or one that
\* outlives the approved deadline.
LEMMA LeaseStep ==
  ASSUME NEW r \in Row, NEW s, RowStep(r, s), LeaseInv(r)
  PROVE  LeaseInv(s)
<1>0. NoTime \notin Time /\ NoWorker \notin Worker /\ r.owner \in Worker \union {NoWorker}
      /\ r.expiry \in {NoTime} \union Time
  BY JobStoreAssumption DEF NoTime, Time, Row
<1>1. CASE Admits(r, s) \/ Requeues(r, s) \/ Deletes(r, s)
  <2>1. s.owner = NoWorker /\ s.expiry = NoTime
    BY <1>1, WrittenColumns DEF Admits, Requeues, Deletes
  <2>2. QED
    BY <2>1 DEF LeaseInv
<1>2. CASE Leases(r, s)
  <2>1. PICK w \in Worker, e \in Time : e <= r.deadline /\ s = StartedRow(r, w, e)
    BY <1>2 DEF Leases
  <2>2. s.status = "running" /\ s.owner = w /\ s.expiry = e /\ s.deadline = r.deadline
    BY <2>1, WrittenColumns
  <2>3. QED
    BY <1>0, <2>1, <2>2 DEF LeaseInv
<1>3. CASE Claims(r, s)
  <2>1. /\ s.status = "running" /\ s.owner = r.owner /\ s.expiry = r.expiry
        /\ s.deadline = r.deadline /\ r.status = "queued"
    BY <1>0, <1>3, WrittenColumns DEF Claims
  <2>2. QED
    BY <2>1 DEF LeaseInv
<1>4. CASE Renews(r, s)
  <2>1. PICK e \in Time : e <= r.deadline /\ s = [r EXCEPT !.expiry = e]
    BY <1>4 DEF Renews
  <2>2. s.status = "running" /\ s.owner = r.owner /\ s.expiry = e /\ s.deadline = r.deadline
        /\ r.owner \in Worker
    BY <1>4, <2>1 DEF Renews, Row
  <2>3. QED
    BY <1>0, <2>1, <2>2 DEF LeaseInv
<1>5. CASE Collects(r, s) \/ Bills(r, s)
  <2>1. s.status = r.status /\ s.owner = r.owner /\ s.expiry = r.expiry /\ s.deadline = r.deadline
    BY <1>5 DEF Collects, Bills, Row
  <2>2. QED
    BY <2>1 DEF LeaseInv
<1>6. CASE Ends(r, s)
  <2>1. s.owner = NoWorker /\ s.expiry = NoTime
    BY <1>6, TransitionedColumns DEF Ends
  <2>2. QED
    BY <2>1 DEF LeaseInv
<1>7. CASE Resumes(r, s)
  <2>1. s.owner = NoWorker /\ s.expiry = NoTime
    BY <1>7 DEF Resumes, Row
  <2>2. QED
    BY <2>1 DEF LeaseInv
<1>8. QED
  BY <1>1, <1>2, <1>3, <1>4, <1>5, <1>6, <1>7 DEF RowStep, QuietStep

\* A transaction on a row whose cancellation was requested can only cancel it.
LEMMA CancelStep ==
  ASSUME NEW r \in Row, NEW s, RowStep(r, s), CancelInv(r)
  PROVE  CancelInv(s)
<1>1. CASE Admits(r, s) \/ Deletes(r, s)
  <2>1. ~s.cancel
    BY <1>1, WrittenColumns DEF Admits, Deletes
  <2>2. QED
    BY <2>1 DEF CancelInv
<1>2. CASE Leases(r, s) \/ Claims(r, s) \/ Requeues(r, s)
  <2>1. ~r.cancel
    BY <1>2 DEF Leases, Claims, Requeues
  <2>2. r.owner \in Worker \union {NoWorker} /\ r.expiry \in {NoTime} \union Time
    BY DEF Row
  <2>3. s.cancel = r.cancel
    BY <1>2, <2>2, WrittenColumns DEF Leases, Claims, Requeues
  <2>4. QED
    BY <2>1, <2>3 DEF CancelInv
<1>3. CASE Renews(r, s) \/ Collects(r, s) \/ Bills(r, s)
  <2>1. s.cancel = r.cancel /\ s.status = r.status
    BY <1>3 DEF Renews, Collects, Bills, Row
  <2>2. QED
    BY <2>1 DEF CancelInv
<1>4. CASE Ends(r, s)
  <2>1. /\ s.cancel <=> r.cancel \/ s.status = "cancelled"
        /\ r.cancel => s.status = "cancelled"
    BY <1>4, TransitionedColumns DEF Ends
  <2>2. QED
    BY <2>1 DEF CancelInv
<1>5. CASE Resumes(r, s)
  <2>1. ~s.cancel
    BY <1>5 DEF Resumes, Row
  <2>2. QED
    BY <2>1 DEF CancelInv
<1>6. QED
  BY <1>1, <1>2, <1>3, <1>4, <1>5 DEF RowStep, QuietStep

\* Snapshot metadata comes with the end of a row and goes with its resumption.
LEMMA SnapshotStep ==
  ASSUME NEW r \in Row, NEW s, RowStep(r, s), SnapshotInv(r)
  PROVE  SnapshotInv(s)
<1>0. Terminal \subseteq JobStatus /\ Active \subseteq JobStatus /\ Active \intersect Terminal = {}
      /\ "queued" \in Active /\ "running" \in Active /\ "deleted" \notin JobStatus
  BY DEF JobStatus, Active, Terminal
<1>1. CASE Admits(r, s)
  <2>1. s.status = "queued" /\ s.snapshot = NoSnapshot
    BY <1>1, WrittenColumns DEF Admits
  <2>2. QED
    BY <1>0, <2>1 DEF SnapshotInv
<1>2. CASE Leases(r, s) \/ Claims(r, s) \/ Requeues(r, s)
  <2>1. r.status \in Active
    BY <1>0, <1>2 DEF Leases, Claims, Requeues
  <2>2. r.owner \in Worker \union {NoWorker} /\ r.expiry \in {NoTime} \union Time
    BY DEF Row
  <2>3. s.status \in Active /\ s.snapshot = r.snapshot
    BY <1>0, <1>2, <2>2, WrittenColumns DEF Leases, Claims, Requeues
  <2>4. QED
    BY <1>0, <2>1, <2>3 DEF SnapshotInv
<1>3. CASE Renews(r, s) \/ Collects(r, s)
  <2>1. s.status = r.status /\ r.status = "running" /\ s.snapshot = r.snapshot
    BY <1>3 DEF Renews, Collects, Row
  <2>2. QED
    BY <1>0, <2>1 DEF SnapshotInv
<1>4. CASE Bills(r, s)
  <2>1. s.status = r.status /\ s.snapshot = r.snapshot /\ s.collected = r.collected
    BY <1>4 DEF Bills, Row
  <2>2. QED
    BY <2>1 DEF SnapshotInv
<1>5. CASE Ends(r, s)
  <2>1. r.status \in Active
    BY <1>5 DEF Ends
  <2>2. r.snapshot = NoSnapshot
    BY <1>0, <2>1 DEF SnapshotInv
  <2>3. /\ s.status \in Terminal /\ s.snapshot # NoSnapshot
        /\ s.collected > 0 => s.snapshot.partial \/ s.status = "succeeded"
    BY <1>5, <2>2, TransitionedColumns DEF Ends
  <2>4. QED
    BY <2>3 DEF SnapshotInv
<1>6. CASE Resumes(r, s)
  <2>1. s.status = "queued" /\ s.snapshot = NoSnapshot
    BY <1>6 DEF Resumes, Row
  <2>2. QED
    BY <1>0, <2>1 DEF SnapshotInv
<1>7. CASE Deletes(r, s)
  <2>1. s.status = "deleted"
    BY <1>7, WrittenColumns DEF Deletes
  <2>2. QED
    BY <1>0, <2>1 DEF SnapshotInv
<1>8. QED
  BY <1>1, <1>2, <1>3, <1>4, <1>5, <1>6, <1>7 DEF RowStep, QuietStep

-----------------------------------------------------------------------------
(* The inductive invariant and the theorems that follow from it *)

RowInv ==
  /\ TypeOK
  /\ \A j \in JobId : LeaseInv(jobs[j]) /\ CancelInv(jobs[j]) /\ SnapshotInv(jobs[j])

\* Migrated rows satisfy the invariant, as does the value of an absent row.
LEMMA InitRow == Init => RowInv
<1> SUFFICES ASSUME Init, NEW j \in JobId
             PROVE  LeaseInv(jobs[j]) /\ CancelInv(jobs[j]) /\ SnapshotInv(jobs[j])
  BY InitType DEF RowInv
<1>1. CASE jobs[j] = NoRow
  <2>1. NoRow.status = "absent" /\ ~NoRow.cancel /\ NoRow.owner = NoWorker /\ NoRow.expiry = NoTime
    BY DEF NoRow
  <2>2. "absent" \notin JobStatus
    BY DEF JobStatus, Active, Terminal
  <2>3. QED
    BY <1>1, <2>1, <2>2 DEF LeaseInv, CancelInv, SnapshotInv
<1>2. CASE jobs[j] \in LegacyRow
  <2> DEFINE r == jobs[j]
  <2>1. /\ r.status \in JobStatus /\ r.cancel \in BOOLEAN /\ r.owner = NoWorker
        /\ r.expiry = NoTime
        /\ r.cancel => r.status \in Active \union {"cancelled"}
    BY <1>2 DEF LegacyRow
  <2>2. IF r.status \in Terminal
          THEN r.snapshot = [at |-> 1, partial |-> \/ r.status = "partial"
                                                   \/ r.status # "succeeded" /\ r.collected > 0]
          ELSE r.snapshot = NoSnapshot
    BY <1>2 DEF LegacyRow
  <2>3. [at |-> 1, partial |-> \/ r.status = "partial"
                               \/ r.status # "succeeded" /\ r.collected > 0] # NoSnapshot
    BY DEF NoSnapshot, NoTime
  <2> HIDE DEF r
  <2>4. LeaseInv(r) /\ CancelInv(r)
    BY <2>1 DEF LeaseInv, CancelInv
  <2>5. SnapshotInv(r)
    <3>1. CASE r.status \in Terminal
      <4>1. r.collected > 0 => r.snapshot.partial \/ r.status = "succeeded"
        BY <2>2, <3>1
      <4>2. r.snapshot # NoSnapshot
        BY <2>2, <2>3, <3>1
      <4>3. QED
        BY <3>1, <4>1, <4>2 DEF SnapshotInv
    <3>2. CASE r.status \notin Terminal
      BY <2>2, <3>2 DEF SnapshotInv
    <3>3. QED
      BY <3>1, <3>2
  <2>6. QED
    BY <2>4, <2>5 DEF r
<1>3. QED
  BY <1>1, <1>2 DEF Init

\* The invariant is inductive, row by row.
LEMMA NextInv == RowInv /\ [Next]_storeVars => RowInv'
<1> SUFFICES ASSUME RowInv, [Next]_storeVars PROVE RowInv'
  OBVIOUS
<1>1. TypeOK'
  BY NextType DEF RowInv
<1>2. ASSUME NEW j \in JobId
      PROVE  LeaseInv(jobs'[j]) /\ CancelInv(jobs'[j]) /\ SnapshotInv(jobs'[j])
  <2>1. jobs[j] \in Row /\ RowStep(jobs[j], jobs'[j])
    BY NextRow DEF RowInv, TypeOK
  <2>2. LeaseInv(jobs[j]) /\ CancelInv(jobs[j]) /\ SnapshotInv(jobs[j])
    BY DEF RowInv
  <2>3. QED
    BY <2>1, <2>2, LeaseStep, CancelStep, SnapshotStep
<1>3. QED
  BY <1>1, <1>2 DEF RowInv

LEMMA RowInvHolds == Spec => []RowInv
BY InitRow, NextInv, PTL DEF Spec

\* Every way out of "running" gives the lease back, and neither a lease nor a
\* heartbeat outlives the deadline that the user approved, for any number of
\* workers, rows and clocks.
THEOREM LeasesBounded == Spec => []LeaseWithinDeadline
<1>1. RowInv => LeaseWithinDeadline
  BY DEF RowInv, LeaseInv, LeaseWithinDeadline
<1>2. QED
  BY <1>1, RowInvHolds, PTL

\* Snapshot metadata is present exactly on terminal rows, and one that is not
\* marked partial belongs to a success or to a row without posts.
THEOREM SnapshotsHonest == Spec => []SnapshotMatchesStatus
<1>1. RowInv => SnapshotMatchesStatus
  BY DEF RowInv, SnapshotInv, SnapshotMatchesStatus, Present
<1>2. QED
  BY <1>1, RowInvHolds, PTL

\* A requested cancellation is never lost: the row ends as cancelled and only a
\* resumption or a deletion takes it out of that state.
THEOREM CancellationKept == Spec => CancellationWins
<1>1. RowInv /\ [Next]_storeVars =>
        [\A j \in Present : jobs[j].cancel =>
           \/ jobs'[j].status = "deleted"
           \/ jobs'[j].status \in {jobs[j].status, "cancelled"} /\ jobs'[j].attempt = jobs[j].attempt
           \/ jobs[j].status = "cancelled" /\ jobs'[j].status = "queued"
                                           /\ ~jobs'[j].cancel]_storeVars
  <2> SUFFICES ASSUME RowInv, [Next]_storeVars, NEW j \in Present, jobs[j].cancel
               PROVE  \/ jobs'[j].status = "deleted"
                      \/ /\ jobs'[j].status \in {jobs[j].status, "cancelled"}
                         /\ jobs'[j].attempt = jobs[j].attempt
                      \/ /\ jobs[j].status = "cancelled" /\ jobs'[j].status = "queued"
                         /\ ~jobs'[j].cancel
    OBVIOUS
  <2> DEFINE r == jobs[j]
             s == jobs'[j]
  <2>1. j \in JobId /\ r.status \in JobStatus /\ r \in Row /\ RowStep(r, s) /\ CancelInv(r)
    BY NextRow DEF RowInv, TypeOK, Present
  <2>2. r.cancel
    OBVIOUS
  <2> HIDE DEF r, s
  <2>3. CASE s = r \/ Bills(r, s)
    BY <2>1, <2>3 DEF Bills, Row, r, s
  <2>4. CASE Ends(r, s)
    <3>1. s.status = "cancelled" /\ s.attempt = r.attempt
      BY <2>1, <2>2, <2>4, TransitionedColumns DEF Ends
    <3>2. QED
      BY <3>1 DEF r, s
  <2>5. CASE Resumes(r, s)
    <3>1. r.status = "cancelled"
      BY <2>1, <2>2, <2>5 DEF Resumes, CancelInv, Active, Terminal
    <3>2. s.status = "queued" /\ ~s.cancel
      BY <2>1, <2>5 DEF Resumes, Row
    <3>3. QED
      BY <3>1, <3>2 DEF r, s
  <2>6. CASE Deletes(r, s)
    <3>1. s.status = "deleted"
      BY <2>1, <2>6, WrittenColumns DEF Deletes
    <3>2. QED
      BY <3>1 DEF s
  <2>7. CASE Admits(r, s)
    BY <2>1, <2>7 DEF Admits, JobStatus, Active, Terminal
  <2>8. QED
    BY <2>1, <2>2, <2>3, <2>4, <2>5, <2>6, <2>7
       DEF RowStep, QuietStep, Leases, Claims, Renews, Collects, Requeues
<1>2. QED
  BY <1>1, RowInvHolds, PTL DEF Spec, CancellationWins

\* A terminal row changes only by a resumption, a deletion or the late usage
\* of a cancelled official capture, whatever stale caller still refers to it.
THEOREM TerminalKept == Spec => TerminalImmutable
<1>1. TypeOK /\ [Next]_storeVars =>
        [\A j \in InState(Terminal) :
           \/ jobs'[j].status \in {"queued", "deleted"}
           \/ jobs'[j] = jobs[j]
           \/ jobs[j].cancel /\ jobs'[j] = [jobs[j] EXCEPT !.usage = jobs'[j].usage]]_storeVars
  <2> SUFFICES ASSUME TypeOK, [Next]_storeVars, NEW j \in InState(Terminal)
               PROVE  \/ jobs'[j].status \in {"queued", "deleted"}
                      \/ jobs'[j] = jobs[j]
                      \/ jobs[j].cancel /\ jobs'[j] = [jobs[j] EXCEPT !.usage = jobs'[j].usage]
    OBVIOUS
  <2> DEFINE r == jobs[j]
             s == jobs'[j]
  <2>1. j \in JobId /\ r.status \in Terminal /\ r \in Row /\ RowStep(r, s)
    BY NextRow DEF TypeOK, InState
  <2>2. /\ r.status \notin Active
        /\ r.status \notin {"absent", "queued", "running"}
    BY <2>1 DEF Active, Terminal
  <2> HIDE DEF r, s
  <2>3. CASE Bills(r, s)
    <3>1. PICK u \in Nat : s = [r EXCEPT !.usage = u]
      BY <2>3 DEF Bills
    <3>2. s.usage = u
      BY <2>1, <3>1 DEF Row
    <3>3. r.cancel
      BY <2>3 DEF Bills
    <3>4. QED
      BY <3>1, <3>2, <3>3 DEF r, s
  <2>4. CASE Resumes(r, s)
    <3>1. s.status = "queued"
      BY <2>1, <2>4 DEF Resumes, Row
    <3>2. QED
      BY <3>1 DEF s
  <2>5. CASE Deletes(r, s)
    <3>1. s.status = "deleted"
      BY <2>1, <2>5, WrittenColumns DEF Deletes
    <3>2. QED
      BY <3>1 DEF s
  <2>6. CASE s = r
    BY <2>6 DEF r, s
  <2>7. QED
    BY <2>1, <2>2, <2>3, <2>4, <2>5, <2>6
       DEF RowStep, QuietStep, Admits, Leases, Claims, Renews, Collects, Ends, Requeues
<1>2. QED
  BY <1>1, TypeCorrect, PTL DEF Spec, TerminalImmutable

\* A job that a rate limit or a lost session ended is never queued again.
THEOREM RateLimitKept == Spec => RateLimitIsFinal
<1>1. TypeOK /\ [Next]_storeVars =>
        [\A j \in InState(Terminal \union {"waiting"}) :
           jobs[j].code \in NotResumable /\ ~jobs[j].cancel
             => jobs'[j].status \in Terminal \union {jobs[j].status, "deleted"}]_storeVars
  <2> SUFFICES ASSUME TypeOK, [Next]_storeVars, NEW j \in InState(Terminal \union {"waiting"}),
                      jobs[j].code \in NotResumable
               PROVE  jobs'[j].status \in Terminal \union {jobs[j].status, "deleted"}
    OBVIOUS
  <2> DEFINE r == jobs[j]
             s == jobs'[j]
  <2>1. /\ j \in JobId /\ r.status \in Terminal \union {"waiting"} /\ r \in Row
        /\ RowStep(r, s) /\ r.code \in NotResumable
    BY NextRow DEF TypeOK, InState
  <2>2. r.status \notin {"absent", "queued", "running"}
    BY <2>1 DEF Terminal
  <2> HIDE DEF r, s
  <2>3. CASE s = r \/ Bills(r, s)
    <3>1. s.status = r.status
      BY <2>1, <2>3 DEF Bills, Row
    <3>2. QED
      BY <3>1 DEF r, s
  <2>4. CASE Ends(r, s)
    <3>1. s.status \in Terminal
      BY <2>1, <2>4, TransitionedColumns DEF Ends
    <3>2. QED
      BY <3>1 DEF s
  <2>5. CASE Deletes(r, s)
    <3>1. s.status = "deleted"
      BY <2>1, <2>5, WrittenColumns DEF Deletes
    <3>2. QED
      BY <3>1 DEF s
  <2>6. QED
    BY <2>1, <2>2, <2>3, <2>4, <2>5
       DEF RowStep, QuietStep, Admits, Leases, Claims, Renews, Collects, Resumes, Requeues
<1>2. QED
  BY <1>1, TypeCorrect, PTL DEF Spec, RateLimitIsFinal

-----------------------------------------------------------------------------
(* Queue numbers and idempotency keys: what two rows owe each other *)

\* A quiet transaction keeps the queue number and the request of every row that
\* it leaves in the table, and it adds none.
LEMMA QuietColumns ==
  ASSUME NEW r \in Row, NEW s, QuietStep(r, s), s.status \in JobStatus
  PROVE  r.status \in JobStatus /\ s.seq = r.seq /\ s.req = r.req
<1>0. {"queued", "running", "cancelled"} \subseteq JobStatus /\ Active \subseteq JobStatus
  BY DEF JobStatus, Active, Terminal
<1>1. CASE s = r
  BY <1>1
<1>2. CASE Leases(r, s) \/ Claims(r, s)
  <2>1. s.seq = r.seq /\ s.req = r.req
    BY <1>2, ZenonT(60) DEF Leases, Claims, StartedRow, Row
  <2>2. QED
    BY <1>0, <1>2, <2>1 DEF Leases, Claims
<1>3. CASE Renews(r, s) \/ Collects(r, s) \/ Bills(r, s)
  <2>1. s.seq = r.seq /\ s.req = r.req
    BY <1>3 DEF Renews, Collects, Bills, Row
  <2>2. QED
    BY <1>0, <1>3, <2>1 DEF Renews, Collects, Bills
<1>4. CASE Ends(r, s)
  <2>1. s.seq = r.seq /\ s.req = r.req
    BY <1>4 DEF Ends, TransitionedRow, Row
  <2>2. QED
    BY <1>0, <1>4, <2>1 DEF Ends
<1>5. CASE Requeues(r, s)
  <2>1. s.seq = r.seq /\ s.req = r.req
    BY <1>5 DEF Requeues, RequeuedRow, Row
  <2>2. QED
    BY <1>0, <1>5, <2>1 DEF Requeues
<1>6. CASE Deletes(r, s)
  <2>1. s.status = "deleted"
    BY <1>6, WrittenColumns DEF Deletes
  <2>2. QED
    BY <2>1 DEF JobStatus, Active, Terminal
<1>7. QED
  BY <1>1, <1>2, <1>3, <1>4, <1>5, <1>6 DEF QuietStep

\* The columns of an admission that the theorems of this section speak about.
LEMMA AdmittedColumns ==
  ASSUME NEW q \in Request, NEW manifest \in SUBSET Request, NEW n \in Nat
  PROVE  /\ AdmittedRow(q, manifest, n).req = q /\ AdmittedRow(q, manifest, n).seq = n
         /\ AdmittedRow(q, manifest, n).status = "queued"
BY DEF AdmittedRow, NoRow

\* What is never taken back: an id that was used stays used, for the request it
\* was used for, and a deleted row never returns.
LEMMA IdentityKept ==
  ASSUME NEW r \in Row, NEW s, RowStep(r, s), r.status # "absent"
  PROVE  /\ s.status # "absent" /\ s.req = r.req /\ s.manifest = r.manifest
         /\ r.status = "deleted" => s.status = "deleted"
<1>0. /\ "absent" \notin JobStatus /\ "deleted" \notin JobStatus
      /\ Terminal \subseteq JobStatus /\ Active \subseteq JobStatus
      /\ {"queued", "running", "cancelled"} \subseteq JobStatus
  BY DEF JobStatus, Active, Terminal
<1>1. CASE s = r
  BY <1>1
<1>2. CASE Leases(r, s) \/ Claims(r, s)
  <2>1. s.req = r.req /\ s.manifest = r.manifest /\ s.status = "running"
    BY <1>2, ZenonT(60) DEF Leases, Claims, StartedRow, Row
  <2>2. QED
    BY <1>0, <1>2, <2>1 DEF Leases, Claims
<1>3. CASE Renews(r, s) \/ Collects(r, s) \/ Bills(r, s)
  <2>1. s.req = r.req /\ s.manifest = r.manifest /\ s.status = r.status
    BY <1>3 DEF Renews, Collects, Bills, Row
  <2>2. QED
    BY <1>0, <1>3, <2>1 DEF Renews, Collects, Bills
<1>4. CASE Ends(r, s)
  <2>1. PICK target \in Terminal \union {"waiting"}, code \in Code, retryable \in BOOLEAN, time \in Time :
          s = TransitionedRow(r, target, code, retryable, time)
    BY <1>4 DEF Ends
  <2>2. s.status \in Terminal
    BY <2>1, TransitionedColumns
  <2>3. s.req = r.req /\ s.manifest = r.manifest
    BY <2>1 DEF TransitionedRow, Row
  <2>4. QED
    BY <1>0, <1>4, <2>2, <2>3 DEF Ends
<1>5. CASE Requeues(r, s)
  <2>1. s.req = r.req /\ s.manifest = r.manifest /\ s.status = "queued"
    BY <1>5 DEF Requeues, RequeuedRow, Row
  <2>2. QED
    BY <1>0, <1>5, <2>1 DEF Requeues
<1>6. CASE Resumes(r, s)
  <2>1. s.req = r.req /\ s.manifest = r.manifest /\ s.status = "queued"
    BY <1>6 DEF Resumes, Row
  <2>2. QED
    BY <1>0, <1>6, <2>1 DEF Resumes
<1>7. CASE Deletes(r, s)
  <2>1. s.req = r.req /\ s.manifest = r.manifest /\ s.status = "deleted"
    BY <1>7 DEF Deletes, Tombstone, NoRow
  <2>2. QED
    BY <1>0, <1>7, <2>1 DEF Deletes
<1>8. CASE Admits(r, s)
  BY <1>8 DEF Admits
<1>9. QED
  BY <1>1, <1>2, <1>3, <1>4, <1>5, <1>6, <1>7, <1>8 DEF RowStep, QuietStep

\* A row that is written with a number behind every other row keeps numbers unique.
LEMMA WrittenLast ==
  ASSUME TypeOK, SequenceUnique, NEW j \in JobId, NEW s, NEW n \in Nat,
         jobs' = [jobs EXCEPT ![j] = s], s.seq = n, \A k \in Present : jobs[k].seq < n
  PROVE  SequenceUnique'
<1> SUFFICES ASSUME NEW k \in JobId, NEW l \in JobId, jobs'[k].status \in JobStatus,
                    jobs'[l].status \in JobStatus, jobs'[k].seq = jobs'[l].seq
             PROVE  k = l
  BY DEF SequenceUnique, Present
<1>1. ASSUME NEW i \in JobId, i # j, jobs'[i].status \in JobStatus
      PROVE  i \in Present /\ jobs'[i] = jobs[i] /\ jobs'[i].seq \in Nat /\ jobs'[i].seq < n
  BY <1>1 DEF TypeOK, Present, Row
<1>2. jobs'[j].seq = n
  BY DEF TypeOK
<1>3. QED
  BY <1>1, <1>2 DEF SequenceUnique

\* Numbers stay unique: MAX + 1 is taken in the transaction that writes the row.
LEMMA SequenceStep == TypeOK /\ SequenceUnique /\ [Next]_storeVars => SequenceUnique'
<1> SUFFICES ASSUME TypeOK, SequenceUnique, [Next]_storeVars PROVE SequenceUnique'
  OBVIOUS
<1>1. ASSUME NEW q \in Request, NEW j \in JobId, AdmitJob(q, j) PROVE SequenceUnique'
  <2>1. PICK n \in 1..MaxSequence :
               NextSequence(n) /\ jobs' = [jobs EXCEPT ![j] = AdmittedRow(q, {}, n)]
    BY <1>1 DEF AdmitJob
  <2>2. n \in Nat /\ \A k \in Present : jobs[k].seq < n
    BY <2>1, JobStoreAssumption DEF NextSequence
  <2>3. AdmittedRow(q, {}, n).seq = n
    BY <2>2, AdmittedColumns
  <2>4. QED
    BY <2>1, <2>2, <2>3, WrittenLast
<1>2. ASSUME NEW batch \in SUBSET Request, NEW b, AdmitBatch(batch, b) PROVE SequenceUnique'
  <2>1. PICK new, f : BatchEffect(batch, new, f)
    BY <1>2, BatchPlaced
  <2>2. /\ \A q \in new : /\ q \in Request /\ f[q].id \in JobId /\ f[q].seq \in Nat
                         /\ jobs'[f[q].id] = AdmittedRow(q, batch, f[q].seq)
                         /\ \A k \in Present : jobs[k].seq < f[q].seq
        /\ \A q, r \in new : q # r => f[q].id # f[r].id /\ f[q].seq # f[r].seq
        /\ \A k \in JobId : (\A q \in new : f[q].id # k) => jobs'[k] = jobs[k]
    BY <2>1 DEF BatchEffect
  <2>3. \A q \in new : jobs'[f[q].id].seq = f[q].seq
    BY <2>2, AdmittedColumns
  <2>4. \A k \in Present : jobs[k].seq \in Nat
    BY DEF TypeOK, Present, Row
  <2> SUFFICES ASSUME NEW k \in JobId, NEW l \in JobId, jobs'[k].status \in JobStatus,
                      jobs'[l].status \in JobStatus, jobs'[k].seq = jobs'[l].seq
               PROVE  k = l
    BY DEF SequenceUnique, Present
  <2>5. CASE (\E q \in new : f[q].id = k) /\ (\E r \in new : f[r].id = l)
    <3>1. PICK q \in new : f[q].id = k
      BY <2>5
    <3>2. PICK r \in new : f[r].id = l
      BY <2>5
    <3>3. f[q].seq = f[r].seq
      BY <2>3, <3>1, <3>2
    <3>4. QED
      BY <2>2, <3>1, <3>2, <3>3
  <2>6. ASSUME NEW q \in new, NEW i \in JobId, jobs'[i].status \in JobStatus,
               \A r \in new : f[r].id # i
        PROVE  i \in Present /\ jobs'[i] = jobs[i] /\ jobs'[i].seq # jobs'[f[q].id].seq
    <3>1. jobs'[i] = jobs[i] /\ i \in Present
      BY <2>2, <2>6 DEF Present
    <3>2. jobs[i].seq < f[q].seq /\ jobs[i].seq \in Nat /\ f[q].seq \in Nat
      BY <2>2, <2>4, <3>1
    <3>3. QED
      BY <2>3, <3>1, <3>2
  <2>7. CASE (\A q \in new : f[q].id # k) /\ (\A r \in new : f[r].id # l)
    <3>1. jobs'[k] = jobs[k] /\ jobs'[l] = jobs[l] /\ k \in Present /\ l \in Present
      BY <2>2, <2>7 DEF Present
    <3>2. QED
      BY <3>1 DEF SequenceUnique
  <2>8. QED
    BY <2>5, <2>6, <2>7
<1>3. ASSUME NEW j \in JobId, ResumeJob(j) PROVE SequenceUnique'
  <2> DEFINE resumed(n) == [jobs[j] EXCEPT !.status = "queued", !.cancel = FALSE,
                               !.code = NoCode, !.retryable = FALSE, !.snapshot = NoSnapshot,
                               !.owner = NoWorker, !.expiry = NoTime, !.seq = n]
  <2>1. PICK n \in 1..MaxSequence : NextSequence(n) /\ jobs' = [jobs EXCEPT ![j] = resumed(n)]
    BY <1>3 DEF ResumeJob
  <2>2. n \in Nat /\ \A k \in Present : jobs[k].seq < n
    BY <2>1, JobStoreAssumption DEF NextSequence
  <2>3. resumed(n).seq = n
    BY DEF TypeOK, Row
  <2> HIDE DEF resumed
  <2>4. QED
    BY <2>1, <2>2, <2>3, WrittenLast
<1>4. ASSUME \A k \in JobId : QuietStep(jobs[k], jobs'[k]) PROVE SequenceUnique'
  <2>1. ASSUME NEW k \in JobId, jobs'[k].status \in JobStatus
        PROVE  k \in Present /\ jobs'[k].seq = jobs[k].seq
    BY <1>4, <2>1, QuietColumns DEF TypeOK, Present
  <2>2. QED
    BY <2>1 DEF SequenceUnique, Present
<1>5. QED
  BY <1>1, <1>2, <1>3, <1>4, NextShape

\* enqueue_sequence stays unique: MAX + 1 is taken in the transaction that
\* writes the row, by admissions, batches and resumptions alike.
THEOREM SequenceNumbersUnique == Spec => []SequenceUnique
<1>1. Init => SequenceUnique
  <2> SUFFICES ASSUME Init, NEW j \in Present, NEW k \in Present, jobs[j].seq = jobs[k].seq
               PROVE  j = k
    BY DEF SequenceUnique
  <2>1. ASSUME NEW i \in Present PROVE i \in Legacy
    BY DEF Init, Present, NoRow, JobStatus, Active, Terminal
  <2>2. QED
    BY <2>1 DEF Init
<1>2. QED
  BY <1>1, SequenceStep, TypeCorrect, PTL DEF Spec

\* A resumption keeps every request and adds no row.
LEMMA ResumeColumns ==
  ASSUME TypeOK, NEW j \in JobId, ResumeJob(j)
  PROVE  /\ j \in InState(Terminal) /\ jobs'[j].status = "queued" /\ jobs'[j].req = jobs[j].req
         /\ \A k \in JobId \ {j} : jobs'[k] = jobs[k]
         /\ lastStatus' = lastStatus
<1> DEFINE resumed(n) == [jobs[j] EXCEPT !.status = "queued", !.cancel = FALSE,
                             !.code = NoCode, !.retryable = FALSE, !.snapshot = NoSnapshot,
                             !.owner = NoWorker, !.expiry = NoTime, !.seq = n]
<1>1. PICK n \in 1..MaxSequence : jobs' = [jobs EXCEPT ![j] = resumed(n)]
  BY DEF ResumeJob
<1>2. resumed(n).status = "queued" /\ resumed(n).req = jobs[j].req
  BY DEF TypeOK, Row
<1>3. jobs[j].status \in Terminal
  BY Literals DEF ResumeJob, CanResume
<1> HIDE DEF resumed
<1>4. jobs'[j] = resumed(n) /\ \A k \in JobId \ {j} : jobs'[k] = jobs[k]
  BY <1>1 DEF TypeOK
<1>5. QED
  BY <1>2, <1>3, <1>4 DEF InState, ResumeJob

\* A row runs after a step because it ran before or was queued.
LEMMA RunningColumns ==
  ASSUME NEW r \in Row, NEW s, RowStep(r, s), s.status = "running"
  PROVE  \/ r.status = "queued"
         \/ r.status = "running" /\ s.owner = r.owner
<1>0. "running" \notin Terminal \union {"absent", "deleted", "cancelled"}
  BY DEF Terminal
<1>1. CASE s = r \/ Leases(r, s) \/ Claims(r, s)
  <2>1. (r.status = "running" /\ s.owner = r.owner) \/ r.status = "queued"
    BY <1>1 DEF Leases, Claims
  <2>2. QED
    BY <2>1
<1>2. CASE Renews(r, s) \/ Collects(r, s) \/ Bills(r, s)
  <2>1. s.status = r.status /\ s.owner = r.owner
    BY <1>2 DEF Renews, Collects, Bills, Row
  <2>2. QED
    BY <2>1
<1>3. CASE Ends(r, s)
  <2>1. PICK target \in Terminal \union {"waiting"}, code \in Code, retryable \in BOOLEAN, time \in Time :
          s = TransitionedRow(r, target, code, retryable, time)
    BY <1>3 DEF Ends
  <2>2. s.status \in Terminal
    BY <2>1, TransitionedColumns
  <2>3. QED
    BY <1>0, <2>2
<1>4. CASE Requeues(r, s) \/ Resumes(r, s)
  <2>1. s.status = "queued"
    BY <1>4 DEF Requeues, RequeuedRow, Resumes, Row
  <2>2. QED
    BY <2>1
<1>5. CASE Deletes(r, s) \/ Admits(r, s)
  <2>1. s.status \in {"deleted", "queued"}
    BY <1>5 DEF Deletes, Tombstone, Admits, AdmittedRow, NoRow
  <2>2. QED
    BY <2>1
<1>6. QED
  BY <1>1, <1>2, <1>3, <1>4, <1>5 DEF RowStep, QuietStep

\* A row that is queued after a step is not cancelled unless it was so before,
\* and a row that was there keeps its deadline.
LEMMA QueuedColumns ==
  ASSUME NEW r \in Row, NEW s, RowStep(r, s), s.status = "queued"
  PROVE  /\ s = r \/ ~s.cancel
         /\ r.status # "absent" => s.deadline = r.deadline
<1>0. "queued" \notin Terminal \union {"absent", "deleted", "cancelled", "running"}
  BY DEF Terminal
<1>1. CASE s = r
  BY <1>1
<1>2. CASE Leases(r, s) \/ Claims(r, s)
  <2>1. s.status = "running"
    BY <1>2 DEF Leases, Claims, StartedRow, Row
  <2>2. QED
    BY <1>0, <2>1
<1>3. CASE Renews(r, s) \/ Collects(r, s) \/ Bills(r, s)
  <2>1. s.status = r.status /\ r.status \in {"running", "cancelled"}
    BY <1>3 DEF Renews, Collects, Bills, Row
  <2>2. QED
    BY <1>0, <2>1
<1>4. CASE Ends(r, s)
  <2>1. PICK target \in Terminal \union {"waiting"}, code \in Code, retryable \in BOOLEAN, time \in Time :
          s = TransitionedRow(r, target, code, retryable, time)
    BY <1>4 DEF Ends
  <2>2. s.status \in Terminal
    BY <2>1, TransitionedColumns
  <2>3. QED
    BY <1>0, <2>2
<1>5. CASE Requeues(r, s) \/ Resumes(r, s)
  <2>1. ~s.cancel /\ s.deadline = r.deadline
    BY <1>5 DEF Requeues, RequeuedRow, Resumes, Row
  <2>2. QED
    BY <2>1
<1>6. CASE Deletes(r, s)
  <2>1. s.status = "deleted"
    BY <1>6 DEF Deletes, Tombstone, NoRow
  <2>2. QED
    BY <1>0, <2>1
<1>7. CASE Admits(r, s)
  <2>1. ~s.cancel /\ r.status = "absent"
    BY <1>7, WrittenColumns DEF Admits
  <2>2. QED
    BY <2>1
<1>8. QED
  BY <1>1, <1>2, <1>3, <1>4, <1>5, <1>6, <1>7 DEF RowStep, QuietStep

\* Every transaction but a lease and a claim.
NoStart ==
  \/ \E q \in Request, j \in JobId : AdmitJob(q, j)
  \/ \E batch \in SUBSET Request : \E b \in {q.batch : q \in batch} : AdmitBatch(batch, b)
  \/ \E j \in JobId, w \in Worker, e \in Time : HeartbeatJob(j, w, e)
  \/ \E j \in JobId, batch \in SUBSET Post, u \in 0..MaxUsage : AddPosts(j, batch, u)
  \/ \E j \in JobId, u \in 1..MaxUsage : RecordCancelledUsage(j, u)
  \/ \E j \in JobId, partial \in BOOLEAN, w \in Worker \union {NoWorker} : FinishJob(j, partial, w)
  \/ \E j \in JobId, f \in Failure, w \in Worker \union {NoWorker} : FailJob(j, f, w)
  \/ \E j \in JobId, w \in Worker \union {NoWorker} : WaitJob(j, w)
  \/ \E j \in JobId : RequestCancel(j) \/ ResumeJob(j) \/ RecoverRow(j) \/ DeleteJob(j)
  \/ RequeueAbandoned
  \/ \E keep \in 0..Cardinality(JobId), cutoff \in 1..(MaxTime + 1) : PurgeSnapshots(keep, cutoff)
  \/ Tick

\* A transition leaves no running row behind.
LEMMA TransitionStops ==
  ASSUME TypeOK, NEW j \in JobId, NEW allowed \in SUBSET Active,
         NEW target \in Terminal \union {"waiting"}, NEW code \in Code,
         NEW retryable \in BOOLEAN, NEW w, Transition(j, allowed, target, code, retryable, w)
  PROVE  \A k \in JobId : IF k = j THEN jobs'[k].status \in Terminal ELSE jobs'[k] = jobs[k]
<1> DEFINE s == TransitionedRow(jobs[j], target, code, retryable, now)
<1>1. jobs[j] \in Row /\ now \in Time /\ jobs' = [jobs EXCEPT ![j] = s]
  BY DEF Transition, TypeOK
<1>2. s.status \in Terminal
  BY <1>1, TransitionedColumns
<1> HIDE DEF s
<1>3. QED
  BY <1>1, <1>2 DEF TypeOK

\* Without a lease or a claim no queued row starts.
LEMMA NothingStarts ==
  ASSUME TypeOK, [NoStart]_storeVars, NEW k \in JobId, jobs[k].status = "queued"
  PROVE  jobs'[k].status # "running"
<1>0. jobs \in [JobId -> Row] /\ "running" \notin Terminal
  BY DEF TypeOK, Terminal
<1>1. ASSUME NEW q \in Request, NEW j \in JobId, AdmitJob(q, j) PROVE jobs'[k].status # "running"
  <2>1. PICK n \in 1..MaxSequence : jobs' = [jobs EXCEPT ![j] = AdmittedRow(q, {}, n)]
    BY <1>1 DEF AdmitJob
  <2>2. jobs[j].status = "absent"
    BY <1>1 DEF AdmitJob, Unused
  <2>3. QED
    BY <1>0, <2>1, <2>2
<1>2. ASSUME NEW batch \in SUBSET Request, NEW b, AdmitBatch(batch, b)
      PROVE  jobs'[k].status # "running"
  <2>1. PICK new, f : BatchEffect(batch, new, f)
    BY <1>2, BatchPlaced
  <2>2. jobs'[k] = jobs[k]
    BY <2>1 DEF BatchEffect
  <2>3. QED
    BY <2>2
<1>3. ASSUME NEW j \in JobId, NEW w, NEW e, HeartbeatJob(j, w, e) PROVE jobs'[k].status # "running"
  BY <1>0, <1>3 DEF HeartbeatJob, CanHeartbeat
<1>4. ASSUME NEW j \in JobId, NEW batch, NEW u, AddPosts(j, batch, u) PROVE jobs'[k].status # "running"
  BY <1>0, <1>4 DEF AddPosts, Writable
<1>5. ASSUME NEW j \in JobId, NEW u, RecordCancelledUsage(j, u) PROVE jobs'[k].status # "running"
  BY <1>0, <1>5 DEF RecordCancelledUsage
<1>6. ASSUME NEW j \in JobId, NEW allowed \in SUBSET Active,
             NEW target \in Terminal \union {"waiting"}, NEW code \in Code,
             NEW retryable \in BOOLEAN, NEW w, Transition(j, allowed, target, code, retryable, w)
      PROVE  jobs'[k].status # "running"
  BY <1>0, <1>6, TransitionStops
<1>7. {"running"} \in SUBSET Active /\ {"waiting"} \in SUBSET Active
  BY Literals
<1>8. ASSUME NEW j \in JobId, NEW partial \in BOOLEAN, NEW w, FinishJob(j, partial, w)
      PROVE  jobs'[k].status # "running"
  <2>1. (IF partial THEN "partial" ELSE "succeeded") \in Terminal /\ NoCode \in Code
    BY Literals
  <2>2. QED
    BY <1>6, <1>7, <1>8, <2>1 DEF FinishJob
<1>9. ASSUME NEW j \in JobId, NEW f \in Failure, NEW w, FailJob(j, f, w)
      PROVE  jobs'[k].status # "running"
  <2>1. f.status \in Terminal /\ f.code \in Code /\ f.retryable \in BOOLEAN
    BY FailureType, FailureEnds
  <2>2. QED
    BY <1>6, <1>9, <2>1 DEF FailJob
<1>10. ASSUME NEW j \in JobId, NEW w, WaitJob(j, w) PROVE jobs'[k].status # "running"
  BY <1>6, <1>7, <1>10, Literals DEF WaitJob
<1>11. ASSUME NEW j \in JobId, RequestCancel(j) PROVE jobs'[k].status # "running"
  BY <1>6, <1>11, Literals DEF RequestCancel
<1>12. ASSUME NEW j \in JobId, ResumeJob(j) PROVE jobs'[k].status # "running"
  BY <1>0, <1>12, ResumeColumns
<1>13. ASSUME NEW j \in JobId, RecoverRow(j) PROVE jobs'[k].status # "running"
  <2> DEFINE target == IF jobs[j].collected > 0 THEN "partial" ELSE "failed"
             code == IF jobs[j].code \in NotRequeued THEN jobs[j].code ELSE "deadline_exceeded"
  <2>1. target \in Terminal /\ code \in Code
    BY <1>0, Literals DEF Row
  <2>2. CASE Transition(j, Active, "cancelled", "cancelled", TRUE, NoWorker)
    BY <1>6, <2>2, Literals
  <2>3. CASE Transition(j, {"waiting"}, "waiting", "rate_limited", FALSE, NoWorker)
    BY <1>6, <1>7, <2>3, Literals
  <2>4. CASE Transition(j, Active, target, code, FALSE, NoWorker)
    <3> HIDE DEF target, code
    <3>1. QED
      BY <1>6, <2>1, <2>4
  <2>5. QED
    BY <1>13, <2>2, <2>3, <2>4 DEF RecoverRow
<1>14. ASSUME NEW S, Delete(S) PROVE jobs'[k].status # "running"
  BY <1>0, <1>14 DEF Delete, Tombstone, NoRow
<1>15. CASE RequeueAbandoned
  BY <1>0, <1>15 DEF RequeueAbandoned, Abandoned
<1>16. CASE Tick \/ UNCHANGED storeVars
  BY <1>16 DEF Tick, storeVars
<1>17. QED
  BY <1>1, <1>2, <1>3, <1>4, <1>5, <1>8, <1>9, <1>10, <1>11, <1>12, <1>13, <1>14, <1>15, <1>16
     DEF NoStart, DeleteJob, PurgeSnapshots

\* So whoever runs after such a transaction ran before, with the same owner.
LEMMA StillRunning ==
  ASSUME TypeOK, [NoStart]_storeVars, NEW k \in JobId, jobs'[k].status = "running"
  PROVE  jobs[k].status = "running" /\ jobs'[k].owner = jobs[k].owner
<1>1. [Next]_storeVars
  BY DEF NoStart, Next
<1>2. jobs[k] \in Row /\ RowStep(jobs[k], jobs'[k])
  BY <1>1, NextRow DEF TypeOK
<1>3. QED
  BY <1>2, RunningColumns, NothingStarts

\* An idempotency key never belongs to two rows, whatever single admissions and
\* batches with that key race, and whatever was deleted or resumed in between.
THEOREM KeysUnique == Spec => []OneRowPerKey
<1>1. Init => OneRowPerKey
  <2> SUFFICES ASSUME Init, NEW j \in Present PROVE jobs[j].req.key = NoKey
    BY DEF OneRowPerKey
  <2>1. jobs[j] \in LegacyRow
    BY DEF Init, Present, NoRow, JobStatus, Active, Terminal
  <2>2. jobs[j].req = LegacyRequest
    BY <2>1 DEF LegacyRow
  <2>3. QED
    BY <2>2, JobStoreAssumption
<1>2. TypeOK /\ OneRowPerKey /\ [Next]_storeVars => OneRowPerKey'
  <2> SUFFICES ASSUME TypeOK, OneRowPerKey, [Next]_storeVars,
                      NEW k \in JobId, NEW l \in JobId, k # l, jobs'[k].status \in JobStatus,
                      jobs'[l].status \in JobStatus, jobs'[k].req.key = jobs'[l].req.key
               PROVE  jobs'[k].req.key = NoKey
    BY DEF OneRowPerKey, Present
  <2>1. ASSUME NEW q \in Request, NEW j \in JobId, AdmitJob(q, j)
        PROVE  jobs'[k].req.key = NoKey
    <3>1. PICK n \in 1..MaxSequence : jobs' = [jobs EXCEPT ![j] = AdmittedRow(q, {}, n)]
      BY <2>1 DEF AdmitJob
    <3>2. AdmittedRow(q, {}, n).req = q
      BY JobStoreAssumption, AdmittedColumns
    <3>3. jobs'[j].req = q /\ \A i \in JobId \ {j} : jobs'[i] = jobs[i]
      BY <3>1, <3>2 DEF TypeOK
    <3>4. q.key # NoKey => \A i \in Present : jobs[i].req.key # q.key
      BY <2>1 DEF AdmitJob, Existing
    <3>5. \A i \in JobId \ {j} : jobs'[i].status \in JobStatus => i \in Present
      BY <3>3 DEF Present
    <3>6. CASE k # j /\ l # j
      BY <3>3, <3>5, <3>6 DEF OneRowPerKey
    <3>7. CASE k = j
      <4>1. jobs'[l] = jobs[l] /\ l \in Present
        BY <3>3, <3>5, <3>7
      <4>2. jobs[l].req.key = q.key
        BY <3>3, <3>7, <4>1
      <4>3. QED
        BY <3>3, <3>4, <3>7, <4>1, <4>2
    <3>8. CASE l = j
      <4>1. jobs'[k] = jobs[k] /\ k \in Present
        BY <3>3, <3>5, <3>8
      <4>2. jobs[k].req.key = q.key
        BY <3>3, <3>8, <4>1
      <4>3. QED
        BY <3>4, <4>1, <4>2
    <3>9. QED
      BY <3>6, <3>7, <3>8
  <2>2. ASSUME NEW batch \in SUBSET Request, NEW b, AdmitBatch(batch, b)
        PROVE  jobs'[k].req.key = NoKey
    <3>1. PICK new, f : BatchEffect(batch, new, f)
      BY <2>2, BatchPlaced
    <3>2. /\ \A q \in new : /\ q \in batch /\ q \in Request /\ f[q].seq \in Nat
                           /\ jobs'[f[q].id] = AdmittedRow(q, batch, f[q].seq)
          /\ \A i \in JobId : (\A q \in new : f[q].id # i) => jobs'[i] = jobs[i]
      BY <3>1 DEF BatchEffect
    <3>3. \A q \in new : jobs'[f[q].id].req = q
      BY <3>2, AdmittedColumns
    <3>4. \A q, r \in new : q.key = r.key => q = r
      BY <2>2, <3>2 DEF AdmitBatch
    <3>5. \A q \in new : \A i \in Present : jobs[i].req.key = q.key => q.key = NoKey
      BY <3>1 DEF BatchEffect, Existing
    <3>6. ASSUME NEW i \in JobId, jobs'[i].status \in JobStatus, \A q \in new : f[q].id # i
          PROVE  i \in Present /\ jobs'[i] = jobs[i]
      BY <3>2, <3>6 DEF Present
    <3>7. CASE (\A q \in new : f[q].id # k) /\ (\A r \in new : f[r].id # l)
      <4>1. k \in Present /\ l \in Present /\ jobs'[k] = jobs[k] /\ jobs'[l] = jobs[l]
        BY <3>6, <3>7
      <4>2. QED
        BY <4>1 DEF OneRowPerKey
    <3>8. CASE \E q \in new : f[q].id = k
      <4>1. PICK q \in new : f[q].id = k
        BY <3>8
      <4>2. CASE \E r \in new : f[r].id = l
        <5>1. PICK r \in new : f[r].id = l
          BY <4>2
        <5>2. q = r
          BY <3>3, <3>4, <4>1, <5>1
        <5>3. QED
          BY <4>1, <5>1, <5>2
      <4>3. CASE \A r \in new : f[r].id # l
        <5>1. jobs'[l] = jobs[l] /\ l \in Present
          BY <3>6, <4>3
        <5>2. jobs'[k].req = q
          BY <3>3, <4>1
        <5>3. QED
          BY <3>5, <5>1, <5>2
      <4>4. QED
        BY <4>2, <4>3
    <3>9. CASE (\E r \in new : f[r].id = l) /\ (\A q \in new : f[q].id # k)
      <4>1. PICK r \in new : f[r].id = l
        BY <3>9
      <4>2. jobs'[k] = jobs[k] /\ k \in Present
        BY <3>6, <3>9
      <4>3. jobs'[l].req = r
        BY <3>3, <4>1
      <4>4. QED
        BY <3>5, <4>1, <4>2, <4>3
    <3>10. QED
      BY <3>7, <3>8, <3>9
  <2>3. ASSUME \A i \in JobId : jobs'[i].status \in JobStatus =>
                                   i \in Present /\ jobs'[i].req = jobs[i].req
        PROVE  jobs'[k].req.key = NoKey
    BY <2>3 DEF OneRowPerKey
  <2>4. ASSUME NEW j \in JobId, ResumeJob(j) PROVE jobs'[k].req.key = NoKey
    <3>1. j \in Present
      BY <2>4, ResumeColumns DEF InState, Present, JobStatus
    <3>2. \A i \in JobId : jobs'[i].status \in JobStatus =>
                             i \in Present /\ jobs'[i].req = jobs[i].req
      BY <2>4, <3>1, ResumeColumns DEF Present
    <3>3. QED
      BY <2>3, <3>2
  <2>5. ASSUME \A i \in JobId : QuietStep(jobs[i], jobs'[i]) PROVE jobs'[k].req.key = NoKey
    <3>1. \A i \in JobId : jobs'[i].status \in JobStatus =>
                             i \in Present /\ jobs'[i].req = jobs[i].req
      BY <2>5, QuietColumns DEF TypeOK, Present
    <3>2. QED
      BY <2>3, <3>1
  <2>6. QED
    BY <2>1, <2>2, <2>4, <2>5, NextShape
<1>3. QED
  BY <1>1, <1>2, TypeCorrect, PTL DEF Spec

-----------------------------------------------------------------------------
(* The status that a saved source shows *)

\* The end of a job marks its source with a terminal status and touches no other row.
LEMMA TransitionHonest ==
  ASSUME TypeOK, LastStatusHonest, NEW j \in JobId, NEW allowed,
         NEW target \in Terminal \union {"waiting"}, NEW code \in Code,
         NEW retryable \in BOOLEAN, NEW w, Transition(j, allowed, target, code, retryable, w)
  PROVE  LastStatusHonest'
<1> SUFFICES ASSUME NEW s \in SavedSource, lastStatus'[s] \in Active
             PROVE  \E k \in JobId : jobs'[k].status \in Active /\ jobs'[k].req.source = s
  BY DEF LastStatusHonest, InState
<1> DEFINE o == Outcome(jobs[j], target, code, retryable).status
<1>1. o \in Terminal
  BY Literals DEF Outcome
<1>2. o \notin Active
  BY <1>1 DEF Active, Terminal
<1>3. lastStatus' = Marked(jobs[j].req.source, o)
  BY DEF Transition
<1> HIDE DEF o
<1>4. s # jobs[j].req.source /\ lastStatus'[s] = lastStatus[s]
  BY <1>2, <1>3 DEF Marked, TypeOK
<1>5. PICK k \in JobId : jobs[k].status \in Active /\ jobs[k].req.source = s
  BY <1>4 DEF LastStatusHonest, InState
<1>6. jobs'[k] = jobs[k]
  BY <1>4, <1>5 DEF Transition, TypeOK
<1>7. QED
  BY <1>5, <1>6

\* A transaction that keeps every active row active, and every status, is honest.
LEMMA KeptHonest ==
  ASSUME LastStatusHonest, lastStatus' = lastStatus,
         \A k \in JobId : jobs[k].status \in Active =>
                             jobs'[k].status \in Active /\ jobs'[k].req = jobs[k].req
  PROVE  LastStatusHonest'
BY DEF LastStatusHonest, InState

\* A transaction that makes the row of a source active, marks the source and
\* keeps the other rows is honest.
LEMMA MarkedHonest ==
  ASSUME TypeOK, LastStatusHonest, NEW j \in JobId, NEW status,
         jobs'[j].status \in Active, lastStatus' = Marked(jobs'[j].req.source, status),
         \A k \in JobId \ {j} : jobs'[k] = jobs[k],
         jobs[j].status \in Active => jobs'[j].req = jobs[j].req
  PROVE  LastStatusHonest'
<1> SUFFICES ASSUME NEW s \in SavedSource, lastStatus'[s] \in Active
             PROVE  \E k \in JobId : jobs'[k].status \in Active /\ jobs'[k].req.source = s
  BY DEF LastStatusHonest, InState
<1>1. CASE s = jobs'[j].req.source
  BY <1>1
<1>2. CASE s # jobs'[j].req.source
  <2>1. lastStatus'[s] = lastStatus[s]
    BY <1>2 DEF Marked, TypeOK
  <2>2. PICK k \in JobId : jobs[k].status \in Active /\ jobs[k].req.source = s
    BY <2>1 DEF LastStatusHonest, InState
  <2>3. jobs'[k].status \in Active /\ jobs'[k].req.source = s
    BY <2>2
  <2>4. QED
    BY <2>3
<1>3. QED
  BY <1>1, <1>2

\* Removing terminal rows is honest.
LEMMA DeleteHonest ==
  ASSUME TypeOK, LastStatusHonest, NEW S, S \subseteq InState(Terminal), Delete(S)
  PROVE  LastStatusHonest'
<1>1. \A k \in JobId : jobs[k].status \in Active => k \notin S
  BY DEF InState, Active, Terminal
<1>2. \A k \in JobId : k \notin S => jobs'[k] = jobs[k]
  BY DEF Delete
<1>3. lastStatus' = lastStatus
  BY DEF Delete
<1>4. QED
  BY <1>1, <1>2, <1>3, KeptHonest

\* A saved source that is shown as queued or running has a job in progress:
\* every transaction that ends, starts or admits a job marks its source in the
\* same transaction, whichever jobs of the source interleave.
THEOREM SourcesHonest == Spec => []LastStatusHonest
<1>1. Init => LastStatusHonest
  BY DEF Init, LastStatusHonest, NoStatus, Active
<1>2. TypeOK /\ LastStatusHonest /\ [Next]_storeVars => LastStatusHonest'
  <2> SUFFICES ASSUME TypeOK, LastStatusHonest, [Next]_storeVars PROVE LastStatusHonest'
    OBVIOUS
  <2>0. jobs \in [JobId -> Row]
    BY DEF TypeOK
  <2>1. ASSUME NEW q \in Request, NEW j \in JobId, AdmitJob(q, j) PROVE LastStatusHonest'
    <3>1. PICK n \in 1..MaxSequence : jobs' = [jobs EXCEPT ![j] = AdmittedRow(q, {}, n)]
      BY <2>1 DEF AdmitJob
    <3> DEFINE s == AdmittedRow(q, {}, n)
    <3>2. s.req = q /\ s.status = "queued"
      BY JobStoreAssumption, AdmittedColumns
    <3> HIDE DEF s
    <3>3. jobs'[j] = s /\ \A k \in JobId \ {j} : jobs'[k] = jobs[k]
      BY <2>0, <3>1 DEF s
    <3>4. jobs[j].status \notin Active /\ lastStatus' = Marked(q.source, "queued")
      BY <2>1 DEF AdmitJob, Unused, Active
    <3>5. QED
      BY <3>2, <3>3, <3>4, Literals, MarkedHonest
  <2>2. ASSUME NEW batch \in SUBSET Request, NEW b, AdmitBatch(batch, b) PROVE LastStatusHonest'
    <3>1. PICK new, f : BatchEffect(batch, new, f)
      BY <2>2, BatchPlaced
    <3> SUFFICES ASSUME NEW s \in SavedSource, lastStatus'[s] \in Active
                 PROVE  \E k \in JobId : jobs'[k].status \in Active /\ jobs'[k].req.source = s
      BY DEF LastStatusHonest, InState
    <3>2. CASE \E q \in new : q.source = s
      <4>1. PICK q \in new : q.source = s
        BY <3>2
      <4>2. /\ q \in Request /\ f[q].id \in JobId /\ f[q].seq \in Nat
            /\ jobs'[f[q].id] = AdmittedRow(q, batch, f[q].seq)
        BY <3>1 DEF BatchEffect
      <4>3. jobs'[f[q].id].req = q /\ jobs'[f[q].id].status = "queued"
        BY <4>2, AdmittedColumns
      <4>4. QED
        BY <4>1, <4>2, <4>3, Literals
    <3>3. CASE ~\E q \in new : q.source = s
      <4>1. lastStatus'[s] = lastStatus[s]
        BY <3>1, <3>3 DEF BatchEffect
      <4>2. PICK k \in JobId : jobs[k].status \in Active /\ jobs[k].req.source = s
        BY <4>1 DEF LastStatusHonest, InState
      <4>3. \A q \in new : f[q].id # k
        BY <3>1, <4>2 DEF BatchEffect, Active
      <4>4. jobs'[k] = jobs[k]
        BY <3>1, <4>3 DEF BatchEffect
      <4>5. QED
        BY <4>2, <4>4
    <3>4. QED
      BY <3>2, <3>3
  <2>3. ASSUME NEW j \in JobId, NEW w, NEW e, jobs[j].status = "queued",
               jobs' = [jobs EXCEPT ![j] = StartedRow(@, w, e)],
               lastStatus' = Marked(jobs[j].req.source, "running")
        PROVE  LastStatusHonest'
    <3> DEFINE s == StartedRow(jobs[j], w, e)
    <3>1. s.status = "running" /\ s.req = jobs[j].req
      BY <2>0 DEF StartedRow, Row
    <3> HIDE DEF s
    <3>2. jobs'[j] = s /\ \A k \in JobId \ {j} : jobs'[k] = jobs[k]
      BY <2>0, <2>3 DEF s
    <3>3. QED
      BY <2>3, <3>1, <3>2, Literals, MarkedHonest
  <2>4. ASSUME NEW j \in JobId, NEW w \in Worker, NEW e \in Time, LeaseJob(j, w, e)
        PROVE  LastStatusHonest'
    BY <2>3, <2>4 DEF LeaseJob, CanLease, Claimable
  <2>5. ASSUME NEW j \in JobId, ClaimJob(j) PROVE LastStatusHonest'
    <3>1. jobs' = [jobs EXCEPT ![j] = StartedRow(@, jobs[j].owner, jobs[j].expiry)]
      BY <2>5 DEF ClaimJob
    <3>2. QED
      BY <2>3, <2>5, <3>1 DEF ClaimJob, Claimable
  <2>6. ASSUME NEW j \in JobId, NEW w \in Worker, NEW e \in Time, HeartbeatJob(j, w, e)
        PROVE  LastStatusHonest'
    <3>1. lastStatus' = lastStatus /\ \A k \in JobId : jobs'[k].status = jobs[k].status
                                                    /\ jobs'[k].req = jobs[k].req
      BY <2>0, <2>6 DEF HeartbeatJob, Row
    <3>2. QED
      BY <3>1, KeptHonest
  <2>7. ASSUME NEW j \in JobId, NEW batch \in SUBSET Post, NEW u \in 0..MaxUsage,
               AddPosts(j, batch, u)
        PROVE  LastStatusHonest'
    <3>1. lastStatus' = lastStatus /\ \A k \in JobId : jobs'[k].status = jobs[k].status
                                                    /\ jobs'[k].req = jobs[k].req
      BY <2>0, <2>7 DEF AddPosts, Row
    <3>2. QED
      BY <3>1, KeptHonest
  <2>8. ASSUME NEW j \in JobId, NEW u \in 1..MaxUsage, RecordCancelledUsage(j, u)
        PROVE  LastStatusHonest'
    <3>1. lastStatus' = lastStatus /\ \A k \in JobId : jobs'[k].status = jobs[k].status
                                                    /\ jobs'[k].req = jobs[k].req
      BY <2>0, <2>8 DEF RecordCancelledUsage, Row
    <3>2. QED
      BY <3>1, KeptHonest
  <2>9. ASSUME NEW j \in JobId, NEW partial \in BOOLEAN, NEW w, FinishJob(j, partial, w)
        PROVE  LastStatusHonest'
    <3>1. (IF partial THEN "partial" ELSE "succeeded") \in Terminal /\ NoCode \in Code
      BY Literals
    <3>2. QED
      BY <2>9, <3>1, TransitionHonest DEF FinishJob
  <2>10. ASSUME NEW j \in JobId, NEW f \in Failure, NEW w, FailJob(j, f, w)
         PROVE  LastStatusHonest'
    <3>1. f.status \in Terminal /\ f.code \in Code /\ f.retryable \in BOOLEAN
      BY FailureType, FailureEnds
    <3>2. QED
      BY <2>10, <3>1, TransitionHonest DEF FailJob
  <2>11. ASSUME NEW j \in JobId, NEW w, WaitJob(j, w) PROVE LastStatusHonest'
    BY <2>11, Literals, TransitionHonest DEF WaitJob
  <2>12. ASSUME NEW j \in JobId, RequestCancel(j) PROVE LastStatusHonest'
    BY <2>12, Literals, TransitionHonest DEF RequestCancel
  <2>13. ASSUME NEW j \in JobId, ResumeJob(j) PROVE LastStatusHonest'
    <3>1. /\ jobs'[j].status = "queued" /\ jobs'[j].req = jobs[j].req
          /\ \A k \in JobId \ {j} : jobs'[k] = jobs[k]
          /\ lastStatus' = lastStatus
      BY <2>13, ResumeColumns
    <3>2. QED
      BY <3>1, Literals, KeptHonest
  <2>14. ASSUME NEW j \in JobId, RecoverRow(j) PROVE LastStatusHonest'
    <3> DEFINE target == IF jobs[j].collected > 0 THEN "partial" ELSE "failed"
               code == IF jobs[j].code \in NotRequeued THEN jobs[j].code ELSE "deadline_exceeded"
    <3>1. target \in Terminal /\ code \in Code
      BY <2>0, Literals DEF Row
    <3>2. CASE Transition(j, Active, "cancelled", "cancelled", TRUE, NoWorker)
      BY <3>2, Literals, TransitionHonest
    <3>3. CASE Transition(j, {"waiting"}, "waiting", "rate_limited", FALSE, NoWorker)
      BY <3>3, Literals, TransitionHonest
    <3>4. CASE Transition(j, Active, target, code, FALSE, NoWorker)
      <4> HIDE DEF target, code
      <4>1. QED
        BY <3>1, <3>4, TransitionHonest
    <3>5. QED
      BY <2>14, <3>2, <3>3, <3>4 DEF RecoverRow
  <2>15. ASSUME NEW j \in JobId, DeleteJob(j) PROVE LastStatusHonest'
    <3>1. {j} \subseteq InState(Terminal) /\ Delete({j})
      BY <2>15 DEF DeleteJob, InState
    <3>2. QED
      BY <3>1, DeleteHonest
  <2>16. CASE RequeueAbandoned
    <3>1. \A k \in JobId : RequeuedRow(jobs[k]).status = "queued"
                             /\ RequeuedRow(jobs[k]).req = jobs[k].req
      BY <2>0 DEF RequeuedRow, Row
    <3>2. \A k \in JobId : jobs'[k] = IF Abandoned(k) THEN RequeuedRow(jobs[k]) ELSE jobs[k]
      BY <2>16 DEF RequeueAbandoned
    <3>3. lastStatus' = lastStatus
      BY <2>16 DEF RequeueAbandoned
    <3>4. QED
      BY <3>1, <3>2, <3>3, Literals, KeptHonest
  <2>17. ASSUME NEW keep, NEW cutoff, PurgeSnapshots(keep, cutoff) PROVE LastStatusHonest'
    <3>1. /\ Purged(keep, cutoff) \subseteq InState(Terminal)
          /\ Delete(Purged(keep, cutoff))
      BY <2>17 DEF PurgeSnapshots, Purged
    <3>2. QED
      BY <3>1, DeleteHonest
  <2>18. CASE Tick \/ UNCHANGED storeVars
    <3>1. lastStatus' = lastStatus /\ jobs' = jobs
      BY <2>18 DEF Tick, storeVars
    <3>2. QED
      BY <3>1, KeptHonest
  <2>19. QED
    BY <2>1, <2>2, <2>4, <2>5, <2>6, <2>7, <2>8, <2>9, <2>10, <2>11, <2>12, <2>13, <2>14,
       <2>15, <2>16, <2>17, <2>18 DEF Next
<1>3. QED
  BY <1>1, <1>2, TypeCorrect, PTL DEF Spec

-----------------------------------------------------------------------------
(* What is captured: the observations and their index                       *)

\* The rows that are new in a table were unused, and hold nothing yet; every
\* other row keeps its count and its segment does not go back.
KeepsCounts ==
  \A k \in JobId :
    \/ jobs[k].status = "absent" /\ jobs'[k].collected = 0 /\ jobs'[k].segment = -1
    \/ jobs'[k].collected = jobs[k].collected /\ jobs[k].segment <= jobs'[k].segment

\* What a step does to what is captured: a batch of a running row, a deletion
\* of terminal rows, or nothing.
Captures ==
  \E j \in JobId, batch \in SUBSET Post, u \in 0..MaxUsage : AddPosts(j, batch, u)

Removes == \E S : S \subseteq InState(Terminal) /\ Delete(S)

Spares == UNCHANGED <<obs, fts>> /\ KeepsCounts

\* The columns that a quiet change but a batch and a deletion leaves alone.
LEMMA CountColumns ==
  ASSUME NEW r \in Row, NEW s,
         \/ s = r \/ Leases(r, s) \/ Claims(r, s) \/ Renews(r, s)
         \/ Bills(r, s) \/ Ends(r, s) \/ Requeues(r, s) \/ Resumes(r, s)
  PROVE  s.collected = r.collected /\ r.segment <= s.segment
<1>0. r.segment \in Int
  BY DEF Row
<1>1. CASE Leases(r, s) \/ Claims(r, s)
  <2>1. \E w, e : s = StartedRow(r, w, e)
    BY <1>1 DEF Leases, Claims
  <2>2. s.collected = r.collected /\ s.segment = r.segment + 1
    BY <2>1 DEF StartedRow, Row
  <2>3. QED
    BY <1>0, <2>2
<1>2. CASE s = r \/ Renews(r, s) \/ Bills(r, s) \/ Requeues(r, s) \/ Resumes(r, s)
  <2>1. CASE Renews(r, s) \/ Bills(r, s)
    <3>1. s.collected = r.collected /\ s.segment = r.segment
      BY <2>1 DEF Renews, Bills, Row
    <3>2. QED
      BY <1>0, <3>1
  <2>2. CASE Requeues(r, s)
    <3>1. s.collected = r.collected /\ s.segment = r.segment
      BY <2>2 DEF Requeues, RequeuedRow, Row
    <3>2. QED
      BY <1>0, <3>1
  <2>3. CASE Resumes(r, s)
    <3>1. PICK n \in Nat :
            s = [r EXCEPT !.status = "queued", !.cancel = FALSE, !.code = NoCode,
                          !.retryable = FALSE, !.snapshot = NoSnapshot,
                          !.owner = NoWorker, !.expiry = NoTime, !.seq = n]
      BY <2>3 DEF Resumes
    <3>2. s.collected = r.collected
      BY <3>1 DEF Row
    <3>3. s.segment = r.segment
      BY <3>1 DEF Row
    <3>4. QED
      BY <1>0, <3>2, <3>3
  <2>4. QED
    BY <1>0, <1>2, <2>1, <2>2, <2>3
<1>3. CASE Ends(r, s)
  <2>1. PICK target \in Terminal \union {"waiting"}, code \in Code, retryable \in BOOLEAN, time \in Time :
          s = TransitionedRow(r, target, code, retryable, time)
    BY <1>3 DEF Ends
  <2>2. s.collected = r.collected /\ s.segment = r.segment
    BY <2>1 DEF TransitionedRow, Row
  <2>3. QED
    BY <1>0, <2>2
<1>4. QED
  BY <1>1, <1>2, <1>3

\* The counts are kept by a step that overwrites one row accordingly.
LEMMA OneCount ==
  ASSUME TypeOK, NEW j \in JobId, NEW s, jobs' = [jobs EXCEPT ![j] = s],
         \/ jobs[j].status = "absent" /\ s.collected = 0 /\ s.segment = -1
         \/ s.collected = jobs[j].collected /\ jobs[j].segment <= s.segment
  PROVE  KeepsCounts
<1>1. jobs \in [JobId -> Row] /\ \A k \in JobId : jobs[k].segment \in Int
  BY DEF TypeOK, Row
<1>2. ASSUME NEW k \in JobId, k # j PROVE jobs'[k] = jobs[k]
  BY <1>1, <1>2
<1>3. jobs'[j] = s
  BY <1>1
<1>4. QED
  BY <1>1, <1>2, <1>3 DEF KeepsCounts

LEMMA TransitionCounts ==
  ASSUME TypeOK, NEW j \in JobId, NEW allowed \in SUBSET Active, NEW target, NEW code,
         NEW retryable, NEW w, Transition(j, allowed, target, code, retryable, w)
  PROVE  Spares
<1> DEFINE s == TransitionedRow(jobs[j], target, code, retryable, now)
<1>1. jobs[j] \in Row /\ jobs' = [jobs EXCEPT ![j] = s] /\ UNCHANGED <<obs, fts>>
  BY DEF Transition, TypeOK
<1>2. s.collected = jobs[j].collected /\ s.segment = jobs[j].segment /\ jobs[j].segment \in Int
  BY <1>1 DEF TransitionedRow, Row
<1> HIDE DEF s
<1>3. jobs[j].segment <= s.segment
  BY <1>2
<1>4. KeepsCounts
  BY <1>1, <1>2, <1>3, OneCount
<1>5. QED
  BY <1>1, <1>4 DEF Spares

LEMMA CaptureShape ==
  ASSUME TypeOK, [Next]_storeVars
  PROVE  Captures \/ Removes \/ Spares
<1>0. jobs \in [JobId -> Row]
  BY DEF TypeOK
<1>1. ASSUME NEW q \in Request, NEW j \in JobId, AdmitJob(q, j) PROVE Spares
  <2>1. PICK n \in 1..MaxSequence : jobs' = [jobs EXCEPT ![j] = AdmittedRow(q, {}, n)]
    BY <1>1 DEF AdmitJob
  <2>2. AdmittedRow(q, {}, n).collected = 0 /\ AdmittedRow(q, {}, n).segment = -1
    BY DEF AdmittedRow, NoRow
  <2>3. KeepsCounts
    BY <1>1, <2>1, <2>2, OneCount DEF AdmitJob, Unused
  <2>4. QED
    BY <1>1, <2>3 DEF AdmitJob, Spares
<1>2. ASSUME NEW batch \in SUBSET Request, NEW b, AdmitBatch(batch, b) PROVE Spares
  <2>1. PICK new, f : BatchEffect(batch, new, f)
    BY <1>2, BatchPlaced
  <2>2. ASSUME NEW k \in JobId
        PROVE  \/ jobs[k].status = "absent" /\ jobs'[k].collected = 0 /\ jobs'[k].segment = -1
               \/ jobs'[k].collected = jobs[k].collected /\ jobs[k].segment <= jobs'[k].segment
    <3>1. CASE \E q \in new : f[q].id = k
      <4>1. PICK q \in new : f[q].id = k
        BY <3>1
      <4>2. jobs[k].status = "absent" /\ jobs'[k] = AdmittedRow(q, batch, f[q].seq)
        BY <2>1, <4>1 DEF BatchEffect
      <4>3. QED
        BY <4>2 DEF AdmittedRow, NoRow
    <3>2. CASE \A q \in new : f[q].id # k
      <4>1. jobs'[k] = jobs[k] /\ jobs[k].segment \in Int
        BY <1>0, <2>1, <3>2 DEF BatchEffect, Row
      <4>2. QED
        BY <4>1
    <3>3. QED
      BY <3>1, <3>2
  <2>3. QED
    BY <1>2, <2>2 DEF AdmitBatch, Spares, KeepsCounts
<1>3. ASSUME NEW j \in JobId, NEW s, jobs' = [jobs EXCEPT ![j] = s], UNCHANGED <<obs, fts>>,
             \/ Leases(jobs[j], s) \/ Claims(jobs[j], s) \/ Renews(jobs[j], s)
             \/ Bills(jobs[j], s) \/ Resumes(jobs[j], s)
      PROVE  Spares
  <2>1. s.collected = jobs[j].collected /\ jobs[j].segment <= s.segment
    BY <1>0, <1>3, CountColumns
  <2>2. QED
    BY <1>3, <2>1, OneCount DEF Spares
<1>4. ASSUME NEW j \in JobId, NEW w \in Worker, NEW e \in Time, LeaseJob(j, w, e) PROVE Spares
  <2> DEFINE s == StartedRow(jobs[j], w, e)
  <2>1. jobs' = [jobs EXCEPT ![j] = s] /\ UNCHANGED <<obs, fts>> /\ Leases(jobs[j], s)
    BY <1>4 DEF LeaseJob, CanLease, Claimable, Leases
  <2> HIDE DEF s
  <2>2. QED
    BY <1>3, <2>1
<1>5. ASSUME NEW j \in JobId, ClaimJob(j) PROVE Spares
  <2> DEFINE s == StartedRow(jobs[j], jobs[j].owner, jobs[j].expiry)
  <2>1. jobs' = [jobs EXCEPT ![j] = s] /\ UNCHANGED <<obs, fts>> /\ Claims(jobs[j], s)
    BY <1>5 DEF ClaimJob, Claimable, Claims
  <2> HIDE DEF s
  <2>2. QED
    BY <1>3, <2>1
<1>6. ASSUME NEW j \in JobId, NEW w \in Worker, NEW e \in Time, HeartbeatJob(j, w, e) PROVE Spares
  <2> DEFINE s == [jobs[j] EXCEPT !.expiry = e]
  <2>1. jobs' = [jobs EXCEPT ![j] = s] /\ UNCHANGED <<obs, fts>> /\ Renews(jobs[j], s)
    BY <1>6 DEF HeartbeatJob, CanHeartbeat, Renews
  <2> HIDE DEF s
  <2>2. QED
    BY <1>3, <2>1
<1>7. ASSUME NEW j \in JobId, NEW u \in 1..MaxUsage, RecordCancelledUsage(j, u) PROVE Spares
  <2> DEFINE v == jobs[j].usage + u
             s == [jobs[j] EXCEPT !.usage = v]
  <2>1. v \in Nat
    BY <1>0, JobStoreAssumption DEF Row
  <2>2. /\ jobs' = [jobs EXCEPT ![j] = s] /\ UNCHANGED <<obs, fts>>
        /\ jobs[j].status = "cancelled" /\ jobs[j].cancel
    BY <1>7 DEF RecordCancelledUsage
  <2> HIDE DEF v
  <2>3. Bills(jobs[j], s)
    BY <2>1, <2>2 DEF Bills
  <2> HIDE DEF s
  <2>4. QED
    BY <1>3, <2>2, <2>3
<1>8. ASSUME NEW j \in JobId, ResumeJob(j) PROVE Spares
  <2> DEFINE resumed(n) == [jobs[j] EXCEPT !.status = "queued", !.cancel = FALSE,
                               !.code = NoCode, !.retryable = FALSE, !.snapshot = NoSnapshot,
                               !.owner = NoWorker, !.expiry = NoTime, !.seq = n]
  <2>1. PICK n \in 1..MaxSequence : jobs' = [jobs EXCEPT ![j] = resumed(n)]
    BY <1>8 DEF ResumeJob
  <2>2. jobs[j].status \in Terminal /\ jobs[j].code \notin NotResumable /\ UNCHANGED <<obs, fts>>
    BY <1>8, Literals DEF ResumeJob, CanResume
  <2>3. n \in Nat
    BY JobStoreAssumption
  <2>4. Resumes(jobs[j], resumed(n))
    BY <2>2, <2>3 DEF Resumes
  <2> HIDE DEF resumed
  <2>5. QED
    BY <1>3, <2>1, <2>2, <2>4
<1>9. ASSUME NEW j \in JobId, NEW partial, NEW w, FinishJob(j, partial, w) PROVE Spares
  <2>1. {"running"} \in SUBSET Active
    BY Literals
  <2>2. QED
    BY <1>9, <2>1, TransitionCounts DEF FinishJob
<1>10. ASSUME NEW j \in JobId, NEW f, NEW w, FailJob(j, f, w) PROVE Spares
  BY <1>10, TransitionCounts DEF FailJob
<1>11. ASSUME NEW j \in JobId, NEW w, WaitJob(j, w) PROVE Spares
  <2>1. {"running"} \in SUBSET Active
    BY Literals
  <2>2. QED
    BY <1>11, <2>1, TransitionCounts DEF WaitJob
<1>12. ASSUME NEW j \in JobId, RequestCancel(j) PROVE Spares
  BY <1>12, TransitionCounts DEF RequestCancel
<1>13. ASSUME NEW j \in JobId, RecoverRow(j) PROVE Spares
  <2>1. {"waiting"} \in SUBSET Active
    BY Literals
  <2>2. \E allowed \in SUBSET Active : \E target, code, retryable :
          Transition(j, allowed, target, code, retryable, NoWorker)
    BY <1>13, <2>1 DEF RecoverRow
  <2>3. QED
    BY <2>2, TransitionCounts
<1>14. CASE RequeueAbandoned
  <2>1. ASSUME NEW k \in JobId
        PROVE  jobs'[k].collected = jobs[k].collected /\ jobs[k].segment <= jobs'[k].segment
    <3>1. jobs'[k] = jobs[k] \/ Requeues(jobs[k], jobs'[k])
      BY <1>14 DEF RequeueAbandoned, Abandoned, Requeues
    <3>2. QED
      BY <1>0, <3>1, CountColumns
  <2>2. QED
    BY <1>14, <2>1 DEF RequeueAbandoned, Spares, KeepsCounts
<1>15. CASE Tick \/ UNCHANGED storeVars
  <2>1. jobs' = jobs /\ UNCHANGED <<obs, fts>> /\ \A k \in JobId : jobs[k].segment \in Int
    BY <1>0, <1>15 DEF Tick, storeVars, Row
  <2>2. QED
    BY <2>1 DEF Spares, KeepsCounts
<1>16. ASSUME NEW j \in JobId, DeleteJob(j) PROVE Removes
  BY <1>16 DEF DeleteJob, Removes, InState
<1>17. ASSUME NEW keep, NEW cutoff, PurgeSnapshots(keep, cutoff) PROVE Removes
  <2>1. Purged(keep, cutoff) \subseteq InState(Terminal) /\ Delete(Purged(keep, cutoff))
    BY <1>17 DEF PurgeSnapshots, Purged
  <2>2. QED
    BY <2>1 DEF Removes
<1>18. QED
  BY <1>1, <1>2, <1>4, <1>5, <1>6, <1>7, <1>8, <1>9, <1>10, <1>11, <1>12, <1>13, <1>14, <1>15,
     <1>16, <1>17 DEF Next, Captures

\* Stored observations are evidence: a step removes some only with their row.
THEOREM EvidenceKept == Spec => ObservationsAppendOnly
<1>1. TypeOK /\ [Next]_storeVars =>
        [\A o \in obs : o \in obs' \/ jobs'[o.job].status = "deleted"]_storeVars
  <2> SUFFICES ASSUME TypeOK, [Next]_storeVars, NEW o \in obs, o \notin obs'
               PROVE  jobs'[o.job].status = "deleted"
    OBVIOUS
  <2>1. ~Captures /\ ~Spares
    BY DEF Captures, AddPosts, Spares
  <2>2. PICK S : S \subseteq InState(Terminal) /\ Delete(S)
    BY <2>1, CaptureShape DEF Removes
  <2>3. o.job \in S /\ o.job \in JobId
    BY <2>2 DEF Delete, TypeOK, Observation
  <2>4. jobs'[o.job] = Tombstone(jobs[o.job])
    BY <2>2, <2>3 DEF Delete
  <2>5. QED
    BY <2>4 DEF Tombstone, NoRow
<1>2. QED
  BY <1>1, TypeCorrect, PTL DEF Spec, ObservationsAppendOnly

\* The text index never loses an observation that is stored, nor keeps one that
\* is gone: it has no foreign key, each transaction keeps it in step.
THEOREM IndexInStep == Spec => []IndexMirrorsObservations
<1>1. TypeOK /\ IndexMirrorsObservations /\ [Next]_storeVars => IndexMirrorsObservations'
  <2> SUFFICES ASSUME TypeOK, IndexMirrorsObservations, [Next]_storeVars
               PROVE  fts' = {<<o.job, o.post>> : o \in obs'}
    BY DEF IndexMirrorsObservations
  <2>1. CASE Captures
    <3>1. PICK j \in JobId, batch \in SUBSET Post, u \in 0..MaxUsage : AddPosts(j, batch, u)
      BY <2>1 DEF Captures
    <3> DEFINE new == batch \ Posts(j)
    <3>2. PICK f : obs' = obs \union {[job |-> j, post |-> p, position |-> f[p],
                                       segment |-> jobs[j].segment] : p \in new}
      BY <3>1 DEF AddPosts
    <3>3. fts' = fts \union {<<j, p>> : p \in new}
      BY <3>1 DEF AddPosts
    <3> HIDE DEF new
    <3>4. ASSUME NEW p \in new
          PROVE  \E o \in obs' : <<o.job, o.post>> = <<j, p>>
      <4> DEFINE o == [job |-> j, post |-> p, position |-> f[p], segment |-> jobs[j].segment]
      <4>1. o \in obs' /\ o.job = j /\ o.post = p
        BY <3>2
      <4>2. QED
        BY <4>1
    <3>5. ASSUME NEW o \in obs'
          PROVE  o \in obs \/ \E p \in new : <<o.job, o.post>> = <<j, p>>
      BY <3>2
    <3>6. fts = {<<o.job, o.post>> : o \in obs} /\ obs \subseteq obs'
      BY <3>2 DEF IndexMirrorsObservations
    <3>7. QED
      BY <3>3, <3>4, <3>5, <3>6
  <2>2. CASE Removes
    BY <2>2 DEF Removes, Delete, IndexMirrorsObservations
  <2>3. CASE Spares
    BY <2>3 DEF Spares, IndexMirrorsObservations
  <2>4. QED
    BY <2>1, <2>2, <2>3, CaptureShape
<1>2. Init => IndexMirrorsObservations
  BY DEF Init, IndexMirrorsObservations
<1>3. QED
  BY <1>1, <1>2, TypeCorrect, PTL DEF Spec

\* An id that was never used has an empty row.
BlankInv == \A j \in JobId : jobs[j].status = "absent" => jobs[j] = NoRow

LEMMA BlankStep == TypeOK /\ BlankInv /\ [Next]_storeVars => BlankInv'
<1> SUFFICES ASSUME TypeOK, BlankInv, [Next]_storeVars, NEW j \in JobId, jobs'[j].status = "absent"
             PROVE  jobs'[j] = NoRow
  BY DEF BlankInv
<1>1. RowStep(jobs[j], jobs'[j]) /\ jobs[j] \in Row
  BY NextRow DEF TypeOK
<1>2. jobs[j].status = "absent"
  BY <1>1, IdentityKept
<1>3. jobs'[j] = jobs[j] \/ Admits(jobs[j], jobs'[j])
  BY <1>1, <1>2
     DEF RowStep, QuietStep, Leases, Claims, Renews, Collects, Bills, Ends, Resumes, Requeues,
         Deletes, Active, Terminal
<1>4. ~Admits(jobs[j], jobs'[j])
  BY AdmittedColumns DEF Admits
<1>5. QED
  BY <1>2, <1>3, <1>4 DEF BlankInv

LEMMA BlankStart == Init => BlankInv
<1> SUFFICES ASSUME Init, NEW j \in JobId, jobs[j].status = "absent" PROVE jobs[j] = NoRow
  BY DEF BlankInv
<1>1. CASE j \in Legacy
  <2>1. jobs[j] \in LegacyRow
    BY <1>1 DEF Init
  <2>2. jobs[j].status \in JobStatus
    BY <2>1 DEF LegacyRow
  <2>3. QED
    BY <2>2 DEF JobStatus, Active, Terminal
<1>2. CASE j \notin Legacy
  BY <1>2 DEF Init
<1>3. QED
  BY <1>1, <1>2

\* PositionsContiguous of one row.
Contiguous(mine, collected, segment) ==
  /\ {o.position : o \in mine} = 0..(collected - 1)
  /\ \A o, p \in mine : o.position = p.position => o = p
  /\ \A o, p \in mine : o.post = p.post => o = p
  /\ \A o, p \in mine : o.position <= p.position => o.segment <= p.segment
  /\ \A o \in mine : o.segment <= segment

Mine(j) == {o \in obs : o.job = j}

LEMMA ContiguousRows ==
  PositionsContiguous <=> \A j \in JobId : Contiguous(Mine(j), jobs[j].collected, jobs[j].segment)
BY DEF PositionsContiguous, Contiguous, Mine

LEMMA ContiguousNone == \A segment : Contiguous({}, 0, segment)
<1>1. 0..(0 - 1) = {}
  OBVIOUS
<1>2. QED
  BY <1>1 DEF Contiguous

\* A later segment may begin at any time.
LEMMA ContiguousLater ==
  ASSUME NEW mine \in SUBSET Observation, NEW n, NEW s \in Int, NEW t \in Int, s <= t,
         Contiguous(mine, n, s)
  PROVE  Contiguous(mine, n, t)
<1>1. \A o \in mine : o.segment \in Int
  BY DEF Observation
<1>2. QED
  BY <1>1 DEF Contiguous

\* A batch goes on where the row stands.
LEMMA ContiguousBatch ==
  ASSUME NEW mine \in SUBSET Observation, NEW n \in Nat, NEW s \in Int, Contiguous(mine, n, s),
         NEW new, IsFiniteSet(new), \A o \in mine : o.post \notin new,
         NEW f \in [new -> n..(n + Cardinality(new) - 1)],
         \A p, q \in new : p # q => f[p] # f[q],
         NEW job
  PROVE  Contiguous(mine \union {[job |-> job, post |-> p, position |-> f[p], segment |-> s] : p \in new},
                    n + Cardinality(new), s)
<1> DEFINE rec(p) == [job |-> job, post |-> p, position |-> f[p], segment |-> s]
           more == {rec(p) : p \in new}
           m == Cardinality(new)
<1>1. m \in Nat
  BY FS_CardinalityType
<1>2. {f[p] : p \in new} = n..(n + m - 1)
  BY IntervalFilled
<1>3. \A p \in new : f[p] \in n..(n + m - 1)
  OBVIOUS
<1>4. \A p \in new : rec(p).post = p /\ rec(p).position = f[p] /\ rec(p).segment = s
  OBVIOUS
<1> HIDE DEF rec
<1>5. ASSUME NEW o \in more
      PROVE  \E p \in new : /\ o = rec(p) /\ o.post = p /\ o.position = f[p] /\ o.segment = s
                            /\ o.position \in Int /\ n <= o.position
  <2>1. PICK p \in new : o = rec(p)
    OBVIOUS
  <2>2. f[p] \in Int /\ n <= f[p]
    BY <1>1, <1>3
  <2>3. QED
    BY <1>4, <2>1, <2>2
<1>6. \A o \in mine : /\ o.position \in 0..(n - 1) /\ o.position \in Int /\ o.position < n
                      /\ o.segment \in Int /\ o.segment <= s
  BY DEF Contiguous, Observation
<1>7. {o.position : o \in more} = n..(n + m - 1)
  <2>1. \A o \in more : o.position \in {f[p] : p \in new}
    BY <1>5
  <2>2. \A p \in new : rec(p) \in more /\ rec(p).position = f[p]
    BY <1>4
  <2>3. {o.position : o \in more} = {f[p] : p \in new}
    BY <2>1, <2>2
  <2>4. QED
    BY <1>2, <2>3
<1>8. \A o \in mine, p \in more : o.position < p.position /\ o.post # p.post /\ o.segment <= p.segment
  BY <1>5, <1>6
<1>9. \A o, p \in more : /\ o.position = p.position => o = p
                         /\ o.post = p.post => o = p
                         /\ o.segment = p.segment /\ o.segment = s
  BY <1>5
<1> HIDE DEF more, m
<1>10. {o.position : o \in mine \union more} = 0..((n + m) - 1)
  <2>1. {o.position : o \in mine} = 0..(n - 1)
    BY DEF Contiguous
  <2>2. {o.position : o \in mine \union more} = {o.position : o \in mine} \union {o.position : o \in more}
    OBVIOUS
  <2>3. 0..(n - 1) \union n..(n + m - 1) = 0..((n + m) - 1)
    BY <1>1
  <2>4. QED
    BY <1>7, <2>1, <2>2, <2>3
<1>11. \A o \in more : o.position \in Int
  BY <1>5 DEF more
<1>12. \A o, p \in mine \union more : o.position = p.position => o = p
  BY <1>6, <1>8, <1>9, <1>11 DEF Contiguous
<1>13. \A o, p \in mine \union more : o.post = p.post => o = p
  BY <1>8, <1>9 DEF Contiguous
<1>14. \A o, p \in mine \union more : o.position <= p.position => o.segment <= p.segment
  BY <1>6, <1>8, <1>9, <1>11 DEF Contiguous
<1>15. \A o \in mine \union more : o.segment <= s
  BY <1>6, <1>9
<1>16. Contiguous(mine \union more, n + m, s)
  BY <1>10, <1>12, <1>13, <1>14, <1>15, Zenon DEF Contiguous
<1>17. QED
  BY <1>16 DEF more, m, rec

\* A migrated row holds its one post at the first position.
LEMMA ContiguousStart == Init => PositionsContiguous
<1> SUFFICES ASSUME Init, NEW j \in JobId
             PROVE  Contiguous(Mine(j), jobs[j].collected, jobs[j].segment)
  BY ContiguousRows
<1>1. \A o \in Mine(j) : /\ j \in Legacy /\ o.post \in Post
                         /\ o = [job |-> j, post |-> o.post, position |-> 0, segment |-> jobs[j].segment]
  BY DEF Init, Mine
<1>2. CASE j \notin Legacy
  <2>1. jobs[j] = NoRow /\ Mine(j) = {}
    BY <1>1, <1>2 DEF Init
  <2>2. QED
    BY <2>1, ContiguousNone DEF NoRow
<1>3. CASE j \in Legacy
  <2>1. jobs[j] \in LegacyRow /\ Cardinality(Posts(j)) = jobs[j].collected
    BY <1>3 DEF Init
  <2>2. jobs[j].collected \in {0, 1} /\ jobs[j].segment \in {-1, 0}
    BY <2>1 DEF LegacyRow
  <2>3. Posts(j) = {o.post : o \in Mine(j)} /\ IsFiniteSet(Posts(j))
    <3>1. Posts(j) = {o.post : o \in Mine(j)}
      BY DEF Posts, Mine
    <3>2. Posts(j) \subseteq Post
      BY <1>1, <3>1
    <3>3. QED
      BY <3>1, <3>2, JobStoreAssumption, FS_Subset
  <2>4. CASE jobs[j].collected = 0
    <3>1. Posts(j) = {}
      BY <2>1, <2>3, <2>4, FS_EmptySet
    <3>2. Mine(j) = {}
      BY <2>3, <3>1
    <3>3. QED
      BY <2>4, <3>2, ContiguousNone
  <2>5. CASE jobs[j].collected = 1
    <3>1. PICK x : Posts(j) = {x}
      BY <2>1, <2>3, <2>5, FS_Singleton
    <3> DEFINE r == [job |-> j, post |-> x, position |-> 0, segment |-> jobs[j].segment]
    <3>2. Mine(j) = {r}
      <4>1. \A o \in Mine(j) : o = r
        BY <1>1, <2>3, <3>1
      <4>2. \E o \in Mine(j) : TRUE
        BY <2>3, <3>1
      <4>3. QED
        BY <4>1, <4>2
    <3>3. r.position = 0 /\ r.segment = jobs[j].segment
      OBVIOUS
    <3> HIDE DEF r
    <3>4. 0..(1 - 1) = {0} /\ {o.position : o \in {r}} = {0}
      BY <3>3
    <3>5. QED
      BY <2>2, <2>5, <3>2, <3>3, <3>4 DEF Contiguous
  <2>6. QED
    BY <2>2, <2>4, <2>5
<1>4. QED
  BY <1>2, <1>3

LEMMA ContiguousStep ==
  ASSUME TypeOK, BlankInv, PositionsContiguous, [Next]_storeVars, NEW k \in JobId
  PROVE  Contiguous({o \in obs' : o.job = k}, jobs'[k].collected, jobs'[k].segment)
<1>0. jobs[k] \in Row /\ Mine(k) \in SUBSET Observation
  BY DEF TypeOK, Mine
<1>1. /\ Contiguous(Mine(k), jobs[k].collected, jobs[k].segment)
      /\ jobs[k].collected \in Nat /\ jobs[k].segment \in Int
  BY <1>0, ContiguousRows DEF Row
<1>2. CASE Captures
  <2>1. PICK j \in JobId, batch \in SUBSET Post, u \in 0..MaxUsage : AddPosts(j, batch, u)
    BY <1>2 DEF Captures
  <2> DEFINE new == batch \ Posts(j)
  <2>2. PICK f \in Positions(j, new) :
          obs' = obs \union {[job |-> j, post |-> p, position |-> f[p],
                              segment |-> jobs[j].segment] : p \in new}
    BY <2>1 DEF AddPosts
  <2>3. jobs' = [jobs EXCEPT ![j].collected = @ + Cardinality(new), ![j].usage = @ + u]
    BY <2>1 DEF AddPosts
  <2>4. CASE k # j
    <3>1. jobs'[k] = jobs[k]
      BY <2>3, <2>4 DEF TypeOK
    <3>2. {o \in obs' : o.job = k} = Mine(k)
      BY <2>2, <2>4 DEF Mine
    <3>3. QED
      BY <1>1, <3>1, <3>2
  <2>5. CASE k = j
    <3>1. jobs'[k].collected = jobs[k].collected + Cardinality(new) /\ jobs'[k].segment = jobs[k].segment
      BY <2>3, <2>5 DEF TypeOK, Row
    <3>2. {o \in obs' : o.job = k} =
            Mine(k) \union {[job |-> j, post |-> p, position |-> f[p],
                             segment |-> jobs[j].segment] : p \in new}
      BY <2>2, <2>5 DEF Mine
    <3>3. IsFiniteSet(new) /\ \A o \in Mine(k) : o.post \notin new
      <4>1. new \subseteq Post
        OBVIOUS
      <4>2. \A o \in Mine(k) : o.post \in Posts(j)
        BY <2>5 DEF Mine, Posts
      <4>3. QED
        BY <4>1, <4>2, JobStoreAssumption, FS_Subset
    <3>4. /\ f \in [new -> jobs[j].collected..(jobs[j].collected + Cardinality(new) - 1)]
          /\ \A p, q \in new : p # q => f[p] # f[q]
      BY <2>2 DEF Positions
    <3> DEFINE s == jobs[k].segment
               n == jobs[k].collected
               more == {[job |-> j, post |-> p, position |-> f[p], segment |-> s] : p \in new}
    <3>5. n \in Nat /\ s \in Int /\ Contiguous(Mine(k), n, s)
      BY <1>1
    <3>9. f \in [new -> n..(n + Cardinality(new) - 1)]
      BY <2>5, <3>4
    <3>10. {o \in obs' : o.job = k} = Mine(k) \union more
      BY <2>5, <3>2
    <3> HIDE DEF new, n, s
    <3>6. Contiguous(Mine(k) \union more, n + Cardinality(new), s)
      BY <1>0, <3>3, <3>4, <3>5, <3>9, ContiguousBatch, ZenonT(60)
    <3>7. jobs'[k].collected = n + Cardinality(new) /\ jobs'[k].segment = s
      BY <3>1 DEF n, s
    <3>8. QED
      BY <3>6, <3>7, <3>10
  <2>6. QED
    BY <2>4, <2>5
<1>3. CASE Removes
  <2>1. PICK S : S \subseteq InState(Terminal) /\ Delete(S)
    BY <1>3 DEF Removes
  <2>2. CASE k \in S
    <3>1. {o \in obs' : o.job = k} = {} /\ jobs'[k] = Tombstone(jobs[k])
      BY <2>1, <2>2 DEF Delete
    <3>2. jobs'[k].collected = 0
      BY <3>1 DEF Tombstone, NoRow
    <3>3. QED
      BY <3>1, <3>2, ContiguousNone
  <2>3. CASE k \notin S
    <3>1. {o \in obs' : o.job = k} = Mine(k) /\ jobs'[k] = jobs[k]
      BY <2>1, <2>3 DEF Delete, Mine
    <3>2. QED
      BY <1>1, <3>1
  <2>4. QED
    BY <2>2, <2>3
<1>4. CASE Spares
  <2>1. {o \in obs' : o.job = k} = Mine(k)
    BY <1>4 DEF Spares, Mine
  <2>2. CASE jobs[k].status = "absent" /\ jobs'[k].collected = 0 /\ jobs'[k].segment = -1
    <3>1. jobs[k].collected = 0
      BY <2>2 DEF BlankInv, NoRow
    <3>2. Mine(k) = {}
      <4>1. {o.position : o \in Mine(k)} = 0..(0 - 1)
        BY <1>1, <3>1 DEF Contiguous
      <4>2. 0..(0 - 1) = {}
        OBVIOUS
      <4>3. QED
        BY <4>1, <4>2
    <3>3. QED
      BY <2>1, <2>2, <3>2, ContiguousNone
  <2>3. CASE jobs'[k].collected = jobs[k].collected /\ jobs[k].segment <= jobs'[k].segment
    <3>1. jobs'[k].segment \in Int
      BY NextType DEF TypeOK, Row
    <3>2. QED
      BY <1>0, <1>1, <2>1, <2>3, <3>1, ContiguousLater
  <2>4. QED
    BY <1>4, <2>2, <2>3 DEF Spares, KeepsCounts
<1>5. QED
  BY <1>2, <1>3, <1>4, CaptureShape

\* The posts of a row sit at positions 0, 1, 2, ... without a gap and in the
\* order of their segments, for any batches, resumptions and deletions.
THEOREM PositionsKept == Spec => []PositionsContiguous
<1>1. TypeOK /\ BlankInv /\ PositionsContiguous /\ [Next]_storeVars => PositionsContiguous'
  <2> SUFFICES ASSUME TypeOK, BlankInv, PositionsContiguous, [Next]_storeVars
               PROVE  PositionsContiguous'
    OBVIOUS
  <2>1. \A k \in JobId : Contiguous({o \in obs' : o.job = k}, jobs'[k].collected, jobs'[k].segment)
    BY ContiguousStep
  <2>2. QED
    BY <2>1 DEF PositionsContiguous, Contiguous
<1>2. QED
  BY <1>1, BlankStart, BlankStep, ContiguousStart, TypeCorrect, PTL DEF Spec

-----------------------------------------------------------------------------
(* The queue and the batches *)

\* A row that is admitted or resumed gets a number behind every row.
LEMMA PlacedBehind ==
  ASSUME TypeOK, [Next]_storeVars, NEW j \in JobId
  PROVE  QuietStep(jobs[j], jobs'[j]) \/ \A k \in Present : jobs[k].seq < jobs'[j].seq
<1>1. ASSUME NEW i \in JobId, i # j, NEW s, jobs' = [jobs EXCEPT ![i] = s]
      PROVE  QuietStep(jobs[j], jobs'[j])
  BY <1>1 DEF TypeOK, QuietStep
<1>2. ASSUME NEW q \in Request, NEW i \in JobId, AdmitJob(q, i)
      PROVE  QuietStep(jobs[j], jobs'[j]) \/ \A k \in Present : jobs[k].seq < jobs'[j].seq
  <2>1. PICK n \in 1..MaxSequence :
          NextSequence(n) /\ jobs' = [jobs EXCEPT ![i] = AdmittedRow(q, {}, n)]
    BY <1>2 DEF AdmitJob
  <2>2. n \in Nat /\ \A k \in Present : jobs[k].seq < n
    BY <2>1, JobStoreAssumption DEF NextSequence
  <2>3. AdmittedRow(q, {}, n).seq = n
    BY <2>2, AdmittedColumns
  <2>4. i = j => jobs'[j] = AdmittedRow(q, {}, n)
    BY <2>1 DEF TypeOK
  <2>5. QED
    BY <1>1, <2>1, <2>2, <2>3, <2>4
<1>3. ASSUME NEW batch \in SUBSET Request, NEW b, AdmitBatch(batch, b)
      PROVE  QuietStep(jobs[j], jobs'[j]) \/ \A k \in Present : jobs[k].seq < jobs'[j].seq
  <2>1. PICK new, f : BatchEffect(batch, new, f)
    BY <1>3, BatchPlaced
  <2>2. CASE \E q \in new : f[q].id = j
    <3>1. PICK q \in new : f[q].id = j
      BY <2>2
    <3>2. /\ q \in Request /\ f[q].seq \in Nat /\ jobs'[j] = AdmittedRow(q, batch, f[q].seq)
          /\ \A k \in Present : jobs[k].seq < f[q].seq
      BY <2>1, <3>1 DEF BatchEffect
    <3>3. jobs'[j].seq = f[q].seq
      BY <3>2, AdmittedColumns
    <3>4. QED
      BY <3>2, <3>3
  <2>3. CASE \A q \in new : f[q].id # j
    <3>1. jobs'[j] = jobs[j]
      BY <2>1, <2>3 DEF BatchEffect
    <3>2. QED
      BY <3>1 DEF QuietStep
  <2>4. QED
    BY <2>2, <2>3
<1>4. ASSUME NEW i \in JobId, ResumeJob(i)
      PROVE  QuietStep(jobs[j], jobs'[j]) \/ \A k \in Present : jobs[k].seq < jobs'[j].seq
  <2> DEFINE resumed(n) == [jobs[i] EXCEPT !.status = "queued", !.cancel = FALSE,
                               !.code = NoCode, !.retryable = FALSE, !.snapshot = NoSnapshot,
                               !.owner = NoWorker, !.expiry = NoTime, !.seq = n]
  <2>1. PICK n \in 1..MaxSequence : NextSequence(n) /\ jobs' = [jobs EXCEPT ![i] = resumed(n)]
    BY <1>4 DEF ResumeJob
  <2>2. \A k \in Present : jobs[k].seq < n
    BY <2>1 DEF NextSequence
  <2>3. resumed(n).seq = n
    BY DEF TypeOK, Row
  <2> HIDE DEF resumed
  <2>4. i = j => jobs'[j] = resumed(n)
    BY <2>1 DEF TypeOK
  <2>5. QED
    BY <1>1, <2>1, <2>2, <2>3, <2>4
<1>5. QED
  BY <1>2, <1>3, <1>4, NextShape

\* A quiet step that leaves a row queued found it queued or requeues it.
LEMMA QuietlyQueued ==
  ASSUME NEW r \in Row, NEW s, QuietStep(r, s), s.status = "queued"
  PROVE  r.status \in {"queued", "running"}
<1>0. "queued" \notin Terminal /\ "queued" # "deleted"
  BY DEF Terminal
<1>1. CASE Leases(r, s) \/ Claims(r, s) \/ Requeues(r, s)
  BY <1>1 DEF Leases, Claims, Requeues
<1>2. CASE s = r
  BY <1>2
<1>3. CASE Renews(r, s) \/ Collects(r, s) \/ Bills(r, s)
  <2>1. s.status = r.status
    BY <1>3 DEF Renews, Collects, Bills, Row
  <2>2. QED
    BY <2>1
<1>4. CASE Ends(r, s)
  <2>1. PICK target \in Terminal \union {"waiting"}, code \in Code, retryable \in BOOLEAN, time \in Time :
          s = TransitionedRow(r, target, code, retryable, time)
    BY <1>4 DEF Ends
  <2>2. s.status \in Terminal
    BY <2>1, TransitionedColumns
  <2>3. QED
    BY <1>0, <2>2
<1>5. CASE Deletes(r, s)
  <2>1. s.status = "deleted"
    BY <1>5, WrittenColumns DEF Deletes
  <2>2. QED
    BY <1>0, <2>1
<1>6. QED
  BY <1>1, <1>2, <1>3, <1>4, <1>5 DEF QuietStep

\* Fair order: a row that enters the queue stands behind every other row, and
\* only the requeueing of an interrupted row keeps an old place.
THEOREM QueueFair == Spec => QueueOrderKept
<1>1. TypeOK /\ [Next]_storeVars =>
        [\A j \in JobId : jobs'[j].status = "queued" /\ jobs[j].status # "queued" =>
           IF jobs[j].status = "running" THEN jobs'[j].seq = jobs[j].seq
           ELSE \A k \in Present : jobs'[j].seq > jobs[k].seq]_storeVars
  <2> SUFFICES ASSUME TypeOK, [Next]_storeVars, NEW j \in JobId,
                      jobs'[j].status = "queued", jobs[j].status # "queued"
               PROVE  IF jobs[j].status = "running" THEN jobs'[j].seq = jobs[j].seq
                      ELSE \A k \in Present : jobs'[j].seq > jobs[k].seq
    OBVIOUS
  <2>0. jobs[j] \in Row /\ jobs'[j] \in Row /\ "queued" \in JobStatus /\ "running" \in JobStatus
        /\ \A k \in Present : jobs[k].seq \in Nat
    BY NextType DEF TypeOK, Row, Present, JobStatus, Active
  <2>1. CASE QuietStep(jobs[j], jobs'[j])
    <3>1. jobs'[j].seq = jobs[j].seq
      BY <2>0, <2>1, QuietColumns
    <3>2. jobs[j].status = "running"
      BY <2>0, <2>1, QuietlyQueued
    <3>3. QED
      BY <3>1, <3>2
  <2>2. CASE ~QuietStep(jobs[j], jobs'[j])
    <3>1. \A k \in Present : jobs[k].seq < jobs'[j].seq
      BY <2>2, PlacedBehind
    <3>2. jobs[j].status # "running"
      <4>1. RowStep(jobs[j], jobs'[j])
        BY NextRow
      <4>2. Admits(jobs[j], jobs'[j]) \/ Resumes(jobs[j], jobs'[j])
        BY <2>2, <4>1 DEF RowStep
      <4>3. QED
        BY <4>2 DEF Admits, Resumes, Terminal
    <3>3. jobs'[j].seq \in Nat
      BY <2>0 DEF Row
    <3>4. QED
      BY <2>0, <3>1, <3>2, <3>3
  <2>3. QED
    BY <2>1, <2>2
<1>2. QED
  BY <1>1, TypeCorrect, PTL DEF Spec, QueueOrderKept

\* The identity columns of an admitted row.
LEMMA AdmittedManifest ==
  ASSUME NEW q \in Request, NEW manifest \in SUBSET Request, NEW n \in Nat
  PROVE  AdmittedRow(q, manifest, n).req = q /\ AdmittedRow(q, manifest, n).manifest = manifest
BY DEF AdmittedRow, NoRow

\* A row that was in use keeps its request and its manifest, and none returns.
LEMMA ManifestKept ==
  ASSUME TypeOK, [Next]_storeVars, NEW j \in JobId, jobs[j].status # "absent"
  PROVE  /\ jobs'[j].req = jobs[j].req /\ jobs'[j].manifest = jobs[j].manifest
         /\ jobs'[j].status \in JobStatus => j \in Present
<1>1. jobs[j] \in Row /\ RowStep(jobs[j], jobs'[j])
  BY NextRow DEF TypeOK
<1>2. /\ jobs'[j].req = jobs[j].req /\ jobs'[j].manifest = jobs[j].manifest
      /\ jobs[j].status = "deleted" => jobs'[j].status = "deleted"
  BY <1>1, IdentityKept
<1>3. jobs[j].status \in JobStatus \union {"absent", "deleted"} /\ "deleted" \notin JobStatus
  BY <1>1 DEF Row, JobStatus, Active, Terminal
<1>4. QED
  BY <1>2, <1>3 DEF Present

\* Where new rows come from: one admission, one batch, or there are none.
LEMMA Newcomers ==
  ASSUME TypeOK, [Next]_storeVars
  PROVE  \/ \E q \in Request, i \in JobId, n \in Nat :
              q.batch = NoBatch /\ jobs' = [jobs EXCEPT ![i] = AdmittedRow(q, {}, n)]
         \/ \E batch \in SUBSET Request : \E b : AdmitBatch(batch, b)
         \/ \A j \in JobId : jobs[j].status = "absent" => jobs'[j] = jobs[j]
<1>1. ASSUME NEW q \in Request, NEW i \in JobId, AdmitJob(q, i)
      PROVE  \E n \in Nat : q.batch = NoBatch /\ jobs' = [jobs EXCEPT ![i] = AdmittedRow(q, {}, n)]
  <2>1. PICK n \in 1..MaxSequence : jobs' = [jobs EXCEPT ![i] = AdmittedRow(q, {}, n)]
    BY <1>1 DEF AdmitJob
  <2>2. n \in Nat /\ q.batch = NoBatch
    BY <1>1, JobStoreAssumption DEF AdmitJob
  <2>3. QED
    BY <2>1, <2>2
<1>2. ASSUME NEW i \in JobId, ResumeJob(i)
      PROVE  \A j \in JobId : jobs[j].status = "absent" => jobs'[j] = jobs[j]
  BY <1>2, ResumeColumns DEF InState, Terminal
<1>3. ASSUME \A k \in JobId : QuietStep(jobs[k], jobs'[k]), NEW j \in JobId, jobs[j].status = "absent"
      PROVE  jobs'[j] = jobs[j]
  BY <1>3 DEF QuietStep, Leases, Claims, Renews, Collects, Bills, Ends, Requeues, Deletes, Active,
              Terminal
<1>4. QED
  BY <1>1, <1>2, <1>3, NextShape

\* BatchAdmittedWhole, after a step.
WitnessStep == \A j \in JobId : \A q \in jobs'[j].manifest :
                 \E k \in JobId : jobs'[k].req = q /\ jobs'[k].manifest = jobs'[j].manifest

AgreeStep == \A j, k \in JobId :
               /\ jobs'[j].status \in JobStatus /\ jobs'[k].status \in JobStatus
               /\ jobs'[j].req.batch # NoBatch /\ jobs'[j].req.batch = jobs'[k].req.batch
               => jobs'[j].manifest = jobs'[k].manifest

\* Rows that were in use before the step keep their witnesses and agree.
LEMMA WholeBefore ==
  ASSUME TypeOK, BlankInv, BatchAdmittedWhole, [Next]_storeVars
  PROVE  /\ \A j \in JobId : jobs[j].status # "absent" =>
              \A q \in jobs'[j].manifest :
                 \E k \in JobId : jobs'[k].req = q /\ jobs'[k].manifest = jobs'[j].manifest
         /\ \A j, k \in JobId :
              /\ jobs[j].status # "absent" /\ jobs[k].status # "absent"
              /\ jobs'[j].status \in JobStatus /\ jobs'[k].status \in JobStatus
              /\ jobs'[j].req.batch # NoBatch /\ jobs'[j].req.batch = jobs'[k].req.batch
              => jobs'[j].manifest = jobs'[k].manifest
<1>1. ASSUME NEW j \in JobId, jobs[j].status # "absent", NEW q \in jobs'[j].manifest
      PROVE  \E k \in JobId : jobs'[k].req = q /\ jobs'[k].manifest = jobs'[j].manifest
  <2>1. jobs'[j].manifest = jobs[j].manifest
    BY <1>1, ManifestKept
  <2>2. PICK k \in JobId : jobs[k].req = q /\ jobs[k].manifest = jobs[j].manifest
    BY <1>1, <2>1 DEF BatchAdmittedWhole
  <2>3. q \in Request
    BY <1>1, <2>1 DEF TypeOK, Row
  <2>4. jobs[k].status # "absent"
    <3>1. NoRow.req = NoRequest
      BY DEF NoRow
    <3>2. QED
      BY <2>2, <2>3, <3>1, JobStoreAssumption DEF BlankInv
  <2>5. jobs'[k].req = q /\ jobs'[k].manifest = jobs'[j].manifest
    BY <2>1, <2>2, <2>4, ManifestKept
  <2>6. QED
    BY <2>5
<1>2. ASSUME NEW j \in JobId, NEW k \in JobId, jobs[j].status # "absent", jobs[k].status # "absent",
             jobs'[j].status \in JobStatus, jobs'[k].status \in JobStatus,
             jobs'[j].req.batch # NoBatch, jobs'[j].req.batch = jobs'[k].req.batch
      PROVE  jobs'[j].manifest = jobs'[k].manifest
  <2>1. /\ j \in Present /\ jobs'[j].req = jobs[j].req /\ jobs'[j].manifest = jobs[j].manifest
        /\ k \in Present /\ jobs'[k].req = jobs[k].req /\ jobs'[k].manifest = jobs[k].manifest
    BY <1>2, ManifestKept
  <2>2. QED
    BY <1>2, <2>1 DEF BatchAdmittedWhole
<1>3. QED
  BY <1>1, <1>2

\* Two retries of a batch, or a batch and a job, never split a manifest.
LEMMA WholeStep ==
  ASSUME TypeOK, BlankInv, BatchAdmittedWhole, [Next]_storeVars
  PROVE  WitnessStep /\ AgreeStep
<1>0. "absent" \notin JobStatus /\ NoRow.manifest = {} /\ NoRow.status = "absent"
  BY DEF JobStatus, Active, Terminal, NoRow
<1>1. ASSUME NEW q \in Request, NEW i \in JobId, NEW n \in Nat, q.batch = NoBatch,
             jobs' = [jobs EXCEPT ![i] = AdmittedRow(q, {}, n)]
      PROVE  WitnessStep /\ AgreeStep
  <2>1. jobs'[i].manifest = {} /\ jobs'[i].req.batch = NoBatch
    <3>1. jobs'[i] = AdmittedRow(q, {}, n)
      BY <1>1 DEF TypeOK
    <3>2. AdmittedRow(q, {}, n).manifest = {} /\ AdmittedRow(q, {}, n).req = q
      BY AdmittedManifest
    <3>3. QED
      BY <1>1, <3>1, <3>2
  <2>2. \A j \in JobId : j # i => jobs'[j] = jobs[j]
    BY <1>1 DEF TypeOK
  <2>3. \A j \in JobId : j = i \/ jobs[j].status # "absent" \/ jobs'[j] = NoRow
    BY <2>2 DEF BlankInv
  <2>4. WitnessStep
    BY <1>0, <2>1, <2>3, WholeBefore DEF WitnessStep
  <2>5. AgreeStep
    BY <1>0, <2>1, <2>3, WholeBefore DEF AgreeStep
  <2>6. QED
    BY <2>4, <2>5
<1>2. ASSUME NEW batch \in SUBSET Request, NEW b, AdmitBatch(batch, b)
      PROVE  WitnessStep /\ AgreeStep
  <2>1. PICK new, f : BatchEffect(batch, new, f)
    BY <1>2, BatchPlaced
  <2>2. /\ b # NoBatch /\ ManifestAgrees(batch, b)
        /\ \A q \in batch : q.batch = b /\ q \in Request /\ ~KeyClash(q)
    BY <1>2 DEF AdmitBatch
  <2>3. \A q \in new : /\ q \in batch /\ f[q].id \in JobId
                       /\ jobs'[f[q].id].manifest = batch /\ jobs'[f[q].id].req = q
    <3> SUFFICES ASSUME NEW q \in new
                 PROVE  /\ q \in batch /\ f[q].id \in JobId
                        /\ jobs'[f[q].id].manifest = batch /\ jobs'[f[q].id].req = q
      OBVIOUS
    <3>1. /\ q \in batch /\ q \in Request /\ f[q].id \in JobId /\ f[q].seq \in Nat
          /\ jobs'[f[q].id] = AdmittedRow(q, batch, f[q].seq)
      BY <2>1 DEF BatchEffect
    <3>2. QED
      BY <3>1, AdmittedManifest
  <2>4. \A j \in JobId : (\E q \in new : f[q].id = j) \/ jobs[j].status # "absent" \/ jobs'[j] = NoRow
    BY <2>1 DEF BatchEffect, BlankInv
  <2>5. \A q \in batch : \E k \in JobId : jobs'[k].req = q /\ jobs'[k].manifest = batch
    <3> SUFFICES ASSUME NEW q \in batch
                 PROVE  \E k \in JobId : jobs'[k].req = q /\ jobs'[k].manifest = batch
      OBVIOUS
    <3>1. CASE q \in new
      BY <2>3, <3>1
    <3>2. CASE q \notin new
      <4>1. PICK k : k \in Existing(q)
        BY <2>1, <3>2 DEF BatchEffect
      <4>2. k \in Present /\ jobs[k].req = q /\ jobs[k].manifest = batch
        BY <2>2, <4>1 DEF Existing, KeyClash, ManifestAgrees
      <4>3. k \in JobId /\ jobs[k].status # "absent"
        BY <1>0, <4>2 DEF Present
      <4>4. QED
        BY <4>2, <4>3, ManifestKept
    <3>3. QED
      BY <3>1, <3>2
  <2>6. WitnessStep
    <3> SUFFICES ASSUME NEW j \in JobId, NEW q \in jobs'[j].manifest
                 PROVE  \E k \in JobId : jobs'[k].req = q /\ jobs'[k].manifest = jobs'[j].manifest
      BY DEF WitnessStep
    <3>1. CASE \E r \in new : f[r].id = j
      BY <2>3, <2>5, <3>1
    <3>2. CASE jobs[j].status # "absent"
      BY <3>2, WholeBefore
    <3>3. QED
      BY <1>0, <2>4, <3>1, <3>2
  <2>7. AgreeStep
    <3> SUFFICES ASSUME NEW j \in JobId, NEW k \in JobId,
                        jobs'[j].status \in JobStatus, jobs'[k].status \in JobStatus,
                        jobs'[j].req.batch # NoBatch, jobs'[j].req.batch = jobs'[k].req.batch
                 PROVE  jobs'[j].manifest = jobs'[k].manifest
      BY DEF AgreeStep
    <3>1. ASSUME NEW i \in JobId, jobs'[i].status \in JobStatus, jobs'[i].req.batch = b
          PROVE  jobs'[i].manifest = batch
      <4>1. CASE \E q \in new : f[q].id = i
        BY <2>3, <4>1
      <4>2. CASE jobs[i].status # "absent"
        <5>1. i \in Present /\ jobs'[i].req = jobs[i].req /\ jobs'[i].manifest = jobs[i].manifest
          BY <3>1, <4>2, ManifestKept
        <5>2. QED
          BY <2>2, <3>1, <5>1 DEF ManifestAgrees
      <4>3. QED
        BY <1>0, <2>4, <3>1, <4>1, <4>2
    <3>2. CASE jobs'[j].req.batch = b
      BY <3>1, <3>2
    <3>3. CASE jobs'[j].req.batch # b
      <4>1. \A q \in new : f[q].id # j /\ f[q].id # k
        BY <2>2, <2>3, <3>3
      <4>2. jobs[j].status # "absent" /\ jobs[k].status # "absent"
        BY <1>0, <2>4, <4>1
      <4>3. QED
        BY <4>2, WholeBefore
    <3>4. QED
      BY <3>2, <3>3
  <2>8. QED
    BY <2>6, <2>7
<1>3. ASSUME \A j \in JobId : jobs[j].status = "absent" => jobs'[j] = jobs[j]
      PROVE  WitnessStep /\ AgreeStep
  <2>1. \A j \in JobId : jobs[j].status # "absent" \/ jobs'[j] = NoRow
    BY <1>3 DEF BlankInv
  <2>2. WitnessStep
    BY <1>0, <2>1, WholeBefore DEF WitnessStep
  <2>3. AgreeStep
    BY <1>0, <2>1, WholeBefore DEF AgreeStep
  <2>4. QED
    BY <2>2, <2>3
<1>4. QED
  BY <1>1, <1>2, <1>3, Newcomers

\* A batch is admitted whole, and no two manifests share it while it has rows,
\* for any retries, deletions and admissions in between.
THEOREM BatchesWhole == Spec => []BatchAdmittedWhole
<1>1. Init => BatchAdmittedWhole
  <2> SUFFICES ASSUME Init PROVE BatchAdmittedWhole
    OBVIOUS
  <2>1. ASSUME NEW j \in JobId
        PROVE  jobs[j].manifest = {} /\ (j \in Present => jobs[j].req = LegacyRequest)
    <3>1. CASE j \in Legacy
      <4>1. jobs[j] \in LegacyRow
        BY <3>1 DEF Init
      <4>2. QED
        BY <4>1 DEF LegacyRow
    <3>2. CASE j \notin Legacy
      <4>1. jobs[j] = NoRow
        BY <3>2 DEF Init
      <4>2. QED
        BY <4>1 DEF NoRow, Present, JobStatus, Active, Terminal
    <3>3. QED
      BY <3>1, <3>2
  <2>2. LegacyRequest.batch = NoBatch
    BY JobStoreAssumption
  <2>3. \A j \in Present : j \in JobId
    BY DEF Present
  <2>4. QED
    BY <2>1, <2>2, <2>3 DEF BatchAdmittedWhole
<1>2. TypeOK /\ BlankInv /\ BatchAdmittedWhole /\ [Next]_storeVars => BatchAdmittedWhole'
  <2> SUFFICES ASSUME TypeOK, BlankInv, BatchAdmittedWhole, [Next]_storeVars
               PROVE  BatchAdmittedWhole'
    OBVIOUS
  <2>1. WitnessStep /\ AgreeStep
    BY WholeStep
  <2>2. QED
    BY <2>1 DEF WitnessStep, AgreeStep, BatchAdmittedWhole, Present
<1>3. QED
  BY <1>1, <1>2, BlankStart, BlankStep, TypeCorrect, PTL DEF Spec

-----------------------------------------------------------------------------
(* Retention *)

\* The terminal rows of the source of j, and their order of retention.
Snapshots(j) == {k \in InState(Terminal) : SameSource(j, k)}
Retention(j) == {e \in Snapshots(j) \X Snapshots(j) : e[1] \in Newer(e[2])}

LEMMA RetentionOrder ==
  ASSUME TypeOK, NEW j \in JobId
  PROVE  /\ IsFiniteSet(Snapshots(j)) /\ Orders(Retention(j), Snapshots(j))
         /\ \A k \in Snapshots(j) : Below(Retention(j), Snapshots(j), k) = Newer(k)
<1> DEFINE T == Snapshots(j)
           at(k) == jobs[k].snapshot.at
<1>0. /\ Snapshots(j) \in SUBSET JobId /\ IsFiniteSet(Snapshots(j))
      /\ \A k \in JobId : k \in Nat /\ jobs[k].snapshot.at \in Nat
  <2>1. Snapshots(j) \in SUBSET JobId /\ IsFiniteSet(JobId) /\ JobId \subseteq Nat
    BY JobStoreAssumption DEF Snapshots, InState
  <2>2. ASSUME NEW k \in JobId PROVE jobs[k].snapshot.at \in Nat
    <3>1. jobs[k].snapshot \in Snapshot
      BY DEF TypeOK, Row
    <3>2. jobs[k].snapshot.at \in {NoTime} \union Time
      BY <3>1 DEF Snapshot
    <3>3. QED
      BY <3>2, JobStoreAssumption DEF NoTime, Time
  <2>3. QED
    BY <2>1, <2>2, FS_Subset
<1>1. \A i, k \in Snapshots(j) : SameSource(k, i) /\ i \in InState(Terminal)
  BY DEF Snapshots, SameSource
<1>2. \A i, k \in Snapshots(j) :
        <<i, k>> \in Retention(j) <=> /\ i # k
                                      /\ at(i) > at(k) \/ (at(i) = at(k) /\ i > k)
  BY <1>1 DEF Retention, Newer
<1>3. Orders(Retention(j), Snapshots(j))
  <2>1. \A i \in Snapshots(j) : <<i, i>> \notin Retention(j)
    BY <1>2
  <2>2. \A i, k \in Snapshots(j) : i # k => <<i, k>> \in Retention(j) \/ <<k, i>> \in Retention(j)
    BY <1>0, <1>2
  <2>3. \A i, k, l \in Snapshots(j) :
          <<i, k>> \in Retention(j) /\ <<k, l>> \in Retention(j) => <<i, l>> \in Retention(j)
    BY <1>0, <1>2
  <2>4. QED
    BY <2>1, <2>2, <2>3 DEF Orders
<1>4. ASSUME NEW k \in Snapshots(j) PROVE Below(Retention(j), Snapshots(j), k) = Newer(k)
  <2>1. \A i : i \in Below(Retention(j), Snapshots(j), k) => i \in Newer(k)
    BY DEF Below, Retention
  <2>2. \A i : i \in Newer(k) => i \in Snapshots(j)
    BY DEF Newer, Snapshots, SameSource
  <2>3. \A i : i \in Newer(k) => i \in Below(Retention(j), Snapshots(j), k)
    BY <2>2 DEF Below, Retention
  <2>4. QED
    BY <2>1, <2>3
<1>5. QED
  BY <1>0, <1>3, <1>4

\* What a purge that takes a row of a source leaves of that source.
LEMMA NewestLeft ==
  ASSUME TypeOK, NEW keep \in Nat, NEW cutoff \in Nat, PurgeSnapshots(keep, cutoff),
         NEW j \in Present, jobs'[j].status = "deleted",
         NEW left, left = {k \in JobId : /\ jobs[k].status \in Terminal /\ SameSource(j, k)
                                         /\ jobs'[k].status = jobs[k].status}
  PROVE  /\ jobs[j].status \in Terminal
         /\ Cardinality(left) >= keep
         /\ \A k \in left : jobs[k].snapshot.at >= jobs[j].snapshot.at
<1> DEFINE D == Purged(keep, cutoff)
<1>0. "deleted" \notin JobStatus /\ "deleted" \notin Terminal
  BY DEF JobStatus, Active, Terminal
<1>1. jobs' = [k \in JobId |-> IF k \in D THEN Tombstone(jobs[k]) ELSE jobs[k]]
  BY DEF PurgeSnapshots, Delete
<1>2. j \in D /\ j \in JobId
  BY <1>0, <1>1 DEF Present
<1>3. j \in InState(Terminal) /\ Cardinality(Newer(j)) >= keep /\ jobs[j].snapshot.at < cutoff
  BY <1>2 DEF Purged
<1>4. \A k \in JobId : k \in Snapshots(j) \ D => k \in left
  BY <1>1 DEF Snapshots, InState
<1>5. \A k \in left : k \in Snapshots(j) /\ k \in JobId /\ k \notin D
  <2> SUFFICES ASSUME NEW k \in left PROVE k \in Snapshots(j) /\ k \in JobId /\ k \notin D
    OBVIOUS
  <2>1. k \in D => jobs'[k].status = "deleted"
    BY <1>1 DEF Tombstone, NoRow
  <2>2. QED
    BY <1>0, <2>1 DEF Snapshots, InState
<1>6. /\ IsFiniteSet(Snapshots(j)) /\ Orders(Retention(j), Snapshots(j))
      /\ \A k \in Snapshots(j) : Below(Retention(j), Snapshots(j), k) = Newer(k)
  BY <1>2, RetentionOrder
<1>7. \A k \in JobId : jobs[k].snapshot.at \in Nat
  <2> SUFFICES ASSUME NEW k \in JobId PROVE jobs[k].snapshot.at \in Nat
    OBVIOUS
  <2>1. jobs[k].snapshot \in Snapshot
    BY DEF TypeOK, Row
  <2>2. jobs[k].snapshot.at \in {NoTime} \union Time
    BY <2>1 DEF Snapshot
  <2>3. QED
    BY <2>2, JobStoreAssumption DEF NoTime, Time
<1>8. \A k \in Snapshots(j) : Newer(k) \in SUBSET Snapshots(j) /\ k \in JobId /\ k \in InState(Terminal)
  BY DEF Newer, Snapshots, SameSource, InState
<1>9. j \in Snapshots(j)
  BY <1>3 DEF Snapshots, SameSource
<1>10. \A k \in Snapshots(j) : IsFiniteSet(Newer(k)) /\ Cardinality(Newer(k)) \in Nat
  BY <1>6, <1>8, FS_Subset, FS_CardinalityType
<1>11. \A k \in D : k \in JobId /\ Cardinality(Newer(k)) >= keep
  BY DEF Purged, InState
<1> HIDE DEF D
<1>12. Cardinality(left) >= keep
  <2>1. \A k \in Snapshots(j) : Cardinality(Newer(k)) < keep => k \in left
    BY <1>4, <1>8, <1>10, <1>11
  <2>2. \A k \in Snapshots(j) : Cardinality(Below(Retention(j), Snapshots(j), k)) < keep => k \in left
    BY <1>6, <2>1
  <2>3. keep <= Cardinality(Snapshots(j))
    <3>1. Cardinality(Newer(j)) <= Cardinality(Snapshots(j)) /\ Cardinality(Snapshots(j)) \in Nat
      BY <1>6, <1>8, <1>9, FS_Subset, FS_CardinalityType
    <3>2. QED
      BY <1>3, <1>9, <1>10, <3>1
  <2>4. left \in SUBSET Snapshots(j)
    BY <1>5
  <2>5. keep <= Cardinality(left)
    BY <1>6, <2>2, <2>3, <2>4, FirstOnes
  <2>6. IsFiniteSet(left) /\ Cardinality(left) \in Nat
    BY <1>6, <2>4, FS_Subset, FS_CardinalityType
  <2>7. QED
    BY <2>5, <2>6
<1>13. ASSUME NEW k \in left PROVE jobs[k].snapshot.at >= jobs[j].snapshot.at
  <2> SUFFICES ASSUME jobs[k].snapshot.at < jobs[j].snapshot.at PROVE FALSE
    BY <1>2, <1>5, <1>7
  <2>1. k \in Snapshots(j) /\ k \in JobId /\ k \notin D /\ k \in InState(Terminal)
    BY <1>5, <1>8
  <2>2. jobs[k].snapshot.at < cutoff
    BY <1>2, <1>3, <1>7, <2>1
  <2>3. Cardinality(Newer(k)) < keep
    BY <1>10, <2>1, <2>2 DEF D, Purged
  <2>4. Newer(j) \in SUBSET Newer(k)
    <3> SUFFICES ASSUME NEW i \in Newer(j) PROVE i \in Newer(k)
      OBVIOUS
    <3>1. /\ i \in InState(Terminal) /\ i \in JobId /\ SameSource(j, i)
          /\ jobs[i].snapshot.at >= jobs[j].snapshot.at
      BY <1>2, <1>7 DEF Newer, InState
    <3>2. jobs[i].snapshot.at > jobs[k].snapshot.at /\ i # k
      BY <1>2, <1>7, <2>1, <3>1
    <3>3. SameSource(k, i)
      BY <2>1, <3>1 DEF Snapshots, SameSource
    <3>4. QED
      BY <3>1, <3>2, <3>3 DEF Newer
  <2>5. Cardinality(Newer(j)) <= Cardinality(Newer(k))
    BY <1>10, <2>1, <2>4, FS_Subset
  <2>6. QED
    BY <1>3, <1>9, <1>10, <2>1, <2>3, <2>5
<1>14. QED
  BY <1>3, <1>12, <1>13 DEF InState

\* A purge deletes terminal rows only, and leaves of every source it touches the
\* newest ones, as many as it was told to keep.
THEOREM NewestKept == Spec => PurgeKeepsNewest
<1>1. TypeOK /\ [Next]_storeVars =>
        [\A keep \in 0..Cardinality(JobId), cutoff \in 1..(MaxTime + 1) :
           PurgeSnapshots(keep, cutoff) =>
             \A j \in Present :
               LET left == {k \in JobId : /\ jobs[k].status \in Terminal /\ SameSource(j, k)
                                          /\ jobs'[k].status = jobs[k].status}
               IN  jobs'[j].status = "deleted" =>
                     /\ jobs[j].status \in Terminal
                     /\ Cardinality(left) >= keep
                     /\ \A k \in left : jobs[k].snapshot.at >= jobs[j].snapshot.at]_storeVars
  <2> SUFFICES ASSUME TypeOK, NEW keep \in 0..Cardinality(JobId), NEW cutoff \in 1..(MaxTime + 1),
                      PurgeSnapshots(keep, cutoff), NEW j \in Present, jobs'[j].status = "deleted"
               PROVE  LET left == {k \in JobId : /\ jobs[k].status \in Terminal /\ SameSource(j, k)
                                                 /\ jobs'[k].status = jobs[k].status}
                      IN  /\ jobs[j].status \in Terminal
                          /\ Cardinality(left) >= keep
                          /\ \A k \in left : jobs[k].snapshot.at >= jobs[j].snapshot.at
    OBVIOUS
  <2>1. keep \in Nat /\ cutoff \in Nat
    BY JobStoreAssumption, FS_CardinalityType
  <2>2. QED
    BY <2>1, NewestLeft
<1>2. QED
  BY <1>1, TypeCorrect, PTL DEF Spec, PurgeKeepsNewest
=============================================================================
