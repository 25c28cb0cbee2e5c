------------------------ MODULE BrowserCaptureProofs -------------------------
(***************************************************************************)
(* Proofs about BrowserCapture, for any set of posts, any target and any   *)
(* number of attempts and sign-ins: the checkpoint of a row is honest, and *)
(* a capture does not knowingly replace a newer session by its own.        *)
(***************************************************************************)
EXTENDS BrowserCapture, FiniteSetTheorems, TLAPS

Session == [signIn : Nat, attempt : Nat]
Outcome == Summary \union Failure \union {"none"}
Status  == {"queued", "running", "cancelled", "interrupted", "partial", "failed", "succeeded"}

\* Where collect works with what it read from the checkpoint, and with the
\* session of its context.
Counting  == {"launch", "loop", "scan", "scanned", "decide"}
Signed    == {"loop", "scan", "scanned", "decide", "refresh", "replace"}
Elsewhere == {"idle", "prepare", "ending"}

RowType ==
  row \in [status : Status, reason : Outcome \union {"target_not_reached"}, stored : SUBSET Posts,
           seen : SUBSET Posts, stop : Summary \union {"none"}, attempt : Nat]
CapType ==
  cap \in [digest : Session, context : Session, compared : Session, seen : SUBSET Posts,
           stored : Int, added : Int, idle : Int, outcome : Outcome]
PlaceType == pc \in Counting \union Signed \union Elsewhere
SignType  == file \in Session /\ signIn.done \in Nat /\ signIn = [phase |-> signIn.phase, done |-> signIn.done]

\* What a capture counts is what its row holds, for as long as the row is its own.
CountInv ==
  /\ CheckpointIsHonest
  /\ pc \in Counting /\ row.status = "running" =>
       cap.seen = row.seen /\ cap.stored = Cardinality(row.stored)

\* The session of the context is not older than the one that was read first.
SessionInv ==
  /\ file.signIn <= signIn.done /\ cap.digest.signIn <= signIn.done
  /\ cap.context.signIn <= signIn.done
  /\ pc = "launch" => file = NoSession \/ cap.digest.signIn <= file.signIn
  /\ pc \in Signed => cap.digest.signIn <= cap.context.signIn
  /\ pc = "replace" => cap.compared = cap.digest

IInv == /\ RowType /\ CapType /\ PlaceType /\ SignType
        /\ CountInv /\ SessionInv

LEMMA Counted ==
  ASSUME NEW stored \in SUBSET Posts
  PROVE  Cardinality(stored) \in Nat
BY BrowserAssumption, FS_Subset, FS_CardinalityType

\* New posts add to the count, and a scan stops at the target.
LEMMA CountedTogether ==
  ASSUME NEW stored \in SUBSET Posts, NEW fresh \in SUBSET (Posts \ stored)
  PROVE  Cardinality(stored \union fresh) = Cardinality(stored) + Cardinality(fresh)
<1>1. IsFiniteSet(stored) /\ IsFiniteSet(fresh)
  BY BrowserAssumption, FS_Subset
<1>2. stored \cap fresh = {}
  OBVIOUS
<1>3. Cardinality(stored \cap fresh) = 0
  BY <1>2, FS_EmptySet
<1>4. Cardinality(stored) \in Nat /\ Cardinality(fresh) \in Nat
  BY <1>1, FS_CardinalityType
<1>5. Cardinality(stored \union fresh)
        = Cardinality(stored) + Cardinality(fresh) - Cardinality(stored \cap fresh)
  BY <1>1, FS_Union
<1> QED
  BY <1>3, <1>4, <1>5

LEMMA InitInv == Init => IInv
<1> SUFFICES ASSUME Init PROVE IInv
  OBVIOUS
<1> USE DEF Init, NoCapture, NoSession
<1>1. RowType /\ PlaceType
  BY DEF RowType, PlaceType, Status, Outcome, Counting, Signed, Elsewhere
<1>2. CapType
  BY DEF CapType, Session, Outcome
<1>3. SignType
  BY DEF SignType, Session
<1>4. CheckpointIsHonest
  BY FS_EmptySet, BrowserAssumption DEF CheckpointIsHonest
<1>5. SessionInv
  BY DEF SessionInv, Signed
<1> QED
  BY <1>1, <1>2, <1>3, <1>4, <1>5 DEF IInv, CountInv, Counting

\* A step that leaves what a row counts alone, and ends in success only when full.
KeepsRow ==
  /\ row'.stored = row.stored /\ row'.seen = row.seen
  /\ row'.stop = row.stop
  /\ row'.status = "succeeded" => row.status = "succeeded" \/ Cardinality(row.stored) >= Target

LEMMA KeepsHonest == ASSUME IInv, KeepsRow PROVE CheckpointIsHonest'
<1>1. Cardinality(row.stored) \in Nat
  BY Counted DEF IInv, RowType
<1> QED
  BY <1>1, BrowserAssumption DEF IInv, CountInv, CheckpointIsHonest, KeepsRow

\* collect is over: what was read from the checkpoint is gone.
LEMMA GoneKeeps ==
  ASSUME IInv, KeepsRow, RowType', pc' \in {"idle", "ending"}, UNCHANGED signIn,
         NEW outcome \in Outcome, cap' = [NoCapture EXCEPT !.outcome = outcome],
         file' \in Session, file'.signIn <= signIn.done
  PROVE  IInv'
<1>1. CapType'
  BY DEF CapType, Session, NoCapture, NoSession
<1>2. cap'.digest.signIn = 0 /\ cap'.context.signIn = 0
  BY DEF NoCapture, NoSession
<1>3. PlaceType' /\ SignType'
  BY DEF IInv, PlaceType, SignType, Elsewhere
<1>4. CountInv'
  BY KeepsHonest DEF CountInv, Counting
<1>5. SessionInv'
  BY <1>2 DEF IInv, SignType, SessionInv, Signed
<1> QED
  BY <1>1, <1>3, <1>4, <1>5 DEF IInv

LEMMA NoCaptureIsGone == NoCapture = [NoCapture EXCEPT !.outcome = "none"]
BY DEF NoCapture

LEMMA EndedKeeps ==
  ASSUME IInv, NEW status \in Status, NEW reason \in Outcome \union {"target_not_reached"},
         status = "succeeded" => Cardinality(row.stored) >= Target,
         Ended(status, reason)
  PROVE  RowType' /\ KeepsRow
BY DEF Ended, IInv, RowType, KeepsRow


\* A step of the capture itself that leaves row and file alone.
LEMMA MovesKeep ==
  ASSUME IInv, UNCHANGED <<row, file, signIn>>, PlaceType', CapType',
         pc' \in Counting /\ row.status = "running" =>
           cap'.seen = row.seen /\ cap'.stored = Cardinality(row.stored),
         cap'.digest.signIn <= signIn.done, cap'.context.signIn <= signIn.done,
         pc' = "launch" => file = NoSession \/ cap'.digest.signIn <= file.signIn,
         pc' \in Signed => cap'.digest.signIn <= cap'.context.signIn,
         pc' = "replace" => cap'.compared = cap'.digest
  PROVE  IInv'
BY DEF IInv, RowType, SignType, CountInv, CheckpointIsHonest, SessionInv

\* A step of somebody else that leaves the row, the worker and its session alone.
LEMMA OthersKeep ==
  ASSUME IInv, UNCHANGED <<row, pc, cap>>, SignType', signIn'.done >= signIn.done,
         \/ file' = file
         \/ file' = NoSession
         \/ file'.signIn = signIn'.done
  PROVE  IInv'
<1>1. RowType' /\ CapType' /\ PlaceType' /\ CountInv'
  BY DEF IInv, RowType, CapType, PlaceType, CountInv, CheckpointIsHonest
<1>2. SessionInv'
  BY DEF IInv, SignType, CapType, SessionInv, Session, NoSession
<1> QED
  BY <1>1, <1>2 DEF IInv

\* A step that changes the status of the row only.
LEMMA StatusKeeps ==
  ASSUME IInv, UNCHANGED <<file, signIn>>, UNCHANGED <<pc, cap>>, RowType', KeepsRow,
         row'.status = "running" => row.status = "running"
  PROVE  IInv'
<1>1. CapType' /\ PlaceType' /\ SignType' /\ SessionInv'
  BY DEF IInv, CapType, PlaceType, SignType, SessionInv
<1>2. CountInv'
  BY KeepsHonest DEF IInv, CountInv, KeepsRow
<1> QED
  BY <1>1, <1>2 DEF IInv

LEMMA FileTyped == ASSUME IInv PROVE file \in Session /\ file.signIn <= signIn.done
BY DEF IInv, SignType, SessionInv

-----------------------------------------------------------------------------
(* The worker *)

LEMMA LeaseStep == ASSUME IInv, Lease PROVE IInv'
<1> USE DEF Lease
<1>1. RowType' /\ KeepsRow
  <2>1. row' = [row EXCEPT !.status = "running", !.reason = "none", !.attempt = row.attempt + 1]
    OBVIOUS
  <2>2. row \in [status : Status, reason : Outcome \union {"target_not_reached"},
                  stored : SUBSET Posts, seen : SUBSET Posts, stop : Summary \union {"none"},
                  attempt : Nat]
    BY DEF IInv, RowType
  <2>3. row.attempt + 1 \in Nat
    BY <2>2
  <2>4. "running" \in Status /\ "none" \in Outcome
    BY DEF Status, Outcome
  <2>5. RowType'
    BY <2>1, <2>2, <2>3, <2>4, Zenon DEF RowType
  <2>6. KeepsRow
    BY <2>1, <2>2 DEF KeepsRow
  <2> QED
    BY <2>5, <2>6
<1>2. CASE Returns("target_reached")
  BY <1>1, <1>2, GoneKeeps, FileTyped DEF Returns, files, Outcome, Summary
<1>3. CASE pc' = "prepare" /\ cap' = NoCapture
  <2>1. CapType' /\ PlaceType' /\ SignType'
    BY <1>3 DEF IInv, CapType, PlaceType, SignType, NoCapture, NoSession, Session, Outcome, Elsewhere, files
  <2>2. CountInv'
    BY <1>1, <1>3, KeepsHonest DEF CountInv, Counting
  <2>3. SessionInv'
    BY <1>3 DEF IInv, SignType, SessionInv, NoCapture, NoSession, Signed, files
  <2> QED
    BY <1>1, <2>1, <2>2, <2>3 DEF IInv
<1> QED
  BY <1>2, <1>3

LEMMA PrepareStep == ASSUME IInv, Prepare PROVE IInv'
<1> USE DEF Prepare
<1>1. CASE Returns("session_invalid")
  <2>1. RowType' /\ KeepsRow
    BY DEF IInv, RowType, KeepsRow
  <2> QED
    BY <1>1, <2>1, GoneKeeps, FileTyped DEF Returns, files, Outcome, Failure
<1>2. CASE /\ cap' = [cap EXCEPT !.digest = file, !.seen = row.seen, !.stored = Cardinality(row.stored)]
           /\ pc' = "launch"
  <2>1. Cardinality(row.stored) \in Nat
    BY Counted DEF IInv, RowType
  <2>2. CapType' /\ PlaceType'
    <3>1. PlaceType'
      BY <1>2 DEF PlaceType, Counting
    <3>2. file \in Session /\ row.seen \in SUBSET Posts /\ Cardinality(row.stored) \in Int
      BY <2>1 DEF IInv, RowType, SignType
    <3>3. CapType'
      BY <1>2, <3>2, Zenon DEF IInv, CapType
    <3> QED
      BY <3>1, <3>3
  <2>3. cap'.digest = file /\ cap'.context = cap.context /\ cap'.seen = row.seen
          /\ cap'.stored = Cardinality(row.stored)
    BY <1>2 DEF IInv, CapType
  <2>4. file.signIn <= file.signIn
    BY DEF IInv, SignType, Session
  <2> QED
    BY <1>2, <2>2, <2>3, <2>4, MovesKeep DEF IInv, SessionInv, files, Signed
<1> QED
  BY <1>1, <1>2

LEMMA LaunchStep == ASSUME IInv, Launch PROVE IInv'
<1> USE DEF Launch
<1>1. CASE Returns("browser_failure")
  <2>1. RowType' /\ KeepsRow
    BY DEF IInv, RowType, KeepsRow
  <2> QED
    BY <1>1, <2>1, GoneKeeps, FileTyped DEF Returns, Outcome, Failure
<1>2. CASE file # NoSession /\ pc' = "loop" /\ cap' = [cap EXCEPT !.context = file]
  <2>1. CapType' /\ PlaceType'
    BY <1>2 DEF IInv, SignType, CapType, PlaceType, Counting
  <2>2. cap'.digest = cap.digest /\ cap'.context = file /\ cap'.seen = cap.seen /\ cap'.stored = cap.stored
    BY <1>2 DEF IInv, CapType
  <2> QED
    BY <1>2, <2>1, <2>2, MovesKeep DEF IInv, CountInv, SessionInv, Signed, Counting
<1> QED
  BY <1>1, <1>2

LEMMA PageFailsStep == ASSUME IInv, PageFails PROVE IInv'
<1> USE DEF PageFails
<1>1. PICK failure \in PageFailure : Returns(failure[1])
  OBVIOUS
<1>2. failure[1] \in Outcome
  BY DEF PageFailure, Outcome, Failure
<1>3. RowType' /\ KeepsRow
  BY DEF IInv, RowType, KeepsRow
<1> QED
  BY <1>1, <1>2, <1>3, GoneKeeps, FileTyped DEF Returns

LEMMA MoveStep == ASSUME IInv, Look \/ GoOn PROVE IInv'
<1>1. PlaceType' /\ CapType'
  BY DEF Look, GoOn, IInv, PlaceType, CapType, Counting
<1> QED
  BY <1>1, MovesKeep DEF Look, GoOn, IInv, CountInv, SessionInv, Counting, Signed, files

LEMMA ScanStep == ASSUME IInv, Scan PROVE IInv'
<1>1. PICK fresh \in Fresh :
        LET added == fresh \ row.stored IN
        \/ /\ row.status = "running"
           /\ row' = [row EXCEPT !.stored = @ \union added, !.seen = cap.seen \union fresh,
                                 !.stop = "none"]
           /\ cap' = [cap EXCEPT !.seen = @ \union fresh, !.added = Cardinality(added),
                                 !.stored = @ + Cardinality(added)]
        \/ /\ row.status # "running"
           /\ cap' = [cap EXCEPT !.seen = @ \union fresh, !.added = 0]
           /\ row' = row
  BY DEF Scan
<1>2. pc = "scan" /\ pc' = "scanned" /\ UNCHANGED <<file, signIn>>
  BY DEF Scan, files
<1>3. /\ fresh \in SUBSET Posts /\ fresh \subseteq Posts \ cap.seen
      /\ Cardinality(fresh) <= Target - cap.stored
  BY <1>1 DEF Fresh
<1>4. PlaceType' /\ SignType'
  BY <1>2 DEF IInv, PlaceType, SignType, Counting
<1>5. CASE /\ row.status # "running" /\ row' = row
           /\ cap' = [cap EXCEPT !.seen = @ \union fresh, !.added = 0]
  <2>1. CapType'
    <3>1. cap.seen \union fresh \in SUBSET Posts
      BY <1>3 DEF IInv, CapType
    <3>2. cap' = [cap EXCEPT !.seen = cap.seen \union fresh, !.added = 0] /\ 0 \in Int
      BY <1>5
    <3> QED
      BY <3>1, <3>2, Zenon DEF IInv, CapType
  <2>2. cap'.digest = cap.digest /\ cap'.context = cap.context
    BY <1>5 DEF IInv, CapType
  <2> QED
    BY <1>2, <1>4, <1>5, <2>1, <2>2, MovesKeep DEF IInv, SessionInv, Signed
<1>6. CASE /\ row.status = "running"
           /\ row' = [row EXCEPT !.stored = @ \union (fresh \ row.stored),
                                 !.seen = cap.seen \union fresh, !.stop = "none"]
           /\ cap' = [cap EXCEPT !.seen = @ \union fresh,
                                 !.added = Cardinality(fresh \ row.stored),
                                 !.stored = @ + Cardinality(fresh \ row.stored)]
  <2>1. cap.seen = row.stored /\ row.seen = row.stored /\ cap.stored = Cardinality(row.stored)
    BY <1>2, <1>6 DEF IInv, CountInv, CheckpointIsHonest, Counting
  <2>2. fresh \ row.stored = fresh /\ fresh \in SUBSET (Posts \ row.stored)
    BY <1>3, <2>1
  <2>3. row.stored \in SUBSET Posts
    BY DEF IInv, RowType
  <2>4. Cardinality(row.stored \union fresh) = Cardinality(row.stored) + Cardinality(fresh)
    BY <2>2, <2>3, CountedTogether
  <2>5. Cardinality(row.stored) \in Nat /\ Cardinality(fresh) \in Nat
    BY <1>3, <2>3, Counted
  <2>6. row' = [row EXCEPT !.stored = row.stored \union fresh, !.seen = row.stored \union fresh,
                           !.stop = "none"]
    BY <1>6, <2>1, <2>2
  <2>7. cap' = [cap EXCEPT !.seen = row.stored \union fresh, !.added = Cardinality(fresh),
                           !.stored = cap.stored + Cardinality(fresh)]
    BY <1>6, <2>1, <2>2
  <2>8. row.stored \union fresh \in SUBSET Posts /\ cap.stored + Cardinality(fresh) \in Int
          /\ Cardinality(fresh) \in Int
    BY <1>3, <2>1, <2>3, <2>5
  <2>9. RowType' /\ CapType'
    <3>1. RowType'
      BY <2>6, <2>8, Zenon DEF IInv, RowType
    <3>2. CapType'
      BY <2>7, <2>8, Zenon DEF IInv, CapType
    <3> QED
      BY <3>1, <3>2
  <2>10. /\ row'.stored = row.stored \union fresh /\ row'.seen = row.stored \union fresh
         /\ row'.stop = "none" /\ row'.status = "running"
    BY <1>6, <2>6 DEF IInv, RowType
  <2>11. /\ cap'.seen = row.stored \union fresh /\ cap'.stored = cap.stored + Cardinality(fresh)
         /\ cap'.digest = cap.digest /\ cap'.context = cap.context
    BY <2>7 DEF IInv, CapType
  <2>12. CountInv'
    <3>1. Cardinality(row'.stored) <= Target
      BY <1>3, <2>1, <2>4, <2>5, <2>10, BrowserAssumption
    <3>2. CheckpointIsHonest'
      BY <2>10, <3>1 DEF CheckpointIsHonest
    <3> QED
      BY <2>1, <2>4, <2>10, <2>11, <3>2 DEF CountInv
  <2>13. SessionInv'
    BY <1>2, <2>11 DEF IInv, SessionInv, Signed
  <2> QED
    BY <1>4, <2>9, <2>12, <2>13 DEF IInv
<1> QED
  BY <1>1, <1>5, <1>6

LEMMA StopsStep ==
  ASSUME IInv, NEW reason \in Summary, Stops(reason), pc = "decide", UNCHANGED <<files, signIn>>,
         reason = "target_reached" => cap.stored >= Target
  PROVE  IInv'
<1> USE DEF Stops, files
<1>1. PlaceType' /\ SignType'
  BY DEF IInv, PlaceType, SignType, Signed
<1>2. cap' = [cap EXCEPT !.outcome = reason] /\ reason \in Outcome
  BY DEF Outcome
<1>3. CapType'
  BY <1>2, Zenon DEF IInv, CapType
<1>4. cap'.digest = cap.digest /\ cap'.context = cap.context
  BY <1>2 DEF IInv, CapType
<1>5. SessionInv'
  BY <1>4 DEF IInv, SessionInv, Signed
<1>6. CASE row.status # "running" /\ row' = row
  BY <1>1, <1>3, <1>5, <1>6 DEF IInv, RowType, CountInv, CheckpointIsHonest
<1>7. CASE row.status = "running" /\ row' = [row EXCEPT !.stop = reason]
  <2>1. RowType'
    BY <1>7, Zenon DEF IInv, RowType
  <2>2. row'.stored = row.stored /\ row'.seen = row.seen /\ row'.stop = reason /\ row'.status = "running"
    BY <1>7 DEF IInv, RowType
  <2>3. Cardinality(row.stored) \in Nat
    BY Counted DEF IInv, RowType
  <2>4. CheckpointIsHonest'
    BY <1>7, <2>2, <2>3, BrowserAssumption DEF IInv, CountInv, CheckpointIsHonest, Counting
  <2>5. pc' \notin Counting
    BY DEF Counting
  <2> QED
    BY <1>1, <1>3, <1>5, <2>1, <2>4, <2>5 DEF IInv, CountInv
<1> QED
  BY <1>6, <1>7

LEMMA DecideStep == ASSUME IInv, Decide PROVE IInv'
<1> DEFINE idle == IF cap.added > 0 THEN 0 ELSE cap.idle + 1
<1>1. pc = "decide" /\ UNCHANGED <<files, signIn>>
  BY DEF Decide
<1>2. CASE cap.stored >= Target /\ Stops("target_reached")
  BY <1>1, <1>2, StopsStep DEF Summary
<1>3. CASE Stops("no_progress")
  BY <1>1, <1>3, StopsStep DEF Summary
<1>4. CASE pc' = "loop" /\ cap' = [cap EXCEPT !.idle = idle] /\ row' = row
  <2>1. idle \in Int
    BY DEF IInv, CapType
  <2> HIDE DEF idle
  <2>2. CapType'
    BY <1>4, <2>1, Zenon DEF IInv, CapType
  <2>3. /\ cap'.digest = cap.digest /\ cap'.context = cap.context
        /\ cap'.seen = cap.seen /\ cap'.stored = cap.stored
    BY <1>4, <2>1 DEF IInv, CapType
  <2>4. PlaceType'
    BY <1>4 DEF PlaceType, Counting
  <2> QED
    BY <1>1, <1>4, <2>2, <2>3, <2>4, MovesKeep DEF IInv, CountInv, SessionInv, Counting, Signed, files
<1> QED
  BY <1>1, <1>2, <1>3, <1>4 DEF Decide

LEMMA ReturnsOnly ==
  ASSUME IInv, NEW outcome \in Outcome,
         pc' = "ending", cap' = [NoCapture EXCEPT !.outcome = outcome],
         row' = row, signIn' = signIn, file' \in Session, file'.signIn <= signIn.done
  PROVE  IInv'
<1>1. RowType' /\ KeepsRow
  BY DEF IInv, RowType, KeepsRow
<1> QED
  BY <1>1, GoneKeeps

LEMMA CompareStep == ASSUME IInv, Compare PROVE IInv'
<1> USE DEF Compare
<1>1. CASE Returns(cap.outcome)
  <2>1. cap.outcome \in Outcome
    BY DEF IInv, CapType
  <2>2. file' = file /\ row' = row /\ signIn' = signIn
    BY DEF files
  <2> QED
    BY <1>1, <2>1, <2>2, ReturnsOnly, FileTyped DEF Returns
<1>2. CASE file = cap.digest /\ pc' = "replace" /\ cap' = [cap EXCEPT !.compared = file]
  <2>1. file \in Session
    BY FileTyped
  <2>2. CapType'
    BY <1>2, <2>1, Zenon DEF IInv, CapType
  <2>3. cap'.digest = cap.digest /\ cap'.context = cap.context /\ cap'.compared = file
    BY <1>2 DEF IInv, CapType
  <2>4. PlaceType'
    BY <1>2 DEF PlaceType, Signed
  <2> QED
    BY <1>2, <2>2, <2>3, <2>4, MovesKeep DEF IInv, SessionInv, Counting, Signed, files
<1> QED
  BY <1>1, <1>2

LEMMA ReplaceStep == ASSUME IInv, Replace \/ ReplaceFails PROVE IInv'
<1>1. cap.outcome \in Outcome
  BY DEF IInv, CapType
<1>2. CASE Replace
  <2>1. file' \in Session /\ file'.signIn <= signIn.done
    BY <1>2 DEF Replace, IInv, CapType, RowType, SessionInv, Session
  <2> QED
    BY <1>1, <1>2, <2>1, ReturnsOnly DEF Replace, Returns
<1>3. CASE ReplaceFails
  <2>1. file' = file /\ row' = row /\ signIn' = signIn
    BY <1>3 DEF ReplaceFails, files
  <2>2. pc' = "ending" /\ cap' = [NoCapture EXCEPT !.outcome = cap.outcome]
    BY <1>3 DEF ReplaceFails, Returns
  <2> QED
    BY <1>1, <2>1, <2>2, ReturnsOnly, FileTyped
<1> QED
  BY <1>2, <1>3

LEMMA FaultStep == ASSUME IInv, ScanFails \/ Deadline PROVE IInv'
<1>1. file' = file /\ row' = row /\ signIn' = signIn
  BY DEF ScanFails, Deadline, files
<1>2. pc' = "ending" /\ cap' = [NoCapture EXCEPT !.outcome = "browser_failure"]
  BY DEF ScanFails, Deadline, Returns
<1>3. "browser_failure" \in Outcome
  BY DEF Outcome, Failure
<1> QED
  BY <1>1, <1>2, <1>3, ReturnsOnly, FileTyped

LEMMA LeaveStep == ASSUME IInv, NoticeCancel \/ Finish \/ Shutdown \/ Crash PROVE IInv'
<1>1. pc' = "idle" /\ cap' = [NoCapture EXCEPT !.outcome = "none"] /\ UNCHANGED <<file, signIn>>
  BY NoCaptureIsGone DEF NoticeCancel, Finish, Shutdown, Crash, Leave, files
<1>2. RowType' /\ KeepsRow
  <2>1. CASE NoticeCancel \/ Crash
    BY <2>1 DEF NoticeCancel, Crash, IInv, RowType, KeepsRow
  <2>2. CASE Shutdown
    BY <2>2, EndedKeeps DEF Shutdown, Status, Outcome
  <2>3. CASE Finish
    <3>1. cap.outcome \in Outcome
      BY DEF IInv, CapType
    <3>2. CASE Failed(cap.outcome)
      BY <3>1, <3>2, EndedKeeps DEF Failed, Status
    <3>3. CASE Cardinality(row.stored) >= Target /\ Ended("succeeded", "target_reached")
      BY <3>3, EndedKeeps DEF Status, Outcome, Summary
    <3>4. ASSUME NEW reason \in Outcome \union {"target_not_reached"}, Ended("partial", reason)
          PROVE  RowType' /\ KeepsRow
      BY <3>4, EndedKeeps DEF Status
    <3> QED
      BY <2>3, <3>1, <3>2, <3>3, <3>4 DEF Finish
  <2> QED
    BY <2>1, <2>2, <2>3
<1> QED
  BY <1>1, <1>2, GoneKeeps, FileTyped DEF Outcome

-----------------------------------------------------------------------------
(* Clients, the process, authenticate and the user *)

LEMMA RowStep == ASSUME IInv, Cancel \/ Resume \/ Recover PROVE IInv'
<1>1. \/ row' = [row EXCEPT !.status = "cancelled", !.reason = "none"]
      \/ row' = [row EXCEPT !.status = "queued", !.reason = "none"]
      \/ row' = [row EXCEPT !.status = "queued"]
  BY DEF Cancel, Resume, Recover
<1>2. RowType'
  <2>1. {"queued", "cancelled"} \subseteq Status /\ "none" \in Outcome
    BY DEF Status, Outcome
  <2> QED
    BY <1>1, <2>1, Zenon DEF IInv, RowType
<1>3. KeepsRow /\ row'.status # "running"
  BY <1>1 DEF IInv, RowType, KeepsRow
<1>4. UNCHANGED <<file, signIn>> /\ UNCHANGED <<pc, cap>>
  BY DEF Cancel, Resume, Recover, files
<1> QED
  BY <1>2, <1>3, <1>4, StatusKeeps

LEMMA OtherStep ==
  ASSUME IInv,
         \/ Remove \/ SignInSaves \/ SignInFails \/ SignInReturns \/ SignInDies
         \/ Records("worker") \/ Records("authenticate")
  PROVE  IInv'
<1>1. file \in Session /\ NoSession \in Session /\ signIn.done \in Nat
  BY DEF IInv, SignType, NoSession, Session
<1>2. CASE SignInSaves
  BY <1>1, <1>2, OthersKeep DEF SignInSaves, SignType, Session
<1>3. CASE Remove
  BY <1>1, <1>3, OthersKeep DEF Remove, IInv, SignType
<1>4. CASE SignInFails \/ SignInReturns \/ SignInDies
  <2>1. signIn' = [signIn EXCEPT !.phase = signIn'.phase] /\ UNCHANGED <<file, row, pc, cap>>
    BY <1>4 DEF SignInFails, SignInReturns, SignInDies, files, IInv, SignType
  <2> QED
    BY <1>1, <2>1, OthersKeep DEF IInv, SignType
<1>5. CASE Records("worker") \/ Records("authenticate")
  BY <1>1, <1>5, OthersKeep DEF Records, RecordReads, RecordWrites, IInv, SignType
<1> QED
  BY <1>2, <1>3, <1>4, <1>5

LEMMA NextInv == IInv /\ [Next]_vars => IInv'
<1> SUFFICES ASSUME IInv, [Next]_vars PROVE IInv'
  OBVIOUS
<1>1. CASE UNCHANGED vars
  BY <1>1 DEF vars, IInv, RowType, CapType, PlaceType, SignType, CountInv, CheckpointIsHonest, SessionInv
<1>2. CASE CaptureStep
  BY <1>2, LeaseStep, PrepareStep, LaunchStep, MoveStep, ScanStep, DecideStep, CompareStep, ReplaceStep,
     PageFailsStep, FaultStep, LeaveStep, OtherStep
     DEF CaptureStep
<1> QED
  BY <1>1, <1>2, FaultStep, LeaveStep, RowStep, OtherStep DEF Next

\* The inductive invariant holds in every reachable state.
THEOREM BrowserInvariant == Spec => []IInv
BY InitInv, NextInv, PTL DEF Spec

\* The checkpoint of a row is honest, for every number of posts, attempts and
\* cancellations.
THEOREM CheckpointHonest == Spec => []CheckpointIsHonest
<1>1. IInv => CheckpointIsHonest
  BY DEF IInv, CountInv
<1> QED
  BY <1>1, BrowserInvariant, PTL

\* Only a sign-in that was saved between the comparison and the replacement is
\* lost to an older session, for every number of sign-ins and captures.
THEOREM SessionKept == Spec => NewerSignInKept
<1> DEFINE Kept == file'.signIn < file.signIn => file' = NoSession \/ cap.compared # file
<1>1. IInv /\ [Next]_vars => [Kept]_vars
  <2> SUFFICES ASSUME IInv, Next, file' # file PROVE Kept
    BY DEF IInv, SignType, Session
  <2>1. CASE Remove
    BY <2>1 DEF Remove
  <2>2. CASE SignInSaves
    BY <2>2 DEF SignInSaves, IInv, SignType, SessionInv, Session
  <2>3. CASE Replace
    BY <2>3 DEF Replace, IInv, SignType, CapType, SessionInv, Session, Signed
  <2> QED
    BY <2>1, <2>2, <2>3
       DEF Next, CaptureStep, Lease, Prepare, Launch, Look, Scan, ScanFails, GoOn, Decide, Stops, Compare,
           ReplaceFails, PageFails, NoticeCancel, Finish, Leave, Returns, Records, RecordReads, RecordWrites,
           Deadline, Shutdown, Cancel, Resume, Crash, Recover, SignInFails, SignInReturns, SignInDies, files
<1> QED
  BY <1>1, BrowserInvariant, PTL DEF Spec, NewerSignInKept
=============================================================================
