------------------------ MODULE OfficialCaptureProofs ------------------------
(***************************************************************************)
(* Proofs about OfficialCapture: its types, that the confirmed limit       *)
(* bounds what X bills over all attempts of a job, and that a success is   *)
(* complete.                                                               *)
(***************************************************************************)
EXTENDS OfficialCapture, Counting

RowType  == [status : Status, reason : Reason, retryable : BOOLEAN, stored : SUBSET WellFormed,
             token : 0..Feed, counted : Nat, attempt : 0..MaxAttempts]
LocType  == [storedLeft : Int, resourceLeft : Int, token : 0..Feed, seen : SUBSET (1..Feed),
             size : Nat, tries : 0..MaxRetries]
PageType == [from : 0..Feed, to : 0..Feed, next : 0..Feed]

\* Every billed resource is counted in the row, lost, or in the hands of the
\* worker.
Account == billed = row.counted + lost + Held

\* What a page holds beyond the size that was asked for.
Unasked(p) == AtLeast(Count(p) - loc.size, 0)

\* The row is within the limit, and so is what the worker may still ask for, or
\* has asked for, on top of it.
Budget ==
  /\ row.counted <= Ceiling + over
  /\ pc \in {"loop", "request"} => row.counted + loc.resourceLeft <= Ceiling + over
  /\ pc \in {"request", "response"} => loc.size <= loc.resourceLeft
  /\ pc \in {"response", "stored"} => Count(page) \in Nat
  /\ pc = "response" => row.counted + loc.resourceLeft + Unasked(page) <= Ceiling + over
  /\ pc = "stored" => row.counted + loc.resourceLeft - Count(page) <= Ceiling + over

\* TypeOK and BilledWithinCeiling are not inductive: that a page fits is known
\* from the locals of the worker, which were derived from the row.
IInv == TypeOK /\ Account /\ Budget

-----------------------------------------------------------------------------
(* Lemmas *)

\* The limit is a number: pages are not empty.
LEMMA CeilingInt == Ceiling \in Int
<1>1. Target \in Int /\ PageLimit \in Nat \ {0} /\ MinPage \in Int
  BY OfficialAssumption
<1>2. Target % PageLimit \in Int
  BY <1>1
<1> QED
  BY <1>1, <1>2 DEF Ceiling

\* What is stored can be counted.
LEMMA StoredCount == ASSUME NEW S \in SUBSET WellFormed PROVE Cardinality(S) \in Nat
<1>1. IsFiniteSet(1..Feed)
  BY FS_Interval, OfficialAssumption
<1>2. S \subseteq 1..Feed
  BY DEF WellFormed
<1> QED
  BY <1>1, <1>2, FS_Subset, FS_CardinalityType

\* A page never asks for more than what is left of the limit.
LEMMA PageFits ==
  ASSUME NEW s \in Int, NEW r \in Int
  PROVE  PageSize(s, r) \in Int /\ PageSize(s, r) <= r
BY OfficialAssumption DEF PageSize, AtMost, AtLeast

\* Neither ending a job nor resuming it touches what is counted.
LEMMA EndedRow ==
  ASSUME row \in RowType, NEW s \in Status, NEW w \in Reason, NEW b \in BOOLEAN, Ended(s, w, b)
  PROVE  row' \in RowType /\ row'.counted = row.counted
BY DEF Ended, RowType

LEMMA FailedRow ==
  ASSUME row \in RowType, NEW w \in Reason, NEW b \in BOOLEAN, Failed(w, b)
  PROVE  row' \in RowType /\ row'.counted = row.counted
<1>1. "partial" \in Status /\ "failed" \in Status
  BY DEF Status
<1> QED
  BY <1>1, EndedRow DEF Failed

\* Writing one column of a row or one local variable.
LEMMA RowWritten ==
  ASSUME NEW r \in RowType, NEW s \in Status, NEW w \in Reason, NEW b \in BOOLEAN
  PROVE  LET q == [r EXCEPT !.status = s, !.reason = w, !.retryable = b] IN
         q \in RowType /\ q.counted = r.counted
BY DEF RowType

\* Blank locals and no page.
LEMMA Blank == NoLocals \in LocType /\ NoPage \in PageType
BY OfficialAssumption DEF NoLocals, NoPage, LocType, PageType, NoToken

\* A worker that holds neither a page nor a plan has nothing to account for.
LEMMA AtRest ==
  ASSUME IInv, row' \in RowType, row'.counted = row.counted, Held = 0,
         pc' \in {"idle"} \union Reason, loc' = NoLocals, page' = NoPage, UNCHANGED xVars
  PROVE  IInv'
<1>1. pc' \notin {"loop", "request", "response", "stored"}
  BY DEF Reason
<1>2. TypeOK'
  BY Blank DEF IInv, TypeOK, xVars, RowType, LocType, PageType
<1>3. Account'
  BY <1>1 DEF IInv, Account, Held, xVars
<1>4. Budget'
  BY <1>1, CeilingInt DEF IInv, Budget, xVars, Ceiling
<1> QED
  BY <1>2, <1>3, <1>4 DEF IInv

\* A change of the row behind the worker that leaves the account alone.
LEMMA RowOnly ==
  ASSUME IInv, row' \in RowType, row'.counted = row.counted, UNCHANGED <<pc, loc, page, xVars>>
  PROVE  IInv'
<1>1. TypeOK'
  BY DEF IInv, TypeOK, xVars, RowType
<1>2. Account'
  BY DEF IInv, Account, Held, Count, xVars
<1>3. Budget'
  BY DEF IInv, Budget, Unasked, Count, AtLeast, xVars, Ceiling
<1> QED
  BY <1>1, <1>2, <1>3 DEF IInv

\* What X serves.
LEMMA Served ==
  ASSUME IInv, NEW p \in Answer, Serve(p)
  PROVE  /\ p \in PageType /\ Count(p) \in Nat
         /\ billed' = billed + Count(p) /\ billed' \in Nat
         /\ over' = over + Unasked(p) /\ over' \in Nat /\ over <= over'
         /\ Unasked(p) \in Nat /\ Count(p) <= loc.size + Unasked(p)
<1>1. /\ p \in [from : {loc.token}, to : loc.token..Feed, next : 0..Feed]
      /\ loc.token \in 0..Feed /\ loc.size \in Nat
      /\ Feed \in Nat /\ billed \in Nat /\ over \in Nat
  BY OfficialAssumption DEF Answer, IInv, TypeOK
<1>2. p \in PageType /\ Count(p) \in Nat
  BY <1>1 DEF PageType, Count
<1> HIDE DEF Count
<1>3. Unasked(p) \in Nat /\ Count(p) <= loc.size + Unasked(p)
  BY <1>1, <1>2 DEF Unasked, AtLeast
<1>4. billed' = billed + Count(p) /\ over' = over + Unasked(p)
  BY DEF Serve, Unasked
<1> QED
  BY <1>1, <1>2, <1>3, <1>4

-----------------------------------------------------------------------------
(* The steps *)

LEMMA InitInv == Init => IInv
<1> SUFFICES ASSUME Init PROVE IInv
  OBVIOUS
<1>1. TypeOK
  <2>1. {} \in SUBSET WellFormed /\ 0 \in 0..Feed /\ 0 \in 0..MaxAttempts
    BY OfficialAssumption
  <2>2. row \in RowType
    BY <2>1 DEF Init, RowType, NoToken, Status, Reason
  <2>3. loc \in LocType /\ page \in PageType
    BY Blank DEF Init
  <2> QED
    BY <2>2, <2>3 DEF Init, TypeOK, RowType, LocType, PageType
<1>2. Account
  BY DEF Init, Account, Held
<1>3. Ceiling >= 0
  <2>1. Target \in Nat /\ PageLimit \in Nat \ {0} /\ MinPage \in Int
    BY OfficialAssumption
  <2>2. Target % PageLimit \in Int
    BY <2>1
  <2> QED
    BY <2>1, <2>2 DEF Ceiling
<1>4. Budget
  BY <1>3, CeilingInt DEF Init, Budget
<1> QED
  BY <1>1, <1>2, <1>4 DEF IInv

LEMMA LeaseKeeps == IInv /\ Lease => IInv'
<1> SUFFICES ASSUME IInv, Lease PROVE IInv'
  OBVIOUS
<1>1. row \in RowType /\ Held = 0 /\ row.attempt + 1 \in 0..MaxAttempts
  BY OfficialAssumption DEF IInv, TypeOK, RowType, Lease, Held
<1>2. row' \in RowType /\ row'.counted = row.counted
  BY <1>1 DEF Lease, RowType, Status, Reason
<1>3. CASE Return("target_reached") \/ Return("post_resource_limit_reached")
  BY <1>1, <1>2, <1>3, AtRest DEF Return, Reason, Lease
<1>4. CASE pc' = "loop" /\ loc' = Started(row) /\ page' = NoPage
  <2>1. Started(row) \in LocType
    <3>1. Cardinality(row.stored) \in Nat
      BY <1>1, StoredCount DEF RowType
    <3>2. {row.token} \ {NoToken} \in SUBSET (1..Feed)
      BY <1>1, OfficialAssumption DEF RowType, NoToken
    <3> QED
      BY <1>1, <3>1, <3>2, CeilingInt, OfficialAssumption DEF Started, LocType, RowType
  <2>2. TypeOK'
    BY <1>2, <1>4, <2>1, Blank DEF IInv, TypeOK, Lease, xVars, RowType, LocType, PageType
  <2>3. Account'
    BY <1>1, <1>2, <1>4 DEF IInv, Account, Held, Lease, xVars
  <2>4. loc'.resourceLeft = Ceiling - row.counted
    BY <1>4 DEF Started
  <2>5. row.counted \in Nat /\ over \in Nat
    BY DEF IInv, TypeOK
  <2>6. Budget'
    BY <1>2, <1>4, <2>4, <2>5, CeilingInt DEF IInv, Budget, Lease, xVars, Ceiling
  <2> QED
    BY <2>2, <2>3, <2>6 DEF IInv
<1> QED
  BY <1>3, <1>4 DEF Lease

LEMMA AskKeeps == IInv /\ Ask => IInv'
<1> SUFFICES ASSUME IInv, Ask PROVE IInv'
  OBVIOUS
<1> DEFINE size == PageSize(loc.storedLeft, loc.resourceLeft)
<1>1. /\ loc \in LocType /\ pc = "loop" /\ pc' = "request" /\ size >= MinPage
      /\ loc' = [loc EXCEPT !.size = size, !.tries = 0]
      /\ UNCHANGED <<row, page, xVars>>
  BY DEF IInv, TypeOK, LocType, Ask
<1>2. size \in Nat /\ size <= loc.resourceLeft
  BY <1>1, PageFits, OfficialAssumption DEF LocType
<1> HIDE DEF size
<1>3. /\ loc' \in LocType /\ loc'.size = size /\ loc'.resourceLeft = loc.resourceLeft
  <2>1. 0 \in 0..MaxRetries
    BY OfficialAssumption
  <2> QED
    BY <1>1, <1>2, <2>1 DEF LocType
<1>4. TypeOK'
  BY <1>1, <1>3 DEF IInv, TypeOK, LocType, xVars
<1>5. Account'
  BY <1>1 DEF IInv, Account, Held, xVars
<1>6. Budget'
  BY <1>1, <1>2, <1>3 DEF IInv, Budget, xVars, Ceiling
<1> QED
  BY <1>4, <1>5, <1>6 DEF IInv

LEMMA RespondKeeps == IInv /\ Respond => IInv'
<1> SUFFICES ASSUME IInv, Respond PROVE IInv'
  OBVIOUS
<1>1. PICK p \in Answer : page' = p /\ Serve(p) /\ repeated' = (repeated \/ p.next \in 1..p.from)
  BY DEF Respond
<1>2. /\ p \in PageType /\ Count(p) \in Nat
      /\ billed' = billed + Count(p) /\ billed' \in Nat
      /\ over' = over + Unasked(p) /\ over' \in Nat /\ over <= over'
      /\ Unasked(p) \in Nat /\ Count(p) <= loc.size + Unasked(p)
  BY <1>1, Served
<1>3. pc = "request" /\ pc' = "response" /\ UNCHANGED <<row, loc, lost>>
  BY DEF Respond
<1>4. repeated' \in BOOLEAN
  BY <1>1 DEF IInv, TypeOK
<1>5. TypeOK'
  BY <1>1, <1>2, <1>3, <1>4 DEF IInv, TypeOK, PageType
<1>6. Held = 0 /\ Held' = Count(p)
  BY <1>1, <1>3 DEF Held, Count
<1>7. row.counted \in Nat /\ lost \in Nat /\ billed \in Nat /\ over \in Nat
      /\ loc.resourceLeft \in Int
  BY DEF IInv, TypeOK
<1>8. Account'
  BY <1>2, <1>3, <1>6, <1>7 DEF IInv, Account
<1>9. Unasked(page)' = Unasked(p) /\ Count(page)' = Count(p)
  BY <1>1, <1>3 DEF Unasked, Count, AtLeast
<1>10. Ceiling' = Ceiling
  BY DEF Ceiling
<1>11. Budget'
  BY <1>2, <1>3, <1>7, <1>9, <1>10, CeilingInt DEF IInv, Budget
<1> QED
  BY <1>5, <1>8, <1>11 DEF IInv

LEMMA RetryKeeps == IInv /\ Retry => IInv'
<1> SUFFICES ASSUME IInv, Retry PROVE IInv'
  OBVIOUS
<1>1. PICK p \in Answer :
        /\ Serve(p) /\ lost' = lost + Count(p)
        /\ IF loc.tries < MaxRetries
             THEN loc' = [loc EXCEPT !.tries = @ + 1] /\ UNCHANGED <<row, pc, page>>
             ELSE Failed("error", TRUE) /\ Leave
  BY DEF Retry
<1>2. /\ Count(p) \in Nat
      /\ billed' = billed + Count(p) /\ billed' \in Nat
      /\ over' \in Nat /\ over <= over'
  BY <1>1, Served
<1>3. /\ row \in RowType /\ loc \in LocType /\ page \in PageType
      /\ lost \in Nat /\ billed \in Nat /\ over \in Nat /\ row.counted \in Nat
  BY DEF IInv, TypeOK, RowType, LocType, PageType
<1>4. pc = "request" /\ repeated' = repeated /\ Held = 0 /\ Ceiling' = Ceiling
  BY DEF Retry, Held, Ceiling
<1>5. CASE loc.tries < MaxRetries
  <2>1. loc' = [loc EXCEPT !.tries = @ + 1] /\ UNCHANGED <<row, pc, page>>
    BY <1>1, <1>5
  <2>2. loc.tries + 1 \in 0..MaxRetries
    BY <1>3, <1>5, OfficialAssumption DEF LocType
  <2>3. loc' \in LocType /\ loc'.size = loc.size /\ loc'.resourceLeft = loc.resourceLeft
    BY <1>3, <2>1, <2>2 DEF LocType
  <2>4. TypeOK'
    BY <1>1, <1>2, <1>3, <1>4, <2>1, <2>3 DEF IInv, TypeOK, LocType
  <2>5. Account'
    BY <1>1, <1>2, <1>3, <1>4, <2>1 DEF IInv, Account, Held
  <2>6. loc.resourceLeft \in Int
    BY <1>3 DEF LocType
  <2>7. Budget'
    BY <1>2, <1>3, <1>4, <2>1, <2>3, <2>6, CeilingInt DEF IInv, Budget
  <2> QED
    BY <2>4, <2>5, <2>7 DEF IInv
<1>6. CASE ~(loc.tries < MaxRetries)
  <2>1. Failed("error", TRUE) /\ Leave
    BY <1>1, <1>6
  <2>2. row' \in RowType /\ row'.counted = row.counted
    <3>1. "error" \in Reason
      BY DEF Reason
    <3> QED
      BY <1>3, <2>1, <3>1, FailedRow
  <2>3. pc' = "idle" /\ loc' = NoLocals /\ page' = NoPage
    BY <2>1 DEF Leave
  <2>4. TypeOK'
    BY <1>1, <1>2, <1>3, <1>4, <2>2, <2>3, Blank
    DEF IInv, TypeOK, RowType, LocType, PageType
  <2>5. Account'
    BY <1>1, <1>2, <1>3, <1>4, <2>2, <2>3 DEF IInv, Account, Held
  <2>6. Budget'
    BY <1>2, <1>3, <1>4, <2>2, <2>3, CeilingInt DEF IInv, Budget
  <2> QED
    BY <2>4, <2>5, <2>6 DEF IInv
<1> QED
  BY <1>5, <1>6

LEMMA PersistKeeps == IInv /\ Persist => IInv'
<1> SUFFICES ASSUME IInv, Persist PROVE IInv'
  OBVIOUS
<1> DEFINE batch == First(PostsOf(page), loc.storedLeft)
           left  == loc.storedLeft - Cardinality(row'.stored \ row.stored)
<1>1. /\ row' = CASE row.status = "running" ->
                       [row EXCEPT !.stored = @ \union batch, !.token = page.next,
                                   !.counted = @ + Count(page)]
                  [] row.status = "cancelled" -> [row EXCEPT !.counted = @ + Count(page)]
                  [] OTHER -> row
      /\ loc' = [loc EXCEPT !.storedLeft = left]
      /\ lost' = IF row.status \in {"running", "cancelled"} THEN lost ELSE lost + Count(page)
      /\ pc = "response" /\ pc' = "stored" /\ UNCHANGED <<page, billed, over, repeated>>
  BY DEF Persist
<1>2. /\ row \in RowType /\ loc \in LocType /\ page \in PageType /\ Count(page) \in Nat
      /\ lost \in Nat /\ billed \in Nat /\ over \in Nat
  BY <1>1 DEF IInv, TypeOK, Budget, RowType, LocType, PageType
<1>3. batch \in SUBSET WellFormed
  BY DEF First, PostsOf
<1> HIDE DEF batch
<1> DEFINE counted == row.status \in {"running", "cancelled"}
<1>4. /\ row' \in RowType
      /\ row'.counted = IF counted THEN row.counted + Count(page) ELSE row.counted
  <2>1. page.next \in 0..Feed /\ row.counted + Count(page) \in Nat
    BY <1>2 DEF PageType, RowType
  <2>2. row.stored \union batch \in SUBSET WellFormed
    BY <1>2, <1>3 DEF RowType
  <2>3. CASE row.status = "running"
    <3>1. row' = [row EXCEPT !.stored = @ \union batch, !.token = page.next,
                             !.counted = @ + Count(page)]
      BY <1>1, <2>3
    <3> QED
      BY <1>2, <2>1, <2>2, <2>3, <3>1 DEF RowType
  <2>4. CASE row.status = "cancelled"
    <3>1. row' = [row EXCEPT !.counted = @ + Count(page)]
      BY <1>1, <2>4
    <3> QED
      BY <1>2, <2>1, <2>4, <3>1 DEF RowType
  <2>5. CASE row.status \notin {"running", "cancelled"}
    BY <1>1, <1>2, <2>5
  <2> QED
    BY <2>3, <2>4, <2>5
<1>5. left \in Int
  <2>1. row'.stored \ row.stored \in SUBSET WellFormed
    BY <1>4 DEF RowType
  <2> QED
    BY <1>2, <2>1, StoredCount DEF LocType
<1> HIDE DEF left
<1>6. loc' \in LocType /\ loc'.resourceLeft = loc.resourceLeft
  BY <1>1, <1>2, <1>5 DEF LocType
<1>7. lost' \in Nat
  BY <1>1, <1>2
<1>8. TypeOK'
  BY <1>1, <1>2, <1>4, <1>6, <1>7 DEF IInv, TypeOK, RowType, LocType
<1>9. row.counted \in Nat /\ loc.resourceLeft \in Int /\ loc.size \in Nat
  BY <1>2 DEF RowType, LocType
<1>10. Held = Count(page) /\ Held' = 0 /\ Count(page)' = Count(page) /\ Ceiling' = Ceiling
  BY <1>1 DEF Held, Count, Ceiling
<1>11. Account'
  BY <1>1, <1>2, <1>4, <1>9, <1>10 DEF IInv, Account
<1>12. /\ loc.size <= loc.resourceLeft
       /\ row.counted + loc.resourceLeft + Unasked(page) <= Ceiling + over
       /\ row.counted <= Ceiling + over
  BY <1>1 DEF IInv, Budget
<1>13. Unasked(page) \in Nat /\ Count(page) <= loc.size + Unasked(page)
  BY <1>2, <1>9 DEF Unasked, AtLeast
<1>14. Budget'
  BY <1>1, <1>2, <1>4, <1>6, <1>9, <1>10, <1>12, <1>13, CeilingInt DEF Budget
<1> QED
  BY <1>8, <1>11, <1>14 DEF IInv

\* The worker goes, and a page that it held is lost.
LEMMA LossKeeps ==
  ASSUME IInv, row' \in RowType, row'.counted = row.counted, lost' = lost + Held, Leave,
         UNCHANGED <<billed, over, repeated>>
  PROVE  IInv'
<1>1. Held \in Nat
  BY DEF Held, IInv, Budget
<1>2. lost \in Nat /\ billed \in Nat /\ row.counted \in Nat
  BY DEF IInv, TypeOK
<1>3. pc' = "idle" /\ loc' = NoLocals /\ page' = NoPage /\ Held' = 0 /\ Ceiling' = Ceiling
  BY DEF Leave, Held, Ceiling
<1>4. TypeOK'
  BY <1>1, <1>2, <1>3, Blank DEF IInv, TypeOK, RowType, LocType, PageType
<1>5. Account'
  BY <1>1, <1>2, <1>3 DEF IInv, Account
<1>6. Budget'
  BY <1>3 DEF IInv, Budget
<1> QED
  BY <1>4, <1>5, <1>6 DEF IInv

LEMMA ContinueKeeps == IInv /\ Continue => IInv'
<1> SUFFICES ASSUME IInv, Continue PROVE IInv'
  OBVIOUS
<1>1. row \in RowType /\ loc \in LocType /\ page \in PageType /\ Count(page) \in Nat
  BY DEF IInv, TypeOK, Budget, Continue, RowType, LocType, PageType
<1>2. pc = "stored" /\ Held = 0 /\ UNCHANGED <<row, xVars>>
  BY DEF Continue, Held
<1> DEFINE left == loc.resourceLeft - Count(page)
<1>3. CASE \E reason \in Reason : Return(reason)
  BY <1>1, <1>2, <1>3, AtRest DEF Return
<1>4. CASE /\ pc' = "loop" /\ page' = NoPage /\ page.next # NoToken
           /\ loc' = [loc EXCEPT !.resourceLeft = left, !.token = page.next, !.tries = 0,
                                 !.seen = @ \union {page.next}]
  <2>1. left \in Int /\ page.next \in 1..Feed
    BY <1>1, <1>4, OfficialAssumption DEF LocType, PageType, NoToken
  <2>2. row.counted + left <= Ceiling + over
    BY <1>1, <1>2, CeilingInt DEF IInv, Budget, TypeOK
  <2> HIDE DEF left
  <2>3. page.next \in 0..Feed /\ 0 \in 0..MaxRetries
    BY <2>1, OfficialAssumption
  <2>4. loc.seen \union {page.next} \in SUBSET (1..Feed)
    BY <1>1, <2>1 DEF LocType
  <2>5. loc' \in LocType /\ loc'.resourceLeft = left
    BY <1>1, <1>4, <2>1, <2>3, <2>4 DEF LocType
  <2>6. TypeOK'
    BY <1>2, <1>4, <2>5, Blank DEF IInv, TypeOK, LocType, PageType, xVars
  <2>7. Account'
    BY <1>2, <1>4 DEF IInv, Account, Held, xVars
  <2>8. Budget'
    BY <1>2, <1>4, <2>2, <2>5 DEF IInv, Budget, xVars, Ceiling
  <2> QED
    BY <2>6, <2>7, <2>8 DEF IInv
<1>5. {"target_reached", "post_resource_limit_reached", "search_exhausted", "cursor_stalled"}
        \subseteq Reason
  BY DEF Reason
<1> QED
  BY <1>3, <1>4, <1>5 DEF Continue

LEMMA FinishKeeps == IInv /\ Finish => IInv'
<1> SUFFICES ASSUME IInv, Finish PROVE IInv'
  OBVIOUS
<1>1. row \in RowType /\ pc \in Reason /\ Held = 0
  BY DEF IInv, TypeOK, RowType, Finish, Held, Reason
<1>2. {"succeeded", "partial"} \subseteq Status
      /\ {"target_reached", "target_not_reached"} \subseteq Reason
  BY DEF Status, Reason
<1>3. row' \in RowType /\ row'.counted = row.counted
  <2>1. EndedBy
    BY DEF Finish
  <2>2. CASE Cardinality(row.stored) >= Target
    BY <1>1, <1>2, <2>1, <2>2, EndedRow DEF EndedBy
  <2>3. CASE ~(Cardinality(row.stored) >= Target) /\ pc = "target_reached"
    BY <1>1, <1>2, <2>1, <2>3, EndedRow DEF EndedBy
  <2>4. CASE ~(Cardinality(row.stored) >= Target) /\ pc # "target_reached"
    <3>1. (IF pc = "search_exhausted" THEN "succeeded" ELSE "partial") \in Status
      BY <1>2
    <3> QED
      BY <1>1, <2>1, <2>4, <3>1, EndedRow DEF EndedBy
  <2> QED
    BY <2>2, <2>3, <2>4
<1> QED
  BY <1>1, <1>3, AtRest DEF Finish, Leave

LEMMA NextInv == IInv /\ [Next]_vars => IInv'
<1> SUFFICES ASSUME IInv, [Next]_vars PROVE IInv'
  OBVIOUS
<1>1. row \in RowType
  BY DEF IInv, TypeOK, RowType
<1>2. /\ {"rate_limited", "error", "none", "post_resource_limit_reached"} \subseteq Reason
      /\ {"queued", "cancelled", "interrupted"} \subseteq Status
  BY DEF Reason, Status
<1>3. CASE Lease
  BY <1>3, LeaseKeeps
<1>4. CASE Ask
  BY <1>4, AskKeeps
<1>5. CASE StopBelowMinimum
  BY <1>1, <1>2, <1>5, AtRest DEF StopBelowMinimum, Return, Held
<1>6. CASE Respond
  BY <1>6, RespondKeeps
<1>7. CASE Retry
  BY <1>7, RetryKeeps
<1>8. CASE Refuse
  <2>1. row' \in RowType /\ row'.counted = row.counted
    BY <1>1, <1>2, <1>8, FailedRow DEF Refuse
  <2> QED
    BY <1>8, <2>1, AtRest DEF Refuse, Leave, Held
<1>9. CASE Persist
  BY <1>9, PersistKeeps
<1>10. CASE PersistFails
  <2>1. row' \in RowType /\ row'.counted = row.counted
    BY <1>1, <1>2, <1>10, FailedRow DEF PersistFails
  <2>2. lost' = lost + Held /\ Leave /\ UNCHANGED <<billed, over, repeated>>
    BY <1>10 DEF PersistFails, Held
  <2> QED
    BY <2>1, <2>2, LossKeeps
<1>11. CASE Continue
  BY <1>11, ContinueKeeps
<1>12. CASE NoticeCancel \/ NoticeLoss
  BY <1>1, <1>12, AtRest DEF NoticeCancel, NoticeLoss, Leave, Held, Checkpoint
<1>13. CASE Finish
  BY <1>13, FinishKeeps
<1>14. CASE Cancel
  BY <1>1, <1>2, <1>14, RowWritten, RowOnly, ZenonT(60) DEF Cancel
<1>15. CASE Resume
  BY <1>1, <1>2, <1>15, RowWritten, RowOnly, ZenonT(60) DEF Resume
<1>16. CASE Crash
  BY <1>1, <1>16, LossKeeps DEF Crash
<1>17. CASE Recover
  BY <1>1, <1>2, <1>17, RowWritten, RowOnly, ZenonT(60) DEF Recover
<1>18. CASE Shutdown
  <2>1. row' \in RowType /\ row'.counted = row.counted
    BY <1>1, <1>2, <1>18, EndedRow DEF Shutdown
  <2> QED
    BY <1>18, <2>1, AtRest DEF Shutdown, Leave, Held, Checkpoint
<1>19. CASE UNCHANGED vars
  BY <1>1, <1>19, RowOnly DEF vars, xVars
<1> QED
  BY <1>3, <1>4, <1>5, <1>6, <1>7, <1>8, <1>9, <1>10, <1>11, <1>12, <1>13, <1>14, <1>15, <1>16,
     <1>17, <1>18, <1>19 DEF Next, WorkerStep

-----------------------------------------------------------------------------
(* The theorems *)

\* Whatever fails, is cancelled, resumed or lost, the account of a capture
\* balances and stays in its budget.
THEOREM CaptureInvariant == Spec => []IInv
BY InitInv, NextInv, PTL DEF Spec

\* Every variable holds a value of its domain; only well-formed resources
\* become posts.
THEOREM CaptureTyped == Spec => []TypeOK
<1>1. IInv => TypeOK
  BY DEF IInv
<1> QED
  BY <1>1, CaptureInvariant, PTL

\* The confirmed limit bounds what X bills, over any number of attempts, pages
\* and faults, but for responses that were lost and resources served unasked.
THEOREM BilledBounded == Spec => []BilledWithinCeiling
<1>1. IInv => BilledWithinCeiling
  <2> SUFFICES ASSUME IInv PROVE billed <= Ceiling + lost + over
    BY DEF BilledWithinCeiling
  <2>1. row.counted \in Nat /\ lost \in Nat /\ over \in Nat /\ loc.size \in Nat
        /\ loc.resourceLeft \in Int
    BY DEF IInv, TypeOK
  <2>2. billed = row.counted + lost + Held /\ row.counted <= Ceiling + over
    BY DEF IInv, Account, Budget
  <2>3. CASE pc = "response"
    <3>1. /\ Count(page) \in Nat /\ Held = Count(page) /\ loc.size <= loc.resourceLeft
          /\ row.counted + loc.resourceLeft + Unasked(page) <= Ceiling + over
      BY <2>3 DEF IInv, Budget, Held
    <3>2. Unasked(page) \in Nat /\ Count(page) <= loc.size + Unasked(page)
      BY <2>1, <3>1 DEF Unasked, AtLeast
    <3> QED
      BY <2>1, <2>2, <3>1, <3>2, CeilingInt
  <2>4. CASE pc # "response"
    BY <2>1, <2>2, <2>4, CeilingInt DEF Held
  <2> QED
    BY <2>3, <2>4
<1> QED
  BY <1>1, CaptureInvariant, PTL

-----------------------------------------------------------------------------
(* A success is complete *)

Complete == Cardinality(row.stored) = Target \/ row.stored = WellFormed

\* The token of the row is the place up to which everything is stored, unless
\* there is nothing left to store.
PlaceInv == ~repeated => Complete \/ row.stored = {n \in WellFormed : n <= row.token}

\* A row that runs is the one that the worker has leased: the worker knows how
\* much of it is missing and where it goes on.
InTouch == row.status = "running" /\ pc \in {"loop", "request", "response", "stored"} =>
             loc.storedLeft = Target - Cardinality(row.stored)

AtPlace ==
  row.status = "running" => /\ pc \in {"loop", "request", "response"} => loc.token = row.token
                            /\ pc = "stored" => page.next = row.token

\* A page begins where the worker stands, gets on, and ends where its token says.
PageInv ==
  pc = "response" =>
    /\ page.from = loc.token
    /\ ~repeated => /\ page.from < page.to \/ page.to = Feed
                    /\ page.next = IF page.to = Feed THEN NoToken ELSE page.to

\* The last page leaves nothing to store.
EndInv ==
  /\ row.status = "running" /\ pc = "stored" /\ ~repeated /\ page.next = NoToken => Complete
  /\ row.status = "running" /\ pc = "search_exhausted" /\ ~repeated => Complete
  /\ row.status = "succeeded" /\ ~repeated => Complete

CompleteInv ==
  /\ Cardinality(row.stored) <= Target /\ PlaceInv /\ InTouch /\ AtPlace /\ PageInv /\ EndInv

LEMMA WellFormedFinite == IsFiniteSet(WellFormed) /\ WellFormed \in SUBSET (1..Feed)
<1>1. IsFiniteSet(1..Feed)
  BY FS_Interval, OfficialAssumption
<1>2. WellFormed \in SUBSET (1..Feed)
  BY DEF WellFormed
<1> QED
  BY <1>1, <1>2, FS_Subset

\* What posts[:n] leaves of the posts.
LEMMA FirstPosts ==
  ASSUME NEW S \in SUBSET WellFormed, NEW n \in Nat
  PROVE  /\ First(S, n) \in SUBSET S /\ Cardinality(First(S, n)) <= n
         /\ First(S, n) = S \/ Cardinality(First(S, n)) = n
<1> DEFINE L == {c \in Int \X Int : c[1] < c[2]}
<1>1. S \in SUBSET Int /\ IsFiniteSet(S)
  <2>1. IsFiniteSet(1..Feed) /\ S \in SUBSET (1..Feed)
    BY FS_Interval, OfficialAssumption DEF WellFormed
  <2>2. IsFiniteSet(S)
    BY <2>1, FS_Subset
  <2>3. S \in SUBSET Int
    BY <2>1
  <2> QED
    BY <2>2, <2>3
<1>2. \A i, j \in Int : <<i, j>> \in L <=> i < j
  OBVIOUS
<1> HIDE DEF L
<1>3. Orders(L, S)
  BY <1>1, <1>2 DEF Orders
<1>4. \A q \in S : Below(L, S, q) = {r \in S : r < q}
  BY <1>1, <1>2 DEF Below
<1>5. First(S, n) = {q \in S : Cardinality(Below(L, S, q)) < n}
  BY <1>4 DEF First
<1>6. Cardinality(First(S, n)) <= n
  BY <1>1, <1>3, <1>5, FewOnes
<1>7. First(S, n) \in SUBSET S
  BY DEF First
<1>8. Cardinality(S) \in Nat /\ Cardinality(First(S, n)) \in Nat
  BY <1>1, <1>7, FS_Subset, FS_CardinalityType
<1>9. CASE n <= Cardinality(S)
  <2>1. \A q \in S : Cardinality(Below(L, S, q)) < n => q \in First(S, n)
    BY <1>5
  <2>2. n <= Cardinality(First(S, n))
    BY <1>1, <1>3, <1>7, <1>9, <2>1, FirstOnes
  <2> QED
    BY <1>6, <1>7, <1>8, <2>2
<1>10. CASE ~(n <= Cardinality(S))
  <2>1. ASSUME NEW q \in S PROVE Cardinality({r \in S : r < q}) < n
    <3> DEFINE B == {r \in S : r < q}
    <3>1. B \in SUBSET S
      OBVIOUS
    <3> HIDE DEF B
    <3>2. Cardinality(B) <= Cardinality(S) /\ Cardinality(B) \in Nat
      BY <1>1, <3>1, FS_Subset, FS_CardinalityType
    <3>3. Cardinality(B) < n
      BY <1>8, <1>10, <3>2
    <3> QED
      BY <3>3 DEF B
  <2>2. First(S, n) = S
    BY <2>1 DEF First
  <2> QED
    BY <1>6, <1>7, <2>2
<1> QED
  BY <1>9, <1>10

\* A row that keeps its posts and its token, and only stops running, keeps the
\* invariant; so does a worker that leaves or returns with another reason.
LEMMA CompleteKept ==
  ASSUME CompleteInv, UNCHANGED repeated, row'.stored = row.stored, row'.token = row.token,
         row'.status = "running" => row.status = "running",
         row'.status = "succeeded" /\ ~repeated => Complete,
         \/ UNCHANGED <<pc, loc, page>>
         \/ /\ pc' \in {"idle"} \union Reason
            /\ row'.status = "running" /\ pc' = "search_exhausted" /\ ~repeated => Complete
  PROVE  CompleteInv'
<1>1. Complete' = Complete
  BY DEF Complete, WellFormed
<1>2. Cardinality(row'.stored) <= Target /\ PlaceInv'
  BY <1>1 DEF CompleteInv, PlaceInv, WellFormed
<1>3. CASE UNCHANGED <<pc, loc, page>>
  BY <1>1, <1>2, <1>3 DEF CompleteInv, InTouch, AtPlace, PageInv, EndInv, NoToken
<1>4. CASE /\ pc' \in {"idle"} \union Reason
           /\ row'.status = "running" /\ pc' = "search_exhausted" /\ ~repeated => Complete
  <2>1. pc' \notin {"loop", "request", "response", "stored"}
    BY <1>4 DEF Reason
  <2> QED
    BY <1>1, <1>2, <1>4, <2>1 DEF CompleteInv, InTouch, AtPlace, PageInv, EndInv, NoToken
<1> QED
  BY <1>3, <1>4

LEMMA CompleteInit == Init => CompleteInv
<1> SUFFICES ASSUME Init PROVE CompleteInv
  OBVIOUS
<1>1. /\ row.stored = {} /\ row.status = "queued" /\ row.token = 0 /\ pc = "idle"
  BY DEF Init, NoToken
<1>2. Cardinality(row.stored) = 0 /\ Target \in Nat
  BY <1>1, FS_EmptySet, OfficialAssumption
<1>3. {n \in WellFormed : n <= 0} = {}
  BY OfficialAssumption DEF WellFormed
<1> QED
  BY <1>1, <1>2, <1>3 DEF CompleteInv, PlaceInv, InTouch, AtPlace, PageInv, EndInv

\* How a job ends.
LEMMA EndedKept ==
  ASSUME row \in RowType, NEW s \in Status, NEW w \in Reason, NEW b \in BOOLEAN, Ended(s, w, b)
  PROVE  /\ row'.stored = row.stored /\ row'.token = row.token
         /\ row'.status = IF row.status = "running" THEN s ELSE row.status
BY DEF Ended, RowType

LEMMA FailedKept ==
  ASSUME row \in RowType, NEW w \in Reason, NEW b \in BOOLEAN, Failed(w, b)
  PROVE  /\ row'.stored = row.stored /\ row'.token = row.token
         /\ row'.status \in {"partial", "failed", row.status}
         /\ row'.status = "running" => row.status = "running"
<1>1. "partial" \in Status /\ "failed" \in Status
  BY DEF Status
<1>2. Ended(IF row.stored # {} THEN "partial" ELSE "failed", w, b)
  BY DEF Failed
<1> QED
  BY <1>1, <1>2, EndedKept

LEMMA LeaseCompletes == TypeOK /\ CompleteInv /\ Lease => CompleteInv'
<1> SUFFICES ASSUME TypeOK, CompleteInv, Lease PROVE CompleteInv'
  OBVIOUS
<1>1. /\ row \in RowType /\ pc = "idle" /\ row.status = "queued"
      /\ row' = [row EXCEPT !.status = "running", !.reason = "none", !.retryable = FALSE,
                           !.attempt = row.attempt + 1]
      /\ UNCHANGED repeated
  BY DEF TypeOK, RowType, Lease, xVars
<1>2. row'.status = "running" /\ row'.stored = row.stored /\ row'.token = row.token
  BY <1>1 DEF RowType
<1>3. Complete' = Complete
  BY <1>2 DEF Complete, WellFormed
<1>4. Cardinality(row'.stored) <= Target /\ PlaceInv'
  BY <1>1, <1>2, <1>3 DEF CompleteInv, PlaceInv, WellFormed
<1>5. CASE pc' \in {"target_reached", "post_resource_limit_reached"}
  BY <1>2, <1>4, <1>5 DEF CompleteInv, InTouch, AtPlace, PageInv, EndInv
<1>6. CASE pc' = "loop" /\ loc' = Started(row)
  <2>1. loc'.storedLeft = Target - Cardinality(row'.stored) /\ loc'.token = row'.token
    BY <1>2, <1>6 DEF Started
  <2> QED
    BY <1>2, <1>4, <1>6, <2>1 DEF CompleteInv, InTouch, AtPlace, PageInv, EndInv
<1> QED
  BY <1>5, <1>6 DEF Lease, Return

LEMMA AskCompletes == TypeOK /\ CompleteInv /\ Ask => CompleteInv'
<1> SUFFICES ASSUME TypeOK, CompleteInv, Ask PROVE CompleteInv'
  OBVIOUS
<1> DEFINE size == PageSize(loc.storedLeft, loc.resourceLeft)
<1>1. /\ loc \in LocType /\ pc = "loop" /\ pc' = "request"
      /\ loc' = [loc EXCEPT !.size = size, !.tries = 0] /\ UNCHANGED <<row, page, repeated>>
  BY DEF TypeOK, LocType, Ask, xVars
<1> HIDE DEF size
<1>2. loc'.storedLeft = loc.storedLeft /\ loc'.token = loc.token
  BY <1>1 DEF LocType
<1>3. Complete' = Complete
  BY <1>1 DEF Complete, WellFormed
<1> QED
  BY <1>1, <1>2, <1>3 DEF CompleteInv, PlaceInv, InTouch, AtPlace, PageInv, EndInv, WellFormed

\* X answers behind the token; a token that it repeats is told apart.
LEMMA RespondCompletes == TypeOK /\ CompleteInv /\ Respond => CompleteInv'
<1> SUFFICES ASSUME TypeOK, CompleteInv, Respond PROVE CompleteInv'
  OBVIOUS
<1>1. PICK p \in Answer : page' = p /\ repeated' = (repeated \/ p.next \in 1..p.from)
  BY DEF Respond
<1>2. pc = "request" /\ pc' = "response" /\ UNCHANGED <<row, loc>>
  BY DEF Respond
<1>3. /\ p \in [from : {loc.token}, to : loc.token..Feed, next : 0..Feed]
      /\ \/ /\ p.to > p.from \/ p.from = Feed
            /\ p.next = IF p.to = Feed THEN NoToken ELSE p.to
         \/ p.next \in 1..p.from
  BY DEF Answer
<1>4. PageInv'
  <2>1. p.from = loc.token /\ p.from \in 0..Feed /\ p.to \in 0..Feed /\ p.from <= p.to
    BY <1>3, OfficialAssumption DEF TypeOK
  <2>2. ~repeated' => /\ p.from < p.to \/ p.to = Feed
                      /\ p.next = IF p.to = Feed THEN NoToken ELSE p.to
    <3> SUFFICES ASSUME ~(p.next \in 1..p.from)
                 PROVE  /\ p.from < p.to \/ p.to = Feed
                        /\ p.next = IF p.to = Feed THEN NoToken ELSE p.to
      BY <1>1
    <3>1. p.to > p.from \/ p.from = Feed
      BY <1>3
    <3>2. p.next = IF p.to = Feed THEN NoToken ELSE p.to
      BY <1>3
    <3>3. p.from < p.to \/ p.to = Feed
      BY <2>1, <3>1, OfficialAssumption
    <3> QED
      BY <3>2, <3>3
  <2> QED
    BY <1>1, <1>2, <2>1, <2>2 DEF PageInv, NoToken
<1>5. Complete' = Complete
  BY <1>2 DEF Complete, WellFormed
<1>6. ~repeated' => ~repeated
  BY <1>1
<1> QED
  BY <1>2, <1>4, <1>5, <1>6 DEF CompleteInv, PlaceInv, InTouch, AtPlace, EndInv, WellFormed

LEMMA RetryCompletes == TypeOK /\ CompleteInv /\ Retry => CompleteInv'
<1> SUFFICES ASSUME TypeOK, CompleteInv, Retry PROVE CompleteInv'
  OBVIOUS
<1>1. row \in RowType /\ loc \in LocType /\ pc = "request" /\ UNCHANGED repeated
  BY DEF TypeOK, RowType, LocType, Retry
<1>2. \/ loc' = [loc EXCEPT !.tries = loc.tries + 1] /\ UNCHANGED <<row, pc, page>>
      \/ Failed("error", TRUE) /\ Leave
  BY DEF Retry
<1>3. CASE loc' = [loc EXCEPT !.tries = loc.tries + 1] /\ UNCHANGED <<row, pc, page>>
  <2>1. loc'.storedLeft = loc.storedLeft /\ loc'.token = loc.token
    BY <1>1, <1>3 DEF LocType
  <2>2. Complete' = Complete
    BY <1>3 DEF Complete, WellFormed
  <2> QED
    BY <1>1, <1>3, <2>1, <2>2
    DEF CompleteInv, PlaceInv, InTouch, AtPlace, PageInv, EndInv, WellFormed
<1>4. CASE Failed("error", TRUE) /\ Leave
  <2>1. "error" \in Reason
    BY DEF Reason
  <2>2. /\ row'.stored = row.stored /\ row'.token = row.token
        /\ row'.status \in {"partial", "failed", row.status}
        /\ row'.status = "running" => row.status = "running"
    BY <1>1, <1>4, <2>1, FailedKept
  <2> QED
    BY <1>1, <1>4, <2>2, CompleteKept DEF CompleteInv, EndInv, Leave
<1> QED
  BY <1>2, <1>3, <1>4

\* A page that is stored goes on where the row ends; what does not fit any more
\* fills the target.
LEMMA RunningPersists ==
  ASSUME IInv, CompleteInv, Persist, row.status = "running"
  PROVE  CompleteInv'
<1> DEFINE batch == First(PostsOf(page), loc.storedLeft)
           new == batch \ row.stored
<1>1. /\ row' = [row EXCEPT !.stored = row.stored \union batch, !.token = page.next,
                           !.counted = row.counted + Count(page)]
      /\ loc' = [loc EXCEPT !.storedLeft = loc.storedLeft - Cardinality(row'.stored \ row.stored)]
      /\ pc = "response" /\ pc' = "stored" /\ UNCHANGED <<page, repeated>>
  BY DEF Persist
<1>2. /\ row \in RowType /\ loc \in LocType /\ page \in PageType /\ Count(page) \in Nat
  BY <1>1 DEF IInv, TypeOK, Budget, RowType, LocType, PageType
<1>3. /\ row'.stored = row.stored \union batch /\ row'.token = page.next
      /\ row'.status = "running"
  BY <1>1, <1>2 DEF RowType
<1>4. /\ row.stored \in SUBSET WellFormed /\ PostsOf(page) \in SUBSET WellFormed
      /\ IsFiniteSet(row.stored) /\ Cardinality(row.stored) \in Nat
  <2>1. IsFiniteSet(WellFormed)
    BY WellFormedFinite
  <2>2. row.stored \in SUBSET WellFormed /\ PostsOf(page) \in SUBSET WellFormed
    BY <1>2 DEF RowType, PostsOf
  <2> QED
    BY <2>1, <2>2, FS_Subset, FS_CardinalityType
<1>5. /\ loc.storedLeft = Target - Cardinality(row.stored) /\ loc.storedLeft \in Nat
      /\ loc.token = row.token /\ page.from = loc.token
      /\ ~repeated => /\ page.from < page.to \/ page.to = Feed
                      /\ page.next = IF page.to = Feed THEN NoToken ELSE page.to
  BY <1>1, <1>4, OfficialAssumption DEF CompleteInv, InTouch, AtPlace, PageInv
<1>6. /\ batch \in SUBSET PostsOf(page) /\ Cardinality(batch) <= loc.storedLeft
      /\ batch = PostsOf(page) \/ Cardinality(batch) = loc.storedLeft
  BY <1>4, <1>5, FirstPosts
<1> HIDE DEF batch
<1>7. IsFiniteSet(batch) /\ Cardinality(batch) \in Nat
  <2>1. IsFiniteSet(WellFormed) /\ batch \in SUBSET WellFormed
    BY <1>4, <1>6, WellFormedFinite
  <2> QED
    BY <2>1, FS_Subset, FS_CardinalityType
<1>8. /\ row'.stored \ row.stored = new
      /\ Cardinality(new) \in Nat /\ Cardinality(new) <= Cardinality(batch)
      /\ Cardinality(row'.stored) = Cardinality(row.stored) + Cardinality(new)
  <2>1. row'.stored \ row.stored = new /\ row'.stored = row.stored \union new
        /\ row.stored \intersect new = {} /\ new \in SUBSET batch
    BY <1>3
  <2> HIDE DEF new
  <2>2. IsFiniteSet(new) /\ Cardinality(new) \in Nat /\ Cardinality(new) <= Cardinality(batch)
    BY <1>7, <2>1, FS_Subset, FS_CardinalityType
  <2>3. /\ Cardinality(row.stored \union new)
             = Cardinality(row.stored) + Cardinality(new) - Cardinality(row.stored \intersect new)
        /\ Cardinality(row.stored \intersect new) = 0
    BY <1>4, <2>1, <2>2, FS_Union, FS_EmptySet
  <2> QED
    BY <1>4, <2>1, <2>2, <2>3
<1>9. Cardinality(row'.stored) <= Target /\ Cardinality(row'.stored) \in Nat
  BY <1>4, <1>5, <1>6, <1>7, <1>8, OfficialAssumption
<1>10. InTouch'
  <2>1. loc'.storedLeft = loc.storedLeft - Cardinality(new)
    BY <1>1, <1>2, <1>8 DEF LocType
  <2>2. loc'.storedLeft = Target - Cardinality(row'.stored)
    BY <1>4, <1>5, <1>8, <2>1, OfficialAssumption
  <2> QED
    BY <2>2 DEF InTouch
<1>11. Complete => Complete'
  <2>1. CASE Cardinality(row.stored) = Target
    <3>1. Cardinality(new) = 0
      BY <1>4, <1>5, <1>6, <1>7, <1>8, <2>1, OfficialAssumption
    <3> QED
      BY <1>4, <1>8, <2>1, <3>1 DEF Complete
  <2>2. CASE row.stored = WellFormed
    <3>1. row'.stored = WellFormed
      BY <1>3, <1>4, <1>6, <2>2
    <3> QED
      BY <3>1 DEF Complete, WellFormed
  <2> QED
    BY <2>1, <2>2 DEF Complete
<1>12. ASSUME ~repeated, ~Complete
       PROVE  \/ Complete'
              \/ row'.stored = {n \in WellFormed : n <= row'.token} /\ row'.token # NoToken
  <2>1. row.stored = {n \in WellFormed : n <= page.from}
    BY <1>5, <1>12 DEF CompleteInv, PlaceInv
  <2>2. /\ page.from \in Nat /\ page.to \in 0..Feed /\ page.from <= page.to /\ Feed \in Nat
        /\ WellFormed \in SUBSET (1..Feed)
    BY <1>2, OfficialAssumption DEF PageType, Count, WellFormed
  <2>3. CASE Cardinality(batch) = loc.storedLeft
    <3>1. \A n \in batch : n \in WellFormed /\ page.from < n
      BY <1>6 DEF PostsOf
    <3>2. ASSUME NEW n \in batch, n \in row.stored PROVE FALSE
      <4>1. n \in WellFormed /\ page.from < n
        BY <3>1, <3>2
      <4>2. n \in {k \in WellFormed : k <= page.from}
        BY <2>1, <3>2
      <4>3. n \in Int /\ n <= page.from
        BY <2>2, <4>1, <4>2
      <4> QED
        BY <2>2, <4>1, <4>3
    <3>3. new = batch
      BY <3>2
    <3>4. Cardinality(new) = loc.storedLeft
      BY <2>3, <3>3
    <3> HIDE DEF new
    <3>5. Cardinality(row'.stored) = Target
      BY <1>4, <1>5, <1>8, <3>4, OfficialAssumption
    <3> QED
      BY <3>5 DEF Complete
  <2>4. CASE batch = PostsOf(page)
    <3>1. row'.stored = {n \in WellFormed : n <= page.to}
      <4>1. \A n : n \in row'.stored <=> n \in row.stored \/ n \in batch
        BY <1>3
      <4>2. \A n : n \in batch <=> n \in WellFormed /\ page.from < n /\ n <= page.to
        BY <2>4 DEF PostsOf
      <4>3. \A n : n \in row.stored <=> n \in WellFormed /\ n <= page.from
        BY <2>1
      <4>4. \A n \in WellFormed : n <= page.to <=> n <= page.from \/ (page.from < n /\ n <= page.to)
        BY <2>2
      <4>5. \A n : n \in row'.stored <=> n \in WellFormed /\ n <= page.to
        BY <4>1, <4>2, <4>3, <4>4
      <4> QED
        BY <4>5
    <3>2. CASE page.to = Feed
      <4>1. \A n \in WellFormed : n <= page.to
        BY <2>2, <3>2
      <4>2. row'.stored = WellFormed
        BY <3>1, <4>1
      <4> QED
        BY <4>2 DEF Complete, WellFormed
    <3>3. CASE page.to # Feed
      <4>1. page.next = page.to /\ page.from < page.to
        BY <1>5, <1>12, <3>3
      <4> QED
        BY <1>3, <2>2, <3>1, <4>1 DEF NoToken
    <3> QED
      BY <3>2, <3>3
  <2> QED
    BY <1>6, <2>3, <2>4
<1>13. PlaceInv' /\ EndInv'
  <2>1. WellFormed' = WellFormed /\ NoToken' = NoToken
    BY DEF WellFormed, NoToken
  <2> QED
    BY <1>1, <1>3, <1>11, <1>12, <2>1 DEF PlaceInv, EndInv
<1> QED
  BY <1>1, <1>9, <1>10, <1>13 DEF CompleteInv, AtPlace, PageInv

LEMMA PersistCompletes == IInv /\ CompleteInv /\ Persist => CompleteInv'
<1> SUFFICES ASSUME IInv, CompleteInv, Persist PROVE CompleteInv'
  OBVIOUS
<1>1. CASE row.status = "running"
  BY <1>1, RunningPersists
<1>2. CASE row.status # "running"
  <2>1. row \in RowType /\ pc' = "stored" /\ UNCHANGED repeated
    BY DEF IInv, TypeOK, RowType, Persist
  <2>2. row' = [row EXCEPT !.counted = row.counted + Count(page)] \/ row' = row
    BY <1>2 DEF Persist
  <2>3. row'.status = row.status /\ row'.stored = row.stored /\ row'.token = row.token
    BY <2>1, <2>2 DEF RowType
  <2>4. Complete' = Complete
    BY <2>3 DEF Complete, WellFormed
  <2> QED
    BY <1>2, <2>1, <2>3, <2>4
    DEF CompleteInv, PlaceInv, InTouch, AtPlace, PageInv, EndInv, WellFormed
<1> QED
  BY <1>1, <1>2

LEMMA ContinueCompletes == IInv /\ CompleteInv /\ Continue => CompleteInv'
<1> SUFFICES ASSUME IInv, CompleteInv, Continue PROVE CompleteInv'
  OBVIOUS
<1>1. row \in RowType /\ loc \in LocType /\ pc = "stored" /\ UNCHANGED <<row, repeated>>
  BY DEF IInv, TypeOK, RowType, LocType, Continue, xVars
<1> DEFINE left == loc.resourceLeft - Count(page)
<1>2. CASE \E reason \in {"target_reached", "post_resource_limit_reached", "cursor_stalled"} :
             Return(reason)
  <2>1. pc' \in Reason /\ pc' # "search_exhausted"
    BY <1>2 DEF Return, Reason
  <2>2. row.status = "succeeded" /\ ~repeated => Complete
    BY DEF CompleteInv, EndInv
  <2> QED
    BY <1>1, <2>1, <2>2, CompleteKept
<1>3. CASE page.next = NoToken /\ Return("search_exhausted")
  <2>1. pc' \in Reason
    BY <1>3 DEF Return, Reason
  <2>2. /\ row.status = "running" /\ ~repeated => Complete
        /\ row.status = "succeeded" /\ ~repeated => Complete
    BY <1>1, <1>3 DEF CompleteInv, EndInv
  <2> QED
    BY <1>1, <2>1, <2>2, CompleteKept
<1>4. CASE /\ pc' = "loop" /\ page' = NoPage
           /\ loc' = [loc EXCEPT !.resourceLeft = left, !.token = page.next, !.tries = 0,
                                 !.seen = loc.seen \union {page.next}]
  <2> HIDE DEF left
  <2>1. loc'.storedLeft = loc.storedLeft /\ loc'.token = page.next
    BY <1>1, <1>4 DEF LocType
  <2>2. Complete' = Complete
    BY <1>1 DEF Complete, WellFormed
  <2>3. row.status = "running" => row.token = page.next
    BY <1>1 DEF CompleteInv, AtPlace
  <2> QED
    BY <1>1, <1>4, <2>1, <2>2, <2>3
    DEF CompleteInv, PlaceInv, InTouch, AtPlace, PageInv, EndInv, WellFormed
<1> QED
  BY <1>2, <1>3, <1>4 DEF Continue

LEMMA FinishCompletes == IInv /\ CompleteInv /\ Finish => CompleteInv'
<1> SUFFICES ASSUME IInv, CompleteInv, Finish PROVE CompleteInv'
  OBVIOUS
<1>1. row \in RowType /\ pc \in Reason /\ pc' = "idle" /\ UNCHANGED repeated /\ EndedBy
  BY DEF IInv, TypeOK, RowType, Finish, Leave, xVars
<1>2. {"succeeded", "partial"} \subseteq Status
      /\ {"target_reached", "target_not_reached"} \subseteq Reason
  BY DEF Status, Reason
<1>3. Cardinality(row.stored) \in Nat /\ Target \in Nat
  BY <1>1, StoredCount, OfficialAssumption DEF RowType
<1>4. PICK s \in {"succeeded", "partial"}, w \in Reason :
        /\ Ended(s, w, FALSE)
        /\ s = "succeeded" => Cardinality(row.stored) >= Target \/ pc = "search_exhausted"
  <2>1. CASE Cardinality(row.stored) >= Target
    BY <1>1, <1>2, <2>1 DEF EndedBy
  <2>2. CASE ~(Cardinality(row.stored) >= Target) /\ pc = "target_reached"
    BY <1>1, <1>2, <2>2 DEF EndedBy
  <2>3. CASE ~(Cardinality(row.stored) >= Target) /\ pc # "target_reached"
    BY <1>1, <1>2, <2>3 DEF EndedBy
  <2> QED
    BY <2>1, <2>2, <2>3
<1>5. /\ row'.stored = row.stored /\ row'.token = row.token
      /\ row'.status = IF row.status = "running" THEN s ELSE row.status
  BY <1>1, <1>2, <1>4, EndedKept
<1>6. row'.status = "succeeded" /\ ~repeated => Complete
  <2>1. Cardinality(row.stored) >= Target => Complete
    BY <1>3 DEF CompleteInv, Complete
  <2> QED
    BY <1>4, <1>5, <2>1 DEF CompleteInv, EndInv
<1> QED
  BY <1>1, <1>5, <1>6, CompleteKept

LEMMA NextCompletes == IInv /\ CompleteInv /\ [Next]_vars => CompleteInv'
<1> SUFFICES ASSUME IInv, CompleteInv, [Next]_vars PROVE CompleteInv'
  OBVIOUS
<1>1. TypeOK /\ row \in RowType /\ (row.status = "succeeded" /\ ~repeated => Complete)
  BY DEF IInv, TypeOK, RowType, CompleteInv, EndInv
<1>2. {"rate_limited", "error", "none", "post_resource_limit_reached"} \subseteq Reason
      /\ {"queued", "cancelled", "interrupted"} \subseteq Status
      /\ "search_exhausted" # "post_resource_limit_reached"
  BY DEF Reason, Status
<1>3. CASE Lease \/ Ask \/ Respond \/ Retry
  BY <1>1, <1>3, LeaseCompletes, AskCompletes, RespondCompletes, RetryCompletes
<1>4. CASE Persist \/ Continue \/ Finish
  BY <1>4, PersistCompletes, ContinueCompletes, FinishCompletes
<1>5. CASE StopBelowMinimum
  BY <1>1, <1>2, <1>5, CompleteKept DEF StopBelowMinimum, Return, xVars
<1>6. CASE Refuse \/ PersistFails
  <2>1. PICK w \in Reason, b \in BOOLEAN : Failed(w, b)
    BY <1>2, <1>6 DEF Refuse, PersistFails
  <2>2. pc' = "idle" /\ UNCHANGED repeated
    BY <1>6 DEF Refuse, PersistFails, Leave, xVars
  <2> QED
    BY <1>1, <2>1, <2>2, FailedKept, CompleteKept
<1>7. CASE NoticeCancel \/ NoticeLoss \/ Crash
  BY <1>1, <1>7, CompleteKept DEF NoticeCancel, NoticeLoss, Crash, Leave, xVars
<1>8. CASE Cancel \/ Resume \/ Recover
  <2>1. PICK s \in {"queued", "cancelled"}, b \in BOOLEAN :
          row' = [row EXCEPT !.status = s, !.reason = "none", !.retryable = b]
    BY <1>8 DEF Cancel, Resume, Recover
  <2>2. row'.stored = row.stored /\ row'.token = row.token /\ row'.status = s
    BY <1>1, <2>1 DEF RowType
  <2>3. UNCHANGED <<pc, loc, page, repeated>>
    BY <1>8 DEF Cancel, Resume, Recover, xVars
  <2> QED
    BY <2>2, <2>3, CompleteKept
<1>9. CASE Shutdown
  <2>1. Ended("interrupted", "none", TRUE) /\ pc' = "idle" /\ UNCHANGED repeated
    BY <1>9 DEF Shutdown, Leave, xVars
  <2>2. /\ row'.stored = row.stored /\ row'.token = row.token
        /\ row'.status = IF row.status = "running" THEN "interrupted" ELSE row.status
    BY <1>1, <1>2, <2>1, EndedKept
  <2> QED
    BY <1>1, <2>1, <2>2, CompleteKept
<1>10. CASE UNCHANGED vars
  BY <1>1, <1>10, CompleteKept DEF vars
<1> QED
  BY <1>3, <1>4, <1>5, <1>6, <1>7, <1>8, <1>9, <1>10 DEF Next, WorkerStep

\* A success holds the posts that were asked for, or all that X can serve: for
\* any feed, page size, malformed resources and number of attempts, through lost
\* pages, cancellations and resumptions behind the worker.
THEOREM SuccessComplete == Spec => []SucceededIsComplete
<1>1. Init => IInv /\ CompleteInv
  BY InitInv, CompleteInit
<1>2. IInv /\ CompleteInv /\ [Next]_vars => (IInv /\ CompleteInv)'
  BY NextInv, NextCompletes
<1>3. IInv /\ CompleteInv => SucceededIsComplete
  BY DEF CompleteInv, EndInv, Complete, SucceededIsComplete
<1> QED
  BY <1>1, <1>2, <1>3, PTL DEF Spec
=============================================================================
