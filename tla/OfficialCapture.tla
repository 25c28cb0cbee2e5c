--------------------------- MODULE OfficialCapture ---------------------------
(***************************************************************************)
(* One capture of the official X API provider: XApiProvider.collect of     *)
(* xworkbench/x_api.py, the callback and the ending that                   *)
(* JobService.run_once gives it, and the columns of the row that it is     *)
(* resumed from.  X itself is external: a list of Feed resources that is   *)
(* served in pages and billed by the resource.                             *)
(***************************************************************************)
EXTENDS Integers, FiniteSets

CONSTANTS
  Target,       \* max_posts of the request
  Recent,       \* search mode: recent search, or else full archive
  PageLimit,    \* 100 or 500 resources a page
  MinPage,      \* 10, the smallest page that X accepts
  Feed,         \* how many resources match the query
  Malformed,    \* the places of those that map_response skips
  MaxRetries,   \* MAX_RETRIES
  MaxAttempts,  \* bound of the attempts
  Faults        \* what may go wrong

ASSUME OfficialAssumption ==
  /\ Target \in Nat \ {0} /\ Feed \in Nat /\ Malformed \subseteq 1..Feed
  /\ MinPage \in Nat \ {0} /\ PageLimit \in Nat /\ MinPage <= PageLimit
  /\ Recent \in BOOLEAN /\ MaxRetries \in Nat /\ MaxAttempts \in Nat
  /\ Faults \subseteq {"crash", "shutdown", "storage", "cancel", "garbled", "refused",
                       "repeat", "excess"}

VARIABLES
  row,     \* the columns of the job: status, reason, stored, token, counted, attempt
  pc,      \* where the worker stands in collect and run_once
  loc,     \* the local variables of collect
  page,    \* the response that the worker holds
  billed,  \* resources that X has served
  lost,    \* those of them whose response never reached the row
  over,    \* those of them beyond the requested page size
  repeated \* X has returned a token that it had returned before

vars == <<row, pc, loc, page, billed, lost, over, repeated>>
xVars == <<billed, lost, over, repeated>>

-----------------------------------------------------------------------------
(* Approved limits and pages *)

\* maximum_billable_reads: recent search rounds a last page that would be
\* smaller than the minimum up to it.
Ceiling ==
  LET rest == Target % PageLimit IN
  Target + (IF Recent /\ rest > 0 /\ rest < MinPage THEN MinPage - rest ELSE 0)

AtMost(m, n) == IF m < n THEN m ELSE n
AtLeast(m, n) == IF m > n THEN m ELSE n

\* min(page_limit, resource_remaining, max(10, stored_remaining))
PageSize(storedLeft, resourceLeft) ==
  AtMost(PageLimit, AtMost(resourceLeft, AtLeast(MinPage, storedLeft)))

\* A token is the last place of the page before; there is none before place 1.
NoToken    == 0
WellFormed == 1..Feed \ Malformed

\* The post resources of a page, which X bills.
Count(p) == p.to - p.from

\* Mutant: every resource is taken for a post.
ResourcesOf(p) == (p.from + 1)..p.to

\* map_response: the posts of a page; malformed resources are skipped.
PostsOf(p) == {n \in WellFormed : p.from < n /\ n <= p.to}

\* posts[:n]
First(posts, n) == {q \in posts : Cardinality({r \in posts : r < q}) < n}

\* Mutant: a resumed capture counts from the confirmed limit again.
StartedFromPlan(r) ==
  [storedLeft |-> Target - Cardinality(r.stored), resourceLeft |-> Ceiling, token |-> r.token,
   seen |-> {r.token} \ {NoToken}, size |-> 0, tries |-> 0]

\* The local variables that collect derives from the checkpoint of the lease.
Started(r) ==
  [storedLeft   |-> Target - Cardinality(r.stored),
   resourceLeft |-> Ceiling - r.counted,
   token        |-> r.token,
   seen         |-> {r.token} \ {NoToken},
   size         |-> 0,
   tries        |-> 0]

NoPage == [from |-> 0, to |-> 0, next |-> NoToken]
NoLocals == [storedLeft |-> 0, resourceLeft |-> 0, token |-> NoToken, seen |-> {},
             size |-> 0, tries |-> 0]

Reason == {"none", "target_reached", "target_not_reached", "post_resource_limit_reached",
           "search_exhausted", "cursor_stalled", "rate_limited", "error"}
Status == {"queued", "running", "succeeded", "partial", "failed", "cancelled", "interrupted"}

Init ==
  /\ row = [status |-> "queued", reason |-> "none", retryable |-> FALSE, stored |-> {},
            token |-> NoToken, counted |-> 0, attempt |-> 0]
  /\ pc = "idle" /\ loc = NoLocals /\ page = NoPage
  /\ billed = 0 /\ lost = 0 /\ over = 0 /\ repeated = FALSE

\* The worker leaves the job.
Leave == pc' = "idle" /\ loc' = NoLocals /\ page' = NoPage

-----------------------------------------------------------------------------
(* What run_once writes.  Only a row that still runs is changed: a row that  *)
(* was cancelled, or resumed behind the worker, is not the worker's any more. *)

Ended(status, reason, retryable) ==
  row' = IF row.status = "running"
           THEN [row EXCEPT !.status = status, !.reason = reason, !.retryable = retryable]
           ELSE row

\* _failure_status
Failed(reason, retryable) ==
  Ended(IF row.stored # {} THEN "partial" ELSE "failed", reason, retryable)

\* A summary that waits for the end of run_once.
Return(reason) ==
  /\ pc' = reason /\ loc' = NoLocals /\ page' = NoPage

Lease ==
  /\ pc = "idle" /\ row.status = "queued" /\ row.attempt < MaxAttempts
  /\ row' = [row EXCEPT !.status = "running", !.reason = "none", !.retryable = FALSE,
                        !.attempt = @ + 1]
  /\ IF Cardinality(row.stored) >= Target THEN Return("target_reached")
     ELSE IF Ceiling - row.counted <= 0 THEN Return("post_resource_limit_reached")
     ELSE pc' = "loop" /\ loc' = Started(row) /\ page' = NoPage
  /\ UNCHANGED xVars

\* run_once compares the summary with the number of posts in the row.
EndedBy ==
  IF Cardinality(row.stored) >= Target THEN Ended("succeeded", "target_reached", FALSE)
  ELSE IF pc = "target_reached" THEN Ended("partial", "target_not_reached", FALSE)
  ELSE Ended(IF pc = "search_exhausted" THEN "succeeded" ELSE "partial", pc, FALSE)

Finish == pc \in Reason /\ EndedBy /\ Leave /\ UNCHANGED xVars

-----------------------------------------------------------------------------
(* collect *)

\* The next page is asked for, if the smallest page still fits.
Ask ==
  /\ pc = "loop" /\ row.status # "cancelled"
  /\ LET size == PageSize(loc.storedLeft, loc.resourceLeft) IN
     /\ size >= MinPage
     /\ loc' = [loc EXCEPT !.size = size, !.tries = 0]
  /\ pc' = "request"
  /\ UNCHANGED <<row, page, xVars>>

StopBelowMinimum ==
  /\ pc = "loop" /\ row.status # "cancelled"
  /\ PageSize(loc.storedLeft, loc.resourceLeft) < MinPage
  /\ Return("post_resource_limit_reached")
  /\ UNCHANGED <<row, xVars>>

\* What X may answer to a request: resources behind the token, perhaps fewer
\* than asked for or none, and the token of the next page while there is one.
\* A faulty X serves more than it was asked for or returns an earlier token.
Answer ==
  {p \in [from : {loc.token}, to : loc.token..Feed, next : 0..Feed] :
     /\ Count(p) <= loc.size + (IF "excess" \in Faults THEN 1 ELSE 0)
     /\ \/ /\ p.to > p.from \/ p.from = Feed
           /\ p.next = IF p.to = Feed THEN NoToken ELSE p.to
        \/ "repeat" \in Faults /\ p.next \in 1..p.from}

\* X has billed what it serves, whether or not the answer arrives.
Serve(p) ==
  /\ billed' = billed + Count(p)
  /\ over' = over + AtLeast(Count(p) - loc.size, 0)

Respond ==
  /\ pc = "request"
  /\ \E p \in Answer : page' = p /\ Serve(p) /\ repeated' = (repeated \/ p.next \in 1..p.from)
  /\ pc' = "response"
  /\ UNCHANGED <<row, loc, lost>>

\* The answer cannot be read, or never comes: up to MAX_RETRIES more requests.
Retry ==
  /\ pc = "request" /\ "garbled" \in Faults
  /\ \E p \in Answer :
       /\ Serve(p) /\ lost' = lost + Count(p)
       /\ IF loc.tries < MaxRetries
            THEN loc' = [loc EXCEPT !.tries = @ + 1] /\ UNCHANGED <<row, pc, page>>
            ELSE Failed("error", TRUE) /\ Leave
  /\ UNCHANGED repeated

\* Credits, credentials or an error that is not retried end the job.
Refuse ==
  /\ pc = "request" /\ "refused" \in Faults
  /\ \E reason \in {"rate_limited", "error"} : Failed(reason, FALSE)
  /\ Leave
  /\ UNCHANGED xVars

\* Mutant: the checkpoint of a page is written for any row.
PersistTokenAlways ==
  /\ pc = "response"
  /\ LET batch == First(PostsOf(page), loc.storedLeft) IN
     /\ row' = [row EXCEPT !.stored = IF row.status = "running" THEN @ \union batch ELSE @,
                           !.token = page.next, !.counted = @ + Count(page)]
     /\ loc' = [loc EXCEPT !.storedLeft = @ - Cardinality(row'.stored \ row.stored)]
  /\ pc' = "stored"
  /\ UNCHANGED <<page, xVars>>

\* on_batch: posts, token and usage of a running row change together; of a
\* cancelled row only the usage; any other row is left as it is.
Persist ==
  /\ pc = "response"
  /\ LET batch == First(PostsOf(page), loc.storedLeft) IN
     row' = CASE row.status = "running" ->
                   [row EXCEPT !.stored = @ \union batch, !.token = page.next,
                               !.counted = @ + Count(page)]
              [] row.status = "cancelled" -> [row EXCEPT !.counted = @ + Count(page)]
              [] OTHER -> row
  /\ loc' = [loc EXCEPT !.storedLeft = @ - Cardinality(row'.stored \ row.stored)]
  /\ lost' = IF row.status \in {"running", "cancelled"} THEN lost ELSE lost + Count(page)
  /\ pc' = "stored"
  /\ UNCHANGED <<page, billed, over, repeated>>

\* on_batch raises: the response is gone.
PersistFails ==
  /\ pc = "response" /\ "storage" \in Faults
  /\ lost' = lost + Count(page)
  /\ Failed("error", TRUE) /\ Leave
  /\ UNCHANGED <<billed, over, repeated>>

\* Mutant: tokens are not remembered.
ContinueUnseen ==
  /\ pc = "stored" /\ row.status # "cancelled"
  /\ LET left == loc.resourceLeft - Count(page) IN
     IF loc.storedLeft <= 0 THEN Return("target_reached")
     ELSE IF left <= 0 THEN Return("post_resource_limit_reached")
     ELSE IF page.next = NoToken THEN Return("search_exhausted")
     ELSE /\ pc' = "loop" /\ page' = NoPage
          /\ loc' = [loc EXCEPT !.resourceLeft = left, !.token = page.next, !.tries = 0]
  /\ UNCHANGED <<row, xVars>>

\* The end of the loop body: the target, the confirmed limit, the end of the
\* results and a repeated token stop the capture, in this order.
Continue ==
  /\ pc = "stored" /\ row.status # "cancelled"
  /\ LET left == loc.resourceLeft - Count(page) IN
     IF loc.storedLeft <= 0 THEN Return("target_reached")
     ELSE IF left <= 0 THEN Return("post_resource_limit_reached")
     ELSE IF page.next = NoToken THEN Return("search_exhausted")
     ELSE IF page.next \in loc.seen THEN Return("cursor_stalled")
     ELSE /\ pc' = "loop" /\ page' = NoPage
          /\ loc' = [loc EXCEPT !.resourceLeft = left, !.token = page.next, !.tries = 0,
                                !.seen = @ \union {page.next}]
  /\ UNCHANGED <<row, xVars>>

\* Where collect and _request call should_cancel.
Checkpoint == {"loop", "request", "stored"}

\* should_cancel answers yes: the row was cancelled.
NoticeCancel ==
  /\ pc \in Checkpoint /\ row.status = "cancelled"
  /\ Leave /\ UNCHANGED <<row, xVars>>

\* should_cancel finds at its heartbeat that the row is not leased any more.
NoticeLoss ==
  /\ pc \in Checkpoint /\ row.status \notin {"running", "cancelled"}
  /\ Leave /\ UNCHANGED <<row, xVars>>

WorkerStep ==
  \/ Lease \/ Ask \/ StopBelowMinimum \/ Respond \/ Retry \/ Refuse \/ Persist \/ PersistFails
  \/ Continue \/ NoticeCancel \/ NoticeLoss \/ Finish

-----------------------------------------------------------------------------
(* Clients and the process *)

Cancel ==
  /\ "cancel" \in Faults /\ row.status \in {"queued", "running"}
  /\ row' = [row EXCEPT !.status = "cancelled", !.reason = "none", !.retryable = TRUE]
  /\ UNCHANGED <<pc, loc, page, xVars>>

\* A resumption does not wait for the worker that still holds the job.
Resume ==
  /\ row.attempt < MaxAttempts /\ row.reason # "rate_limited"
  /\ \/ row.status \in {"cancelled", "interrupted", "partial"}
     \/ row.status = "failed" /\ row.retryable
  /\ row' = [row EXCEPT !.status = "queued", !.reason = "none", !.retryable = FALSE]
  /\ UNCHANGED <<pc, loc, page, xVars>>

\* What is lost with the memory of the worker.
Held == IF pc = "response" THEN Count(page) ELSE 0

\* The process dies; the next one requeues the row when its lease is over.
Crash ==
  /\ "crash" \in Faults /\ pc # "idle"
  /\ lost' = lost + Held /\ Leave
  /\ UNCHANGED <<row, billed, over, repeated>>

Recover ==
  /\ pc = "idle" /\ row.status = "running"
  /\ row' = [row EXCEPT !.status = "queued", !.reason = "none", !.retryable = TRUE]
  /\ UNCHANGED <<pc, loc, page, xVars>>

\* A shutdown interrupts the job where the worker next looks for it.
Shutdown ==
  /\ "shutdown" \in Faults /\ pc \in Checkpoint
  /\ Ended("interrupted", "none", TRUE) /\ Leave
  /\ UNCHANGED xVars

Next == WorkerStep \/ Cancel \/ Resume \/ Crash \/ Recover \/ Shutdown

Spec == Init /\ [][Next]_vars

\* A request is answered or times out, and a worker that can go on does so.
FairSpec == Spec /\ WF_vars(WorkerStep)

-----------------------------------------------------------------------------
(* Properties *)

\* Every variable holds a value of its domain; only well-formed resources
\* become posts.
TypeOK ==
  /\ row \in [status : Status, reason : Reason, retryable : BOOLEAN, stored : SUBSET WellFormed,
              token : 0..Feed, counted : Nat, attempt : 0..MaxAttempts]
  /\ pc \in {"idle", "loop", "request", "response", "stored"} \union Reason
  /\ loc \in [storedLeft : Int, resourceLeft : Int, token : 0..Feed, seen : SUBSET (1..Feed),
              size : Nat, tries : 0..MaxRetries]
  /\ page \in [from : 0..Feed, to : 0..Feed, next : 0..Feed]
  /\ billed \in Nat /\ lost \in Nat /\ over \in Nat /\ repeated \in BOOLEAN

\* The confirmed limit bounds what X bills over all attempts of the job, but
\* for responses that were lost on their way to the row and for resources that
\* X served unasked: no cancellation, resumption or crash resets the account.
BilledWithinCeiling == billed <= Ceiling + lost + over

\* A success holds the requested number of posts, or every post that X can
\* serve: however often the capture was interrupted and resumed, no page is
\* skipped.  A search that repeats its tokens promises nothing.
SucceededIsComplete ==
  /\ Cardinality(row.stored) <= Target
  /\ row.status = "succeeded" /\ ~repeated =>
       Cardinality(row.stored) = Target \/ row.stored = WellFormed

\* Every attempt comes to an end, even against a search whose tokens never
\* lead anywhere.
CaptureEnds == pc # "idle" ~> pc = "idle"
=============================================================================
