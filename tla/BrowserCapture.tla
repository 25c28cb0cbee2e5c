---------------------------- MODULE BrowserCapture ----------------------------
(***************************************************************************)
(* The Browser provider of xworkbench/playwright_browser.py: one job that  *)
(* PlaywrightBrowserProvider.collect captures over several attempts, the   *)
(* file with the browser session and the marker beside it that says how    *)
(* far the session is to be trusted, and authenticate, which another       *)
(* process may run at the same time.  No lock guards the two files: each   *)
(* is replaced atomically, and the marker names the digest of the session  *)
(* that it is about.  X and the browser are external.                      *)
(***************************************************************************)
EXTENDS Integers, FiniteSets

CONSTANTS
  Posts,           \* what the timeline may show
  Target,          \* max_posts of the request
  NoProgressLimit, \* scans without a new post that end a capture
  MaxAttempts,     \* bound of the attempts
  MaxSignIns,      \* bound of the completed sign-ins
  Faults           \* what may go wrong

ASSUME BrowserAssumption ==
  /\ IsFiniteSet(Posts)
  /\ Target \in Nat \ {0} /\ NoProgressLimit \in Nat \ {0}
  /\ MaxAttempts \in Nat \ {0} /\ MaxSignIns \in Nat \ {0}
  /\ Faults \subseteq {"cancel", "crash", "deadline", "disk", "page", "remove", "shutdown",
                       "storage"}

VARIABLES
  file,   \* the saved session
  marker, \* the marker: a session and what is known of it
  record, \* for each of the two actors, the marker that it is about to write
  signIn, \* where authenticate stands
  row,    \* the columns of the job
  pc,     \* where the worker stands in collect and run_once
  cap     \* the local variables of collect

vars == <<file, marker, record, signIn, row, pc, cap>>
files == <<file, marker, record>>

-----------------------------------------------------------------------------
(* Sessions, markers and rows *)

\* A session is told from others by its digest: the sign-in that it goes back
\* to and the attempt of the capture that refreshed it, if any did.
NoSession == [signIn |-> 0, attempt |-> 0]

Actor    == {"worker", "authenticate"}
\* A record that was begun has no session until the file has been read.
NoRecord == [status |-> "none", session |-> NoSession]

\* _state_details: a marker speaks of the session whose digest it names only.
Ready == file # NoSession /\ marker = [session |-> file, status |-> "verified_live"]

Summary == {"target_reached", "no_progress"}
\* Every failure that may be retried is a browser_failure here.
Failure == {"session_invalid", "manual_action_required", "browser_rate_limited", "browser_failure"}
\* The codes after which a job is never resumed.
Final   == {"manual_action_required", "browser_rate_limited"}

\* How the capture ends when X or the browser fails, and what is recorded.  An
\* expired session is treated as one that needs manual action: both are
\* recorded, and both codes are final.
PageFailure ==
  {<<"manual_action_required", "manual_action_required">>, <<"browser_rate_limited", "none">>,
   <<"browser_failure", "none">>, <<"browser_failure", "unavailable">>}

NoCapture == [digest |-> NoSession, context |-> NoSession, compared |-> NoSession, seen |-> {},
              stored |-> 0, added |-> 0, idle |-> 0, outcome |-> "none"]

Init ==
  /\ file = [signIn |-> 1, attempt |-> 0]
  /\ marker = [session |-> file, status |-> "verified_live"]
  /\ record = [a \in Actor |-> NoRecord]
  /\ signIn = [phase |-> "idle", done |-> 1]
  /\ row = [status |-> "queued", reason |-> "none", stored |-> {},
            seen |-> {}, stop |-> "none", attempt |-> 0]
  /\ pc = "idle" /\ cap = NoCapture

-----------------------------------------------------------------------------
(* _record_status: the session is read first and the marker replaced later *)

Recording(a) == record[a].status # "none"

RecordBegins(a, status) == record' = [record EXCEPT ![a].status = status]

\* A marker is only written for a session that is there.
RecordReads(a) ==
  /\ Recording(a) /\ record[a].session = NoSession
  /\ record' = [record EXCEPT ![a] = IF file = NoSession THEN NoRecord ELSE [@ EXCEPT !.session = file]]
  /\ UNCHANGED <<file, marker, signIn, row, pc, cap>>

RecordWrites(a) ==
  /\ Recording(a) /\ record[a].session # NoSession
  /\ \/ marker' = [session |-> record[a].session, status |-> record[a].status]
     \/ "disk" \in Faults /\ marker' = marker
  /\ record' = [record EXCEPT ![a] = NoRecord]
  /\ UNCHANGED <<file, signIn, row, pc, cap>>

Records(a) == RecordReads(a) \/ RecordWrites(a)

-----------------------------------------------------------------------------
(* authenticate.  The window is open while nothing is saved: idle stands for *)
(* that, too, and for a sign-in that is cancelled.                           *)

\* The user is at home on X: the session replaces whatever is in the file, and
\* is then marked.
SignInSaves ==
  /\ signIn.phase = "idle" /\ signIn.done < MaxSignIns
  /\ signIn' = [phase |-> "saved", done |-> signIn.done + 1]
  /\ file' = [signIn |-> signIn.done + 1, attempt |-> 0]
  /\ RecordBegins("authenticate", "verified_live")
  /\ UNCHANGED <<marker, row, pc, cap>>

\* The time is over or the window is gone: the session in the file is marked.
SignInFails ==
  /\ signIn.phase = "idle"
  /\ \E status \in {"manual_action_required", "unavailable"} : RecordBegins("authenticate", status)
  /\ signIn' = [signIn EXCEPT !.phase = "saved"]
  /\ UNCHANGED <<file, marker, row, pc, cap>>

SignInReturns ==
  /\ signIn.phase = "saved" /\ ~Recording("authenticate")
  /\ signIn' = [signIn EXCEPT !.phase = "idle"]
  /\ UNCHANGED <<files, row, pc, cap>>

\* The process of the sign-in dies before the marker is written.
SignInDies ==
  /\ "crash" \in Faults /\ signIn.phase = "saved"
  /\ signIn' = [signIn EXCEPT !.phase = "idle"]
  /\ record' = [record EXCEPT !["authenticate"] = NoRecord]
  /\ UNCHANGED <<file, marker, row, pc, cap>>

\* The user removes the file, or makes it readable to others.
Remove ==
  /\ "remove" \in Faults /\ file # NoSession
  /\ file' = NoSession
  /\ UNCHANGED <<marker, record, signIn, row, pc, cap>>

-----------------------------------------------------------------------------
(* run_once around the capture.  Only a row that still runs is changed. *)

Ended(status, reason) ==
  row' = IF row.status = "running"
           THEN [row EXCEPT !.status = status, !.reason = reason]
           ELSE row

\* _failure_status
Failed(reason) ==
  Ended(IF row.stored # {} THEN "partial" ELSE "failed", reason)

Leave == pc' = "idle" /\ cap' = NoCapture

\* collect returns or raises; its local variables are gone.
Returns(outcome) == pc' = "ending" /\ cap' = [NoCapture EXCEPT !.outcome = outcome]

\* The lease; a full row ends without the provider.
Lease ==
  /\ pc = "idle" /\ row.status = "queued" /\ row.attempt < MaxAttempts
  /\ row' = [row EXCEPT !.status = "running", !.reason = "none", !.attempt = @ + 1]
  /\ IF Cardinality(row.stored) >= Target
       THEN Returns("target_reached")
       ELSE pc' = "prepare" /\ cap' = NoCapture
  /\ UNCHANGED <<files, signIn>>

\* prepare and collect read the session; the local variables come from the
\* checkpoint of the lease, which nobody else changes while it runs.
Prepare ==
  /\ pc = "prepare"
  /\ IF Ready
       THEN /\ cap' = [cap EXCEPT !.digest = file, !.seen = row.seen,
                                  !.stored = Cardinality(row.stored)]
            /\ pc' = "launch"
       ELSE Returns("session_invalid")
  /\ UNCHANGED <<files, signIn, row>>

Checkpoint == {"launch", "loop", "scanned"}
StillRuns  == row.status # "cancelled"

\* The browser starts, and the context reads the file, for a second time.
Launch ==
  /\ pc = "launch" /\ StillRuns
  /\ IF file = NoSession
       THEN /\ RecordBegins("worker", "unavailable")
            /\ Returns("browser_failure")
       ELSE /\ pc' = "loop" /\ cap' = [cap EXCEPT !.context = file]
            /\ UNCHANGED record
  /\ UNCHANGED <<file, marker, signIn, row>>

\* A page that fails to load, to show a post or to stay usable.
PageFails ==
  /\ pc \in {"launch", "loop", "refresh"} /\ "page" \in Faults
  /\ \E failure \in PageFailure :
       /\ pc = "refresh" => failure = <<"browser_failure", "unavailable">>
       /\ Returns(failure[1])
       /\ IF failure[2] = "none" THEN UNCHANGED record ELSE RecordBegins("worker", failure[2])
  /\ UNCHANGED <<file, marker, signIn, row>>

Look ==
  /\ pc = "loop" /\ StillRuns
  /\ pc' = "scan"
  /\ UNCHANGED <<files, signIn, row, cap>>

\* What a scan may find: malformed articles and posts seen before are skipped,
\* and it stops at the target.
Fresh == {fresh \in SUBSET (Posts \ cap.seen) : Cardinality(fresh) <= Target - cap.stored}

\* Mutant: the checkpoint of a scan is written for any row.
ScanSeenAlways ==
  /\ pc = "scan"
  /\ \E fresh \in Fresh :
       LET added == IF row.status = "running" THEN fresh ELSE {} IN
       /\ row' = [row EXCEPT !.stored = @ \union added, !.seen = cap.seen \union fresh,
                             !.stop = "none"]
       /\ cap' = [cap EXCEPT !.seen = @ \union fresh, !.added = Cardinality(added),
                             !.stored = @ + Cardinality(added)]
  /\ pc' = "scanned"
  /\ UNCHANGED <<files, signIn>>

\* A scan of the visible articles: the new posts and the list of those seen are
\* stored together, in a row that runs.
Scan ==
  /\ pc = "scan"
  /\ \E fresh \in Fresh :
       LET added == fresh \ row.stored IN
       \/ /\ row.status = "running"
          /\ row' = [row EXCEPT !.stored = @ \union added, !.seen = cap.seen \union fresh,
                                !.stop = "none"]
          /\ cap' = [cap EXCEPT !.seen = @ \union fresh, !.added = Cardinality(added),
                                !.stored = @ + Cardinality(added)]
       \/ /\ row.status # "running"
          /\ cap' = [cap EXCEPT !.seen = @ \union fresh, !.added = 0]
          /\ row' = row
  /\ pc' = "scanned"
  /\ UNCHANGED <<files, signIn>>

ScanFails ==
  /\ pc = "scan" /\ "storage" \in Faults
  /\ Returns("browser_failure")
  /\ UNCHANGED <<files, signIn, row>>

GoOn ==
  /\ pc = "scanned" /\ StillRuns
  /\ pc' = "decide"
  /\ UNCHANGED <<files, signIn, row, cap>>

\* An empty batch says why the capture stops.
Stops(reason) ==
  /\ row' = IF row.status = "running" THEN [row EXCEPT !.stop = reason] ELSE row
  /\ cap' = [cap EXCEPT !.outcome = reason]
  /\ pc' = "refresh"

\* Mutant: only the last scan counts.
DecideForgetful ==
  /\ pc = "decide"
  /\ LET idle == IF cap.added > 0 THEN 0 ELSE 1 IN
     IF cap.stored >= Target THEN Stops("target_reached")
     ELSE IF idle >= NoProgressLimit THEN Stops("no_progress")
     ELSE pc' = "loop" /\ cap' = [cap EXCEPT !.idle = idle] /\ row' = row
  /\ UNCHANGED <<files, signIn>>

\* The target, or too many scans without a post that was stored, end the
\* capture; else the page is scrolled.
Decide ==
  /\ pc = "decide"
  /\ LET idle == IF cap.added > 0 THEN 0 ELSE cap.idle + 1 IN
     IF cap.stored >= Target THEN Stops("target_reached")
     ELSE IF idle >= NoProgressLimit THEN Stops("no_progress")
     ELSE pc' = "loop" /\ cap' = [cap EXCEPT !.idle = idle] /\ row' = row
  /\ UNCHANGED <<files, signIn>>

\* Mutant: the session is replaced whatever is in the file.
CompareNothing ==
  /\ pc = "refresh"
  /\ pc' = "replace" /\ cap' = [cap EXCEPT !.compared = file]
  /\ UNCHANGED <<files, signIn, row>>

\* _save_storage_state compares the file with the session of the capture ...
Compare ==
  /\ pc = "refresh"
  /\ IF file # NoSession /\ file = cap.digest
       THEN pc' = "replace" /\ cap' = [cap EXCEPT !.compared = file]
       ELSE Returns(cap.outcome)
  /\ UNCHANGED <<files, signIn, row>>

\* ... and then replaces it, and _refresh_state marks what is in the file.
Replace ==
  /\ pc = "replace"
  /\ file' = [signIn |-> cap.context.signIn, attempt |-> row.attempt]
  /\ RecordBegins("worker", "verified_live")
  /\ Returns(cap.outcome)
  /\ UNCHANGED <<marker, signIn, row>>

ReplaceFails ==
  /\ pc = "replace" /\ "disk" \in Faults
  /\ Returns(cap.outcome)
  /\ UNCHANGED <<files, signIn, row>>

\* The end of run_once, which trusts the row more than the summary.
Finish ==
  /\ pc = "ending" /\ ~Recording("worker")
  /\ IF cap.outcome \notin Summary THEN Failed(cap.outcome)
     ELSE IF Cardinality(row.stored) >= Target THEN Ended("succeeded", "target_reached")
     ELSE Ended("partial", IF cap.outcome = "target_reached" THEN "target_not_reached"
                           ELSE cap.outcome)
  /\ Leave
  /\ UNCHANGED <<files, signIn>>

\* _check_stop: the row was cancelled, or its heartbeat finds it lost.
NoticeCancel ==
  /\ pc \in Checkpoint /\ row.status # "running"
  /\ Leave
  /\ UNCHANGED <<files, signIn, row>>

Deadline ==
  /\ pc \in Checkpoint /\ "deadline" \in Faults
  /\ Returns("browser_failure")
  /\ UNCHANGED <<files, signIn, row>>

\* A shutdown answers the next check, and takes the place of a failure.
Shutdown ==
  /\ "shutdown" \in Faults
  /\ \/ pc \in Checkpoint
     \/ pc = "ending" /\ cap.outcome \in Failure /\ ~Recording("worker")
  /\ Ended("interrupted", "none") /\ Leave
  /\ UNCHANGED <<files, signIn>>

CaptureStep ==
  \/ Lease \/ Prepare \/ Launch \/ Look \/ Scan \/ ScanFails \/ GoOn \/ Decide \/ Compare
  \/ Replace \/ ReplaceFails \/ PageFails \/ NoticeCancel \/ Finish \/ Records("worker")

-----------------------------------------------------------------------------
(* Clients and the process *)

Cancel ==
  /\ "cancel" \in Faults /\ row.status \in {"queued", "running"}
  /\ row' = [row EXCEPT !.status = "cancelled", !.reason = "none"]
  /\ UNCHANGED <<files, signIn, pc, cap>>

\* A resumption does not wait for the worker that still holds the job.
Resume ==
  /\ row.attempt < MaxAttempts /\ row.reason \notin Final
  /\ \/ row.status \in {"cancelled", "interrupted", "partial"}
     \/ row.status = "failed" /\ row.reason = "browser_failure"
  /\ row' = [row EXCEPT !.status = "queued", !.reason = "none"]
  /\ UNCHANGED <<files, signIn, pc, cap>>

Crash ==
  /\ "crash" \in Faults /\ pc # "idle"
  /\ record' = [record EXCEPT !["worker"] = NoRecord] /\ Leave
  /\ UNCHANGED <<file, marker, signIn, row>>

Recover ==
  /\ pc = "idle" /\ row.status = "running"
  /\ row' = [row EXCEPT !.status = "queued"]
  /\ UNCHANGED <<files, signIn, pc, cap>>

Next ==
  \/ CaptureStep \/ Deadline \/ Shutdown \/ Cancel \/ Resume \/ Crash \/ Recover \/ Remove
  \/ SignInSaves \/ SignInFails \/ SignInReturns \/ SignInDies
  \/ Records("authenticate")

Spec == Init /\ [][Next]_vars

\* Page calls have timeouts, so that a capture goes on; whether its deadline
\* ever strikes is left open.
FairSpec == Spec /\ WF_vars(CaptureStep)

-----------------------------------------------------------------------------
(* Properties *)

\* However a capture is cancelled, resumed and crashed, its row counts as seen
\* exactly the posts that it holds, so that no attempt passes over a post for
\* good; it never holds more than was asked for, and only a full row says that
\* the target was reached or ends in success.
CheckpointIsHonest ==
  /\ row.seen = row.stored
  /\ Cardinality(row.stored) <= Target
  /\ row.status = "succeeded" \/ row.stop = "target_reached" => Cardinality(row.stored) = Target

\* A capture never puts a session back in the place of one of a later sign-in,
\* unless that sign-in was saved between its comparison and its replacement.
NewerSignInKept ==
  [][file'.signIn < file.signIn => file' = NoSession \/ cap.compared # file]_vars

\* Every capture ends, without help of its deadline, on a timeline that shows
\* the same posts for ever.
CaptureEnds == pc # "idle" ~> pc = "idle"
=============================================================================
