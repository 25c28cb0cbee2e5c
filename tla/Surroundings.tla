----------------------------- MODULE Surroundings -----------------------------
(***************************************************************************)
(* The components around the queue that share no state with each other,    *)
(* side by side: the Browser capture, the approval of batches, the events  *)
(* and their reader, the start of processes and the resource governor.     *)
(* Init chooses one of them, which moves alone; the rest stays as it was,  *)
(* so that their states add up instead of multiplying.                     *)
(***************************************************************************)
EXTENDS BrowserCapture

CONSTANTS
  Source, Thread, QueueCapacity, Spans, PreviewLeast, PreviewMost,   \* BatchApproval
  LastTime, MaxBatch, MaxSingles, MaxLife,
  Jobs, EventCapacity, Limit, MaxSequence, MaxEpoch,                \* EventFeed
  Process, MaxStarts,                                               \* ProcessStart
  Interval, Window, MaxTime                                         \* ResourceGovernor

\* The sources are those of a file, deadlines, limits and capacity are numbers,
\* and a page of events holds one at least.
ASSUME SurroundingsAssumption ==
  /\ IsFiniteSet(Source) /\ Spans \subseteq Nat /\ QueueCapacity \in Nat
  /\ PreviewLeast \in Nat /\ PreviewMost \in Nat /\ PreviewLeast <= PreviewMost
  /\ Limit \in Nat \ {0} /\ Window \in Nat

VARIABLES
  part,                                                        \* the component that moves
  clock, life, issued, handler, rows, singles, gone,           \* BatchApproval
  epoch, sequence, buffer, reader,                             \* EventFeed
  db, backup, lock, place, mine,                               \* ProcessStart
  now, nextAt, paused, tripped, since, disturbedAt             \* ResourceGovernor

Approval == INSTANCE BatchApproval WITH Capacity <- QueueCapacity, MaxTime <- LastTime
Feed     == INSTANCE EventFeed WITH Capacity <- EventCapacity
Startup  == INSTANCE ProcessStart WITH MaxLife <- MaxStarts, pc <- place
Governor == INSTANCE ResourceGovernor

approvalVars == <<clock, life, issued, handler, rows, singles, gone>>
feedVars     == <<epoch, sequence, buffer, reader>>
startupVars  == <<db, backup, lock, place, mine>>
governorVars == <<now, nextAt, paused, tripped, since, disturbedAt>>
others       == <<approvalVars, feedVars, startupVars, governorVars>>

PartsInit ==
  /\ part \in {"browser", "approval", "feed", "startup", "governor"}
  /\ Init /\ Approval!Init /\ Feed!Init /\ Startup!Init /\ Governor!Init
  /\ db = "old" => part = "startup"

BrowserMoves  == part = "browser" /\ Next /\ UNCHANGED <<part, others>>
ApprovalMoves ==
  part = "approval" /\ Approval!Next
    /\ UNCHANGED <<part, vars, feedVars, startupVars, governorVars>>
FeedMoves ==
  part = "feed" /\ Feed!Next
    /\ UNCHANGED <<part, vars, approvalVars, startupVars, governorVars>>
StartupMoves ==
  part = "startup" /\ Startup!Next
    /\ UNCHANGED <<part, vars, approvalVars, feedVars, governorVars>>
GovernorMoves ==
  part = "governor" /\ Governor!Next
    /\ UNCHANGED <<part, vars, approvalVars, feedVars, startupVars>>

PartsNext == BrowserMoves \/ ApprovalMoves \/ FeedMoves \/ StartupMoves \/ GovernorMoves

\* The fairness of BrowserCapture!FairSpec.
PartsSpec ==
  /\ PartsInit /\ [][PartsNext]_<<part, vars, others>>
  /\ WF_<<vars, others>>(part = "browser" /\ CaptureStep /\ UNCHANGED <<part, others>>)

-----------------------------------------------------------------------------
(* The properties of the other modules, stated and explained there *)

\* Rows are what was approved, in time and whole; only resumptions exceed the capacity.
ApprovalHonoured == Approval!ApprovalHonoured
\* A reader is told of every gap in the events.
NoSilentGap == Feed!NoSilentGap
\* Nobody works on a partial database.
WorksOnWholeDatabase == Startup!WorksOnWholeDatabase
\* The lock of a live process is kept.
LiveLockKept == Startup!LiveLockKept
\* A pause ends after an undisturbed window only.
ResumesAfterWindow == Governor!ResumesAfterWindow
=============================================================================
