--------------------------- MODULE ResourceGovernor ---------------------------
(***************************************************************************)
(* JobService._resource_ready_locked of xworkbench/jobs.py: a worker asks  *)
(* it before every lease.  It samples two signals of the process, pauses   *)
(* when one is over its threshold and resumes after a recovery window.     *)
(***************************************************************************)
EXTENDS Integers

CONSTANTS
  Interval, \* instants between two samples, 0.25 s
  Window,   \* resource_recovery_seconds
  MaxTime   \* bound of the clock

VARIABLES
  now,         \* the monotonic clock
  nextAt,      \* when the next sample is due
  paused,      \* no lease is given
  tripped,     \* the signals of the last sample over a threshold
  since,       \* start of the recovery window
  disturbedAt  \* when the recovery was last disturbed

vars == <<now, nextAt, paused, tripped, since, disturbedAt>>

Signal == {"rss", "cpu"}
\* What the probe says of a signal; a failed probe supports none.
Level  == {"low", "over", "unsupported"}
Never  == -1

Init ==
  /\ now = 0 /\ nextAt = 0 /\ paused = FALSE /\ tripped = {}
  /\ since = Never /\ disturbedAt = Never

Tick == now < MaxTime /\ now' = now + 1 /\ UNCHANGED <<nextAt, paused, tripped, since, disturbedAt>>

\* Mutant: a clock that fails leaves the window open.
ClockIgnored ==
  /\ disturbedAt' = IF paused THEN now ELSE disturbedAt
  /\ UNCHANGED <<now, nextAt, paused, tripped, since>>

\* The clock fails: no sample, and a pause starts its window again.
ClockFails ==
  /\ disturbedAt' = IF paused THEN now ELSE disturbedAt
  /\ since' = IF paused THEN Never ELSE since
  /\ UNCHANGED <<now, nextAt, paused, tripped>>

\* A sample over a threshold pauses, whatever was paused before; in a pause, a
\* signal that tripped and is not supported any more restarts the window.
Sample(level) ==
  LET over == {s \in Signal : level[s] = "over"}
      lost == \E s \in tripped : level[s] = "unsupported" IN
  /\ now >= nextAt
  /\ nextAt' = now + Interval
  /\ \/ /\ over # {}
        /\ paused' = TRUE /\ tripped' = over /\ since' = Never /\ disturbedAt' = now
     \/ /\ over = {} /\ ~paused
        /\ UNCHANGED <<paused, tripped, since, disturbedAt>>
     \/ /\ over = {} /\ paused /\ lost
        /\ since' = Never /\ disturbedAt' = now
        /\ UNCHANGED <<paused, tripped>>
     \/ /\ over = {} /\ paused /\ ~lost /\ since = Never
        /\ since' = now
        /\ UNCHANGED <<paused, tripped, disturbedAt>>
     \/ /\ over = {} /\ paused /\ ~lost /\ since # Never
        /\ IF now - since >= Window
             THEN paused' = FALSE /\ tripped' = {} /\ since' = Never
             ELSE UNCHANGED <<paused, tripped, since>>
        /\ UNCHANGED disturbedAt
  /\ UNCHANGED now

Next == Tick \/ ClockFails \/ \E level \in [Signal -> Level] : Sample(level)

Spec == Init /\ [][Next]_vars

-----------------------------------------------------------------------------
(* Properties *)

\* Leases are given again only after a whole recovery window in which no
\* sample was over a threshold, no signal that tripped was missing and no
\* clock failed.
ResumesAfterWindow ==
  [][paused /\ ~paused' => now - disturbedAt >= Window]_vars
=============================================================================
