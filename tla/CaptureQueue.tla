---------------------------- MODULE CaptureQueue ----------------------------
(***************************************************************************)
(* What the in-process scheduler of xworkbench/jobs.py promises, without   *)
(* its indexes, its rotation and its threads: captures wait in lanes, a    *)
(* lane per priority and source, and leave a lane in the order in which    *)
(* they entered it.  Scheduler implements this module.                     *)
(***************************************************************************)
EXTENDS Integers, Sequences

CONSTANTS
  Item,     \* what may be queued: a job with its priority, source and auth state
  MaxQueue  \* how many items may wait

Job      == {i.job : i \in Item}
Source   == {i.source : i \in Item}
Auth     == {i.auth : i \in Item}
Priority == {i.priority : i \in Item}
Lane     == Priority \X Source

LaneOf(i) == <<i.priority, i.source>>

VARIABLES
  lanes,  \* the waiting items, in order of arrival
  active  \* the items that a worker has taken

queueVars == <<lanes, active>>

Waiting == UNION {{lanes[l][n] : n \in DOMAIN lanes[l]} : l \in Lane}

Init == lanes = [l \in Lane |-> <<>>] /\ active = {}

\* An item whose job neither waits nor runs enters its lane at the end.
Arrive(i) ==
  /\ \A k \in Waiting \union active : k.job # i.job
  /\ lanes' = [lanes EXCEPT ![LaneOf(i)] = Append(@, i)]
  /\ UNCHANGED active

\* An item leaves its lane; the others keep their order.
Withdraw(l, n) ==
  /\ lanes' = [lanes EXCEPT ![l] = SubSeq(@, 1, n - 1) \o SubSeq(@, n + 1, Len(@))]
  /\ UNCHANGED active

\* No running item uses the source or the auth state of i.
Free(i) == \A k \in active : k.source # i.source /\ k.auth # i.auth

Servable(l) == lanes[l] # <<>> /\ Free(Head(lanes[l]))

\* The oldest item of a lane starts when nothing runs for its source or its
\* auth state and no lane of a higher priority could be served instead.
Serve(l) ==
  /\ Servable(l)
  /\ \A m \in Lane : m[1] > l[1] => ~Servable(m)
  /\ lanes' = [lanes EXCEPT ![l] = Tail(@)]
  /\ active' = active \union {Head(lanes[l])}

Complete(i) == active' = active \ {i} /\ UNCHANGED lanes

Next ==
  \/ \E i \in Item : Arrive(i)
  \/ \E l \in Lane : Serve(l) \/ \E n \in DOMAIN lanes[l] : Withdraw(l, n)
  \/ \E i \in active : Complete(i)

Spec == Init /\ [][Next]_queueVars
=============================================================================
