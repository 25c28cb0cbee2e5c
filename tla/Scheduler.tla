----------------------------- MODULE Scheduler ------------------------------
(***************************************************************************)
(* The in-process scheduler of xworkbench/jobs.py: the part of JobService  *)
(* that lives under its Condition.  Every action is a critical section of  *)
(* that condition, except the batch admission, whose loop is one action    *)
(* per item while it holds the lock.  What a worker does with the item it  *)
(* has taken is left to JobService.                                        *)
(***************************************************************************)
EXTENDS Integers, SequencesExt

CONSTANTS
  Item,      \* records [job, priority, source, auth] that callers may queue
  Worker,    \* the threads of the service
  MaxQueue,  \* max_queue
  Calls,     \* what callers pass: a sequence of items, one for submit and resume
  NoItem

Job      == {i.job : i \in Item}
Source   == {i.source : i \in Item}
Auth     == {i.auth : i \in Item}
Priority == {i.priority : i \in Item}
Lane     == Priority \X Source

ASSUME SchedulerAssumption ==
  /\ \A i \in Item : DOMAIN i = {"job", "priority", "source", "auth"}
  /\ IsFiniteSet(Item) /\ Priority \subseteq Nat
  /\ Calls \subseteq Seq(Item)
  /\ MaxQueue \in Nat \ {0}
  /\ NoItem \notin Item

VARIABLES
  lanes,          \* _pending: the deque of every priority and source
  order,          \* _source_order: the sources of a priority, in turn
  known,          \* _pending_jobs
  active,         \* _active_jobs
  activeSources,  \* _active_sources
  activeAuth,     \* _active_auth
  inbox,          \* the items that the holder of the lock has still to enqueue
  phase,          \* where every worker stands in JobService._worker
  held,           \* the item a worker has taken
  paused,         \* _resource_paused
  stop            \* "no", "set" (_stop_event) or "told" (and notified)

queueVars  == <<lanes, order, known>>
activeVars == <<active, activeSources, activeAuth, held>>
schedVars  == <<lanes, order, known, active, activeSources, activeAuth, inbox, phase, held,
                paused, stop>>

LaneOf(i) == <<i.priority, i.source>>
Jobs(S)   == {i.job : i \in S}
LockFree  == inbox = <<>>

\* _condition.notify_all(): every thread in a wait goes back to its loop.
Notified == [w \in Worker |-> IF phase[w] \in {"waiting", "dozing"} THEN "scanning" ELSE phase[w]]

Init ==
  /\ lanes = [l \in Lane |-> <<>>] /\ order = [p \in Priority |-> <<>>] /\ known = {}
  /\ active = {} /\ activeSources = {} /\ activeAuth = {}
  /\ inbox = <<>>
  /\ phase = [w \in Worker |-> "scanning"] /\ held = [w \in Worker |-> NoItem]
  /\ paused = FALSE /\ stop = "no"

-----------------------------------------------------------------------------
(* Enqueueing: submit and resume bring one item, submit_batch several       *)

Submit(items) ==
  /\ LockFree /\ items # <<>>
  /\ inbox' = items
  /\ UNCHANGED <<queueVars, activeVars, phase, paused, stop>>

\* Mutant: nobody is notified.
AdvanceQuietly ==
  /\ inbox' = Tail(inbox)
  /\ UNCHANGED <<activeVars, phase, paused, stop>>

\* The loop goes on with the next item and notifies after the last one.
Advance ==
  /\ inbox' = Tail(inbox)
  /\ phase' = IF Len(inbox) = 1 THEN Notified ELSE phase
  /\ UNCHANGED <<activeVars, paused, stop>>

IsKnown(i) == i.job \in Jobs(known) \union Jobs(active)

\* _enqueue_locked that returns False.
SkipKnown == inbox # <<>> /\ IsKnown(Head(inbox)) /\ Advance /\ UNCHANGED queueVars

\* Mutant: the source is put in the rotation again for every item.
EnqueueRepeatsTurn ==
  /\ inbox # <<>>
  /\ LET i == Head(inbox) IN
     /\ ~IsKnown(i) /\ Cardinality(known) < MaxQueue
     /\ lanes' = [lanes EXCEPT ![LaneOf(i)] = Append(@, i)]
     /\ order' = [order EXCEPT ![i.priority] = Append(@, i.source)]
     /\ known' = known \union {i}
  /\ Advance

\* _enqueue_locked that returns True: a source with an empty deque joins the
\* end of the rotation.
Enqueue ==
  /\ inbox # <<>>
  /\ LET i == Head(inbox) IN
     /\ ~IsKnown(i) /\ Cardinality(known) < MaxQueue
     /\ lanes' = [lanes EXCEPT ![LaneOf(i)] = Append(@, i)]
     /\ order' = IF lanes[LaneOf(i)] = <<>>
                   THEN [order EXCEPT ![i.priority] = Append(@, i.source)]
                   ELSE order
     /\ known' = known \union {i}
  /\ Advance

\* _enqueue_locked that raises QueueFullError: the rest of the loop and the
\* notification are skipped, the items already enqueued stay.
Overflow ==
  /\ inbox # <<>>
  /\ ~IsKnown(Head(inbox)) /\ Cardinality(known) >= MaxQueue
  /\ inbox' = <<>>
  /\ UNCHANGED <<queueVars, activeVars, phase, paused, stop>>

-----------------------------------------------------------------------------
(* Cancelling *)

IndexOf(s, e) == CHOOSE n \in DOMAIN s : s[n] = e

\* _remove_pending_locked
Removed(i) ==
  /\ lanes' = [lanes EXCEPT ![LaneOf(i)] = RemoveAt(@, IndexOf(@, i))]
  /\ order' = IF Len(lanes[LaneOf(i)]) = 1
                THEN [order EXCEPT ![i.priority] = RemoveAt(@, IndexOf(@, i.source))]
                ELSE order
  /\ known' = known \ {i}

\* The second half of cancel: whatever is found, everyone is notified.
Withdraw(j) ==
  /\ LockFree
  /\ IF j \in Jobs(known) THEN \E i \in known : i.job = j /\ Removed(i)
                          ELSE UNCHANGED queueVars
  /\ phase' = Notified
  /\ UNCHANGED <<activeVars, inbox, paused, stop>>

-----------------------------------------------------------------------------
(* The worker loop *)

\* Mutant: the auth state is not looked at.
FreeSource(i) == i.source \notin activeSources

Free(i) == i.source \notin activeSources /\ i.auth \notin activeAuth

Turn(p, k) == Head(lanes[<<p, order[p][k]>>])

\* The places in the rotation of p whose source may start its oldest item.
Open(p) == {k \in DOMAIN order[p] : Free(Turn(p, k))}

\* Mutant: the lowest priority goes first.
ChosenLowest(p, k) ==
  /\ k \in Open(p) /\ \A n \in Open(p) : k <= n
  /\ \A q \in Priority : q < p => Open(q) = {}

\* _next_job_locked: the highest priority that has an open place, and its first one.
Chosen(p, k) ==
  /\ k \in Open(p) /\ \A n \in Open(p) : k <= n
  /\ \A q \in Priority : q > p => Open(q) = {}

\* Mutant: a served source keeps its place.
RotatedInPlace(p, k) ==
  IF Len(lanes[<<p, order[p][k]>>]) > 1 THEN order[p] ELSE RemoveAt(order[p], k)

\* Mutant: the place is put back instead of the source.
RotatedByPlace(p, k) ==
  SubSeq(order[p], k + 1, Len(order[p])) \o SubSeq(order[p], 1, k - 1)
  \o (IF Len(lanes[<<p, order[p][k]>>]) > 1 THEN <<k>> ELSE <<>>)

\* The blocked sources before place k move behind those after it; the served
\* source follows if it has more.
Rotated(p, k) ==
  SubSeq(order[p], k + 1, Len(order[p])) \o SubSeq(order[p], 1, k - 1)
  \o (IF Len(lanes[<<p, order[p][k]>>]) > 1 THEN <<order[p][k]>> ELSE <<>>)

Scanning(w) == LockFree /\ phase[w] = "scanning"

\* The phases after a scan that ends in `to`: a governor that leaves its
\* pause notifies the other threads.
PhasesAfterScan(w, to) == [IF paused THEN Notified ELSE phase EXCEPT ![w] = to]

\* The governor lets the scan pass and a source is open.
Dispatch(w) ==
  /\ Scanning(w) /\ stop = "no" /\ paused' = FALSE
  /\ \E p \in Priority : \E k \in DOMAIN order[p] :
       /\ Chosen(p, k)
       /\ LET i == Turn(p, k) IN
          /\ lanes' = [lanes EXCEPT ![LaneOf(i)] = Tail(@)]
          /\ order' = [order EXCEPT ![p] = Rotated(p, k)]
          /\ known' = known \ {i}
          /\ active' = active \union {i}
          /\ activeSources' = activeSources \union {i.source}
          /\ activeAuth' = activeAuth \union {i.auth}
          /\ held' = [held EXCEPT ![w] = i]
  /\ phase' = PhasesAfterScan(w, "busy")
  /\ UNCHANGED <<inbox, stop>>

\* Nothing is open: wait without a timeout.  The governor is asked only
\* while something is pending.
Sleep(w) ==
  /\ Scanning(w) /\ stop = "no"
  /\ \A p \in Priority : Open(p) = {}
  /\ IF known = {} THEN phase' = [phase EXCEPT ![w] = "waiting"] /\ UNCHANGED paused
     ELSE phase' = PhasesAfterScan(w, "waiting") /\ paused' = FALSE
  /\ UNCHANGED <<queueVars, activeVars, inbox, stop>>

\* The governor pauses the start of captures: wait a quarter of a second.
Doze(w) ==
  /\ Scanning(w) /\ stop = "no" /\ known # {}
  /\ paused' = TRUE
  /\ phase' = [phase EXCEPT ![w] = "dozing"]
  /\ UNCHANGED <<queueVars, activeVars, inbox, stop>>

DozeOver(w) ==
  /\ phase[w] = "dozing"
  /\ phase' = [phase EXCEPT ![w] = "scanning"]
  /\ UNCHANGED <<queueVars, activeVars, inbox, paused, stop>>

\* The finally clause of _worker.
Done(w) ==
  /\ LockFree /\ phase[w] = "busy"
  /\ active' = {i \in active : i.job # held[w].job}
  /\ activeSources' = activeSources \ {held[w].source}
  /\ activeAuth' = activeAuth \ {held[w].auth}
  /\ held' = [held EXCEPT ![w] = NoItem]
  /\ phase' = [Notified EXCEPT ![w] = "scanning"]
  /\ UNCHANGED <<queueVars, inbox, paused, stop>>

-----------------------------------------------------------------------------
(* Shutdown sets the event first and notifies under the lock afterwards     *)

SetStop ==
  /\ stop = "no" /\ stop' = "set"
  /\ UNCHANGED <<queueVars, activeVars, inbox, phase, paused>>

\* Mutant: nobody is notified.
TellStopQuietly ==
  /\ LockFree /\ stop = "set" /\ stop' = "told"
  /\ UNCHANGED <<queueVars, activeVars, inbox, phase, paused>>

TellStop ==
  /\ LockFree /\ stop = "set" /\ stop' = "told"
  /\ phase' = Notified
  /\ UNCHANGED <<queueVars, activeVars, inbox, paused>>

Exit(w) ==
  /\ Scanning(w) /\ stop # "no"
  /\ phase' = [phase EXCEPT ![w] = "exited"]
  /\ UNCHANGED <<queueVars, activeVars, inbox, paused, stop>>

EnqueueStep == SkipKnown \/ Enqueue \/ Overflow
WorkerStep(w) == Dispatch(w) \/ Sleep(w) \/ Doze(w) \/ DozeOver(w) \/ Done(w) \/ Exit(w)

Next ==
  \/ \E items \in Calls : Submit(items)
  \/ EnqueueStep
  \/ \E j \in Job : Withdraw(j)
  \/ \E w \in Worker : WorkerStep(w)
  \/ SetStop \/ TellStop

Spec == Init /\ [][Next]_schedVars

\* What a worker does when it gets the condition, but for a pause of the governor.
Progress(w) == Dispatch(w) \/ Sleep(w) \/ Done(w) \/ Exit(w)

\* A thread that keeps asking for the condition gets it, captures end, and the
\* governor does not pause for ever.
Fairness ==
  /\ WF_schedVars(EnqueueStep) /\ SF_schedVars(TellStop)
  /\ \A w \in Worker : SF_schedVars(Progress(w)) /\ WF_schedVars(DozeOver(w))

FairSpec == Spec /\ Fairness

-----------------------------------------------------------------------------
(* Properties *)

\* Every variable holds a value of its domain.
TypeOK ==
  /\ lanes \in [Lane -> Seq(Item)] /\ order \in [Priority -> Seq(Source)]
  /\ known \subseteq Item /\ active \subseteq Item
  /\ activeSources \subseteq Source /\ activeAuth \subseteq Auth
  /\ inbox \in Seq(Item)
  /\ phase \in [Worker -> {"scanning", "waiting", "dozing", "busy", "exited"}]
  /\ held \in [Worker -> Item \union {NoItem}]
  /\ paused \in BOOLEAN /\ stop \in {"no", "set", "told"}

\* The three indexes of the queue agree: the deques hold exactly the known
\* items, once each and in the deque of their priority and source, and the
\* rotation of a priority lists exactly the sources that have waiting items,
\* once each.  An index that lags behind makes _next_job_locked raise or
\* forget a job.
IndexesAgree ==
  /\ \A l \in Lane : \A n \in DOMAIN lanes[l] : lanes[l][n] \in known /\ LaneOf(lanes[l][n]) = l
  /\ \A i \in known : \E n \in DOMAIN lanes[LaneOf(i)] : lanes[LaneOf(i)][n] = i
  /\ \A l \in Lane : \A m, n \in DOMAIN lanes[l] : lanes[l][m] = lanes[l][n] => m = n
  /\ \A p \in Priority, s \in Source :
       lanes[<<p, s>>] # <<>> <=> \E n \in DOMAIN order[p] : order[p][n] = s
  /\ \A p \in Priority : \A m, n \in DOMAIN order[p] : order[p][m] = order[p][n] => m = n
  /\ \A i, k \in known \union active : i.job = k.job => i = k
  /\ known \intersect active = {}

\* One active capture per job, source and auth state, and the three active
\* sets are exactly what the busy workers hold: nothing stays taken behind a
\* worker that is done.
ExclusiveSlots ==
  /\ \A v, w \in Worker : held[v] # NoItem /\ held[w] # NoItem /\ v # w =>
       held[v].source # held[w].source /\ held[v].auth # held[w].auth
       /\ held[v].job # held[w].job
  /\ \A w \in Worker : phase[w] = "busy" <=> held[w] # NoItem
  /\ active = {held[w] : w \in Worker} \ {NoItem}
  /\ activeSources = {i.source : i \in active} /\ activeAuth = {i.auth : i \in active}

\* A worker waits, without a timeout, beside an item that it could start.
MissesWork == (\E w \in Worker : phase[w] = "waiting") /\ (\E p \in Priority : Open(p) # {})

\* No notification is missed: no step that gives the lock back, or works under
\* it alone, leaves a worker waiting beside an item that it could start.  The
\* exception is a batch that overflows: its first items are queued, and the
\* error skips the notification; what it leaves lasts until the next one.
NoMissedWakeup ==
  [][LockFree' /\ MissesWork' => Overflow \/ (LockFree /\ MissesWork)]_schedVars

\* A shutdown reaches every worker, whatever it waits for.
ShutdownReachesAll == stop = "told" ~> \A w \in Worker : phase[w] = "exited"

TopPriority(i) == \A k \in Item : k.priority <= i.priority
Starts(i) == i \in known ~> i \notin known \/ stop # "no"

\* "rotates sources at equal priority": an item of the highest priority is not
\* passed over for ever.
TopItemsStart == \A i \in Item : TopPriority(i) => Starts(i)

\* No other source has an item with the auth state of one of source s.
OwnsAuth(s) == \A i, k \in Item : i.source = s /\ k.auth = i.auth => k.source = s

\* What the rotation keeps of that promise: such an item starts if its source
\* shares no auth state, however many workers take jobs.
OwnersStart == \A i \in Item : TopPriority(i) /\ OwnsAuth(i.source) => Starts(i)

\* The lanes and the running items behave as CaptureQueue says: first in,
\* first out within a priority and source, one capture per source and auth
\* state, and never a lower priority while a higher one could be served.
Queue == INSTANCE CaptureQueue
QueueSpec == Queue!Spec
=============================================================================
