---------------------------- MODULE MCScheduler -----------------------------
(* Instances of Scheduler for TLC. *)
EXTENDS Scheduler

CONSTANTS a, b, c, x, y

MCItem(job, priority, source, auth) ==
  [job |-> job, priority |-> priority, source |-> source, auth |-> auth]

\* Sources a and b share the auth state x, c has its own; job 3 may come back
\* with priority 0, as a resumed job does.
MixedItems ==
  {MCItem(1, 1, a, x), MCItem(2, 1, b, x), MCItem(3, 1, c, y), MCItem(4, 1, a, x), MCItem(4, 0, a, x), MCItem(5, 1, c, y)}

\* Two jobs of a and one of b share x; c uses y.
ThreeSources == {MCItem(1, 1, a, x), MCItem(2, 1, a, x), MCItem(3, 1, b, x), MCItem(4, 1, c, y)}

Singles == {<<i>> : i \in Item}

\* Batches of two different jobs, the first one free to start beside the others.
Batches ==
  Singles \union {s \in {<<i, k>> : i, k \in Item} : s[1].job = 3 /\ s[2].job # 3}
=============================================================================
