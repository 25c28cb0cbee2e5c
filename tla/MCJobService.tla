---------------------------- MODULE MCJobService ----------------------------
(* Instances of JobService for TLC. *)
EXTENDS JobService

CONSTANTS a, b, x, y, k1, k2, b1

MCRequest(key, batch, source, auth, priority) ==
  [key |-> key, batch |-> batch, source |-> source, auth |-> auth,
   priority |-> priority, deadline |-> MaxTime]

\* A keyed request, which is repeated, and one of another source with the same auth state.
SharedAuth == {MCRequest(k1, NoBatch, a, x, 0), MCRequest(NoKey, NoBatch, b, x, 0)}
\* One that may be submitted again and again.
Repeatable == {MCRequest(NoKey, NoBatch, a, x, 0)}
\* A batch of two and a single request.
BatchOfTwo ==
  {MCRequest(k1, b1, a, x, 0), MCRequest(k2, b1, b, y, 0), MCRequest(NoKey, NoBatch, a, x, 0)}

\* The threads of a process do the same.
ThreadSymmetry == Permutations(Thread)
=============================================================================
