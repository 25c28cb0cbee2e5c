----------------------------- MODULE MCJobStore -----------------------------
(* Instances of JobStore for TLC. *)
EXTENDS JobStore

CONSTANTS a, b, autha, authb, k1, k2, b1, w1, w2, p1, p2

MCRequest(key, batch, source, auth, deadline) ==
  [key |-> key, batch |-> batch, source |-> source, auth |-> auth,
   priority |-> 0, deadline |-> deadline]

\* A batch of two that shares an auth state, with deadlines of its own, and
\* two single requests: one that reuses a key of the batch and one that may
\* be submitted again and again.
AdmissionRequests ==
  {MCRequest(k1, b1, a, autha, 2), MCRequest(k2, b1, b, autha, 3),
   MCRequest(k1, NoBatch, b, authb, 2), MCRequest(NoKey, NoBatch, a, autha, 3)}

CaptureRequests == {MCRequest(NoKey, NoBatch, a, autha, 2)}

MCLegacyRequest == MCRequest(NoKey, NoBatch, a, autha, 2)
=============================================================================
