--------------------------- MODULE SlidingWindow ---------------------------
(***************************************************************************)
(* The window of recent instants that the rate limiters and rate detectors *)
(* keep: the webhooks, the NIC flap detector, the OOM storm detector and   *)
(* the PCIe error rate.                                                    *)
(***************************************************************************)
EXTENDS Integers, Sequences, FiniteSetsExt

\* Entries are popped at the front while they lie more than span before t.
Recent(w, t, span) ==
    LET recent == {i \in DOMAIN w : t - w[i] <= span}
    IN  IF recent = {} THEN <<>> ELSE SubSeq(w, Min(recent), Len(w))
=============================================================================
