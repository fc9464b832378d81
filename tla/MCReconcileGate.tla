-------------------------- MODULE MCReconcileGate --------------------------
(***************************************************************************)
(* Two workers and three requests, two of which share a gate key.          *)
(***************************************************************************)
EXTENDS ReconcileGate

CONSTANTS w1, w2, ra1, ra2, rb, nsA, nsB

MCWorkers == {w1, w2}
MCRequests == {ra1, ra2, rb}
MCKeys == {nsA, nsB}
MCKeyOf == [r \in MCRequests |-> IF r = rb THEN nsB ELSE nsA]

=============================================================================
