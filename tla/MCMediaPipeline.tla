-------------------------- MODULE MCMediaPipeline ---------------------------
(* Finite instances of MediaPipeline for TLC. *)
EXTENDS MediaPipeline, TLC

CONSTANTS k1, k2, c1, c2, small, other, large

\* Two contents of one size, so that an overwrite can keep the declared size.
MCSizeOf == (small :> 1) @@ (other :> 1) @@ (large :> 2)
MCSymmetry == Permutations({k1, k2}) \cup Permutations({c1, c2})

MCOneAttempt == [s \in Stages |-> 1]
MCTwoAttempts == [s \in Stages |-> 2]

=============================================================================
