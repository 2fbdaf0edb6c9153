-------------------------- MODULE MCProcessHandles --------------------------
(***************************************************************************)
(* ProcessHandles, small enough for TLC.  No property of it is about       *)
(* liveness, and no constant is told apart from the others of its kind.    *)
(***************************************************************************)
EXTENDS ProcessHandles, TLC

MCSymmetry ==
    Permutations(Others) \cup Permutations(Handles) \cup Permutations(Objects)
        \cup Permutations(Places)

=============================================================================
