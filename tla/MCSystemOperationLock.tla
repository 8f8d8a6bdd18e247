----------------------- MODULE MCSystemOperationLock -----------------------
(* Small instances of SystemOperationLock. *)
EXTENDS SystemOperationLock, TLC

CONSTANTS update, rollback, restart

TwoOps   == {update, rollback}
ThreeOps == {update, rollback, restart}
Symmetry == Permutations(ThreeOps)
=============================================================================
