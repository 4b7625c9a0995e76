--------------------------- MODULE MCEventEmitter ---------------------------
(* Listeners are interchangeable. *)
EXTENDS EventEmitter, TLC

MCSymmetry == Permutations(Listener)
=============================================================================
