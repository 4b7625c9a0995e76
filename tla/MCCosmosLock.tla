---------------------------- MODULE MCCosmosLock ----------------------------
(* Two clients, any of which may take the fallback. *)
EXTENDS CosmosLock

CONSTANTS a, b

MCTwo == {a, b}
MCMixtures == SUBSET Proc
MCEtag == 1 .. 4
=============================================================================
