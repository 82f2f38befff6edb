---------------------------- MODULE MCRendezvous ----------------------------
(***************************************************************************)
(* Two challengers for a node with room for one; one of them may challenge *)
(* it a second time.                                                       *)
(***************************************************************************)
EXTENDS Rendezvous, TLC

CONSTANTS c1, c2

MCAttempts == c1 :> 2 @@ c2 :> 1

MCAttemptsOnce == c1 :> 1
=============================================================================
