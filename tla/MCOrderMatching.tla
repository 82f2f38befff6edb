-------------------------- MODULE MCOrderMatching --------------------------
(***************************************************************************)
(* Two buyers and two sellers on three nodes.  Both buyers fit both orders *)
(* in amount and price; one of them asks one seller a second time, the     *)
(* other meets an order of its own node.                                   *)
(***************************************************************************)
EXTENDS OrderMatching, TLC

CONSTANTS n1, n2, n3, b1, b2, s1, s2

MCHome == b1 :> n1 @@ b2 :> n2 @@ s1 :> n3 @@ s2 :> n2
MCAmount == b1 :> 2 @@ b2 :> 2 @@ s1 :> 2 @@ s2 :> 2
MCPrice == b1 :> 3 @@ b2 :> 2 @@ s1 :> 1 @@ s2 :> 2
MCAttempts == <<b1, s1>> :> 2 @@ <<b1, s2>> :> 1 @@ <<b2, s1>> :> 1 @@ <<b2, s2>> :> 1
=============================================================================
