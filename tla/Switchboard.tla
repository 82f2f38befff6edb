---------------------------- MODULE Switchboard ----------------------------
(***************************************************************************)
(* What the contract server promises ("you can think of this server as     *)
(* working similar to a switch board operator", contract_server.py:4): the *)
(* parties of a deal are told READY together, once, and after each of them *)
(* has joined.  It does not promise that both hear it.                     *)
(***************************************************************************)
CONSTANTS
    Party,     \* whoever joins a deal
    Deals      \* sets of parties that belong together

VARIABLES
    joined,    \* parties the server has heard of
    ready      \* ready[p]: was READY sent to p, or lost?

boardVars == <<joined, ready>>

Init ==
    /\ joined = {}
    /\ ready = [p \in Party |-> "none"]

(***************************************************************************)
(* The parties are told when the last of them joins, in the same step.     *)
(***************************************************************************)
Announce(deal) ==
    /\ deal \subseteq joined'
    /\ \A p \in deal : ready[p] = "none"
    /\ \E told \in [deal -> {"sent", "lost"}] :
           ready' = [p \in Party |-> IF p \in deal THEN told[p] ELSE ready[p]]

Join(p) ==
    /\ p \notin joined
    /\ joined' = joined \cup {p}
    /\ \/ UNCHANGED ready
       \/ \E deal \in Deals : p \in deal /\ Announce(deal)

Next == \E p \in Party : Join(p)

Spec == Init /\ [][Next]_boardVars
=============================================================================
