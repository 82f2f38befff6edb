------------------------------ MODULE SafeSwap ------------------------------
(***************************************************************************)
(* What the exchange of refunds and setup transactions is for, without any *)
(* message: in which order the two parties may commit themselves.  A party *)
(* that has put its coins under a contract gets them back with a refund the*)
(* peer has signed; only a party that holds one hands out its setup TX, and*)
(* nobody pays before both refunds are signed, or against a setup TX of the*)
(* peer it does not hold.                                                  *)
(***************************************************************************)
EXTENDS Amounts

VARIABLES
    funded,       \* parties whose setup TX has confirmed
    secured,      \* parties that hold a refund signed by the peer
    disclosed,    \* parties whose setup TX the peer holds
    paying,       \* parties that have signed a payment away
    settled       \* parties that broadcast the last payment they received

swapVars == <<funded, secured, disclosed, paying, settled>>

Init ==
    /\ funded = {}
    /\ secured = {}
    /\ disclosed = {}
    /\ paying = {}
    /\ settled = {}

Fund(p) ==
    /\ p \notin funded
    /\ funded' = funded \cup {p}
    /\ UNCHANGED <<secured, disclosed, paying, settled>>

(***************************************************************************)
(* The seller is first, and both parties have funded the contract by then. *)
(***************************************************************************)
Secure(p) ==
    /\ p \notin secured
    /\ funded = Node
    /\ p = "buyer" => "seller" \in secured
    /\ secured' = secured \cup {p}
    /\ UNCHANGED <<funded, disclosed, paying, settled>>

(***************************************************************************)
(* The buyer answers the seller's request first.                           *)
(***************************************************************************)
Disclose(p) ==
    /\ p \notin disclosed
    /\ secured = Node
    /\ disclosed' = disclosed \cup {p}
    /\ UNCHANGED <<funded, secured, paying, settled>>

(***************************************************************************)
(* The first payment of the seller may overtake its setup TX on the wire's *)
(* other end, but nobody pays against a setup TX it does not hold.         *)
(***************************************************************************)
Pay(p) ==
    /\ p \notin paying
    /\ Other(p) \in disclosed
    /\ p = "buyer" => "seller" \in paying
    /\ paying' = paying \cup {p}
    /\ UNCHANGED <<funded, secured, disclosed, settled>>

Settle(p) ==
    /\ p \notin settled
    /\ paying = Node
    /\ settled' = settled \cup {p}
    /\ UNCHANGED <<funded, secured, disclosed, paying>>

Next == \E p \in Node : Fund(p) \/ Secure(p) \/ Disclose(p) \/ Pay(p) \/ Settle(p)

Spec == Init /\ [][Next]_swapVars
=============================================================================
