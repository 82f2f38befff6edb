------------------------------ MODULE Pairing ------------------------------
(***************************************************************************)
(* What the matching of orders promises the rest of the program: a trade   *)
(* is bound to at most one counterparty, for good.  A seller binds itself  *)
(* first, to the buyer whose request it takes; a buyer only to a seller    *)
(* that is bound to it.  The seller may be left alone: no step takes its   *)
(* promise back.                                                           *)
(***************************************************************************)
EXTENDS Integers

CONSTANTS Buyer, Seller, Amount, Price, Nobody

VARIABLES
    partner,      \* the buyer a seller is bound to
    deal          \* the seller a buyer is bound to

Compatible(b, s) == Amount[b] = Amount[s] /\ Price[b] >= Price[s]

Init ==
    /\ partner = [s \in Seller |-> Nobody]
    /\ deal = [b \in Buyer |-> Nobody]

SellerCommits(s, b) ==
    /\ partner[s] = Nobody
    /\ Compatible(b, s)
    /\ partner' = [partner EXCEPT ![s] = b]
    /\ UNCHANGED deal

BuyerCommits(b, s) ==
    /\ deal[b] = Nobody
    /\ partner[s] = b
    /\ deal' = [deal EXCEPT ![b] = s]
    /\ UNCHANGED partner

Next == \E b \in Buyer, s \in Seller : SellerCommits(s, b) \/ BuyerCommits(b, s)

Spec == Init /\ [][Next]_<<partner, deal>>
=============================================================================
