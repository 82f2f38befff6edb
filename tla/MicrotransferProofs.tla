------------------------ MODULE MicrotransferProofs -------------------------
(***************************************************************************)
(* Microtransfer holds its promises for every size of contract and chunk,  *)
(* whenever the connection breaks.  The argument: offers alternate, so at  *)
(* most one is in flight, and who has to send next is decided by comparing *)
(* how often the two sides have advanced.                                  *)
(***************************************************************************)
EXTENDS Microtransfer, TLAPS

-----------------------------------------------------------------------------
(* The arithmetic of chunks.                                               *)

(***************************************************************************)
(* One more chunk of NextChunk after k of them makes k + 1 of them.        *)
(***************************************************************************)
LEMMA PaidStep ==
    ASSUME NEW total \in Nat, NEW chunk \in Nat \ {0}, NEW k \in Nat
    PROVE  /\ PaidAfter(total, chunk, k) \in Nat
           /\ PaidAfter(total, chunk, k) <= total
           /\ NextChunk(total, PaidAfter(total, chunk, k), chunk) \in 0 .. chunk
           /\ PaidAfter(total, chunk, k + 1)
                = PaidAfter(total, chunk, k)
                    + NextChunk(total, PaidAfter(total, chunk, k), chunk)
<1> DEFINE kc == k * chunk
<1>1. kc \in Nat /\ (k + 1) * chunk = kc + chunk
  OBVIOUS
<1> HIDE DEF kc
<1>2. PaidAfter(total, chunk, k) = IF kc > total THEN total ELSE kc
  BY DEF PaidAfter, kc
<1>3. PaidAfter(total, chunk, k + 1) = IF kc + chunk > total THEN total ELSE kc + chunk
  BY <1>1 DEF PaidAfter
<1>4. QED
  BY <1>1, <1>2, <1>3 DEF NextChunk

LEMMA PaidNothing ==
    ASSUME NEW total \in Nat, NEW chunk \in Nat \ {0}
    PROVE  PaidAfter(total, chunk, 0) = 0
BY DEF PaidAfter

-----------------------------------------------------------------------------
(* The inductive invariant.                                                *)

(***************************************************************************)
(* The totals of a party are a number of whole chunks, and its download is *)
(* what it counts as received.                                             *)
(***************************************************************************)
Totals ==
    /\ \A p \in Node : sent[p] = Paid(p, rounds[p])
    /\ recv["buyer"] = Paid("seller", rounds["buyer"])
    /\ recv["seller"] = Paid("buyer", Before(rounds["seller"]))
    /\ \A p \in Node : download[p] = recv[p]

(***************************************************************************)
(* The seller is level with the buyer or one chunk ahead of it.  An offer  *)
(* in flight names the newest total of its sender, and is its receiver's   *)
(* turn.                                                                   *)
(***************************************************************************)
Turns ==
    /\ rounds["seller"] \in {rounds["buyer"], rounds["buyer"] + 1}
    /\ mode["seller"] = "initiate" <=> rounds["seller"] = 0
    /\ \A p \in Node : offers[p] \in {<<>>, <<sent[Other(p)]>>}
    /\ offers["buyer"] # <<>> => rounds["seller"] = rounds["buyer"] + 1
    /\ offers["seller"] # <<>> => rounds["seller"] = rounds["buyer"] /\ rounds["buyer"] > 0

(***************************************************************************)
(* Who is complete has sent and received everything.                       *)
(***************************************************************************)
CompleteMeansAll ==
    \A p \in Node : mode[p] = "complete" => sent[p] = terms.upload[p] /\ recv[p] = Download(p)

IInv == TypeOK /\ Totals /\ Turns /\ CompleteMeansAll

-----------------------------------------------------------------------------
(* The actions preserve it.                                                *)

LEMMA Parties ==
    /\ "buyer" \in Node /\ "seller" \in Node /\ "buyer" # "seller"
    /\ Other("buyer") = "seller" /\ Other("seller") = "buyer"
    /\ \A p \in Node : Other(p) \in Node /\ Other(Other(p)) = p /\ Other(p) # p
    /\ \A p \in Node : p = "buyer" \/ p = "seller"
BY DEF Node, Other

LEMMA Singletons ==
    ASSUME NEW x \in Nat
    PROVE  /\ <<x>> \in Seq(Nat) /\ <<>> \in Seq(Nat) /\ <<x>> # <<>>
           /\ Head(<<x>>) = x
           /\ Tail(<<x>>) = <<>>
           /\ Append(<<>>, x) = <<x>>
OBVIOUS

(***************************************************************************)
(* The terms of a typical state are those PaidStep is about.               *)
(***************************************************************************)
LEMMA PaidFacts ==
    ASSUME TypeOK, NEW p \in Node, NEW k \in Nat
    PROVE  /\ terms.upload[p] \in Nat /\ terms.chunk[p] \in Nat \ {0}
           /\ Paid(p, k) \in Nat
           /\ Paid(p, k) <= terms.upload[p]
           /\ NextChunk(terms.upload[p], Paid(p, k), terms.chunk[p]) \in 0 .. terms.chunk[p]
           /\ Paid(p, k + 1)
                = Paid(p, k) + NextChunk(terms.upload[p], Paid(p, k), terms.chunk[p])
           /\ Paid(p, 0) = 0
<1>1. terms.upload[p] \in Nat /\ terms.chunk[p] \in Nat \ {0}
  BY SizesAssumption DEF TypeOK, Terms
<1>2. QED
  BY <1>1, PaidStep, PaidNothing DEF Paid

(***************************************************************************)
(* What adjust_refund_tx() adds to the totals: always the next chunk.      *)
(***************************************************************************)
LEMMA NextTotals ==
    ASSUME IInv, NEW p \in Node
    PROVE  /\ rounds[p] \in Nat
           /\ sent[p] + SendChunk(p) = Paid(p, rounds[p] + 1)
           /\ p = "buyer" => recv[p] + RecvChunk(p) = Paid("seller", rounds[p] + 1)
           /\ p = "seller" /\ rounds[p] > 0 =>
                  recv[p] + RecvChunk(p) = Paid("buyer", rounds[p])
<1>1. rounds[p] \in Nat
  BY DEF IInv, TypeOK
<1>2. sent[p] + SendChunk(p) = Paid(p, rounds[p] + 1)
  BY <1>1, PaidFacts DEF IInv, Totals, SendChunk
<1>3. ASSUME p = "buyer"
      PROVE  recv[p] + RecvChunk(p) = Paid("seller", rounds[p] + 1)
  BY <1>1, <1>3, PaidFacts, Parties DEF IInv, Totals, RecvChunk, Download
<1>4. ASSUME p = "seller", rounds[p] > 0
      PROVE  recv[p] + RecvChunk(p) = Paid("buyer", rounds[p])
  <2>1. Before(rounds[p]) \in Nat /\ rounds[p] = Before(rounds[p]) + 1
    BY <1>1, <1>4 DEF Before
  <2>2. QED
    BY <2>1, <1>4, PaidFacts, Parties DEF IInv, Totals, RecvChunk, Download
<1>5. QED
  BY <1>1, <1>2, <1>3, <1>4

(***************************************************************************)
(* Losing or ignoring offers leaves the turns as they are.                 *)
(***************************************************************************)
LEMMA FewerOffers ==
    ASSUME Turns, rounds' = rounds, sent' = sent, mode' = mode,
           \A n \in Node : offers'[n] = <<>> \/ offers'[n] = offers[n]
    PROVE  Turns'
<1>1. /\ rounds'["seller"] \in {rounds'["buyer"], rounds'["buyer"] + 1}
      /\ mode'["seller"] = "initiate" <=> rounds'["seller"] = 0
  BY DEF Turns
<1>2. \A n \in Node : offers'[n] \in {<<>>, <<sent'[Other(n)]>>}
  BY DEF Turns
<1>3. offers'["buyer"] # <<>> => rounds'["seller"] = rounds'["buyer"] + 1
  <2>1. offers'["buyer"] # <<>> => offers["buyer"] # <<>>
    BY Parties
  <2>2. QED
    BY <2>1 DEF Turns
<1>4. offers'["seller"] # <<>> => rounds'["seller"] = rounds'["buyer"] /\ rounds'["buyer"] > 0
  <2>1. offers'["seller"] # <<>> => offers["seller"] # <<>>
    BY Parties
  <2>2. QED
    BY <2>1 DEF Turns
<1>5. QED
  BY <1>1, <1>2, <1>3, <1>4 DEF Turns

LEMMA InitIInv == Init => IInv
<1> SUFFICES ASSUME Init PROVE IInv
  OBVIOUS
<1>1. TypeOK
  BY Singletons DEF Init, TypeOK
<1>2. Totals
  BY <1>1, PaidFacts, Parties DEF Init, Totals, Before
<1>3. Turns
  BY Parties DEF Init, Turns
<1>4. CompleteMeansAll
  BY DEF Init, CompleteMeansAll
<1>5. QED
  BY <1>1, <1>2, <1>3, <1>4 DEF IInv

LEMMA InitiateIInv ==
    ASSUME IInv, Initiate
    PROVE  IInv'
<1> USE Parties DEF Initiate, Advance
<1>1. rounds = [rounds EXCEPT !["seller"] = 0] /\ rounds["seller"] = 0 /\ rounds["buyer"] = 0
  BY DEF IInv, Turns, TypeOK
<1>2. offers["buyer"] = <<>> /\ offers["seller"] = <<>>
  BY <1>1, Singletons DEF IInv, Turns, Totals, TypeOK
<1>3. sent'["seller"] = Paid("seller", 1) /\ Paid("seller", 1) \in Nat
  <2>1. sent'["seller"] = sent["seller"] + SendChunk("seller")
    BY DEF IInv, TypeOK
  <2>2. sent["seller"] + SendChunk("seller") = Paid("seller", rounds["seller"] + 1)
    BY NextTotals
  <2>3. rounds["seller"] + 1 = 1
    BY <1>1
  <2>4. Paid("seller", 1) \in Nat
    BY PaidFacts DEF IInv
  <2>5. QED
    BY <2>1, <2>2, <2>3, <2>4
<1>4. offers' = [offers EXCEPT !["buyer"] = IF link THEN <<sent'["seller"]>> ELSE <<>>]
  BY <1>2, <1>3, Singletons
<1>a. /\ sent' = [sent EXCEPT !["seller"] = Paid("seller", 1)]
      /\ rounds' = [rounds EXCEPT !["seller"] = 1]
      /\ download' = download /\ terms' = terms /\ link' = link
      /\ mode' = [mode EXCEPT !["seller"] = "accept"]
  <2>1. sent' = [sent EXCEPT !["seller"] = sent'["seller"]]
    BY DEF IInv, TypeOK
  <2>2. rounds' = [rounds EXCEPT !["seller"] = 1]
    BY <1>1
  <2>3. download' = download
    BY DEF IInv, TypeOK
  <2>4. QED
    BY <1>3, <2>1, <2>2, <2>3
<1>b. recv' = recv
  <2>1. recv["seller"] + 0 = recv["seller"]
    BY DEF IInv, TypeOK
  <2>2. QED
    BY <2>1 DEF IInv, TypeOK
<1> HIDE DEF Initiate, Advance
<1>5. TypeOK'
  <2>1. sent' \in [Node -> Nat] /\ rounds' \in [Node -> Nat]
    BY <1>3, <1>a DEF IInv, TypeOK
  <2>2. offers' \in [Node -> Seq(Nat)]
    <3>1. <<>> \in Seq(Nat) /\ <<sent'["seller"]>> \in Seq(Nat)
      BY <1>3, Singletons
    <3>2. (IF link THEN <<sent'["seller"]>> ELSE <<>>) \in Seq(Nat)
      BY <3>1
    <3>3. QED
      BY <1>4, <3>2 DEF IInv, TypeOK
  <2>3. mode' \in [Node -> {"initiate", "accept", "complete"}]
    BY <1>a DEF IInv, TypeOK
  <2>4. QED
    BY <1>a, <1>b, <2>1, <2>2, <2>3 DEF IInv, TypeOK, Terms
<1>6. Totals'
  <2>1. \A n \in Node : sent'[n] = Paid(n, rounds'[n])
    BY <1>a DEF IInv, Totals, TypeOK
  <2>2. recv'["buyer"] = Paid("seller", rounds'["buyer"])
    BY <1>a, <1>b DEF IInv, Totals, TypeOK
  <2>3. Before(rounds'["seller"]) = Before(rounds["seller"])
    BY <1>1, <1>a DEF Before, IInv, TypeOK
  <2>4. recv'["seller"] = Paid("buyer", Before(rounds'["seller"]))
    BY <1>b, <2>3 DEF IInv, Totals
  <2>5. \A n \in Node : download'[n] = recv'[n]
    BY <1>a, <1>b DEF IInv, Totals
  <2>6. QED
    BY <1>a, <2>1, <2>2, <2>4, <2>5 DEF Totals, Paid
<1>7. Turns'
  <2>1. rounds'["seller"] = 1 /\ rounds'["buyer"] = 0
    BY <1>1, <1>a DEF IInv, TypeOK
  <2>2. mode'["seller"] # "initiate"
    BY <1>a DEF IInv, TypeOK
  <2>3. offers'["seller"] = <<>> /\ offers'["buyer"] \in {<<>>, <<sent'["seller"]>>}
    <3>1. offers \in [Node -> Seq(Nat)]
      BY DEF IInv, TypeOK
    <3>2. offers'["seller"] = offers["seller"]
      BY <1>4, <3>1
    <3>3. offers'["buyer"] \in {<<>>, <<sent'["seller"]>>}
      BY <1>4, <3>1
    <3>4. QED
      BY <1>2, <3>2, <3>3
  <2>4. QED
    BY <2>1, <2>2, <2>3 DEF Turns
<1>8. CompleteMeansAll'
  <2>1. ASSUME NEW n \in Node, mode'[n] = "complete"
        PROVE  n = "buyer" /\ mode[n] = "complete" /\ sent'[n] = sent[n]
    BY <1>a, <2>1 DEF IInv, TypeOK
  <2>2. QED
    BY <1>a, <1>b, <2>1 DEF IInv, CompleteMeansAll, Download
<1>9. QED
  BY <1>5, <1>6, <1>7, <1>8 DEF IInv

LEMMA IgnoreOfferIInv ==
    ASSUME IInv, NEW p \in Node, IgnoreOffer(p)
    PROVE  IInv'
<1>1. offers' = [offers EXCEPT ![p] = <<>>]
  <2>1. sent[Other(p)] \in Nat
    BY Parties DEF IInv, TypeOK
  <2>2. offers[p] = <<sent[Other(p)]>>
    BY DEF IInv, IgnoreOffer, Turns
  <2>3. Tail(offers[p]) = <<>>
    BY <2>1, <2>2, Singletons
  <2>4. QED
    BY <2>3 DEF IgnoreOffer
<1>2. TypeOK'
  BY <1>1, Singletons DEF IInv, IgnoreOffer, TypeOK
<1>3. Totals' /\ CompleteMeansAll'
  BY DEF IInv, IgnoreOffer, Totals, CompleteMeansAll, Paid, Download
<1>4. Turns'
  <2>1. \A n \in Node : offers'[n] = <<>> \/ offers'[n] = offers[n]
    <3>1. offers \in [Node -> Seq(Nat)]
      BY DEF IInv, TypeOK
    <3>2. QED
      BY <1>1, <3>1
  <2>2. Turns /\ rounds' = rounds /\ sent' = sent /\ mode' = mode
    BY DEF IInv, IgnoreOffer
  <2>3. QED
    BY <2>1, <2>2, FewerOffers
<1>5. QED
  BY <1>2, <1>3, <1>4 DEF IInv

LEMMA CutIInv ==
    ASSUME IInv, Cut
    PROVE  IInv'
<1>1. PICK lost \in SUBSET Node :
          offers' = [p \in Node |-> IF p \in lost THEN <<>> ELSE offers[p]]
  BY DEF Cut
<1>2. TypeOK'
  BY <1>1, Singletons DEF IInv, Cut, TypeOK
<1>3. Totals' /\ CompleteMeansAll'
  BY DEF IInv, Cut, Totals, CompleteMeansAll, Paid, Download
<1>4. Turns'
  <2>1. \A n \in Node : offers'[n] = <<>> \/ offers'[n] = offers[n]
    BY <1>1
  <2>2. Turns /\ rounds' = rounds /\ sent' = sent /\ mode' = mode
    BY DEF IInv, Cut
  <2>3. QED
    BY <2>1, <2>2, FewerOffers
<1>5. QED
  BY <1>2, <1>3, <1>4 DEF IInv

LEMMA AcceptOfferIInv ==
    ASSUME IInv, NEW p \in Node, AcceptOffer(p)
    PROVE  IInv'
<1> DEFINE q == Other(p)
           paid == Head(offers[p])
<1>1. q \in Node /\ q # p /\ Other(q) = p
  BY Parties
<1>2. sent[q] \in Nat /\ offers[p] = <<sent[q]>> /\ paid = sent[q] /\ Tail(offers[p]) = <<>>
  <2>1. sent[q] \in Nat
    BY <1>1 DEF IInv, TypeOK
  <2>2. offers[p] = <<sent[q]>>
    BY DEF IInv, AcceptOffer, Turns
  <2>3. QED
    BY <2>1, <2>2, Singletons
<1>3. /\ p = "buyer" => rounds["seller"] = rounds["buyer"] + 1
      /\ p = "seller" => rounds["seller"] = rounds["buyer"] /\ rounds["buyer"] > 0
  BY Parties DEF IInv, AcceptOffer, Turns
<1>4. offers[q] = <<>>
  <2>1. rounds["seller"] \in Nat /\ rounds["buyer"] \in Nat
    BY Parties DEF IInv, TypeOK
  <2>2. QED
    BY <1>1, <1>3, <2>1, Parties DEF IInv, Turns
<1>5. /\ sent' = [sent EXCEPT ![p] = Paid(p, rounds[p] + 1)]
      /\ rounds' = [rounds EXCEPT ![p] = @ + 1]
      /\ Paid(p, rounds[p] + 1) \in Nat /\ rounds[p] \in Nat
  <2>1. rounds[p] \in Nat /\ rounds[p] + 1 \in Nat
    BY DEF IInv, TypeOK
  <2>2. Paid(p, rounds[p] + 1) \in Nat
    BY <2>1, PaidFacts DEF IInv
  <2>3. sent[p] + SendChunk(p) = Paid(p, rounds[p] + 1)
    BY NextTotals
  <2>4. QED
    BY <2>1, <2>2, <2>3 DEF AcceptOffer, Advance
<1>6. /\ recv' = [recv EXCEPT ![p] = paid]
      /\ download' = [download EXCEPT ![p] = paid]
  <2>1. paid # 0
    BY DEF AcceptOffer, Acceptable
  <2>2. /\ recv' = [recv EXCEPT ![p] = recv[p] + RecvChunk(p)]
        /\ download' = [download EXCEPT ![p] = paid]
    BY <2>1 DEF AcceptOffer, Advance
  <2>3. recv[p] + RecvChunk(p) = paid
    BY <1>2, <1>3, NextTotals, Parties DEF IInv, Totals
  <2>4. QED
    BY <2>2, <2>3
<1>7. /\ offers' = [offers EXCEPT ![p] = <<>>, ![q] = offers'[q]]
      /\ offers'[q] \in {<<>>, <<sent'[p]>>}
      /\ offers'[p] = <<>>
  <2>1. sent'[p] \in Nat /\ sent'[p] = Paid(p, rounds[p] + 1)
    BY <1>5 DEF IInv, TypeOK
  <2>2. Append(offers[q], sent'[p]) = <<sent'[p]>>
    BY <1>4, <2>1, Singletons
  <2>3. QED
    BY <1>1, <1>2, <1>4, <2>2 DEF AcceptOffer, IInv, TypeOK
<1>8. mode' = [mode EXCEPT ![p] = IF Transferred(p, sent'[p], recv'[p]) THEN "complete" ELSE @]
      /\ mode[p] = "accept" /\ UNCHANGED <<terms, link>>
  BY DEF AcceptOffer
<1> HIDE DEF q, paid
<1>9. TypeOK'
  <2>1. sent'[p] \in Nat
    BY <1>5 DEF IInv, TypeOK
  <2>2. offers' \in [Node -> Seq(Nat)]
    <3>1. <<>> \in Seq(Nat) /\ <<sent'[p]>> \in Seq(Nat)
      BY <2>1, Singletons
    <3>2. offers \in [Node -> Seq(Nat)]
      BY DEF IInv, TypeOK
    <3>3. offers'[q] \in Seq(Nat)
      BY <1>7, <3>1
    <3>4. QED
      BY <1>7, <3>1, <3>2, <3>3
  <2>3. mode' \in [Node -> {"initiate", "accept", "complete"}]
    BY <1>8 DEF IInv, TypeOK
  <2>4. sent' \in [Node -> Nat] /\ rounds' \in [Node -> Nat]
    BY <1>5 DEF IInv, TypeOK
  <2>5. recv' \in [Node -> Nat] /\ download' \in [Node -> Nat]
    BY <1>2, <1>6 DEF IInv, TypeOK
  <2>6. QED
    BY <1>8, <2>2, <2>3, <2>4, <2>5 DEF IInv, TypeOK, Terms
<1>10. Totals'
  <2>1. \A n \in Node : sent'[n] = PaidAfter(terms'.upload[n], terms'.chunk[n], rounds'[n])
    BY <1>5, <1>8 DEF IInv, TypeOK, Totals, Paid
  <2>2. \A n \in Node : download'[n] = recv'[n]
    BY <1>6 DEF IInv, TypeOK, Totals
  <2>3. recv'["buyer"] = PaidAfter(terms'.upload["seller"], terms'.chunk["seller"], rounds'["buyer"])
    <3>1. CASE p = "buyer"
      <4>1. recv'["buyer"] = sent["seller"] /\ rounds'["buyer"] = rounds["seller"]
        BY <1>2, <1>3, <1>5, <1>6, <3>1, Parties DEF IInv, TypeOK, q
      <4>2. QED
        BY <1>8, <4>1, Parties DEF IInv, Totals, Paid
    <3>2. CASE p = "seller"
      <4>1. recv'["buyer"] = recv["buyer"] /\ rounds'["buyer"] = rounds["buyer"]
        BY <1>5, <1>6, <3>2, Parties DEF IInv, TypeOK
      <4>2. QED
        BY <1>8, <4>1 DEF IInv, Totals, Paid
    <3>3. QED
      BY <3>1, <3>2, Parties
  <2>4. recv'["seller"] =
            PaidAfter(terms'.upload["buyer"], terms'.chunk["buyer"], Before(rounds'["seller"]))
    <3>1. CASE p = "seller"
      <4>1. rounds'["seller"] = rounds["buyer"] + 1 /\ rounds["buyer"] \in Nat
        BY <1>3, <1>5, <3>1, Parties DEF IInv, TypeOK
      <4>2. Before(rounds'["seller"]) = rounds["buyer"]
        BY <4>1 DEF Before
      <4>3. recv'["seller"] = sent["buyer"]
        BY <1>2, <1>6, <3>1, Parties DEF IInv, TypeOK, q
      <4>4. QED
        BY <1>8, <4>2, <4>3, Parties DEF IInv, Totals, Paid
    <3>2. CASE p = "buyer"
      BY <1>5, <1>6, <1>8, <3>2, Parties DEF IInv, TypeOK, Totals, Paid
    <3>3. QED
      BY <3>1, <3>2, Parties
  <2>5. QED
    BY <2>1, <2>2, <2>3, <2>4 DEF Totals, Paid
<1>11. Turns'
  <2>1. rounds'["seller"] \in {rounds'["buyer"], rounds'["buyer"] + 1} /\ rounds'["buyer"] \in Nat
    BY <1>3, <1>5, Parties DEF IInv, TypeOK
  <2>2. mode'["seller"] = "initiate" <=> rounds'["seller"] = 0
    BY <1>5, <1>8, Parties DEF IInv, TypeOK, Turns
  <2>3. \A n \in Node : offers'[n] \in {<<>>, <<sent'[Other(n)]>>}
    BY <1>1, <1>7, Parties DEF q
  <2>4. offers'["buyer"] # <<>> => rounds'["seller"] = rounds'["buyer"] + 1
    BY <1>3, <1>5, <1>7, Parties DEF IInv, TypeOK
  <2>5. offers'["seller"] # <<>> => rounds'["seller"] = rounds'["buyer"] /\ rounds'["buyer"] > 0
    <3>1. CASE p = "seller"
      BY <1>7, <3>1
    <3>2. CASE p = "buyer"
      <4>1. rounds'["buyer"] = rounds["buyer"] + 1 /\ rounds'["seller"] = rounds["seller"]
        BY <1>5, <3>2, Parties DEF IInv, TypeOK
      <4>2. QED
        BY <1>3, <1>5, <3>2, <4>1
    <3>3. QED
      BY <3>1, <3>2, Parties
  <2>6. QED
    BY <2>1, <2>2, <2>3, <2>4, <2>5 DEF Turns
<1>12. CompleteMeansAll'
  BY <1>5, <1>6, <1>8 DEF IInv, TypeOK, CompleteMeansAll, Transferred, Download
<1>13. QED
  BY <1>9, <1>10, <1>11, <1>12 DEF IInv

LEMMA NextIInv == IInv /\ [Next]_vars => IInv'
<1> SUFFICES ASSUME IInv, [Next]_vars PROVE IInv'
  OBVIOUS
<1>1. CASE Initiate
  BY <1>1, InitiateIInv
<1>2. CASE Cut
  BY <1>2, CutIInv
<1>3. ASSUME NEW p \in Node, AcceptOffer(p) PROVE IInv'
  BY <1>3, AcceptOfferIInv
<1>4. ASSUME NEW p \in Node, IgnoreOffer(p) PROVE IInv'
  BY <1>4, IgnoreOfferIInv
<1>5. CASE UNCHANGED vars
  BY <1>5 DEF vars, IInv, TypeOK, Terms, Totals, Turns, CompleteMeansAll, Paid, Download
<1>6. QED
  BY <1>1, <1>2, <1>3, <1>4, <1>5 DEF Next

(***************************************************************************)
(* The inductive invariant holds in every reachable state.                 *)
(***************************************************************************)
THEOREM Invariance == Spec => []IInv
BY InitIInv, NextIInv, PTL DEF Spec

-----------------------------------------------------------------------------
(* What it implies.                                                        *)

(***************************************************************************)
(* The variables keep their types: amounts never become negative, although *)
(* adjust_refund_tx() subtracts.                                           *)
(***************************************************************************)
THEOREM TypeCorrectness == Spec => []TypeOK
<1>1. IInv => TypeOK
  BY DEF IInv
<1>2. QED
  BY <1>1, Invariance, PTL

(***************************************************************************)
(* The chunked exchange of adjust_refund_tx() puts at most one chunk of the*)
(* seller, and none of the buyer, at risk.                                 *)
(***************************************************************************)
THEOREM AtMostOneChunk == Spec => []OneChunkAtRisk
<1>1. IInv => OneChunkAtRisk
  BY DEF IInv, Totals, OneChunkAtRisk
<1>2. QED
  BY <1>1, Invariance, PTL

(***************************************************************************)
(* What a party counts as received it can broadcast, and its peer has      *)
(* signed it (trade.recv, our_download and trade.sent).                    *)
(***************************************************************************)
THEOREM Backed == Spec => []BackedByDownload
<1>1. ASSUME IInv PROVE BackedByDownload
  <2>1. rounds["buyer"] \in Nat /\ rounds["seller"] \in Nat
    BY <1>1, Parties DEF IInv, TypeOK
  <2>2. recv["buyer"] <= sent["seller"]
    <3>1. CASE rounds["seller"] = rounds["buyer"]
      BY <1>1, <2>1, <3>1, PaidFacts, Parties DEF IInv, Totals
    <3>2. CASE rounds["seller"] = rounds["buyer"] + 1
      BY <1>1, <2>1, <3>2, PaidFacts, Parties DEF IInv, Totals
    <3>3. QED
      BY <1>1, <3>1, <3>2 DEF IInv, Turns
  <2>3. recv["seller"] <= sent["buyer"]
    <3>1. CASE rounds["seller"] = 0
      <4>1. rounds["buyer"] = 0 /\ Before(rounds["seller"]) = 0
        BY <1>1, <2>1, <3>1 DEF IInv, Turns, Before
      <4>2. QED
        BY <1>1, <4>1, PaidFacts, Parties DEF IInv, Totals
    <3>2. CASE rounds["seller"] = rounds["buyer"] + 1
      <4>1. Before(rounds["seller"]) = rounds["buyer"]
        BY <2>1, <3>2 DEF Before
      <4>2. QED
        BY <1>1, <2>1, <4>1, PaidFacts, Parties DEF IInv, Totals
    <3>3. CASE rounds["seller"] = rounds["buyer"] /\ rounds["buyer"] > 0
      <4>1. Before(rounds["seller"]) \in Nat /\ rounds["buyer"] = Before(rounds["seller"]) + 1
        BY <2>1, <3>3 DEF Before
      <4>2. QED
        BY <1>1, <4>1, PaidFacts, Parties DEF IInv, Totals
    <3>4. QED
      BY <1>1, <2>1, <3>1, <3>2, <3>3 DEF IInv, Turns
  <2>4. QED
    BY <1>1, <2>2, <2>3, Parties DEF BackedByDownload, IInv, Totals
<1>2. QED
  BY <1>1, Invariance, PTL

(***************************************************************************)
(* Whoever completes first (parse_return_adjusted_refund) leaves its peer  *)
(* short of at most one chunk.                                             *)
(***************************************************************************)
THEOREM FairEnd == Spec => []CompleteIsFair
<1>1. ASSUME IInv PROVE CompleteIsFair
  <2> SUFFICES ASSUME NEW p \in Node, mode[p] = "complete"
               PROVE  /\ recv[p] = Download(p)
                      /\ recv[Other(p)] + terms.chunk[p] >= Download(Other(p))
    BY DEF CompleteIsFair
  <2>1. rounds["buyer"] \in Nat /\ rounds["seller"] \in Nat
    BY <1>1, Parties DEF IInv, TypeOK
  <2>2. sent[p] = terms.upload[p] /\ recv[p] = Download(p)
    BY <1>1 DEF IInv, CompleteMeansAll
  <2>3. \A k \in Nat : Paid(p, k + 1) = terms.upload[p] =>
            Paid(p, k) + terms.chunk[p] >= terms.upload[p]
    BY <1>1, PaidFacts DEF IInv
  <2>4. \A k \in Nat : Paid(p, k) = terms.upload[p] =>
            Paid(p, k) + terms.chunk[p] >= terms.upload[p]
    BY <1>1, PaidFacts DEF IInv
  <2>5. Paid(p, rounds[p]) = terms.upload[p] /\ Download(Other(p)) = terms.upload[p]
    BY <1>1, <2>2, Parties DEF IInv, Totals, Download
  <2>6. PICK k \in Nat : recv[Other(p)] = Paid(p, k) /\ rounds[p] \in {k, k + 1}
    <3>1. CASE p = "seller"
      BY <1>1, <2>1, <3>1, Parties DEF IInv, Totals, Turns
    <3>2. CASE p = "buyer"
      <4>1. Before(rounds["seller"]) \in Nat
        BY <2>1 DEF Before
      <4>2. rounds["buyer"] \in {Before(rounds["seller"]), Before(rounds["seller"]) + 1}
        BY <1>1, <2>1 DEF IInv, Turns, Before
      <4>3. QED
        BY <1>1, <3>2, <4>1, <4>2, Parties DEF IInv, Totals
    <3>3. QED
      BY <3>1, <3>2, Parties
  <2>7. QED
    BY <2>2, <2>3, <2>4, <2>5, <2>6
<1>2. QED
  BY <1>1, Invariance, PTL
=============================================================================
