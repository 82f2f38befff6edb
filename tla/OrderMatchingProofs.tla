------------------------ MODULE OrderMatchingProofs ------------------------
(***************************************************************************)
(* Any number of nodes and trades, and any amounts and prices: what a trade*)
(* says it has swapped is what its one match comes to, and the matching of *)
(* orders implements Pairing.                                              *)
(*                                                                         *)
(* As partial matching is disabled, a trade is either as it was opened or  *)
(* filled by one match.  The invariant IInv says so, match by match, for   *)
(* both sides, and what a message in flight says of its sender's match.    *)
(***************************************************************************)
EXTENDS OrderMatching, TLAPS

-----------------------------------------------------------------------------
(* What __truediv__ and __mul__ do to trades of the same amount.            *)

Positive == Nat \ {0}

BoughtRec(a, p, v) ==
    [action |-> "buy", amount |-> a, ppc |-> p, status |-> "closed", sent |-> v, recv |-> a]

SoldRec(a, q, v) ==
    [action |-> "sell", amount |-> a, ppc |-> q, status |-> "closed", sent |-> a, recv |-> v]

LEMMA Product == ASSUME NEW a \in Nat \ {0}, NEW q \in Nat \ {0} PROVE a * q \in Nat \ {0}
BY SMT

LEMMA RecordTypes ==
    ASSUME NEW a \in Nat, NEW p \in Nat, NEW q \in Nat, NEW v \in Nat
    PROVE  /\ BoughtRec(a, p, v) \in TradeType
           /\ SoldRec(a, q, v) \in TradeType
           /\ OpenTrade("buy", a, p) \in TradeType
           /\ OpenTrade("sell", a, q) \in TradeType
BY DEF BoughtRec, SoldRec, OpenTrade, TradeType

(***************************************************************************)
(* Matching an order and a trade of the same amount fills both.            *)
(***************************************************************************)
LEMMA MatchFillsBoth ==
    ASSUME NEW a \in Positive, NEW p \in Positive, NEW q \in Positive
    PROVE  /\ MatchTrades(OpenTrade("buy", a, p), OpenTrade("sell", a, q)).buy
                = BoughtRec(a, p, a * q)
           /\ MatchTrades(OpenTrade("buy", a, p), OpenTrade("sell", a, q)).sell
                = SoldRec(a, q, a * q)
<1> USE DEF Positive
<1> DEFINE buy == OpenTrade("buy", a, p)
           sell == OpenTrade("sell", a, q)
<1>1. Remaining(buy) = a /\ Remaining(sell) = a
  BY DEF Remaining, OpenTrade
<1>2. Change(buy, sell) = a
  BY <1>1 DEF Change
<1>3. TradeValue(buy, sell) = a * q
  BY <1>2 DEF TradeValue, OpenTrade
<1>4. /\ buy.recv + a = a /\ sell.sent + a = a
      /\ buy.sent + a * q = a * q /\ sell.recv + a * q = a * q
  BY Product DEF OpenTrade
<1>5. Remaining(buy) <= Remaining(sell) /\ Remaining(sell) <= Remaining(buy)
  BY <1>1
<1>6. MatchTrades(buy, sell).buy =
        [[buy EXCEPT !.recv = a, !.sent = a * q] EXCEPT !.status = "closed"]
  BY <1>2, <1>3, <1>4, <1>5 DEF MatchTrades, ClosedIf
<1>7. MatchTrades(buy, sell).sell =
        [[sell EXCEPT !.sent = a, !.recv = a * q] EXCEPT !.status = "closed"]
  BY <1>2, <1>3, <1>4, <1>5 DEF MatchTrades, ClosedIf
<1> QED
  BY <1>6, <1>7 DEF OpenTrade, BoughtRec, SoldRec

(***************************************************************************)
(* Undoing such a match opens both again.                                  *)
(***************************************************************************)
LEMMA UnmatchOpensBoth ==
    ASSUME NEW a \in Nat, NEW p \in Nat, NEW q \in Nat, NEW v \in Nat
    PROVE  UnmatchTrades(BoughtRec(a, p, v), SoldRec(a, q, v)) =
             [buy |-> OpenTrade("buy", a, p), sell |-> OpenTrade("sell", a, q)]
<1> DEFINE x == [buy |-> BoughtRec(a, p, v), sell |-> SoldRec(a, q, v)]
<1>1. x.buy.sent = v /\ x.sell.recv = v
  BY DEF BoughtRec, SoldRec
<1>2. ~ (x.buy.sent > x.sell.recv) /\ ~ (x.buy.sent < x.sell.recv)
  BY <1>1
<1>3. TakeFromBuy(x) = x /\ TakeFromSell(x) = x
  BY <1>2 DEF TakeFromBuy, TakeFromSell
<1>4. TakeBoth(x) = [buy |-> Reopened(BoughtRec(a, p, v)), sell |-> Reopened(SoldRec(a, q, v))]
  BY <1>1 DEF TakeBoth
<1>5. /\ Reopened(BoughtRec(a, p, v)) = OpenTrade("buy", a, p)
      /\ Reopened(SoldRec(a, q, v)) = OpenTrade("sell", a, q)
  BY DEF Reopened, BoughtRec, SoldRec, OpenTrade
<1>6. UnmatchTrades(BoughtRec(a, p, v), SoldRec(a, q, v)) = TakeBoth(TakeFromSell(TakeFromBuy(x)))
  BY DEF UnmatchTrades
<1> QED
  BY ONLY <1>3, <1>4, <1>5, <1>6

(***************************************************************************)
(* Applying the answer a second time changes nothing.                      *)
(***************************************************************************)
LEMMA UnmatchOfUndone ==
    ASSUME NEW a \in Positive, NEW p \in Positive, NEW q \in Positive, NEW v \in Positive
    PROVE  UnmatchTrades(BoughtRec(a, p, v), OpenTrade("sell", a, q)) =
             [buy |-> BoughtRec(a, p, v), sell |-> OpenTrade("sell", a, q)]
<1> USE DEF Positive
<1> DEFINE x == [buy |-> BoughtRec(a, p, v), sell |-> OpenTrade("sell", a, q)]
<1>1. /\ x.buy.sent = v /\ x.buy.recv = a
      /\ x.sell.recv = 0 /\ x.sell.sent = 0
      /\ x = [buy |-> x.buy, sell |-> x.sell]
  BY DEF BoughtRec, OpenTrade
<1>2. [x.buy EXCEPT !.sent = v, !.recv = a] = x.buy
  <2>1. [BoughtRec(a, p, v) EXCEPT !.sent = v] = BoughtRec(a, p, v)
    BY DEF BoughtRec
  <2>2. [BoughtRec(a, p, v) EXCEPT !.recv = a] = BoughtRec(a, p, v)
    BY DEF BoughtRec
  <2> QED
    BY <2>1, <2>2
<1>3. Reopened(x.sell) = x.sell
  BY DEF Reopened, OpenTrade
<1>4. UnmatchTrades(BoughtRec(a, p, v), OpenTrade("sell", a, q)) =
        TakeBoth(TakeFromSell(TakeFromBuy(x)))
  BY DEF UnmatchTrades
<1>5. x = [buy |-> BoughtRec(a, p, v), sell |-> OpenTrade("sell", a, q)]
  OBVIOUS
<1> HIDE DEF x
<1>6. /\ x.buy.sent > x.sell.recv /\ ~ (x.buy.sent < x.sell.recv)
      /\ x.buy.sent # x.sell.recv
      /\ x.buy.sent - x.sell.recv = v /\ x.buy.recv - x.sell.sent = a
  BY <1>1
<1>7. TakeFromBuy(x) = [buy |-> [x.buy EXCEPT !.sent = v, !.recv = a], sell |-> Reopened(x.sell)]
  BY <1>6 DEF TakeFromBuy
<1>8. TakeFromBuy(x) = x
  BY <1>1, <1>2, <1>3, <1>7
<1>9. TakeFromSell(x) = x /\ TakeBoth(x) = x
  BY <1>6 DEF TakeFromSell, TakeBoth
<1> QED
  BY <1>4, <1>5, <1>8, <1>9

LEMMA MatchOfFilled ==
    ASSUME NEW a \in Positive, NEW p \in Positive, NEW q \in Positive, NEW v \in Positive
    PROVE  MatchTrades(BoughtRec(a, p, v), OpenTrade("sell", a, q)).buy = BoughtRec(a, p, v)
<1> USE DEF Positive
<1> DEFINE buy == BoughtRec(a, p, v)
           sell == OpenTrade("sell", a, q)
<1>1. Remaining(buy) = 0 /\ Remaining(sell) = a
  BY DEF Remaining, BoughtRec, OpenTrade
<1>2. Change(buy, sell) = 0
  BY <1>1 DEF Change
<1>3. TradeValue(buy, sell) = 0
  BY <1>2 DEF TradeValue, OpenTrade
<1>4. buy.recv + 0 = buy.recv /\ buy.sent + 0 = buy.sent
  BY DEF BoughtRec
<1>5. Remaining(buy) <= Remaining(sell)
  BY <1>1
<1>6. MatchTrades(buy, sell).buy =
        [[buy EXCEPT !.recv = buy.recv, !.sent = buy.sent] EXCEPT !.status = "closed"]
  BY <1>2, <1>3, <1>4, <1>5 DEF MatchTrades, ClosedIf
<1> QED
  BY <1>6 DEF BoughtRec

-----------------------------------------------------------------------------
(* The invariant.                                                           *)

Waiting(action, t, status) ==
    [action |-> action, amount |-> Amount[t], ppc |-> Price[t],
     status |-> status, sent |-> 0, recv |-> 0]

NotClosed == {"pending_green_address_deposit", "green_address_deposit_confirm", "open"}

Fitting(h) == Amount[h.buyer] = Amount[h.order] /\ Price[h.buyer] >= Price[h.order]

Bought(h) == BoughtRec(Amount[h.buyer], Price[h.buyer], Amount[h.buyer] * Price[h.order])

Sold(h) == SoldRec(Amount[h.buyer], Price[h.order], Amount[h.buyer] * Price[h.order])

SellTerms(h) == [amount |-> Amount[h.order], ppc |-> Price[h.order]]

(***************************************************************************)
(* A buyer's match is reserved, or answered; a seller's failed when its    *)
(* message was to be made, or the buyer was told of it.                    *)
(***************************************************************************)
Reserved(h) == [state |-> "pending_calibration", reply |-> NoMatch, order |-> Sold(h)]

Agreed(h) ==
    [state |-> "pending_handshake", reply |-> SellTerms(h),
     order |-> OpenTrade("sell", Amount[h.order], Price[h.order])]

Failed == [state |-> "None", sent |-> NoMatch]

Told(h) == [state |-> "pending_handshake", sent |-> SellTerms(h)]

(***************************************************************************)
(* A trade is as it was opened, or filled by its only match.               *)
(***************************************************************************)
LiveIn(b, bd) == {h \in Hash : h.buyer = b /\ bd[h] # NoMatch}

AskedIn(s, ak) == {h \in Hash : h.order = s /\ ak[h] # NoMatch}

BuyerOK(b, tr, bd) ==
    \/ LiveIn(b, bd) = {} /\ \E st \in NotClosed : tr[b] = Waiting("buy", b, st)
    \/ \E h \in Hash : LiveIn(b, bd) = {h} /\ Fitting(h) /\ tr[b] = Bought(h)

SellerOK(s, tr, ak) ==
    \/ AskedIn(s, ak) = {} /\ \E st \in NotClosed : tr[s] = Waiting("sell", s, st)
    \/ \E h \in Hash : AskedIn(s, ak) = {h} /\ Fitting(h) /\ tr[s] = Sold(h)

MatchOK(h, bd, ak) ==
    /\ bd[h] \in {NoMatch, Reserved(h), Agreed(h)}
    /\ ak[h] \in {NoMatch, Failed, Told(h)}
    /\ bd[h] = Agreed(h) => ak[h] = Told(h)

(***************************************************************************)
(* A message in flight: a request states its buyer's terms, an answer what *)
(* the seller has booked.                                                  *)
(***************************************************************************)
MessageOK(m, ak) ==
    /\ m.hash \in Hash
    /\ \/ m = Request(m.hash)
       \/ m = Answer(m, SellTerms(m.hash)) /\ ak[m.hash] = Told(m.hash)

IInv ==
    /\ TypeOK
    /\ \A b \in Buyer : BuyerOK(b, trade, bids)
    /\ \A s \in Seller : SellerOK(s, trade, asks)
    /\ \A h \in Hash : MatchOK(h, bids, asks)
    /\ \A m \in net : MessageOK(m, asks)

-----------------------------------------------------------------------------
(* Facts about matches and trades.                                          *)

LEMMA TradeFacts ==
    ASSUME NEW t \in Trade
    PROVE  Amount[t] \in Nat \ {0} /\ Price[t] \in Nat \ {0} /\ Home[t] \in Node
BY TradeAssumption

LEMMA HashIs ==
    ASSUME NEW b \in Buyer, NEW s \in Seller, NEW h \in HashesOf(b, s)
    PROVE  h \in Hash
<1> DEFINE Of(x) == UNION {HashesOf(x, y) : y \in Seller}
<1>1. h \in Of(b)
  OBVIOUS
<1>2. Hash = UNION {Of(x) : x \in Buyer}
  BY DEF Hash
<1> HIDE DEF Of
<1> QED
  BY <1>1, <1>2

LEMMA HashFacts ==
    ASSUME NEW h \in Hash
    PROVE  /\ h.buyer \in Buyer /\ h.order \in Seller
           /\ h.buyer \in Trade /\ h.order \in Trade
           /\ h.buyer \notin Seller /\ h.order \notin Buyer
           /\ Amount[h.buyer] \in Nat \ {0} /\ Amount[h.order] \in Nat \ {0}
           /\ Price[h.buyer] \in Nat \ {0} /\ Price[h.order] \in Nat \ {0}
           /\ Amount[h.buyer] * Price[h.order] \in Nat \ {0}
<1>1. h.buyer \in Buyer /\ h.order \in Seller
  <2>1. PICK b \in Buyer, s \in Seller : h \in HashesOf(b, s)
    BY DEF Hash
  <2>2. h.buyer \in {b} /\ h.order \in {s}
    BY <2>1 DEF HashesOf
  <2> QED
    BY <2>1, <2>2
<1>2. /\ h.buyer \in Trade /\ h.order \in Trade
      /\ h.buyer \notin Seller /\ h.order \notin Buyer
  BY <1>1, TradeAssumption DEF Trade
<1>3. /\ Amount[h.buyer] \in Nat \ {0} /\ Amount[h.order] \in Nat \ {0}
      /\ Price[h.buyer] \in Nat \ {0} /\ Price[h.order] \in Nat \ {0}
  BY <1>2, TradeFacts
<1> QED
  BY <1>1, <1>2, <1>3, Product

LEMMA MatchTypes ==
    ASSUME NEW h \in Hash
    PROVE  /\ Bought(h) \in TradeType /\ Sold(h) \in TradeType
           /\ SellTerms(h) \in Terms
           /\ Reserved(h) \in Bid /\ Agreed(h) \in Bid
           /\ Told(h) \in Ask /\ Failed \in Ask
           /\ Request(h) \in Message
<1>1. /\ Amount[h.buyer] \in Nat /\ Amount[h.order] \in Nat
      /\ Price[h.buyer] \in Nat /\ Price[h.order] \in Nat
      /\ Amount[h.buyer] * Price[h.order] \in Nat
  BY HashFacts
<1>2. /\ Bought(h) \in TradeType /\ Sold(h) \in TradeType
      /\ OpenTrade("sell", Amount[h.order], Price[h.order]) \in TradeType
  BY <1>1, RecordTypes DEF Bought, Sold
<1>3. SellTerms(h) \in Terms /\ Request(h) \in Message
  BY <1>1 DEF SellTerms, Terms, Request, Message
<1>4. {"None", "pending_calibration", "pending_handshake"} \subseteq States
  BY DEF States, HandshakeStates
<1>5. Reserved(h) \in Bid /\ Agreed(h) \in Bid
  BY <1>2, <1>3, <1>4 DEF Reserved, Agreed, Bid
<1>6. Told(h) \in Ask /\ Failed \in Ask
  BY <1>3, <1>4 DEF Told, Failed, Ask
<1> QED
  BY <1>2, <1>3, <1>5, <1>6

LEMMA MatchesDiffer ==
    ASSUME NEW h \in Hash
    PROVE  /\ Reserved(h) # NoMatch /\ Agreed(h) # NoMatch /\ Reserved(h) # Agreed(h)
           /\ Told(h) # NoMatch /\ Failed # NoMatch /\ Told(h) # Failed
           /\ SellTerms(h) # NoMatch
           /\ Reserved(h).reply = NoMatch /\ Reserved(h).state = "pending_calibration"
           /\ Agreed(h).reply = SellTerms(h) /\ Agreed(h).state = "pending_handshake"
           /\ Told(h).sent = SellTerms(h) /\ Failed.sent = NoMatch
<1>1. /\ Reserved(h).reply = NoMatch /\ Reserved(h).state = "pending_calibration"
      /\ Agreed(h).reply = SellTerms(h) /\ Agreed(h).state = "pending_handshake"
      /\ Told(h).sent = SellTerms(h) /\ Failed.sent = NoMatch
  BY DEF Reserved, Agreed, Told, Failed
<1>2. SellTerms(h) # NoMatch
  BY MatchTypes, NoMatchAssumption
<1>3. Reserved(h) # Agreed(h) /\ Told(h) # Failed
  BY <1>1, <1>2
<1> QED
  BY <1>1, <1>2, <1>3, MatchTypes, NoMatchAssumption

(***************************************************************************)
(* What the trades of a match become when it is made, undone and applied.  *)
(***************************************************************************)
LEMMA SwapUndone ==
    ASSUME NEW h \in Hash
    PROVE  /\ UnmatchTrades(Bought(h), Sold(h)).buy
                = OpenTrade("buy", Amount[h.buyer], Price[h.buyer])
           /\ UnmatchTrades(Bought(h), Sold(h)).sell
                = OpenTrade("sell", Amount[h.buyer], Price[h.order])
<1> DEFINE a == Amount[h.buyer]
           p == Price[h.buyer]
           q == Price[h.order]
           v == Amount[h.buyer] * Price[h.order]
<1>1. a \in Nat /\ p \in Nat /\ q \in Nat /\ v \in Nat
  BY HashFacts
<1>2. Bought(h) = BoughtRec(a, p, v) /\ Sold(h) = SoldRec(a, q, v)
  BY DEF Bought, Sold
<1> HIDE DEF a, p, q, v
<1>3. UnmatchTrades(BoughtRec(a, p, v), SoldRec(a, q, v)) =
        [buy |-> OpenTrade("buy", a, p), sell |-> OpenTrade("sell", a, q)]
  BY <1>1, UnmatchOpensBoth, Zenon
<1>4. /\ UnmatchTrades(Bought(h), Sold(h)).buy = OpenTrade("buy", a, p)
      /\ UnmatchTrades(Bought(h), Sold(h)).sell = OpenTrade("sell", a, q)
  BY <1>2, <1>3
<1> QED
  BY <1>4 DEF a, p, q

LEMMA SwapMade ==
    ASSUME NEW h \in Hash, Fitting(h)
    PROVE  /\ MatchTrades(OpenTrade("buy", Amount[h.buyer], Price[h.buyer]),
                          OpenTrade("sell", Amount[h.order], Price[h.order])).buy = Bought(h)
           /\ MatchTrades(OpenTrade("buy", Amount[h.buyer], Price[h.buyer]),
                          OpenTrade("sell", Amount[h.order], Price[h.order])).sell = Sold(h)
<1> DEFINE a == Amount[h.buyer]
           p == Price[h.buyer]
           q == Price[h.order]
<1>1. a \in Positive /\ p \in Positive /\ q \in Positive
  BY HashFacts DEF Positive
<1>0. Amount[h.order] = a
  BY DEF Fitting
<1>2. Bought(h) = BoughtRec(a, p, a * q) /\ Sold(h) = SoldRec(a, q, a * q)
  BY DEF Bought, Sold
<1> HIDE DEF a, p, q
<1>3. /\ MatchTrades(OpenTrade("buy", a, p), OpenTrade("sell", a, q)).buy
           = BoughtRec(a, p, a * q)
      /\ MatchTrades(OpenTrade("buy", a, p), OpenTrade("sell", a, q)).sell
           = SoldRec(a, q, a * q)
  BY <1>1, MatchFillsBoth, Zenon
<1>4. /\ MatchTrades(OpenTrade("buy", a, p), OpenTrade("sell", a, q)).buy = Bought(h)
      /\ MatchTrades(OpenTrade("buy", a, p), OpenTrade("sell", a, q)).sell = Sold(h)
  BY <1>2, <1>3, Zenon
<1> QED
  BY <1>0, <1>4, Zenon DEF a, p, q

LEMMA SwapApplied ==
    ASSUME NEW h \in Hash, Fitting(h)
    PROVE  /\ UnmatchTrades(Bought(h), Agreed(h).order) =
                [buy |-> Bought(h), sell |-> Agreed(h).order]
           /\ MatchTrades(Bought(h), Agreed(h).order).buy = Bought(h)
<1> DEFINE a == Amount[h.buyer]
           p == Price[h.buyer]
           q == Price[h.order]
           v == Amount[h.buyer] * Price[h.order]
<1>0. Amount[h.order] = a
  BY DEF Fitting
<1>1. /\ a \in Positive /\ p \in Positive /\ q \in Positive /\ v \in Positive
  BY HashFacts DEF Positive
<1>2. Bought(h) = BoughtRec(a, p, v) /\ Agreed(h).order = OpenTrade("sell", a, q)
  BY <1>0 DEF Bought, Agreed
<1> HIDE DEF a, p, q, v
<1>3. UnmatchTrades(BoughtRec(a, p, v), OpenTrade("sell", a, q)) =
        [buy |-> BoughtRec(a, p, v), sell |-> OpenTrade("sell", a, q)]
  BY <1>1, UnmatchOfUndone
<1>4. MatchTrades(BoughtRec(a, p, v), OpenTrade("sell", a, q)).buy = BoughtRec(a, p, v)
  BY <1>1, MatchOfFilled, Zenon
<1> QED
  BY <1>2, <1>3, <1>4

(***************************************************************************)
(* Status and totals of a trade tell whether it is filled.                 *)
(***************************************************************************)
LEMMA RecordFields ==
    /\ \A action, t, st :
         /\ Waiting(action, t, st).status = st
         /\ Waiting(action, t, st).sent = 0 /\ Waiting(action, t, st).recv = 0
         /\ Waiting(action, t, "open") = OpenTrade(action, Amount[t], Price[t])
    /\ \A h : /\ Bought(h).status = "closed" /\ Sold(h).status = "closed"
              /\ Bought(h).recv = Amount[h.buyer]
              /\ Bought(h).sent = Amount[h.buyer] * Price[h.order]
              /\ Sold(h).sent = Amount[h.buyer]
              /\ Sold(h).recv = Amount[h.buyer] * Price[h.order]
BY DEF Waiting, OpenTrade, Bought, Sold, BoughtRec, SoldRec

LEMMA BuyerFrame ==
    ASSUME NEW b, NEW tr, NEW bd, NEW tr2, NEW bd2,
           BuyerOK(b, tr, bd), tr2[b] = tr[b],
           \A h \in Hash : h.buyer = b => (bd2[h] = NoMatch <=> bd[h] = NoMatch)
    PROVE  BuyerOK(b, tr2, bd2)
<1>1. LiveIn(b, bd2) = LiveIn(b, bd)
  BY DEF LiveIn
<1> QED
  BY <1>1 DEF BuyerOK

LEMMA SellerFrame ==
    ASSUME NEW s, NEW tr, NEW ak, NEW tr2, NEW ak2,
           SellerOK(s, tr, ak), tr2[s] = tr[s],
           \A h \in Hash : h.order = s => (ak2[h] = NoMatch <=> ak[h] = NoMatch)
    PROVE  SellerOK(s, tr2, ak2)
<1>1. AskedIn(s, ak2) = AskedIn(s, ak)
  BY DEF AskedIn
<1> QED
  BY <1>1 DEF SellerOK

LEMMA WaitingTypes ==
    ASSUME NEW t \in Trade, NEW action \in {"buy", "sell"}, NEW st \in NotClosed
    PROVE  Waiting(action, t, st) \in TradeType
BY TradeFacts DEF Waiting, TradeType, NotClosed

LEMMA InitIInv == ASSUME Init PROVE IInv
<1>1. \A b \in Buyer : BuyerOK(b, trade, bids) /\ b \in Trade /\ trade[b] \in TradeType
  <2> SUFFICES ASSUME NEW b \in Buyer
               PROVE  BuyerOK(b, trade, bids) /\ b \in Trade /\ trade[b] \in TradeType
    OBVIOUS
  <2>1. b \in Trade
    BY DEF Trade
  <2>2. trade[b] = Waiting("buy", b, "pending_green_address_deposit")
    BY <2>1 DEF Init, NewTrade, OpenTrade, Waiting
  <2>3. LiveIn(b, bids) = {}
    BY DEF Init, LiveIn
  <2>4. "pending_green_address_deposit" \in NotClosed
    BY DEF NotClosed
  <2> QED
    BY <2>1, <2>2, <2>3, <2>4, WaitingTypes DEF BuyerOK
<1>2. \A s \in Seller : SellerOK(s, trade, asks) /\ trade[s] \in TradeType
  <2> SUFFICES ASSUME NEW s \in Seller
               PROVE  SellerOK(s, trade, asks) /\ trade[s] \in TradeType
    OBVIOUS
  <2>1. s \in Trade /\ s \notin Buyer
    BY TradeAssumption DEF Trade
  <2>2. trade[s] = Waiting("sell", s, "pending_green_address_deposit")
    BY <2>1 DEF Init, NewTrade, OpenTrade, Waiting
  <2>3. AskedIn(s, asks) = {}
    BY DEF Init, AskedIn
  <2>4. "pending_green_address_deposit" \in NotClosed
    BY DEF NotClosed
  <2> QED
    BY <2>1, <2>2, <2>3, <2>4, WaitingTypes DEF SellerOK
<1>3. \A h \in Hash : MatchOK(h, bids, asks)
  BY MatchesDiffer DEF Init, MatchOK
<1>4. \A t \in Trade : trade[t] \in TradeType
  BY <1>1, <1>2 DEF Trade
<1>5. TypeOK
  BY <1>4 DEF Init, TypeOK
<1> QED
  BY <1>1, <1>2, <1>3, <1>5 DEF IInv, Init

LEMMA OnlyAsk ==
    ASSUME IInv, NEW h \in Hash, asks[h] # NoMatch
    PROVE  AskedIn(h.order, asks) = {h} /\ Fitting(h) /\ trade[h.order] = Sold(h)
<1>1. SellerOK(h.order, trade, asks)
  BY HashFacts DEF IInv
<1>2. h \in AskedIn(h.order, asks)
  BY DEF AskedIn
<1> QED
  BY <1>1, <1>2 DEF SellerOK

-----------------------------------------------------------------------------
(* The steps.                                                               *)

LEMMA NewStatus ==
    ASSUME NEW action, NEW t, NEW st, NEW st2
    PROVE  [Waiting(action, t, st) EXCEPT !.status = st2] = Waiting(action, t, st2)
BY DEF Waiting

(***************************************************************************)
(* A trade that is not closed has no match.                                *)
(***************************************************************************)
LEMMA OpenBuyer ==
    ASSUME NEW b, NEW tr, NEW bd, BuyerOK(b, tr, bd), tr[b].status # "closed"
    PROVE  LiveIn(b, bd) = {} /\ \E st \in NotClosed : tr[b] = Waiting("buy", b, st)
BY RecordFields DEF BuyerOK

LEMMA OpenSeller ==
    ASSUME NEW s, NEW tr, NEW ak, SellerOK(s, tr, ak), tr[s].status # "closed"
    PROVE  AskedIn(s, ak) = {} /\ \E st \in NotClosed : tr[s] = Waiting("sell", s, st)
BY RecordFields DEF SellerOK

(***************************************************************************)
(* Trades that are not closed get another status, and nothing else changes.*)
(***************************************************************************)
LEMMA StatusStep ==
    ASSUME IInv, TypeOK', UNCHANGED <<bids, asks, net>>,
           \A t \in Trade :
              \/ trade'[t] = trade[t]
              \/ /\ trade[t].status # "closed"
                 /\ \E st \in NotClosed : trade'[t] = [trade[t] EXCEPT !.status = st]
    PROVE  IInv'
<1>1. ASSUME NEW b \in Buyer PROVE BuyerOK(b, trade', bids')
  <2>0. BuyerOK(b, trade, bids) /\ b \in Trade
    BY DEF IInv, Trade
  <2>1. CASE trade'[b] = trade[b]
    BY <2>0, <2>1, BuyerFrame
  <2>2. CASE /\ trade[b].status # "closed"
             /\ \E st \in NotClosed : trade'[b] = [trade[b] EXCEPT !.status = st]
    <3>1. LiveIn(b, bids) = {} /\ \E st \in NotClosed : trade[b] = Waiting("buy", b, st)
      BY <2>0, <2>2, OpenBuyer
    <3>2. \E st \in NotClosed : trade'[b] = Waiting("buy", b, st)
      BY <2>2, <3>1, NewStatus
    <3> QED
      BY <3>1, <3>2 DEF BuyerOK
  <2> QED
    BY <2>0, <2>1, <2>2
<1>2. ASSUME NEW s \in Seller PROVE SellerOK(s, trade', asks')
  <2>0. SellerOK(s, trade, asks) /\ s \in Trade
    BY DEF IInv, Trade
  <2>1. CASE trade'[s] = trade[s]
    BY <2>0, <2>1, SellerFrame
  <2>2. CASE /\ trade[s].status # "closed"
             /\ \E st \in NotClosed : trade'[s] = [trade[s] EXCEPT !.status = st]
    <3>1. AskedIn(s, asks) = {} /\ \E st \in NotClosed : trade[s] = Waiting("sell", s, st)
      BY <2>0, <2>2, OpenSeller
    <3>2. \E st \in NotClosed : trade'[s] = Waiting("sell", s, st)
      BY <2>2, <3>1, NewStatus
    <3> QED
      BY <3>1, <3>2 DEF SellerOK
  <2> QED
    BY <2>0, <2>1, <2>2
<1> QED
  BY <1>1, <1>2 DEF IInv

LEMMA TradeTypes ==
    ASSUME NEW r \in TradeType, NEW st \in NotClosed
    PROVE  [r EXCEPT !.status = st] \in TradeType
BY DEF TradeType, NotClosed

LEMMA DepositConfirmStep == ASSUME IInv, NEW t \in Trade, DepositConfirm(t) PROVE IInv'
<1> DEFINE st == "green_address_deposit_confirm"
<1>1. /\ trade \in [Trade -> TradeType]
      /\ trade' = [trade EXCEPT ![t] = [trade[t] EXCEPT !.status = st]]
      /\ trade[t].status # "closed" /\ st \in NotClosed
  BY DEF IInv, TypeOK, DepositConfirm, Deposited, NotClosed
<1>2. trade' \in [Trade -> TradeType]
  BY <1>1, TradeTypes
<1>3. Home[t] \in Node /\ book \in [Node -> Seq(Trade)]
  BY TradeFacts DEF IInv, TypeOK
<1>4. book' = [book EXCEPT ![Home[t]] = <<t>> \o book[Home[t]]]
  BY DEF DepositConfirm
<1>5. <<t>> \o book[Home[t]] \in Seq(Trade)
  BY <1>3
<1>6. book' \in [Node -> Seq(Trade)]
  BY <1>3, <1>4, <1>5
<1>7. TypeOK'
  BY <1>2, <1>6 DEF IInv, TypeOK, DepositConfirm
<1>8. \A u \in Trade :
         \/ trade'[u] = trade[u]
         \/ /\ trade[u].status # "closed"
            /\ \E x \in NotClosed : trade'[u] = [trade[u] EXCEPT !.status = x]
  BY <1>1
<1> QED
  BY <1>7, <1>8, StatusStep DEF DepositConfirm

LEMMA OpenTradesStep == ASSUME IInv, NEW n \in Node, OpenTrades(n) PROVE IInv'
<1>1. "open" \in NotClosed
  BY DEF NotClosed
<1>2. /\ trade \in [Trade -> TradeType]
      /\ trade' = [t \in Trade |-> IF t \in Confirmed(n)
                                   THEN [trade[t] EXCEPT !.status = "open"]
                                   ELSE trade[t]]
  BY DEF IInv, TypeOK, OpenTrades
<1>3. trade' \in [Trade -> TradeType]
  BY <1>1, <1>2, TradeTypes
<1>4. Confirmed(n) \subseteq Trade
  BY DEF Confirmed
<1>5. TypeOK'
  BY <1>3, <1>4 DEF IInv, TypeOK, OpenTrades
<1>6. \A u \in Trade :
         \/ trade'[u] = trade[u]
         \/ /\ trade[u].status # "closed"
            /\ \E x \in NotClosed : trade'[u] = [trade[u] EXCEPT !.status = x]
  BY <1>1, <1>2 DEF Confirmed
<1> QED
  BY <1>5, <1>6, StatusStep DEF OpenTrades

LEMMA AgeStep == ASSUME IInv, NEW h \in Hash, Age(h) PROVE IInv'
<1>1. TypeOK'
  BY DEF IInv, TypeOK, Age
<1> QED
  BY <1>1, StatusStep DEF Age

(***************************************************************************)
(* A match is the only one of its trades, and filled them.                 *)
(***************************************************************************)
LEMMA OnlyBid ==
    ASSUME IInv, NEW h \in Hash, bids[h] # NoMatch
    PROVE  LiveIn(h.buyer, bids) = {h} /\ Fitting(h) /\ trade[h.buyer] = Bought(h)
<1>1. BuyerOK(h.buyer, trade, bids)
  BY HashFacts DEF IInv
<1>2. h \in LiveIn(h.buyer, bids)
  BY DEF LiveIn
<1> QED
  BY <1>1, <1>2 DEF BuyerOK

(***************************************************************************)
(* The trade of a match that is timed out is as it was when it was opened. *)
(***************************************************************************)
LEMMA TimedOut ==
    ASSUME IInv, NEW n \in Node, NEW h \in Expired(n)
    PROVE  /\ LiveIn(h.buyer, bids) = {h}
           /\ Undo(n)[h.buyer] = Waiting("buy", h.buyer, "open")
<1>1. h \in Hash /\ bids[h] # NoMatch /\ bids[h].state = "pending_calibration"
  BY DEF Expired
<1>2. bids[h] = Reserved(h)
  BY <1>1, MatchesDiffer DEF IInv, MatchOK
<1>3. LiveIn(h.buyer, bids) = {h} /\ trade[h.buyer] = Bought(h)
  BY <1>1, OnlyBid
<1>4. \A k \in Expired(n) : k.buyer = h.buyer => k = h
  BY <1>3 DEF Expired, LiveIn
<1>5. (CHOOSE k \in Expired(n) : k.buyer = h.buyer) = h
  BY <1>4
<1>6. h.buyer \in Trade
  BY <1>1, HashFacts
<1>7. Undo(n)[h.buyer] = UnmatchTrades(trade[h.buyer], bids[h].order).buy
  BY <1>5, <1>6 DEF Undo
<1>8. UnmatchTrades(Bought(h), Sold(h)).buy
        = OpenTrade("buy", Amount[h.buyer], Price[h.buyer])
  BY <1>1, SwapUndone
<1>9. Reserved(h).order = Sold(h)
  BY DEF Reserved
<1> QED
  BY <1>2, <1>3, <1>7, <1>8, <1>9, RecordFields

LEMMA AfterExpiry ==
    ASSUME IInv, NEW n \in Node
    PROVE  /\ Undo(n) \in [Trade -> TradeType]
           /\ Kept(n) \in [Hash -> Bid \cup {NoMatch}]
           /\ \A b \in Buyer : BuyerOK(b, Undo(n), Kept(n))
           /\ \A s \in Seller : Undo(n)[s] = trade[s]
           /\ \A h \in Hash : Kept(n)[h] = bids[h] \/ Kept(n)[h] = NoMatch
<1>1. \A h \in Hash : Kept(n)[h] = IF h \in Expired(n) THEN NoMatch ELSE bids[h]
  BY DEF Kept
<1>2. Kept(n) \in [Hash -> Bid \cup {NoMatch}]
  BY DEF Kept, IInv, TypeOK
<1>3. ASSUME NEW t \in Trade, ~ \E h \in Expired(n) : h.buyer = t
      PROVE  Undo(n)[t] = trade[t]
  BY <1>3 DEF Undo
<1>4. ASSUME NEW h \in Expired(n)
      PROVE  h.buyer \in Buyer /\ h \in Hash
  BY HashFacts DEF Expired
<1>5. ASSUME NEW s \in Seller PROVE Undo(n)[s] = trade[s] /\ s \in Trade
  BY <1>3, <1>4, TradeAssumption DEF Trade
<1>6. ASSUME NEW b \in Buyer PROVE BuyerOK(b, Undo(n), Kept(n)) /\ b \in Trade
  <2>0. BuyerOK(b, trade, bids) /\ b \in Trade
    BY DEF IInv, Trade
  <2>1. CASE \E h \in Expired(n) : h.buyer = b
    <3>1. PICK h \in Expired(n) : h.buyer = b
      BY <2>1
    <3>2. LiveIn(b, bids) = {h} /\ Undo(n)[b] = Waiting("buy", b, "open")
      BY <3>1, TimedOut
    <3>3. LiveIn(b, Kept(n)) = {}
      BY <1>1, <3>2 DEF LiveIn
    <3>4. "open" \in NotClosed
      BY DEF NotClosed
    <3> QED
      BY <2>0, <3>2, <3>3, <3>4 DEF BuyerOK
  <2>2. CASE ~ \E h \in Expired(n) : h.buyer = b
    <3>1. \A h \in Hash : h.buyer = b => (Kept(n)[h] = NoMatch <=> bids[h] = NoMatch)
      BY <1>1, <2>2
    <3> QED
      BY <1>3, <2>0, <2>2, <3>1, BuyerFrame
  <2> QED
    BY <2>1, <2>2
<1>7. ASSUME NEW t \in Trade PROVE Undo(n)[t] \in TradeType
  <2>1. CASE \E h \in Expired(n) : h.buyer = t
    <3>1. PICK h \in Expired(n) : h.buyer = t
      BY <2>1
    <3>2. Undo(n)[t] = Waiting("buy", t, "open")
      BY <3>1, TimedOut
    <3> QED
      BY <3>2, WaitingTypes DEF NotClosed
  <2>2. CASE ~ \E h \in Expired(n) : h.buyer = t
    BY <1>3, <2>2 DEF IInv, TypeOK
  <2> QED
    BY <2>1, <2>2
<1>8. Undo(n) \in [Trade -> TradeType]
  <2>1. Undo(n) = [t \in Trade |-> Undo(n)[t]]
    BY DEF Undo
  <2> QED
    BY <1>7, <2>1
<1> QED
  BY <1>1, <1>2, <1>5, <1>6, <1>8

LEMMA ExpireStep ==
    ASSUME IInv, NEW n \in Node, ExpireOnly(Undo(n), Kept(n)), UNCHANGED <<book, asks, aged>>
    PROVE  IInv'
<1>1. trade' = Undo(n) /\ bids' = Kept(n)
  BY DEF ExpireOnly
<1>2. TypeOK'
  BY <1>1, AfterExpiry DEF IInv, TypeOK, ExpireOnly
<1>3. \A b \in Buyer : BuyerOK(b, trade', bids')
  BY <1>1, AfterExpiry
<1>4. \A s \in Seller : SellerOK(s, trade', asks')
  BY <1>1, AfterExpiry, SellerFrame DEF IInv
<1>5. \A h \in Hash : MatchOK(h, bids', asks')
  BY <1>1, AfterExpiry, MatchesDiffer DEF IInv, MatchOK
<1>6. \A m \in net' : MessageOK(m, asks')
  BY DEF IInv, MessageOK, ExpireOnly
<1> QED
  BY <1>2, <1>3, <1>4, <1>5, <1>6 DEF IInv

(***************************************************************************)
(* A reservation: the buyer's trade was open, so it had no match.          *)
(***************************************************************************)
LEMMA ReserveStep ==
    ASSUME IInv, NEW n \in Node, NEW h \in Hash,
           Fits(h.buyer, h.order, Undo(n)),
           Reserve(h, Undo(n), Kept(n)), UNCHANGED <<book, asks, aged>>
    PROVE  IInv'
<1> DEFINE b == h.buyer
           tr == Undo(n)
           kept == Kept(n)
<1>0. b \in Buyer /\ b \in Trade /\ b \notin Seller
  BY HashFacts
<1>1. /\ tr \in [Trade -> TradeType] /\ kept \in [Hash -> Bid \cup {NoMatch}]
      /\ \A k \in Hash : kept[k] = bids[k] \/ kept[k] = NoMatch
      /\ \A s \in Seller : tr[s] = trade[s]
      /\ \A k \in Buyer : BuyerOK(k, tr, kept)
  BY AfterExpiry
<1> HIDE DEF b, tr, kept
<1>2. /\ tr[b].status = "open"
      /\ tr[b].ppc >= Price[h.order] /\ tr[b].amount = Amount[h.order]
  BY DEF Fits, Matchable, OpenTrade, b, tr
<1>3. LiveIn(b, kept) = {} /\ \E st \in NotClosed : tr[b] = Waiting("buy", b, st)
  BY <1>0, <1>1, <1>2, OpenBuyer
<1>4. tr[b] = Waiting("buy", b, "open")
  <2>1. PICK st \in NotClosed : tr[b] = Waiting("buy", b, st)
    BY <1>3
  <2>2. Waiting("buy", b, st).status = st
    BY RecordFields
  <2> QED
    BY <1>2, <2>1, <2>2
<1>5. Fitting(h) /\ tr[b] = OpenTrade("buy", Amount[b], Price[b])
  <2>1. /\ Waiting("buy", b, "open").amount = Amount[b]
        /\ Waiting("buy", b, "open").ppc = Price[b]
    BY DEF Waiting
  <2> QED
    BY <1>2, <1>4, <2>1, RecordFields DEF Fitting, b
<1>6. /\ trade' = [tr EXCEPT ![b] = Bought(h)]
      /\ bids' = [kept EXCEPT ![h] = Reserved(h)]
      /\ net' \in {net, net \cup {Request(h)}}
      /\ advertised' = advertised \cup {b}
  BY <1>5, SwapMade DEF Reserve, Reserved, b, tr, kept
<1>7. TypeOK'
  BY <1>0, <1>1, <1>6, MatchTypes DEF IInv, TypeOK
<1>8. ASSUME NEW k \in Buyer PROVE BuyerOK(k, trade', bids')
  <2>1. CASE k = b
    <3>1. LiveIn(b, bids') = {h}
      BY <1>1, <1>3, <1>6, MatchesDiffer DEF LiveIn, b
    <3>2. trade'[b] = Bought(h)
      BY <1>0, <1>1, <1>6
    <3> QED
      BY <1>5, <2>1, <3>1, <3>2 DEF BuyerOK
  <2>2. CASE k # b
    <3>1. trade'[k] = tr[k] /\ \A g \in Hash : g.buyer = k => bids'[g] = kept[g]
      BY <1>1, <1>6, <2>2 DEF Trade, b
    <3> QED
      BY <1>1, <3>1, BuyerFrame
  <2> QED
    BY <2>1, <2>2
<1>9. ASSUME NEW s \in Seller PROVE SellerOK(s, trade', asks')
  <2>1. trade'[s] = trade[s]
    BY <1>0, <1>1, <1>6 DEF Trade
  <2> QED
    BY <2>1, SellerFrame DEF IInv
<1>10. ASSUME NEW k \in Hash PROVE MatchOK(k, bids', asks')
  BY <1>1, <1>6, MatchesDiffer DEF IInv, MatchOK
<1>11. ASSUME NEW m \in net' PROVE MessageOK(m, asks')
  <2>1. CASE m \in net
    BY <2>1 DEF IInv, MessageOK
  <2>2. CASE m = Request(h)
    BY <2>2 DEF MessageOK, Request
  <2> QED
    BY <1>6, <2>1, <2>2
<1> QED
  BY <1>7, <1>8, <1>9, <1>10, <1>11 DEF IInv

LEMMA ParseOpenOrderStep ==
    ASSUME IInv, NEW n \in Node, NEW t \in Trade, ParseOpenOrder(n, t)
    PROVE  IInv'
<1>1. UNCHANGED <<book, asks, aged>>
  BY DEF ParseOpenOrder
<1>2. CASE ExpireOnly(Undo(n), Kept(n))
  BY <1>1, <1>2, ExpireStep
<1>3. CASE ~ ExpireOnly(Undo(n), Kept(n))
  <2>1. /\ t \in Seller
        /\ \E b \in Buyer :
             /\ Found(n, t, Undo(n), b)
             /\ \E h \in HashesOf(b, t) : Reserve(h, Undo(n), Kept(n))
    BY <1>3 DEF ParseOpenOrder
  <2>2. PICK b \in Buyer :
             /\ Found(n, t, Undo(n), b)
             /\ \E h \in HashesOf(b, t) : Reserve(h, Undo(n), Kept(n))
    BY <2>1
  <2>3. PICK h \in HashesOf(b, t) : Reserve(h, Undo(n), Kept(n))
    BY <2>2
  <2>4. h.buyer = b /\ h.order = t
    BY DEF HashesOf
  <2>6. Fits(b, t, Undo(n)) /\ Reserve(h, Undo(n), Kept(n))
    BY <2>2, <2>3 DEF Found
  <2>5. h \in Hash
    BY <2>1, <2>4, HashIs
  <2> QED
    BY <1>1, <2>4, <2>5, <2>6, ReserveStep
<1> QED
  BY <1>2, <1>3

(***************************************************************************)
(* A request that is taken: the seller's trade was open, so it had no      *)
(* match, and no answer of it is in flight.                                *)
(***************************************************************************)
LEMMA RequestTaken ==
    ASSUME IInv, NEW m \in net, m.kind = "match_order", TakesRequest(m)
    PROVE  /\ m.hash \in Hash /\ Fitting(m.hash) /\ AskedIn(m.hash.order, asks) = {}
           /\ trade' = [trade EXCEPT ![m.hash.order] = Sold(m.hash)]
           /\ \/ /\ asks' = [asks EXCEPT ![m.hash] = Told(m.hash)]
                 /\ net' = net \cup {Answer(m, SellTerms(m.hash))}
              \/ asks' = [asks EXCEPT ![m.hash] = Failed] /\ net' = net
<1> DEFINE h == m.hash
           s == m.hash.order
           theirs == OpenTrade("buy", m.terms.amount, m.terms.ppc)
           p == MatchTrades(theirs, trade[s])
           terms == [amount |-> p.sell.sent - trade[s].sent, ppc |-> trade[s].ppc]
<1>0. /\ h \in Hash /\ s \in Seller /\ s \in Trade /\ s \notin Buyer
      /\ Amount[h.buyer] \in Nat
  BY HashFacts DEF IInv, MessageOK
<1>1. m.terms.amount = Amount[h.buyer] /\ m.terms.ppc = Price[h.buyer]
  <2>1. m = Request(h)
    <3>1. Answer(m, SellTerms(h)).kind # "match_order"
      BY DEF Answer
    <3> QED
      BY <3>1 DEF IInv, MessageOK
  <2>2. /\ Request(h).terms.amount = Amount[h.buyer]
        /\ Request(h).terms.ppc = Price[h.buyer]
    BY DEF Request
  <2> QED
    BY <2>1, <2>2
<1>2. /\ trade[s].status = "open"
      /\ Price[h.buyer] >= trade[s].ppc /\ Amount[h.buyer] = trade[s].amount
  BY <1>1 DEF TakesRequest, Matchable, OpenTrade
<1>3. AskedIn(s, asks) = {} /\ trade[s] = Waiting("sell", s, "open")
  <2>1. SellerOK(s, trade, asks) /\ trade[s].status # "closed"
    BY <1>0, <1>2 DEF IInv
  <2>2. AskedIn(s, asks) = {} /\ \E st \in NotClosed : trade[s] = Waiting("sell", s, st)
    BY <2>1, OpenSeller
  <2>3. PICK st \in NotClosed : trade[s] = Waiting("sell", s, st)
    BY <2>2
  <2>4. Waiting("sell", s, st).status = st
    BY RecordFields
  <2> QED
    BY <1>2, <2>2, <2>3, <2>4
<1>4. trade[s].amount = Amount[s] /\ trade[s].ppc = Price[s] /\ trade[s].sent = 0
  BY <1>3 DEF Waiting
<1>5. Fitting(h) /\ trade[s] = OpenTrade("sell", Amount[s], Price[s])
  <2>1. Waiting("sell", s, "open") = OpenTrade("sell", Amount[s], Price[s])
    BY RecordFields
  <2> QED
    BY <1>2, <1>3, <1>4, <2>1 DEF Fitting
<1>6. p.sell = Sold(h)
  <2>1. p = MatchTrades(OpenTrade("buy", Amount[h.buyer], Price[h.buyer]),
                        OpenTrade("sell", Amount[h.order], Price[h.order]))
    BY <1>1, <1>5
  <2> QED
    BY <1>0, <1>5, <2>1, SwapMade
<1>7. terms = SellTerms(h)
  <2>1. p.sell.sent = Amount[s]
    BY <1>5, <1>6, RecordFields DEF Fitting
  <2>2. p.sell.sent - trade[s].sent = Amount[s]
    BY <1>0, <1>4, <2>1, TradeFacts
  <2> HIDE DEF p
  <2> QED
    BY <1>4, <2>2 DEF SellTerms
<1> HIDE DEF h, s, p, terms
<1>8. /\ trade' = [trade EXCEPT ![s] = Sold(h)]
      /\ \/ asks' = [asks EXCEPT ![h] = Told(h)] /\ net' = net \cup {Answer(m, SellTerms(h))}
         \/ asks' = [asks EXCEPT ![h] = Failed] /\ net' = net
  BY <1>6, <1>7 DEF TakesRequest, Told, Failed, h, s, p, terms
<1> QED
  BY <1>0, <1>3, <1>5, <1>8 DEF h, s

LEMMA TakesRequestStep ==
    ASSUME IInv, NEW m \in net, m.kind = "match_order", TakesRequest(m),
           UNCHANGED <<book, advertised, bids, aged>>
    PROVE  IInv'
<1> DEFINE h == m.hash
           s == m.hash.order
<1>1. /\ h \in Hash /\ Fitting(h) /\ AskedIn(s, asks) = {}
      /\ trade' = [trade EXCEPT ![s] = Sold(h)]
      /\ \/ asks' = [asks EXCEPT ![h] = Told(h)] /\ net' = net \cup {Answer(m, SellTerms(h))}
         \/ asks' = [asks EXCEPT ![h] = Failed] /\ net' = net
  BY RequestTaken
<1>2. s \in Seller /\ s \in Trade /\ s \notin Buyer
  BY <1>1, HashFacts
<1> HIDE DEF h, s
<1>3. /\ \A k \in Hash : k # h => asks'[k] = asks[k]
      /\ asks[h] = NoMatch /\ asks'[h] \in {Failed, Told(h)}
      /\ net' # net => asks'[h] = Told(h)
      /\ net' \subseteq net \cup {Answer(m, SellTerms(h))}
  BY <1>1 DEF IInv, TypeOK, AskedIn, h, s
<1>4. TypeOK'
  <2>1. Answer(m, SellTerms(h)) \in Message
    BY <1>1, MatchTypes DEF Answer, Message, h
  <2> QED
    BY <1>2, <1>1, <2>1, MatchTypes DEF IInv, TypeOK
<1>5. ASSUME NEW b \in Buyer PROVE BuyerOK(b, trade', bids')
  <2>1. trade'[b] = trade[b]
    BY <1>2, <1>1 DEF IInv, TypeOK, Trade
  <2> QED
    BY <2>1, BuyerFrame DEF IInv
<1>6. ASSUME NEW x \in Seller PROVE SellerOK(x, trade', asks')
  <2>1. CASE x = s
    <3>1. AskedIn(s, asks') = {h}
      BY <1>1, <1>3, MatchesDiffer DEF AskedIn, h, s
    <3>2. trade'[s] = Sold(h)
      BY <1>2, <1>1 DEF IInv, TypeOK
    <3> QED
      BY <1>1, <2>1, <3>1, <3>2 DEF SellerOK
  <2>2. CASE x # s
    <3>1. trade'[x] = trade[x]
      BY <1>2, <1>1, <2>2 DEF IInv, TypeOK, Trade
    <3>2. \A k \in Hash : k.order = x => asks'[k] = asks[k]
      BY <1>3, <2>2 DEF h, s
    <3> QED
      BY <3>1, <3>2, SellerFrame DEF IInv
  <2> QED
    BY <2>1, <2>2
<1>7. ASSUME NEW k \in Hash PROVE MatchOK(k, bids', asks')
  BY <1>1, <1>3, MatchesDiffer DEF IInv, MatchOK
<1>8. ASSUME NEW x \in net' PROVE MessageOK(x, asks')
  <2>1. CASE x \in net
    <3>1. MessageOK(x, asks)
      BY <2>1 DEF IInv
    <3>2. x.hash \in Hash /\ (asks[x.hash] = Told(x.hash) => x.hash # h)
      BY <1>1, <1>3, <3>1, MatchesDiffer DEF MessageOK
    <3> QED
      BY <1>3, <3>1, <3>2 DEF MessageOK
  <2>2. CASE x \notin net
    <3>1. x = Answer(m, SellTerms(h)) /\ asks'[h] = Told(h)
      BY <1>3, <2>2
    <3>2. x.hash = h /\ Answer(x, SellTerms(h)) = Answer(m, SellTerms(h))
      BY <3>1 DEF Answer, h
    <3> QED
      BY <1>1, <3>1, <3>2 DEF MessageOK
  <2> QED
    BY <2>1, <2>2
<1> QED
  BY <1>4, <1>5, <1>6, <1>7, <1>8 DEF IInv

LEMMA ParseRequestStep ==
    ASSUME IInv, NEW m \in net, ParseRequest(m)
    PROVE  IInv'
<1>1. CASE TakesRequest(m)
  BY <1>1, TakesRequestStep DEF ParseRequest
<1>2. CASE NothingToMatch(m)
  BY <1>2 DEF ParseRequest, NothingToMatch, IInv, TypeOK
<1> QED
  BY <1>1, <1>2 DEF ParseRequest

(***************************************************************************)
(* An answer that is applied, for the first time or once more: the trade   *)
(* stays filled, and the match has the terms the seller booked.            *)
(***************************************************************************)
LEMMA AppliedAnswer ==
    ASSUME IInv, NEW h \in Hash, bids[h] # NoMatch
    PROVE  /\ Applied(h, SellTerms(h)).ours = Bought(h)
           /\ Applied(h, SellTerms(h)).order = Agreed(h).order
<1> DEFINE order == OpenTrade("sell", Amount[h.order], Price[h.order])
           p == UnmatchTrades(trade[h.buyer], bids[h].order)
<1>1. Fitting(h) /\ trade[h.buyer] = Bought(h) /\ bids[h] \in {Reserved(h), Agreed(h)}
  BY OnlyBid DEF IInv, MatchOK
<1>2. SellTerms(h).amount = Amount[h.order] /\ SellTerms(h).ppc = Price[h.order]
  BY DEF SellTerms
<1>3. Agreed(h).order = order /\ Reserved(h).order = Sold(h)
  BY DEF Agreed, Reserved
<1>4. MatchTrades(p.buy, order).buy = Bought(h) /\ p.sell = order
  <2>1. CASE bids[h] = Reserved(h)
    <3>1. p = UnmatchTrades(Bought(h), Sold(h))
      BY <1>1, <1>3, <2>1
    <3>2. p.buy = OpenTrade("buy", Amount[h.buyer], Price[h.buyer]) /\ p.sell = order
      BY <1>1, <3>1, SwapUndone DEF Fitting
    <3> HIDE DEF p, order
    <3>3. MatchTrades(OpenTrade("buy", Amount[h.buyer], Price[h.buyer]), order).buy = Bought(h)
      BY <1>1, SwapMade DEF order
    <3> QED
      BY <3>2, <3>3
  <2>2. CASE bids[h] = Agreed(h)
    <3>1. p = UnmatchTrades(Bought(h), Agreed(h).order)
      BY <1>1, <2>2
    <3>2. p = [buy |-> Bought(h), sell |-> Agreed(h).order]
      BY <1>1, <3>1, SwapApplied
    <3>4. p.buy = Bought(h) /\ p.sell = order
      BY ONLY <1>3, <3>2
    <3> HIDE DEF p, order
    <3>3. MatchTrades(Bought(h), order).buy = Bought(h)
      BY <1>1, <1>3, SwapApplied
    <3> QED
      BY <3>3, <3>4
  <2> QED
    BY <1>1, <2>1, <2>2
<1>5. /\ Applied(h, SellTerms(h)).ours = MatchTrades(p.buy, order).buy
      /\ Applied(h, SellTerms(h)).order = p.sell
  BY <1>2 DEF Applied
<1> QED
  BY <1>3, <1>4, <1>5

LEMMA AnswerTaken ==
    ASSUME IInv, NEW m \in net, ParseAnswer(m)
    PROVE  /\ m.hash \in Hash /\ asks[m.hash] = Told(m.hash)
           /\ \/ UNCHANGED <<trade, bids>>
              \/ /\ bids[m.hash] # NoMatch /\ UNCHANGED trade
                 /\ bids' = [bids EXCEPT ![m.hash] = Agreed(m.hash)]
<1> DEFINE h == m.hash
<1>1. h \in Hash /\ m.terms = SellTerms(h) /\ asks[h] = Told(h)
  <2>1. h \in Hash /\ (m = Request(h) \/ (m = Answer(m, SellTerms(h)) /\ asks[h] = Told(h)))
    BY DEF IInv, MessageOK
  <2>2. m # Request(h)
    <3>1. Request(h).kind = "match_order"
      BY DEF Request
    <3> QED
      BY <3>1 DEF ParseAnswer
  <2>3. Answer(m, SellTerms(h)).terms = SellTerms(h)
    BY DEF Answer
  <2> QED
    BY <2>1, <2>2, <2>3
<1>2. CASE ~ Accepts(h)
  BY <1>1, <1>2 DEF ParseAnswer
<1>3. CASE Accepts(h)
  <2>0. bids[h] # NoMatch /\ h.buyer \in Trade
    BY <1>1, <1>3, HashFacts DEF Accepts
  <2>1. LiveIn(h.buyer, bids) = {h} /\ Fitting(h) /\ trade[h.buyer] = Bought(h)
    BY <1>1, <2>0, OnlyBid
  <2>2. trade' = [trade EXCEPT ![h.buyer] = Bought(h)]
    BY <1>1, <1>3, <2>0, AppliedAnswer DEF ParseAnswer
  <2>3. trade' = trade
    BY <2>0, <2>1, <2>2 DEF IInv, TypeOK
  <2>4. [state |-> "pending_handshake", reply |-> m.terms, order |-> Applied(h, m.terms).order]
          = Agreed(h)
    <3>1. Applied(h, m.terms).order = Agreed(h).order
      BY <1>1, <2>0, AppliedAnswer
    <3> QED
      BY <1>1, <3>1 DEF Agreed
  <2>5. bids' = [bids EXCEPT ![h] = Agreed(h)]
    BY <1>3, <2>4 DEF ParseAnswer
  <2> QED
    BY <1>1, <2>0, <2>3, <2>5
<1> QED
  BY <1>2, <1>3

LEMMA ParseAnswerStep ==
    ASSUME IInv, NEW m \in net, ParseAnswer(m)
    PROVE  IInv'
<1> DEFINE h == m.hash
<1>1. h \in Hash /\ asks[h] = Told(h)
  BY AnswerTaken
<1>2. CASE UNCHANGED <<trade, bids>>
  BY <1>2 DEF ParseAnswer, IInv, TypeOK, MessageOK
<1>3. CASE bids[h] # NoMatch /\ trade' = trade /\ bids' = [bids EXCEPT ![h] = Agreed(h)]
  <2>1. bids'[h] = Agreed(h) /\ \A k \in Hash : k # h => bids'[k] = bids[k]
    BY <1>1, <1>3 DEF IInv, TypeOK
  <2>2. TypeOK'
    BY <1>1, <1>3, MatchTypes DEF IInv, TypeOK, ParseAnswer
  <2>3. ASSUME NEW b \in Buyer PROVE BuyerOK(b, trade', bids')
    <3>1. Agreed(h) # NoMatch
      BY <1>1, MatchesDiffer
    <3> HIDE DEF h
    <3>2. bids'[h] # NoMatch /\ bids[h] # NoMatch /\ trade' = trade
      BY <1>3, <2>1, <3>1
    <3>3. \A k \in Hash : (bids'[k] = NoMatch <=> bids[k] = NoMatch)
      BY <2>1, <3>2
    <3> QED
      BY <3>2, <3>3, BuyerFrame DEF IInv
  <2>4. ASSUME NEW s \in Seller PROVE SellerOK(s, trade', asks')
    BY <1>3, SellerFrame DEF IInv, ParseAnswer
  <2>5. ASSUME NEW k \in Hash PROVE MatchOK(k, bids', asks')
    BY <1>1, <2>1 DEF IInv, MatchOK, ParseAnswer
  <2>6. \A x \in net' : MessageOK(x, asks')
    BY DEF IInv, MessageOK, ParseAnswer
  <2> QED
    BY <2>2, <2>3, <2>4, <2>5, <2>6 DEF IInv
<1> QED
  BY <1>2, <1>3, AnswerTaken

LEMMA SilentStep ==
    ASSUME IInv, NEW x \in Seller, Silent(x)
    PROVE  IInv'
BY DEF Silent, IInv, TypeOK, MessageOK

LEMMA NextIInv == ASSUME IInv, [Next]_vars PROVE IInv'
<1>1. CASE UNCHANGED vars
  BY <1>1 DEF vars, IInv, TypeOK, MessageOK
<1>2. CASE Next
  BY <1>2, DepositConfirmStep, OpenTradesStep, ParseOpenOrderStep, ParseRequestStep,
     ParseAnswerStep, AgeStep, SilentStep DEF Next
<1> QED
  BY <1>1, <1>2

LEMMA Invariant == Spec => []IInv
<1>1. Init => IInv
  BY InitIInv
<1>2. IInv /\ [Next]_vars => IInv'
  BY NextIInv
<1> QED
  BY <1>1, <1>2, PTL DEF Spec

-----------------------------------------------------------------------------
(***************************************************************************)
(* Whatever orders, requests and answers come, and however often, trades   *)
(* and matches stay among those the handlers know.                         *)
(***************************************************************************)
THEOREM TypeCorrect == Spec => []TypeOK
<1>1. IInv => TypeOK
  BY DEF IInv
<1> QED
  BY <1>1, Invariant, PTL

(***************************************************************************)
(* A buyer's trade has coins reserved exactly while it has a match, and    *)
(* never more than one: undoing a match restores the trade it reserved.    *)
(***************************************************************************)
LEMMA IInvReservedOnce == ASSUME IInv PROVE ReservedOnce
<1> SUFFICES ASSUME NEW b \in Buyer
             PROVE  /\ trade[b].status = "closed" <=> Live(b) # {}
                    /\ \A h, k \in Live(b) : h = k
                    /\ Live(b) = {} => trade[b].sent = 0 /\ trade[b].recv = 0
  BY DEF ReservedOnce
<1>1. LiveIn(b, bids) = Live(b) /\ BuyerOK(b, trade, bids)
  BY DEF LiveIn, Live, IInv
<1>2. "closed" \notin NotClosed
  BY DEF NotClosed
<1>3. CASE Live(b) = {} /\ \E st \in NotClosed : trade[b] = Waiting("buy", b, st)
  <2>1. PICK st \in NotClosed : trade[b] = Waiting("buy", b, st)
    BY <1>3
  <2>2. trade[b].status = st /\ trade[b].sent = 0 /\ trade[b].recv = 0
    BY <2>1, RecordFields
  <2>3. trade[b].status # "closed"
    BY <1>2, <2>2
  <2> QED
    BY <1>3, <2>2, <2>3
<1>4. CASE \E h \in Hash : Live(b) = {h} /\ trade[b] = Bought(h)
  BY <1>4, RecordFields
<1> QED
  BY <1>1, <1>3, <1>4 DEF BuyerOK

THEOREM ReservationsHold == Spec => []ReservedOnce
<1>1. IInv => ReservedOnce
  BY IInvReservedOnce
<1> QED
  BY <1>1, Invariant, PTL

(***************************************************************************)
(* Both sides book what the terms of their match come to at the seller's   *)
(* price, and the buyer's terms are those the seller sent.                 *)
(***************************************************************************)
LEMMA IInvTotals == ASSUME IInv PROVE TotalsMatchContract
<1> SUFFICES ASSUME NEW h \in Hash
             PROVE  /\ bids[h] # NoMatch =>
                          SwapOf([amount |-> Amount[h.order], ppc |-> Price[h.order]],
                                 trade[h.buyer].sent, trade[h.buyer].recv)
                    /\ asks[h] # NoMatch /\ asks[h].sent # NoMatch =>
                          SwapOf(asks[h].sent, trade[h.order].recv, trade[h.order].sent)
                    /\ bids[h] # NoMatch /\ bids[h].reply # NoMatch =>
                          asks[h] # NoMatch /\ bids[h].reply = asks[h].sent
  BY DEF TotalsMatchContract
<1>1. SellTerms(h) = [amount |-> Amount[h.order], ppc |-> Price[h.order]]
  BY DEF SellTerms
<1>2. Fitting(h) => SwapOf(SellTerms(h), Amount[h.buyer] * Price[h.order], Amount[h.buyer])
  BY DEF Fitting, SwapOf, SellTerms
<1>3. ASSUME bids[h] # NoMatch
      PROVE  SwapOf(SellTerms(h), trade[h.buyer].sent, trade[h.buyer].recv)
  BY <1>2, <1>3, OnlyBid, RecordFields
<1>4. ASSUME asks[h] # NoMatch, asks[h].sent # NoMatch
      PROVE  SwapOf(asks[h].sent, trade[h.order].recv, trade[h.order].sent)
  <2>1. asks[h].sent = SellTerms(h)
    BY <1>4, MatchesDiffer DEF IInv, MatchOK
  <2> QED
    BY <1>2, <1>4, <2>1, OnlyAsk, RecordFields
<1>5. ASSUME bids[h] # NoMatch, bids[h].reply # NoMatch
      PROVE  asks[h] # NoMatch /\ bids[h].reply = asks[h].sent
  BY <1>5, MatchesDiffer DEF IInv, MatchOK
<1> QED
  BY <1>1, <1>3, <1>4, <1>5

THEOREM SwapsHold == Spec => []TotalsMatchContract
<1>1. IInv => TotalsMatchContract
  BY IInvTotals
<1> QED
  BY <1>1, Invariant, PTL

-----------------------------------------------------------------------------
(***************************************************************************)
(* The refinement.  partner and deal depend on the matches alone.          *)
(***************************************************************************)
BoundIn(s, ak) == {h \in Hash : h.order = s /\ ak[h] # NoMatch /\ ak[h].sent # NoMatch}

AnsweredIn(b, bd) == {h \in LiveIn(b, bd) : bd[h].reply # NoMatch}

PartnerIn(s, ak) ==
    IF BoundIn(s, ak) = {} THEN Nobody ELSE (CHOOSE h \in BoundIn(s, ak) : TRUE).buyer

DealIn(b, bd) ==
    IF AnsweredIn(b, bd) = {} THEN Nobody ELSE (CHOOSE h \in AnsweredIn(b, bd) : TRUE).order

LEMMA Mapping ==
    /\ partner = [s \in Seller |-> PartnerIn(s, asks)]
    /\ partner' = [s \in Seller |-> PartnerIn(s, asks')]
    /\ deal = [b \in Buyer |-> DealIn(b, bids)]
    /\ deal' = [b \in Buyer |-> DealIn(b, bids')]
<1>1. /\ partner = [s \in Seller |-> PartnerIn(s, asks)]
      /\ partner' = [s \in Seller |-> PartnerIn(s, asks')]
  BY Zenon DEF partner, PartnerIn, Bound, BoundIn
<1>2. /\ deal = [b \in Buyer |-> DealIn(b, bids)]
      /\ deal' = [b \in Buyer |-> DealIn(b, bids')]
  BY Zenon DEF deal, DealIn, Answered, Live, AnsweredIn, LiveIn
<1> QED
  BY <1>1, <1>2

LEMMA SamePartners ==
    ASSUME NEW ak, NEW ak2, NEW s,
           \A h \in Hash : h.order = s =>
              ((ak2[h] # NoMatch /\ ak2[h].sent # NoMatch)
                 <=> (ak[h] # NoMatch /\ ak[h].sent # NoMatch))
    PROVE  PartnerIn(s, ak2) = PartnerIn(s, ak)
<1>1. BoundIn(s, ak2) = BoundIn(s, ak)
  BY DEF BoundIn
<1> QED
  BY <1>1 DEF PartnerIn

LEMMA SameDeals ==
    ASSUME NEW bd, NEW bd2, NEW b,
           \A h \in Hash : h.buyer = b =>
              ((bd2[h] # NoMatch /\ bd2[h].reply # NoMatch)
                 <=> (bd[h] # NoMatch /\ bd[h].reply # NoMatch))
    PROVE  DealIn(b, bd2) = DealIn(b, bd)
<1>1. AnsweredIn(b, bd2) = AnsweredIn(b, bd)
  BY DEF AnsweredIn, LiveIn
<1> QED
  BY <1>1 DEF DealIn

(***************************************************************************)
(* A request that is taken binds the seller, unless its answer was never   *)
(* made.                                                                   *)
(***************************************************************************)
LEMMA RequestRefines ==
    ASSUME IInv, NEW m \in net, m.kind = "match_order", TakesRequest(m), UNCHANGED bids
    PROVE  Pairs!Next \/ UNCHANGED <<partner, deal>>
<1> DEFINE h == m.hash
           s == m.hash.order
           b == m.hash.buyer
<1>1. /\ h \in Hash /\ Fitting(h) /\ AskedIn(s, asks) = {}
      /\ \/ asks' = [asks EXCEPT ![h] = Told(h)]
         \/ asks' = [asks EXCEPT ![h] = Failed]
  BY RequestTaken
<1>2. h.order = s /\ h.buyer = b /\ s \in Seller /\ b \in Buyer
  BY <1>1, HashFacts
<1> HIDE DEF h, s, b
<1>3. deal' = deal
  BY Mapping
<1>4. asks[h] = NoMatch /\ \A k \in Hash : k # h => asks'[k] = asks[k]
  BY <1>1, <1>2 DEF AskedIn, IInv, TypeOK
<1>5. ASSUME NEW x \in Seller, x # s PROVE PartnerIn(x, asks') = PartnerIn(x, asks)
  <2>1. \A k \in Hash : k.order = x => asks'[k] = asks[k]
    BY <1>2, <1>4, <1>5
  <2> QED
    BY <2>1, SamePartners
<1>6. CASE asks' = [asks EXCEPT ![h] = Told(h)]
  <2>1. asks'[h] = Told(h) /\ Told(h) # NoMatch /\ Told(h).sent # NoMatch
    BY <1>1, <1>6, MatchesDiffer DEF IInv, TypeOK
  <2>2. BoundIn(s, asks) = {}
    BY <1>1 DEF BoundIn, AskedIn
  <2>3. BoundIn(s, asks') = {h}
    BY <1>1, <1>2, <1>4, <2>1, <2>2 DEF BoundIn
  <2>4. PartnerIn(s, asks) = Nobody
    BY <2>2 DEF PartnerIn
  <2>5. PartnerIn(s, asks') = b
    BY <1>2, <2>3 DEF PartnerIn
  <2>6. partner[s] = Nobody /\ partner' = [partner EXCEPT ![s] = b]
    BY <1>2, <1>5, <2>4, <2>5, Mapping
  <2>7. Pairs!Compatible(b, s)
    BY <1>1, <1>2 DEF Fitting, Pairs!Compatible
  <2>8. Pairs!SellerCommits(s, b)
    BY <1>3, <2>6, <2>7 DEF Pairs!SellerCommits
  <2> QED
    BY <1>2, <2>8 DEF Pairs!Next
<1>7. CASE asks' = [asks EXCEPT ![h] = Failed]
  <2>1. asks'[h].sent = NoMatch
    BY <1>1, <1>7, MatchesDiffer DEF IInv, TypeOK
  <2>2. PartnerIn(s, asks') = PartnerIn(s, asks)
    BY <1>4, <2>1, SamePartners
  <2>3. partner' = partner
    BY <1>5, <2>2, Mapping
  <2> QED
    BY <1>3, <2>3
<1> QED
  BY <1>1, <1>6, <1>7

(***************************************************************************)
(* The answer that is applied first binds the buyer to a seller that is    *)
(* bound to it; a second copy changes nothing.                             *)
(***************************************************************************)
LEMMA AnswerRefines ==
    ASSUME IInv, NEW m \in net, ParseAnswer(m)
    PROVE  Pairs!Next \/ UNCHANGED <<partner, deal>>
<1> DEFINE h == m.hash
           s == m.hash.order
           b == m.hash.buyer
<1>1. /\ h \in Hash /\ asks[h] = Told(h)
      /\ \/ UNCHANGED bids
         \/ bids[h] # NoMatch /\ bids' = [bids EXCEPT ![h] = Agreed(h)]
  BY AnswerTaken
<1>2. h.order = s /\ h.buyer = b /\ s \in Seller /\ b \in Buyer
  BY <1>1, HashFacts
<1>3. asks' = asks
  BY DEF ParseAnswer
<1> HIDE DEF h, s, b
<1>4. partner' = partner
  BY <1>3, Mapping
<1>5. CASE UNCHANGED bids
  BY <1>4, <1>5, Mapping
<1>6. CASE bids[h] # NoMatch /\ bids' = [bids EXCEPT ![h] = Agreed(h)]
  <2>1. /\ bids'[h] = Agreed(h) /\ Agreed(h) # NoMatch /\ Agreed(h).reply # NoMatch
        /\ \A k \in Hash : k # h => bids'[k] = bids[k]
    BY <1>1, <1>6, MatchesDiffer DEF IInv, TypeOK
  <2>2. ASSUME NEW x \in Buyer, x # b PROVE DealIn(x, bids') = DealIn(x, bids)
    <3>1. \A k \in Hash : k.buyer = x => bids'[k] = bids[k]
      BY <1>2, <2>1, <2>2
    <3> QED
      BY <3>1, SameDeals
  <2>3. CASE bids[h].reply # NoMatch
    <3>0. \A k \in Hash : (bids'[k] # NoMatch /\ bids'[k].reply # NoMatch)
                             <=> (bids[k] # NoMatch /\ bids[k].reply # NoMatch)
      BY <1>6, <2>1, <2>3
    <3>1. DealIn(b, bids') = DealIn(b, bids)
      BY <3>0, SameDeals
    <3>2. deal' = deal
      BY <2>2, <3>1, Mapping
    <3> QED
      BY <1>4, <3>2
  <2>4. CASE bids[h].reply = NoMatch
    <3>1. LiveIn(b, bids) = {h} /\ Fitting(h)
      BY <1>1, <1>2, <1>6, OnlyBid
    <3>2. AnsweredIn(b, bids) = {}
      BY <2>4, <3>1 DEF AnsweredIn, LiveIn
    <3>3. AnsweredIn(b, bids') = {h}
      BY <1>1, <1>2, <2>1, <3>2 DEF AnsweredIn, LiveIn
    <3>4. DealIn(b, bids) = Nobody
      BY <3>2 DEF DealIn
    <3>5. DealIn(b, bids') = s
      BY <1>2, <3>3 DEF DealIn
    <3>6. deal[b] = Nobody /\ deal' = [deal EXCEPT ![b] = s]
      BY <1>2, <2>2, <3>4, <3>5, Mapping
    <3>7. Told(h) # NoMatch /\ Told(h).sent # NoMatch
      BY <1>1, MatchesDiffer
    <3>8. BoundIn(s, asks) = {h}
      <4>1. AskedIn(s, asks) = {h}
        BY <1>1, <1>2, <3>7, OnlyAsk
      <4> QED
        BY <1>1, <1>2, <3>7, <4>1 DEF BoundIn, AskedIn
    <3>9. PartnerIn(s, asks) = b
      BY <1>2, <3>8 DEF PartnerIn
    <3>10. partner[s] = b
      BY <1>2, <3>9, Mapping
    <3>11. Pairs!BuyerCommits(b, s)
      BY <1>4, <3>6, <3>10 DEF Pairs!BuyerCommits
    <3> QED
      BY <1>2, <3>11 DEF Pairs!Next
  <2> QED
    BY <2>3, <2>4
<1> QED
  BY <1>1, <1>5, <1>6

(***************************************************************************)
(* A reservation is made and undone without a trace in deal.               *)
(***************************************************************************)
LEMMA OpenOrderRefines ==
    ASSUME IInv, NEW n \in Node, NEW t \in Trade, ParseOpenOrder(n, t)
    PROVE  UNCHANGED <<partner, deal>>
<1>1. partner' = partner
  BY Mapping DEF ParseOpenOrder
<1>2. ASSUME NEW k \in Hash
      PROVE  (Kept(n)[k] # NoMatch /\ Kept(n)[k].reply # NoMatch)
                <=> (bids[k] # NoMatch /\ bids[k].reply # NoMatch)
  BY DEF Kept, Expired
<1>3. ASSUME NEW k \in Hash
      PROVE  (bids'[k] # NoMatch /\ bids'[k].reply # NoMatch)
                <=> (bids[k] # NoMatch /\ bids[k].reply # NoMatch)
  <2>1. CASE bids' = Kept(n)
    BY <1>2, <2>1
  <2>2. CASE bids' # Kept(n)
    <3>1. ~ ExpireOnly(Undo(n), Kept(n))
      BY <2>2 DEF ExpireOnly
    <3>2. PICK b \in Buyer : \E g \in HashesOf(b, t) : Fresh(g) /\ Reserve(g, Undo(n), Kept(n))
      BY <3>1, Zenon DEF ParseOpenOrder
    <3>3. PICK h \in HashesOf(b, t) : Fresh(h) /\ Reserve(h, Undo(n), Kept(n))
      BY <3>2
    <3>4. Fresh(h) /\ Reserve(h, Undo(n), Kept(n))
      BY <3>3
    <3>5. PICK sold : bids' = [Kept(n) EXCEPT ![h] = [state |-> "pending_calibration",
                                                     reply |-> NoMatch, order |-> sold]]
      BY <3>4 DEF Reserve
    <3>6. CASE k = h
      <4>1. bids'[k].reply = NoMatch
        BY <3>5, <3>6, AfterExpiry
      <4>2. bids[k] = NoMatch
        BY <3>6, <3>4 DEF Fresh, Unused
      <4> QED
        BY <4>1, <4>2
    <3>7. CASE k # h
      BY <1>2, <3>5, <3>7, AfterExpiry
    <3> QED
      BY <3>6, <3>7
  <2> QED
    BY <2>1, <2>2
<1>4. \A b \in Buyer : DealIn(b, bids') = DealIn(b, bids)
  BY <1>3, SameDeals
<1>5. deal' = deal
  BY <1>4, Mapping
<1> QED
  BY <1>1, <1>5

LEMMA StepRefines == ASSUME IInv, [Next]_vars PROVE [Pairs!Next]_<<partner, deal>>
<1>1. CASE UNCHANGED <<bids, asks>>
  BY <1>1, Mapping
<1>2. ASSUME NEW n \in Node, NEW t \in Trade, ParseOpenOrder(n, t)
      PROVE  UNCHANGED <<partner, deal>>
  BY <1>2, OpenOrderRefines
<1>3. ASSUME NEW m \in net, ParseRequest(m)
      PROVE  Pairs!Next \/ UNCHANGED <<partner, deal>>
  <2>1. CASE TakesRequest(m)
    BY <1>3, <2>1, RequestRefines DEF ParseRequest
  <2>2. CASE NothingToMatch(m)
    BY <1>1, <1>3, <2>2 DEF ParseRequest, NothingToMatch
  <2> QED
    BY <1>3, <2>1, <2>2 DEF ParseRequest
<1>4. ASSUME NEW m \in net, ParseAnswer(m)
      PROVE  Pairs!Next \/ UNCHANGED <<partner, deal>>
  BY <1>4, AnswerRefines
<1>5. \/ UNCHANGED <<bids, asks>>
      \/ \E n \in Node, t \in Trade : ParseOpenOrder(n, t)
      \/ \E m \in net : ParseRequest(m) \/ ParseAnswer(m)
  BY DEF vars, Next, DepositConfirm, OpenTrades, Silent, Age
<1> QED
  BY <1>1, <1>2, <1>3, <1>4, <1>5

(***************************************************************************)
(* Whatever is lost, late, timed out, asked or answered twice, a seller is *)
(* bound to one buyer for good, and a buyer only to a seller bound to it.  *)
(***************************************************************************)
THEOREM PairsUp == Spec => ImplementsPairing
<1>1. Init => Pairs!Init
  <2>1. ASSUME Init PROVE Pairs!Init
    <3>1. \A s \in Seller : Bound(s) = {}
      BY <2>1 DEF Init, Bound
    <3>2. \A b \in Buyer : Answered(b) = {}
      BY <2>1 DEF Init, Answered, Live
    <3> QED
      BY <3>1, <3>2 DEF Pairs!Init, partner, deal
  <2> QED
    BY <2>1
<1>2. IInv /\ [Next]_vars => [Pairs!Next]_<<partner, deal>>
  BY StepRefines
<1> QED
  BY <1>1, <1>2, Invariant, PTL DEF Spec, Pairs!Spec, ImplementsPairing
=============================================================================
