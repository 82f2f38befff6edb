--------------------------- MODULE OrderMatching ---------------------------
(***************************************************************************)
(* How open orders find each other: parse_open_order and parse_match_order *)
(* of hybrid_protocol.py, the order broadcast of main.py and the deposit   *)
(* callback of trade_engine.py, for any number of nodes and trades of one  *)
(* currency pair, none of them for one direct peer (dest_ip = "").         *)
(*                                                                         *)
(* A seller's order is broadcast again and again.  A node that buys        *)
(* reserves its trade for the first order that fits and sends a match      *)
(* request (match_hash "0"); the seller takes the first request for an     *)
(* open order and answers with a calibrated match; the buyer undoes the    *)
(* reservation and applies the answer.  A reservation without an answer    *)
(* is undone after five minutes, the seller's side never is.               *)
(***************************************************************************)
EXTENDS Trades, MatchState, Sequences, FiniteSets

CONSTANTS
    Node,          \* the nodes of the network
    Buyer, Seller, \* trades
    Home,          \* the node of a trade
    Amount, Price, \* of a trade
    Attempts,      \* bound: the match requests of a buyer for each order
    RatesFail,     \* may new_match_order raise, for want of exchange rates?
    Nobody, NoMatch

Trade == Buyer \cup Seller

ASSUME TradeAssumption ==
    /\ Buyer \cap Seller = {}
    /\ Home \in [Trade -> Node]
    /\ Amount \in [Trade -> Nat \ {0}] /\ Price \in [Trade -> Nat \ {0}]
    /\ Nobody \notin Trade
    /\ Attempts \in [Buyer \X Seller -> Nat] /\ RatesFail \in BOOLEAN

(***************************************************************************)
(* The hash of a match request tells the requests of all buyers apart.     *)
(***************************************************************************)
HashesOf(b, s) == [buyer : {b}, order : {s}, no : 1..Attempts[b, s]]

Hash == UNION {UNION {HashesOf(b, s) : s \in Seller} : b \in Buyer}

(***************************************************************************)
(* The terms a match message states: amount and price per coin.            *)
(***************************************************************************)
Terms == [amount : Nat, ppc : Nat]

Bid == [state : States, reply : Terms \cup {NoMatch}, order : TradeType]

Ask == [state : States, sent : Terms \cup {NoMatch}]

ASSUME NoMatchAssumption == NoMatch \notin Terms \cup Bid \cup Ask

Message == [kind : {"match_order", "calibrated_match_order"}, hash : Hash, terms : Terms]

VARIABLES
    trade,        \* the Trade objects
    book,         \* trade_engine.trades of a node
    advertised,   \* orders that are being broadcast
    bids,         \* matches of buyers: bids[h] is matches[h] of h.buyer
    asks,         \* matches of sellers: asks[h] is matches[h] of h.order
    aged,         \* the bids that are five minutes old
    net           \* the match messages that were sent

vars == <<trade, book, advertised, bids, asks, aged, net>>

NewTrade(t) ==
    [OpenTrade(IF t \in Buyer THEN "buy" ELSE "sell", Amount[t], Price[t])
        EXCEPT !.status = "pending_green_address_deposit"]

Init ==
    /\ trade = [t \in Trade |-> NewTrade(t)]
    /\ book = [n \in Node |-> <<>>]
    /\ advertised = {}
    /\ bids = [h \in Hash |-> NoMatch]
    /\ asks = [h \in Hash |-> NoMatch]
    /\ aged = {}
    /\ net = {}

-----------------------------------------------------------------------------
HasDeposit(n) ==
    \E t \in Trade : Home[t] = n /\ trade[t].status = "pending_green_address_deposit"

ConfirmOnly(t) ==      \* a mutated form: deposit_status in place of status
    [trade EXCEPT ![t].status = "confirm"]

Deposited(t) == [trade EXCEPT ![t].status = "green_address_deposit_confirm"]

(***************************************************************************)
(* The callback of the deposit's watch puts the trade first on the list.   *)
(***************************************************************************)
DepositConfirm(t) ==
    /\ trade[t].status = "pending_green_address_deposit"
    /\ trade' = Deposited(t)
    /\ book' = [book EXCEPT ![Home[t]] = <<t>> \o @]
    /\ UNCHANGED <<advertised, bids, asks, aged, net>>

(***************************************************************************)
(* The main loop opens the trades with a deposit, and starts to broadcast  *)
(* the sellers' orders.                                                    *)
(***************************************************************************)
Confirmed(n) ==
    {t \in Trade : Home[t] = n /\ trade[t].status = "green_address_deposit_confirm"}

OpenTrades(n) ==
    /\ Confirmed(n) # {}
    /\ trade' = [t \in Trade |-> IF t \in Confirmed(n)
                                 THEN [trade[t] EXCEPT !.status = "open"]
                                 ELSE trade[t]]
    /\ advertised' = advertised \cup (Confirmed(n) \cap Seller)
    /\ UNCHANGED <<book, bids, asks, aged, net>>

-----------------------------------------------------------------------------
Live(b) == {h \in Hash : h.buyer = b /\ bids[h] # NoMatch}

(***************************************************************************)
(* The handler of an open order goes through the matches of all trades on  *)
(* the list and takes the time of each.  A seller's match that was left by *)
(* a raising new_match_order has none, state_updated is None: the handler  *)
(* ends there, in a TypeError, and reaches only the trades before it.      *)
(***************************************************************************)
Raises(n) ==
    {i \in DOMAIN book[n] : \E h \in Hash : /\ h.order = book[n][i] /\ asks[h] # NoMatch
                                           /\ asks[h].sent = NoMatch}

Reached(n, t) ==
    \E i \in DOMAIN book[n] : book[n][i] = t /\ \A j \in Raises(n) : i < j

(***************************************************************************)
(* Matches that are timed out at node n: their reservation is undone and   *)
(* they are deleted.  A trade with a reservation is closed, so there is    *)
(* never more than one of them for a trade.                                *)
(***************************************************************************)
AnyState(n) ==      \* a mutated form: answered matches time out as well
    {h \in Hash : /\ bids[h] # NoMatch /\ Home[h.buyer] = n /\ h \in aged
                  /\ Reached(n, h.buyer)}

Expired(n) ==
    {h \in Hash : /\ bids[h] # NoMatch /\ Home[h.buyer] = n /\ h \in aged
                  /\ Reached(n, h.buyer)
                  /\ bids[h].state = "pending_calibration"
                  /\ bids[h].reply = NoMatch}

Undo(n) ==
    [t \in Trade |->
        IF \E h \in Expired(n) : h.buyer = t
        THEN LET h == CHOOSE h \in Expired(n) : h.buyer = t
             IN  UnmatchTrades(trade[t], bids[h].order).buy
        ELSE trade[t]]

KeepAll(n) == bids      \* a mutated form: timed out matches are not deleted

Kept(n) == [h \in Hash |-> IF h \in Expired(n) THEN NoMatch ELSE bids[h]]

(***************************************************************************)
(* An order is not matched twice at one node.                              *)
(***************************************************************************)
Barred(n, s, kept) ==
    \/ \E h \in Hash : Home[h.buyer] = n /\ kept[h] # NoMatch /\ h.order = s
    \/ \E h \in Hash : Home[h.order] = n /\ asks[h] # NoMatch /\ h.order = s

(***************************************************************************)
(* The first trade on the list that fits.                                  *)
(***************************************************************************)
Fits(t, s, trades) == Matchable(trades[t], OpenTrade("sell", Amount[s], Price[s]))

Found(n, s, trades, b) ==
    \E i \in DOMAIN book[n] :
        /\ b = book[n][i]
        /\ Fits(b, s, trades)
        /\ \A j \in 1..(i - 1) : ~ Fits(book[n][j], s, trades)

Request(h) ==
    [kind |-> "match_order", hash |-> h,
     terms |-> [amount |-> Amount[h.buyer], ppc |-> Price[h.buyer]]]

Unused(h) == bids[h] = NoMatch /\ h \notin aged

Fresh(h) ==
    /\ Unused(h)
    /\ \A k \in Hash : k.buyer = h.buyer /\ k.order = h.order /\ k.no < h.no => ~ Unused(k)

(***************************************************************************)
(* add_node does not connect a node to itself, which a route to a seller of*)
(* the same node asks it to.                                               *)
(***************************************************************************)
Reserve(h, trades, kept) ==
    LET p == MatchTrades(trades[h.buyer],
                         OpenTrade("sell", Amount[h.order], Price[h.order]))
    IN  /\ trade' = [trades EXCEPT ![h.buyer] = p.buy]
        /\ bids' = [kept EXCEPT ![h] = [state |-> "pending_calibration",
                                        reply |-> NoMatch, order |-> p.sell]]
        /\ net' = IF Home[h.buyer] = Home[h.order] THEN net ELSE net \cup {Request(h)}
        /\ advertised' = advertised \cup {h.buyer}

ExpireOnly(trades, kept) ==
    /\ trade' = trades
    /\ bids' = kept
    /\ UNCHANGED <<net, advertised>>

(***************************************************************************)
(* parse_open_order.  With a deposit pending the message is only relayed.  *)
(* A buyer's order, which is broadcast along with its match requests, only *)
(* makes matches time out.  Where a match without a time is on the list,   *)
(* the handler gets no further than to the time-outs before it.            *)
(***************************************************************************)
ParseOpenOrder(n, t) ==
    /\ t \in advertised
    /\ ~ HasDeposit(n)
    /\ UNCHANGED <<book, asks, aged>>
    /\ \E trades \in {Undo(n)}, kept \in {Kept(n)} :
         \/ /\ \/ Raises(n) # {} \/ t \in Buyer \/ Barred(n, t, kept)
               \/ ~ \E b \in Buyer : Found(n, t, trades, b)
            /\ ExpireOnly(trades, kept)
         \/ /\ Raises(n) = {} /\ t \in Seller /\ ~ Barred(n, t, kept)
            /\ \E b \in Buyer :
                 /\ Found(n, t, trades, b)
                 /\ \/ RatesFail /\ ExpireOnly(trades, kept)
                    \/ \E h \in HashesOf(b, t) : Fresh(h) /\ Reserve(h, trades, kept)

(***************************************************************************)
(* A seller's order is broadcast a hundred times, or until the             *)
(* microtransfer is complete, and then no more.                            *)
(***************************************************************************)
Silent(s) ==
    /\ s \in advertised
    /\ advertised' = advertised \ {s}
    /\ UNCHANGED <<trade, book, bids, asks, aged, net>>

-----------------------------------------------------------------------------
(***************************************************************************)
(* parse_match_order of a request, match_hash "0": the seller's trade is   *)
(* matched and the calibrated match sent, with what this has changed the   *)
(* trade by as its amount, and the seller's price.  new_match_order comes  *)
(* after the trade was matched: when it raises, both stay as they are.     *)
(***************************************************************************)
Answer(m, terms) == [kind |-> "calibrated_match_order", hash |-> m.hash, terms |-> terms]

TakesRequest(m) ==
    LET s == m.hash.order
        theirs == OpenTrade("buy", m.terms.amount, m.terms.ppc)
        p == MatchTrades(theirs, trade[s])
        terms == [amount |-> p.sell.sent - trade[s].sent, ppc |-> trade[s].ppc]
    IN  /\ Matchable(theirs, trade[s])
        /\ trade' = [trade EXCEPT ![s] = p.sell]
        /\ \/ /\ asks' = [asks EXCEPT ![m.hash] = [state |-> "pending_handshake", sent |-> terms]]
              /\ net' = net \cup {Answer(m, terms)}
           \/ /\ RatesFail
              /\ asks' = [asks EXCEPT ![m.hash] = [state |-> "None", sent |-> NoMatch]]
              /\ UNCHANGED net

NothingToMatch(m) ==
    LET theirs == OpenTrade("buy", m.terms.amount, m.terms.ppc)
    IN  /\ ~ Matchable(theirs, trade[m.hash.order])
        /\ UNCHANGED <<trade, asks, net>>

ParseRequest(m) ==
    /\ m \in net /\ m.kind = "match_order"
    /\ TakesRequest(m) \/ NothingToMatch(m)
    /\ UNCHANGED <<book, advertised, bids, aged>>

(***************************************************************************)
(* parse_match_order of an answer: the match has to be there still; then   *)
(* the reservation is undone and the answer applied in its place.  A second*)
(* copy is applied once more: the state machine lets a state stay as it is.*)
(***************************************************************************)
Applied(h, terms) ==
    LET p == UnmatchTrades(trade[h.buyer], bids[h].order)
    IN  [ours  |-> MatchTrades(p.buy, OpenTrade("sell", terms.amount, terms.ppc)).buy,
         order |-> p.sell]

Accepts(h) == bids[h] # NoMatch /\ StateMachine(bids[h].state, "pending_handshake")

ParseAnswer(m) ==
    /\ m \in net /\ m.kind = "calibrated_match_order"
    /\ UNCHANGED <<book, advertised, asks, aged, net>>
    /\ IF Accepts(m.hash)
       THEN /\ trade' = [trade EXCEPT ![m.hash.buyer] = Applied(m.hash, m.terms).ours]
            /\ bids' = [bids EXCEPT ![m.hash] =
                          [state |-> "pending_handshake", reply |-> m.terms,
                           order |-> Applied(m.hash, m.terms).order]]
       ELSE UNCHANGED <<trade, bids>>

-----------------------------------------------------------------------------
(***************************************************************************)
(* Five minutes go by.                                                     *)
(***************************************************************************)
Age(h) ==
    /\ bids[h] # NoMatch /\ h \notin aged
    /\ aged' = aged \cup {h}
    /\ UNCHANGED <<trade, book, advertised, bids, asks, net>>

(***************************************************************************)
(* A message may be late, it may come more than once, along each route the *)
(* order names, and it may be lost, with its connection, for want of a     *)
(* route, or because the filter of old messages takes it for one.  So a    *)
(* message stays in net, and no fairness makes it arrive.                  *)
(***************************************************************************)
Next ==
    \/ \E t \in Trade : DepositConfirm(t)
    \/ \E n \in Node : OpenTrades(n)
    \/ \E n \in Node, t \in Trade : ParseOpenOrder(n, t)
    \/ \E s \in Seller : Silent(s)
    \/ \E m \in net : ParseRequest(m) \/ ParseAnswer(m)
    \/ \E h \in Hash : Age(h)

Spec == Init /\ [][Next]_vars

(***************************************************************************)
(* Deposits confirm, the main loop goes round, time passes, and an order   *)
(* that is on the air is heard: its seller repeats it every fifteen        *)
(* seconds.  A match that is old enough meets one of another node, as long *)
(* as there is one; nothing keeps an order from falling silent.            *)
(***************************************************************************)
Heard(n) == {s \in Seller \cap advertised : Home[s] # n}

TimeOut(n) == Expired(n) # {} /\ \E s \in Heard(n) : ParseOpenOrder(n, s)

FairSpec ==
    /\ Spec
    /\ \A t \in Trade : WF_vars(DepositConfirm(t))
    /\ \A n \in Node : WF_vars(OpenTrades(n))
    /\ \A n \in Node : WF_vars(TimeOut(n))
    /\ \A h \in Hash : WF_vars(Age(h))

-----------------------------------------------------------------------------
(***************************************************************************)
(* The types of the variables: every trade, match and message stays one of *)
(* those the handlers know.                                                *)
(***************************************************************************)
TypeOK ==
    /\ trade \in [Trade -> TradeType]
    /\ book \in [Node -> Seq(Trade)]
    /\ advertised \subseteq Trade
    /\ bids \in [Hash -> Bid \cup {NoMatch}]
    /\ asks \in [Hash -> Ask \cup {NoMatch}]
    /\ aged \subseteq Hash
    /\ net \subseteq Message

(***************************************************************************)
(* A buyer's trade has coins reserved exactly while it has a match, one    *)
(* match only, and none once the match is timed out: __mul__, which works  *)
(* on totals, undoes just what __truediv__ did (hybrid_protocol.py:408).   *)
(***************************************************************************)
ReservedOnce ==
    \A b \in Buyer :
        /\ trade[b].status = "closed" <=> Live(b) # {}
        /\ \A h, k \in Live(b) : h = k
        /\ Live(b) = {} => trade[b].sent = 0 /\ trade[b].recv = 0

(***************************************************************************)
(* What a trade says it has swapped is what the terms of its match come to,*)
(* at the seller's price, on both sides; a buyer that has its answer has   *)
(* the terms the seller sent, of which format_contract makes the contract. *)
(***************************************************************************)
SwapOf(terms, give, get) ==
    give = terms.amount * terms.ppc /\ get = terms.amount

TotalsMatchContract ==
    \A h \in Hash :
        /\ bids[h] # NoMatch =>
             SwapOf([amount |-> Amount[h.order], ppc |-> Price[h.order]],
                    trade[h.buyer].sent, trade[h.buyer].recv)
        /\ asks[h] # NoMatch /\ asks[h].sent # NoMatch =>
             SwapOf(asks[h].sent, trade[h.order].recv, trade[h.order].sent)
        /\ bids[h] # NoMatch /\ bids[h].reply # NoMatch =>
             asks[h] # NoMatch /\ bids[h].reply = asks[h].sent

(***************************************************************************)
(* Every trade is bound to one counterparty at most, buyers only to sellers*)
(* bound to them, whatever is lost, late, timed out or asked for again.    *)
(***************************************************************************)
Bound(s) == {h \in Hash : h.order = s /\ asks[h] # NoMatch /\ asks[h].sent # NoMatch}

Answered(b) == {h \in Live(b) : bids[h].reply # NoMatch}

partner ==
    [s \in Seller |-> IF Bound(s) = {} THEN Nobody ELSE (CHOOSE h \in Bound(s) : TRUE).buyer]

deal ==
    [b \in Buyer |-> IF Answered(b) = {} THEN Nobody ELSE (CHOOSE h \in Answered(b) : TRUE).order]

Pairs == INSTANCE Pairing

ImplementsPairing == Pairs!Spec

(***************************************************************************)
(* A reservation the seller does not answer is given back, wherever orders *)
(* of other nodes keep coming, as it is the handler of an order that does  *)
(* it (hybrid_protocol.py:429); unless a match without a time comes before *)
(* the trade on the node's list, at which every handler ends (433).        *)
(***************************************************************************)
Pending(h) == bids[h] # NoMatch /\ bids[h].state = "pending_calibration"

ReservationEnds ==
    \A h \in Hash :
        []<>(Heard(Home[h.buyer]) # {}) =>
            (Pending(h) ~> (~ Pending(h) \/ ~ Reached(Home[h.buyer], h.buyer)))
=============================================================================
