------------------------------- MODULE Trades -------------------------------
(***************************************************************************)
(* Trades and the operators the matching engine applies to them,           *)
(* trade_type.py: == (can two trades be matched?), / (match them) and      *)
(* * (undo a match).  `remaining` is recomputed from the totals wherever   *)
(* these change, so it is derived here.                                    *)
(***************************************************************************)
EXTENDS Integers

TradeType ==
    [action : {"buy", "sell"}, amount : Nat, ppc : Nat,
     status : {"pending_green_address_deposit", "green_address_deposit_confirm",
               "open", "closed"},
     sent : Nat, recv : Nat]

OpenTrade(action, amount, ppc) ==
    [action |-> action, amount |-> amount, ppc |-> ppc,
     status |-> "open", sent |-> 0, recv |-> 0]

Remaining(t) == t.amount - (IF t.action = "buy" THEN t.recv ELSE t.sent)

(***************************************************************************)
(* __eq__.  The comparison of the amounts is how partial matching is       *)
(* disabled.                                                               *)
(***************************************************************************)
Matchable(buy, sell) ==
    /\ buy.status = "open" /\ sell.status = "open"
    /\ buy.action = "buy" /\ sell.action = "sell"
    /\ buy.ppc >= sell.ppc
    /\ buy.amount = sell.amount
    /\ Remaining(buy) # 0 /\ Remaining(sell) # 0

(***************************************************************************)
(* __truediv__.  The price is the seller's, and whoever has nothing        *)
(* remaining is closed.                                                    *)
(***************************************************************************)
Change(buy, sell) ==
    IF Remaining(buy) < Remaining(sell) THEN Remaining(buy) ELSE Remaining(sell)

AtBuyersPrice(buy, sell) == Change(buy, sell) * buy.ppc      \* a mutated form

TradeValue(buy, sell) == Change(buy, sell) * sell.ppc

ClosedIf(filled, t) == IF filled THEN [t EXCEPT !.status = "closed"] ELSE t

MatchTrades(buy, sell) ==
    [buy  |-> ClosedIf(Remaining(buy) <= Remaining(sell),
                [buy EXCEPT !.recv = @ + Change(buy, sell),
                            !.sent = @ + TradeValue(buy, sell)]),
     sell |-> ClosedIf(Remaining(sell) <= Remaining(buy),
                [sell EXCEPT !.sent = @ + Change(buy, sell),
                             !.recv = @ + TradeValue(buy, sell)])]

(***************************************************************************)
(* __mul__.  Three statements one after the other: each compares the totals*)
(* the one before has left.                                                *)
(***************************************************************************)
Reopened(t) == OpenTrade(t.action, t.amount, t.ppc)

TakeFromBuy(p) ==
    IF p.buy.sent > p.sell.recv
    THEN [buy  |-> [p.buy EXCEPT !.sent = @ - p.sell.recv, !.recv = @ - p.sell.sent],
          sell |-> Reopened(p.sell)]
    ELSE p

TakeFromSell(p) ==
    IF p.buy.sent < p.sell.recv
    THEN [buy  |-> Reopened(p.buy),
          sell |-> [p.sell EXCEPT !.sent = @ - p.buy.recv, !.recv = @ - p.buy.sent]]
    ELSE p

TakeBoth(p) ==
    IF p.buy.sent = p.sell.recv
    THEN [buy |-> Reopened(p.buy), sell |-> Reopened(p.sell)]
    ELSE p

KeepsBuyClosed(buy, sell) ==      \* a mutated form: only the seller's side
    [buy |-> buy, sell |-> Reopened(sell)]

UnmatchTrades(buy, sell) ==
    TakeBoth(TakeFromSell(TakeFromBuy([buy |-> buy, sell |-> sell])))
=============================================================================
