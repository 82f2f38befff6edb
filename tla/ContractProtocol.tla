-------------------------- MODULE ContractProtocol --------------------------
(***************************************************************************)
(* One match of a buyer and a seller, from the match request to the payout.*)
(* Each party is a single-threaded node that runs the loop of main.py:     *)
(*    scan    - act on the states of its own contracts                     *)
(*    direct  - handle the messages of direct connections                  *)
(*    route   - send the hybrid replies that are due                       *)
(*    client  - handle READY of the contract server                        *)
(*    monitor - look for confirmed transactions and run their callbacks    *)
(* The parties share one TCP connection and a contract server; a coin's    *)
(* block chain is as much of a transaction's life as they look at.         *)
(***************************************************************************)
EXTENDS MatchState, Amounts, Sequences, FiniteSets

CONSTANTS
    Upload,        \* Upload[p]: upload_amount of p
    Chunk,         \* Chunk[p]: our_chunk_size of p
    Faults         \* what may go wrong, a subset of FaultKinds

FaultKinds == {"disconnect", "crash", "server", "register", "rpc", "mutate"}

ASSUME AmountsAssumption == Upload \in [Node -> Nat \ {0}] /\ Chunk \in [Node -> Nat \ {0}]
ASSUME FaultsAssumption == Faults \subseteq FaultKinds

Phases == {"scan", "direct", "route", "client", "monitor", "crashed"}

Kinds ==
    {"match_order", "calibrated_match_order", "shake_on_it", "get_refund_sig",
     "return_refund_sig", "get_setup_tx", "return_setup_tx",
     "return_adjusted_refund", "unparsed"}

Message == [kind : Kinds, amount : Nat]

Msg(kind) == [kind |-> kind, amount |-> 0]

(***************************************************************************)
(* A HybridReply: lines for the source, and whether status_check (of       *)
(* parse_get_refund_sig) has to let it pass.                               *)
(***************************************************************************)
Reply == [lines : Seq(Message), gated : BOOLEAN]

VARIABLES
    state,      \* matched.state
    checked,    \* matched.checked_state
    phase,      \* where the main loop is
    inbox,      \* lines on their way to p, or in its socket's buffer
    replies,    \* hybrid_replies that are still to be routed
    waiting,    \* new_hybrid_replies
    conUp,      \* is matched.con connected?
    contracts,  \* who has the contract in contract_factory.contracts,
    txids,      \* ... the peer's setup txid in setup_txids,
    refunds,    \* ... the peer's refund in refunds,
    setups,     \* ... and the peer's setup TX in setups
    refund,     \* contract_factory.refund, p's own
    sent,       \* trade.sent
    recv,       \* trade.recv
    download,   \* amount of details["our_download"], 0 before the first one
    rounds,     \* auxiliary: how often adjust_refund_tx() has advanced p
    server,     \* the parties whose REGISTER and MATCH the server has
    ready,      \* READY to p
    chain,      \* p's setup TX
    watch,      \* the watch p has in its TX monitor
    payout      \* p's download TX

factory == <<contracts, txids, refunds, setups, refund>>
trade == <<sent, recv, download, rounds>>
loop == <<checked, replies, waiting>>
world == <<server, ready, chain, watch, payout>>

vars == <<state, phase, inbox, conUp, factory, trade, loop, world>>

TypeOK ==
    /\ state \in [Node -> States]
    /\ checked \in [Node -> States]
    /\ phase \in [Node -> Phases]
    /\ inbox \in [Node -> Seq(Message)]
    /\ replies \in [Node -> Seq(Reply)]
    /\ waiting \in [Node -> Seq(Reply)]
    /\ conUp \in BOOLEAN
    /\ contracts \subseteq Node
    /\ txids \subseteq Node
    /\ refunds \subseteq Node
    /\ setups \subseteq Node
    /\ refund \in [Node -> {"none", "built", "signed"}]
    /\ sent \in [Node -> Nat]
    /\ recv \in [Node -> Nat]
    /\ download \in [Node -> Nat]
    /\ rounds \in [Node -> Nat]
    /\ server \subseteq Node
    /\ ready \in [Node -> {"none", "sent", "lost", "handled"}]
    /\ chain \in [Node -> {"absent", "mempool", "confirmed", "mutated"}]
    /\ watch \in [Node -> {"none", "setup", "payout"}]
    /\ payout \in [Node -> {"none", "mempool", "confirmed"}]

(***************************************************************************)
(* The buyer has answered an open order of the seller's: its match request *)
(* is on the connection it opened.                                         *)
(***************************************************************************)
Init ==
    /\ state = [p \in Node |-> IF p = "buyer" THEN "pending_calibration" ELSE "None"]
    /\ checked = [p \in Node |-> "None"]
    /\ phase = [p \in Node |-> "scan"]
    /\ inbox = [p \in Node |-> IF p = "seller" THEN <<Msg("match_order")>> ELSE <<>>]
    /\ replies = [p \in Node |-> <<>>]
    /\ waiting = [p \in Node |-> <<>>]
    /\ conUp = TRUE
    /\ contracts = {} /\ txids = {} /\ refunds = {} /\ setups = {}
    /\ refund = [p \in Node |-> "none"]
    /\ sent = [p \in Node |-> 0]
    /\ recv = [p \in Node |-> 0]
    /\ download = [p \in Node |-> 0]
    /\ rounds = [p \in Node |-> 0]
    /\ server = {}
    /\ ready = [p \in Node |-> "none"]
    /\ chain = [p \in Node |-> "absent"]
    /\ watch = [p \in Node |-> "none"]
    /\ payout = [p \in Node |-> "none"]

-----------------------------------------------------------------------------
Goto(p, next) == phase' = [phase EXCEPT ![p] = next]

UpdateState(p, next) == state' = [state EXCEPT ![p] = next]

(***************************************************************************)
(* send_line() on the connection of the match: lines are dropped without a *)
(* word when it is no longer connected.                                    *)
(***************************************************************************)
ReorderedDelivered(p, lines) ==      \* a mutated form: the last line first
    IF conUp THEN [inbox EXCEPT ![Other(p)] = lines \o @] ELSE inbox

Delivered(p, lines) ==
    IF conUp THEN [inbox EXCEPT ![Other(p)] = @ \o lines] ELSE inbox

(***************************************************************************)
(* An exception nobody catches ends the main loop and the process, and with*)
(* it the connection.  What the peer has in its buffer it may still read.  *)
(***************************************************************************)
Crashed(p) ==
    /\ Goto(p, "crashed")
    /\ conUp' = FALSE
    /\ inbox' = [inbox EXCEPT ![p] = <<>>]

Download(p) == Upload[Other(p)]
SendChunk(p) == NextChunk(Upload[p], sent[p], Chunk[p])
OwnRecvChunk(p) ==      \* a mutated form: what p receives counted in its own chunks
    NextChunk(Download(p), recv[p], Chunk[p])
RecvChunk(p) == NextChunk(Download(p), recv[p], Chunk[Other(p)])

(***************************************************************************)
(* What adjust_refund_tx() leaves of the trade: `paid` is the amount of the*)
(* received transaction, 0 on the seller's first call.                     *)
(***************************************************************************)
Adjust(p, paid) ==
    /\ sent' = [sent EXCEPT ![p] = @ + SendChunk(p)]
    /\ recv' = [recv EXCEPT ![p] = @ + IF paid = 0 THEN 0 ELSE RecvChunk(p)]
    /\ download' = [download EXCEPT ![p] = IF paid = 0 THEN @ ELSE paid]
    /\ rounds' = [rounds EXCEPT ![p] = @ + 1]

Offer(p) == [kind |-> "return_adjusted_refund", amount |-> sent[p] + SendChunk(p)]

-----------------------------------------------------------------------------
(* The scan of the main loop: only a state that changed since the last one *)
(* is acted on.                                                            *)

ConnectedFresh(p) ==      \* a mutated form: only while connected
    p \in contracts /\ state[p] # checked[p] /\ conUp
Fresh(p) == p \in contracts /\ state[p] # checked[p]

Scan(p) ==
    /\ phase[p] = "scan"
    /\ checked' = [checked EXCEPT ![p] = IF p \in contracts THEN state[p] ELSE @]
    /\ UNCHANGED <<replies, waiting, server, ready, chain>>

SellerGetRefundSigStates == {"pending_seller_get_refund_sig"}      \* a mutated form
GetRefundSigStates == {"pending_seller_get_refund_sig", "pending_buyer_get_refund_sig"}
GetSetupTxStates == {"pending_seller_get_setup_tx", "pending_buyer_get_setup_tx"}
ActiveStates ==
    GetRefundSigStates \cup GetSetupTxStates
        \cup {"seller_initiate_microtransfer", "pending_microtransfer_complete"}

(***************************************************************************)
(* Nothing to do.  seller_sent_get_refund_sig comes by here, too: after 5  *)
(* seconds it passes the "hasn't changed" test, but no branch handles it.  *)
(***************************************************************************)
ScanIdle(p) ==
    /\ Scan(p)
    /\ ~Fresh(p) \/ state[p] \notin ActiveStates
    /\ Goto(p, "direct")
    /\ UNCHANGED <<state, inbox, conUp, factory, trade, watch, payout>>

ScanGetRefundSig(p) ==
    /\ Scan(p)
    /\ Fresh(p)
    /\ state[p] \in GetRefundSigStates
    /\ refund' = [refund EXCEPT ![p] = IF @ = "signed" THEN @ ELSE "built"]
    /\ inbox' = Delivered(p, <<Msg("get_refund_sig")>>)
    /\ UpdateState(p, IF p = "seller" THEN "seller_sent_get_refund_sig"
                                      ELSE "buyer_sent_get_refund_sig")
    /\ Goto(p, "direct")
    /\ UNCHANGED <<conUp, contracts, txids, refunds, setups, trade, watch, payout>>

ScanGetSetupTx(p) ==
    /\ Scan(p)
    /\ Fresh(p)
    /\ state[p] \in GetSetupTxStates
    /\ p \in txids
    /\ inbox' = Delivered(p, <<Msg("get_setup_tx")>>)
    /\ UpdateState(p, IF p = "seller" THEN "seller_sent_get_setup_tx"
                                      ELSE "buyer_sent_get_setup_tx")
    /\ Goto(p, "direct")
    /\ UNCHANGED <<conUp, factory, trade, watch, payout>>

ScanInitiate(p) ==
    /\ Scan(p)
    /\ Fresh(p)
    /\ state[p] = "seller_initiate_microtransfer"
    /\ p \in setups /\ p \in refunds
    /\ Adjust(p, 0)
    /\ UpdateState(p, "seller_accept_microtransfer")
    /\ inbox' = Delivered(p, <<Offer(p)>>)
    /\ Goto(p, "direct")
    /\ UNCHANGED <<conUp, factory, watch, payout>>

(***************************************************************************)
(* Broadcast the last payment received.  It spends the peer's setup TX, so *)
(* the coin's node takes it only when that is the TX on its chain.         *)
(***************************************************************************)
ScanBroadcast(p) ==
    /\ Scan(p)
    /\ Fresh(p)
    /\ state[p] = "pending_microtransfer_complete"
    /\ chain[Other(p)] \in {"mempool", "confirmed"}
    /\ payout' = [payout EXCEPT ![p] = "mempool"]
    /\ watch' = [watch EXCEPT ![p] = "payout"]
    /\ UpdateState(p, "pending_microtransfer_confirm")
    /\ Goto(p, "direct")
    /\ UNCHANGED <<inbox, conUp, factory, trade>>

(***************************************************************************)
(* The exceptions of the scan: a missing dictionary entry, or an RPC error.*)
(***************************************************************************)
ScanCrash(p) ==
    /\ Scan(p)
    /\ Fresh(p)
    /\ \/ state[p] \in GetSetupTxStates /\ p \notin txids
       \/ state[p] = "seller_initiate_microtransfer"
            /\ ~(p \in setups /\ p \in refunds)
       \/ state[p] = "pending_microtransfer_complete"
            /\ ("rpc" \in Faults \/ chain[Other(p)] \notin {"mempool", "confirmed"})
    /\ Crashed(p)
    /\ UNCHANGED <<state, factory, trade, watch, payout>>

-----------------------------------------------------------------------------
(* Direct messages.  Every handler answers [] when its message does not    *)
(* fit the state; understand() turns an exception into [] as well.         *)

Receive(p, kind) ==
    /\ phase[p] = "direct"
    /\ inbox[p] # <<>>
    /\ Head(inbox[p]).kind = kind

Consumed(p) == inbox' = [inbox EXCEPT ![p] = Tail(@)]

Queue(p, lines, gated) ==
    replies' = [replies EXCEPT ![p] = Append(@, [lines |-> lines, gated |-> gated])]

(***************************************************************************)
(* The state a message moves its receiver to, if state_machine() lets it.  *)
(***************************************************************************)
Target(p, kind) ==
    CASE kind \in {"match_order", "calibrated_match_order"} -> "pending_handshake"
      [] kind = "shake_on_it" -> "pending_contract"
      [] kind = "get_refund_sig" ->
            IF p = "seller" THEN "pending_seller_get_setup_tx"
            ELSE IF state[p] = "pending_buyer_return_refund_sig"
                 THEN "pending_buyer_get_refund_sig" ELSE "pending_buyer_setup_tx_confirm"
      [] kind = "return_refund_sig" ->
            IF p = "seller" THEN "pending_seller_return_refund_sig"
                            ELSE "pending_buyer_return_setup_tx"
      [] kind = "get_setup_tx" ->
            IF p = "seller" THEN "seller_initiate_microtransfer"
                            ELSE "pending_buyer_get_setup_tx"
      [] kind = "return_setup_tx" ->
            IF p = "seller" THEN "pending_seller_return_setup_tx"
                            ELSE "buyer_accept_microtransfer"

AcceptStates == {"buyer_accept_microtransfer", "seller_accept_microtransfer"}

(***************************************************************************)
(* Would p act on a message of this kind?                                  *)
(***************************************************************************)
Accepts(p, kind) ==
    CASE kind = "unparsed" -> FALSE
      [] kind = "match_order" -> p = "seller" /\ state[p] = "None"
      [] kind \in {"calibrated_match_order", "shake_on_it"} ->
            StateMachine(state[p], Target(p, kind))
      [] kind = "get_refund_sig" ->
            /\ p \in contracts
            /\ state[p] # "pending_buyer_setup_tx_confirm"
            /\ StateMachine(state[p], Target(p, kind))
      [] kind = "return_setup_tx" ->
            /\ p \in contracts
            /\ p \in txids
            /\ StateMachine(state[p], Target(p, kind))
      [] kind \in {"return_refund_sig", "get_setup_tx"} ->
            p \in contracts /\ StateMachine(state[p], Target(p, kind))
      [] kind = "return_adjusted_refund" ->
            /\ p \in contracts
            /\ state[p] \in AcceptStates
            /\ p \in setups /\ p \in refunds

RecvDropped(p) ==
    /\ phase[p] = "direct"
    /\ inbox[p] # <<>>
    /\ ~Accepts(p, Head(inbox[p]).kind)
    /\ Consumed(p)
    /\ UNCHANGED <<state, phase, conUp, factory, trade, loop, world>>

(***************************************************************************)
(* parse_match_order at the seller: it makes the MatchState ("None" before *)
(* that), and answers with the calibrated match and its signature of the   *)
(* contract.                                                               *)
(***************************************************************************)
RecvMatchOrder(p) ==
    /\ Receive(p, "match_order") /\ Accepts(p, "match_order")
    /\ Consumed(p)
    /\ UpdateState(p, "pending_handshake")
    /\ Queue(p, <<Msg("calibrated_match_order"), Msg("shake_on_it")>>, FALSE)
    /\ UNCHANGED <<phase, conUp, factory, trade, checked, waiting, world>>

(***************************************************************************)
(* ... and at the buyer, for the calibrated match.                         *)
(***************************************************************************)
RecvCalibratedMatchOrder(p) ==
    /\ Receive(p, "calibrated_match_order") /\ Accepts(p, "calibrated_match_order")
    /\ Consumed(p)
    /\ UpdateState(p, "pending_handshake")
    /\ Queue(p, <<Msg("shake_on_it")>>, FALSE)
    /\ UNCHANGED <<phase, conUp, factory, trade, checked, waiting, world>>

(***************************************************************************)
(* The contract is added and registered with the contract server; only then*)
(* is the state updated.  REGISTER and MATCH are lost when that connection *)
(* is down, which send_line() does not tell.                               *)
(***************************************************************************)
RecvShakeOnIt(p) ==
    /\ Receive(p, "shake_on_it") /\ Accepts(p, "shake_on_it")
    /\ p \notin contracts
    /\ inbox' = [Delivered(p, <<Msg("unparsed")>>) EXCEPT ![p] = Tail(@)]
    /\ contracts' = contracts \cup {p}
    /\ \/ server' = server \cup {p}
       \/ "server" \in Faults /\ server' = server
    /\ UpdateState(p, "pending_contract")
    /\ UNCHANGED <<phase, conUp, txids, refunds, setups, refund,
                   trade, loop, ready, chain, watch, payout>>

(***************************************************************************)
(* register_contract() raises before or after the contract was added.      *)
(***************************************************************************)
RecvShakeOnItFails(p) ==
    /\ Receive(p, "shake_on_it") /\ Accepts(p, "shake_on_it")
    /\ "register" \in Faults \/ p \in contracts
    /\ Consumed(p)
    /\ contracts' \in {contracts, contracts \cup {p}}
    /\ UNCHANGED <<state, phase, conUp, txids, refunds, setups, refund, trade, loop, world>>

(***************************************************************************)
(* The state moves first, and only then is setup_txids looked up: without  *)
(* an entry there is no answer and no way back.  A buyer whose own setup TX*)
(* is not confirmed yet holds the answer back.                             *)
(***************************************************************************)
RecvGetRefundSig(p) ==
    /\ Receive(p, "get_refund_sig") /\ Accepts(p, "get_refund_sig")
    /\ Consumed(p)
    /\ UpdateState(p, Target(p, "get_refund_sig"))
    /\ \/ /\ p \in txids
          /\ refunds' = refunds \cup {p}
          /\ Queue(p, <<Msg("return_refund_sig")>>, state'[p] = "pending_buyer_setup_tx_confirm")
       \/ p \notin txids /\ UNCHANGED <<refunds, replies>>
    /\ UNCHANGED <<phase, conUp, contracts, txids, setups, refund, trade, checked, waiting, world>>

ForgetfulRecvReturnRefundSig(p) ==      \* a mutated form: does not keep the signed refund
    /\ Receive(p, "return_refund_sig") /\ Accepts(p, "return_refund_sig")
    /\ Consumed(p)
    /\ UpdateState(p, Target(p, "return_refund_sig"))
    /\ UNCHANGED <<phase, conUp, factory, trade, loop, world>>

RecvReturnRefundSig(p) ==
    /\ Receive(p, "return_refund_sig") /\ Accepts(p, "return_refund_sig")
    /\ Consumed(p)
    /\ UpdateState(p, Target(p, "return_refund_sig"))
    /\ refund' = [refund EXCEPT ![p] = "signed"]
    /\ UNCHANGED <<phase, conUp, contracts, txids, refunds, setups, trade, loop, world>>

RecvGetSetupTx(p) ==
    /\ Receive(p, "get_setup_tx") /\ Accepts(p, "get_setup_tx")
    /\ Consumed(p)
    /\ UpdateState(p, Target(p, "get_setup_tx"))
    /\ Queue(p, <<Msg("return_setup_tx")>>, FALSE)
    /\ UNCHANGED <<phase, conUp, factory, trade, checked, waiting, world>>

ForgetfulRecvReturnSetupTx(p) ==      \* a mutated form: does not store the setup TX
    /\ Receive(p, "return_setup_tx") /\ Accepts(p, "return_setup_tx")
    /\ Consumed(p)
    /\ UpdateState(p, Target(p, "return_setup_tx"))
    /\ UNCHANGED <<phase, conUp, factory, trade, loop, world>>

RecvReturnSetupTx(p) ==
    /\ Receive(p, "return_setup_tx") /\ Accepts(p, "return_setup_tx")
    /\ Consumed(p)
    /\ UpdateState(p, Target(p, "return_setup_tx"))
    /\ setups' = setups \cup {p}
    /\ UNCHANGED <<phase, conUp, contracts, txids, refunds, refund, trade, loop, world>>

(***************************************************************************)
(* parse_return_adjusted_refund: what pays enough is taken and answered, a *)
(* payment that is too small is answered with an empty line.               *)
(***************************************************************************)
Acceptable(p, paid) == paid # 0 /\ paid >= recv[p] + RecvChunk(p)

RecvReturnAdjustedRefund(p) ==
    LET paid == Head(inbox[p]).amount IN
    /\ Receive(p, "return_adjusted_refund") /\ Accepts(p, "return_adjusted_refund")
    /\ Consumed(p)
    /\ \/ /\ Acceptable(p, paid)
          /\ Adjust(p, paid)
          /\ Queue(p, <<IF SendChunk(p) = 0 /\ RecvChunk(p) = 0
                        THEN Msg("unparsed") ELSE Offer(p)>>, FALSE)
       \/ /\ ~Acceptable(p, paid)
          /\ Queue(p, <<Msg("unparsed")>>, FALSE)
          /\ UNCHANGED trade
    /\ UpdateState(p, IF sent'[p] = Upload[p] /\ recv'[p] = Download(p)
                      THEN "pending_microtransfer_complete" ELSE state[p])
    /\ UNCHANGED <<phase, conUp, factory, checked, waiting, world>>

EndDirect(p) ==
    /\ phase[p] = "direct"
    /\ Goto(p, "route")
    /\ UNCHANGED <<state, inbox, conUp, factory, trade, loop, world>>

Recv(p) ==
    \/ RecvDropped(p)
    \/ RecvMatchOrder(p)
    \/ RecvCalibratedMatchOrder(p)
    \/ RecvShakeOnIt(p)
    \/ RecvShakeOnItFails(p)
    \/ RecvGetRefundSig(p)
    \/ RecvReturnRefundSig(p)
    \/ RecvGetSetupTx(p)
    \/ RecvReturnSetupTx(p)
    \/ RecvReturnAdjustedRefund(p)

-----------------------------------------------------------------------------
(* Routing.  status_check lets the held-back answer go, and moves the      *)
(* state, once the setup TX of the buyer has confirmed.                    *)

OpenStatusCheck(p) == TRUE      \* a mutated form: never holds an answer back
ReachedStatusCheck(p) == state[p] = "pending_buyer_get_refund_sig"      \* a mutated form
StatusCheck(p) == StateMachine(state[p], "pending_buyer_get_refund_sig")

RouteReply(p) ==
    LET reply == Head(replies[p]) IN
    /\ phase[p] = "route"
    /\ replies[p] # <<>>
    /\ ~reply.gated \/ StatusCheck(p)
    /\ inbox' = Delivered(p, reply.lines)
    /\ replies' = [replies EXCEPT ![p] = Tail(@)]
    /\ IF reply.gated THEN UpdateState(p, "pending_buyer_get_refund_sig")
                      ELSE UNCHANGED state
    /\ UNCHANGED <<phase, conUp, factory, trade, checked, waiting, world>>

HoldReply(p) ==
    LET reply == Head(replies[p]) IN
    /\ phase[p] = "route"
    /\ replies[p] # <<>>
    /\ reply.gated /\ ~StatusCheck(p)
    /\ waiting' = [waiting EXCEPT ![p] = Append(@, reply)]
    /\ replies' = [replies EXCEPT ![p] = Tail(@)]
    /\ UNCHANGED <<state, phase, inbox, conUp, factory, trade, checked, world>>

EndRoute(p) ==
    /\ phase[p] = "route"
    /\ replies[p] = <<>>
    /\ replies' = [replies EXCEPT ![p] = waiting[p]]
    /\ waiting' = [waiting EXCEPT ![p] = <<>>]
    /\ Goto(p, "client")
    /\ UNCHANGED <<state, inbox, conUp, factory, trade, checked, world>>

-----------------------------------------------------------------------------
(* The contract client.  process_replies() catches what its handler raises:*)
(* when the coin's node refuses the setup TX, nothing after it happens.    *)

ClientReady(p) ==
    /\ phase[p] = "client"
    /\ ready[p] = "sent"
    /\ ready' = [ready EXCEPT ![p] = "handled"]
    /\ \/ /\ chain' = [chain EXCEPT ![p] = "mempool"]
          /\ txids' = txids \cup {p}
          /\ watch' = [watch EXCEPT ![p] = "setup"]
       \/ "rpc" \in Faults /\ UNCHANGED <<chain, txids, watch>>
    /\ UNCHANGED <<state, phase, inbox, conUp, contracts, refunds, setups, refund,
                   trade, loop, server, payout>>

EndClient(p) ==
    /\ phase[p] = "client"
    /\ Goto(p, "monitor")
    /\ UNCHANGED <<state, inbox, conUp, factory, trade, loop, world>>

-----------------------------------------------------------------------------
(* The TX monitor, and the two callbacks that are registered with it.  A   *)
(* setup TX that confirmed under another txid counts like any other.       *)

MonitorSetup(p) ==
    LET next == IF p = "seller" THEN "pending_seller_get_refund_sig"
                                ELSE "pending_buyer_return_refund_sig" IN
    /\ phase[p] = "monitor"
    /\ watch[p] = "setup"
    /\ chain[p] \in {"confirmed", "mutated"}
    /\ UpdateState(p, IF StateMachine(state[p], next) THEN next ELSE state[p])
    /\ watch' = [watch EXCEPT ![p] = "none"]
    /\ UNCHANGED <<phase, inbox, conUp, factory, trade, loop, server, ready, chain, payout>>

MonitorPayout(p) ==
    /\ phase[p] = "monitor"
    /\ watch[p] = "payout"
    /\ payout[p] = "confirmed"
    /\ UpdateState(p, "microtransfer_complete")
    /\ watch' = [watch EXCEPT ![p] = "none"]
    /\ UNCHANGED <<phase, inbox, conUp, factory, trade, loop, server, ready, chain, payout>>

EndMonitor(p) ==
    /\ phase[p] = "monitor"
    /\ Goto(p, "scan")
    /\ UNCHANGED <<state, inbox, conUp, factory, trade, loop, world>>

-----------------------------------------------------------------------------
(* Outside the nodes.                                                      *)

(***************************************************************************)
(* What the parties see of the contract server: it has both sides and tells*)
(* each of them, once, while a client it has lost by then never hears of   *)
(* it.  That it does is an assumption here; ContractServer is the server.  *)
(***************************************************************************)
ServerMatch ==
    /\ server = Node
    /\ ready = [p \in Node |-> "none"]
    /\ \/ ready' = [p \in Node |-> "sent"]
       \/ "server" \in Faults /\ ready' \in [Node -> {"sent", "lost"}]
    /\ UNCHANGED <<state, phase, inbox, conUp, factory, trade, loop, server, chain, watch, payout>>

ConfirmSetup(p) ==
    /\ chain[p] = "mempool"
    /\ \/ chain' = [chain EXCEPT ![p] = "confirmed"]
       \/ "mutate" \in Faults /\ chain' = [chain EXCEPT ![p] = "mutated"]
    /\ UNCHANGED <<state, phase, inbox, conUp, factory, trade, loop, server, ready, watch, payout>>

ConfirmPayout(p) ==
    /\ payout[p] = "mempool"
    /\ payout' = [payout EXCEPT ![p] = "confirmed"]
    /\ UNCHANGED <<state, phase, inbox, conUp, factory, trade, loop, server, ready, chain, watch>>

(***************************************************************************)
(* The connection breaks; of what is in flight each side still reads some. *)
(***************************************************************************)
Disconnect ==
    /\ "disconnect" \in Faults
    /\ conUp
    /\ conUp' = FALSE
    /\ \E buyer \in 0 .. Len(inbox["buyer"]), seller \in 0 .. Len(inbox["seller"]) :
           inbox' = [p \in Node |-> SubSeq(inbox[p], 1, IF p = "buyer" THEN buyer ELSE seller)]
    /\ UNCHANGED <<state, phase, factory, trade, loop, world>>

Crash(p) ==
    /\ "crash" \in Faults
    /\ phase[p] # "crashed"
    /\ Crashed(p)
    /\ UNCHANGED <<state, factory, trade, loop, world>>

-----------------------------------------------------------------------------
ScanStep(p) ==
    \/ ScanIdle(p)
    \/ ScanGetRefundSig(p)
    \/ ScanGetSetupTx(p)
    \/ ScanInitiate(p)
    \/ ScanBroadcast(p)
    \/ ScanCrash(p)

RouteStep(p) == RouteReply(p) \/ HoldReply(p) \/ EndRoute(p)
MonitorStep(p) == MonitorSetup(p) \/ MonitorPayout(p)

Loop(p) ==
    \/ ScanStep(p)
    \/ Recv(p) \/ EndDirect(p)
    \/ RouteStep(p)
    \/ ClientReady(p) \/ EndClient(p)
    \/ MonitorStep(p) \/ EndMonitor(p)

Next ==
    \/ \E p \in Node : Loop(p) \/ ConfirmSetup(p) \/ ConfirmPayout(p) \/ Crash(p)
    \/ ServerMatch
    \/ Disconnect

Spec == Init /\ [][Next]_vars

(***************************************************************************)
(* A node's loop keeps turning; what TCP, the contract server and the      *)
(* coins' nodes have for it is read in some turn, not in every one.        *)
(***************************************************************************)
Fairness ==
    /\ \A p \in Node :
           /\ WF_vars(Loop(p))
           /\ SF_vars(Recv(p))
           /\ SF_vars(ClientReady(p))
           /\ SF_vars(MonitorStep(p))
           /\ WF_vars(ConfirmSetup(p))
           /\ WF_vars(ConfirmPayout(p))
    /\ WF_vars(ServerMatch)

FairSpec == Spec /\ Fairness

-----------------------------------------------------------------------------
(* What the protocol promises.                                             *)

OnChain == {"confirmed", "mutated"}

(***************************************************************************)
(* The order of commitment, SafeSwap.  A payment counts from the moment    *)
(* adjust_refund_tx() signs it, a setup TX as disclosed when the peer has  *)
(* stored it in contract_factory.setups.                                   *)
(***************************************************************************)
Swap == INSTANCE SafeSwap WITH
    funded    <- {p \in Node : chain[p] \in OnChain},
    secured   <- {p \in Node : refund[p] = "signed"},
    disclosed <- {p \in Node : Other(p) \in setups},
    paying    <- {p \in Node : sent[p] > 0},
    settled   <- {p \in Node : payout[p] # "none"}

(***************************************************************************)
(* The message handlers commit the parties in the order of SafeSwap,       *)
(* whatever is lost and whoever stops: in particular a refund is signed    *)
(* only when both setups confirmed (the hold-back in parse_get_refund_sig) *)
(* and adjust_refund_tx() runs only between parties that hold one.         *)
(***************************************************************************)
ImplementsSafeSwap == Swap!Spec

IsOffer(m) == m.kind = "return_adjusted_refund"

OfferAmounts(lines) ==
    LET places == {i \in DOMAIN lines : IsOffer(lines[i])}
        nth(n) == CHOOSE i \in places : Cardinality({j \in places : j <= i}) = n
    IN  [n \in 1 .. Cardinality(places) |-> lines[nth(n)].amount]

(***************************************************************************)
(* The payments on their way to p: on the wire, or answers its peer has not*)
(* sent yet and can still send.                                            *)
(***************************************************************************)
Offers(p) ==
    LET queue == replies[Other(p)] IN
    OfferAmounts(inbox[p]) \o
        IF conUp THEN OfferAmounts([i \in DOMAIN queue |-> Head(queue[i].lines)]) ELSE <<>>

Mode(p) ==
    IF state[p] \in CompleteStates THEN "complete"
    ELSE IF p = "seller" /\ state[p] # "seller_accept_microtransfer" THEN "initiate"
    ELSE "accept"

Micro == INSTANCE Microtransfer WITH
    Sizes  <- {Upload[p] : p \in Node} \cup {Chunk[p] : p \in Node},
    terms  <- [upload |-> Upload, chunk |-> Chunk],
    mode   <- [p \in Node |-> Mode(p)],
    offers <- [p \in Node |-> Offers(p)],
    link   <- conUp

(***************************************************************************)
(* The trading phase in the middle of the protocol is the exchange of      *)
(* Microtransfer: no payment reaches a party that would not take it yet,   *)
(* and none is signed or counted twice (parse_return_adjusted_refund and   *)
(* "Initiate microtransfer" of the main loop).                             *)
(***************************************************************************)
ImplementsMicrotransfer == Micro!Spec

(***************************************************************************)
(* A party whose answer or request is read at last is never in a state that*)
(* drops it: only the first get_refund_sig and the one payment that crosses*)
(* the end of the transfer may find the other side elsewhere.  Every       *)
(* handler answers a message that does not fit by dropping it for good, so *)
(* one such message would hang both sides (state_machine of match_state.py *)
(* against the order the main loops send in).                              *)
(***************************************************************************)
AnswersAccepted ==
    \A p \in Node : phase[p] = "direct" /\ inbox[p] # <<>> =>
        LET kind == Head(inbox[p]).kind IN
        /\ kind \in {"return_refund_sig", "get_setup_tx", "return_setup_tx"} => Accepts(p, kind)
        /\ kind = "get_refund_sig" /\ p = "seller" => Accepts(p, kind)
        /\ kind = "return_adjusted_refund" => Accepts(p, kind) \/ state[p] \in CompleteStates

(***************************************************************************)
(* No lookup of the main loop's scan can raise: setup_txids, setups and    *)
(* refunds were filled by earlier handlers, in whatever order the messages *)
(* and READY came, and there is a download to broadcast at the end.  An    *)
(* exception there ends the process (main.py:234-265).                     *)
(***************************************************************************)
LookupsSucceed ==
    \A p \in Node : Fresh(p) =>
        /\ state[p] \in GetSetupTxStates => p \in txids
        /\ state[p] = "seller_initiate_microtransfer" => p \in setups /\ p \in refunds
        /\ state[p] = "pending_microtransfer_complete" => download[p] >= Download(p)

(***************************************************************************)
(* A party signs no coins away before it holds a refund signed by the peer,*)
(* the peer's refund and the peer's setup TX: adjust_refund_tx() itself    *)
(* checks none of this, it relies on the states the handlers went through. *)
(***************************************************************************)
PaysOnlySecured ==
    \A p \in Node : sent[p] > 0 =>
        refund[p] = "signed" /\ p \in refunds /\ p \in setups

(***************************************************************************)
(* A match runs to its end on both sides, however the two loops interleave:*)
(* every message finds its receiver in the state for it and every timer,   *)
(* watch and held-back reply comes to its turn.  What may keep it from that*)
(* is a lost connection, a stopped node, and a get_refund_sig that the     *)
(* buyer reads before its READY (main.py:203, hybrid_protocol.py:684).     *)
(***************************************************************************)
AskedTooEarly ==
    state["buyer"] = "pending_buyer_setup_tx_confirm" /\ "buyer" \notin refunds

Completes ==
    <>(\/ \A p \in Node : state[p] = "microtransfer_complete"
       \/ ~conUp
       \/ \E p \in Node : phase[p] = "crashed"
       \/ AskedTooEarly)

(***************************************************************************)
(* The held-back answer of parse_get_refund_sig leaves in the end: the     *)
(* monitor's callback moves the buyer to the state status_check waits for, *)
(* even if the peer is gone by then.                                       *)
(***************************************************************************)
Held(p) ==
    \/ \E i \in DOMAIN replies[p] : replies[p][i].gated
    \/ \E i \in DOMAIN waiting[p] : waiting[p][i].gated

HeldAnswerLeaves == Held("buyer") ~> ~Held("buyer") \/ phase["buyer"] = "crashed"

(***************************************************************************)
(* A party that has received its last payment is paid without any help of  *)
(* its peer: the broadcast and the monitor's callback need no connection.  *)
(***************************************************************************)
PayoutCertain ==
    \A p \in Node : state[p] = "pending_microtransfer_complete" ~>
        state[p] = "microtransfer_complete" \/ phase[p] = "crashed"

(***************************************************************************)
(* "You still have to wait for the buyer's setup TX to confirm so there is *)
(* no point in spamming them endlessly with get refund requests because    *)
(* they reject it until their setup TX is confirmed" (main.py:203): the    *)
(* request is repeated until the buyer answers it.                         *)
(***************************************************************************)
RefundRequestAnswered ==
    state["seller"] = "seller_sent_get_refund_sig" ~>
        state["seller"] # "seller_sent_get_refund_sig"
=============================================================================
