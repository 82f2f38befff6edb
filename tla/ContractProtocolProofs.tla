----------------------- MODULE ContractProtocolProofs -----------------------
(***************************************************************************)
(* What one party knows about itself in each state of the match (IInv), for*)
(* every size of contract and whatever goes wrong: the state a handler     *)
(* moved to says which of the transactions it needs later the party has    *)
(* stored.  Each handler is trusted only with what it checks itself, so the*)
(* argument never looks at the messages in flight or at the other party.   *)
(* The second half adds what the messages say of the other party (GInv):   *)
(* with it ContractProtocol implements SafeSwap.                           *)
(***************************************************************************)
EXTENDS ContractProtocol, SequenceTheorems, TLAPS

(***************************************************************************)
(* The states in which ... the peer's setup txid is known, our refund is   *)
(* signed, we have signed theirs, we hold their setup TX, we trade.        *)
(***************************************************************************)
ReadyStates ==
    SellerStates \cup (BuyerStates \ {"pending_buyer_setup_tx_confirm"}) \cup CompleteStates

TradingStates == AcceptStates \cup CompleteStates

DisclosedStates ==
    TradingStates \cup {"pending_seller_return_setup_tx", "seller_initiate_microtransfer"}

SignedStates ==
    DisclosedStates \cup
        {"pending_seller_return_refund_sig", "pending_seller_get_setup_tx",
         "seller_sent_get_setup_tx", "pending_buyer_return_setup_tx",
         "pending_buyer_get_setup_tx", "buyer_sent_get_setup_tx"}

AnsweredStates ==
    (SignedStates \ {"pending_seller_return_refund_sig"}) \cup
        {"pending_buyer_get_refund_sig", "buyer_sent_get_refund_sig"}

(***************************************************************************)
(* A party never enters a state of the other role.                         *)
(***************************************************************************)
Role(p) ==
    /\ p = "seller" => state[p] \notin BuyerStates
    /\ p = "buyer" => state[p] \notin SellerStates

Stored(p) ==
    /\ state[p] \in ReadyStates \/ watch[p] = "setup" => p \in txids
    /\ state[p] \in SignedStates => refund[p] = "signed"
    /\ state[p] \in AnsweredStates \/ Held(p) => p \in refunds
    /\ state[p] \in DisclosedStates => p \in setups
    /\ watch[p] = "payout" => state[p] \in CompleteStates

Account(p) ==
    /\ sent[p] <= Upload[p]
    /\ recv[p] <= Download(p)
    /\ recv[p] <= download[p]
    /\ sent[p] > 0 => state[p] \in TradingStates
    /\ state[p] \in CompleteStates => recv[p] = Download(p)

Local(p) == Role(p) /\ Stored(p) /\ Account(p)

IInv == TypeOK /\ \A p \in Node : Local(p)

-----------------------------------------------------------------------------
(* From where the handlers' updates of the state can come.                 *)

LEMMA HandshakeMoves ==
    ASSUME NEW s
    PROVE  /\ StateMachine(s, "pending_handshake") =>
                  s \in {"None", "pending_calibration", "pending_handshake"}
           /\ StateMachine(s, "pending_contract") => s \in {"pending_handshake", "pending_contract"}
BY DEF StateMachine, Edges, HandshakeEdges, BuyerEdges, SellerEdges, CompleteEdges

LEMMA SellerMoves ==
    ASSUME NEW s
    PROVE  /\ StateMachine(s, "pending_seller_get_refund_sig") =>
                  s \in {"pending_contract", "pending_seller_get_refund_sig"}
           /\ StateMachine(s, "pending_seller_return_refund_sig") =>
                  s \in {"seller_sent_get_refund_sig", "pending_seller_return_refund_sig"}
           /\ StateMachine(s, "pending_seller_get_setup_tx") =>
                  s \in {"pending_seller_return_refund_sig", "pending_seller_get_setup_tx"}
           /\ StateMachine(s, "pending_seller_return_setup_tx") =>
                  s \in {"seller_sent_get_setup_tx", "pending_seller_return_setup_tx"}
           /\ StateMachine(s, "seller_initiate_microtransfer") =>
                  s \in {"pending_seller_return_setup_tx", "seller_initiate_microtransfer"}
BY DEF StateMachine, Edges, HandshakeEdges, BuyerEdges, SellerEdges, CompleteEdges

LEMMA BuyerMoves ==
    ASSUME NEW s
    PROVE  /\ StateMachine(s, "pending_buyer_setup_tx_confirm") =>
                  s \in {"pending_contract", "pending_buyer_setup_tx_confirm"}
           /\ StateMachine(s, "pending_buyer_return_refund_sig") =>
                  s \in {"pending_contract", "pending_buyer_setup_tx_confirm",
                         "pending_buyer_return_refund_sig"}
           /\ StateMachine(s, "pending_buyer_get_refund_sig") =>
                  s \in {"pending_buyer_return_refund_sig", "pending_buyer_get_refund_sig"}
           /\ StateMachine(s, "pending_buyer_return_setup_tx") =>
                  s \in {"buyer_sent_get_refund_sig", "pending_buyer_return_setup_tx"}
           /\ StateMachine(s, "pending_buyer_get_setup_tx") =>
                  s \in {"pending_buyer_return_setup_tx", "pending_buyer_get_setup_tx"}
           /\ StateMachine(s, "buyer_accept_microtransfer") =>
                  s \in {"buyer_sent_get_setup_tx", "buyer_accept_microtransfer"}
BY DEF StateMachine, Edges, HandshakeEdges, BuyerEdges, SellerEdges, CompleteEdges

-----------------------------------------------------------------------------
(* Types of what the actions build.                                        *)

LEMMA Parties ==
    /\ "buyer" \in Node /\ "seller" \in Node
    /\ \A p \in Node : Other(p) \in Node /\ Other(p) # p /\ (p = "buyer" \/ p = "seller")
BY DEF Node, Other

LEMMA MsgType ==
    ASSUME NEW kind \in Kinds
    PROVE  Msg(kind) \in Message /\ <<Msg(kind)>> \in Seq(Message)
BY DEF Msg, Message

LEMMA TwoLines ==
    ASSUME NEW a \in Message, NEW b \in Message
    PROVE  <<a, b>> \in Seq(Message)
OBVIOUS

LEMMA DeliveredType ==
    ASSUME TypeOK, NEW p \in Node, NEW lines \in Seq(Message)
    PROVE  Delivered(p, lines) \in [Node -> Seq(Message)]
<1>1. inbox \in [Node -> Seq(Message)] /\ inbox[Other(p)] \in Seq(Message)
  BY Parties DEF TypeOK
<1>2. inbox[Other(p)] \o lines \in Seq(Message)
  BY <1>1
<1>3. QED
  BY <1>1, <1>2 DEF Delivered

LEMMA ConsumedType ==
    ASSUME TypeOK, NEW p \in Node, inbox[p] # <<>>
    PROVE  /\ Head(inbox[p]) \in Message
           /\ Tail(inbox[p]) \in Seq(Message)
           /\ Consumed(p) => inbox' \in [Node -> Seq(Message)]
<1>1. inbox[p] \in Seq(Message) /\ inbox \in [Node -> Seq(Message)]
  BY DEF TypeOK
<1>2. Head(inbox[p]) \in Message /\ Tail(inbox[p]) \in Seq(Message)
  BY <1>1
<1>3. Consumed(p) => inbox' = [inbox EXCEPT ![p] = Tail(inbox[p])]
  BY DEF Consumed
<1>4. QED
  BY <1>1, <1>2, <1>3

LEMMA QueueType ==
    ASSUME TypeOK, NEW p \in Node, NEW lines \in Seq(Message), NEW gated \in BOOLEAN,
           Queue(p, lines, gated), waiting' = waiting
    PROVE  /\ replies' \in [Node -> Seq(Reply)]
           /\ \A q \in Node \ {p} : replies'[q] = replies[q]
           /\ Held(p)' => Held(p) \/ gated
<1> DEFINE reply == [lines |-> lines, gated |-> gated]
<1>1. reply \in Reply /\ replies[p] \in Seq(Reply)
  BY DEF Reply, TypeOK
<1>2. replies' = [replies EXCEPT ![p] = Append(replies[p], reply)]
  BY DEF Queue
<1> HIDE DEF reply
<1>3. replies' \in [Node -> Seq(Reply)] /\ \A q \in Node \ {p} : replies'[q] = replies[q]
  BY <1>1, <1>2 DEF TypeOK
<1>4. ASSUME Held(p)' PROVE Held(p) \/ gated
  <2>1. replies'[p] = Append(replies[p], reply)
    BY <1>2 DEF TypeOK
  <2>2. CASE \E i \in DOMAIN waiting[p] : waiting[p][i].gated
    BY <2>2 DEF Held
  <2>3. CASE \E i \in DOMAIN replies'[p] : replies'[p][i].gated
    <3>1. PICK i \in DOMAIN replies'[p] : replies'[p][i].gated
      BY <2>3
    <3>2. (i \in DOMAIN replies[p] /\ replies[p][i] = replies'[p][i]) \/ replies'[p][i] = reply
      BY <1>1, <2>1
    <3>3. reply.gated = gated
      BY DEF reply
    <3>4. QED
      BY <3>1, <3>2, <3>3 DEF Held
  <2>4. QED
    BY <1>4, <2>2, <2>3 DEF Held
<1>5. QED
  BY <1>3, <1>4

LEMMA ChunkBounds ==
    ASSUME NEW total \in Nat, NEW done \in Nat, NEW chunk \in Nat, done <= total
    PROVE  NextChunk(total, done, chunk) \in Nat /\ done + NextChunk(total, done, chunk) <= total
BY DEF NextChunk

LEMMA AdjustType ==
    ASSUME IInv, NEW p \in Node
    PROVE  /\ RecvChunk(p) \in Nat /\ SendChunk(p) \in Nat
           /\ Offer(p) \in Message /\ <<Offer(p)>> \in Seq(Message)
           /\ \A paid \in Nat : Adjust(p, paid) =>
                  /\ sent' \in [Node -> Nat] /\ recv' \in [Node -> Nat]
                  /\ download' \in [Node -> Nat] /\ rounds' \in [Node -> Nat]
                  /\ sent'[p] <= Upload[p] /\ recv'[p] <= Download(p)
                  /\ recv'[p] = recv[p] + (IF paid = 0 THEN 0 ELSE RecvChunk(p))
                  /\ download'[p] = IF paid = 0 THEN download[p] ELSE paid
                  /\ \A q \in Node \ {p} : sent'[q] = sent[q] /\ recv'[q] = recv[q]
                                             /\ download'[q] = download[q]
<1>1. /\ Upload[p] \in Nat /\ Chunk[p] \in Nat /\ Download(p) \in Nat /\ Chunk[Other(p)] \in Nat
      /\ sent[p] \in Nat /\ recv[p] \in Nat /\ download[p] \in Nat /\ rounds[p] \in Nat
      /\ sent[p] <= Upload[p] /\ recv[p] <= Download(p)
  BY AmountsAssumption, Parties DEF IInv, TypeOK, Local, Account, Download
<1>2. SendChunk(p) \in Nat /\ sent[p] + SendChunk(p) <= Upload[p]
  BY <1>1, ChunkBounds DEF SendChunk
<1>3. RecvChunk(p) \in Nat /\ recv[p] + RecvChunk(p) <= Download(p)
  BY <1>1, ChunkBounds DEF RecvChunk
<1>4. Offer(p) \in Message
  BY <1>1, <1>2 DEF Offer, Message, Kinds
<1>5. ASSUME NEW paid \in Nat, Adjust(p, paid)
      PROVE  /\ sent' \in [Node -> Nat] /\ recv' \in [Node -> Nat]
             /\ download' \in [Node -> Nat] /\ rounds' \in [Node -> Nat]
             /\ sent'[p] <= Upload[p] /\ recv'[p] <= Download(p)
             /\ recv'[p] = recv[p] + (IF paid = 0 THEN 0 ELSE RecvChunk(p))
             /\ download'[p] = IF paid = 0 THEN download[p] ELSE paid
             /\ \A q \in Node \ {p} : sent'[q] = sent[q] /\ recv'[q] = recv[q]
                                        /\ download'[q] = download[q]
  <2>1. /\ sent \in [Node -> Nat] /\ recv \in [Node -> Nat]
        /\ download \in [Node -> Nat] /\ rounds \in [Node -> Nat]
    BY DEF IInv, TypeOK
  <2>2. /\ sent' = [sent EXCEPT ![p] = sent[p] + SendChunk(p)]
        /\ recv' = [recv EXCEPT ![p] = recv[p] + IF paid = 0 THEN 0 ELSE RecvChunk(p)]
        /\ download' = [download EXCEPT ![p] = IF paid = 0 THEN download[p] ELSE paid]
        /\ rounds' = [rounds EXCEPT ![p] = rounds[p] + 1]
    BY <1>5 DEF Adjust
  <2>3. sent[p] + SendChunk(p) \in Nat /\ recv[p] + (IF paid = 0 THEN 0 ELSE RecvChunk(p)) \in Nat
    BY <1>1, <1>2, <1>3
  <2>4. /\ sent'[p] = sent[p] + SendChunk(p)
        /\ recv'[p] = recv[p] + (IF paid = 0 THEN 0 ELSE RecvChunk(p))
        /\ download'[p] = IF paid = 0 THEN download[p] ELSE paid
        /\ \A q \in Node \ {p} : sent'[q] = sent[q] /\ recv'[q] = recv[q]
                                   /\ download'[q] = download[q]
    BY <2>1, <2>2
  <2>5. sent' \in [Node -> Nat]
    BY <2>1, <2>2, <2>3
  <2>6. recv' \in [Node -> Nat]
    BY <2>1, <2>2, <2>3
  <2>7. download' \in [Node -> Nat] /\ rounds' \in [Node -> Nat]
    BY <2>1, <2>2, <1>1, <1>5
  <2>8. sent'[p] <= Upload[p] /\ recv'[p] <= Download(p)
    BY <2>4, <1>1, <1>2, <1>3
  <2>9. QED
    BY <2>4, <2>5, <2>6, <2>7, <2>8
<1>6. QED
  BY <1>2, <1>3, <1>4, <1>5

-----------------------------------------------------------------------------
(* The other party, and what a step leaves alone.                          *)

(***************************************************************************)
(* Local(q) speaks of six variables, at q alone.                           *)
(***************************************************************************)
LEMMA LocalFrame ==
    ASSUME NEW q \in Node, Local(q),
           state'[q] = state[q], watch'[q] = watch[q],
           replies'[q] = replies[q], waiting'[q] = waiting[q],
           q \in txids <=> q \in txids', q \in refunds <=> q \in refunds',
           q \in setups <=> q \in setups', refund'[q] = refund[q],
           sent'[q] = sent[q], recv'[q] = recv[q], download'[q] = download[q]
    PROVE  Local(q)'
BY DEF Local, Role, Stored, Account, Held, Download

(***************************************************************************)
(* So does a step that moves nothing but phases, messages, the chains and  *)
(* what the outside knows of the match.                                    *)
(***************************************************************************)
LEMMA QuietStep ==
    ASSUME IInv, TypeOK', UNCHANGED <<state, watch, replies, waiting, factory, trade>>
    PROVE  IInv'
BY LocalFrame DEF IInv, factory, trade

(***************************************************************************)
(* A step of p that leaves q's part of every variable alone.               *)
(***************************************************************************)
Alone(p) ==
    \A q \in Node \ {p} :
        /\ state'[q] = state[q] /\ watch'[q] = watch[q]
        /\ replies'[q] = replies[q] /\ waiting'[q] = waiting[q]
        /\ q \in txids <=> q \in txids'
        /\ q \in refunds <=> q \in refunds'
        /\ q \in setups <=> q \in setups'
        /\ refund'[q] = refund[q]
        /\ sent'[q] = sent[q] /\ recv'[q] = recv[q] /\ download'[q] = download[q]

LEMMA PartyStep ==
    ASSUME IInv, TypeOK', NEW p \in Node, Alone(p), Role(p)', Stored(p)', Account(p)'
    PROVE  IInv'
<1>1. ASSUME NEW q \in Node PROVE Local(q)'
  <2>1. CASE q = p
    BY <2>1 DEF Local
  <2>2. CASE q # p
    BY <2>2, LocalFrame DEF IInv, Alone
  <2>3. QED
    BY <2>1, <2>2
<1>2. QED
  BY <1>1 DEF IInv

-----------------------------------------------------------------------------
(* The scan.                                                               *)

LEMMA ScanIdleInv == ASSUME IInv, NEW p \in Node, ScanIdle(p) PROVE IInv'
<1>1. TypeOK'
  BY DEF IInv, TypeOK, ScanIdle, Scan, Goto, Phases, factory, trade
<1>2. QED
  BY <1>1, QuietStep DEF ScanIdle, Scan

LEMMA ScanCrashInv == ASSUME IInv, NEW p \in Node, ScanCrash(p) PROVE IInv'
<1>1. inbox' \in [Node -> Seq(Message)]
  BY DEF IInv, TypeOK, ScanCrash, Crashed
<1>2. TypeOK'
  BY <1>1 DEF IInv, TypeOK, ScanCrash, Crashed, Scan, Goto, Phases, factory, trade
<1>3. QED
  BY <1>2, QuietStep DEF ScanCrash, Scan

LEMMA ScanGetRefundSigInv == ASSUME IInv, NEW p \in Node, ScanGetRefundSig(p) PROVE IInv'
<1> USE DEF ScanGetRefundSig, Scan, UpdateState, Goto, trade
<1>1. inbox' \in [Node -> Seq(Message)]
  BY MsgType, DeliveredType DEF IInv, Kinds
<1>2. state' \in [Node -> States] /\ checked' \in [Node -> States]
  BY DEF IInv, TypeOK, States, SellerStates, BuyerStates
<1>3. refund' \in [Node -> {"none", "built", "signed"}]
  BY DEF IInv, TypeOK
<1>4. TypeOK'
  BY <1>1, <1>2, <1>3 DEF IInv, TypeOK, Phases
<1>5. Role(p)'
  BY Parties DEF IInv, TypeOK, Role, SellerStates, BuyerStates
<1>6. Stored(p)'
  <2>1. /\ \/ /\ state[p] = "pending_seller_get_refund_sig"
              /\ state'[p] = "seller_sent_get_refund_sig"
           \/ /\ state[p] = "pending_buyer_get_refund_sig"
              /\ state'[p] = "buyer_sent_get_refund_sig"
        /\ refund[p] = "signed" => refund'[p] = "signed"
        /\ UNCHANGED <<txids, refunds, setups, watch, replies, waiting>>
    BY Parties DEF IInv, TypeOK, Local, Role, GetRefundSigStates, SellerStates, BuyerStates
  <2> HIDE DEF ScanGetRefundSig, Scan, UpdateState, Goto, trade
  <2>2. Stored(p)
    BY DEF IInv, Local
  <2>3. QED
    BY <2>1, <2>2 DEF Stored, Held, ReadyStates, SignedStates, AnsweredStates,
       DisclosedStates, TradingStates, AcceptStates, CompleteStates, SellerStates, BuyerStates
<1>7. Account(p)'
  BY DEF IInv, TypeOK, Local, Account, Download, GetRefundSigStates, TradingStates, AcceptStates,
     CompleteStates
<1>8. Alone(p)
  BY DEF IInv, TypeOK, Alone
<1>9. QED
  BY <1>4, <1>5, <1>6, <1>7, <1>8, PartyStep

LEMMA ScanGetSetupTxInv == ASSUME IInv, NEW p \in Node, ScanGetSetupTx(p) PROVE IInv'
<1> USE DEF ScanGetSetupTx, Scan, UpdateState, Goto, trade, factory
<1>1. inbox' \in [Node -> Seq(Message)]
  BY MsgType, DeliveredType DEF IInv, Kinds
<1>2. state' \in [Node -> States] /\ checked' \in [Node -> States]
  BY DEF IInv, TypeOK, States, SellerStates, BuyerStates
<1>3. TypeOK'
  BY <1>1, <1>2 DEF IInv, TypeOK, Phases
<1>4. Role(p)'
  BY Parties DEF IInv, TypeOK, Role, SellerStates, BuyerStates
<1>5. Stored(p)'
  <2>1. /\ \/ /\ state[p] = "pending_seller_get_setup_tx"
              /\ state'[p] = "seller_sent_get_setup_tx"
           \/ /\ state[p] = "pending_buyer_get_setup_tx"
              /\ state'[p] = "buyer_sent_get_setup_tx"
        /\ UNCHANGED <<txids, refund, refunds, setups, watch, replies, waiting>>
    BY Parties DEF IInv, TypeOK, Local, Role, GetSetupTxStates, SellerStates, BuyerStates
  <2> HIDE DEF ScanGetSetupTx, Scan, UpdateState, Goto, trade, factory
  <2>2. Stored(p)
    BY DEF IInv, Local
  <2>3. QED
    BY <2>1, <2>2 DEF Stored, Held, ReadyStates, SignedStates, AnsweredStates,
       DisclosedStates, TradingStates, AcceptStates, CompleteStates, SellerStates, BuyerStates
<1>6. Account(p)'
  BY DEF IInv, TypeOK, Local, Account, Download, GetSetupTxStates, TradingStates, AcceptStates,
     CompleteStates
<1>7. Alone(p)
  BY DEF IInv, TypeOK, Alone
<1>8. QED
  BY <1>3, <1>4, <1>5, <1>6, <1>7, PartyStep

LEMMA ScanInitiateInv == ASSUME IInv, NEW p \in Node, ScanInitiate(p) PROVE IInv'
<1> USE DEF ScanInitiate, Scan, UpdateState, Goto, factory
<1>1. inbox' \in [Node -> Seq(Message)]
  BY AdjustType, DeliveredType DEF IInv
<1>2. state' \in [Node -> States] /\ checked' \in [Node -> States]
  BY DEF IInv, TypeOK, States, SellerStates
<1>3. /\ sent' \in [Node -> Nat] /\ recv' \in [Node -> Nat]
      /\ download' \in [Node -> Nat] /\ rounds' \in [Node -> Nat]
      /\ sent'[p] <= Upload[p] /\ recv'[p] <= Download(p)
      /\ recv'[p] = recv[p] /\ download'[p] = download[p]
      /\ \A q \in Node \ {p} : sent'[q] = sent[q] /\ recv'[q] = recv[q] /\ download'[q] = download[q]
  <2>1. Adjust(p, 0) /\ 0 \in Nat
    OBVIOUS
  <2>2. recv[p] + 0 = recv[p]
    BY DEF IInv, TypeOK
  <2> HIDE DEF ScanInitiate
  <2>3. QED
    BY <2>1, <2>2, AdjustType
<1>4. TypeOK'
  BY <1>1, <1>2, <1>3 DEF IInv, TypeOK, Phases
<1>5. state[p] = "seller_initiate_microtransfer" /\ state'[p] = "seller_accept_microtransfer"
  BY DEF IInv, TypeOK
<1>6. Role(p)'
  BY <1>5, Parties DEF IInv, Local, Role, SellerStates, BuyerStates
<1>7. Stored(p)'
  BY <1>5 DEF IInv, Local, Stored, Held,
     ReadyStates, SignedStates, AnsweredStates, DisclosedStates, TradingStates, AcceptStates,
     SellerStates, BuyerStates, CompleteStates
<1>8. Account(p)'
  BY <1>3, <1>5 DEF IInv, Local, Account, Download, TradingStates, AcceptStates, CompleteStates
<1>9. Alone(p)
  BY <1>3 DEF IInv, TypeOK, Alone
<1>10. QED
  BY <1>4, <1>6, <1>7, <1>8, <1>9, PartyStep

LEMMA ScanBroadcastInv == ASSUME IInv, NEW p \in Node, ScanBroadcast(p) PROVE IInv'
<1> USE DEF ScanBroadcast, Scan, UpdateState, Goto, trade, factory
<1>1. TypeOK'
  BY DEF IInv, TypeOK, Phases, States, CompleteStates
<1>2. /\ state[p] = "pending_microtransfer_complete" /\ state'[p] = "pending_microtransfer_confirm"
      /\ watch'[p] = "payout"
  BY DEF IInv, TypeOK
<1>3. Role(p)'
  BY <1>2 DEF Role, SellerStates, BuyerStates
<1>4. Stored(p)'
  BY <1>2 DEF IInv, Local, Stored, Held,
     ReadyStates, SignedStates, AnsweredStates, DisclosedStates, TradingStates, AcceptStates,
     SellerStates, BuyerStates, CompleteStates
<1>5. Account(p)'
  BY <1>2 DEF IInv, Local, Account, Download, TradingStates, AcceptStates, CompleteStates
<1>6. Alone(p)
  BY DEF IInv, TypeOK, Alone
<1>7. QED
  BY <1>1, <1>3, <1>4, <1>5, <1>6, PartyStep

-----------------------------------------------------------------------------
(* Direct messages.                                                        *)

LEMMA RecvDroppedInv == ASSUME IInv, NEW p \in Node, RecvDropped(p) PROVE IInv'
<1>1. inbox' \in [Node -> Seq(Message)]
  BY ConsumedType DEF IInv, RecvDropped
<1>2. TypeOK'
  BY <1>1 DEF IInv, TypeOK, RecvDropped, factory, trade, loop, world
<1>3. QED
  BY <1>2, QuietStep DEF RecvDropped, loop, world

LEMMA RecvMatchOrderInv == ASSUME IInv, NEW p \in Node, RecvMatchOrder(p) PROVE IInv'
<1> USE DEF RecvMatchOrder, Receive, UpdateState, factory, trade, world
<1>1. inbox' \in [Node -> Seq(Message)]
  BY ConsumedType DEF IInv
<1>2. /\ replies' \in [Node -> Seq(Reply)]
      /\ \A q \in Node \ {p} : replies'[q] = replies[q]
      /\ Held(p)' => Held(p)
  BY MsgType, TwoLines, QueueType DEF IInv, Kinds
<1>3. state[p] = "None" /\ state'[p] = "pending_handshake"
  BY DEF Accepts, IInv, TypeOK
<1>4. state' \in [Node -> States]
  BY <1>3 DEF IInv, TypeOK, States, HandshakeStates, SellerStates, BuyerStates
<1>5. TypeOK'
  BY <1>1, <1>2, <1>4 DEF IInv, TypeOK
<1>6. Role(p)'
  BY <1>3, Parties DEF IInv, Local, Role, SellerStates, BuyerStates
<1>7. Stored(p)'
  BY <1>2, <1>3 DEF IInv, Local, Stored, ReadyStates, SignedStates, AnsweredStates, DisclosedStates, TradingStates, AcceptStates,
     SellerStates, BuyerStates, CompleteStates
<1>8. Account(p)'
  BY <1>3 DEF IInv, Local, Account, Download, TradingStates, AcceptStates, CompleteStates
<1>9. Alone(p)
  BY <1>2 DEF IInv, TypeOK, Alone
<1>10. QED
  BY <1>5, <1>6, <1>7, <1>8, <1>9, PartyStep

LEMMA RecvCalibratedMatchOrderInv == ASSUME IInv, NEW p \in Node, RecvCalibratedMatchOrder(p) PROVE IInv'
<1> USE DEF RecvCalibratedMatchOrder, Receive, UpdateState, factory, trade, world
<1>1. inbox' \in [Node -> Seq(Message)]
  BY ConsumedType DEF IInv
<1>2. /\ replies' \in [Node -> Seq(Reply)]
      /\ \A q \in Node \ {p} : replies'[q] = replies[q]
      /\ Held(p)' => Held(p)
  BY MsgType, QueueType DEF IInv, Kinds
<1>3. /\ state[p] \in {"None", "pending_calibration", "pending_handshake"}
      /\ state'[p] = "pending_handshake"
  BY HandshakeMoves DEF Accepts, Target, IInv, TypeOK
<1>4. state' \in [Node -> States]
  BY <1>3 DEF IInv, TypeOK, States, HandshakeStates, SellerStates, BuyerStates
<1>5. TypeOK'
  BY <1>1, <1>2, <1>4 DEF IInv, TypeOK
<1>6. Role(p)'
  BY <1>3, Parties DEF IInv, Local, Role, SellerStates, BuyerStates
<1>7. Stored(p)'
  BY <1>2, <1>3 DEF IInv, Local, Stored, ReadyStates, SignedStates, AnsweredStates, DisclosedStates, TradingStates, AcceptStates,
     SellerStates, BuyerStates, CompleteStates
<1>8. Account(p)'
  BY <1>3 DEF IInv, Local, Account, Download, TradingStates, AcceptStates, CompleteStates
<1>9. Alone(p)
  BY <1>2 DEF IInv, TypeOK, Alone
<1>10. QED
  BY <1>5, <1>6, <1>7, <1>8, <1>9, PartyStep

LEMMA GetSetupTxMoves ==
    ASSUME IInv, NEW p \in Node, RecvGetSetupTx(p)
    PROVE  \/ /\ p = "seller"
              /\ state[p] \in {"pending_seller_return_setup_tx", "seller_initiate_microtransfer"}
              /\ state'[p] = "seller_initiate_microtransfer"
           \/ /\ p = "buyer"
              /\ state[p] \in {"pending_buyer_return_setup_tx", "pending_buyer_get_setup_tx"}
              /\ state'[p] = "pending_buyer_get_setup_tx"
<1> USE DEF RecvGetSetupTx, Receive, UpdateState
<1> QED
  BY Parties, SellerMoves, BuyerMoves DEF Accepts, Target, IInv, TypeOK

LEMMA RecvGetSetupTxInv == ASSUME IInv, NEW p \in Node, RecvGetSetupTx(p) PROVE IInv'
<1> USE DEF RecvGetSetupTx, Receive, UpdateState, factory, trade, world
<1>1. inbox' \in [Node -> Seq(Message)]
  BY ConsumedType DEF IInv
<1>2. /\ replies' \in [Node -> Seq(Reply)]
      /\ \A q \in Node \ {p} : replies'[q] = replies[q]
      /\ Held(p)' => Held(p)
  BY MsgType, QueueType DEF IInv, Kinds
<1>3. \/ /\ p = "seller"
         /\ state[p] \in {"pending_seller_return_setup_tx", "seller_initiate_microtransfer"}
         /\ state'[p] = "seller_initiate_microtransfer"
      \/ /\ p = "buyer"
         /\ state[p] \in {"pending_buyer_return_setup_tx", "pending_buyer_get_setup_tx"}
         /\ state'[p] = "pending_buyer_get_setup_tx"
  BY GetSetupTxMoves
<1>4. state' \in [Node -> States]
  BY <1>3 DEF IInv, TypeOK, States, HandshakeStates, SellerStates, BuyerStates
<1>5. TypeOK'
  BY <1>1, <1>2, <1>4 DEF IInv, TypeOK
<1>6. Role(p)'
  BY <1>3, Parties DEF IInv, Local, Role, SellerStates, BuyerStates
<1>7. Stored(p)'
  BY <1>2, <1>3 DEF IInv, Local, Stored, ReadyStates, SignedStates, AnsweredStates, DisclosedStates, TradingStates, AcceptStates,
     SellerStates, BuyerStates, CompleteStates
<1>8. Account(p)'
  BY <1>3 DEF IInv, Local, Account, Download, TradingStates, AcceptStates, CompleteStates
<1>9. Alone(p)
  BY <1>2 DEF IInv, TypeOK, Alone
<1>10. QED
  BY <1>5, <1>6, <1>7, <1>8, <1>9, PartyStep

LEMMA ReturnRefundSigMoves ==
    ASSUME IInv, NEW p \in Node, RecvReturnRefundSig(p)
    PROVE  \/ /\ p = "seller"
              /\ state[p] \in {"seller_sent_get_refund_sig", "pending_seller_return_refund_sig"}
              /\ state'[p] = "pending_seller_return_refund_sig"
           \/ /\ p = "buyer"
              /\ state[p] \in {"buyer_sent_get_refund_sig", "pending_buyer_return_setup_tx"}
              /\ state'[p] = "pending_buyer_return_setup_tx"
<1> USE DEF RecvReturnRefundSig, Receive, UpdateState
<1> QED
  BY Parties, SellerMoves, BuyerMoves DEF Accepts, Target, IInv, TypeOK

LEMMA RecvReturnRefundSigInv == ASSUME IInv, NEW p \in Node, RecvReturnRefundSig(p) PROVE IInv'
<1> USE DEF RecvReturnRefundSig, Receive, UpdateState, trade, loop, world
<1>1. inbox' \in [Node -> Seq(Message)]
  BY ConsumedType DEF IInv
<1>2. \/ /\ p = "seller"
         /\ state[p] \in {"seller_sent_get_refund_sig", "pending_seller_return_refund_sig"}
         /\ state'[p] = "pending_seller_return_refund_sig"
      \/ /\ p = "buyer"
         /\ state[p] \in {"buyer_sent_get_refund_sig", "pending_buyer_return_setup_tx"}
         /\ state'[p] = "pending_buyer_return_setup_tx"
  BY ReturnRefundSigMoves
<1>3. state' \in [Node -> States]
  BY <1>2 DEF IInv, TypeOK, States, SellerStates, BuyerStates
<1>4. TypeOK'
  BY <1>1, <1>3 DEF IInv, TypeOK
<1>5. Role(p)'
  BY <1>2, Parties DEF Role, SellerStates, BuyerStates
<1>6. Stored(p)'
  BY <1>2 DEF IInv, TypeOK, Local, Stored, Held, ReadyStates, SignedStates, AnsweredStates, DisclosedStates, TradingStates, AcceptStates,
     SellerStates, BuyerStates, CompleteStates
<1>7. Account(p)'
  BY <1>2 DEF IInv, Local, Account, Download, TradingStates, AcceptStates, CompleteStates
<1>8. Alone(p)
  BY DEF IInv, TypeOK, Alone
<1>9. QED
  BY <1>4, <1>5, <1>6, <1>7, <1>8, PartyStep

LEMMA ReturnSetupTxMoves ==
    ASSUME IInv, NEW p \in Node, RecvReturnSetupTx(p)
    PROVE  \/ /\ p = "seller"
              /\ state[p] \in {"seller_sent_get_setup_tx", "pending_seller_return_setup_tx"}
              /\ state'[p] = "pending_seller_return_setup_tx"
           \/ /\ p = "buyer"
              /\ state[p] \in {"buyer_sent_get_setup_tx", "buyer_accept_microtransfer"}
              /\ state'[p] = "buyer_accept_microtransfer"
<1> USE DEF RecvReturnSetupTx, Receive, UpdateState
<1> QED
  BY Parties, SellerMoves, BuyerMoves DEF Accepts, Target, IInv, TypeOK

LEMMA RecvReturnSetupTxInv == ASSUME IInv, NEW p \in Node, RecvReturnSetupTx(p) PROVE IInv'
<1> USE DEF RecvReturnSetupTx, Receive, UpdateState, trade, loop, world
<1>1. inbox' \in [Node -> Seq(Message)]
  BY ConsumedType DEF IInv
<1>2. \/ /\ p = "seller"
         /\ state[p] \in {"seller_sent_get_setup_tx", "pending_seller_return_setup_tx"}
         /\ state'[p] = "pending_seller_return_setup_tx"
      \/ /\ p = "buyer"
         /\ state[p] \in {"buyer_sent_get_setup_tx", "buyer_accept_microtransfer"}
         /\ state'[p] = "buyer_accept_microtransfer"
  BY ReturnSetupTxMoves
<1>3. state' \in [Node -> States]
  BY <1>2 DEF IInv, TypeOK, States, SellerStates, BuyerStates
<1>4. TypeOK'
  BY <1>1, <1>3 DEF IInv, TypeOK
<1>5. Role(p)'
  BY <1>2, Parties DEF Role, SellerStates, BuyerStates
<1>6. Stored(p)'
  BY <1>2 DEF IInv, TypeOK, Local, Stored, Held, ReadyStates, SignedStates, AnsweredStates, DisclosedStates, TradingStates, AcceptStates,
     SellerStates, BuyerStates, CompleteStates
<1>7. Account(p)'
  BY <1>2 DEF IInv, Local, Account, Download, TradingStates, AcceptStates, CompleteStates
<1>8. Alone(p)
  BY DEF IInv, TypeOK, Alone
<1>9. QED
  BY <1>4, <1>5, <1>6, <1>7, <1>8, PartyStep

LEMMA RecvShakeOnItInv == ASSUME IInv, NEW p \in Node, RecvShakeOnIt(p) PROVE IInv'
<1> USE DEF RecvShakeOnIt, Receive, UpdateState, trade, loop
<1>1. inbox' \in [Node -> Seq(Message)]
  <2>1. Delivered(p, <<Msg("unparsed")>>) \in [Node -> Seq(Message)]
    BY MsgType, DeliveredType DEF IInv, Kinds
  <2>2. Tail(inbox[p]) \in Seq(Message)
    BY ConsumedType DEF IInv
  <2>3. Delivered(p, <<Msg("unparsed")>>)[p] = inbox[p]
    BY Parties DEF Delivered, IInv, TypeOK
  <2>4. QED
    BY <2>1, <2>2, <2>3
<1>2. /\ state[p] \in {"pending_handshake", "pending_contract"}
      /\ state'[p] = "pending_contract"
  BY HandshakeMoves DEF Accepts, Target, IInv, TypeOK
<1>3. state' \in [Node -> States]
  BY <1>2 DEF IInv, TypeOK, States, HandshakeStates
<1>4. TypeOK'
  BY <1>1, <1>3 DEF IInv, TypeOK
<1>5. Role(p)'
  BY <1>2 DEF Role, SellerStates, BuyerStates
<1>6. Stored(p)'
  BY <1>2 DEF IInv, Local, Stored, Held, ReadyStates, SignedStates, AnsweredStates, DisclosedStates, TradingStates, AcceptStates,
     SellerStates, BuyerStates, CompleteStates
<1>7. Account(p)'
  BY <1>2 DEF IInv, Local, Account, Download, TradingStates, AcceptStates, CompleteStates
<1>8. Alone(p)
  BY DEF IInv, TypeOK, Alone
<1>9. QED
  BY <1>4, <1>5, <1>6, <1>7, <1>8, PartyStep

LEMMA RecvShakeOnItFailsInv == ASSUME IInv, NEW p \in Node, RecvShakeOnItFails(p) PROVE IInv'
<1> USE DEF RecvShakeOnItFails, Receive, trade, loop, world
<1>1. inbox' \in [Node -> Seq(Message)]
  BY ConsumedType DEF IInv
<1>2. TypeOK'
  BY <1>1 DEF IInv, TypeOK
<1>3. Role(p)' /\ Stored(p)' /\ Account(p)'
  BY DEF IInv, Local, Role, Stored, Held, Account, Download
<1>4. Alone(p)
  BY DEF Alone
<1>5. QED
  BY <1>2, <1>3, <1>4, PartyStep

LEMMA GetRefundSigMoves ==
    ASSUME IInv, NEW p \in Node, RecvGetRefundSig(p)
    PROVE  \/ /\ p = "seller"
              /\ state[p] \in {"pending_seller_return_refund_sig", "pending_seller_get_setup_tx"}
              /\ state'[p] = "pending_seller_get_setup_tx"
           \/ /\ p = "buyer"
              /\ state[p] = "pending_contract"
              /\ state'[p] = "pending_buyer_setup_tx_confirm"
           \/ /\ p = "buyer"
              /\ state[p] = "pending_buyer_return_refund_sig"
              /\ state'[p] = "pending_buyer_get_refund_sig"
<1> USE DEF RecvGetRefundSig, Receive, UpdateState
<1>1. CASE p = "seller"
  BY <1>1, SellerMoves DEF Accepts, Target, IInv, TypeOK
<1>2. CASE p = "buyer" /\ state[p] = "pending_buyer_return_refund_sig"
  BY <1>2 DEF Accepts, Target, IInv, TypeOK
<1>3. CASE p = "buyer" /\ state[p] # "pending_buyer_return_refund_sig"
  BY <1>3, BuyerMoves DEF Accepts, Target, IInv, TypeOK
<1>4. QED
  BY <1>1, <1>2, <1>3, Parties

(***************************************************************************)
(* The state may move without an answer, but then never to one that needs  *)
(* what the answer would have stored.                                      *)
(***************************************************************************)
LEMMA RecvGetRefundSigInv == ASSUME IInv, NEW p \in Node, RecvGetRefundSig(p) PROVE IInv'
<1> USE DEF RecvGetRefundSig, Receive, UpdateState, trade, world
<1>1. inbox' \in [Node -> Seq(Message)]
  BY ConsumedType DEF IInv
<1>2. \/ /\ p = "seller"
         /\ state[p] \in {"pending_seller_return_refund_sig", "pending_seller_get_setup_tx"}
         /\ state'[p] = "pending_seller_get_setup_tx"
      \/ /\ p = "buyer"
         /\ state[p] = "pending_contract"
         /\ state'[p] = "pending_buyer_setup_tx_confirm"
      \/ /\ p = "buyer"
         /\ state[p] = "pending_buyer_return_refund_sig"
         /\ state'[p] = "pending_buyer_get_refund_sig"
  BY GetRefundSigMoves
<1>3. /\ replies' \in [Node -> Seq(Reply)]
      /\ \A q \in Node \ {p} : replies'[q] = replies[q]
      /\ Held(p)' => Held(p) \/ p \in refunds'
  <2>1. CASE p \in txids
    <3>1. <<Msg("return_refund_sig")>> \in Seq(Message)
      BY MsgType DEF Kinds
    <3>2. (state'[p] = "pending_buyer_setup_tx_confirm") \in BOOLEAN
      OBVIOUS
    <3>3. QED
      BY <2>1, <3>1, <3>2, QueueType DEF IInv
  <2>2. CASE p \notin txids
    BY <2>2 DEF IInv, TypeOK, Held
  <2>3. QED
    BY <2>1, <2>2
<1>4. state' \in [Node -> States]
  BY <1>2 DEF IInv, TypeOK, States, SellerStates, BuyerStates
<1>5. TypeOK'
  BY <1>1, <1>3, <1>4 DEF IInv, TypeOK
<1>6. Role(p)'
  BY <1>2, Parties DEF Role, SellerStates, BuyerStates
<1>7. Stored(p)'
  BY <1>2, <1>3 DEF IInv, Local, Stored, ReadyStates, SignedStates, AnsweredStates, DisclosedStates, TradingStates, AcceptStates,
     SellerStates, BuyerStates, CompleteStates
<1>8. Account(p)'
  BY <1>2 DEF IInv, Local, Account, Download, TradingStates, AcceptStates, CompleteStates
<1>9. Alone(p)
  BY <1>3 DEF IInv, TypeOK, Alone
<1>10. QED
  BY <1>5, <1>6, <1>7, <1>8, <1>9, PartyStep

LEMMA RecvReturnAdjustedRefundInv ==
    ASSUME IInv, NEW p \in Node, RecvReturnAdjustedRefund(p)
    PROVE  IInv'
<1> USE DEF RecvReturnAdjustedRefund, Receive, UpdateState, factory, world
<1> DEFINE paid == Head(inbox[p]).amount
<1>1. /\ inbox' \in [Node -> Seq(Message)]
      /\ paid \in Nat
  BY ConsumedType DEF IInv, Message
<1>2. /\ replies' \in [Node -> Seq(Reply)]
      /\ \A q \in Node \ {p} : replies'[q] = replies[q]
      /\ Held(p)' => Held(p)
  <2>1. <<Msg("unparsed")>> \in Seq(Message) /\ <<Offer(p)>> \in Seq(Message)
    BY MsgType, AdjustType DEF Kinds
  <2>2. <<IF SendChunk(p) = 0 /\ RecvChunk(p) = 0 THEN Msg("unparsed") ELSE Offer(p)>> \in Seq(Message)
    BY <2>1
  <2>3. PICK lines \in Seq(Message) : Queue(p, lines, FALSE)
    BY <2>1, <2>2
  <2>4. QED
    BY <2>3, QueueType DEF IInv
<1>3. /\ state[p] \in AcceptStates
      /\ \/ state'[p] = state[p]
         \/ state'[p] = "pending_microtransfer_complete" /\ recv'[p] = Download(p)
  BY DEF Accepts, IInv, TypeOK
<1>4. /\ sent' \in [Node -> Nat] /\ recv' \in [Node -> Nat]
      /\ download' \in [Node -> Nat] /\ rounds' \in [Node -> Nat]
      /\ sent'[p] <= Upload[p] /\ recv'[p] <= Download(p) /\ recv'[p] <= download'[p]
      /\ \A q \in Node \ {p} : sent'[q] = sent[q] /\ recv'[q] = recv[q] /\ download'[q] = download[q]
  <2>1. CASE Acceptable(p, paid) /\ Adjust(p, paid)
    BY <1>1, <2>1, AdjustType DEF Acceptable
  <2>2. CASE UNCHANGED trade
    BY <2>2 DEF IInv, TypeOK, Local, Account, Download, trade
  <2>3. QED
    BY <2>1, <2>2
<1>5. state' \in [Node -> States]
  BY <1>3 DEF IInv, TypeOK, States, AcceptStates, SellerStates, BuyerStates, CompleteStates
<1>6. TypeOK'
  BY <1>1, <1>2, <1>4, <1>5 DEF IInv, TypeOK
<1>7. Role(p)'
  BY <1>3 DEF IInv, Local, Role, SellerStates, BuyerStates
<1>8. Stored(p)'
  BY <1>2, <1>3 DEF IInv, Local, Stored, ReadyStates, SignedStates, AnsweredStates, DisclosedStates, TradingStates, AcceptStates,
     SellerStates, BuyerStates, CompleteStates
<1>9. Account(p)'
  BY <1>3, <1>4 DEF Account, Download, TradingStates, AcceptStates, CompleteStates
<1>10. Alone(p)
  BY <1>2, <1>4 DEF IInv, TypeOK, Alone
<1>11. QED
  BY <1>6, <1>7, <1>8, <1>9, <1>10, PartyStep

LEMMA EndDirectInv == ASSUME IInv, NEW p \in Node, EndDirect(p) PROVE IInv'
<1>1. TypeOK'
  BY DEF IInv, TypeOK, EndDirect, Goto, Phases, factory, trade, loop, world
<1>2. QED
  BY <1>1, QuietStep DEF EndDirect, loop, world

-----------------------------------------------------------------------------
(* Routing, the contract client and the monitor.                           *)

LEMMA RouteReplyInv == ASSUME IInv, NEW p \in Node, RouteReply(p) PROVE IInv'
<1> USE DEF RouteReply, UpdateState, factory, trade, world
<1> DEFINE reply == Head(replies[p])
<1>1. /\ reply \in Reply /\ Tail(replies[p]) \in Seq(Reply) /\ reply.lines \in Seq(Message)
      /\ reply = replies[p][1] /\ 1 \in DOMAIN replies[p]
      /\ \A i \in DOMAIN Tail(replies[p]) :
            i + 1 \in DOMAIN replies[p] /\ Tail(replies[p])[i] = replies[p][i + 1]
  <2>1. replies[p] \in Seq(Reply) /\ replies[p] # <<>>
    BY DEF IInv, TypeOK
  <2>2. /\ reply \in Reply /\ Tail(replies[p]) \in Seq(Reply)
        /\ reply = replies[p][1] /\ 1 \in DOMAIN replies[p]
        /\ \A i \in DOMAIN Tail(replies[p]) :
              i + 1 \in DOMAIN replies[p] /\ Tail(replies[p])[i] = replies[p][i + 1]
    BY <2>1
  <2>3. reply.lines \in Seq(Message)
    BY <2>2 DEF Reply
  <2>4. QED
    BY <2>2, <2>3
<1>2. /\ reply.gated => Held(p)
      /\ Held(p)' => Held(p)
  BY <1>1 DEF IInv, TypeOK, Held
<1>3. inbox' \in [Node -> Seq(Message)]
  BY <1>1, DeliveredType DEF IInv
<1>4. \/ state'[p] = state[p]
      \/ /\ Held(p)
         /\ state[p] \in {"pending_buyer_return_refund_sig", "pending_buyer_get_refund_sig"}
         /\ state'[p] = "pending_buyer_get_refund_sig"
  BY <1>2, BuyerMoves DEF StatusCheck, IInv, TypeOK
<1>5. state' \in [Node -> States]
  BY DEF IInv, TypeOK, States, BuyerStates
<1>6. TypeOK'
  BY <1>1, <1>3, <1>5 DEF IInv, TypeOK
<1>7. Role(p)'
  BY <1>4 DEF IInv, Local, Role, SellerStates, BuyerStates
<1>8. Stored(p)'
  BY <1>2, <1>4 DEF IInv, Local, Stored, ReadyStates, SignedStates, AnsweredStates, DisclosedStates, TradingStates, AcceptStates,
     SellerStates, BuyerStates, CompleteStates
<1>9. Account(p)'
  BY <1>4 DEF IInv, Local, Account, Download, TradingStates, AcceptStates, CompleteStates
<1>10. Alone(p)
  BY DEF IInv, TypeOK, Alone
<1>11. QED
  BY <1>6, <1>7, <1>8, <1>9, <1>10, PartyStep

LEMMA HoldReplyInv == ASSUME IInv, NEW p \in Node, HoldReply(p) PROVE IInv'
<1> USE DEF HoldReply, factory, trade, world
<1> DEFINE reply == Head(replies[p])
<1>1. /\ reply \in Reply /\ Tail(replies[p]) \in Seq(Reply) /\ waiting[p] \in Seq(Reply)
      /\ reply = replies[p][1] /\ 1 \in DOMAIN replies[p]
      /\ \A i \in DOMAIN Tail(replies[p]) :
            i + 1 \in DOMAIN replies[p] /\ Tail(replies[p])[i] = replies[p][i + 1]
  BY DEF IInv, TypeOK
<1>2. Append(waiting[p], reply) \in Seq(Reply)
  BY <1>1
<1>3. Held(p)
  BY <1>1 DEF Held
<1>4. TypeOK'
  BY <1>1, <1>2 DEF IInv, TypeOK
<1>5. Role(p)' /\ Stored(p)' /\ Account(p)'
  BY <1>3 DEF IInv, Local, Role, Stored, Account, Download
<1>6. Alone(p)
  BY DEF IInv, TypeOK, Alone
<1>7. QED
  BY <1>4, <1>5, <1>6, PartyStep

LEMMA EndRouteInv == ASSUME IInv, NEW p \in Node, EndRoute(p) PROVE IInv'
<1> USE DEF EndRoute, Goto, factory, trade, world
<1>1. TypeOK'
  BY DEF IInv, TypeOK, Phases
<1>2. Held(p)' => Held(p)
  BY DEF IInv, TypeOK, Held
<1>3. Role(p)' /\ Stored(p)' /\ Account(p)'
  BY <1>2 DEF IInv, Local, Role, Stored, Account, Download
<1>4. Alone(p)
  BY DEF IInv, TypeOK, Alone
<1>5. QED
  BY <1>1, <1>3, <1>4, PartyStep

LEMMA ClientReadyInv == ASSUME IInv, NEW p \in Node, ClientReady(p) PROVE IInv'
<1> USE DEF ClientReady, trade, loop
<1>1. TypeOK'
  BY DEF IInv, TypeOK
<1>2. Role(p)' /\ Stored(p)' /\ Account(p)'
  BY DEF IInv, TypeOK, Local, Role, Stored, Held, Account, Download
<1>3. Alone(p)
  BY DEF IInv, TypeOK, Alone
<1>4. QED
  BY <1>1, <1>2, <1>3, PartyStep

LEMMA EndClientInv == ASSUME IInv, NEW p \in Node, EndClient(p) PROVE IInv'
<1>1. TypeOK'
  BY DEF IInv, TypeOK, EndClient, Goto, Phases, factory, trade, loop, world
<1>2. QED
  BY <1>1, QuietStep DEF EndClient, loop, world

LEMMA MonitorSetupMoves ==
    ASSUME IInv, NEW p \in Node, MonitorSetup(p)
    PROVE  \/ state'[p] = state[p]
           \/ /\ p = "seller"
              /\ state[p] \in {"pending_contract", "pending_seller_get_refund_sig"}
              /\ state'[p] = "pending_seller_get_refund_sig"
           \/ /\ p = "buyer"
              /\ state[p] \in {"pending_contract", "pending_buyer_setup_tx_confirm",
                              "pending_buyer_return_refund_sig"}
              /\ state'[p] = "pending_buyer_return_refund_sig"
<1> USE DEF MonitorSetup, UpdateState
<1>1. CASE p = "seller"
  <2>1. \/ state'[p] = state[p]
        \/ /\ StateMachine(state[p], "pending_seller_get_refund_sig")
           /\ state'[p] = "pending_seller_get_refund_sig"
    BY <1>1 DEF IInv, TypeOK
  <2>2. QED
    BY <1>1, <2>1, SellerMoves
<1>2. CASE p = "buyer"
  <2>1. \/ state'[p] = state[p]
        \/ /\ StateMachine(state[p], "pending_buyer_return_refund_sig")
           /\ state'[p] = "pending_buyer_return_refund_sig"
    BY <1>2, Parties DEF IInv, TypeOK
  <2>2. QED
    BY <1>2, <2>1, BuyerMoves
<1>3. QED
  BY <1>1, <1>2, Parties

LEMMA MonitorSetupInv == ASSUME IInv, NEW p \in Node, MonitorSetup(p) PROVE IInv'
<1> USE DEF MonitorSetup, UpdateState, factory, trade, loop
<1>1. \/ state'[p] = state[p]
      \/ /\ p = "seller"
         /\ state[p] \in {"pending_contract", "pending_seller_get_refund_sig"}
         /\ state'[p] = "pending_seller_get_refund_sig"
      \/ /\ p = "buyer"
         /\ state[p] \in {"pending_contract", "pending_buyer_setup_tx_confirm",
                         "pending_buyer_return_refund_sig"}
         /\ state'[p] = "pending_buyer_return_refund_sig"
  BY MonitorSetupMoves
<1>2. state' \in [Node -> States]
  BY <1>1 DEF IInv, TypeOK, States, SellerStates, BuyerStates
<1>3. TypeOK'
  BY <1>2 DEF IInv, TypeOK
<1>4. Role(p)'
  BY <1>1, Parties DEF IInv, Local, Role, SellerStates, BuyerStates
<1>5. Stored(p)'
  BY <1>1 DEF IInv, TypeOK, Local, Stored, Held, ReadyStates, SignedStates, AnsweredStates, DisclosedStates, TradingStates, AcceptStates,
     SellerStates, BuyerStates, CompleteStates
<1>6. Account(p)'
  BY <1>1 DEF IInv, Local, Account, Download, TradingStates, AcceptStates, CompleteStates
<1>7. Alone(p)
  BY DEF IInv, TypeOK, Alone
<1>8. QED
  BY <1>3, <1>4, <1>5, <1>6, <1>7, PartyStep

LEMMA MonitorPayoutInv == ASSUME IInv, NEW p \in Node, MonitorPayout(p) PROVE IInv'
<1> USE DEF MonitorPayout, UpdateState, factory, trade, loop
<1>1. state[p] \in CompleteStates /\ state'[p] = "microtransfer_complete" /\ watch'[p] = "none"
  BY DEF IInv, TypeOK, Local, Stored
<1>2. TypeOK'
  BY DEF IInv, TypeOK, States, CompleteStates
<1>3. Role(p)'
  BY <1>1 DEF Role, SellerStates, BuyerStates
<1>4. Stored(p)'
  BY <1>1 DEF IInv, Local, Stored, Held, ReadyStates, SignedStates, AnsweredStates, DisclosedStates, TradingStates, AcceptStates,
     SellerStates, BuyerStates, CompleteStates
<1>5. Account(p)'
  BY <1>1 DEF IInv, Local, Account, Download, TradingStates, AcceptStates, CompleteStates
<1>6. Alone(p)
  BY DEF IInv, TypeOK, Alone
<1>7. QED
  BY <1>2, <1>3, <1>4, <1>5, <1>6, PartyStep

LEMMA EndMonitorInv == ASSUME IInv, NEW p \in Node, EndMonitor(p) PROVE IInv'
<1>1. TypeOK'
  BY DEF IInv, TypeOK, EndMonitor, Goto, Phases, factory, trade, loop, world
<1>2. QED
  BY <1>1, QuietStep DEF EndMonitor, loop, world

-----------------------------------------------------------------------------
(* Outside the nodes.                                                      *)

LEMMA ServerMatchInv == ASSUME IInv, ServerMatch PROVE IInv'
<1>1. TypeOK'
  BY DEF IInv, TypeOK, ServerMatch, factory, trade, loop, world
<1>2. QED
  BY <1>1, QuietStep DEF ServerMatch, loop

LEMMA ConfirmSetupInv == ASSUME IInv, NEW p \in Node, ConfirmSetup(p) PROVE IInv'
<1>1. TypeOK'
  BY DEF IInv, TypeOK, ConfirmSetup, factory, trade, loop, world
<1>2. QED
  BY <1>1, QuietStep DEF ConfirmSetup, loop

LEMMA ConfirmPayoutInv == ASSUME IInv, NEW p \in Node, ConfirmPayout(p) PROVE IInv'
<1>1. TypeOK'
  BY DEF IInv, TypeOK, ConfirmPayout, factory, trade, loop, world
<1>2. QED
  BY <1>1, QuietStep DEF ConfirmPayout, loop

LEMMA DisconnectInv == ASSUME IInv, Disconnect PROVE IInv'
<1>1. ASSUME NEW p \in Node, NEW n \in 0 .. Len(inbox[p])
      PROVE  SubSeq(inbox[p], 1, n) \in Seq(Message)
  <2>1. inbox[p] \in Seq(Message)
    BY DEF IInv, TypeOK
  <2>2. \A i \in 1 .. n : inbox[p][i] \in Message
    BY <2>1
  <2>3. QED
    BY <2>1, <2>2
<1>2. inbox' \in [Node -> Seq(Message)]
  BY <1>1, Parties DEF Disconnect
<1>3. TypeOK'
  BY <1>2 DEF IInv, TypeOK, Disconnect, factory, trade, loop, world
<1>4. QED
  BY <1>3, QuietStep DEF Disconnect, loop, world

LEMMA CrashInv == ASSUME IInv, NEW p \in Node, Crash(p) PROVE IInv'
<1>1. inbox' \in [Node -> Seq(Message)]
  BY DEF IInv, TypeOK, Crash, Crashed
<1>2. TypeOK'
  BY <1>1 DEF IInv, TypeOK, Crash, Crashed, Goto, Phases, factory, trade, loop, world
<1>3. QED
  BY <1>2, QuietStep DEF Crash, loop, world

-----------------------------------------------------------------------------
(* The invariant, and what follows from it.                                *)

LEMMA InitIInv == Init => IInv
<1> SUFFICES ASSUME Init PROVE IInv
  OBVIOUS
<1>1. Msg("match_order") \in Message /\ <<Msg("match_order")>> \in Seq(Message)
  BY MsgType DEF Kinds
<1>2. inbox \in [Node -> Seq(Message)]
  BY <1>1 DEF Init
<1>3. TypeOK
  BY <1>2 DEF Init, TypeOK, States, HandshakeStates, Phases
<1>4. ASSUME NEW p \in Node PROVE Local(p)
  <2>1. state[p] \in {"None", "pending_calibration"} /\ sent[p] = 0 /\ recv[p] = 0 /\ download[p] = 0
    BY <1>4 DEF Init
  <2>2. Role(p)
    BY <2>1 DEF Role, SellerStates, BuyerStates
  <2>3. Stored(p)
    BY <2>1, <1>4 DEF Init, Stored, Held, ReadyStates, SignedStates, AnsweredStates, DisclosedStates, TradingStates, AcceptStates,
     SellerStates, BuyerStates, CompleteStates
  <2>4. Account(p)
    BY <2>1, <1>4, AmountsAssumption, Parties DEF Account, Download, CompleteStates
  <2>5. QED
    BY <2>2, <2>3, <2>4 DEF Local
<1>5. QED
  BY <1>3, <1>4 DEF IInv

LEMMA StutterIInv == ASSUME IInv, UNCHANGED vars PROVE IInv'
<1>1. TypeOK'
  BY DEF IInv, TypeOK, vars, factory, trade, loop, world
<1>2. QED
  BY <1>1, QuietStep DEF vars, loop, world

LEMMA NextIInv == ASSUME IInv, Next PROVE IInv'
<1>1. ASSUME NEW p \in Node, ScanStep(p) PROVE IInv'
  BY <1>1, ScanIdleInv, ScanGetRefundSigInv, ScanGetSetupTxInv, ScanInitiateInv, ScanBroadcastInv,
     ScanCrashInv DEF ScanStep
<1>2. ASSUME NEW p \in Node, Recv(p) PROVE IInv'
  BY <1>2, RecvDroppedInv, RecvMatchOrderInv, RecvCalibratedMatchOrderInv, RecvShakeOnItInv,
     RecvShakeOnItFailsInv, RecvGetRefundSigInv, RecvReturnRefundSigInv, RecvGetSetupTxInv,
     RecvReturnSetupTxInv, RecvReturnAdjustedRefundInv DEF Recv
<1>3. ASSUME NEW p \in Node, RouteStep(p) PROVE IInv'
  BY <1>3, RouteReplyInv, HoldReplyInv, EndRouteInv DEF RouteStep
<1>4. ASSUME NEW p \in Node, Loop(p) PROVE IInv'
  BY <1>1, <1>2, <1>3, <1>4, EndDirectInv, ClientReadyInv, EndClientInv, MonitorSetupInv, MonitorPayoutInv,
     EndMonitorInv DEF Loop, MonitorStep
<1>5. QED
  BY <1>4, ConfirmSetupInv, ConfirmPayoutInv, CrashInv, ServerMatchInv, DisconnectInv DEF Next

LEMMA Invariance == Spec => []IInv
<1>1. IInv /\ [Next]_vars => IInv'
  BY NextIInv, StutterIInv
<1>2. QED
  BY InitIInv, <1>1, PTL DEF Spec

(***************************************************************************)
(* Every variable keeps its type, for all amounts and faults: messages and *)
(* replies are built of the right lines, and no amount becomes negative    *)
(* (the "-" of the chunk computation in adjust_refund_tx).                 *)
(***************************************************************************)
THEOREM TypeCorrectness == Spec => []TypeOK
<1>1. IInv => TypeOK
  BY DEF IInv
<1>2. QED
  BY Invariance, <1>1, PTL

(***************************************************************************)
(* No lookup of the scan raises (main.py:234-265), for all amounts and     *)
(* faults: every path into a state that looks something up went through the*)
(* handler that stored it.                                                 *)
(***************************************************************************)
THEOREM LookupsNeverFail == Spec => []LookupsSucceed
<1>1. IInv => LookupsSucceed
  BY AmountsAssumption, Parties DEF IInv, TypeOK, Local, Stored, Account, Download, LookupsSucceed, Fresh,
     GetSetupTxStates, ReadyStates, SignedStates, AnsweredStates, DisclosedStates, TradingStates, AcceptStates,
     SellerStates, BuyerStates, CompleteStates
<1>2. QED
  BY Invariance, <1>1, PTL

(***************************************************************************)
(* A party that pays holds its signed refund, the peer's refund and the    *)
(* peer's setup TX, for all amounts and faults: adjust_refund_tx runs only *)
(* in states behind parse_return_refund_sig and parse_return_setup_tx.     *)
(***************************************************************************)
THEOREM PaymentsAreSecured == Spec => []PaysOnlySecured
<1>1. IInv => PaysOnlySecured
  BY DEF IInv, Local, Stored, Account, PaysOnlySecured,
     AnsweredStates, SignedStates, DisclosedStates, TradingStates, AcceptStates, CompleteStates
<1>2. QED
  BY Invariance, <1>1, PTL

-----------------------------------------------------------------------------
(***************************************************************************)
(* The order of commitment, SafeSwap.  What a party knows of itself does   *)
(* not suffice here: that the peer's coins are under the contract when a   *)
(* refund is signed, say, it only has from the peer's message.  The        *)
(* invariant GInv says what each message vouches for, from the moment a    *)
(* handler queues it until it is read; for the answer that                 *)
(* parse_get_refund_sig holds back it is less than for one that may leave. *)
(***************************************************************************)

funded == {p \in Node : chain[p] \in OnChain}
secured == {p \in Node : refund[p] = "signed"}
disclosed == {p \in Node : Other(p) \in setups}
paying == {p \in Node : sent[p] > 0}
settled == {p \in Node : payout[p] # "none"}

(***************************************************************************)
(* What p may rely on when it has message m from the other party.          *)
(***************************************************************************)
Vouched(p, m) ==
    /\ m.kind = "get_refund_sig" => Other(p) \in funded
    /\ m.kind = "return_refund_sig" => funded = Node /\ (p = "buyer" => "seller" \in secured)
    /\ m.kind = "return_setup_tx" => secured = Node
    /\ m.amount <= sent[Other(p)]

HeldBack == <<Msg("return_refund_sig")>>

Due(p, reply) ==
    IF reply.gated THEN p = "buyer" /\ reply.lines = HeldBack /\ "seller" \in funded
                   ELSE \A m \in Range(reply.lines) : Vouched(Other(p), m)

Messages ==
    \A p \in Node :
        /\ \A m \in Range(inbox[p]) : Vouched(p, m)
        /\ \A reply \in Range(replies[p]) : Due(p, reply)
        /\ \A reply \in Range(waiting[p]) : Due(p, reply)

(***************************************************************************)
(* The order of commitment, and what ties it to the states of the parties. *)
(***************************************************************************)
Order ==
    /\ secured # {} => funded = Node
    /\ "buyer" \in secured => "seller" \in secured
    /\ setups # {} => secured = Node

Tied(p) ==
    /\ ready[p] # "handled" => chain[p] = "absent"
    /\ state[p] \in ReadyStates => p \in funded
    /\ download[p] <= sent[Other(p)]
    /\ state[p] \in CompleteStates => sent[p] = Upload[p]

GInv == IInv /\ Messages /\ Order /\ \A p \in Node : Tied(p)

-----------------------------------------------------------------------------
(* The lines of a sequence.                                                *)

LEMMA HeadAndTail ==
    ASSUME NEW S, NEW s \in Seq(S), s # <<>>
    PROVE  /\ Head(s) \in Range(s) /\ Head(s) \in S
           /\ Range(Tail(s)) \subseteq Range(s)
BY DEF Range

LEMMA OfAppend ==
    ASSUME NEW S, NEW s \in Seq(S), NEW x \in S
    PROVE  Range(Append(s, x)) \subseteq Range(s) \cup {x}
BY DEF Range

LEMMA OfSubSeq ==
    ASSUME NEW S, NEW s \in Seq(S), NEW n \in 0 .. Len(s)
    PROVE  Range(SubSeq(s, 1, n)) \subseteq Range(s)
BY DEF Range

LEMMA OfShort ==
    /\ Range(<<>>) = {}
    /\ \A x : Range(<<x>>) = {x}
    /\ \A x, y : Range(<<x, y>>) = {x, y}
BY DEF Range

LEMMA DeliveredLines ==
    ASSUME TypeOK, NEW p \in Node, NEW lines \in Seq(Message), NEW q \in Node
    PROVE  Range(Delivered(p, lines)[q]) \subseteq
               Range(inbox[q]) \cup IF q = Other(p) THEN Range(lines) ELSE {}
<1>1. inbox \in [Node -> Seq(Message)] /\ inbox[q] \in Seq(Message) /\ Other(p) \in Node
  BY Parties DEF TypeOK
<1>2. CASE q = Other(p) /\ conUp
  <2>1. Delivered(p, lines)[q] = inbox[q] \o lines
    BY <1>1, <1>2 DEF Delivered
  <2> QED
    BY <1>1, <1>2, <2>1, RangeConcatenation
<1>3. CASE ~ (q = Other(p) /\ conUp)
  BY <1>1, <1>3 DEF Delivered
<1> QED
  BY <1>2, <1>3

LEMMA ConsumedLines ==
    ASSUME TypeOK, NEW p \in Node, inbox[p] # <<>>, Consumed(p)
    PROVE  /\ Head(inbox[p]) \in Range(inbox[p]) /\ Head(inbox[p]) \in Message
           /\ \A q \in Node : Range(inbox'[q]) \subseteq Range(inbox[q])
<1>1. inbox \in [Node -> Seq(Message)] /\ inbox[p] \in Seq(Message)
  BY DEF TypeOK
<1>2. Head(inbox[p]) \in Range(inbox[p]) /\ Head(inbox[p]) \in Message
      /\ Range(Tail(inbox[p])) \subseteq Range(inbox[p])
  BY <1>1, HeadAndTail
<1>3. \A q \in Node : inbox'[q] = IF q = p THEN Tail(inbox[q]) ELSE inbox[q]
  BY <1>1 DEF Consumed
<1> QED
  BY <1>2, <1>3

LEMMA QueuedReplies ==
    ASSUME TypeOK, NEW p \in Node, NEW lines \in Seq(Message), NEW gated \in BOOLEAN,
           Queue(p, lines, gated)
    PROVE  \A q \in Node : Range(replies'[q]) \subseteq
               Range(replies[q]) \cup IF q = p THEN {[lines |-> lines, gated |-> gated]} ELSE {}
<1> DEFINE reply == [lines |-> lines, gated |-> gated]
<1>1. replies \in [Node -> Seq(Reply)] /\ replies[p] \in Seq(Reply) /\ reply \in Reply
  BY DEF TypeOK, Reply
<1>2. replies' = [replies EXCEPT ![p] = Append(replies[p], reply)]
  BY DEF Queue
<1> HIDE DEF reply
<1>3. Range(Append(replies[p], reply)) \subseteq Range(replies[p]) \cup {reply}
  BY <1>1, OfAppend
<1>4. \A q \in Node : Range(replies'[q]) \subseteq Range(replies[q]) \cup IF q = p THEN {reply} ELSE {}
  BY <1>1, <1>2, <1>3
<1> QED
  BY <1>4 DEF reply

-----------------------------------------------------------------------------
(* What a step keeps.                                                      *)

(***************************************************************************)
(* Commitments are never taken back.                                       *)
(***************************************************************************)
Grows ==
    /\ funded \subseteq funded'
    /\ secured \subseteq secured'
    /\ \A p \in Node : sent[p] <= sent'[p]

LEMMA StillVouched ==
    ASSUME TypeOK, TypeOK', Grows, NEW p \in Node, NEW m \in Message, Vouched(p, m)
    PROVE  Vouched(p, m)'
<1>1. m.amount \in Nat /\ sent[Other(p)] \in Nat /\ sent'[Other(p)] \in Nat
      /\ sent[Other(p)] <= sent'[Other(p)]
  BY Parties DEF TypeOK, Message, Grows
<1>2. m.amount <= sent'[Other(p)]
  BY <1>1 DEF Vouched
<1>3. funded = Node => funded' = Node
  BY DEF funded, Grows
<1>4. secured = Node => secured' = Node
  BY DEF secured, Grows
<1> QED
  BY <1>2, <1>3, <1>4 DEF Vouched, Grows

LEMMA StillDue ==
    ASSUME TypeOK, TypeOK', Grows, NEW p \in Node, NEW reply \in Reply, Due(p, reply)
    PROVE  Due(p, reply)'
<1>1. Range(reply.lines) \subseteq Message
  BY DEF Reply, Range
<1>2. Other(p) \in Node
  BY Parties
<1>3. \A m \in Range(reply.lines) : Vouched(Other(p), m) => Vouched(Other(p), m)'
  BY <1>1, <1>2, StillVouched
<1> QED
  BY <1>3 DEF Due, Grows

(***************************************************************************)
(* Messages a step may add, and where replies may move.                    *)
(***************************************************************************)
NewLines ==
    \A p \in Node : \A m \in Range(inbox'[p]) : m \in Range(inbox[p]) \/ Vouched(p, m)'

Queued(p) == Range(replies[p]) \cup Range(waiting[p])

NewReplies ==
    \A p \in Node :
        /\ \A reply \in Range(replies'[p]) : reply \in Queued(p) \/ Due(p, reply)'
        /\ \A reply \in Range(waiting'[p]) : reply \in Queued(p)

LEMMA MessagesKept ==
    ASSUME GInv, TypeOK', Grows, NewLines, NewReplies
    PROVE  Messages'
<1>1. TypeOK /\ Messages
  BY DEF GInv, IInv
<1>2. ASSUME NEW p \in Node
      PROVE  /\ \A m \in Range(inbox[p]) : m \in Message /\ Vouched(p, m)
             /\ \A reply \in Queued(p) : reply \in Reply /\ Due(p, reply)
  <2>1. inbox[p] \in Seq(Message) /\ replies[p] \in Seq(Reply) /\ waiting[p] \in Seq(Reply)
    BY <1>1 DEF TypeOK
  <2>2. Range(inbox[p]) \subseteq Message /\ Queued(p) \subseteq Reply
    BY <2>1 DEF Range, Queued
  <2> QED
    BY <1>1, <2>2 DEF Messages, Queued
<1>3. ASSUME NEW p \in Node, NEW m \in Range(inbox'[p]) PROVE Vouched(p, m)'
  BY <1>1, <1>2, StillVouched DEF NewLines
<1>4. ASSUME NEW p \in Node, NEW reply \in Queued(p) PROVE Due(p, reply)'
  BY <1>1, <1>2, StillDue
<1> QED
  BY <1>3, <1>4 DEF NewReplies, Messages

(***************************************************************************)
(* A step that moves states and messages, and commits nobody.              *)
(***************************************************************************)
Uncommitted ==
    /\ UNCHANGED <<chain, setups, sent, download>>
    /\ secured' = secured
    /\ \A p \in Node : ready'[p] # "handled" => ready[p] # "handled"

LEMMA UncommittedStep ==
    ASSUME GInv, IInv', Uncommitted, NewLines, NewReplies,
           \A p \in Node : state'[p] \in ReadyStates => p \in funded,
           \A p \in Node : state'[p] \in CompleteStates => sent[p] = Upload[p]
    PROVE  GInv'
<1>1. TypeOK'
  BY DEF IInv
<1>2. Grows
  BY DEF Grows, Uncommitted, funded, GInv, IInv, TypeOK
<1>3. Messages'
  BY <1>1, <1>2, MessagesKept
<1>4. Order'
  BY DEF GInv, Order, Uncommitted, funded
<1>5. \A p \in Node : Tied(p)'
  BY DEF GInv, Tied, Uncommitted, funded
<1> QED
  BY <1>3, <1>4, <1>5 DEF GInv

(***************************************************************************)
(* A step that does no more than lose or consume messages.                 *)
(***************************************************************************)
LEMMA QuietGInv ==
    ASSUME GInv, IInv', Uncommitted, UNCHANGED <<state, replies, waiting>>,
           \A p \in Node : Range(inbox'[p]) \subseteq Range(inbox[p])
    PROVE  GInv'
<1>1. NewLines
  BY DEF NewLines
<1>2. NewReplies
  BY DEF NewReplies, Queued
<1>3. /\ \A p \in Node : state'[p] \in ReadyStates => p \in funded
      /\ \A p \in Node : state'[p] \in CompleteStates => sent[p] = Upload[p]
  BY DEF GInv, Tied
<1> QED
  BY <1>1, <1>2, <1>3, UncommittedStep

(***************************************************************************)
(* What the invariant says of p.                                           *)
(***************************************************************************)
LEMMA PartyFacts ==
    ASSUME GInv, NEW p \in Node
    PROVE  /\ TypeOK /\ Local(p) /\ Tied(p)
           /\ state \in [Node -> States] /\ inbox[p] \in Seq(Message)
           /\ replies[p] \in Seq(Reply) /\ waiting[p] \in Seq(Reply)
           /\ \A m \in Range(inbox[p]) : Vouched(p, m)
           /\ \A reply \in Range(replies[p]) : Due(p, reply)
           /\ \A reply \in Range(waiting[p]) : Due(p, reply)
BY DEF GInv, IInv, TypeOK, Messages

-----------------------------------------------------------------------------
(* Steps that neither move a state nor send.                               *)

LEMMA ScanIdleG == ASSUME GInv, IInv', NEW p \in Node, ScanIdle(p) PROVE GInv'
BY QuietGInv DEF ScanIdle, Scan, factory, trade, Uncommitted, secured

LEMMA CrashedInbox ==
    ASSUME GInv, NEW p \in Node, Crashed(p)
    PROVE  \A q \in Node : Range(inbox'[q]) \subseteq Range(inbox[q])
<1>1. \A q \in Node : inbox'[q] = IF q = p THEN <<>> ELSE inbox[q]
  BY DEF Crashed, GInv, IInv, TypeOK
<1> QED
  BY <1>1, OfShort

LEMMA ScanCrashG == ASSUME GInv, IInv', NEW p \in Node, ScanCrash(p) PROVE GInv'
BY QuietGInv, CrashedInbox DEF ScanCrash, Scan, factory, trade, Uncommitted, secured

LEMMA CrashG == ASSUME GInv, IInv', NEW p \in Node, Crash(p) PROVE GInv'
BY QuietGInv, CrashedInbox DEF Crash, factory, trade, loop, world, Uncommitted, secured

LEMMA RecvDroppedG == ASSUME GInv, IInv', NEW p \in Node, RecvDropped(p) PROVE GInv'
BY QuietGInv, ConsumedLines, PartyFacts DEF RecvDropped, factory, trade, loop, world, Uncommitted, secured

LEMMA RecvShakeOnItFailsG == ASSUME GInv, IInv', NEW p \in Node, RecvShakeOnItFails(p) PROVE GInv'
BY QuietGInv, ConsumedLines, PartyFacts
   DEF RecvShakeOnItFails, Receive, trade, loop, world, Uncommitted, secured

LEMMA EndsG ==
    ASSUME GInv, IInv', NEW p \in Node, EndDirect(p) \/ EndClient(p) \/ EndMonitor(p)
    PROVE  GInv'
BY QuietGInv DEF EndDirect, EndClient, EndMonitor, factory, trade, loop, world, Uncommitted, secured

LEMMA ServerMatchG == ASSUME GInv, IInv', ServerMatch PROVE GInv'
<1>1. \A p \in Node : ready[p] # "handled"
  BY DEF ServerMatch
<1> QED
  BY <1>1, QuietGInv DEF ServerMatch, factory, trade, loop, Uncommitted, secured

LEMMA DisconnectG == ASSUME GInv, IInv', Disconnect PROVE GInv'
<1>1. ASSUME NEW p \in Node PROVE Range(inbox'[p]) \subseteq Range(inbox[p])
  <2>1. PICK n \in 0 .. Len(inbox[p]) : inbox'[p] = SubSeq(inbox[p], 1, n)
    <3>1. PICK buyer \in 0 .. Len(inbox["buyer"]), seller \in 0 .. Len(inbox["seller"]) :
            inbox' = [q \in Node |-> SubSeq(inbox[q], 1, IF q = "buyer" THEN buyer ELSE seller)]
      BY DEF Disconnect
    <3>2. CASE p = "buyer"
      BY <3>1, <3>2
    <3>3. CASE p = "seller"
      BY <3>1, <3>3
    <3> QED
      BY <3>2, <3>3, Parties
  <2> QED
    BY <2>1, OfSubSeq, PartyFacts
<1> QED
  BY <1>1, QuietGInv DEF Disconnect, factory, trade, loop, world, Uncommitted, secured

LEMMA ConfirmPayoutG == ASSUME GInv, IInv', NEW p \in Node, ConfirmPayout(p) PROVE GInv'
BY QuietGInv DEF ConfirmPayout, factory, trade, loop, Uncommitted, secured

LEMMA StutterG == ASSUME GInv, IInv', UNCHANGED vars PROVE GInv'
BY QuietGInv DEF vars, factory, trade, loop, world, Uncommitted, secured

-----------------------------------------------------------------------------
(* Steps that move a state, and what they send.                            *)

LEMMA SentLine ==
    ASSUME TypeOK, NEW kind \in Kinds, NEW p \in Node, NEW q \in Node
    PROVE  /\ <<Msg(kind)>> \in Seq(Message)
           /\ Range(Delivered(p, <<Msg(kind)>>)[q]) \subseteq
                  Range(inbox[q]) \cup IF q = Other(p) THEN {Msg(kind)} ELSE {}
<1>1. <<Msg(kind)>> \in Seq(Message) /\ Range(<<Msg(kind)>>) = {Msg(kind)}
  BY MsgType, OfShort
<1> QED
  BY <1>1, DeliveredLines

LEMMA Harmless ==
    ASSUME TypeOK', NEW p \in Node, NEW kind \in Kinds,
           kind \notin {"get_refund_sig", "return_refund_sig", "return_setup_tx"}
    PROVE  Vouched(p, Msg(kind))'
<1>1. sent'[Other(p)] \in Nat
  BY Parties DEF TypeOK
<1> QED
  BY <1>1 DEF Vouched, Msg

(***************************************************************************)
(* A party that moves to a state that needs no new commitment.             *)
(***************************************************************************)
LEMMA Moved ==
    ASSUME GInv, NEW p \in Node, NEW next, UpdateState(p, next),
           next \in ReadyStates => p \in funded,
           next \in CompleteStates => state[p] \in CompleteStates
    PROVE  /\ \A q \in Node : state'[q] \in ReadyStates => q \in funded
           /\ \A q \in Node : state'[q] \in CompleteStates => sent[q] = Upload[q]
<1>1. state'[p] = next /\ \A q \in Node : q # p => state'[q] = state[q]
  BY DEF UpdateState, GInv, IInv, TypeOK
<1> QED
  BY <1>1, PartyFacts DEF Tied

LEMMA ScanGetRefundSigG == ASSUME GInv, IInv', NEW p \in Node, ScanGetRefundSig(p) PROVE GInv'
<1> USE DEF ScanGetRefundSig, Scan, UpdateState, Goto, trade
<1>1. Uncommitted
  BY DEF GInv, IInv, TypeOK, Uncommitted, secured
<1>2. state[p] \in ReadyStates
  BY DEF GetRefundSigStates, ReadyStates, SellerStates, BuyerStates
<1>3. p \in funded
  BY <1>2, PartyFacts DEF Tied
<1>4. NewLines
  <2> SUFFICES ASSUME NEW q \in Node, NEW m \in Range(inbox'[q]), m \notin Range(inbox[q])
               PROVE  Vouched(q, m)'
    BY DEF NewLines
  <2>1. q = Other(p) /\ m = Msg("get_refund_sig")
    BY SentLine, PartyFacts DEF Kinds
  <2>2. funded' = funded /\ p = Other(q) /\ sent'[p] \in Nat
    BY <1>1, <2>1, Parties DEF funded, Uncommitted, Other, IInv, TypeOK
  <2> QED
    BY <1>3, <2>1, <2>2 DEF Vouched, Msg
<1>5. NewReplies
  BY DEF NewReplies, Queued
<1>6. /\ state'[p] \notin CompleteStates
      /\ UpdateState(p, state'[p])
  BY DEF GInv, IInv, TypeOK, CompleteStates
<1> QED
  BY <1>1, <1>3, <1>4, <1>5, <1>6, Moved, UncommittedStep

LEMMA ScanGetSetupTxG == ASSUME GInv, IInv', NEW p \in Node, ScanGetSetupTx(p) PROVE GInv'
<1> USE DEF ScanGetSetupTx, Scan, UpdateState, Goto, trade, factory
<1>1. Uncommitted
  BY DEF Uncommitted, secured
<1>2. state[p] \in ReadyStates
  BY DEF GetSetupTxStates, ReadyStates, SellerStates, BuyerStates
<1>3. p \in funded
  BY <1>2, PartyFacts DEF Tied
<1>4. NewLines
  <2> SUFFICES ASSUME NEW q \in Node, NEW m \in Range(inbox'[q]), m \notin Range(inbox[q])
               PROVE  Vouched(q, m)'
    BY DEF NewLines
  <2>1. m = Msg("get_setup_tx")
    BY SentLine, PartyFacts DEF Kinds
  <2>2. TypeOK' /\ "get_setup_tx" \in Kinds
    BY DEF IInv, Kinds
  <2> QED
    BY <2>1, <2>2, Parties DEF Vouched, Msg, TypeOK
<1>5. NewReplies
  BY DEF NewReplies, Queued
<1>6. /\ state'[p] \notin CompleteStates
      /\ UpdateState(p, state'[p])
  BY DEF GInv, IInv, TypeOK, CompleteStates
<1> QED
  BY <1>1, <1>3, <1>4, <1>5, <1>6, Moved, UncommittedStep

LEMMA ScanBroadcastG == ASSUME GInv, IInv', NEW p \in Node, ScanBroadcast(p) PROVE GInv'
<1> USE DEF ScanBroadcast, Scan, trade, factory
<1>1. Uncommitted
  BY DEF Uncommitted, secured
<1>2. state[p] \in CompleteStates /\ state[p] \in ReadyStates
  BY DEF CompleteStates, ReadyStates
<1>3. p \in funded
  BY <1>2, PartyFacts DEF Tied
<1>4. NewLines /\ NewReplies
  BY DEF NewLines, NewReplies, Queued
<1> QED
  BY <1>1, <1>2, <1>3, <1>4, Moved, UncommittedStep

(***************************************************************************)
(* A handler that queues one answer, not held back.                        *)
(***************************************************************************)
LEMMA Answered ==
    ASSUME GInv, NEW p \in Node, NEW lines \in Seq(Message), Queue(p, lines, FALSE),
           UNCHANGED waiting, \A m \in Range(lines) : Vouched(Other(p), m)'
    PROVE  NewReplies
<1> DEFINE reply == [lines |-> lines, gated |-> FALSE]
<1>1. \A q \in Node : Range(replies'[q]) \subseteq Range(replies[q]) \cup IF q = p THEN {reply} ELSE {}
  BY QueuedReplies, PartyFacts
<1>2. Due(p, reply)'
  BY DEF Due
<1> QED
  BY <1>1, <1>2 DEF NewReplies, Queued

LEMMA FewerLines ==
    ASSUME GInv, NEW p \in Node, inbox[p] # <<>>, Consumed(p)
    PROVE  /\ NewLines
           /\ Head(inbox[p]) \in Message /\ Vouched(p, Head(inbox[p]))
BY ConsumedLines, PartyFacts DEF NewLines

LEMMA HarmlessAnswer ==
    ASSUME TypeOK', NEW p \in Node,
           NEW kind \in Kinds \ {"get_refund_sig", "return_refund_sig", "return_setup_tx"},
           NEW other \in Kinds \ {"get_refund_sig", "return_refund_sig", "return_setup_tx"}
    PROVE  /\ <<Msg(kind)>> \in Seq(Message) /\ <<Msg(kind), Msg(other)>> \in Seq(Message)
           /\ \A m \in Range(<<Msg(kind)>>) : Vouched(p, m)'
           /\ \A m \in Range(<<Msg(kind), Msg(other)>>) : Vouched(p, m)'
BY MsgType, TwoLines, OfShort, Harmless

LEMMA RecvMatchOrderG == ASSUME GInv, IInv', NEW p \in Node, RecvMatchOrder(p) PROVE GInv'
<1> USE DEF RecvMatchOrder, Receive, trade, world, factory
<1>1. Uncommitted
  BY DEF Uncommitted, secured
<1>2. "pending_handshake" \notin CompleteStates /\ "pending_handshake" \notin ReadyStates
  BY DEF CompleteStates, ReadyStates, BuyerStates, SellerStates
<1>3. NewLines
  BY FewerLines
<1>4. NewReplies
  <2>1. {"calibrated_match_order", "shake_on_it"}
          \subseteq Kinds \ {"get_refund_sig", "return_refund_sig", "return_setup_tx"}
    BY DEF Kinds
  <2>2. TypeOK' /\ Other(p) \in Node
    BY Parties DEF IInv
  <2>3. /\ <<Msg("calibrated_match_order"), Msg("shake_on_it")>> \in Seq(Message)
        /\ \A m \in Range(<<Msg("calibrated_match_order"), Msg("shake_on_it")>>) : Vouched(Other(p), m)'
    BY <2>1, <2>2, HarmlessAnswer
  <2> QED
    BY <2>3, Answered
<1> QED
  BY <1>1, <1>2, <1>3, <1>4, Moved, UncommittedStep

LEMMA RecvCalibratedMatchOrderG ==
    ASSUME GInv, IInv', NEW p \in Node, RecvCalibratedMatchOrder(p)
    PROVE  GInv'
<1> USE DEF RecvCalibratedMatchOrder, Receive, trade, world, factory
<1>1. Uncommitted
  BY DEF Uncommitted, secured
<1>2. "pending_handshake" \notin CompleteStates /\ "pending_handshake" \notin ReadyStates
  BY DEF CompleteStates, ReadyStates, BuyerStates, SellerStates
<1>3. NewLines
  BY FewerLines
<1>4. NewReplies
  <2>1. "shake_on_it" \in Kinds \ {"get_refund_sig", "return_refund_sig", "return_setup_tx"}
    BY DEF Kinds
  <2>2. TypeOK' /\ Other(p) \in Node
    BY Parties DEF IInv
  <2>3. /\ <<Msg("shake_on_it")>> \in Seq(Message)
        /\ \A m \in Range(<<Msg("shake_on_it")>>) : Vouched(Other(p), m)'
    BY <2>1, <2>2, HarmlessAnswer
  <2> QED
    BY <2>3, Answered
<1> QED
  BY <1>1, <1>2, <1>3, <1>4, Moved, UncommittedStep

LEMMA RecvShakeOnItG == ASSUME GInv, IInv', NEW p \in Node, RecvShakeOnIt(p) PROVE GInv'
<1> USE DEF RecvShakeOnIt, Receive, trade, loop
<1>1. Uncommitted
  BY DEF Uncommitted, secured
<1>2. "pending_contract" \notin CompleteStates /\ "pending_contract" \notin ReadyStates
  BY DEF CompleteStates, ReadyStates, BuyerStates, SellerStates
<1>3. NewLines
  <2> DEFINE given == Delivered(p, <<Msg("unparsed")>>)
  <2> SUFFICES ASSUME NEW q \in Node, NEW m \in Range(inbox'[q]), m \notin Range(inbox[q])
               PROVE  Vouched(q, m)'
    BY DEF NewLines
  <2>1. /\ "unparsed" \in Kinds
        /\ Range(given[q]) \subseteq Range(inbox[q]) \cup {Msg("unparsed")}
    BY SentLine, PartyFacts DEF Kinds
  <2>2. /\ given \in [Node -> Seq(Message)]
        /\ inbox' = [given EXCEPT ![p] = Tail(inbox[p])]
        /\ Range(Tail(inbox[p])) \subseteq Range(inbox[p])
    <3>1. given \in [Node -> Seq(Message)]
      BY <2>1, MsgType, DeliveredType, PartyFacts
    <3>2. given[p] = inbox[p]
      BY Parties, PartyFacts DEF Delivered, TypeOK
    <3> QED
      BY <3>1, <3>2, HeadAndTail, PartyFacts
  <2> HIDE DEF given
  <2>3. m = Msg("unparsed")
    BY <2>1, <2>2
  <2>4. TypeOK'
    BY DEF IInv
  <2> QED
    BY <2>1, <2>3, <2>4, Harmless
<1>4. NewReplies
  BY DEF NewReplies, Queued
<1> QED
  BY <1>1, <1>2, <1>3, <1>4, Moved, UncommittedStep

LEMMA RecvGetRefundSigG == ASSUME GInv, IInv', NEW p \in Node, RecvGetRefundSig(p) PROVE GInv'
<1> SUFFICES ASSUME NEW gated \in BOOLEAN, gated = (state'[p] = "pending_buyer_setup_tx_confirm")
             PROVE  GInv'
  OBVIOUS
<1> DEFINE reply == [lines |-> HeldBack, gated |-> gated]
<1>1. Uncommitted
  BY DEF RecvGetRefundSig, Receive, trade, world, Uncommitted, secured
<1>2. \/ /\ p = "seller"
         /\ state[p] \in {"pending_seller_return_refund_sig", "pending_seller_get_setup_tx"}
         /\ state'[p] = "pending_seller_get_setup_tx"
      \/ /\ p = "buyer"
         /\ state[p] = "pending_contract"
         /\ state'[p] = "pending_buyer_setup_tx_confirm"
      \/ /\ p = "buyer"
         /\ state[p] = "pending_buyer_return_refund_sig"
         /\ state'[p] = "pending_buyer_get_refund_sig"
  BY GetRefundSigMoves DEF GInv
<1>3. /\ state'[p] \in ReadyStates => p \in funded
      /\ p = "seller" => refund[p] = "signed"
  BY <1>2, PartyFacts DEF Tied, Local, Stored, ReadyStates, SignedStates, SellerStates, BuyerStates, CompleteStates
<1>4. state'[p] \notin CompleteStates /\ UpdateState(p, state'[p])
  BY <1>2, PartyFacts DEF RecvGetRefundSig, UpdateState, CompleteStates
<1>5. inbox[p] # <<>> /\ Head(inbox[p]).kind = "get_refund_sig" /\ Consumed(p)
  BY DEF RecvGetRefundSig, Receive
<1>6. NewLines /\ Other(p) \in funded
  BY <1>5, FewerLines DEF Vouched
<1>7. Due(p, reply)'
  <2>1. funded' = funded /\ secured' = secured /\ HeldBack' = HeldBack
    BY <1>1 DEF funded, Uncommitted, HeldBack, Msg
  <2>2. CASE gated
    BY <1>2, <1>6, <2>1, <2>2 DEF Due, Other
  <2>3. CASE ~gated
    <3>1. funded = Node /\ (Other(p) = "buyer" => "seller" \in secured)
      <4>1. CASE p = "seller"
        BY <1>3, <4>1 DEF GInv, Order, secured
      <4>2. CASE p = "buyer"
        <5>1. p \in funded /\ Other(p) \in funded /\ Other(p) = "seller"
          BY <1>2, <1>3, <1>6, <2>3, <4>2 DEF ReadyStates, BuyerStates, Other
        <5> QED
          BY <4>2, <5>1 DEF funded, Node
      <4> QED
        BY <4>1, <4>2, Parties
    <3>2. sent'[Other(Other(p))] \in Nat
      BY Parties DEF IInv, TypeOK
    <3>3. Vouched(Other(p), Msg("return_refund_sig"))'
      BY <2>1, <3>1, <3>2 DEF Vouched, Msg
    <3> QED
      BY <2>1, <2>3, <3>3, OfShort DEF Due, HeldBack
  <2> QED
    BY <2>2, <2>3
<1>8. NewReplies
  <2>1. CASE UNCHANGED replies
    BY <2>1 DEF NewReplies, Queued, RecvGetRefundSig
  <2>2. CASE Queue(p, HeldBack, gated)
    <3>1. HeldBack \in Seq(Message)
      BY MsgType DEF HeldBack, Kinds
    <3>2. \A q \in Node : Range(replies'[q]) \subseteq Range(replies[q]) \cup IF q = p THEN {reply} ELSE {}
      BY <2>2, <3>1, QueuedReplies, PartyFacts
    <3> HIDE DEF reply
    <3> QED
      BY <1>7, <3>2 DEF NewReplies, Queued, RecvGetRefundSig
  <2> QED
    BY <2>1, <2>2 DEF RecvGetRefundSig, HeldBack
<1> QED
  BY <1>1, <1>3, <1>4, <1>6, <1>8, Moved, UncommittedStep

LEMMA RecvGetSetupTxG == ASSUME GInv, IInv', NEW p \in Node, RecvGetSetupTx(p) PROVE GInv'
<1>1. Uncommitted
  BY DEF RecvGetSetupTx, Receive, factory, trade, world, Uncommitted, secured
<1>2. \/ /\ p = "seller"
         /\ state[p] \in {"pending_seller_return_setup_tx", "seller_initiate_microtransfer"}
         /\ state'[p] = "seller_initiate_microtransfer"
      \/ /\ p = "buyer"
         /\ state[p] \in {"pending_buyer_return_setup_tx", "pending_buyer_get_setup_tx"}
         /\ state'[p] = "pending_buyer_get_setup_tx"
  BY GetSetupTxMoves DEF GInv
<1>3. p \in funded /\ secured = Node
  <2>1. p \in funded
    BY <1>2, PartyFacts DEF Tied, ReadyStates, SellerStates, BuyerStates
  <2>2. CASE p = "seller"
    BY <1>2, <2>2, PartyFacts DEF Local, Stored, DisclosedStates, GInv, Order
  <2>3. CASE p = "buyer"
    <3>1. "buyer" \in secured
      BY <1>2, <2>3, PartyFacts DEF Local, Stored, SignedStates, secured
    <3> QED
      BY <3>1 DEF GInv, Order, secured, Node
  <2> QED
    BY <2>1, <2>2, <2>3, Parties
<1>4. state'[p] \notin CompleteStates /\ UpdateState(p, state'[p])
  BY <1>2, PartyFacts DEF RecvGetSetupTx, UpdateState, CompleteStates
<1>5. NewLines
  BY FewerLines DEF RecvGetSetupTx, Receive
<1>6. NewReplies
  <2>1. /\ <<Msg("return_setup_tx")>> \in Seq(Message)
        /\ Range(<<Msg("return_setup_tx")>>) = {Msg("return_setup_tx")}
    BY MsgType, OfShort DEF Kinds
  <2>2. sent'[Other(Other(p))] \in Nat /\ secured' = Node
    BY <1>1, <1>3, Parties DEF IInv, TypeOK, Uncommitted
  <2>3. Vouched(Other(p), Msg("return_setup_tx"))'
    BY <2>2 DEF Vouched, Msg
  <2> QED
    BY <2>1, <2>3, Answered DEF RecvGetSetupTx
<1> QED
  BY <1>1, <1>3, <1>4, <1>5, <1>6, Moved, UncommittedStep

-----------------------------------------------------------------------------
(* Routing and monitoring.                                                 *)

(***************************************************************************)
(* The answer that was held back leaves when the buyer has funded, too.    *)
(***************************************************************************)
LEMMA ReleasedLines ==
    ASSUME GInv, NEW p \in Node, NEW reply \in Reply, Due(p, reply), ~reply.gated \/ StatusCheck(p),
           NEW m \in Range(reply.lines)
    PROVE  Vouched(Other(p), m)
<1>1. CASE ~reply.gated
  BY <1>1 DEF Due
<1>2. CASE reply.gated
  <2>1. p = "buyer" /\ reply.lines = HeldBack /\ "seller" \in funded
    BY <1>2 DEF Due
  <2>2. "buyer" \in funded
    BY <1>2, <2>1, BuyerMoves, PartyFacts DEF StatusCheck, Tied, ReadyStates, BuyerStates
  <2>3. funded = Node /\ Other(p) = "seller" /\ m = Msg("return_refund_sig")
    BY <2>1, <2>2, OfShort DEF funded, Node, Other, HeldBack
  <2>4. sent[Other(Other(p))] \in Nat
    BY Parties, PartyFacts DEF TypeOK
  <2> QED
    BY <2>3, <2>4 DEF Vouched, Msg
<1> QED
  BY <1>1, <1>2 DEF Reply

LEMMA RouteReplyG == ASSUME GInv, IInv', NEW p \in Node, RouteReply(p) PROVE GInv'
<1> USE DEF RouteReply, factory, trade, world
<1> DEFINE reply == Head(replies[p])
<1>1. /\ reply \in Reply /\ reply.lines \in Seq(Message) /\ Due(p, reply)
      /\ Range(Tail(replies[p])) \subseteq Range(replies[p])
  <2>1. /\ reply \in Range(replies[p]) /\ reply \in Reply
        /\ Range(Tail(replies[p])) \subseteq Range(replies[p])
    BY HeadAndTail, PartyFacts
  <2> QED
    BY <2>1, PartyFacts DEF Reply
<1>2. Uncommitted
  BY DEF Uncommitted, secured
<1>3. NewLines
  <2> SUFFICES ASSUME NEW q \in Node, NEW m \in Range(inbox'[q]), m \notin Range(inbox[q])
               PROVE  Vouched(q, m)'
    BY DEF NewLines
  <2>1. q = Other(p) /\ m \in Range(reply.lines)
    BY <1>1, DeliveredLines, PartyFacts
  <2>2. Vouched(q, m)
    BY <1>1, <2>1, ReleasedLines
  <2>3. funded' = funded /\ secured' = secured /\ sent' = sent
    BY <1>2 DEF funded, Uncommitted
  <2> QED
    BY <2>2, <2>3 DEF Vouched
<1>4. NewReplies
  <2>1. replies' = [replies EXCEPT ![p] = Tail(replies[p])] /\ replies \in [Node -> Seq(Reply)]
    BY PartyFacts DEF TypeOK
  <2> QED
    BY <1>1, <2>1 DEF NewReplies, Queued
<1>5. CASE ~reply.gated
  BY <1>2, <1>3, <1>4, <1>5, UncommittedStep, PartyFacts DEF Tied
<1>6. CASE reply.gated
  <2>1. UpdateState(p, "pending_buyer_get_refund_sig")
    BY <1>6
  <2>2. state[p] \in ReadyStates
    BY <1>6, BuyerMoves DEF StatusCheck, ReadyStates, BuyerStates
  <2>3. p \in funded /\ "pending_buyer_get_refund_sig" \notin CompleteStates
    BY <2>2, PartyFacts DEF Tied, CompleteStates
  <2> QED
    BY <1>2, <1>3, <1>4, <2>1, <2>3, Moved, UncommittedStep
<1> QED
  BY <1>5, <1>6

LEMMA HoldReplyG == ASSUME GInv, IInv', NEW p \in Node, HoldReply(p) PROVE GInv'
<1> USE DEF HoldReply, factory, trade, world
<1>1. /\ Head(replies[p]) \in Range(replies[p]) /\ Head(replies[p]) \in Reply
      /\ Range(Tail(replies[p])) \subseteq Range(replies[p])
  BY HeadAndTail, PartyFacts
<1>2. Range(Append(waiting[p], Head(replies[p]))) \subseteq Range(waiting[p]) \cup {Head(replies[p])}
  BY <1>1, OfAppend, PartyFacts
<1>3. Uncommitted /\ NewLines
  BY DEF Uncommitted, secured, NewLines
<1>4. NewReplies
  <2>1. /\ replies' = [replies EXCEPT ![p] = Tail(replies[p])]
        /\ waiting' = [waiting EXCEPT ![p] = Append(waiting[p], Head(replies[p]))]
        /\ replies \in [Node -> Seq(Reply)] /\ waiting \in [Node -> Seq(Reply)]
    BY PartyFacts DEF TypeOK
  <2> QED
    BY <1>1, <1>2, <2>1 DEF NewReplies, Queued
<1> QED
  BY <1>3, <1>4, UncommittedStep, PartyFacts DEF Tied

LEMMA EndRouteG == ASSUME GInv, IInv', NEW p \in Node, EndRoute(p) PROVE GInv'
<1> USE DEF EndRoute, factory, trade, world
<1>1. Uncommitted /\ NewLines
  BY DEF Uncommitted, secured, NewLines
<1>2. NewReplies
  BY OfShort, PartyFacts DEF NewReplies, Queued, TypeOK
<1> QED
  BY <1>1, <1>2, UncommittedStep, PartyFacts DEF Tied

LEMMA MonitorSetupG == ASSUME GInv, IInv', NEW p \in Node, MonitorSetup(p) PROVE GInv'
<1>1. Uncommitted /\ NewLines /\ NewReplies
  BY DEF MonitorSetup, factory, trade, loop, Uncommitted, secured, NewLines, NewReplies, Queued
<1>2. p \in funded
  BY DEF MonitorSetup, funded, OnChain
<1>3. UpdateState(p, state'[p]) /\ (state'[p] \in CompleteStates => state[p] \in CompleteStates)
  BY MonitorSetupMoves, PartyFacts DEF GInv, MonitorSetup, UpdateState, CompleteStates
<1> QED
  BY <1>1, <1>2, <1>3, Moved, UncommittedStep

LEMMA MonitorPayoutG == ASSUME GInv, IInv', NEW p \in Node, MonitorPayout(p) PROVE GInv'
<1>1. Uncommitted /\ NewLines /\ NewReplies
  BY DEF MonitorPayout, factory, trade, loop, Uncommitted, secured, NewLines, NewReplies, Queued
<1>2. state[p] \in CompleteStates /\ p \in funded
  BY PartyFacts DEF MonitorPayout, Local, Stored, Tied, ReadyStates
<1> QED
  BY <1>1, <1>2, Moved, UncommittedStep DEF MonitorPayout

-----------------------------------------------------------------------------
(* Steps that commit a party.                                              *)

LEMMA CommittedStep ==
    ASSUME GInv, IInv', Grows, NewLines, NewReplies, Order', \A p \in Node : Tied(p)'
    PROVE  GInv'
BY MessagesKept DEF GInv, IInv

LEMMA ConfirmSetupG == ASSUME GInv, IInv', NEW p \in Node, ConfirmSetup(p) PROVE GInv'
<1> USE DEF ConfirmSetup, factory, trade, loop
<1>1. /\ chain[p] = "mempool" /\ \A q \in Node \ {p} : chain'[q] = chain[q]
      /\ funded \subseteq funded' /\ secured' = secured
  <2>1. chain \in [Node -> {"absent", "mempool", "confirmed", "mutated"}]
    BY PartyFacts DEF TypeOK
  <2>2. chain[p] = "mempool" /\ \A q \in Node \ {p} : chain'[q] = chain[q]
    BY <2>1
  <2> QED
    BY <2>2 DEF funded, OnChain, secured
<1>2. Grows /\ NewLines /\ NewReplies
  BY <1>1, PartyFacts DEF Grows, NewLines, NewReplies, Queued, TypeOK
<1>3. Order'
  BY <1>1 DEF GInv, Order, funded
<1>4. \A q \in Node : Tied(q)'
  BY <1>1, PartyFacts DEF Tied
<1> QED
  BY <1>2, <1>3, <1>4, CommittedStep

LEMMA ClientReadyG == ASSUME GInv, IInv', NEW p \in Node, ClientReady(p) PROVE GInv'
<1> USE DEF ClientReady, trade, loop
<1>1. /\ chain[p] = "absent" /\ chain'[p] \notin OnChain /\ ready'[p] = "handled"
      /\ \A q \in Node \ {p} : chain'[q] = chain[q] /\ ready'[q] = ready[q]
  BY PartyFacts DEF Tied, TypeOK, OnChain
<1>2. funded' = funded /\ secured' = secured
  BY <1>1 DEF funded, OnChain, secured
<1>3. Grows /\ NewLines /\ NewReplies
  BY <1>2, PartyFacts DEF Grows, NewLines, NewReplies, Queued, TypeOK
<1>4. Order'
  BY <1>2 DEF GInv, Order
<1>5. \A q \in Node : Tied(q)'
  BY <1>1, <1>2, PartyFacts DEF Tied
<1> QED
  BY <1>3, <1>4, <1>5, CommittedStep

LEMMA RecvReturnRefundSigG == ASSUME GInv, IInv', NEW p \in Node, RecvReturnRefundSig(p) PROVE GInv'
<1> USE DEF trade, loop, world
<1>1. /\ inbox[p] # <<>> /\ Head(inbox[p]).kind = "return_refund_sig" /\ Consumed(p)
      /\ UNCHANGED <<phase, conUp, contracts, txids, refunds, setups, trade, loop, world>>
      /\ refund' = [refund EXCEPT ![p] = "signed"]
  BY DEF RecvReturnRefundSig, Receive
<1>2. NewLines /\ funded = Node /\ (p = "buyer" => "seller" \in secured)
  BY <1>1, FewerLines DEF Vouched
<1>3. funded' = Node /\ secured' = secured \cup {p}
  BY <1>1, <1>2, PartyFacts DEF funded, secured, TypeOK
<1>4. Grows /\ NewReplies
  BY <1>1, <1>2, <1>3, PartyFacts DEF Grows, NewReplies, Queued, TypeOK
<1>5. Order'
  BY <1>1, <1>2, <1>3, Parties DEF GInv, Order
<1>6. \A q \in Node : state'[q] \in CompleteStates => state[q] \in CompleteStates
  BY ReturnRefundSigMoves, PartyFacts DEF GInv, RecvReturnRefundSig, UpdateState, CompleteStates
<1>7. \A q \in Node : Tied(q)'
  BY <1>1, <1>3, <1>6, PartyFacts DEF Tied
<1> QED
  BY <1>2, <1>4, <1>5, <1>7, CommittedStep

LEMMA RecvReturnSetupTxG == ASSUME GInv, IInv', NEW p \in Node, RecvReturnSetupTx(p) PROVE GInv'
<1> USE DEF trade, loop, world
<1>1. /\ inbox[p] # <<>> /\ Head(inbox[p]).kind = "return_setup_tx" /\ Consumed(p)
      /\ UNCHANGED <<phase, conUp, contracts, txids, refunds, refund, trade, loop, world>>
      /\ setups' = setups \cup {p}
  BY DEF RecvReturnSetupTx, Receive
<1>2. NewLines /\ secured = Node
  BY <1>1, FewerLines DEF Vouched
<1>3. funded' = funded /\ secured' = secured /\ funded = Node
  BY <1>1, <1>2, Parties DEF GInv, Order, funded, secured
<1>4. Grows /\ NewReplies
  BY <1>1, <1>3, PartyFacts DEF Grows, NewReplies, Queued, TypeOK
<1>5. Order'
  BY <1>2, <1>3 DEF GInv, Order
<1>6. \A q \in Node : state'[q] \in CompleteStates => state[q] \in CompleteStates
  BY ReturnSetupTxMoves, PartyFacts DEF GInv, RecvReturnSetupTx, UpdateState, CompleteStates
<1>7. \A q \in Node : Tied(q)'
  BY <1>1, <1>3, <1>6, PartyFacts DEF Tied
<1> QED
  BY <1>2, <1>4, <1>5, <1>7, CommittedStep

(***************************************************************************)
(* What adjust_refund_tx() signs is what it offers.                        *)
(***************************************************************************)
LEMMA Adjusted ==
    ASSUME GInv, NEW p \in Node, NEW paid \in Nat, Adjust(p, paid), paid <= sent[Other(p)]
    PROVE  /\ Offer(p) \in Message /\ <<Offer(p)>> \in Seq(Message)
           /\ Offer(p).kind = "return_adjusted_refund" /\ Offer(p).amount = sent'[p]
           /\ \A q \in Node : sent[q] <= sent'[q] /\ (q # p => sent'[q] = sent[q])
           /\ \A q \in Node : download'[q] <= sent'[Other(q)]
<1>1. /\ SendChunk(p) \in Nat /\ <<Offer(p)>> \in Seq(Message) /\ Offer(p) \in Message
      /\ download'[p] = IF paid = 0 THEN download[p] ELSE paid
      /\ \A q \in Node \ {p} : sent'[q] = sent[q] /\ download'[q] = download[q]
  BY AdjustType DEF GInv
<1>2. /\ sent \in [Node -> Nat] /\ download \in [Node -> Nat]
      /\ \A q \in Node : Other(q) \in Node /\ Other(q) # q
  BY Parties, PartyFacts DEF TypeOK
<1>3. sent'[p] = sent[p] + SendChunk(p)
  BY <1>2 DEF Adjust
<1>4. \A q \in Node : sent[q] \in Nat /\ sent'[q] \in Nat /\ sent[q] <= sent'[q]
  BY <1>1, <1>2, <1>3
<1>5. \A q \in Node : download'[q] <= sent'[Other(q)]
  <2> SUFFICES ASSUME NEW q \in Node PROVE download'[q] <= sent'[Other(q)]
    OBVIOUS
  <2>1. download'[q] \in Nat /\ download'[q] <= sent[Other(q)]
    BY <1>1, <1>2, PartyFacts DEF Tied
  <2>2. sent[Other(q)] \in Nat /\ sent'[Other(q)] \in Nat /\ sent[Other(q)] <= sent'[Other(q)]
    BY <1>2, <1>4
  <2> QED
    BY <2>1, <2>2
<1> QED
  BY <1>1, <1>3, <1>4, <1>5 DEF Offer

(***************************************************************************)
(* p trades on: it has signed more, its state is one it may trade in.      *)
(***************************************************************************)
LEMMA TradedStep ==
    ASSUME GInv, IInv', NEW p \in Node, NewLines, NewReplies,
           UNCHANGED <<setups, refund, chain, ready>>,
           \A q \in Node : sent[q] <= sent'[q] /\ (q # p => sent'[q] = sent[q]),
           \A q \in Node : download'[q] <= sent'[Other(q)],
           \A q \in Node : q # p => state'[q] = state[q],
           p \in funded, state'[p] \in CompleteStates => sent'[p] = Upload[p]
    PROVE  GInv'
<1>1. funded' = funded /\ secured' = secured
  BY DEF funded, secured
<1>2. Grows /\ Order'
  BY <1>1 DEF Grows, GInv, Order
<1>3. \A q \in Node : Tied(q)'
  BY <1>1, PartyFacts DEF Tied
<1> QED
  BY <1>2, <1>3, CommittedStep

LEMMA ScanInitiateG == ASSUME GInv, IInv', NEW p \in Node, ScanInitiate(p) PROVE GInv'
<1>1. /\ state[p] = "seller_initiate_microtransfer"
      /\ Adjust(p, 0) /\ UpdateState(p, "seller_accept_microtransfer")
      /\ inbox' = Delivered(p, <<Offer(p)>>)
      /\ UNCHANGED <<setups, refund, chain, ready, replies, waiting>>
  BY DEF ScanInitiate, Scan, factory
<1>2. 0 <= sent[Other(p)]
  BY Parties, PartyFacts DEF TypeOK
<1>3. /\ Offer(p) \in Message /\ <<Offer(p)>> \in Seq(Message)
      /\ Offer(p).kind = "return_adjusted_refund" /\ Offer(p).amount = sent'[p]
      /\ \A q \in Node : sent[q] <= sent'[q] /\ (q # p => sent'[q] = sent[q])
      /\ \A q \in Node : download'[q] <= sent'[Other(q)]
  BY <1>1, <1>2, Adjusted
<1>4. NewLines
  <2> SUFFICES ASSUME NEW q \in Node, NEW m \in Range(inbox'[q]), m \notin Range(inbox[q])
               PROVE  Vouched(q, m)'
    BY DEF NewLines
  <2>1. Range(Delivered(p, <<Offer(p)>>)[q])
            \subseteq Range(inbox[q]) \cup IF q = Other(p) THEN {Offer(p)} ELSE {}
    <3>1. Range(<<Offer(p)>>) = {Offer(p)}
      BY OfShort
    <3>2. Range(Delivered(p, <<Offer(p)>>)[q])
              \subseteq Range(inbox[q]) \cup IF q = Other(p) THEN Range(<<Offer(p)>>) ELSE {}
      BY <1>3, DeliveredLines, PartyFacts
    <3> QED
      BY <3>1, <3>2
  <2>2. q = Other(p) /\ m = Offer(p)
    BY <1>1, <2>1
  <2>3. Other(q) = p /\ sent'[p] \in Nat
    BY <2>2, Parties DEF Other, IInv, TypeOK
  <2> QED
    BY <1>3, <2>2, <2>3 DEF Vouched
<1>5. NewReplies
  BY <1>1 DEF NewReplies, Queued
<1>6. p \in funded
  BY <1>1, PartyFacts DEF Tied, ReadyStates, SellerStates
<1>7. /\ state'[p] \notin CompleteStates
      /\ \A q \in Node : q # p => state'[q] = state[q]
  BY <1>1, PartyFacts DEF UpdateState, CompleteStates
<1> QED
  BY <1>1, <1>3, <1>4, <1>5, <1>6, <1>7, TradedStep

LEMMA RecvReturnAdjustedRefundG ==
    ASSUME GInv, IInv', NEW p \in Node, RecvReturnAdjustedRefund(p)
    PROVE  GInv'
<1> DEFINE paid == Head(inbox[p]).amount
<1>1. /\ inbox[p] # <<>> /\ Consumed(p) /\ state[p] \in AcceptStates
      /\ UNCHANGED <<setups, refund, chain, ready, waiting>>
      /\ UpdateState(p, IF sent'[p] = Upload[p] /\ recv'[p] = Download(p)
                        THEN "pending_microtransfer_complete" ELSE state[p])
  BY DEF RecvReturnAdjustedRefund, Receive, Accepts, factory, world
<1>2. NewLines /\ paid \in Nat /\ paid <= sent[Other(p)]
  BY <1>1, FewerLines DEF Message, Vouched
<1>3. p \in funded
  BY <1>1, PartyFacts DEF Tied, AcceptStates, ReadyStates, SellerStates, BuyerStates
<1>4. /\ state'[p] \in CompleteStates => sent'[p] = Upload[p]
      /\ \A q \in Node : q # p => state'[q] = state[q]
  BY <1>1, PartyFacts DEF UpdateState, AcceptStates, CompleteStates
<1>5. TypeOK' /\ Other(p) \in Node /\ Other(Other(p)) = p
  BY Parties DEF IInv, Other
<1>6. CASE Adjust(p, paid) /\ Queue(p, <<IF SendChunk(p) = 0 /\ RecvChunk(p) = 0
                                         THEN Msg("unparsed") ELSE Offer(p)>>, FALSE)
  <2>1. /\ Offer(p) \in Message
        /\ Offer(p).kind = "return_adjusted_refund" /\ Offer(p).amount = sent'[p]
        /\ \A q \in Node : sent[q] <= sent'[q] /\ (q # p => sent'[q] = sent[q])
        /\ \A q \in Node : download'[q] <= sent'[Other(q)]
    BY <1>2, <1>6, Adjusted
  <2>2. PICK answer \in {Msg("unparsed"), Offer(p)} : Queue(p, <<answer>>, FALSE)
    BY <1>6
  <2>3. answer \in Message /\ Vouched(Other(p), answer)'
    <3>1. CASE answer = Msg("unparsed")
      <4>1. "unparsed" \in Kinds \ {"get_refund_sig", "return_refund_sig", "return_setup_tx"}
        BY DEF Kinds
      <4>2. Msg("unparsed") \in Message /\ Vouched(Other(p), Msg("unparsed"))'
        BY <1>5, <4>1, MsgType, Harmless
      <4> QED
        BY <3>1, <4>2
    <3>2. CASE answer = Offer(p)
      <4>1. sent'[p] \in Nat /\ sent'[p] <= sent'[p]
        BY <1>5 DEF TypeOK
      <4> QED
        BY <1>5, <2>1, <3>2, <4>1 DEF Vouched
    <3> QED
      BY <3>1, <3>2
  <2>4. <<answer>> \in Seq(Message) /\ Range(<<answer>>) = {answer}
    BY <2>3, OfShort
  <2>5. NewReplies
    BY <1>1, <2>2, <2>3, <2>4, Answered
  <2> QED
    BY <1>1, <1>2, <1>3, <1>4, <2>1, <2>5, TradedStep
<1>7. CASE Queue(p, <<Msg("unparsed")>>, FALSE) /\ UNCHANGED trade
  <2>1. "unparsed" \in Kinds \ {"get_refund_sig", "return_refund_sig", "return_setup_tx"}
    BY DEF Kinds
  <2>2. /\ <<Msg("unparsed")>> \in Seq(Message)
        /\ \A m \in Range(<<Msg("unparsed")>>) : Vouched(Other(p), m)'
    BY <1>5, <2>1, HarmlessAnswer
  <2>3. NewReplies
    BY <1>1, <1>7, <2>2, Answered
  <2>4. /\ \A q \in Node : sent[q] <= sent'[q] /\ (q # p => sent'[q] = sent[q])
        /\ \A q \in Node : download'[q] <= sent'[Other(q)]
    BY <1>7, PartyFacts DEF trade, Tied, TypeOK
  <2> QED
    BY <1>1, <1>2, <1>3, <1>4, <2>3, <2>4, TradedStep
<1> QED
  BY <1>6, <1>7 DEF RecvReturnAdjustedRefund

-----------------------------------------------------------------------------
(* The invariant.                                                          *)

LEMMA InitGInv == ASSUME Init PROVE GInv
<1>1. IInv
  BY InitIInv
<1>2. Messages
  <2>1. ASSUME NEW p \in Node
        PROVE  /\ Range(inbox[p]) \subseteq {Msg("match_order")}
               /\ Range(replies[p]) = {} /\ Range(waiting[p]) = {}
    BY OfShort DEF Init
  <2>2. \A p \in Node : Vouched(p, Msg("match_order"))
    BY Parties DEF Init, Vouched, Msg
  <2> QED
    BY <2>1, <2>2 DEF Messages
<1>3. Order
  BY DEF Init, Order, secured
<1>4. \A p \in Node : Tied(p)
  BY Parties DEF Init, Tied, ReadyStates, CompleteStates, SellerStates, BuyerStates
<1> QED
  BY <1>1, <1>2, <1>3, <1>4 DEF GInv

LEMMA NextGInv == ASSUME GInv, Next PROVE GInv'
<1>1. IInv'
  BY NextIInv DEF GInv
<1>2. ASSUME NEW p \in Node, ScanStep(p) PROVE GInv'
  BY <1>1, <1>2, ScanIdleG, ScanGetRefundSigG, ScanGetSetupTxG, ScanInitiateG, ScanBroadcastG,
     ScanCrashG DEF ScanStep
<1>3. ASSUME NEW p \in Node, Recv(p) PROVE GInv'
  BY <1>1, <1>3, RecvDroppedG, RecvMatchOrderG, RecvCalibratedMatchOrderG, RecvShakeOnItG,
     RecvShakeOnItFailsG, RecvGetRefundSigG, RecvReturnRefundSigG, RecvGetSetupTxG,
     RecvReturnSetupTxG, RecvReturnAdjustedRefundG DEF Recv
<1>4. ASSUME NEW p \in Node, RouteStep(p) \/ MonitorStep(p) PROVE GInv'
  BY <1>1, <1>4, RouteReplyG, HoldReplyG, EndRouteG, MonitorSetupG, MonitorPayoutG DEF RouteStep, MonitorStep
<1>5. ASSUME NEW p \in Node, Loop(p) PROVE GInv'
  BY <1>1, <1>2, <1>3, <1>4, <1>5, EndsG, ClientReadyG DEF Loop
<1> QED
  BY <1>1, <1>5, ConfirmSetupG, ConfirmPayoutG, CrashG, ServerMatchG, DisconnectG DEF Next

LEMMA CommitmentInvariant == Spec => []GInv
<1>1. GInv /\ [Next]_vars => GInv'
  <2>1. ASSUME GInv, UNCHANGED vars PROVE GInv'
    <3>1. IInv'
      BY <2>1, StutterIInv DEF GInv
    <3> QED
      BY <2>1, <3>1, StutterG
  <2> QED
    BY <2>1, NextGInv
<1> QED
  BY InitGInv, <1>1, PTL DEF Spec

-----------------------------------------------------------------------------
(* The steps of SafeSwap.                                                  *)

marks == <<funded, secured, disclosed, paying, settled>>

LEMMA SwapSteps ==
    ASSUME NEW p \in Node,
           \/ /\ p \notin funded
              /\ funded' = funded \cup {p}
              /\ UNCHANGED <<secured, disclosed, paying, settled>>
           \/ /\ p \notin secured /\ funded = Node /\ (p = "buyer" => "seller" \in secured)
              /\ secured' = secured \cup {p}
              /\ UNCHANGED <<funded, disclosed, paying, settled>>
           \/ /\ p \notin disclosed /\ secured = Node
              /\ disclosed' = disclosed \cup {p}
              /\ UNCHANGED <<funded, secured, paying, settled>>
           \/ /\ p \notin paying /\ Other(p) \in disclosed /\ (p = "buyer" => "seller" \in paying)
              /\ paying' = paying \cup {p}
              /\ UNCHANGED <<funded, secured, disclosed, settled>>
           \/ /\ p \notin settled /\ paying = Node
              /\ settled' = settled \cup {p}
              /\ UNCHANGED <<funded, secured, disclosed, paying>>
           \/ UNCHANGED marks
    PROVE  [Swap!Next]_(Swap!swapVars)
BY DEF Swap!Next, Swap!Fund, Swap!Secure, Swap!Disclose, Swap!Pay, Swap!Settle, Swap!swapVars,
   Swap!Node, Swap!Other, Node, Other, marks, funded, secured, disclosed, paying, settled

LEMMA NobodyCommits ==
    ASSUME UNCHANGED <<chain, setups, sent, payout>>, secured' = secured
    PROVE  [Swap!Next]_(Swap!swapVars)
<1>1. UNCHANGED marks
  BY DEF marks, funded, disclosed, paying, settled
<1> QED
  BY <1>1, Parties, SwapSteps

LEMMA ConfirmSetupFunds == ASSUME GInv, NEW p \in Node, ConfirmSetup(p) PROVE [Swap!Next]_(Swap!swapVars)
<1>1. p \notin funded /\ funded' = funded \cup {p}
  BY PartyFacts DEF ConfirmSetup, TypeOK, funded, OnChain
<1>2. UNCHANGED <<secured, disclosed, paying, settled>>
  BY DEF ConfirmSetup, factory, trade, secured, disclosed, paying, settled
<1> QED
  BY <1>1, <1>2, SwapSteps

LEMMA ReturnRefundSigSecures ==
    ASSUME GInv, NEW p \in Node, RecvReturnRefundSig(p)
    PROVE  [Swap!Next]_(Swap!swapVars)
<1>1. funded = Node /\ (p = "buyer" => "seller" \in secured)
  BY FewerLines DEF RecvReturnRefundSig, Receive, Vouched
<1>2. secured' = secured \cup {p}
  BY PartyFacts DEF RecvReturnRefundSig, TypeOK, secured
<1>3. UNCHANGED <<funded, disclosed, paying, settled>>
  BY DEF RecvReturnRefundSig, trade, world, funded, disclosed, paying, settled
<1> QED
  BY <1>1, <1>2, <1>3, SwapSteps DEF marks

LEMMA ReturnSetupTxDiscloses ==
    ASSUME GInv, NEW p \in Node, RecvReturnSetupTx(p)
    PROVE  [Swap!Next]_(Swap!swapVars)
<1>1. secured = Node
  BY FewerLines DEF RecvReturnSetupTx, Receive, Vouched
<1>2. disclosed' = disclosed \cup {Other(p)} /\ Other(p) \in Node
  BY Parties DEF RecvReturnSetupTx, disclosed, Other
<1>3. UNCHANGED <<funded, secured, paying, settled>>
  BY DEF RecvReturnSetupTx, trade, world, funded, secured, paying, settled
<1> QED
  BY <1>1, <1>2, <1>3, SwapSteps DEF marks

(***************************************************************************)
(* Whoever calls adjust_refund_tx() holds the peer's setup TX, and a buyer *)
(* only answers a payment.                                                 *)
(***************************************************************************)
LEMMA AdjustPays ==
    ASSUME GInv, NEW p \in Node, NEW paid \in Nat, Adjust(p, paid),
           state[p] \in DisclosedStates, p = "buyer" => sent["seller"] > 0,
           UNCHANGED <<chain, setups, payout>>, secured' = secured
    PROVE  [Swap!Next]_(Swap!swapVars)
<1>1. /\ sent \in [Node -> Nat] /\ SendChunk(p) \in Nat
      /\ sent' = [sent EXCEPT ![p] = sent[p] + SendChunk(p)]
  BY AdjustType, PartyFacts DEF GInv, TypeOK, Adjust
<1>2. sent'[p] = sent[p] + SendChunk(p) /\ \A q \in Node \ {p} : sent'[q] = sent[q]
  BY <1>1
<1>3. sent[p] \in Nat /\ sent'[p] \in Nat /\ sent[p] <= sent'[p]
  BY <1>1, <1>2
<1>4. paying' = paying \/ (p \notin paying /\ paying' = paying \cup {p})
  BY <1>2, <1>3 DEF paying
<1>5. Other(p) \in disclosed
  BY PartyFacts DEF Local, Stored, disclosed, Other, Node
<1>6. p = "buyer" => "seller" \in paying
  BY Parties DEF paying
<1>7. UNCHANGED <<funded, secured, disclosed, settled>>
  BY DEF funded, disclosed, settled
<1> QED
  BY <1>4, <1>5, <1>6, <1>7, SwapSteps DEF marks

LEMMA InitiatePays == ASSUME GInv, NEW p \in Node, ScanInitiate(p) PROVE [Swap!Next]_(Swap!swapVars)
<1>1. state[p] = "seller_initiate_microtransfer" /\ Adjust(p, 0)
      /\ UNCHANGED <<chain, setups, refund, payout>>
  BY DEF ScanInitiate, Scan, factory
<1>2. p # "buyer"
  BY <1>1, PartyFacts DEF Local, Role, SellerStates
<1> QED
  BY <1>1, <1>2, AdjustPays DEF DisclosedStates, secured

LEMMA ReturnAdjustedRefundPays ==
    ASSUME GInv, NEW p \in Node, RecvReturnAdjustedRefund(p)
    PROVE  [Swap!Next]_(Swap!swapVars)
<1> DEFINE paid == Head(inbox[p]).amount
<1>1. /\ inbox[p] # <<>> /\ Consumed(p) /\ state[p] \in AcceptStates
      /\ UNCHANGED <<chain, setups, refund, payout>>
      /\ (Adjust(p, paid) /\ paid # 0) \/ UNCHANGED trade
  BY DEF RecvReturnAdjustedRefund, Receive, Accepts, factory, world, Acceptable
<1>2. CASE Adjust(p, paid) /\ paid # 0
  <2>1. paid \in Nat /\ paid <= sent[Other(p)] /\ sent[Other(p)] \in Nat
    BY <1>1, FewerLines, Parties, PartyFacts DEF Message, Vouched, TypeOK
  <2>2. p = "buyer" => sent["seller"] > 0
    BY <1>2, <2>1 DEF Other
  <2> QED
    BY <1>1, <1>2, <2>1, <2>2, AdjustPays DEF DisclosedStates, TradingStates, secured
<1>3. CASE UNCHANGED trade
  BY <1>1, <1>3, NobodyCommits DEF trade, secured
<1> QED
  BY <1>1, <1>2, <1>3

(***************************************************************************)
(* The end of a transfer: p has sent all, and what it has received the     *)
(* other party has signed.                                                 *)
(***************************************************************************)
LEMMA BroadcastSettles == ASSUME GInv, NEW p \in Node, ScanBroadcast(p) PROVE [Swap!Next]_(Swap!swapVars)
<1>1. state[p] \in CompleteStates
  BY DEF ScanBroadcast, CompleteStates
<1>2. /\ sent[p] = Upload[p] /\ recv[p] = Upload[Other(p)] /\ recv[p] <= download[p]
      /\ download[p] <= sent[Other(p)]
  BY <1>1, PartyFacts DEF Tied, Local, Account, Download
<1>3. /\ Upload[p] \in Nat \ {0} /\ Upload[Other(p)] \in Nat \ {0}
      /\ download[p] \in Nat /\ sent[Other(p)] \in Nat
  BY AmountsAssumption, Parties, PartyFacts DEF TypeOK
<1>4. sent[p] > 0 /\ sent[Other(p)] > 0
  BY <1>2, <1>3
<1>5. paying = Node
  BY <1>4, Parties DEF paying, Node
<1>6. settled' = settled \cup {p}
  BY PartyFacts DEF ScanBroadcast, TypeOK, settled
<1>7. UNCHANGED <<funded, secured, disclosed, paying>>
  BY DEF ScanBroadcast, Scan, factory, trade, funded, secured, disclosed, paying
<1> QED
  BY <1>5, <1>6, <1>7, SwapSteps DEF marks

LEMMA ConfirmPayoutStutters == ASSUME GInv, NEW p \in Node, ConfirmPayout(p) PROVE [Swap!Next]_(Swap!swapVars)
<1>1. UNCHANGED marks
  BY PartyFacts DEF ConfirmPayout, TypeOK, factory, trade, marks, funded, secured, disclosed, paying, settled
<1> QED
  BY <1>1, SwapSteps

LEMMA ClientReadyStutters == ASSUME GInv, NEW p \in Node, ClientReady(p) PROVE [Swap!Next]_(Swap!swapVars)
<1>1. funded' = funded
  BY PartyFacts DEF ClientReady, Tied, TypeOK, funded, OnChain
<1>2. UNCHANGED marks
  BY <1>1 DEF ClientReady, trade, marks, secured, disclosed, paying, settled
<1> QED
  BY <1>2, SwapSteps

(***************************************************************************)
(* All other steps commit nobody.                                          *)
(***************************************************************************)
LEMMA ScanStutters ==
    ASSUME GInv, NEW p \in Node,
           ScanIdle(p) \/ ScanGetRefundSig(p) \/ ScanGetSetupTx(p) \/ ScanCrash(p)
    PROVE  [Swap!Next]_(Swap!swapVars)
<1>1. UNCHANGED <<chain, setups, sent, payout>>
  BY DEF ScanIdle, ScanGetRefundSig, ScanGetSetupTx, ScanCrash, Scan, factory, trade
<1>2. secured' = secured
  BY PartyFacts DEF ScanIdle, ScanGetRefundSig, ScanGetSetupTx, ScanCrash, factory, TypeOK, secured
<1> QED
  BY <1>1, <1>2, NobodyCommits

LEMMA RecvStutters ==
    ASSUME NEW p \in Node,
           \/ RecvDropped(p) \/ RecvMatchOrder(p) \/ RecvCalibratedMatchOrder(p)
           \/ RecvShakeOnIt(p) \/ RecvShakeOnItFails(p)
           \/ RecvGetRefundSig(p) \/ RecvGetSetupTx(p) \/ EndDirect(p)
    PROVE  [Swap!Next]_(Swap!swapVars)
<1>1. UNCHANGED <<chain, setups, refund, sent, payout>>
  BY DEF RecvDropped, RecvMatchOrder, RecvCalibratedMatchOrder, RecvShakeOnIt, RecvShakeOnItFails,
     RecvGetRefundSig, RecvGetSetupTx, EndDirect, factory, trade, world
<1> QED
  BY <1>1, NobodyCommits DEF secured

LEMMA LoopStutters ==
    ASSUME NEW p \in Node,
           RouteStep(p) \/ EndClient(p) \/ MonitorStep(p) \/ EndMonitor(p) \/ Crash(p)
    PROVE  [Swap!Next]_(Swap!swapVars)
<1>1. UNCHANGED <<chain, setups, refund, sent, payout>>
  BY DEF RouteStep, RouteReply, HoldReply, EndRoute, EndClient, MonitorStep, MonitorSetup,
     MonitorPayout, EndMonitor, Crash, factory, trade, world
<1> QED
  BY <1>1, NobodyCommits DEF secured

LEMMA OutsideStutters ==
    ASSUME ServerMatch \/ Disconnect \/ UNCHANGED vars
    PROVE  [Swap!Next]_(Swap!swapVars)
<1>1. UNCHANGED <<chain, setups, refund, sent, payout>>
  BY DEF ServerMatch, Disconnect, vars, factory, trade, world
<1> QED
  BY <1>1, NobodyCommits DEF secured

LEMMA NextSwaps == ASSUME GInv, [Next]_vars PROVE [Swap!Next]_(Swap!swapVars)
<1>1. ASSUME NEW p \in Node, ScanStep(p) PROVE [Swap!Next]_(Swap!swapVars)
  BY <1>1, ScanStutters, InitiatePays, BroadcastSettles DEF ScanStep
<1>2. ASSUME NEW p \in Node, Recv(p) PROVE [Swap!Next]_(Swap!swapVars)
  BY <1>2, RecvStutters, ReturnRefundSigSecures, ReturnSetupTxDiscloses, ReturnAdjustedRefundPays DEF Recv
<1>3. ASSUME NEW p \in Node, Loop(p) PROVE [Swap!Next]_(Swap!swapVars)
  BY <1>1, <1>2, <1>3, RecvStutters, LoopStutters, ClientReadyStutters DEF Loop
<1> QED
  BY <1>3, ConfirmSetupFunds, ConfirmPayoutStutters, LoopStutters, OutsideStutters DEF Next

(***************************************************************************)
(* The parties commit themselves in the order of SafeSwap, for all amounts *)
(* and whatever is lost, refused or crashes: coins are under both contracts*)
(* before a refund is signed (parse_get_refund_sig and status_check), both *)
(* refunds are signed before a setup TX is handed out (parse_get_setup_tx),*)
(* and nobody pays against one it does not hold, or broadcasts a payment   *)
(* before both have paid (adjust_refund_tx, main.py).                      *)
(***************************************************************************)
THEOREM CommitsInOrder == Spec => ImplementsSafeSwap
<1>1. Init => Swap!Init
  BY DEF Init, Swap!Init, OnChain, Node
<1>2. GInv /\ [Next]_vars => [Swap!Next]_(Swap!swapVars)
  BY NextSwaps
<1> QED
  BY <1>1, <1>2, CommitmentInvariant, PTL DEF Spec, ImplementsSafeSwap, Swap!Spec
=============================================================================
