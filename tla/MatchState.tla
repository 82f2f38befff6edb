----------------------------- MODULE MatchState -----------------------------
(***************************************************************************)
(* The progress of one match between a buyer and a seller, match_state.py. *)
(* Each side keeps a MatchState object whose `state` may only move along   *)
(* the edges below; every handler of the protocol asks state_machine()     *)
(* before it accepts a message, and a refused update drops the message.    *)
(***************************************************************************)

(***************************************************************************)
(* The states a MatchState takes.  "None" is the value __init__ gives it.  *)
(***************************************************************************)
HandshakeStates ==
    {"None", "pending_calibration", "pending_handshake", "pending_contract"}

BuyerStates ==
    {"pending_buyer_setup_tx_confirm", "pending_buyer_return_refund_sig",
     "pending_buyer_get_refund_sig", "buyer_sent_get_refund_sig",
     "pending_buyer_return_setup_tx", "pending_buyer_get_setup_tx",
     "buyer_sent_get_setup_tx", "buyer_accept_microtransfer"}

SellerStates ==
    {"pending_seller_get_refund_sig", "seller_sent_get_refund_sig",
     "pending_seller_return_refund_sig", "pending_seller_get_setup_tx",
     "seller_sent_get_setup_tx", "pending_seller_return_setup_tx",
     "seller_initiate_microtransfer", "seller_accept_microtransfer"}

CompleteStates ==
    {"pending_microtransfer_complete", "pending_microtransfer_confirm",
     "microtransfer_complete"}

States == HandshakeStates \cup BuyerStates \cup SellerStates \cup CompleteStates

(***************************************************************************)
(* The edges state_machine() answers 1 for, beside staying where one is.   *)
(***************************************************************************)
HandshakeEdges ==
    {<<"None", "pending_calibration">>,
     <<"None", "pending_handshake">>,
     <<"pending_calibration", "pending_handshake">>,
     <<"pending_handshake", "pending_contract">>}

BuyerEdges ==
    {<<"pending_contract", "pending_buyer_setup_tx_confirm">>,
     <<"pending_contract", "pending_buyer_return_refund_sig">>,
     <<"pending_buyer_setup_tx_confirm", "pending_buyer_return_refund_sig">>,
     <<"pending_buyer_return_refund_sig", "pending_buyer_get_refund_sig">>,
     <<"pending_buyer_get_refund_sig", "buyer_sent_get_refund_sig">>,
     <<"buyer_sent_get_refund_sig", "pending_buyer_return_setup_tx">>,
     <<"pending_buyer_return_setup_tx", "pending_buyer_get_setup_tx">>,
     <<"pending_buyer_get_setup_tx", "buyer_sent_get_setup_tx">>,
     <<"buyer_sent_get_setup_tx", "buyer_accept_microtransfer">>}

SellerEdges ==
    {<<"pending_contract", "pending_seller_get_refund_sig">>,
     <<"pending_seller_get_refund_sig", "seller_sent_get_refund_sig">>,
     <<"seller_sent_get_refund_sig", "pending_seller_return_refund_sig">>,
     <<"pending_seller_return_refund_sig", "pending_seller_get_setup_tx">>,
     <<"pending_seller_get_setup_tx", "seller_sent_get_setup_tx">>,
     <<"seller_sent_get_setup_tx", "pending_seller_return_setup_tx">>,
     <<"pending_seller_return_setup_tx", "seller_initiate_microtransfer">>,
     <<"seller_initiate_microtransfer", "seller_accept_microtransfer">>}

CompleteEdges ==
    {<<"buyer_accept_microtransfer", "pending_microtransfer_complete">>,
     <<"seller_accept_microtransfer", "pending_microtransfer_complete">>,
     <<"pending_microtransfer_complete", "pending_microtransfer_confirm">>,
     <<"pending_microtransfer_confirm", "microtransfer_complete">>,
     <<"pending_microtransfer_complete", "microtransfer_complete">>}

Edges == HandshakeEdges \cup BuyerEdges \cup SellerEdges \cup CompleteEdges

StateMachine(from, to) == to = from \/ <<from, to>> \in Edges
=============================================================================
