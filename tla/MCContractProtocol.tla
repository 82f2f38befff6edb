------------------------- MODULE MCContractProtocol -------------------------
(***************************************************************************)
(* Constants for checking ContractProtocol: the buyer needs three payments,*)
(* the last one clamped, against the single one of the seller, whose chunk *)
(* is larger than what it uploads; or one payment each.                    *)
(***************************************************************************)
EXTENDS ContractProtocol

MCUpload == [p \in Node |-> IF p = "buyer" THEN 5 ELSE 2]
MCChunk == [p \in Node |-> IF p = "buyer" THEN 2 ELSE 3]

MCUploadOnce == [p \in Node |-> 1]
MCChunkOnce == [p \in Node |-> 1]
=============================================================================
