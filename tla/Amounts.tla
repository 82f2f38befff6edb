------------------------------ MODULE Amounts -------------------------------
(***************************************************************************)
(* The arithmetic of one micro-payment, adjust_refund_tx() of              *)
(* microtransfer_contract.py.  Amounts are whole numbers of the smallest   *)
(* coin unit.  A party uploads to its peer what the peer downloads, so one *)
(* function Upload and one function Chunk describe the contract for both.  *)
(***************************************************************************)
EXTENDS Integers

Node == {"buyer", "seller"}

Other(p) == IF p = "buyer" THEN "seller" ELSE "buyer"

(***************************************************************************)
(* A chunk of the size agreed in the contract, or what is left when that   *)
(* is less: the two clamps at the head of adjust_refund_tx().              *)
(***************************************************************************)
SwappedNextChunk(total, done, chunk) ==      \* a mutated form, see PROJECT.json
    IF chunk > total - done THEN done - total ELSE chunk

NextChunk(total, done, chunk) ==
    IF chunk > total - done THEN total - done ELSE chunk

(***************************************************************************)
(* What k chunks come to, the last one cut to what is left.                *)
(***************************************************************************)
PaidAfter(total, chunk, k) == IF k * chunk > total THEN total ELSE k * chunk
=============================================================================
