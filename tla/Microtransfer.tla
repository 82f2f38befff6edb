--------------------------- MODULE Microtransfer ----------------------------
(***************************************************************************)
(* The trading phase of a contract: buyer and seller sign each other ever  *)
(* larger partial payments in turn, one chunk at a time, until both have   *)
(* uploaded everything (MicrotransferContract in microtransfer_contract.py *)
(* with the two places that call it: "Initiate microtransfer" in the main  *)
(* loop and parse_return_adjusted_refund in hybrid_protocol.py).           *)
(*                                                                         *)
(* An offer is the adjusted refund of the peer.  The one thing about the   *)
(* transaction that matters here is the total it pays to its receiver.     *)
(***************************************************************************)
EXTENDS Amounts, Sequences

CONSTANT Sizes    \* the upload amounts and chunk sizes a contract may have

(***************************************************************************)
(* MicrotransferContract.__init__ refuses an upload under the dust         *)
(* threshold, and a chunk is a positive share of the trade.                *)
(***************************************************************************)
ASSUME SizesAssumption == Sizes \subseteq Nat \ {0}

VARIABLES
    terms,      \* upload_amount and our_chunk_size of both parties
    mode,       \* "initiate", "accept" or "complete": the MatchState here
    sent,       \* trade.sent: what p has signed away
    recv,       \* trade.recv: what p believes it has been paid
    download,   \* amount of details["our_download"], 0 before the first one
    offers,     \* offers[p]: adjusted refunds on their way to p
    link,       \* is the TCP connection of the match up?
    rounds      \* auxiliary: how often adjust_refund_tx has advanced p

vars == <<terms, mode, sent, recv, download, offers, link, rounds>>

Terms == [upload : [Node -> Sizes], chunk : [Node -> Sizes]]

TypeOK ==
    /\ terms \in Terms
    /\ mode \in [Node -> {"initiate", "accept", "complete"}]
    /\ sent \in [Node -> Nat]
    /\ recv \in [Node -> Nat]
    /\ download \in [Node -> Nat]
    /\ offers \in [Node -> Seq(Nat)]
    /\ link \in BOOLEAN
    /\ rounds \in [Node -> Nat]

Download(p) == terms.upload[Other(p)]

SendChunk(p) == NextChunk(terms.upload[p], sent[p], terms.chunk[p])
OwnRecvChunk(p) ==      \* a mutated form: clamped and counted in p's own chunks
    NextChunk(Download(p), recv[p], terms.chunk[p])
RecvChunk(p) == NextChunk(Download(p), recv[p], terms.chunk[Other(p)])

Init ==
    /\ terms \in Terms
    /\ mode = [p \in Node |-> IF p = "seller" THEN "initiate" ELSE "accept"]
    /\ sent = [p \in Node |-> 0]
    /\ recv = [p \in Node |-> 0]
    /\ download = [p \in Node |-> 0]
    /\ offers = [p \in Node |-> <<>>]
    /\ link = TRUE
    /\ rounds = [p \in Node |-> 0]

-----------------------------------------------------------------------------
(***************************************************************************)
(* The state adjust_refund_tx() leaves when it takes `paid` as the newly   *)
(* received amount: 0 is the seller's first call, which receives nothing.  *)
(***************************************************************************)
EagerAdvance(p, paid) ==      \* a mutated form: the first call receives as well
    /\ sent' = [sent EXCEPT ![p] = @ + SendChunk(p)]
    /\ recv' = [recv EXCEPT ![p] = @ + RecvChunk(p)]
    /\ download' = [download EXCEPT ![p] = IF paid = 0 THEN @ ELSE paid]
    /\ rounds' = [rounds EXCEPT ![p] = @ + 1]

Advance(p, paid) ==
    /\ sent' = [sent EXCEPT ![p] = @ + SendChunk(p)]
    /\ recv' = [recv EXCEPT ![p] = @ + IF paid = 0 THEN 0 ELSE RecvChunk(p)]
    /\ download' = [download EXCEPT ![p] = IF paid = 0 THEN @ ELSE paid]
    /\ rounds' = [rounds EXCEPT ![p] = @ + 1]

-----------------------------------------------------------------------------
(***************************************************************************)
(* The seller opens the exchange: its first chunk against nothing.         *)
(***************************************************************************)
Initiate ==
    /\ mode["seller"] = "initiate"
    /\ Advance("seller", 0)
    /\ mode' = [mode EXCEPT !["seller"] = "accept"]
    /\ offers' = [offers EXCEPT !["buyer"] =
                      IF link THEN Append(@, sent'["seller"]) ELSE @]
    /\ UNCHANGED <<terms, link>>

StrictAcceptable(p, paid) ==      \* a mutated form: > where the code has >=
    paid # 0 /\ paid > recv[p] + RecvChunk(p)
Acceptable(p, paid) == paid # 0 /\ paid >= recv[p] + RecvChunk(p)

(***************************************************************************)
(* Both totals are reached: the test for pending_microtransfer_complete.   *)
(***************************************************************************)
HalfTransferred(p, s, r) == s = terms.upload[p]      \* a mutated form
Transferred(p, s, r) == s = terms.upload[p] /\ r = Download(p)

(***************************************************************************)
(* The handler of an offer that is large enough.  It answers with an offer *)
(* of its own unless both chunks are zero, and the transfer is complete    *)
(* when both totals are reached.                                           *)
(***************************************************************************)
AcceptOffer(p) ==
    /\ mode[p] = "accept"
    /\ offers[p] # <<>>
    /\ Acceptable(p, Head(offers[p]))
    /\ Advance(p, Head(offers[p]))
    /\ mode' = [mode EXCEPT ![p] =
                    IF Transferred(p, sent'[p], recv'[p])
                    THEN "complete" ELSE @]
    /\ offers' = [offers EXCEPT
                     ![p] = Tail(@),
                     ![Other(p)] = IF (SendChunk(p) = 0 /\ RecvChunk(p) = 0) \/ ~link
                                   THEN @ ELSE Append(@, sent'[p])]
    /\ UNCHANGED <<terms, link>>

(***************************************************************************)
(* An offer that arrives in another state is ignored, and one that pays    *)
(* too little is answered with an empty line: neither is ever retried.     *)
(***************************************************************************)
IgnoreOffer(p) ==
    /\ offers[p] # <<>>
    /\ mode[p] # "accept" \/ ~Acceptable(p, Head(offers[p]))
    /\ offers' = [offers EXCEPT ![p] = Tail(@)]
    /\ UNCHANGED <<terms, mode, sent, recv, download, link, rounds>>

(***************************************************************************)
(* The connection breaks for good: matched.con is never replaced.  What    *)
(* was in flight is lost or is still read from the socket's buffer.        *)
(***************************************************************************)
Cut ==
    /\ link' = FALSE
    /\ \E lost \in SUBSET Node :
           offers' = [p \in Node |-> IF p \in lost THEN <<>> ELSE offers[p]]
    /\ UNCHANGED <<terms, mode, sent, recv, download, rounds>>

Next ==
    \/ Initiate
    \/ Cut
    \/ \E p \in Node : AcceptOffer(p) \/ IgnoreOffer(p)

Spec == Init /\ [][Next]_vars

(***************************************************************************)
(* The main loop comes round again, and TCP delivers while the connection  *)
(* is up.                                                                  *)
(***************************************************************************)
FairSpec ==
    /\ Spec
    /\ WF_vars(Initiate)
    /\ \A p \in Node : WF_vars(AcceptOffer(p)) /\ WF_vars(IgnoreOffer(p))

-----------------------------------------------------------------------------
(***************************************************************************)
(* What k chunks of p come to.                                             *)
(***************************************************************************)
Paid(p, k) == PaidAfter(terms.upload[p], terms.chunk[p], k)

Before(k) == IF k = 0 THEN 0 ELSE k - 1

(***************************************************************************)
(* Neither party ever risks more than one chunk: the seller has signed at  *)
(* most one chunk more than the buyer's payments it holds are worth, and   *)
(* the buyer has never signed more than it was paid for.  It is the promise*)
(* of the chunked exchange in adjust_refund_tx().                          *)
(***************************************************************************)
OneChunkAtRisk ==
    /\ \A p \in Node : sent[p] = Paid(p, rounds[p])
    /\ recv["seller"] = Paid("buyer", Before(rounds["seller"]))
    /\ recv["buyer"] = Paid("seller", rounds["buyer"])

(***************************************************************************)
(* What a party counts as received (trade.recv) is exactly what the last   *)
(* payment it can broadcast pays it (our_download), and never more than    *)
(* the peer has signed away (the peer's trade.sent).                       *)
(***************************************************************************)
BackedByDownload ==
    \A p \in Node : recv[p] = download[p] /\ download[p] <= sent[Other(p)]

(***************************************************************************)
(* When one party reaches pending_microtransfer_complete the other is      *)
(* short of at most its last chunk, even if the connection breaks at once  *)
(* (parse_return_adjusted_refund completes one side before the other).     *)
(***************************************************************************)
CompleteIsFair ==
    \A p \in Node : mode[p] = "complete" =>
        /\ recv[p] = Download(p)
        /\ recv[Other(p)] + terms.chunk[p] >= Download(Other(p))

(***************************************************************************)
(* While the connection holds both sides finish: the ping-pong never waits *)
(* for a message that nobody owes, and never ends on an ignored offer.     *)
(***************************************************************************)
BothComplete == []link => <>(\A p \in Node : mode[p] = "complete")
=============================================================================
