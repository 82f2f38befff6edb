------------------------- MODULE ConversationProofs -------------------------
(***************************************************************************)
(* The conversation of the two parties, for every size of contract and     *)
(* whatever goes wrong: no answer comes to a party that would drop it, and *)
(* the trading phase is Microtransfer's.                                   *)
(*                                                                         *)
(* The parties talk in rounds: one asks, the other answers and asks in its *)
(* turn, and either may be a step ahead of what the other has read.  The   *)
(* invariant Talk says of each line of the conversation, from the handler  *)
(* that queues it to the one that reads it, where the two parties are      *)
(* meanwhile.  Exchange, in the second half, is about the payments.        *)
(***************************************************************************)
EXTENDS ContractProtocolProofs, FiniteSetTheorems

sellerAt == state["seller"]
buyerAt == state["buyer"]

(***************************************************************************)
(* Until the buyer has read the seller's get_refund_sig.                   *)
(***************************************************************************)
Handshake == {"None", "pending_calibration", "pending_handshake"}
SellerFirst == Handshake \cup {"pending_contract", "pending_seller_get_refund_sig"}
BuyerFirst == Handshake \cup {"pending_contract", "pending_buyer_return_refund_sig"}

SellerTrading == {"seller_accept_microtransfer"} \cup CompleteStates
BuyerTrading == {"buyer_accept_microtransfer"} \cup CompleteStates

(***************************************************************************)
(* The lines of a sequence by their kinds: whether there is one, whether   *)
(* there is at most one, and whether one comes before each of another.     *)
(***************************************************************************)
Says(lines, kind) == \E i \in DOMAIN lines : lines[i].kind = kind

SaysOnce(lines, kind) ==
    \A i, j \in DOMAIN lines : lines[i].kind = kind /\ lines[j].kind = kind => i = j

Precedes(lines, first, second) ==
    \A i \in DOMAIN lines : lines[i].kind = second =>
        \E j \in DOMAIN lines : j < i /\ lines[j].kind = first

Line(p, kind) == Says(inbox[p], kind)
LineOnce(p, kind) == SaysOnce(inbox[p], kind)
Ahead(p, first, second) == Precedes(inbox[p], first, second)

(***************************************************************************)
(* ... and of the answers that are not held back.                          *)
(***************************************************************************)
Gives(reply, kind) == ~reply.gated /\ Says(reply.lines, kind)

Answers(queue, kind) == \E i \in DOMAIN queue : Gives(queue[i], kind)

AnswersOnce(queue, kind) ==
    /\ \A i \in DOMAIN queue : Gives(queue[i], kind) => SaysOnce(queue[i].lines, kind)
    /\ \A i, j \in DOMAIN queue : Gives(queue[i], kind) /\ Gives(queue[j], kind) => i = j

NoneHeld(queue) == \A i \in DOMAIN queue : ~queue[i].gated
AllHeld(queue) == \A i \in DOMAIN queue : queue[i].gated
HeldOnce(queue) == \A i, j \in DOMAIN queue : queue[i].gated /\ queue[j].gated => i = j

Answering(p, kind) == Answers(replies[p], kind)
AnsweringOnce(p, kind) == AnswersOnce(replies[p], kind)

OnWay(p, kind) == Line(p, kind) \/ Answering(Other(p), kind)

(***************************************************************************)
(* Where the parties are while a line is on its way to the seller, or to   *)
(* the buyer, and while one of them is about to send its answer.           *)
(***************************************************************************)
SellerHears ==
    /\ Line("seller", "return_refund_sig") =>
          /\ sellerAt = "seller_sent_get_refund_sig"
          /\ buyerAt \in {"pending_buyer_get_refund_sig", "buyer_sent_get_refund_sig"}
    /\ Line("seller", "get_refund_sig") =>
          /\ sellerAt \in {"seller_sent_get_refund_sig", "pending_seller_return_refund_sig"}
          /\ buyerAt = "buyer_sent_get_refund_sig"
    /\ Line("seller", "return_setup_tx") =>
          /\ sellerAt = "seller_sent_get_setup_tx"
          /\ buyerAt \in {"pending_buyer_get_setup_tx", "buyer_sent_get_setup_tx"}
    /\ Line("seller", "get_setup_tx") =>
          /\ sellerAt \in {"seller_sent_get_setup_tx", "pending_seller_return_setup_tx"}
          /\ buyerAt = "buyer_sent_get_setup_tx"
    /\ Line("seller", "return_adjusted_refund") =>
          sellerAt \in SellerTrading /\ buyerAt \in BuyerTrading

BuyerHears ==
    /\ Line("buyer", "get_refund_sig") =>
          /\ sellerAt = "seller_sent_get_refund_sig"
          /\ buyerAt \in BuyerFirst /\ ~Held("buyer")
    /\ Line("buyer", "return_refund_sig") =>
          /\ sellerAt \in {"pending_seller_get_setup_tx", "seller_sent_get_setup_tx"}
          /\ buyerAt = "buyer_sent_get_refund_sig"
    /\ Line("buyer", "get_setup_tx") =>
          /\ sellerAt = "seller_sent_get_setup_tx"
          /\ buyerAt \in {"buyer_sent_get_refund_sig", "pending_buyer_return_setup_tx"}
    /\ Line("buyer", "return_setup_tx") =>
          /\ sellerAt \in {"seller_initiate_microtransfer", "seller_accept_microtransfer"}
          /\ buyerAt = "buyer_sent_get_setup_tx"
    /\ Line("buyer", "return_adjusted_refund") =>
          /\ sellerAt \in SellerTrading
          /\ buyerAt \in BuyerTrading \cup {"buyer_sent_get_setup_tx"}

SellerAnswers ==
    /\ ~Answering("seller", "get_refund_sig") /\ ~Answering("seller", "get_setup_tx")
    /\ Answering("seller", "return_refund_sig") =>
          sellerAt = "pending_seller_get_setup_tx" /\ buyerAt = "buyer_sent_get_refund_sig"
    /\ Answering("seller", "return_setup_tx") =>
          sellerAt = "seller_initiate_microtransfer" /\ buyerAt = "buyer_sent_get_setup_tx"
    /\ Answering("seller", "return_adjusted_refund") =>
          sellerAt \in SellerTrading /\ buyerAt \in BuyerTrading

BuyerAnswers ==
    /\ ~Answering("buyer", "get_refund_sig") /\ ~Answering("buyer", "get_setup_tx")
    /\ Answering("buyer", "return_refund_sig") =>
          sellerAt = "seller_sent_get_refund_sig" /\ buyerAt = "pending_buyer_get_refund_sig"
    /\ Answering("buyer", "return_setup_tx") =>
          sellerAt = "seller_sent_get_setup_tx" /\ buyerAt = "pending_buyer_get_setup_tx"
    /\ Answering("buyer", "return_adjusted_refund") =>
          sellerAt \in SellerTrading /\ buyerAt \in BuyerTrading

(***************************************************************************)
(* Nothing is said twice.                                                  *)
(***************************************************************************)
Returns == {"return_refund_sig", "return_setup_tx"}
Spoken == Returns \cup {"get_refund_sig", "get_setup_tx"}

Unrepeated ==
    \A p \in Node :
        /\ \A kind \in Spoken : LineOnce(p, kind)
        /\ \A kind \in Returns :
              AnsweringOnce(p, kind) /\ (Answering(p, kind) => ~Line(Other(p), kind))

(***************************************************************************)
(* What its receiver does not expect yet comes behind the answer it still  *)
(* waits for.                                                              *)
(***************************************************************************)
InOrder ==
    /\ sellerAt = "seller_sent_get_refund_sig" =>
          Ahead("seller", "return_refund_sig", "get_refund_sig")
    /\ sellerAt = "seller_sent_get_setup_tx" => Ahead("seller", "return_setup_tx", "get_setup_tx")
    /\ buyerAt = "buyer_sent_get_refund_sig" => Ahead("buyer", "return_refund_sig", "get_setup_tx")
    /\ buyerAt = "buyer_sent_get_setup_tx" =>
          Ahead("buyer", "return_setup_tx", "return_adjusted_refund")

(***************************************************************************)
(* While they are connected, who asks next has sent its answer.            *)
(***************************************************************************)
Promised ==
    conUp =>
        /\ buyerAt = "pending_buyer_get_refund_sig" =>
              sellerAt = "pending_seller_return_refund_sig" \/ OnWay("seller", "return_refund_sig")
        /\ sellerAt = "pending_seller_get_setup_tx" =>
              buyerAt = "pending_buyer_return_setup_tx" \/ OnWay("buyer", "return_refund_sig")
        /\ buyerAt = "pending_buyer_get_setup_tx" =>
              sellerAt = "pending_seller_return_setup_tx" \/ OnWay("seller", "return_setup_tx")
        /\ sellerAt = "seller_initiate_microtransfer" =>
              buyerAt = "buyer_accept_microtransfer" \/ OnWay("buyer", "return_setup_tx")

(***************************************************************************)
(* The buyer holds an answer back only while the seller waits for it.      *)
(***************************************************************************)
Pausing ==
    Held("buyer") =>
        /\ sellerAt = "seller_sent_get_refund_sig"
        /\ buyerAt \in {"pending_buyer_setup_tx_confirm", "pending_buyer_return_refund_sig"}

(***************************************************************************)
(* At most one answer is held back, and one that is not has left before the*)
(* loop goes on.                                                           *)
(***************************************************************************)
Turn(p) ==
    /\ HeldOnce(replies[p])
    /\ AllHeld(waiting[p]) /\ Len(waiting[p]) <= 1
    /\ waiting[p] # <<>> => NoneHeld(replies[p]) /\ phase[p] \in {"route", "crashed"}
    /\ phase[p] \in {"scan", "client", "monitor"} => AllHeld(replies[p])

Opening ==
    /\ sellerAt \in SellerFirst => buyerAt \in BuyerFirst /\ ~Held("buyer")
    /\ \A p \in Node : state[p] \in Handshake \/ p \in contracts

Talk ==
    /\ SellerHears /\ BuyerHears
    /\ SellerAnswers /\ BuyerAnswers
    /\ Unrepeated
    /\ InOrder
    /\ Promised
    /\ Pausing
    /\ \A p \in Node : Turn(p)
    /\ Opening

TInv == GInv /\ Talk

-----------------------------------------------------------------------------
(* The kinds of a sequence that grows at its end and is read from its head.*)

LEMMA SaysShort ==
    ASSUME NEW m \in Message, NEW kind
    PROVE  (Says(<<m>>, kind) <=> m.kind = kind) /\ SaysOnce(<<m>>, kind)
BY DEF Says, SaysOnce

LEMMA SaysTwo ==
    ASSUME NEW m \in Message, NEW n \in Message, NEW kind
    PROVE  Says(<<m, n>>, kind) <=> m.kind = kind \/ n.kind = kind
BY DEF Says

LEMMA SaysTail ==
    ASSUME NEW s \in Seq(Message), s # <<>>, NEW kind
    PROVE  /\ Head(s).kind \in Kinds /\ Says(s, Head(s).kind)
           /\ Says(Tail(s), kind) => Says(s, kind)
           /\ Says(s, kind) => kind = Head(s).kind \/ Says(Tail(s), kind)
           /\ SaysOnce(s, kind) => SaysOnce(Tail(s), kind)
           /\ SaysOnce(s, Head(s).kind) => ~Says(Tail(s), Head(s).kind)
<1>1. /\ Head(s) = s[1] /\ Head(s) \in Message /\ Len(s) \in Nat \ {0}
      /\ DOMAIN s = 1 .. Len(s) /\ DOMAIN Tail(s) = 1 .. (Len(s) - 1)
      /\ \A i \in 1 .. (Len(s) - 1) : Tail(s)[i] = s[i + 1]
  OBVIOUS
<1>2. Head(s).kind \in Kinds /\ Says(s, Head(s).kind)
  BY <1>1 DEF Says, Message
<1>3. Says(Tail(s), kind) => Says(s, kind)
  BY <1>1 DEF Says
<1>4. Says(s, kind) => kind = Head(s).kind \/ Says(Tail(s), kind)
  <2> SUFFICES ASSUME NEW i \in 1 .. Len(s), s[i].kind = kind, i # 1 PROVE Says(Tail(s), kind)
    BY <1>1 DEF Says
  <2>1. i - 1 \in 1 .. (Len(s) - 1) /\ Tail(s)[i - 1] = s[i]
    BY <1>1
  <2> QED
    BY <1>1, <2>1 DEF Says
<1>5. SaysOnce(s, kind) => SaysOnce(Tail(s), kind)
  <2> SUFFICES ASSUME SaysOnce(s, kind), NEW i \in 1 .. (Len(s) - 1), NEW j \in 1 .. (Len(s) - 1),
                      Tail(s)[i].kind = kind, Tail(s)[j].kind = kind
               PROVE  i = j
    BY <1>1 DEF SaysOnce
  <2>1. /\ i + 1 \in DOMAIN s /\ s[i + 1].kind = kind
        /\ j + 1 \in DOMAIN s /\ s[j + 1].kind = kind
    BY <1>1
  <2>2. i + 1 = j + 1
    BY <2>1 DEF SaysOnce
  <2> QED
    BY <2>2
<1>6. SaysOnce(s, Head(s).kind) => ~Says(Tail(s), Head(s).kind)
  <2> SUFFICES ASSUME SaysOnce(s, Head(s).kind), NEW i \in 1 .. (Len(s) - 1),
                      Tail(s)[i].kind = Head(s).kind
               PROVE  FALSE
    BY <1>1 DEF Says
  <2>1. i + 1 \in DOMAIN s /\ s[i + 1].kind = s[1].kind /\ 1 \in DOMAIN s
    BY <1>1
  <2>2. i + 1 = 1
    BY <1>1, <2>1 DEF SaysOnce
  <2> QED
    BY <2>2
<1> QED
  BY <1>2, <1>3, <1>4, <1>5, <1>6

LEMMA PrecedesTail ==
    ASSUME NEW s \in Seq(Message), s # <<>>, NEW first, NEW second
    PROVE  /\ ~Precedes(s, first, Head(s).kind)
           /\ Precedes(s, first, second) /\ Head(s).kind # first => Precedes(Tail(s), first, second)
<1>1. /\ Head(s) = s[1] /\ Len(s) \in Nat \ {0}
      /\ DOMAIN s = 1 .. Len(s) /\ DOMAIN Tail(s) = 1 .. (Len(s) - 1)
      /\ \A i \in 1 .. (Len(s) - 1) : Tail(s)[i] = s[i + 1]
  OBVIOUS
<1>2. ~Precedes(s, first, Head(s).kind)
  BY <1>1 DEF Precedes
<1>3. Precedes(s, first, second) /\ Head(s).kind # first => Precedes(Tail(s), first, second)
  <2> SUFFICES ASSUME Precedes(s, first, second), Head(s).kind # first,
                      NEW i \in 1 .. (Len(s) - 1), Tail(s)[i].kind = second
               PROVE  \E j \in 1 .. (Len(s) - 1) : j < i /\ Tail(s)[j].kind = first
    BY <1>1 DEF Precedes
  <2>1. i + 1 \in DOMAIN s /\ s[i + 1].kind = second
    BY <1>1
  <2>2. PICK j \in 1 .. Len(s) : j < i + 1 /\ s[j].kind = first
    BY <1>1, <2>1 DEF Precedes
  <2>3. j # 1
    BY <1>1, <2>2
  <2>4. j - 1 \in 1 .. (Len(s) - 1) /\ j - 1 < i /\ Tail(s)[j - 1] = s[j]
    BY <1>1, <2>2, <2>3
  <2> QED
    BY <2>2, <2>4
<1> QED
  BY <1>2, <1>3

LEMMA SaysConcat ==
    ASSUME NEW s \in Seq(Message), NEW t \in Seq(Message), NEW kind
    PROVE  /\ Says(s \o t, kind) <=> Says(s, kind) \/ Says(t, kind)
           /\ SaysOnce(s, kind) /\ SaysOnce(t, kind) /\ ~(Says(s, kind) /\ Says(t, kind))
                => SaysOnce(s \o t, kind)
<1>1. /\ Len(s) \in Nat /\ Len(t) \in Nat
      /\ DOMAIN s = 1 .. Len(s) /\ DOMAIN t = 1 .. Len(t)
      /\ DOMAIN (s \o t) = 1 .. (Len(s) + Len(t))
      /\ \A i \in 1 .. Len(s) : (s \o t)[i] = s[i] /\ i \in DOMAIN (s \o t)
      /\ \A i \in 1 .. Len(t) : (s \o t)[Len(s) + i] = t[i] /\ Len(s) + i \in DOMAIN (s \o t)
      /\ \A i \in DOMAIN (s \o t) :
            i \in DOMAIN s \/ (i - Len(s) \in DOMAIN t /\ i = Len(s) + (i - Len(s)))
  OBVIOUS
<1>2. ASSUME NEW i \in DOMAIN (s \o t)
      PROVE  \/ i \in DOMAIN s /\ (s \o t)[i] = s[i]
             \/ i - Len(s) \in DOMAIN t /\ (s \o t)[i] = t[i - Len(s)] /\ i \in Nat
  BY <1>1
<1>3. Says(s \o t, kind) <=> Says(s, kind) \/ Says(t, kind)
  BY <1>1, <1>2 DEF Says
<1>4. ASSUME SaysOnce(s, kind), SaysOnce(t, kind), ~(Says(s, kind) /\ Says(t, kind)),
             NEW i \in DOMAIN (s \o t), NEW j \in DOMAIN (s \o t),
             (s \o t)[i].kind = kind, (s \o t)[j].kind = kind
      PROVE  i = j
  <2>1. CASE i \in DOMAIN s /\ (s \o t)[i] = s[i]
    <3>1. ~Says(t, kind)
      BY <1>4, <2>1 DEF Says
    <3>2. j \in DOMAIN s /\ (s \o t)[j] = s[j]
      BY <1>2, <1>4, <3>1 DEF Says
    <3> QED
      BY <1>4, <2>1, <3>2 DEF SaysOnce
  <2>2. CASE i - Len(s) \in DOMAIN t /\ (s \o t)[i] = t[i - Len(s)] /\ i \in Nat
    <3>1. ~Says(s, kind)
      BY <1>4, <2>2 DEF Says
    <3>2. j - Len(s) \in DOMAIN t /\ (s \o t)[j] = t[j - Len(s)] /\ j \in Nat
      BY <1>2, <1>4, <3>1 DEF Says
    <3>3. i - Len(s) = j - Len(s)
      BY <1>4, <2>2, <3>2 DEF SaysOnce
    <3> QED
      BY <1>1, <2>2, <3>2, <3>3
  <2> QED
    BY <1>2, <2>1, <2>2
<1> QED
  BY <1>3, <1>4 DEF SaysOnce

LEMMA PrecedesConcat ==
    ASSUME NEW s \in Seq(Message), NEW t \in Seq(Message), NEW first, NEW second,
           Precedes(s, first, second), Says(s, first) \/ ~Says(t, second)
    PROVE  Precedes(s \o t, first, second)
<1>1. /\ Len(s) \in Nat /\ Len(t) \in Nat
      /\ DOMAIN s = 1 .. Len(s) /\ DOMAIN t = 1 .. Len(t)
      /\ DOMAIN (s \o t) = 1 .. (Len(s) + Len(t))
      /\ \A i \in 1 .. Len(s) : (s \o t)[i] = s[i]
      /\ \A i \in 1 .. Len(t) : (s \o t)[Len(s) + i] = t[i]
  OBVIOUS
<1> SUFFICES ASSUME NEW i \in 1 .. (Len(s) + Len(t)), (s \o t)[i].kind = second
             PROVE  \E j \in 1 .. (Len(s) + Len(t)) : j < i /\ (s \o t)[j].kind = first
  BY <1>1 DEF Precedes
<1>2. CASE i <= Len(s)
  <2>1. i \in DOMAIN s /\ s[i].kind = second
    BY <1>1, <1>2
  <2>2. PICK j \in DOMAIN s : j < i /\ s[j].kind = first
    BY <2>1 DEF Precedes
  <2> QED
    BY <1>1, <2>2
<1>3. CASE ~(i <= Len(s))
  <2>1. i - Len(s) \in DOMAIN t /\ t[i - Len(s)].kind = second
    BY <1>1, <1>3
  <2>2. PICK j \in DOMAIN s : s[j].kind = first
    BY <2>1 DEF Says
  <2> QED
    BY <1>1, <1>3, <2>2
<1> QED
  BY <1>2, <1>3

LEMMA PrefixKept ==
    ASSUME NEW s \in Seq(Message), NEW n \in 0 .. Len(s), NEW kind, NEW first
    PROVE  /\ Says(SubSeq(s, 1, n), kind) => Says(s, kind)
           /\ SaysOnce(s, kind) => SaysOnce(SubSeq(s, 1, n), kind)
           /\ Precedes(s, first, kind) => Precedes(SubSeq(s, 1, n), first, kind)
<1>1. /\ Len(s) \in Nat /\ DOMAIN s = 1 .. Len(s) /\ DOMAIN SubSeq(s, 1, n) = 1 .. n
      /\ \A i \in 1 .. n : i \in DOMAIN s /\ SubSeq(s, 1, n)[i] = s[i]
  OBVIOUS
<1>2. Precedes(s, first, kind) => Precedes(SubSeq(s, 1, n), first, kind)
  <2> SUFFICES ASSUME Precedes(s, first, kind), NEW i \in 1 .. n, s[i].kind = kind
               PROVE  \E j \in 1 .. n : j < i /\ s[j].kind = first
    BY <1>1 DEF Precedes
  <2>1. PICK j \in DOMAIN s : j < i /\ s[j].kind = first
    BY <1>1 DEF Precedes
  <2> QED
    BY <1>1, <2>1
<1> QED
  BY <1>1, <1>2 DEF Says, SaysOnce

LEMMA NothingLeft ==
    ASSUME NEW kind, NEW first
    PROVE  ~Says(<<>>, kind) /\ SaysOnce(<<>>, kind) /\ Precedes(<<>>, first, kind)
BY DEF Says, SaysOnce, Precedes

-----------------------------------------------------------------------------
(* The answers of a queue.                                                 *)

LEMMA AnswersAppend ==
    ASSUME NEW queue \in Seq(Reply), NEW reply \in Reply, NEW kind
    PROVE  /\ Answers(Append(queue, reply), kind) <=> Answers(queue, kind) \/ Gives(reply, kind)
           /\ AnswersOnce(queue, kind)
                /\ (Gives(reply, kind) => SaysOnce(reply.lines, kind) /\ ~Answers(queue, kind))
                => AnswersOnce(Append(queue, reply), kind)
           /\ NoneHeld(Append(queue, reply)) <=> NoneHeld(queue) /\ ~reply.gated
           /\ AllHeld(queue) /\ reply.gated => AllHeld(Append(queue, reply))
           /\ HeldOnce(queue) /\ (reply.gated => NoneHeld(queue)) => HeldOnce(Append(queue, reply))
<1>1. /\ Len(queue) \in Nat /\ DOMAIN queue = 1 .. Len(queue)
      /\ DOMAIN Append(queue, reply) = 1 .. (Len(queue) + 1)
      /\ \A i \in 1 .. Len(queue) : i \in DOMAIN Append(queue, reply) /\ Append(queue, reply)[i] = queue[i]
      /\ Len(queue) + 1 \in DOMAIN Append(queue, reply)
      /\ Append(queue, reply)[Len(queue) + 1] = reply
      /\ \A i \in DOMAIN Append(queue, reply) : i \in DOMAIN queue \/ i = Len(queue) + 1
  OBVIOUS
<1> HIDE DEF Gives
<1>2. Answers(Append(queue, reply), kind) <=> Answers(queue, kind) \/ Gives(reply, kind)
  BY <1>1 DEF Answers
<1>3. /\ NoneHeld(Append(queue, reply)) <=> NoneHeld(queue) /\ ~reply.gated
      /\ AllHeld(queue) /\ reply.gated => AllHeld(Append(queue, reply))
      /\ HeldOnce(queue) /\ (reply.gated => NoneHeld(queue)) => HeldOnce(Append(queue, reply))
  BY <1>1 DEF NoneHeld, AllHeld, HeldOnce
<1>4. ASSUME AnswersOnce(queue, kind),
             Gives(reply, kind) => SaysOnce(reply.lines, kind) /\ ~Answers(queue, kind)
      PROVE  AnswersOnce(Append(queue, reply), kind)
  BY <1>1, <1>4 DEF AnswersOnce, Answers
<1> QED
  BY <1>2, <1>3, <1>4

LEMMA QueueTail ==
    ASSUME NEW queue \in Seq(Reply), queue # <<>>
    PROVE  /\ Head(queue) = queue[1] /\ Len(queue) \in Nat \ {0} /\ 1 \in DOMAIN queue
           /\ DOMAIN queue = 1 .. Len(queue) /\ DOMAIN Tail(queue) = 1 .. (Len(queue) - 1)
           /\ \A i \in DOMAIN Tail(queue) : /\ i + 1 \in DOMAIN queue /\ Tail(queue)[i] = queue[i + 1]
                                            /\ i + 1 # 1 /\ i \in Int
           /\ \A i \in DOMAIN queue :
                 i = 1 \/ (i - 1 \in DOMAIN Tail(queue) /\ Tail(queue)[i - 1] = queue[i])
OBVIOUS

LEMMA AnswersTail ==
    ASSUME NEW queue \in Seq(Reply), queue # <<>>, NEW kind
    PROVE  /\ Answers(queue, kind) <=> Gives(Head(queue), kind) \/ Answers(Tail(queue), kind)
           /\ AnswersOnce(queue, kind) =>
                /\ AnswersOnce(Tail(queue), kind)
                /\ Gives(Head(queue), kind) =>
                      SaysOnce(Head(queue).lines, kind) /\ ~Answers(Tail(queue), kind)
<1>2. Answers(queue, kind) <=> Gives(Head(queue), kind) \/ Answers(Tail(queue), kind)
  BY QueueTail DEF Answers
<1>3. ASSUME AnswersOnce(queue, kind)
      PROVE  /\ AnswersOnce(Tail(queue), kind)
             /\ Gives(Head(queue), kind) =>
                  SaysOnce(Head(queue).lines, kind) /\ ~Answers(Tail(queue), kind)
  <2>1. ASSUME NEW i \in DOMAIN Tail(queue), NEW j \in DOMAIN Tail(queue),
               Gives(Tail(queue)[i], kind), Gives(Tail(queue)[j], kind)
        PROVE  i = j
    <3>1. i + 1 = j + 1
      BY QueueTail, <1>3, <2>1 DEF AnswersOnce
    <3> QED
      BY QueueTail, <3>1
  <2>2. \A i \in DOMAIN Tail(queue) : Gives(Tail(queue)[i], kind) => SaysOnce(Tail(queue)[i].lines, kind)
    BY QueueTail, <1>3 DEF AnswersOnce
  <2>3. ASSUME Gives(Head(queue), kind)
        PROVE  SaysOnce(Head(queue).lines, kind) /\ ~Answers(Tail(queue), kind)
    BY QueueTail, <1>3, <2>3 DEF AnswersOnce, Answers
  <2> QED
    BY <2>1, <2>2, <2>3 DEF AnswersOnce
<1> QED
  BY <1>2, <1>3

LEMMA HeldTail ==
    ASSUME NEW queue \in Seq(Reply), queue # <<>>
    PROVE  /\ NoneHeld(queue) <=> ~Head(queue).gated /\ NoneHeld(Tail(queue))
           /\ AllHeld(queue) <=> Head(queue).gated /\ AllHeld(Tail(queue))
           /\ HeldOnce(queue) => HeldOnce(Tail(queue)) /\ (Head(queue).gated => NoneHeld(Tail(queue)))
<1>1. \A i \in DOMAIN Tail(queue) : \E j \in DOMAIN queue : Tail(queue)[i] = queue[j]
  BY QueueTail
<1>2. /\ 1 \in DOMAIN queue /\ Head(queue) = queue[1]
      /\ \A i \in DOMAIN queue :
           queue[i] = Head(queue) \/ \E j \in DOMAIN Tail(queue) : queue[i] = Tail(queue)[j]
  BY QueueTail
<1>3. NoneHeld(queue) <=> ~Head(queue).gated /\ NoneHeld(Tail(queue))
  BY <1>1, <1>2 DEF NoneHeld
<1>4. AllHeld(queue) <=> Head(queue).gated /\ AllHeld(Tail(queue))
  BY <1>1, <1>2 DEF AllHeld
<1>5. ASSUME HeldOnce(queue)
      PROVE  HeldOnce(Tail(queue)) /\ (Head(queue).gated => NoneHeld(Tail(queue)))
  <2>1. ASSUME NEW i \in DOMAIN Tail(queue), NEW j \in DOMAIN Tail(queue),
               Tail(queue)[i].gated, Tail(queue)[j].gated
        PROVE  i = j
    <3>1. i + 1 = j + 1
      BY QueueTail, <1>5, <2>1 DEF HeldOnce
    <3> QED
      BY QueueTail, <3>1
  <2>2. Head(queue).gated => NoneHeld(Tail(queue))
    BY QueueTail, <1>5 DEF HeldOnce, NoneHeld
  <2> QED
    BY <2>1, <2>2 DEF HeldOnce
<1> QED
  BY <1>3, <1>4, <1>5

LEMMA NothingQueued ==
    ASSUME NEW kind
    PROVE  /\ ~Answers(<<>>, kind) /\ AnswersOnce(<<>>, kind)
           /\ NoneHeld(<<>>) /\ AllHeld(<<>>) /\ HeldOnce(<<>>)
BY DEF Answers, AnswersOnce, NoneHeld, AllHeld, HeldOnce

LEMMA HeldQueues ==
    ASSUME NEW p
    PROVE  Held(p) <=> ~NoneHeld(replies[p]) \/ ~NoneHeld(waiting[p])
BY DEF Held, NoneHeld

-----------------------------------------------------------------------------
(* What the handlers' two ways to touch a connection and a queue come to.  *)

LEMMA Sending ==
    ASSUME TypeOK, NEW p \in Node, NEW lines \in Seq(Message), inbox' = Delivered(p, lines)
    PROVE  \A q \in Node : \A kind :
             LET new == conUp /\ q = Other(p) /\ Says(lines, kind) IN
             /\ Line(q, kind)' <=> Line(q, kind) \/ new
             /\ LineOnce(q, kind) /\ (new => SaysOnce(lines, kind) /\ ~Line(q, kind)) => LineOnce(q, kind)'
             /\ \A first :
                  Ahead(q, first, kind) /\ (new => Line(q, first)) => Ahead(q, first, kind)'
<1> SUFFICES ASSUME NEW q \in Node, NEW kind, NEW first
             PROVE  LET new == conUp /\ q = Other(p) /\ Says(lines, kind) IN
             /\ Line(q, kind)' <=> Line(q, kind) \/ new
             /\ LineOnce(q, kind) /\ (new => SaysOnce(lines, kind) /\ ~Line(q, kind)) => LineOnce(q, kind)'
             /\ Ahead(q, first, kind) /\ (new => Line(q, first)) => Ahead(q, first, kind)'
  OBVIOUS
<1>1. inbox \in [Node -> Seq(Message)] /\ inbox[q] \in Seq(Message) /\ Other(p) \in Node
  BY Parties DEF TypeOK
<1>2. CASE q = Other(p) /\ conUp
  <2>1. inbox'[q] = inbox[q] \o lines
    BY <1>1, <1>2 DEF Delivered
  <2>2. CASE Says(lines, kind)
    BY <1>1, <1>2, <2>1, <2>2, SaysConcat, PrecedesConcat DEF Line, LineOnce, Ahead
  <2>3. CASE ~Says(lines, kind)
    <3>1. SaysOnce(lines, kind)
      BY <2>3 DEF Says, SaysOnce
    <3> QED
      BY <1>1, <1>2, <2>1, <2>3, <3>1, SaysConcat, PrecedesConcat DEF Line, LineOnce, Ahead
  <2> QED
    BY <2>2, <2>3
<1>3. CASE ~ (q = Other(p) /\ conUp)
  <2>1. inbox'[q] = inbox[q]
    BY <1>1, <1>3 DEF Delivered
  <2> QED
    BY <1>3, <2>1 DEF Line, LineOnce, Ahead
<1> QED
  BY <1>2, <1>3

ReadOut(p, read) ==
    /\ Line(p, read) /\ \A first : ~Ahead(p, first, read)
    /\ LineOnce(p, read) => ~Line(p, read)'
    /\ \A q \in Node : \A kind :
         /\ Line(q, kind)' => Line(q, kind)
         /\ Line(q, kind) => Line(q, kind)' \/ (q = p /\ kind = read)
         /\ LineOnce(q, kind) => LineOnce(q, kind)'
         /\ \A first : Ahead(q, first, kind) /\ (q = p => first # read) => Ahead(q, first, kind)'

LEMMA Reading ==
    ASSUME TypeOK, NEW p \in Node, inbox[p] # <<>>, Consumed(p), NEW read, Head(inbox[p]).kind = read
    PROVE  ReadOut(p, read)
<1>1. inbox \in [Node -> Seq(Message)] /\ inbox[p] \in Seq(Message)
  BY DEF TypeOK
<1>2. inbox'[p] = Tail(inbox[p]) /\ \A q \in Node \ {p} : inbox'[q] = inbox[q]
  BY <1>1 DEF Consumed
<1>3. /\ Line(p, read) /\ (LineOnce(p, read) => ~Line(p, read)')
      /\ \A first : ~Ahead(p, first, read)
  BY <1>1, <1>2, SaysTail, PrecedesTail DEF Line, LineOnce, Ahead
<1>4. ASSUME NEW q \in Node, NEW kind, NEW first
      PROVE  /\ Line(q, kind)' => Line(q, kind)
             /\ Line(q, kind) => Line(q, kind)' \/ (q = p /\ kind = read)
             /\ LineOnce(q, kind) => LineOnce(q, kind)'
             /\ Ahead(q, first, kind) /\ (q = p => first # read) => Ahead(q, first, kind)'
  <2>1. CASE q = p
    <3>1. /\ Line(p, kind)' => Line(p, kind)
          /\ Line(p, kind) => Line(p, kind)' \/ kind = read
          /\ LineOnce(p, kind) => LineOnce(p, kind)'
      BY <1>1, <1>2, SaysTail DEF Line, LineOnce
    <3>2. Ahead(p, first, kind) /\ first # read => Ahead(p, first, kind)'
      BY <1>1, <1>2, PrecedesTail DEF Ahead
    <3> QED
      BY <2>1, <3>1, <3>2
  <2>2. CASE q # p
    BY <1>2, <2>2 DEF Line, LineOnce, Ahead
  <2> QED
    BY <2>1, <2>2
<1> QED
  BY <1>3, <1>4 DEF ReadOut

LEMMA Queueing ==
    ASSUME TypeOK, NEW p \in Node, NEW lines \in Seq(Message), NEW gated \in BOOLEAN,
           Queue(p, lines, gated), UNCHANGED waiting
    PROVE  \A q \in Node :
             /\ \A kind :
                  LET new == q = p /\ ~gated /\ Says(lines, kind) IN
                  /\ Answering(q, kind)' <=> Answering(q, kind) \/ new
                  /\ AnsweringOnce(q, kind) /\ (new => SaysOnce(lines, kind) /\ ~Answering(q, kind))
                       => AnsweringOnce(q, kind)'
             /\ Held(q)' <=> Held(q) \/ (q = p /\ gated)
<1> DEFINE reply == [lines |-> lines, gated |-> gated]
<1>1. replies \in [Node -> Seq(Reply)] /\ replies[p] \in Seq(Reply) /\ reply \in Reply
  BY DEF TypeOK, Reply
<1>2. /\ replies'[p] = Append(replies[p], reply) /\ waiting' = waiting
      /\ \A q \in Node \ {p} : replies'[q] = replies[q]
  BY <1>1 DEF Queue
<1>3. reply.lines = lines /\ reply.gated = gated
  OBVIOUS
<1> HIDE DEF reply
<1>4. ASSUME NEW q \in Node, NEW kind
      PROVE  LET new == q = p /\ ~gated /\ Says(lines, kind) IN
             /\ Answering(q, kind)' <=> Answering(q, kind) \/ new
             /\ AnsweringOnce(q, kind) /\ (new => SaysOnce(lines, kind) /\ ~Answering(q, kind))
                  => AnsweringOnce(q, kind)'
  <2>1. CASE q = p
    <3>1. Gives(reply, kind) <=> ~gated /\ Says(lines, kind)
      BY <1>3 DEF Gives
    <3>2. /\ Answering(p, kind)' <=> Answering(p, kind) \/ Gives(reply, kind)
          /\ AnsweringOnce(p, kind)
               /\ (Gives(reply, kind) => SaysOnce(lines, kind) /\ ~Answering(p, kind))
               => AnsweringOnce(p, kind)'
      BY <1>1, <1>2, <1>3, AnswersAppend DEF Answering, AnsweringOnce
    <3> QED
      BY <2>1, <3>1, <3>2
  <2>2. CASE q # p
    BY <1>2, <2>2 DEF Answering, AnsweringOnce
  <2> QED
    BY <2>1, <2>2
<1>5. ASSUME NEW q \in Node PROVE Held(q)' <=> Held(q) \/ (q = p /\ gated)
  <2>1. Held(q)' <=> ~NoneHeld(replies'[q]) \/ ~NoneHeld(waiting'[q])
    BY DEF Held, NoneHeld
  <2>2. NoneHeld(replies'[p]) <=> NoneHeld(replies[p]) /\ ~gated
    <3>1. NoneHeld(Append(replies[p], reply)) <=> NoneHeld(replies[p]) /\ ~reply.gated
      BY <1>1, AnswersAppend
    <3> QED
      BY <1>2, <1>3, <3>1
  <2>3. q # p => replies'[q] = replies[q]
    BY <1>2
  <2> QED
    BY <1>2, <2>1, <2>2, <2>3, HeldQueues
<1> QED
  BY <1>4, <1>5

LEMMA Absent ==
    ASSUME NEW p, NEW kind
    PROVE  /\ ~Line(p, kind) => LineOnce(p, kind) /\ \A first : Ahead(p, first, kind)
           /\ ~Answering(p, kind) => AnsweringOnce(p, kind)
BY DEF Line, LineOnce, Ahead, Says, SaysOnce, Precedes, Answering, AnsweringOnce, Answers, AnswersOnce

-----------------------------------------------------------------------------
(* Steps that leave the queues alone.                                      *)

Turned(p) ==
    /\ \A q \in Node \ {p} : phase'[q] = phase[q]
    /\ \/ phase'[p] = phase[p]
       \/ phase'[p] = "crashed"
       \/ phase[p] = "scan" /\ phase'[p] = "direct"
       \/ phase[p] = "direct" /\ phase'[p] = "route"
       \/ phase[p] = "client" /\ phase'[p] = "monitor"
       \/ phase[p] = "monitor" /\ phase'[p] = "scan"

LEMMA TurnKept ==
    ASSUME \A q \in Node : Turn(q), UNCHANGED <<replies, waiting>>, NEW p \in Node, Turned(p)
    PROVE  \A q \in Node : Turn(q)'
<1> SUFFICES ASSUME NEW q \in Node PROVE Turn(q)'
  OBVIOUS
<1>1. Turn(q) /\ replies'[q] = replies[q] /\ waiting'[q] = waiting[q]
  OBVIOUS
<1>2. CASE phase'[q] = phase[q]
  BY <1>1, <1>2 DEF Turn
<1>3. CASE phase'[q] # phase[q]
  <2>1. q = p
    BY <1>3 DEF Turned
  <2> QED
    BY <1>1, <1>3, <2>1 DEF Turn, Turned
<1> QED
  BY <1>2, <1>3

LEMMA TalkFacts ==
    ASSUME TInv
    PROVE  /\ GInv /\ TypeOK /\ Talk
           /\ state \in [Node -> States] /\ phase \in [Node -> Phases]
           /\ \A p \in Node : inbox[p] \in Seq(Message) /\ replies[p] \in Seq(Reply)
                              /\ waiting[p] \in Seq(Reply) /\ Local(p) /\ Turn(p)
BY DEF TInv, GInv, IInv, TypeOK, Talk

(***************************************************************************)
(* A step that at most loses lines, and while they are connected no answer.*)
(***************************************************************************)
LEMMA QuietTalk ==
    ASSUME Talk, UNCHANGED <<state, replies, waiting>>, \A p \in Node : Turn(p)',
           contracts \subseteq contracts', conUp' => conUp,
           \A q \in Node, kind \in Kinds :
               /\ Line(q, kind)' => Line(q, kind)
               /\ conUp' /\ kind \in Returns => (Line(q, kind) => Line(q, kind)')
               /\ LineOnce(q, kind) => LineOnce(q, kind)'
               /\ \A first \in Returns : Ahead(q, first, kind) => Ahead(q, first, kind)'
    PROVE  Talk'
<1>1. \A q, kind : /\ Answering(q, kind)' <=> Answering(q, kind)
                   /\ AnsweringOnce(q, kind)' <=> AnsweringOnce(q, kind)
                   /\ Held(q)' <=> Held(q)
  BY DEF Answering, AnsweringOnce, Held
<1>2. /\ sellerAt' = sellerAt /\ buyerAt' = buyerAt /\ Returns \subseteq Spoken /\ Spoken \subseteq Kinds
      /\ \A q \in Node : Other(q) \in Node
  BY Parties DEF sellerAt, buyerAt, Returns, Spoken, Kinds
<1>3. \A q \in Node, kind \in Kinds : Line(q, kind)' => Line(q, kind)
  OBVIOUS
<1>4. SellerHears' /\ BuyerHears' /\ SellerAnswers' /\ BuyerAnswers'
  BY <1>1, <1>2, <1>3, Parties DEF Talk, SellerHears, BuyerHears, SellerAnswers, BuyerAnswers, Kinds
<1>5. Unrepeated'
  BY <1>1, <1>2 DEF Talk, Unrepeated
<1>6. InOrder'
  BY <1>2, Parties DEF Talk, InOrder, Kinds, Returns
<1>7. Promised'
  <2>1. \A q \in Node, kind \in Returns : conUp' => (OnWay(q, kind) => OnWay(q, kind)')
    BY <1>1, <1>2 DEF OnWay
  <2> QED
    BY <1>2, <2>1, Parties DEF Talk, Promised, Returns
<1>8. Pausing' /\ Opening'
  BY <1>1, <1>2, Parties DEF Talk, Pausing, Opening
<1> QED
  BY <1>4, <1>5, <1>6, <1>7, <1>8 DEF Talk

LEMMA SameLines ==
    ASSUME TInv, UNCHANGED <<state, replies, waiting, inbox, contracts, conUp>>,
           NEW p \in Node, Turned(p)
    PROVE  Talk'
<1>1. \A q \in Node : Turn(q)'
  BY TurnKept, TalkFacts
<1>2. \A q, kind : /\ Line(q, kind)' <=> Line(q, kind)
                   /\ LineOnce(q, kind)' <=> LineOnce(q, kind)
                   /\ \A first : Ahead(q, first, kind)' <=> Ahead(q, first, kind)
  BY DEF Line, LineOnce, Ahead
<1> QED
  BY <1>1, <1>2, QuietTalk, TalkFacts

LEMMA TurnsOn ==
    ASSUME TInv, NEW p \in Node, NEW next, Goto(p, next),
           \/ next = "crashed"
           \/ phase[p] = "scan" /\ next = "direct"
           \/ phase[p] = "direct" /\ next = "route"
           \/ phase[p] = "client" /\ next = "monitor"
           \/ phase[p] = "monitor" /\ next = "scan"
    PROVE  Turned(p)
BY TalkFacts DEF Goto, Turned

LEMMA Stays ==
    ASSUME UNCHANGED phase
    PROVE  \A p \in Node : Turned(p)
BY DEF Turned

LEMMA TurnsTalk ==
    ASSUME TInv, NEW p \in Node, ScanIdle(p) \/ EndDirect(p) \/ EndClient(p) \/ EndMonitor(p)
    PROVE  Talk'
<1>1. UNCHANGED <<state, replies, waiting, inbox, contracts, conUp>>
  BY DEF ScanIdle, Scan, EndDirect, EndClient, EndMonitor, factory, loop
<1>2. Turned(p)
  BY TurnsOn DEF ScanIdle, Scan, EndDirect, EndClient, EndMonitor
<1> QED
  BY <1>1, <1>2, SameLines

LEMMA OutsideTalk ==
    ASSUME TInv, NEW p \in Node,
           ClientReady(p) \/ ConfirmSetup(p) \/ ConfirmPayout(p) \/ ServerMatch \/ UNCHANGED vars
    PROVE  Talk'
<1>1. UNCHANGED <<state, replies, waiting, inbox, contracts, conUp, phase>>
  BY DEF ClientReady, ConfirmSetup, ConfirmPayout, ServerMatch, vars, factory, loop
<1> QED
  BY <1>1, Stays, SameLines

(***************************************************************************)
(* Whoever stops leaves the other what it has.                             *)
(***************************************************************************)
LEMMA CrashedTalk ==
    ASSUME TInv, NEW p \in Node, Crashed(p), UNCHANGED <<state, replies, waiting, contracts>>
    PROVE  Talk'
<1>1. \A q \in Node : Turn(q)'
  BY TurnsOn, TurnKept, TalkFacts DEF Crashed
<1>2. \A q \in Node : inbox'[q] = inbox[q] \/ inbox'[q] = <<>>
  BY TalkFacts DEF Crashed, TypeOK
<1>3. \A q \in Node, kind \in Kinds :
         /\ Line(q, kind)' => Line(q, kind)
         /\ LineOnce(q, kind) => LineOnce(q, kind)'
         /\ \A first \in Returns : Ahead(q, first, kind) => Ahead(q, first, kind)'
  BY <1>2, NothingLeft DEF Line, LineOnce, Ahead
<1> QED
  BY <1>1, <1>3, QuietTalk, TalkFacts DEF Crashed

LEMMA DisconnectTalk == ASSUME TInv, Disconnect PROVE Talk'
<1>1. UNCHANGED <<state, replies, waiting, contracts, phase>> /\ ~conUp'
  BY DEF Disconnect, factory, loop
<1>2. \A q \in Node : Turn(q)'
  BY <1>1, Parties, Stays, TurnKept, TalkFacts
<1>3. ASSUME NEW q \in Node PROVE \E n \in 0 .. Len(inbox[q]) : inbox'[q] = SubSeq(inbox[q], 1, n)
  <2>1. PICK buyer \in 0 .. Len(inbox["buyer"]), seller \in 0 .. Len(inbox["seller"]) :
          inbox' = [p \in Node |-> SubSeq(inbox[p], 1, IF p = "buyer" THEN buyer ELSE seller)]
    BY DEF Disconnect
  <2>2. CASE q = "buyer"
    BY <2>1, <2>2
  <2>3. CASE q = "seller"
    BY <2>1, <2>3
  <2> QED
    BY <2>2, <2>3, Parties
<1>4. ASSUME NEW q \in Node, NEW kind \in Kinds
      PROVE  /\ Line(q, kind)' => Line(q, kind)
             /\ LineOnce(q, kind) => LineOnce(q, kind)'
             /\ \A first \in Returns : Ahead(q, first, kind) => Ahead(q, first, kind)'
  <2>1. PICK n \in 0 .. Len(inbox[q]) : inbox'[q] = SubSeq(inbox[q], 1, n)
    BY <1>3
  <2>2. inbox[q] \in Seq(Message)
    BY TalkFacts
  <2> QED
    BY <2>1, <2>2, PrefixKept DEF Line, LineOnce, Ahead
<1> QED
  BY <1>1, <1>2, <1>4, QuietTalk, TalkFacts

-----------------------------------------------------------------------------
(* Reading: what comes first in an inbox its receiver accepts.             *)

LEMMA FirstLine ==
    ASSUME TypeOK, NEW p \in Node, inbox[p] # <<>>, NEW read, Head(inbox[p]).kind = read
    PROVE  read \in Kinds /\ Line(p, read) /\ \A first : ~Ahead(p, first, read)
<1>1. inbox[p] \in Seq(Message)
  BY DEF TypeOK
<1> QED
  BY <1>1, SaysTail, PrecedesTail DEF Line, Ahead

LEMMA AcceptsEdge ==
    ASSUME NEW p \in contracts, p = "buyer" \/ p = "seller"
    PROVE  /\ p = "seller" /\ state[p] = "seller_sent_get_refund_sig" => Accepts(p, "return_refund_sig")
           /\ p = "buyer" /\ state[p] = "buyer_sent_get_refund_sig" => Accepts(p, "return_refund_sig")
           /\ p = "seller" /\ state[p] = "pending_seller_return_refund_sig" => Accepts(p, "get_refund_sig")
           /\ p = "seller" /\ state[p] = "pending_seller_return_setup_tx" => Accepts(p, "get_setup_tx")
           /\ p = "buyer" /\ state[p] = "pending_buyer_return_setup_tx" => Accepts(p, "get_setup_tx")
           /\ p = "seller" /\ state[p] = "seller_sent_get_setup_tx" /\ p \in txids =>
                Accepts(p, "return_setup_tx")
           /\ p = "buyer" /\ state[p] = "buyer_sent_get_setup_tx" /\ p \in txids =>
                Accepts(p, "return_setup_tx")
BY DEF Accepts, Target, StateMachine, Edges, BuyerEdges, SellerEdges

LEMMA ReadAtLast ==
    ASSUME TInv, NEW p \in Node, inbox[p] # <<>>, NEW read, Head(inbox[p]).kind = read
    PROVE  /\ read \in {"return_refund_sig", "get_setup_tx", "return_setup_tx"} => Accepts(p, read)
           /\ read = "get_refund_sig" /\ p = "seller" => Accepts(p, read)
           /\ read = "return_adjusted_refund" => Accepts(p, read) \/ state[p] \in CompleteStates
<1>1. read \in Kinds /\ Line(p, read) /\ (\A first : ~Ahead(p, first, read))
      /\ SellerHears /\ BuyerHears /\ InOrder /\ Opening /\ (p = "buyer" \/ p = "seller") /\ Local(p)
  BY FirstLine, Parties, TalkFacts DEF Talk
<1>2. CASE read = "return_refund_sig"
  <2>1. \/ p = "seller" /\ state[p] = "seller_sent_get_refund_sig"
        \/ p = "buyer" /\ state[p] = "buyer_sent_get_refund_sig"
    BY <1>1, <1>2 DEF SellerHears, BuyerHears, sellerAt, buyerAt
  <2>2. p \in contracts
    BY <1>1, <2>1 DEF Opening, Handshake
  <2> QED
    BY <1>2, <2>1, <2>2, AcceptsEdge
<1>3. CASE read = "get_setup_tx"
  <2>1. \/ p = "seller" /\ state[p] = "pending_seller_return_setup_tx"
        \/ p = "buyer" /\ state[p] = "pending_buyer_return_setup_tx"
    BY <1>1, <1>3 DEF SellerHears, BuyerHears, sellerAt, buyerAt, InOrder
  <2>2. p \in contracts
    BY <1>1, <2>1 DEF Opening, Handshake
  <2> QED
    BY <1>3, <2>1, <2>2, AcceptsEdge
<1>4. CASE read = "return_setup_tx"
  <2>1. \/ p = "seller" /\ state[p] = "seller_sent_get_setup_tx"
        \/ p = "buyer" /\ state[p] = "buyer_sent_get_setup_tx"
    BY <1>1, <1>4 DEF SellerHears, BuyerHears, sellerAt, buyerAt
  <2>2. p \in contracts /\ p \in txids
    BY <1>1, <2>1 DEF Opening, Handshake, Local, Stored, ReadyStates, SellerStates, BuyerStates
  <2> QED
    BY <1>4, <2>1, <2>2, AcceptsEdge
<1>5. CASE read = "get_refund_sig" /\ p = "seller"
  <2>1. state[p] = "pending_seller_return_refund_sig"
    BY <1>1, <1>5 DEF SellerHears, sellerAt, InOrder
  <2>2. p \in contracts
    BY <1>1, <2>1 DEF Opening, Handshake
  <2> QED
    BY <1>5, <2>1, <2>2, AcceptsEdge
<1>6. CASE read = "return_adjusted_refund"
  <2>1. state[p] \in AcceptStates \cup CompleteStates
    BY <1>1, <1>6 DEF SellerHears, BuyerHears, sellerAt, buyerAt, InOrder, SellerTrading,
                      BuyerTrading, AcceptStates
  <2>2. state[p] \in AcceptStates => p \in contracts /\ p \in setups /\ p \in refunds
    BY <1>1 DEF Opening, Handshake, Local, Stored, AcceptStates, DisclosedStates, TradingStates,
                AnsweredStates, SignedStates
  <2> QED
    BY <1>6, <2>1, <2>2 DEF Accepts
<1> QED
  BY <1>2, <1>3, <1>4, <1>5, <1>6

LEMMA RecvDroppedTalk == ASSUME TInv, NEW p \in Node, RecvDropped(p) PROVE Talk'
<1>1. PICK read : Head(inbox[p]).kind = read
  OBVIOUS
<1>2. inbox[p] # <<>> /\ Consumed(p) /\ ~Accepts(p, read)
      /\ UNCHANGED <<state, replies, waiting, contracts, conUp, phase>>
  BY <1>1 DEF RecvDropped, factory, loop
<1>3. read \notin Returns
  BY <1>1, <1>2, ReadAtLast DEF Returns
<1>4. \A q \in Node : Turn(q)'
  BY <1>2, Parties, Stays, TurnKept, TalkFacts
<1>5. \A q \in Node, kind \in Kinds :
         /\ Line(q, kind)' => Line(q, kind)
         /\ kind \in Returns => (Line(q, kind) => Line(q, kind)')
         /\ LineOnce(q, kind) => LineOnce(q, kind)'
         /\ \A first \in Returns : Ahead(q, first, kind) => Ahead(q, first, kind)'
  <2> SUFFICES ASSUME NEW q \in Node, NEW kind \in Kinds, NEW first \in Returns
               PROVE  /\ Line(q, kind)' => Line(q, kind)
                      /\ kind \in Returns => (Line(q, kind) => Line(q, kind)')
                      /\ LineOnce(q, kind) => LineOnce(q, kind)'
                      /\ Ahead(q, first, kind) => Ahead(q, first, kind)'
    BY DEF Returns
  <2>1. ReadOut(p, read)
    BY <1>1, <1>2, Reading, TalkFacts
  <2>2. /\ Line(q, kind)' => Line(q, kind)
        /\ Line(q, kind) => Line(q, kind)' \/ (q = p /\ kind = read)
        /\ LineOnce(q, kind) => LineOnce(q, kind)'
        /\ Ahead(q, first, kind) /\ (q = p => first # read) => Ahead(q, first, kind)'
    BY <2>1 DEF ReadOut
  <2> QED
    BY <1>3, <2>2
<1> QED
  BY <1>2, <1>4, <1>5, QuietTalk, TalkFacts

LEMMA RecvShakeOnItFailsTalk == ASSUME TInv, NEW p \in Node, RecvShakeOnItFails(p) PROVE Talk'
<1>1. inbox[p] # <<>> /\ Head(inbox[p]).kind = "shake_on_it" /\ Consumed(p)
      /\ UNCHANGED <<state, replies, waiting, conUp, phase>> /\ contracts \subseteq contracts'
  BY DEF RecvShakeOnItFails, Receive, loop
<1>2. \A q \in Node : Turn(q)'
  BY <1>1, Parties, Stays, TurnKept, TalkFacts
<1>3. \A q \in Node, kind \in Kinds :
         /\ Line(q, kind)' => Line(q, kind)
         /\ kind \in Returns => (Line(q, kind) => Line(q, kind)')
         /\ LineOnce(q, kind) => LineOnce(q, kind)'
         /\ \A first \in Returns : Ahead(q, first, kind) => Ahead(q, first, kind)'
  <2>1. ReadOut(p, "shake_on_it")
    BY <1>1, Reading, TalkFacts
  <2> QED
    BY <2>1 DEF ReadOut, Returns
<1> QED
  BY <1>1, <1>2, <1>3, QuietTalk, TalkFacts

-----------------------------------------------------------------------------
(* Asking: the requests of the scan.                                       *)

Said(p, said) ==
    \A q \in Node : \A kind :
        LET new == conUp /\ q = Other(p) /\ kind = said IN
        /\ Line(q, kind)' <=> Line(q, kind) \/ new
        /\ LineOnce(q, kind) /\ (new => ~Line(q, kind)) => LineOnce(q, kind)'
        /\ \A first : Ahead(q, first, kind) /\ (new => Line(q, first)) => Ahead(q, first, kind)'

SameLinesHeard ==
    \A q \in Node : \A kind :
        /\ Line(q, kind)' <=> Line(q, kind)
        /\ LineOnce(q, kind)' <=> LineOnce(q, kind)
        /\ \A first : Ahead(q, first, kind)' <=> Ahead(q, first, kind)

SameAnswers ==
    \A q \in Node :
        /\ \A kind : /\ Answering(q, kind)' <=> Answering(q, kind)
                     /\ AnsweringOnce(q, kind) => AnsweringOnce(q, kind)'
        /\ Held(q)' <=> Held(q)

LEMMA SaidOne ==
    ASSUME TypeOK, NEW p \in Node, NEW m \in Message, inbox' = Delivered(p, <<m>>),
           NEW said, said = m.kind
    PROVE  Said(p, said)
<1> <<m>> \in Seq(Message)
  OBVIOUS
<1>1. \A kind : (Says(<<m>>, kind) <=> kind = m.kind) /\ SaysOnce(<<m>>, kind)
  BY SaysShort
<1> QED
  BY <1>1, Sending DEF Said

LEMMA SameQueues == ASSUME UNCHANGED <<replies, waiting>> PROVE SameAnswers
BY DEF SameAnswers, Answering, AnsweringOnce, Held

LEMMA SameInboxes == ASSUME UNCHANGED inbox PROVE SameLinesHeard
BY DEF SameLinesHeard, Line, LineOnce, Ahead

LEMMA Silent ==
    ASSUME TInv, NEW p \in Node, phase[p] \in {"scan", "client", "monitor"}
    PROVE  \A kind : ~Answering(p, kind)
BY TalkFacts DEF Turn, AllHeld, Answering, Answers, Gives

LEMMA TalkParts ==
    ASSUME TInv
    PROVE  /\ SellerHears /\ BuyerHears /\ SellerAnswers /\ BuyerAnswers
           /\ Unrepeated /\ InOrder /\ Promised /\ Pausing /\ Opening
           /\ Other("buyer") = "seller" /\ Other("seller") = "buyer" /\ Node = {"buyer", "seller"}
BY TalkFacts DEF Talk, Other, Node

LEMMA ScanGetRefundSigTalk == ASSUME TInv, NEW p \in Node, ScanGetRefundSig(p) PROVE Talk'
<1>1. \/ /\ p = "seller" /\ buyerAt' = buyerAt
         /\ sellerAt = "pending_seller_get_refund_sig" /\ sellerAt' = "seller_sent_get_refund_sig"
      \/ /\ p = "buyer" /\ sellerAt' = sellerAt
         /\ buyerAt = "pending_buyer_get_refund_sig" /\ buyerAt' = "buyer_sent_get_refund_sig"
  BY Parties, TalkFacts DEF ScanGetRefundSig, UpdateState, GetRefundSigStates, Local, Role,
     BuyerStates, SellerStates, sellerAt, buyerAt
<1>2. /\ UNCHANGED <<replies, waiting, conUp, contracts>> /\ p \in contracts /\ phase[p] = "scan"
      /\ \A q \in Node \ {p} : state'[q] = state[q]
  BY TalkFacts DEF ScanGetRefundSig, Scan, Fresh, UpdateState
<1>3. Said(p, "get_refund_sig")
  <2>1. inbox' = Delivered(p, <<Msg("get_refund_sig")>>) /\ Msg("get_refund_sig") \in Message
        /\ Msg("get_refund_sig").kind = "get_refund_sig"
    BY MsgType DEF ScanGetRefundSig, Kinds, Msg
  <2> QED
    BY <2>1, SaidOne, TalkFacts
<1>4. SameAnswers /\ \A kind : ~Answering(p, kind)
  BY <1>2, SameQueues, Silent
<1> USE <1>1, <1>2, <1>3, <1>4, TalkParts DEF Said, SameAnswers
<1>5. SellerHears' /\ BuyerHears' /\ SellerAnswers' /\ BuyerAnswers'
  BY DEF SellerHears, BuyerHears, SellerAnswers, BuyerAnswers, Opening, Promised, OnWay,
         SellerFirst, BuyerFirst, Handshake, SellerTrading, BuyerTrading, CompleteStates
<1>6. Unrepeated'
  BY DEF SellerHears, BuyerHears, Unrepeated, Spoken, Returns
<1>7. InOrder'
  BY Absent DEF SellerHears, BuyerHears, InOrder, Promised, OnWay
<1>8. Promised'
  BY DEF Promised, OnWay, Opening, SellerFirst, BuyerFirst, Handshake
<1>9. Pausing' /\ Opening'
  BY DEF Pausing, Opening, SellerFirst, BuyerFirst, Handshake
<1>10. \A q \in Node : Turn(q)'
  BY TurnsOn, TurnKept, TalkFacts DEF ScanGetRefundSig
<1> QED
  BY <1>5, <1>6, <1>7, <1>8, <1>9, <1>10 DEF Talk

LEMMA ScanGetSetupTxTalk == ASSUME TInv, NEW p \in Node, ScanGetSetupTx(p) PROVE Talk'
<1>1. \/ /\ p = "seller" /\ buyerAt' = buyerAt
         /\ sellerAt = "pending_seller_get_setup_tx" /\ sellerAt' = "seller_sent_get_setup_tx"
      \/ /\ p = "buyer" /\ sellerAt' = sellerAt
         /\ buyerAt = "pending_buyer_get_setup_tx" /\ buyerAt' = "buyer_sent_get_setup_tx"
  BY Parties, TalkFacts DEF ScanGetSetupTx, UpdateState, GetSetupTxStates, Local, Role,
     BuyerStates, SellerStates, sellerAt, buyerAt
<1>2. /\ UNCHANGED <<replies, waiting, conUp, contracts>> /\ p \in contracts /\ phase[p] = "scan"
      /\ \A q \in Node \ {p} : state'[q] = state[q]
  BY TalkFacts DEF ScanGetSetupTx, Scan, Fresh, UpdateState, factory
<1>3. Said(p, "get_setup_tx")
  <2>1. inbox' = Delivered(p, <<Msg("get_setup_tx")>>) /\ Msg("get_setup_tx") \in Message
        /\ Msg("get_setup_tx").kind = "get_setup_tx"
    BY MsgType DEF ScanGetSetupTx, Kinds, Msg
  <2> QED
    BY <2>1, SaidOne, TalkFacts
<1>4. SameAnswers /\ \A kind : ~Answering(p, kind)
  BY <1>2, SameQueues, Silent
<1> USE <1>1, <1>2, <1>3, <1>4, TalkParts DEF Said, SameAnswers
<1>5. SellerHears' /\ BuyerHears' /\ SellerAnswers' /\ BuyerAnswers'
  BY DEF SellerHears, BuyerHears, SellerAnswers, BuyerAnswers, Promised, OnWay,
         BuyerFirst, Handshake, SellerTrading, BuyerTrading, CompleteStates
<1>6. Unrepeated'
  BY DEF SellerHears, BuyerHears, Unrepeated, Spoken, Returns
<1>7. InOrder'
  <2>1. CASE p = "seller"
    BY <2>1, Absent DEF SellerHears, InOrder, Promised, OnWay
  <2>2. CASE p = "buyer"
    BY <2>2, Absent DEF BuyerHears, InOrder, Promised, OnWay, BuyerTrading, CompleteStates
  <2> QED
    BY <2>1, <2>2
<1>8. Promised'
  BY DEF Promised, OnWay
<1>9. Pausing' /\ Opening'
  BY DEF Pausing, Opening, SellerFirst, BuyerFirst, Handshake
<1>10. \A q \in Node : Turn(q)'
  BY TurnsOn, TurnKept, TalkFacts DEF ScanGetSetupTx
<1> QED
  BY <1>5, <1>6, <1>7, <1>8, <1>9, <1>10 DEF Talk

LEMMA ScanInitiateTalk == ASSUME TInv, NEW p \in Node, ScanInitiate(p) PROVE Talk'
<1>1. /\ p = "seller" /\ buyerAt' = buyerAt
      /\ sellerAt = "seller_initiate_microtransfer" /\ sellerAt' = "seller_accept_microtransfer"
  BY Parties, TalkFacts DEF ScanInitiate, UpdateState, Local, Role, SellerStates, sellerAt, buyerAt
<1>2. /\ UNCHANGED <<replies, waiting, conUp, contracts>> /\ p \in contracts /\ phase[p] = "scan"
      /\ \A q \in Node \ {p} : state'[q] = state[q]
  BY TalkFacts DEF ScanInitiate, Scan, Fresh, UpdateState, factory
<1>3. Said(p, "return_adjusted_refund")
  <2>1. 0 <= sent[Other(p)] /\ 0 \in Nat
    BY Parties, TalkFacts DEF TypeOK
  <2>2. /\ inbox' = Delivered(p, <<Offer(p)>>) /\ Offer(p) \in Message
        /\ Offer(p).kind = "return_adjusted_refund"
    BY <2>1, Adjusted, TalkFacts DEF ScanInitiate
  <2> QED
    BY <2>2, SaidOne, TalkFacts
<1>4. SameAnswers /\ \A kind : ~Answering(p, kind)
  BY <1>2, SameQueues, Silent
<1> USE <1>1, <1>2, <1>3, <1>4, TalkParts DEF Said, SameAnswers
<1>5. SellerHears' /\ BuyerHears' /\ SellerAnswers' /\ BuyerAnswers'
  BY DEF SellerHears, BuyerHears, SellerAnswers, BuyerAnswers, Promised, OnWay,
         SellerTrading, BuyerTrading, CompleteStates
<1>6. Unrepeated'
  BY DEF Unrepeated, Spoken, Returns
<1>7. InOrder'
  BY DEF BuyerHears, SellerAnswers, InOrder, Promised, OnWay
<1>8. Promised'
  BY DEF Promised, OnWay
<1>9. Pausing' /\ Opening'
  BY DEF Pausing, Opening, SellerFirst, Handshake
<1>10. \A q \in Node : Turn(q)'
  BY TurnsOn, TurnKept, TalkFacts DEF ScanInitiate
<1> QED
  BY <1>5, <1>6, <1>7, <1>8, <1>9, <1>10 DEF Talk

LEMMA ScanBroadcastTalk == ASSUME TInv, NEW p \in Node, ScanBroadcast(p) PROVE Talk'
<1>1. \/ /\ p = "seller" /\ buyerAt' = buyerAt
         /\ sellerAt = "pending_microtransfer_complete" /\ sellerAt' = "pending_microtransfer_confirm"
      \/ /\ p = "buyer" /\ sellerAt' = sellerAt
         /\ buyerAt = "pending_microtransfer_complete" /\ buyerAt' = "pending_microtransfer_confirm"
  BY Parties, TalkFacts DEF ScanBroadcast, UpdateState, sellerAt, buyerAt
<1>2. /\ UNCHANGED <<replies, waiting, inbox, conUp, contracts>> /\ p \in contracts /\ phase[p] = "scan"
      /\ \A q \in Node \ {p} : state'[q] = state[q]
  BY TalkFacts DEF ScanBroadcast, Scan, Fresh, UpdateState, factory
<1>3. SameLinesHeard /\ SameAnswers
  BY <1>2, SameQueues, SameInboxes
<1> USE <1>1, <1>2, <1>3, TalkParts DEF SameLinesHeard, SameAnswers
<1>5. SellerHears' /\ BuyerHears' /\ SellerAnswers' /\ BuyerAnswers'
  BY DEF SellerHears, BuyerHears, SellerAnswers, BuyerAnswers, BuyerFirst, Handshake,
         SellerTrading, BuyerTrading, CompleteStates
<1>6. Unrepeated'
  BY DEF Unrepeated
<1>7. InOrder'
  BY DEF InOrder
<1>8. Promised'
  BY DEF Promised, OnWay
<1>9. Pausing' /\ Opening'
  BY DEF Pausing, Opening, SellerFirst, BuyerFirst, Handshake
<1>10. \A q \in Node : Turn(q)'
  BY TurnsOn, TurnKept, TalkFacts DEF ScanBroadcast
<1> QED
  BY <1>5, <1>6, <1>7, <1>8, <1>9, <1>10 DEF Talk

-----------------------------------------------------------------------------
(* Answering: the handlers of the direct messages.                         *)

Answered1(p, said) ==
    \A q \in Node :
        /\ \A kind : LET new == q = p /\ kind = said IN
             /\ Answering(q, kind)' <=> Answering(q, kind) \/ new
             /\ AnsweringOnce(q, kind) /\ (new => ~Answering(q, kind)) => AnsweringOnce(q, kind)'
        /\ Held(q)' <=> Held(q)

LEMMA ReadOne ==
    ASSUME TInv, NEW p \in Node, NEW read, Receive(p, read), Consumed(p)
    PROVE  ReadOut(p, read)
BY Reading, TalkFacts DEF Receive

LEMMA AnsweredOne ==
    ASSUME TInv, NEW p \in Node, NEW m \in Message, Queue(p, <<m>>, FALSE), UNCHANGED waiting,
           NEW said, said = m.kind
    PROVE  Answered1(p, said)
<1>1. <<m>> \in Seq(Message) /\ TypeOK
  BY TalkFacts
<1>2. \A kind : (Says(<<m>>, kind) <=> kind = m.kind) /\ SaysOnce(<<m>>, kind)
  BY SaysShort
<1> QED
  BY <1>1, <1>2, Queueing DEF Answered1

LEMMA QueuedTurn ==
    ASSUME TInv, NEW p \in Node, phase[p] = "direct", UNCHANGED <<phase, waiting>>,
           NEW lines \in Seq(Message), NEW gated \in BOOLEAN, Queue(p, lines, gated),
           gated => ~Held(p)
    PROVE  \A q \in Node : Turn(q)'
<1> DEFINE reply == [lines |-> lines, gated |-> gated]
<1>1. replies \in [Node -> Seq(Reply)] /\ replies[p] \in Seq(Reply) /\ reply \in Reply /\ Turn(p)
  BY TalkFacts DEF TypeOK, Reply
<1>2. replies'[p] = Append(replies[p], reply) /\ \A q \in Node \ {p} : replies'[q] = replies[q]
  BY <1>1 DEF Queue
<1>3. reply.gated = gated
  OBVIOUS
<1> HIDE DEF reply
<1>4. HeldOnce(Append(replies[p], reply))
  BY <1>1, <1>3, AnswersAppend, HeldQueues DEF Turn
<1>5. waiting[p] = <<>>
  BY <1>1 DEF Turn
<1>6. Turn(p)'
  BY <1>1, <1>2, <1>4, <1>5 DEF Turn
<1>7. \A q \in Node \ {p} : Turn(q)'
  BY <1>2, TalkFacts DEF Turn
<1> QED
  BY <1>6, <1>7

LEMMA RecvReturnRefundSigTalk == ASSUME TInv, NEW p \in Node, RecvReturnRefundSig(p) PROVE Talk'
<1>1. ReadOut(p, "return_refund_sig")
  BY ReadOne DEF RecvReturnRefundSig
<1>2. /\ UNCHANGED <<replies, waiting, conUp, contracts, phase>>
      /\ \A q \in Node \ {p} : state'[q] = state[q]
  BY TalkFacts DEF RecvReturnRefundSig, UpdateState, loop
<1>3. \/ /\ p = "seller" /\ buyerAt' = buyerAt
         /\ sellerAt = "seller_sent_get_refund_sig" /\ sellerAt' = "pending_seller_return_refund_sig"
         /\ buyerAt \in {"pending_buyer_get_refund_sig", "buyer_sent_get_refund_sig"}
      \/ /\ p = "buyer" /\ sellerAt' = sellerAt
         /\ buyerAt = "buyer_sent_get_refund_sig" /\ buyerAt' = "pending_buyer_return_setup_tx"
         /\ sellerAt \in {"pending_seller_get_setup_tx", "seller_sent_get_setup_tx"}
  BY <1>1, <1>2, Parties, ReturnRefundSigMoves, TalkFacts, TalkParts
     DEF GInv, ReadOut, SellerHears, BuyerHears, sellerAt, buyerAt
<1>4. SameAnswers
  BY <1>2, SameQueues
<1> USE <1>1, <1>2, <1>3, <1>4, TalkParts DEF ReadOut, SameAnswers
<1>5. SellerHears' /\ BuyerHears'
  BY DEF SellerHears, BuyerHears, Unrepeated, Returns, Spoken, SellerTrading, BuyerTrading, BuyerFirst,
         Handshake, CompleteStates
<1>6. SellerAnswers' /\ BuyerAnswers'
  BY DEF SellerAnswers, BuyerAnswers, Unrepeated, Returns, SellerTrading, BuyerTrading, CompleteStates
<1>7. Unrepeated'
  BY DEF Unrepeated
<1>8. InOrder'
  BY DEF InOrder
<1>9. Promised'
  BY DEF Promised, OnWay
<1>10. Pausing' /\ Opening'
  BY DEF sellerAt, buyerAt, Pausing, Opening, SellerFirst, BuyerFirst, Handshake
<1>11. \A q \in Node : Turn(q)'
  BY Stays, TurnKept, TalkFacts
<1> QED
  BY <1>5, <1>6, <1>7, <1>8, <1>9, <1>10, <1>11 DEF Talk

LEMMA RecvReturnSetupTxTalk == ASSUME TInv, NEW p \in Node, RecvReturnSetupTx(p) PROVE Talk'
<1>1. ReadOut(p, "return_setup_tx")
  BY ReadOne DEF RecvReturnSetupTx
<1>2. /\ UNCHANGED <<replies, waiting, conUp, contracts, phase>>
      /\ \A q \in Node \ {p} : state'[q] = state[q]
  BY TalkFacts DEF RecvReturnSetupTx, UpdateState, loop
<1>3. \/ /\ p = "seller" /\ buyerAt' = buyerAt
         /\ sellerAt = "seller_sent_get_setup_tx" /\ sellerAt' = "pending_seller_return_setup_tx"
         /\ buyerAt \in {"pending_buyer_get_setup_tx", "buyer_sent_get_setup_tx"}
      \/ /\ p = "buyer" /\ sellerAt' = sellerAt
         /\ buyerAt = "buyer_sent_get_setup_tx" /\ buyerAt' = "buyer_accept_microtransfer"
         /\ sellerAt \in {"seller_initiate_microtransfer", "seller_accept_microtransfer"}
  BY <1>1, <1>2, Parties, ReturnSetupTxMoves, TalkFacts, TalkParts
     DEF GInv, ReadOut, SellerHears, BuyerHears, sellerAt, buyerAt
<1>4. SameAnswers
  BY <1>2, SameQueues
<1> USE <1>1, <1>2, <1>3, <1>4, TalkParts DEF ReadOut, SameAnswers
<1>5. SellerHears' /\ BuyerHears'
  BY DEF SellerHears, BuyerHears, Unrepeated, Returns, Spoken, SellerTrading, BuyerTrading, CompleteStates
<1>6. SellerAnswers' /\ BuyerAnswers'
  BY DEF SellerAnswers, BuyerAnswers, Unrepeated, Returns, SellerTrading, BuyerTrading, CompleteStates
<1>7. Unrepeated'
  BY DEF Unrepeated
<1>8. InOrder'
  BY DEF InOrder
<1>9. Promised'
  BY DEF Promised, OnWay
<1>10. Pausing' /\ Opening'
  BY DEF sellerAt, buyerAt, Pausing, Opening, SellerFirst, Handshake
<1>11. \A q \in Node : Turn(q)'
  BY Stays, TurnKept, TalkFacts
<1> QED
  BY <1>5, <1>6, <1>7, <1>8, <1>9, <1>10, <1>11 DEF Talk

LEMMA RecvGetSetupTxTalk == ASSUME TInv, NEW p \in Node, RecvGetSetupTx(p) PROVE Talk'
<1>1. ReadOut(p, "get_setup_tx")
  BY ReadOne DEF RecvGetSetupTx
<1>2. /\ UNCHANGED <<waiting, conUp, contracts, phase>> /\ phase[p] = "direct"
      /\ \A q \in Node \ {p} : state'[q] = state[q]
  BY TalkFacts DEF RecvGetSetupTx, Receive, UpdateState, factory
<1>3. \/ /\ p = "seller" /\ buyerAt' = buyerAt
         /\ sellerAt = "pending_seller_return_setup_tx" /\ sellerAt' = "seller_initiate_microtransfer"
         /\ buyerAt = "buyer_sent_get_setup_tx"
      \/ /\ p = "buyer" /\ sellerAt' = sellerAt
         /\ buyerAt = "pending_buyer_return_setup_tx" /\ buyerAt' = "pending_buyer_get_setup_tx"
         /\ sellerAt = "seller_sent_get_setup_tx"
  BY <1>1, <1>2, Parties, GetSetupTxMoves, TalkFacts, TalkParts
     DEF GInv, ReadOut, SellerHears, BuyerHears, sellerAt, buyerAt
<1>4. Queue(p, <<Msg("return_setup_tx")>>, FALSE) /\ <<Msg("return_setup_tx")>> \in Seq(Message)
      /\ Msg("return_setup_tx") \in Message /\ Msg("return_setup_tx").kind = "return_setup_tx"
  BY MsgType DEF RecvGetSetupTx, Kinds, Msg
<1>5. Answered1(p, "return_setup_tx")
  BY <1>2, <1>4, AnsweredOne
<1>12. \A q \in Node : Turn(q)'
  BY <1>2, <1>4, QueuedTurn
<1> USE <1>1, <1>2, <1>3, <1>5, TalkParts DEF ReadOut, Answered1
<1>6. SellerHears' /\ BuyerHears'
  BY DEF SellerHears, BuyerHears, Unrepeated, Spoken, SellerTrading, BuyerTrading, CompleteStates
<1>7. SellerAnswers' /\ BuyerAnswers'
  BY DEF SellerAnswers, BuyerAnswers, SellerTrading, BuyerTrading, CompleteStates
<1>8. Unrepeated'
  BY DEF Unrepeated, Returns, SellerAnswers, BuyerAnswers, SellerHears, BuyerHears
<1>9. InOrder'
  BY DEF InOrder
<1>10. Promised'
  BY DEF Promised, OnWay
<1>11. Pausing' /\ Opening'
  BY DEF sellerAt, buyerAt, Pausing, Opening, SellerFirst, BuyerFirst, Handshake
<1> QED
  BY <1>6, <1>7, <1>8, <1>9, <1>10, <1>11, <1>12 DEF Talk

(***************************************************************************)
(* parse_get_refund_sig: a party that has its setup TX confirmed answers.  *)
(***************************************************************************)
LEMMA AnsweredRefundSigTalk ==
    ASSUME TInv, NEW p \in Node, RecvGetRefundSig(p), p = "seller" \/ state[p] # "pending_contract"
    PROVE  Talk'
<1>1. ReadOut(p, "get_refund_sig")
  BY ReadOne DEF RecvGetRefundSig
<1>2. /\ UNCHANGED <<waiting, conUp, contracts, phase>> /\ phase[p] = "direct"
      /\ \A q \in Node \ {p} : state'[q] = state[q]
  BY TalkFacts DEF RecvGetRefundSig, Receive, UpdateState
<1>3. \/ /\ p = "seller" /\ buyerAt' = buyerAt
         /\ sellerAt = "pending_seller_return_refund_sig" /\ sellerAt' = "pending_seller_get_setup_tx"
         /\ buyerAt = "buyer_sent_get_refund_sig"
      \/ /\ p = "buyer" /\ sellerAt' = sellerAt
         /\ buyerAt = "pending_buyer_return_refund_sig" /\ buyerAt' = "pending_buyer_get_refund_sig"
         /\ sellerAt = "seller_sent_get_refund_sig" /\ ~Held("buyer")
  BY <1>1, <1>2, Parties, GetRefundSigMoves, TalkFacts, TalkParts
     DEF GInv, ReadOut, SellerHears, BuyerHears, sellerAt, buyerAt
<1>4. Queue(p, <<Msg("return_refund_sig")>>, FALSE) /\ <<Msg("return_refund_sig")>> \in Seq(Message)
      /\ Msg("return_refund_sig") \in Message /\ Msg("return_refund_sig").kind = "return_refund_sig"
  <2>1. p \in txids
    BY <1>3, TalkFacts DEF Local, Stored, ReadyStates, SellerStates, BuyerStates, sellerAt, buyerAt
  <2>2. state'[p] # "pending_buyer_setup_tx_confirm"
    BY <1>3 DEF sellerAt, buyerAt
  <2>3. Queue(p, <<Msg("return_refund_sig")>>, FALSE)
    <3>1. Queue(p, <<Msg("return_refund_sig")>>, state'[p] = "pending_buyer_setup_tx_confirm")
      BY <2>1 DEF RecvGetRefundSig
    <3>2. (state'[p] = "pending_buyer_setup_tx_confirm") = FALSE
      BY <2>2
    <3> QED
      BY <3>1, <3>2
  <2> QED
    BY <2>3, MsgType DEF Kinds, Msg
<1>5. Answered1(p, "return_refund_sig")
  BY <1>2, <1>4, AnsweredOne
<1>12. \A q \in Node : Turn(q)'
  BY <1>2, <1>4, QueuedTurn
<1> USE <1>1, <1>2, <1>3, <1>5, TalkParts DEF ReadOut, Answered1
<1>6. SellerHears' /\ BuyerHears'
  BY DEF SellerHears, BuyerHears, Unrepeated, Spoken, SellerTrading, BuyerTrading, CompleteStates
<1>7. SellerAnswers' /\ BuyerAnswers'
  BY DEF SellerAnswers, BuyerAnswers, SellerTrading, BuyerTrading, CompleteStates
<1>8. Unrepeated'
  BY DEF Unrepeated, Returns, SellerAnswers, BuyerAnswers, SellerHears, BuyerHears
<1>9. InOrder'
  BY DEF InOrder
<1>10. Promised'
  BY DEF Promised, OnWay
<1>11. Pausing' /\ Opening'
  BY DEF sellerAt, buyerAt, Pausing, Opening, SellerFirst, BuyerFirst, Handshake
<1> QED
  BY <1>6, <1>7, <1>8, <1>9, <1>10, <1>11, <1>12 DEF Talk

(***************************************************************************)
(* ... and a buyer whose setup TX is not confirmed holds its answer back,  *)
(* or has none if it does not know the setup txid yet.                     *)
(***************************************************************************)
LEMMA HeldRefundSigTalk ==
    ASSUME TInv, NEW p \in Node, RecvGetRefundSig(p), p = "buyer", state[p] = "pending_contract"
    PROVE  Talk'
<1>1. ReadOut(p, "get_refund_sig")
  BY ReadOne DEF RecvGetRefundSig
<1>2. /\ UNCHANGED <<waiting, conUp, contracts, phase>> /\ phase[p] = "direct"
      /\ \A q \in Node \ {p} : state'[q] = state[q]
  BY TalkFacts DEF RecvGetRefundSig, Receive, UpdateState
<1>3. /\ p = "buyer" /\ sellerAt' = sellerAt
      /\ buyerAt = "pending_contract" /\ buyerAt' = "pending_buyer_setup_tx_confirm"
      /\ sellerAt = "seller_sent_get_refund_sig" /\ ~Held("buyer")
  BY <1>1, <1>2, Parties, GetRefundSigMoves, TalkFacts, TalkParts
     DEF GInv, ReadOut, SellerHears, BuyerHears, sellerAt, buyerAt
<1>4. UNCHANGED replies \/ Queue(p, <<Msg("return_refund_sig")>>, TRUE)
  <2>1. (state'[p] = "pending_buyer_setup_tx_confirm") = TRUE
    BY <1>3 DEF buyerAt
  <2> QED
    BY <2>1 DEF RecvGetRefundSig
<1>5. <<Msg("return_refund_sig")>> \in Seq(Message)
  BY MsgType DEF Kinds
<1>6. \A q \in Node : /\ \A kind : /\ Answering(q, kind)' <=> Answering(q, kind)
                                   /\ AnsweringOnce(q, kind) => AnsweringOnce(q, kind)'
                      /\ Held(q)' => Held(q) \/ q = p
  <2>1. CASE UNCHANGED replies
    BY <1>2, <2>1, SameQueues DEF SameAnswers
  <2>2. CASE Queue(p, <<Msg("return_refund_sig")>>, TRUE)
    BY <1>2, <1>5, <2>2, Queueing, TalkFacts
  <2> QED
    BY <1>4, <2>1, <2>2
<1>7. \A q \in Node : Turn(q)'
  <2>1. CASE UNCHANGED replies
    BY <1>2, <2>1, Stays, TurnKept, TalkFacts
  <2>2. CASE Queue(p, <<Msg("return_refund_sig")>>, TRUE)
    BY <1>2, <1>3, <1>5, <2>2, QueuedTurn
  <2> QED
    BY <1>4, <2>1, <2>2
<1> USE <1>1, <1>2, <1>3, <1>6, TalkParts DEF ReadOut
<1>8. SellerHears' /\ BuyerHears'
  BY DEF SellerHears, BuyerHears, Unrepeated, Spoken, SellerTrading, BuyerTrading, CompleteStates
<1>9. SellerAnswers' /\ BuyerAnswers'
  BY DEF SellerAnswers, BuyerAnswers, SellerTrading, BuyerTrading, CompleteStates
<1>10. Unrepeated'
  BY DEF Unrepeated
<1>11. InOrder'
  BY DEF InOrder
<1>12. Promised'
  BY DEF Promised, OnWay
<1>13. Pausing' /\ Opening'
  BY DEF sellerAt, buyerAt, Pausing, Opening, SellerFirst, BuyerFirst, Handshake
<1> QED
  BY <1>7, <1>8, <1>9, <1>10, <1>11, <1>12, <1>13 DEF Talk

LEMMA RecvGetRefundSigTalk == ASSUME TInv, NEW p \in Node, RecvGetRefundSig(p) PROVE Talk'
BY Parties, AnsweredRefundSigTalk, HeldRefundSigTalk

(***************************************************************************)
(* A step of the handshake: of what it sends, nobody waits for anything.   *)
(***************************************************************************)
Awaited == Spoken \cup {"return_adjusted_refund"}

LEMMA HandshakeTalk ==
    ASSUME TInv, NEW p \in Node, conUp' = conUp, contracts \subseteq contracts',
           \A q \in Node \ {p} : state'[q] = state[q],
           state[p] \in Handshake \cup {"pending_contract"},
           state'[p] \in Handshake \/ (state'[p] = "pending_contract" /\ p \in contracts'),
           \A q \in Node, kind \in Awaited :
               /\ Line(q, kind)' <=> Line(q, kind)
               /\ LineOnce(q, kind) => LineOnce(q, kind)'
               /\ \A first \in Returns : Ahead(q, first, kind) => Ahead(q, first, kind)'
               /\ Answering(q, kind)' <=> Answering(q, kind)
               /\ AnsweringOnce(q, kind) => AnsweringOnce(q, kind)',
           \A q \in Node : Turn(q)' /\ (Held(q)' <=> Held(q))
    PROVE  Talk'
<1>1. \/ /\ p = "seller" /\ buyerAt' = buyerAt
         /\ sellerAt \in SellerFirst /\ sellerAt' \in Handshake \cup {"pending_contract"}
         /\ sellerAt \in Handshake \cup {"pending_contract"}
      \/ /\ p = "buyer" /\ sellerAt' = sellerAt
         /\ buyerAt \in Handshake \cup {"pending_contract"}
         /\ buyerAt' \in Handshake \cup {"pending_contract"}
  BY Parties DEF sellerAt, buyerAt, SellerFirst
<1>2. /\ Awaited = {"return_refund_sig", "return_setup_tx", "get_refund_sig", "get_setup_tx",
                    "return_adjusted_refund"}
      /\ Returns \subseteq Awaited /\ Spoken \subseteq Awaited
  BY DEF Awaited, Spoken, Returns
<1> USE <1>1, <1>2, TalkParts
<1>3. SellerHears' /\ BuyerHears'
  BY DEF SellerHears, BuyerHears, SellerFirst, BuyerFirst, Handshake, SellerTrading, BuyerTrading, CompleteStates
<1>4. SellerAnswers' /\ BuyerAnswers'
  BY DEF SellerAnswers, BuyerAnswers, Handshake, SellerTrading, BuyerTrading, CompleteStates
<1>5. Unrepeated'
  BY DEF Unrepeated
<1>6. InOrder'
  BY DEF InOrder, Returns, Handshake
<1>7. Promised'
  BY DEF Promised, OnWay, Handshake
<1>8. Pausing'
  BY DEF Pausing, Handshake
<1>9. Opening'
  BY DEF Opening, SellerFirst, BuyerFirst, sellerAt, buyerAt
<1> QED
  BY <1>3, <1>4, <1>5, <1>6, <1>7, <1>8, <1>9 DEF Talk

(***************************************************************************)
(* A handshake message is read, and its lines wait for the routing.        *)
(***************************************************************************)
LEMMA HandshakeAnswerTalk ==
    ASSUME TInv, NEW p \in Node, NEW read, read \notin Awaited, Receive(p, read), Consumed(p),
           UNCHANGED <<conUp, contracts, phase, waiting>>,
           UpdateState(p, "pending_handshake"), state[p] \in Handshake,
           NEW lines \in Seq(Message), Queue(p, lines, FALSE),
           \A kind \in Awaited : ~Says(lines, kind)
    PROVE  Talk'
<1>1. ReadOut(p, read) /\ TypeOK /\ phase[p] = "direct"
  BY ReadOne, TalkFacts DEF Receive
<1>2. \A q \in Node : Turn(q)'
  BY <1>1, QueuedTurn
<1>3. ASSUME NEW q \in Node
      PROVE  /\ Held(q)' <=> Held(q)
             /\ \A kind \in Awaited : /\ Answering(q, kind)' <=> Answering(q, kind)
                                      /\ AnsweringOnce(q, kind) => AnsweringOnce(q, kind)'
  BY <1>1, Queueing
<1>4. ASSUME NEW q \in Node, NEW kind \in Awaited
      PROVE  /\ Line(q, kind)' <=> Line(q, kind)
             /\ LineOnce(q, kind) => LineOnce(q, kind)'
             /\ \A first \in Returns : Ahead(q, first, kind) => Ahead(q, first, kind)'
  <2>1. \A first \in Returns : first # read
    BY DEF Awaited, Spoken
  <2> QED
    BY <1>1, <2>1 DEF ReadOut
<1>5. state'[p] \in Handshake /\ \A q \in Node \ {p} : state'[q] = state[q]
  BY TalkFacts DEF UpdateState, Handshake
<1> QED
  BY <1>2, <1>3, <1>4, <1>5, HandshakeTalk

LEMMA RecvMatchOrderTalk == ASSUME TInv, NEW p \in Node, RecvMatchOrder(p) PROVE Talk'
<1> DEFINE lines == <<Msg("calibrated_match_order"), Msg("shake_on_it")>>
<1>1. /\ Receive(p, "match_order") /\ Consumed(p) /\ UNCHANGED <<conUp, contracts, phase, waiting>>
      /\ UpdateState(p, "pending_handshake") /\ Queue(p, lines, FALSE)
  BY DEF RecvMatchOrder, factory
<1>2. state[p] \in Handshake
  BY DEF RecvMatchOrder, Accepts, Handshake
<1>3. lines \in Seq(Message) /\ \A kind \in Awaited : ~Says(lines, kind)
  <2>1. /\ Msg("calibrated_match_order") \in Message /\ Msg("shake_on_it") \in Message
        /\ Msg("calibrated_match_order").kind = "calibrated_match_order"
        /\ Msg("shake_on_it").kind = "shake_on_it"
    BY MsgType DEF Kinds, Msg
  <2> QED
    BY <2>1, SaysTwo, TwoLines DEF Awaited, Spoken, Returns
<1>4. "match_order" \notin Awaited
  BY DEF Awaited, Spoken, Returns
<1> QED
  BY <1>1, <1>2, <1>3, <1>4, HandshakeAnswerTalk

LEMMA RecvCalibratedMatchOrderTalk ==
    ASSUME TInv, NEW p \in Node, RecvCalibratedMatchOrder(p)
    PROVE  Talk'
<1> DEFINE lines == <<Msg("shake_on_it")>>
<1>1. /\ Receive(p, "calibrated_match_order") /\ Consumed(p) /\ UNCHANGED <<conUp, contracts, phase, waiting>>
      /\ UpdateState(p, "pending_handshake") /\ Queue(p, lines, FALSE)
  BY DEF RecvCalibratedMatchOrder, factory
<1>2. state[p] \in Handshake
  BY HandshakeMoves DEF RecvCalibratedMatchOrder, Accepts, Target, Handshake
<1>3. lines \in Seq(Message) /\ \A kind \in Awaited : ~Says(lines, kind)
  <2>1. Msg("shake_on_it") \in Message /\ Msg("shake_on_it").kind = "shake_on_it"
    BY MsgType DEF Kinds, Msg
  <2> QED
    BY <2>1, SaysShort DEF Awaited, Spoken, Returns
<1>4. "calibrated_match_order" \notin Awaited
  BY DEF Awaited, Spoken, Returns
<1> QED
  BY <1>1, <1>2, <1>3, <1>4, HandshakeAnswerTalk

LEMMA RecvShakeOnItTalk == ASSUME TInv, NEW p \in Node, RecvShakeOnIt(p) PROVE Talk'
<1>1. /\ inbox[p] # <<>> /\ Head(inbox[p]).kind = "shake_on_it"
      /\ inbox' = [Delivered(p, <<Msg("unparsed")>>) EXCEPT ![p] = Tail(inbox[p])]
      /\ UNCHANGED <<conUp, replies, waiting, phase>>
      /\ contracts' = contracts \cup {p} /\ UpdateState(p, "pending_contract")
  <2>1. Delivered(p, <<Msg("unparsed")>>)[p] = inbox[p]
    BY Parties, TalkFacts DEF Delivered, TypeOK
  <2> QED
    BY <2>1 DEF RecvShakeOnIt, Receive, loop
<1>2. state[p] \in Handshake \cup {"pending_contract"}
  BY HandshakeMoves DEF RecvShakeOnIt, Accepts, Target, Handshake
<1>3. state'[p] = "pending_contract" /\ \A q \in Node \ {p} : state'[q] = state[q]
  BY <1>1, TalkFacts DEF UpdateState
<1>4. ASSUME NEW q \in Node, NEW kind \in Awaited
      PROVE  /\ Line(q, kind)' <=> Line(q, kind)
             /\ LineOnce(q, kind) => LineOnce(q, kind)'
             /\ \A first \in Returns : Ahead(q, first, kind) => Ahead(q, first, kind)'
  <2>1. /\ inbox \in [Node -> Seq(Message)] /\ inbox[q] \in Seq(Message)
        /\ Delivered(p, <<Msg("unparsed")>>) \in [Node -> Seq(Message)]
        /\ Msg("unparsed") \in Message /\ <<Msg("unparsed")>> \in Seq(Message)
        /\ Msg("unparsed").kind = "unparsed"
    BY MsgType, DeliveredType, TalkFacts DEF TypeOK, Kinds, Msg
  <2>2. /\ kind # "shake_on_it" /\ kind # "unparsed"
        /\ \A first \in Returns : first # "shake_on_it"
    BY DEF Awaited, Spoken, Returns
  <2>3. CASE q = p
    <3>1. inbox'[q] = Tail(inbox[q]) /\ inbox[q] # <<>> /\ Head(inbox[q]).kind = "shake_on_it"
      BY <1>1, <2>1, <2>3
    <3> QED
      BY <2>1, <2>2, <3>1, SaysTail, PrecedesTail DEF Line, LineOnce, Ahead
  <2>4. CASE q # p
    <3>1. inbox'[q] = inbox[q] \/ inbox'[q] = inbox[q] \o <<Msg("unparsed")>>
      BY <1>1, <2>1, <2>4 DEF Delivered
    <3> DEFINE last == <<Msg("unparsed")>>
    <3>2. ~Says(last, kind) /\ SaysOnce(last, kind)
      BY <2>1, <2>2, SaysShort
    <3>3. last \in Seq(Message)
      BY <2>1
    <3> HIDE DEF last
    <3>4. CASE inbox'[q] = inbox[q] \o last
      BY <2>1, <3>2, <3>3, <3>4, SaysConcat, PrecedesConcat DEF Line, LineOnce, Ahead
    <3>5. CASE inbox'[q] = inbox[q]
      BY <3>5 DEF Line, LineOnce, Ahead
    <3> QED
      BY <3>1, <3>4, <3>5 DEF last
  <2> QED
    BY <2>3, <2>4
<1>5. \A q \in Node : Turn(q)'
  BY <1>1, Stays, TurnKept, TalkFacts
<1>6. SameAnswers
  BY <1>1, SameQueues
<1> QED
  BY <1>1, <1>2, <1>3, <1>4, <1>5, <1>6, HandshakeTalk DEF SameAnswers

(***************************************************************************)
(* parse_return_adjusted_refund: both trade, and go on trading.            *)
(***************************************************************************)
LEMMA RecvReturnAdjustedRefundTalk ==
    ASSUME TInv, NEW p \in Node, RecvReturnAdjustedRefund(p)
    PROVE  Talk'
<1>1. ReadOut(p, "return_adjusted_refund")
  BY ReadOne DEF RecvReturnAdjustedRefund
<1>2. /\ UNCHANGED <<waiting, conUp, contracts, phase>> /\ phase[p] = "direct"
      /\ \A q \in Node \ {p} : state'[q] = state[q]
      /\ state[p] \in AcceptStates /\ state'[p] \in AcceptStates \cup CompleteStates
      /\ state'[p] \in {state[p], "pending_microtransfer_complete"}
  BY TalkFacts DEF RecvReturnAdjustedRefund, Receive, Accepts, UpdateState, factory, AcceptStates, CompleteStates
<1>3. \/ /\ p = "seller" /\ buyerAt' = buyerAt /\ buyerAt \in BuyerTrading
         /\ sellerAt = "seller_accept_microtransfer" /\ sellerAt' \in SellerTrading
      \/ /\ p = "buyer" /\ sellerAt' = sellerAt /\ sellerAt \in SellerTrading
         /\ buyerAt = "buyer_accept_microtransfer" /\ buyerAt' \in BuyerTrading
  BY <1>1, <1>2, Parties, TalkFacts, TalkParts
     DEF ReadOut, SellerHears, BuyerHears, sellerAt, buyerAt, Local, Role, AcceptStates, SellerTrading,
         BuyerTrading, SellerStates, BuyerStates, CompleteStates
<1>4. PICK answer \in Message :
         /\ Queue(p, <<answer>>, FALSE)
         /\ answer.kind \in {"unparsed", "return_adjusted_refund"}
  <2>1. Msg("unparsed") \in Message /\ Msg("unparsed").kind = "unparsed"
    BY MsgType DEF Kinds, Msg
  <2>2. Offer(p) \in Message /\ Offer(p).kind = "return_adjusted_refund"
    BY AdjustType, TalkFacts DEF GInv, Offer
  <2> QED
    BY <2>1, <2>2 DEF RecvReturnAdjustedRefund
<1>5. PICK said : said = answer.kind
  OBVIOUS
<1>6. Answered1(p, said) /\ said \in {"unparsed", "return_adjusted_refund"}
  BY <1>2, <1>4, <1>5, AnsweredOne
<1>7. \A q \in Node : Turn(q)'
  <2>1. <<answer>> \in Seq(Message)
    OBVIOUS
  <2> QED
    BY <1>2, <1>4, <2>1, QueuedTurn
<1> USE <1>1, <1>2, <1>3, <1>6, TalkParts DEF ReadOut, Answered1
<1>8. SellerHears' /\ BuyerHears'
  BY DEF SellerHears, BuyerHears, BuyerFirst, Handshake, SellerTrading, BuyerTrading, CompleteStates
<1>9. SellerAnswers' /\ BuyerAnswers'
  BY DEF SellerAnswers, BuyerAnswers, SellerTrading, BuyerTrading, CompleteStates
<1>10. Unrepeated'
  BY DEF Unrepeated, Returns, Spoken
<1>11. InOrder'
  BY DEF InOrder, SellerTrading, BuyerTrading, CompleteStates
<1>12. Promised'
  BY DEF Promised, OnWay, SellerTrading, BuyerTrading, CompleteStates
<1>13. Pausing' /\ Opening'
  BY DEF sellerAt, buyerAt, Pausing, Opening, SellerFirst, Handshake, SellerTrading, BuyerTrading, CompleteStates
<1> QED
  BY <1>7, <1>8, <1>9, <1>10, <1>11, <1>12, <1>13 DEF Talk

-----------------------------------------------------------------------------
(* Routing.                                                                *)

(***************************************************************************)
(* What a queue loses with its head.                                       *)
(***************************************************************************)
LEMMA Unqueueing ==
    ASSUME TInv, NEW p \in Node, replies[p] # <<>>, UNCHANGED <<waiting, phase>>,
           replies' = [replies EXCEPT ![p] = Tail(@)], NEW reply, reply = Head(replies[p])
    PROVE  /\ reply \in Reply /\ reply.lines \in Seq(Message) /\ Due(p, reply)
           /\ \A kind : AnsweringOnce(p, kind) /\ Gives(reply, kind) =>
                SaysOnce(reply.lines, kind) /\ ~Answering(p, kind)'
           /\ \A kind : Gives(reply, kind) => Answering(p, kind)
           /\ \A q \in Node : \A kind :
                /\ Answering(q, kind)' => Answering(q, kind)
                /\ Answering(q, kind) => Answering(q, kind)' \/ (q = p /\ Gives(reply, kind))
                /\ AnsweringOnce(q, kind) => AnsweringOnce(q, kind)'
           /\ \A q \in Node : Turn(q)'
           /\ reply.gated => Held(p) /\ ~Held(p)'
           /\ \A q \in Node : ~(q = p /\ reply.gated) => (Held(q)' <=> Held(q))
<1>1. replies \in [Node -> Seq(Reply)] /\ replies[p] \in Seq(Reply) /\ Turn(p)
  BY TalkFacts DEF TypeOK
<1>2. replies'[p] = Tail(replies[p]) /\ \A q \in Node \ {p} : replies'[q] = replies[q]
  BY <1>1
<1>3. reply \in Reply /\ reply.lines \in Seq(Message) /\ Due(p, reply)
  <2>1. reply \in Reply /\ reply \in Range(replies[p])
    BY <1>1, HeadAndTail
  <2> QED
    BY <2>1, PartyFacts, TalkFacts DEF Reply
<1>4. ASSUME NEW kind
      PROVE  /\ Answering(p, kind) <=> Gives(reply, kind) \/ Answering(p, kind)'
             /\ AnsweringOnce(p, kind) =>
                  /\ AnsweringOnce(p, kind)'
                  /\ Gives(reply, kind) => SaysOnce(reply.lines, kind) /\ ~Answering(p, kind)'
  BY <1>1, <1>2, AnswersTail DEF Answering, AnsweringOnce
<1>5. ASSUME NEW kind, NEW q \in Node, q # p
      PROVE  /\ Answering(q, kind)' <=> Answering(q, kind)
             /\ AnsweringOnce(q, kind)' <=> AnsweringOnce(q, kind)
  BY <1>2, <1>5 DEF Answering, AnsweringOnce
<1>6. /\ NoneHeld(replies[p]) <=> ~reply.gated /\ NoneHeld(replies'[p])
      /\ AllHeld(replies[p]) => AllHeld(replies'[p])
      /\ HeldOnce(replies'[p]) /\ (reply.gated => NoneHeld(replies'[p]))
  BY <1>1, <1>2, HeldTail DEF Turn
<1>7. Turn(p)' /\ \A q \in Node \ {p} : Turn(q)'
  BY <1>1, <1>2, <1>6, TalkFacts DEF Turn
<1>8. \A q \in Node : Held(q)' <=> ~NoneHeld(replies'[q]) \/ ~NoneHeld(waiting'[q])
  BY DEF Held, NoneHeld
<1>9. reply.gated => Held(p) /\ ~Held(p)'
  <2>1. reply.gated => waiting[p] = <<>>
    BY <1>1, <1>6 DEF Turn
  <2> QED
    BY <1>6, <1>8, <2>1, HeldQueues, NothingQueued
<1>10. \A q \in Node : ~(q = p /\ reply.gated) => (Held(q)' <=> Held(q))
  BY <1>2, <1>3, <1>6, <1>8, HeldQueues DEF Reply
<1> QED
  BY <1>3, <1>4, <1>5, <1>7, <1>9, <1>10

LEMMA RouteAnswerTalk ==
    ASSUME TInv, NEW p \in Node, RouteReply(p), ~Head(replies[p]).gated
    PROVE  Talk'
<1>1. PICK reply : reply = Head(replies[p])
  OBVIOUS
<1>2. /\ inbox' = Delivered(p, reply.lines) /\ UNCHANGED <<state, conUp, contracts>>
      /\ sellerAt' = sellerAt /\ buyerAt' = buyerAt
  BY <1>1 DEF RouteReply, factory, sellerAt, buyerAt
<1>3. /\ reply.lines \in Seq(Message)
      /\ \A kind : AnsweringOnce(p, kind) /\ Gives(reply, kind) =>
           SaysOnce(reply.lines, kind) /\ ~Answering(p, kind)'
      /\ \A kind : Gives(reply, kind) => Answering(p, kind)
      /\ \A q \in Node : \A kind :
           /\ Answering(q, kind)' => Answering(q, kind)
           /\ Answering(q, kind) => Answering(q, kind)' \/ (q = p /\ Gives(reply, kind))
           /\ AnsweringOnce(q, kind) => AnsweringOnce(q, kind)'
      /\ \A q \in Node : Turn(q)' /\ (Held(q)' <=> Held(q))
  <2>1. /\ replies[p] # <<>> /\ UNCHANGED <<waiting, phase>> /\ ~reply.gated
        /\ replies' = [replies EXCEPT ![p] = Tail(@)]
    BY <1>1 DEF RouteReply
  <2> QED
    BY <1>1, <2>1, Unqueueing
<1>4. \A kind : Says(reply.lines, kind) <=> Gives(reply, kind)
  BY <1>1 DEF Gives
<1>5. \A q \in Node : \A kind :
         LET new == conUp /\ q = Other(p) /\ Gives(reply, kind) IN
         /\ Line(q, kind)' <=> Line(q, kind) \/ new
         /\ LineOnce(q, kind) /\ (new => SaysOnce(reply.lines, kind) /\ ~Line(q, kind)) => LineOnce(q, kind)'
         /\ \A first : Ahead(q, first, kind) /\ (new => Line(q, first)) => Ahead(q, first, kind)'
  BY <1>2, <1>3, <1>4, Sending, TalkFacts
<1>6. p = "buyer" \/ p = "seller"
  BY Parties
<1> USE <1>2, <1>3, <1>5, <1>6, TalkParts
<1>7. SellerHears' /\ BuyerHears'
  BY DEF SellerHears, BuyerHears, SellerAnswers, BuyerAnswers
<1>8. SellerAnswers' /\ BuyerAnswers'
  BY DEF SellerAnswers, BuyerAnswers
<1>9. Unrepeated'
  <2>1. ASSUME NEW q \in Node, NEW kind \in Spoken PROVE LineOnce(q, kind)'
    <3>1. Gives(reply, kind) => kind \in Returns
      BY DEF SellerAnswers, BuyerAnswers, Spoken
    <3> QED
      BY <3>1 DEF Unrepeated
  <2>2. ASSUME NEW q \in Node, NEW kind \in Returns
        PROVE  AnsweringOnce(q, kind)' /\ (Answering(q, kind)' => ~Line(Other(q), kind)')
    BY DEF Unrepeated
  <2> QED
    BY <2>1, <2>2 DEF Unrepeated
<1>10. InOrder'
  BY DEF InOrder, SellerAnswers, BuyerAnswers, BuyerTrading, CompleteStates
<1>11. Promised'
  BY DEF Promised, OnWay
<1>12. Pausing' /\ Opening'
  BY DEF Pausing, Opening
<1> QED
  BY <1>3, <1>7, <1>8, <1>9, <1>10, <1>11, <1>12 DEF Talk

(***************************************************************************)
(* status_check lets the answer that was held back go.                     *)
(***************************************************************************)
LEMMA ReleaseTalk ==
    ASSUME TInv, NEW p \in Node, RouteReply(p), Head(replies[p]).gated
    PROVE  Talk'
<1>1. PICK reply : reply = Head(replies[p])
  OBVIOUS
<1>2. /\ inbox' = Delivered(p, reply.lines) /\ UNCHANGED <<conUp, contracts>> /\ reply.gated
      /\ StatusCheck(p) /\ UpdateState(p, "pending_buyer_get_refund_sig")
  BY <1>1 DEF RouteReply, factory
<1>3. /\ Due(p, reply) /\ Held(p) /\ ~Held(p)' /\ (\A kind : ~Gives(reply, kind))
      /\ \A q \in Node : \A kind :
           /\ Answering(q, kind)' <=> Answering(q, kind)
           /\ AnsweringOnce(q, kind) => AnsweringOnce(q, kind)'
      /\ \A q \in Node : Turn(q)'
  <2>1. /\ replies[p] # <<>> /\ UNCHANGED <<waiting, phase>>
        /\ replies' = [replies EXCEPT ![p] = Tail(@)]
    BY <1>1 DEF RouteReply
  <2>2. \A kind : ~Gives(reply, kind)
    BY <1>2 DEF Gives
  <2> QED
    BY <1>1, <1>2, <2>1, <2>2, Unqueueing
<1>4. p = "buyer" /\ reply.lines = <<Msg("return_refund_sig")>>
  BY <1>2, <1>3 DEF Due, HeldBack
<1>5. /\ sellerAt' = sellerAt /\ sellerAt = "seller_sent_get_refund_sig"
      /\ buyerAt = "pending_buyer_return_refund_sig" /\ buyerAt' = "pending_buyer_get_refund_sig"
      /\ \A q \in Node \ {p} : state'[q] = state[q]
  BY <1>2, <1>3, <1>4, BuyerMoves, TalkFacts, TalkParts
     DEF Pausing, StatusCheck, UpdateState, sellerAt, buyerAt
<1>6. Said(p, "return_refund_sig")
  <2>1. Msg("return_refund_sig") \in Message /\ Msg("return_refund_sig").kind = "return_refund_sig"
    BY MsgType DEF Kinds, Msg
  <2> QED
    BY <1>2, <1>4, <2>1, SaidOne, TalkFacts
<1>10. InOrder'
  <2>1. Ahead("seller", "return_refund_sig", "get_refund_sig")'
    <3>1. Ahead("seller", "return_refund_sig", "get_refund_sig") /\ "seller" \in Node
      BY <1>5, TalkParts DEF InOrder
    <3> QED
      BY <1>6, <3>1 DEF Said
  <2> QED
    BY <1>5, <2>1 DEF InOrder
<1> USE <1>2, <1>3, <1>4, <1>5, <1>6, TalkParts DEF Said
<1>7. SellerHears' /\ BuyerHears'
  BY DEF SellerHears, BuyerHears, BuyerTrading, CompleteStates
<1>8. SellerAnswers' /\ BuyerAnswers'
  BY DEF SellerAnswers, BuyerAnswers, BuyerTrading, CompleteStates
<1>9. Unrepeated'
  BY DEF Unrepeated, Spoken, Returns, SellerHears, BuyerAnswers
<1>11. Promised'
  BY DEF Promised, OnWay
<1>12. Pausing' /\ Opening'
  BY DEF Pausing, Opening, SellerFirst, Handshake, sellerAt, buyerAt
<1> QED
  BY <1>3, <1>7, <1>8, <1>9, <1>10, <1>11, <1>12 DEF Talk
LEMMA RouteReplyTalk == ASSUME TInv, NEW p \in Node, RouteReply(p) PROVE Talk'
<1>1. CASE ~Head(replies[p]).gated
  BY <1>1, RouteAnswerTalk
<1>2. CASE Head(replies[p]).gated
  BY <1>2, ReleaseTalk
<1> QED
  BY <1>1, <1>2

(***************************************************************************)
(* A step that sends nothing, and moves nobody.                            *)
(***************************************************************************)
LEMMA SilentTalk ==
    ASSUME TInv, SameLinesHeard, SameAnswers, UNCHANGED <<state, conUp, contracts>>,
           \A q \in Node : Turn(q)'
    PROVE  Talk'
<1>1. sellerAt' = sellerAt /\ buyerAt' = buyerAt
  BY DEF sellerAt, buyerAt
<1> USE <1>1, TalkParts DEF SameLinesHeard, SameAnswers
<1>2. SellerHears' /\ BuyerHears' /\ SellerAnswers' /\ BuyerAnswers'
  BY DEF SellerHears, BuyerHears, SellerAnswers, BuyerAnswers
<1>3. Unrepeated' /\ InOrder'
  BY DEF Unrepeated, InOrder
<1>4. Promised' /\ Pausing' /\ Opening'
  BY DEF Promised, OnWay, Pausing, Opening
<1> QED
  BY <1>2, <1>3, <1>4 DEF Talk

LEMMA HoldReplyTalk == ASSUME TInv, NEW p \in Node, HoldReply(p) PROVE Talk'
<1>1. PICK reply : reply = Head(replies[p])
  OBVIOUS
<1>2. /\ replies \in [Node -> Seq(Reply)] /\ replies[p] \in Seq(Reply) /\ replies[p] # <<>>
      /\ waiting \in [Node -> Seq(Reply)] /\ phase[p] = "route" /\ reply.gated /\ Turn(p)
      /\ UNCHANGED <<state, inbox, phase, conUp, contracts>>
  BY <1>1, TalkFacts DEF HoldReply, TypeOK, factory
<1>3. /\ replies'[p] = Tail(replies[p]) /\ waiting'[p] = Append(waiting[p], reply)
      /\ \A q \in Node \ {p} : replies'[q] = replies[q] /\ waiting'[q] = waiting[q]
  BY <1>1, <1>2 DEF HoldReply
<1>4. /\ waiting[p] = <<>> /\ NoneHeld(replies'[p])
      /\ \A kind : /\ Answers(replies'[p], kind) <=> Answers(replies[p], kind)
                   /\ AnswersOnce(replies[p], kind) => AnswersOnce(replies'[p], kind)
  <2>1. ~NoneHeld(replies[p]) /\ NoneHeld(replies'[p])
    BY <1>1, <1>2, <1>3, HeldTail DEF Turn
  <2>2. ASSUME NEW kind
        PROVE  /\ Answers(replies'[p], kind) <=> Answers(replies[p], kind)
               /\ AnswersOnce(replies[p], kind) => AnswersOnce(replies'[p], kind)
    <3>1. ~Gives(reply, kind)
      BY <1>2 DEF Gives
    <3> QED
      BY <1>1, <1>2, <1>3, <3>1, AnswersTail
  <2> QED
    BY <1>2, <2>1, <2>2 DEF Turn
<1>5. /\ waiting'[p] = <<reply>> /\ Len(waiting'[p]) = 1
      /\ DOMAIN waiting'[p] = {1} /\ waiting'[p][1] = reply
  BY <1>2, <1>3, <1>4
<1>6. Turn(p)' /\ \A q \in Node \ {p} : Turn(q)'
  <2>1. AllHeld(waiting'[p])
    BY <1>2, <1>5 DEF AllHeld
  <2>2. HeldOnce(replies'[p])
    BY <1>4 DEF NoneHeld, HeldOnce
  <2> QED
    BY <1>2, <1>3, <1>4, <1>5, <2>1, <2>2, TalkFacts DEF Turn
<1>7. SameAnswers
  <2>1. \A q \in Node : \A kind : /\ Answering(q, kind)' <=> Answering(q, kind)
                                  /\ AnsweringOnce(q, kind) => AnsweringOnce(q, kind)'
    BY <1>3, <1>4 DEF Answering, AnsweringOnce
  <2>2. Held(p)' /\ Held(p)
    <3>1. ~NoneHeld(replies[p])
      BY <1>1, <1>2, HeldTail
    <3> QED
      BY <1>2, <1>5, <3>1, HeldQueues DEF Held
  <2>3. \A q \in Node \ {p} : Held(q)' <=> Held(q)
    BY <1>3 DEF Held
  <2> QED
    BY <2>1, <2>2, <2>3 DEF SameAnswers
<1> QED
  BY <1>2, <1>6, <1>7, SameInboxes, SilentTalk

LEMMA EndRouteTalk == ASSUME TInv, NEW p \in Node, EndRoute(p) PROVE Talk'
<1>1. /\ replies \in [Node -> Seq(Reply)] /\ waiting \in [Node -> Seq(Reply)] /\ Turn(p)
      /\ phase \in [Node -> Phases] /\ replies[p] = <<>> /\ UNCHANGED <<state, inbox, conUp, contracts>>
  BY TalkFacts DEF EndRoute, TypeOK, factory
<1>2. /\ replies'[p] = waiting[p] /\ waiting'[p] = <<>> /\ phase'[p] = "client"
      /\ \A q \in Node \ {p} :
           replies'[q] = replies[q] /\ waiting'[q] = waiting[q] /\ phase'[q] = phase[q]
  BY <1>1 DEF EndRoute, Goto
<1>3. AllHeld(replies'[p]) /\ HeldOnce(replies'[p])
  <2>1. waiting[p] \in Seq(Reply) /\ Len(waiting[p]) <= 1
    BY <1>1 DEF Turn
  <2>2. \A i, j \in DOMAIN waiting[p] : i = j
    BY <2>1
  <2> QED
    BY <1>1, <1>2, <2>2 DEF Turn, HeldOnce
<1>4. \A q \in Node : Turn(q)'
  <2>1. Turn(p)'
    BY <1>2, <1>3, NothingQueued DEF Turn
  <2>2. \A q \in Node \ {p} : Turn(q)'
    BY <1>2, TalkFacts DEF Turn
  <2> QED
    BY <2>1, <2>2
<1>5. SameAnswers
  <2>1. \A kind : ~Answers(replies'[p], kind)
    BY <1>3 DEF AllHeld, Answers, Gives
  <2>2. \A kind : AnswersOnce(replies'[p], kind)
    BY <2>1 DEF Answers, AnswersOnce
  <2>3. \A kind : ~Answers(replies[p], kind)
    BY <1>1, NothingQueued
  <2>4. Held(p)' <=> Held(p)
    BY <1>1, <1>2 DEF Held
  <2>5. \A q \in Node \ {p} : Held(q)' <=> Held(q)
    BY <1>2 DEF Held
  <2> QED
    BY <1>2, <2>1, <2>2, <2>3, <2>4, <2>5 DEF SameAnswers, Answering, AnsweringOnce
<1> QED
  BY <1>1, <1>4, <1>5, SameInboxes, SilentTalk

-----------------------------------------------------------------------------
(* The monitor's callbacks.                                                *)

LEMMA MonitorSetupTalk == ASSUME TInv, NEW p \in Node, MonitorSetup(p) PROVE Talk'
<1>1. /\ UNCHANGED <<replies, waiting, inbox, phase, conUp, contracts>>
      /\ \A q \in Node \ {p} : state'[q] = state[q]
  BY TalkFacts DEF MonitorSetup, UpdateState, factory, loop
<1>2. \/ sellerAt' = sellerAt /\ buyerAt' = buyerAt /\ state'[p] = state[p]
      \/ /\ p = "seller" /\ buyerAt' = buyerAt
         /\ sellerAt \in {"pending_contract", "pending_seller_get_refund_sig"}
         /\ sellerAt' = "pending_seller_get_refund_sig"
      \/ /\ p = "buyer" /\ sellerAt' = sellerAt
         /\ buyerAt \in {"pending_contract", "pending_buyer_setup_tx_confirm", "pending_buyer_return_refund_sig"}
         /\ buyerAt' = "pending_buyer_return_refund_sig"
  BY <1>1, MonitorSetupMoves, Parties, TalkFacts DEF GInv, sellerAt, buyerAt
<1>3. SameLinesHeard /\ SameAnswers
  BY <1>1, SameQueues, SameInboxes
<1> USE <1>1, <1>2, <1>3, TalkParts DEF SameLinesHeard, SameAnswers
<1>4. SellerHears' /\ BuyerHears' /\ SellerAnswers' /\ BuyerAnswers'
  BY DEF SellerHears, BuyerHears, SellerAnswers, BuyerAnswers, BuyerFirst, Handshake,
         SellerTrading, BuyerTrading, CompleteStates
<1>5. Unrepeated'
  BY DEF Unrepeated
<1>6. InOrder'
  BY DEF InOrder
<1>7. Promised'
  BY DEF Promised, OnWay
<1>8. Pausing' /\ Opening'
  BY DEF Pausing, Opening, SellerFirst, BuyerFirst, Handshake, sellerAt, buyerAt
<1>9. \A q \in Node : Turn(q)'
  BY Stays, TurnKept, TalkFacts
<1> QED
  BY <1>4, <1>5, <1>6, <1>7, <1>8, <1>9 DEF Talk

LEMMA MonitorPayoutTalk == ASSUME TInv, NEW p \in Node, MonitorPayout(p) PROVE Talk'
<1>1. /\ UNCHANGED <<replies, waiting, inbox, phase, conUp, contracts>>
      /\ \A q \in Node \ {p} : state'[q] = state[q]
      /\ state[p] \in CompleteStates /\ state'[p] = "microtransfer_complete"
  BY TalkFacts DEF MonitorPayout, UpdateState, factory, loop, Local, Stored
<1>2. \/ /\ p = "seller" /\ buyerAt' = buyerAt
         /\ sellerAt \in CompleteStates /\ sellerAt' = "microtransfer_complete"
      \/ /\ p = "buyer" /\ sellerAt' = sellerAt
         /\ buyerAt \in CompleteStates /\ buyerAt' = "microtransfer_complete"
  BY <1>1, Parties DEF sellerAt, buyerAt
<1>3. SameLinesHeard /\ SameAnswers
  BY <1>1, SameQueues, SameInboxes
<1> USE <1>1, <1>2, <1>3, TalkParts DEF SameLinesHeard, SameAnswers
<1>4. SellerHears' /\ BuyerHears' /\ SellerAnswers' /\ BuyerAnswers'
  BY DEF SellerHears, BuyerHears, SellerAnswers, BuyerAnswers, BuyerFirst, Handshake,
         SellerTrading, BuyerTrading, CompleteStates
<1>5. Unrepeated'
  BY DEF Unrepeated
<1>6. InOrder'
  BY DEF InOrder, CompleteStates
<1>7. Promised'
  BY DEF Promised, OnWay, CompleteStates
<1>8. Pausing' /\ Opening'
  BY DEF Pausing, Opening, SellerFirst, BuyerFirst, Handshake, CompleteStates, sellerAt, buyerAt
<1>9. \A q \in Node : Turn(q)'
  BY Stays, TurnKept, TalkFacts
<1> QED
  BY <1>4, <1>5, <1>6, <1>7, <1>8, <1>9 DEF Talk

-----------------------------------------------------------------------------
(* The conversation of every run.                                          *)

LEMMA InitTalk == ASSUME Init PROVE Talk
<1>1. /\ sellerAt = "None" /\ buyerAt = "pending_calibration" /\ conUp /\ contracts = {}
      /\ inbox["buyer"] = <<>> /\ inbox["seller"] = <<Msg("match_order")>>
      /\ \A p \in Node : replies[p] = <<>> /\ waiting[p] = <<>> /\ phase[p] = "scan"
                         /\ state[p] \in Handshake
  BY DEF Init, sellerAt, buyerAt, Node, Handshake
<1>2. /\ \A kind : ~Line("buyer", kind)
      /\ \A kind : kind # "match_order" => ~Line("seller", kind)
  <2>1. Msg("match_order") \in Message /\ Msg("match_order").kind = "match_order"
    BY MsgType DEF Kinds, Msg
  <2> QED
    BY <1>1, <2>1, SaysShort, NothingLeft DEF Line
<1>3. \A p \in Node : /\ \A kind : ~Answering(p, kind)
                      /\ ~Held(p)
  BY <1>1, NothingQueued DEF Answering, Held
<1>4. SellerHears /\ BuyerHears /\ SellerAnswers /\ BuyerAnswers
  BY <1>2, <1>3, Parties DEF SellerHears, BuyerHears, SellerAnswers, BuyerAnswers
<1>5. Unrepeated
  <2>1. \A p \in Node, kind \in Spoken : ~Line(p, kind)
    BY <1>2, Parties DEF Spoken, Returns
  <2> QED
    BY <1>3, <2>1, Absent DEF Unrepeated
<1>6. InOrder /\ Promised /\ Pausing /\ Opening
  BY <1>1, <1>3, Parties DEF InOrder, Promised, Pausing, Opening, BuyerFirst, Handshake
<1>7. \A p \in Node : Turn(p)
  <2>1. AllHeld(<<>>) /\ NoneHeld(<<>>) /\ HeldOnce(<<>>)
    BY NothingQueued
  <2> QED
    BY <1>1, <2>1 DEF Turn
<1> QED
  BY <1>4, <1>5, <1>6, <1>7 DEF Talk

LEMMA NextTalk == ASSUME TInv, Next PROVE Talk'
<1>1. ASSUME NEW p \in Node, ScanStep(p) PROVE Talk'
  <2>1. ASSUME ScanCrash(p) PROVE Talk'
    BY <2>1, CrashedTalk DEF ScanCrash, Scan, factory
  <2> QED
    BY <1>1, <2>1, TurnsTalk, ScanGetRefundSigTalk, ScanGetSetupTxTalk, ScanInitiateTalk, ScanBroadcastTalk
       DEF ScanStep
<1>2. ASSUME NEW p \in Node, Recv(p) PROVE Talk'
  BY <1>2, RecvDroppedTalk, RecvMatchOrderTalk, RecvCalibratedMatchOrderTalk, RecvShakeOnItTalk,
     RecvShakeOnItFailsTalk, RecvGetRefundSigTalk, RecvReturnRefundSigTalk, RecvGetSetupTxTalk,
     RecvReturnSetupTxTalk, RecvReturnAdjustedRefundTalk DEF Recv
<1>3. ASSUME NEW p \in Node, RouteStep(p) \/ MonitorStep(p) PROVE Talk'
  BY <1>3, RouteReplyTalk, HoldReplyTalk, EndRouteTalk, MonitorSetupTalk, MonitorPayoutTalk
     DEF RouteStep, MonitorStep
<1>4. ASSUME NEW p \in Node, Loop(p) PROVE Talk'
  BY <1>1, <1>2, <1>3, <1>4, TurnsTalk, OutsideTalk DEF Loop
<1>5. ASSUME NEW p \in Node, Crash(p) PROVE Talk'
  BY <1>5, CrashedTalk DEF Crash, factory, loop
<1>6. ASSUME ServerMatch PROVE Talk'
  BY <1>6, Parties, OutsideTalk
<1> QED
  BY <1>4, <1>5, <1>6, OutsideTalk, DisconnectTalk DEF Next

LEMMA ConversationInvariant == Spec => []TInv
<1>1. Talk /\ GInv /\ [Next]_vars => Talk'
  BY NextTalk, OutsideTalk, Parties DEF TInv
<1>2. Init => Talk
  BY InitTalk
<1> QED
  BY <1>1, <1>2, CommitmentInvariant, PTL DEF Spec, TInv

(***************************************************************************)
(* In every run of every match, whatever the sizes and whatever is lost, a *)
(* party that reads return_refund_sig, get_setup_tx, return_setup_tx, or   *)
(* the second get_refund_sig, is in the state for it, and a payment finds  *)
(* its receiver trading or done: state_machine() of match_state.py never   *)
(* refuses an answer the peer will not send again.                         *)
(***************************************************************************)
THEOREM AnswersNeverDropped == Spec => []AnswersAccepted
<1>1. TInv => AnswersAccepted
  <2> SUFFICES ASSUME TInv, NEW p \in Node, inbox[p] # <<>>
               PROVE  LET kind == Head(inbox[p]).kind IN
                      /\ kind \in {"return_refund_sig", "get_setup_tx", "return_setup_tx"} => Accepts(p, kind)
                      /\ kind = "get_refund_sig" /\ p = "seller" => Accepts(p, kind)
                      /\ kind = "return_adjusted_refund" => Accepts(p, kind) \/ state[p] \in CompleteStates
    BY DEF AnswersAccepted
  <2> QED
    BY ReadAtLast
<1> QED
  BY <1>1, ConversationInvariant, PTL

-----------------------------------------------------------------------------
(***************************************************************************)
(* The trading phase.  A payment is on its way from the handler that signs *)
(* it to the one that reads it, and there is one at most: it pays all that *)
(* its sender has signed, and while it is on its way the books of the two  *)
(* parties differ by the one chunk it brings.  That is the invariant       *)
(* Exchange; with it a step of the protocol is a step of Microtransfer (an *)
(* initiation, a payment taken or dropped, a broken connection) or changes *)
(* nothing that Microtransfer sees.                                        *)
(***************************************************************************)
payment == "return_adjusted_refund"

(***************************************************************************)
(* A payment to p is a line of its inbox or an answer of its peer's; there *)
(* is one, and the two parties are never paid at the same time.            *)
(***************************************************************************)
OnePayment ==
    /\ \A p \in Node :
          /\ LineOnce(p, payment) /\ AnsweringOnce(p, payment)
          /\ ~(Line(p, payment) /\ Answering(Other(p), payment))
    /\ ~(OnWay("buyer", payment) /\ OnWay("seller", payment))

(***************************************************************************)
(* It pays all that the peer has signed.                                   *)
(***************************************************************************)
Newest(p, m) == IsOffer(m) => m.amount = sent[Other(p)]

(***************************************************************************)
(* An answer that is a payment is nothing else.                            *)
(***************************************************************************)
Plain(reply) ==
    reply.lines # <<>> /\ \A i \in DOMAIN reply.lines : i # 1 => ~IsOffer(reply.lines[i])

Payments ==
    \A p \in Node :
        /\ \A m \in Range(inbox[p]) : Newest(p, m)
        /\ \A reply \in Range(replies[p]) :
              Plain(reply) /\ \A m \in Range(reply.lines) : Newest(Other(p), m)

(***************************************************************************)
(* While p is about to be paid: the peer has counted what p has sent, p has*)
(* counted all but the last chunk of what the peer has sent, and the       *)
(* payment is not of nothing, which is how the handler tells the seller's  *)
(* first call.  The buyer never pays first.                                *)
(***************************************************************************)
Books ==
    /\ \A p \in Node : OnWay(p, payment) =>
          /\ sent[p] = recv[Other(p)]
          /\ sent[Other(p)] = recv[p] + RecvChunk(p)
          /\ sent[Other(p)] > 0
    /\ sent["buyer"] > 0 => sellerAt \in SellerTrading

Exchange == OnePayment /\ Payments /\ Books

EInv == TInv /\ Exchange

-----------------------------------------------------------------------------
(***************************************************************************)
(* The refinement mapping's Offers, when there is one payment at most.     *)
(***************************************************************************)
LEMMA NoOffer ==
    ASSUME NEW lines, \A i \in DOMAIN lines : ~IsOffer(lines[i])
    PROVE  OfferAmounts(lines) = <<>>
<1> DEFINE places == {i \in DOMAIN lines : IsOffer(lines[i])}
           nth(n) == CHOOSE i \in places : Cardinality({j \in places : j <= i}) = n
<1>1. OfferAmounts(lines) = [n \in 1 .. Cardinality(places) |-> lines[nth(n)].amount]
  BY DEF OfferAmounts
<1>2. places = {}
  OBVIOUS
<1> HIDE DEF places, nth
<1>3. Cardinality(places) = 0
  BY <1>2, FS_EmptySet
<1> QED
  BY <1>1, <1>3

LEMMA SingleOffer ==
    ASSUME NEW lines, NEW i \in DOMAIN lines, i \in Int, IsOffer(lines[i]),
           \A j \in DOMAIN lines : IsOffer(lines[j]) => j = i
    PROVE  OfferAmounts(lines) = <<lines[i].amount>>
<1> DEFINE places == {j \in DOMAIN lines : IsOffer(lines[j])}
           nth(n) == CHOOSE k \in places : Cardinality({j \in places : j <= k}) = n
<1>1. OfferAmounts(lines) = [n \in 1 .. Cardinality(places) |-> lines[nth(n)].amount]
  BY DEF OfferAmounts
<1>2. places = {i} /\ {j \in places : j <= i} = {i}
  OBVIOUS
<1> HIDE DEF places
<1>3. Cardinality(places) = 1 /\ Cardinality({j \in places : j <= i}) = 1
  BY <1>2, FS_Singleton
<1>4. nth(1) = i
  BY <1>2, <1>3
<1> HIDE DEF nth
<1>5. OfferAmounts(lines) = [n \in 1 .. 1 |-> lines[nth(n)].amount]
  BY <1>1, <1>3
<1> QED
  BY <1>4, <1>5

Pending(p) == Line(p, payment) \/ (conUp /\ Answering(Other(p), payment))

(***************************************************************************)
(* What the replies of q to its peer begin with.                           *)
(***************************************************************************)
Firsts(q) == [i \in DOMAIN replies[q] |-> Head(replies[q][i].lines)]

LEMMA LineOffers ==
    ASSUME EInv, NEW p \in Node
    PROVE  OfferAmounts(inbox[p]) = IF Line(p, payment) THEN <<sent[Other(p)]>> ELSE <<>>
<1>1. inbox[p] \in Seq(Message)
  BY TalkFacts DEF EInv
<1>2. CASE Line(p, payment)
  <2>1. PICK i \in DOMAIN inbox[p] : inbox[p][i].kind = payment
    BY <1>2 DEF Line, Says
  <2>2. i \in Int /\ IsOffer(inbox[p][i])
    BY <1>1, <2>1 DEF IsOffer, payment
  <2>3. \A j \in DOMAIN inbox[p] : IsOffer(inbox[p][j]) => j = i
    BY <2>1 DEF EInv, Exchange, OnePayment, LineOnce, SaysOnce, IsOffer, payment
  <2>4. inbox[p][i].amount = sent[Other(p)]
    BY <2>1, <2>2 DEF EInv, Exchange, Payments, Newest, Range
  <2> QED
    BY <1>2, <2>1, <2>2, <2>3, <2>4, SingleOffer
<1>3. CASE ~Line(p, payment)
  <2>1. \A i \in DOMAIN inbox[p] : ~IsOffer(inbox[p][i])
    BY <1>3 DEF Line, Says, IsOffer, payment
  <2> QED
    BY <1>3, <2>1, NoOffer
<1> QED
  BY <1>2, <1>3

LEMMA FirstOf ==
    ASSUME EInv, NEW q \in Node, NEW i \in DOMAIN replies[q]
    PROVE  /\ i \in Int /\ DOMAIN Firsts(q) = DOMAIN replies[q]
           /\ replies[q][i] \in Range(replies[q])
           /\ Firsts(q)[i] \in Range(replies[q][i].lines)
           /\ IsOffer(Firsts(q)[i]) <=> Gives(replies[q][i], payment)
<1>1. replies[q] \in Seq(Reply)
  BY TalkFacts DEF EInv
<1>2. PICK reply \in Reply : reply = replies[q][i]
  BY <1>1
<1>3. /\ reply \in Range(replies[q]) /\ i \in Int /\ DOMAIN Firsts(q) = DOMAIN replies[q]
      /\ Firsts(q)[i] = Head(reply.lines)
  BY <1>1, <1>2 DEF Range, Firsts
<1>4. Plain(reply) /\ Due(q, reply) /\ reply.lines \in Seq(Message) /\ reply.gated \in BOOLEAN
  BY <1>2, <1>3, PartyFacts, TalkFacts DEF EInv, Exchange, Payments, Reply
<1>5. Head(reply.lines) = reply.lines[1] /\ 1 \in DOMAIN reply.lines
  BY <1>4 DEF Plain
<1>6. Head(reply.lines) \in Range(reply.lines)
  BY <1>5 DEF Range
<1>7. Says(reply.lines, payment) <=> IsOffer(Head(reply.lines))
  BY <1>4, <1>5 DEF Says, Plain, IsOffer, payment
<1>8. reply.gated => ~IsOffer(Head(reply.lines))
  BY <1>4, <1>5 DEF Due, HeldBack, Msg, IsOffer
<1> QED
  BY <1>2, <1>3, <1>6, <1>7, <1>8 DEF Gives

LEMMA AnswerOffers ==
    ASSUME EInv, NEW q \in Node
    PROVE  OfferAmounts(Firsts(q)) = IF Answering(q, payment) THEN <<sent[q]>> ELSE <<>>
<1>1. CASE Answering(q, payment)
  <2>1. PICK i \in DOMAIN replies[q] : Gives(replies[q][i], payment)
    BY <1>1 DEF Answering, Answers
  <2>2. i \in Int /\ i \in DOMAIN Firsts(q) /\ IsOffer(Firsts(q)[i])
    BY <2>1, FirstOf
  <2>3. ASSUME NEW j \in DOMAIN Firsts(q), IsOffer(Firsts(q)[j]) PROVE j = i
    <3>1. j \in DOMAIN replies[q] /\ Gives(replies[q][j], payment)
      BY <2>1, <2>3, FirstOf
    <3> QED
      BY <2>1, <3>1 DEF EInv, Exchange, OnePayment, AnsweringOnce, AnswersOnce
  <2>4. Firsts(q)[i].amount = sent[q]
    <3>1. /\ replies[q][i] \in Range(replies[q]) /\ Firsts(q)[i] \in Range(replies[q][i].lines)
          /\ Other(Other(q)) = q
      BY FirstOf DEF Other, Node
    <3> QED
      BY <2>2, <3>1 DEF EInv, Exchange, Payments, Newest
  <2> QED
    BY <1>1, <2>2, <2>3, <2>4, SingleOffer
<1>2. CASE ~Answering(q, payment)
  <2>1. \A i \in DOMAIN Firsts(q) : ~IsOffer(Firsts(q)[i])
    BY <1>2, FirstOf DEF Answering, Answers, Firsts
  <2> QED
    BY <1>2, <2>1, NoOffer
<1> QED
  BY <1>1, <1>2

OffersOf(p) == IF Pending(p) THEN <<sent[Other(p)]>> ELSE <<>>

OffersAre == \A p \in Node : Offers(p) = OffersOf(p)

LEMMA OffersNow == EInv => OffersAre
<1> SUFFICES ASSUME EInv, NEW p \in Node PROVE Offers(p) = OffersOf(p)
  BY DEF OffersAre
<1>1. Other(p) \in Node
  BY Parties
<1>2. Offers(p) = OfferAmounts(inbox[p]) \o IF conUp THEN OfferAmounts(Firsts(Other(p))) ELSE <<>>
  BY DEF Offers, Firsts
<1>3. ~(Line(p, payment) /\ Answering(Other(p), payment))
  BY DEF EInv, Exchange, OnePayment
<1>4. \A x : <<x>> \o <<>> = <<x>> /\ <<>> \o <<x>> = <<x>> /\ <<>> \o <<>> = <<>>
  OBVIOUS
<1> QED
  BY <1>1, <1>2, <1>3, <1>4, LineOffers, AnswerOffers DEF OffersOf, Pending

LEMMA OffersNext == EInv' => OffersAre'
BY OffersNow, PTL

-----------------------------------------------------------------------------
(***************************************************************************)
(* Steps that are no business of Microtransfer's: nobody begins or ends to *)
(* trade, and what is read, queued and sent is no payment.                 *)
(***************************************************************************)
ModesStay == \A q \in Node : Mode(q)' = Mode(q)

CalmLines ==
    \A q \in Node :
        /\ Line(q, payment)' <=> Line(q, payment)
        /\ LineOnce(q, payment) => LineOnce(q, payment)'
        /\ \A m \in Range(inbox'[q]) : m \in Range(inbox[q]) \/ ~IsOffer(m)

Silence(reply) == reply.lines # <<>> /\ \A m \in Range(reply.lines) : ~IsOffer(m)

CalmAnswers ==
    \A q \in Node :
        /\ Answering(q, payment)' <=> Answering(q, payment)
        /\ AnsweringOnce(q, payment) => AnsweringOnce(q, payment)'
        /\ \A reply \in Range(replies'[q]) : reply \in Range(replies[q]) \/ Silence(reply)

Calm == UNCHANGED <<trade, conUp>> /\ ModesStay /\ CalmLines /\ CalmAnswers

(***************************************************************************)
(* While nobody signs, a payment stays as good as it was.                  *)
(***************************************************************************)
LEMMA SamePayments ==
    ASSUME EInv, UNCHANGED trade,
           \A q \in Node : \A m \in Range(inbox'[q]) : m \in Range(inbox[q]) \/ Newest(q, m),
           \A q \in Node : \A reply \in Range(replies'[q]) :
               reply \in Range(replies[q]) \/ Silence(reply)
    PROVE  Payments'
<1>1. UNCHANGED sent
  BY DEF trade
<1>2. ASSUME NEW p \in Node, NEW m \in Range(inbox'[p]) PROVE Newest(p, m)'
  BY <1>1, <1>2 DEF EInv, Exchange, Payments, Newest
<1>3. ASSUME NEW p \in Node, NEW reply \in Range(replies'[p])
      PROVE  Plain(reply) /\ \A m \in Range(reply.lines) : Newest(Other(p), m)'
  <2>1. CASE reply \in Range(replies[p])
    BY <1>1, <2>1 DEF EInv, Exchange, Payments, Newest
  <2>2. CASE Silence(reply)
    BY <2>2 DEF Silence, Plain, Newest, Range
  <2> QED
    BY <1>3, <2>1, <2>2
<1> QED
  BY <1>2, <1>3 DEF Payments, Plain, IsOffer

LEMMA SameBooks ==
    ASSUME EInv, UNCHANGED trade, ModesStay, \A p \in Node : OnWay(p, payment)' => OnWay(p, payment)
    PROVE  Books'
<1>1. UNCHANGED <<sent, recv>> /\ \A p \in Node : RecvChunk(p)' = RecvChunk(p)
  BY DEF trade, RecvChunk, Download
<1>2. sellerAt' \in SellerTrading <=> sellerAt \in SellerTrading
  <2>1. Mode("seller")' = Mode("seller")
    BY Parties DEF ModesStay
  <2> QED
    BY <2>1 DEF sellerAt, SellerTrading, Mode
<1> QED
  BY <1>1, <1>2 DEF EInv, Exchange, Books

LEMMA CalmExchange == ASSUME EInv, Calm PROVE Exchange'
<1>1. OnePayment'
  BY Parties DEF EInv, Exchange, OnePayment, Calm, CalmLines, CalmAnswers, OnWay
<1>2. Payments'
  BY SamePayments DEF Calm, CalmLines, CalmAnswers, Newest
<1>3. \A p \in Node : OnWay(p, payment)' => OnWay(p, payment)
  BY Parties DEF Calm, CalmLines, CalmAnswers, OnWay
<1> QED
  BY <1>1, <1>2, <1>3, SameBooks DEF Calm, Exchange

(***************************************************************************)
(* What Microtransfer sees.                                                *)
(***************************************************************************)
LEMMA Stutters ==
    ASSUME EInv, EInv', UNCHANGED <<trade, conUp>>, ModesStay,
           \A q \in Node : Pending(q)' <=> Pending(q)
    PROVE  UNCHANGED Micro!vars
<1>1. \A p \in Node : Offers(p)' = Offers(p)
  <2>1. \A p \in Node : OffersOf(p)' = OffersOf(p)
    BY DEF OffersOf, trade
  <2> QED
    BY <2>1, OffersNow, OffersNext DEF OffersAre
<1> QED
  BY <1>1 DEF Micro!vars, trade, ModesStay

LEMMA CalmStutters == ASSUME EInv, EInv', Calm PROVE UNCHANGED Micro!vars
<1>1. \A p \in Node : Pending(p)' <=> Pending(p)
  BY Parties DEF Pending, Calm, CalmLines, CalmAnswers
<1> QED
  BY <1>1, Stutters DEF Calm

LEMMA StillLines == ASSUME UNCHANGED inbox PROVE CalmLines
BY DEF CalmLines, Line, LineOnce

LEMMA StillAnswers == ASSUME UNCHANGED replies PROVE CalmAnswers
BY DEF CalmAnswers, Answering, AnsweringOnce

LEMMA Message1 ==
    ASSUME NEW kind \in Kinds, kind # payment
    PROVE  <<Msg(kind)>> \in Seq(Message) /\ Silence([lines |-> <<Msg(kind)>>, gated |-> FALSE])
           /\ Silence([lines |-> <<Msg(kind)>>, gated |-> TRUE])
           /\ \A m \in Range(<<Msg(kind)>>) : ~IsOffer(m)
<1>1. ~IsOffer(Msg(kind)) /\ Range(<<Msg(kind)>>) = {Msg(kind)}
  BY OfShort DEF IsOffer, Msg, payment
<1> QED
  BY <1>1, MsgType DEF Silence

LEMMA ReadCalm ==
    ASSUME TInv, NEW p \in Node, NEW read, read # payment, Receive(p, read), Consumed(p)
    PROVE  CalmLines
<1>1. ReadOut(p, read)
  BY ReadOne
<1>2. \A q \in Node : Range(inbox'[q]) \subseteq Range(inbox[q])
  BY ConsumedLines, TalkFacts DEF Receive
<1> QED
  BY <1>1, <1>2 DEF CalmLines, ReadOut

LEMMA SentCalm ==
    ASSUME TInv, NEW p \in Node, NEW lines \in Seq(Message), inbox' = Delivered(p, lines),
           \A m \in Range(lines) : ~IsOffer(m)
    PROVE  CalmLines
<1>1. ~Says(lines, payment)
  BY DEF Says, Range, IsOffer, payment
<1>2. \A q \in Node : \A m \in Range(inbox'[q]) : m \in Range(inbox[q]) \/ ~IsOffer(m)
  BY DeliveredLines, TalkFacts
<1> QED
  BY <1>1, <1>2, Sending, TalkFacts DEF CalmLines

LEMMA SaidCalm ==
    ASSUME TInv, NEW p \in Node, NEW kind \in Kinds, kind # payment,
           inbox' = Delivered(p, <<Msg(kind)>>)
    PROVE  CalmLines
BY Message1, SentCalm

LEMMA QueueCalm ==
    ASSUME TInv, NEW p \in Node, NEW lines \in Seq(Message), NEW gated \in BOOLEAN,
           Queue(p, lines, gated), UNCHANGED waiting, lines # <<>>,
           \A m \in Range(lines) : ~IsOffer(m)
    PROVE  CalmAnswers
<1>1. ~Says(lines, payment)
  BY DEF Says, Range, IsOffer, payment
<1>2. \A q \in Node : /\ Answering(q, payment)' <=> Answering(q, payment)
                      /\ AnsweringOnce(q, payment) => AnsweringOnce(q, payment)'
  BY <1>1, Queueing, TalkFacts
<1>3. Silence([lines |-> lines, gated |-> gated])
  BY DEF Silence
<1>4. \A q \in Node : \A reply \in Range(replies'[q]) : reply \in Range(replies[q]) \/ Silence(reply)
  <2> DEFINE new == [lines |-> lines, gated |-> gated]
  <2>1. \A q \in Node : Range(replies'[q]) \subseteq Range(replies[q]) \cup IF q = p THEN {new} ELSE {}
    BY QueuedReplies, TalkFacts
  <2> HIDE DEF new
  <2>2. \A q \in Node : \A reply \in Range(replies'[q]) : reply \in Range(replies[q]) \/ reply = new
    BY <2>1
  <2> QED
    BY <1>3, <2>2 DEF new
<1> QED
  BY <1>2, <1>4 DEF CalmAnswers

LEMMA AnswerCalm ==
    ASSUME TInv, NEW p \in Node, NEW kind \in Kinds, kind # payment, NEW gated \in BOOLEAN,
           Queue(p, <<Msg(kind)>>, gated), UNCHANGED waiting
    PROVE  CalmAnswers
<1>1. <<Msg(kind)>> \in Seq(Message) /\ \A m \in Range(<<Msg(kind)>>) : ~IsOffer(m)
  BY Message1
<1> QED
  BY <1>1, QueueCalm

(***************************************************************************)
(* Neither begins nor ends to trade.                                       *)
(***************************************************************************)
Outsiders == States \ (CompleteStates \cup {"seller_accept_microtransfer"})

LEMMA ModesKept ==
    ASSUME TInv, NEW p \in Node, \A q \in Node \ {p} : state'[q] = state[q],
           \/ state'[p] = state[p]
           \/ state[p] \in Outsiders /\ state'[p] \in Outsiders
           \/ state[p] \in CompleteStates /\ state'[p] \in CompleteStates
    PROVE  ModesStay
<1> SUFFICES ASSUME NEW q \in Node PROVE Mode(q)' = Mode(q)
  BY DEF ModesStay
<1>1. CASE q # p
  <2>1. state'[q] = state[q]
    BY <1>1
  <2> QED
    BY <2>1 DEF Mode
<1>2. CASE q = p
  BY <1>2 DEF Mode, Outsiders
<1> QED
  BY <1>1, <1>2

LEMMA UpdateKeeps ==
    ASSUME TInv, NEW p \in Node, NEW next \in Outsiders, UpdateState(p, next), state[p] \in Outsiders
    PROVE  ModesStay
<1>1. state'[p] = next /\ \A q \in Node \ {p} : state'[q] = state[q]
  BY TalkFacts DEF UpdateState
<1> QED
  BY <1>1, ModesKept

LEMMA StandStill == ASSUME UNCHANGED state PROVE ModesStay
BY DEF ModesStay, Mode

LEMMA OutsiderStates ==
    /\ Outsiders = HandshakeStates \cup BuyerStates \cup (SellerStates \ {"seller_accept_microtransfer"})
    /\ payment \in Kinds
    /\ Kinds \ {payment} = {"match_order", "calibrated_match_order", "shake_on_it", "get_refund_sig",
                            "return_refund_sig", "get_setup_tx", "return_setup_tx", "unparsed"}
BY DEF Outsiders, States, HandshakeStates, BuyerStates, SellerStates, CompleteStates, Kinds, payment

LEMMA ScanCalm ==
    ASSUME TInv, NEW p \in Node,
           ScanIdle(p) \/ ScanGetRefundSig(p) \/ ScanGetSetupTx(p) \/ ScanBroadcast(p)
    PROVE  Calm
<1>1. UNCHANGED <<trade, conUp, replies>>
  BY DEF ScanIdle, ScanGetRefundSig, ScanGetSetupTx, ScanBroadcast, Scan
<1>2. CalmLines
  BY SaidCalm, StillLines, OutsiderStates
     DEF ScanIdle, ScanGetRefundSig, ScanGetSetupTx, ScanBroadcast
<1>3. ASSUME ScanIdle(p) PROVE ModesStay
  BY <1>3, StandStill DEF ScanIdle
<1>4. ASSUME ScanGetRefundSig(p) PROVE ModesStay
  BY <1>4, UpdateKeeps, OutsiderStates
     DEF ScanGetRefundSig, GetRefundSigStates, BuyerStates, SellerStates
<1>5. ASSUME ScanGetSetupTx(p) PROVE ModesStay
  BY <1>5, UpdateKeeps, OutsiderStates
     DEF ScanGetSetupTx, GetSetupTxStates, BuyerStates, SellerStates
<1>6. ASSUME ScanBroadcast(p) PROVE ModesStay
  <2>1. /\ state[p] \in CompleteStates /\ state'[p] \in CompleteStates
        /\ \A q \in Node \ {p} : state'[q] = state[q]
    BY <1>6, TalkFacts DEF ScanBroadcast, UpdateState, CompleteStates
  <2> QED
    BY <2>1, ModesKept
<1>7. ModesStay
  BY <1>3, <1>4, <1>5, <1>6
<1> QED
  BY <1>1, <1>2, <1>7, StillAnswers DEF Calm

LEMMA HandshakeCalm ==
    ASSUME TInv, NEW p \in Node,
           \/ RecvMatchOrder(p) \/ RecvCalibratedMatchOrder(p)
           \/ RecvShakeOnIt(p) \/ RecvShakeOnItFails(p)
    PROVE  Calm
<1>1. UNCHANGED <<trade, conUp>>
  BY DEF RecvMatchOrder, RecvCalibratedMatchOrder, RecvShakeOnIt, RecvShakeOnItFails
<1>2. CASE RecvMatchOrder(p)
  <2> DEFINE lines == <<Msg("calibrated_match_order"), Msg("shake_on_it")>>
  <2>1. CalmLines
    BY <1>2, ReadCalm DEF RecvMatchOrder, payment
  <2>2. lines \in Seq(Message) /\ lines # <<>> /\ \A m \in Range(lines) : ~IsOffer(m)
    <3>1. /\ Msg("calibrated_match_order") \in Message /\ Msg("shake_on_it") \in Message
          /\ ~IsOffer(Msg("calibrated_match_order")) /\ ~IsOffer(Msg("shake_on_it"))
      BY MsgType DEF Kinds, Msg, IsOffer
    <3>2. Range(lines) = {Msg("calibrated_match_order"), Msg("shake_on_it")}
      BY OfShort
    <3> QED
      BY <3>1, <3>2, TwoLines
  <2>3. Queue(p, lines, FALSE) /\ UNCHANGED waiting
    BY <1>2 DEF RecvMatchOrder
  <2> HIDE DEF lines
  <2>4. CalmAnswers
    BY <2>2, <2>3, QueueCalm
  <2>5. ModesStay
    BY <1>2, UpdateKeeps, OutsiderStates DEF RecvMatchOrder, Accepts, HandshakeStates
  <2> QED
    BY <1>1, <2>1, <2>4, <2>5 DEF Calm
<1>3. CASE RecvCalibratedMatchOrder(p)
  <2>1. CalmLines
    BY <1>3, ReadCalm DEF RecvCalibratedMatchOrder, payment
  <2>2. CalmAnswers
    BY <1>3, AnswerCalm, OutsiderStates DEF RecvCalibratedMatchOrder
  <2>3. state[p] \in HandshakeStates
    BY <1>3, HandshakeMoves DEF RecvCalibratedMatchOrder, Accepts, Target, HandshakeStates
  <2>4. ModesStay
    BY <1>3, <2>3, UpdateKeeps, OutsiderStates DEF RecvCalibratedMatchOrder, HandshakeStates
  <2> QED
    BY <1>1, <2>1, <2>2, <2>4 DEF Calm
<1>4. CASE RecvShakeOnIt(p)
  <2>1. UNCHANGED <<replies, waiting>>
    BY <1>4 DEF RecvShakeOnIt, loop
  <2>2. state[p] \in HandshakeStates
    BY <1>4, HandshakeMoves DEF RecvShakeOnIt, Accepts, Target, HandshakeStates
  <2>3. ModesStay
    BY <1>4, <2>2, UpdateKeeps, OutsiderStates DEF RecvShakeOnIt, HandshakeStates
  <2>4. CalmLines
    <3>1. /\ inbox \in [Node -> Seq(Message)] /\ inbox[p] \in Seq(Message) /\ inbox[p] # <<>>
          /\ Delivered(p, <<Msg("unparsed")>>) \in [Node -> Seq(Message)]
          /\ inbox' = [Delivered(p, <<Msg("unparsed")>>) EXCEPT ![p] = Tail(inbox[p])]
          /\ Head(inbox[p]).kind = "shake_on_it"
      <4>1. Delivered(p, <<Msg("unparsed")>>)[p] = inbox[p]
        BY Parties, TalkFacts DEF Delivered, TypeOK
      <4> QED
        BY <1>4, <4>1, MsgType, DeliveredType, TalkFacts DEF RecvShakeOnIt, Receive, TypeOK, Kinds
    <3> DEFINE last == <<Msg("unparsed")>>
    <3>2. last \in Seq(Message) /\ (\A m \in Range(last) : ~IsOffer(m)) /\ ~Says(last, payment)
      BY Message1, OutsiderStates DEF Says, Range, IsOffer, payment
    <3>3. ASSUME NEW q \in Node, q # p, inbox'[q] # inbox[q] PROVE inbox'[q] = inbox[q] \o last
      BY <3>1, <3>3 DEF Delivered
    <3> HIDE DEF last
    <3>4. ASSUME NEW q \in Node
          PROVE  /\ Line(q, payment)' <=> Line(q, payment)
                 /\ LineOnce(q, payment) => LineOnce(q, payment)'
                 /\ \A m \in Range(inbox'[q]) : m \in Range(inbox[q]) \/ ~IsOffer(m)
      <4>1. CASE q = p
        <5>1. inbox'[q] = Tail(inbox[q]) /\ Range(Tail(inbox[q])) \subseteq Range(inbox[q])
          BY <3>1, <4>1, HeadAndTail
        <5> QED
          BY <3>1, <4>1, <5>1, SaysTail DEF Line, LineOnce, payment
      <4>2. CASE inbox'[q] = inbox[q]
        BY <4>2 DEF Line, LineOnce
      <4>3. CASE q # p /\ inbox'[q] # inbox[q]
        <5>1. inbox'[q] = inbox[q] \o last /\ inbox[q] \in Seq(Message)
          BY <3>1, <3>3, <4>3
        <5>2. SaysOnce(last, payment)
          BY <3>2 DEF Says, SaysOnce
        <5>3. Range(inbox'[q]) = Range(inbox[q]) \cup Range(last)
          BY <3>2, <5>1, RangeConcatenation
        <5> QED
          BY <3>2, <5>1, <5>2, <5>3, SaysConcat DEF Line, LineOnce
      <4> QED
        BY <4>1, <4>2, <4>3
    <3> QED
      BY <3>4 DEF CalmLines
  <2> QED
    BY <1>1, <2>1, <2>3, <2>4, StillAnswers DEF Calm
<1>5. CASE RecvShakeOnItFails(p)
  BY <1>1, <1>5, ReadCalm, StillAnswers, StandStill DEF RecvShakeOnItFails, loop, Calm, payment
<1> QED
  BY <1>2, <1>3, <1>4, <1>5

LEMMA AnswersCalm ==
    ASSUME TInv, NEW p \in Node,
           \/ RecvGetRefundSig(p) \/ RecvReturnRefundSig(p)
           \/ RecvGetSetupTx(p) \/ RecvReturnSetupTx(p)
    PROVE  Calm
<1>1. UNCHANGED <<trade, conUp, waiting>> /\ \A q \in Node \ {p} : state'[q] = state[q]
  BY TalkFacts
     DEF RecvGetRefundSig, RecvReturnRefundSig, RecvGetSetupTx, RecvReturnSetupTx, UpdateState, loop
<1>2. CalmLines
  BY ReadCalm DEF RecvGetRefundSig, RecvReturnRefundSig, RecvGetSetupTx, RecvReturnSetupTx, payment
<1>3. state[p] \in Outsiders /\ state'[p] \in Outsiders
  <2>1. IInv
    BY TalkFacts DEF GInv
  <2> QED
    BY <2>1, GetRefundSigMoves, ReturnRefundSigMoves, GetSetupTxMoves, ReturnSetupTxMoves, OutsiderStates
       DEF BuyerStates, SellerStates, HandshakeStates
<1>4. CalmAnswers
  <2>1. ASSUME RecvGetRefundSig(p) PROVE CalmAnswers
    <3>1. PICK gated \in BOOLEAN : UNCHANGED replies \/ Queue(p, <<Msg("return_refund_sig")>>, gated)
      BY <2>1 DEF RecvGetRefundSig
    <3>2. "return_refund_sig" \in Kinds /\ "return_refund_sig" # payment
      BY DEF Kinds, payment
    <3> QED
      BY <1>1, <3>1, <3>2, StillAnswers, AnswerCalm
  <2>2. ASSUME RecvReturnRefundSig(p) \/ RecvReturnSetupTx(p) PROVE CalmAnswers
    BY <2>2, StillAnswers DEF RecvReturnRefundSig, RecvReturnSetupTx, loop
  <2>3. ASSUME RecvGetSetupTx(p) PROVE CalmAnswers
    BY <1>1, <2>3, AnswerCalm, OutsiderStates DEF RecvGetSetupTx, payment
  <2> QED
    BY <2>1, <2>2, <2>3
<1> QED
  BY <1>1, <1>2, <1>3, <1>4, ModesKept DEF Calm

LEMMA DroppedCalm ==
    ASSUME TInv, NEW p \in Node, RecvDropped(p), Head(inbox[p]).kind # payment
    PROVE  Calm
<1>1. PICK read : read = Head(inbox[p]).kind
  OBVIOUS
<1>2. Receive(p, read) /\ Consumed(p) /\ UNCHANGED <<trade, conUp, state, replies>>
  BY <1>1 DEF RecvDropped, Receive, loop
<1>3. CalmLines
  BY <1>1, <1>2, ReadCalm
<1> QED
  BY <1>2, <1>3, StandStill, StillAnswers DEF Calm

(***************************************************************************)
(* The rest of the loop, and the world outside.                            *)
(***************************************************************************)
LEMMA IdleCalm ==
    ASSUME TInv, NEW p \in Node,
           \/ EndDirect(p) \/ EndClient(p) \/ EndMonitor(p) \/ ClientReady(p)
           \/ ConfirmSetup(p) \/ ConfirmPayout(p) \/ ServerMatch \/ UNCHANGED vars
    PROVE  Calm
<1>1. UNCHANGED <<trade, conUp, state, inbox, replies>>
  BY DEF EndDirect, EndClient, EndMonitor, ClientReady, ConfirmSetup, ConfirmPayout, ServerMatch,
         vars, loop
<1> QED
  BY <1>1, StandStill, StillLines, StillAnswers DEF Calm

LEMMA MonitorCalm ==
    ASSUME TInv, NEW p \in Node, MonitorStep(p)
    PROVE  Calm
<1>1. /\ UNCHANGED <<trade, conUp, inbox, replies>> /\ IInv
      /\ \A q \in Node \ {p} : state'[q] = state[q]
  BY TalkFacts DEF MonitorStep, MonitorSetup, MonitorPayout, UpdateState, loop, GInv
<1>2. ASSUME MonitorSetup(p) PROVE ModesStay
  <2>1. \/ state'[p] = state[p]
        \/ state[p] \in Outsiders /\ state'[p] \in Outsiders
    BY <1>1, <1>2, MonitorSetupMoves, OutsiderStates DEF HandshakeStates, BuyerStates, SellerStates
  <2> QED
    BY <1>1, <2>1, ModesKept
<1>3. ASSUME MonitorPayout(p) PROVE ModesStay
  <2>1. state[p] \in CompleteStates /\ state'[p] \in CompleteStates
    BY <1>3, TalkFacts DEF MonitorPayout, UpdateState, Local, Stored, CompleteStates
  <2> QED
    BY <1>1, <2>1, ModesKept
<1> QED
  BY <1>1, <1>2, <1>3, StillLines, StillAnswers DEF MonitorStep, Calm

-----------------------------------------------------------------------------
(* Routing moves a payment on, or loses it with the connection.            *)

LEMMA HeldSilent == ASSUME NEW p, NEW reply, reply.gated, Due(p, reply) PROVE Silence(reply)
<1>1. reply.lines = <<Msg("return_refund_sig")>> /\ ~IsOffer(Msg("return_refund_sig"))
  BY DEF Due, HeldBack, IsOffer, Msg
<1> DEFINE m == Msg("return_refund_sig")
<1>2. reply.lines # <<>> /\ Range(reply.lines) = {m}
  BY <1>1, OfShort
<1> QED
  BY <1>1, <1>2 DEF Silence

LEMMA RouteCalm ==
    ASSUME TInv, NEW p \in Node, RouteReply(p), ~Gives(Head(replies[p]), payment)
    PROVE  Calm
<1>1. PICK reply : reply = Head(replies[p])
  OBVIOUS
<1>2. /\ replies[p] # <<>> /\ UNCHANGED <<waiting, phase, trade, conUp>>
      /\ replies' = [replies EXCEPT ![p] = Tail(@)]
      /\ inbox' = Delivered(p, reply.lines) /\ ~Gives(reply, payment)
  BY <1>1 DEF RouteReply
<1>3. /\ reply.lines \in Seq(Message) /\ Due(p, reply)
      /\ \A q \in Node :
           /\ Answering(q, payment)' <=> Answering(q, payment)
           /\ AnsweringOnce(q, payment) => AnsweringOnce(q, payment)'
  BY <1>1, <1>2, Unqueueing
<1>4. \A m \in Range(reply.lines) : ~IsOffer(m)
  <2>1. CASE reply.gated
    BY <2>1, <1>3, HeldSilent DEF Silence
  <2>2. CASE ~reply.gated
    BY <2>2, <1>2 DEF Gives, Says, Range, IsOffer, payment
  <2> QED
    BY <2>1, <2>2
<1>5. CalmLines
  BY <1>2, <1>3, <1>4, SentCalm
<1>6. CalmAnswers
  <2>1. replies \in [Node -> Seq(Reply)] /\ replies[p] \in Seq(Reply)
    BY TalkFacts DEF TypeOK
  <2>2. \A q \in Node : Range(replies'[q]) \subseteq Range(replies[q])
    BY <1>2, <2>1, HeadAndTail
  <2> QED
    BY <1>3, <2>2 DEF CalmAnswers
<1>7. ModesStay
  <2>1. CASE reply.gated
    <3>1. /\ state[p] \in Outsiders /\ state'[p] \in Outsiders
          /\ \A q \in Node \ {p} : state'[q] = state[q]
      BY <1>1, <2>1, BuyerMoves, OutsiderStates, TalkFacts
         DEF RouteReply, StatusCheck, UpdateState, BuyerStates
    <3> QED
      BY <3>1, ModesKept
  <2>2. CASE ~reply.gated
    BY <1>1, <2>2, StandStill DEF RouteReply
  <2> QED
    BY <2>1, <2>2
<1> QED
  BY <1>2, <1>5, <1>6, <1>7 DEF Calm

LEMMA PaymentSent ==
    ASSUME EInv, NEW p \in Node, RouteReply(p), Gives(Head(replies[p]), payment)
    PROVE  /\ Exchange' /\ UNCHANGED <<trade, conUp>> /\ ModesStay
           /\ \A q \in Node : Pending(q)' <=> Pending(q)
<1>1. PICK reply : reply = Head(replies[p])
  OBVIOUS
<1>2. /\ replies[p] # <<>> /\ UNCHANGED <<waiting, phase, trade, conUp, state>> /\ TInv
      /\ replies' = [replies EXCEPT ![p] = Tail(@)]
      /\ inbox' = Delivered(p, reply.lines) /\ Gives(reply, payment)
  BY <1>1 DEF RouteReply, Gives, EInv
<1>3. /\ \A q \in Node : /\ LineOnce(q, payment) /\ AnsweringOnce(q, payment)
                         /\ ~(Line(q, payment) /\ Answering(Other(q), payment))
      /\ ~(OnWay("buyer", payment) /\ OnWay("seller", payment))
      /\ Other(p) \in Node /\ Other(Other(p)) = p /\ Other(p) # p
      /\ \A q \in Node : q = p \/ q = Other(p)
  BY Parties DEF EInv, Exchange, OnePayment, Other, Node
<1>4. /\ reply.lines \in Seq(Message) /\ SaysOnce(reply.lines, payment)
      /\ Answering(p, payment) /\ ~Answering(p, payment)'
      /\ Answering(Other(p), payment)' <=> Answering(Other(p), payment)
      /\ \A q \in Node : AnsweringOnce(q, payment)'
  BY <1>1, <1>2, <1>3, Unqueueing
<1>5. ~Line(Other(p), payment)
  BY <1>3, <1>4
<1>6. /\ Line(p, payment)' <=> Line(p, payment)
      /\ Line(Other(p), payment)' <=> conUp
      /\ \A q \in Node : LineOnce(q, payment)'
  <2>1. Says(reply.lines, payment) /\ TypeOK
    BY <1>2, TalkFacts DEF Gives
  <2> QED
    BY <1>2, <1>3, <1>4, <1>5, <2>1, Sending
<1>7. \A q \in Node : OnWay(q, payment)' => OnWay(q, payment)
  BY <1>3, <1>4, <1>6 DEF OnWay
<1>8. OnePayment'
  BY <1>3, <1>4, <1>6, <1>7, Parties DEF OnePayment
<1>9. ModesStay
  BY <1>2, StandStill
<1>10. Payments'
  <2>1. replies \in [Node -> Seq(Reply)] /\ replies[p] \in Seq(Reply) /\ TypeOK
    BY <1>2, TalkFacts DEF TypeOK
  <2>2. /\ \A q \in Node : Range(replies'[q]) \subseteq Range(replies[q])
        /\ reply \in Range(replies[p])
    BY <1>1, <1>2, <2>1, HeadAndTail
  <2>3. \A m \in Range(reply.lines) : Newest(Other(p), m)
    BY <2>2 DEF EInv, Exchange, Payments
  <2>4. ASSUME NEW q \in Node, NEW m \in Range(inbox'[q]) PROVE m \in Range(inbox[q]) \/ Newest(q, m)
    <3>1. Range(inbox'[q]) \subseteq Range(inbox[q]) \cup IF q = Other(p) THEN Range(reply.lines) ELSE {}
      BY <1>2, <1>4, <2>1, DeliveredLines
    <3> QED
      BY <2>3, <2>4, <3>1
  <2> QED
    BY <1>2, <2>2, <2>4, SamePayments
<1>11. Books'
  BY <1>2, <1>7, <1>9, SameBooks
<1>12. \A q \in Node : Pending(q)' <=> Pending(q)
  <2>1. Pending(p)' <=> Pending(p)
    BY <1>2, <1>4, <1>6 DEF Pending
  <2>2. Pending(Other(p))' <=> Pending(Other(p))
    BY <1>2, <1>3, <1>4, <1>5, <1>6 DEF Pending
  <2> QED
    BY <1>3, <2>1, <2>2
<1> QED
  BY <1>2, <1>8, <1>9, <1>10, <1>11, <1>12 DEF Exchange

LEMMA HoldCalm == ASSUME TInv, NEW p \in Node, HoldReply(p) PROVE Calm
<1>1. PICK reply : reply = Head(replies[p])
  OBVIOUS
<1>2. /\ replies \in [Node -> Seq(Reply)] /\ replies[p] \in Seq(Reply) /\ replies[p] # <<>>
      /\ reply.gated /\ UNCHANGED <<trade, conUp, state, inbox>>
      /\ replies' = [replies EXCEPT ![p] = Tail(replies[p])]
  BY <1>1, TalkFacts DEF HoldReply, TypeOK
<1>3. CalmAnswers
  <2>1. replies'[p] = Tail(replies[p]) /\ \A q \in Node \ {p} : replies'[q] = replies[q]
    BY <1>2
  <2>2. ~Gives(reply, payment)
    BY <1>2 DEF Gives
  <2>3. /\ Answering(p, payment)' <=> Answering(p, payment)
        /\ AnsweringOnce(p, payment) => AnsweringOnce(p, payment)'
    BY <1>1, <1>2, <2>1, <2>2, AnswersTail DEF Answering, AnsweringOnce
  <2>4. \A q \in Node \ {p} : /\ Answering(q, payment)' <=> Answering(q, payment)
                              /\ AnsweringOnce(q, payment) => AnsweringOnce(q, payment)'
    BY <2>1 DEF Answering, AnsweringOnce
  <2>5. \A q \in Node : Range(replies'[q]) \subseteq Range(replies[q])
    BY <1>2, <2>1, HeadAndTail
  <2> QED
    BY <2>3, <2>4, <2>5 DEF CalmAnswers
<1> QED
  BY <1>2, <1>3, StandStill, StillLines DEF Calm

LEMMA EndRouteCalm == ASSUME TInv, NEW p \in Node, EndRoute(p) PROVE Calm
<1>1. /\ UNCHANGED <<trade, conUp, state, inbox>> /\ replies[p] = <<>> /\ waiting[p] \in Seq(Reply)
      /\ replies'[p] = waiting[p] /\ \A q \in Node \ {p} : replies'[q] = replies[q]
  BY TalkFacts DEF EndRoute, TypeOK
<1>2. AllHeld(replies'[p]) /\ \A reply \in Range(replies'[p]) : reply.gated /\ Due(p, reply)
  <2>1. AllHeld(waiting[p]) /\ \A reply \in Range(waiting[p]) : Due(p, reply)
    BY PartyFacts, TalkFacts DEF Turn
  <2> QED
    BY <1>1, <2>1 DEF AllHeld, Range
<1>3. ~Answering(p, payment)' /\ ~Answering(p, payment)
  BY <1>1, <1>2, NothingQueued DEF AllHeld, Answering, Answers, Gives
<1>4. \A reply \in Range(replies'[p]) : Silence(reply)
  BY <1>2, HeldSilent
<1>5. CalmAnswers
  <2>1. AnsweringOnce(p, payment)'
    BY <1>3 DEF AnsweringOnce, AnswersOnce, Answering, Answers
  <2>2. \A q \in Node \ {p} : /\ Answering(q, payment)' <=> Answering(q, payment)
                              /\ AnsweringOnce(q, payment) => AnsweringOnce(q, payment)'
    BY <1>1 DEF Answering, AnsweringOnce
  <2> QED
    BY <1>1, <1>3, <1>4, <2>1, <2>2 DEF CalmAnswers
<1> QED
  BY <1>1, <1>5, StandStill, StillLines DEF Calm

-----------------------------------------------------------------------------
(* Payments that are lost.                                                 *)

LEMMA LessExchange ==
    ASSUME EInv, UNCHANGED <<trade, replies>>, ModesStay,
           \A q \in Node : /\ Line(q, payment)' => Line(q, payment)
                           /\ LineOnce(q, payment) => LineOnce(q, payment)'
                           /\ Range(inbox'[q]) \subseteq Range(inbox[q])
    PROVE  Exchange'
<1>1. \A q \in Node : /\ Answering(q, payment)' <=> Answering(q, payment)
                      /\ AnsweringOnce(q, payment)' <=> AnsweringOnce(q, payment)
  BY DEF Answering, AnsweringOnce
<1>2. \A q \in Node : OnWay(q, payment)' => OnWay(q, payment)
  BY <1>1, Parties DEF OnWay
<1>3. OnePayment'
  BY <1>1, <1>2, Parties DEF EInv, Exchange, OnePayment
<1>4. Payments'
  BY SamePayments
<1> QED
  BY <1>2, <1>3, <1>4, SameBooks DEF Exchange

LEMMA DroppedPayment ==
    ASSUME EInv, NEW p \in Node, RecvDropped(p), Head(inbox[p]).kind = payment
    PROVE  Exchange' /\ (EInv' => Micro!IgnoreOffer(p))
<1>1. /\ inbox[p] # <<>> /\ Consumed(p) /\ ~Accepts(p, payment) /\ TInv /\ TypeOK
      /\ UNCHANGED <<trade, conUp, state, replies>> /\ Receive(p, payment)
  BY TalkFacts DEF RecvDropped, Receive, loop, EInv
<1>2. ModesStay
  BY <1>1, StandStill
<1>3. /\ Line(p, payment) /\ ~Line(p, payment)'
      /\ \A q \in Node : /\ Line(q, payment)' => Line(q, payment)
                         /\ Line(q, payment) /\ q # p => Line(q, payment)'
                         /\ LineOnce(q, payment) => LineOnce(q, payment)'
  BY <1>1, ReadOne DEF ReadOut, EInv, Exchange, OnePayment
<1>4. \A q \in Node : Range(inbox'[q]) \subseteq Range(inbox[q])
  BY <1>1, ConsumedLines
<1>5. Exchange'
  BY <1>1, <1>2, <1>3, <1>4, LessExchange
<1>6. ASSUME EInv' PROVE Micro!IgnoreOffer(p)
  <2>1. Mode(p) # "accept"
    BY <1>1, ReadAtLast DEF Mode, payment
  <2>2. \A q \in Node : Answering(q, payment)' <=> Answering(q, payment)
    BY <1>1 DEF Answering
  <2>3. /\ OffersOf(p) = <<sent[Other(p)]>> /\ OffersOf(p)' = <<>>
        /\ \A q \in Node \ {p} : OffersOf(q)' = OffersOf(q)
    BY <1>1, <1>3, <2>2, Parties DEF OffersOf, Pending, EInv, Exchange, OnePayment, trade
  <2>4. /\ Offers(p) # <<>> /\ Offers(p)' = Tail(Offers(p))
        /\ \A q \in Node \ {p} : Offers(q)' = Offers(q)
    <3>1. \A x : Tail(<<x>>) = <<>> /\ <<x>> # <<>>
      OBVIOUS
    <3>2. \A q \in Node : Offers(q) = OffersOf(q) /\ Offers(q)' = OffersOf(q)'
      BY <1>6, OffersNow, OffersNext DEF OffersAre
    <3> QED
      BY <2>3, <3>1, <3>2
  <2> QED
    BY <1>1, <1>2, <2>1, <2>4 DEF Micro!IgnoreOffer, ModesStay, trade
<1> QED
  BY <1>5, <1>6

LEMMA CutOff ==
    ASSUME EInv, UNCHANGED <<trade, replies, state>>, ~conUp', conUp' \in BOOLEAN,
           \A q \in Node : /\ Line(q, payment)' => Line(q, payment)
                           /\ LineOnce(q, payment) => LineOnce(q, payment)'
                           /\ Range(inbox'[q]) \subseteq Range(inbox[q])
    PROVE  Exchange' /\ (EInv' => Micro!Cut)
<1>1. ModesStay
  BY StandStill
<1>2. Exchange'
  BY <1>1, LessExchange
<1>3. ASSUME EInv' PROVE Micro!Cut
  <2>1. \A q \in Node : OffersOf(q)' = <<>> \/ OffersOf(q)' = OffersOf(q)
    BY DEF OffersOf, Pending, trade
  <2>2. \A q \in Node : Offers(q)' = <<>> \/ Offers(q)' = Offers(q)
    BY <1>3, <2>1, OffersNow, OffersNext DEF OffersAre
  <2> DEFINE lost == {q \in Node : Offers(q)' = <<>>}
  <2>3. [q \in Node |-> Offers(q)]' =
          [q \in Node |-> IF q \in lost THEN <<>> ELSE [r \in Node |-> Offers(r)][q]]
    BY <2>2
  <2>4. lost \in SUBSET Node
    OBVIOUS
  <2>5. [q \in Node |-> Mode(q)]' = [q \in Node |-> Mode(q)]
    BY <1>1 DEF ModesStay
  <2> HIDE DEF lost
  <2>6. \E gone \in SUBSET Node :
          [q \in Node |-> Offers(q)]' =
            [q \in Node |-> IF q \in gone THEN <<>> ELSE [r \in Node |-> Offers(r)][q]]
    BY <2>3, <2>4
  <2>7. UNCHANGED <<sent, recv, download, rounds>>
    BY DEF trade
  <2> QED
    BY <2>5, <2>6, <2>7 DEF Micro!Cut, Micro!Node, Node
<1> QED
  BY <1>2, <1>3

LEMMA CrashedCut ==
    ASSUME EInv, NEW p \in Node, Crashed(p), UNCHANGED <<trade, replies, state>>
    PROVE  Exchange' /\ (EInv' => Micro!Cut)
<1>1. \A q \in Node : inbox'[q] = inbox[q] \/ inbox'[q] = <<>>
  BY TalkFacts DEF Crashed, TypeOK, EInv
<1>2. \A q \in Node : /\ Line(q, payment)' => Line(q, payment)
                      /\ LineOnce(q, payment) => LineOnce(q, payment)'
                      /\ Range(inbox'[q]) \subseteq Range(inbox[q])
  BY <1>1, NothingLeft, OfShort DEF Line, LineOnce
<1> QED
  BY <1>2, CutOff DEF Crashed

LEMMA DisconnectCut == ASSUME EInv, Disconnect PROVE Exchange' /\ (EInv' => Micro!Cut)
<1>1. UNCHANGED <<trade, replies, state>> /\ ~conUp' /\ conUp' \in BOOLEAN
  BY DEF Disconnect, loop
<1>2. ASSUME NEW q \in Node
      PROVE  /\ Line(q, payment)' => Line(q, payment)
             /\ LineOnce(q, payment) => LineOnce(q, payment)'
             /\ Range(inbox'[q]) \subseteq Range(inbox[q])
  <2>1. PICK buyer \in 0 .. Len(inbox["buyer"]), seller \in 0 .. Len(inbox["seller"]) :
          inbox' = [p \in Node |-> SubSeq(inbox[p], 1, IF p = "buyer" THEN buyer ELSE seller)]
    BY DEF Disconnect
  <2>2. PICK n \in 0 .. Len(inbox[q]) : inbox'[q] = SubSeq(inbox[q], 1, n)
    <3>1. CASE q = "buyer"
      BY <2>1, <3>1
    <3>2. CASE q = "seller"
      BY <2>1, <3>2
    <3> QED
      BY <3>1, <3>2, Parties
  <2>3. inbox[q] \in Seq(Message)
    BY TalkFacts DEF EInv
  <2> QED
    BY <2>2, <2>3, PrefixKept, OfSubSeq DEF Line, LineOnce
<1> QED
  BY <1>1, <1>2, CutOff

-----------------------------------------------------------------------------
(* Signing: the two callers of adjust_refund_tx().                         *)

LEMMA MicroTerms ==
    ASSUME NEW p \in Node
    PROVE  /\ Micro!Node = Node /\ Micro!Other(p) = Other(p)
           /\ Micro!SendChunk(p) = SendChunk(p) /\ Micro!RecvChunk(p) = RecvChunk(p)
           /\ Micro!Download(p) = Download(p)
BY Parties DEF Micro!Node, Node, Micro!Other, Other, Micro!SendChunk, SendChunk, Micro!RecvChunk, RecvChunk,
   Micro!NextChunk, NextChunk, Micro!Download, Download

(***************************************************************************)
(* What p sends, its peer counts in the same chunks.                       *)
(***************************************************************************)
LEMMA SameChunk ==
    ASSUME TInv, NEW p \in Node, sent[p] = recv[Other(p)]
    PROVE  /\ SendChunk(p) = RecvChunk(Other(p)) /\ Other(Other(p)) = p
           /\ sent[p] \in Nat /\ SendChunk(p) \in Nat /\ sent[p] + SendChunk(p) > 0
<1>1. Other(Other(p)) = p /\ Other(p) \in Node
  BY Parties DEF Other, Node
<1>2. /\ Upload[p] \in Nat \ {0} /\ Chunk[p] \in Nat \ {0} /\ sent[p] \in Nat /\ sent[p] <= Upload[p]
      /\ SendChunk(p) \in Nat
  BY AmountsAssumption, AdjustType, TalkFacts DEF TypeOK, Local, Account, GInv
<1>3. SendChunk(p) = RecvChunk(Other(p))
  BY <1>1 DEF SendChunk, RecvChunk, Download
<1> QED
  BY <1>1, <1>2, <1>3 DEF SendChunk, NextChunk

LEMMA NoLine ==
    ASSUME NEW p \in Node, ~Line(p, payment)
    PROVE  \A m \in Range(inbox[p]) : ~IsOffer(m)
BY DEF Line, Says, Range, IsOffer, payment

LEMMA NoAnswer ==
    ASSUME EInv, NEW p \in Node, ~Answering(p, payment)
    PROVE  \A reply \in Range(replies[p]) : Silence(reply)
<1> SUFFICES ASSUME NEW i \in DOMAIN replies[p] PROVE Silence(replies[p][i])
  BY DEF Range
<1>1. replies[p][i] \in Range(replies[p])
  BY DEF Range
<1>2. Due(p, replies[p][i]) /\ Plain(replies[p][i])
  BY <1>1, PartyFacts, TalkFacts DEF EInv, Exchange, Payments
<1>3. CASE replies[p][i].gated
  BY <1>2, <1>3, HeldSilent
<1>4. CASE ~replies[p][i].gated
  <2>1. ~Says(replies[p][i].lines, payment)
    BY <1>4 DEF Answering, Answers, Gives
  <2> QED
    BY <1>2, <2>1 DEF Silence, Plain, Says, Range, IsOffer, payment
<1> QED
  BY <1>3, <1>4

(***************************************************************************)
(* "Initiate microtransfer" of the main loop.                              *)
(***************************************************************************)
LEMMA Initiating ==
    ASSUME EInv, NEW p \in Node, ScanInitiate(p)
    PROVE  /\ p = "seller" /\ sellerAt = "seller_initiate_microtransfer"
           /\ sellerAt' = "seller_accept_microtransfer" /\ buyerAt' = buyerAt
           /\ UNCHANGED <<conUp, replies>>
           /\ sent' = [sent EXCEPT !["seller"] = SendChunk("seller")]
           /\ UNCHANGED <<recv, download>> /\ rounds' = [rounds EXCEPT !["seller"] = @ + 1]
           /\ \A q \in Node : sent[q] = 0 /\ recv[q] = 0
           /\ \A q \in Node : ~Line(q, payment) /\ ~Answering(q, payment)
           /\ inbox' = Delivered("seller", <<Offer("seller")>>)
           /\ Offer("seller") \in Message /\ Offer("seller").kind = payment
           /\ Offer("seller").amount = SendChunk("seller")
<1>1. /\ p = "seller" /\ buyerAt' = buyerAt /\ TInv
      /\ sellerAt = "seller_initiate_microtransfer" /\ sellerAt' = "seller_accept_microtransfer"
  BY Parties, TalkFacts DEF EInv, ScanInitiate, UpdateState, Local, Role, SellerStates, sellerAt, buyerAt
<1>2. sellerAt \notin SellerTrading /\ state["seller"] \notin TradingStates
  BY <1>1 DEF SellerTrading, TradingStates, AcceptStates, CompleteStates, sellerAt
<1>3. \A q \in Node : sent[q] = 0
  <2>1. \A q \in Node : sent[q] \in Nat /\ Account(q)
    BY <1>1, TalkFacts DEF TypeOK, Local
  <2>2. ~(sent["seller"] > 0) /\ ~(sent["buyer"] > 0)
    BY <1>2, <2>1, Parties DEF Account, EInv, Exchange, Books
  <2> QED
    BY <2>1, <2>2, Parties
<1>4. \A q \in Node : recv[q] = 0
  <2> SUFFICES ASSUME NEW q \in Node PROVE recv[q] = 0
    OBVIOUS
  <2>1. recv[q] \in Nat /\ download[q] \in Nat /\ recv[q] <= download[q] /\ download[q] <= sent[Other(q)]
    BY <1>1, TalkFacts, PartyFacts DEF TypeOK, Local, Account, Tied
  <2> QED
    BY <1>3, <2>1, Parties
<1>5. \A q \in Node : ~Line(q, payment) /\ ~Answering(q, payment)
  BY <1>1, <1>2, TalkParts DEF SellerHears, BuyerHears, SellerAnswers, BuyerAnswers, payment
<1>6. SendChunk("seller") \in Nat /\ Offer("seller") \in Message /\ rounds \in [Node -> Nat]
      /\ sent \in [Node -> Nat] /\ recv \in [Node -> Nat] /\ download \in [Node -> Nat]
  BY <1>1, AdjustType, Parties, TalkFacts DEF GInv, TypeOK
<1>7. /\ sent' = [sent EXCEPT !["seller"] = SendChunk("seller")]
      /\ UNCHANGED <<recv, download>> /\ rounds' = [rounds EXCEPT !["seller"] = @ + 1]
  <2>1. Adjust("seller", 0)
    BY <1>1 DEF ScanInitiate
  <2>2. /\ sent' = [sent EXCEPT !["seller"] = sent["seller"] + SendChunk("seller")]
        /\ recv' = [recv EXCEPT !["seller"] = recv["seller"] + 0]
        /\ download' = [download EXCEPT !["seller"] = download["seller"]]
        /\ rounds' = [rounds EXCEPT !["seller"] = @ + 1]
    BY <2>1 DEF Adjust
  <2>3. sent["seller"] + SendChunk("seller") = SendChunk("seller") /\ recv["seller"] + 0 = recv["seller"]
    BY <1>3, <1>4, <1>6, Parties
  <2>4. UNCHANGED recv
    BY <1>6, <2>2, <2>3
  <2>5. UNCHANGED download
    BY <1>6, <2>2
  <2> QED
    BY <2>2, <2>3, <2>4, <2>5
<1>8. Offer("seller").kind = payment /\ Offer("seller").amount = SendChunk("seller")
  BY <1>3, <1>6, Parties DEF Offer, payment
<1>9. UNCHANGED <<conUp, replies>> /\ inbox' = Delivered("seller", <<Offer("seller")>>)
  BY <1>1 DEF ScanInitiate, Scan
<1> QED
  BY <1>1, <1>3, <1>4, <1>5, <1>6, <1>7, <1>8, <1>9

(***************************************************************************)
(* The one payment there is now is p's.                                    *)
(***************************************************************************)
LEMMA FreshPayment ==
    ASSUME NEW p \in Node, NEW m, m.amount = sent'[p],
           \A r \in Node : \A l \in Range(inbox'[r]) : ~IsOffer(l) \/ (r = Other(p) /\ l = m),
           \A r \in Node : \A reply \in Range(replies'[r]) :
               Silence(reply) \/ (r = p /\ reply = [lines |-> <<m>>, gated |-> FALSE])
    PROVE  Payments'
<1>1. Other(Other(p)) = p /\ Other(p) \in Node
  BY Parties DEF Other, Node
<1>2. ASSUME NEW r \in Node, NEW l \in Range(inbox'[r]) PROVE Newest(r, l)'
  BY <1>1, <1>2 DEF Newest, IsOffer
<1>3. ASSUME NEW r \in Node, NEW reply \in Range(replies'[r])
      PROVE  Plain(reply)' /\ \A l \in Range(reply.lines) : Newest(Other(r), l)'
  <2>1. CASE Silence(reply)
    BY <2>1 DEF Silence, Plain, Newest, Range, IsOffer
  <2>2. CASE r = p /\ reply = [lines |-> <<m>>, gated |-> FALSE]
    <3>1. reply.lines = <<m>> /\ Range(reply.lines) = {m} /\ DOMAIN <<m>> = {1}
      BY <2>2, OfShort
    <3> QED
      BY <1>1, <2>2, <3>1 DEF Plain, Newest
  <2> QED
    BY <1>3, <2>1, <2>2
<1> QED
  BY <1>2, <1>3 DEF Payments

LEMMA FreshBooks ==
    ASSUME EInv, NEW p \in Node, sent[p] = recv[Other(p)],
           sent'[p] = sent[p] + SendChunk(p), sent'[Other(p)] = sent[Other(p)],
           recv'[p] = sent[Other(p)], recv'[Other(p)] = recv[Other(p)],
           \A r \in Node : OnWay(r, payment)' => r = Other(p), sellerAt' \in SellerTrading
    PROVE  Books'
<1>1. /\ SendChunk(p) = RecvChunk(Other(p)) /\ Other(Other(p)) = p /\ sent'[p] > 0
      /\ RecvChunk(Other(p))' = RecvChunk(Other(p))
  BY SameChunk DEF EInv, RecvChunk, Download
<1> QED
  BY <1>1 DEF Books

LEMMA InitiateExchange == ASSUME EInv, NEW p \in Node, ScanInitiate(p) PROVE Exchange'
<1> DEFINE m == Offer("seller")
<1>1. /\ sellerAt' = "seller_accept_microtransfer" /\ UNCHANGED replies
      /\ sent' = [sent EXCEPT !["seller"] = SendChunk("seller")] /\ UNCHANGED recv
      /\ \A q \in Node : sent[q] = 0 /\ recv[q] = 0
      /\ \A q \in Node : ~Line(q, payment) /\ ~Answering(q, payment)
      /\ inbox' = Delivered("seller", <<m>>) /\ m \in Message
      /\ m.kind = payment /\ m.amount = SendChunk("seller")
  BY Initiating
<1>2. /\ TypeOK /\ Other("seller") = "buyer" /\ <<m>> \in Seq(Message)
      /\ sent \in [Node -> Nat] /\ SendChunk("seller") \in Nat
  BY <1>1, AdjustType, TalkFacts, Parties DEF Other, EInv, TypeOK, GInv
<1> HIDE DEF m
<1>3. \A q \in Node : ~Answering(q, payment)' /\ AnsweringOnce(q, payment)'
  BY <1>1 DEF Answering, AnsweringOnce, Answers, AnswersOnce
<1>4. /\ ~Line("seller", payment)'
      /\ \A q \in Node : LineOnce(q, payment)'
  <2>1. Said("seller", payment)
    BY <1>1, <1>2, SaidOne, Parties
  <2> QED
    BY <1>1, <1>2, <2>1, Absent, Parties DEF Said
<1>5. OnePayment' /\ \A r \in Node : OnWay(r, payment)' => r = Other("seller")
  BY <1>2, <1>3, <1>4, Parties DEF OnePayment, OnWay
<1>6. Payments'
  <2>1. m.amount = sent'["seller"]
    BY <1>1, <1>2, Parties
  <2>2. ASSUME NEW r \in Node, NEW l \in Range(inbox'[r]) PROVE ~IsOffer(l) \/ (r = Other("seller") /\ l = m)
    <3>1. Range(inbox'[r]) \subseteq Range(inbox[r]) \cup IF r = Other("seller") THEN {m} ELSE {}
      BY <1>1, <1>2, DeliveredLines, OfShort, Parties
    <3> QED
      BY <1>1, <2>2, <3>1, NoLine
  <2>3. \A r \in Node : \A reply \in Range(replies'[r]) : Silence(reply)
    BY <1>1, NoAnswer
  <2> QED
    BY <2>1, <2>2, <2>3, FreshPayment, Parties
<1>7. Books'
  <2>1. /\ sent["seller"] = recv["buyer"] /\ sent'["seller"] = sent["seller"] + SendChunk("seller")
        /\ sent'["buyer"] = sent["buyer"] /\ recv'["seller"] = sent["buyer"] /\ recv'["buyer"] = recv["buyer"]
    BY <1>1, <1>2, Parties
  <2> QED
    BY <1>1, <1>2, <1>5, <2>1, FreshBooks, Parties DEF SellerTrading
<1> QED
  BY <1>5, <1>6, <1>7 DEF Exchange

LEMMA InitiateMicro ==
    ASSUME EInv, EInv', NEW p \in Node, ScanInitiate(p)
    PROVE  Micro!Initiate
<1>1. /\ sellerAt = "seller_initiate_microtransfer" /\ sellerAt' = "seller_accept_microtransfer"
      /\ buyerAt' = buyerAt /\ UNCHANGED conUp
      /\ sent' = [sent EXCEPT !["seller"] = SendChunk("seller")]
      /\ UNCHANGED <<recv, download>> /\ rounds' = [rounds EXCEPT !["seller"] = @ + 1]
      /\ \A q \in Node : sent[q] = 0 /\ recv[q] = 0
      /\ \A q \in Node : ~Line(q, payment) /\ ~Answering(q, payment)
      /\ inbox' = Delivered("seller", <<Offer("seller")>>) /\ Offer("seller") \in Message
      /\ Offer("seller").kind = payment /\ UNCHANGED replies
  BY Initiating
<1>2. /\ SendChunk("seller") \in Nat /\ TypeOK /\ sent \in [Node -> Nat] /\ recv \in [Node -> Nat]
      /\ download \in [Node -> Nat] /\ conUp \in BOOLEAN /\ Other("seller") = "buyer"
  BY AdjustType, TalkFacts, Parties DEF Other, EInv, TypeOK, GInv
<1>3. Mode("seller") = "initiate" /\ Mode("seller")' = "accept" /\ Mode("buyer")' = Mode("buyer")
  BY <1>1 DEF Mode, sellerAt, buyerAt, CompleteStates
<1>4. [q \in Node |-> Mode(q)]' = [[q \in Node |-> Mode(q)] EXCEPT !["seller"] = "accept"]
  BY <1>3, Parties
<1>5. /\ Offers("buyer") = <<>> /\ Offers("seller") = <<>> /\ Offers("seller")' = <<>>
      /\ Offers("buyer")' = IF conUp THEN <<sent'["seller"]>> ELSE <<>>
  <2>1. Said("seller", payment)
    BY <1>1, <1>2, SaidOne, Parties
  <2>2. (Line("buyer", payment)' <=> conUp) /\ ~Line("seller", payment)'
    BY <1>1, <1>2, <2>1, Parties DEF Said
  <2>3. \A q \in Node : ~Answering(q, payment)'
    BY <1>1 DEF Answering
  <2>4. ~Pending("buyer") /\ ~Pending("seller") /\ ~Pending("seller")' /\ (Pending("buyer")' <=> conUp)
    BY <1>1, <2>2, <2>3, Parties DEF Pending
  <2>5. Other("buyer") = "seller"
    BY DEF Other
  <2> QED
    BY <2>4, <2>5, OffersNow, OffersNext, Parties DEF OffersAre, OffersOf
<1>6. [q \in Node |-> Offers(q)]' =
        [[q \in Node |-> Offers(q)] EXCEPT !["buyer"] = IF conUp THEN Append(@, sent'["seller"]) ELSE @]
  <2>1. \A x : Append(<<>>, x) = <<x>>
    OBVIOUS
  <2> QED
    BY <1>5, <2>1, Parties
<1>7. Micro!Advance("seller", 0)
  <2>1. Micro!SendChunk("seller") = SendChunk("seller")
    BY MicroTerms, Parties
  <2>2. sent' = [sent EXCEPT !["seller"] = @ + Micro!SendChunk("seller")]
    <3>1. sent["seller"] + Micro!SendChunk("seller") = SendChunk("seller")
      BY <1>1, <1>2, <2>1, Parties
    <3> QED
      BY <1>1, <3>1
  <2>3. recv' = [recv EXCEPT !["seller"] = @ + 0]
    BY <1>1, <1>2, Parties
  <2>4. download' = [download EXCEPT !["seller"] = @]
    BY <1>1, <1>2, Parties
  <2> QED
    BY <1>1, <2>2, <2>3, <2>4 DEF Micro!Advance
<1> QED
  BY <1>1, <1>3, <1>4, <1>6, <1>7, Parties DEF Micro!Initiate

(***************************************************************************)
(* parse_return_adjusted_refund: the payment it reads is large enough.     *)
(***************************************************************************)
LastChunk(p) == SendChunk(p) = 0 /\ RecvChunk(p) = 0

LEMMA Accepting ==
    ASSUME EInv, NEW p \in Node, RecvReturnAdjustedRefund(p)
    PROVE  /\ Head(inbox[p]).amount = sent[Other(p)] /\ sent[Other(p)] > 0
           /\ sent[Other(p)] = recv[p] + RecvChunk(p) /\ sent[p] = recv[Other(p)]
           /\ Adjust(p, sent[Other(p)])
           /\ Queue(p, <<IF LastChunk(p) THEN Msg("unparsed") ELSE Offer(p)>>, FALSE)
           /\ UNCHANGED <<conUp, waiting>>
           /\ \A r \in Node : ~Line(r, payment)' /\ ~Answering(r, payment)
           /\ Pending(p) /\ ~Pending(Other(p))
           /\ UpdateState(p, IF sent'[p] = Upload[p] /\ recv'[p] = Download(p)
                             THEN "pending_microtransfer_complete" ELSE state[p])
           /\ Mode(p) = "accept" /\ sellerAt \in SellerTrading /\ sellerAt' \in SellerTrading
<1> DEFINE q == Other(p)
<1>1. /\ inbox[p] # <<>> /\ Head(inbox[p]).kind = payment /\ Consumed(p) /\ state[p] \in AcceptStates
      /\ UNCHANGED <<conUp, waiting>> /\ Receive(p, payment) /\ TInv /\ TypeOK
      /\ UpdateState(p, IF sent'[p] = Upload[p] /\ recv'[p] = Download(p)
                        THEN "pending_microtransfer_complete" ELSE state[p])
  BY TalkFacts DEF RecvReturnAdjustedRefund, Receive, Accepts, EInv, payment
<1>2. q \in Node /\ q # p /\ Other(q) = p /\ \A r \in Node : r = p \/ r = q
  BY Parties DEF Other, Node
<1>3. /\ Line(p, payment) /\ ~Line(p, payment)'
      /\ \A r \in Node : Line(r, payment)' => Line(r, payment)
  BY <1>1, ReadOne DEF ReadOut, EInv, Exchange, OnePayment
<1>4. ~Answering(q, payment) /\ ~OnWay(q, payment) /\ OnWay(p, payment)
  BY <1>2, <1>3, Parties DEF EInv, Exchange, OnePayment, OnWay
<1>5. ~Line(q, payment) /\ ~Answering(p, payment)
  BY <1>2, <1>4 DEF OnWay
<1>6. sent[p] = recv[q] /\ sent[q] = recv[p] + RecvChunk(p) /\ sent[q] > 0
  BY <1>4 DEF EInv, Exchange, Books
<1>7. Head(inbox[p]).amount = sent[q]
  <2>1. Head(inbox[p]) \in Range(inbox[p]) /\ IsOffer(Head(inbox[p]))
    BY <1>1, ConsumedLines DEF IsOffer, payment
  <2> QED
    BY <2>1 DEF EInv, Exchange, Payments, Newest
<1>8. Acceptable(p, sent[q])
  <2>1. sent[q] \in Nat /\ recv[p] \in Nat /\ RecvChunk(p) \in Nat
    BY <1>1, <1>2, AdjustType DEF TypeOK, EInv, TInv, GInv
  <2> QED
    BY <1>6, <2>1 DEF Acceptable
<1>9. /\ Adjust(p, sent[q])
      /\ Queue(p, <<IF LastChunk(p) THEN Msg("unparsed") ELSE Offer(p)>>, FALSE)
  BY <1>7, <1>8 DEF RecvReturnAdjustedRefund, LastChunk
<1>10. Mode(p) = "accept" /\ sellerAt \in SellerTrading
  <2>1. SellerHears /\ BuyerHears /\ Local(p)
    BY <1>1, TalkFacts, TalkParts
  <2>2. sellerAt \in SellerTrading
    BY <1>2, <1>3, <2>1, Parties DEF SellerHears, BuyerHears, payment
  <2> QED
    BY <1>1, <2>1, <2>2, Parties
       DEF Mode, Local, Role, AcceptStates, CompleteStates, SellerStates, BuyerStates
<1>11. sellerAt' \in SellerTrading
  <2>1. sellerAt' = sellerAt \/ sellerAt' = "pending_microtransfer_complete"
    BY <1>1, Parties, TalkFacts DEF UpdateState, sellerAt
  <2> QED
    BY <1>10, <2>1 DEF SellerTrading, CompleteStates
<1> QED
  BY <1>1, <1>2, <1>3, <1>4, <1>5, <1>6, <1>7, <1>9, <1>10, <1>11 DEF Pending

LEMMA Accepted ==
    ASSUME EInv, NEW p \in Node, RecvReturnAdjustedRefund(p)
    PROVE  /\ sent'[p] = sent[p] + SendChunk(p) /\ sent'[Other(p)] = sent[Other(p)]
           /\ recv'[p] = sent[Other(p)] /\ recv'[Other(p)] = recv[Other(p)]
           /\ Offer(p) \in Message /\ Offer(p).amount = sent'[p] /\ IsOffer(Offer(p))
           /\ \A r \in Node : Answering(r, payment)' <=> r = p /\ ~LastChunk(p)
           /\ \A r \in Node : AnsweringOnce(r, payment)'
<1>1. /\ sent \in [Node -> Nat] /\ recv \in [Node -> Nat] /\ sent[Other(p)] > 0
      /\ Adjust(p, sent[Other(p)]) /\ Other(p) # p /\ Other(p) \in Node
      /\ sent[Other(p)] = recv[p] + RecvChunk(p) /\ TInv
      /\ RecvChunk(p) \in Nat /\ SendChunk(p) \in Nat /\ Offer(p) \in Message
  BY Accepting, AdjustType, TalkFacts, Parties DEF EInv, TypeOK, GInv
<1>2. /\ sent'[p] = sent[p] + SendChunk(p) /\ sent'[Other(p)] = sent[Other(p)]
      /\ recv'[p] = recv[p] + RecvChunk(p) /\ recv'[Other(p)] = recv[Other(p)]
  BY <1>1 DEF Adjust
<1>3. Offer(p).amount = sent'[p] /\ Offer(p).kind = payment
  BY <1>2 DEF Offer, payment
<1>4. PICK m : m = IF LastChunk(p) THEN Msg("unparsed") ELSE Offer(p)
  OBVIOUS
<1>5. /\ m \in Message /\ (m.kind = payment <=> ~LastChunk(p))
      /\ Queue(p, <<m>>, FALSE) /\ UNCHANGED waiting
  BY <1>1, <1>3, <1>4, Accepting, MsgType DEF Kinds, Msg, payment
<1>6. Answered1(p, m.kind)
  BY <1>1, <1>5, AnsweredOne
<1>7. \A r \in Node : ~Answering(r, payment) /\ AnsweringOnce(r, payment)
  BY Accepting, Absent
<1>8. \A r \in Node : /\ Answering(r, payment)' <=> r = p /\ ~LastChunk(p)
                      /\ AnsweringOnce(r, payment)'
  BY <1>5, <1>6, <1>7 DEF Answered1
<1> QED
  BY <1>1, <1>2, <1>3, <1>8 DEF IsOffer, payment

LEMMA AcceptExchange == ASSUME EInv, NEW p \in Node, RecvReturnAdjustedRefund(p) PROVE Exchange'
<1>1. /\ \A r \in Node : ~Line(r, payment)' /\ LineOnce(r, payment)'
      /\ \A r \in Node : AnsweringOnce(r, payment)' /\ (Answering(r, payment)' => r = p)
  <2>1. \A r \in Node : ~Line(r, payment)'
    BY Accepting
  <2> QED
    BY <2>1, Accepted DEF Line, LineOnce, Says, SaysOnce
<1>2. OnePayment' /\ \A r \in Node : OnWay(r, payment)' => r = Other(p)
  BY <1>1, Parties DEF OnePayment, OnWay, Other
<1>3. Payments'
  <2>1. \A r \in Node : \A l \in Range(inbox'[r]) : ~IsOffer(l)
    BY <1>1 DEF Line, Says, Range, IsOffer, payment
  <2>2. ASSUME NEW r \in Node, NEW reply \in Range(replies'[r])
        PROVE  Silence(reply) \/ (r = p /\ reply = [lines |-> <<Offer(p)>>, gated |-> FALSE])
    <3>1. PICK m \in Message : /\ m = IF LastChunk(p) THEN Msg("unparsed") ELSE Offer(p)
                               /\ Queue(p, <<m>>, FALSE)
      BY Accepting, Accepted, MsgType DEF Kinds
    <3>2. Range(replies'[r]) \subseteq
            Range(replies[r]) \cup IF r = p THEN {[lines |-> <<m>>, gated |-> FALSE]} ELSE {}
      <4>1. <<m>> \in Seq(Message) /\ TypeOK
        BY TalkFacts DEF EInv
      <4> QED
        BY <3>1, <4>1, QueuedReplies
    <3>3. \A old \in Range(replies[r]) : Silence(old)
      BY Accepting, NoAnswer
    <3>4. Silence([lines |-> <<Msg("unparsed")>>, gated |-> FALSE])
      BY Message1 DEF Kinds, payment
    <3> QED
      BY <2>2, <3>1, <3>2, <3>3, <3>4
  <2> QED
    BY <2>1, <2>2, Accepted, FreshPayment
<1>4. Books'
  BY <1>2, Accepting, Accepted, FreshBooks
<1> QED
  BY <1>2, <1>3, <1>4 DEF Exchange

LEMMA AcceptMicro ==
    ASSUME EInv, EInv', NEW p \in Node, RecvReturnAdjustedRefund(p)
    PROVE  Micro!AcceptOffer(p)
<1> DEFINE q == Other(p)
           mode == [r \in Node |-> Mode(r)]
           offers == [r \in Node |-> Offers(r)]
<1>1. /\ q \in Node /\ q # p /\ Other(q) = p /\ \A r \in Node : r = p \/ r = q
      /\ TInv /\ sent[q] > 0 /\ sent[q] \in Nat /\ recv[p] \in Nat /\ state \in [Node -> States]
  BY Accepting, TalkFacts, Parties DEF Other, Node, EInv, TypeOK
<1>2. /\ Micro!Other(p) = q /\ Micro!SendChunk(p) = SendChunk(p) /\ Micro!RecvChunk(p) = RecvChunk(p)
      /\ Micro!Download(p) = Download(p)
  BY MicroTerms
<1>3. /\ offers[p] = <<sent[q]>> /\ offers[q] = <<>> /\ offers'[p] = <<>>
      /\ offers'[q] = IF LastChunk(p) \/ ~conUp THEN <<>> ELSE <<sent'[p]>>
  <2>1. Pending(p) /\ ~Pending(q) /\ UNCHANGED conUp
    BY Accepting
  <2>2. ~Pending(p)' /\ (Pending(q)' <=> conUp /\ ~LastChunk(p))
    BY <1>1, <2>1, Accepting, Accepted DEF Pending
  <2>3. \A r \in Node : offers[r] = OffersOf(r) /\ offers'[r] = OffersOf(r)'
    BY OffersNow, OffersNext DEF OffersAre
  <2> QED
    BY <1>1, <2>1, <2>2, <2>3 DEF OffersOf
<1>4. mode[p] = "accept"
  BY Accepting
<1>5. offers[p] # <<>> /\ Head(offers[p]) = sent[q] /\ Tail(offers[p]) = <<>>
  <2>1. \A x : <<x>> # <<>> /\ Head(<<x>>) = x /\ Tail(<<x>>) = <<>>
    OBVIOUS
  <2> QED
    BY <1>3, <2>1
<1>6. Micro!Acceptable(p, sent[q])
  <2>1. sent[q] = recv[p] + RecvChunk(p) /\ RecvChunk(p) \in Nat
    BY <1>1, Accepting, AdjustType DEF TInv, GInv
  <2> QED
    BY <1>1, <1>2, <2>1 DEF Micro!Acceptable
<1>7. Micro!Advance(p, sent[q])
  BY <1>1, <1>2, Accepting DEF Micro!Advance, Adjust
<1>8. mode' = [mode EXCEPT ![p] = IF Micro!Transferred(p, sent'[p], recv'[p]) THEN "complete" ELSE @]
  <2>1. Micro!Transferred(p, sent'[p], recv'[p]) <=> sent'[p] = Upload[p] /\ recv'[p] = Download(p)
    BY <1>2 DEF Micro!Transferred
  <2>2. /\ state'[p] = IF Micro!Transferred(p, sent'[p], recv'[p])
                       THEN "pending_microtransfer_complete" ELSE state[p]
        /\ state'[q] = state[q]
    BY <1>1, <2>1, Accepting DEF UpdateState
  <2>3. /\ Mode(p)' = IF Micro!Transferred(p, sent'[p], recv'[p]) THEN "complete" ELSE Mode(p)
        /\ Mode(q)' = Mode(q)
    BY <2>2 DEF Mode, CompleteStates
  <2> QED
    BY <1>1, <2>3
<1>9. offers' = [offers EXCEPT
                    ![p] = Tail(@),
                    ![q] = IF LastChunk(p) \/ ~conUp THEN @ ELSE Append(@, sent'[p])]
  <2>1. Append(<<>>, sent'[p]) = <<sent'[p]>>
    OBVIOUS
  <2> HIDE DEF q
  <2>2. \A r \in Node : offers'[r] = [offers EXCEPT ![p] = Tail(@),
            ![q] = IF LastChunk(p) \/ ~conUp THEN @ ELSE Append(@, sent'[p])][r]
    BY <1>1, <1>3, <1>5, <2>1
  <2> QED
    BY <2>2
<1>10. UNCHANGED conUp
  BY Accepting
<1> QED
  BY <1>2, <1>4, <1>5, <1>6, <1>7, <1>8, <1>9, <1>10 DEF Micro!AcceptOffer, LastChunk

-----------------------------------------------------------------------------
(* The trading phase of every run.                                         *)

LEMMA InitSilent ==
    ASSUME Init, NEW p \in Node
    PROVE  ~Line(p, payment) /\ ~Answering(p, payment)
<1>1. /\ inbox["buyer"] = <<>> /\ inbox["seller"] = <<Msg("match_order")>>
      /\ replies[p] = <<>>
  BY DEF Init, Node
<1>2. Msg("match_order") \in Message /\ Msg("match_order").kind # payment
  BY MsgType DEF Kinds, Msg, payment
<1> QED
  BY <1>1, <1>2, SaysShort, NothingLeft, NothingQueued, Parties DEF Line, Answering

LEMMA InitExchange == ASSUME Init PROVE Exchange
<1>1. \A p \in Node : replies[p] = <<>> /\ sent[p] = 0
  BY DEF Init
<1>2. OnePayment
  BY InitSilent, Absent, Parties DEF OnePayment, OnWay
<1>3. Payments
  BY <1>1, InitSilent, NoLine, OfShort DEF Payments, Newest
<1>4. Books
  BY <1>1, InitSilent, Parties DEF Books, OnWay
<1> QED
  BY <1>2, <1>3, <1>4 DEF Exchange

LEMMA StepExchange ==
    ASSUME EInv, [Next]_vars
    PROVE  Exchange' /\ (EInv' => [Micro!Next]_(Micro!vars))
<1> DEFINE Traded == Exchange' /\ (EInv' => [Micro!Next]_(Micro!vars))
<1>1. TInv
  BY DEF EInv
<1>2. ASSUME Calm PROVE Traded
  BY <1>2, CalmExchange, CalmStutters
<1>3. ASSUME Exchange' /\ (EInv' => Micro!Cut) PROVE Traded
  BY <1>3 DEF Micro!Next
<1>4. ASSUME NEW p \in Node, ScanStep(p) PROVE Traded
  <2>1. CASE ScanInitiate(p)
    BY <2>1, InitiateExchange, InitiateMicro DEF Micro!Next
  <2>2. CASE ScanCrash(p)
    <3>1. Crashed(p) /\ UNCHANGED <<trade, replies, state>>
      BY <2>2 DEF ScanCrash, Scan
    <3> QED
      BY <1>3, <3>1, CrashedCut
  <2> QED
    BY <1>1, <1>2, <1>4, <2>1, <2>2, ScanCalm DEF ScanStep
<1>5. ASSUME NEW p \in Node, Recv(p) PROVE Traded
  <2>1. CASE RecvDropped(p)
    <3>1. CASE Head(inbox[p]).kind = payment
      <4>1. p \in Micro!Node
        BY MicroTerms
      <4> QED
        BY <2>1, <3>1, <4>1, DroppedPayment DEF Micro!Next
    <3>2. CASE Head(inbox[p]).kind # payment
      BY <1>1, <1>2, <2>1, <3>2, DroppedCalm
    <3> QED
      BY <3>1, <3>2
  <2>2. CASE RecvReturnAdjustedRefund(p)
    <3>1. p \in Micro!Node
      BY MicroTerms
    <3> QED
      BY <2>2, <3>1, AcceptExchange, AcceptMicro DEF Micro!Next
  <2> QED
    BY <1>1, <1>2, <1>5, <2>1, <2>2, HandshakeCalm, AnswersCalm DEF Recv
<1>6. ASSUME NEW p \in Node, RouteStep(p) PROVE Traded
  <2>1. CASE RouteReply(p) /\ Gives(Head(replies[p]), payment)
    BY <2>1, PaymentSent, Stutters
  <2> QED
    BY <1>1, <1>2, <1>6, <2>1, RouteCalm, HoldCalm, EndRouteCalm DEF RouteStep
<1>7. ASSUME NEW p \in Node, Crash(p) PROVE Traded
  <2>1. Crashed(p) /\ UNCHANGED <<trade, replies, state>>
    BY <1>7 DEF Crash, loop
  <2> QED
    BY <1>3, <2>1, CrashedCut
<1>8. ASSUME Disconnect PROVE Traded
  BY <1>3, <1>8, DisconnectCut
<1>9. ASSUME ServerMatch \/ UNCHANGED vars PROVE Traded
  BY <1>1, <1>2, <1>9, IdleCalm, Parties
<1>10. ASSUME NEW p \in Node, Loop(p) \/ ConfirmSetup(p) \/ ConfirmPayout(p) PROVE Traded
  BY <1>1, <1>2, <1>4, <1>5, <1>6, <1>10, IdleCalm, MonitorCalm DEF Loop
<1> QED
  BY <1>7, <1>8, <1>9, <1>10 DEF Next

LEMMA ExchangeInvariant == Spec => []EInv
<1>1. TInv /\ Exchange /\ [Next]_vars => Exchange'
  BY StepExchange DEF EInv
<1>2. Init => Exchange
  BY InitExchange
<1> QED
  BY <1>1, <1>2, ConversationInvariant, PTL DEF Spec, EInv

LEMMA InitMicro == ASSUME Init PROVE Micro!Init
<1>1. EInv
  BY InitExchange, InitTalk, InitGInv DEF EInv, TInv
<1>2. [upload |-> Upload, chunk |-> Chunk] \in Micro!Terms
  <2>1. /\ Upload \in [Node -> {Upload[p] : p \in Node} \cup {Chunk[p] : p \in Node}]
        /\ Chunk \in [Node -> {Upload[p] : p \in Node} \cup {Chunk[p] : p \in Node}]
    BY AmountsAssumption
  <2> QED
    BY <2>1 DEF Micro!Terms, Micro!Node, Node
<1>3. \A p \in Node : Offers(p) = <<>>
  BY <1>1, InitSilent, OffersNow, Parties DEF OffersAre, OffersOf, Pending
<1>4. \A p \in Node : Mode(p) = IF p = "seller" THEN "initiate" ELSE "accept"
  BY DEF Init, Mode, CompleteStates
<1> QED
  BY <1>2, <1>3, <1>4 DEF Init, Micro!Init, Micro!Node, Node

(***************************************************************************)
(* Between the handshake and the payout the protocol does what             *)
(* Microtransfer says and nothing else: each payment is signed once, by    *)
(* adjust_refund_tx() of the party whose turn it is, is taken at most once,*)
(* in the order of signing, and never reaches a party that does not expect *)
(* one yet, whatever the sizes and whatever is lost.                       *)
(***************************************************************************)
THEOREM TradesByChunks == Spec => ImplementsMicrotransfer
<1>1. Init => Micro!Init
  BY InitMicro
<1>2. EInv /\ EInv' /\ [Next]_vars => [Micro!Next]_(Micro!vars)
  BY StepExchange
<1> QED
  BY <1>1, <1>2, ExchangeInvariant, PTL DEF Spec, ImplementsMicrotransfer, Micro!Spec

-----------------------------------------------------------------------------
(***************************************************************************)
(* What is proved of Microtransfer, for the protocol.  Chunks is Micro with*)
(* the theorems of MicrotransferProofs.                                    *)
(***************************************************************************)
Chunks == INSTANCE MicrotransferProofs WITH
    Sizes  <- {Upload[p] : p \in Node} \cup {Chunk[p] : p \in Node},
    terms  <- [upload |-> Upload, chunk |-> Chunk],
    mode   <- [p \in Node |-> Mode(p)],
    offers <- [p \in Node |-> Offers(p)],
    link   <- conUp

LEMMA SameAmounts ==
    /\ Chunks!Node = Node /\ Micro!Node = Node
    /\ \A p : /\ Chunks!SendChunk(p) = Micro!SendChunk(p) /\ Chunks!RecvChunk(p) = Micro!RecvChunk(p)
              /\ Chunks!Other(p) = Micro!Other(p) /\ Chunks!Download(p) = Micro!Download(p)
              /\ \A k : Chunks!Paid(p, k) = Micro!Paid(p, k)
    /\ \A k : Chunks!Before(k) = Micro!Before(k)
BY DEF Chunks!Node, Micro!Node, Node, Chunks!SendChunk, Micro!SendChunk, Chunks!RecvChunk, Micro!RecvChunk,
   Chunks!Other, Micro!Other, Chunks!Download, Micro!Download, Chunks!NextChunk, Micro!NextChunk,
   Chunks!Paid, Micro!Paid, Chunks!PaidAfter, Micro!PaidAfter, Chunks!Before, Micro!Before

LEMMA SameActions ==
    /\ Micro!Init => Chunks!Init
    /\ Micro!Initiate => Chunks!Initiate
    /\ Micro!Cut => Chunks!Cut
    /\ \A p : Micro!AcceptOffer(p) => Chunks!AcceptOffer(p)
    /\ \A p : Micro!IgnoreOffer(p) => Chunks!IgnoreOffer(p)
<1>1. Micro!Init => Chunks!Init
  BY SameAmounts DEF Micro!Init, Chunks!Init, Micro!Terms, Chunks!Terms
<1>2. \A p, paid : Micro!Advance(p, paid) => Chunks!Advance(p, paid)
  BY SameAmounts DEF Micro!Advance, Chunks!Advance
<1>3. Micro!Initiate => Chunks!Initiate
  BY <1>2 DEF Micro!Initiate, Chunks!Initiate
<1>4. Micro!Cut => Chunks!Cut
  BY SameAmounts DEF Micro!Cut, Chunks!Cut
<1>5. \A p, paid : Micro!Acceptable(p, paid) <=> Chunks!Acceptable(p, paid)
  BY SameAmounts DEF Micro!Acceptable, Chunks!Acceptable
<1>6. \A p, s, r : Micro!Transferred(p, s, r) <=> Chunks!Transferred(p, s, r)
  BY SameAmounts DEF Micro!Transferred, Chunks!Transferred
<1>7. \A p : Micro!AcceptOffer(p) => Chunks!AcceptOffer(p)
  BY <1>2, <1>5, <1>6, SameAmounts DEF Micro!AcceptOffer, Chunks!AcceptOffer
<1>8. \A p : Micro!IgnoreOffer(p) => Chunks!IgnoreOffer(p)
  BY <1>5 DEF Micro!IgnoreOffer, Chunks!IgnoreOffer
<1> QED
  BY <1>1, <1>3, <1>4, <1>7, <1>8

(***************************************************************************)
(* The promise of the chunked exchange, in every run of the protocol from  *)
(* the match request to the payout: at most one chunk of the seller's is at*)
(* risk (adjust_refund_tx), what a party has counted as received it can    *)
(* broadcast (our_download), and who completes first leaves the other short*)
(* of at most the last chunk, even if the connection breaks or a node stops*)
(* at once.                                                                *)
(***************************************************************************)
THEOREM FairTrade ==
    Spec => [](Micro!OneChunkAtRisk /\ Micro!BackedByDownload /\ Micro!CompleteIsFair)
<1>1. {Upload[p] : p \in Node} \cup {Chunk[p] : p \in Node} \subseteq Nat \ {0}
  BY AmountsAssumption
<1>2. /\ Chunks!Spec => []Chunks!OneChunkAtRisk
      /\ Chunks!Spec => []Chunks!BackedByDownload
      /\ Chunks!Spec => []Chunks!CompleteIsFair
  BY <1>1, Chunks!AtMostOneChunk, Chunks!Backed, Chunks!FairEnd
<1>3. Micro!Init => Chunks!Init
  BY SameActions
<1>4. [Micro!Next]_(Micro!vars) => [Chunks!Next]_(Chunks!vars)
  <2>1. Micro!vars' = Micro!vars => Chunks!vars' = Chunks!vars
    BY DEF Micro!vars, Chunks!vars
  <2> QED
    BY <2>1, SameActions, SameAmounts DEF Micro!Next, Chunks!Next
<1>5. /\ Chunks!OneChunkAtRisk => Micro!OneChunkAtRisk
      /\ Chunks!BackedByDownload => Micro!BackedByDownload
      /\ Chunks!CompleteIsFair => Micro!CompleteIsFair
  BY SameAmounts DEF Micro!OneChunkAtRisk, Chunks!OneChunkAtRisk, Micro!BackedByDownload,
     Chunks!BackedByDownload, Micro!CompleteIsFair, Chunks!CompleteIsFair
<1> QED
  BY <1>2, <1>3, <1>4, <1>5, TradesByChunks, PTL
     DEF ImplementsMicrotransfer, Micro!Spec, Chunks!Spec
=============================================================================
