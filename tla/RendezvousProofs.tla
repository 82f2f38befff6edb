-------------------------- MODULE RendezvousProofs --------------------------
(***************************************************************************)
(* For any number of challengers, any room and any bounds: the node never  *)
(* has more inbound connections than it may, and the types, among them that*)
(* the server has a list of candidates for every node that is listed.      *)
(*                                                                         *)
(* synchronize looks at the room once for all replies of a batch, and each *)
(* fight it wins takes some of it.  The invariant says why there is one    *)
(* fight for a batch at most: as long as a challenge is left to be gone    *)
(* through there is room, and the one that is accepted drops the others.   *)
(* What it does not say, as it is not so: that the node has a connection to*)
(* the server meanwhile.                                                   *)
(***************************************************************************)
EXTENDS Rendezvous, SequenceTheorems, WellFoundedInduction, TLAPS

IsChallenge(line) == line.kind = "CHALLENGE"

NoChallenge(lines) == \A i \in DOMAIN lines : ~ IsChallenge(lines[i])

(***************************************************************************)
(* The room that synchronize has seen is still there when a challenge is   *)
(* gone through, and when its fight ends.                                  *)
(***************************************************************************)
Room ==
    /\ Len(inbound) <= MaxInbound
    /\ phase = "fight" \/ ~ NoChallenge(batch) => Len(inbound) < MaxInbound

Alone == phase = "fight" => fight # None /\ NoChallenge(batch)

(***************************************************************************)
(* A challenger that is connected is so once.                              *)
(***************************************************************************)
Guests ==
    \A i \in DOMAIN inbound : inbound[i] # Other =>
        /\ state[inbound[i]] = "connected"
        /\ \A j \in DOMAIN inbound : inbound[j] = inbound[i] => i = j

IInv ==
    /\ TypeOK
    /\ Room
    /\ Alone
    /\ Guests

-----------------------------------------------------------------------------
(***************************************************************************)
(* Sets of numbers: the least one (of Without), and induction, which what  *)
(* is known of Only rests on.                                              *)
(***************************************************************************)
LEMMA LeastNat ==
    ASSUME NEW T, T \subseteq Nat, T # {}
    PROVE  \E m \in T : \A n \in T : m <= n
<1>1. PICK m \in T : \A n \in T : ~(<<n, m>> \in OpToRel(<, Nat))
  BY NatLessThanWellFounded, WFMin, Zenon
<1>2. ASSUME NEW n \in T PROVE m <= n
  <2>1. m \in Nat /\ n \in Nat /\ <<n, m>> \in Nat \X Nat
    OBVIOUS
  <2>2. <<n, m>>[1] = n /\ <<n, m>>[2] = m
    OBVIOUS
  <2>3. <<n, m>> \in OpToRel(<, Nat) <=> <<n, m>> \in Nat \X Nat /\ n < m
    BY <2>2, Zenon DEF OpToRel
  <2>4. ~(n < m)
    BY <1>1, <2>1, <2>3, Zenon
  <2> QED
    BY <2>1, <2>4
<1> QED
  BY <1>2

LEMMA SetInduction ==
    ASSUME NEW T, 0 \in T, \A n \in Nat : n \in T => n + 1 \in T
    PROVE  Nat \subseteq T
<1> SUFFICES ASSUME Nat \ T # {} PROVE FALSE
  OBVIOUS
<1>1. PICK m \in Nat \ T : \A n \in Nat \ T : m <= n
  BY LeastNat
<1>2. m # 0 /\ m - 1 \in Nat /\ m - 1 \in T
  BY <1>1
<1> QED
  BY <1>1, <1>2

(***************************************************************************)
(* The recursive function of Only exists, by induction on the length.      *)
(***************************************************************************)
Keeps(f, list, chosen, m) ==
    f = [n \in 0..m |->
           IF n = 0 THEN <<>>
           ELSE IF n \in chosen THEN Append(f[n - 1], list[n]) ELSE f[n - 1]]

LEMMA KeepsExists ==
    ASSUME NEW list, NEW chosen, NEW m \in Nat
    PROVE  \E f : Keeps(f, list, chosen, m)
<1> DEFINE T == {n \in Nat : \E f : Keeps(f, list, chosen, n)}
<1>1. 0 \in T
  <2> DEFINE g == [i \in 0..0 |-> <<>>]
  <2>1. g = [n \in 0..0 |->
               IF n = 0 THEN <<>>
               ELSE IF n \in chosen THEN Append(g[n - 1], list[n]) ELSE g[n - 1]]
    OBVIOUS
  <2> QED
    BY <2>1 DEF Keeps
<1>2. ASSUME NEW n \in Nat, n \in T PROVE n + 1 \in T
  <2>1. PICK f : Keeps(f, list, chosen, n)
    BY <1>2
  <2> DEFINE g == [i \in 0..(n + 1) |->
                     IF i # n + 1 THEN f[i]
                     ELSE IF n + 1 \in chosen THEN Append(f[n], list[n + 1]) ELSE f[n]]
  <2>2. ASSUME NEW i \in 0..(n + 1)
        PROVE  g[i] = IF i = 0 THEN <<>>
                      ELSE IF i \in chosen THEN Append(g[i - 1], list[i]) ELSE g[i - 1]
    <3>1. CASE i = n + 1
      BY <3>1
    <3>2. CASE i # n + 1
      <4>1. i \in 0..n /\ g[i] = f[i] /\ (i # 0 => i - 1 \in 0..n /\ g[i - 1] = f[i - 1])
        BY <3>2
      <4>2. f[i] = IF i = 0 THEN <<>>
                   ELSE IF i \in chosen THEN Append(f[i - 1], list[i]) ELSE f[i - 1]
        BY <2>1, <4>1 DEF Keeps
      <4> HIDE DEF g
      <4> QED
        BY <4>1, <4>2
    <3> QED
      BY <3>1, <3>2
  <2>3. Keeps(g, list, chosen, n + 1)
    BY <2>2 DEF Keeps
  <2> HIDE DEF g
  <2> QED
    BY <2>3
<1> HIDE DEF T
<1>3. Nat \subseteq T
  BY <1>1, <1>2, SetInduction
<1> QED
  BY <1>3 DEF T

Builds(f, list, chosen) ==
    /\ f[0] = <<>>
    /\ Only(list, chosen) = f[Len(list)]
    /\ \A n \in 0..Len(list) : n + 1 <= Len(list) =>
          f[n + 1] = IF n + 1 \in chosen THEN Append(f[n], list[n + 1]) ELSE f[n]

LEMMA OnlyBuilds ==
    ASSUME NEW list, Len(list) \in Nat, NEW chosen
    PROVE  \E f : Builds(f, list, chosen)
<1> DEFINE kept == CHOOSE f : Keeps(f, list, chosen, Len(list))
<1>1. Only(list, chosen) = kept[Len(list)]
  BY DEF Only, Keeps
<1>2. Keeps(kept, list, chosen, Len(list))
  BY KeepsExists
<1> HIDE DEF kept
<1>3. \A n \in 0..Len(list) :
        kept[n] = IF n = 0 THEN <<>>
                  ELSE IF n \in chosen THEN Append(kept[n - 1], list[n]) ELSE kept[n - 1]
  BY <1>2 DEF Keeps
<1>4. ASSUME NEW n \in 0..Len(list), n + 1 <= Len(list)
      PROVE  kept[n + 1] = IF n + 1 \in chosen THEN Append(kept[n], list[n + 1]) ELSE kept[n]
  <2>1. n + 1 \in 0..Len(list) /\ n + 1 # 0 /\ (n + 1) - 1 = n
    BY <1>4
  <2> QED
    BY <1>3, <2>1
<1> QED
  BY <1>1, <1>3, <1>4 DEF Builds

(***************************************************************************)
(* What it returns consists of chosen elements.                            *)
(***************************************************************************)
LEMMA OnlyType ==
    ASSUME NEW A, NEW list \in Seq(A), NEW chosen, NEW B,
           \A i \in chosen \cap DOMAIN list : list[i] \in B
    PROVE  Only(list, chosen) \in Seq(B)
<1>0. Len(list) \in Nat /\ DOMAIN list = 1..Len(list) /\ <<>> \in Seq(B)
  OBVIOUS
<1>1. PICK f : Builds(f, list, chosen)
  BY <1>0, OnlyBuilds, Zenon
<1>2. /\ f[0] = <<>>
      /\ Only(list, chosen) = f[Len(list)]
      /\ \A n \in 0..Len(list) : n + 1 <= Len(list) =>
            f[n + 1] = IF n + 1 \in chosen THEN Append(f[n], list[n + 1]) ELSE f[n]
  BY <1>1, Zenon DEF Builds
<1> DEFINE T == {n \in Nat : n <= Len(list) => f[n] \in Seq(B)}
<1>3. 0 \in T
  <2>1. f[0] \in Seq(B)
    BY <1>0, <1>2, Zenon
  <2> QED
    BY <2>1
<1>4. ASSUME NEW n \in Nat, n \in T PROVE n + 1 \in T
  <2> SUFFICES ASSUME n + 1 <= Len(list) PROVE f[n + 1] \in Seq(B)
    OBVIOUS
  <2>1. n \in 0..Len(list) /\ f[n] \in Seq(B) /\ n + 1 \in DOMAIN list
    BY <1>0, <1>4
  <2>2. f[n + 1] = IF n + 1 \in chosen THEN Append(f[n], list[n + 1]) ELSE f[n]
    BY <1>2, <2>1, Zenon
  <2>3. CASE n + 1 \in chosen
    <3>1. list[n + 1] \in B /\ Append(f[n], list[n + 1]) \in Seq(B)
      BY <2>1, <2>3
    <3> QED
      BY <2>2, <2>3, <3>1, Zenon
  <2>4. CASE n + 1 \notin chosen
    BY <2>1, <2>2, <2>4, Zenon
  <2> QED
    BY <2>3, <2>4
<1> HIDE DEF T
<1>5. Nat \subseteq T
  BY <1>3, <1>4, SetInduction
<1>6. f[Len(list)] \in Seq(B)
  BY <1>0, <1>5 DEF T
<1> QED
  BY <1>2, <1>6, Zenon

LEMMA OnlyPart ==
    ASSUME NEW A, NEW list \in Seq(A), NEW chosen
    PROVE  Only(list, chosen) \in Seq(A)
<1>1. \A i \in chosen \cap DOMAIN list : list[i] \in A
  OBVIOUS
<1> QED
  BY <1>1, OnlyType, Zenon

(***************************************************************************)
(* What an element is removed from: the library's RemoveAt, and Without.   *)
(***************************************************************************)
LEMMA RemoveAtPlace ==
    ASSUME NEW A, NEW list \in Seq(A), NEW i \in DOMAIN list
    PROVE  /\ RemoveAt(list, i) \in Seq(A)
           /\ Len(RemoveAt(list, i)) = Len(list) - 1
           /\ \A k \in DOMAIN RemoveAt(list, i) :
                 RemoveAt(list, i)[k] = IF k < i THEN list[k] ELSE list[k + 1]
<1> DEFINE before == SubSeq(list, 1, i - 1)
           after == SubSeq(list, i + 1, Len(list))
<1>1. i \in 1..Len(list) /\ Len(list) \in Nat
  OBVIOUS
<1>2. /\ before \in Seq(A) /\ Len(before) = i - 1
      /\ \A k \in 1..(i - 1) : before[k] = list[k]
  BY <1>1
<1>3. /\ after \in Seq(A) /\ Len(after) = Len(list) - i
      /\ \A k \in 1..(Len(list) - i) : after[k] = list[i + k]
  BY <1>1
<1>4. RemoveAt(list, i) = before \o after
  BY DEF RemoveAt
<1> HIDE DEF before, after
<1>5. before \o after \in Seq(A) /\ Len(before \o after) = Len(list) - 1
  BY <1>1, <1>2, <1>3
<1>6. ASSUME NEW k \in 1..(Len(list) - 1)
      PROVE  (before \o after)[k] = IF k < i THEN list[k] ELSE list[k + 1]
  <2>1. CASE k < i
    BY <1>1, <1>2, <1>3, <2>1
  <2>2. CASE ~ (k < i)
    <3>1. (before \o after)[k] = after[k - Len(before)]
      <4>1. k \in 1..(Len(before) + Len(after)) /\ ~ (k <= Len(before))
        BY <1>1, <1>2, <1>3, <2>2
      <4>2. before \in Seq(A) /\ after \in Seq(A)
        BY <1>2, <1>3
      <4> QED
        BY <4>1, <4>2, ConcatProperties, Zenon
    <3>2. k - (i - 1) \in 1..(Len(list) - i) /\ i + (k - (i - 1)) = k + 1
      BY <1>1, <2>2
    <3> QED
      BY <1>2, <1>3, <2>2, <3>1, <3>2
  <2> QED
    BY <2>1, <2>2
<1>7. DOMAIN (before \o after) = 1..(Len(list) - 1)
  BY <1>5
<1> QED
  BY <1>4, <1>5, <1>6, <1>7, Zenon

LEMMA WithoutPart ==
    ASSUME NEW list \in Seq(Candidate), NEW c
    PROVE  Without(list, c) \in Seq(Candidate)
<1> DEFINE mine == {i \in DOMAIN list : list[i].attempt[1] = c}
           first == CHOOSE i \in mine : \A j \in mine : i <= j
<1>1. CASE mine = {}
  BY <1>1 DEF Without
<1>2. CASE mine # {}
  <2>1. mine \subseteq Nat
    OBVIOUS
  <2>2. \E i \in mine : \A j \in mine : i <= j
    BY <1>2, <2>1, LeastNat
  <2>3. first \in mine
    BY <2>2
  <2>4. Without(list, c) = RemoveAt(list, first)
    BY <1>2 DEF Without
  <2> HIDE DEF first
  <2>5. first \in DOMAIN list
    BY <2>3
  <2> QED
    BY <2>4, <2>5, RemoveAtPlace
<1> QED
  BY <1>1, <1>2

(***************************************************************************)
(* What the server's handlers make of the candidates, and tell the node.   *)
(***************************************************************************)
LEMMA ChallengeFacts ==
    ASSUME NEW a \in Attempt
    PROVE  Challenge(a) \in ToNode
BY DEF Challenge, ToNode

LEMMA ToNodeFacts ==
    ASSUME NEW line \in ToNode, IsChallenge(line)
    PROVE  line.attempt \in Attempt
BY DEF ToNode, IsChallenge

LEMMA AttemptFacts ==
    ASSUME NEW a \in Attempt
    PROVE  a[1] \in Challenger
BY DEF Attempt

LEMMA ChallengesOf ==
    ASSUME NEW list \in Seq(Candidate)
    PROVE  Challenges(list) \in Seq(ToNode)
<1>1. Pending(list) \in Seq(Candidate)
  BY OnlyPart, Zenon DEF Pending
<1>2. \A i \in DOMAIN Pending(list) : Pending(list)[i].attempt \in Attempt
  <2>1. \A i \in DOMAIN Pending(list) : Pending(list)[i] \in Candidate
    BY <1>1
  <2> QED
    BY <2>1 DEF Candidate
<1>3. DOMAIN Pending(list) = 1..Len(Pending(list)) /\ Len(Pending(list)) \in Nat
  BY <1>1
<1>4. \A i \in DOMAIN Pending(list) : Challenge(Pending(list)[i].attempt) \in ToNode
  BY <1>2, ChallengeFacts
<1> QED
  BY <1>3, <1>4 DEF Challenges

LEMMA CleanedPart ==
    ASSUME NEW list \in Seq(Candidate), NEW young \in Cleaned(list)
    PROVE  young \in Seq(Candidate)
<1>1. PICK k \in 0..Len(list) : young = SubSeq(list, k + 1, Len(list))
  BY DEF Cleaned
<1> QED
  BY <1>1

LEMMA TellPart ==
    ASSUME inbox \in Seq(ToNode), NEW lines \in Seq(ToNode), Tell(lines)
    PROVE  inbox' \in Seq(ToNode)
<1>1. inbox \o lines \in Seq(ToNode)
  OBVIOUS
<1> QED
  BY <1>1 DEF Tell

LEMMA PropogateFacts ==
    ASSUME inbox \in Seq(ToNode), NEW list \in Seq(Candidate), CleanAndPropogate(list)
    PROVE  candidates' \in Seq(Candidate) /\ inbox' \in Seq(ToNode)
<1>1. PICK young \in Cleaned(list) : candidates' = young /\ Tell(Challenges(young))
  BY DEF CleanAndPropogate
<1> QED
  BY <1>1, CleanedPart, ChallengesOf, TellPart

LEMMA SynchronizeFacts ==
    ASSUME inbox \in Seq(ToNode), NEW list \in Seq(Candidate), Synchronize(list)
    PROVE  candidates' \in Seq(Candidate) /\ inbox' \in Seq(ToNode)
<1>1. ASSUME candidates' = list, Tell(<<[kind |-> "RECONNECT"]>>)
      PROVE  candidates' \in Seq(Candidate) /\ inbox' \in Seq(ToNode)
  <2>1. [kind |-> "RECONNECT"] \in ToNode
    BY DEF ToNode
  <2>2. <<[kind |-> "RECONNECT"]>> \in Seq(ToNode)
    BY <2>1
  <2> QED
    BY <1>1, <2>2, TellPart
<1>2. ASSUME CleanAndPropogate(list)
      PROVE  candidates' \in Seq(Candidate) /\ inbox' \in Seq(ToNode)
  BY <1>2, PropogateFacts
<1> QED
  BY <1>1, <1>2 DEF Synchronize

LEMMA InTimePart ==
    ASSUME NEW list \in Seq(Candidate)
    PROVE  InTime(list) \in Seq(Candidate)
<1>1. ASSUME NEW i \in DOMAIN list
      PROVE  [list[i] EXCEPT !.late = FALSE] \in Candidate
  <2>1. list[i] \in Candidate
    OBVIOUS
  <2> QED
    BY <2>1 DEF Candidate
<1>2. DOMAIN list = 1..Len(list) /\ Len(list) \in Nat
  OBVIOUS
<1> QED
  BY <1>1, <1>2 DEF InTime

LEMMA NotNone == \A list \in Seq(Candidate) : list # None
BY NoneAssumption

-----------------------------------------------------------------------------
(***************************************************************************)
(* The invariant, step by step.                                            *)
(***************************************************************************)
LEMMA InitIInv == Init => IInv
<1> SUFFICES ASSUME Init PROVE IInv
  OBVIOUS
<1>1. TypeOK
  <2>1. <<>> \in Seq(Candidate) /\ <<>> \in Seq(ToNode) /\ <<>> \in Seq(Challenger \cup {Other})
    OBVIOUS
  <2>2. [s \in Slot |-> <<>>] \in [Slot -> Seq(ToServer)] /\ 1 \in Slot
    BY SizeAssumption DEF Slot
  <2>3. \A c \in Challenger : 0 <= Attempts[c]
    BY SizeAssumption
  <2>4. candidates # None
    BY <2>1, NotNone DEF Init
  <2> QED
    BY <2>1, <2>2, <2>3, <2>4 DEF Init, TypeOK
<1> QED
  BY <1>1, SizeAssumption DEF IInv, Init, Room, NoChallenge, Alone, Guests

(***************************************************************************)
(* The server's steps, and those of the network, leave the node and the    *)
(* challengers alone.                                                      *)
(***************************************************************************)
ServerPart ==
    /\ listed \in Slot \cup {None} /\ recent \in BOOLEAN
    /\ candidates \in Seq(Candidate) \cup {None}
    /\ listed # None => candidates # None
    /\ inbox \in Seq(ToNode)

LEMMA ServerPartHolds ==
    ASSUME IInv
    PROVE  ServerPart
BY DEF IInv, TypeOK, ServerPart

LEMMA ServerStepKeeps ==
    ASSUME IInv, ServerPart',
           UNCHANGED <<con, phase, batch, fight, inbound, accepting,
                       attempts, state, against, missed>>,
           up' \subseteq Slot, upc' \subseteq Attempt, outbox' \in [Slot -> Seq(ToServer)],
           asks' \subseteq Attempt, fights' \subseteq Attempt \X Slot, clears' \in BOOLEAN
    PROVE  IInv'
<1>1. TypeOK'
  BY DEF IInv, TypeOK, Waiting, ServerPart
<1>2. Room' /\ Alone' /\ Guests'
  BY DEF IInv, Room, NoChallenge, IsChallenge, Alone, Guests
<1> QED
  BY <1>1, <1>2 DEF IInv

LEMMA RefreshKeeps ==
    ASSUME IInv, Refresh, UNCHANGED listed
    PROVE  ServerPart'
<1>1. ServerPart
  BY ServerPartHolds
<1>2. CASE listed = None
  BY <1>1, <1>2 DEF Refresh, ServerPart
<1>3. CASE listed # None
  <2>1. candidates \in Seq(Candidate) /\ inbox \in Seq(ToNode)
    BY <1>1, <1>3 DEF ServerPart
  <2>2. recent' = TRUE /\ Synchronize(InTime(candidates))
    BY <1>3 DEF Refresh
  <2>3. candidates' \in Seq(Candidate) /\ inbox' \in Seq(ToNode)
    BY <2>1, <2>2, InTimePart, SynchronizeFacts
  <2> QED
    BY <1>1, <2>2, <2>3, NotNone DEF ServerPart
<1> QED
  BY <1>2, <1>3

(***************************************************************************)
(* After a fight that has used the last room con is closed.                *)
(***************************************************************************)
LEMMA ConnectionMadeKeeps ==
    ASSUME IInv, NEW s \in Slot, ConnectionMade(s)
    PROVE  IInv'
<1>1. /\ con = s /\ phase' = "loop" /\ fight' = None
      /\ up' = up \cup {s}
      /\ UNCHANGED <<listed, upc, asks, fights, clears, batch, inbound,
                     attempts, state, against, missed>>
  BY DEF ConnectionMade, Announces, challengers
<1>2. /\ outbox' \in [Slot -> Seq(ToServer)]
      /\ con' \in Slot \cup {Closed} /\ accepting' \in BOOLEAN
  <2>1. <<"READY", "CLEAR">> \in Seq(ToServer) /\ <<"READY">> \in Seq(ToServer)
    BY DEF ToServer
  <2>2. outbox \in [Slot -> Seq(ToServer)] /\ accepting \in BOOLEAN
    BY DEF IInv, TypeOK
  <2>3. \/ /\ outbox' = [outbox EXCEPT ![s] = <<"READY", "CLEAR">>]
           /\ con' = Closed /\ accepting' = FALSE
        \/ /\ outbox' = [outbox EXCEPT ![s] = <<"READY">>]
           /\ UNCHANGED <<con, accepting>>
    BY DEF ConnectionMade, Announces
  <2> QED
    BY <1>1, <2>1, <2>2, <2>3
<1>3. ServerPart'
  BY <1>1, RefreshKeeps DEF ConnectionMade
<1>4. TypeOK'
  BY <1>1, <1>2, <1>3 DEF IInv, TypeOK, Waiting, ServerPart
<1>5. Room' /\ Alone' /\ Guests'
  BY <1>1 DEF IInv, Room, NoChallenge, IsChallenge, Alone, Guests
<1> QED
  BY <1>4, <1>5 DEF IInv

LEMMA VisitKeeps ==
    ASSUME IInv, Visit
    PROVE  IInv'
<1>1. UNCHANGED <<listed, up, upc, outbox, asks, fights, clears,
                  con, phase, batch, fight, inbound, accepting, attempts, state, against, missed>>
  BY DEF Visit, node, challengers
<1>2. ServerPart'
  BY <1>1, RefreshKeeps DEF Visit
<1>3. up' \subseteq Slot /\ upc' \subseteq Attempt /\ clears' \in BOOLEAN
      /\ asks' \subseteq Attempt /\ fights' \subseteq Attempt \X Slot
      /\ outbox' \in [Slot -> Seq(ToServer)]
  BY <1>1 DEF IInv, TypeOK
<1> QED
  BY <1>1, <1>2, <1>3, ServerStepKeeps

LEMMA OnReadyKeeps ==
    ASSUME IInv, NEW s \in Slot, OnReady(s)
    PROVE  ServerPart'
<1>1. listed' = s /\ recent' = TRUE
  BY DEF OnReady
<1>2. candidates' \in Seq(Candidate) /\ inbox' \in Seq(ToNode)
  <2>1. CASE candidates = None
    <3>1. candidates' = <<>> /\ UNCHANGED inbox
      BY <2>1 DEF OnReady
    <3> QED
      BY <3>1, ServerPartHolds DEF ServerPart
  <2>2. CASE candidates # None
    <3>1. CleanAndPropogate(InTime(candidates))
      BY <2>2 DEF OnReady, Relist
    <3>2. candidates \in Seq(Candidate) /\ inbox \in Seq(ToNode)
      BY <2>2, ServerPartHolds DEF ServerPart
    <3> QED
      BY <3>1, <3>2, InTimePart, PropogateFacts
  <2> QED
    BY <2>1, <2>2
<1> QED
  BY <1>1, <1>2, NotNone DEF ServerPart

LEMMA OnAcceptKeeps ==
    ASSUME IInv, NEW s \in Slot, NEW c, OnAccept(s, c)
    PROVE  ServerPart' /\ fights' \subseteq Attempt \X Slot
<1> DEFINE list == IF candidates = None THEN <<>> ELSE candidates
<1>1. UNCHANGED <<listed, recent, inbox>> /\ fights \subseteq Attempt \X Slot /\ ServerPart
  BY ServerPartHolds DEF OnAccept, IInv, TypeOK
<1>2. CASE UNCHANGED <<candidates, fights>>
  BY <1>1, <1>2 DEF ServerPart
<1>3. CASE \E i \in DOMAIN list :
             /\ candidates' = [list EXCEPT ![i].propogated = TRUE]
             /\ fights' = IF list[i].attempt \in upc
                          THEN fights \cup {<<list[i].attempt, s>>} ELSE fights
  <2>1. PICK i \in DOMAIN list :
             /\ candidates' = [list EXCEPT ![i].propogated = TRUE]
             /\ fights' = IF list[i].attempt \in upc
                          THEN fights \cup {<<list[i].attempt, s>>} ELSE fights
    BY <1>3
  <2>2. /\ list = candidates /\ candidates \in Seq(Candidate)
        /\ candidates[i] \in Candidate
    BY <1>1, <2>1 DEF ServerPart
  <2>3. fights' \subseteq Attempt \X Slot
    <3>1. candidates[i].attempt \in Attempt
      BY <2>2 DEF Candidate
    <3> QED
      BY <1>1, <2>1, <2>2, <3>1
  <2>4. [candidates[i] EXCEPT !.propogated = TRUE] \in Candidate
    BY <2>2 DEF Candidate
  <2>5. candidates' = [candidates EXCEPT ![i] = [candidates[i] EXCEPT !.propogated = TRUE]]
    BY <2>1, <2>2
  <2>6. candidates' \in Seq(Candidate)
    BY <2>2, <2>4, <2>5
  <2> QED
    BY <1>1, <2>3, <2>6, NotNone DEF ServerPart
<1> QED
  BY <1>2, <1>3 DEF OnAccept

LEMMA OnClearKeeps ==
    ASSUME IInv, OnClear
    PROVE  ServerPart'
BY ServerPartHolds DEF OnClear, ServerPart

LEMMA LineReceivedKeeps ==
    ASSUME IInv, NEW s \in Slot, LineReceived(s)
    PROVE  IInv'
<1>1. /\ outbox[s] # <<>>
      /\ outbox' = [outbox EXCEPT ![s] = Tail(@)]
      /\ UNCHANGED <<asks, clears, con, phase, batch, fight, inbound, accepting,
                     attempts, state, against, missed>>
  BY DEF LineReceived, node, challengers
<1>2. outbox' \in [Slot -> Seq(ToServer)]
  <2>1. outbox \in [Slot -> Seq(ToServer)]
    BY DEF IInv, TypeOK
  <2>2. Tail(outbox[s]) \in Seq(ToServer)
    BY <1>1, <2>1
  <2> QED
    BY <1>1, <2>1, <2>2
<1>3. ServerPart' /\ fights' \subseteq Attempt \X Slot /\ UNCHANGED <<up, upc>>
  <2>1. CASE OnReady(s)
    BY <2>1, OnReadyKeeps DEF OnReady, IInv, TypeOK
  <2>2. ASSUME NEW c \in Challenger, OnAccept(s, c)
        PROVE  ServerPart' /\ fights' \subseteq Attempt \X Slot /\ UNCHANGED <<up, upc>>
    BY <2>2, OnAcceptKeeps DEF OnAccept
  <2>3. CASE OnClear
    BY <2>3, OnClearKeeps DEF OnClear, IInv, TypeOK
  <2> QED
    BY <2>1, <2>2, <2>3 DEF LineReceived
<1>4. up' \subseteq Slot /\ upc' \subseteq Attempt /\ clears' \in BOOLEAN /\ asks' \subseteq Attempt
  BY <1>1, <1>3 DEF IInv, TypeOK
<1> QED
  BY <1>1, <1>2, <1>3, <1>4, ServerStepKeeps

LEMMA LeaveReceivedKeeps ==
    ASSUME IInv, LeaveReceived
    PROVE  IInv'
<1>1. /\ clears' = FALSE
      /\ UNCHANGED <<up, upc, fights, outbox, asks, con, phase, batch, fight, inbound, accepting,
                     attempts, state, against, missed>>
  BY DEF LeaveReceived, OnClear, node, challengers
<1>2. ServerPart'
  BY OnClearKeeps DEF LeaveReceived
<1>3. up' \subseteq Slot /\ upc' \subseteq Attempt /\ clears' \in BOOLEAN
      /\ asks' \subseteq Attempt /\ fights' \subseteq Attempt \X Slot
      /\ outbox' \in [Slot -> Seq(ToServer)]
  BY <1>1 DEF IInv, TypeOK
<1> QED
  BY <1>1, <1>2, <1>3, ServerStepKeeps

(***************************************************************************)
(* A list goes only if its node is not listed any more.                    *)
(***************************************************************************)
LEMMA CleanUpKeeps ==
    ASSUME IInv, CleanUp, UNCHANGED recent, inbox' \in Seq(ToNode)
    PROVE  ServerPart'
<1>1. /\ listed' = listed \/ listed' = None
      /\ candidates' = candidates \/ (candidates' = None /\ listed' = None)
  BY DEF CleanUp
<1> QED
  BY <1>1, ServerPartHolds DEF ServerPart

LEMMA NodeLostKeeps ==
    ASSUME IInv, NEW s \in Slot, NodeLost(s)
    PROVE  IInv'
<1>1. /\ up' = up \ {s} /\ CleanUp
      /\ UNCHANGED <<recent, upc, inbox, outbox, asks, fights, clears,
                     con, phase, batch, fight, inbound, accepting,
                     attempts, state, against, missed>>
  BY DEF NodeLost, network, node, challengers
<1>2. ServerPart'
  BY <1>1, CleanUpKeeps, ServerPartHolds DEF ServerPart
<1>3. up' \subseteq Slot /\ upc' \subseteq Attempt /\ clears' \in BOOLEAN
      /\ asks' \subseteq Attempt /\ fights' \subseteq Attempt \X Slot
      /\ outbox' \in [Slot -> Seq(ToServer)]
  BY <1>1 DEF IInv, TypeOK
<1> QED
  BY <1>1, <1>2, <1>3, ServerStepKeeps

LEMMA BreaksKeeps ==
    ASSUME IInv, Breaks
    PROVE  IInv'
<1>1. /\ up' = up \ {con} /\ CleanUp
      /\ outbox' = [outbox EXCEPT ![con] = <<>>]
      /\ UNCHANGED <<recent, upc, asks, fights, clears,
                     con, phase, batch, fight, inbound, accepting,
                     attempts, state, against, missed>>
  BY DEF Breaks, node, challengers
<1>2. inbox' \in Seq(ToNode)
  <2>1. PICK k \in 0..Len(inbox) : inbox' = SubSeq(inbox, 1, k)
    BY DEF Breaks
  <2>2. inbox \in Seq(ToNode)
    BY DEF IInv, TypeOK
  <2> QED
    BY <2>1, <2>2
<1>3. ServerPart'
  BY <1>1, <1>2, CleanUpKeeps
<1>4. outbox' \in [Slot -> Seq(ToServer)]
  <2>1. outbox \in [Slot -> Seq(ToServer)] /\ <<>> \in Seq(ToServer)
    BY DEF IInv, TypeOK
  <2> QED
    BY <1>1, <2>1
<1>5. up' \subseteq Slot /\ upc' \subseteq Attempt /\ clears' \in BOOLEAN
      /\ asks' \subseteq Attempt /\ fights' \subseteq Attempt \X Slot
  BY <1>1 DEF IInv, TypeOK
<1> QED
  BY <1>1, <1>3, <1>4, <1>5, ServerStepKeeps

LEMMA ChallengerLostKeeps ==
    ASSUME IInv, NEW a \in Attempt, ChallengerLost(a)
    PROVE  IInv'
<1>1. /\ upc' = upc \ {a} /\ CleanUp
      /\ fights' = {f \in fights : f[1] # a}
      /\ UNCHANGED <<recent, up, inbox, outbox, asks, clears,
                     con, phase, batch, fight, inbound, accepting,
                     attempts, state, against, missed>>
  BY DEF ChallengerLost, node, challengers
<1>2. ServerPart'
  BY <1>1, CleanUpKeeps, ServerPartHolds DEF ServerPart
<1>3. up' \subseteq Slot /\ upc' \subseteq Attempt /\ clears' \in BOOLEAN
      /\ asks' \subseteq Attempt /\ fights' \subseteq Attempt \X Slot
      /\ outbox' \in [Slot -> Seq(ToServer)]
  BY <1>1 DEF IInv, TypeOK
<1> QED
  BY <1>1, <1>2, <1>3, ServerStepKeeps

(***************************************************************************)
(* A candidate is listed only for a node that is.                          *)
(***************************************************************************)
LEMMA CandidateListed ==
    ASSUME ServerPart, listed \in Slot, NEW a \in Attempt, recent' \in BOOLEAN,
           NEW list, list = Append(Without(candidates, a[1]), NewCandidate(a))
    PROVE  list \in Seq(Candidate)
<1>1. candidates \in Seq(Candidate)
  BY NoneAssumption DEF ServerPart
<1>2. Without(candidates, a[1]) \in Seq(Candidate)
  BY <1>1, WithoutPart
<1>3. NewCandidate(a) \in Candidate
  BY DEF NewCandidate, Candidate
<1> QED
  BY <1>2, <1>3

LEMMA CandidateReceivedKeeps ==
    ASSUME IInv, NEW a \in Attempt, CandidateReceived(a)
    PROVE  IInv'
<1>1. /\ asks' = asks \ {a}
      /\ UNCHANGED <<listed, up, upc, outbox, fights, clears,
                     con, phase, batch, fight, inbound, accepting,
                     attempts, state, against, missed>>
  BY DEF CandidateReceived, node, challengers
<1>2. ServerPart
  BY ServerPartHolds
<1>3. ServerPart'
  <2>1. CASE UNCHANGED <<recent, candidates, inbox>>
    BY <1>1, <1>2, <2>1 DEF ServerPart
  <2>2. CASE /\ listed \in up
             /\ recent' \in {recent, FALSE}
             /\ Synchronize(Append(Without(candidates, a[1]), NewCandidate(a)))
    <3>1. PICK list : list = Append(Without(candidates, a[1]), NewCandidate(a))
      OBVIOUS
    <3>2. listed \in Slot /\ recent' \in BOOLEAN /\ inbox \in Seq(ToNode)
      BY <1>2, <2>2 DEF IInv, TypeOK, ServerPart
    <3>3. list \in Seq(Candidate)
      BY <1>2, <3>1, <3>2, CandidateListed
    <3>4. candidates' \in Seq(Candidate) /\ inbox' \in Seq(ToNode)
      BY <2>2, <3>1, <3>2, <3>3, SynchronizeFacts
    <3> QED
      BY <1>1, <1>2, <3>2, <3>4, NotNone DEF ServerPart
  <2> QED
    BY <2>1, <2>2 DEF CandidateReceived
<1>4. up' \subseteq Slot /\ upc' \subseteq Attempt /\ clears' \in BOOLEAN
      /\ asks' \subseteq Attempt /\ fights' \subseteq Attempt \X Slot
      /\ outbox' \in [Slot -> Seq(ToServer)]
  BY <1>1 DEF IInv, TypeOK
<1> QED
  BY <1>1, <1>3, <1>4, ServerStepKeeps

-----------------------------------------------------------------------------
(***************************************************************************)
(* What the steps of the node have to keep.                                *)
(***************************************************************************)
NodePart ==
    /\ con \in Slot \cup {Closed} /\ phase \in {"loop", "fight", "dial", "stopped"}
    /\ batch \in Seq(ToNode) /\ inbox \in Seq(ToNode)
    /\ fight \in Attempt \cup {None}
    /\ inbound \in Seq(Challenger \cup {Other}) /\ accepting \in BOOLEAN
    /\ state \in [Challenger -> {"idle", "waiting", "fighting", "connected"}]
    /\ against \in [Challenger -> Slot \cup {None}]
    /\ missed \subseteq Waiting
    /\ outbox \in [Slot -> Seq(ToServer)] /\ clears \in BOOLEAN
    /\ Room /\ Alone /\ Guests

LEMMA NodePartHolds ==
    ASSUME IInv
    PROVE  NodePart
BY DEF IInv, TypeOK, NodePart

LEMMA NodeStepKeeps ==
    ASSUME IInv, NodePart',
           UNCHANGED <<listed, recent, candidates, up, upc, asks, fights, attempts>>
    PROVE  IInv'
<1>1. TypeOK'
  BY DEF IInv, TypeOK, NodePart
<1> QED
  BY <1>1 DEF IInv, NodePart

(***************************************************************************)
(* Another connection: what was told on the old one is lost.               *)
(***************************************************************************)
LEMMA ListenFacts ==
    ASSUME IInv, Listen
    PROVE  /\ con' \in Slot /\ phase' = "dial" /\ inbox' \in Seq(ToNode) /\ missed' = {}
           /\ UNCHANGED <<outbox, asks, fights, clears>>
<1>1. con' \in Slot /\ phase' = "dial" /\ inbox' = <<>> /\ missed' = {}
      /\ UNCHANGED <<outbox, asks, fights, clears>>
  BY DEF Listen
<1> QED
  BY <1>1

LEMMA TailKeeps ==
    ASSUME IInv, batch # <<>>, batch' = Tail(batch)
    PROVE  batch' \in Seq(ToNode) /\ (NoChallenge(batch) => NoChallenge(batch)')
<1>1. /\ batch \in Seq(ToNode) /\ Tail(batch) \in Seq(ToNode)
      /\ \A i \in DOMAIN Tail(batch) : i + 1 \in DOMAIN batch /\ Tail(batch)[i] = batch[i + 1]
  BY DEF IInv, TypeOK
<1> QED
  BY <1>1 DEF NoChallenge, IsChallenge

LEMMA AdvertiseKeeps ==
    ASSUME IInv, Advertise
    PROVE  IInv'
<1>1. /\ batch = <<>> /\ phase = "loop" /\ accepting' = TRUE
      /\ UNCHANGED <<batch, fight, inbound, attempts, state, against,
                     listed, recent, candidates, up, upc>>
  BY DEF Advertise, server
<1>2. /\ con' \in Slot \cup {Closed} /\ phase' \in {"loop", "dial"} /\ inbox' \in Seq(ToNode)
      /\ missed' \subseteq Waiting' /\ UNCHANGED <<outbox, asks, fights, clears>>
  <2>1. CASE con = Closed
    BY <1>1, <2>1, NodePartHolds DEF Advertise, network, NodePart, Waiting
  <2>2. CASE con # Closed
    BY <2>2, ListenFacts DEF Advertise
  <2> QED
    BY <2>1, <2>2
<1>3. Room' /\ Alone' /\ Guests'
  BY <1>1, <1>2 DEF IInv, Room, NoChallenge, Alone, Guests
<1>4. NodePart'
  BY <1>1, <1>2, <1>3, NodePartHolds DEF NodePart
<1> QED
  BY <1>1, <1>2, <1>4, NodeStepKeeps

LEMMA AcceptInboundKeeps ==
    ASSUME IInv, AcceptInbound
    PROVE  IInv'
<1>1. /\ phase = "loop" /\ batch = <<>> /\ Len(inbound) < MaxInbound
      /\ inbound' = Append(inbound, Other) /\ clears' \in BOOLEAN /\ accepting' \in BOOLEAN
      /\ UNCHANGED <<con, phase, batch, fight, inbox, outbox, asks, fights, attempts, state, against,
                     missed, listed, recent, candidates, up, upc>>
  <2>1. clears \in BOOLEAN /\ accepting \in BOOLEAN
    BY DEF IInv, TypeOK
  <2>2. UNCHANGED <<clears, accepting>> \/ LeaveFight
    BY DEF AcceptInbound
  <2>3. clears' \in BOOLEAN /\ accepting' \in BOOLEAN
    BY <2>1, <2>2 DEF LeaveFight
  <2> QED
    BY <2>3 DEF AcceptInbound, HasRoom, server, challengers
<1>2. inbound \in Seq(Challenger \cup {Other}) /\ MaxInbound \in Nat
  BY SizeAssumption DEF IInv, TypeOK
<1>3. /\ inbound' \in Seq(Challenger \cup {Other}) /\ Len(inbound') = Len(inbound) + 1
      /\ \A i \in DOMAIN inbound' :
            (i \in DOMAIN inbound /\ inbound'[i] = inbound[i]) \/ inbound'[i] = Other
  BY <1>1, <1>2
<1>4. Room' /\ Alone'
  BY <1>1, <1>2, <1>3 DEF Room, NoChallenge, Alone
<1>5. Guests'
  BY <1>1, <1>3 DEF IInv, Guests
<1>6. NodePart'
  BY <1>1, <1>3, <1>4, <1>5, NodePartHolds DEF NodePart, Waiting
<1> QED
  BY <1>1, <1>6, NodeStepKeeps

LEMMA FetchKeeps ==
    ASSUME IInv, Fetch
    PROVE  IInv'
<1>1. /\ phase = "loop" /\ Len(inbound) < MaxInbound
      /\ batch' = inbox /\ inbox' = <<>>
      /\ missed' \subseteq missed
      /\ UNCHANGED <<con, phase, fight, inbound, accepting, outbox, asks, fights, clears,
                     attempts, state, against, listed, recent, candidates, up, upc>>
  BY DEF Fetch, StillRoom, server
<1>2. batch' \in Seq(ToNode) /\ inbox' \in Seq(ToNode)
  BY <1>1, NodePartHolds DEF NodePart
<1>3. Room' /\ Alone' /\ Guests'
  BY <1>1 DEF IInv, Room, Alone, Guests
<1>4. NodePart'
  BY <1>1, <1>2, <1>3, NodePartHolds DEF NodePart, Waiting
<1> QED
  BY <1>1, <1>4, NodeStepKeeps

LEMMA ServerGoneKeeps ==
    ASSUME IInv, ServerGone
    PROVE  IInv'
<1>1. /\ con' = Closed /\ inbox' = <<>>
      /\ UNCHANGED <<phase, batch, fight, inbound, accepting, outbox, asks, fights, clears,
                     attempts, state, against, missed, listed, recent, candidates, up, upc>>
  BY DEF ServerGone, server, challengers
<1>2. Room' /\ Alone' /\ Guests'
  BY <1>1 DEF IInv, Room, NoChallenge, IsChallenge, Alone, Guests
<1>3. inbox' \in Seq(ToNode)
  BY <1>1
<1>4. NodePart'
  BY <1>1, <1>2, <1>3, NodePartHolds DEF NodePart, Waiting
<1> QED
  BY <1>1, <1>4, NodeStepKeeps

LEMMA ReconnectKeeps ==
    ASSUME IInv, Reconnect
    PROVE  IInv'
<1>1. /\ phase = "loop" /\ batch # <<>>
      /\ UNCHANGED <<fight, inbound, accepting, attempts, state, against,
                     listed, recent, candidates, up, upc>>
  BY DEF Reconnect, server
<1>2. CASE batch' = Tail(batch) /\ Listen
  <2>1. batch' \in Seq(ToNode) /\ (NoChallenge(batch) => NoChallenge(batch)')
    BY <1>1, <1>2, TailKeeps
  <2>2. Room' /\ Alone' /\ Guests'
    BY <1>1, <1>2, <2>1, ListenFacts DEF IInv, Room, Alone, Guests
  <2>3. NodePart'
    BY <1>1, <1>2, <2>1, <2>2, ListenFacts, NodePartHolds DEF NodePart
  <2> QED
    BY <1>1, <1>2, <2>3, ListenFacts, NodeStepKeeps
<1>3. CASE /\ con = Closed /\ batch' = <<>> /\ phase' = "stopped"
           /\ UNCHANGED <<con, missed, network>>
  <2>1. batch' \in Seq(ToNode) /\ NoChallenge(batch)'
    BY <1>3 DEF NoChallenge
  <2>2. Room' /\ Alone' /\ Guests'
    BY <1>1, <1>3, <2>1 DEF IInv, Room, Alone, Guests
  <2>3. NodePart'
    BY <1>1, <1>3, <2>1, <2>2, NodePartHolds DEF NodePart, Waiting, network
  <2> QED
    BY <1>1, <1>3, <2>3, NodeStepKeeps DEF network
<1> QED
  BY <1>2, <1>3 DEF Reconnect

LEMMA SkipChallengeKeeps ==
    ASSUME IInv, SkipChallenge
    PROVE  IInv'
<1>1. /\ phase = "loop" /\ batch # <<>> /\ batch' = Tail(batch)
      /\ missed' \subseteq missed \cup Waiting
      /\ UNCHANGED <<con, phase, fight, inbound, accepting, inbox, outbox, asks, fights, clears,
                     attempts, state, against, listed, recent, candidates, up, upc>>
  BY DEF SkipChallenge, server, network
<1>2. batch' \in Seq(ToNode) /\ (NoChallenge(batch) => NoChallenge(batch)')
  BY <1>1, TailKeeps
<1>3. Room' /\ Alone' /\ Guests'
  BY <1>1, <1>2 DEF IInv, Room, Alone, Guests
<1>4. missed' \subseteq Waiting'
  BY <1>1, NodePartHolds DEF NodePart, Waiting
<1>5. NodePart'
  BY <1>1, <1>2, <1>3, <1>4, NodePartHolds DEF NodePart
<1> QED
  BY <1>1, <1>5, NodeStepKeeps

(***************************************************************************)
(* The other challenges of the batch are dropped.                          *)
(***************************************************************************)
LEMMA RestPart ==
    ASSUME IInv, batch # <<>>
    PROVE  Rest \in Seq(ToNode) /\ NoChallenge(Rest)
<1> DEFINE calls == {i \in DOMAIN Tail(batch) : Tail(batch)[i].kind = "RECONNECT"}
           Calls == {line \in ToNode : ~ IsChallenge(line)}
<1>1. Tail(batch) \in Seq(ToNode)
  BY DEF IInv, TypeOK
<1>2. \A i \in calls \cap DOMAIN Tail(batch) : Tail(batch)[i] \in Calls
  BY <1>1 DEF IsChallenge
<1>3. Rest = Only(Tail(batch), calls)
  BY DEF Rest
<1>4. \A line \in Calls : line \in ToNode /\ ~ IsChallenge(line)
  OBVIOUS
<1> HIDE DEF calls, Calls
<1>5. Rest \in Seq(Calls)
  BY <1>1, <1>2, <1>3, OnlyType, Zenon
<1> QED
  BY <1>4, <1>5 DEF NoChallenge

LEMMA AcceptChallengeKeeps ==
    ASSUME IInv, AcceptChallenge
    PROVE  IInv'
<1>1. /\ phase = "loop" /\ batch # <<>> /\ IsChallenge(Head(batch)) /\ con \in Slot
      /\ outbox' = IF con \in up THEN [outbox EXCEPT ![con] = Append(@, Head(batch).attempt[1])]
                   ELSE outbox
      /\ fight' = Head(batch).attempt /\ phase' = "fight" /\ batch' = Rest
      /\ UNCHANGED <<con, inbound, accepting, inbox, asks, fights, clears,
                     attempts, state, against, missed, listed, recent, candidates, up, upc>>
  BY DEF AcceptChallenge, IsChallenge, server, challengers
<1>2. Head(batch) \in ToNode /\ Head(batch) = batch[1] /\ 1 \in DOMAIN batch
  BY <1>1 DEF IInv, TypeOK
<1>3. Head(batch).attempt \in Attempt
  BY <1>1, <1>2, ToNodeFacts
<1>4. outbox' \in [Slot -> Seq(ToServer)]
  <2>1. Head(batch).attempt[1] \in ToServer
    BY <1>3, AttemptFacts DEF ToServer
  <2>2. outbox \in [Slot -> Seq(ToServer)]
    BY DEF IInv, TypeOK
  <2> QED
    BY <1>1, <2>1, <2>2
<1>5. batch' \in Seq(ToNode) /\ NoChallenge(batch)'
  BY <1>1, RestPart DEF NoChallenge, IsChallenge
<1>6. Len(inbound) < MaxInbound
  BY <1>1, <1>2 DEF IInv, Room, NoChallenge
<1>7. fight' # None
  BY <1>1, <1>3, NoneAssumption
<1>8. Room' /\ Alone' /\ Guests'
  BY <1>1, <1>5, <1>6, <1>7 DEF IInv, Room, Alone, Guests
<1>9. NodePart'
  BY <1>1, <1>3, <1>4, <1>5, <1>8, NodePartHolds DEF NodePart, Waiting
<1> QED
  BY <1>1, <1>9, NodeStepKeeps

LEMMA InboundDiesKeeps ==
    ASSUME IInv, InboundDies
    PROVE  IInv'
<1>1. /\ phase = "loop" /\ batch = <<>>
      /\ UNCHANGED <<con, phase, batch, fight, accepting, attempts, against, missed,
                     listed, recent, candidates, up, upc, inbox, outbox, asks, fights, clears>>
  BY DEF InboundDies, server, network
<1>2. PICK i \in DOMAIN inbound :
        /\ inbound' = RemoveAt(inbound, i)
        /\ state' = [c \in Challenger |-> IF inbound[i] = c THEN "idle" ELSE state[c]]
  BY DEF InboundDies
<1>3. /\ inbound \in Seq(Challenger \cup {Other}) /\ Len(inbound) <= MaxInbound /\ MaxInbound \in Nat
      /\ state \in [Challenger -> {"idle", "waiting", "fighting", "connected"}]
      /\ Guests /\ missed \subseteq Waiting /\ Other \notin Challenger
  BY SizeAssumption, NoneAssumption DEF IInv, TypeOK, Room, Other
<1>4. /\ inbound' \in Seq(Challenger \cup {Other}) /\ Len(inbound') = Len(inbound) - 1
      /\ \A k \in DOMAIN inbound' : inbound'[k] = IF k < i THEN inbound[k] ELSE inbound[k + 1]
  BY <1>2, <1>3, RemoveAtPlace
<1>5. \A k \in DOMAIN inbound' :
        \E m \in DOMAIN inbound : m # i /\ inbound'[k] = inbound[m] /\ m = IF k < i THEN k ELSE k + 1
  BY <1>3, <1>4
<1>6. state' \in [Challenger -> {"idle", "waiting", "fighting", "connected"}]
  BY <1>2, <1>3
<1>7. \A c \in Challenger : state'[c] = state[c] \/ (state[c] = "connected" /\ state'[c] = "idle")
  BY <1>2, <1>3 DEF Guests
<1>8. Guests'
  <2>1. ASSUME NEW k \in DOMAIN inbound', inbound'[k] # Other
        PROVE  /\ state'[inbound'[k]] = "connected"
               /\ \A l \in DOMAIN inbound' : inbound'[l] = inbound'[k] => k = l
    <3>1. PICK m \in DOMAIN inbound : /\ m # i /\ inbound'[k] = inbound[m]
                                      /\ m = IF k < i THEN k ELSE k + 1
      BY <1>5
    <3>2. /\ state[inbound[m]] = "connected" /\ inbound[m] \in Challenger /\ inbound[i] # inbound[m]
          /\ \A n \in DOMAIN inbound : inbound[n] = inbound[m] => m = n
      BY <1>3, <2>1, <3>1 DEF Guests
    <3>3. state'[inbound'[k]] = "connected"
      BY <1>2, <3>1, <3>2
    <3>4. ASSUME NEW l \in DOMAIN inbound', inbound'[l] = inbound'[k]
          PROVE  k = l
      <4>1. PICK n \in DOMAIN inbound : inbound'[l] = inbound[n] /\ n = IF l < i THEN l ELSE l + 1
        BY <1>5
      <4>2. m = n
        BY <3>1, <3>2, <3>4, <4>1
      <4> QED
        BY <1>3, <1>4, <3>1, <4>1, <4>2
    <3> QED
      BY <3>3, <3>4
  <2> QED
    BY <2>1 DEF Guests
<1>9. missed' \subseteq Waiting'
  BY <1>1, <1>3, <1>7 DEF Waiting
<1>10. Room' /\ Alone'
  BY <1>1, <1>3, <1>4 DEF IInv, Room, NoChallenge, Alone
<1>11. NodePart'
  BY <1>1, <1>4, <1>6, <1>8, <1>9, <1>10, NodePartHolds DEF NodePart
<1> QED
  BY <1>1, <1>11, NodeStepKeeps

(***************************************************************************)
(* Who wins a fight takes the room that was seen, and is a new one.        *)
(***************************************************************************)
LEMMA FightEndsKeeps ==
    ASSUME IInv, FightEnds
    PROVE  IInv'
<1>1. /\ phase = "fight" /\ Listen
      /\ UNCHANGED <<batch, fight, accepting, attempts, listed, recent, candidates, up, upc>>
  BY DEF FightEnds, server
<1>2. /\ fight \in Attempt /\ NoChallenge(batch)
      /\ Len(inbound) < MaxInbound /\ Guests
      /\ inbound \in Seq(Challenger \cup {Other}) /\ MaxInbound \in Nat
      /\ state \in [Challenger -> {"idle", "waiting", "fighting", "connected"}]
      /\ against \in [Challenger -> Slot \cup {None}]
  BY <1>1, SizeAssumption DEF IInv, TypeOK, Alone, Room
<1>3. NoChallenge(batch)'
  BY <1>1, <1>2 DEF NoChallenge, IsChallenge
<1>4. /\ inbound' \in Seq(Challenger \cup {Other})
      /\ state' \in [Challenger -> {"idle", "waiting", "fighting", "connected"}]
      /\ against' \in [Challenger -> Slot \cup {None}]
      /\ Guests' /\ Len(inbound') <= MaxInbound
  <2>1. CASE UNCHANGED <<inbound, state, against>>
    BY <1>2, <2>1 DEF Guests
  <2>2. CASE /\ Meeting
             /\ inbound' = Append(inbound, fight[1])
             /\ state' = [state EXCEPT ![fight[1]] = "connected"]
             /\ against' = [against EXCEPT ![fight[1]] = None]
    <3>1. fight[1] \in Challenger /\ state[fight[1]] = "fighting" /\ fight[1] # Other
      BY <1>2, <2>2, AttemptFacts, NoneAssumption DEF Meeting, Other
    <3>2. /\ inbound' \in Seq(Challenger \cup {Other}) /\ Len(inbound') = Len(inbound) + 1
          /\ \A i \in DOMAIN inbound' :
                (i \in DOMAIN inbound /\ inbound'[i] = inbound[i])
                \/ (i = Len(inbound) + 1 /\ inbound'[i] = fight[1])
      BY <1>2, <2>2, <3>1
    <3>3. \A i \in DOMAIN inbound : inbound[i] # fight[1]
      BY <1>2, <3>1 DEF Guests
    <3>4. Guests'
      <4>1. ASSUME NEW i \in DOMAIN inbound', inbound'[i] # Other
            PROVE  /\ state'[inbound'[i]] = "connected"
                   /\ \A j \in DOMAIN inbound' : inbound'[j] = inbound'[i] => i = j
        <5>1. CASE i \in DOMAIN inbound /\ inbound'[i] = inbound[i]
          <6>1. /\ state[inbound[i]] = "connected" /\ inbound[i] \in Challenger
                /\ \A j \in DOMAIN inbound : inbound[j] = inbound[i] => i = j
            BY <1>2, <4>1, <5>1 DEF Guests
          <6> QED
            BY <1>2, <2>2, <3>2, <3>3, <5>1, <6>1
        <5>2. CASE i = Len(inbound) + 1 /\ inbound'[i] = fight[1]
          BY <1>2, <2>2, <3>1, <3>2, <3>3, <5>2
        <5> QED
          BY <3>2, <5>1, <5>2
      <4> QED
        BY <4>1 DEF Guests
    <3>5. Len(inbound') <= MaxInbound
      BY <1>2, <3>2
    <3> QED
      BY <1>2, <2>2, <3>1, <3>2, <3>4, <3>5
  <2> QED
    BY <2>1, <2>2 DEF FightEnds
<1>5. Room' /\ Alone'
  BY <1>1, <1>3, <1>4, ListenFacts DEF Room, Alone
<1>6. NodePart'
  BY <1>1, <1>4, <1>5, ListenFacts, NodePartHolds DEF NodePart
<1> QED
  BY <1>1, <1>6, ListenFacts, NodeStepKeeps

(***************************************************************************)
(* Steps of a challenger: the connected ones stay so.                      *)
(***************************************************************************)
LEMMA ChallengerKeeps ==
    ASSUME IInv,
           UNCHANGED <<con, phase, batch, fight, inbound, accepting, inbox, outbox, clears,
                       listed, recent, candidates, up>>,
           fights' \subseteq fights, upc' \subseteq Attempt, asks' \subseteq Attempt,
           attempts' \in [Challenger -> Nat], \A c \in Challenger : attempts'[c] <= Attempts[c],
           state' \in [Challenger -> {"idle", "waiting", "fighting", "connected"}],
           against' \in [Challenger -> Slot \cup {None}],
           missed' \subseteq Waiting',
           \A c \in Challenger : state[c] = "connected" => state'[c] = "connected"
    PROVE  IInv'
<1>1. TypeOK'
  BY DEF IInv, TypeOK
<1>2. Room' /\ Alone'
  BY DEF IInv, Room, NoChallenge, IsChallenge, Alone
<1>3. Guests'
  BY DEF IInv, Guests, TypeOK
<1> QED
  BY <1>1, <1>2, <1>3 DEF IInv

LEMMA ChallengeNodeKeeps ==
    ASSUME IInv, NEW c \in Challenger, ChallengeNode(c)
    PROVE  IInv'
<1> DEFINE a == <<c, attempts[c] + 1>>
<1>1. /\ state[c] = "idle" /\ attempts[c] < Attempts[c]
      /\ attempts' = [attempts EXCEPT ![c] = @ + 1]
      /\ state' = [state EXCEPT ![c] = "waiting"]
      /\ asks' = asks \cup {a} /\ upc' = upc \cup {a}
      /\ UNCHANGED <<con, phase, batch, fight, inbound, accepting, inbox, outbox, clears, fights,
                     listed, recent, candidates, up, against, missed>>
  BY DEF ChallengeNode, node
<1>2. /\ attempts \in [Challenger -> Nat] /\ \A d \in Challenger : attempts[d] <= Attempts[d]
      /\ Attempts \in [Challenger -> Nat]
      /\ state \in [Challenger -> {"idle", "waiting", "fighting", "connected"}]
      /\ against \in [Challenger -> Slot \cup {None}] /\ missed \subseteq Waiting
      /\ asks \subseteq Attempt /\ upc \subseteq Attempt
  BY SizeAssumption DEF IInv, TypeOK
<1>3. /\ attempts' \in [Challenger -> Nat]
      /\ \A d \in Challenger : attempts'[d] <= Attempts[d]
  BY <1>1, <1>2
<1>4. a \in Attempt
  BY <1>1, <1>2 DEF Attempt
<1>5. missed' \subseteq Waiting'
  BY <1>1, <1>2 DEF Waiting
<1> HIDE DEF a
<1>6. /\ upc' \subseteq Attempt /\ asks' \subseteq Attempt
      /\ state' \in [Challenger -> {"idle", "waiting", "fighting", "connected"}]
      /\ against' \in [Challenger -> Slot \cup {None}]
      /\ \A d \in Challenger : state[d] = "connected" => state'[d] = "connected"
  BY <1>1, <1>2, <1>4
<1> QED
  BY <1>1, <1>3, <1>5, <1>6, ChallengerKeeps

(***************************************************************************)
(* The other steps of a challenger: no new attempt.                        *)
(***************************************************************************)
LEMMA EndsKeeps ==
    ASSUME IInv, NEW c \in Challenger, state[c] \in {"waiting", "fighting"},
           UNCHANGED <<con, phase, batch, fight, inbound, accepting, inbox, outbox, asks, clears,
                       listed, recent, candidates, up, upc, attempts>>,
           fights' \subseteq fights,
           NEW to \in {"idle", "fighting"},
           state' = [state EXCEPT ![c] = to],
           against' \in [Challenger -> Slot \cup {None}],
           missed' \subseteq missed, c \notin missed'
    PROVE  IInv'
<1>1. /\ state \in [Challenger -> {"idle", "waiting", "fighting", "connected"}]
      /\ attempts \in [Challenger -> Nat] /\ \A d \in Challenger : attempts[d] <= Attempts[d]
      /\ missed \subseteq Waiting /\ asks \subseteq Attempt /\ upc \subseteq Attempt
  BY DEF IInv, TypeOK
<1>2. /\ state' \in [Challenger -> {"idle", "waiting", "fighting", "connected"}]
      /\ \A d \in Challenger : state[d] = "connected" => state'[d] = "connected"
      /\ \A d \in Challenger : d # c => state'[d] = state[d]
  BY <1>1
<1>3. missed' \subseteq Waiting'
  BY <1>1, <1>2 DEF Waiting
<1> QED
  BY <1>1, <1>2, <1>3, ChallengerKeeps

LEMMA GivesUpKeeps ==
    ASSUME IInv, NEW c \in Challenger, GivesUp(c)
    PROVE  IInv'
<1>1. against \in [Challenger -> Slot \cup {None}]
  BY DEF IInv, TypeOK
<1> QED
  BY <1>1, EndsKeeps DEF GivesUp, server, network, node

LEMMA FightFailsKeeps ==
    ASSUME IInv, NEW c \in Challenger, FightFails(c)
    PROVE  IInv'
<1>1. /\ against \in [Challenger -> Slot \cup {None}] /\ missed \subseteq Waiting
  BY DEF IInv, TypeOK
<1>2. against' \in [Challenger -> Slot \cup {None}] /\ c \notin missed'
  BY <1>1 DEF FightFails, Waiting
<1> QED
  BY <1>2, EndsKeeps DEF FightFails, server, network, node

LEMMA AttendKeeps ==
    ASSUME IInv, NEW c \in Challenger, Attend(c)
    PROVE  IInv'
<1>1. against \in [Challenger -> Slot \cup {None}] /\ fights \subseteq Attempt \X Slot
  BY DEF IInv, TypeOK
<1>2. PICK f \in fights : fights' = fights \ {f} /\ against' = [against EXCEPT ![c] = f[2]]
  BY DEF Attend
<1>3. against' \in [Challenger -> Slot \cup {None}] /\ fights' \subseteq fights
  BY <1>1, <1>2
<1> QED
  BY <1>3, EndsKeeps DEF Attend, server, node

LEMMA StutterKeeps ==
    ASSUME IInv, UNCHANGED vars
    PROVE  IInv'
<1>1. Room' /\ Alone' /\ Guests'
  BY DEF IInv, Room, NoChallenge, IsChallenge, Alone, Guests, vars
<1>2. NodePart'
  BY <1>1, NodePartHolds DEF NodePart, Waiting, vars
<1> QED
  BY <1>2, NodeStepKeeps DEF vars

LEMMA NextKeeps == IInv /\ [Next]_vars => IInv'
<1> SUFFICES ASSUME IInv, [Next]_vars PROVE IInv'
  OBVIOUS
<1>1. CASE ServerStep
  <2>1. ASSUME NEW s \in Slot, ConnectionMade(s) PROVE IInv'
    BY <2>1, ConnectionMadeKeeps
  <2>2. ASSUME NEW s \in Slot, LineReceived(s) PROVE IInv'
    BY <2>2, LineReceivedKeeps
  <2>3. ASSUME NEW s \in Slot, NodeLost(s) PROVE IInv'
    BY <2>3, NodeLostKeeps
  <2>4. CASE LeaveReceived
    BY <2>4, LeaveReceivedKeeps
  <2>5. ASSUME NEW a \in Attempt, CandidateReceived(a) PROVE IInv'
    BY <2>5, CandidateReceivedKeeps
  <2>6. ASSUME NEW a \in Attempt, ChallengerLost(a) PROVE IInv'
    BY <2>6, ChallengerLostKeeps
  <2> QED
    BY <1>1, <2>1, <2>2, <2>3, <2>4, <2>5, <2>6 DEF ServerStep
<1>2. CASE SynchronizeStep
  BY <1>2, AdvertiseKeeps, FetchKeeps, ReconnectKeeps, SkipChallengeKeeps, AcceptChallengeKeeps,
     FightEndsKeeps DEF SynchronizeStep
<1>3. CASE AcceptInbound \/ InboundDies
  BY <1>3, AcceptInboundKeeps, InboundDiesKeeps
<1>4. CASE Visit \/ Breaks \/ ServerGone
  BY <1>4, VisitKeeps, BreaksKeeps, ServerGoneKeeps
<1>5. ASSUME NEW c \in Challenger, ChallengeNode(c) \/ GivesUp(c) \/ Attend(c) \/ FightFails(c)
      PROVE  IInv'
  BY <1>5, ChallengeNodeKeeps, GivesUpKeeps, AttendKeeps, FightFailsKeeps
<1>6. CASE UNCHANGED vars
  BY <1>6, StutterKeeps
<1> QED
  BY <1>1, <1>2, <1>3, <1>4, <1>5, <1>6 DEF Next

LEMMA Invariance == Spec => []IInv
<1> QED
  BY InitIInv, NextKeeps, PTL DEF Spec

-----------------------------------------------------------------------------
(***************************************************************************)
(* The types of the variables.  The server's handlers find a list of       *)
(* candidates for every listed node (candidates[node_ip] of                *)
(* synchronize_simultaneous), though READY and CLEAR list and unlist a     *)
(* node, and the clean-up of a lost connection unlists it and removes its  *)
(* list, apart from each other.                                            *)
(***************************************************************************)
THEOREM TypeCorrectness == Spec => []TypeOK
<1>1. IInv => TypeOK
  BY DEF IInv
<1> QED
  BY <1>1, Invariance, PTL

(***************************************************************************)
(* The node never has more inbound connections than max_inbound, though    *)
(* Net.synchronize looks at the room once for all challenges of a batch.   *)
(***************************************************************************)
THEOREM NeverOverfull == Spec => []WithinMax
<1>1. IInv => WithinMax
  BY DEF IInv, Room, WithinMax
<1> QED
  BY <1>1, Invariance, PTL
=============================================================================
