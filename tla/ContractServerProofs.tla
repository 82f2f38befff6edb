------------------------ MODULE ContractServerProofs ------------------------
(***************************************************************************)
(* Any number of clients, connections, setups and contracts: the contract  *)
(* server says READY to those who agreed, and implements Switchboard.      *)
(*                                                                         *)
(* The server itself asks only whether both setups have an output for the  *)
(* contract and have matched anything.  That this means they have matched  *)
(* this contract needs two facts from outside the server: a setup has one  *)
(* contract, and its owner sends a single MATCH, on its own connection.    *)
(***************************************************************************)
EXTENDS ContractServer, SequenceTheorems, TLAPS

IsMatch(line) == line.rpc = "MATCH"

(***************************************************************************)
(* A line on connection k is of a setup that k hosts; a MATCH is for a     *)
(* contract its client has, and the server has not seen it before.         *)
(***************************************************************************)
Genuine(k, line) ==
    /\ Host[line.id] = k
    /\ IsMatch(line) => line.contract \in contracts[line.id] /\ collateral[line.id] = {}

LinesGenuine == \A k \in Connection : \A n \in DOMAIN inbox[k] : Genuine(k, inbox[k][n])

MatchedOnce ==
    \A k \in Connection : \A m, n \in DOMAIN inbox[k] :
        IsMatch(inbox[k][m]) /\ IsMatch(inbox[k][n]) /\ inbox[k][m].id = inbox[k][n].id => m = n

(***************************************************************************)
(* What the server has of a setup is what its client has a contract for.   *)
(***************************************************************************)
Collected(i) ==
    /\ contracts[i] \subseteq Vouts(i)
    /\ collateral[i] \subseteq contracts[i]
    /\ collateral[i] # {} => i \in instances

Matched(c) == \A j \in Sides(c) : c \in collateral[j]

Linked(i) == \A c \in links[i] : c \in Vouts(i) /\ Matched(c)

Told(i) == ready[i] # "none" => \A c \in Vouts(i) : Matched(c)

IInv ==
    /\ TypeOK
    /\ LinesGenuine
    /\ MatchedOnce
    /\ \A i \in Instance : Collected(i) /\ Linked(i) /\ Told(i)

-----------------------------------------------------------------------------
(* Setups, their contracts and their lines.                                *)

LEMMA SidesOf ==
    ASSUME NEW c \in Contract
    PROVE  /\ Buyer[c] \in Instance /\ Seller[c] \in Instance
           /\ Sides(c) \subseteq Instance
           /\ \A i \in Sides(c) : c \in Vouts(i) /\ Peer(i, c) \in Sides(c)
BY ServerAssumption DEF Sides, Vouts, Peer

LEMMA OnlyContract ==
    ASSUME NEW i \in Instance, NEW c \in Vouts(i)
    PROVE  Vouts(i) = {c}
BY OneContractAssumption DEF Vouts

LEMMA LineTypes ==
    ASSUME NEW line \in Line
    PROVE  /\ line.id \in Instance
           /\ line.rpc \in {"REGISTER", "MATCH"}
           /\ IsMatch(line) => line.contract \in Contract
BY DEF Line, IsMatch

(***************************************************************************)
(* What a step that consumes a line leaves: later ones, one place nearer.  *)
(***************************************************************************)
LEMMA ReceiveKeeps ==
    ASSUME IInv, NEW k \in Connection, NEW rpc, Receive(k, rpc)
    PROVE  /\ inbox' \in [Connection -> Seq(Line)]
           /\ Head(inbox[k]) \in Line /\ Head(inbox[k]) = inbox[k][1] /\ 1 \in DOMAIN inbox[k]
           /\ \A q \in Connection : \A n \in DOMAIN inbox'[q] :
                  IF q = k THEN n + 1 \in DOMAIN inbox[q] /\ inbox'[q][n] = inbox[q][n + 1]
                           ELSE n \in DOMAIN inbox[q] /\ inbox'[q][n] = inbox[q][n]
<1>1. inbox \in [Connection -> Seq(Line)] /\ inbox[k] \in Seq(Line) /\ inbox[k] # <<>>
  BY DEF IInv, TypeOK, Receive
<1>2. /\ Head(inbox[k]) \in Line /\ Tail(inbox[k]) \in Seq(Line)
      /\ Len(Tail(inbox[k])) = Len(inbox[k]) - 1
      /\ \A n \in 1 .. Len(Tail(inbox[k])) : Tail(inbox[k])[n] = inbox[k][n + 1]
  BY <1>1, HeadTailProperties
<1>3. inbox' = [inbox EXCEPT ![k] = Tail(inbox[k])]
  BY DEF Receive
<1>4. Head(inbox[k]) = inbox[k][1] /\ 1 \in DOMAIN inbox[k]
  BY <1>1
<1>5. ASSUME NEW q \in Connection, NEW n \in DOMAIN inbox'[q]
      PROVE  IF q = k THEN n + 1 \in DOMAIN inbox[q] /\ inbox'[q][n] = inbox[q][n + 1]
                      ELSE n \in DOMAIN inbox[q] /\ inbox'[q][n] = inbox[q][n]
  <2>1. CASE q = k
    <3>1. inbox'[q] = Tail(inbox[k])
      BY <1>1, <1>3, <2>1
    <3>2. n \in 1 .. Len(Tail(inbox[k])) /\ Len(inbox[k]) \in Nat
      BY <1>1, <1>2, <1>5, <3>1, LenProperties
    <3>3. DOMAIN inbox[k] = 1 .. Len(inbox[k])
      BY <1>1, LenProperties
    <3> QED
      BY <1>2, <2>1, <3>1, <3>2, <3>3
  <2>2. CASE q # k
    BY <1>1, <1>3, <1>5, <2>2
  <2> QED
    BY <2>1, <2>2
<1> QED
  BY <1>1, <1>2, <1>3, <1>4, <1>5

LEMMA StillMatchedOnce ==
    ASSUME IInv, NEW k \in Connection, NEW rpc, Receive(k, rpc)
    PROVE  MatchedOnce'
<1> SUFFICES ASSUME NEW q \in Connection, NEW m \in DOMAIN inbox'[q], NEW n \in DOMAIN inbox'[q],
                    IsMatch(inbox'[q][m]), IsMatch(inbox'[q][n]), inbox'[q][m].id = inbox'[q][n].id
             PROVE  m = n
  BY DEF MatchedOnce
<1>1. inbox'[q] \in Seq(Line)
  BY ReceiveKeeps
<1>2. m \in Int /\ n \in Int
  BY <1>1
<1>3. CASE q = k
  <2>1. /\ m + 1 \in DOMAIN inbox[q] /\ inbox'[q][m] = inbox[q][m + 1]
        /\ n + 1 \in DOMAIN inbox[q] /\ inbox'[q][n] = inbox[q][n + 1]
    BY <1>3, ReceiveKeeps
  <2>2. m + 1 = n + 1
    BY <2>1 DEF IInv, MatchedOnce
  <2> QED
    BY <1>2, <2>2
<1>4. CASE q # k
  BY <1>4, ReceiveKeeps DEF IInv, MatchedOnce
<1> QED
  BY <1>3, <1>4

(***************************************************************************)
(* A line taken away changes nothing for the others, as long as the        *)
(* server's collateral stays as it is.                                     *)
(***************************************************************************)
LEMMA StillGenuine ==
    ASSUME IInv, NEW k \in Connection, NEW rpc, Receive(k, rpc), UNCHANGED collateral
    PROVE  LinesGenuine'
<1> SUFFICES ASSUME NEW q \in Connection, NEW n \in DOMAIN inbox'[q]
             PROVE  Genuine(q, inbox[q][n])'
  BY DEF LinesGenuine
<1>1. PICK m \in DOMAIN inbox[q] : inbox'[q][n] = inbox[q][m]
  BY ReceiveKeeps
<1>2. Genuine(q, inbox[q][m]) /\ UNCHANGED contracts
  BY DEF IInv, LinesGenuine, Receive
<1> QED
  BY <1>1, <1>2 DEF Genuine, IsMatch

LEMMA TwoMore ==
    ASSUME NEW s \in Seq(Line), NEW t \in Seq(Line), Len(t) = 2
    PROVE  /\ s \o t \in Seq(Line)
           /\ Len(s \o t) = Len(s) + 2
           /\ \A n \in 1 .. Len(s) + 2 :
                 (s \o t)[n] = IF n <= Len(s) THEN s[n] ELSE t[n - Len(s)]
<1>1. s \o t \in Seq(Line)
  OBVIOUS
<1>2. Len(s \o t) = Len(s) + Len(t)
  BY ConcatProperties
<1>3. \A n \in 1 .. Len(s) + Len(t) : (s \o t)[n] = IF n <= Len(s) THEN s[n] ELSE t[n - Len(s)]
  BY ConcatProperties
<1> QED
  BY <1>1, <1>2, <1>3

-----------------------------------------------------------------------------
(* The clients.                                                            *)

(***************************************************************************)
(* Before its one contract is registered a setup has sent no MATCH, and the*)
(* server has nothing of it.                                               *)
(***************************************************************************)
LEMMA Untouched ==
    ASSUME IInv, NEW i \in Instance, NEW c \in Vouts(i) \ contracts[i]
    PROVE  /\ contracts[i] = {} /\ collateral[i] = {}
           /\ \A k \in Connection : \A n \in DOMAIN inbox[k] :
                  IsMatch(inbox[k][n]) => inbox[k][n].id # i
<1>1. contracts[i] = {} /\ collateral[i] = {}
  BY OnlyContract DEF IInv, Collected
<1>2. ASSUME NEW k \in Connection, NEW n \in DOMAIN inbox[k], IsMatch(inbox[k][n])
      PROVE  inbox[k][n].id # i
  BY <1>1, <1>2 DEF IInv, LinesGenuine, Genuine
<1> QED
  BY <1>1, <1>2

LEMMA RegisterContractInv ==
    ASSUME IInv, NEW i \in Instance, NEW c \in Contract, RegisterContract(i, c)
    PROVE  IInv'
<1> DEFINE lines == <<[rpc |-> "REGISTER", id |-> i], [rpc |-> "MATCH", id |-> i, contract |-> c]>>
           h == Host[i]
<1>1. /\ c \in Vouts(i) \ contracts[i]
      /\ contracts' = [contracts EXCEPT ![i] = contracts[i] \cup {c}]
      /\ UNCHANGED <<up, instances, collateral, chunks, locked, links, ready>>
      /\ inbox' = [inbox EXCEPT ![h] = inbox[h] \o lines] \/ inbox' = inbox
  BY DEF RegisterContract, server
<1>2. /\ h \in Connection /\ inbox \in [Connection -> Seq(Line)] /\ inbox[h] \in Seq(Line)
      /\ lines \in Seq(Line) /\ Len(lines) = 2
      /\ lines[1] = [rpc |-> "REGISTER", id |-> i]
      /\ lines[2] = [rpc |-> "MATCH", id |-> i, contract |-> c]
  BY ServerAssumption DEF IInv, TypeOK, Line
<1>3. ~ IsMatch(lines[1]) /\ lines[1].id = i /\ lines[2].id = i /\ lines[2].contract = c
  BY <1>2 DEF IsMatch
<1>4. contracts'[i] = contracts[i] \cup {c} /\ \A j \in Instance \ {i} : contracts'[j] = contracts[j]
  BY <1>1 DEF IInv, TypeOK
<1> HIDE DEF lines, h
<1>5. /\ inbox[h] \o lines \in Seq(Line)
      /\ Len(inbox[h] \o lines) = Len(inbox[h]) + 2
      /\ \A n \in 1 .. Len(inbox[h]) + 2 :
            (inbox[h] \o lines)[n] = IF n <= Len(inbox[h]) THEN inbox[h][n] ELSE lines[n - Len(inbox[h])]
  BY <1>2, TwoMore
<1>6. TypeOK'
  <2>1. contracts' \in [Instance -> SUBSET Contract]
    BY <1>1 DEF IInv, TypeOK, Vouts
  <2>2. inbox' \in [Connection -> Seq(Line)]
    BY <1>1, <1>2, <1>5
  <2> QED
    BY <1>1, <2>1, <2>2 DEF IInv, TypeOK
(* A line there is now was there before, or is one of the two new ones.    *)
<1>7. ASSUME NEW k \in Connection, NEW n \in DOMAIN inbox'[k]
      PROVE  \/ n \in DOMAIN inbox[k] /\ inbox'[k][n] = inbox[k][n]
             \/ /\ k = h /\ n \notin DOMAIN inbox[k]
                /\ \/ n = Len(inbox[h]) + 1 /\ inbox'[k][n] = lines[1]
                   \/ n = Len(inbox[h]) + 2 /\ inbox'[k][n] = lines[2]
  <2>1. CASE inbox' = inbox \/ k # h
    BY <1>1, <1>2, <1>7, <2>1
  <2>2. CASE inbox' = [inbox EXCEPT ![h] = inbox[h] \o lines] /\ k = h
    <3>1. inbox'[k] = inbox[h] \o lines
      BY <1>2, <2>2
    <3>2. n \in 1 .. Len(inbox[h]) + 2 /\ Len(inbox[h]) \in Nat /\ DOMAIN inbox[h] = 1 .. Len(inbox[h])
      BY <1>2, <1>5, <1>7, <3>1, LenProperties
    <3>3. CASE n <= Len(inbox[h])
      BY <1>5, <2>2, <3>1, <3>2, <3>3
    <3>4. CASE n = Len(inbox[h]) + 1
      <4>1. n - Len(inbox[h]) = 1 /\ ~ (n <= Len(inbox[h]))
        BY <3>2, <3>4
      <4> QED
        BY <1>5, <2>2, <3>1, <3>2, <3>4, <4>1
    <3>5. CASE n = Len(inbox[h]) + 2
      <4>1. n - Len(inbox[h]) = 2 /\ ~ (n <= Len(inbox[h]))
        BY <3>2, <3>5
      <4> QED
        BY <1>5, <2>2, <3>1, <3>2, <3>5, <4>1
    <3> QED
      BY <3>2, <3>3, <3>4, <3>5
  <2> QED
    BY <1>1, <2>1, <2>2
<1>8. LinesGenuine'
  <2> SUFFICES ASSUME NEW k \in Connection, NEW n \in DOMAIN inbox'[k]
               PROVE  Genuine(k, inbox[k][n])'
    BY DEF LinesGenuine
  <2>1. CASE n \in DOMAIN inbox[k] /\ inbox'[k][n] = inbox[k][n]
    <3>1. Genuine(k, inbox[k][n]) /\ inbox[k][n] \in Line
      BY <1>2, <2>1 DEF IInv, LinesGenuine
    <3> QED
      BY <1>1, <1>4, <2>1, <3>1, LineTypes DEF Genuine, IsMatch
  <2>2. CASE k = h /\ inbox'[k][n] = lines[1]
    BY <1>3, <2>2 DEF Genuine, IsMatch, h
  <2>3. CASE k = h /\ inbox'[k][n] = lines[2]
    BY <1>1, <1>3, <1>4, <2>3, Untouched DEF Genuine, IsMatch, h
  <2> QED
    BY <1>7, <2>1, <2>2, <2>3
<1>9. MatchedOnce'
  <2> SUFFICES ASSUME NEW k \in Connection, NEW m \in DOMAIN inbox'[k], NEW n \in DOMAIN inbox'[k],
                      IsMatch(inbox'[k][m]), IsMatch(inbox'[k][n]), inbox'[k][m].id = inbox'[k][n].id
               PROVE  m = n
    BY DEF MatchedOnce
  <2>1. \/ n \in DOMAIN inbox[k] /\ inbox'[k][n] = inbox[k][n] /\ inbox'[k][n].id # i
        \/ k = h /\ n = Len(inbox[h]) + 2 /\ inbox'[k][n].id = i
    BY <1>1, <1>3, <1>7, Untouched
  <2>2. \/ m \in DOMAIN inbox[k] /\ inbox'[k][m] = inbox[k][m] /\ inbox'[k][m].id # i
        \/ k = h /\ m = Len(inbox[h]) + 2 /\ inbox'[k][m].id = i
    BY <1>1, <1>3, <1>7, Untouched
  <2> QED
    BY <2>1, <2>2 DEF IInv, MatchedOnce
<1>10. ASSUME NEW j \in Instance PROVE Collected(j)' /\ Linked(j)' /\ Told(j)'
  <2>1. Collected(j) /\ Linked(j) /\ Told(j)
    BY DEF IInv
  <2>2. Collected(j)'
    BY <1>1, <1>4, <2>1 DEF Collected
  <2> QED
    BY <1>1, <2>1, <2>2 DEF Linked, Told, Matched
<1> QED
  BY <1>6, <1>8, <1>9, <1>10 DEF IInv

LEMMA ConnectionLostInv ==
    ASSUME IInv, NEW k \in Connection, ConnectionLost(k)
    PROVE  IInv'
<1>1. PICK n \in 0 .. Len(inbox[k]) : inbox' = [inbox EXCEPT ![k] = SubSeq(inbox[k], 1, n)]
  BY DEF ConnectionLost
<1>2. inbox \in [Connection -> Seq(Line)] /\ inbox[k] \in Seq(Line) /\ Len(inbox[k]) \in Nat
  BY DEF IInv, TypeOK
<1>3. \A m \in 1 .. n : m \in DOMAIN inbox[k] /\ inbox[k][m] \in Line
  BY <1>2
<1>4. /\ SubSeq(inbox[k], 1, n) \in Seq(Line)
      /\ Len(SubSeq(inbox[k], 1, n)) = n
      /\ \A m \in 1 .. n : SubSeq(inbox[k], 1, n)[m] = inbox[k][m]
  <2>1. n \in Nat /\ 1 \in Int /\ n \in Int
    BY <1>2
  <2>2. /\ SubSeq(inbox[k], 1, n) \in Seq(Line)
        /\ Len(SubSeq(inbox[k], 1, n)) = IF 1 <= n THEN n - 1 + 1 ELSE 0
        /\ \A m \in 1 .. n - 1 + 1 : SubSeq(inbox[k], 1, n)[m] = inbox[k][1 + m - 1]
    BY <1>3, <2>1, SubSeqProperties
  <2> QED
    BY <2>1, <2>2
<1>5. inbox' \in [Connection -> Seq(Line)]
  BY <1>1, <1>2, <1>4
<1>6. ASSUME NEW q \in Connection, NEW m \in DOMAIN inbox'[q]
      PROVE  m \in DOMAIN inbox[q] /\ inbox'[q][m] = inbox[q][m]
  <2>1. CASE q = k
    <3>1. inbox'[q] = SubSeq(inbox[k], 1, n)
      BY <1>1, <1>2, <2>1
    <3>2. m \in 1 .. n
      BY <1>4, <1>6, <3>1, LenProperties
    <3> QED
      BY <1>3, <1>4, <2>1, <3>1, <3>2
  <2>2. CASE q # k
    BY <1>1, <1>2, <1>6, <2>2
  <2> QED
    BY <2>1, <2>2
<1>7. UNCHANGED <<contracts, instances, collateral, chunks, locked, links, ready>> /\ up' \subseteq up
  BY DEF ConnectionLost, server
<1>8. TypeOK'
  BY <1>5, <1>7 DEF IInv, TypeOK
<1>9. LinesGenuine'
  BY <1>6, <1>7 DEF IInv, LinesGenuine, Genuine, IsMatch
<1>10. MatchedOnce'
  BY <1>6 DEF IInv, MatchedOnce
<1>11. \A j \in Instance : Collected(j)' /\ Linked(j)' /\ Told(j)'
  BY <1>7 DEF IInv, Collected, Linked, Told, Matched
<1> QED
  BY <1>8, <1>9, <1>10, <1>11 DEF IInv

-----------------------------------------------------------------------------
(* The server.                                                             *)

LEMMA RecvRegisterInv ==
    ASSUME IInv, NEW k \in Connection, RecvRegister(k)
    PROVE  IInv'
<1>1. Receive(k, "REGISTER") /\ UNCHANGED <<contracts, up, collateral, chunks, locked, links, ready>>
  BY DEF RecvRegister, Receive
<1>2. instances \subseteq instances' /\ instances' \subseteq instances \cup {Head(inbox[k]).id}
  BY DEF RecvRegister, Registered
<1>3. TypeOK'
  <2>1. inbox' \in [Connection -> Seq(Line)] /\ Head(inbox[k]) \in Line
    BY <1>1, ReceiveKeeps
  <2>2. instances' \subseteq Instance
    BY <1>2, <2>1, LineTypes DEF IInv, TypeOK
  <2> QED
    BY <1>1, <2>1, <2>2 DEF IInv, TypeOK
<1>4. LinesGenuine' /\ MatchedOnce'
  BY <1>1, StillGenuine, StillMatchedOnce
<1>5. \A j \in Instance : Collected(j)' /\ Linked(j)' /\ Told(j)'
  BY <1>1, <1>2 DEF IInv, Collected, Linked, Told, Matched
<1> QED
  BY <1>3, <1>4, <1>5 DEF IInv

LEMMA RecvMatchDroppedInv ==
    ASSUME IInv, NEW k \in Connection, RecvMatchDropped(k)
    PROVE  IInv'
<1>1. /\ Receive(k, "MATCH")
      /\ UNCHANGED <<contracts, up, instances, collateral, chunks, locked, links, ready>>
  BY DEF RecvMatchDropped, Receive, server
<1>2. inbox' \in [Connection -> Seq(Line)]
  BY <1>1, ReceiveKeeps
<1>3. TypeOK'
  BY <1>1, <1>2 DEF IInv, TypeOK
<1>4. LinesGenuine' /\ MatchedOnce'
  BY <1>1, StillGenuine, StillMatchedOnce
<1>5. \A j \in Instance : Collected(j)' /\ Linked(j)' /\ Told(j)'
  BY <1>1 DEF IInv, Collected, Linked, Told, Matched
<1> QED
  BY <1>3, <1>4, <1>5 DEF IInv

(***************************************************************************)
(* What a MATCH tells the server: the contract is the only one of a setup  *)
(* that had nothing matched.                                               *)
(***************************************************************************)
LEMMA MatchLine ==
    ASSUME IInv, NEW k \in Connection, RecvMatch(k)
    PROVE  LET i == Head(inbox[k]).id
               c == Head(inbox[k]).contract
           IN  /\ i \in instances /\ i \in Instance /\ c \in Contract
               /\ i \in Sides(c) /\ Vouts(i) = {c} /\ c \in contracts[i] /\ collateral[i] = {}
               /\ collateral' = [collateral EXCEPT ![i] = {c}]
<1> DEFINE i == Head(inbox[k]).id
           c == Head(inbox[k]).contract
<1>1. /\ Receive(k, "MATCH") /\ i \in instances
      /\ collateral' = [collateral EXCEPT ![i] = collateral[i] \cup {c}]
  BY DEF RecvMatch
<1>2. Head(inbox[k]) \in Line /\ Head(inbox[k]) = inbox[k][1] /\ 1 \in DOMAIN inbox[k]
  BY <1>1, ReceiveKeeps
<1>3. IsMatch(Head(inbox[k]))
  BY <1>1 DEF Receive, IsMatch
<1>4. i \in Instance /\ c \in Contract
  BY <1>2, <1>3, LineTypes
<1>5. c \in contracts[i] /\ collateral[i] = {}
  BY <1>2, <1>3 DEF IInv, LinesGenuine, Genuine
<1>6. c \in Vouts(i)
  BY <1>4, <1>5 DEF IInv, Collected
<1>7. i \in Sides(c) /\ Vouts(i) = {c}
  BY <1>4, <1>6, OnlyContract DEF Vouts
<1>8. collateral' = [collateral EXCEPT ![i] = {c}]
  BY <1>1, <1>5
<1> QED
  BY <1>1, <1>4, <1>5, <1>7, <1>8

(***************************************************************************)
(* If both setups of the contract have matched anything now, they have     *)
(* matched the contract.                                                   *)
(***************************************************************************)
LEMMA BothHaveMatched ==
    ASSUME IInv, NEW k \in Connection, RecvMatch(k), BothFound(Head(inbox[k]).contract)
    PROVE  LET c == Head(inbox[k]).contract IN \A j \in Sides(c) : c \in collateral'[j]
<1> DEFINE i == Head(inbox[k]).id
           c == Head(inbox[k]).contract
<1> SUFFICES ASSUME NEW j \in Sides(c) PROVE c \in collateral'[j]
  OBVIOUS
<1>1. /\ c \in Contract /\ i \in Instance /\ collateral \in [Instance -> SUBSET Contract]
      /\ collateral' = [collateral EXCEPT ![i] = {c}]
  BY MatchLine DEF IInv, TypeOK
<1>2. j \in Instance /\ Vouts(j) = {c}
  BY <1>1, SidesOf, OnlyContract
<1>3. collateral'[j] # {}
  BY DEF BothFound, Found
<1>4. CASE j = i
  BY <1>1, <1>4
<1>5. CASE j # i
  BY <1>1, <1>2, <1>3, <1>5 DEF IInv, Collected
<1> QED
  BY <1>4, <1>5

(***************************************************************************)
(* So the messages can be built, for both sides, neither of which has been *)
(* told before.                                                            *)
(***************************************************************************)
LEMMA BothAreTold ==
    ASSUME IInv, NEW k \in Connection, RecvMatch(k)
    PROVE  LET c == Head(inbox[k]).contract IN
           /\ \A j \in Sides(c) : ready[j] = "none"
           /\ \/ UNCHANGED ready
              \/ /\ BothFound(c)
                 /\ ready' = [j \in Instance |-> IF j \in Sides(c) THEN Sent(j) ELSE ready[j]]
<1> DEFINE i == Head(inbox[k]).id
           c == Head(inbox[k]).contract
<1>1. c \in Contract /\ i \in Sides(c) /\ collateral[i] = {}
  BY MatchLine
<1>2. \A j \in Sides(c) : ready[j] = "none"
  BY <1>1, SidesOf DEF IInv, Told, Matched
<1>3. ASSUME BothFound(c), Announce(c)
      PROVE  ready' = [j \in Instance |-> IF j \in Sides(c) THEN Sent(j) ELSE ready[j]]
  <2>1. \A j \in Sides(c) : c \in collateral'[j]
    BY <1>3, BothHaveMatched
  <2>2. links' = [j \in Instance |-> IF j \in Sides(c) THEN links[j] \cup {c} ELSE links[j]]
    BY <1>3 DEF RecvMatch
  <2>3. ASSUME NEW j \in Sides(c) PROVE Buildable(j)
    <3>1. j \in Instance /\ Vouts(j) = {c} /\ Peer(j, c) \in Sides(c)
      BY <1>1, SidesOf, OnlyContract
    <3>2. links[j] \subseteq {c}
      BY <3>1 DEF IInv, Linked
    <3>3. links'[j] \subseteq {c}
      BY <2>2, <3>1, <3>2
    <3> QED
      BY <2>1, <3>1, <3>3 DEF Buildable
  <2> QED
    BY <1>3, <2>3 DEF Announce
<1>4. UNCHANGED ready \/ (BothFound(c) /\ Announce(c))
  BY DEF RecvMatch
<1> QED
  BY <1>2, <1>3, <1>4

(***************************************************************************)
(* The other MATCH lines on their way are of other setups.                 *)
(***************************************************************************)
LEMMA OthersGenuine ==
    ASSUME IInv, NEW k \in Connection, RecvMatch(k)
    PROVE  LinesGenuine'
<1>1. Receive(k, "MATCH") /\ UNCHANGED contracts
  BY DEF RecvMatch, Receive
<1>2. PICK i \in Instance, c \in Contract :
        /\ i = Head(inbox[k]).id /\ collateral \in [Instance -> SUBSET Contract]
        /\ collateral' = [collateral EXCEPT ![i] = {c}]
  BY MatchLine DEF IInv, TypeOK
<1>3. /\ 1 \in DOMAIN inbox[k] /\ IsMatch(inbox[k][1]) /\ inbox[k][1].id = i
      /\ inbox[k] \in Seq(Line) /\ Host[i] = k
  <2>1. 1 \in DOMAIN inbox[k] /\ Head(inbox[k]) = inbox[k][1] /\ inbox[k] \in Seq(Line)
    BY <1>1, ReceiveKeeps DEF IInv, TypeOK
  <2>2. IsMatch(inbox[k][1]) /\ inbox[k][1].id = i
    BY <1>1, <1>2, <2>1 DEF Receive, IsMatch
  <2>3. Genuine(k, inbox[k][1])
    BY <2>1 DEF IInv, LinesGenuine
  <2> QED
    BY <2>1, <2>2, <2>3 DEF Genuine
<1> SUFFICES ASSUME NEW q \in Connection, NEW n \in DOMAIN inbox'[q]
             PROVE  Genuine(q, inbox[q][n])'
  BY DEF LinesGenuine
<1>4. PICK m \in DOMAIN inbox[q] : inbox'[q][n] = inbox[q][m] /\ (q = k => m # 1)
  <2>1. inbox'[q] \in Seq(Line)
    BY <1>1, ReceiveKeeps
  <2>2. n \in Nat \ {0}
    BY <2>1
  <2>3. CASE q = k
    <3>1. n + 1 \in DOMAIN inbox[q] /\ inbox'[q][n] = inbox[q][n + 1]
      BY <1>1, <2>3, ReceiveKeeps
    <3>2. n + 1 # 1
      BY <2>2
    <3> QED
      BY <3>1, <3>2
  <2>4. CASE q # k
    BY <1>1, <2>4, ReceiveKeeps
  <2> QED
    BY <2>3, <2>4
<1>5. Genuine(q, inbox[q][m]) /\ inbox[q][m] \in Line
  BY DEF IInv, LinesGenuine, TypeOK
<1>6. IsMatch(inbox[q][m]) => inbox[q][m].id # i
  <2>1. CASE q = k
    BY <1>3, <1>4, <2>1 DEF IInv, MatchedOnce
  <2>2. CASE q # k
    BY <1>3, <1>5, <2>2 DEF Genuine
  <2> QED
    BY <2>1, <2>2
<1>7. inbox[q][m].id \in Instance
  BY <1>5, LineTypes
<1>8. IsMatch(inbox[q][m]) => collateral'[inbox[q][m].id] = collateral[inbox[q][m].id]
  BY <1>2, <1>6, <1>7
<1> QED
  BY <1>1, <1>4, <1>5, <1>8 DEF Genuine, IsMatch

LEMMA RecvMatchInv ==
    ASSUME IInv, NEW k \in Connection, RecvMatch(k)
    PROVE  IInv'
<1>1. PICK i \in Instance, c \in Contract :
        /\ i = Head(inbox[k]).id /\ c = Head(inbox[k]).contract
        /\ i \in instances /\ i \in Sides(c) /\ c \in contracts[i]
        /\ Vouts(i) = {c} /\ collateral[i] = {}
        /\ collateral' = [collateral EXCEPT ![i] = {c}]
  BY MatchLine
<1>2. Receive(k, "MATCH") /\ UNCHANGED <<contracts, up, instances>>
  BY DEF RecvMatch, Receive
<1>3. /\ collateral \in [Instance -> SUBSET Contract]
      /\ collateral'[i] = {c} /\ \A j \in Instance \ {i} : collateral'[j] = collateral[j]
  BY <1>1 DEF IInv, TypeOK
<1>4. \/ links' = links
      \/ /\ links' = [j \in Instance |-> IF j \in Sides(c) THEN links[j] \cup {c} ELSE links[j]]
         /\ \A j \in Sides(c) : c \in collateral'[j]
  BY <1>1, BothHaveMatched DEF RecvMatch
<1>5. \/ ready' = ready
      \/ /\ ready' = [j \in Instance |-> IF j \in Sides(c) THEN Sent(j) ELSE ready[j]]
         /\ \A j \in Sides(c) : c \in collateral'[j]
  BY <1>1, BothAreTold, BothHaveMatched
<1>6. TypeOK'
  <2>1. inbox' \in [Connection -> Seq(Line)]
    BY <1>2, ReceiveKeeps
  <2>2. collateral' \in [Instance -> SUBSET Contract]
    BY <1>1, <1>3
  <2>3. chunks' \in [Instance -> SUBSET Contract]
    <3>1. chunks' = [j \in Instance |-> IF j \in Found(c) THEN chunks[j] \cup {c} ELSE chunks[j]]
      BY <1>1 DEF RecvMatch
    <3> QED
      BY <3>1 DEF IInv, TypeOK
  <2>4. locked' \in [Instance -> Nat]
    <3>1. \/ locked' = locked
          \/ locked' = [j \in Instance |-> IF j \in Sides(c) THEN locked[j] + 1 ELSE locked[j]]
      BY <1>1 DEF RecvMatch
    <3>2. locked \in [Instance -> Nat] /\ \A j \in Instance : locked[j] \in Nat /\ locked[j] + 1 \in Nat
      BY DEF IInv, TypeOK
    <3> QED
      BY <3>1, <3>2
  <2>5. links' \in [Instance -> SUBSET Contract]
    BY <1>4 DEF IInv, TypeOK
  <2>6. ready' \in [Instance -> {"none", "sent", "lost"}]
    BY <1>5 DEF IInv, TypeOK, Sent
  <2> QED
    BY <1>2, <2>1, <2>2, <2>3, <2>4, <2>5, <2>6 DEF IInv, TypeOK
<1>7. LinesGenuine' /\ MatchedOnce'
  BY <1>2, OthersGenuine, StillMatchedOnce
<1>8. ASSUME NEW j \in Instance PROVE Collected(j)'
  BY <1>1, <1>2, <1>3 DEF IInv, Collected
<1>9. ASSUME NEW d \in Contract, Matched(d) PROVE Matched(d)'
  <2> SUFFICES ASSUME NEW j \in Sides(d) PROVE d \in collateral'[j]
    BY DEF Matched
  <2>1. j \in Instance /\ d \in collateral[j]
    BY <1>9, SidesOf DEF Matched
  <2> QED
    BY <1>1, <1>3, <2>1
<1>10. ASSUME NEW j \in Instance PROVE Linked(j)'
  <2> SUFFICES ASSUME NEW d \in links'[j] PROVE d \in Vouts(j) /\ Matched(d)'
    BY DEF Linked
  <2>1. CASE d \in links[j]
    <3>1. d \in Vouts(j) /\ Matched(d) /\ d \in Contract
      BY <2>1 DEF IInv, Linked, Vouts
    <3> QED
      BY <1>9, <3>1
  <2>2. CASE d \notin links[j]
    <3>1. d = c /\ j \in Sides(c) /\ \A x \in Sides(c) : c \in collateral'[x]
      BY <1>4, <2>2
    <3> QED
      BY <3>1, SidesOf DEF Matched
  <2> QED
    BY <2>1, <2>2
<1>11. ASSUME NEW j \in Instance PROVE Told(j)'
  <2> SUFFICES ASSUME ready'[j] # "none", NEW d \in Vouts(j) PROVE Matched(d)'
    BY DEF Told
  <2>1. d \in Contract
    BY DEF Vouts
  <2>2. CASE ready[j] # "none"
    BY <1>9, <2>1, <2>2 DEF IInv, Told
  <2>3. CASE ready[j] = "none"
    <3>1. j \in Sides(c) /\ \A x \in Sides(c) : c \in collateral'[x]
      BY <1>5, <2>3
    <3>2. d = c
      BY <3>1, SidesOf, OnlyContract
    <3> QED
      BY <3>1, <3>2 DEF Matched
  <2> QED
    BY <2>2, <2>3
<1> QED
  BY <1>6, <1>7, <1>8, <1>10, <1>11 DEF IInv

-----------------------------------------------------------------------------
(* The invariant, and what follows from it.                                *)

LEMMA InitIInv == Init => IInv
<1> SUFFICES ASSUME Init PROVE IInv
  OBVIOUS
<1>1. TypeOK
  BY DEF Init, TypeOK
<1>2. LinesGenuine /\ MatchedOnce
  BY DEF Init, LinesGenuine, MatchedOnce
<1>3. \A i \in Instance : Collected(i) /\ Linked(i) /\ Told(i)
  BY DEF Init, Collected, Linked, Told
<1> QED
  BY <1>1, <1>2, <1>3 DEF IInv

LEMMA NextIInv == IInv /\ [Next]_vars => IInv'
<1> SUFFICES ASSUME IInv, [Next]_vars PROVE IInv'
  OBVIOUS
<1>1. ASSUME NEW k \in Connection, LineReceived(k) PROVE IInv'
  BY <1>1, RecvRegisterInv, RecvMatchDroppedInv, RecvMatchInv DEF LineReceived
<1>2. CASE UNCHANGED vars
  BY <1>2 DEF vars, client, server, IInv, TypeOK, LinesGenuine, Genuine, MatchedOnce, IsMatch,
     Collected, Linked, Told, Matched
<1> QED
  BY <1>1, <1>2, RegisterContractInv, ConnectionLostInv DEF Next

LEMMA Invariant == Spec => []IInv
BY InitIInv, NextIInv, PTL DEF Spec

(***************************************************************************)
(* Every variable keeps its type, for all clients, setups and contracts:   *)
(* the server never records a setup or an output that no client has.       *)
(***************************************************************************)
THEOREM TypeCorrectness == Spec => []TypeOK
<1>1. IInv => TypeOK
  BY DEF IInv
<1> QED
  BY Invariant, <1>1, PTL

(***************************************************************************)
(* READY means that both sides of the deal agreed, for all clients, setups *)
(* and contracts, although parse_match_msg of contract_server.py only asks *)
(* whether both setups have matched anything.                              *)
(***************************************************************************)
THEOREM ReadyIsAgreed == Spec => []ReadyMeansAgreed
<1>1. IInv => ReadyMeansAgreed
  <2> SUFFICES ASSUME IInv, NEW i \in Instance, ready[i] # "none",
                      NEW c \in Vouts(i), NEW j \in Sides(c)
               PROVE  j \in instances /\ c \in collateral[j]
    BY DEF ReadyMeansAgreed
  <2>1. c \in collateral[j]
    BY DEF IInv, Told, Matched
  <2>2. j \in Instance
    BY SidesOf DEF Vouts
  <2> QED
    BY <2>1, <2>2 DEF IInv, Collected
<1> QED
  BY Invariant, <1>1, PTL

(***************************************************************************)
(* new_ready_msg of contract_server.py finds what it looks for, for all    *)
(* clients, setups and contracts.                                          *)
(***************************************************************************)
THEOREM ReadyIsBuilt == Spec => []ReadyCanBeBuilt
<1>1. IInv => ReadyCanBeBuilt
  <2> SUFFICES ASSUME IInv, NEW i \in Instance, NEW c \in links[i]
               PROVE  c \in collateral[Peer(i, c)]
    BY DEF ReadyCanBeBuilt
  <2>1. c \in Contract /\ i \in Sides(c) /\ Matched(c)
    BY DEF IInv, Linked, Vouts
  <2> QED
    BY <2>1, SidesOf DEF Matched
<1> QED
  BY Invariant, <1>1, PTL

-----------------------------------------------------------------------------
(* Implementing Switchboard: a MATCH that is not dropped is a Join, of which*)
(* READY, if it is told, is a part; all else leaves the switchboard alone.  *)

joined == {i \in Instance : collateral[i] # {}}

LEMMA MatchJoins ==
    ASSUME IInv, NEW k \in Connection, RecvMatch(k)
    PROVE  Board!Next
<1>1. PICK i \in Instance, c \in Contract :
        /\ i = Head(inbox[k]).id /\ c = Head(inbox[k]).contract
        /\ i \in Sides(c) /\ collateral[i] = {}
        /\ collateral' = [collateral EXCEPT ![i] = {c}]
  BY MatchLine
<1>2. /\ collateral \in [Instance -> SUBSET Contract]
      /\ collateral'[i] = {c} /\ \A j \in Instance \ {i} : collateral'[j] = collateral[j]
  BY <1>1 DEF IInv, TypeOK
<1>3. i \notin joined /\ joined' = joined \cup {i}
  BY <1>1, <1>2 DEF joined
<1>4. ASSUME BothFound(c),
             ready' = [j \in Instance |-> IF j \in Sides(c) THEN Sent(j) ELSE ready[j]]
      PROVE  Board!Announce(Sides(c))
  <2>1. Sides(c) \subseteq joined'
    BY <1>1, <1>4, BothHaveMatched, SidesOf DEF joined
  <2>2. \A j \in Sides(c) : ready[j] = "none"
    BY <1>1, BothAreTold
  <2>3. [j \in Sides(c) |-> Sent(j)] \in [Sides(c) -> {"sent", "lost"}]
    BY DEF Sent
  <2>4. ready' = [j \in Instance |-> IF j \in Sides(c) THEN [x \in Sides(c) |-> Sent(x)][j] ELSE ready[j]]
    BY <1>4
  <2> QED
    BY <2>1, <2>2, <2>3, <2>4 DEF Board!Announce, joined
<1>5. \/ UNCHANGED ready
      \/ \E deal \in {Sides(d) : d \in Contract} : i \in deal /\ Board!Announce(deal)
  BY <1>1, <1>4, BothAreTold
<1>6. Board!Join(i)
  BY <1>3, <1>5 DEF Board!Join, joined
<1> QED
  BY <1>6 DEF Board!Next

LEMMA StepRefines == IInv /\ [Next]_vars => [Board!Next]_<<joined, ready>>
<1> SUFFICES ASSUME IInv, [Next]_vars PROVE [Board!Next]_<<joined, ready>>
  OBVIOUS
<1>1. CASE UNCHANGED <<collateral, ready>>
  BY <1>1 DEF joined
<1>2. ASSUME NEW k \in Connection, RecvMatch(k) PROVE [Board!Next]_<<joined, ready>>
  BY <1>2, MatchJoins
<1>3. UNCHANGED <<collateral, ready>> \/ \E k \in Connection : RecvMatch(k)
  BY DEF Next, RegisterContract, LineReceived, RecvRegister, RecvMatchDropped, ConnectionLost, vars, server
<1> QED
  BY <1>1, <1>2, <1>3

(***************************************************************************)
(* Whatever comes in which order on whichever connection, is lost or is    *)
(* dropped, the parties of a deal are told READY together, once, and after *)
(* both have joined: what the parties of ContractProtocol assume of the    *)
(* server (parse_match_msg of contract_server.py).                         *)
(***************************************************************************)
THEOREM ServesAsSwitchboard == Spec => ImplementsSwitchboard
<1>1. Init => Board!Init
  BY DEF Init, Board!Init
<1>2. IInv /\ [Next]_vars => [Board!Next]_<<joined, ready>>
  BY StepRefines
<1> QED
  BY <1>1, <1>2, Invariant, PTL DEF Spec, Board!Spec, ImplementsSwitchboard, Board!boardVars, joined
=============================================================================
