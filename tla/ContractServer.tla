--------------------------- MODULE ContractServer ---------------------------
(***************************************************************************)
(* The contract server (contract_server.py) and its clients' side of the   *)
(* conversation: a node whose match is agreed on adds the contract to its  *)
(* setup transaction, REGISTERs the setup and says MATCH; the server finds *)
(* the outputs of both setups that fund a contract, and tells both owners  *)
(* READY when all outputs of their setups are spoken for.                  *)
(***************************************************************************)
EXTENDS Naturals, FiniteSets, Sequences

CONSTANTS
    Connection,    \* TCP connections of the clients
    Instance,      \* setup transactions, one for each order of a node
    Contract,
    Buyer, Seller, \* Buyer[c], Seller[c]: the setups that fund contract c
    Host,          \* Host[i]: the connection of the owner of setup i
    Deposit        \* Deposit[i]: the green address output that setup i spends

ASSUME ServerAssumption ==
    /\ IsFiniteSet(Contract)
    /\ Buyer \in [Contract -> Instance] /\ Seller \in [Contract -> Instance]
    /\ \A c \in Contract : Buyer[c] # Seller[c]
    /\ Host \in [Instance -> Connection]

Sides(c) == {Buyer[c], Seller[c]}

(***************************************************************************)
(* Partial matching is disabled (trade_type.py:428), so an order is filled *)
(* by one match, and its setup has one contract.                           *)
(***************************************************************************)
ASSUME OneContractAssumption ==
    \A c, d \in Contract : Sides(c) \cap Sides(d) # {} => c = d

Peer(i, c) == IF i = Buyer[c] THEN Seller[c] ELSE Buyer[c]
Vouts(i) == {c \in Contract : i \in Sides(c)}     \* contract outputs of setup i

Line == [rpc : {"REGISTER"}, id : Instance] \cup [rpc : {"MATCH"}, id : Instance, contract : Contract]

VARIABLES
    contracts,   \* contract_factory.contracts at the client
    inbox,       \* lines on their way to the server
    up,          \* clients: the connections that are open
    instances,   \* setups the server has accepted
    collateral,  \* instance["collateral_info"]: contracts its owner MATCHed
    chunks,      \* instance["chunks"]: outputs whose chunk sizes are known
    locked,      \* length of instance["locked"]
    links,       \* instance["contract"]["links"]: contracts linked to a peer
    ready        \* READY to the owner of the setup

client == <<contracts, inbox, up>>
server == <<instances, collateral, chunks, locked, links>>
vars == <<client, server, ready>>

TypeOK ==
    /\ contracts \in [Instance -> SUBSET Contract]
    /\ inbox \in [Connection -> Seq(Line)]
    /\ up \subseteq Connection
    /\ instances \subseteq Instance
    /\ collateral \in [Instance -> SUBSET Contract]
    /\ chunks \in [Instance -> SUBSET Contract]
    /\ locked \in [Instance -> Nat]
    /\ links \in [Instance -> SUBSET Contract]
    /\ ready \in [Instance -> {"none", "sent", "lost"}]

Init ==
    /\ contracts = [i \in Instance |-> {}]
    /\ inbox = [k \in Connection |-> <<>>]
    /\ up = Connection
    /\ instances = {}
    /\ collateral = [i \in Instance |-> {}]
    /\ chunks = [i \in Instance |-> {}]
    /\ locked = [i \in Instance |-> 0]
    /\ links = [i \in Instance |-> {}]
    /\ ready = [i \in Instance |-> "none"]

-----------------------------------------------------------------------------
(***************************************************************************)
(* register_contract.  While coins of the order are not allotted yet       *)
(* build_setup fails on its change output, so that both lines are sent once*)
(* for a setup, for the contract that completes it.                        *)
(***************************************************************************)
RegisterContract(i, c) ==
    /\ c \in Vouts(i) \ contracts[i]
    /\ contracts' = [contracts EXCEPT ![i] = @ \cup {c}]
    /\ LET lines == <<[rpc |-> "REGISTER", id |-> i], [rpc |-> "MATCH", id |-> i, contract |-> c]>>
       IN inbox' = IF contracts'[i] = Vouts(i) /\ Host[i] \in up
                   THEN [inbox EXCEPT ![Host[i]] = @ \o lines] ELSE inbox
    /\ UNCHANGED <<up, server, ready>>

Receive(k, rpc) ==
    /\ inbox[k] # <<>>
    /\ Head(inbox[k]).rpc = rpc
    /\ inbox' = [inbox EXCEPT ![k] = Tail(@)]
    /\ UNCHANGED <<contracts, up>>

(***************************************************************************)
(* A deposit is registered once: the setup of a node that was restarted    *)
(* with the deposit of an earlier run is dropped without an answer.        *)
(***************************************************************************)
KnownHost(i) == \E j \in instances : Host[j] = Host[i]      \* a mutated form: one per connection
Known(i) == \E j \in instances : j = i \/ Deposit[j] = Deposit[i]

ByDeposit(i) == instances \cup {Deposit[i]}      \* a mutated form: indexed by the wrong key
Registered(i) == instances \cup {i}

RecvRegister(k) ==
    /\ Receive(k, "REGISTER")
    /\ LET i == Head(inbox[k]).id IN
       instances' = IF Known(i) THEN instances ELSE Registered(i)
    /\ UNCHANGED <<collateral, chunks, locked, links, ready>>

RecvMatchDropped(k) ==
    /\ Receive(k, "MATCH")
    /\ Head(inbox[k]).id \notin instances
    /\ UNCHANGED <<server, ready>>

(***************************************************************************)
(* The setups that have an output for contract c, and whose owners have    *)
(* matched anything yet.                                                   *)
(***************************************************************************)
RegisteredOnly(c) == Sides(c) \cap instances      \* a mutated form
Found(c) == {i \in Sides(c) \cap instances : collateral'[i] # {}}

BothFound(c) == Found(c) = Sides(c)

(***************************************************************************)
(* All outputs are locked, and so the setup can be broadcast, and the fee  *)
(* check finds the chunk sizes of all of them.                             *)
(***************************************************************************)
Broadcast(i) == locked'[i] = Cardinality(Vouts(i)) /\ chunks'[i] = Vouts(i)

(***************************************************************************)
(* new_ready_msg looks up what the peer has MATCHed for every link.        *)
(***************************************************************************)
Buildable(i) == \A c \in links'[i] : c \in collateral'[Peer(i, c)]

Sent(i) == IF Host[i] \in up THEN "sent" ELSE "lost"

(***************************************************************************)
(* READY to either side first.  A message that cannot be built ends the    *)
(* handler; the other side is told only if its turn came before.           *)
(***************************************************************************)
FirstOnly(c) ==      \* a mutated form: the loop ends with the first message
    \E told \in SUBSET Sides(c) : Cardinality(told) = 1 /\
        ready' = [i \in Instance |-> IF i \in told THEN Sent(i) ELSE ready[i]]
Announce(c) ==
    \E told \in SUBSET {i \in Sides(c) : Buildable(i)} :
        /\ (\A i \in Sides(c) : Buildable(i)) => told = Sides(c)
        /\ ready' = [i \in Instance |-> IF i \in told THEN Sent(i) ELSE ready[i]]

RecvMatch(k) ==
    /\ Receive(k, "MATCH")
    /\ Head(inbox[k]).id \in instances
    /\ LET i == Head(inbox[k]).id
           c == Head(inbox[k]).contract
       IN
       /\ collateral' = [collateral EXCEPT ![i] = @ \cup {c}]
       /\ chunks' = [j \in Instance |-> IF j \in Found(c) THEN chunks[j] \cup {c} ELSE chunks[j]]
       /\ IF BothFound(c)
          THEN /\ locked' = [j \in Instance |-> IF j \in Sides(c) THEN locked[j] + 1 ELSE locked[j]]
               /\ links' = [j \in Instance |-> IF j \in Sides(c) THEN links[j] \cup {c} ELSE links[j]]
               /\ IF \A j \in Sides(c) : Broadcast(j) THEN Announce(c) ELSE UNCHANGED ready
          ELSE UNCHANGED <<locked, links, ready>>
    /\ UNCHANGED instances

(***************************************************************************)
(* A connection is lost, with any of the lines on it.  No client connects  *)
(* again; one that is restarted is another connection.                     *)
(***************************************************************************)
ConnectionLost(k) ==
    /\ k \in up
    /\ up' = up \ {k}
    /\ \E n \in 0 .. Len(inbox[k]) : inbox' = [inbox EXCEPT ![k] = SubSeq(@, 1, n)]
    /\ UNCHANGED <<contracts, server, ready>>

LineReceived(k) == RecvRegister(k) \/ RecvMatchDropped(k) \/ RecvMatch(k)

Next ==
    \/ \E i \in Instance, c \in Contract : RegisterContract(i, c)
    \/ \E k \in Connection : LineReceived(k) \/ ConnectionLost(k)

Spec == Init /\ [][Next]_vars

(***************************************************************************)
(* Twisted's reactor delivers what arrives; the nodes come to an agreement.*)
(***************************************************************************)
FairSpec ==
    /\ Spec
    /\ \A i \in Instance, c \in Contract : WF_vars(RegisterContract(i, c))
    /\ \A k \in Connection : WF_vars(LineReceived(k))

-----------------------------------------------------------------------------
(***************************************************************************)
(* A node hears READY, and so puts its coins under the contracts of its    *)
(* setup, only if both sides of each of them have sent MATCH for it: the   *)
(* server itself only asks whether both setups have an output for the      *)
(* contract and have matched anything (contract_server.py:285-322).        *)
(***************************************************************************)
ReadyMeansAgreed ==
    \A i \in Instance : ready[i] # "none" =>
        \A c \in Vouts(i) : \A j \in Sides(c) : j \in instances /\ c \in collateral[j]

(***************************************************************************)
(* new_ready_msg finds what it looks for: "there's an error in this where  *)
(* one of the instances doesn't exist when it comes time to build the ready*)
(* message" (contract_server.py:6) does not happen, in whatever order the  *)
(* lines of several deals come and setups are dropped, as long as a setup  *)
(* has one contract.                                                       *)
(***************************************************************************)
ReadyCanBeBuilt ==
    \A i \in Instance : \A c \in links[i] : c \in collateral[Peer(i, c)]

(***************************************************************************)
(* The server is the switchboard that the parties of ContractProtocol rely *)
(* on, also when deals share connections and a deposit is used again.      *)
(***************************************************************************)
Board == INSTANCE Switchboard WITH
    Party  <- Instance,
    Deals  <- {Sides(c) : c \in Contract},
    joined <- {i \in Instance : collateral[i] # {}},
    ready  <- ready

ImplementsSwitchboard == Board!Spec

Superseded(i) == \E j \in instances \ {i} : Deposit[j] = Deposit[i]

(***************************************************************************)
(* A deal comes to READY on both sides unless a side loses its connection  *)
(* or finds its deposit registered with another setup: nothing is sent     *)
(* twice, so no order of REGISTER and MATCH may lose a deal.               *)
(***************************************************************************)
DealsGetReady ==
    \A c \in Contract :
        <>((\A i \in Sides(c) : ready[i] = "sent")
           \/ \E i \in Sides(c) : Host[i] \notin up \/ Superseded(i))
=============================================================================
