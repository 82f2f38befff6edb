----------------------------- MODULE Rendezvous -----------------------------
(***************************************************************************)
(* TCP hole punching through the rendezvous server: rendezvous_server.py,  *)
(* rendezvous_client.py and Net.synchronize of net.py, for one node that   *)
(* is listed as simultaneous and the nodes that challenge it.              *)
(*                                                                         *)
(* The node keeps a connection to the server, over which it is told of     *)
(* challenges; each connection comes with port mappings of its own.  It    *)
(* accepts one, fights (both sides connect to each other's predicted ports *)
(* at an agreed time) and listens anew, on a new connection.  The server   *)
(* keeps the candidates it has told the node of and tells of them again    *)
(* until they are accepted.                                                *)
(***************************************************************************)
EXTENDS Integers, Sequences, FiniteSets, SequencesExt

CONSTANTS
    Challenger,
    Slots,          \* bound: connections of the node the server has open at once
    MaxInbound,     \* max_inbound of the node
    Attempts,       \* bound: challenges of each challenger
    MaxAttempts,    \* bound: challenges of all of them
    MaxCandidates,  \* max_candidates of the server
    MaxLines,       \* bound: lines on their way to the node when it calls on the server
    InOrder,        \* does a line arrive before its sender's next connection?
    Breakable,      \* may the connection the node has to the server be lost?
    None, Closed

ASSUME SizeAssumption ==
    /\ IsFiniteSet(Challenger) /\ Slots \in Nat \ {0}
    /\ MaxInbound \in Nat \ {0} /\ Attempts \in [Challenger -> Nat] /\ MaxCandidates \in Nat \ {0}
    /\ MaxAttempts \in Nat
    /\ MaxLines \in Nat /\ InOrder \in BOOLEAN /\ Breakable \in BOOLEAN

Slot == 1..Slots

(***************************************************************************)
(* An attempt stands for the challenger's connection to the server and for *)
(* the mappings it has predicted on it.                                    *)
(***************************************************************************)
Attempt == UNION {{c} \X (1..Attempts[c]) : c \in Challenger}

(***************************************************************************)
(* `late`: it came more than two minutes after the node's last connection. *)
(***************************************************************************)
Candidate == [attempt : Attempt, late : BOOLEAN, propogated : BOOLEAN]

(***************************************************************************)
(* What the server tells the node, and the node the server.                *)
(***************************************************************************)
ToNode == [kind : {"CHALLENGE"}, attempt : Attempt] \cup [kind : {"RECONNECT"}]

ToServer == {"READY", "CLEAR"} \cup Challenger

ASSUME NoneAssumption ==
    /\ None \notin Slot \cup Seq(Candidate) \cup Attempt
    /\ Challenger \cap {"READY", "CLEAR", "other"} = {}

VARIABLES
    \* the server
    listed,     \* "con" of nodes["simultaneous"][node], None when there is no entry
    recent,     \* its "time": two minutes had not gone by when last looked at
    candidates, \* candidates[node], None when there is no such key
    up,         \* connected, of the node's connections
    upc,        \* attempts whose connection is open for the server
    \* the network
    inbox,      \* lines on their way to the node, of the connection it has
    outbox,     \* lines on their way to the server, of a slot
    asks,       \* CANDIDATE lines on their way
    fights,     \* FIGHT lines on their way: attempt, and slot of the mappings
    clears,     \* is the CLEAR of leave_fight on its way?
    \* the node
    con,        \* server_con: a slot, or Closed after close()
    phase,      \* where synchronize is, "stopped" when it has raised
    batch,      \* replies it is going through
    fight,      \* the attempt it fights
    inbound,    \* connections to others
    accepting,  \* is_accepting_clients
    \* the challengers
    attempts,   \* how many each has made
    state,      \* of the last one
    against,    \* the slot whose mappings it fights
    missed      \* auxiliary: those that wait though the node has skipped them

server == <<listed, recent, candidates, up, upc>>
network == <<inbox, outbox, asks, fights, clears>>
node == <<con, phase, batch, fight, inbound, accepting>>
challengers == <<attempts, state, against, missed>>

vars == <<listed, recent, candidates, up, upc, inbox, outbox, asks, fights, clears,
          con, phase, batch, fight, inbound, accepting, attempts, state, against, missed>>

Latest(c) == <<c, attempts[c]>>

Other == "other"     \* whoever connects to the node directly

(***************************************************************************)
(* advertise() has listed the node when the program starts.                *)
(***************************************************************************)
Init ==
    /\ listed = 1 /\ recent = TRUE /\ candidates = <<>>
    /\ up = {1} /\ upc = {}
    /\ inbox = <<>> /\ outbox = [s \in Slot |-> <<>>]
    /\ asks = {} /\ fights = {} /\ clears = FALSE
    /\ con = 1 /\ phase = "loop" /\ batch = <<>>
    /\ fight = None /\ inbound = <<>> /\ accepting = TRUE
    /\ attempts = [c \in Challenger |-> 0]
    /\ state = [c \in Challenger |-> "idle"]
    /\ against = [c \in Challenger |-> None]
    /\ missed = {}

-----------------------------------------------------------------------------
(***************************************************************************)
(* The server's handlers.  send_line of a connection that is lost does     *)
(* nothing; what is sent on one the node has closed is lost.               *)
(***************************************************************************)
Tell(lines) ==
    inbox' = IF listed' \in up' /\ listed' = con THEN inbox \o lines ELSE inbox

(***************************************************************************)
(* The elements of a list at the chosen places.                            *)
(***************************************************************************)
Only(list, chosen) ==
    LET kept[n \in 0..Len(list)] ==
          IF n = 0 THEN <<>>
          ELSE IF n \in chosen THEN Append(kept[n - 1], list[n]) ELSE kept[n - 1]
    IN  kept[Len(list)]

(***************************************************************************)
(* Clocks run without steps of their own: what time it is is chosen where  *)
(* it is looked at.  cleanup_candidates removes those of two minutes ago,  *)
(* who came first; a challenger that still waits has come just now, as it  *)
(* waits for five seconds.                                                 *)
(***************************************************************************)
Waiting == {c \in Challenger : state[c] = "waiting"}

MayBeOld(candidate) == \A c \in Waiting : candidate.attempt # Latest(c)

Cleaned(list) ==
    {SubSeq(list, k + 1, Len(list)) :
        k \in {k \in 0..Len(list) : \A i \in 1..k : MayBeOld(list[i])}}

(***************************************************************************)
(* propogate_candidates: those not accepted yet are told again.            *)
(***************************************************************************)
Pending(list) ==
    Only(list, {i \in DOMAIN list : list[i].attempt \in upc /\ ~ list[i].propogated})

Challenge(a) == [kind |-> "CHALLENGE", attempt |-> a]

Challenges(list) == [i \in DOMAIN Pending(list) |-> Challenge(Pending(list)[i].attempt)]

CleanAndPropogate(list) ==
    \E young \in Cleaned(list) :
        /\ candidates' = young
        /\ Tell(Challenges(young))

(***************************************************************************)
(* synchronize_simultaneous.                                               *)
(***************************************************************************)
Synchronize(list) ==
    IF \E i \in DOMAIN list : list[i].attempt \in upc /\ list[i].late
    THEN candidates' = list /\ Tell(<<[kind |-> "RECONNECT"]>>)
    ELSE CleanAndPropogate(list)

(***************************************************************************)
(* The node has connected again: its time is now, so nobody is late.       *)
(***************************************************************************)
InTime(list) == [i \in DOMAIN list |-> [list[i] EXCEPT !.late = FALSE]]

Refresh ==
    IF listed = None
    THEN UNCHANGED <<recent, candidates, inbox>>
    ELSE recent' = TRUE /\ Synchronize(InTime(candidates))

(***************************************************************************)
(* connectionMade; the reply to SOURCE TCP, which the node waits for; and  *)
(* the node's READY.  After a fight that has used the last room the node   *)
(* leaves: CLEAR and close().                                              *)
(***************************************************************************)
Announces(s) ==
    /\ phase' = "loop" /\ fight' = None
    /\ IF fight # None /\ Len(inbound) = MaxInbound
       THEN /\ outbox' = [outbox EXCEPT ![s] = <<"READY", "CLEAR">>]
            /\ con' = Closed /\ accepting' = FALSE
       ELSE /\ outbox' = [outbox EXCEPT ![s] = <<"READY">>]
            /\ UNCHANGED <<con, accepting>>
    /\ UNCHANGED <<batch, inbound>>

ConnectionMade(s) ==
    /\ phase = "dial" /\ con = s
    /\ InOrder => \A r \in Slot : outbox[r] = <<>>
    /\ up' = up \cup {s}
    /\ UNCHANGED <<listed, upc, asks, fights, clears>>
    /\ Announces(s)
    /\ Refresh
    /\ UNCHANGED challengers

(***************************************************************************)
(* connectionMade of another connection from the node's address: that of   *)
(* leave_fight, or of bootstrap, which synchronize ends with.              *)
(***************************************************************************)
Visit ==
    /\ phase # "stopped" /\ Len(inbox) < MaxLines
    /\ UNCHANGED <<listed, up, upc, outbox, asks, fights, clears>>
    /\ Refresh
    /\ UNCHANGED <<node, challengers>>

OnlyListed(list) == candidates' = list /\ UNCHANGED inbox   \* a mutated form: READY tells nothing

Relist(list) == CleanAndPropogate(list)

OnReady(s) ==
    /\ listed' = s /\ recent' = TRUE
    /\ UNCHANGED <<up, upc, fights>>
    /\ IF candidates = None
       THEN candidates' = <<>> /\ UNCHANGED inbox
       ELSE Relist(InTime(candidates))

(***************************************************************************)
(* ACCEPT names the challenger by its address.                             *)
(***************************************************************************)
OnAccept(s, c) ==
    /\ UNCHANGED <<listed, recent, up, upc, inbox>>
    /\ LET list == IF candidates = None THEN <<>> ELSE candidates
           first(i) == /\ list[i].attempt[1] = c
                       /\ \A j \in 1..(i - 1) : list[j].attempt[1] # c
       IN  IF \E i \in DOMAIN list : list[i].attempt[1] = c
           THEN \E i \in DOMAIN list :
                  /\ first(i)
                  /\ candidates' = [list EXCEPT ![i].propogated = TRUE]
                  /\ fights' = IF list[i].attempt \in upc
                               THEN fights \cup {<<list[i].attempt, s>>} ELSE fights
           ELSE UNCHANGED <<candidates, fights>>

OnClear ==
    /\ listed' = None
    /\ UNCHANGED <<recent, candidates, up, upc, inbox, fights>>

LineReceived(s) ==
    /\ outbox[s] # <<>> /\ s \in up
    /\ outbox' = [outbox EXCEPT ![s] = Tail(@)]
    /\ LET line == Head(outbox[s])
       IN  \/ line = "READY" /\ OnReady(s)
           \/ line \in Challenger /\ OnAccept(s, line)
           \/ line = "CLEAR" /\ OnClear
    /\ UNCHANGED <<asks, clears>>
    /\ UNCHANGED <<node, challengers>>

LeaveReceived ==
    /\ clears
    /\ clears' = FALSE
    /\ OnClear
    /\ UNCHANGED <<outbox, asks>>
    /\ UNCHANGED <<node, challengers>>

(***************************************************************************)
(* CANDIDATE of an attempt, in place of an earlier one of the same node.   *)
(* Two minutes since the node's last connection may have gone by at any    *)
(* moment, also between two challenges of one batch.                       *)
(***************************************************************************)
Without(list, c) ==
    LET mine == {i \in DOMAIN list : list[i].attempt[1] = c}
    IN  IF mine = {} THEN list
        ELSE RemoveAt(list, CHOOSE i \in mine : \A j \in mine : i <= j)

NewCandidate(a) == [attempt |-> a, late |-> ~ recent', propogated |-> FALSE]

CandidateReceived(a) ==
    /\ a \in asks
    /\ asks' = asks \ {a}
    /\ UNCHANGED <<listed, up, upc>>
    /\ IF listed \in up /\ Len(candidates) < MaxCandidates
       THEN /\ recent' \in {recent, FALSE}
            /\ Synchronize(Append(Without(candidates, a[1]), NewCandidate(a)))
       ELSE UNCHANGED <<recent, candidates, inbox>>
    /\ UNCHANGED <<outbox, fights, clears>>
    /\ UNCHANGED <<node, challengers>>

(***************************************************************************)
(* connectionLost, and the clean-up of every five minutes: a node listed   *)
(* for twelve hours is forgotten, its list only if it is empty; for one    *)
(* with candidates left it ends in an AttributeError (challenge_timeout).  *)
(***************************************************************************)
ForgetsLists ==      \* a mutated form: a listed node loses its empty list as well
    /\ UNCHANGED listed
    /\ candidates' = IF candidates = <<>> THEN None ELSE candidates

CleanUp ==
    \/ UNCHANGED <<listed, candidates>>
    \/ /\ listed' \in {listed, None}
       /\ candidates' = IF listed' = None /\ candidates = <<>> THEN None ELSE candidates

NodeLost(s) ==
    /\ s \in up /\ con # s /\ outbox[s] = <<>>
    /\ up' = up \ {s}
    /\ CleanUp
    /\ UNCHANGED <<recent, upc>>
    /\ UNCHANGED network
    /\ UNCHANGED <<node, challengers>>

(***************************************************************************)
(* The connection the node has is lost, with the lines that are on it but  *)
(* for those that have come that far.                                      *)
(***************************************************************************)
Breaks ==
    /\ Breakable
    /\ con \in up
    /\ up' = up \ {con}
    /\ outbox' = [outbox EXCEPT ![con] = <<>>]
    /\ \E k \in 0..Len(inbox) : inbox' = SubSeq(inbox, 1, k)
    /\ CleanUp
    /\ UNCHANGED <<recent, upc, asks, fights, clears>>
    /\ UNCHANGED <<node, challengers>>

ChallengerLost(a) ==
    /\ a \in upc /\ a \notin asks
    /\ a = Latest(a[1]) => state[a[1]] # "waiting"
    /\ upc' = upc \ {a}
    /\ fights' = {f \in fights : f[1] # a}
    /\ CleanUp
    /\ UNCHANGED <<recent, up, inbox, outbox, asks, clears>>
    /\ UNCHANGED <<node, challengers>>

-----------------------------------------------------------------------------
(***************************************************************************)
(* simultaneous_listen: the connection is closed and another one opened    *)
(* (that this may fail is left out: nothing would try again).  When the    *)
(* node is ready on it, the server tells its challenges again.             *)
(***************************************************************************)
Free(s) ==
    /\ s \notin up /\ s # con /\ s # listed
    /\ \A f \in fights : f[2] # s
    /\ \A c \in Challenger : against[c] # s

Listen ==
    /\ \E s \in Slot : /\ Free(s) /\ \A r \in 1..(s - 1) : ~ Free(r)
                      /\ con' = s
    /\ phase' = "dial"
    /\ inbox' = <<>>
    /\ missed' = {}
    /\ UNCHANGED <<outbox, asks, fights, clears>>

HasRoom == Len(inbound) < MaxInbound

(***************************************************************************)
(* advertise(), when there is room again.  close() has left no socket for  *)
(* simultaneous_listen to close: that raises, and advertise() goes on.     *)
(***************************************************************************)
Advertise ==
    /\ phase = "loop" /\ batch = <<>>
    /\ HasRoom /\ ~ accepting
    /\ accepting' = TRUE
    /\ IF con = Closed THEN UNCHANGED <<con, phase, missed, network>> ELSE Listen
    /\ UNCHANGED <<batch, fight, inbound, attempts, state, against>>
    /\ UNCHANGED server

(***************************************************************************)
(* The accept of the passive socket.  leave_fight may not reach the server *)
(* and raise, which is passed over; or its line is lost.                   *)
(***************************************************************************)
LeaveFight ==
    \/ accepting' = FALSE /\ clears' \in {TRUE, clears}
    \/ UNCHANGED <<clears, accepting>>

AcceptInbound ==
    /\ phase = "loop" /\ batch = <<>>
    /\ HasRoom /\ accepting
    /\ inbound' = Append(inbound, Other)
    /\ \/ Len(inbound') < MaxInbound /\ UNCHANGED <<clears, accepting>>
       \/ Len(inbound') = MaxInbound /\ LeaveFight
    /\ UNCHANGED <<con, phase, batch, fight, inbox, outbox, asks, fights>>
    /\ UNCHANGED <<server, challengers>>

InboundDies ==
    /\ phase = "loop" /\ batch = <<>>
    /\ \E i \in DOMAIN inbound :
         /\ inbound' = RemoveAt(inbound, i)
         /\ state' = [c \in Challenger |->
                        IF inbound[i] = c THEN "idle" ELSE state[c]]
    /\ UNCHANGED <<con, phase, batch, fight, accepting, attempts, against, missed>>
    /\ UNCHANGED <<server, network>>

(***************************************************************************)
(* The replies the server has sent, read before the first is handled, if   *)
(* the accept has left room.                                               *)
(***************************************************************************)
AnyRoom == TRUE      \* a mutated form: the room is not looked at again

StillRoom == Len(inbound) < MaxInbound

Fetch ==
    /\ phase = "loop" /\ batch = <<>>
    /\ StillRoom
    /\ HasRoom => accepting
    /\ con \in Slot /\ inbox # <<>>
    /\ batch' = inbox
    /\ inbox' = <<>>
    /\ missed' = {c \in missed : \A i \in DOMAIN inbox : inbox[i] # Challenge(Latest(c))}
    /\ UNCHANGED <<con, phase, fight, inbound, accepting, outbox, asks, fights, clears>>
    /\ UNCHANGED <<server, attempts, state, against>>

(***************************************************************************)
(* get_chunks and send_line close a connection they find lost: then there  *)
(* is nothing to read any more, and nothing opens another one.             *)
(***************************************************************************)
ServerGone ==
    /\ Breakable
    /\ phase = "loop" /\ con \in Slot
    /\ con' = Closed
    /\ inbox' = <<>>
    /\ UNCHANGED <<phase, batch, fight, inbound, accepting, outbox, asks, fights, clears>>
    /\ UNCHANGED <<server, challengers>>

(***************************************************************************)
(* RECONNECT, which may come after a challenge whose fight has filled the  *)
(* node: then close() has left no socket here either, simultaneous_listen  *)
(* raises out of synchronize, and the main loop ends.                      *)
(***************************************************************************)
Reconnect ==
    /\ phase = "loop" /\ batch # <<>> /\ Head(batch).kind = "RECONNECT"
    /\ \/ /\ con \in Slot
          /\ batch' = Tail(batch)
          /\ Listen
       \/ /\ con = Closed
          /\ batch' = <<>> /\ phase' = "stopped"
          /\ UNCHANGED <<con, missed, network>>
    /\ UNCHANGED <<fight, inbound, accepting>>
    /\ UNCHANGED <<server, attempts, state, against>>

(***************************************************************************)
(* validate_node refuses a node that is connected already, and any node    *)
(* when some connection of either direction has died unnoticed; get_ntp may*)
(* have no time, and the connection to the server be closed.  Nothing      *)
(* brings such a challenge back by itself.                                 *)
(***************************************************************************)
Connected(c) == \E i \in DOMAIN inbound : inbound[i] = c

SkipChallenge ==
    /\ phase = "loop" /\ batch # <<>> /\ Head(batch).kind = "CHALLENGE"
    /\ missed' = missed \cup {c \in Waiting : Latest(c) = Head(batch).attempt}
    /\ batch' = Tail(batch)
    /\ UNCHANGED <<con, phase, fight, inbound, accepting>>
    /\ UNCHANGED <<server, network, attempts, state, against>>

(***************************************************************************)
(* The other challenges of the batch come within sim_open_interval of the  *)
(* time synchronize started at, which is now that of the last meeting.     *)
(***************************************************************************)
Rest ==
    LET left == Tail(batch)
    IN  Only(left, {i \in DOMAIN left : left[i].kind = "RECONNECT"})

AcceptChallenge ==
    /\ phase = "loop" /\ batch # <<>> /\ Head(batch).kind = "CHALLENGE"
    /\ con \in Slot /\ ~ Connected(Head(batch).attempt[1])
    /\ outbox' = IF con \in up THEN [outbox EXCEPT ![con] = Append(@, Head(batch).attempt[1])]
                 ELSE outbox
    /\ fight' = Head(batch).attempt
    /\ phase' = "fight"
    /\ batch' = Rest
    /\ UNCHANGED <<con, inbound, accepting, inbox, asks, fights, clears>>
    /\ UNCHANGED <<server, challengers>>

(***************************************************************************)
(* A fight is won if both attend it, each with the mappings the other has  *)
(* been told of, and may be lost even so.                                  *)
(***************************************************************************)
Meeting == state[fight[1]] = "fighting" /\ Latest(fight[1]) = fight /\ against[fight[1]] = con

FightEnds ==
    /\ phase = "fight"
    /\ \/ /\ Meeting
          /\ inbound' = Append(inbound, fight[1])
          /\ state' = [state EXCEPT ![fight[1]] = "connected"]
          /\ against' = [against EXCEPT ![fight[1]] = None]
       \/ UNCHANGED <<inbound, state, against>>
    /\ Listen
    /\ UNCHANGED <<batch, fight, accepting, attempts>>
    /\ UNCHANGED server

-----------------------------------------------------------------------------
(***************************************************************************)
(* simultaneous_challenge: a challenger waits five seconds for a line.     *)
(***************************************************************************)
ChallengeNode(c) ==
    /\ state[c] = "idle" /\ attempts[c] < Attempts[c]
    /\ Cardinality({a \in Attempt : a[2] <= attempts[a[1]]}) < MaxAttempts
    /\ InOrder => Latest(c) \notin asks
    /\ attempts' = [attempts EXCEPT ![c] = @ + 1]
    /\ state' = [state EXCEPT ![c] = "waiting"]
    /\ asks' = asks \cup {<<c, attempts[c] + 1>>}
    /\ upc' = upc \cup {<<c, attempts[c] + 1>>}
    /\ UNCHANGED <<listed, recent, candidates, up, inbox, outbox, fights, clears>>
    /\ UNCHANGED <<against, missed>>
    /\ UNCHANGED node

GivesUp(c) ==
    /\ state[c] = "waiting"
    /\ state' = [state EXCEPT ![c] = "idle"]
    /\ missed' = missed \ {c}
    /\ UNCHANGED <<attempts, against>>
    /\ UNCHANGED <<server, network, node>>

FightFails(c) ==
    /\ state[c] = "fighting"
    /\ state' = [state EXCEPT ![c] = "idle"]
    /\ against' = [against EXCEPT ![c] = None]
    /\ UNCHANGED <<attempts, missed>>
    /\ UNCHANGED <<server, network, node>>

Attend(c) ==
    /\ state[c] = "waiting"
    /\ \E f \in fights :
         /\ f[1] = Latest(c)
         /\ fights' = fights \ {f}
         /\ against' = [against EXCEPT ![c] = f[2]]
    /\ state' = [state EXCEPT ![c] = "fighting"]
    /\ missed' = missed \ {c}
    /\ UNCHANGED <<inbox, outbox, asks, clears, attempts>>
    /\ UNCHANGED <<server, node>>

ServerStep ==
    \/ \E s \in Slot : ConnectionMade(s) \/ LineReceived(s) \/ NodeLost(s)
    \/ LeaveReceived
    \/ \E a \in Attempt : CandidateReceived(a) \/ ChallengerLost(a)

SynchronizeStep ==
    Advertise \/ Fetch \/ Reconnect \/ SkipChallenge \/ AcceptChallenge \/ FightEnds

Next ==
    \/ ServerStep
    \/ SynchronizeStep
    \/ AcceptInbound \/ InboundDies
    \/ Visit \/ Breaks \/ ServerGone
    \/ \E c \in Challenger : ChallengeNode(c) \/ GivesUp(c) \/ Attend(c) \/ FightFails(c)

Spec == Init /\ [][Next]_vars

(***************************************************************************)
(* The server and the node's main loop go on, and lines arrive while their *)
(* connection lasts; that one is lost, or a visit made, nothing promises.  *)
(***************************************************************************)
FairSpec ==
    /\ Spec
    /\ WF_vars(SynchronizeStep)
    /\ WF_vars(\E s \in Slot : ConnectionMade(s))
    /\ WF_vars(\E s \in Slot : LineReceived(s))
    /\ WF_vars(\E s \in Slot : NodeLost(s))
    /\ WF_vars(\E a \in Attempt : CandidateReceived(a))
    /\ WF_vars(\E a \in Attempt : ChallengerLost(a))
    /\ WF_vars(\E c \in Challenger : Attend(c) \/ FightFails(c))

-----------------------------------------------------------------------------
(***************************************************************************)
(* The types of the variables.  A listed node has a list of candidates,    *)
(* which the server's handlers take for granted (candidates[node_ip] of    *)
(* synchronize_simultaneous, rendezvous_server.py:164), though listing and *)
(* list are cleaned up apart from each other.                              *)
(***************************************************************************)
TypeOK ==
    /\ listed \in Slot \cup {None} /\ recent \in BOOLEAN
    /\ candidates \in Seq(Candidate) \cup {None}
    /\ listed # None => candidates # None
    /\ up \subseteq Slot /\ upc \subseteq Attempt
    /\ inbox \in Seq(ToNode) /\ outbox \in [Slot -> Seq(ToServer)]
    /\ asks \subseteq Attempt /\ fights \subseteq Attempt \X Slot /\ clears \in BOOLEAN
    /\ con \in Slot \cup {Closed}
    /\ phase \in {"loop", "fight", "dial", "stopped"}
    /\ missed \subseteq Waiting
    /\ batch \in Seq(ToNode) /\ fight \in Attempt \cup {None}
    /\ inbound \in Seq(Challenger \cup {Other}) /\ accepting \in BOOLEAN
    /\ attempts \in [Challenger -> Nat] /\ \A c \in Challenger : attempts[c] <= Attempts[c]
    /\ state \in [Challenger -> {"idle", "waiting", "fighting", "connected"}]
    /\ against \in [Challenger -> Slot \cup {None}]

(***************************************************************************)
(* However many challenges come at once, the node never has more inbound   *)
(* connections than max_inbound: it looks once, before all of them         *)
(* (net.py:517), and tests for equality afterwards.                        *)
(***************************************************************************)
WithinMax == Len(inbound) <= MaxInbound

(***************************************************************************)
(* A challenger whose candidate is on the list of a node with room is not  *)
(* forgotten: it is sent to a fight, unless it gives up, the node fills up *)
(* or leaves, or the node itself has skipped it.  Challenges told on a     *)
(* connection that is gone by then, and those that were too soon after     *)
(* another one, are told again.  It does not cover a node that is deaf: its*)
(* connection was lost, or closed, outside a fight, and nothing in         *)
(* synchronize opens another one (net.py:528).                             *)
(***************************************************************************)
Deaf == phase \in {"loop", "stopped"} /\ con \notin up

OnTheList(c) ==
    /\ state[c] = "waiting"
    /\ listed # None
    /\ \E i \in DOMAIN candidates : candidates[i].attempt = Latest(c)

CandidateHeard ==
    <>[][~ Breaks]_vars =>
      \A c \in Challenger :
        OnTheList(c) ~>
            (state[c] # "waiting" \/ listed = None \/ ~ HasRoom \/ c \in missed \/ Deaf)

(***************************************************************************)
(* "Tell rendezvous server to relist us" (net.py:518): a node that was full*)
(* and has room again is listed again.                                     *)
(***************************************************************************)
Relisted ==
    (~ accepting /\ HasRoom) ~> (listed # None \/ ~ HasRoom)
=============================================================================
