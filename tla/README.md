# Coinbend in TLA+

Coinbend trades one cryptocurrency for another without a trusted exchange. Two
nodes agree on a match, each puts its coins into a *setup transaction* that only
both can spend, they sign each other *refunds*, and then pay each other a chunk
at a time: each payment is a refund adjusted in favour of the peer. A contract
server keeps either side from funding a contract alone.

The code is in `src/coinbend/`. This directory holds the models, the TLC runs,
the proofs, and `PROJECT.json`, which maps definitions to lines of the code.

## The system

| Component | Source | State it keeps | Operations |
|---|---|---|---|
| Match state machine | `match_state.py` | `state`, `checked_state` of a match | `state_machine`, `update_state` |
| Microtransfer exchange | `microtransfer_contract.py` | setups, setup txids, refunds per contract; `sent`, `recv`, `our_download` | `add_contract`, `build_setup`, `adjust_refund_tx`, `return_refund`, ... |
| Contract protocol | `hybrid_protocol.py` | contract factories, held-back replies | a handler per message from `MATCH_ORDER` to `RETURN_ADJUSTED_REFUND`, `register_contract` |
| Main loop | `main.py`, `hybrid_reply.py` | what is due in this turn | scan of the states, messages, routing, contract client, monitor |
| Contract client | `contract_client.py` | the connection to the server | `REGISTER`, `MATCH`, handler of `READY` and its callbacks |
| Contract server | `contract_server.py` | instances (setups), green addresses, collateral, links, locked outputs | handlers of `REGISTER` and `MATCH`, `READY` |
| TX monitor | `tx_monitor.py` | watches, inputs, blocks with found watches, last block | `add_watch`, `check` |
| Connections | `sock.py` | a line buffer, `connected` | `send_line`, `recv_lines` |
| P2P network | `net.py`, `unl.py` | inbound and outbound connections, seen messages | `synchronize`, `advertise`, relay, routes |
| Rendezvous | `rendezvous_*.py`, `nat_pmp.py`, `upnp.py` | tables of nodes and candidates; `server_con` | `READY`, `CANDIDATE`, `ACCEPT`, `CLEAR`, clean-up; challenge, listen, fight |
| Trades and orders | `trade_engine.py`, `trade_type.py`, `hybrid_protocol.py`, ... | open trades; matches as buyer and as seller | `OPEN_ORDER`, `MATCH_ORDER` and its answer, `/` (match), `*` (unmatch), expiry |
| Database | `database.py` | a connection, a cursor, `in_transaction`, `disable_transactions` | `Transaction`, `execute` |
| The rest | `green_address.py`, `currency_type.py`, `coinlib.py`, `sys_clock.py`, `user_web_server.py`, ... | | scripts, arithmetic, RPC, clock, pages |

How they interact. One process is one thread that runs the loop of `main.py` for
ever. A turn has the parts *scan* (act on matches whose state has changed since
the last scan), *direct messages* (each handler checks the match's state, moves
it, and leaves a reply), *routing* (send replies that are due, hold others
back), *contract client* and *TX monitor*. Callbacks registered with the monitor
change the state of a match in the monitor's part, and the scan of the next turn
acts on it. Two parties share one TCP connection for a match and it is never
replaced. Each has another one to the contract server, a Twisted process. Coin
daemons are called over RPC and their chains change whenever they like. Before
there is a match, orders are broadcast over the P2P network, which a node joins
by way of the rendezvous server, and a match request finds its way along the routes
that the order names. Handlers that save something do so in nested `Transaction`
contexts of one `Database` object.

What is hard about it: two such loops in every relative order; messages dropped
for good by a handler whose state does not fit, with nobody to repeat them;
`send_line` dropping lines silently; exceptions that end the process or, in
handlers, vanish together with the message; a node stopped between signing and
sending; an answer that comes after its reservation has timed out; lines to a
connection that has just been replaced; chains reorganised between two RPC calls of one check. `PROJECT.json`
lists every such hazard with its line and the properties that are about it, or
why none is.

What makes each component correct:

- *Match*: no request or answer finds its receiver in a state that drops it; no
  step depends on a transaction that has not been stored yet.
- *Exchange*: nobody risks more than a chunk; what is counted as received is
  what the best transaction in hand pays; the end is fair.
- *Protocol*: commitments come in a safe order (fund, refunds, setups, payments);
  without faults it ends; with faults a party needs no help to cash in.
- *Contract server*: READY means that both sides have agreed, comes to both, and
  comes.
- *Monitor*: no block is passed over and no confirmation lost when the chain is
  reorganised or a call fails; while it only grows, callbacks come once and not too early.
- *Trades*: a trade is bound to one counterparty; a match that is undone leaves
  nothing behind; both sides book what the contract says.
- *P2P and rendezvous*: slots are not exceeded; who is on the list is told of;
  a node with room is listed.
- *Database*: only the outermost context commits, all or nothing, and leaves the
  object ready for the next one.

## The modules

| Module | Uses | Implements | Run by | Proved in |
|---|---|---|---|---|
| `MatchState`, `Amounts` | | | | |
| `Microtransfer` | `Amounts` | | itself | `MicrotransferProofs` |
| `SafeSwap`, `Switchboard` | | | | |
| `ContractProtocol` | `MatchState`, `Amounts` | `SafeSwap`, `Microtransfer` | `MCContractProtocol` | `ContractProtocolProofs`, `ConversationProofs` |
| `ContractServer` | | `Switchboard` | `MCContractServer` | `ContractServerProofs` |
| `TxMonitor` | | | itself | `TxMonitorProofs` |
| `Trades`, `Pairing` | | | | |
| `OrderMatching` | `Trades`, `MatchState` | `Pairing` | `MCOrderMatching` | `OrderMatchingProofs` |
| `Transactions` | | | itself | `TransactionsProofs` |
| `Rendezvous` | | | `MCRendezvous` | `RendezvousProofs` |

The match meets the server in `Switchboard`: `ContractServer` is shown to provide it, in the
run and by proof, and `ServerMatch` of `ContractProtocol` is written as that promise for one deal.
That is an assumption on the side of the match, so nothing is claimed of it there.
`OrderMatching` ends in the pair of matches that `ContractProtocol` begins with.

**`MatchState`** has the states and the edges of `state_machine` as sets, buyer
and seller apart.

**`Amounts`** is the arithmetic of one payment: a chunk, clamped to what is left.

**`Microtransfer`** is the trading phase alone: `Initiate`, `AcceptOffer`,
`IgnoreOffer`, and `Cut`, the end of the connection. An offer is the total it pays.
It is a model of its own and also what `ContractProtocol` has to implement.

**`ContractProtocol`** is a whole match, from the match request to the payout,
between two nodes that run the main loop. `phase[p]` is the part of the turn
that `p` is in; every part has an action for each thing it may do, and an `End...`
that goes on to the next. `state`, `checked`, `replies` (`hybrid_replies`) and
`waiting` (`new_hybrid_replies`) are the variables of that name in the code.
`contracts`, `txids`, `refunds`, `setups` say whose dictionaries of
`contract_factory` have an entry, `refund` is a party's own, unsigned or signed.
`sent`, `recv`, `download` are the trade's amounts. `inbox` is the connection and
its buffer, `server` and `ready` the contract server as the parties see it,
`chain`, `payout` and `watch` the transactions and the monitor. A `Recv...` action
is the whole handler with its checks in the order of the code: where the code
moves the state and then fails, so does the action. `Faults` says what may go
wrong: `disconnect`, `crash`, `server` (REGISTER, MATCH or READY lost), `register`
(`register_contract` raises), `rpc` (a broadcast fails), `mutate` (a setup confirms
under another txid).

**`SafeSwap`** is what the messages are for, without messages: `Fund`, `Secure` (a
signed refund), `Disclose` (the setup TX), `Pay`, `Settle`, and their order.

**`Switchboard`** is what a contract server promises: when the last party of a deal
joins, all are sent READY, at once and once; on the way it may be lost.

**`ContractServer`** is `contract_server.py` for any number of setups and contracts.
`RegisterContract` is the client's `register_contract`; `RecvRegister`, `RecvMatch`
and `RecvMatchDropped` are the handlers, with `collateral`, `chunks`, `locked`
and `links` as in an instance's dictionary; `ConnectionLost` takes some of the
lines in flight with it. `OneContractAssumption` says that a setup has one contract:
partial matching is disabled (trade_type.py:428), so an order is filled by one match.

**`TxMonitor`** is `tx_monitor.py` for the transactions of one coin. The variable
`phase` is where `check()` is: `walk` is the loop back over orphans, `process` the
loop over blocks, `forced` the one block that is processed after a skipped one
without being looked at. A step ends at an RPC call, and `Mine` and `Reorganise`
come between any two. A block hash is modelled as the chain up to the block, and a
fetched block remembers the next one as of the fetch (`nextblockhash`). Dictionaries
have no order in the Python that the code was written for, so the orders in
which `watching` and `blocks` are walked are chosen freely. `CallbackRaises` and
`CallRaises` end a check where it is. `add_watch` is called between checks. Two
variables are auxiliary: `late`, the watches added for a transaction that was mined
already, and `raised`, the watches whose callback raised. `NothingMissed` and
`NeverUndercounted` are claimed of a watch that is `Undisturbed`: no *other* watch's
callback has raised, and there was not both a reorganisation and a failure. They are
claimed where blocks have the watched transactions as they were broadcast
(`Forms` is `{"confirm"}`): see the item on fraud below.

**`Trades`** has a trade's record and the operators of `trade_type.py` on it: `==` as
`Matchable`, `/` as `MatchTrades`, `*` as `UnmatchTrades`, with the three statements of
`__mul__` one after the other as in the code, each on what the one before has left.

**`Pairing`** is what matching promises: `SellerCommits`, then perhaps `BuyerCommits`,
each once for a trade and never taken back.

**`OrderMatching`** takes any number of trades on any number of nodes from the deposit
to the agreed match. `trade` and `book` are the trade engine's, `bids` and `asks` the
`matches` of buyers and sellers, by the hash of the request. `DepositConfirm` is the
callback of the deposit's watch, `OpenTrades` that part of the main loop,
`ParseOpenOrder` and `ParseRequest`, `ParseAnswer` are the handlers of `OPEN_ORDER` and of
`MATCH_ORDER` in its two forms. Reservations time out in the handler of orders, and
so they do in the model; `aged` is the five minutes of a match. A message that was
sent stays in `net`: it may be read late, again, or never. An order may fall `Silent`, as a
seller repeats it a hundred times at most. `RatesFail` lets
`new_match_order` raise after the seller's trade was matched. Such a match has no
`state_updated`, and every later handler of an order raises on it in the expiry loop
(hybrid_protocol.py:433): `Raises` are the places of the list where it does, and only trades
before all of them are `Reached`, so that their reservations time out.

**`Transactions`** is `with Transaction(db)`. `stack` is the nest of contexts with what
each has saved of `disable_transactions`; `disable`, `active` (`in_transaction`) and
`cursor` are the Database object's. `Enter`, `Execute` and `Exit` are the regular course,
`Raise` a body that raises, `SqlFails` a statement that does, for which `execute`
replaces the connection. No context lets an exception out, so after each of them
the function that called goes on.

**`Rendezvous`** is hole punching with all three sides: the server's table entry of one
node and its candidates, with a handler per line (`OnReady`, `OnAccept`, `OnClear`,
`CandidateReceived`), `ConnectionMade`, and `NodeLost`, `Breaks` and `ChallengerLost` that run the
clean-up; `Visit`, the short connections that the node makes to leave or to bootstrap, which
refresh its time at the server as well; the node's `synchronize` (`Advertise`, `AcceptInbound`, `Fetch`, then an action
for each reply, and `FightEnds` with the connection that follows a fight; `ServerGone`, a
connection that is found lost; "stopped" is the phase after an exception); the
challengers' side of `simultaneous_challenge`. Time has no step of its own: a clock is chosen where
it is read, so that two minutes may be over between two candidates that come one after the
other (`recent`), and those who do not wait any more may be old (`Cleaned`). A connection of the node is a slot,
and ports predicted on one are good for that one only: `Meeting` says when a fight
can be won.

Definitions that say *a mutated form* or *Mutant* are not part of a model. They are
used to see that a property does notice a bug of that kind (`PROJECT.json`, `mutants`).

## The runs

| Run | Shows | Bounds |
|---|---|---|
| `microtransfer` | one chunk at risk, amounts backed, fair and certain end | five sizes for the uploads and the chunks of both: equal, dividing, not dividing, larger than the upload; up to seven rounds |
| `faults` | a match with every fault possible: no answer is dropped, no lookup fails, nobody pays unsecured, and it implements `SafeSwap` and `Microtransfer` | buyer pays 5 in chunks of 2, seller 2 in one of 3: different numbers of rounds, both clamps |
| `live` | with broken connections and stopped nodes: else the match is completed, a held-back answer leaves, a last payment is cashed | as `faults` |
| `lost_request` | *violated*: the refund request is not repeated although main.py:203 counts on it | one payment each |
| `server` | READY means agreed, can be built, comes, and it implements `Switchboard` | two deals that share a client, and a client that is restarted with a registered deposit |
| `monitor` | callbacks in time while the chain grows; no block missed and no confirmation lost after a reorganisation or an error | two watches, chains of 3 blocks, 3 confirmations, one reorganisation of any depth, one failure |
| `monitor_reports` | every deep transaction is reported | one watch in all its forms, chains of 4, 2 confirmations, one reorganisation, one failure |
| `reorg_counts_twice` | *violated*: a confirmation too many after a reorganisation | one watch, chains of 4 blocks, 4 confirmations |
| `matching` | reservations are exclusive and come to an end while orders are heard, totals are the contract's, and it implements `Pairing` | two buyers, two sellers, three nodes; one buyer may ask the same seller twice, the other meets an order of its own node |
| `transactions` | the outermost context alone commits, all or nothing, and leaves the object clean | two outermost calls, three statements each, contexts four deep; a body, an outer statement or the commit fails, any number of times |
| `rendezvous` | slots are kept, and candidates on the list are told of until a node that is not deaf has heard of them | two challengers, two challenges, of one or of both, room for one connection, two candidates on the list, two connections of the node open at the server |
| `relisted` | *violated*: a node that got full in a fight is never listed again | one challenge |

Why the bounds are enough. A match has two parties by nature, and its message
queues are bounded by the protocol, so the only parameters of `ContractProtocol` are
the amounts: `Microtransfer` varies those, and the proofs cover all of them. In
`ContractServer` the interesting cases are setups that share a client or a deposit,
and the instance has both. In `TxMonitor`, two watches are what it takes for the list
of a block to be changed while it is walked, chains of three or four blocks for
walks of several steps back and a common ancestor with and without a found watch;
one reorganisation and one failure can fall into any step, and together cause the
recovery from a `latest_blocks` of None. In `OrderMatching` two of each side are what it
takes for two requests to want one order and for one buyer to be wanted by two,
and the second attempt (`MCAttempts`) for an old answer to meet a new reservation; the
proofs have no bounds. In `Transactions`, contexts nested in nested ones are what the
saved flags are for, and a second call (`MaxCalls`) shows what one leaves to the next. In `Rendezvous`,
`MaxInbound` of one makes the first fight fill the node, two challengers make
batches of two, and the second challenge of one (`MCAttempts`) replaces a candidate that
is being fought (`MaxAttempts` is two in all); `Slots` are how many connections of the node may be
open at once, reused for as long as the node connects again. `MaxLines` bounds the visits: one is
made only while no line is on its way to the node, as each may tell the same challenges again.
`Breakable` lets the connection of the node be lost at any moment. `MaxReports` stops checks once a watch whose
callback fails each time (see below) has run it twice.

Deadlock is not checked: a node may stop for good, a match and an exchange come to their
end, chains, calls and challenges stop at their bound. That nothing hangs before the
end is what the liveness properties are for.

Fairness. `Loop(p)` is weakly fair: the main loop has no way to stop but an
exception. Reading a message, READY or a confirmed transaction is strongly fair:
a loop that turns for ever gets, in *some* turn, what TCP has delivered or the
daemon knows, but a turn may end before that. Sending is not fair beyond that,
and failures never are. The server's handlers are weakly fair (Twisted's reactor),
as are agreements of nodes that will come about. `Check` of the monitor is weakly
fair as a whole: the main loop keeps calling it and each call returns. Nothing is
assumed of the coin's node. In `OrderMatching` deposits confirm, the main loop opens
trades, time passes, and a node with an old reservation receives an order of another node
as long as there is one on the air (`Heard`); requests and answers need never arrive, and
`Silent` may end every order. So `ReservationEnds` has the premise that some order is on the
air time and again: a seller repeats its own a hundred times, fifteen seconds apart, and nothing
else looks at the reservations. In
`Rendezvous` the server's handlers by kind, the node's `synchronize` and the challengers'
fights are weakly fair; challenges, visits and lost connections are not, and `CandidateHeard` is about
runs in which the connection does not break again and again for ever. `InOrder` assumes that a line the node has sent
on one connection is read before its next connection is made, which TCP does not
promise between two connections and the seconds of a fight make likely.

`Completes` has three ways out besides completion: a lost connection, a stopped node, and
`AskedTooEarly`. The last one needs no fault: the seller's request for a refund comes
before the buyer has handled its READY, and is lost for good. In the code that is
a matter of minutes against block times, and nothing rules it out; the run
`lost_request` shows it.

## The proofs

`MicrotransferProofs` proves for all uploads and chunks that `Spec` preserves `TypeOK`,
`OneChunkAtRisk`, `BackedByDownload` and `CompleteIsFair`, from `SizesAssumption` alone
(amounts are positive naturals, as the dust check of the contract's constructor and
the parser of the order ensure). None of the properties is inductive: that no more
than a chunk is at risk depends on whose turn it is. The invariant `IInv` adds
`Totals` (amounts are a function of the number of rounds), `Turns` (the seller is
level or one round ahead; there is at most one offer in flight, it names the
sender's newest total, and it is its receiver's turn) and `CompleteMeansAll`.
The arithmetic of the clamp is in the lemmas `PaidStep` and `NextTotals`.

`ContractProtocolProofs` proves for all amounts and all sets of faults `TypeOK`,
`LookupsSucceed` and `PaysOnlySecured`, from `AmountsAssumption` and `FaultsAssumption`.
The invariant is local to a party: `IInv` is `TypeOK` and, for each `p`, `Role` (a
party is never in a state of the other role), `Stored` (each state says which of
the transactions the party has stored by then, as do a watch and a held-back
answer) and `Account` (what the amounts are bounded by, and in which states they are
positive). It says nothing of messages or of the peer. So the proof shows more
than the properties do: a party is secured by its own checks, whatever the
peer and the network do. `PartyStep` and `LocalFrame` reduce every action to
the party that takes it; there is a lemma for each action, and `NextIInv` collects them.

`OrderMatchingProofs` proves for any nodes, trades, amounts and prices `TypeOK`,
`ReservedOnce`, `TotalsMatchContract` and the refinement `ImplementsPairing`, from
`TradeAssumption` and `NoMatchAssumption`. What makes it work is that partial matching
is disabled: a trade is either as it was opened, or filled by the only match it
has. `IInv` says so for buyers (`BuyerOK`) and sellers (`SellerOK`), and what the two
matches and the messages between them may be (`MatchOK`: reserved or agreed on the
buyer's side, failed or told on the seller's, agreed only if told; `MessageOK`: a
request states its buyer's terms, an answer only what its seller has booked). The
lemmas `MatchFillsBoth`, `UnmatchOpensBoth`, `UnmatchOfUndone` and `MatchOfFilled` are what
`__truediv__` and `__mul__` do to such trades: a second answer undoes the match and
makes it again. For the refinement, a `Told` match makes its buyer the seller's
`partner`, and each step keeps both mappings (`SamePartners`, `SameDeals`) or is one of
`Pairing`'s (`RequestRefines`, `AnswerRefines`).

`TransactionsProofs` proves for any bounds `TypeOK` and `LeftClean` under all faults, and
`AllOrNothing` and `OnlyParentCommits` unless a statement fails in a nested context
(`"nested_sql"`, see below). The invariant says which contexts may end a transaction:
`disable` is true in nested contexts and only there, and what is pending is all that
the current call has run.

The second half of `ContractProtocolProofs` proves the refinement `ImplementsSafeSwap`
(`CommitsInOrder`) for all amounts and faults. What a party has done follows from `IInv`, but the order of the
commitments is an order between two parties: it needs what a message in flight says of
its sender. `GInv` adds `Messages` (whoever sends a refund to be signed has seen READY;
a signed refund, a setup or a payment was sent by a party that has what comes
before it), `Order`, and `Tied`, which relates the states to the commitments.

`ConversationProofs` proves `AnswersAccepted` for all amounts and faults. A handler drops
what its state does not fit, and the two loops are not in step, so this is about
how far one party can be ahead of the other. `Talk` says so: for each message
that may be on its way, or held back by its sender, in which states sender and
receiver are (`SellerHears`, `BuyerHears`, `SellerAnswers`, `BuyerAnswers`); that no kind of message but
an offer and its answer is sent twice (`Unrepeated`), and in which order they are sent (`InOrder`,
`Promised`); that at most one answer is held back, and only while the sender's
state says why (`Pausing`, `Turn`). The invariant is `TInv`, `GInv` and `Talk` together.

Its second half proves the refinement `ImplementsMicrotransfer` (`TradesByChunks`) for all
amounts and faults. `Talk` says which states a payment finds its receiver in, but not what
it pays, nor that there is only one; and the payments of `Microtransfer` are a queue, which
`ContractProtocol` has in two places, the wire and the answers not sent yet. `Exchange`
adds `OnePayment` (at most one is on its way, in one of the two places), `Payments` (it pays
all that its sender has signed, and is alone in its answer) and `Books` (while it is on its
way, what one has sent is what the other has counted, but for the one chunk it brings).
`OffersNow` then says what the mapping's queue is, and each action is either calm
(`CalmStutters`), or moves a payment on (`PaymentSent`), or is a step of `Microtransfer`'s:
`InitiateMicro`, `AcceptMicro`, `DroppedPayment`, or the end of the connection
(`CrashedCut`, `DisconnectCut`). With the theorems of `MicrotransferProofs` this gives
`FairTrade`: `OneChunkAtRisk`, `BackedByDownload` and `CompleteIsFair` hold in every run of the
whole protocol.

`ContractServerProofs` proves for any setups, contracts and clients `TypeOK`, `ReadyMeansAgreed`,
`ReadyCanBeBuilt` and the refinement `ImplementsSwitchboard`, from `ServerAssumption` and
`OneContractAssumption`. `IInv` says where what the server has comes from: `LinesGenuine`
(a line in flight is of a contract its client has), `MatchedOnce` (a MATCH is on its way or
read, not both), `Collected` (what the server has of a setup is what its client has a
contract for), `Linked` (a link is recorded only when both sides have sent MATCH) and `Told`
(after READY all contracts of the setup are matched).

`RendezvousProofs` proves for any challengers, attempts, slots and room, with or without
`InOrder` and `Breakable`, `TypeOK` and `WithinMax`. That the node never takes more connections than it
may is not plain, as `synchronize` looks at the room once and then handles a batch of
replies. The invariant says why one fight a batch is the most: there is room as long as a
challenge is left in the batch, or a fight goes on (`Room`), and no other challenge is left
while one is fought (`Alone`), since `last_passive_sim_open` is then the time the batch is
compared with. A RECONNECT may be left, and may find the connection closed: then `synchronize`
raises (see below), and nothing is claimed of what comes after. `Guests` says that a
challenger which is connected is so once. `TypeOK` includes that a listed node has
a list of candidates, which the server's handlers take for granted. `Only`, by which the
server picks from its list, is a recursive function. What it returns is proved by
induction over the length of the list, as a set of numbers that has 0 and is closed under
successor (`SetInduction`): the library's induction theorems take an operator.

`TxMonitorProofs` proves four things of the monitor, for any watches, confirmations
and bounds, from `MonitorAssumption`. `TypeCorrectness` is for every chain and every
failure. The loops of the code are folds over sequences, and a fold is a recursive
function on sets of indices: `FoldExists` shows by induction over the indices that it is
what its equation says, and `FoldSound` that a property each step preserves holds of its
value. So there is one lemma for what a step of a loop does and one for the loop
(`DecrementType` and `DecrementListType`, and so on). The type is not inductive: that a
callback has an event to look up needs `Sound` (what is counted was found), and that
there is an order to walk the blocks in needs `seen` to be finite.

`TimelyCallbacks` proves `CallbacksInTime` if `MaxHeight < MaxChecks`. In the code that is
1000 blocks: a check that meets more of them never gets to the end, its latest block stays
where it was, and the next check counts the same blocks again; so without the
assumption the theorem is false. The invariant `InOrder` holds while the chain
only grew and nothing raised. It says that there is *one* block `h` up to which everything is
counted, and how `h`, the latest block, `processed` and the block at hand hang together
(`Place`: above all, the block to be processed is the one after `h`, and no skipped one is
left out); and that each watch that was found by then has no more confirmations than its transaction
is deep under `h` (`CountedOnce`). `DepthGrows` is why one more block is one more confirmation,
`OrderIsAll` why no watch is left out of it in whatever order `watching` is walked.

`NoBlockPassedOver` and `DepthIsCounted` prove `NothingMissed` and `NeverUndercounted`, for
any number of watches, reorganisations, failed calls and blocks a check may walk, if
`Forms = {"confirm"}`: with double spends or mutated transactions they are false
(see below). The invariant `Faithful` is about the
runs that have reorganisations or failures, not both (`Regular`). Its parts:

- `OnceOnTip`: every hash that the monitor has was on the chain once, and one that was
  orphaned never comes back, as it differs from the chain at a place that is rewritten only by
  blocks of a later fork (`SplitStays`). So what the monitor knows splits into blocks that
  are on the chain and blocks that never matter again.
- `Course`: where a check is. Of the blocks in which a watch was found or that were processed
  last (`Done`), those on the chain are behind the latest block, or behind the
  ancestor that the walk back is looking for (`Follows`); so a block that is skipped is one
  that was counted.
- `Served`: a watch has at least as many confirmations as its transaction is deep under
  those blocks (`Credited`), and on the walk back one more for each orphan so far.
- `Listed`: a watch that was found is in the list of one block at most, and once. So one pass for an
  orphan takes no more than one confirmation from it, in whatever order the lists are walked, and
  although a list shrinks while the loop is on it (`OnePassLessens`, `OrphansLessen`).
- `Settings`: a found transaction is the watch's own. Then the second look at
  suspects books nothing (`FlagAllSame`).

A call that raises is harmless then as it cannot be on the walk back (`CallRaisesOnCourse`), and a
callback that raises as it is the watch's own (`CallbackRaisesOnCourse`).

Model-checked only: the liveness properties, which are out of the prover's reach, and
what the runs expect to be violated.

## What the code does that its comments do not say

Findings with a run are in `PROJECT.json`: the request of main.py:203 that is never
repeated; a confirmation too many after a reorganisation (tx_monitor.py:258); a node
that was full and is not listed again (net.py:588). These have no run of
their own. They are hazards in `PROJECT.json`, and the models have them, or leave them
out where it says so:

- "Setup TX is confirmed - safe to proceed" (hybrid_protocol.py:663) is also reached
  when the setup was mutated, as one callback serves both (contract_client.py:155-173):
  the refunds then spend a txid that is not on the chain. It is the fault `mutate`.
- READY is sent to whoever is connected: when one side's connection is gone the other
  funds alone, though the server is there to prevent it (contract_server.py:2,
  434-438). `Switchboard` has it as a lost READY.
- "Fraud" of one watch is booked on another, on the last id of the loop before
  (tx_monitor.py:302-320, 372). That other watch is then twice in the block's list and
  loses two confirmations for an orphan, so its callback comes late: with `fraud` in
  `Forms` and two watches TLC finds `NothingMissed` and `NeverUndercounted` violated.
- The same happens with no double spend at all, after three reorganisations: the first leaves
  a watch a confirmation too many (258), so that it keeps its event when the second
  orphans its transaction; if the new chain has that in a mutated form, the
  other watch takes it for fraud, and it is booked on the first one again. The third
  reorganisation then takes its event away while its transaction is on the chain. With `mutate` in
  `Forms`, two watches and `MaxHeight = 6`, TLC finds it when it is led along such chains;
  with `MaxHeight = 3` there is nothing to find. So the theorems have the assumption.
- "Only the parent function which starts the transaction has the right to decide"
  (database.py:262) does not hold when a *nested* statement fails: `execute` replaces
  the connection and clears `in_transaction`, the nested context returns normally, and
  what the caller executes next fails for want of a cursor, or, once another context
  was entered, is saved without what came before. The fault `nested_sql` is therefore
  not in the run `transactions`, and `AllOrNothing` is proved without it.
- When `new_match_order` raises (hybrid_protocol.py:246) the seller's trade stays matched
  with nobody told, and its match has no `state_updated`: at that node every later order
  raises in the expiry loop (433). Trades behind that one on the list never get their
  reservations back, and no order is matched any more. `OrderMatching` has both;
  `ReservationEnds` leaves those trades out (`Reached`), as it would be violated.
- A RECONNECT that follows, in one batch, a challenge whose fight has filled the node finds
  `server_con.s` closed and None: `simultaneous_listen` raises out of `synchronize`
  (rendezvous_client.py:165) and the main loop ends. It takes two candidates at the server on
  the two sides of the border of two minutes after the node's last connection
  (rendezvous_server.py:170). `Rendezvous` has it (`Reconnect`, "stopped").
- When the node's connection to the server is lost outside a fight, nothing opens another
  one (net.py:525-528): the node stays listed and hears nothing. `Rendezvous` has it
  (`Breaks`, `ServerGone`), and `CandidateHeard` leaves it out (`Deaf`).
- A second challenge of a node is met with what was predicted for its first one, as
  ACCEPT goes by address (rendezvous_server.py:465). `Rendezvous` has it.
- A challenge that the node skips, for want of a network time or as some connection has
  died unnoticed (net.py:539-553), is told again only when something else happens.
  `CandidateHeard` leaves those out (`missed`).
- When `simultaneous_listen` fails after a fight (net.py:579) nothing tries again.
  `Rendezvous` leaves it out.
- A check that fails on the walk back leaves `latest_blocks` at None, and the next
  one starts at the tip. `NothingMissed`, `NeverUndercounted` and `EveryTxReported`
  leave out runs with a reorganisation *and* a failure for that reason.
- When one watch's callback raises, the check ends in the middle of a block
  (tx_monitor.py:356). The next check skips that block if a watch was found in it by then (251-252),
  and the watches after the one that raised never see it: a transaction of theirs
  is missed, or counted for one confirmation less. The three properties leave it out (`raised`).
- Two double spends in one block count twice for the same watch (362-375), so the callback for
  fraud may come a confirmation early. `CallbacksInTime` is about the others.
- A watch added for a transaction that is confirmed already runs its callback, which
  then fails for want of `watches_by_id`, and stays. Its callback runs again later.
  Watches added after their transaction was mined (`late`) are left out likewise.
- More than `max_block_checks` blocks behind, the monitor never catches up.

## Not modelled

Scripts, signatures, keys and the format of messages: each message carries what the
honest code puts into it. Time: the loops are untimed, so that delays and blocking
calls are just slow steps. The mempool pass of the monitor, watches on addresses, and
several coins in one monitor. Several contracts in one factory in `ContractProtocol`
(`ContractServer` has them). Orders for one direct peer and several currency pairs in
`OrderMatching`. Passive nodes and `BOOTSTRAP` in `Rendezvous`, and whether a predicted port is
right, which is up to real NATs: a fight may always be lost.

The relay of `net.py` is one table of message hashes with times; what it does to the
protocols above is covered by messages that may be lost, late or repeated. The
line buffer of `Sock` and the fixed-point numbers of `currency_type.py` are functions of
their input without interleavings: a test reaches those, and the models take
lines as whole and amounts as integers of the smallest unit. HTTP, pages, database
tables and third-party code under `src/` (bottle, JavaScript) are out of scope.

## Plan

What comes next, the most important first:

1. `NoBlockPassedOver` and `DepthIsCounted` for runs with reorganisations *and* failures, up
   to the first failure on a walk back.
2. Several contracts in one factory, and the lookups of `update_state` over them, should
   partial matching be enabled again.
