----------------------------- MODULE TxMonitor -----------------------------
(***************************************************************************)
(* The monitor of tx_monitor.py for the transactions of one coin.  A check *)
(* walks the coin node's chain from the last block it knows to the tip, one*)
(* RPC call after the other, while the chain grows or is reorganised under *)
(* it, counts the confirmations of watched transactions and runs their     *)
(* callbacks.                                                              *)
(***************************************************************************)
EXTENDS Naturals, Sequences, FiniteSets, SequencesExt, Functions

CONSTANTS
    Watch,           \* watch ids, each for a transaction of its own
    Forms,           \* what of a watched transaction gets into blocks
    Confirmations,   \* self.confirmations
    MaxChecks,       \* self.max_block_checks
    MaxHeight,       \* bound: blocks mined after the start
    MaxForks,        \* bound: reorganisations of the chain
    MaxFailures,     \* bound: RPC calls and callbacks that raise
    MaxReports       \* bound: callbacks of a watch whose callback fails each time

ASSUME MonitorAssumption ==
    /\ IsFiniteSet(Watch)
    /\ {MaxHeight, MaxForks, MaxFailures, MaxReports} \subseteq Nat
    /\ "confirm" \in Forms /\ Forms \subseteq {"confirm", "mutate", "fraud"}
    /\ Confirmations \in Nat \ {0} /\ MaxChecks \in Nat \ {0}

Tx == Watch \X Forms      \* "fraud": spends the inputs of the watched one

(***************************************************************************)
(* A block hash stands for the chain up to the block.  A block is of a fork*)
(* and has transactions in an order.  <<>> is the tip at start-up.         *)
(***************************************************************************)
Block == [fork : 0 .. MaxForks, txs : Seq(Tx)]
Hash == Seq(Block)

Txs(hash) == IF hash = <<>> THEN <<>> ELSE Last(hash).txs

(***************************************************************************)
(* How deep a transaction is under a block, 0 if it is not there.          *)
(***************************************************************************)
Depth(tx, hash) ==
    Cardinality({i \in DOMAIN hash : \E j \in 1 .. i : tx \in ToSet(hash[j].txs)})

VARIABLES
    tip,         \* the chain of the coin's node
    forks,       \* how often it was reorganised
    failures,    \* how many calls of the monitor raised
    latest,      \* latest_blocks, {} for None: a block as it was when fetched
    processed,   \* processed_blocks, {} for None
    seen,        \* blocks: the watch ids found in a block
    watch,       \* watching
    phase,       \* where check() is
    block,       \* its variable block
    checks,      \* its variable block_checks
    orphaned,    \* its variable orphaned
    late,        \* auxiliary: watches added after their transaction was mined
    raised,      \* auxiliary: watches whose callback raised
    reports      \* auxiliary: the callbacks of a watch and how deep it was

chain == <<tip, forks>>
monitor == <<latest, processed, seen, watch, phase, block, checks, orphaned>>
vars == <<chain, failures, monitor, late, raised, reports>>

Events == {"confirm", "mutate", "fraud"}

(***************************************************************************)
(* A fetched block names the next one if the chain has one just then.      *)
(***************************************************************************)
Fetched == [hash : Hash, next : SUBSET Hash]
GetBlock(hash) ==
    [hash |-> hash,
     next |-> IF IsStrictPrefix(hash, tip) THEN {SubSeq(tip, 1, Len(hash) + 1)} ELSE {}]

WatchRecord ==
    [status : {"new", "watching", "stuck", "gone"}, event : Events \cup {"none"},
     confirmations : Nat, tx : SUBSET Tx, block : SUBSET Hash]

TypeOK ==
    /\ tip \in Hash /\ forks \in 0 .. MaxForks /\ failures \in Nat
    /\ latest \in SUBSET Fetched /\ Cardinality(latest) <= 1
    /\ processed \in SUBSET Hash /\ Cardinality(processed) <= 1
    /\ DOMAIN seen \subseteq Hash
    /\ \A hash \in DOMAIN seen : seen[hash] \in Seq(Watch) /\ seen[hash] # <<>>
    /\ watch \in [Watch -> WatchRecord]
    /\ phase \in {"idle", "walk", "process", "forced"}
    /\ block \in Fetched
    /\ checks \in Nat
    /\ orphaned \in Seq(Hash)
    /\ late \subseteq Watch /\ raised \subseteq Watch
    /\ reports \in [Watch -> Seq([event : Events, depth : Nat])]

Start == [hash |-> <<>>, next |-> {}]

Init ==
    /\ tip = <<>> /\ forks = 0 /\ failures = 0
    /\ latest = {Start}
    /\ processed = {}
    /\ seen = [hash \in {} |-> <<>>]
    /\ watch = [w \in Watch |-> [status |-> "new", event |-> "none", confirmations |-> 0,
                                 tx |-> {}, block |-> {}]]
    /\ phase = "idle"
    /\ block = Start
    /\ checks = 0
    /\ orphaned = <<>>
    /\ late = {} /\ raised = {}
    /\ reports = [w \in Watch |-> <<>>]

-----------------------------------------------------------------------------
(* The coin's node.                                                        *)

Mined(hash) == UNION {{tx[1] : tx \in ToSet(hash[i].txs)} : i \in DOMAIN hash}

(***************************************************************************)
(* A watched transaction is mined once on a chain, in one of its forms.    *)
(***************************************************************************)
NextBlocks(hash) ==
    LET fresh == {txs \in SeqOf((Watch \ Mined(hash)) \X Forms, Cardinality(Watch)) :
                    \A i, j \in DOMAIN txs : txs[i][1] = txs[j][1] => i = j}
    IN {Append(hash, [fork |-> forks', txs |-> txs]) : txs \in fresh}

Mine ==
    /\ Len(tip) < MaxHeight
    /\ forks' = forks
    /\ tip' \in NextBlocks(tip)
    /\ UNCHANGED <<failures, monitor, late, raised, reports>>

Longer(hash, n) ==
    FoldLeft(LAMBDA hashes, i : UNION {NextBlocks(h) : h \in hashes}, {hash}, [i \in 1 .. n |-> i])

(***************************************************************************)
(* The last blocks are replaced by more blocks than they were.             *)
(***************************************************************************)
Reorganise ==
    /\ forks < MaxForks
    /\ Len(tip) < MaxHeight
    /\ forks' = forks + 1
    /\ \E n \in 1 .. Len(tip) : tip' \in Longer(SubSeq(tip, 1, Len(tip) - n), n + 1)
    /\ UNCHANGED <<failures, monitor, late, raised, reports>>

-----------------------------------------------------------------------------
(***************************************************************************)
(* add_watch.  One whose transaction is confirmed already runs its callback*)
(* at once, fails in update_watch and is left in `watching`.               *)
(***************************************************************************)
AddWatch(w) ==
    /\ phase = "idle"
    /\ watch[w].status = "new"
    /\ LET tx == <<w, "confirm">>
           depth == Depth(tx, tip)
       IN IF depth >= Confirmations
          THEN /\ watch' = [watch EXCEPT ![w].status = "stuck", ![w].event = "confirm",
                                         ![w].block = {SubSeq(tip, 1, Len(tip) - depth + 1)}]
               /\ reports' = [reports EXCEPT ![w] = Append(@, [event |-> "confirm", depth |-> depth])]
          ELSE /\ watch' = [watch EXCEPT ![w].status = "watching"]
               /\ UNCHANGED reports
    /\ late' = IF w \in Mined(tip) THEN late \cup {w} ELSE late
    /\ UNCHANGED <<chain, failures, latest, processed, seen, phase, block, checks, orphaned, raised>>

-----------------------------------------------------------------------------
(* check()                                                                 *)

Goto(next, at) == phase' = next /\ block' = at

(***************************************************************************)
(* Without a latest block it fetches the tip, but fails on its own copy of *)
(* the None.                                                               *)
(***************************************************************************)
Recover ==
    /\ phase = "idle"
    /\ latest = {}
    /\ latest' = {GetBlock(tip)}
    /\ UNCHANGED <<chain, failures, processed, seen, watch, phase, block, checks, orphaned, late, raised, reports>>

(***************************************************************************)
(* The latest block is fetched again when the chain is higher; it has no   *)
(* next one then only if it was orphaned.                                  *)
(***************************************************************************)
StartCheck ==
    /\ phase = "idle"
    /\ \A w \in Watch : watch[w].status = "stuck" => Len(reports[w]) < MaxReports
    /\ \E known \in latest :
           LET refetched == IF Len(tip) > Len(known.hash) THEN GetBlock(known.hash) ELSE known
           IN IF Len(tip) > Len(known.hash) /\ refetched.next = {}
              THEN Goto("walk", refetched) ELSE Goto("process", refetched)
    /\ checks' = 1
    /\ orphaned' = <<>>
    /\ UNCHANGED <<chain, failures, latest, processed, seen, watch, late, raised, reports>>

KeptEmpty(lists) == lists  \* Mutant: a list with no watch left is not deleted.

NonEmpty(lists) == Restrict(lists, {hash \in DOMAIN lists : lists[hash] # <<>>})

(***************************************************************************)
(* remove_seen: out of the list of the block the watch was found in.       *)
(***************************************************************************)
RemoveSeen(lists, w, record) ==
    LET hash == CHOOSE hash \in record.block : TRUE IN [lists EXCEPT ![hash] = RemoveFirst(@, w)]

(***************************************************************************)
(* One confirmation less for the i-th watch found in a block, as the loop  *)
(* over that list has it: the list loses the watches whose count gets 0    *)
(* while the loop is on it.  st.dead: the id is not in `watching`.         *)
(***************************************************************************)
Decrement(st, hash, i) ==
    IF st.dead \/ i > Len(st.seen[hash]) THEN st
    ELSE LET w == st.seen[hash][i]
             record == st.watch[w]
         IN IF record.status = "gone" THEN [st EXCEPT !.dead = TRUE]
            ELSE IF record.confirmations = 0 THEN st
            ELSE IF record.confirmations > 1
            THEN [st EXCEPT !.watch[w] = [record EXCEPT !.confirmations = @ - 1]]
            ELSE [st EXCEPT !.watch[w] = [record EXCEPT !.confirmations = 0, !.event = "none"],
                            !.seen = RemoveSeen(@, w, record)]

(***************************************************************************)
(* All found watches lose a confirmation for every orphan.  A list that is *)
(* gone by the time the pass comes to it is a failed lookup.               *)
(***************************************************************************)
DecrementList(st, hash) ==
    FoldLeftDomain(LAMBDA s, i : Decrement(s, hash, i), st, seen[hash])

OnePass(st, hashes) ==
    FoldLeft(LAMBDA s, hash :
        IF st.seen[hash] = <<>> THEN s
        ELSE IF s.seen[hash] = <<>> THEN [s EXCEPT !.dead = TRUE]
        ELSE DecrementList(s, hash),
        st, hashes)

Orphans(list, hashes) ==
    FoldLeft(LAMBDA st, orphan :
        IF st.dead THEN st
        ELSE LET done == OnePass(st, hashes)
             IN IF done.dead THEN done ELSE [done EXCEPT !.processed = @ \ {orphan}],
        [watch |-> watch, seen |-> seen, processed |-> processed, dead |-> FALSE], list)

(***************************************************************************)
(* Back to a block that has a next one; then the orphans are processed.    *)
(***************************************************************************)
WalkBack ==
    /\ phase = "walk"
    /\ block.hash # <<>>
    /\ \E parent \in {GetBlock(Front(block.hash))} :
       /\ latest' = {parent}
       /\ orphaned' = Append(orphaned, parent.hash)
       /\ \/ /\ parent.next = {}
             /\ Goto("walk", parent)
             /\ UNCHANGED <<processed, seen, watch>>
          \/ /\ parent.next # {}
             /\ \E hashes \in SetToSeqs(DOMAIN seen) :
                \E st \in {Orphans(Append(orphaned, parent.hash), hashes)} :
                 /\ watch' = st.watch
                 /\ seen' = NonEmpty(st.seen)
                 /\ processed' = st.processed
                 /\ Goto(IF st.dead THEN "idle" ELSE "process", parent)
    /\ UNCHANGED <<chain, failures, checks, late, raised, reports>>

(***************************************************************************)
(* A block that was processed, or that a watch was found in, is skipped,   *)
(* and the next one is processed without a look at whether it was.         *)
(***************************************************************************)
Skips(hash) == hash \in processed \/ hash \in DOMAIN seen

SkipBlock ==
    /\ phase = "process"
    /\ Skips(block.hash)
    /\ IF block.next = {} THEN Goto("idle", Start)
       ELSE \E next \in block.next : Goto("forced", GetBlock(next))
    /\ UNCHANGED <<chain, failures, latest, processed, seen, watch, checks, orphaned, late, raised, reports>>

-----------------------------------------------------------------------------
(* A block against the watches.                                            *)

Watching == {w \in Watch : watch[w].status \in {"watching", "stuck"}}
Inputs == {w \in Watch : watch[w].status = "watching"}

Own(w) == {<<w, "confirm">>, <<w, "mutate">>}
OwnAt(w, txs) == {i \in DOMAIN txs : txs[i] \in Own(w)}

FromZero(w, hash) ==  \* Mutant: the block it is found in is not a confirmation.
    LET txs == Txs(hash) IN
    IF watch[w].event # "none" THEN [watch[w] EXCEPT !.confirmations = @ + 1]
    ELSE IF OwnAt(w, txs) = {} THEN watch[w]
    ELSE LET tx == txs[CHOOSE i \in OwnAt(w, txs) : TRUE] IN
         [watch[w] EXCEPT !.event = tx[2], !.tx = {tx}, !.block = {hash}]

Counted(w, hash) ==
    LET txs == Txs(hash) IN
    IF watch[w].event # "none" THEN [watch[w] EXCEPT !.confirmations = @ + 1]
    ELSE IF OwnAt(w, txs) = {} THEN watch[w]
    ELSE LET tx == txs[CHOOSE i \in OwnAt(w, txs) : TRUE] IN
         [watch[w] EXCEPT !.event = tx[2], !.confirmations = @ + 1, !.tx = {tx}, !.block = {hash}]

(***************************************************************************)
(* The transactions that w takes for a double spend, of whichever watch's  *)
(* inputs, before it comes to its own.                                     *)
(***************************************************************************)
DoubleSpends(w, hash) ==
    LET txs == Txs(hash)
        seenFirst == {txs[i] : i \in {k \in DOMAIN txs : \A j \in OwnAt(w, txs) : k < j}}
    IN {tx \in seenFirst : watch[w].event = "none" /\ tx[1] \in Inputs}

(***************************************************************************)
(* The second look at a suspect: nobody's own transaction.  The id put down*)
(* for the block is the last one that the loop over `watching` left.       *)
(***************************************************************************)
Flag(st, w, tx, hash, last) ==
    LET record == st.watch[w] IN
    IF \E v \in Watching : st.watch[v].tx = {tx} THEN st
    ELSE [st EXCEPT !.watch[w] = [record EXCEPT !.tx = {tx}, !.event = "fraud",
                                                !.confirmations = @ + 1, !.block = {hash}],
                    !.seen[hash] = Append(@, last)]

DueEarly(ws, order) ==  \* Mutant: off by one.
    {w \in ToSet(order) : ws[w].confirmations >= Confirmations - 1}

DueLate(ws, order) ==  \* Mutant: > for >=.
    {w \in ToSet(order) : ws[w].confirmations > Confirmations}

Due(ws, order) == {w \in ToSet(order) : ws[w].confirmations >= Confirmations}

Callback(record, hash) ==
    [event |-> record.event,
     depth |-> IF record.tx = {} THEN 0 ELSE Depth(CHOOSE tx \in record.tx : TRUE, hash)]

Report(ws, due, hash) ==
    reports' = [w \in Watch |->
                  IF w \in due THEN Append(reports[w], Callback(ws[w], hash)) ELSE reports[w]]

(***************************************************************************)
(* The watches of `order` counted for a block, and the block's list with   *)
(* those that were found in it.                                            *)
(***************************************************************************)
CountAll(order, hash) ==
    [watch |-> [w \in Watch |-> IF w \in ToSet(order) THEN Counted(w, hash) ELSE watch[w]],
     seen |-> FoldLeft(LAMBDA lists, w :
                  IF Counted(w, hash).event = watch[w].event THEN lists
                  ELSE [lists EXCEPT ![hash] = Append(@, w)],
                  [h \in DOMAIN seen \cup {hash} |-> IF h \in DOMAIN seen THEN seen[h] ELSE <<>>],
                  order)]

FlagWatch(st, w, hash, last) ==
    FoldLeft(LAMBDA s, tx : IF tx \in DoubleSpends(w, hash) THEN Flag(s, w, tx, hash, last) ELSE s,
             st, Txs(hash))

FlagAll(st, order, hash) ==
    FoldLeft(LAMBDA s, w : FlagWatch(s, w, hash, Last(order)), st, order)

RemoveAll(st, due, order) ==
    [watch |-> [w \in Watch |-> IF w \in due THEN [st.watch[w] EXCEPT !.status = "gone"]
                                ELSE st.watch[w]],
     seen |-> FoldLeft(LAMBDA lists, w :
                  IF w \in due THEN RemoveSeen(lists, w, st.watch[w]) ELSE lists,
                  st.seen, order)]

Processing == phase = "forced" \/ (phase = "process" /\ ~Skips(block.hash))

(***************************************************************************)
(* On to the next block, or the tip is reached.  After MaxChecks blocks, or*)
(* when the call for the next one fails, the latest block stays what it was*)
(***************************************************************************)
Reached == block.next = {} /\ latest' = {block} /\ Goto("idle", Start) /\ UNCHANGED <<checks, failures>>

Onward ==
    /\ UNCHANGED <<latest, failures>>
    /\ \E next \in block.next :
           IF checks = MaxChecks THEN Goto("idle", Start) /\ UNCHANGED checks
           ELSE Goto("process", GetBlock(next)) /\ checks' = checks + 1

Unfetched ==
    /\ block.next # {}
    /\ failures < MaxFailures
    /\ failures' = failures + 1
    /\ Goto("idle", Start)
    /\ UNCHANGED <<latest, checks>>

Advance == Reached \/ Onward \/ Unfetched

(***************************************************************************)
(* A block is processed, in the order that `watching` has, and no callback *)
(* raises.  The due watches are removed.                                   *)
(***************************************************************************)
ProcessBlock ==
    /\ Processing
    /\ \E order \in SetToSeqs(Watching) :
       \E counted \in {CountAll(order, block.hash)} :
       \E due \in {Due(counted.watch, order)} :
       \E left \in {RemoveAll(FlagAll(counted, order, block.hash), due, order)} :
           /\ \A w \in due : watch[w].status # "stuck"
           /\ watch' = left.watch
           /\ seen' = NonEmpty(left.seen)
           /\ Report(counted.watch, due, block.hash)
    /\ processed' = {block.hash}
    /\ Advance
    /\ UNCHANGED <<chain, orphaned, late, raised>>

(***************************************************************************)
(* A callback raises: that of a stuck watch always does, in update_watch,  *)
(* after it ran.  The watches before it in `watching` have been counted.   *)
(***************************************************************************)
CallbackRaises ==
    /\ Processing
    /\ \E order \in SetToSeqs(Watching) : \E n \in DOMAIN order :
       \E counted \in {CountAll(SubSeq(order, 1, n), block.hash)} :
       \E due \in {Due(counted.watch, SubSeq(order, 1, n))} :
           /\ order[n] \in due
           /\ \A w \in due \ {order[n]} : watch[w].status # "stuck"
           /\ IF watch[order[n]].status = "stuck" THEN UNCHANGED failures
              ELSE failures < MaxFailures /\ failures' = failures + 1
           /\ watch' = counted.watch
           /\ seen' = NonEmpty(counted.seen)
           /\ Report(counted.watch, due, block.hash)
           /\ raised' = raised \cup {order[n]}
    /\ Goto("idle", Start)
    /\ UNCHANGED <<chain, latest, processed, checks, orphaned, late>>

(***************************************************************************)
(* An RPC call of the check raises: for a parent on the walk back, which   *)
(* has set the latest block to None by then, or for a block's transactions.*)
(***************************************************************************)
CallForgets ==  \* Mutant: the latest block is None during the whole check.
    /\ phase # "idle"
    /\ failures < MaxFailures
    /\ failures' = failures + 1
    /\ latest' = {}
    /\ Goto("idle", Start)
    /\ UNCHANGED <<chain, processed, seen, watch, checks, orphaned, late, raised, reports>>

CallRaises ==
    /\ phase # "idle"
    /\ failures < MaxFailures
    /\ failures' = failures + 1
    /\ latest' = IF phase = "walk" THEN {} ELSE latest
    /\ Goto("idle", Start)
    /\ UNCHANGED <<chain, processed, seen, watch, checks, orphaned, late, raised, reports>>

Check ==
    \/ Recover \/ StartCheck
    \/ WalkBack
    \/ SkipBlock \/ ProcessBlock
    \/ CallbackRaises
    \/ CallRaises

Next ==
    \/ Mine \/ Reorganise
    \/ \E w \in Watch : AddWatch(w)
    \/ Check

Spec == Init /\ [][Next]_vars

(***************************************************************************)
(* The main loop keeps calling check(), and every call returns.            *)
(***************************************************************************)
FairSpec == Spec /\ WF_vars(Check)

-----------------------------------------------------------------------------
(***************************************************************************)
(* While the chain only grows and nothing raises, a callback comes once for*)
(* a watch, and not before its transaction is Confirmations deep, however  *)
(* the blocks arrive during a check (tx_monitor.py:284-359).  A double     *)
(* spend may be early: two of them in a block count twice (362-375).       *)
(***************************************************************************)
Calm == forks = 0 /\ failures = 0 /\ late = {}

CallbacksInTime ==
    Calm => \A w \in Watch :
        /\ Len(reports[w]) <= 1
        /\ \A i \in DOMAIN reports[w] :
              reports[w][i].event # "fraud" => reports[w][i].depth >= Confirmations

(***************************************************************************)
(* A callback that raises ends the check in the middle of a block; the next*)
(* check skips the block if a watch was found in it before (251-252).      *)
(***************************************************************************)
Undisturbed(w) == raised \subseteq {w} /\ (forks = 0 \/ failures = 0)

(***************************************************************************)
(* No block with a watched transaction is passed over: not when the monitor*)
(* goes back to an ancestor of orphaned blocks and on along the new chain, *)
(* and not when it starts a check over after an RPC error.  (After both,   *)
(* the recovery from a latest block of None does pass over blocks; so does *)
(* the check after another watch's callback raised.)  It is claimed where  *)
(* no watched transaction is mutated and nobody else spends their inputs:  *)
(* what is taken for a double spend is booked on another watch (302-320,   *)
(* 372), which then loses two confirmations for an orphan.  The same goes  *)
(* for NeverUndercounted.                                                  *)
(***************************************************************************)
NothingMissed ==
    phase = "idle" /\ processed # {} =>
        \A known \in latest : IsPrefix(known.hash, tip) =>
            \A w \in Watching \ late : Undisturbed(w) =>
                \A tx \in Own(w) : Depth(tx, known.hash) > 0 => watch[w].event # "none"

(***************************************************************************)
(* A found transaction is never counted for less than it is worth, also    *)
(* after a reorganisation has taken confirmations away for each orphan     *)
(* (tx_monitor.py:219-242): a payment that is deep enough is not held up.  *)
(***************************************************************************)
NeverUndercounted ==
    phase = "idle" =>
        \A known \in latest : IsPrefix(known.hash, tip) =>
            \A w \in Watching \ late : Undisturbed(w) =>
                \A tx \in watch[w].tx :
                    watch[w].event # "none" => watch[w].confirmations >= Depth(tx, known.hash)

Deep(w) == \E tx \in Own(w) : Depth(tx, tip) >= Confirmations

(***************************************************************************)
(* A transaction that is deep in the chain and stays there gets its        *)
(* callback in the end, although the chain was reorganised, a call failed, *)
(* or its own callback raised before.                                      *)
(***************************************************************************)
EveryTxReported ==
    \A w \in Watch :
        watch[w].status = "watching" /\ Deep(w) ~>
            \/ reports[w] # <<>>
            \/ ~Deep(w)
            \/ late # {} \/ ~Undisturbed(w)

(***************************************************************************)
(* "Confirm - Minimum confirmations reached for a transaction"             *)
(* (tx_monitor.py:4).                                                      *)
(***************************************************************************)
ConfirmMeansDeep ==
    \A w \in Watch \ late : \A i \in DOMAIN reports[w] :
        reports[w][i].event = "confirm" => reports[w][i].depth >= Confirmations
=============================================================================
