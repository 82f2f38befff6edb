---------------------------- MODULE Transactions ----------------------------
(***************************************************************************)
(* `with Transaction(db)`, database.py: functions that need a transaction  *)
(* call each other, and each opens a context on the same Database object.  *)
(* Only the outermost context is meant to begin and to end a transaction;  *)
(* for the others disable_transactions turns both into nothing.  __exit__  *)
(* returns True, so no exception gets out of a context: the function that  *)
(* called goes on.                                                         *)
(***************************************************************************)
EXTENDS Integers, Sequences

CONSTANTS
    Faults,        \* what may go wrong, a subset of FaultKinds
    MaxCalls,      \* bound: calls of an outermost function
    MaxStatements, \* bound: statements of one of them, nested ones included
    MaxDepth       \* bound: contexts in one another

(***************************************************************************)
(* A body raises; a statement fails, in an outermost or in a nested body;  *)
(* the commit fails.                                                       *)
(***************************************************************************)
FaultKinds == {"raise", "sql", "nested_sql", "commit"}

ASSUME FaultsAssumption == Faults \subseteq FaultKinds

ASSUME BoundsAssumption ==
    MaxCalls \in Nat /\ MaxStatements \in Nat /\ MaxDepth \in Nat

VARIABLES
    stack,      \* self.disable_transactions of the contexts, innermost last
    disable,    \* db.disable_transactions
    active,     \* db.in_transaction
    cursor,     \* does db.cur belong to the connection there is?
    pending,    \* statements of the open transaction
    committed,  \* statements in the database for good
    call,       \* auxiliary: the number of the outermost call
    ran         \* auxiliary: how many statements each call has executed

vars == <<stack, disable, active, cursor, pending, committed, call, ran>>

Statement == (1..MaxCalls) \X (1..MaxStatements)

Init ==
    /\ stack = <<>>
    /\ disable = FALSE /\ active = FALSE /\ cursor = FALSE
    /\ pending = {} /\ committed = {}
    /\ call = 0
    /\ ran = [c \in 1..MaxCalls |-> 0]

Inside == stack # <<>>

Nested == Len(stack) > 1

Top == stack[Len(stack)]

Front == SubSeq(stack, 1, Len(stack) - 1)

-----------------------------------------------------------------------------
(***************************************************************************)
(* __enter__ with start_transaction, which also opens a cursor.            *)
(***************************************************************************)
StartTransaction(disabled) ==
    IF disabled THEN UNCHANGED <<active, cursor, pending>>
    ELSE active' = TRUE /\ cursor' = TRUE /\ pending' = {}

Enter ==
    /\ Len(stack) < MaxDepth
    /\ Inside \/ call < MaxCalls
    /\ call' = IF Inside THEN call ELSE call + 1
    /\ stack' = Append(stack, disable)
    /\ disable' = (disable \/ active)
    /\ StartTransaction(disable \/ active)
    /\ UNCHANGED <<committed, ran>>

(***************************************************************************)
(* execute() works as long as the cursor is that of the connection.        *)
(***************************************************************************)
Execute ==
    /\ Inside /\ cursor
    /\ ran[call] < MaxStatements
    /\ pending' = pending \cup {<<call, ran[call] + 1>>}
    /\ ran' = [ran EXCEPT ![call] = @ + 1]
    /\ UNCHANGED <<stack, disable, active, cursor, committed, call>>

(***************************************************************************)
(* db.disable_transactions is what it was when the context was entered.    *)
(* Two mutated forms: it is always cleared, and it is left as it is.       *)
(***************************************************************************)
AlwaysEnabled == FALSE

StaysDisabled == disable

Restored == Top

Leave == stack' = Front /\ disable' = Restored

(***************************************************************************)
(* __exit__ of a body that has raised: destroy_transaction.                *)
(***************************************************************************)
Destroyed ==
    IF disable THEN UNCHANGED <<active, cursor, pending>>
    ELSE active' = FALSE /\ cursor' = FALSE /\ pending' = {}

Raise ==
    /\ Inside /\ "raise" \in Faults
    /\ Destroyed
    /\ Leave
    /\ UNCHANGED <<committed, call, ran>>

(***************************************************************************)
(* A statement fails, or the cursor is one of a connection that is gone:   *)
(* execute() kills the connection, connects again and raises, and what the *)
(* transaction had done so far is lost.  The cursor is not opened again.   *)
(***************************************************************************)
SqlFails ==
    /\ Inside
    /\ ~ cursor \/ (IF Nested THEN "nested_sql" \in Faults ELSE "sql" \in Faults)
    /\ active' = FALSE /\ cursor' = FALSE /\ pending' = {}
    /\ Leave
    /\ UNCHANGED <<committed, call, ran>>

(***************************************************************************)
(* __exit__ of a body that has come to its end: finish_transaction, and    *)
(* destroy_transaction if the commit fails.                                *)
(***************************************************************************)
Exit ==
    /\ Inside
    /\ IF disable
       THEN UNCHANGED <<active, cursor, pending, committed>>
       ELSE /\ active' = FALSE /\ cursor' = FALSE /\ pending' = {}
            /\ \/ committed' = committed \cup pending
               \/ "commit" \in Faults /\ UNCHANGED committed
    /\ Leave
    /\ UNCHANGED <<call, ran>>

Next == Enter \/ Execute \/ Raise \/ SqlFails \/ Exit

Spec == Init /\ [][Next]_vars

-----------------------------------------------------------------------------
(***************************************************************************)
(* The types of the variables; an outermost context finds transactions     *)
(* enabled.                                                                *)
(***************************************************************************)
TypeOK ==
    /\ stack \in Seq(BOOLEAN) /\ Len(stack) <= MaxDepth
    /\ Inside => ~ stack[1]
    /\ disable \in BOOLEAN /\ active \in BOOLEAN /\ cursor \in BOOLEAN
    /\ pending \subseteq Statement /\ committed \subseteq Statement
    /\ call \in 0..MaxCalls
    /\ ran \in [1..MaxCalls -> 0..MaxStatements]

(***************************************************************************)
(* Whatever was nested, raised or lost in between, the outermost context   *)
(* leaves the Database as it found it: transactions enabled, none open.    *)
(* Otherwise the next one would not begin any ("Already in a transaction").*)
(***************************************************************************)
LeftClean == stack = <<>> => ~ disable /\ ~ active /\ pending = {}

(***************************************************************************)
(* What the functions called by an outermost one execute is saved together *)
(* with what it executes itself, or not at all.                            *)
(***************************************************************************)
RanBy(c) == {<<c, i>> : i \in 1..ran[c]}

AllOrNothing ==
    \A c \in 1..MaxCalls :
        LET saved == {s \in committed : s[1] = c} IN saved = {} \/ saved = RanBy(c)

(***************************************************************************)
(* "Only the parent function which starts the transaction has the right to *)
(* decide to commit the transaction" (database.py:262).                    *)
(***************************************************************************)
OnlyParentCommits == [][committed' # committed => Len(stack) = 1]_vars
=============================================================================
