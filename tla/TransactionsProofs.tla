------------------------- MODULE TransactionsProofs -------------------------
(***************************************************************************)
(* Theorems about Transactions for any depth of nesting, any number of     *)
(* calls and statements.  Whatever fails, the outermost context leaves the *)
(* Database clean.  As long as no statement fails in a nested body, only   *)
(* the outermost context commits, and commits all that the call executed.  *)
(***************************************************************************)
EXTENDS Transactions, SequenceTheorems, TLAPS

(***************************************************************************)
(* The facts about sequences: a context is entered and left.               *)
(***************************************************************************)
LEMMA Pushed ==
    ASSUME NEW s \in Seq(BOOLEAN), NEW d \in BOOLEAN
    PROVE  /\ Append(s, d) \in Seq(BOOLEAN)
           /\ Append(s, d) # <<>>
           /\ Len(Append(s, d)) = Len(s) + 1
           /\ \A i \in 1..Len(s) : Append(s, d)[i] = s[i]
           /\ Append(s, d)[Len(s) + 1] = d
  OBVIOUS

LEMMA Popped ==
    ASSUME NEW S, NEW s \in Seq(S), s # <<>>
    PROVE  /\ SubSeq(s, 1, Len(s) - 1) \in Seq(S)
           /\ Len(SubSeq(s, 1, Len(s) - 1)) = Len(s) - 1
           /\ \A i \in 1..(Len(s) - 1) : SubSeq(s, 1, Len(s) - 1)[i] = s[i]
           /\ Len(s) \in Nat \ {0}
           /\ s[Len(s)] \in S
           /\ SubSeq(s, 1, Len(s) - 1) = <<>> <=> Len(s) = 1
  <1>1. Len(s) \in Nat \ {0} /\ s \in [1..Len(s) -> S]
    BY EmptySeq, LenProperties
  <1> DEFINE n == Len(s) - 1
             f == SubSeq(s, 1, n)
  <1>2. n \in Nat /\ \A i \in 1..n : s[i] \in S
    BY <1>1
  <1> HIDE DEF n
  <1>3. /\ f \in Seq(S) /\ Len(f) = (IF 1 <= n THEN n - 1 + 1 ELSE 0)
        /\ \A i \in 1..(n - 1 + 1) : f[i] = s[1 + i - 1]
    BY <1>2, SubSeqProperties
  <1>4. Len(f) = n /\ \A i \in 1..n : f[i] = s[i]
    BY <1>2, <1>3
  <1>5. f = <<>> <=> Len(f) = 0
    BY <1>3, EmptySeq
  <1> QED BY <1>1, <1>3, <1>4, <1>5 DEF n

-----------------------------------------------------------------------------
(***************************************************************************)
(* The inductive invariant of LeftClean: transactions are enabled outside  *)
(* and in the outermost context, and found so by the two outermost ones.   *)
(***************************************************************************)
Types ==
    /\ stack \in Seq(BOOLEAN) /\ Len(stack) <= MaxDepth
    /\ disable \in BOOLEAN /\ active \in BOOLEAN /\ cursor \in BOOLEAN
    /\ pending \subseteq Statement /\ committed \subseteq Statement
    /\ call \in 0..MaxCalls
    /\ ran \in [1..MaxCalls -> 0..MaxStatements]
    /\ Inside => call \in 1..MaxCalls

Enabled1 ==
    /\ Len(stack) <= 1 => ~ disable
    /\ Len(stack) >= 1 => ~ stack[1]
    /\ Len(stack) >= 2 => ~ stack[2]

Clean == Types /\ Enabled1 /\ LeftClean

(***************************************************************************)
(* Clean holds at the beginning.                                           *)
(***************************************************************************)
LEMMA InitClean == Init => Clean
  <1>1. ASSUME Init PROVE Types
    <2> USE <1>1 DEF Init
    <2>1. stack \in Seq(BOOLEAN) /\ Len(stack) <= MaxDepth
      BY BoundsAssumption
    <2>2. call \in 0..MaxCalls /\ ran \in [1..MaxCalls -> 0..MaxStatements]
      BY BoundsAssumption
    <2> QED BY <2>1, <2>2 DEF Types, Inside
  <1>2. ASSUME Init PROVE Enabled1 /\ LeftClean
    BY <1>2 DEF Init, Enabled1, LeftClean
  <1> QED BY <1>1, <1>2 DEF Clean

(***************************************************************************)
(* Entering a context: the flag found is pushed.                           *)
(***************************************************************************)
LEMMA EnterClean == ASSUME Clean, Enter PROVE Clean'
  <1> USE DEF Clean, Types, Enter
  <1>1. /\ stack' \in Seq(BOOLEAN) /\ stack' # <<>>
        /\ Len(stack') = Len(stack) + 1 /\ Len(stack) \in Nat
        /\ \A i \in 1..Len(stack) : stack'[i] = stack[i]
        /\ stack'[Len(stack) + 1] = disable
    BY Pushed
  <1>2. Len(stack') <= MaxDepth
    BY <1>1, BoundsAssumption
  <1>3. call' \in 1..MaxCalls
    BY BoundsAssumption DEF Inside
  <1>4. /\ active' \in BOOLEAN /\ cursor' \in BOOLEAN /\ disable' \in BOOLEAN
        /\ pending' \subseteq Statement
    BY DEF StartTransaction
  <1>5. Types'
    BY <1>1, <1>2, <1>3, <1>4 DEF Inside
  <1>6. stack = <<>> => Len(stack') = 1 /\ disable' = FALSE
    BY <1>1 DEF Enabled1, LeftClean
  <1>7. stack # <<>> => Len(stack) >= 1
    OBVIOUS
  <1>8. Enabled1'
    BY <1>1, <1>6, <1>7 DEF Enabled1
  <1> QED BY <1>1, <1>5, <1>8 DEF LeftClean

(***************************************************************************)
(* Leaving a context: if that makes the stack empty, the context was the   *)
(* outermost one and transactions were enabled in it.                      *)
(***************************************************************************)
LEMMA LeaveClean ==
    ASSUME Clean, Inside, Leave, Types',
           ~ disable => ~ active' /\ pending' = {}
    PROVE  Clean'
  <1> USE DEF Clean, Types
  <1>1. /\ Len(stack') = Len(stack) - 1
        /\ Len(stack) \in Nat \ {0}
        /\ \A i \in 1..(Len(stack) - 1) : stack'[i] = stack[i]
        /\ stack' = <<>> <=> Len(stack) = 1
        /\ disable' = stack[Len(stack)]
    BY Popped DEF Leave, Front, Inside, Restored, Top
  <1>2. Enabled1'
    BY <1>1 DEF Enabled1
  <1>3. LeftClean'
    <2> SUFFICES ASSUME stack' = <<>> PROVE ~ disable' /\ ~ active' /\ pending' = {}
      BY DEF LeftClean
    <2>1. Len(stack) = 1
      BY <1>1
    <2>2. ~ disable /\ ~ stack[1]
      BY <2>1 DEF Enabled1
    <2>3. ~ disable'
      BY <1>1, <2>1, <2>2
    <2> QED BY <2>2, <2>3
  <1> QED BY <1>2, <1>3

(***************************************************************************)
(* What leaving does to the types.                                         *)
(***************************************************************************)
LEMMA LeaveTypes ==
    ASSUME Types, Inside, Leave, UNCHANGED <<call, ran>>,
           active' \in BOOLEAN, cursor' \in BOOLEAN,
           pending' \subseteq Statement, committed' \subseteq Statement
    PROVE  Types'
  <1>1. /\ stack' \in Seq(BOOLEAN) /\ Len(stack') = Len(stack) - 1
        /\ Len(stack) \in Nat \ {0} /\ disable' \in BOOLEAN
    BY Popped DEF Types, Leave, Front, Inside, Restored, Top
  <1>2. Len(stack') <= MaxDepth
    BY <1>1, BoundsAssumption DEF Types
  <1> QED BY <1>1, <1>2 DEF Types, Inside

(***************************************************************************)
(* Every step keeps Clean.                                                 *)
(***************************************************************************)
LEMMA StepClean == ASSUME Clean, [Next]_vars PROVE Clean'
  <1>1. CASE Enter
    BY <1>1, EnterClean
  <1>2. CASE Execute
    <2> USE <1>2 DEF Execute
    <2>1. call \in 1..MaxCalls /\ ran[call] \in 0..MaxStatements
      BY DEF Clean, Types
    <2>2. ran[call] + 1 \in 1..MaxStatements
      BY <2>1, BoundsAssumption
    <2>3. pending' \subseteq Statement
      BY <2>1, <2>2 DEF Clean, Types, Statement
    <2>4. ran' \in [1..MaxCalls -> 0..MaxStatements]
      BY <2>1, <2>2 DEF Clean, Types
    <2>5. Types'
      BY <2>3, <2>4 DEF Clean, Types, Inside
    <2>6. Enabled1' /\ LeftClean'
      BY DEF Clean, Enabled1, LeftClean, Inside
    <2> QED BY <2>5, <2>6 DEF Clean
  <1>3. CASE Raise
    <2> USE <1>3 DEF Raise
    <2>1. /\ active' \in BOOLEAN /\ cursor' \in BOOLEAN /\ pending' \subseteq Statement
          /\ ~ disable => ~ active' /\ pending' = {}
      BY DEF Destroyed, Clean, Types
    <2>2. Types'
      BY <2>1, LeaveTypes DEF Clean, Types
    <2> QED BY <2>1, <2>2, LeaveClean
  <1>4. CASE SqlFails
    <2> USE <1>4 DEF SqlFails
    <2>2. Types'
      BY LeaveTypes DEF Clean, Types
    <2> QED BY <2>2, LeaveClean
  <1>5. CASE Exit
    <2> USE <1>5 DEF Exit
    <2>1. /\ active' \in BOOLEAN /\ cursor' \in BOOLEAN
          /\ pending' \subseteq Statement /\ committed' \subseteq Statement
          /\ ~ disable => ~ active' /\ pending' = {}
      BY DEF Clean, Types
    <2>2. Types'
      BY <2>1, LeaveTypes DEF Clean
    <2> QED BY <2>1, <2>2, LeaveClean
  <1>6. CASE UNCHANGED vars
    BY <1>6 DEF vars, Clean, Types, Enabled1, LeftClean, Inside
  <1> QED BY <1>1, <1>2, <1>3, <1>4, <1>5, <1>6 DEF Next

(***************************************************************************)
(* Clean is an invariant, whatever may go wrong.                           *)
(***************************************************************************)
THEOREM AlwaysClean == Spec => []Clean
  <1>1. Init => Clean
    BY InitClean
  <1>2. Clean /\ [Next]_vars => Clean'
    BY StepClean
  <1> QED BY <1>1, <1>2, PTL DEF Spec

(***************************************************************************)
(* The types, and that an outermost context finds transactions enabled.    *)
(***************************************************************************)
THEOREM TypeCorrect == Spec => []TypeOK
  <1>1. Clean => TypeOK
    <2> SUFFICES ASSUME Clean PROVE TypeOK
      OBVIOUS
    <2>1. Inside => ~ stack[1]
      <3> SUFFICES ASSUME Inside PROVE ~ stack[1]
        OBVIOUS
      <3>1. Len(stack) >= 1
        BY Popped DEF Clean, Types, Inside
      <3> QED BY <3>1 DEF Clean, Enabled1
    <2> QED BY <2>1 DEF TypeOK, Clean, Types
  <1> QED BY <1>1, AlwaysClean, PTL

(***************************************************************************)
(* The outermost context leaves the Database as it found it (__exit__).    *)
(***************************************************************************)
THEOREM OutermostLeavesClean == Spec => []LeftClean
  <1>1. Clean => LeftClean
    BY DEF Clean
  <1> QED BY <1>1, AlwaysClean, PTL

-----------------------------------------------------------------------------
(***************************************************************************)
(* Without a failing statement in a nested body: the transaction is the    *)
(* outermost context's all the time, nested contexts have transactions     *)
(* disabled, and it holds just what this call has executed.                *)
(***************************************************************************)
OneTransaction ==
    /\ Inside => active /\ cursor /\ pending = RanBy(call)
    /\ disable <=> Nested
    /\ \A i \in 1..Len(stack) : stack[i] <=> i > 2

(***************************************************************************)
(* The calls that have ended are saved or not; the others have not begun.  *)
(***************************************************************************)
Saved ==
    /\ \A c \in 1..MaxCalls : c > call => ran[c] = 0
    /\ \A s \in committed : s[1] <= call
    /\ Inside => \A s \in committed : s[1] # call
    /\ AllOrNothing

Owned == Clean /\ OneTransaction /\ Saved

(***************************************************************************)
(* Owned holds at the beginning.                                           *)
(***************************************************************************)
LEMMA InitOwned == Init => Owned
  <1> SUFFICES ASSUME Init PROVE Owned
    OBVIOUS
  <1>1. OneTransaction
    BY DEF Init, OneTransaction, Inside, Nested
  <1>2. Saved
    BY DEF Init, Saved, AllOrNothing, Inside
  <1> QED BY <1>1, <1>2, InitClean DEF Owned

(***************************************************************************)
(* Entering: the outermost context begins, a nested one finds a            *)
(* transaction open and disables them.                                     *)
(***************************************************************************)
LEMMA EnterOwned == ASSUME Owned, Enter PROVE Owned'
  <1> USE DEF Enter
  <1>1. Types
    BY DEF Owned, Clean
  <1>2. /\ stack' # <<>> /\ Len(stack') = Len(stack) + 1 /\ Len(stack) \in Nat
        /\ \A i \in 1..Len(stack) : stack'[i] = stack[i]
        /\ stack'[Len(stack) + 1] = disable
    BY <1>1, Pushed DEF Types
  <1>3. CASE Inside
    <2>1. Len(stack) >= 1 /\ active
      BY <1>1, <1>3 DEF Inside, Types, Owned, OneTransaction
    <2>2. UNCHANGED <<active, cursor, pending, call, committed, ran>> /\ disable'
      BY <2>1, <1>3 DEF StartTransaction
    <2>3. OneTransaction'
      BY <1>2, <1>3, <2>1, <2>2 DEF Owned, OneTransaction, Nested, Inside, RanBy
    <2>4. Saved'
      BY <1>3, <2>2 DEF Owned, Saved, AllOrNothing, RanBy, Inside
    <2> QED BY <2>3, <2>4, EnterClean DEF Owned
  <1>4. CASE ~ Inside
    <2>1. Len(stack) = 0 /\ ~ disable /\ ~ active
      BY <1>4 DEF Inside, Owned, Clean, LeftClean
    <2>2. /\ active' /\ cursor' /\ pending' = {} /\ ~ disable'
          /\ call' = call + 1 /\ call' \in 1..MaxCalls
          /\ UNCHANGED <<committed, ran>>
      BY <2>1, <1>4, <1>1, BoundsAssumption DEF StartTransaction, Types
    <2>3. ran[call'] = 0 /\ call \in Nat
      BY <2>2, <1>1 DEF Owned, Saved, Types
    <2>4. RanBy(call)' = {}
      BY <2>2, <2>3 DEF RanBy
    <2>5. OneTransaction'
      BY <1>2, <2>1, <2>2, <2>4 DEF OneTransaction, Nested, Inside
    <2>6. committed \subseteq Statement
      BY <1>1 DEF Types
    <2>7. \A s \in committed : s[1] \in Nat /\ s[1] <= call
      BY <2>6 DEF Owned, Saved, Statement
    <2>8. Saved'
      BY <2>2, <2>3, <2>7 DEF Owned, Saved, AllOrNothing, RanBy
    <2> QED BY <2>5, <2>8, EnterClean DEF Owned
  <1> QED BY <1>3, <1>4

(***************************************************************************)
(* A statement joins the transaction.                                      *)
(***************************************************************************)
LEMMA ExecuteOwned == ASSUME Owned, Execute PROVE Owned'
  <1> USE DEF Execute
  <1>1. Types /\ Clean'
    BY StepClean DEF Owned, Clean, Next
  <1>2. call \in 1..MaxCalls /\ ran[call] \in Nat
    BY <1>1 DEF Types
  <1>3. ran'[call] = ran[call] + 1 /\ \A c \in 1..MaxCalls : c # call => ran'[c] = ran[c]
    BY <1>1, <1>2 DEF Types
  <1>4. 1..(ran[call] + 1) = (1..ran[call]) \cup {ran[call] + 1}
    BY <1>2
  <1>5. RanBy(call)' = RanBy(call) \cup {<<call, ran[call] + 1>>}
    BY <1>3, <1>4 DEF RanBy
  <1>6. OneTransaction'
    BY <1>5 DEF Owned, OneTransaction, Inside, Nested
  <1>7. AllOrNothing'
    <2> SUFFICES ASSUME NEW c \in 1..MaxCalls
                 PROVE  \/ {s \in committed : s[1] = c} = {}
                        \/ {s \in committed : s[1] = c} = {<<c, i>> : i \in 1..ran'[c]}
      BY DEF AllOrNothing, RanBy
    <2>1. CASE c = call
      BY <2>1 DEF Owned, Saved
    <2>2. CASE c # call
      BY <2>2, <1>3 DEF Owned, Saved, AllOrNothing, RanBy
    <2> QED BY <2>1, <2>2
  <1>8. Saved'
    BY <1>3, <1>2, <1>7 DEF Owned, Saved, Inside
  <1> QED BY <1>1, <1>6, <1>8 DEF Owned

(***************************************************************************)
(* A nested context is left: nothing but the flag changes.                 *)
(***************************************************************************)
LEMMA LeaveNested ==
    ASSUME Owned, Clean', Nested, Leave,
           UNCHANGED <<active, cursor, pending, committed, call, ran>>
    PROVE  Owned'
  <1>1. Types
    BY DEF Owned, Clean
  <1>2. Inside
    BY <1>1 DEF Types, Inside, Nested
  <1>3. /\ Len(stack') = Len(stack) - 1 /\ Len(stack) \in Nat \ {0}
        /\ \A i \in 1..(Len(stack) - 1) : stack'[i] = stack[i]
        /\ disable' = stack[Len(stack)]
    BY <1>1, <1>2, Popped DEF Types, Leave, Front, Inside, Restored, Top
  <1>4. Len(stack) >= 2
    BY <1>3 DEF Nested
  <1>5. OneTransaction'
    BY <1>2, <1>3, <1>4 DEF Owned, OneTransaction, Nested, Inside, RanBy
  <1>6. Saved'
    BY <1>2 DEF Owned, Saved, AllOrNothing, RanBy, Inside
  <1> QED BY <1>5, <1>6 DEF Owned

(***************************************************************************)
(* The outermost context is left: what the call executed is saved or lost. *)
(***************************************************************************)
LEMMA LeaveOutermost ==
    ASSUME Owned, Clean', Inside, ~ Nested, Leave, UNCHANGED <<call, ran>>,
           committed' = committed \/ committed' = committed \cup pending
    PROVE  Owned'
  <1>1. Types
    BY DEF Owned, Clean
  <1>2. Len(stack) = 1 /\ stack' = <<>> /\ Len(stack') = 0
    BY <1>1, Popped DEF Types, Inside, Nested, Leave, Front
  <1>3. OneTransaction'
    BY <1>2 DEF OneTransaction, Inside, Nested, Owned, Clean, LeftClean
  <1>4. call \in 1..MaxCalls /\ pending = RanBy(call)
    BY <1>1 DEF Types, Owned, OneTransaction
  <1>5. \A s \in RanBy(call) : s[1] = call
    BY DEF RanBy
  <1>6. AllOrNothing'
    <2> SUFFICES ASSUME NEW c \in 1..MaxCalls
                 PROVE  \/ {s \in committed' : s[1] = c} = {}
                        \/ {s \in committed' : s[1] = c} = RanBy(c)
      BY DEF AllOrNothing, RanBy
    <2>1. CASE c = call
      <3>1. \A s \in committed : s[1] # c
        BY <2>1 DEF Owned, Saved
      <3> QED BY <3>1, <2>1, <1>4, <1>5
    <2>2. CASE c # call
      <3>1. {s \in committed' : s[1] = c} = {s \in committed : s[1] = c}
        BY <2>2, <1>4, <1>5
      <3> QED BY <3>1 DEF Owned, Saved, AllOrNothing
    <2> QED BY <2>1, <2>2
  <1>7. \A s \in committed' : s[1] <= call
    BY <1>4, <1>5 DEF Owned, Saved
  <1>8. Saved'
    BY <1>2, <1>6, <1>7 DEF Owned, Saved, Inside
  <1> QED BY <1>3, <1>8 DEF Owned

(***************************************************************************)
(* Every step keeps Owned, and commits in the outermost context only.      *)
(***************************************************************************)
LEMMA StepOwned ==
    ASSUME "nested_sql" \notin Faults, Owned, [Next]_vars
    PROVE  Owned' /\ (committed' # committed => Len(stack) = 1)
  <1>1. Types /\ Clean'
    BY StepClean DEF Owned, Clean
  <1>2. (disable <=> Nested) /\ (Inside => active /\ cursor)
    BY DEF Owned, OneTransaction
  <1>3. Inside /\ ~ Nested => Len(stack) = 1
    BY <1>1, Popped DEF Types, Inside, Nested
  <1>4. CASE Enter
    BY <1>4, EnterOwned DEF Enter
  <1>5. CASE Execute
    BY <1>5, ExecuteOwned DEF Execute
  <1>6. CASE Raise
    <2>1. CASE Nested
      BY <1>1, <1>2, <1>6, <2>1, LeaveNested DEF Raise, Destroyed
    <2>2. CASE ~ Nested
      BY <1>1, <1>6, <2>2, LeaveOutermost DEF Raise
    <2> QED BY <2>1, <2>2
  <1>7. CASE SqlFails
    <2>1. ~ Nested
      BY <1>2, <1>7 DEF SqlFails
    <2> QED BY <1>1, <1>7, <2>1, LeaveOutermost DEF SqlFails
  <1>8. CASE Exit
    <2>1. CASE Nested
      BY <1>1, <1>2, <1>8, <2>1, LeaveNested DEF Exit
    <2>2. CASE ~ Nested
      BY <1>1, <1>2, <1>3, <1>8, <2>2, LeaveOutermost DEF Exit
    <2> QED BY <2>1, <2>2
  <1>9. CASE UNCHANGED vars
    BY <1>1, <1>9 DEF vars, Owned, OneTransaction, Saved, AllOrNothing, RanBy, Inside, Nested
  <1> QED BY <1>4, <1>5, <1>6, <1>7, <1>8, <1>9 DEF Next

(***************************************************************************)
(* As long as no statement fails in a nested body, a call is saved with    *)
(* all it executed or not at all ("otherwise an invalid state may be saved *)
(* to the database", database.py:253).                                     *)
(***************************************************************************)
THEOREM SavedAsAWhole ==
    ASSUME "nested_sql" \notin Faults
    PROVE  Spec => []AllOrNothing
  <1>1. Init => Owned
    BY InitOwned
  <1>2. Owned /\ [Next]_vars => Owned'
    BY StepOwned
  <1>3. Owned => AllOrNothing
    BY DEF Owned, Saved
  <1> QED BY <1>1, <1>2, <1>3, PTL DEF Spec

(***************************************************************************)
(* ... and only the parent function decides to commit (database.py:258).   *)
(***************************************************************************)
THEOREM ParentCommits ==
    ASSUME "nested_sql" \notin Faults
    PROVE  Spec => OnlyParentCommits
  <1>1. Init => Owned
    BY InitOwned
  <1>2. Owned /\ [Next]_vars => Owned'
    BY StepOwned
  <1>3. Owned /\ [Next]_vars => [committed' # committed => Len(stack) = 1]_vars
    BY StepOwned
  <1> QED BY <1>1, <1>2, <1>3, PTL DEF Spec, OnlyParentCommits
=============================================================================
