-------------------------- MODULE TxMonitorProofs --------------------------
(***************************************************************************)
(* Proofs about the TX monitor: the type of its state, for whatever the    *)
(* chain does and whichever call raises (TypeCorrectness), that a callback *)
(* comes once and not too early while the chain only grows                 *)
(* (TimelyCallbacks), and that no block is passed over and no confirmation *)
(* is missing, if the chain is reorganised or if calls raise               *)
(* (NoBlockPassedOver, DepthIsCounted).  The loops of the code are folds   *)
(* over sequences; the lemmas up to IInv say which sets the values of these*)
(* folds stay in.                                                          *)
(***************************************************************************)
EXTENDS TxMonitor, FiniteSetTheorems, SequenceTheorems, WellFoundedInduction, TLAPS

-----------------------------------------------------------------------------
(***************************************************************************)
(* Sets of numbers, and the library's folds over sequences: FoldLeft is a  *)
(* recursive function on the sets of indices.  It exists (FoldExists), and *)
(* what its steps preserve holds of its value (FoldSound).                 *)
(***************************************************************************)
LEMMA LeastNat ==
    ASSUME NEW T, T \subseteq Nat, T # {}
    PROVE  \E m \in T : \A n \in T : m <= n
<1>1. PICK m \in T : \A n \in T : ~(<<n, m>> \in OpToRel(<, Nat))
  BY NatLessThanWellFounded, WFMin, Zenon
<1>2. ASSUME NEW n \in T PROVE m <= n
  <2>1. m \in Nat /\ n \in Nat /\ <<n, m>> \in Nat \X Nat
    OBVIOUS
  <2>2. <<n, m>>[1] = n /\ <<n, m>>[2] = m
    OBVIOUS
  <2>3. <<n, m>> \in OpToRel(<, Nat) <=> <<n, m>> \in Nat \X Nat /\ n < m
    BY <2>2, Zenon DEF OpToRel
  <2>4. ~(n < m)
    BY <1>1, <2>1, <2>3, Zenon
  <2> QED
    BY <2>1, <2>4
<1> QED
  BY <1>2

LEMMA SetInduction ==
    ASSUME NEW T, 0 \in T, \A n \in Nat : n \in T => n + 1 \in T
    PROVE  Nat \subseteq T
<1> SUFFICES ASSUME Nat \ T # {} PROVE FALSE
  OBVIOUS
<1>1. PICK m \in Nat \ T : \A n \in Nat \ T : m <= n
  BY LeastNat
<1>2. m # 0 /\ m - 1 \in Nat /\ m - 1 \in T
  BY <1>1
<1> QED
  BY <1>1, <1>2

LEMMA MaxOf ==
    ASSUME NEW n \in Nat, NEW s \in SUBSET (1 .. n), s # {}
    PROVE  Max(s) \in s /\ \A x \in s : x <= Max(s)
<1> DEFINE T == {k \in Nat : \E x \in s : k = n - x}
<1>1. T \subseteq Nat /\ T # {}
  <2>1. PICK x \in s : TRUE
    OBVIOUS
  <2>2. n - x \in Nat
    BY <2>1
  <2> QED
    BY <2>1, <2>2
<1>2. PICK m \in T : \A k \in T : m <= k
  BY <1>1, LeastNat
<1>3. PICK x \in s : m = n - x
  BY <1>2
<1>4. \A y \in s : x >= y
  <2> TAKE y \in s
  <2>1. n - y \in T
    OBVIOUS
  <2> QED
    BY <1>2, <1>3, <2>1
<1>5. \E z \in s : \A y \in s : z >= y
  BY <1>4
<1>6. Max(s) \in s /\ \A y \in s : Max(s) >= y
  BY <1>5 DEF Max
<1> QED
  BY <1>6

IsFold(g, st, F, n) ==
    g = [s \in SUBSET (1 .. n) |-> IF s = {} THEN st ELSE F[Max(s)][g[s \ {Max(s)}]]]

LEMMA FoldExists ==
    ASSUME NEW St, NEW st \in St, NEW n \in Nat, NEW F \in [1 .. n -> [St -> St]]
    PROVE  \E g \in [SUBSET (1 .. n) -> St] : IsFold(g, st, F, n)
<1> DEFINE T == {k \in Nat : k <= n => \E g \in [SUBSET (1 .. k) -> St] : IsFold(g, st, F, k)}
<1>1. 0 \in T
  <2> DEFINE g == [s \in SUBSET (1 .. 0) |-> st]
  <2>1. g \in [SUBSET (1 .. 0) -> St]
    OBVIOUS
  <2>2. \A s \in SUBSET (1 .. 0) : s = {}
    OBVIOUS
  <2>3. IsFold(g, st, F, 0)
    BY <2>2 DEF IsFold
  <2> QED
    BY <2>1, <2>3
<1>2. ASSUME NEW k \in Nat, k \in T PROVE k + 1 \in T
  <2>0. k + 1 \in Nat
    OBVIOUS
  <2> SUFFICES ASSUME k + 1 <= n
               PROVE  \E g \in [SUBSET (1 .. k + 1) -> St] : IsFold(g, st, F, k + 1)
    BY <2>0, Zenon
  <2>1. PICK g \in [SUBSET (1 .. k) -> St] : IsFold(g, st, F, k)
    <3>1. k <= n
      OBVIOUS
    <3> QED
      BY <1>2, <3>1, Zenon
  <2> DEFINE h == [s \in SUBSET (1 .. k + 1) |->
                     IF k + 1 \in s THEN F[k + 1][g[s \ {k + 1}]] ELSE g[s]]
  <2>2. ASSUME NEW s \in SUBSET (1 .. k + 1)
        PROVE  /\ h[s] \in St
               /\ h[s] = IF s = {} THEN st ELSE F[Max(s)][h[s \ {Max(s)}]]
    <3>1. CASE k + 1 \in s
      <4>1. Max(s) = k + 1
        <5>1. Max(s) \in s /\ \A x \in s : x <= Max(s)
          <6>1. k + 1 \in Nat /\ s # {}
            BY <3>1
          <6> QED
            BY <6>1, MaxOf, Zenon
        <5>2. Max(s) \in 1 .. k + 1 /\ k + 1 <= Max(s)
          BY <3>1, <5>1
        <5> QED
          BY <5>2
      <4>2. s \ {k + 1} \in SUBSET (1 .. k) /\ s \ {k + 1} \in SUBSET (1 .. k + 1)
        OBVIOUS
      <4>3. h[s] = F[k + 1][g[s \ {k + 1}]] /\ h[s \ {k + 1}] = g[s \ {k + 1}]
        BY <3>1, <4>2
      <4>4. g[s \ {k + 1}] \in St /\ k + 1 \in 1 .. n
        BY <4>2
      <4> QED
        BY <3>1, <4>1, <4>3, <4>4
    <3>2. CASE k + 1 \notin s
      <4>1. s \in SUBSET (1 .. k) /\ h[s] = g[s] /\ g[s] \in St
        BY <3>2
      <4>2. g[s] = IF s = {} THEN st ELSE F[Max(s)][g[s \ {Max(s)}]]
        BY <2>1, <4>1 DEF IsFold
      <4>3. s \ {Max(s)} \in SUBSET (1 .. k + 1) /\ k + 1 \notin s \ {Max(s)}
        BY <3>2
      <4>4. h[s \ {Max(s)}] = g[s \ {Max(s)}]
        BY <4>3
      <4> QED
        BY <4>1, <4>2, <4>4
    <3> QED
      BY <3>1, <3>2
  <2>3. h \in [SUBSET (1 .. k + 1) -> St]
    BY <2>2
  <2>4. IsFold(h, st, F, k + 1)
    BY <2>2 DEF IsFold
  <2> HIDE DEF h
  <2> QED
    BY <2>3, <2>4
<1> HIDE DEF T
<1>3. n \in T
  BY <1>1, <1>2, SetInduction
<1>4. n <= n
  OBVIOUS
<1> QED
  BY <1>3, <1>4, Zenon DEF T

LEMMA UpTo ==
    ASSUME NEW n \in Nat, NEW x \in 1 .. n
    PROVE  /\ 1 .. x \in SUBSET (1 .. n) /\ 1 .. x # {} /\ Max(1 .. x) = x
           /\ (1 .. x) \ {x} = 1 .. (x - 1) /\ x - 1 \in 0 .. n
<1>1. 1 .. x \in SUBSET (1 .. n) /\ x \in 1 .. x
  OBVIOUS
<1>2. Max(1 .. x) \in 1 .. x /\ x <= Max(1 .. x)
  BY <1>1, MaxOf
<1> QED
  BY <1>1, <1>2

LEMMA StepInduction ==
    ASSUME NEW n \in Nat, NEW T, 0 \in T, \A x \in 1 .. n : x - 1 \in T => x \in T
    PROVE  0 .. n \subseteq T
<1> DEFINE U == {k \in Nat : k <= n => k \in T}
<1>1. 0 \in U
  OBVIOUS
<1>2. ASSUME NEW k \in Nat, k \in U PROVE k + 1 \in U
  <2> SUFFICES ASSUME k + 1 <= n PROVE k + 1 \in T
    OBVIOUS
  <2>1. k + 1 \in 1 .. n /\ (k + 1) - 1 = k /\ k \in T
    BY <1>2
  <2> QED
    BY <2>1
<1> HIDE DEF U
<1>3. Nat \subseteq U
  BY <1>1, <1>2, SetInduction
<1> QED
  BY <1>3 DEF U

LEMMA FoldSound ==
    ASSUME NEW St, NEW n \in Nat, NEW g, g[1 .. 0] \in St,
           \A x \in 1 .. n : g[1 .. (x - 1)] \in St => g[1 .. x] \in St
    PROVE  \A x \in 0 .. n : g[1 .. x] \in St
<1> DEFINE T == {k \in 0 .. n : g[1 .. k] \in St}
<1>1. 0 \in T
  OBVIOUS
<1>2. \A x \in 1 .. n : x - 1 \in T => x \in T
  OBVIOUS
<1> HIDE DEF T
<1>3. 0 .. n \subseteq T
  BY <1>1, <1>2, StepInduction
<1> QED
  BY <1>3 DEF T

(***************************************************************************)
(* The chain of the coin's node.                                           *)
(***************************************************************************)
LEMMA NextBlocksType ==
    ASSUME forks' \in 0 .. MaxForks, NEW hash \in Hash
    PROVE  \A h \in NextBlocks(hash) :
              /\ h \in Hash
              /\ \E b \in Block : h = Append(hash, b) /\ b.fork = forks'
<1> DEFINE left == (Watch \ Mined(hash)) \X Forms
<1>1. left \subseteq Tx /\ Cardinality(Watch) \in Nat
  BY MonitorAssumption, FS_CardinalityType DEF Tx
<1> HIDE DEF left
<1>2. \A txs \in SeqOf(left, Cardinality(Watch)) : txs \in Seq(Tx)
  BY <1>1 DEF SeqOf
<1>3. SUFFICES ASSUME NEW txs \in SeqOf(left, Cardinality(Watch))
               PROVE  /\ [fork |-> forks', txs |-> txs] \in Block
                      /\ Append(hash, [fork |-> forks', txs |-> txs]) \in Hash
  BY Zenon DEF NextBlocks, left
<1>4. [fork |-> forks', txs |-> txs] \in Block
  BY <1>2 DEF Block
<1> QED
  BY <1>4 DEF Hash

LEMMA LongerSteps ==
    ASSUME forks' \in 0 .. MaxForks, NEW hash \in Hash, NEW n \in Nat
    PROVE  \E tr \in [0 .. n -> SUBSET Hash] :
              /\ tr[0] = {hash} /\ tr[n] = Longer(hash, n)
              /\ \A x \in 1 .. n : tr[x] = UNION {NextBlocks(h) : h \in tr[x - 1]}
<1> DEFINE St == SUBSET Hash
           list == [i \in 1 .. n |-> i]
           Op(hashes, i) == UNION {NextBlocks(h) : h \in hashes}
           F == [x \in 1 .. n |-> [a \in St |-> Op(a, list[x])]]
           Is(g) == g = [s \in SUBSET DOMAIN list |->
                           IF s = {} THEN {hash}
                           ELSE LET x == Max(s) IN Op(g[s \ {x}], list[x])]
           iter == CHOOSE g : Is(g)
<1>1. Longer(hash, n) = iter[DOMAIN list]
  BY DEF Longer, FoldLeft, MapThenFoldSet
<1>2. DOMAIN list = 1 .. n /\ {hash} \in St
  OBVIOUS
<1>3. ASSUME NEW a \in St, NEW x \in 1 .. n PROVE Op(a, list[x]) \in St
  BY NextBlocksType
<1> HIDE DEF Op, St
<1>4. F \in [1 .. n -> [St -> St]]
  BY <1>3
<1> HIDE DEF list
<1>5. PICK g \in [SUBSET (1 .. n) -> St] : IsFold(g, {hash}, F, n)
  <2> HIDE DEF F
  <2> QED
    BY <1>2, <1>4, FoldExists
<1>6. Is(g)
  <2>1. ASSUME NEW s \in SUBSET (1 .. n), s # {}
        PROVE  Max(s) \in 1 .. n /\ g[s \ {Max(s)}] \in St
    BY <2>1, MaxOf
  <2> QED
    BY <1>2, <1>5, <2>1 DEF IsFold
<1>7. Is(iter)
  BY <1>6, Zenon
<1> HIDE DEF iter
<1>8. ASSUME NEW x \in 1 .. n, iter[1 .. (x - 1)] \in St
      PROVE  iter[1 .. x] \in St /\ iter[1 .. x] = Op(iter[1 .. (x - 1)], list[x])
  <2> DEFINE s == 1 .. x
  <2>1. s \in SUBSET (1 .. n) /\ s # {} /\ Max(s) = x /\ s \ {x} = 1 .. (x - 1)
    BY <1>2, UpTo
  <2> HIDE DEF s
  <2>2. iter[s] = Op(iter[s \ {Max(s)}], list[Max(s)])
    BY <1>2, <1>7, <2>1
  <2>3. iter[1 .. x] = Op(iter[1 .. (x - 1)], list[x])
    BY <2>1, <2>2 DEF s
  <2> QED
    BY <1>3, <1>8, <2>3
<1>9. iter[1 .. 0] = {hash} /\ iter[1 .. 0] \in St
  BY <1>2, <1>7
<1>10. \A x \in 0 .. n : iter[1 .. x] \in St
  BY <1>2, <1>8, <1>9, FoldSound
<1> DEFINE tr == [x \in 0 .. n |-> iter[1 .. x]]
<1>11. tr \in [0 .. n -> St] /\ tr[0] = {hash} /\ tr[n] = iter[DOMAIN list]
  BY <1>2, <1>9, <1>10
<1>12. ASSUME NEW x \in 1 .. n PROVE tr[x] = Op(tr[x - 1], list[x])
  <2>1. x - 1 \in 0 .. n /\ tr[x - 1] = iter[1 .. (x - 1)] /\ tr[x] = iter[1 .. x]
    BY <1>2, UpTo
  <2> HIDE DEF tr, F, Is
  <2> QED
    BY <1>8, <1>10, <2>1
<1> HIDE DEF tr
<1> QED
  BY <1>1, <1>2, <1>11, <1>12 DEF St, Op, list

LEMMA LongerType ==
    ASSUME forks' \in 0 .. MaxForks, NEW hash \in Hash, NEW n \in Nat
    PROVE  Longer(hash, n) \subseteq Hash
BY LongerSteps

-----------------------------------------------------------------------------
(***************************************************************************)
(* Lists of watches, and the records of a walk back.                       *)
(***************************************************************************)
LEMMA RemoveFirstType ==
    ASSUME NEW A, NEW list \in Seq(A), NEW e
    PROVE  RemoveFirst(list, e) \in Seq(A)
<1> DEFINE I == {i \in 1 .. Len(list) : list[i] = e}
<1>1. CASE I = {}
  <2>1. ~ \E i \in 1 .. Len(list) : list[i] = e
    BY <1>1
  <2> QED
    BY <2>1 DEF RemoveFirst
<1>2. CASE I # {}
  <2>1. I \subseteq Nat
    OBVIOUS
  <2>2. \E m \in I : \A k \in I : m <= k
    BY <1>2, <2>1, LeastNat, Zenon
  <2>3. Min(I) \in I
    BY <2>2 DEF Min
  <2>4. SelectInSeq(list, LAMBDA v : v = e) = Min(I)
    BY <1>2 DEF SelectInSeq
  <2>5. RemoveFirst(list, e) = RemoveAt(list, Min(I))
    BY <1>2, <2>4 DEF RemoveFirst
  <2> DEFINE i == Min(I)
  <2> HIDE DEF I
  <2>6. i \in 1 .. Len(list)
    BY <2>3 DEF I
  <2> HIDE DEF i
  <2>7. SubSeq(list, 1, i - 1) \in Seq(A) /\ SubSeq(list, i + 1, Len(list)) \in Seq(A)
    BY <2>6
  <2>8. RemoveAt(list, i) \in Seq(A)
    BY <2>7 DEF RemoveAt
  <2> QED
    BY <2>5, <2>8 DEF i
<1> QED
  BY <1>1, <1>2

LEMMA RemoveSeenType ==
    ASSUME NEW D, NEW lists \in [D -> Seq(Watch)], NEW w, NEW record
    PROVE  RemoveSeen(lists, w, record) \in [D -> Seq(Watch)]
BY RemoveFirstType DEF RemoveSeen

Sound(ws) == \A w \in Watch : ws[w].confirmations > 0 => ws[w].event # "none"

LEMMA PutRecord ==
    ASSUME NEW ws \in [Watch -> WatchRecord], Sound(ws), NEW w \in Watch,
           NEW r \in WatchRecord, r.confirmations > 0 => r.event # "none"
    PROVE  [ws EXCEPT ![w] = r] \in [Watch -> WatchRecord] /\ Sound([ws EXCEPT ![w] = r])
BY DEF Sound

Passing(D) ==
    {st \in [watch : [Watch -> WatchRecord], seen : [D -> Seq(Watch)],
             processed : SUBSET processed, dead : BOOLEAN] : Sound(st.watch)}

LEMMA DecrementType ==
    ASSUME NEW D, NEW st \in Passing(D), NEW hash \in D, NEW i \in Nat \ {0}
    PROVE  Decrement(st, hash, i) \in Passing(D)
<1> DEFINE w == st.seen[hash][i]
           record == st.watch[w]
<1>1. CASE st.dead \/ i > Len(st.seen[hash])
  BY <1>1 DEF Decrement
<1>2. CASE ~ (st.dead \/ i > Len(st.seen[hash]))
  <2>1. /\ st \in [watch : [Watch -> WatchRecord], seen : [D -> Seq(Watch)],
                   processed : SUBSET processed, dead : BOOLEAN]
        /\ Sound(st.watch)
    BY DEF Passing
  <2>2. st.seen[hash] \in Seq(Watch) /\ w \in Watch
    BY <1>2, <2>1
  <2>3. record \in WatchRecord /\ record.confirmations \in Nat
    BY <2>1, <2>2 DEF WatchRecord
  <2> HIDE DEF w
  <2>4. CASE record.status = "gone"
    <3>1. Decrement(st, hash, i) = [st EXCEPT !.dead = TRUE]
      BY <1>2, <2>4 DEF Decrement, w
    <3> QED
      BY <2>1, <3>1 DEF Passing
  <2>5. CASE record.status # "gone" /\ record.confirmations = 0
    BY <1>2, <2>5 DEF Decrement, w
  <2>6. CASE record.status # "gone" /\ record.confirmations > 1
    <3> DEFINE r == [record EXCEPT !.confirmations = @ - 1]
               ws == [st.watch EXCEPT ![w] = r]
    <3>1. Decrement(st, hash, i) = [st EXCEPT !.watch = ws]
      <4>0. record.confirmations # 0
        BY <2>6
      <4>1. Decrement(st, hash, i) = [st EXCEPT !.watch[w] = r]
        BY <1>2, <2>6, <4>0, Zenon DEF Decrement, w
      <4> HIDE DEF r
      <4> QED
        BY <2>1, <4>1
    <3>2. r \in WatchRecord /\ (r.confirmations > 0 => r.event # "none")
      <4>1. record.event # "none"
        <5>1. record.confirmations > 0
          BY <2>3, <2>6
        <5> HIDE DEF r, ws
        <5> QED
          BY <2>1, <2>2, <5>1, Zenon DEF Sound
      <4> HIDE DEF record
      <4> QED
        BY <2>3, <2>6, <4>1 DEF WatchRecord
    <3> HIDE DEF r
    <3>3. ws \in [Watch -> WatchRecord] /\ Sound(ws)
      BY <2>1, <2>2, <3>2, PutRecord
    <3> HIDE DEF ws
    <3> QED
      BY <2>1, <3>1, <3>3 DEF Passing
  <2>7. CASE record.status # "gone" /\ record.confirmations = 1
    <3> DEFINE r == [record EXCEPT !.confirmations = 0, !.event = "none"]
               ws == [st.watch EXCEPT ![w] = r]
               lists == RemoveSeen(st.seen, w, record)
    <3>1. Decrement(st, hash, i) = [st EXCEPT !.watch = ws, !.seen = lists]
      BY <1>2, <2>3, <2>7 DEF Decrement, w
    <3>2. r \in WatchRecord /\ (r.confirmations > 0 => r.event # "none")
      <4> HIDE DEF record
      <4>1. r \in WatchRecord /\ r.confirmations = 0
        BY <2>3 DEF WatchRecord
      <4> HIDE DEF r
      <4> QED
        BY <4>1
    <3> HIDE DEF r
    <3>3. ws \in [Watch -> WatchRecord] /\ Sound(ws)
      BY <2>1, <2>2, <3>2, PutRecord
    <3>4. lists \in [D -> Seq(Watch)]
      BY <2>1, RemoveSeenType
    <3> HIDE DEF ws, lists
    <3> QED
      BY <2>1, <3>1, <3>3, <3>4 DEF Passing
  <2> QED
    BY <2>3, <2>4, <2>5, <2>6, <2>7
<1> QED
  BY <1>1, <1>2

LEMMA DecrementListSteps ==
    ASSUME NEW D, NEW st \in Passing(D), NEW hash \in D, seen[hash] \in Seq(Watch)
    PROVE  \E tr \in [0 .. Len(seen[hash]) -> Passing(D)] :
              /\ tr[0] = st /\ tr[Len(seen[hash])] = DecrementList(st, hash)
              /\ \A x \in 1 .. Len(seen[hash]) :
                    tr[x] = Decrement(tr[x - 1], hash, x)
<1> DEFINE St == Passing(D)
           list == [i \in DOMAIN seen[hash] |-> i]
           n == Len(list)
           Op(s, i) == Decrement(s, hash, i)
           F == [x \in 1 .. n |-> [a \in St |-> Op(a, list[x])]]
           Is(g) == g = [s \in SUBSET DOMAIN list |->
                           IF s = {} THEN st
                           ELSE LET x == Max(s) IN Op(g[s \ {x}], list[x])]
           iter == CHOOSE g : Is(g)
<1>1. DecrementList(st, hash) = iter[DOMAIN list]
  BY DEF DecrementList, FoldLeftDomain, FoldLeft, MapThenFoldSet
<1>2. n \in Nat /\ DOMAIN list = 1 .. n /\ st \in St /\ \A x \in 1 .. n : list[x] \in Nat \ {0}
  <2>1. DOMAIN seen[hash] = 1 .. Len(seen[hash]) /\ Len(seen[hash]) \in Nat
    OBVIOUS
  <2>2. list \in Seq(Nat)
    BY <2>1
  <2> QED
    BY <2>1, <2>2
<1>3. ASSUME NEW a \in St, NEW x \in 1 .. n PROVE Op(a, list[x]) \in St
  <2> HIDE DEF list, n
  <2> QED
    BY <1>2, DecrementType
<1> HIDE DEF Op, St
<1>4. F \in [1 .. n -> [St -> St]]
  BY <1>3
<1> HIDE DEF list, n
<1>5. PICK g \in [SUBSET (1 .. n) -> St] : IsFold(g, st, F, n)
  <2> HIDE DEF F
  <2> QED
    BY <1>2, <1>4, FoldExists
<1>6. Is(g)
  <2>1. ASSUME NEW s \in SUBSET (1 .. n), s # {}
        PROVE  Max(s) \in 1 .. n /\ g[s \ {Max(s)}] \in St
    BY <1>2, <2>1, MaxOf
  <2> QED
    BY <1>2, <1>5, <2>1 DEF IsFold
<1>7. Is(iter)
  BY <1>6, Zenon
<1> HIDE DEF iter
<1>8. ASSUME NEW x \in 1 .. n, iter[1 .. (x - 1)] \in St
      PROVE  iter[1 .. x] \in St /\ iter[1 .. x] = Op(iter[1 .. (x - 1)], list[x])
  <2> DEFINE s == 1 .. x
  <2>1. s \in SUBSET (1 .. n) /\ s # {} /\ Max(s) = x /\ s \ {x} = 1 .. (x - 1)
    BY <1>2, UpTo
  <2> HIDE DEF s
  <2>2. iter[s] = Op(iter[s \ {Max(s)}], list[Max(s)])
    BY <1>2, <1>7, <2>1
  <2>3. iter[1 .. x] = Op(iter[1 .. (x - 1)], list[x])
    BY <2>1, <2>2 DEF s
  <2> QED
    BY <1>3, <1>8, <2>3
<1>9. iter[1 .. 0] = st /\ iter[1 .. 0] \in St
  BY <1>2, <1>7
<1>10. \A x \in 0 .. n : iter[1 .. x] \in St
  BY <1>2, <1>8, <1>9, FoldSound
<1> DEFINE tr == [x \in 0 .. n |-> iter[1 .. x]]
<1>11. tr \in [0 .. n -> St] /\ tr[0] = st /\ tr[n] = iter[DOMAIN list]
  BY <1>2, <1>9, <1>10
<1>12. ASSUME NEW x \in 1 .. n PROVE tr[x] = Op(tr[x - 1], list[x])
  <2>1. x - 1 \in 0 .. n /\ tr[x - 1] = iter[1 .. (x - 1)] /\ tr[x] = iter[1 .. x]
    BY <1>2, UpTo
  <2> HIDE DEF tr, F, Is
  <2> QED
    BY <1>8, <1>10, <2>1
<1> HIDE DEF tr, F, Is
<1>13. n = Len(seen[hash]) /\ \A x \in 1 .. n : list[x] = x
  BY <1>2 DEF list, n
<1>14. \A x \in 1 .. n : tr[x] = Decrement(tr[x - 1], hash, x)
  BY <1>12, <1>13 DEF Op
<1> HIDE DEF Op
<1> QED
  BY <1>1, <1>11, <1>13, <1>14 DEF St

LEMMA DecrementListType ==
    ASSUME NEW D, NEW st \in Passing(D), NEW hash \in D, seen[hash] \in Seq(Watch)
    PROVE  DecrementList(st, hash) \in Passing(D)
BY DecrementListSteps

PassStep(st, s, hash) ==
    IF st.seen[hash] = <<>> THEN s
    ELSE IF s.seen[hash] = <<>> THEN [s EXCEPT !.dead = TRUE]
    ELSE DecrementList(s, hash)

LEMMA OnePassSteps ==
    ASSUME NEW D, NEW st \in Passing(D), NEW hashes \in Seq(D), \A h \in D : seen[h] \in Seq(Watch)
    PROVE  \E tr \in [0 .. Len(hashes) -> Passing(D)] :
              /\ tr[0] = st /\ tr[Len(hashes)] = OnePass(st, hashes)
              /\ \A x \in 1 .. Len(hashes) : tr[x] = PassStep(st, tr[x - 1], hashes[x])
<1> DEFINE St == Passing(D)
           list == hashes
           n == Len(list)
           Op(s, hash) == PassStep(st, s, hash)
           F == [x \in 1 .. n |-> [a \in St |-> Op(a, list[x])]]
           Is(g) == g = [s \in SUBSET DOMAIN list |->
                           IF s = {} THEN st
                           ELSE LET x == Max(s) IN Op(g[s \ {x}], list[x])]
           iter == CHOOSE g : Is(g)
<1>1. OnePass(st, hashes) = iter[DOMAIN list]
  BY DEF OnePass, FoldLeft, MapThenFoldSet, PassStep
<1>2. n \in Nat /\ DOMAIN list = 1 .. n /\ st \in St /\ \A x \in 1 .. n : list[x] \in D
  OBVIOUS
<1>3. ASSUME NEW a \in St, NEW x \in 1 .. n PROVE Op(a, list[x]) \in St
  <2> DEFINE hash == list[x]
  <2>1. hash \in D
    BY <1>2
  <2> HIDE DEF hash
  <2>2. [a EXCEPT !.dead = TRUE] \in Passing(D)
    BY DEF Passing
  <2>3. DecrementList(a, hash) \in Passing(D)
    BY <2>1, DecrementListType
  <2>4. Op(a, hash) \in St
    BY <2>2, <2>3 DEF PassStep
  <2> HIDE DEF Op, St
  <2> QED
    BY <2>4 DEF hash
<1> HIDE DEF Op, St
<1>4. F \in [1 .. n -> [St -> St]]
  BY <1>3
<1> HIDE DEF list, n
<1>5. PICK g \in [SUBSET (1 .. n) -> St] : IsFold(g, st, F, n)
  <2> HIDE DEF F
  <2> QED
    BY <1>2, <1>4, FoldExists
<1>6. Is(g)
  <2>1. ASSUME NEW s \in SUBSET (1 .. n), s # {}
        PROVE  Max(s) \in 1 .. n /\ g[s \ {Max(s)}] \in St
    BY <1>2, <2>1, MaxOf
  <2> QED
    BY <1>2, <1>5, <2>1 DEF IsFold
<1>7. Is(iter)
  BY <1>6, Zenon
<1> HIDE DEF iter
<1>8. ASSUME NEW x \in 1 .. n, iter[1 .. (x - 1)] \in St
      PROVE  iter[1 .. x] \in St /\ iter[1 .. x] = Op(iter[1 .. (x - 1)], list[x])
  <2> DEFINE s == 1 .. x
  <2>1. s \in SUBSET (1 .. n) /\ s # {} /\ Max(s) = x /\ s \ {x} = 1 .. (x - 1)
    BY <1>2, UpTo
  <2> HIDE DEF s
  <2>2. iter[s] = Op(iter[s \ {Max(s)}], list[Max(s)])
    BY <1>2, <1>7, <2>1
  <2>3. iter[1 .. x] = Op(iter[1 .. (x - 1)], list[x])
    BY <2>1, <2>2 DEF s
  <2> QED
    BY <1>3, <1>8, <2>3
<1>9. iter[1 .. 0] = st /\ iter[1 .. 0] \in St
  BY <1>2, <1>7
<1>10. \A x \in 0 .. n : iter[1 .. x] \in St
  BY <1>2, <1>8, <1>9, FoldSound
<1> DEFINE tr == [x \in 0 .. n |-> iter[1 .. x]]
<1>11. tr \in [0 .. n -> St] /\ tr[0] = st /\ tr[n] = iter[DOMAIN list]
  BY <1>2, <1>9, <1>10
<1>12. ASSUME NEW x \in 1 .. n PROVE tr[x] = Op(tr[x - 1], list[x])
  <2>1. x - 1 \in 0 .. n /\ tr[x - 1] = iter[1 .. (x - 1)] /\ tr[x] = iter[1 .. x]
    BY <1>2, UpTo
  <2> HIDE DEF tr, F, Is
  <2> QED
    BY <1>8, <1>10, <2>1
<1> HIDE DEF tr, F, Is
<1>13. \A x \in 1 .. n : tr[x] = PassStep(st, tr[x - 1], hashes[x])
  BY <1>12, Zenon DEF Op, list
<1> HIDE DEF Op
<1> QED
  BY <1>1, <1>11, <1>13 DEF St, list, n

LEMMA OnePassType ==
    ASSUME NEW D, NEW st \in Passing(D), NEW hashes \in Seq(D), \A h \in D : seen[h] \in Seq(Watch)
    PROVE  OnePass(st, hashes) \in Passing(D)
BY OnePassSteps

Untouched == [watch |-> watch, seen |-> seen, processed |-> processed, dead |-> FALSE]

OrphanStep(s, orphan, hashes) ==
    IF s.dead THEN s
    ELSE LET done == OnePass(s, hashes)
         IN IF done.dead THEN done ELSE [done EXCEPT !.processed = @ \ {orphan}]

LEMMA OrphansSteps ==
    ASSUME NEW D, Untouched \in Passing(D),
           NEW hashes \in Seq(D), NEW orphans \in Seq(Hash)
    PROVE  /\ Orphans(orphans, hashes) \in Passing(D)
           /\ \E tr \in [0 .. Len(orphans) -> Passing(D)] :
                 /\ tr[0] = Untouched /\ tr[Len(orphans)] = Orphans(orphans, hashes)
                 /\ \A x \in 1 .. Len(orphans) : tr[x] = OrphanStep(tr[x - 1], orphans[x], hashes)
<1> DEFINE St == Passing(D)
           list == orphans
           n == Len(list)
           Op(s, orphan) == OrphanStep(s, orphan, hashes)
           st == Untouched
           F == [x \in 1 .. n |-> [a \in St |-> Op(a, list[x])]]
           Is(g) == g = [s \in SUBSET DOMAIN list |->
                           IF s = {} THEN st
                           ELSE LET x == Max(s) IN Op(g[s \ {x}], list[x])]
           iter == CHOOSE g : Is(g)
<1>1. Orphans(orphans, hashes) = iter[DOMAIN list]
  BY DEF Orphans, FoldLeft, MapThenFoldSet, OrphanStep, Untouched
<1>2. n \in Nat /\ DOMAIN list = 1 .. n /\ st \in St
  OBVIOUS
<1>3. ASSUME NEW a \in St, NEW x \in 1 .. n PROVE Op(a, list[x]) \in St
  <2> DEFINE done == OnePass(a, hashes)
  <2>1. \A h \in D : seen[h] \in Seq(Watch)
    BY DEF Passing, Untouched
  <2>2. done \in Passing(D)
    BY <2>1, OnePassType
  <2>3. [done EXCEPT !.processed = @ \ {list[x]}] \in Passing(D)
    <3> HIDE DEF done
    <3> QED
      BY <2>2 DEF Passing
  <2> QED
    BY <2>2, <2>3 DEF OrphanStep
<1> HIDE DEF Op, St
<1>4. F \in [1 .. n -> [St -> St]]
  BY <1>3
<1> HIDE DEF list, n, st
<1>5. PICK g \in [SUBSET (1 .. n) -> St] : IsFold(g, st, F, n)
  <2> HIDE DEF F
  <2> QED
    BY <1>2, <1>4, FoldExists
<1>6. Is(g)
  <2>1. ASSUME NEW s \in SUBSET (1 .. n), s # {}
        PROVE  Max(s) \in 1 .. n /\ g[s \ {Max(s)}] \in St
    BY <1>2, <2>1, MaxOf
  <2> QED
    BY <1>2, <1>5, <2>1 DEF IsFold
<1>7. Is(iter)
  BY <1>6, Zenon
<1> HIDE DEF iter
<1>8. ASSUME NEW x \in 1 .. n, iter[1 .. (x - 1)] \in St
      PROVE  iter[1 .. x] \in St /\ iter[1 .. x] = Op(iter[1 .. (x - 1)], list[x])
  <2> DEFINE s == 1 .. x
  <2>1. s \in SUBSET (1 .. n) /\ s # {} /\ Max(s) = x /\ s \ {x} = 1 .. (x - 1)
    BY <1>2, UpTo
  <2> HIDE DEF s
  <2>2. iter[s] = Op(iter[s \ {Max(s)}], list[Max(s)])
    BY <1>2, <1>7, <2>1
  <2>3. iter[1 .. x] = Op(iter[1 .. (x - 1)], list[x])
    BY <2>1, <2>2 DEF s
  <2> QED
    BY <1>3, <1>8, <2>3
<1>9. iter[1 .. 0] = st /\ iter[1 .. 0] \in St
  BY <1>2, <1>7
<1>10. \A x \in 0 .. n : iter[1 .. x] \in St
  BY <1>2, <1>8, <1>9, FoldSound
<1> DEFINE tr == [x \in 0 .. n |-> iter[1 .. x]]
<1>11. tr \in [0 .. n -> St] /\ tr[0] = st /\ tr[n] = iter[DOMAIN list]
  BY <1>2, <1>9, <1>10
<1>12. ASSUME NEW x \in 1 .. n PROVE tr[x] = Op(tr[x - 1], list[x])
  <2>1. x - 1 \in 0 .. n /\ tr[x - 1] = iter[1 .. (x - 1)] /\ tr[x] = iter[1 .. x]
    BY <1>2, UpTo
  <2> HIDE DEF tr, F, Is
  <2> QED
    BY <1>8, <1>10, <2>1
<1> HIDE DEF tr, F, Is
<1>13. \A x \in 1 .. n : tr[x] = OrphanStep(tr[x - 1], orphans[x], hashes)
  BY <1>12, Zenon DEF Op, list
<1> HIDE DEF Op
<1>14. Orphans(orphans, hashes) \in St
  BY <1>1, <1>2, <1>11
<1> QED
  BY <1>1, <1>11, <1>14, <1>13 DEF St, list, n, st

LEMMA OrphansType ==
    ASSUME NEW D, Untouched \in Passing(D),
           NEW hashes \in Seq(D), NEW orphans \in Seq(Hash)
    PROVE  Orphans(orphans, hashes) \in Passing(D)
BY OrphansSteps

-----------------------------------------------------------------------------
(***************************************************************************)
(* A block against the watches.                                            *)
(***************************************************************************)
LEMMA TxsType ==
    ASSUME NEW hash \in Hash
    PROVE  Txs(hash) \in Seq(Tx)
<1>1. CASE hash = <<>>
  BY <1>1 DEF Txs
<1>2. CASE hash # <<>>
  <2>1. Len(hash) \in DOMAIN hash /\ Last(hash) = hash[Len(hash)]
    BY <1>2 DEF Hash, Last
  <2>2. Last(hash) \in Block
    BY <2>1 DEF Hash
  <2> QED
    BY <1>2, <2>2 DEF Txs, Block
<1> QED
  BY <1>1, <1>2

Deeper(tx, hash) == {i \in DOMAIN hash : \E j \in 1 .. i : tx \in ToSet(hash[j].txs)}

LEMMA DepthType ==
    ASSUME NEW tx, NEW hash \in Hash
    PROVE  /\ Depth(tx, hash) \in Nat
           /\ IsFiniteSet(Deeper(tx, hash))
           /\ Depth(tx, hash) = Cardinality(Deeper(tx, hash))
<1>1. DOMAIN hash = 1 .. Len(hash) /\ Len(hash) \in Nat
  BY DEF Hash
<1>2. IsFiniteSet(DOMAIN hash) /\ Deeper(tx, hash) \subseteq DOMAIN hash
  BY <1>1, FS_Interval DEF Deeper
<1>3. IsFiniteSet(Deeper(tx, hash))
  BY <1>2, FS_Subset
<1>4. Cardinality(Deeper(tx, hash)) \in Nat
  BY <1>3, FS_CardinalityType
<1> QED
  BY <1>3, <1>4 DEF Depth, Deeper

Put(r, e, n, txs, b) == [r EXCEPT !.event = e, !.confirmations = n, !.tx = txs, !.block = b]

LEMMA PutType ==
    ASSUME NEW r \in WatchRecord, NEW e \in Events, NEW n \in Nat,
           NEW txs \in SUBSET Tx, NEW b \in SUBSET Hash
    PROVE  /\ Put(r, e, n, txs, b) \in WatchRecord
           /\ Put(r, e, n, txs, b).event = e
           /\ Put(r, e, n, txs, b).confirmations = n
           /\ Put(r, e, n, txs, b).tx = txs
           /\ Put(r, e, n, txs, b).status = r.status
BY DEF WatchRecord, Put

LEMMA CountedType ==
    ASSUME watch \in [Watch -> WatchRecord], Sound(watch), NEW hash \in Hash, NEW w \in Watch
    PROVE  /\ Counted(w, hash) \in WatchRecord
           /\ Counted(w, hash).event # "none" \/ Counted(w, hash).confirmations = 0
           /\ Counted(w, hash).status = watch[w].status
<1> DEFINE r == watch[w]
           txs == Txs(hash)
<1>1. r \in WatchRecord /\ (r.event # "none" \/ r.confirmations = 0) /\ r.confirmations \in Nat
  <2>1. r \in WatchRecord /\ r.confirmations \in Nat
    BY DEF WatchRecord
  <2>2. r.confirmations > 0 => r.event # "none"
    BY Zenon DEF Sound
  <2> HIDE DEF r
  <2> QED
    BY <2>1, <2>2
<1> HIDE DEF r
<1>2. CASE r.event # "none"
  <2>1. Counted(w, hash) = [r EXCEPT !.confirmations = @ + 1]
    BY <1>2 DEF Counted, r
  <2> QED
    BY <1>1, <1>2, <2>1 DEF WatchRecord, r
<1>3. CASE r.event = "none" /\ OwnAt(w, txs) = {}
  <2>1. Counted(w, hash) = r
    BY <1>3 DEF Counted, r
  <2> QED
    BY <1>1, <2>1 DEF r
<1>4. CASE r.event = "none" /\ OwnAt(w, txs) # {}
  <2> DEFINE tx == txs[CHOOSE i \in OwnAt(w, txs) : TRUE]
  <2>1. Counted(w, hash) = Put(r, tx[2], r.confirmations + 1, {tx}, {hash})
    BY <1>4 DEF Counted, r, Put
  <2>2. tx \in Own(w) /\ tx \in Tx
    <3>1. \E k \in DOMAIN txs : k = (CHOOSE i \in OwnAt(w, txs) : TRUE) /\ txs[k] \in Own(w)
      BY <1>4 DEF OwnAt
    <3> QED
      BY <3>1, TxsType
  <2>3. tx[2] \in Events /\ tx[2] # "none"
    BY <2>2 DEF Own, Events
  <2> HIDE DEF tx
  <2>4. {tx} \in SUBSET Tx /\ {hash} \in SUBSET Hash /\ r.confirmations + 1 \in Nat
    BY <1>1, <2>2
  <2> QED
    BY <1>1, <2>1, <2>3, <2>4, PutType DEF r
<1> QED
  BY <1>2, <1>3, <1>4

(***************************************************************************)
(* The block counted for all watches, and what the second look at double   *)
(* spends changes after that: records it puts "fraud" in.                  *)
(***************************************************************************)

WithList(hash) == [h \in DOMAIN seen \cup {hash} |-> IF h \in DOMAIN seen THEN seen[h] ELSE <<>>]

FoundStep(lists, w, hash) ==
    IF Counted(w, hash).event = watch[w].event THEN lists ELSE [lists EXCEPT ![hash] = Append(@, w)]

LEMMA CountAllSteps ==
    ASSUME seen \in [DOMAIN seen -> Seq(Watch)], NEW hash, NEW order \in Seq(Watch)
    PROVE  /\ CountAll(order, hash).seen \in [DOMAIN seen \cup {hash} -> Seq(Watch)]
           /\ \E tr \in [0 .. Len(order) -> [DOMAIN seen \cup {hash} -> Seq(Watch)]] :
                 /\ tr[0] = WithList(hash) /\ tr[Len(order)] = CountAll(order, hash).seen
                 /\ \A x \in 1 .. Len(order) : tr[x] = FoundStep(tr[x - 1], order[x], hash)
<1> DEFINE D == DOMAIN seen \cup {hash}
           St == [D -> Seq(Watch)]
           list == order
           n == Len(list)
           Op(lists, w) == FoundStep(lists, w, hash)
           st == WithList(hash)
           F == [x \in 1 .. n |-> [a \in St |-> Op(a, list[x])]]
           Is(g) == g = [s \in SUBSET DOMAIN list |->
                           IF s = {} THEN st
                           ELSE LET x == Max(s) IN Op(g[s \ {x}], list[x])]
           iter == CHOOSE g : Is(g)
<1>1. CountAll(order, hash).seen = iter[DOMAIN list]
  BY DEF CountAll, FoldLeft, MapThenFoldSet, FoundStep, WithList
<1>2. n \in Nat /\ DOMAIN list = 1 .. n /\ st \in St /\ \A x \in 1 .. n : list[x] \in Watch
  BY DEF WithList
<1>3. ASSUME NEW a \in St, NEW x \in 1 .. n PROVE Op(a, list[x]) \in St
  <2> DEFINE w == list[x]
  <2>1. w \in Watch
    BY <1>2
  <2> HIDE DEF w
  <2>2. [a EXCEPT ![hash] = Append(@, w)] \in [D -> Seq(Watch)]
    BY <2>1
  <2> QED
    BY <2>2 DEF w, FoundStep
<1> HIDE DEF Op, St, D
<1>4. F \in [1 .. n -> [St -> St]]
  BY <1>3
<1> HIDE DEF list, n, st
<1>5. PICK g \in [SUBSET (1 .. n) -> St] : IsFold(g, st, F, n)
  <2> HIDE DEF F
  <2> QED
    BY <1>2, <1>4, FoldExists
<1>6. Is(g)
  <2>1. ASSUME NEW s \in SUBSET (1 .. n), s # {}
        PROVE  Max(s) \in 1 .. n /\ g[s \ {Max(s)}] \in St
    BY <1>2, <2>1, MaxOf
  <2> QED
    BY <1>2, <1>5, <2>1 DEF IsFold
<1>7. Is(iter)
  BY <1>6, Zenon
<1> HIDE DEF iter
<1>8. ASSUME NEW x \in 1 .. n, iter[1 .. (x - 1)] \in St
      PROVE  iter[1 .. x] \in St /\ iter[1 .. x] = Op(iter[1 .. (x - 1)], list[x])
  <2> DEFINE s == 1 .. x
  <2>1. s \in SUBSET (1 .. n) /\ s # {} /\ Max(s) = x /\ s \ {x} = 1 .. (x - 1)
    BY <1>2, UpTo
  <2> HIDE DEF s
  <2>2. iter[s] = Op(iter[s \ {Max(s)}], list[Max(s)])
    BY <1>2, <1>7, <2>1
  <2>3. iter[1 .. x] = Op(iter[1 .. (x - 1)], list[x])
    BY <2>1, <2>2 DEF s
  <2> QED
    BY <1>3, <1>8, <2>3
<1>9. iter[1 .. 0] = st /\ iter[1 .. 0] \in St
  BY <1>2, <1>7
<1>10. \A x \in 0 .. n : iter[1 .. x] \in St
  BY <1>2, <1>8, <1>9, FoldSound
<1> DEFINE tr == [x \in 0 .. n |-> iter[1 .. x]]
<1>11. tr \in [0 .. n -> St] /\ tr[0] = st /\ tr[n] = iter[DOMAIN list]
  BY <1>2, <1>9, <1>10
<1>12. ASSUME NEW x \in 1 .. n PROVE tr[x] = Op(tr[x - 1], list[x])
  <2>1. x - 1 \in 0 .. n /\ tr[x - 1] = iter[1 .. (x - 1)] /\ tr[x] = iter[1 .. x]
    BY <1>2, UpTo
  <2> HIDE DEF tr, F, Is
  <2> QED
    BY <1>8, <1>10, <2>1
<1> HIDE DEF tr
<1>14. CountAll(order, hash).seen \in St
  BY <1>1, <1>2, <1>11
<1> QED
  BY <1>1, <1>2, <1>11, <1>14, <1>12 DEF St, Op, list, n, st, D

LEMMA CountAllSeen ==
    ASSUME seen \in [DOMAIN seen -> Seq(Watch)], NEW hash, NEW order \in Seq(Watch)
    PROVE  CountAll(order, hash).seen \in [DOMAIN seen \cup {hash} -> Seq(Watch)]
BY CountAllSteps

LEMMA CountAllType ==
    ASSUME watch \in [Watch -> WatchRecord], Sound(watch), DOMAIN seen \subseteq Hash,
           seen \in [DOMAIN seen -> Seq(Watch)], NEW hash \in Hash, NEW order \in Seq(Watch)
    PROVE  /\ CountAll(order, hash).watch \in [Watch -> WatchRecord]
           /\ Sound(CountAll(order, hash).watch)
           /\ CountAll(order, hash).seen \in [DOMAIN seen \cup {hash} -> Seq(Watch)]
<1>1. \A w \in Watch : Counted(w, hash) \in WatchRecord /\
         (Counted(w, hash).event # "none" \/ Counted(w, hash).confirmations = 0)
  BY CountedType
<1> DEFINE ws == [w \in Watch |-> IF w \in ToSet(order) THEN Counted(w, hash) ELSE watch[w]]
<1>2. CountAll(order, hash).watch = ws
  BY DEF CountAll
<1>3. ws \in [Watch -> WatchRecord]
  BY <1>1
<1>4. ASSUME NEW w \in Watch, ws[w].confirmations > 0 PROVE ws[w].event # "none"
  <2>1. CASE w \in ToSet(order)
    BY <1>1, <1>4, <2>1
  <2>2. CASE w \notin ToSet(order)
    BY <1>4, <2>2 DEF Sound
  <2> QED
    BY <2>1, <2>2
<1>6. CountAll(order, hash).seen \in [DOMAIN seen \cup {hash} -> Seq(Watch)]
  BY CountAllSeen
<1> HIDE DEF ws
<1>7. Sound(ws)
  BY <1>4 DEF Sound
<1> QED
  BY <1>2, <1>3, <1>6, <1>7

Marking(D, ws) ==
    {st \in [watch : [Watch -> WatchRecord], seen : [D -> Seq(Watch)]] :
        /\ Sound(st.watch)
        /\ \A w \in Watch : /\ st.watch[w].status = ws[w].status
                            /\ st.watch[w] = ws[w] \/ st.watch[w].event = "fraud"}

LEMMA InMarking ==
    ASSUME NEW D, NEW ws, NEW m, NEW x \in [watch : [Watch -> WatchRecord], seen : [D -> Seq(Watch)]],
           x.watch = m, Sound(m),
           \A w \in Watch : m[w].status = ws[w].status /\ (m[w] = ws[w] \/ m[w].event = "fraud")
    PROVE  x \in Marking(D, ws)
BY DEF Marking

LEMMA FlagType ==
    ASSUME NEW D, NEW ws, NEW st \in Marking(D, ws), NEW w \in Watch, NEW tx \in Tx,
           NEW hash \in Hash, NEW last \in Watch
    PROVE  Flag(st, w, tx, hash, last) \in Marking(D, ws)
<1> DEFINE r == Put(st.watch[w], "fraud", st.watch[w].confirmations + 1, {tx}, {hash})
           marked == [st.watch EXCEPT ![w] = r]
           lists == [st.seen EXCEPT ![hash] = Append(@, last)]
<1>1. /\ st \in [watch : [Watch -> WatchRecord], seen : [D -> Seq(Watch)]]
      /\ Sound(st.watch)
      /\ \A v \in Watch : /\ st.watch[v].status = ws[v].status
                          /\ st.watch[v] = ws[v] \/ st.watch[v].event = "fraud"
  BY DEF Marking
<1>2. r \in WatchRecord /\ r.event = "fraud" /\ r.status = st.watch[w].status
  <2>1. st.watch[w] \in WatchRecord
    BY <1>1
  <2>2. st.watch[w].confirmations + 1 \in Nat
    BY <2>1 DEF WatchRecord
  <2>3. "fraud" \in Events /\ {tx} \in SUBSET Tx /\ {hash} \in SUBSET Hash
    BY DEF Events
  <2> QED
    BY <2>1, <2>2, <2>3, PutType
<1>3. Flag(st, w, tx, hash, last) = st
      \/ Flag(st, w, tx, hash, last) = [st EXCEPT !.watch = marked, !.seen = lists]
  <2>1. CASE \E v \in Watching : st.watch[v].tx = {tx}
    BY <2>1 DEF Flag
  <2>2. CASE ~ \E v \in Watching : st.watch[v].tx = {tx}
    <3>1. r = [st.watch[w] EXCEPT !.tx = {tx}, !.event = "fraud",
                                  !.confirmations = @ + 1, !.block = {hash}]
      BY <1>1 DEF Put, WatchRecord
    <3>2. Flag(st, w, tx, hash, last) =
            [st EXCEPT !.watch[w] = r, !.seen[hash] = Append(@, last)]
      BY <2>2, <3>1 DEF Flag
    <3> HIDE DEF r
    <3> QED
      BY <1>1, <3>2
  <2> QED
    BY <2>1, <2>2
<1> HIDE DEF r
<1>4. marked \in [Watch -> WatchRecord] /\ Sound(marked)
  BY <1>1, <1>2, PutRecord
<1>5. \A v \in Watch : /\ marked[v].status = ws[v].status
                       /\ marked[v] = ws[v] \/ marked[v].event = "fraud"
  BY <1>1, <1>2
<1>6. lists \in [D -> Seq(Watch)]
  <2>1. st.seen \in [D -> Seq(Watch)]
    BY <1>1
  <2>2. CASE hash \in D
    BY <2>1, <2>2
  <2>3. CASE hash \notin D
    BY <2>1, <2>3
  <2> QED
    BY <2>2, <2>3
<1> HIDE DEF marked, lists
<1> DEFINE flagged == [st EXCEPT !.watch = marked, !.seen = lists]
<1>7. flagged \in [watch : [Watch -> WatchRecord], seen : [D -> Seq(Watch)]]
      /\ flagged.watch = marked
  BY <1>1, <1>4, <1>6
<1> HIDE DEF flagged
<1>8. flagged \in Marking(D, ws)
  BY <1>4, <1>5, <1>7, InMarking
<1> QED
  BY <1>3, <1>8, Zenon DEF flagged

FlagStep(s, w, tx, hash, last) ==
    IF tx \in DoubleSpends(w, hash) THEN Flag(s, w, tx, hash, last) ELSE s

LEMMA FlagWatchSteps ==
    ASSUME NEW D, NEW ws, NEW st \in Marking(D, ws), NEW w \in Watch, NEW hash \in Hash,
           NEW last \in Watch
    PROVE  \E tr \in [0 .. Len(Txs(hash)) -> Marking(D, ws)] :
              /\ tr[0] = st /\ tr[Len(Txs(hash))] = FlagWatch(st, w, hash, last)
              /\ \A x \in 1 .. Len(Txs(hash)) :
                    tr[x] = FlagStep(tr[x - 1], w, Txs(hash)[x], hash, last)
<1> DEFINE St == Marking(D, ws)
           list == Txs(hash)
           n == Len(list)
           Op(s, tx) == FlagStep(s, w, tx, hash, last)
           F == [x \in 1 .. n |-> [a \in St |-> Op(a, list[x])]]
           Is(g) == g = [s \in SUBSET DOMAIN list |->
                           IF s = {} THEN st
                           ELSE LET x == Max(s) IN Op(g[s \ {x}], list[x])]
           iter == CHOOSE g : Is(g)
<1>1. FlagWatch(st, w, hash, last) = iter[DOMAIN list]
  BY DEF FlagWatch, FoldLeft, MapThenFoldSet, FlagStep
<1>2. n \in Nat /\ DOMAIN list = 1 .. n /\ st \in St /\ \A x \in 1 .. n : list[x] \in Tx
  BY TxsType
<1>3. ASSUME NEW a \in St, NEW x \in 1 .. n PROVE Op(a, list[x]) \in St
  <2> DEFINE tx == list[x]
  <2>1. tx \in Tx
    BY <1>2
  <2> HIDE DEF tx
  <2>2. Flag(a, w, tx, hash, last) \in Marking(D, ws)
    BY <2>1, FlagType
  <2> QED
    BY <2>2 DEF tx, FlagStep
<1> HIDE DEF Op, St
<1>4. F \in [1 .. n -> [St -> St]]
  BY <1>3
<1> HIDE DEF list, n
<1>5. PICK g \in [SUBSET (1 .. n) -> St] : IsFold(g, st, F, n)
  <2> HIDE DEF F
  <2> QED
    BY <1>2, <1>4, FoldExists
<1>6. Is(g)
  <2>1. ASSUME NEW s \in SUBSET (1 .. n), s # {}
        PROVE  Max(s) \in 1 .. n /\ g[s \ {Max(s)}] \in St
    BY <1>2, <2>1, MaxOf
  <2> QED
    BY <1>2, <1>5, <2>1 DEF IsFold
<1>7. Is(iter)
  BY <1>6, Zenon
<1> HIDE DEF iter
<1>8. ASSUME NEW x \in 1 .. n, iter[1 .. (x - 1)] \in St
      PROVE  iter[1 .. x] \in St /\ iter[1 .. x] = Op(iter[1 .. (x - 1)], list[x])
  <2> DEFINE s == 1 .. x
  <2>1. s \in SUBSET (1 .. n) /\ s # {} /\ Max(s) = x /\ s \ {x} = 1 .. (x - 1)
    BY <1>2, UpTo
  <2> HIDE DEF s
  <2>2. iter[s] = Op(iter[s \ {Max(s)}], list[Max(s)])
    BY <1>2, <1>7, <2>1
  <2>3. iter[1 .. x] = Op(iter[1 .. (x - 1)], list[x])
    BY <2>1, <2>2 DEF s
  <2> QED
    BY <1>3, <1>8, <2>3
<1>9. iter[1 .. 0] = st /\ iter[1 .. 0] \in St
  BY <1>2, <1>7
<1>10. \A x \in 0 .. n : iter[1 .. x] \in St
  BY <1>2, <1>8, <1>9, FoldSound
<1> DEFINE tr == [x \in 0 .. n |-> iter[1 .. x]]
<1>11. tr \in [0 .. n -> St] /\ tr[0] = st /\ tr[n] = iter[DOMAIN list]
  BY <1>2, <1>9, <1>10
<1>12. ASSUME NEW x \in 1 .. n PROVE tr[x] = Op(tr[x - 1], list[x])
  <2>1. x - 1 \in 0 .. n /\ tr[x - 1] = iter[1 .. (x - 1)] /\ tr[x] = iter[1 .. x]
    BY <1>2, UpTo
  <2> HIDE DEF tr, F, Is
  <2> QED
    BY <1>8, <1>10, <2>1
<1> HIDE DEF tr
<1> QED
  BY <1>1, <1>2, <1>11, <1>12 DEF St, Op, list, n

LEMMA FlagWatchType ==
    ASSUME NEW D, NEW ws, NEW st \in Marking(D, ws), NEW w \in Watch, NEW hash \in Hash,
           NEW last \in Watch
    PROVE  FlagWatch(st, w, hash, last) \in Marking(D, ws)
<1>1. Txs(hash) \in Seq(Tx)
  BY TxsType
<1>2. Len(Txs(hash)) \in Nat
  BY <1>1
<1> QED
  BY <1>2, FlagWatchSteps

LEMMA FlagAllSteps ==
    ASSUME NEW D, NEW ws, NEW st \in Marking(D, ws), NEW hash \in Hash, NEW order \in Seq(Watch)
    PROVE  \E tr \in [0 .. Len(order) -> Marking(D, ws)] :
              /\ tr[0] = st /\ tr[Len(order)] = FlagAll(st, order, hash)
              /\ \A x \in 1 .. Len(order) :
                    tr[x] = FlagWatch(tr[x - 1], order[x], hash, Last(order))
<1> DEFINE St == Marking(D, ws)
           list == order
           n == Len(list)
           Op(s, w) == FlagWatch(s, w, hash, Last(order))
           F == [x \in 1 .. n |-> [a \in St |-> Op(a, list[x])]]
           Is(g) == g = [s \in SUBSET DOMAIN list |->
                           IF s = {} THEN st
                           ELSE LET x == Max(s) IN Op(g[s \ {x}], list[x])]
           iter == CHOOSE g : Is(g)
<1>1. FlagAll(st, order, hash) = iter[DOMAIN list]
  BY DEF FlagAll, FoldLeft, MapThenFoldSet
<1>2. n \in Nat /\ DOMAIN list = 1 .. n /\ st \in St /\ \A x \in 1 .. n : list[x] \in Watch
  OBVIOUS
<1>3. ASSUME NEW a \in St, NEW x \in 1 .. n PROVE Op(a, list[x]) \in St
  <2>1. list[x] \in Watch /\ Last(order) \in Watch
    BY <1>2 DEF Last
  <2> QED
    BY <2>1, FlagWatchType
<1> HIDE DEF Op, St
<1>4. F \in [1 .. n -> [St -> St]]
  BY <1>3
<1> HIDE DEF list, n
<1>5. PICK g \in [SUBSET (1 .. n) -> St] : IsFold(g, st, F, n)
  <2> HIDE DEF F
  <2> QED
    BY <1>2, <1>4, FoldExists
<1>6. Is(g)
  <2>1. ASSUME NEW s \in SUBSET (1 .. n), s # {}
        PROVE  Max(s) \in 1 .. n /\ g[s \ {Max(s)}] \in St
    BY <1>2, <2>1, MaxOf
  <2> QED
    BY <1>2, <1>5, <2>1 DEF IsFold
<1>7. Is(iter)
  BY <1>6, Zenon
<1> HIDE DEF iter
<1>8. ASSUME NEW x \in 1 .. n, iter[1 .. (x - 1)] \in St
      PROVE  iter[1 .. x] \in St /\ iter[1 .. x] = Op(iter[1 .. (x - 1)], list[x])
  <2> DEFINE s == 1 .. x
  <2>1. s \in SUBSET (1 .. n) /\ s # {} /\ Max(s) = x /\ s \ {x} = 1 .. (x - 1)
    BY <1>2, UpTo
  <2> HIDE DEF s
  <2>2. iter[s] = Op(iter[s \ {Max(s)}], list[Max(s)])
    BY <1>2, <1>7, <2>1
  <2>3. iter[1 .. x] = Op(iter[1 .. (x - 1)], list[x])
    BY <2>1, <2>2 DEF s
  <2> QED
    BY <1>3, <1>8, <2>3
<1>9. iter[1 .. 0] = st /\ iter[1 .. 0] \in St
  BY <1>2, <1>7
<1>10. \A x \in 0 .. n : iter[1 .. x] \in St
  BY <1>2, <1>8, <1>9, FoldSound
<1> DEFINE tr == [x \in 0 .. n |-> iter[1 .. x]]
<1>11. tr \in [0 .. n -> St] /\ tr[0] = st /\ tr[n] = iter[DOMAIN list]
  BY <1>2, <1>9, <1>10
<1>12. ASSUME NEW x \in 1 .. n PROVE tr[x] = Op(tr[x - 1], list[x])
  <2>1. x - 1 \in 0 .. n /\ tr[x - 1] = iter[1 .. (x - 1)] /\ tr[x] = iter[1 .. x]
    BY <1>2, UpTo
  <2> HIDE DEF tr, F, Is
  <2> QED
    BY <1>8, <1>10, <2>1
<1> HIDE DEF tr
<1> QED
  BY <1>1, <1>2, <1>11, <1>12 DEF St, Op, list, n

LEMMA FlagAllType ==
    ASSUME NEW D, NEW ws, NEW st \in Marking(D, ws), NEW hash \in Hash, NEW order \in Seq(Watch)
    PROVE  FlagAll(st, order, hash) \in Marking(D, ws)
BY FlagAllSteps

RemoveStep(lists, st, due, w) == IF w \in due THEN RemoveSeen(lists, w, st.watch[w]) ELSE lists

Removal(D, st, due, order, tr) ==
    /\ tr \in [0 .. Len(order) -> [D -> Seq(Watch)]]
    /\ tr[0] = st.seen /\ tr[Len(order)] = RemoveAll(st, due, order).seen
    /\ \A x \in 1 .. Len(order) : tr[x] = RemoveStep(tr[x - 1], st, due, order[x])

LEMMA RemoveAllSteps ==
    ASSUME NEW D, NEW st, st.seen \in [D -> Seq(Watch)], NEW due, NEW order \in Seq(Watch)
    PROVE  /\ RemoveAll(st, due, order).seen \in [D -> Seq(Watch)]
           /\ \E tr : Removal(D, st, due, order, tr)
<1> DEFINE St == [D -> Seq(Watch)]
           list == order
           n == Len(list)
           Op(lists, w) == RemoveStep(lists, st, due, w)
           F == [x \in 1 .. n |-> [a \in St |-> Op(a, list[x])]]
           Is(g) == g = [s \in SUBSET DOMAIN list |->
                           IF s = {} THEN st.seen
                           ELSE LET x == Max(s) IN Op(g[s \ {x}], list[x])]
           iter == CHOOSE g : Is(g)
<1>1. RemoveAll(st, due, order).seen = iter[DOMAIN list]
  BY DEF RemoveAll, FoldLeft, MapThenFoldSet, RemoveStep
<1>2. n \in Nat /\ DOMAIN list = 1 .. n /\ st.seen \in St
  OBVIOUS
<1>3. ASSUME NEW a \in St, NEW x \in 1 .. n PROVE Op(a, list[x]) \in St
  BY RemoveSeenType DEF RemoveStep
<1> HIDE DEF Op, St
<1>4. F \in [1 .. n -> [St -> St]]
  BY <1>3
<1> HIDE DEF list, n
<1>5. PICK g \in [SUBSET (1 .. n) -> St] : IsFold(g, st.seen, F, n)
  <2> HIDE DEF F
  <2> QED
    BY <1>2, <1>4, FoldExists
<1>6. Is(g)
  <2>1. ASSUME NEW s \in SUBSET (1 .. n), s # {}
        PROVE  Max(s) \in 1 .. n /\ g[s \ {Max(s)}] \in St
    BY <1>2, <2>1, MaxOf
  <2> QED
    BY <1>2, <1>5, <2>1 DEF IsFold
<1>7. Is(iter)
  BY <1>6, Zenon
<1> HIDE DEF iter
<1>8. ASSUME NEW x \in 1 .. n, iter[1 .. (x - 1)] \in St
      PROVE  iter[1 .. x] \in St /\ iter[1 .. x] = Op(iter[1 .. (x - 1)], list[x])
  <2> DEFINE s == 1 .. x
  <2>1. s \in SUBSET (1 .. n) /\ s # {} /\ Max(s) = x /\ s \ {x} = 1 .. (x - 1)
    BY <1>2, UpTo
  <2> HIDE DEF s
  <2>2. iter[s] = Op(iter[s \ {Max(s)}], list[Max(s)])
    BY <1>2, <1>7, <2>1
  <2>3. iter[1 .. x] = Op(iter[1 .. (x - 1)], list[x])
    BY <2>1, <2>2 DEF s
  <2> QED
    BY <1>3, <1>8, <2>3
<1>9. iter[1 .. 0] = st.seen /\ iter[1 .. 0] \in St
  BY <1>2, <1>7
<1>10. \A x \in 0 .. n : iter[1 .. x] \in St
  BY <1>2, <1>8, <1>9, FoldSound
<1> DEFINE tr == [x \in 0 .. n |-> iter[1 .. x]]
<1>11. tr \in [0 .. n -> St] /\ tr[0] = st.seen /\ tr[n] = iter[DOMAIN list]
  BY <1>2, <1>9, <1>10
<1>12. ASSUME NEW x \in 1 .. n PROVE tr[x] = Op(tr[x - 1], list[x])
  <2>1. x - 1 \in 0 .. n /\ tr[x - 1] = iter[1 .. (x - 1)] /\ tr[x] = iter[1 .. x]
    BY <1>2, UpTo
  <2> HIDE DEF tr, F, Is
  <2> QED
    BY <1>8, <1>10, <2>1
<1> HIDE DEF tr
<1>14. RemoveAll(st, due, order).seen \in St
  BY <1>1, <1>2, <1>11
<1>15. Removal(D, st, due, order, tr)
  BY <1>1, <1>2, <1>11, <1>12 DEF St, Op, list, n, Removal
<1> QED
  BY <1>14, <1>15 DEF St

LEMMA RemoveAllSeen ==
    ASSUME NEW D, NEW st, st.seen \in [D -> Seq(Watch)], NEW due, NEW order \in Seq(Watch)
    PROVE  RemoveAll(st, due, order).seen \in [D -> Seq(Watch)]
BY RemoveAllSteps

LEMMA RemoveAllType ==
    ASSUME NEW D, NEW ws, NEW st \in Marking(D, ws), NEW due, NEW order \in Seq(Watch)
    PROVE  /\ RemoveAll(st, due, order).watch \in [Watch -> WatchRecord]
           /\ Sound(RemoveAll(st, due, order).watch)
           /\ RemoveAll(st, due, order).seen \in [D -> Seq(Watch)]
<1> DEFINE left == [w \in Watch |-> IF w \in due THEN [st.watch[w] EXCEPT !.status = "gone"]
                                    ELSE st.watch[w]]
<1>1. st.watch \in [Watch -> WatchRecord] /\ Sound(st.watch) /\ st.seen \in [D -> Seq(Watch)]
  BY DEF Marking
<1>2. RemoveAll(st, due, order).watch = left
  BY DEF RemoveAll
<1>3. RemoveAll(st, due, order).seen \in [D -> Seq(Watch)]
  BY <1>1, RemoveAllSeen
<1>4. \A r \in WatchRecord : /\ [r EXCEPT !.status = "gone"] \in WatchRecord
                             /\ [r EXCEPT !.status = "gone"].event = r.event
                             /\ [r EXCEPT !.status = "gone"].confirmations = r.confirmations
  BY DEF WatchRecord
<1>5. left \in [Watch -> WatchRecord]
  BY <1>1, <1>4
<1>6. \A w \in Watch : left[w].event = st.watch[w].event
                      /\ left[w].confirmations = st.watch[w].confirmations
  BY <1>1, <1>4
<1> HIDE DEF left
<1>7. Sound(left)
  BY <1>1, <1>6 DEF Sound
<1> QED
  BY <1>2, <1>3, <1>5, <1>7

-----------------------------------------------------------------------------
(***************************************************************************)
(* Types.  The monitor keeps at most one latest and one processed block,   *)
(* and only a watch whose transaction was found has confirmations, so that *)
(* a callback that is due has an event.                                    *)
(***************************************************************************)
AtMostOne(S) == \E x : S \subseteq {x}

IInv ==
    /\ TypeOK
    /\ AtMostOne(latest) /\ AtMostOne(processed)
    /\ IsFiniteSet(DOMAIN seen) /\ seen \in [DOMAIN seen -> Seq(Watch)]
    /\ Sound(watch)

LEMMA OneAtMost ==
    ASSUME NEW S, AtMostOne(S)
    PROVE  Cardinality(S) <= 1
<1>1. PICK x : S \subseteq {x}
  BY DEF AtMostOne
<1>2. CASE S = {}
  BY <1>2, FS_EmptySet
<1>3. CASE S = {x}
  <2>1. Cardinality({x}) = 1
    BY FS_Singleton
  <2> QED
    BY <1>3, <2>1
<1> QED
  BY <1>1, <1>2, <1>3

LEMMA PrefixType ==
    ASSUME NEW hash \in Hash, NEW chains \in Hash, IsStrictPrefix(hash, chains)
    PROVE  /\ Len(hash) < Len(chains)
           /\ SubSeq(chains, 1, Len(hash) + 1) \in Hash
<1>1. /\ Len(hash) \in Nat /\ Len(chains) \in Nat /\ Len(hash) <= Len(chains)
      /\ SubSeq(hash, 1, Len(hash)) = SubSeq(chains, 1, Len(hash)) /\ hash # chains
  BY DEF IsStrictPrefix, IsPrefix, Hash
<1>2. SubSeq(hash, 1, Len(hash)) = hash /\ SubSeq(chains, 1, Len(chains)) = chains
  BY DEF Hash
<1>3. Len(hash) < Len(chains)
  <2>1. Len(hash) # Len(chains)
    BY <1>1, <1>2
  <2> QED
    BY <1>1, <2>1
<1> QED
  BY <1>1, <1>3 DEF Hash

LEMMA GetBlockType ==
    ASSUME tip \in Hash, NEW hash \in Hash
    PROVE  /\ GetBlock(hash) \in Fetched
           /\ GetBlock(hash).hash = hash
           /\ \A next \in GetBlock(hash).next : next \in Hash
<1> DEFINE next == IF IsStrictPrefix(hash, tip) THEN {SubSeq(tip, 1, Len(hash) + 1)} ELSE {}
<1>1. next \in SUBSET Hash
  BY PrefixType
<1>2. GetBlock(hash) = [hash |-> hash, next |-> next]
  BY DEF GetBlock
<1> HIDE DEF next
<1> QED
  BY <1>1, <1>2 DEF Fetched

LEMMA OrderType ==
    ASSUME NEW S, IsFiniteSet(S)
    PROVE  \A order \in SetToSeqs(S) : order \in Seq(S)
<1>1. Cardinality(S) \in Nat
  BY FS_CardinalityType
<1> QED
  BY <1>1 DEF SetToSeqs

LEMMA OrdersType ==
    /\ \A order \in SetToSeqs(Watching) : order \in Seq(Watch)
    /\ \A order \in SetToSeqs(Watching) : \A n \in DOMAIN order : SubSeq(order, 1, n) \in Seq(Watch)
<1>1. IsFiniteSet(Watching) /\ Watching \subseteq Watch
  BY MonitorAssumption, FS_Subset DEF Watching
<1>2. ASSUME NEW order \in SetToSeqs(Watching)
      PROVE  order \in Seq(Watch)
  <2>1. order \in Seq(Watching)
    BY <1>1, OrderType
  <2> QED
    BY <1>1, <2>1
<1> QED
  BY <1>2

LEMMA NonEmptyType ==
    ASSUME NEW D, D \subseteq Hash, IsFiniteSet(D), NEW lists \in [D -> Seq(Watch)]
    PROVE  /\ DOMAIN NonEmpty(lists) \subseteq D /\ DOMAIN NonEmpty(lists) \subseteq Hash
           /\ IsFiniteSet(DOMAIN NonEmpty(lists))
           /\ NonEmpty(lists) \in [DOMAIN NonEmpty(lists) -> Seq(Watch)]
           /\ \A hash \in DOMAIN NonEmpty(lists) :
                 NonEmpty(lists)[hash] \in Seq(Watch) /\ NonEmpty(lists)[hash] # <<>>
<1> DEFINE E == {hash \in D : lists[hash] # <<>>}
<1>1. NonEmpty(lists) = [hash \in E |-> lists[hash]]
  BY DEF NonEmpty, Restrict
<1>2. IsFiniteSet(E) /\ E \subseteq Hash
  BY FS_Subset
<1> QED
  BY <1>1, <1>2

LEMMA DueType ==
    ASSUME NEW ws \in [Watch -> WatchRecord], Sound(ws), NEW order \in Seq(Watch)
    PROVE  \A w \in Due(ws, order) : w \in Watch /\ ws[w].event \in Events
<1> SUFFICES ASSUME NEW w \in Due(ws, order) PROVE w \in Watch /\ ws[w].event \in Events
  OBVIOUS
<1>1. w \in Watch /\ ws[w].confirmations >= Confirmations
  BY DEF Due, ToSet
<1>2. ws[w] \in WatchRecord /\ ws[w].confirmations \in Nat
  BY <1>1 DEF WatchRecord
<1>3. ws[w].event # "none"
  <2>1. ws[w].confirmations > 0
    BY <1>1, <1>2, MonitorAssumption
  <2> QED
    BY <1>1, <2>1 DEF Sound
<1> QED
  BY <1>1, <1>2, <1>3 DEF WatchRecord

Reports == [Watch -> Seq([event : Events, depth : Nat])]

LEMMA ReportType ==
    ASSUME NEW ws \in [Watch -> WatchRecord], Sound(ws), NEW order \in Seq(Watch),
           NEW hash \in Hash, reports \in Reports, Report(ws, Due(ws, order), hash)
    PROVE  reports' \in Reports
<1>1. ASSUME NEW w \in Due(ws, order)
      PROVE  Callback(ws[w], hash) \in [event : Events, depth : Nat]
  <2>1. ws[w].event \in Events
    BY DueType
  <2>2. Depth(CHOOSE tx \in ws[w].tx : TRUE, hash) \in Nat
    BY DepthType
  <2> HIDE DEF Events
  <2> QED
    BY <2>1, <2>2 DEF Callback
<1>2. \A w \in Due(ws, order) : Append(reports[w], Callback(ws[w], hash)) \in Seq([event : Events, depth : Nat])
  <2> SUFFICES ASSUME NEW w \in Due(ws, order)
               PROVE  Append(reports[w], Callback(ws[w], hash)) \in Seq([event : Events, depth : Nat])
    OBVIOUS
  <2>1. reports[w] \in Seq([event : Events, depth : Nat])
    BY DueType DEF Reports
  <2>2. Callback(ws[w], hash) \in [event : Events, depth : Nat]
    BY <1>1
  <2> QED
    BY <2>1, <2>2
<1> QED
  BY <1>2 DEF Report, Reports

LEMMA InitTypes == Init => IInv
<1> SUFFICES ASSUME Init PROVE IInv
  OBVIOUS
<1> USE DEF Init
<1>1. <<>> \in Hash /\ <<>> \in Seq([event : Events, depth : Nat])
  BY DEF Hash
<1>2. Start \in Fetched
  BY <1>1 DEF Start, Fetched
<1>3. watch \in [Watch -> WatchRecord] /\ Sound(watch)
  BY DEF WatchRecord, Sound
<1>4. AtMostOne(latest) /\ AtMostOne(processed)
  BY DEF AtMostOne
<1>5. DOMAIN seen = {} /\ IsFiniteSet(DOMAIN seen) /\ seen \in [DOMAIN seen -> Seq(Watch)]
  BY FS_EmptySet
<1>6. 0 \in 0 .. MaxForks
  BY MonitorAssumption
<1>7. TypeOK
  BY <1>1, <1>2, <1>3, <1>4, <1>5, <1>6, OneAtMost DEF TypeOK
<1> QED
  BY <1>3, <1>4, <1>5, <1>7 DEF IInv

LEMMA ChainTypes ==
    ASSUME IInv, Mine \/ Reorganise
    PROVE  IInv'
<1>1. tip \in Hash /\ forks \in 0 .. MaxForks /\ MaxForks \in Nat
  BY MonitorAssumption DEF IInv, TypeOK
<1>2. forks' \in 0 .. MaxForks
  BY <1>1 DEF Mine, Reorganise
<1>3. tip' \in Hash
  <2>1. CASE Mine
    BY <1>1, <1>2, <2>1, NextBlocksType DEF Mine
  <2>2. CASE Reorganise
    <3>1. PICK n \in 1 .. Len(tip) : tip' \in Longer(SubSeq(tip, 1, Len(tip) - n), n + 1)
      BY <2>2 DEF Reorganise
    <3>2. SubSeq(tip, 1, Len(tip) - n) \in Hash /\ n + 1 \in Nat
      BY <1>1 DEF Hash
    <3> QED
      BY <1>2, <3>1, <3>2, LongerType
  <2> QED
    BY <2>1, <2>2
<1>4. UNCHANGED <<failures, monitor, late, raised, reports>>
  BY DEF Mine, Reorganise
<1> QED
  BY <1>2, <1>3, <1>4 DEF IInv, TypeOK, monitor

LEMMA AddWatchTypes ==
    ASSUME IInv, NEW w \in Watch, AddWatch(w)
    PROVE  IInv'
<1> DEFINE depth == Depth(<<w, "confirm">>, tip)
           found == SubSeq(tip, 1, Len(tip) - depth + 1)
<1>1. /\ tip \in Hash /\ watch \in [Watch -> WatchRecord] /\ Sound(watch)
      /\ reports \in Reports /\ late \subseteq Watch
  BY DEF IInv, TypeOK, Reports
<1>2. depth \in Nat
  BY <1>1, DepthType
<1> HIDE DEF depth
<1>3. CASE depth >= Confirmations
  <2> DEFINE r == [watch[w] EXCEPT !.status = "stuck", !.event = "confirm", !.block = {found}]
  <2>1. /\ watch' = [watch EXCEPT ![w] = r]
        /\ reports' = [reports EXCEPT ![w] = Append(@, [event |-> "confirm", depth |-> depth])]
    BY <1>1, <1>3 DEF AddWatch, depth
  <2>2. found \in Hash
    BY <1>1, <1>2, <1>3, MonitorAssumption DEF Hash
  <2> HIDE DEF found
  <2>3. r \in WatchRecord /\ r.event # "none"
    BY <1>1, <2>2 DEF WatchRecord, Events
  <2> HIDE DEF r
  <2>4. watch' \in [Watch -> WatchRecord] /\ Sound(watch')
    BY <1>1, <2>1, <2>3, PutRecord
  <2>5. reports' \in Reports
    BY <1>1, <1>2, <2>1 DEF Reports, Events
  <2> QED
    BY <2>4, <2>5 DEF AddWatch, IInv, TypeOK, Reports, chain
<1>4. CASE ~ (depth >= Confirmations)
  <2> DEFINE r == [watch[w] EXCEPT !.status = "watching"]
  <2>1. watch' = [watch EXCEPT ![w] = r] /\ UNCHANGED reports
    BY <1>1, <1>4 DEF AddWatch, depth
  <2>2. r \in WatchRecord /\ (r.confirmations > 0 => r.event # "none")
    <3>1. watch[w] \in WatchRecord /\ (watch[w].confirmations > 0 => watch[w].event # "none")
      BY <1>1 DEF Sound
    <3> QED
      BY <3>1 DEF WatchRecord
  <2> HIDE DEF r
  <2>3. watch' \in [Watch -> WatchRecord] /\ Sound(watch')
    BY <1>1, <2>1, <2>2, PutRecord
  <2> QED
    BY <2>1, <2>3 DEF AddWatch, IInv, TypeOK, chain
<1> QED
  BY <1>3, <1>4

LEMMA RecoverTypes ==
    ASSUME IInv, Recover
    PROVE  IInv'
<1>1. latest' \in SUBSET Fetched
  BY GetBlockType DEF IInv, TypeOK, Recover
<1>2. AtMostOne(latest')
  BY DEF Recover, AtMostOne
<1> QED
  BY <1>1, <1>2, OneAtMost DEF Recover, IInv, TypeOK, chain

LEMMA StartCheckTypes ==
    ASSUME IInv, StartCheck
    PROVE  IInv'
<1>1. PICK known \in latest :
         LET refetched == IF Len(tip) > Len(known.hash) THEN GetBlock(known.hash) ELSE known
         IN \/ Goto("walk", refetched)
            \/ Goto("process", refetched)
  BY Zenon DEF StartCheck
<1>2. known \in Fetched /\ known.hash \in Hash /\ GetBlock(known.hash) \in Fetched
  <2>1. known \in Fetched /\ tip \in Hash
    BY DEF IInv, TypeOK
  <2>2. known.hash \in Hash
    BY <2>1 DEF Fetched
  <2> QED
    BY <2>1, <2>2, GetBlockType
<1>3. block' \in Fetched /\ phase' \in {"idle", "walk", "process", "forced"}
  BY <1>1, <1>2 DEF Goto
<1>4. /\ checks' \in Nat /\ orphaned' = <<>>
      /\ UNCHANGED <<chain, failures, latest, processed, seen, watch, late, raised, reports>>
  BY Zenon, 1 \in Nat DEF StartCheck
<1>5. orphaned' \in Seq(Hash)
  BY <1>4
<1> QED
  BY <1>3, <1>4, <1>5 DEF IInv, TypeOK, chain

LEMMA WalkBackTypes ==
    ASSUME IInv, WalkBack
    PROVE  IInv'
<1> DEFINE parent == GetBlock(Front(block.hash))
           orphans == Append(orphaned, parent.hash)
<1>1. /\ tip \in Hash /\ block.hash \in Hash /\ block.hash # <<>> /\ orphaned \in Seq(Hash)
      /\ processed \subseteq Hash
  BY DEF IInv, TypeOK, WalkBack, Fetched
<1>2. Front(block.hash) \in Hash
  BY <1>1 DEF Hash, Front
<1>3. parent \in Fetched /\ orphans \in Seq(Hash)
  BY <1>1, <1>2, GetBlockType
<1>4. AtMostOne({parent}) /\ latest' = {parent} /\ orphaned' = orphans
  BY Zenon DEF WalkBack, AtMostOne
<1>5. \/ Goto("walk", parent) /\ UNCHANGED <<processed, seen, watch>>
      \/ \E hashes \in SetToSeqs(DOMAIN seen) : \E st \in {Orphans(orphans, hashes)} :
            /\ watch' = st.watch /\ seen' = NonEmpty(st.seen) /\ processed' = st.processed
            /\ Goto(IF st.dead THEN "idle" ELSE "process", parent)
  BY Zenon DEF WalkBack
<1> HIDE DEF parent, orphans
<1>6. CASE Goto("walk", parent) /\ UNCHANGED <<processed, seen, watch>>
  BY <1>3, <1>4, <1>6, OneAtMost DEF Goto, WalkBack, IInv, TypeOK, chain
<1>7. ASSUME NEW hashes \in SetToSeqs(DOMAIN seen), NEW st \in {Orphans(orphans, hashes)},
             watch' = st.watch, seen' = NonEmpty(st.seen), processed' = st.processed,
             Goto(IF st.dead THEN "idle" ELSE "process", parent)
      PROVE  IInv'
  <2> DEFINE D == DOMAIN seen
  <2>1. /\ watch \in [Watch -> WatchRecord] /\ Sound(watch) /\ D \subseteq Hash
        /\ IsFiniteSet(D) /\ seen \in [D -> Seq(Watch)] /\ AtMostOne(processed)
    BY DEF IInv, TypeOK
  <2>2. hashes \in Seq(D)
    BY <2>1, OrderType
  <2> HIDE DEF D
  <2>3. Untouched \in Passing(D)
    BY <2>1 DEF Passing, Untouched
  <2>4. st \in Passing(D)
    BY <1>3, <1>7, <2>2, <2>3, OrphansType
  <2>5. /\ st.watch \in [Watch -> WatchRecord] /\ Sound(st.watch) /\ st.seen \in [D -> Seq(Watch)]
        /\ st.processed \subseteq processed /\ st.dead \in BOOLEAN
    BY <2>4 DEF Passing
  <2>6. AtMostOne(processed') /\ processed' \subseteq Hash
    BY <1>1, <1>7, <2>1, <2>5 DEF AtMostOne
  <2>7. /\ DOMAIN seen' \subseteq Hash /\ IsFiniteSet(DOMAIN seen')
        /\ seen' \in [DOMAIN seen' -> Seq(Watch)]
        /\ \A hash \in DOMAIN seen' : seen'[hash] \in Seq(Watch) /\ seen'[hash] # <<>>
    BY <1>7, <2>1, <2>5, NonEmptyType
  <2>8. phase' \in {"idle", "walk", "process", "forced"} /\ block' = parent
    BY <1>7 DEF Goto
  <2>9. UNCHANGED <<chain, failures, checks, late, raised, reports>>
    BY DEF WalkBack
  <2>10. watch' \in [Watch -> WatchRecord] /\ Sound(watch')
    BY <1>7, <2>5
  <2>11. TypeOK'
    BY <1>3, <1>4, <2>6, <2>7, <2>8, <2>9, <2>10, OneAtMost DEF IInv, TypeOK, chain
  <2> QED
    BY <1>4, <2>6, <2>7, <2>10, <2>11 DEF IInv
<1> QED
  BY <1>5, <1>6, <1>7

LEMMA AdvanceTypes ==
    ASSUME IInv, Advance
    PROVE  /\ latest' \in SUBSET Fetched /\ AtMostOne(latest')
           /\ phase' \in {"idle", "walk", "process", "forced"} /\ block' \in Fetched
           /\ checks' \in Nat /\ failures' \in Nat
<1>1. /\ tip \in Hash /\ block \in Fetched /\ checks \in Nat /\ failures \in Nat
      /\ latest \in SUBSET Fetched /\ AtMostOne(latest) /\ Start \in Fetched
  BY DEF IInv, TypeOK, Start, Fetched, Hash
<1>2. CASE Reached
  BY <1>1, <1>2 DEF Reached, Goto, AtMostOne
<1>3. CASE Onward
  <2>1. PICK next \in block.next :
          IF checks = MaxChecks THEN Goto("idle", Start) /\ UNCHANGED checks
          ELSE Goto("process", GetBlock(next)) /\ checks' = checks + 1
    BY <1>3 DEF Onward
  <2>2. next \in Hash
    BY <1>1 DEF Fetched
  <2>3. GetBlock(next) \in Fetched
    BY <1>1, <2>2, GetBlockType
  <2> QED
    BY <1>1, <1>3, <2>1, <2>3 DEF Onward, Goto
<1>4. CASE Unfetched
  BY <1>1, <1>4 DEF Unfetched, Goto
<1> QED
  BY <1>2, <1>3, <1>4 DEF Advance

LEMMA SkipBlockTypes ==
    ASSUME IInv, SkipBlock
    PROVE  IInv'
<1>1. tip \in Hash /\ block \in Fetched /\ Start \in Fetched
  BY DEF IInv, TypeOK, Start, Fetched, Hash
<1>2. \A next \in block.next : GetBlock(next) \in Fetched
  BY <1>1, GetBlockType DEF Fetched
<1>3. phase' \in {"idle", "walk", "process", "forced"} /\ block' \in Fetched
  BY <1>1, <1>2 DEF SkipBlock, Goto
<1> QED
  BY <1>3 DEF SkipBlock, IInv, TypeOK, chain

LEMMA FlaggedType ==
    ASSUME IInv, NEW order \in SetToSeqs(Watching), NEW hash \in Hash
    PROVE  LET D == DOMAIN seen \cup {hash}
               counted == CountAll(order, hash)
           IN /\ D \subseteq Hash /\ IsFiniteSet(D) /\ order \in Seq(Watch)
              /\ counted.watch \in [Watch -> WatchRecord] /\ Sound(counted.watch)
              /\ FlagAll(counted, order, hash) \in Marking(D, counted.watch)
<1> DEFINE D == DOMAIN seen \cup {hash}
           counted == CountAll(order, hash)
<1>1. /\ watch \in [Watch -> WatchRecord] /\ Sound(watch) /\ DOMAIN seen \subseteq Hash
      /\ IsFiniteSet(DOMAIN seen) /\ seen \in [DOMAIN seen -> Seq(Watch)]
  BY DEF IInv, TypeOK
<1>2. D \subseteq Hash /\ IsFiniteSet(D) /\ order \in Seq(Watch)
  BY <1>1, FS_AddElement, OrdersType
<1>3. /\ counted.watch \in [Watch -> WatchRecord] /\ Sound(counted.watch)
      /\ counted.seen \in [D -> Seq(Watch)]
  BY <1>1, <1>2, CountAllType
<1>4. counted = [watch |-> counted.watch, seen |-> counted.seen]
  BY DEF CountAll
<1> HIDE DEF counted, D
<1>5. counted \in [watch : [Watch -> WatchRecord], seen : [D -> Seq(Watch)]]
  BY <1>3, <1>4
<1>6. counted \in Marking(D, counted.watch)
  BY <1>3, <1>5, InMarking
<1>7. FlagAll(counted, order, hash) \in Marking(D, counted.watch)
  BY <1>1, <1>2, <1>6, FlagAllType
<1> QED
  BY <1>2, <1>3, <1>7 DEF counted, D

LEMMA ProcessBlockTypes ==
    ASSUME IInv, ProcessBlock
    PROVE  IInv'
<1> DEFINE hash == block.hash
           D == DOMAIN seen \cup {hash}
<1>1. PICK order \in SetToSeqs(Watching) :
         \E counted \in {CountAll(order, hash)} :
         \E due \in {Due(counted.watch, order)} :
         \E left \in {RemoveAll(FlagAll(counted, order, hash), due, order)} :
            /\ watch' = left.watch
            /\ seen' = NonEmpty(left.seen)
            /\ Report(counted.watch, due, hash)
  BY Zenon DEF ProcessBlock
<1> DEFINE counted == CountAll(order, hash)
           due == Due(counted.watch, order)
           left == RemoveAll(FlagAll(counted, order, hash), due, order)
<1>2. /\ watch' = left.watch /\ seen' = NonEmpty(left.seen)
      /\ Report(counted.watch, due, hash)
  BY <1>1, Zenon
<1>3. hash \in Hash /\ reports \in Reports
  BY DEF IInv, TypeOK, Fetched, Reports
<1> HIDE DEF hash
<1>4. /\ D \subseteq Hash /\ IsFiniteSet(D) /\ order \in Seq(Watch)
      /\ counted.watch \in [Watch -> WatchRecord] /\ Sound(counted.watch)
      /\ FlagAll(counted, order, hash) \in Marking(D, counted.watch)
  BY <1>3, FlaggedType
<1> HIDE DEF counted, D
<1>5. left.watch \in [Watch -> WatchRecord] /\ Sound(left.watch) /\ left.seen \in [D -> Seq(Watch)]
  BY <1>4, RemoveAllType
<1>6. reports' \in Reports
  BY <1>2, <1>3, <1>4, ReportType
<1> HIDE DEF left, due
<1>7. /\ DOMAIN seen' \subseteq Hash /\ IsFiniteSet(DOMAIN seen')
      /\ seen' \in [DOMAIN seen' -> Seq(Watch)]
      /\ \A h \in DOMAIN seen' : seen'[h] \in Seq(Watch) /\ seen'[h] # <<>>
  BY <1>2, <1>4, <1>5, NonEmptyType
<1>8. processed' \in SUBSET Hash /\ AtMostOne(processed')
  BY <1>3 DEF ProcessBlock, AtMostOne, hash
<1>9. /\ latest' \in SUBSET Fetched /\ AtMostOne(latest')
      /\ phase' \in {"idle", "walk", "process", "forced"} /\ block' \in Fetched
      /\ checks' \in Nat /\ failures' \in Nat
  BY AdvanceTypes DEF ProcessBlock
<1>10. UNCHANGED <<chain, orphaned, late, raised>>
  BY DEF ProcessBlock
<1>11. watch' \in [Watch -> WatchRecord] /\ Sound(watch')
  BY <1>2, <1>5
<1>12. TypeOK'
  BY <1>6, <1>7, <1>8, <1>9, <1>10, <1>11, OneAtMost DEF IInv, TypeOK, chain, Reports
<1> QED
  BY <1>7, <1>8, <1>9, <1>11, <1>12 DEF IInv

LEMMA CallbackRaisesTypes ==
    ASSUME IInv, CallbackRaises
    PROVE  IInv'
<1> DEFINE hash == block.hash
           D == DOMAIN seen \cup {hash}
<1>0. PICK order \in SetToSeqs(Watching) : \E n \in DOMAIN order :
         \E counted \in {CountAll(SubSeq(order, 1, n), hash)} :
         \E due \in {Due(counted.watch, SubSeq(order, 1, n))} :
            /\ order[n] \in due
            /\ IF watch[order[n]].status = "stuck" THEN UNCHANGED failures
               ELSE failures < MaxFailures /\ failures' = failures + 1
            /\ watch' = counted.watch
            /\ seen' = NonEmpty(counted.seen)
            /\ Report(counted.watch, due, hash)
            /\ raised' = raised \cup {order[n]}
  BY ZenonT(40) DEF CallbackRaises
<1>1. PICK n \in DOMAIN order :
         \E counted \in {CountAll(SubSeq(order, 1, n), hash)} :
         \E due \in {Due(counted.watch, SubSeq(order, 1, n))} :
            /\ order[n] \in due
            /\ IF watch[order[n]].status = "stuck" THEN UNCHANGED failures
               ELSE failures < MaxFailures /\ failures' = failures + 1
            /\ watch' = counted.watch
            /\ seen' = NonEmpty(counted.seen)
            /\ Report(counted.watch, due, hash)
            /\ raised' = raised \cup {order[n]}
  BY <1>0, Zenon
<1> DEFINE some == SubSeq(order, 1, n)
           counted == CountAll(some, hash)
           due == Due(counted.watch, some)
<1>2. /\ watch' = counted.watch /\ seen' = NonEmpty(counted.seen)
      /\ Report(counted.watch, due, hash)
  BY <1>1, Zenon
<1>3. /\ watch \in [Watch -> WatchRecord] /\ Sound(watch) /\ DOMAIN seen \subseteq Hash
      /\ IsFiniteSet(DOMAIN seen) /\ seen \in [DOMAIN seen -> Seq(Watch)]
      /\ hash \in Hash /\ reports \in Reports
  BY DEF IInv, TypeOK, Fetched, Reports
<1>4. D \subseteq Hash /\ IsFiniteSet(D) /\ some \in Seq(Watch) /\ order[n] \in Watch
  <2>1. D \subseteq Hash /\ IsFiniteSet(D)
    BY <1>3, FS_AddElement
  <2>2. order \in Seq(Watch) /\ some \in Seq(Watch)
    BY OrdersType
  <2>3. order[n] \in Watch
    BY <2>2
  <2> QED
    BY <2>1, <2>2, <2>3
<1> HIDE DEF hash, some
<1>5. /\ counted.watch \in [Watch -> WatchRecord] /\ Sound(counted.watch)
      /\ counted.seen \in [D -> Seq(Watch)]
  BY <1>3, <1>4, CountAllType
<1> HIDE DEF counted, D
<1>6. reports' \in Reports
  BY <1>2, <1>3, <1>4, <1>5, ReportType
<1>7. /\ DOMAIN seen' \subseteq Hash /\ IsFiniteSet(DOMAIN seen')
      /\ seen' \in [DOMAIN seen' -> Seq(Watch)]
      /\ \A h \in DOMAIN seen' : seen'[h] \in Seq(Watch) /\ seen'[h] # <<>>
  BY <1>2, <1>4, <1>5, NonEmptyType
<1>8. watch' \in [Watch -> WatchRecord] /\ Sound(watch')
  BY <1>2, <1>5
<1>9. raised' \subseteq Watch /\ failures' \in Nat
  <2>1. raised \subseteq Watch /\ failures \in Nat
    BY DEF IInv, TypeOK
  <2>2. failures' = failures \/ failures' = failures + 1
    BY <1>1, Zenon
  <2>3. raised' = raised \cup {order[n]}
    BY <1>1, Zenon
  <2> QED
    BY <1>4, <2>1, <2>2, <2>3
<1>10. /\ UNCHANGED <<chain, latest, processed, checks, orphaned, late>>
       /\ Goto("idle", Start)
  BY Zenon DEF CallbackRaises
<1>11. phase' = "idle" /\ block' \in Fetched
  BY <1>10 DEF Goto, Start, Fetched, Hash
<1>12. TypeOK'
  BY <1>6, <1>7, <1>8, <1>9, <1>10, <1>11, OneAtMost DEF IInv, TypeOK, chain, Reports
<1> QED
  BY <1>7, <1>8, <1>10, <1>12 DEF IInv

LEMMA CallRaisesTypes ==
    ASSUME IInv, CallRaises
    PROVE  IInv'
<1>1. AtMostOne(latest') /\ latest' \in SUBSET Fetched
  BY DEF CallRaises, IInv, TypeOK, AtMostOne
<1>2. phase' = "idle" /\ block' \in Fetched
  BY DEF CallRaises, Goto, Start, Fetched, Hash
<1>3. failures' \in Nat
  BY DEF CallRaises, IInv, TypeOK
<1> QED
  BY <1>1, <1>2, <1>3, OneAtMost DEF CallRaises, IInv, TypeOK, chain

LEMMA StepTypes == IInv /\ [Next]_vars => IInv'
<1> SUFFICES ASSUME IInv, [Next]_vars PROVE IInv'
  OBVIOUS
<1>1. CASE Mine \/ Reorganise
  BY <1>1, ChainTypes
<1>2. ASSUME NEW w \in Watch, AddWatch(w) PROVE IInv'
  BY <1>2, AddWatchTypes
<1>3. CASE Recover \/ StartCheck
  BY <1>3, RecoverTypes, StartCheckTypes
<1>4. CASE WalkBack
  BY <1>4, WalkBackTypes
<1>5. CASE SkipBlock \/ ProcessBlock
  BY <1>5, SkipBlockTypes, ProcessBlockTypes
<1>6. CASE CallbackRaises \/ CallRaises
  BY <1>6, CallbackRaisesTypes, CallRaisesTypes
<1>7. CASE UNCHANGED vars
  BY <1>7 DEF vars, chain, monitor, IInv, TypeOK
<1> QED
  BY <1>1, <1>2, <1>3, <1>4, <1>5, <1>6, <1>7 DEF Next, Check

(***************************************************************************)
(* The state of the monitor has its type: one latest and one processed     *)
(* block at most, no empty list of watches for a block, and every callback *)
(* with an event, whatever the chain does and whichever call raises        *)
(* (tx_monitor.py:161-507).                                                *)
(***************************************************************************)
THEOREM TypeCorrectness == Spec => []TypeOK
<1>1. Spec => []IInv
  BY InitTypes, StepTypes, PTL DEF Spec
<1>2. IInv => TypeOK
  BY DEF IInv
<1> QED
  BY <1>1, <1>2, PTL

-----------------------------------------------------------------------------
(***************************************************************************)
(* Chains and prefixes of chains.                                          *)
(***************************************************************************)
LEMMA PrefixPoints ==
    ASSUME NEW s \in Hash, NEW t \in Hash
    PROVE  IsPrefix(s, t) <=> Len(s) <= Len(t) /\ \A i \in 1 .. Len(s) : s[i] = t[i]
<1>1. Len(s) \in Nat /\ Len(t) \in Nat /\ DOMAIN s = 1 .. Len(s) /\ DOMAIN t = 1 .. Len(t)
  BY DEF Hash
<1>2. CASE Len(s) <= Len(t)
  <2>1. \A i \in 1 .. Len(s) : SubSeq(s, 1, Len(s))[i] = s[i] /\ SubSeq(t, 1, Len(s))[i] = t[i]
    BY <1>1, <1>2 DEF Hash
  <2>2. /\ SubSeq(s, 1, Len(s)) \in Seq(Block) /\ Len(SubSeq(s, 1, Len(s))) = Len(s)
        /\ SubSeq(t, 1, Len(s)) \in Seq(Block) /\ Len(SubSeq(t, 1, Len(s))) = Len(s)
    BY <1>1, <1>2 DEF Hash
  <2>3. SubSeq(s, 1, Len(s)) = SubSeq(t, 1, Len(s))
        <=> \A i \in 1 .. Len(s) : SubSeq(s, 1, Len(s))[i] = SubSeq(t, 1, Len(s))[i]
    BY <2>2, SeqEqual
  <2> QED
    BY <1>2, <2>1, <2>3 DEF IsPrefix
<1> QED
  BY <1>2 DEF IsPrefix

LEMMA PrefixGrows ==
    ASSUME NEW s \in Hash, NEW t \in Hash, NEW b \in Block, IsPrefix(s, t)
    PROVE  IsPrefix(s, Append(t, b))
<1> DEFINE u == Append(t, b)
<1>1. u \in Hash /\ Len(u) = Len(t) + 1 /\ \A i \in 1 .. Len(t) : u[i] = t[i]
  BY DEF Hash
<1>2. Len(s) \in Nat /\ Len(t) \in Nat
  BY DEF Hash
<1>3. Len(s) <= Len(t) /\ \A i \in 1 .. Len(s) : s[i] = t[i]
  BY PrefixPoints
<1> HIDE DEF u
<1>4. IsPrefix(s, u) <=> Len(s) <= Len(u) /\ \A i \in 1 .. Len(s) : s[i] = u[i]
  BY <1>1, PrefixPoints
<1>5. IsPrefix(s, u)
  BY <1>1, <1>2, <1>3, <1>4
<1> QED
  BY <1>5 DEF u

LEMMA PrefixNext ==
    ASSUME NEW s \in Hash, NEW t \in Hash, IsPrefix(s, t)
    PROVE  /\ Len(s) < Len(t) => IsStrictPrefix(s, t)
           /\ IsStrictPrefix(s, t) =>
                 LET n == SubSeq(t, 1, Len(s) + 1)
                 IN n \in Hash /\ IsPrefix(n, t) /\ Len(n) = Len(s) + 1
<1>1. Len(s) < Len(t) => IsStrictPrefix(s, t)
  BY DEF IsStrictPrefix, Hash
<1>2. ASSUME IsStrictPrefix(s, t)
      PROVE  LET n == SubSeq(t, 1, Len(s) + 1)
             IN n \in Hash /\ IsPrefix(n, t) /\ Len(n) = Len(s) + 1
  <2> DEFINE n == SubSeq(t, 1, Len(s) + 1)
  <2>1. Len(s) < Len(t) /\ n \in Hash
    BY <1>2, PrefixType
  <2>2. Len(s) \in Nat /\ Len(t) \in Nat
    BY DEF Hash
  <2>3. Len(n) = Len(s) + 1 /\ \A i \in 1 .. Len(s) + 1 : n[i] = t[i]
    BY <2>1, <2>2 DEF Hash
  <2> HIDE DEF n
  <2>4. IsPrefix(n, t)
    BY <2>1, <2>2, <2>3, PrefixPoints
  <2> QED
    BY <2>1, <2>3, <2>4 DEF n
<1> QED
  BY <1>1, <1>2

LEMMA DepthGrows ==
    ASSUME NEW t \in Hash, NEW h \in Hash, NEW hash \in Hash, IsPrefix(h, t), IsPrefix(hash, t),
           Len(hash) = Len(h) + 1, NEW tx
    PROVE  /\ Depth(tx, h) > 0 => Depth(tx, hash) >= Depth(tx, h) + 1
           /\ tx \in ToSet(Txs(hash)) => Depth(tx, hash) >= 1
<1> DEFINE n == Len(hash)
           A == Deeper(tx, h)
           B == Deeper(tx, hash)
<1>1. /\ Len(h) \in Nat /\ n = Len(h) + 1 /\ DOMAIN h = 1 .. Len(h) /\ DOMAIN hash = 1 .. n
      /\ \A i \in 1 .. Len(h) : h[i] = hash[i]
  <2>1. Len(h) \in Nat /\ DOMAIN h = 1 .. Len(h) /\ DOMAIN hash = 1 .. n
    BY DEF Hash
  <2>2. (\A i \in 1 .. Len(h) : h[i] = t[i]) /\ (\A i \in 1 .. n : hash[i] = t[i])
    BY PrefixPoints
  <2> QED
    BY <2>1, <2>2
<1>2. /\ IsFiniteSet(A) /\ IsFiniteSet(B) /\ Depth(tx, h) = Cardinality(A)
      /\ Depth(tx, hash) = Cardinality(B) /\ Cardinality(A) \in Nat /\ Cardinality(B) \in Nat
  BY DepthType
<1>3. A \subseteq B /\ n \notin A
  BY <1>1 DEF Deeper
<1>4. ASSUME Depth(tx, h) > 0 PROVE Depth(tx, hash) >= Depth(tx, h) + 1
  <2>1. PICK i \in A : TRUE
    <3>1. A # {}
      BY <1>2, <1>4, FS_EmptySet
    <3> QED
      BY <3>1
  <2>2. n \in B
    <3>1. i \in DOMAIN h /\ \E j \in 1 .. i : tx \in ToSet(h[j].txs)
      BY <2>1 DEF Deeper
    <3>2. \E j \in 1 .. n : tx \in ToSet(hash[j].txs)
      BY <1>1, <3>1
    <3> QED
      BY <1>1, <3>2 DEF Deeper
  <2> HIDE DEF A, B, n
  <2>3. IsFiniteSet(A \cup {n}) /\ Cardinality(A \cup {n}) = Cardinality(A) + 1
    BY <1>2, <1>3, FS_AddElement
  <2>4. A \cup {n} \subseteq B
    BY <1>3, <2>2
  <2>5. Cardinality(A \cup {n}) <= Cardinality(B)
    BY <1>2, <2>4, FS_Subset
  <2> QED
    BY <1>2, <2>3, <2>5
<1>5. ASSUME tx \in ToSet(Txs(hash)) PROVE Depth(tx, hash) >= 1
  <2>1. Txs(hash) = hash[n].txs
    BY <1>1 DEF Txs, Last
  <2>2. n \in B
    BY <1>1, <1>5, <2>1 DEF Deeper
  <2>3. Cardinality(B) # 0
    BY <1>2, <2>2, FS_EmptySet
  <2> QED
    BY <1>2, <2>3
<1> QED
  BY <1>4, <1>5

LEMMA NotMined ==
    ASSUME NEW hash \in Hash, NEW w \in Watch, w \notin Mined(hash), NEW tx \in Own(w)
    PROVE  Depth(tx, hash) = 0
<1>1. DOMAIN hash = 1 .. Len(hash) /\ Len(hash) \in Nat
  BY DEF Hash
<1>2. tx[1] = w
  BY DEF Own
<1>3. \A j \in DOMAIN hash : tx \notin ToSet(hash[j].txs)
  BY <1>2 DEF Mined
<1>4. Deeper(tx, hash) = {}
  BY <1>1, <1>3 DEF Deeper
<1> QED
  BY <1>4, DepthType, FS_EmptySet

(***************************************************************************)
(* The order that a dictionary is looped over has each of its keys.        *)
(***************************************************************************)
LEMMA OrderIsAll ==
    ASSUME NEW S, IsFiniteSet(S), NEW order \in SetToSeqs(S)
    PROVE  ToSet(order) = S
<1> DEFINE n == Cardinality(S)
<1>1. n \in Nat /\ order \in [1 .. n -> S] /\ \A i, j \in 1 .. n : i # j => order[i] # order[j]
  BY FS_CardinalityType DEF SetToSeqs
<1> HIDE DEF n
<1>2. IsFiniteSet(1 .. n) /\ Cardinality(1 .. n) = n
  BY <1>1, FS_Interval
<1>3. order \in Injection(1 .. n, S)
  BY <1>1 DEF Injection, IsInjective
<1>4. order \in Surjection(1 .. n, S)
  BY <1>2, <1>3, FS_Injection, FS_SameCardinalityBij DEF n, Bijection
<1> QED
  BY <1>1, <1>4 DEF ToSet, Surjection

-----------------------------------------------------------------------------
(***************************************************************************)
(* The monitor while the chain only grows and nothing raises (Calm).  It   *)
(* has processed a prefix h of the chain.  A found watch, unless it takes a*)
(* double spend for its transaction, has no more confirmations than its    *)
(* transaction is deep under h; a watch that is not gone had no callback;  *)
(* and the block that is next has one more block than h, so that no block  *)
(* is counted twice.                                                       *)
(***************************************************************************)
AtTip(hash) == IsPrefix(hash, tip)

Settled(h) == processed = {h} \/ (processed = {} /\ h = <<>>)

Tallied(w, r, h) ==
    /\ r.status # "stuck"
    /\ r.status # "gone" /\ r.event \in {"confirm", "mutate"} =>
          \E tx \in Own(w) : r.tx = {tx} /\ Depth(tx, h) > 0 /\ r.confirmations <= Depth(tx, h)

Timely(calls) ==
    /\ Len(calls) <= 1
    /\ \A i \in DOMAIN calls : calls[i].event # "fraud" => calls[i].depth >= Confirmations

Underway ==
    /\ AtTip(block.hash)
    /\ checks <= Len(block.hash) + 1
    /\ \A next \in block.next : AtTip(next) /\ Len(next) = Len(block.hash) + 1

CountedOnce(h) ==
    /\ \A w \in Watch : Tallied(w, watch[w], h)
    /\ processed = {} => \A w \in Watch : watch[w].event = "none"
    /\ \A w \in Watch : Timely(reports[w]) /\ (watch[w].status # "gone" => reports[w] = <<>>)

Place(h, known) ==
    /\ Len(tip) <= MaxHeight
    /\ Settled(h) /\ AtTip(h)
    /\ \A s \in DOMAIN seen : processed # {} /\ Len(s) <= Len(h)
    /\ latest = {known} /\ AtTip(known.hash) /\ known.next = {}
    /\ \/ phase = "idle" /\ h = known.hash
       \/ phase = "process" /\ Underway /\ block.hash = known.hash /\ h = known.hash
       \/ phase \in {"process", "forced"} /\ Underway /\ processed # {} /\ Len(block.hash) = Len(h) + 1

InOrder == \E h \in Hash : \E known \in Fetched : Place(h, known) /\ CountedOnce(h)

LEMMA InitInOrder == Init => InOrder
<1> SUFFICES ASSUME Init PROVE Place(<<>>, Start) /\ CountedOnce(<<>>)
  <2>1. <<>> \in Hash /\ Start \in Fetched
    BY DEF Hash, Start, Fetched
  <2> QED
    BY <2>1 DEF InOrder
<1>1. IsPrefix(<<>>, <<>>)
  BY DEF IsPrefix
<1>2. Place(<<>>, Start)
  BY <1>1, MonitorAssumption DEF Init, Place, Settled, AtTip, Start
<1>3. CountedOnce(<<>>)
  BY DEF Init, CountedOnce, Tallied, Timely
<1> QED
  BY <1>2, <1>3

LEMMA MineInOrder ==
    ASSUME IInv, NEW h \in Hash, NEW known \in Fetched, Place(h, known), CountedOnce(h), Mine
    PROVE  Place(h, known)' /\ CountedOnce(h)'
<1>1. /\ tip \in Hash /\ forks' \in 0 .. MaxForks /\ Len(tip) < MaxHeight /\ Len(tip) \in Nat
      /\ tip' \in NextBlocks(tip) /\ known.hash \in Hash /\ MaxHeight \in Nat
      /\ block.hash \in Hash /\ block.next \subseteq Hash
  BY MonitorAssumption DEF IInv, TypeOK, Mine, Hash, Fetched
<1>2. PICK b \in Block : tip' = Append(tip, b) /\ b.fork = forks'
  BY <1>1, NextBlocksType
<1>3. \A s \in Hash : IsPrefix(s, tip) => IsPrefix(s, tip')
  BY <1>1, <1>2, PrefixGrows
<1>4. Len(tip') <= MaxHeight
  BY <1>1, <1>2 DEF Hash
<1>5. UNCHANGED <<failures, monitor, late, raised, reports>>
  BY DEF Mine
<1>6. CountedOnce(h)'
  BY <1>5 DEF CountedOnce, monitor
<1>7. Underway => Underway'
  BY <1>1, <1>3, <1>5 DEF Underway, AtTip, monitor
<1>8. Place(h, known)'
  BY <1>1, <1>3, <1>4, <1>5, <1>7 DEF Place, Settled, AtTip, monitor
<1> QED
  BY <1>6, <1>8

LEMMA AddWatchInOrder ==
    ASSUME IInv, NEW h \in Hash, NEW known \in Fetched, Place(h, known), CountedOnce(h),
           NEW w \in Watch, AddWatch(w), late' = {}
    PROVE  Place(h, known)' /\ CountedOnce(h)'
<1>1. tip \in Hash /\ watch \in [Watch -> WatchRecord]
  BY DEF IInv, TypeOK
<1>2. w \notin Mined(tip)
  BY DEF AddWatch
<1>3. Depth(<<w, "confirm">>, tip) = 0
  BY <1>1, <1>2, NotMined DEF Own
<1>4. watch' = [watch EXCEPT ![w].status = "watching"] /\ UNCHANGED reports /\ watch[w].status = "new"
  BY <1>3, MonitorAssumption DEF AddWatch
<1>5. UNCHANGED <<chain, latest, processed, seen, phase, block, checks>>
  BY DEF AddWatch
<1>6. \A v \in Watch : /\ watch'[v].event = watch[v].event
                       /\ watch'[v].tx = watch[v].tx
                       /\ watch'[v].confirmations = watch[v].confirmations
                       /\ watch'[v].status = IF v = w THEN "watching" ELSE watch[v].status
  BY <1>1, <1>4 DEF WatchRecord
<1>7. CountedOnce(h)'
  BY <1>4, <1>5, <1>6 DEF CountedOnce, Tallied
<1>8. Place(h, known)'
  BY <1>5 DEF Place, Settled, AtTip, Underway, chain
<1> QED
  BY <1>7, <1>8

LEMMA StartCheckInOrder ==
    ASSUME IInv, NEW h \in Hash, NEW known \in Fetched, Place(h, known), CountedOnce(h), StartCheck
    PROVE  Place(h, known)' /\ CountedOnce(h)'
<1> DEFINE refetched == IF Len(tip) > Len(known.hash) THEN GetBlock(known.hash) ELSE known
<1>1. /\ tip \in Hash /\ known.hash \in Hash /\ Len(tip) \in Nat /\ Len(known.hash) \in Nat
      /\ AtTip(known.hash) /\ known.next = {} /\ phase = "idle" /\ h = known.hash
  BY DEF IInv, TypeOK, Hash, Fetched, Place, StartCheck
<1>2. UNCHANGED <<chain, failures, latest, processed, seen, watch, late, raised, reports>> /\ checks' = 1
  BY DEF StartCheck
<1>3. IF Len(tip) > Len(known.hash) /\ refetched.next = {}
      THEN Goto("walk", refetched) ELSE Goto("process", refetched)
  BY DEF StartCheck, Place
<1>4. /\ refetched.hash = known.hash
      /\ Len(tip) > Len(known.hash) => refetched.next # {}
      /\ \A next \in refetched.next : AtTip(next) /\ Len(next) = Len(known.hash) + 1
  <2>1. CASE Len(tip) > Len(known.hash)
    <3>1. IsStrictPrefix(known.hash, tip)
      BY <1>1, <2>1, PrefixNext DEF AtTip
    <3> DEFINE first == SubSeq(tip, 1, Len(known.hash) + 1)
    <3>2. refetched = [hash |-> known.hash, next |-> {first}]
      BY <2>1, <3>1 DEF GetBlock
    <3>3. AtTip(first) /\ Len(first) = Len(known.hash) + 1
      BY <1>1, <3>1, PrefixNext DEF AtTip
    <3> HIDE DEF refetched, first
    <3>4. refetched.hash = known.hash /\ refetched.next = {first}
      BY <3>2
    <3> QED
      BY <3>3, <3>4
  <2>2. CASE ~ (Len(tip) > Len(known.hash))
    BY <1>1, <2>2
  <2> QED
    BY <2>1, <2>2
<1> HIDE DEF refetched
<1>5. phase' = "process" /\ block' = refetched
  BY <1>3, <1>4 DEF Goto
<1>6. Underway'
  BY <1>1, <1>2, <1>4, <1>5 DEF Underway, AtTip, chain
<1>7. Place(h, known)'
  BY <1>1, <1>2, <1>4, <1>5, <1>6 DEF Place, Settled, AtTip, chain
<1>8. CountedOnce(h)'
  BY <1>2 DEF CountedOnce
<1> QED
  BY <1>7, <1>8

(***************************************************************************)
(* A block that is processed is the first one of all, or the one after h.  *)
(***************************************************************************)
NextOf(h, hash) ==
    \/ processed = {} /\ h = <<>> /\ hash = <<>>
    \/ processed # {} /\ Len(hash) = Len(h) + 1

LEMMA ProcessingNext ==
    ASSUME NEW h \in Hash, NEW known \in Fetched, Place(h, known), Processing
    PROVE  Underway /\ NextOf(h, block.hash)
<1>1. Settled(h) /\ \A s \in DOMAIN seen : processed # {} /\ Len(s) <= Len(h)
  BY DEF Place
<1>2. CASE phase \in {"process", "forced"} /\ Underway /\ processed # {} /\ Len(block.hash) = Len(h) + 1
  BY <1>2 DEF NextOf
<1>3. CASE phase = "process" /\ Underway /\ block.hash = known.hash /\ h = known.hash
  <2>1. block.hash \notin processed
    BY <1>3 DEF Processing, Skips
  <2> QED
    BY <1>1, <1>3, <2>1 DEF Settled, NextOf
<1> QED
  BY <1>2, <1>3 DEF Place, Processing

LEMMA FetchNext ==
    ASSUME tip \in Hash, NEW hash \in Hash, AtTip(hash)
    PROVE  /\ GetBlock(hash).hash = hash
           /\ \A next \in GetBlock(hash).next : AtTip(next) /\ Len(next) = Len(hash) + 1
<1> DEFINE first == SubSeq(tip, 1, Len(hash) + 1)
<1>1. IsStrictPrefix(hash, tip) => AtTip(first) /\ Len(first) = Len(hash) + 1
  BY PrefixNext DEF AtTip
<1> HIDE DEF first
<1>2. GetBlock(hash).hash = hash
      /\ GetBlock(hash).next = IF IsStrictPrefix(hash, tip) THEN {first} ELSE {}
  BY DEF GetBlock, first
<1> QED
  BY <1>1, <1>2

LEMMA SkipBlockInOrder ==
    ASSUME IInv, NEW h \in Hash, NEW known \in Fetched, Place(h, known), CountedOnce(h), SkipBlock
    PROVE  Place(h, known)' /\ CountedOnce(h)'
<1>1. /\ tip \in Hash /\ Len(h) \in Nat /\ block.next \subseteq Hash /\ checks \in Nat
      /\ Settled(h) /\ \A s \in DOMAIN seen : processed # {} /\ Len(s) <= Len(h)
  BY DEF IInv, TypeOK, Hash, Fetched, Place
<1>2. phase = "process" /\ (block.hash \in processed \/ block.hash \in DOMAIN seen)
  BY DEF SkipBlock, Skips
<1>3. processed # {} /\ processed = {h} /\ Len(block.hash) # Len(h) + 1
  BY <1>1, <1>2 DEF Settled
<1>4. Underway /\ block.hash = known.hash /\ h = known.hash
  BY <1>2, <1>3 DEF Place
<1>5. UNCHANGED <<chain, failures, latest, processed, seen, watch, checks, late, raised, reports>>
  BY DEF SkipBlock
<1>6. CASE block.next = {}
  <2>1. phase' = "idle"
    BY <1>6 DEF SkipBlock, Goto
  <2> QED
    BY <1>4, <1>5, <2>1 DEF Place, Settled, AtTip, CountedOnce, chain
<1>7. ASSUME NEW next \in block.next, Goto("forced", GetBlock(next))
      PROVE  Place(h, known)' /\ CountedOnce(h)'
  <2>1. next \in Hash /\ AtTip(next) /\ Len(next) = Len(h) + 1 /\ checks <= Len(h) + 1
    BY <1>1, <1>4 DEF Underway
  <2>2. phase' = "forced" /\ block' = GetBlock(next)
    BY <1>7 DEF Goto
  <2>3. Underway' /\ Len(block'.hash) = Len(h) + 1
    BY <1>1, <1>5, <2>1, <2>2, FetchNext DEF Underway, AtTip, chain
  <2> QED
    BY <1>3, <1>5, <2>2, <2>3 DEF Place, Settled, AtTip, CountedOnce, chain
<1> QED
  BY <1>6, <1>7 DEF SkipBlock

LEMMA CountedTallied ==
    ASSUME IInv, NEW h \in Hash, NEW hash \in Hash, AtTip(h), AtTip(hash), NextOf(h, hash),
           CountedOnce(h), NEW w \in Watch
    PROVE  /\ Tallied(w, watch[w], hash)
           /\ w \in Watching => Tallied(w, Counted(w, hash), hash)
<1> DEFINE r == watch[w]
           txs == Txs(hash)
<1>1. /\ tip \in Hash /\ r \in WatchRecord /\ r.confirmations \in Nat /\ Sound(watch)
      /\ Tallied(w, r, h) /\ (processed = {} => r.event = "none")
  BY DEF IInv, TypeOK, CountedOnce, WatchRecord
<1>2. r.event = "none" => r.confirmations = 0
  <2>1. r.confirmations > 0 => r.event # "none"
    BY <1>1, Zenon DEF Sound
  <2> HIDE DEF r
  <2> QED
    BY <1>1, <2>1
<1> HIDE DEF r
<1>3. ASSUME r.status # "gone", r.event \in {"confirm", "mutate"}
      PROVE  \E tx \in Own(w) : /\ r.tx = {tx} /\ Depth(tx, hash) > 0
                                /\ r.confirmations + 1 <= Depth(tx, hash)
  <2>1. PICK tx \in Own(w) : r.tx = {tx} /\ Depth(tx, h) > 0 /\ r.confirmations <= Depth(tx, h)
    BY <1>1, <1>3 DEF Tallied
  <2>2. processed # {} /\ Len(hash) = Len(h) + 1
    BY <1>1, <1>3 DEF NextOf
  <2>3. Depth(tx, hash) >= Depth(tx, h) + 1
    BY <1>1, <2>1, <2>2, DepthGrows DEF AtTip
  <2>4. Depth(tx, h) \in Nat /\ Depth(tx, hash) \in Nat
    BY DepthType
  <2> QED
    BY <1>1, <2>1, <2>3, <2>4
<1>4. Tallied(w, r, hash)
  <2>1. ASSUME r.status # "gone", r.event \in {"confirm", "mutate"}
        PROVE  \E tx \in Own(w) : r.tx = {tx} /\ Depth(tx, hash) > 0 /\ r.confirmations <= Depth(tx, hash)
    <3>1. PICK tx \in Own(w) : /\ r.tx = {tx} /\ Depth(tx, hash) > 0
                               /\ r.confirmations + 1 <= Depth(tx, hash)
      BY <1>3, <2>1
    <3>2. Depth(tx, hash) \in Nat
      BY DepthType
    <3> QED
      BY <1>1, <3>1, <3>2
  <2> QED
    BY <1>1, <2>1 DEF Tallied
<1>5. ASSUME w \in Watching PROVE Tallied(w, Counted(w, hash), hash)
  <2>1. r.status = "watching"
    BY <1>1, <1>5 DEF Watching, Tallied, r
  <2>2. CASE r.event # "none"
    <3>1. Counted(w, hash) = [r EXCEPT !.confirmations = @ + 1]
      BY <2>2 DEF Counted, r
    <3>2. /\ Counted(w, hash).status = r.status /\ Counted(w, hash).event = r.event
          /\ Counted(w, hash).tx = r.tx /\ Counted(w, hash).confirmations = r.confirmations + 1
      BY <1>1, <3>1 DEF WatchRecord
    <3> QED
      BY <1>3, <2>1, <3>2 DEF Tallied
  <2>3. CASE r.event = "none" /\ OwnAt(w, txs) = {}
    <3>1. Counted(w, hash) = r
      BY <2>3 DEF Counted, r
    <3> QED
      BY <1>4, <3>1
  <2>4. CASE r.event = "none" /\ OwnAt(w, txs) # {}
    <3> DEFINE tx == txs[CHOOSE i \in OwnAt(w, txs) : TRUE]
    <3>1. Counted(w, hash) = Put(r, tx[2], r.confirmations + 1, {tx}, {hash})
      BY <2>4 DEF Counted, r, Put
    <3>2. tx \in Own(w) /\ tx \in ToSet(txs)
      <4>1. \E k \in DOMAIN txs : k = (CHOOSE i \in OwnAt(w, txs) : TRUE) /\ txs[k] \in Own(w)
        BY <2>4 DEF OwnAt
      <4> QED
        BY <4>1 DEF ToSet
    <3> HIDE DEF tx
    <3> DEFINE c == Put(r, tx[2], r.confirmations + 1, {tx}, {hash})
    <3>3. c.tx = {tx} /\ c.confirmations = 1 /\ c.status = r.status
      BY <1>1, <1>2, <2>4 DEF Put, WatchRecord
    <3> HIDE DEF c
    <3>4. Len(hash) = Len(h) + 1
      <4>1. hash # <<>>
        BY <3>2 DEF Txs, ToSet
      <4> QED
        BY <4>1 DEF NextOf
    <3>5. Depth(tx, hash) >= 1 /\ Depth(tx, hash) \in Nat
      BY <1>1, <3>2, <3>4, DepthGrows, DepthType DEF AtTip
    <3> QED
      <4>1. c.tx = {tx} /\ Depth(tx, hash) > 0 /\ c.confirmations <= Depth(tx, hash)
        BY <3>3, <3>5
      <4>2. Tallied(w, c, hash)
        BY <2>1, <3>2, <3>3, <4>1 DEF Tallied
      <4> QED
        BY <3>1, <4>2 DEF c
  <2> QED
    BY <2>2, <2>3, <2>4
<1> QED
  BY <1>4, <1>5 DEF r

LEMMA ProcessBlockCounts ==
    ASSUME IInv, NEW h \in Hash, NEW known \in Fetched, Place(h, known), CountedOnce(h),
           ProcessBlock, NEW hash \in Hash, hash = block.hash
    PROVE  CountedOnce(hash)'
<1>1. PICK order \in SetToSeqs(Watching) :
         \E counted \in {CountAll(order, hash)} :
         \E due \in {Due(counted.watch, order)} :
         \E left \in {RemoveAll(FlagAll(counted, order, hash), due, order)} :
            /\ watch' = left.watch
            /\ Report(counted.watch, due, hash)
  BY Zenon DEF ProcessBlock
<1> DEFINE counted == CountAll(order, hash)
           due == Due(counted.watch, order)
           flagged == FlagAll(counted, order, hash)
<1>2. watch' = RemoveAll(flagged, due, order).watch /\ Report(counted.watch, due, hash)
  BY <1>1, Zenon
<1>3. /\ watch \in [Watch -> WatchRecord] /\ Sound(watch) /\ reports \in Reports
      /\ AtTip(h) /\ AtTip(hash) /\ NextOf(h, hash)
  BY ProcessingNext DEF IInv, TypeOK, Reports, Place, ProcessBlock, Underway
<1>4. /\ order \in Seq(Watch) /\ counted.watch \in [Watch -> WatchRecord] /\ Sound(counted.watch)
      /\ flagged \in Marking(DOMAIN seen \cup {hash}, counted.watch)
  BY FlaggedType
<1>5. ToSet(order) = Watching
  <2>1. IsFiniteSet(Watching)
    BY MonitorAssumption, FS_Subset DEF Watching
  <2> QED
    BY <2>1, OrderIsAll
<1>6. counted.watch = [w \in Watch |-> IF w \in Watching THEN Counted(w, hash) ELSE watch[w]]
  BY <1>5 DEF CountAll
<1> HIDE DEF flagged, counted
<1>7. \A w \in Watch : Tallied(w, counted.watch[w], hash) /\ counted.watch[w].status = watch[w].status
  <2> SUFFICES ASSUME NEW w \in Watch
               PROVE  Tallied(w, counted.watch[w], hash) /\ counted.watch[w].status = watch[w].status
    OBVIOUS
  <2>1. CASE w \in Watching
    BY <1>3, <1>6, <2>1, CountedTallied, CountedType
  <2>2. CASE w \notin Watching
    BY <1>3, <1>6, <2>2, CountedTallied
  <2> QED
    BY <2>1, <2>2
<1>8. /\ flagged.watch \in [Watch -> WatchRecord]
      /\ \A w \in Watch : /\ flagged.watch[w].status = watch[w].status
                          /\ flagged.watch[w] = counted.watch[w] \/ flagged.watch[w].event = "fraud"
  BY <1>4, <1>7 DEF Marking
<1>9. \A w \in Watch : Tallied(w, flagged.watch[w], hash)
  <2> SUFFICES ASSUME NEW w \in Watch PROVE Tallied(w, flagged.watch[w], hash)
    OBVIOUS
  <2>1. CASE flagged.watch[w] = counted.watch[w]
    BY <1>7, <2>1
  <2>2. CASE flagged.watch[w].event = "fraud"
    BY <1>7, <1>8, <2>2 DEF Tallied
  <2> QED
    BY <1>8, <2>1, <2>2
<1>10. watch' = [w \in Watch |-> IF w \in due THEN [flagged.watch[w] EXCEPT !.status = "gone"]
                                 ELSE flagged.watch[w]]
  BY <1>2 DEF RemoveAll
<1>11. \A r \in WatchRecord : [r EXCEPT !.status = "gone"].status = "gone"
  BY DEF WatchRecord
<1>12. ASSUME NEW w \in Watch
       PROVE  /\ Tallied(w, watch'[w], hash)
              /\ watch'[w].status # "gone" => w \notin due /\ watch[w].status # "gone"
  <2>1. CASE w \in due
    <3>1. watch'[w].status = "gone"
      BY <1>8, <1>10, <1>11, <2>1
    <3> QED
      BY <3>1 DEF Tallied
  <2>2. CASE w \notin due
    BY <1>8, <1>9, <1>10, <2>2
  <2> QED
    BY <2>1, <2>2
<1>13. ASSUME NEW w \in Watch
       PROVE  Timely(reports'[w]) /\ (watch'[w].status # "gone" => reports'[w] = <<>>)
  <2>1. /\ Timely(reports[w]) /\ (watch[w].status # "gone" => reports[w] = <<>>)
        /\ reports'[w] = IF w \in due THEN Append(reports[w], Callback(counted.watch[w], hash))
                         ELSE reports[w]
    BY <1>2 DEF CountedOnce, Report
  <2>2. CASE w \notin due
    BY <1>12, <2>1, <2>2
  <2>3. CASE w \in due
    <3> DEFINE r == counted.watch[w]
               call == Callback(r, hash)
    <3>1. /\ w \in Watching /\ r.confirmations >= Confirmations
          /\ r \in WatchRecord /\ r.event \in Events
      BY <1>4, <1>5, <2>3, DueType DEF Due
    <3>2. r.status = watch[w].status /\ watch[w].status # "gone" /\ Tallied(w, r, hash)
      BY <1>7, <3>1 DEF Watching
    <3> HIDE DEF r
    <3>3. call.event = r.event
          /\ call.depth = IF r.tx = {} THEN 0 ELSE Depth(CHOOSE tx \in r.tx : TRUE, hash)
      BY DEF Callback
    <3>4. ASSUME r.event # "fraud" PROVE call.depth >= Confirmations
      <4>1. PICK tx \in Own(w) : r.tx = {tx} /\ r.confirmations <= Depth(tx, hash)
        BY <3>1, <3>2, <3>4 DEF Tallied, Events
      <4>2. call.depth = Depth(tx, hash)
        <5>1. (CHOOSE x \in {tx} : TRUE) = tx
          OBVIOUS
        <5> QED
          BY <3>3, <4>1, <5>1
      <4>3. Depth(tx, hash) \in Nat /\ r.confirmations \in Nat
        BY <3>1, DepthType DEF WatchRecord
      <4> QED
        BY <3>1, <4>1, <4>2, <4>3, MonitorAssumption
    <3> HIDE DEF call
    <3>5. reports'[w] = <<call>>
      <4>1. reports'[w] = Append(reports[w], call)
        BY <2>1, <2>3, Zenon DEF call, r
      <4>2. reports[w] = <<>>
        BY <2>1, <3>2
      <4> QED
        BY <4>1, <4>2
    <3>6. Timely(reports'[w])
      BY <3>3, <3>4, <3>5 DEF Timely
    <3> QED
      BY <1>12, <2>3, <3>6
  <2> QED
    BY <2>2, <2>3
<1>14. processed' = {hash}
  BY DEF ProcessBlock
<1> HIDE DEF due
<1> QED
  BY <1>12, <1>13, <1>14 DEF CountedOnce

LEMMA ProcessBlockInOrder ==
    ASSUME MaxHeight < MaxChecks, IInv, NEW h \in Hash, NEW known \in Fetched, Place(h, known),
           ProcessBlock, failures' = failures, NEW hash \in Hash, hash = block.hash,
           NEW last \in Fetched, last = block
    PROVE  Place(hash, known)' \/ Place(hash, last)'
<1>1. /\ tip \in Hash /\ Len(tip) \in Nat /\ Len(h) \in Nat /\ Len(hash) \in Nat /\ checks \in Nat
      /\ DOMAIN seen \subseteq Hash /\ failures \in Nat /\ hash = last.hash
      /\ block.next \subseteq Hash /\ Len(tip) <= MaxHeight
      /\ MaxHeight \in Nat /\ MaxChecks \in Nat
  BY MonitorAssumption DEF IInv, TypeOK, Hash, Fetched, Place
<1>2. /\ AtTip(hash) /\ checks <= Len(hash) + 1
      /\ \A next \in block.next : AtTip(next) /\ Len(next) = Len(hash) + 1
      /\ NextOf(h, hash)
  BY ProcessingNext DEF ProcessBlock, Underway
<1>3. Settled(hash)' /\ AtTip(hash)' /\ Len(tip') <= MaxHeight /\ processed' # {}
      /\ UNCHANGED <<chain>>
  BY <1>1, <1>2 DEF ProcessBlock, Settled, AtTip, chain
<1>4. \A s \in DOMAIN seen' : processed' # {} /\ Len(s) <= Len(hash)
  <2>1. PICK order \in SetToSeqs(Watching) :
           seen' = NonEmpty(RemoveAll(FlagAll(CountAll(order, hash), order, hash),
                                      Due(CountAll(order, hash).watch, order), order).seen)
    BY Zenon DEF ProcessBlock
  <2> DEFINE D == DOMAIN seen \cup {hash}
             counted == CountAll(order, hash)
             left == RemoveAll(FlagAll(counted, order, hash), Due(counted.watch, order), order)
  <2>2. /\ D \subseteq Hash /\ IsFiniteSet(D) /\ order \in Seq(Watch)
        /\ FlagAll(counted, order, hash) \in Marking(D, counted.watch)
    BY FlaggedType
  <2> HIDE DEF D
  <2>3. left.seen \in [D -> Seq(Watch)]
    BY <2>2, RemoveAllType
  <2> HIDE DEF left, counted
  <2>4. DOMAIN seen' \subseteq D
    BY <2>1, <2>2, <2>3, NonEmptyType DEF left, counted
  <2>5. \A s \in DOMAIN seen : processed # {} /\ Len(s) <= Len(h) /\ Len(s) \in Nat
    BY <1>1 DEF Place, Hash
  <2>6. \A s \in D : Len(s) <= Len(hash)
    BY <1>1, <1>2, <2>5 DEF D, NextOf
  <2> QED
    BY <1>3, <2>4, <2>6
<1>5. latest = {known} /\ AtTip(known.hash) /\ known.next = {}
  BY DEF Place
<1>6. CASE Reached
  <2>1. latest' = {last} /\ last.next = {} /\ phase' = "idle"
    BY <1>6 DEF Reached, Goto
  <2> QED
    BY <1>1, <1>3, <1>4, <2>1 DEF Place
<1>7. CASE Onward
  <2>1. PICK next \in block.next :
          IF checks = MaxChecks THEN Goto("idle", Start) /\ UNCHANGED checks
          ELSE Goto("process", GetBlock(next)) /\ checks' = checks + 1
    BY <1>7 DEF Onward
  <2>2. next \in Hash /\ AtTip(next) /\ Len(next) = Len(hash) + 1
    BY <1>1, <1>2
  <2>3. checks # MaxChecks
    <3>1. Len(next) <= Len(tip)
      BY <2>2 DEF AtTip, IsPrefix
    <3> QED
      BY <1>1, <1>2, <2>2, <3>1
  <2>4. phase' = "process" /\ block' = GetBlock(next) /\ checks' = checks + 1 /\ latest' = latest
    BY <1>7, <2>1, <2>3 DEF Onward, Goto
  <2>5. Underway' /\ Len(block'.hash) = Len(hash) + 1
    <3>1. /\ GetBlock(next).hash = next
          /\ \A n \in GetBlock(next).next : AtTip(n) /\ Len(n) = Len(next) + 1
      BY <1>1, <2>2, FetchNext
    <3>2. checks + 1 <= Len(next) + 1
      BY <1>1, <1>2, <2>2
    <3> QED
      BY <1>3, <2>2, <2>4, <3>1, <3>2 DEF Underway, AtTip, chain
  <2> QED
    BY <1>3, <1>4, <1>5, <2>4, <2>5 DEF Place, AtTip, chain
<1>8. CASE Unfetched
  BY <1>1, <1>8 DEF Unfetched
<1> QED
  BY <1>6, <1>7, <1>8 DEF ProcessBlock, Advance

LEMMA CalmStep ==
    ASSUME MaxHeight < MaxChecks, IInv, Calm => InOrder, [Next]_vars, Calm'
    PROVE  InOrder'
<1>1. forks \in Nat /\ failures \in Nat /\ watch \in [Watch -> WatchRecord]
  BY DEF IInv, TypeOK
<1>2. Calm
  <2>1. forks' = forks \/ forks' = forks + 1
    BY DEF Next, Check, vars, chain, Mine, Reorganise, AddWatch, Recover, StartCheck, WalkBack,
           SkipBlock, ProcessBlock, CallbackRaises, CallRaises
  <2>2. failures' = failures \/ failures' = failures + 1
    BY DEF Next, Check, vars, Mine, Reorganise, AddWatch, Recover, StartCheck, WalkBack,
           SkipBlock, ProcessBlock, Advance, Reached, Onward, Unfetched, CallbackRaises, CallRaises
  <2>3. late \subseteq late'
    BY DEF Next, Check, vars, Mine, Reorganise, AddWatch, Recover, StartCheck, WalkBack,
           SkipBlock, ProcessBlock, CallbackRaises, CallRaises
  <2> QED
    BY <1>1, <2>1, <2>2, <2>3 DEF Calm
<1>3. PICK h \in Hash, known \in Fetched : Place(h, known) /\ CountedOnce(h)
  BY <1>2 DEF InOrder
<1>4. forks' = forks /\ failures' = failures /\ late' = {}
  BY <1>2 DEF Calm
<1>5. CASE Mine \/ (\E w \in Watch : AddWatch(w)) \/ StartCheck \/ SkipBlock
  <2>1. Place(h, known)' /\ CountedOnce(h)'
    BY <1>3, <1>4, <1>5, MineInOrder, AddWatchInOrder, StartCheckInOrder, SkipBlockInOrder
  <2> QED
    BY <2>1 DEF InOrder
<1>6. CASE ProcessBlock
  <2>1. PICK hash \in Hash, last \in Fetched : hash = block.hash /\ last = block
    BY DEF IInv, TypeOK, Fetched
  <2>2. CountedOnce(hash)'
    BY <1>3, <1>6, <2>1, ProcessBlockCounts
  <2>3. Place(hash, known)' \/ Place(hash, last)'
    BY <1>3, <1>4, <1>6, <2>1, ProcessBlockInOrder
  <2> QED
    BY <2>2, <2>3 DEF InOrder
<1>7. CASE Recover \/ WalkBack
  BY <1>3, <1>7 DEF Recover, WalkBack, Place
<1>8. CASE Reorganise \/ CallRaises
  BY <1>1, <1>4, <1>8 DEF Reorganise, CallRaises
<1>9. CASE CallbackRaises
  <2>1. \A w \in Watch : watch[w].status # "stuck"
    BY <1>3 DEF CountedOnce, Tallied
  <2>2. \E order \in SetToSeqs(Watching) : \E n \in DOMAIN order :
           IF watch[order[n]].status = "stuck" THEN UNCHANGED failures
           ELSE failures < MaxFailures /\ failures' = failures + 1
    BY <1>9, Zenon DEF CallbackRaises
  <2>3. PICK order \in SetToSeqs(Watching), n \in Nat :
           /\ order[n] \in Watch
           /\ IF watch[order[n]].status = "stuck" THEN UNCHANGED failures
              ELSE failures < MaxFailures /\ failures' = failures + 1
    <3>1. \A order \in SetToSeqs(Watching) : \A n \in DOMAIN order : n \in Nat /\ order[n] \in Watch
      <4> TAKE order \in SetToSeqs(Watching)
      <4>1. order \in Seq(Watch)
        BY OrdersType
      <4> QED
        BY <4>1
    <3> QED
      BY <2>2, <3>1
  <2> QED
    BY <1>1, <1>4, <2>1, <2>3
<1>10. CASE UNCHANGED vars
  <2>1. Place(h, known)' /\ CountedOnce(h)'
    BY <1>3, <1>10 DEF Place, CountedOnce, Settled, AtTip, Underway, vars, chain, monitor
  <2> QED
    BY <2>1 DEF InOrder
<1> QED
  BY <1>5, <1>6, <1>7, <1>8, <1>9, <1>10 DEF Next, Check

(***************************************************************************)
(* While the chain only grows, and by fewer blocks than a check may walk   *)
(* (self.max_block_checks, tx_monitor.py:116,247), and nothing raises: a   *)
(* callback comes once for a watch, and not before its transaction is      *)
(* Confirmations deep, unless it is for a double spend (284-359).          *)
(***************************************************************************)
THEOREM TimelyCallbacks ==
    ASSUME MaxHeight < MaxChecks
    PROVE  Spec => []CallbacksInTime
<1>1. Spec => [](IInv /\ (Calm => InOrder))
  <2>1. Init => IInv /\ (Calm => InOrder)
    BY InitTypes, InitInOrder
  <2>2. IInv /\ (Calm => InOrder) /\ [Next]_vars => (IInv /\ (Calm => InOrder))'
    BY StepTypes, CalmStep
  <2> QED
    BY <2>1, <2>2, PTL DEF Spec
<1>2. (Calm => InOrder) => CallbacksInTime
  BY DEF InOrder, CountedOnce, Timely, CallbacksInTime
<1> QED
  BY <1>1, <1>2, PTL

-----------------------------------------------------------------------------
(***************************************************************************)
(* The monitor when the chain is reorganised and nothing raises, or some   *)
(* call raises and the chain only grows (Regular), and no transaction but  *)
(* the watched ones gets into blocks.  Every hash that the monitor has is  *)
(* of a block that was on the chain once; it is still, or was orphaned for *)
(* good (OnceOnTip).                                                       *)
(***************************************************************************)
Split(h) == \E i \in DOMAIN h : i <= Len(tip) /\ h[i] # tip[i]

OnceOnTip(h) ==
    /\ \A i \in DOMAIN h : h[i].fork <= forks
    /\ AtTip(h) \/ (forks > 0 /\ Split(h))

LEMMA LongerChain ==
    ASSUME forks' \in 0 .. MaxForks, NEW hash \in Hash, NEW n \in Nat, NEW h \in Longer(hash, n)
    PROVE  /\ h \in Hash /\ Len(h) = Len(hash) + n
           /\ \A i \in 1 .. Len(hash) : h[i] = hash[i]
           /\ \A i \in Len(hash) + 1 .. Len(h) : h[i].fork = forks'
<1> DEFINE Ext(x) == {c \in Hash : /\ Len(c) = Len(hash) + x
                                   /\ \A i \in 1 .. Len(hash) : c[i] = hash[i]
                                   /\ \A i \in Len(hash) + 1 .. Len(c) : c[i].fork = forks'}
<1>1. PICK tr \in [0 .. n -> SUBSET Hash] :
         /\ tr[0] = {hash} /\ tr[n] = Longer(hash, n)
         /\ \A x \in 1 .. n : tr[x] = UNION {NextBlocks(c) : c \in tr[x - 1]}
  BY LongerSteps
<1> DEFINE T == {x \in 0 .. n : tr[x] \subseteq Ext(x)}
<1>2. 0 \in T
  <2>1. Len(hash) \in Nat
    BY DEF Hash
  <2>2. hash \in Ext(0)
    BY <2>1
  <2> QED
    BY <1>1, <2>2
<1>3. ASSUME NEW x \in 1 .. n, x - 1 \in T PROVE x \in T
  <2> SUFFICES ASSUME NEW c \in tr[x - 1], NEW d \in NextBlocks(c) PROVE d \in Ext(x)
    BY <1>1
  <2>1. /\ c \in Hash /\ Len(c) = Len(hash) + (x - 1) /\ Len(hash) \in Nat
        /\ \A i \in 1 .. Len(hash) : c[i] = hash[i]
        /\ \A i \in Len(hash) + 1 .. Len(c) : c[i].fork = forks'
    <3>1. c \in Ext(x - 1)
      BY <1>3
    <3> HIDE DEF T
    <3>2. Len(hash) \in Nat
      BY DEF Hash
    <3> QED
      BY <3>1, <3>2
  <2>2. d \in Hash /\ \E b \in Block : d = Append(c, b) /\ b.fork = forks'
    BY <2>1, NextBlocksType
  <2>3. PICK b \in Block : d = Append(c, b) /\ b.fork = forks'
    BY <2>2
  <2>4. /\ Len(d) = Len(c) + 1 /\ d[Len(c) + 1] = b
        /\ \A i \in 1 .. Len(c) : d[i] = c[i]
    BY <2>1, <2>3 DEF Hash
  <2>5. \A i \in Len(hash) + 1 .. Len(d) : d[i].fork = forks'
    <3> TAKE i \in Len(hash) + 1 .. Len(d)
    <3>1. CASE i = Len(c) + 1
      BY <2>3, <2>4, <3>1
    <3>2. CASE i # Len(c) + 1
      <4>1. i \in Len(hash) + 1 .. Len(c) /\ i \in 1 .. Len(c)
        BY <2>1, <2>4, <3>2
      <4> QED
        BY <2>1, <2>4, <4>1
    <3> QED
      BY <3>1, <3>2
  <2>6. \A i \in 1 .. Len(hash) : d[i] = hash[i]
    BY <2>1, <2>4
  <2>7. Len(d) = Len(hash) + x
    BY <2>1, <2>4
  <2> QED
    BY <2>2, <2>5, <2>6, <2>7
<1> HIDE DEF T
<1>4. n \in T
  BY <1>2, <1>3, StepInduction
<1> QED
  BY <1>1, <1>4 DEF T

(***************************************************************************)
(* The chain of the coin's node keeps its first c blocks; what comes after *)
(* them is new.                                                            *)
(***************************************************************************)
Keeps(c) ==
    /\ \A i \in 1 .. c : tip'[i] = tip[i]
    /\ \A i \in c + 1 .. Len(tip') : tip'[i].fork = forks'
    /\ \/ c = Len(tip) /\ forks' = forks
       \/ c < Len(tip) /\ forks' = forks + 1

LEMMA ChainKeeps ==
    ASSUME IInv, Mine \/ Reorganise
    PROVE  Len(tip') = Len(tip) + 1 /\ \E c \in 0 .. Len(tip) : Keeps(c)
<1>1. /\ tip \in Hash /\ Len(tip) \in Nat /\ forks \in Nat /\ MaxForks \in Nat /\ forks \in 0 .. MaxForks
  BY MonitorAssumption DEF IInv, TypeOK, Hash
<1>2. CASE Mine
  <2>1. forks' = forks /\ tip' \in NextBlocks(tip) /\ forks' \in 0 .. MaxForks
    BY <1>1, <1>2 DEF Mine
  <2>2. PICK b \in Block : tip' = Append(tip, b) /\ b.fork = forks'
    BY <1>1, <2>1, NextBlocksType
  <2>3. /\ Len(tip') = Len(tip) + 1 /\ tip'[Len(tip) + 1] = b
        /\ \A i \in 1 .. Len(tip) : tip'[i] = tip[i]
    BY <1>1, <2>2 DEF Hash
  <2>4. \A i \in Len(tip) + 1 .. Len(tip') : tip'[i].fork = forks'
    <3> SUFFICES ASSUME NEW i \in Len(tip) + 1 .. Len(tip') PROVE tip'[i].fork = forks'
      OBVIOUS
    <3>1. i = Len(tip) + 1
      BY <1>1, <2>3
    <3> QED
      BY <2>2, <2>3, <3>1
  <2>5. Keeps(Len(tip))
    BY <2>1, <2>3, <2>4, Zenon DEF Keeps
  <2> QED
    BY <1>1, <2>3, <2>5
<1>3. CASE Reorganise
  <2>1. /\ forks' = forks + 1 /\ forks' \in 0 .. MaxForks
        /\ \E n \in 1 .. Len(tip) : tip' \in Longer(SubSeq(tip, 1, Len(tip) - n), n + 1)
    BY <1>1, <1>3 DEF Reorganise
  <2>2. PICK n \in 1 .. Len(tip) : tip' \in Longer(SubSeq(tip, 1, Len(tip) - n), n + 1)
    BY <2>1
  <2> DEFINE base == SubSeq(tip, 1, Len(tip) - n)
  <2>3. base \in Hash /\ Len(base) = Len(tip) - n /\ \A i \in 1 .. Len(tip) - n : base[i] = tip[i]
    BY <1>1 DEF Hash
  <2> HIDE DEF base
  <2>4. /\ Len(tip') = Len(base) + (n + 1)
        /\ \A i \in 1 .. Len(base) : tip'[i] = base[i]
        /\ \A i \in Len(base) + 1 .. Len(tip') : tip'[i].fork = forks'
    <3>1. tip' \in Longer(base, n + 1) /\ n + 1 \in Nat
      BY <2>2 DEF base
    <3> QED
      BY <2>1, <2>3, <3>1, LongerChain
  <2>5. Keeps(Len(tip) - n)
    BY <1>1, <2>1, <2>3, <2>4 DEF Keeps
  <2> QED
    BY <1>1, <2>3, <2>4, <2>5
<1> QED
  BY <1>2, <1>3

LEMMA StepHash ==
    ASSUME IInv, Mine \/ Reorganise
    PROVE  tip' \in Hash
BY ChainTypes DEF IInv, TypeOK

(***************************************************************************)
(* So an orphaned block never gets back on the chain.                      *)
(***************************************************************************)
LEMMA SplitStays ==
    ASSUME tip \in Hash, tip' \in Hash, forks \in Nat, NEW c \in 0 .. Len(tip), Keeps(c),
           Len(tip') = Len(tip) + 1, NEW h \in Hash, OnceOnTip(h)
    PROVE  /\ OnceOnTip(h)'
           /\ AtTip(h)' => AtTip(h)
           /\ \A i \in DOMAIN h : i <= Len(tip) /\ h[i] # tip[i] => h[i] # tip'[i]
<1>1. /\ Len(tip) \in Nat /\ Len(tip') \in Nat /\ Len(h) \in Nat /\ DOMAIN h = 1 .. Len(h)
      /\ forks' \in Nat /\ forks' >= forks
  BY DEF Hash, Keeps
<1>2. \A i \in DOMAIN h : h[i].fork \in Nat /\ h[i].fork <= forks
  <2>1. \A i \in DOMAIN h : h[i] \in Block
    BY <1>1 DEF Hash
  <2> QED
    BY <2>1, MonitorAssumption DEF Block, OnceOnTip
<1>3. ASSUME NEW i \in DOMAIN h, i <= Len(tip), h[i] # tip[i] PROVE h[i] # tip'[i]
  <2>1. CASE i <= c
    BY <1>1, <1>3, <2>1 DEF Keeps
  <2>2. CASE i > c
    <3>1. c < Len(tip) /\ forks' = forks + 1 /\ i \in c + 1 .. Len(tip')
      BY <1>1, <1>3, <2>2 DEF Keeps
    <3>2. tip'[i].fork = forks + 1
      BY <3>1 DEF Keeps
    <3> QED
      BY <1>2, <3>2
  <2> QED
    BY <1>1, <2>1, <2>2
<1>4. AtTip(h)' => AtTip(h)
  <2>1. ASSUME AtTip(h)', Split(h) PROVE FALSE
    <3>1. \A i \in 1 .. Len(h) : h[i] = tip'[i]
      BY <2>1, PrefixPoints DEF AtTip
    <3> QED
      BY <1>1, <1>3, <2>1, <3>1 DEF Split
  <2> QED
    BY <2>1 DEF OnceOnTip
<1>5. Split(h) => Split(h)'
  BY <1>1, <1>3 DEF Split
<1>6. ASSUME AtTip(h) PROVE AtTip(h)' \/ (forks' > 0 /\ Split(h)')
  <2>1. Len(h) <= Len(tip) /\ \A i \in 1 .. Len(h) : h[i] = tip[i]
    BY <1>6, PrefixPoints DEF AtTip
  <2>2. CASE Len(h) <= c
    <3>1. Len(h) <= Len(tip') /\ \A i \in 1 .. Len(h) : h[i] = tip'[i]
      BY <1>1, <2>1, <2>2 DEF Keeps
    <3> QED
      BY <3>1, PrefixPoints DEF AtTip
  <2>3. CASE Len(h) > c
    <3>1. c < Len(tip) /\ forks' = forks + 1 /\ c + 1 \in 1 .. Len(h) /\ c + 1 \in c + 1 .. Len(tip')
      BY <1>1, <2>1, <2>3 DEF Keeps
    <3>2. tip'[c + 1].fork = forks + 1
      BY <3>1 DEF Keeps
    <3>3. h[c + 1] # tip'[c + 1]
      BY <1>1, <1>2, <3>1, <3>2
    <3> QED
      BY <1>1, <3>1, <3>3 DEF Split
  <2> QED
    BY <1>1, <2>2, <2>3
<1>7. \A i \in DOMAIN h : h[i].fork <= forks'
  BY <1>1, <1>2
<1> QED
  BY <1>1, <1>3, <1>4, <1>5, <1>6, <1>7 DEF OnceOnTip

(***************************************************************************)
(* The watched transaction as it was broadcast, and whether a block that is*)
(* still on the chain has it, among those up to h.                         *)
(***************************************************************************)
Watched(w) == <<w, "confirm">>

Stands(w, h) ==
    \E i \in DOMAIN h : /\ i <= Len(tip) /\ Watched(w) \in ToSet(h[i].txs)
                        /\ \A j \in 1 .. i : h[j] = tip[j]

LEMMA FrontFacts ==
    ASSUME NEW h \in Hash, h # <<>>
    PROVE  /\ Front(h) \in Hash /\ Len(h) \in Nat \ {0} /\ Len(Front(h)) = Len(h) - 1
           /\ \A i \in 1 .. Len(h) - 1 : Front(h)[i] = h[i]
           /\ IsPrefix(Front(h), h)
           /\ Txs(h) = h[Len(h)].txs
<1>1. Len(h) \in Nat \ {0} /\ Front(h) = SubSeq(h, 1, Len(h) - 1)
  BY DEF Hash, Front
<1>2. /\ Front(h) \in Hash /\ Len(Front(h)) = Len(h) - 1
      /\ \A i \in 1 .. Len(h) - 1 : Front(h)[i] = h[i]
  <2> DEFINE n == Len(h) - 1
  <2>1. n \in Nat /\ n <= Len(h) /\ Front(h) = SubSeq(h, 1, n)
    BY <1>1
  <2> HIDE DEF n
  <2>2. /\ SubSeq(h, 1, n) \in Hash /\ Len(SubSeq(h, 1, n)) = n
        /\ \A i \in 1 .. n : SubSeq(h, 1, n)[i] = h[i]
    BY <1>1, <2>1 DEF Hash
  <2> QED
    BY <2>1, <2>2 DEF n
<1>3. IsPrefix(Front(h), h)
  <2>1. Len(Front(h)) <= Len(h) /\ \A i \in 1 .. Len(Front(h)) : Front(h)[i] = h[i]
    BY <1>1, <1>2
  <2> QED
    BY <1>2, <2>1, PrefixPoints
<1> QED
  BY <1>1, <1>2, <1>3 DEF Txs, Last

LEMMA DepthPrefix ==
    ASSUME NEW s \in Hash, NEW h \in Hash, IsPrefix(s, h), NEW tx
    PROVE  /\ Depth(tx, s) \in Nat /\ Depth(tx, h) \in Nat /\ Depth(tx, s) <= Depth(tx, h)
           /\ Len(s) < Len(h) /\ Depth(tx, s) > 0 => Depth(tx, h) >= Depth(tx, s) + 1
<1> DEFINE A == Deeper(tx, s)
           B == Deeper(tx, h)
<1>1. /\ Len(s) \in Nat /\ Len(h) \in Nat /\ DOMAIN s = 1 .. Len(s) /\ DOMAIN h = 1 .. Len(h)
      /\ Len(s) <= Len(h) /\ \A i \in 1 .. Len(s) : s[i] = h[i]
  BY PrefixPoints DEF Hash
<1>2. /\ IsFiniteSet(A) /\ IsFiniteSet(B) /\ Depth(tx, s) = Cardinality(A)
      /\ Depth(tx, h) = Cardinality(B) /\ Cardinality(A) \in Nat /\ Cardinality(B) \in Nat
  BY DepthType
<1>3. A \subseteq B
  BY <1>1 DEF Deeper
<1>4. Cardinality(A) <= Cardinality(B)
  BY <1>2, <1>3, FS_Subset
<1>5. ASSUME Len(s) < Len(h), Depth(tx, s) > 0 PROVE Depth(tx, h) >= Depth(tx, s) + 1
  <2>1. PICK i \in A : TRUE
    <3>1. A # {}
      BY <1>2, <1>5, FS_EmptySet
    <3> QED
      BY <3>1
  <2>2. i \in DOMAIN s /\ \E j \in 1 .. i : tx \in ToSet(s[j].txs)
    BY <2>1 DEF Deeper
  <2>3. \E j \in 1 .. Len(h) : tx \in ToSet(h[j].txs)
    BY <1>1, <2>2
  <2>4. Len(h) \in B /\ Len(h) \notin A
    BY <1>1, <1>5, <2>3 DEF Deeper
  <2> HIDE DEF A, B
  <2>5. IsFiniteSet(A \cup {Len(h)}) /\ Cardinality(A \cup {Len(h)}) = Cardinality(A) + 1
    BY <1>2, <2>4, FS_AddElement
  <2>6. Cardinality(A \cup {Len(h)}) <= Cardinality(B)
    BY <1>2, <1>3, <2>4, FS_Subset
  <2> QED
    BY <1>2, <2>5, <2>6
<1> QED
  BY <1>2, <1>4, <1>5

LEMMA DepthFront ==
    ASSUME NEW h \in Hash, h # <<>>, NEW tx
    PROVE  /\ Depth(tx, h) \in Nat /\ Depth(tx, Front(h)) \in Nat
           /\ Depth(tx, h) <= Depth(tx, Front(h)) + 1
<1> DEFINE A == Deeper(tx, Front(h))
           B == Deeper(tx, h)
<1>1. /\ Front(h) \in Hash /\ Len(h) \in Nat \ {0} /\ Len(Front(h)) = Len(h) - 1
      /\ DOMAIN h = 1 .. Len(h) /\ DOMAIN Front(h) = 1 .. Len(h) - 1
      /\ \A i \in 1 .. Len(h) - 1 : Front(h)[i] = h[i]
  BY FrontFacts DEF Hash
<1>2. /\ IsFiniteSet(A) /\ IsFiniteSet(B) /\ Depth(tx, Front(h)) = Cardinality(A)
      /\ Depth(tx, h) = Cardinality(B) /\ Cardinality(A) \in Nat /\ Cardinality(B) \in Nat
  BY <1>1, DepthType
<1>3. B \subseteq A \cup {Len(h)} /\ Len(h) \notin A
  BY <1>1 DEF Deeper
<1> HIDE DEF A, B
<1>4. IsFiniteSet(A \cup {Len(h)}) /\ Cardinality(A \cup {Len(h)}) = Cardinality(A) + 1
  BY <1>2, <1>3, FS_AddElement
<1>5. Cardinality(B) <= Cardinality(A \cup {Len(h)})
  BY <1>2, <1>3, <1>4, FS_Subset
<1> QED
  BY <1>2, <1>4, <1>5

LEMMA StandsFacts ==
    ASSUME tip \in Hash, NEW h \in Hash, NEW w \in Watch
    PROVE  /\ AtTip(h) /\ Depth(Watched(w), h) > 0 => Stands(w, h)
           /\ Stands(w, h) => Depth(Watched(w), h) > 0 /\ w \in Mined(tip)
           /\ \A s \in Hash : IsPrefix(s, h) /\ Stands(w, s) => Stands(w, h)
<1> DEFINE tx == Watched(w)
<1>1. /\ Len(h) \in Nat /\ DOMAIN h = 1 .. Len(h) /\ Len(tip) \in Nat /\ DOMAIN tip = 1 .. Len(tip)
      /\ Depth(tx, h) = Cardinality(Deeper(tx, h)) /\ IsFiniteSet(Deeper(tx, h))
  BY DepthType DEF Hash
<1>2. ASSUME AtTip(h), Depth(tx, h) > 0 PROVE Stands(w, h)
  <2>1. Deeper(tx, h) # {}
    BY <1>1, <1>2, FS_EmptySet
  <2>2. PICK i \in DOMAIN h : tx \in ToSet(h[i].txs)
    BY <1>1, <2>1 DEF Deeper
  <2>3. Len(h) <= Len(tip) /\ \A j \in 1 .. Len(h) : h[j] = tip[j]
    BY <1>2, PrefixPoints DEF AtTip
  <2> QED
    BY <1>1, <2>2, <2>3 DEF Stands
<1>3. ASSUME Stands(w, h) PROVE Depth(tx, h) > 0 /\ w \in Mined(tip)
  <2>1. PICK i \in DOMAIN h : /\ i <= Len(tip) /\ tx \in ToSet(h[i].txs)
                              /\ \A j \in 1 .. i : h[j] = tip[j]
    BY <1>3 DEF Stands
  <2>2. i \in Deeper(tx, h)
    BY <1>1, <2>1 DEF Deeper
  <2>3. Cardinality(Deeper(tx, h)) # 0 /\ Cardinality(Deeper(tx, h)) \in Nat
    BY <1>1, <2>2, FS_EmptySet, FS_CardinalityType
  <2>4. i \in DOMAIN tip /\ tx \in ToSet(tip[i].txs)
    BY <1>1, <2>1
  <2>5. w \in {t[1] : t \in ToSet(tip[i].txs)}
    BY <2>4 DEF Watched
  <2> QED
    BY <1>1, <2>3, <2>4, <2>5 DEF Mined
<1>4. ASSUME NEW s \in Hash, IsPrefix(s, h), Stands(w, s) PROVE Stands(w, h)
  <2>1. /\ Len(s) \in Nat /\ DOMAIN s = 1 .. Len(s)
        /\ Len(s) <= Len(h) /\ \A i \in 1 .. Len(s) : s[i] = h[i]
    BY <1>4, PrefixPoints DEF Hash
  <2>2. PICK i \in DOMAIN s : /\ i <= Len(tip) /\ tx \in ToSet(s[i].txs)
                              /\ \A j \in 1 .. i : s[j] = tip[j]
    BY <1>4 DEF Stands
  <2>3. i \in DOMAIN h /\ tx \in ToSet(h[i].txs) /\ \A j \in 1 .. i : h[j] = tip[j]
    BY <1>1, <2>1, <2>2
  <2> QED
    BY <2>2, <2>3 DEF Stands
<1> QED
  BY <1>2, <1>3, <1>4

LEMMA StandsBefore ==
    ASSUME tip \in Hash, tip' \in Hash, NEW h \in Hash, NEW w \in Watch, OnceOnTip(h),
           \A i \in DOMAIN h : i <= Len(tip) /\ h[i] # tip[i] => h[i] # tip'[i],
           Stands(w, h)'
    PROVE  Stands(w, h)
<1>1. Len(h) \in Nat /\ DOMAIN h = 1 .. Len(h) /\ Len(tip) \in Nat /\ Len(tip') \in Nat
  BY DEF Hash
<1>2. PICK i \in DOMAIN h : /\ i <= Len(tip') /\ Watched(w) \in ToSet(h[i].txs)
                            /\ \A j \in 1 .. i : h[j] = tip'[j]
  BY DEF Stands, Watched
<1>3. \A j \in 1 .. i : j <= Len(tip) => h[j] = tip[j]
  BY <1>1, <1>2
<1>4. i <= Len(tip)
  <2>1. CASE AtTip(h)
    BY <1>1, <1>2, <2>1, PrefixPoints DEF AtTip
  <2>2. CASE Split(h)
    <3>1. PICK k \in DOMAIN h : k <= Len(tip) /\ h[k] # tip[k]
      BY <2>2 DEF Split
    <3> QED
      BY <1>1, <1>3, <3>1
  <2> QED
    BY <2>1, <2>2 DEF OnceOnTip
<1> QED
  BY <1>1, <1>2, <1>3, <1>4 DEF Stands

(***************************************************************************)
(* A watch has k confirmations more than its transaction is deep under h,  *)
(* as long as the block that has it is on the chain.                       *)
(***************************************************************************)
Credited(r, w, h, k) ==
    Stands(w, h) => r.event # "none" /\ r.confirmations >= Depth(Watched(w), h) + k

LEMMA CreditedPrefix ==
    ASSUME tip \in Hash, NEW s \in Hash, NEW h \in Hash, IsPrefix(s, h), NEW w \in Watch,
           NEW r \in WatchRecord, NEW k \in Nat, Credited(r, w, h, k)
    PROVE  /\ Credited(r, w, s, k)
           /\ Len(s) < Len(h) => Credited(r, w, s, k + 1)
<1> DEFINE tx == Watched(w)
<1>1. /\ Depth(tx, s) \in Nat /\ Depth(tx, h) \in Nat /\ Depth(tx, s) <= Depth(tx, h)
      /\ Len(s) < Len(h) /\ Depth(tx, s) > 0 => Depth(tx, h) >= Depth(tx, s) + 1
  BY DepthPrefix
<1>2. Stands(w, s) => Stands(w, h) /\ Depth(tx, s) > 0
  BY StandsFacts
<1>3. r.confirmations \in Nat
  BY DEF WatchRecord
<1> HIDE DEF tx
<1> QED
  BY <1>1, <1>2, <1>3 DEF Credited, tx

LEMMA CountedFacts ==
    ASSUME Forms = {"confirm"}, watch \in [Watch -> WatchRecord], NEW hash \in Hash, NEW w \in Watch,
           NEW c, c = Counted(w, hash), NEW r, r = watch[w]
    PROVE  /\ c.status = r.status
           /\ r.event # "none" => /\ c.event = r.event /\ c.tx = r.tx /\ c.block = r.block
                                  /\ c.confirmations = r.confirmations + 1
           /\ r.event = "none" /\ Watched(w) \notin ToSet(Txs(hash)) => c = r
           /\ r.event = "none" /\ Watched(w) \in ToSet(Txs(hash)) =>
                 /\ c.event = "confirm" /\ c.tx = {Watched(w)} /\ c.block = {hash}
                 /\ c.confirmations = r.confirmations + 1
<1> DEFINE txs == Txs(hash)
           own == OwnAt(w, txs)
<1>1. r \in WatchRecord /\ txs \in Seq(Tx) /\ DOMAIN txs = 1 .. Len(txs)
  BY TxsType
<1>2. CASE r.event # "none"
  <2>1. c = [r EXCEPT !.confirmations = @ + 1]
    BY <1>2 DEF Counted
  <2> QED
    BY <1>1, <1>2, <2>1 DEF WatchRecord
<1>3. \A i \in own : txs[i] = Watched(w)
  <2> SUFFICES ASSUME NEW i \in own PROVE txs[i] = Watched(w)
    OBVIOUS
  <2>1. txs[i] \in Own(w) /\ txs[i] \in Tx
    BY <1>1 DEF OwnAt
  <2> QED
    BY <2>1 DEF Own, Tx, Watched
<1>4. own = {} <=> Watched(w) \notin ToSet(txs)
  BY <1>3 DEF OwnAt, Own, Watched, ToSet
<1>5. CASE r.event = "none" /\ own = {}
  <2>1. c = r
    BY <1>5 DEF Counted
  <2> QED
    BY <1>4, <1>5, <2>1
<1>6. CASE r.event = "none" /\ own # {}
  <2>1. txs[CHOOSE i \in own : TRUE] = Watched(w) /\ Watched(w)[2] = "confirm"
    BY <1>3, <1>6 DEF Watched
  <2>2. c = Put(r, "confirm", r.confirmations + 1, {Watched(w)}, {hash})
    BY <1>6, <2>1 DEF Counted, Put
  <2>3. /\ c.event = "confirm" /\ c.confirmations = r.confirmations + 1 /\ c.status = r.status
        /\ c.tx = {Watched(w)} /\ c.block = {hash}
    <3> DEFINE p(e, n, t, b) == Put(r, e, n, t, b)
    <3>1. \A e, n, t, b : /\ p(e, n, t, b).event = e /\ p(e, n, t, b).confirmations = n
                          /\ p(e, n, t, b).tx = t /\ p(e, n, t, b).block = b
                          /\ p(e, n, t, b).status = r.status
      BY <1>1 DEF Put, WatchRecord
    <3> QED
      BY <2>2, <3>1
  <2> QED
    BY <1>4, <1>6, <2>3
<1> QED
  BY <1>2, <1>5, <1>6

LEMMA CountedCredited ==
    ASSUME Forms = {"confirm"}, tip \in Hash, watch \in [Watch -> WatchRecord],
           NEW hash \in Hash, NEW w \in Watch,
           hash # <<>> => Credited(watch[w], w, Front(hash), 0)
    PROVE  /\ Credited(Counted(w, hash), w, hash, 0)
           /\ \A h \in Hash : Credited(watch[w], w, h, 0) => Credited(Counted(w, hash), w, h, 0)
<1> DEFINE r == watch[w]
           c == Counted(w, hash)
           tx == Watched(w)
<1>1. r \in WatchRecord /\ r.confirmations \in Nat
  BY DEF WatchRecord
<1>2. /\ r.event # "none" => c.event = r.event /\ c.confirmations = r.confirmations + 1
      /\ r.event = "none" /\ tx \notin ToSet(Txs(hash)) => c = r
      /\ r.event = "none" /\ tx \in ToSet(Txs(hash)) =>
            c.event # "none" /\ c.confirmations = r.confirmations + 1
  BY CountedFacts
<1> HIDE DEF r, c
<1>3. ASSUME NEW h \in Hash, Credited(r, w, h, 0) PROVE Credited(c, w, h, 0)
  <2>1. Depth(tx, h) \in Nat
    BY DepthType
  <2> QED
    BY <1>1, <1>2, <1>3, <2>1 DEF Credited
<1>4. ASSUME Stands(w, hash) PROVE c.event # "none" /\ c.confirmations >= Depth(tx, hash)
  <2>1. PICK i \in DOMAIN hash : /\ i <= Len(tip) /\ tx \in ToSet(hash[i].txs)
                                 /\ \A j \in 1 .. i : hash[j] = tip[j]
    BY <1>4 DEF Stands
  <2>2. hash # <<>> /\ i \in 1 .. Len(hash)
    BY <2>1 DEF Hash
  <2> DEFINE front == Front(hash)
  <2>3. /\ front \in Hash /\ Len(hash) \in Nat \ {0} /\ Len(front) = Len(hash) - 1
        /\ DOMAIN front = 1 .. Len(hash) - 1
        /\ \A j \in 1 .. Len(hash) - 1 : front[j] = hash[j]
        /\ Txs(hash) = hash[Len(hash)].txs
    BY <2>2, FrontFacts DEF Hash
  <2>4. /\ Depth(tx, hash) \in Nat /\ Depth(tx, front) \in Nat
        /\ Depth(tx, hash) <= Depth(tx, front) + 1
    BY <2>2, DepthFront
  <2>5. Credited(r, w, front, 0)
    BY <2>2 DEF r
  <2> HIDE DEF front, tx
  <2>6. CASE Stands(w, front)
    BY <1>1, <1>2, <2>4, <2>5, <2>6 DEF Credited, tx
  <2>7. CASE ~Stands(w, front)
    <3>1. i = Len(hash)
      <4>1. CASE i \in 1 .. Len(hash) - 1
        <5>1. tx \in ToSet(front[i].txs) /\ \A j \in 1 .. i : front[j] = tip[j]
          BY <2>1, <2>3, <4>1
        <5> QED
          BY <2>1, <2>3, <2>7, <4>1, <5>1 DEF Stands, tx
      <4> QED
        BY <2>2, <2>3, <4>1
    <3>2. Depth(tx, front) = 0
      <4>1. AtTip(front)
        <5>1. /\ Len(tip) \in Nat /\ Len(front) <= Len(tip)
              /\ \A j \in 1 .. Len(front) : front[j] = tip[j]
          BY <2>1, <2>3, <3>1 DEF Hash
        <5> QED
          BY <2>3, <5>1, PrefixPoints DEF AtTip
      <4> QED
        BY <2>3, <2>4, <2>7, <4>1, StandsFacts DEF tx
    <3>3. tx \in ToSet(Txs(hash))
      BY <2>1, <2>3, <3>1
    <3>4. c.event # "none" /\ c.confirmations = r.confirmations + 1
      BY <1>2, <3>3
    <3> QED
      BY <1>1, <2>4, <3>2, <3>4
  <2> QED
    BY <2>6, <2>7
<1>5. Depth(tx, hash) \in Nat
  BY DepthType
<1> QED
  BY <1>3, <1>4, <1>5 DEF Credited, r, c

(***************************************************************************)
(* What a walk back may do to a watch: take up to k confirmations, and its *)
(* event with the last of them.                                            *)
(***************************************************************************)
Lessened(old, new, k) ==
    \/ new = old
    \/ /\ old.status = "watching" /\ new.status = "watching"
       /\ new.tx = old.tx /\ new.block = old.block
       /\ new.confirmations <= old.confirmations /\ old.confirmations <= new.confirmations + k
       /\ new.event = old.event \/ (new.event = "none" /\ new.confirmations = 0)

LEMMA LessenedTwice ==
    ASSUME NEW a \in WatchRecord, NEW b \in WatchRecord, NEW c \in WatchRecord,
           NEW k \in Nat, NEW m \in Nat, Lessened(a, b, k), Lessened(b, c, m)
    PROVE  Lessened(a, c, k + m)
<1>1. a.confirmations \in Nat /\ b.confirmations \in Nat /\ c.confirmations \in Nat
  BY DEF WatchRecord
<1> QED
  BY <1>1 DEF Lessened

LEMMA CreditedLess ==
    ASSUME NEW old \in WatchRecord, NEW new \in WatchRecord, NEW k \in Nat, Lessened(old, new, k),
           tip \in Hash, NEW h \in Hash, NEW w \in Watch, Credited(old, w, h, k)
    PROVE  Credited(new, w, h, 0)
<1>1. old.confirmations \in Nat /\ new.confirmations \in Nat
  BY DEF WatchRecord
<1>2. Depth(Watched(w), h) \in Nat /\ (Stands(w, h) => Depth(Watched(w), h) > 0)
  BY DepthType, StandsFacts
<1> QED
  BY <1>1, <1>2 DEF Credited, Lessened

-----------------------------------------------------------------------------
(***************************************************************************)
(* The lists of watches by block.  A watch is in one of them at most, that *)
(* of the block it was found in, and once.                                 *)
(***************************************************************************)
Listed(ws, lists) ==
    \A h \in DOMAIN lists : \A i \in DOMAIN lists[h] :
        /\ ws[lists[h][i]].status = "watching" /\ ws[lists[h][i]].event # "none"
        /\ ws[lists[h][i]].block = {h}
        /\ \A j \in DOMAIN lists[h] : lists[h][i] = lists[h][j] => i = j

LEMMA RemoveFirstAt ==
    ASSUME NEW A, NEW list \in Seq(A), NEW x \in 1 .. Len(list),
           \A i \in 1 .. Len(list) : list[i] = list[x] => i = x
    PROVE  /\ RemoveFirst(list, list[x]) \in Seq(A)
           /\ Len(RemoveFirst(list, list[x])) = Len(list) - 1
           /\ \A y \in 1 .. Len(list) - 1 :
                 RemoveFirst(list, list[x])[y] = IF y < x THEN list[y] ELSE list[y + 1]
<1> DEFINE e == list[x]
           I == {i \in 1 .. Len(list) : list[i] = e}
<1>1. I = {x}
  OBVIOUS
<1>2. Min(I) = x
  <2>1. \E m \in I : \A k \in I : m <= k
    BY <1>1
  <2>2. Min(I) \in I
    BY <2>1 DEF Min
  <2> QED
    BY <1>1, <2>2
<1>3. RemoveFirst(list, e) = RemoveAt(list, x)
  <2>1. SelectInSeq(list, LAMBDA v : v = e) = Min(I)
    BY <1>1 DEF SelectInSeq
  <2>2. \E i \in 1 .. Len(list) : list[i] = e
    OBVIOUS
  <2> HIDE DEF e, I
  <2> QED
    BY <1>2, <2>1, <2>2 DEF RemoveFirst
<1> DEFINE left == SubSeq(list, 1, x - 1)
           right == SubSeq(list, x + 1, Len(list))
<1>4. /\ left \in Seq(A) /\ Len(left) = x - 1 /\ \A y \in 1 .. x - 1 : left[y] = list[y]
      /\ right \in Seq(A) /\ Len(right) = Len(list) - x
      /\ \A y \in 1 .. Len(list) - x : right[y] = list[y + x]
  OBVIOUS
<1>5. RemoveFirst(list, e) = left \o right
  BY <1>3 DEF RemoveAt
<1> HIDE DEF left, right
<1>6. /\ left \o right \in Seq(A) /\ Len(left \o right) = Len(list) - 1
      /\ \A y \in 1 .. Len(list) - 1 :
            (left \o right)[y] = IF y < x THEN left[y] ELSE right[y - (x - 1)]
  <2>1. left \in Seq(A) /\ right \in Seq(A)
    BY <1>4
  <2>2. /\ left \o right \in Seq(A) /\ Len(left \o right) = Len(left) + Len(right)
        /\ \A y \in 1 .. Len(left) + Len(right) :
              (left \o right)[y] = IF y <= Len(left) THEN left[y] ELSE right[y - Len(left)]
    BY <2>1, ConcatProperties
  <2>3. \A y \in 1 .. Len(list) - 1 : y <= x - 1 <=> y < x
    OBVIOUS
  <2>4. Len(left) + Len(right) = Len(list) - 1
    BY <1>4
  <2> HIDE DEF I, e
  <2> QED
    BY <1>4, <2>2, <2>3, <2>4
<1>7. \A y \in 1 .. Len(list) - 1 :
         (left \o right)[y] = IF y < x THEN list[y] ELSE list[y + 1]
  <2> SUFFICES ASSUME NEW y \in 1 .. Len(list) - 1
               PROVE  (left \o right)[y] = IF y < x THEN list[y] ELSE list[y + 1]
    OBVIOUS
  <2>1. CASE y < x
    BY <1>4, <1>6, <2>1
  <2>2. CASE y >= x
    <3>1. y - (x - 1) \in 1 .. Len(list) - x /\ (y - (x - 1)) + x = y + 1
      BY <2>2
    <3> QED
      BY <1>4, <1>6, <2>2, <3>1
  <2>3. y < x \/ y >= x
    OBVIOUS
  <2> QED
    BY <2>1, <2>2, <2>3, Zenon
<1> QED
  BY <1>5, <1>6, <1>7

LEMMA RemoveFirstNone ==
    ASSUME NEW list, NEW e, \A i \in DOMAIN list : list[i] # e, DOMAIN list = 1 .. Len(list)
    PROVE  RemoveFirst(list, e) = list
<1>1. ~ \E i \in 1 .. Len(list) : list[i] = e
  OBVIOUS
<1> QED
  BY <1>1 DEF RemoveFirst

LEMMA NonEmptyListed ==
    ASSUME NEW ws, NEW lists, Listed(ws, lists)
    PROVE  Listed(ws, NonEmpty(lists))
<1>1. NonEmpty(lists) = [h \in {h \in DOMAIN lists : lists[h] # <<>>} |-> lists[h]]
  BY DEF NonEmpty, Restrict
<1> QED
  BY <1>1 DEF Listed

LEMMA OrderOnce ==
    ASSUME NEW S, IsFiniteSet(S), NEW order \in SetToSeqs(S)
    PROVE  \A i, j \in DOMAIN order : order[i] = order[j] => i = j
<1> DEFINE n == Cardinality(S)
<1>1. order \in [1 .. n -> S] /\ \A i, j \in 1 .. n : i # j => order[i] # order[j]
  BY DEF SetToSeqs
<1> QED
  BY <1>1

-----------------------------------------------------------------------------
(***************************************************************************)
(* A walk back takes at most one confirmation of a watch for an orphan: the*)
(* watch is in one list only and there once, and the loop over the list,   *)
(* which loses entries on the way, may pass over one but never comes to one*)
(* twice.                                                                  *)
(***************************************************************************)
Bookings(D) == {st \in Passing(D) : Listed(st.watch, st.seen)}

LEMMA DecrementLessens ==
    ASSUME NEW D, NEW st \in Bookings(D), NEW hash \in D, NEW i \in Nat \ {0},
           NEW d, d = Decrement(st, hash, i)
    PROVE  /\ d \in Bookings(D)
           /\ \A w \in Watch : \/ d.watch[w] = st.watch[w]
                               \/ /\ i <= Len(st.seen[hash]) /\ w = st.seen[hash][i]
                                  /\ st.watch[w].block = {hash}
                                  /\ Lessened(st.watch[w], d.watch[w], 1)
           /\ \A y \in DOMAIN d.seen[hash] : y > i =>
                 \E z \in DOMAIN st.seen[hash] : z > i /\ d.seen[hash][y] = st.seen[hash][z]
<1> DEFINE w == st.seen[hash][i]
           record == st.watch[w]
           list == st.seen[hash]
<1>1. /\ st \in [watch : [Watch -> WatchRecord], seen : [D -> Seq(Watch)],
                 processed : SUBSET processed, dead : BOOLEAN]
      /\ st \in Passing(D) /\ Listed(st.watch, st.seen)
  BY DEF Bookings, Passing
<1>2. list \in Seq(Watch) /\ DOMAIN list = 1 .. Len(list) /\ DOMAIN st.seen = D
  BY <1>1
<1>3. d \in Passing(D)
  BY <1>1, DecrementType
<1>4. CASE d.watch = st.watch /\ d.seen = st.seen
  BY <1>1, <1>3, <1>4 DEF Bookings
<1>5. ASSUME ~ (d.watch = st.watch /\ d.seen = st.seen)
      PROVE  /\ i \in DOMAIN list /\ record.confirmations \in Nat \ {0} /\ record.status # "gone"
             /\ record.confirmations > 1 =>
                   d = [st EXCEPT !.watch[w] = [record EXCEPT !.confirmations = @ - 1]]
             /\ record.confirmations = 1 =>
                   d = [st EXCEPT !.watch[w] = [record EXCEPT !.confirmations = 0, !.event = "none"],
                                  !.seen = RemoveSeen(@, w, record)]
  <2>1. ~ (st.dead \/ i > Len(list))
    BY <1>5 DEF Decrement
  <2>2. i \in DOMAIN list /\ w \in Watch
    BY <1>2, <2>1
  <2>3. record.confirmations \in Nat
    BY <1>1, <2>2 DEF WatchRecord
  <2>4. record.status # "gone"
    <3>1. CASE record.status = "gone"
      <4>1. d = [st EXCEPT !.dead = TRUE]
        BY <2>1, <3>1 DEF Decrement
      <4>2. d.watch = st.watch /\ d.seen = st.seen
        BY <1>1, <4>1
      <4> QED
        BY <1>5, <4>2
    <3> QED
      BY <3>1
  <2>5. record.confirmations # 0
    <3>1. CASE record.confirmations = 0
      <4>1. d = st
        BY <2>1, <2>4, <3>1 DEF Decrement
      <4> QED
        BY <1>5, <4>1
    <3> QED
      BY <3>1
  <2> HIDE DEF w, list
  <2>6. record.confirmations > 1 =>
           d = [st EXCEPT !.watch[w] = [record EXCEPT !.confirmations = @ - 1]]
    BY <2>1, <2>4, <2>5, Zenon DEF Decrement, w, list
  <2>7. record.confirmations = 1 =>
           d = [st EXCEPT !.watch[w] = [record EXCEPT !.confirmations = 0, !.event = "none"],
                          !.seen = RemoveSeen(@, w, record)]
    <3>1. record.confirmations = 1 => ~(record.confirmations > 1)
      BY <2>3
    <3> QED
      BY <2>1, <2>4, <2>5, <3>1, Zenon DEF Decrement, w, list
  <2> QED
    BY <2>2, <2>3, <2>4, <2>5, <2>6, <2>7
<1>6. ASSUME ~ (d.watch = st.watch /\ d.seen = st.seen)
      PROVE  /\ w \in Watch /\ i \in 1 .. Len(list) /\ record \in WatchRecord
             /\ record.status = "watching" /\ record.event # "none" /\ record.block = {hash}
             /\ \A j \in 1 .. Len(list) : list[j] = w => j = i
  BY <1>1, <1>2, <1>5, <1>6 DEF Listed
<1>7. CASE ~ (d.watch = st.watch /\ d.seen = st.seen) /\ record.confirmations > 1
  <2> DEFINE r == [record EXCEPT !.confirmations = @ - 1]
  <2>1. r.status = "watching" /\ r.event = record.event /\ r.block = {hash} /\ Lessened(record, r, 1)
    <3> HIDE DEF record
    <3> QED
      BY <1>6, <1>7 DEF WatchRecord, Lessened
  <2>2. d.watch = [st.watch EXCEPT ![w] = r] /\ d.seen = st.seen
    <3>1. d = [st EXCEPT !.watch[w] = r]
      BY <1>5, <1>7, Zenon
    <3> HIDE DEF r
    <3> QED
      BY <1>1, <3>1
  <2> HIDE DEF r
  <2>3. \A v \in Watch : d.watch[v] = IF v = w THEN r ELSE st.watch[v]
    BY <1>1, <2>2
  <2>4. \A v \in Watch : /\ d.watch[v].status = "watching" <=> st.watch[v].status = "watching"
                         /\ d.watch[v].event = st.watch[v].event /\ d.watch[v].block = st.watch[v].block
    BY <1>6, <1>7, <2>1, <2>3
  <2>5. \A h \in D : st.seen[h] \in Seq(Watch)
    BY <1>1
  <2>6. Listed(d.watch, d.seen)
    BY <1>1, <2>2, <2>4, <2>5 DEF Listed
  <2> QED
    BY <1>2, <1>3, <1>6, <1>7, <2>1, <2>2, <2>3, <2>6 DEF Bookings
<1>8. CASE ~ (d.watch = st.watch /\ d.seen = st.seen) /\ record.confirmations = 1
  <2> DEFINE r == [record EXCEPT !.confirmations = 0, !.event = "none"]
             left == RemoveFirst(list, w)
  <2>1. r.status = "watching" /\ Lessened(record, r, 1)
    <3> HIDE DEF record
    <3> QED
      BY <1>6, <1>8 DEF WatchRecord, Lessened
  <2>2. RemoveSeen(st.seen, w, record) = [st.seen EXCEPT ![hash] = left]
    <3>1. (CHOOSE h \in {hash} : TRUE) = hash
      OBVIOUS
    <3>2. (CHOOSE h \in record.block : TRUE) = hash
      BY <1>6, <1>8, <3>1
    <3> HIDE DEF record
    <3> QED
      BY <3>2 DEF RemoveSeen
  <2>3. d.watch = [st.watch EXCEPT ![w] = r] /\ d.seen = [st.seen EXCEPT ![hash] = left]
    <3>1. d = [st EXCEPT !.watch[w] = r, !.seen = RemoveSeen(@, w, record)]
      BY <1>5, <1>8, Zenon
    <3> HIDE DEF r, left
    <3> QED
      BY <1>1, <2>2, <3>1
  <2>4. /\ left \in Seq(Watch) /\ Len(left) = Len(list) - 1
        /\ \A y \in 1 .. Len(list) - 1 : left[y] = IF y < i THEN list[y] ELSE list[y + 1]
    BY <1>2, <1>6, <1>8, RemoveFirstAt
  <2> HIDE DEF r, left
  <2>5. \A v \in Watch : d.watch[v] = IF v = w THEN r ELSE st.watch[v]
    BY <1>1, <2>3
  <2>6. \A h \in D : d.seen[h] = IF h = hash THEN left ELSE st.seen[h]
    BY <1>1, <2>3
  <2>7. \A y \in DOMAIN left : \E z \in DOMAIN list :
           /\ left[y] = list[z] /\ z # i /\ (y >= i => z > i)
           /\ z = IF y < i THEN y ELSE y + 1
    BY <1>2, <1>6, <1>8, <2>4
  <2>8. ASSUME NEW h \in DOMAIN d.seen, NEW y \in DOMAIN d.seen[h]
        PROVE  /\ d.watch[d.seen[h][y]].status = "watching" /\ d.watch[d.seen[h][y]].event # "none"
               /\ d.watch[d.seen[h][y]].block = {h}
               /\ \A j \in DOMAIN d.seen[h] : d.seen[h][y] = d.seen[h][j] => y = j
    <3>1. h \in D
      BY <1>1, <2>3
    <3>2. CASE h = hash
      <4>1. d.seen[h] = left
        BY <2>6, <3>1, <3>2
      <4>2. PICK z \in DOMAIN list : left[y] = list[z] /\ z # i /\ z = IF y < i THEN y ELSE y + 1
        BY <2>7, <2>8, <4>1
      <4>3. left[y] \in Watch /\ left[y] # w
        BY <1>2, <1>6, <1>8, <4>2
      <4>4. /\ st.watch[left[y]].status = "watching" /\ st.watch[left[y]].event # "none"
            /\ st.watch[left[y]].block = {h}
            /\ \A j \in DOMAIN list : list[z] = list[j] => z = j
        BY <1>1, <1>2, <3>2, <4>2 DEF Listed
      <4>5. \A j \in DOMAIN left : left[y] = left[j] => y = j
        <5> SUFFICES ASSUME NEW j \in DOMAIN left, left[y] = left[j] PROVE y = j
          OBVIOUS
        <5>1. PICK k \in DOMAIN list : left[j] = list[k] /\ k = IF j < i THEN j ELSE j + 1
          BY <2>7
        <5>2. z = k
          BY <4>2, <4>4, <5>1
        <5>3. y \in Nat /\ j \in Nat
          BY <2>4, <2>8, <4>1
        <5> QED
          BY <4>2, <5>1, <5>2, <5>3, <1>6, <1>8
      <4> QED
        BY <2>5, <4>1, <4>3, <4>4, <4>5
    <3>3. CASE h # hash
      <4>1. d.seen[h] = st.seen[h]
        BY <2>6, <3>1, <3>3
      <4>2. /\ st.watch[d.seen[h][y]].status = "watching" /\ st.watch[d.seen[h][y]].event # "none"
            /\ st.watch[d.seen[h][y]].block = {h}
            /\ \A j \in DOMAIN d.seen[h] : d.seen[h][y] = d.seen[h][j] => y = j
        BY <1>1, <1>2, <2>8, <3>1, <4>1 DEF Listed
      <4>3. d.seen[h][y] \in Watch
        BY <1>1, <2>8, <3>1, <4>1
      <4>4. d.seen[h][y] # w
        BY <1>6, <1>8, <3>3, <4>2
      <4> QED
        BY <2>5, <4>2, <4>3, <4>4
    <3> QED
      BY <3>2, <3>3
  <2>9. Listed(d.watch, d.seen)
    BY <2>8 DEF Listed
  <2>10. \A y \in DOMAIN d.seen[hash] : y > i =>
           \E z \in DOMAIN st.seen[hash] : z > i /\ d.seen[hash][y] = st.seen[hash][z]
    <3>1. d.seen[hash] = left
      BY <2>6
    <3>2. \A y \in DOMAIN left : y \in Nat
      BY <2>4
    <3> QED
      BY <2>7, <3>1, <3>2
  <2> QED
    BY <1>2, <1>3, <1>6, <1>8, <2>1, <2>5, <2>9, <2>10 DEF Bookings
<1> QED
  BY <1>4, <1>5, <1>7, <1>8

LEMMA LessenedMore ==
    ASSUME NEW a \in WatchRecord, NEW b \in WatchRecord, NEW k \in Nat, NEW m \in Nat, k <= m,
           Lessened(a, b, k)
    PROVE  Lessened(a, b, m)
<1>1. a.confirmations \in Nat /\ b.confirmations \in Nat
  BY DEF WatchRecord
<1> QED
  BY <1>1 DEF Lessened

LEMMA BookingsWatch ==
    ASSUME NEW D, NEW st \in Bookings(D), NEW w \in Watch
    PROVE  st.watch[w] \in WatchRecord
BY DEF Bookings, Passing

TakenIn(hash, old, new) == old.block = {hash} /\ Lessened(old, new, 1)

LEMMA DecrementListLessens ==
    ASSUME NEW D, NEW st \in Bookings(D), NEW hash \in D, seen[hash] \in Seq(Watch),
           NEW d, d = DecrementList(st, hash)
    PROVE  /\ d \in Bookings(D)
           /\ \A w \in Watch : \/ d.watch[w] = st.watch[w]
                               \/ TakenIn(hash, st.watch[w], d.watch[w])
<1> DEFINE n == Len(seen[hash])
           Passed(s, w, x) ==
             /\ st.watch[w].block = {hash} /\ Lessened(st.watch[w], s.watch[w], 1)
             /\ \A y \in DOMAIN s.seen[hash] : y > x => s.seen[hash][y] # w
<1>1. n \in Nat /\ st \in Passing(D)
  BY DEF Bookings
<1>2. PICK tr \in [0 .. n -> Passing(D)] :
         /\ tr[0] = st /\ tr[n] = d /\ \A x \in 1 .. n : tr[x] = Decrement(tr[x - 1], hash, x)
  BY <1>1, DecrementListSteps
<1> DEFINE T == {x \in 0 .. n : /\ tr[x] \in Bookings(D)
                               /\ \A w \in Watch : tr[x].watch[w] = st.watch[w] \/ Passed(tr[x], w, x)}
<1> HIDE DEF n, Passed
<1>3. 0 \in T
  BY <1>1, <1>2
<1>4. ASSUME NEW x \in 1 .. n, x - 1 \in T PROVE x \in T
  <2> DEFINE a == tr[x - 1]
             b == tr[x]
  <2>1. /\ a \in Bookings(D) /\ x \in Nat \ {0}
        /\ \A w \in Watch : a.watch[w] = st.watch[w] \/ Passed(a, w, x - 1)
        /\ b = Decrement(a, hash, x)
    BY <1>1, <1>2, <1>4
  <2> HIDE DEF a, b
  <2>2. /\ b \in Bookings(D)
        /\ \A w \in Watch : \/ b.watch[w] = a.watch[w]
                            \/ /\ x <= Len(a.seen[hash]) /\ w = a.seen[hash][x]
                               /\ a.watch[w].block = {hash} /\ Lessened(a.watch[w], b.watch[w], 1)
        /\ \A y \in DOMAIN b.seen[hash] : y > x =>
              \E z \in DOMAIN a.seen[hash] : z > x /\ b.seen[hash][y] = a.seen[hash][z]
    BY <2>1, DecrementLessens
  <2>3. /\ a.seen[hash] \in Seq(Watch) /\ DOMAIN a.seen[hash] = 1 .. Len(a.seen[hash])
        /\ a.seen \in [D -> Seq(Watch)] /\ Listed(a.watch, a.seen)
    BY <2>1 DEF Bookings, Passing
  <2>4. ASSUME NEW w \in Watch, Passed(a, w, x - 1), b.watch[w] = a.watch[w]
        PROVE  Passed(b, w, x)
    <3>1. ASSUME NEW y \in DOMAIN b.seen[hash], y > x PROVE b.seen[hash][y] # w
      <4>1. PICK z \in DOMAIN a.seen[hash] : z > x /\ b.seen[hash][y] = a.seen[hash][z]
        BY <2>2, <3>1
      <4>2. z > x - 1
        BY <2>3, <4>1
      <4> QED
        BY <2>4, <4>1, <4>2 DEF Passed
    <3> QED
      BY <2>4, <3>1 DEF Passed
  <2>5. ASSUME NEW w \in Watch, b.watch[w] # a.watch[w]
        PROVE  Passed(b, w, x)
    <3>1. /\ x \in DOMAIN a.seen[hash] /\ w = a.seen[hash][x]
          /\ a.watch[w].block = {hash} /\ Lessened(a.watch[w], b.watch[w], 1)
      BY <2>1, <2>2, <2>3, <2>5
    <3>2. a.watch[w] = st.watch[w]
      <4>1. x > x - 1
        OBVIOUS
      <4> QED
        BY <2>1, <3>1, <4>1 DEF Passed
    <3>3. \A z \in DOMAIN a.seen[hash] : a.seen[hash][z] = w => z = x
      BY <2>3, <3>1 DEF Listed
    <3>4. \A y \in DOMAIN b.seen[hash] : y > x => b.seen[hash][y] # w
      <4> SUFFICES ASSUME NEW y \in DOMAIN b.seen[hash], y > x PROVE b.seen[hash][y] # w
        OBVIOUS
      <4>1. PICK z \in DOMAIN a.seen[hash] : z > x /\ b.seen[hash][y] = a.seen[hash][z]
        BY <2>2
      <4> QED
        BY <3>3, <4>1
    <3> QED
      BY <3>1, <3>2, <3>4 DEF Passed
  <2>6. \A w \in Watch : b.watch[w] = st.watch[w] \/ Passed(b, w, x)
    BY <2>1, <2>4, <2>5
  <2> QED
    BY <2>2, <2>6 DEF b
<1> HIDE DEF T
<1>5. 0 .. n \subseteq T
  BY <1>1, <1>3, <1>4, StepInduction
<1>6. n \in T
  BY <1>1, <1>5
<1> QED
  BY <1>2, <1>6 DEF T, Passed, TakenIn

LEMMA OnePassLessens ==
    ASSUME NEW D, NEW st \in Bookings(D), NEW hashes \in Seq(D), \A h \in D : seen[h] \in Seq(Watch),
           \A i, j \in DOMAIN hashes : hashes[i] = hashes[j] => i = j,
           NEW d, d = OnePass(st, hashes)
    PROVE  /\ d \in Bookings(D)
           /\ \A w \in Watch : Lessened(st.watch[w], d.watch[w], 1)
<1> DEFINE n == Len(hashes)
           Passed(s, w, x) ==
             /\ Lessened(st.watch[w], s.watch[w], 1)
             /\ \E m \in 1 .. x : s.watch[w].block = {hashes[m]}
<1>1. n \in Nat /\ st \in Passing(D) /\ DOMAIN hashes = 1 .. n
  BY DEF Bookings
<1>2. PICK tr \in [0 .. n -> Passing(D)] :
         /\ tr[0] = st /\ tr[n] = d
         /\ \A x \in 1 .. n : tr[x] = PassStep(st, tr[x - 1], hashes[x])
  <2> HIDE DEF Passed
  <2> QED
    BY <1>1, OnePassSteps
<1> DEFINE T == {x \in 0 .. n : /\ tr[x] \in Bookings(D)
                               /\ \A w \in Watch : tr[x].watch[w] = st.watch[w] \/ Passed(tr[x], w, x)}
<1>3. 0 \in T
  BY <1>1, <1>2
<1>4. ASSUME NEW x \in 1 .. n, x - 1 \in T PROVE x \in T
  <2> DEFINE a == tr[x - 1]
             b == tr[x]
             hash == hashes[x]
  <2>0. hash \in D /\ seen[hash] \in Seq(Watch)
    BY <1>1
  <2>1. /\ a \in Bookings(D)
        /\ \A w \in Watch : a.watch[w] = st.watch[w] \/ Passed(a, w, x - 1)
    BY <1>4, Zenon
  <2>2. \/ b = a \/ b = [a EXCEPT !.dead = TRUE]
        \/ b = DecrementList(a, hash)
    BY <1>2 DEF PassStep
  <2> HIDE DEF a, b, hash
  <2>3. /\ b \in Bookings(D)
        /\ \A w \in Watch : \/ b.watch[w] = a.watch[w]
                            \/ TakenIn(hash, a.watch[w], b.watch[w])
    <3>1. CASE b = a
      BY <2>1, <3>1
    <3>2. CASE b = [a EXCEPT !.dead = TRUE]
      BY <2>1, <3>2 DEF Bookings, Passing
    <3>3. CASE b = DecrementList(a, hash)
      <4> HIDE DEF Passed
      <4> QED
        BY <2>0, <2>1, <3>3, DecrementListLessens
    <3> QED
      BY <2>2, <3>1, <3>2, <3>3
  <2>4. ASSUME NEW w \in Watch, b.watch[w] = a.watch[w]
        PROVE  b.watch[w] = st.watch[w] \/ Passed(b, w, x)
    <3>1. \A m \in 1 .. x - 1 : m \in 1 .. x
      OBVIOUS
    <3> QED
      BY <2>1, <2>4, <3>1
  <2>5. ASSUME NEW w \in Watch, b.watch[w] # a.watch[w]
        PROVE  Passed(b, w, x)
    <3>1. a.watch[w].block = {hash} /\ Lessened(a.watch[w], b.watch[w], 1)
      BY <2>3, <2>5 DEF TakenIn
    <3>2. a.watch[w] = st.watch[w]
      <4> SUFFICES ASSUME Passed(a, w, x - 1) PROVE FALSE
        BY <2>1
      <4>1. PICK m \in 1 .. x - 1 : a.watch[w].block = {hashes[m]}
        OBVIOUS
      <4>2. m \in DOMAIN hashes /\ x \in DOMAIN hashes /\ m # x
        BY <1>1
      <4>3. hashes[m] = hashes[x]
        BY <3>1, <4>1 DEF hash
      <4> QED
        BY <4>2, <4>3
    <3>3. b.watch[w].block = {hash} /\ x \in 1 .. x
      BY <3>1 DEF Lessened
    <3> QED
      BY <3>1, <3>2, <3>3 DEF hash
  <2> HIDE DEF Passed
  <2>6. \A w \in Watch : b.watch[w] = st.watch[w] \/ Passed(b, w, x)
    BY <2>4, <2>5
  <2> QED
    BY <2>3, <2>6 DEF b
<1> HIDE DEF T
<1>5. 0 .. n \subseteq T
  BY <1>1, <1>3, <1>4, StepInduction
<1>6. n \in T
  BY <1>1, <1>5
<1> QED
  BY <1>2, <1>6 DEF T, Lessened

LEMMA OrphansLessen ==
    ASSUME NEW D, NEW st, st = Untouched,
           st \in Bookings(D), NEW hashes \in Seq(D),
           \A i, j \in DOMAIN hashes : hashes[i] = hashes[j] => i = j,
           NEW orphans \in Seq(Hash), NEW d, d = Orphans(orphans, hashes)
    PROVE  /\ d \in Bookings(D)
           /\ \A w \in Watch : Lessened(watch[w], d.watch[w], Len(orphans))
<1> DEFINE n == Len(orphans)
<1>1. n \in Nat /\ st \in Passing(D) /\ st.watch = watch /\ \A h \in D : seen[h] \in Seq(Watch)
  BY DEF Bookings, Passing, Untouched
<1>2. PICK tr \in [0 .. n -> Passing(D)] :
         /\ tr[0] = st /\ tr[n] = d
         /\ \A x \in 1 .. n : tr[x] = OrphanStep(tr[x - 1], orphans[x], hashes)
  <2> HIDE DEF n
  <2>1. Untouched \in Passing(D)
    BY <1>1
  <2> QED
    BY <2>1, OrphansSteps DEF n
<1> DEFINE T == {x \in 0 .. n : /\ tr[x] \in Bookings(D)
                               /\ \A w \in Watch : Lessened(watch[w], tr[x].watch[w], x)}
<1>3. 0 \in T
  <2>1. \A w \in Watch : Lessened(watch[w], watch[w], 0)
    BY DEF Lessened
  <2>2. tr[0] \in Bookings(D) /\ tr[0].watch = watch
    BY <1>1, <1>2
  <2> QED
    BY <1>1, <2>1, <2>2
<1>4. ASSUME NEW x \in 1 .. n, x - 1 \in T PROVE x \in T
  <2> DEFINE a == tr[x - 1]
             b == tr[x]
             done == OnePass(a, hashes)
  <2>1. a \in Bookings(D) /\ \A w \in Watch : Lessened(watch[w], a.watch[w], x - 1)
    BY <1>4
  <2>2. done \in Bookings(D) /\ \A w \in Watch : Lessened(a.watch[w], done.watch[w], 1)
    BY <1>1, <2>1, OnePassLessens
  <2>3. b = a \/ b = done \/ b = [done EXCEPT !.processed = @ \ {orphans[x]}]
    BY <1>2 DEF OrphanStep
  <2> HIDE DEF a, b, done
  <2>4. b \in Bookings(D) /\ (b.watch = a.watch \/ b.watch = done.watch)
    <3>1. CASE b = a \/ b = done
      BY <2>1, <2>2, <3>1
    <3>2. CASE b = [done EXCEPT !.processed = @ \ {orphans[x]}]
      BY <2>2, <3>2 DEF Bookings, Passing
    <3> QED
      BY <2>3, <3>1, <3>2
  <2>5. \A w \in Watch : Lessened(watch[w], b.watch[w], x)
    <3> SUFFICES ASSUME NEW w \in Watch PROVE Lessened(watch[w], b.watch[w], x)
      OBVIOUS
    <3>1. /\ watch[w] \in WatchRecord /\ a.watch[w] \in WatchRecord /\ done.watch[w] \in WatchRecord
          /\ x - 1 \in Nat /\ x \in Nat /\ 1 \in Nat /\ x - 1 <= x /\ (x - 1) + 1 = x
      BY <1>1, <2>1, <2>2, BookingsWatch
    <3>2. Lessened(watch[w], a.watch[w], x)
      BY <2>1, <3>1, LessenedMore
    <3>3. Lessened(watch[w], done.watch[w], (x - 1) + 1)
      BY <2>1, <2>2, <3>1, LessenedTwice
    <3> QED
      BY <2>4, <3>1, <3>2, <3>3
  <2> QED
    BY <2>4, <2>5 DEF b
<1> HIDE DEF T
<1>5. 0 .. n \subseteq T
  BY <1>1, <1>3, <1>4, StepInduction
<1>6. n \in T
  BY <1>1, <1>5
<1> QED
  BY <1>2, <1>6 DEF T

-----------------------------------------------------------------------------
(***************************************************************************)
(* What the lists and the records of `watching` look like when nobody else *)
(* spends the inputs of a watched transaction.  A watch that was stuck by  *)
(* its callback was added after its transaction was mined.                 *)
(***************************************************************************)
Settings(ws) == \A w \in Watch :
    /\ ws[w].status = "stuck" => ws[w].event # "none" /\ w \in late
    /\ ws[w].status = "watching" /\ ws[w].event # "none" => ws[w].tx = {Watched(w)}
    /\ ws[w].status = "new" => ws[w].event = "none"

Absent(lists, w) == \A h \in DOMAIN lists : \A i \in DOMAIN lists[h] : lists[h][i] # w

Enlisted(D, ws, lists, l, hash, w) ==
    /\ lists \in [D -> Seq(Watch)] /\ Listed(ws, lists) /\ hash \in D /\ w \in Watch
    /\ ws[w].status = "watching" /\ ws[w].event # "none" /\ ws[w].block = {hash}
    /\ Absent(lists, w)
    /\ l = [lists EXCEPT ![hash] = Append(@, w)]

LEMMA AppendListed ==
    ASSUME NEW D, NEW ws, NEW lists, NEW l, NEW hash, NEW w, Enlisted(D, ws, lists, l, hash, w)
    PROVE  Listed(ws, l) /\ \A v : v # w /\ Absent(lists, v) => Absent(l, v)
<1>0. /\ lists \in [D -> Seq(Watch)] /\ Listed(ws, lists) /\ hash \in D /\ w \in Watch
      /\ ws[w].status = "watching" /\ ws[w].event # "none" /\ ws[w].block = {hash}
      /\ Absent(lists, w) /\ l = [lists EXCEPT ![hash] = Append(@, w)]
  BY DEF Enlisted
<1> DEFINE list == lists[hash]
<1>1. /\ list \in Seq(Watch) /\ Len(list) \in Nat /\ DOMAIN list = 1 .. Len(list)
      /\ DOMAIN l = D /\ l[hash] = Append(list, w) /\ \A h \in D : h # hash => l[h] = lists[h]
  BY <1>0
<1>2. /\ DOMAIN l[hash] = 1 .. Len(list) + 1 /\ l[hash][Len(list) + 1] = w
      /\ \A i \in 1 .. Len(list) : l[hash][i] = list[i]
  BY <1>1
<1> HIDE DEF list
<1>3. \A i \in 1 .. Len(list) : list[i] # w
  BY <1>0, <1>1 DEF Absent, list
<1>4. ASSUME NEW h \in D, NEW i \in DOMAIN l[h]
      PROVE  /\ ws[l[h][i]].status = "watching" /\ ws[l[h][i]].event # "none" /\ ws[l[h][i]].block = {h}
             /\ \A j \in DOMAIN l[h] : l[h][i] = l[h][j] => i = j
  <2>1. CASE h # hash
    BY <1>0, <1>1, <1>4, <2>1 DEF Listed
  <2>2. CASE h = hash /\ i \in 1 .. Len(list)
    <3>1. \A j \in 1 .. Len(list) : list[i] = list[j] => i = j
      BY <1>0, <1>1, <2>2 DEF Listed, list
    <3>2. ws[list[i]].status = "watching" /\ ws[list[i]].event # "none" /\ ws[list[i]].block = {hash}
      BY <1>0, <1>1, <2>2 DEF Listed, list
    <3>3. \A j \in DOMAIN l[hash] : j \in 1 .. Len(list) \/ j = Len(list) + 1
      BY <1>1, <1>2
    <3> QED
      BY <1>2, <1>3, <2>2, <3>1, <3>2, <3>3
  <2>3. CASE h = hash /\ i = Len(list) + 1
    <3>1. \A j \in DOMAIN l[hash] : j \in 1 .. Len(list) \/ j = Len(list) + 1
      BY <1>1, <1>2
    <3> QED
      BY <1>0, <1>2, <1>3, <2>3, <3>1
  <2>4. h = hash => i \in 1 .. Len(list) \/ i = Len(list) + 1
    BY <1>1, <1>2
  <2> QED
    BY <2>1, <2>2, <2>3, <2>4
<1>5. ASSUME NEW v, v # w, Absent(lists, v), NEW h \in D, NEW i \in DOMAIN l[h] PROVE l[h][i] # v
  <2>1. h = hash => i \in 1 .. Len(list) \/ i = Len(list) + 1
    BY <1>1, <1>2
  <2> QED
    BY <1>0, <1>1, <1>2, <1>5, <2>1 DEF Absent, list
<1> QED
  BY <1>1, <1>4, <1>5 DEF Listed, Absent

LEMMA RemoveSeenListed ==
    ASSUME NEW D, NEW ws, NEW lists \in [D -> Seq(Watch)], Listed(ws, lists), NEW w,
           NEW l, l = RemoveSeen(lists, w, ws[w])
    PROVE  Listed(ws, l) /\ Absent(l, w) /\ \A v : Absent(lists, v) => Absent(l, v)
<1> DEFINE at == CHOOSE hash \in ws[w].block : TRUE
<1>1. l = [lists EXCEPT ![at] = RemoveFirst(@, w)]
  BY DEF RemoveSeen
<1>2. CASE Absent(lists, w)
  <2>1. at \in D => RemoveFirst(lists[at], w) = lists[at]
    <3> SUFFICES ASSUME at \in D PROVE RemoveFirst(lists[at], w) = lists[at]
      OBVIOUS
    <3> HIDE DEF at
    <3>1. lists[at] \in Seq(Watch) /\ DOMAIN lists[at] = 1 .. Len(lists[at])
      OBVIOUS
    <3>2. \A i \in DOMAIN lists[at] : lists[at][i] # w
      BY <1>2 DEF Absent
    <3> QED
      BY <3>1, <3>2, RemoveFirstNone
  <2> HIDE DEF at
  <2>2. l = lists
    BY <1>1, <2>1
  <2> QED
    BY <1>2, <2>2
<1>3. CASE ~Absent(lists, w)
  <2>1. PICK h \in D : \E i \in DOMAIN lists[h] : lists[h][i] = w
    BY <1>3 DEF Absent
  <2>2. PICK x \in DOMAIN lists[h] : lists[h][x] = w
    BY <2>1
  <2> DEFINE list == lists[h]
             rest == RemoveFirst(list, w)
  <2>3. /\ ws[w].block = {h} /\ \A j \in DOMAIN list : list[j] = w => j = x
        /\ \A k \in D : k # h => \A i \in DOMAIN lists[k] : lists[k][i] # w
    <3>1. ws[w].block = {h} /\ \A j \in DOMAIN list : list[j] = w => j = x
      BY <2>1, <2>2 DEF Listed
    <3>2. ASSUME NEW k \in D, NEW i \in DOMAIN lists[k], lists[k][i] = w PROVE ws[w].block = {k}
      BY <3>2 DEF Listed
    <3> QED
      BY <3>1, <3>2
  <2>4. at = h
    BY <2>3
  <2>5. list \in Seq(Watch) /\ Len(list) \in Nat /\ DOMAIN list = 1 .. Len(list) /\ x \in 1 .. Len(list)
        /\ list[x] = w
    BY <2>2
  <2> HIDE DEF list, at
  <2>6. /\ rest \in Seq(Watch) /\ Len(rest) = Len(list) - 1
        /\ \A y \in 1 .. Len(list) - 1 : rest[y] = IF y < x THEN list[y] ELSE list[y + 1]
    BY <2>3, <2>5, RemoveFirstAt
  <2> HIDE DEF rest
  <2>7. DOMAIN l = D /\ l[h] = rest /\ \A k \in D : k # h => l[k] = lists[k]
    BY <1>1, <2>4 DEF rest, list
  <2>8. DOMAIN rest = 1 .. Len(list) - 1
    BY <2>5, <2>6
  <2> DEFINE from(y) == IF y < x THEN y ELSE y + 1
  <2>9. ASSUME NEW y \in DOMAIN rest
        PROVE  from(y) \in DOMAIN list /\ from(y) # x /\ rest[y] = list[from(y)]
    BY <2>5, <2>6, <2>8
  <2>10. \A y, z \in DOMAIN rest : from(y) = from(z) => y = z
    BY <2>5, <2>8
  <2> HIDE DEF from
  <2>11. ASSUME NEW y \in DOMAIN rest
         PROVE  /\ ws[rest[y]].status = "watching" /\ ws[rest[y]].event # "none"
                /\ ws[rest[y]].block = {h} /\ rest[y] # w
                /\ \A z \in DOMAIN rest : rest[y] = rest[z] => y = z
    <3>1. /\ ws[list[from(y)]].status = "watching" /\ ws[list[from(y)]].event # "none"
          /\ ws[list[from(y)]].block = {h}
          /\ \A j \in DOMAIN list : list[from(y)] = list[j] => from(y) = j
      BY <2>9 DEF Listed, list
    <3> QED
      BY <2>3, <2>9, <2>10, <3>1
  <2>12. Listed(ws, l)
    BY <2>7, <2>11 DEF Listed
  <2>13. Absent(l, w)
    BY <2>3, <2>7, <2>11 DEF Absent
  <2>14. \A v : Absent(lists, v) => Absent(l, v)
    BY <2>7, <2>9 DEF Absent, list
  <2> QED
    BY <2>12, <2>13, <2>14
<1> QED
  BY <1>2, <1>3

(***************************************************************************)
(* The watches that a count finds in a block are in no list before.        *)
(***************************************************************************)
Newly(w, hash) == Counted(w, hash).event # watch[w].event

FoundIn(hash, r) == r.event # "none" /\ r.block = {hash}

LEMMA CountedSettings ==
    ASSUME Forms = {"confirm"}, watch \in [Watch -> WatchRecord], NEW hash \in Hash,
           Settings(watch), NEW order \in Seq(Watch), ToSet(order) \subseteq Watching,
           NEW ws, ws = CountAll(order, hash).watch
    PROVE  /\ Settings(ws)
           /\ \A w \in Watch :
                 /\ ws[w].status = watch[w].status
                 /\ watch[w].event # "none" =>
                       ws[w].event = watch[w].event /\ ws[w].block = watch[w].block
                 /\ w \in ToSet(order) => ws[w] = Counted(w, hash)
                 /\ w \notin ToSet(order) => ws[w] = watch[w]
                 /\ w \in ToSet(order) /\ Newly(w, hash) =>
                       FoundIn(hash, ws[w]) /\ watch[w].event = "none"
<1>1. \A w \in Watch : ws[w] = IF w \in ToSet(order) THEN Counted(w, hash) ELSE watch[w]
  BY DEF CountAll
<1>2. ASSUME NEW w \in Watch
      PROVE  /\ ws[w].status = watch[w].status
             /\ watch[w].event # "none" => ws[w].event = watch[w].event /\ ws[w].block = watch[w].block
             /\ w \in ToSet(order) => ws[w] = Counted(w, hash)
             /\ w \notin ToSet(order) => ws[w] = watch[w]
             /\ w \in ToSet(order) /\ Newly(w, hash) =>
                   ws[w].event # "none" /\ ws[w].block = {hash} /\ watch[w].event = "none"
             /\ \/ ws[w].tx = watch[w].tx /\ ws[w].event = watch[w].event
                \/ ws[w].tx = {Watched(w)} /\ ws[w].event # "none" /\ w \in ToSet(order)
  <2> DEFINE c == Counted(w, hash)
             r == watch[w]
  <2>1. /\ c.status = r.status
        /\ r.event # "none" => c.event = r.event /\ c.tx = r.tx /\ c.block = r.block
        /\ r.event = "none" /\ Watched(w) \notin ToSet(Txs(hash)) => c = r
        /\ r.event = "none" /\ Watched(w) \in ToSet(Txs(hash)) =>
              c.event = "confirm" /\ c.tx = {Watched(w)} /\ c.block = {hash}
    BY CountedFacts
  <2>2. ws[w] = IF w \in ToSet(order) THEN c ELSE r
    BY <1>1
  <2>3. Newly(w, hash) <=> c.event # r.event
    BY DEF Newly
  <2> HIDE DEF c, r
  <2>4. CASE w \notin ToSet(order)
    BY <2>2, <2>4 DEF r
  <2>5. CASE w \in ToSet(order) /\ r.event # "none"
    BY <2>1, <2>2, <2>3, <2>5 DEF c, r
  <2>6. CASE w \in ToSet(order) /\ r.event = "none" /\ Watched(w) \notin ToSet(Txs(hash))
    <3>1. ws[w] = c /\ c = r /\ ~Newly(w, hash)
      BY <2>1, <2>2, <2>3, <2>6
    <3> QED
      BY <2>6, <3>1 DEF c, r
  <2>7. CASE w \in ToSet(order) /\ r.event = "none" /\ Watched(w) \in ToSet(Txs(hash))
    BY <2>1, <2>2, <2>3, <2>7 DEF c, r
  <2> QED
    BY <2>4, <2>5, <2>6, <2>7
<1>3. ASSUME NEW w \in Watch
      PROVE  /\ ws[w].status = "stuck" => ws[w].event # "none" /\ w \in late
             /\ ws[w].status = "watching" /\ ws[w].event # "none" => ws[w].tx = {Watched(w)}
             /\ ws[w].status = "new" => ws[w].event = "none"
  <2>1. /\ watch[w].status = "stuck" => watch[w].event # "none" /\ w \in late
        /\ watch[w].status = "watching" /\ watch[w].event # "none" => watch[w].tx = {Watched(w)}
        /\ watch[w].status = "new" => watch[w].event = "none" /\ w \notin ToSet(order)
    <3>1. watch[w].status = "new" => w \notin Watching
      BY DEF Watching
    <3> QED
      BY <3>1 DEF Settings
  <2>2. /\ ws[w].status = watch[w].status
        /\ watch[w].event # "none" => ws[w].event = watch[w].event
        /\ w \notin ToSet(order) => ws[w] = watch[w]
        /\ \/ ws[w].tx = watch[w].tx /\ ws[w].event = watch[w].event
           \/ ws[w].tx = {Watched(w)} /\ ws[w].event # "none" /\ w \in ToSet(order)
    BY <1>2
  <2> QED
    BY <2>1, <2>2
<1> QED
  BY <1>2, <1>3 DEF Settings, FoundIn

LEMMA CountAllListed ==
    ASSUME Forms = {"confirm"}, watch \in [Watch -> WatchRecord], NEW hash \in Hash,
           seen \in [DOMAIN seen -> Seq(Watch)], Listed(watch, seen), Settings(watch),
           NEW order \in Seq(Watch), ToSet(order) \subseteq Watching,
           \A i, j \in DOMAIN order : order[i] = order[j] => i = j,
           NEW counted, counted = CountAll(order, hash)
    PROVE  Listed(counted.watch, counted.seen)
<1> DEFINE ws == counted.watch
           D == DOMAIN seen \cup {hash}
           n == Len(order)
<1>1. n \in Nat /\ DOMAIN order = 1 .. n /\ \A x \in 1 .. n : order[x] \in Watch /\ order[x] \in ToSet(order)
  BY DEF ToSet
<1>2. \A w \in Watch :
         /\ ws[w].status = watch[w].status
         /\ watch[w].event # "none" => ws[w].event = watch[w].event /\ ws[w].block = watch[w].block
         /\ w \in ToSet(order) /\ Newly(w, hash) =>
               ws[w].event # "none" /\ ws[w].block = {hash} /\ watch[w].event = "none"
  <2>1. ws = CountAll(order, hash).watch
    OBVIOUS
  <2> HIDE DEF ws
  <2>2. \A w \in Watch : ws[w].status = watch[w].status
    BY <2>1, CountedSettings
  <2>3. \A w \in Watch : watch[w].event # "none" =>
           ws[w].event = watch[w].event /\ ws[w].block = watch[w].block
    BY <2>1, CountedSettings
  <2>4. \A w \in Watch : w \in ToSet(order) /\ Newly(w, hash) =>
           FoundIn(hash, ws[w]) /\ watch[w].event = "none"
    BY <2>1, CountedSettings
  <2> QED
    BY <2>2, <2>3, <2>4 DEF FoundIn
<1>3. PICK tr \in [0 .. n -> [D -> Seq(Watch)]] :
         /\ tr[0] = WithList(hash) /\ tr[n] = counted.seen
         /\ \A x \in 1 .. n : tr[x] = FoundStep(tr[x - 1], order[x], hash)
  <2> HIDE DEF ws
  <2> QED
    BY CountAllSteps
<1> HIDE DEF ws, D, n
<1> DEFINE T == {x \in 0 .. n :
                   /\ Listed(ws, tr[x])
                   /\ \A m \in x + 1 .. n : Newly(order[m], hash) => Absent(tr[x], order[m])}
<1>4. 0 \in T
  <2>1. /\ DOMAIN tr[0] = D /\ \A h \in DOMAIN seen : tr[0][h] = seen[h]
        /\ \A h \in D : h \notin DOMAIN seen => tr[0][h] = <<>>
    BY <1>3 DEF WithList, D
  <2>2. ASSUME NEW h \in D, NEW i \in DOMAIN tr[0][h]
        PROVE  /\ ws[tr[0][h][i]].status = "watching" /\ ws[tr[0][h][i]].event # "none"
               /\ ws[tr[0][h][i]].block = {h} /\ watch[tr[0][h][i]].event # "none"
               /\ \A j \in DOMAIN tr[0][h] : tr[0][h][i] = tr[0][h][j] => i = j
    <3>1. h \in DOMAIN seen /\ tr[0][h] = seen[h]
      BY <2>1, <2>2
    <3>2. i \in DOMAIN seen[h] /\ seen[h][i] \in Watch
      BY <2>2, <3>1
    <3>3. /\ watch[seen[h][i]].status = "watching" /\ watch[seen[h][i]].event # "none"
          /\ watch[seen[h][i]].block = {h}
          /\ \A j \in DOMAIN seen[h] : seen[h][i] = seen[h][j] => i = j
      BY <3>1, <3>2 DEF Listed
    <3> QED
      BY <1>2, <3>1, <3>2, <3>3
  <2>3. Listed(ws, tr[0])
    BY <2>1, <2>2 DEF Listed
  <2>4. ASSUME NEW m \in 0 + 1 .. n, Newly(order[m], hash) PROVE Absent(tr[0], order[m])
    <3>1. watch[order[m]].event = "none"
      BY <1>1, <1>2, <2>4
    <3> QED
      BY <2>1, <2>2, <3>1 DEF Absent
  <2> QED
    BY <1>1, <2>3, <2>4
<1>5. ASSUME NEW x \in 1 .. n, x - 1 \in T PROVE x \in T
  <2> DEFINE a == tr[x - 1]
             b == tr[x]
             w == order[x]
  <2>1. /\ a \in [D -> Seq(Watch)] /\ b = FoundStep(a, w, hash) /\ w \in Watch /\ w \in ToSet(order)
        /\ Listed(ws, a) /\ \A m \in x .. n : Newly(order[m], hash) => Absent(a, order[m])
        /\ x \in x .. n /\ \A m \in x + 1 .. n : m \in x .. n /\ order[m] # w
    <3>1. x - 1 \in 0 .. n /\ (x - 1) + 1 = x /\ x \in x .. n
      BY <1>1
    <3>2. \A m \in x + 1 .. n : m \in x .. n /\ order[m] # w
      BY <1>1
    <3>3. a \in [D -> Seq(Watch)] /\ b = FoundStep(a, w, hash)
      BY <1>3, <3>1
    <3>4. Listed(ws, a) /\ \A m \in x .. n : Newly(order[m], hash) => Absent(a, order[m])
      BY <1>5, <3>1
    <3> QED
      BY <1>1, <3>1, <3>2, <3>3, <3>4
  <2> HIDE DEF a, b, w, T
  <2>2. CASE ~Newly(w, hash)
    <3>1. b = a
      BY <2>1, <2>2 DEF FoundStep, Newly
    <3>2. Listed(ws, b) /\ \A m \in x + 1 .. n : Newly(order[m], hash) => Absent(b, order[m])
      BY <2>1, <3>1
    <3> QED
      BY <1>1, <3>2 DEF T, b
  <2>3. CASE Newly(w, hash)
    <3>1. b = [a EXCEPT ![hash] = Append(@, w)]
      BY <2>1, <2>3 DEF FoundStep, Newly
    <3>2. Absent(a, w)
      BY <2>1, <2>3 DEF w
    <3>3. ws[w].status = "watching" /\ ws[w].event # "none" /\ ws[w].block = {hash}
      <4>1. ws[w].event # "none" /\ ws[w].block = {hash} /\ watch[w].event = "none"
            /\ ws[w].status = watch[w].status
        BY <1>2, <2>1, <2>3
      <4>2. watch[w].status = "watching"
        BY <2>1, <4>1 DEF Watching, Settings
      <4> QED
        BY <4>1, <4>2
    <3>4. Listed(ws, b) /\ \A v : v # w /\ Absent(a, v) => Absent(b, v)
      <4>1. hash \in D
        BY DEF D
      <4>2. a \in [D -> Seq(Watch)] /\ w \in Watch /\ Listed(ws, a)
        BY <2>1
      <4>3. Enlisted(D, ws, a, b, hash, w)
        BY <3>1, <3>2, <3>3, <4>1, <4>2 DEF Enlisted
      <4> QED
        BY <4>3, AppendListed
    <3>5. \A m \in x + 1 .. n : Newly(order[m], hash) => Absent(b, order[m])
      BY <2>1, <3>4
    <3> QED
      BY <1>1, <3>4, <3>5 DEF T, b
  <2> QED
    BY <2>2, <2>3
<1> HIDE DEF T
<1>6. 0 .. n \subseteq T
  BY <1>1, <1>4, <1>5, StepInduction
<1>7. n \in T
  BY <1>1, <1>6
<1> QED
  BY <1>3, <1>7 DEF T, ws

(***************************************************************************)
(* A double spend is one of the transactions that its own watch has just   *)
(* been found by, so the second look puts nothing down.                    *)
(***************************************************************************)
Marks(ws, tx) == \E v \in Watching : ws[v].tx = {tx}

LEMMA OwnTransactions ==
    ASSUME Forms = {"confirm"}, watch \in [Watch -> WatchRecord], Settings(watch),
           NEW hash \in Hash, NEW order, ToSet(order) = Watching, NEW w, NEW tx \in DoubleSpends(w, hash)
    PROVE  Marks(CountAll(order, hash).watch, tx)
<1> DEFINE ws == CountAll(order, hash).watch
<1>1. tx \in ToSet(Txs(hash)) /\ tx[1] \in Inputs
  BY DEF DoubleSpends, ToSet
<1>2. tx \in Watch \X {"confirm"}
  <2>1. Txs(hash) \in Seq(Tx)
    BY TxsType
  <2> QED
    BY <1>1, <2>1 DEF ToSet, Tx
<1>3. PICK v \in Watch : tx = Watched(v)
  BY <1>2 DEF Watched
<1>4. v \in Inputs
  BY <1>1, <1>3 DEF Watched
<1>5. v \in Watching /\ watch[v].status = "watching"
  BY <1>4 DEF Inputs, Watching
<1>6. ws[v] = Counted(v, hash)
  BY <1>5 DEF CountAll
<1>7. ws[v].tx = {tx}
  <2>1. CASE watch[v].event = "none"
    BY <1>1, <1>3, <1>6, <2>1, CountedFacts
  <2>2. CASE watch[v].event # "none"
    <3>1. watch[v].tx = {Watched(v)}
      BY <1>5, <2>2 DEF Settings
    <3>2. Counted(v, hash).tx = watch[v].tx
      BY <2>2, CountedFacts
    <3> QED
      BY <1>3, <1>6, <3>1, <3>2
  <2> QED
    BY <2>1, <2>2
<1> QED
  BY <1>5, <1>7 DEF Marks

LEMMA FlagWatchSame ==
    ASSUME Forms = {"confirm"}, watch \in [Watch -> WatchRecord], NEW hash \in Hash,
           Settings(watch), NEW order \in Seq(Watch), ToSet(order) = Watching,
           NEW D, NEW ws, NEW st \in Marking(D, ws), st.watch = CountAll(order, hash).watch,
           NEW w \in Watch, NEW last \in Watch
    PROVE  FlagWatch(st, w, hash, last) = st
<1> DEFINE n == Len(Txs(hash))
<1>1. n \in Nat
  <2>1. Txs(hash) \in Seq(Tx)
    BY TxsType
  <2> QED
    BY <2>1
<1>2. PICK tr \in [0 .. n -> Marking(D, ws)] :
         /\ tr[0] = st /\ tr[n] = FlagWatch(st, w, hash, last)
         /\ \A x \in 1 .. n : tr[x] = FlagStep(tr[x - 1], w, Txs(hash)[x], hash, last)
  BY FlagWatchSteps
<1> HIDE DEF n
<1> DEFINE T == {x \in 0 .. n : tr[x] = st}
<1>3. 0 \in T
  BY <1>1, <1>2
<1>4. ASSUME NEW x \in 1 .. n, x - 1 \in T PROVE x \in T
  <2> DEFINE tx == Txs(hash)[x]
  <2>1. tr[x] = FlagStep(st, w, tx, hash, last)
    BY <1>2, <1>4
  <2> HIDE DEF tx
  <2>2. tx \in DoubleSpends(w, hash) => Flag(st, w, tx, hash, last) = st
    <3> SUFFICES ASSUME tx \in DoubleSpends(w, hash) PROVE Flag(st, w, tx, hash, last) = st
      OBVIOUS
    <3>1. Marks(st.watch, tx)
      BY OwnTransactions
    <3> QED
      BY <3>1 DEF Flag, Marks
  <2> QED
    BY <2>1, <2>2 DEF FlagStep
<1> HIDE DEF T
<1>5. 0 .. n \subseteq T
  BY <1>1, <1>3, <1>4, StepInduction
<1>6. n \in T
  BY <1>1, <1>5
<1> QED
  BY <1>2, <1>6 DEF T

LEMMA FlagAllSame ==
    ASSUME Forms = {"confirm"}, IInv, NEW hash \in Hash, Settings(watch),
           NEW order \in SetToSeqs(Watching), NEW counted, counted = CountAll(order, hash)
    PROVE  FlagAll(counted, order, hash) = counted
<1> DEFINE D == DOMAIN seen \cup {hash}
           ws == counted.watch
           n == Len(order)
<1>1. /\ watch \in [Watch -> WatchRecord] /\ Sound(watch) /\ DOMAIN seen \subseteq Hash
      /\ seen \in [DOMAIN seen -> Seq(Watch)] /\ IsFiniteSet(Watching)
  <2>1. IsFiniteSet(Watch) /\ Watching \subseteq Watch
    BY MonitorAssumption DEF Watching
  <2> QED
    BY <2>1, FS_Subset DEF IInv, TypeOK
<1>2. order \in Seq(Watch) /\ ToSet(order) = Watching
  BY <1>1, OrdersType, OrderIsAll
<1>3. counted \in Marking(D, ws)
  <2>1. /\ ws \in [Watch -> WatchRecord] /\ Sound(ws)
        /\ counted.seen \in [D -> Seq(Watch)]
    BY <1>1, <1>2, CountAllType
  <2>2. counted = [watch |-> counted.watch, seen |-> counted.seen]
    BY DEF CountAll
  <2>3. counted \in [watch : [Watch -> WatchRecord], seen : [D -> Seq(Watch)]]
    BY <2>1, <2>2
  <2> HIDE DEF ws, D
  <2>4. counted.watch = ws
    BY DEF ws
  <2> QED
    BY <2>1, <2>3, <2>4, InMarking
<1>4. n \in Nat /\ DOMAIN order = 1 .. n /\ \A x \in 1 .. n : order[x] \in Watch
  BY <1>2
<1>5. PICK tr \in [0 .. n -> Marking(D, ws)] :
         /\ tr[0] = counted /\ tr[n] = FlagAll(counted, order, hash)
         /\ \A x \in 1 .. n : tr[x] = FlagWatch(tr[x - 1], order[x], hash, Last(order))
  <2> HIDE DEF D, ws
  <2> QED
    BY <1>2, <1>3, FlagAllSteps
<1> HIDE DEF D, ws, n
<1> DEFINE T == {x \in 0 .. n : tr[x] = counted}
<1>6. 0 \in T
  BY <1>4, <1>5
<1>7. ASSUME NEW x \in 1 .. n, x - 1 \in T PROVE x \in T
  <2>1. tr[x] = FlagWatch(counted, order[x], hash, Last(order))
    BY <1>5, <1>7
  <2>2. Last(order) \in Watch /\ order[x] \in Watch
    BY <1>4 DEF Last, n
  <2>3. FlagWatch(counted, order[x], hash, Last(order)) = counted
    BY <1>1, <1>2, <1>3, <2>2, FlagWatchSame
  <2> QED
    BY <2>1, <2>3
<1> HIDE DEF T
<1>8. 0 .. n \subseteq T
  BY <1>4, <1>6, <1>7, StepInduction
<1>9. n \in T
  BY <1>4, <1>8
<1> QED
  BY <1>5, <1>9 DEF T

(***************************************************************************)
(* The due watches are gone from the lists as well.                        *)
(***************************************************************************)
LEMMA RemoveAllListed ==
    ASSUME NEW D, NEW st, st.seen \in [D -> Seq(Watch)], Listed(st.watch, st.seen),
           NEW order \in Seq(Watch), NEW due, due \subseteq ToSet(order),
           NEW left, left = RemoveAll(st, due, order)
    PROVE  Listed(left.watch, left.seen)
<1> DEFINE n == Len(order)
           ws == st.watch
<1>1. n \in Nat /\ DOMAIN order = 1 .. n
  OBVIOUS
<1>2. PICK tr : Removal(D, st, due, order, tr)
  BY RemoveAllSteps
<1>0. /\ tr \in [0 .. n -> [D -> Seq(Watch)]] /\ tr[0] = st.seen /\ tr[n] = left.seen
      /\ \A x \in 1 .. n : tr[x] = RemoveStep(tr[x - 1], st, due, order[x])
  BY <1>2 DEF Removal
<1> HIDE DEF n, ws
<1> DEFINE T == {x \in 0 .. n : /\ Listed(ws, tr[x])
                               /\ \A m \in 1 .. x : order[m] \in due => Absent(tr[x], order[m])}
<1>3. 0 \in T
  BY <1>0, <1>1 DEF ws
<1>4. ASSUME NEW x \in 1 .. n, x - 1 \in T PROVE x \in T
  <2> DEFINE a == tr[x - 1]
             b == tr[x]
             w == order[x]
  <2>1. /\ a \in [D -> Seq(Watch)] /\ b = RemoveStep(a, st, due, w) /\ Listed(ws, a)
        /\ \A m \in 1 .. x - 1 : order[m] \in due => Absent(a, order[m])
        /\ \A m \in 1 .. x : m = x \/ m \in 1 .. x - 1
    <3>1. x - 1 \in 0 .. n /\ \A m \in 1 .. x : m = x \/ m \in 1 .. x - 1
      BY <1>1
    <3>2. a \in [D -> Seq(Watch)] /\ b = RemoveStep(a, st, due, w)
      BY <1>0, <3>1
    <3>3. Listed(ws, a) /\ \A m \in 1 .. x - 1 : order[m] \in due => Absent(a, order[m])
      BY <1>4
    <3> QED
      BY <3>1, <3>2, <3>3
  <2> HIDE DEF a, b, w, T
  <2>2. CASE w \notin due
    <3>1. b = a
      BY <2>1, <2>2 DEF RemoveStep
    <3>2. Listed(ws, b) /\ \A m \in 1 .. x : order[m] \in due => Absent(b, order[m])
      BY <2>1, <2>2, <3>1 DEF w
    <3> QED
      BY <1>1, <3>2 DEF T, b
  <2>3. CASE w \in due
    <3>1. b = RemoveSeen(a, w, ws[w])
      BY <2>1, <2>3 DEF RemoveStep, ws
    <3>2. Listed(ws, b) /\ Absent(b, w) /\ \A v : Absent(a, v) => Absent(b, v)
      BY <2>1, <3>1, RemoveSeenListed
    <3>3. \A m \in 1 .. x : order[m] \in due => Absent(b, order[m])
      BY <2>1, <3>2 DEF w
    <3> QED
      BY <1>1, <3>2, <3>3 DEF T, b
  <2> QED
    BY <2>2, <2>3
<1> HIDE DEF T
<1>5. 0 .. n \subseteq T
  BY <1>1, <1>3, <1>4, StepInduction
<1>6. n \in T
  BY <1>1, <1>5
<1>7. Listed(ws, left.seen) /\ \A w \in due : Absent(left.seen, w)
  <2>1. Listed(ws, tr[n]) /\ \A m \in 1 .. n : order[m] \in due => Absent(tr[n], order[m])
    BY <1>6 DEF T
  <2>2. \A w \in due : \E m \in 1 .. n : order[m] = w
    BY <1>1 DEF ToSet
  <2> QED
    BY <1>0, <2>1, <2>2
<1>8. left.seen \in [D -> Seq(Watch)]
  BY <1>0, <1>1
<1>9. \A w \in Watch : w \notin due => left.watch[w] = ws[w]
  BY DEF RemoveAll, ws
<1>10. ASSUME NEW h \in D, NEW i \in DOMAIN left.seen[h]
       PROVE  left.watch[left.seen[h][i]] = ws[left.seen[h][i]]
  <2>1. left.seen[h][i] \in Watch
    BY <1>8
  <2>2. left.seen[h][i] \notin due
    BY <1>7, <1>8 DEF Absent
  <2> QED
    BY <1>9, <2>1, <2>2
<1> DEFINE ns == left.watch
           ls == left.seen
<1>11. /\ DOMAIN ls = D /\ Listed(ws, ls)
       /\ \A h \in D : \A i \in DOMAIN ls[h] : ns[ls[h][i]] = ws[ls[h][i]]
  BY <1>7, <1>8, <1>10
<1> HIDE DEF ns, ls
<1>12. Listed(ns, ls)
  BY <1>11 DEF Listed
<1> QED
  BY <1>12 DEF ns, ls

LEMMA RemoveAllSettings ==
    ASSUME NEW st, Settings(st.watch), NEW order, NEW due, NEW left, left = RemoveAll(st, due, order),
           st.watch \in [Watch -> WatchRecord]
    PROVE  /\ Settings(left.watch)
           /\ \A w \in Watch : left.watch[w].status # "gone" => left.watch[w] = st.watch[w]
<1> DEFINE ws == st.watch
           ns == left.watch
<1>1. ws \in [Watch -> WatchRecord] /\ Settings(ws)
  OBVIOUS
<1>2. \A w \in Watch : ns[w] = IF w \in due THEN [ws[w] EXCEPT !.status = "gone"] ELSE ws[w]
  BY DEF RemoveAll
<1> HIDE DEF ws, ns
<1>3. ASSUME NEW w \in Watch PROVE ns[w] = ws[w] \/ ns[w].status = "gone"
  <2>1. ws[w] \in WatchRecord
    BY <1>1
  <2>2. [ws[w] EXCEPT !.status = "gone"].status = "gone"
    BY <2>1 DEF WatchRecord
  <2> QED
    BY <1>2, <2>2
<1>4. Settings(ns)
  <2> SUFFICES ASSUME NEW w \in Watch
               PROVE  /\ ns[w].status = "stuck" => ns[w].event # "none" /\ w \in late
                      /\ ns[w].status = "watching" /\ ns[w].event # "none" => ns[w].tx = {Watched(w)}
                      /\ ns[w].status = "new" => ns[w].event = "none"
    BY DEF Settings
  <2>1. CASE ns[w].status = "gone"
    BY <2>1
  <2>2. CASE ns[w] = ws[w]
    BY <1>1, <2>2 DEF Settings
  <2> QED
    BY <1>3, <2>1, <2>2
<1> QED
  BY <1>3, <1>4 DEF ns, ws

-----------------------------------------------------------------------------
(***************************************************************************)
(* Where a check is while at most one of the two disturbances happens: the *)
(* chain is reorganised, or calls raise.  done: the blocks that a watch was*)
(* found in or that were processed last.  Those of them that are still on  *)
(* the chain are behind the monitor, and what is on the walk back.         *)
(***************************************************************************)
Regular == forks = 0 \/ failures = 0

Done == DOMAIN seen \cup processed

Follows(h, done) == \A s \in done : AtTip(s) /\ ~AtTip(h) => IsPrefix(s, h)

Onto(b, done) ==
    \A n \in b.next : n # <<>> /\ Front(n) = b.hash /\ OnceOnTip(n) /\ Follows(n, done)

Course(known, done, ph, b) ==
    /\ OnceOnTip(tip) /\ \A s \in done : OnceOnTip(s)
    /\ OnceOnTip(known.hash) /\ Follows(known.hash, done)
    /\ known.next # {} => Len(tip) > Len(known.hash)
    /\ ph = "walk" => b.hash = known.hash /\ ~AtTip(b.hash) /\ Len(tip) > Len(b.hash)
    /\ ph \in {"process", "forced"} =>
          IsPrefix(known.hash, b.hash) /\ OnceOnTip(b.hash) /\ Follows(b.hash, done) /\ Onto(b, done)
    /\ ph = "forced" => b.hash # <<>>

(***************************************************************************)
(* A watch has all its confirmations for those blocks and for the one that *)
(* the check starts from; on the walk back one more for each orphan, which *)
(* will be taken away.                                                     *)
(***************************************************************************)
Served(w, r, known, done, ph, b, k) ==
    /\ \A s \in done : AtTip(s) => Credited(r, w, s, 0)
    /\ Credited(r, w, known.hash, 0)
    /\ ph = "walk" => Credited(r, w, b.hash, k)
    /\ ph \in {"process", "forced"} =>
          /\ b.hash # <<>> => Credited(r, w, Front(b.hash), 0)
          /\ ph = "process" /\ b.hash \in done => Credited(r, w, b.hash, 0)
          /\ \A n \in b.next : n \in done => Credited(r, w, n, 0)

Subject(w) == watch[w].status = "watching" /\ w \notin late /\ raised \subseteq {w}

OnCourse(known) ==
    /\ latest = {known}
    /\ Course(known, Done, phase, block)
    /\ Listed(watch, seen) /\ Settings(watch)
    /\ \A w \in Watch : Subject(w) => Served(w, watch[w], known, Done, phase, block, Len(orphaned))

Faithful == Regular => \E known \in Fetched : OnCourse(known)

(***************************************************************************)
(* An action that leaves the chain alone.                                  *)
(***************************************************************************)
LEMMA SameChain ==
    ASSUME tip' = tip, forks' = forks, NEW h
    PROVE  /\ AtTip(h)' <=> AtTip(h)
           /\ OnceOnTip(h)' <=> OnceOnTip(h)
           /\ \A r, w, k : Credited(r, w, h, k) => Credited(r, w, h, k)'
BY DEF AtTip, OnceOnTip, Split, Credited, Stands

LEMMA SameCourse ==
    ASSUME tip' = tip, forks' = forks, NEW known, NEW done, NEW ph, NEW b,
           Course(known, done, ph, b)
    PROVE  Course(known, done, ph, b)'
<1>1. \A h : (AtTip(h)' <=> AtTip(h)) /\ (OnceOnTip(h)' <=> OnceOnTip(h))
  BY SameChain
<1>2. \A h, s : Follows(h, s) => Follows(h, s)'
  BY <1>1 DEF Follows
<1>3. Onto(b, done) => Onto(b, done)'
  BY <1>1, <1>2 DEF Onto
<1>4. OnceOnTip(tip)'
  BY <1>1 DEF Course, OnceOnTip, AtTip, Split
<1> QED
  BY <1>1, <1>2, <1>3, <1>4 DEF Course

LEMMA SameServed ==
    ASSUME tip' = tip, forks' = forks, NEW w, NEW r, NEW known, NEW done, NEW ph, NEW b, NEW k,
           Served(w, r, known, done, ph, b, k)
    PROVE  Served(w, r, known, done, ph, b, k)'
<1>1. \A h, m : Credited(r, w, h, m) => Credited(r, w, h, m)'
  BY SameChain
<1>2. \A h : AtTip(h)' <=> AtTip(h)
  BY SameChain
<1> QED
  BY <1>1, <1>2 DEF Served

LEMMA OnCourseAfter ==
    ASSUME tip' = tip, forks' = forks, NEW known, NEW done, done = Done',
           NEW ph, ph = phase', NEW b, b = block', NEW k, k = Len(orphaned'),
           latest' = {known}, Course(known, done, ph, b),
           Listed(watch', seen'), Settings(watch)',
           \A w \in Watch : Subject(w)' => Served(w, watch'[w], known, done, ph, b, k)
    PROVE  OnCourse(known)'
<1>1. Course(known, done, ph, b)'
  BY SameCourse
<1>2. Course(known, Done, phase, block)'
  BY <1>1
<1>3. ASSUME NEW w \in Watch, Subject(w)'
      PROVE  Served(w, watch[w], known, Done, phase, block, Len(orphaned))'
  <2>1. PICK r : r = watch'[w]
    OBVIOUS
  <2>2. Served(w, r, known, done, ph, b, k)
    BY <1>3, <2>1
  <2>3. Served(w, r, known, done, ph, b, k)'
    BY <2>2, SameServed
  <2> QED
    BY <2>1, <2>3
<1> QED
  BY <1>2, <1>3 DEF OnCourse

-----------------------------------------------------------------------------
(***************************************************************************)
(* Prefixes, and what a fetched block says about the chain.                *)
(***************************************************************************)
LEMMA PrefixOrder ==
    ASSUME NEW s \in Hash, NEW h \in Hash, NEW t \in Hash
    PROVE  /\ IsPrefix(s, s) /\ IsPrefix(<<>>, s)
           /\ IsPrefix(s, h) /\ IsPrefix(h, t) => IsPrefix(s, t)
           /\ IsPrefix(s, t) /\ IsPrefix(h, t) => IsPrefix(s, h) \/ IsPrefix(h, s)
           /\ IsPrefix(s, h) /\ s # h => Len(s) < Len(h)
<1>1. /\ Len(s) \in Nat /\ Len(h) \in Nat /\ Len(t) \in Nat
      /\ DOMAIN s = 1 .. Len(s) /\ DOMAIN h = 1 .. Len(h) /\ s \in Seq(Block) /\ h \in Seq(Block)
      /\ <<>> \in Hash /\ Len(<<>>) = 0
  BY DEF Hash
<1>2. IsPrefix(s, s) /\ IsPrefix(<<>>, s)
  BY <1>1, PrefixPoints
<1>3. IsPrefix(s, h) /\ IsPrefix(h, t) => IsPrefix(s, t)
  BY <1>1, PrefixPoints
<1>4. IsPrefix(s, t) /\ IsPrefix(h, t) => IsPrefix(s, h) \/ IsPrefix(h, s)
  <2> SUFFICES ASSUME IsPrefix(s, t), IsPrefix(h, t) PROVE IsPrefix(s, h) \/ IsPrefix(h, s)
    OBVIOUS
  <2>1. /\ Len(s) <= Len(t) /\ \A i \in 1 .. Len(s) : s[i] = t[i]
        /\ Len(h) <= Len(t) /\ \A i \in 1 .. Len(h) : h[i] = t[i]
    BY PrefixPoints
  <2>2. CASE Len(s) <= Len(h)
    BY <1>1, <2>1, <2>2, PrefixPoints
  <2>3. CASE Len(h) <= Len(s)
    BY <1>1, <2>1, <2>3, PrefixPoints
  <2> QED
    BY <1>1, <2>2, <2>3
<1>5. IsPrefix(s, h) /\ s # h => Len(s) < Len(h)
  <2> SUFFICES ASSUME IsPrefix(s, h), ~(Len(s) < Len(h)) PROVE s = h
    OBVIOUS
  <2>1. Len(s) <= Len(h) /\ \A i \in 1 .. Len(s) : s[i] = h[i]
    BY PrefixPoints
  <2>2. Len(s) = Len(h)
    <3>1. Len(s) \in Nat /\ Len(h) \in Nat
      BY <1>1
    <3>2. Len(s) <= Len(h) /\ ~(Len(s) < Len(h))
      BY <2>1
    <3> QED
      BY <3>1, <3>2
  <2> QED
    BY <1>1, <2>1, <2>2
<1> QED
  BY <1>2, <1>3, <1>4, <1>5

LEMMA PrefixFront ==
    ASSUME NEW s \in Hash, NEW h \in Hash, h # <<>>, IsPrefix(s, h), s # h
    PROVE  IsPrefix(s, Front(h))
<1>1. /\ Len(Front(h)) = Len(h) - 1 /\ Front(h) \in Hash /\ Len(h) \in Nat \ {0} /\ Len(s) \in Nat
      /\ \A i \in 1 .. Len(h) - 1 : Front(h)[i] = h[i]
  BY FrontFacts DEF Hash
<1>2. Len(s) < Len(h) /\ \A i \in 1 .. Len(s) : s[i] = h[i]
  BY PrefixOrder, PrefixPoints
<1>3. Len(s) <= Len(Front(h)) /\ \A i \in 1 .. Len(s) : s[i] = Front(h)[i]
  BY <1>1, <1>2
<1> QED
  BY <1>1, <1>3, PrefixPoints

LEMMA OncePrefix ==
    ASSUME tip \in Hash, NEW s \in Hash, NEW h \in Hash, IsPrefix(s, h), OnceOnTip(h)
    PROVE  OnceOnTip(s)
<1>1. /\ Len(s) \in Nat /\ Len(h) \in Nat /\ Len(tip) \in Nat
      /\ DOMAIN s = 1 .. Len(s) /\ DOMAIN h = 1 .. Len(h)
  BY DEF Hash
<1>2. Len(s) <= Len(h) /\ \A i \in 1 .. Len(s) : s[i] = h[i]
  BY PrefixPoints
<1>3. \A i \in DOMAIN s : s[i].fork <= forks
  BY <1>1, <1>2 DEF OnceOnTip
<1>4. AtTip(h) => AtTip(s)
  BY PrefixOrder DEF AtTip
<1>5. ASSUME forks > 0, Split(h) PROVE AtTip(s) \/ Split(s)
  <2>1. PICK i \in DOMAIN h : i <= Len(tip) /\ h[i] # tip[i]
    BY <1>5 DEF Split
  <2>2. CASE i <= Len(s)
    BY <1>1, <1>2, <2>1, <2>2 DEF Split
  <2>3. CASE i > Len(s)
    <3>1. CASE \A j \in 1 .. Len(s) : s[j] = tip[j]
      <4>1. Len(s) <= Len(tip)
        BY <1>1, <2>1, <2>3
      <4> QED
        BY <3>1, <4>1, PrefixPoints DEF AtTip
    <3>2. CASE \E j \in 1 .. Len(s) : s[j] # tip[j]
      BY <1>1, <2>1, <2>3, <3>2 DEF Split
    <3> QED
      BY <3>1, <3>2
  <2> QED
    BY <1>1, <2>2, <2>3
<1> QED
  BY <1>3, <1>4, <1>5 DEF OnceOnTip

LEMMA FetchedFacts ==
    ASSUME tip \in Hash, OnceOnTip(tip), NEW h \in Hash, NEW f, f = GetBlock(h)
    PROVE  /\ f \in Fetched /\ f.hash = h /\ f.next \subseteq Hash
           /\ \A n \in f.next : n # <<>> /\ Front(n) = h /\ AtTip(n) /\ OnceOnTip(n)
           /\ f.next # {} => AtTip(h) /\ Len(h) < Len(tip)
           /\ f.next = {} /\ Len(h) < Len(tip) => ~AtTip(h)
<1> DEFINE first == SubSeq(tip, 1, Len(h) + 1)
<1>1. Len(h) \in Nat /\ Len(tip) \in Nat /\ tip \in Seq(Block) /\ h \in Seq(Block)
  BY DEF Hash
<1>2. f.next = IF IsStrictPrefix(h, tip) THEN {first} ELSE {}
  BY DEF GetBlock
<1>3. /\ f \in Fetched /\ f.hash = h /\ f.next \subseteq Hash
  BY GetBlockType
<1>4. ASSUME IsStrictPrefix(h, tip)
      PROVE  /\ first # <<>> /\ Front(first) = h /\ AtTip(first) /\ OnceOnTip(first)
             /\ AtTip(h) /\ Len(h) < Len(tip)
  <2>1. IsPrefix(h, tip) /\ Len(h) < Len(tip)
    BY <1>4, PrefixType DEF IsStrictPrefix
  <2>2. first \in Hash /\ IsPrefix(first, tip) /\ Len(first) = Len(h) + 1
    BY <1>4, <2>1, PrefixNext
  <2> HIDE DEF first
  <2>3. first # <<>>
    BY <1>1, <2>2
  <2>4. /\ Front(first) \in Hash /\ Len(Front(first)) = Len(h)
        /\ \A i \in 1 .. Len(h) : Front(first)[i] = first[i]
    <3>1. /\ Front(first) \in Hash /\ Len(Front(first)) = Len(first) - 1
          /\ \A i \in 1 .. Len(first) - 1 : Front(first)[i] = first[i]
      BY <2>2, <2>3, FrontFacts
    <3>2. Len(first) - 1 = Len(h)
      BY <1>1, <2>2
    <3> QED
      BY <3>1, <3>2
  <2>5. \A i \in 1 .. Len(h) : h[i] = tip[i]
    BY <2>1, PrefixPoints
  <2>6. \A i \in 1 .. Len(h) : first[i] = tip[i]
    <3>1. \A i \in 1 .. Len(first) : first[i] = tip[i]
      BY <2>2, PrefixPoints
    <3> QED
      BY <1>1, <2>2, <3>1
  <2>7. IsPrefix(h, Front(first)) /\ Len(h) = Len(Front(first))
    <3>1. Len(h) <= Len(Front(first)) /\ \A i \in 1 .. Len(h) : h[i] = Front(first)[i]
      BY <1>1, <2>4, <2>5, <2>6
    <3> QED
      BY <2>4, <3>1, PrefixPoints
  <2>8. Front(first) = h
    BY <1>1, <2>4, <2>7, PrefixOrder
  <2>9. OnceOnTip(first)
    BY <2>2, OncePrefix
  <2> QED
    BY <2>1, <2>2, <2>3, <2>8, <2>9 DEF AtTip
<1> HIDE DEF first
<1>5. ~IsStrictPrefix(h, tip) /\ Len(h) < Len(tip) => ~AtTip(h)
  BY PrefixNext DEF AtTip
<1> QED
  BY <1>2, <1>3, <1>4, <1>5

-----------------------------------------------------------------------------
(***************************************************************************)
(* One lemma for each action.                                              *)
(***************************************************************************)
LEMMA OnCourseTypes ==
    ASSUME IInv
    PROVE  /\ tip \in Hash /\ Len(tip) \in Nat /\ forks \in Nat /\ Done \subseteq Hash
           /\ block \in Fetched /\ block.hash \in Hash /\ block.next \subseteq Hash
           /\ watch \in [Watch -> WatchRecord] /\ orphaned \in Seq(Hash) /\ Len(orphaned) \in Nat
           /\ failures \in Nat
BY MonitorAssumption DEF IInv, TypeOK, Hash, Fetched, Done

LEMMA ChainOnCourse ==
    ASSUME IInv, NEW known \in Fetched, OnCourse(known), Mine \/ Reorganise
    PROVE  OnCourse(known)'
<1>1. /\ tip \in Hash /\ Len(tip) \in Nat /\ forks \in Nat /\ Done \subseteq Hash
      /\ block.hash \in Hash /\ block.next \subseteq Hash /\ known.hash \in Hash
      /\ watch \in [Watch -> WatchRecord]
  BY OnCourseTypes DEF Fetched
<1>2. PICK done, ph, b : done = Done /\ ph = phase /\ b = block
  OBVIOUS
<1>3. /\ latest' = latest /\ Done' = done /\ phase' = ph /\ block' = b /\ watch' = watch /\ seen' = seen
      /\ orphaned' = orphaned /\ late' = late /\ raised' = raised
  BY <1>2 DEF Mine, Reorganise, monitor, Done
<1>4. tip' \in Hash /\ Len(tip') = Len(tip) + 1
  BY ChainKeeps, StepHash
<1>5. PICK c \in 0 .. Len(tip) : Keeps(c)
  BY ChainKeeps
<1>6. \A h \in Hash : OnceOnTip(h) => /\ OnceOnTip(h)' /\ (AtTip(h)' => AtTip(h))
                                     /\ \A i \in DOMAIN h : i <= Len(tip) /\ h[i] # tip[i] => h[i] # tip'[i]
  BY <1>1, <1>4, <1>5, SplitStays
<1>7. ASSUME NEW h \in Hash, OnceOnTip(h), NEW w \in Watch, NEW r, NEW k, Credited(r, w, h, k)
      PROVE  Credited(r, w, h, k)'
  <2>1. Stands(w, h)' => Stands(w, h)
    BY <1>1, <1>4, <1>6, <1>7, StandsBefore
  <2> QED
    BY <1>7, <2>1 DEF Credited
<1>8. ASSUME NEW h \in Hash, OnceOnTip(h), \A s \in done : s \in Hash /\ OnceOnTip(s), Follows(h, done)
      PROVE  Follows(h, done)'
  <2> SUFFICES ASSUME NEW s \in done, AtTip(s)', ~AtTip(h)' PROVE IsPrefix(s, h)
    BY DEF Follows
  <2>1. s \in Hash /\ AtTip(s)
    BY <1>6, <1>8
  <2>2. CASE ~AtTip(h)
    BY <1>8, <2>1, <2>2 DEF Follows
  <2>3. CASE AtTip(h)
    <3>1. IsPrefix(s, h) \/ IsPrefix(h, s)
      BY <1>1, <2>1, <2>3, PrefixOrder DEF AtTip
    <3>2. IsPrefix(h, s) => IsPrefix(h, tip')
      BY <1>4, <2>1, PrefixOrder DEF AtTip
    <3> QED
      BY <3>1, <3>2 DEF AtTip
  <2> QED
    BY <2>2, <2>3
<1>9. Course(known, done, ph, b) /\ \A s \in done : s \in Hash /\ OnceOnTip(s)
  BY <1>1, <1>2 DEF OnCourse, Course
<1>10. OnceOnTip(tip)'
  <2>1. \A i \in DOMAIN tip' : tip'[i].fork <= forks'
    <3> SUFFICES ASSUME NEW i \in 1 .. Len(tip') PROVE tip'[i].fork <= forks'
      BY <1>4 DEF Hash
    <3>1. CASE i <= c
      <4>1. i \in DOMAIN tip /\ tip'[i] = tip[i]
        BY <1>1, <1>5, <3>1 DEF Keeps, Hash
      <4>2. tip[i].fork <= forks /\ tip[i] \in Block
        BY <1>1, <1>9, <4>1 DEF Course, OnceOnTip, Hash
      <4>3. tip[i].fork \in Nat
        BY <4>2, MonitorAssumption DEF Block
      <4> QED
        BY <1>1, <1>5, <4>1, <4>2, <4>3 DEF Keeps
    <3>2. CASE i > c
      BY <1>1, <1>4, <1>5, <3>2 DEF Keeps
    <3> QED
      BY <1>5, <3>1, <3>2
  <2>2. AtTip(tip)'
    BY <1>4, PrefixOrder DEF AtTip
  <2> QED
    BY <2>1, <2>2 DEF OnceOnTip
<1>11. Course(known, done, ph, b)'
  <2>1. OnceOnTip(known.hash)' /\ Follows(known.hash, done)' /\ \A s \in done : OnceOnTip(s)'
    BY <1>1, <1>6, <1>8, <1>9 DEF Course
  <2>2. known.next # {} => Len(tip') > Len(known.hash)
    <3>1. Len(known.hash) \in Nat
      BY <1>1 DEF Hash
    <3> QED
      BY <1>1, <1>4, <1>9, <3>1 DEF Course
  <2>3. ph = "walk" => b.hash = known.hash /\ ~AtTip(b.hash)' /\ Len(tip') > Len(b.hash)
    <3>1. Len(b.hash) \in Nat
      BY <1>1, <1>2 DEF Hash
    <3> QED
      BY <1>1, <1>4, <1>6, <1>9, <3>1 DEF Course
  <2>4. ph \in {"process", "forced"} =>
           /\ IsPrefix(known.hash, b.hash) /\ OnceOnTip(b.hash)' /\ Follows(b.hash, done)'
           /\ Onto(b, done)'
    <3> SUFFICES ASSUME ph \in {"process", "forced"}
                 PROVE  /\ IsPrefix(known.hash, b.hash) /\ OnceOnTip(b.hash)' /\ Follows(b.hash, done)'
                        /\ Onto(b, done)'
      OBVIOUS
    <3>1. IsPrefix(known.hash, b.hash) /\ OnceOnTip(b.hash) /\ Follows(b.hash, done) /\ Onto(b, done)
      BY <1>9 DEF Course
    <3>2. OnceOnTip(b.hash)' /\ Follows(b.hash, done)'
      BY <1>1, <1>2, <1>6, <1>8, <1>9, <3>1
    <3>3. Onto(b, done)'
      <4> SUFFICES ASSUME NEW n \in b.next
                   PROVE  n # <<>> /\ Front(n) = b.hash /\ OnceOnTip(n)' /\ Follows(n, done)'
        BY DEF Onto
      <4>1. n \in Hash /\ n # <<>> /\ Front(n) = b.hash /\ OnceOnTip(n) /\ Follows(n, done)
        BY <1>1, <1>2, <3>1 DEF Onto
      <4> QED
        BY <1>6, <1>8, <1>9, <4>1
    <3> QED
      BY <3>1, <3>2, <3>3
  <2>5. ph = "forced" => b.hash # <<>>
    BY <1>9 DEF Course
  <2> QED
    BY <1>10, <2>1, <2>2, <2>3, <2>4, <2>5 DEF Course
<1>12. ASSUME NEW w \in Watch, Subject(w)
       PROVE  Served(w, watch[w], known, Done, phase, block, Len(orphaned))'
  <2>1. PICK r, k : r = watch[w] /\ k = Len(orphaned)
    OBVIOUS
  <2>2. Served(w, r, known, done, ph, b, k)
    BY <1>2, <1>12, <2>1 DEF OnCourse
  <2>3. \A s \in done : AtTip(s)' => Credited(r, w, s, 0)'
    BY <1>6, <1>7, <1>9, <2>2 DEF Served
  <2>4. Credited(r, w, known.hash, 0)'
    BY <1>1, <1>7, <1>9, <2>2 DEF Served, Course
  <2>5. ph = "walk" => Credited(r, w, b.hash, k)'
    BY <1>1, <1>7, <1>9, <2>2 DEF Served, Course
  <2>6. ASSUME ph \in {"process", "forced"}
        PROVE  /\ b.hash # <<>> => Credited(r, w, Front(b.hash), 0)'
               /\ ph = "process" /\ b.hash \in done => Credited(r, w, b.hash, 0)'
               /\ \A n \in b.next : n \in done => Credited(r, w, n, 0)'
    <3>1. OnceOnTip(b.hash) /\ b.hash \in Hash
      BY <1>1, <1>2, <1>9, <2>6 DEF Course
    <3>2. b.hash # <<>> => Front(b.hash) \in Hash /\ OnceOnTip(Front(b.hash))
      BY <1>1, <3>1, FrontFacts, OncePrefix
    <3>3. /\ b.hash # <<>> => Credited(r, w, Front(b.hash), 0)
          /\ ph = "process" /\ b.hash \in done => Credited(r, w, b.hash, 0)
          /\ \A n \in b.next : n \in done => Credited(r, w, n, 0)
      BY <2>2, <2>6 DEF Served
    <3> QED
      BY <1>7, <1>9, <3>1, <3>2, <3>3
  <2>7. Served(w, r, known, done, ph, b, k)'
    BY <2>3, <2>4, <2>5, <2>6 DEF Served
  <2> QED
    BY <1>3, <2>1, <2>7
<1>13. \A w \in Watch : Subject(w)' => Subject(w)
  BY <1>3 DEF Subject
<1>14. Listed(watch, seen)' /\ Settings(watch)'
  BY <1>3 DEF OnCourse, Listed, Settings
<1>15. Course(known, Done, phase, block)'
  BY <1>3, <1>11
<1>16. latest' = {known}
  BY <1>3 DEF OnCourse
<1> QED
  BY <1>12, <1>13, <1>14, <1>15, <1>16 DEF OnCourse

LEMMA AddWatchOnCourse ==
    ASSUME IInv, NEW known \in Fetched, OnCourse(known), NEW v \in Watch, AddWatch(v)
    PROVE  OnCourse(known)'
<1>1. /\ tip \in Hash /\ Done \subseteq Hash /\ block.hash \in Hash /\ block.next \subseteq Hash
      /\ known.hash \in Hash /\ watch \in [Watch -> WatchRecord] /\ orphaned \in Seq(Hash)
  BY OnCourseTypes DEF Fetched
<1>2. PICK done, ph, b, k : done = Done /\ ph = phase /\ b = block /\ k = Len(orphaned)
  OBVIOUS
<1>3. /\ tip' = tip /\ forks' = forks /\ latest' = latest /\ Done' = done /\ phase' = ph /\ block' = b
      /\ Len(orphaned') = k /\ seen' = seen /\ raised' = raised
      /\ late' = IF v \in Mined(tip) THEN late \cup {v} ELSE late
  BY <1>2 DEF AddWatch, chain, Done
<1>4. /\ watch[v].status = "new" /\ watch[v].event = "none"
      /\ \A w \in Watch : w # v => watch'[w] = watch[w]
      /\ \/ watch'[v].status = "stuck" /\ watch'[v].event = "confirm" /\ v \in Mined(tip)
         \/ watch'[v].status = "watching" /\ watch'[v].event = "none"
  <2>1. watch[v].status = "new" /\ watch[v].event = "none"
    BY DEF AddWatch, OnCourse, Settings
  <2> DEFINE depth == Depth(Watched(v), tip)
             at == {SubSeq(tip, 1, Len(tip) - depth + 1)}
  <2>2. watch[v] \in WatchRecord
    BY <1>1
  <2>3. CASE depth >= Confirmations
    <3>1. watch' = [watch EXCEPT ![v].status = "stuck", ![v].event = "confirm", ![v].block = at]
      BY <2>3 DEF AddWatch, Watched
    <3>2. v \in Mined(tip)
      <4>1. Watched(v) \in Own(v)
        BY DEF Watched, Own
      <4>2. depth # 0
        BY <2>3, MonitorAssumption
      <4> HIDE DEF depth
      <4> QED
        BY <1>1, <4>1, <4>2, NotMined DEF depth
    <3> HIDE DEF at, depth
    <3>3. watch'[v].status = "stuck" /\ watch'[v].event = "confirm"
      BY <1>1, <2>2, <3>1 DEF WatchRecord
    <3> QED
      BY <1>1, <2>1, <3>1, <3>2, <3>3
  <2>4. CASE ~(depth >= Confirmations)
    <3>1. watch' = [watch EXCEPT ![v].status = "watching"]
      BY <2>4 DEF AddWatch, Watched
    <3> HIDE DEF at, depth
    <3>2. watch'[v].status = "watching" /\ watch'[v].event = "none"
      BY <1>1, <2>1, <2>2, <3>1 DEF WatchRecord
    <3> QED
      BY <1>1, <2>1, <3>1, <3>2
  <2> QED
    BY <2>3, <2>4
<1>5. Course(known, done, ph, b) /\ latest' = {known}
  BY <1>2, <1>3 DEF OnCourse
<1>6. Listed(watch', seen')
  <2>1. Listed(watch, seen) /\ seen \in [DOMAIN seen -> Seq(Watch)]
    BY DEF OnCourse, IInv
  <2>2. \A h \in DOMAIN seen : \A i \in DOMAIN seen[h] :
           seen[h][i] # v /\ seen[h][i] \in Watch
    BY <1>4, <2>1 DEF Listed
  <2> QED
    BY <1>3, <1>4, <2>1, <2>2 DEF Listed
<1>7. Settings(watch)'
  <2> SUFFICES ASSUME NEW w \in Watch
               PROVE  /\ watch'[w].status = "stuck" => watch'[w].event # "none" /\ w \in late'
                      /\ watch'[w].status = "watching" /\ watch'[w].event # "none" =>
                            watch'[w].tx = {Watched(w)}
                      /\ watch'[w].status = "new" => watch'[w].event = "none"
    BY DEF Settings
  <2>1. CASE w = v
    BY <1>3, <1>4, <2>1
  <2>2. CASE w # v
    BY <1>3, <1>4, <2>2 DEF OnCourse, Settings
  <2> QED
    BY <2>1, <2>2
<1>8. ASSUME NEW w \in Watch, Subject(w)' PROVE Served(w, watch'[w], known, done, ph, b, k)
  <2>1. CASE w = v
    <3>1. w \notin Mined(tip)
      BY <1>3, <1>8, <2>1 DEF Subject
    <3>2. \A h \in Hash : ~Stands(w, h)
      BY <1>1, <3>1, StandsFacts
    <3>3. \A h \in Hash : \A r, m : Credited(r, w, h, m)
      BY <3>2 DEF Credited
    <3>4. b.hash # <<>> => Front(b.hash) \in Hash
      BY <1>1, <1>2, FrontFacts
    <3> QED
      BY <1>1, <1>2, <3>3, <3>4 DEF Served
  <2>2. CASE w # v
    <3>1. Subject(w) /\ watch'[w] = watch[w]
      BY <1>3, <1>4, <1>8, <2>2 DEF Subject
    <3> QED
      BY <1>2, <3>1 DEF OnCourse
  <2> QED
    BY <2>1, <2>2
<1> QED
  BY <1>2, <1>3, <1>5, <1>6, <1>7, <1>8, OnCourseAfter

LEMMA StartCheckOnCourse ==
    ASSUME IInv, NEW known \in Fetched, OnCourse(known), StartCheck
    PROVE  OnCourse(known)'
<1>1. /\ tip \in Hash /\ Len(tip) \in Nat /\ Done \subseteq Hash /\ known.hash \in Hash
      /\ Len(known.hash) \in Nat /\ watch \in [Watch -> WatchRecord] /\ known.next \subseteq Hash
  BY OnCourseTypes DEF Fetched, Hash
<1>2. PICK done : done = Done
  OBVIOUS
<1>3. /\ tip' = tip /\ forks' = forks /\ latest' = {known} /\ Done' = done /\ Len(orphaned') = 0
      /\ watch' = watch /\ seen' = seen /\ late' = late /\ raised' = raised
  BY <1>2 DEF StartCheck, chain, Done, OnCourse
<1> DEFINE refetched == IF Len(tip) > Len(known.hash) THEN GetBlock(known.hash) ELSE known
<1>4. PICK f : f = refetched
  OBVIOUS
<1>5. \/ Len(tip) > Len(known.hash) /\ f.next = {} /\ Goto("walk", f)
      \/ ~(Len(tip) > Len(known.hash) /\ f.next = {}) /\ Goto("process", f)
  BY <1>4 DEF StartCheck, OnCourse
<1>6. Course(known, done, phase, block) /\ OnceOnTip(tip)
  BY <1>2 DEF OnCourse, Course
<1>7. /\ f.hash = known.hash /\ f.next \subseteq Hash
      /\ \A n \in f.next : n # <<>> /\ Front(n) = f.hash /\ OnceOnTip(n) /\ AtTip(n)
      /\ Len(tip) > Len(known.hash) /\ f.next = {} => ~AtTip(f.hash)
  <2>1. CASE Len(tip) > Len(known.hash)
    <3>1. f = GetBlock(known.hash)
      BY <1>4, <2>1
    <3> QED
      BY <1>1, <1>6, <3>1, FetchedFacts
  <2>2. CASE ~(Len(tip) > Len(known.hash))
    <3>1. f = known /\ known.next = {}
      BY <1>4, <1>6, <2>2 DEF Course
    <3> QED
      BY <2>2, <3>1
  <2> QED
    BY <2>1, <2>2
<1> HIDE DEF refetched
<1>8. Onto(f, done)
  BY <1>7 DEF Onto, Follows
<1>9. IsPrefix(known.hash, f.hash)
  BY <1>1, <1>7, PrefixOrder
<1>10. Course(known, done, "walk", f) \/ ~(Len(tip) > Len(known.hash) /\ f.next = {})
  BY <1>1, <1>6, <1>7 DEF Course
<1>11. Course(known, done, "process", f)
  BY <1>6, <1>7, <1>8, <1>9 DEF Course
<1>12. ASSUME NEW w \in Watch, Subject(w)', NEW ph \in {"walk", "process"}
       PROVE  Served(w, watch'[w], known, done, ph, f, 0)
  <2>1. PICK r : r = watch[w]
    OBVIOUS
  <2>2. r \in WatchRecord /\ watch'[w] = r
    BY <1>1, <1>3, <2>1
  <2>3. Served(w, r, known, done, phase, block, Len(orphaned))
    BY <1>2, <1>3, <1>12, <2>1 DEF OnCourse, Subject
  <2>4. /\ \A s \in done : AtTip(s) => Credited(r, w, s, 0)
        /\ Credited(r, w, known.hash, 0)
    BY <2>3 DEF Served
  <2>5. f.hash # <<>> => Credited(r, w, Front(f.hash), 0)
    BY <1>1, <1>7, <2>2, <2>4, FrontFacts, CreditedPrefix
  <2> QED
    BY <1>7, <2>2, <2>4, <2>5 DEF Served
<1>13. Listed(watch', seen') /\ Settings(watch)'
  BY <1>3 DEF OnCourse, Settings
<1>14. CASE Goto("walk", f) /\ Len(tip) > Len(known.hash) /\ f.next = {}
  <2>1. phase' = "walk" /\ block' = f /\ Course(known, done, "walk", f)
    BY <1>10, <1>14 DEF Goto
  <2>2. \A w \in Watch : Subject(w)' => Served(w, watch'[w], known, done, "walk", f, 0)
    BY <1>12
  <2> QED
    BY <1>3, <1>13, <2>1, <2>2, OnCourseAfter
<1>15. CASE Goto("process", f)
  <2>1. phase' = "process" /\ block' = f
    BY <1>15 DEF Goto
  <2>2. \A w \in Watch : Subject(w)' => Served(w, watch'[w], known, done, "process", f, 0)
    BY <1>12
  <2> QED
    BY <1>3, <1>11, <1>13, <2>1, <2>2, OnCourseAfter
<1> QED
  BY <1>5, <1>14, <1>15

LEMMA OrphansSettings ==
    ASSUME NEW ws, NEW k, Settings(watch), \A w \in Watch : Lessened(watch[w], ws[w], k)
    PROVE  Settings(ws)
BY DEF Settings, Lessened

LEMMA WalkBackOnCourse ==
    ASSUME IInv, NEW known \in Fetched, OnCourse(known), WalkBack
    PROVE  \E back \in Fetched : OnCourse(back)'
<1>1. /\ tip \in Hash /\ Len(tip) \in Nat /\ Done \subseteq Hash /\ known.hash \in Hash
      /\ Len(known.hash) \in Nat /\ watch \in [Watch -> WatchRecord] /\ block.hash \in Hash
      /\ Len(orphaned) \in Nat /\ orphaned \in Seq(Hash)
  BY OnCourseTypes DEF Fetched, Hash
<1>2. PICK done, h, k : done = Done /\ h = block.hash /\ k = Len(orphaned)
  OBVIOUS
<1>3. /\ phase = "walk" /\ h # <<>> /\ h \in Hash
  BY <1>1, <1>2 DEF WalkBack
<1>4. Course(known, done, "walk", block)
  BY <1>2, <1>3 DEF OnCourse
<1>5. /\ OnceOnTip(tip) /\ OnceOnTip(h) /\ Follows(h, done) /\ \A s \in done : OnceOnTip(s)
      /\ known.hash = h /\ ~AtTip(h) /\ Len(tip) > Len(h)
  BY <1>2, <1>4 DEF Course
<1>6. PICK front : front = Front(h)
  OBVIOUS
<1>7. /\ front \in Hash /\ Len(h) \in Nat \ {0} /\ Len(front) = Len(h) - 1 /\ IsPrefix(front, h)
  BY <1>3, <1>6, FrontFacts
<1>8. PICK back : back = GetBlock(front)
  OBVIOUS
<1>9. /\ back \in Fetched /\ back.hash = front /\ back.next \subseteq Hash
      /\ \A n \in back.next : n # <<>> /\ Front(n) = front /\ AtTip(n) /\ OnceOnTip(n)
      /\ back.next = {} => ~AtTip(front)
  <2>1. Len(front) < Len(tip)
    BY <1>1, <1>5, <1>7
  <2> QED
    BY <1>1, <1>5, <1>7, <1>8, <2>1, FetchedFacts
<1>10. OnceOnTip(front)
  BY <1>1, <1>3, <1>5, <1>7, OncePrefix
<1>11. \A s \in done : AtTip(s) => IsPrefix(s, front)
  <2> SUFFICES ASSUME NEW s \in done, AtTip(s) PROVE IsPrefix(s, front)
    OBVIOUS
  <2>1. s \in Hash /\ IsPrefix(s, h) /\ s # h
    BY <1>1, <1>2, <1>5 DEF Follows
  <2> QED
    BY <1>3, <1>6, <2>1, PrefixFront
<1>12. PICK orphans : orphans = Append(orphaned, front)
  OBVIOUS
<1>13. /\ tip' = tip /\ forks' = forks /\ latest' = {back} /\ late' = late /\ raised' = raised
       /\ orphaned' = orphans /\ orphans \in Seq(Hash) /\ Len(orphans) = k + 1
  <2>1. \E parent \in {back} : latest' = {parent} /\ orphaned' = Append(orphaned, parent.hash)
    BY <1>2, <1>6, <1>8, Zenon DEF WalkBack
  <2>2. UNCHANGED <<chain, late, raised>>
    BY DEF WalkBack
  <2> QED
    BY <1>1, <1>2, <1>7, <1>9, <1>12, <2>1, <2>2 DEF chain
<1>14. \/ back.next = {} /\ Goto("walk", back) /\ UNCHANGED <<processed, seen, watch>>
       \/ \E hashes \in SetToSeqs(DOMAIN seen) : \E st \in {Orphans(orphans, hashes)} :
             /\ watch' = st.watch /\ seen' = NonEmpty(st.seen) /\ processed' = st.processed
             /\ Goto(IF st.dead THEN "idle" ELSE "process", back)
  <2>1. \E parent \in {back} :
          \/ parent.next = {} /\ Goto("walk", parent) /\ UNCHANGED <<processed, seen, watch>>
          \/ \E hashes \in SetToSeqs(DOMAIN seen) :
             \E st \in {Orphans(Append(orphaned, parent.hash), hashes)} :
                /\ watch' = st.watch /\ seen' = NonEmpty(st.seen) /\ processed' = st.processed
                /\ Goto(IF st.dead THEN "idle" ELSE "process", parent)
    BY <1>2, <1>6, <1>8, Zenon DEF WalkBack
  <2>2. back.hash = front
    BY <1>9
  <2> QED
    BY <1>12, <2>1, <2>2, Zenon
<1>15. ASSUME NEW w \in Watch, Subject(w)
       PROVE  /\ \A s \in done : AtTip(s) => Credited(watch[w], w, s, 0) /\ Credited(watch[w], w, s, k + 1)
              /\ Credited(watch[w], w, front, 0) /\ Credited(watch[w], w, front, k + 1)
  <2>1. PICK r : r = watch[w]
    OBVIOUS
  <2>2. r \in WatchRecord
    BY <1>1, <2>1
  <2>3. Served(w, r, known, done, "walk", block, k)
    BY <1>2, <1>3, <1>15, <2>1 DEF OnCourse
  <2>4. /\ \A s \in done : AtTip(s) => Credited(r, w, s, 0)
        /\ Credited(r, w, h, 0) /\ Credited(r, w, h, k)
    BY <1>2, <1>5, <2>3 DEF Served
  <2>5. Credited(r, w, front, 0) /\ Credited(r, w, front, k + 1)
    <3>1. Len(front) < Len(h)
      BY <1>7
    <3> QED
      BY <1>1, <1>2, <1>3, <1>7, <2>2, <2>4, <3>1, CreditedPrefix
  <2>6. \A s \in done : AtTip(s) => Credited(r, w, s, k + 1)
    <3>1. k + 1 \in Nat
      BY <1>1, <1>2
    <3> QED
      BY <1>1, <1>2, <1>7, <1>11, <2>2, <2>5, <3>1, CreditedPrefix
  <2> QED
    BY <2>1, <2>4, <2>5, <2>6
<1>16. CASE back.next = {} /\ Goto("walk", back) /\ UNCHANGED <<processed, seen, watch>>
  <2>1. /\ phase' = "walk" /\ block' = back /\ watch' = watch /\ seen' = seen /\ Done' = done
        /\ \A w \in Watch : Subject(w)' => Subject(w)
    BY <1>2, <1>13, <1>16 DEF Goto, Done, Subject
  <2>2. Course(back, done, "walk", back)
    <3>1. Len(tip) > Len(front)
      BY <1>1, <1>5, <1>7
    <3> QED
      BY <1>5, <1>9, <1>10, <1>11, <1>16, <3>1 DEF Course, Follows
  <2>3. \A w \in Watch : Subject(w)' => Served(w, watch'[w], back, done, "walk", back, k + 1)
    BY <1>9, <1>15, <2>1 DEF Served
  <2>4. Listed(watch', seen') /\ Settings(watch)'
    BY <1>13, <2>1 DEF OnCourse, Settings
  <2>5. Len(orphaned') = k + 1
    BY <1>13
  <2>6. OnCourse(back)'
    BY <1>13, <2>1, <2>2, <2>3, <2>4, <2>5, OnCourseAfter
  <2> QED
    BY <1>9, <2>6
<1>17. ASSUME NEW hashes \in SetToSeqs(DOMAIN seen), NEW st, st = Orphans(orphans, hashes),
              watch' = st.watch, seen' = NonEmpty(st.seen), processed' = st.processed,
              Goto(IF st.dead THEN "idle" ELSE "process", back)
       PROVE  OnCourse(back)'
  <2>1. PICK D : D = DOMAIN seen
    OBVIOUS
  <2>2. /\ Sound(watch) /\ IsFiniteSet(D) /\ seen \in [D -> Seq(Watch)] /\ D \subseteq Hash
    BY <2>1 DEF IInv, TypeOK
  <2>3. hashes \in Seq(D) /\ \A i, j \in DOMAIN hashes : hashes[i] = hashes[j] => i = j
    BY <1>17, <2>1, <2>2, OrderType, OrderOnce
  <2>4. Untouched \in Bookings(D)
    <3>1. Untouched \in Passing(D)
      BY <1>1, <2>2 DEF Passing, Untouched
    <3>2. Listed(Untouched.watch, Untouched.seen)
      BY DEF OnCourse, Untouched
    <3> QED
      BY <3>1, <3>2 DEF Bookings
  <2>5. /\ st \in Bookings(D)
        /\ \A w \in Watch : Lessened(watch[w], st.watch[w], k + 1)
    BY <1>13, <1>17, <2>3, <2>4, OrphansLessen
  <2>6. /\ st.watch \in [Watch -> WatchRecord] /\ Listed(st.watch, st.seen)
        /\ st.seen \in [D -> Seq(Watch)] /\ st.processed \subseteq processed /\ st.dead \in BOOLEAN
    BY <2>5 DEF Bookings, Passing
  <2>7. PICK left : left = Done'
    OBVIOUS
  <2>8. left \subseteq done
    BY <1>2, <1>17, <2>1, <2>2, <2>6, <2>7, NonEmptyType DEF Done
  <2>9. Listed(watch', seen')
    BY <1>17, <2>6, NonEmptyListed
  <2>10. Settings(watch)'
    <3>1. Settings(st.watch)
      BY <2>5, OrphansSettings DEF OnCourse
    <3> QED
      BY <1>13, <1>17, <3>1 DEF Settings
  <2>11. PICK ph \in {"idle", "process"} : ph = phase' /\ back = block'
    BY <1>17, <2>6 DEF Goto
  <2>12. Course(back, left, ph, back)
    <3>1. \A s \in left : OnceOnTip(s) /\ (AtTip(s) => IsPrefix(s, front))
      BY <1>5, <1>11, <2>8
    <3>2. Onto(back, left)
      BY <1>9, <3>1 DEF Onto, Follows
    <3>3. back.next # {} => Len(tip) > Len(front)
      BY <1>1, <1>5, <1>7
    <3>4. IsPrefix(front, front)
      BY <1>7, PrefixOrder
    <3> QED
      BY <1>5, <1>9, <1>10, <2>11, <3>1, <3>2, <3>3, <3>4 DEF Course, Follows
  <2>13. ASSUME NEW w \in Watch, Subject(w)'
         PROVE  Served(w, watch'[w], back, left, ph, back, k + 1)
    <3>1. PICK r, old : r = st.watch[w] /\ old = watch[w]
      OBVIOUS
    <3>2. r \in WatchRecord /\ old \in WatchRecord /\ Lessened(old, r, k + 1) /\ watch'[w] = r
      BY <1>1, <1>17, <2>5, <2>6, <3>1
    <3>3. Subject(w)
      BY <1>13, <2>13, <3>1, <3>2 DEF Subject, Lessened
    <3>4. k + 1 \in Nat
      BY <1>1, <1>2
    <3>5. \A s \in done : AtTip(s) => Credited(r, w, s, 0)
      BY <1>1, <1>2, <1>15, <3>1, <3>2, <3>3, <3>4, CreditedLess
    <3>6. Credited(r, w, front, 0)
      BY <1>1, <1>7, <1>15, <3>1, <3>2, <3>3, <3>4, CreditedLess
    <3>7. front # <<>> => Credited(r, w, Front(front), 0)
      BY <1>1, <1>7, <3>2, <3>6, FrontFacts, CreditedPrefix
    <3> QED
      BY <1>9, <2>8, <2>11, <3>2, <3>5, <3>6, <3>7 DEF Served
  <2>14. Len(orphaned') = k + 1
    BY <1>13
  <2> QED
    BY <1>13, <2>7, <2>9, <2>10, <2>11, <2>12, <2>13, <2>14, OnCourseAfter
<1> QED
  BY <1>9, <1>14, <1>16, <1>17

LEMMA SkipBlockOnCourse ==
    ASSUME IInv, NEW known \in Fetched, OnCourse(known), SkipBlock
    PROVE  OnCourse(known)'
<1>1. /\ tip \in Hash /\ Done \subseteq Hash /\ known.hash \in Hash /\ block.hash \in Hash
      /\ block.next \subseteq Hash
  BY OnCourseTypes DEF Fetched
<1>2. PICK done, h, k : done = Done /\ h = block.hash /\ k = Len(orphaned)
  OBVIOUS
<1>3. /\ tip' = tip /\ forks' = forks /\ latest' = {known} /\ Done' = done /\ Len(orphaned') = k
      /\ watch' = watch /\ seen' = seen /\ late' = late /\ raised' = raised
  BY <1>2 DEF SkipBlock, chain, Done, OnCourse
<1>4. /\ phase = "process" /\ h \in done
      /\ \/ Goto("idle", Start)
         \/ \E next \in block.next : Goto("forced", GetBlock(next))
  BY <1>2 DEF SkipBlock, Skips, Done
<1>5. Course(known, done, "process", block)
  BY <1>2, <1>4 DEF OnCourse
<1>6. \A w \in Watch : Subject(w)' => Subject(w)
  BY <1>3 DEF Subject
<1>7. ASSUME NEW w \in Watch, Subject(w)
      PROVE  Served(w, watch[w], known, done, "process", block, k)
  BY <1>2, <1>4, <1>7 DEF OnCourse
<1>8. Listed(watch', seen') /\ Settings(watch)'
  BY <1>3 DEF OnCourse, Settings
<1>9. CASE Goto("idle", Start)
  <2>1. phase' = "idle" /\ block' = Start
    BY <1>9 DEF Goto
  <2>2. Course(known, done, "idle", Start)
    BY <1>5 DEF Course
  <2>3. \A w \in Watch : Subject(w)' => Served(w, watch'[w], known, done, "idle", Start, k)
    BY <1>3, <1>6, <1>7 DEF Served
  <2> QED
    BY <1>3, <1>8, <2>1, <2>2, <2>3, OnCourseAfter
<1>10. ASSUME NEW next \in block.next, Goto("forced", GetBlock(next)) PROVE OnCourse(known)'
  <2>1. PICK f : f = GetBlock(next)
    OBVIOUS
  <2>2. phase' = "forced" /\ block' = f
    BY <1>10, <2>1 DEF Goto
  <2>3. /\ next \in Hash /\ next # <<>> /\ Front(next) = h /\ OnceOnTip(next) /\ Follows(next, done)
        /\ IsPrefix(known.hash, h) /\ OnceOnTip(tip)
    BY <1>1, <1>2, <1>5 DEF Course, Onto
  <2>4. IsPrefix(known.hash, next)
    BY <1>1, <1>2, <2>3, FrontFacts, PrefixOrder
  <2>5. f.hash = next /\ \A n \in f.next : n # <<>> /\ Front(n) = next /\ AtTip(n) /\ OnceOnTip(n)
    BY <1>1, <2>1, <2>3, FetchedFacts
  <2>6. Course(known, done, "forced", f)
    BY <1>5, <2>3, <2>4, <2>5 DEF Course, Onto, Follows
  <2>7. ASSUME NEW w \in Watch, Subject(w)' PROVE Served(w, watch'[w], known, done, "forced", f, k)
    <3>1. Served(w, watch[w], known, done, "process", block, k)
      BY <1>6, <1>7, <2>7
    <3> QED
      BY <1>2, <1>3, <1>4, <2>3, <2>5, <3>1 DEF Served
  <2> QED
    BY <1>3, <1>8, <2>2, <2>6, <2>7, OnCourseAfter
<1> QED
  BY <1>4, <1>9, <1>10

(***************************************************************************)
(* A block that is counted: where the monitor may be then, and that a watch*)
(* which is counted for it has what it should have.                        *)
(***************************************************************************)
LEMMA CountedCourse ==
    ASSUME IInv, NEW known \in Fetched, OnCourse(known), Processing,
           NEW left, left \subseteq Done \cup {block.hash}
    PROVE  /\ Course(known, left, "idle", Start)
           /\ block.next = {} => Course(block, left, "idle", Start)
           /\ \A next \in block.next : Course(known, left, "process", GetBlock(next))
<1>1. /\ tip \in Hash /\ Done \subseteq Hash /\ known.hash \in Hash /\ block.hash \in Hash
      /\ block.next \subseteq Hash
  BY OnCourseTypes DEF Fetched
<1>2. PICK done, h : done = Done /\ h = block.hash
  OBVIOUS
<1>3. phase \in {"process", "forced"} /\ Course(known, done, phase, block)
  BY <1>2 DEF Processing, OnCourse
<1>4. /\ OnceOnTip(tip) /\ \A s \in done : OnceOnTip(s)
      /\ OnceOnTip(known.hash) /\ Follows(known.hash, done)
      /\ known.next # {} => Len(tip) > Len(known.hash)
      /\ IsPrefix(known.hash, h) /\ OnceOnTip(h) /\ Follows(h, done)
      /\ \A n \in block.next : n # <<>> /\ Front(n) = h /\ OnceOnTip(n) /\ Follows(n, done)
  BY <1>2, <1>3 DEF Course, Onto
<1>5. \A s \in left : OnceOnTip(s) /\ (s \in done \/ s = h)
  BY <1>2, <1>4
<1>6. Follows(known.hash, left)
  <2>1. AtTip(h) => AtTip(known.hash)
    BY <1>1, <1>2, <1>4, PrefixOrder DEF AtTip
  <2> QED
    BY <1>4, <1>5, <2>1 DEF Follows
<1>7. Follows(h, left)
  BY <1>4, <1>5 DEF Follows
<1>8. Course(known, left, "idle", Start)
  BY <1>4, <1>5, <1>6 DEF Course
<1>9. block.next = {} => Course(block, left, "idle", Start)
  BY <1>2, <1>4, <1>5, <1>7 DEF Course
<1>10. ASSUME NEW next \in block.next PROVE Course(known, left, "process", GetBlock(next))
  <2>1. PICK f : f = GetBlock(next)
    OBVIOUS
  <2>2. /\ next \in Hash /\ next # <<>> /\ Front(next) = h /\ OnceOnTip(next) /\ Follows(next, done)
    BY <1>1, <1>4
  <2>3. IsPrefix(h, next) /\ IsPrefix(known.hash, next)
    BY <1>1, <1>2, <1>4, <2>2, FrontFacts, PrefixOrder
  <2>4. f.hash = next /\ \A n \in f.next : n # <<>> /\ Front(n) = next /\ AtTip(n) /\ OnceOnTip(n)
    BY <1>1, <1>4, <2>1, <2>2, FetchedFacts
  <2>5. Follows(next, left)
    BY <1>5, <2>2, <2>3 DEF Follows
  <2>6. Onto(f, left)
    BY <2>4 DEF Onto, Follows
  <2> QED
    BY <1>4, <1>5, <1>6, <2>1, <2>2, <2>3, <2>4, <2>5, <2>6 DEF Course
<1> QED
  BY <1>8, <1>9, <1>10

LEMMA CountedServed ==
    ASSUME Forms = {"confirm"}, IInv, NEW known \in Fetched, OnCourse(known), Processing,
           NEW left, left \subseteq Done \cup {block.hash},
           NEW w \in Watch, Subject(w), NEW r, r = Counted(w, block.hash), NEW k
    PROVE  /\ Served(w, r, known, left, "idle", Start, k)
           /\ Served(w, r, block, left, "idle", Start, k)
           /\ \A next \in block.next : Served(w, r, known, left, "process", GetBlock(next), k)
<1>1. /\ tip \in Hash /\ Done \subseteq Hash /\ known.hash \in Hash /\ block.hash \in Hash
      /\ block.next \subseteq Hash /\ watch \in [Watch -> WatchRecord]
  BY OnCourseTypes DEF Fetched
<1>2. PICK done, h, old : done = Done /\ h = block.hash /\ old = watch[w]
  OBVIOUS
<1>3. /\ phase \in {"process", "forced"} /\ Course(known, done, phase, block)
      /\ Served(w, old, known, done, phase, block, Len(orphaned))
  BY <1>2 DEF Processing, OnCourse
<1>4. /\ OnceOnTip(tip)
      /\ \A n \in block.next : n # <<>> /\ Front(n) = h /\ OnceOnTip(n)
  BY <1>2, <1>3 DEF Course, Onto
<1>5. /\ \A s \in done : AtTip(s) => Credited(old, w, s, 0)
      /\ Credited(old, w, known.hash, 0)
      /\ h # <<>> => Credited(old, w, Front(h), 0)
      /\ \A n \in block.next : n \in done => Credited(old, w, n, 0)
  BY <1>2, <1>3 DEF Served
<1>6. /\ Credited(r, w, h, 0)
      /\ \A s \in Hash : Credited(old, w, s, 0) => Credited(r, w, s, 0)
  BY <1>1, <1>2, <1>5, CountedCredited
<1>7. /\ \A s \in left : AtTip(s) => Credited(r, w, s, 0)
      /\ Credited(r, w, known.hash, 0)
      /\ \A n \in block.next : n \in left => Credited(r, w, n, 0)
  BY <1>1, <1>2, <1>5, <1>6
<1>8. ASSUME NEW next \in block.next
      PROVE  Served(w, r, known, left, "process", GetBlock(next), k)
  <2>1. PICK f : f = GetBlock(next)
    OBVIOUS
  <2>2. f.hash = next /\ \A n \in f.next : AtTip(n)
    BY <1>1, <1>4, <2>1, FetchedFacts
  <2> QED
    BY <1>4, <1>6, <1>7, <2>1, <2>2 DEF Served
<1> QED
  BY <1>2, <1>6, <1>7, <1>8 DEF Served

LEMMA ProcessBlockOnCourse ==
    ASSUME Forms = {"confirm"}, IInv, NEW known \in Fetched, OnCourse(known), ProcessBlock
    PROVE  \E on \in Fetched : OnCourse(on)'
<1>1. /\ tip \in Hash /\ Done \subseteq Hash /\ block \in Fetched /\ block.hash \in Hash
      /\ watch \in [Watch -> WatchRecord] /\ seen \in [DOMAIN seen -> Seq(Watch)]
      /\ DOMAIN seen \subseteq Hash /\ IsFiniteSet(DOMAIN seen)
      /\ Listed(watch, seen) /\ Settings(watch)
  BY OnCourseTypes DEF IInv, TypeOK, OnCourse
<1>2. PICK h : h = block.hash
  OBVIOUS
<1>3. /\ Processing /\ Advance /\ processed' = {h}
      /\ tip' = tip /\ forks' = forks /\ late' = late /\ raised' = raised /\ orphaned' = orphaned
  BY <1>2 DEF ProcessBlock, chain
<1>4. PICK order \in SetToSeqs(Watching) :
         \E counted \in {CountAll(order, h)} :
         \E due \in {Due(counted.watch, order)} :
         \E left \in {RemoveAll(FlagAll(counted, order, h), due, order)} :
            watch' = left.watch /\ seen' = NonEmpty(left.seen)
  BY <1>2, Zenon DEF ProcessBlock
<1>5. PICK counted, due, left :
         /\ counted = CountAll(order, h) /\ due = Due(counted.watch, order)
         /\ left = RemoveAll(FlagAll(counted, order, h), due, order)
         /\ watch' = left.watch /\ seen' = NonEmpty(left.seen)
  BY <1>4, Zenon
<1>6. left = RemoveAll(counted, due, order)
  <2>1. FlagAll(counted, order, h) = counted
    BY <1>1, <1>2, <1>5, FlagAllSame
  <2> QED
    BY <1>5, <2>1
<1>7. /\ order \in Seq(Watch) /\ ToSet(order) = Watching
      /\ \A i, j \in DOMAIN order : order[i] = order[j] => i = j
  <2>1. Watching \subseteq Watch /\ IsFiniteSet(Watching)
    BY MonitorAssumption, FS_Subset DEF Watching
  <2>2. order \in Seq(Watch)
    BY OrdersType
  <2> QED
    BY <2>1, <2>2, OrderIsAll, OrderOnce
<1>8. PICK D : D = DOMAIN seen \cup {h}
  OBVIOUS
<1>9. /\ Listed(counted.watch, counted.seen) /\ counted.seen \in [D -> Seq(Watch)]
      /\ D \subseteq Hash /\ IsFiniteSet(D)
  <2>1. Listed(counted.watch, counted.seen)
    BY <1>1, <1>2, <1>5, <1>7, CountAllListed
  <2>2. counted.seen \in [D -> Seq(Watch)]
    BY <1>1, <1>5, <1>7, <1>8, CountAllSeen
  <2> QED
    BY <1>1, <1>2, <1>8, <2>1, <2>2, FS_AddElement
<1>10. /\ Settings(counted.watch) /\ counted.watch \in [Watch -> WatchRecord]
       /\ \A w \in Watch : /\ counted.watch[w].status = watch[w].status
                           /\ w \in Watching => counted.watch[w] = Counted(w, h)
  <2>1. Sound(watch)
    BY DEF IInv
  <2>2. counted.watch \in [Watch -> WatchRecord]
    BY <1>1, <1>2, <1>5, <1>7, <2>1, CountAllType
  <2>3. PICK ws : ws = CountAll(order, h).watch
    OBVIOUS
  <2>4. /\ Settings(ws)
        /\ \A w \in Watch : /\ ws[w].status = watch[w].status
                            /\ w \in ToSet(order) => ws[w] = Counted(w, h)
    BY <1>1, <1>2, <1>7, <2>3, CountedSettings
  <2> QED
    BY <1>5, <1>7, <2>2, <2>3, <2>4
<1>11. /\ Settings(left.watch)
       /\ \A w \in Watch : left.watch[w].status # "gone" => left.watch[w] = counted.watch[w]
  BY <1>6, <1>10, RemoveAllSettings
<1>12. Listed(left.watch, left.seen) /\ left.seen \in [D -> Seq(Watch)]
  <2>1. due \subseteq ToSet(order)
    BY <1>5 DEF Due
  <2> QED
    BY <1>6, <1>7, <1>9, <2>1, RemoveAllListed, RemoveAllSeen
<1>13. Listed(watch', seen') /\ Settings(watch)'
  <2>1. Listed(watch', seen')
    BY <1>5, <1>12, NonEmptyListed
  <2>2. Settings(watch)'
    BY <1>3, <1>5, <1>11 DEF Settings
  <2> QED
    BY <2>1, <2>2
<1>14. PICK done, k : done = Done' /\ k = Len(orphaned')
  OBVIOUS
<1>15. done \subseteq Done \cup {block.hash}
  <2>1. DOMAIN seen' \subseteq D
    BY <1>5, <1>9, <1>12, NonEmptyType
  <2> QED
    BY <1>2, <1>3, <1>8, <1>14, <2>1 DEF Done
<1>16. \A w \in Watch : Subject(w)' => Subject(w) /\ watch'[w] = Counted(w, block.hash)
  <2> SUFFICES ASSUME NEW w \in Watch, Subject(w)'
               PROVE  Subject(w) /\ watch'[w] = Counted(w, block.hash)
    OBVIOUS
  <2>1. left.watch[w].status = "watching" /\ left.watch[w] = counted.watch[w]
    BY <1>5, <1>11 DEF Subject
  <2>2. watch[w].status = "watching" /\ w \in Watching
    BY <1>10, <2>1 DEF Watching
  <2> QED
    BY <1>2, <1>3, <1>5, <1>10, <2>1, <2>2 DEF Subject
<1>17. /\ Course(known, done, "idle", Start)
       /\ block.next = {} => Course(block, done, "idle", Start)
       /\ \A next \in block.next : Course(known, done, "process", GetBlock(next))
  BY <1>3, <1>15, CountedCourse
<1>18. ASSUME NEW w \in Watch, Subject(w)'
       PROVE  /\ Served(w, watch'[w], known, done, "idle", Start, k)
              /\ Served(w, watch'[w], block, done, "idle", Start, k)
              /\ \A next \in block.next :
                    Served(w, watch'[w], known, done, "process", GetBlock(next), k)
  <2>1. PICK r : r = Counted(w, block.hash)
    OBVIOUS
  <2>2. Subject(w) /\ watch'[w] = r
    BY <1>16, <1>18, <2>1
  <2>3. /\ Served(w, r, known, done, "idle", Start, k)
        /\ Served(w, r, block, done, "idle", Start, k)
        /\ \A next \in block.next : Served(w, r, known, done, "process", GetBlock(next), k)
    BY <1>3, <1>15, <2>1, <2>2, CountedServed
  <2> QED
    BY <2>2, <2>3
<1>19. CASE block.next = {} /\ latest' = {block} /\ Goto("idle", Start)
  <2>1. phase' = "idle" /\ block' = Start
    BY <1>19 DEF Goto
  <2>2. PICK b : b = block
    OBVIOUS
  <2>3. \A w \in Watch : Subject(w)' => Served(w, watch'[w], b, done, "idle", Start, k)
    BY <1>18, <2>2
  <2>4. OnCourse(b)'
    BY <1>3, <1>13, <1>14, <1>17, <1>19, <2>1, <2>2, <2>3, OnCourseAfter
  <2> QED
    BY <1>1, <2>2, <2>4
<1>20. CASE latest' = latest /\ Goto("idle", Start)
  <2>1. phase' = "idle" /\ block' = Start /\ latest' = {known}
    BY <1>20 DEF Goto, OnCourse
  <2>2. OnCourse(known)'
    BY <1>3, <1>13, <1>14, <1>17, <1>18, <2>1, OnCourseAfter
  <2> QED
    BY <2>2
<1>21. ASSUME NEW next \in block.next, latest' = latest, Goto("process", GetBlock(next))
       PROVE  OnCourse(known)'
  <2>1. PICK b : b = GetBlock(next)
    OBVIOUS
  <2>2. phase' = "process" /\ block' = b /\ latest' = {known}
    BY <1>21, <2>1 DEF Goto, OnCourse
  <2>3. Course(known, done, "process", b)
    BY <1>17, <2>1
  <2>4. \A w \in Watch : Subject(w)' => Served(w, watch'[w], known, done, "process", b, k)
    BY <1>18, <2>1
  <2> QED
    BY <1>3, <1>13, <1>14, <2>2, <2>3, <2>4, OnCourseAfter
<1>22. \/ block.next = {} /\ latest' = {block} /\ Goto("idle", Start)
       \/ latest' = latest /\ Goto("idle", Start)
       \/ \E next \in block.next : latest' = latest /\ Goto("process", GetBlock(next))
  BY <1>3 DEF Advance, Reached, Onward, Unfetched
<1> QED
  BY <1>19, <1>20, <1>21, <1>22

LEMMA CallbackRaisesOnCourse ==
    ASSUME Forms = {"confirm"}, IInv, NEW known \in Fetched, OnCourse(known), CallbackRaises
    PROVE  OnCourse(known)'
<1>1. /\ tip \in Hash /\ Done \subseteq Hash /\ block.hash \in Hash
      /\ watch \in [Watch -> WatchRecord] /\ seen \in [DOMAIN seen -> Seq(Watch)]
      /\ DOMAIN seen \subseteq Hash /\ IsFiniteSet(DOMAIN seen)
      /\ Listed(watch, seen) /\ Settings(watch)
  BY OnCourseTypes DEF IInv, TypeOK, OnCourse
<1>2. PICK h : h = block.hash
  OBVIOUS
<1>3. /\ Processing /\ Goto("idle", Start)
      /\ tip' = tip /\ forks' = forks /\ late' = late /\ orphaned' = orphaned /\ latest' = latest
      /\ processed' = processed
  BY DEF CallbackRaises, chain
<1>0. PICK order \in SetToSeqs(Watching) : \E n \in DOMAIN order :
         \E counted \in {CountAll(SubSeq(order, 1, n), h)} :
            watch' = counted.watch /\ seen' = NonEmpty(counted.seen) /\ raised' = raised \cup {order[n]}
  BY <1>2, ZenonT(40) DEF CallbackRaises
<1>4. PICK n \in DOMAIN order : \E counted \in {CountAll(SubSeq(order, 1, n), h)} :
         watch' = counted.watch /\ seen' = NonEmpty(counted.seen) /\ raised' = raised \cup {order[n]}
  BY <1>0, Zenon
<1>5. PICK some, counted :
         /\ some = SubSeq(order, 1, n) /\ counted = CountAll(some, h)
         /\ watch' = counted.watch /\ seen' = NonEmpty(counted.seen) /\ raised' = raised \cup {order[n]}
  BY <1>4, Zenon
<1>6. /\ some \in Seq(Watch) /\ ToSet(some) \subseteq Watching /\ order[n] \in ToSet(some)
      /\ \A i, j \in DOMAIN some : some[i] = some[j] => i = j
  <2>1. Watching \subseteq Watch /\ IsFiniteSet(Watching)
    BY MonitorAssumption, FS_Subset DEF Watching
  <2>2. order \in Seq(Watch) /\ some \in Seq(Watch) /\ n \in 1 .. Len(order)
    BY <1>5, OrdersType
  <2>3. ToSet(order) = Watching /\ \A i, j \in DOMAIN order : order[i] = order[j] => i = j
    BY <2>1, OrderIsAll, OrderOnce
  <2>4. DOMAIN some = 1 .. n /\ n \in DOMAIN some /\ \A i \in 1 .. n : some[i] = order[i]
    BY <1>5, <2>2
  <2>5. 1 .. n \subseteq DOMAIN order
    BY <2>2
  <2>6. ToSet(some) \subseteq ToSet(order) /\ order[n] \in ToSet(some)
    BY <2>4, <2>5 DEF ToSet
  <2> QED
    BY <2>2, <2>3, <2>4, <2>5, <2>6
<1>7. PICK D : D = DOMAIN seen \cup {h}
  OBVIOUS
<1>8. /\ Listed(counted.watch, counted.seen) /\ counted.seen \in [D -> Seq(Watch)]
      /\ D \subseteq Hash /\ IsFiniteSet(D)
  <2>1. Listed(counted.watch, counted.seen)
    BY <1>1, <1>2, <1>5, <1>6, CountAllListed
  <2>2. counted.seen \in [D -> Seq(Watch)]
    BY <1>1, <1>5, <1>6, <1>7, CountAllSeen
  <2> QED
    BY <1>1, <1>2, <1>7, <2>1, <2>2, FS_AddElement
<1>9. /\ Settings(counted.watch)
      /\ \A w \in Watch : /\ counted.watch[w].status = watch[w].status
                          /\ w \in ToSet(some) => counted.watch[w] = Counted(w, h)
  <2>1. PICK ws : ws = CountAll(some, h).watch
    OBVIOUS
  <2>2. /\ Settings(ws)
        /\ \A w \in Watch : /\ ws[w].status = watch[w].status
                            /\ w \in ToSet(some) => ws[w] = Counted(w, h)
    BY <1>1, <1>2, <1>6, <2>1, CountedSettings
  <2> QED
    BY <1>5, <2>1, <2>2
<1>10. Listed(watch', seen') /\ Settings(watch)'
  <2>1. Listed(watch', seen')
    BY <1>5, <1>8, NonEmptyListed
  <2>2. Settings(watch)'
    BY <1>3, <1>5, <1>9 DEF Settings
  <2> QED
    BY <2>1, <2>2
<1>11. PICK done, k : done = Done' /\ k = Len(orphaned')
  OBVIOUS
<1>12. done \subseteq Done \cup {block.hash}
  <2>1. DOMAIN seen' \subseteq D
    BY <1>5, <1>8, NonEmptyType
  <2> QED
    BY <1>2, <1>3, <1>7, <1>11, <2>1 DEF Done
<1>13. \A w \in Watch : Subject(w)' => Subject(w) /\ watch'[w] = Counted(w, block.hash)
  <2> SUFFICES ASSUME NEW w \in Watch, Subject(w)'
               PROVE  Subject(w) /\ watch'[w] = Counted(w, block.hash)
    OBVIOUS
  <2>1. w = order[n] /\ raised \subseteq {w}
    BY <1>5 DEF Subject
  <2>2. watch[w].status = "watching" /\ watch'[w] = Counted(w, h)
    BY <1>5, <1>6, <1>9, <2>1 DEF Subject
  <2> QED
    BY <1>2, <1>3, <2>1, <2>2 DEF Subject
<1>14. Course(known, done, "idle", Start)
  BY <1>3, <1>12, CountedCourse
<1>15. \A w \in Watch : Subject(w)' => Served(w, watch'[w], known, done, "idle", Start, k)
  <2> SUFFICES ASSUME NEW w \in Watch, Subject(w)'
               PROVE  Served(w, watch'[w], known, done, "idle", Start, k)
    OBVIOUS
  <2>1. PICK r : r = Counted(w, block.hash)
    OBVIOUS
  <2>2. Subject(w) /\ watch'[w] = r
    BY <1>13, <2>1
  <2>3. Served(w, r, known, done, "idle", Start, k)
    BY <1>3, <1>12, <2>1, <2>2, CountedServed
  <2> QED
    BY <2>2, <2>3
<1>16. phase' = "idle" /\ block' = Start /\ latest' = {known}
  BY <1>3 DEF Goto, OnCourse
<1> QED
  BY <1>3, <1>10, <1>11, <1>14, <1>15, <1>16, OnCourseAfter

(***************************************************************************)
(* A call that raises on the walk back would lose the latest block; but    *)
(* then there was a reorganisation before.                                 *)
(***************************************************************************)
LEMMA CallRaisesOnCourse ==
    ASSUME IInv, NEW known \in Fetched, OnCourse(known), CallRaises, Regular'
    PROVE  OnCourse(known)'
<1>1. forks \in Nat /\ failures \in Nat
  BY OnCourseTypes
<1>2. PICK done, k : done = Done /\ k = Len(orphaned)
  OBVIOUS
<1>3. /\ tip' = tip /\ forks' = forks /\ Done' = done /\ Len(orphaned') = k /\ failures' = failures + 1
      /\ watch' = watch /\ seen' = seen /\ late' = late /\ raised' = raised
      /\ phase' = "idle" /\ block' = Start
  BY <1>2 DEF CallRaises, chain, Done, Goto
<1>4. Course(known, done, phase, block)
  BY <1>2 DEF OnCourse
<1>5. phase # "walk"
  <2>1. forks = 0
    BY <1>1, <1>3 DEF Regular
  <2> QED
    BY <1>4, <2>1 DEF Course, OnceOnTip
<1>6. latest' = {known}
  BY <1>5 DEF CallRaises, OnCourse
<1>7. Course(known, done, "idle", Start)
  BY <1>4 DEF Course
<1>8. Listed(watch', seen') /\ Settings(watch)'
  BY <1>3 DEF OnCourse, Settings
<1>9. \A w \in Watch : Subject(w)' => Served(w, watch'[w], known, done, "idle", Start, k)
  <2>1. \A w \in Watch : Subject(w)' => Subject(w) /\ watch'[w] = watch[w]
    BY <1>3 DEF Subject
  <2> QED
    BY <1>2, <2>1 DEF OnCourse, Served
<1> QED
  BY <1>2, <1>3, <1>6, <1>7, <1>8, <1>9, OnCourseAfter

LEMMA InitFaithful == Init => Faithful
<1> SUFFICES ASSUME Init PROVE \E known \in Fetched : OnCourse(known)
  BY DEF Faithful
<1>1. Start \in Fetched /\ Start.hash = <<>> /\ Start.next = {} /\ <<>> \in Hash /\ Len(<<>>) = 0
  BY DEF Start, Fetched, Hash
<1>2. tip = <<>> /\ phase = "idle" /\ block = Start /\ latest = {Start} /\ Done = {} /\ DOMAIN seen = {}
  BY DEF Init, Done
<1>3. OnceOnTip(<<>>)
  <2>1. AtTip(<<>>)
    BY <1>1, <1>2, PrefixOrder DEF AtTip
  <2>2. DOMAIN <<>> = {}
    OBVIOUS
  <2> QED
    BY <2>1, <2>2 DEF OnceOnTip
<1>4. Course(Start, Done, phase, block)
  BY <1>1, <1>2, <1>3 DEF Course, Follows
<1>5. Listed(watch, seen)
  BY <1>2 DEF Listed
<1>6. \A w \in Watch : watch[w].status = "new" /\ watch[w].event = "none"
  BY DEF Init
<1>7. Settings(watch)
  BY <1>6 DEF Settings
<1>8. \A w \in Watch : ~Subject(w)
  BY <1>6 DEF Subject
<1> QED
  BY <1>1, <1>2, <1>4, <1>5, <1>7, <1>8 DEF OnCourse

LEMMA Disturbances ==
    ASSUME IInv, [Next]_vars
    PROVE  /\ forks' = forks \/ forks' = forks + 1
           /\ failures' = failures \/ failures' = failures + 1
<1>1. CASE Mine \/ Reorganise
  BY <1>1 DEF Mine, Reorganise
<1>2. ASSUME NEW w \in Watch, AddWatch(w) PROVE UNCHANGED <<forks, failures>>
  BY <1>2 DEF AddWatch, chain
<1>3. CASE Recover \/ StartCheck \/ SkipBlock
  BY <1>3 DEF Recover, StartCheck, SkipBlock, chain
<1>4. CASE WalkBack
  <2>1. UNCHANGED <<chain, failures>>
    BY <1>4 DEF WalkBack
  <2> QED
    BY <2>1 DEF chain
<1>5. CASE ProcessBlock
  <2>1. Advance /\ UNCHANGED chain
    BY <1>5 DEF ProcessBlock
  <2> QED
    BY <2>1 DEF chain, Advance, Reached, Onward, Unfetched
<1>6. CASE CallbackRaises
  <2>1. \E order \in SetToSeqs(Watching) : \E n \in DOMAIN order :
           IF watch[order[n]].status = "stuck" THEN UNCHANGED failures
           ELSE failures < MaxFailures /\ failures' = failures + 1
    BY <1>6, ZenonT(40) DEF CallbackRaises
  <2>2. UNCHANGED chain
    BY <1>6 DEF CallbackRaises
  <2> QED
    BY <2>1, <2>2 DEF chain
<1>7. CASE CallRaises
  BY <1>7 DEF CallRaises, chain
<1>8. CASE UNCHANGED vars
  BY <1>8 DEF vars, chain
<1> QED
  BY <1>1, <1>2, <1>3, <1>4, <1>5, <1>6, <1>7, <1>8 DEF Next, Check

LEMMA FaithfulStep ==
    ASSUME Forms = {"confirm"}, IInv, Faithful, [Next]_vars
    PROVE  Faithful'
<1> SUFFICES ASSUME Regular' PROVE \E known \in Fetched : OnCourse(known)'
  BY DEF Faithful, Fetched, Hash, Block
<1>1. Regular
  <2>1. forks \in Nat /\ failures \in Nat
    BY OnCourseTypes
  <2>2. forks' = 0 \/ failures' = 0
    BY DEF Regular
  <2> QED
    BY <2>1, <2>2, Disturbances DEF Regular
<1>2. PICK known \in Fetched : OnCourse(known)
  BY <1>1 DEF Faithful
<1>3. CASE Mine \/ Reorganise
  BY <1>2, <1>3, ChainOnCourse
<1>4. ASSUME NEW w \in Watch, AddWatch(w) PROVE OnCourse(known)'
  BY <1>2, <1>4, AddWatchOnCourse
<1>5. CASE Recover
  BY <1>2, <1>5 DEF Recover, OnCourse
<1>6. CASE StartCheck
  BY <1>2, <1>6, StartCheckOnCourse
<1>7. CASE WalkBack
  BY <1>2, <1>7, WalkBackOnCourse
<1>8. CASE SkipBlock
  BY <1>2, <1>8, SkipBlockOnCourse
<1>9. CASE ProcessBlock
  BY <1>2, <1>9, ProcessBlockOnCourse
<1>10. CASE CallbackRaises
  BY <1>2, <1>10, CallbackRaisesOnCourse
<1>11. CASE CallRaises
  BY <1>2, <1>11, CallRaisesOnCourse
<1>12. CASE UNCHANGED vars
  <2>1. OnCourse(known)'
    BY <1>2, <1>12 DEF vars, chain, monitor, OnCourse, Course, Served, Subject, Done, Listed, Settings,
       Follows, Onto, OnceOnTip, AtTip, Split, Credited, Stands
  <2> QED
    BY <2>1
<1> QED
  BY <1>2, <1>3, <1>4, <1>5, <1>6, <1>7, <1>8, <1>9, <1>10, <1>11, <1>12 DEF Next, Check

LEMMA FaithfulAlways ==
    ASSUME Forms = {"confirm"}
    PROVE  Spec => [](IInv /\ Faithful)
<1>1. Init => IInv /\ Faithful
  BY InitTypes, InitFaithful
<1>2. IInv /\ Faithful /\ [Next]_vars => IInv' /\ Faithful'
  BY StepTypes, FaithfulStep
<1> QED
  BY <1>1, <1>2, PTL DEF Spec

(***************************************************************************)
(* What it means for a watch between two checks.                           *)
(***************************************************************************)
LEMMA FaithfulCounts ==
    ASSUME Forms = {"confirm"}, IInv, Faithful, phase = "idle",
           NEW known \in latest, IsPrefix(known.hash, tip),
           NEW w \in Watching, w \notin late, Undisturbed(w)
    PROVE  /\ watch[w].event # "none" => watch[w].tx = {Watched(w)}
           /\ \A tx \in Own(w) : Depth(tx, known.hash) > 0 =>
                 watch[w].event # "none" /\ watch[w].confirmations >= Depth(tx, known.hash)
<1>1. /\ tip \in Hash /\ watch \in [Watch -> WatchRecord] /\ w \in Watch
  BY OnCourseTypes DEF Watching
<1>2. PICK at \in Fetched : OnCourse(at)
  BY DEF Faithful, Undisturbed, Regular
<1>3. known = at /\ known.hash \in Hash
  BY <1>2 DEF OnCourse, Fetched
<1>4. Subject(w)
  BY <1>1, <1>2 DEF OnCourse, Settings, Watching, Subject, Undisturbed
<1>5. watch[w].event # "none" => watch[w].tx = {Watched(w)}
  BY <1>1, <1>2, <1>4 DEF OnCourse, Settings, Subject
<1>6. Credited(watch[w], w, known.hash, 0)
  BY <1>1, <1>2, <1>3, <1>4 DEF OnCourse, Served
<1>7. ASSUME NEW tx \in Own(w), Depth(tx, known.hash) > 0
      PROVE  watch[w].event # "none" /\ watch[w].confirmations >= Depth(tx, known.hash)
  <2>1. tx = Watched(w)
    <3> SUFFICES ASSUME tx # Watched(w) PROVE FALSE
      OBVIOUS
    <3>1. tx = <<w, "mutate">>
      BY DEF Own, Watched
    <3>2. tx \notin Tx
      BY <3>1 DEF Tx
    <3>3. \A i \in DOMAIN known.hash : tx \notin ToSet(known.hash[i].txs)
      <4> SUFFICES ASSUME NEW i \in DOMAIN known.hash PROVE tx \notin ToSet(known.hash[i].txs)
        OBVIOUS
      <4>0. known.hash[i] \in Block
        BY <1>3 DEF Hash
      <4>1. known.hash[i].txs \in Seq(Tx)
        BY <4>0 DEF Block
      <4> QED
        BY <3>2, <4>1 DEF ToSet
    <3>4. Deeper(tx, known.hash) = {}
      <4>1. \A i \in DOMAIN known.hash : 1 .. i \subseteq DOMAIN known.hash
        BY <1>3 DEF Hash
      <4> QED
        BY <3>3, <4>1 DEF Deeper
    <3> QED
      BY <1>3, <1>7, <3>4, DepthType, FS_EmptySet
  <2>2. Stands(w, known.hash)
    BY <1>1, <1>3, <1>7, <2>1, StandsFacts DEF AtTip
  <2>3. watch[w].confirmations \in Nat /\ Depth(Watched(w), known.hash) \in Nat
    BY <1>1, <1>3, DepthType DEF WatchRecord
  <2> QED
    BY <1>6, <2>1, <2>2, <2>3 DEF Credited
<1> QED
  BY <1>5, <1>7

(***************************************************************************)
(* NothingMissed: between two checks, a watched transaction in a block up  *)
(* to the latest one was found.  So a reorganisation makes the monitor pass*)
(* over no block of the new chain, and neither does an RPC error, wherever *)
(* it hits the check (tx_monitor.py:161-273).                              *)
(***************************************************************************)
THEOREM NoBlockPassedOver ==
    ASSUME Forms = {"confirm"}
    PROVE  Spec => []NothingMissed
<1>1. IInv /\ Faithful => NothingMissed
  BY FaithfulCounts DEF NothingMissed
<1> QED
  BY <1>1, FaithfulAlways, PTL

(***************************************************************************)
(* NeverUndercounted: what the orphans take away from a watch is no more   *)
(* than their confirmations (tx_monitor.py:219-242), so that its count is  *)
(* not below the depth of its transaction.                                 *)
(***************************************************************************)
THEOREM DepthIsCounted ==
    ASSUME Forms = {"confirm"}
    PROVE  Spec => []NeverUndercounted
<1>1. IInv /\ Faithful => NeverUndercounted
  <2> SUFFICES ASSUME IInv, Faithful, phase = "idle", NEW known \in latest, IsPrefix(known.hash, tip),
                      NEW w \in Watching, w \notin late, Undisturbed(w),
                      NEW tx \in watch[w].tx, watch[w].event # "none"
               PROVE  watch[w].confirmations >= Depth(tx, known.hash)
    BY DEF NeverUndercounted
  <2>1. tx = Watched(w) /\ Watched(w) \in Own(w)
    BY FaithfulCounts DEF Watched, Own
  <2>2. Depth(tx, known.hash) > 0 => watch[w].confirmations >= Depth(tx, known.hash)
    BY <2>1, FaithfulCounts
  <2>3. known.hash \in Hash /\ watch[w].confirmations \in Nat
    BY OnCourseTypes DEF IInv, TypeOK, Fetched, WatchRecord, Watching
  <2>4. Depth(tx, known.hash) \in Nat
    BY <2>3, DepthType
  <2> QED
    BY <2>2, <2>3, <2>4
<1> QED
  BY <1>1, FaithfulAlways, PTL
=============================================================================
