-------------------------- MODULE Documents_proofs --------------------------
(***************************************************************************)
(* What is read of the index, for every value of the constants.  hyp-repair*)
(* leaves no document without its block when a repair is interrupted, its  *)
(* scans report exactly what is wrong with the index, and when it is done  *)
(* every line of its file was read again.  get_actions answers the page    *)
(* that was asked for, and get_transaction one execution.                  *)
(***************************************************************************)
EXTENDS Repair, HistoryApi, TransactionLookup,
        FiniteSetTheorems, SequenceTheorems, WellFoundedInduction, TLAPS

-----------------------------------------------------------------------------
(* Numbers and recursive definitions *)

\* Every set of naturals that is not empty has a least element.
LEMMA LeastNumber ==
  ASSUME NEW T \in SUBSET Nat, T # {}
  PROVE  \E m \in T : \A k \in T : m <= k
  <1> DEFINE less == {p \in Nat \X Nat : p[1] < p[2]}
  <1>1. IsWellFoundedOn(OpToRel(<, Nat), Nat) BY NatLessThanWellFounded
  <1>2. OpToRel(<, Nat) = less BY DEF OpToRel
  <1>3. PICK x \in T : \A y \in T : <<y, x>> \notin less
    <2>. HIDE DEF less
    <2>. QED BY <1>1, <1>2, WFMin
  <1>4. ASSUME NEW y \in T PROVE x <= y
    <2>1. x \in Nat /\ y \in Nat /\ <<y, x>> \in Nat \X Nat OBVIOUS
    <2>2. ~ (y < x) BY <1>3, <2>1
    <2>. QED BY <2>1, <2>2
  <1>. QED BY <1>4

\* Induction up to n, for a set of numbers.
LEMMA Ascend ==
  ASSUME NEW n \in Nat, NEW P, 0 \in P, \A k \in 1 .. n : k - 1 \in P => k \in P
  PROVE  \A k \in 0 .. n : k \in P
  <1> DEFINE T == {k \in 0 .. n : k \notin P}
  <1>. SUFFICES ASSUME T # {} PROVE FALSE OBVIOUS
  <1>1. T \in SUBSET Nat OBVIOUS
  <1>2. PICK m \in T : \A k \in T : m <= k
    <2>. HIDE DEF T
    <2>. QED BY <1>1, LeastNumber
  <1>3. m \in 1 .. n /\ m \notin P OBVIOUS
  <1>4. m - 1 \in 0 .. n /\ ~ (m <= m - 1) BY <1>3
  <1>5. m - 1 \in P BY <1>2, <1>4
  <1>. QED BY <1>3, <1>5

\* F computes the value for x from values of lower rank.
Descends(F, D, V, rank) ==
    \A x \in D : \A g, h \in [D -> V] :
        (\A y \in D : rank[y] < rank[x] => g[y] = h[y]) => F[<<x, g>>] = F[<<x, h>>]

Solves(g, F, D) == \A x \in D : g[x] = F[<<x, g>>]

\* A function may be defined by recursion on a bounded rank.
LEMMA BoundedRecursion ==
  ASSUME NEW D, NEW V, NEW v \in V, NEW N \in Nat, NEW rank \in [D -> 0 .. N],
         NEW F \in [D \X [D -> V] -> V], Descends(F, D, V, rank)
  PROVE  \E g \in [D -> V] : Solves(g, F, D)
  <1> DEFINE P == {k \in 0 .. N + 1 :
                      \E h \in [D -> V] : \A x \in D : rank[x] < k => h[x] = F[<<x, h>>]}
  <1>1. 0 \in P
    <2> DEFINE h == [x \in D |-> v]
    <2>1. h \in [D -> V] OBVIOUS
    <2>2. \A x \in D : ~ (rank[x] < 0) OBVIOUS
    <2>3. \A x \in D : rank[x] < 0 => h[x] = F[<<x, h>>] BY <2>2
    <2>4. 0 \in 0 .. N + 1 OBVIOUS
    <2>. HIDE DEF h
    <2>. QED BY <2>1, <2>3, <2>4
  <1>2. ASSUME NEW k \in 1 .. N + 1, k - 1 \in P PROVE k \in P
    <2>1. PICK h \in [D -> V] : \A x \in D : rank[x] < k - 1 => h[x] = F[<<x, h>>] BY <1>2
    <2> DEFINE next_h == [x \in D |-> F[<<x, h>>]]
    <2>2. next_h \in [D -> V] OBVIOUS
    <2>3. \A x \in D : next_h[x] = F[<<x, h>>] OBVIOUS
    <2>. HIDE DEF next_h
    <2>4. ASSUME NEW x \in D, rank[x] < k PROVE next_h[x] = F[<<x, next_h>>]
      <3>1. \A y \in D : rank[y] < rank[x] => rank[y] < k - 1
        BY <2>4
      <3>2. \A y \in D : rank[y] < rank[x] => h[y] = next_h[y] BY <2>1, <2>3, <3>1
      <3>3. F[<<x, h>>] = F[<<x, next_h>>] BY <2>2, <3>2 DEF Descends
      <3>. QED BY <2>3, <3>3
    <2>. QED BY <2>2, <2>4
  <1>3. N + 1 \in P
    <2>1. N + 1 \in Nat /\ N + 1 \in 0 .. N + 1 OBVIOUS
    <2>. HIDE DEF P
    <2>. QED BY <1>1, <1>2, <2>1, Ascend
  <1>4. PICK g \in [D -> V] : \A x \in D : rank[x] < N + 1 => g[x] = F[<<x, g>>] BY <1>3
  <1>5. \A x \in D : rank[x] < N + 1 OBVIOUS
  <1>. QED BY <1>4, <1>5 DEF Solves

\* The greatest element of a set of positions.
LEMMA MaxOfPositions ==
  ASSUME NEW n \in Nat, NEW S \in SUBSET (1 .. n), S # {}
  PROVE  Max(S) \in S /\ \A i \in S : i <= Max(S)
  <1> DEFINE T == {n - i : i \in S}
  <1>0. \A i \in S : i \in Int /\ n - i \in Nat
    <2>1. \A i \in 1 .. n : i \in Int /\ n - i \in Nat OBVIOUS
    <2>. QED BY <2>1
  <1>1. T \in SUBSET Nat /\ T # {} BY <1>0
  <1>2. PICK u \in T : \A w \in T : u <= w
    <2>. HIDE DEF T
    <2>. QED BY <1>1, LeastNumber
  <1>3. PICK m \in S : u = n - m OBVIOUS
  <1>4. \A i \in S : m >= i
    <2>. TAKE i \in S
    <2>1. u <= n - i BY <1>2
    <2>2. i \in 1 .. n /\ m \in 1 .. n OBVIOUS
    <2>. QED BY <1>3, <2>1, <2>2
  <1>5. Max(S) \in S /\ \A i \in S : Max(S) >= i BY <1>4 DEF Max
  <1>. QED BY <1>0, <1>5

LEMMA MaxOfInterval ==
  ASSUME NEW n \in Nat, NEW k \in 1 .. n
  PROVE  1 .. k # {} /\ Max(1 .. k) = k /\ (1 .. k) \ {k} = 1 .. (k - 1)
  <1>1. 1 .. k \in SUBSET (1 .. n) /\ k \in 1 .. k OBVIOUS
  <1>2. Max(1 .. k) \in 1 .. k /\ \A i \in 1 .. k : i <= Max(1 .. k) BY <1>1, MaxOfPositions
  <1>3. Max(1 .. k) = k
    <2>1. PICK m : m = Max(1 .. k) OBVIOUS
    <2>2. m \in 1 .. k /\ k <= m BY <1>1, <1>2, <2>1
    <2>. QED BY <2>1, <2>2
  <1>. QED BY <1>1, <1>3

\* g has what a fold over n positions makes of each set of them.
Tabulates(g, n, base, op) ==
    \A s \in SUBSET (1 .. n) :
        g[s] = IF s = {} THEN base ELSE op[<<g[s \ {Max(s)}], Max(s)>>]

\* The function a fold over n positions is taken from exists.
LEMMA FoldRecursion ==
  ASSUME NEW n \in Nat, NEW V, NEW base \in V, NEW op \in [V \X (1 .. n) -> V]
  PROVE  \E g \in [SUBSET (1 .. n) -> V] : Tabulates(g, n, base, op)
  <1> DEFINE D == SUBSET (1 .. n)
             rank == [s \in D |-> Cardinality(s)]
             F == [p \in D \X [D -> V] |->
                     IF p[1] = {} THEN base
                     ELSE op[<<p[2][p[1] \ {Max(p[1])}], Max(p[1])>>]]
  <1>1. \A s \in D : IsFiniteSet(s) /\ Cardinality(s) \in 0 .. n
    <2>1. IsFiniteSet(1 .. n) /\ Cardinality(1 .. n) = n
      <3>1. Cardinality(1 .. n) = IF 1 > n THEN 0 ELSE n - 1 + 1 BY FS_Interval
      <3>. QED BY <3>1, FS_Interval
    <2>. TAKE s \in D
    <2>2. IsFiniteSet(s) /\ Cardinality(s) <= n
      <3>1. IsFiniteSet(s) /\ Cardinality(s) <= Cardinality(1 .. n) BY <2>1, FS_Subset
      <3>. QED BY <2>1, <3>1
    <2>3. Cardinality(s) \in Nat BY <2>2, FS_CardinalityType
    <2>. QED BY <2>2, <2>3
  <1>2. rank \in [D -> 0 .. n] BY <1>1
  <1>3. \A s \in D : s # {} => /\ Max(s) \in s /\ Max(s) \in 1 .. n /\ s \ {Max(s)} \in D
                               /\ rank[s \ {Max(s)}] < rank[s]
    <2>. SUFFICES ASSUME NEW s \in D, s # {}
                  PROVE  /\ Max(s) \in s /\ Max(s) \in 1 .. n /\ s \ {Max(s)} \in D
                         /\ rank[s \ {Max(s)}] < rank[s]
      OBVIOUS
    <2>1. Max(s) \in s BY MaxOfPositions
    <2>2. Cardinality(s \ {Max(s)}) = Cardinality(s) - 1 BY <1>1, <2>1, FS_RemoveElement
    <2>3. s \ {Max(s)} \in D /\ Max(s) \in 1 .. n BY <2>1
    <2>4. rank[s \ {Max(s)}] = Cardinality(s \ {Max(s)}) /\ rank[s] = Cardinality(s) BY <2>3
    <2>. HIDE DEF rank
    <2>5. Cardinality(s) \in Int BY <1>1
    <2>6. rank[s \ {Max(s)}] < rank[s] BY <2>2, <2>4, <2>5
    <2>. QED BY <2>1, <2>3, <2>6
  <1>4. F \in [D \X [D -> V] -> V]
    <2>. SUFFICES ASSUME NEW s \in D, NEW h \in [D -> V], s # {}
                  PROVE  op[<<h[s \ {Max(s)}], Max(s)>>] \in V
      <3>. HIDE DEF D
      <3>. QED OBVIOUS
    <2>1. h[s \ {Max(s)}] \in V /\ Max(s) \in 1 .. n
      <3>. HIDE DEF D
      <3>. QED BY <1>3
    <2>. QED BY <2>1
  <1>5. \A s \in D, h \in [D -> V] :
           F[<<s, h>>] = IF s = {} THEN base ELSE op[<<h[s \ {Max(s)}], Max(s)>>]
    <2>. HIDE DEF D
    <2>. QED OBVIOUS
  <1>. HIDE DEF F, rank
  <1>6. Descends(F, D, V, rank)
    <2>. HIDE DEF D
    <2>. SUFFICES ASSUME NEW s \in D, NEW g \in [D -> V], NEW h \in [D -> V],
                         \A y \in D : rank[y] < rank[s] => g[y] = h[y]
                  PROVE  F[<<s, g>>] = F[<<s, h>>]
      BY DEF Descends
    <2>1. CASE s = {} BY <1>5, <2>1
    <2>2. CASE s # {}
      <3>1. g[s \ {Max(s)}] = h[s \ {Max(s)}] BY <1>3, <2>2
      <3>. QED BY <1>5, <2>2, <3>1
    <2>. QED BY <2>1, <2>2
  <1>. HIDE DEF D
  <1>7. PICK g \in [D -> V] : \A s \in D : g[s] = F[<<s, g>>]
    <2>1. \E g \in [D -> V] : Solves(g, F, D) BY <1>2, <1>4, <1>6, BoundedRecursion
    <2>. QED BY <2>1 DEF Solves
  <1>8. \A s \in D : g[s] = IF s = {} THEN base ELSE op[<<g[s \ {Max(s)}], Max(s)>>]
    BY <1>5, <1>7
  <1>. QED BY <1>8 DEF D, Tabulates

\* iter makes, of each set of positions, what op makes of what it makes of the others.
Iterates(iter, n, V, base, op) ==
    \A s \in SUBSET (1 .. n) :
        /\ s = {} => iter[s] = base
        /\ s # {} /\ iter[s \ {Max(s)}] \in V => iter[s] = op[<<iter[s \ {Max(s)}], Max(s)>>]

\* The states a fold over n positions goes through.
States(r, n, V, base, op) ==
    /\ r[0] = base
    /\ \A k \in 1 .. n : r[k] = op[<<r[k - 1], k>>]
    /\ \A k \in 0 .. n : r[k] \in V

Reaches(iter, n, V, base, op) == \E r : States(r, n, V, base, op) /\ r[n] = iter[1 .. n]

LEMMA FoldStates ==
  ASSUME NEW n \in Nat, NEW V, NEW base \in V, NEW op \in [V \X (1 .. n) -> V],
         NEW iter, Iterates(iter, n, V, base, op)
  PROVE  Reaches(iter, n, V, base, op)
  <1> DEFINE r == [k \in 0 .. n |-> iter[1 .. k]]
  <1>1. r[0] = base
    <2>1. 1 .. 0 = {} /\ {} \in SUBSET (1 .. n) OBVIOUS
    <2>2. iter[1 .. 0] = base BY <2>1 DEF Iterates
    <2>. QED BY <2>2
  <1>2. ASSUME NEW k \in 1 .. n, r[k - 1] \in V PROVE r[k] = op[<<r[k - 1], k>>]
    <2>1. 1 .. k # {} /\ Max(1 .. k) = k /\ (1 .. k) \ {k} = 1 .. (k - 1) BY MaxOfInterval
    <2>2. 1 .. k \in SUBSET (1 .. n) /\ k \in 0 .. n /\ k - 1 \in 0 .. n OBVIOUS
    <2>3. iter[1 .. (k - 1)] \in V BY <1>2, <2>2
    <2>4. iter[1 .. k] = op[<<iter[1 .. (k - 1)], k>>]
      <3>1. PICK s : s = 1 .. k OBVIOUS
      <3>2. s \in SUBSET (1 .. n) /\ s # {} /\ Max(s) = k /\ s \ {k} = 1 .. (k - 1)
        BY <2>1, <2>2, <3>1
      <3>3. iter[s] = op[<<iter[s \ {k}], k>>] BY <2>3, <3>2 DEF Iterates
      <3>. QED BY <3>1, <3>2, <3>3
    <2>. QED BY <2>2, <2>4
  <1>3. n \in 0 .. n /\ r[n] = iter[1 .. n] OBVIOUS
  <1>. HIDE DEF r
  <1> DEFINE P == {k \in 0 .. n : r[k] \in V}
  <1>4. 0 \in P BY <1>1
  <1>5. \A k \in 1 .. n : k - 1 \in P => k \in P
    <2>. SUFFICES ASSUME NEW k \in 1 .. n, r[k - 1] \in V PROVE r[k] \in V /\ k \in 0 .. n OBVIOUS
    <2>1. r[k] = op[<<r[k - 1], k>>] BY <1>2
    <2>2. k \in 0 .. n OBVIOUS
    <2>. QED BY <2>1, <2>2
  <1>6. \A k \in 0 .. n : k \in P
    <2>. HIDE DEF P
    <2>. QED BY <1>4, <1>5, Ascend
  <1>7. \A k \in 1 .. n : r[k] = op[<<r[k - 1], k>>]
    <2>1. \A k \in 1 .. n : k - 1 \in 0 .. n OBVIOUS
    <2>. QED BY <1>2, <1>6, <2>1
  <1>. QED BY <1>1, <1>3, <1>6, <1>7 DEF States, Reaches
-----------------------------------------------------------------------------
(* A page of the scan *)

GapType == [start : Int, end : Int]
ForkType == [start : Int, end : Int, ids : SUBSET Int]
PairType == [errors : Seq(ForkType), missing : Seq(GapType), start : Int, removals : SUBSET Int]
RunType == [errors : Seq(ForkType), missing : Seq(GapType), pending : Int]

\* What one pair of neighbours changes.
PairEffect(ix, s, cur, prev, p) ==
    /\ p \in PairType
    /\ p.missing = IF prev = cur - 1 THEN s.missing
                   ELSE Append(s.missing, [start |-> prev + 1, end |-> cur - 1])
    /\ \/ /\ prev # cur - 1
          /\ p.errors = s.errors /\ p.start = s.start /\ p.removals = s.removals
       \/ /\ prev = cur - 1 /\ BlockId(ix, prev) # PrevId(ix, cur) /\ s.start # NoStart
          /\ p.errors = s.errors /\ p.start = s.start /\ p.removals = s.removals
       \/ /\ prev = cur - 1 /\ BlockId(ix, prev) # PrevId(ix, cur) /\ s.start = NoStart
          /\ p.errors = s.errors /\ p.start = cur - 1
          /\ p.removals = IF Differs(ix, prev) THEN s.removals \cup {prev} ELSE s.removals
       \/ /\ prev = cur - 1 /\ BlockId(ix, prev) = PrevId(ix, cur) /\ s.start = NoStart
          /\ p.errors = s.errors /\ p.start = s.start /\ p.removals = s.removals
       \/ /\ prev = cur - 1 /\ BlockId(ix, prev) = PrevId(ix, cur) /\ s.start # NoStart
          /\ Differs(ix, cur)
          /\ p.errors = s.errors /\ p.start = s.start /\ p.removals = s.removals \cup {cur}
       \/ /\ prev = cur - 1 /\ BlockId(ix, prev) = PrevId(ix, cur) /\ s.start # NoStart
          /\ ~ Differs(ix, cur)
          /\ p.errors = Append(s.errors, [start |-> s.start, end |-> cur + 1, ids |-> s.removals])
          /\ p.start = NoStart /\ p.removals = {}

LEMMA PairStep ==
  ASSUME NEW ix, NEW s \in PairType, NEW cur \in Int, NEW prev \in Int
  PROVE  PairEffect(ix, s, cur, prev, Pair(ix, s, cur, prev))
  <1> DEFINE p == Pair(ix, s, cur, prev)
             gap == [start |-> prev + 1, end |-> cur - 1]
             fork == [start |-> s.start, end |-> cur + 1, ids |-> s.removals]
  <1>1. /\ s.errors \in Seq(ForkType) /\ s.missing \in Seq(GapType) /\ s.start \in Int
        /\ s.removals \in SUBSET Int
    BY DEF PairType
  <1>2. CASE prev # cur - 1
    <2>1. p = [s EXCEPT !.missing = Append(@, gap)] BY <1>2 DEF Pair
    <2>2. gap \in GapType BY DEF GapType
    <2>3. Append(s.missing, gap) \in Seq(GapType) BY <1>1, <2>2
    <2>4. p \in PairType /\ p.missing = Append(s.missing, gap) /\ p.errors = s.errors
          /\ p.start = s.start /\ p.removals = s.removals
      <3>. HIDE DEF p, gap
      <3>. QED BY <2>1, <2>3 DEF PairType
    <2>. QED BY <1>2, <2>4 DEF PairEffect
  <1>3. CASE prev = cur - 1 /\ BlockId(ix, prev) # PrevId(ix, cur) /\ s.start = NoStart
    <2> DEFINE removals == IF Differs(ix, prev) THEN s.removals \cup {prev} ELSE s.removals
    <2>1. p = [s EXCEPT !.start = cur - 1, !.removals = removals] BY <1>3, Zenon DEF Pair
    <2>2. removals \in SUBSET Int /\ cur - 1 \in Int BY <1>1
    <2>3. p \in PairType /\ p.missing = s.missing /\ p.errors = s.errors
          /\ p.start = cur - 1 /\ p.removals = removals
      <3>. HIDE DEF p, removals
      <3>. QED BY <2>1, <2>2 DEF PairType
    <2>. QED BY <1>3, <2>3 DEF PairEffect
  <1>4. CASE prev = cur - 1 /\ BlockId(ix, prev) = PrevId(ix, cur) /\ s.start # NoStart
             /\ Differs(ix, cur)
    <2>1. p = [s EXCEPT !.removals = @ \cup {cur}] BY <1>4 DEF Pair
    <2>2. s.removals \cup {cur} \in SUBSET Int BY <1>1
    <2>3. p \in PairType /\ p.missing = s.missing /\ p.errors = s.errors
          /\ p.start = s.start /\ p.removals = s.removals \cup {cur}
      <3>. HIDE DEF p
      <3>. QED BY <2>1, <2>2 DEF PairType
    <2>. QED BY <1>4, <2>3 DEF PairEffect
  <1>5. CASE prev = cur - 1 /\ BlockId(ix, prev) = PrevId(ix, cur) /\ s.start # NoStart
             /\ ~ Differs(ix, cur)
    <2>1. p = [s EXCEPT !.errors = Append(@, fork), !.start = NoStart, !.removals = {}]
      BY <1>5 DEF Pair
    <2>2. fork \in ForkType /\ NoStart \in Int BY <1>1 DEF ForkType, NoStart
    <2>3. Append(s.errors, fork) \in Seq(ForkType) BY <1>1, <2>2
    <2>4. p \in PairType /\ p.missing = s.missing /\ p.errors = Append(s.errors, fork)
          /\ p.start = NoStart /\ p.removals = {}
      <3>. HIDE DEF p, fork
      <3>. QED BY <2>1, <2>2, <2>3 DEF PairType
    <2>. QED BY <1>5, <2>4 DEF PairEffect
  <1>6. CASE prev = cur - 1 /\ BlockId(ix, prev) # PrevId(ix, cur) /\ s.start # NoStart
    BY <1>6 DEF Pair, PairEffect
  <1>7. CASE prev = cur - 1 /\ BlockId(ix, prev) = PrevId(ix, cur) /\ s.start = NoStart
    BY <1>7 DEF Pair, PairEffect
  <1>. QED BY <1>2, <1>3, <1>4, <1>5, <1>6, <1>7

PairFold(ix, s, blocks) ==
    FoldLeft(LAMBDA acc, i : Pair(ix, acc, blocks[i], blocks[i + 1]),
             [errors |-> s.errors, missing |-> s.missing, start |-> NoStart, removals |-> {}],
             [i \in 1 .. (Len(blocks) - 1) |-> i])

WithPending(s, page) ==
    IF page # <<>> /\ s.pending # 0 /\ page[1] # s.pending THEN <<s.pending>> \o page ELSE page

LEMMA PageResult ==
  ASSUME NEW ix, NEW s, NEW page
  PROVE  FindForksOnRange(ix, s, page) =
            IF WithPending(s, page) = <<>> THEN s
            ELSE [errors |-> PairFold(ix, s, WithPending(s, page)).errors,
                  missing |-> PairFold(ix, s, WithPending(s, page)).missing,
                  pending |-> Last(WithPending(s, page))]
  BY Zenon DEF FindForksOnRange, WithPending, PairFold

\* The states of the fold over the n pairs of a page.
PairStates(r, ix, s, blocks, n) ==
    /\ r[0] = [errors |-> s.errors, missing |-> s.missing, start |-> NoStart, removals |-> {}]
    /\ \A k \in 1 .. n : r[k] = Pair(ix, r[k - 1], blocks[k], blocks[k + 1])
    /\ \A k \in 0 .. n : r[k] \in PairType
    /\ PairFold(ix, s, blocks) = r[n]

LEMMA PairSteps ==
  ASSUME NEW ix, NEW s \in RunType, NEW blocks \in Seq(Int), blocks # <<>>
  PROVE  \E r : PairStates(r, ix, s, blocks, Len(blocks) - 1)
  <1> DEFINE base == [errors |-> s.errors, missing |-> s.missing, start |-> NoStart, removals |-> {}]
             seq == [i \in 1 .. (Len(blocks) - 1) |-> i]
             iter == CHOOSE h : h = [t \in SUBSET DOMAIN seq |->
                        IF t = {} THEN base
                        ELSE Pair(ix, h[t \ {Max(t)}], blocks[seq[Max(t)]], blocks[seq[Max(t)] + 1])]
  <1>1. PairFold(ix, s, blocks) = iter[DOMAIN seq] BY Zenon DEF PairFold, FoldLeft, MapThenFoldSet
  <1>2. PICK n : n = Len(blocks) - 1 OBVIOUS
  <1>3. n \in Nat BY <1>2
  <1>4. base \in PairType BY DEF RunType, PairType, NoStart
  <1> DEFINE op == [p \in PairType \X (1 .. n) |-> Pair(ix, p[1], blocks[p[2]], blocks[p[2] + 1])]
  <1>5. \A k \in 1 .. n : blocks[k] \in Int /\ blocks[k + 1] \in Int BY <1>2
  <1>6. \A t \in PairType, k \in 1 .. n :
           /\ Pair(ix, t, blocks[k], blocks[k + 1]) \in PairType
           /\ op[<<t, k>>] = Pair(ix, t, blocks[k], blocks[k + 1])
    BY <1>5, PairStep DEF PairEffect
  <1>7. op \in [PairType \X (1 .. n) -> PairType] BY <1>6
  <1>. HIDE DEF op, base
  <1>8. PICK g \in [SUBSET (1 .. n) -> PairType] : Tabulates(g, n, base, op)
    BY <1>3, <1>4, <1>7, FoldRecursion
  <1>9. DOMAIN seq = 1 .. n /\ \A k \in 1 .. n : seq[k] = k BY <1>2
  <1>10. ASSUME NEW h, NEW t \in SUBSET (1 .. n), t # {}, h[t \ {Max(t)}] \in PairType
         PROVE  op[<<h[t \ {Max(t)}], Max(t)>>]
                = Pair(ix, h[t \ {Max(t)}], blocks[seq[Max(t)]], blocks[seq[Max(t)] + 1])
    <2>1. Max(t) \in 1 .. n BY <1>3, <1>10, MaxOfPositions
    <2>. HIDE DEF seq
    <2>. QED BY <1>6, <1>9, <1>10, <2>1
  <1>11. \E h : h = [t \in SUBSET DOMAIN seq |->
                       IF t = {} THEN base
                       ELSE Pair(ix, h[t \ {Max(t)}], blocks[seq[Max(t)]], blocks[seq[Max(t)] + 1])]
    <2>1. \A t \in SUBSET (1 .. n) : t # {} => g[t \ {Max(t)}] \in PairType OBVIOUS
    <2>2. g = [t \in SUBSET DOMAIN seq |->
                 IF t = {} THEN base
                 ELSE Pair(ix, g[t \ {Max(t)}], blocks[seq[Max(t)]], blocks[seq[Max(t)] + 1])]
      <3>. HIDE DEF seq
      <3>. QED BY <1>8, <1>9, <1>10, <2>1 DEF Tabulates
    <2>. HIDE DEF seq
    <2>. QED BY <2>2, Zenon
  <1>12. iter = [t \in SUBSET DOMAIN seq |->
                  IF t = {} THEN base
                  ELSE Pair(ix, iter[t \ {Max(t)}], blocks[seq[Max(t)]], blocks[seq[Max(t)] + 1])]
    BY <1>11, Zenon
  <1>. HIDE DEF iter, seq
  <1>13. Iterates(iter, n, PairType, base, op) BY <1>9, <1>10, <1>12 DEF Iterates
  <1>14. PICK r : States(r, n, PairType, base, op) /\ r[n] = iter[1 .. n]
    <2>1. Reaches(iter, n, PairType, base, op) BY <1>3, <1>4, <1>7, <1>13, FoldStates
    <2>. QED BY <2>1 DEF Reaches
  <1>15. \A k \in 1 .. n : k - 1 \in 0 .. n BY <1>3
  <1>16. \A k \in 1 .. n : r[k] = Pair(ix, r[k - 1], blocks[k], blocks[k + 1])
    BY <1>6, <1>14, <1>15 DEF States
  <1>. QED BY <1>1, <1>2, <1>9, <1>14, <1>16 DEF States, PairStates, base
-----------------------------------------------------------------------------
(* A page of the index *)

\* d lists S, the greatest first.
Lists(d, S) ==
    /\ d \in Seq(S) /\ Len(d) = Cardinality(S)
    /\ \A n \in S : \E i \in 1 .. Len(d) : d[i] = n
    /\ \A i, j \in 1 .. Len(d) : i < j => d[i] > d[j]

\* Descending lists every finite set of numbers: the numbers that are not smaller than an
\* element tell its position.
LEMMA DescendingLists ==
  ASSUME NEW S \in SUBSET Int, IsFiniteSet(S)
  PROVE  Lists(Descending(S), S)
  <1> DEFINE Above(n) == {m \in S : m >= n}
             N == Cardinality(S)
             pos == [n \in S |-> Cardinality(Above(n))]
             nth(i) == CHOOSE n \in S : Cardinality(Above(n)) = i
             d == [i \in 1 .. N |-> nth(i)]
  <1>1. N \in Nat BY FS_CardinalityType
  <1>2. \A n \in S : IsFiniteSet(Above(n)) /\ Cardinality(Above(n)) \in 1 .. N
    <2>. SUFFICES ASSUME NEW n \in S
                  PROVE  IsFiniteSet(Above(n)) /\ Cardinality(Above(n)) \in 1 .. N
      OBVIOUS
    <2>1. Above(n) \in SUBSET S /\ n \in Above(n) OBVIOUS
    <2>. HIDE DEF Above
    <2>2. IsFiniteSet(Above(n)) /\ Cardinality(Above(n)) <= N BY <2>1, FS_Subset
    <2>3. Cardinality(Above(n)) \in Nat /\ Cardinality(Above(n)) # 0
      BY <2>1, <2>2, FS_CardinalityType, FS_EmptySet
    <2>. QED BY <1>1, <2>2, <2>3
  <1>3. \A n, m \in S : n < m => Cardinality(Above(m)) < Cardinality(Above(n))
    <2>. SUFFICES ASSUME NEW n \in S, NEW m \in S, n < m
                  PROVE  Cardinality(Above(m)) < Cardinality(Above(n))
      OBVIOUS
    <2>0. n \in Int /\ m \in Int /\ \A x \in S : x \in Int OBVIOUS
    <2>1. Above(m) \in SUBSET Above(n) /\ n \in Above(n) /\ n \notin Above(m)
      <3>1. \A x \in S : x >= m => x >= n BY <2>0
      <3>2. n >= n /\ ~ (n >= m) BY <2>0
      <3>. QED BY <3>1, <3>2, Zenon
    <2>. HIDE DEF Above
    <2>2. Cardinality(Above(m)) <= Cardinality(Above(n))
          /\ Cardinality(Above(m)) # Cardinality(Above(n))
      BY <1>2, <2>1, FS_Subset
    <2>. QED BY <1>2, <2>2
  <1>4. \A n, m \in S : Cardinality(Above(n)) = Cardinality(Above(m)) => n = m
    <2>. SUFFICES ASSUME NEW n \in S, NEW m \in S, Cardinality(Above(n)) = Cardinality(Above(m))
                  PROVE  n = m
      OBVIOUS
    <2>1. ~ (n < m) /\ ~ (m < n)
      <3>. HIDE DEF Above
      <3>1. Cardinality(Above(n)) \in Int BY <1>2
      <3>. QED BY <1>3, <3>1
    <2>. QED BY <2>1
  <1>5. pos \in Injection(S, 1 .. N)
    <2>1. pos \in [S -> 1 .. N] BY <1>2
    <2>2. \A n, m \in S : pos[n] = pos[m] => n = m BY <1>4
    <2>. HIDE DEF pos
    <2>. QED BY <2>1, <2>2 DEF Injection, IsInjective
  <1>6. pos \in Surjection(S, 1 .. N)
    <2>1. IsFiniteSet(1 .. N) /\ Cardinality(1 .. N) = N
      <3>1. Cardinality(1 .. N) = IF 1 > N THEN 0 ELSE N - 1 + 1 BY <1>1, FS_Interval
      <3>. QED BY <1>1, <3>1, FS_Interval
    <2>. HIDE DEF pos
    <2>. QED BY <1>5, <2>1, FS_Injection
  <1>7. \A i \in 1 .. N : \E n \in S : Cardinality(Above(n)) = i
    <2>1. \A i \in 1 .. N : \E n \in S : pos[n] = i
      <3>. HIDE DEF pos
      <3>. QED BY <1>6 DEF Surjection
    <2>. QED BY <2>1
  <1>8. \A i \in 1 .. N : d[i] \in S /\ Cardinality(Above(d[i])) = i
    <2>. HIDE DEF Above
    <2>. QED BY <1>7
  <1>9. Descending(S) = d BY DEF Descending
  <1>10. Len(d) = N /\ DOMAIN d = 1 .. N BY <1>1
  <1>. HIDE DEF d
  <1>11. d \in Seq(S)
    <2>1. d \in [1 .. N -> S]
      <3>1. \A i \in 1 .. N : nth(i) \in S
        <4>1. \A i \in 1 .. N : d[i] = nth(i) BY DEF d
        <4>. QED BY <1>8, <4>1
      <3>. HIDE DEF nth
      <3>. QED BY <3>1 DEF d
    <2>. QED BY <1>1, <2>1
  <1>12. \A n \in S : \E i \in 1 .. N : d[i] = n
    <2>. SUFFICES ASSUME NEW n \in S PROVE \E i \in 1 .. N : d[i] = n OBVIOUS
    <2>. HIDE DEF Above
    <2>1. PICK i : i = Cardinality(Above(n)) OBVIOUS
    <2>2. i \in 1 .. N /\ Cardinality(Above(d[i])) = i /\ d[i] \in S BY <1>2, <1>8, <2>1
    <2>. QED BY <1>4, <2>1, <2>2
  <1>13. \A i, j \in 1 .. N : i < j => d[i] > d[j]
    <2>. SUFFICES ASSUME NEW i \in 1 .. N, NEW j \in 1 .. N, i < j PROVE d[i] > d[j] OBVIOUS
    <2>. HIDE DEF Above
    <2>1. d[i] \in S /\ d[j] \in S BY <1>8
    <2>2. d[i] \in Int /\ d[j] \in Int BY <2>1
    <2>3. i \in Int /\ j \in Int /\ i # j /\ ~ (j < i) OBVIOUS
    <2>4. d[i] # d[j] BY <1>8, <2>3
    <2>5. ~ (d[i] < d[j])
      <3>1. d[i] < d[j] => j < i BY <1>3, <1>8, <2>1
      <3>. QED BY <2>3, <3>1
    <2>. QED BY <2>2, <2>4, <2>5
  <1>. QED BY <1>9, <1>10, <1>11, <1>12, <1>13 DEF Lists

\* Elements of a falling sequence fall by one at least.
LEMMA FallsByOne ==
  ASSUME NEW d \in Seq(Int), \A i, j \in 1 .. Len(d) : i < j => d[i] > d[j],
         NEW k \in 1 .. Len(d)
  PROVE  d[k] <= d[1] - (k - 1)
  <1> DEFINE P == {j \in 0 .. Len(d) - 1 : d[j + 1] <= d[1] - j}
  <1>. PICK n : n = Len(d) - 1 OBVIOUS
  <1>1. n \in Nat /\ 1 .. Len(d) = 1 .. n + 1 /\ 0 .. Len(d) - 1 = 0 .. n OBVIOUS
  <1>2. \A j \in 1 .. n + 1 : d[j] \in Int BY <1>1
  <1>3. 0 \in P BY <1>1, <1>2
  <1>4. ASSUME NEW j \in 1 .. n, j - 1 \in P PROVE j \in P
    <2>1. j \in 1 .. n + 1 /\ j + 1 \in 1 .. n + 1 /\ j < j + 1 /\ 1 \in 1 .. n + 1
          /\ j \in 0 .. n /\ (j - 1) + 1 = j
      BY <1>1
    <2>2. d[j] > d[j + 1] BY <1>1, <2>1
    <2>3. d[j] <= d[1] - (j - 1) BY <1>4, <2>1
    <2>4. d[j] \in Int /\ d[j + 1] \in Int /\ d[1] \in Int BY <1>2, <2>1
    <2>5. d[j + 1] <= d[1] - j BY <2>2, <2>3, <2>4
    <2>. QED BY <1>1, <2>1, <2>5
  <1>5. k - 1 \in 0 .. n /\ (k - 1) + 1 = k BY <1>1
  <1>6. k - 1 \in P
    <2>. HIDE DEF P
    <2>. QED BY <1>1, <1>3, <1>4, <1>5, Ascend
  <1>. QED BY <1>5, <1>6

\* A page of the index: the newest hits of a range, in falling order.
IsPage(page, ix, from, to, size) ==
    /\ page \in Seq(Blocks) /\ Len(page) <= size
    /\ \A i \in 1 .. Len(page) : page[i] \in Stored(ix) /\ page[i] \in to .. from
    /\ \A i, j \in 1 .. Len(page) : i < j => page[i] > page[j]
    /\ \A n \in Stored(ix) : n \in to .. from =>
          \/ \E i \in 1 .. Len(page) : page[i] = n
          \/ Len(page) = size /\ \A i \in 1 .. Len(page) : page[i] > n

LEMMA PageOfIndex ==
  ASSUME NEW ix, NEW from \in Int, NEW to \in Int, NEW size \in Nat
  PROVE  IsPage(GetBlocks(ix, from, to, size), ix, from, to, size)
  <1> DEFINE H == {n \in Stored(ix) : n \in to .. from}
             hits == Descending(H)
             len == IF Len(hits) < size THEN Len(hits) ELSE size
             page == GetBlocks(ix, from, to, size)
  <1>1. H \subseteq Blocks BY DEF Stored
  <1>2. Blocks \subseteq Int BY ScanAssumption DEF Blocks
  <1>3. IsFiniteSet(H)
    <2>1. IsFiniteSet(Blocks) BY ScanAssumption, FS_Interval DEF Blocks
    <2>. QED BY <1>1, <2>1, FS_Subset
  <1>4. Lists(hits, H)
    <2>1. H \in SUBSET Int BY <1>1, <1>2
    <2>. HIDE DEF H
    <2>. QED BY <1>3, <2>1, DescendingLists
  <1>5. page = SubSeq(hits, 1, len) BY DEF GetBlocks
  <1>. HIDE DEF page, hits
  <1>6. hits \in Seq(H) /\ Len(hits) \in Nat BY <1>4 DEF Lists
  <1>7. len \in 0 .. Len(hits) /\ len <= size /\ len \in Nat BY <1>6
  <1>8. Len(page) = len /\ \A i \in 1 .. len : page[i] = hits[i] /\ i \in 1 .. Len(hits)
    <2>. HIDE DEF len
    <2>. QED BY <1>5, <1>6, <1>7
  <1>9. page \in Seq(H)
    <2>. HIDE DEF len, H
    <2>. QED BY <1>5, <1>6, <1>7
  <1>10. page \in Seq(Blocks) /\ \A i \in 1 .. Len(page) : page[i] \in H
    <2>1. \A i \in 1 .. Len(page) : page[i] \in H
      <3>. HIDE DEF H
      <3>. QED BY <1>9
    <2>2. page \in Seq(Blocks) BY <1>1, <1>9, SeqMonotonic
    <2>. QED BY <2>1, <2>2
  <1>11. \A i, j \in 1 .. Len(page) : i < j => page[i] > page[j]
    <2>. HIDE DEF len, H
    <2>. QED BY <1>4, <1>8 DEF Lists
  <1>12. ASSUME NEW n \in H, ~ \E i \in 1 .. Len(page) : page[i] = n
         PROVE  Len(page) = size /\ \A i \in 1 .. Len(page) : page[i] > n
    <2>1. PICK j \in 1 .. Len(hits) : hits[j] = n
      <3>. HIDE DEF H
      <3>. QED BY <1>4, <1>12 DEF Lists
    <2>2. j > len BY <1>6, <1>7, <1>8, <1>12, <2>1
    <2>3. len = size BY <1>6, <2>1, <2>2
    <2>4. \A i \in 1 .. len : i < j BY <1>7, <2>1, <2>2
    <2>5. \A i \in 1 .. len : hits[i] > n
      <3>. HIDE DEF H, len
      <3>. QED BY <1>4, <1>8, <2>1, <2>4 DEF Lists
    <2>. QED BY <1>8, <2>3, <2>5
  <1>13. \A i \in 1 .. Len(page) : page[i] \in Stored(ix) /\ page[i] \in to .. from BY <1>10
  <1>14. \A n \in Stored(ix) : n \in to .. from =>
            \/ \E i \in 1 .. Len(page) : page[i] = n
            \/ Len(page) = size /\ \A i \in 1 .. Len(page) : page[i] > n
    BY <1>12
  <1>15. Len(page) <= size BY <1>7, <1>8
  <1>. HIDE DEF H, len
  <1>. QED BY <1>10, <1>11, <1>13, <1>14, <1>15 DEF IsPage, page
-----------------------------------------------------------------------------
(* The pairs of a page *)

\* The numbers a page shows, from the newest: indexed, falling, none left out between.
IsRun(blocks, ix) ==
    /\ blocks \in Seq(Blocks) /\ blocks # <<>>
    /\ \A i \in 1 .. Len(blocks) : blocks[i] \in Stored(ix)
    /\ \A i \in 1 .. (Len(blocks) - 1) :
          /\ blocks[i] > blocks[i + 1]
          /\ \A n \in Stored(ix) : ~ (blocks[i + 1] < n /\ n < blocks[i])

\* A reported fork lists blocks of its range that are not of the chain.
GoodFork(ix, e) == \A n \in e.ids : n \in Blocks /\ Differs(ix, n) /\ e.end <= n /\ n <= e.start
GoodForks(ix, errors) == \A i \in DOMAIN errors : GoodFork(ix, errors[i])

NotIndexed(ix, low, high) == {n \in low .. high : n \notin Stored(ix)}

\* What the fold over a page knows when low is the lower block of its last pair.
PairInv(ix, p, low) ==
    /\ GoodForks(ix, p.errors)
    /\ IF p.start = NoStart THEN p.removals = {} ELSE low <= p.start
    /\ \A n \in p.removals : n \in Blocks /\ Differs(ix, n) /\ low <= n /\ n <= p.start

LEMMA CoveredAppend ==
  ASSUME NEW gaps \in Seq(GapType), NEW g \in GapType
  PROVE  Covered(Append(gaps, g)) = Covered(gaps) \cup (g.start .. g.end)
  <1>1. Len(Append(gaps, g)) = Len(gaps) + 1 /\ Len(gaps) \in Nat
        /\ DOMAIN Append(gaps, g) = 1 .. Len(gaps) + 1 /\ DOMAIN gaps = 1 .. Len(gaps)
    OBVIOUS
  <1>2. \A i \in 1 .. Len(gaps) : Append(gaps, g)[i] = gaps[i] OBVIOUS
  <1>3. Append(gaps, g)[Len(gaps) + 1] = g OBVIOUS
  <1>4. ASSUME NEW n PROVE n \in Covered(Append(gaps, g)) <=> n \in Covered(gaps) \cup (g.start .. g.end)
    <2> DEFINE more == Append(gaps, g)
    <2>1. n \in Covered(more) <=> \E i \in 1 .. Len(gaps) + 1 : n \in more[i].start .. more[i].end
      BY <1>1 DEF Covered, RangeOf
    <2>2. n \in Covered(gaps) <=> \E i \in 1 .. Len(gaps) : n \in gaps[i].start .. gaps[i].end
      BY <1>1 DEF Covered, RangeOf
    <2>3. \A i \in 1 .. Len(gaps) + 1 : i \in 1 .. Len(gaps) \/ i = Len(gaps) + 1 BY <1>1
    <2>4. \A i \in 1 .. Len(gaps) : i \in 1 .. Len(gaps) + 1 BY <1>1
    <2>5. Len(gaps) + 1 \in 1 .. Len(gaps) + 1 BY <1>1
    <2>. HIDE DEF more
    <2>6. \A i \in 1 .. Len(gaps) : more[i] = gaps[i] BY <1>2 DEF more
    <2>7. more[Len(gaps) + 1] = g BY <1>3 DEF more
    <2>. QED BY <2>1, <2>2, <2>3, <2>4, <2>5, <2>6, <2>7 DEF more
  <1>. QED BY <1>4

LEMMA GoodForksAppend ==
  ASSUME NEW ix, NEW errors \in Seq(ForkType), NEW e \in ForkType
  PROVE  GoodForks(ix, Append(errors, e)) <=> GoodForks(ix, errors) /\ GoodFork(ix, e)
  <1>1. DOMAIN Append(errors, e) = 1 .. Len(errors) + 1 /\ DOMAIN errors = 1 .. Len(errors)
        /\ Len(errors) \in Nat
    OBVIOUS
  <1>2. \A i \in 1 .. Len(errors) : Append(errors, e)[i] = errors[i] OBVIOUS
  <1>3. Append(errors, e)[Len(errors) + 1] = e OBVIOUS
  <1>4. \A i \in 1 .. Len(errors) + 1 : i \in 1 .. Len(errors) \/ i = Len(errors) + 1 BY <1>1
  <1>5. Len(errors) + 1 \in 1 .. Len(errors) + 1
        /\ \A i \in 1 .. Len(errors) : i \in 1 .. Len(errors) + 1
    BY <1>1
  <1> DEFINE more == Append(errors, e)
  <1>6. DOMAIN more = 1 .. Len(errors) + 1 /\ more[Len(errors) + 1] = e
        /\ \A i \in 1 .. Len(errors) : more[i] = errors[i]
    BY <1>1, <1>2, <1>3
  <1>. HIDE DEF more
  <1>7. GoodForks(ix, more) <=> GoodForks(ix, errors) /\ GoodFork(ix, e)
    BY <1>1, <1>4, <1>5, <1>6 DEF GoodForks
  <1>. QED BY <1>7 DEF more

\* One pair keeps it, and reports the numbers between that are not indexed.
LEMMA PairKeeps ==
  ASSUME NEW ix, NEW s \in PairType, NEW cur \in Blocks, NEW prev \in Blocks, prev < cur,
         PairInv(ix, s, cur)
  PROVE  /\ PairInv(ix, Pair(ix, s, cur, prev), prev)
         /\ Covered(Pair(ix, s, cur, prev).missing)
            = Covered(s.missing) \cup ((prev + 1) .. (cur - 1))
  <1> DEFINE p == Pair(ix, s, cur, prev)
             gap == [start |-> prev + 1, end |-> cur - 1]
             fork == [start |-> s.start, end |-> cur + 1, ids |-> s.removals]
  <1>1. prev \in Int /\ cur \in Int /\ prev \in Nat \ {0} BY ScanAssumption DEF Blocks
  <1>2. /\ s.errors \in Seq(ForkType) /\ s.missing \in Seq(GapType) /\ s.start \in Int
        /\ s.removals \in SUBSET Int
    BY DEF PairType
  <1>0. PairEffect(ix, s, cur, prev, p) BY <1>1, PairStep
  <1>3. gap \in GapType /\ fork \in ForkType BY <1>1, <1>2 DEF GapType, ForkType
  <1>4. Covered(p.missing) = Covered(s.missing) \cup ((prev + 1) .. (cur - 1))
    <2>1. p.missing = IF prev = cur - 1 THEN s.missing ELSE Append(s.missing, gap)
      BY <1>0 DEF PairEffect
    <2>2. Covered(Append(s.missing, gap)) = Covered(s.missing) \cup ((prev + 1) .. (cur - 1))
      BY <1>2, <1>3, CoveredAppend
    <2>3. prev = cur - 1 => (prev + 1) .. (cur - 1) = {} BY <1>1
    <2>. HIDE DEF p, gap
    <2>. QED BY <2>1, <2>2, <2>3
  <1>5. PairInv(ix, p, prev)
    <2>1. /\ GoodForks(ix, s.errors)
          /\ IF s.start = NoStart THEN s.removals = {} ELSE prev <= s.start
          /\ s.start # NoStart => cur <= s.start
          /\ \A n \in s.removals : n \in Blocks /\ Differs(ix, n) /\ cur <= n /\ n <= s.start
      BY <1>1, <1>2 DEF PairInv
    <2>2. \A n \in s.removals : n \in Int /\ prev <= n
      <3>1. \A n \in s.removals : n \in Int /\ cur <= n BY <1>2, <2>1
      <3>. QED BY <1>1, <3>1
    <2>3. \/ /\ p.errors = s.errors /\ p.start = s.start /\ p.removals = s.removals
          \/ /\ prev = cur - 1 /\ s.start = NoStart
             /\ p.errors = s.errors /\ p.start = cur - 1
             /\ p.removals = IF Differs(ix, prev) THEN s.removals \cup {prev} ELSE s.removals
          \/ /\ s.start # NoStart /\ Differs(ix, cur) /\ prev = cur - 1
             /\ p.errors = s.errors /\ p.start = s.start /\ p.removals = s.removals \cup {cur}
          \/ /\ ~ Differs(ix, cur) /\ p.errors = Append(s.errors, fork)
             /\ p.start = NoStart /\ p.removals = {}
      <3>. HIDE DEF p
      <3>. QED BY <1>0, Zenon DEF PairEffect
    <2>. HIDE DEF p
    <2>4. CASE p.errors = s.errors /\ p.start = s.start /\ p.removals = s.removals
      BY <2>1, <2>2, <2>4 DEF PairInv
    <2>5. CASE /\ prev = cur - 1 /\ s.start = NoStart
               /\ p.errors = s.errors /\ p.start = cur - 1
               /\ p.removals = IF Differs(ix, prev) THEN s.removals \cup {prev} ELSE s.removals
      <3>1. p.removals \subseteq {prev} /\ (prev \in p.removals => Differs(ix, prev)) BY <2>1, <2>5
      <3>2. p.start # NoStart /\ p.start = prev /\ prev <= prev BY <1>1, <2>5 DEF NoStart
      <3>. QED BY <2>1, <2>5, <3>1, <3>2 DEF PairInv
    <2>6. CASE /\ s.start # NoStart /\ Differs(ix, cur) /\ prev = cur - 1
               /\ p.errors = s.errors /\ p.start = s.start /\ p.removals = s.removals \cup {cur}
      <3>1. \A n \in p.removals : n \in Blocks /\ Differs(ix, n) /\ prev <= n /\ n <= p.start
        BY <1>1, <2>1, <2>2, <2>6
      <3>. QED BY <2>1, <2>6, <3>1 DEF PairInv
    <2>7. CASE /\ ~ Differs(ix, cur) /\ p.errors = Append(s.errors, fork)
               /\ p.start = NoStart /\ p.removals = {}
      <3>1. \A n \in s.removals : cur + 1 <= n
        <4>1. \A n \in s.removals : n \in Int /\ cur <= n /\ n # cur BY <1>2, <2>1, <2>7
        <4>. QED BY <1>1, <4>1
      <3>2. GoodFork(ix, fork) BY <2>1, <3>1 DEF GoodFork
      <3>3. GoodForks(ix, p.errors) BY <1>2, <1>3, <2>1, <2>7, <3>2, GoodForksAppend
      <3>. QED BY <2>7, <3>3 DEF PairInv
    <2>. QED BY <2>3, <2>4, <2>5, <2>6, <2>7
  <1>. QED BY <1>4, <1>5

\* The pages of a run seen so far, down to low: the forks and the gaps of what they showed.
\* A page that is cut leaves out one block at most, the one the next page starts on.
Scanned(ix, s, low, last) ==
    /\ s \in RunType /\ GoodForks(ix, s.errors)
    /\ IF s.pending = 0
       THEN low = last /\ Covered(s.missing) = {}
       ELSE /\ s.pending \in Stored(ix) /\ low <= s.pending /\ s.pending <= last
            /\ Covered(s.missing) = NotIndexed(ix, s.pending, last)
            /\ \A n \in Stored(ix) : low <= n /\ n < s.pending => n = low /\ s.pending = n + 1

LEMMA AbsentMore ==
  ASSUME NEW ix, NEW low \in Int, NEW mid \in Int, NEW high \in Int, low < mid, mid <= high,
         low \in Stored(ix), \A n \in Stored(ix) : ~ (low < n /\ n < mid)
  PROVE  NotIndexed(ix, low, high) = NotIndexed(ix, mid, high) \cup ((low + 1) .. (mid - 1))
  BY DEF NotIndexed

LEMMA AbsentJoin ==
  ASSUME NEW ix, NEW low \in Int, NEW mid \in Int, NEW high \in Int, low <= mid, mid <= high
  PROVE  NotIndexed(ix, low, high) = NotIndexed(ix, low, mid) \cup NotIndexed(ix, mid, high)
  BY DEF NotIndexed

\* What the fold over a page adds to the gaps and the forks.
LEMMA PageFold ==
  ASSUME NEW ix, NEW s \in RunType, GoodForks(ix, s.errors), NEW blocks, IsRun(blocks, ix)
  PROVE  /\ PairFold(ix, s, blocks) \in PairType
         /\ GoodForks(ix, PairFold(ix, s, blocks).errors)
         /\ Covered(PairFold(ix, s, blocks).missing)
            = Covered(s.missing) \cup NotIndexed(ix, blocks[Len(blocks)], blocks[1])
  <1>1. blocks \in Seq(Blocks) /\ blocks # <<>> BY DEF IsRun
  <1>2. Blocks \subseteq Int BY ScanAssumption DEF Blocks
  <1>3. blocks \in Seq(Int) BY <1>1, <1>2, SeqMonotonic
  <1>4. PICK n : n = Len(blocks) - 1 OBVIOUS
  <1>5. n \in Nat /\ Len(blocks) = n + 1 BY <1>1, <1>4
  <1>6. PICK r : /\ r[0] = [errors |-> s.errors, missing |-> s.missing,
                           start |-> NoStart, removals |-> {}]
                 /\ \A k \in 1 .. n : r[k] = Pair(ix, r[k - 1], blocks[k], blocks[k + 1])
                 /\ \A k \in 0 .. n : r[k] \in PairType
                 /\ PairFold(ix, s, blocks) = r[n]
    <2>1. \E r : PairStates(r, ix, s, blocks, Len(blocks) - 1) BY <1>1, <1>3, PairSteps
    <2>. QED BY <1>4, <2>1 DEF PairStates
  <1>7. /\ \A i \in 1 .. n + 1 : blocks[i] \in Blocks /\ blocks[i] \in Int /\ blocks[i] \in Stored(ix)
        /\ \A i \in 1 .. n : /\ blocks[i] > blocks[i + 1]
                             /\ \A m \in Stored(ix) : ~ (blocks[i + 1] < m /\ m < blocks[i])
    <2>1. \A i \in 1 .. n + 1 : blocks[i] \in Blocks BY <1>1, <1>5
    <2>. QED BY <1>2, <1>4, <1>5, <2>1 DEF IsRun
  <1> DEFINE Good(k) == /\ PairInv(ix, r[k], blocks[k + 1])
                        /\ Covered(r[k].missing)
                           = Covered(s.missing) \cup NotIndexed(ix, blocks[k + 1], blocks[1])
                        /\ blocks[k + 1] <= blocks[1]
             P == {k \in 0 .. n : Good(k)}
  <1>8. Good(0)
    <2>1. /\ r[0].errors = s.errors /\ r[0].missing = s.missing /\ r[0].start = NoStart
          /\ r[0].removals = {}
      BY <1>6
    <2>2. PairInv(ix, r[0], blocks[0 + 1]) BY <2>1 DEF PairInv
    <2>3. blocks[0 + 1] = blocks[1] /\ blocks[1] \in Int /\ blocks[1] \in Stored(ix) BY <1>5, <1>7
    <2>4. NotIndexed(ix, blocks[1], blocks[1]) = {} BY <2>3 DEF NotIndexed
    <2>. QED BY <2>1, <2>2, <2>3, <2>4
  <1>9. ASSUME NEW k \in 1 .. n, Good(k - 1) PROVE Good(k)
    <2>1. (k - 1) + 1 = k /\ k - 1 \in 0 .. n /\ k \in 1 .. n + 1 /\ k + 1 \in 1 .. n + 1
          /\ 1 \in 1 .. n + 1
      BY <1>5
    <2>2. PICK p : p = r[k - 1] OBVIOUS
    <2>3. /\ p \in PairType /\ PairInv(ix, p, blocks[k])
          /\ Covered(p.missing) = Covered(s.missing) \cup NotIndexed(ix, blocks[k], blocks[1])
          /\ blocks[k] <= blocks[1]
      BY <1>6, <1>9, <2>1, <2>2
    <2>4. r[k] = Pair(ix, p, blocks[k], blocks[k + 1]) BY <1>6, <2>2
    <2>5. PICK cur, prev, top : cur = blocks[k] /\ prev = blocks[k + 1] /\ top = blocks[1] OBVIOUS
    <2>6. /\ cur \in Blocks /\ prev \in Blocks /\ cur \in Int /\ prev \in Int /\ top \in Int
          /\ prev < cur /\ cur <= top /\ prev \in Stored(ix)
          /\ \A m \in Stored(ix) : ~ (prev < m /\ m < cur)
      BY <1>7, <2>1, <2>3, <2>5
    <2>7. /\ PairInv(ix, Pair(ix, p, cur, prev), prev)
          /\ Covered(Pair(ix, p, cur, prev).missing)
             = Covered(p.missing) \cup ((prev + 1) .. (cur - 1))
      <3>1. PairInv(ix, p, cur) BY <2>3, <2>5
      <3>. QED BY <2>3, <2>6, <3>1, PairKeeps
    <2>8. NotIndexed(ix, prev, top) = NotIndexed(ix, cur, top) \cup ((prev + 1) .. (cur - 1))
      BY <2>6, AbsentMore
    <2>9. prev <= top BY <2>6
    <2>. QED BY <2>3, <2>4, <2>5, <2>7, <2>8, <2>9
  <1>10. n \in P
    <2>1. 0 \in P
      <3>1. 0 \in 0 .. n BY <1>5
      <3>. HIDE DEF Good
      <3>. QED BY <1>8, <3>1
    <2>2. \A k \in 1 .. n : k - 1 \in P => k \in P
      <3>1. \A k \in 1 .. n : k \in 0 .. n BY <1>5
      <3>. HIDE DEF Good
      <3>. QED BY <1>9, <3>1
    <2>3. n \in 0 .. n BY <1>5
    <2>. HIDE DEF P
    <2>. QED BY <1>5, <2>1, <2>2, <2>3, Ascend
  <1>11. r[n] \in PairType BY <1>5, <1>6
  <1>. QED BY <1>5, <1>6, <1>10, <1>11 DEF PairInv

\* The pending block and the page are neighbours without an indexed block between.
LEMMA PageRuns ==
  ASSUME NEW ix, NEW s, NEW from \in Int, NEW to \in Int, NEW last \in Int, NEW size \in Nat \ {0},
         NEW page, IsPage(page, ix, from, to, size), to < from, from - size <= to,
         Scanned(ix, s, from, last), s.pending = 0 => last \in Stored(ix)
  PROVE  /\ page = <<>> => s.pending # 0 /\ \A n \in Stored(ix) : ~ (to <= n /\ n < s.pending)
         /\ page # <<>> =>
               /\ IsRun(WithPending(s, page), ix)
               /\ WithPending(s, page)[1] = IF s.pending = 0 THEN last ELSE s.pending
               /\ WithPending(s, page)[Len(WithPending(s, page))] = page[Len(page)]
  <1> DEFINE blocks == WithPending(s, page)
  <1>1. /\ page \in Seq(Blocks) /\ Len(page) <= size /\ Len(page) \in Nat
        /\ \A i \in 1 .. Len(page) : page[i] \in Stored(ix) /\ page[i] \in to .. from
        /\ \A i, j \in 1 .. Len(page) : i < j => page[i] > page[j]
        /\ \A n \in Stored(ix) : n \in to .. from =>
              \/ \E i \in 1 .. Len(page) : page[i] = n
              \/ Len(page) = size /\ \A i \in 1 .. Len(page) : page[i] > n
    BY DEF IsPage
  <1>2. Blocks \subseteq Int /\ Stored(ix) \subseteq Blocks BY ScanAssumption DEF Blocks, Stored
  <1>3. /\ s \in RunType /\ s.pending \in Int
        /\ s.pending = 0 => from = last /\ last \in Stored(ix)
        /\ s.pending # 0 => /\ s.pending \in Stored(ix) /\ from <= s.pending
                            /\ \A n \in Stored(ix) : from <= n /\ n < s.pending =>
                                  n = from /\ s.pending = n + 1
    BY DEF Scanned, RunType
  <1>4. CASE page = <<>>
    <2>1. \A n \in Stored(ix) : n \notin to .. from BY <1>1, <1>4
    <2>2. s.pending # 0
      <3>1. s.pending = 0 => from \in Stored(ix) /\ from \in to .. from BY <1>3
      <3>. QED BY <2>1, <3>1
    <2>3. ASSUME NEW n \in Stored(ix), to <= n, n < s.pending PROVE FALSE
      <3>1. n \in Int BY <1>2
      <3>2. n > from BY <2>1, <2>3, <3>1
      <3>. QED BY <1>3, <2>2, <2>3, <3>1, <3>2
    <2>. QED BY <1>4, <2>2, <2>3
  <1>5. CASE page # <<>>
    <2>1. PICK len : len = Len(page) OBVIOUS
    <2>2. len \in Nat \ {0} /\ 1 \in 1 .. len /\ len \in 1 .. len
          /\ \A i \in 1 .. len : page[i] \in Int /\ page[i] \in Blocks
      BY <1>1, <1>2, <1>5, <2>1
    <2>3. ASSUME NEW n \in Stored(ix), n \in to .. from, page[len] < n
          PROVE  \E i \in 1 .. len : page[i] = n
      <3>1. n \in Int BY <1>2
      <3>. QED BY <1>1, <2>1, <2>2, <2>3, <3>1
    <2>4. \A i \in 1 .. len : page[i] <= page[1] /\ page[len] <= page[i]
      <3>. TAKE i \in 1 .. len
      <3>1. i = 1 \/ 1 < i BY <2>2
      <3>2. i = len \/ i < len BY <2>2
      <3>3. page[i] <= page[1] BY <1>1, <2>1, <2>2, <3>1
      <3>4. page[len] <= page[i] BY <1>1, <2>1, <2>2, <3>2
      <3>. QED BY <3>3, <3>4
    <2>5. ASSUME NEW i \in 1 .. len - 1
          PROVE  /\ page[i] > page[i + 1]
                 /\ \A n \in Stored(ix) : ~ (page[i + 1] < n /\ n < page[i])
      <3>1. i \in 1 .. len /\ i + 1 \in 1 .. len /\ i < i + 1 BY <2>2
      <3>2. page[i] > page[i + 1] BY <1>1, <2>1, <3>1
      <3>3. ASSUME NEW n \in Stored(ix), page[i + 1] < n, n < page[i] PROVE FALSE
        <4>1. n \in Int /\ page[i] \in Int /\ page[i + 1] \in Int /\ page[len] \in Int
              /\ page[i] \in to .. from /\ page[i + 1] \in to .. from
          BY <1>1, <1>2, <2>1, <2>2, <3>1
        <4>2. n \in to .. from BY <3>3, <4>1
        <4>3. page[len] < n BY <2>4, <3>1, <3>3, <4>1
        <4>4. PICK j \in 1 .. len : page[j] = n BY <2>3, <4>2, <4>3
        <4>5. i < j \/ j < i + 1 BY <3>1, <4>4
        <4>6. j = i \/ j = i + 1 \/ j < i \/ i + 1 < j BY <3>1, <4>4
        <4>7. j < i => page[j] > page[i] BY <1>1, <2>1, <3>1
        <4>8. i + 1 < j => page[i + 1] > page[j] BY <1>1, <2>1, <3>1
        <4>. QED BY <3>3, <4>1, <4>4, <4>6, <4>7, <4>8
      <3>. QED BY <3>2, <3>3
    <2>6. page[1] \in Stored(ix) /\ page[1] \in to .. from /\ page[1] \in Int BY <1>1, <2>1, <2>2
    <2>7. ASSUME NEW n \in Stored(ix), n \in to .. from PROVE n <= page[1]
      <3>1. n \in Int /\ page[len] \in Int BY <1>2, <2>2
      <3>2. CASE page[len] < n BY <2>3, <2>4, <2>7, <3>2
      <3>3. CASE ~ (page[len] < n) BY <2>2, <2>4, <2>6, <3>1, <3>3
      <3>. QED BY <3>2, <3>3
    <2>8. CASE s.pending = 0 \/ page[1] = s.pending
      <3>1. blocks = page BY <1>5, <2>8 DEF WithPending
      <3>2. blocks[1] = IF s.pending = 0 THEN last ELSE s.pending
        <4>1. s.pending = 0 => page[1] = last
          <5>1. s.pending = 0 => from <= page[1] BY <1>3, <2>7
          <5>. QED BY <1>3, <2>6, <5>1
        <4>. QED BY <2>8, <3>1, <4>1
      <3>. HIDE DEF blocks
      <3>3. IsRun(blocks, ix) BY <1>1, <1>5, <2>1, <2>5, <3>1 DEF IsRun
      <3>. QED BY <1>5, <3>1, <3>2, <3>3 DEF blocks
    <2>9. CASE s.pending # 0 /\ page[1] # s.pending
      <3>1. blocks = <<s.pending>> \o page BY <1>5, <2>9 DEF WithPending
      <3>. HIDE DEF blocks
      <3>2. PICK p : p = s.pending OBVIOUS
      <3>3. p \in Stored(ix) /\ p \in Int /\ p \in Blocks /\ from <= p /\ p # page[1]
        BY <1>2, <1>3, <2>9, <3>2
      <3>4. /\ blocks \in Seq(Blocks) /\ Len(blocks) = len + 1 /\ blocks[1] = p
            /\ \A i \in 1 .. len : blocks[i + 1] = page[i]
        BY <1>1, <2>1, <3>1, <3>2, <3>3
      <3>5. blocks # <<>> BY <2>2, <3>4
      <3>6. page[1] < p BY <2>6, <3>3
      <3>7. ASSUME NEW n \in Stored(ix), page[1] < n, n < p PROVE FALSE
        <4>1. n \in Int BY <1>2
        <4>2. n \notin to .. from BY <2>6, <2>7, <3>7, <4>1
        <4>3. from < n BY <2>6, <3>7, <4>1, <4>2
        <4>. QED BY <1>3, <2>9, <3>2, <3>7, <4>1, <4>3
      <3>8. \A i \in 1 .. len + 1 : i = 1 \/ (i - 1 \in 1 .. len /\ i = (i - 1) + 1) BY <2>2
      <3>9. \A i \in 1 .. Len(blocks) : blocks[i] \in Stored(ix)
        <4>. TAKE i \in 1 .. Len(blocks)
        <4>1. CASE i = 1 BY <3>3, <3>4, <4>1
        <4>2. CASE i - 1 \in 1 .. len /\ i = (i - 1) + 1 BY <1>1, <2>1, <3>4, <4>2
        <4>. QED BY <3>4, <3>8, <4>1, <4>2
      <3>10. \A i \in 1 .. Len(blocks) - 1 :
                /\ blocks[i] > blocks[i + 1]
                /\ \A n \in Stored(ix) : ~ (blocks[i + 1] < n /\ n < blocks[i])
        <4>. TAKE i \in 1 .. Len(blocks) - 1
        <4>1. i \in 1 .. len BY <2>2, <3>4
        <4>2. blocks[i + 1] = page[i] BY <3>4, <4>1
        <4>3. CASE i = 1 BY <3>4, <3>6, <3>7, <4>1, <4>2, <4>3
        <4>4. CASE i # 1
          <5>1. i - 1 \in 1 .. len - 1 /\ i - 1 \in 1 .. len /\ (i - 1) + 1 = i BY <2>2, <4>1, <4>4
          <5>2. blocks[i] = page[i - 1] BY <3>4, <5>1
          <5>3. /\ page[i - 1] > page[(i - 1) + 1]
                /\ \A n \in Stored(ix) : ~ (page[(i - 1) + 1] < n /\ n < page[i - 1])
            BY <2>5, <5>1
          <5>. QED BY <4>2, <5>1, <5>2, <5>3
        <4>. QED BY <4>3, <4>4
      <3>11. IsRun(blocks, ix) BY <3>4, <3>5, <3>9, <3>10 DEF IsRun
      <3>12. blocks[Len(blocks)] = page[Len(page)] BY <2>1, <2>2, <3>4
      <3>. QED BY <1>5, <2>9, <3>2, <3>4, <3>11, <3>12 DEF blocks
    <2>. QED BY <2>8, <2>9
  <1>. QED BY <1>4, <1>5

LEMMA PageType ==
  ASSUME NEW ix, NEW s \in RunType, NEW page \in Seq(Blocks)
  PROVE  FindForksOnRange(ix, s, page) \in RunType
  <1> DEFINE blocks == WithPending(s, page)
             end == PairFold(ix, s, blocks)
  <1>1. Blocks \subseteq Int BY ScanAssumption DEF Blocks
  <1>2. page \in Seq(Int) BY <1>1, SeqMonotonic
  <1>3. blocks \in Seq(Int)
    <2>1. s.pending \in Int BY DEF RunType
    <2>2. <<s.pending>> \o page \in Seq(Int) BY <1>2, <2>1
    <2>. QED BY <1>2, <2>2 DEF WithPending
  <1>4. FindForksOnRange(ix, s, page) =
           IF blocks = <<>> THEN s
           ELSE [errors |-> end.errors, missing |-> end.missing, pending |-> Last(blocks)]
    BY PageResult
  <1>5. CASE blocks # <<>>
    <2>1. end \in PairType
      <3>. HIDE DEF blocks
      <3>1. PICK r : PairStates(r, ix, s, blocks, Len(blocks) - 1) BY <1>3, <1>5, PairSteps
      <3>2. Len(blocks) - 1 \in 0 .. Len(blocks) - 1 BY <1>3, <1>5
      <3>. QED BY <3>1, <3>2 DEF PairStates
    <2>2. Last(blocks) \in Int
      <3>. HIDE DEF blocks
      <3>. QED BY <1>3, <1>5 DEF Last
    <2>. HIDE DEF end, blocks
    <2>. QED BY <1>4, <1>5, <2>1, <2>2 DEF PairType, RunType
  <1>. QED BY <1>4, <1>5

LEMMA PageScanned ==
  ASSUME NEW ix, NEW s, NEW from \in Int, NEW to \in Int, NEW last \in Int,
         to < from, from - ScanBatch <= to, from <= last,
         last \in Stored(ix), Scanned(ix, s, from, last)
  PROVE  Scanned(ix, FindForksOnRange(ix, s, GetBlocks(ix, from, to, ScanBatch)), to, last)
  <1> DEFINE page == GetBlocks(ix, from, to, ScanBatch)
             blocks == WithPending(s, page)
             end == PairFold(ix, s, blocks)
             t == FindForksOnRange(ix, s, page)
  <1>0. ScanBatch \in Nat /\ ScanBatch \in Nat \ {0} BY ScanAssumption
  <1>1. IsPage(page, ix, from, to, ScanBatch) BY <1>0, PageOfIndex
  <1>. HIDE DEF page
  <1>2. /\ page = <<>> => s.pending # 0 /\ \A n \in Stored(ix) : ~ (to <= n /\ n < s.pending)
        /\ page # <<>> =>
              /\ IsRun(blocks, ix)
              /\ blocks[1] = IF s.pending = 0 THEN last ELSE s.pending
              /\ blocks[Len(blocks)] = page[Len(page)]
    BY <1>0, <1>1, PageRuns
  <1>3. /\ s \in RunType /\ GoodForks(ix, s.errors)
        /\ s.pending = 0 => from = last /\ Covered(s.missing) = {}
        /\ s.pending # 0 => /\ s.pending \in Stored(ix) /\ from <= s.pending /\ s.pending <= last
                            /\ Covered(s.missing) = NotIndexed(ix, s.pending, last)
    BY DEF Scanned
  <1>4. Blocks \subseteq Int /\ Stored(ix) \subseteq Blocks /\ \A n \in Blocks : n >= 1
    BY ScanAssumption DEF Blocks, Stored
  <1>5. page \in Seq(Blocks) BY <1>1 DEF IsPage
  <1>6. t \in RunType BY <1>3, <1>5, PageType
  <1>7. t = IF blocks = <<>> THEN s
            ELSE [errors |-> end.errors, missing |-> end.missing, pending |-> Last(blocks)]
    BY PageResult
  <1>. SUFFICES Scanned(ix, t, to, last) BY DEF page
  <1>8. CASE page = <<>>
    <2>1. blocks = <<>> BY <1>8 DEF WithPending
    <2>2. t = s BY <1>7, <2>1
    <2>3. s.pending \in Int BY <1>2, <1>3, <1>4, <1>8
    <2>4. to <= s.pending BY <1>2, <1>3, <1>8, <2>3
    <2>5. \A n \in Stored(ix) : ~ (to <= n /\ n < s.pending) BY <1>2, <1>8
    <2>6. s.pending # 0 BY <1>2, <1>8
    <2>. HIDE DEF t
    <2>7. Scanned(ix, s, to, last) BY <1>3, <2>4, <2>5, <2>6, Zenon DEF Scanned
    <2>. QED BY <2>2, <2>7
  <1>9. CASE page # <<>>
    <2>0. IsRun(blocks, ix) /\ blocks # <<>> BY <1>2, <1>9 DEF IsRun
    <2>. HIDE DEF blocks
    <2>1. /\ end \in PairType /\ GoodForks(ix, end.errors)
          /\ Covered(end.missing) = Covered(s.missing) \cup NotIndexed(ix, blocks[Len(blocks)], blocks[1])
      BY <1>3, <2>0, PageFold
    <2>. HIDE DEF end
    <2>2. PICK low, top : low = blocks[Len(blocks)] /\ top = blocks[1] OBVIOUS
    <2>3. PICK len : len = Len(page) OBVIOUS
    <2>4. /\ len \in Nat \ {0} /\ len <= ScanBatch /\ low = page[len] /\ 1 \in 1 .. len /\ len \in 1 .. len
          /\ \A i \in 1 .. len : page[i] \in Stored(ix) /\ page[i] \in to .. from /\ page[i] \in Int
      BY <1>1, <1>2, <1>4, <1>9, <2>2, <2>3 DEF IsPage
    <2>5. /\ t.errors = end.errors /\ t.missing = end.missing /\ t.pending = low
      <3>1. t = [errors |-> end.errors, missing |-> end.missing, pending |-> Last(blocks)]
        BY <1>7, <2>0
      <3>2. Last(blocks) = low BY <2>2 DEF Last
      <3>. HIDE DEF t
      <3>. QED BY <3>1, <3>2
    <2>. HIDE DEF t
    <2>6. /\ low \in Stored(ix) /\ low \in Int /\ low # 0 /\ to <= low /\ low <= from /\ low <= last
      <3>1. low \in Stored(ix) /\ low \in Int /\ low \in to .. from BY <2>4
      <3>2. low # 0 BY <1>4, <3>1
      <3>. QED BY <3>1, <3>2
    <2>7. top \in Int /\ low <= top /\ top <= last
      <3>1. top = IF s.pending = 0 THEN last ELSE s.pending BY <1>2, <1>9, <2>2
      <3>2. CASE s.pending = 0 BY <2>6, <3>1, <3>2
      <3>3. CASE s.pending # 0
        <4>1. top = s.pending BY <3>1, <3>3
        <4>2. top \in Int /\ from <= top /\ top <= last BY <1>3, <1>4, <3>3, <4>1
        <4>. QED BY <2>6, <4>2
      <3>. QED BY <3>2, <3>3
    <2>8. Covered(t.missing) = NotIndexed(ix, low, last)
      <3>1. CASE s.pending = 0
        BY <1>2, <1>3, <1>9, <2>1, <2>2, <2>5, <3>1
      <3>2. CASE s.pending # 0
        <4>1. Covered(t.missing) = NotIndexed(ix, top, last) \cup NotIndexed(ix, low, top)
          BY <1>2, <1>3, <1>9, <2>1, <2>2, <2>5, <3>2
        <4>2. NotIndexed(ix, low, last) = NotIndexed(ix, low, top) \cup NotIndexed(ix, top, last)
          BY <2>6, <2>7, AbsentJoin
        <4>. QED BY <4>1, <4>2
      <3>. QED BY <3>1, <3>2
    <2>9. ASSUME NEW n \in Stored(ix), to <= n, n < low PROVE n = to /\ low = n + 1
      <3>1. n \in Int /\ n \in to .. from BY <1>4, <2>6, <2>9
      <3>2. \A i \in 1 .. len : low <= page[i]
        <4>. TAKE i \in 1 .. len
        <4>1. i = len \/ i < len BY <2>4
        <4>2. i < len => page[i] > page[len] BY <1>1, <2>3, <2>4 DEF IsPage
        <4>. QED BY <2>4, <4>1, <4>2
      <3>3. ~ \E i \in 1 .. len : page[i] = n BY <2>6, <2>9, <3>1, <3>2
      <3>4. len = ScanBatch BY <1>1, <2>3, <3>1, <3>3 DEF IsPage
      <3>5. page[len] <= page[1] - (len - 1)
        <4>1. page \in Seq(Int) BY <1>4, <1>5, SeqMonotonic
        <4>2. \A i, j \in 1 .. Len(page) : i < j => page[i] > page[j] BY <1>1 DEF IsPage
        <4>3. len \in 1 .. Len(page) BY <2>3, <2>4
        <4>. QED BY <4>1, <4>2, <4>3, FallsByOne
      <3>6. page[1] <= from /\ page[1] \in Int BY <2>4
      <3>7. low <= from - (ScanBatch - 1) BY <2>4, <3>4, <3>5, <3>6, <1>0
      <3>. QED BY <1>0, <2>6, <2>9, <3>1, <3>7
    <2>. QED BY <1>6, <2>1, <2>5, <2>6, <2>8, <2>9 DEF Scanned
  <1>. QED BY <1>8, <1>9
-----------------------------------------------------------------------------
(* The scan *)

\* The pages of a scan end where the next one begins, the last one at the first block.
LEMMA ScanPages ==
  ASSUME NEW first \in Int, NEW last \in Int, first <= last
  PROVE  /\ (last - first + ScanBatch - 1) \div ScanBatch \in Nat
         /\ \A i \in Int : i * ScanBatch \in Int /\ (i - 1) * ScanBatch = i * ScanBatch - ScanBatch
         /\ \A i \in 1 .. ((last - first + ScanBatch - 1) \div ScanBatch) :
               (i - 1) * ScanBatch < last - first
         /\ ((last - first + ScanBatch - 1) \div ScanBatch) * ScanBatch >= last - first
  <1>1. PICK b \in Nat \ {0} : b = ScanBatch BY ScanAssumption
  <1>2. PICK d \in Nat : d = last - first OBVIOUS
  <1>3. PICK x \in Nat : x = d + b - 1 OBVIOUS
  <1>4. PICK q \in Nat : q = x \div b /\ q * b <= x /\ x < q * b + b
    <2>1. x \div b \in Nat /\ (x \div b) * b <= x /\ x < (x \div b) * b + b OBVIOUS
    <2>. QED BY <2>1
  <1>5. \A i \in Int : i * b \in Int /\ (i - 1) * b = i * b - b OBVIOUS
  <1>6. ASSUME NEW i \in 1 .. q PROVE (i - 1) * b < d
    <2>1. (q - i) * b >= 0
      <3>1. q - i \in Nat OBVIOUS
      <3>2. \A n \in Nat : n * b >= 0 OBVIOUS
      <3>. QED BY <3>1, <3>2
    <2>2. (q - i) * b = q * b - i * b OBVIOUS
    <2>3. PICK u, v : u = i * b /\ v = q * b OBVIOUS
    <2>4. u \in Int /\ v \in Int BY <2>3
    <2>5. v - u >= 0 BY <2>1, <2>2, <2>3
    <2>6. (i - 1) * b = u - b BY <1>5, <2>3
    <2>. QED BY <1>3, <1>4, <2>3, <2>4, <2>5, <2>6
  <1>7. q * b >= d
    <2>1. PICK v \in Int : v = q * b OBVIOUS
    <2>. QED BY <1>3, <1>4, <2>1
  <1>8. q = (last - first + ScanBatch - 1) \div ScanBatch BY <1>1, <1>2, <1>3, <1>4
  <1>. QED BY <1>1, <1>2, <1>4, <1>5, <1>6, <1>7, <1>8

PageFrom(last, i) == last - (i - 1) * ScanBatch
PageTo(first, last, i) ==
    IF PageFrom(last, i) - ScanBatch < first THEN first ELSE PageFrom(last, i) - ScanBatch
PageStep(ix, first, last, s, i) ==
    FindForksOnRange(ix, s, GetBlocks(ix, PageFrom(last, i), PageTo(first, last, i), ScanBatch))

\* The states of the fold over the n pages of a scan.
ScanStates(r, ix, first, last, n) ==
    /\ r[0] = [errors |-> <<>>, missing |-> <<>>, pending |-> 0]
    /\ \A k \in 1 .. n : r[k] = PageStep(ix, first, last, r[k - 1], k)
    /\ \A k \in 0 .. n : r[k] \in RunType
    /\ Run(ix, first, last) = r[n]

LEMMA ScanSteps ==
  ASSUME NEW ix, NEW first \in Int, NEW last \in Int, first <= last
  PROVE  \E r : ScanStates(r, ix, first, last, (last - first + ScanBatch - 1) \div ScanBatch)
  <1> DEFINE pages == (last - first + ScanBatch - 1) \div ScanBatch
             base == [errors |-> <<>>, missing |-> <<>>, pending |-> 0]
             seq == [i \in 1 .. pages |-> i]
             iter == CHOOSE h : h = [t \in SUBSET DOMAIN seq |->
                        IF t = {} THEN base
                        ELSE PageStep(ix, first, last, h[t \ {Max(t)}], seq[Max(t)])]
  <1>1. Run(ix, first, last) = iter[DOMAIN seq]
    BY Zenon DEF Run, PageStep, PageFrom, PageTo, FoldLeft, MapThenFoldSet
  <1>2. PICK n \in Nat : n = pages BY ScanPages
  <1>3. base \in RunType BY DEF RunType
  <1> DEFINE op == [p \in RunType \X (1 .. n) |-> PageStep(ix, first, last, p[1], p[2])]
  <1>4. \A t \in RunType, k \in 1 .. n :
           /\ PageStep(ix, first, last, t, k) \in RunType
           /\ op[<<t, k>>] = PageStep(ix, first, last, t, k)
    <2>. SUFFICES ASSUME NEW t \in RunType, NEW k \in 1 .. n
                  PROVE  PageStep(ix, first, last, t, k) \in RunType
      OBVIOUS
    <2> DEFINE page == GetBlocks(ix, PageFrom(last, k), PageTo(first, last, k), ScanBatch)
    <2>1. PageFrom(last, k) \in Int
      <3>1. k - 1 \in Int /\ ScanBatch \in Int BY ScanAssumption
      <3>2. (k - 1) * ScanBatch \in Int BY <3>1
      <3>. QED BY <3>2 DEF PageFrom
    <2>2. PageTo(first, last, k) \in Int BY <2>1, ScanAssumption DEF PageTo
    <2>3. ScanBatch \in Nat BY ScanAssumption
    <2>4. IsPage(page, ix, PageFrom(last, k), PageTo(first, last, k), ScanBatch)
      BY <2>1, <2>2, <2>3, PageOfIndex
    <2>5. page \in Seq(Blocks) BY <2>4 DEF IsPage
    <2>. QED BY <2>5, PageType DEF PageStep
  <1>5. op \in [RunType \X (1 .. n) -> RunType] BY <1>4
  <1>. HIDE DEF op, base
  <1>6. PICK g \in [SUBSET (1 .. n) -> RunType] : Tabulates(g, n, base, op)
    BY <1>3, <1>5, FoldRecursion
  <1>7. DOMAIN seq = 1 .. n /\ \A k \in 1 .. n : seq[k] = k BY <1>2
  <1>8. ASSUME NEW h, NEW t \in SUBSET (1 .. n), t # {}, h[t \ {Max(t)}] \in RunType
        PROVE  op[<<h[t \ {Max(t)}], Max(t)>>]
               = PageStep(ix, first, last, h[t \ {Max(t)}], seq[Max(t)])
    <2>1. Max(t) \in 1 .. n BY <1>8, MaxOfPositions
    <2>. HIDE DEF seq
    <2>. QED BY <1>4, <1>7, <1>8, <2>1
  <1>9. \E h : h = [t \in SUBSET DOMAIN seq |->
                      IF t = {} THEN base
                      ELSE PageStep(ix, first, last, h[t \ {Max(t)}], seq[Max(t)])]
    <2>1. \A t \in SUBSET (1 .. n) : t # {} => g[t \ {Max(t)}] \in RunType OBVIOUS
    <2>2. g = [t \in SUBSET DOMAIN seq |->
                 IF t = {} THEN base
                 ELSE PageStep(ix, first, last, g[t \ {Max(t)}], seq[Max(t)])]
      <3>. HIDE DEF seq
      <3>. QED BY <1>6, <1>7, <1>8, <2>1 DEF Tabulates
    <2>. HIDE DEF seq
    <2>. QED BY <2>2, Zenon
  <1>10. iter = [t \in SUBSET DOMAIN seq |->
                  IF t = {} THEN base
                  ELSE PageStep(ix, first, last, iter[t \ {Max(t)}], seq[Max(t)])]
    BY <1>9, Zenon
  <1>. HIDE DEF iter, seq
  <1>11. Iterates(iter, n, RunType, base, op) BY <1>7, <1>8, <1>10 DEF Iterates
  <1>12. PICK r : States(r, n, RunType, base, op) /\ r[n] = iter[1 .. n]
    <2>1. Reaches(iter, n, RunType, base, op) BY <1>3, <1>5, <1>11, FoldStates
    <2>. QED BY <2>1 DEF Reaches
  <1>13. \A k \in 1 .. n : k - 1 \in 0 .. n OBVIOUS
  <1>14. \A k \in 1 .. n : r[k] = PageStep(ix, first, last, r[k - 1], k)
    BY <1>4, <1>12, <1>13 DEF States
  <1>15. ScanStates(r, ix, first, last, n) BY <1>1, <1>7, <1>12, <1>14 DEF States, ScanStates, base
  <1>. QED BY <1>2, <1>15

\* The block the scan reaches with k pages.
PageLow(first, last, k) == IF last - k * ScanBatch < first THEN first ELSE last - k * ScanBatch

LEMMA PageBounds ==
  ASSUME NEW first \in Int, NEW last \in Int, first <= last,
         NEW k \in 1 .. ((last - first + ScanBatch - 1) \div ScanBatch)
  PROVE  /\ PageLow(first, last, k) \in Int /\ PageLow(first, last, k - 1) \in Int
         /\ PageFrom(last, k) = PageLow(first, last, k - 1)
         /\ PageTo(first, last, k) = PageLow(first, last, k)
         /\ PageLow(first, last, k) < PageLow(first, last, k - 1)
         /\ PageLow(first, last, k - 1) - ScanBatch <= PageLow(first, last, k)
         /\ PageLow(first, last, k - 1) <= last /\ first <= PageLow(first, last, k)
  <1>1. ScanBatch \in Nat \ {0} /\ ScanBatch \in Int BY ScanAssumption
  <1>2. PICK u, v : u = k * ScanBatch /\ v = (k - 1) * ScanBatch OBVIOUS
  <1>3. k \in Int /\ k - 1 \in Nat
    <2>1. (last - first + ScanBatch - 1) \div ScanBatch \in Nat BY ScanPages
    <2>. QED BY <2>1
  <1>4. u \in Int /\ v = u - ScanBatch /\ v < last - first BY <1>2, <1>3, ScanPages
  <1>5. v >= 0
    <2>1. \A b \in Nat, m \in Nat : m * b >= 0 OBVIOUS
    <2>. QED BY <1>1, <1>2, <1>3, <2>1
  <1>6. /\ PageLow(first, last, k) = (IF last - u < first THEN first ELSE last - u)
        /\ PageLow(first, last, k - 1) = (IF last - v < first THEN first ELSE last - v)
        /\ PageFrom(last, k) = last - v
    BY <1>2, Zenon DEF PageFrom, PageLow
  <1>7. PageTo(first, last, k) = IF last - v - ScanBatch < first THEN first ELSE last - v - ScanBatch
    BY <1>6, Zenon DEF PageTo
  <1>. QED BY <1>1, <1>4, <1>5, <1>6, <1>7

\* The states of a scan between two indexed blocks know what their pages have shown.
ScannedStates(r, ix, first, last, n) ==
    /\ ScanStates(r, ix, first, last, n)
    /\ \A k \in 0 .. n : Scanned(ix, r[k], PageLow(first, last, k), last)

LEMMA PagesScanned ==
  ASSUME NEW ix, NEW first \in Stored(ix), NEW last \in Stored(ix), first <= last
  PROVE  \E r : ScannedStates(r, ix, first, last, (last - first + ScanBatch - 1) \div ScanBatch)
  <1>1. first \in Int /\ last \in Int /\ ScanBatch \in Nat \ {0}
    BY ScanAssumption DEF Stored, Blocks
  <1>2. PICK n : n = (last - first + ScanBatch - 1) \div ScanBatch OBVIOUS
  <1>3. n \in Nat BY <1>1, <1>2, ScanPages
  <1>4. PICK r : ScanStates(r, ix, first, last, n) BY <1>1, <1>2, ScanSteps
  <1> DEFINE low(k) == PageLow(first, last, k)
             P == {k \in 0 .. n : Scanned(ix, r[k], low(k), last)}
  <1>5. 0 \in P
    <2>1. /\ r[0] \in RunType /\ r[0].errors = <<>> /\ r[0].missing = <<>> /\ r[0].pending = 0
      <3>1. 0 \in 0 .. n BY <1>3
      <3>. QED BY <1>4, <3>1 DEF ScanStates
    <2>2. GoodForks(ix, r[0].errors) BY <2>1 DEF GoodForks
    <2>3. Covered(r[0].missing) = {} BY <2>1 DEF Covered
    <2>4. low(0) = last
      <3>1. 0 * ScanBatch = 0 BY <1>1
      <3>. QED BY <1>1, <3>1 DEF PageLow
    <2>5. Scanned(ix, r[0], low(0), last)
      <3>. HIDE DEF low
      <3>. QED BY <2>1, <2>2, <2>3, <2>4 DEF Scanned
    <2>6. 0 \in 0 .. n BY <1>3
    <2>. HIDE DEF low
    <2>. QED BY <2>5, <2>6
  <1>6. ASSUME NEW k \in 1 .. n, k - 1 \in P PROVE k \in P
    <2>1. PICK s, a, b : s = r[k - 1] /\ a = low(k - 1) /\ b = low(k) OBVIOUS
    <2>2. /\ a \in Int /\ b \in Int /\ b < a /\ a - ScanBatch <= b /\ a <= last
          /\ PageFrom(last, k) = a /\ PageTo(first, last, k) = b
      BY <1>1, <1>2, <2>1, PageBounds
    <2>3. Scanned(ix, s, a, last)
      <3>. HIDE DEF low
      <3>. QED BY <1>6, <2>1
    <2>4. r[k] = FindForksOnRange(ix, s, GetBlocks(ix, a, b, ScanBatch))
      BY <1>4, <2>1, <2>2 DEF ScanStates, PageStep
    <2>5. Scanned(ix, FindForksOnRange(ix, s, GetBlocks(ix, a, b, ScanBatch)), b, last)
      BY <1>1, <2>2, <2>3, PageScanned
    <2>6. k \in 0 .. n BY <1>3
    <2>. HIDE DEF low
    <2>. QED BY <2>1, <2>4, <2>5, <2>6
  <1>7. \A k \in 0 .. n : k \in P
    <2>. HIDE DEF P
    <2>. QED BY <1>3, <1>5, <1>6, Ascend
  <1>8. ScannedStates(r, ix, first, last, n) BY <1>4, <1>7 DEF ScannedStates
  <1>. QED BY <1>2, <1>8

\* A scan from the last indexed block to the first finds every gap, and no fork block that
\* is of the chain.
LEMMA RunScans ==
  ASSUME NEW ix, NEW first \in Stored(ix), NEW last \in Stored(ix), first <= last
  PROVE  /\ Run(ix, first, last) \in RunType
         /\ GoodForks(ix, Run(ix, first, last).errors)
         /\ Covered(Run(ix, first, last).missing) = NotIndexed(ix, first, last)
  <1>1. first \in Int /\ last \in Int /\ first >= 1 /\ last >= 1
        /\ Stored(ix) \subseteq Int /\ ScanBatch \in Nat \ {0} /\ ScanBatch \in Int
    BY ScanAssumption DEF Stored, Blocks
  <1>2. PICK n : n = (last - first + ScanBatch - 1) \div ScanBatch OBVIOUS
  <1>3. n \in Nat /\ n * ScanBatch \in Int /\ n * ScanBatch >= last - first
    BY <1>1, <1>2, ScanPages
  <1>4. PICK r : ScannedStates(r, ix, first, last, n) BY <1>2, PagesScanned
  <1>5. PageLow(first, last, n) = first
    <2>1. PICK u \in Int : u = n * ScanBatch BY <1>3
    <2>2. PageLow(first, last, n) = IF last - u < first THEN first ELSE last - u
      BY <2>1, Zenon DEF PageLow
    <2>3. u >= last - first BY <1>3, <2>1
    <2>. QED BY <1>1, <2>1, <2>2, <2>3
  <1>6. PICK s : s = Run(ix, first, last) OBVIOUS
  <1>7. Scanned(ix, s, first, last)
    <2>1. r[n] = s BY <1>4, <1>6 DEF ScannedStates, ScanStates
    <2>2. n \in 0 .. n BY <1>3
    <2>. QED BY <1>4, <1>5, <2>1, <2>2 DEF ScannedStates
  <1>8. Covered(s.missing) = NotIndexed(ix, first, last)
    <2>1. CASE s.pending = 0
      <3>1. first = last /\ Covered(s.missing) = {} BY <1>7, <2>1 DEF Scanned
      <3>. QED BY <1>1, <3>1 DEF NotIndexed
    <2>2. CASE s.pending # 0
      <3>1. PICK p : p = s.pending OBVIOUS
      <3>2. /\ p \in Int /\ first <= p /\ p <= last /\ Covered(s.missing) = NotIndexed(ix, p, last)
            /\ first < p => p = first + 1
        BY <1>1, <1>7, <2>2, <3>1 DEF Scanned
      <3>3. NotIndexed(ix, first, last) = NotIndexed(ix, p, last) BY <1>1, <3>2 DEF NotIndexed
      <3>. QED BY <3>2, <3>3
    <2>. QED BY <2>1, <2>2
  <1>. QED BY <1>6, <1>7, <1>8 DEF Scanned

\* The first and the last indexed block.
LEMMA IndexedEnds ==
  ASSUME NEW ix, Stored(ix) # {}
  PROVE  /\ FirstIndexed(ix) \in Stored(ix) /\ LastIndexed(ix) \in Stored(ix)
         /\ FirstIndexed(ix) <= LastIndexed(ix)
         /\ \A n \in Stored(ix) : FirstIndexed(ix) <= n /\ n <= LastIndexed(ix)
  <1>1. Stored(ix) \in SUBSET (1 .. NumBlocks) /\ NumBlocks \in Nat /\ Stored(ix) \in SUBSET Nat
    BY ScanAssumption DEF Stored, Blocks
  <1>2. \E n \in Stored(ix) : \A m \in Stored(ix) : n <= m BY <1>1, LeastNumber
  <1>3. \E n \in Stored(ix) : \A m \in Stored(ix) : n >= m
    <2>1. Max(Stored(ix)) \in Stored(ix) /\ \A i \in Stored(ix) : i <= Max(Stored(ix))
      BY <1>1, MaxOfPositions
    <2>2. \A i, j \in Stored(ix) : i <= j <=> j >= i BY <1>1
    <2>. QED BY <2>1, <2>2
  <1>4. FirstIndexed(ix) \in Stored(ix) /\ \A m \in Stored(ix) : FirstIndexed(ix) <= m
    BY <1>2 DEF FirstIndexed
  <1>5. LastIndexed(ix) \in Stored(ix) /\ \A m \in Stored(ix) : LastIndexed(ix) >= m
    BY <1>3 DEF LastIndexed
  <1>. QED BY <1>1, <1>4, <1>5
-----------------------------------------------------------------------------
(* Repairing a fork *)

\* Every onBranch block the scan lists for deletion is in the range of its fork.
LEMMA IdsInRange ==
  ASSUME index \in Indexes, index[1] = "ok"
  PROVE  ForkIds \subseteq ForkRange
  <1>1. 1 \in Stored(index) BY ScanAssumption DEF Stored, Blocks
  <1>2. /\ FirstIndexed(index) \in Stored(index) /\ LastIndexed(index) \in Stored(index)
        /\ FirstIndexed(index) <= LastIndexed(index)
    BY <1>1, IndexedEnds
  <1>3. GoodForks(index, Forks)
    <2>1. GoodForks(index, Run(index, FirstIndexed(index), LastIndexed(index)).errors)
      BY <1>2, RunScans
    <2>. QED BY <2>1 DEF Forks, ScanChain
  <1>4. Forks \in Seq(ForkType)
    <2>1. Run(index, FirstIndexed(index), LastIndexed(index)) \in RunType BY <1>2, RunScans
    <2>. QED BY <2>1 DEF Forks, ScanChain, RunType
  <1>. SUFFICES ASSUME NEW i \in DOMAIN Forks, NEW n \in Forks[i].ids
                PROVE  n \in Forks[i].end .. Forks[i].start
    BY DEF ForkIds, ForkRange
  <1>5. Forks[i] \in ForkType BY <1>4
  <1>6. n \in Blocks /\ Forks[i].end <= n /\ n <= Forks[i].start
    BY <1>3 DEF GoodForks, GoodFork
  <1>7. Forks[i].end \in Int /\ Forks[i].start \in Int /\ n \in Int
    BY <1>5, <1>6, ScanAssumption DEF ForkType, Blocks
  <1>. QED BY <1>6, <1>7

Deleting == {"deletingAccounts", "deletingRows", "deletingBlocks"}

\* Until the tool fills, no reader runs and the index is the one that was scanned; what
\* the forks' ranges still have indexed goes step by step, the blocks last.
OrphanInv ==
    /\ index \in Indexes
    /\ NoOrphans
    /\ phase \in {"fresh", "damaged"} \cup Deleting => reader = "none" /\ index[1] = "ok"
    /\ phase \in Deleting => docs \cap ForkRange = {}
    /\ phase \in {"deletingRows", "deletingBlocks"} => accounts \cap ForkRange = {}
    /\ phase = "deletingBlocks" => rows \cap ForkRange = {}

\* A step that leaves the index and what goes with it alone.
LEMMA OrphanFrame ==
  ASSUME OrphanInv, UNCHANGED indexVars,
         phase' \in {"fresh", "damaged"} \cup Deleting => phase' = phase /\ reader' = reader
  PROVE  OrphanInv'
  <1>1. index' = index /\ docs' = docs /\ accounts' = accounts /\ rows' = rows BY DEF indexVars
  <1>2. ForkRange' = ForkRange BY <1>1 DEF ForkRange, Forks
  <1>3. NoOrphans' BY <1>1 DEF OrphanInv, NoOrphans
  <1>. QED BY <1>1, <1>2, <1>3 DEF OrphanInv, Deleting

LEMMA OrphanStep == OrphanInv /\ [RepairNext]_repairVars => OrphanInv'
  <1>. SUFFICES ASSUME OrphanInv, [RepairNext]_repairVars PROVE OrphanInv' OBVIOUS
  <1>0. 1 \in Blocks BY ScanAssumption DEF Blocks
  <1>1. CASE Damage
    <2>1. PICK ix \in Indexes : ix[1] = "ok" /\ index' = ix /\ docs' = Stored(ix)
                               /\ accounts' = Stored(ix) /\ rows' = Stored(ix)
      BY <1>1 DEF Damage
    <2>2. phase = "fresh" /\ phase' = "damaged" /\ reader' = reader BY <1>1 DEF Damage, readerVars
    <2>3. NoOrphans' BY <2>1 DEF NoOrphans
    <2>. QED BY <2>1, <2>2, <2>3 DEF OrphanInv, Deleting
  <1>2. CASE FillMissing
    <2>1. UNCHANGED indexVars /\ phase' = "filling" BY <1>2 DEF FillMissing
    <2>. QED BY <2>1, OrphanFrame DEF Deleting
  <1>3. CASE DeleteHistory
    <2>1. /\ phase = "damaged" /\ phase' = "deletingAccounts" /\ docs' = docs \ ForkRange
          /\ index' = index /\ accounts' = accounts /\ rows' = rows /\ reader' = reader
      BY <1>3 DEF DeleteHistory, readerVars
    <2>2. ForkRange' = ForkRange BY <2>1 DEF ForkRange, Forks
    <2>3. NoOrphans' BY <2>1 DEF OrphanInv, NoOrphans
    <2>. QED BY <2>1, <2>2, <2>3 DEF OrphanInv, Deleting
  <1>4. CASE DeleteAccounts
    <2>1. /\ phase = "deletingAccounts" /\ phase' = "deletingRows" /\ docs' = docs
          /\ index' = index /\ accounts' = accounts \ ForkRange /\ rows' = rows /\ reader' = reader
      BY <1>4 DEF DeleteAccounts, readerVars
    <2>2. ForkRange' = ForkRange BY <2>1 DEF ForkRange, Forks
    <2>3. NoOrphans' BY <2>1 DEF OrphanInv, NoOrphans
    <2>. QED BY <2>1, <2>2, <2>3 DEF OrphanInv, Deleting
  <1>5. CASE DeleteRows
    <2>1. /\ phase = "deletingRows" /\ phase' = "deletingBlocks" /\ docs' = docs
          /\ index' = index /\ accounts' = accounts /\ rows' = rows \ ForkRange /\ reader' = reader
      BY <1>5 DEF DeleteRows, readerVars
    <2>2. ForkRange' = ForkRange BY <2>1 DEF ForkRange, Forks
    <2>3. NoOrphans' BY <2>1 DEF OrphanInv, NoOrphans
    <2>. QED BY <2>1, <2>2, <2>3 DEF OrphanInv, Deleting
  <1>6. CASE DeleteBlocks
    <2>1. /\ phase = "deletingBlocks" /\ phase' = "filling" /\ docs' = docs /\ accounts' = accounts
          /\ index' = [n \in Blocks |-> IF n \in ForkIds THEN "absent" ELSE index[n]] /\ rows' = rows
      BY <1>6 DEF DeleteBlocks
    <2>2. ForkIds \subseteq ForkRange BY <2>1, IdsInRange DEF OrphanInv, Deleting
    <2>3. ForkRange \cap (docs \cup accounts \cup rows) = {} BY <2>1 DEF OrphanInv, Deleting
    <2>4. index' \in Indexes BY <2>1 DEF OrphanInv, Indexes, Kinds
    <2>5. \A n \in Blocks : n \notin Stored(index') => n \in ForkIds \/ n \notin Stored(index)
      BY <2>1 DEF Stored
    <2>6. NoOrphans' BY <2>1, <2>2, <2>3, <2>5 DEF OrphanInv, NoOrphans
    <2>. QED BY <2>1, <2>4, <2>6 DEF OrphanInv, Deleting
  <1>7. CASE DeleteFails
    <2>1. /\ phase \in Deleting /\ phase' = "damaged" /\ docs' = docs /\ accounts' = accounts
          /\ index' = index /\ rows' = rows /\ reader' = reader
      BY <1>7 DEF DeleteFails, indexVars, readerVars, Deleting
    <2>2. NoOrphans' BY <2>1 DEF OrphanInv, NoOrphans
    <2>. QED BY <2>1, <2>2 DEF OrphanInv, Deleting
  <1>8. CASE Tool
    <2>1. UNCHANGED indexVars /\ phase' \in {"waiting", "filling", "done"}
      BY <1>8 DEF Tool, FirstChunk, NextChunk, LastChunk, Finish, Send, indexVars
    <2>. QED BY <2>1, OrphanFrame DEF Deleting
  <1>9. CASE Interrupt \/ ResumeFill
    <2>1. UNCHANGED indexVars /\ phase' \in {"stopped", "filling"} BY <1>9 DEF Interrupt, ResumeFill
    <2>. QED BY <2>1, OrphanFrame DEF Deleting
  <1>10. CASE OtherSessionCloses
    <2>1. UNCHANGED indexVars /\ phase' = phase /\ reader' = reader
      BY <1>10 DEF OtherSessionCloses, toolVars, readerVars
    <2>. QED BY <2>1, OrphanFrame
  <1>11. CASE OnReaderMessage
    <2>1. UNCHANGED indexVars /\ phase' = phase /\ reader' = reader
      BY <1>11 DEF OnReaderMessage, toolVars
    <2>. QED BY <2>1, OrphanFrame
  <1>12. CASE RepairBlock
    <2>1. /\ reader = "busy" /\ phase' = phase
          /\ index' = [index EXCEPT ![next] = "ok"] /\ docs' = docs \cup {next}
          /\ accounts' = accounts \cup {next} /\ rows' = rows \cup {next}
      BY <1>12 DEF RepairBlock, toolVars
    <2>2. index' \in Indexes BY <2>1 DEF OrphanInv, Indexes, Kinds
    <2>3. \A n \in Blocks : n \notin Stored(index') => n # next /\ n \notin Stored(index)
      BY <2>1 DEF OrphanInv, Stored, Indexes
    <2>4. NoOrphans' BY <2>1, <2>3 DEF OrphanInv, NoOrphans
    <2>. QED BY <2>1, <2>2, <2>4 DEF OrphanInv, Deleting
  <1>13. CASE Ready \/ OnNewRange \/ RangeCompleted \/ OnDisconnect \/ RelaunchRepair \/ Crash
    <2>1. UNCHANGED indexVars /\ phase' = phase /\ reader # "none"
      BY <1>13 DEF Ready, OnNewRange, RangeCompleted, OnDisconnect, RelaunchRepair, Crash, toolVars
    <2>2. phase \notin {"fresh", "damaged"} \cup Deleting BY <2>1 DEF OrphanInv
    <2>. QED BY <2>1, <2>2, OrphanFrame
  <1>14. CASE UNCHANGED repairVars
    <2>1. UNCHANGED indexVars /\ phase' = phase /\ reader' = reader
      BY <1>14 DEF repairVars, toolVars, readerVars
    <2>. QED BY <2>1, OrphanFrame
  <1>. QED
    BY <1>1, <1>2, <1>3, <1>4, <1>5, <1>6, <1>7, <1>8, <1>9, <1>10, <1>11, <1>12, <1>13, <1>14
    DEF RepairNext, Master, Reader

\* Whatever is interrupted, a block without a document has nothing else indexed.
THEOREM NothingIsOrphaned == RepairSpec => []NoOrphans
  <1>1. RepairInit => OrphanInv
    BY ScanAssumption DEF RepairInit, OrphanInv, NoOrphans, Indexes, Kinds, Stored, Blocks, Deleting
  <1>2. OrphanInv => NoOrphans BY DEF OrphanInv
  <1>. QED BY <1>1, <1>2, OrphanStep, PTL DEF RepairSpec
-----------------------------------------------------------------------------
(* Lists of ranges *)

MergeStep(acc, r) ==
    IF acc # <<>> /\ r.start = Last(acc).end + 1
    THEN Front(acc) \o <<[start |-> Last(acc).start, end |-> r.end]>>
    ELSE Append(acc, r)

\* The list after each of n steps of a merge.
MergeStates(r, s, n) ==
    /\ r[0] = <<>>
    /\ \A k \in 1 .. n : r[k] = MergeStep(r[k - 1], s[k])
    /\ \A k \in 0 .. n : r[k] \in Seq(GapType)
    /\ MergeRanges(s) = r[n]

LEMMA MergeStepType ==
  ASSUME NEW acc \in Seq(GapType), NEW r \in GapType
  PROVE  /\ MergeStep(acc, r) \in Seq(GapType)
         /\ acc # <<>> => Front(acc) \in Seq(GapType) /\ Last(acc) \in GapType
                          /\ acc = Append(Front(acc), Last(acc))
  <1>1. CASE acc # <<>>
    <2>1. PICK n : n = Len(acc) OBVIOUS
    <2>2. n \in Nat \ {0} /\ \A i \in 1 .. n : acc[i] \in GapType BY <1>1, <2>1
    <2>3. Front(acc) = SubSeq(acc, 1, n - 1) /\ Last(acc) = acc[n] BY <2>1 DEF Front, Last
    <2>4. Front(acc) \in Seq(GapType) /\ Len(Front(acc)) = n - 1
          /\ \A i \in 1 .. n - 1 : Front(acc)[i] = acc[i]
      BY <2>1, <2>2, <2>3
    <2>5. Last(acc) \in GapType BY <2>2, <2>3
    <2>6. [start |-> Last(acc).start, end |-> r.end] \in GapType BY <2>5 DEF GapType
    <2>7. MergeStep(acc, r) \in Seq(GapType)
      <3>1. PICK f \in Seq(GapType), g \in GapType :
               f = Front(acc) /\ g = [start |-> Last(acc).start, end |-> r.end]
        BY <2>4, <2>6
      <3>2. f \o <<g>> \in Seq(GapType) /\ Append(acc, r) \in Seq(GapType) OBVIOUS
      <3>. QED BY <3>1, <3>2 DEF MergeStep
    <2>8. acc = Append(Front(acc), Last(acc))
      <3>1. PICK f, g : f = Front(acc) /\ g = Last(acc) OBVIOUS
      <3>2. /\ f \in Seq(GapType) /\ Len(f) = n - 1 /\ g = acc[n] /\ g \in GapType
            /\ \A i \in 1 .. n - 1 : f[i] = acc[i]
        BY <2>3, <2>4, <2>5, <3>1
      <3>3. /\ Append(f, g) \in Seq(GapType) /\ Len(Append(f, g)) = n
            /\ \A i \in 1 .. n - 1 : Append(f, g)[i] = f[i]
            /\ Append(f, g)[n] = g
        BY <2>2, <3>2
      <3>4. \A i \in 1 .. n : i = n \/ i \in 1 .. n - 1 BY <2>2
      <3>5. \A i \in 1 .. n : Append(f, g)[i] = acc[i] BY <3>2, <3>3, <3>4
      <3>6. Append(f, g) = acc BY <2>1, <3>3, <3>5, SeqEqual
      <3>. QED BY <3>1, <3>6
    <2>. QED BY <2>4, <2>5, <2>7, <2>8
  <1>2. CASE acc = <<>> BY <1>2 DEF MergeStep
  <1>. QED BY <1>1, <1>2

LEMMA MergeSteps ==
  ASSUME NEW s \in Seq(GapType)
  PROVE  \E r : MergeStates(r, s, Len(s))
  <1> DEFINE n == Len(s)
             iter == CHOOSE h : h = [t \in SUBSET DOMAIN s |->
                        IF t = {} THEN <<>> ELSE MergeStep(h[t \ {Max(t)}], s[Max(t)])]
             op == [p \in Seq(GapType) \X (1 .. n) |-> MergeStep(p[1], s[p[2]])]
  <1>1. MergeRanges(s) = iter[DOMAIN s] BY Zenon DEF MergeRanges, MergeStep, FoldLeft, MapThenFoldSet
  <1>2. n \in Nat /\ DOMAIN s = 1 .. n /\ \A k \in 1 .. n : s[k] \in GapType OBVIOUS
  <1>3. <<>> \in Seq(GapType) OBVIOUS
  <1>4. \A v \in Seq(GapType), k \in 1 .. n :
           MergeStep(v, s[k]) \in Seq(GapType) /\ op[<<v, k>>] = MergeStep(v, s[k])
    BY <1>2, MergeStepType
  <1>. HIDE DEF n
  <1>5. op \in [Seq(GapType) \X (1 .. n) -> Seq(GapType)] BY <1>4
  <1>. HIDE DEF op
  <1>6. PICK g \in [SUBSET (1 .. n) -> Seq(GapType)] : Tabulates(g, n, <<>>, op)
    BY <1>2, <1>3, <1>5, FoldRecursion
  <1>7. ASSUME NEW h, NEW t \in SUBSET (1 .. n), t # {}, h[t \ {Max(t)}] \in Seq(GapType)
        PROVE  op[<<h[t \ {Max(t)}], Max(t)>>] = MergeStep(h[t \ {Max(t)}], s[Max(t)])
    <2>1. Max(t) \in 1 .. n BY <1>2, <1>7, MaxOfPositions
    <2>. QED BY <1>4, <1>7, <2>1
  <1>8. \E h : h = [t \in SUBSET DOMAIN s |->
                      IF t = {} THEN <<>> ELSE MergeStep(h[t \ {Max(t)}], s[Max(t)])]
    <2>1. \A t \in SUBSET (1 .. n) : t # {} => g[t \ {Max(t)}] \in Seq(GapType) OBVIOUS
    <2>2. g = [t \in SUBSET DOMAIN s |->
                 IF t = {} THEN <<>> ELSE MergeStep(g[t \ {Max(t)}], s[Max(t)])]
      BY <1>2, <1>6, <1>7, <2>1 DEF Tabulates
    <2>. QED BY <2>2, Zenon
  <1>9. iter = [t \in SUBSET DOMAIN s |->
                  IF t = {} THEN <<>> ELSE MergeStep(iter[t \ {Max(t)}], s[Max(t)])]
    BY <1>8, Zenon
  <1>. HIDE DEF iter
  <1>10. Iterates(iter, n, Seq(GapType), <<>>, op) BY <1>2, <1>7, <1>9 DEF Iterates
  <1>11. PICK r : States(r, n, Seq(GapType), <<>>, op) /\ r[n] = iter[1 .. n]
    <2>1. Reaches(iter, n, Seq(GapType), <<>>, op) BY <1>2, <1>3, <1>5, <1>10, FoldStates
    <2>. QED BY <2>1 DEF Reaches
  <1>12. \A k \in 1 .. n : k - 1 \in 0 .. n BY <1>2
  <1>13. \A k \in 1 .. n : r[k] = MergeStep(r[k - 1], s[k])
    BY <1>4, <1>11, <1>12 DEF States
  <1>. QED BY <1>1, <1>2, <1>11, <1>13 DEF States, MergeStates, n

\* Ranges that hold a number.
Proper(ranges) == \A i \in DOMAIN ranges : ranges[i].start <= ranges[i].end

LEMMA ProperAppend ==
  ASSUME NEW s \in Seq(GapType), NEW g \in GapType
  PROVE  Proper(Append(s, g)) <=> Proper(s) /\ g.start <= g.end
  <1> DEFINE more == Append(s, g)
  <1>1. /\ DOMAIN more = 1 .. Len(s) + 1 /\ DOMAIN s = 1 .. Len(s) /\ more[Len(s) + 1] = g
        /\ \A i \in 1 .. Len(s) : more[i] = s[i]
    OBVIOUS
  <1>2. /\ \A i \in 1 .. Len(s) + 1 : i \in 1 .. Len(s) \/ i = Len(s) + 1
        /\ Len(s) + 1 \in 1 .. Len(s) + 1 /\ \A i \in 1 .. Len(s) : i \in 1 .. Len(s) + 1
    OBVIOUS
  <1>. HIDE DEF more
  <1>3. Proper(more) <=> Proper(s) /\ g.start <= g.end BY <1>1, <1>2 DEF Proper
  <1>. QED BY <1>3 DEF more

\* Merging neighbours changes no number that is covered.
LEMMA MergeKeeps ==
  ASSUME NEW s \in Seq(GapType), Proper(s)
  PROVE  MergeRanges(s) \in Seq(GapType) /\ Covered(MergeRanges(s)) = Covered(s)
  <1>1. PICK n : n = Len(s) OBVIOUS
  <1>2. n \in Nat /\ DOMAIN s = 1 .. n /\ \A k \in 1 .. n : s[k] \in GapType BY <1>1
  <1>3. PICK r : MergeStates(r, s, n) BY <1>1, MergeSteps
  <1> DEFINE Upto(k) == UNION {RangeOf(s[i]) : i \in 1 .. k}
             Good(k) == Proper(r[k]) /\ Covered(r[k]) = Upto(k)
             P == {k \in 0 .. n : Good(k)}
  <1>4. \A k \in 0 .. n : r[k] \in Seq(GapType) BY <1>3 DEF MergeStates
  <1>5. Good(0)
    <2>1. r[0] = <<>> BY <1>3 DEF MergeStates
    <2>2. Proper(<<>>) /\ Covered(<<>>) = {} BY DEF Proper, Covered
    <2>3. Upto(0) = {}
      <3>1. \A i : i \notin 1 .. 0 OBVIOUS
      <3>. QED BY <3>1
    <2>. QED BY <2>1, <2>2, <2>3
  <1>6. ASSUME NEW k \in 1 .. n, Good(k - 1) PROVE Good(k)
    <2>1. k - 1 \in 0 .. n /\ k \in 0 .. n BY <1>2
    <2>2. PICK acc \in Seq(GapType), g \in GapType : acc = r[k - 1] /\ g = s[k]
      BY <1>2, <1>4, <2>1
    <2>3. Proper(acc) /\ Covered(acc) = Upto(k - 1) BY <1>6, <2>2
    <2>4. g.start <= g.end /\ g.start \in Int /\ g.end \in Int BY <1>2, <2>2 DEF Proper, GapType
    <2>5. r[k] = MergeStep(acc, g) BY <1>3, <2>2 DEF MergeStates
    <2>6. Upto(k) = Upto(k - 1) \cup (g.start .. g.end)
      <3>1. \A i : i \in 1 .. k <=> i \in 1 .. k - 1 \/ i = k OBVIOUS
      <3>2. RangeOf(s[k]) = g.start .. g.end BY <2>2 DEF RangeOf
      <3>3. \A x : x \in Upto(k) <=> x \in Upto(k - 1) \cup RangeOf(s[k])
        <4>1. \A x : x \in Upto(k) <=> \E i \in 1 .. k : x \in RangeOf(s[i]) OBVIOUS
        <4>2. \A x : x \in Upto(k - 1) <=> \E i \in 1 .. k - 1 : x \in RangeOf(s[i]) OBVIOUS
        <4>. HIDE DEF Upto
        <4>. QED BY <3>1, <4>1, <4>2, Zenon
      <3>. HIDE DEF Upto
      <3>. QED BY <3>2, <3>3
    <2>. HIDE DEF Upto
    <2>7. CASE acc # <<>> /\ g.start = Last(acc).end + 1
      <3>1. PICK f, l : f = Front(acc) /\ l = Last(acc) OBVIOUS
      <3>2. f \in Seq(GapType) /\ l \in GapType /\ acc = Append(f, l) BY <2>7, <3>1, MergeStepType
      <3>3. PICK j : j = [start |-> l.start, end |-> g.end] OBVIOUS
      <3>4. j \in GapType /\ l.start \in Int /\ l.end \in Int /\ j.start = l.start /\ j.end = g.end
        BY <2>4, <3>2, <3>3 DEF GapType
      <3>5. r[k] = Append(f, j)
        <4>1. r[k] = f \o <<j>> BY <2>5, <2>7, <3>1, <3>3 DEF MergeStep
        <4>2. f \o <<j>> = Append(f, j) BY <3>2, <3>4
        <4>. QED BY <4>1, <4>2
      <3>6. Proper(f) /\ l.start <= l.end BY <2>3, <3>2, ProperAppend
      <3>7. Proper(r[k])
        <4>1. j.start <= j.end BY <2>4, <2>7, <3>1, <3>4, <3>6
        <4>. QED BY <3>2, <3>4, <3>5, <3>6, <4>1, ProperAppend
      <3>8. Covered(acc) = Covered(f) \cup (l.start .. l.end) BY <3>2, CoveredAppend
      <3>9. Covered(r[k]) = Covered(f) \cup (j.start .. j.end) BY <3>2, <3>4, <3>5, CoveredAppend
      <3>10. j.start .. j.end = (l.start .. l.end) \cup (g.start .. g.end)
        BY <2>4, <2>7, <3>1, <3>4, <3>6
      <3>. QED BY <2>3, <2>6, <3>7, <3>8, <3>9, <3>10
    <2>8. CASE ~ (acc # <<>> /\ g.start = Last(acc).end + 1)
      <3>1. r[k] = Append(acc, g) BY <2>5, <2>8 DEF MergeStep
      <3>2. Proper(r[k]) BY <2>3, <2>4, <3>1, ProperAppend
      <3>3. Covered(r[k]) = Covered(acc) \cup (g.start .. g.end) BY <3>1, CoveredAppend
      <3>. QED BY <2>3, <2>6, <3>2, <3>3
    <2>. QED BY <2>7, <2>8
  <1>7. n \in P
    <2>1. 0 \in P
      <3>1. 0 \in 0 .. n BY <1>2
      <3>. HIDE DEF Good
      <3>. QED BY <1>5, <3>1
    <2>2. \A k \in 1 .. n : k - 1 \in P => k \in P
      <3>1. \A k \in 1 .. n : k \in 0 .. n BY <1>2
      <3>. HIDE DEF Good
      <3>. QED BY <1>6, <3>1
    <2>3. n \in 0 .. n BY <1>2
    <2>. HIDE DEF P
    <2>. QED BY <1>2, <2>1, <2>2, <2>3, Ascend
  <1>8. Covered(s) = Upto(n) BY <1>2 DEF Covered
  <1>9. n \in 0 .. n BY <1>2
  <1>10. MergeRanges(s) = r[n] BY <1>3 DEF MergeStates
  <1>. QED BY <1>4, <1>7, <1>8, <1>9, <1>10

\* A list after another one.
LEMMA CoveredConcat ==
  ASSUME NEW s \in Seq(GapType), NEW t \in Seq(GapType)
  PROVE  /\ s \o t \in Seq(GapType) /\ Covered(s \o t) = Covered(s) \cup Covered(t)
         /\ Proper(s) /\ Proper(t) => Proper(s \o t)
  <1> DEFINE w == s \o t
  <1>1. PICK m \in Nat, n \in Nat : m = Len(s) /\ n = Len(t) OBVIOUS
  <1>2. /\ w \in Seq(GapType) /\ DOMAIN w = 1 .. m + n /\ DOMAIN s = 1 .. m /\ DOMAIN t = 1 .. n
        /\ \A i \in 1 .. m : w[i] = s[i]
        /\ \A i \in 1 .. n : w[m + i] = t[i]
    BY <1>1
  <1>3. /\ \A i \in 1 .. m + n : i \in 1 .. m \/ (i - m \in 1 .. n /\ i = m + (i - m))
        /\ \A i \in 1 .. m : i \in 1 .. m + n
        /\ \A i \in 1 .. n : m + i \in 1 .. m + n
    BY <1>1
  <1>. HIDE DEF w
  <1>4. \A x : x \in Covered(w) <=> \E i \in 1 .. m + n : x \in RangeOf(w[i]) BY <1>2 DEF Covered
  <1>5. \A x : x \in Covered(s) <=> \E i \in 1 .. m : x \in RangeOf(s[i]) BY <1>2 DEF Covered
  <1>6. \A x : x \in Covered(t) <=> \E i \in 1 .. n : x \in RangeOf(t[i]) BY <1>2 DEF Covered
  <1>7. ASSUME NEW x PROVE x \in Covered(w) <=> x \in Covered(s) \cup Covered(t)
    <2>1. ASSUME NEW i \in 1 .. m + n, x \in RangeOf(w[i]) PROVE x \in Covered(s) \cup Covered(t)
      <3>1. CASE i \in 1 .. m BY <1>2, <1>5, <2>1, <3>1
      <3>2. CASE i - m \in 1 .. n /\ i = m + (i - m)
        <4>1. w[i] = t[i - m] BY <1>2, <3>2
        <4>. QED BY <1>6, <2>1, <3>2, <4>1
      <3>. QED BY <1>3, <3>1, <3>2
    <2>2. ASSUME NEW i \in 1 .. m, x \in RangeOf(s[i]) PROVE x \in Covered(w)
      BY <1>2, <1>3, <1>4, <2>2
    <2>3. ASSUME NEW i \in 1 .. n, x \in RangeOf(t[i]) PROVE x \in Covered(w)
      BY <1>2, <1>3, <1>4, <2>3
    <2>. QED BY <1>4, <1>5, <1>6, <2>1, <2>2, <2>3
  <1>8. Covered(w) = Covered(s) \cup Covered(t) BY <1>7
  <1>9. Proper(s) /\ Proper(t) => Proper(w)
    <2>. SUFFICES ASSUME Proper(s), Proper(t), NEW i \in 1 .. m + n PROVE w[i].start <= w[i].end
      BY <1>2 DEF Proper
    <2>1. CASE i \in 1 .. m BY <1>2, <2>1 DEF Proper
    <2>2. CASE i - m \in 1 .. n /\ i = m + (i - m)
      <3>1. w[i] = t[i - m] BY <1>2, <2>2
      <3>. QED BY <1>2, <2>2, <3>1 DEF Proper
    <2>. QED BY <1>3, <2>1, <2>2
  <1>. QED BY <1>2, <1>8, <1>9 DEF w

LEMMA CoveredOne ==
  ASSUME NEW first \in Int, NEW last \in Int
  PROVE  /\ <<[start |-> first, end |-> last]>> \in Seq(GapType)
         /\ Covered(<<[start |-> first, end |-> last]>>) = first .. last
         /\ first <= last => Proper(<<[start |-> first, end |-> last]>>)
  <1>1. PICK g : g = [start |-> first, end |-> last] OBVIOUS
  <1>2. g \in GapType /\ g.start = first /\ g.end = last BY <1>1 DEF GapType
  <1>3. <<g>> = Append(<<>>, g) /\ <<>> \in Seq(GapType) OBVIOUS
  <1>4. <<g>> \in Seq(GapType) BY <1>2
  <1>5. Covered(<<>>) = {} /\ Proper(<<>>) BY DEF Covered, Proper
  <1>6. Covered(<<g>>) = first .. last
    <2>1. Covered(Append(<<>>, g)) = Covered(<<>>) \cup (g.start .. g.end)
      BY <1>2, <1>3, CoveredAppend
    <2>. QED BY <1>2, <1>3, <1>5, <2>1
  <1>7. first <= last => Proper(<<g>>)
    <2>1. Proper(Append(<<>>, g)) <=> Proper(<<>>) /\ g.start <= g.end BY <1>2, <1>3, ProperAppend
    <2>. QED BY <1>2, <1>3, <1>5, <2>1
  <1>. QED BY <1>1, <1>4, <1>6, <1>7

LEMMA CoveredNone == <<>> \in Seq(GapType) /\ Covered(<<>>) = {} /\ Proper(<<>>)
  BY DEF Covered, Proper
-----------------------------------------------------------------------------
(* Bisection *)

Pairs == Blocks \X Blocks
Distance == [r \in Pairs |-> IF r[1] <= r[2] THEN r[2] - r[1] ELSE 0]
Middle(first, last) == (first + last) \div 2

LEMMA DistanceType == Distance \in [Pairs -> 0 .. NumBlocks] /\ NumBlocks \in Nat
  BY ScanAssumption DEF Distance, Pairs, Blocks

LEMMA Halves ==
  ASSUME NEW first \in Blocks, NEW last \in Blocks, first < last
  PROVE  /\ Middle(first, last) \in Blocks /\ Middle(first, last) + 1 \in Blocks
         /\ first <= Middle(first, last) /\ Middle(first, last) + 1 <= last
         /\ <<first, last>> \in Pairs /\ <<first, Middle(first, last)>> \in Pairs
         /\ <<Middle(first, last) + 1, last>> \in Pairs
         /\ Distance[<<first, Middle(first, last)>>] < Distance[<<first, last>>]
         /\ Distance[<<Middle(first, last) + 1, last>>] < Distance[<<first, last>>]
  <1>1. first \in Int /\ last \in Int /\ 1 <= first /\ last <= NumBlocks /\ NumBlocks \in Int
    BY ScanAssumption DEF Blocks
  <1>2. PICK m : m = Middle(first, last) OBVIOUS
  <1>3. m \in Int /\ first <= m /\ m + 1 <= last BY <1>1, <1>2 DEF Middle
  <1>4. m \in Blocks /\ m + 1 \in Blocks BY <1>1, <1>3 DEF Blocks
  <1>5. <<first, last>> \in Pairs /\ <<first, m>> \in Pairs /\ <<m + 1, last>> \in Pairs
    BY <1>4 DEF Pairs
  <1>6. \A a, b \in Blocks : <<a, b>> \in Pairs =>
           Distance[<<a, b>>] = IF a <= b THEN b - a ELSE 0
    BY DEF Distance
  <1>7. /\ Distance[<<first, last>>] = last - first /\ Distance[<<first, m>>] = m - first
        /\ Distance[<<m + 1, last>>] = last - (m + 1)
    BY <1>1, <1>3, <1>4, <1>5, <1>6
  <1>8. last - (m + 1) < last - first /\ m - first < last - first BY <1>1, <1>3
  <1>. QED BY <1>2, <1>3, <1>4, <1>5, <1>7, <1>8

\* What follows for a range from the ranges of lower rank holds for every range.
LEMMA RankInduction ==
  ASSUME NEW Q, \A r \in Pairs : (\A y \in Pairs : Distance[y] < Distance[r] => y \in Q) => r \in Q
  PROVE  Pairs \subseteq Q
  <1> DEFINE P == {k \in 0 .. NumBlocks : \A r \in Pairs : Distance[r] <= k => r \in Q}
  <1>1. NumBlocks \in Nat /\ \A r \in Pairs : Distance[r] \in 0 .. NumBlocks BY DistanceType
  <1>2. 0 \in P
    <2>1. \A r, y \in Pairs : Distance[r] <= 0 => ~ (Distance[y] < Distance[r]) BY <1>1
    <2>2. 0 \in 0 .. NumBlocks BY <1>1
    <2>. QED BY <2>1, <2>2
  <1>3. \A k \in 1 .. NumBlocks : k - 1 \in P => k \in P
    <2>. SUFFICES ASSUME NEW k \in 1 .. NumBlocks, \A r \in Pairs : Distance[r] <= k - 1 => r \in Q,
                         NEW r \in Pairs, Distance[r] <= k
                  PROVE  r \in Q
      BY <1>1
    <2>1. \A y \in Pairs : Distance[y] < Distance[r] => Distance[y] <= k - 1 BY <1>1
    <2>. QED BY <2>1
  <1>4. NumBlocks \in P
    <2>1. NumBlocks \in 0 .. NumBlocks BY <1>1
    <2>. HIDE DEF P
    <2>. QED BY <1>1, <1>2, <1>3, <2>1, Ascend
  <1>5. \A r \in Pairs : Distance[r] <= NumBlocks BY <1>1
  <1>. QED BY <1>4, <1>5

\* The documents of a range.
LEMMA CountIs ==
  ASSUME NEW ix, NEW first \in Blocks, NEW last \in Blocks
  PROVE  /\ Count(ix, first, last) = 0 => NotIndexed(ix, first, last) = first .. last
         /\ Count(ix, first, last) # 0 => first <= last
         /\ Count(ix, first, last) # 0 /\ last - first + 1 - Count(ix, first, last) > 0 => first < last
         /\ Count(ix, first, last) # 0 /\ ~ (last - first + 1 - Count(ix, first, last) > 0) =>
               NotIndexed(ix, first, last) = {}
  <1> DEFINE H == {n \in Stored(ix) : n \in first .. last}
  <1>1. first \in Int /\ last \in Int BY ScanAssumption DEF Blocks
  <1>2. /\ IsFiniteSet(first .. last)
        /\ Cardinality(first .. last) = IF first > last THEN 0 ELSE last - first + 1
    BY <1>1, FS_Interval
  <1>3. H \in SUBSET (first .. last) OBVIOUS
  <1>4. /\ IsFiniteSet(H) /\ Cardinality(H) <= Cardinality(first .. last)
        /\ Cardinality(H) = Cardinality(first .. last) => H = first .. last
    <2>. HIDE DEF H
    <2>. QED BY <1>2, <1>3, FS_Subset
  <1>5. PICK c : c = Cardinality(H) OBVIOUS
  <1>6. c \in Nat /\ (c = 0 <=> H = {})
    <2>. HIDE DEF H
    <2>. QED BY <1>4, <1>5, FS_CardinalityType, FS_EmptySet
  <1>7. Count(ix, first, last) = c BY <1>5 DEF Count
  <1>8. c # 0 => first <= last BY <1>1, <1>6
  <1>9. c # 0 /\ ~ (last - first + 1 - c > 0) => H = first .. last
    <2>. HIDE DEF H
    <2>1. c # 0 => Cardinality(first .. last) = last - first + 1 /\ c <= last - first + 1
      BY <1>1, <1>2, <1>4, <1>5, <1>8
    <2>2. PICK k : k = last - first + 1 OBVIOUS
    <2>3. c # 0 /\ ~ (k - c > 0) => c = k
      <3>1. k \in Int BY <1>1, <2>2
      <3>. QED BY <1>6, <2>1, <2>2, <3>1
    <2>4. c # 0 /\ ~ (k - c > 0) => Cardinality(H) = Cardinality(first .. last)
      BY <1>5, <2>1, <2>2, <2>3
    <2>5. last - first + 1 - c = k - c BY <1>1, <1>6, <2>2
    <2>. QED BY <1>4, <2>4, <2>5, Zenon
  <1>10. H = {} => NotIndexed(ix, first, last) = first .. last BY DEF NotIndexed
  <1>11. H = first .. last => NotIndexed(ix, first, last) = {} BY DEF NotIndexed
  <1>12. c # 0 /\ last - first + 1 - c > 0 => first < last BY <1>1, <1>6
  <1>. HIDE DEF H
  <1>. QED BY <1>6, <1>7, <1>8, <1>9, <1>10, <1>11, <1>12

\* One step of the search for missing blocks.
BlockSearch(ix, g, r) ==
    IF Count(ix, r[1], r[2]) = 0 THEN <<[start |-> r[1], end |-> r[2]]>>
    ELSE IF r[2] - r[1] + 1 - Count(ix, r[1], r[2]) > 0
    THEN g[<<r[1], Middle(r[1], r[2])>>] \o g[<<Middle(r[1], r[2]) + 1, r[2]>>]
    ELSE <<>>

LEMMA SearchBlocks ==
  ASSUME NEW ix
  PROVE  /\ SearchMissingBlocks(ix) \in [Pairs -> Seq(GapType)]
         /\ \A r \in Pairs :
               SearchMissingBlocks(ix)[r] = BlockSearch(ix, SearchMissingBlocks(ix), r)
  <1> DEFINE V == Seq(GapType)
             F == [p \in Pairs \X [Pairs -> V] |-> BlockSearch(ix, p[2], p[1])]
  <1>1. \A r \in Pairs : r[1] \in Blocks /\ r[2] \in Blocks /\ r = <<r[1], r[2]>>
                         /\ r[1] \in Int /\ r[2] \in Int
    BY ScanAssumption DEF Pairs, Blocks
  <1>2. ASSUME NEW r \in Pairs, Count(ix, r[1], r[2]) # 0, r[2] - r[1] + 1 - Count(ix, r[1], r[2]) > 0
        PROVE  /\ <<r[1], Middle(r[1], r[2])>> \in Pairs /\ <<Middle(r[1], r[2]) + 1, r[2]>> \in Pairs
               /\ Distance[<<r[1], Middle(r[1], r[2])>>] < Distance[r]
               /\ Distance[<<Middle(r[1], r[2]) + 1, r[2]>>] < Distance[r]
    <2>1. PICK a \in Blocks, b \in Blocks : a = r[1] /\ b = r[2] /\ r = <<a, b>> BY <1>1
    <2>2. a < b BY <1>2, <2>1, CountIs
    <2>. QED BY <2>1, <2>2, Halves
  <1>3. \A g \in [Pairs -> V], r \in Pairs : BlockSearch(ix, g, r) \in V
    <2>. TAKE g \in [Pairs -> V], r \in Pairs
    <2>1. CASE Count(ix, r[1], r[2]) = 0
      <3>1. <<[start |-> r[1], end |-> r[2]]>> \in V BY <1>1, CoveredOne
      <3>. QED BY <2>1, <3>1 DEF BlockSearch
    <2>2. CASE Count(ix, r[1], r[2]) # 0 /\ r[2] - r[1] + 1 - Count(ix, r[1], r[2]) > 0
      <3>1. PICK s \in V, t \in V : s = g[<<r[1], Middle(r[1], r[2])>>]
                                    /\ t = g[<<Middle(r[1], r[2]) + 1, r[2]>>]
        BY <1>2, <2>2
      <3>2. s \o t \in V BY CoveredConcat
      <3>. QED BY <2>2, <3>1, <3>2 DEF BlockSearch
    <2>3. CASE Count(ix, r[1], r[2]) # 0 /\ ~ (r[2] - r[1] + 1 - Count(ix, r[1], r[2]) > 0)
      BY <2>3, CoveredNone DEF BlockSearch
    <2>. QED BY <2>1, <2>2, <2>3
  <1>4. F \in [Pairs \X [Pairs -> V] -> V] BY <1>3
  <1>5. \A r \in Pairs, g \in [Pairs -> V] : F[<<r, g>>] = BlockSearch(ix, g, r) OBVIOUS
  <1>. HIDE DEF F
  <1>6. Descends(F, Pairs, V, Distance)
    <2>. HIDE DEF V
    <2>. SUFFICES ASSUME NEW r \in Pairs, NEW g \in [Pairs -> V], NEW h \in [Pairs -> V],
                         \A y \in Pairs : Distance[y] < Distance[r] => g[y] = h[y]
                  PROVE  F[<<r, g>>] = F[<<r, h>>]
      BY DEF Descends
    <2>. SUFFICES BlockSearch(ix, g, r) = BlockSearch(ix, h, r) BY <1>5
    <2>1. CASE Count(ix, r[1], r[2]) # 0 /\ r[2] - r[1] + 1 - Count(ix, r[1], r[2]) > 0
      <3>1. /\ g[<<r[1], Middle(r[1], r[2])>>] = h[<<r[1], Middle(r[1], r[2])>>]
            /\ g[<<Middle(r[1], r[2]) + 1, r[2]>>] = h[<<Middle(r[1], r[2]) + 1, r[2]>>]
        BY <1>2, <2>1
      <3>. QED BY <2>1, <3>1, Zenon DEF BlockSearch
    <2>2. CASE ~ (Count(ix, r[1], r[2]) # 0 /\ r[2] - r[1] + 1 - Count(ix, r[1], r[2]) > 0)
      BY <2>2, Zenon DEF BlockSearch
    <2>. QED BY <2>1, <2>2
  <1>7. \E g \in [Pairs -> V] : Solves(g, F, Pairs)
    BY <1>4, <1>6, DistanceType, CoveredNone, BoundedRecursion
  <1>8. PICK g \in [Pairs -> V] : \A r \in Pairs : g[r] = BlockSearch(ix, g, r)
    BY <1>5, <1>7 DEF Solves
  <1> DEFINE search == CHOOSE h : h = [r \in Blocks \X Blocks |->
                IF Count(ix, r[1], r[2]) = 0 THEN <<[start |-> r[1], end |-> r[2]]>>
                ELSE IF r[2] - r[1] + 1 - Count(ix, r[1], r[2]) > 0
                THEN h[<<r[1], (r[1] + r[2]) \div 2>>] \o h[<<(r[1] + r[2]) \div 2 + 1, r[2]>>]
                ELSE <<>>]
  <1>9. SearchMissingBlocks(ix) = search BY Zenon DEF SearchMissingBlocks
  <1>10. \A h : [r \in Blocks \X Blocks |->
                IF Count(ix, r[1], r[2]) = 0 THEN <<[start |-> r[1], end |-> r[2]]>>
                ELSE IF r[2] - r[1] + 1 - Count(ix, r[1], r[2]) > 0
                THEN h[<<r[1], (r[1] + r[2]) \div 2>>] \o h[<<(r[1] + r[2]) \div 2 + 1, r[2]>>]
                ELSE <<>>] = [r \in Pairs |-> BlockSearch(ix, h, r)]
    BY Zenon DEF BlockSearch, Pairs, Middle
  <1>11. g = [r \in Pairs |-> BlockSearch(ix, g, r)] BY <1>8
  <1>12. search = [r \in Pairs |-> BlockSearch(ix, search, r)]
    <2>1. \E h : h = [r \in Blocks \X Blocks |->
                IF Count(ix, r[1], r[2]) = 0 THEN <<[start |-> r[1], end |-> r[2]]>>
                ELSE IF r[2] - r[1] + 1 - Count(ix, r[1], r[2]) > 0
                THEN h[<<r[1], (r[1] + r[2]) \div 2>>] \o h[<<(r[1] + r[2]) \div 2 + 1, r[2]>>]
                ELSE <<>>]
      <3>1. g = [r \in Blocks \X Blocks |->
                IF Count(ix, r[1], r[2]) = 0 THEN <<[start |-> r[1], end |-> r[2]]>>
                ELSE IF r[2] - r[1] + 1 - Count(ix, r[1], r[2]) > 0
                THEN g[<<r[1], (r[1] + r[2]) \div 2>>] \o g[<<(r[1] + r[2]) \div 2 + 1, r[2]>>]
                ELSE <<>>]
        BY <1>10, <1>11, Zenon
      <3>. QED BY <3>1, Zenon
    <2>. QED BY <1>10, <2>1, Zenon
  <1>. HIDE DEF search
  <1>13. \A r \in Pairs : search[r] = BlockSearch(ix, search, r) BY <1>12
  <1> DEFINE Q == {r \in Pairs : search[r] \in V}
  <1>14. ASSUME NEW r \in Pairs, \A y \in Pairs : Distance[y] < Distance[r] => y \in Q
         PROVE  r \in Q
    <2>1. CASE Count(ix, r[1], r[2]) # 0 /\ r[2] - r[1] + 1 - Count(ix, r[1], r[2]) > 0
      <3>1. PICK s \in V, t \in V : s = search[<<r[1], Middle(r[1], r[2])>>]
                                    /\ t = search[<<Middle(r[1], r[2]) + 1, r[2]>>]
        BY <1>2, <1>14, <2>1
      <3>2. s \o t \in V BY CoveredConcat
      <3>3. BlockSearch(ix, search, r) = s \o t BY <2>1, <3>1 DEF BlockSearch
      <3>. QED BY <1>13, <3>2, <3>3
    <2>2. CASE ~ (Count(ix, r[1], r[2]) # 0 /\ r[2] - r[1] + 1 - Count(ix, r[1], r[2]) > 0)
      <3>1. BlockSearch(ix, search, r) = BlockSearch(ix, g, r) BY <2>2, Zenon DEF BlockSearch
      <3>. QED BY <1>3, <1>13, <3>1
    <2>. QED BY <2>1, <2>2
  <1>15. Pairs \subseteq Q
    <2>. HIDE DEF Q
    <2>. QED BY <1>14, RankInduction
  <1>16. search \in [Pairs -> V]
    <2>1. \A r \in Pairs : BlockSearch(ix, search, r) \in V BY <1>13, <1>15
    <2>. HIDE DEF V
    <2>. QED BY <1>12, <2>1
  <1>. QED BY <1>9, <1>13, <1>16

\* The search reports the numbers of a range without a document.
LEMMA SearchFinds ==
  ASSUME NEW ix, NEW first \in Blocks, NEW last \in Blocks, first <= last
  PROVE  /\ SearchMissingBlocks(ix)[<<first, last>>] \in Seq(GapType)
         /\ Proper(SearchMissingBlocks(ix)[<<first, last>>])
         /\ Covered(SearchMissingBlocks(ix)[<<first, last>>]) = NotIndexed(ix, first, last)
  <1>1. PICK search : search = SearchMissingBlocks(ix) OBVIOUS
  <1>2. /\ search \in [Pairs -> Seq(GapType)]
        /\ \A r \in Pairs : search[r] = BlockSearch(ix, search, r)
    BY <1>1, SearchBlocks
  <1> DEFINE Finds(a, b) == /\ search[<<a, b>>] \in Seq(GapType) /\ Proper(search[<<a, b>>])
                            /\ Covered(search[<<a, b>>]) = NotIndexed(ix, a, b)
             Q == {r \in Pairs : r[1] <= r[2] => Finds(r[1], r[2])}
  <1>3. ASSUME NEW r \in Pairs, \A y \in Pairs : Distance[y] < Distance[r] => y \in Q
        PROVE  r \in Q
    <2>1. PICK a \in Blocks, b \in Blocks : a = r[1] /\ b = r[2] /\ r = <<a, b>> BY DEF Pairs
    <2>2. a \in Int /\ b \in Int BY ScanAssumption DEF Blocks
    <2>. SUFFICES ASSUME a <= b PROVE Finds(a, b) BY <2>1
    <2>3. PICK c : c = Count(ix, a, b) OBVIOUS
    <2>4. /\ c = 0 => NotIndexed(ix, a, b) = a .. b
          /\ c # 0 /\ b - a + 1 - c > 0 => a < b
          /\ c # 0 /\ ~ (b - a + 1 - c > 0) => NotIndexed(ix, a, b) = {}
      BY <2>3, CountIs
    <2>5. search[<<a, b>>] = IF c = 0 THEN <<[start |-> a, end |-> b]>>
             ELSE IF b - a + 1 - c > 0
             THEN search[<<a, Middle(a, b)>>] \o search[<<Middle(a, b) + 1, b>>] ELSE <<>>
      BY <1>2, <2>1, <2>3 DEF BlockSearch
    <2>6. CASE c = 0 BY <2>2, <2>4, <2>5, <2>6, CoveredOne
    <2>7. CASE c # 0 /\ ~ (b - a + 1 - c > 0) BY <2>4, <2>5, <2>7, CoveredNone
    <2>8. CASE c # 0 /\ b - a + 1 - c > 0
      <3>1. a < b BY <2>4, <2>8
      <3>2. PICK m : m = Middle(a, b) OBVIOUS
      <3>3. /\ m \in Blocks /\ m + 1 \in Blocks /\ a <= m /\ m + 1 <= b
            /\ <<a, m>> \in Pairs /\ <<m + 1, b>> \in Pairs
            /\ Distance[<<a, m>>] < Distance[r] /\ Distance[<<m + 1, b>>] < Distance[r]
        BY <2>1, <3>1, <3>2, Halves
      <3>4. Finds(a, m) /\ Finds(m + 1, b)
        <4>1. <<a, m>> \in Q /\ <<m + 1, b>> \in Q BY <1>3, <3>3
        <4>. HIDE DEF Finds
        <4>. QED BY <3>3, <4>1
      <3>5. PICK s, t : s = search[<<a, m>>] /\ t = search[<<m + 1, b>>] OBVIOUS
      <3>6. search[<<a, b>>] = s \o t BY <2>5, <2>8, <3>2, <3>5
      <3>7. /\ s \o t \in Seq(GapType) /\ Proper(s \o t)
            /\ Covered(s \o t) = NotIndexed(ix, a, m) \cup NotIndexed(ix, m + 1, b)
        BY <3>4, <3>5, CoveredConcat
      <3>8. NotIndexed(ix, a, m) \cup NotIndexed(ix, m + 1, b) = NotIndexed(ix, a, b)
        <4>1. m \in Int BY <3>3, ScanAssumption DEF Blocks
        <4>. QED BY <2>2, <3>3, <4>1 DEF NotIndexed
      <3>. QED BY <3>6, <3>7, <3>8
    <2>. QED BY <2>6, <2>7, <2>8
  <1>4. Pairs \subseteq Q
    <2>. HIDE DEF Q
    <2>. QED BY <1>3, RankInduction
  <1>5. <<first, last>> \in Pairs BY DEF Pairs
  <1>. QED BY <1>1, <1>4, <1>5

\* quick-scan reports the numbers without a document.
LEMMA QuickScanFinds ==
  ASSUME NEW ix, NEW first \in Blocks, NEW last \in Blocks, first <= last
  PROVE  /\ QuickScanChain(ix, first, last) \in Seq(GapType)
         /\ Covered(QuickScanChain(ix, first, last)) = NotIndexed(ix, first, last)
  BY SearchFinds, MergeKeeps DEF QuickScanChain

\* One step of the search for missing actions.
ActionSearch(lacking, failing, size, g, r) ==
    IF ~ MissesActions(lacking, failing, r[1], r[2]) THEN <<>>
    ELSE IF NotSplit(r[1], r[2], size) THEN <<[start |-> r[1], end |-> r[2]]>>
    ELSE g[<<r[1], Middle(r[1], r[2])>>] \o g[<<Middle(r[1], r[2]) + 1, r[2]>>]

Halved(lacking, failing, size, r) ==
    MissesActions(lacking, failing, r[1], r[2]) /\ ~ NotSplit(r[1], r[2], size)

LEMMA SearchActions ==
  ASSUME NEW lacking, NEW failing, NEW size
  PROVE  /\ SearchMissingActions(lacking, failing, size) \in [Pairs -> Seq(GapType)]
         /\ \A r \in Pairs :
               SearchMissingActions(lacking, failing, size)[r]
               = ActionSearch(lacking, failing, size, SearchMissingActions(lacking, failing, size), r)
  <1> DEFINE V == Seq(GapType)
             Step(g, r) == ActionSearch(lacking, failing, size, g, r)
             Half(r) == Halved(lacking, failing, size, r)
             F == [p \in Pairs \X [Pairs -> V] |-> Step(p[2], p[1])]
  <1>1. \A r \in Pairs : r[1] \in Blocks /\ r[2] \in Blocks /\ r = <<r[1], r[2]>>
                         /\ r[1] \in Int /\ r[2] \in Int
    BY ScanAssumption DEF Pairs, Blocks
  <1>2. ASSUME NEW r \in Pairs, Half(r)
        PROVE  /\ <<r[1], Middle(r[1], r[2])>> \in Pairs /\ <<Middle(r[1], r[2]) + 1, r[2]>> \in Pairs
               /\ Distance[<<r[1], Middle(r[1], r[2])>>] < Distance[r]
               /\ Distance[<<Middle(r[1], r[2]) + 1, r[2]>>] < Distance[r]
    <2>1. PICK a \in Blocks, b \in Blocks : a = r[1] /\ b = r[2] /\ r = <<a, b>>
                                            /\ a \in Int /\ b \in Int
      BY <1>1
    <2>2. lacking \cap (a .. b) # {} /\ a # b BY <1>2, <2>1 DEF Halved, MissesActions, NotSplit
    <2>3. a < b BY <2>1, <2>2
    <2>. QED BY <2>1, <2>3, Halves
  <1>3. ASSUME NEW g, NEW r \in Pairs,
               Half(r) => /\ g[<<r[1], Middle(r[1], r[2])>>] \in V
                          /\ g[<<Middle(r[1], r[2]) + 1, r[2]>>] \in V
        PROVE  Step(g, r) \in V
    <2>1. CASE ~ MissesActions(lacking, failing, r[1], r[2]) BY <2>1, CoveredNone DEF ActionSearch
    <2>2. CASE MissesActions(lacking, failing, r[1], r[2]) /\ NotSplit(r[1], r[2], size)
      <3>1. <<[start |-> r[1], end |-> r[2]]>> \in V BY <1>1, CoveredOne
      <3>. QED BY <2>2, <3>1 DEF ActionSearch
    <2>3. CASE Half(r)
      <3>1. PICK s \in V, t \in V : s = g[<<r[1], Middle(r[1], r[2])>>]
                                    /\ t = g[<<Middle(r[1], r[2]) + 1, r[2]>>]
        BY <1>3, <2>3
      <3>2. s \o t \in V BY CoveredConcat
      <3>. QED BY <2>3, <3>1, <3>2 DEF ActionSearch, Halved
    <2>. QED BY <2>1, <2>2, <2>3 DEF Halved
  <1>4. \A g \in [Pairs -> V], r \in Pairs : Step(g, r) \in V
    <2>. HIDE DEF Step, Half, V
    <2>. QED BY <1>2, <1>3
  <1>5. F \in [Pairs \X [Pairs -> V] -> V] BY <1>4
  <1>6. \A r \in Pairs, g \in [Pairs -> V] : F[<<r, g>>] = Step(g, r) OBVIOUS
  <1>. HIDE DEF F, V
  <1>7. Descends(F, Pairs, V, Distance)
    <2>. SUFFICES ASSUME NEW r \in Pairs, NEW g \in [Pairs -> V], NEW h \in [Pairs -> V],
                         \A y \in Pairs : Distance[y] < Distance[r] => g[y] = h[y]
                  PROVE  F[<<r, g>>] = F[<<r, h>>]
      BY DEF Descends
    <2>. SUFFICES Step(g, r) = Step(h, r) BY <1>6
    <2>1. CASE Half(r)
      <3>1. /\ g[<<r[1], Middle(r[1], r[2])>>] = h[<<r[1], Middle(r[1], r[2])>>]
            /\ g[<<Middle(r[1], r[2]) + 1, r[2]>>] = h[<<Middle(r[1], r[2]) + 1, r[2]>>]
        BY <1>2, <2>1
      <3>. QED BY <3>1, Zenon DEF ActionSearch
    <2>2. CASE ~ Half(r) BY <2>2, Zenon DEF ActionSearch, Halved
    <2>. QED BY <2>1, <2>2
  <1>8. \E g \in [Pairs -> V] : Solves(g, F, Pairs)
    <2>1. <<>> \in V BY CoveredNone DEF V
    <2>. QED BY <1>5, <1>7, <2>1, DistanceType, BoundedRecursion
  <1>9. PICK g \in [Pairs -> V] : \A r \in Pairs : g[r] = Step(g, r)
    <2>. HIDE DEF Step
    <2>. QED BY <1>6, <1>8 DEF Solves
  <1> DEFINE Table(h) == [r \in Blocks \X Blocks |->
                IF ~ MissesActions(lacking, failing, r[1], r[2]) THEN <<>>
                ELSE IF NotSplit(r[1], r[2], size) THEN <<[start |-> r[1], end |-> r[2]]>>
                ELSE h[<<r[1], (r[1] + r[2]) \div 2>>] \o h[<<(r[1] + r[2]) \div 2 + 1, r[2]>>]]
             search == CHOOSE h : h = Table(h)
  <1>10. SearchMissingActions(lacking, failing, size) = search BY Zenon DEF SearchMissingActions
  <1>11. \A h : Table(h) = [r \in Pairs |-> Step(h, r)] BY Zenon DEF ActionSearch, Pairs, Middle
  <1>12. search = [r \in Pairs |-> Step(search, r)]
    <2>1. g = [r \in Pairs |-> Step(g, r)]
      <3>. HIDE DEF Step
      <3>. QED BY <1>9
    <2>. HIDE DEF Table, Step
    <2>2. \E h : h = Table(h) BY <1>11, <2>1
    <2>3. search = Table(search) BY <2>2, Zenon
    <2>. QED BY <1>11, <2>3, Zenon
  <1>. HIDE DEF search
  <1>13. \A r \in Pairs : search[r] = Step(search, r)
    <2>. HIDE DEF Step
    <2>. QED BY <1>12
  <1> DEFINE Q == {r \in Pairs : search[r] \in V}
  <1>14. ASSUME NEW r \in Pairs, \A y \in Pairs : Distance[y] < Distance[r] => y \in Q
         PROVE  r \in Q
    <2>1. Half(r) => /\ search[<<r[1], Middle(r[1], r[2])>>] \in V
                     /\ search[<<Middle(r[1], r[2]) + 1, r[2]>>] \in V
      BY <1>2, <1>14
    <2>. HIDE DEF Step, Half
    <2>2. Step(search, r) \in V BY <1>3, <2>1
    <2>. QED BY <1>13, <2>2
  <1>15. Pairs \subseteq Q
    <2>. HIDE DEF Q
    <2>. QED BY <1>14, RankInduction
  <1>16. search \in [Pairs -> V]
    <2>. HIDE DEF Step
    <2>1. \A r \in Pairs : Step(search, r) \in V BY <1>13, <1>15
    <2>. QED BY <1>12, <2>1
  <1>. QED BY <1>10, <1>13, <1>16 DEF V

\* Without failing requests the search reports every block that lacks actions, and with
\* a minimum of one block no other.
LEMMA ActionsFound ==
  ASSUME NEW lacking, NEW size \in Nat, NEW first \in Blocks, NEW last \in Blocks
  PROVE  /\ ScanActions(lacking, {}, size, first, last) \in Seq(GapType)
         /\ lacking \cap (first .. last) \subseteq Covered(ScanActions(lacking, {}, size, first, last))
         /\ size = 1 => Covered(ScanActions(lacking, {}, size, first, last)) \subseteq lacking
  <1>1. PICK search : search = SearchMissingActions(lacking, {}, size) OBVIOUS
  <1>2. /\ search \in [Pairs -> Seq(GapType)]
        /\ \A r \in Pairs : search[r] = ActionSearch(lacking, {}, size, search, r)
    BY <1>1, SearchActions
  <1> DEFINE Finds(a, b) ==
                /\ search[<<a, b>>] \in Seq(GapType) /\ Proper(search[<<a, b>>])
                /\ lacking \cap (a .. b) \subseteq Covered(search[<<a, b>>])
                /\ size = 1 => Covered(search[<<a, b>>]) \subseteq lacking
             Q == {r \in Pairs : Finds(r[1], r[2])}
  <1>3. ASSUME NEW r \in Pairs, \A y \in Pairs : Distance[y] < Distance[r] => y \in Q
        PROVE  r \in Q
    <2>1. PICK a \in Blocks, b \in Blocks : a = r[1] /\ b = r[2] /\ r = <<a, b>> BY DEF Pairs
    <2>2. a \in Int /\ b \in Int BY ScanAssumption DEF Blocks
    <2>. SUFFICES Finds(a, b) BY <2>1
    <2>3. search[<<a, b>>] = IF lacking \cap (a .. b) = {} THEN <<>>
             ELSE IF NotSplit(a, b, size) THEN <<[start |-> a, end |-> b]>>
             ELSE search[<<a, Middle(a, b)>>] \o search[<<Middle(a, b) + 1, b>>]
      BY <1>2, <2>1 DEF ActionSearch, MissesActions
    <2>4. CASE lacking \cap (a .. b) = {}
      <3>1. search[<<a, b>>] = <<>> BY <2>3, <2>4
      <3>. QED BY <2>4, <3>1, CoveredNone
    <2>5. CASE lacking \cap (a .. b) # {} /\ NotSplit(a, b, size)
      <3>1. search[<<a, b>>] = <<[start |-> a, end |-> b]>> BY <2>3, <2>5
      <3>2. a <= b BY <2>2, <2>5
      <3>3. /\ search[<<a, b>>] \in Seq(GapType) /\ Covered(search[<<a, b>>]) = a .. b
            /\ Proper(search[<<a, b>>])
        BY <2>2, <3>1, <3>2, CoveredOne
      <3>4. size = 1 => a .. b \subseteq lacking BY <2>2, <2>5 DEF NotSplit
      <3>. QED BY <3>3, <3>4
    <2>6. CASE lacking \cap (a .. b) # {} /\ ~ NotSplit(a, b, size)
      <3>1. a < b BY <2>2, <2>6 DEF NotSplit
      <3>2. PICK m : m = Middle(a, b) OBVIOUS
      <3>3. /\ m \in Blocks /\ m + 1 \in Blocks /\ a <= m /\ m + 1 <= b
            /\ <<a, m>> \in Pairs /\ <<m + 1, b>> \in Pairs
            /\ Distance[<<a, m>>] < Distance[r] /\ Distance[<<m + 1, b>>] < Distance[r]
        BY <2>1, <3>1, <3>2, Halves
      <3>4. Finds(a, m) /\ Finds(m + 1, b)
        <4>1. <<a, m>> \in Q /\ <<m + 1, b>> \in Q BY <1>3, <3>3
        <4>. HIDE DEF Finds
        <4>. QED BY <4>1
      <3>5. PICK s, t : s = search[<<a, m>>] /\ t = search[<<m + 1, b>>] OBVIOUS
      <3>6. search[<<a, b>>] = s \o t BY <2>3, <2>6, <3>2, <3>5
      <3>7. /\ s \o t \in Seq(GapType) /\ Proper(s \o t) /\ Covered(s \o t) = Covered(s) \cup Covered(t)
        BY <3>4, <3>5, CoveredConcat
      <3>8. a .. b = (a .. m) \cup ((m + 1) .. b)
        <4>1. m \in Int BY <3>3, ScanAssumption DEF Blocks
        <4>. QED BY <2>2, <3>3, <4>1
      <3>9. /\ lacking \cap (a .. m) \subseteq Covered(s) /\ lacking \cap ((m + 1) .. b) \subseteq Covered(t)
            /\ size = 1 => Covered(s) \subseteq lacking /\ Covered(t) \subseteq lacking
        BY <3>4, <3>5
      <3>. QED BY <3>6, <3>7, <3>8, <3>9
    <2>. QED BY <2>4, <2>5, <2>6
  <1>4. Pairs \subseteq Q
    <2>. HIDE DEF Q
    <2>. QED BY <1>3, RankInduction
  <1>5. <<first, last>> \in Pairs BY DEF Pairs
  <1>6. Finds(first, last) BY <1>4, <1>5
  <1>7. ScanActions(lacking, {}, size, first, last) = MergeRanges(search[<<first, last>>])
    BY <1>1 DEF ScanActions
  <1>8. PICK u : u = search[<<first, last>>] OBVIOUS
  <1>9. /\ u \in Seq(GapType) /\ Proper(u) /\ lacking \cap (first .. last) \subseteq Covered(u)
        /\ size = 1 => Covered(u) \subseteq lacking
    BY <1>6, <1>8
  <1>10. MergeRanges(u) \in Seq(GapType) /\ Covered(MergeRanges(u)) = Covered(u)
    BY <1>9, MergeKeeps
  <1>. QED BY <1>7, <1>8, <1>9, <1>10
-----------------------------------------------------------------------------
(* A whole fork is reported *)

Reported(errors, ids) == \E j \in DOMAIN errors : errors[j].ids = ids

LEMMA ReportedAppend ==
  ASSUME NEW errors \in Seq(ForkType), NEW e \in ForkType, NEW ids
  PROVE  /\ Reported(errors, ids) => Reported(Append(errors, e), ids)
         /\ e.ids = ids => Reported(Append(errors, e), ids)
  <1> DEFINE more == Append(errors, e)
  <1>1. /\ DOMAIN more = 1 .. Len(errors) + 1 /\ DOMAIN errors = 1 .. Len(errors)
        /\ more[Len(errors) + 1] = e /\ \A i \in 1 .. Len(errors) : more[i] = errors[i]
        /\ Len(errors) + 1 \in 1 .. Len(errors) + 1
        /\ \A i \in 1 .. Len(errors) : i \in 1 .. Len(errors) + 1
    OBVIOUS
  <1>. HIDE DEF more
  <1>2. Reported(errors, ids) => Reported(more, ids) BY <1>1 DEF Reported
  <1>3. e.ids = ids => Reported(more, ids) BY <1>1 DEF Reported
  <1>. QED BY <1>2, <1>3 DEF more

\* What was reported stays reported,
LEMMA PairReports ==
  ASSUME NEW ix, NEW s \in PairType, NEW cur \in Int, NEW prev \in Int, NEW ids,
         Reported(s.errors, ids)
  PROVE  Reported(Pair(ix, s, cur, prev).errors, ids)
  <1> DEFINE p == Pair(ix, s, cur, prev)
             fork == [start |-> s.start, end |-> cur + 1, ids |-> s.removals]
  <1>1. PairEffect(ix, s, cur, prev, p) BY PairStep
  <1>. HIDE DEF p
  <1>2. p.errors = s.errors \/ p.errors = Append(s.errors, fork) BY <1>1, Zenon DEF PairEffect
  <1>3. s.errors \in Seq(ForkType) /\ fork \in ForkType BY DEF PairType, ForkType
  <1>. HIDE DEF fork
  <1>4. Reported(p.errors, ids) BY <1>2, <1>3, ReportedAppend
  <1>. QED BY <1>4 DEF p

\* by a page
LEMMA PageReports ==
  ASSUME NEW ix, NEW s \in RunType, NEW page \in Seq(Blocks), NEW ids, Reported(s.errors, ids)
  PROVE  Reported(FindForksOnRange(ix, s, page).errors, ids)
  <1> DEFINE blocks == WithPending(s, page)
  <1>1. Blocks \subseteq Int BY ScanAssumption DEF Blocks
  <1>2. page \in Seq(Int) BY <1>1, SeqMonotonic
  <1>3. blocks \in Seq(Int)
    <2>1. s.pending \in Int BY DEF RunType
    <2>2. <<s.pending>> \o page \in Seq(Int) BY <1>2, <2>1
    <2>. QED BY <1>2, <2>2 DEF WithPending
  <1>. HIDE DEF blocks
  <1>4. CASE blocks = <<>>
    <2>1. FindForksOnRange(ix, s, page) = s BY <1>4, PageResult DEF blocks
    <2>. QED BY <2>1
  <1>5. CASE blocks # <<>>
    <2>1. PICK n : n = Len(blocks) - 1 OBVIOUS
    <2>2. n \in Nat /\ \A k \in 1 .. n : blocks[k] \in Int /\ blocks[k + 1] \in Int BY <1>3, <1>5, <2>1
    <2>3. PICK r : PairStates(r, ix, s, blocks, n) BY <1>3, <1>5, <2>1, PairSteps
    <2> DEFINE P == {k \in 0 .. n : Reported(r[k].errors, ids)}
    <2>4. 0 \in P BY <2>2, <2>3 DEF PairStates
    <2>5. ASSUME NEW k \in 1 .. n, k - 1 \in P PROVE k \in P
      <3>1. k - 1 \in 0 .. n /\ k \in 0 .. n /\ r[k - 1] \in PairType
        BY <2>2, <2>3 DEF PairStates
      <3>2. r[k] = Pair(ix, r[k - 1], blocks[k], blocks[k + 1]) BY <2>3 DEF PairStates
      <3>3. Reported(r[k].errors, ids) BY <2>2, <2>5, <3>1, <3>2, PairReports
      <3>. QED BY <3>1, <3>3
    <2>6. n \in P
      <3>1. n \in 0 .. n BY <2>2
      <3>. HIDE DEF P
      <3>. QED BY <2>2, <2>4, <2>5, <3>1, Ascend
    <2>7. PairFold(ix, s, blocks) = r[n] BY <2>3 DEF PairStates
    <2>8. FindForksOnRange(ix, s, page).errors = PairFold(ix, s, blocks).errors
      BY <1>5, PageResult DEF blocks
    <2>. QED BY <2>6, <2>7, <2>8
  <1>. QED BY <1>4, <1>5

\* and by the pages of a scan after the one that reported it.
LEMMA RunReports ==
  ASSUME NEW ix, NEW first \in Int, NEW last \in Int, first <= last, NEW n \in Nat, NEW r,
         ScanStates(r, ix, first, last, n), NEW k \in 0 .. n, NEW ids, Reported(r[k].errors, ids)
  PROVE  Reported(Run(ix, first, last).errors, ids)
  <1> DEFINE P == {j \in 0 .. n : k <= j => Reported(r[j].errors, ids)}
  <1>1. 0 \in P BY DEF P
  <1>2. ASSUME NEW j \in 1 .. n, j - 1 \in P PROVE j \in P
    <2>1. j \in 0 .. n /\ j - 1 \in 0 .. n OBVIOUS
    <2>. SUFFICES ASSUME k < j PROVE Reported(r[j].errors, ids)
      <3>1. k <= j => k = j \/ k < j OBVIOUS
      <3>. QED BY <2>1, <3>1
    <2>2. Reported(r[j - 1].errors, ids) BY <1>2
    <2> DEFINE page == GetBlocks(ix, PageFrom(last, j), PageTo(first, last, j), ScanBatch)
    <2>3. r[j] = FindForksOnRange(ix, r[j - 1], page) /\ r[j - 1] \in RunType
      BY <2>1 DEF ScanStates, PageStep
    <2>4. page \in Seq(Blocks)
      <3>1. ScanBatch \in Nat BY ScanAssumption
      <3>2. (j - 1) * ScanBatch \in Int BY <3>1
      <3>3. PageFrom(last, j) \in Int BY <3>2 DEF PageFrom
      <3>4. PageTo(first, last, j) \in Int BY <3>1, <3>3 DEF PageTo
      <3>5. IsPage(page, ix, PageFrom(last, j), PageTo(first, last, j), ScanBatch)
        BY <3>1, <3>3, <3>4, PageOfIndex
      <3>. QED BY <3>5 DEF IsPage
    <2>. HIDE DEF page
    <2>. QED BY <2>2, <2>3, <2>4, PageReports
  <1>3. n \in P
    <2>1. n \in 0 .. n OBVIOUS
    <2>. HIDE DEF P
    <2>. QED BY <1>1, <1>2, <2>1, Ascend
  <1>4. Run(ix, first, last) = r[n] BY DEF ScanStates
  <1>. QED BY <1>3, <1>4

\* Without a gap the numbers of a run fall by one.
LEMMA RunOfAll ==
  ASSUME NEW ix, Stored(ix) = Blocks, NEW blocks, IsRun(blocks, ix)
  PROVE  \A i \in 1 .. Len(blocks) : blocks[i] = blocks[1] - (i - 1)
  <1>1. PICK n : n = Len(blocks) - 1 OBVIOUS
  <1>2. blocks \in Seq(Blocks) /\ blocks # <<>> BY DEF IsRun
  <1>3. n \in Nat /\ Len(blocks) = n + 1 /\ \A i \in 1 .. n + 1 : blocks[i] \in Blocks
    BY <1>1, <1>2
  <1>4. NumBlocks \in Int /\ Blocks = 1 .. NumBlocks BY ScanAssumption DEF Blocks
  <1>5. \A i \in 1 .. n : /\ blocks[i] > blocks[i + 1]
                          /\ \A m \in Blocks : ~ (blocks[i + 1] < m /\ m < blocks[i])
    BY <1>1 DEF IsRun
  <1> DEFINE P == {k \in 0 .. n : blocks[k + 1] = blocks[1] - k}
  <1>6. 0 \in P BY <1>3, <1>4
  <1>7. ASSUME NEW k \in 1 .. n, k - 1 \in P PROVE k \in P
    <2>1. k \in 1 .. n + 1 /\ k + 1 \in 1 .. n + 1 /\ 1 \in 1 .. n + 1 /\ (k - 1) + 1 = k
          /\ k \in 0 .. n
      BY <1>3
    <2>2. blocks[k] = blocks[1] - (k - 1) BY <1>7, <2>1
    <2>3. PICK x \in Blocks, y \in Blocks, t \in Blocks : x = blocks[k] /\ y = blocks[k + 1] /\ t = blocks[1]
      BY <1>3, <2>1
    <2>4. y < x /\ \A m \in Blocks : ~ (y < m /\ m < x) BY <1>4, <1>5, <2>3
    <2>5. x \in Int /\ y \in Int /\ t \in Int /\ y >= 1 /\ x <= NumBlocks BY <1>4
    <2>6. y = x - 1
      <3>1. x - 1 \in Blocks BY <1>4, <2>4, <2>5
      <3>2. ~ (y < x - 1) BY <2>4, <2>5, <3>1
      <3>. QED BY <2>4, <2>5, <3>2
    <2>7. y = t - k BY <2>2, <2>3, <2>5, <2>6
    <2>. QED BY <2>1, <2>3, <2>7
  <1>8. \A k \in 0 .. n : k \in P
    <2>. HIDE DEF P
    <2>. QED BY <1>3, <1>6, <1>7, Ascend
  <1>9. \A i \in 1 .. Len(blocks) : i - 1 \in 0 .. n /\ (i - 1) + 1 = i BY <1>3
  <1>. QED BY <1>8, <1>9

\* A page of an index without a gap ends on its last number or is full.
LEMMA FullPage ==
  ASSUME NEW ix, Stored(ix) = Blocks, NEW from \in Blocks, NEW to \in Blocks, to < from,
         from - ScanBatch <= to, NEW page, IsPage(page, ix, from, to, ScanBatch)
  PROVE  /\ page # <<>> /\ page[Len(page)] >= from - ScanBatch + 1 /\ page[Len(page)] >= to
         /\ page[Len(page)] = to \/ page[Len(page)] = from - ScanBatch + 1
  <1>1. from \in Int /\ to \in Int /\ ScanBatch \in Nat \ {0} /\ Blocks \subseteq Int
    BY ScanAssumption DEF Blocks
  <1> DEFINE s == [errors |-> <<>>, missing |-> <<>>, pending |-> 0]
  <1>2. Scanned(ix, s, from, from)
    <2>1. s \in RunType BY DEF RunType
    <2>2. GoodForks(ix, s.errors) BY DEF GoodForks
    <2>3. Covered(s.missing) = {} BY DEF Covered
    <2>. QED BY <2>1, <2>2, <2>3 DEF Scanned
  <1>3. s.pending = 0 OBVIOUS
  <1>. HIDE DEF s
  <1>4. /\ page = <<>> => s.pending # 0 /\ \A n \in Stored(ix) : ~ (to <= n /\ n < s.pending)
        /\ page # <<>> =>
              /\ IsRun(WithPending(s, page), ix)
              /\ WithPending(s, page)[1] = IF s.pending = 0 THEN from ELSE s.pending
              /\ WithPending(s, page)[Len(WithPending(s, page))] = page[Len(page)]
    BY <1>1, <1>2, PageRuns
  <1>5. page # <<>> /\ WithPending(s, page) = page BY <1>3, <1>4 DEF WithPending
  <1>6. IsRun(page, ix) /\ page[1] = from BY <1>3, <1>4, <1>5
  <1>7. PICK len : len = Len(page) OBVIOUS
  <1>8. /\ len \in Nat \ {0} /\ len <= ScanBatch /\ len \in 1 .. len
        /\ \A i \in 1 .. len : page[i] = from - (i - 1) /\ page[i] \in to .. from
    <2>1. \A i \in 1 .. Len(page) : page[i] = page[1] - (i - 1) BY <1>6, RunOfAll
    <2>2. page \in Seq(Blocks) /\ Len(page) <= ScanBatch
          /\ \A i \in 1 .. Len(page) : page[i] \in to .. from
      BY DEF IsPage
    <2>3. len \in Nat \ {0} BY <1>5, <1>7, <2>2
    <2>. QED BY <1>6, <1>7, <2>1, <2>2, <2>3
  <1>9. page[len] = from - (len - 1) /\ page[len] >= to /\ page[len] \in Int BY <1>1, <1>8
  <1>10. page[len] # to => len = ScanBatch
    <2>. SUFFICES ASSUME page[len] # to PROVE len = ScanBatch OBVIOUS
    <2>1. page[len] - 1 \in to .. from BY <1>1, <1>8, <1>9
    <2>2. page[len] - 1 \in Stored(ix)
      <3>1. NumBlocks \in Int /\ 1 <= to /\ from <= NumBlocks BY ScanAssumption DEF Blocks
      <3>2. page[len] - 1 \in 1 .. NumBlocks BY <1>1, <2>1, <3>1
      <3>. QED BY <3>2 DEF Blocks
    <2>3. \A i \in 1 .. len : page[i] # page[len] - 1 BY <1>1, <1>8, <1>9
    <2>. QED BY <1>7, <2>1, <2>2, <2>3 DEF IsPage
  <1>. QED BY <1>1, <1>5, <1>7, <1>8, <1>9, <1>10

\* The onBranch blocks are one branch, with a block of the chain above and two below.
WholeFork(ix, a, b) ==
    /\ a \in 3 .. (NumBlocks - 1) /\ b \in 3 .. (NumBlocks - 1)
    /\ {n \in Blocks : Forked(ix, n)} = a .. b
    /\ ix[a] = "branch" /\ \A n \in (a + 1) .. b : ix[n] = "twig"

LEMMA ForkIdentity ==
  ASSUME NEW ix, NEW a, NEW b, WholeFork(ix, a, b)
  PROVE  /\ a \in Int /\ b \in Int /\ a <= b
         /\ \A n \in Blocks : /\ Differs(ix, n) <=> a <= n /\ n <= b
                              /\ BlockId(ix, n) = IF a <= n /\ n <= b THEN "f" ELSE "c"
                              /\ PrevId(ix, n) = IF a < n /\ n <= b THEN "f" ELSE "c"
  <1>1. a \in Int /\ b \in Int /\ NumBlocks \in Int /\ Blocks \subseteq Int /\ a \in Blocks
    BY ScanAssumption DEF WholeFork, Blocks
  <1>2. Forked(ix, a) BY DEF WholeFork, Forked
  <1>3. a <= b
    <2>1. a \in a .. b BY <1>1, <1>2 DEF WholeFork
    <2>. QED BY <1>1, <2>1
  <1>4. ASSUME NEW n \in Blocks
        PROVE  /\ Differs(ix, n) <=> a <= n /\ n <= b
               /\ BlockId(ix, n) = IF a <= n /\ n <= b THEN "f" ELSE "c"
               /\ PrevId(ix, n) = IF a < n /\ n <= b THEN "f" ELSE "c"
    <2>1. n \in Int BY <1>1
    <2>2. Forked(ix, n) <=> a <= n /\ n <= b
      <3>1. Forked(ix, n) <=> n \in a .. b BY DEF WholeFork
      <3>. QED BY <1>1, <2>1, <3>1
    <2>3. BlockId(ix, n) = IF a <= n /\ n <= b THEN "f" ELSE "c" BY <2>2 DEF BlockId
    <2>4. Differs(ix, n) <=> a <= n /\ n <= b BY <2>3 DEF Differs
    <2>5. CASE a < n /\ n <= b
      <3>1. n \in (a + 1) .. b BY <1>1, <2>1, <2>5
      <3>2. ix[n] = "twig" BY <3>1 DEF WholeFork
      <3>. QED BY <2>3, <2>4, <2>5, <3>2 DEF PrevId
    <2>6. CASE ~ (a < n /\ n <= b)
      <3>1. ix[n] # "twig"
        <4>1. CASE n = a BY <4>1 DEF WholeFork
        <4>2. CASE n # a BY <1>1, <2>1, <2>2, <2>6, <4>2 DEF Forked
        <4>. QED BY <4>1, <4>2
      <3>. QED BY <2>3, <2>4, <2>6, <3>1, Zenon DEF PrevId
    <2>. QED BY <2>5, <2>6
  <1>. QED BY <1>1, <1>3, <1>4

\* One page that shows the fork, its child and two blocks of the chain below reports it.
LEMMA PageReportsFork ==
  ASSUME NEW ix, Stored(ix) = Blocks, NEW a, NEW b, WholeFork(ix, a, b),
         NEW s \in RunType, NEW blocks, IsRun(blocks, ix),
         blocks[1] >= b + 1, blocks[Len(blocks)] <= a - 2
  PROVE  Reported(PairFold(ix, s, blocks).errors, a .. b)
  <1>1. PICK n : n = Len(blocks) - 1 OBVIOUS
  <1>2. blocks \in Seq(Blocks) /\ blocks # <<>> BY DEF IsRun
  <1>3. n \in Nat /\ Len(blocks) = n + 1 /\ \A i \in 1 .. n + 1 : blocks[i] \in Blocks
    BY <1>1, <1>2
  <1>4. Blocks \subseteq Int BY ScanAssumption DEF Blocks
  <1>5. blocks \in Seq(Int) BY <1>2, <1>4, SeqMonotonic
  <1>6. PICK top : top = blocks[1] OBVIOUS
  <1>7. /\ top \in Int /\ top >= b + 1 /\ a \in Int /\ b \in Int /\ a <= b
        /\ \A i \in 1 .. n + 1 : blocks[i] = top - (i - 1)
    <2>1. 1 \in 1 .. n + 1 BY <1>3
    <2>2. \A i \in 1 .. Len(blocks) : blocks[i] = blocks[1] - (i - 1) BY RunOfAll
    <2>3. a \in Int /\ b \in Int /\ a <= b BY ForkIdentity
    <2>4. blocks[1] \in Int BY <1>3, <1>4, <2>1
    <2>. QED BY <1>3, <1>6, <2>2, <2>3, <2>4
  <1>8. top - n <= a - 2
    <2>1. n + 1 \in 1 .. n + 1 BY <1>3
    <2>2. blocks[n + 1] = top - n BY <1>3, <1>7, <2>1
    <2>. QED BY <1>3, <2>2
  <1>9. PICK r : PairStates(r, ix, s, blocks, n) BY <1>1, <1>2, <1>5, PairSteps
  <1> DEFINE Above(k) == top - k > b /\ r[k].start = NoStart /\ r[k].removals = {}
             Within(k) == /\ top - k <= b /\ top - k >= a - 1
                          /\ r[k].start # NoStart
                          /\ r[k].removals = {b} \cup ((top - k + 1) .. b)
             Below(k) == top - k < a - 1 /\ Reported(r[k].errors, a .. b)
             P == {k \in 0 .. n : Above(k) \/ Within(k) \/ Below(k)}
  <1>10. 0 \in P
    <2>1. r[0].start = NoStart /\ r[0].removals = {} BY <1>9 DEF PairStates
    <2>. QED BY <1>3, <1>7, <2>1
  <1>11. ASSUME NEW k \in 1 .. n, k - 1 \in P PROVE k \in P
    <2>1. k - 1 \in 0 .. n /\ k \in 0 .. n /\ k \in 1 .. n + 1 /\ k + 1 \in 1 .. n + 1 BY <1>3
    <2>2. PICK q, cur, prev, p : q = r[k - 1] /\ cur = blocks[k] /\ prev = blocks[k + 1]
                                 /\ p = Pair(ix, q, cur, prev)
      OBVIOUS
    <2>3. /\ cur \in Blocks /\ prev \in Blocks /\ cur \in Int /\ prev \in Int
          /\ cur = top - (k - 1) /\ prev = top - k /\ prev = cur - 1
      <3>1. blocks[k] = top - (k - 1) /\ blocks[k + 1] = top - ((k + 1) - 1) BY <1>7, <2>1
      <3>2. top - ((k + 1) - 1) = top - k /\ top - k = (top - (k - 1)) - 1 BY <1>7
      <3>. QED BY <1>3, <1>4, <2>1, <2>2, <3>1, <3>2
    <2>4. r[k] = p /\ q \in PairType BY <1>9, <2>1, <2>2 DEF PairStates
    <2>5. PairEffect(ix, q, cur, prev, p) BY <2>2, <2>3, <2>4, PairStep
    <2>6. /\ Differs(ix, cur) <=> a <= cur /\ cur <= b
          /\ Differs(ix, prev) <=> a <= prev /\ prev <= b
          /\ BlockId(ix, prev) = IF a <= prev /\ prev <= b THEN "f" ELSE "c"
          /\ PrevId(ix, cur) = IF a < cur /\ cur <= b THEN "f" ELSE "c"
      BY <2>3, ForkIdentity
    <2>7. \/ cur > b /\ q.start = NoStart /\ q.removals = {}
          \/ cur <= b /\ cur >= a - 1 /\ q.start # NoStart /\ q.removals = {b} \cup ((cur + 1) .. b)
          \/ cur < a - 1 /\ Reported(q.errors, a .. b)
      <3>1. top - (k - 1) = cur BY <2>3
      <3>2. Above(k - 1) \/ Within(k - 1) \/ Below(k - 1) BY <1>11
      <3>. QED BY <2>2, <3>1, <3>2
    <2> DEFINE fork == [start |-> q.start, end |-> cur + 1, ids |-> q.removals]
    <2>8. \/ /\ BlockId(ix, prev) # PrevId(ix, cur) /\ q.start = NoStart
             /\ p.errors = q.errors /\ p.start = cur - 1
             /\ p.removals = IF Differs(ix, prev) THEN q.removals \cup {prev} ELSE q.removals
          \/ /\ BlockId(ix, prev) = PrevId(ix, cur) /\ q.start = NoStart
             /\ p.errors = q.errors /\ p.start = q.start /\ p.removals = q.removals
          \/ /\ BlockId(ix, prev) # PrevId(ix, cur) /\ q.start # NoStart
             /\ p.errors = q.errors
          \/ /\ BlockId(ix, prev) = PrevId(ix, cur) /\ q.start # NoStart /\ Differs(ix, cur)
             /\ p.errors = q.errors /\ p.start = q.start /\ p.removals = q.removals \cup {cur}
          \/ /\ BlockId(ix, prev) = PrevId(ix, cur) /\ q.start # NoStart /\ ~ Differs(ix, cur)
             /\ p.errors = Append(q.errors, fork)
      BY <2>3, <2>5, Zenon DEF PairEffect
    <2>9. q.errors \in Seq(ForkType) /\ fork \in ForkType
      BY <2>3, <2>4 DEF PairType, ForkType
    <2>10. top - k = prev /\ top - k + 1 = cur BY <1>7, <2>3
    <2>. HIDE DEF fork
    <2>11. CASE cur > b /\ q.start = NoStart /\ q.removals = {}
      <3>1. CASE prev > b
        <4>1. BlockId(ix, prev) = "c" /\ PrevId(ix, cur) = "c"
          <5>1. ~ (a <= prev /\ prev <= b) /\ ~ (a < cur /\ cur <= b) BY <1>7, <2>3, <2>11, <3>1
          <5>. QED BY <2>6, <5>1, Zenon
        <4>2. p.start = NoStart /\ p.removals = {} BY <2>8, <2>11, <4>1
        <4>3. Above(k) BY <2>4, <2>10, <3>1, <4>2
        <4>. QED BY <2>1, <4>3
      <3>2. CASE ~ (prev > b)
        <4>1. prev = b BY <1>7, <2>3, <2>11, <3>2
        <4>2. BlockId(ix, prev) = "f" /\ PrevId(ix, cur) = "c" /\ Differs(ix, prev)
          <5>1. a <= prev /\ prev <= b /\ ~ (a < cur /\ cur <= b) BY <1>7, <2>3, <2>11, <4>1
          <5>. QED BY <2>6, <5>1, Zenon
        <4>3. p.start = cur - 1 /\ p.removals = {b} BY <2>8, <2>11, <4>1, <4>2
        <4>4. p.start # NoStart
          <5>1. prev >= 1 BY <2>3, ScanAssumption DEF Blocks
          <5>. QED BY <2>3, <4>3, <5>1 DEF NoStart
        <4>5. (top - k + 1) .. b = {} BY <1>7, <2>3, <2>10, <2>11
        <4>6. top - k <= b /\ top - k >= a - 1 BY <1>7, <2>10, <4>1
        <4>7. Within(k) BY <2>4, <4>3, <4>4, <4>5, <4>6
        <4>. QED BY <2>1, <4>7
      <3>. QED BY <3>1, <3>2
    <2>12. CASE cur <= b /\ cur >= a - 1 /\ q.start # NoStart
                /\ q.removals = {b} \cup ((cur + 1) .. b)
      <3>1. CASE cur >= a
        <4>1. BlockId(ix, prev) = PrevId(ix, cur) /\ Differs(ix, cur)
          <5>1. a <= cur /\ cur <= b /\ (a <= prev /\ prev <= b <=> a < cur /\ cur <= b)
            BY <1>7, <2>3, <2>12, <3>1
          <5>. QED BY <2>6, <5>1
        <4>2. p.start = q.start /\ p.removals = q.removals \cup {cur} BY <2>8, <2>12, <4>1
        <4>3. {b} \cup ((cur + 1) .. b) \cup {cur} = {b} \cup (cur .. b)
          <5>1. \A x : x \in cur .. b <=> x = cur \/ x \in (cur + 1) .. b BY <1>7, <2>3, <2>12
          <5>. QED BY <5>1
        <4>4. top - k <= b /\ top - k >= a - 1 BY <1>7, <2>3, <2>10, <2>12, <3>1
        <4>5. Within(k) BY <2>4, <2>10, <2>12, <4>2, <4>3, <4>4
        <4>. QED BY <2>1, <4>5
      <3>2. CASE ~ (cur >= a)
        <4>1. cur = a - 1 BY <1>7, <2>3, <2>12, <3>2
        <4>2. BlockId(ix, prev) = PrevId(ix, cur) /\ ~ Differs(ix, cur)
          <5>1. ~ (a <= cur /\ cur <= b) /\ ~ (a <= prev /\ prev <= b) /\ ~ (a < cur /\ cur <= b)
            BY <1>7, <2>3, <4>1
          <5>. QED BY <2>6, <5>1
        <4>3. p.errors = Append(q.errors, fork) BY <2>8, <2>12, <4>2
        <4>4. fork.ids = a .. b
          <5>1. {b} \cup ((cur + 1) .. b) = a .. b BY <1>7, <4>1
          <5>. QED BY <2>12, <5>1 DEF fork
        <4>5. Reported(p.errors, a .. b) BY <2>9, <4>3, <4>4, ReportedAppend
        <4>6. Below(k) BY <1>7, <2>3, <2>4, <2>10, <4>1, <4>5
        <4>. QED BY <2>1, <4>6
      <3>. QED BY <3>1, <3>2
    <2>13. CASE cur < a - 1 /\ Reported(q.errors, a .. b)
      <3>1. Reported(p.errors, a .. b) BY <2>2, <2>3, <2>4, <2>13, PairReports
      <3>2. Below(k) BY <1>7, <2>3, <2>4, <2>10, <2>13, <3>1
      <3>. QED BY <2>1, <3>2
    <2>. QED BY <2>7, <2>11, <2>12, <2>13
  <1>12. n \in P
    <2>1. n \in 0 .. n BY <1>3
    <2>. HIDE DEF P
    <2>. QED BY <1>3, <1>10, <1>11, <2>1, Ascend
  <1>13. Reported(r[n].errors, a .. b) BY <1>3, <1>7, <1>8, <1>12
  <1>. QED BY <1>9, <1>13 DEF PairStates

\* A scan reports a whole fork that one of its pages shows.
LEMMA RunReportsFork ==
  ASSUME NEW ix, Stored(ix) = Blocks, NEW a, NEW b, WholeFork(ix, a, b), NEW i \in 1 .. NumBlocks,
         b <= PageFrom(NumBlocks, i), a - 2 > PageFrom(NumBlocks, i) - ScanBatch
  PROVE  Reported(Run(ix, 1, NumBlocks).errors, a .. b)
  <1> DEFINE N == NumBlocks
  <1>1. N \in Nat \ {0, 1} /\ ScanBatch \in Nat \ {0} /\ Blocks = 1 .. N
    BY ScanAssumption DEF Blocks
  <1>2. 1 \in Stored(ix) /\ N \in Stored(ix) /\ 1 <= N /\ N \in Int BY <1>1
  <1>3. a \in Int /\ b \in Int /\ a <= b /\ 3 <= a /\ b <= N - 1
    <2>1. a \in 3 .. (N - 1) /\ b \in 3 .. (N - 1) BY DEF WholeFork
    <2>. QED BY <1>1, <2>1, ForkIdentity
  <1>4. PICK n : n = (N - 1 + ScanBatch - 1) \div ScanBatch OBVIOUS
  <1>5. PICK r : ScannedStates(r, ix, 1, N, n)
    <2>. HIDE DEF N
    <2>. QED BY <1>2, <1>4, PagesScanned
  <1>6. /\ n \in Nat /\ n * ScanBatch >= N - 1
        /\ \A k \in Int : k * ScanBatch \in Int /\ (k - 1) * ScanBatch = k * ScanBatch - ScanBatch
    <2>. HIDE DEF N
    <2>1. 1 \in Int BY <1>2
    <2>. QED BY <1>2, <1>4, <2>1, ScanPages
  <1>7. i \in 1 .. n
    <2>. SUFFICES ASSUME i > n PROVE FALSE BY <1>1, <1>6
    <2>1. PICK d \in Nat : d = i - 1 - n BY <1>1, <1>6
    <2>2. d * ScanBatch >= 0
      <3>1. \A x, y \in Nat : x * y >= 0 OBVIOUS
      <3>. QED BY <1>1, <2>1, <3>1
    <2>3. d * ScanBatch = (i - 1) * ScanBatch - n * ScanBatch
      <3>1. \A x, y, z \in Int : (x - y) * z = x * z - y * z OBVIOUS
      <3>2. i - 1 \in Int /\ n \in Int /\ ScanBatch \in Int BY <1>1, <1>6
      <3>3. (i - 1 - n) * ScanBatch = (i - 1) * ScanBatch - n * ScanBatch BY <3>1, <3>2
      <3>. QED BY <2>1, <3>3
    <2>4. PICK u, v : u = (i - 1) * ScanBatch /\ v = n * ScanBatch OBVIOUS
    <2>5. i - 1 \in Int /\ i \in Int BY <1>1
    <2>6. u \in Int /\ v \in Int /\ u - v >= 0 /\ v >= N - 1 BY <1>6, <2>2, <2>3, <2>4, <2>5
    <2>7. b <= N - u BY <2>4 DEF PageFrom
    <2>. QED BY <1>1, <1>3, <2>6, <2>7
  <1>8. PICK s, from, to : s = r[i - 1] /\ from = PageLow(1, N, i - 1) /\ to = PageLow(1, N, i)
    OBVIOUS
  <1>9. /\ from \in Int /\ to \in Int /\ to < from /\ from - ScanBatch <= to /\ from <= N /\ 1 <= to
        /\ PageFrom(N, i) = from /\ PageTo(1, N, i) = to
    <2>. HIDE DEF N
    <2>. QED BY <1>2, <1>4, <1>7, <1>8, PageBounds
  <1>10. from \in Blocks /\ to \in Blocks BY <1>1, <1>9
  <1> DEFINE page == GetBlocks(ix, from, to, ScanBatch)
             blocks == WithPending(s, page)
  <1>11. i - 1 \in 0 .. n /\ i \in 0 .. n BY <1>6, <1>7
  <1>12. Scanned(ix, s, from, N) BY <1>5, <1>8, <1>11 DEF ScannedStates
  <1>13. r[i] = FindForksOnRange(ix, s, page)
    BY <1>5, <1>7, <1>8, <1>9 DEF ScannedStates, ScanStates, PageStep
  <1>14. IsPage(page, ix, from, to, ScanBatch) BY <1>1, <1>9, PageOfIndex
  <1>. HIDE DEF page
  <1>15. /\ page # <<>>
         /\ page[Len(page)] = to \/ page[Len(page)] = from - ScanBatch + 1
    BY <1>9, <1>10, <1>14, FullPage
  <1>16. /\ IsRun(blocks, ix) /\ blocks[1] = IF s.pending = 0 THEN N ELSE s.pending
         /\ blocks[Len(blocks)] = page[Len(page)]
    <2>. HIDE DEF blocks, N
    <2>. QED BY <1>1, <1>2, <1>9, <1>12, <1>14, <1>15, PageRuns DEF blocks
  <1>17. blocks[Len(blocks)] <= a - 2
    <2>. HIDE DEF blocks
    <2>1. page[Len(page)] >= from - ScanBatch + 1 BY <1>9, <1>10, <1>14, FullPage
    <2>2. to >= 1 /\ (to = PageFrom(N, i) - ScanBatch \/ to = 1)
      <3>1. to = IF from - ScanBatch < 1 THEN 1 ELSE from - ScanBatch BY <1>9 DEF PageTo
      <3>. QED BY <1>9, <3>1
    <2>. QED BY <1>1, <1>3, <1>9, <1>15, <1>16, <2>1, <2>2
  <1>18. s.pending # 0 => s.pending >= from + 1
    <2>. SUFFICES ASSUME s.pending # 0 PROVE s.pending >= from + 1 OBVIOUS
    <2>1. i # 1
      <3>1. i = 1 => s.pending = 0
        <4>1. 1 - 1 = 0 OBVIOUS
        <4>. QED BY <1>5, <1>8, <4>1 DEF ScannedStates, ScanStates
      <3>. QED BY <3>1
    <2>2. i - 1 \in 1 .. n /\ (i - 1) - 1 \in 0 .. n BY <1>6, <1>7, <2>1
    <2>3. PICK j : j = i - 1 OBVIOUS
    <2>4. PICK q, top : q = r[j - 1] /\ top = PageLow(1, N, j - 1) OBVIOUS
    <2>5. /\ top \in Int /\ from < top /\ top - ScanBatch <= from /\ top <= N
          /\ PageFrom(N, j) = top /\ PageTo(1, N, j) = from
      <3>. HIDE DEF N
      <3>. QED BY <1>2, <1>4, <1>8, <2>2, <2>3, <2>4, PageBounds
    <2>6. top \in Blocks BY <1>1, <1>9, <2>5
    <2> DEFINE above == GetBlocks(ix, top, from, ScanBatch)
    <2>7. s = FindForksOnRange(ix, q, above)
      <3>1. s = PageStep(ix, 1, N, r[j - 1], j)
        BY <1>5, <1>8, <2>2, <2>3 DEF ScannedStates, ScanStates
      <3>. QED BY <2>4, <2>5, <3>1 DEF PageStep
    <2>8. IsPage(above, ix, top, from, ScanBatch) BY <1>1, <1>9, <2>5, PageOfIndex
    <2>. HIDE DEF above
    <2>9. /\ above # <<>>
          /\ above[Len(above)] >= top - ScanBatch + 1
          /\ above[Len(above)] = from \/ above[Len(above)] = top - ScanBatch + 1
      BY <1>10, <2>5, <2>6, <2>8, FullPage
    <2>10. from = top - ScanBatch
      <3>1. from = IF top - ScanBatch < 1 THEN 1 ELSE top - ScanBatch BY <2>5 DEF PageTo
      <3>2. from >= 3 BY <1>3, <1>9
      <3>. QED BY <3>1, <3>2
    <2>11. s.pending = above[Len(above)]
      <3>1. PICK w : w = WithPending(q, above) OBVIOUS
      <3>2. w # <<>> /\ w[Len(w)] = above[Len(above)]
        <4>1. Scanned(ix, q, top, N)
          BY <1>5, <2>2, <2>3, <2>4 DEF ScannedStates
        <4>2. IsRun(w, ix) /\ w[Len(w)] = above[Len(above)]
          BY <1>1, <1>2, <1>9, <2>5, <2>8, <2>9, <3>1, <4>1, PageRuns
        <4>. QED BY <4>2 DEF IsRun
      <3>3. s = [errors |-> PairFold(ix, q, w).errors, missing |-> PairFold(ix, q, w).missing,
                 pending |-> Last(w)]
        BY <2>7, <3>1, <3>2, PageResult
      <3>4. s.pending = Last(w) BY <3>3
      <3>. QED BY <3>2, <3>4 DEF Last
    <2>. QED BY <1>1, <2>5, <2>9, <2>10, <2>11
  <1>19. blocks[1] >= b + 1
    <2>. HIDE DEF blocks
    <2>1. from >= b BY <1>9
    <2>2. s.pending # 0 => s.pending \in Int BY <1>12 DEF Scanned, RunType
    <2>. QED BY <1>1, <1>3, <1>9, <1>16, <1>18, <2>1, <2>2
  <1>20. s \in RunType BY <1>12 DEF Scanned
  <1>21. Reported(PairFold(ix, s, blocks).errors, a .. b)
    <2>. HIDE DEF blocks
    <2>. QED BY <1>16, <1>17, <1>19, <1>20, PageReportsFork
  <1>22. Reported(r[i].errors, a .. b)
    <2>1. blocks # <<>> BY <1>16 DEF IsRun
    <2>2. r[i] = [errors |-> PairFold(ix, s, blocks).errors,
                  missing |-> PairFold(ix, s, blocks).missing, pending |-> Last(blocks)]
      BY <1>13, <2>1, PageResult
    <2>3. r[i].errors = PairFold(ix, s, blocks).errors
      <3>. HIDE DEF blocks
      <3>. QED BY <2>2
    <2>. QED BY <1>21, <2>3
  <1>23. ScanStates(r, ix, 1, N, n) BY <1>5 DEF ScannedStates
  <1>. QED BY <1>1, <1>2, <1>6, <1>11, <1>22, <1>23, RunReports

LEMMA ForkScanned ==
  ASSUME index \in Indexes, index[1] = "ok" PROVE ScanForks(ScanChain(index))
  <1> DEFINE first == FirstIndexed(index)
             last == LastIndexed(index)
             errors == ScanChain(index).errors
  <1>1. first = FirstIndexed(index) /\ last = LastIndexed(index) OBVIOUS
  <1>2. 1 \in Stored(index) BY ScanAssumption DEF Stored, Blocks
  <1>3. /\ first \in Stored(index) /\ last \in Stored(index) /\ first <= last
        /\ \A n \in Stored(index) : first <= n /\ n <= last
    BY <1>1, <1>2, IndexedEnds
  <1>4. NumBlocks \in Nat \ {0, 1} /\ Blocks = 1 .. NumBlocks /\ ScanBatch \in Nat \ {0}
    BY ScanAssumption DEF Blocks
  <1>6. errors = Run(index, first, last).errors BY DEF ScanChain
  <1>. HIDE DEF first, last, errors
  <1>7. GoodForks(index, errors) BY <1>3, <1>6, RunScans
  <1> DEFINE ids == UNION {errors[i].ids : i \in DOMAIN errors}
             onBranch == {n \in Blocks : Forked(index, n)}
             from(i) == last - (i - 1) * ScanBatch
             Seen == \E i \in 1 .. NumBlocks :
                        \A n \in onBranch : n + 1 <= from(i) + 1 /\ n - 2 > from(i) - ScanBatch
             Whole(a, b) == /\ onBranch = a .. b
                            /\ index[a] = "branch" /\ \A n \in (a + 1) .. b : index[n] = "twig"
  <1>8. ids \subseteq onBranch BY <1>7 DEF GoodForks, GoodFork, Differs, BlockId
  <1>9. ASSUME NEW a \in 3 .. (NumBlocks - 1), NEW b \in 3 .. (NumBlocks - 1), Whole(a, b),
               Stored(index) = Blocks, Seen
        PROVE  onBranch \subseteq ids
    <2>1. WholeFork(index, a, b) BY <1>9 DEF WholeFork
    <2>2. first = 1 /\ last = NumBlocks
      <3>1. 1 \in Blocks /\ NumBlocks \in Blocks BY <1>4
      <3>2. first <= 1 /\ NumBlocks <= last /\ first \in Blocks /\ last \in Blocks
        BY <1>3, <1>9, <3>1
      <3>. QED BY <1>4, <3>2
    <2>3. PICK i \in 1 .. NumBlocks :
             \A n \in onBranch : n + 1 <= from(i) + 1 /\ n - 2 > from(i) - ScanBatch
      BY <1>9
    <2>4. a \in Int /\ b \in Int /\ a <= b BY <2>1, ForkIdentity
    <2>5. a \in onBranch /\ b \in onBranch BY <1>9, <2>4
    <2>6. PICK f : f = from(i) OBVIOUS
    <2>7. f \in Int
      <3>1. (i - 1) * ScanBatch \in Int
        <4>1. i - 1 \in Int /\ ScanBatch \in Int BY <1>4
        <4>. QED BY <4>1
      <3>. QED BY <1>4, <2>2, <2>6, <3>1
    <2>8. b <= f /\ a - 2 > f - ScanBatch
      <3>1. b + 1 <= f + 1 /\ a - 2 > f - ScanBatch BY <2>3, <2>5, <2>6, Zenon
      <3>. QED BY <2>4, <2>7, <3>1
    <2>9. PageFrom(NumBlocks, i) = f BY <2>2, <2>6 DEF PageFrom
    <2>10. Reported(errors, a .. b) BY <1>6, <1>9, <2>1, <2>2, <2>8, <2>9, RunReportsFork
    <2>11. PICK j \in DOMAIN errors : errors[j].ids = a .. b BY <2>10 DEF Reported
    <2>. QED BY <1>9, <2>11
  <1>10. (\E a, b \in 3 .. (NumBlocks - 1) : Whole(a, b)) /\ Stored(index) = Blocks /\ Seen
            => onBranch = ids
    <2>. HIDE DEF Whole, Seen, ids, onBranch
    <2>. QED BY <1>8, <1>9
  <1>11. ScanForks(ScanChain(index)) <=>
            /\ ids \subseteq onBranch
            /\ (\E a, b \in 3 .. (NumBlocks - 1) : Whole(a, b)) /\ Stored(index) = Blocks /\ Seen
                  => onBranch = ids
    BY Zenon DEF ScanForks, errors, last
  <1>. QED BY <1>8, <1>10, <1>11, Zenon

\* The scans before a repair report what is wrong with the index, whatever it is.
THEOREM ScansFindDamage == RepairSpec => []ScansExact
  <1>1. RepairInit => OrphanInv
    BY ScanAssumption DEF RepairInit, OrphanInv, NoOrphans, Indexes, Kinds, Stored, Blocks, Deleting
  <1>2. OrphanInv => ScansExact
    <2>. SUFFICES ASSUME OrphanInv, phase = "damaged"
                  PROVE  /\ QuickScanExact /\ ScanActionsExact /\ ScanChainExact(ScanChain(index))
      BY DEF ScansExact, QuickScanExact, ScanActionsExact
    <2>1. index \in Indexes /\ index[1] = "ok" BY DEF OrphanInv
    <2>2. PICK first, last : first = FirstIndexed(index) /\ last = LastIndexed(index) OBVIOUS
    <2>3. 1 \in Stored(index) BY <2>1, ScanAssumption DEF Stored, Blocks
    <2>4. first \in Stored(index) /\ last \in Stored(index) /\ first <= last
      BY <2>2, <2>3, IndexedEnds
    <2>5. first \in Blocks /\ last \in Blocks BY <2>4 DEF Stored
    <2>6. NotIndexed(index, first, last) = (first .. last) \ Stored(index) BY DEF NotIndexed
    <2>7. QuickScanExact BY <2>2, <2>4, <2>5, <2>6, QuickScanFinds DEF QuickScanExact
    <2>8. ScanGapsExact(ScanChain(index))
      <3>1. Covered(ScanChain(index).missing) = NotIndexed(index, first, last)
        BY <2>2, <2>4, RunScans DEF ScanChain
      <3>. QED BY <2>2, <2>6, <3>1 DEF ScanGapsExact
    <2>9. ScanForks(ScanChain(index)) BY <2>1, ForkScanned
    <2>10. ScanActionsExact
      <3> DEFINE lacking == {n \in first .. last : Forked(index, n)}
      <3>1. lacking \cap (first .. last) = lacking OBVIOUS
      <3>. HIDE DEF lacking
      <3>2. /\ Covered(ScanActions(lacking, {}, 1, first, last)) = lacking
            /\ lacking \subseteq Covered(ScanActions(lacking, {}, 2, first, last))
        BY <2>5, <3>1, ActionsFound
      <3>. QED BY <2>2, <3>2 DEF ScanActionsExact, lacking
    <2>. QED BY <2>7, <2>8, <2>9, <2>10 DEF ScanChainExact
  <1>. QED BY <1>1, <1>2, OrphanStep, PTL DEF RepairSpec
-----------------------------------------------------------------------------
(* The file of a fill *)

\* The pieces of one range.
PiecesOf(r, batch) ==
    IF r.end - r.start + 1 <= batch
    THEN <<[start |-> r.start, end |-> r.end]>>
    ELSE [i \in 1 .. ((r.end - r.start + batch) \div batch) |->
             [start |-> r.start + (i - 1) * batch,
              end |-> LET e == r.start + i * batch - 1 IN IF e < r.end THEN e ELSE r.end]]

FileStep(acc, r, batch) == acc \o PiecesOf(r, batch)

LEMMA PiecesType ==
  ASSUME NEW r, r.start \in Int, r.end \in Int, NEW batch \in Nat \ {0}
  PROVE  PiecesOf(r, batch) \in Seq(GapType)
  <1>1. CASE r.end - r.start + 1 <= batch
    <2>1. [start |-> r.start, end |-> r.end] \in GapType BY DEF GapType
    <2>2. PICK g \in GapType : g = [start |-> r.start, end |-> r.end] BY <2>1
    <2>3. <<g>> \in Seq(GapType) OBVIOUS
    <2>. QED BY <1>1, <2>2, <2>3 DEF PiecesOf
  <1>2. CASE ~ (r.end - r.start + 1 <= batch)
    <2>1. PICK m : m = (r.end - r.start + batch) \div batch OBVIOUS
    <2>2. m \in Nat
      <3>1. \A x \in Nat, b \in Nat \ {0} : x \div b \in Nat OBVIOUS
      <3>2. r.end - r.start + batch \in Nat BY <1>2
      <3>. QED BY <2>1, <3>1, <3>2
    <2>3. \A x, y \in Int : x * y \in Int OBVIOUS
    <2>4. \A i \in 1 .. m : (i - 1) * batch \in Int /\ i * batch \in Int
      <3>1. \A i \in 1 .. m : i \in Int /\ i - 1 \in Int OBVIOUS
      <3>2. batch \in Int OBVIOUS
      <3>. QED BY <2>3, <3>1, <3>2
    <2> DEFINE end(i) == LET e == r.start + i * batch - 1 IN IF e < r.end THEN e ELSE r.end
               pieces == [i \in 1 .. m |-> [start |-> r.start + (i - 1) * batch, end |-> end(i)]]
    <2>5. \A i \in 1 .. m : r.start + (i - 1) * batch \in Int /\ end(i) \in Int
      <3>1. \A x, y \in Int : x + y \in Int /\ x + y - 1 \in Int OBVIOUS
      <3>. QED BY <2>4, <3>1
    <2>6. \A i \in 1 .. m : [start |-> r.start + (i - 1) * batch, end |-> end(i)] \in GapType
      <3>. HIDE DEF end
      <3>. QED BY <2>5 DEF GapType
    <2>7. pieces \in Seq(GapType)
      <3>1. pieces \in [1 .. m -> GapType]
        <4>. HIDE DEF end
        <4>. QED BY <2>6
      <3>. HIDE DEF pieces
      <3>. QED BY <2>2, <3>1
    <2>8. PiecesOf(r, batch) = pieces BY <1>2, <2>1 DEF PiecesOf
    <2>. QED BY <2>7, <2>8
  <1>. QED BY <1>1, <1>2

\* The list after each of n ranges.
FileStates(r, s, batch, n) ==
    /\ \A k \in 0 .. n : r[k] \in Seq(GapType)
    /\ \A k \in 1 .. n : r[k] = FileStep(r[k - 1], s[k], batch)
    /\ PreprocessRanges(s, batch) = r[n]

LEMMA FileStepType ==
  ASSUME NEW v \in Seq(GapType), NEW r, r.start \in Int, r.end \in Int, NEW batch \in Nat \ {0}
  PROVE  FileStep(v, r, batch) \in Seq(GapType)
  <1>1. PiecesOf(r, batch) \in Seq(GapType) BY PiecesType
  <1>2. \A t \in Seq(GapType) : v \o t \in Seq(GapType) OBVIOUS
  <1>. QED BY <1>1, <1>2 DEF FileStep

LEMMA FileSteps ==
  ASSUME NEW E, \A e \in E : e.start \in Int /\ e.end \in Int, NEW batch \in Nat \ {0},
         NEW s \in Seq(E)
  PROVE  \E r : FileStates(r, s, batch, Len(s))
  <1> DEFINE n == Len(s)
             iter == CHOOSE h : h = [t \in SUBSET DOMAIN s |->
                        IF t = {} THEN <<>> ELSE FileStep(h[t \ {Max(t)}], s[Max(t)], batch)]
             op == [p \in Seq(GapType) \X (1 .. n) |-> FileStep(p[1], s[p[2]], batch)]
  <1>1. PreprocessRanges(s, batch) = iter[DOMAIN s] BY Zenon DEF PreprocessRanges, FileStep, PiecesOf, FoldLeft, MapThenFoldSet
  <1>2. n \in Nat /\ DOMAIN s = 1 .. n /\ \A k \in 1 .. n : s[k] \in E OBVIOUS
  <1>3. <<>> \in Seq(GapType) OBVIOUS
  <1>4. \A v \in Seq(GapType), k \in 1 .. n :
           FileStep(v, s[k], batch) \in Seq(GapType) /\ op[<<v, k>>] = FileStep(v, s[k], batch)
    BY <1>2, FileStepType
  <1>. HIDE DEF n
  <1>5. op \in [Seq(GapType) \X (1 .. n) -> Seq(GapType)] BY <1>4
  <1>. HIDE DEF op
  <1>6. PICK g \in [SUBSET (1 .. n) -> Seq(GapType)] : Tabulates(g, n, <<>>, op)
    BY <1>2, <1>3, <1>5, FoldRecursion
  <1>7. ASSUME NEW h, NEW t \in SUBSET (1 .. n), t # {}, h[t \ {Max(t)}] \in Seq(GapType)
        PROVE  op[<<h[t \ {Max(t)}], Max(t)>>] = FileStep(h[t \ {Max(t)}], s[Max(t)], batch)
    <2>1. Max(t) \in 1 .. n BY <1>2, <1>7, MaxOfPositions
    <2>. QED BY <1>4, <1>7, <2>1
  <1>8. \E h : h = [t \in SUBSET DOMAIN s |->
                      IF t = {} THEN <<>> ELSE FileStep(h[t \ {Max(t)}], s[Max(t)], batch)]
    <2>1. \A t \in SUBSET (1 .. n) : t # {} => g[t \ {Max(t)}] \in Seq(GapType) OBVIOUS
    <2>2. g = [t \in SUBSET DOMAIN s |->
                 IF t = {} THEN <<>> ELSE FileStep(g[t \ {Max(t)}], s[Max(t)], batch)]
      BY <1>2, <1>6, <1>7, <2>1 DEF Tabulates
    <2>. QED BY <2>2, Zenon
  <1>9. iter = [t \in SUBSET DOMAIN s |->
                  IF t = {} THEN <<>> ELSE FileStep(iter[t \ {Max(t)}], s[Max(t)], batch)]
    BY <1>8, Zenon
  <1>. HIDE DEF iter
  <1>10. Iterates(iter, n, Seq(GapType), <<>>, op) BY <1>2, <1>7, <1>9 DEF Iterates
  <1>11. PICK r : States(r, n, Seq(GapType), <<>>, op) /\ r[n] = iter[1 .. n]
    <2>1. Reaches(iter, n, Seq(GapType), <<>>, op) BY <1>2, <1>3, <1>5, <1>10, FoldStates
    <2>. QED BY <2>1 DEF Reaches
  <1>12. \A k \in 1 .. n : k - 1 \in 0 .. n BY <1>2
  <1>13. \A k \in 1 .. n : r[k] = FileStep(r[k - 1], s[k], batch)
    BY <1>4, <1>11, <1>12 DEF States
  <1>. QED BY <1>1, <1>2, <1>11, <1>13 DEF States, FileStates, n

LEMMA FileType ==
  ASSUME NEW E, \A e \in E : e.start \in Int /\ e.end \in Int, NEW batch \in Nat \ {0},
         NEW s \in Seq(E)
  PROVE  PreprocessRanges(s, batch) \in Seq(GapType)
  <1>1. PICK r : FileStates(r, s, batch, Len(s)) BY FileSteps
  <1>2. Len(s) \in 0 .. Len(s) OBVIOUS
  <1>. QED BY <1>1, <1>2 DEF FileStates
-----------------------------------------------------------------------------
(* The ranges of a message *)

BackStep(acc, r) == IF IsRange(r) THEN <<r>> \o acc ELSE acc

BackStates(r, s, n) ==
    /\ r[0] = <<>>
    /\ \A k \in 1 .. n : r[k] = BackStep(r[k - 1], s[k])
    /\ \A k \in 0 .. n : r[k] \in Seq(GapType)
    /\ Backwards(s) = r[n]

LEMMA BackStepType ==
  ASSUME NEW v \in Seq(GapType), NEW r \in GapType
  PROVE  BackStep(v, r) \in Seq(GapType)
  <1>1. <<r>> \o v \in Seq(GapType) OBVIOUS
  <1>. QED BY <1>1 DEF BackStep

LEMMA BackSteps ==
  ASSUME NEW s \in Seq(GapType)
  PROVE  \E r : BackStates(r, s, Len(s))
  <1> DEFINE n == Len(s)
             iter == CHOOSE h : h = [t \in SUBSET DOMAIN s |->
                        IF t = {} THEN <<>> ELSE BackStep(h[t \ {Max(t)}], s[Max(t)])]
             op == [p \in Seq(GapType) \X (1 .. n) |-> BackStep(p[1], s[p[2]])]
  <1>1. Backwards(s) = iter[DOMAIN s] BY Zenon DEF Backwards, BackStep, FoldLeft, MapThenFoldSet
  <1>2. n \in Nat /\ DOMAIN s = 1 .. n /\ \A k \in 1 .. n : s[k] \in GapType OBVIOUS
  <1>3. <<>> \in Seq(GapType) OBVIOUS
  <1>4. \A v \in Seq(GapType), k \in 1 .. n :
           BackStep(v, s[k]) \in Seq(GapType) /\ op[<<v, k>>] = BackStep(v, s[k])
    BY <1>2, BackStepType
  <1>. HIDE DEF n
  <1>5. op \in [Seq(GapType) \X (1 .. n) -> Seq(GapType)] BY <1>4
  <1>. HIDE DEF op
  <1>6. PICK g \in [SUBSET (1 .. n) -> Seq(GapType)] : Tabulates(g, n, <<>>, op)
    BY <1>2, <1>3, <1>5, FoldRecursion
  <1>7. ASSUME NEW h, NEW t \in SUBSET (1 .. n), t # {}, h[t \ {Max(t)}] \in Seq(GapType)
        PROVE  op[<<h[t \ {Max(t)}], Max(t)>>] = BackStep(h[t \ {Max(t)}], s[Max(t)])
    <2>1. Max(t) \in 1 .. n BY <1>2, <1>7, MaxOfPositions
    <2>. QED BY <1>4, <1>7, <2>1
  <1>8. \E h : h = [t \in SUBSET DOMAIN s |->
                      IF t = {} THEN <<>> ELSE BackStep(h[t \ {Max(t)}], s[Max(t)])]
    <2>1. \A t \in SUBSET (1 .. n) : t # {} => g[t \ {Max(t)}] \in Seq(GapType) OBVIOUS
    <2>2. g = [t \in SUBSET DOMAIN s |->
                 IF t = {} THEN <<>> ELSE BackStep(g[t \ {Max(t)}], s[Max(t)])]
      BY <1>2, <1>6, <1>7, <2>1 DEF Tabulates
    <2>. QED BY <2>2, Zenon
  <1>9. iter = [t \in SUBSET DOMAIN s |->
                  IF t = {} THEN <<>> ELSE BackStep(iter[t \ {Max(t)}], s[Max(t)])]
    BY <1>8, Zenon
  <1>. HIDE DEF iter
  <1>10. Iterates(iter, n, Seq(GapType), <<>>, op) BY <1>2, <1>7, <1>9 DEF Iterates
  <1>11. PICK r : States(r, n, Seq(GapType), <<>>, op) /\ r[n] = iter[1 .. n]
    <2>1. Reaches(iter, n, Seq(GapType), <<>>, op) BY <1>2, <1>3, <1>5, <1>10, FoldStates
    <2>. QED BY <2>1 DEF Reaches
  <1>12. \A k \in 1 .. n : k - 1 \in 0 .. n BY <1>2
  <1>13. \A k \in 1 .. n : r[k] = BackStep(r[k - 1], s[k])
    BY <1>4, <1>11, <1>12 DEF States
  <1>. QED BY <1>1, <1>2, <1>11, <1>13 DEF States, BackStates, n

\* Every range of a message is kept unless it is empty.
LEMMA BackwardsKeeps ==
  ASSUME NEW s \in Seq(GapType)
  PROVE  /\ Backwards(s) \in Seq(GapType)
         /\ \A i \in DOMAIN s : \/ \E k \in DOMAIN Backwards(s) : Backwards(s)[k] = s[i]
                                \/ RangeOf(s[i]) = {}
  <1>1. PICK n : n = Len(s) OBVIOUS
  <1>2. n \in Nat /\ DOMAIN s = 1 .. n /\ \A k \in 1 .. n : s[k] \in GapType BY <1>1
  <1>3. PICK r : BackStates(r, s, n) BY <1>1, BackSteps
  <1> DEFINE P == {k \in 0 .. n : \A i \in 1 .. k : \/ \E j \in DOMAIN r[k] : r[k][j] = s[i]
                                                    \/ RangeOf(s[i]) = {}}
  <1>4. 0 \in P BY <1>2
  <1>5. ASSUME NEW k \in 1 .. n, k - 1 \in P PROVE k \in P
    <2>1. k - 1 \in 0 .. n /\ k \in 0 .. n BY <1>2
    <2>2. PICK acc \in Seq(GapType), g \in GapType : acc = r[k - 1] /\ g = s[k]
      BY <1>2, <1>3, <2>1 DEF BackStates
    <2>3. r[k] = IF IsRange(g) THEN <<g>> \o acc ELSE acc BY <1>3, <2>2 DEF BackStates, BackStep
    <2>4. \A i \in 1 .. k : i \in 1 .. (k - 1) \/ i = k OBVIOUS
    <2>5. CASE IsRange(g)
      <3>1. PICK w : w = <<g>> \o acc OBVIOUS
      <3>2. /\ r[k] = w /\ DOMAIN w = 1 .. Len(acc) + 1 /\ w[1] = g /\ DOMAIN acc = 1 .. Len(acc)
            /\ \A j \in 1 .. Len(acc) : w[j + 1] = acc[j] /\ j + 1 \in 1 .. Len(acc) + 1
        BY <2>3, <2>5, <3>1
      <3>3. 1 \in DOMAIN w BY <3>2
      <3>4. ASSUME NEW i \in 1 .. k
            PROVE  (\E j \in DOMAIN w : w[j] = s[i]) \/ RangeOf(s[i]) = {}
        <4>1. CASE i = k BY <2>2, <3>2, <3>3, <4>1
        <4>2. CASE i \in 1 .. (k - 1)
          <5>1. (\E j \in DOMAIN acc : acc[j] = s[i]) \/ RangeOf(s[i]) = {} BY <1>5, <2>2, <4>2
          <5>. QED BY <3>2, <5>1
        <4>. QED BY <2>4, <4>1, <4>2
      <3>. QED BY <2>1, <3>2, <3>4
    <2>6. CASE ~ IsRange(g)
      <3>1. RangeOf(s[k]) = {} BY <2>2, <2>6 DEF RangeOf, IsRange, GapType
      <3>2. r[k] = acc BY <2>3, <2>6
      <3>3. ASSUME NEW i \in 1 .. k
            PROVE  (\E j \in DOMAIN acc : acc[j] = s[i]) \/ RangeOf(s[i]) = {}
        <4>1. CASE i = k BY <3>1, <4>1
        <4>2. CASE i \in 1 .. (k - 1) BY <1>5, <2>2, <4>2
        <4>. QED BY <2>4, <4>1, <4>2
      <3>. QED BY <2>1, <3>2, <3>3
    <2>. QED BY <2>5, <2>6
  <1>6. n \in P
    <2>1. n \in 0 .. n BY <1>2
    <2>. HIDE DEF P
    <2>. QED BY <1>2, <1>4, <1>5, <2>1, Ascend
  <1>7. Backwards(s) = r[n] /\ r[n] \in Seq(GapType)
    <2>1. n \in 0 .. n BY <1>2
    <2>. QED BY <1>3, <2>1 DEF BackStates
  <1>. QED BY <1>2, <1>6, <1>7
-----------------------------------------------------------------------------
(* The pieces of a range in the reader *)

SpanType == [first : Int, last : Int]

LEMMA ProductOrder ==
  ASSUME NEW w \in Nat \ {0}, NEW x \in Int, NEW y \in Int
  PROVE  /\ x * w \in Int /\ (x - 1) * w = x * w - w /\ (x + 1) * w = x * w + w
         /\ x <= y => x * w <= y * w
         /\ x * w < y * w + w => x <= y
  <1>1. \A n \in Nat : n * w >= 0 OBVIOUS
  <1>2. x * w \in Int /\ y * w \in Int /\ (x - 1) * w = x * w - w /\ (x + 1) * w = x * w + w OBVIOUS
  <1>3. x <= y => x * w <= y * w
    <2>. SUFFICES ASSUME x <= y PROVE x * w <= y * w OBVIOUS
    <2>1. (y - x) * w >= 0 BY <1>1
    <2>2. (y - x) * w = y * w - x * w OBVIOUS
    <2>. QED BY <2>1, <2>2
  <1>4. x > y => x * w >= y * w + w
    <2>. SUFFICES ASSUME x > y PROVE x * w >= y * w + w OBVIOUS
    <2>1. (x - (y + 1)) * w >= 0 BY <1>1
    <2>2. (x - (y + 1)) * w = x * w - y * w - w OBVIOUS
    <2>. QED BY <2>1, <2>2
  <1>5. PICK u \in Int, v \in Int : u = x * w /\ v = y * w BY <1>2
  <1>6. u < v + w => x <= y BY <1>4, <1>5
  <1>. QED BY <1>2, <1>3, <1>5, <1>6

LEMMA Quotient ==
  ASSUME NEW w \in Nat \ {0}, NEW d \in Nat
  PROVE  \E q \in Nat, m \in 0 .. (w - 1) :
            q = d \div w /\ d = q * w + m /\ (m = w - 1 => (d + 1) % w = 0)
  <1>1. PICK q \in Nat, m \in 0 .. (w - 1) : q = d \div w /\ m = d % w OBVIOUS
  <1>2. d = q * w + m BY <1>1
  <1>3. m = w - 1 => (d + 1) % w = 0
    <2>. SUFFICES ASSUME m = w - 1 PROVE (d + 1) % w = 0 OBVIOUS
    <2>1. PICK k \in Nat : k = q + 1 OBVIOUS
    <2>2. k * w = q * w + w BY <2>1, ProductOrder
    <2>3. PICK u \in Int : u = q * w OBVIOUS
    <2>4. d + 1 = k * w BY <1>2, <2>2, <2>3
    <2>5. (k * w) % w = 0 OBVIOUS
    <2>. QED BY <2>4, <2>5, Zenon
  <1>. QED BY <1>1, <1>2, <1>3, Zenon

LEMMA SplitPieces ==
  ASSUME NEW t \in SpanType, t.last - t.first > IndexerBatch
  PROVE  /\ Split(t) \in Seq(SpanType) /\ Split(t) # <<>> /\ Split(t)[1].first = t.first
         /\ \A i \in DOMAIN Split(t) :
               /\ t.first <= Split(t)[i].first /\ Split(t)[i].first < Split(t)[i].last
               /\ Split(t)[i].last - Split(t)[i].first <= IndexerBatch
         /\ \A n \in SpanOf(t) : \/ \E i \in DOMAIN Split(t) : n \in SpanOf(Split(t)[i])
                                 \/ (n - t.first + 1) % (IndexerBatch + 1) = 0
  <1>1. PICK b \in Nat \ {0} : b = IndexerBatch BY RepairAssumption
  <1>2. PICK w \in Nat \ {0} : w = b + 1 OBVIOUS
  <1>3. PICK f \in Int, l \in Int : f = t.first /\ l = t.last BY DEF SpanType
  <1>4. l - f > b /\ l - f + b \in Nat BY <1>1, <1>3
  <1>5. PICK m : m = (l - f + b) \div w OBVIOUS
  <1>6. m \in Nat /\ m * w \in Int /\ m * w <= l - f + b /\ l - f + b < m * w + w
    <2>1. PICK x \in Nat : x = l - f + b BY <1>4
    <2>2. PICK q \in Nat, e \in 0 .. (w - 1) : q = x \div w /\ x = q * w + e
      BY Quotient
    <2>3. m = q BY <1>5, <2>1, <2>2
    <2>4. q * w \in Int OBVIOUS
    <2>5. PICK u : u = q * w OBVIOUS
    <2>6. u <= x /\ x < u + w BY <2>2, <2>4, <2>5
    <2>. QED BY <2>1, <2>3, <2>4, <2>5, <2>6
  <1> DEFINE first(i) == f + (i - 1) * w
             last(i) == IF first(i) + b > l THEN l ELSE first(i) + b
             pieces == [i \in 1 .. m |-> [first |-> first(i), last |-> last(i)]]
  <1>7. Split(t) = pieces BY <1>1, <1>2, <1>3, <1>5 DEF Split
  <1>8. \A i \in 1 .. m : /\ first(i) \in Int /\ last(i) \in Int
                          /\ f <= first(i) /\ first(i) < last(i) /\ last(i) - first(i) <= b
    <2>. TAKE i \in 1 .. m
    <2>1. PICK u : u = i * w OBVIOUS
    <2>2. i \in Int /\ u \in Int /\ (i - 1) * w = u - w BY <2>1, ProductOrder
    <2>3. u <= m * w BY <1>6, <2>1, <2>2, ProductOrder
    <2>4. u - w >= 0
      <3>1. i - 1 \in Nat /\ \A n \in Nat : n * w >= 0 OBVIOUS
      <3>. QED BY <2>2, <3>1
    <2>5. first(i) = f + (u - w) BY <2>2
    <2>6. first(i) \in Int /\ f <= first(i) /\ first(i) < l BY <1>2, <1>6, <2>2, <2>3, <2>4, <2>5
    <2>. HIDE DEF first
    <2>. QED BY <2>6
  <1>9. m \in Nat \ {0}
    <2>1. m # 0
      <3>1. m = 0 => m * w = 0 OBVIOUS
      <3>. QED BY <1>2, <1>4, <1>6, <3>1
    <2>. QED BY <1>6, <2>1
  <1>10. first(1) = f
    <2>1. (1 - 1) * w = 0 OBVIOUS
    <2>. QED BY <2>1
  <1>11. ASSUME NEW n \in f .. (l - 1)
         PROVE  (\E i \in 1 .. m : n \in first(i) .. (last(i) - 1)) \/ (n - f + 1) % w = 0
    <2>1. PICK d \in Nat : d = n - f OBVIOUS
    <2>2. PICK q \in Nat, e \in 0 .. (w - 1) :
             d = q * w + e /\ (e = w - 1 => (d + 1) % w = 0)
      BY Quotient
    <2>3. CASE e = w - 1
      <3>1. n - f + 1 = d + 1 BY <2>1
      <3>. QED BY <2>2, <2>3, <3>1
    <2>4. CASE e # w - 1
      <3>1. PICK i : i = q + 1 OBVIOUS
      <3>2. PICK u \in Int : u = q * w BY ProductOrder
      <3>3. i \in Int /\ q \in Int /\ (i - 1) * w = u /\ i * w = u + w BY <3>1, <3>2, ProductOrder
      <3>4. i <= m
        <4>1. u <= l - f - 1 BY <2>1, <2>2, <3>2
        <4>2. i * w < m * w + w BY <1>2, <1>6, <3>3, <4>1
        <4>. QED BY <1>6, <3>3, <4>2, ProductOrder
      <3>5. i \in 1 .. m BY <1>6, <3>1, <3>4
      <3>6. first(i) = f + u BY <3>3
      <3>7. n = f + u + e /\ n <= l - 1 /\ e < b BY <1>2, <2>1, <2>2, <2>4, <3>2
      <3>8. n \in first(i) .. (last(i) - 1)
        <4>1. first(i) <= n /\ n < l /\ n < first(i) + b /\ first(i) \in Int BY <3>2, <3>6, <3>7
        <4>2. n \in Int OBVIOUS
        <4>. HIDE DEF first
        <4>. QED BY <4>1, <4>2
      <3>. QED BY <3>5, <3>8
    <2>. QED BY <2>3, <2>4
  <1>. HIDE DEF first, last
  <1>12. pieces \in Seq(SpanType) /\ DOMAIN pieces = 1 .. m /\ Len(pieces) = m
         /\ \A i \in 1 .. m : pieces[i].first = first(i) /\ pieces[i].last = last(i)
    <2>1. \A i \in 1 .. m : [first |-> first(i), last |-> last(i)] \in SpanType BY <1>8 DEF SpanType
    <2>2. pieces \in [1 .. m -> SpanType] BY <2>1
    <2>3. \A i \in 1 .. m : pieces[i].first = first(i) /\ pieces[i].last = last(i) OBVIOUS
    <2>. HIDE DEF pieces
    <2>4. pieces \in Seq(SpanType) /\ DOMAIN pieces = 1 .. m /\ Len(pieces) = m BY <1>9, <2>2
    <2>. QED BY <2>3, <2>4
  <1>. HIDE DEF pieces
  <1>13. pieces # <<>> /\ pieces[1].first = f
    <2>1. 1 \in 1 .. m BY <1>9
    <2>. QED BY <1>9, <1>10, <1>12, <2>1
  <1>14. \A i \in 1 .. m : /\ f <= pieces[i].first /\ pieces[i].first < pieces[i].last
                           /\ pieces[i].last - pieces[i].first <= b
    BY <1>8, <1>12
  <1>15. ASSUME NEW n \in f .. (l - 1)
         PROVE  (\E i \in 1 .. m : n \in SpanOf(pieces[i])) \/ (n - f + 1) % w = 0
    <2>1. CASE \E i \in 1 .. m : n \in first(i) .. (last(i) - 1)
      <3>1. PICK i \in 1 .. m : n \in first(i) .. (last(i) - 1) BY <2>1
      <3>2. n \in SpanOf(pieces[i]) BY <1>12, <3>1 DEF SpanOf
      <3>. QED BY <3>2
    <2>. QED BY <1>11, <2>1
  <1>16. SpanOf(t) = f .. (l - 1) /\ IndexerBatch + 1 = w BY <1>1, <1>2, <1>3 DEF SpanOf
  <1>. QED BY <1>1, <1>3, <1>7, <1>12, <1>13, <1>14, <1>15, <1>16
-----------------------------------------------------------------------------
(* What the tool, the master and the reader hold *)

Answers == {"repair_reader_ready", "completed"}

FillTypes ==
    /\ file \in Seq(GapType) /\ pending \in Seq(GapType)
    /\ toRepair \in Seq(SpanType) /\ internal \in Seq(SpanType) /\ fromRepair \in Seq(Answers)
    /\ task \in SpanType /\ next \in Int /\ line \in Nat
    /\ answered \in BOOLEAN /\ overlapped \in BOOLEAN
    /\ phase = "stopped" => saved = line
    /\ phase \in {"fresh", "damaged"} \cup Deleting => line = 0

\* The range of a line as the reader gets it.
Asked(r) == [first |-> r.start, last |-> r.end + 1]

LEMMA AskedSpan ==
  ASSUME NEW r \in GapType
  PROVE  Asked(r) \in SpanType /\ SpanOf(Asked(r)) = RangeOf(r)
  <1>1. r.start \in Int /\ r.end \in Int BY DEF GapType
  <1>2. Asked(r) \in SpanType BY <1>1 DEF Asked, SpanType
  <1>3. Asked(r).first = r.start /\ Asked(r).last = r.end + 1 BY DEF Asked
  <1>4. Asked(r).last - 1 = r.end BY <1>1, <1>3
  <1>5. SpanOf(Asked(r)) = RangeOf(r) BY <1>3, <1>4, Zenon DEF SpanOf, RangeOf
  <1>. QED BY <1>2, <1>5

\* The ranges are queued, sent, or given to a reader that is not there.
Passed(ranges) ==
    \A r \in GapType : (\E k \in DOMAIN ranges : ranges[k] = r) =>
        \/ \E k \in DOMAIN pending' : pending'[k] = r
        \/ \E k \in DOMAIN toRepair' : toRepair'[k] = Asked(r)
        \/ RangeOf(r) \subseteq lost'

LEMMA SendPasses ==
  ASSUME NEW ranges \in Seq(GapType), NEW b \in BOOLEAN, NEW c \in BOOLEAN,
         SendPending(ranges, b, c), toRepair \in Seq(SpanType)
  PROVE  /\ pending' \in Seq(GapType) /\ toRepair' \in Seq(SpanType) /\ answered' \in BOOLEAN
         /\ lost \subseteq lost'
         /\ \A k \in DOMAIN toRepair : k \in DOMAIN toRepair' /\ toRepair'[k] = toRepair[k]
         /\ Passed(ranges)
  <1>1. CASE ranges = <<>>
    <2>1. answered' = (b \/ c) /\ pending' = <<>> /\ toRepair' = toRepair /\ lost' = lost
      BY <1>1 DEF SendPending
    <2>2. Passed(ranges) BY <1>1 DEF Passed
    <2>. QED BY <2>1, <2>2
  <1>2. CASE ranges # <<>>
    <2>0. Head(ranges) \in GapType /\ Tail(ranges) \in Seq(GapType) BY <1>2
    <2>1. PICK h \in GapType, w \in Seq(GapType) : h = Head(ranges) /\ w = Tail(ranges) BY <2>0
    <2>2. /\ pending' = w /\ answered' = b
          /\ \/ toRepair' = Append(toRepair, Asked(h)) /\ lost' = lost
             \/ lost' = lost \cup SpanOf(Asked(h)) /\ toRepair' = toRepair
      BY <1>2, <2>1 DEF SendPending, Asked
    <2>3. ASSUME NEW k \in DOMAIN ranges
          PROVE  ranges[k] = h \/ \E j \in DOMAIN w : w[j] = ranges[k]
      <3>1. CASE k = 1 BY <1>2, <2>1, <3>1
      <3>2. CASE k # 1
        <4>1. k - 1 \in DOMAIN w /\ w[k - 1] = ranges[k] BY <1>2, <2>1, <3>2
        <4>. QED BY <4>1
      <3>. QED BY <3>1, <3>2
    <2>4. Asked(h) \in SpanType /\ SpanOf(Asked(h)) = RangeOf(h) BY <2>1, AskedSpan
    <2>5. CASE toRepair' = Append(toRepair, Asked(h)) /\ lost' = lost
      <3>1. PICK x \in SpanType : x = Asked(h) BY <2>4
      <3>2. /\ toRepair' \in Seq(SpanType)
            /\ \A k \in DOMAIN toRepair : k \in DOMAIN toRepair' /\ toRepair'[k] = toRepair[k]
            /\ \E k \in DOMAIN toRepair' : toRepair'[k] = x
        <4>1. PICK y \in Seq(SpanType) : y = toRepair OBVIOUS
        <4>2. PICK z : z = Append(y, x) OBVIOUS
        <4>3. z \in Seq(SpanType) /\ Len(z) = Len(y) + 1 /\ z[Len(y) + 1] = x
              /\ \A k \in 1 .. Len(y) : z[k] = y[k]
          BY <4>2
        <4>4. DOMAIN z = 1 .. Len(z) /\ DOMAIN y = 1 .. Len(y) /\ Len(y) \in Nat BY <4>3
        <4>5. Len(y) + 1 \in DOMAIN z /\ \A k \in 1 .. Len(y) : k \in DOMAIN z BY <4>3, <4>4
        <4>6. toRepair' = z BY <2>5, <3>1, <4>1, <4>2
        <4>. QED BY <4>1, <4>3, <4>4, <4>5, <4>6
      <3>3. Passed(ranges)
        <4>. SUFFICES ASSUME NEW r \in GapType, NEW k \in DOMAIN ranges, ranges[k] = r
                      PROVE  \/ \E j \in DOMAIN pending' : pending'[j] = r
                             \/ \E j \in DOMAIN toRepair' : toRepair'[j] = Asked(r)
          BY DEF Passed
        <4>1. CASE r = h BY <3>1, <3>2, <4>1
        <4>2. CASE r # h BY <2>2, <2>3, <4>2
        <4>. QED BY <4>1, <4>2
      <3>. QED BY <2>2, <2>5, <3>2, <3>3
    <2>6. CASE lost' = lost \cup SpanOf(Asked(h)) /\ toRepair' = toRepair
      <3>1. Passed(ranges)
        <4>. SUFFICES ASSUME NEW r \in GapType, NEW k \in DOMAIN ranges, ranges[k] = r
                      PROVE  (\E j \in DOMAIN pending' : pending'[j] = r) \/ RangeOf(r) \subseteq lost'
          BY DEF Passed
        <4>1. CASE r = h BY <2>4, <2>6, <4>1
        <4>2. CASE r # h BY <2>2, <2>3, <4>2
        <4>. QED BY <4>1, <4>2
      <3>. QED BY <2>2, <2>6, <3>1
    <2>. QED BY <2>2, <2>5, <2>6
  <1>. QED BY <1>1, <1>2

\* A range in the reader, from where SHIP's history begins.
LEMMA TrimSpan ==
  ASSUME NEW r \in SpanType
  PROVE  /\ Trim(r) \in SpanType /\ Trim(r).last = r.last /\ Trim(r).first >= RepairBegin
         /\ r.first >= RepairBegin => Trim(r).first = r.first
  <1>1. r.first \in Int /\ r.last \in Int /\ RepairBegin \in Int BY RepairAssumption DEF SpanType
  <1>2. PICK f \in Int : f = IF r.first < RepairBegin THEN RepairBegin ELSE r.first BY <1>1
  <1>3. Trim(r) = [r EXCEPT !.first = f] BY <1>2 DEF Trim
  <1>4. Trim(r) \in SpanType /\ Trim(r).last = r.last /\ Trim(r).first = f BY <1>3 DEF SpanType
  <1>. QED BY <1>1, <1>2, <1>4

\* Where newRange leaves a range: a task, the pieces after it, and what is lost of it.
LEMMA StartType ==
  ASSUME NEW r \in SpanType, NEW waiting \in Seq(SpanType), StartRange(r, waiting),
         fromRepair \in Seq(Answers)
  PROVE  /\ task' \in SpanType /\ next' \in Int /\ internal' \in Seq(SpanType)
         /\ fromRepair' \in Seq(Answers)
  <1>1. PICK t \in SpanType : t = Trim(r) BY TrimSpan
  <1>2. t.first \in Int BY DEF SpanType
  <1>3. next' = t.first BY <1>1 DEF StartRange
  <1>4. fromRepair' \in Seq(Answers)
    <2>1. fromRepair' = fromRepair \/ fromRepair' = Append(fromRepair, "completed") BY DEF StartRange
    <2>2. PICK c \in Answers : c = "completed" BY DEF Answers
    <2>3. \A s \in Seq(Answers) : Append(s, c) \in Seq(Answers) OBVIOUS
    <2>. QED BY <2>1, <2>2, <2>3
  <1>5. CASE t.last - t.first > IndexerBatch
    <2>1. PICK p \in Seq(SpanType) : p = Split(t) /\ p # <<>> BY <1>5, SplitPieces
    <2>2. p[1] \in SpanType /\ Tail(p) \in Seq(SpanType) BY <2>1
    <2>3. task' = p[1] /\ internal' = Tail(p) BY <1>1, <1>5, <2>1 DEF StartRange
    <2>. QED BY <1>2, <1>3, <1>4, <2>2, <2>3
  <1>6. CASE ~ (t.last - t.first > IndexerBatch)
    <2>3. task' = t /\ internal' = waiting BY <1>1, <1>6 DEF StartRange
    <2>. QED BY <1>2, <1>3, <1>4, <2>3
  <1>. QED BY <1>5, <1>6
-----------------------------------------------------------------------------
(* The types of a fill *)

\* What a scan hands to the tool is a list of ranges.
LEMMA ScanGives ==
  ASSUME index \in Indexes, index[1] = "ok"
  PROVE  /\ PreprocessRanges(ScanChain(index).missing, ToolBatch) \in Seq(GapType)
         /\ PreprocessRanges(QuickScanChain(index, FirstIndexed(index), LastIndexed(index)), ToolBatch)
              \in Seq(GapType)
         /\ PreprocessRanges(Forks, ToolBatch) \in Seq(GapType)
  <1>1. 1 \in Stored(index) BY ScanAssumption DEF Stored, Blocks
  <1>2. /\ FirstIndexed(index) \in Stored(index) /\ LastIndexed(index) \in Stored(index)
        /\ FirstIndexed(index) <= LastIndexed(index)
    BY <1>1, IndexedEnds
  <1>3. Run(index, FirstIndexed(index), LastIndexed(index)) \in RunType BY <1>2, RunScans
  <1>4. ScanChain(index).missing \in Seq(GapType) /\ Forks \in Seq(ForkType)
    BY <1>3 DEF Forks, ScanChain, RunType
  <1>5. QuickScanChain(index, FirstIndexed(index), LastIndexed(index)) \in Seq(GapType)
    BY <1>2, QuickScanFinds DEF Stored
  <1>6. \A e \in GapType : e.start \in Int /\ e.end \in Int BY DEF GapType
  <1>7. \A e \in ForkType : e.start \in Int /\ e.end \in Int BY DEF ForkType
  <1>8. ToolBatch \in Nat \ {0} BY RepairAssumption
  <1>9. \A s \in Seq(GapType) : PreprocessRanges(s, ToolBatch) \in Seq(GapType) BY <1>6, <1>8, FileType
  <1>10. \A s \in Seq(ForkType) : PreprocessRanges(s, ToolBatch) \in Seq(GapType) BY <1>7, <1>8, FileType
  <1>. QED BY <1>4, <1>5, <1>9, <1>10

\* The ranges of the message after a line.
Message(f, l) ==
    LET rest == SubSeq(f, l + 1, Len(f))
    IN  SubSeq(rest, 1, IF Len(rest) < ChunkSize THEN Len(rest) ELSE ChunkSize)

LEMMA MessageLines ==
  ASSUME NEW f \in Seq(GapType), NEW l \in Nat
  PROVE  /\ Message(f, l) \in Seq(GapType)
         /\ \A i \in DOMAIN f : l < i /\ i <= l + ChunkSize =>
               i - l \in DOMAIN Message(f, l) /\ Message(f, l)[i - l] = f[i]
  <1>1. PICK n \in Nat : n = Len(f) /\ DOMAIN f = 1 .. n OBVIOUS
  <1>2. PICK c \in Nat : c = ChunkSize BY RepairAssumption
  <1>3. PICK rest : rest = SubSeq(f, l + 1, n) OBVIOUS
  <1>4. /\ rest \in Seq(GapType) /\ Len(rest) = IF l < n THEN n - l ELSE 0
        /\ \A i \in 1 .. Len(rest) : rest[i] = f[l + i]
    <2>1. CASE l < n
      <3>1. rest \in Seq(GapType) /\ Len(rest) = n - l
            /\ \A i \in 1 .. (n - l) : rest[i] = f[l + i]
        BY <1>1, <1>3, <2>1
      <3>. QED BY <2>1, <3>1
    <2>2. CASE ~ (l < n)
      <3>1. rest = <<>> BY <1>1, <1>3, <2>2
      <3>. QED BY <2>2, <3>1
    <2>. QED BY <2>1, <2>2
  <1>5. PICK m \in Nat : m = IF Len(rest) < c THEN Len(rest) ELSE c
    <2>1. Len(rest) \in Nat BY <1>1, <1>4
    <2>. QED BY <1>2, <2>1
  <1>6. PICK s : s = SubSeq(rest, 1, m) OBVIOUS
  <1>7. m <= Len(rest) BY <1>4, <1>5
  <1>8. s \in Seq(GapType) /\ Len(s) = m /\ \A i \in 1 .. m : s[i] = rest[i]
    BY <1>4, <1>6, <1>7
  <1>9. Message(f, l) = s BY <1>1, <1>2, <1>3, <1>5, <1>6 DEF Message
  <1>10. ASSUME NEW i \in 1 .. n, l < i, i <= l + c PROVE i - l \in DOMAIN s /\ s[i - l] = f[i]
    <2>1. i - l \in 1 .. Len(rest) /\ i - l \in 1 .. m BY <1>1, <1>4, <1>5, <1>10
    <2>2. DOMAIN s = 1 .. m BY <1>8
    <2>3. l + (i - l) = i OBVIOUS
    <2>. QED BY <1>4, <1>8, <2>1, <2>2, <2>3
  <1>. QED BY <1>1, <1>2, <1>8, <1>9, <1>10

\* A message to the master: its ranges are queued behind a reader that starts, or passed on.
LEMMA SendGives ==
  ASSUME NEW l \in Nat, FillTypes, Send(l)
  PROVE  /\ pending' \in Seq(GapType) /\ toRepair' \in Seq(SpanType) /\ answered' \in BOOLEAN
         /\ lost \subseteq lost' /\ Passed(Backwards(Message(file, l)))
  <1>1. PICK ranges \in Seq(GapType) : ranges = Backwards(Message(file, l))
    <2>1. Message(file, l) \in Seq(GapType) BY MessageLines DEF FillTypes
    <2>. QED BY <2>1, BackwardsKeeps
  <1>2. CASE reader = "none"
    <2>1. pending' = ranges /\ answered' = FALSE /\ toRepair' = toRepair /\ lost' = lost
      BY <1>1, <1>2 DEF Send, Message
    <2>2. Passed(ranges) BY <2>1 DEF Passed
    <2>. QED BY <1>1, <2>1, <2>2 DEF FillTypes
  <1>3. CASE reader # "none"
    <2>1. SendPending(ranges, FALSE, TRUE) BY <1>1, <1>3 DEF Send, Message
    <2>. QED BY <1>1, <2>1, SendPasses DEF FillTypes
  <1>. QED BY <1>2, <1>3

LEMMA FillStep == OrphanInv /\ FillTypes /\ [RepairNext]_repairVars => FillTypes'
  <1>. SUFFICES ASSUME OrphanInv, FillTypes, [RepairNext]_repairVars PROVE FillTypes' OBVIOUS
  <1>1. CASE Damage \/ DeleteHistory \/ DeleteAccounts \/ DeleteRows \/ DeleteFails
    <2>1. /\ UNCHANGED <<file, line, saved, pending, answered, task, next, internal, toRepair,
                         fromRepair, overlapped>>
          /\ phase \in {"fresh", "damaged"} \cup Deleting /\ phase' # "stopped"
      BY <1>1 DEF Damage, DeleteHistory, DeleteAccounts, DeleteRows, DeleteFails, Deleting,
                  fillVars, readerVars, history
    <2>. QED BY <2>1 DEF FillTypes
  <1>2. CASE FillMissing
    <2>1. phase = "damaged" /\ phase' = "filling"
          /\ UNCHANGED <<line, saved, pending, answered, task, next, internal, toRepair, fromRepair, overlapped>>
      BY <1>2 DEF FillMissing, fillVars, readerVars, history
    <2>2. file' \in Seq(GapType)
      <3>1. index \in Indexes /\ index[1] = "ok" BY <2>1 DEF OrphanInv
      <3>. QED BY <1>2, <3>1, ScanGives DEF FillMissing
    <2>. QED BY <2>1, <2>2 DEF FillTypes, Deleting
  <1>3. CASE DeleteBlocks
    <2>1. phase = "deletingBlocks" /\ phase' = "filling"
          /\ UNCHANGED <<line, saved, pending, answered, task, next, internal, toRepair, fromRepair, overlapped>>
      BY <1>3 DEF DeleteBlocks, fillVars, readerVars, history
    <2>2. file' \in Seq(GapType)
      <3>1. index \in Indexes /\ index[1] = "ok" BY <2>1 DEF OrphanInv, Deleting
      <3>. QED BY <1>3, <3>1, ScanGives DEF DeleteBlocks
    <2>. QED BY <2>1, <2>2 DEF FillTypes, Deleting
  <1>4. ASSUME NEW l \in Nat, Send(l), line' = l PROVE FillTypes'
    <2>1. pending' \in Seq(GapType) /\ toRepair' \in Seq(SpanType) /\ answered' \in BOOLEAN
      BY <1>4, SendGives
    <2>2. phase' = "waiting" /\ overlapped' \in BOOLEAN
          /\ UNCHANGED <<file, saved, task, next, internal, fromRepair>>
      BY <1>4 DEF Send, FillTypes
    <2>. QED BY <1>4, <2>1, <2>2 DEF FillTypes, Deleting
  <1>5. CASE FirstChunk
    <2>1. Send(line) /\ line' = line BY <1>5 DEF FirstChunk
    <2>2. PICK l \in Nat : l = line BY DEF FillTypes
    <2>. QED BY <1>4, <2>1, <2>2
  <1>6. CASE NextChunk
    <2>1. PICK l \in Nat : l = line + ChunkSize BY RepairAssumption DEF FillTypes
    <2>2. Send(l) /\ line' = l BY <1>6, <2>1 DEF NextChunk
    <2>. QED BY <1>4, <2>2
  <1>7. CASE LastChunk
    <2>1. line' \in Nat BY <1>7, RepairAssumption DEF LastChunk, FillTypes
    <2>2. /\ answered' = FALSE /\ phase' = "filling"
          /\ UNCHANGED <<file, pending, task, next, internal, toRepair, fromRepair, overlapped>>
      BY <1>7 DEF LastChunk, readerVars, history
    <2>. QED BY <2>1, <2>2 DEF FillTypes, Deleting
  <1>8. CASE Finish
    <2>1. phase' = "done"
          /\ UNCHANGED <<file, line, pending, answered, task, next, internal, toRepair, fromRepair, overlapped>>
      BY <1>8 DEF Finish, readerVars, history
    <2>. QED BY <2>1 DEF FillTypes, Deleting
  <1>9. CASE Interrupt
    <2>1. phase' = "stopped" /\ saved' = line /\ answered' = FALSE
          /\ UNCHANGED <<file, line, pending, task, next, internal, toRepair, fromRepair, overlapped>>
      BY <1>9 DEF Interrupt, readerVars
    <2>. QED BY <2>1 DEF FillTypes, Deleting
  <1>10. CASE ResumeFill
    <2>1. phase = "stopped" /\ phase' = "filling" /\ line' = (IF saved < Len(file) THEN saved ELSE 0)
          /\ UNCHANGED <<file, pending, answered, task, next, internal, toRepair, fromRepair, overlapped>>
      BY <1>10 DEF ResumeFill, fillVars, readerVars, history
    <2>2. line' \in Nat BY <2>1 DEF FillTypes
    <2>. QED BY <2>1, <2>2 DEF FillTypes, Deleting
  <1>11. CASE OnReaderMessage
    <2>1. UNCHANGED <<file, line, saved, phase, task, next, internal, overlapped>>
      BY <1>11 DEF OnReaderMessage, toolVars
    <2>2. fromRepair' \in Seq(Answers) BY <1>11 DEF OnReaderMessage, FillTypes
    <2>3. PICK p \in Seq(GapType), b \in BOOLEAN, c \in BOOLEAN :
             p = pending /\ b = answered /\ SendPending(p, b, c)
      <3>1. SendPending(pending, answered, connected) BY <1>11 DEF OnReaderMessage
      <3>2. PICK c \in BOOLEAN : connected <=> c OBVIOUS
      <3>. QED BY <3>1, <3>2 DEF FillTypes, SendPending
    <2>4. pending' \in Seq(GapType) /\ toRepair' \in Seq(SpanType) /\ answered' \in BOOLEAN
      BY <2>3, SendPasses DEF FillTypes
    <2>. QED BY <2>1, <2>2, <2>4 DEF FillTypes
  <1>12. CASE OtherSessionCloses \/ OnDisconnect \/ RelaunchRepair
    <2>1. UNCHANGED <<file, line, saved, phase, pending, answered, task, next, internal, toRepair,
                      fromRepair, overlapped>>
      BY <1>12 DEF OtherSessionCloses, OnDisconnect, RelaunchRepair, toolVars, fillVars, readerVars, history
    <2>. QED BY <2>1 DEF FillTypes
  <1>13. CASE Ready
    <2>1. UNCHANGED <<file, line, saved, phase, pending, answered, task, next, internal, toRepair, overlapped>>
      BY <1>13 DEF Ready, toolVars, fillVars, history
    <2>2. fromRepair' \in Seq(Answers)
      <3>1. fromRepair' = Append(fromRepair, "repair_reader_ready") BY <1>13 DEF Ready
      <3>2. PICK c \in Answers : c = "repair_reader_ready" BY DEF Answers
      <3>. QED BY <3>1, <3>2 DEF FillTypes
    <2>. QED BY <2>1, <2>2 DEF FillTypes
  <1>14. CASE OnNewRange
    <2>1. UNCHANGED <<file, line, saved, phase, pending, answered, overlapped>> /\ toRepair # <<>>
          /\ toRepair' = Tail(toRepair)
      BY <1>14 DEF OnNewRange, toolVars, fillVars
    <2>2. Head(toRepair) \in SpanType /\ toRepair' \in Seq(SpanType) BY <2>1 DEF FillTypes
    <2>3. PICK r \in SpanType, w \in Seq(SpanType) : StartRange(r, w)
      BY <1>14, <2>2 DEF OnNewRange, FillTypes
    <2>4. task' \in SpanType /\ next' \in Int /\ internal' \in Seq(SpanType) /\ fromRepair' \in Seq(Answers)
      BY <2>3, StartType DEF FillTypes
    <2>. QED BY <2>1, <2>2, <2>4 DEF FillTypes
  <1>15. CASE RepairBlock
    <2>1. UNCHANGED <<file, line, saved, phase, pending, answered, task, internal, toRepair,
                      fromRepair, overlapped>>
          /\ next' = next + 1
      BY <1>15 DEF RepairBlock, toolVars, fillVars
    <2>. QED BY <2>1 DEF FillTypes
  <1>16. CASE RangeCompleted
    <2>1. UNCHANGED <<file, line, saved, phase, pending, answered, toRepair, overlapped>>
      BY <1>16 DEF RangeCompleted, toolVars, fillVars
    <2>2. task' \in SpanType /\ next' \in Int /\ internal' \in Seq(SpanType) /\ fromRepair' \in Seq(Answers)
      <3>1. CASE internal # <<>>
        <4>1. Head(internal) \in SpanType /\ Tail(internal) \in Seq(SpanType) BY <3>1 DEF FillTypes
        <4>2. PICK r \in SpanType, w \in Seq(SpanType) : StartRange(r, w)
          BY <1>16, <3>1, <4>1 DEF RangeCompleted
        <4>. QED BY <4>2, StartType DEF FillTypes
      <3>2. CASE internal = <<>>
        <4>1. fromRepair' = Append(fromRepair, "completed") /\ UNCHANGED <<task, next, internal>>
          BY <1>16, <3>2 DEF RangeCompleted
        <4>2. PICK c \in Answers : c = "completed" BY DEF Answers
        <4>. QED BY <4>1, <4>2 DEF FillTypes
      <3>. QED BY <3>1, <3>2
    <2>. QED BY <2>1, <2>2 DEF FillTypes
  <1>17. CASE Crash
    <2>1. UNCHANGED <<file, line, saved, phase, pending, answered, fromRepair, overlapped>>
          /\ task' = NoJob /\ next' = 0 /\ internal' = <<>> /\ toRepair' = <<>>
      BY <1>17 DEF Crash, toolVars, fillVars
    <2>2. NoJob \in SpanType BY DEF NoJob, SpanType
    <2>. QED BY <2>1, <2>2 DEF FillTypes
  <1>18. CASE UNCHANGED repairVars
    BY <1>18 DEF repairVars, toolVars, fillVars, readerVars, history, FillTypes
  <1>. QED BY <1>1, <1>2, <1>3, <1>5, <1>6, <1>7, <1>8, <1>9, <1>10, <1>11, <1>12, <1>13, <1>14,
              <1>15, <1>16, <1>17, <1>18
           DEF RepairNext, Tool, Master, Reader
-----------------------------------------------------------------------------
(* Done means read *)

\* As long as no request met a busy reader there is one range, one answer or one busy
\* reader between the master and the tool, and the master waits with the rest.
OneToken ==
    /\ toRepair # <<>> => Len(toRepair) = 1 /\ fromRepair = <<>> /\ reader = "idle"
    /\ fromRepair # <<>> => Len(fromRepair) = 1 /\ reader \in {"idle", "dead"}
    /\ reader # "busy" => internal = <<>>
    /\ answered => pending = <<>> /\ toRepair = <<>> /\ reader # "busy"
    /\ reader = "none" => pending = <<>>

\* A piece that waits in the reader is not cut again.
Piece(p) == /\ p.last - p.first <= IndexerBatch
            /\ p.first >= RepairBegin
            /\ p.first < p.last

Pieces == \A k \in DOMAIN internal : Piece(internal[k])

\* What the reader still has to read of what it was given.
InFlight ==
    IF reader = "busy"
    THEN (next .. (task.last - 1)) \cup UNION {SpanOf(internal[k]) : k \in DOMAIN internal}
    ELSE {}

Over(r) == fresh \cup lost \cup SkippedBySplit(r)

\* A range that was sent waits in the master, is on its way to the reader, or what is
\* missing of it is being read.
InHand(r) ==
    \/ \E k \in DOMAIN pending : pending[k] = r
    \/ \E k \in DOMAIN toRepair : toRepair[k] = Asked(r)
    \/ RangeOf(r) \subseteq Over(r) \cup InFlight

\* The lines behind the tool are read, those of its last message in hand.
Lines ==
    /\ \A i \in DOMAIN file : i <= line => RangeOf(file[i]) \subseteq Over(file[i])
    /\ phase = "waiting" => \A i \in DOMAIN file : i <= line + ChunkSize => InHand(file[i])
    /\ phase = "done" => line >= Len(file)

DoneInv == ~ overlapped => OneToken /\ Pieces /\ Lines

\* A step that drops no range.
Keeps ==
    /\ fresh \subseteq fresh' /\ lost \subseteq lost'
    /\ \A r \in GapType : InHand(r) => InHand(r)'

LEMMA OverGrows ==
  ASSUME fresh \subseteq fresh', lost \subseteq lost', NEW r
  PROVE  Over(r) \subseteq Over(r)'
  <1>1. SkippedBySplit(r)' = SkippedBySplit(r) BY DEF SkippedBySplit
  <1>. QED BY <1>1 DEF Over

LEMMA LinesKept ==
  ASSUME FillTypes, Lines, Keeps, UNCHANGED <<phase, file, line>>
  PROVE  Lines'
  <1>1. \A i \in DOMAIN file : file[i] \in GapType BY DEF FillTypes
  <1>2. \A r : Over(r) \subseteq Over(r)' BY OverGrows DEF Keeps
  <1>3. \A i \in DOMAIN file' : i <= line' => RangeOf(file[i]) \subseteq Over(file[i])'
    BY <1>2 DEF Lines
  <1>4. phase' = "waiting" => \A i \in DOMAIN file' : i <= line' + ChunkSize => InHand(file[i])'
    BY <1>1 DEF Lines, Keeps
  <1>5. phase' = "done" => line' >= Len(file') BY DEF Lines
  <1>. QED BY <1>3, <1>4, <1>5 DEF Lines

\* The next range goes to the reader, or is lost on one that is dead.
LEMMA OnReaderMessageKeeps ==
  ASSUME FillTypes, OneToken, Pieces, OnReaderMessage
  PROVE  OneToken' /\ Pieces' /\ Keeps
  <1>1. /\ fromRepair # <<>> /\ fromRepair' = Tail(fromRepair)
        /\ UNCHANGED <<reader, task, next, internal, fresh>>
    BY DEF OnReaderMessage
  <1>2. Len(fromRepair) = 1 /\ reader \in {"idle", "dead"} /\ toRepair = <<>> BY <1>1 DEF OneToken
  <1>3. fromRepair' = <<>> BY <1>1, <1>2 DEF FillTypes
  <1>4. PICK p \in Seq(GapType), b \in BOOLEAN, c \in BOOLEAN :
           p = pending /\ b = answered /\ SendPending(p, b, c)
    <2>1. SendPending(pending, answered, connected) BY DEF OnReaderMessage
    <2>2. PICK c \in BOOLEAN : connected <=> c OBVIOUS
    <2>. QED BY <2>1, <2>2 DEF FillTypes, SendPending
  <1>5. lost \subseteq lost' /\ Passed(p) BY <1>4, SendPasses DEF FillTypes
  <1>6. Pieces' BY <1>1 DEF Pieces
  <1>7. Keeps
    <2>. SUFFICES ASSUME NEW r \in GapType, InHand(r) PROVE InHand(r)' BY <1>1, <1>5 DEF Keeps
    <2>1. Over(r) \subseteq Over(r)' BY <1>1, <1>5, OverGrows
    <2>2. InFlight' = InFlight BY <1>1 DEF InFlight
    <2>3. Asked(r)' = Asked(r) /\ RangeOf(r)' = RangeOf(r) /\ lost' \subseteq Over(r)'
      BY DEF Asked, RangeOf, Over
    <2>4. CASE \E k \in DOMAIN pending : pending[k] = r
      <3>1. \/ \E k \in DOMAIN pending' : pending'[k] = r
            \/ \E k \in DOMAIN toRepair' : toRepair'[k] = Asked(r)
            \/ RangeOf(r) \subseteq lost'
        BY <1>4, <1>5, <2>4 DEF Passed
      <3>. QED BY <2>3, <3>1 DEF InHand
    <2>5. CASE RangeOf(r) \subseteq Over(r) \cup InFlight
      BY <2>1, <2>2, <2>5 DEF InHand
    <2>. QED BY <1>2, <2>4, <2>5 DEF InHand
  <1>8. OneToken'
    <2>1. CASE p = <<>>
      <3>1. pending' = <<>> /\ toRepair' = <<>> BY <1>2, <1>4, <2>1 DEF SendPending
      <3>. QED BY <1>1, <1>2, <1>3, <3>1 DEF OneToken
    <2>2. CASE p # <<>>
      <3>1. answered' = FALSE BY <1>4, <2>2 DEF SendPending, OneToken
      <3>2. toRepair' = <<>> \/ (reader = "idle" /\ Len(toRepair') = 1)
        <4>1. PICK h : h = [first |-> Head(p).start, last |-> Head(p).end + 1] OBVIOUS
        <4>2. \/ reader \in {"idle", "busy"} /\ toRepair' = Append(toRepair, h)
              \/ toRepair' = toRepair
          BY <1>4, <2>2, <4>1 DEF SendPending
        <4>3. Len(Append(<<>>, h)) = 1 OBVIOUS
        <4>. QED BY <1>2, <4>2, <4>3
      <3>. QED BY <1>1, <1>2, <1>3, <3>1, <3>2 DEF OneToken
    <2>. QED BY <2>1, <2>2
  <1>. QED BY <1>6, <1>7, <1>8

\* The reader is there, is gone, or is started again; a session is forgotten.
LEMMA LifeKeeps ==
  ASSUME FillTypes, OneToken, Pieces, Ready \/ OnDisconnect \/ RelaunchRepair \/ OtherSessionCloses
  PROVE  OneToken' /\ Pieces' /\ Keeps
  <1>1. UNCHANGED <<pending, answered, task, next, internal, toRepair, fresh, lost>>
    BY DEF Ready, OnDisconnect, RelaunchRepair, OtherSessionCloses, fillVars, readerVars, history
  <1>2. reader' = reader \/ (reader # "busy" /\ reader' # "busy")
    BY DEF Ready, OnDisconnect, RelaunchRepair, OtherSessionCloses, readerVars
  <1>3. Keeps
    <2>. SUFFICES ASSUME NEW r \in GapType, InHand(r) PROVE InHand(r)' BY <1>1 DEF Keeps
    <2>1. Over(r) \subseteq Over(r)' BY <1>1, OverGrows
    <2>2. InFlight' = InFlight BY <1>1, <1>2 DEF InFlight
    <2>3. Asked(r)' = Asked(r) /\ RangeOf(r)' = RangeOf(r) BY DEF Asked, RangeOf
    <2>. QED BY <1>1, <2>1, <2>2, <2>3 DEF InHand
  <1>4. OneToken'
    <2>1. CASE Ready
      <3>1. reader = "starting" /\ reader' = "idle" /\ fromRepair' = Append(fromRepair, "repair_reader_ready")
        BY <2>1 DEF Ready
      <3>2. fromRepair = <<>> /\ toRepair = <<>> BY <3>1 DEF OneToken
      <3>3. Len(Append(<<>>, "repair_reader_ready")) = 1 OBVIOUS
      <3>. QED BY <1>1, <3>1, <3>2, <3>3 DEF OneToken
    <2>2. CASE OnDisconnect
      <3>1. reader = "dead" /\ reader' = "down" /\ fromRepair = <<>> /\ fromRepair' = <<>>
        BY <2>2 DEF OnDisconnect
      <3>. QED BY <1>1, <3>1 DEF OneToken
    <2>3. CASE RelaunchRepair
      <3>1. reader = "down" /\ reader' = "starting" /\ fromRepair' = fromRepair
        BY <2>3 DEF RelaunchRepair
      <3>. QED BY <1>1, <3>1 DEF OneToken
    <2>4. CASE OtherSessionCloses
      <3>1. reader' = reader /\ fromRepair' = fromRepair BY <2>4 DEF OtherSessionCloses, readerVars
      <3>. QED BY <1>1, <3>1 DEF OneToken
    <2>. QED BY <2>1, <2>2, <2>3, <2>4
  <1>. QED BY <1>1, <1>3, <1>4 DEF Pieces

\* A block is read.
LEMMA RepairBlockKeeps ==
  ASSUME FillTypes, OneToken, Pieces, RepairBlock
  PROVE  OneToken' /\ Pieces' /\ Keeps
  <1>1. /\ reader = "busy" /\ next < task.last /\ next' = next + 1 /\ fresh' = fresh \cup {next}
        /\ UNCHANGED <<pending, answered, reader, task, internal, toRepair, fromRepair, lost>>
    BY DEF RepairBlock, fillVars
  <1>2. next \in Int /\ task.last \in Int BY DEF FillTypes, SpanType
  <1>3. ASSUME NEW n \in InFlight PROVE n \in InFlight' \/ n \in fresh'
    <2>1. CASE n \in next .. (task.last - 1)
      <3>1. n = next \/ n \in (next + 1) .. (task.last - 1) BY <1>2, <2>1
      <3>. QED BY <1>1, <3>1 DEF InFlight
    <2>2. CASE n \in UNION {SpanOf(internal[k]) : k \in DOMAIN internal}
      <3>1. UNION {SpanOf(internal[k]) : k \in DOMAIN internal}
              = UNION {SpanOf(internal'[k]) : k \in DOMAIN internal'}
        BY <1>1
      <3>. QED BY <1>1, <2>2 DEF InFlight
    <2>. QED BY <1>1, <2>1, <2>2 DEF InFlight
  <1>4. Keeps
    <2>. SUFFICES ASSUME NEW r \in GapType, InHand(r) PROVE InHand(r)' BY <1>1 DEF Keeps
    <2>1. Over(r) \subseteq Over(r)' BY <1>1, OverGrows
    <2>2. fresh' \subseteq Over(r)' BY DEF Over
    <2>3. Asked(r)' = Asked(r) /\ RangeOf(r)' = RangeOf(r) BY DEF Asked, RangeOf
    <2>. QED BY <1>1, <1>3, <2>1, <2>2, <2>3 DEF InHand
  <1>. QED BY <1>1, <1>4 DEF OneToken, Pieces

\* A dead reader takes what it holds with it.
LEMMA CrashKeeps ==
  ASSUME FillTypes, OneToken, Pieces, Crash
  PROVE  OneToken' /\ Pieces' /\ Keeps
  <1>1. /\ reader \in {"starting", "idle", "busy"} /\ reader' = "dead" /\ internal' = <<>> /\ toRepair' = <<>>
        /\ UNCHANGED <<pending, answered, fromRepair, fresh>>
        /\ lost \subseteq lost' /\ next .. (task.last - 1) \subseteq lost'
        /\ UNION {SpanOf(toRepair[i]) : i \in DOMAIN toRepair} \subseteq lost'
        /\ UNION {SpanOf(internal[i]) : i \in DOMAIN internal} \subseteq lost'
    BY DEF Crash, fillVars
  <1>2. Keeps
    <2>. SUFFICES ASSUME NEW r \in GapType, InHand(r) PROVE InHand(r)' BY <1>1 DEF Keeps
    <2>1. Over(r) \subseteq Over(r)' BY <1>1, OverGrows
    <2>2. lost' \subseteq Over(r)' BY DEF Over
    <2>3. RangeOf(r)' = RangeOf(r) BY DEF RangeOf
    <2>4. InFlight \subseteq lost' BY <1>1 DEF InFlight
    <2>5. CASE \E k \in DOMAIN toRepair : toRepair[k] = Asked(r)
      <3>1. RangeOf(r) \subseteq UNION {SpanOf(toRepair[i]) : i \in DOMAIN toRepair} BY <2>5, AskedSpan
      <3>2. RangeOf(r) \subseteq Over(r)' BY <1>1, <2>2, <3>1
      <3>. QED BY <2>3, <3>2 DEF InHand
    <2>6. CASE \E k \in DOMAIN pending : pending[k] = r BY <1>1, <2>6 DEF InHand
    <2>7. CASE RangeOf(r) \subseteq Over(r) \cup InFlight BY <2>1, <2>2, <2>3, <2>4, <2>7 DEF InHand
    <2>. QED BY <2>5, <2>6, <2>7 DEF InHand
  <1>3. OneToken' BY <1>1 DEF OneToken
  <1>. QED BY <1>1, <1>2, <1>3 DEF Pieces

\* The reader takes a range: what SHIP lacks of it is lost, what the pieces leave out is
\* the blocks between them.
LEMMA OnNewRangeKeeps ==
  ASSUME FillTypes, OneToken, Pieces, OnNewRange
  PROVE  OneToken' /\ Pieces' /\ Keeps
  <1>1. /\ toRepair # <<>> /\ toRepair' = Tail(toRepair)
        /\ UNCHANGED <<pending, answered, fresh>>
    BY DEF OnNewRange, fillVars
  <1>2. /\ Len(toRepair) = 1 /\ fromRepair = <<>> /\ reader = "idle" /\ internal = <<>> /\ ~ answered
    BY <1>1 DEF OneToken
  <1>3. Head(toRepair) \in SpanType BY <1>1 DEF FillTypes
  <1>4. PICK a \in SpanType : a = Head(toRepair) BY <1>3
  <1>5. PICK t \in SpanType : t = Trim(a) /\ t.last = a.last /\ t.first >= RepairBegin BY TrimSpan
  <1>6. t.first \in Int /\ t.last \in Int /\ IndexerBatch \in Nat \ {0}
    BY RepairAssumption DEF SpanType
  <1>7. PICK large \in BOOLEAN : large <=> t.last - t.first > IndexerBatch OBVIOUS
  <1>8. StartRange(a, <<>>) BY <1>2, <1>4 DEF OnNewRange
  <1>9. /\ next' = t.first
        /\ task' = (IF large THEN Split(t)[1] ELSE t)
        /\ internal' = (IF large THEN Tail(Split(t)) ELSE <<>>)
        /\ reader' = (IF t.last > t.first THEN "busy" ELSE "idle")
        /\ fromRepair' = (IF t.last > t.first THEN fromRepair ELSE Append(fromRepair, "completed"))
        /\ lost' = lost \cup (SpanOf(a) \ SpanOf(t))
    BY <1>5, <1>7, <1>8 DEF StartRange
  <1>10. toRepair' = <<>> BY <1>1, <1>2 DEF FillTypes
  <1>11. OneToken'
    <2>1. CASE t.last > t.first BY <1>1, <1>2, <1>9, <1>10, <2>1 DEF OneToken
    <2>2. CASE ~ (t.last > t.first)
      <3>1. ~ large BY <1>6, <1>7, <2>2
      <3>2. Len(Append(<<>>, "completed")) = 1 OBVIOUS
      <3>3. reader' = "idle" /\ internal' = <<>> /\ Len(fromRepair') = 1 BY <1>2, <1>9, <2>2, <3>1, <3>2
      <3>. QED BY <1>1, <1>2, <1>10, <3>3 DEF OneToken
    <2>. QED BY <2>1, <2>2
  <1>12. Pieces' /\ \A n \in SpanOf(t) : \/ n \in InFlight'
                                         \/ large /\ (n - t.first + 1) % (IndexerBatch + 1) = 0
    <2>1. CASE large
      <3>1. PICK p \in Seq(SpanType) :
               /\ p = Split(t) /\ p # <<>> /\ p[1].first = t.first
               /\ \A i \in DOMAIN p : /\ t.first <= p[i].first /\ p[i].first < p[i].last
                                      /\ p[i].last - p[i].first <= IndexerBatch
               /\ \A n \in SpanOf(t) : \/ \E i \in DOMAIN p : n \in SpanOf(p[i])
                                       \/ (n - t.first + 1) % (IndexerBatch + 1) = 0
        BY <1>7, <2>1, SplitPieces
      <3>2. PICK w \in Seq(SpanType) : w = Tail(p)
        <4>1. \A s \in Seq(SpanType) : s # <<>> => Tail(s) \in Seq(SpanType) OBVIOUS
        <4>. QED BY <3>1, <4>1
      <3>3. /\ \A k \in DOMAIN w : k + 1 \in DOMAIN p /\ w[k] = p[k + 1]
            /\ \A i \in DOMAIN p : i # 1 => i - 1 \in DOMAIN w /\ w[i - 1] = p[i]
            /\ 1 \in DOMAIN p
        BY <3>1, <3>2
      <3>4. internal' = w /\ task' = p[1] /\ next' = p[1].first BY <1>9, <2>1, <3>1, <3>2
      <3>5. Pieces'
        <4>. SUFFICES ASSUME NEW k \in DOMAIN w PROVE Piece(w[k])
          BY <3>4 DEF Pieces, Piece
        <4>1. PICK q \in SpanType : q = p[k + 1] BY <3>3
        <4>2. t.first <= q.first /\ q.first < q.last /\ q.last - q.first <= IndexerBatch BY <3>1, <3>3, <4>1
        <4>3. q.first >= RepairBegin BY <1>5, <1>6, <4>2, RepairAssumption DEF SpanType
        <4>. QED BY <3>3, <4>1, <4>2, <4>3 DEF Piece
      <3>6. reader' = "busy" BY <1>6, <1>7, <1>9, <2>1
      <3>7. ASSUME NEW i \in DOMAIN p, NEW n \in SpanOf(p[i]) PROVE n \in InFlight'
        <4>1. CASE i = 1 BY <3>4, <3>6, <3>7, <4>1 DEF InFlight, SpanOf
        <4>2. CASE i # 1
          <5>1. i - 1 \in DOMAIN w /\ n \in SpanOf(w[i - 1]) BY <3>3, <3>7, <4>2
          <5>2. n \in UNION {SpanOf(w[k]) : k \in DOMAIN w} BY <5>1
          <5>. QED BY <3>4, <3>6, <5>2 DEF InFlight
        <4>. QED BY <4>1, <4>2
      <3>. QED BY <2>1, <3>1, <3>5, <3>7
    <2>2. CASE ~ large
      <3>1. Pieces' BY <1>9, <2>2 DEF Pieces
      <3>2. ASSUME NEW n \in SpanOf(t) PROVE n \in InFlight'
        <4>1. n \in t.first .. (t.last - 1) BY DEF SpanOf
        <4>2. t.last > t.first BY <1>6, <4>1
        <4>3. reader' = "busy" /\ task' = t /\ next' = t.first BY <1>9, <2>2, <4>2
        <4>. QED BY <4>1, <4>3 DEF InFlight
      <3>. QED BY <3>1, <3>2
    <2>. QED BY <2>1, <2>2
  <1>13. Keeps
    <2>. SUFFICES ASSUME NEW r \in GapType, InHand(r) PROVE InHand(r)' BY <1>1, <1>9 DEF Keeps
    <2>1. Over(r) \subseteq Over(r)' BY <1>1, <1>9, OverGrows
    <2>2. RangeOf(r)' = RangeOf(r) BY DEF RangeOf
    <2>3. CASE \E k \in DOMAIN toRepair : toRepair[k] = Asked(r)
      <3>1. a = Asked(r) BY <1>2, <1>4, <2>3 DEF FillTypes
      <3>2. RangeOf(r) = SpanOf(a) BY <3>1, AskedSpan
      <3>3. ASSUME NEW n \in SpanOf(t), large, (n - t.first + 1) % (IndexerBatch + 1) = 0
            PROVE  n \in SkippedBySplit(r)
        <4>1. t = Trim([first |-> r.start, last |-> r.end + 1]) BY <1>5, <3>1 DEF Asked
        <4>2. SkippedBySplit(r) = IF t.last - t.first <= IndexerBatch THEN {}
                 ELSE {m \in SpanOf(t) : (m - t.first + 1) % (IndexerBatch + 1) = 0}
          BY <4>1, Zenon DEF SkippedBySplit
        <4>3. ~ (t.last - t.first <= IndexerBatch) BY <1>6, <1>7, <3>3
        <4>. QED BY <3>3, <4>2, <4>3
      <3>4. SkippedBySplit(r) \subseteq Over(r)' /\ lost' \subseteq Over(r)' BY DEF Over, SkippedBySplit
      <3>5. ASSUME NEW n \in SpanOf(a) PROVE n \in Over(r)' \/ n \in InFlight'
        <4>1. CASE n \in SpanOf(t) BY <1>12, <3>3, <3>4, <4>1
        <4>2. CASE n \notin SpanOf(t) BY <1>9, <3>4, <4>2
        <4>. QED BY <4>1, <4>2
      <3>. QED BY <2>2, <3>2, <3>5 DEF InHand
    <2>4. CASE \E k \in DOMAIN pending : pending[k] = r BY <1>1, <2>4 DEF InHand
    <2>5. CASE RangeOf(r) \subseteq Over(r) \cup InFlight
      <3>1. InFlight = {} BY <1>2 DEF InFlight
      <3>. QED BY <2>1, <2>2, <2>5, <3>1 DEF InHand
    <2>. QED BY <2>3, <2>4, <2>5 DEF InHand
  <1>. QED BY <1>11, <1>12, <1>13

\* The reader goes on with its next piece, or answers.
LEMMA RangeCompletedKeeps ==
  ASSUME FillTypes, OneToken, Pieces, RangeCompleted
  PROVE  OneToken' /\ Pieces' /\ Keeps
  <1>1. reader = "busy" /\ next >= task.last /\ UNCHANGED <<pending, answered, toRepair, fresh>>
    BY DEF RangeCompleted, fillVars
  <1>2. toRepair = <<>> /\ fromRepair = <<>> /\ ~ answered BY <1>1 DEF OneToken
  <1>3. next .. (task.last - 1) = {} BY <1>1 DEF FillTypes, SpanType
  <1>4. ASSUME lost' = lost, InFlight \subseteq InFlight' PROVE Keeps
    <2>. SUFFICES ASSUME NEW r \in GapType, InHand(r) PROVE InHand(r)' BY <1>1, <1>4 DEF Keeps
    <2>1. Over(r) \subseteq Over(r)' BY <1>1, <1>4, OverGrows
    <2>2. Asked(r)' = Asked(r) /\ RangeOf(r)' = RangeOf(r) BY DEF Asked, RangeOf
    <2>. QED BY <1>1, <1>4, <2>1, <2>2 DEF InHand
  <1>5. CASE internal = <<>>
    <2>1. reader' = "idle" /\ fromRepair' = Append(fromRepair, "completed") /\ internal' = internal
          /\ lost' = lost
      BY <1>5 DEF RangeCompleted
    <2>2. InFlight = {} BY <1>3, <1>5 DEF InFlight
    <2>3. Len(Append(<<>>, "completed")) = 1 OBVIOUS
    <2>4. Len(fromRepair') = 1 BY <1>2, <2>1, <2>3
    <2>5. OneToken' BY <1>1, <1>2, <1>5, <2>1, <2>4 DEF OneToken
    <2>. QED BY <1>4, <2>1, <2>2, <2>5 DEF Pieces
  <1>6. CASE internal # <<>>
    <2>1. Head(internal) \in SpanType /\ Tail(internal) \in Seq(SpanType) BY <1>6 DEF FillTypes
    <2>2. PICK s \in Seq(SpanType), h \in SpanType, w \in Seq(SpanType) :
             s = internal /\ h = Head(internal) /\ w = Tail(internal)
      BY <2>1 DEF FillTypes
    <2>3. /\ 1 \in DOMAIN s /\ h = s[1]
          /\ \A k \in DOMAIN w : k + 1 \in DOMAIN s /\ w[k] = s[k + 1]
          /\ \A i \in DOMAIN s : i # 1 => i - 1 \in DOMAIN w /\ w[i - 1] = s[i]
      BY <1>6, <2>2
    <2>4. h.last - h.first <= IndexerBatch /\ h.first >= RepairBegin /\ h.first < h.last
      BY <2>2, <2>3 DEF Pieces, Piece
    <2>5. PICK t \in SpanType : t = Trim(h) /\ t.last = h.last /\ t.first = h.first
      BY <2>4, TrimSpan
    <2>6. ~ (t.last - t.first > IndexerBatch) /\ t.last > t.first
      BY <2>4, <2>5, RepairAssumption DEF SpanType
    <2>7. StartRange(h, w) BY <1>6, <2>2 DEF RangeCompleted
    <2>8. /\ task' = t /\ next' = t.first /\ internal' = w /\ reader' = "busy" /\ fromRepair' = fromRepair
          /\ lost' = lost \cup (SpanOf(h) \ SpanOf(t))
      BY <2>5, <2>6, <2>7 DEF StartRange
    <2>9. SpanOf(h) = SpanOf(t) BY <2>5 DEF SpanOf
    <2>10. lost' = lost BY <2>8, <2>9
    <2>11. ASSUME NEW i \in DOMAIN s, NEW n \in SpanOf(s[i]) PROVE n \in InFlight'
      <3>1. CASE i = 1
        <4>1. n \in SpanOf(t) BY <2>3, <2>9, <2>11, <3>1
        <4>. QED BY <2>8, <4>1 DEF InFlight, SpanOf
      <3>2. CASE i # 1
        <4>1. i - 1 \in DOMAIN w /\ n \in SpanOf(w[i - 1]) BY <2>3, <2>11, <3>2
        <4>2. n \in UNION {SpanOf(w[k]) : k \in DOMAIN w} BY <4>1
        <4>. QED BY <2>8, <4>2 DEF InFlight
      <3>. QED BY <3>1, <3>2
    <2>12. InFlight \subseteq InFlight' BY <1>1, <1>3, <2>2, <2>11 DEF InFlight
    <2>13. OneToken' BY <1>1, <1>2, <2>8 DEF OneToken
    <2>14. Pieces'
      <3>1. \A k \in DOMAIN w : Piece(w[k]) BY <2>2, <2>3 DEF Pieces
      <3>. QED BY <2>8, <3>1 DEF Pieces, Piece
    <2>. QED BY <1>4, <2>10, <2>12, <2>13, <2>14
  <1>. QED BY <1>5, <1>6

\* A message of the tool: as no request meets a busy reader, every line of it is in hand.
LEMMA SendKeeps ==
  ASSUME FillTypes, OneToken, Pieces, NEW l \in Nat, Send(l), ~ overlapped', line' = l,
         \A i \in DOMAIN file : i <= l => RangeOf(file[i]) \subseteq Over(file[i])
  PROVE  OneToken' /\ Pieces' /\ Lines'
  <1>1. /\ phase' = "waiting" /\ file' = file
        /\ UNCHANGED <<task, next, internal, fromRepair, fresh>>
    BY DEF Send
  <1>2. reader # "busy" /\ toRepair = <<>> /\ fromRepair = <<>> BY DEF Send, ReaderBusy
  <1>3. internal = <<>> BY <1>2 DEF OneToken
  <1>4. reader' # "busy" BY <1>2 DEF Send
  <1>5. lost \subseteq lost' /\ Passed(Backwards(Message(file, l))) BY SendGives
  <1>6. Message(file, l) \in Seq(GapType)
        /\ \A i \in DOMAIN file : l < i /\ i <= l + ChunkSize =>
              i - l \in DOMAIN Message(file, l) /\ Message(file, l)[i - l] = file[i]
    BY MessageLines DEF FillTypes
  <1>7. PICK s \in Seq(GapType) : s = Message(file, l) BY <1>6
  <1>8. PICK ranges \in Seq(GapType) :
           /\ ranges = Backwards(s)
           /\ \A i \in DOMAIN s : \/ \E k \in DOMAIN ranges : ranges[k] = s[i]
                                  \/ RangeOf(s[i]) = {}
    BY BackwardsKeeps
  <1>9. \A r : Over(r) \subseteq Over(r)' /\ lost' \subseteq Over(r)'
    <2>1. \A r : Over(r) \subseteq Over(r)' BY <1>1, <1>5, OverGrows
    <2>2. \A r : lost' \subseteq Over(r)' BY DEF Over
    <2>. QED BY <2>1, <2>2
  <1>10. ASSUME NEW i \in DOMAIN file, i <= l + ChunkSize PROVE InHand(file[i])'
    <2>1. PICK r \in GapType : r = file[i] BY DEF FillTypes
    <2>2. RangeOf(r)' = RangeOf(r) /\ Asked(r)' = Asked(r) BY DEF RangeOf, Asked
    <2>3. CASE i <= l
      <3>1. RangeOf(r) \subseteq Over(r) BY <2>1, <2>3
      <3>2. InHand(r)' BY <1>9, <2>2, <3>1 DEF InHand
      <3>. QED BY <1>1, <2>1, <3>2
    <2>4. CASE ~ (i <= l)
      <3>1. PICK k \in DOMAIN s : s[k] = r
        <4>1. l < i BY <2>4 DEF FillTypes
        <4>. QED BY <1>6, <1>7, <1>10, <2>1, <4>1
      <3>2. CASE RangeOf(r) = {}
        <4>1. InHand(r)' BY <2>2, <3>2 DEF InHand
        <4>. QED BY <1>1, <2>1, <4>1
      <3>3. CASE \E j \in DOMAIN ranges : ranges[j] = r
        <4>1. \/ \E j \in DOMAIN pending' : pending'[j] = r
              \/ \E j \in DOMAIN toRepair' : toRepair'[j] = Asked(r)
              \/ RangeOf(r) \subseteq lost'
          BY <1>5, <1>7, <1>8, <3>3 DEF Passed
        <4>2. InHand(r)' BY <1>9, <2>2, <4>1 DEF InHand
        <4>. QED BY <1>1, <2>1, <4>2
      <3>. QED BY <1>8, <3>1, <3>2, <3>3
    <2>. QED BY <2>3, <2>4
  <1>11. Lines'
    <2>1. \A i \in DOMAIN file' : i <= line' => RangeOf(file[i]) \subseteq Over(file[i])'
      BY <1>1, <1>9
    <2>2. \A i \in DOMAIN file' : i <= line' + ChunkSize => InHand(file[i])' BY <1>1, <1>10
    <2>. QED BY <1>1, <2>1, <2>2 DEF Lines
  <1>12. OneToken'
    <2>1. CASE reader = "none"
      <3>1. reader' = "starting" /\ answered' = FALSE /\ toRepair' = toRepair BY <2>1 DEF Send
      <3>. QED BY <1>1, <1>2, <1>3, <3>1 DEF OneToken
    <2>2. CASE reader # "none"
      <3>1. reader' = reader /\ SendPending(ranges, FALSE, TRUE) BY <1>7, <1>8, <2>2 DEF Send, Message
      <3>2. CASE ranges = <<>>
        <4>1. pending' = <<>> /\ toRepair' = <<>> BY <1>2, <3>1, <3>2 DEF SendPending
        <4>. QED BY <1>1, <1>2, <1>3, <2>2, <3>1, <4>1 DEF OneToken
      <3>3. CASE ranges # <<>>
        <4>1. answered' = FALSE BY <3>1, <3>3 DEF SendPending
        <4>2. toRepair' = <<>> \/ (reader = "idle" /\ Len(toRepair') = 1)
          <5>1. PICK h : h = [first |-> Head(ranges).start, last |-> Head(ranges).end + 1] OBVIOUS
          <5>2. \/ reader \in {"idle", "busy"} /\ toRepair' = Append(toRepair, h)
                \/ toRepair' = toRepair
            BY <3>1, <3>3, <5>1 DEF SendPending
          <5>3. Len(Append(<<>>, h)) = 1 OBVIOUS
          <5>. QED BY <1>2, <5>2, <5>3
        <4>. QED BY <1>1, <1>2, <1>3, <2>2, <3>1, <4>1, <4>2 DEF OneToken
      <3>. QED BY <3>2, <3>3
    <2>. QED BY <2>1, <2>2
  <1>. QED BY <1>1, <1>3, <1>11, <1>12 DEF Pieces

\* An answer stands for every range of the message.
LEMMA AnswerMeansOver ==
  ASSUME FillTypes, OneToken, answered, NEW r, InHand(r)
  PROVE  RangeOf(r) \subseteq Over(r)
  <1>1. pending = <<>> /\ toRepair = <<>> /\ InFlight = {} BY DEF OneToken, InFlight
  <1>. QED BY <1>1 DEF InHand

LEMMA DoneStep ==
  ASSUME OrphanInv, FillTypes, DoneInv, [RepairNext]_repairVars
  PROVE  DoneInv'
  <1>. SUFFICES ASSUME ~ overlapped' PROVE OneToken' /\ Pieces' /\ Lines' BY DEF DoneInv
  <1>0. OneToken /\ Pieces /\ Lines
    <2>1. overlapped' = overlapped \/ \E l : Send(l)
      BY DEF RepairNext, Tool, Master, Reader, Damage, FillMissing, DeleteHistory, DeleteAccounts, DeleteRows,
             DeleteBlocks, DeleteFails, FirstChunk, NextChunk, LastChunk, Finish, Interrupt, ResumeFill,
             OtherSessionCloses, OnReaderMessage, OnDisconnect, RelaunchRepair, Ready, OnNewRange, RepairBlock,
             RangeCompleted, Crash, repairVars, history
    <2>2. ~ overlapped BY <2>1 DEF Send
    <2>. QED BY <2>2 DEF DoneInv
  <1>1. ASSUME UNCHANGED <<pending, answered, readerVars, fromRepair, fresh, lost>>
        PROVE  /\ OneToken' /\ Pieces' /\ \A r : Over(r)' = Over(r)
               /\ \A r : InHand(r)' <=> InHand(r)
    <2>1. UNCHANGED <<reader, task, next, internal, toRepair>> BY <1>1 DEF readerVars
    <2>2. OneToken' BY <1>0, <1>1, <2>1 DEF OneToken
    <2>3. Pieces' BY <1>0, <2>1 DEF Pieces
    <2>4. \A r : Over(r)' = Over(r) BY <1>1 DEF Over, SkippedBySplit
    <2>5. InFlight' = InFlight BY <2>1 DEF InFlight
    <2>6. \A r : RangeOf(r)' = RangeOf(r) /\ Asked(r)' = Asked(r) BY DEF RangeOf, Asked
    <2>7. \A r : InHand(r)' <=> InHand(r) BY <1>1, <2>1, <2>4, <2>5, <2>6 DEF InHand
    <2>. QED BY <2>2, <2>3, <2>4, <2>7
  <1>2. CASE Damage \/ DeleteHistory \/ DeleteAccounts \/ DeleteRows \/ DeleteFails
    <2>1. /\ UNCHANGED <<pending, answered, readerVars, fromRepair, fresh, lost>>
          /\ UNCHANGED <<file, line>> /\ phase' \notin {"waiting", "done"}
      BY <1>2 DEF Damage, DeleteHistory, DeleteAccounts, DeleteRows, DeleteFails, fillVars, history
    <2>. QED BY <1>0, <1>1, <2>1 DEF Lines
  <1>3. CASE FillMissing \/ DeleteBlocks
    <2>1. /\ UNCHANGED <<pending, answered, readerVars, fromRepair, fresh, lost>>
          /\ line' = line /\ phase \in {"damaged", "deletingBlocks"} /\ phase' = "filling"
      BY <1>3 DEF FillMissing, DeleteBlocks, fillVars, history
    <2>2. line' = 0 BY <2>1 DEF FillTypes, Deleting
    <2>3. file' \in Seq(GapType) BY FillStep DEF FillTypes
    <2>4. \A i \in DOMAIN file' : ~ (i <= line') BY <2>2, <2>3
    <2>. QED BY <1>1, <2>1, <2>4 DEF Lines
  <1>4. CASE FirstChunk
    <2>1. Send(line) /\ line' = line BY <1>4 DEF FirstChunk
    <2>2. PICK l \in Nat : l = line BY DEF FillTypes
    <2>3. \A i \in DOMAIN file : i <= l => RangeOf(file[i]) \subseteq Over(file[i])
      BY <1>0, <2>2 DEF Lines
    <2>. QED BY <1>0, <2>1, <2>2, <2>3, SendKeeps
  <1>5. ASSUME answered, phase = "waiting"
        PROVE  \A i \in DOMAIN file : i <= line + ChunkSize => RangeOf(file[i]) \subseteq Over(file[i])
    BY <1>0, <1>5, AnswerMeansOver DEF Lines
  <1>6. CASE NextChunk
    <2>1. PICK l \in Nat : l = line + ChunkSize BY RepairAssumption DEF FillTypes
    <2>2. Send(l) /\ line' = l /\ answered /\ phase = "waiting" BY <1>6, <2>1 DEF NextChunk
    <2>3. \A i \in DOMAIN file : i <= l => RangeOf(file[i]) \subseteq Over(file[i])
      BY <1>5, <2>1, <2>2
    <2>. QED BY <1>0, <2>2, <2>3, SendKeeps
  <1>7. CASE LastChunk
    <2>1. /\ UNCHANGED <<pending, reader, task, next, internal, toRepair, fromRepair, fresh, lost, file>>
          /\ phase' = "filling" /\ answered' = FALSE /\ line' = line + ChunkSize
          /\ answered /\ phase = "waiting"
      BY <1>7 DEF LastChunk, readerVars, history
    <2>2. OneToken' BY <1>0, <2>1 DEF OneToken
    <2>3. Pieces' BY <1>0, <2>1 DEF Pieces
    <2>4. \A r : Over(r)' = Over(r) BY <2>1 DEF Over, SkippedBySplit
    <2>5. \A i \in DOMAIN file' : i <= line' => RangeOf(file[i]) \subseteq Over(file[i])' BY <1>5, <2>1, <2>4
    <2>. QED BY <2>1, <2>2, <2>3, <2>5 DEF Lines
  <1>8. CASE Finish
    <2>1. /\ UNCHANGED <<pending, answered, readerVars, fromRepair, fresh, lost>>
          /\ UNCHANGED <<file, line>> /\ phase' = "done" /\ line >= Len(file)
      BY <1>8 DEF Finish, history
    <2>. QED BY <1>0, <1>1, <2>1 DEF Lines
  <1>9. CASE Interrupt
    <2>1. /\ UNCHANGED <<pending, reader, task, next, internal, toRepair, fromRepair, fresh, lost, file, line>>
          /\ phase' = "stopped" /\ answered' = FALSE
      BY <1>9 DEF Interrupt, readerVars
    <2>2. OneToken' BY <1>0, <2>1 DEF OneToken
    <2>3. Pieces' BY <1>0, <2>1 DEF Pieces
    <2>4. \A r : Over(r)' = Over(r) BY <2>1 DEF Over, SkippedBySplit
    <2>. QED BY <1>0, <2>1, <2>2, <2>3, <2>4 DEF Lines
  <1>10. CASE ResumeFill
    <2>1. /\ UNCHANGED <<pending, answered, readerVars, fromRepair, fresh, lost>>
          /\ file' = file /\ phase = "stopped" /\ phase' = "filling"
          /\ line' = IF saved < Len(file) THEN saved ELSE 0
      BY <1>10 DEF ResumeFill, fillVars, history
    <2>2. line' <= line /\ line' \in Int BY <2>1 DEF FillTypes
    <2>3. \A i \in DOMAIN file : i <= line' => i <= line BY <2>2 DEF FillTypes
    <2>4. \A i \in DOMAIN file' : i <= line' => RangeOf(file[i]) \subseteq Over(file[i])'
      BY <1>0, <1>1, <2>1, <2>3 DEF Lines
    <2>. QED BY <1>1, <2>1, <2>4 DEF Lines
  <1>11. CASE UNCHANGED repairVars
    <2>1. /\ UNCHANGED <<pending, answered, readerVars, fromRepair, fresh, lost>>
          /\ UNCHANGED <<file, line, phase>>
      BY <1>11 DEF repairVars, toolVars, fillVars, history
    <2>. QED BY <1>0, <1>1, <2>1 DEF Lines
  <1>12. CASE Master \/ Reader \/ OtherSessionCloses \/ Crash
    <2>1. UNCHANGED <<phase, file, line>>
      BY <1>12 DEF Master, Reader, OnReaderMessage, OnDisconnect, RelaunchRepair, OtherSessionCloses,
                   Ready, OnNewRange, RepairBlock, RangeCompleted, Crash, toolVars
    <2>2. OneToken' /\ Pieces' /\ Keeps
      BY <1>0, <1>12, OnReaderMessageKeeps, LifeKeeps, OnNewRangeKeeps, RepairBlockKeeps,
         RangeCompletedKeeps, CrashKeeps
         DEF Master, Reader
    <2>. QED BY <1>0, <2>1, <2>2, LinesKept
  <1>. QED BY <1>2, <1>3, <1>4, <1>6, <1>7, <1>8, <1>9, <1>10, <1>11, <1>12 DEF RepairNext, Tool

\* When hyp-repair is done, every block of its file was read again, was lost with a reader that
\* died, is older than SHIP's history, or lies between two pieces of a range: interruptions
\* and restarts lose no line as long as no request meets a busy reader.
THEOREM DoneIsRead == RepairSpec => []DoneMeansRead
  <1>1. RepairInit => OrphanInv /\ FillTypes /\ DoneInv
    <2>. SUFFICES ASSUME RepairInit PROVE OrphanInv /\ FillTypes /\ DoneInv OBVIOUS
    <2>1. OrphanInv 
      BY ScanAssumption DEF RepairInit, OrphanInv, NoOrphans, Indexes, Kinds, Stored, Blocks, Deleting
    <2>2. FillTypes
      <3>1. NoJob \in SpanType BY DEF NoJob, SpanType
      <3>2. /\ file = <<>> /\ pending = <<>> /\ toRepair = <<>> /\ internal = <<>> /\ fromRepair = <<>>
            /\ task = NoJob /\ next = 0 /\ line = 0 /\ answered = FALSE /\ overlapped = FALSE
            /\ phase = "fresh"
        BY DEF RepairInit
      <3>3. file \in Seq(GapType) /\ pending \in Seq(GapType) /\ toRepair \in Seq(SpanType)
            /\ internal \in Seq(SpanType) /\ fromRepair \in Seq(Answers)
        BY <3>2
      <3>4. task \in SpanType BY <3>1, <3>2
      <3>5. answered \in BOOLEAN /\ overlapped \in BOOLEAN BY <3>2
      <3>6. next \in Int /\ line \in Nat /\ line = 0 /\ phase # "stopped" BY <3>2
      <3>. QED BY <3>3, <3>4, <3>5, <3>6 DEF FillTypes
    <2>3. DoneInv BY DEF RepairInit, DoneInv, OneToken, Pieces, Lines
    <2>. QED BY <2>1, <2>2, <2>3
  <1>2. OrphanInv /\ FillTypes /\ DoneInv /\ [RepairNext]_repairVars => (OrphanInv /\ FillTypes /\ DoneInv)'
    BY OrphanStep, FillStep, DoneStep
  <1>3. FillTypes /\ DoneInv => DoneMeansRead
    <2>. SUFFICES ASSUME FillTypes, DoneInv, phase = "done", ~ overlapped, NEW i \in DOMAIN file
                  PROVE  RangeOf(file[i]) \subseteq fresh \cup lost \cup SkippedBySplit(file[i])
      BY DEF DoneMeansRead
    <2>1. Lines BY DEF DoneInv
    <2>2. i <= line BY <2>1 DEF Lines, FillTypes
    <2>. QED BY <2>1, <2>2 DEF Lines, Over
  <1>. QED BY <1>1, <1>2, <1>3, PTL DEF RepairSpec

-----------------------------------------------------------------------------
(* Sorting by rank *)

\* S has finitely many numbers.
Numbers(S) == \E n \in Int : S \in SUBSET (1 .. n)

\* The ranks of a set of numbers are 0, 1, ... in its order.
LEMMA RanksAre ==
  ASSUME NEW S, Numbers(S), NEW sort
  PROVE  /\ IsFiniteSet(S) /\ Cardinality(S) \in Nat
         /\ \A k \in S : Rank(S, sort, k) \in 0 .. Cardinality(S) - 1
         /\ \A j, k \in S : Before(sort, j, k) <=> Rank(S, sort, j) < Rank(S, sort, k)
         /\ \A j, k \in S : Rank(S, sort, j) = Rank(S, sort, k) => j = k
  <1>1. IsFiniteSet(S) /\ Cardinality(S) \in Nat
    <2>1. PICK n \in Int : S \in SUBSET (1 .. n) BY DEF Numbers
    <2>2. IsFiniteSet(1 .. n) BY <2>1, FS_Interval
    <2>3. IsFiniteSet(S) BY <2>1, <2>2, FS_Subset
    <2>. QED BY <2>3, FS_CardinalityType
  <1>0. \A k \in S : k \in Int BY DEF Numbers
  <1>2. ASSUME NEW k \in S PROVE Rank(S, sort, k) \in 0 .. Cardinality(S) - 1
    <2>1. PICK T : T = {j \in S : Before(sort, j, k)} OBVIOUS
    <2>2. T \in SUBSET (S \ {k}) BY <1>0, <2>1 DEF Before
    <2>3. IsFiniteSet(S \ {k}) /\ Cardinality(S \ {k}) = Cardinality(S) - 1 BY <1>1, FS_RemoveElement
    <2>4. Cardinality(T) <= Cardinality(S) - 1 /\ Cardinality(T) \in Nat
      <3>1. IsFiniteSet(T) /\ Cardinality(T) <= Cardinality(S \ {k}) BY <2>2, <2>3, FS_Subset
      <3>. QED BY <2>3, <3>1, FS_CardinalityType
    <2>. QED BY <1>1, <2>1, <2>4 DEF Rank
  <1>3. ASSUME NEW j \in S, NEW k \in S, Before(sort, j, k) PROVE Rank(S, sort, j) < Rank(S, sort, k)
    <2>1. PICK T, U : T = {i \in S : Before(sort, i, j)} /\ U = {i \in S : Before(sort, i, k)} OBVIOUS
    <2>2. T \in SUBSET U /\ j \in U /\ j \notin T
      <3>1. \A i \in S : Before(sort, i, j) => Before(sort, i, k) BY <1>0, <1>3 DEF Before
      <3>2. ~Before(sort, j, j) BY <1>0 DEF Before
      <3>. QED BY <1>3, <2>1, <3>1, <3>2
    <2>3. U \in SUBSET S BY <2>1
    <2>4. IsFiniteSet(U) BY <1>1, <2>3, FS_Subset
    <2>5. /\ IsFiniteSet(T) /\ Cardinality(T) <= Cardinality(U) /\ Cardinality(T) # Cardinality(U)
      BY <2>2, <2>4, FS_Subset
    <2>6. Cardinality(T) \in Nat /\ Cardinality(U) \in Nat BY <2>4, <2>5, FS_CardinalityType
    <2>. QED BY <2>1, <2>5, <2>6 DEF Rank
  <1>4. \A j, k \in S : j = k \/ Before(sort, j, k) \/ Before(sort, k, j) BY <1>0 DEF Before
  <1>5. ASSUME NEW j \in S, NEW k \in S PROVE Before(sort, j, k) <=> Rank(S, sort, j) < Rank(S, sort, k)
    BY <1>2, <1>3, <1>4
  <1>6. ASSUME NEW j \in S, NEW k \in S, Rank(S, sort, j) = Rank(S, sort, k) PROVE j = k
    BY <1>2, <1>3, <1>4, <1>6
  <1>. QED BY <1>1, <1>2, <1>5, <1>6

\* Every rank is some member's.
LEMMA RankIsTaken ==
  ASSUME NEW S, Numbers(S), NEW sort, NEW i \in 0 .. Cardinality(S) - 1
  PROVE  \E k \in S : Rank(S, sort, k) = i
  <1>1. PICK f : f = [k \in S |-> Rank(S, sort, k)] OBVIOUS
  <1>2. PICK c : c = Cardinality(S) /\ c \in Nat BY RanksAre
  <1>3. f \in [S -> 0 .. c - 1] /\ \A j, k \in S : f[j] = f[k] => j = k BY <1>1, <1>2, RanksAre
  <1>4. f \in Injection(S, 0 .. c - 1) BY <1>3 DEF Injection, IsInjective
  <1>5. IsFiniteSet(0 .. c - 1) /\ Cardinality(0 .. c - 1) = c BY <1>2, FS_Interval
  <1>6. f \in Surjection(S, 0 .. c - 1) BY <1>2, <1>4, <1>5, FS_Injection
  <1>7. \E k \in S : f[k] = i BY <1>2, <1>6 DEF Surjection
  <1>. QED BY <1>1, <1>7

\* Of the sorted sequence, the i-th has rank i - 1.
LEMMA SortedIs ==
  ASSUME NEW S, Numbers(S), NEW sort
  PROVE  /\ Sorted(S, sort) \in Seq(S) /\ Len(Sorted(S, sort)) = Cardinality(S) /\ Cardinality(S) \in Nat
         /\ \A i \in 1 .. Cardinality(S) :
               Sorted(S, sort)[i] \in S /\ Rank(S, sort, Sorted(S, sort)[i]) = i - 1
  <1>1. PICK c : c = Cardinality(S) /\ c \in Nat BY RanksAre
  <1>2. PICK s : s = Sorted(S, sort) OBVIOUS
  <1>3. s = [i \in 1 .. c |-> CHOOSE k \in S : Rank(S, sort, k) = i - 1] BY <1>1, <1>2 DEF Sorted
  <1>4. ASSUME NEW i \in 1 .. c PROVE s[i] \in S /\ Rank(S, sort, s[i]) = i - 1
    <2>1. i - 1 \in 0 .. Cardinality(S) - 1 BY <1>1
    <2>2. \E k \in S : Rank(S, sort, k) = i - 1 BY <2>1, RankIsTaken
    <2>. QED BY <1>3, <2>2
  <1>5. s \in Seq(S) /\ Len(s) = c BY <1>1, <1>3, <1>4
  <1>. QED BY <1>1, <1>2, <1>4, <1>5

\* The members of the ranks from first to last are as many.
Ranked(S, sort, first, last) == {k \in S : Rank(S, sort, k) \in first .. last}

LEMMA BetweenRanks ==
  ASSUME NEW S, Numbers(S), NEW sort,
         NEW a \in Nat, NEW b \in Int, b <= Cardinality(S) - 1
  PROVE  Cardinality(Ranked(S, sort, a, b)) = IF a > b THEN 0 ELSE b - a + 1
  <1>1. PICK T : T = {k \in S : Rank(S, sort, k) \in a .. b} /\ T = Ranked(S, sort, a, b) BY DEF Ranked
  <1>2. PICK f : f = [k \in T |-> Rank(S, sort, k)] OBVIOUS
  <1>3. Cardinality(S) \in Nat BY RanksAre
  <1>4. f \in [T -> a .. b] /\ \A j, k \in T : f[j] = f[k] => j = k
    <2>1. \A k \in T : k \in S /\ f[k] = Rank(S, sort, k) /\ f[k] \in a .. b BY <1>1, <1>2
    <2>2. \A j, k \in S : Rank(S, sort, j) = Rank(S, sort, k) => j = k BY RanksAre
    <2>. QED BY <1>2, <2>1, <2>2
  <1>5. ASSUME NEW i \in a .. b PROVE \E k \in T : f[k] = i
    <2>1. i \in 0 .. Cardinality(S) - 1 BY <1>3
    <2>2. PICK k \in S : Rank(S, sort, k) = i BY <2>1, RankIsTaken
    <2>. QED BY <1>1, <1>2, <2>2
  <1>6. f \in Injection(T, a .. b) BY <1>4 DEF Injection, IsInjective
  <1>7. f \in Surjection(T, a .. b) BY <1>4, <1>5 DEF Surjection
  <1>8. IsFiniteSet(a .. b) /\ Cardinality(a .. b) = IF a > b THEN 0 ELSE b - a + 1 BY FS_Interval
  <1>9. Cardinality(T) = Cardinality(a .. b) BY <1>6, <1>7, <1>8, FS_Injection
  <1>. QED BY <1>1, <1>8, <1>9

\* The ranks of those members among themselves begin at 0.
LEMMA RankedAgain ==
  ASSUME NEW S, Numbers(S), NEW sort, NEW first \in Nat, NEW last \in Int,
         NEW k \in Ranked(S, sort, first, last)
  PROVE  Rank(Ranked(S, sort, first, last), sort, k) = Rank(S, sort, k) - first
  <1>1. PICK T : T = Ranked(S, sort, first, last) OBVIOUS
  <1>2. PICK r : r = Rank(S, sort, k) OBVIOUS
  <1>3. k \in S /\ r \in first .. last /\ r \in 0 .. Cardinality(S) - 1 /\ Cardinality(S) \in Nat
    <2>1. k \in S /\ r \in first .. last BY <1>2 DEF Ranked
    <2>. QED BY <1>2, <2>1, RanksAre
  <1>4. {j \in T : Before(sort, j, k)} = {j \in S : Rank(S, sort, j) \in first .. r - 1}
    <2>1. \A j \in S : Rank(S, sort, j) \in Nat /\ (Before(sort, j, k) <=> Rank(S, sort, j) < r)
      <3>1. /\ \A j \in S : Rank(S, sort, j) \in 0 .. Cardinality(S) - 1
            /\ \A j, i \in S : Before(sort, j, i) <=> Rank(S, sort, j) < Rank(S, sort, i)
        BY RanksAre
      <3>. QED BY <1>2, <1>3, <3>1
    <2>2. T = {j \in S : Rank(S, sort, j) \in first .. last} BY <1>1 DEF Ranked
    <2>3. \A j \in S : Rank(S, sort, j) \in first .. last /\ Before(sort, j, k) <=> Rank(S, sort, j) \in first .. r - 1
      BY <1>3, <2>1
    <2>. QED BY <2>2, <2>3
  <1>5. PICK b \in Int : b = r - 1 /\ b <= Cardinality(S) - 1 BY <1>3
  <1>6. Cardinality(Ranked(S, sort, first, b)) = IF first > b THEN 0 ELSE b - first + 1
    BY <1>5, BetweenRanks
  <1>7. Rank(T, sort, k) = r - first
    <2>1. Rank(T, sort, k) = IF first > b THEN 0 ELSE b - first + 1 BY <1>4, <1>5, <1>6 DEF Rank, Ranked
    <2>. QED BY <1>3, <1>5, <2>1
  <1>. QED BY <1>1, <1>2, <1>7

\* The end of the slice from first to last.
End(S, last) == IF last + 1 < Cardinality(S) THEN last + 1 ELSE Cardinality(S)

\* A slice of the sorted sequence is the sorted sequence of its ranks.
LEMMA SliceIsSorted ==
  ASSUME NEW S, Numbers(S), NEW sort, NEW first \in Nat, NEW last \in Int
  PROVE  SubSeq(Sorted(S, sort), first + 1, End(S, last)) = Sorted(Ranked(S, sort, first, last), sort)
  <1>1. PICK T : T = Ranked(S, sort, first, last) OBVIOUS
  <1>2. T \in SUBSET S /\ Numbers(T) BY <1>1 DEF Ranked, Numbers
  <1>3. PICK c : c = Cardinality(S) /\ c \in Nat BY RanksAre
  <1>0. PICK end \in Int : end = End(S, last) /\ end = IF last + 1 < c THEN last + 1 ELSE c BY <1>3 DEF End
  <1>4. PICK s, t : s = Sorted(S, sort) /\ t = Sorted(T, sort) OBVIOUS
  <1>5. s \in Seq(S) /\ Len(s) = c /\ \A i \in 1 .. c : s[i] \in S /\ Rank(S, sort, s[i]) = i - 1
    BY <1>3, <1>4, SortedIs
  <1>6. /\ t \in Seq(T) /\ Len(t) = Cardinality(T)
        /\ \A i \in 1 .. Cardinality(T) : t[i] \in T /\ Rank(T, sort, t[i]) = i - 1
    BY <1>2, <1>4, SortedIs
  <1>7. T = {k \in S : Rank(S, sort, k) \in first .. end - 1}
    <2>1. \A k \in S : Rank(S, sort, k) \in 0 .. c - 1 BY <1>3, RanksAre
    <2>2. \A k \in S : Rank(S, sort, k) \in first .. last <=> Rank(S, sort, k) \in first .. end - 1
      BY <1>0, <1>3, <2>1
    <2>. QED BY <1>1, <2>2 DEF Ranked
  <1>8. Cardinality(T) = IF first > end - 1 THEN 0 ELSE end - first
    <2>1. PICK b \in Int : b = end - 1 /\ b <= Cardinality(S) - 1 BY <1>0, <1>3
    <2>2. Cardinality(Ranked(S, sort, first, b)) = IF first > b THEN 0 ELSE b - first + 1
      BY <2>1, BetweenRanks
    <2>. QED BY <1>7, <2>1, <2>2 DEF Ranked
  <1>9. PICK u : u = SubSeq(s, first + 1, end) OBVIOUS
  <1>10. /\ u \in Seq(S) /\ Len(u) = Cardinality(T)
         /\ \A i \in 1 .. Cardinality(T) : u[i] = s[first + i] /\ first + i \in 1 .. c
    <2>1. \A i \in first + 1 .. end : s[i] \in S BY <1>0, <1>3, <1>5
    <2>2. /\ u \in Seq(S) /\ Len(u) = IF first + 1 <= end THEN end - (first + 1) + 1 ELSE 0
          /\ \A i \in 1 .. end - (first + 1) + 1 : u[i] = s[first + 1 + i - 1]
      BY <1>9, <2>1, SubSeqProperties
    <2>3. Len(u) = Cardinality(T) BY <1>8, <2>2
    <2>4. ASSUME NEW i \in 1 .. Cardinality(T) PROVE u[i] = s[first + i] /\ first + i \in 1 .. c
      <3>1. i \in 1 .. end - (first + 1) + 1 BY <1>8
      <3>2. first + 1 + i - 1 = first + i BY <3>1
      <3>. QED BY <1>0, <1>3, <2>2, <3>1, <3>2
    <2>. QED BY <2>2, <2>3, <2>4
  <1>11. ASSUME NEW i \in 1 .. Cardinality(T) PROVE u[i] = t[i]
    <2>1. u[i] \in S /\ Rank(S, sort, u[i]) = first + i - 1 BY <1>5, <1>10
    <2>2. t[i] \in T /\ t[i] \in S /\ Rank(T, sort, t[i]) = i - 1 BY <1>2, <1>6
    <2>3. PICK k : k = t[i] /\ k \in Ranked(S, sort, first, last) BY <1>1, <2>2
    <2>4. Rank(Ranked(S, sort, first, last), sort, k) = Rank(S, sort, k) - first BY <2>3, RankedAgain
    <2>5. Rank(T, sort, t[i]) = Rank(S, sort, t[i]) - first BY <1>1, <2>3, <2>4
    <2>6. Rank(S, sort, t[i]) \in Int /\ i \in Int
      <3>1. \A j \in S : Rank(S, sort, j) \in 0 .. Cardinality(S) - 1 BY RanksAre
      <3>. QED BY <2>2, <3>1
    <2>7. Rank(S, sort, t[i]) = first + i - 1 BY <2>2, <2>5, <2>6
    <2>8. \A j, m \in S : Rank(S, sort, j) = Rank(S, sort, m) => j = m BY RanksAre
    <2>. QED BY <2>1, <2>2, <2>7, <2>8
  <1>12. u = t BY <1>6, <1>10, <1>11
  <1>. QED BY <1>0, <1>1, <1>4, <1>9, <1>12

-----------------------------------------------------------------------------
(* Queries *)

\* h is a page of the store: the sorted sequence of its ranks.
PageIs(h, S, sort, from, size) ==
    /\ h = Sorted(Ranked(S, sort, from, from + size - 1), sort)
    /\ size >= 0 => Len(h) \in 0 .. size
    /\ size >= 0 /\ from + size <= Cardinality(S) =>
          h = SubSeq(Sorted(S, sort), from + 1, from + size) /\ Len(h) = size

LEMMA HitsAre ==
  ASSUME NEW S, Numbers(S), NEW r, NEW from \in Nat, NEW size \in Int
  PROVE  PageIs(Hits(r, from, size, S), S, r.sort, from, size)
  <1>1. PICK s : s = Sorted(S, r.sort) OBVIOUS
  <1>2. PICK c \in Nat : c = Cardinality(S) /\ Len(s) = c /\ s \in Seq(S) BY <1>1, SortedIs
  <1>3. PICK last \in Int : last = from + size - 1 OBVIOUS
  <1>4. PICK end \in Int : end = End(S, last) /\ end = IF last + 1 < c THEN last + 1 ELSE c
    BY <1>2, <1>3 DEF End
  <1>5. end = IF from + size < Len(s) THEN from + size ELSE Len(s) BY <1>2, <1>3, <1>4
  <1>6. PICK h : h = SubSeq(s, from + 1, end) OBVIOUS
  <1>7. Hits(r, from, size, S) = h BY <1>1, <1>5, <1>6 DEF Hits
  <1>8. h = Sorted(Ranked(S, r.sort, from, last), r.sort)
    <2>1. PICK o : o = r.sort OBVIOUS
    <2>2. SubSeq(Sorted(S, o), from + 1, end) = Sorted(Ranked(S, o, from, last), o) BY <1>4, SliceIsSorted
    <2>. QED BY <1>1, <1>6, <2>1, <2>2
  <1>9. Len(h) = IF from + 1 <= end THEN end - (from + 1) + 1 ELSE 0
    <2>1. \A i \in from + 1 .. end : s[i] \in S BY <1>2, <1>5
    <2>. QED BY <1>6, <2>1, SubSeqProperties
  <1>10. size >= 0 => Len(h) \in 0 .. size BY <1>2, <1>5, <1>9
  <1>11. from + size <= c => end = from + size BY <1>2, <1>5
  <1>12. size >= 0 /\ from + size <= c => Len(h) = size BY <1>9, <1>11
  <1>. QED BY <1>1, <1>2, <1>3, <1>6, <1>7, <1>8, <1>10, <1>11, <1>12 DEF PageIs

\* The forms of values that the query looks up as they are meant.
Plainly(v) ==
    /\ v.form \in {"range", "list", "words"}
    /\ v.form # "range" => \A p \in v.parts : p.not \in BOOLEAN
    /\ v.form = "list" => ~v.extended
    /\ v.form = "words" /\ (Memo(v) \/ Cardinality(v.parts) > 1) => Negated(v) = {}
    /\ v.form = "words" => Cardinality(v.parts) > 1 \/ Cardinality(v.parts) <= 1

\* Values in the query select what the values in the request ask for.
LEMMA ValueIsAsked ==
  ASSUME NEW v, NEW d, Plainly(v),
         NEW found, found = Field(IF v.extended THEN d.extended ELSE d.plain, v.prop)
  PROVE  HasValue(v, d) <=> IsAsked(v, found)
  <1>1. PICK plain : plain = Field(d.plain, v.prop) OBVIOUS
  <1>2. found = IF v.extended THEN Field(d.extended, v.prop) ELSE plain BY <1>1
  <1>3. v.form \in {"range", "list", "words"} BY DEF Plainly
  <1>4. CASE v.form = "range" BY <1>2, <1>4 DEF HasValue, IsAsked
  <1>5. CASE v.form = "list"
    <2>1. found = plain /\ \A p \in v.parts : p.not \in BOOLEAN BY <1>2, <1>5 DEF Plainly
    <2>2. HasValue(v, d) <=> /\ v.parts \ Negated(v) # {} => \E p \in v.parts \ Negated(v) : p.value \in plain
                             /\ \A p \in Negated(v) : p.value \notin plain
      BY <1>1, <1>5 DEF HasValue
    <2>3. IsAsked(v, found) <=>
            /\ \A p \in Negated(v) : Obeyed(p, found)
            /\ v.parts # Negated(v) => \E p \in v.parts \ Negated(v) : Obeyed(p, found)
      BY <1>5 DEF IsAsked
    <2>4. (\A p \in Negated(v) : p.not) /\ (\A p \in v.parts \ Negated(v) : ~p.not) /\ Negated(v) \subseteq v.parts
      BY <2>1 DEF Negated
    <2>5. v.parts \ Negated(v) # {} <=> v.parts # Negated(v) BY <2>4
    <2>. QED BY <2>1, <2>2, <2>3, <2>4, <2>5 DEF Obeyed
  <1>6. CASE v.form = "words"
    <2>1. \A p \in v.parts : p.not \in BOOLEAN /\ (p \in Negated(v) <=> p.not) BY <1>6 DEF Plainly, Negated
    <2>2. IsAsked(v, found) <=>
            IF Memo(v) THEN \E p \in v.parts : Obeyed(p, found)
            ELSE \A p \in v.parts : Obeyed(p, found)
      BY <1>6 DEF IsAsked
    <2>3. CASE Memo(v)
      <3>1. \A p \in v.parts : ~p.not BY <1>6, <2>1, <2>3 DEF Plainly
      <3>2. HasValue(v, d) <=> \E p \in v.parts : p.value \in found BY <1>1, <1>2, <1>6, <2>3 DEF HasValue
      <3>. QED BY <2>2, <2>3, <3>1, <3>2 DEF Obeyed
    <2>4. CASE ~Memo(v) /\ Cardinality(v.parts) > 1
      <3>1. \A p \in v.parts : ~p.not BY <1>6, <2>1, <2>4 DEF Plainly
      <3>2. ~(Cardinality(v.parts) <= 1) \/ Cardinality(v.parts) <= 1 OBVIOUS
      <3>3. CASE ~(Cardinality(v.parts) <= 1)
        <4>1. HasValue(v, d) <=> \A p \in v.parts : ~p.not /\ p.value \in found
          BY <1>1, <1>2, <1>6, <2>4, <3>3 DEF HasValue
        <4>. QED BY <2>2, <2>4, <3>1, <4>1 DEF Obeyed
      <3>4. CASE Cardinality(v.parts) <= 1
        <4>1. HasValue(v, d) <=> \/ \A p \in v.parts : ~p.not /\ p.value \in found
                                 \/ \A p \in v.parts : p.not <=> p.value \notin found
          BY <1>1, <1>2, <1>6, <2>4, <3>4 DEF HasValue
        <4>. QED BY <2>2, <2>4, <3>1, <4>1 DEF Obeyed
      <3>. QED BY <3>2, <3>3, <3>4
    <2>5. CASE ~Memo(v) /\ ~(Cardinality(v.parts) > 1)
      <3>1. Cardinality(v.parts) <= 1 BY <1>6, <2>5 DEF Plainly
      <3>2. HasValue(v, d) <=> \A p \in v.parts : p.not <=> p.value \notin found
        BY <1>1, <1>2, <1>6, <2>5, <3>1 DEF HasValue
      <3>. QED BY <2>1, <2>2, <2>5, <3>2 DEF Obeyed
    <2>. QED BY <2>3, <2>4, <2>5
  <1>. QED BY <1>3, <1>4, <1>5, <1>6

\* "*:*" is left out of the filters, and matches all.
LEMMA FilterIsAsked ==
  ASSUME NEW filters, IsFiniteSet(filters), NEW d,
         [code |-> "*", name |-> "*"] \in filters => Cardinality(filters) = 1
  PROVE  Filtered(filters, d) <=>
            (filters = {} \/ \E f \in filters : f.code \in {"*", d.code} /\ f.name \in {"*", d.name})
  <1>1. PICK all : all = [code |-> "*", name |-> "*"] OBVIOUS
  <1>2. CASE all \notin filters
    <2>1. {f \in filters : f # [code |-> "*", name |-> "*"]} = filters BY <1>1, <1>2
    <2>. QED BY <2>1 DEF Filtered
  <1>3. CASE all \in filters
    <2>1. PICK x : filters = {x} BY <1>1, <1>3, FS_Singleton
    <2>2. x = all /\ all.code = "*" /\ all.name = "*" BY <1>1, <1>3, <2>1
    <2>3. {f \in filters : f # [code |-> "*", name |-> "*"]} = {} BY <1>1, <2>1, <2>2
    <2>. QED BY <2>1, <2>2, <2>3 DEF Filtered
  <1>. QED BY <1>2, <1>3

\* The query of v2 matches what the request asks for.
LEMMA MatchIsAsked ==
  ASSUME NEW r \in HistoryRequests, r.version = 2, NEW n, Regular(r, n), NEW k
  PROVE  MatchesV2(r, k) <=> AskedFor(r, k)
  <1>1. PICK d : d = Actions[k] OBVIOUS
  <1>2. /\ IsFiniteSet(r.filters)
        /\ \A v \in r.values : Plainly(v)
        /\ [code |-> "*", name |-> "*"] \in r.filters => Cardinality(r.filters) = 1
    <2>1. ASSUME NEW v \in r.values PROVE Plainly(v)
      <3>1. v.form \in {"range", "list", "words"} /\ (v.form # "range" => \A p \in v.parts : p.not \in BOOLEAN)
        BY ApiAssumption
      <3>2. /\ v.form = "list" => ~v.extended
            /\ v.form = "words" /\ (Memo(v) \/ Cardinality(v.parts) > 1) => Negated(v) = {}
        BY DEF Regular
      <3>3. v.form = "words" => Cardinality(v.parts) \in Nat BY ApiAssumption, FS_CardinalityType
      <3>. QED BY <3>1, <3>2, <3>3 DEF Plainly
    <2>. QED BY <2>1, ApiAssumption DEF Regular
  <1>3. ASSUME NEW v \in r.values
        PROVE  HasValue(v, d) <=> IsAsked(v, Field(IF v.extended THEN d.extended ELSE d.plain, v.prop))
    BY <1>2, ValueIsAsked
  <1>4. Filtered(r.filters, d) <=>
            (r.filters = {} \/ \E f \in r.filters : f.code \in {"*", d.code} /\ f.name \in {"*", d.name})
    BY <1>2, FilterIsAsked
  <1>. QED BY <1>1, <1>3, <1>4, Zenon DEF MatchesV2, AskedFor

\* What a request asks for of the first n actions.
AskedOf(r, n) == {k \in 1 .. n : AskedFor(r, k)}

LEMMA ReferenceIs ==
  ASSUME NEW r, NEW n \in Int
  PROVE  /\ Numbers(AskedOf(r, n))
         /\ Reference(r, n) = Sorted(Ranked(AskedOf(r, n), r.sort, Window(r).first, Window(r).last), r.sort)
  BY DEF Reference, Ranked, AskedOf, Numbers

\* v2: skip and limit are the window.
LEMMA PagesAreExact ==
  ASSUME NEW r \in HistoryRequests, r.version = 2, ~Refused(r), NEW n \in Int, Regular(r, n)
  PROVE  AnswerV2(r, n) = Reference(r, n)
  <1>1. r.skip \in Nat /\ r.limit \in Int BY ApiAssumption DEF Refused
  <1>2. PICK size \in Int : size = PageSize(r) BY <1>1 DEF PageSize
  <1>3. {k \in 1 .. n : MatchesV2(r, k)} = AskedOf(r, n) BY MatchIsAsked DEF AskedOf
  <1>4. AnswerV2(r, n) = Hits(r, r.skip, size, AskedOf(r, n)) BY <1>2, <1>3 DEF AnswerV2
  <1>5. Hits(r, r.skip, size, AskedOf(r, n)) = Sorted(Ranked(AskedOf(r, n), r.sort, r.skip, r.skip + size - 1), r.sort)
    <2>0. PICK S : S = AskedOf(r, n) OBVIOUS
    <2>1. PICK skip \in Nat : skip = r.skip /\ S = AskedOf(r, n) BY <1>1, <2>0
    <2>2. Numbers(S) BY <2>1, ReferenceIs
    <2>3. PageIs(Hits(r, skip, size, S), S, r.sort, skip, size) BY <2>2, HitsAre
    <2>. QED BY <2>1, <2>3 DEF PageIs
  <1>6. Window(r).first = r.skip /\ Window(r).last = r.skip + size - 1 BY <1>2 DEF Window
  <1>. QED BY <1>4, <1>5, <1>6, ReferenceIs

\* A window of ranks before the first is empty, and one that begins before it is cut.
LEMMA RankedClips ==
  ASSUME NEW S, Numbers(S), NEW sort, NEW a \in Int, NEW b \in Int
  PROVE  /\ b < 0 => Ranked(S, sort, a, b) = {}
         /\ a <= 0 => Ranked(S, sort, a, b) = Ranked(S, sort, 0, b)
  <1>1. Cardinality(S) \in Nat /\ \A k \in S : Rank(S, sort, k) \in 0 .. Cardinality(S) - 1 BY RanksAre
  <1>2. \A k \in S : Rank(S, sort, k) \in Nat BY <1>1
  <1>3. b < 0 => \A k \in S : Rank(S, sort, k) \notin a .. b BY <1>2
  <1>4. a <= 0 => \A k \in S : Rank(S, sort, k) \in a .. b <=> Rank(S, sort, k) \in 0 .. b BY <1>2
  <1>. QED BY <1>3, <1>4 DEF Ranked

\* v1: from pos to pos + offset, or the last ones.
LEMMA WindowsAreExact ==
  ASSUME NEW r \in HistoryRequests, r.version = 1, NEW n \in Int, Regular(r, n)
  PROVE  AnswerV1(r, n) = Reference(r, n)
  <1>0. PICK size, from : size = Capped(r) /\ from = From(r) OBVIOUS
  <1>1. PICK pos \in Int, offset \in Int :
           pos = r.pos /\ offset = r.offset /\ size = Capped(r) /\ from = From(r)
    BY <1>0, ApiAssumption
  <1>2. /\ size = IF pos = -1 THEN (IF offset < 0 THEN -offset ELSE 0)
                  ELSE IF offset < 0 THEN pos + 1 ELSE offset + 1
        /\ pos >= -1 /\ size \in Nat
    <2>1. Size(r) <= MaxActions /\ pos >= -1 BY <1>1 DEF Regular
    <2>2. Size(r) = IF pos = -1 THEN (IF offset < 0 THEN -offset ELSE 0)
                    ELSE IF offset < 0 THEN pos + 1 ELSE offset + 1
      BY <1>1, <2>1 DEF Size
    <2>3. Size(r) \in Nat BY <2>1, <2>2
    <2>4. MaxActions \in Nat BY ApiAssumption
    <2>. QED BY <1>1, <2>1, <2>2, <2>3, <2>4 DEF Capped
  <1>3. from = (IF pos >= 0 /\ offset >= 0 THEN pos ELSE 0) /\ from \in Nat BY <1>1 DEF From
  <1>4. PICK S : S = AskedOf(r, n) OBVIOUS
  <1>5. {k \in 1 .. n : MatchesV1(r, k)} = S
    <2>1. r.version # 2 OBVIOUS
    <2>2. \A k : MatchesV1(r, k) <=> AskedFor(r, k) BY <2>1, Zenon DEF MatchesV1, AskedFor
    <2>. QED BY <1>4, <2>2 DEF AskedOf
  <1>6. PICK o : o = r.sort OBVIOUS
  <1>7. PICK w : w = Sorted(Ranked(S, o, Window(r).first, Window(r).last), o) /\ w = Reference(r, n)
    BY <1>4, <1>6, ReferenceIs
  <1>8. Numbers(S) BY <1>4, ReferenceIs
  <1>9. PICK h : h = Hits(r, from, size, S) OBVIOUS
  <1>10. AnswerV1(r, n) = LET cut == Len(h) + offset - (IF pos = -1 THEN 0 ELSE 1)
                          IN  IF offset < 0 /\ cut > 0 THEN SubSeq(h, cut + 1, Len(h)) ELSE h
    BY <1>1, <1>5, <1>9 DEF AnswerV1
  <1>11. /\ h = Sorted(Ranked(S, o, from, from + size - 1), o)
         /\ Len(h) \in 0 .. size
         /\ from + size <= Cardinality(S) =>
               h = SubSeq(Sorted(S, o), from + 1, from + size) /\ Len(h) = size
    <2>1. size \in Int BY <1>2
    <2>2. PageIs(Hits(r, from, size, S), S, r.sort, from, size) BY <1>3, <1>8, <2>1, HitsAre
    <2>. QED BY <1>2, <1>6, <1>9, <2>2 DEF PageIs
  <1>12. CASE offset >= 0
    <2>1. AnswerV1(r, n) = h BY <1>10, <1>12
    <2>2. CASE pos = -1
      <3>1. Window(r).first = 0 /\ Window(r).last = -offset - 1 BY <1>1, <2>2 DEF Window
      <3>2. Ranked(S, o, Window(r).first, Window(r).last) = {} BY <1>8, <1>12, <3>1, RankedClips
      <3>3. from = 0 /\ size = 0 BY <1>2, <1>3, <1>12, <2>2
      <3>4. Ranked(S, o, from, from + size - 1) = {} BY <1>8, <3>3, RankedClips
      <3>. QED BY <1>7, <1>11, <2>1, <3>2, <3>4
    <2>3. CASE pos >= 0
      <3>1. Window(r).first = pos /\ Window(r).last = pos + offset BY <1>1, <1>12, <2>3 DEF Window
      <3>2. from = pos /\ from + size - 1 = pos + offset BY <1>2, <1>3, <1>12, <2>3
      <3>. QED BY <1>7, <1>11, <2>1, <3>1, <3>2
    <2>. QED BY <1>2, <2>2, <2>3
  <1>13. CASE offset < 0 /\ pos = -1
    <2>1. size = -offset /\ from = 0 BY <1>2, <1>3, <1>13
    <2>2. Len(h) + offset <= 0 BY <1>11, <2>1
    <2>3. AnswerV1(r, n) = h BY <1>10, <1>13, <2>2
    <2>4. Window(r).first = 0 /\ Window(r).last = -offset - 1 BY <1>1, <1>13 DEF Window
    <2>5. from + size - 1 = -offset - 1 BY <2>1
    <2>. QED BY <1>7, <1>11, <2>1, <2>3, <2>4, <2>5
  <1>14. CASE offset < 0 /\ pos >= 0
    <2>1. size = pos + 1 /\ from = 0 BY <1>2, <1>3, <1>14
    <2>2. Cardinality(S) \in Nat /\ pos < Cardinality(S)
      <3>1. Cardinality(S) \in Nat BY <1>8, RanksAre
      <3>2. Cardinality({k \in 1 .. n : AskedFor(r, k)}) > r.pos BY <1>1, <1>14 DEF Regular
      <3>. QED BY <1>1, <1>4, <3>1, <3>2 DEF AskedOf
    <2>3. PICK s : s = Sorted(S, o) OBVIOUS
    <2>4. h = SubSeq(s, 1, pos + 1) /\ Len(h) = pos + 1 BY <1>11, <1>14, <2>1, <2>2, <2>3
    <2>5. Window(r).first = pos + offset /\ Window(r).last = pos BY <1>1, <1>14 DEF Window
    <2>6. Len(h) + offset - 1 = pos + offset BY <2>4
    <2>7. CASE pos + offset <= 0
      <3>1. AnswerV1(r, n) = h BY <1>10, <1>14, <2>6, <2>7
      <3>2. Ranked(S, o, pos + offset, pos) = Ranked(S, o, 0, pos) BY <1>8, <2>7, RankedClips
      <3>3. h = Sorted(Ranked(S, o, 0, pos), o) BY <1>11, <1>14, <2>1
      <3>. QED BY <1>7, <2>5, <3>1, <3>2, <3>3
    <2>8. CASE pos + offset > 0
      <3>1. PICK first \in Nat : first = pos + offset BY <2>8
      <3>2. AnswerV1(r, n) = SubSeq(h, first + 1, pos + 1) BY <1>10, <1>14, <2>4, <2>6, <2>8, <3>1
      <3>3. SubSeq(h, first + 1, pos + 1) = SubSeq(s, first + 1, pos + 1)
        <4>1. s \in Seq(S) /\ Len(s) = Cardinality(S) BY <1>8, <2>3, SortedIs
        <4>. QED BY <1>14, <2>2, <2>4, <3>1, <4>1
      <3>4. SubSeq(s, first + 1, pos + 1) = Sorted(Ranked(S, o, first, pos), o)
        <4>1. PICK end \in Int : end = pos + 1 OBVIOUS
        <4>2. end = End(S, pos) BY <2>2, <4>1 DEF End
        <4>3. SubSeq(Sorted(S, o), first + 1, end) = Sorted(Ranked(S, o, first, pos), o)
          BY <1>8, <4>2, SliceIsSorted
        <4>. QED BY <2>3, <4>1, <4>3
      <3>. QED BY <1>7, <2>5, <3>1, <3>2, <3>3, <3>4
    <2>. QED BY <2>7, <2>8
  <1>. QED BY <1>2, <1>12, <1>13, <1>14

\* Each request of the API is answered with what it describes.
LEMMA QueryIsExact ==
  ASSUME NEW r \in HistoryRequests, r.version # 0, ~Refused(r), NEW n \in Int, Regular(r, n)
  PROVE  Query(r, n) = Reference(r, n)
  <1>1. r.version \in 0 .. 2 BY ApiAssumption
  <1>2. CASE r.version = 1 BY <1>2, WindowsAreExact DEF Query
  <1>3. CASE r.version = 2
    <2>1. AnswerV2(r, n) = Reference(r, n) BY <1>3, PagesAreExact
    <2>. QED BY <1>3, <2>1 DEF Query
  <1>. QED BY <1>1, <1>2, <1>3

-----------------------------------------------------------------------------
(* Answers that are kept *)

\* The same filters in the same order, and nothing else.
SameFilters(q, r) == OnlyFilters(q) /\ OnlyFilters(r) /\ q.filters = r.filters /\ q.sort = r.sort

\* Requests with the same key are the same, or of both versions and give filters only.
LEMMA KeysAreRequests ==
  ASSUME NEW q \in HistoryRequests, NEW r \in HistoryRequests, q.version # 0, r.version # 0,
         NEW i \in BOOLEAN, NEW j \in BOOLEAN, Key(q, i) = Key(r, j)
  PROVE  q = r \/ (q.version \notin {0, r.version} /\ SameFilters(q, r))
  <1>1. PICK k, l : k = Key(q, i) /\ l = Key(r, j) /\ k = l OBVIOUS
  <1>2. /\ k.only = OnlyFilters(q) /\ k.of = IF OnlyFilters(q) THEN <<q.filters, q.sort>> ELSE <<q>>
        /\ l.only = OnlyFilters(r) /\ l.of = IF OnlyFilters(r) THEN <<r.filters, r.sort>> ELSE <<r>>
    BY <1>1 DEF Key
  <1>3. (OnlyFilters(q) = OnlyFilters(r)) /\ OnlyFilters(q) \in BOOLEAN /\ OnlyFilters(r) \in BOOLEAN
    BY <1>1, <1>2 DEF OnlyFilters
  <1>4. CASE ~OnlyFilters(q)
    <2>1. <<q>> = <<r>> BY <1>1, <1>2, <1>3, <1>4
    <2>. QED BY <2>1
  <1>5. CASE OnlyFilters(q)
    <2>1. OnlyFilters(r) BY <1>3, <1>5
    <2>2. <<q.filters, q.sort>> = <<r.filters, r.sort>> BY <1>1, <1>2, <1>5, <2>1
    <2>3. q.filters = r.filters /\ q.sort = r.sort BY <2>2
    <2>4. q.version \in {1, 2} /\ r.version \in {1, 2} BY ApiAssumption
    <2>5. CASE q.version = 1 /\ r.version = 1
      <3>1. q = [version |-> 1, account |-> q.account, filters |-> q.filters, sort |-> "desc",
                 pos |-> q.pos, offset |-> q.offset] BY <2>5, ApiAssumption
      <3>2. r = [version |-> 1, account |-> r.account, filters |-> r.filters, sort |-> "desc",
                 pos |-> r.pos, offset |-> r.offset] BY <2>5, ApiAssumption
      <3>3. q.account = r.account /\ q.pos = r.pos /\ q.offset = r.offset
        BY <1>5, <2>1, <2>5 DEF OnlyFilters
      <3>. QED BY <2>3, <3>1, <3>2, <3>3
    <2>6. CASE q.version = 2 /\ r.version = 2
      <3>1. q = [version |-> 2, account |-> q.account, filters |-> q.filters, values |-> q.values,
                 after |-> q.after, before |-> q.before, sort |-> q.sort, skip |-> q.skip, limit |-> q.limit]
        BY <2>6, ApiAssumption
      <3>2. r = [version |-> 2, account |-> r.account, filters |-> r.filters, values |-> r.values,
                 after |-> r.after, before |-> r.before, sort |-> r.sort, skip |-> r.skip, limit |-> r.limit]
        BY <2>6, ApiAssumption
      <3>3. /\ q.account = r.account /\ q.values = r.values /\ q.after = r.after /\ q.before = r.before
            /\ q.skip = r.skip /\ q.limit = r.limit
        BY <1>5, <2>1, <2>6 DEF OnlyFilters
      <3>. QED BY <2>3, <3>1, <3>2, <3>3
    <2>7. CASE q.version # r.version BY <1>5, <2>1, <2>3, <2>4, <2>7 DEF SameFilters
    <2>. QED BY <2>4, <2>5, <2>6, <2>7
  <1>. QED BY <1>3, <1>4, <1>5

\* A request that the history API does not refuse.
Admitted(q) == q \in clients /\ q \in HistoryRequests /\ q.version # 0 /\ ~Refused(q)

\* The answer a is from the index at some time.
Timed(a) ==
    /\ a = [docs |-> a.docs, from |-> a.from, made |-> a.made, given |-> a.given, by |-> a.by]
    /\ a.from \in Int /\ a.made \in Int /\ a.given \in Int

\* It was computed for a request with the key k.
KeptFor(k, a) == \E q : Admitted(q) /\ (\E i \in BOOLEAN : k = Key(q, i)) /\ a.docs = Query(q, a.from)

\* It was computed for the request answered, or for one that shares its key.
AnsweredAs(a) == \E q \in Sharing(a.by) : Admitted(q) /\ a.docs = Query(q, a.from)

\* What is kept was computed for a request with its key, and only what has not expired is given.
AnswerInv ==
    /\ clients \in Clients /\ stored \in Int /\ seconds \in Int
    /\ \A k \in DOMAIN kept : Timed(kept[k]) /\ KeptFor(k, kept[k])
    /\ answer # NoAnswer => Timed(answer) /\ AnsweredAs(answer)
    /\ answer.given - answer.made < CacheLife
    /\ \A e \in chainKept : e.exp \in Int
    /\ chainAnswer.age < ChainTtl

LEMMA AnswerInvInit == ApiInit => AnswerInv
  <1>. SUFFICES ASSUME ApiInit PROVE AnswerInv OBVIOUS
  <1>1. Len(Actions) \in Nat BY ApiAssumption
  <1>2. answer = NoAnswer /\ answer.given = 0 /\ answer.made = 0 BY DEF ApiInit, NoAnswer
  <1>3. chainAnswer.age = 0 BY DEF ApiInit
  <1>4. DOMAIN kept = {} BY DEF ApiInit
  <1>5. stored \in Int /\ seconds \in Int /\ clients \in Clients /\ chainKept = {} BY <1>1 DEF ApiInit
  <1>6. CacheLife \in Nat \ {0} /\ ChainTtl \in Nat \ {0} BY ApiAssumption
  <1>7. answer.given - answer.made < CacheLife /\ chainAnswer.age < ChainTtl BY <1>2, <1>3, <1>6
  <1>. QED BY <1>2, <1>4, <1>5, <1>7 DEF AnswerInv

\* What has been answered and kept stays so while the clients are the same.
LEMMA AnsweredStays ==
  ASSUME clients' = clients
  PROVE  /\ \A a : AnsweredAs(a) => AnsweredAs(a)'
         /\ \A k, a : KeptFor(k, a) => KeptFor(k, a)'
         /\ \A a : Timed(a) => Timed(a)'
  <1>1. \A q : Admitted(q) => Admitted(q)' BY DEF Admitted
  <1>2. \A r : Sharing(r)' = Sharing(r) BY DEF Sharing
  <1>3. ASSUME NEW a, AnsweredAs(a) PROVE AnsweredAs(a)'
    <2>1. PICK q \in Sharing(a.by) : Admitted(q) /\ a.docs = Query(q, a.from) BY <1>3 DEF AnsweredAs
    <2>2. (q \in Sharing(a.by) /\ Admitted(q) /\ a.docs = Query(q, a.from))' BY <1>1, <1>2, <2>1
    <2>. QED BY <2>2 DEF AnsweredAs
  <1>4. ASSUME NEW k, NEW a, KeptFor(k, a) PROVE KeptFor(k, a)'
    <2>1. PICK q : Admitted(q) /\ (\E i \in BOOLEAN : k = Key(q, i)) /\ a.docs = Query(q, a.from)
      BY <1>4 DEF KeptFor
    <2>2. (Admitted(q) /\ (\E i \in BOOLEAN : k = Key(q, i)) /\ a.docs = Query(q, a.from))' BY <1>1, <2>1
    <2>. QED BY <2>2 DEF KeptFor
  <1>5. \A a : Timed(a) => Timed(a)' BY DEF Timed
  <1>. QED BY <1>3, <1>4, <1>5

LEMMA AskKeepsAnswers == ASSUME AnswerInv, NEW r \in clients, NEW ignore \in BOOLEAN, Ask(r, ignore) PROVE AnswerInv'
  <1>1. r.version # 0 /\ ~Refused(r) /\ UNCHANGED <<clients, stored, seconds, chainKept, chainAnswer>>
    BY DEF Ask
  <1>2. clients \in Clients /\ Admitted(r) BY <1>1 DEF AnswerInv, Admitted, HistoryRequests
  <1>3. PICK k : k = Key(r, ignore) OBVIOUS
  <1>4. /\ \A a : AnsweredAs(a) => AnsweredAs(a)'
        /\ \A x, a : KeptFor(x, a) => KeptFor(x, a)'
        /\ \A a : Timed(a) => Timed(a)'
    BY <1>1, AnsweredStays
  <1>5. CacheLife \in Nat \ {0} BY ApiAssumption
  <1>6. CASE Kept(k) /\ ~ignore
    <2>1. kept' = kept /\ answer' = [kept[k] EXCEPT !.given = seconds, !.by = r] BY <1>3, <1>6 DEF Ask
    <2>2. PICK a : a = kept[k] /\ Timed(a) /\ KeptFor(k, a) /\ a.made + CacheLife > seconds
      BY <1>6 DEF AnswerInv, Kept
    <2>3. PICK found, from, made, given, by :
             a = [docs |-> found, from |-> from, made |-> made, given |-> given, by |-> by]
             /\ found = a.docs /\ from = a.from /\ made = a.made
      BY <2>2 DEF Timed
    <2>4. PICK b : b = answer' /\ b = [docs |-> found, from |-> from, made |-> made, given |-> seconds, by |-> r]
      <3>1. [a EXCEPT !.given = seconds, !.by = r] = [[a EXCEPT !.given = seconds] EXCEPT !.by = r] OBVIOUS
      <3>2. [a EXCEPT !.given = seconds] = [docs |-> found, from |-> from, made |-> made, given |-> seconds, by |-> by]
        BY <2>3
      <3>3. [[docs |-> found, from |-> from, made |-> made, given |-> seconds, by |-> by] EXCEPT !.by = r]
              = [docs |-> found, from |-> from, made |-> made, given |-> seconds, by |-> r]
        OBVIOUS
      <3>4. answer' = [a EXCEPT !.given = seconds, !.by = r] BY <2>1, <2>2
      <3>. QED BY <3>1, <3>2, <3>3, <3>4
    <2>5. b.docs = a.docs /\ b.from = a.from /\ b.made = a.made /\ b.given = seconds /\ b.by = r BY <2>3, <2>4
    <2>6. Timed(b) BY <2>2, <2>3, <2>4, <2>5 DEF Timed, AnswerInv
    <2>7. AnsweredAs(b)
      <3>1. PICK q : Admitted(q) /\ (\E i \in BOOLEAN : k = Key(q, i)) /\ a.docs = Query(q, a.from)
        BY <2>2 DEF KeptFor
      <3>2. PICK i \in BOOLEAN : Key(q, i) = Key(r, ignore) BY <1>3, <3>1
      <3>3. q \in clients /\ q \in HistoryRequests /\ r \in HistoryRequests /\ q.version # 0
        BY <1>2, <3>1 DEF Admitted
      <3>4. q = r \/ (q.version \notin {0, r.version} /\ SameFilters(q, r))
        BY <1>1, <3>2, <3>3, KeysAreRequests
      <3>5. q \in Sharing(r) BY <3>3, <3>4 DEF Sharing, SameFilters
      <3>. QED BY <2>5, <3>1, <3>5 DEF AnsweredAs
    <2>8. b.given - b.made < CacheLife BY <1>5, <2>2, <2>5 DEF Timed, AnswerInv
    <2>9. (Timed(answer) /\ AnsweredAs(answer))' /\ (answer.given - answer.made < CacheLife)'
      BY <1>4, <2>4, <2>6, <2>7, <2>8
    <2>10. (\A x \in DOMAIN kept : Timed(kept[x]) /\ KeptFor(x, kept[x]))' BY <1>4, <2>1 DEF AnswerInv
    <2>. QED BY <1>1, <2>9, <2>10 DEF AnswerInv
  <1>7. CASE ~(Kept(k) /\ ~ignore)
    <2>1. PICK new : /\ new = [docs |-> Query(r, stored), from |-> stored, made |-> seconds, given |-> seconds, by |-> r]
                     /\ answer' = new
                     /\ kept' = [x \in DOMAIN kept \cup {k} |-> IF x = k THEN new ELSE kept[x]]
      BY <1>3, <1>7 DEF Ask
    <2>2. Timed(new) /\ new.docs = Query(r, new.from) /\ new.by = r BY <2>1 DEF Timed, AnswerInv
    <2>3. new.given - new.made < CacheLife BY <1>5, <2>1 DEF AnswerInv
    <2>4. r \in Sharing(r) BY DEF Sharing
    <2>5. AnsweredAs(new) /\ KeptFor(k, new) BY <1>2, <1>3, <2>2, <2>4 DEF AnsweredAs, KeptFor
    <2>6. \A x \in DOMAIN kept' : (x = k /\ kept'[x] = new) \/ (x \in DOMAIN kept /\ kept'[x] = kept[x]) BY <2>1
    <2>7. \A x \in DOMAIN kept' : Timed(kept'[x]) /\ KeptFor(x, kept'[x]) BY <2>2, <2>5, <2>6 DEF AnswerInv
    <2>8. (\A x \in DOMAIN kept : Timed(kept[x]) /\ KeptFor(x, kept[x]))' BY <1>4, <2>7
    <2>9. (Timed(answer) /\ AnsweredAs(answer))' /\ (answer.given - answer.made < CacheLife)'
      BY <1>4, <2>1, <2>2, <2>3, <2>5
    <2>. QED BY <1>1, <2>8, <2>9 DEF AnswerInv
  <1>. QED BY <1>6, <1>7

LEMMA ChainKeepsAnswers == AnswerInv /\ (ChainRequest \/ SweepChain) => AnswerInv'
  <1>1. ASSUME AnswerInv, ChainRequest PROVE (\A e \in chainKept : e.exp \in Int)' /\ (chainAnswer.age < ChainTtl)'
    <2>1. PICK valid : valid = {e \in chainKept : e.exp > seconds} OBVIOUS
    <2>2. CASE valid # {}
      <3>1. PICK e \in valid : chainAnswer' = [block |-> e.block, age |-> seconds - (e.exp - ChainTtl)] /\ chainKept' = chainKept
        BY <1>1, <2>1, <2>2 DEF ChainRequest
      <3>2. e.exp \in Int /\ e.exp > seconds BY <1>1, <2>1 DEF AnswerInv
      <3>3. seconds - (e.exp - ChainTtl) < ChainTtl BY <1>1, <3>2, ApiAssumption DEF AnswerInv
      <3>. QED BY <1>1, <3>1, <3>3 DEF AnswerInv
    <2>3. CASE valid = {}
      <3>1. \/ chainAnswer' = [block |-> NodeBlock, age |-> 0] /\ chainKept' = {[block |-> NodeBlock, exp |-> seconds + ChainTtl]}
            \/ UNCHANGED <<chainAnswer, chainKept>>
        BY <1>1, <2>1, <2>3 DEF ChainRequest
      <3>. QED BY <1>1, <3>1, ApiAssumption DEF AnswerInv
    <2>. QED BY <2>2, <2>3
  <1>2. ASSUME AnswerInv, SweepChain PROVE (\A e \in chainKept : e.exp \in Int)' /\ (chainAnswer.age < ChainTtl)'
    BY <1>2 DEF AnswerInv, SweepChain
  <1>3. ASSUME AnswerInv, UNCHANGED <<clients, stored, seconds, kept, answer>>,
               (\A e \in chainKept : e.exp \in Int)', (chainAnswer.age < ChainTtl)'
        PROVE  AnswerInv'
    <2>1. /\ \A a : AnsweredAs(a) => AnsweredAs(a)'
          /\ \A x, a : KeptFor(x, a) => KeptFor(x, a)'
          /\ \A a : Timed(a) => Timed(a)'
      BY <1>3, AnsweredStays
    <2>2. (\A x \in DOMAIN kept : Timed(kept[x]) /\ KeptFor(x, kept[x]))' BY <1>3, <2>1 DEF AnswerInv
    <2>3. (answer # NoAnswer => Timed(answer) /\ AnsweredAs(answer))' BY <1>3, <2>1 DEF AnswerInv, NoAnswer
    <2>. QED BY <1>3, <2>2, <2>3 DEF AnswerInv
  <1>4. ChainRequest \/ SweepChain => UNCHANGED <<clients, stored, seconds, kept, answer>>
    BY DEF ChainRequest, SweepChain
  <1>. QED BY <1>1, <1>2, <1>3, <1>4

LEMMA AnswerInvKept == AnswerInv /\ [ApiNext]_apiVars => AnswerInv'
  <1>. SUFFICES ASSUME AnswerInv, [ApiNext]_apiVars PROVE AnswerInv' OBVIOUS
  <1>1. CASE \E r \in clients, ignore \in BOOLEAN : Ask(r, ignore) BY <1>1, AskKeepsAnswers
  <1>2. CASE ChainRequest \/ SweepChain BY <1>2, ChainKeepsAnswers
  <1>3. CASE IndexAction \/ PassTime \/ UNCHANGED apiVars
    <2>1. UNCHANGED <<clients, kept, answer, chainKept, chainAnswer>> /\ stored' \in Int /\ seconds' \in Int
      BY <1>3 DEF AnswerInv, IndexAction, PassTime, apiVars
    <2>2. /\ \A a : AnsweredAs(a) => AnsweredAs(a)'
          /\ \A x, a : KeptFor(x, a) => KeptFor(x, a)'
          /\ \A a : Timed(a) => Timed(a)'
      BY <2>1, AnsweredStays
    <2>3. (\A x \in DOMAIN kept : Timed(kept[x]) /\ KeptFor(x, kept[x]))' BY <2>1, <2>2 DEF AnswerInv
    <2>4. (answer # NoAnswer => Timed(answer) /\ AnsweredAs(answer))' BY <2>1, <2>2 DEF AnswerInv, NoAnswer
    <2>. QED BY <2>1, <2>3, <2>4 DEF AnswerInv
  <1>. QED BY <1>1, <1>2, <1>3 DEF ApiNext

\* Every answer to a request of the history API is the page or the window that the request
\* describes, of the index as it was less than the life of the cache ago, whatever requests
\* are made beside it, or, where a request of the other version has its key, that request's;
\* and an answer of the node's is given again for its ttl.
THEOREM AnswersAreThePages == ApiSpec => []AnswersAreExact
<1>1. AnswerInv => AnswersAreExact
  <2>. SUFFICES ASSUME AnswerInv PROVE AnswersAreExact OBVIOUS
  <2>1. ASSUME answer # NoAnswer
        PROVE  \E r \in Sharing(answer.by) : Regular(r, answer.from) => answer.docs = Reference(r, answer.from)
    <3>1. PICK n \in Int : n = answer.from /\ AnsweredAs(answer) BY <2>1 DEF AnswerInv, Timed
    <3>2. PICK r \in Sharing(answer.by) : Admitted(r) /\ answer.docs = Query(r, n) BY <3>1 DEF AnsweredAs
    <3>3. Regular(r, n) => answer.docs = Reference(r, n) BY <3>2, QueryIsExact DEF Admitted
    <3>. QED BY <3>1, <3>2, <3>3
  <2>. QED BY <2>1 DEF AnswerInv, AnswersAreExact
<1>. QED BY <1>1, AnswerInvInit, AnswerInvKept, PTL DEF ApiSpec

-----------------------------------------------------------------------------
(* What sorting and filtering leave *)

\* f counts the members of S upwards.
Counts(f, S) ==
    /\ Cardinality(S) \in Nat /\ f \in [1 .. Cardinality(S) -> S]
    /\ \A i, j \in 1 .. Cardinality(S) : i < j => f[i] < f[j]
    /\ \A k \in S : \E i \in 1 .. Cardinality(S) : f[i] = k

LEMMA SortedCounts ==
  ASSUME NEW S, Numbers(S)
  PROVE  Counts(Sorted(S, "asc"), S)
  <1>1. PICK c : c = Cardinality(S) /\ c \in Nat BY RanksAre
  <1>2. PICK f : f = Sorted(S, "asc") OBVIOUS
  <1>3. f = [i \in 1 .. c |-> CHOOSE k \in S : Rank(S, "asc", k) = i - 1] BY <1>1, <1>2 DEF Sorted
  <1>4. \A i \in 1 .. c : f[i] \in S /\ Rank(S, "asc", f[i]) = i - 1 BY <1>1, <1>2, SortedIs
  <1>5. /\ \A k \in S : Rank(S, "asc", k) \in 0 .. c - 1
        /\ \A j, k \in S : Before("asc", j, k) <=> Rank(S, "asc", j) < Rank(S, "asc", k)
        /\ \A j, k \in S : Rank(S, "asc", j) = Rank(S, "asc", k) => j = k
    BY <1>1, RanksAre
  <1>6. \A i, j \in 1 .. c : i < j => f[i] < f[j]
    <2>. SUFFICES ASSUME NEW i \in 1 .. c, NEW j \in 1 .. c, i < j PROVE f[i] < f[j] OBVIOUS
    <2>1. Before("asc", f[i], f[j]) BY <1>4, <1>5
    <2>. QED BY <2>1 DEF Before
  <1>7. \A k \in S : \E i \in 1 .. c : f[i] = k
    <2>. SUFFICES ASSUME NEW k \in S PROVE \E i \in 1 .. c : f[i] = k OBVIOUS
    <2>1. PICK i \in 1 .. c : i - 1 = Rank(S, "asc", k)
      <3>1. PICK r \in 0 .. c - 1 : r = Rank(S, "asc", k) BY <1>5
      <3>2. r + 1 \in 1 .. c /\ (r + 1) - 1 = r BY <1>1
      <3>. QED BY <3>1, <3>2
    <2>. QED BY <1>4, <1>5, <2>1
  <1>8. f \in [1 .. c -> S] BY <1>3, <1>4
  <1>. QED BY <1>1, <1>2, <1>6, <1>7, <1>8 DEF Counts

\* What is selected has the values at those positions, in their order.
LEMMA SelectedIs ==
  ASSUME NEW S, Numbers(S), NEW s
  PROVE  \E f : Counts(f, S) /\ Selected(s, S) = [i \in 1 .. Cardinality(S) |-> s[f[i]]]
  <1>1. Counts(Sorted(S, "asc"), S) BY SortedCounts
  <1>. QED BY <1>1 DEF Selected

LEMMA SelectedKeeps ==
  ASSUME NEW V, NEW s \in Seq(V), NEW S \in SUBSET DOMAIN s
  PROVE  /\ Selected(s, S) \in Seq(V) /\ Len(Selected(s, S)) = Cardinality(S)
         /\ ToSet(Selected(s, S)) = {s[k] : k \in S}
  <1>1. PICK n \in Nat : n = Len(s) /\ DOMAIN s = 1 .. n OBVIOUS
  <1>2. Numbers(S) BY <1>1 DEF Numbers
  <1>3. PICK f : Counts(f, S) /\ Selected(s, S) = [i \in 1 .. Cardinality(S) |-> s[f[i]]] BY <1>2, SelectedIs
  <1>4. PICK c \in Nat : c = Cardinality(S) BY <1>3 DEF Counts
  <1>0. \A k \in S : s[k] \in V BY <1>1
  <1>5. \A i \in 1 .. c : f[i] \in S /\ s[f[i]] \in V
    <2>1. \A i \in 1 .. c : f[i] \in S BY <1>3, <1>4 DEF Counts
    <2>. QED BY <1>0, <2>1
  <1>6. PICK u : u = Selected(s, S) /\ u = [i \in 1 .. c |-> s[f[i]]] BY <1>3, <1>4
  <1>7. u \in Seq(V) /\ Len(u) = c /\ DOMAIN u = 1 .. c BY <1>5, <1>6
  <1>8. ToSet(u) = {s[k] : k \in S}
    <2>1. ToSet(u) = {u[i] : i \in 1 .. c} BY <1>7 DEF ToSet
    <2>2. \A k \in S : \E i \in 1 .. c : f[i] = k BY <1>3, <1>4 DEF Counts
    <2>3. \A i \in 1 .. c : u[i] = s[f[i]] BY <1>6
    <2>. QED BY <1>5, <2>1, <2>2, <2>3
  <1>. QED BY <1>4, <1>6, <1>7, <1>8

-----------------------------------------------------------------------------
(* Documents of a transaction *)

Digests == UNION {{t[i].digest : i \in DOMAIN t} : t \in TraceSet}
Names == UNION {{t[i].receiver : i \in DOMAIN t} : t \in TraceSet}
TrxDocs == [ordinal : Nat, digest : Digests, creator : Nat, receivers : Seq(Names), block : TrxBlocks,
            seq : Nat, run : Nat]

\* In order of their global sequences.
Increasing(A) == \A i, j \in DOMAIN A : i < j => A[i].seq < A[j].seq

Distinct(D) == \A d, e \in D : d.seq = e.seq => d = e

LEMMA OrderedIs ==
  ASSUME NEW D \in SUBSET TrxDocs, Distinct(D), NEW n \in Nat, \A d \in D : d.seq \in 1 .. n
  PROVE  Ordered(D) \in Seq(TrxDocs) /\ Increasing(Ordered(D)) /\ ToSet(Ordered(D)) = D
  <1>1. PICK S : S = {d.seq : d \in D} OBVIOUS
  <1>2. Numbers(S) BY <1>1 DEF Numbers
  <1>3. PICK f : f = Sorted(S, "asc") /\ Counts(f, S) BY <1>2, SortedCounts
  <1>4. PICK c \in Nat : c = Cardinality(S) BY <1>3 DEF Counts
  <1>5. PICK A : A = Ordered(D) /\ A = [i \in 1 .. c |-> CHOOSE d \in D : d.seq = f[i]]
    <2>1. Ordered(D) = [i \in 1 .. Cardinality({d.seq : d \in D}) |->
                           CHOOSE d \in D : d.seq = Sorted({e.seq : e \in D}, "asc")[i]]
      BY Zenon DEF Ordered
    <2>2. Ordered(D) = [i \in 1 .. c |-> CHOOSE d \in D : d.seq = f[i]] BY <1>1, <1>3, <1>4, <2>1
    <2>. QED BY <2>2
  <1>6. ASSUME NEW i \in 1 .. c PROVE A[i] \in D /\ A[i].seq = f[i]
    <2>1. f[i] \in S BY <1>3, <1>4 DEF Counts
    <2>2. \E d \in D : d.seq = f[i] BY <1>1, <2>1
    <2>. QED BY <1>5, <2>2
  <1>7. A \in Seq(TrxDocs) /\ DOMAIN A = 1 .. c BY <1>5, <1>6
  <1>8. Increasing(A)
    <2>1. \A i, j \in 1 .. c : i < j => f[i] < f[j] BY <1>3, <1>4 DEF Counts
    <2>. QED BY <1>6, <1>7, <2>1 DEF Increasing
  <1>9. ToSet(A) = D
    <2>1. ToSet(A) = {A[i] : i \in 1 .. c} BY <1>7 DEF ToSet
    <2>2. \A d \in D : \E i \in 1 .. c : A[i] = d
      <3>. SUFFICES ASSUME NEW d \in D PROVE \E i \in 1 .. c : A[i] = d OBVIOUS
      <3>1. PICK i \in 1 .. c : f[i] = d.seq BY <1>1, <1>3, <1>4 DEF Counts
      <3>. QED BY <1>6, <3>1 DEF Distinct
    <2>. QED BY <1>6, <2>1, <2>2
  <1>. QED BY <1>5, <1>7, <1>8, <1>9

-----------------------------------------------------------------------------
(* Receipts of a group *)

LEMMA AddIs ==
  ASSUME NEW rs \in Seq(Names), NEW more \in Seq(Names), NEW distinct
  PROVE  Add(rs, more, distinct) \in Seq(Names) /\ ToSet(Add(rs, more, distinct)) = ToSet(rs) \cup ToSet(more)
  <1>1. PICK S \in SUBSET DOMAIN more : S = {i \in DOMAIN more : more[i] \notin ToSet(rs)} OBVIOUS
  <1>2. PICK u : u = IF distinct THEN Selected(more, S) ELSE more OBVIOUS
  <1>3. PICK w : w = rs \o u OBVIOUS
  <1>4. w = Add(rs, more, distinct) BY <1>1, <1>2, <1>3, Zenon DEF Add
  <1>5. u \in Seq(Names) /\ ToSet(rs) \cup ToSet(u) = ToSet(rs) \cup ToSet(more)
    <2>1. CASE distinct
      <3>1. u = Selected(more, S) BY <1>2, <2>1
      <3>2. u \in Seq(Names) /\ ToSet(u) = {more[k] : k \in S} BY <3>1, SelectedKeeps
      <3>3. ToSet(more) = {more[k] : k \in DOMAIN more} BY DEF ToSet
      <3>. QED BY <1>1, <3>2, <3>3
    <2>2. CASE ~distinct BY <1>2, <2>2
    <2>. QED BY <2>1, <2>2
  <1>6. ToSet(w) = ToSet(rs) \cup ToSet(u)
    <2>1. PICK m, n \in Nat : m = Len(rs) /\ n = Len(u) BY <1>5
    <2>2. Len(w) = m + n /\ \A i \in 1 .. m + n : w[i] = IF i <= m THEN rs[i] ELSE u[i - m]
      BY <1>3, <1>5, <2>1
    <2>3. DOMAIN w = 1 .. m + n /\ DOMAIN rs = 1 .. m /\ DOMAIN u = 1 .. n BY <1>3, <1>5, <2>1
    <2>4. ASSUME NEW x \in ToSet(w) PROVE x \in ToSet(rs) \/ x \in ToSet(u)
      <3>1. PICK i \in 1 .. m + n : w[i] = x BY <2>3, <2>4 DEF ToSet
      <3>2. i <= m => i \in 1 .. m BY <2>1
      <3>3. ~(i <= m) => i - m \in 1 .. n BY <2>1
      <3>. QED BY <2>2, <2>3, <3>1, <3>2, <3>3 DEF ToSet
    <2>5. ASSUME NEW x \in ToSet(rs) PROVE x \in ToSet(w)
      <3>1. PICK i \in 1 .. m : rs[i] = x BY <2>3, <2>5 DEF ToSet
      <3>2. i \in 1 .. m + n /\ i <= m BY <2>1
      <3>. QED BY <2>2, <2>3, <3>1, <3>2 DEF ToSet
    <2>6. ASSUME NEW x \in ToSet(u) PROVE x \in ToSet(w)
      <3>1. PICK i \in 1 .. n : u[i] = x BY <2>3, <2>6 DEF ToSet
      <3>2. i + m \in 1 .. m + n /\ ~(i + m <= m) /\ (i + m) - m = i BY <2>1
      <3>. QED BY <2>2, <2>3, <3>1, <3>2 DEF ToSet
    <2>. QED BY <2>4, <2>5, <2>6
  <1>7. w \in Seq(Names) BY <1>3, <1>5
  <1>. QED BY <1>4, <1>5, <1>6, <1>7

ReceiptStep(rs, a, actions, key, distinct) ==
    IF KeyOf(actions, a) = key THEN Add(rs, a.receivers, distinct) ELSE rs

ReceiptStates(r, A, key, distinct) ==
    /\ r[0] = <<>>
    /\ \A k \in 1 .. Len(A) : r[k] = ReceiptStep(r[k - 1], A[k], A, key, distinct)
    /\ \A k \in 0 .. Len(A) : r[k] \in Seq(Names)
    /\ Receipts(A, key, distinct) = r[Len(A)]

LEMMA ReceiptSteps ==
  ASSUME NEW A \in Seq(TrxDocs), NEW key, NEW distinct
  PROVE  \E r : ReceiptStates(r, A, key, distinct)
  <1> DEFINE n == Len(A)
             V == Seq(Names)
             iter == CHOOSE h : h = [t \in SUBSET DOMAIN A |->
                        IF t = {} THEN <<>> ELSE ReceiptStep(h[t \ {Max(t)}], A[Max(t)], A, key, distinct)]
             op == [p \in V \X (1 .. n) |-> ReceiptStep(p[1], A[p[2]], A, key, distinct)]
  <1>1. Receipts(A, key, distinct) = iter[DOMAIN A]
    BY Zenon DEF Receipts, ReceiptStep, FoldLeft, MapThenFoldSet
  <1>2. n \in Nat /\ DOMAIN A = 1 .. n /\ \A k \in 1 .. n : A[k] \in TrxDocs OBVIOUS
  <1>3. <<>> \in V OBVIOUS
  <1>. HIDE DEF n
  <1>4. \A v \in V, k \in 1 .. n : /\ ReceiptStep(v, A[k], A, key, distinct) \in V
                                   /\ op[<<v, k>>] = ReceiptStep(v, A[k], A, key, distinct)
    <2>. SUFFICES ASSUME NEW v \in V, NEW k \in 1 .. n
                  PROVE /\ ReceiptStep(v, A[k], A, key, distinct) \in V
                        /\ op[<<v, k>>] = ReceiptStep(v, A[k], A, key, distinct)
      OBVIOUS
    <2>1. PICK a \in TrxDocs : a = A[k] BY <1>2
    <2>2. a.receivers \in Seq(Names) BY DEF TrxDocs
    <2>3. Add(v, a.receivers, distinct) \in Seq(Names) BY <2>2, AddIs
    <2>4. ReceiptStep(v, a, A, key, distinct) \in V BY <2>3 DEF ReceiptStep
    <2>. QED BY <2>1, <2>4
  <1>. HIDE DEF V
  <1>5. op \in [V \X (1 .. n) -> V] BY <1>4
  <1>. HIDE DEF op
  <1>6. PICK g \in [SUBSET (1 .. n) -> V] : Tabulates(g, n, <<>>, op)
    BY <1>2, <1>3, <1>5, FoldRecursion
  <1>7. ASSUME NEW h, NEW t \in SUBSET (1 .. n), t # {}, h[t \ {Max(t)}] \in V
        PROVE  op[<<h[t \ {Max(t)}], Max(t)>>] = ReceiptStep(h[t \ {Max(t)}], A[Max(t)], A, key, distinct)
    <2>1. Max(t) \in 1 .. n BY <1>2, <1>7, MaxOfPositions
    <2>. QED BY <1>4, <1>7, <2>1
  <1>8. \E h : h = [t \in SUBSET DOMAIN A |->
                      IF t = {} THEN <<>> ELSE ReceiptStep(h[t \ {Max(t)}], A[Max(t)], A, key, distinct)]
    <2>1. \A t \in SUBSET (1 .. n) : t # {} => g[t \ {Max(t)}] \in V OBVIOUS
    <2>2. g = [t \in SUBSET DOMAIN A |->
                 IF t = {} THEN <<>> ELSE ReceiptStep(g[t \ {Max(t)}], A[Max(t)], A, key, distinct)]
      BY <1>2, <1>6, <1>7, <2>1 DEF Tabulates
    <2>. QED BY <2>2, Zenon
  <1>9. iter = [t \in SUBSET DOMAIN A |->
                  IF t = {} THEN <<>> ELSE ReceiptStep(iter[t \ {Max(t)}], A[Max(t)], A, key, distinct)]
    BY <1>8, Zenon
  <1>. HIDE DEF iter
  <1>10. Iterates(iter, n, V, <<>>, op) BY <1>2, <1>7, <1>9 DEF Iterates
  <1>11. PICK r : States(r, n, V, <<>>, op) /\ r[n] = iter[1 .. n]
    <2>1. Reaches(iter, n, V, <<>>, op) BY <1>2, <1>3, <1>5, <1>10, FoldStates
    <2>. QED BY <2>1 DEF Reaches
  <1>12. \A k \in 1 .. n : k - 1 \in 0 .. n BY <1>2
  <1>13. \A k \in 1 .. n : r[k] = ReceiptStep(r[k - 1], A[k], A, key, distinct)
    <2>. SUFFICES ASSUME NEW k \in 1 .. n PROVE r[k] = ReceiptStep(r[k - 1], A[k], A, key, distinct) OBVIOUS
    <2>1. PICK v \in V : v = r[k - 1] BY <1>11, <1>12 DEF States
    <2>2. r[k] = op[<<v, k>>] BY <1>11, <2>1 DEF States
    <2>. QED BY <1>4, <2>1, <2>2
  <1>. QED BY <1>1, <1>2, <1>11, <1>13 DEF States, ReceiptStates, n, V

\* The receipts of a group are those of its actions.
InGroup(x, A, key, k) == \E j \in 1 .. k : KeyOf(A, A[j]) = key /\ x \in ToSet(A[j].receivers)

LEMMA ReceiptsAre ==
  ASSUME NEW A \in Seq(TrxDocs), NEW key, NEW distinct
  PROVE  /\ Receipts(A, key, distinct) \in Seq(Names)
         /\ \A x : x \in ToSet(Receipts(A, key, distinct)) <=> InGroup(x, A, key, Len(A))
  <1>1. PICK r : ReceiptStates(r, A, key, distinct) BY ReceiptSteps
  <1>2. PICK n \in Nat : n = Len(A) /\ \A k \in 1 .. n : A[k] \in TrxDocs OBVIOUS
  <1> DEFINE Fits(k) == \A x : x \in ToSet(r[k]) <=> InGroup(x, A, key, k)
             P == {k \in 0 .. n : Fits(k)}
  <1>3. 0 \in P
    <2>1. ToSet(<<>>) = {} BY DEF ToSet
    <2>2. \A j \in 1 .. 0 : FALSE OBVIOUS
    <2>3. r[0] = <<>> BY <1>1 DEF ReceiptStates
    <2>. QED BY <2>1, <2>2, <2>3 DEF InGroup
  <1>4. \A k \in 1 .. n : k - 1 \in P => k \in P
    <2>. SUFFICES ASSUME NEW k \in 1 .. n, Fits(k - 1) PROVE Fits(k) /\ k \in 0 .. n OBVIOUS
    <2>1. k - 1 \in 0 .. n /\ k \in 0 .. n /\ 1 .. k = (1 .. (k - 1)) \cup {k} OBVIOUS
    <2>2. PICK a \in TrxDocs : a = A[k] BY <1>2
    <2>3. PICK rs \in Seq(Names) : rs = r[k - 1] BY <1>1, <1>2, <2>1 DEF ReceiptStates
    <2>4. r[k] = IF KeyOf(A, a) = key THEN Add(rs, a.receivers, distinct) ELSE rs
      BY <1>1, <1>2, <2>2, <2>3 DEF ReceiptStates, ReceiptStep
    <2>5. ToSet(Add(rs, a.receivers, distinct)) = ToSet(rs) \cup ToSet(a.receivers)
      <3>1. a.receivers \in Seq(Names) BY DEF TrxDocs
      <3>. QED BY <3>1, AddIs
    <2>6. \A x : InGroup(x, A, key, k) <=> InGroup(x, A, key, k - 1) \/ (KeyOf(A, a) = key /\ x \in ToSet(a.receivers))
      BY <2>1, <2>2 DEF InGroup
    <2>7. \A x : x \in ToSet(r[k]) <=> x \in ToSet(rs) \/ (KeyOf(A, a) = key /\ x \in ToSet(a.receivers))
      BY <2>4, <2>5
    <2>. QED BY <2>1, <2>3, <2>6, <2>7
  <1>5. \A k \in 0 .. n : k \in P
    <2>. HIDE DEF P
    <2>. QED BY <1>3, <1>4, Ascend
  <1>6. n \in 0 .. n OBVIOUS
  <1>. QED BY <1>1, <1>2, <1>5, <1>6 DEF ReceiptStates

-----------------------------------------------------------------------------
(* Actions and their notifications *)

\* The action that i is, or repeats.
HeadOf(t, i) == IF IsNotice(t, i) THEN t[i].creator ELSE i

LEMMA HeadIsOwn ==
  ASSUME LookupAssumption, NEW t \in TraceSet, Flat(t), NEW i \in DOMAIN t, t[i].digest \notin Dropped
  PROVE  /\ HeadOf(t, i) \in Own(t) /\ t[HeadOf(t, i)].digest = t[i].digest /\ HeadOf(t, i) <= i
         /\ i \in Nat /\ HeadOf(t, i) \in Nat
  <1>1. PICK n \in Nat : n = Len(t) /\ DOMAIN t = 1 .. n BY DEF LookupAssumption
  <1>2. t[i].creator \in 0 .. i - 1 /\ i \in 1 .. n BY <1>1 DEF LookupAssumption
  <1>3. CASE IsNotice(t, i)
    <2>1. PICK c \in 1 .. i - 1 : c = t[i].creator /\ t[c].digest = t[i].digest BY <1>2, <1>3 DEF IsNotice
    <2>2. c \in DOMAIN t /\ ~IsNotice(t, c) BY <1>1, <1>2, <1>3, <2>1 DEF Flat
    <2>. QED BY <1>2, <1>3, <2>1, <2>2 DEF Own, HeadOf
  <1>4. CASE ~IsNotice(t, i) BY <1>2, <1>4 DEF Own, HeadOf
  <1>. QED BY <1>3, <1>4

LEMMA OwnIsHead ==
  ASSUME LookupAssumption, NEW t \in TraceSet
  PROVE  /\ \A i \in Own(t) : HeadOf(t, i) = i /\ i \in DOMAIN t /\ t[i].digest \notin Dropped
         /\ \A i \in DOMAIN t : HeadOf(t, i) = i /\ t[i].digest \notin Dropped => i \in Own(t)
  <1>1. \A i \in Own(t) : HeadOf(t, i) = i /\ i \in DOMAIN t /\ t[i].digest \notin Dropped BY DEF Own, HeadOf
  <1>2. ASSUME NEW i \in DOMAIN t, HeadOf(t, i) = i, t[i].digest \notin Dropped PROVE i \in Own(t)
    <2>1. t[i].creator \in 0 .. i - 1 /\ i \in Nat BY DEF LookupAssumption
    <2>2. t[i].creator # i BY <2>1
    <2>. QED BY <1>2, <2>2 DEF Own, HeadOf
  <1>. QED BY <1>1, <1>2

OfTrace(d, t) ==
    /\ d.ordinal \in DOMAIN t /\ d.digest = t[d.ordinal].digest /\ d.creator = t[d.ordinal].creator
    /\ d.digest \notin Dropped

\* The documents tell all that a trace has: the receivers of each action's
\* notifications, and the action before them.
Covers(D, t) ==
    /\ D \in SUBSET TrxDocs /\ \A d \in D : OfTrace(d, t)
    /\ \A i \in Own(t) : \E d \in D : d.ordinal = i
    /\ \A d \in D : \E e \in D : e.ordinal = HeadOf(t, d.ordinal) /\ e.seq <= d.seq
    /\ \A i \in Own(t) : \A x :
          x \in Receivers(t, i) <=> \E d \in D : HeadOf(t, d.ordinal) = i /\ x \in ToSet(d.receivers)

LEMMA GroupKeyIs ==
  ASSUME LookupAssumption, NEW t \in TraceSet, Flat(t),
         NEW A \in Seq(TrxDocs), Covers(ToSet(A), t), NEW a \in ToSet(A)
  PROVE  KeyOf(A, a) = <<t[HeadOf(t, a.ordinal)].digest, HeadOf(t, a.ordinal)>>
  <1>1. PICK i \in DOMAIN t : i = a.ordinal /\ a.digest = t[i].digest /\ a.creator = t[i].creator /\ t[i].digest \notin Dropped
    <2>1. OfTrace(a, t) BY DEF Covers
    <2>. QED BY <2>1 DEF OfTrace
  <1>2. PICK h : h = HeadOf(t, i) OBVIOUS
  <1>3. h \in Own(t) /\ t[h].digest = t[i].digest BY <1>1, <1>2, HeadIsOwn
  <1>4. \A k \in DOMAIN A : A[k] \in ToSet(A) /\ A[k].ordinal \in DOMAIN t /\ A[k].digest = t[A[k].ordinal].digest
    <2>1. \A k \in DOMAIN A : A[k] \in ToSet(A) BY DEF ToSet
    <2>. QED BY <2>1 DEF Covers, OfTrace
  <1>5. Canonical(A, a) = h
    <2>1. CASE IsNotice(t, i)
      <3>1. h = a.creator BY <1>1, <1>2, <2>1 DEF HeadOf
      <3>2. PICK d \in ToSet(A) : d.ordinal = h BY <1>3 DEF Covers
      <3>3. PICK k \in DOMAIN A : A[k] = d BY <3>2 DEF ToSet
      <3>4. A[k].ordinal = a.creator /\ A[k].digest = a.digest BY <1>1, <1>3, <1>4, <3>1, <3>2, <3>3
      <3>. QED BY <3>1, <3>4 DEF Canonical
    <2>2. CASE ~IsNotice(t, i)
      <3>1. h = a.ordinal BY <1>1, <1>2, <2>2 DEF HeadOf
      <3>2. ASSUME NEW k \in DOMAIN A, A[k].ordinal = a.creator, A[k].digest = a.digest PROVE FALSE
        <4>1. a.creator \in DOMAIN t /\ t[a.creator].digest = a.digest BY <1>4, <3>2
        <4>2. 0 \notin DOMAIN t BY DEF LookupAssumption
        <4>. QED BY <1>1, <2>2, <4>1, <4>2 DEF IsNotice
      <3>. QED BY <3>1, <3>2 DEF Canonical
    <2>. QED BY <2>1, <2>2
  <1>. QED BY <1>1, <1>2, <1>3, <1>5 DEF KeyOf

\* One group for each action, and its first document is the action's.
Grouped(A, t) ==
    /\ \A j, k \in DOMAIN A :
          KeyOf(A, A[j]) = KeyOf(A, A[k]) <=> HeadOf(t, A[j].ordinal) = HeadOf(t, A[k].ordinal)
    /\ \A k \in Heads(A) : k \in DOMAIN A /\ A[k].ordinal \in Own(t)
    /\ \A i \in Own(t) : \E k \in Heads(A) : A[k].ordinal = i
    /\ \A j, k \in Heads(A) : A[j].ordinal = A[k].ordinal => j = k

LEMMA GroupsAre ==
  ASSUME LookupAssumption, NEW t \in TraceSet, Flat(t),
         NEW A \in Seq(TrxDocs), Increasing(A), Covers(ToSet(A), t)
  PROVE  Grouped(A, t)
  <1>1. PICK n \in Nat : n = Len(A) /\ DOMAIN A = 1 .. n OBVIOUS
  <1>2. \A k \in DOMAIN A : A[k] \in ToSet(A) /\ A[k].seq \in Nat
    <2>1. \A k \in DOMAIN A : A[k] \in ToSet(A) BY DEF ToSet
    <2>2. \A k \in DOMAIN A : A[k] \in TrxDocs BY <1>1
    <2>. QED BY <2>1, <2>2 DEF TrxDocs
  <1>3. \A j, k \in DOMAIN A :
          KeyOf(A, A[j]) = KeyOf(A, A[k]) <=> HeadOf(t, A[j].ordinal) = HeadOf(t, A[k].ordinal)
    <2>1. \A k \in DOMAIN A : KeyOf(A, A[k]) = <<t[HeadOf(t, A[k].ordinal)].digest, HeadOf(t, A[k].ordinal)>>
      BY <1>2, GroupKeyIs
    <2>2. ASSUME NEW j \in DOMAIN A, NEW k \in DOMAIN A
          PROVE  KeyOf(A, A[j]) = KeyOf(A, A[k]) <=> HeadOf(t, A[j].ordinal) = HeadOf(t, A[k].ordinal)
      <3>1. PICK g, h : g = HeadOf(t, A[j].ordinal) /\ h = HeadOf(t, A[k].ordinal) OBVIOUS
      <3>2. KeyOf(A, A[j]) = <<t[g].digest, g>> /\ KeyOf(A, A[k]) = <<t[h].digest, h>> BY <2>1, <3>1
      <3>3. <<t[g].digest, g>> = <<t[h].digest, h>> <=> g = h OBVIOUS
      <3>. QED BY <3>1, <3>2, <3>3, Zenon
    <2>. QED BY <2>2
  \* the action of a group is not after the others
  <1>4. \A k \in DOMAIN A : \E j \in DOMAIN A :
           j <= k /\ A[j].ordinal = HeadOf(t, A[k].ordinal) /\ A[j].ordinal \in Own(t) /\ KeyOf(A, A[j]) = KeyOf(A, A[k])
    <2>. SUFFICES ASSUME NEW k \in DOMAIN A
                  PROVE \E j \in DOMAIN A : /\ j <= k /\ A[j].ordinal = HeadOf(t, A[k].ordinal) /\ A[j].ordinal \in Own(t)
                                            /\ KeyOf(A, A[j]) = KeyOf(A, A[k])
      OBVIOUS
    <2>1. PICK e \in ToSet(A) : e.ordinal = HeadOf(t, A[k].ordinal) /\ e.seq <= A[k].seq BY <1>2 DEF Covers
    <2>2. PICK j \in DOMAIN A : A[j] = e BY <2>1 DEF ToSet
    <2>3. j <= k
      <3>1. k < j => A[k].seq < A[j].seq BY DEF Increasing
      <3>2. A[k].seq \in Nat /\ A[j].seq \in Nat /\ A[j].seq <= A[k].seq BY <1>2, <2>1, <2>2
      <3>. QED BY <1>1, <3>1, <3>2
    <2>4. PICK i \in DOMAIN t : i = A[k].ordinal /\ t[i].digest \notin Dropped
      <3>1. OfTrace(A[k], t) BY <1>2 DEF Covers
      <3>. QED BY <3>1 DEF OfTrace
    <2>5. A[j].ordinal \in Own(t) BY <2>1, <2>2, <2>4, HeadIsOwn
    <2>6. HeadOf(t, A[j].ordinal) = HeadOf(t, A[k].ordinal) BY <2>1, <2>2, <2>5, OwnIsHead
    <2>. QED BY <1>3, <2>1, <2>2, <2>3, <2>5, <2>6
  <1>5. \A k \in Heads(A) : k \in DOMAIN A /\ A[k].ordinal \in Own(t)
    <2>. SUFFICES ASSUME NEW k \in Heads(A) PROVE k \in DOMAIN A /\ A[k].ordinal \in Own(t) OBVIOUS
    <2>1. k \in DOMAIN A /\ \A j \in 1 .. k - 1 : KeyOf(A, A[j]) # KeyOf(A, A[k]) BY DEF Heads
    <2>2. PICK j \in DOMAIN A : j <= k /\ A[j].ordinal \in Own(t) /\ KeyOf(A, A[j]) = KeyOf(A, A[k]) BY <1>4, <2>1
    <2>3. j = k
      <3>1. j \in 1 .. k - 1 \/ j = k BY <1>1, <2>1, <2>2
      <3>. QED BY <2>1, <2>2, <3>1
    <2>. QED BY <2>1, <2>2, <2>3
  <1>6. \A i \in Own(t) : \E k \in Heads(A) : A[k].ordinal = i
    <2>. SUFFICES ASSUME NEW i \in Own(t) PROVE \E k \in Heads(A) : A[k].ordinal = i OBVIOUS
    <2>1. PICK d \in ToSet(A) : d.ordinal = i BY DEF Covers
    <2>2. PICK m \in DOMAIN A : A[m] = d BY <2>1 DEF ToSet
    <2>3. PICK S \in SUBSET (1 .. n) : S = {k \in DOMAIN A : KeyOf(A, A[k]) = KeyOf(A, A[m])} BY <1>1
    <2>4. PICK k \in S : \A j \in S : k <= j
      <3>1. S # {} /\ S \in SUBSET Nat BY <2>2, <2>3
      <3>. QED BY <3>1, LeastNumber
    <2>5. k \in Heads(A)
      <3>1. \A j \in 1 .. k - 1 : j \notin S BY <1>1, <2>4
      <3>2. \A j \in 1 .. k - 1 : j \in DOMAIN A BY <1>1, <2>3, <2>4
      <3>. QED BY <2>3, <2>4, <3>1, <3>2 DEF Heads
    <2>6. A[k].ordinal \in Own(t) /\ k \in DOMAIN A BY <1>5, <2>5
    <2>7. HeadOf(t, A[k].ordinal) = HeadOf(t, i) BY <1>3, <2>1, <2>2, <2>3, <2>4, <2>6
    <2>. QED BY <2>5, <2>6, <2>7, OwnIsHead
  <1>7. \A j, k \in Heads(A) : A[j].ordinal = A[k].ordinal => j = k
    <2>. SUFFICES ASSUME NEW j \in Heads(A), NEW k \in Heads(A), A[j].ordinal = A[k].ordinal PROVE j = k OBVIOUS
    <2>1. KeyOf(A, A[j]) = KeyOf(A, A[k]) /\ j \in 1 .. n /\ k \in 1 .. n BY <1>1, <1>3, <1>5
    <2>2. j \notin 1 .. k - 1 /\ k \notin 1 .. j - 1 BY <2>1 DEF Heads
    <2>. QED BY <2>1, <2>2
  <1>. QED BY <1>3, <1>5, <1>6, <1>7, Zenon DEF Grouped

-----------------------------------------------------------------------------
(* Grouping *)

ShowsTrace(R, t) ==
    /\ Len(R) = Cardinality(Own(t))
    /\ \A i \in Own(t) : \E k \in DOMAIN R :
          R[k].ordinal = i /\ R[k].digest = t[i].digest /\ ToSet(R[k].receivers) = Receivers(t, i)

\* What grouping A leaves.
Origins(R, A) == \A d \in ToSet(R) : \E e \in ToSet(A) : e.seq = d.seq /\ e.block = d.block /\ e.run = d.run
GroupsOf(R, A, t) ==
    /\ R \in Seq(TrxDocs) /\ Covers(ToSet(R), t) /\ Distinct(ToSet(R))
    /\ ShowsTrace(R, t)

\* B is A with the receipts of the groups.
WithReceipts(B, A, distinct) ==
    /\ B \in Seq(TrxDocs) /\ DOMAIN B = DOMAIN A
    /\ \A k \in DOMAIN A :
          /\ B[k] \in TrxDocs /\ B[k].ordinal = A[k].ordinal /\ B[k].digest = A[k].digest
          /\ B[k].creator = A[k].creator /\ B[k].seq = A[k].seq /\ B[k].block = A[k].block /\ B[k].run = A[k].run
          /\ B[k].receivers = Receipts(A, KeyOf(A, A[k]), distinct)

HeadsOf(R, B, H) == R \in Seq(TrxDocs) /\ Len(R) = Cardinality(H) /\ ToSet(R) = {B[k] : k \in H}

LEMMA GroupsKeep ==
  ASSUME NEW A \in Seq(TrxDocs), NEW distinct
  PROVE  \E B : WithReceipts(B, A, distinct) /\ HeadsOf(Merge(A, distinct), B, Heads(A))
  <1>1. PICK n \in Nat : n = Len(A) /\ DOMAIN A = 1 .. n /\ \A k \in 1 .. n : A[k] \in TrxDocs
    <2>1. PICK m \in Nat : m = Len(A) /\ DOMAIN A = 1 .. m OBVIOUS
    <2>. QED BY <2>1
  <1>2. PICK B : B = [k \in DOMAIN A |-> [A[k] EXCEPT !.receivers = Receipts(A, KeyOf(A, A[k]), distinct)]] OBVIOUS
  <1>3. PICK H : H = Heads(A) OBVIOUS
  <1>4. PICK R : R = Merge(A, distinct) /\ R = Selected(B, H) BY <1>2, <1>3, Zenon DEF Merge
  <1>6. ASSUME NEW k \in 1 .. n
        PROVE  /\ B[k] \in TrxDocs /\ B[k].ordinal = A[k].ordinal /\ B[k].digest = A[k].digest
               /\ B[k].creator = A[k].creator /\ B[k].seq = A[k].seq /\ B[k].block = A[k].block
               /\ B[k].run = A[k].run /\ B[k].receivers = Receipts(A, KeyOf(A, A[k]), distinct)
    <2>1. PICK rs \in Seq(Names) : rs = Receipts(A, KeyOf(A, A[k]), distinct)
      <3>1. PICK key : key = KeyOf(A, A[k]) OBVIOUS
      <3>2. Receipts(A, key, distinct) \in Seq(Names) BY ReceiptsAre
      <3>. QED BY <3>1, <3>2
    <2>2. PICK a \in TrxDocs : a = A[k] BY <1>1
    <2>3. B[k] = [a EXCEPT !.receivers = rs] BY <1>1, <1>2, <2>1, <2>2
    <2>. QED BY <2>1, <2>2, <2>3 DEF TrxDocs
  <1>7. B \in Seq(TrxDocs) /\ DOMAIN B = 1 .. n BY <1>1, <1>2, <1>6
  <1>8. H \in SUBSET (1 .. n) BY <1>1, <1>3 DEF Heads
  <1>9. R \in Seq(TrxDocs) /\ Len(R) = Cardinality(H) /\ ToSet(R) = {B[k] : k \in H}
    BY <1>4, <1>7, <1>8, SelectedKeeps
  <1>10. WithReceipts(B, A, distinct) BY <1>1, <1>6, <1>7 DEF WithReceipts
  <1>11. HeadsOf(R, B, H) BY <1>9 DEF HeadsOf
  <1>. QED BY <1>3, <1>4, <1>10, <1>11, Zenon

\* Grouped documents are some of those before, with more receipts.
LEMMA GroupedOrigins ==
  ASSUME NEW A \in Seq(TrxDocs)
  PROVE  GroupActionTraces(A) \in Seq(TrxDocs) /\ Origins(GroupActionTraces(A), A)
  <1>1. PICK R : R = Merge(A, FALSE) OBVIOUS
  <1>0. PICK B : WithReceipts(B, A, FALSE) /\ HeadsOf(R, B, Heads(A))
    <2>1. \E B : WithReceipts(B, A, FALSE) /\ HeadsOf(Merge(A, FALSE), B, Heads(A)) BY GroupsKeep
    <2>. QED BY <1>1, <2>1, Zenon
  <1>2. R \in Seq(TrxDocs) /\ ToSet(R) = {B[k] : k \in Heads(A)} BY <1>0 DEF HeadsOf
  <1>3. \A k \in Heads(A) : k \in DOMAIN A /\ A[k] \in ToSet(A) BY DEF Heads, ToSet
  <1>4. Origins(R, A)
    <2>. SUFFICES ASSUME NEW d \in ToSet(R)
                  PROVE \E e \in ToSet(A) : e.seq = d.seq /\ e.block = d.block /\ e.run = d.run
      BY DEF Origins
    <2>1. PICK k \in Heads(A) : d = B[k] BY <1>2
    <2>. QED BY <1>0, <1>3, <2>1 DEF WithReceipts
  <1>5. Origins(A, A) BY DEF Origins
  <1>6. GroupActionTraces(A) = A \/ GroupActionTraces(A) = R BY <1>1, Zenon DEF GroupActionTraces
  <1>. QED BY <1>2, <1>4, <1>5, <1>6

LEMMA MergeIs ==
  ASSUME LookupAssumption, NEW t \in TraceSet, Flat(t),
         NEW A \in Seq(TrxDocs), Increasing(A), Covers(ToSet(A), t), NEW distinct
  PROVE  GroupsOf(Merge(A, distinct), A, t)
  <1>1. PICK n \in Nat : n = Len(A) /\ DOMAIN A = 1 .. n /\ \A k \in 1 .. n : A[k] \in TrxDocs /\ A[k] \in ToSet(A)
    BY DEF ToSet
  <1>3. PICK H : H = Heads(A) OBVIOUS
  <1>4. PICK R : R = Merge(A, distinct) OBVIOUS
  <1>2. PICK B : WithReceipts(B, A, distinct) /\ HeadsOf(R, B, H)
    <2>1. \E B : WithReceipts(B, A, distinct) /\ HeadsOf(Merge(A, distinct), B, Heads(A)) BY GroupsKeep
    <2>. QED BY <1>3, <1>4, <2>1, Zenon
  <1>5. Grouped(A, t) BY GroupsAre
  <1>6. \A k \in 1 .. n :
          /\ B[k] \in TrxDocs /\ B[k].ordinal = A[k].ordinal /\ B[k].digest = A[k].digest
          /\ B[k].creator = A[k].creator /\ B[k].seq = A[k].seq /\ B[k].block = A[k].block
          /\ B[k].receivers = Receipts(A, KeyOf(A, A[k]), distinct)
    BY <1>1, <1>2 DEF WithReceipts
  <1>7. B \in Seq(TrxDocs) /\ DOMAIN B = 1 .. n BY <1>1, <1>2 DEF WithReceipts
  <1>8. H \in SUBSET (1 .. n) BY <1>1, <1>3 DEF Heads
  <1>9. R \in Seq(TrxDocs) /\ Len(R) = Cardinality(H) /\ ToSet(R) = {B[k] : k \in H} BY <1>2 DEF HeadsOf
  <1>10. /\ \A k \in H : A[k].ordinal \in Own(t)
         /\ \A i \in Own(t) : \E k \in H : A[k].ordinal = i
         /\ \A j, k \in H : A[j].ordinal = A[k].ordinal => j = k
    BY <1>3, <1>5 DEF Grouped
  <1>11. \A k \in H : ToSet(B[k].receivers) = Receivers(t, A[k].ordinal)
    <2>. SUFFICES ASSUME NEW k \in H, NEW x
                  PROVE  x \in ToSet(B[k].receivers) <=> x \in Receivers(t, A[k].ordinal)
      OBVIOUS
    <2>1. PICK i \in Own(t) : i = A[k].ordinal BY <1>10
    <2>2. HeadOf(t, i) = i BY OwnIsHead
    <2>3. x \in ToSet(B[k].receivers) <=> InGroup(x, A, KeyOf(A, A[k]), n)
      <3>1. PICK key : key = KeyOf(A, A[k]) OBVIOUS
      <3>2. x \in ToSet(Receipts(A, key, distinct)) <=> InGroup(x, A, key, n) BY <1>1, ReceiptsAre
      <3>. QED BY <1>6, <1>8, <3>1, <3>2
    <2>4. \A j \in 1 .. n : KeyOf(A, A[j]) = KeyOf(A, A[k]) <=> HeadOf(t, A[j].ordinal) = i
      BY <1>1, <1>5, <1>8, <2>1, <2>2 DEF Grouped
    <2>5. InGroup(x, A, KeyOf(A, A[k]), n) <=> \E j \in 1 .. n : HeadOf(t, A[j].ordinal) = i /\ x \in ToSet(A[j].receivers)
      BY <2>4 DEF InGroup
    <2>6. x \in Receivers(t, i) <=> \E d \in ToSet(A) : HeadOf(t, d.ordinal) = i /\ x \in ToSet(d.receivers)
      BY DEF Covers
    <2>7. \A d \in ToSet(A) : \E j \in 1 .. n : A[j] = d BY <1>1 DEF ToSet
    <2>. QED BY <1>1, <2>1, <2>3, <2>5, <2>6, <2>7
  <1>12. Covers(ToSet(R), t)
    <2>1. \A d \in ToSet(R) : d \in TrxDocs /\ OfTrace(d, t) /\ d.ordinal \in Own(t) /\ HeadOf(t, d.ordinal) = d.ordinal
      <3>. SUFFICES ASSUME NEW d \in ToSet(R)
                    PROVE  d \in TrxDocs /\ OfTrace(d, t) /\ d.ordinal \in Own(t) /\ HeadOf(t, d.ordinal) = d.ordinal
        OBVIOUS
      <3>1. PICK k \in H : B[k] = d /\ k \in 1 .. n BY <1>8, <1>9
      <3>2. OfTrace(A[k], t) BY <1>1, <3>1 DEF Covers
      <3>3. OfTrace(B[k], t) BY <1>6, <3>1, <3>2 DEF OfTrace
      <3>4. B[k].ordinal \in Own(t) BY <1>6, <1>10, <3>1
      <3>. QED BY <1>6, <3>1, <3>3, <3>4, OwnIsHead
    <2>2. \A i \in Own(t) : \E d \in ToSet(R) : d.ordinal = i
      <3>. SUFFICES ASSUME NEW i \in Own(t) PROVE \E d \in ToSet(R) : d.ordinal = i OBVIOUS
      <3>1. PICK k \in H : A[k].ordinal = i /\ k \in 1 .. n BY <1>8, <1>10
      <3>2. B[k] \in ToSet(R) BY <1>9, <3>1
      <3>3. B[k].ordinal = i BY <1>6, <3>1
      <3>. QED BY <3>2, <3>3
    <2>3. \A d \in ToSet(R) : \E e \in ToSet(R) : e.ordinal = HeadOf(t, d.ordinal) /\ e.seq <= d.seq
      <3>1. \A d \in ToSet(R) : d.seq <= d.seq BY <2>1 DEF TrxDocs
      <3>. QED BY <2>1, <3>1
    <2>4. ASSUME NEW i \in Own(t), NEW x
          PROVE  x \in Receivers(t, i) <=> \E d \in ToSet(R) : HeadOf(t, d.ordinal) = i /\ x \in ToSet(d.receivers)
      <3>1. PICK k \in H : A[k].ordinal = i /\ k \in 1 .. n BY <1>8, <1>10
      <3>2. B[k] \in ToSet(R) /\ HeadOf(t, B[k].ordinal) = i /\ ToSet(B[k].receivers) = Receivers(t, i)
        BY <1>6, <1>9, <1>11, <2>1, <3>1
      <3>3. \A d \in ToSet(R) : HeadOf(t, d.ordinal) = i => d = B[k]
        <4>. SUFFICES ASSUME NEW d \in ToSet(R), HeadOf(t, d.ordinal) = i PROVE d = B[k] OBVIOUS
        <4>1. PICK j \in H : B[j] = d /\ j \in 1 .. n BY <1>8, <1>9
        <4>2. A[j].ordinal = A[k].ordinal BY <1>6, <2>1, <3>1, <4>1
        <4>. QED BY <1>10, <3>1, <4>1, <4>2
      <3>. QED BY <3>2, <3>3
    <2>. QED BY <2>1, <2>2, <2>3, <2>4, Zenon DEF Covers
  <1>13. Distinct(ToSet(R))
    <2>. SUFFICES ASSUME NEW d \in ToSet(R), NEW e \in ToSet(R), d.seq = e.seq PROVE d = e BY DEF Distinct
    <2>1. PICK j, k \in H : B[j] = d /\ B[k] = e BY <1>9
    <2>2. j \in 1 .. n /\ k \in 1 .. n /\ A[j].seq = A[k].seq BY <1>6, <1>8, <2>1
    <2>3. A[j].seq \in Nat /\ A[k].seq \in Nat BY <1>1, <2>2 DEF TrxDocs
    <2>4. ~(j < k) /\ ~(k < j)
      <3>1. PICK x, y \in Nat : x = A[j].seq /\ y = A[k].seq /\ x = y BY <2>2, <2>3
      <3>2. /\ (j < k => A[j].seq < A[k].seq) /\ (k < j => A[k].seq < A[j].seq) BY <1>1, <2>2 DEF Increasing
      <3>3. ~(x < y) /\ ~(y < x) BY <3>1
      <3>. QED BY <3>1, <3>2, <3>3
    <2>. QED BY <2>1, <2>2, <2>4
  <1>15. ShowsTrace(R, t)
    <2>1. Cardinality(H) = Cardinality(Own(t))
      <3>1. PICK m \in Nat : DOMAIN t = 1 .. m BY DEF LookupAssumption
      <3>2. IsFiniteSet(Own(t))
        <4>1. IsFiniteSet(1 .. m) /\ Own(t) \in SUBSET (1 .. m) BY <3>1, FS_Interval DEF Own
        <4>. QED BY <4>1, FS_Subset
      <3>3. PICK f : f = [k \in H |-> A[k].ordinal] OBVIOUS
      <3>4. f \in Injection(H, Own(t))
        <4>1. f \in [H -> Own(t)] BY <1>10, <3>3
        <4>2. \A j, k \in H : f[j] = f[k] => j = k BY <1>10, <3>3
        <4>. QED BY <4>1, <4>2 DEF Injection, IsInjective
      <3>5. f \in Surjection(H, Own(t)) BY <1>10, <3>3 DEF Surjection
      <3>. QED BY <3>2, <3>4, <3>5, FS_Injection
    <2>2. ASSUME NEW i \in Own(t)
          PROVE  \E k \in DOMAIN R :
                    R[k].ordinal = i /\ R[k].digest = t[i].digest /\ ToSet(R[k].receivers) = Receivers(t, i)
      <3>1. PICK k \in H : A[k].ordinal = i /\ k \in 1 .. n BY <1>8, <1>10
      <3>2. B[k] \in ToSet(R) BY <1>9, <3>1
      <3>3. PICK j \in DOMAIN R : R[j] = B[k] BY <3>2 DEF ToSet
      <3>4. OfTrace(B[k], t) BY <1>12, <3>2 DEF Covers
      <3>5. B[k].ordinal = i /\ ToSet(B[k].receivers) = Receivers(t, i) BY <1>6, <1>11, <3>1
      <3>6. B[k].digest = t[i].digest BY <3>4, <3>5 DEF OfTrace
      <3>. QED BY <3>3, <3>5, <3>6
    <2>. QED BY <1>9, <2>1, <2>2, Zenon DEF ShowsTrace
  <1>. QED BY <1>4, <1>9, <1>12, <1>13, <1>15, Zenon DEF GroupsOf

\* A single document has nothing to be grouped with.
LEMMA OneIsGrouped ==
  ASSUME LookupAssumption, NEW t \in TraceSet,
         NEW A \in Seq(TrxDocs), Len(A) <= 1, Covers(ToSet(A), t)
  PROVE  GroupsOf(A, A, t)
  <1>1. PICK n \in 0 .. 1 : n = Len(A) /\ DOMAIN A = 1 .. n /\ \A k \in 1 .. n : A[k] \in TrxDocs /\ A[k] \in ToSet(A)
    <2>1. PICK m \in Nat : m = Len(A) /\ DOMAIN A = 1 .. m /\ m <= 1 OBVIOUS
    <2>2. \A k \in 1 .. m : A[k] \in TrxDocs /\ A[k] \in ToSet(A) BY <2>1 DEF ToSet
    <2>3. m \in 0 .. 1 BY <2>1
    <2>. QED BY <2>1, <2>2, <2>3
  <1>2. Distinct(ToSet(A))
    <2>1. \A j, k \in 1 .. n : j = k BY <1>1
    <2>. QED BY <1>1, <2>1 DEF Distinct, ToSet
  <1>3. ASSUME NEW i \in Own(t)
        PROVE  n = 1 /\ A[1].ordinal = i /\ A[1].digest = t[i].digest /\ ToSet(A[1].receivers) = Receivers(t, i)
    <2>1. PICK d \in ToSet(A) : d.ordinal = i BY DEF Covers
    <2>2. n = 1 /\ A[1] = d /\ \A e \in ToSet(A) : e = d
      <3>1. PICK k \in 1 .. n : A[k] = d BY <1>1, <2>1 DEF ToSet
      <3>2. n = 1 /\ k = 1 BY <3>1
      <3>3. \A e \in ToSet(A) : \E j \in 1 .. n : A[j] = e BY <1>1 DEF ToSet
      <3>. QED BY <3>1, <3>2, <3>3
    <2>3. OfTrace(d, t) BY DEF Covers
    <2>4. HeadOf(t, i) = i BY OwnIsHead
    <2>5. \A x : x \in Receivers(t, i) <=> x \in ToSet(d.receivers) BY <2>1, <2>2, <2>4 DEF Covers
    <2>6. ToSet(d.receivers) = Receivers(t, i) BY <2>5
    <2>. QED BY <2>1, <2>2, <2>3, <2>6 DEF OfTrace
  <1>4. Cardinality(Own(t)) = n
    <2>1. CASE n = 0
      <3>1. Own(t) = {} BY <1>3, <2>1
      <3>. QED BY <2>1, <3>1, FS_EmptySet
    <2>2. CASE n = 1
      <3>1. PICK d \in ToSet(A) : d = A[1] BY <1>1, <2>2
      <3>2. PICK e \in ToSet(A) : e.ordinal = HeadOf(t, d.ordinal) BY DEF Covers
      <3>3. e = d BY <1>1, <2>2, <3>1 DEF ToSet
      <3>4. d.ordinal \in DOMAIN t /\ t[d.ordinal].digest \notin Dropped
        <4>1. OfTrace(d, t) BY DEF Covers
        <4>. QED BY <4>1 DEF OfTrace
      <3>5. d.ordinal \in Own(t) BY <3>2, <3>3, <3>4, OwnIsHead
      <3>6. Own(t) = {d.ordinal} BY <1>3, <3>1, <3>5
      <3>. QED BY <2>2, <3>6, FS_Singleton
    <2>. QED BY <1>1, <2>1, <2>2
  <1>5. ShowsTrace(A, t) BY <1>1, <1>3, <1>4 DEF ShowsTrace
  <1>. QED BY <1>2, <1>5 DEF GroupsOf

\* The worker's grouping and the API's.
LEMMA GroupingIs ==
  ASSUME LookupAssumption, NEW t \in TraceSet, Flat(t),
         NEW A \in Seq(TrxDocs), Increasing(A), Covers(ToSet(A), t)
  PROVE  GroupsOf(GroupActionTraces(A), A, t) /\ GroupsOf(RegroupActions(A), A, t)
  <1>1. GroupsOf(Merge(A, FALSE), A, t) /\ GroupsOf(Merge(A, TRUE), A, t) BY MergeIs
  <1>2. Len(A) <= 1 => GroupsOf(A, A, t) BY OneIsGrouped
  <1>. QED BY <1>1, <1>2, Zenon DEF GroupActionTraces, RegroupActions

-----------------------------------------------------------------------------
(* The documents of an execution *)

ParsedAs(A, t, b, base, m) ==
    /\ A \in Seq(TrxDocs) /\ Increasing(A) /\ Covers(ToSet(A), t)
    /\ \A d \in ToSet(A) : d.block = b /\ d.run = m /\ d.seq \in base + 1 .. base + Len(t)

LEMMA ParsedIs ==
  ASSUME LookupAssumption, NEW t \in TraceSet, NEW b \in TrxBlocks, NEW base \in Nat, NEW m \in Nat
  PROVE  ParsedAs(Parsed(t, b, base, m), t, b, base, m)
  <1>1. PICK n \in Nat : n = Len(t) /\ DOMAIN t = 1 .. n BY DEF LookupAssumption
  <1>0. \A i \in 1 .. n : t[i].creator \in 0 .. i - 1 BY <1>1 DEF LookupAssumption
  <1>2. PICK B : B = [i \in DOMAIN t |->
                        [ordinal |-> i, digest |-> t[i].digest, creator |-> t[i].creator,
                         receivers |-> <<t[i].receiver>>, block |-> b, seq |-> base + i, run |-> m]]
    OBVIOUS
  <1>3. PICK S : S = {i \in DOMAIN t : t[i].digest \notin Dropped} OBVIOUS
  <1>4. PICK A : A = Parsed(t, b, base, m) /\ A = Selected(B, S) BY <1>2, <1>3, Zenon DEF Parsed
  <1>5. \A i \in 1 .. n :
          /\ B[i].ordinal = i /\ B[i].digest = t[i].digest /\ B[i].creator = t[i].creator
          /\ B[i].receivers = <<t[i].receiver>> /\ B[i].block = b /\ B[i].seq = base + i /\ B[i].run = m
    BY <1>1, <1>2
  <1>6. \A i \in 1 .. n : B[i] \in TrxDocs
    <2>. SUFFICES ASSUME NEW i \in 1 .. n PROVE B[i] \in TrxDocs OBVIOUS
    <2>1. t[i].digest \in Digests BY <1>1 DEF Digests
    <2>2. t[i].receiver \in Names BY <1>1 DEF Names
    <2>3. <<t[i].receiver>> \in Seq(Names) BY <2>2
    <2>4. t[i].creator \in Nat /\ base + i \in Nat /\ i \in Nat BY <1>0
    <2>. QED BY <1>1, <1>2, <2>1, <2>3, <2>4 DEF TrxDocs
  <1>7. B \in Seq(TrxDocs) /\ DOMAIN B = 1 .. n BY <1>1, <1>2, <1>6
  <1>8. S \in SUBSET (1 .. n) /\ Numbers(S) BY <1>1, <1>3 DEF Numbers
  <1>9. A \in Seq(TrxDocs) /\ ToSet(A) = {B[k] : k \in S}
    <2>1. S \in SUBSET DOMAIN B BY <1>7, <1>8
    <2>2. Selected(B, S) \in Seq(TrxDocs) /\ ToSet(Selected(B, S)) = {B[k] : k \in S} BY <1>7, <2>1, SelectedKeeps
    <2>. QED BY <1>4, <2>2
  <1>10. Increasing(A)
    <2>1. PICK f : Counts(f, S) /\ Selected(B, S) = [i \in 1 .. Cardinality(S) |-> B[f[i]]] BY <1>8, SelectedIs
    <2>2. PICK c \in Nat : c = Cardinality(S) BY <2>1 DEF Counts
    <2>3. A = [i \in 1 .. c |-> B[f[i]]] BY <1>4, <2>1, <2>2
    <2>. SUFFICES ASSUME NEW i \in 1 .. c, NEW j \in 1 .. c, i < j PROVE A[i].seq < A[j].seq
      BY <2>3 DEF Increasing
    <2>4. f[i] \in 1 .. n /\ f[j] \in 1 .. n /\ f[i] < f[j] BY <1>8, <2>1, <2>2 DEF Counts
    <2>5. A[i].seq = base + f[i] /\ A[j].seq = base + f[j] BY <1>5, <2>3, <2>4
    <2>. QED BY <2>4, <2>5
  <1>11. Covers(ToSet(A), t)
    <2>1. \A k \in S : B[k] \in TrxDocs /\ OfTrace(B[k], t) /\ B[k] \in ToSet(A) /\ k \in 1 .. n
      BY <1>1, <1>3, <1>5, <1>6, <1>8, <1>9 DEF OfTrace
    <2>2. \A i \in Own(t) : \E d \in ToSet(A) : d.ordinal = i
      <3>1. \A i \in Own(t) : i \in S BY <1>3 DEF Own
      <3>. QED BY <1>5, <2>1, <3>1
    <2>3. \A d \in ToSet(A) : \E e \in ToSet(A) : e.ordinal = HeadOf(t, d.ordinal) /\ e.seq <= d.seq
      <3>. SUFFICES ASSUME NEW k \in S
                    PROVE \E e \in ToSet(A) : e.ordinal = HeadOf(t, B[k].ordinal) /\ e.seq <= B[k].seq
        BY <1>9
      <3>1. k \in 1 .. n /\ t[k].digest \notin Dropped BY <1>3, <2>1
      <3>2. PICK h : h = HeadOf(t, k) OBVIOUS
      <3>3. h \in S /\ h \in 1 .. n /\ h <= k
        <4>1. CASE IsNotice(t, k)
          <5>1. h = t[k].creator /\ h # 0 /\ t[h].digest = t[k].digest BY <3>2, <4>1 DEF HeadOf, IsNotice
          <5>2. h \in 1 .. k - 1 BY <1>0, <3>1, <5>1
          <5>3. h \in 1 .. n BY <3>1, <5>2
          <5>. QED BY <1>1, <1>3, <3>1, <5>1, <5>2, <5>3
        <4>2. CASE ~IsNotice(t, k) BY <3>1, <3>2, <4>2 DEF HeadOf
        <4>. QED BY <4>1, <4>2
      <3>4. B[h].ordinal = h /\ B[k].ordinal = k /\ B[h].seq = base + h /\ B[k].seq = base + k
        BY <1>5, <3>1, <3>3
      <3>5. B[h].seq <= B[k].seq BY <3>1, <3>3, <3>4
      <3>. QED BY <2>1, <3>2, <3>3, <3>4, <3>5
    <2>4. ASSUME NEW i \in Own(t), NEW x
          PROVE  x \in Receivers(t, i) <=> \E d \in ToSet(A) : HeadOf(t, d.ordinal) = i /\ x \in ToSet(d.receivers)
      <3>1. i \in 1 .. n /\ t[i].digest \notin Dropped /\ ~IsNotice(t, i) BY <1>1 DEF Own
      <3>2. x \in Receivers(t, i) <=>
              \E j \in 1 .. n : (j = i \/ (IsNotice(t, j) /\ t[j].creator = i)) /\ x = t[j].receiver
        BY <1>1, <3>1 DEF Receivers
      <3>3. \A j \in 1 .. n : (j = i \/ (IsNotice(t, j) /\ t[j].creator = i)) <=> HeadOf(t, j) = i /\ j \in S
        <4>. SUFFICES ASSUME NEW j \in 1 .. n
                      PROVE  (j = i \/ (IsNotice(t, j) /\ t[j].creator = i)) <=> HeadOf(t, j) = i /\ j \in S
          OBVIOUS
        <4>1. CASE IsNotice(t, j)
          <5>1. j # i /\ HeadOf(t, j) = t[j].creator BY <3>1, <4>1 DEF HeadOf
          <5>2. t[j].creator = i => j \in S BY <1>1, <1>3, <3>1, <4>1 DEF IsNotice
          <5>. QED BY <4>1, <5>1, <5>2
        <4>2. CASE ~IsNotice(t, j)
          <5>1. HeadOf(t, j) = j BY <4>2 DEF HeadOf
          <5>2. i \in S BY <1>1, <1>3, <3>1
          <5>. QED BY <4>2, <5>1, <5>2
        <4>. QED BY <4>1, <4>2
      <3>4. \A j \in 1 .. n : x \in ToSet(B[j].receivers) <=> x = t[j].receiver
        <4>. SUFFICES ASSUME NEW j \in 1 .. n PROVE x \in ToSet(B[j].receivers) <=> x = t[j].receiver OBVIOUS
        <4>1. PICK y : y = t[j].receiver OBVIOUS
        <4>2. B[j].receivers = <<y>> BY <1>5, <4>1
        <4>3. ToSet(<<y>>) = {y} BY DEF ToSet
        <4>. QED BY <4>1, <4>2, <4>3
      <3>5. (\E d \in ToSet(A) : HeadOf(t, d.ordinal) = i /\ x \in ToSet(d.receivers)) <=>
               \E j \in S : HeadOf(t, j) = i /\ x = t[j].receiver
        <4>1. \A d \in ToSet(A) : \E j \in S : B[j] = d /\ j \in 1 .. n BY <1>8, <1>9
        <4>2. \A j \in S : B[j] \in ToSet(A) /\ B[j].ordinal = j /\ (x \in ToSet(B[j].receivers) <=> x = t[j].receiver)
          BY <1>5, <1>8, <1>9, <3>4
        <4>3. ASSUME NEW d \in ToSet(A), HeadOf(t, d.ordinal) = i, x \in ToSet(d.receivers)
              PROVE  \E j \in S : HeadOf(t, j) = i /\ x = t[j].receiver
          <5>1. PICK j \in S : B[j] = d BY <4>1
          <5>. QED BY <4>2, <4>3, <5>1
        <4>4. ASSUME NEW j \in S, HeadOf(t, j) = i, x = t[j].receiver
              PROVE  \E d \in ToSet(A) : HeadOf(t, d.ordinal) = i /\ x \in ToSet(d.receivers)
          <5>1. PICK d \in ToSet(A) : d = B[j] BY <4>2
          <5>2. HeadOf(t, d.ordinal) = i /\ x \in ToSet(d.receivers) BY <4>2, <4>4, <5>1
          <5>. QED BY <5>2
        <4>. QED BY <4>3, <4>4
      <3>. QED BY <1>8, <3>2, <3>3, <3>5
    <2>5. ToSet(A) \in SUBSET TrxDocs /\ \A d \in ToSet(A) : OfTrace(d, t) BY <1>9, <2>1
    <2>. QED BY <2>2, <2>3, <2>4, <2>5, Zenon DEF Covers
  <1>12. ASSUME NEW d \in ToSet(A) PROVE d.block = b /\ d.run = m /\ d.seq \in base + 1 .. base + Len(t)
    <2>1. PICK k \in 1 .. n : d = B[k] BY <1>8, <1>9
    <2>2. d.block = b /\ d.run = m /\ d.seq = base + k BY <1>5, <2>1
    <2>3. base + k \in base + 1 .. base + n OBVIOUS
    <2>. QED BY <1>1, <2>2, <2>3
  <1>. QED BY <1>4, <1>9, <1>10, <1>11, <1>12 DEF ParsedAs

-----------------------------------------------------------------------------
(* The documents that are kept *)

Executions == [trace : TraceSet, block : TrxBlocks, base : Nat]
AllRuns(R) == R \in Seq(Executions) /\ Len(R) \in 0 .. 2

LEMMA RunsAre ==
  ASSUME LookupAssumption, NEW R, AllRuns(R)
  PROVE  \A k \in DOMAIN R : /\ R[k].trace \in TraceSet /\ R[k].block \in TrxBlocks /\ R[k].base \in Nat
                             /\ k \in 1 .. 2 /\ R[k].block \in Nat
  <1>1. PICK n \in 0 .. 2 : n = Len(R) BY DEF AllRuns
  <1>2. R \in Seq(Executions) BY DEF AllRuns
  <1>3. DOMAIN R = 1 .. n /\ \A k \in 1 .. n : R[k] \in Executions BY <1>1, <1>2
  <1>4. 1 .. n \in SUBSET (1 .. 2) BY <1>1
  <1>5. TrxBlocks \in SUBSET Nat BY DEF LookupAssumption
  <1>. SUFFICES ASSUME NEW k \in DOMAIN R
                PROVE  /\ R[k].trace \in TraceSet /\ R[k].block \in TrxBlocks /\ R[k].base \in Nat
                       /\ k \in 1 .. 2 /\ R[k].block \in Nat
    OBVIOUS
  <1>6. PICK r \in Executions : r = R[k] BY <1>3
  <1>7. r.trace \in TraceSet /\ r.block \in TrxBlocks /\ r.base \in Nat BY DEF Executions
  <1>. QED BY <1>3, <1>4, <1>5, <1>6, <1>7

ActionsOf(R, k) == Parsed(R[k].trace, R[k].block, R[k].base, k)
DocsOf(R, k, grouped) == ToSet(IF grouped THEN GroupActionTraces(ActionsOf(R, k)) ELSE ActionsOf(R, k))

\* What is known of an execution's documents, and of those of a trace whose
\* notifications are not sent on.
OfRun(D, k) == IsFiniteSet(D) /\ \A d \in D : d.run = k
OfFlat(D, r) ==
    /\ Covers(D, r.trace) /\ Distinct(D)
    /\ \A d \in D : d.block = r.block /\ d.seq \in r.base + 1 .. r.base + Len(r.trace)

LEMMA IncreasingDistinct ==
  ASSUME NEW A \in Seq(TrxDocs), Increasing(A)
  PROVE  Distinct(ToSet(A))
  <1>. SUFFICES ASSUME NEW d \in ToSet(A), NEW e \in ToSet(A), d.seq = e.seq PROVE d = e BY DEF Distinct
  <1>1. PICK n \in Nat : DOMAIN A = 1 .. n /\ n = Len(A) OBVIOUS
  <1>2. PICK i, j \in 1 .. n : A[i] = d /\ A[j] = e BY <1>1 DEF ToSet
  <1>3. ~(A[i].seq < A[j].seq) /\ ~(A[j].seq < A[i].seq)
    <2>1. PICK x \in Nat : x = A[i].seq /\ x = A[j].seq
      <3>1. A[i] \in TrxDocs BY <1>1
      <3>2. A[i].seq \in Nat BY <3>1 DEF TrxDocs
      <3>. QED BY <1>2, <3>2
    <2>2. ~(x < x) OBVIOUS
    <2>. QED BY <2>1, <2>2
  <1>4. ~(i < j) /\ ~(j < i) BY <1>1, <1>3 DEF Increasing
  <1>. QED BY <1>2, <1>4

LEMMA ListedIsFinite ==
  ASSUME NEW A \in Seq(TrxDocs)
  PROVE  IsFiniteSet(ToSet(A))
  <1>1. PICK n \in Nat : DOMAIN A = 1 .. n OBVIOUS
  <1>2. PICK S : S = 1 .. n OBVIOUS
  <1>3. IsFiniteSet(S) BY <1>2, FS_Interval
  <1>4. ToSet(A) = {A[i] : i \in S} BY <1>1, <1>2 DEF ToSet
  <1>5. PICK f : f = [i \in S |-> A[i]] OBVIOUS
  <1>6. f \in Surjection(S, ToSet(A)) BY <1>4, <1>5 DEF Surjection
  <1>. QED BY <1>3, <1>6, FS_Surjection

LEMMA DocsAre ==
  ASSUME LookupAssumption, NEW R, AllRuns(R), NEW k \in DOMAIN R, NEW grouped
  PROVE  /\ OfRun(DocsOf(R, k, grouped), k)
         /\ Flat(R[k].trace) => OfFlat(DocsOf(R, k, grouped), R[k])
  <1>1. /\ R[k].trace \in TraceSet /\ R[k].block \in TrxBlocks /\ R[k].base \in Nat /\ k \in 1 .. 2 BY RunsAre
  <1>2. PICK t \in TraceSet, b \in TrxBlocks, base \in Nat : t = R[k].trace /\ b = R[k].block /\ base = R[k].base
    BY <1>1
  <1>3. PICK A : A = ActionsOf(R, k) /\ A = Parsed(t, b, base, k) BY <1>2 DEF ActionsOf
  <1>4. ParsedAs(A, t, b, base, k)
    <2>1. k \in Nat BY <1>1
    <2>. QED BY <1>3, <2>1, ParsedIs
  <1>5. PICK G : G = GroupActionTraces(A) OBVIOUS
  <1>6. A \in Seq(TrxDocs) BY <1>4 DEF ParsedAs
  <1>7. G \in Seq(TrxDocs) /\ Origins(G, A) BY <1>5, <1>6, GroupedOrigins
  <1>8. OfRun(ToSet(A), k) BY <1>4, <1>6, ListedIsFinite DEF ParsedAs, OfRun
  <1>9. \A d \in ToSet(G) : d.block = b /\ d.run = k /\ d.seq \in base + 1 .. base + Len(t)
    <2>. SUFFICES ASSUME NEW d \in ToSet(G) PROVE d.block = b /\ d.run = k /\ d.seq \in base + 1 .. base + Len(t)
      OBVIOUS
    <2>1. PICK e \in ToSet(A) : e.seq = d.seq /\ e.block = d.block /\ e.run = d.run BY <1>7 DEF Origins
    <2>2. e.block = b /\ e.run = k /\ e.seq \in base + 1 .. base + Len(t) BY <1>4 DEF ParsedAs
    <2>. QED BY <2>1, <2>2
  <1>10. OfRun(ToSet(G), k) BY <1>7, <1>9, ListedIsFinite DEF OfRun
  <1>11. ASSUME Flat(t) PROVE OfFlat(ToSet(A), R[k]) /\ OfFlat(ToSet(G), R[k])
    <2>1. Increasing(A) /\ Covers(ToSet(A), t) BY <1>4 DEF ParsedAs
    <2>2. Distinct(ToSet(A)) BY <1>6, <2>1, IncreasingDistinct
    <2>3. \A d \in ToSet(A) : d.block = b /\ d.seq \in base + 1 .. base + Len(t) BY <1>4 DEF ParsedAs
    <2>4. GroupsOf(G, A, t) BY <1>5, <1>6, <1>11, <2>1, GroupingIs
    <2>5. Covers(ToSet(G), t) /\ Distinct(ToSet(G)) BY <2>4 DEF GroupsOf
    <2>. QED BY <1>2, <1>9, <2>1, <2>2, <2>3, <2>5, Zenon DEF OfFlat
  <1>12. DocsOf(R, k, grouped) = ToSet(A) \/ DocsOf(R, k, grouped) = ToSet(G) BY <1>3, <1>5, Zenon DEF DocsOf
  <1>. QED BY <1>2, <1>8, <1>10, <1>11, <1>12

\* The documents of one execution, grouped again, show it.
LEMMA RunShows ==
  ASSUME LookupAssumption, NEW R, AllRuns(R), NEW k \in DOMAIN R, NEW grouped, Flat(R[k].trace)
  PROVE  ShowsTrace(RegroupActions(Ordered(DocsOf(R, k, grouped))), R[k].trace)
  <1>1. PICK D : D = DocsOf(R, k, grouped) OBVIOUS
  <1>2. PICK t \in TraceSet, base \in Nat : t = R[k].trace /\ base = R[k].base BY RunsAre
  <1>3. OfFlat(D, R[k]) BY <1>1, DocsAre
  <1>4. Covers(D, t) /\ Distinct(D) /\ \A d \in D : d.seq \in base + 1 .. base + Len(t) BY <1>2, <1>3 DEF OfFlat
  <1>5. PICK n \in Nat : \A d \in D : d.seq \in 1 .. n
    <2>1. Len(t) \in Nat BY DEF LookupAssumption
    <2>2. PICK l \in Nat : l = Len(t) BY <2>1
    <2>3. base + 1 .. base + l \in SUBSET (1 .. base + l) /\ base + l \in Nat OBVIOUS
    <2>. QED BY <1>4, <2>2, <2>3
  <1>6. D \in SUBSET TrxDocs BY <1>4 DEF Covers
  <1>7. PICK A : A = Ordered(D) /\ A \in Seq(TrxDocs) /\ Increasing(A) /\ ToSet(A) = D BY <1>4, <1>5, <1>6, OrderedIs
  <1>8. GroupsOf(RegroupActions(A), A, t) BY <1>2, <1>4, <1>7, GroupingIs
  <1>. QED BY <1>1, <1>2, <1>7, <1>8 DEF GroupsOf

-----------------------------------------------------------------------------
(* The lookup's invariant *)

\* The store has all documents of each execution, or none, but for those torn.
RunDocs(D, k) == {d \in D : d.run = k}
KeepsDocs(D, R, torn, grouped) ==
    /\ \A d \in D : d.run \in DOMAIN R
    /\ \A k \in DOMAIN R : k \notin torn => RunDocs(D, k) \in {{}, DocsOf(R, k, grouped)}

AnswerShows(shown, R) ==
    shown.from # "none" /\ shown.version = 2 /\ ~shown.partly /\ ~shown.torn =>
        \A k \in DOMAIN R : shown.of = {k} /\ Flat(R[k].trace) => ShowsTrace(shown.actions, R[k].trace)

LookupInv ==
    /\ AllRuns(runs) /\ oldFormat \in BOOLEAN
    /\ IsFiniteSet(writing) /\ IsFiniteSet(trxIndex)
    /\ KeepsDocs(trxCache, runs, cacheTorn, TRUE)
    /\ KeepsDocs(trxIndex \cup writing, runs, indexTorn, ~oldFormat)
    /\ AnswerShows(reply, runs)

LEMMA LookupInvInit == LookupInit => LookupInv
  <1>. SUFFICES ASSUME LookupInit PROVE LookupInv OBVIOUS
  <1>1. runs = <<>> /\ writing = {} /\ trxIndex = {} /\ trxCache = {} /\ oldFormat \in BOOLEAN /\ reply = NoReply
    BY DEF LookupInit
  <1>2. AllRuns(runs) /\ DOMAIN runs = {} BY <1>1 DEF AllRuns
  <1>3. IsFiniteSet(writing) /\ IsFiniteSet(trxIndex) BY <1>1, FS_EmptySet
  <1>4. \A torn, grouped : KeepsDocs({}, runs, torn, grouped) BY <1>2 DEF KeepsDocs
  <1>5. trxIndex \cup writing = {} BY <1>1
  <1>6. AnswerShows(reply, runs) BY <1>1 DEF NoReply, AnswerShows
  <1>. QED BY <1>1, <1>2, <1>3, <1>4, <1>5, <1>6 DEF LookupInv

\* Documents that go away leave the executions alone that are not torn by it.
LEMMA TornKeeps ==
  ASSUME NEW D, NEW R, NEW torn, NEW grouped, KeepsDocs(D, R, torn, grouped),
         NEW E, NEW more, E \subseteq D, \A d \in D \ E : d.run \in more
  PROVE  KeepsDocs(E, R, torn \cup more, grouped)
  <1>1. \A d \in E : d.run \in DOMAIN R BY DEF KeepsDocs
  <1>2. ASSUME NEW k \in DOMAIN R, k \notin torn \cup more PROVE RunDocs(E, k) \in {{}, DocsOf(R, k, grouped)}
    <2>1. RunDocs(E, k) = RunDocs(D, k) BY <1>2 DEF RunDocs
    <2>. QED BY <1>2, <2>1 DEF KeepsDocs
  <1>. QED BY <1>1, <1>2 DEF KeepsDocs

\* An execution more changes nothing of those before.
OneRunMore(R2, R, n, run) ==
    /\ AllRuns(R) /\ AllRuns(R2) /\ DOMAIN R = 1 .. n /\ DOMAIN R2 = 1 .. n + 1
    /\ \A k \in 1 .. n : R2[k] = R[k]
    /\ R2[n + 1] = run

LEMMA RunsAdd ==
  ASSUME NEW R, AllRuns(R), NEW run \in Executions, NEW n \in 0 .. 1, n = Len(R)
  PROVE  OneRunMore(Append(R, run), R, n, run)
  <1>1. R \in Seq(Executions) BY DEF AllRuns
  <1>2. /\ Append(R, run) \in Seq(Executions) /\ Len(Append(R, run)) = n + 1
        /\ DOMAIN R = 1 .. n /\ DOMAIN Append(R, run) = 1 .. n + 1
        /\ \A k \in 1 .. n : Append(R, run)[k] = R[k]
        /\ Append(R, run)[n + 1] = run
    BY <1>1
  <1>3. n + 1 \in 0 .. 2 OBVIOUS
  <1>4. AllRuns(Append(R, run)) BY <1>2, <1>3 DEF AllRuns
  <1>. QED BY <1>2, <1>4 DEF OneRunMore

\* A new execution's documents.
LEMMA MoreKeeps ==
  ASSUME LookupAssumption, NEW R, NEW R2, NEW n \in Nat, NEW run, OneRunMore(R2, R, n, run),
         NEW D, NEW torn, NEW grouped, KeepsDocs(D, R, torn, grouped)
  PROVE  KeepsDocs(D \cup DocsOf(R2, n + 1, grouped), R2, torn, grouped)
  <1>0. /\ AllRuns(R) /\ AllRuns(R2) /\ DOMAIN R = 1 .. n /\ DOMAIN R2 = 1 .. n + 1
        /\ \A k \in 1 .. n : R2[k] = R[k]
    BY DEF OneRunMore
  <1>1. PICK N : N = DocsOf(R2, n + 1, grouped) OBVIOUS
  <1>2. \A d \in N : d.run = n + 1
    <2>1. n + 1 \in DOMAIN R2 BY <1>0
    <2>2. OfRun(DocsOf(R2, n + 1, grouped), n + 1) BY <1>0, <2>1, DocsAre
    <2>. QED BY <1>1, <2>2 DEF OfRun
  <1>3. \A d \in D : d.run \in 1 .. n BY <1>0 DEF KeepsDocs
  <1>4. \A d \in D \cup N : d.run \in 1 .. n + 1
    <2>1. 1 .. n + 1 = (1 .. n) \cup {n + 1} OBVIOUS
    <2>. QED BY <1>2, <1>3, <2>1
  <1>5. ASSUME NEW k \in 1 .. n + 1, k \notin torn
        PROVE RunDocs(D \cup N, k) \in {{}, DocsOf(R2, k, grouped)}
    <2>1. CASE k = n + 1
      <3>1. \A d \in D : d.run # k BY <1>3, <2>1
      <3>2. RunDocs(D \cup N, k) = N BY <1>2, <2>1, <3>1 DEF RunDocs
      <3>. QED BY <1>1, <2>1, <3>2
    <2>2. CASE k \in 1 .. n
      <3>1. \A d \in N : d.run # k BY <1>2, <2>2
      <3>2. RunDocs(D \cup N, k) = RunDocs(D, k) BY <3>1 DEF RunDocs
      <3>3. DocsOf(R2, k, grouped) = DocsOf(R, k, grouped) BY <1>0, <2>2 DEF DocsOf, ActionsOf
      <3>4. RunDocs(D, k) \in {{}, DocsOf(R, k, grouped)} BY <1>0, <1>5, <2>2 DEF KeepsDocs
      <3>. QED BY <3>2, <3>3, <3>4
    <2>3. 1 .. n + 1 = (1 .. n) \cup {n + 1} OBVIOUS
    <2>. QED BY <2>1, <2>2, <2>3
  <1>. QED BY <1>0, <1>1, <1>4, <1>5 DEF KeepsDocs

LEMMA ExecuteKeeps ==
  ASSUME LookupAssumption, LookupInv, Execute
  PROVE  LookupInv'
  <1>1. PICK trace \in TraceSet, block \in TrxBlocks, base \in SeqBases[Len(runs) + 1] :
           LET actions == Parsed(trace, block, base, Len(runs) + 1)
               summaries == ToSet(GroupActionTraces(actions))
           IN  /\ runs # <<>> => Signed(trace) = Signed(runs[1].trace)
               /\ runs' = Append(runs, [trace |-> trace, block |-> block, base |-> base])
               /\ trxCache' = (trxCache \ SameKey(trxCache, summaries)) \cup summaries
               /\ cacheTorn' = cacheTorn \cup {e.run : e \in SameKey(trxCache, summaries)}
               /\ writing' = writing \cup (IF oldFormat THEN ToSet(actions) ELSE summaries)
    BY Zenon DEF Execute
  <1>2. /\ IF forked THEN Len(runs) < 2 ELSE runs = <<>>
        /\ oldFormat' = oldFormat /\ trxIndex' = trxIndex /\ indexTorn' = indexTorn /\ reply' = NoReply
    BY DEF Execute
  <1>3. AllRuns(runs) /\ oldFormat \in BOOLEAN BY DEF LookupInv
  <1>4. PICK n \in 0 .. 1 : n = Len(runs)
    <2>1. PICK m \in 0 .. 2 : m = Len(runs) BY <1>3 DEF AllRuns
    <2>2. m < 2
      <3>1. CASE forked BY <1>2, <2>1, <3>1
      <3>2. CASE ~forked
        <4>1. runs = <<>> BY <1>2, <3>2
        <4>2. m = 0 BY <2>1, <4>1
        <4>. QED BY <4>2
      <3>. QED BY <3>1, <3>2
    <2>. QED BY <2>1, <2>2
  <1>5. base \in Nat
    <2>1. n + 1 \in 1 .. 2 OBVIOUS
    <2>2. SeqBases \in [1 .. 2 -> SUBSET Nat] BY DEF LookupAssumption
    <2>3. SeqBases[n + 1] \in SUBSET Nat BY <2>1, <2>2
    <2>. QED BY <1>4, <2>3
  <1>6. PICK run \in Executions : run = [trace |-> trace, block |-> block, base |-> base] BY <1>5 DEF Executions
  <1>7. PICK R : R = runs' /\ R = Append(runs, run) BY <1>1, <1>6
  <1>0. OneRunMore(R, runs, n, run) /\ n \in Nat
    <2>1. OneRunMore(Append(runs, run), runs, n, run) BY <1>3, <1>4, RunsAdd
    <2>. QED BY <1>7, <2>1
  <1>8. DOMAIN R = 1 .. n + 1 /\ R[n + 1] = run /\ AllRuns(R) BY <1>0 DEF OneRunMore
  <1>9. PICK A : A = Parsed(trace, block, base, n + 1) OBVIOUS
  <1>10. A = ActionsOf(R, n + 1) BY <1>6, <1>8, <1>9 DEF ActionsOf
  <1>11. PICK summaries : summaries = ToSet(GroupActionTraces(A)) OBVIOUS
  <1>12. summaries = DocsOf(R, n + 1, TRUE) /\ ToSet(A) = DocsOf(R, n + 1, FALSE) BY <1>10, <1>11 DEF DocsOf
  <1>13. PICK S : S = SameKey(trxCache, summaries) OBVIOUS
  <1>14. /\ trxCache' = (trxCache \ S) \cup summaries /\ cacheTorn' = cacheTorn \cup {e.run : e \in S}
         /\ writing' = writing \cup (IF oldFormat THEN ToSet(A) ELSE summaries)
    BY <1>1, <1>4, <1>9, <1>11, <1>13
  <1>15. KeepsDocs(trxCache', R, cacheTorn', TRUE)
    <2>1. KeepsDocs(trxCache, runs, cacheTorn, TRUE) BY DEF LookupInv
    <2>2. PICK more : more = {e.run : e \in S} OBVIOUS
    <2>3. \A d \in trxCache \ (trxCache \ S) : d.run \in more BY <2>2
    <2>4. trxCache \ S \subseteq trxCache OBVIOUS
    <2>5. KeepsDocs(trxCache \ S, runs, cacheTorn \cup more, TRUE) BY <2>1, <2>3, <2>4, TornKeeps
    <2>6. KeepsDocs((trxCache \ S) \cup DocsOf(R, n + 1, TRUE), R, cacheTorn \cup more, TRUE)
      <3>1. PICK D, torn : D = trxCache \ S /\ torn = cacheTorn \cup more OBVIOUS
      <3>2. KeepsDocs(D, runs, torn, TRUE) BY <2>5, <3>1
      <3>3. PICK grouped : grouped = TRUE OBVIOUS
      <3>4. KeepsDocs(D \cup DocsOf(R, n + 1, grouped), R, torn, grouped) BY <1>0, <3>2, <3>3, MoreKeeps
      <3>. QED BY <3>1, <3>3, <3>4
    <2>. QED BY <1>12, <1>14, <2>2, <2>6
  <1>16. writing' = writing \cup DocsOf(R, n + 1, ~oldFormat)
    <2>1. CASE oldFormat
      <3>1. (~oldFormat) = FALSE BY <2>1
      <3>. QED BY <1>12, <1>14, <2>1, <3>1
    <2>2. CASE ~oldFormat
      <3>1. (~oldFormat) = TRUE BY <2>2
      <3>. QED BY <1>12, <1>14, <2>2, <3>1
    <2>. QED BY <2>1, <2>2
  <1>17. IsFiniteSet(writing')
    <2>1. n + 1 \in DOMAIN R BY <1>8
    <2>2. OfRun(DocsOf(R, n + 1, ~oldFormat), n + 1) BY <1>8, <2>1, DocsAre
    <2>3. IsFiniteSet(writing) BY DEF LookupInv
    <2>. QED BY <1>16, <2>2, <2>3, FS_Union DEF OfRun
  <1>18. KeepsDocs(trxIndex' \cup writing', R, indexTorn', ~oldFormat')
    <2>1. KeepsDocs(trxIndex \cup writing, runs, indexTorn, ~oldFormat) BY DEF LookupInv
    <2>2. KeepsDocs((trxIndex \cup writing) \cup DocsOf(R, n + 1, ~oldFormat), R, indexTorn, ~oldFormat)
      BY <1>0, <2>1, MoreKeeps
    <2>3. trxIndex' \cup writing' = (trxIndex \cup writing) \cup DocsOf(R, n + 1, ~oldFormat) BY <1>2, <1>16
    <2>. QED BY <1>2, <2>2, <2>3
  <1>19. AnswerShows(reply', R) BY <1>2 DEF NoReply, AnswerShows
  <1>20. IsFiniteSet(trxIndex') BY <1>2 DEF LookupInv
  <1>. QED BY <1>2, <1>3, <1>7, <1>8, <1>15, <1>17, <1>18, <1>19, <1>20 DEF LookupInv

LEMMA IndexDocumentKeeps ==
  ASSUME LookupInv, IndexDocument
  PROVE  LookupInv'
  <1>1. PICK d \in writing : /\ trxIndex' = (trxIndex \ SameKey(trxIndex, {d})) \cup {d}
                            /\ indexTorn' = indexTorn \cup {e.run : e \in SameKey(trxIndex, {d})}
                            /\ writing' = writing \ {d}
    BY DEF IndexDocument
  <1>2. /\ runs' = runs /\ oldFormat' = oldFormat /\ trxCache' = trxCache /\ cacheTorn' = cacheTorn
        /\ reply' = NoReply
    BY DEF IndexDocument
  <1>3. PICK S, more : S = SameKey(trxIndex, {d}) /\ more = {e.run : e \in S} OBVIOUS
  <1>4. trxIndex' \cup writing' \subseteq trxIndex \cup writing BY <1>1
  <1>5. \A e \in (trxIndex \cup writing) \ (trxIndex' \cup writing') : e.run \in more
    <2>. SUFFICES ASSUME NEW e \in trxIndex \cup writing, e \notin trxIndex', e \notin writing' PROVE e.run \in more
      OBVIOUS
    <2>1. e # d /\ e \notin writing /\ e \in S BY <1>1, <1>3
    <2>. QED BY <1>3, <2>1
  <1>6. KeepsDocs(trxIndex \cup writing, runs, indexTorn, ~oldFormat) BY DEF LookupInv
  <1>7. KeepsDocs(trxIndex' \cup writing', runs, indexTorn \cup more, ~oldFormat) BY <1>4, <1>5, <1>6, TornKeeps
  <1>8. indexTorn' = indexTorn \cup more BY <1>1, <1>3
  <1>9. IsFiniteSet(writing') /\ IsFiniteSet(trxIndex')
    <2>1. IsFiniteSet(writing) /\ IsFiniteSet(trxIndex) BY DEF LookupInv
    <2>2. writing' \subseteq writing /\ trxIndex' \subseteq trxIndex \cup writing BY <1>1
    <2>3. IsFiniteSet(trxIndex \cup writing) BY <2>1, FS_Union
    <2>. QED BY <2>1, <2>2, <2>3, FS_Subset
  <1>10. AnswerShows(reply', runs) BY <1>2 DEF NoReply, AnswerShows
  <1>. QED BY <1>2, <1>7, <1>8, <1>9, <1>10 DEF LookupInv

\* Documents of the first execution that are overwritten or deleted.
LEMMA FirstRunKeeps ==
  ASSUME LookupAssumption, LookupInv, IndexOther \/ DeleteForked
  PROVE  LookupInv'
  <1>1. /\ runs' = runs /\ oldFormat' = oldFormat /\ writing' = writing /\ trxCache' = trxCache
        /\ cacheTorn' = cacheTorn /\ reply' = NoReply /\ trxIndex' \subseteq trxIndex
    BY DEF IndexOther, DeleteForked
  <1>2. KeepsDocs(trxIndex \cup writing, runs, indexTorn, ~oldFormat) BY DEF LookupInv
  <1>3. PICK D, E : D = trxIndex \cup writing /\ E = trxIndex' \cup writing OBVIOUS
  <1>4. E \subseteq D BY <1>1, <1>3
  <1>5. \A d \in D \ E : d.run \in {1} BY <1>1, <1>3 DEF IndexOther, DeleteForked
  <1>6. KeepsDocs(E, runs, indexTorn \cup {1}, ~oldFormat) BY <1>2, <1>3, <1>4, <1>5, TornKeeps
  <1>7. KeepsDocs(E, runs, indexTorn', ~oldFormat)
    <2>1. CASE IndexOther
      <3>1. indexTorn' = indexTorn \cup {1} BY <2>1 DEF IndexOther
      <3>. QED BY <1>6, <3>1
    <2>2. CASE DeleteForked
      <3>1. /\ trxIndex' = {d \in trxIndex : d.run # 1}
            /\ indexTorn' = (indexTorn \ {1}) \cup {d.run : d \in {e \in writing : e.run = 1}}
        BY <2>2 DEF DeleteForked
      <3>2. \A d \in E : d.run \in DOMAIN runs BY <1>6 DEF KeepsDocs
      <3>3. ASSUME NEW k \in DOMAIN runs, k \notin indexTorn'
            PROVE  RunDocs(E, k) \in {{}, DocsOf(runs, k, ~oldFormat)}
        <4>1. CASE k = 1
          <5>1. \A d \in writing : d.run # 1 BY <3>1, <3>3, <4>1
          <5>2. RunDocs(E, k) = {} BY <1>3, <3>1, <4>1, <5>1 DEF RunDocs
          <5>. QED BY <5>2
        <4>2. CASE k # 1
          <5>1. k \notin indexTorn \cup {1} BY <3>1, <3>3, <4>2
          <5>. QED BY <1>6, <5>1 DEF KeepsDocs
        <4>. QED BY <4>1, <4>2
      <3>. QED BY <3>2, <3>3 DEF KeepsDocs
    <2>. QED BY <2>1, <2>2
  <1>8. IsFiniteSet(trxIndex')
    <2>1. IsFiniteSet(trxIndex) BY DEF LookupInv
    <2>. QED BY <1>1, <2>1, FS_Subset
  <1>9. AnswerShows(reply', runs) BY <1>1 DEF NoReply, AnswerShows
  <1>. QED BY <1>1, <1>3, <1>7, <1>8, <1>9 DEF LookupInv

LEMMA ExpireCacheKeeps ==
  ASSUME LookupInv, ExpireCache \/ Fork
  PROVE  LookupInv'
  <1>1. /\ runs' = runs /\ oldFormat' = oldFormat /\ writing' = writing
        /\ trxIndex' = trxIndex /\ indexTorn' = indexTorn /\ reply' = NoReply
        /\ (trxCache' = {} /\ cacheTorn' = {}) \/ (trxCache' = trxCache /\ cacheTorn' = cacheTorn)
    BY DEF ExpireCache, Fork
  <1>2. KeepsDocs({}, runs, {}, TRUE) BY DEF KeepsDocs, RunDocs
  <1>3. KeepsDocs(trxCache', runs, cacheTorn', TRUE) BY <1>1, <1>2 DEF LookupInv
  <1>4. AnswerShows(reply', runs) BY <1>1 DEF NoReply, AnswerShows
  <1>. QED BY <1>1, <1>3, <1>4 DEF LookupInv

\* The documents found, unless the answer is partial.
LEMMA FoundIs ==
  ASSUME LookupAssumption, LookupInv,
         ~(trxCache = {} /\ (writing # {} \/ Cardinality(trxIndex) > TrxSize))
  PROVE  \E grouped : KeepsDocs(Found, runs, IF trxCache # {} THEN cacheTorn ELSE indexTorn, grouped)
  <1>1. CASE trxCache # {}
    <2>1. Found = trxCache BY <1>1 DEF Found
    <2>2. KeepsDocs(trxCache, runs, cacheTorn, TRUE) BY DEF LookupInv
    <2>. QED BY <1>1, <2>1, <2>2
  <1>2. CASE trxCache = {}
    <2>1. writing = {} /\ ~(Cardinality(trxIndex) > TrxSize) /\ Found = FirstHits(trxIndex) BY <1>2 DEF Found
    <2>2. IsFiniteSet(trxIndex) BY DEF LookupInv
    <2>3. ASSUME NEW d \in trxIndex PROVE Cardinality({e \in trxIndex : e.seq <= d.seq}) <= TrxSize
      <3>1. PICK T \in SUBSET trxIndex : T = {e \in trxIndex : e.seq <= d.seq} OBVIOUS
      <3>2. Cardinality(T) <= Cardinality(trxIndex) /\ IsFiniteSet(T) BY <2>2, FS_Subset
      <3>3. Cardinality(T) \in Nat /\ Cardinality(trxIndex) \in Nat BY <2>2, <3>2, FS_CardinalityType
      <3>4. TrxSize \in Nat BY DEF LookupAssumption
      <3>. QED BY <2>1, <3>1, <3>2, <3>3, <3>4
    <2>4. FirstHits(trxIndex) = trxIndex BY <2>3 DEF FirstHits
    <2>5. KeepsDocs(trxIndex \cup writing, runs, indexTorn, ~oldFormat) BY DEF LookupInv
    <2>6. trxIndex \cup writing = Found BY <2>1, <2>4
    <2>. QED BY <1>2, <2>5, <2>6
  <1>. QED BY <1>1, <1>2

\* When all of the highest block's documents are of one execution, they are all it has.
OnlyRun(D, k) == {d.run : d \in D} = {k}

LEMMA LastBlockIs ==
  ASSUME LookupAssumption, NEW R, AllRuns(R), NEW F, NEW torn, NEW grouped, KeepsDocs(F, R, torn, grouped),
         NEW k \in DOMAIN R, Flat(R[k].trace), OnlyRun(LastBlock(F), k), k \notin torn
  PROVE  LastBlock(F) = DocsOf(R, k, grouped)
  <1>1. PICK L : L = LastBlock(F) /\ L \subseteq F BY DEF LastBlock
  <1>2. (\E l \in L : l.run = k) /\ \A d \in L : d.run = k BY <1>1 DEF OnlyRun
  <1>9. PICK l \in L : l.run = k BY <1>2
  <1>3. RunDocs(F, k) \in {{}, DocsOf(R, k, grouped)} BY DEF KeepsDocs
  <1>4. l \in RunDocs(F, k) BY <1>1, <1>9 DEF RunDocs
  <1>5. RunDocs(F, k) = DocsOf(R, k, grouped) BY <1>3, <1>4
  <1>6. \A d \in RunDocs(F, k) : d.block = R[k].block BY <1>5, DocsAre DEF OfFlat
  <1>7. ASSUME NEW d \in RunDocs(F, k) PROVE d \in L
    <2>1. d.block = l.block /\ d \in F BY <1>4, <1>6 DEF RunDocs
    <2>2. \A e \in F : e.block <= l.block BY <1>1, <1>9 DEF LastBlock
    <2>. QED BY <1>1, <2>1, <2>2 DEF LastBlock
  <1>8. \A d \in L : d \in RunDocs(F, k) BY <1>1, <1>2 DEF RunDocs
  <1>. QED BY <1>1, <1>5, <1>7, <1>8

LEMMA GetTransactionKeeps ==
  ASSUME LookupAssumption, LookupInv, GetTransactionV2 \/ GetTransactionV1
  PROVE  LookupInv'
  <1>1. /\ runs' = runs /\ oldFormat' = oldFormat /\ writing' = writing /\ trxIndex' = trxIndex /\ trxCache' = trxCache
        /\ indexTorn' = indexTorn /\ cacheTorn' = cacheTorn
    BY DEF GetTransactionV2, GetTransactionV1, Answered
  <1>2. AnswerShows(reply', runs)
    <2>1. CASE GetTransactionV2
      <3>1. PICK L, torn : L = LastBlock(Found) /\ torn = IF trxCache # {} THEN cacheTorn ELSE indexTorn OBVIOUS
      <3>2. reply' = [from |-> IF trxCache # {} THEN "cache" ELSE "index", version |-> 2,
                      partly |-> trxCache = {} /\ (writing # {} \/ Cardinality(trxIndex) > TrxSize),
                      of |-> {d.run : d \in L}, torn |-> \E d \in L : d.run \in torn,
                      actions |-> RegroupActions(Ordered(L))]
        BY <2>1, <3>1, Zenon DEF GetTransactionV2, Answered
      <3>3. /\ reply'.partly = (trxCache = {} /\ (writing # {} \/ Cardinality(trxIndex) > TrxSize))
            /\ reply'.of = {d.run : d \in L} /\ reply'.torn = (\E d \in L : d.run \in torn)
            /\ reply'.actions = RegroupActions(Ordered(L))
        BY <3>2
      <3>. SUFFICES ASSUME ~reply'.partly, ~reply'.torn, NEW k \in DOMAIN runs, reply'.of = {k}, Flat(runs[k].trace)
                    PROVE  ShowsTrace(reply'.actions, runs[k].trace)
        BY DEF AnswerShows
      <3>4. AllRuns(runs) BY DEF LookupInv
      <3>5. PICK grouped : KeepsDocs(Found, runs, torn, grouped) BY <3>1, <3>3, FoundIs
      <3>6. {d.run : d \in L} = {k} /\ k \notin torn BY <3>3
      <3>7. L = DocsOf(runs, k, grouped)
        <4>1. PICK F : F = Found OBVIOUS
        <4>2. KeepsDocs(F, runs, torn, grouped) /\ OnlyRun(LastBlock(F), k) BY <3>1, <3>5, <3>6, <4>1 DEF OnlyRun
        <4>3. LastBlock(F) = DocsOf(runs, k, grouped) BY <3>4, <3>6, <4>2, LastBlockIs
        <4>. QED BY <3>1, <4>1, <4>3
      <3>. QED BY <3>3, <3>4, <3>7, RunShows
    <2>2. CASE GetTransactionV1
      <3>1. reply'.version = 1 BY <2>2 DEF GetTransactionV1, Answered
      <3>. QED BY <3>1 DEF AnswerShows
    <2>. QED BY <2>1, <2>2
  <1>. QED BY <1>1, <1>2 DEF LookupInv

LEMMA LookupInvKept ==
  ASSUME LookupAssumption, LookupInv, [LookupNext]_lookupVars
  PROVE  LookupInv'
  <1>1. CASE Execute BY <1>1, ExecuteKeeps
  <1>2. CASE IndexDocument BY <1>2, IndexDocumentKeeps
  <1>3. CASE IndexOther \/ DeleteForked BY <1>3, FirstRunKeeps
  <1>4. CASE ExpireCache \/ Fork BY <1>4, ExpireCacheKeeps
  <1>5. CASE GetTransactionV2 \/ GetTransactionV1 BY <1>5, GetTransactionKeeps
  <1>6. CASE UNCHANGED lookupVars BY <1>6 DEF LookupInv, lookupVars
  <1>. QED BY <1>1, <1>2, <1>3, <1>4, <1>5, <1>6 DEF LookupNext

\* Then the answer shows an execution.
LEMMA LookupInvShows == LookupInv => LookupShowsOneExecution
  <1>1. LookupInv => AnswerShows(reply, runs) BY DEF LookupInv
  <1>2. ASSUME NEW k \in DOMAIN runs, ShowsTrace(reply.actions, runs[k].trace) PROVE Shows(reply.actions, runs[k])
    BY <1>2 DEF ShowsTrace, Shows
  <1>. QED BY <1>1, <1>2 DEF AnswerShows, LookupShowsOneExecution

\* get_transaction's v2 answer of documents of one execution, from the cache or from an
\* index of either format, shows that execution: each of its actions once with the
\* receivers of all its notifications, whatever forks, documents that overwrite others
\* and deletions came before.  Left out are answers that are partial, and those with an
\* execution of which documents were overwritten or deleted.
THEOREM LookupsShowOneExecution == LookupSpec => []LookupShowsOneExecution
  <1>1. LookupInit => LookupInv BY LookupInvInit
  <1>2. LookupInv /\ [LookupNext]_lookupVars => LookupInv' BY LookupAssumption, LookupInvKept
  <1>3. LookupInv => LookupShowsOneExecution BY LookupInvShows
  <1>. QED BY <1>1, <1>2, <1>3, PTL DEF LookupSpec

=============================================================================
