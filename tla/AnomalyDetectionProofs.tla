----------------------- MODULE AnomalyDetectionProofs ------------------------
(***************************************************************************)
(* What holds of AnomalyDetection for every set of series, every window    *)
(* and every byte: the scores are in their places, the warping path is a   *)
(* cheapest one, and a score is a number when it should be.                *)
(***************************************************************************)
EXTENDS AnomalyDetection, Induction, SequenceTheorems

-----------------------------------------------------------------------------
(* Cells, costs and counters *)

Corner == <<Window - 1, Window - 1>>

LEMMA CellFacts ==
    /\ <<0, 0>> \in Cells /\ Corner \in Cells
    /\ \A c \in Cells : c[1] \in In /\ c[2] \in In /\ c = <<c[1], c[2]>>
    /\ \A k, l \in In : <<k, l>> \in Cells /\ <<k, l>>[1] = k /\ <<k, l>>[2] = l
BY AnomalyAssumption DEF Cells, In, Corner

LEMMA CellSums ==
    ASSUME NEW c \in Cells
    PROVE  /\ c[1] \in Nat /\ c[2] \in Nat /\ c[1] + c[2] \in Nat
           /\ c[1] + c[2] < 2 * Window - 1
<1>1. PICK k \in In, l \in In : c = <<k, l>>
  BY DEF Cells
<1>2. /\ k \in Nat /\ l \in Nat /\ k <= Window - 1 /\ l <= Window - 1
      /\ c[1] = k /\ c[2] = l /\ Window \in Nat
  BY <1>1, AnomalyAssumption DEF In
<1> QED  BY <1>2

\* A counter of 8 bits that is not the greatest is increased by one.
LEMMA IncreasedFacts ==
    ASSUME NEW n \in 0..(Byte - 1)
    PROVE  Increased(n) = IF n + 1 = Byte THEN 0 ELSE n + 1
<1>1. CASE n + 1 = Byte
  BY <1>1, AnomalyAssumption DEF Increased
<1>2. CASE n + 1 # Byte
  BY <1>2, AnomalyAssumption DEF Increased
<1> QED  BY <1>1, <1>2

LEMMA WindowIndexFacts ==
    ASSUME NEW j \in In, start \in Nat
    PROVE  WindowIndex(j) = j + start + 1
<1>1. Window + j \in 0..(Byte - 1)
  BY AnomalyAssumption DEF In
<1>2. (Window + j) % Byte = Window + j
  BY <1>1, AnomalyAssumption
<1> QED  BY <1>2, AnomalyAssumption DEF WindowIndex, In

\* Indexes of the path are used as they are, as there are less than 256 steps.
LEMMA WarpedIndexFacts ==
    ASSUME NEW w \in 0..(2 * Window - 2), NEW c \in In
    PROVE  WarpedIndex(w, c) = c
<1>1. w \in 0..(Byte - 1) /\ w + 1 # Byte
  BY AnomalyAssumption
<1>2. Increased(w) = w + 1
  BY <1>1, IncreasedFacts
<1> QED  BY <1>1, <1>2 DEF WarpedIndex, In

LEMMA LeastFacts ==
    ASSUME NEW S \in SUBSET Nat, S # {}
    PROVE  Least(S) \in S /\ \A n \in S : Least(S) <= n
BY LeastNatural DEF Least

\* The cells before a cell are nearer to the first, and only the first has none.
LEMMA BeforeFacts ==
    ASSUME NEW c \in Cells
    PROVE  /\ Before(c) \subseteq Cells
           /\ \A b \in Before(c) : b[1] + b[2] < c[1] + c[2]
           /\ c # <<0, 0>> => Before(c) # {}
<1>1. PICK k \in In, l \in In : c = <<k, l>>
  BY DEF Cells
<1>2. Before(c) = {<<k - 1, l>>, <<k, l - 1>>, <<k - 1, l - 1>>} \cap Cells
  BY <1>1 DEF Before
<1>3. \A b \in Before(c) : b[1] + b[2] < c[1] + c[2]
  <2> SUFFICES ASSUME NEW b \in Before(c) PROVE b[1] + b[2] < c[1] + c[2]
    OBVIOUS
  <2>1. k \in Int /\ l \in Int /\ c[1] = k /\ c[2] = l
    BY <1>1 DEF In
  <2>2. b = <<k - 1, l>> \/ b = <<k, l - 1>> \/ b = <<k - 1, l - 1>>
    BY <1>2
  <2> QED  BY <2>1, <2>2
<1>4. ASSUME c # <<0, 0>> PROVE Before(c) # {}
  <2>1. CASE k # 0
    <3>1. k - 1 \in In
      BY <2>1, AnomalyAssumption DEF In
    <3>2. <<k - 1, l>> \in Before(c)
      BY <1>2, <3>1 DEF Cells
    <3> QED  BY <3>2
  <2>2. CASE k = 0
    <3>1. l - 1 \in In
      BY <1>1, <1>4, <2>2, AnomalyAssumption DEF In
    <3>2. <<k, l - 1>> \in Before(c)
      BY <1>2, <3>1 DEF Cells
    <3> QED  BY <3>2
  <2> QED  BY <2>1, <2>2
<1> QED  BY <1>2, <1>3, <1>4

LEMMA DistanceFacts ==
    ASSUME NEW a \in Nat, NEW b \in Nat
    PROVE  Distance(a, b) \in Nat
BY DEF Distance

-----------------------------------------------------------------------------
(* The recursion of the cost matrix is well founded *)

\* The value of a cell in a matrix that holds f, and what a cost matrix is.
Value(c, f, x, y) ==
    Distance(x[c[2]], y[c[1]]) +
      IF c = <<0, 0>> THEN 0 ELSE Least({f[b] : b \in Before(c)})
IsCost(f, x, y) == f \in [Cells -> Nat] /\ \A c \in Cells : f[c] = Value(c, f, x, y)

\* f has the values of a cost matrix on the first n diagonals.
CostUpTo(f, x, y, n) == \A c \in Cells : c[1] + c[2] < n => f[c] = Value(c, f, x, y)

\* Before c, f and g hold the same numbers.
Agree(f, g, c) == \A b \in Before(c) : f[b] \in Nat /\ f[b] = g[b]

\* The value of a cell is determined by those of the cells before it.
LEMMA ValueFacts ==
    ASSUME NEW x \in [In -> Nat], NEW y \in [In -> Nat], NEW c \in Cells, NEW f, NEW g,
           Agree(f, g, c)
    PROVE  Value(c, f, x, y) \in Nat /\ Value(c, f, x, y) = Value(c, g, x, y)
<1> USE DEF Agree
<1> DEFINE d == Distance(x[c[2]], y[c[1]])
           m == Least({f[b] : b \in Before(c)})
<1>1. {f[b] : b \in Before(c)} = {g[b] : b \in Before(c)}
  OBVIOUS
<1>2. d \in Nat
  BY CellFacts, DistanceFacts
<1>3. c # <<0, 0>> => m \in Nat
  BY BeforeFacts, LeastFacts
<1>4. /\ Value(c, f, x, y) = d + IF c = <<0, 0>> THEN 0 ELSE m
      /\ Value(c, g, x, y) = d + IF c = <<0, 0>> THEN 0 ELSE m
  BY <1>1 DEF Value
<1> HIDE DEF d, m
<1> QED  BY <1>2, <1>3, <1>4

LEMMA CostExists ==
    ASSUME NEW x \in [In -> Nat], NEW y \in [In -> Nat]
    PROVE  \E f : IsCost(f, x, y)
<1> DEFINE N == 2 * Window - 1
           T == [Cells -> Nat]
           Filled(f, n) == [c \in Cells |->
                              IF c[1] + c[2] = n - 1 THEN Value(c, f, x, y) ELSE f[c]]
           fill == [n \in 1..N |-> [f \in T |-> Filled(f, n)]]
           zero == [c \in Cells |-> 0]
<1>1. N \in Nat
  BY AnomalyAssumption
<1>2. ASSUME NEW f \in T, NEW n \in 1..N PROVE Filled(f, n) \in T
  <2> SUFFICES ASSUME NEW c \in Cells PROVE Value(c, f, x, y) \in Nat
    OBVIOUS
  <2>1. Agree(f, f, c)
    BY BeforeFacts DEF Agree
  <2> QED  BY <2>1, ValueFacts
<1>3. zero \in T /\ fill \in [1..N -> [T -> T]]
  <2> HIDE DEF Filled
  <2> QED  BY <1>2
<1> HIDE DEF N, T, Filled, fill, zero
<1>4. PICK F \in [0..N -> T] : Follows(F, zero, fill, N)
  BY <1>1, <1>3, Iterates
<1>5. ASSUME NEW n \in 1..N
      PROVE  F[n] = Filled(F[n - 1], n) /\ F[n - 1] \in T /\ F[n] \in T
  <2>1. n - 1 \in 0..N /\ n \in 0..N
    BY <1>1
  <2> QED  BY <1>4, <2>1 DEF Follows, fill
<1> DEFINE S == {n \in 0..N : CostUpTo(F[n], x, y, n)}
<1>6. 0 \in S
  BY <1>1, CellFacts DEF CostUpTo, In
<1>7. ASSUME NEW n \in 0..(N - 1), n \in S PROVE n + 1 \in S
  <2> DEFINE f == F[n]
             g == F[n + 1]
  <2>1. n + 1 \in 1..N /\ (n + 1) - 1 = n /\ n \in Nat
    BY <1>1
  <2>2. g = Filled(f, n + 1) /\ f \in T /\ g \in T /\ CostUpTo(f, x, y, n)
    BY <1>5, <1>7, <2>1
  <2> HIDE DEF f, g
  <2>3. \A c \in Cells : g[c] = IF c[1] + c[2] = n THEN Value(c, f, x, y) ELSE f[c]
    BY <2>1, <2>2 DEF Filled
  <2>4. ASSUME NEW c \in Cells, c[1] + c[2] < n + 1 PROVE g[c] = Value(c, g, x, y)
    <3>1. c[1] + c[2] \in Nat
      BY CellSums
    <3>2. ASSUME NEW b \in Before(c) PROVE g[b] \in Nat /\ g[b] = f[b]
      <4>1. b \in Cells /\ b[1] + b[2] < c[1] + c[2] /\ b[1] + b[2] \in Nat
        BY BeforeFacts, CellSums
      <4>2. b[1] + b[2] # n
        BY <2>1, <2>4, <3>1, <4>1
      <4> QED  BY <2>2, <2>3, <4>1, <4>2 DEF T
    <3>3. Value(c, g, x, y) = Value(c, f, x, y)
      <4>1. Agree(g, f, c)
        BY <3>2 DEF Agree
      <4> QED  BY <4>1, ValueFacts
    <3>4. CASE c[1] + c[2] = n
      BY <2>3, <3>3, <3>4
    <3>5. CASE c[1] + c[2] # n
      <4>1. c[1] + c[2] < n
        BY <2>1, <2>4, <3>1, <3>5
      <4> QED  BY <2>2, <2>3, <3>3, <3>5, <4>1 DEF CostUpTo
    <3> QED  BY <3>4, <3>5
  <2>5. CostUpTo(g, x, y, n + 1)
    BY <2>4 DEF CostUpTo
  <2> QED  BY <2>1, <2>5 DEF g
<1>8. N \in S
  <2>1. Inductive(S, 0, N)
    BY <1>6, <1>7 DEF Inductive
  <2> HIDE DEF S
  <2> QED  BY <1>1, <2>1, UpTo
<1>9. ASSUME NEW c \in Cells PROVE F[N][c] = Value(c, F[N], x, y)
  <2>1. c[1] + c[2] < N
    BY CellSums DEF N
  <2> QED  BY <1>8, <2>1 DEF CostUpTo
<1>10. F[N] \in T
  BY <1>1
<1> QED  BY <1>9, <1>10 DEF IsCost, T

\* What is accumulated is a cost matrix.
LEMMA CostIsAccumulated ==
    ASSUME NEW x \in [In -> Nat], NEW y \in [In -> Nat]
    PROVE  IsCost(AccumulatedCost(x, y), x, y)
<1> DEFINE Rec(g) == g = [c \in Cells |-> Value(c, g, x, y)]
           G == CHOOSE g : Rec(g)
<1>1. PICK f : IsCost(f, x, y)
  BY CostExists
<1>2. Rec(f)
  BY <1>1, Zenon DEF IsCost
<1>3. Rec(G)
  <2> HIDE DEF Rec
  <2> QED  BY <1>2
<1>4. AccumulatedCost(x, y) = G
  BY DEF AccumulatedCost, Value
<1> HIDE DEF G
<1>5. DOMAIN G = Cells /\ \A c \in Cells : G[c] = Value(c, G, x, y)
  BY <1>3
<1> DEFINE N == 2 * Window - 1
           S == {n \in 0..N : \A c \in Cells : c[1] + c[2] < n => G[c] \in Nat}
<1>6. 0 \in S /\ N \in Nat
  BY CellFacts, AnomalyAssumption DEF In
<1>7. ASSUME NEW n \in 0..(N - 1), n \in S PROVE n + 1 \in S
  <2>1. ASSUME NEW c \in Cells, c[1] + c[2] < n + 1 PROVE G[c] \in Nat
    <3>1. ASSUME NEW b \in Before(c) PROVE G[b] \in Nat
      <4>1. b \in Cells /\ b[1] + b[2] < c[1] + c[2]
        BY BeforeFacts
      <4>2. c[1] + c[2] \in Nat /\ b[1] + b[2] \in Nat
        BY <4>1, CellSums
      <4>3. b[1] + b[2] < n
        BY <2>1, <4>1, <4>2
      <4> QED  BY <1>7, <4>1, <4>3
    <3>2. Value(c, G, x, y) \in Nat
      BY <3>1, ValueFacts DEF Agree
    <3> QED  BY <1>5, <3>2
  <2> QED  BY <1>6, <2>1
<1>8. N \in S
  <2>1. Inductive(S, 0, N)
    BY <1>6, <1>7 DEF Inductive
  <2> HIDE DEF S, N
  <2> QED  BY <1>6, <2>1, UpTo
<1>9. ASSUME NEW c \in Cells PROVE G[c] \in Nat
  <2>1. c[1] + c[2] < N
    BY CellSums
  <2> QED  BY <1>8, <2>1
<1>10. G \in [Cells -> Nat]
  BY <1>3, <1>9
<1> QED  BY <1>4, <1>5, <1>10 DEF IsCost

-----------------------------------------------------------------------------
(* The inductive invariant *)

\* What the windows that end with sample i hold, and the values of that sample.
WindowAt(r) == [j \in In |-> X[r][i - Window + j + 1]]
Column == [r \in DOMAIN X |-> X[r][i]]

\* The counters agree, and the rows are the windows of the sample.
Counting ==
    /\ start = i - Window /\ itLvpi = IF i = Byte THEN 0 ELSE i
    /\ step # "point" => i < Points /\ rowP = WindowAt(p)
    /\ step \in {"path", "warped"} => q \in 0..(Rows - 1) \ {p} /\ rowQ = WindowAt(q)

\* A walk goes back from the last cell, never past the first, and nears it with each step.
IsWalk(s) ==
    /\ s # <<>> /\ s[1] = Corner
    /\ \A n \in 2..Len(s) : s[n - 1] # <<0, 0>> /\ s[n] = StepBack(s[n - 1][1], s[n - 1][2])
    /\ \A n \in 1..Len(s) : s[n][1] + s[n][2] + n <= 2 * Window - 1
Walking ==
    step \in {"path", "warped"} =>
        dtw_vector = AccumulatedCost(rowQ, rowP) /\ IsWalk(my_path)

Warping ==
    step = "warped" =>
        /\ my_path[Len(my_path)] = <<0, 0>>
        /\ warped["p"] = [w \in 1..Len(Path) |-> rowP[Path[w][2]]]
        /\ warped["q"] = [w \in 1..Len(Path) |-> rowQ[Path[w][1]]]

\* The score so far is a number if the values of the sample vary and so do the windows of
\* p and of the series seen so far.
Judging ==
    step # "point" =>
        (finite <=>
            /\ Varies(Column)
            /\ \A r \in 0..(q - 1) \ {p} : Varies(WindowAt(p)) /\ Varies(WindowAt(r)))

IInv == TypeOK /\ Counting /\ Walking /\ Warping /\ Judging

-----------------------------------------------------------------------------
(* Walks and ways *)

\* The step back goes to the cheapest cell before.
LEMMA StepBackFacts ==
    ASSUME dtw_vector \in [Cells -> Nat], NEW c \in Cells, c # <<0, 0>>
    PROVE  /\ StepBack(c[1], c[2]) \in Before(c)
           /\ \A b \in Before(c) : dtw_vector[StepBack(c[1], c[2])] <= dtw_vector[b]
<1>1. PICK k \in In, l \in In : c = <<k, l>>
  BY DEF Cells
<1> DEFINE up == <<k - 1, l>>
           left == <<k, l - 1>>
           match == <<k - 1, l - 1>>
<1>2. /\ c[1] = k /\ c[2] = l /\ Before(c) = {up, left, match} \cap Cells
      /\ k \in Nat /\ l \in Nat /\ k <= Window - 1 /\ l <= Window - 1 /\ Window \in Nat
  BY <1>1, AnomalyAssumption DEF Before, In
<1>3. /\ up \in Cells <=> k # 0
      /\ left \in Cells <=> l # 0
      /\ match \in Cells <=> (k # 0 /\ l # 0)
  BY <1>2 DEF Cells, In
<1>4. CASE k = 0
  <2>1. l # 0
    BY <1>1, <1>4
  <2>2. StepBack(c[1], c[2]) = left /\ Before(c) = {left} /\ left \in Cells
    BY <1>2, <1>3, <1>4, <2>1 DEF StepBack
  <2>3. dtw_vector[left] \in Nat
    BY <2>2
  <2> HIDE DEF left
  <2> QED  BY <2>2, <2>3
<1>5. CASE k # 0 /\ l = 0
  <2>1. StepBack(c[1], c[2]) = up /\ Before(c) = {up} /\ up \in Cells
    BY <1>2, <1>3, <1>5 DEF StepBack
  <2>2. dtw_vector[up] \in Nat
    BY <2>1
  <2> HIDE DEF up
  <2> QED  BY <2>1, <2>2
<1>6. CASE k # 0 /\ l # 0
  <2>1. Before(c) = {up, left, match}
    BY <1>2, <1>3, <1>6
  <2>2. StepBack(c[1], c[2]) =
          IF dtw_vector[up] <= dtw_vector[left] /\ dtw_vector[up] <= dtw_vector[match] THEN up
          ELSE IF dtw_vector[left] <= dtw_vector[match] THEN left ELSE match
    BY <1>2, <1>6 DEF StepBack
  <2>3. dtw_vector[up] \in Nat /\ dtw_vector[left] \in Nat /\ dtw_vector[match] \in Nat
    BY <1>3, <1>6
  <2> HIDE DEF up, left, match
  <2> QED  BY <2>1, <2>2, <2>3
<1> QED  BY <1>4, <1>5, <1>6

\* A walk that has reached the first cell, read from its end, is a way.
LEMMA PathFacts ==
    ASSUME dtw_vector \in [Cells -> Nat], my_path \in Seq(Cells), IsWalk(my_path),
           my_path[Len(my_path)] = <<0, 0>>
    PROVE  /\ Path \in [1..Len(Path) -> Cells] /\ Len(Path) \in 1..(2 * Window - 1)
           /\ IsWay(Path)
           /\ \A n \in 2..Len(Path) :
                /\ Path[n] # <<0, 0>>
                /\ Path[n - 1] = StepBack(Path[n][1], Path[n][2])
<1> DEFINE N == Len(my_path)
<1>1. N \in Nat /\ N # 0 /\ my_path \in [1..N -> Cells]
  BY LenProperties, EmptySeq DEF IsWalk
<1>2. Path = [n \in 1..N |-> my_path[(N - n) + 1]]
  BY DEF Path, Reverse
<1> HIDE DEF N
<1>3. Path \in [1..N -> Cells]
  BY <1>1, <1>2
<1>4. Len(Path) = N
  BY <1>1, <1>3, LenProperties, SeqDef
<1>5. N <= 2 * Window - 1
  <2>1. my_path[N] \in Cells /\ my_path[N][1] + my_path[N][2] + N <= 2 * Window - 1
    <3>1. N \in 1..N
      BY <1>1
    <3> QED  BY <1>1, <3>1 DEF IsWalk, N
  <2> QED  BY <1>1, <2>1, CellSums, AnomalyAssumption
<1>6. Path[1] = <<0, 0>> /\ Path[N] = Corner
  BY <1>1, <1>2 DEF IsWalk, N
<1>7. ASSUME NEW n \in 2..N
      PROVE  /\ Path[n] \in Cells /\ Path[n] # <<0, 0>>
             /\ Path[n - 1] = StepBack(Path[n][1], Path[n][2])
  <2>1. /\ (N - n) + 2 \in 2..N /\ ((N - n) + 2) - 1 = (N - n) + 1
        /\ n - 1 \in 1..N /\ (N - (n - 1)) + 1 = (N - n) + 2 /\ n \in 1..N
    BY <1>1
  <2>2. Path[n] = my_path[(N - n) + 1] /\ Path[n - 1] = my_path[(N - n) + 2]
    BY <1>2, <2>1
  <2> QED  BY <1>3, <2>1, <2>2 DEF IsWalk, N
<1>8. \A n \in 2..N : Path[n - 1] \in Before(Path[n])
  BY <1>7, StepBackFacts
<1> QED  BY <1>1, <1>3, <1>4, <1>5, <1>6, <1>7, <1>8 DEF IsWay, Corner

\* Numbers that start with 0 and never grow by more than 1 leave none out.
LEMMA NoGaps ==
    ASSUME NEW N \in Nat \ {0}, NEW f \in [1..N -> Nat], f[1] = 0,
           \A n \in 2..N : f[n] <= f[n - 1] + 1
    PROVE  \A j \in 0..f[N] : \E n \in 1..N : f[n] = j
<1> DEFINE S == {m \in 1..N : \A j \in 0..f[m] : \E n \in 1..m : f[n] = j}
<1>1. 1 \in S
  OBVIOUS
<1>2. ASSUME NEW m \in 1..(N - 1), m \in S PROVE m + 1 \in S
  <2>1. m + 1 \in 2..N /\ (m + 1) - 1 = m /\ f[m + 1] <= f[m] + 1
    OBVIOUS
  <2>2. f[m] \in Nat /\ f[m + 1] \in Nat
    BY <2>1
  <2>3. ASSUME NEW j \in 0..f[m + 1] PROVE \E n \in 1..(m + 1) : f[n] = j
    <3>1. CASE j \in 0..f[m]
      <4>1. PICK n \in 1..m : f[n] = j
        BY <1>2, <3>1, Zenon
      <4> QED  BY <4>1
    <3>2. CASE j \notin 0..f[m]
      <4>1. j = f[m + 1]
        BY <2>1, <2>2, <3>2
      <4> QED  BY <4>1
    <3> QED  BY <3>1, <3>2
  <2> QED  BY <2>1, <2>3
<1>3. Inductive(S, 1, N)
  BY <1>1, <1>2 DEF Inductive
<1>4. N \in S
  <2> HIDE DEF S
  <2> QED  BY <1>3, UpTo
<1> QED  BY <1>4

\* A way visits every row and every column.
LEMMA WayCovers ==
    ASSUME NEW N \in Nat \ {0}, NEW s \in [1..N -> Cells], Len(s) = N, IsWay(s), NEW j \in In
    PROVE  /\ \E n \in 1..N : s[n][1] = j
           /\ \E n \in 1..N : s[n][2] = j
<1> DEFINE f == [n \in 1..N |-> s[n][1]]
           g == [n \in 1..N |-> s[n][2]]
<1>1. f \in [1..N -> Nat] /\ g \in [1..N -> Nat]
  BY CellSums
<1>2. f[1] = 0 /\ g[1] = 0 /\ f[N] = Window - 1 /\ g[N] = Window - 1
  BY DEF IsWay
<1>3. ASSUME NEW n \in 2..N PROVE f[n] <= f[n - 1] + 1 /\ g[n] <= g[n - 1] + 1
  <2>1. n \in 1..N /\ n - 1 \in 1..N
    OBVIOUS
  <2>2. PICK k \in In, l \in In : s[n] = <<k, l>>
    BY <2>1 DEF Cells
  <2>3. \/ s[n - 1] = <<k - 1, l>> \/ s[n - 1] = <<k, l - 1>> \/ s[n - 1] = <<k - 1, l - 1>>
    BY <2>2 DEF IsWay, Before
  <2>4. k \in Int /\ l \in Int
    BY DEF In
  <2>5. f[n] = k /\ g[n] = l /\ f[n - 1] = s[n - 1][1] /\ g[n - 1] = s[n - 1][2]
    BY <2>1, <2>2
  <2> HIDE DEF f, g
  <2> QED  BY <2>3, <2>4, <2>5
<1> HIDE DEF f, g
<1>4. j \in 0..f[N] /\ j \in 0..g[N]
  BY <1>2 DEF In
<1>5. (\E n \in 1..N : f[n] = j) /\ (\E n \in 1..N : g[n] = j)
  BY <1>1, <1>2, <1>3, <1>4, NoGaps
<1> QED  BY <1>5 DEF f, g

\* Reading a row at indexes that leave none out makes it vary no less, and no more.
ReadsAll(at, N) ==
    /\ \A w \in 1..N : at[w] \in In
    /\ \A j \in In : \E w \in 1..N : at[w] = j
LEMMA ReadingVaries ==
    ASSUME NEW f, NEW g, NEW N, NEW at, DOMAIN f = In, g = [w \in 1..N |-> f[at[w]]],
           ReadsAll(at, N)
    PROVE  Varies(g) <=> Varies(f)
BY DEF Varies, ReadsAll

-----------------------------------------------------------------------------
(* The cost of a way *)

\* sum[n] is the cost of the first n cells of s.
IsSum(sum, s) ==
    /\ sum \in [0..Len(s) -> Nat] /\ sum[0] = 0
    /\ \A n \in 1..Len(s) : sum[n] = sum[n - 1] + Distance(rowQ[s[n][2]], rowP[s[n][1]])

\* The recursion of WayCost is well founded.
LEMMA WayCostIsSum ==
    ASSUME rowP \in [In -> Nat], rowQ \in [In -> Nat],
           NEW s, Len(s) \in Nat, s \in [1..Len(s) -> Cells]
    PROVE  \E sum : IsSum(sum, s) /\ WayCost(s) = sum[Len(s)]
<1> DEFINE N == Len(s)
           D(n) == Distance(rowQ[s[n][2]], rowP[s[n][1]])
           after == [n \in 1..N |-> [cost \in Nat |-> cost + D(n)]]
           Rec(g) == g = [n \in 0..N |-> IF n = 0 THEN 0 ELSE g[n - 1] + D(n)]
           G == CHOOSE g : Rec(g)
<1>1. \A n \in 1..N : D(n) \in Nat
  BY CellFacts, DistanceFacts
<1>2. N \in Nat /\ 0 \in Nat /\ after \in [1..N -> [Nat -> Nat]]
  <2> HIDE DEF D
  <2> QED  BY <1>1
<1>3. WayCost(s) = G[N]
  BY DEF WayCost
<1> HIDE DEF N, D
<1>4. PICK f \in [0..N -> Nat] : Follows(f, 0, after, N)
  <2> HIDE DEF after
  <2> QED  BY <1>2, Iterates
<1>5. \A n \in 1..N : n - 1 \in 0..N /\ f[n - 1] \in Nat
  BY <1>2
<1>6. f[0] = 0 /\ \A n \in 1..N : f[n] = f[n - 1] + D(n)
  BY <1>4, <1>5 DEF Follows
<1>7. Rec(f)
  <2>1. ASSUME NEW n \in 0..N PROVE f[n] = IF n = 0 THEN 0 ELSE f[n - 1] + D(n)
    BY <1>2, <1>6
  <2> QED  BY <2>1
<1>8. Rec(G)
  <2> HIDE DEF Rec
  <2> QED  BY <1>7
<1> HIDE DEF G
<1>9. G[0] = 0 /\ \A n \in 1..N : G[n] = G[n - 1] + D(n)
  <2>1. \A n \in 0..N : G[n] = IF n = 0 THEN 0 ELSE G[n - 1] + D(n)
    BY <1>8, Zenon
  <2> QED  BY <1>2, <2>1
<1> DEFINE S == {n \in 0..N : G[n] \in Nat}
<1>10. Inductive(S, 0, N)
  <2>1. 0 \in S
    BY <1>2, <1>9
  <2>2. ASSUME NEW n \in 0..(N - 1), n \in S PROVE n + 1 \in S
    <3>1. n + 1 \in 1..N /\ (n + 1) - 1 = n
      BY <1>2
    <3> QED  BY <1>1, <1>9, <2>2, <3>1
  <2> HIDE DEF S
  <2> QED  BY <2>1, <2>2 DEF Inductive
<1>11. G \in [0..N -> Nat]
  <2>1. 0..N \subseteq S
    <3> HIDE DEF S
    <3> QED  BY <1>2, <1>10, UpTo
  <2> QED  BY <1>8, <2>1
<1> QED  BY <1>3, <1>9, <1>11 DEF IsSum, N, D

\* What is accumulated in a cell, and no more, is what the path costs up to it; no way
\* costs less.
LEMMA WayCosts ==
    ASSUME rowP \in [In -> Nat], rowQ \in [In -> Nat], IsCost(dtw_vector, rowQ, rowP),
           NEW s, Len(s) \in Nat \ {0}, s \in [1..Len(s) -> Cells], IsWay(s)
    PROVE  /\ dtw_vector[Corner] <= WayCost(s)
           /\ (\A n \in 2..Len(s) : /\ s[n] # <<0, 0>>
                                    /\ s[n - 1] = StepBack(s[n][1], s[n][2]))
                => WayCost(s) = dtw_vector[Corner]
<1> DEFINE N == Len(s)
           D(n) == Distance(rowQ[s[n][2]], rowP[s[n][1]])
           back(n) == StepBack(s[n][1], s[n][2])
           Cheapest == \A n \in 2..N : s[n] # <<0, 0>> /\ s[n - 1] = back(n)
<1>1. PICK sum : IsSum(sum, s) /\ WayCost(s) = sum[N]
  BY WayCostIsSum
<1>2. /\ N \in Nat \ {0} /\ s[1] = <<0, 0>> /\ s[N] = Corner
      /\ dtw_vector \in [Cells -> Nat]
      /\ \A n \in 1..N : s[n] \in Cells /\ D(n) \in Nat
  BY CellFacts, DistanceFacts DEF IsWay, IsCost, Corner
<1>3. /\ sum \in [0..N -> Nat] /\ sum[0] = 0
      /\ \A n \in 1..N : n - 1 \in 0..N /\ sum[n - 1] \in Nat /\ sum[n] = sum[n - 1] + D(n)
  <2>1. /\ sum \in [0..N -> Nat] /\ sum[0] = 0
        /\ \A n \in 1..N : sum[n] = sum[n - 1] + D(n)
    BY <1>1 DEF IsSum
  <2>2. \A n \in 1..N : n - 1 \in 0..N
    <3> HIDE DEF N
    <3> QED  BY <1>2
  <2> HIDE DEF N, D
  <2>3. \A n \in 1..N : sum[n - 1] \in Nat
    BY <2>1, <2>2
  <2> QED  BY <2>1, <2>2, <2>3
<1>4. sum[1] = dtw_vector[<<0, 0>>]
  <2>1. sum[1] = D(1) /\ D(1) \in Nat
    <3> HIDE DEF N, D
    <3>1. 1 \in 1..N /\ 1 - 1 = 0
      BY <1>2
    <3> QED  BY <1>2, <1>3, <3>1
  <2>2. Value(<<0, 0>>, dtw_vector, rowQ, rowP) = D(1) + 0
    BY <1>2 DEF Value
  <2>3. dtw_vector[<<0, 0>>] = D(1) + 0
    BY <2>2, CellFacts DEF IsCost
  <2> HIDE DEF D
  <2> QED  BY <2>1, <2>3
<1>5. ASSUME NEW n \in 2..N
      PROVE  /\ dtw_vector[s[n]] <= D(n) + dtw_vector[s[n - 1]]
             /\ Cheapest => dtw_vector[s[n]] = D(n) + dtw_vector[s[n - 1]]
  <2>1. n \in 1..N /\ s[n] \in Cells /\ s[n - 1] \in Before(s[n])
    BY <1>2 DEF IsWay
  <2>2. CASE s[n] # <<0, 0>>
    <3> DEFINE costs == {dtw_vector[b] : b \in Before(s[n])}
               m == Least(costs)
    <3>1. Before(s[n]) \subseteq Cells /\ dtw_vector[s[n - 1]] \in costs
      BY <2>1, BeforeFacts
    <3>2. costs \in SUBSET Nat
      BY <1>2, <3>1
    <3>3. m \in costs /\ m \in Nat /\ \A c \in costs : m <= c
      <4> HIDE DEF costs
      <4> QED  BY <3>1, <3>2, LeastFacts
    <3>4. dtw_vector[s[n]] = D(n) + m
      BY <2>1, <2>2 DEF IsCost, Value
    <3>5. m <= dtw_vector[s[n - 1]] /\ dtw_vector[s[n - 1]] \in Nat
      BY <3>1, <3>2, <3>3
    <3>6. ASSUME Cheapest PROVE m = dtw_vector[s[n - 1]]
      <4>1. s[n - 1] = back(n)
        BY <3>6
      <4>2. \A b \in Before(s[n]) : dtw_vector[s[n - 1]] <= dtw_vector[b]
        BY <1>2, <2>1, <2>2, <4>1, StepBackFacts
      <4>3. dtw_vector[s[n - 1]] <= m
        BY <3>3, <4>2
      <4> HIDE DEF m
      <4> QED  BY <3>3, <3>5, <4>3
    <3>7. D(n) \in Nat
      BY <1>2, <2>1
    <3> HIDE DEF m, D, Cheapest
    <3> QED  BY <3>3, <3>4, <3>5, <3>6, <3>7
  <2>3. CASE s[n] = <<0, 0>>
    <3>1. ~ Cheapest
      BY <2>3
    <3>2. Before(<<0, 0>>) = {}
      BY DEF Before, Cells, In
    <3> QED  BY <2>1, <2>3, <3>2
  <2> QED  BY <2>2, <2>3
<1> HIDE DEF N, D, Cheapest
<1> DEFINE S == {n \in 1..N : /\ dtw_vector[s[n]] <= sum[n]
                              /\ Cheapest => sum[n] = dtw_vector[s[n]]}
<1>6. Inductive(S, 1, N)
  <2>1. 1 \in S
    <3>1. dtw_vector[<<0, 0>>] \in Nat /\ 1 \in 1..N
      BY <1>2, CellFacts
    <3>2. dtw_vector[s[1]] = sum[1] /\ dtw_vector[s[1]] <= sum[1]
      BY <1>2, <1>4, <3>1
    <3> QED  BY <3>1, <3>2
  <2>2. ASSUME NEW n \in 1..(N - 1), n \in S PROVE n + 1 \in S
    <3>1. n + 1 \in 2..N /\ (n + 1) - 1 = n /\ n \in 1..N /\ n + 1 \in 1..N
      BY <1>2
    <3>2. /\ sum[n + 1] = sum[n] + D(n + 1) /\ sum[n] \in Nat /\ D(n + 1) \in Nat
          /\ dtw_vector[s[n]] \in Nat /\ dtw_vector[s[n + 1]] \in Nat
      BY <1>2, <1>3, <3>1
    <3>3. /\ dtw_vector[s[n + 1]] <= D(n + 1) + dtw_vector[s[n]]
          /\ Cheapest => dtw_vector[s[n + 1]] = D(n + 1) + dtw_vector[s[n]]
      BY <1>5, <3>1
    <3> QED  BY <2>2, <3>1, <3>2, <3>3
  <2> HIDE DEF S
  <2> QED  BY <2>1, <2>2 DEF Inductive
<1>7. N \in S
  <2> HIDE DEF S
  <2>1. N \in Int /\ 1 \in Int /\ N \in 1..N
    BY <1>2
  <2> QED  BY <1>6, <2>1, UpTo
<1> QED  BY <1>1, <1>2, <1>7 DEF N, Cheapest

-----------------------------------------------------------------------------
(* The invariant holds *)

\* The index arithmetic of 8 bits reads the window that ends with the sample.
LEMMA WindowFacts ==
    ASSUME TypeOK, Counting, i < Points, NEW r \in 0..(Rows - 1)
    PROVE  WindowOf(X[r]) = WindowAt(r) /\ WindowAt(r) \in [In -> Nat]
<1>1. start \in Nat /\ start = i - Window /\ i \in Window..Points
  BY DEF TypeOK, Counting
<1>2. X[r] \in [0..(Points - 1) -> Nat]
  BY DEF TypeOK
<1>3. ASSUME NEW j \in In
      PROVE  WindowIndex(j) = i - Window + j + 1 /\ i - Window + j + 1 \in 0..(Points - 1)
  <2>1. WindowIndex(j) = j + start + 1
    BY <1>1, WindowIndexFacts
  <2> QED  BY <1>1, <2>1, AnomalyAssumption DEF In
<1> QED  BY <1>2, <1>3 DEF WindowOf, WindowAt

\* What Judging says of finite when the series below n have been seen.
Judged(n) ==
    /\ Varies(Column)
    /\ \A r \in 0..(n - 1) \ {p} : Varies(WindowAt(p)) /\ Varies(WindowAt(r))

LEMMA JudgedNext ==
    ASSUME NEW n \in Nat
    PROVE  Judged(n + 1) <=>
              Judged(n) /\ (n = p \/ (Varies(WindowAt(p)) /\ Varies(WindowAt(n))))
<1>1. 0..((n + 1) - 1) = 0..(n - 1) \cup {n}
  OBVIOUS
<1> QED  BY <1>1, Zenon DEF Judged

\* Steps within a sample change neither its values nor its windows.
LEMMA SameSample ==
    ASSUME X' = X, p' = p, i' = i
    PROVE  /\ Column' = Column /\ \A r : WindowAt(r)' = WindowAt(r)
           /\ \A n : Judged(n)' <=> Judged(n)
BY DEF Column, WindowAt, Judged, Varies

\* The score so far when no series has been seen by a step, and when q has.
LEMMA JudgingKept ==
    ASSUME Judging, step # "point", X' = X, p' = p, i' = i, q' = q, finite' = finite
    PROVE  Judging'
<1>1. finite <=> Judged(q)
  BY DEF Judging, Judged
<1>2. \A n : n = q' => (finite' <=> Judged(n)')
  BY <1>1, SameSample
<1> QED  BY <1>2 DEF Judging, Judged

LEMMA JudgingSeen ==
    ASSUME TypeOK, Judging, step # "point", X' = X, p' = p, i' = i, q' = q + 1,
           IF q = p THEN finite' = finite
           ELSE finite' = (finite /\ Varies(WindowAt(p)) /\ Varies(WindowAt(q)))
    PROVE  Judging'
<1>1. finite <=> Judged(q)
  BY DEF Judging, Judged
<1>2. q \in Nat /\ finite \in BOOLEAN
  BY DEF TypeOK
<1>3. Judged(q + 1) <=> Judged(q) /\ (q = p \/ (Varies(WindowAt(p)) /\ Varies(WindowAt(q))))
  BY <1>2, JudgedNext
<1>4. finite' <=> Judged(q + 1)
  <2>1. CASE q = p
    BY <1>1, <1>3, <2>1
  <2>2. CASE q # p
    BY <1>1, <1>3, <2>2
  <2> QED  BY <2>1, <2>2
<1>5. \A n : n = q' => (finite' <=> Judged(n)')
  BY <1>4, SameSample
<1> QED  BY <1>5 DEF Judging, Judged

LEMMA InitIInv == Init => IInv
<1> SUFFICES ASSUME Init PROVE IInv
  OBVIOUS
<1>0. Window % Byte = Window
  <2>1. Window \in 0..(Byte - 1)
    BY AnomalyAssumption
  <2> QED  BY <2>1, AnomalyAssumption
<1> USE AnomalyAssumption DEF Init
<1>1. i = Window /\ itLvpi = Window
  BY <1>0
<1>2. TypeOK
  <2>1. X \in [0..(Rows - 1) -> [0..(Points - 1) -> Nat]] /\ p \in 0..(Rows - 1)
    OBVIOUS
  <2>2. /\ i \in Window..Points /\ start \in 0..(Byte - 1) /\ itLvpi \in 0..(Byte - 1)
        /\ q \in 0..Rows
    BY <1>1
  <2>3. my_path \in Seq(Cells) /\ warped \in [{"p", "q"} -> Seq(Nat)]
    BY EmptySeq
  <2>4. scores \in [0..(Points - Window - 1) -> ScoreType]
    <3>1. NoScore \in ScoreType
      BY DEF NoScore, ScoreType
    <3> QED  BY <3>1
  <2> QED  BY <2>1, <2>2, <2>3, <2>4 DEF TypeOK
<1>3. Counting
  BY <1>1 DEF Counting
<1> QED  BY <1>2, <1>3 DEF IInv, Walking, Warping, Judging

LEMMA NextPointIInv == IInv /\ NextPoint => IInv'
<1> SUFFICES ASSUME IInv, NextPoint PROVE IInv'
  OBVIOUS
<1> USE DEF NextPoint, args, warpVars
<1>1. /\ TypeOK /\ Counting /\ i < Points /\ p \in 0..(Rows - 1)
      /\ X' = X /\ p' = p /\ method' = method /\ i' = i /\ start' = start /\ itLvpi' = itLvpi
  BY DEF IInv, TypeOK
<1>2. WindowOf(X[p]) = WindowAt(p) /\ WindowAt(p) \in [In -> Nat]
  BY <1>1, WindowFacts
<1>3. \A r : WindowAt(r)' = WindowAt(r)
  BY <1>1 DEF WindowAt
<1>4. TypeOK'
  <2>1. finite' \in BOOLEAN /\ rowP' \in [In -> Nat] /\ q' \in 0..Rows
    BY <1>2, AnomalyAssumption DEF FreshSum, Varies
  <2> QED  BY <1>1, <2>1 DEF TypeOK
<1>5. Counting'
  BY <1>1, <1>2, <1>3 DEF Counting
<1>6. Judging'
  <2>1. finite' <=> Varies(Column)
    BY DEF FreshSum, Column
  <2>2. Column' = Column /\ 0..(q' - 1) = {}
    BY <1>1 DEF Column
  <2> QED  BY <2>1, <2>2 DEF Judging, Varies
<1> QED  BY <1>4, <1>5, <1>6 DEF IInv, Walking, Warping

LEMMA SkipSelfIInv == IInv /\ SkipSelf => IInv'
<1> SUFFICES ASSUME IInv, SkipSelf PROVE IInv'
  OBVIOUS
<1> USE DEF SkipSelf, args, warpVars
<1>1. /\ TypeOK /\ Counting /\ Judging /\ step = "others" /\ step' = "others" /\ q \in Nat
      /\ X' = X /\ p' = p /\ method' = method /\ i' = i /\ start' = start /\ itLvpi' = itLvpi
      /\ q' = q + 1 /\ q = p /\ finite' = finite /\ rowP' = rowP
  BY DEF IInv, TypeOK
<1>2. \A r : WindowAt(r)' = WindowAt(r)
  BY <1>1 DEF WindowAt
<1>3. TypeOK'
  <2>1. q' \in 0..Rows
    BY <1>1, AnomalyAssumption DEF TypeOK
  <2> QED  BY <1>1, <2>1 DEF TypeOK
<1>4. Counting'
  BY <1>1, <1>2 DEF Counting
<1>5. Judging'
  BY <1>1, JudgingSeen
<1> QED  BY <1>1, <1>3, <1>4, <1>5 DEF IInv, Walking, Warping

LEMMA AccumulateIInv == IInv /\ Accumulate => IInv'
<1> SUFFICES ASSUME IInv, Accumulate PROVE IInv'
  OBVIOUS
<1> USE DEF Accumulate, args
<1>1. /\ TypeOK /\ Counting /\ Judging /\ step = "others" /\ step' = "path"
      /\ X' = X /\ p' = p /\ method' = method /\ i' = i /\ start' = start /\ itLvpi' = itLvpi
      /\ q' = q /\ q \in 0..(Rows - 1) \ {p} /\ rowP' = rowP /\ finite' = finite
      /\ scores' = scores /\ warped' = warped /\ i < Points
      /\ rowP = WindowAt(p) /\ rowP \in [In -> Nat]
  BY DEF IInv, TypeOK, Counting
<1>2. rowQ' = WindowAt(q) /\ rowQ' \in [In -> Nat]
  BY <1>1, WindowFacts
<1>3. dtw_vector' = AccumulatedCost(rowQ', rowP) /\ dtw_vector' \in [Cells -> Nat]
  BY <1>1, <1>2, CostIsAccumulated DEF IsCost
<1>4. my_path' = <<Corner>> /\ my_path' \in Seq(Cells) /\ Len(my_path') = 1
      /\ my_path'[1] = Corner
  BY CellFacts DEF Corner
<1>5. TypeOK'
  BY <1>1, <1>2, <1>3, <1>4 DEF TypeOK
<1>6. Counting'
  BY <1>1, <1>2, SameSample DEF Counting
<1>7. Walking'
  <2>1. Corner[1] + Corner[2] + 1 <= 2 * Window - 1
    BY AnomalyAssumption DEF Corner
  <2>2. my_path' # <<>> /\ \A n \in 1..Len(my_path') : n = 1
    BY <1>4
  <2>3. \A n \in 2..Len(my_path') : FALSE
    BY <1>4
  <2> QED  BY <1>1, <1>3, <1>4, <2>1, <2>2, <2>3 DEF Walking, IsWalk
<1>8. Judging'
  BY <1>1, JudgingKept
<1> QED  BY <1>1, <1>5, <1>6, <1>7, <1>8 DEF IInv, Warping

LEMMA PathStepIInv == IInv /\ PathStep => IInv'
<1> SUFFICES ASSUME IInv, PathStep PROVE IInv'
  OBVIOUS
<1> USE DEF PathStep, args
<1> DEFINE N == Len(my_path)
           c == my_path[N]
           b == StepBack(c[1], c[2])
<1>1. /\ TypeOK /\ Counting /\ Walking /\ Judging /\ step = "path" /\ step' = "path"
      /\ X' = X /\ p' = p /\ method' = method /\ i' = i /\ start' = start /\ itLvpi' = itLvpi
      /\ q' = q /\ rowP' = rowP /\ rowQ' = rowQ /\ finite' = finite
      /\ dtw_vector' = dtw_vector /\ dtw_vector \in [Cells -> Nat]
      /\ my_path \in Seq(Cells) /\ IsWalk(my_path) /\ scores' = scores /\ warped' = warped
  BY DEF IInv, TypeOK, Walking
<1>2. N \in Nat /\ N # 0 /\ my_path \in [1..N -> Cells] /\ N \in 1..N
  BY <1>1, LenProperties, EmptySeq DEF IsWalk
<1>3. c \in Cells /\ c # <<0, 0>> /\ my_path' = Append(my_path, b)
  BY <1>2 DEF Last
<1>4. b \in Cells /\ b[1] + b[2] < c[1] + c[2]
  BY <1>1, <1>3, StepBackFacts, BeforeFacts
<1>5. /\ my_path' \in Seq(Cells) /\ Len(my_path') = N + 1 /\ my_path'[N + 1] = b
      /\ \A n \in 1..N : my_path'[n] = my_path[n]
  BY <1>1, <1>3, <1>4, AppendProperties
<1>6. TypeOK'
  BY <1>1, <1>5 DEF TypeOK
<1>7. Counting'
  BY <1>1, SameSample DEF Counting
<1>8. IsWalk(my_path)'
  <2>1. my_path' # <<>> /\ my_path'[1] = Corner
    BY <1>1, <1>2, <1>5, EmptySeq DEF IsWalk
  <2>2. \A k, l : StepBack(k, l)' = StepBack(k, l)
    BY <1>1 DEF StepBack
  <2>3. ASSUME NEW n \in 2..(N + 1)
        PROVE  /\ my_path'[n - 1] # <<0, 0>>
               /\ my_path'[n] = StepBack(my_path'[n - 1][1], my_path'[n - 1][2])
    <3>1. n - 1 \in 1..N
      BY <1>2
    <3>2. CASE n = N + 1
      BY <1>2, <1>3, <1>5, <3>1, <3>2
    <3>3. CASE n \in 2..N
      <4>1. /\ my_path[n - 1] # <<0, 0>>
            /\ my_path[n] = StepBack(my_path[n - 1][1], my_path[n - 1][2])
        BY <1>1, <3>3 DEF IsWalk
      <4>2. my_path'[n - 1] = my_path[n - 1] /\ my_path'[n] = my_path[n]
        <5>1. n \in 1..N
          BY <3>3
        <5> HIDE DEF N
        <5> QED  BY <1>5, <3>1, <5>1
      <4> QED  BY <4>1, <4>2
    <3> QED  BY <1>2, <3>2, <3>3
  <2>4. ASSUME NEW n \in 1..(N + 1)
        PROVE  my_path'[n][1] + my_path'[n][2] + n <= 2 * Window - 1
    <3>1. CASE n = N + 1
      <4>1. c[1] + c[2] + N <= 2 * Window - 1
        BY <1>1, <1>2 DEF IsWalk
      <4>2. b[1] + b[2] \in Nat /\ c[1] + c[2] \in Nat /\ Window \in Nat
        BY <1>3, <1>4, CellSums, AnomalyAssumption
      <4>3. b[1] + b[2] + (N + 1) <= 2 * Window - 1
        <5> HIDE DEF b, c, N
        <5> QED  BY <1>2, <1>4, <4>1, <4>2
      <4> QED  BY <1>5, <3>1, <4>3
    <3>2. CASE n \in 1..N
      BY <1>1, <1>5, <3>2 DEF IsWalk
    <3> QED  BY <1>2, <3>1, <3>2
  <2> HIDE DEF N
  <2> QED  BY <1>5, <2>1, <2>2, <2>3, <2>4 DEF IsWalk, Corner
<1>9. Walking'
  BY <1>1, <1>8 DEF Walking
<1>10. Judging'
  BY <1>1, JudgingKept
<1> QED  BY <1>1, <1>6, <1>7, <1>9, <1>10 DEF IInv, Warping

\* What the walk is when it has reached the first cell, and the rows that it reads.
LEMMA WalkedFacts ==
    ASSUME TypeOK, Walking, step \in {"path", "warped"}, my_path[Len(my_path)] = <<0, 0>>
    PROVE  /\ Len(Path) \in 1..(2 * Window - 1) /\ Path \in [1..Len(Path) -> Cells]
           /\ IsWay(Path)
           /\ \A n \in 2..Len(Path) :
                Path[n] # <<0, 0>> /\ Path[n - 1] = StepBack(Path[n][1], Path[n][2])
BY PathFacts DEF TypeOK, Walking

LEMMA WarpIInv == IInv /\ Warp => IInv'
<1> SUFFICES ASSUME IInv, Warp PROVE IInv'
  OBVIOUS
<1> USE DEF Warp, args
<1>1. /\ TypeOK /\ Counting /\ Walking /\ Judging /\ step = "path" /\ step' = "warped"
      /\ X' = X /\ p' = p /\ method' = method /\ i' = i /\ start' = start /\ itLvpi' = itLvpi
      /\ q' = q /\ rowP' = rowP /\ rowQ' = rowQ /\ finite' = finite
      /\ dtw_vector' = dtw_vector /\ my_path' = my_path /\ scores' = scores
      /\ rowP \in [In -> Nat] /\ rowQ \in [In -> Nat]
      /\ my_path[Len(my_path)] = <<0, 0>> /\ Path' = Path
  BY DEF IInv, TypeOK, Last, Path, Reverse
<1>2. Len(Path) \in 1..(2 * Window - 1) /\ Path \in [1..Len(Path) -> Cells]
  BY <1>1, WalkedFacts
<1> DEFINE N == Len(Path)
<1>3. N \in Nat /\ DOMAIN Path = 1..N
  BY <1>2, AnomalyAssumption
<1>4. ASSUME NEW w \in 1..N
      PROVE  /\ Path[w][1] \in In /\ Path[w][2] \in In
             /\ WarpedIndex(w - 1, Path[w][1]) = Path[w][1]
             /\ WarpedIndex(w - 1, Path[w][2]) = Path[w][2]
  <2>1. w - 1 \in 0..(2 * Window - 2)
    BY <1>2, AnomalyAssumption
  <2>2. Path[w][1] \in In /\ Path[w][2] \in In
    BY <1>2, CellFacts
  <2> QED  BY <2>1, <2>2, WarpedIndexFacts
<1>5. /\ warped' = [row \in {"p", "q"} |-> warped'[row]]
      /\ warped'["p"] = [w \in 1..N |-> rowP[Path[w][2]]]
      /\ warped'["q"] = [w \in 1..N |-> rowQ[Path[w][1]]]
  BY <1>3, <1>4
<1>6. TypeOK'
  <2>1. warped'["p"] \in Seq(Nat) /\ warped'["q"] \in Seq(Nat)
    <3>1. warped'["p"] \in [1..N -> Nat] /\ warped'["q"] \in [1..N -> Nat]
      BY <1>1, <1>4, <1>5
    <3>2. \A f \in [1..N -> Nat] : f \in Seq(Nat)
      <4> HIDE DEF N
      <4> QED  BY <1>3, SeqDef
    <3> QED  BY <3>1, <3>2
  <2>2. warped' \in [{"p", "q"} -> Seq(Nat)]
    BY <1>5, <2>1
  <2> QED  BY <1>1, <2>2 DEF TypeOK
<1>7. Counting'
  BY <1>1, SameSample DEF Counting
<1>8. Walking'
  BY <1>1 DEF Walking, IsWalk, StepBack
<1>9. Warping'
  BY <1>1, <1>5 DEF Warping
<1>10. Judging'
  BY <1>1, JudgingKept
<1> QED  BY <1>6, <1>7, <1>8, <1>9, <1>10 DEF IInv

\* Warping makes no row constant: the path reads every value of both windows.
LEMMA WarpVaries ==
    ASSUME TypeOK, Walking, Warping, step = "warped"
    PROVE  /\ Varies(warped["p"]) <=> Varies(rowP)
           /\ Varies(warped["q"]) <=> Varies(rowQ)
<1> DEFINE N == Len(Path)
           first == [w \in 1..N |-> Path[w][1]]
           second == [w \in 1..N |-> Path[w][2]]
<1>1. /\ N \in Nat \ {0} /\ Path \in [1..N -> Cells] /\ IsWay(Path)
      /\ warped["p"] = [w \in 1..N |-> rowP[Path[w][2]]]
      /\ warped["q"] = [w \in 1..N |-> rowQ[Path[w][1]]]
  BY WalkedFacts, AnomalyAssumption DEF Warping
<1>2. \A w \in 1..N : first[w] \in In /\ second[w] \in In
  BY <1>1, CellFacts
<1>3. \A j \in In : (\E w \in 1..N : first[w] = j) /\ (\E w \in 1..N : second[w] = j)
  <2> SUFFICES ASSUME NEW j \in In
               PROVE  (\E w \in 1..N : first[w] = j) /\ (\E w \in 1..N : second[w] = j)
    OBVIOUS
  <2>1. (\E w \in 1..N : Path[w][1] = j) /\ (\E w \in 1..N : Path[w][2] = j)
    BY <1>1, WayCovers
  <2> QED  BY <2>1
<1>4. /\ warped["p"] = [w \in 1..N |-> rowP[second[w]]]
      /\ warped["q"] = [w \in 1..N |-> rowQ[first[w]]]
  BY <1>1
<1>5. DOMAIN rowP = In /\ DOMAIN rowQ = In
  BY DEF TypeOK
<1>6. ReadsAll(first, N) /\ ReadsAll(second, N)
  BY <1>2, <1>3 DEF ReadsAll
<1> HIDE DEF N, first, second
<1>7. Varies(warped["p"]) <=> Varies(rowP)
  BY <1>4, <1>5, <1>6, ReadingVaries
<1>8. Varies(warped["q"]) <=> Varies(rowQ)
  BY <1>4, <1>5, <1>6, ReadingVaries
<1> QED  BY <1>7, <1>8

LEMMA CorrelateIInv == IInv /\ Correlate => IInv'
<1> SUFFICES ASSUME IInv, Correlate PROVE IInv'
  OBVIOUS
<1> USE DEF Correlate, args, warpVars
<1>1. /\ TypeOK /\ Counting /\ Walking /\ Warping /\ Judging /\ step = "warped"
      /\ step' = "others" /\ X' = X /\ p' = p /\ method' = method /\ i' = i
      /\ start' = start /\ itLvpi' = itLvpi /\ q' = q + 1 /\ rowP' = rowP
      /\ q \in 0..(Rows - 1) \ {p} /\ rowP = WindowAt(p) /\ rowQ = WindowAt(q)
  BY DEF IInv, Counting
<1>2. finite' = (finite /\ Varies(WindowAt(p)) /\ Varies(WindowAt(q))) /\ finite' \in BOOLEAN
  <2>1. finite' = (finite /\ Varies(warped["p"]) /\ Varies(warped["q"]))
    OBVIOUS
  <2>2. /\ Varies(warped["p"]) <=> Varies(rowP)
        /\ Varies(warped["q"]) <=> Varies(rowQ)
    BY <1>1, WarpVaries
  <2>3. \A f : Varies(f) \in BOOLEAN
    BY DEF Varies
  <2> QED  BY <1>1, <2>1, <2>2, <2>3
<1>3. TypeOK'
  <2>1. q' \in 0..Rows
    BY <1>1, AnomalyAssumption
  <2> QED  BY <1>1, <1>2, <2>1 DEF TypeOK
<1>4. Counting'
  BY <1>1, SameSample DEF Counting
<1>5. Judging'
  BY <1>1, <1>2, JudgingSeen
<1> QED  BY <1>1, <1>3, <1>4, <1>5 DEF IInv, Walking, Warping

LEMMA CorrelateWindowsIInv == IInv /\ CorrelateWindows => IInv'
<1> SUFFICES ASSUME IInv, CorrelateWindows PROVE IInv'
  OBVIOUS
<1> USE DEF CorrelateWindows, args
<1>1. /\ TypeOK /\ Counting /\ Judging /\ step = "others" /\ i < Points
      /\ step' = "others" /\ X' = X /\ p' = p /\ method' = method /\ i' = i
      /\ start' = start /\ itLvpi' = itLvpi /\ q' = q + 1 /\ rowP' = rowP
      /\ q \in 0..(Rows - 1) \ {p} /\ rowP = WindowAt(p)
  BY DEF IInv, Counting
<1>2. rowQ' = WindowAt(q) /\ rowQ' \in [In -> Nat]
  BY <1>1, WindowFacts
<1>3. finite' = (finite /\ Varies(WindowAt(p)) /\ Varies(WindowAt(q))) /\ finite' \in BOOLEAN
  BY <1>1, <1>2 DEF Varies
<1>4. TypeOK'
  <2>1. q' \in 0..Rows
    BY <1>1, AnomalyAssumption
  <2> QED  BY <1>1, <1>2, <1>3, <2>1 DEF TypeOK
<1>5. Counting'
  BY <1>1, SameSample DEF Counting
<1>6. Judging'
  BY <1>1, <1>3, JudgingSeen
<1> QED  BY <1>1, <1>4, <1>5, <1>6 DEF IInv, Walking, Warping

LEMMA ScoreIInv == IInv /\ Score => IInv'
<1> SUFFICES ASSUME IInv, Score PROVE IInv'
  OBVIOUS
<1> USE DEF Score, args, warpVars
<1>1. /\ TypeOK /\ Counting /\ step = "others" /\ step' = "point" /\ X' = X /\ p' = p
      /\ method' = method /\ i \in Window..Points /\ i < Points /\ i' = i + 1
      /\ start = i - Window /\ itLvpi = i
  <2>1. TypeOK /\ Counting /\ i \in Window..Points /\ i < Points
    BY DEF IInv, TypeOK, Counting
  <2>2. i # Byte
    BY <2>1, AnomalyAssumption
  <2> QED  BY <2>1, <2>2 DEF Counting
<1>2. start' = start + 1 /\ start' \in 0..(Byte - 1)
  <2>1. start \in 0..(Byte - 1) /\ start + 1 < Byte
    BY <1>1, AnomalyAssumption
  <2>2. start' = start + 1
    BY <2>1, IncreasedFacts
  <2> QED  BY <2>1, <2>2, AnomalyAssumption
<1>3. itLvpi' = (IF i' = Byte THEN 0 ELSE i') /\ itLvpi' \in 0..(Byte - 1)
  <2>1. i \in 0..(Byte - 1)
    BY <1>1, AnomalyAssumption
  <2>2. itLvpi' = IF i + 1 = Byte THEN 0 ELSE i + 1
    BY <1>1, <2>1, IncreasedFacts
  <2> QED  BY <1>1, <2>1, <2>2, AnomalyAssumption
<1>4. TypeOK'
  <2>1. [sample |-> i, window |-> rowP, finite |-> finite] \in ScoreType
    BY <1>1, AnomalyAssumption DEF TypeOK, ScoreType
  <2>2. scores' \in [0..(Points - Window - 1) -> ScoreType]
    BY <1>1, <2>1 DEF TypeOK
  <2>3. i' \in Window..Points
    BY <1>1, AnomalyAssumption
  <2> QED  BY <1>1, <1>2, <1>3, <2>2, <2>3 DEF TypeOK
<1>5. Counting'
  <2>1. start' = i' - Window
    BY <1>1, <1>2, AnomalyAssumption
  <2> QED  BY <1>1, <1>3, <2>1 DEF Counting
<1> QED  BY <1>1, <1>4, <1>5 DEF IInv, Walking, Warping, Judging

LEMMA StutterIInv == IInv /\ UNCHANGED vars => IInv'
<1> SUFFICES ASSUME IInv, UNCHANGED vars PROVE IInv'
  OBVIOUS
<1> USE DEF vars, args, warpVars
<1>1. TypeOK'
  BY DEF IInv, TypeOK
<1>2. Counting'
  BY DEF IInv, Counting, WindowAt
<1>3. Walking' /\ Warping'
  <2>1. Path' = Path
    BY DEF Path, Reverse
  <2>2. Walking'
    BY DEF IInv, Walking, IsWalk, StepBack
  <2> QED  BY <2>1, <2>2 DEF IInv, Warping
<1>4. Judging'
  BY DEF IInv, Judging, Column, WindowAt
<1> QED  BY <1>1, <1>2, <1>3, <1>4 DEF IInv

LEMMA NextIInv == IInv /\ [Next]_vars => IInv'
BY NextPointIInv, SkipSelfIInv, AccumulateIInv, PathStepIInv, WarpIInv, CorrelateIInv,
   CorrelateWindowsIInv, ScoreIInv, StutterIInv DEF Next

LEMMA Invariance == Spec => []IInv
BY InitIInv, NextIInv, PTL DEF Spec

\* Every variable has its type, for all series and whatever the widths: the counters of 8
\* bits and the indexes made of them never leave the windows and the matrix.
THEOREM TypeCorrect == Spec => []TypeOK
<1>1. IInv => TypeOK
  BY DEF IInv
<1> QED  BY <1>1, Invariance, PTL

-----------------------------------------------------------------------------
(* The path *)

\* Ways are the ways of 1 to 2 * Window - 1 cells.
LEMMA WaysFacts ==
    /\ \A s \in Ways : Len(s) \in Nat \ {0} /\ s \in [1..Len(s) -> Cells] /\ IsWay(s)
    /\ \A n \in 1..(2 * Window - 1) : \A s \in [1..n -> Cells] :
          Len(s) = n /\ (IsWay(s) => s \in Ways)
<1>1. \A n \in Nat : \A s \in [1..n -> Cells] : Len(s) = n
  <2> SUFFICES ASSUME NEW n \in Nat, NEW s \in [1..n -> Cells] PROVE Len(s) = n
    OBVIOUS
  <2>1. s \in Seq(Cells)
    BY SeqDef
  <2> QED  BY <2>1, LenProperties
<1>2. ASSUME NEW s \in Ways
      PROVE  Len(s) \in Nat \ {0} /\ s \in [1..Len(s) -> Cells] /\ IsWay(s)
  <2>1. PICK n \in 1..(2 * Window - 1) : s \in [1..n -> Cells] /\ IsWay(s)
    BY DEF Ways
  <2>2. n \in Nat \ {0}
    BY AnomalyAssumption
  <2>3. Len(s) = n
    BY <1>1, <2>1, <2>2
  <2> QED  BY <2>1, <2>2, <2>3
<1>3. ASSUME NEW n \in 1..(2 * Window - 1), NEW s \in [1..n -> Cells]
      PROVE  Len(s) = n /\ (IsWay(s) => s \in Ways)
  <2>1. n \in Nat
    BY AnomalyAssumption
  <2> QED  BY <1>1, <2>1 DEF Ways
<1> QED  BY <1>2, <1>3

LEMMA PathInv == IInv => PathCheapest
<1> SUFFICES ASSUME IInv, step = "warped" PROVE PathCheapest
  BY DEF PathCheapest
<1>1. /\ rowP \in [In -> Nat] /\ rowQ \in [In -> Nat]
      /\ TypeOK /\ Walking /\ my_path[Len(my_path)] = <<0, 0>>
      /\ dtw_vector = AccumulatedCost(rowQ, rowP)
  BY DEF IInv, TypeOK, Walking, Warping
<1>2. IsCost(dtw_vector, rowQ, rowP)
  BY <1>1, CostIsAccumulated
<1>3. /\ Len(Path) \in 1..(2 * Window - 1) /\ Path \in [1..Len(Path) -> Cells] /\ IsWay(Path)
      /\ \A n \in 2..Len(Path) :
           Path[n] # <<0, 0>> /\ Path[n - 1] = StepBack(Path[n][1], Path[n][2])
  BY <1>1, WalkedFacts
<1>4. Path \in Ways
  BY <1>3, WaysFacts
<1>5. Len(Path) \in Nat \ {0}
  BY <1>4, WaysFacts
<1>6. WayCost(Path) = dtw_vector[Corner]
  BY <1>1, <1>2, <1>3, <1>5, WayCosts
<1>7. ASSUME NEW s \in Ways PROVE dtw_vector[Corner] <= WayCost(s)
  <2>1. Len(s) \in Nat \ {0} /\ s \in [1..Len(s) -> Cells] /\ IsWay(s)
    BY WaysFacts
  <2> QED  BY <1>1, <1>2, <2>1, WayCosts
<1> QED  BY <1>4, <1>6, <1>7 DEF PathCheapest, Corner

\* The path that the accumulated costs lead back is a way through the matrix, it costs
\* what was accumulated, and no way costs less: the dynamic programming of
\* compute_accumulated_cost_matrix and the greedy walk of path find the optimum.
THEOREM PathCorrect == Spec => []PathCheapest
BY PathInv, Invariance, PTL

LEMMA AlignedInv == IInv => WarpedAligned
<1> SUFFICES ASSUME IInv, step = "warped" PROVE WarpedAligned
  BY DEF WarpedAligned
<1> DEFINE N == Len(Path)
           s == [w \in 1..N |-> <<Path[w][2], Path[w][1]>>]
<1>1. /\ N \in 1..(2 * Window - 1) /\ Path \in [1..N -> Cells] /\ IsWay(Path)
      /\ warped["p"] = [w \in 1..N |-> rowP[Path[w][2]]]
      /\ warped["q"] = [w \in 1..N |-> rowQ[Path[w][1]]]
  BY WalkedFacts DEF IInv, Warping
<1>2. N \in Nat \ {0}
  BY <1>1, AnomalyAssumption
<1>3. s \in [1..N -> Cells]
  BY <1>1, CellFacts
<1>4. Len(s) = N
  BY <1>1, <1>3, WaysFacts
<1>5. ASSUME NEW n \in 2..N PROVE s[n - 1] \in Before(s[n])
  <2>1. n \in 1..N /\ n - 1 \in 1..N
    BY <1>2
  <2>2. PICK k \in In, l \in In : Path[n] = <<k, l>>
    BY <1>1, <2>1 DEF Cells
  <2>3. PICK g \in In, h \in In : Path[n - 1] = <<g, h>>
    <3>1. Path[n - 1] \in Cells
      BY <1>1, <2>1
    <3> QED  BY <3>1 DEF Cells
  <2>4. <<g, h>> \in {<<k - 1, l>>, <<k, l - 1>>, <<k - 1, l - 1>>}
    BY <1>1, <2>2, <2>3 DEF IsWay, Before
  <2>5. <<h, g>> \in {<<l - 1, k>>, <<l, k - 1>>, <<l - 1, k - 1>>} /\ <<h, g>> \in Cells
    BY <2>4 DEF Cells
  <2>6. s[n] = <<l, k>> /\ s[n - 1] = <<h, g>>
    BY <2>1, <2>2, <2>3
  <2> HIDE DEF s
  <2> QED  BY <2>5, <2>6 DEF Before
<1>6. IsWay(s)
  <2>1. s[1] = <<0, 0>> /\ s[N] = <<Window - 1, Window - 1>>
    BY <1>1, <1>2 DEF IsWay
  <2> HIDE DEF s
  <2> QED  BY <1>4, <1>5, <2>1 DEF IsWay
<1>7. s \in Ways
  <2> HIDE DEF s, N
  <2> QED  BY <1>1, <1>3, <1>6, WaysFacts
<1>8. /\ warped["p"] = [w \in DOMAIN s |-> rowP[s[w][1]]]
      /\ warped["q"] = [w \in DOMAIN s |-> rowQ[s[w][2]]]
  BY <1>1
<1> QED  BY <1>7, <1>8, Zenon DEF WarpedAligned

\* The warped rows pair the two windows along a way through the matrix: in order, from
\* their first values to their last, leaving nothing out.
THEOREM WarpCorrect == Spec => []WarpedAligned
BY AlignedInv, Invariance, PTL

-----------------------------------------------------------------------------
(* The scores *)

\* A step leaves the scores of past samples alone, and adds at most the one of sample i.
LEMMA ScoresStep ==
    ASSUME IInv, [Next]_vars, NEW k \in 0..(Points - Window - 1), k < i' - Window
    PROVE  /\ X' = X /\ p' = p
           /\ \/ k < i - Window /\ scores'[k] = scores[k]
              \/ /\ k = i - Window /\ Score
                 /\ scores'[k] = [sample |-> i, window |-> rowP, finite |-> finite]
<1>1. i \in Window..Points /\ scores \in [0..(Points - Window - 1) -> ScoreType]
  BY DEF IInv, TypeOK
<1>2. CASE Score
  <2>1. i < Points /\ itLvpi = i
    BY <1>1, <1>2, AnomalyAssumption DEF IInv, Counting, Score
  <2>2. X' = X /\ p' = p /\ i' = i + 1
    BY <1>2 DEF Score, args
  <2>3. i - Window \in 0..(Points - Window - 1)
    BY <1>1, <2>1, AnomalyAssumption
  <2>4. scores' = [scores EXCEPT ![i - Window] =
                     [sample |-> i, window |-> rowP, finite |-> finite]]
    BY <1>2, <2>1 DEF Score
  <2>5. CASE k = i - Window
    BY <1>1, <1>2, <2>2, <2>3, <2>4, <2>5
  <2>6. CASE k # i - Window
    <3>1. k < i - Window
      BY <1>1, <2>2, <2>6, AnomalyAssumption
    <3> QED  BY <1>1, <2>2, <2>4, <2>6, <3>1
  <2> QED  BY <2>5, <2>6
<1>3. CASE ~ Score
  <2>1. X' = X /\ p' = p /\ i' = i /\ scores' = scores
    BY <1>3 DEF Next, NextPoint, SkipSelf, Accumulate, PathStep, Warp, Correlate,
                CorrelateWindows, vars, args, warpVars
  <2> QED  BY <2>1
<1> QED  BY <1>2, <1>3

LEMMA PlaceStep == IInv /\ ScoredInPlace /\ [Next]_vars => ScoredInPlace'
<1> SUFFICES ASSUME IInv, ScoredInPlace, [Next]_vars,
                    NEW k \in 0..(Points - Window - 1), k < i' - Window
             PROVE  /\ scores'[k].sample = k + Window
                    /\ scores'[k].window = [j \in In |-> X'[p'][k + j + 1]]
  BY DEF ScoredInPlace
<1>1. X' = X /\ p' = p
  BY ScoresStep
<1>2. CASE k < i - Window /\ scores'[k] = scores[k]
  BY <1>1, <1>2 DEF ScoredInPlace
<1>3. CASE k = i - Window /\ Score
             /\ scores'[k] = [sample |-> i, window |-> rowP, finite |-> finite]
  <2>1. rowP = WindowAt(p)
    BY <1>3 DEF Score, IInv, Counting
  <2>2. i = k + Window
    BY <1>3, AnomalyAssumption DEF IInv, TypeOK
  <2> QED  BY <1>1, <1>3, <2>1, <2>2 DEF WindowAt
<1> QED  BY <1>2, <1>3, ScoresStep

\* The score of a sample is at the sample's place, of the window that ends with it, for
\* every series of up to 256 points, although its place and its window are counted in 8
\* bits.
THEOREM PlaceCorrect == Spec => []ScoredInPlace
<1>1. Init => ScoredInPlace
  BY AnomalyAssumption DEF Init, ScoredInPlace
<1> QED  BY <1>1, PlaceStep, Invariance, PTL DEF Spec

\* When all series have been seen, Judging says what FiniteUnlessConstant does.
LEMMA JudgedAll ==
    ASSUME TypeOK
    PROVE  Judged(Rows) <=>
              /\ Varies(Column)
              /\ Rows > 1 => \A r \in DOMAIN X : Varies(WindowAt(r))
<1>1. DOMAIN X = 0..(Rows - 1) /\ p \in 0..(Rows - 1) /\ Rows \in Nat \ {0}
  BY AnomalyAssumption DEF TypeOK
<1>2. CASE Rows > 1
  <2>1. PICK r \in 0..(Rows - 1) : r # p
    <3>1. 0 \in 0..(Rows - 1) /\ 1 \in 0..(Rows - 1)
      BY <1>1, <1>2
    <3> QED  BY <3>1
  <2> QED  BY <1>1, <1>2, <2>1 DEF Judged
<1>3. CASE ~ (Rows > 1)
  <2>1. 0..(Rows - 1) \ {p} = {}
    BY <1>1, <1>3
  <2> QED  BY <1>3, <2>1 DEF Judged
<1> QED  BY <1>2, <1>3

LEMMA FiniteStep == IInv /\ FiniteUnlessConstant /\ [Next]_vars => FiniteUnlessConstant'
<1> SUFFICES ASSUME IInv, FiniteUnlessConstant, [Next]_vars,
                    NEW k \in 0..(Points - Window - 1), k < i' - Window
             PROVE  scores'[k].finite <=>
                      /\ Varies([r \in DOMAIN X' |-> X'[r][k + Window]])
                      /\ Rows > 1 =>
                           \A r \in DOMAIN X' : Varies([j \in In |-> X'[r][k + j + 1]])
  BY DEF FiniteUnlessConstant, Varies
<1>1. X' = X
  BY ScoresStep
<1>2. CASE k < i - Window /\ scores'[k] = scores[k]
  BY <1>1, <1>2 DEF FiniteUnlessConstant
<1>3. CASE k = i - Window /\ Score
             /\ scores'[k] = [sample |-> i, window |-> rowP, finite |-> finite]
  <2>1. scores'[k].finite <=> Judged(Rows)
    BY <1>3 DEF IInv, Judging, Judged, Score
  <2>2. i = k + Window
    BY <1>3, AnomalyAssumption DEF IInv, TypeOK
  <2>3. Column = [r \in DOMAIN X |-> X[r][k + Window]]
    BY <2>2 DEF Column
  <2>4. \A r : WindowAt(r) = [j \in In |-> X[r][k + j + 1]]
    BY <1>3 DEF WindowAt
  <2>5. TypeOK
    BY DEF IInv
  <2> QED  BY <1>1, <2>1, <2>3, <2>4, <2>5, JudgedAll
<1> QED  BY <1>2, <1>3, ScoresStep

\* Warped or not, and whatever was scored before, a score is a number unless all series
\* agree on its sample or one of them is constant in its window.
THEOREM FiniteCorrect == Spec => []FiniteUnlessConstant
<1>1. Init => FiniteUnlessConstant
  BY AnomalyAssumption DEF Init, FiniteUnlessConstant
<1> QED  BY <1>1, FiniteStep, Invariance, PTL DEF Spec
=============================================================================
