-------------------------- MODULE AnomalyDetection --------------------------
(***************************************************************************)
(* AnomalyDetection.h: the two outlier scores of a time series among       *)
(* others, pearson_based_LISA and DTW_based_LISA, with the time warping of *)
(* the second.  What is an integer in the code is one here: windows, the   *)
(* indexes of 8 bits, distances (differences of readings, exact in double) *)
(* and the path.  Of the scores, which are not, only whether they are      *)
(* numbers.                                                                *)
(***************************************************************************)
EXTENDS Integers, Sequences, SequencesExt

CONSTANTS
    Rows,    \* X.size()
    Points,  \* X[0].size()
    Window,  \* window_size
    Sets,    \* the sets of time series that may be given as X
    Byte     \* the values of a uint8_t: 256

ASSUME AnomalyAssumption ==
    /\ Rows \in Nat \ {0} /\ Window \in Nat \ {0} /\ Points \in Nat /\ Byte \in Nat
    /\ Window < Points /\ Points <= Byte /\ 2 * Window <= Byte
    /\ Sets \subseteq [0..(Rows - 1) -> [0..(Points - 1) -> Nat]]

VARIABLES
    X, p, method,  \* the arguments, p counted from 0, and which function it is
    step,          \* where the function is
    i, start, itLvpi, q,            \* its counters
    rowP, rowQ,    \* index_subset_row_p and _q
    dtw_vector,    \* the accumulated costs, kept by the object
    my_path,       \* the path so far, from its end
    warped,        \* the two rows that are correlated: p, q
    finite,        \* are the sum and typ_dev such that the score is a number
    scores         \* what L_v_p_i holds: the sample and its window, and if it is a number

args == <<X, p, method>>
warpVars == <<rowQ, dtw_vector, my_path, warped>>
vars == <<args, step, i, start, itLvpi, q, rowP, warpVars, finite, scores>>

In == 0..(Window - 1)
Cells == In \X In
NoScore == [sample |-> 0, window |-> [j \in In |-> 0], finite |-> FALSE]

Increased(n) == (n + 1) % Byte

\* Seeded fault: the sample being scored is not in its window.
WindowIndexBefore(j) == ((Window + j) % Byte) + start - Window

\* itXp + start - window_size + 1 in int, of counters of 8 bits.
WindowIndex(j) == ((Window + j) % Byte) + start - Window + 1

WindowOf(row) == [j \in In |-> row[WindowIndex(j)]]

\* typical_deviation, or a divisor of compute_pearson_correlation, is not 0.
Varies(f) == \E j, k \in DOMAIN f : f[j] # f[k]

\* Seeded fault: sum is not reset.
FreshSumKept(column) == finite /\ Varies(column)

\* sum = 0.0, and z_p_i divides by the deviation of the column.
FreshSum(column) == Varies(column)

NextPoint ==
    /\ step = "point" /\ i < Points
    /\ rowP' = WindowOf(X[p])
    /\ finite' = FreshSum([j \in DOMAIN X |-> X[j][i]])
    /\ q' = 0 /\ step' = "others"
    /\ UNCHANGED <<args, i, start, itLvpi, warpVars, scores>>

SkipSelf ==
    /\ step = "others" /\ q = p
    /\ q' = q + 1
    /\ UNCHANGED <<args, step, i, start, itLvpi, rowP, warpVars, finite, scores>>

-----------------------------------------------------------------------------
(* Dynamic time warping: compute_accumulated_cost_matrix, then path *)

\* |x[j] - y[i]|: the 2-norm of a number.
Distance(a, b) == IF a < b THEN b - a ELSE a - b

Least(S) == CHOOSE n \in S : \A k \in S : n <= k

\* The cells before c: one up, one left, or both.
Before(c) == {<<c[1] - 1, c[2]>>, <<c[1], c[2] - 1>>, <<c[1] - 1, c[2] - 1>>} \cap Cells

\* cost[i][j] of x and y.
AccumulatedCost(x, y) ==
    LET cost[c \in Cells] ==
          Distance(x[c[2]], y[c[1]]) +
            IF c = <<0, 0>> THEN 0 ELSE Least({cost[b] : b \in Before(c)})
    IN  cost

Accumulate ==
    /\ step = "others" /\ q \in 0..(Rows - 1) \ {p} /\ method = "dtw"
    /\ rowQ' = WindowOf(X[q])
    /\ dtw_vector' = AccumulatedCost(rowQ', rowP)
    /\ my_path' = <<<<Window - 1, Window - 1>>>>
    /\ step' = "path"
    /\ UNCHANGED <<args, i, start, itLvpi, q, rowP, warped, finite, scores>>

\* Seeded fault: never a match.
StepBackNoMatch(k, l) ==
    IF k = 0 THEN <<k, l - 1>> ELSE IF l = 0 THEN <<k - 1, l>>
    ELSE IF dtw_vector[<<k - 1, l>>] <= dtw_vector[<<k, l - 1>>] THEN <<k - 1, l>> ELSE <<k, l - 1>>

\* Seeded fault: one case for both edges.
StepBackNoEdge(k, l) ==
    IF k = 0 \/ l = 0 THEN <<k - 1, l>>
    ELSE IF dtw_vector[<<k - 1, l>>] <= dtw_vector[<<k, l - 1>>] THEN <<k - 1, l>> ELSE <<k, l - 1>>

\* Along the first row or column, else to the cheapest cell: one up, one left or both,
\* in this order when they cost the same.
StepBack(k, l) ==
    IF k = 0 THEN <<k, l - 1>> ELSE IF l = 0 THEN <<k - 1, l>>
    ELSE LET up == dtw_vector[<<k - 1, l>>]
             left == dtw_vector[<<k, l - 1>>]
             match == dtw_vector[<<k - 1, l - 1>>]
         IN  IF up <= left /\ up <= match THEN <<k - 1, l>>
             ELSE IF left <= match THEN <<k, l - 1>> ELSE <<k - 1, l - 1>>

PathStep ==
    /\ step = "path" /\ Last(my_path) # <<0, 0>>
    /\ my_path' = Append(my_path, StepBack(Last(my_path)[1], Last(my_path)[2]))
    /\ UNCHANGED <<args, step, i, start, itLvpi, q, rowP, rowQ, dtw_vector, warped, finite, scores>>

\* Seeded fault: the path is not reversed.
PathBackwards == my_path

\* reverse(my_path).
Path == Reverse(my_path)

\* itXw - w + mypath[w][.] - 1, itXw being w + 1 in 8 bits.
WarpedIndex(w, c) == Increased(w) - w + c - 1

\* p is read at the second index of the path, q at the first.
Warp ==
    /\ step = "path" /\ Last(my_path) = <<0, 0>>
    /\ warped' = [row \in {"p", "q"} |-> [w \in DOMAIN Path |->
                    IF row = "p" THEN rowP[WarpedIndex(w - 1, Path[w][2])]
                                 ELSE rowQ[WarpedIndex(w - 1, Path[w][1])]]]
    /\ step' = "warped"
    /\ UNCHANGED <<args, i, start, itLvpi, q, rowP, rowQ, dtw_vector, my_path, finite, scores>>

\* w_p_q_i of the warped rows is a number if both vary.
Correlate ==
    /\ step = "warped"
    /\ finite' = (finite /\ Varies(warped["p"]) /\ Varies(warped["q"]))
    /\ q' = q + 1 /\ step' = "others"
    /\ UNCHANGED <<args, i, start, itLvpi, rowP, warpVars, scores>>

-----------------------------------------------------------------------------
(* The rest of both functions *)

\* pearson_based_LISA correlates the windows as they are.
CorrelateWindows ==
    /\ step = "others" /\ q \in 0..(Rows - 1) \ {p} /\ method = "pearson"
    /\ rowQ' = WindowOf(X[q])
    /\ finite' = (finite /\ Varies(rowP) /\ Varies(rowQ'))
    /\ q' = q + 1
    /\ UNCHANGED <<args, step, i, start, itLvpi, rowP, dtw_vector, my_path, warped, scores>>

Score ==
    /\ step = "others" /\ q = Rows
    /\ scores' = [scores EXCEPT ![itLvpi - Window] =
                    [sample |-> i, window |-> rowP, finite |-> finite]]
    /\ start' = Increased(start) /\ itLvpi' = Increased(itLvpi)
    /\ i' = i + 1 /\ step' = "point"
    /\ UNCHANGED <<args, q, rowP, warpVars, finite>>

Init ==
    /\ X \in Sets /\ p \in 0..(Rows - 1) /\ method \in {"pearson", "dtw"}
    /\ step = "point" /\ i = Window /\ start = 0 /\ itLvpi = Window % Byte /\ q = 0
    /\ rowP = [j \in In |-> 0] /\ rowQ = [j \in In |-> 0]
    /\ dtw_vector = [c \in Cells |-> 0] /\ my_path = <<>>
    /\ warped = [row \in {"p", "q"} |-> <<>>]
    /\ finite = TRUE /\ scores = [k \in 0..(Points - Window - 1) |-> NoScore]

Next ==
    \/ NextPoint \/ SkipSelf \/ Accumulate \/ PathStep \/ Warp \/ Correlate
    \/ CorrelateWindows \/ Score

Spec == Init /\ [][Next]_vars

-----------------------------------------------------------------------------
(* What must hold *)

ScoreType == [sample : Nat, window : [In -> Nat], finite : BOOLEAN]

TypeOK ==
    /\ X \in [0..(Rows - 1) -> [0..(Points - 1) -> Nat]]
    /\ p \in 0..(Rows - 1) /\ method \in {"pearson", "dtw"}
    /\ step \in {"point", "others", "path", "warped"}
    /\ i \in Window..Points /\ start \in 0..(Byte - 1) /\ itLvpi \in 0..(Byte - 1)
    /\ q \in 0..Rows
    /\ rowP \in [In -> Nat] /\ rowQ \in [In -> Nat]
    /\ dtw_vector \in [Cells -> Nat] /\ my_path \in Seq(Cells)
    /\ warped \in [{"p", "q"} -> Seq(Nat)]
    /\ finite \in BOOLEAN /\ scores \in [0..(Points - Window - 1) -> ScoreType]

\* Up to a series of 256 points the counters of 8 bits count as if they had no end: the
\* score of a sample is at its place, of the window that ends with the sample.
ScoredInPlace ==
    \A k \in 0..(Points - Window - 1) :
        k < i - Window =>
            /\ scores[k].sample = k + Window
            /\ scores[k].window = [j \in In |-> X[p][k + j + 1]]

\* The ways through the matrix, from its first cell to its last.
IsWay(s) ==
    /\ s[1] = <<0, 0>> /\ s[Len(s)] = <<Window - 1, Window - 1>>
    /\ \A n \in 2..Len(s) : s[n - 1] \in Before(s[n])
Ways == UNION {{s \in [1..n -> Cells] : IsWay(s)} : n \in 1..(2 * Window - 1)}

WayCost(s) ==
    LET sum[n \in 0..Len(s)] ==
          IF n = 0 THEN 0 ELSE sum[n - 1] + Distance(rowQ[s[n][2]], rowP[s[n][1]])
    IN  sum[Len(s)]

\* The path is a way through the matrix that costs what was accumulated, and no way
\* costs less.
PathCheapest ==
    step = "warped" =>
        /\ Path \in Ways
        /\ WayCost(Path) = dtw_vector[<<Window - 1, Window - 1>>]
        /\ \A s \in Ways : WayCost(s) >= dtw_vector[<<Window - 1, Window - 1>>]

\* The warped rows pair the windows along a way: from first to last, in order, nothing
\* left out. It is not the cheapest: the two indexes of the path are taken for each other.
WarpedAligned ==
    step = "warped" =>
        \E s \in Ways :
            /\ warped["p"] = [w \in DOMAIN s |-> rowP[s[w][1]]]
            /\ warped["q"] = [w \in DOMAIN s |-> rowQ[s[w][2]]]

\* Warped or not, a score is a number unless all series agree on its sample or one of
\* them does not change in the window: warping makes no window constant.
FiniteUnlessConstant ==
    \A k \in 0..(Points - Window - 1) :
        k < i - Window =>
            (scores[k].finite <=>
                /\ Varies([r \in DOMAIN X |-> X[r][k + Window]])
                /\ Rows > 1 => \A r \in DOMAIN X : Varies([j \in In |-> X[r][k + j + 1]]))
=============================================================================
