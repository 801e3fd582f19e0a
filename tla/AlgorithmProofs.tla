-------------------------- MODULE AlgorithmProofs --------------------------
(***************************************************************************)
(* The optimizer, the choice of the symbols and what is computed from the  *)
(* trades table, on inputs of any length, and with BacktestProofs what     *)
(* holds of every input that MCAlgorithms grows.                           *)
(*                                                                         *)
(* Each of the algorithms folds a sequence; the lemmas on folds are in     *)
(* BacktestProofs.                                                         *)
(***************************************************************************)
EXTENDS MCAlgorithms, BacktestProofs

-----------------------------------------------------------------------------
(* The optimizer                                                           *)

Results == [best_trial : Nat, best_sharpe : Int, valid_trials : SUBSET Nat]

(* Trials whose Sharpe ratio is a number above the one the search starts   *)
(* from, -999.                                                             *)
Trialled(trials) ==
    \A i \in DOMAIN trials :
        Measured(trials[i]) => trials[i].sharpe \in Int /\ trials[i].sharpe > NoSharpe

LEMMA RoundType == ASSUME NEW s \in Int PROVE RoundTo3(s) \in Int
  BY DEF RoundTo3

LEMMA TryType ==
  ASSUME NEW r \in Results, NEW t, Measured(t) => t.sharpe \in Int, NEW i \in Nat
  PROVE  Try(r, t, i) \in Results
  <1> DEFINE valid == [r EXCEPT !.valid_trials = @ \cup {i}]
  <1>1. valid \in Results
    BY DEF Results
  <1>2. CASE ~Measured(t) \/ (Measured(t) /\ ~PassesFilters(t))
    BY <1>2 DEF Try
  <1>3. CASE Measured(t) /\ PassesFilters(t)
    <2>1. RoundTo3(t.sharpe) \in Int
      BY <1>3, RoundType
    <2> HIDE DEF valid
    <2>2. [valid EXCEPT !.best_trial = i, !.best_sharpe = RoundTo3(t.sharpe)] \in Results
      BY <1>1, <2>1 DEF Results
    <2>3. Try(r, t, i) = IF t.sharpe > r.best_sharpe
                         THEN [valid EXCEPT !.best_trial = i,
                                            !.best_sharpe = RoundTo3(t.sharpe)]
                         ELSE valid
      BY <1>3 DEF Try, valid
    <2> QED
      BY <1>1, <2>2, <2>3
  <1> QED
    BY <1>2, <1>3

(* The value of the fold for a set of trials.                              *)
TrialsDone(trials, g) ==
    g = [U \in SUBSET (DOMAIN trials) |->
           IF U = {} THEN NothingFound
           ELSE Try(g[U \ {Max(U)}],
                    trials[[i \in DOMAIN trials |-> i][Max(U)]],
                    [i \in DOMAIN trials |-> i][Max(U)])]

LEMMA OptimizeUnfolds ==
  ASSUME NEW trials
  PROVE  Optimize(trials) = (CHOOSE g : TrialsDone(trials, g))[DOMAIN trials]
  BY DEF Optimize, FoldLeftDomain, FoldLeft, MapThenFoldSet, TrialsDone

(* The search, trial by trial.                                             *)
LEMMA OptimizeSteps ==
  ASSUME NEW n \in Nat, NEW trials, DOMAIN trials = 1 .. n, Trialled(trials)
  PROVE  \E h : /\ h[0] = NothingFound
                /\ \A i \in 1 .. n : h[i] = Try(h[i - 1], trials[i], i)
                /\ \A i \in 0 .. n : h[i] \in Results
                /\ Optimize(trials) = h[n]
  <1> DEFINE F == [p \in (1 .. n) \X Results |-> Try(p[2], trials[p[1]], p[1])]
             g == CHOOSE g : TrialsDone(trials, g)
             h == [i \in 0 .. n |-> g[1 .. i]]
  <1>1. NothingFound \in Results
    BY DEF NothingFound, Results, NoSharpe
  <1>2. F \in StepFunctions(n, Results)
    <2>1. ASSUME NEW p \in (1 .. n) \X Results
          PROVE  Try(p[2], trials[p[1]], p[1]) \in Results
      BY TryType DEF Trialled
    <2> QED
      BY <2>1 DEF StepFunctions
  <1>3. PICK e : Folded(n, Results, NothingFound, F, e)
    BY <1>1, <1>2, FoldExists
  <1>4. TrialsDone(trials, e)
    <2>1. ASSUME NEW U \in SUBSET (1 .. n), U # {}
          PROVE  e[U] = Try(e[U \ {Max(U)}],
                            trials[[i \in DOMAIN trials |-> i][Max(U)]],
                            [i \in DOMAIN trials |-> i][Max(U)])
      <3>1. Max(U) \in 1 .. n
        BY <2>1, MaxIsLargest
      <3>2. e[U \ {Max(U)}] \in Results
        BY <1>3 DEF Folded
      <3>3. e[U] = F[<<Max(U), e[U \ {Max(U)}]>>]
        BY <1>3, <2>1 DEF Folded, FoldStep
      <3>4. <<Max(U), e[U \ {Max(U)}]>> \in (1 .. n) \X Results
        BY <3>1, <3>2
      <3>5. e[U] = Try(e[U \ {Max(U)}], trials[Max(U)], Max(U))
        BY <3>3, <3>4
      <3>6. [i \in DOMAIN trials |-> i][Max(U)] = Max(U)
        BY <3>1
      <3> QED
        BY <3>5, <3>6
    <2>2. e[{}] = NothingFound
      BY <1>3 DEF Folded, FoldStep
    <2> QED
      BY <1>3, <2>1, <2>2 DEF Folded, TrialsDone
  <1>5. TrialsDone(trials, g)
    BY <1>4
  <1> HIDE DEF g
  <1>6. h[0] = NothingFound
    <2>1. h[0] = g[1 .. 0] /\ 1 .. 0 = {}
      OBVIOUS
    <2> QED
      BY <1>5, <2>1 DEF TrialsDone
  <1>7. ASSUME NEW i \in 1 .. n
        PROVE  h[i] = Try(h[i - 1], trials[i], i)
    <2>1. /\ 1 .. i \in SUBSET (1 .. n) /\ 1 .. i # {}
          /\ Max(1 .. i) = i
          /\ (1 .. i) \ {Max(1 .. i)} = 1 .. i - 1
      BY MaxOfPrefix
    <2>2. g[1 .. i] = Try(g[1 .. i - 1], trials[[j \in DOMAIN trials |-> j][i]],
                          [j \in DOMAIN trials |-> j][i])
      BY <1>5, <2>1 DEF TrialsDone
    <2>3. [j \in DOMAIN trials |-> j][i] = i
      OBVIOUS
    <2>4. h[i] = g[1 .. i] /\ h[i - 1] = g[1 .. i - 1]
      OBVIOUS
    <2> QED
      BY <2>2, <2>3, <2>4
  <1>8. Optimize(trials) = h[n]
    BY OptimizeUnfolds DEF g
  <1> HIDE DEF h
  <1>9. \A i \in 1 .. n : h[i - 1] \in Results => h[i] \in Results
    BY <1>7, TryType DEF Trialled
  <1>10. \A i \in 0 .. n : h[i] \in Results
    BY <1>1, <1>6, <1>9, AlongPrefixes
  <1> QED
    BY <1>6, <1>7, <1>8, <1>10

(* Rounding is monotone, and keeps what is rounded.                        *)
LEMMA Rounding ==
  ASSUME NEW a \in Int, NEW b \in Int
  PROVE  /\ a <= b => RoundTo3(a) <= RoundTo3(b)
         /\ a <= RoundTo3(b) => RoundTo3(a) <= RoundTo3(b)
         /\ RoundTo3(a) <= a + 5 /\ a - 4 <= RoundTo3(a)
  BY DEF RoundTo3

LEMMA RoundTwice ==
  ASSUME NEW a \in Int
  PROVE  RoundTo3(RoundTo3(a)) = RoundTo3(a)
  BY DEF RoundTo3

ValidUpTo(trials, i) ==
    {j \in 1 .. i : Measured(trials[j]) /\ PassesFilters(trials[j])}

(* What the search has found after i trials.                               *)
BestSoFar(trials, i, r) ==
    LET valid == ValidUpTo(trials, i)
    IN  IF valid = {} THEN r.best_trial = 0 /\ r.best_sharpe = NoSharpe
        ELSE /\ r.best_trial \in valid
             /\ r.best_sharpe = RoundTo3(trials[r.best_trial].sharpe)
             /\ \A j \in valid : RoundTo3(trials[j].sharpe) <= r.best_sharpe

LEMMA BestKept ==
  ASSUME NEW n \in Nat, NEW trials, DOMAIN trials = 1 .. n, Trialled(trials),
         NEW i \in 1 .. n, NEW r \in Results, BestSoFar(trials, i - 1, r)
  PROVE  BestSoFar(trials, i, Try(r, trials[i], i))
  <1> DEFINE t == trials[i]
             after == Try(r, t, i)
  <1>1. i - 1 \in Nat /\ 1 .. i = (1 .. i - 1) \cup {i} /\ i \notin 1 .. i - 1
    OBVIOUS
  <1>2. CASE ~(Measured(t) /\ PassesFilters(t))
    <2>1. after = r
      BY <1>2 DEF Try
    <2>2. ValidUpTo(trials, i) = ValidUpTo(trials, i - 1)
      BY <1>1, <1>2 DEF ValidUpTo
    <2> QED
      BY <2>1, <2>2 DEF BestSoFar
  <1>3. CASE Measured(t) /\ PassesFilters(t)
    <2>1. ValidUpTo(trials, i) = ValidUpTo(trials, i - 1) \cup {i}
      BY <1>1, <1>3 DEF ValidUpTo
    <2>2. t.sharpe \in Int /\ t.sharpe > NoSharpe
      BY <1>3 DEF Trialled
    <2>3. \A j \in ValidUpTo(trials, i) :
              trials[j].sharpe \in Int /\ RoundTo3(trials[j].sharpe) \in Int
      <3>1. \A j \in ValidUpTo(trials, i) : j \in DOMAIN trials /\ Measured(trials[j])
        BY DEF ValidUpTo
      <3>2. \A j \in ValidUpTo(trials, i) : trials[j].sharpe \in Int
        BY <3>1 DEF Trialled
      <3> QED
        BY <3>2, RoundType
    <2> DEFINE rounded == RoundTo3(t.sharpe)
    <2>4. rounded \in Int /\ i \in ValidUpTo(trials, i)
      BY <2>1, <2>3
    <2>5. r.best_sharpe \in Int
      BY DEF Results
    <2>6. CASE t.sharpe > r.best_sharpe
      <3>1. after.best_trial = i /\ after.best_sharpe = rounded
        BY <1>3, <2>6 DEF Try, Results
      <3>2. \A j \in ValidUpTo(trials, i - 1) : RoundTo3(trials[j].sharpe) <= rounded
        <4> SUFFICES ASSUME NEW j \in ValidUpTo(trials, i - 1)
                     PROVE  RoundTo3(trials[j].sharpe) <= rounded
          OBVIOUS
        <4>1. r.best_trial \in ValidUpTo(trials, i - 1)
              /\ r.best_sharpe = RoundTo3(trials[r.best_trial].sharpe)
              /\ RoundTo3(trials[j].sharpe) <= r.best_sharpe
          BY DEF BestSoFar
        <4>2. trials[j].sharpe \in Int /\ RoundTo3(trials[j].sharpe) \in Int
          BY <2>1, <2>3
        <4>3. RoundTo3(trials[j].sharpe) <= t.sharpe
          BY <2>2, <2>5, <2>6, <4>1, <4>2
        <4>4. RoundTo3(RoundTo3(trials[j].sharpe)) = RoundTo3(trials[j].sharpe)
          BY <4>2, RoundTwice
        <4>5. RoundTo3(RoundTo3(trials[j].sharpe)) <= RoundTo3(t.sharpe)
          BY <2>2, <4>2, <4>3, Rounding
        <4> QED
          BY <4>4, <4>5
      <3> HIDE DEF after, rounded, t
      <3>3. \A j \in ValidUpTo(trials, i) : RoundTo3(trials[j].sharpe) <= rounded
        BY <2>1, <2>4, <3>2 DEF rounded, t
      <3> QED
        BY <2>4, <3>1, <3>3 DEF BestSoFar, rounded, t, after
    <2>7. CASE ~(t.sharpe > r.best_sharpe)
      <3>1. after.best_trial = r.best_trial /\ after.best_sharpe = r.best_sharpe
        BY <1>3, <2>7 DEF Try, Results
      <3>2. ValidUpTo(trials, i - 1) # {}
        BY <2>2, <2>7 DEF BestSoFar
      <3>3. /\ r.best_trial \in ValidUpTo(trials, i - 1)
            /\ r.best_sharpe = RoundTo3(trials[r.best_trial].sharpe)
            /\ \A j \in ValidUpTo(trials, i - 1) :
                  RoundTo3(trials[j].sharpe) <= r.best_sharpe
        BY <3>2 DEF BestSoFar
      <3>4. rounded <= r.best_sharpe
        <4>1. trials[r.best_trial].sharpe \in Int
          BY <2>1, <2>3, <3>3
        <4>2. t.sharpe <= RoundTo3(trials[r.best_trial].sharpe)
          BY <2>2, <2>5, <2>7, <3>3
        <4> QED
          BY <2>2, <3>3, <4>1, <4>2, Rounding
      <3> HIDE DEF after, rounded, t
      <3>5. \A j \in ValidUpTo(trials, i) : RoundTo3(trials[j].sharpe) <= r.best_sharpe
        BY <2>1, <3>3, <3>4 DEF rounded, t
      <3> QED
        BY <2>1, <2>4, <3>1, <3>3, <3>5 DEF BestSoFar, after, t
    <2> QED
      BY <2>6, <2>7
  <1> QED
    BY <1>2, <1>3

(* For any number of trials in any order: the trial the search returns is  *)
(* valid, what it reports of it is its rounded Sharpe ratio, and no valid  *)
(* trial is better by a whole step of the rounding.                        *)
THEOREM SearchFindsTheBest ==
  ASSUME NEW n \in Nat, NEW trials, DOMAIN trials = 1 .. n, Trialled(trials)
  PROVE  ChosenTrial(trials)
  <1>1. PICK h : /\ h[0] = NothingFound
                 /\ \A i \in 1 .. n : h[i] = Try(h[i - 1], trials[i], i)
                 /\ \A i \in 0 .. n : h[i] \in Results
                 /\ Optimize(trials) = h[n]
    BY OptimizeSteps
  <1>2. BestSoFar(trials, n, h[n])
    <2> DEFINE bad == {i \in 0 .. n : ~BestSoFar(trials, i, h[i])}
    <2>1. ASSUME bad # {} PROVE FALSE
      <3>1. bad \in SUBSET Nat
        OBVIOUS
      <3>2. PICK i \in bad : \A j \in bad : i <= j
        BY <2>1, <3>1, LeastNumber
      <3>3. CASE i = 0
        BY <1>1, <3>2, <3>3 DEF BestSoFar, ValidUpTo, NothingFound
      <3>4. CASE i # 0
        <4>1. i \in 1 .. n /\ i - 1 \in 0 .. n /\ i - 1 \notin bad
          BY <3>2, <3>4
        <4>2. BestSoFar(trials, i - 1, h[i - 1]) /\ h[i - 1] \in Results
          BY <1>1, <4>1
        <4>3. BestSoFar(trials, i, h[i])
          BY <1>1, <4>1, <4>2, BestKept
        <4> QED
          BY <3>2, <4>3
      <3> QED
        BY <3>3, <3>4
    <2> QED
      BY <2>1
  <1> DEFINE r == Optimize(trials)
             valid == ValidUpTo(trials, n)
  <1>3. valid = {i \in DOMAIN trials : Measured(trials[i]) /\ PassesFilters(trials[i])}
    BY DEF ValidUpTo
  <1>4. BestSoFar(trials, n, r)
    BY <1>1, <1>2
  <1>5. \A i \in valid : trials[i].sharpe \in Int
    BY DEF ValidUpTo, Trialled
  <1>6. ASSUME valid # {}, NEW i \in valid
        PROVE  trials[i].sharpe - trials[r.best_trial].sharpe < 10
    <2>1. /\ r.best_trial \in valid
          /\ RoundTo3(trials[i].sharpe) <= RoundTo3(trials[r.best_trial].sharpe)
      BY <1>4, <1>6 DEF BestSoFar
    <2> DEFINE a == trials[i].sharpe
               b == trials[r.best_trial].sharpe
    <2>2. a \in Int /\ b \in Int
      BY <1>5, <2>1
    <2>3. RoundTo3(a) \in Int /\ RoundTo3(b) \in Int
      BY <2>2, RoundType
    <2>4. a - 4 <= RoundTo3(a) /\ RoundTo3(b) <= b + 5
      BY <2>2, Rounding
    <2>5. RoundTo3(a) <= RoundTo3(b)
      BY <2>1
    <2> HIDE DEF a, b
    <2>6. a - b < 10
      BY <2>2, <2>3, <2>4, <2>5
    <2> QED
      BY <2>6 DEF a, b
  <1> HIDE DEF r
  <1>7. CASE valid = {}
    BY <1>3, <1>4, <1>7 DEF ChosenTrial, BestSoFar, r
  <1>8. CASE valid # {}
    BY <1>3, <1>4, <1>6, <1>8 DEF ChosenTrial, BestSoFar, r
  <1> QED
    BY <1>7, <1>8

-----------------------------------------------------------------------------
(* The choice of the symbols                                               *)

Distinct(s) == \A i, j \in DOMAIN s : i # j => s[i] # s[j]

Keep(selected, s, pairs) ==
    IF CorrelatedWithAny(s, selected, pairs) THEN selected ELSE Append(selected, s)

Selected(symbols, pairs) ==
    FoldLeft(LAMBDA selected, s :
               IF CorrelatedWithAny(s, selected, pairs)
               THEN selected ELSE Append(selected, s),
             <<>>, symbols)

SelectedDone(symbols, pairs, g) ==
    g = [U \in SUBSET (DOMAIN symbols) |->
           IF U = {} THEN <<>>
           ELSE IF CorrelatedWithAny(symbols[Max(U)], g[U \ {Max(U)}], pairs)
                THEN g[U \ {Max(U)}] ELSE Append(g[U \ {Max(U)}], symbols[Max(U)])]

LEMMA SelectedUnfolds ==
  ASSUME NEW symbols, NEW pairs
  PROVE  Selected(symbols, pairs)
           = (CHOOSE g : SelectedDone(symbols, pairs, g))[DOMAIN symbols]
  BY DEF Selected, FoldLeft, MapThenFoldSet, SelectedDone

SelectionSteps(S, symbols, pairs, n, h) ==
    /\ h[0] = <<>>
    /\ \A i \in 1 .. n : h[i] = Keep(h[i - 1], symbols[i], pairs)
    /\ \A i \in 0 .. n : h[i] \in Seq(S)
    /\ Selected(symbols, pairs) = h[n]

LEMMA SelectedSteps ==
  ASSUME NEW S, NEW n \in Nat, NEW symbols \in Seq(S), Len(symbols) = n, NEW pairs
  PROVE  \E h : SelectionSteps(S, symbols, pairs, n, h)
  <1> DEFINE F == [p \in (1 .. n) \X Seq(S) |-> Keep(p[2], symbols[p[1]], pairs)]
             g == CHOOSE g : SelectedDone(symbols, pairs, g)
             h == [i \in 0 .. n |-> g[1 .. i]]
  <1>0. DOMAIN symbols = 1 .. n /\ \A i \in 1 .. n : symbols[i] \in S
    OBVIOUS
  <1>1. ASSUME NEW r \in Seq(S), NEW i \in 1 .. n
        PROVE  Keep(r, symbols[i], pairs) \in Seq(S)
    BY <1>0 DEF Keep
  <1>2. F \in StepFunctions(n, Seq(S))
    BY <1>1 DEF StepFunctions
  <1>3. PICK e : Folded(n, Seq(S), <<>>, F, e)
    <2>1. <<>> \in Seq(S)
      OBVIOUS
    <2> QED
      BY <1>2, <2>1, FoldExists
  <1>4. SelectedDone(symbols, pairs, e)
    <2>1. ASSUME NEW U \in SUBSET (1 .. n), U # {}
          PROVE  e[U] = Keep(e[U \ {Max(U)}], symbols[Max(U)], pairs)
      <3>1. Max(U) \in 1 .. n
        BY <2>1, MaxIsLargest
      <3>2. e[U \ {Max(U)}] \in Seq(S)
        BY <1>3 DEF Folded
      <3>3. e[U] = F[<<Max(U), e[U \ {Max(U)}]>>]
        BY <1>3, <2>1 DEF Folded, FoldStep
      <3>4. <<Max(U), e[U \ {Max(U)}]>> \in (1 .. n) \X Seq(S)
        BY <3>1, <3>2
      <3> QED
        BY <3>3, <3>4
    <2>2. e[{}] = <<>>
      BY <1>3 DEF Folded, FoldStep
    <2>3. e \in [SUBSET (1 .. n) -> Seq(S)]
      BY <1>3 DEF Folded
    <2> QED
      BY <1>0, <2>1, <2>2, <2>3 DEF SelectedDone, Keep
  <1>5. SelectedDone(symbols, pairs, g)
    BY <1>4
  <1>6. Selected(symbols, pairs) = g[1 .. n]
    BY <1>0, SelectedUnfolds
  <1> HIDE DEF g
  <1>7. h[0] = <<>>
    <2>1. h[0] = g[1 .. 0] /\ 1 .. 0 = {}
      OBVIOUS
    <2> QED
      BY <1>5, <2>1 DEF SelectedDone
  <1>8. ASSUME NEW i \in 1 .. n
        PROVE  h[i] = Keep(h[i - 1], symbols[i], pairs)
    <2>0. i \in Nat \ {0} /\ 1 .. i \in SUBSET (1 .. n) /\ 1 .. i # {}
      OBVIOUS
    <2>1. Max(1 .. i) = i /\ (1 .. i) \ {Max(1 .. i)} = 1 .. i - 1
      BY <2>0, MaxOfPrefix
    <2>2. g[1 .. i] = Keep(g[1 .. i - 1], symbols[i], pairs)
      BY <1>0, <1>5, <2>0, <2>1 DEF SelectedDone, Keep
    <2>3. h[i] = g[1 .. i] /\ h[i - 1] = g[1 .. i - 1]
      OBVIOUS
    <2> QED
      BY <2>2, <2>3
  <1>9. Selected(symbols, pairs) = h[n]
    BY <1>6
  <1> HIDE DEF h
  <1>10. \A i \in 1 .. n : h[i - 1] \in Seq(S) => h[i] \in Seq(S)
    BY <1>1, <1>8
  <1>11. \A i \in 0 .. n : h[i] \in Seq(S)
    <2>1. h[0] \in Seq(S)
      BY <1>7
    <2> QED
      BY <1>10, <2>1, AlongPrefixes
  <1> QED
    BY <1>7, <1>8, <1>9, <1>11 DEF SelectionSteps

(* What the filter has after i symbols: no two that move together, each of *)
(* the symbols once, and for every one it left out an earlier one that it  *)
(* moves with.                                                             *)
SelectedSoFar(symbols, pairs, i, r) ==
    /\ \A a, b \in DOMAIN r : {r[a], r[b]} \notin pairs
    /\ Distinct(r)
    /\ \A a \in DOMAIN r : \E k \in 1 .. i : r[a] = symbols[k]
    /\ \A k \in 1 .. i : \E a \in DOMAIN r, j \in 1 .. k :
          r[a] = symbols[j] /\ (j = k \/ {symbols[j], symbols[k]} \in pairs)

LEMMA SelectedKept ==
  ASSUME NEW S, NEW symbols \in Seq(S), Distinct(symbols), NEW pairs,
         \A s \in S : {s} \notin pairs,
         NEW i \in 1 .. Len(symbols), NEW r \in Seq(S),
         SelectedSoFar(symbols, pairs, i - 1, r)
  PROVE  SelectedSoFar(symbols, pairs, i, Keep(r, symbols[i], pairs))
  <1> DEFINE s == symbols[i]
             after == Keep(r, s, pairs)
  <1>0. /\ \A a, b \in DOMAIN r : {r[a], r[b]} \notin pairs
        /\ Distinct(r)
        /\ \A a \in DOMAIN r : \E k \in 1 .. i - 1 : r[a] = symbols[k]
        /\ \A k \in 1 .. i - 1 : \E a \in DOMAIN r, j \in 1 .. k :
              r[a] = symbols[j] /\ (j = k \/ {symbols[j], symbols[k]} \in pairs)
    BY DEF SelectedSoFar
  <1>1. s \in S /\ 1 .. i = (1 .. i - 1) \cup {i} /\ i \notin 1 .. i - 1
    OBVIOUS
  <1>2. CASE CorrelatedWithAny(s, r, pairs)
    <2>1. after = r
      BY <1>2 DEF Keep
    <2>2. PICK a \in DOMAIN r : {s, r[a]} \in pairs
      BY <1>2 DEF CorrelatedWithAny
    <2>3. {r[a], s} \in pairs
      <3>1. {s, r[a]} = {r[a], s}
        OBVIOUS
      <3> QED
        BY <2>2, <3>1
    <2>4. PICK j \in 1 .. i - 1 : r[a] = symbols[j]
      BY <1>0
    <2>5. j \in 1 .. i
      BY <1>1
    <2>6. \E b \in DOMAIN r, k \in 1 .. i :
             r[b] = symbols[k] /\ (k = i \/ {symbols[k], s} \in pairs)
      BY <2>3, <2>4, <2>5
    <2>7. \A b \in DOMAIN r : \E k \in 1 .. i : r[b] = symbols[k]
      BY <1>0, <1>1
    <2>8. \A k \in 1 .. i : \E b \in DOMAIN r, l \in 1 .. k :
             r[b] = symbols[l] /\ (l = k \/ {symbols[l], symbols[k]} \in pairs)
      BY <1>0, <1>1, <2>6
    <2> HIDE DEF s, after
    <2>9. SelectedSoFar(symbols, pairs, i, r)
      BY <1>0, <2>7, <2>8 DEF SelectedSoFar
    <2> QED
      BY <2>1, <2>9 DEF s, after
  <1>3. CASE ~CorrelatedWithAny(s, r, pairs)
    <2>1. after = Append(r, s)
      BY <1>3 DEF Keep
    <2> DEFINE n == Len(r)
    <2>2. /\ n \in Nat /\ DOMAIN r = 1 .. n /\ DOMAIN after = 1 .. n + 1
          /\ after[n + 1] = s /\ \A a \in 1 .. n : after[a] = r[a] /\ r[a] \in S
      BY <1>1, <2>1
    <2> HIDE DEF n, after, s
    <2>3. 1 .. n + 1 = (1 .. n) \cup {n + 1} /\ n + 1 \notin 1 .. n
      BY <2>2
    <2>4. \A a \in 1 .. n : r[a] # s
      <3> SUFFICES ASSUME NEW a \in 1 .. n PROVE r[a] # s
        OBVIOUS
      <3>1. PICK k \in 1 .. i - 1 : r[a] = symbols[k]
        BY <2>2 DEF SelectedSoFar
      <3>2. k \in DOMAIN symbols /\ i \in DOMAIN symbols /\ k # i
        OBVIOUS
      <3> QED
        BY <3>1, <3>2 DEF Distinct, s
    <2>5. \A a \in 1 .. n : {r[a], s} \notin pairs /\ {s, r[a]} \notin pairs
      <3> SUFFICES ASSUME NEW a \in 1 .. n
                   PROVE  {r[a], s} \notin pairs /\ {s, r[a]} \notin pairs
        OBVIOUS
      <3>1. {s, r[a]} = {r[a], s}
        OBVIOUS
      <3> QED
        BY <1>3, <2>2, <3>1 DEF CorrelatedWithAny
    <2>6. {s, s} \notin pairs
      <3>1. {s, s} = {s}
        OBVIOUS
      <3> QED
        BY <1>1, <3>1
    <2>7. \A a, b \in DOMAIN after : {after[a], after[b]} \notin pairs
      <3>1. \A a, b \in 1 .. n : {after[a], after[b]} \notin pairs
        BY <1>0, <2>2
      <3>2. \A a \in 1 .. n : {after[a], after[n + 1]} \notin pairs
                             /\ {after[n + 1], after[a]} \notin pairs
        BY <2>2, <2>5
      <3>3. {after[n + 1], after[n + 1]} \notin pairs
        BY <2>2, <2>6
      <3> SUFFICES ASSUME NEW a \in 1 .. n + 1, NEW b \in 1 .. n + 1
                   PROVE  {after[a], after[b]} \notin pairs
        BY <2>2
      <3>4. (a \in 1 .. n \/ a = n + 1) /\ (b \in 1 .. n \/ b = n + 1)
        BY <2>3
      <3> QED
        BY <3>1, <3>2, <3>3, <3>4
    <2>8. Distinct(after)
      <3>1. \A a, b \in 1 .. n : a # b => r[a] # r[b]
        BY <1>0, <2>2 DEF Distinct
      <3>2. \A a, b \in 1 .. n + 1 : a # b => after[a] # after[b]
        BY <2>2, <2>3, <2>4, <3>1
      <3> QED
        BY <2>2, <3>2 DEF Distinct
    <2>9. \A a \in DOMAIN after : \E k \in 1 .. i : after[a] = symbols[k]
      <3>1. \A a \in 1 .. n : \E k \in 1 .. i : r[a] = symbols[k]
        BY <1>0, <1>1, <2>2
      <3> QED
        BY <1>1, <2>2, <2>3, <3>1 DEF s
    <2>10. \A k \in 1 .. i : \E a \in DOMAIN after, j \in 1 .. k :
              after[a] = symbols[j] /\ (j = k \/ {symbols[j], symbols[k]} \in pairs)
      <3>1. ASSUME NEW k \in 1 .. i - 1
            PROVE  \E a \in DOMAIN after, j \in 1 .. k :
                     after[a] = symbols[j]
                     /\ (j = k \/ {symbols[j], symbols[k]} \in pairs)
        <4>1. PICK a \in DOMAIN r, j \in 1 .. k :
                 r[a] = symbols[j] /\ (j = k \/ {symbols[j], symbols[k]} \in pairs)
          BY <1>0
        <4>2. a \in DOMAIN after /\ after[a] = r[a]
          BY <2>2, <2>3
        <4> QED
          BY <4>1, <4>2
      <3>2. n + 1 \in DOMAIN after /\ after[n + 1] = symbols[i] /\ i \in 1 .. i
        BY <2>2, <2>3 DEF s
      <3> QED
        BY <1>1, <3>1, <3>2
    <2> QED
      BY <2>7, <2>8, <2>9, <2>10 DEF SelectedSoFar, after, s
  <1> QED
    BY <1>2, <1>3

LEMMA SelectedIsSound ==
  ASSUME NEW S, NEW symbols \in Seq(S), Distinct(symbols), NEW pairs,
         \A s \in S : {s} \notin pairs
  PROVE  /\ Selected(symbols, pairs) \in Seq(S)
         /\ SelectedSoFar(symbols, pairs, Len(symbols), Selected(symbols, pairs))
  <1>1. PICK n \in Nat : n = Len(symbols)
    OBVIOUS
  <1>0. PICK h : SelectionSteps(S, symbols, pairs, n, h)
    BY <1>1, SelectedSteps
  <1>2. /\ h[0] = <<>>
        /\ \A i \in 1 .. n : h[i] = Keep(h[i - 1], symbols[i], pairs)
        /\ \A i \in 0 .. n : h[i] \in Seq(S)
        /\ Selected(symbols, pairs) = h[n]
    BY <1>0 DEF SelectionSteps
  <1> DEFINE bad == {i \in 0 .. n : ~SelectedSoFar(symbols, pairs, i, h[i])}
  <1>3. ASSUME bad # {} PROVE FALSE
    <2>1. PICK i \in bad : \A j \in bad : i <= j
      <3>1. bad \in SUBSET Nat
        OBVIOUS
      <3> HIDE DEF bad
      <3> QED
        BY <1>3, <3>1, LeastNumber
    <2>2. CASE i = 0
      <3>1. DOMAIN <<>> = {} /\ 1 .. 0 = {}
        OBVIOUS
      <3>2. SelectedSoFar(symbols, pairs, 0, <<>>)
        BY <3>1 DEF SelectedSoFar, Distinct
      <3> QED
        BY <1>2, <2>1, <2>2, <3>2
    <2>3. CASE i # 0
      <3>1. i \in 1 .. n /\ i - 1 \in 0 .. n /\ i - 1 \notin bad
        BY <2>1, <2>3
      <3>2. SelectedSoFar(symbols, pairs, i - 1, h[i - 1]) /\ h[i - 1] \in Seq(S)
        BY <1>2, <3>1
      <3>3. SelectedSoFar(symbols, pairs, i, Keep(h[i - 1], symbols[i], pairs))
        BY <1>1, <3>1, <3>2, SelectedKept
      <3> QED
        BY <1>2, <2>1, <3>1, <3>3
    <2> QED
      BY <2>2, <2>3
  <1>4. n \in 0 .. n
    OBVIOUS
  <1>5. SelectedSoFar(symbols, pairs, n, h[n])
    BY <1>3, <1>4
  <1> QED
    BY <1>1, <1>2, <1>4, <1>5

LEMMA FirstOnes ==
  ASSUME NEW S, NEW s \in Seq(S), NEW n \in Nat
  PROVE  LET r == AtMostFirst(s, n)
         IN  /\ r \in Seq(S)
             /\ r = s \/ Len(r) = n
             /\ DOMAIN r \subseteq DOMAIN s
             /\ \A i \in DOMAIN r : r[i] = s[i]
  <1> DEFINE r == AtMostFirst(s, n)
  <1>1. CASE Len(s) <= n
    <2>1. Min({Len(s), n}) = Len(s)
      BY <1>1, MinOfTwo
    <2>2. SubSeq(s, 1, Len(s)) = s
      OBVIOUS
    <2>3. r = s
      BY <2>1, <2>2 DEF AtMostFirst
    <2> QED
      BY <2>3
  <1>2. CASE ~(Len(s) <= n)
    <2>1. n <= Len(s) /\ n \in Int /\ Len(s) \in Int
      BY <1>2
    <2>2. Min({n, Len(s)}) = n
      BY <2>1, MinOfTwo
    <2>3. {n, Len(s)} = {Len(s), n}
      OBVIOUS
    <2>4. r = SubSeq(s, 1, n)
      BY <2>2, <2>3 DEF AtMostFirst
    <2>5. 1 \in Int /\ \A i \in 1 .. n : s[i] \in S
      BY <2>1
    <2>6. /\ SubSeq(s, 1, n) \in Seq(S)
          /\ Len(SubSeq(s, 1, n)) = IF 1 <= n THEN n - 1 + 1 ELSE 0
          /\ \A i \in 1 .. n - 1 + 1 : SubSeq(s, 1, n)[i] = s[1 + i - 1]
      BY <2>1, <2>5, SubSeqProperties
    <2>7. Len(r) = n /\ r \in Seq(S)
      BY <2>4, <2>6
    <2>8. \A i \in 1 .. n : r[i] = s[i]
      BY <2>4, <2>6
    <2> HIDE DEF r
    <2>9. DOMAIN r = 1 .. n /\ 1 .. n \subseteq DOMAIN s
      BY <2>1, <2>7
    <2> QED
      BY <2>7, <2>8, <2>9 DEF r
  <1> QED
    BY <1>1, <1>2

(* Then what is held and not chosen.                                       *)
Add(list, s) == IF Contains(list, s) THEN list ELSE Append(list, s)

Listed(symbols, holdings) ==
    FoldLeft(LAMBDA list, s : IF Contains(list, s) THEN list ELSE Append(list, s),
             symbols, holdings)

ListedDone(symbols, holdings, g) ==
    g = [U \in SUBSET (DOMAIN holdings) |->
           IF U = {} THEN symbols
           ELSE IF Contains(g[U \ {Max(U)}], holdings[Max(U)])
                THEN g[U \ {Max(U)}] ELSE Append(g[U \ {Max(U)}], holdings[Max(U)])]

LEMMA ListedUnfolds ==
  ASSUME NEW symbols, NEW holdings
  PROVE  Listed(symbols, holdings)
           = (CHOOSE g : ListedDone(symbols, holdings, g))[DOMAIN holdings]
  BY DEF Listed, FoldLeft, MapThenFoldSet, ListedDone

ListSteps(S, symbols, holdings, n, h) ==
    /\ h[0] = symbols
    /\ \A i \in 1 .. n : h[i] = Add(h[i - 1], holdings[i])
    /\ \A i \in 0 .. n : h[i] \in Seq(S)
    /\ Listed(symbols, holdings) = h[n]

LEMMA ListedSteps ==
  ASSUME NEW S, NEW symbols \in Seq(S), NEW n \in Nat, NEW holdings \in Seq(S),
         Len(holdings) = n
  PROVE  \E h : ListSteps(S, symbols, holdings, n, h)
  <1> DEFINE F == [p \in (1 .. n) \X Seq(S) |-> Add(p[2], holdings[p[1]])]
             g == CHOOSE g : ListedDone(symbols, holdings, g)
             h == [i \in 0 .. n |-> g[1 .. i]]
  <1>0. DOMAIN holdings = 1 .. n /\ \A i \in 1 .. n : holdings[i] \in S
    OBVIOUS
  <1>1. ASSUME NEW r \in Seq(S), NEW i \in 1 .. n
        PROVE  Add(r, holdings[i]) \in Seq(S)
    BY <1>0 DEF Add
  <1>2. F \in StepFunctions(n, Seq(S))
    BY <1>1 DEF StepFunctions
  <1>3. PICK e : Folded(n, Seq(S), symbols, F, e)
    BY <1>2, FoldExists
  <1>4. ListedDone(symbols, holdings, e)
    <2>1. ASSUME NEW U \in SUBSET (1 .. n), U # {}
          PROVE  e[U] = Add(e[U \ {Max(U)}], holdings[Max(U)])
      <3>1. Max(U) \in 1 .. n
        BY <2>1, MaxIsLargest
      <3>2. e[U \ {Max(U)}] \in Seq(S)
        BY <1>3 DEF Folded
      <3>3. e[U] = F[<<Max(U), e[U \ {Max(U)}]>>]
        BY <1>3, <2>1 DEF Folded, FoldStep
      <3>4. <<Max(U), e[U \ {Max(U)}]>> \in (1 .. n) \X Seq(S)
        BY <3>1, <3>2
      <3> QED
        BY <3>3, <3>4
    <2>2. e[{}] = symbols
      BY <1>3 DEF Folded, FoldStep
    <2>3. e \in [SUBSET (1 .. n) -> Seq(S)]
      BY <1>3 DEF Folded
    <2> QED
      BY <1>0, <2>1, <2>2, <2>3 DEF ListedDone, Add
  <1>5. ListedDone(symbols, holdings, g)
    BY <1>4
  <1>6. Listed(symbols, holdings) = g[1 .. n]
    BY <1>0, ListedUnfolds
  <1> HIDE DEF g
  <1>7. h[0] = symbols
    <2>1. h[0] = g[1 .. 0] /\ 1 .. 0 = {}
      OBVIOUS
    <2> QED
      BY <1>5, <2>1 DEF ListedDone
  <1>8. ASSUME NEW i \in 1 .. n
        PROVE  h[i] = Add(h[i - 1], holdings[i])
    <2>0. i \in Nat \ {0} /\ 1 .. i \in SUBSET (1 .. n) /\ 1 .. i # {}
      <3>1. i \in Nat \ {0} /\ i <= n
        OBVIOUS
      <3>2. \A j \in 1 .. i : j \in 1 .. n
        BY <3>1
      <3>3. i \in 1 .. i
        BY <3>1
      <3> QED
        BY <3>1, <3>2, <3>3
    <2>1. Max(1 .. i) = i /\ (1 .. i) \ {Max(1 .. i)} = 1 .. i - 1
      BY <2>0, MaxOfPrefix
    <2>2. g[1 .. i] = Add(g[1 .. i - 1], holdings[i])
      BY <1>0, <1>5, <2>0, <2>1 DEF ListedDone, Add
    <2>3. h[i] = g[1 .. i] /\ h[i - 1] = g[1 .. i - 1]
      OBVIOUS
    <2> QED
      BY <2>2, <2>3
  <1>9. Listed(symbols, holdings) = h[n]
    BY <1>6
  <1> HIDE DEF h
  <1>10. \A i \in 1 .. n : h[i - 1] \in Seq(S) => h[i] \in Seq(S)
    BY <1>1, <1>8
  <1>11. \A i \in 0 .. n : h[i] \in Seq(S)
    <2>1. h[0] \in Seq(S)
      BY <1>7
    <2> QED
      BY <1>10, <2>1, AlongPrefixes
  <1> QED
    BY <1>7, <1>8, <1>9, <1>11 DEF ListSteps

ListedSoFar(holdings, i, r) ==
    Distinct(r) /\ \A k \in 1 .. i : Contains(r, holdings[k])

LEMMA ListedKept ==
  ASSUME NEW S, NEW holdings \in Seq(S), NEW i \in 1 .. Len(holdings), NEW r \in Seq(S),
         ListedSoFar(holdings, i - 1, r)
  PROVE  ListedSoFar(holdings, i, Add(r, holdings[i]))
  <1> DEFINE s == holdings[i]
             after == Add(r, s)
  <1>1. s \in S /\ 1 .. i = (1 .. i - 1) \cup {i}
    OBVIOUS
  <1>2. CASE Contains(r, s)
    BY <1>1, <1>2 DEF Add, ListedSoFar
  <1>3. CASE ~Contains(r, s)
    <2>1. after = Append(r, s)
      BY <1>3 DEF Add
    <2> DEFINE n == Len(r)
    <2>2. /\ n \in Nat /\ DOMAIN r = 1 .. n /\ DOMAIN after = 1 .. n + 1 /\ Len(after) = n + 1
          /\ after[n + 1] = s /\ \A a \in 1 .. n : after[a] = r[a]
      BY <1>1, <2>1
    <2>3. \A a \in 1 .. n : r[a] # s
      BY <1>3 DEF Contains
    <2>4. \A k \in 1 .. i - 1 : \E a \in 1 .. n : r[a] = holdings[k]
      BY DEF ListedSoFar, Contains
    <2> HIDE DEF n, after
    <2>5. 1 .. n + 1 = (1 .. n) \cup {n + 1} /\ n + 1 \notin 1 .. n
      BY <2>2
    <2>6. Distinct(after)
      <3>1. \A a, b \in 1 .. n : a # b => r[a] # r[b]
        BY <2>2 DEF ListedSoFar, Distinct
      <3> HIDE DEF s
      <3> QED
        BY <2>2, <2>3, <2>5, <3>1 DEF Distinct
    <2>7. \A k \in 1 .. i - 1 : Contains(after, holdings[k])
      BY <2>2, <2>4, <2>5 DEF Contains
    <2>8. Contains(after, s)
      BY <2>2, <2>5 DEF Contains
    <2> QED
      BY <1>1, <2>6, <2>7, <2>8 DEF ListedSoFar, after
  <1> QED
    BY <1>2, <1>3

LEMMA ListedIsSound ==
  ASSUME NEW S, NEW symbols \in Seq(S), Distinct(symbols), NEW holdings \in Seq(S)
  PROVE  ListedSoFar(holdings, Len(holdings), Listed(symbols, holdings))
  <1>1. PICK n \in Nat : n = Len(holdings)
    OBVIOUS
  <1>2. PICK h : ListSteps(S, symbols, holdings, n, h)
    BY <1>1, ListedSteps
  <1>3. /\ h[0] = symbols
        /\ \A i \in 1 .. n : h[i] = Add(h[i - 1], holdings[i])
        /\ \A i \in 0 .. n : h[i] \in Seq(S)
        /\ Listed(symbols, holdings) = h[n]
    BY <1>2 DEF ListSteps
  <1> DEFINE bad == {i \in 0 .. n : ~ListedSoFar(holdings, i, h[i])}
  <1>4. ASSUME bad # {} PROVE FALSE
    <2>1. PICK i \in bad : \A j \in bad : i <= j
      <3>1. bad \in SUBSET Nat
        OBVIOUS
      <3> HIDE DEF bad
      <3> QED
        BY <1>4, <3>1, LeastNumber
    <2>2. CASE i = 0
      <3>1. 1 .. 0 = {}
        OBVIOUS
      <3>2. ListedSoFar(holdings, 0, symbols)
        BY <3>1 DEF ListedSoFar
      <3> QED
        BY <1>3, <2>1, <2>2, <3>2
    <2>3. CASE i # 0
      <3>1. i \in 1 .. n /\ i - 1 \in 0 .. n /\ i - 1 \notin bad
        BY <2>1, <2>3
      <3>2. ListedSoFar(holdings, i - 1, h[i - 1]) /\ h[i - 1] \in Seq(S)
        BY <1>3, <3>1
      <3>3. ListedSoFar(holdings, i, Add(h[i - 1], holdings[i]))
        BY <1>1, <3>1, <3>2, ListedKept
      <3> QED
        BY <1>3, <2>1, <3>1, <3>3
    <2> QED
      BY <2>2, <2>3
  <1>5. n \in 0 .. n
    OBVIOUS
  <1> QED
    BY <1>1, <1>3, <1>4, <1>5

(* The ranking: when of two ids one is ahead of the other, and what is     *)
(* ahead of that one as well, the numbers of ids ahead are 0, 1, 2, ...    *)
LEMMA PlacesAreTaken ==
  ASSUME NEW ids, IsFiniteSet(ids), NEW ahead \in [ids -> SUBSET ids],
         \A i \in ids : i \notin ahead[i],
         \A i, j \in ids : i # j => i \in ahead[j] \/ j \in ahead[i],
         \A i, j \in ids : i \in ahead[j] => ahead[i] \subseteq ahead[j]
  PROVE  /\ \A i, j \in ids :
               i \in ahead[j] => Cardinality(ahead[i]) < Cardinality(ahead[j])
         /\ \A n \in 1 .. Cardinality(ids) :
               \E i \in ids : Cardinality(ahead[i]) + 1 = n
  <1>1. \A i \in ids : IsFiniteSet(ahead[i]) /\ Cardinality(ahead[i]) \in Nat
    BY FS_Subset, FS_CardinalityType
  <1>2. ASSUME NEW i \in ids, NEW j \in ids, i \in ahead[j]
        PROVE  Cardinality(ahead[i]) < Cardinality(ahead[j])
    <2>1. ahead[i] \in SUBSET ahead[j] /\ ahead[i] # ahead[j]
      BY <1>2
    <2>2. Cardinality(ahead[i]) <= Cardinality(ahead[j])
          /\ Cardinality(ahead[i]) # Cardinality(ahead[j])
      BY <1>1, <2>1, FS_Subset
    <2> QED
      BY <1>1, <2>2
  <1> DEFINE N == Cardinality(ids)
             place == [i \in ids |-> Cardinality(ahead[i]) + 1]
  <1>3. N \in Nat
    BY FS_CardinalityType
  <1>4. ASSUME NEW i \in ids PROVE place[i] \in 1 .. N
    <2>1. ahead[i] \in SUBSET ids /\ ahead[i] # ids
      OBVIOUS
    <2>2. Cardinality(ahead[i]) <= N /\ Cardinality(ahead[i]) # N
      BY <2>1, FS_Subset
    <2> QED
      BY <1>1, <1>3, <2>2
  <1>5. \A i, j \in ids : place[i] = place[j] => i = j
    <2> SUFFICES ASSUME NEW i \in ids, NEW j \in ids, i # j
                 PROVE  place[i] # place[j]
      OBVIOUS
    <2>1. Cardinality(ahead[i]) # Cardinality(ahead[j])
      BY <1>1, <1>2
    <2> QED
      BY <1>1, <2>1
  <1>6. place \in Injection(ids, 1 .. N)
    BY <1>4, <1>5 DEF Injection, IsInjective
  <1>7. IsFiniteSet(1 .. N) /\ Cardinality(1 .. N) = N
    BY <1>3, FS_Interval
  <1>8. place \in Surjection(ids, 1 .. N)
    BY <1>6, <1>7, FS_Injection
  <1>9. \A n \in 1 .. N : \E i \in ids : place[i] = n
    BY <1>8 DEF Surjection
  <1> QED
    BY <1>2, <1>9

SymbolsOf(markets) == [i \in DOMAIN markets |-> markets[i].symbol]

Sorted(ranked) == \A a, b \in DOMAIN ranked :
    a < b => ranked[a].turnover >= ranked[b].turnover

LEMMA RankedIsSorted ==
  ASSUME NEW M, \A m \in M : m.turnover \in Int,
         NEW markets \in Seq(M), Distinct(SymbolsOf(markets)),
         NEW ids \in SUBSET (DOMAIN markets)
  PROVE  LET ranked == ByTurnover(markets, ids)
         IN  /\ ranked \in Seq(M)
             /\ Sorted(ranked)
             /\ Distinct(SymbolsOf(ranked))
  <1> DEFINE ahead == [i \in ids |-> {j \in ids : Before(markets, j, i)}]
             N == Cardinality(ids)
             order == [n \in 1 .. N |->
                         CHOOSE i \in ids : Cardinality({j \in ids : Before(markets, j, i)}) + 1 = n]
             ranked == ByTurnover(markets, ids)
  <1>1. \A i \in ids : i \in Int /\ markets[i] \in M /\ markets[i].turnover \in Int
    OBVIOUS
  <1>2. IsFiniteSet(ids)
    <2>1. IsFiniteSet(1 .. Len(markets)) /\ ids \in SUBSET (1 .. Len(markets))
      BY FS_Interval
    <2> QED
      BY <2>1, FS_Subset
  <1>3. /\ \A i \in ids : i \notin ahead[i]
        /\ \A i, j \in ids : i # j => i \in ahead[j] \/ j \in ahead[i]
        /\ \A i, j \in ids : i \in ahead[j] => ahead[i] \subseteq ahead[j]
    BY <1>1 DEF Before
  <1>4. /\ \A i, j \in ids :
              i \in ahead[j] => Cardinality(ahead[i]) < Cardinality(ahead[j])
        /\ \A n \in 1 .. N : \E i \in ids : Cardinality(ahead[i]) + 1 = n
    <2>1. ahead \in [ids -> SUBSET ids]
      OBVIOUS
    <2> HIDE DEF ahead
    <2> QED
      BY <1>2, <1>3, <2>1, PlacesAreTaken
  <1>5. N \in Nat
    BY <1>2, FS_CardinalityType
  <1>6. \A n \in 1 .. N : order[n] \in ids /\ Cardinality(ahead[order[n]]) + 1 = n
    BY <1>4
  <1>7. ranked = [n \in 1 .. N |-> markets[order[n]]]
    BY DEF ByTurnover
  <1>8. ranked \in Seq(M)
    <2> HIDE DEF order, ranked, ahead
    <2>1. \A n \in 1 .. N : markets[order[n]] \in M
      BY <1>1, <1>6
    <2> HIDE DEF N
    <2> QED
      BY <1>5, <1>7, <2>1
  <1>9. ASSUME NEW a \in 1 .. N, NEW b \in 1 .. N, a < b
        PROVE  ranked[a].turnover >= ranked[b].turnover
               /\ ranked[a].symbol # ranked[b].symbol
    <2>1. order[a] \in ids /\ order[b] \in ids /\ order[a] # order[b]
      <3> HIDE DEF order, ahead
      <3> QED
        BY <1>5, <1>6, <1>9
    <2>2. order[b] \notin ahead[order[a]]
      <3>1. \A i \in ids : Cardinality(ahead[i]) \in Nat
        BY <1>2, FS_Subset, FS_CardinalityType
      <3> HIDE DEF ahead, order
      <3>2. PICK x \in Nat : x = Cardinality(ahead[order[a]])
        BY <2>1, <3>1
      <3>3. PICK y \in Nat : y = Cardinality(ahead[order[b]])
        BY <2>1, <3>1
      <3>4. x + 1 = a /\ y + 1 = b
        BY <1>6, <3>2, <3>3
      <3>5. ~(y < x)
        BY <1>9, <3>4
      <3> QED
        BY <1>4, <2>1, <3>2, <3>3, <3>5
    <2> HIDE DEF order
    <2>3. markets[order[a]].turnover >= markets[order[b]].turnover
      BY <1>1, <2>1, <2>2 DEF Before
    <2>4. markets[order[a]].symbol # markets[order[b]].symbol
      BY <2>1 DEF Distinct, SymbolsOf
    <2> QED
      BY <1>7, <2>3, <2>4
  <1> HIDE DEF ranked, order, ahead
  <1>10. DOMAIN ranked = 1 .. N
    BY <1>7
  <1>11. Sorted(ranked)
    BY <1>9, <1>10 DEF Sorted
  <1>12. Distinct(SymbolsOf(ranked))
    <2> SUFFICES ASSUME NEW a \in 1 .. N, NEW b \in 1 .. N, a # b
                 PROVE  ranked[a].symbol # ranked[b].symbol
      BY <1>10 DEF Distinct, SymbolsOf
    <2>1. a < b \/ b < a
      BY <1>5
    <2> QED
      BY <1>9, <2>1
  <1> QED
    BY <1>8, <1>11, <1>12 DEF ranked

(* The backtest's filter.                                                  *)
Pass(passed, m) == IF m.backtest = "passed" THEN Append(passed, m) ELSE passed

PassedDone(candidates, g) ==
    g = [U \in SUBSET (DOMAIN candidates) |->
           IF U = {} THEN <<>>
           ELSE IF candidates[Max(U)].backtest = "passed"
                THEN Append(g[U \ {Max(U)}], candidates[Max(U)])
                ELSE g[U \ {Max(U)}]]

LEMMA PassedUnfolds ==
  ASSUME NEW candidates
  PROVE  BacktestFilter(candidates)
           = (CHOOSE g : PassedDone(candidates, g))[DOMAIN candidates]
  BY DEF BacktestFilter, FoldLeft, MapThenFoldSet, PassedDone

PassedSteps(M, candidates, n, h) ==
    /\ h[0] = <<>>
    /\ \A i \in 1 .. n : h[i] = Pass(h[i - 1], candidates[i])
    /\ \A i \in 0 .. n : h[i] \in Seq(M)
    /\ BacktestFilter(candidates) = h[n]

LEMMA FilterSteps ==
  ASSUME NEW M, NEW n \in Nat, NEW candidates \in Seq(M), Len(candidates) = n
  PROVE  \E h : PassedSteps(M, candidates, n, h)
  <1> DEFINE F == [p \in (1 .. n) \X Seq(M) |-> Pass(p[2], candidates[p[1]])]
             g == CHOOSE g : PassedDone(candidates, g)
             h == [i \in 0 .. n |-> g[1 .. i]]
  <1>0. DOMAIN candidates = 1 .. n /\ \A i \in 1 .. n : candidates[i] \in M
    OBVIOUS
  <1>1. ASSUME NEW r \in Seq(M), NEW i \in 1 .. n
        PROVE  Pass(r, candidates[i]) \in Seq(M)
    BY <1>0 DEF Pass
  <1>2. F \in StepFunctions(n, Seq(M))
    BY <1>1 DEF StepFunctions
  <1>3. PICK e : Folded(n, Seq(M), <<>>, F, e)
    <2>1. <<>> \in Seq(M)
      OBVIOUS
    <2> QED
      BY <1>2, <2>1, FoldExists
  <1>4. PassedDone(candidates, e)
    <2>1. ASSUME NEW U \in SUBSET (1 .. n), U # {}
          PROVE  e[U] = Pass(e[U \ {Max(U)}], candidates[Max(U)])
      <3>1. Max(U) \in 1 .. n
        BY <2>1, MaxIsLargest
      <3>2. e[U \ {Max(U)}] \in Seq(M)
        BY <1>3 DEF Folded
      <3>3. e[U] = F[<<Max(U), e[U \ {Max(U)}]>>]
        BY <1>3, <2>1 DEF Folded, FoldStep
      <3>4. <<Max(U), e[U \ {Max(U)}]>> \in (1 .. n) \X Seq(M)
        BY <3>1, <3>2
      <3> QED
        BY <3>3, <3>4
    <2>2. e[{}] = <<>>
      BY <1>3 DEF Folded, FoldStep
    <2>3. e \in [SUBSET (1 .. n) -> Seq(M)]
      BY <1>3 DEF Folded
    <2> QED
      BY <1>0, <2>1, <2>2, <2>3 DEF PassedDone, Pass
  <1>5. PassedDone(candidates, g)
    BY <1>4
  <1>6. BacktestFilter(candidates) = g[1 .. n]
    BY <1>0, PassedUnfolds
  <1> HIDE DEF g
  <1>7. h[0] = <<>>
    <2>1. h[0] = g[1 .. 0] /\ 1 .. 0 = {}
      OBVIOUS
    <2> QED
      BY <1>5, <2>1 DEF PassedDone
  <1>8. ASSUME NEW i \in 1 .. n
        PROVE  h[i] = Pass(h[i - 1], candidates[i])
    <2>0. i \in Nat \ {0} /\ 1 .. i \in SUBSET (1 .. n) /\ 1 .. i # {}
      OBVIOUS
    <2>1. Max(1 .. i) = i /\ (1 .. i) \ {Max(1 .. i)} = 1 .. i - 1
      BY <2>0, MaxOfPrefix
    <2>2. g[1 .. i] = Pass(g[1 .. i - 1], candidates[i])
      BY <1>0, <1>5, <2>0, <2>1 DEF PassedDone, Pass
    <2>3. h[i] = g[1 .. i] /\ h[i - 1] = g[1 .. i - 1]
      OBVIOUS
    <2> QED
      BY <2>2, <2>3
  <1>9. BacktestFilter(candidates) = h[n]
    BY <1>6
  <1> HIDE DEF h
  <1>10. \A i \in 1 .. n : h[i - 1] \in Seq(M) => h[i] \in Seq(M)
    BY <1>1, <1>8
  <1>11. \A i \in 0 .. n : h[i] \in Seq(M)
    <2>1. h[0] \in Seq(M)
      BY <1>7
    <2> QED
      BY <1>10, <2>1, AlongPrefixes
  <1> QED
    BY <1>7, <1>8, <1>9, <1>11 DEF PassedSteps

(* What has passed among the first i: a part of them, in their order.      *)
PassedSoFar(candidates, i, r) ==
    /\ \A a \in DOMAIN r : \E k \in 1 .. i : r[a] = candidates[k]
    /\ Sorted(r)
    /\ Distinct(SymbolsOf(r))

LEMMA PassedKept ==
  ASSUME NEW M, NEW candidates \in Seq(M),
         Sorted(candidates), Distinct(SymbolsOf(candidates)),
         NEW i \in 1 .. Len(candidates), NEW r \in Seq(M),
         PassedSoFar(candidates, i - 1, r)
  PROVE  PassedSoFar(candidates, i, Pass(r, candidates[i]))
  <1> DEFINE m == candidates[i]
             after == Pass(r, m)
  <1>1. m \in M /\ 1 .. i = (1 .. i - 1) \cup {i} /\ i \in DOMAIN candidates
    OBVIOUS
  <1>2. /\ \A a \in DOMAIN r : \E k \in 1 .. i - 1 : r[a] = candidates[k]
        /\ Sorted(r)
        /\ Distinct(SymbolsOf(r))
    BY DEF PassedSoFar
  <1>3. CASE m.backtest # "passed"
    <2>1. after = r
      BY <1>3 DEF Pass
    <2>2. \A a \in DOMAIN r : \E k \in 1 .. i : r[a] = candidates[k]
      BY <1>1, <1>2
    <2> QED
      BY <1>2, <2>1, <2>2 DEF PassedSoFar
  <1>4. CASE m.backtest = "passed"
    <2>1. after = Append(r, m)
      BY <1>4 DEF Pass
    <2> DEFINE n == Len(r)
    <2>2. /\ n \in Nat /\ DOMAIN r = 1 .. n /\ DOMAIN after = 1 .. n + 1
          /\ after[n + 1] = m /\ \A a \in 1 .. n : after[a] = r[a]
      BY <1>1, <2>1
    <2> HIDE DEF n, after, m
    <2>3. 1 .. n + 1 = (1 .. n) \cup {n + 1} /\ n + 1 \notin 1 .. n
      BY <2>2
    <2>4. ASSUME NEW a \in 1 .. n
          PROVE  r[a].turnover >= m.turnover /\ r[a].symbol # m.symbol
      <3>1. PICK k \in 1 .. i - 1 : r[a] = candidates[k]
        BY <1>2, <2>2
      <3>2. k \in DOMAIN candidates /\ k < i /\ k # i
        OBVIOUS
      <3> QED
        BY <1>1, <3>1, <3>2 DEF Sorted, Distinct, SymbolsOf, m
    <2>5. \A a \in DOMAIN after : \E k \in 1 .. i : after[a] = candidates[k]
      <3>1. \A a \in 1 .. n : \E k \in 1 .. i : r[a] = candidates[k]
        BY <1>1, <1>2, <2>2
      <3> QED
        BY <1>1, <2>2, <2>3, <3>1 DEF m
    <2>6. Sorted(after)
      <3> SUFFICES ASSUME NEW a \in 1 .. n + 1, NEW b \in 1 .. n + 1, a < b
                   PROVE  after[a].turnover >= after[b].turnover
        BY <2>2 DEF Sorted
      <3>1. a \in 1 .. n
        BY <2>2
      <3>2. CASE b \in 1 .. n
        BY <1>2, <2>2, <3>1, <3>2 DEF Sorted
      <3>3. CASE b = n + 1
        BY <2>2, <2>4, <3>1, <3>3
      <3> QED
        BY <2>3, <3>2, <3>3
    <2>7. Distinct(SymbolsOf(after))
      <3>1. \A a, b \in 1 .. n : a # b => r[a].symbol # r[b].symbol
        BY <1>2, <2>2 DEF Distinct, SymbolsOf
      <3>2. \A a, b \in 1 .. n + 1 : a # b => after[a].symbol # after[b].symbol
        BY <2>2, <2>3, <2>4, <3>1
      <3> QED
        BY <2>2, <3>2 DEF Distinct, SymbolsOf
    <2> QED
      BY <2>5, <2>6, <2>7 DEF PassedSoFar, after, m
  <1> QED
    BY <1>3, <1>4

LEMMA FilterKeepsOrder ==
  ASSUME NEW M, NEW candidates \in Seq(M),
         Sorted(candidates), Distinct(SymbolsOf(candidates))
  PROVE  LET passed == BacktestFilter(candidates)
         IN  passed \in Seq(M) /\ Sorted(passed) /\ Distinct(SymbolsOf(passed))
  <1>1. PICK n \in Nat : n = Len(candidates)
    OBVIOUS
  <1>2. PICK h : PassedSteps(M, candidates, n, h)
    BY <1>1, FilterSteps
  <1>3. /\ h[0] = <<>>
        /\ \A i \in 1 .. n : h[i] = Pass(h[i - 1], candidates[i])
        /\ \A i \in 0 .. n : h[i] \in Seq(M)
        /\ BacktestFilter(candidates) = h[n]
    BY <1>2 DEF PassedSteps
  <1> DEFINE bad == {i \in 0 .. n : ~PassedSoFar(candidates, i, h[i])}
  <1>4. ASSUME bad # {} PROVE FALSE
    <2>1. PICK i \in bad : \A j \in bad : i <= j
      <3>1. bad \in SUBSET Nat
        OBVIOUS
      <3> HIDE DEF bad
      <3> QED
        BY <1>4, <3>1, LeastNumber
    <2>2. CASE i = 0
      <3>1. DOMAIN <<>> = {}
        OBVIOUS
      <3>2. DOMAIN SymbolsOf(<<>>) = {}
        BY <3>1 DEF SymbolsOf
      <3>3. PassedSoFar(candidates, 0, <<>>)
        BY <3>1, <3>2 DEF PassedSoFar, Sorted, Distinct
      <3> QED
        BY <1>3, <2>1, <2>2, <3>3
    <2>3. CASE i # 0
      <3>1. i \in 1 .. n /\ i - 1 \in 0 .. n /\ i - 1 \notin bad
        BY <2>1, <2>3
      <3>2. PassedSoFar(candidates, i - 1, h[i - 1]) /\ h[i - 1] \in Seq(M)
        BY <1>3, <3>1
      <3>3. PassedSoFar(candidates, i, Pass(h[i - 1], candidates[i]))
        BY <1>1, <3>1, <3>2, PassedKept
      <3> QED
        BY <1>3, <2>1, <3>1, <3>3
    <2> QED
      BY <2>2, <2>3
  <1>5. n \in 0 .. n
    OBVIOUS
  <1>6. PassedSoFar(candidates, n, h[n]) /\ h[n] \in Seq(M)
    BY <1>3, <1>4, <1>5
  <1> QED
    BY <1>3, <1>6 DEF PassedSoFar

LEMMA PassedIsSorted ==
  ASSUME NEW M, \A m \in M : m.turnover \in Int,
         NEW markets \in Seq(M), Distinct(SymbolsOf(markets))
  PROVE  LET passed == BacktestFilter(GetTopVolumeSymbols(markets))
         IN  passed \in Seq(M) /\ Sorted(passed) /\ Distinct(SymbolsOf(passed))
  <1> DEFINE safe == {i \in DOMAIN markets : ~markets[i].warning}
             asked == {i \in safe : Cardinality({j \in safe : j < i}) < TickerLimit}
             ranked == ByTurnover(markets, {i \in asked : markets[i].turnover >= MinVolume})
             top == GetTopVolumeSymbols(markets)
  <1>1. ranked \in Seq(M) /\ Sorted(ranked) /\ Distinct(SymbolsOf(ranked))
    <2>1. {i \in asked : markets[i].turnover >= MinVolume} \in SUBSET (DOMAIN markets)
      OBVIOUS
    <2> QED
      BY <2>1, RankedIsSorted
  <1>2. top = AtMostFirst(ranked, TopLimit)
    BY DEF GetTopVolumeSymbols
  <1> HIDE DEF top, ranked
  <1>3. /\ top \in Seq(M)
        /\ DOMAIN top \subseteq DOMAIN ranked
        /\ \A i \in DOMAIN top : top[i] = ranked[i]
    BY <1>1, <1>2, ScreeningAssumption, FirstOnes
  <1>4. Sorted(top) /\ Distinct(SymbolsOf(top))
    BY <1>1, <1>3 DEF Sorted, Distinct, SymbolsOf
  <1> QED
    BY <1>3, <1>4, FilterKeepsOrder DEF top

(* For any list of distinct markets, correlations and holdings: no two of  *)
(* the selected symbols move together, a candidate is left out only for    *)
(* such a one of no less turnover or a full list, and all that is held is  *)
(* listed, each symbol once: run_screening_pipeline and select_symbols.    *)
THEOREM SelectionIsSound ==
  ASSUME NEW S, NEW M, \A m \in M : m.symbol \in S /\ m.turnover \in Int,
         NEW markets \in Seq(M), Distinct(SymbolsOf(markets)),
         NEW pairs, \A s \in S : {s} \notin pairs,
         NEW max \in Nat, NEW holdings \in Seq(S),
         Configured \in Seq(S), Distinct(Configured)
  PROVE  SymbolsAreSound(markets, pairs, max, holdings)
  <1> DEFINE passed == BacktestFilter(GetTopVolumeSymbols(markets))
             symbols == SymbolsOf(passed)
             all == Selected(symbols, pairs)
             selected == RunScreeningPipeline(markets, pairs, max)
             screened == IF selected = <<>> THEN Configured ELSE selected
             list == SelectSymbols(selected, holdings)
  <1>0. passed \in Seq(M) /\ Sorted(passed) /\ Distinct(symbols)
    BY PassedIsSorted
  <1>1. symbols \in Seq(S) /\ Distinct(symbols)
    <2> HIDE DEF passed
    <2> QED
      BY <1>0 DEF SymbolsOf
  <1>2. selected = AtMostFirst(all, max)
    BY DEF RunScreeningPipeline, CorrelationFilter, Selected, SymbolsOf
  <1>3. list = Listed(screened, holdings)
    BY DEF SelectSymbols, Listed
  <1>4. DOMAIN passed = DOMAIN symbols /\ \A i \in DOMAIN passed : passed[i].symbol = symbols[i]
    BY DEF SymbolsOf
  <1>5. SymbolsAreSound(markets, pairs, max, holdings) <=>
          /\ \A i \in DOMAIN holdings : Contains(list, holdings[i])
          /\ \A i, j \in DOMAIN list : i # j => list[i] # list[j]
          /\ \A i, j \in DOMAIN selected : {selected[i], selected[j]} \notin pairs
          /\ \A i \in DOMAIN passed :
                \/ Contains(selected, passed[i].symbol)
                \/ Len(selected) = max
                \/ \E j \in 1 .. i : /\ Contains(selected, passed[j].symbol)
                                    /\ passed[j].turnover >= passed[i].turnover
                                    /\ {passed[j].symbol, passed[i].symbol} \in pairs
    BY DEF SymbolsAreSound
  <1> HIDE DEF passed, symbols, selected, list
  <1>6. all \in Seq(S) /\ SelectedSoFar(symbols, pairs, Len(symbols), all)
    BY <1>1, SelectedIsSound
  <1> HIDE DEF all
  <1>7. /\ selected \in Seq(S)
        /\ selected = all \/ Len(selected) = max
        /\ DOMAIN selected \subseteq DOMAIN all
        /\ \A i \in DOMAIN selected : selected[i] = all[i]
    BY <1>2, <1>6, FirstOnes
  <1>8. \A i, j \in DOMAIN selected : {selected[i], selected[j]} \notin pairs
    BY <1>6, <1>7 DEF SelectedSoFar
  <1>9. Distinct(selected)
    BY <1>6, <1>7 DEF SelectedSoFar, Distinct
  <1>10. ASSUME NEW i \in DOMAIN passed
         PROVE  \/ Contains(selected, passed[i].symbol)
                \/ Len(selected) = max
                \/ \E j \in 1 .. i : /\ Contains(selected, passed[j].symbol)
                                    /\ passed[j].turnover >= passed[i].turnover
                                    /\ {passed[j].symbol, passed[i].symbol} \in pairs
    <2> SUFFICES ASSUME Len(selected) # max
                 PROVE  \/ Contains(selected, passed[i].symbol)
                        \/ \E j \in 1 .. i : /\ Contains(selected, passed[j].symbol)
                                            /\ passed[j].turnover >= passed[i].turnover
                                            /\ {passed[j].symbol, passed[i].symbol} \in pairs
      OBVIOUS
    <2>1. selected = all
      BY <1>7
    <2>2. i \in 1 .. Len(symbols) /\ i \in DOMAIN symbols /\ i \in Nat
      BY <1>1, <1>4
    <2>3. PICK a \in DOMAIN all, j \in 1 .. i :
             all[a] = symbols[j] /\ (j = i \/ {symbols[j], symbols[i]} \in pairs)
      BY <1>6, <2>2 DEF SelectedSoFar
    <2>4. a \in 1 .. Len(all) /\ j \in DOMAIN passed /\ j \in Nat /\ j <= i
      BY <1>1, <1>4, <1>6, <2>2
    <2>5. passed[j].symbol = symbols[j] /\ passed[i].symbol = symbols[i]
      BY <1>4, <2>4
    <2>6. Contains(selected, passed[j].symbol)
      BY <2>1, <2>3, <2>4, <2>5 DEF Contains
    <2>7. CASE j = i
      BY <2>6, <2>7
    <2>8. CASE j # i
      <3>1. j < i /\ {passed[j].symbol, passed[i].symbol} \in pairs
        BY <2>2, <2>3, <2>4, <2>5, <2>8
      <3>2. passed[j].turnover >= passed[i].turnover
        BY <1>0, <2>4, <3>1 DEF Sorted
      <3> QED
        BY <2>6, <3>1, <3>2
    <2> QED
      BY <2>7, <2>8
  <1>11. screened \in Seq(S) /\ Distinct(screened)
    BY <1>7, <1>9
  <1> HIDE DEF screened
  <1>12. ListedSoFar(holdings, Len(holdings), list)
    BY <1>3, <1>11, ListedIsSound
  <1>13. \A i \in DOMAIN holdings : Contains(list, holdings[i])
    <2>1. DOMAIN holdings = 1 .. Len(holdings)
      OBVIOUS
    <2> QED
      BY <1>12, <2>1 DEF ListedSoFar
  <1>14. \A i, j \in DOMAIN list : i # j => list[i] # list[j]
    BY <1>12 DEF ListedSoFar, Distinct
  <1> QED
    BY <1>4, <1>5, <1>8, <1>10, <1>13, <1>14

-----------------------------------------------------------------------------
(* The trades table                                                        *)

\* MCAlgorithms records the trades of the subject "profits" as those of "a".
TradeRow == [symbol : TradedSymbols, side : {"buy", "sell"}, price : Nat,
             quantity : Nat \ {0}, day : Days, strategy : TradingStrategies \cup {"a"}]

(* Rows are written in the order of their days.                            *)
IsTable(rows) ==
    /\ rows \in Seq(TradeRow)
    /\ \A i, j \in DOMAIN rows : i < j => rows[i].day <= rows[j].day

CashOf(rows) == [i \in DOMAIN rows |-> Cash(rows[i])]
SoldBy(rows) == [i \in DOMAIN rows |-> On("sell", rows[i])]
BoughtBy(rows) == [i \in DOMAIN rows |-> On("buy", rows[i])]
FeeOf(rows) == [i \in DOMAIN rows |-> Fee(rows[i])]

LEMMA RowTypes ==
  ASSUME NEW row \in TradeRow
  PROVE  /\ row.symbol \in TradedSymbols /\ row.side \in {"buy", "sell"}
         /\ row.price \in Nat /\ row.quantity \in Nat \ {0}
         /\ row.day \in Days /\ row.day \in Nat
  BY EvaluationAssumption DEF TradeRow

LEMMA RowAmounts ==
  ASSUME NEW row \in TradeRow
  PROVE  /\ Amount(row) \in Nat /\ Fee(row) \in Int /\ Cash(row) \in Int
         /\ On("sell", row) \in Int /\ On("buy", row) \in Int
  <1>1. PICK p \in Nat, q \in Nat : p = row.price /\ q = row.quantity
    BY RowTypes
  <1>2. PICK u \in Nat : u = Unit
    BY EvaluationAssumption
  <1>3. (p * q) * u \in Nat
    BY ProductOfNats
  <1>4. Amount(row) \in Nat
    BY <1>1, <1>2, <1>3 DEF Amount
  <1>5. PICK a \in Nat, d \in Nat \ {0} : a = Amount(row) /\ d = TradeFee
    BY <1>4, EvaluationAssumption
  <1>6. a \div d \in Nat
    BY ShareOf
  <1>7. Fee(row) \in Int
    BY <1>5, <1>6 DEF Fee
  <1>8. On("sell", row) \in Int /\ On("buy", row) \in Int
    BY <1>4 DEF On
  <1> QED
    BY <1>4, <1>7, <1>8 DEF Cash

LEMMA TableTypes ==
  ASSUME NEW rows \in Seq(TradeRow)
  PROVE  /\ IsFiniteSet(DOMAIN rows)
         /\ \A i \in DOMAIN rows :
              /\ rows[i] \in TradeRow /\ i \in Nat
              /\ CashOf(rows)[i] \in Int /\ SoldBy(rows)[i] \in Int
              /\ BoughtBy(rows)[i] \in Int /\ FeeOf(rows)[i] \in Int
              /\ CashOf(rows)[i] = SoldBy(rows)[i] - BoughtBy(rows)[i] - FeeOf(rows)[i]
  <1>1. IsFiniteSet(DOMAIN rows)
    <2>1. Len(rows) \in Nat /\ DOMAIN rows = 1 .. Len(rows)
      OBVIOUS
    <2> QED
      BY <2>1, FS_Interval
  <1>2. \A i \in DOMAIN rows : rows[i] \in TradeRow /\ i \in Nat
    OBVIOUS
  <1> QED
    BY <1>1, <1>2, RowAmounts DEF CashOf, SoldBy, BoughtBy, FeeOf, Cash

LEMMA TotalIsSum ==
  ASSUME NEW rows \in Seq(TradeRow), NEW ids \in SUBSET (DOMAIN rows)
  PROVE  /\ Total(rows, ids, Cash) = SumFunctionOnSet(CashOf(rows), ids)
         /\ Total(rows, ids, LAMBDA row : On("sell", row)) = SumFunctionOnSet(SoldBy(rows), ids)
         /\ Total(rows, ids, LAMBDA row : On("buy", row)) = SumFunctionOnSet(BoughtBy(rows), ids)
         /\ Total(rows, ids, Fee) = SumFunctionOnSet(FeeOf(rows), ids)
  <1>1. IsFiniteSet(ids)
    BY TableTypes, FS_Subset
  <1>2. Total(rows, ids, Cash) = SumFunctionOnSet(CashOf(rows), ids)
    BY <1>1, SumAgrees DEF Total, CashOf
  <1>3. Total(rows, ids, LAMBDA row : On("sell", row)) = SumFunctionOnSet(SoldBy(rows), ids)
    BY <1>1, SumAgrees DEF Total, SoldBy
  <1>4. Total(rows, ids, LAMBDA row : On("buy", row)) = SumFunctionOnSet(BoughtBy(rows), ids)
    BY <1>1, SumAgrees DEF Total, BoughtBy
  <1>5. Total(rows, ids, Fee) = SumFunctionOnSet(FeeOf(rows), ids)
    BY <1>1, SumAgrees DEF Total, FeeOf
  <1> QED
    BY <1>2, <1>3, <1>4, <1>5

LEMMA CashAddsUp ==
  ASSUME NEW rows \in Seq(TradeRow), NEW ids \in SUBSET (DOMAIN rows)
  PROVE  /\ SumFunctionOnSet(CashOf(rows), ids)
              = SumFunctionOnSet(SoldBy(rows), ids) - SumFunctionOnSet(BoughtBy(rows), ids)
                - SumFunctionOnSet(FeeOf(rows), ids)
         /\ SumFunctionOnSet(CashOf(rows), ids) \in Int
         /\ SumFunctionOnSet(SoldBy(rows), ids) \in Int
         /\ SumFunctionOnSet(BoughtBy(rows), ids) \in Int
         /\ SumFunctionOnSet(FeeOf(rows), ids) \in Int
  <1> DEFINE cash == CashOf(rows)
             sold == SoldBy(rows)
             bought == BoughtBy(rows)
             fee == FeeOf(rows)
             spent == [i \in DOMAIN rows |-> bought[i] + fee[i]]
  <1>1. IsFiniteSet(ids)
    BY TableTypes, FS_Subset
  <1>2. \A i \in ids : /\ cash[i] \in Int /\ sold[i] \in Int /\ bought[i] \in Int
                       /\ fee[i] \in Int /\ cash[i] = sold[i] - bought[i] - fee[i]
    BY TableTypes
  <1> HIDE DEF cash, sold, bought, fee
  <1>3. \A i \in ids : /\ spent[i] = bought[i] + fee[i] /\ spent[i] \in Int
                       /\ sold[i] = cash[i] + spent[i]
    BY <1>2
  <1> HIDE DEF spent
  <1>4. SumFunctionOnSet(spent, ids)
          = SumFunctionOnSet(bought, ids) + SumFunctionOnSet(fee, ids)
    BY <1>1, <1>2, <1>3, SumOfBoth
  <1>5. SumFunctionOnSet(sold, ids)
          = SumFunctionOnSet(cash, ids) + SumFunctionOnSet(spent, ids)
    BY <1>1, <1>2, <1>3, SumOfBoth
  <1>6. /\ SumFunctionOnSet(cash, ids) \in Int /\ SumFunctionOnSet(sold, ids) \in Int
        /\ SumFunctionOnSet(bought, ids) \in Int /\ SumFunctionOnSet(fee, ids) \in Int
    BY <1>1, <1>2, SumIsInt
  <1> QED
    BY <1>4, <1>5, <1>6 DEF cash, sold, bought, fee

DayOf(rows) == [i \in DOMAIN rows |-> rows[i].day]

(* The days' results of a strategy sum to what it brought in total.        *)
LEMMA DaysSumToTotal ==
  ASSUME NEW rows \in Seq(TradeRow), NEW trades \in SUBSET (DOMAIN rows)
  PROVE  LET daily == DailyReturns(rows, trades)
         IN  SumFunction([d \in DOMAIN daily |-> daily[d].pnl])
               = SumFunctionOnSet(CashOf(rows), trades)
  <1> DEFINE days == {rows[i].day : i \in trades}
             today(d) == {i \in trades : rows[i].day = d}
             daily == DailyReturns(rows, trades)
             pnl == [d \in DOMAIN daily |-> daily[d].pnl]
             parts == [d \in days |-> SumFunctionOnSet(CashOf(rows), Part(trades, DayOf(rows), d))]
  <1>1. IsFiniteSet(trades) /\ IsFiniteSet(days)
    <2>1. IsFiniteSet(trades)
      BY TableTypes, FS_Subset
    <2>2. days \in SUBSET Days
      BY TableTypes, RowTypes
    <2> QED
      BY <2>1, <2>2, EvaluationAssumption, FS_Subset
  <1>2. DOMAIN pnl = days
    BY DEF DailyReturns
  <1>3. ASSUME NEW d \in days PROVE pnl[d] = parts[d]
    <2>1. pnl[d] = Total(rows, today(d), Cash)
      BY DEF DailyReturns
    <2>2. today(d) = Part(trades, DayOf(rows), d) /\ today(d) \in SUBSET (DOMAIN rows)
      BY DEF Part, DayOf
    <2> QED
      BY <2>1, <2>2, TotalIsSum
  <1>4. SumFunction(pnl) = SumFunctionOnSet(parts, days)
    <2> HIDE DEF pnl, parts, days
    <2>1. SumFunctionOnSet(pnl, days) = SumFunctionOnSet(parts, days)
      BY <1>1, <1>3, SumAgrees
    <2> QED
      BY <1>2, <2>1 DEF SumFunction
  <1>5. SumFunctionOnSet(parts, days) = SumFunctionOnSet(CashOf(rows), trades)
    <2>1. \A i \in trades : DayOf(rows)[i] \in days /\ CashOf(rows)[i] \in Int
      BY TableTypes DEF DayOf
    <2> HIDE DEF days
    <2> QED
      BY <1>1, <2>1, SumByParts
  <1> QED
    BY <1>4, <1>5

(* A win that the evaluator counts has a pair that SQL counts, and if it   *)
(* reads all rows of the strategy, every such pair is a win.               *)
LEMMA WinsArePairs ==
  ASSUME NEW rows, IsTable(rows), NEW s, NEW since \in Days
  PROVE  LET trades == StrategyTrades(rows, s, since)
             wins == Wins(rows, trades)
             pairs == TrackerWins(rows, s)
         IN  /\ IsFiniteSet(pairs)
             /\ Cardinality(wins) <= Cardinality(pairs)
             /\ trades = {i \in DOMAIN rows : rows[i].strategy = s}
                  => Cardinality(wins) = Cardinality(pairs)
  <1> DEFINE D == DOMAIN rows
             trades == StrategyTrades(rows, s, since)
             wins == Wins(rows, trades)
             pairs == TrackerWins(rows, s)
             Earlier(i) == {j \in 1..(i - 1) : /\ rows[j].symbol = rows[i].symbol
                                               /\ rows[j].side = "buy"
                                               /\ rows[j].strategy = s}
             F == [i \in wins |-> <<i, Max(Earlier(i))>>]
  <1>1. PICK n \in Nat : n = Len(rows) /\ D = 1 .. n /\ rows \in Seq(TradeRow)
    BY DEF IsTable
  <1>2. \A i \in D : rows[i] \in TradeRow /\ rows[i].day \in Nat /\ since \in Nat
    BY <1>1, TableTypes, RowTypes, EvaluationAssumption
  <1>3. pairs = {p \in {<<i, Max(Earlier(i))>> :
                          i \in {k \in D : /\ rows[k].strategy = s
                                           /\ rows[k].side = "sell"
                                           /\ Earlier(k) # {}}} :
                   rows[p[1]].price > rows[p[2]].price}
    BY DEF TrackerWins, SellPairs
  <1>4. \A i \in D : Earlier(i) \in SUBSET (1 .. n) /\ Earlier(i) \subseteq D
    BY <1>1
  <1>5. \A i \in D : Earlier(i) # {} =>
           Max(Earlier(i)) \in Earlier(i) /\ \A k \in Earlier(i) : Max(Earlier(i)) >= k
    <2> HIDE DEF Earlier
    <2> QED
      BY <1>1, <1>4, MaxIsLargest
  <1>6. IsFiniteSet(pairs)
    <2>1. ASSUME NEW p \in pairs PROVE p \in D \X D
      <3>1. PICK i \in D : p = <<i, Max(Earlier(i))>> /\ Earlier(i) # {}
        BY <1>3
      <3>2. Max(Earlier(i)) \in D
        BY <1>4, <1>5, <3>1
      <3> QED
        BY <3>1, <3>2
    <2>2. IsFiniteSet(D \X D)
      BY <1>1, TableTypes, FS_Product
    <2> QED
      BY <2>1, <2>2, FS_Subset
  <1>7. ASSUME NEW i \in wins
        PROVE  F[i] \in pairs
    <2>1. /\ i \in D /\ i \in trades /\ rows[i].strategy = s /\ rows[i].side = "sell"
      BY DEF Wins, StrategyTrades
    <2>2. PICK j \in trades :
             /\ j < i /\ rows[j].side = "buy" /\ rows[j].symbol = rows[i].symbol
             /\ \A k \in trades : j < k /\ k < i /\ rows[k].side = "buy"
                                    => rows[k].symbol # rows[i].symbol
             /\ rows[i].price > rows[j].price
      BY DEF Wins
    <2>3. j \in D /\ rows[j].strategy = s /\ rows[j].day >= since /\ j \in 1 .. i - 1
      BY <1>1, <2>1, <2>2 DEF StrategyTrades
    <2>4. j \in Earlier(i)
      BY <2>2, <2>3
    <2>5. ASSUME NEW k \in Earlier(i), k > j PROVE FALSE
      <3>1. k \in D /\ k < i /\ j < k /\ rows[k].strategy = s /\ rows[k].side = "buy"
            /\ rows[k].symbol = rows[i].symbol
        BY <1>1, <1>4, <2>1, <2>5
      <3>2. rows[j].day <= rows[k].day
        BY <2>3, <3>1 DEF IsTable
      <3>3. rows[k].day >= since
        BY <1>2, <2>3, <3>1, <3>2
      <3>4. k \in trades
        BY <3>1, <3>3 DEF StrategyTrades
      <3> QED
        BY <2>2, <3>1, <3>4
    <2>6. Max(Earlier(i)) = j
      <3>1. Max(Earlier(i)) \in Earlier(i) /\ Max(Earlier(i)) >= j
        BY <1>5, <2>1, <2>4
      <3>2. Max(Earlier(i)) \in Int /\ j \in Int
        BY <1>1, <1>4, <2>1, <2>3, <3>1
      <3> QED
        BY <2>5, <3>1, <3>2
    <2>7. F[i] = <<i, j>>
      BY <2>6
    <2>8. <<i, j>> \in {<<k, Max(Earlier(k))>> :
                          k \in {l \in D : /\ rows[l].strategy = s
                                           /\ rows[l].side = "sell"
                                           /\ Earlier(l) # {}}}
      BY <2>1, <2>4, <2>6
    <2>9. rows[<<i, j>>[1]].price > rows[<<i, j>>[2]].price
      BY <2>2
    <2> QED
      BY <1>3, <2>7, <2>8, <2>9
  <1>8. F \in Injection(wins, pairs)
    <2>1. F \in [wins -> pairs]
      BY <1>7
    <2>2. \A i, j \in wins : F[i] = F[j] => i = j
      OBVIOUS
    <2> QED
      BY <2>1, <2>2 DEF Injection, IsInjective
  <1>9. /\ Cardinality(wins) <= Cardinality(pairs)
        /\ Cardinality(wins) = Cardinality(pairs) <=> F \in Surjection(wins, pairs)
    <2> HIDE DEF F, wins, pairs
    <2> QED
      BY <1>6, <1>8, FS_Injection
  <1>10. ASSUME trades = {i \in D : rows[i].strategy = s}
         PROVE  F \in Surjection(wins, pairs)
    <2>1. ASSUME NEW p \in pairs PROVE \E i \in wins : F[i] = p
      <3>1. PICK i \in D : /\ p = <<i, Max(Earlier(i))>> /\ rows[i].strategy = s
                           /\ rows[i].side = "sell" /\ Earlier(i) # {}
                           /\ rows[i].price > rows[Max(Earlier(i))].price
        BY <1>3
      <3>2. PICK j : j = Max(Earlier(i))
        OBVIOUS
      <3>3. j \in Earlier(i) /\ \A k \in Earlier(i) : j >= k
        BY <1>5, <3>1, <3>2
      <3>4. j \in trades /\ j < i /\ j \in Int /\ rows[j].side = "buy"
            /\ rows[j].symbol = rows[i].symbol
        BY <1>1, <1>4, <1>10, <3>1, <3>3
      <3>5. ASSUME NEW k \in trades, j < k, k < i, rows[k].side = "buy"
            PROVE  rows[k].symbol # rows[i].symbol
        <4>1. k \in D /\ rows[k].strategy = s
          BY <1>10
        <4>2. k \in 1 .. i - 1
          BY <1>1, <3>5, <4>1
        <4> QED
          BY <3>3, <3>4, <3>5, <4>1, <4>2
      <3>6. i \in trades
        BY <1>10, <3>1
      <3>7. i \in wins
        BY <3>1, <3>2, <3>4, <3>5, <3>6 DEF Wins
      <3> QED
        BY <3>1, <3>7
    <2> QED
      BY <1>7, <2>1 DEF Surjection
  <1> QED
    BY <1>6, <1>9, <1>10

(* Whatever trades are recorded, in the order of their days: the two       *)
(* records of a strategy agree.                                            *)
THEOREM RecordsOfAStrategyAgree ==
  ASSUME NEW rows, IsTable(rows)
  PROVE  RecordsAgree(rows)
  <1> DEFINE Agrees(s, since) ==
               LET record == Evaluate(rows, s, since)
                   daily == record.daily_returns
                   sql == Aggregates(rows, s)
               IN record.status = "evaluated" =>
                    /\ SumFunction([d \in DOMAIN daily |-> daily[d].pnl]) = record.total_return
                    /\ record.wins <= Cardinality(TrackerWins(rows, s))
                    /\ record.trade_count = sql.trade_count =>
                         /\ record.wins = Cardinality(TrackerWins(rows, s))
                         /\ record.total_return = sql.realized_pnl
  <1>1. ASSUME NEW s \in TradingStrategies, NEW since \in Days
        PROVE  Agrees(s, since)
    <2> DEFINE record == Evaluate(rows, s, since)
               trades == StrategyTrades(rows, s, since)
               every == {i \in DOMAIN rows : rows[i].strategy = s}
    <2>1. SUFFICES ASSUME record.status = "evaluated" PROVE Agrees(s, since)
      OBVIOUS
    <2>2. /\ record.trade_count = Cardinality(trades)
          /\ record.wins = Cardinality(Wins(rows, trades))
          /\ record.total_return = TotalReturn(rows, trades)
          /\ record.daily_returns = DailyReturns(rows, trades)
      <3>1. ~(Cardinality(trades) < MinTrades)
        BY <2>1 DEF Evaluate
      <3>2. record = [status |-> "evaluated", trade_count |-> Cardinality(trades),
                      wins |-> Cardinality(Wins(rows, trades)),
                      total_return |-> TotalReturn(rows, trades),
                      daily_returns |-> DailyReturns(rows, trades)]
        BY <3>1 DEF Evaluate
      <3> HIDE DEF record, trades
      <3> QED
        BY <3>2
    <2>3. /\ rows \in Seq(TradeRow)
          /\ trades \in SUBSET (DOMAIN rows) /\ every \in SUBSET (DOMAIN rows)
          /\ trades \subseteq every
      BY DEF IsTable, StrategyTrades
    <2>4. IsFiniteSet(every)
      BY <2>3, TableTypes, FS_Subset
    <2>5. TotalReturn(rows, trades) = SumFunctionOnSet(CashOf(rows), trades)
      BY <2>3, TotalIsSum, CashAddsUp DEF TotalReturn
    <2>6. Aggregates(rows, s).trade_count = Cardinality(every)
          /\ Aggregates(rows, s).realized_pnl = SumFunctionOnSet(CashOf(rows), every)
      BY <2>3, TotalIsSum DEF Aggregates
    <2>7. LET daily == DailyReturns(rows, trades)
          IN  SumFunction([d \in DOMAIN daily |-> daily[d].pnl])
                = SumFunctionOnSet(CashOf(rows), trades)
      BY <2>3, DaysSumToTotal
    <2>8. /\ Cardinality(Wins(rows, trades)) <= Cardinality(TrackerWins(rows, s))
          /\ trades = every
               => Cardinality(Wins(rows, trades)) = Cardinality(TrackerWins(rows, s))
      BY WinsArePairs
    <2>9. Cardinality(trades) = Cardinality(every) => trades = every
      BY <2>3, <2>4, FS_Subset
    <2> HIDE DEF trades, every
    <2> QED
      BY <2>2, <2>5, <2>6, <2>7, <2>8, <2>9
  <1> QED
    BY <1>1 DEF RecordsAgree

-----------------------------------------------------------------------------
(* The profit of a day                                                     *)

Positions == [TradedSymbols -> [quantity : Nat, cost : Int]]
Reports == [positions : Positions, realized_pnl : Int, total_bought : Int,
            total_sold : Int, total_commission : Int]

After(pos, row) ==
    IF row.side = "buy"
    THEN [quantity |-> pos.quantity + row.quantity, cost |-> CostAfterBuy(pos, row)]
    ELSE [quantity |-> pos.quantity - SellQuantity(pos, row),
          cost |-> pos.cost - CostBasis(pos, row)]

(* What a trade is sold for, less what that part of the position had cost. *)
Margin(pos, row) == IF row.side = "sell" THEN Amount(row) - CostBasis(pos, row) ELSE 0

OnDay(row, date, amount) == IF row.day = date THEN amount ELSE 0

LEMMA BasisType ==
  ASSUME NEW pos \in [quantity : Nat, cost : Int], NEW row \in TradeRow
  PROVE  /\ SellQuantity(pos, row) \in Nat /\ SellQuantity(pos, row) <= pos.quantity
         /\ CostBasis(pos, row) \in Int
         /\ Margin(pos, row) \in Int
         /\ After(pos, row) \in [quantity : Nat, cost : Int]
  <1>1. pos.quantity \in Nat /\ pos.cost \in Int /\ row.quantity \in Nat
    BY RowTypes
  <1>2. SellQuantity(pos, row) \in Nat /\ SellQuantity(pos, row) <= pos.quantity
    BY <1>1 DEF SellQuantity
  <1>3. CostBasis(pos, row) \in Int
    <2>1. PICK q \in Nat, c \in Int, s \in Nat :
             q = pos.quantity /\ c = pos.cost /\ s = SellQuantity(pos, row)
      BY <1>1, <1>2
    <2>2. PICK t \in Int : t = c * s
      OBVIOUS
    <2>3. q # 0 => t \div q \in Int
      OBVIOUS
    <2> QED
      BY <2>1, <2>2, <2>3 DEF CostBasis
  <1>4. Amount(row) \in Nat
    BY RowAmounts
  <1>5. After(pos, row) \in [quantity : Nat, cost : Int]
    <2>1. pos.quantity + row.quantity \in Nat /\ CostAfterBuy(pos, row) \in Int
      BY <1>1, <1>4 DEF CostAfterBuy
    <2>2. pos.quantity - SellQuantity(pos, row) \in Nat
      BY <1>1, <1>2
    <2>3. pos.cost - CostBasis(pos, row) \in Int
      BY <1>1, <1>3
    <2> QED
      BY <2>1, <2>2, <2>3 DEF After
  <1> QED
    BY <1>2, <1>3, <1>4, <1>5 DEF Margin

(* What one row does to the report.                                        *)
Replayed(r, row, date) ==
    LET pos == r.positions[row.symbol]
    IN [positions |-> [r.positions EXCEPT ![row.symbol] = After(pos, row)],
        realized_pnl |-> r.realized_pnl + OnDay(row, date, Margin(pos, row)),
        total_bought |-> r.total_bought + OnDay(row, date, On("buy", row)),
        total_sold |-> r.total_sold + OnDay(row, date, On("sell", row)),
        total_commission |-> r.total_commission + OnDay(row, date, Fee(row))]

LEMMA ReplayTypes ==
  ASSUME NEW r \in Reports, NEW row \in TradeRow, NEW date
  PROVE  Replayed(r, row, date) \in Reports
  <1>1. /\ r.positions \in Positions /\ r.realized_pnl \in Int /\ r.total_bought \in Int
        /\ r.total_sold \in Int /\ r.total_commission \in Int
    BY DEF Reports
  <1>2. PICK pos \in [quantity : Nat, cost : Int] : pos = r.positions[row.symbol]
    BY <1>1, RowTypes DEF Positions
  <1>3. /\ After(pos, row) \in [quantity : Nat, cost : Int] /\ Margin(pos, row) \in Int
        /\ On("buy", row) \in Int /\ On("sell", row) \in Int /\ Fee(row) \in Int
    BY BasisType, RowAmounts
  <1>4. [r.positions EXCEPT ![row.symbol] = After(pos, row)] \in Positions
    BY <1>1, <1>3 DEF Positions
  <1>5. /\ OnDay(row, date, Margin(pos, row)) \in Int /\ OnDay(row, date, On("buy", row)) \in Int
        /\ OnDay(row, date, On("sell", row)) \in Int /\ OnDay(row, date, Fee(row)) \in Int
    BY <1>3 DEF OnDay
  <1> QED
    BY <1>1, <1>2, <1>4, <1>5 DEF Replayed, Reports

LEMMA ReplayIsReplayed ==
  ASSUME NEW r \in Reports, NEW row \in TradeRow, NEW date
  PROVE  Replay(r, row, date) = Replayed(r, row, date)
  <1>1. PICK pos, p, a, b, c, d :
           /\ r = [positions |-> p, realized_pnl |-> a, total_bought |-> b,
                   total_sold |-> c, total_commission |-> d]
           /\ pos = p[row.symbol] /\ p \in Positions
           /\ a \in Int /\ b \in Int /\ c \in Int /\ d \in Int
    BY DEF Reports
  <1>2. Replay(r, row, date)
          = LET after == After(pos, row)
                replayed == [r EXCEPT !.positions[row.symbol] = after]
            IN IF row.day # date THEN replayed
               ELSE [replayed EXCEPT
                       !.realized_pnl = @ + Margin(pos, row),
                       !.total_bought = @ + On("buy", row),
                       !.total_sold = @ + On("sell", row),
                       !.total_commission = @ + Fee(row)]
    BY <1>1 DEF Replay, After, Margin
  <1>3. PICK after, gain, bought, sold, fee :
           /\ after = After(pos, row) /\ gain = Margin(pos, row)
           /\ bought = On("buy", row) /\ sold = On("sell", row) /\ fee = Fee(row)
    OBVIOUS
  <1>4. CASE row.day # date
    <2>1. Replay(r, row, date) = [r EXCEPT !.positions[row.symbol] = after]
      BY <1>2, <1>3, <1>4
    <2>2. Replayed(r, row, date)
            = [positions |-> [p EXCEPT ![row.symbol] = after],
               realized_pnl |-> a, total_bought |-> b, total_sold |-> c,
               total_commission |-> d]
      BY <1>1, <1>3, <1>4 DEF Replayed, OnDay
    <2> QED
      BY <1>1, <2>1, <2>2
  <1>5. CASE row.day = date
    <2>1. Replay(r, row, date)
            = [[r EXCEPT !.positions[row.symbol] = after] EXCEPT
                 !.realized_pnl = @ + gain, !.total_bought = @ + bought,
                 !.total_sold = @ + sold, !.total_commission = @ + fee]
      BY <1>2, <1>3, <1>5
    <2>2. Replayed(r, row, date)
            = [positions |-> [p EXCEPT ![row.symbol] = after],
               realized_pnl |-> a + gain, total_bought |-> b + bought,
               total_sold |-> c + sold, total_commission |-> d + fee]
      BY <1>1, <1>3, <1>5 DEF Replayed, OnDay
    <2>3. [r EXCEPT !.positions[row.symbol] = after]
            = [positions |-> [p EXCEPT ![row.symbol] = after],
               realized_pnl |-> a, total_bought |-> b, total_sold |-> c,
               total_commission |-> d]
      BY <1>1
    <2> QED
      BY <2>1, <2>2, <2>3
  <1> QED
    BY <1>4, <1>5

(* The day's report, row by row.                                           *)
ReadRow(r, row, date) == IF IsRead(row, date) THEN Replay(r, row, date) ELSE r

ReportDone(rows, date, g) ==
    g = [U \in SUBSET (DOMAIN rows) |->
           IF U = {} THEN NothingYet
           ELSE IF IsRead(rows[Max(U)], date)
                THEN Replay(g[U \ {Max(U)}], rows[Max(U)], date)
                ELSE g[U \ {Max(U)}]]

ReportOf(rows, date) ==
    FoldLeft(LAMBDA r, row : IF IsRead(row, date) THEN Replay(r, row, date) ELSE r,
             NothingYet, rows)

LEMMA ReportUnfolds ==
  ASSUME NEW rows, NEW date
  PROVE  ReportOf(rows, date) = (CHOOSE g : ReportDone(rows, date, g))[DOMAIN rows]
  BY DEF ReportOf, FoldLeft, MapThenFoldSet, ReportDone

ReportSteps(rows, date, n, h) ==
    /\ h[0] = NothingYet
    /\ \A i \in 1 .. n : h[i] = ReadRow(h[i - 1], rows[i], date)
    /\ \A i \in 0 .. n : h[i] \in Reports
    /\ ReportOf(rows, date) = h[n]

LEMMA NothingIsAReport == NothingYet \in Reports
  BY DEF NothingYet, NoPosition, Reports, Positions

LEMMA ReportUnrolls ==
  ASSUME NEW n \in Nat, NEW rows \in Seq(TradeRow), Len(rows) = n, NEW date
  PROVE  \E h : ReportSteps(rows, date, n, h)
  <1> DEFINE F == [p \in (1 .. n) \X Reports |-> ReadRow(p[2], rows[p[1]], date)]
             g == CHOOSE g : ReportDone(rows, date, g)
             h == [i \in 0 .. n |-> g[1 .. i]]
  <1>0. DOMAIN rows = 1 .. n /\ \A i \in 1 .. n : rows[i] \in TradeRow
    OBVIOUS
  <1>1. ASSUME NEW r \in Reports, NEW i \in 1 .. n
        PROVE  ReadRow(r, rows[i], date) \in Reports
    BY <1>0, ReplayTypes, ReplayIsReplayed DEF ReadRow
  <1>2. F \in StepFunctions(n, Reports)
    BY <1>1 DEF StepFunctions
  <1>3. PICK e : Folded(n, Reports, NothingYet, F, e)
    BY <1>2, NothingIsAReport, FoldExists
  <1>4. ReportDone(rows, date, e)
    <2>1. ASSUME NEW U \in SUBSET (1 .. n), U # {}
          PROVE  e[U] = ReadRow(e[U \ {Max(U)}], rows[Max(U)], date)
      <3>1. Max(U) \in 1 .. n
        BY <2>1, MaxIsLargest
      <3>2. e[U \ {Max(U)}] \in Reports
        BY <1>3 DEF Folded
      <3>3. e[U] = F[<<Max(U), e[U \ {Max(U)}]>>]
        BY <1>3, <2>1 DEF Folded, FoldStep
      <3>4. <<Max(U), e[U \ {Max(U)}]>> \in (1 .. n) \X Reports
        BY <3>1, <3>2
      <3> QED
        BY <3>3, <3>4
    <2>2. e[{}] = NothingYet
      BY <1>3 DEF Folded, FoldStep
    <2>3. e \in [SUBSET (1 .. n) -> Reports]
      BY <1>3 DEF Folded
    <2> QED
      BY <1>0, <2>1, <2>2, <2>3 DEF ReportDone, ReadRow
  <1>5. ReportDone(rows, date, g)
    BY <1>4
  <1>6. ReportOf(rows, date) = g[1 .. n]
    BY <1>0, ReportUnfolds
  <1> HIDE DEF g
  <1>7. h[0] = NothingYet
    <2>1. h[0] = g[1 .. 0] /\ 1 .. 0 = {}
      OBVIOUS
    <2> QED
      BY <1>5, <2>1 DEF ReportDone
  <1>8. ASSUME NEW i \in 1 .. n
        PROVE  h[i] = ReadRow(h[i - 1], rows[i], date)
    <2>0. i \in Nat \ {0} /\ 1 .. i \in SUBSET (1 .. n) /\ 1 .. i # {}
      OBVIOUS
    <2>1. Max(1 .. i) = i /\ (1 .. i) \ {Max(1 .. i)} = 1 .. i - 1
      BY <2>0, MaxOfPrefix
    <2>2. g[1 .. i] = ReadRow(g[1 .. i - 1], rows[i], date)
      BY <1>0, <1>5, <2>0, <2>1 DEF ReportDone, ReadRow
    <2>3. h[i] = g[1 .. i] /\ h[i - 1] = g[1 .. i - 1]
      OBVIOUS
    <2> QED
      BY <2>2, <2>3
  <1>9. ReportOf(rows, date) = h[n]
    BY <1>6
  <1> HIDE DEF h
  <1>10. \A i \in 1 .. n : h[i - 1] \in Reports => h[i] \in Reports
    BY <1>1, <1>8
  <1>11. \A i \in 0 .. n : h[i] \in Reports
    BY <1>7, <1>10, NothingIsAReport, AlongPrefixes
  <1> QED
    BY <1>7, <1>8, <1>9, <1>11 DEF ReportSteps

Steps(rows, date) == CHOOSE h : ReportSteps(rows, date, Len(rows), h)

(* The positions after each row, as a replay of the last day finds them.   *)
PositionsAt(rows) ==
    [i \in 0 .. Len(rows) |-> Steps(rows, rows[Len(rows)].day)[i].positions]

MarginOf(rows) ==
    [i \in DOMAIN rows |-> Margin(PositionsAt(rows)[i - 1][rows[i].symbol], rows[i])]

(* What the first i rows of a day sum to.                                  *)
OfDay(f, rows, date, i) == SumFunctionOnSet(f, Part(1 .. i, DayOf(rows), date))

LEMMA StepsOf ==
  ASSUME NEW rows \in Seq(TradeRow), NEW date
  PROVE  ReportSteps(rows, date, Len(rows), Steps(rows, date))
  <1>1. PICK n \in Nat : n = Len(rows)
    OBVIOUS
  <1>2. \E h : ReportSteps(rows, date, n, h)
    BY <1>1, ReportUnrolls
  <1> QED
    BY <1>1, <1>2 DEF Steps

LEMMA PositionsChange ==
  ASSUME NEW rows, IsTable(rows), NEW n \in Nat, n = Len(rows)
  PROVE  LET P == PositionsAt(rows)
         IN  /\ P[0] = [s \in TradedSymbols |-> NoPosition]
             /\ \A i \in 0 .. n : P[i] \in Positions
             /\ \A i \in 1 .. n :
                  P[i] = [P[i - 1] EXCEPT
                            ![rows[i].symbol] = After(P[i - 1][rows[i].symbol], rows[i])]
  <1> DEFINE date == rows[n].day
             h == Steps(rows, date)
             P == PositionsAt(rows)
  <1>1. rows \in Seq(TradeRow) /\ DOMAIN rows = 1 .. n
        /\ \A i \in 1 .. n : rows[i] \in TradeRow /\ rows[i].day <= rows[n].day
    <2>1. rows \in Seq(TradeRow) /\ DOMAIN rows = 1 .. n
      BY DEF IsTable
    <2>2. ASSUME NEW i \in 1 .. n PROVE rows[i] \in TradeRow /\ rows[i].day <= rows[n].day
      <3>1. rows[i] \in TradeRow /\ rows[i].day \in Nat
        BY <2>1, RowTypes
      <3>2. CASE i = n
        BY <3>1, <3>2
      <3>3. CASE i # n
        <4>1. i < n /\ i \in DOMAIN rows /\ n \in DOMAIN rows
          BY <2>1, <3>3
        <4> QED
          BY <3>1, <4>1 DEF IsTable
      <3> QED
        BY <3>2, <3>3
    <2> QED
      BY <2>1, <2>2
  <1>2. /\ h[0] = NothingYet
        /\ \A i \in 1 .. n : h[i] = ReadRow(h[i - 1], rows[i], date)
        /\ \A i \in 0 .. n : h[i] \in Reports
    BY <1>1, StepsOf DEF ReportSteps
  <1>3. \A i \in 0 .. n : P[i] = h[i].positions
    BY DEF PositionsAt
  <1> HIDE DEF h, P
  <1>4. P[0] = [s \in TradedSymbols |-> NoPosition]
    BY <1>2, <1>3 DEF NothingYet
  <1>5. \A i \in 0 .. n : P[i] \in Positions
    BY <1>2, <1>3 DEF Reports
  <1>6. ASSUME NEW i \in 1 .. n
        PROVE  P[i] = [P[i - 1] EXCEPT
                         ![rows[i].symbol] = After(P[i - 1][rows[i].symbol], rows[i])]
    <2>1. i - 1 \in 0 .. n /\ i \in 0 .. n
      OBVIOUS
    <2>2. h[i] = Replayed(h[i - 1], rows[i], date)
      <3>1. IsRead(rows[i], date)
        BY <1>1 DEF IsRead
      <3> QED
        BY <1>1, <1>2, <2>1, <3>1, ReplayIsReplayed DEF ReadRow
    <2> QED
      BY <1>3, <2>1, <2>2 DEF Replayed
  <1> QED
    BY <1>4, <1>5, <1>6 DEF P

LEMMA DayGrows ==
  ASSUME NEW rows \in Seq(TradeRow), NEW f, \A j \in DOMAIN rows : f[j] \in Int,
         NEW i \in 1 .. Len(rows), NEW date
  PROVE  /\ OfDay(f, rows, date, i) = OfDay(f, rows, date, i - 1) + OnDay(rows[i], date, f[i])
         /\ OfDay(f, rows, date, i) \in Int /\ OfDay(f, rows, date, i - 1) \in Int
  <1> DEFINE key == DayOf(rows)
             U == Part(1 .. i, key, date)
             V == Part(1 .. i - 1, key, date)
  <1>1. PICK n \in Nat : n = Len(rows) /\ DOMAIN rows = 1 .. n
    OBVIOUS
  <1>2. 1 .. i = (1 .. i - 1) \cup {i} /\ i \notin 1 .. i - 1 /\ 1 .. i \subseteq 1 .. n
    BY <1>1
  <1>3. IsFiniteSet(1 .. i) /\ U \in SUBSET (1 .. i) /\ V \in SUBSET (1 .. i)
    <2>1. IsFiniteSet(1 .. i)
      BY FS_Interval
    <2> QED
      BY <1>2, <2>1 DEF Part
  <1>4. IsFiniteSet(U) /\ IsFiniteSet(V) /\ \A j \in U \cup V : f[j] \in Int
    BY <1>1, <1>2, <1>3, FS_Subset
  <1>5. SumFunctionOnSet(f, U) \in Int /\ SumFunctionOnSet(f, V) \in Int
    BY <1>4, SumIsInt
  <1>6. key[i] = rows[i].day
    BY <1>1, <1>2 DEF DayOf
  <1>7. CASE rows[i].day = date
    <2>1. i \in U /\ U \ {i} = V
      BY <1>2, <1>6, <1>7 DEF Part
    <2>2. SumFunctionOnSet(f, U) = f[i] + SumFunctionOnSet(f, V)
      <3> HIDE DEF U, V
      <3>1. SumFunctionOnSet(f, U) = f[i] + SumFunctionOnSet(f, U \ {i})
        BY <1>4, <2>1, SumRemove
      <3> QED
        BY <2>1, <3>1
    <2>3. f[i] \in Int
      BY <1>4, <2>1
    <2> QED
      BY <1>5, <1>7, <2>2, <2>3 DEF OfDay, OnDay
  <1>8. CASE rows[i].day # date
    <2>1. U = V
      BY <1>2, <1>6, <1>8 DEF Part
    <2> QED
      BY <1>5, <1>8, <2>1 DEF OfDay, OnDay
  <1> QED
    BY <1>7, <1>8

LEMMA NothingOfDay ==
  ASSUME NEW f, NEW rows, NEW date
  PROVE  OfDay(f, rows, date, 0) = 0
  <1>1. Part(1 .. 0, DayOf(rows), date) = {}
    BY DEF Part
  <1> QED
    BY <1>1, SumOfNone DEF OfDay

LEMMA MarginTypes ==
  ASSUME NEW rows, IsTable(rows)
  PROVE  \A i \in DOMAIN rows : MarginOf(rows)[i] \in Int
  <1>1. PICK n \in Nat : n = Len(rows) /\ DOMAIN rows = 1 .. n /\ rows \in Seq(TradeRow)
    BY DEF IsTable
  <1>2. ASSUME NEW i \in 1 .. n PROVE MarginOf(rows)[i] \in Int
    <2>1. i - 1 \in 0 .. n /\ rows[i] \in TradeRow
      BY <1>1
    <2>2. PositionsAt(rows)[i - 1] \in Positions
      BY <1>1, <2>1, PositionsChange
    <2>3. PositionsAt(rows)[i - 1][rows[i].symbol] \in [quantity : Nat, cost : Int]
      BY <2>1, <2>2, RowTypes DEF Positions
    <2> QED
      BY <1>1, <2>1, <2>3, BasisType DEF MarginOf
  <1> QED
    BY <1>1, <1>2

(* What is read of one day includes all rows of the days before.           *)
LEMMA RowBefore ==
  ASSUME NEW rows, IsTable(rows), NEW date \in Nat, NEW i \in 1 .. Len(rows),
         rows[i].day <= date
  PROVE  i - 1 = 0 \/ rows[i - 1].day <= date
  <1> SUFFICES ASSUME i - 1 # 0 PROVE rows[i - 1].day <= date
    OBVIOUS
  <1>1. rows \in Seq(TradeRow) /\ DOMAIN rows = 1 .. Len(rows)
    BY DEF IsTable
  <1>2. i \in DOMAIN rows /\ i - 1 \in DOMAIN rows /\ i - 1 < i
    BY <1>1
  <1>3. rows[i - 1].day <= rows[i].day
    BY <1>2 DEF IsTable
  <1>4. rows[i - 1].day \in Nat /\ rows[i].day \in Nat
    BY <1>1, <1>2, RowTypes
  <1> QED
    BY <1>3, <1>4

(* Up to a day, its replay finds the positions every later one finds.      *)
LEMMA PositionsRead ==
  ASSUME NEW rows, IsTable(rows), NEW date \in Nat, NEW n \in Nat, n = Len(rows)
  PROVE  \A i \in 0 .. n : (i = 0 \/ rows[i].day <= date)
            => Steps(rows, date)[i].positions = PositionsAt(rows)[i]
  <1> DEFINE h == Steps(rows, date)
             P == PositionsAt(rows)
             T == {i \in 0 .. n : (i = 0 \/ rows[i].day <= date) => h[i].positions = P[i]}
  <1>1. rows \in Seq(TradeRow) /\ DOMAIN rows = 1 .. n
    BY DEF IsTable
  <1>2. /\ h[0] = NothingYet
        /\ \A i \in 1 .. n : h[i] = ReadRow(h[i - 1], rows[i], date)
        /\ \A i \in 0 .. n : h[i] \in Reports
    BY <1>1, StepsOf DEF ReportSteps
  <1>3. /\ P[0] = [s \in TradedSymbols |-> NoPosition]
        /\ \A i \in 1 .. n :
             P[i] = [P[i - 1] EXCEPT
                       ![rows[i].symbol] = After(P[i - 1][rows[i].symbol], rows[i])]
    BY PositionsChange
  <1> HIDE DEF h, P
  <1>4. 0 \in T
    BY <1>2, <1>3 DEF NothingYet
  <1>5. ASSUME NEW i \in 1 .. n, i - 1 \in T PROVE i \in T
    <2>1. /\ i - 1 \in 0 .. n /\ i \in 0 .. n /\ i \in DOMAIN rows
          /\ rows[i] \in TradeRow /\ rows[i].day \in Nat /\ h[i - 1] \in Reports
      BY <1>1, <1>2, RowTypes
    <2>2. SUFFICES ASSUME rows[i].day <= date PROVE h[i].positions = P[i]
      BY <2>1
    <2>3. i - 1 = 0 \/ rows[i - 1].day <= date
      BY <2>2, RowBefore
    <2>4. h[i - 1].positions = P[i - 1]
      BY <1>5, <2>3
    <2>5. h[i] = Replayed(h[i - 1], rows[i], date)
      <3>1. IsRead(rows[i], date)
        BY <2>2 DEF IsRead
      <3> QED
        BY <1>2, <2>1, <3>1, ReplayIsReplayed DEF ReadRow
    <2> QED
      BY <1>3, <2>4, <2>5 DEF Replayed
  <1>6. T = 0 .. n
    <2>1. T \in SUBSET (0 .. n)
      OBVIOUS
    <2> HIDE DEF T
    <2> QED
      BY <1>4, <1>5, <2>1, PrefixInduction
  <1> QED
    BY <1>6 DEF h, P

(* A day's replay sums what the rows of that day bought, sold, cost and    *)
(* gained, from the positions that every later replay finds as well.       *)
LEMMA ReportIsSum ==
  ASSUME NEW rows, IsTable(rows), NEW date \in Nat
  PROVE  LET n == Len(rows)
             report == ReportOf(rows, date)
         IN  /\ report.total_bought = OfDay(BoughtBy(rows), rows, date, n)
             /\ report.total_sold = OfDay(SoldBy(rows), rows, date, n)
             /\ report.total_commission = OfDay(FeeOf(rows), rows, date, n)
             /\ report.realized_pnl = OfDay(MarginOf(rows), rows, date, n)
             /\ report \in Reports
  <1> DEFINE h == Steps(rows, date)
             P == PositionsAt(rows)
             bought(i) == OfDay(BoughtBy(rows), rows, date, i)
             sold(i) == OfDay(SoldBy(rows), rows, date, i)
             fees(i) == OfDay(FeeOf(rows), rows, date, i)
             gained(i) == OfDay(MarginOf(rows), rows, date, i)
             Claim(i) == /\ h[i].total_bought = bought(i)
                         /\ h[i].total_sold = sold(i)
                         /\ h[i].total_commission = fees(i)
                         /\ h[i].realized_pnl = gained(i)
  <1>1. PICK n \in Nat : n = Len(rows) /\ DOMAIN rows = 1 .. n /\ rows \in Seq(TradeRow)
    BY DEF IsTable
  <1>2. /\ h[0] = NothingYet
        /\ \A i \in 1 .. n : h[i] = ReadRow(h[i - 1], rows[i], date)
        /\ \A i \in 0 .. n : h[i] \in Reports
        /\ ReportOf(rows, date) = h[n]
    BY <1>1, StepsOf DEF ReportSteps
  <1>3. \A i \in 0 .. n : (i = 0 \/ rows[i].day <= date) => h[i].positions = P[i]
    BY <1>1, PositionsRead
  <1> HIDE DEF h, P
  <1>4. Claim(0)
    BY <1>2, NothingOfDay DEF NothingYet
  <1>5. ASSUME NEW i \in 1 .. n, Claim(i - 1) PROVE Claim(i)
    <2>0. i - 1 \in 0 .. n /\ i \in DOMAIN rows /\ rows[i] \in TradeRow /\ rows[i].day \in Nat
          /\ h[i - 1] \in Reports
      BY <1>1, <1>2, RowTypes
    <2>1. PICK row \in TradeRow : row = rows[i]
      BY <2>0
    <2>2. /\ bought(i) = bought(i - 1) + OnDay(row, date, BoughtBy(rows)[i])
          /\ sold(i) = sold(i - 1) + OnDay(row, date, SoldBy(rows)[i])
          /\ fees(i) = fees(i - 1) + OnDay(row, date, FeeOf(rows)[i])
          /\ gained(i) = gained(i - 1) + OnDay(row, date, MarginOf(rows)[i])
          /\ bought(i - 1) \in Int /\ sold(i - 1) \in Int
          /\ fees(i - 1) \in Int /\ gained(i - 1) \in Int
      BY <1>1, <2>1, TableTypes, MarginTypes, DayGrows
    <2>3. /\ BoughtBy(rows)[i] = On("buy", row) /\ SoldBy(rows)[i] = On("sell", row)
          /\ FeeOf(rows)[i] = Fee(row)
          /\ MarginOf(rows)[i] = Margin(P[i - 1][row.symbol], row)
      BY <2>0, <2>1 DEF BoughtBy, SoldBy, FeeOf, MarginOf, P
    <2>4. CASE row.day <= date
      <3>1. rows[i].day <= date
        BY <2>1, <2>4
      <3>2. h[i - 1].positions = P[i - 1]
        <4>1. i - 1 = 0 \/ rows[i - 1].day <= date
          BY <1>1, <3>1, RowBefore
        <4> QED
          BY <1>3, <2>0, <4>1
      <3>3. h[i] = Replayed(h[i - 1], row, date)
        <4>1. h[i] = ReadRow(h[i - 1], row, date)
          BY <1>2, <2>1
        <4>2. IsRead(row, date)
          BY <2>4 DEF IsRead
        <4> QED
          BY <2>0, <4>1, <4>2, ReplayIsReplayed DEF ReadRow
      <3>4. /\ h[i].total_bought = h[i - 1].total_bought + OnDay(row, date, On("buy", row))
            /\ h[i].total_sold = h[i - 1].total_sold + OnDay(row, date, On("sell", row))
            /\ h[i].total_commission = h[i - 1].total_commission + OnDay(row, date, Fee(row))
            /\ h[i].realized_pnl
                 = h[i - 1].realized_pnl + OnDay(row, date, Margin(P[i - 1][row.symbol], row))
        BY <3>2, <3>3 DEF Replayed
      <3> QED
        BY <1>5, <2>2, <2>3, <3>4
    <2>5. CASE ~(row.day <= date)
      <3>1. row.day # date
        BY <2>5
      <3>2. h[i] = h[i - 1]
        BY <1>2, <2>1, <2>5 DEF ReadRow, IsRead
      <3>3. \A x : OnDay(row, date, x) = 0
        BY <3>1 DEF OnDay
      <3> QED
        BY <1>5, <2>1, <2>2, <2>5, <3>2, <3>3
    <2> QED
      BY <2>4, <2>5
  <1> DEFINE T == {i \in 0 .. n : Claim(i)}
  <1>6. T = 0 .. n
    <2>1. 0 \in T
      BY <1>4
    <2>2. \A i \in 1 .. n : i - 1 \in T => i \in T
      <3>1. \A i \in 1 .. n : i - 1 \in T => Claim(i - 1)
        OBVIOUS
      <3> HIDE DEF Claim
      <3> QED
        BY <1>5, <3>1
    <2>3. T \in SUBSET (0 .. n)
      OBVIOUS
    <2> HIDE DEF T
    <2> QED
      BY <2>1, <2>2, <2>3, PrefixInduction
  <1>7. n \in T
    BY <1>6
  <1>8. Claim(n)
    BY <1>7
  <1> QED
    BY <1>1, <1>2, <1>8

(* What the days report of an amount sums to the amount of the table.      *)
LEMMA DaysSum ==
  ASSUME NEW rows \in Seq(TradeRow), NEW f, \A i \in DOMAIN rows : f[i] \in Int,
         NEW reported, DOMAIN reported = Days,
         \A d \in Days : reported[d] = OfDay(f, rows, d, Len(rows))
  PROVE  SumFunction(reported) = SumFunctionOnSet(f, DOMAIN rows)
  <1> DEFINE D == DOMAIN rows
             parts == [d \in Days |-> SumFunctionOnSet(f, Part(D, DayOf(rows), d))]
  <1>1. D = 1 .. Len(rows) /\ IsFiniteSet(D) /\ IsFiniteSet(Days)
    BY TableTypes, EvaluationAssumption
  <1>2. \A d \in Days : reported[d] = parts[d]
    BY <1>1 DEF OfDay
  <1>3. (\A i \in D : DayOf(rows)[i] \in Days) /\ (\A i \in D : f[i] \in Int)
    BY TableTypes, RowTypes DEF DayOf
  <1>4. IsFiniteSet(D) /\ IsFiniteSet(Days)
    BY <1>1
  <1> HIDE DEF D
  <1>5. SumFunctionOnSet(parts, Days) = SumFunctionOnSet(f, D)
    BY <1>3, <1>4, SumByParts
  <1>6. SumFunctionOnSet(reported, Days) = SumFunctionOnSet(parts, Days)
    <2> HIDE DEF parts
    <2> QED
      BY <1>1, <1>2, SumAgrees
  <1> QED
    BY <1>5, <1>6 DEF SumFunction, D

(* The flow of cash, day by day.                                           *)
LEMMA FlowsAddUp ==
  ASSUME NEW rows, IsTable(rows)
  PROVE  SumFunction([d \in Days |-> DailyPnl(rows, d).total_sold
                                       - DailyPnl(rows, d).total_bought
                                       - DailyPnl(rows, d).total_commission])
           = SumFunctionOnSet(CashOf(rows), DOMAIN rows)
  <1>1. rows \in Seq(TradeRow)
    BY DEF IsTable
  <1>2. PICK n \in Nat : n = Len(rows) /\ DOMAIN rows = 1 .. n
    BY <1>1
  <1>3. ASSUME NEW d \in Days
        PROVE  DailyPnl(rows, d).total_sold - DailyPnl(rows, d).total_bought
                 - DailyPnl(rows, d).total_commission = OfDay(CashOf(rows), rows, d, n)
    <2> DEFINE ids == Part(1 .. n, DayOf(rows), d)
               report == ReportOf(rows, d)
    <2>1. /\ DailyPnl(rows, d).total_sold = report.total_sold
          /\ DailyPnl(rows, d).total_bought = report.total_bought
          /\ DailyPnl(rows, d).total_commission = report.total_commission
      <3>1. DailyPnl(rows, d)
              = [report EXCEPT !.realized_pnl = @ - report.total_commission]
        BY DEF DailyPnl, ReportOf
      <3> HIDE DEF report
      <3>2. report \in Reports
        BY <1>1, EvaluationAssumption, ReportIsSum DEF report
      <3> QED
        BY <3>1, <3>2 DEF Reports
    <2>2. /\ report.total_bought = OfDay(BoughtBy(rows), rows, d, n)
          /\ report.total_sold = OfDay(SoldBy(rows), rows, d, n)
          /\ report.total_commission = OfDay(FeeOf(rows), rows, d, n)
      BY <1>2, EvaluationAssumption, ReportIsSum
    <2>3. ids \in SUBSET (DOMAIN rows)
      BY <1>2 DEF Part
    <2> QED
      BY <1>1, <2>1, <2>2, <2>3, CashAddsUp DEF OfDay
  <1> DEFINE reported == [d \in Days |-> DailyPnl(rows, d).total_sold
                                           - DailyPnl(rows, d).total_bought
                                           - DailyPnl(rows, d).total_commission]
  <1>4. DOMAIN reported = Days /\ \A d \in Days : reported[d] = OfDay(CashOf(rows), rows, d, n)
    BY <1>3
  <1> HIDE DEF reported
  <1>5. SumFunction(reported) = SumFunctionOnSet(CashOf(rows), DOMAIN rows)
    BY <1>1, <1>2, <1>4, TableTypes, DaysSum
  <1> QED
    BY <1>5 DEF reported

(* The realized profits, day by day.                                       *)
NetOf(rows) == [i \in DOMAIN rows |-> MarginOf(rows)[i] - FeeOf(rows)[i]]

LEMMA NetAddsUp ==
  ASSUME NEW rows, IsTable(rows), NEW ids \in SUBSET (DOMAIN rows)
  PROVE  /\ \A i \in DOMAIN rows : NetOf(rows)[i] \in Int
         /\ SumFunctionOnSet(NetOf(rows), ids)
              = SumFunctionOnSet(MarginOf(rows), ids) - SumFunctionOnSet(FeeOf(rows), ids)
  <1> DEFINE gain == MarginOf(rows)
             fee == FeeOf(rows)
             net == NetOf(rows)
  <1>1. rows \in Seq(TradeRow) /\ IsFiniteSet(ids)
    BY TableTypes, FS_Subset DEF IsTable
  <1>2. \A i \in DOMAIN rows : /\ gain[i] \in Int /\ fee[i] \in Int
                               /\ net[i] \in Int /\ net[i] = gain[i] - fee[i]
    BY <1>1, TableTypes, MarginTypes DEF NetOf
  <1> HIDE DEF gain, fee, net
  <1>3. \A i \in ids : /\ gain[i] \in Int /\ fee[i] \in Int
                       /\ net[i] \in Int /\ gain[i] = net[i] + fee[i]
    BY <1>2
  <1>4. SumFunctionOnSet(gain, ids) = SumFunctionOnSet(net, ids) + SumFunctionOnSet(fee, ids)
    BY <1>1, <1>3, SumOfBoth
  <1>5. SumFunctionOnSet(net, ids) \in Int /\ SumFunctionOnSet(fee, ids) \in Int
    BY <1>1, <1>3, SumIsInt
  <1> QED
    BY <1>2, <1>4, <1>5 DEF gain, fee, net

LEMMA ProfitsAddUp ==
  ASSUME NEW rows, IsTable(rows)
  PROVE  SumFunction([d \in Days |-> DailyPnl(rows, d).realized_pnl])
           = SumFunctionOnSet(MarginOf(rows), DOMAIN rows)
             - SumFunctionOnSet(FeeOf(rows), DOMAIN rows)
  <1>1. rows \in Seq(TradeRow)
    BY DEF IsTable
  <1>2. PICK n \in Nat : n = Len(rows) /\ DOMAIN rows = 1 .. n
    BY <1>1
  <1>3. ASSUME NEW d \in Days
        PROVE  DailyPnl(rows, d).realized_pnl = OfDay(NetOf(rows), rows, d, n)
    <2> DEFINE ids == Part(1 .. n, DayOf(rows), d)
               report == ReportOf(rows, d)
    <2>1. DailyPnl(rows, d).realized_pnl = report.realized_pnl - report.total_commission
      <3>1. DailyPnl(rows, d)
              = [report EXCEPT !.realized_pnl = @ - report.total_commission]
        BY DEF DailyPnl, ReportOf
      <3> HIDE DEF report
      <3>2. report \in Reports
        BY <1>1, EvaluationAssumption, ReportIsSum DEF report
      <3> QED
        BY <3>1, <3>2 DEF Reports
    <2>2. /\ report.realized_pnl = OfDay(MarginOf(rows), rows, d, n)
          /\ report.total_commission = OfDay(FeeOf(rows), rows, d, n)
      BY <1>2, EvaluationAssumption, ReportIsSum
    <2>3. ids \in SUBSET (DOMAIN rows)
      BY <1>2 DEF Part
    <2> QED
      BY <1>1, <2>1, <2>2, <2>3, NetAddsUp DEF OfDay
  <1> DEFINE reported == [d \in Days |-> DailyPnl(rows, d).realized_pnl]
  <1>4. DOMAIN reported = Days /\ \A d \in Days : reported[d] = OfDay(NetOf(rows), rows, d, n)
    BY <1>3
  <1> HIDE DEF reported
  <1>5. \A i \in DOMAIN rows : NetOf(rows)[i] \in Int
    BY NetAddsUp
  <1>6. SumFunction(reported) = SumFunctionOnSet(NetOf(rows), DOMAIN rows)
    BY <1>1, <1>2, <1>4, <1>5, DaysSum
  <1> QED
    BY <1>6, NetAddsUp DEF reported

(* What the positions have cost is what was bought less what of it was     *)
(* sold.                                                                   *)
CostOf(P) == [s \in TradedSymbols |-> P[s].cost]
PaidFor(rows) == [i \in DOMAIN rows |-> BoughtBy(rows)[i] - SoldBy(rows)[i] + MarginOf(rows)[i]]

LEMMA CostChanges ==
  ASSUME NEW P \in Positions, NEW Q \in Positions, NEW s \in TradedSymbols, NEW pos,
         Q = [P EXCEPT ![s] = pos]
  PROVE  /\ SumFunctionOnSet(CostOf(Q), TradedSymbols)
              = SumFunctionOnSet(CostOf(P), TradedSymbols) + Q[s].cost - P[s].cost
         /\ SumFunctionOnSet(CostOf(P), TradedSymbols) \in Int
  <1>1. PICK e, f : e = CostOf(P) /\ f = CostOf(Q)
    OBVIOUS
  <1>2. \A x \in TradedSymbols : e[x] \in Int /\ f[x] \in Int
    BY <1>1 DEF CostOf, Positions
  <1>3. \A x \in TradedSymbols \ {s} : f[x] = e[x]
    BY <1>1 DEF CostOf, Positions
  <1>4. f[s] = Q[s].cost /\ e[s] = P[s].cost
    BY <1>1 DEF CostOf
  <1>5. IsFiniteSet(TradedSymbols)
    BY EvaluationAssumption
  <1>6. SumFunctionOnSet(f, TradedSymbols) = SumFunctionOnSet(e, TradedSymbols) + f[s] - e[s]
    BY <1>2, <1>3, <1>5, SumChange
  <1>7. SumFunctionOnSet(e, TradedSymbols) \in Int
    BY <1>2, <1>5, SumIsInt
  <1> QED
    BY <1>1, <1>4, <1>6, <1>7

LEMMA CostIsPaid ==
  ASSUME NEW rows, IsTable(rows), NEW n \in Nat, n = Len(rows)
  PROVE  SumFunctionOnSet(CostOf(PositionsAt(rows)[n]), TradedSymbols)
           = SumFunctionOnSet(PaidFor(rows), 1 .. n)
  <1> DEFINE P == PositionsAt(rows)
             paid == PaidFor(rows)
             cost(i) == SumFunctionOnSet(CostOf(P[i]), TradedSymbols)
             T == {i \in 0 .. n : cost(i) = SumFunctionOnSet(paid, 1 .. i)}
  <1>1. /\ P[0] = [s \in TradedSymbols |-> NoPosition]
        /\ \A i \in 0 .. n : P[i] \in Positions
        /\ \A i \in 1 .. n :
             P[i] = [P[i - 1] EXCEPT
                       ![rows[i].symbol] = After(P[i - 1][rows[i].symbol], rows[i])]
    BY PositionsChange
  <1>2. rows \in Seq(TradeRow) /\ DOMAIN rows = 1 .. n /\ \A i \in 1 .. n : rows[i] \in TradeRow
    BY DEF IsTable
  <1>3. \A i \in 1 .. n : paid[i] \in Int
    BY <1>2, TableTypes, MarginTypes DEF PaidFor
  <1>4. 0 \in T
    <2>1. \A s \in TradedSymbols : CostOf(P[0])[s] = 0
      BY <1>1 DEF CostOf, NoPosition
    <2>2. cost(0) = 0
      <3> HIDE DEF P
      <3> QED
        BY <2>1, SumOfZeros, EvaluationAssumption
    <2>3. 1 .. 0 = {} /\ SumFunctionOnSet(paid, {}) = 0
      BY SumOfNone
    <2> QED
      BY <2>2, <2>3
  <1>5. ASSUME NEW i \in 1 .. n PROVE cost(i) = cost(i - 1) + paid[i] /\ cost(i - 1) \in Int
    <2>1. PICK row \in TradeRow : row = rows[i]
      BY <1>2
    <2>2. i - 1 \in 0 .. n /\ i \in 0 .. n /\ row.symbol \in TradedSymbols
      BY <2>1, RowTypes
    <2>3. P[i - 1] \in Positions /\ P[i] \in Positions
      BY <1>1, <2>2
    <2> DEFINE pos == P[i - 1][row.symbol]
    <2>4. P[i] = [P[i - 1] EXCEPT ![row.symbol] = After(pos, row)]
      BY <1>1, <2>1
    <2>5. P[i][row.symbol] = After(pos, row)
      BY <2>2, <2>3, <2>4 DEF Positions
    <2>6. /\ cost(i) = cost(i - 1) + P[i][row.symbol].cost - pos.cost
          /\ cost(i - 1) \in Int
      <3> HIDE DEF pos, P
      <3>1. PICK before \in Positions, now \in Positions, x \in TradedSymbols :
               before = P[i - 1] /\ now = P[i] /\ x = row.symbol
        BY <2>2, <2>3
      <3>2. now = [before EXCEPT ![x] = After(pos, row)]
        BY <2>4, <3>1
      <3>3. /\ SumFunctionOnSet(CostOf(now), TradedSymbols)
                 = SumFunctionOnSet(CostOf(before), TradedSymbols) + now[x].cost - before[x].cost
            /\ SumFunctionOnSet(CostOf(before), TradedSymbols) \in Int
        BY <3>2, CostChanges
      <3>4. pos = before[x]
        BY <3>1 DEF pos
      <3> QED
        BY <3>1, <3>3, <3>4
    <2>8. paid[i] = On("buy", row) - On("sell", row) + Margin(pos, row)
      BY <1>2, <2>1 DEF PaidFor, BoughtBy, SoldBy, MarginOf
    <2>9. pos \in [quantity : Nat, cost : Int]
      BY <2>2, <2>3 DEF Positions
    <2>10. After(pos, row).cost = pos.cost + paid[i]
      <3> HIDE DEF pos, paid
      <3>1. /\ Amount(row) \in Int /\ CostBasis(pos, row) \in Int /\ pos.cost \in Int
            /\ row.side \in {"buy", "sell"}
        BY <2>9, RowAmounts, RowTypes, BasisType
      <3>2. CASE row.side = "buy"
        <4>1. /\ After(pos, row).cost = pos.cost + Amount(row)
              /\ On("buy", row) = Amount(row) /\ On("sell", row) = 0 /\ Margin(pos, row) = 0
          BY <3>2 DEF After, CostAfterBuy, On, Margin
        <4> QED
          BY <2>8, <3>1, <4>1
      <3>3. CASE row.side = "sell"
        <4>1. /\ After(pos, row).cost = pos.cost - CostBasis(pos, row)
              /\ On("buy", row) = 0 /\ On("sell", row) = Amount(row)
              /\ Margin(pos, row) = Amount(row) - CostBasis(pos, row)
          BY <3>3 DEF After, On, Margin
        <4> QED
          BY <2>8, <3>1, <4>1
      <3> QED
        BY <3>1, <3>2, <3>3
    <2>11. pos.cost \in Int /\ paid[i] \in Int
      BY <1>3, <2>9
    <2> HIDE DEF cost, paid, pos, P
    <2>12. PICK c \in Int, d \in Int, p \in Int :
              c = cost(i - 1) /\ d = pos.cost /\ p = paid[i]
      BY <2>6, <2>11
    <2>13. cost(i) = c + (d + p) - d
      BY <2>5, <2>6, <2>10, <2>12
    <2> QED
      BY <2>12, <2>13
  <1> HIDE DEF paid, P
  <1>6. ASSUME NEW i \in 1 .. n, i - 1 \in T PROVE i \in T
    <2>1. PICK k \in Nat : k = i - 1
      OBVIOUS
    <2>2. \A j \in 1 .. k : paid[j] \in Int
      BY <1>3, <2>1
    <2>3. paid[k + 1] \in Int
      BY <1>3, <2>1
    <2>4. SumFunctionOnSet(paid, 1 .. k + 1) = SumFunctionOnSet(paid, 1 .. k) + paid[k + 1]
      BY <2>2, <2>3, SumGrows
    <2>5. k + 1 = i
      BY <2>1
    <2>6. SumFunctionOnSet(paid, 1 .. i) = SumFunctionOnSet(paid, 1 .. i - 1) + paid[i]
      BY <2>1, <2>4, <2>5
    <2>7. cost(i - 1) = SumFunctionOnSet(paid, 1 .. i - 1)
      BY <1>6
    <2> HIDE DEF cost
    <2> QED
      BY <1>5, <2>6, <2>7
  <1>7. T = 0 .. n
    <2>1. T \in SUBSET (0 .. n)
      OBVIOUS
    <2> HIDE DEF T
    <2> QED
      BY <1>4, <1>6, <2>1, PrefixInduction
  <1>8. n \in T
    BY <1>7
  <1> QED
    BY <1>8 DEF P, paid

QuantityOf(rows) == [i \in DOMAIN rows |-> rows[i].quantity]
TradesOf(rows, i, s, side) ==
    {j \in 1 .. i : rows[j].symbol = s /\ rows[j].side = side}

LEMMA QuantityIsSum ==
  ASSUME NEW rows \in Seq(TradeRow), NEW i \in 0 .. Len(rows), NEW s, NEW side
  PROVE  /\ Quantity(rows, i, s, side)
              = SumFunctionOnSet(QuantityOf(rows), TradesOf(rows, i, s, side))
         /\ Quantity(rows, i, s, side) \in Int
         /\ IsFiniteSet(TradesOf(rows, i, s, side))
         /\ \A j \in TradesOf(rows, i, s, side) : QuantityOf(rows)[j] \in Int
  <1> DEFINE ids == TradesOf(rows, i, s, side)
             e == [j \in ids |-> rows[j].quantity]
  <1>1. ids \in SUBSET (1 .. i) /\ 1 .. i \subseteq DOMAIN rows
    BY DEF TradesOf
  <1>2. IsFiniteSet(ids)
    <2>1. IsFiniteSet(1 .. i)
      BY FS_Interval
    <2> QED
      BY <1>1, <2>1, FS_Subset
  <1>3. \A j \in ids : e[j] = QuantityOf(rows)[j] /\ QuantityOf(rows)[j] \in Int
    <2>1. ASSUME NEW j \in ids PROVE QuantityOf(rows)[j] = rows[j].quantity /\ rows[j].quantity \in Int
      <3>1. j \in DOMAIN rows /\ rows[j] \in TradeRow
        BY <1>1
      <3> QED
        BY <3>1, RowTypes DEF QuantityOf
    <2> QED
      BY <2>1
  <1>4. Quantity(rows, i, s, side) = SumFunctionOnSet(e, ids)
    BY DEF Quantity, Total, TradesOf
  <1> HIDE DEF ids, e
  <1>5. SumFunctionOnSet(e, ids) = SumFunctionOnSet(QuantityOf(rows), ids)
    BY <1>2, <1>3, SumAgrees
  <1>6. SumFunctionOnSet(QuantityOf(rows), ids) \in Int
    BY <1>2, <1>3, SumIsInt
  <1> QED
    BY <1>2, <1>3, <1>4, <1>5, <1>6 DEF ids

LEMMA QuantityGrows ==
  ASSUME NEW rows \in Seq(TradeRow), NEW i \in 1 .. Len(rows), NEW s, NEW side
  PROVE  Quantity(rows, i, s, side)
           = Quantity(rows, i - 1, s, side)
             + (IF rows[i].symbol = s /\ rows[i].side = side THEN rows[i].quantity ELSE 0)
  <1> DEFINE U == TradesOf(rows, i, s, side)
             V == TradesOf(rows, i - 1, s, side)
             f == QuantityOf(rows)
  <1>1. i - 1 \in 0 .. Len(rows) /\ i \in 0 .. Len(rows) /\ i \in DOMAIN rows
        /\ 1 .. i = (1 .. i - 1) \cup {i} /\ i \notin 1 .. i - 1
    OBVIOUS
  <1>2. /\ Quantity(rows, i, s, side) = SumFunctionOnSet(f, U)
        /\ Quantity(rows, i - 1, s, side) = SumFunctionOnSet(f, V)
        /\ SumFunctionOnSet(f, V) \in Int
        /\ IsFiniteSet(U) /\ \A j \in U : f[j] \in Int
    BY <1>1, QuantityIsSum
  <1>3. f[i] = rows[i].quantity
    BY <1>1 DEF QuantityOf
  <1>4. CASE rows[i].symbol = s /\ rows[i].side = side
    <2>1. i \in U /\ U \ {i} = V
      BY <1>1, <1>4 DEF TradesOf
    <2>2. f[i] \in Int
      BY <1>2, <2>1
    <2> HIDE DEF U, V, f
    <2>3. SumFunctionOnSet(f, U) = f[i] + SumFunctionOnSet(f, U \ {i})
      BY <1>2, <2>1, SumRemove
    <2>4. SumFunctionOnSet(f, U) = f[i] + SumFunctionOnSet(f, V)
      BY <2>1, <2>3
    <2>5. Quantity(rows, i, s, side) = f[i] + Quantity(rows, i - 1, s, side)
      BY <1>2, <2>4
    <2>6. Quantity(rows, i - 1, s, side) \in Int
      BY <1>2
    <2>7. Quantity(rows, i, s, side) = Quantity(rows, i - 1, s, side) + rows[i].quantity
      BY <1>3, <2>2, <2>5, <2>6
    <2> QED
      BY <1>4, <2>7
  <1>5. CASE ~(rows[i].symbol = s /\ rows[i].side = side)
    <2>1. U = V
      BY <1>1, <1>5 DEF TradesOf
    <2> QED
      BY <1>2, <1>5, <2>1
  <1> QED
    BY <1>4, <1>5

(* When no more is sold than was bought, a position holds the difference,  *)
(* and costs nothing once it is closed.                                    *)
HeldSoFar(rows, i, positions) ==
    \A s \in TradedSymbols :
       /\ positions[s].quantity = Quantity(rows, i, s, "buy") - Quantity(rows, i, s, "sell")
       /\ positions[s].quantity = 0 => positions[s].cost = 0

LEMMA HeldAfter ==
  ASSUME NEW pos \in [quantity : Nat, cost : Int], NEW row \in TradeRow,
         pos.quantity = 0 => pos.cost = 0,
         row.side = "sell" => row.quantity <= pos.quantity
  PROVE  /\ After(pos, row).quantity
              = pos.quantity + (IF row.side = "buy" THEN row.quantity ELSE 0)
                             - (IF row.side = "sell" THEN row.quantity ELSE 0)
         /\ After(pos, row).quantity = 0 => After(pos, row).cost = 0
  <1>1. /\ pos.quantity \in Nat /\ pos.cost \in Int /\ row.quantity \in Nat \ {0}
        /\ row.side \in {"buy", "sell"}
    BY RowTypes
  <1>2. CASE row.side = "buy"
    <2>1. After(pos, row).quantity = pos.quantity + row.quantity
      BY <1>2 DEF After
    <2> QED
      BY <1>1, <1>2, <2>1
  <1>3. CASE row.side = "sell"
    <2>1. SellQuantity(pos, row) = row.quantity
      BY <1>1, <1>3 DEF SellQuantity
    <2>2. After(pos, row).quantity = pos.quantity - row.quantity
          /\ After(pos, row).cost = pos.cost - CostBasis(pos, row)
      BY <1>3, <2>1 DEF After
    <2>3. ASSUME After(pos, row).quantity = 0 PROVE After(pos, row).cost = 0
      <3>1. pos.quantity = row.quantity /\ pos.quantity # 0
        BY <1>1, <2>2, <2>3
      <3>2. CostBasis(pos, row) = (pos.cost * pos.quantity) \div pos.quantity
        BY <2>1, <3>1 DEF CostBasis
      <3>3. PICK c \in Int, q \in Nat \ {0} : c = pos.cost /\ q = pos.quantity
        BY <1>1, <3>1
      <3>4. (c * q) \div q = c
        BY DivOfProduct
      <3>5. CostBasis(pos, row) = pos.cost
        BY <3>2, <3>3, <3>4
      <3> QED
        BY <1>1, <2>2, <3>5
    <2> QED
      BY <1>1, <1>3, <2>2, <2>3
  <1> QED
    BY <1>1, <1>2, <1>3

LEMMA ClosedCostNothing ==
  ASSUME NEW rows, IsTable(rows), CoveredSells(rows), NEW n \in Nat, n = Len(rows)
  PROVE  HeldSoFar(rows, n, PositionsAt(rows)[n])
  <1> DEFINE P == PositionsAt(rows)
             T == {i \in 0 .. n : HeldSoFar(rows, i, P[i])}
  <1>1. /\ P[0] = [s \in TradedSymbols |-> NoPosition]
        /\ \A i \in 0 .. n : P[i] \in Positions
        /\ \A i \in 1 .. n :
             P[i] = [P[i - 1] EXCEPT
                       ![rows[i].symbol] = After(P[i - 1][rows[i].symbol], rows[i])]
    BY PositionsChange
  <1>2. rows \in Seq(TradeRow) /\ DOMAIN rows = 1 .. n /\ \A i \in 1 .. n : rows[i] \in TradeRow
    BY DEF IsTable
  <1> HIDE DEF P
  <1>3. 0 \in T
    <2>1. ASSUME NEW s, NEW side PROVE Quantity(rows, 0, s, side) = 0
      <3>1. TradesOf(rows, 0, s, side) = {} /\ 0 \in 0 .. Len(rows)
        BY <1>2 DEF TradesOf
      <3>2. Quantity(rows, 0, s, side)
              = SumFunctionOnSet(QuantityOf(rows), TradesOf(rows, 0, s, side))
        BY <1>2, <3>1, QuantityIsSum
      <3> QED
        BY <3>1, <3>2, SumOfNone
    <2> QED
      BY <1>1, <2>1 DEF HeldSoFar, NoPosition
  <1>4. ASSUME NEW i \in 1 .. n, i - 1 \in T PROVE i \in T
    <2>1. PICK row \in TradeRow : row = rows[i]
      BY <1>2
    <2>2. /\ i - 1 \in 0 .. n /\ i \in 0 .. n /\ i \in DOMAIN rows
          /\ row.symbol \in TradedSymbols /\ row.side \in {"buy", "sell"}
          /\ row.quantity \in Nat \ {0}
      BY <1>2, <2>1, RowTypes
    <2>3. P[i - 1] \in Positions /\ HeldSoFar(rows, i - 1, P[i - 1])
      BY <1>1, <1>4, <2>2
    <2>4. ASSUME NEW s \in TradedSymbols
          PROVE  /\ P[i][s].quantity = Quantity(rows, i, s, "buy") - Quantity(rows, i, s, "sell")
                 /\ P[i][s].quantity = 0 => P[i][s].cost = 0
      <3> DEFINE pos == P[i - 1][s]
      <3>1. /\ pos \in [quantity : Nat, cost : Int]
            /\ pos.quantity
                 = Quantity(rows, i - 1, s, "buy") - Quantity(rows, i - 1, s, "sell")
            /\ pos.quantity = 0 => pos.cost = 0
        BY <2>3 DEF Positions, HeldSoFar
      <3>2. P[i] = [P[i - 1] EXCEPT ![row.symbol] = After(P[i - 1][row.symbol], row)]
        BY <1>1, <2>1
      <3>3. /\ Quantity(rows, i - 1, s, "buy") \in Int /\ Quantity(rows, i - 1, s, "sell") \in Int
            /\ Quantity(rows, i, s, "buy") \in Int /\ Quantity(rows, i, s, "sell") \in Int
        BY <1>2, <2>2, QuantityIsSum
      <3>4. /\ Quantity(rows, i, s, "buy")
                 = Quantity(rows, i - 1, s, "buy")
                   + (IF row.symbol = s /\ row.side = "buy" THEN row.quantity ELSE 0)
            /\ Quantity(rows, i, s, "sell")
                 = Quantity(rows, i - 1, s, "sell")
                   + (IF row.symbol = s /\ row.side = "sell" THEN row.quantity ELSE 0)
        BY <1>2, <2>1, QuantityGrows
      <3>5. Quantity(rows, i, s, "sell") <= Quantity(rows, i, s, "buy")
        BY <2>2 DEF CoveredSells
      <3>6. CASE row.symbol # s
        <4>1. P[i][s] = pos
          BY <2>3, <3>2, <3>6 DEF Positions
        <4>2. /\ Quantity(rows, i, s, "buy") = Quantity(rows, i - 1, s, "buy")
              /\ Quantity(rows, i, s, "sell") = Quantity(rows, i - 1, s, "sell")
          BY <3>3, <3>4, <3>6
        <4> QED
          BY <3>1, <4>1, <4>2
      <3>7. CASE row.symbol = s
        <4>1. P[i][s] = After(pos, row)
          BY <2>3, <3>2, <3>7 DEF Positions
        <4> HIDE DEF pos
        <4>2. pos.quantity \in Nat
          BY <3>1
        <4>3. row.side = "sell" => row.quantity <= pos.quantity
          BY <2>2, <3>1, <3>3, <3>4, <3>5, <3>7, <4>2
        <4>4. /\ After(pos, row).quantity
                   = pos.quantity + (IF row.side = "buy" THEN row.quantity ELSE 0)
                                  - (IF row.side = "sell" THEN row.quantity ELSE 0)
              /\ After(pos, row).quantity = 0 => After(pos, row).cost = 0
          BY <3>1, <4>3, HeldAfter
        <4> QED
          BY <2>2, <3>1, <3>3, <3>4, <3>7, <4>1, <4>2, <4>4
      <3> QED
        BY <3>6, <3>7
    <2> QED
      BY <2>2, <2>4 DEF HeldSoFar
  <1>5. T = 0 .. n
    <2>1. T \in SUBSET (0 .. n)
      OBVIOUS
    <2> HIDE DEF T
    <2> QED
      BY <1>3, <1>4, <2>1, PrefixInduction
  <1>6. n \in T
    BY <1>5
  <1> QED
    BY <1>6 DEF P

(* Whatever trades are recorded, in the order of their days: the daily     *)
(* flows of cash sum to what the account gained, and when no more was sold *)
(* than bought and all is closed, so do the realized profits.              *)
THEOREM DailyProfitsOfATable ==
  ASSUME NEW rows, IsTable(rows)
  PROVE  DaysAddUp(rows)
  <1> DEFINE D == DOMAIN rows
             sum(f) == SumFunctionOnSet(f, D)
  <1>1. PICK n \in Nat : n = Len(rows) /\ D = 1 .. n /\ rows \in Seq(TradeRow)
    BY DEF IsTable
  <1>2. Total(rows, D, Cash) = sum(CashOf(rows))
    BY <1>1, TotalIsSum
  <1>3. SumFunction([d \in Days |-> DailyPnl(rows, d).total_sold
                                      - DailyPnl(rows, d).total_bought
                                      - DailyPnl(rows, d).total_commission])
          = Total(rows, D, Cash)
    BY <1>2, FlowsAddUp
  <1>4. ASSUME CoveredSells(rows), AllClosed(rows)
        PROVE  SumFunction([d \in Days |-> DailyPnl(rows, d).realized_pnl])
                 = Total(rows, D, Cash)
    <2> DEFINE P == PositionsAt(rows)
               bought == BoughtBy(rows)
               sold == SoldBy(rows)
               gain == MarginOf(rows)
               fee == FeeOf(rows)
               paid == PaidFor(rows)
               made == [i \in D |-> sold[i] + paid[i]]
    <2>1. P[n] \in Positions /\ HeldSoFar(rows, n, P[n])
      <3>1. n \in 0 .. n
        OBVIOUS
      <3> QED
        BY <1>1, <1>4, <3>1, PositionsChange, ClosedCostNothing
    <2>2. \A s \in TradedSymbols : CostOf(P[n])[s] = 0
      <3> SUFFICES ASSUME NEW s \in TradedSymbols PROVE CostOf(P[n])[s] = 0
        OBVIOUS
      <3>1. Quantity(rows, n, s, "sell") = Quantity(rows, n, s, "buy")
        BY <1>1, <1>4 DEF AllClosed
      <3>2. Quantity(rows, n, s, "buy") \in Int
        BY <1>1, QuantityIsSum
      <3>3. P[n][s].quantity = 0
        BY <2>1, <3>1, <3>2 DEF HeldSoFar
      <3> QED
        BY <2>1, <3>3 DEF HeldSoFar, CostOf
    <2>3. SumFunctionOnSet(CostOf(P[n]), TradedSymbols) = 0
      <3> HIDE DEF P
      <3> QED
        BY <2>2, SumOfZeros, EvaluationAssumption
    <2>4. sum(paid) = 0
      BY <1>1, <2>3, CostIsPaid
    <2>5. \A i \in D : /\ bought[i] \in Int /\ sold[i] \in Int /\ gain[i] \in Int
                       /\ paid[i] = bought[i] - sold[i] + gain[i]
      BY <1>1, TableTypes, MarginTypes DEF PaidFor
    <2>6. IsFiniteSet(D)
      BY <1>1, TableTypes
    <2> HIDE DEF bought, sold, gain, fee, paid, D
    <2>7. \A i \in D : /\ made[i] = sold[i] + paid[i] /\ made[i] = bought[i] + gain[i]
                       /\ paid[i] \in Int
      BY <2>5
    <2> HIDE DEF made
    <2>8. sum(made) = sum(sold) + sum(paid)
      BY <2>5, <2>6, <2>7, SumOfBoth
    <2>9. sum(made) = sum(bought) + sum(gain)
      BY <2>5, <2>6, <2>7, SumOfBoth
    <2>10. sum(bought) \in Int /\ sum(sold) \in Int /\ sum(gain) \in Int
      BY <2>5, <2>6, SumIsInt
    <2>11. sum(gain) = sum(sold) - sum(bought)
      BY <2>4, <2>8, <2>9, <2>10
    <2>12. SumFunction([d \in Days |-> DailyPnl(rows, d).realized_pnl]) = sum(gain) - sum(fee)
      BY ProfitsAddUp DEF gain, fee, D
    <2>13. sum(CashOf(rows)) = sum(sold) - sum(bought) - sum(fee)
      BY <1>1, CashAddsUp DEF sold, bought, fee, D
    <2> QED
      BY <1>2, <2>11, <2>12, <2>13
  <1> QED
    BY <1>3, <1>4 DEF DaysAddUp

-----------------------------------------------------------------------------
(* Two rows in either order                                                *)

WholeAverage(pos) == \E average \in Int : pos.cost = average * pos.quantity

LEMMA SellAtAverage ==
  ASSUME NEW pos \in [quantity : Nat, cost : Int], NEW row \in TradeRow, row.side = "sell",
         NEW average \in Int, pos.cost = average * pos.quantity
  PROVE  LET sold == SellQuantity(pos, row)
         IN  /\ sold \in Nat /\ pos.quantity - sold \in Nat
             /\ After(pos, row)
                  = [quantity |-> pos.quantity - sold, cost |-> average * (pos.quantity - sold)]
             /\ Margin(pos, row) = Amount(row) - average * sold
  <1> DEFINE sold == SellQuantity(pos, row)
  <1>1. PICK q \in Nat, s \in Nat :
           q = pos.quantity /\ s = sold /\ s <= q /\ pos.cost = average * q
    BY BasisType
  <1>2. CostBasis(pos, row) = average * s
    <2>1. CASE q = 0
      <3>1. s = 0 /\ average * 0 = 0
        BY <1>1, <2>1
      <3> QED
        BY <1>1, <2>1, <3>1 DEF CostBasis
    <2>2. CASE q # 0
      <3>1. CostBasis(pos, row) = ((average * q) * s) \div q
        BY <1>1, <2>2 DEF CostBasis
      <3>2. PICK c \in Int : c = average * s
        OBVIOUS
      <3>3. (average * q) * s = c * q
        BY <3>2
      <3>4. (c * q) \div q = c
        BY <2>2, DivOfProduct
      <3> QED
        BY <3>1, <3>2, <3>3, <3>4
    <2> QED
      BY <2>1, <2>2
  <1>3. average * q - average * s = average * (q - s)
    BY Distribute
  <1>4. After(pos, row) = [quantity |-> q - s, cost |-> average * (q - s)]
    BY <1>1, <1>2, <1>3 DEF After
  <1>5. Margin(pos, row) = Amount(row) - average * s
    BY <1>2 DEF Margin
  <1> QED
    BY <1>1, <1>4, <1>5

LEMMA SellsInEitherOrder ==
  ASSUME NEW pos \in [quantity : Nat, cost : Int], WholeAverage(pos),
         NEW a \in TradeRow, NEW b \in TradeRow, a.side = "sell", b.side = "sell"
  PROVE  /\ After(After(pos, a), b) = After(After(pos, b), a)
         /\ Margin(pos, a) + Margin(After(pos, a), b) = Margin(pos, b) + Margin(After(pos, b), a)
  <1>1. PICK average \in Int : pos.cost = average * pos.quantity
    BY DEF WholeAverage
  <1> DEFINE p == After(pos, a)
             q == After(pos, b)
  <1>2. PICK n \in Nat, x \in Nat, y \in Nat, k \in Nat, l \in Nat :
           n = pos.quantity /\ x = a.quantity /\ y = b.quantity
           /\ k = Amount(a) /\ l = Amount(b)
    BY RowTypes, RowAmounts
  <1>3. PICK s \in Nat, t \in Nat :
           /\ s = SellQuantity(pos, a) /\ t = SellQuantity(pos, b)
           /\ s = (IF x < n THEN x ELSE n) /\ t = (IF y < n THEN y ELSE n)
    BY <1>2, BasisType DEF SellQuantity
  <1>4. /\ p = [quantity |-> n - s, cost |-> average * (n - s)]
        /\ q = [quantity |-> n - t, cost |-> average * (n - t)]
        /\ Margin(pos, a) = k - average * s /\ Margin(pos, b) = l - average * t
        /\ n - s \in Nat /\ n - t \in Nat
    BY <1>1, <1>2, <1>3, SellAtAverage
  <1>5. p \in [quantity : Nat, cost : Int] /\ q \in [quantity : Nat, cost : Int]
    BY BasisType
  <1> HIDE DEF p, q
  <1>6. PICK u \in Nat, v \in Nat :
           /\ u = SellQuantity(p, b) /\ v = SellQuantity(q, a)
           /\ u = (IF y < n - s THEN y ELSE n - s) /\ v = (IF x < n - t THEN x ELSE n - t)
    BY <1>2, <1>4, <1>5, BasisType DEF SellQuantity
  <1>7. s + u = t + v /\ (n - s) - u = (n - t) - v
    BY <1>3, <1>6
  <1>8. /\ After(p, b) = [quantity |-> (n - s) - u, cost |-> average * ((n - s) - u)]
        /\ Margin(p, b) = l - average * u
    BY <1>2, <1>4, <1>5, <1>6, SellAtAverage
  <1>9. /\ After(q, a) = [quantity |-> (n - t) - v, cost |-> average * ((n - t) - v)]
        /\ Margin(q, a) = k - average * v
    BY <1>2, <1>4, <1>5, <1>6, SellAtAverage
  <1>10. average * s + average * u = average * t + average * v
    <2>1. average * (s + u) = average * s + average * u
          /\ average * (t + v) = average * t + average * v
      OBVIOUS
    <2> QED
      BY <1>7, <2>1
  <1>11. (k - average * s) + (l - average * u) = (l - average * t) + (k - average * v)
    <2>1. PICK c \in Int, d \in Int, e \in Int, f \in Int :
             c = average * s /\ d = average * u /\ e = average * t /\ f = average * v
      OBVIOUS
    <2>2. c + d = e + f
      BY <1>10, <2>1
    <2>3. (k - c) + (l - d) = (l - e) + (k - f)
      BY <2>2
    <2> QED
      BY <2>1, <2>3
  <1>12. After(p, b) = After(q, a)
    BY <1>7, <1>8, <1>9
  <1> QED
    BY <1>4, <1>8, <1>9, <1>11, <1>12 DEF p, q

LEMMA BuysInEitherOrder ==
  ASSUME NEW pos \in [quantity : Nat, cost : Int],
         NEW a \in TradeRow, NEW b \in TradeRow, a.side = "buy", b.side = "buy"
  PROVE  /\ After(After(pos, a), b) = After(After(pos, b), a)
         /\ Margin(pos, a) + Margin(After(pos, a), b) = Margin(pos, b) + Margin(After(pos, b), a)
  <1>1. PICK n \in Nat, c \in Int, x \in Nat, y \in Nat, k \in Nat, l \in Nat :
           n = pos.quantity /\ c = pos.cost /\ x = a.quantity /\ y = b.quantity
           /\ k = Amount(a) /\ l = Amount(b)
    BY RowTypes, RowAmounts
  <1>2. /\ After(pos, a) = [quantity |-> n + x, cost |-> c + k]
        /\ After(pos, b) = [quantity |-> n + y, cost |-> c + l]
    BY <1>1 DEF After, CostAfterBuy
  <1>3. /\ After(After(pos, a), b) = [quantity |-> n + x + y, cost |-> c + k + l]
        /\ After(After(pos, b), a) = [quantity |-> n + y + x, cost |-> c + l + k]
    BY <1>1, <1>2 DEF After, CostAfterBuy
  <1>4. n + x + y = n + y + x /\ c + k + l = c + l + k
    OBVIOUS
  <1>5. \A any : Margin(any, a) = 0 /\ Margin(any, b) = 0
    BY DEF Margin
  <1> QED
    BY <1>3, <1>4, <1>5

(* Two rows whose order does not matter to the position.                   *)
Exchangeable(positions, a, b) ==
    a.symbol = b.symbol =>
      /\ a.side = b.side
      /\ a.side = "sell" => WholeAverage(positions[a.symbol])

LEMMA RowsInEitherOrder ==
  ASSUME NEW r \in Reports, NEW a \in TradeRow, NEW b \in TradeRow, NEW date,
         a.day = b.day, Exchangeable(r.positions, a, b)
  PROVE  Replayed(Replayed(r, a, date), b, date) = Replayed(Replayed(r, b, date), a, date)
  <1> DEFINE P == r.positions
             p == P[a.symbol]
             q == P[b.symbol]
             Pa == [P EXCEPT ![a.symbol] = After(p, a)]
             Pb == [P EXCEPT ![b.symbol] = After(q, b)]
             pb == Pb[a.symbol]
             qa == Pa[b.symbol]
             Pab == [Pa EXCEPT ![b.symbol] = After(qa, b)]
             Pba == [Pb EXCEPT ![a.symbol] = After(pb, a)]
  <1>1. /\ P \in Positions /\ a.symbol \in TradedSymbols /\ b.symbol \in TradedSymbols
        /\ p \in [quantity : Nat, cost : Int] /\ q \in [quantity : Nat, cost : Int]
        /\ a.side \in {"buy", "sell"}
    <2>1. P \in Positions /\ a.symbol \in TradedSymbols /\ b.symbol \in TradedSymbols
          /\ a.side \in {"buy", "sell"}
      BY RowTypes DEF Reports
    <2> QED
      BY <2>1 DEF Positions
  <1>2. Pab = Pba /\ Margin(p, a) + Margin(qa, b) = Margin(q, b) + Margin(pb, a)
        /\ Margin(p, a) \in Int /\ Margin(q, b) \in Int /\ Margin(qa, b) \in Int /\ Margin(pb, a) \in Int
    <2>1. CASE a.symbol # b.symbol
      <3>1. qa = q /\ pb = p
        BY <1>1, <2>1 DEF Positions
      <3>2. Margin(p, a) \in Int /\ Margin(q, b) \in Int
        BY <1>1, BasisType
      <3>3. PICK x, y : x = After(p, a) /\ y = After(q, b)
        OBVIOUS
      <3>4. [[P EXCEPT ![a.symbol] = x] EXCEPT ![b.symbol] = y]
              = [[P EXCEPT ![b.symbol] = y] EXCEPT ![a.symbol] = x]
        BY <2>1
      <3>5. Pab = Pba
        BY <3>1, <3>3, <3>4
      <3> QED
        BY <3>1, <3>2, <3>5
    <2>2. CASE a.symbol = b.symbol
      <3>1. q = p /\ qa = After(p, a) /\ pb = After(p, b)
        BY <1>1, <2>2 DEF Positions
      <3>2. /\ After(After(p, a), b) = After(After(p, b), a)
            /\ Margin(p, a) + Margin(After(p, a), b) = Margin(p, b) + Margin(After(p, b), a)
        <4>1. a.side = b.side /\ (a.side = "sell" => WholeAverage(p))
          BY <2>2 DEF Exchangeable
        <4>2. PICK pos \in [quantity : Nat, cost : Int] : pos = p
          BY <1>1
        <4>3. CASE a.side = "buy"
          <5>1. /\ After(After(pos, a), b) = After(After(pos, b), a)
                /\ Margin(pos, a) + Margin(After(pos, a), b)
                     = Margin(pos, b) + Margin(After(pos, b), a)
            BY <4>1, <4>3, BuysInEitherOrder
          <5> QED
            BY <4>2, <5>1
        <4>4. CASE a.side = "sell"
          <5>1. WholeAverage(pos)
            BY <4>1, <4>2, <4>4
          <5>2. /\ After(After(pos, a), b) = After(After(pos, b), a)
                /\ Margin(pos, a) + Margin(After(pos, a), b)
                     = Margin(pos, b) + Margin(After(pos, b), a)
            BY <4>1, <4>4, <5>1, SellsInEitherOrder
          <5> QED
            BY <4>2, <5>2
        <4> QED
          BY <1>1, <4>3, <4>4
      <3>3. After(p, a) \in [quantity : Nat, cost : Int]
            /\ After(p, b) \in [quantity : Nat, cost : Int]
            /\ Margin(p, a) \in Int /\ Margin(p, b) \in Int
        BY <1>1, BasisType
      <3>4. Margin(After(p, a), b) \in Int /\ Margin(After(p, b), a) \in Int
        BY <3>3, BasisType
      <3>5. PICK x, y, z : x = After(p, a) /\ y = After(p, b) /\ z = After(After(p, a), b)
        OBVIOUS
      <3>6. [[P EXCEPT ![a.symbol] = x] EXCEPT ![a.symbol] = z]
              = [[P EXCEPT ![a.symbol] = y] EXCEPT ![a.symbol] = z]
        OBVIOUS
      <3>7. Pab = Pba
        BY <2>2, <3>1, <3>2, <3>5, <3>6
      <3> QED
        BY <3>1, <3>2, <3>3, <3>4, <3>7
    <2> QED
      BY <2>1, <2>2
  <1>3. PICK ra, rb : ra = Replayed(r, a, date) /\ rb = Replayed(r, b, date)
    OBVIOUS
  <1>4. ra.positions = Pa /\ rb.positions = Pb
    BY <1>3 DEF Replayed
  <1>5. PICK ga, gb, gab, gba :
           ga = Margin(p, a) /\ gb = Margin(q, b) /\ gab = Margin(qa, b) /\ gba = Margin(pb, a)
    OBVIOUS
  <1>6. /\ Replayed(ra, b, date)
             = [positions |-> Pab,
                realized_pnl |-> ra.realized_pnl + OnDay(b, date, gab),
                total_bought |-> ra.total_bought + OnDay(b, date, On("buy", b)),
                total_sold |-> ra.total_sold + OnDay(b, date, On("sell", b)),
                total_commission |-> ra.total_commission + OnDay(b, date, Fee(b))]
        /\ Replayed(rb, a, date)
             = [positions |-> Pba,
                realized_pnl |-> rb.realized_pnl + OnDay(a, date, gba),
                total_bought |-> rb.total_bought + OnDay(a, date, On("buy", a)),
                total_sold |-> rb.total_sold + OnDay(a, date, On("sell", a)),
                total_commission |-> rb.total_commission + OnDay(a, date, Fee(a))]
    <2> HIDE DEF Pa, Pb
    <2> QED
      BY <1>4, <1>5 DEF Replayed
  <1>7. /\ ra.realized_pnl = r.realized_pnl + OnDay(a, date, ga)
        /\ ra.total_bought = r.total_bought + OnDay(a, date, On("buy", a))
        /\ ra.total_sold = r.total_sold + OnDay(a, date, On("sell", a))
        /\ ra.total_commission = r.total_commission + OnDay(a, date, Fee(a))
        /\ rb.realized_pnl = r.realized_pnl + OnDay(b, date, gb)
        /\ rb.total_bought = r.total_bought + OnDay(b, date, On("buy", b))
        /\ rb.total_sold = r.total_sold + OnDay(b, date, On("sell", b))
        /\ rb.total_commission = r.total_commission + OnDay(b, date, Fee(b))
    BY <1>3, <1>5 DEF Replayed
  <1>8. /\ r.realized_pnl \in Int /\ r.total_bought \in Int /\ r.total_sold \in Int
        /\ r.total_commission \in Int
        /\ On("buy", a) \in Int /\ On("buy", b) \in Int /\ On("sell", a) \in Int
        /\ On("sell", b) \in Int /\ Fee(a) \in Int /\ Fee(b) \in Int
    BY RowAmounts DEF Reports
  <1>9. /\ ra.realized_pnl + OnDay(b, date, gab) = rb.realized_pnl + OnDay(a, date, gba)
        /\ ra.total_bought + OnDay(b, date, On("buy", b))
             = rb.total_bought + OnDay(a, date, On("buy", a))
        /\ ra.total_sold + OnDay(b, date, On("sell", b))
             = rb.total_sold + OnDay(a, date, On("sell", a))
        /\ ra.total_commission + OnDay(b, date, Fee(b))
             = rb.total_commission + OnDay(a, date, Fee(a))
    <2>1. ga + gab = gb + gba /\ ga \in Int /\ gb \in Int /\ gab \in Int /\ gba \in Int
      BY <1>2, <1>5
    <2>2. CASE a.day = date
      <3>1. \A x : OnDay(a, date, x) = x /\ OnDay(b, date, x) = x
        BY <2>2 DEF OnDay
      <3>2. (r.realized_pnl + ga) + gab = (r.realized_pnl + gb) + gba
        BY <1>8, <2>1
      <3>3. (r.total_bought + On("buy", a)) + On("buy", b)
              = (r.total_bought + On("buy", b)) + On("buy", a)
        BY <1>8
      <3>4. (r.total_sold + On("sell", a)) + On("sell", b)
              = (r.total_sold + On("sell", b)) + On("sell", a)
        BY <1>8
      <3>5. (r.total_commission + Fee(a)) + Fee(b) = (r.total_commission + Fee(b)) + Fee(a)
        BY <1>8
      <3> QED
        BY <1>7, <3>1, <3>2, <3>3, <3>4, <3>5
    <2>3. CASE a.day # date
      <3>1. \A x : OnDay(a, date, x) = 0 /\ OnDay(b, date, x) = 0
        BY <2>3 DEF OnDay
      <3> QED
        BY <1>7, <1>8, <3>1
    <2> QED
      BY <2>2, <2>3
  <1> QED
    BY <1>2, <1>3, <1>6, <1>9

(* Where two sells of a symbol follow each other, their average price is   *)
(* whole: a sell then leaves it as it was, without a remainder.            *)
WholeAverages(rows) ==
    \A i \in 1 .. (Len(rows) - 1) :
       /\ rows[i].day = rows[i + 1].day /\ rows[i].symbol = rows[i + 1].symbol
       /\ rows[i].side = "sell" /\ rows[i + 1].side = "sell"
       => WholeAverage(PositionsAt(rows)[i - 1][rows[i].symbol])

LEMMA SwappedRows ==
  ASSUME NEW rows \in Seq(TradeRow), NEW n \in Nat, n = Len(rows), NEW i \in 1 .. (n - 1)
  PROVE  /\ SwapAt(rows, i) \in Seq(TradeRow) /\ Len(SwapAt(rows, i)) = n
         /\ SwapAt(rows, i)[i] = rows[i + 1] /\ SwapAt(rows, i)[i + 1] = rows[i]
         /\ \A j \in 1 .. n : j # i /\ j # i + 1 => SwapAt(rows, i)[j] = rows[j]
  <1>1. PICK a, b : a = rows[i] /\ b = rows[i + 1]
    OBVIOUS
  <1>2. DOMAIN rows = 1 .. n /\ i \in 1 .. n /\ i + 1 \in 1 .. n /\ i # i + 1
        /\ a \in TradeRow /\ b \in TradeRow
    BY <1>1
  <1>3. SwapAt(rows, i) = [rows EXCEPT ![i] = b, ![i + 1] = a]
    BY <1>1 DEF SwapAt
  <1> QED
    BY <1>2, <1>3, <1>1

(* Of two rows of a day that follow each other, of different symbols or    *)
(* both of the same side, either may be recorded first, for every day's    *)
(* report.                                                                 *)
THEOREM OrderOfATable ==
  ASSUME NEW rows, IsTable(rows), WholeAverages(rows)
  PROVE  OrderIsFree(rows)
  <1>1. PICK n \in Nat : n = Len(rows) /\ DOMAIN rows = 1 .. n /\ rows \in Seq(TradeRow)
    BY DEF IsTable
  <1>2. SUFFICES ASSUME NEW i \in 1 .. (n - 1), rows[i].day = rows[i + 1].day,
                        rows[i].symbol = rows[i + 1].symbol => rows[i].side = rows[i + 1].side,
                        NEW date \in Days
                 PROVE  DailyPnl(SwapAt(rows, i), date) = DailyPnl(rows, date)
    BY <1>1 DEF OrderIsFree
  <1> DEFINE swapped == SwapAt(rows, i)
             h == Steps(rows, date)
             k == Steps(swapped, date)
  <1>3. /\ swapped \in Seq(TradeRow) /\ Len(swapped) = n
        /\ swapped[i] = rows[i + 1] /\ swapped[i + 1] = rows[i]
        /\ \A j \in 1 .. n : j # i /\ j # i + 1 => swapped[j] = rows[j]
    BY <1>1, SwappedRows
  <1> HIDE DEF swapped
  <1>4. /\ h[0] = NothingYet
        /\ \A j \in 1 .. n : h[j] = ReadRow(h[j - 1], rows[j], date)
        /\ \A j \in 0 .. n : h[j] \in Reports
        /\ ReportOf(rows, date) = h[n]
    BY <1>1, StepsOf DEF ReportSteps
  <1>5. /\ k[0] = NothingYet
        /\ \A j \in 1 .. n : k[j] = ReadRow(k[j - 1], swapped[j], date)
        /\ ReportOf(swapped, date) = k[n]
    BY <1>3, StepsOf DEF ReportSteps
  <1> HIDE DEF h, k
  <1>6. PICK a \in TradeRow, b \in TradeRow : a = rows[i] /\ b = rows[i + 1]
    <2>1. i \in DOMAIN rows /\ i + 1 \in DOMAIN rows
      BY <1>1
    <2> QED
      BY <1>1, <2>1
  <1>7. ASSUME NEW r \in Reports, r = h[i - 1]
        PROVE  ReadRow(ReadRow(r, a, date), b, date) = ReadRow(ReadRow(r, b, date), a, date)
    <2>1. a.day = b.day /\ a.day \in Nat /\ date \in Nat
      BY <1>2, <1>6, RowTypes, EvaluationAssumption
    <2>2. CASE ~(a.day <= date)
      BY <2>1, <2>2 DEF ReadRow, IsRead
    <2>3. CASE a.day <= date
      <3>1. i \in 1 .. n /\ i - 1 \in 0 .. n
        BY <1>1
      <3>2. i - 1 = 0 \/ rows[i - 1].day <= date
        BY <1>1, <1>6, <2>1, <2>3, <3>1, RowBefore
      <3>3. r.positions = PositionsAt(rows)[i - 1]
        BY <1>1, <1>7, <2>1, <3>1, <3>2, PositionsRead DEF h
      <3>4. Exchangeable(r.positions, a, b)
        BY <1>1, <1>2, <1>6, <3>3 DEF Exchangeable, WholeAverages
      <3>5. /\ Replayed(r, a, date) \in Reports /\ Replayed(r, b, date) \in Reports
            /\ Replayed(Replayed(r, a, date), b, date) = Replayed(Replayed(r, b, date), a, date)
        BY <2>1, <3>4, ReplayTypes, RowsInEitherOrder
      <3>6. IsRead(a, date) /\ IsRead(b, date)
        BY <2>1, <2>3 DEF IsRead
      <3>7. /\ ReadRow(r, a, date) = Replayed(r, a, date)
            /\ ReadRow(r, b, date) = Replayed(r, b, date)
        BY <3>6, ReplayIsReplayed DEF ReadRow
      <3>8. /\ ReadRow(Replayed(r, a, date), b, date) = Replayed(Replayed(r, a, date), b, date)
            /\ ReadRow(Replayed(r, b, date), a, date) = Replayed(Replayed(r, b, date), a, date)
        BY <3>5, <3>6, ReplayIsReplayed DEF ReadRow
      <3> QED
        BY <3>5, <3>7, <3>8
    <2> QED
      BY <2>2, <2>3
  <1> DEFINE T == {j \in 0 .. n : \A m \in 0 .. j : m # i => h[m] = k[m]}
  <1>8. 0 \in T
    BY <1>4, <1>5
  <1>9. ASSUME NEW j \in 1 .. n, j - 1 \in T PROVE j \in T
    <2>1. \A m \in 0 .. (j - 1) : m # i => h[m] = k[m]
      BY <1>9
    <2>2. ASSUME j # i PROVE h[j] = k[j]
      <3>1. CASE j # i + 1
        <4>1. j - 1 \in 0 .. (j - 1) /\ j - 1 # i
          BY <3>1
        <4>2. h[j - 1] = k[j - 1]
          BY <2>1, <4>1
        <4>3. swapped[j] = rows[j]
          BY <1>3, <2>2, <3>1
        <4> QED
          BY <1>4, <1>5, <4>2, <4>3
      <3>2. CASE j = i + 1
        <4>1. i \in 1 .. n /\ i - 1 \in 0 .. (j - 1) /\ i - 1 # i /\ i - 1 \in 0 .. n /\ j - 1 = i
          BY <1>1, <3>2
        <4>2. h[i - 1] = k[i - 1] /\ h[i - 1] \in Reports
          BY <1>4, <2>1, <4>1
        <4>3. h[i] = ReadRow(h[i - 1], a, date) /\ h[j] = ReadRow(h[i], b, date)
          BY <1>4, <1>6, <3>2, <4>1
        <4>4. k[i] = ReadRow(k[i - 1], b, date) /\ k[j] = ReadRow(k[i], a, date)
          BY <1>3, <1>5, <1>6, <3>2, <4>1
        <4> QED
          BY <1>7, <4>2, <4>3, <4>4
      <3> QED
        BY <3>1, <3>2
    <2>3. \A m \in 0 .. j : m \in 0 .. (j - 1) \/ m = j
      OBVIOUS
    <2>4. \A m \in 0 .. j : m # i => h[m] = k[m]
      BY <2>1, <2>2, <2>3
    <2> QED
      BY <2>4
  <1>10. T = 0 .. n
    <2>1. T \in SUBSET (0 .. n)
      OBVIOUS
    <2> HIDE DEF T
    <2> QED
      BY <1>8, <1>9, <2>1, PrefixInduction
  <1>11. n \in T /\ n \in 0 .. n /\ n # i
    BY <1>10
  <1>12. h[n] = k[n]
    BY <1>11
  <1>13. ReportOf(swapped, date) = ReportOf(rows, date)
    BY <1>4, <1>5, <1>12
  <1>14. \A any : DailyPnl(any, date)
                    = LET report == ReportOf(any, date)
                      IN [report EXCEPT !.realized_pnl = @ - report.total_commission]
    BY DEF DailyPnl, ReportOf
  <1> QED
    BY <1>13, <1>14 DEF swapped

-----------------------------------------------------------------------------
(* The runs                                                                *)

Candles == {Candle(shape[1], shape[2], 1) : shape \in Shapes}

(* MCAlgorithms gives every subject inputs of its own.                     *)
Inputs ==
    /\ subject = "trials" => items \in Seq(Trials)
    /\ subject = "backtest" => items \in Seq(Candles)
    /\ subject = "folds" => items \in Seq({"candle"})

LEMMA InputsHold == Spec => []Inputs
  <1>1. Init => Inputs
    BY DEF Init, Inputs
  <1>2. Inputs /\ [Next]_inputVars => Inputs'
    <2> SUFFICES ASSUME Inputs, [Next]_inputVars
                 PROVE  Inputs'
      OBVIOUS
    <2>1. CASE UNCHANGED <<subject, items>>
      BY <2>1 DEF Inputs
    <2>2. ASSUME NEW trial \in Trials, RunTrial(trial) PROVE Inputs'
      <3>1. subject' = "trials" /\ items' \in Seq(Trials)
        BY <2>2 DEF RunTrial, Extend, Inputs
      <3> QED
        BY <3>1 DEF Inputs
    <2>3. ASSUME NEW shape \in Shapes, AddCandle(shape) PROVE Inputs'
      <3>1. Candle(shape[1], shape[2], 1) \in Candles
        BY DEF Candles
      <3>2. subject' = "backtest" /\ items' \in Seq(Candles)
        BY <2>3, <3>1 DEF AddCandle, Extend, Inputs
      <3> QED
        BY <3>2 DEF Inputs
    <2>4. CASE AddDay
      <3>1. subject' = "folds" /\ items' \in Seq({"candle"})
        BY <2>4 DEF AddDay, Extend, Inputs
      <3> QED
        BY <3>1 DEF Inputs
    <2>5. CASE subject' \notin {"trials", "backtest", "folds"}
      BY <2>5 DEF Inputs
    <2> QED
      BY <2>1, <2>2, <2>3, <2>4, <2>5
      DEF Next, inputVars, Extend, RecordTrade, RecordSignal, AddPrice, AddMarket, Hold
  <1> QED
    BY <1>1, <1>2, PTL DEF Spec

(* The table is written in the order of the days.                          *)
LEMMA TableGrows ==
  ASSUME NEW rows, IsTable(rows), NEW row \in TradeRow,
         \A i \in DOMAIN rows : rows[i].day <= row.day
  PROVE  IsTable(Append(rows, row))
  <1> DEFINE more == Append(rows, row)
  <1>1. PICK n \in Nat : n = Len(rows) /\ DOMAIN rows = 1 .. n /\ rows \in Seq(TradeRow)
    BY DEF IsTable
  <1>2. /\ more \in Seq(TradeRow) /\ DOMAIN more = 1 .. n + 1
        /\ more[n + 1] = row /\ \A i \in 1 .. n : more[i] = rows[i]
    BY <1>1
  <1> HIDE DEF more
  <1>3. ASSUME NEW i \in 1 .. n + 1, NEW j \in 1 .. n + 1, i < j
        PROVE  more[i].day <= more[j].day
    <2>1. i \in 1 .. n
      BY <1>1, <1>3
    <2>2. CASE j \in 1 .. n
      <3>1. rows[i].day <= rows[j].day
        BY <1>1, <1>3, <2>1, <2>2 DEF IsTable
      <3> QED
        BY <1>2, <2>1, <2>2, <3>1
    <2>3. CASE j = n + 1
      BY <1>1, <1>2, <2>1, <2>3
    <2>4. j \in 1 .. n \/ j = n + 1
      BY <1>1
    <2> QED
      BY <2>2, <2>3, <2>4
  <1>4. IsTable(more)
    BY <1>2, <1>3 DEF IsTable
  <1> QED
    BY <1>4 DEF more

TradesRecorded == subject \in {"profits", "records"} => IsTable(items)

LEMMA TradesStayRecorded == Spec => []TradesRecorded
  <1>1. Init => TradesRecorded
    <2>1. <<>> \in Seq(TradeRow) /\ DOMAIN <<>> = {}
      OBVIOUS
    <2> QED
      BY <2>1 DEF Init, TradesRecorded, IsTable
  <1>2. TradesRecorded /\ [Next]_inputVars => TradesRecorded'
    <2> SUFFICES ASSUME TradesRecorded, [Next]_inputVars
                 PROVE  TradesRecorded'
      OBVIOUS
    <2>1. CASE UNCHANGED <<subject, items>>
      BY <2>1 DEF TradesRecorded
    <2>2. ASSUME NEW row \in TradeRow, subject \in {"profits", "records"},
                 subject' = subject, items' = Append(items, row), Later(row.day)
          PROVE  TradesRecorded'
      <3>1. IsTable(items)
        BY <2>2 DEF TradesRecorded
      <3>2. \A i \in DOMAIN items : items[i].day <= row.day
        BY <2>2 DEF Later
      <3>3. PICK rows : rows = items
        OBVIOUS
      <3>4. IsTable(Append(rows, row))
        BY <3>1, <3>2, <3>3, TableGrows
      <3>5. items' = Append(rows, row)
        BY <2>2, <3>3
      <3> QED
        BY <3>4, <3>5 DEF TradesRecorded
    <2>3. ASSUME NEW symbol \in TradedSymbols, NEW side \in {"buy", "sell"},
                 NEW price \in {1, 2}, NEW quantity \in {1, 2}, NEW day \in Days,
                 RecordTrade(symbol, side, price, quantity, day)
          PROVE  TradesRecorded'
      <3> DEFINE row == [symbol |-> symbol, side |-> side, price |-> price,
                         quantity |-> quantity, day |-> day, strategy |-> "a"]
      <3>1. /\ row \in TradeRow /\ row.day = day
            /\ subject = "profits" /\ subject' = subject
            /\ items' = Append(items, row) /\ Later(day)
        BY <2>3 DEF RecordTrade, Extend, TradeRow
      <3> HIDE DEF row
      <3> QED
        BY <2>2, <3>1
    <2>4. ASSUME NEW symbol \in TradedSymbols, NEW side \in {"buy", "sell"},
                 NEW price \in {1, 2}, NEW strategy \in TradingStrategies, NEW day \in Days,
                 RecordSignal(symbol, side, price, strategy, day)
          PROVE  TradesRecorded'
      <3> DEFINE row == [symbol |-> symbol, side |-> side, price |-> price,
                         quantity |-> 1, day |-> day, strategy |-> strategy]
      <3>1. /\ row \in TradeRow /\ row.day = day
            /\ subject = "records" /\ subject' = subject
            /\ items' = Append(items, row) /\ Later(day)
        BY <2>4 DEF RecordSignal, Extend, TradeRow
      <3> HIDE DEF row
      <3> QED
        BY <2>2, <3>1
    <2>5. CASE subject' \notin {"profits", "records"}
      BY <2>5 DEF TradesRecorded
    <2> QED
      BY <2>1, <2>3, <2>4, <2>5
      DEF Next, inputVars, Extend, RunTrial, AddCandle, AddDay, AddPrice, AddMarket, Hold
  <1> QED
    BY <1>1, <1>2, PTL DEF Spec

(* The markets have names of their own, and a pair two of them.            *)
NameSet == {"s1", "s2", "s3", "s4", "s5"}
Listings == {Listing(symbol, market) : symbol \in NameSet, market \in Markets}

MarketsListed == subject = "symbols" =>
    /\ items \in Seq(Listings) /\ Len(items) <= Len(Names)
    /\ \A i \in DOMAIN items : items[i].symbol = Names[i]
    /\ correlated \subseteq SUBSET NameSet
    /\ \A s \in NameSet : {s} \notin correlated
    /\ held \in Seq(NameSet)

LEMMA NamesDiffer ==
  /\ Len(Names) = 5
  /\ \A i \in 1..5 : Names[i] \in NameSet
  /\ \A i, j \in 1..5 : i # j => Names[i] # Names[j]
  <1>1. /\ Names[1] = "s1" /\ Names[2] = "s2" /\ Names[3] = "s3"
        /\ Names[4] = "s4" /\ Names[5] = "s5" /\ Len(Names) = 5
    BY DEF Names
  <1>2. \A i \in 1..5 : i = 1 \/ i = 2 \/ i = 3 \/ i = 4 \/ i = 5
    OBVIOUS
  <1>3. \A i \in 1..5 : Names[i] \in NameSet
    BY <1>1, <1>2 DEF NameSet
  <1>4. \A i, j \in 1..5 : i # j => Names[i] # Names[j]
    BY <1>1, <1>2
  <1> QED
    BY <1>1, <1>3, <1>4

LEMMA MarketsStayListed == Spec => []MarketsListed
  <1>1. Init => MarketsListed
    <2>1. ASSUME Init, subject = "symbols"
          PROVE  items = <<>> /\ held = <<>> /\ correlated = {}
      BY <2>1 DEF Init
    <2>2. <<>> \in Seq(Listings) /\ <<>> \in Seq(NameSet) /\ Len(<<>>) = 0
          /\ DOMAIN <<>> = {}
      OBVIOUS
    <2> QED
      BY <2>1, <2>2, NamesDiffer DEF MarketsListed
  <1>2. MarketsListed /\ [Next]_inputVars => MarketsListed'
    <2> SUFFICES ASSUME MarketsListed, [Next]_inputVars
                 PROVE  MarketsListed'
      OBVIOUS
    <2>1. CASE UNCHANGED inputVars
      BY <2>1 DEF MarketsListed, inputVars
    <2>2. CASE subject' # "symbols"
      BY <2>2 DEF MarketsListed
    <2>3. ASSUME NEW market \in Markets, NEW with, AddMarket(market, with)
          PROVE  MarketsListed'
      <3> DEFINE n == Len(items)
                 symbol == Names[n + 1]
      <3>1. /\ subject = "symbols" /\ subject' = subject /\ held' = held
            /\ n < Longest["symbols"]
            /\ items' = Append(items, Listing(symbol, market))
            /\ correlated' = correlated \cup {{s, symbol} : s \in with}
            /\ with \subseteq {items[i].symbol : i \in DOMAIN items}
        BY <2>3 DEF AddMarket, Extend
      <3>2. /\ items \in Seq(Listings) /\ n \in Nat /\ DOMAIN items = 1..n
            /\ \A i \in 1..n : items[i].symbol = Names[i]
            /\ correlated \subseteq SUBSET NameSet
            /\ \A s \in NameSet : {s} \notin correlated
            /\ held \in Seq(NameSet)
        <4>1. /\ items \in Seq(Listings)
              /\ \A i \in DOMAIN items : items[i].symbol = Names[i]
              /\ correlated \subseteq SUBSET NameSet
              /\ \A s \in NameSet : {s} \notin correlated
              /\ held \in Seq(NameSet)
          BY <3>1 DEF MarketsListed
        <4> QED
          BY <4>1
      <3>3. n + 1 \in 1..5
        BY <3>1, <3>2, NamesAssumption, NamesDiffer
      <3> DEFINE listing == Listing(symbol, market)
      <3>4. listing \in Listings /\ listing.symbol = symbol
        <4>2. symbol \in NameSet
          BY <3>3, NamesDiffer
        <4> HIDE DEF symbol
        <4> QED
          BY <4>2 DEF Listings, Listing
      <3> HIDE DEF listing
      <3>5. items' \in Seq(Listings) /\ Len(items') = n + 1
        BY <3>1, <3>2, <3>4 DEF listing
      <3>6. \A i \in DOMAIN items' : items'[i].symbol = Names[i]
        BY <3>1, <3>2, <3>4, <3>5 DEF listing
      <3>7. \A s \in with : s # symbol
        <4> SUFFICES ASSUME NEW s \in with PROVE s # symbol
          OBVIOUS
        <4>1. PICK i \in 1..n : s = Names[i]
          BY <3>1, <3>2
        <4>2. i \in 1..5 /\ i # n + 1
          BY <3>2, <3>3
        <4> QED
          BY <3>3, <4>1, <4>2, NamesDiffer
      <3>9. symbol \in NameSet /\ with \subseteq NameSet
        BY <3>1, <3>2, <3>3, NamesDiffer
      <3> HIDE DEF symbol, n
      <3>8. \A s \in NameSet : {s} \notin correlated'
        <4> SUFFICES ASSUME NEW s \in NameSet, {s} \in correlated' PROVE FALSE
          OBVIOUS
        <4>1. PICK t \in with : {s} = {t, symbol}
          BY <3>1, <3>2
        <4>2. t = symbol
          BY <4>1
        <4> QED
          BY <3>7, <4>2
      <3> QED
        <4>1. Len(items') <= Len(Names)
          BY <3>2, <3>3, <3>5, NamesDiffer
        <4>2. held' \in Seq(NameSet)
          BY <3>1, <3>2
        <4>3. correlated' \subseteq SUBSET NameSet
          BY <3>1, <3>2, <3>9
        <4> QED
          BY <3>5, <3>6, <3>8, <4>1, <4>2, <4>3 DEF MarketsListed
    <2>4. ASSUME NEW symbol \in {"s2"}, Hold(symbol) PROVE MarketsListed'
      <3>1. /\ subject' = subject /\ items' = items /\ correlated' = correlated
            /\ subject = "symbols" /\ held' = Append(held, symbol)
        BY <2>4 DEF Hold
      <3>2. held \in Seq(NameSet)
        BY <3>1 DEF MarketsListed
      <3>3. held' \in Seq(NameSet)
        <4>1. symbol \in NameSet
          BY DEF NameSet
        <4> QED
          BY <3>1, <3>2, <4>1
      <3> QED
        BY <3>1, <3>3 DEF MarketsListed
    <2> QED
      BY <2>1, <2>2, <2>3, <2>4
      DEF Next, inputVars, Extend, RecordTrade, RecordSignal, RunTrial, AddCandle, AddDay,
          AddPrice
  <1> QED
    BY <1>1, <1>2, PTL DEF Spec

LEMMA TrialsAreTrialled ==
  ASSUME NEW trials \in Seq(Trials)
  PROVE  Len(trials) \in Nat /\ DOMAIN trials = 1 .. Len(trials) /\ Trialled(trials)
  <1>1. \A t \in Trials : Measured(t) => t.sharpe \in Int /\ t.sharpe > NoSharpe
    BY DEF Trials, Measured, NoSharpe
  <1> QED
    BY <1>1 DEF Trialled

LEMMA CandlesAreQuoted ==
  ASSUME NEW candles \in Seq(Candles)
  PROVE  Quoted(candles) /\ \A i \in DOMAIN candles : candles[i].close >= 8
  <1>1. \A c \in Candles : c.close \in Nat \ {0} /\ c.close >= 8
    BY DEF Candles, Candle, Shapes
  <1> QED
    BY <1>1 DEF Quoted

(* However many trials it is given, the search returns a valid trial that  *)
(* is less than a rounding step from the best: ParameterOptimizer.optimize.*)
THEOREM ChosenStaysBest == Spec => []ChosenIsNearlyBest
  <1>1. Inputs => ChosenIsNearlyBest
    BY TrialsAreTrialled, SearchFindsTheBest DEF Inputs, ChosenIsNearlyBest
  <1> QED
    BY <1>1, InputsHold, PTL

(* A backtest of any length decides on the past only: BacktestEngine.run.  *)
THEOREM BacktestStaysBlind == Spec => []BacktestSeesNoFuture
  <1>1. Inputs => BacktestSeesNoFuture
    BY CandlesAreQuoted, NoCandleIsSeenEarly DEF Inputs, BacktestSeesNoFuture
  <1> QED
    BY <1>1, InputsHold, PTL

(* And pays for every order, when the slippage of the candles' lowest      *)
(* price is some: BacktestEngine.run.                                      *)
THEOREM BacktestKeepsPaying ==
  ASSUME ImpactDen <= 8
  PROVE  Spec => []BacktestPaysForTrades
  <1>1. ASSUME NEW candles \in Seq(Candles) PROVE TradingCosts(candles)
    <2>1. /\ Quoted(candles)
          /\ \A i \in DOMAIN candles : candles[i].close \in Nat /\ candles[i].close >= 8
      BY CandlesAreQuoted DEF Quoted
    <2>2. ImpactDen \in Nat
      BY BacktestAssumption
    <2>3. \A i \in DOMAIN candles : candles[i].close >= ImpactDen
      BY <2>1, <2>2
    <2> QED
      BY <2>1, <2>3, OrdersOnlyCost
  <1>2. Inputs => BacktestPaysForTrades
    BY <1>1 DEF Inputs, BacktestPaysForTrades
  <1> QED
    BY <1>2, InputsHold, PTL

(* The windows are sound for any number of candles:                        *)
(* WalkForwardValidator.run.                                               *)
THEOREM WindowsStaySound == Spec => []WalkForwardIsSound
  <1>1. Inputs => WalkForwardIsSound
    <2> SUFFICES ASSUME Inputs, subject = "folds",
                        NEW required \in 1..10, NEW folds \in 2..5
                 PROVE  FoldsAreSound(Len(items), required, folds)
      BY DEF WalkForwardIsSound
    <2>1. Len(items) \in Nat /\ required \in Nat /\ folds \in Nat \ {0}
      BY DEF Inputs
    <2>2. PICK total \in Nat : total = Len(items)
      BY <2>1
    <2>3. FoldsAreSound(total, required, folds)
      BY <2>1, WindowsAreSound
    <2> QED
      BY <2>2, <2>3
  <1> QED
    BY <1>1, InputsHold, PTL

(* Of any markets, correlated in any way, the right symbols are chosen:    *)
(* run_screening_pipeline and select_symbols.  The configured ones must be *)
(* different.                                                              *)
THEOREM ScreeningStaysSound ==
  ASSUME NEW S, NameSet \subseteq S, Configured \in Seq(S), Distinct(Configured)
  PROVE  Spec => []ScreeningIsSound
  <1>1. MarketsListed => ScreeningIsSound
    <2> SUFFICES ASSUME MarketsListed, subject = "symbols", NEW max \in 1..3
                 PROVE  SymbolsAreSound(items, correlated, max, held)
      BY DEF ScreeningIsSound
    <2>1. /\ items \in Seq(Listings) /\ Len(items) <= 5
          /\ \A i \in DOMAIN items : items[i].symbol = Names[i]
          /\ correlated \subseteq SUBSET NameSet
          /\ \A s \in NameSet : {s} \notin correlated
          /\ held \in Seq(NameSet)
      BY NamesDiffer DEF MarketsListed
    <2>2. \A m \in Listings : m.symbol \in S /\ m.turnover \in Int
      <3>1. \A m \in Markets : m.turnover \in Int
        BY DEF Markets
      <3> QED
        BY <3>1 DEF Listings, Listing
    <2>3. Distinct(SymbolsOf(items))
      <3>1. DOMAIN items \subseteq 1..5
        BY <2>1
      <3> QED
        BY <2>1, <3>1, NamesDiffer DEF Distinct, SymbolsOf
    <2>4. PICK markets, pairs, holdings :
             markets = items /\ pairs = correlated /\ holdings = held
      OBVIOUS
    <2>5. /\ markets \in Seq(Listings) /\ Distinct(SymbolsOf(markets))
          /\ \A s \in S : {s} \notin pairs
          /\ holdings \in Seq(S) /\ max \in Nat
      <3>1. \A s \in S : {s} \notin correlated
        BY <2>1
      <3>2. held \in Seq(S)
        BY <2>1
      <3> QED
        BY <2>1, <2>3, <2>4, <3>1, <3>2
    <2>6. SymbolsAreSound(markets, pairs, max, holdings)
      BY <2>2, <2>5, SelectionIsSound
    <2> QED
      BY <2>4, <2>6
  <1> QED
    BY <1>1, MarketsStayListed, PTL

(* However many trades are recorded, a strategy's two records of them      *)
(* agree: StrategyTracker and PerformanceEvaluator.                        *)
THEOREM RecordsKeepAgreeing == Spec => []StrategyRecordsAgree
  <1>1. TradesRecorded => StrategyRecordsAgree
    <2> SUFFICES ASSUME TradesRecorded, subject = "records" PROVE RecordsAgree(items)
      BY DEF StrategyRecordsAgree
    <2>1. PICK rows : rows = items
      OBVIOUS
    <2>2. IsTable(rows)
      BY <2>1 DEF TradesRecorded
    <2>3. RecordsAgree(rows)
      BY <2>2, RecordsOfAStrategyAgree
    <2> QED
      BY <2>1, <2>3
  <1> QED
    BY <1>1, TradesStayRecorded, PTL

(* However many trades are recorded, the days' profits add up to what the  *)
(* account gained: get_daily_pnl.                                          *)
THEOREM ProfitsKeepAddingUp == Spec => []DailyProfitsAddUp
  <1>1. TradesRecorded => DailyProfitsAddUp
    <2> SUFFICES ASSUME TradesRecorded, subject = "profits" PROVE DaysAddUp(items)
      BY DEF DailyProfitsAddUp
    <2>1. PICK rows : rows = items
      OBVIOUS
    <2>2. IsTable(rows)
      BY <2>1 DEF TradesRecorded
    <2>3. DaysAddUp(rows)
      BY <2>2, DailyProfitsOfATable
    <2> QED
      BY <2>1, <2>3
  <1> QED
    BY <1>1, TradesStayRecorded, PTL

(* As long as the average prices leave no remainder where a position is    *)
(* sold in parts, only a buy recorded out of order with a sell of its      *)
(* symbol can change a day's profit: get_daily_pnl.                        *)
AveragesAreWhole == subject = "profits" => WholeAverages(items)

THEOREM OrderStaysFree == Spec => [](AveragesAreWhole => OrderOfRowsIsFree)
  <1>1. TradesRecorded => (AveragesAreWhole => OrderOfRowsIsFree)
    <2> SUFFICES ASSUME TradesRecorded, AveragesAreWhole, subject = "profits"
                 PROVE  OrderIsFree(items)
      BY DEF OrderOfRowsIsFree
    <2>1. PICK rows : rows = items
      OBVIOUS
    <2>2. IsTable(rows) /\ WholeAverages(rows)
      BY <2>1 DEF TradesRecorded, AveragesAreWhole
    <2>3. OrderIsFree(rows)
      BY <2>2, OrderOfATable
    <2> QED
      BY <2>1, <2>3
  <1> QED
    BY <1>1, TradesStayRecorded, PTL
=============================================================================
