--------------------------- MODULE BacktestProofs ---------------------------
(***************************************************************************)
(* The windows of the walk-forward validation, for any number of candles,  *)
(* any requirement of the strategy, any number of folds and any ratio; and *)
(* the backtest of any candles.                                            *)
(*                                                                         *)
(* A run folds its candles, and what a fold computes is proved along the   *)
(* prefixes of its input: FoldExists gives its value for every set of      *)
(* positions, and a shortest prefix on which an invariant of the fold      *)
(* fails leads to a contradiction.                                         *)
(***************************************************************************)
EXTENDS Backtest, Sums, SequenceTheorems

-----------------------------------------------------------------------------
(* The windows                                                             *)

LEMMA MinOfTwo ==
    ASSUME NEW a \in Int, NEW b \in Int, a <= b
    PROVE  Min({a, b}) = a
  <1>1. \A x \in {a, b} : (\A y \in {a, b} : x <= y) => x = a
    OBVIOUS
  <1>2. a \in {a, b} /\ \A y \in {a, b} : a <= y
    OBVIOUS
  <1> QED  BY <1>1, <1>2 DEF Min

(* A remainder is less than the divisor.                                   *)
LEMMA Parts ==
    ASSUME NEW x \in Int, NEW n \in Nat \ {0}
    PROVE  /\ x \div n \in Int
           /\ (x \div n) * n <= x
           /\ x - (x \div n) * n < n
  OBVIOUS

LEMMA TooShort ==
    ASSUME NEW x \in Int, NEW n \in Nat \ {0}, NEW r \in Nat, x \div n < r
    PROVE  x < n * r
  <1>1. x \div n \in Int /\ x \div n <= r - 1 /\ x - (x \div n) * n < n
    BY Parts
  <1>2. (x \div n) * n <= (r - 1) * n
    BY <1>1, Z3
  <1>3. (r - 1) * n = n * r - n
    OBVIOUS
  <1> QED  BY <1>1, <1>2, <1>3

LEMMA TrainSizesAreWhole ==
    ASSUME NEW total \in Nat, NEW train \in TrainSizes(total)
    PROVE  train \in Int
  <1>1. (total * TrainNum) \div TrainDen \in Int
    BY BacktestAssumption
  <1> QED  BY <1>1 DEF TrainSizes

(* The windows are products of a number and a length, named apart here.    *)
LEMMA Sums ==
    ASSUME NEW t \in Int, NEW a \in Int, NEW b \in Int, NEW c \in Int, a + b = c
    PROVE  t + a + b = t + c /\ (t + c) - (t + a) = b
  OBVIOUS

(* The folds of a first training of any length.                            *)
LEMMA FoldsFromHere ==
    ASSUME NEW total \in Nat, NEW train \in Int, NEW required \in Nat,
           NEW folds \in Nat \ {0},
           train >= required, TestSize(total, train, folds) >= required
    PROVE  LET f == Folds(total, train, required, folds)
               size == TestSize(total, train, folds)
           IN  /\ DOMAIN f = 1..folds
               /\ size \in Int /\ folds * size <= total - train
               /\ total - train - folds * size < folds
               /\ \A i \in 1..folds : /\ f[i].train = train + (i - 1) * size
                                      /\ f[i].to = train + i * size
  <1> DEFINE size == TestSize(total, train, folds)
             f == Folds(total, train, required, folds)
  <1>1. /\ size \in Int /\ size >= 0
        /\ size * folds <= total - train
        /\ total - train - size * folds < folds
    BY Parts DEF TestSize
  <1>0. ~(train < required \/ size < required)
    BY <1>1
  <1>2. f = [i \in 1..folds |->
               [train |-> train + (i - 1) * size,
                to |-> Min({train + (i - 1) * size + size, total})]]
    BY <1>0, Zenon DEF Folds
  <1> HIDE DEF size, f
  <1>3. ASSUME NEW i \in 1..folds
        PROVE  Min({train + (i - 1) * size + size, total}) = train + i * size
    <2>1. (i - 1) * size \in Int /\ i * size \in Int /\ (i - 1) * size + size = i * size
      BY <1>1
    <2>2. i * size <= folds * size
      BY <1>1, Z3
    <2>3. folds * size = size * folds
      BY <1>1
    <2>4. train + (i - 1) * size + size = train + i * size
      BY <1>1, <2>1, Sums
    <2>5. train + i * size \in Int /\ train + i * size <= total
      BY <1>1, <2>1, <2>2, <2>3
    <2> QED  BY <2>4, <2>5, MinOfTwo
  <1>4. \A i \in 1..folds : f[i].train = train + (i - 1) * size /\ f[i].to = train + i * size
    BY <1>2, <1>3
  <1>5. folds * size = size * folds
    BY <1>1
  <1> QED  BY <1>1, <1>2, <1>4, <1>5 DEF size, f

(* The windows of the walk-forward validation follow one another without a *)
(* gap or an overlap, are long enough, end less than folds candles before  *)
(* the end of the data, and are missing only when they would be too short; *)
(* also when the float product of the ratio falls short of its value.      *)
THEOREM WindowsAreSound ==
    ASSUME NEW total \in Nat, NEW required \in Nat, NEW folds \in Nat \ {0}
    PROVE  FoldsAreSound(total, required, folds)
  <1> SUFFICES ASSUME NEW train \in TrainSizes(total)
               PROVE  LET f == Folds(total, train, required, folds)
                      IN IF f = <<>>
                         THEN train < required \/ total - train < folds * required
                         ELSE /\ f[1].train = train /\ train >= required
                              /\ \A i \in 2..folds : f[i].train = f[i - 1].to
                              /\ \A i \in 1..folds : f[i].to - f[i].train >= required
                              /\ total - f[folds].to \in 0..(folds - 1)
    BY DEF FoldsAreSound
  <1> DEFINE size == TestSize(total, train, folds)
             f == Folds(total, train, required, folds)
  <1>1. train \in Int
    BY TrainSizesAreWhole
  <1>2. CASE train < required
    BY <1>2 DEF Folds
  <1>3. CASE size < required
    <2>1. total - train < folds * required
      BY <1>1, <1>3, TooShort DEF TestSize
    <2>2. f = <<>>
      BY <1>3 DEF Folds
    <2> QED  BY <2>1, <2>2
  <1>4. CASE train >= required /\ size >= required
    <2>1. /\ DOMAIN f = 1..folds
          /\ size \in Int /\ folds * size <= total - train
          /\ total - train - folds * size < folds
          /\ \A i \in 1..folds : f[i].train = train + (i - 1) * size
                              /\ f[i].to = train + i * size
      BY <1>1, <1>4, FoldsFromHere
    <2> HIDE DEF f, size
    <2>2. f # <<>>
      BY <2>1
    <2>3. f[1].train = train
      BY <1>1, <2>1
    <2>4. ASSUME NEW i \in 2..folds PROVE f[i].train = f[i - 1].to
      BY <2>1
    <2>5. ASSUME NEW i \in 1..folds PROVE f[i].to - f[i].train >= required
      <3>1. /\ (i - 1) * size \in Int /\ i * size \in Int
            /\ (i - 1) * size + size = i * size
        BY <2>1
      <3>2. f[i].to - f[i].train = (train + i * size) - (train + (i - 1) * size)
        BY <2>1
      <3>3. f[i].to - f[i].train = size
        BY <1>1, <2>1, <3>1, <3>2, Sums
      <3> QED  BY <1>4, <2>1, <3>3
    <2>6. total - f[folds].to \in 0..(folds - 1)
      <3>1. f[folds].to = train + folds * size /\ folds * size \in Int
        BY <2>1
      <3> QED  BY <1>1, <2>1, <3>1
    <2> QED  BY <1>4, <2>2, <2>3, <2>4, <2>5, <2>6 DEF f
  <1>5. train < required \/ size < required \/ (train >= required /\ size >= required)
    <2>1. size \in Int
      BY <1>1, Parts DEF TestSize
    <2> QED  BY <1>1, <2>1
  <1> QED  BY <1>2, <1>3, <1>4, <1>5

-----------------------------------------------------------------------------
(* Folds                                                                   *)

LEMMA MaxIsLargest ==
  ASSUME NEW n \in Nat, NEW U \in SUBSET (1 .. n), U # {}
  PROVE  Max(U) \in U /\ \A y \in U : Max(U) >= y
  <1> DEFINE gaps == {n - x : x \in U}
  <1>1. gaps \in SUBSET Nat /\ gaps # {}
    <2>1. \A x \in U : n - x \in Nat
      OBVIOUS
    <2>2. PICK x \in U : TRUE
      OBVIOUS
    <2> QED
      BY <2>1, <2>2
  <1>2. PICK d \in gaps : \A e \in gaps : d <= e
    BY <1>1, LeastNumber
  <1>3. PICK x \in U : d = n - x
    BY <1>2
  <1>4. \A y \in U : n - y \in gaps /\ y \in Int
    OBVIOUS
  <1>5. \A y \in U : x >= y
    BY <1>2, <1>3, <1>4
  <1> QED
    BY <1>5 DEF Max

LEMMA MaxOfPrefix ==
  ASSUME NEW n \in Nat \ {0}
  PROVE  /\ Max(1 .. n) = n
         /\ (1 .. n) \ {Max(1 .. n)} = 1 .. n - 1
  <1>1. Max(1 .. n) \in 1 .. n /\ \A y \in 1 .. n : Max(1 .. n) >= y
    <2>1. n \in Nat /\ 1 .. n \in SUBSET (1 .. n) /\ 1 .. n # {}
      OBVIOUS
    <2> QED
      BY <2>1, MaxIsLargest
  <1>2. Max(1 .. n) = n
    <2> DEFINE m == Max(1 .. n)
    <2>1. m \in 1 .. n /\ m >= n
      BY <1>1
    <2> HIDE DEF m
    <2>2. m = n
      BY <2>1
    <2> QED
      BY <2>2 DEF m
  <1> QED
    BY <1>2

(* What a fold over 1 .. n computes for each subset of it: F takes the     *)
(* element in hand and the value so far.                                   *)
FoldStep(F, base, g, U) == IF U = {} THEN base ELSE F[<<Max(U), g[U \ {Max(U)}]>>]
StepFunctions(n, A) == [(1 .. n) \X A -> A]
Folded(n, A, base, F, g) ==
    /\ g \in [SUBSET (1 .. n) -> A]
    /\ \A U \in SUBSET (1 .. n) : g[U] = FoldStep(F, base, g, U)

LEMMA FoldExists ==
  ASSUME NEW n \in Nat, NEW A, NEW base \in A, NEW F \in StepFunctions(n, A)
  PROVE  \E g : Folded(n, A, base, F, g)
  <1> USE DEF StepFunctions
  <1> DEFINE S == 1 .. n
             Good(m) == \E g \in [Small(S, m) -> A] :
                            \A U \in Small(S, m) : g[U] = FoldStep(F, base, g, U)
             bad == {m \in Nat : ~Good(m)}
  <1>0. IsFiniteSet(S) /\ Cardinality(S) = n
    BY FS_Interval
  <1>1. \A U \in SUBSET S : IsFiniteSet(U) /\ Cardinality(U) \in Nat /\ Cardinality(U) <= n
    <2> SUFFICES ASSUME NEW U \in SUBSET S
                 PROVE  IsFiniteSet(U) /\ Cardinality(U) \in Nat /\ Cardinality(U) <= n
      OBVIOUS
    <2> HIDE DEF S
    <2>1. IsFiniteSet(U) /\ Cardinality(U) <= n
      BY <1>0, FS_Subset
    <2> QED
      BY <2>1, FS_CardinalityType
  <1>2. ASSUME bad # {} PROVE FALSE
    <2>1. PICK m \in bad : \A k \in bad : m <= k
      BY <1>2, LeastNumber
    <2>2. CASE m = 0
      <3> DEFINE g == [U \in Small(S, 0) |-> base]
      <3>1. \A U \in Small(S, 0) : U = {}
        BY <1>1, FS_EmptySet DEF Small
      <3>2. \A U \in Small(S, 0) : g[U] = FoldStep(F, base, g, U)
        BY <3>1 DEF FoldStep
      <3>3. g \in [Small(S, 0) -> A]
        OBVIOUS
      <3> QED
        BY <2>1, <2>2, <3>2, <3>3
    <2>3. CASE m # 0
      <3>1. m - 1 \in Nat /\ m - 1 \notin bad
        BY <2>1, <2>3
      <3>2. PICK g \in [Small(S, m - 1) -> A] :
                \A U \in Small(S, m - 1) : g[U] = FoldStep(F, base, g, U)
        BY <3>1
      <3> DEFINE h == [U \in Small(S, m) |-> FoldStep(F, base, g, U)]
      <3>3. Small(S, m - 1) \subseteq Small(S, m)
        BY <1>1, <3>1 DEF Small
      <3>4. \A U \in Small(S, m - 1) : h[U] = g[U]
        BY <3>2, <3>3
      <3>5. ASSUME NEW U \in Small(S, m)
            PROVE  FoldStep(F, base, g, U) = FoldStep(F, base, h, U)
                   /\ FoldStep(F, base, g, U) \in A
        <4>1. CASE U = {}
          BY <4>1 DEF FoldStep
        <4>2. CASE U # {}
          <5>1. U \in SUBSET S /\ Max(U) \in U
            BY <4>2, MaxIsLargest DEF Small
          <5>2. U \ {Max(U)} \in Small(S, m - 1)
            <6> DEFINE x == Max(U)
            <6>1. x \in U /\ IsFiniteSet(U) /\ Cardinality(U) <= m /\ Cardinality(U) \in Nat
              BY <1>1, <5>1 DEF Small
            <6> HIDE DEF x
            <6>2. Cardinality(U \ {x}) = Cardinality(U) - 1
              BY <6>1, FS_RemoveElement
            <6>3. U \ {x} \in SUBSET S /\ Cardinality(U \ {x}) <= m - 1
              BY <2>1, <5>1, <6>1, <6>2
            <6> QED
              BY <6>3 DEF Small, x
          <5>3. g[U \ {Max(U)}] \in A /\ <<Max(U), g[U \ {Max(U)}]>> \in (1 .. n) \X A
            BY <5>1, <5>2
          <5>4. F[<<Max(U), g[U \ {Max(U)}]>>] \in A
            BY <5>3
          <5> QED
            BY <3>4, <4>2, <5>2, <5>4 DEF FoldStep
        <4> QED
          BY <4>1, <4>2
      <3>6. h \in [Small(S, m) -> A] /\ \A U \in Small(S, m) : h[U] = FoldStep(F, base, h, U)
        BY <3>5
      <3> HIDE DEF h
      <3> QED
        BY <2>1, <3>6
    <2> QED
      BY <2>2, <2>3
  <1>3. Good(n)
    BY <1>2
  <1>4. Small(S, n) = SUBSET S
    BY <1>1 DEF Small
  <1> QED
    BY <1>3, <1>4 DEF Folded

(* What holds of the first value and is kept by every step holds of all.   *)
LEMMA AlongPrefixes ==
  ASSUME NEW n \in Nat, NEW h, NEW A, h[0] \in A,
         \A i \in 1 .. n : h[i - 1] \in A => h[i] \in A
  PROVE  \A i \in 0 .. n : h[i] \in A
  <1> DEFINE bad == {i \in 0 .. n : h[i] \notin A}
  <1>1. SUFFICES ASSUME bad # {} PROVE FALSE
    OBVIOUS
  <1>2. PICK i \in bad : \A j \in bad : i <= j
    <2>1. bad \in SUBSET Nat /\ bad # {}
      BY <1>1
    <2> HIDE DEF bad
    <2> QED
      BY <2>1, LeastNumber
  <1>3. i \in 1 .. n /\ i - 1 \in 0 .. n /\ i - 1 \notin bad
    BY <1>2
  <1> QED
    BY <1>2, <1>3

LEMMA PrefixInduction ==
  ASSUME NEW n \in Nat, NEW T \in SUBSET (0 .. n), 0 \in T,
         \A i \in 1 .. n : i - 1 \in T => i \in T
  PROVE  T = 0 .. n
  <1>1. T \in SUBSET Nat
    OBVIOUS
  <1> DEFINE h == [i \in 0 .. n |-> i]
  <1>2. \A i \in 1 .. n : h[i - 1] \in T => h[i] \in T
    BY \A i \in 1 .. n : i - 1 \in 0 .. n /\ i \in 0 .. n
  <1>3. h[0] \in T /\ \A i \in 0 .. n : h[i] = i
    OBVIOUS
  <1> HIDE DEF h
  <1>4. \A i \in 0 .. n : h[i] \in T
    BY <1>2, <1>3, AlongPrefixes
  <1> QED
    BY <1>3, <1>4

-----------------------------------------------------------------------------
(* The backtest                                                            *)

Quoted(candles) == \A i \in DOMAIN candles : candles[i].close \in Nat \ {0}

SellsFollowBuys(quantity, buys, sells) ==
    sells <= buys /\ (quantity > 0 => sells < buys)

(* Cash and coins are never negative, and every sell sold something that   *)
(* was bought.                                                             *)
BookRecords == [balance : Nat, quantity : Nat, cost : Int, buys : Nat, wins : Nat,
                losses : Nat, curve : Seq(Int)]
Books == {b \in BookRecords :
             /\ SellsFollowBuys(b.quantity, b.buys, b.wins + b.losses)
             /\ Len(b.curve) > 0}

LEMMA BooksFields ==
  ASSUME NEW b \in Books
  PROVE  /\ b.balance \in Nat /\ b.quantity \in Nat /\ b.cost \in Int
         /\ b.buys \in Nat /\ b.wins \in Nat /\ b.losses \in Nat /\ b.curve \in Seq(Int)
         /\ b.wins + b.losses <= b.buys
         /\ b.quantity > 0 => b.wins + b.losses < b.buys
         /\ Len(b.curve) > 0
  BY DEF Books, BookRecords, SellsFollowBuys

Updated(b, balance, quantity, cost, buys, wins, losses) ==
    [b EXCEPT !.balance = balance, !.quantity = quantity, !.cost = cost,
              !.buys = buys, !.wins = wins, !.losses = losses]

LEMMA UpdatedFields ==
  ASSUME NEW b \in Books, NEW balance, NEW quantity, NEW cost, NEW buys, NEW wins, NEW losses
  PROVE  LET new == Updated(b, balance, quantity, cost, buys, wins, losses)
         IN  /\ new.balance = balance /\ new.quantity = quantity /\ new.cost = cost
             /\ new.buys = buys /\ new.wins = wins /\ new.losses = losses
             /\ new.curve = b.curve
  BY DEF Books, BookRecords, Updated

LEMMA UpdatedBooks ==
  ASSUME NEW b \in Books, NEW balance \in Nat, NEW quantity \in Nat, NEW cost \in Int,
         NEW buys \in Nat, NEW wins \in Nat, NEW losses \in Nat,
         SellsFollowBuys(quantity, buys, wins + losses)
  PROVE  Updated(b, balance, quantity, cost, buys, wins, losses) \in Books
  <1> DEFINE new == Updated(b, balance, quantity, cost, buys, wins, losses)
  <1>1. b \in BookRecords /\ Len(b.curve) > 0
    BY DEF Books
  <1>2. new \in BookRecords
    BY <1>1 DEF BookRecords, Updated
  <1>3. /\ new.quantity = quantity /\ new.buys = buys /\ new.wins = wins
        /\ new.losses = losses /\ new.curve = b.curve
    BY UpdatedFields
  <1> HIDE DEF new
  <1>4. new \in Books
    BY <1>1, <1>2, <1>3 DEF Books
  <1> QED
    BY <1>4 DEF new

LEMMA ShareOf ==
  ASSUME NEW a \in Nat, NEW d \in Nat \ {0}
  PROVE  a \div d \in Nat /\ a \div d <= a /\ (a \div d) * d <= a
  OBVIOUS

LEMMA ProductOfNats == ASSUME NEW a \in Nat, NEW b \in Nat PROVE a * b \in Nat
  OBVIOUS

LEMMA DivOfProduct ==
  ASSUME NEW c \in Int, NEW q \in Nat \ {0}
  PROVE  (c * q) \div q = c
  OBVIOUS

LEMMA Prices ==
  ASSUME NEW price \in Nat \ {0}
  PROVE  /\ ExecPrice(price, "buy") \in Nat \ {0}
         /\ ExecPrice(price, "sell") \in Nat
         /\ price <= ExecPrice(price, "buy")
         /\ ExecPrice(price, "sell") = price - price \div ImpactDen
  <1>1. price \div ImpactDen \in Nat /\ price \div ImpactDen <= price
    BY ShareOf, BacktestAssumption
  <1> QED
    BY <1>1 DEF ExecPrice

LEMMA BuyKeepsBooks ==
  ASSUME NEW b \in Books, NEW price \in Nat \ {0}, CanBuy(b)
  PROVE  LET next == BacktestBuy(b, price)
         IN  /\ next \in Books /\ next.curve = b.curve
             /\ next.balance = b.balance - OrderAmount - OrderAmount \div CommissionDen
             /\ next.quantity = b.quantity + OrderAmount \div ExecPrice(price, "buy")
             /\ next.buys = b.buys + 1 /\ next.wins = b.wins /\ next.losses = b.losses
  <1> DEFINE fee == OrderAmount \div CommissionDen
             coins == OrderAmount \div ExecPrice(price, "buy")
  <1>1. fee \in Nat
    BY ShareOf, BacktestAssumption
  <1>2. coins \in Nat
    BY Prices, ShareOf, BacktestAssumption
  <1>3. b.balance - OrderAmount - fee \in Nat
    <2>1. b.balance \in Nat /\ OrderAmount \in Nat
      BY BooksFields, BacktestAssumption
    <2>2. OrderAmount + fee <= b.balance
      BY DEF CanBuy
    <2> HIDE DEF fee
    <2> QED
      BY <1>1, <2>1, <2>2
  <1> DEFINE next == Updated(b, b.balance - OrderAmount - fee, b.quantity + coins,
                             b.cost + OrderAmount, b.buys + 1, b.wins, b.losses)
  <1>4. BacktestBuy(b, price) = next
    BY DEF BacktestBuy, Books, BookRecords, Updated
  <1> HIDE DEF fee, coins
  <1>5. OrderAmount \in Nat
    BY BacktestAssumption
  <1>6. /\ b.quantity + coins \in Nat /\ b.cost + OrderAmount \in Int /\ b.buys + 1 \in Nat
        /\ b.wins \in Nat /\ b.losses \in Nat
        /\ b.wins + b.losses < b.buys + 1 /\ b.wins + b.losses <= b.buys + 1
    BY BooksFields, <1>2, <1>5
  <1>7. /\ next \in Books /\ next.curve = b.curve
        /\ next.balance = b.balance - OrderAmount - fee
        /\ next.quantity = b.quantity + coins
        /\ next.buys = b.buys + 1 /\ next.wins = b.wins /\ next.losses = b.losses
    <2> DEFINE balance == b.balance - OrderAmount - fee
               quantity == b.quantity + coins
               cost == b.cost + OrderAmount
               buys == b.buys + 1
               wins == b.wins
               losses == b.losses
    <2>1. /\ balance \in Nat /\ quantity \in Nat /\ cost \in Int /\ buys \in Nat
          /\ wins \in Nat /\ losses \in Nat /\ SellsFollowBuys(quantity, buys, wins + losses)
      BY <1>3, <1>6 DEF SellsFollowBuys
    <2> HIDE DEF balance, quantity, cost, buys, wins, losses
    <2> DEFINE new == Updated(b, balance, quantity, cost, buys, wins, losses)
    <2>2. /\ new \in Books /\ new.curve = b.curve
          /\ new.balance = balance /\ new.quantity = quantity
          /\ new.buys = buys /\ new.wins = wins /\ new.losses = losses
      <3>1. new \in Books
        BY <2>1, UpdatedBooks
      <3> QED
        BY <3>1, UpdatedFields
    <2>3. next = new
      BY DEF balance, quantity, cost, buys, wins, losses
    <2> HIDE DEF new, next
    <2> QED
      BY <2>2, <2>3 DEF balance, quantity, buys, wins, losses
  <1> QED
    BY <1>4, <1>7 DEF fee, coins

LEMMA SellKeepsBooks ==
  ASSUME NEW b \in Books, NEW price \in Nat \ {0}, b.quantity > 0
  PROVE  LET next == BacktestSell(b, price)
             proceeds == b.quantity * ExecPrice(price, "sell")
         IN  /\ next \in Books /\ next.curve = b.curve
             /\ next.balance = b.balance + proceeds - proceeds \div CommissionDen
             /\ next.quantity = 0 /\ next.buys = b.buys
             /\ next.wins + next.losses = b.wins + b.losses + 1
  <1> DEFINE proceeds == b.quantity * ExecPrice(price, "sell")
             fee == proceeds \div CommissionDen
             wins == IF proceeds > b.cost THEN b.wins + 1 ELSE b.wins
             losses == IF proceeds > b.cost THEN b.losses ELSE b.losses + 1
  <1>1. proceeds \in Nat
    <2>1. b.quantity \in Nat /\ ExecPrice(price, "sell") \in Nat
      BY Prices, BooksFields
    <2> QED
      BY <2>1, ProductOfNats
  <1> DEFINE next == Updated(b, b.balance + proceeds - fee, 0, 0, b.buys, wins, losses)
  <1>2. BacktestSell(b, price) = next
    BY DEF BacktestSell, Books, BookRecords, Updated
  <1> HIDE DEF proceeds
  <1>3. fee \in Nat /\ fee <= proceeds
    BY <1>1, ShareOf, BacktestAssumption
  <1>5. /\ wins \in Nat /\ losses \in Nat /\ wins + losses = b.wins + b.losses + 1
        /\ wins + losses <= b.buys /\ b.buys \in Nat
    BY BooksFields
  <1> HIDE DEF fee, wins, losses
  <1>4. b.balance + proceeds - fee \in Nat
    BY <1>1, <1>3, BooksFields
  <1>6. /\ next \in Books /\ next.curve = b.curve
        /\ next.balance = b.balance + proceeds - fee
        /\ next.quantity = 0 /\ next.buys = b.buys
        /\ next.wins = wins /\ next.losses = losses
    <2>1. PICK balance \in Nat, buys \in Nat, zero \in Nat :
              balance = b.balance + proceeds - fee /\ buys = b.buys /\ zero = 0
      BY <1>4, <1>5
    <2>2. PICK w \in Nat, l \in Nat : w = wins /\ l = losses
      BY <1>5
    <2>3. SellsFollowBuys(zero, buys, w + l) /\ zero \in Int
      BY <1>5, <2>1, <2>2 DEF SellsFollowBuys
    <2> DEFINE new == Updated(b, balance, zero, zero, buys, w, l)
    <2>4. /\ new \in Books /\ new.curve = b.curve
          /\ new.balance = balance /\ new.quantity = zero
          /\ new.buys = buys /\ new.wins = w /\ new.losses = l
      <3>1. new \in Books
        BY <2>3, UpdatedBooks
      <3> QED
        BY <3>1, UpdatedFields
    <2>5. next = new
      BY <2>1, <2>2
    <2> HIDE DEF new, next
    <2> QED
      BY <2>1, <2>2, <2>4, <2>5
  <1> QED
    BY <1>2, <1>5, <1>6 DEF fee, proceeds

Traded(b, action, price) ==
    IF action = "buy" /\ CanBuy(b) THEN BacktestBuy(b, price)
    ELSE IF action = "sell" /\ b.quantity > 0 THEN BacktestSell(b, price) ELSE b

LEMMA StepIsTraded ==
  ASSUME NEW b, NEW action, NEW price
  PROVE  LET after == Traded(b, action, price)
         IN  BacktestStep(b, action, price) =
               [after EXCEPT !.curve = Append(@, after.balance + after.quantity * price)]
  BY DEF BacktestStep, Traded

LEMMA TradedKeepsBooks ==
  ASSUME NEW b \in Books, NEW action, NEW price \in Nat \ {0}
  PROVE  /\ Traded(b, action, price) \in Books
         /\ Traded(b, action, price).curve = b.curve
  <1>2. CASE action = "buy" /\ CanBuy(b)
    BY <1>2, BuyKeepsBooks DEF Traded
  <1>3. CASE action = "sell" /\ b.quantity > 0
    BY <1>3, SellKeepsBooks DEF Traded
  <1> QED
    BY <1>2, <1>3 DEF Traded

LEMMA StepKeepsBooks ==
  ASSUME NEW b \in Books, NEW action, NEW price \in Nat \ {0}
  PROVE  LET after == Traded(b, action, price)
             next == BacktestStep(b, action, price)
         IN  /\ next \in Books
             /\ next.curve = Append(b.curve, after.balance + after.quantity * price)
             /\ next.balance = after.balance /\ next.quantity = after.quantity
             /\ next.buys = after.buys /\ next.wins = after.wins
             /\ next.losses = after.losses
  <1> DEFINE after == Traded(b, action, price)
             equity == after.balance + after.quantity * price
  <1>1. after \in Books /\ after.curve = b.curve
    BY TradedKeepsBooks
  <1>2. equity \in Int
    <2>1. after.balance \in Nat /\ after.quantity \in Nat /\ price \in Nat
      BY <1>1, BooksFields
    <2> HIDE DEF after
    <2>2. after.quantity * price \in Nat
      BY <2>1, ProductOfNats
    <2> QED
      BY <2>1, <2>2
  <1>3. BacktestStep(b, action, price) = [after EXCEPT !.curve = Append(@, equity)]
    BY StepIsTraded
  <1> HIDE DEF after, equity
  <1>4. Append(after.curve, equity) \in Seq(Int) /\ Len(Append(after.curve, equity)) > 0
    <2>1. after.curve \in Seq(Int)
      BY <1>1, BooksFields
    <2> DEFINE curve == after.curve
    <2> HIDE DEF curve
    <2>2. Append(curve, equity) \in Seq(Int) /\ Len(Append(curve, equity)) = Len(curve) + 1
          /\ Len(curve) \in Nat
      BY <1>2, <2>1 DEF curve
    <2> QED
      BY <2>2 DEF curve
  <1> DEFINE next == [after EXCEPT !.curve = Append(after.curve, equity)]
  <1>5. /\ next \in Books
        /\ next.curve = Append(after.curve, equity)
        /\ next.balance = after.balance /\ next.quantity = after.quantity
        /\ next.buys = after.buys /\ next.wins = after.wins
        /\ next.losses = after.losses
    <2>1. after \in BookRecords
      BY <1>1 DEF Books
    <2>2. next \in BookRecords
      BY <1>4, <2>1 DEF BookRecords
    <2>3. /\ next.curve = Append(after.curve, equity)
          /\ next.balance = after.balance /\ next.quantity = after.quantity
          /\ next.buys = after.buys /\ next.wins = after.wins
          /\ next.losses = after.losses
      BY <2>1 DEF BookRecords
    <2> HIDE DEF next
    <2>4. next \in Books
      BY <1>1, <1>4, <2>2, <2>3 DEF Books
    <2> QED
      BY <2>3, <2>4
  <1> QED
    BY <1>1, <1>3, <1>5 DEF after, equity

(* The fold that a run is, over the candles after the first ones.          *)
TradedDays(candles) == [n \in 1..(Len(candles) - Required) |-> n + Required]

RunDone(candles, g) ==
    g = [U \in SUBSET (DOMAIN TradedDays(candles)) |->
           IF U = {} THEN Fresh
           ELSE BacktestStep(g[U \ {Max(U)}],
                             Breakout(Window(candles, TradedDays(candles)[Max(U)])),
                             candles[TradedDays(candles)[Max(U)]].close)]

LEMMA RunUnfolds ==
  ASSUME NEW candles
  PROVE  Run(candles) = (CHOOSE g : RunDone(candles, g))[DOMAIN TradedDays(candles)]
  BY DEF Run, FoldLeft, MapThenFoldSet, RunDone, TradedDays

NextBooks(candles, b, i) ==
    BacktestStep(b, Breakout(Window(candles, i + Required)), candles[i + Required].close)

LEMMA FreshBooks == Fresh \in Books
  <1> DEFINE curve == <<InitialBalance>>
  <1>1. InitialBalance \in Nat
    BY BacktestAssumption
  <1>2. curve \in Seq(Int) /\ Len(curve) > 0
    BY <1>1
  <1>3. Fresh = [balance |-> InitialBalance, quantity |-> 0, cost |-> 0,
                 buys |-> 0, wins |-> 0, losses |-> 0, curve |-> curve]
    BY DEF Fresh
  <1> HIDE DEF curve
  <1> QED
    BY <1>1, <1>2, <1>3 DEF Books, BookRecords, SellsFollowBuys

(* A run, candle by candle.                                                *)
LEMMA RunSteps ==
  ASSUME NEW n \in Nat, NEW candles, DOMAIN candles = 1 .. n + Required,
         Len(candles) = n + Required, Quoted(candles)
  PROVE  \E h : /\ h[0] = Fresh
                /\ \A i \in 1 .. n : h[i] = NextBooks(candles, h[i - 1], i)
                /\ \A i \in 0 .. n : h[i] \in Books
                /\ Run(candles) = h[n]
  <1> DEFINE F == [p \in (1 .. n) \X Books |-> NextBooks(candles, p[2], p[1])]
             days == TradedDays(candles)
             g == CHOOSE g : RunDone(candles, g)
             h == [i \in 0 .. n |-> g[1 .. i]]
  <1>0. DOMAIN days = 1 .. n /\ \A i \in 1 .. n : days[i] = i + Required
    BY DEF TradedDays, Required
  <1> HIDE DEF days
  <1>1. ASSUME NEW b \in Books, NEW i \in 1 .. n
        PROVE  NextBooks(candles, b, i) \in Books
    <2>1. i + Required \in DOMAIN candles
      BY DEF Required
    <2>2. candles[i + Required].close \in Nat \ {0}
      BY <2>1 DEF Quoted
    <2> QED
      BY <2>2, StepKeepsBooks DEF NextBooks
  <1>2. F \in StepFunctions(n, Books)
    <2>1. ASSUME NEW p \in (1 .. n) \X Books
          PROVE  NextBooks(candles, p[2], p[1]) \in Books
      <3>1. p[2] \in Books /\ p[1] \in 1 .. n
        OBVIOUS
      <3> QED
        BY <1>1, <3>1
    <2> QED
      BY <2>1 DEF StepFunctions
  <1>3. PICK e : Folded(n, Books, Fresh, F, e)
    BY <1>2, FreshBooks, FoldExists
  <1>4. RunDone(candles, e)
    <2>1. ASSUME NEW U \in SUBSET (1 .. n), U # {}
          PROVE  e[U] = BacktestStep(e[U \ {Max(U)}], Breakout(Window(candles, days[Max(U)])),
                                     candles[days[Max(U)]].close)
      <3>1. Max(U) \in 1 .. n
        BY <2>1, MaxIsLargest
      <3>2. e[U \ {Max(U)}] \in Books
        BY <1>3 DEF Folded
      <3>3. e[U] = F[<<Max(U), e[U \ {Max(U)}]>>]
        BY <1>3, <2>1 DEF Folded, FoldStep
      <3>4. <<Max(U), e[U \ {Max(U)}]>> \in (1 .. n) \X Books
        BY <3>1, <3>2
      <3>5. e[U] = NextBooks(candles, e[U \ {Max(U)}], Max(U))
        BY <3>3, <3>4
      <3>6. days[Max(U)] = Max(U) + Required
        BY <1>0, <3>1
      <3> QED
        BY <3>5, <3>6 DEF NextBooks
    <2>2. e[{}] = Fresh
      BY <1>3 DEF Folded, FoldStep
    <2>3. e \in [SUBSET (1 .. n) -> Books]
      BY <1>3 DEF Folded
    <2> QED
      BY <1>0, <2>1, <2>2, <2>3 DEF RunDone, days
  <1>5. RunDone(candles, g)
    BY <1>4
  <1>6. Run(candles) = g[1 .. n]
    BY <1>0, RunUnfolds DEF days
  <1> HIDE DEF g
  <1>7. h[0] = Fresh
    <2>1. h[0] = g[1 .. 0] /\ 1 .. 0 = {}
      OBVIOUS
    <2> QED
      BY <1>5, <2>1 DEF RunDone
  <1>8. ASSUME NEW i \in 1 .. n
        PROVE  h[i] = NextBooks(candles, h[i - 1], i)
    <2>1. /\ 1 .. i \in SUBSET (1 .. n) /\ 1 .. i # {}
          /\ Max(1 .. i) = i
          /\ (1 .. i) \ {Max(1 .. i)} = 1 .. i - 1
      BY MaxOfPrefix
    <2>2. g[1 .. i] = BacktestStep(g[1 .. i - 1], Breakout(Window(candles, days[i])),
                                   candles[days[i]].close)
      BY <1>0, <1>5, <2>1 DEF RunDone, days
    <2>3. days[i] = i + Required
      BY <1>0
    <2>4. h[i] = g[1 .. i] /\ h[i - 1] = g[1 .. i - 1]
      OBVIOUS
    <2> QED
      BY <2>2, <2>3, <2>4 DEF NextBooks
  <1>9. Run(candles) = h[n]
    BY <1>6
  <1> HIDE DEF h
  <1>10. \A i \in 1 .. n : h[i - 1] \in Books => h[i] \in Books
    BY <1>1, <1>8
  <1>11. \A i \in 0 .. n : h[i] \in Books
    BY <1>7, <1>10, FreshBooks, AlongPrefixes
  <1> QED
    BY <1>7, <1>8, <1>9, <1>11

(* What a run sees of the candles does not change when one more follows.   *)
LEMMA FrontOfCandles ==
  ASSUME NEW C, NEW candles \in Seq(C), Len(candles) > 0
  PROVE  LET front == Front(candles)
         IN  /\ front \in Seq(C) /\ Len(front) = Len(candles) - 1
             /\ \A i \in 1 .. Len(candles) - 1 : /\ front[i] = candles[i]
                                                 /\ Window(front, i) = Window(candles, i)
  <1> DEFINE front == Front(candles)
  <1>1. front \in Seq(C) /\ Len(front) = Len(candles) - 1
    <2> DEFINE n == Len(candles) - 1
    <2>1. n \in Nat /\ 1 \in Int /\ n \in Int /\ \A i \in 1 .. n : candles[i] \in C
      OBVIOUS
    <2> HIDE DEF n
    <2>2. /\ SubSeq(candles, 1, n) \in Seq(C)
          /\ Len(SubSeq(candles, 1, n)) = IF 1 <= n THEN n - 1 + 1 ELSE 0
      BY <2>1, SubSeqProperties
    <2>3. Len(SubSeq(candles, 1, n)) = n
      BY <2>1, <2>2
    <2> QED
      BY <2>2, <2>3 DEF n, Front
  <1>2. \A i \in 1 .. Len(candles) - 1 : front[i] = candles[i]
    BY DEF Front
  <1> HIDE DEF front
  <1>3. ASSUME NEW i \in 1 .. Len(candles) - 1
        PROVE  Window(front, i) = Window(candles, i)
    BY <1>1, <1>2 DEF Window
  <1> QED
    BY <1>1, <1>2, <1>3 DEF front

(* So a run over one candle more is the run without it and a step.         *)
LEMMA RunOfOneMore ==
  ASSUME NEW C, NEW candles \in Seq(C), Quoted(candles), Len(candles) > Required
  PROVE  /\ Run(Front(candles)) \in Books
         /\ Run(candles) = BacktestStep(Run(Front(candles)), Breakout(candles),
                                        Last(candles).close)
         /\ Len(candles) = Required + 1 => Run(Front(candles)) = Fresh
  <1> DEFINE front == Front(candles)
             n == Len(candles) - Required
  <1>1. /\ front \in Seq(C) /\ Len(front) = Len(candles) - 1
        /\ \A i \in 1 .. Len(candles) - 1 : /\ front[i] = candles[i]
                                            /\ Window(front, i) = Window(candles, i)
    BY FrontOfCandles DEF Required
  <1> HIDE DEF front
  <1>2. /\ n \in Nat /\ n # 0 /\ n - 1 \in Nat /\ Len(candles) = n + Required
        /\ DOMAIN candles = 1 .. n + Required
        /\ Len(front) = (n - 1) + Required /\ DOMAIN front = 1 .. (n - 1) + Required
    BY <1>1 DEF Required
  <1>3. Quoted(front)
    BY <1>1, <1>2 DEF Quoted, Required
  <1> HIDE DEF n
  <1>4. PICK h : /\ h[0] = Fresh
                 /\ \A i \in 1 .. n : h[i] = NextBooks(candles, h[i - 1], i)
                 /\ \A i \in 0 .. n : h[i] \in Books
                 /\ Run(candles) = h[n]
    BY <1>2, RunSteps
  <1>5. PICK k : /\ k[0] = Fresh
                 /\ \A i \in 1 .. n - 1 : k[i] = NextBooks(front, k[i - 1], i)
                 /\ \A i \in 0 .. n - 1 : k[i] \in Books
                 /\ Run(front) = k[n - 1]
    BY <1>2, <1>3, RunSteps
  <1>6. \A i \in 0 .. n - 1 : k[i] = h[i]
    <2> DEFINE bad == {i \in 0 .. n - 1 : k[i] # h[i]}
    <2>1. SUFFICES ASSUME bad # {} PROVE FALSE
      OBVIOUS
    <2>2. PICK i \in bad : \A j \in bad : i <= j
      <3>1. bad \in SUBSET Nat /\ bad # {}
        BY <1>2, <2>1
      <3> HIDE DEF bad
      <3> QED
        BY <3>1, LeastNumber
    <2>3. i # 0
      BY <1>4, <1>5, <2>2
    <2>4. i \in 1 .. n - 1 /\ i \in 1 .. n /\ i - 1 \in 0 .. n - 1 /\ i - 1 \notin bad
      BY <1>2, <2>2, <2>3
    <2>5. k[i - 1] = h[i - 1]
      BY <2>4
    <2>6. i + Required \in 1 .. Len(candles) - 1
      BY <1>2, <2>4 DEF Required
    <2>7. NextBooks(front, k[i - 1], i) = NextBooks(candles, h[i - 1], i)
      BY <1>1, <2>5, <2>6 DEF NextBooks
    <2> QED
      BY <1>4, <1>5, <2>2, <2>4, <2>7
  <1>7. Run(candles) = NextBooks(candles, Run(front), n)
    <2>1. n \in 1 .. n /\ n - 1 \in 0 .. n - 1
      BY <1>2
    <2> QED
      BY <1>4, <1>5, <1>6, <2>1
  <1>8. Window(candles, n + Required) = candles
    BY <1>2 DEF Window
  <1>9. candles[n + Required] = Last(candles)
    BY <1>2 DEF Last
  <1>10. Run(front) \in Books
    BY <1>2, <1>5
  <1>11. Len(candles) = Required + 1 => n - 1 = 0
    BY DEF n, Required
  <1> QED
    BY <1>5, <1>7, <1>8, <1>9, <1>10, <1>11 DEF NextBooks, front

(* The last point of the curve is the equity at the last close.            *)
LEMMA StepIsMarked ==
  ASSUME NEW b \in Books, NEW action, NEW price \in Nat \ {0}
  PROVE  LET next == BacktestStep(b, action, price)
         IN  /\ next \in Books
             /\ next.curve = Append(b.curve, next.balance + next.quantity * price)
             /\ Last(next.curve) = next.balance + next.quantity * price
  <1> DEFINE next == BacktestStep(b, action, price)
             equity == next.balance + next.quantity * price
  <1>1. next \in Books /\ next.curve = Append(b.curve, equity)
    BY StepKeepsBooks
  <1> HIDE DEF next
  <1>2. equity \in Int
    <2>1. next.balance \in Nat /\ next.quantity \in Nat /\ price \in Nat
      BY <1>1, BooksFields
    <2>2. next.quantity * price \in Nat
      BY <2>1, ProductOfNats
    <2> QED
      BY <2>1, <2>2
  <1> HIDE DEF equity
  <1>3. b.curve \in Seq(Int)
    BY BooksFields
  <1>4. Last(Append(b.curve, equity)) = equity
    BY <1>2, <1>3 DEF Last
  <1> QED
    BY <1>1, <1>4 DEF next, equity

LEMMA Distribute ==
  ASSUME NEW a \in Int, NEW b \in Int, NEW c \in Int
  PROVE  a * (b - c) = a * b - a * c /\ (a + b) * c = a * c + b * c /\ a * b \in Int
  OBVIOUS

LEMMA ProductsKeepOrder ==
  ASSUME NEW a \in Nat, NEW b \in Nat, NEW c \in Nat, b <= c
  PROVE  a * b <= a * c
  <1>1. PICK d \in Nat : c = b + d
    BY c - b \in Nat
  <1>2. a * c = a * b + a * d /\ a * d \in Nat
    BY <1>1
  <1> QED
    BY <1>2

LEMMA ProductsGrow ==
  ASSUME NEW a \in Nat \ {0}, NEW b \in Nat, NEW c \in Nat, b < c
  PROVE  a * b < a * c
  <1>1. PICK d \in Nat \ {0} : c = b + d
    BY c - b \in Nat
  <1>2. a * c = a * b + a * d
    BY <1>1
  <1>3. PICK e \in Nat : d = e + 1
    BY <1>1, d - 1 \in Nat
  <1>4. a * d = a * e + a /\ a * e \in Nat
    BY <1>3
  <1> QED
    BY <1>2, <1>4

Orders(b) == b.buys + b.wins + b.losses

(* The equity is taken at an earlier price before the step and at the      *)
(* step's price after it.                                                  *)
LEMMA TradeOnlyCosts ==
  ASSUME NEW b \in Books, NEW action, NEW price \in Nat \ {0}, NEW old \in Nat,
         price >= ImpactDen
  PROVE  LET next == BacktestStep(b, action, price)
             gained == (next.balance + next.quantity * price)
                         - (b.balance + b.quantity * old)
             market == b.quantity * (price - old)
         IN  IF Orders(next) = Orders(b) THEN gained = market ELSE gained < market
  <1> DEFINE after == Traded(b, action, price)
             next == BacktestStep(b, action, price)
  <1>1. /\ next.balance = after.balance /\ next.quantity = after.quantity
        /\ next.buys = after.buys /\ next.wins = after.wins /\ next.losses = after.losses
    BY StepKeepsBooks
  <1>2. /\ b.balance \in Nat /\ b.quantity \in Nat /\ b.buys \in Nat
        /\ b.wins \in Nat /\ b.losses \in Nat
    BY BooksFields
  <1>3. PICK q \in Nat, qp \in Int, qo \in Int :
            q = b.quantity /\ qp = q * price /\ qo = q * old
    BY <1>2, Distribute
  <1>4. b.quantity * (price - old) = qp - qo
    BY <1>3, Distribute
  <1>5. CASE action = "buy" /\ CanBuy(b)
    <2> DEFINE fee == OrderAmount \div CommissionDen
               coins == OrderAmount \div ExecPrice(price, "buy")
    <2>1. after = BacktestBuy(b, price)
      BY <1>5 DEF Traded
    <2>2. /\ after.balance = b.balance - OrderAmount - fee
          /\ after.quantity = b.quantity + coins
          /\ after.buys = b.buys + 1 /\ after.wins = b.wins /\ after.losses = b.losses
      BY <1>5, <2>1, BuyKeepsBooks
    <2>3. fee \in Nat /\ fee > 0
      <3>1. OrderAmount \in Nat /\ CommissionDen \in Nat \ {0} /\ OrderAmount >= CommissionDen
        BY BacktestAssumption
      <3> QED
        BY <3>1
    <2>4. ExecPrice(price, "buy") \in Nat \ {0} /\ price <= ExecPrice(price, "buy")
          /\ OrderAmount \in Nat
      BY Prices, BacktestAssumption
    <2>5. coins \in Nat /\ coins * ExecPrice(price, "buy") <= OrderAmount
      BY <2>4, ShareOf
    <2> HIDE DEF fee, coins
    <2>6. coins * price <= coins * ExecPrice(price, "buy")
      BY <2>4, <2>5, ProductsKeepOrder
    <2>7. coins * price \in Int /\ coins * ExecPrice(price, "buy") \in Int
      BY <2>4, <2>5, Distribute
    <2>8. after.quantity * price = qp + coins * price
      BY <1>3, <2>2, <2>5, Distribute
    <2>9. Orders(next) # Orders(b)
      BY <1>1, <1>2, <2>2 DEF Orders
    <2> HIDE DEF after, next
    <2>10. PICK kp \in Int, kx \in Int :
               kp = coins * price /\ kx = coins * ExecPrice(price, "buy")
      BY <2>7
    <2>11. kp <= kx /\ kx <= OrderAmount
      BY <2>5, <2>6, <2>10
    <2>12. PICK x \in Int, y \in Int :
               /\ x = next.balance + next.quantity * price
               /\ y = b.balance + b.quantity * old
               /\ x = b.balance - OrderAmount - fee + (qp + kp)
               /\ y = b.balance + qo
      <3>1. next.quantity * price = qp + kp /\ b.quantity * old = qo
        BY <1>1, <1>3, <2>8, <2>10
      <3>2. next.balance = b.balance - OrderAmount - fee
        BY <1>1, <2>2
      <3>3. b.balance - OrderAmount - fee + (qp + kp) \in Int /\ b.balance + qo \in Int
        BY <1>2, <1>3, <2>3, <2>4, <2>10
      <3> QED
        BY <3>1, <3>2, <3>3
    <2>13. x - y < qp - qo
      BY <1>2, <1>3, <2>3, <2>4, <2>10, <2>11, <2>12
    <2> QED
      BY <1>4, <2>9, <2>12, <2>13 DEF next
  <1>6. CASE action = "sell" /\ b.quantity > 0
    <2> DEFINE proceeds == b.quantity * ExecPrice(price, "sell")
               fee == proceeds \div CommissionDen
    <2>1. after = BacktestSell(b, price)
      BY <1>6 DEF Traded
    <2>2. /\ after.balance = b.balance + proceeds - fee
          /\ after.quantity = 0 /\ after.buys = b.buys
          /\ after.wins + after.losses = b.wins + b.losses + 1
          /\ after \in Books
      BY <1>6, <2>1, SellKeepsBooks
    <2>3. ExecPrice(price, "sell") \in Nat /\ ExecPrice(price, "sell") < price
      <3>1. price \div ImpactDen \in Nat /\ price \div ImpactDen > 0
        BY BacktestAssumption
      <3> QED
        BY <3>1, Prices
    <2>4. proceeds \in Nat
      BY <1>2, <2>3, ProductOfNats
    <2>5. proceeds < b.quantity * price
      BY <1>2, <1>6, <2>3, ProductsGrow
    <2> HIDE DEF proceeds
    <2>6. fee \in Nat
      BY <2>4, ShareOf, BacktestAssumption
    <2> HIDE DEF fee
    <2>7. after.quantity * price = 0
      BY <2>2
    <2>8. Orders(next) # Orders(b)
      <3>1. after.wins \in Nat /\ after.losses \in Nat
        BY <2>2, BooksFields
      <3> QED
        BY <1>1, <1>2, <2>2, <3>1 DEF Orders
    <2> HIDE DEF after, next
    <2>9. PICK x \in Int, y \in Int :
              /\ x = next.balance + next.quantity * price
              /\ y = b.balance + b.quantity * old
              /\ x = b.balance + proceeds - fee
              /\ y = b.balance + qo
      <3>1. next.quantity * price = 0 /\ b.quantity * old = qo
        BY <1>1, <1>3, <2>7
      <3>2. next.balance = b.balance + proceeds - fee
        BY <1>1, <2>2
      <3>3. b.balance + proceeds - fee \in Int /\ b.balance + qo \in Int
        BY <1>2, <1>3, <2>4, <2>6
      <3> QED
        BY <3>1, <3>2, <3>3
    <2>10. x - y < qp - qo
      BY <1>2, <1>3, <2>4, <2>5, <2>6, <2>9
    <2> QED
      BY <1>4, <2>8, <2>9, <2>10 DEF next
  <1>7. CASE ~(action = "buy" /\ CanBuy(b)) /\ ~(action = "sell" /\ b.quantity > 0)
    <2>1. after = b
      BY <1>7 DEF Traded
    <2>2. Orders(next) = Orders(b)
      BY <1>1, <2>1 DEF Orders
    <2> HIDE DEF after, next
    <2>3. PICK x \in Int, y \in Int :
              /\ x = next.balance + next.quantity * price
              /\ y = b.balance + b.quantity * old
              /\ x = b.balance + qp
              /\ y = b.balance + qo
      <3>1. next.quantity * price = qp /\ b.quantity * old = qo /\ next.balance = b.balance
        BY <1>1, <1>3, <2>1
      <3>2. b.balance + qp \in Int /\ b.balance + qo \in Int
        BY <1>2, <1>3
      <3> QED
        BY <3>1, <3>2
    <2>4. x - y = qp - qo
      BY <1>2, <1>3, <2>3
    <2> QED
      BY <1>4, <2>2, <2>3, <2>4 DEF next
  <1> QED
    BY <1>5, <1>6, <1>7

(* Whatever candles a backtest is given, what it did up to one of them     *)
(* does not change with the ones that follow.                              *)
THEOREM NoCandleIsSeenEarly ==
  ASSUME NEW C, NEW candles \in Seq(C), Quoted(candles)
  PROVE  NoLookAhead(candles)
  <1> SUFFICES ASSUME Len(candles) > Required
               PROVE  IsPrefix(Run(Front(candles)).curve, Run(candles).curve)
    BY DEF NoLookAhead
  <1> DEFINE before == Run(Front(candles))
             price == Last(candles).close
             after == Run(candles)
  <1>1. before \in Books /\ after = BacktestStep(before, Breakout(candles), price)
    BY RunOfOneMore
  <1>2. price \in Nat \ {0}
    BY DEF Quoted, Last, Required
  <1> HIDE DEF before, price, after
  <1>3. after \in Books
        /\ after.curve = Append(before.curve, after.balance + after.quantity * price)
    BY <1>1, <1>2, StepIsMarked
  <1>4. PICK x \in Int : x = after.balance + after.quantity * price
    <2>1. after.balance \in Nat /\ after.quantity \in Nat /\ price \in Nat
      BY <1>2, <1>3, BooksFields
    <2>2. after.quantity * price \in Nat
      BY <2>1, ProductOfNats
    <2> QED
      BY <2>1, <2>2
  <1>5. PICK s \in Seq(Int) : s = before.curve
    BY <1>1, BooksFields
  <1>6. IsPrefix(s, Append(s, x))
    BY DEF IsPrefix
  <1> QED
    BY <1>3, <1>4, <1>5, <1>6 DEF before, after

(* And its orders only cost, at any prices of which the slippage is some.  *)
THEOREM OrdersOnlyCost ==
  ASSUME NEW C, NEW candles \in Seq(C), Quoted(candles),
         \A i \in DOMAIN candles : candles[i].close >= ImpactDen
  PROVE  TradingCosts(candles)
  <1> SUFFICES ASSUME Len(candles) > Required PROVE TradingCosts(candles)
    BY DEF TradingCosts
  <1> DEFINE front == Front(candles)
             prev == Run(front)
             curr == Run(candles)
             price == Last(candles).close
             old == candles[Len(candles) - 1].close
  <1>1. prev \in Books /\ curr = BacktestStep(prev, Breakout(candles), price)
    BY RunOfOneMore
  <1>2. price \in Nat \ {0} /\ old \in Nat \ {0} /\ price >= ImpactDen
    BY DEF Quoted, Last, Required
  <1>3. Last(prev.curve) = prev.balance + prev.quantity * old
    <2>1. /\ front \in Seq(C) /\ Len(front) = Len(candles) - 1
          /\ \A i \in 1 .. Len(candles) - 1 : front[i] = candles[i]
      BY FrontOfCandles DEF Required
    <2>2. CASE Len(candles) = Required + 1
      <3>1. prev = Fresh
        BY <2>2, RunOfOneMore
      <3>2. /\ Fresh.quantity = 0 /\ Fresh.balance = InitialBalance
            /\ Last(Fresh.curve) = InitialBalance
        BY BacktestAssumption DEF Fresh, Last
      <3>3. 0 * old = 0 /\ InitialBalance \in Nat
        BY <1>2, BacktestAssumption
      <3> QED
        BY <3>1, <3>2, <3>3
    <2>3. CASE Len(candles) # Required + 1
      <3> HIDE DEF front
      <3>1. Len(front) > Required
        BY <2>1, <2>3 DEF Required
      <3>2. Quoted(front)
        BY <2>1 DEF Quoted
      <3>3. Last(front).close = old
        BY <2>1, <3>1 DEF Last, Required
      <3>4. Run(Front(front)) \in Books
            /\ prev = BacktestStep(Run(Front(front)), Breakout(front), old)
        BY <2>1, <3>1, <3>2, <3>3, RunOfOneMore
      <3> HIDE DEF prev, old
      <3> QED
        BY <1>2, <3>4, StepIsMarked
    <2> QED
      BY <2>2, <2>3
  <1> HIDE DEF prev, curr, front
  <1> DEFINE gained == Last(curr.curve) - Last(prev.curve)
             market == prev.quantity * (price - old)
  <1> HIDE DEF price, old
  <1>4. curr \in Books /\ Last(curr.curve) = curr.balance + curr.quantity * price
    BY <1>1, <1>2, StepIsMarked
  <1>5. IF Orders(curr) = Orders(prev) THEN gained = market ELSE gained < market
    BY <1>1, <1>2, <1>3, <1>4, TradeOnlyCosts
  <1>6. curr.balance >= 0 /\ curr.wins + curr.losses <= curr.buys
    BY <1>4, BooksFields
  <1> QED
    BY <1>5, <1>6 DEF TradingCosts, Orders, prev, curr, front, price, old
=============================================================================
