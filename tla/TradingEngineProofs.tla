------------------------ MODULE TradingEngineProofs ------------------------
(***************************************************************************)
(* For all symbols, prices, limits and interleavings of the three threads: *)
(* the bot never holds more symbols than max_positions, a position has an  *)
(* average price exactly while it is held but for the one whose order is   *)
(* between its assignments, at most one buy is placed after the loss       *)
(* limit, buys of a symbol respect the cooldown, buys of an hour respect   *)
(* the hourly limit, and between orders the account is a Ledger.           *)
(***************************************************************************)
EXTENDS TradingEngine, Sums, SequenceTheorems

----------------------------------------------------------------------------
(* The inductive invariant                                                 *)

(* Where a buy is cleared; where an order is under way; where it has been  *)
(* taken from the cash and is not recorded yet.                            *)
Cleared == {"order", "buy"}
Inside == {"coins", "average"}
Placed == {"coins", "average", "book"}

(* A thread works with a price of the exchange, only one of them buys, and *)
(* what it buys is an amount that may be asked for.                        *)
Sound(x, j) ==
    /\ j.at # "next" => j.price \in Prices
    /\ j.why = "buy" => x = Strategy /\ j.at \in Placed
    /\ j.at = "buy" \/ j.why = "buy" => j.qty \in Quantities /\ 0 < j.qty

JobsAreSound == \A x \in Threads : Sound(x, job[x])

(* What check_buy and can_trade have found still holds when the order is   *)
(* placed, and the room for the position until it is there, because the    *)
(* other threads only sell.                                                *)
Buying ==
    \/ job[Strategy].at \in Cleared
    \/ job[Strategy].at = "coins" /\ job[Strategy].why = "buy"

ClearedStillHolds ==
    LET s == job[Strategy].sym IN
    /\ job[Strategy].at \in Cleared => Rested(s) /\ pastLimit = 0
    /\ Buying => Cardinality(Held \ {s}) < MaxPositions

(* One order at a time is between its assignments ...                      *)
LockIsExclusive ==
    \A x, y \in Threads : job[x].at \in Inside /\ job[y].at \in Inside => x = y

(* ... and it fits what the account has: the coins to be sold are there,   *)
(* those bought have come, and what a sell leaves has a price.             *)
Fits(j) ==
    /\ j.at = "coins" /\ j.why # "buy" => j.qty <= coins[j.sym]
    /\ j.at = "average" /\ j.why = "buy" => j.qty <= coins[j.sym]
    /\ j.at = "average" /\ j.why # "buy" /\ 0 < coins[j.sym] => 0 < avg[j.sym]

OrdersFit == \A x \in Threads : Fits(job[x])

PastLimitCounts == pastLimit <= 1 /\ (~LossLimitReached => pastLimit = 0)

BookingBuy == job[Strategy].at \in Placed /\ job[Strategy].why = "buy"

Booking(s) == BookingBuy /\ job[Strategy].sym = s

(* A buy is noted in the cooldown, unless the database failed for it; only *)
(* the last one may still be about to be.                                  *)
BuysAreNoted ==
    \A i \in DOMAIN bought :
        /\ bought[i].time <= now
        /\ \/ i \in unnoted
           \/ bought[i].time <= lastOrder[bought[i].sym]
           \/ i = Len(bought) /\ Booking(bought[i].sym)

IInv ==
    /\ TypeOK
    /\ JobsAreSound
    /\ AtMostMaxPositions
    /\ ClearedStillHolds
    /\ PricedWhenHeld
    /\ LockIsExclusive
    /\ OrdersFit
    /\ PastLimitCounts
    /\ BuysAreNoted
    /\ BuysAreSpaced

----------------------------------------------------------------------------
(* Facts about the data                                                    *)

LEMMA ProductIsNat == ASSUME NEW a \in Nat, NEW b \in Nat PROVE a * b \in Nat
  OBVIOUS

LEMMA OrderMoney ==
  ASSUME NEW q \in Nat, NEW p \in Nat
  PROVE  Cost(q, p) \in Nat /\ Proceeds(q, p) \in Nat
  <1>1. q * p \in Nat
    BY ProductIsNat
  <1>2. FeeDen + FeeNum \in Nat /\ FeeDen - FeeNum \in Nat
    BY EngineAssumption
  <1> QED
    BY <1>1, <1>2, ProductIsNat DEF Cost, Proceeds

LEMMA HeldFinite == IsFiniteSet(Held)
  BY EngineAssumption, FS_Subset DEF Held

LEMMA IdleFacts ==
  ASSUME NEW todo \in SUBSET Symbols
  PROVE  /\ Idle(todo) \in Jobs
         /\ Idle(todo).at = "next"
         /\ \A x : Sound(x, Idle(todo))
  <1>1. (CHOOSE s \in Symbols : TRUE) \in Symbols
    BY EngineAssumption
  <1> QED
    BY <1>1 DEF Idle, Jobs, Locations, Reasons, Sound, Placed

LEMMA ThreadsAre == Strategy \in Threads /\ Monitor \in Threads /\ Ws \in Threads
  BY DEF Threads

LEMMA JobType ==
  ASSUME IInv, NEW x \in Threads
  PROVE  job \in [Threads -> Jobs] /\ job[x] \in Jobs /\ job[x].todo \in SUBSET Symbols
  BY DEF IInv, TypeOK, Jobs

LEMMA BoughtType ==
  ASSUME IInv
  PROVE  \A i \in DOMAIN bought :
            bought[i].sym \in Symbols /\ bought[i].time \in Nat
  <1>1. bought \in Seq([sym: Symbols, time: Nat])
    BY DEF IInv, TypeOK
  <1> SUFFICES ASSUME NEW i \in DOMAIN bought
               PROVE  bought[i].sym \in Symbols /\ bought[i].time \in Nat
    OBVIOUS
  <1>2. bought[i] \in [sym: Symbols, time: Nat]
    <2>1. i \in 1 .. Len(bought)
      BY <1>1
    <2> QED
      BY <1>1, <2>1, ElementOfSeq
  <1>3. \A b \in [sym: Symbols, time: Nat] : b.sym \in Symbols /\ b.time \in Nat
    OBVIOUS
  <1> QED
    BY <1>2, <1>3

----------------------------------------------------------------------------
(* Steps without an order                                                  *)

(* A step that leaves the account and the order under way alone.           *)
LEMMA InsideKept ==
  ASSUME IInv, UNCHANGED <<coins, avg>>,
         \A x \in Threads : job[x].at \in Inside \/ job'[x].at \in Inside
                            => job'[x] = job[x]
  PROVE  PricedWhenHeld' /\ LockIsExclusive' /\ OrdersFit'
  <1>1. \A x \in Threads : job[x].at = "average" => job'[x] = job[x]
    BY DEF Inside
  <1>2. Held' = Held
    BY DEF Held
  <1>3. PricedWhenHeld'
    BY <1>1, <1>2 DEF IInv, PricedWhenHeld
  <1>4. LockIsExclusive'
    BY DEF IInv, LockIsExclusive
  <1>5. OrdersFit'
    BY DEF IInv, OrdersFit, Fits, Inside
  <1> QED
    BY <1>3, <1>4, <1>5

(* A step that trades nothing, notes no buy and clears no buy.             *)
LEMMA QuietStep ==
  ASSUME IInv, TypeOK', JobsAreSound',
         UNCHANGED <<account, lastOrder, pnl, audit>>, now' >= now,
         job'[Strategy].at \in Cleared
           => job[Strategy].at \in Cleared /\ job'[Strategy].sym = job[Strategy].sym,
         \A x \in Threads : job[x].at \in Placed \/ job'[x].at \in Placed
                            => job'[x] = job[x]
  PROVE  IInv'
  <1>1. Held' = Held
    BY DEF Held, account
  <1>2. AtMostMaxPositions' /\ PastLimitCounts' /\ BuysAreSpaced'
    BY <1>1 DEF IInv, AtMostMaxPositions, PastLimitCounts,
       LossLimitReached, BuysAreSpaced, account, audit
  <1>3. PricedWhenHeld' /\ LockIsExclusive' /\ OrdersFit'
    BY InsideKept DEF account, Inside, Placed
  <1>4. Buying' => Buying /\ job'[Strategy].sym = job[Strategy].sym
    BY ThreadsAre DEF Buying, Placed
  <1>5. ClearedStillHolds'
    <2>1. Buying' => Cardinality(Held' \ {job'[Strategy].sym}) < MaxPositions
      BY <1>1, <1>4 DEF IInv, ClearedStillHolds
    <2> SUFFICES ASSUME job'[Strategy].at \in Cleared
                 PROVE  Rested(job[Strategy].sym)' /\ pastLimit' = 0
      BY <2>1 DEF ClearedStillHolds
    <2>2. job[Strategy].sym \in Symbols
      BY ThreadsAre, JobType DEF Jobs
    <2>3. \A s \in Symbols : lastOrder[s] \in Int
      BY DEF IInv, TypeOK
    <2>4. now \in Int /\ now' \in Int /\ Cooldown \in Int
      BY EngineAssumption DEF IInv, TypeOK
    <2>5. now - lastOrder[job[Strategy].sym] >= Cooldown /\ pastLimit = 0
      BY DEF IInv, ClearedStillHolds, Rested
    <2>6. now' - lastOrder'[job[Strategy].sym] >= Cooldown
      BY <2>2, <2>3, <2>4, <2>5
    <2> QED
      BY <2>5, <2>6 DEF Rested, audit
  <1>6. BuysAreNoted'
    <2>1. \A s : Booking(s) => Booking(s)'
      BY ThreadsAre DEF Booking, BookingBuy
    <2>2. \A i \in DOMAIN bought : bought[i].time \in Int
      BY BoughtType
    <2>3. now \in Int /\ now' \in Int
      BY DEF IInv, TypeOK
    <2> QED
      BY <2>1, <2>2, <2>3 DEF IInv, BuysAreNoted, audit
  <1> QED
    BY <1>2, <1>3, <1>5, <1>6 DEF IInv

(* The same for a step of one thread, which becomes j.                     *)
LEMMA QuietJob ==
  ASSUME IInv, NEW x \in Threads, NEW j \in Jobs, job' = [job EXCEPT ![x] = j],
         Sound(x, j), job[x].at \notin Placed, j.at \notin Placed,
         j.at \in Cleared => job[x].at \in Cleared /\ j.sym = job[x].sym,
         UNCHANGED <<account, lastOrder, pnl, audit, market, now>>,
         highs' \in [Symbols -> Nat],
         lastSignal' \in [Symbols -> {"none", "buy", "sell"}],
         history' \in [0 .. MaxTime -> Nat],
         cycles' \in Nat,
         failures' \in Nat
  PROVE  IInv'
  <1>1. /\ job' \in [Threads -> Jobs]
        /\ job'[x] = j
        /\ \A u \in Threads \ {x} : job'[u] = job[u]
    BY JobType
  <1>2. TypeOK'
    BY <1>1 DEF IInv, TypeOK, account, audit
  <1>3. JobsAreSound'
    BY <1>1 DEF IInv, JobsAreSound
  <1>4. now' >= now
    BY DEF IInv, TypeOK
  <1>5. job'[Strategy].at \in Cleared
          => job[Strategy].at \in Cleared /\ job'[Strategy].sym = job[Strategy].sym
    BY <1>1, ThreadsAre
  <1>6. \A u \in Threads : job[u].at \in Placed \/ job'[u].at \in Placed
                           => job'[u] = job[u]
    BY <1>1
  <1> QED
    BY <1>2, <1>3, <1>4, <1>5, <1>6, QuietStep

LEMMA MarketStep ==
  ASSUME IInv, NEW s \in Symbols, NEW p \in Prices, MarketMoves(s, p)
  PROVE  IInv'
  <1>1. TypeOK'
    BY DEF MarketMoves, IInv, TypeOK, account, cooling, audit
  <1>2. JobsAreSound' /\ now' >= now
    BY DEF MarketMoves, IInv, JobsAreSound, Sound, TypeOK
  <1> QED
    BY <1>1, <1>2, QuietStep DEF MarketMoves, cooling

LEMMA TickStep ==
  ASSUME IInv, Tick
  PROVE  IInv'
  <1>1. now' \in 0 .. MaxTime /\ now' >= now
    BY EngineAssumption DEF Tick, IInv, TypeOK
  <1>2. TypeOK'
    BY <1>1 DEF Tick, IInv, TypeOK, account, cooling, audit
  <1>3. JobsAreSound'
    BY DEF Tick, IInv, JobsAreSound, Sound
  <1> QED
    BY <1>1, <1>2, <1>3, QuietStep DEF Tick, cooling

(* The tables a step leaves alone keep their types.                        *)
LEMMA Tables ==
  ASSUME IInv
  PROVE  /\ highs \in [Symbols -> Nat]
         /\ lastSignal \in [Symbols -> {"none", "buy", "sell"}]
         /\ history \in [0 .. MaxTime -> Nat]
         /\ cycles \in Nat
         /\ failures \in Nat
         /\ market \in [Symbols -> Prices]
  BY DEF IInv, TypeOK

LEMMA StartCycleStep == ASSUME IInv, StartCycle PROVE IInv'
  <1> DEFINE j == [job[Strategy] EXCEPT !.todo = Symbols]
  <1>1. job[Strategy].at = "next" /\ job[Strategy].why = "none"
    BY DEF StartCycle, Idle
  <1>2. j \in Jobs /\ j.at = "next" /\ Sound(Strategy, j)
    BY <1>1, ThreadsAre, JobType DEF Jobs, Sound
  <1>3. job' = [job EXCEPT ![Strategy] = j]
    BY ThreadsAre, JobType DEF StartCycle
  <1>4. cycles' \in Nat
    BY Tables DEF StartCycle
  <1> QED
    BY <1>1, <1>2, <1>3, <1>4, ThreadsAre, Tables, QuietJob DEF Cleared, Placed, StartCycle, cooling

LEMMA StartRoundStep == ASSUME IInv, StartRound PROVE IInv'
  <1> DEFINE j == [job[Monitor] EXCEPT !.todo = Symbols]
  <1>1. job[Monitor].at = "next" /\ job[Monitor].why = "none"
    BY DEF StartRound, Idle
  <1>2. j \in Jobs /\ j.at = "next" /\ Sound(Monitor, j)
    BY <1>1, ThreadsAre, JobType DEF Jobs, Sound
  <1>3. job' = [job EXCEPT ![Monitor] = j]
    BY ThreadsAre, JobType DEF StartRound
  <1> QED
    BY <1>1, <1>2, <1>3, ThreadsAre, Tables, QuietJob DEF Cleared, Placed, StartRound, cooling, world

(* A thread turns to a symbol with its price.                              *)
LEMMA AtFacts ==
  ASSUME IInv, NEW x \in Threads, NEW s \in Symbols, job[x].at = "next"
  PROVE  /\ [At(x, s) EXCEPT !.at = "look"] \in Jobs
         /\ [At(x, s) EXCEPT !.at = "look"].at = "look"
         /\ Sound(x, [At(x, s) EXCEPT !.at = "look"])
  BY JobType, Tables, EngineAssumption
  DEF At, Jobs, Locations, IInv, JobsAreSound, Sound, Placed

LEMMA StrategyNextStep ==
  ASSUME IInv, NEW s \in Symbols, StrategyNext(s)
  PROVE  IInv'
  BY ThreadsAre, AtFacts, Tables, QuietJob DEF Cleared, Placed, StrategyNext, cooling, world

LEMMA StrategyFailsStep == ASSUME IInv, StrategyFails PROVE IInv'
  BY ThreadsAre, IdleFacts, Tables, QuietJob DEF Cleared, Placed, StrategyFails, cooling, world

LEMMA MonitorNextStep ==
  ASSUME IInv, NEW s \in Symbols, MonitorNext(s) \/ MonitorSkips(s)
  PROVE  IInv'
  <1>1. /\ Idle(job[Monitor].todo \ {s}) \in Jobs
        /\ Idle(job[Monitor].todo \ {s}).at = "next"
        /\ Sound(Monitor, Idle(job[Monitor].todo \ {s}))
    BY ThreadsAre, JobType, IdleFacts
  <1>2. CASE MonitorNext(s)
    BY <1>1, <1>2, ThreadsAre, AtFacts, Tables, QuietJob DEF Cleared, Placed, MonitorNext, cooling, world
  <1>3. CASE MonitorSkips(s)
    BY <1>1, <1>3, ThreadsAre, Tables, QuietJob DEF Cleared, Placed, MonitorSkips, cooling, world
  <1> QED
    BY <1>2, <1>3

LEMMA OnPriceStep ==
  ASSUME IInv, NEW s \in Symbols, OnPrice(s)
  PROVE  IInv'
  BY ThreadsAre, AtFacts, Tables, QuietJob DEF Cleared, Placed, OnPrice, cooling, world

----------------------------------------------------------------------------
(* Stops and signals                                                       *)

LEMMA LookStep == ASSUME IInv, NEW x \in Threads, Look(x) PROVE IInv'
  <1> DEFINE s == job[x].sym
             j == [job[x] EXCEPT !.at = "stops", !.avg = avg[s], !.qty = coins[s]]
  <1>1. s \in Symbols /\ avg[s] \in Nat /\ coins[s] \in Nat
    BY JobType DEF Jobs, IInv, TypeOK
  <1>2. j \in Jobs /\ j.at = "stops" /\ j.price = job[x].price /\ j.why = job[x].why
    BY <1>1, JobType DEF Jobs, Locations
  <1>3. job[x].at = "look" /\ Sound(x, j)
    BY <1>2 DEF Look, IInv, JobsAreSound, Sound, Placed
  <1>4. job' = [job EXCEPT ![x] = j]
    BY JobType DEF Look
  <1> HIDE DEF j
  <1> QED
    BY <1>2, <1>3, <1>4, Tables, QuietJob DEF Cleared, Placed, Look, cooling, world

LEMMA TriggerIsReason == ASSUME NEW j PROVE Trigger(j) \in Reasons \ {"buy"}
  BY DEF Trigger, Reasons

LEMMA HighIsNat ==
  ASSUME IInv, NEW s \in Symbols, NEW p \in Nat
  PROVE  HighAfter(s, p) \in Nat
  BY Tables DEF HighAfter

LEMMA JudgeStep == ASSUME IInv, NEW x \in Threads, Judge(x) PROVE IInv'
  <1> DEFINE j == job[x]
             open == j.qty > 0 /\ j.avg > 0
             why == IF open THEN Trigger(j) ELSE "none"
             after == IF x = Strategy
                      THEN [j EXCEPT !.at = "signal", !.avg = 0, !.qty = 0]
                      ELSE Idle(j.todo)
             next == IF why = "none" THEN after
                     ELSE [j EXCEPT !.at = "pop", !.avg = 0, !.why = why]
  <1>1. j \in Jobs /\ j.at = "stops" /\ j.price \in Prices /\ Sound(x, j)
    BY JobType DEF Judge, IInv, JobsAreSound, Sound
  <1>7. j.why # "buy"
    BY <1>1 DEF Sound, Placed
  <1>2. why \in Reasons \ {"buy"}
    BY TriggerIsReason DEF Reasons
  <1>3. after \in Jobs /\ after.at \in {"signal", "next"}
                       /\ Sound(x, after)
    <2>1. CASE x = Strategy
      BY <1>1, <1>7, <2>1 DEF Jobs, Locations, Sound
    <2>2. CASE x # Strategy
      BY <2>2, JobType, IdleFacts
    <2> QED
      BY <2>1, <2>2
  <1>4. next \in Jobs /\ next.at \in {"signal", "next", "pop"}
                      /\ Sound(x, next)
    <2>1. CASE why = "none"
      BY <2>1, <1>3
    <2>2. CASE why # "none"
      <3> HIDE DEF why
      <3> QED
        BY <2>2, <1>1, <1>2 DEF Jobs, Locations, Sound
    <2> QED
      BY <2>1, <2>2
  <1>5. highs' \in [Symbols -> Nat]
    <2>1. j.sym \in Symbols /\ j.price \in Nat
      BY <1>1 DEF Jobs
    <2>2. HighAfter(j.sym, j.price) \in Nat
      BY <2>1, HighIsNat
    <2>3. highs' = highs \/ highs' = [highs EXCEPT ![j.sym] = HighAfter(j.sym, j.price)]
      BY DEF Judge
    <2> QED
      BY <2>2, <2>3, Tables
  <1>6. job' = [job EXCEPT ![x] = next]
    BY DEF Judge
  <1> HIDE DEF next
  <1> QED
    BY <1>1, <1>4, <1>5, <1>6, Tables, QuietJob DEF Cleared, Placed, Judge, cooling, world

(* A thread goes on with the same job.                                     *)
LEMMA GoFacts ==
  ASSUME IInv, NEW x \in Threads, NEW from, NEW to \in Locations, Go(x, from, to),
         from \notin Placed \cup {"next"}, to # "buy"
  PROVE  LET j == [job[x] EXCEPT !.at = to] IN
         /\ job' = [job EXCEPT ![x] = j]
         /\ j \in Jobs
         /\ j.at = to
         /\ Sound(x, j)
         /\ job[x].at = from
  BY JobType DEF Go, Jobs, IInv, JobsAreSound, Sound, Placed

(* A thread is through with its symbol.                                    *)
LEMMA DoneFacts ==
  ASSUME IInv, NEW x \in Threads, NEW from, Done(x, from)
  PROVE  /\ job' = [job EXCEPT ![x] = Idle(job[x].todo)]
         /\ Idle(job[x].todo) \in Jobs
         /\ Idle(job[x].todo).at = "next"
         /\ Sound(x, Idle(job[x].todo))
         /\ job[x].at = from
  BY JobType, IdleFacts DEF Done

LEMMA PopHighStep == ASSUME IInv, NEW x \in Threads, PopHigh(x) PROVE IInv'
  <1>1. PICK to \in {"sell", "capture"} : Go(x, "pop", to)
    BY DEF PopHigh
  <1>2. highs' \in [Symbols -> Nat]
    BY Tables DEF PopHigh
  <1>3. to \in Locations /\ to \notin Cleared \cup Placed
    BY DEF Locations, Cleared, Placed
  <1> DEFINE j == [job[x] EXCEPT !.at = to]
  <1>4. /\ job' = [job EXCEPT ![x] = j]
        /\ j \in Jobs
        /\ j.at = to
        /\ Sound(x, j)
        /\ job[x].at = "pop"
    BY <1>1, <1>3, GoFacts DEF Cleared, Placed
  <1> HIDE DEF j
  <1> QED
    BY <1>2, <1>3, <1>4, Tables, QuietJob DEF Cleared, Placed, PopHigh, cooling, world

LEMMA CaptureStep == ASSUME IInv, NEW x \in Threads, Capture(x) PROVE IInv'
  <1> DEFINE s == job[x].sym
             j == [job[x] EXCEPT !.at = "sell", !.qty = coins[s]]
  <1>1. job[x].at = "capture" /\ coins[s] \in Nat
    BY JobType DEF Capture, IInv, TypeOK, Jobs
  <1>2. j \in Jobs /\ j.at = "sell" /\ Sound(x, j)
    BY <1>1, JobType DEF Jobs, Locations, IInv, JobsAreSound, Sound, Placed
  <1>3. Idle({}) \in Jobs /\ Idle({}).at = "next" /\ Sound(x, Idle({}))
    BY IdleFacts
  <1>4. job' = [job EXCEPT ![x] = Idle({})] \/ job' = [job EXCEPT ![x] = j]
    BY JobType DEF Capture
  <1> HIDE DEF j
  <1> QED
    BY <1>1, <1>2, <1>3, <1>4, Tables, QuietJob DEF Cleared, Placed, Capture, cooling, world

LEMMA SignalStep ==
  ASSUME IInv, NEW action \in {"buy", "sell", "hold"}, NEW confident \in BOOLEAN,
         Signal(action, confident)
  PROVE  IInv'
  <1>1. PICK to \in {"entry", "exit", "next"} :
           Go(Strategy, "signal", to) \/ Done(Strategy, "signal")
    BY DEF Signal
  <1>2. lastSignal' \in [Symbols -> {"none", "buy", "sell"}]
    BY Tables DEF Signal
  <1>3. to \in Locations /\ to \notin Cleared \cup Placed
    BY DEF Locations, Cleared, Placed
  <1>4. CASE Go(Strategy, "signal", to)
    <2> DEFINE j == [job[Strategy] EXCEPT !.at = to]
    <2>1. /\ job' = [job EXCEPT ![Strategy] = j]
          /\ j \in Jobs
          /\ j.at = to
          /\ Sound(Strategy, j)
          /\ job[Strategy].at = "signal"
      BY <1>3, <1>4, ThreadsAre, GoFacts DEF Cleared, Placed
    <2> HIDE DEF j
    <2> QED
      BY <1>2, <1>3, <2>1, ThreadsAre, Tables, QuietJob DEF Cleared, Placed, Signal, cooling, world
  <1>5. CASE Done(Strategy, "signal")
    BY <1>2, <1>5, DoneFacts, ThreadsAre, Tables, QuietJob DEF Cleared, Placed, Signal, cooling, world
  <1> QED
    BY <1>1, <1>4, <1>5

LEMMA ExitStep == ASSUME IInv, Exit PROVE IInv'
  <1> DEFINE s == job[Strategy].sym
             j == [job[Strategy] EXCEPT !.at = "sell", !.qty = coins[s], !.why = "signal"]
  <1>1. job[Strategy].at = "exit" /\ job[Strategy].price \in Prices /\ coins[s] \in Nat
    BY ThreadsAre, JobType DEF Exit, IInv, JobsAreSound, Sound, TypeOK, Jobs
  <1>2. j \in Jobs /\ j.at = "sell" /\ Sound(Strategy, j)
    BY <1>1, ThreadsAre, JobType DEF Jobs, Locations, Reasons, Sound
  <1>3. job' = [job EXCEPT ![Strategy] = j]
    BY ThreadsAre, JobType DEF Exit
  <1> HIDE DEF j
  <1> QED
    BY <1>1, <1>2, <1>3, ThreadsAre, Tables, QuietJob DEF Cleared, Placed, Exit, cooling, world

----------------------------------------------------------------------------
(* Clearing a buy                                                          *)

LEMMA ConsiderBuyStep == ASSUME IInv, ConsiderBuy PROVE IInv'
  <1> DEFINE s == job[Strategy].sym
             j == [job[Strategy] EXCEPT !.at = "order"]
  <1>1. history' \in [0 .. MaxTime -> Nat]
    BY Tables DEF ConsiderBuy, Pruned
  <1>2. CASE Done(Strategy, "entry")
    BY <1>1, <1>2, DoneFacts, ThreadsAre, Tables, QuietJob DEF Cleared, Placed, ConsiderBuy, world
  <1>3. CASE Go(Strategy, "entry", "order") /\ Rested(s) /\ RiskAllows(s)
    <2>1. /\ job' = [job EXCEPT ![Strategy] = j]
          /\ j \in Jobs
          /\ j.at = "order"
          /\ Sound(Strategy, j)
          /\ j.sym = s
      <3>1. "order" \in Locations /\ "entry" \notin Placed \cup {"next"}
        BY DEF Locations, Placed
      <3>2. /\ job' = [job EXCEPT ![Strategy] = j]
            /\ j \in Jobs
            /\ j.at = "order"
            /\ Sound(Strategy, j)
        BY <1>3, <3>1, ThreadsAre, GoFacts
      <3>3. j.sym = s
        OBVIOUS
      <3> QED
        BY <3>2, <3>3
    <2>2. /\ job' \in [Threads -> Jobs]
          /\ job'[Strategy] = j
          /\ \A u \in Threads \ {Strategy} : job'[u] = job[u]
      <3> HIDE DEF j
      <3> QED
        BY <2>1, ThreadsAre, JobType
    <2> HIDE DEF j
    <2>3. UNCHANGED <<account, lastOrder, pnl, world, audit>>
      BY DEF ConsiderBuy
    <2>4. TypeOK'
      BY <1>1, <2>2, <2>3 DEF ConsiderBuy, IInv, TypeOK, account, world, audit
    <2>5. JobsAreSound'
      BY <2>1, <2>2 DEF IInv, JobsAreSound
    <2>6. Held' = Held
      BY <2>3 DEF Held, account
    <2>7. AtMostMaxPositions' /\ PastLimitCounts' /\ BuysAreSpaced'
      BY <2>3, <2>6 DEF IInv, AtMostMaxPositions, PastLimitCounts,
         LossLimitReached, BuysAreSpaced, account, audit
    <2>12. PricedWhenHeld' /\ LockIsExclusive' /\ OrdersFit'
      BY <1>3, <2>1, <2>2, <2>3, InsideKept DEF Go, Inside, account
    <2>8. Cardinality(Held \ {s}) < MaxPositions
      <3>1. CASE s \notin Held
        <4>1. Held \ {s} = Held
          BY <3>1
        <4> QED
          BY <1>3, <3>1, <4>1 DEF RiskAllows, RoomFor
      <3>2. CASE s \in Held
        <4>1. Cardinality(Held \ {s}) = Cardinality(Held) - 1
          BY <3>2, HeldFinite, FS_RemoveElement
        <4> QED
          BY <4>1, HeldFinite, FS_CardinalityType, EngineAssumption
          DEF IInv, AtMostMaxPositions
      <3> QED
        BY <3>1, <3>2
    <2>9. pastLimit = 0
      BY <1>3 DEF RiskAllows, IInv, PastLimitCounts
    <2>10. ClearedStillHolds'
      BY <1>3, <2>1, <2>2, <2>3, <2>6, <2>8, <2>9
      DEF ClearedStillHolds, Buying, Rested, audit, world
    <2>11. BuysAreNoted'
      <3>1. \A r : ~Booking(r)
        BY <1>3 DEF Booking, BookingBuy, Go, Placed
      <3> QED
        BY <2>3, <3>1 DEF IInv, BuysAreNoted, audit, world
    <2> QED
      BY <2>4, <2>5, <2>7, <2>10, <2>11, <2>12 DEF IInv
  <1> QED
    BY <1>2, <1>3 DEF ConsiderBuy

----------------------------------------------------------------------------
(* Orders                                                                  *)

LEMMA ProductIsInt == ASSUME NEW a \in Int, NEW b \in Int PROVE a * b \in Int
  OBVIOUS

(* What an order realises is a whole number.                               *)
LEMMA GainIsInt ==
  ASSUME NEW q \in Nat, NEW p \in Nat, NEW a \in Nat
  PROVE  /\ q * (p - a) * FeeDen - q * p * FeeNum \in Int
         /\ -(q * p * FeeNum) \in Int
  <1>1. q * (p - a) \in Int /\ q * p \in Int
    BY ProductIsInt
  <1>2. FeeDen \in Int /\ FeeNum \in Int
    BY EngineAssumption
  <1>3. q * (p - a) * FeeDen \in Int /\ q * p * FeeNum \in Int
    BY <1>1, <1>2, ProductIsInt
  <1> QED
    BY <1>3

(* What a thread that trades works with.                                   *)
LEMMA OrderFacts ==
  ASSUME IInv, NEW x \in Threads, job[x].at # "next"
  PROVE  /\ job[x].sym \in Symbols
         /\ job[x].qty \in Nat
         /\ job[x].price \in Prices
         /\ job[x].price \in Nat
         /\ job[x].gain \in Int
         /\ coins[job[x].sym] \in Nat
         /\ avg[job[x].sym] \in Nat
         /\ cash \in Nat
  BY JobType, EngineAssumption DEF IInv, TypeOK, JobsAreSound, Sound, Jobs

(* A thread takes the broker's lock and moves the cash: what was priced    *)
(* stays so, and the order is the only one under way.                      *)
LEMMA Entering ==
  ASSUME IInv, NEW x \in Threads, LockIsFree, UNCHANGED <<coins, avg>>,
         \A u \in Threads \ {x} : job'[u] = job[u],
         job'[x].at = "coins",
         job'[x].why # "buy" => job'[x].qty <= coins[job'[x].sym]
  PROVE  PricedWhenHeld' /\ LockIsExclusive' /\ OrdersFit'
  <1>1. \A u \in Threads : job[u].at \notin Inside
    BY DEF LockIsFree, Inside
  <1>2. Held' = Held
    BY DEF Held
  <1>3. PricedWhenHeld'
    BY <1>1, <1>2 DEF IInv, PricedWhenHeld, Inside
  <1>4. LockIsExclusive'
    BY <1>1 DEF LockIsExclusive
  <1>5. \A u \in Threads : Fits(job[u])'
    BY <1>1 DEF Fits, Inside
  <1> QED
    BY <1>3, <1>4, <1>5 DEF OrdersFit

(* Between the assignments of an order no other thread is at its own.      *)
LEMMA Alone ==
  ASSUME IInv, NEW x \in Threads, job[x].at \in Inside
  PROVE  \A u \in Threads \ {x} : job[u].at \notin Inside
  BY DEF IInv, LockIsExclusive

LEMMA SellStep == ASSUME IInv, NEW x \in Threads, Sell(x) PROVE IInv'
  <1> DEFINE s == job[x].sym
             q == job[x].qty
             p == job[x].price
             gain == q * (p - avg[s]) * FeeDen - q * p * FeeNum
             j == [job[x] EXCEPT !.at = "coins", !.gain = gain]
  <1>1. job[x].at = "sell" /\ LockIsFree
    BY DEF Sell
  <1>2. CASE ~Deliverable(job[x])
    <2>1. Done(x, "sell") /\ UNCHANGED account
      BY <1>2 DEF Sell, account
    <2> QED
      BY <2>1, <1>1, DoneFacts, Tables, QuietJob DEF Sell, Cleared, Placed, cooling, world
  <1>3. CASE Deliverable(job[x])
    <2>1. /\ s \in Symbols
          /\ q \in Nat
          /\ p \in Nat
          /\ avg[s] \in Nat
          /\ cash \in Nat
      BY <1>1, OrderFacts
    <2>2. job[x].why # "buy" /\ Sound(x, job[x])
      BY <1>1 DEF IInv, JobsAreSound, Sound, Placed
    <2>3. /\ cash' = cash + Proceeds(q, p)
          /\ UNCHANGED <<coins, avg, highs, lastSignal, cooling, pnl, world, audit>>
      BY <1>3 DEF Sell
    <2>4. gain \in Int
      BY <2>1, GainIsInt
    <2>5. job' = [job EXCEPT ![x] = j]
      BY <1>3, JobType DEF Sell
    <2>6. /\ j \in Jobs
          /\ j.at = "coins"
          /\ j.sym = s
          /\ j.qty = q
          /\ j.why # "buy"
          /\ Sound(x, j)
      <3> HIDE DEF gain
      <3> QED
        BY <1>1, <2>2, <2>4, JobType DEF Jobs, Locations, Sound
    <2> HIDE DEF j, gain
    <2>7. /\ job' \in [Threads -> Jobs]
          /\ job'[x] = j
          /\ \A u \in Threads \ {x} : job'[u] = job[u]
      BY <2>5, <2>6, JobType
    <2>8. cash' \in Nat
      <3>1. Proceeds(q, p) \in Nat
        BY <2>1, OrderMoney
      <3> QED
        BY <2>1, <2>3, <3>1
    <2>9. TypeOK'
      BY <2>3, <2>7, <2>8 DEF IInv, TypeOK, cooling, world, audit
    <2>10. JobsAreSound'
      BY <2>6, <2>7 DEF IInv, JobsAreSound
    <2>11. PricedWhenHeld' /\ LockIsExclusive' /\ OrdersFit'
      BY <1>1, <1>3, <2>3, <2>6, <2>7, Entering DEF Deliverable
    <2>12. Held' = Held
      BY <2>3 DEF Held
    <2>13. AtMostMaxPositions' /\ PastLimitCounts' /\ BuysAreSpaced'
      BY <2>3, <2>12 DEF IInv, AtMostMaxPositions, PastLimitCounts, LossLimitReached,
         BuysAreSpaced, audit
    <2>14. ClearedStillHolds'
      <3>1. Buying' => Buying /\ job'[Strategy] = job[Strategy]
        BY <2>6, <2>7, ThreadsAre DEF Buying, Cleared
      <3>2. job'[Strategy].at \in Cleared => job'[Strategy] = job[Strategy]
        BY <2>6, <2>7, ThreadsAre DEF Cleared
      <3> QED
        BY <2>3, <2>12, <3>1, <3>2
        DEF IInv, ClearedStillHolds, Rested, cooling, world, audit
    <2>15. BuysAreNoted'
      <3>1. \A r : Booking(r) => Booking(r)'
        BY <1>1, <2>7, ThreadsAre DEF Booking, BookingBuy, Placed
      <3> QED
        BY <2>3, <3>1 DEF IInv, BuysAreNoted, cooling, world, audit
    <2> QED
      BY <2>9, <2>10, <2>11, <2>13, <2>14, <2>15 DEF IInv
  <1> QED
    BY <1>2, <1>3

(* A thread with an order takes its next step.                             *)
LEMMA OrderGoes ==
  ASSUME IInv, NEW x \in Threads, NEW from \in Inside, NEW to \in Placed,
         Go(x, from, to), UNCHANGED <<highs, lastSignal, cooling, pnl, world, audit>>
  PROVE  /\ job' \in [Threads -> Jobs]
         /\ job'[x] = [job[x] EXCEPT !.at = to]
         /\ job'[x].at = to
         /\ job'[x].sym = job[x].sym
         /\ job'[x].qty = job[x].qty
         /\ job'[x].why = job[x].why
         /\ \A u \in Threads \ {x} : job'[u] = job[u]
         /\ JobsAreSound'
         /\ PastLimitCounts' /\ BuysAreSpaced' /\ BuysAreNoted'
  <1>1. /\ job' \in [Threads -> Jobs]
        /\ job'[x] = [job[x] EXCEPT !.at = to]
        /\ \A u \in Threads \ {x} : job'[u] = job[u]
    BY JobType DEF Go, Jobs, Locations, Placed
  <1>2. /\ job'[x].at = to
        /\ job'[x].sym = job[x].sym
        /\ job'[x].qty = job[x].qty
        /\ job'[x].why = job[x].why
        /\ job'[x].price = job[x].price
    BY <1>1, JobType DEF Jobs
  <1>3. Sound(x, job[x]) /\ job[x].at \in Inside
    BY DEF IInv, JobsAreSound, Go
  <1>4. Sound(x, job'[x])
    BY <1>2, <1>3 DEF Sound, Inside, Placed
  <1>5. JobsAreSound'
    BY <1>1, <1>4 DEF IInv, JobsAreSound
  <1>6. PastLimitCounts' /\ BuysAreSpaced'
    BY DEF IInv, PastLimitCounts, LossLimitReached, BuysAreSpaced, audit
  <1>7. \A r : Booking(r) => Booking(r)'
    BY <1>1, <1>2, ThreadsAre DEF Booking, BookingBuy
  <1>8. BuysAreNoted'
    BY <1>7 DEF IInv, BuysAreNoted, cooling, world, audit
  <1> QED
    BY <1>1, <1>2, <1>5, <1>6, <1>8

(* What others hold of the day's checks outlives a step after which no     *)
(* more symbols are held.                                                  *)
LEMMA StillCleared ==
  ASSUME IInv, Held' \subseteq Held, Buying' => Buying,
         job'[Strategy].at \in Cleared => job[Strategy].at \in Cleared,
         job'[Strategy].sym = job[Strategy].sym,
         UNCHANGED <<lastOrder, now, pastLimit>>
  PROVE  ClearedStillHolds'
  <1> DEFINE b == job[Strategy].sym
  <1>1. Cardinality(Held' \ {b}) <= Cardinality(Held \ {b})
    BY HeldFinite, FS_Subset
  <1>2. Cardinality(Held \ {b}) \in Nat /\ Cardinality(Held' \ {b}) \in Nat
    BY HeldFinite, FS_Subset, FS_CardinalityType
  <1>3. Buying => Cardinality(Held \ {b}) < MaxPositions
    BY DEF IInv, ClearedStillHolds
  <1>4. Buying' => Cardinality(Held' \ {b}) < MaxPositions
    BY <1>1, <1>2, <1>3, EngineAssumption
  <1>5. job'[Strategy].at \in Cleared => Rested(b)' /\ pastLimit' = 0
    BY DEF IInv, ClearedStillHolds, Rested
  <1> QED
    BY <1>4, <1>5 DEF ClearedStillHolds

LEMMA MoveCoinsStep == ASSUME IInv, NEW x \in Threads, MoveCoins(x) PROVE IInv'
  <1> DEFINE s == job[x].sym
             q == job[x].qty
             after == IF job[x].why = "buy" THEN coins[s] + q ELSE coins[s] - q
  <1>1. job[x].at = "coins" /\ job[x].at \in Inside
    BY DEF MoveCoins, Go, Inside
  <1>2. /\ coins' = [coins EXCEPT ![s] = after]
        /\ UNCHANGED <<cash, avg, highs, lastSignal, cooling, pnl, world, audit>>
    BY DEF MoveCoins
  <1>3. /\ s \in Symbols
        /\ q \in Nat
        /\ coins[s] \in Nat
        /\ job[x].why = "buy" => x = Strategy /\ 0 < q
        /\ job[x].why # "buy" => q <= coins[s]
    BY <1>1, OrderFacts DEF IInv, JobsAreSound, Sound, OrdersFit, Fits
  <1>4. after \in Nat
    BY <1>3
  <1>5. /\ coins' \in [Symbols -> Nat]
        /\ coins'[s] = after
        /\ \A r \in Symbols \ {s} : coins'[r] = coins[r]
    BY <1>2, <1>3, <1>4 DEF IInv, TypeOK
  <1>6. /\ job' \in [Threads -> Jobs]
        /\ job'[x].at = "average"
        /\ job'[x].sym = s
        /\ job'[x].qty = q
        /\ job'[x].why = job[x].why
        /\ \A u \in Threads \ {x} : job'[u] = job[u]
        /\ JobsAreSound'
        /\ PastLimitCounts' /\ BuysAreSpaced' /\ BuysAreNoted'
    BY <1>2, OrderGoes DEF MoveCoins, Inside, Placed
  <1>7. \A u \in Threads \ {x} : job[u].at \notin Inside
    BY <1>1, Alone
  <1>8. TypeOK'
    BY <1>2, <1>5, <1>6 DEF IInv, TypeOK, cooling, world, audit
  <1>9. \A r \in Symbols : r \in Held <=> avg[r] > 0
    BY <1>1, <1>7 DEF IInv, PricedWhenHeld, Inside
  <1>10. PricedWhenHeld'
    BY <1>2, <1>5, <1>6, <1>9 DEF PricedWhenHeld, Held
  <1>11. LockIsExclusive'
    BY <1>6, <1>7 DEF LockIsExclusive
  <1>12. OrdersFit'
    <2>1. job[x].why = "buy" => q <= coins'[s]
      BY <1>3, <1>5
    <2>2. job[x].why # "buy" /\ 0 < coins'[s] => 0 < avg'[s]
      BY <1>2, <1>3, <1>5, <1>9 DEF Held
    <2>3. Fits(job[x])'
      BY <1>6, <2>1, <2>2 DEF Fits
    <2>4. \A u \in Threads \ {x} : Fits(job[u])'
      BY <1>6, <1>7 DEF Fits, Inside
    <2> QED
      BY <2>3, <2>4 DEF OrdersFit
  <1>13. AtMostMaxPositions' /\ ClearedStillHolds'
    <2>1. CASE job[x].why = "buy"
      <3>1. Held' = (Held \ {s}) \cup {s}
        BY <1>3, <1>5, <2>1 DEF Held
      <3>2. IsFiniteSet(Held \ {s}) /\ Cardinality(Held \ {s}) \in Nat
        BY HeldFinite, FS_Subset, FS_CardinalityType
      <3>3. Cardinality(Held') = Cardinality(Held \ {s}) + 1
        BY <3>1, <3>2, FS_AddElement
      <3>4. Cardinality(Held \ {s}) < MaxPositions
        BY <1>1, <1>3, <2>1 DEF IInv, ClearedStillHolds, Buying
      <3>5. AtMostMaxPositions'
        BY <3>2, <3>3, <3>4, EngineAssumption DEF AtMostMaxPositions
      <3>6. job'[Strategy].at = "average"
        BY <1>3, <1>6, <2>1
      <3> QED
        BY <3>5, <3>6 DEF ClearedStillHolds, Buying, Cleared
    <2>2. CASE job[x].why # "buy"
      <3>1. Held' \subseteq Held
        BY <1>3, <1>5, <2>2 DEF Held
      <3>2. Cardinality(Held') <= Cardinality(Held)
        BY <3>1, HeldFinite, FS_Subset
      <3>3. Cardinality(Held) \in Nat /\ Cardinality(Held') \in Nat
        BY <3>1, HeldFinite, FS_Subset, FS_CardinalityType
      <3>4. AtMostMaxPositions'
        BY <3>2, <3>3, EngineAssumption DEF IInv, AtMostMaxPositions
      <3>5. /\ job'[Strategy].at \in Cleared => job[Strategy].at \in Cleared
            /\ Buying' => Buying
            /\ job'[Strategy].sym = job[Strategy].sym
        BY <1>6, ThreadsAre DEF Buying, Cleared
      <3>6. ClearedStillHolds'
        BY <1>2, <3>1, <3>5, StillCleared DEF cooling, world, audit
      <3> QED
        BY <3>4, <3>6
    <2> QED
      BY <2>1, <2>2
  <1> QED
    BY <1>6, <1>8, <1>10, <1>11, <1>12, <1>13 DEF IInv

LEMMA SetAverageStep == ASSUME IInv, NEW x \in Threads, SetAverage(x) PROVE IInv'
  <1> DEFINE s == job[x].sym
             q == job[x].qty
  <1>1. job[x].at = "average" /\ job[x].at \in Inside
    BY DEF SetAverage, Go, Inside
  <1>2. /\ s \in Symbols
        /\ q \in Nat
        /\ coins[s] \in Nat
        /\ avg[s] \in Nat
        /\ job[x].price \in Prices
        /\ job[x].why = "buy" => 0 < q /\ q <= coins[s]
        /\ job[x].why # "buy" /\ 0 < coins[s] => 0 < avg[s]
    BY <1>1, OrderFacts DEF IInv, JobsAreSound, Sound, OrdersFit, Fits
  <1>3. PICK a \in AveragesAfter(job[x]) : avg' = [avg EXCEPT ![s] = a]
    BY DEF SetAverage
  <1>4. a \in Nat /\ (0 < a <=> 0 < coins[s])
    <2>1. CASE job[x].why = "buy"
      <3>1. Averages(avg[s], coins[s] - q, job[x].price) \subseteq Prices
        BY <1>2 DEF Averages
      <3>2. a \in Prices
        BY <2>1, <3>1 DEF AveragesAfter
      <3>3. Prices \subseteq Nat \ {0}
        BY EngineAssumption
      <3>4. \A n \in Nat \ {0} : 0 < n
        OBVIOUS
      <3> QED
        BY <1>2, <2>1, <3>2, <3>3, <3>4
    <2>2. CASE job[x].why # "buy"
      BY <1>2, <2>2 DEF AveragesAfter
    <2> QED
      BY <2>1, <2>2
  <1>5. UNCHANGED <<cash, coins, highs, lastSignal, cooling, pnl, world, audit>>
    BY DEF SetAverage
  <1>6. /\ avg' \in [Symbols -> Nat]
        /\ avg'[s] = a
        /\ \A r \in Symbols \ {s} : avg'[r] = avg[r]
    BY <1>2, <1>3, <1>4 DEF IInv, TypeOK
  <1>7. /\ job' \in [Threads -> Jobs]
        /\ job'[x].at = "book"
        /\ job'[x].sym = s
        /\ \A u \in Threads \ {x} : job'[u] = job[u]
        /\ JobsAreSound'
        /\ PastLimitCounts' /\ BuysAreSpaced' /\ BuysAreNoted'
    BY <1>5, OrderGoes DEF SetAverage, Inside, Placed
  <1>8. \A u \in Threads : job'[u].at \notin Inside
    BY <1>1, <1>7, Alone DEF Inside
  <1>9. TypeOK'
    BY <1>5, <1>6, <1>7 DEF IInv, TypeOK, cooling, world, audit
  <1>10. Held' = Held
    BY <1>5 DEF Held
  <1>11. \A r \in Symbols \ {s} : r \in Held <=> avg[r] > 0
    <2>1. \A u \in Threads \ {x} : job[u].at # "average"
      BY <1>1, Alone DEF Inside
    <2> QED
      BY <2>1 DEF IInv, PricedWhenHeld
  <1>12. s \in Held <=> avg'[s] > 0
    BY <1>2, <1>4, <1>6 DEF Held
  <1>13. PricedWhenHeld'
    BY <1>6, <1>10, <1>11, <1>12 DEF PricedWhenHeld
  <1>14. LockIsExclusive' /\ OrdersFit'
    BY <1>8 DEF LockIsExclusive, OrdersFit, Fits, Inside
  <1>15. AtMostMaxPositions'
    BY <1>10 DEF IInv, AtMostMaxPositions
  <1>16. ClearedStillHolds'
    <2>1. /\ job'[Strategy].at \in Cleared => job[Strategy].at \in Cleared
          /\ Buying' => Buying
          /\ job'[Strategy].sym = job[Strategy].sym
      BY <1>7, ThreadsAre DEF Buying, Cleared
    <2> QED
      BY <1>5, <1>10, <2>1, StillCleared DEF cooling, world, audit
  <1> QED
    BY <1>7, <1>9, <1>13, <1>14, <1>15, <1>16 DEF IInv

(* A row written counts, and a count of 0 stays 0.                         *)
LEMMA RecordedFacts ==
  ASSUME IInv, NEW gain \in Int, Recorded(gain)
  PROVE  pnl' \in Int /\ pastLimit' \in {0, pastLimit} /\ PastLimitCounts'
  <1>1. pnl \in Int /\ pastLimit \in Nat
    BY DEF IInv, TypeOK
  <1>2. pnl' \in Int /\ pastLimit' \in {0, pastLimit}
    BY <1>1 DEF Recorded
  <1>3. DailyLossLimit * FeeDen \in Int
    BY ProductIsInt, EngineAssumption
  <1>4. pastLimit' = IF pnl' > -(DailyLossLimit * FeeDen) THEN 0 ELSE pastLimit
    BY DEF Recorded
  <1>5. PastLimitCounts'
    BY <1>1, <1>2, <1>3, <1>4 DEF IInv, PastLimitCounts, LossLimitReached
  <1> QED
    BY <1>2, <1>5

LEMMA BookStep == ASSUME IInv, NEW x \in Threads, Book(x) PROVE IInv'
  <1> DEFINE s == job[x].sym
             idle == Idle(job[x].todo)
  <1>1. /\ job[x].at = "book"
        /\ job' = [job EXCEPT ![x] = idle]
        /\ idle \in Jobs
        /\ idle.at = "next"
        /\ Sound(x, idle)
    BY DoneFacts DEF Book
  <1> HIDE DEF idle
  <1>2. /\ job' \in [Threads -> Jobs]
        /\ job'[x] = idle
        /\ \A u \in Threads \ {x} : job'[u] = job[u]
    BY <1>1, JobType
  <1>3. /\ s \in Symbols
        /\ job[x].gain \in Int
        /\ now \in 0 .. MaxTime
        /\ pnl \in Int
        /\ pastLimit \in Nat
    BY <1>1, OrderFacts DEF IInv, TypeOK
  <1>4. UNCHANGED <<account, highs, world, bought, unnoted>>
    BY DEF Book
  <1>5. pnl' \in Int /\ pastLimit' \in {0, pastLimit} /\ PastLimitCounts'
    BY <1>3, RecordedFacts DEF Book
  <1>6. lastSignal' \in [Symbols -> {"none", "buy", "sell"}]
    BY <1>3, Tables DEF Book
  <1>7. lastOrder' \in [Symbols -> Int] /\ history' \in [0 .. MaxTime -> Nat]
    <2>1. lastOrder \in [Symbols -> Int] /\ history \in [0 .. MaxTime -> Nat] /\ now \in Int
      BY EngineAssumption DEF IInv, TypeOK
    <2>2. \/ /\ lastOrder' = [lastOrder EXCEPT ![s] = now]
             /\ history' = [history EXCEPT ![now] = history[now] + 1]
          \/ lastOrder' = lastOrder /\ history' = history
      BY DEF Book, cooling
    <2>3. history[now] + 1 \in Nat
      BY <1>3, <2>1
    <2> QED
      BY <1>3, <2>1, <2>2, <2>3
  <1>8. TypeOK'
    BY <1>2, <1>3, <1>4, <1>5, <1>6, <1>7 DEF IInv, TypeOK, account, world
  <1>9. JobsAreSound'
    BY <1>1, <1>2 DEF IInv, JobsAreSound, Sound
  <1>10. Held' = Held
    BY <1>4 DEF Held, account
  <1>11. AtMostMaxPositions' /\ BuysAreSpaced'
    BY <1>4, <1>10 DEF IInv, AtMostMaxPositions, BuysAreSpaced
  <1>14. PricedWhenHeld' /\ LockIsExclusive' /\ OrdersFit'
    BY <1>1, <1>2, <1>4, InsideKept DEF Inside, account
  <1>12. ClearedStillHolds'
    <2> SUFFICES ASSUME Buying' PROVE ClearedStillHolds'
      BY DEF ClearedStillHolds, Buying
    <2>1. x # Strategy /\ job'[Strategy] = job[Strategy]
      BY <1>1, <1>2, ThreadsAre DEF Buying, Cleared
    <2>2. UNCHANGED lastOrder
      BY <2>1 DEF Book, IInv, JobsAreSound, Sound, cooling
    <2>3. pastLimit = 0 => pastLimit' = 0
      BY <1>5
    <2> QED
      BY <1>4, <1>10, <2>1, <2>2, <2>3
      DEF IInv, ClearedStillHolds, Buying, Rested, world
  <1>13. BuysAreNoted'
    <2> SUFFICES ASSUME NEW i \in DOMAIN bought
                 PROVE  /\ bought[i].time <= now
                        /\ \/ i \in unnoted
                           \/ bought[i].time <= lastOrder'[bought[i].sym]
                           \/ i = Len(bought) /\ Booking(bought[i].sym)'
      BY <1>4 DEF BuysAreNoted, world
    <2>1. /\ bought[i].time <= now
          /\ \/ i \in unnoted
             \/ bought[i].time <= lastOrder[bought[i].sym]
             \/ i = Len(bought) /\ Booking(bought[i].sym)
      BY DEF IInv, BuysAreNoted
    <2>2. bought[i].sym \in Symbols /\ lastOrder \in [Symbols -> Int]
      BY BoughtType DEF IInv, TypeOK
    <2>3. CASE x # Strategy
      <3>1. /\ lastOrder' = lastOrder
            /\ job'[Strategy] = job[Strategy]
            /\ bought' = bought
        BY <2>3, <1>2, <1>4, ThreadsAre DEF Book, IInv, JobsAreSound, Sound, cooling
      <3> QED
        BY <2>1, <3>1 DEF Booking, BookingBuy
    <2>4. CASE x = Strategy /\ job[x].why # "buy"
      BY <2>1, <2>4 DEF Book, Booking, BookingBuy, cooling
    <2>5. CASE x = Strategy /\ job[x].why = "buy"
      <3>1. lastOrder' = [lastOrder EXCEPT ![s] = now]
        BY <2>5 DEF Book
      <3>2. CASE bought[i].sym = s
        BY <1>3, <2>1, <2>2, <3>1, <3>2
      <3>3. CASE bought[i].sym # s
        BY <1>3, <2>1, <2>2, <2>5, <3>1, <3>3 DEF Booking
      <3> QED
        BY <3>2, <3>3
    <2> QED
      BY <2>3, <2>4, <2>5
  <1> QED
    BY <1>5, <1>8, <1>9, <1>11, <1>12, <1>13, <1>14 DEF IInv

LEMMA BookFailsStep == ASSUME IInv, NEW x \in Threads, BookFails(x) PROVE IInv'
  <1>1. /\ job[x].at = "book"
        /\ job' = [job EXCEPT ![x] = Idle({})]
        /\ UNCHANGED <<account, highs, lastSignal, cooling, market, now, cycles, bought>>
        /\ failures' = failures + 1
        /\ unnoted' = IF job[x].why = "buy" THEN unnoted \cup {Len(bought)} ELSE unnoted
    BY DEF BookFails
  <1>2. /\ job' \in [Threads -> Jobs]
        /\ job'[x] = Idle({})
        /\ \A u \in Threads \ {x} : job'[u] = job[u]
    BY <1>1, JobType, IdleFacts
  <1>3. pnl' \in Int /\ pastLimit' \in {0, pastLimit} /\ PastLimitCounts'
    <2>1. CASE Recorded(job[x].gain)
      BY <1>1, <2>1, OrderFacts, RecordedFacts
    <2>2. CASE UNCHANGED <<pnl, pastLimit>>
      BY <2>2 DEF IInv, TypeOK, PastLimitCounts, LossLimitReached
    <2> QED
      BY <2>1, <2>2 DEF BookFails
  <1>4. unnoted \subseteq unnoted' /\ unnoted' \subseteq Nat
    <2>1. bought \in Seq([sym: Symbols, time: Nat]) /\ unnoted \subseteq Nat
      BY DEF IInv, TypeOK
    <2>2. Len(bought) \in Nat
      BY <2>1
    <2> QED
      BY <1>1, <2>1, <2>2
  <1>5. TypeOK'
    BY <1>1, <1>2, <1>3, <1>4 DEF IInv, TypeOK, account, cooling
  <1>6. JobsAreSound'
    BY <1>2, IdleFacts DEF IInv, JobsAreSound
  <1>7. Held' = Held
    BY <1>1 DEF Held, account
  <1>8. AtMostMaxPositions' /\ BuysAreSpaced'
    BY <1>1, <1>4, <1>7 DEF IInv, AtMostMaxPositions, BuysAreSpaced
  <1>11. PricedWhenHeld' /\ LockIsExclusive' /\ OrdersFit'
    BY <1>1, <1>2, IdleFacts, InsideKept DEF Inside, account
  <1>9. ClearedStillHolds'
    <2> SUFFICES ASSUME Buying' PROVE ClearedStillHolds'
      BY DEF ClearedStillHolds, Buying
    <2>1. job'[Strategy] = job[Strategy]
      BY <1>2, ThreadsAre, IdleFacts DEF Buying, Cleared
    <2> QED
      BY <1>1, <1>3, <1>7, <2>1 DEF IInv, ClearedStillHolds, Buying, Rested, cooling
  <1>10. BuysAreNoted'
    <2>1. x = Strategy \/ \A r : Booking(r)' = Booking(r)
      BY <1>2, ThreadsAre DEF Booking, BookingBuy
    <2>2. x = Strategy /\ job[x].why # "buy" => \A r : ~Booking(r)
      BY DEF Booking, BookingBuy
    <2> QED
      BY <1>1, <1>4, <2>1, <2>2 DEF IInv, BuysAreNoted, cooling
  <1> QED
    BY <1>3, <1>5, <1>6, <1>8, <1>9, <1>10, <1>11 DEF IInv

LEMMA AppendFacts ==
  ASSUME NEW S, NEW seq \in Seq(S), NEW e \in S
  PROVE  /\ Append(seq, e) \in Seq(S)
         /\ DOMAIN Append(seq, e) = DOMAIN seq \cup {Len(seq) + 1}
         /\ \A i \in DOMAIN seq : Append(seq, e)[i] = seq[i]
         /\ Append(seq, e)[Len(seq) + 1] = e
         /\ \A i \in DOMAIN seq : i < Len(seq) + 1
         /\ Len(seq) + 1 \notin DOMAIN seq
         /\ Len(seq) \in Nat
  OBVIOUS

(* The amount is settled, on what was read without the lock.               *)
LEMMA SizeStep == ASSUME IInv, NEW q \in Quantities, Size(q) PROVE IInv'
  <1> DEFINE j == [job[Strategy] EXCEPT !.at = "buy", !.qty = q]
  <1>1. job[Strategy].at = "order" /\ job[Strategy].why # "buy"
    BY ThreadsAre DEF Size, IInv, JobsAreSound, Sound, Placed
  <1>2. q \in Nat /\ 0 < q
    BY EngineAssumption DEF Size, SizedOrders
  <1>3. /\ j \in Jobs
        /\ j.at = "buy"
        /\ j.sym = job[Strategy].sym
        /\ Sound(Strategy, j)
    BY <1>1, <1>2, ThreadsAre, JobType DEF Jobs, Locations, IInv, JobsAreSound, Sound
  <1>4. job' = [job EXCEPT ![Strategy] = j]
    BY ThreadsAre, JobType DEF Size
  <1> HIDE DEF j
  <1> QED
    BY <1>1, <1>3, <1>4, ThreadsAre, Tables, QuietJob
    DEF Cleared, Placed, Size, cooling, world

LEMMA BuyStep ==
  ASSUME IInv, Buy
  PROVE  IInv'
  <1> DEFINE s == job[Strategy].sym
             p == job[Strategy].price
             q == job[Strategy].qty
             gain == -(q * p * FeeNum)
             j == [job[Strategy] EXCEPT !.at = "coins", !.why = "buy", !.gain = gain]
             e == [sym |-> s, time |-> now]
  <1>1. job[Strategy].at = "buy" /\ LockIsFree
    BY DEF Buy
  <1>2. CASE ~Affordable(q, p)
    <2>1. Done(Strategy, "buy") /\ UNCHANGED <<account, audit>>
      BY <1>2 DEF Buy, account
    <2> QED
      BY <2>1, <1>1, ThreadsAre, DoneFacts, Tables, QuietJob
      DEF Buy, Cleared, Placed, cooling, world
  <1>3. CASE Affordable(q, p)
    <2>1. /\ s \in Symbols
          /\ p \in Nat
          /\ p \in Prices
          /\ q \in Nat
          /\ cash \in Nat
          /\ now \in Nat
      <3>1. Strategy \in Threads /\ job[Strategy].at # "next"
        BY <1>1, ThreadsAre
      <3>2. now \in Nat
        BY EngineAssumption DEF IInv, TypeOK
      <3> QED
        BY <3>1, <3>2, OrderFacts
    <2>2. q \in Quantities /\ 0 < q
      BY <1>1, ThreadsAre DEF IInv, JobsAreSound, Sound
    <2>5. /\ cash' = cash - Cost(q, p)
          /\ bought' = Append(bought, e)
          /\ pastLimit' = IF LossLimitReached THEN pastLimit + 1 ELSE 0
          /\ UNCHANGED <<coins, avg, highs, lastSignal, cooling, pnl, world, unnoted>>
      BY <1>3 DEF Buy
    <2>6. gain \in Int
      BY <2>1, GainIsInt
    <2>7. job' = [job EXCEPT ![Strategy] = j]
      BY <1>3, ThreadsAre, JobType DEF Buy
    <2>8. /\ j \in Jobs
          /\ j.at = "coins"
          /\ j.why = "buy"
          /\ j.sym = s
          /\ j.price \in Prices
          /\ j.qty = q
      <3> HIDE DEF gain
      <3> QED
        BY <2>1, <2>6, ThreadsAre, JobType DEF Jobs, Locations, Reasons
    <2> HIDE DEF j, gain
    <2>9. /\ job' \in [Threads -> Jobs]
          /\ job'[Strategy] = j
          /\ \A u \in Threads \ {Strategy} : job'[u] = job[u]
      BY <2>7, <2>8, ThreadsAre, JobType
    <2>10. cash' \in Nat
      <3>1. Cost(q, p) \in Nat
        BY <2>1, OrderMoney
      <3> QED
        BY <1>3, <2>1, <2>5, <3>1 DEF Affordable
    <2>11. Held' = Held
      BY <2>5 DEF Held
    <2>12. pastLimit = 0 /\ pastLimit' \in {0, 1} /\ (~LossLimitReached => pastLimit' = 0)
      BY <1>1, <2>5 DEF IInv, ClearedStillHolds, Cleared
    <2>13. bought \in Seq([sym: Symbols, time: Nat]) /\ e \in [sym: Symbols, time: Nat]
      BY <2>1 DEF IInv, TypeOK
    <2>14. /\ bought' \in Seq([sym: Symbols, time: Nat])
           /\ DOMAIN bought' = DOMAIN bought \cup {Len(bought) + 1}
           /\ \A i \in DOMAIN bought : bought'[i] = bought[i]
           /\ bought'[Len(bought) + 1] = e
           /\ \A i \in DOMAIN bought : i < Len(bought) + 1
      BY <2>5, <2>13, AppendFacts
    <2>15. TypeOK'
      <3>1. /\ market' = market
            /\ now' = now
            /\ cycles' = cycles
            /\ failures' = failures
            /\ lastOrder' = lastOrder
            /\ history' = history
            /\ pnl' = pnl
        BY <2>5 DEF cooling, world
      <3>2. pastLimit' \in Nat
        BY <2>12
      <3>3. cash' \in Nat /\ coins' = coins /\ avg' = avg
        BY <2>5, <2>10
      <3>4. bought' \in Seq([sym: Symbols, time: Nat]) /\ job' \in [Threads -> Jobs]
        BY <2>9, <2>14
      <3>6. unnoted' \subseteq Nat
        BY <2>5 DEF IInv, TypeOK
      <3>5. highs' = highs /\ lastSignal' = lastSignal
        BY <2>5
      <3> HIDE <2>5
      <3> QED
        BY <3>1, <3>2, <3>3, <3>4, <3>5, <3>6 DEF IInv, TypeOK
    <2>16. JobsAreSound'
      <3>1. Sound(Strategy, j)
        BY <2>2, <2>8 DEF Sound, Placed
      <3> QED
        BY <2>9, <3>1 DEF IInv, JobsAreSound
    <2>17. AtMostMaxPositions'
      BY <2>11 DEF IInv, AtMostMaxPositions
    <2>18. ClearedStillHolds'
      <3>1. Cardinality(Held \ {s}) < MaxPositions
        BY <1>1 DEF IInv, ClearedStillHolds, Buying, Cleared
      <3> QED
        BY <2>8, <2>9, <2>11, <3>1 DEF ClearedStillHolds, Cleared
    <2>19. PricedWhenHeld' /\ LockIsExclusive' /\ OrdersFit'
      BY <1>1, <2>5, <2>8, <2>9, ThreadsAre, Entering
    <2>20. PastLimitCounts'
      BY <2>5, <2>12 DEF PastLimitCounts, LossLimitReached
    <2>21. \A i \in DOMAIN bought : bought[i].time <= now /\
             (i \in unnoted \/ bought[i].time <= lastOrder[bought[i].sym])
      BY <1>1 DEF IInv, BuysAreNoted, Booking, BookingBuy, Placed
    <2>22. BuysAreNoted'
      <3>1. \A i \in DOMAIN bought' :
              /\ bought'[i].time <= now
              /\ \/ i \in unnoted
                 \/ bought'[i].time <= lastOrder[bought'[i].sym]
                 \/ i = Len(bought) + 1 /\ bought'[i].sym = s
        BY <2>1, <2>14, <2>21
      <3>2. BookingBuy' /\ job'[Strategy].sym = s
        BY <2>8, <2>9 DEF BookingBuy, Placed
      <3>3. now' = now /\ lastOrder' = lastOrder /\ unnoted' = unnoted
        BY <2>5 DEF cooling, world
      <3>4. Len(bought') = Len(bought) + 1
        BY <2>5, <2>13
      <3> QED
        BY <3>1, <3>2, <3>3, <3>4 DEF BuysAreNoted, Booking
    <2>23. BuysAreSpaced'
      <3>1. now - lastOrder[s] >= Cooldown /\ lastOrder[s] \in Int /\ Cooldown \in Nat
        BY <1>1, <2>1, EngineAssumption
        DEF IInv, TypeOK, ClearedStillHolds, Cleared, Rested
      <3>2. \A i \in DOMAIN bought \ unnoted :
               bought[i].sym = s => now - bought[i].time >= Cooldown
        BY <2>1, <2>21, <3>1, BoughtType
      <3> SUFFICES ASSUME NEW i \in DOMAIN bought' \ unnoted, NEW k \in DOMAIN bought',
                          i < k, bought'[i].sym = bought'[k].sym
                   PROVE  bought'[k].time - bought'[i].time >= Cooldown
        BY <2>5 DEF BuysAreSpaced
      <3>3. CASE k \in DOMAIN bought
        <4>1. i \in DOMAIN bought
          BY <2>13, <2>14, <3>3
        <4> QED
          BY <2>14, <3>3, <4>1 DEF IInv, BuysAreSpaced
      <3>4. CASE k = Len(bought) + 1
        <4>1. i \in DOMAIN bought
          BY <2>14, <3>4, <2>13
        <4> QED
          BY <2>14, <3>2, <3>4, <4>1
      <3> QED
        BY <2>14, <3>3, <3>4
    <2> QED
      BY <2>15, <2>16, <2>17, <2>18, <2>19, <2>20, <2>22, <2>23 DEF IInv
  <1> QED
    BY <1>2, <1>3

----------------------------------------------------------------------------
(* The invariant and what it implies                                       *)

LEMMA InitInv == Init => IInv
  <1> SUFFICES ASSUME Init PROVE IInv
    OBVIOUS
  <1>1. Held = {} /\ Cardinality(Held) = 0
    <2>1. Held = {}
      BY DEF Init, Held
    <2>2. Cardinality({}) = 0
      BY FS_EmptySet
    <2> QED
      BY <2>1, <2>2
  <1>2. \A x \in Threads : job[x] = Idle({})
    BY DEF Init
  <1>3. TypeOK
    <2>1. job \in [Threads -> Jobs]
      BY IdleFacts DEF Init
    <2>2. now \in 0 .. MaxTime /\ history \in [0 .. MaxTime -> Nat]
      BY EngineAssumption DEF Init
    <2>3. lastOrder \in [Symbols -> Int]
      BY EngineAssumption DEF Init
    <2> QED
      BY <2>1, <2>2, <2>3, EngineAssumption DEF Init, TypeOK
  <1>4. JobsAreSound
    BY <1>2, IdleFacts DEF JobsAreSound
  <1>5. AtMostMaxPositions
    BY <1>1, EngineAssumption DEF AtMostMaxPositions
  <1>6. ClearedStillHolds
    BY <1>2, IdleFacts, ThreadsAre DEF ClearedStillHolds, Buying, Cleared
  <1>10. LockIsExclusive /\ OrdersFit
    BY <1>2, IdleFacts DEF LockIsExclusive, OrdersFit, Fits, Inside
  <1>7. PricedWhenHeld
    BY <1>1 DEF Init, PricedWhenHeld
  <1>8. PastLimitCounts
    BY DEF Init, PastLimitCounts
  <1>9. BuysAreNoted /\ BuysAreSpaced
    <2>1. bought = <<>> /\ Len(<<>>) = 0
      BY DEF Init
    <2>2. \A i : i \notin DOMAIN bought
      BY <2>1
    <2> QED
      BY <2>2 DEF BuysAreNoted, BuysAreSpaced
  <1> QED
    BY <1>3, <1>4, <1>5, <1>6, <1>7, <1>8, <1>9, <1>10 DEF IInv

LEMMA StutterStep == ASSUME IInv, UNCHANGED vars PROVE IInv'
  <1>1. TypeOK'
    BY DEF vars, account, cooling, world, audit, IInv, TypeOK
  <1>2. JobsAreSound' /\ now' >= now
    BY DEF vars, world, IInv, TypeOK, JobsAreSound, Sound
  <1> QED
    BY <1>1, <1>2, QuietStep DEF vars, cooling

LEMMA NextInv == IInv /\ [Next]_vars => IInv'
  <1> SUFFICES ASSUME IInv, [Next]_vars PROVE IInv'
    OBVIOUS
  <1>1. CASE StrategyStep
    BY <1>1, StartCycleStep, StrategyNextStep, StrategyFailsStep, SignalStep, ExitStep,
       ConsiderBuyStep, SizeStep, BuyStep DEF StrategyStep
  <1>2. CASE MonitorStep
    BY <1>2, StartRoundStep, MonitorNextStep DEF MonitorStep
  <1>3. CASE WsStep
    BY <1>3, OnPriceStep DEF WsStep
  <1>4. ASSUME NEW x \in Threads, StopStep(x) PROVE IInv'
    BY <1>4, LookStep, JudgeStep, PopHighStep, CaptureStep, SellStep, MoveCoinsStep,
       SetAverageStep, BookStep, BookFailsStep
    DEF StopStep
  <1> QED
    BY <1>1, <1>2, <1>3, <1>4, MarketStep, TickStep, StutterStep DEF Next

LEMMA Invariance == Spec => []IInv
  BY InitInv, NextInv, PTL DEF Spec

(* Every variable keeps its type.                                          *)
THEOREM TypeCorrect == Spec => []TypeOK
  <1>1. IInv => TypeOK
    BY DEF IInv
  <1> QED
    BY <1>1, Invariance, PTL

(* The number of symbols held never exceeds max_positions, although it is  *)
(* counted some steps before the buy: only one thread buys, and what the   *)
(* others do meanwhile only makes room.                                    *)
THEOREM PositionsAreLimited == Spec => []AtMostMaxPositions
  <1>1. IInv => AtMostMaxPositions
    BY DEF IInv
  <1> QED
    BY <1>1, Invariance, PTL

(* A symbol has an average price exactly while it is held, but for the one *)
(* whose order has moved the coins and is about to set the price: outside  *)
(* this window no thread sees a position without a price, nor a price      *)
(* without a position, whichever thread closes it.                         *)
THEOREM PositionsArePriced == Spec => []PricedWhenHeld
  <1>1. IInv => PricedWhenHeld
    BY DEF IInv
  <1> QED
    BY <1>1, Invariance, PTL

(* At most one buy is executed once the recorded loss has reached the      *)
(* limit: the one that was already cleared.                                *)
THEOREM LossLimitHolds == Spec => []LossLimitStopsBuying
  <1>1. IInv => LossLimitStopsBuying
    BY DEF IInv, PastLimitCounts, LossLimitStopsBuying
  <1> QED
    BY <1>1, Invariance, PTL

(* A buy keeps the next one of its symbol a cooldown away, unless the       *)
(* database failed for it.                                                  *)
THEOREM CooldownHolds == Spec => []BuysAreSpaced
  <1>1. IInv => BuysAreSpaced
    BY DEF IInv
  <1> QED
    BY <1>1, Invariance, PTL

----------------------------------------------------------------------------
(* The hourly limit                                                        *)

(* The buys the history has an entry for, and those of them after time m.  *)
Noted == {i \in DOMAIN bought \ unnoted : ~(i = Len(bought) /\ BookingBuy)}
NotedAfter(m) == {i \in Noted : bought[i].time > m}

Times(m) == {t \in 0 .. MaxTime : t > m}
EntriesAfter(m) == SumFunctionOnSet(history, Times(m))

(* The entry of a buy is of the time it was booked, so no older than the   *)
(* buy: of any part of the last hour the history has enough entries.       *)
HistoryCounts ==
    \A m \in Int : m >= now - Hour => Cardinality(NotedAfter(m)) <= EntriesAfter(m)

(* can_trade has seen room for one more, and no other thread buys.         *)
ClearedWithinHour ==
    job[Strategy].at \in Cleared => Cardinality(NotedAfter(now - Hour)) < MaxOrdersPerHour

HourInv == HistoryCounts /\ ClearedWithinHour /\ HourlyLimitHolds

LEMMA NotedFinite ==
  ASSUME IInv, NEW S \in SUBSET DOMAIN bought
  PROVE  IsFiniteSet(S) /\ Cardinality(S) \in Nat
  <1>1. DOMAIN bought = 1 .. Len(bought) /\ Len(bought) \in Nat
    BY DEF IInv, TypeOK
  <1>2. IsFiniteSet(DOMAIN bought)
    BY <1>1, FS_Interval
  <1> QED
    BY <1>2, FS_Subset, FS_CardinalityType

LEMMA EntriesType ==
  ASSUME IInv, NEW m \in Int
  PROVE  /\ IsFiniteSet(Times(m))
         /\ \A t \in Times(m) : t \in 0 .. MaxTime /\ history[t] \in Nat
         /\ EntriesAfter(m) \in Int
  <1>1. IsFiniteSet(0 .. MaxTime)
    BY EngineAssumption, FS_Interval
  <1>2. IsFiniteSet(Times(m))
    BY <1>1, FS_Subset DEF Times
  <1>3. \A t \in Times(m) : t \in 0 .. MaxTime /\ history[t] \in Nat
    BY DEF Times, IInv, TypeOK
  <1> QED
    BY <1>2, <1>3, SumIsInt DEF EntriesAfter

LEMMA HourTypes ==
  ASSUME IInv
  PROVE  now \in Int /\ Hour \in Nat /\ MaxOrdersPerHour \in Nat /\ now - Hour \in Int
  BY EngineAssumption DEF IInv, TypeOK

(* Of the history only the last hour matters: pruning the rest and the     *)
(* passing of time change nothing.                                         *)
LEMMA HourQuiet ==
  ASSUME IInv, IInv', HourInv, UNCHANGED <<bought, unnoted>>, now' >= now,
         BookingBuy => BookingBuy',
         job'[Strategy].at \in Cleared
           => Cardinality(NotedAfter(now - Hour)) < MaxOrdersPerHour,
         \A t \in Times(now - Hour) : history'[t] = history[t]
  PROVE  HourInv'
  <1>1. /\ now \in Int /\ now' \in Int /\ Hour \in Nat /\ MaxOrdersPerHour \in Nat
        /\ now - Hour \in Int /\ now' - Hour \in Int
    BY HourTypes, EngineAssumption DEF IInv, TypeOK
  <1>2. \A m \in Int : NotedAfter(m)' \subseteq NotedAfter(m)
    BY DEF NotedAfter, Noted
  <1>3. \A m \in Int : /\ NotedAfter(m) \in SUBSET DOMAIN bought
                       /\ NotedAfter(m)' \in SUBSET DOMAIN bought
    BY DEF NotedAfter, Noted
  <1>4. HistoryCounts'
    <2> SUFFICES ASSUME NEW m \in Int, m >= now' - Hour
                 PROVE  Cardinality(NotedAfter(m)') <= EntriesAfter(m)'
      BY DEF HistoryCounts
    <2>1. m >= now - Hour
      <3>1. PICK later : later = now'
        OBVIOUS
      <3>2. later \in Int /\ later >= now /\ m >= later - Hour
        BY <1>1, <3>1
      <3> QED
        BY <1>1, <3>2
    <2>2. Cardinality(NotedAfter(m)) <= EntriesAfter(m)
      BY <2>1 DEF HourInv, HistoryCounts
    <2>3. \A t \in Times(m) : history'[t] = history[t]
      BY <1>1, <2>1 DEF Times
    <2>4. SumFunctionOnSet(history', Times(m)) = SumFunctionOnSet(history, Times(m))
      BY <2>3, EntriesType, SumAgrees
    <2>5. EntriesAfter(m)' = EntriesAfter(m)
      BY <2>4 DEF EntriesAfter, Times
    <2>6. IsFiniteSet(NotedAfter(m)) /\ Cardinality(NotedAfter(m)) \in Nat
      BY <1>3, NotedFinite
    <2>7. /\ Cardinality(NotedAfter(m)') <= Cardinality(NotedAfter(m))
          /\ Cardinality(NotedAfter(m)') \in Nat
      BY <1>2, <1>3, <2>6, NotedFinite, FS_Subset
    <2>8. EntriesAfter(m) \in Int
      BY EntriesType
    <2> QED
      BY <2>2, <2>5, <2>6, <2>7, <2>8
  <1>5. ClearedWithinHour'
    <2> SUFFICES ASSUME job'[Strategy].at \in Cleared
                 PROVE  Cardinality(NotedAfter(now - Hour)') < MaxOrdersPerHour
      BY DEF ClearedWithinHour
    <2> DEFINE A == NotedAfter(now - Hour)
               B == NotedAfter(now - Hour)'
    <2>1. Cardinality(A) < MaxOrdersPerHour
      OBVIOUS
    <2>2. \A i \in DOMAIN bought : bought[i].time \in Nat
      BY BoughtType
    <2>3. B \subseteq A
      BY <1>1, <2>2 DEF NotedAfter, Noted
    <2>4. A \in SUBSET DOMAIN bought /\ B \in SUBSET DOMAIN bought
      BY DEF NotedAfter, Noted
    <2> HIDE DEF A, B
    <2>5. IsFiniteSet(A) /\ Cardinality(A) \in Nat /\ Cardinality(B) \in Nat
      BY <2>4, NotedFinite
    <2>6. Cardinality(B) <= Cardinality(A)
      BY <2>3, <2>5, FS_Subset
    <2>7. Cardinality(B) < MaxOrdersPerHour
      BY <1>1, <2>1, <2>5, <2>6
    <2> QED
      BY <2>7 DEF B
  <1>6. HourlyLimitHolds'
    BY DEF HourInv, HourlyLimitHolds
  <1> QED
    BY <1>4, <1>5, <1>6 DEF HourInv

(* A step of one thread that neither books an order of the strategy nor    *)
(* clears one.                                                             *)
LEMMA HourThread ==
  ASSUME IInv, IInv', HourInv, NEW x \in Threads, \A u \in Threads \ {x} : job'[u] = job[u],
         x = Strategy => /\ BookingBuy => BookingBuy'
                         /\ job'[x].at \in Cleared => job[x].at \in Cleared,
         UNCHANGED <<bought, unnoted, history, now>>
  PROVE  HourInv'
  <1>1. BookingBuy => BookingBuy'
    BY ThreadsAre DEF BookingBuy
  <1>2. job'[Strategy].at \in Cleared => Cardinality(NotedAfter(now - Hour)) < MaxOrdersPerHour
    BY ThreadsAre DEF HourInv, ClearedWithinHour
  <1>3. now' >= now
    BY HourTypes
  <1> QED
    BY <1>1, <1>2, <1>3, HourQuiet

LEMMA IdleIsNext == ASSUME NEW todo PROVE Idle(todo).at = "next"
  BY DEF Idle

LEMMA ConsiderBuyHour ==
  ASSUME IInv, IInv', HourInv, ConsiderBuy
  PROVE  HourInv'
  <1>1. job[Strategy].at = "entry"
    BY DEF ConsiderBuy
  <1>2. ~BookingBuy
    BY <1>1 DEF BookingBuy, Placed
  <1>3. UNCHANGED <<bought, unnoted>> /\ now' >= now
    BY HourTypes DEF ConsiderBuy, audit, world
  <1>4. \A t \in Times(now - Hour) : history'[t] = history[t]
    BY DEF ConsiderBuy, Pruned, Times, LastHour
  <1>5. job'[Strategy].at \in Cleared
          => Cardinality(NotedAfter(now - Hour)) < MaxOrdersPerHour
    <2> SUFFICES ASSUME job'[Strategy].at \in Cleared
                 PROVE  Cardinality(NotedAfter(now - Hour)) < MaxOrdersPerHour
      OBVIOUS
    <2>1. ~Done(Strategy, "entry")
      BY ThreadsAre, JobType, IdleIsNext DEF Done, Cleared
    <2>2. WithinHourlyLimit
      BY <2>1 DEF ConsiderBuy
    <2>3. EntriesAfter(now - Hour) < MaxOrdersPerHour
      BY <2>2 DEF WithinHourlyLimit, EntriesAfter, LastHour, Times
    <2>4. now - Hour \in Int /\ now - Hour >= now - Hour /\ MaxOrdersPerHour \in Nat
      BY HourTypes
    <2>5. Cardinality(NotedAfter(now - Hour)) <= EntriesAfter(now - Hour)
      BY <2>4 DEF HourInv, HistoryCounts
    <2>6. EntriesAfter(now - Hour) \in Int
      BY <2>4, EntriesType
    <2>7. Cardinality(NotedAfter(now - Hour)) \in Nat
      BY NotedFinite DEF NotedAfter, Noted
    <2> QED
      BY <2>3, <2>4, <2>5, <2>6, <2>7
  <1> QED
    BY <1>2, <1>3, <1>4, <1>5, HourQuiet

LEMMA TickHour ==
  ASSUME IInv, IInv', HourInv, Tick
  PROVE  HourInv'
  <1>1. now' >= now
    BY HourTypes DEF Tick
  <1>2. /\ UNCHANGED <<bought, unnoted, history, job>>
        /\ BookingBuy => BookingBuy'
    BY DEF Tick, audit, cooling, BookingBuy
  <1> QED
    BY <1>1, <1>2, HourQuiet DEF HourInv, ClearedWithinHour

(* Booking a buy adds one entry, of now, and one noted buy.                *)
LEMMA BookHour ==
  ASSUME IInv, IInv', HourInv, NEW x \in Threads, Book(x)
  PROVE  HourInv'
  <1>1. /\ job[x].at = "book"
        /\ job'[x].at = "next"
        /\ \A u \in Threads \ {x} : job'[u] = job[u]
        /\ UNCHANGED <<bought, unnoted, now>>
    BY JobType, IdleIsNext DEF Book, Done, world
  <1>2. CASE x # Strategy
    <2>1. history' = history
      BY <1>2 DEF Book, IInv, JobsAreSound, Sound, cooling
    <2> QED
      BY <1>1, <1>2, <2>1, HourThread
  <1>3. CASE x = Strategy /\ job[x].why # "buy"
    <2>1. history' = history /\ ~BookingBuy
      BY <1>3 DEF Book, cooling, BookingBuy
    <2> QED
      BY <1>1, <1>3, <2>1, HourQuiet, HourTypes DEF Cleared
  <1>4. CASE x = Strategy /\ job[x].why = "buy"
    <2>1. /\ history' = [history EXCEPT ![now] = @ + 1]
          /\ history \in [0 .. MaxTime -> Nat]
          /\ now \in 0 .. MaxTime
      BY <1>4 DEF Book, IInv, TypeOK
    <2>2. HistoryCounts'
      <3> SUFFICES ASSUME NEW m \in Int, m >= now - Hour
                   PROVE  Cardinality(NotedAfter(m)') <= EntriesAfter(m)'
        BY <1>1 DEF HistoryCounts
      <3>1. Cardinality(NotedAfter(m)) <= EntriesAfter(m)
        BY DEF HourInv, HistoryCounts
      <3>2. NotedAfter(m) \in SUBSET DOMAIN bought /\ NotedAfter(m)' \in SUBSET DOMAIN bought
        BY <1>1 DEF NotedAfter, Noted
      <3>3. /\ IsFiniteSet(NotedAfter(m))
            /\ Cardinality(NotedAfter(m)) \in Nat
            /\ Cardinality(NotedAfter(m)') \in Nat
        BY <3>2, NotedFinite
      <3>4. EntriesAfter(m) \in Int
        BY EntriesType
      <3>5. CASE now > m
        <4>1. now \in Times(m)
          BY <2>1, <3>5 DEF Times
        <4>2. SumFunctionOnSet(history', Times(m))
                = SumFunctionOnSet(history, Times(m)) + history'[now] - history[now]
          <5>1. \A t \in Times(m) : history[t] \in Int /\ history'[t] \in Int
            BY <2>1, EntriesType
          <5>2. \A t \in Times(m) \ {now} : history'[t] = history[t]
            BY <2>1, EntriesType
          <5>3. IsFiniteSet(Times(m))
            BY EntriesType
          <5> DEFINE S == Times(m)
          <5>4. PICK e, f, n : e = history /\ f = history' /\ n = now
            OBVIOUS
          <5>5. /\ IsFiniteSet(S) /\ n \in S
                /\ \A t \in S : e[t] \in Int /\ f[t] \in Int
                /\ \A t \in S \ {n} : f[t] = e[t]
            BY <4>1, <5>1, <5>2, <5>3, <5>4
          <5> HIDE DEF S
          <5>6. SumFunctionOnSet(f, S) = SumFunctionOnSet(e, S) + f[n] - e[n]
            BY <5>5, SumChange
          <5> QED
            BY <5>4, <5>6 DEF S
        <4>3. history'[now] = history[now] + 1 /\ history[now] \in Nat
          BY <2>1
        <4>4. EntriesAfter(m)' = EntriesAfter(m) + 1
          BY <3>4, <4>2, <4>3 DEF EntriesAfter, Times
        <4>5. NotedAfter(m)' \subseteq NotedAfter(m) \cup {Len(bought)}
          BY <1>1 DEF NotedAfter, Noted
        <4>6. /\ IsFiniteSet(NotedAfter(m) \cup {Len(bought)})
              /\ Cardinality(NotedAfter(m) \cup {Len(bought)}) <= Cardinality(NotedAfter(m)) + 1
          <5> DEFINE A == NotedAfter(m)
                     n == Len(bought)
          <5>1. IsFiniteSet(A) /\ Cardinality(A) \in Nat
            BY <3>3
          <5> HIDE DEF A, n
          <5>2. /\ IsFiniteSet(A \cup {n})
                /\ Cardinality(A \cup {n}) <= Cardinality(A) + 1
            BY <5>1, FS_AddElement
          <5> QED
            BY <5>2 DEF A, n
        <4>7. Cardinality(NotedAfter(m)') <= Cardinality(NotedAfter(m) \cup {Len(bought)})
          BY <4>5, <4>6, FS_Subset
        <4>8. Cardinality(NotedAfter(m) \cup {Len(bought)}) \in Nat
          BY <4>6, FS_CardinalityType
        <4> QED
          BY <3>1, <3>3, <3>4, <4>4, <4>6, <4>7, <4>8
      <3>6. CASE ~(now > m)
        <4>1. NotedAfter(m)' = {}
          <5>1. \A i \in DOMAIN bought : bought[i].time <= now /\ bought[i].time \in Nat
            BY BoughtType DEF IInv, BuysAreNoted
          <5> QED
            BY <1>1, <2>1, <3>6, <5>1 DEF NotedAfter, Noted
        <4>2. \A t \in Times(m) : history'[t] = history[t]
          BY <2>1, <3>6, EntriesType DEF Times
        <4>3. SumFunctionOnSet(history', Times(m)) = SumFunctionOnSet(history, Times(m))
          BY <4>2, EntriesType, SumAgrees
        <4>4. EntriesAfter(m)' = EntriesAfter(m)
          BY <4>3 DEF EntriesAfter, Times
        <4>5. Cardinality(NotedAfter(m)') = 0
          BY <4>1, FS_EmptySet
        <4> QED
          BY <3>1, <3>3, <3>4, <4>4, <4>5
      <3> QED
        BY <3>5, <3>6
    <2>3. ClearedWithinHour' /\ HourlyLimitHolds'
      BY <1>1, <1>4 DEF ClearedWithinHour, Cleared, HourInv, HourlyLimitHolds
    <2> QED
      BY <2>2, <2>3 DEF HourInv
  <1> QED
    BY <1>2, <1>3, <1>4

(* A buy whose save fails becomes one that is not counted.                 *)
LEMMA BookFailsHour ==
  ASSUME IInv, IInv', HourInv, NEW x \in Threads, BookFails(x)
  PROVE  HourInv'
  <1>1. /\ job[x].at = "book"
        /\ job'[x].at = "next"
        /\ \A u \in Threads \ {x} : job'[u] = job[u]
        /\ UNCHANGED <<bought, history, now>>
        /\ unnoted' = IF job[x].why = "buy" THEN unnoted \cup {Len(bought)} ELSE unnoted
    BY JobType, IdleIsNext DEF BookFails, cooling
  <1>2. CASE x # Strategy
    <2>1. unnoted' = unnoted
      BY <1>1, <1>2 DEF IInv, JobsAreSound, Sound
    <2> QED
      BY <1>1, <1>2, <2>1, HourThread
  <1>3. CASE x = Strategy
    <2>1. \A m : NotedAfter(m)' \subseteq NotedAfter(m)
      BY <1>1, <1>3 DEF NotedAfter, Noted, BookingBuy, Placed
    <2>2. HistoryCounts'
      <3> SUFFICES ASSUME NEW m \in Int, m >= now - Hour
                   PROVE  Cardinality(NotedAfter(m)') <= EntriesAfter(m)'
        BY <1>1 DEF HistoryCounts
      <3>1. Cardinality(NotedAfter(m)) <= EntriesAfter(m)
        BY DEF HourInv, HistoryCounts
      <3>2. EntriesAfter(m)' = EntriesAfter(m)
        BY <1>1 DEF EntriesAfter, Times
      <3>3. NotedAfter(m) \in SUBSET DOMAIN bought /\ NotedAfter(m)' \in SUBSET DOMAIN bought
        BY <1>1 DEF NotedAfter, Noted
      <3>4. /\ IsFiniteSet(NotedAfter(m))
            /\ Cardinality(NotedAfter(m)) \in Nat
            /\ Cardinality(NotedAfter(m)') \in Nat
        BY <3>3, NotedFinite
      <3>5. Cardinality(NotedAfter(m)') <= Cardinality(NotedAfter(m))
        BY <2>1, <3>4, FS_Subset
      <3>6. EntriesAfter(m) \in Int
        BY EntriesType
      <3> QED
        BY <3>1, <3>2, <3>4, <3>5, <3>6
    <2>3. ClearedWithinHour'
      BY <1>1, <1>3 DEF ClearedWithinHour, Cleared
    <2>4. HourlyLimitHolds'
      <3> SUFFICES ASSUME NEW k \in DOMAIN bought
                   PROVE  Cardinality({i \in 1 .. k - 1 : /\ i \notin unnoted'
                                                         /\ bought[k].time - bought[i].time < Hour})
                            < MaxOrdersPerHour
        BY <1>1 DEF HourlyLimitHolds
      <3> DEFINE A == {i \in 1 .. k - 1 : /\ i \notin unnoted
                                          /\ bought[k].time - bought[i].time < Hour}
                 B == {i \in 1 .. k - 1 : /\ i \notin unnoted'
                                          /\ bought[k].time - bought[i].time < Hour}
      <3>1. Cardinality(A) < MaxOrdersPerHour
        BY DEF HourInv, HourlyLimitHolds
      <3>2. Len(bought) \in Nat /\ DOMAIN bought = 1 .. Len(bought)
        BY DEF IInv, TypeOK
      <3>3. A \in SUBSET DOMAIN bought /\ B \in SUBSET DOMAIN bought /\ B \subseteq A
        BY <1>1, <3>2
      <3> HIDE DEF A, B
      <3>4. IsFiniteSet(A) /\ Cardinality(A) \in Nat /\ Cardinality(B) \in Nat
        BY <3>3, NotedFinite
      <3>5. Cardinality(B) <= Cardinality(A)
        BY <3>3, <3>4, FS_Subset
      <3>6. Cardinality(B) < MaxOrdersPerHour
        BY <3>1, <3>4, <3>5, HourTypes
      <3> QED
        BY <3>6 DEF B
    <2> QED
      BY <2>2, <2>3, <2>4 DEF HourInv
  <1> QED
    BY <1>2, <1>3

(* The new buy is the last, and not noted yet.                             *)
LEMMA BuyHour ==
  ASSUME IInv, IInv', HourInv, Buy
  PROVE  HourInv'
  <1> DEFINE e == [sym |-> job[Strategy].sym, time |-> now]
  <1>1. job[Strategy].at = "buy" /\ UNCHANGED <<history, now>>
    BY DEF Buy, cooling, world
  <1>2. CASE ~Affordable(job[Strategy].qty, job[Strategy].price)
    <2>1. /\ job'[Strategy].at = "next"
          /\ \A u \in Threads \ {Strategy} : job'[u] = job[u]
          /\ UNCHANGED <<bought, unnoted>>
      BY <1>2, ThreadsAre, JobType, IdleIsNext DEF Buy, Done, audit
    <2> QED
      BY <1>1, <2>1, ThreadsAre, HourThread DEF Cleared, BookingBuy, Placed
  <1>3. CASE Affordable(job[Strategy].qty, job[Strategy].price)
    <2>1. /\ bought' = Append(bought, e)
          /\ unnoted' = unnoted
          /\ job'[Strategy].at = "coins"
          /\ job'[Strategy].why = "buy"
      BY <1>3, ThreadsAre, JobType DEF Buy, Jobs
    <2>2. e \in [sym: Symbols, time: Nat]
      BY ThreadsAre, JobType DEF Jobs, IInv, TypeOK
    <2>3. /\ Len(bought) \in Nat
          /\ DOMAIN bought = 1 .. Len(bought)
          /\ Len(bought') = Len(bought) + 1
          /\ DOMAIN bought' = 1 .. Len(bought) + 1
          /\ \A i \in 1 .. Len(bought) : bought'[i] = bought[i]
          /\ bought'[Len(bought) + 1] = e
      BY <2>1, <2>2 DEF IInv, TypeOK
    <2>4. Noted' = DOMAIN bought \ unnoted /\ Noted = DOMAIN bought \ unnoted
      BY <1>1, <2>1, <2>3 DEF Noted, BookingBuy, Placed
    <2>5. \A m : NotedAfter(m)' = NotedAfter(m)
      BY <2>3, <2>4 DEF NotedAfter
    <2>6. HistoryCounts'
      BY <1>1, <2>5 DEF HourInv, HistoryCounts, EntriesAfter, Times
    <2>7. ClearedWithinHour'
      BY <2>1 DEF ClearedWithinHour, Cleared
    <2>8. ASSUME NEW k \in DOMAIN bought'
          PROVE  Cardinality({i \in 1 .. k - 1 : /\ i \notin unnoted
                                                 /\ bought'[k].time - bought'[i].time < Hour})
                   < MaxOrdersPerHour
      <3> DEFINE B == {i \in 1 .. k - 1 : /\ i \notin unnoted
                                          /\ bought'[k].time - bought'[i].time < Hour}
      <3>1. CASE k \in DOMAIN bought
        <4> DEFINE A == {i \in 1 .. k - 1 : /\ i \notin unnoted
                                            /\ bought[k].time - bought[i].time < Hour}
        <4>1. Cardinality(A) < MaxOrdersPerHour
          BY <3>1 DEF HourInv, HourlyLimitHolds
        <4>2. \A i \in 1 .. k - 1 : bought'[i] = bought[i]
          BY <2>3, <3>1
        <4>3. A = B
          BY <2>3, <3>1, <4>2
        <4> QED
          BY <4>1, <4>3
      <3>2. CASE k = Len(bought) + 1
        <4>1. Cardinality(NotedAfter(now - Hour)) < MaxOrdersPerHour
          BY <1>1 DEF HourInv, ClearedWithinHour, Cleared
        <4>2. \A i \in 1 .. Len(bought) : bought[i].time \in Nat
          BY <2>3, BoughtType
        <4>3. bought'[k].time = now
          BY <2>3, <3>2
        <4>4. B = NotedAfter(now - Hour)
          <5>1. 1 .. k - 1 = DOMAIN bought
            BY <2>3, <3>2
          <5> QED
            BY <2>3, <2>4, <4>2, <4>3, <5>1, HourTypes DEF NotedAfter
        <4> QED
          BY <4>1, <4>4
      <3>3. k \in DOMAIN bought \/ k = Len(bought) + 1
        BY <2>3
      <3> QED
        BY <3>1, <3>2, <3>3
    <2>9. HourlyLimitHolds'
      BY <2>1, <2>8 DEF HourlyLimitHolds
    <2> QED
      BY <2>6, <2>7, <2>9 DEF HourInv
  <1> QED
    BY <1>2, <1>3

(* All other steps of the strategy.                                        *)
LEMMA StrategyHour ==
  ASSUME IInv, IInv', HourInv,
         \/ StartCycle
         \/ \E s \in Symbols : StrategyNext(s)
         \/ StrategyFails
         \/ \E action \in {"buy", "sell", "hold"}, confident \in BOOLEAN :
               Signal(action, confident)
         \/ Exit
         \/ \E q \in Quantities : Size(q)
  PROVE  HourInv'
  <1>1. UNCHANGED <<bought, unnoted, history, now>>
    BY DEF StartCycle, StrategyNext, StrategyFails, Signal, Exit, Size, audit, cooling,
       world
  <1>2. /\ \A u \in Threads \ {Strategy} : job'[u] = job[u]
        /\ job[Strategy].at \notin Placed
        /\ job'[Strategy].at \in Cleared => job[Strategy].at \in Cleared
    <2> USE DEF Cleared, Placed
    <2>1. CASE StartCycle
      BY <2>1, ThreadsAre, JobType, IdleIsNext DEF StartCycle, Jobs
    <2>2. CASE \E s \in Symbols : StrategyNext(s)
      BY <2>2, ThreadsAre, JobType, AtFacts DEF StrategyNext
    <2>3. CASE StrategyFails
      BY <2>3, ThreadsAre, JobType, IdleIsNext DEF StrategyFails
    <2>4. ASSUME NEW action \in {"buy", "sell", "hold"}, NEW confident \in BOOLEAN,
                 Signal(action, confident)
          PROVE  /\ \A u \in Threads \ {Strategy} : job'[u] = job[u]
                 /\ job[Strategy].at \notin Placed
                 /\ job'[Strategy].at \in Cleared => job[Strategy].at \in Cleared
      BY <2>4, ThreadsAre, JobType, IdleIsNext DEF Signal, Go, Done, Jobs
    <2>5. CASE Exit
      BY <2>5, ThreadsAre, JobType DEF Exit, Jobs
    <2>6. CASE \E q \in Quantities : Size(q)
      BY <2>6, ThreadsAre, JobType DEF Size, Jobs
    <2> QED
      BY <2>1, <2>2, <2>3, <2>4, <2>5, <2>6
  <1> QED
    BY <1>1, <1>2, ThreadsAre, HourThread DEF BookingBuy

(* Stops and orders.                                                       *)
LEMMA StopHour ==
  ASSUME IInv, IInv', HourInv, NEW x \in Threads,
         \/ Look(x) \/ Judge(x) \/ PopHigh(x) \/ Capture(x) \/ Sell(x)
         \/ MoveCoins(x) \/ SetAverage(x)
  PROVE  HourInv'
  <1>1. UNCHANGED <<bought, unnoted, history, now>>
    BY DEF Look, Judge, PopHigh, Capture, Sell, MoveCoins, SetAverage, audit, cooling, world
  <1>2. /\ \A u \in Threads \ {x} : job'[u] = job[u]
        /\ job'[x].at \in Cleared => job[x].at \in Cleared
        /\ job[x].at \in Placed => job'[x].at \in Placed /\ job'[x].why = job[x].why
    <2> USE DEF Cleared, Placed
    <2>1. CASE Look(x)
      BY <2>1, JobType DEF Look, Jobs
    <2>2. CASE Judge(x)
      BY <2>2, JobType, IdleIsNext DEF Judge, Jobs
    <2>3. CASE PopHigh(x)
      BY <2>3, JobType DEF PopHigh, Go, Jobs
    <2>4. CASE Capture(x)
      BY <2>4, JobType, IdleIsNext DEF Capture, Jobs
    <2>5. CASE Sell(x)
      BY <2>5, JobType, IdleIsNext DEF Sell, Done, Jobs
    <2>6. CASE MoveCoins(x)
      BY <2>6, JobType DEF MoveCoins, Go, Jobs
    <2>7. CASE SetAverage(x)
      BY <2>7, JobType DEF SetAverage, Go, Jobs
    <2> QED
      BY <2>1, <2>2, <2>3, <2>4, <2>5, <2>6, <2>7
  <1> QED
    BY <1>1, <1>2, HourThread DEF BookingBuy

LEMMA OthersHour ==
  ASSUME IInv, IInv', HourInv, MonitorStep \/ WsStep
  PROVE  HourInv'
  <1>1. UNCHANGED <<bought, unnoted, history, now>>
    BY DEF MonitorStep, WsStep, StartRound, MonitorNext, MonitorSkips, OnPrice, audit,
       cooling, world
  <1>2. Monitor # Strategy /\ Ws # Strategy
    <2>1. Monitor = Strategy \/ Ws = Strategy => Threads = {Monitor, Ws}
      BY DEF Threads
    <2>2. IsFiniteSet({Monitor}) /\ Cardinality({Monitor}) = 1
      BY FS_Singleton
    <2>3. Cardinality({Monitor} \cup {Ws}) <= 2
      BY <2>2, FS_AddElement
    <2>4. {Monitor} \cup {Ws} = {Monitor, Ws}
      OBVIOUS
    <2> QED
      BY <2>1, <2>3, <2>4, EngineAssumption
  <1>3. \/ \A u \in Threads \ {Monitor} : job'[u] = job[u]
        \/ \A u \in Threads \ {Ws} : job'[u] = job[u]
    BY ThreadsAre, JobType DEF MonitorStep, WsStep, StartRound, MonitorNext, MonitorSkips, OnPrice
  <1> QED
    BY <1>1, <1>2, <1>3, ThreadsAre, HourThread

LEMMA StillHour ==
  ASSUME IInv, IInv', HourInv, UNCHANGED <<job, bought, unnoted, history, now>>
  PROVE  HourInv'
  <1>1. BookingBuy => BookingBuy'
    BY DEF BookingBuy
  <1> QED
    BY <1>1, HourTypes, HourQuiet DEF HourInv, ClearedWithinHour

LEMMA InitHour == Init => HourInv
  <1> SUFFICES ASSUME Init PROVE HourInv
    OBVIOUS
  <1>1. IInv
    BY InitInv
  <1>2. \A i : i \notin DOMAIN bought
    BY DEF Init
  <1>3. HistoryCounts
    <2> SUFFICES ASSUME NEW m \in Int PROVE Cardinality(NotedAfter(m)) <= EntriesAfter(m)
      BY DEF HistoryCounts
    <2>1. NotedAfter(m) = {}
      BY <1>2 DEF NotedAfter, Noted
    <2>2. \A t \in Times(m) : history[t] = 0
      BY DEF Init, Times
    <2>3. EntriesAfter(m) = 0
      BY <1>1, <2>2, EntriesType, SumOfZeros DEF EntriesAfter
    <2>4. Cardinality(NotedAfter(m)) = 0
      BY <2>1, FS_EmptySet
    <2> QED
      BY <2>3, <2>4
  <1>4. ClearedWithinHour
    BY ThreadsAre, IdleIsNext DEF Init, ClearedWithinHour, Cleared
  <1>5. HourlyLimitHolds
    BY <1>2 DEF HourlyLimitHolds
  <1> QED
    BY <1>3, <1>4, <1>5 DEF HourInv

LEMMA NextHour == IInv /\ HourInv /\ [Next]_vars => HourInv'
  <1> SUFFICES ASSUME IInv, HourInv, [Next]_vars PROVE HourInv'
    OBVIOUS
  <1>1. IInv'
    BY NextInv
  <1>2. CASE StrategyStep
    BY <1>1, <1>2, StrategyHour, ConsiderBuyHour, BuyHour DEF StrategyStep
  <1>3. CASE MonitorStep \/ WsStep
    BY <1>1, <1>3, OthersHour
  <1>4. ASSUME NEW x \in Threads, StopStep(x) PROVE HourInv'
    BY <1>1, <1>4, StopHour, BookHour, BookFailsHour DEF StopStep
  <1>5. CASE Tick
    BY <1>1, <1>5, TickHour
  <1>6. ASSUME NEW s \in Symbols, NEW p \in Prices, MarketMoves(s, p) PROVE HourInv'
    BY <1>1, <1>6, StillHour DEF MarketMoves, audit, cooling
  <1>7. CASE UNCHANGED vars
    BY <1>1, <1>7, StillHour DEF vars, audit, cooling, world
  <1> QED
    BY <1>2, <1>3, <1>4, <1>5, <1>6, <1>7 DEF Next

(* The hour before any buy has room for it under max_orders_per_hour,      *)
(* although the buys are counted by when they were noted, not executed,    *)
(* and the history is pruned whenever it is looked at.                     *)
THEOREM HourlyLimitIsKept == Spec => []HourlyLimitHolds
  <1>1. HourInv => HourlyLimitHolds
    BY DEF HourInv
  <1>2. Spec => []HourInv
    BY InitHour, NextHour, Invariance, PTL DEF Spec
  <1> QED
    BY <1>1, <1>2, PTL

----------------------------------------------------------------------------
(* The refinement of Ledger                                                *)

(* The two modules count the money of an order alike.                      *)
LEMMA SameMoney ==
  /\ \A q, p : Account!Cost(q, p) = Cost(q, p)
  /\ \A q, p : Account!Proceeds(q, p) = Proceeds(q, p)
  BY DEF Account!Cost, Account!Proceeds, Cost, Proceeds

(* With no order between cash and coins, the cash is the account's; of one *)
(* that is, the account is that of before.                                 *)
LEMMA SettledIsCash ==
  ASSUME \A x \in Threads : job[x].at # "coins"
  PROVE  SettledCash = cash
  <1>1. Unsettled = {}
    BY DEF Unsettled
  <1> QED
    BY <1>1 DEF SettledCash

LEMMA SettledIsBefore ==
  ASSUME NEW x \in Threads, \A u \in Threads : job[u].at = "coins" <=> u = x
  PROVE  SettledCash = IF job[x].why = "buy"
                       THEN cash + Cost(job[x].qty, job[x].price)
                       ELSE cash - Proceeds(job[x].qty, job[x].price)
  <1>1. Unsettled = {x}
    BY DEF Unsettled
  <1>2. (CHOOSE u \in Unsettled : TRUE) = x
    BY <1>1
  <1> QED
    BY <1>1, <1>2 DEF SettledCash

(* Who is between cash and coins is alone there.                           *)
LEMMA OnlyOneUnsettled ==
  ASSUME IInv, NEW x \in Threads, job[x].at = "coins"
  PROVE  \A u \in Threads : job[u].at = "coins" <=> u = x
  BY DEF IInv, LockIsExclusive, Inside

(* A step that changes neither cash nor coins, nor who is between them.    *)
LEMMA StillSettled ==
  ASSUME IInv, UNCHANGED cash,
         \A x \in Threads : job[x].at = "coins" \/ job'[x].at = "coins" => job'[x] = job[x]
  PROVE  SettledCash' = SettledCash
  <1>1. CASE \A x \in Threads : job[x].at # "coins"
    <2>1. \A x \in Threads : job'[x].at # "coins"
      BY <1>1
    <2>2. SettledCash = cash
      BY <1>1, SettledIsCash
    <2>3. Unsettled' = {}
      BY <2>1 DEF Unsettled
    <2>4. SettledCash' = cash'
      BY <2>3 DEF SettledCash
    <2> QED
      BY <2>2, <2>4
  <1>2. CASE \E x \in Threads : job[x].at = "coins"
    <2>1. PICK x \in Threads : job[x].at = "coins"
      BY <1>2
    <2>2. \A u \in Threads : job[u].at = "coins" <=> u = x
      BY <2>1, OnlyOneUnsettled
    <2>3. job'[x] = job[x] /\ Unsettled = {x} /\ Unsettled' = {x}
      BY <2>1, <2>2 DEF Unsettled
    <2>4. (CHOOSE u \in {x} : TRUE) = x
      OBVIOUS
    <2> QED
      BY <2>3, <2>4 DEF SettledCash
  <1> QED
    BY <1>1, <1>2

(* Taking the cash of an order, or paying it out, is not seen.             *)
LEMMA EnteringIsNotSeen ==
  ASSUME IInv, NEW x \in Threads, LockIsFree,
         \A u \in Threads \ {x} : job'[u] = job[u],
         job'[x].at = "coins",
         job'[x].qty \in Nat, job'[x].price \in Nat, cash \in Nat,
         cash' = IF job'[x].why = "buy"
                 THEN cash - Cost(job'[x].qty, job'[x].price)
                 ELSE cash + Proceeds(job'[x].qty, job'[x].price)
  PROVE  SettledCash' = SettledCash
  <1> DEFINE c == Cost(job'[x].qty, job'[x].price)
             r == Proceeds(job'[x].qty, job'[x].price)
  <1>1. SettledCash = cash
    BY SettledIsCash DEF LockIsFree
  <1>2. Unsettled' = {x}
    BY DEF Unsettled, LockIsFree
  <1>3. (CHOOSE u \in {x} : TRUE) = x
    OBVIOUS
  <1>4. SettledCash' = IF job'[x].why = "buy" THEN cash' + c ELSE cash' - r
    BY <1>2, <1>3 DEF SettledCash, Cost, Proceeds
  <1>5. c \in Nat /\ r \in Nat
    BY OrderMoney
  <1> HIDE DEF c, r
  <1>6. cash' = IF job'[x].why = "buy" THEN cash - c ELSE cash + r
    BY DEF c, r
  <1> QED
    BY <1>1, <1>4, <1>5, <1>6

LEMMA SellRefines ==
  ASSUME IInv, NEW x \in Threads, Sell(x)
  PROVE  UNCHANGED Account!ledgerVars
  <1>1. job[x].at = "sell" /\ job[x].why # "buy" /\ LockIsFree /\ coins' = coins
    BY DEF Sell, IInv, JobsAreSound, Sound, Placed
  <1>2. CASE ~Deliverable(job[x])
    <2>1. /\ UNCHANGED cash
          /\ \A u \in Threads : job[u].at = "coins" \/ job'[u].at = "coins"
                               => job'[u] = job[u]
      BY <1>1, <1>2, JobType, IdleIsNext DEF Sell, Done
    <2> QED
      BY <1>1, <2>1, StillSettled DEF Account!ledgerVars
  <1>3. CASE Deliverable(job[x])
    <2>1. /\ \A u \in Threads \ {x} : job'[u] = job[u]
          /\ job'[x].at = "coins"
          /\ job'[x].why = job[x].why
          /\ job'[x].qty = job[x].qty
          /\ job'[x].price = job[x].price
          /\ cash' = cash + Proceeds(job[x].qty, job[x].price)
      BY <1>3, JobType DEF Sell, Jobs
    <2>2. job[x].qty \in Nat /\ job[x].price \in Nat /\ cash \in Nat
      BY <1>1, OrderFacts
    <2> QED
      BY <1>1, <2>1, <2>2, EnteringIsNotSeen DEF Account!ledgerVars
  <1> QED
    BY <1>2, <1>3

LEMMA BuyRefines ==
  ASSUME IInv, Buy
  PROVE  UNCHANGED Account!ledgerVars
  <1>1. job[Strategy].at = "buy" /\ LockIsFree /\ coins' = coins
    BY DEF Buy
  <1>2. CASE ~Affordable(job[Strategy].qty, job[Strategy].price)
    <2>1. /\ UNCHANGED cash
          /\ \A u \in Threads : job[u].at = "coins" \/ job'[u].at = "coins"
                               => job'[u] = job[u]
      BY <1>1, <1>2, ThreadsAre, JobType, IdleIsNext DEF Buy, Done
    <2> QED
      BY <1>1, <2>1, StillSettled DEF Account!ledgerVars
  <1>3. CASE Affordable(job[Strategy].qty, job[Strategy].price)
    <2>1. /\ \A u \in Threads \ {Strategy} : job'[u] = job[u]
          /\ job'[Strategy].at = "coins"
          /\ job'[Strategy].why = "buy"
          /\ job'[Strategy].qty = job[Strategy].qty
          /\ job'[Strategy].price = job[Strategy].price
          /\ cash' = cash - Cost(job[Strategy].qty, job[Strategy].price)
      <3> DEFINE gain == -(job[Strategy].qty * job[Strategy].price * FeeNum)
                 j == [job[Strategy] EXCEPT !.at = "coins", !.why = "buy", !.gain = gain]
      <3>1. job' = [job EXCEPT ![Strategy] = j]
        BY <1>3, ThreadsAre, JobType DEF Buy
      <3>2. cash' = cash - Cost(job[Strategy].qty, job[Strategy].price)
        BY <1>3 DEF Buy
      <3> HIDE DEF gain
      <3> QED
        BY <3>1, <3>2, ThreadsAre, JobType DEF Jobs
    <2>2. job[Strategy].qty \in Nat /\ job[Strategy].price \in Nat /\ cash \in Nat
      BY <1>1, ThreadsAre, OrderFacts
    <2> QED
      BY <1>1, <2>1, <2>2, ThreadsAre, EnteringIsNotSeen DEF Account!ledgerVars
  <1> QED
    BY <1>2, <1>3

(* The order takes effect when its coins have followed its cash.           *)
LEMMA MoveCoinsRefines ==
  ASSUME IInv, NEW x \in Threads, MoveCoins(x)
  PROVE  Account!LedgerNext
  <1> DEFINE s == job[x].sym
             q == job[x].qty
             p == job[x].price
  <1>1. job[x].at = "coins" /\ UNCHANGED cash
    BY DEF MoveCoins, Go
  <1>2. /\ s \in Symbols
        /\ q \in Nat
        /\ p \in Prices
        /\ p \in Nat
        /\ coins[s] \in Nat
        /\ cash \in Nat
        /\ job[x].why = "buy" => q \in Quantities
        /\ job[x].why # "buy" => q <= coins[s]
    BY <1>1, OrderFacts DEF IInv, JobsAreSound, Sound, OrdersFit, Fits
  <1>3. SettledCash = IF job[x].why = "buy" THEN cash + Cost(q, p) ELSE cash - Proceeds(q, p)
    BY <1>1, OnlyOneUnsettled, SettledIsBefore
  <1>4. SettledCash' = cash
    <2>1. \A u \in Threads : job'[u].at # "coins"
      BY <1>1, OnlyOneUnsettled, JobType DEF MoveCoins, Go, Jobs
    <2>2. Unsettled' = {}
      BY <2>1 DEF Unsettled
    <2> QED
      BY <1>1, <2>2 DEF SettledCash
  <1>5. Cost(q, p) \in Nat /\ Proceeds(q, p) \in Nat
    BY <1>2, OrderMoney
  <1>6. CASE job[x].why = "buy"
    <2>1. Cost(q, p) <= SettledCash /\ SettledCash' = SettledCash - Cost(q, p)
      BY <1>2, <1>3, <1>4, <1>5, <1>6
    <2>2. coins' = [coins EXCEPT ![s] = @ + q]
      BY <1>6 DEF MoveCoins
    <2>3. Account!BuyOrder(s, q, p)
      BY <2>1, <2>2, SameMoney DEF Account!BuyOrder
    <2> QED
      BY <1>2, <1>6, <2>3 DEF Account!LedgerNext
  <1>7. CASE job[x].why # "buy"
    <2>1. SettledCash' = SettledCash + Proceeds(q, p)
      BY <1>2, <1>3, <1>4, <1>5, <1>7
    <2>2. coins' = [coins EXCEPT ![s] = @ - q] /\ q \in 0 .. coins[s]
      BY <1>2, <1>7 DEF MoveCoins
    <2>3. Account!SellOrder(s, q, p)
      BY <1>2, <1>7, <2>1, <2>2, SameMoney DEF Account!SellOrder
    <2> QED
      BY <1>2, <2>2, <2>3 DEF Account!LedgerNext
  <1> QED
    BY <1>6, <1>7

(* All other steps.                                                        *)
LEMMA OthersRefine ==
  ASSUME IInv, UNCHANGED <<cash, coins>>,
         \A x \in Threads : job[x].at = "coins" \/ job'[x].at = "coins" => job'[x] = job[x]
  PROVE  UNCHANGED Account!ledgerVars
  BY StillSettled DEF Account!ledgerVars

LEMMA StrategyRefines ==
  ASSUME IInv,
         \/ StartCycle
         \/ \E s \in Symbols : StrategyNext(s)
         \/ StrategyFails
         \/ \E action \in {"buy", "sell", "hold"}, confident \in BOOLEAN :
               Signal(action, confident)
         \/ Exit
         \/ ConsiderBuy
         \/ \E q \in Quantities : Size(q)
  PROVE  UNCHANGED Account!ledgerVars
  <1>1. UNCHANGED <<cash, coins>>
    BY DEF StartCycle, StrategyNext, StrategyFails, Signal, Exit, ConsiderBuy, Size, account
  <1>2. /\ \A u \in Threads \ {Strategy} : job'[u] = job[u]
        /\ job[Strategy].at # "coins"
        /\ job'[Strategy].at # "coins"
    <2>1. CASE StartCycle
      BY <2>1, ThreadsAre, JobType, IdleIsNext DEF StartCycle, Jobs
    <2>2. CASE \E s \in Symbols : StrategyNext(s)
      BY <2>2, ThreadsAre, JobType, AtFacts DEF StrategyNext
    <2>3. CASE StrategyFails
      BY <2>3, ThreadsAre, JobType, IdleIsNext DEF StrategyFails
    <2>4. ASSUME NEW action \in {"buy", "sell", "hold"}, NEW confident \in BOOLEAN,
                 Signal(action, confident)
          PROVE  /\ \A u \in Threads \ {Strategy} : job'[u] = job[u]
                 /\ job[Strategy].at # "coins"
                 /\ job'[Strategy].at # "coins"
      BY <2>4, ThreadsAre, JobType, IdleIsNext DEF Signal, Go, Done, Jobs
    <2>5. CASE Exit
      BY <2>5, ThreadsAre, JobType DEF Exit, Jobs
    <2>6. CASE ConsiderBuy
      BY <2>6, ThreadsAre, JobType, IdleIsNext DEF ConsiderBuy, Go, Done, Jobs
    <2>7. CASE \E q \in Quantities : Size(q)
      BY <2>7, ThreadsAre, JobType DEF Size, Jobs
    <2> QED
      BY <2>1, <2>2, <2>3, <2>4, <2>5, <2>6, <2>7
  <1> QED
    BY <1>1, <1>2, OthersRefine

LEMMA WatchersRefine ==
  ASSUME IInv, MonitorStep \/ WsStep
  PROVE  UNCHANGED Account!ledgerVars
  <1>1. UNCHANGED <<cash, coins>>
    BY DEF MonitorStep, WsStep, StartRound, MonitorNext, MonitorSkips, OnPrice, account
  <1>2. \A u \in Threads : job[u].at = "coins" \/ job'[u].at = "coins" => job'[u] = job[u]
    <2>1. CASE StartRound
      BY <2>1, ThreadsAre, JobType, IdleIsNext DEF StartRound, Jobs
    <2>2. ASSUME NEW s \in Symbols, MonitorNext(s) \/ MonitorSkips(s)
          PROVE  \A u \in Threads : job[u].at = "coins" \/ job'[u].at = "coins"
                                    => job'[u] = job[u]
      BY <2>2, ThreadsAre, JobType, IdleIsNext, AtFacts DEF MonitorNext, MonitorSkips
    <2>3. CASE WsStep
      BY <2>3, ThreadsAre, JobType, AtFacts DEF WsStep, OnPrice
    <2> QED
      BY <2>1, <2>2, <2>3 DEF MonitorStep
  <1> QED
    BY <1>1, <1>2, OthersRefine

LEMMA StopRefines ==
  ASSUME IInv, NEW x \in Threads, StopStep(x)
  PROVE  Account!LedgerNext \/ UNCHANGED Account!ledgerVars
  <1>1. ASSUME Look(x) \/ Judge(x) \/ PopHigh(x) \/ Capture(x) \/ SetAverage(x)
                 \/ Book(x) \/ BookFails(x)
        PROVE  UNCHANGED Account!ledgerVars
    <2>1. UNCHANGED <<cash, coins>>
      BY <1>1 DEF Look, Judge, PopHigh, Capture, SetAverage, Book, BookFails, account
    <2>2. /\ \A u \in Threads \ {x} : job'[u] = job[u]
          /\ job[x].at # "coins"
          /\ job'[x].at # "coins"
      <3>1. CASE Look(x)
        BY <3>1, JobType DEF Look, Jobs
      <3>2. CASE Judge(x)
        BY <3>2, JobType, IdleIsNext DEF Judge, Jobs
      <3>3. CASE PopHigh(x)
        BY <3>3, JobType DEF PopHigh, Go, Jobs
      <3>4. CASE Capture(x)
        BY <3>4, JobType, IdleIsNext DEF Capture, Jobs
      <3>5. CASE SetAverage(x)
        BY <3>5, JobType DEF SetAverage, Go, Jobs
      <3>6. CASE Book(x)
        BY <3>6, JobType, IdleIsNext DEF Book, Done
      <3>7. CASE BookFails(x)
        BY <3>7, JobType, IdleIsNext DEF BookFails
      <3> QED
        BY <1>1, <3>1, <3>2, <3>3, <3>4, <3>5, <3>6, <3>7
    <2> QED
      BY <2>1, <2>2, OthersRefine
  <1> QED
    BY <1>1, SellRefines, MoveCoinsRefines DEF StopStep

LEMMA NextRefines == IInv /\ [Next]_vars => [Account!LedgerNext]_(Account!ledgerVars)
  <1> SUFFICES ASSUME IInv, [Next]_vars
               PROVE  Account!LedgerNext \/ UNCHANGED Account!ledgerVars
    BY DEF Account!ledgerVars
  <1>1. CASE StrategyStep
    BY <1>1, StrategyRefines, BuyRefines DEF StrategyStep
  <1>2. CASE MonitorStep \/ WsStep
    BY <1>2, WatchersRefine
  <1>3. ASSUME NEW x \in Threads, StopStep(x)
        PROVE  Account!LedgerNext \/ UNCHANGED Account!ledgerVars
    BY <1>3, StopRefines
  <1>4. ASSUME NEW s \in Symbols, NEW p \in Prices, MarketMoves(s, p)
        PROVE  UNCHANGED Account!ledgerVars
    BY <1>4, OthersRefine DEF MarketMoves, account
  <1>5. CASE Tick
    BY <1>5, OthersRefine DEF Tick, account
  <1>6. CASE UNCHANGED vars
    BY <1>6, OthersRefine DEF vars, account
  <1> QED
    BY <1>1, <1>2, <1>3, <1>4, <1>5, <1>6 DEF Next

(* The threads together keep one ledger: with the cash of an order counted *)
(* from when its coins follow, every change of cash and coins is one whole *)
(* order, paid from what is there and delivered from what is held,         *)
(* whatever was read without the lock before.                              *)
THEOREM EngineKeepsALedger == Spec => ImplementsLedger
  <1>1. Init => Account!LedgerInit
    <2> SUFFICES ASSUME Init PROVE Account!LedgerInit
      OBVIOUS
    <2>1. \A x \in Threads : job[x].at # "coins"
      BY IdleIsNext DEF Init
    <2>2. SettledCash = cash
      BY <2>1, SettledIsCash
    <2> QED
      BY <2>2 DEF Init, Account!LedgerInit
  <1>2. IInv /\ [Next]_vars => [Account!LedgerNext]_(Account!ledgerVars)
    BY NextRefines
  <1> QED
    BY <1>1, <1>2, Invariance, PTL DEF Spec, ImplementsLedger, Account!LedgerSpec

=============================================================================
