------------------------- MODULE PaperBrokerProofs -------------------------
(***************************************************************************)
(* For every set of threads, symbols, quantities and prices: the account   *)
(* is never overdrawn, orders of different threads take effect as whole    *)
(* orders one after the other (Ledger), what is saved is what is held,     *)
(* and the trade log explains the account.                                 *)
(***************************************************************************)
EXTENDS PaperBroker, Sums

----------------------------------------------------------------------------
(* The inductive invariant                                                 *)

(* A thread is between check and release exactly while it holds _lock.     *)
LockHeld == \A t \in Threads : lock = t <=> call[t].at \in {"money", "coins"}

InsideHasOrder == \A t \in Threads : call[t].at # "idle" => call[t].order # NoOrder

(* What the check has established still holds when it is used.             *)
CheckedStillHolds ==
    \A t \in Threads :
        /\ call[t].at = "money" => Executable(call[t].order)
        /\ call[t].at = "coins" /\ call[t].order.op = "sell"
             => call[t].order.qty <= quantity[call[t].order.sym]

NonNegative(tab) ==
    /\ tab.cash >= 0
    /\ \A s \in Symbols : tab.rows[s] # NoRow => tab.rows[s] >= 0

(* Neither memory nor anything that is saved or about to be is negative.   *)
NothingNegative ==
    /\ balance >= 0
    /\ \A s \in Symbols : quantity[s] >= 0
    /\ NonNegative(conn)
    /\ NonNegative(disk)
    /\ \A t \in Threads : call[t].cash >= 0

IInv == TypeOK /\ LockHeld /\ InsideHasOrder /\ CheckedStillHolds /\ NothingNegative

----------------------------------------------------------------------------
(* Orders                                                                  *)

LEMMA ProductIsNat == ASSUME NEW a \in Nat, NEW b \in Nat PROVE a * b \in Nat
  OBVIOUS

(* An order moves a non-negative amount of money.                          *)
LEMMA OrderMoney ==
  ASSUME NEW o \in Orders
  PROVE  Cost(o) \in Nat /\ Proceeds(o) \in Nat
  <1>1. o.qty \in Nat /\ o.price \in Nat
    BY PaperAssumption DEF Orders
  <1>2. o.qty * o.price \in Nat
    BY <1>1, ProductIsNat
  <1>3. FeeDen + FeeNum \in Nat /\ FeeDen - FeeNum \in Nat
    BY PaperAssumption
  <1> QED
    BY <1>2, <1>3, ProductIsNat DEF Cost, Proceeds

----------------------------------------------------------------------------
(* The tables                                                              *)

LEMMA NoRowsNonNegative ==
  ASSUME NEW tab \in Tables, NonNegative(tab)
  PROVE  /\ [tab EXCEPT !.rows = NoRows] \in Tables
         /\ NonNegative([tab EXCEPT !.rows = NoRows])
  BY DEF NonNegative, Tables, NoRows

LEMMA RowNonNegative ==
  ASSUME NEW tab \in Tables, NonNegative(tab), NEW s \in Symbols, NEW q \in Nat
  PROVE  /\ [tab EXCEPT !.rows[s] = q] \in Tables
         /\ NonNegative([tab EXCEPT !.rows[s] = q])
  BY DEF NonNegative, Tables

LEMMA CashNonNegative ==
  ASSUME NEW tab \in Tables, NonNegative(tab), NEW c \in Nat
  PROVE  /\ [tab EXCEPT !.cash = c] \in Tables
         /\ NonNegative([tab EXCEPT !.cash = c])
  BY DEF NonNegative, Tables

----------------------------------------------------------------------------
(* Where threads are                                                       *)

LEMMA MoveFacts ==
  ASSUME call \in [Threads -> Calls], NEW t \in Threads, NEW from, NEW to \in Locations,
         Move(t, from, to)
  PROVE  /\ call[t].at = from
         /\ call' \in [Threads -> Calls]
         /\ call'[t].at = to
         /\ call'[t].order = call[t].order
         /\ call'[t].cash = call[t].cash
         /\ \A u \in Threads \ {t} : call'[u] = call[u]
  BY DEF Move, Calls

LEMMA LeaveFacts ==
  ASSUME call \in [Threads -> Calls], NEW t \in Threads, NEW from, Leave(t, from)
  PROVE  /\ call[t].at = from
         /\ call' \in [Threads -> Calls]
         /\ call'[t] = Outside
         /\ \A u \in Threads \ {t} : call'[u] = call[u]
  <1>1. Outside \in Calls
    BY DEF Outside, Calls, Locations
  <1> QED
    BY <1>1 DEF Leave

LEMMA OutsideFacts == Outside.at = "idle" /\ Outside.cash = 0
  BY DEF Outside

(* A thread inside the broker works on an order.                           *)
LEMMA OrderInside ==
  ASSUME TypeOK, InsideHasOrder, NEW t \in Threads, call[t].at # "idle"
  PROVE  call[t].order \in Orders
  BY DEF TypeOK, InsideHasOrder, Calls

----------------------------------------------------------------------------
(* Steps that leave memory and lock alone                                  *)

(* Such a step by a thread that neither is nor gets between check and      *)
(* release keeps what is said of the lock and of the checked order.        *)
LEMMA OutsideLock ==
  ASSUME IInv, NEW t \in Threads, UNCHANGED <<memory, lock>>,
         call[t].at \notin {"money", "coins"},
         call'[t].at \notin {"money", "coins"},
         \A u \in Threads \ {t} : call'[u] = call[u],
         call'[t].at # "idle" => call'[t].order # NoOrder
  PROVE  LockHeld' /\ InsideHasOrder' /\ CheckedStillHolds'
  <1>1. LockHeld'
    BY DEF IInv, LockHeld
  <1>2. InsideHasOrder'
    BY DEF IInv, InsideHasOrder
  <1>3. CheckedStillHolds'
    BY DEF IInv, CheckedStillHolds, memory, Executable, Affordable, Deliverable
  <1> QED
    BY <1>1, <1>2, <1>3

(* Such a step keeps memory non-negative.                                  *)
LEMMA MemoryKept ==
  ASSUME NothingNegative, UNCHANGED memory, NonNegative(conn'), NonNegative(disk'),
         \A u \in Threads : call'[u].cash >= 0
  PROVE  NothingNegative'
  <1>1. NonNegative(conn)' /\ NonNegative(disk)'
    BY DEF NonNegative
  <1> QED
    BY <1>1 DEF NothingNegative, memory

LEMMA CallStep ==
  ASSUME IInv, NEW t \in Threads, NEW o \in Orders, Call(t, o)
  PROVE  IInv'
  <1>1. [at |-> "enter", order |-> o, cash |-> 0] \in Calls
    BY DEF Calls, Locations
  <1>2. /\ call' \in [Threads -> Calls]
        /\ call'[t] = [at |-> "enter", order |-> o, cash |-> 0]
        /\ \A u \in Threads \ {t} : call'[u] = call[u]
    BY <1>1 DEF Call, IInv, TypeOK
  <1>3. TypeOK'
    BY <1>2 DEF IInv, TypeOK, Call, memory, tables
  <1>4. LockHeld' /\ InsideHasOrder' /\ CheckedStillHolds'
    BY <1>2, OutsideLock, NoOrderAssumption DEF Call
  <1>5. \A u \in Threads : call'[u].cash >= 0
    BY <1>2 DEF IInv, NothingNegative
  <1>6. NothingNegative'
    BY <1>5, MemoryKept DEF Call, IInv, NothingNegative, tables
  <1> QED
    BY <1>3, <1>4, <1>6 DEF IInv

LEMMA CheckStep ==
  ASSUME IInv, NEW t \in Threads, Check(t)
  PROVE  IInv'
  <1>1. call \in [Threads -> Calls] /\ lock = NoThread /\ t # NoThread
    BY PaperAssumption DEF IInv, TypeOK, Check
  <1>2. CASE /\ Move(t, "enter", "money")
             /\ Executable(call[t].order)
             /\ lock' = t
    <2>1. /\ call[t].at = "enter"
          /\ call' \in [Threads -> Calls]
          /\ call'[t].at = "money"
          /\ call'[t].order = call[t].order
          /\ call'[t].cash = call[t].cash
          /\ \A u \in Threads \ {t} : call'[u] = call[u]
      BY <1>1, <1>2, MoveFacts DEF Locations
    <2>2. \A u \in Threads : call[u].at \notin {"money", "coins"}
      BY <1>1, PaperAssumption DEF IInv, LockHeld
    <2>3. TypeOK'
      BY <2>1, <1>2 DEF IInv, TypeOK, Check, memory, tables, bounds
    <2>4. LockHeld'
      BY <2>1, <2>2, <1>2 DEF LockHeld
    <2>5. InsideHasOrder'
      BY <2>1 DEF IInv, InsideHasOrder
    <2>6. UNCHANGED <<balance, quantity, keys>>
      BY DEF Check, memory
    <2>7. CheckedStillHolds'
      <3>1. \A u \in Threads \ {t} : call'[u].at \notin {"money", "coins"}
        BY <2>1, <2>2
      <3>2. Executable(call[t].order)'
        BY <2>1, <2>6, <1>2 DEF Executable, Affordable, Deliverable
      <3> QED
        BY <2>1, <3>1, <3>2 DEF CheckedStillHolds
    <2>8. NothingNegative'
      BY <2>1, MemoryKept DEF Check, IInv, NothingNegative, tables
    <2> QED
      BY <2>3, <2>4, <2>5, <2>7, <2>8 DEF IInv
  <1>3. CASE Leave(t, "enter") /\ UNCHANGED lock
    <2>1. /\ call[t].at = "enter"
          /\ call' \in [Threads -> Calls]
          /\ call'[t] = Outside
          /\ \A u \in Threads \ {t} : call'[u] = call[u]
      BY <1>1, <1>3, LeaveFacts
    <2>2. TypeOK'
      BY <2>1, <1>3 DEF IInv, TypeOK, Check, memory, tables, bounds
    <2>3. LockHeld' /\ InsideHasOrder' /\ CheckedStillHolds'
      BY <2>1, <1>3, OutsideLock, OutsideFacts DEF Check
    <2>4. NothingNegative'
      BY <2>1, MemoryKept, OutsideFacts DEF Check, IInv, NothingNegative, tables
    <2> QED
      BY <2>2, <2>3, <2>4 DEF IInv
  <1> QED
    BY <1>2, <1>3 DEF Check

LEMMA MoveMoneyStep ==
  ASSUME IInv, NEW t \in Threads, MoveMoney(t)
  PROVE  IInv'
  <1> DEFINE o == call[t].order
  <1>1. /\ call[t].at = "money"
        /\ call' \in [Threads -> Calls]
        /\ call'[t].at = "coins"
        /\ call'[t].order = o
        /\ call'[t].cash = call[t].cash
        /\ \A u \in Threads \ {t} : call'[u] = call[u]
    BY MoveFacts DEF IInv, TypeOK, MoveMoney, Locations
  <1>2. o \in Orders /\ Cost(o) \in Nat /\ Proceeds(o) \in Nat
    BY <1>1, OrderInside, OrderMoney DEF IInv
  <1>3. Executable(o) /\ lock = t
    BY <1>1 DEF IInv, CheckedStillHolds, LockHeld
  <1>4. balance \in Int /\ balance >= 0
    BY DEF IInv, TypeOK, NothingNegative
  <1>5. balance' \in Int /\ balance' >= 0
    <2>1. CASE o.op = "buy"
      BY <2>1, <1>2, <1>3, <1>4 DEF MoveMoney, Executable, Affordable
    <2>2. CASE o.op # "buy"
      BY <2>2, <1>2, <1>4 DEF MoveMoney
    <2> QED
      BY <2>1, <2>2
  <1>6. TypeOK'
    BY <1>1, <1>5 DEF IInv, TypeOK, MoveMoney, tables, bounds
  <1>7. LockHeld'
    BY <1>1, <1>3 DEF IInv, LockHeld, MoveMoney
  <1>8. InsideHasOrder'
    BY <1>1 DEF IInv, InsideHasOrder
  <1>9. \A u \in Threads \ {t} : call'[u].at \notin {"money", "coins"}
    BY <1>1, <1>3 DEF IInv, LockHeld
  <1>10. o.op = "sell" => o.qty <= quantity[o.sym]
    BY <1>3 DEF Executable, Deliverable
  <1>11. CheckedStillHolds'
    BY <1>1, <1>9, <1>10 DEF CheckedStillHolds, MoveMoney
  <1>12. NothingNegative'
    BY <1>1, <1>5 DEF IInv, NothingNegative, NonNegative, MoveMoney, tables
  <1> QED
    BY <1>6, <1>7, <1>8, <1>11, <1>12 DEF IInv

LEMMA MoveCoinsStep ==
  ASSUME IInv, NEW t \in Threads, MoveCoins(t)
  PROVE  IInv'
  <1> DEFINE o == call[t].order
  <1>1. /\ call[t].at = "coins"
        /\ call' \in [Threads -> Calls]
        /\ call'[t].at = "record"
        /\ call'[t].order = o
        /\ call'[t].cash = call[t].cash
        /\ \A u \in Threads \ {t} : call'[u] = call[u]
    BY MoveFacts DEF IInv, TypeOK, MoveCoins, Locations
  <1>2. o \in Orders
    BY <1>1, OrderInside DEF IInv
  <1>3. /\ o.sym \in Symbols
        /\ o.qty \in Nat
        /\ o.op \in {"buy", "sell"}
    BY <1>2, PaperAssumption DEF Orders
  <1>4. lock = t /\ t # NoThread
    BY <1>1, PaperAssumption DEF IInv, LockHeld
  <1>5. /\ quantity \in [Symbols -> Int]
        /\ \A s \in Symbols : quantity[s] >= 0
        /\ o.op = "sell" => o.qty <= quantity[o.sym]
    BY <1>1 DEF IInv, TypeOK, NothingNegative, CheckedStillHolds
  <1>6. /\ quantity' \in [Symbols -> Int]
        /\ \A s \in Symbols : quantity'[s] >= 0
    BY <1>3, <1>5 DEF MoveCoins, CoinsAfter
  <1>7. TypeOK'
    BY <1>1, <1>3, <1>6 DEF IInv, TypeOK, MoveCoins, tables, bounds
  <1>8. \A u \in Threads : call'[u].at \notin {"money", "coins"}
    BY <1>1, <1>4 DEF IInv, LockHeld
  <1>9. LockHeld'
    BY <1>8, PaperAssumption DEF LockHeld, MoveCoins
  <1>10. InsideHasOrder'
    BY <1>1 DEF IInv, InsideHasOrder
  <1>11. CheckedStillHolds'
    BY <1>8 DEF CheckedStillHolds
  <1>12. NothingNegative'
    BY <1>1, <1>6 DEF IInv, NothingNegative, NonNegative, MoveCoins, tables
  <1> QED
    BY <1>7, <1>9, <1>10, <1>11, <1>12 DEF IInv

(* The dict is finite: it has symbols of the bot.                          *)
LEMMA KeysFinite == ASSUME TypeOK PROVE IsFiniteSet(keys)
  BY PaperAssumption, FS_Subset DEF TypeOK

----------------------------------------------------------------------------
(* Steps on the database                                                   *)

LEMMA SaveTradeStep ==
  ASSUME IInv, NEW t \in Threads, SaveTrade(t)
  PROVE  IInv'
  <1>1. /\ call[t].at = "record"
        /\ call' \in [Threads -> Calls]
        /\ call'[t].at = "evaluate"
        /\ call'[t].order = call[t].order
        /\ call'[t].cash = call[t].cash
        /\ \A u \in Threads \ {t} : call'[u] = call[u]
    BY MoveFacts DEF IInv, TypeOK, SaveTrade, Locations
  <1>2. call[t].order \in Orders
    BY <1>1, OrderInside DEF IInv
  <1>3. TypeOK'
    BY <1>1, <1>2 DEF IInv, TypeOK, SaveTrade, memory, bounds
  <1>4. LockHeld' /\ InsideHasOrder' /\ CheckedStillHolds'
    BY <1>1, OutsideLock DEF SaveTrade, IInv, InsideHasOrder
  <1>5. NothingNegative'
    BY <1>1, MemoryKept DEF SaveTrade, IInv, NothingNegative
  <1> QED
    BY <1>3, <1>4, <1>5 DEF IInv

LEMMA EvaluateArgumentsStep ==
  ASSUME IInv, NEW t \in Threads, EvaluateArguments(t)
  PROVE  IInv'
  <1>1. /\ call[t].at = "evaluate"
        /\ call' \in [Threads -> Calls]
        /\ call'[t].at = "save"
        /\ call'[t].order = call[t].order
        /\ call'[t].cash = balance
        /\ \A u \in Threads \ {t} : call'[u] = call[u]
    BY DEF IInv, TypeOK, EvaluateArguments, Calls, Locations
  <1>2. TypeOK'
    BY <1>1 DEF IInv, TypeOK, EvaluateArguments, memory, tables, bounds
  <1>3. LockHeld' /\ InsideHasOrder' /\ CheckedStillHolds'
    BY <1>1, OutsideLock DEF EvaluateArguments, IInv, InsideHasOrder
  <1>4. NothingNegative'
    BY <1>1, MemoryKept DEF EvaluateArguments, IInv, NothingNegative, tables
  <1> QED
    BY <1>2, <1>3, <1>4 DEF IInv

LEMMA SaveBeginStep ==
  ASSUME IInv, NEW t \in Threads, SaveBegin(t)
  PROVE  IInv'
  <1>1. /\ call[t].at = "save"
        /\ call' \in [Threads -> Calls]
        /\ call'[t].at = "iterate"
        /\ call'[t].order = call[t].order
        /\ call'[t].cash = call[t].cash
        /\ \A u \in Threads \ {t} : call'[u] = call[u]
    BY MoveFacts DEF IInv, TypeOK, SaveBegin, Locations
  <1>2. conn' \in Tables /\ NonNegative(conn')
    BY NoRowsNonNegative DEF SaveBegin, IInv, TypeOK, NothingNegative
  <1>3. cursor' \in [size: Nat, todo: SUBSET Symbols]
    <2>1. Cardinality(keys) \in Nat
      BY KeysFinite, FS_CardinalityType DEF IInv
    <2> QED
      BY <2>1 DEF SaveBegin, IInv, TypeOK
  <1>4. TypeOK'
    BY <1>1, <1>2, <1>3 DEF IInv, TypeOK, SaveBegin, memory, bounds
  <1>5. LockHeld' /\ InsideHasOrder' /\ CheckedStillHolds'
    BY <1>1, OutsideLock DEF SaveBegin, IInv, InsideHasOrder
  <1>6. NothingNegative'
    BY <1>1, <1>2, MemoryKept DEF SaveBegin, IInv, NothingNegative
  <1> QED
    BY <1>4, <1>5, <1>6 DEF IInv

LEMMA SaveRowStep ==
  ASSUME IInv, NEW t \in Threads, NEW s \in Symbols, SaveRow(t, s)
  PROVE  IInv'
  <1>1. call' = call
    BY DEF SaveRow
  <1>2. quantity[s] \in Nat
    BY DEF IInv, TypeOK, NothingNegative
  <1>3. conn' \in Tables /\ NonNegative(conn')
    BY <1>2, RowNonNegative DEF SaveRow, IInv, TypeOK, NothingNegative
  <1>4. cursor' \in [size: Nat, todo: SUBSET Symbols]
    BY DEF SaveRow, IInv, TypeOK
  <1>5. TypeOK'
    BY <1>1, <1>3, <1>4 DEF IInv, TypeOK, SaveRow, memory, bounds
  <1>6. LockHeld' /\ InsideHasOrder'
    BY <1>1 DEF SaveRow, IInv, LockHeld, InsideHasOrder
  <1>7. CheckedStillHolds'
    BY <1>1 DEF SaveRow, IInv, CheckedStillHolds, memory, Executable, Affordable, Deliverable
  <1>8. NothingNegative'
    BY <1>1, <1>3, MemoryKept DEF SaveRow, IInv, NothingNegative
  <1> QED
    BY <1>5, <1>6, <1>7, <1>8 DEF IInv

LEMMA NoCursorType == NoCursor \in [size: Nat, todo: SUBSET Symbols]
  BY DEF NoCursor

LEMMA SaveAbortStep ==
  ASSUME IInv, NEW t \in Threads, SaveAbort(t)
  PROVE  IInv'
  <1>1. /\ call[t].at = "iterate"
        /\ call' \in [Threads -> Calls]
        /\ call'[t] = Outside
        /\ \A u \in Threads \ {t} : call'[u] = call[u]
    BY LeaveFacts DEF IInv, TypeOK, SaveAbort
  <1>2. TypeOK'
    BY <1>1, NoCursorType DEF IInv, TypeOK, SaveAbort, memory, bounds
  <1>3. LockHeld' /\ InsideHasOrder' /\ CheckedStillHolds'
    BY <1>1, OutsideLock, OutsideFacts DEF SaveAbort
  <1>4. NothingNegative'
    BY <1>1, MemoryKept, OutsideFacts DEF SaveAbort, IInv, NothingNegative
  <1> QED
    BY <1>2, <1>3, <1>4 DEF IInv

LEMMA SaveCommitStep ==
  ASSUME IInv, NEW t \in Threads, SaveCommit(t)
  PROVE  IInv'
  <1>1. /\ call[t].at = "iterate"
        /\ call' \in [Threads -> Calls]
        /\ call'[t] = Outside
        /\ \A u \in Threads \ {t} : call'[u] = call[u]
    BY LeaveFacts DEF IInv, TypeOK, SaveCommit
  <1>2. call[t].cash \in Nat
    BY DEF IInv, TypeOK, NothingNegative, Calls
  <1>3. conn' \in Tables /\ NonNegative(conn') /\ disk' = conn'
    BY <1>2, CashNonNegative DEF SaveCommit, IInv, TypeOK, NothingNegative
  <1>4. TypeOK'
    BY <1>1, <1>3, NoCursorType DEF IInv, TypeOK, SaveCommit, memory, bounds
  <1>5. LockHeld' /\ InsideHasOrder' /\ CheckedStillHolds'
    BY <1>1, OutsideLock, OutsideFacts DEF SaveCommit
  <1>6. NothingNegative'
    BY <1>1, <1>3, MemoryKept, OutsideFacts DEF SaveCommit, IInv, NothingNegative
  <1> QED
    BY <1>4, <1>5, <1>6 DEF IInv

(* What is loaded was saved, and nothing negative is ever saved.           *)
LEMMA LoadedIsNat ==
  ASSUME IInv
  PROVE  disk.cash \in Nat /\ LoadedQuantity \in [Symbols -> Nat]
  <1>1. disk.cash \in Nat
    BY DEF IInv, TypeOK, NothingNegative, NonNegative, Tables
  <1>2. \A s \in Symbols : s \in LoadedKeys => disk.rows[s] \in Nat
    BY DEF IInv, TypeOK, NothingNegative, NonNegative, Tables, LoadedKeys
  <1> QED
    BY <1>1, <1>2 DEF LoadedQuantity

LEMMA RestartStep ==
  ASSUME IInv, Restart
  PROVE  IInv'
  <1>1. /\ balance' \in Nat
        /\ quantity' \in [Symbols -> Nat]
    BY LoadedIsNat DEF Restart
  <1>2. Outside \in Calls
    BY DEF Outside, Calls, Locations
  <1>3. call' \in [Threads -> Calls] /\ \A u \in Threads : call'[u] = Outside
    BY <1>2 DEF Restart
  <1>4. keys' \in SUBSET Symbols
    BY DEF Restart, LoadedKeys
  <1>5. TypeOK'
    BY <1>1, <1>3, <1>4, NoCursorType DEF IInv, TypeOK, Restart
  <1>6. \A u \in Threads : call'[u].at = "idle" /\ call'[u].cash = 0
    BY <1>3, OutsideFacts
  <1>7. LockHeld'
    BY <1>6, PaperAssumption DEF LockHeld, Restart
  <1>8. InsideHasOrder' /\ CheckedStillHolds'
    BY <1>6 DEF InsideHasOrder, CheckedStillHolds
  <1>9. NothingNegative'
    BY <1>1, <1>6 DEF IInv, NothingNegative, NonNegative, Restart
  <1> QED
    BY <1>5, <1>7, <1>8, <1>9 DEF IInv

----------------------------------------------------------------------------
(* The invariant and what it implies                                       *)

LEMMA InitInv == Init => IInv
  BY PaperAssumption
  DEF Init, IInv, TypeOK, LockHeld, InsideHasOrder, CheckedStillHolds, NothingNegative,
      NonNegative, Calls, Outside, Locations, Tables, NoRows, NoCursor

LEMMA NextInv == IInv /\ [Next]_vars => IInv'
  <1> SUFFICES ASSUME IInv, [Next]_vars PROVE IInv'
    OBVIOUS
  <1>1. ASSUME NEW t \in Threads, Step(t) PROVE IInv'
    BY <1>1, CallStep, CheckStep, MoveMoneyStep, MoveCoinsStep, SaveTradeStep,
       EvaluateArgumentsStep, SaveBeginStep, SaveRowStep, SaveAbortStep, SaveCommitStep
    DEF Step
  <1>2. CASE UNCHANGED vars
    BY <1>2 DEF vars, memory, tables, bounds, IInv, TypeOK, LockHeld, InsideHasOrder,
       CheckedStillHolds, Executable, Affordable, Deliverable, NothingNegative, NonNegative
  <1> QED
    BY <1>1, <1>2, RestartStep DEF Next, Finished

LEMMA Invariance == Spec => []IInv
  BY InitInv, NextInv, PTL DEF Spec

(* Every variable keeps its type.                                          *)
THEOREM TypeCorrect == Spec => []TypeOK
  <1>1. IInv => TypeOK
    BY DEF IInv
  <1> QED
    BY <1>1, Invariance, PTL

(* No interleaving of buys and sells overdraws the account or delivers     *)
(* coins that are not there, and no restart loads such an account.         *)
THEOREM NeverOverdrawn == Spec => []Solvent
  <1>1. IInv => Solvent
    BY DEF IInv, NothingNegative, NonNegative, Solvent, LoadedKeys
  <1> QED
    BY <1>1, Invariance, PTL

----------------------------------------------------------------------------
(* The refinement of Ledger                                                *)

LEMMA InitRefines == Init => Account!LedgerInit
  BY DEF Init, Account!LedgerInit, SettledCash

(* A step that leaves memory, the lock and the thread that holds it alone  *)
(* is a stutter of the ledger.                                             *)
LEMMA Stutters ==
  ASSUME TypeOK, UNCHANGED <<memory, lock, restarts>>,
         lock # NoThread => call'[lock] = call[lock]
  PROVE  UNCHANGED Account!ledgerVars
  BY DEF TypeOK, memory, Account!ledgerVars, SettledCash, Cost, Proceeds

(* A step of a thread outside _lock that touches nothing but the database  *)
(* and the thread itself is one.                                           *)
LEMMA OutsideStutters ==
  ASSUME IInv, NEW t \in Threads, UNCHANGED <<memory, lock, restarts>>,
         call[t].at \notin {"money", "coins"},
         \A u \in Threads \ {t} : call'[u] = call[u]
  PROVE  UNCHANGED Account!ledgerVars
  <1>1. lock # t
    BY DEF IInv, LockHeld
  <1> QED
    BY <1>1, Stutters DEF IInv, TypeOK

LEMMA CallType == ASSUME IInv PROVE call \in [Threads -> Calls]
  BY DEF IInv, TypeOK

(* Steps that are stutters: everything but the two moves and the restart.  *)
LEMMA DatabaseRefines ==
  ASSUME IInv, NEW t \in Threads,
         \/ \E o \in Orders : Call(t, o)
         \/ SaveTrade(t)
         \/ EvaluateArguments(t)
         \/ SaveBegin(t)
         \/ \E s \in Symbols : SaveRow(t, s)
         \/ SaveAbort(t)
         \/ SaveCommit(t)
  PROVE  UNCHANGED Account!ledgerVars
  <1>1. ASSUME NEW o \in Orders, Call(t, o) PROVE UNCHANGED Account!ledgerVars
    BY <1>1, OutsideStutters, CallType DEF Call
  <1>2. CASE SaveTrade(t)
    BY <1>2, OutsideStutters, CallType DEF bounds, SaveTrade, Move
  <1>3. CASE EvaluateArguments(t)
    BY <1>3, OutsideStutters, CallType DEF bounds, EvaluateArguments
  <1>4. CASE SaveBegin(t)
    BY <1>4, OutsideStutters, CallType DEF bounds, SaveBegin, Move
  <1>5. ASSUME NEW s \in Symbols, SaveRow(t, s) PROVE UNCHANGED Account!ledgerVars
    BY <1>5, Stutters DEF bounds, SaveRow, IInv
  <1>6. CASE SaveAbort(t)
    BY <1>6, OutsideStutters, CallType DEF bounds, SaveAbort, Leave
  <1>7. CASE SaveCommit(t)
    BY <1>7, OutsideStutters, CallType DEF bounds, SaveCommit, Leave
  <1> QED
    BY <1>1, <1>2, <1>3, <1>4, <1>5, <1>6, <1>7

(* Taking the lock settles nothing yet.                                    *)
LEMMA CheckRefines ==
  ASSUME IInv, NEW t \in Threads, Check(t)
  PROVE  UNCHANGED Account!ledgerVars
  <1>1. SettledCash = balance
    BY DEF Check, SettledCash
  <1>2. SettledCash' = balance'
    <2>1. CASE Move(t, "enter", "money") /\ lock' = t
      <3>1. call'[t].at = "money"
        BY <2>1, CallType, MoveFacts DEF Locations
      <3> QED
        BY <2>1, <3>1 DEF SettledCash
    <2>2. CASE UNCHANGED lock
      BY <2>2 DEF Check, SettledCash
    <2> QED
      BY <2>1, <2>2 DEF Check
  <1> QED
    BY <1>1, <1>2 DEF Check, memory, bounds, Account!ledgerVars

(* Neither does moving the money: it counts when the coins follow.         *)
LEMMA MoveMoneyRefines ==
  ASSUME IInv, NEW t \in Threads, MoveMoney(t)
  PROVE  UNCHANGED Account!ledgerVars
  <1> DEFINE o == call[t].order
  <1>1. /\ call[t].at = "money"
        /\ call'[t].at = "coins"
        /\ call'[t].order = o
    BY MoveFacts, CallType DEF MoveMoney, Locations
  <1>2. lock = t /\ lock' = t /\ t # NoThread
    BY <1>1, PaperAssumption DEF IInv, LockHeld, MoveMoney
  <1>3. Cost(o) \in Nat /\ Proceeds(o) \in Nat /\ balance \in Int
    BY <1>1, OrderInside, OrderMoney DEF IInv, TypeOK
  <1>4. SettledCash = balance
    BY <1>1, <1>2 DEF SettledCash
  <1>5. SettledCash' = IF o.op = "buy" THEN balance' + Cost(o) ELSE balance' - Proceeds(o)
    BY <1>1, <1>2 DEF SettledCash, Cost, Proceeds
  <1>6. SettledCash' = balance
    BY <1>3, <1>5 DEF MoveMoney
  <1> QED
    BY <1>4, <1>6 DEF MoveMoney, bounds, Account!ledgerVars

(* Moving the coins completes the order of the ledger.                     *)
LEMMA MoveCoinsRefines ==
  ASSUME IInv, NEW t \in Threads, MoveCoins(t)
  PROVE  Account!LedgerNext
  <1> DEFINE o == call[t].order
  <1>1. call[t].at = "coins"
    BY DEF MoveCoins, Move
  <1>2. lock = t /\ t # NoThread
    BY <1>1, PaperAssumption DEF IInv, LockHeld
  <1>3. o \in Orders /\ Cost(o) \in Nat /\ Proceeds(o) \in Nat
    BY <1>1, OrderInside, OrderMoney DEF IInv
  <1>4. /\ o.sym \in Symbols
        /\ o.qty \in Quantities
        /\ o.qty \in Nat
        /\ o.price \in Prices
        /\ o.op \in {"buy", "sell"}
    BY <1>3, PaperAssumption DEF Orders
  <1>5. balance \in Int /\ balance >= 0 /\ balance' = balance
    BY DEF IInv, TypeOK, NothingNegative, MoveCoins
  <1>6. SettledCash' = balance
    BY <1>5 DEF SettledCash, MoveCoins
  <1>7. SettledCash = IF o.op = "buy" THEN balance + Cost(o) ELSE balance - Proceeds(o)
    BY <1>1, <1>2 DEF SettledCash
  <1>8. /\ Account!Cost(o.qty, o.price) = Cost(o)
        /\ Account!Proceeds(o.qty, o.price) = Proceeds(o)
    BY DEF Account!Cost, Account!Proceeds, Cost, Proceeds
  <1>9. CASE o.op = "buy"
    <2>1. Account!BuyOrder(o.sym, o.qty, o.price)
      BY <1>3, <1>5, <1>6, <1>7, <1>8, <1>9 DEF Account!BuyOrder, MoveCoins, CoinsAfter, bounds
    <2> QED
      BY <2>1, <1>4 DEF Account!LedgerNext
  <1>10. CASE o.op = "sell"
    <2>1. quantity[o.sym] \in Nat /\ o.qty <= quantity[o.sym]
      BY <1>1, <1>4, <1>10 DEF IInv, TypeOK, NothingNegative, CheckedStillHolds
    <2>2. Account!SellOrder(o.sym, o.qty, o.price)
      BY <1>3, <1>5, <1>6, <1>7, <1>8, <1>10, <2>1
      DEF Account!SellOrder, MoveCoins, CoinsAfter, bounds
    <2>3. o.qty \in 0 .. quantity[o.sym]
      BY <1>4, <2>1
    <2> QED
      BY <2>2, <2>3, <1>4 DEF Account!LedgerNext
  <1> QED
    BY <1>4, <1>9, <1>10

LEMMA RestartRefines ==
  ASSUME IInv, Restart
  PROVE  Account!LedgerNext
  <1>1. /\ SettledCash' = disk.cash
        /\ quantity' = LoadedQuantity
        /\ restarts' = restarts + 1
    BY DEF Restart, SettledCash
  <1> QED
    BY <1>1, LoadedIsNat DEF Account!LedgerNext, Account!Reload

LEMMA NextRefines == IInv /\ [Next]_vars => [Account!LedgerNext]_(Account!ledgerVars)
  <1> SUFFICES ASSUME IInv, [Next]_vars
               PROVE  Account!LedgerNext \/ UNCHANGED Account!ledgerVars
    BY DEF Account!ledgerVars
  <1>1. ASSUME NEW t \in Threads, Step(t)
        PROVE  Account!LedgerNext \/ UNCHANGED Account!ledgerVars
    BY <1>1, DatabaseRefines, CheckRefines, MoveMoneyRefines, MoveCoinsRefines DEF Step
  <1>2. CASE UNCHANGED vars
    BY <1>2, Stutters DEF vars, bounds, IInv
  <1> QED
    BY <1>1, <1>2, RestartRefines DEF Next, Finished

(* Between restarts the broker is the ledger: orders of any number of      *)
(* threads take effect one after the other, each with all of its cash and  *)
(* all of its coins, and nothing else moves either.                        *)
THEOREM BrokerIsALedger == Spec => ImplementsLedger
  <1>1. Init => Account!LedgerInit
    BY InitRefines
  <1>2. IInv /\ [Next]_vars => [Account!LedgerNext]_(Account!ledgerVars)
    BY NextRefines
  <1> QED
    BY <1>1, <1>2, Invariance, PTL DEF Spec, ImplementsLedger, Account!LedgerSpec

----------------------------------------------------------------------------
(* The saved positions                                                     *)

(* The order of the thread is in memory and its save has not begun.        *)
ToSave(t) == call[t].at \in {"record", "evaluate", "save"}

(* A first buy makes a running save_positions raise, with rows missing;    *)
(* for what is saved, a buy is therefore about every symbol.               *)
Concerns(o, s) == o.op = "buy" \/ o.sym = s

WillBeSaved(s) == \E t \in Threads : ToSave(t) /\ Concerns(call[t].order, s)

IsBeingSaved(s) ==
    \E t \in Threads : call[t].at = "iterate" /\ Concerns(call[t].order, s)

Current(tab, s) == tab.rows[s] = IF s \in keys THEN quantity[s] ELSE NoRow

(* The iteration of save_positions runs under the repository's lock.       *)
IterateUnderLock == \A t \in Threads : repoLock = t <=> call[t].at = "iterate"

(* An iteration that is going to raise was disturbed by a buy that is      *)
(* still to be saved: it waits for the lock that the iteration holds.      *)
CursorInv ==
    /\ cursor.todo \subseteq keys
    /\ repoLock # NoThread /\ Cardinality(keys) # cursor.size
         => \E t \in Threads : ToSave(t) /\ call[t].order.op = "buy"

(* A row that the connection has and is not about to write again.          *)
ConnCurrent ==
    \A s \in Symbols :
        (repoLock # NoThread => s \notin cursor.todo)
            => Current(conn, s) \/ WillBeSaved(s)

DiskCurrent == \A s \in Symbols : Current(disk, s) \/ WillBeSaved(s) \/ IsBeingSaved(s)

(* What is sold is in the dict, so a sell adds no key to it.               *)
SoldIsKnown ==
    \A t \in Threads :
        call[t].at \in {"money", "coins"} /\ call[t].order.op = "sell"
            => call[t].order.sym \in keys

UnknownIsZero == \A s \in Symbols \ keys : quantity[s] = 0

SavedInv ==
    /\ IterateUnderLock
    /\ CursorInv
    /\ ConnCurrent
    /\ DiskCurrent
    /\ SoldIsKnown
    /\ UnknownIsZero

(* A step of a thread that is not saving, and leaves positions and tables  *)
(* alone, keeps all of it when the thread does not forget to save.         *)
LEMMA NotSaving ==
  ASSUME SavedInv, NEW t \in Threads, UNCHANGED <<quantity, keys, repoLock, tables>>,
         call[t].at # "iterate", call'[t].at # "iterate",
         ToSave(t) => ToSave(t)' /\ call'[t].order = call[t].order,
         \A u \in Threads \ {t} : call'[u] = call[u],
         SoldIsKnown'
  PROVE  SavedInv'
  <1>1. \A s \in Symbols : WillBeSaved(s) => WillBeSaved(s)'
    BY DEF WillBeSaved, ToSave
  <1>2. \A s \in Symbols : IsBeingSaved(s) => IsBeingSaved(s)'
    BY DEF IsBeingSaved
  <1>3. \A s \in Symbols : /\ Current(conn, s) => Current(conn, s)'
                           /\ Current(disk, s) => Current(disk, s)'
    BY DEF Current, tables
  <1>4. IterateUnderLock'
    BY DEF SavedInv, IterateUnderLock
  <1>5. CursorInv'
    BY DEF SavedInv, CursorInv, ToSave, tables
  <1>6. ConnCurrent'
    BY <1>1, <1>3 DEF SavedInv, ConnCurrent, tables
  <1>7. DiskCurrent'
    BY <1>1, <1>2, <1>3 DEF SavedInv, DiskCurrent
  <1>8. UnknownIsZero'
    BY DEF SavedInv, UnknownIsZero
  <1> QED
    BY <1>4, <1>5, <1>6, <1>7, <1>8 DEF SavedInv

(* A step that keeps the keys, and puts no thread on a checked order,      *)
(* keeps SoldIsKnown.                                                      *)
LEMMA StillKnown ==
  ASSUME SoldIsKnown, keys \subseteq keys', NEW t \in Threads,
         \A u \in Threads \ {t} : call'[u] = call[u],
         call'[t].at \in {"money", "coins"}
           => \/ call[t].at \in {"money", "coins"} /\ call'[t].order = call[t].order
              \/ call'[t].order.op = "sell" => call'[t].order.sym \in keys
  PROVE  SoldIsKnown'
  BY DEF SoldIsKnown

LEMMA CallSaved ==
  ASSUME IInv, SavedInv, NEW t \in Threads, NEW o \in Orders, Call(t, o)
  PROVE  SavedInv'
  <1>1. /\ call[t].at = "idle"
        /\ call'[t].at = "enter"
        /\ \A u \in Threads \ {t} : call'[u] = call[u]
    BY CallType DEF Call
  <1>2. SoldIsKnown'
    BY <1>1, StillKnown DEF SavedInv, Call, memory
  <1> QED
    BY <1>1, <1>2, NotSaving DEF Call, memory, ToSave

LEMMA CheckSaved ==
  ASSUME IInv, SavedInv, NEW t \in Threads, Check(t)
  PROVE  SavedInv'
  <1>1. UNCHANGED <<quantity, keys, repoLock, tables>>
    BY DEF Check, memory
  <1>2. CASE /\ Move(t, "enter", "money")
             /\ Executable(call[t].order)
    <2>1. /\ call[t].at = "enter"
          /\ call'[t].at = "money"
          /\ call'[t].order = call[t].order
          /\ \A u \in Threads \ {t} : call'[u] = call[u]
      BY <1>2, CallType, MoveFacts DEF Locations
    <2>2. call[t].order.op = "sell" => call[t].order.sym \in keys
      BY <1>2 DEF Executable, Deliverable
    <2>3. SoldIsKnown'
      BY <1>1, <2>1, <2>2, StillKnown DEF SavedInv
    <2> QED
      BY <1>1, <2>1, <2>3, NotSaving DEF ToSave
  <1>3. CASE Leave(t, "enter")
    <2>1. /\ call[t].at = "enter"
          /\ call'[t].at = "idle"
          /\ \A u \in Threads \ {t} : call'[u] = call[u]
      BY <1>3, CallType, LeaveFacts, OutsideFacts
    <2>2. SoldIsKnown'
      BY <1>1, <2>1, StillKnown DEF SavedInv
    <2> QED
      BY <1>1, <2>1, <2>2, NotSaving DEF ToSave
  <1> QED
    BY <1>2, <1>3 DEF Check

LEMMA MoveMoneySaved ==
  ASSUME IInv, SavedInv, NEW t \in Threads, MoveMoney(t)
  PROVE  SavedInv'
  <1>1. /\ call[t].at = "money"
        /\ call'[t].at = "coins"
        /\ call'[t].order = call[t].order
        /\ \A u \in Threads \ {t} : call'[u] = call[u]
    BY CallType, MoveFacts DEF MoveMoney, Locations
  <1>2. UNCHANGED <<quantity, keys, repoLock, tables>>
    BY DEF MoveMoney
  <1>3. SoldIsKnown'
    BY <1>1, <1>2, StillKnown DEF SavedInv
  <1> QED
    BY <1>1, <1>2, <1>3, NotSaving DEF ToSave

(* The symbol of the order is no longer current, and will be saved by this *)
(* thread; a buy that adds a key will save everything.                     *)
LEMMA MoveCoinsSaved ==
  ASSUME IInv, SavedInv, NEW t \in Threads, MoveCoins(t)
  PROVE  SavedInv'
  <1> DEFINE o == call[t].order
  <1>1. /\ call[t].at = "coins"
        /\ call'[t].at = "record"
        /\ call'[t].order = o
        /\ \A u \in Threads \ {t} : call'[u] = call[u]
    BY CallType, MoveFacts DEF MoveCoins, Locations
  <1>2. /\ o.sym \in Symbols
        /\ o.op \in {"buy", "sell"}
    BY <1>1, OrderInside DEF IInv, Orders
  <1>3. /\ UNCHANGED <<repoLock, cursor, conn, disk>>
        /\ keys' = keys \cup {o.sym}
        /\ \A s \in Symbols \ {o.sym} : quantity'[s] = quantity[s]
    BY DEF IInv, TypeOK, MoveCoins, CoinsAfter, tables
  <1>4. \A s \in Symbols : WillBeSaved(s) => WillBeSaved(s)'
    BY <1>1 DEF WillBeSaved, ToSave
  <1>5. \A s \in Symbols : IsBeingSaved(s) => IsBeingSaved(s)'
    BY <1>1 DEF IsBeingSaved
  <1>6. \A s \in Symbols : s = o.sym => WillBeSaved(s)'
    BY <1>1 DEF WillBeSaved, ToSave, Concerns
  <1>7. \A s \in Symbols \ {o.sym} : /\ Current(conn, s) => Current(conn, s)'
                                     /\ Current(disk, s) => Current(disk, s)'
    BY <1>3 DEF Current
  <1>8. IterateUnderLock'
    BY <1>1, <1>3 DEF SavedInv, IterateUnderLock
  <1>9. CursorInv'
    <2>1. CASE o.op = "buy"
      <3>1. ToSave(t)' /\ call'[t].order.op = "buy"
        BY <1>1, <2>1 DEF ToSave
      <3> QED
        BY <3>1, <1>3 DEF SavedInv, CursorInv
    <2>2. CASE o.op = "sell"
      <3>1. keys' = keys
        BY <1>1, <1>3, <2>2 DEF SavedInv, SoldIsKnown
      <3> QED
        BY <3>1, <1>1, <1>3 DEF SavedInv, CursorInv, ToSave
    <2> QED
      BY <2>1, <2>2, <1>2
  <1>10. ConnCurrent'
    BY <1>3, <1>4, <1>6, <1>7 DEF SavedInv, ConnCurrent
  <1>11. DiskCurrent'
    BY <1>4, <1>5, <1>6, <1>7 DEF SavedInv, DiskCurrent
  <1>12. SoldIsKnown'
    BY <1>1, <1>3, StillKnown DEF SavedInv
  <1>13. UnknownIsZero'
    BY <1>3 DEF SavedInv, UnknownIsZero
  <1> QED
    BY <1>8, <1>9, <1>10, <1>11, <1>12, <1>13 DEF SavedInv

----------------------------------------------------------------------------
(* Saving keeps it                                                         *)

(* The commit of another thread's connection state: rows it lacks are      *)
(* those a buy is still to save.                                           *)
LEMMA SaveTradeSaved ==
  ASSUME IInv, SavedInv, NEW t \in Threads, SaveTrade(t)
  PROVE  SavedInv'
  <1>1. /\ call[t].at = "record"
        /\ call'[t].at = "evaluate"
        /\ call'[t].order = call[t].order
        /\ \A u \in Threads \ {t} : call'[u] = call[u]
    BY CallType, MoveFacts DEF SaveTrade, Locations
  <1>2. UNCHANGED <<quantity, keys, repoLock, cursor, conn>> /\ disk' = conn
    BY DEF SaveTrade, memory
  <1>3. \A s \in Symbols : WillBeSaved(s) => WillBeSaved(s)'
    BY <1>1 DEF WillBeSaved, ToSave
  <1>4. \A s \in Symbols : Current(conn, s) => Current(conn, s)' /\ Current(disk, s)'
    BY <1>2 DEF Current
  <1>5. IterateUnderLock'
    BY <1>1, <1>2 DEF SavedInv, IterateUnderLock
  <1>6. CursorInv'
    BY <1>1, <1>2 DEF SavedInv, CursorInv, ToSave
  <1>7. ConnCurrent'
    BY <1>2, <1>3, <1>4 DEF SavedInv, ConnCurrent
  <1>8. DiskCurrent'
    BY <1>3, <1>4 DEF SavedInv, ConnCurrent, DiskCurrent, SaveTrade
  <1>9. SoldIsKnown'
    BY <1>1, <1>2, StillKnown DEF SavedInv
  <1>10. UnknownIsZero'
    BY <1>2 DEF SavedInv, UnknownIsZero
  <1> QED
    BY <1>5, <1>6, <1>7, <1>8, <1>9, <1>10 DEF SavedInv

LEMMA EvaluateArgumentsSaved ==
  ASSUME IInv, SavedInv, NEW t \in Threads, EvaluateArguments(t)
  PROVE  SavedInv'
  <1>1. /\ call[t].at = "evaluate"
        /\ call'[t].at = "save"
        /\ call'[t].order = call[t].order
        /\ \A u \in Threads \ {t} : call'[u] = call[u]
    BY CallType DEF EvaluateArguments, Calls
  <1>2. UNCHANGED <<quantity, keys, repoLock, tables>>
    BY DEF EvaluateArguments, memory
  <1>3. SoldIsKnown'
    BY <1>1, <1>2, StillKnown DEF SavedInv
  <1> QED
    BY <1>1, <1>2, <1>3, NotSaving DEF ToSave

LEMMA SaveBeginSaved ==
  ASSUME IInv, SavedInv, NEW t \in Threads, SaveBegin(t)
  PROVE  SavedInv'
  <1>1. /\ call[t].at = "save"
        /\ call'[t].at = "iterate"
        /\ call'[t].order = call[t].order
        /\ \A u \in Threads \ {t} : call'[u] = call[u]
    BY CallType, MoveFacts DEF SaveBegin, Locations
  <1>2. UNCHANGED <<quantity, keys, disk>>
    BY DEF SaveBegin, memory
  <1>3. /\ repoLock = NoThread /\ repoLock' = t /\ t # NoThread
        /\ cursor'.todo = keys /\ cursor'.size = Cardinality(keys)
    BY PaperAssumption DEF SaveBegin
  <1>4. \A s \in Symbols : conn'.rows[s] = NoRow
    BY DEF SaveBegin, IInv, TypeOK, Tables, NoRows
  <1>5. \A s \in Symbols :
            WillBeSaved(s) \/ IsBeingSaved(s) => WillBeSaved(s)' \/ IsBeingSaved(s)'
    BY <1>1 DEF WillBeSaved, IsBeingSaved, ToSave
  <1>6. IterateUnderLock'
    BY <1>1, <1>3, PaperAssumption DEF SavedInv, IterateUnderLock
  <1>7. CursorInv'
    BY <1>2, <1>3 DEF CursorInv
  <1>8. ConnCurrent'
    BY <1>2, <1>3, <1>4 DEF ConnCurrent, Current
  <1>9. DiskCurrent'
    BY <1>2, <1>5 DEF SavedInv, DiskCurrent, Current
  <1>10. SoldIsKnown'
    BY <1>1, <1>2, StillKnown DEF SavedInv
  <1>11. UnknownIsZero'
    BY <1>2 DEF SavedInv, UnknownIsZero
  <1> QED
    BY <1>6, <1>7, <1>8, <1>9, <1>10, <1>11 DEF SavedInv

LEMMA SaveRowSaved ==
  ASSUME IInv, SavedInv, NEW t \in Threads, NEW s \in Symbols, SaveRow(t, s)
  PROVE  SavedInv'
  <1>1. UNCHANGED <<quantity, keys, call, repoLock, disk>>
    BY DEF SaveRow, memory
  <1>2. /\ cursor'.todo = cursor.todo \ {s}
        /\ cursor'.size = cursor.size
        /\ s \in cursor.todo
        /\ repoLock # NoThread
    BY PaperAssumption DEF SaveRow, IInv, TypeOK
  <1>3. /\ conn'.rows[s] = quantity[s]
        /\ \A r \in Symbols \ {s} : conn'.rows[r] = conn.rows[r]
    BY DEF SaveRow, IInv, TypeOK, Tables
  <1>4. \A r \in Symbols : /\ WillBeSaved(r)' <=> WillBeSaved(r)
                           /\ IsBeingSaved(r)' <=> IsBeingSaved(r)
    BY <1>1 DEF WillBeSaved, IsBeingSaved, ToSave
  <1>5. IterateUnderLock'
    BY <1>1 DEF SavedInv, IterateUnderLock
  <1>6. CursorInv'
    BY <1>1, <1>2 DEF SavedInv, CursorInv, ToSave
  <1>7. ConnCurrent'
    <2> SUFFICES ASSUME NEW r \in Symbols, r \notin cursor'.todo
                 PROVE  Current(conn, r)' \/ WillBeSaved(r)'
      BY <1>1, <1>2 DEF ConnCurrent
    <2>1. CASE r = s
      BY <2>1, <1>1, <1>2, <1>3 DEF SavedInv, CursorInv, Current
    <2>2. CASE r # s
      BY <2>2, <1>1, <1>2, <1>3, <1>4 DEF SavedInv, ConnCurrent, Current
    <2> QED
      BY <2>1, <2>2
  <1>8. DiskCurrent'
    BY <1>1, <1>4 DEF SavedInv, DiskCurrent, Current
  <1>9. SoldIsKnown' /\ UnknownIsZero'
    BY <1>1 DEF SavedInv, SoldIsKnown, UnknownIsZero
  <1> QED
    BY <1>5, <1>6, <1>7, <1>8, <1>9 DEF SavedInv

(* What the failed iteration has deleted is saved by the buy that failed   *)
(* it.                                                                     *)
LEMMA SaveAbortSaved ==
  ASSUME IInv, SavedInv, NEW t \in Threads, SaveAbort(t)
  PROVE  SavedInv'
  <1>1. /\ call[t].at = "iterate"
        /\ call'[t].at = "idle"
        /\ \A u \in Threads \ {t} : call'[u] = call[u]
    BY CallType, LeaveFacts, OutsideFacts DEF SaveAbort
  <1>2. UNCHANGED <<quantity, keys>>
    BY DEF SaveAbort, memory
  <1>3. /\ repoLock = t /\ t # NoThread /\ repoLock' = NoThread
        /\ cursor'.todo = {}
    BY PaperAssumption DEF SaveAbort, NoCursor
  <1>4. PICK b \in Threads : ToSave(b) /\ call[b].order.op = "buy"
    BY <1>3 DEF SavedInv, CursorInv, SaveAbort
  <1>5. b # t
    BY <1>1, <1>4 DEF ToSave
  <1>6. \A s \in Symbols : WillBeSaved(s)'
    BY <1>1, <1>4, <1>5 DEF WillBeSaved, ToSave, Concerns
  <1>7. IterateUnderLock'
    BY <1>1, <1>3, PaperAssumption DEF SavedInv, IterateUnderLock
  <1>8. CursorInv'
    BY <1>3 DEF CursorInv
  <1>9. ConnCurrent' /\ DiskCurrent'
    BY <1>6 DEF ConnCurrent, DiskCurrent
  <1>10. SoldIsKnown'
    BY <1>1, <1>2, StillKnown DEF SavedInv
  <1>11. UnknownIsZero'
    BY <1>2 DEF SavedInv, UnknownIsZero
  <1> QED
    BY <1>7, <1>8, <1>9, <1>10, <1>11 DEF SavedInv

LEMMA SaveCommitSaved ==
  ASSUME IInv, SavedInv, NEW t \in Threads, SaveCommit(t)
  PROVE  SavedInv'
  <1>1. /\ call[t].at = "iterate"
        /\ call'[t].at = "idle"
        /\ \A u \in Threads \ {t} : call'[u] = call[u]
    BY CallType, LeaveFacts, OutsideFacts DEF SaveCommit
  <1>2. UNCHANGED <<quantity, keys>>
    BY DEF SaveCommit, memory
  <1>3. /\ repoLock = t /\ t # NoThread /\ repoLock' = NoThread
        /\ cursor.todo = {} /\ cursor'.todo = {}
    BY PaperAssumption DEF SaveCommit, NoCursor
  <1>4. conn'.rows = conn.rows /\ disk' = conn'
    BY DEF SaveCommit, IInv, TypeOK, Tables
  <1>5. \A s \in Symbols : WillBeSaved(s) => WillBeSaved(s)'
    BY <1>1 DEF WillBeSaved, ToSave
  <1>6. \A s \in Symbols : Current(conn, s) \/ WillBeSaved(s)
    BY <1>3 DEF SavedInv, ConnCurrent
  <1>7. \A s \in Symbols : Current(conn, s) => Current(conn, s)' /\ Current(disk, s)'
    BY <1>2, <1>4 DEF Current
  <1>8. IterateUnderLock'
    BY <1>1, <1>3, PaperAssumption DEF SavedInv, IterateUnderLock
  <1>9. CursorInv'
    BY <1>3 DEF CursorInv
  <1>10. ConnCurrent' /\ DiskCurrent'
    BY <1>5, <1>6, <1>7 DEF ConnCurrent, DiskCurrent
  <1>11. SoldIsKnown'
    BY <1>1, <1>2, StillKnown DEF SavedInv
  <1>12. UnknownIsZero'
    BY <1>2 DEF SavedInv, UnknownIsZero
  <1> QED
    BY <1>8, <1>9, <1>10, <1>11, <1>12 DEF SavedInv

LEMMA RestartSaved ==
  ASSUME IInv, Restart
  PROVE  SavedInv'
  <1>1. \A t \in Threads : call'[t].at = "idle"
    BY OutsideFacts DEF Restart
  <1>2. repoLock' = NoThread /\ cursor'.todo = {}
    BY DEF Restart, NoCursor
  <1>3. IterateUnderLock' /\ CursorInv' /\ SoldIsKnown'
    BY <1>1, <1>2, PaperAssumption DEF IterateUnderLock, CursorInv, SoldIsKnown
  <1>4. UnknownIsZero'
    BY DEF Restart, UnknownIsZero, LoadedQuantity
  <1>5. \A s \in Symbols : Current(conn, s)' /\ Current(disk, s)'
    BY DEF Restart, Current, LoadedQuantity, LoadedKeys
  <1> QED
    BY <1>3, <1>4, <1>5 DEF SavedInv, ConnCurrent, DiskCurrent

LEMMA InitSaved == Init => SavedInv
  BY PaperAssumption
  DEF Init, SavedInv, IterateUnderLock, CursorInv, ConnCurrent, DiskCurrent, SoldIsKnown,
      UnknownIsZero, Current, Outside, NoRows, NoCursor

LEMMA NextSaved == IInv /\ SavedInv /\ [Next]_vars => SavedInv'
  <1> SUFFICES ASSUME IInv, SavedInv, [Next]_vars PROVE SavedInv'
    OBVIOUS
  <1>1. ASSUME NEW t \in Threads, Step(t) PROVE SavedInv'
    BY <1>1, CallSaved, CheckSaved, MoveMoneySaved, MoveCoinsSaved, SaveTradeSaved,
       EvaluateArgumentsSaved, SaveBeginSaved, SaveRowSaved, SaveAbortSaved, SaveCommitSaved
    DEF Step
  <1>2. CASE UNCHANGED vars
    BY <1>2 DEF vars, memory, tables, SavedInv, IterateUnderLock, CursorInv, ConnCurrent,
       DiskCurrent, SoldIsKnown, UnknownIsZero, Current, WillBeSaved, IsBeingSaved, ToSave
  <1> QED
    BY <1>1, <1>2, RestartSaved DEF Next, Finished

LEMMA SavedInvariance == Spec => []SavedInv
  BY InitSaved, NextSaved, Invariance, PTL DEF Spec

(* Whoever changed a position last saves after that: with no call in       *)
(* progress, the positions table is the dict in memory, although saves run *)
(* over a dict that others change, some of them raise halfway, and commits *)
(* of other threads make their half of the rows durable.                   *)
THEOREM PositionsAreSaved == Spec => []SavedPositionsAreCurrent
  <1>1. SavedInv => SavedPositionsAreCurrent
    BY DEF SavedInv, DiskCurrent, WillBeSaved, IsBeingSaved, ToSave, Current, AllIdle,
       SavedPositionsAreCurrent
  <1> QED
    BY <1>1, SavedInvariance, PTL

(* A crash in the middle of sells loads the quantity of every symbol that  *)
(* no sell in progress is about.                                           *)
THEOREM CrashKeepsSettledSymbols == Spec => RestartKeepsSettledSymbols
  <1> DEFINE Keeps == restarts' # restarts /\ (\A t \in BusyThreads : call[t].order.op = "sell")
                      => \A s \in Symbols \ {call[t].order.sym : t \in BusyThreads} :
                             quantity'[s] = quantity[s]
  <1>1. IInv /\ SavedInv /\ [Next]_vars => [Keeps]_vars
    <2> SUFFICES ASSUME IInv, SavedInv, Next, restarts' # restarts,
                        \A t \in BusyThreads : call[t].order.op = "sell",
                        NEW s \in Symbols \ {call[t].order.sym : t \in BusyThreads}
                 PROVE  quantity'[s] = quantity[s]
      OBVIOUS
    <2>1. Restart
      <3>1. ASSUME NEW t \in Threads PROVE ~Step(t)
        BY DEF Step, Call, Check, MoveMoney, MoveCoins, SaveTrade, EvaluateArguments,
           SaveBegin, SaveRow, SaveAbort, SaveCommit, bounds
      <3> QED
        BY <3>1 DEF Next, Finished, vars, bounds
    <2>2. ~WillBeSaved(s) /\ ~IsBeingSaved(s)
      BY DEF WillBeSaved, IsBeingSaved, ToSave, Concerns, BusyThreads
    <2>3. Current(disk, s)
      BY <2>2 DEF SavedInv, DiskCurrent
    <2>4. CASE s \in keys
      <3>1. disk.rows[s] = quantity[s] /\ quantity[s] # NoRow
        BY <2>3, <2>4, PaperAssumption DEF Current, IInv, TypeOK
      <3> QED
        BY <2>1, <3>1 DEF Restart, LoadedQuantity, LoadedKeys
    <2>5. CASE s \notin keys
      <3>1. disk.rows[s] = NoRow /\ quantity[s] = 0
        BY <2>3, <2>5 DEF Current, SavedInv, UnknownIsZero
      <3> QED
        BY <2>1, <3>1 DEF Restart, LoadedQuantity, LoadedKeys
    <2> QED
      BY <2>4, <2>5
  <1> QED
    BY <1>1, Invariance, SavedInvariance, PTL DEF Spec, RestartKeepsSettledSymbols

----------------------------------------------------------------------------
(* The trade log                                                           *)

(* What an order in progress has moved and save_trade has not recorded.    *)
PaidUnlogged ==
    [t \in Threads |->
        IF call[t].at \in {"coins", "record"} THEN Paid(call[t].order) ELSE 0]
GainedUnlogged(s) ==
    [t \in Threads |-> IF call[t].at = "record" THEN Gained(call[t].order, s) ELSE 0]

SpentInAll ==
    SumFunctionOnSet(PaidInLog, DOMAIN trades) + SumFunctionOnSet(PaidUnlogged, Threads)
GainedInAll(s) ==
    SumFunctionOnSet(GainedInLog(s), DOMAIN trades)
        + SumFunctionOnSet(GainedUnlogged(s), Threads)

LogInv ==
    restarts = 0 =>
        /\ balance = InitialBalance - SpentInAll
        /\ \A s \in Symbols : quantity[s] = GainedInAll(s)

LEMMA OrderAmounts ==
  ASSUME NEW o \in Orders
  PROVE  /\ o.op = "buy" => Paid(o) = Cost(o)
         /\ o.op # "buy" => Paid(o) = -Proceeds(o)
         /\ Paid(o) \in Int
         /\ \A s : Gained(o, s) \in Int
  <1>1. o.qty \in Nat /\ Cost(o) \in Nat /\ Proceeds(o) \in Nat
    BY OrderMoney, PaperAssumption DEF Orders
  <1>2. ASSUME NEW s PROVE Gained(o, s) \in Int
    BY <1>1 DEF Gained
  <1> QED
    BY <1>1, <1>2 DEF Paid

LEMMA UnloggedType ==
  ASSUME IInv
  PROVE  \A t \in Threads : /\ PaidUnlogged[t] \in Int
                             /\ \A s : GainedUnlogged(s)[t] \in Int
  BY OrderInside, OrderAmounts DEF IInv, PaidUnlogged, GainedUnlogged

LEMMA LogType ==
  ASSUME TypeOK
  PROVE  /\ Len(trades) \in Nat
         /\ DOMAIN trades = 1 .. Len(trades)
         /\ \A i \in 1 .. Len(trades) : /\ trades[i] \in Orders
                                         /\ PaidInLog[i] \in Int
                                         /\ \A s : GainedInLog(s)[i] \in Int
  <1>1. /\ Len(trades) \in Nat
        /\ DOMAIN trades = 1 .. Len(trades)
        /\ \A i \in 1 .. Len(trades) : trades[i] \in Orders
    BY DEF TypeOK
  <1> QED
    BY <1>1, OrderAmounts DEF PaidInLog, GainedInLog

LEMMA SumTypes ==
  ASSUME IInv
  PROVE  /\ SumFunctionOnSet(PaidInLog, DOMAIN trades) \in Int
         /\ SumFunctionOnSet(PaidUnlogged, Threads) \in Int
         /\ \A s : /\ SumFunctionOnSet(GainedInLog(s), DOMAIN trades) \in Int
                   /\ SumFunctionOnSet(GainedUnlogged(s), Threads) \in Int
  <1>1. IsFiniteSet(DOMAIN trades)
    BY LogType, FS_Interval DEF IInv
  <1>2. IsFiniteSet(Threads)
    BY PaperAssumption
  <1>3. SumFunctionOnSet(PaidInLog, DOMAIN trades) \in Int
    BY <1>1, LogType, SumIsInt DEF IInv
  <1>4. SumFunctionOnSet(PaidUnlogged, Threads) \in Int
    BY <1>2, UnloggedType, SumIsInt
  <1>5. ASSUME NEW s
        PROVE  /\ SumFunctionOnSet(GainedInLog(s), DOMAIN trades) \in Int
               /\ SumFunctionOnSet(GainedUnlogged(s), Threads) \in Int
    <2>1. SumFunctionOnSet(GainedInLog(s), DOMAIN trades) \in Int
      BY <1>1, LogType, SumIsInt DEF IInv
    <2>2. SumFunctionOnSet(GainedUnlogged(s), Threads) \in Int
      BY <1>2, UnloggedType, SumIsInt
    <2> QED
      BY <2>1, <2>2
  <1> QED
    BY <1>3, <1>4, <1>5

(* A step of one thread changes the sums by what it changes of its own.    *)
LEMMA OneThread ==
  ASSUME IInv, IInv', NEW t \in Threads, \A u \in Threads \ {t} : call'[u] = call[u]
  PROVE  /\ SumFunctionOnSet(PaidUnlogged', Threads)
               = SumFunctionOnSet(PaidUnlogged, Threads) + PaidUnlogged'[t] - PaidUnlogged[t]
         /\ \A s \in Symbols :
               SumFunctionOnSet(GainedUnlogged(s)', Threads)
                 = SumFunctionOnSet(GainedUnlogged(s), Threads)
                     + GainedUnlogged(s)'[t] - GainedUnlogged(s)[t]
  <1>1. IsFiniteSet(Threads)
    BY PaperAssumption
  <1>2. \A u \in Threads : /\ PaidUnlogged'[u] \in Int
                            /\ \A s : GainedUnlogged(s)'[u] \in Int
    <2>1. \A u \in Threads : call'[u].at # "idle" => call'[u].order \in Orders
      BY DEF IInv, TypeOK, InsideHasOrder, Calls
    <2> QED
      BY <2>1, OrderAmounts DEF PaidUnlogged, GainedUnlogged
  <1>3. \A u \in Threads \ {t} : /\ PaidUnlogged'[u] = PaidUnlogged[u]
                                  /\ \A s : GainedUnlogged(s)'[u] = GainedUnlogged(s)[u]
    BY DEF PaidUnlogged, GainedUnlogged
  <1>4. PICK e, f : e = PaidUnlogged /\ f = PaidUnlogged'
    OBVIOUS
  <1>5. SumFunctionOnSet(f, Threads) = SumFunctionOnSet(e, Threads) + f[t] - e[t]
    BY <1>1, <1>2, <1>3, <1>4, UnloggedType, SumChange
  <1>6. ASSUME NEW s \in Symbols
        PROVE  SumFunctionOnSet(GainedUnlogged(s)', Threads)
                 = SumFunctionOnSet(GainedUnlogged(s), Threads)
                     + GainedUnlogged(s)'[t] - GainedUnlogged(s)[t]
    <2>1. PICK g, h : g = GainedUnlogged(s) /\ h = GainedUnlogged(s)'
      OBVIOUS
    <2>2. /\ \A u \in Threads : g[u] \in Int
          /\ \A u \in Threads : h[u] \in Int
          /\ \A u \in Threads \ {t} : h[u] = g[u]
      BY <1>2, <1>3, <2>1, UnloggedType
    <2>3. SumFunctionOnSet(h, Threads) = SumFunctionOnSet(g, Threads) + h[t] - g[t]
      BY <1>1, <2>2, SumChange
    <2> QED
      BY <2>1, <2>3
  <1> QED
    BY <1>4, <1>5, <1>6

(* A step that moves nothing and logs nothing.                             *)
LEMMA NothingMoved ==
  ASSUME IInv, IInv', LogInv, NEW t \in Threads,
         UNCHANGED <<memory, trades, restarts>>,
         call[t].at \notin {"coins", "record"}, call'[t].at \notin {"coins", "record"},
         \A u \in Threads \ {t} : call'[u] = call[u]
  PROVE  LogInv'
  <1>1. UNCHANGED <<PaidInLog, balance, quantity, trades>>
    BY DEF PaidInLog, memory
  <1>2. \A s : GainedInLog(s)' = GainedInLog(s)
    BY DEF GainedInLog
  <1>3. /\ PaidUnlogged' = PaidUnlogged
        /\ \A s : GainedUnlogged(s)' = GainedUnlogged(s)
    BY DEF PaidUnlogged, GainedUnlogged
  <1> QED
    BY <1>1, <1>2, <1>3 DEF LogInv, SpentInAll, GainedInAll

LEMMA MoveMoneyLogged ==
  ASSUME IInv, IInv', LogInv, NEW t \in Threads, MoveMoney(t)
  PROVE  LogInv'
  <1> DEFINE o == call[t].order
  <1>1. /\ call[t].at = "money"
        /\ call'[t].at = "coins"
        /\ call'[t].order = o
        /\ \A u \in Threads \ {t} : call'[u] = call[u]
    BY CallType, MoveFacts DEF MoveMoney, Locations
  <1>2. o \in Orders
    BY <1>1, OrderInside DEF IInv
  <1>3. UNCHANGED <<quantity, trades, restarts, PaidInLog>>
    BY DEF MoveMoney, tables, bounds, PaidInLog
  <1>4. \A s : GainedInLog(s)' = GainedInLog(s)
    BY <1>3 DEF GainedInLog
  <1>5. \A s : GainedUnlogged(s)' = GainedUnlogged(s)
    BY <1>1 DEF GainedUnlogged
  <1>6. PaidUnlogged[t] = 0 /\ PaidUnlogged'[t] = Paid(o)
    BY <1>1 DEF PaidUnlogged
  <1>7. balance' = balance - Paid(o) /\ Paid(o) \in Int
    <2>1. balance \in Int /\ Proceeds(o) \in Int
      BY <1>2, OrderMoney DEF IInv, TypeOK
    <2> QED
      BY <1>2, <2>1, OrderAmounts DEF MoveMoney
  <1>8. SumFunctionOnSet(PaidUnlogged', Threads)
          = SumFunctionOnSet(PaidUnlogged, Threads) + Paid(o)
    BY <1>1, <1>6, <1>7, OneThread, SumTypes
  <1>9. SpentInAll' = SpentInAll + Paid(o) /\ SpentInAll \in Int
    BY <1>3, <1>7, <1>8, SumTypes DEF SpentInAll
  <1>10. \A s \in Symbols : GainedInAll(s)' = GainedInAll(s)
    BY <1>3, <1>4, <1>5 DEF GainedInAll
  <1> QED
    BY <1>3, <1>7, <1>9, <1>10, PaperAssumption DEF LogInv

LEMMA MoveCoinsLogged ==
  ASSUME IInv, IInv', LogInv, NEW t \in Threads, MoveCoins(t)
  PROVE  LogInv'
  <1> DEFINE o == call[t].order
  <1>1. /\ call[t].at = "coins"
        /\ call'[t].at = "record"
        /\ call'[t].order = o
        /\ \A u \in Threads \ {t} : call'[u] = call[u]
    BY CallType, MoveFacts DEF MoveCoins, Locations
  <1>2. o \in Orders
    BY <1>1, OrderInside DEF IInv
  <1>3. UNCHANGED <<balance, trades, restarts, PaidInLog>>
    BY DEF MoveCoins, tables, bounds, PaidInLog
  <1>4. \A s : GainedInLog(s)' = GainedInLog(s)
    BY <1>3 DEF GainedInLog
  <1>5. PaidUnlogged' = PaidUnlogged
    BY <1>1 DEF PaidUnlogged
  <1>6. SpentInAll' = SpentInAll
    BY <1>3, <1>5 DEF SpentInAll
  <1>7. ASSUME NEW s \in Symbols
        PROVE  quantity'[s] = quantity[s] + Gained(o, s)
    <2>1. o.qty \in Nat /\ quantity[s] \in Int
      BY <1>2, PaperAssumption DEF Orders, IInv, TypeOK
    <2>2. quantity' = CoinsAfter(o) /\ quantity \in [Symbols -> Int]
      BY DEF MoveCoins, IInv, TypeOK
    <2>3. CASE o.sym # s
      BY <2>1, <2>2, <2>3 DEF CoinsAfter, Gained
    <2>4. CASE o.sym = s
      BY <2>1, <2>2, <2>4 DEF CoinsAfter, Gained
    <2> QED
      BY <2>3, <2>4
  <1>8. ASSUME NEW s \in Symbols
        PROVE  GainedInAll(s)' = GainedInAll(s) + Gained(o, s)
    <2>1. GainedUnlogged(s)[t] = 0 /\ GainedUnlogged(s)'[t] = Gained(o, s)
      BY <1>1 DEF GainedUnlogged
    <2>2. Gained(o, s) \in Int
      BY <1>2, OrderAmounts
    <2>3. SumFunctionOnSet(GainedUnlogged(s)', Threads)
            = SumFunctionOnSet(GainedUnlogged(s), Threads) + Gained(o, s)
      BY <1>1, <2>1, <2>2, OneThread, SumTypes
    <2> QED
      BY <1>3, <1>4, <2>2, <2>3, SumTypes DEF GainedInAll
  <1> QED
    BY <1>3, <1>6, <1>7, <1>8 DEF LogInv

(* What the order has moved goes from the thread to the log.               *)
LEMMA SaveTradeLogged ==
  ASSUME IInv, IInv', LogInv, NEW t \in Threads, SaveTrade(t)
  PROVE  LogInv'
  <1> DEFINE o == call[t].order
             n == Len(trades)
  <1>1. /\ call[t].at = "record"
        /\ call'[t].at = "evaluate"
        /\ call'[t].order = o
        /\ \A u \in Threads \ {t} : call'[u] = call[u]
    BY CallType, MoveFacts DEF SaveTrade, Locations
  <1>2. o \in Orders
    BY <1>1, OrderInside DEF IInv
  <1>3. UNCHANGED <<balance, quantity, restarts>>
    BY DEF SaveTrade, memory, bounds
  <1>4. /\ n \in Nat
        /\ DOMAIN trades = 1 .. n /\ DOMAIN trades' = 1 .. n + 1
        /\ trades'[n + 1] = o
        /\ \A i \in 1 .. n : trades'[i] = trades[i]
    BY <1>2 DEF SaveTrade, IInv, TypeOK
  <1>5. Paid(o) \in Int /\ \A s : Gained(o, s) \in Int
    BY <1>2, OrderAmounts
  <1>6. SpentInAll' = SpentInAll
    <2>1. PaidUnlogged[t] = Paid(o) /\ PaidUnlogged'[t] = 0
      BY <1>1 DEF PaidUnlogged
    <2>2. SumFunctionOnSet(PaidUnlogged', Threads)
            = SumFunctionOnSet(PaidUnlogged, Threads) - Paid(o)
      BY <1>1, <1>5, <2>1, OneThread, SumTypes
    <2>3. /\ \A i \in 1 .. n : PaidInLog'[i] = PaidInLog[i]
          /\ PaidInLog'[n + 1] = Paid(o)
      BY <1>4 DEF PaidInLog
    <2>4. \A i \in 1 .. n : PaidInLog[i] \in Int
      BY LogType DEF IInv
    <2>5. PICK e, f, k : e = PaidInLog /\ f = PaidInLog' /\ k = n
      OBVIOUS
    <2>6. SumFunctionOnSet(f, 1 .. k + 1) = SumFunctionOnSet(e, 1 .. k) + f[k + 1]
      BY <1>4, <1>5, <2>3, <2>4, <2>5, SumGrows
    <2>7. SumFunctionOnSet(PaidInLog', DOMAIN trades')
            = SumFunctionOnSet(PaidInLog, DOMAIN trades) + Paid(o)
      BY <1>4, <2>3, <2>5, <2>6
    <2> QED
      BY <1>5, <2>2, <2>7, SumTypes DEF SpentInAll
  <1>7. ASSUME NEW s \in Symbols
        PROVE  GainedInAll(s)' = GainedInAll(s)
    <2>1. GainedUnlogged(s)[t] = Gained(o, s) /\ GainedUnlogged(s)'[t] = 0
      BY <1>1 DEF GainedUnlogged
    <2>2. SumFunctionOnSet(GainedUnlogged(s)', Threads)
            = SumFunctionOnSet(GainedUnlogged(s), Threads) - Gained(o, s)
      BY <1>1, <1>5, <2>1, OneThread, SumTypes
    <2>3. /\ \A i \in 1 .. n : GainedInLog(s)'[i] = GainedInLog(s)[i]
          /\ GainedInLog(s)'[n + 1] = Gained(o, s)
      BY <1>4 DEF GainedInLog
    <2>4. \A i \in 1 .. n : GainedInLog(s)[i] \in Int
      BY LogType DEF IInv
    <2>5. PICK e, f, k : e = GainedInLog(s) /\ f = GainedInLog(s)' /\ k = n
      OBVIOUS
    <2>6. SumFunctionOnSet(f, 1 .. k + 1) = SumFunctionOnSet(e, 1 .. k) + f[k + 1]
      BY <1>4, <1>5, <2>3, <2>4, <2>5, SumGrows
    <2>7. SumFunctionOnSet(GainedInLog(s)', DOMAIN trades')
            = SumFunctionOnSet(GainedInLog(s), DOMAIN trades) + Gained(o, s)
      BY <1>4, <2>3, <2>5, <2>6
    <2> QED
      BY <1>5, <2>2, <2>7, SumTypes DEF GainedInAll
  <1> QED
    BY <1>3, <1>6, <1>7 DEF LogInv

LEMMA InitLogged == Init => LogInv
  <1> SUFFICES ASSUME Init PROVE LogInv
    OBVIOUS
  <1>1. trades = <<>> /\ DOMAIN trades = {}
    BY DEF Init
  <1>2. /\ \A t \in Threads : PaidUnlogged[t] = 0
        /\ \A s, t : t \in Threads => GainedUnlogged(s)[t] = 0
    BY DEF Init, PaidUnlogged, GainedUnlogged, Outside
  <1>3. IsFiniteSet(Threads)
    BY PaperAssumption
  <1>4. SumFunctionOnSet(PaidInLog, DOMAIN trades) = 0
    BY <1>1, SumOfNone
  <1>5. SumFunctionOnSet(PaidUnlogged, Threads) = 0
    BY <1>2, <1>3, SumOfZeros
  <1>6. ASSUME NEW s PROVE GainedInAll(s) = 0
    <2>1. SumFunctionOnSet(GainedInLog(s), DOMAIN trades) = 0
      BY <1>1, SumOfNone
    <2>2. SumFunctionOnSet(GainedUnlogged(s), Threads) = 0
      BY <1>2, <1>3, SumOfZeros
    <2> QED
      BY <2>1, <2>2 DEF GainedInAll
  <1> QED
    BY <1>4, <1>5, <1>6, PaperAssumption DEF Init, LogInv, SpentInAll

LEMMA StepLogged ==
  ASSUME IInv, IInv', LogInv, NEW t \in Threads, Step(t)
  PROVE  LogInv'
  <1>1. ASSUME NEW o \in Orders, Call(t, o) PROVE LogInv'
    BY <1>1, CallType, NothingMoved DEF Call, tables, Calls
  <1>2. CASE Check(t)
    BY <1>2, CallType, MoveFacts, LeaveFacts, OutsideFacts, NothingMoved
       DEF Check, tables, bounds, Locations
  <1>3. CASE EvaluateArguments(t)
    <2>1. call'[t].at = "save" /\ \A u \in Threads \ {t} : call'[u] = call[u]
      BY <1>3, CallType DEF EvaluateArguments, Calls
    <2> QED
      BY <1>3, <2>1, NothingMoved DEF EvaluateArguments, tables, bounds
  <1>4. CASE SaveBegin(t)
    BY <1>4, CallType, MoveFacts, NothingMoved DEF SaveBegin, bounds, Locations
  <1>5. ASSUME NEW s \in Symbols, SaveRow(t, s) PROVE LogInv'
    <2>1. UNCHANGED <<balance, quantity, trades, restarts, call>>
      BY <1>5 DEF SaveRow, memory, bounds
    <2> QED
      BY <2>1 DEF LogInv, SpentInAll, GainedInAll, PaidInLog, GainedInLog,
                  PaidUnlogged, GainedUnlogged
  <1>6. CASE SaveAbort(t)
    BY <1>6, CallType, LeaveFacts, OutsideFacts, NothingMoved DEF SaveAbort, bounds
  <1>7. CASE SaveCommit(t)
    BY <1>7, CallType, LeaveFacts, OutsideFacts, NothingMoved DEF SaveCommit, bounds
  <1> QED
    BY <1>1, <1>2, <1>3, <1>4, <1>5, <1>6, <1>7, MoveMoneyLogged, MoveCoinsLogged,
       SaveTradeLogged DEF Step

LEMMA NextLogged == IInv /\ IInv' /\ LogInv /\ [Next]_vars => LogInv'
  <1> SUFFICES ASSUME IInv, IInv', LogInv, [Next]_vars PROVE LogInv'
    OBVIOUS
  <1>1. CASE Restart
    BY <1>1 DEF Restart, LogInv, IInv, TypeOK
  <1>2. CASE UNCHANGED vars
    BY <1>2 DEF vars, memory, tables, bounds, LogInv, SpentInAll, GainedInAll, PaidInLog,
                GainedInLog, PaidUnlogged, GainedUnlogged
  <1> QED
    BY <1>1, <1>2, StepLogged DEF Next, Finished

(* With no call in progress, the account is what the orders of the trade   *)
(* table make of the initial balance, whatever orders of other threads     *)
(* came between an order and its record, and however many of its saves     *)
(* raised.                                                                 *)
THEOREM TheLogExplains == Spec => []LogExplainsAccount
  <1>1. IInv /\ LogInv => LogExplainsAccount
    <2> SUFFICES ASSUME IInv, LogInv, AllIdle, restarts = 0
                 PROVE  /\ balance = InitialBalance - SumFunctionOnSet(PaidInLog, DOMAIN trades)
                        /\ \A s \in Symbols :
                              quantity[s] = SumFunctionOnSet(GainedInLog(s), DOMAIN trades)
      BY DEF LogExplainsAccount
    <2>1. IsFiniteSet(Threads)
      BY PaperAssumption
    <2>2. SumFunctionOnSet(PaidUnlogged, Threads) = 0
      <3>1. \A t \in Threads : PaidUnlogged[t] = 0
        BY DEF AllIdle, PaidUnlogged
      <3> QED
        BY <2>1, <3>1, SumOfZeros
    <2>3. ASSUME NEW s \in Symbols PROVE SumFunctionOnSet(GainedUnlogged(s), Threads) = 0
      <3>1. \A t \in Threads : GainedUnlogged(s)[t] = 0
        BY DEF AllIdle, GainedUnlogged
      <3> QED
        BY <2>1, <3>1, SumOfZeros
    <2> QED
      BY <2>2, <2>3, SumTypes DEF LogInv, SpentInAll, GainedInAll
  <1>2. Spec => []LogInv
    BY InitLogged, NextLogged, Invariance, PTL DEF Spec
  <1> QED
    BY <1>1, <1>2, Invariance, PTL

=============================================================================
