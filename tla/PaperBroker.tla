---------------------------- MODULE PaperBroker ----------------------------
(***************************************************************************)
(* PaperBroker (execution/paper_broker.py) called from several threads,    *)
(* with the TradeRepository (storage/repository.py) it saves to.           *)
(*                                                                         *)
(* The strategy job buys and sells; the price monitor job and the          *)
(* WebSocket callback only sell.  An order is executed in memory under     *)
(* the broker's _lock.  The lock is released before the order is written   *)
(* to the trade table (save_trade) and the account to the positions and    *)
(* paper_state tables (save_positions), each under the repository's own    *)
(* lock: what is saved can be older than what is in memory.                *)
(*                                                                         *)
(* save_positions iterates over the LIVE dict of positions, so rows and    *)
(* memory may be of different moments, and a symbol bought for the first   *)
(* time meanwhile makes the iteration raise ("dictionary changed size      *)
(* during iteration") inside the open transaction, which the next commit   *)
(* of the shared connection then makes durable.                            *)
(*                                                                         *)
(* Left out: avg_price and total_cost of a position, names and reasons of  *)
(* orders.  Money is counted in 1/FeeDen of a unit (see Ledger).           *)
(***************************************************************************)
EXTENDS Integers, Sequences, FiniteSets, Functions

CONSTANTS
    Threads,          \* threads that call the broker
    Buyers,           \* those that also buy: the strategy thread
    Symbols, Quantities, Prices, FeeNum, FeeDen, InitialBalance,
    NoThread,         \* holder of a lock that is free
    NoOrder,          \* order of a thread outside the broker
    NoRow,            \* symbol without a row in the positions table
    MaxCalls,         \* bound: calls made to the broker
    MaxRestarts       \* bound: crashes of the process

ASSUME PaperAssumption ==
    /\ IsFiniteSet(Threads)
    /\ IsFiniteSet(Symbols)
    /\ Quantities \subseteq Nat
    /\ Prices \subseteq Nat
    /\ FeeNum \in Nat
    /\ FeeDen \in Nat
    /\ FeeNum <= FeeDen
    /\ InitialBalance \in Nat
    /\ MaxCalls \in Nat
    /\ MaxRestarts \in Nat
    /\ Buyers \subseteq Threads
    /\ NoThread \notin Threads
    /\ NoRow \notin Int

Orders == [op: {"buy", "sell"}, sym: Symbols, qty: Quantities, price: Prices]

ASSUME NoOrderAssumption == NoOrder \notin Orders

VARIABLES
    balance,      \* balance_krw
    quantity,     \* positions[s].quantity, 0 for a symbol not in the dict
    keys,         \* symbols in the dict positions
    lock,         \* PaperBroker._lock
    call,         \* per thread: where it is, its order, the balance to be saved
    repoLock,     \* TradeRepository._lock
    cursor,       \* save_positions: the dict's size at its start, symbols to come
    conn,         \* the tables as the connection sees them, uncommitted too
    disk,         \* the tables as committed
    trades,       \* rows of the trades table, by id
    calls, restarts

memory == <<balance, quantity, keys>>
tables == <<cursor, conn, disk, trades>>
bounds == <<calls, restarts>>
vars == <<memory, lock, call, repoLock, tables, bounds>>

Locations == {"idle", "enter", "money", "coins", "record", "evaluate", "save",
              "iterate"}

Calls == [at: Locations, order: Orders \cup {NoOrder}, cash: Int]

Outside == [at |-> "idle", order |-> NoOrder, cash |-> 0]

Tables == [rows: [Symbols -> Int \cup {NoRow}], cash: Int]

NoRows == [s \in Symbols |-> NoRow]

NoCursor == [size |-> 0, todo |-> {}]

(* A first start finds no row; __init__ then keeps initial_balance, hence  *)
(* the cash of the tables.                                                 *)
Init ==
    /\ balance = InitialBalance
    /\ quantity = [s \in Symbols |-> 0]
    /\ keys = {}
    /\ lock = NoThread
    /\ call = [t \in Threads |-> Outside]
    /\ repoLock = NoThread
    /\ cursor = NoCursor
    /\ disk = [rows |-> NoRows, cash |-> InitialBalance]
    /\ conn = disk
    /\ trades = <<>>
    /\ calls = 0
    /\ restarts = 0

Move(t, from, to) ==
    /\ call[t].at = from
    /\ call' = [call EXCEPT ![t].at = to]

(* The thread leaves the broker, by return or by exception.                *)
Leave(t, from) ==
    /\ call[t].at = from
    /\ call' = [call EXCEPT ![t] = Outside]

----------------------------------------------------------------------------
(* The order in memory: buy_market and sell_market under _lock             *)

Cost(o) == (o.qty * o.price) * (FeeDen + FeeNum)
Proceeds(o) == (o.qty * o.price) * (FeeDen - FeeNum)

(* A buy asks for an amount of at least 5,000 (PositionSizer), so for some *)
(* coins; a sell may ask for 0, as a caller that reads the quantity of a   *)
(* position another thread has just closed does.                           *)
Call(t, o) ==
    /\ calls < MaxCalls
    /\ o.op = "buy" => t \in Buyers /\ o.qty > 0
    /\ call[t].at = "idle"
    /\ call' = [call EXCEPT ![t] = [at |-> "enter", order |-> o, cash |-> 0]]
    /\ calls' = calls + 1
    /\ UNCHANGED <<memory, lock, repoLock, tables, restarts>>

\* Variant with a bug: the commission is forgotten in the check.
AffordableWithoutFee(o) == o.qty * o.price * FeeDen <= balance

Affordable(o) == Cost(o) <= balance

Deliverable(o) == o.sym \in keys /\ o.qty <= quantity[o.sym]

Executable(o) == IF o.op = "buy" THEN Affordable(o) ELSE Deliverable(o)

(* Take the lock and check; an order that fails the check returns None.    *)
Check(t) ==
    /\ lock = NoThread
    /\ \/ /\ Move(t, "enter", "money")
          /\ Executable(call[t].order)
          /\ lock' = t
       \/ /\ Leave(t, "enter")
          /\ ~Executable(call[t].order)
          /\ UNCHANGED lock
    /\ UNCHANGED <<memory, repoLock, tables, bounds>>

MoveMoney(t) ==
    LET o == call[t].order IN
    /\ Move(t, "money", "coins")
    /\ balance' = IF o.op = "buy" THEN balance - Cost(o) ELSE balance + Proceeds(o)
    /\ UNCHANGED <<quantity, keys, lock, repoLock, tables, bounds>>

\* Variant with a bug: a buy replaces the position that is there.
CoinsReplaced(o) ==
    [quantity EXCEPT ![o.sym] = IF o.op = "buy" THEN o.qty ELSE @ - o.qty]

CoinsAfter(o) ==
    [quantity EXCEPT ![o.sym] = IF o.op = "buy" THEN @ + o.qty ELSE @ - o.qty]

\* Variant with a bug: the order is executed and not recorded.
MoveCoinsUnrecorded(t) ==
    LET o == call[t].order IN
    /\ Move(t, "coins", "evaluate")
    /\ quantity' = CoinsAfter(o)
    /\ keys' = keys \cup {o.sym}
    /\ lock' = NoThread
    /\ UNCHANGED <<balance, repoLock, tables, bounds>>

(* The position is changed in place, a new one is put into the dict, and   *)
(* _lock is released.                                                      *)
MoveCoins(t) ==
    LET o == call[t].order IN
    /\ Move(t, "coins", "record")
    /\ quantity' = CoinsAfter(o)
    /\ keys' = keys \cup {o.sym}
    /\ lock' = NoThread
    /\ UNCHANGED <<balance, repoLock, tables, bounds>>

----------------------------------------------------------------------------
(* The order and the account in the database                               *)

(* INSERT and COMMIT under the repository's lock.  The commit is of the    *)
(* shared connection: it makes durable whatever an aborted save_positions  *)
(* has left in the open transaction.                                       *)
SaveTrade(t) ==
    /\ repoLock = NoThread
    /\ Move(t, "record", "evaluate")
    /\ trades' = Append(trades, call[t].order)
    /\ disk' = conn
    /\ UNCHANGED <<memory, lock, repoLock, cursor, conn, bounds>>

(* The arguments of save_positions are evaluated before its lock is taken: *)
(* the balance is a value, the dict of positions a reference.              *)
EvaluateArguments(t) ==
    /\ call[t].at = "evaluate"
    /\ call' = [call EXCEPT ![t].at = "save", ![t].cash = balance]
    /\ UNCHANGED <<memory, lock, repoLock, tables, bounds>>

\* Variant with a bug: every statement commits (autocommit).
SaveBeginAutocommit(t) ==
    /\ repoLock = NoThread
    /\ Move(t, "save", "iterate")
    /\ repoLock' = t
    /\ conn' = [conn EXCEPT !.rows = NoRows]
    /\ disk' = conn'
    /\ cursor' = [size |-> Cardinality(keys), todo |-> keys]
    /\ UNCHANGED <<memory, lock, trades, bounds>>

SaveBegin(t) ==
    /\ repoLock = NoThread
    /\ Move(t, "save", "iterate")
    /\ repoLock' = t
    /\ conn' = [conn EXCEPT !.rows = NoRows]
    /\ cursor' = [size |-> Cardinality(keys), todo |-> keys]
    /\ UNCHANGED <<memory, lock, disk, trades, bounds>>

(* One step of the loop; the order of the keys is left open.               *)
SaveRow(t, s) ==
    /\ repoLock = t
    /\ Cardinality(keys) = cursor.size
    /\ s \in cursor.todo
    /\ conn' = [conn EXCEPT !.rows[s] = quantity[s]]
    /\ cursor' = [cursor EXCEPT !.todo = @ \ {s}]
    /\ UNCHANGED <<memory, lock, call, repoLock, disk, trades, bounds>>

(* RuntimeError from the dict iterator: the lock is released, nothing is   *)
(* rolled back, and the exception leaves buy_market or sell_market.        *)
SaveAbort(t) ==
    /\ repoLock = t
    /\ Cardinality(keys) # cursor.size
    /\ Leave(t, "iterate")
    /\ repoLock' = NoThread
    /\ cursor' = NoCursor
    /\ UNCHANGED <<memory, lock, conn, disk, trades, bounds>>

\* Variant with a bug: the transaction is left open.
SaveWithoutCommit(t) ==
    /\ repoLock = t
    /\ Cardinality(keys) = cursor.size
    /\ cursor.todo = {}
    /\ Leave(t, "iterate")
    /\ repoLock' = NoThread
    /\ cursor' = NoCursor
    /\ conn' = [conn EXCEPT !.cash = call[t].cash]
    /\ UNCHANGED <<memory, lock, disk, trades, bounds>>

SaveCommit(t) ==
    /\ repoLock = t
    /\ Cardinality(keys) = cursor.size
    /\ cursor.todo = {}
    /\ Leave(t, "iterate")
    /\ repoLock' = NoThread
    /\ cursor' = NoCursor
    /\ conn' = [conn EXCEPT !.cash = call[t].cash]
    /\ disk' = conn'
    /\ UNCHANGED <<memory, lock, trades, bounds>>

----------------------------------------------------------------------------
(* The process dies and systemd starts it again: __init__ takes positions  *)
(* and balance from load_positions.                                        *)
LoadedKeys == {s \in Symbols : disk.rows[s] # NoRow}

\* Variant with a bug: a symbol without a row is not given a quantity.
LoadedRows == disk.rows

LoadedQuantity == [s \in Symbols |-> IF s \in LoadedKeys THEN disk.rows[s] ELSE 0]

Restart ==
    /\ restarts < MaxRestarts
    /\ restarts' = restarts + 1
    /\ balance' = disk.cash
    /\ quantity' = LoadedQuantity
    /\ keys' = LoadedKeys
    /\ lock' = NoThread
    /\ call' = [t \in Threads |-> Outside]
    /\ repoLock' = NoThread
    /\ cursor' = NoCursor
    /\ conn' = disk
    /\ UNCHANGED <<disk, trades, calls>>

AllIdle == \A t \in Threads : call[t].at = "idle"

(* No more calls: the bounds of the model, not an end of the program.      *)
Finished ==
    /\ AllIdle
    /\ calls = MaxCalls
    /\ UNCHANGED vars

Step(t) ==
    \/ \E o \in Orders : Call(t, o)
    \/ Check(t)
    \/ MoveMoney(t)
    \/ MoveCoins(t)
    \/ SaveTrade(t)
    \/ EvaluateArguments(t)
    \/ SaveBegin(t)
    \/ \E s \in Symbols : SaveRow(t, s)
    \/ SaveAbort(t)
    \/ SaveCommit(t)

Next ==
    \/ \E t \in Threads : Step(t)
    \/ Restart
    \/ Finished

Spec == Init /\ [][Next]_vars

----------------------------------------------------------------------------
(* Properties                                                              *)

TypeOK ==
    /\ balance \in Int
    /\ quantity \in [Symbols -> Int]
    /\ keys \in SUBSET Symbols
    /\ lock \in Threads \cup {NoThread}
    /\ call \in [Threads -> Calls]
    /\ repoLock \in Threads \cup {NoThread}
    /\ cursor \in [size: Nat, todo: SUBSET Symbols]
    /\ conn \in Tables
    /\ disk \in Tables
    /\ trades \in Seq(Orders)
    /\ calls \in Nat
    /\ restarts \in Nat

(* Neither the cash nor a holding is ever negative, in memory or in what a *)
(* restart would load, whichever threads trade at once: the check of the   *)
(* balance or quantity and its use are under one lock.                     *)
Solvent ==
    /\ balance >= 0
    /\ disk.cash >= 0
    /\ \A s \in Symbols : /\ quantity[s] >= 0
                          /\ s \in LoadedKeys => disk.rows[s] >= 0

(* The account as it is between orders: the cash of an order whose coins   *)
(* have not been booked yet does not count.                                *)
SettledCash ==
    IF lock = NoThread \/ call[lock].at # "coins" THEN balance
    ELSE LET o == call[lock].order
         IN  IF o.op = "buy" THEN balance + Cost(o) ELSE balance - Proceeds(o)

Account == INSTANCE Ledger WITH
    cash <- SettledCash, holdings <- quantity, epoch <- restarts

(* From one restart to the next the account changes by whole orders only,  *)
(* cash and coins of the same one: buy_market and sell_market of different *)
(* threads take effect one after the other, never in part, never twice.    *)
ImplementsLedger == Account!LedgerSpec

(* When no call is in progress, the saved positions are those in memory,   *)
(* although every save iterates over a dict that others change: whoever    *)
(* changed it last saves after that.                                       *)
SavedPositionsAreCurrent ==
    AllIdle => \A s \in Symbols :
        disk.rows[s] = IF s \in keys THEN quantity[s] ELSE NoRow

(* save_positions: "saves the positions and the balance to the DB"         *)
(* (storage/repository.py:188).  When no call is in progress, the saved    *)
(* balance is the balance in memory.                                       *)
SavedBalanceIsCurrent == AllIdle => disk.cash = balance

\* What an order costs the account, and the coins it brings.
Paid(o) == IF o.op = "buy" THEN Cost(o) ELSE -Proceeds(o)
Gained(o, s) == IF o.sym # s THEN 0 ELSE IF o.op = "buy" THEN o.qty ELSE -o.qty

PaidInLog == [i \in DOMAIN trades |-> Paid(trades[i])]
GainedInLog(s) == [i \in DOMAIN trades |-> Gained(trades[i], s)]

(* When no call is in progress and nothing was lost in a crash, the trade  *)
(* table explains the account: every order that moved coins or money is in *)
(* it once, and no other.                                                  *)
LogExplainsAccount ==
    AllIdle /\ restarts = 0 =>
        /\ balance = InitialBalance - SumFunctionOnSet(PaidInLog, DOMAIN trades)
        /\ \A s \in Symbols :
               quantity[s] = SumFunctionOnSet(GainedInLog(s), DOMAIN trades)

BusyThreads == {t \in Threads : call[t].at # "idle"}

(* A crash while only sells are in progress costs no symbol that is not    *)
(* being sold: what is loaded is the quantity held.  (While a first buy is *)
(* in progress it may: an aborted save_positions leaves deleted rows in    *)
(* the open transaction, and the buyer's save_trade commits them.)         *)
RestartKeepsSettledSymbols ==
    [][restarts' # restarts /\ (\A t \in BusyThreads : call[t].order.op = "sell")
        => \A s \in Symbols \ {call[t].order.sym : t \in BusyThreads} :
               quantity'[s] = quantity[s]]_vars

=============================================================================
