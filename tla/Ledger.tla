------------------------------- MODULE Ledger -------------------------------
(***************************************************************************)
(* What a broker promises the rest of the bot: one account, cash and coin  *)
(* holdings, changed by whole orders only.  BaseBroker (execution/base.py) *)
(* declares the two operations; nothing here knows of threads, locks or    *)
(* the database.  Money is counted in 1/FeeDen of a currency unit, so that *)
(* the commission FeeNum/FeeDen of an order is a whole number.             *)
(***************************************************************************)
EXTENDS Naturals

CONSTANTS
    Symbols,          \* traded symbols
    Quantities,       \* coins a buy may ask for
    Prices,           \* prices an order may be filled at
    FeeNum, FeeDen,   \* commission_rate = FeeNum / FeeDen
    InitialBalance    \* paper_initial_balance

VARIABLES
    cash,       \* money not invested
    holdings,   \* coins of each symbol
    epoch       \* restarts so far; only a restart may do more than an order

ledgerVars == <<cash, holdings, epoch>>

(* What a buy of qty coins at a price takes from the cash: the amount and  *)
(* its commission.                                                         *)
Cost(qty, price) == (qty * price) * (FeeDen + FeeNum)

(* What a sell returns: the proceeds less their commission.                *)
Proceeds(qty, price) == (qty * price) * (FeeDen - FeeNum)

LedgerInit ==
    /\ cash = InitialBalance
    /\ holdings = [s \in Symbols |-> 0]
    /\ epoch = 0

(* A buy is paid from the cash that is there, in full and at once.         *)
BuyOrder(s, qty, price) ==
    /\ Cost(qty, price) <= cash
    /\ cash' = cash - Cost(qty, price)
    /\ holdings' = [holdings EXCEPT ![s] = @ + qty]
    /\ UNCHANGED epoch

(* A sell never delivers more coins than are held.                         *)
SellOrder(s, qty, price) ==
    /\ qty <= holdings[s]
    /\ cash' = cash + Proceeds(qty, price)
    /\ holdings' = [holdings EXCEPT ![s] = @ - qty]
    /\ UNCHANGED epoch

(* A restart puts back what was saved, and begins a new epoch: the only    *)
(* step that is not one whole order.  What was saved belongs to the        *)
(* persistence of the implementation; the ledger only says that it is an   *)
(* account without debts.  An implementation that maps epoch to its        *)
(* restarts promises that in between nothing but whole orders happens.     *)
Reload ==
    /\ epoch' = epoch + 1
    /\ cash' \in Nat
    /\ holdings' \in [Symbols -> Nat]

LedgerNext ==
    \/ \E s \in Symbols, qty \in Quantities, price \in Prices : BuyOrder(s, qty, price)
    \/ \E s \in Symbols, price \in Prices :
          \E qty \in 0 .. holdings[s] : SellOrder(s, qty, price)
    \/ Reload

LedgerSpec == LedgerInit /\ [][LedgerNext]_ledgerVars

=============================================================================
