----------------------------- MODULE LiveOrder -----------------------------
(***************************************************************************)
(* LiveBroker (execution/live_broker.py) placing orders through UpbitClient *)
(* (exchange/upbit.py) at an exchange that may accept a request, refuse it, *)
(* and answer late or not at all.                                          *)
(*                                                                         *)
(* A call holds _order_lock from its first request until it returns.  The  *)
(* client sends a request up to _MAX_RETRIES times, an order like any      *)
(* other, when no usable answer comes.  A request that timed out is not    *)
(* gone: the exchange may still accept it, even after the call returned.   *)
(* An order that was answered is looked up until it is done or cancelled,  *)
(* a few times at most, and recorded unless it was seen cancelled.  Every  *)
(* exception ends the call with None.                                      *)
(*                                                                         *)
(* Recording is TradeRepository.save_trade: an INSERT and a COMMIT on the  *)
(* connection everybody shares, and only then the return.  A COMMIT that   *)
(* raises ends the call with None and may leave the row in the open        *)
(* transaction, where the next commit of anybody makes it durable; nothing *)
(* in the repository rolls back.                                           *)
(*                                                                         *)
(* Left out: back-off times, the consecutive error count (only logged),    *)
(* prices and quantities of the recorded row, partial fills.  Who calls    *)
(* the broker, and when, is left open.                                     *)
(***************************************************************************)
EXTENDS Naturals, Sequences, FiniteSets

CONSTANTS
    Threads,          \* threads that call the broker
    Buyers,           \* those that also buy: the strategy thread
    Amounts,          \* what a buy may be for; a sell's quantity is left out
    HardCap,          \* absolute_max_order_krw
    MaxAttempts,      \* UpbitClient._MAX_RETRIES
    MaxLooks,         \* _verify_order's max_retries
    NoThread,         \* holder of the free lock
    MaxCalls,         \* bound: calls made to the broker
    MaxRestarts       \* bound: crashes of the process

ASSUME LiveAssumption ==
    /\ Buyers \subseteq Threads
    /\ NoThread \notin Threads
    /\ Amounts \subseteq Nat
    /\ HardCap \in Nat
    /\ MaxAttempts \in Nat \ {0}
    /\ MaxLooks \in Nat
    /\ MaxCalls \in Nat
    /\ MaxRestarts \in Nat

Ids == 1 .. MaxCalls
Attempts == 1 .. MaxAttempts

(* Room for one request more than may be sent.                             *)
Slots == 1 .. MaxAttempts + 1

VARIABLES
    lock,        \* _order_lock
    call,        \* per thread: where it is, and its local variables
    asked,       \* per call: buy or sell, and the amount
    outcome,     \* per call: what it returned
    request,     \* per call and attempt: what became of the request
    trades,      \* rows of the trades table: the call and attempt they are of
    durable,     \* how many of the rows are committed
    made, restarts

table == <<trades, durable>>
vars == <<lock, call, asked, outcome, request, table, made, restarts>>

Fates == {"unsent", "sent", "refused", "wait", "done", "cancel"}
Accepted == {"wait", "done", "cancel"}

(* id: the call; attempt: the last one; seen: the order's state as learnt. *)
Outside == [at |-> "idle", id |-> 0, attempt |-> 1, seen |-> "unsent", looks |-> 0]

Init ==
    /\ lock = NoThread
    /\ call = [t \in Threads |-> Outside]
    /\ asked = [i \in Ids |-> [op |-> "sell", amount |-> 0]]
    /\ outcome = [i \in Ids |-> "open"]
    /\ request = [i \in Ids |-> [a \in Slots |-> "unsent"]]
    /\ trades = <<>>
    /\ durable = 0
    /\ made = 0
    /\ restarts = 0

Fate(t) == request[call[t].id][call[t].attempt]

----------------------------------------------------------------------------
(* The exchange                                                            *)

(* A request reaches the exchange, which makes it an order or refuses it.  *)
Decides(i, a, fate) ==
    /\ request[i][a] = "sent"
    /\ request' = [request EXCEPT ![i][a] = fate]
    /\ UNCHANGED <<lock, call, asked, outcome, table, made, restarts>>

Settles(i, a, fate) ==
    /\ request[i][a] = "wait"
    /\ request' = [request EXCEPT ![i][a] = fate]
    /\ UNCHANGED <<lock, call, asked, outcome, table, made, restarts>>

----------------------------------------------------------------------------
(* The call                                                                *)

OverCap(op, amount) == op = "buy" /\ amount > HardCap

(* Only buy_market compares the amount with the hard cap.                  *)
Call(t, op, amount) ==
    /\ made < MaxCalls
    /\ call[t].at = "idle"
    /\ op = "buy" => t \in Buyers
    /\ made' = made + 1
    /\ asked' = [asked EXCEPT ![made + 1] = [op |-> op, amount |-> amount]]
    /\ IF OverCap(op, amount)
       THEN /\ outcome' = [outcome EXCEPT ![made + 1] = "none"]
            /\ UNCHANGED call
       ELSE /\ call' = [call EXCEPT ![t] = [Outside EXCEPT !.at = "enter", !.id = made + 1]]
            /\ UNCHANGED outcome
    /\ UNCHANGED <<lock, request, table, restarts>>

Enter(t) ==
    /\ call[t].at = "enter"
    /\ lock = NoThread
    /\ lock' = t
    /\ call' = [call EXCEPT ![t].at = "post"]
    /\ UNCHANGED <<asked, outcome, request, table, made, restarts>>

\* Variant with a bug: an exception leaves the lock taken.
ReturnsHolding(t, result) ==
    /\ lock' = IF result = "none" THEN lock ELSE NoThread
    /\ call' = [call EXCEPT ![t] = Outside]
    /\ outcome' = [outcome EXCEPT ![call[t].id] = result]

Returns(t, result) ==
    /\ lock' = NoThread
    /\ call' = [call EXCEPT ![t] = Outside]
    /\ outcome' = [outcome EXCEPT ![call[t].id] = result]

Post(t) ==
    /\ call[t].at = "post"
    /\ call' = [call EXCEPT ![t].at = "await"]
    /\ request' = [request EXCEPT ![call[t].id][call[t].attempt] = "sent"]
    /\ UNCHANGED <<lock, asked, outcome, table, made, restarts>>

\* Variant with a bug: what comes back is taken for the order.
AnswersAnyway(t) == TRUE

Answers(t) == Fate(t) \in Accepted

(* The order's id arrives, with the state the order was in.                *)
Answered(t) ==
    /\ call[t].at = "await"
    /\ Answers(t)
    /\ call' = [call EXCEPT ![t].at = "verify", ![t].seen = Fate(t)]
    /\ UNCHANGED <<lock, asked, outcome, request, table, made, restarts>>

\* Variant with a bug: off by one.
MayRetryOnceMore(t) == call[t].attempt <= MaxAttempts

MayRetry(t) == call[t].attempt < MaxAttempts

(* A 429, a 5xx, a time-out, no connection: the loop of _request.  Whether *)
(* the exchange has the order is not known to the client.                  *)
TryAgain(t) ==
    /\ call[t].at = "await"
    /\ MayRetry(t)
    /\ call' = [call EXCEPT ![t].at = "post", ![t].attempt = @ + 1]
    /\ UNCHANGED <<lock, asked, outcome, request, table, made, restarts>>

(* The last attempt failed, or an attempt in a way that is not retried: an *)
(* other 4xx, a broken connection, an answer that cannot be read.          *)
Raises(t) ==
    /\ call[t].at = "await"
    /\ Returns(t, "none")
    /\ UNCHANGED <<asked, request, table, made, restarts>>

\* Variant with a bug: off by one.
MayLookOnceMore(t) == call[t].looks <= MaxLooks

MayLook(t) == call[t].looks < MaxLooks

(* One round of _verify_order; the query fails or shows the order's state. *)
LooksUp(t, fails) ==
    /\ call[t].at = "verify"
    /\ MayLook(t)
    /\ call' = IF ~fails /\ Fate(t) \in {"done", "cancel"}
               THEN [call EXCEPT ![t].at = "settle", ![t].seen = Fate(t)]
               ELSE [call EXCEPT ![t].looks = @ + 1]
    /\ UNCHANGED <<lock, asked, outcome, request, table, made, restarts>>

(* The order stays unconfirmed; it counts as it was when it was answered.  *)
Unconfirmed(t) ==
    /\ call[t].at = "verify"
    /\ call[t].looks = MaxLooks
    /\ call' = [call EXCEPT ![t].at = "settle"]
    /\ UNCHANGED <<lock, asked, outcome, request, table, made, restarts>>

SeenCancelled(t) ==
    /\ call[t].at = "settle"
    /\ call[t].seen = "cancel"
    /\ Returns(t, "none")
    /\ UNCHANGED <<asked, request, table, made, restarts>>

(* save_trade: the INSERT, under the repository's lock.                    *)
Inserts(t) ==
    /\ call[t].at = "settle"
    /\ call[t].seen # "cancel"
    /\ trades' = Append(trades, [id |-> call[t].id, attempt |-> call[t].attempt])
    /\ call' = [call EXCEPT ![t].at = "commit"]
    /\ UNCHANGED <<lock, asked, outcome, request, durable, made, restarts>>

InsertFails(t) ==
    /\ call[t].at = "settle"
    /\ call[t].seen # "cancel"
    /\ Returns(t, "none")
    /\ UNCHANGED <<asked, request, table, made, restarts>>

(* The COMMIT, of everything the connection has written.                   *)
Commits(t) ==
    /\ call[t].at = "commit"
    /\ durable' = Len(trades)
    /\ call' = [call EXCEPT ![t].at = "recorded"]
    /\ UNCHANGED <<lock, asked, outcome, request, trades, made, restarts>>

Committed == SubSeq(trades, 1, durable)

\* Variant with a bug: the exception ends in save_trade.
CommitFailsSilently(t, lost) ==
    /\ call[t].at = "commit"
    /\ trades' = IF lost THEN Committed ELSE trades
    /\ call' = [call EXCEPT ![t].at = "recorded"]
    /\ UNCHANGED <<lock, asked, outcome, request, durable, made, restarts>>

(* It raises; the transaction stays open, or SQLite has undone it.         *)
CommitFails(t, lost) ==
    /\ call[t].at = "commit"
    /\ trades' = IF lost THEN Committed ELSE trades
    /\ Returns(t, "none")
    /\ UNCHANGED <<asked, request, durable, made, restarts>>

Reports(t) ==
    /\ call[t].at = "recorded"
    /\ Returns(t, "filled")
    /\ UNCHANGED <<asked, request, table, made, restarts>>

(* Another user of the repository commits: commands, reports, the jobs.    *)
OthersCommit ==
    /\ \A t \in Threads : call[t].at # "commit"
    /\ durable # Len(trades)
    /\ durable' = Len(trades)
    /\ UNCHANGED <<lock, call, asked, outcome, request, trades, made, restarts>>

(* The process dies and is started again; what was sent stays sent, what   *)
(* was committed stays in the table.                                       *)
Restart ==
    /\ restarts < MaxRestarts
    /\ restarts' = restarts + 1
    /\ lock' = NoThread
    /\ call' = [t \in Threads |-> Outside]
    /\ trades' = Committed
    /\ UNCHANGED <<asked, outcome, request, durable, made>>

Step(t) ==
    \/ Enter(t)
    \/ Post(t)
    \/ Answered(t)
    \/ TryAgain(t)
    \/ Raises(t)
    \/ \E fails \in BOOLEAN : LooksUp(t, fails)
    \/ Unconfirmed(t)
    \/ SeenCancelled(t)
    \/ Inserts(t)
    \/ InsertFails(t)
    \/ Commits(t)
    \/ \E lost \in BOOLEAN : CommitFails(t, lost)
    \/ Reports(t)

(* No more calls: the bound of the model, not an end of the program.       *)
Finished ==
    /\ made = MaxCalls
    /\ \A t \in Threads : call[t].at = "idle"
    /\ UNCHANGED vars

Exchange ==
    \E i \in Ids, a \in Slots :
        \/ \E fate \in {"wait", "refused"} : Decides(i, a, fate)
        \/ \E fate \in {"done", "cancel"} : Settles(i, a, fate)

Next ==
    \/ \E t \in Threads, amount \in Amounts : Call(t, "buy", amount)
    \/ \E t \in Threads : Call(t, "sell", 0)
    \/ \E t \in Threads : Step(t)
    \/ Exchange
    \/ OthersCommit
    \/ Restart
    \/ Finished

Spec == Init /\ [][Next]_vars

(* A thread in the broker goes on: each request ends by an answer or by    *)
(* the client's time-out of 10 s, and the waits between them are finite.   *)
(* Of the exchange nothing is assumed.                                     *)
FairSpec == Spec /\ \A t \in Threads : WF_vars(Step(t))

----------------------------------------------------------------------------
(* Properties                                                              *)

Calls == [at: {"idle", "enter", "post", "await", "verify", "settle", "commit",
               "recorded"},
          id: 0 .. MaxCalls, attempt: Attempts, seen: Fates, looks: 0 .. MaxLooks]

TypeOK ==
    /\ lock \in Threads \cup {NoThread}
    /\ call \in [Threads -> Calls]
    /\ asked \in [Ids -> [op: {"buy", "sell"}, amount: Nat]]
    /\ outcome \in [Ids -> {"open", "none", "filled"}]
    /\ request \in [Ids -> [Slots -> Fates]]
    /\ trades \in Seq([id: Ids, attempt: Attempts])
    /\ durable \in 0 .. Len(trades)
    /\ made \in 0 .. MaxCalls
    /\ restarts \in Nat

(* Every row, committed or not, is of an order the exchange has accepted,  *)
(* and no call records two: whatever was retried, lost or answered late,   *)
(* the row is of the attempt that was answered.                            *)
RowsAreOrders ==
    /\ \A k \in DOMAIN trades : request[trades[k].id][trades[k].attempt] \in Accepted
    /\ \A k, m \in DOMAIN trades : trades[k].id = trades[m].id => k = m

Recorded(i) == \E k \in 1 .. durable : trades[k].id = i

(* An order that was reported to the caller, who then notes it in cooldown *)
(* and last signals, is in the table for ever: through commits that fail   *)
(* before or after it and through a crash at any moment.  Of None nothing  *)
(* is claimed: its order may exist, and even its row may become durable    *)
(* later.                                                                  *)
ReportedIsRecorded == \A i \in Ids : outcome[i] = "filled" => Recorded(i)

Sent(i) == {a \in Slots : request[i][a] # "unsent"}

(* What one call to buy can cost, with every retry accepted, is at most    *)
(* _MAX_RETRIES times the hard cap, ever: also after it has returned.      *)
ExposureIsBounded ==
    \A i \in Ids : asked[i].op = "buy" =>
        Cardinality(Sent(i)) * asked[i].amount <= MaxAttempts * HardCap

(* _order_lock always comes back, on every path out of the call, whatever  *)
(* the exchange does: a stop-loss sell that waits for it gets its turn.    *)
LockComesBack == \A t \in Threads : lock = t ~> lock # t

Orders(i) == {a \in Slots : request[i][a] \in Accepted}

(* README.md:339: a failed order request is not retried (so that no order  *)
(* is placed twice).  One call is at most one order.                       *)
AtMostOneOrderPerCall == \A i \in Ids : Cardinality(Orders(i)) <= 1

=============================================================================
