-------------------------- MODULE LiveOrderProofs --------------------------
(***************************************************************************)
(* What LiveOrder guarantees for any number of threads, calls, retries and *)
(* look-ups.  The invariants of the runs are not inductive: one has to     *)
(* know that a call in progress is its thread's alone, that it has no row  *)
(* before it inserts one, that its row is durable once it has committed,   *)
(* and that a call over the hard cap never sends.                          *)
(***************************************************************************)
EXTENDS LiveOrder, FiniteSetTheorems, SequenceTheorems, TLAPS

Working(t) == call[t].at # "idle"

(* A row of the call, committed or not.                                    *)
Inserted(i) == \E k \in DOMAIN trades : trades[k].id = i

InsideSave(t) == call[t].at \in {"commit", "recorded"}

(* A call in progress has been made, is open and not over the cap; it has  *)
(* no row before it inserts one, then one, and after its commit a durable  *)
(* one.                                                                    *)
Mine ==
    \A t \in Threads : Working(t) =>
        /\ call[t].id \in Ids
        /\ call[t].id <= made
        /\ outcome[call[t].id] = "open"
        /\ ~InsideSave(t) => ~Inserted(call[t].id)
        /\ call[t].at = "commit" => Inserted(call[t].id)
        /\ call[t].at = "recorded" => Recorded(call[t].id)
        /\ ~OverCap(asked[call[t].id].op, asked[call[t].id].amount)

Apart ==
    \A t, u \in Threads : Working(t) /\ Working(u) /\ call[t].id = call[u].id => t = u

(* From its first request until it returns a call has _order_lock: nobody  *)
(* else's failed commit takes back the row it has inserted.                *)
Holding == \A t \in Threads : call[t].at \notin {"idle", "enter"} => lock = t

(* Nothing has happened to a call not made yet.                            *)
Fresh ==
    \A i \in Ids : i > made =>
        /\ outcome[i] = "open"
        /\ ~Inserted(i)
        /\ \A a \in Slots : request[i][a] = "unsent"

Confirmed ==
    \A t \in Threads : call[t].at \in {"verify", "settle"} => Fate(t) \in Accepted

Capped ==
    \A i \in Ids : OverCap(asked[i].op, asked[i].amount) =>
        \A a \in Slots : request[i][a] = "unsent"

(* The slot that is one too many stays empty.                              *)
NoneTooMany == \A i \in Ids, a \in Slots \ Attempts : request[i][a] = "unsent"

IInv ==
    /\ TypeOK
    /\ Mine
    /\ Apart
    /\ Holding
    /\ Fresh
    /\ Confirmed
    /\ Capped
    /\ NoneTooMany
    /\ RowsAreOrders
    /\ ReportedIsRecorded

(* Steps that leave requests and records alone.                            *)
Rest == <<asked, outcome, request, trades, durable, made, restarts>>

LEMMA AttemptsAreSlots == Attempts \subseteq Slots
BY LiveAssumption DEF Attempts, Slots

LEMMA RecordedIsInserted ==
    ASSUME TypeOK, NEW i, Recorded(i)
    PROVE  Inserted(i)
<1>1. DOMAIN trades = 1 .. Len(trades) /\ Len(trades) \in Nat /\ durable \in 0 .. Len(trades)
    BY DEF TypeOK
<1> QED
    BY <1>1 DEF Recorded, Inserted

(* Losing the rows that are not committed loses no committed one.          *)
LEMMA RowsAfterLoss ==
    ASSUME TypeOK, trades' \in {trades, Committed}, durable' = durable
    PROVE  /\ trades' \in Seq([id: Ids, attempt: Attempts])
           /\ durable \in 0 .. Len(trades')
           /\ \A k \in DOMAIN trades' : k \in DOMAIN trades /\ trades'[k] = trades[k]
           /\ \A i : Inserted(i)' => Inserted(i)
           /\ \A i : Recorded(i)' <=> Recorded(i)
<1>1. /\ trades \in Seq([id: Ids, attempt: Attempts])
      /\ DOMAIN trades = 1 .. Len(trades) /\ Len(trades) \in Nat
      /\ durable \in 0 .. Len(trades)
    BY DEF TypeOK
<1>2. /\ Committed \in Seq([id: Ids, attempt: Attempts])
      /\ Len(Committed) = durable
      /\ DOMAIN Committed = 1 .. durable
      /\ \A k \in 1 .. durable : Committed[k] = trades[k]
  <2>1. ASSUME NEW k \in 1 .. durable PROVE trades[k] \in [id: Ids, attempt: Attempts]
    <3>1. k \in 1 .. Len(trades)
        BY <1>1
    <3> QED
        BY <1>1, <3>1, ElementOfSeq
  <2>2. /\ Committed \in Seq([id: Ids, attempt: Attempts])
        /\ Len(Committed) = IF 1 <= durable THEN durable - 1 + 1 ELSE 0
        /\ \A k \in 1 .. durable - 1 + 1 : Committed[k] = trades[1 + k - 1]
      BY <1>1, <2>1, SubSeqProperties DEF Committed
  <2>3. Len(Committed) = durable
      BY <1>1, <2>2
  <2>4. DOMAIN Committed = 1 .. durable
      BY <2>2, <2>3
  <2> QED
      BY <1>1, <2>2, <2>3, <2>4
<1>3. /\ trades' \in Seq([id: Ids, attempt: Attempts])
      /\ durable \in 0 .. Len(trades')
      /\ \A k \in DOMAIN trades' : k \in DOMAIN trades /\ trades'[k] = trades[k]
    BY <1>1, <1>2
<1>4. \A k \in 1 .. durable : trades'[k] = trades[k]
    BY <1>1, <1>2
<1>5. \A i : Inserted(i)' => Inserted(i)
    BY <1>3 DEF Inserted
<1>6. \A i : Recorded(i)' <=> Recorded(i)
    BY <1>4 DEF Recorded
<1> QED
    BY <1>3, <1>5, <1>6

LEMMA InitIInv == Init => IInv
<1> SUFFICES ASSUME Init PROVE IInv
    OBVIOUS
<1> USE LiveAssumption DEF Init
<1>1. TypeOK
    BY DEF TypeOK, Calls, Outside, Fates, Ids, Attempts, Slots
<1>2. \A i : ~Inserted(i)
    BY DEF Inserted
<1>3. Mine /\ Apart /\ Holding /\ Confirmed
    BY DEF Mine, Apart, Holding, Confirmed, Working, Outside
<1>4. Fresh /\ Capped /\ NoneTooMany
    BY <1>2 DEF Fresh, Capped, NoneTooMany, Ids, Slots
<1>5. RowsAreOrders
    BY DEF RowsAreOrders
<1>6. ReportedIsRecorded
    BY DEF ReportedIsRecorded, Ids
<1> QED
    BY <1>1, <1>3, <1>4, <1>5, <1>6 DEF IInv

(* A step that only moves the program counter of one thread within a call, *)
(* possibly taking the lock, keeps everything but Confirmed without work.  *)
LEMMA MoveWithinCall ==
    ASSUME IInv, TypeOK', NEW t \in Threads, UNCHANGED Rest, Working(t),
           \A u \in Threads \ {t} : call'[u] = call[u],
           call'[t].id = call[t].id,
           call[t].at \notin {"commit", "recorded"},
           call'[t].at \notin {"commit", "recorded"},
           lock \in {t, NoThread}, lock' = t,
           call'[t].at \in {"verify", "settle"} =>
               request[call'[t].id][call'[t].attempt] \in Accepted
    PROVE  IInv'
<1> USE DEF Rest
<1>1. \A i : (Inserted(i)' <=> Inserted(i)) /\ (Recorded(i)' <=> Recorded(i))
    BY DEF Inserted, Recorded
<1>2. \A u \in Threads : Working(u)' => Working(u) /\ call'[u].id = call[u].id
    BY DEF Working
<1>3. Mine'
    BY <1>1, <1>2 DEF IInv, Mine, InsideSave
<1>4. Apart'
    BY <1>2 DEF IInv, Apart
<1>5. Fresh'
    BY <1>1 DEF IInv, Fresh
<1>6. Confirmed'
    BY DEF IInv, Confirmed, Fate
<1>7. Capped' /\ NoneTooMany'
    BY DEF IInv, Capped, NoneTooMany
<1>8. RowsAreOrders'
    BY DEF IInv, RowsAreOrders
<1>9. ReportedIsRecorded'
    BY <1>1 DEF IInv, ReportedIsRecorded
<1>10. Holding'
    BY LiveAssumption DEF IInv, Holding
<1> QED
    BY <1>3, <1>4, <1>5, <1>6, <1>7, <1>8, <1>9, <1>10 DEF IInv

(* A call that returns: None whatever its order and its row are, and the   *)
(* order only when its row is durable.                                     *)
LEMMA ReturnStep ==
    ASSUME IInv, TypeOK', NEW t \in Threads, Working(t),
           NEW result \in {"none", "filled"}, Returns(t, result),
           call[t].at # "enter", result = "filled" => Recorded(call[t].id),
           trades' \in {trades, Committed}, durable' = durable,
           UNCHANGED <<asked, request, made, restarts>>
    PROVE  IInv'
<1> USE DEF Returns
<1>0. TypeOK
    BY DEF IInv
<1>1. /\ \A i : Inserted(i)' => Inserted(i)
      /\ \A i : Recorded(i)' <=> Recorded(i)
      /\ \A k \in DOMAIN trades' : k \in DOMAIN trades /\ trades'[k] = trades[k]
    BY <1>0, RowsAfterLoss
<1>2. /\ call[t].id \in Ids /\ call[t].id <= made
      /\ outcome \in [Ids -> {"open", "none", "filled"}]
      /\ call \in [Threads -> Calls]
      /\ made \in Nat
    BY LiveAssumption DEF IInv, Mine, TypeOK
<1>3. ~Working(t)' /\ \A u \in Threads \ {t} : call'[u] = call[u]
    BY <1>2 DEF Working, Outside
<1>4. /\ \A i \in Ids : i # call[t].id => outcome'[i] = outcome[i]
      /\ outcome'[call[t].id] = result
    BY <1>2
<1>5. \A u \in Threads : Working(u)' => u # t /\ Working(u) /\ call'[u] = call[u]
    BY <1>3 DEF Working
<1>6. \A u \in Threads : Working(u)' => call[u].id # call[t].id
    BY <1>5 DEF IInv, Apart
<1>6a. lock = t
    BY DEF IInv, Holding, Working
<1>6b. \A u \in Threads : Working(u)' => call[u].at = "enter"
    BY <1>5, <1>6a DEF IInv, Holding, Working
<1>7. Mine'
    BY <1>1, <1>4, <1>5, <1>6, <1>6b DEF IInv, Mine, InsideSave
<1>7a. Holding'
    BY <1>3, <1>5, <1>6b DEF Holding, Working
<1>8. Apart'
    BY <1>5 DEF IInv, Apart
<1>9. Fresh'
  <2> SUFFICES ASSUME NEW i \in Ids, i > made
               PROVE  i # call[t].id
      BY <1>1, <1>4 DEF IInv, Fresh
  <2> QED
      BY <1>2 DEF Ids
<1>10. Confirmed'
    BY <1>5, <1>2 DEF IInv, Confirmed, Fate, Outside
<1>11. Capped' /\ NoneTooMany'
    BY DEF IInv, Capped, NoneTooMany
<1>12. RowsAreOrders'
    BY <1>1 DEF IInv, RowsAreOrders
<1>13. ReportedIsRecorded'
    BY <1>1, <1>2, <1>4 DEF IInv, ReportedIsRecorded
<1> QED
    BY <1>7, <1>7a, <1>8, <1>9, <1>10, <1>11, <1>12, <1>13 DEF IInv

----------------------------------------------------------------------------
(* Types                                                                   *)

(* A record of a thread is changed in its own fields only.                 *)
LEMMA CallChanges ==
    ASSUME call \in [Threads -> Calls], NEW t \in Threads, NEW c \in Calls,
           call' = [call EXCEPT ![t] = c]
    PROVE  call' \in [Threads -> Calls]
OBVIOUS

LEMMA RequestChanges ==
    ASSUME request \in [Ids -> [Slots -> Fates]], NEW i \in Ids, NEW a \in Slots,
           NEW f \in Fates, request' = [request EXCEPT ![i][a] = f]
    PROVE  request' \in [Ids -> [Slots -> Fates]]
<1>1. [request[i] EXCEPT ![a] = f] \in [Slots -> Fates]
    OBVIOUS
<1>2. request' = [request EXCEPT ![i] = [request[i] EXCEPT ![a] = f]]
    OBVIOUS
<1> QED
    BY <1>1, <1>2

LEMMA TypeStep == TypeOK /\ Mine /\ [Next]_vars => TypeOK'
<1> SUFFICES ASSUME TypeOK, Mine, [Next]_vars PROVE TypeOK'
    OBVIOUS
<1> USE LiveAssumption
<1>0. /\ call \in [Threads -> Calls]
      /\ request \in [Ids -> [Slots -> Fates]]
      /\ MaxAttempts \in Nat \ {0} /\ MaxLooks \in Nat /\ MaxCalls \in Nat
    BY DEF TypeOK
<1>2. Outside \in Calls
    BY DEF Outside, Calls, Fates, Attempts
<1>3. ASSUME NEW t \in Threads, Step(t) PROVE TypeOK'
  <2>1. /\ call[t] \in Calls /\ call[t].attempt \in Attempts
        /\ call[t].looks \in 0 .. MaxLooks
    BY <1>0 DEF Calls
  <2>2. Working(t)
    BY <1>3 DEF Step, Enter, Post, Answered, TryAgain, Raises, LooksUp, Unconfirmed,
       SeenCancelled, Inserts, InsertFails, Commits, CommitFails, Reports, Working
  <2>3. call[t].id \in Ids /\ Fate(t) \in Fates
    BY <1>0, <2>1, <2>2, AttemptsAreSlots DEF Mine, Fate
  <2>4. ASSUME NEW result \in {"none", "filled"}, Returns(t, result)
        PROVE  /\ lock' \in Threads \cup {NoThread}
               /\ call' \in [Threads -> Calls]
               /\ outcome' \in [Ids -> {"open", "none", "filled"}]
    BY <1>0, <1>2, <2>3, <2>4 DEF Returns, TypeOK
  <2>5. CASE Enter(t)
    <3> DEFINE j == [call[t] EXCEPT !.at = "post"]
    <3>1. j \in Calls
      BY <2>1, <2>3 DEF Calls
    <3>2. call' = [call EXCEPT ![t] = j]
      BY <1>0, <2>5 DEF Enter
    <3>3. call' \in [Threads -> Calls]
      BY <1>0, <3>1, <3>2, CallChanges
    <3> QED
      BY <2>5, <3>3 DEF Enter, table, TypeOK
  <2>6. CASE Post(t)
    <3> DEFINE j == [call[t] EXCEPT !.at = "await"]
    <3>1. j \in Calls
      BY <2>1, <2>3 DEF Calls
    <3>2. call' = [call EXCEPT ![t] = j]
      BY <1>0, <2>6 DEF Post
    <3>3. call' \in [Threads -> Calls]
      BY <1>0, <3>1, <3>2, CallChanges
    <3>4. request' \in [Ids -> [Slots -> Fates]]
      BY <1>0, <2>1, <2>3, <2>6, RequestChanges, AttemptsAreSlots DEF Post, Fates
    <3> QED
      BY <2>6, <3>3, <3>4 DEF Post, table, TypeOK
  <2>7. CASE Answered(t)
    <3> DEFINE j == [call[t] EXCEPT !.at = "verify", !.seen = Fate(t)]
    <3>1. j \in Calls
      BY <2>1, <2>3 DEF Calls
    <3>2. call' = [call EXCEPT ![t] = j]
      BY <1>0, <2>7 DEF Answered
    <3>3. call' \in [Threads -> Calls]
      BY <1>0, <3>1, <3>2, CallChanges
    <3> QED
      BY <2>7, <3>3 DEF Answered, table, TypeOK
  <2>8. CASE TryAgain(t)
    <3> DEFINE j == [call[t] EXCEPT !.at = "post", !.attempt = @ + 1]
    <3>1. call[t].attempt + 1 \in Attempts
      BY <1>0, <2>1, <2>8 DEF TryAgain, MayRetry, Attempts
    <3>2. j \in Calls
      BY <2>1, <2>3, <3>1 DEF Calls
    <3>3. call' = [call EXCEPT ![t] = j]
      BY <1>0, <2>8 DEF TryAgain
    <3>4. call' \in [Threads -> Calls]
      BY <1>0, <3>2, <3>3, CallChanges
    <3> QED
      BY <2>8, <3>4 DEF TryAgain, table, TypeOK
  <2>9. CASE Raises(t)
    BY <2>4, <2>9 DEF Raises, table, TypeOK
  <2>10. ASSUME NEW fails \in BOOLEAN, LooksUp(t, fails) PROVE TypeOK'
    <3>1. CASE ~fails /\ Fate(t) \in {"done", "cancel"}
      <4> DEFINE j == [call[t] EXCEPT !.at = "settle", !.seen = Fate(t)]
      <4>1. j \in Calls
        BY <2>1, <2>3 DEF Calls
      <4>2. call' = [call EXCEPT ![t] = j]
        BY <1>0, <2>10, <3>1 DEF LooksUp
      <4>3. call' \in [Threads -> Calls]
        BY <1>0, <4>1, <4>2, CallChanges
      <4> QED
        BY <2>10, <4>3 DEF LooksUp, table, TypeOK
    <3>2. CASE ~(~fails /\ Fate(t) \in {"done", "cancel"})
      <4> DEFINE j == [call[t] EXCEPT !.looks = @ + 1]
      <4>1. call[t].looks + 1 \in 0 .. MaxLooks
        BY <1>0, <2>1, <2>10 DEF LooksUp, MayLook
      <4>2. j \in Calls
        BY <2>1, <2>3, <4>1 DEF Calls
      <4>3. call' = [call EXCEPT ![t] = j]
        BY <1>0, <2>10, <3>2 DEF LooksUp
      <4>4. call' \in [Threads -> Calls]
        BY <1>0, <4>2, <4>3, CallChanges
      <4> QED
        BY <2>10, <4>4 DEF LooksUp, table, TypeOK
    <3> QED
      BY <3>1, <3>2
  <2>11. CASE Unconfirmed(t)
    <3> DEFINE j == [call[t] EXCEPT !.at = "settle"]
    <3>1. j \in Calls
      BY <2>1, <2>3 DEF Calls
    <3>2. call' = [call EXCEPT ![t] = j]
      BY <1>0, <2>11 DEF Unconfirmed
    <3>3. call' \in [Threads -> Calls]
      BY <1>0, <3>1, <3>2, CallChanges
    <3> QED
      BY <2>11, <3>3 DEF Unconfirmed, table, TypeOK
  <2>12. CASE SeenCancelled(t)
    BY <2>4, <2>12 DEF SeenCancelled, table, TypeOK
  <2>13. CASE Inserts(t)
    <3> DEFINE j == [call[t] EXCEPT !.at = "commit"]
    <3>1. j \in Calls
      BY <2>1, <2>3 DEF Calls
    <3>2. call' = [call EXCEPT ![t] = j]
      BY <1>0, <2>13 DEF Inserts
    <3>3. call' \in [Threads -> Calls]
      BY <1>0, <3>1, <3>2, CallChanges
    <3>4. [id |-> call[t].id, attempt |-> call[t].attempt] \in [id: Ids, attempt: Attempts]
      BY <2>1, <2>3
    <3>5. /\ trades' \in Seq([id: Ids, attempt: Attempts])
          /\ durable' \in 0 .. Len(trades')
      BY <2>13, <3>4 DEF Inserts, TypeOK
    <3> QED
      BY <2>13, <3>3, <3>5 DEF Inserts, TypeOK
  <2>14. CASE InsertFails(t)
    BY <2>4, <2>14 DEF InsertFails, table, TypeOK
  <2>15. CASE Commits(t)
    <3> DEFINE j == [call[t] EXCEPT !.at = "recorded"]
    <3>1. j \in Calls
      BY <2>1, <2>3 DEF Calls
    <3>2. call' = [call EXCEPT ![t] = j]
      BY <1>0, <2>15 DEF Commits
    <3>3. call' \in [Threads -> Calls]
      BY <1>0, <3>1, <3>2, CallChanges
    <3>4. durable' \in 0 .. Len(trades')
      BY <2>15 DEF Commits, TypeOK
    <3> QED
      BY <2>15, <3>3, <3>4 DEF Commits, TypeOK
  <2>16. ASSUME NEW lost \in BOOLEAN, CommitFails(t, lost) PROVE TypeOK'
    <3>1. trades' \in {trades, Committed} /\ durable' = durable
      BY <2>16 DEF CommitFails
    <3>2. /\ trades' \in Seq([id: Ids, attempt: Attempts])
          /\ durable' \in 0 .. Len(trades')
      BY <3>1, RowsAfterLoss
    <3> QED
      BY <2>4, <2>16, <3>2 DEF CommitFails, TypeOK
  <2>17. CASE Reports(t)
    BY <2>4, <2>17 DEF Reports, table, TypeOK
  <2> QED
    BY <1>3, <2>5, <2>6, <2>7, <2>8, <2>9, <2>10, <2>11, <2>12, <2>13, <2>14, <2>15,
       <2>16, <2>17 DEF Step
<1>4. ASSUME NEW t \in Threads, NEW op \in {"buy", "sell"}, NEW amount \in Nat,
             Call(t, op, amount)
      PROVE  TypeOK'
  <2>1. made + 1 \in Ids /\ made' \in 0 .. MaxCalls
    BY <1>0, <1>4 DEF Call, Ids, TypeOK
  <2>2. made + 1 \in 0 .. MaxCalls
    BY <1>0, <2>1 DEF Ids
  <2>3. [Outside EXCEPT !.at = "enter", !.id = made + 1] \in Calls
    BY <1>2, <2>2 DEF Calls
  <2>4. call' \in [Threads -> Calls]
    BY <1>0, <1>4, <2>3, CallChanges DEF Call
  <2> QED
    BY <1>4, <2>1, <2>4 DEF Call, table, TypeOK
<1>5. CASE Exchange
  <2>1. PICK i \in Ids, a \in Slots, f \in Fates :
           Decides(i, a, f) \/ Settles(i, a, f)
    BY <1>5 DEF Exchange, Fates
  <2>2. request' \in [Ids -> [Slots -> Fates]]
    BY <1>0, <2>1, RequestChanges DEF Decides, Settles
  <2> QED
    BY <2>1, <2>2 DEF Decides, Settles, table, TypeOK
<1>6. CASE Restart
  <2>1. /\ trades' \in Seq([id: Ids, attempt: Attempts])
        /\ durable' \in 0 .. Len(trades')
    BY <1>6, RowsAfterLoss DEF Restart
  <2> QED
    BY <1>2, <1>6, <2>1 DEF Restart, TypeOK
<1>7. CASE OthersCommit
    BY <1>7 DEF OthersCommit, TypeOK
<1>8. CASE UNCHANGED vars
    BY <1>8 DEF vars, table, TypeOK
<1> QED
    BY <1>0, <1>3, <1>4, <1>5, <1>6, <1>7, <1>8 DEF Next, Finished

----------------------------------------------------------------------------
(* Steps                                                                   *)

(* A request is sent for an attempt of a call that is in progress: of none *)
(* that is recorded, being looked up by another thread, or over the cap.   *)
LEMMA PostStep ==
    ASSUME IInv, TypeOK', NEW t \in Threads, Post(t)
    PROVE  IInv'
<1> USE DEF Post
<1>0. /\ call \in [Threads -> Calls] /\ made \in Nat
      /\ request \in [Ids -> [Slots -> Fates]]
      /\ trades \in Seq([id: Ids, attempt: Attempts])
    BY LiveAssumption DEF IInv, TypeOK
<1>0a. Working(t) /\ ~InsideSave(t)
    BY DEF Working, InsideSave
<1>1. /\ call \in [Threads -> Calls] /\ Working(t)
      /\ call[t].id \in Ids /\ call[t].attempt \in Attempts /\ made \in Nat
      /\ call[t].attempt \in Slots
      /\ call[t].id <= made /\ ~Inserted(call[t].id)
      /\ request \in [Ids -> [Slots -> Fates]]
      /\ trades \in Seq([id: Ids, attempt: Attempts])
    BY <1>0, <1>0a, AttemptsAreSlots DEF IInv, Mine, Calls
<1>2. \A i : (Inserted(i)' <=> Inserted(i)) /\ (Recorded(i)' <=> Recorded(i))
    BY DEF Inserted, Recorded, table
<1>3. /\ \A u \in Threads : u # t => call'[u] = call[u]
      /\ call'[t].at = "await" /\ call'[t].id = call[t].id
    BY <1>1 DEF Calls
<1>4. \A i \in Ids : i # call[t].id => request'[i] = request[i]
    BY <1>1
<1>5. Mine'
  <2>1. \A u \in Threads : Working(u)' =>
           /\ Working(u) /\ call'[u].id = call[u].id
           /\ InsideSave(u)' <=> InsideSave(u)
           /\ call'[u].at = "commit" => call[u].at = "commit"
           /\ call'[u].at = "recorded" => call[u].at = "recorded"
      BY <1>1, <1>3 DEF Working, InsideSave
  <2> QED
      BY <1>2, <2>1 DEF IInv, Mine
<1>6. Apart'
  <2> SUFFICES ASSUME NEW u \in Threads, NEW v \in Threads, Working(u)', Working(v)',
                      call'[u].id = call'[v].id
               PROVE  u = v
      BY DEF Apart
  <2>1. /\ Working(u) /\ call'[u].id = call[u].id
        /\ Working(v) /\ call'[v].id = call[v].id
      BY <1>1, <1>3 DEF Working
  <2> QED
      BY <2>1 DEF IInv, Apart
<1>7. Fresh'
  <2> SUFFICES ASSUME NEW i \in Ids, i > made PROVE i # call[t].id
      BY <1>2, <1>4 DEF IInv, Fresh
  <2> QED
      BY <1>1 DEF Ids
<1>8. Confirmed'
  <2> SUFFICES ASSUME NEW u \in Threads, call'[u].at \in {"verify", "settle"}
               PROVE  request'[call'[u].id][call'[u].attempt] \in Accepted
      BY DEF Confirmed, Fate
  <2>1. u # t
      BY <1>3
  <2>2. Working(u) /\ call[u].id \in Ids /\ call[u].id # call[t].id
      BY <1>1, <1>3, <2>1 DEF Working, IInv, Mine, Apart
  <2>3. request[call[u].id][call[u].attempt] \in Accepted
      BY <1>3, <2>1 DEF IInv, Confirmed, Fate
  <2> QED
      BY <1>3, <1>4, <2>2, <2>3
<1>9. Capped'
  <2>1. ~OverCap(asked[call[t].id].op, asked[call[t].id].amount)
      BY <1>1 DEF IInv, Mine
  <2> QED
      BY <1>4, <2>1 DEF IInv, Capped
<1>12. NoneTooMany'
  <2> SUFFICES ASSUME NEW i \in Ids, NEW a \in Slots \ Attempts
               PROVE  request'[i][a] = "unsent"
      BY DEF NoneTooMany
  <2>1. a # call[t].attempt /\ request[i][a] = "unsent"
      BY <1>1 DEF IInv, NoneTooMany
  <2> QED
      BY <1>1, <2>1
<1>10. RowsAreOrders'
  <2>1. \A k \in DOMAIN trades : trades[k].id # call[t].id /\ trades[k].id \in Ids
    <3> SUFFICES ASSUME NEW k \in DOMAIN trades
                 PROVE  trades[k].id # call[t].id /\ trades[k].id \in Ids
        OBVIOUS
    <3>1. k \in 1 .. Len(trades)
        BY <1>1
    <3>2. trades[k] \in [id: Ids, attempt: Attempts]
        BY <1>1, <3>1, ElementOfSeq
    <3> QED
        BY <1>1, <3>2 DEF Inserted
  <2> QED
      BY <1>4, <2>1 DEF IInv, RowsAreOrders, table
<1>11. ReportedIsRecorded'
    BY <1>2 DEF IInv, ReportedIsRecorded
<1>13. Holding'
    BY <1>1, <1>3 DEF IInv, Holding, Working
<1> QED
    BY <1>5, <1>6, <1>7, <1>8, <1>9, <1>10, <1>11, <1>12, <1>13 DEF IInv

(* The row is the first of its call and of an order that was answered.     *)
LEMMA InsertStep ==
    ASSUME IInv, TypeOK', NEW t \in Threads, Inserts(t)
    PROVE  IInv'
<1> DEFINE row == [id |-> call[t].id, attempt |-> call[t].attempt]
<1> USE DEF Inserts
<1>1. /\ call \in [Threads -> Calls] /\ Working(t) /\ made \in Nat
      /\ call[t].id \in Ids /\ call[t].attempt \in Attempts
      /\ call[t].id <= made /\ ~Inserted(call[t].id)
      /\ trades \in Seq([id: Ids, attempt: Attempts])
      /\ durable \in 0 .. Len(trades)
      /\ Fate(t) \in Accepted
  <2>1. /\ call \in [Threads -> Calls] /\ made \in 0 .. MaxCalls
        /\ trades \in Seq([id: Ids, attempt: Attempts])
        /\ durable \in 0 .. Len(trades)
      BY DEF IInv, TypeOK
  <2>2. call[t] \in Calls
      BY <2>1
  <2>3. call[t].attempt \in Attempts
      BY <2>2 DEF Calls
  <2>4. made \in Nat
      BY <2>1, LiveAssumption
  <2>5. Working(t) /\ ~InsideSave(t)
      BY DEF Working, InsideSave
  <2>6. /\ call[t].id \in Ids /\ call[t].id <= made
        /\ ~Inserted(call[t].id)
      BY <2>5 DEF IInv, Mine
  <2>7. Fate(t) \in Accepted
      BY DEF IInv, Confirmed
  <2> QED
      BY <2>1, <2>3, <2>4, <2>5, <2>6, <2>7
<1>2. row \in [id: Ids, attempt: Attempts]
    BY <1>1
<1>2a. row.id = call[t].id /\ request[row.id][row.attempt] \in Accepted
    BY <1>1 DEF row, Fate
<1> HIDE DEF row
<1>3. trades' = Append(trades, row)
    BY DEF row
<1>4. /\ DOMAIN trades = 1 .. Len(trades) /\ Len(trades) \in Nat
      /\ DOMAIN trades' = 1 .. Len(trades) + 1
      /\ \A k \in DOMAIN trades : trades'[k] = trades[k]
      /\ trades'[Len(trades) + 1] = row
    BY <1>1, <1>2, <1>3
<1>5. /\ \A i : Inserted(i)' <=> Inserted(i) \/ i = call[t].id
      /\ \A i : Recorded(i)' <=> Recorded(i)
  <2>1. \A i : Inserted(i)' <=> Inserted(i) \/ i = call[t].id
      BY <1>2a, <1>4 DEF Inserted
  <2>2. \A i : Recorded(i)' <=> Recorded(i)
      BY <1>1, <1>4 DEF Recorded
  <2> QED
      BY <2>1, <2>2
<1>6. /\ \A u \in Threads : u # t => call'[u] = call[u]
      /\ call'[t].at = "commit" /\ call'[t].id = call[t].id
    BY <1>1 DEF Calls
<1>7. \A u \in Threads : Working(u) /\ u # t => call[u].id # call[t].id
    BY <1>1 DEF IInv, Apart
<1>8. \A u \in Threads : Working(u)' => Working(u) /\ call'[u].id = call[u].id
    BY <1>1, <1>6 DEF Working
<1>9. Mine'
  <2> SUFFICES ASSUME NEW u \in Threads, Working(u)'
               PROVE  /\ call'[u].id \in Ids
                      /\ call'[u].id <= made'
                      /\ outcome'[call'[u].id] = "open"
                      /\ ~InsideSave(u)' => ~(Inserted(call[u].id)')
                      /\ call'[u].at = "commit" => Inserted(call[u].id)'
                      /\ call'[u].at = "recorded" => Recorded(call[u].id)'
                      /\ ~OverCap(asked'[call'[u].id].op, asked'[call'[u].id].amount)
      BY DEF Mine, OverCap
  <2>1. CASE u = t
      BY <1>1, <1>5, <1>6, <1>8, <2>1 DEF IInv, Mine, InsideSave
  <2>2. CASE u # t
      BY <1>5, <1>6, <1>7, <1>8, <2>2 DEF IInv, Mine, InsideSave
  <2> QED
      BY <2>1, <2>2
<1>10. Apart'
    BY <1>8 DEF IInv, Apart
<1>11. Fresh'
  <2> SUFFICES ASSUME NEW i \in Ids, i > made PROVE i # call[t].id
      BY <1>5 DEF IInv, Fresh
  <2> QED
      BY <1>1 DEF Ids
<1>12. Confirmed'
    BY <1>6 DEF IInv, Confirmed, Fate
<1>13. Capped' /\ NoneTooMany'
    BY DEF IInv, Capped, NoneTooMany
<1>14. RowsAreOrders'
  <2>1. \A k \in DOMAIN trades : trades[k].id # row.id
      BY <1>1, <1>2a DEF Inserted
  <2> QED
      BY <1>4, <1>2a, <2>1 DEF IInv, RowsAreOrders
<1>15. ReportedIsRecorded'
    BY <1>5 DEF IInv, ReportedIsRecorded
<1>16. Holding'
    BY <1>6 DEF IInv, Holding
<1> QED
    BY <1>9, <1>10, <1>11, <1>12, <1>13, <1>14, <1>15, <1>16 DEF IInv

(* A commit makes every row durable and takes none back.                   *)
LEMMA CommitKeeps ==
    ASSUME IInv, UNCHANGED <<outcome, request, trades>>, durable' = Len(trades)
    PROVE  /\ \A i : Inserted(i)' <=> Inserted(i)
           /\ \A i : Recorded(i) => Recorded(i)'
           /\ \A i : Inserted(i) => Recorded(i)'
           /\ RowsAreOrders' /\ ReportedIsRecorded'
<1>1. DOMAIN trades = 1 .. Len(trades) /\ Len(trades) \in Nat /\ durable \in 0 .. Len(trades)
    BY DEF IInv, TypeOK
<1>2. /\ \A i : Inserted(i)' <=> Inserted(i)
      /\ \A i : Inserted(i) => Recorded(i)'
      /\ \A i : Recorded(i) => Recorded(i)'
    BY <1>1 DEF Inserted, Recorded
<1>3. RowsAreOrders'
    BY DEF IInv, RowsAreOrders
<1>4. ReportedIsRecorded'
    BY <1>2 DEF IInv, ReportedIsRecorded
<1> QED
    BY <1>2, <1>3, <1>4

(* The row that was inserted is durable: it has not been lost in between.  *)
LEMMA CommitStep ==
    ASSUME IInv, TypeOK', NEW t \in Threads, Commits(t)
    PROVE  IInv'
<1> USE DEF Commits
<1>1. call \in [Threads -> Calls] /\ Working(t)
    BY DEF IInv, TypeOK, Working
<1>2. /\ \A i : Inserted(i)' <=> Inserted(i)
      /\ \A i : Recorded(i) => Recorded(i)'
      /\ \A i : Inserted(i) => Recorded(i)'
      /\ RowsAreOrders' /\ ReportedIsRecorded'
    BY CommitKeeps
<1>3. /\ \A u \in Threads : u # t => call'[u] = call[u]
      /\ call'[t].at = "recorded" /\ call'[t].id = call[t].id
    BY <1>1 DEF Calls
<1>4. \A u \in Threads : Working(u)' => Working(u) /\ call'[u].id = call[u].id
    BY <1>1, <1>3 DEF Working
<1>5. Mine'
    BY <1>2, <1>3, <1>4 DEF IInv, Mine, InsideSave
<1>6. Apart' /\ Holding'
    BY <1>3, <1>4 DEF IInv, Apart, Holding
<1>7. Fresh' /\ Capped' /\ NoneTooMany'
    BY <1>2 DEF IInv, Fresh, Capped, NoneTooMany
<1>8. Confirmed'
    BY <1>3 DEF IInv, Confirmed, Fate
<1> QED
    BY <1>2, <1>5, <1>6, <1>7, <1>8 DEF IInv

LEMMA OthersCommitStep ==
    ASSUME IInv, TypeOK', OthersCommit
    PROVE  IInv'
<1> USE DEF OthersCommit
<1>1. /\ \A i : Inserted(i)' <=> Inserted(i)
      /\ \A i : Recorded(i) => Recorded(i)'
      /\ RowsAreOrders' /\ ReportedIsRecorded'
    BY CommitKeeps
<1>2. Mine' /\ Apart' /\ Holding' /\ Confirmed'
    BY <1>1 DEF IInv, Mine, Apart, Holding, Confirmed, Working, InsideSave, Fate
<1>3. Fresh' /\ Capped' /\ NoneTooMany'
    BY <1>1 DEF IInv, Fresh, Capped, NoneTooMany
<1> QED
    BY <1>1, <1>2, <1>3 DEF IInv

LEMMA ThreadStep ==
    ASSUME IInv, TypeOK', NEW t \in Threads, Step(t)
    PROVE  IInv'
<1> USE DEF Rest
<1>1. /\ call \in [Threads -> Calls] /\ call' \in [Threads -> Calls]
      /\ call[t].at \notin {"idle", "enter"} => lock = t
    BY DEF IInv, TypeOK, Holding
<1>3. CASE Enter(t)
  <2>1. /\ Working(t) /\ UNCHANGED Rest /\ call'[t].id = call[t].id
        /\ call'[t].at = "post"
        /\ \A u \in Threads \ {t} : call'[u] = call[u]
        /\ call[t].at \notin {"commit", "recorded"}
        /\ call'[t].at \notin {"commit", "recorded"}
        /\ lock \in {t, NoThread} /\ lock' = t
    BY <1>1, <1>3 DEF Enter, table, Working, Calls
  <2> QED
    BY <2>1, MoveWithinCall
<1>4. CASE Answered(t)
  <2>1. /\ Working(t) /\ UNCHANGED Rest /\ call'[t].id = call[t].id
        /\ \A u \in Threads \ {t} : call'[u] = call[u]
        /\ call[t].at \notin {"commit", "recorded"}
        /\ call'[t].at \notin {"commit", "recorded"}
        /\ lock \in {t, NoThread} /\ lock' = t
    BY <1>1, <1>4 DEF Answered, table, Working, Calls
  <2>2. request[call'[t].id][call'[t].attempt] \in Accepted
    BY <1>1, <1>4 DEF Answered, Answers, Fate, Calls
  <2> QED
    BY <2>1, <2>2, MoveWithinCall
<1>5. CASE TryAgain(t)
  <2>1. /\ Working(t) /\ UNCHANGED Rest /\ call'[t].id = call[t].id
        /\ call'[t].at = "post"
        /\ \A u \in Threads \ {t} : call'[u] = call[u]
        /\ call[t].at \notin {"commit", "recorded"}
        /\ call'[t].at \notin {"commit", "recorded"}
        /\ lock \in {t, NoThread} /\ lock' = t
    BY <1>1, <1>5 DEF TryAgain, table, Working, Calls
  <2> QED
    BY <2>1, MoveWithinCall
<1>6. ASSUME \/ \E fails \in BOOLEAN : LooksUp(t, fails)
             \/ Unconfirmed(t)
      PROVE  IInv'
  <2>1. /\ Working(t) /\ UNCHANGED Rest /\ call'[t].id = call[t].id
        /\ call'[t].attempt = call[t].attempt
        /\ \A u \in Threads \ {t} : call'[u] = call[u]
        /\ call[t].at = "verify"
        /\ call[t].at \notin {"commit", "recorded"}
        /\ call'[t].at \notin {"commit", "recorded"}
        /\ lock \in {t, NoThread} /\ lock' = t
    BY <1>1, <1>6 DEF LooksUp, Unconfirmed, table, Working, Calls
  <2>2. request[call'[t].id][call'[t].attempt] \in Accepted
    BY <2>1 DEF IInv, Confirmed, Fate
  <2> QED
    BY <2>1, <2>2, MoveWithinCall
<1>7. ASSUME \/ Raises(t) \/ SeenCancelled(t) \/ InsertFails(t)
             \/ \E lost \in BOOLEAN : CommitFails(t, lost)
      PROVE  IInv'
  <2>1. /\ Working(t) /\ call[t].at # "enter" /\ Returns(t, "none")
        /\ trades' \in {trades, Committed} /\ durable' = durable
        /\ UNCHANGED <<asked, request, made, restarts>>
    BY <1>7 DEF Raises, SeenCancelled, InsertFails, CommitFails, Working, table
  <2> QED
    BY <2>1, ReturnStep
<1>8. CASE Post(t)
    BY <1>8, PostStep
<1>9. CASE Inserts(t)
    BY <1>9, InsertStep
<1>10. CASE Commits(t)
    BY <1>10, CommitStep
<1>11. CASE Reports(t)
  <2>1. /\ Working(t) /\ call[t].at # "enter" /\ Returns(t, "filled")
        /\ trades' = trades /\ durable' = durable
        /\ UNCHANGED <<asked, request, made, restarts>>
    BY <1>11 DEF Reports, Working, table
  <2>2. Recorded(call[t].id)
    BY <1>11 DEF Reports, IInv, Mine, Working
  <2> QED
    BY <2>1, <2>2, ReturnStep
<1> QED
    BY <1>3, <1>4, <1>5, <1>6, <1>7, <1>8, <1>9, <1>10, <1>11 DEF Step

(* A new call takes the next number; over the cap it ends at once.         *)
LEMMA CallStep ==
    ASSUME IInv, TypeOK', NEW t \in Threads, NEW op \in {"buy", "sell"},
           NEW amount \in Nat, Call(t, op, amount)
    PROVE  IInv'
<1> DEFINE n == made + 1
<1>1. /\ n \in Ids /\ made \in Nat /\ made' = n /\ ~Working(t)
      /\ call \in [Threads -> Calls]
      /\ outcome \in [Ids -> {"open", "none", "filled"}]
      /\ asked \in [Ids -> [op: {"buy", "sell"}, amount: Nat]]
    BY LiveAssumption DEF IInv, TypeOK, Call, Ids, Working
<1>2. /\ outcome[n] = "open" /\ ~Inserted(n)
      /\ \A a \in Slots : request[n][a] = "unsent"
    BY <1>1 DEF IInv, Fresh
<1>3. \A i : (Inserted(i)' <=> Inserted(i)) /\ (Recorded(i)' <=> Recorded(i))
    BY DEF Call, Inserted, Recorded, table
<1>4. /\ asked'[n] = [op |-> op, amount |-> amount]
      /\ \A i \in Ids : i # n => asked'[i] = asked[i] /\ outcome'[i] = outcome[i]
    BY <1>1 DEF Call
<1>5. \A u \in Threads : u # t => call'[u] = call[u]
    BY <1>1 DEF Call
<1>6. \A u \in Threads : Working(u) => call[u].id <= made /\ call[u].id \in Ids /\ call[u].id # n
    BY <1>1 DEF IInv, Mine, Ids
<1>7. Working(t)' => /\ call'[t].id = n /\ call'[t].at = "enter"
                     /\ outcome'[n] = "open" /\ ~OverCap(op, amount)
    BY <1>1, <1>2 DEF Call, Working, Outside
<1>8. \A u \in Threads : Working(u)' /\ u # t => Working(u) /\ call'[u] = call[u]
    BY <1>5 DEF Working
<1>9. Mine'
  <2> SUFFICES ASSUME NEW u \in Threads, Working(u)'
               PROVE  /\ call'[u].id \in Ids
                      /\ call'[u].id <= made'
                      /\ outcome'[call'[u].id] = "open"
                      /\ ~InsideSave(u)' => ~(Inserted(call[u].id)')
                      /\ call'[u].at = "commit" => Inserted(call[u].id)'
                      /\ call'[u].at = "recorded" => Recorded(call[u].id)'
                      /\ ~OverCap(asked'[call'[u].id].op, asked'[call'[u].id].amount)
      BY DEF Mine, OverCap
  <2>1. CASE u = t
      BY <1>1, <1>2, <1>3, <1>4, <1>7, <2>1 DEF InsideSave
  <2>2. CASE u # t
    <3>1. /\ Working(u) /\ call'[u] = call[u] /\ call[u].id # n /\ call[u].id \in Ids
          /\ call[u].id <= made'
        BY <1>1, <1>6, <1>8, <2>2 DEF Ids
    <3> QED
        BY <1>3, <1>4, <3>1 DEF IInv, Mine, InsideSave
  <2> QED
      BY <2>1, <2>2
<1>10. Apart'
    BY <1>6, <1>7, <1>8 DEF IInv, Apart
<1>11. Fresh'
  <2> SUFFICES ASSUME NEW i \in Ids, i > made' PROVE i > made /\ i # n
      BY <1>3, <1>4 DEF IInv, Fresh, Call
  <2> QED
      BY <1>1 DEF Ids
<1>12. Confirmed'
  <2> SUFFICES ASSUME NEW u \in Threads, call'[u].at \in {"verify", "settle"}
               PROVE  request[call'[u].id][call'[u].attempt] \in Accepted
      BY DEF Confirmed, Fate, Call
  <2>1. u # t
      BY <1>7 DEF Working
  <2> QED
      BY <1>5, <2>1 DEF IInv, Confirmed, Fate
<1>13. Capped'
  <2> SUFFICES ASSUME NEW i \in Ids, i # n PROVE asked'[i] = asked[i]
      BY <1>2 DEF IInv, Capped, Call
  <2> QED
      BY <1>4
<1>14. RowsAreOrders' /\ NoneTooMany'
    BY DEF IInv, RowsAreOrders, NoneTooMany, Call, table
<1>15. ReportedIsRecorded'
    BY <1>2, <1>3, <1>4, <1>1 DEF IInv, ReportedIsRecorded, Call
<1>16. Holding'
    BY <1>5, <1>7 DEF IInv, Holding, Call, Working
<1> QED
    BY <1>9, <1>10, <1>11, <1>12, <1>13, <1>14, <1>15, <1>16 DEF IInv

(* The exchange never makes an order of nothing, nor unmakes one.          *)
LEMMA ExchangeStep ==
    ASSUME IInv, TypeOK', Exchange
    PROVE  IInv'
<1>1. PICK i \in Ids, a \in Slots, f \in Fates :
         Decides(i, a, f) \/ (Settles(i, a, f) /\ f \in Accepted)
    BY DEF Exchange, Fates, Accepted
<1>2. /\ UNCHANGED <<lock, call, asked, outcome, trades, durable, made, restarts>>
      /\ request \in [Ids -> [Slots -> Fates]]
      /\ request' = [request EXCEPT ![i][a] = f]
    BY <1>1 DEF Decides, Settles, IInv, TypeOK, table
<1>3. request[i][a] # "unsent" /\ (request[i][a] \in Accepted => f \in Accepted)
    BY <1>1 DEF Decides, Settles, Accepted
<1>4. \A j, b : j \in Ids /\ b \in Slots =>
         /\ request[j][b] \in Accepted => request'[j][b] \in Accepted
         /\ request[j][b] = "unsent" => request'[j][b] = "unsent"
    BY <1>2, <1>3
<1>5. \A j : (Inserted(j)' <=> Inserted(j)) /\ (Recorded(j)' <=> Recorded(j))
    BY <1>2 DEF Inserted, Recorded
<1>6. Mine' /\ Apart' /\ Holding'
    BY <1>2, <1>5 DEF IInv, Mine, Apart, Holding, Working, InsideSave
<1>7. Fresh'
    BY <1>2, <1>4, <1>5 DEF IInv, Fresh
<1>8. Confirmed'
  <2>1. \A t \in Threads : call[t].at # "idle" =>
           call[t].id \in Ids /\ call[t].attempt \in Slots
      BY AttemptsAreSlots DEF IInv, Mine, Working, TypeOK, Calls
  <2> QED
      BY <1>2, <1>4, <2>1 DEF IInv, Confirmed, Fate
<1>9. Capped' /\ NoneTooMany'
    BY <1>2, <1>4 DEF IInv, Capped, NoneTooMany
<1>10. RowsAreOrders'
  <2>1. ASSUME NEW k \in DOMAIN trades
        PROVE  trades[k].id \in Ids /\ trades[k].attempt \in Attempts
    <3>1. trades \in Seq([id: Ids, attempt: Attempts])
        BY DEF IInv, TypeOK
    <3>2. k \in 1 .. Len(trades)
        BY <3>1
    <3>3. trades[k] \in [id: Ids, attempt: Attempts]
        BY <3>1, <3>2, ElementOfSeq
    <3> QED
        BY <3>3
  <2> QED
      BY <1>2, <1>4, <2>1, AttemptsAreSlots DEF IInv, RowsAreOrders
<1>11. ReportedIsRecorded'
    BY <1>2, <1>5 DEF IInv, ReportedIsRecorded
<1> QED
    BY <1>6, <1>7, <1>8, <1>9, <1>10, <1>11 DEF IInv

LEMMA RestartStep ==
    ASSUME IInv, TypeOK', Restart
    PROVE  IInv'
<1>1. /\ UNCHANGED <<asked, outcome, request, durable, made>>
      /\ trades' = Committed
      /\ \A t \in Threads : ~Working(t)' /\ call'[t].at = "idle"
    BY DEF Restart, Working, Outside
<1>2. /\ \A i : Inserted(i)' => Inserted(i)
      /\ \A i : Recorded(i)' <=> Recorded(i)
      /\ \A k \in DOMAIN trades' : k \in DOMAIN trades /\ trades'[k] = trades[k]
    BY <1>1, RowsAfterLoss DEF IInv
<1>3. Mine' /\ Apart' /\ Holding' /\ Confirmed'
    BY <1>1 DEF Mine, Apart, Holding, Confirmed
<1>4. Fresh' /\ Capped' /\ NoneTooMany'
    BY <1>1, <1>2 DEF IInv, Fresh, Capped, NoneTooMany
<1>5. RowsAreOrders'
    BY <1>1, <1>2 DEF IInv, RowsAreOrders
<1>6. ReportedIsRecorded'
    BY <1>1, <1>2 DEF IInv, ReportedIsRecorded
<1> QED
    BY <1>3, <1>4, <1>5, <1>6 DEF IInv

LEMMA StepIInv == IInv /\ [Next]_vars => IInv'
<1> SUFFICES ASSUME IInv, [Next]_vars PROVE IInv'
    OBVIOUS
<1>1. TypeOK'
    BY TypeStep DEF IInv
<1>2. ASSUME NEW t \in Threads, NEW op \in {"buy", "sell"}, NEW amount \in Nat,
             Call(t, op, amount)
      PROVE  IInv'
    BY <1>1, <1>2, CallStep
<1>3. CASE \E t \in Threads : Step(t)
    BY <1>1, <1>3, ThreadStep
<1>4. CASE Exchange
    BY <1>1, <1>4, ExchangeStep
<1>5. CASE Restart
    BY <1>1, <1>5, RestartStep
<1>6. CASE OthersCommit
    BY <1>1, <1>6, OthersCommitStep
<1>7. CASE UNCHANGED vars
    BY <1>1, <1>7 DEF vars, table, IInv, Mine, Apart, Holding, Fresh, Confirmed, Capped,
       NoneTooMany, RowsAreOrders, ReportedIsRecorded, Working, InsideSave, Inserted,
       Recorded, Fate
<1> QED
    BY LiveAssumption, <1>2, <1>3, <1>4, <1>5, <1>6, <1>7 DEF Next, Finished

LEMMA IInvHolds == Spec => []IInv
    BY InitIInv, StepIInv, PTL DEF Spec

----------------------------------------------------------------------------
(* Theorems                                                                *)

(* All values stay of their types; in particular no attempt goes past      *)
(* _MAX_RETRIES and no look-up past max_retries.                           *)
THEOREM TypeCorrect == Spec => []TypeOK
    BY IInvHolds, PTL DEF IInv

(* A row is of an order the exchange accepted, one per call, with any      *)
(* number of threads, retries, late answers, failed commits and restarts.  *)
THEOREM RowsAreRealOrders == Spec => []RowsAreOrders
    BY IInvHolds, PTL DEF IInv

(* An order that was reported stays on record, whatever commits fail or    *)
(* lose rows, and whenever the process dies.                               *)
THEOREM ReportsAreRecords == Spec => []ReportedIsRecorded
    BY IInvHolds, PTL DEF IInv

LEMMA ProductGrows ==
    ASSUME NEW a \in Nat, NEW b \in Nat, NEW c \in Nat, NEW d \in Nat, a <= b, c <= d
    PROVE  a * c <= b * d
<1>1. a * c <= b * c
    OBVIOUS
<1>2. b * c <= b * d
    OBVIOUS
<1>3. a * c \in Nat /\ b * c \in Nat /\ b * d \in Nat
    OBVIOUS
<1> QED
    BY <1>1, <1>2, <1>3

LEMMA ExposureFromInvariant == IInv => ExposureIsBounded
<1> SUFFICES ASSUME IInv, NEW i \in Ids, asked[i].op = "buy"
             PROVE  Cardinality(Sent(i)) * asked[i].amount <= MaxAttempts * HardCap
    BY DEF ExposureIsBounded
<1>1. /\ MaxAttempts \in Nat /\ HardCap \in Nat /\ asked[i].amount \in Nat
    BY LiveAssumption DEF IInv, TypeOK
<1>2. IsFiniteSet(Attempts) /\ Cardinality(Attempts) = MaxAttempts
    BY <1>1, FS_Interval DEF Attempts
<1>3. Cardinality(Sent(i)) \in Nat /\ Cardinality(Sent(i)) <= MaxAttempts
  <2>1. Sent(i) \subseteq Attempts
      BY DEF IInv, NoneTooMany, Sent
  <2> QED
      BY <1>2, <2>1, FS_Subset, FS_CardinalityType
<1>4. CASE asked[i].amount <= HardCap
    BY <1>1, <1>3, <1>4, ProductGrows
<1>5. CASE asked[i].amount > HardCap
  <2>1. Sent(i) = {}
      BY <1>5 DEF IInv, Capped, OverCap, Sent
  <2>2. Cardinality(Sent(i)) = 0
      BY <2>1, FS_EmptySet
  <2>3. 0 * asked[i].amount = 0 /\ MaxAttempts * HardCap \in Nat
      BY <1>1
  <2> QED
      BY <2>2, <2>3
<1> QED
    BY <1>1, <1>4, <1>5

(* Whatever is retried and however late it is accepted, a call to buy      *)
(* costs at most _MAX_RETRIES times the hard cap.                          *)
THEOREM ExposureBounded == Spec => []ExposureIsBounded
    BY IInvHolds, ExposureFromInvariant, PTL

=============================================================================
