--------------------------- MODULE EmergencyQueue ---------------------------
(***************************************************************************)
(* The table emergency_close_queue and the processor that drains it        *)
(* (emergencyCloseProcessor.js).  A position whose market close failed is  *)
(* queued as a row; every tick takes the least tried unresolved rows and   *)
(* handles them one after the other: ask the exchange what is held, close  *)
(* it at market, record the outcome.  Every request is an await, and in    *)
(* between the position may end or a new one open, the account may be      *)
(* disconnected and the process may die.                                   *)
(*                                                                         *)
(* A market is one user's position in one symbol.  Its positions are       *)
(* numbered 1, 2, ... as they open, and a row is queued for one of them.   *)
(***************************************************************************)
EXTENDS Integers, Sequences, FiniteSets

CONSTANTS
    Market,        \* the markets
    Invalid,       \* those the exchange refuses with a permanent error
    Unreachable,   \* those whose requests all fail (a row of the other exchange)
    MaxRows,       \* bound on the rows ever queued
    BatchSize,     \* MAX_ROWS_PER_TICK
    MaxAttempts,   \* MAX_ATTEMPTS
    MaxOpens,      \* bound on the positions ever opened, per market
    MaxQty,        \* bound on the quantity held
    MaxRestarts,   \* bound on restarts in the middle of a tick
    LossyReply,    \* may the answer to an executed request be lost?
    EmptyReply,    \* may positionRisk answer an empty list though something is held?
    MayDisconnect  \* may a user remove the exchange account?

ASSUME QueueBounds ==
    /\ MaxRows \in Nat /\ BatchSize \in Nat \ {0} /\ MaxAttempts \in Nat \ {0}
    /\ MaxOpens \in Nat /\ MaxQty \in Nat \ {0} /\ MaxRestarts \in Nat
ASSUME QueueSwitches == {LossyReply, EmptyReply, MayDisconnect} \subseteq BOOLEAN

VARIABLES
    qty,      \* positionAmt by market: long above 0, short below
    opened,   \* how many positions the market has seen
    creds,    \* the markets whose exchange account is connected
    row,      \* the queue, in the order of the row ids
    pc,       \* where the processor waits
    due,      \* the rows of this tick still to handle
    cur,      \* the row being handled
    amount,   \* positionAmt as the exchange reported it
    restarts,
    horizon,  \* history: the latest row when the tick selected its rows
    unseen    \* history: by row, what its position holds beyond the last answer

market    == <<qty, opened, creds>>
processor == <<pc, due, cur, amount, horizon>>
vars      == <<market, row, unseen, processor, restarts>>
-----------------------------------------------------------------------------
NoRow == 0
Ids   == DOMAIN row

(* resolved_by; "waiting" is the null of an unresolved row.                *)
Resolution == {"flat", "closed", "permanent", "gave_up"}

(* "turn" for the next row, "asked" and "answered" for positionRisk,       *)
(* "posted" and "filled" for the market close.                             *)
Pc == {"idle", "turn", "asked", "answered", "posted", "filled"}

Row == [market : Market, position : 1 .. MaxOpens, attempts : 0 .. MaxAttempts - 1,
        by : Resolution \cup {"waiting"}]

Signed      == -MaxQty .. MaxQty
Size(q)     == IF q < 0 THEN -q ELSE q
Grown(q)    == IF q < 0 THEN q - 1 ELSE q + 1
Same(q, r)  == (q > 0 /\ r > 0) \/ (q < 0 /\ r < 0)
Less(q, r)  == IF Size(q) <= Size(r) THEN 0 ELSE q - r    \* q reduced by at most r

TypeOK ==
    /\ qty \in [Market -> Signed] /\ opened \in [Market -> 0 .. MaxOpens]
    /\ creds \in SUBSET Market
    /\ row \in Seq(Row) /\ Len(row) <= MaxRows /\ unseen \in [Ids -> Nat]
    /\ pc \in Pc /\ due \in SUBSET Ids /\ cur \in Ids \cup {NoRow}
    /\ amount \in Signed /\ restarts \in 0 .. MaxRestarts /\ horizon \in 0 .. Len(row)

Init ==
    /\ qty = [m \in Market |-> 0] /\ opened = [m \in Market |-> 0]
    /\ creds = Market
    /\ row = <<>> /\ unseen = <<>>
    /\ pc = "idle" /\ due = {} /\ cur = NoRow /\ amount = 0
    /\ restarts = 0 /\ horizon = 0
-----------------------------------------------------------------------------
(* The markets.                                                            *)

Open(m) ==
    /\ qty[m] = 0 /\ opened[m] < MaxOpens
    /\ \E q \in {1, -1} : qty' = [qty EXCEPT ![m] = q]
    /\ opened' = [opened EXCEPT ![m] = @ + 1]
    /\ UNCHANGED <<creds, row, unseen, processor, restarts>>

Queued(i, m) == row[i].market = m /\ row[i].position = opened[m]

\* An add-on to the open position.
Grow(m) ==
    /\ qty[m] # 0 /\ Size(qty[m]) < MaxQty
    /\ qty' = [qty EXCEPT ![m] = Grown(@)]
    /\ unseen' = [i \in Ids |-> IF Queued(i, m) THEN unseen[i] + 1 ELSE unseen[i]]
    /\ UNCHANGED <<opened, creds, row, processor, restarts>>

\* Its stop triggers, or somebody closes it by hand.
EndElsewhere(m) ==
    /\ qty[m] # 0
    /\ qty' = [qty EXCEPT ![m] = 0]
    /\ UNCHANGED <<opened, creds, row, unseen, processor, restarts>>

\* The user removes the exchange account, or connects it again.
Reconnect(m) ==
    /\ MayDisconnect
    /\ creds' = IF m \in creds THEN creds \ {m} ELSE creds \cup {m}
    /\ UNCHANGED <<qty, opened, row, unseen, processor, restarts>>

(* Every attempt at a market close failed or went unanswered, so the       *)
(* position may be gone.  The decision_key names the seq that is closed    *)
(* and a seq is closed once: the insert is never ignored.  A position      *)
(* adopted again has another seq and may be queued again.                  *)
Enqueue(m) ==
    /\ opened[m] > 0 /\ Len(row) < MaxRows
    /\ row' = Append(row, [market |-> m, position |-> opened[m], attempts |-> 0, by |-> "waiting"])
    /\ unseen' = [i \in Ids \cup {Len(row) + 1} |-> IF i \in Ids THEN unseen[i] ELSE 0]
    /\ UNCHANGED <<market, processor, restarts>>
-----------------------------------------------------------------------------
(* The processor.                                                          *)
Waiting == {i \in Ids : row[i].by = "waiting"}

(* ORDER BY attempts ASC, id ASC.                                          *)
Before(i, j) ==
    \/ row[i].attempts < row[j].attempts
    \/ row[i].attempts = row[j].attempts /\ i < j

(* Faulty: the rows are taken in the order they were queued.               *)
Batch_ById == {i \in Waiting : Cardinality({j \in Waiting : j < i}) < BatchSize}

(* The rows of a tick: the first BatchSize unresolved ones.                *)
Batch == {i \in Waiting : Cardinality({j \in Waiting : Before(j, i)}) < BatchSize}

\* Faulty: resolved rows are selected as well.
TickBegin_AllRows ==
    /\ pc = "idle" /\ Waiting # {}
    /\ due' = Ids /\ horizon' = Len(row)
    /\ pc' = "turn"
    /\ UNCHANGED <<market, row, unseen, cur, amount, restarts>>

TickBegin ==
    /\ pc = "idle" /\ Waiting # {}
    /\ due' = Batch /\ horizon' = Len(row)
    /\ pc' = "turn"
    /\ UNCHANGED <<market, row, unseen, cur, amount, restarts>>

\* The next row in order: without an account it is passed over.
RowTaken ==
    /\ pc = "turn"
    /\ \E i \in due :
        /\ \A j \in due \ {i} : Before(i, j)
        /\ due' = due \ {i}
        /\ IF row[i].market \in creds
           THEN pc' = "asked" /\ cur' = i
           ELSE UNCHANGED <<pc, cur>>
    /\ UNCHANGED <<market, row, unseen, amount, restarts, horizon>>

TickEnd ==
    /\ pc = "turn" /\ due = {}
    /\ pc' = "idle"
    /\ UNCHANGED <<market, row, unseen, due, cur, amount, restarts, horizon>>

CurMarket == row[cur].market

(* The exchange answers positionRisk; the answer is on its way.  It may be *)
(* an empty list, which the processor takes for "nothing held", although   *)
(* the position is open (what reconciliation calls a stale poll).          *)
PositionRead ==
    /\ pc = "asked" /\ CurMarket \notin Unreachable
    /\ amount' = qty[CurMarket] \/ (EmptyReply /\ amount' = 0)
    /\ unseen' = [unseen EXCEPT ![cur] = Size(qty[CurMarket]) - Size(amount')]
    /\ pc' = "answered"
    /\ UNCHANGED <<market, row, due, cur, restarts, horizon>>

\* The row gets its outcome and the loop goes on with the next one.
Resolve(by) ==
    /\ row' = [row EXCEPT ![cur].by = by]
    /\ pc' = "turn" /\ cur' = NoRow /\ amount' = 0
    /\ UNCHANGED <<market, unseen, due, restarts, horizon>>

FoundFlat == pc = "answered" /\ amount = 0 /\ Resolve("flat")

\* A reduce-only market order over the reported quantity is sent.
ClosePosted ==
    /\ pc = "answered" /\ amount # 0
    /\ pc' = "posted"
    /\ UNCHANGED <<market, row, unseen, due, cur, amount, restarts, horizon>>

\* Reduce-only: never more than what is held is closed.
CloseFills ==
    /\ pc = "posted" /\ CurMarket \notin Invalid
    /\ Same(amount, qty[CurMarket])
    /\ qty' = [qty EXCEPT ![CurMarket] = Less(@, amount)]
    /\ pc' = "filled"
    /\ UNCHANGED <<opened, creds, row, unseen, due, cur, amount, restarts, horizon>>

RowClosed == pc = "filled" /\ Resolve("closed")

\* Error -2022: nothing is held on that side.
ReduceOnlyRejected ==
    pc = "posted" /\ ~Same(amount, qty[CurMarket]) /\ Resolve("flat")

PermanentError ==
    pc \in {"asked", "posted"} /\ CurMarket \in Invalid /\ Resolve("permanent")

\* A request fails, or its answer is lost.
RequestFails == pc \in {"asked", "posted"} \/ (LossyReply /\ pc \in {"answered", "filled"})

\* Faulty: an unanswered request is taken for "nothing held".
TransientError_Flat == RequestFails /\ Resolve("flat")

\* Faulty: attempts are not counted.
TransientError_Uncounted ==
    /\ RequestFails
    /\ pc' = "turn" /\ cur' = NoRow /\ amount' = 0
    /\ UNCHANGED <<market, row, unseen, due, restarts, horizon>>

\* Faulty: one attempt too many.
TransientError_OneMore ==
    /\ RequestFails
    /\ IF row[cur].attempts < MaxAttempts
       THEN /\ row' = [row EXCEPT ![cur].attempts = @ + 1]
            /\ pc' = "turn" /\ cur' = NoRow /\ amount' = 0
            /\ UNCHANGED <<market, unseen, due, restarts, horizon>>
       ELSE Resolve("gave_up")

(* Counted; the row of the last attempt is dead-lettered.                  *)
TransientError ==
    /\ RequestFails
    /\ IF row[cur].attempts + 1 < MaxAttempts
       THEN /\ row' = [row EXCEPT ![cur].attempts = @ + 1]
            /\ pc' = "turn" /\ cur' = NoRow /\ amount' = 0
            /\ UNCHANGED <<market, unseen, due, restarts, horizon>>
       ELSE Resolve("gave_up")

\* The process dies; the table survives.
Restart ==
    /\ pc # "idle" /\ restarts < MaxRestarts
    /\ restarts' = restarts + 1
    /\ pc' = "idle" /\ due' = {} /\ cur' = NoRow /\ amount' = 0
    /\ UNCHANGED <<market, row, unseen, horizon>>
-----------------------------------------------------------------------------
Process ==
    \/ TickBegin \/ RowTaken \/ TickEnd
    \/ PositionRead \/ FoundFlat \/ ClosePosted \/ CloseFills
    \/ RowClosed \/ ReduceOnlyRejected \/ PermanentError \/ TransientError

Next ==
    \/ \E m \in Market : Open(m) \/ Grow(m) \/ EndElsewhere(m) \/ Reconnect(m) \/ Enqueue(m)
    \/ Process
    \/ Restart

Spec == Init /\ [][Next]_vars

(* The timer ticks on, and every request ends in an answer or an error:    *)
(* the signer gives up on it after ten seconds.                            *)
FairSpec == Spec /\ WF_vars(Process)
-----------------------------------------------------------------------------
(* A row that was resolved is never touched again: no second market close  *)
(* is sent for it, not even when the process died or the answer to the     *)
(* first one was lost.                                                     *)
ResolvedFinal ==
    [][\A i \in Ids : row[i].by # "waiting" => row'[i] = row[i] /\ cur' # i]_vars

(* A row resolved as closed or flat leaves nothing of its position open    *)
(* but what the exchange did not report: what was added after it answered  *)
(* or, when it answered an empty list by mistake, all of it.  In between   *)
(* the position may have ended, reversed or grown, and a market close sent *)
(* earlier may have been executed without an answer.                       *)
DoneAsReported ==
    \A i \in Ids : \A m \in Market :
        row[i].by \in {"flat", "closed"} /\ Queued(i, m) => Size(qty[m]) <= unseen[i]

(* Least tried first: while a row that failed before is handled, every     *)
(* row queued by the time the tick began has had its first turn.  Rows     *)
(* that keep failing do not hold up the new ones.                          *)
FreshRowFirst ==
    cur # NoRow /\ row[cur].attempts > 0 =>
        \A q \in Waiting : q <= horizon => row[q].attempts > 0

(* Every row leaves the queue in the end, closed or dead-lettered,         *)
(* whatever the exchange answers and wherever the process dies.            *)
RowLeaves ==
    \A i \in 1 .. MaxRows :
        (i \in Waiting) ~> (i \notin Waiting)

(* What the comment over the selection promises: a fresh row gets its      *)
(* turn, however many other rows do not get done.  It does not hold: rows  *)
(* without an account are passed over uncounted, so they stay least tried  *)
(* and fill every batch.  (Accounts come and go only finitely often here.) *)
Reachable == {i \in Ids : row[i].market \in creds}
Fresh     == {i \in Waiting : row[i].attempts = 0}

FreshRowTurn ==
    <>[][UNCHANGED creds]_vars =>
        \A i \in 1 .. MaxRows : (i \in Fresh \cap Reachable) ~> (cur = i \/ i \notin Reachable)
=============================================================================
