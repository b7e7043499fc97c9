--------------------------- MODULE ProtectiveStop ---------------------------
(***************************************************************************)
(* One live Binance position and the stop-loss order that protects it.     *)
(*                                                                         *)
(* serverAT.js remembers the stop in pos.live.slOrderId.  Three            *)
(* asynchronous maintainers write that field: the DSL update               *)
(* (_updateLiveSL), the order-health check of the reconciliation pass      *)
(* (_checkOrderHealth) and the watchdog (_watchdogLiveNoSL).  A fourth     *)
(* routine, the exit (_closePosition and _handleLiveExit), cancels it.     *)
(* Nothing locks them against each other: every await lets the others run, *)
(* so each of their steps between two awaits is an action here.            *)
(*                                                                         *)
(* A stop order is its number: the exchange numbers orders 1, 2, 3, ... in *)
(* the order it accepts them, and 0 stands for the code's null.  A stop    *)
(* price is a level, a larger one is tighter.                              *)
(***************************************************************************)
EXTENDS Naturals, FiniteSets

CONSTANTS
    MaxId,          \* bound on the stop orders the exchange ever accepts
    MaxLevel,       \* bound on the stop levels
    DslAttempts,    \* placements one DSL update tries (DSL_SL_RETRIES.length + 1)
    CloseAttempts,  \* market closes one exit tries (CLOSE_RETRIES.length + 1)
    MaxRemovals,    \* bound on the stops removed by somebody else
    MaxRestarts,    \* bound on the restarts of the process
    LossyReply,     \* may the reply to an accepted order be lost (a timeout)?
    LossyCancel     \* may a cancel leave the order resting?

ASSUME BoundsAssumption ==
    /\ MaxId \in Nat \ {0} /\ MaxLevel \in Nat \ {0}
    /\ DslAttempts \in Nat \ {0} /\ CloseAttempts \in Nat \ {0}
    /\ MaxRemovals \in Nat /\ MaxRestarts \in Nat
ASSUME LossAssumption == LossyReply \in BOOLEAN /\ LossyCancel \in BOOLEAN

VARIABLES
    held,       \* the exchange holds the position
    resting,    \* the stop orders resting on the exchange
    lastId,     \* the number of the latest stop order accepted
    removed,    \* history: stops triggered or removed by somebody else
    pulled,     \* history: cancels this process sent for a stop, by number
    tracked,    \* the position is in _positions with status OPEN
    liveStatus, \* pos.live.status
    slId,       \* pos.live.slOrderId
    staleId,    \* pos.live.staleSlOrderId
    sl,         \* pos.sl, the level the server wants
    queued,     \* pos._slQueuedSL
    task,       \* the run in progress of each maintainer
    seen,       \* the open orders the health check fetched
    exit,       \* the run in progress of the exit
    row,        \* the position's row in at_positions
    restarts    \* how often the process restarted

exchange == <<held, resting, lastId, removed>>
record   == <<tracked, liveStatus, slId, staleId, sl>>
vars     == <<exchange, pulled, record, queued, task, seen, exit, row, restarts>>
-----------------------------------------------------------------------------
NoId       == 0
EntryStop  == 1    \* placed with the entry; its client id starts with sl_
Ids        == 1 .. MaxId
IdOrNone   == 0 .. MaxId
Levels     == 1 .. MaxLevel
Maintainer == {"dsl", "health", "watchdog"}
LegStatus  == {"LIVE", "LIVE_NO_SL", "CLOSED"}

(* Where a maintainer waits: "query" for its turn and the exchange's order *)
(* list, "verdict" with the list in hand, "place" for an order to reach    *)
(* the exchange, "reply" for the answer, "cancel" for a cancel.            *)
TaskPc  == {"idle", "query", "verdict", "place", "reply", "cancel"}
ExitPc  == {"idle", "cancel", "close", "wrap"}

(* What an exit does to the exchange: close at market, only cancel the     *)
(* stop (RECON_PHANTOM, RECON_EXCHANGE_CLOSED, HIT_TP), or leave the stop  *)
(* alone (HIT_SL, EXTERNAL_CLOSE).                                         *)
ExitKind == {"MARKET", "CANCEL_STOP", "LEAVE_STOP"}

IdleTask == [pc |-> "idle", old |-> NoId, new |-> NoId, level |-> 1, tries |-> 0]
IdleExit == [pc |-> "idle", kind |-> "MARKET", old |-> NoId, tries |-> 0]
NoRow    == [st |-> "NONE", live |-> "CLOSED", slId |-> NoId, staleId |-> NoId, sl |-> 1]

TaskRun == [pc : TaskPc, old : IdOrNone, new : IdOrNone,
            level : Levels, tries : 0 .. DslAttempts - 1]
ExitRun == [pc : ExitPc, kind : ExitKind, old : IdOrNone, tries : 0 .. CloseAttempts - 1]
Row     == [st : {"NONE", "OPEN", "DONE"}, live : LegStatus,
            slId : IdOrNone, staleId : IdOrNone, sl : Levels]

TypeOK ==
    /\ held \in BOOLEAN /\ tracked \in BOOLEAN
    /\ resting \in SUBSET Ids /\ removed \in SUBSET Ids /\ pulled \in SUBSET Ids
    /\ lastId \in IdOrNone
    /\ liveStatus \in LegStatus
    /\ slId \in IdOrNone /\ staleId \in IdOrNone
    /\ sl \in Levels /\ queued \in 0 .. MaxLevel
    /\ task \in [Maintainer -> TaskRun]
    /\ seen \in SUBSET Ids
    /\ exit \in ExitRun /\ row \in Row
    /\ restarts \in 0 .. MaxRestarts

(* _executeLiveEntry leaves a position LIVE with its entry stop, or        *)
(* LIVE_NO_SL without one.                                                 *)
Init ==
    /\ held = TRUE /\ tracked = TRUE
    /\ \/ slId = EntryStop /\ liveStatus = "LIVE"
       \/ slId = NoId /\ liveStatus = "LIVE_NO_SL"
    /\ lastId = EntryStop
    /\ resting = {slId} \ {NoId}
    /\ removed = {} /\ pulled = {}
    /\ staleId = NoId /\ sl = 1 /\ queued = 0
    /\ task = [t \in Maintainer |-> IdleTask]
    /\ seen = {} /\ exit = IdleExit
    /\ row = [st |-> "OPEN", live |-> liveStatus, slId |-> slId, staleId |-> NoId, sl |-> 1]
    /\ restarts = 0
-----------------------------------------------------------------------------
(* The exchange.                                                           *)

\* A resting stop triggers and closes the position.
StopTriggers(i) ==
    /\ held /\ i \in resting
    /\ Cardinality(removed) < MaxRemovals
    /\ held' = FALSE
    /\ resting' = resting \ {i}
    /\ removed' = removed \cup {i}
    /\ UNCHANGED <<lastId, pulled, record, queued, task, seen, exit, row, restarts>>

\* Somebody else (the user, the exchange) removes a resting stop.
StopRemoved(i) ==
    /\ i \in resting
    /\ Cardinality(removed) < MaxRemovals
    /\ resting' = resting \ {i}
    /\ removed' = removed \cup {i}
    /\ UNCHANGED <<held, lastId, pulled, record, queued, task, seen, exit, row, restarts>>

\* The position ends without its stop: by hand, liquidation, another close.
ClosedElsewhere ==
    /\ held
    /\ held' = FALSE
    /\ UNCHANGED <<resting, lastId, removed, pulled, record, queued, task, seen, exit,
                   row, restarts>>

\* An order a maintainer sent is accepted and rests; its reply is on the way.
PlaceLands(t) ==
    /\ task[t].pc = "place"
    /\ lastId < MaxId
    /\ lastId' = lastId + 1
    /\ resting' = resting \cup {lastId + 1}
    /\ task' = [task EXCEPT ![t].pc = "reply", ![t].new = lastId + 1]
    /\ UNCHANGED <<held, removed, pulled, record, queued, seen, exit, row, restarts>>

(* The two ways a placement comes back: with the order, or as an error,    *)
(* when it never reached the book or its answer got lost.                  *)
PlaceOk(t)     == task[t].pc = "reply"
PlaceFailed(t) == task[t].pc = "place" \/ (LossyReply /\ task[t].pc = "reply")

(* A cancel (_cancelOrderSafe).  Its result is ignored by every caller: a  *)
(* transient error of the algo endpoint followed by "Unknown order" of the *)
(* regular one counts as success and leaves the order resting.             *)
Cancel(i) ==
    /\ \/ resting' = resting \ {i}
       \/ LossyCancel /\ resting' = resting
    /\ pulled' = pulled \cup ({i} \ {NoId})
-----------------------------------------------------------------------------
(* The record.  _persistPosition writes it as it is in memory; after the   *)
(* close pos.status is the exit type, so the row is saved as not OPEN.     *)

Persist == row' = [st |-> IF tracked THEN "OPEN" ELSE "DONE",
                   live |-> liveStatus', slId |-> slId', staleId |-> staleId', sl |-> sl']

\* Faulty: the old stop is cancelled before the new one is placed.
DslRun_CancelFirst(level) == [IdleTask EXCEPT !.pc = "cancel", !.old = slId, !.level = level]

(* A DSL update captures the stop it will replace.                         *)
DslRun(level) == [IdleTask EXCEPT !.pc = "place", !.old = slId, !.level = level]
DslMayRun     == liveStatus \in {"LIVE", "LIVE_NO_SL"} /\ slId # NoId

\* onPriceUpdate: the DSL proposes a level; an update in flight queues it.
DslMove(level) ==
    /\ tracked
    /\ level >= sl
    /\ sl' = level
    /\ \/ /\ liveStatus = "LIVE" /\ task["dsl"].pc # "idle"
          /\ queued' = level
          /\ UNCHANGED task
       \/ /\ liveStatus = "LIVE" /\ task["dsl"].pc = "idle" /\ DslMayRun
          /\ queued' = 0
          /\ task' = [task EXCEPT !["dsl"] = DslRun(level)]
       \/ /\ liveStatus # "LIVE" \/ (task["dsl"].pc = "idle" /\ ~DslMayRun)
          /\ UNCHANGED <<queued, task>>
    /\ UNCHANGED <<tracked, liveStatus, slId, staleId>>
    /\ Persist
    /\ UNCHANGED <<exchange, pulled, seen, exit, restarts>>

\* The new stop is confirmed: it is recorded, then the old one is cancelled.
DslPlaced ==
    /\ PlaceOk("dsl")
    /\ slId' = task["dsl"].new
    /\ liveStatus' = "LIVE"
    /\ task' = [task EXCEPT !["dsl"].pc = "cancel"]
    /\ UNCHANGED <<tracked, staleId, sl>>
    /\ Persist
    /\ UNCHANGED <<exchange, pulled, queued, seen, exit, restarts>>

(* The finally block: a queued level that differs starts the next update.  *)
DslFinish ==
    /\ queued' = 0
    /\ task' = [task EXCEPT !["dsl"] =
                    IF queued \notin {0, task["dsl"].level} /\ DslMayRun
                    THEN DslRun(queued) ELSE IdleTask]

\* Faulty: one attempt too many.
DslFailed_OneMore ==
    /\ PlaceFailed("dsl")
    /\ IF task["dsl"].tries < DslAttempts
       THEN /\ task' = [task EXCEPT !["dsl"].pc = "place", !["dsl"].new = NoId,
                                    !["dsl"].tries = @ + 1]
            /\ UNCHANGED queued
       ELSE DslFinish
    /\ UNCHANGED <<exchange, pulled, record, seen, exit, row, restarts>>

\* A failed attempt is repeated after a pause; the last one gives up.
DslFailed ==
    /\ PlaceFailed("dsl")
    /\ IF task["dsl"].tries + 1 < DslAttempts
       THEN /\ task' = [task EXCEPT !["dsl"].pc = "place", !["dsl"].new = NoId,
                                    !["dsl"].tries = @ + 1]
            /\ UNCHANGED queued
       ELSE DslFinish
    /\ UNCHANGED <<exchange, pulled, record, seen, exit, row, restarts>>

\* Faulty: the stop recorded now is cancelled, not the one captured before.
DslCancelled_NotCaptured ==
    /\ task["dsl"].pc = "cancel"
    /\ Cancel(slId)
    /\ DslFinish
    /\ UNCHANGED <<held, lastId, removed, record, seen, exit, row, restarts>>

DslCancelled ==
    /\ task["dsl"].pc = "cancel"
    /\ Cancel(task["dsl"].old)
    /\ DslFinish
    /\ UNCHANGED <<held, lastId, removed, record, seen, exit, row, restarts>>
-----------------------------------------------------------------------------
(* The order-health check, once per reconciliation pass.                   *)

\* The pass picks the position; positions before it in the pass may delay it.
HealthBegin ==
    /\ tracked /\ task["health"].pc = "idle"
    /\ task' = [task EXCEPT !["health"] = [IdleTask EXCEPT !.pc = "query"]]
    /\ UNCHANGED <<exchange, pulled, record, queued, seen, exit, row, restarts>>

\* The order lists arrive.
HealthSeen ==
    /\ task["health"].pc = "query"
    /\ seen' = resting
    /\ task' = [task EXCEPT !["health"].pc = "verdict"]
    /\ UNCHANGED <<exchange, pulled, record, queued, exit, row, restarts>>

\* Either order list cannot be fetched, or the position is gone: no verdict.
HealthSkipped ==
    /\ task["health"].pc = "query"
    /\ task' = [task EXCEPT !["health"] = IdleTask]
    /\ UNCHANGED <<exchange, pulled, record, queued, seen, exit, row, restarts>>

\* Faulty: only positions already marked unprotected are looked at.
HealthVerdict_OnlyUnprotected ==
    /\ task["health"].pc = "verdict"
    /\ task' = [task EXCEPT !["health"] =
                    IF liveStatus = "LIVE_NO_SL" /\ slId \notin seen \cup {NoId}
                    THEN [IdleTask EXCEPT !.pc = "place", !.old = slId, !.level = sl]
                    ELSE IdleTask]
    /\ seen' = {}
    /\ UNCHANGED <<exchange, pulled, record, queued, exit, row, restarts>>

\* The recorded stop, read now, is compared with the list fetched before.
HealthVerdict ==
    /\ task["health"].pc = "verdict"
    /\ task' = [task EXCEPT !["health"] =
                    IF slId \notin seen \cup {NoId}
                    THEN [IdleTask EXCEPT !.pc = "place", !.old = slId, !.level = sl]
                    ELSE IdleTask]
    /\ seen' = {}
    /\ UNCHANGED <<exchange, pulled, record, queued, exit, row, restarts>>

HealthPlaced ==
    /\ PlaceOk("health")
    /\ slId' = task["health"].new
    /\ liveStatus' = "LIVE"
    /\ staleId' = NoId
    /\ task' = [task EXCEPT !["health"].pc = "cancel"]
    /\ UNCHANGED <<exchange, pulled, tracked, sl, queued, seen, exit, row, restarts>>

\* Faulty: the position is not marked as unprotected.
HealthFailed_StillLive ==
    /\ PlaceFailed("health")
    /\ slId' = NoId
    /\ staleId' = task["health"].old
    /\ task' = [task EXCEPT !["health"] = IdleTask]
    /\ UNCHANGED <<tracked, liveStatus, sl>>
    /\ Persist
    /\ UNCHANGED <<exchange, pulled, queued, seen, exit, restarts>>

\* Faulty: the id believed gone stays recorded as the stop as well.
HealthFailed_KeepsId ==
    /\ PlaceFailed("health")
    /\ liveStatus' = "LIVE_NO_SL"
    /\ staleId' = task["health"].old
    /\ task' = [task EXCEPT !["health"] = IdleTask]
    /\ UNCHANGED <<tracked, slId, sl>>
    /\ Persist
    /\ UNCHANGED <<exchange, pulled, queued, seen, exit, restarts>>

HealthFailed ==
    /\ PlaceFailed("health")
    /\ slId' = NoId
    /\ liveStatus' = "LIVE_NO_SL"
    /\ staleId' = task["health"].old
    /\ task' = [task EXCEPT !["health"] = IdleTask]
    /\ UNCHANGED <<tracked, sl>>
    /\ Persist
    /\ UNCHANGED <<exchange, pulled, queued, seen, exit, restarts>>

HealthCancelled ==
    /\ task["health"].pc = "cancel"
    /\ Cancel(task["health"].old)
    /\ task' = [task EXCEPT !["health"] = IdleTask]
    /\ UNCHANGED record
    /\ Persist
    /\ UNCHANGED <<held, lastId, removed, queued, seen, exit, restarts>>
-----------------------------------------------------------------------------
(* The watchdog, every thirty seconds.                                     *)

\* A tick lists the positions without a stop and repairs them one by one.
WatchdogBegin ==
    /\ task["watchdog"].pc = "idle"
    /\ tracked /\ liveStatus = "LIVE_NO_SL" /\ slId = NoId
    /\ task' = [task EXCEPT !["watchdog"] = [IdleTask EXCEPT !.pc = "query"]]
    /\ UNCHANGED <<exchange, pulled, record, queued, seen, exit, row, restarts>>

\* This position's turn; the list is not looked at again.
WatchdogTurn ==
    /\ task["watchdog"].pc = "query"
    /\ task' = [task EXCEPT !["watchdog"] = [IdleTask EXCEPT !.pc = "place", !.level = sl]]
    /\ UNCHANGED <<exchange, pulled, record, queued, seen, exit, row, restarts>>

WatchdogPlaced ==
    /\ PlaceOk("watchdog")
    /\ slId' = task["watchdog"].new
    /\ liveStatus' = "LIVE"
    /\ UNCHANGED <<tracked, staleId, sl>>
    /\ IF staleId # NoId
       THEN /\ task' = [task EXCEPT !["watchdog"].pc = "cancel", !["watchdog"].old = staleId]
            /\ UNCHANGED row
       ELSE /\ task' = [task EXCEPT !["watchdog"] = IdleTask]
            /\ Persist
    /\ UNCHANGED <<exchange, pulled, queued, seen, exit, restarts>>

\* Faulty: _watchdogRunning is not reset after an error.
WatchdogFailed_StaysRunning ==
    /\ PlaceFailed("watchdog")
    /\ task' = [task EXCEPT !["watchdog"] = [IdleTask EXCEPT !.pc = "verdict"]]
    /\ UNCHANGED <<exchange, pulled, record, queued, seen, exit, row, restarts>>

WatchdogFailed ==
    /\ PlaceFailed("watchdog")
    /\ task' = [task EXCEPT !["watchdog"] = IdleTask]
    /\ UNCHANGED <<exchange, pulled, record, queued, seen, exit, row, restarts>>

\* Whatever stale order is recorded by now is forgotten with the one cancelled.
WatchdogCancelled ==
    /\ task["watchdog"].pc = "cancel"
    /\ Cancel(task["watchdog"].old)
    /\ staleId' = NoId
    /\ task' = [task EXCEPT !["watchdog"] = IdleTask]
    /\ UNCHANGED <<tracked, liveStatus, slId, sl>>
    /\ Persist
    /\ UNCHANGED <<held, lastId, removed, queued, seen, exit, restarts>>
-----------------------------------------------------------------------------
(* The exit.                                                               *)

\* _closePosition: archived and dropped from memory while the exit still runs.
Close(kind) ==
    /\ tracked
    /\ tracked' = FALSE
    /\ exit' = [pc |-> IF kind = "LEAVE_STOP" THEN "wrap" ELSE "cancel",
                kind |-> kind, old |-> slId, tries |-> 0]
    /\ row' = NoRow
    /\ UNCHANGED <<exchange, pulled, liveStatus, slId, staleId, sl, queued, task, seen, restarts>>

\* Reconciliation or the user-data stream finds the position gone.
NoticeFlat == ~held /\ \E kind \in {"CANCEL_STOP", "LEAVE_STOP"} : Close(kind)

ExitCancelled ==
    /\ exit.pc = "cancel"
    /\ Cancel(exit.old)
    /\ exit' = [exit EXCEPT !.pc = IF exit.kind = "MARKET" THEN "close" ELSE "wrap"]
    /\ UNCHANGED <<held, lastId, removed, record, queued, task, seen, row, restarts>>

ExitClosed ==
    /\ exit.pc = "close" /\ held
    /\ held' = FALSE
    /\ exit' = [exit EXCEPT !.pc = "wrap"]
    /\ UNCHANGED <<resting, lastId, removed, pulled, record, queued, task, seen, row,
                   restarts>>

\* Rejected or lost: tried again from the cancel on, with the stop of now.
ExitFailed ==
    /\ exit.pc = "close"
    /\ exit' = IF exit.tries + 1 < CloseAttempts
               THEN [exit EXCEPT !.pc = "cancel", !.old = slId, !.tries = @ + 1]
               ELSE [exit EXCEPT !.pc = "wrap"]
    /\ UNCHANGED <<exchange, pulled, record, queued, task, seen, row, restarts>>

\* A stop-loss exit that learns its real fill archives the position again.
ExitWrapped ==
    /\ exit.pc = "wrap"
    /\ liveStatus' = "CLOSED"
    /\ exit' = IdleExit
    /\ row' \in IF exit.kind = "LEAVE_STOP" THEN {row, NoRow} ELSE {row}
    /\ UNCHANGED <<exchange, pulled, tracked, slId, staleId, sl, queued, task, seen, restarts>>
-----------------------------------------------------------------------------
(* The ten-minute order sweep on a symbol the exchange does not hold.  It  *)
(* cancels orders with the entry's client-id prefixes (sl_, tp_, resl_,    *)
(* AT_) that no OPEN row names; the stops of the maintainers are called    *)
(* SAT_DSL_, SAT_RSL_ and SAT_WD_.                                         *)
Sweepable == {EntryStop}
KnownToDb == IF row.st = "OPEN" THEN {row.slId, EntryStop} ELSE {}
Orphans   == (resting \cap Sweepable) \ KnownToDb

Sweep ==
    /\ ~held /\ Orphans # {}
    /\ resting' = resting \ Orphans
    /\ pulled' = pulled \cup Orphans
    /\ UNCHANGED <<held, lastId, removed, record, queued, task, seen, exit, row, restarts>>

\* The process dies and comes back with what its row says.
Restart ==
    /\ restarts < MaxRestarts
    /\ restarts' = restarts + 1
    /\ tracked' = (row.st = "OPEN")
    /\ liveStatus' = (IF row.st = "OPEN" THEN row.live ELSE "CLOSED")
    /\ slId' = (IF row.st = "OPEN" THEN row.slId ELSE NoId)
    /\ staleId' = (IF row.st = "OPEN" THEN row.staleId ELSE NoId)
    /\ sl' = row.sl
    /\ queued' = 0 /\ seen' = {}
    /\ task' = [t \in Maintainer |-> IdleTask]
    /\ exit' = IdleExit
    /\ pulled' = {}
    /\ UNCHANGED <<exchange, row>>
-----------------------------------------------------------------------------
Dsl      == DslPlaced \/ DslFailed \/ DslCancelled
Health   == HealthSeen \/ HealthSkipped \/ HealthVerdict \/ HealthPlaced \/ HealthFailed \/ HealthCancelled
Watchdog == WatchdogTurn \/ WatchdogPlaced \/ WatchdogFailed \/ WatchdogCancelled
Exit     == ExitCancelled \/ ExitClosed \/ ExitFailed \/ ExitWrapped
Outside  == ClosedElsewhere \/ \E i \in Ids : StopTriggers(i) \/ StopRemoved(i)

Next ==
    \/ Outside
    \/ \E t \in Maintainer : PlaceLands(t)
    \/ \E level \in Levels : DslMove(level)
    \/ Dsl
    \/ HealthBegin \/ Health
    \/ WatchdogBegin \/ Watchdog
    \/ \E kind \in ExitKind : Close(kind)
    \/ NoticeFlat \/ Exit
    \/ Sweep \/ Restart

Spec == Init /\ [][Next]_vars

(* Timers start every maintainer again and again, and every await ends.    *)
(* Strong fairness says the exchange is reachable again and again: a query *)
(* or an order that keeps being sent is answered some day.                 *)
Fairness ==
    /\ WF_vars(Dsl) /\ WF_vars(HealthBegin) /\ WF_vars(Health)
    /\ WF_vars(WatchdogBegin) /\ WF_vars(Watchdog)
    /\ WF_vars(Exit) /\ WF_vars(NoticeFlat) /\ WF_vars(Sweep)
    /\ SF_vars(HealthSeen)
    /\ SF_vars(PlaceLands("watchdog")) /\ SF_vars(WatchdogPlaced)

FairSpec == Spec /\ Fairness
-----------------------------------------------------------------------------
(* The stop the record of an open position names was not cancelled by this *)
(* process: each maintainer cancels only an order it captured before, and  *)
(* never the one another maintainer has recorded meanwhile                 *)
(* (serverAT.js 3127-3130, 6507, 6948-6951).                               *)
TrackedNotPulled == tracked => slId \notin pulled

(* An open position is in the watchdog's care exactly when it records no   *)
(* stop: LIVE with a null slOrderId would be skipped by the watchdog       *)
(* (6915-6918) and by the health check (6476) forever.                     *)
StatusTellsStop == tracked => (liveStatus = "LIVE" <=> slId # NoId)

(* A cancel of this process never takes the last stop of an open position, *)
(* however the maintainers interleave: the new stop rests before the old   *)
(* one goes ("STEP 1: Place new SL FIRST", 3104).  Stops removed by others *)
(* are not the server's doing.                                             *)
NeverStripped ==
    [][tracked /\ tracked' /\ removed' = {} /\ resting # {} => resting' # {}]_vars

(* A restart never trusts a row that names the same order as the stop to   *)
(* keep and the stop to cancel.                                            *)
RowKeepsApart == row.st = "OPEN" /\ row.staleId # NoId => row.slId # row.staleId

(* A recorded stop that no longer rests is found out by the health check:  *)
(* it is replaced, or the position is marked as unprotected.               *)
MissingStopNoticed ==
    (tracked /\ slId # NoId /\ slId \notin resting)
        ~> (~tracked \/ slId = NoId \/ slId \in resting)

(* An open position without a stop gets one from the watchdog.             *)
UnprotectedRepaired ==
    (tracked /\ slId = NoId) ~> (~tracked \/ slId # NoId \/ lastId = MaxId)

(* orderSweeper.js 5-17: an order placed by Zeus that rests on a flat      *)
(* symbol and that the database does not name is an orphan and cancelled.  *)
FlatStopsSwept == ~held ~> resting = {}

(* serverAT.js 6479-6484: the id believed gone is remembered, so that no   *)
(* stop of an open position leaks.  With no maintainer at work, every      *)
(* resting stop is one the record names.                                   *)
NoForgottenStop ==
    tracked /\ (\A t \in Maintainer : task[t].pc = "idle")
        => resting \subseteq {slId, staleId}
=============================================================================
