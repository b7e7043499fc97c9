------------------------ MODULE ProtectiveStop_proofs ------------------------
(***************************************************************************)
(* What ProtectiveStop guarantees for every bound and every number of      *)
(* orders, restarts and lost replies.                                      *)
(***************************************************************************)
EXTENDS ProtectiveStop, TLAPS

LEMMA EntryStopIsId == EntryStop \in Ids /\ NoId \in IdOrNone /\ 1 \in Levels
  BY BoundsAssumption DEF EntryStop, Ids, IdOrNone, NoId, Levels

LEMMA IdlesTyped ==
    /\ IdleTask \in TaskRun /\ IdleExit \in ExitRun /\ NoRow \in Row
  BY EntryStopIsId, BoundsAssumption
     DEF IdleTask, IdleExit, NoRow, TaskPc, ExitPc, ExitKind, LegStatus, TaskRun, ExitRun, Row

(* A DSL update starts from a captured stop and a level.                   *)
LEMMA DslRunTyped ==
  ASSUME TypeOK, NEW level \in Levels
  PROVE  DslRun(level) \in TaskRun
  BY IdlesTyped DEF TypeOK, DslRun, IdleTask, TaskRun, TaskPc

(* A cancel leaves sets of order numbers.                                  *)
LEMMA CancelTyped ==
  ASSUME TypeOK, NEW i \in IdOrNone, Cancel(i)
  PROVE  resting' \in SUBSET Ids /\ pulled' \in SUBSET Ids
<1>1. {i} \ {NoId} \subseteq Ids
  BY DEF IdOrNone, NoId, Ids
<1>2. QED
  BY <1>1 DEF Cancel, TypeOK

(* Every variable keeps its type.                                          *)
THEOREM TypeCorrect == Spec => []TypeOK
<1>1. Init => TypeOK
  <2> SUFFICES ASSUME Init PROVE TypeOK
    OBVIOUS
  <2>1. slId \in IdOrNone /\ {slId} \ {NoId} \subseteq Ids /\ lastId \in IdOrNone
    BY EntryStopIsId DEF Init, Ids, IdOrNone, NoId, EntryStop
  <2>2. row \in Row
    BY <2>1, EntryStopIsId DEF Init, Row, LegStatus
  <2>3. liveStatus \in LegStatus /\ staleId \in IdOrNone /\ sl \in Levels /\ queued \in 0 .. MaxLevel
        /\ restarts \in 0 .. MaxRestarts
    BY EntryStopIsId, BoundsAssumption DEF Init, LegStatus
  <2>4. task \in [Maintainer -> TaskRun] /\ exit \in ExitRun
    BY IdlesTyped DEF Init
  <2>5. QED
    BY <2>1, <2>2, <2>3, <2>4 DEF Init, TypeOK
<1>2. TypeOK /\ [Next]_vars => TypeOK'
  <2> SUFFICES ASSUME TypeOK, [Next]_vars PROVE TypeOK'
    OBVIOUS
  <2> USE EntryStopIsId, IdlesTyped, BoundsAssumption DEF TypeOK, exchange, record
  <2>1. ASSUME NEW i \in Ids, StopTriggers(i) PROVE TypeOK'
    BY <2>1 DEF StopTriggers
  <2>2. ASSUME NEW i \in Ids, StopRemoved(i) PROVE TypeOK'
    BY <2>2 DEF StopRemoved
  <2>3. CASE ClosedElsewhere
    BY <2>3 DEF ClosedElsewhere
  <2>4. ASSUME NEW t \in Maintainer, PlaceLands(t) PROVE TypeOK'
    <3>1. lastId + 1 \in Ids /\ lastId + 1 \in IdOrNone
      BY <2>4 DEF PlaceLands, Ids, IdOrNone
    <3>2. [task[t] EXCEPT !.pc = "reply", !.new = lastId + 1] \in TaskRun
      BY <3>1 DEF TaskRun, TaskPc
    <3>3. task' = [task EXCEPT ![t] = [task[t] EXCEPT !.pc = "reply", !.new = lastId + 1]]
      BY <2>4 DEF PlaceLands
    <3>4. QED
      BY <2>4, <3>1, <3>2, <3>3 DEF PlaceLands
  <2>5. ASSUME NEW level \in Levels, DslMove(level) PROVE TypeOK'
    <3>1. task' \in [Maintainer -> TaskRun]
      BY <2>5, DslRunTyped DEF DslMove
    <3>2. queued' \in 0 .. MaxLevel
      BY <2>5 DEF DslMove, Levels
    <3>3. row' \in Row
      BY <2>5 DEF DslMove, Persist, Row
    <3>4. QED
      BY <2>5, <3>1, <3>2, <3>3 DEF DslMove
  <2>6. CASE DslPlaced
    BY <2>6 DEF DslPlaced, TaskRun, Row, Persist, Maintainer, TaskPc, LegStatus
  <2>7. DslFinish => queued' \in 0 .. MaxLevel /\ task' \in [Maintainer -> TaskRun]
    <3> SUFFICES ASSUME DslFinish PROVE queued' \in 0 .. MaxLevel /\ task' \in [Maintainer -> TaskRun]
      OBVIOUS
    <3>1. queued # 0 => queued \in Levels
      BY DEF Levels
    <3>2. queued # 0 => DslRun(queued) \in TaskRun
      BY <3>1, DslRunTyped
    <3>3. (IF queued \notin {0, task["dsl"].level} /\ DslMayRun THEN DslRun(queued) ELSE IdleTask)
            \in TaskRun
      BY <3>2
    <3>4. QED
      BY <3>3 DEF DslFinish, Maintainer
  <2>8. CASE DslFailed
    BY <2>7, <2>8 DEF DslFailed, Maintainer, TaskPc, TaskRun
  <2>9. CASE DslCancelled
    <3>1. task["dsl"].old \in IdOrNone
      BY DEF TaskRun, Maintainer
    <3>2. QED
      BY <2>7, <2>9, <3>1, CancelTyped DEF DslCancelled
  <2>10. CASE HealthBegin
    BY <2>10 DEF HealthBegin, TaskRun, Row, Maintainer, TaskPc, IdleTask
  <2>11. CASE HealthSeen
    BY <2>11 DEF HealthSeen, TaskRun, Row, Maintainer, TaskPc
  <2>12. CASE HealthSkipped
    BY <2>12 DEF HealthSkipped
  <2>13. CASE HealthVerdict
    BY <2>13 DEF HealthVerdict, TaskRun, Row, Maintainer, TaskPc, IdleTask
  <2>14. CASE HealthPlaced
    BY <2>14 DEF HealthPlaced, TaskRun, Row, Maintainer, TaskPc, LegStatus
  <2>15. CASE HealthFailed
    BY <2>15 DEF HealthFailed, TaskRun, Row, Persist, Maintainer, LegStatus
  <2>16. CASE HealthCancelled
    <3>1. task["health"].old \in IdOrNone
      BY DEF TaskRun, Maintainer
    <3>2. resting' \in SUBSET Ids /\ pulled' \in SUBSET Ids
      BY <2>16, <3>1, CancelTyped DEF HealthCancelled
    <3>3. row' \in Row
      BY <2>16 DEF HealthCancelled, Persist, Row
    <3>4. QED
      BY <2>16, <3>2, <3>3 DEF HealthCancelled
  <2>17. CASE WatchdogBegin
    BY <2>17 DEF WatchdogBegin, TaskRun, Row, Maintainer, TaskPc, IdleTask
  <2>18. CASE WatchdogTurn
    BY <2>18 DEF WatchdogTurn, TaskRun, Row, Maintainer, TaskPc, IdleTask
  <2>19. CASE WatchdogPlaced
    BY <2>19 DEF WatchdogPlaced, TaskRun, Row, Persist, Maintainer, TaskPc, LegStatus
  <2>20. CASE WatchdogFailed
    BY <2>20 DEF WatchdogFailed
  <2>21. CASE WatchdogCancelled
    <3>1. task["watchdog"].old \in IdOrNone
      BY DEF TaskRun, Maintainer
    <3>2. resting' \in SUBSET Ids /\ pulled' \in SUBSET Ids
      BY <2>21, <3>1, CancelTyped DEF WatchdogCancelled
    <3>3. row' \in Row
      BY <2>21 DEF WatchdogCancelled, Persist, Row
    <3>4. QED
      BY <2>21, <3>2, <3>3 DEF WatchdogCancelled
  <2>22. ASSUME NEW kind \in ExitKind, Close(kind) PROVE TypeOK'
    <3>1. 0 \in 0 .. CloseAttempts - 1
      OBVIOUS
    <3>2. exit' \in ExitRun
      BY <2>22, <3>1 DEF Close, ExitPc, ExitRun
    <3>3. QED
      BY <2>22, <3>2 DEF Close
  <2>23. CASE NoticeFlat
    BY <2>22, <2>23 DEF NoticeFlat, ExitKind
  <2>24. CASE ExitCancelled
    <3>1. exit.old \in IdOrNone
      BY DEF ExitRun
    <3>2. resting' \in SUBSET Ids /\ pulled' \in SUBSET Ids
      BY <2>24, <3>1, CancelTyped DEF ExitCancelled
    <3>3. exit' \in ExitRun
      BY <2>24 DEF ExitCancelled, ExitPc, ExitRun
    <3>4. QED
      BY <2>24, <3>2, <3>3 DEF ExitCancelled
  <2>25. CASE ExitClosed
    BY <2>25 DEF ExitClosed, ExitPc, ExitRun
  <2>26. CASE ExitFailed
    <3>1. exit.tries \in 0 .. CloseAttempts - 1
      BY DEF ExitRun
    <3>2. exit.tries + 1 < CloseAttempts => exit.tries + 1 \in 0 .. CloseAttempts - 1
      BY <3>1
    <3>3. exit' \in ExitRun
      BY <2>26, <3>2 DEF ExitFailed, ExitPc, ExitRun
    <3>4. QED
      BY <2>26, <3>3 DEF ExitFailed
  <2>27. CASE ExitWrapped
    BY <2>27 DEF ExitWrapped, LegStatus
  <2>28. CASE Sweep
    BY <2>28 DEF Sweep, Orphans
  <2>29. CASE Restart
    BY <2>29 DEF Restart, LegStatus, Row
  <2>30. CASE UNCHANGED vars
    BY <2>30 DEF vars
  <2>31. QED
    BY <2>1, <2>2, <2>3, <2>4, <2>5, <2>6, <2>8, <2>9, <2>10, <2>11, <2>12, <2>13, <2>14,
       <2>15, <2>16, <2>17, <2>18, <2>19, <2>20, <2>21, <2>22, <2>23, <2>24, <2>25, <2>26,
       <2>27, <2>28, <2>29, <2>30
       DEF Next, Outside, Dsl, Health, Watchdog, Exit
<1>3. QED
  BY <1>1, <1>2, PTL DEF Spec
-----------------------------------------------------------------------------
(***************************************************************************)
(* The inductive invariant.  While the position is open:                   *)
(*  - record and row agree on what they mean, and no exit runs;            *)
(*  - every order number in use was given out;                             *)
(*  - an order that has landed and whose reply is awaited is not recorded, *)
(*    not captured by any maintainer, not cancelled, and still on the      *)
(*    book unless somebody else removed it;                                *)
(*  - the recorded stop is no maintainer's next cancel;                    *)
(*  - some stop on the book is no maintainer's next cancel.                *)
(***************************************************************************)
RowMirrors == tracked <=> row.st = "OPEN"

Consistent ==
    /\ exit.pc = "idle"
    /\ liveStatus = "LIVE" <=> slId # NoId
    /\ row.live = "LIVE" <=> row.slId # NoId
    /\ staleId # NoId => slId # staleId
    /\ row.staleId # NoId => row.slId # row.staleId
    /\ row.slId <= lastId /\ row.staleId <= lastId

Numbered ==
    /\ \A i \in resting \cup removed \cup pulled : i <= lastId
    /\ slId <= lastId /\ staleId <= lastId
    /\ \A t \in Maintainer : task[t].old <= lastId

Pending(t) == task[t].pc = "reply"

PendingApart ==
    \A t \in Maintainer : Pending(t) =>
        /\ task[t].new # NoId
        /\ task[t].new \notin {slId, staleId} \cup pulled
        /\ task[t].new \in resting \cup removed
        /\ \A u \in Maintainer : task[u].old # task[t].new
        /\ \A u \in Maintainer \ {t} : Pending(u) => task[u].new # task[t].new

Spares(i) == \A t \in Maintainer : task[t].pc = "cancel" => task[t].old # i

Standing == (resting \cup removed = {}) \/ \E i \in resting \cup removed : Spares(i)

Orders ==
    /\ Numbered
    /\ PendingApart
    /\ slId # NoId => slId \notin pulled /\ Spares(slId)
    /\ Standing

Working == Consistent /\ Orders

Inv == RowMirrors /\ (tracked => Working)

(* Nothing but the end of the position, or a restart that finds its row    *)
(* gone, changes whether it is tracked; the row follows.                   *)
LEMMA TrackedStep ==
  ASSUME TypeOK, Inv, [Next]_vars
  PROVE  RowMirrors' /\ (tracked' => tracked)
<1> USE DEF Inv, Working, Consistent, RowMirrors, TypeOK, exchange, record, Persist, NoRow, Row
<1>1. ASSUME NEW i \in Ids, StopTriggers(i) \/ StopRemoved(i) PROVE RowMirrors' /\ (tracked' => tracked)
  BY <1>1 DEF StopTriggers, StopRemoved
<1>2. CASE ClosedElsewhere
  BY <1>2 DEF ClosedElsewhere
<1>12. ASSUME NEW t \in Maintainer, PlaceLands(t) PROVE RowMirrors' /\ (tracked' => tracked)
  BY <1>12 DEF PlaceLands
<1>3. ASSUME NEW level \in Levels, DslMove(level) PROVE RowMirrors' /\ (tracked' => tracked)
  BY <1>3 DEF DslMove
<1>4. CASE Dsl
  BY <1>4 DEF Dsl, DslPlaced, DslFailed, DslCancelled
<1>5. CASE HealthBegin \/ Health
  BY <1>5 DEF HealthBegin, Health, HealthSeen, HealthSkipped, HealthVerdict, HealthPlaced,
              HealthFailed, HealthCancelled
<1>6. CASE WatchdogBegin \/ Watchdog
  BY <1>6 DEF WatchdogBegin, Watchdog, WatchdogTurn, WatchdogPlaced, WatchdogFailed,
              WatchdogCancelled
<1>7. CASE (\E kind \in ExitKind : Close(kind)) \/ NoticeFlat
  BY <1>7 DEF Close, NoticeFlat
<1>8. CASE Exit
  BY <1>8 DEF Exit, ExitCancelled, ExitClosed, ExitFailed, ExitWrapped
<1>9. CASE Sweep \/ Restart
  BY <1>9 DEF Sweep, Restart
<1>10. CASE UNCHANGED vars
  BY <1>10 DEF vars
<1>11. QED
  BY <1>1, <1>2, <1>3, <1>4, <1>5, <1>6, <1>7, <1>8, <1>9, <1>10,
     <1>12 DEF Next, Outside

LEMMA WorkingInit == Init => Inv
  BY EntryStopIsId DEF Init, Inv, RowMirrors, Working, Consistent, Orders, Numbered, PendingApart,
     Pending, Standing, Spares, IdleExit, IdleTask, EntryStop, NoId

(* A step that sends, receives and cancels nothing: a maintainer may start *)
(* over, stop, or capture the recorded stop, and the record may forget its *)
(* stop or remember a captured one as stale.                               *)
LEMMA QuietStep ==
  ASSUME TypeOK, TypeOK', Orders,
         UNCHANGED <<resting, removed, pulled, lastId>>,
         slId' \in {slId, NoId},
         staleId' = staleId \/ \E t \in Maintainer : staleId' = task[t].old,
         \A t \in Maintainer : task'[t] = task[t] \/
             (/\ task'[t].pc \notin {"reply", "cancel"}
              /\ task'[t].old \in {task[t].old, slId, NoId})
  PROVE  Orders'
<1> USE DEF TypeOK, IdOrNone, Ids, NoId, Orders, Pending, Spares
<1>1. Numbered'
  BY DEF Numbered
<1>2. PendingApart'
  <2> SUFFICES ASSUME NEW t \in Maintainer, Pending(t)'
               PROVE  /\ task'[t].new # NoId
                      /\ task'[t].new \notin {slId', staleId'} \cup pulled'
                      /\ task'[t].new \in resting' \cup removed'
                      /\ \A u \in Maintainer : task'[u].old # task'[t].new
                      /\ \A u \in Maintainer \ {t} : Pending(u)' => task'[u].new # task'[t].new
    BY DEF PendingApart
  <2>1. Pending(t) /\ task'[t] = task[t]
    OBVIOUS
  <2>2. QED
    BY <2>1 DEF PendingApart
<1>3. slId' # NoId => slId' \notin pulled' /\ Spares(slId)'
  OBVIOUS
<1>4. Standing'
  BY DEF Standing
<1>5. QED
  BY <1>1, <1>2, <1>3, <1>4

(* What a run that takes no order and cancels none may become.             *)
Harmless(r, t) == r.pc \notin {"reply", "cancel"} /\ r.old \in {task[t].old, slId, NoId}

LEMMA RunReplaced ==
  ASSUME TypeOK, NEW x \in Maintainer, NEW r, Harmless(r, x), task' = [task EXCEPT ![x] = r]
  PROVE  \A t \in Maintainer : task'[t] = task[t] \/
             (/\ task'[t].pc \notin {"reply", "cancel"}
              /\ task'[t].old \in {task[t].old, slId, NoId})
  BY DEF TypeOK, Harmless

LEMMA IdleHarmless ==
  ASSUME TypeOK, NEW x \in Maintainer
  PROVE  /\ Harmless(IdleTask, x)
         /\ Harmless([IdleTask EXCEPT !.pc = "query"], x)
         /\ \A level \in Levels :
               /\ Harmless([IdleTask EXCEPT !.pc = "place", !.level = level], x)
               /\ Harmless([IdleTask EXCEPT !.pc = "place", !.old = slId, !.level = level], x)
  BY DEF Harmless, IdleTask, NoId

LEMMA WorkingStep ==
  ASSUME TypeOK, TypeOK', Working, tracked, tracked', row.st = "OPEN", [Next]_vars
  PROVE  Working'
<1> USE DEF TypeOK, exchange, record, IdOrNone, Ids, NoId, Working
<1>1. ASSUME NEW i \in Ids, StopTriggers(i) \/ StopRemoved(i) PROVE Working'
  BY <1>1 DEF StopTriggers, StopRemoved, Consistent, Orders, Numbered, PendingApart, Pending,
              Standing, Spares
<1>2. CASE ClosedElsewhere
  BY <1>2 DEF ClosedElsewhere, Consistent, Orders, Numbered, PendingApart, Pending, Standing, Spares
<1>3. ASSUME NEW t \in Maintainer, PlaceLands(t) PROVE Working'
  <2> DEFINE n == lastId + 1
  <2> USE DEF Pending, Spares
  <2>1. /\ task[t].pc = "place" /\ lastId' = n /\ resting' = resting \cup {n}
        /\ UNCHANGED <<removed, pulled, slId, staleId, row, exit, liveStatus>>
        /\ task'[t].pc = "reply" /\ task'[t].new = n /\ task'[t].old = task[t].old
        /\ \A u \in Maintainer \ {t} : task'[u] = task[u]
    BY <1>3 DEF PlaceLands, TaskRun
  <2>2. \A u \in Maintainer : task[u].old # n /\ (Pending(u) => task[u].new # n)
    BY DEF Orders, Numbered, PendingApart, TaskRun
  <2>3. n \notin {slId, staleId} \cup pulled /\ n # NoId
    BY DEF Orders, Numbered
  <2>4. Consistent'
    BY <2>1 DEF Consistent, Row
  <2>5. Numbered'
    BY <2>1 DEF Orders, Numbered, TaskRun
  <2>6. PendingApart'
    BY <2>1, <2>2, <2>3 DEF Orders, PendingApart
  <2>7. (slId # NoId => slId \notin pulled /\ Spares(slId))'
    BY <2>1 DEF Orders
  <2>8. Standing'
    BY <2>1, <2>2 DEF Standing
  <2>9. QED
    BY <2>4, <2>5, <2>6, <2>7, <2>8 DEF Orders
<1>4. ASSUME NEW level \in Levels, DslMove(level) PROVE Working'
  <2>1. Consistent'
    BY <1>4 DEF DslMove, Persist, Consistent, Orders, Numbered
  <2>2. Orders'
    BY <1>4, QuietStep DEF DslMove, DslRun, IdleTask, Maintainer
  <2>3. QED
    BY <2>1, <2>2
<1>5. CASE DslPlaced
  BY <1>5 DEF DslPlaced, PlaceOk, Persist, TaskRun, Maintainer, Consistent, Orders, Numbered,
              PendingApart, Pending, Standing, Spares
<1>6. CASE DslFailed
  <2>1. Consistent'
    BY <1>6 DEF DslFailed, Consistent
  <2>2. \A t \in Maintainer : task'[t] = task[t] \/
             (/\ task'[t].pc \notin {"reply", "cancel"}
              /\ task'[t].old \in {task[t].old, slId, NoId})
    <3>1. "dsl" \in Maintainer
      BY DEF Maintainer
    <3>2. CASE task["dsl"].tries + 1 < DslAttempts
      <4> DEFINE r == [task["dsl"] EXCEPT !.pc = "place", !.new = NoId, !.tries = @ + 1]
      <4>1. task' = [task EXCEPT !["dsl"] = r]
        BY <1>6, <3>2 DEF DslFailed
      <4>2. Harmless(r, "dsl")
        BY <3>1 DEF Harmless, TaskRun
      <4>3. QED
        BY <3>1, <4>1, <4>2, RunReplaced
    <3>3. CASE ~(task["dsl"].tries + 1 < DslAttempts)
      <4> DEFINE r == IF queued \notin {0, task["dsl"].level} /\ DslMayRun
                      THEN DslRun(queued) ELSE IdleTask
      <4>1. task' = [task EXCEPT !["dsl"] = r]
        BY <1>6, <3>3 DEF DslFailed, DslFinish
      <4>2. Harmless(r, "dsl")
        BY DEF Harmless, DslRun, IdleTask
      <4>3. QED
        BY <3>1, <4>1, <4>2, RunReplaced
    <3>4. QED
      BY <3>2, <3>3
  <2>3. Orders'
    BY <1>6, <2>2, QuietStep DEF DslFailed
  <2>4. QED
    BY <2>1, <2>3
<1>7. CASE DslCancelled
  BY <1>7 DEF DslCancelled, DslFinish, DslRun, DslMayRun, Cancel, IdleTask, TaskRun, Maintainer,
              Consistent, Orders, Numbered, PendingApart, Pending, Standing, Spares
<1>8. CASE HealthBegin \/ HealthSeen \/ HealthSkipped \/ HealthVerdict
  <2>1. Consistent'
    BY <1>8 DEF HealthBegin, HealthSeen, HealthSkipped, HealthVerdict, Consistent
  <2>2. \A t \in Maintainer : task'[t] = task[t] \/
             (/\ task'[t].pc \notin {"reply", "cancel"}
              /\ task'[t].old \in {task[t].old, slId, NoId})
    <3>1. "health" \in Maintainer
      BY DEF Maintainer
    <3>2. CASE HealthBegin \/ HealthSkipped
      BY <1>8, <3>1, <3>2, RunReplaced, IdleHarmless DEF HealthBegin, HealthSkipped
    <3>3. CASE HealthSeen
      <4>1. Harmless([task["health"] EXCEPT !.pc = "verdict"], "health")
        BY <3>1 DEF Harmless, TaskRun
      <4>2. task' = [task EXCEPT !["health"] = [task["health"] EXCEPT !.pc = "verdict"]]
        BY <3>3 DEF HealthSeen
      <4>3. QED
        BY <3>1, <4>1, <4>2, RunReplaced
    <3>4. CASE HealthVerdict
      BY <3>1, <3>4, RunReplaced, IdleHarmless DEF HealthVerdict
    <3>5. QED
      BY <1>8, <3>2, <3>3, <3>4
  <2>3. Orders'
    BY <1>8, <2>2, QuietStep DEF HealthBegin, HealthSeen, HealthSkipped, HealthVerdict
  <2>4. QED
    BY <2>1, <2>3
<1>9. CASE HealthPlaced
  BY <1>9 DEF HealthPlaced, PlaceOk, TaskRun, Maintainer, Consistent, Orders, Numbered,
              PendingApart, Pending, Standing, Spares
<1>10. CASE HealthFailed
  <2>1. Consistent'
    BY <1>10 DEF HealthFailed, Persist, Consistent, Orders, Numbered, Maintainer
  <2>2. \A t \in Maintainer : task'[t] = task[t] \/
             (/\ task'[t].pc \notin {"reply", "cancel"}
              /\ task'[t].old \in {task[t].old, slId, NoId})
    BY <1>10 DEF HealthFailed, IdleTask, Maintainer, TaskRun
  <2>3. Orders'
    BY <1>10, <2>2, QuietStep DEF HealthFailed, Maintainer
  <2>4. QED
    BY <2>1, <2>3
<1>11. CASE HealthCancelled
  BY <1>11 DEF HealthCancelled, Cancel, Persist, IdleTask, TaskRun, Maintainer, Consistent, Orders,
               Numbered, PendingApart, Pending, Standing, Spares
<1>12. CASE WatchdogBegin \/ WatchdogTurn \/ WatchdogFailed
  <2>1. Consistent'
    BY <1>12 DEF WatchdogBegin, WatchdogTurn, WatchdogFailed, Consistent
  <2>2. \A t \in Maintainer : task'[t] = task[t] \/
             (/\ task'[t].pc \notin {"reply", "cancel"}
              /\ task'[t].old \in {task[t].old, slId, NoId})
    BY <1>12, RunReplaced, IdleHarmless DEF WatchdogBegin, WatchdogTurn, WatchdogFailed, Maintainer
  <2>3. Orders'
    BY <1>12, <2>2, QuietStep DEF WatchdogBegin, WatchdogTurn, WatchdogFailed
  <2>4. QED
    BY <2>1, <2>3
<1>13. CASE WatchdogPlaced
  BY <1>13 DEF WatchdogPlaced, PlaceOk, Persist, IdleTask, TaskRun, Maintainer, Consistent, Orders,
               Numbered, PendingApart, Pending, Standing, Spares
<1>14. CASE WatchdogCancelled
  BY <1>14 DEF WatchdogCancelled, Cancel, Persist, IdleTask, TaskRun, Maintainer, Consistent,
               Orders, Numbered, PendingApart, Pending, Standing, Spares
<1>15. CASE (\E kind \in ExitKind : Close(kind)) \/ NoticeFlat
  BY <1>15 DEF Close, NoticeFlat
<1>16. CASE Exit
  BY <1>16 DEF Exit, ExitCancelled, ExitClosed, ExitFailed, ExitWrapped, Consistent
<1>17. CASE Sweep
  BY <1>17 DEF Sweep, Orphans, KnownToDb, Sweepable
<1>18. CASE Restart
  BY <1>18 DEF Restart, IdleTask, IdleExit, Row, Consistent, Orders, Numbered, PendingApart, Pending,
               Standing, Spares
<1>19. CASE UNCHANGED vars
  BY <1>19 DEF vars, Consistent, Orders, Numbered, PendingApart, Pending, Standing, Spares
<1>20. QED
  BY <1>1, <1>2, <1>3, <1>4, <1>5, <1>6, <1>7, <1>8, <1>9, <1>10, <1>11, <1>12, <1>13, <1>14,
     <1>15, <1>16, <1>17, <1>18, <1>19 DEF Next, Outside, Dsl, Health, Watchdog

THEOREM Invariance == Spec => []Inv
<1>1. Init => Inv
  BY WorkingInit
<1>2. TypeOK /\ TypeOK' /\ Inv /\ [Next]_vars => Inv'
  BY TrackedStep, WorkingStep DEF Inv, RowMirrors
<1>3. QED
  BY <1>1, <1>2, TypeCorrect, PTL DEF Spec

(* No maintainer cancels the stop the record of an open position names.    *)
THEOREM RecordedStopKept == Spec => []TrackedNotPulled
<1>1. TypeOK /\ Inv => TrackedNotPulled
  BY DEF TypeOK, Ids, Inv, Working, Orders, NoId, TrackedNotPulled
<1>2. QED
  BY <1>1, TypeCorrect, Invariance, PTL

(* An open position is LIVE exactly when it records a stop.                *)
THEOREM StatusCorrect == Spec => []StatusTellsStop
<1>1. Inv => StatusTellsStop
  BY DEF Inv, Working, Consistent, StatusTellsStop
<1>2. QED
  BY <1>1, Invariance, PTL

(* The saved row never names one order as both kept and stale.             *)
THEOREM RowCorrect == Spec => []RowKeepsApart
<1>1. Inv => RowKeepsApart
  BY DEF Inv, RowMirrors, Working, Consistent, RowKeepsApart
<1>2. QED
  BY <1>1, Invariance, PTL
-----------------------------------------------------------------------------
(* A cancel of an open position's maintainer leaves the standing stop.     *)
LEMMA CancelSpares ==
  ASSUME TypeOK, Orders, NEW t \in Maintainer, task[t].pc = "cancel", Cancel(task[t].old),
         removed = {}, resting # {}
  PROVE  resting' # {}
<1>1. PICK i \in resting : Spares(i)
  BY DEF Orders, Standing
<1>2. i # task[t].old
  BY <1>1 DEF Spares
<1>3. i \in resting'
  BY <1>1, <1>2 DEF Cancel
<1>4. QED
  BY <1>3

(* The server never takes the last stop of an open position away.          *)
THEOREM StopFirst == Spec => NeverStripped
<1>1. ASSUME TypeOK, Inv, [Next]_vars, tracked, tracked', removed' = {}, resting # {}
      PROVE  resting' # {}
  <2> USE <1>1 DEF exchange, record
  <2>0. Orders /\ exit.pc = "idle" /\ row.st = "OPEN"
    BY DEF Inv, Working, Consistent, RowMirrors
  <2>1. ASSUME NEW i \in Ids, StopTriggers(i) \/ StopRemoved(i) PROVE resting' # {}
    BY <2>1 DEF StopTriggers, StopRemoved
  <2>2. CASE ClosedElsewhere
    BY <2>2 DEF ClosedElsewhere
  <2>3. ASSUME NEW t \in Maintainer, PlaceLands(t) PROVE resting' # {}
    BY <2>3 DEF PlaceLands
  <2>4. ASSUME NEW level \in Levels, DslMove(level) PROVE resting' # {}
    BY <2>4 DEF DslMove
  <2>5. CASE DslCancelled
    BY <2>0, <2>5, CancelSpares DEF DslCancelled, Maintainer
  <2>6. CASE HealthCancelled
    BY <2>0, <2>6, CancelSpares DEF HealthCancelled, Maintainer
  <2>7. CASE WatchdogCancelled
    BY <2>0, <2>7, CancelSpares DEF WatchdogCancelled, Maintainer
  <2>8. CASE DslPlaced \/ DslFailed
    BY <2>8 DEF DslPlaced, DslFailed
  <2>9. CASE HealthBegin \/ HealthSeen \/ HealthSkipped \/ HealthVerdict \/ HealthPlaced \/ HealthFailed
    BY <2>9 DEF HealthBegin, HealthSeen, HealthSkipped, HealthVerdict, HealthPlaced, HealthFailed
  <2>10. CASE WatchdogBegin \/ WatchdogTurn \/ WatchdogPlaced \/ WatchdogFailed
    BY <2>10 DEF WatchdogBegin, WatchdogTurn, WatchdogPlaced, WatchdogFailed
  <2>11. CASE (\E kind \in ExitKind : Close(kind)) \/ NoticeFlat
    BY <2>11 DEF Close, NoticeFlat
  <2>12. CASE Exit
    BY <2>0, <2>12 DEF Exit, ExitCancelled, ExitClosed, ExitFailed, ExitWrapped
  <2>13. CASE Sweep
    <3>1. KnownToDb = {row.slId, EntryStop}
      BY <2>0 DEF KnownToDb
    <3>2. QED
      BY <2>13, <3>1 DEF Sweep, Orphans, Sweepable
  <2>14. CASE Restart
    BY <2>14 DEF Restart
  <2>15. CASE UNCHANGED vars
    BY <2>15 DEF vars
  <2>16. QED
    BY <2>1, <2>2, <2>3, <2>4, <2>5, <2>6, <2>7, <2>8, <2>9, <2>10, <2>11, <2>12, <2>13,
       <2>14, <2>15 DEF Next, Outside, Dsl, Health, Watchdog
<1>2. QED
  BY <1>1, TypeCorrect, Invariance, PTL DEF Spec, NeverStripped
-----------------------------------------------------------------------------
(***************************************************************************)
(* Why stops are forgotten (NoForgottenStop does not hold): each writer of *)
(* the record writes over whatever it says by then.  When every writer     *)
(* finds the record as it captured it, and no reply and no cancel is lost, *)
(* no stop is forgotten: one of these five overwrites is in every leak.    *)
(***************************************************************************)
Unraced ==
    /\ DslPlaced => slId = task["dsl"].old
    /\ HealthPlaced \/ HealthFailed => slId = task["health"].old
    /\ WatchdogPlaced => slId = NoId
    /\ WatchdogCancelled => staleId = task["watchdog"].old

Reliable == ~LossyReply /\ ~LossyCancel /\ MaxRestarts = 0

(* A resting stop is recorded, or a maintainer is about to record it or to *)
(* cancel it.  A stale stop next to a recorded one is being cancelled.     *)
Cancelling(t, i) == task[t].pc = "cancel" /\ task[t].old = i

Owned(i) ==
    \/ i \in {slId, staleId}
    \/ \E t \in Maintainer : (Pending(t) /\ task[t].new = i) \/ Cancelling(t, i)

Captures == \A t \in {"dsl", "health"} : task[t].pc \in {"place", "reply"} => task[t].old # NoId

StaleApart == staleId # NoId /\ slId # NoId => Cancelling("watchdog", staleId)

Accounted == (\A i \in resting : Owned(i)) /\ Captures /\ StaleApart

(* A maintainer that has sent nothing starts, stops or tries again.        *)
LEMMA QuietAccounted ==
  ASSUME Accounted, UNCHANGED <<resting, slId, staleId>>,
         \A t \in Maintainer : task'[t] = task[t] \/
             (/\ {task[t].pc, task'[t].pc} \cap {"reply", "cancel"} = {}
              /\ t # "watchdog" /\ task'[t].pc = "place" => task'[t].old # NoId)
  PROVE  Accounted'
<1> USE DEF Accounted, Pending, Cancelling
<1>1. ASSUME NEW i \in resting' PROVE Owned(i)'
  BY DEF Owned
<1>2. Captures'
  BY DEF Captures, Maintainer
<1>3. StaleApart'
  BY DEF StaleApart, Maintainer
<1> QED BY <1>1, <1>2, <1>3

LEMMA AccountedStep ==
  ASSUME TypeOK, TypeOK', Inv, Reliable, tracked, tracked', Accounted, [Next]_vars, [Unraced]_vars
  PROVE  Accounted'
<1> USE DEF TypeOK, exchange, record, IdOrNone, Ids, NoId, Reliable, Accounted, Pending, Cancelling
<1>0. exit.pc = "idle"
  BY DEF Inv, Working, Consistent
<1>1. ASSUME NEW i \in Ids, StopTriggers(i) \/ StopRemoved(i) PROVE Accounted'
  BY <1>1 DEF StopTriggers, StopRemoved, Owned, Captures, StaleApart
<1>2. CASE ClosedElsewhere \/ UNCHANGED vars
  BY <1>2 DEF ClosedElsewhere, vars, Owned, Captures, StaleApart
<1>3. ASSUME NEW t \in Maintainer, PlaceLands(t) PROVE Accounted'
  <2>1. /\ task[t].pc = "place" /\ resting' = resting \cup {lastId + 1} /\ UNCHANGED <<slId, staleId>>
        /\ task'[t].pc = "reply" /\ task'[t].new = lastId + 1 /\ task'[t].old = task[t].old
        /\ \A u \in Maintainer \ {t} : task'[u] = task[u]
    BY <1>3 DEF PlaceLands, TaskRun
  <2> QED BY <2>1 DEF Owned, Captures, StaleApart, Maintainer
<1>4. ASSUME NEW level \in Levels, DslMove(level) PROVE Accounted'
  <2>1. task' = task \/ (task["dsl"].pc = "idle" /\ slId # NoId /\ task' = [task EXCEPT !["dsl"] = DslRun(level)])
    BY <1>4 DEF DslMove, DslMayRun
  <2>2. DslRun(level).pc = "place" /\ DslRun(level).old = slId
    BY DEF DslRun, IdleTask
  <2>3. \A t \in Maintainer : task'[t] = task[t] \/
             (/\ {task[t].pc, task'[t].pc} \cap {"reply", "cancel"} = {}
              /\ t # "watchdog" /\ task'[t].pc = "place" => task'[t].old # NoId)
    BY <2>1, <2>2 DEF Maintainer
  <2>4. UNCHANGED <<resting, slId, staleId>>
    BY <1>4 DEF DslMove
  <2> QED BY <2>3, <2>4, QuietAccounted
<1>5. CASE DslPlaced
  <2>1. slId = task["dsl"].old
    BY <1>5 DEF Unraced, vars, DslPlaced, PlaceOk, TaskRun, Maintainer
  <2> QED BY <1>5, <2>1 DEF DslPlaced, PlaceOk, TaskRun, Maintainer, Owned, Captures, StaleApart
<1>6. CASE DslFailed
  <2>1. task["dsl"].pc = "place"
    BY <1>6 DEF DslFailed, PlaceFailed
  <2>2. CASE task["dsl"].tries + 1 < DslAttempts
    BY <1>6, <2>1, <2>2, QuietAccounted DEF DslFailed, TaskRun, Maintainer, Captures
  <2>3. CASE ~(task["dsl"].tries + 1 < DslAttempts)
    <3>1. task' = [task EXCEPT !["dsl"] = IF queued \notin {0, task["dsl"].level} /\ DslMayRun
                                         THEN DslRun(queued) ELSE IdleTask]
      BY <1>6, <2>3 DEF DslFailed, DslFinish
    <3> QED BY <1>6, <2>1, <3>1, QuietAccounted DEF DslFailed, DslMayRun, DslRun, IdleTask, Maintainer
  <2> QED BY <2>2, <2>3
<1>7. CASE DslCancelled
  BY <1>7 DEF DslCancelled, Cancel, DslFinish, DslMayRun, DslRun, IdleTask, TaskRun, Maintainer,
              Owned, Captures, StaleApart
<1>8. CASE HealthBegin \/ HealthSeen \/ HealthSkipped
  BY <1>8 DEF HealthBegin, HealthSeen, HealthSkipped, IdleTask, TaskRun, Maintainer,
              Owned, Captures, StaleApart
<1>9. CASE HealthVerdict
  BY <1>9 DEF HealthVerdict, IdleTask, TaskRun, Maintainer, Owned, Captures, StaleApart
<1>10. CASE HealthPlaced
  <2>1. slId = task["health"].old
    BY <1>10 DEF Unraced, vars, HealthPlaced, PlaceOk, TaskRun, Maintainer
  <2> QED BY <1>10, <2>1 DEF HealthPlaced, PlaceOk, TaskRun, Maintainer, Owned, Captures, StaleApart
<1>11. CASE HealthFailed
  <2>1. slId = task["health"].old
    BY <1>11 DEF Unraced, vars, HealthFailed, PlaceFailed, IdleTask
  <2> QED BY <1>11, <2>1 DEF HealthFailed, PlaceFailed, IdleTask, TaskRun, Maintainer,
                             Owned, Captures, StaleApart
<1>12. CASE HealthCancelled
  BY <1>12 DEF HealthCancelled, Cancel, IdleTask, TaskRun, Maintainer, Owned, Captures, StaleApart
<1>13. CASE WatchdogBegin \/ WatchdogTurn \/ WatchdogFailed
  BY <1>13 DEF WatchdogBegin, WatchdogTurn, WatchdogFailed, PlaceFailed, IdleTask, TaskRun,
               Maintainer, Owned, Captures, StaleApart
<1>14. CASE WatchdogPlaced
  <2>1. slId = NoId
    BY <1>14 DEF Unraced, vars, WatchdogPlaced, PlaceOk, IdleTask, TaskRun, Maintainer
  <2> QED BY <1>14, <2>1 DEF WatchdogPlaced, PlaceOk, IdleTask, TaskRun, Maintainer,
                             Owned, Captures, StaleApart
<1>15. CASE WatchdogCancelled
  <2>1. staleId = task["watchdog"].old
    BY <1>15 DEF Unraced, vars, WatchdogCancelled, IdleTask
  <2> QED BY <1>15, <2>1 DEF WatchdogCancelled, Cancel, IdleTask, TaskRun, Maintainer,
                             Owned, Captures, StaleApart
<1>16. CASE (\E kind \in ExitKind : Close(kind)) \/ NoticeFlat
  BY <1>16 DEF Close, NoticeFlat
<1>17. CASE Exit
  BY <1>0, <1>17 DEF Exit, ExitCancelled, ExitClosed, ExitFailed, ExitWrapped
<1>18. CASE Sweep
  BY <1>18 DEF Sweep, Owned, Captures, StaleApart
<1>19. CASE Restart
  BY <1>19 DEF Restart
<1> QED
  BY <1>1, <1>2, <1>3, <1>4, <1>5, <1>6, <1>7, <1>8, <1>9, <1>10, <1>11, <1>12, <1>13, <1>14,
     <1>15, <1>16, <1>17, <1>18, <1>19 DEF Next, Outside, Dsl, Health, Watchdog

(* Stops are forgotten only because a maintainer writes over a record that *)
(* another one changed since it looked, because an answer is lost, or in a *)
(* restart: otherwise NoForgottenStop holds, for any number of orders,     *)
(* levels, attempts and stops removed by others.                           *)
THEOREM ForgottenOnlyByRaces ==
  ASSUME Reliable
  PROVE  Spec /\ [][Unraced]_vars => []NoForgottenStop
<1> DEFINE IInv == tracked => Accounted
<1>1. Init => IInv
  BY DEF Init, Accounted, Owned, Captures, StaleApart, IdleTask, NoId, Maintainer
<1>2. TypeOK /\ TypeOK' /\ Inv /\ IInv /\ [Next]_vars /\ [Unraced]_vars => IInv'
  BY TrackedStep, AccountedStep
<1>3. IInv => NoForgottenStop
  BY DEF Accounted, Owned, Pending, Cancelling, NoForgottenStop
<1> QED
  BY <1>1, <1>2, <1>3, TypeCorrect, Invariance, PTL DEF Spec
=============================================================================
