------------------------ MODULE EmergencyQueue_proofs ------------------------
(***************************************************************************)
(* What EmergencyQueue guarantees for any set of markets, any batch size   *)
(* and number of attempts, and any number of rows, lost replies, account   *)
(* removals and restarts.                                                  *)
(***************************************************************************)
EXTENDS EmergencyQueue, SequenceTheorems, FiniteSetTheorems, TLAPS

LEMMA RowIds == TypeOK => Ids = 1 .. Len(row) /\ Len(row) \in Nat /\ \A i \in Ids : row[i] \in Row
  BY LenProperties, ElementOfSeq DEF TypeOK, Ids

LEMMA SizeFacts ==
    \A q, r \in Signed :
        /\ Size(q) \in 0 .. MaxQty /\ (Size(q) = 0 <=> q = 0)
        /\ Less(q, r) \in Int
        /\ Same(q, r) => /\ Less(q, r) \in Signed
                         /\ Size(Less(q, r)) = IF Size(q) <= Size(r) THEN 0 ELSE Size(q) - Size(r)
        /\ q # 0 /\ Size(q) < MaxQty => /\ Grown(q) \in Signed /\ Size(Grown(q)) = Size(q) + 1
                                        /\ Same(r, q) => Same(r, Grown(q))
  BY QueueBounds DEF Signed, Size, Less, Same, Grown

LEMMA SizeNat == \A q \in Signed : Size(q) \in Nat
  BY QueueBounds DEF Signed, Size

(* Replacing one row by another keeps the queue a sequence of rows.        *)
LEMMA RowReplaced ==
  ASSUME TypeOK, NEW i \in Ids, NEW r \in Row, row' = [row EXCEPT ![i] = r]
  PROVE  /\ row' \in Seq(Row) /\ Len(row') = Len(row) /\ Ids' = Ids
         /\ row'[i] = r /\ \A j \in Ids : j # i => row'[j] = row[j]
<1>1. i \in 1 .. Len(row) /\ row \in Seq(Row)
  BY RowIds DEF TypeOK
<1>2. row' \in Seq(Row) /\ Len(row') = Len(row)
  BY <1>1, ExceptSeq
<1>3. Ids' = 1 .. Len(row') /\ Ids = 1 .. Len(row)
  BY <1>1, <1>2, LenProperties DEF Ids
<1>4. QED
  BY <1>1, <1>2, <1>3, ExceptSeq

(* A new row gets the next id.                                             *)
LEMMA RowAppended ==
  ASSUME TypeOK, NEW r \in Row, row' = Append(row, r)
  PROVE  /\ row' \in Seq(Row) /\ Len(row') = Len(row) + 1
         /\ Ids' = Ids \cup {Len(row) + 1} /\ Len(row) + 1 \notin Ids
         /\ row'[Len(row) + 1] = r /\ \A j \in Ids : row'[j] = row[j]
<1>1. row \in Seq(Row) /\ Ids = 1 .. Len(row) /\ Len(row) \in Nat
  BY RowIds DEF TypeOK
<1>2. row' \in Seq(Row) /\ Len(row') = Len(row) + 1
  BY <1>1, AppendProperties
<1>3. Ids' = 1 .. Len(row) + 1
  BY <1>2, LenProperties DEF Ids
<1>4. row'[Len(row) + 1] = r /\ \A j \in Ids : row'[j] = row[j]
  BY <1>1, AppendProperties
<1>5. QED
  BY <1>1, <1>2, <1>3, <1>4

(* The row being handled is a row whenever the processor waits for the     *)
(* exchange.                                                               *)
Handling == pc \notin {"idle", "turn"} <=> cur # NoRow

(* An outcome or a counted attempt: the same row with another resolution   *)
(* or one more attempt, and the processor at its next row.                 *)
Handled ==
    /\ pc' = "turn" /\ cur' = NoRow /\ amount' = 0
    /\ UNCHANGED <<market, unseen, due, restarts, horizon>>
    /\ \E r \in Row :
        /\ row' = [row EXCEPT ![cur] = r]
        /\ r.market = row[cur].market /\ r.position = row[cur].position
        /\ r.attempts = row[cur].attempts \/ r.attempts = row[cur].attempts + 1

LEMMA ResolveHandles ==
  ASSUME TypeOK, cur \in Ids, NEW by \in Resolution, Resolve(by)
  PROVE  Handled /\ row' = [row EXCEPT ![cur] = [row[cur] EXCEPT !.by = by]]
<1> DEFINE r == [row[cur] EXCEPT !.by = by]
<1>1. row[cur] \in Row /\ r \in Row
  BY RowIds DEF Row
<1>2. row' = [row EXCEPT ![cur] = r]
  BY DEF Resolve
<1>3. r.market = row[cur].market /\ r.position = row[cur].position /\ r.attempts = row[cur].attempts
  BY <1>1 DEF Row
<1>4. QED
  BY <1>1, <1>2, <1>3 DEF Resolve, Handled

LEMMA AttemptHandles ==
  ASSUME TypeOK, cur \in Ids, TransientError
  PROVE  /\ Handled
         /\ \/ row' = [row EXCEPT ![cur] = [row[cur] EXCEPT !.by = "gave_up"]]
            \/ row' = [row EXCEPT ![cur] = [row[cur] EXCEPT !.attempts = row[cur].attempts + 1]]
<1>1. CASE row[cur].attempts + 1 < MaxAttempts
  <2> DEFINE r == [row[cur] EXCEPT !.attempts = row[cur].attempts + 1]
  <2>1. row[cur] \in Row
    BY RowIds
  <2>2. row[cur].attempts + 1 \in 0 .. MaxAttempts - 1
    BY <1>1, <2>1, QueueBounds DEF Row
  <2>3. r \in Row /\ r.market = row[cur].market /\ r.position = row[cur].position
        /\ r.attempts = row[cur].attempts + 1
    BY <2>1, <2>2 DEF Row
  <2>4. row' = [row EXCEPT ![cur] = r]
    BY <1>1 DEF TransientError
  <2>5. QED
    BY <1>1, <2>3, <2>4 DEF TransientError, Handled
<1>2. CASE ~(row[cur].attempts + 1 < MaxAttempts)
  BY <1>2, ResolveHandles DEF TransientError, Resolution
<1>3. QED
  BY <1>1, <1>2
-----------------------------------------------------------------------------
(* The rows of the tick and the row being handled are unresolved, and no   *)
(* row comes up twice.                                                     *)
Busy ==
    /\ Handling
    /\ due \subseteq Waiting
    /\ cur # NoRow => cur \in Waiting \ due

(* The steps that end the handling of a row.                               *)
Outcome == FoundFlat \/ RowClosed \/ ReduceOnlyRejected \/ PermanentError \/ TransientError

LEMMA NoRowNoId == TypeOK => NoRow \notin Ids
  BY RowIds DEF NoRow

LEMMA OutcomeHandles ==
  ASSUME TypeOK, Busy, Outcome
  PROVE  cur \in Ids /\ Handled
  BY ResolveHandles, AttemptHandles
     DEF Outcome, Busy, Handling, Waiting, FoundFlat, RowClosed, ReduceOnlyRejected, PermanentError,
         TransientError, RequestFails, Resolution

LEMMA HandledTyped ==
  ASSUME TypeOK, Busy, cur \in Ids, Handled
  PROVE  TypeOK' /\ Busy'
<1>1. PICK r \in Row : row' = [row EXCEPT ![cur] = r]
  BY DEF Handled
<1>2. /\ row' \in Seq(Row) /\ Len(row') = Len(row) /\ Ids' = Ids
      /\ row'[cur] = r /\ \A j \in Ids : j # cur => row'[j] = row[j]
  BY <1>1, RowReplaced
<1>3. TypeOK'
  BY <1>2, QueueBounds DEF Handled, TypeOK, market, Signed, Pc, NoRow
<1>4. Busy'
  BY <1>2, NoRowNoId DEF Handled, Busy, Handling, Waiting
<1>5. QED
  BY <1>3, <1>4

LEMMA TypeInit == Init => TypeOK /\ Busy
<1> SUFFICES ASSUME Init PROVE TypeOK /\ Busy
  OBVIOUS
<1>1. row \in Seq(Row) /\ Len(row) = 0 /\ Ids = {}
  BY EmptySeq, LenProperties DEF Init, Ids
<1>2. unseen \in [Ids -> Nat]
  BY <1>1 DEF Init
<1>3. QED
  BY <1>1, <1>2, QueueBounds DEF Init, TypeOK, Busy, Handling, Waiting, Signed, Pc, NoRow

LEMMA TypeStep == TypeOK /\ Busy /\ [Next]_vars => TypeOK' /\ Busy'
<1> SUFFICES ASSUME TypeOK, Busy, [Next]_vars PROVE TypeOK' /\ Busy'
  OBVIOUS
<1> USE QueueBounds DEF TypeOK, market, processor
<1>0. ASSUME pc \notin {"idle", "turn"} PROVE cur \in Ids /\ CurMarket \in Market
  BY <1>0, RowIds DEF Busy, Handling, Waiting, CurMarket, Row
<1>1. ASSUME NEW m \in Market, Open(m) PROVE TypeOK' /\ Busy'
  <2>1. qty' \in [Market -> Signed] /\ opened' \in [Market -> 0 .. MaxOpens]
    BY <1>1 DEF Open, Signed
  <2>2. QED
    BY <1>1, <2>1 DEF Open, Busy, Handling, Waiting, Ids
<1>2. ASSUME NEW m \in Market, Grow(m) PROVE TypeOK' /\ Busy'
  <2>1. qty' \in [Market -> Signed]
    BY <1>2, SizeFacts DEF Grow, Signed
  <2>2. unseen' \in [Ids -> Nat]
    BY <1>2 DEF Grow
  <2>3. QED
    BY <1>2, <2>1, <2>2 DEF Grow, Busy, Handling, Waiting, Ids
<1>3. ASSUME NEW m \in Market, EndElsewhere(m) PROVE TypeOK' /\ Busy'
  BY <1>3 DEF EndElsewhere, Signed, Busy, Handling, Waiting, Ids
<1>4. ASSUME NEW m \in Market, Reconnect(m) PROVE TypeOK' /\ Busy'
  BY <1>4 DEF Reconnect, Busy, Handling, Waiting, Ids
<1>5. ASSUME NEW m \in Market, Enqueue(m) PROVE TypeOK' /\ Busy'
  <2> DEFINE r == [market |-> m, position |-> opened[m], attempts |-> 0, by |-> "waiting"]
  <2>1. r \in Row
    BY <1>5 DEF Enqueue, Row
  <2>2. row' = Append(row, r)
    BY <1>5 DEF Enqueue
  <2>3. /\ row' \in Seq(Row) /\ Len(row') = Len(row) + 1
        /\ Ids' = Ids \cup {Len(row) + 1} /\ Len(row) + 1 \notin Ids
        /\ row'[Len(row) + 1] = r /\ \A j \in Ids : row'[j] = row[j]
    BY <2>1, <2>2, RowAppended
  <2>4. unseen' \in [Ids' -> Nat]
    BY <1>5, <2>3 DEF Enqueue
  <2>5. TypeOK'
    BY <1>5, <2>3, <2>4, RowIds DEF Enqueue
  <2>6. Waiting \subseteq Waiting'
    BY <2>3 DEF Waiting
  <2>7. QED
    BY <1>5, <2>5, <2>6 DEF Enqueue, Busy, Handling
<1>6. CASE TickBegin
  <2>1. due' \subseteq Waiting
    BY <1>6 DEF TickBegin, Batch
  <2>2. QED
    BY <1>6, <2>1, RowIds DEF TickBegin, Busy, Handling, Waiting, Ids, Pc
<1>7. CASE RowTaken
  <2>1. PICK i \in due : due' = due \ {i} /\ IF row[i].market \in creds
                                            THEN pc' = "asked" /\ cur' = i
                                            ELSE UNCHANGED <<pc, cur>>
    BY <1>7 DEF RowTaken
  <2>2. QED
    BY <1>7, <2>1, NoRowNoId DEF RowTaken, Busy, Handling, Waiting, Ids, Pc
<1>8. CASE TickEnd
  BY <1>8 DEF TickEnd, Busy, Handling, Waiting, Ids, Pc
<1>9. CASE PositionRead
  <2>1. /\ amount' \in Signed
        /\ Size(qty[CurMarket]) - Size(amount') \in Nat
    BY <1>9, <1>0 DEF PositionRead, Signed, Size
  <2>2. unseen' \in [Ids -> Nat]
    BY <2>1, <1>9, <1>0 DEF PositionRead
  <2>3. QED
    BY <2>1, <2>2, <1>9, <1>0 DEF PositionRead, Busy, Handling, Waiting, Ids, Pc
<1>10. CASE ClosePosted
  BY <1>10 DEF ClosePosted, Busy, Handling, Waiting, Ids, Pc
<1>11. CASE CloseFills
  <2>1. qty' \in [Market -> Signed]
    BY <1>11, <1>0, SizeFacts DEF CloseFills, Same
  <2>2. QED
    BY <1>11, <2>1 DEF CloseFills, Busy, Handling, Waiting, Ids, Pc
<1>12. CASE Outcome
  BY <1>12, OutcomeHandles, HandledTyped
<1>13. CASE Restart
  BY <1>13 DEF Restart, Busy, Handling, Waiting, Ids, Pc, Signed, NoRow
<1>14. CASE UNCHANGED vars
  BY <1>14 DEF vars, Busy, Handling, Waiting, Ids
<1>15. QED
  BY <1>1, <1>2, <1>3, <1>4, <1>5, <1>6, <1>7, <1>8, <1>9, <1>10, <1>11, <1>12, <1>13, <1>14
     DEF Next, Process, Outcome

(* Every variable keeps its type.                                          *)
THEOREM TypeCorrect == Spec => []TypeOK
<1>1. Init => TypeOK /\ Busy
  BY TypeInit
<1>2. (TypeOK /\ Busy) /\ [Next]_vars => (TypeOK /\ Busy)'
  BY TypeStep
<1>3. QED
  BY <1>1, <1>2, PTL DEF Spec
-----------------------------------------------------------------------------
(* What any step does to the rows that are there: only the row being       *)
(* handled may change, and neither the position it stands for nor, by more *)
(* than one attempt, its count.                                            *)
LEMMA RowsStep ==
  ASSUME TypeOK, Busy, [Next]_vars, NEW i \in Ids
  PROVE  /\ i \in Ids' /\ row'[i].market = row[i].market /\ row'[i].position = row[i].position
         /\ i # cur => row'[i] = row[i]
         /\ i = cur => row'[i] = row[i] \/ Handled
<1> USE DEF market, processor
<1>1. ASSUME NEW m \in Market, Enqueue(m) PROVE i \in Ids' /\ row'[i] = row[i]
  <2> DEFINE r == [market |-> m, position |-> opened[m], attempts |-> 0, by |-> "waiting"]
  <2>1. r \in Row /\ row' = Append(row, r)
    BY <1>1, QueueBounds DEF Enqueue, Row, TypeOK
  <2>2. QED
    BY <2>1, RowAppended
<1>2. CASE Outcome
  <2>1. cur \in Ids /\ Handled
    BY <1>2, OutcomeHandles
  <2>2. PICK r \in Row : /\ row' = [row EXCEPT ![cur] = r]
                         /\ r.market = row[cur].market /\ r.position = row[cur].position
    BY <2>1 DEF Handled
  <2>3. QED
    BY <2>1, <2>2, RowReplaced
<1>3. CASE ~Outcome /\ \A m \in Market : ~Enqueue(m)
  <2>1. row' = row
    BY <1>3 DEF Outcome, Next, Process, Open, Grow, EndElsewhere, Reconnect, TickBegin, RowTaken, TickEnd,
                PositionRead, ClosePosted, CloseFills, Restart, vars
  <2>2. QED
    BY <2>1 DEF Ids
<1>4. QED
  BY <1>1, <1>2, <1>3

(* A resolved row is never handled again.                                  *)
THEOREM ResolvedForGood == Spec => ResolvedFinal
<1>1. TypeOK /\ Busy /\ [Next]_vars =>
        [\A i \in Ids : row[i].by # "waiting" => row'[i] = row[i] /\ cur' # i]_vars
  <2> SUFFICES ASSUME TypeOK, Busy, [Next]_vars, NEW i \in Ids, row[i].by # "waiting"
               PROVE  row'[i] = row[i] /\ cur' # i
    OBVIOUS
  <2>1. i # cur /\ i \notin due
    BY NoRowNoId DEF Busy, Waiting
  <2>2. row'[i] = row[i]
    BY <2>1, RowsStep
  <2>3. TypeOK' /\ Busy' /\ i \in Ids'
    BY TypeStep, RowsStep
  <2>4. QED
    BY <2>2, <2>3, NoRowNoId DEF Busy, Waiting
<1>2. QED
  BY <1>1, TypeInit, TypeStep, PTL DEF Spec, ResolvedFinal
-----------------------------------------------------------------------------
(* Rows stand for positions that have been open.                           *)
KnownRows == \A i \in Ids : row[i].position <= opened[row[i].market]

(* What the processor knows of the position of its row, as long as that is *)
(* the market's latest: it ended, or is still on the side the exchange     *)
(* reported, and holds no more than was reported and what was not; an      *)
(* order is only sent for a quantity that was reported; and once the close *)
(* is executed, only what was not reported is left.                        *)
Tracked ==
    cur # NoRow /\ Queued(cur, CurMarket) =>
        /\ pc \in {"answered", "posted"} =>
              /\ qty[CurMarket] = 0 \/ amount = 0 \/ Same(amount, qty[CurMarket])
              /\ Size(qty[CurMarket]) <= Size(amount) + unseen[cur]
        /\ pc = "posted" => amount # 0
        /\ pc = "filled" => Size(qty[CurMarket]) <= unseen[cur]

GoneInv == TypeOK /\ Busy /\ KnownRows /\ Tracked /\ DoneAsReported

LEMMA KnownRowsStep ==
  ASSUME TypeOK, Busy, KnownRows, [Next]_vars
  PROVE  KnownRows'
<1> USE DEF market, processor
<1>1. ASSUME NEW m \in Market, Enqueue(m) PROVE KnownRows'
  <2> DEFINE r == [market |-> m, position |-> opened[m], attempts |-> 0, by |-> "waiting"]
  <2>1. r \in Row /\ row' = Append(row, r) /\ opened' = opened /\ opened[m] \in Nat
    BY <1>1, QueueBounds DEF Enqueue, Row, TypeOK
  <2>2. /\ Ids' = Ids \cup {Len(row) + 1} /\ row'[Len(row) + 1] = r
        /\ \A j \in Ids : row'[j] = row[j]
    BY <2>1, RowAppended
  <2>3. r.position <= opened[r.market]
    BY <2>1
  <2>4. QED
    BY <2>1, <2>2, <2>3 DEF KnownRows
<1>2. CASE Outcome
  <2>1. Handled /\ cur \in Ids
    BY <1>2, OutcomeHandles
  <2>2. PICK r \in Row : /\ row' = [row EXCEPT ![cur] = r]
                         /\ r.market = row[cur].market /\ r.position = row[cur].position
    BY <2>1 DEF Handled
  <2>3. Ids' = Ids /\ opened' = opened /\ row'[cur] = r /\ \A j \in Ids : j # cur => row'[j] = row[j]
    BY <2>1, <2>2, RowReplaced DEF Handled
  <2>4. QED
    BY <2>2, <2>3 DEF KnownRows
<1>3. ASSUME NEW m \in Market, Open(m) PROVE KnownRows'
  <2>1. \A i \in Ids : row[i].market \in Market /\ row[i].position \in Nat
    BY RowIds, QueueBounds DEF Row
  <2>2. row' = row /\ opened' = [opened EXCEPT ![m] = @ + 1] /\ opened \in [Market -> Nat]
    BY <1>3, QueueBounds DEF Open, TypeOK
  <2>3. \A k \in Market : opened[k] \in Nat /\ opened'[k] \in Nat /\ opened[k] <= opened'[k]
    BY <2>2
  <2>4. QED
    BY <2>1, <2>2, <2>3 DEF KnownRows, Ids
<1>4. CASE ~Outcome /\ \A m \in Market : ~Enqueue(m) /\ ~Open(m)
  <2>1. row' = row /\ opened' = opened
    BY <1>4 DEF Outcome, Next, Process, Grow, EndElsewhere, Reconnect, TickBegin, RowTaken, TickEnd,
                PositionRead, ClosePosted, CloseFills, Restart, vars
  <2>2. QED
    BY <2>1 DEF KnownRows, Ids
<1>5. QED
  BY <1>1, <1>2, <1>3, <1>4

(* A step that leaves the markets and the rows alone keeps the promise     *)
(* about resolved rows.                                                    *)
LEMMA GoneQuiet ==
  ASSUME DoneAsReported, UNCHANGED <<qty, opened, row, unseen>>
  PROVE  DoneAsReported'
  BY DEF DoneAsReported, Queued, Ids

(* What is left of a row's position when its close is over.                *)
LEMMA OutcomeTrue ==
  ASSUME TypeOK, Busy, Tracked, Outcome, NEW m \in Market,
         row'[cur].by \in {"flat", "closed"}, row[cur].by = "waiting", Queued(cur, m)
  PROVE  Size(qty[m]) <= unseen[cur]
<1>1. cur \in Ids /\ cur # NoRow /\ m = CurMarket
  BY OutcomeHandles, NoRowNoId DEF Queued, CurMarket
<1>2. unseen[cur] \in Nat /\ qty[m] \in Signed
  BY <1>1 DEF TypeOK
<1>3. CASE TransientError
  <2>1. row[cur] \in Row /\ row \in Seq(Row)
    BY <1>1, RowIds DEF TypeOK
  <2>2. row'[cur].by \notin {"flat", "closed"}
    <3>1. CASE row' = [row EXCEPT ![cur] = [row[cur] EXCEPT !.by = "gave_up"]]
      BY <3>1, <2>1, <1>1, LenProperties DEF Row, Ids
    <3>2. CASE row' = [row EXCEPT ![cur] = [row[cur] EXCEPT !.attempts = row[cur].attempts + 1]]
      BY <3>2, <2>1, <1>1, LenProperties DEF Row, Ids
    <3>3. QED
      BY <3>1, <3>2, <1>1, <1>3, AttemptHandles
  <2>3. QED
    BY <2>2
<1>4. CASE PermanentError
  <2>1. row' = [row EXCEPT ![cur] = [row[cur] EXCEPT !.by = "permanent"]]
    BY <1>1, <1>4, ResolveHandles DEF PermanentError, Resolution
  <2>2. row[cur] \in Row /\ row \in Seq(Row)
    BY <1>1, RowIds DEF TypeOK
  <2>3. QED
    BY <2>1, <2>2, <1>1, LenProperties DEF Row, Ids
<1>5. CASE RowClosed
  BY <1>1, <1>5 DEF RowClosed, Tracked
<1>6. CASE FoundFlat
  <2>1. Size(qty[m]) <= Size(0) + unseen[cur]
    BY <1>1, <1>6 DEF FoundFlat, Tracked
  <2>2. QED
    BY <2>1, <1>2 DEF Size
<1>8. CASE ReduceOnlyRejected
  <2>1. qty[m] = 0
    BY <1>1, <1>8 DEF ReduceOnlyRejected, Tracked
  <2>2. QED
    BY <2>1, <1>2 DEF Size
<1>7. QED
  BY <1>3, <1>4, <1>5, <1>6, <1>8 DEF Outcome

LEMMA GoneStep ==
  ASSUME GoneInv, [Next]_vars
  PROVE  Tracked' /\ DoneAsReported'
<1> USE DEF GoneInv, market, processor
<1>0. /\ \A i \in Ids : row[i].market \in Market /\ row[i].position \in Nat /\ unseen[i] \in Nat
      /\ qty \in [Market -> Signed] /\ opened \in [Market -> Nat]
  <2>1. opened \in [Market -> Nat] /\ \A i \in Ids : unseen[i] \in Nat
    BY QueueBounds DEF TypeOK
  <2>2. \A i \in Ids : row[i].market \in Market /\ row[i].position \in Nat
    BY RowIds, QueueBounds DEF Row
  <2>3. QED
    BY <2>1, <2>2 DEF TypeOK
<1>1. ASSUME NEW m \in Market, Open(m) PROVE Tracked' /\ DoneAsReported'
  <2>1. \A i \in Ids : ~Queued(i, m)'
    BY <1>0, <1>1 DEF Open, Queued, KnownRows
  <2>2. \A k \in Market : k # m => qty'[k] = qty[k] /\ opened'[k] = opened[k]
    BY <1>0, <1>1 DEF Open
  <2>3. UNCHANGED <<row, unseen, pc, cur, amount>>
    BY <1>1 DEF Open
  <2>4. DoneAsReported'
    BY <2>1, <2>2, <2>3 DEF DoneAsReported, Queued, Ids
  <2>5. Tracked'
    BY <2>1, <2>2, <2>3, <1>0 DEF Tracked, Queued, CurMarket, Ids, Busy, Waiting
  <2>6. QED
    BY <2>4, <2>5
<1>2. ASSUME NEW m \in Market, Grow(m) PROVE Tracked' /\ DoneAsReported'
  <2>1. UNCHANGED <<row, opened, pc, cur, amount>> /\ qty' = [qty EXCEPT ![m] = Grown(@)]
    BY <1>2 DEF Grow
  <2>2. \A i \in Ids : unseen'[i] = IF Queued(i, m) THEN unseen[i] + 1 ELSE unseen[i]
    BY <1>2 DEF Grow
  <2>3. qty[m] # 0 /\ Size(qty'[m]) = Size(qty[m]) + 1 /\ (Same(amount, qty[m]) => Same(amount, qty'[m]))
    BY <1>0, <1>2, <2>1, SizeFacts DEF Grow, TypeOK
  <2>4. \A k \in Market : k # m => qty'[k] = qty[k]
    BY <2>1, <1>0
  <2>5. \A k \in Market : Size(qty[k]) \in Nat /\ Size(amount) \in Nat
    BY <1>0, SizeNat DEF TypeOK
  <2>6. DoneAsReported'
    BY <2>1, <2>2, <2>3, <2>4, <2>5, <1>0 DEF DoneAsReported, Queued, Ids
  <2>7. Tracked'
    <3> SUFFICES ASSUME cur # NoRow, Queued(cur, CurMarket)
                 PROVE  /\ pc \in {"answered", "posted"} =>
                              /\ qty'[CurMarket] = 0 \/ amount = 0 \/ Same(amount, qty'[CurMarket])
                              /\ Size(qty'[CurMarket]) <= Size(amount) + unseen'[cur]
                        /\ pc = "posted" => amount # 0
                        /\ pc = "filled" => Size(qty'[CurMarket]) <= unseen'[cur]
      BY <2>1 DEF Tracked, Queued, CurMarket
    <3>1. cur \in Ids /\ CurMarket \in Market
      BY <1>0 DEF Busy, Waiting, CurMarket
    <3>2. CASE CurMarket = m
      BY <3>1, <3>2, <2>2, <2>3, <2>5, <1>0 DEF Tracked
    <3>3. CASE CurMarket # m
      <4>1. qty'[CurMarket] = qty[CurMarket] /\ unseen'[cur] = unseen[cur]
        BY <3>1, <3>3, <2>2, <2>4 DEF Queued, CurMarket
      <4>2. QED
        BY <4>1 DEF Tracked
    <3>4. QED
      BY <3>2, <3>3
  <2>8. QED
    BY <2>6, <2>7
<1>3. ASSUME NEW m \in Market, EndElsewhere(m) PROVE Tracked' /\ DoneAsReported'
  <2>1. \A k \in Market : qty'[k] = qty[k] \/ qty'[k] = 0
    BY <1>0, <1>3 DEF EndElsewhere
  <2>2. UNCHANGED <<row, unseen, opened, pc, cur, amount>> /\ Size(0) = 0
    BY <1>3 DEF EndElsewhere, Size
  <2>3. DoneAsReported'
    BY <2>1, <2>2, <1>0 DEF DoneAsReported, Queued, Ids
  <2>4. Tracked'
    <3> SUFFICES ASSUME cur # NoRow, Queued(cur, CurMarket)
                 PROVE  /\ pc \in {"answered", "posted"} =>
                              /\ qty'[CurMarket] = 0 \/ amount = 0 \/ Same(amount, qty'[CurMarket])
                              /\ Size(qty'[CurMarket]) <= Size(amount) + unseen[cur]
                        /\ pc = "posted" => amount # 0
                        /\ pc = "filled" => Size(qty'[CurMarket]) <= unseen[cur]
      BY <2>2 DEF Tracked, Queued, CurMarket
    <3>1. cur \in Ids /\ CurMarket \in Market
      BY <1>0 DEF Busy, Waiting, CurMarket
    <3>2. Size(amount) \in Nat /\ unseen[cur] \in Nat
      BY <3>1, <1>0, SizeNat DEF TypeOK
    <3>3. CASE qty'[CurMarket] = qty[CurMarket]
      BY <3>3 DEF Tracked
    <3>4. CASE qty'[CurMarket] = 0
      BY <3>2, <3>4, <2>2 DEF Tracked
    <3>5. QED
      BY <2>1, <3>1, <3>3, <3>4
  <2>5. QED
    BY <2>3, <2>4
<1>4. ASSUME NEW m \in Market, Reconnect(m) PROVE Tracked' /\ DoneAsReported'
  BY <1>4, GoneQuiet DEF Reconnect, Tracked, Queued, CurMarket
<1>5. ASSUME NEW m \in Market, Enqueue(m) PROVE Tracked' /\ DoneAsReported'
  <2> DEFINE r == [market |-> m, position |-> opened[m], attempts |-> 0, by |-> "waiting"]
  <2>1. r \in Row /\ row' = Append(row, r)
    BY <1>5, QueueBounds DEF Enqueue, Row, TypeOK
  <2>2. /\ Ids' = Ids \cup {Len(row) + 1} /\ row'[Len(row) + 1] = r
        /\ \A j \in Ids : row'[j] = row[j] /\ unseen'[j] = unseen[j]
    BY <1>5, <2>1, RowAppended DEF Enqueue
  <2>3. UNCHANGED <<qty, opened, pc, cur, amount>>
    BY <1>5 DEF Enqueue
  <2>4. DoneAsReported'
    BY <2>2, <2>3 DEF DoneAsReported, Queued
  <2>5. Tracked'
    BY <2>2, <2>3 DEF Tracked, Queued, CurMarket, Busy, Waiting
  <2>6. QED
    BY <2>4, <2>5
<1>6. CASE TickBegin \/ TickEnd
  BY <1>6, GoneQuiet DEF TickBegin, TickEnd, Tracked, Queued, CurMarket
<1>7. CASE RowTaken
  <2>1. UNCHANGED <<qty, opened, row, unseen>> /\ pc' \in {"turn", "asked"}
    BY <1>7 DEF RowTaken
  <2>2. QED
    BY <2>1, GoneQuiet DEF Tracked
<1>8. CASE PositionRead
  <2>1. cur \in Waiting /\ cur \in Ids /\ CurMarket \in Market
    BY <1>8, <1>0 DEF PositionRead, Busy, Handling, Waiting, CurMarket
  <2>2. /\ UNCHANGED <<qty, opened, row, cur>> /\ pc' = "answered"
        /\ amount' = qty[CurMarket] \/ amount' = 0
        /\ unseen'[cur] = Size(qty[CurMarket]) - Size(amount')
        /\ \A i \in Ids : i # cur => unseen'[i] = unseen[i]
    BY <1>8, <2>1 DEF PositionRead, TypeOK
  <2>3. DoneAsReported'
    BY <2>1, <2>2 DEF DoneAsReported, Waiting, Queued, Ids
  <2>4. qty[CurMarket] = 0 \/ amount' = 0 \/ Same(amount', qty[CurMarket])
    BY <2>1, <2>2, <1>0 DEF Same, Signed
  <2>5. Size(qty[CurMarket]) <= Size(amount') + unseen'[cur]
    <3>1. Size(qty[CurMarket]) \in Nat /\ Size(0) \in Nat
      BY <2>1, <1>0, SizeNat DEF Size
    <3>2. QED
      BY <2>2, <3>1
  <2>6. Tracked'
    BY <2>2, <2>4, <2>5 DEF Tracked, CurMarket
  <2>7. QED
    BY <2>3, <2>6
<1>9. CASE ClosePosted
  BY <1>9, GoneQuiet DEF ClosePosted, Tracked, Queued, CurMarket
<1>10. CASE CloseFills
  <2>1. cur \in Ids /\ CurMarket \in Market
    BY <1>10, <1>0 DEF CloseFills, Busy, Handling, Waiting, CurMarket
  <2>2. /\ qty'[CurMarket] = Less(qty[CurMarket], amount)
        /\ \A k \in Market : k # CurMarket => qty'[k] = qty[k]
        /\ UNCHANGED <<opened, row, unseen, cur>> /\ pc = "posted" /\ pc' = "filled"
        /\ Same(amount, qty[CurMarket])
    BY <1>10, <2>1, <1>0 DEF CloseFills
  <2>3. /\ Size(qty[CurMarket]) \in Nat /\ Size(amount) \in Nat
        /\ Size(qty'[CurMarket]) = IF Size(qty[CurMarket]) <= Size(amount) THEN 0
                                   ELSE Size(qty[CurMarket]) - Size(amount)
    BY <2>1, <2>2, <1>0, SizeFacts, QueueBounds DEF TypeOK, Same
  <2>4. \A k \in Market : Size(qty'[k]) <= Size(qty[k]) /\ Size(qty'[k]) \in Nat /\ Size(qty[k]) \in Nat
    BY <2>1, <2>2, <2>3, <1>0, SizeFacts, QueueBounds
  <2>5. DoneAsReported'
    BY <2>2, <2>4, <1>0 DEF DoneAsReported, Queued, Ids
  <2>6. Tracked'
    <3> SUFFICES ASSUME cur # NoRow, Queued(cur, CurMarket)
                 PROVE  Size(qty'[CurMarket]) <= unseen[cur]
      BY <2>2 DEF Tracked, Queued, CurMarket
    <3>1. Size(qty[CurMarket]) <= Size(amount) + unseen[cur]
      BY <2>2 DEF Tracked
    <3>2. QED
      BY <3>1, <2>1, <2>2, <2>3, <1>0 DEF Same
  <2>7. QED
    BY <2>5, <2>6
<1>11. CASE Outcome
  <2>1. Handled /\ cur \in Ids
    BY <1>11, OutcomeHandles
  <2>2. PICK r \in Row : /\ row' = [row EXCEPT ![cur] = r]
                         /\ r.market = row[cur].market /\ r.position = row[cur].position
    BY <2>1 DEF Handled
  <2>3. /\ Ids' = Ids /\ UNCHANGED <<qty, opened, unseen>> /\ row'[cur] = r
        /\ \A j \in Ids : j # cur => row'[j] = row[j]
    BY <2>1, <2>2, RowReplaced DEF Handled
  <2>4. row[cur].by = "waiting"
    BY <2>1, NoRowNoId DEF Busy, Waiting
  <2>5. \A m \in Market : row'[cur].by \in {"flat", "closed"} /\ Queued(cur, m) => Size(qty[m]) <= unseen[cur]
    BY <1>11, <2>4, OutcomeTrue
  <2>6. DoneAsReported'
    BY <2>2, <2>3, <2>5 DEF DoneAsReported, Queued
  <2>7. Tracked'
    BY <2>1 DEF Handled, Tracked
  <2>8. QED
    BY <2>6, <2>7
<1>12. CASE Restart
  BY <1>12, GoneQuiet DEF Restart, Tracked
<1>13. CASE UNCHANGED vars
  BY <1>13, GoneQuiet DEF vars, Tracked, Queued, CurMarket
<1>14. QED
  BY <1>1, <1>2, <1>3, <1>4, <1>5, <1>6, <1>7, <1>8, <1>9, <1>10, <1>11, <1>12, <1>13
     DEF Next, Process, Outcome

(* A row resolved as closed or flat leaves open only what was not reported.*)
THEOREM DoneIsAsReported == Spec => []DoneAsReported
<1>1. Init => GoneInv
  <2> SUFFICES ASSUME Init PROVE GoneInv
    OBVIOUS
  <2>1. Ids = {} /\ cur = NoRow
    BY EmptySeq, LenProperties DEF Init, Ids
  <2>2. QED
    BY <2>1, TypeInit DEF GoneInv, KnownRows, Tracked, DoneAsReported
<1>2. GoneInv /\ [Next]_vars => GoneInv'
  BY TypeStep, KnownRowsStep, GoneStep DEF GoneInv
<1>3. GoneInv => DoneAsReported
  BY DEF GoneInv
<1>4. QED
  BY <1>1, <1>2, <1>3, PTL DEF Spec
-----------------------------------------------------------------------------
(* The order of the queue, when no account is ever removed: the row being  *)
(* handled comes before those still due, and a fresh row the tick has to   *)
(* leave out, or has not reached, goes with a tick of fresh rows only.     *)
Ordered ==
    /\ creds = Market
    /\ cur # NoRow => \A j \in due : Before(cur, j)
    /\ pc # "idle" =>
          \A q \in Waiting : q <= horizon /\ row[q].attempts = 0 /\ q \notin due \cup {cur} =>
              \A i \in (due \cup {cur}) \ {NoRow} : row[i].attempts = 0

LEMMA WaitingTyped ==
    TypeOK => \A i \in Waiting : i \in Nat /\ i \in Ids /\ row[i].attempts \in Nat
                                 /\ row[i].market \in Market
<1> SUFFICES ASSUME TypeOK, NEW i \in Waiting
             PROVE  i \in Nat /\ i \in Ids /\ row[i].attempts \in Nat /\ row[i].market \in Market
  OBVIOUS
<1>1. i \in Ids /\ i \in Nat /\ row[i] \in Row
  BY RowIds DEF Waiting
<1>2. QED
  BY <1>1, QueueBounds DEF Row

(* A batch that leaves out a fresh row holds fresh rows only.              *)
LEMMA BatchFresh ==
  ASSUME TypeOK, NEW q \in Waiting, row[q].attempts = 0, q \notin Batch, NEW i \in Batch
  PROVE  row[i].attempts = 0
<1> DEFINE Ahead(k) == {j \in Waiting : Before(j, k)}
<1>1. i \in Waiting
  BY DEF Batch
<1>2. SUFFICES ASSUME row[i].attempts # 0 PROVE FALSE
  OBVIOUS
<1>3. row[i].attempts > 0
  BY <1>1, <1>2, WaitingTyped
<1>4. Ahead(q) \subseteq Ahead(i)
  BY <1>1, <1>3, WaitingTyped DEF Before
<1>5. IsFiniteSet(Ahead(i)) /\ IsFiniteSet(Ahead(q))
  <2>1. Ahead(i) \in SUBSET (1 .. Len(row)) /\ Ahead(q) \in SUBSET (1 .. Len(row)) /\ Len(row) \in Int
    BY RowIds DEF Waiting
  <2>2. IsFiniteSet(1 .. Len(row))
    BY <2>1, FS_Interval
  <2>3. QED
    BY <2>1, <2>2, FS_Subset
<1>6. Cardinality(Ahead(q)) <= Cardinality(Ahead(i))
  BY <1>4, <1>5, FS_Subset
<1>7. Cardinality(Ahead(i)) < BatchSize /\ ~(Cardinality(Ahead(q)) < BatchSize)
  BY DEF Batch
<1>8. Cardinality(Ahead(q)) \in Nat /\ Cardinality(Ahead(i)) \in Nat
  BY <1>5, FS_CardinalityType
<1>9. QED
  BY <1>6, <1>7, <1>8, QueueBounds

(* A row that was handled is resolved or no longer fresh.                  *)
LEMMA OutcomeCounts ==
  ASSUME TypeOK, Busy, Outcome
  PROVE  row'[cur].by # "waiting" \/ row'[cur].attempts # 0
<1>1. cur \in Ids /\ cur \in 1 .. Len(row) /\ row[cur] \in Row /\ row \in Seq(Row)
  BY OutcomeHandles, RowIds DEF TypeOK
<1>2. \A r : row' = [row EXCEPT ![cur] = r] => row'[cur] = r
  BY <1>1, LenProperties DEF Ids
<1>3. ASSUME NEW by \in Resolution, Resolve(by) PROVE row'[cur].by # "waiting"
  <2>1. row' = [row EXCEPT ![cur] = [row[cur] EXCEPT !.by = by]]
    BY <1>1, <1>3, ResolveHandles
  <2>2. row'[cur].by = by
    BY <1>1, <1>2, <2>1 DEF Row
  <2>3. QED
    BY <2>2 DEF Resolution
<1>4. CASE TransientError
  <2>1. CASE row' = [row EXCEPT ![cur] = [row[cur] EXCEPT !.by = "gave_up"]]
    BY <1>1, <1>2, <2>1 DEF Row
  <2>2. CASE row' = [row EXCEPT ![cur] = [row[cur] EXCEPT !.attempts = row[cur].attempts + 1]]
    <3>1. row'[cur].attempts = row[cur].attempts + 1 /\ row[cur].attempts \in Nat
      BY <1>1, <1>2, <2>2, QueueBounds DEF Row
    <3>2. QED
      BY <3>1
  <2>3. QED
    BY <2>1, <2>2, <1>1, <1>4, AttemptHandles
<1>5. QED
  BY <1>3, <1>4 DEF Outcome, FoundFlat, RowClosed, ReduceOnlyRejected, PermanentError, Resolution

LEMMA OrderedStep ==
  ASSUME ~MayDisconnect, TypeOK, Busy, Ordered, [Next]_vars
  PROVE  Ordered'
<1> USE DEF market, processor
<1>1. CASE UNCHANGED <<creds, row, pc, due, cur, horizon>>
  BY <1>1 DEF Ordered, Before, Waiting, Ids
<1>2. ASSUME NEW m \in Market, Enqueue(m) PROVE Ordered'
  <2> DEFINE r == [market |-> m, position |-> opened[m], attempts |-> 0, by |-> "waiting"]
  <2>1. r \in Row /\ row' = Append(row, r)
    BY <1>2, QueueBounds DEF Enqueue, Row, TypeOK
  <2>2. Ids' = Ids \cup {Len(row) + 1} /\ \A j \in Ids : row'[j] = row[j]
    BY <2>1, RowAppended
  <2>3. UNCHANGED <<creds, pc, due, cur, horizon>> /\ horizon <= Len(row) /\ Len(row) \in Nat /\ horizon \in Nat
    BY <1>2, RowIds DEF Enqueue, TypeOK
  <2>4. due \subseteq Ids /\ (cur # NoRow => cur \in Ids)
    BY DEF Busy, Waiting
  <2>5. \A q \in Waiting' : q <= horizon => q \in Waiting
    BY <2>2, <2>3 DEF Waiting
  <2>6. cur' # NoRow => \A j \in due' : Before(cur, j)'
    BY <2>2, <2>3, <2>4 DEF Ordered, Before
  <2>7. \A i \in (due \cup {cur}) \ {NoRow} : row'[i] = row[i]
    BY <2>2, <2>4
  <2>8. \A q \in Waiting' : q <= horizon => q \in Waiting /\ row'[q] = row[q]
    BY <2>2, <2>5 DEF Waiting
  <2>9. QED
    BY <2>3, <2>6, <2>7, <2>8 DEF Ordered
<1>3. CASE TickBegin
  <2>1. UNCHANGED <<creds, row, cur>> /\ cur = NoRow /\ due' = Batch
    BY <1>3 DEF TickBegin, Busy, Handling
  <2>2. \A q \in Waiting : row[q].attempts = 0 /\ q \notin Batch => \A i \in Batch : row[i].attempts = 0
    BY BatchFresh
  <2>3. QED
    BY <2>1, <2>2 DEF Ordered, Waiting, Ids
<1>4. CASE RowTaken
  <2>1. PICK i \in due : /\ \A j \in due \ {i} : Before(i, j)
                         /\ due' = due \ {i}
                         /\ row[i].market \in creds => pc' = "asked" /\ cur' = i
    BY <1>4 DEF RowTaken
  <2>2. row[i].market \in creds
    BY WaitingTyped DEF Busy, Ordered
  <2>3. UNCHANGED <<creds, row, horizon>> /\ cur = NoRow /\ pc = "turn" /\ cur' = i
    BY <1>4, <2>1, <2>2 DEF RowTaken, Busy, Handling
  <2>4. \A j \in due' : Before(cur, j)'
    BY <2>1, <2>3 DEF Before
  <2>5. Waiting' = Waiting /\ pc # "idle" /\ \A q \in Waiting : q # NoRow
    BY <2>3, NoRowNoId DEF Waiting, Ids
  <2>6. \A q : q \notin due' \cup {cur'} /\ q # NoRow => q \notin due \cup {cur}
    BY <2>1, <2>3
  <2>7. (due' \cup {cur'}) \ {NoRow} \subseteq (due \cup {cur}) \ {NoRow}
    BY <2>1, <2>3
  <2>8. QED
    BY <2>3, <2>4, <2>5, <2>6, <2>7 DEF Ordered
<1>5. CASE TickEnd \/ Restart
  BY <1>5 DEF TickEnd, Restart, Ordered, Busy, Handling
<1>6. CASE PositionRead \/ ClosePosted \/ CloseFills
  BY <1>6 DEF PositionRead, ClosePosted, CloseFills, Ordered, Before, Waiting, Ids
<1>7. CASE Outcome
  <2>1. Handled /\ cur \in Ids /\ cur \notin due
    BY <1>7, OutcomeHandles, NoRowNoId DEF Busy
  <2>2. PICK r \in Row : row' = [row EXCEPT ![cur] = r]
    BY <2>1 DEF Handled
  <2>3. /\ Ids' = Ids /\ UNCHANGED <<creds, due, horizon>> /\ cur' = NoRow /\ pc' = "turn"
        /\ \A j \in Ids : j # cur => row'[j] = row[j]
    BY <2>1, <2>2, RowReplaced DEF Handled
  <2>4. pc # "idle" /\ due \subseteq Ids
    BY <2>1, NoRowNoId DEF Busy, Handling, Waiting
  <2>5. \A q \in Waiting' : q <= horizon /\ row'[q].attempts = 0 => q \in Waiting /\ q # cur /\ row[q].attempts = 0
    BY <1>7, <2>3, OutcomeCounts DEF Waiting
  <2>6. QED
    BY <2>1, <2>3, <2>4, <2>5 DEF Ordered
<1>8. QED
  BY <1>1, <1>2, <1>3, <1>4, <1>5, <1>6, <1>7
     DEF Next, Process, Outcome, vars, Open, Grow, EndElsewhere, Reconnect

(* Least tried first, when no account is ever removed.                     *)
THEOREM FreshFirst == ASSUME ~MayDisconnect PROVE Spec => []FreshRowFirst
<1> DEFINE QInv == TypeOK /\ Busy /\ Ordered
<1>1. Init => QInv
  BY TypeInit DEF Init, Ordered
<1>2. QInv /\ [Next]_vars => QInv'
  BY TypeStep, OrderedStep
<1>3. QInv => FreshRowFirst
  <2> SUFFICES ASSUME QInv, cur # NoRow, row[cur].attempts > 0,
                      NEW q \in Waiting, q <= horizon, row[q].attempts = 0
               PROVE  FALSE
    BY WaitingTyped DEF FreshRowFirst
  <2>1. pc # "idle" /\ cur \in Waiting
    BY DEF Busy, Handling
  <2>2. q # cur
    BY <2>1, WaitingTyped
  <2>3. q \notin due
    BY <2>1, WaitingTyped DEF Ordered, Before
  <2>4. QED
    BY <2>1, <2>2, <2>3, WaitingTyped DEF Ordered
<1>4. QED
  BY <1>1, <1>2, <1>3, PTL DEF Spec
=============================================================================
