----------------------- MODULE Reconciliation_proofs -----------------------
(***************************************************************************)
(* What a step does to the records is one of five things (BookMoves), and  *)
(* what it does to the reconciliation's own state is to keep it, to drop   *)
(* some of it, or one of three steps (CycleMoves).  The invariants are     *)
(* proved from these two.                                                  *)
(***************************************************************************)
EXTENDS Reconciliation, SequenceTheorems, TLAPS

Grows(l) == On(l) = {} /\ l \in Leg /\ \E b \in BOOLEAN : Makes(l, b)
Confirms == \E r \in filled :
    live' = live \cup ({r} \cap tracked) /\ UNCHANGED <<made, tracked, suspects, deferred>>
Marks ==
    /\ UNCHANGED <<made, tracked, live>>
    /\ suspects' \in SUBSET (suspects \cup (Missing \cap tracked))
    /\ deferred' \in SUBSET tracked

BookMoves ==
    \/ UNCHANGED book
    \/ \E l \in Leg : Grows(l)
    \/ \E rs : Closed(rs)
    \/ Confirms
    \/ Marks

BookOK ==
    /\ made \in Seq(Leg)
    /\ tracked \in SUBSET Record /\ live \in SUBSET tracked
    /\ suspects \in SUBSET tracked /\ deferred \in SUBSET tracked

(* Adoption makes a record of an untracked leg or changes nothing.         *)
LEMMA AdoptsMoves ==
    ASSUME NEW l \in Leg, Adopts(l) PROVE BookMoves
  <1>1. CASE On(l) = {}
    BY <1>1 DEF Adopts, BookMoves, Grows
  <1>2. CASE On(l) # {}
    BY <1>2 DEF Adopts, BookMoves
  <1> QED BY <1>1, <1>2

LEMMA DropsMoves == ASSUME NEW r, Drops(r) PROVE BookMoves
  BY DEF Drops, BookMoves

LEMMA EndedMoves == ASSUME BookOK, NEW l \in Leg, Ended(l) PROVE BookMoves
  <1>1. CASE UNCHANGED book
    BY <1>1 DEF BookMoves
  <1>2. CASE \E r \in On(l) : Drops(r)
    BY <1>2, DropsMoves
  <1>3. CASE deferred' = deferred \cup On(l) /\ UNCHANGED <<made, tracked, live, suspects>>
    <2>1. deferred' \in SUBSET tracked
      BY <1>3 DEF BookOK, On
    <2>2. Marks
      BY <1>3, <2>1 DEF Marks
    <2> QED BY <2>2 DEF BookMoves
  <1> QED BY <1>1, <1>2, <1>3 DEF Ended

LEMMA SoldMoves == ASSUME BookOK, NEW l \in Leg, Sold(l) PROVE BookMoves
  <1>1. CASE Ended(l)
    BY <1>1, EndedMoves
  <1>2. CASE UNCHANGED book
    BY <1>2 DEF BookMoves
  <1> QED BY <1>1, <1>2 DEF Sold

LEMMA BoughtMoves == ASSUME NEW l \in Leg, Bought(l) PROVE BookMoves
  <1>1. CASE Adopts(l)
    BY <1>1, AdoptsMoves
  <1>2. CASE UNCHANGED book
    BY <1>2 DEF BookMoves
  <1> QED BY <1>1, <1>2 DEF Bought

LEMMA LegOfRecord == ASSUME BookOK, NEW r \in Record PROVE made[r] \in Leg
  BY DEF BookOK, Record
-----------------------------------------------------------------------------
AskOK == phase = "ask" => asked \in [leg : Leg, seq : 0 .. Len(made)]

(* Every step moves the records in one of the five ways.                   *)
LEMMA LegStepMoves ==
    ASSUME BookOK, NEW l \in Leg,
           EndsElsewhere(l) \/ Decide(l) \/ AppOrder(l) \/ Register(l)
    PROVE  BookMoves
  <1>1. CASE EndsElsewhere(l)
    BY <1>1, EndedMoves DEF EndsElsewhere
  <1>2. CASE Decide(l)
    BY <1>2 DEF Decide, BookMoves, Grows
  <1>3. CASE AppOrder(l)
    BY <1>3, BoughtMoves DEF AppOrder
  <1>4. CASE Register(l)
    <2>1. CASE Adopts(l)
      BY <2>1, AdoptsMoves
    <2>2. CASE UNCHANGED book
      BY <2>2 DEF BookMoves
    <2> QED BY <1>4, <2>1, <2>2 DEF Register
  <1> QED BY <1>1, <1>2, <1>3, <1>4

LEMMA RecordStepMoves ==
    ASSUME BookOK, NEW r \in Record,
           OrderStep(r) \/ CloseAtMarket(r) \/ CloseByStop(r) \/ DeferredClose(r)
    PROVE  BookMoves
  <1> made[r] \in Leg
    BY LegOfRecord
  <1>1. CASE EntryExecutes(r)
    BY <1>1, BoughtMoves DEF EntryExecutes
  <1>2. CASE FillConfirmed(r)
    <2>1. Confirms
      BY <1>2 DEF FillConfirmed, Confirms
    <2> QED BY <2>1 DEF BookMoves
  <1>3. CASE EntryUnverified(r) \/ ExitFails(r)
    BY <1>3 DEF EntryUnverified, ExitFails, BookMoves, book
  <1>4. CASE EntryFails(r) \/ CloseAtMarket(r) \/ CloseByStop(r) \/ DeferredClose(r)
    BY <1>4, DropsMoves DEF EntryFails, CloseAtMarket, CloseByStop, DeferredClose
  <1>5. CASE ExitExecutes(r)
    BY <1>5, SoldMoves DEF ExitExecutes
  <1> QED BY <1>1, <1>2, <1>3, <1>4, <1>5 DEF OrderStep

LEMMA DistrustMoves == ASSUME Distrust PROVE BookMoves
  <1>1. CASE UNCHANGED <<book, exits, mishaps>>
    BY <1>1 DEF BookMoves, book
  <1>2. CASE \E young : Closed(snap \ young)
    BY <1>2 DEF BookMoves
  <1> QED BY <1>1, <1>2 DEF Distrust

LEMMA SiftMoves == ASSUME BookOK, Sift PROVE Marks
  <1>1. suspects' \in SUBSET (suspects \cup (Missing \cap tracked))
    BY DEF Sift
  <1>2. deferred' \in SUBSET tracked
    BY DEF Sift, BookOK
  <1> QED BY <1>1, <1>2 DEF Sift, Marks

LEMMA CycleStepMoves == ASSUME BookOK, AskOK, CycleStep PROVE BookMoves
  <1>1. CASE \/ CycleBegins \/ PollFails \/ PollReads \/ PhantomsOver \/ OrphanKept \/ CycleOver
             \/ \E l \in todo : LegTracked(l) \/ OrphanSeen(l) \/ OrphanConfirmed(l)
    BY <1>1 DEF BookMoves, CycleBegins, PollFails, PollReads, PhantomsOver, OrphanKept, CycleOver,
                LegTracked, OrphanSeen, OrphanConfirmed
  <1>2. CASE Distrust
    BY <1>2, DistrustMoves
  <1>3. CASE Sift
    BY <1>3, SiftMoves DEF BookMoves
  <1>4. CASE \E r \in doomed : PhantomClosed(r)
    BY <1>4, DropsMoves DEF PhantomClosed
  <1>5. CASE OrphanAdopted
    BY <1>5, AdoptsMoves DEF OrphanAdopted, Resolved, AskOK
  <1>6. CASE OrphanSold
    BY <1>6, SoldMoves DEF OrphanSold, Resolved, AskOK
  <1> QED BY <1>1, <1>2, <1>3, <1>4, <1>5, <1>6 DEF CycleStep

LEMMA RestartMoves == ASSUME BookOK, Restart PROVE Marks
  <1>1. suspects' = {} /\ deferred' = {}
    BY DEF Restart
  <1> QED BY <1>1 DEF Marks, Restart

LEMMA StepMoves == ASSUME BookOK, AskOK, [Step]_vars PROVE BookMoves
  <1>1. CASE CycleSkipped \/ UNCHANGED vars
    BY <1>1 DEF CycleSkipped, BookMoves, book, vars
  <1>2. CASE Restart
    BY <1>2, RestartMoves DEF BookMoves
  <1> QED BY <1>1, <1>2, LegStepMoves, RecordStepMoves, CycleStepMoves DEF Step
-----------------------------------------------------------------------------
(* What the five ways have in common.                                      *)
LEMMA Grown ==
    ASSUME BookOK, BookMoves
    PROVE  /\ made' \in Seq(Leg) /\ Record \subseteq Record' /\ Len(made) <= Len(made')
           /\ \A r \in Record : made'[r] = made[r]
           /\ \A r \in tracked' \ tracked :
                 /\ r = Len(made) + 1 /\ r \in Record' /\ \A q \in tracked : made'[q] # made'[r]
                 /\ \A q \in tracked' : q \in tracked \/ q = r
           /\ \A r \in live' \ live : r \in tracked \/ r = Len(made) + 1
           /\ live' \subseteq tracked'
  <1> made \in Seq(Leg) /\ tracked \subseteq Record /\ live \subseteq tracked
    BY DEF BookOK
  <1>1. CASE UNCHANGED <<made, tracked>> /\ live' \subseteq tracked
    BY <1>1 DEF Record
  <1>2. CASE \E l \in Leg : Grows(l)
    <2>0. PICK l \in Leg : Grows(l)
      BY <1>2
    <2>1. PICK b \in BOOLEAN : Makes(l, b)
      BY <2>0 DEF Grows
    <2> DEFINE n == Len(made) + 1
    <2>2. /\ made' = Append(made, l) /\ tracked' = tracked \cup {n}
          /\ live' \subseteq live \cup {n}
      BY <2>1 DEF Makes
    <2>3. made' \in Seq(Leg) /\ Len(made') = n /\ Record' = 1 .. n /\ Record = 1 .. Len(made)
      BY <2>2 DEF Record
    <2>4. (\A r \in Record : made'[r] = made[r]) /\ made'[n] = l
      BY <2>2, <2>3
    <2>5. \A q \in tracked : made[q] # l
      BY <2>0 DEF Grows, On
    <2> HIDE DEF n
    <2>6. Record \subseteq Record' /\ Len(made) <= Len(made') /\ n \in Record'
      BY <2>3 DEF n
    <2>7. \A r \in tracked' \ tracked : r = n
      BY <2>2
    <2>8. \A q \in tracked : made'[q] # made'[n]
      BY <2>4, <2>5
    <2> QED BY <2>2, <2>3, <2>4, <2>6, <2>7, <2>8 DEF n
  <1>3. CASE \E rs : Closed(rs)
    BY <1>3 DEF Closed, Record
  <1>4. CASE Confirms
    BY <1>4, <1>1 DEF Confirms
  <1>5. CASE Marks
    BY <1>5, <1>1 DEF Marks
  <1> QED BY <1>1, <1>2, <1>3, <1>4, <1>5 DEF BookMoves, book

LEMMA BookKept == ASSUME BookOK, BookMoves PROVE BookOK'
  <1> made \in Seq(Leg) /\ tracked \subseteq Record /\ live \subseteq tracked
        /\ suspects \subseteq tracked /\ deferred \subseteq tracked
    BY DEF BookOK
  <1>1. /\ made' \in Seq(Leg) /\ Record \subseteq Record' /\ live' \subseteq tracked'
        /\ \A r \in tracked' \ tracked : r \in Record'
    BY Grown
  <1>2. tracked' \subseteq Record'
    BY <1>1
  <1>3. suspects' \subseteq tracked' /\ deferred' \subseteq tracked'
    <2>1. CASE \E l \in Leg : Grows(l)
      BY <2>1 DEF Grows, Makes
    <2>2. CASE \E rs : Closed(rs)
      BY <2>2 DEF Closed
    <2>3. CASE Confirms \/ UNCHANGED book
      BY <2>3 DEF Confirms, book
    <2>4. CASE Marks
      BY <2>4 DEF Marks
    <2> QED BY <2>1, <2>2, <2>3, <2>4 DEF BookMoves
  <1> QED BY <1>1, <1>2, <1>3 DEF BookOK

(* One record per leg is kept by all of them.                              *)
LEMMA OneKept == ASSUME BookOK, BookMoves, OneRecordPerLeg PROVE OneRecordPerLeg'
  <1> tracked \subseteq Record
    BY DEF BookOK
  <1> SUFFICES ASSUME NEW r \in tracked', NEW q \in tracked', made'[r] = made'[q] PROVE r = q
    BY DEF OneRecordPerLeg
  <1>1. CASE r \in tracked /\ q \in tracked
    BY <1>1, Grown DEF OneRecordPerLeg
  <1>2. CASE r \notin tracked
    <2>1. q \in tracked \/ q = r
      BY <1>2, Grown
    <2>2. q \notin tracked
      BY <1>2, Grown
    <2> QED BY <2>1, <2>2
  <1>3. CASE q \notin tracked
    <2>1. r \in tracked \/ r = q
      BY <1>3, Grown
    <2>2. r \notin tracked
      BY <1>3, Grown
    <2> QED BY <2>1, <2>2
  <1> QED BY <1>1, <1>2, <1>3
-----------------------------------------------------------------------------
(* The type invariant, in the parts that different steps disturb.          *)
OrdersOK ==
    /\ sent \in SUBSET Record /\ filled \in SUBSET Record /\ exits \in SUBSET Record
    /\ posted \in SUBSET Leg /\ held \in SUBSET Leg
    /\ acts \in 0 .. MaxActs

CycleOK ==
    /\ phase \in Phase /\ snap \in SUBSET Record /\ doomed \in SUBSET snap
    /\ view \in SUBSET Leg /\ todo \in SUBSET view
    /\ phase # "doom" => doomed = {}
    /\ phase \notin {"legs", "ask"} => todo = {}
    /\ asked \in {Nobody} \cup [leg : Leg, seq : 0 .. Len(made)]
    /\ AskOK

MemoryOK ==
    /\ pend \in [Leg -> 0 .. Stale]
    /\ streak \in 0 .. MaxStreak /\ idle \in {0, 1}
    /\ mishaps \in 0 .. MaxMishaps

HistoryOK == flat \in SUBSET live /\ once \in SUBSET live /\ twice \in SUBSET once

IType == BookOK /\ OrdersOK /\ CycleOK /\ MemoryOK /\ HistoryOK

LEMMA ITypeIsTyped == ASSUME IType PROVE TypeOK
  BY DEF IType, BookOK, OrdersOK, CycleOK, MemoryOK, HistoryOK, TypeOK

LEMMA InitTyped == ASSUME Init PROVE IType
  <1> made = Restored /\ made \in Seq(Leg)
    BY RestoredAssumption DEF Init
  <1>1. BookOK
    BY DEF Init, BookOK, Record
  <1>2. OrdersOK
    BY ReconBounds DEF Init, OrdersOK
  <1>3. CycleOK
    BY DEF Init, CycleOK, AskOK, Phase, Record
  <1>4. MemoryOK
    BY ReconBounds DEF Init, MemoryOK, Stale
  <1>5. HistoryOK
    BY DEF Init, HistoryOK
  <1> QED BY <1>1, <1>2, <1>3, <1>4, <1>5 DEF IType
-----------------------------------------------------------------------------
(* Orders name records that are there, or the one just made.               *)
OrdersMove ==
    /\ sent' \subseteq sent \cup tracked' /\ filled' \subseteq filled \cup sent
    /\ exits' \subseteq exits \cup tracked
    /\ posted' \subseteq Leg /\ held' \subseteq Leg
    /\ acts' \in 0 .. MaxActs

LEMMA ActBound == ASSUME OrdersOK, Act PROVE acts' \in 0 .. MaxActs
  BY ReconBounds DEF OrdersOK, Act

LEMMA LegStepOrders ==
    ASSUME OrdersOK, NEW l \in Leg,
           EndsElsewhere(l) \/ Decide(l) \/ AppOrder(l) \/ Register(l)
    PROVE  OrdersMove
  <1> posted \subseteq Leg /\ held \subseteq Leg /\ acts \in 0 .. MaxActs
    BY DEF OrdersOK
  <1>1. CASE EndsElsewhere(l)
    BY <1>1 DEF EndsElsewhere, Ended, orders, OrdersMove
  <1>2. CASE Decide(l)
    BY <1>2, ActBound DEF Decide, Makes, OrdersMove
  <1>3. CASE AppOrder(l)
    BY <1>3, ActBound DEF AppOrder, Bought, OrdersMove
  <1>4. CASE Register(l)
    BY <1>4 DEF Register, OrdersMove
  <1> QED BY <1>1, <1>2, <1>3, <1>4

LEMMA RecordStepOrders ==
    ASSUME BookOK, OrdersOK, NEW r \in Record,
           OrderStep(r) \/ CloseAtMarket(r) \/ CloseByStop(r) \/ DeferredClose(r)
    PROVE  OrdersMove
  <1> made[r] \in Leg
    BY LegOfRecord
  <1> posted \subseteq Leg /\ held \subseteq Leg /\ acts \in 0 .. MaxActs
    BY DEF OrdersOK
  <1>1. CASE EntryExecutes(r)
    BY <1>1 DEF EntryExecutes, Bought, OrdersMove
  <1>2. CASE EntryOver(r)
    BY <1>2 DEF EntryOver, OrdersMove
  <1>3. CASE ExitExecutes(r)
    BY <1>3 DEF ExitExecutes, Sold, Ended, OrdersMove
  <1>4. CASE ExitFails(r)
    BY <1>4 DEF ExitFails, OrdersMove
  <1>5. CASE CloseAtMarket(r)
    BY <1>5, ActBound DEF CloseAtMarket, OrdersMove
  <1>6. CASE CloseByStop(r) \/ DeferredClose(r)
    BY <1>6 DEF CloseByStop, DeferredClose, orders, OrdersMove
  <1> QED BY <1>1, <1>2, <1>3, <1>4, <1>5, <1>6
          DEF OrderStep, FillConfirmed, EntryUnverified, EntryFails

LEMMA CycleStepOrders == ASSUME OrdersOK, CycleStep PROVE OrdersMove
  <1> posted \subseteq Leg /\ held \subseteq Leg /\ acts \in 0 .. MaxActs
    BY DEF OrdersOK
  <1>1. CASE UNCHANGED <<orders, held>>
    BY <1>1 DEF orders, OrdersMove
  <1>2. CASE Distrust
    <2>1. exits' \subseteq exits \cup tracked
      BY <1>2 DEF Distrust
    <2> QED BY <1>2, <2>1 DEF Distrust, OrdersMove
  <1>3. CASE OrphanSold
    BY <1>3 DEF OrphanSold, Sold, Ended, orders, OrdersMove
  <1> QED BY <1>1, <1>2, <1>3 DEF CycleStep, CycleBegins, PollFails, PollReads, Sift, PhantomClosed,
             PhantomsOver, LegTracked, OrphanSeen, OrphanConfirmed, OrphanAdopted, OrphanKept, CycleOver

LEMMA StepOrders == ASSUME BookOK, OrdersOK, [Step]_vars PROVE OrdersMove
  <1> posted \subseteq Leg /\ held \subseteq Leg /\ acts \in 0 .. MaxActs
    BY DEF OrdersOK
  <1>1. CASE CycleSkipped \/ UNCHANGED vars
    BY <1>1 DEF CycleSkipped, vars, orders, OrdersMove
  <1>2. CASE Restart
    BY <1>2 DEF Restart, OrdersMove
  <1> QED BY <1>1, <1>2, LegStepOrders, RecordStepOrders, CycleStepOrders DEF Step

LEMMA OrdersKept ==
    ASSUME BookOK, BookOK', OrdersOK, BookMoves, OrdersMove PROVE OrdersOK'
  <1>1. Record \subseteq Record' /\ tracked' \subseteq Record' /\ tracked \subseteq Record
    BY Grown DEF BookOK
  <1> QED BY <1>1 DEF OrdersOK, OrdersMove
-----------------------------------------------------------------------------
(* The cycle's own state.                                                  *)
LEMMA CycleUnmoved ==
    ASSUME BookOK, BookMoves, CycleOK, UNCHANGED cycle PROVE CycleOK'
  <1>1. Record \subseteq Record' /\ 0 .. Len(made) \subseteq 0 .. Len(made')
    BY Grown DEF BookOK
  <1>2. [leg : Leg, seq : 0 .. Len(made)] \subseteq [leg : Leg, seq : 0 .. Len(made')]
    BY <1>1
  <1> QED BY <1>1, <1>2 DEF CycleOK, AskOK, cycle

LEMMA CycleRestarts == ASSUME Restart PROVE CycleOK'
  BY DEF Restart, CycleOK, AskOK, Phase

LEMMA OutsideUnmoved ==
    ASSUME [Step]_vars PROVE UNCHANGED cycle \/ CycleStep \/ Restart
  <1>1. ASSUME NEW l \in Leg, EndsElsewhere(l) \/ Decide(l) \/ AppOrder(l) \/ Register(l)
        PROVE  UNCHANGED cycle
    BY <1>1 DEF EndsElsewhere, Decide, AppOrder, Register
  <1>2. ASSUME NEW r \in Record,
               OrderStep(r) \/ CloseAtMarket(r) \/ CloseByStop(r) \/ DeferredClose(r)
        PROVE  UNCHANGED cycle
    BY <1>2 DEF OrderStep, EntryExecutes, EntryOver, FillConfirmed, EntryUnverified, EntryFails,
                ExitExecutes, ExitFails, CloseAtMarket, CloseByStop, DeferredClose
  <1>3. CASE CycleSkipped \/ UNCHANGED vars
    BY <1>3 DEF CycleSkipped, vars
  <1> QED BY <1>1, <1>2, <1>3 DEF Step

LEMMA CycleStepCycle ==
    ASSUME BookOK, BookMoves, OrdersOK, CycleOK, CycleStep PROVE CycleOK'
  <1>0. Record \subseteq Record' /\ 0 .. Len(made) \subseteq 0 .. Len(made')
    BY Grown DEF BookOK
  <1>a. [leg : Leg, seq : 0 .. Len(made)] \subseteq [leg : Leg, seq : 0 .. Len(made')]
    BY <1>0
  <1> asked \in {Nobody} \cup [leg : Leg, seq : 0 .. Len(made')]
    BY <1>a DEF CycleOK
  <1> /\ phase \in Phase /\ snap \subseteq Record' /\ doomed \subseteq snap
      /\ view \subseteq Leg /\ todo \subseteq view /\ held \subseteq Leg
      /\ phase # "doom" => doomed = {}
      /\ phase \notin {"legs", "ask"} => todo = {}
    BY <1>0 DEF CycleOK, OrdersOK
  <1>1. CASE CycleBegins
    <2>1. snap' \subseteq Record' /\ phase' \in {"idle", "polled"}
      BY <1>1, <1>0 DEF CycleBegins, BookOK
    <2> QED BY <1>1, <2>1 DEF CycleBegins, CycleOK, AskOK, Phase
  <1>2. CASE PollFails
    BY <1>2 DEF PollFails, Returns, CycleOK, AskOK, Phase
  <1>3. CASE PollReads
    <2>1. view' \subseteq Leg
      BY <1>3 DEF PollReads
    <2> QED BY <1>3, <2>1 DEF PollReads, CycleOK, AskOK, Phase
  <1>4. CASE Distrust
    BY <1>4 DEF Distrust, Returns, CycleOK, AskOK, Phase
  <1>5. CASE Sift
    BY <1>5 DEF Sift, Missing, CycleOK, AskOK, Phase
  <1>6. CASE \E r \in doomed : PhantomClosed(r)
    BY <1>6 DEF PhantomClosed, CycleOK, AskOK, Phase
  <1>7. CASE PhantomsOver
    BY <1>7 DEF PhantomsOver, CycleOK, AskOK, Phase
  <1>8. CASE \E l \in todo : LegTracked(l) \/ OrphanSeen(l)
    BY <1>8 DEF LegTracked, OrphanSeen, Looked, CycleOK, AskOK, Phase
  <1>9. CASE \E l \in todo : OrphanConfirmed(l)
    <2>1. PICK l \in todo : OrphanConfirmed(l)
      BY <1>9
    <2>2. asked' \in [leg : Leg, seq : 0 .. Len(made')]
      <3>1. Len(made) \in 0 .. Len(made)
        BY DEF BookOK
      <3> QED BY <2>1, <3>1, <1>0 DEF OrphanConfirmed
    <2>3. phase' = "ask" /\ todo' \subseteq view /\ UNCHANGED <<snap, view, doomed>>
      BY <2>1 DEF OrphanConfirmed, Looked
    <2>4. doomed = {}
      BY <2>1 DEF OrphanConfirmed, Looked
    <2> QED BY <2>2, <2>3, <2>4 DEF CycleOK, AskOK, Phase
  <1>10. CASE OrphanAdopted \/ OrphanSold \/ OrphanKept
    BY <1>10 DEF OrphanAdopted, OrphanSold, OrphanKept, Resolved, CycleOK, AskOK, Phase
  <1>11. CASE CycleOver
    BY <1>11 DEF CycleOver, Returns, CycleOK, AskOK, Phase
  <1> QED BY <1>1, <1>2, <1>3, <1>4, <1>5, <1>6, <1>7, <1>8, <1>9, <1>10, <1>11 DEF CycleStep
-----------------------------------------------------------------------------
(* What it remembers.                                                      *)
LEMMA MishapBound == ASSUME MemoryOK, Mishap PROVE mishaps' \in 0 .. MaxMishaps
  BY ReconBounds DEF MemoryOK, Mishap

LEMMA OlderBound == ASSUME NEW n \in 0 .. Stale PROVE Older(n) \in 0 .. Stale
  BY DEF Older, Stale

LEMMA EvictedBound == ASSUME NEW n \in 0 .. Stale PROVE Evicted(n) \in 0 .. Stale
  BY DEF Evicted, Stale

LEMMA MemoryKept == ASSUME MemoryOK, [Step]_vars PROVE MemoryOK'
  <1> /\ pend \in [Leg -> 0 .. Stale] /\ streak \in 0 .. MaxStreak /\ idle \in {0, 1}
      /\ mishaps \in 0 .. MaxMishaps /\ {0, 1} \subseteq 0 .. Stale
    BY DEF MemoryOK, Stale
  <1>1. CASE UNCHANGED memory /\ (UNCHANGED mishaps \/ Mishap)
    BY <1>1, MishapBound DEF MemoryOK, memory
  <1>2. CASE CycleBegins
    <2>1. pend' \in [Leg -> 0 .. Stale]
      BY <1>2, OlderBound, EvictedBound DEF CycleBegins
    <2>2. idle' \in {0, 1}
      BY <1>2 DEF CycleBegins
    <2> QED BY <1>2, <2>1, <2>2 DEF CycleBegins, MemoryOK
  <1>3. CASE CycleSkipped
    <2>1. pend' \in [Leg -> 0 .. Stale]
      BY <1>3, OlderBound DEF CycleSkipped
    <2> QED BY <1>3, <2>1, MishapBound DEF CycleSkipped, MemoryOK
  <1>4. CASE Distrust
    <2>1. streak' \in 0 .. MaxStreak
      BY <1>4, ReconBounds DEF Distrust
    <2>2. mishaps' \in 0 .. MaxMishaps
      BY <1>4, MishapBound DEF Distrust
    <2> QED BY <1>4, <2>1, <2>2 DEF Distrust, MemoryOK
  <1>5. CASE Sift
    BY <1>5, ReconBounds DEF Sift, MemoryOK
  <1>6. CASE \E l \in todo : LegTracked(l) \/ OrphanSeen(l)
    BY <1>6 DEF LegTracked, OrphanSeen, MemoryOK
  <1>7. CASE OrphanAdopted \/ OrphanSold \/ OrphanKept
    <2>1. pend' \in [Leg -> 0 .. Stale] /\ UNCHANGED <<streak, idle>>
      BY <1>7 DEF OrphanAdopted, OrphanSold, OrphanKept, Resolved
    <2>2. mishaps' \in 0 .. MaxMishaps
      BY <1>7, MishapBound DEF OrphanAdopted, OrphanSold, OrphanKept
    <2> QED BY <2>1, <2>2 DEF MemoryOK
  <1>8. CASE Restart
    BY <1>8, MishapBound, ReconBounds DEF Restart, MemoryOK
  <1>9. ASSUME NEW l \in Leg, EndsElsewhere(l) \/ Decide(l) \/ AppOrder(l) \/ Register(l)
        PROVE  UNCHANGED <<memory, mishaps>>
    BY <1>9 DEF EndsElsewhere, Decide, AppOrder, Register
  <1>10. ASSUME NEW r \in Record,
               OrderStep(r) \/ CloseAtMarket(r) \/ CloseByStop(r) \/ DeferredClose(r)
         PROVE  UNCHANGED memory /\ (UNCHANGED mishaps \/ Mishap)
    BY <1>10 DEF OrderStep, EntryExecutes, EntryOver, FillConfirmed, EntryUnverified, EntryFails,
                ExitExecutes, ExitFails, CloseAtMarket, CloseByStop, DeferredClose
  <1>11. CASE \/ PollFails \/ PollReads \/ PhantomsOver \/ CycleOver
              \/ \E r \in doomed : PhantomClosed(r)
              \/ \E l \in todo : OrphanConfirmed(l)
    BY <1>11, <1>1 DEF PollFails, PollReads, PhantomsOver, CycleOver, PhantomClosed, OrphanConfirmed
  <1>12. CASE UNCHANGED vars
    BY <1>12, <1>1 DEF vars
  <1> QED BY <1>1, <1>2, <1>3, <1>4, <1>5, <1>6, <1>7, <1>8, <1>9, <1>10, <1>11, <1>12
          DEF Step, CycleStep

LEMMA HistoryTyped == ASSUME HistoryOK, History PROVE HistoryOK'
  BY DEF HistoryOK, History

LEMMA HistoryStutters == ASSUME HistoryOK, UNCHANGED vars PROVE HistoryOK'
  BY DEF HistoryOK, vars, history, book

LEMMA TypedStep ==
    ASSUME IType, [Next]_vars PROVE IType' /\ BookMoves
  <1> BookOK /\ OrdersOK /\ CycleOK /\ MemoryOK /\ HistoryOK
    BY DEF IType
  <1>0. [Step]_vars
    BY DEF Next
  <1>1. BookMoves
    BY <1>0, StepMoves DEF CycleOK
  <1>2. BookOK'
    BY <1>1, BookKept
  <1>3. OrdersOK'
    BY <1>0, <1>1, <1>2, StepOrders, OrdersKept
  <1>4. CycleOK'
    BY <1>0, <1>1, CycleUnmoved, CycleRestarts, OutsideUnmoved, CycleStepCycle
  <1>5. MemoryOK'
    BY <1>0, MemoryKept
  <1>6. HistoryOK'
    BY HistoryTyped, HistoryStutters DEF Next
  <1> QED BY <1>1, <1>2, <1>3, <1>4, <1>5, <1>6 DEF IType

(* Orders, memory and cycle only ever name records that were made.         *)
THEOREM TypeCorrect == Spec => []TypeOK
  <1>1. Init => IType
    BY InitTyped
  <1>2. IType /\ [Next]_vars => IType'
    BY TypedStep
  <1>3. IType => TypeOK
    BY ITypeIsTyped
  <1> QED BY <1>1, <1>2, <1>3, PTL DEF Spec

(* However entries, registrations, the stream, the reconciliation and      *)
(* restarts interleave, no leg is ever tracked twice.                      *)
THEOREM LegsTrackedOnce == Spec => []OneRecordPerLeg
  <1>1. Init => IType /\ OneRecordPerLeg
    <2>1. Init => OneRecordPerLeg
      BY RestoredAssumption DEF Init, OneRecordPerLeg
    <2> QED BY <2>1, InitTyped
  <1>2. IType /\ OneRecordPerLeg /\ [Next]_vars => (IType /\ OneRecordPerLeg)'
    BY TypedStep, OneKept DEF IType
  <1> QED BY <1>1, <1>2, PTL DEF Spec
-----------------------------------------------------------------------------
(* The ledger.                                                             *)
LEMMA SequenceGrows ==
    ASSUME NEW l \in Leg, made \in Seq(Leg), made' = Append(made, l)
    PROVE  Records!Entered(Len(made) + 1, l) /\ Len(made) + 1 \in Records!Fresh
  <1> DEFINE n == Len(made) + 1
             longer == [j \in DOMAIN made \cup {n} |-> IF j = n THEN l ELSE made[j]]
  <1>1. DOMAIN made = 1 .. Len(made) /\ Len(made) \in Nat
    OBVIOUS
  <1>2. made' \in Seq(Leg) /\ DOMAIN made' = 1 .. n
    OBVIOUS
  <1>3. DOMAIN made' = DOMAIN made \cup {n}
    BY <1>1, <1>2
  <1>4. \A j \in DOMAIN made' : made'[j] = IF j = n THEN l ELSE made[j]
    BY <1>1, <1>2
  <1>5. made' = longer
    <2>1. made' \in [1 .. n -> Leg]
      BY <1>2, LenProperties
    <2> QED BY <1>2, <1>3, <1>4, <2>1
  <1>6. n \notin DOMAIN made
    BY <1>1
  <1> QED BY <1>3, <1>5, <1>6 DEF Records!Entered, Records!Fresh

LEMMA MovesKeepLedger ==
    ASSUME BookOK, BookMoves
    PROVE  [Records!LedgerNext]_(Records!ledgerVars)
  <1>1. CASE \E l \in Leg : Grows(l)
    <2>1. PICK l \in Leg, b \in BOOLEAN : On(l) = {} /\ Makes(l, b)
      BY <1>1 DEF Grows
    <2>2. Records!Free(l)
      BY <2>1 DEF Records!Free, Records!Clash, On
    <2>3. Records!Opens(Len(made) + 1, l) /\ Len(made) + 1 \in Records!Fresh
      BY <2>1, <2>2, SequenceGrows DEF Makes, BookOK, Records!Opens
    <2> QED BY <2>3 DEF Records!LedgerNext
  <1>2. CASE UNCHANGED made /\ tracked' \subseteq tracked
    BY <1>2 DEF Records!LedgerNext, Records!Closes
  <1> QED BY <1>1, <1>2 DEF BookMoves, Closed, Confirms, Marks, book

(* All who make and close records, entries, registrations, the stream, the *)
(* reconciliation and the restart, together implement the ledger.          *)
THEOREM RecordsKeepLedger == Spec => LedgerKept
  <1>1. Init => IType /\ Records!LedgerInit
    <2>1. Init => made \in Seq(Leg) /\ tracked = DOMAIN made
                  /\ \A r, q \in DOMAIN made : made[r] = made[q] => r = q
      BY RestoredAssumption DEF Init
    <2> QED BY <2>1, InitTyped DEF Records!LedgerInit, Records!Apart, Records!Clash
  <1>2. IType /\ [Next]_vars => IType' /\ [Records!LedgerNext]_(Records!ledgerVars)
    BY TypedStep, MovesKeepLedger DEF IType
  <1> QED BY <1>1, <1>2, PTL DEF Spec, LedgerKept, Records!LedgerSpec
-----------------------------------------------------------------------------
(* Exits.  An exit is only ever added for a record that is closed with it. *)
LEMMA ExitsAdded ==
    ASSUME [Step]_vars, NEW r \in exits' \ exits
    PROVE  r \in tracked /\ r \notin tracked' /\ tracked' \subseteq tracked /\ made' = made
  <1>1. ASSUME NEW q \in Record, CloseAtMarket(q)
        PROVE  r \in tracked /\ r \notin tracked' /\ tracked' \subseteq tracked /\ made' = made
    BY <1>1 DEF CloseAtMarket, Drops, Closed
  <1>2. CASE Distrust
    <2>1. PICK young : /\ Closed(snap \ young)
                       /\ exits' = exits \cup ((snap \cap tracked) \ young)
      BY <1>2 DEF Distrust
    <2> QED BY <2>1 DEF Closed
  <1>3. ASSUME NEW l \in Leg, EndsElsewhere(l) \/ Decide(l) \/ AppOrder(l) \/ Register(l)
        PROVE  exits' \subseteq exits
    BY <1>3 DEF EndsElsewhere, Decide, AppOrder, Register, orders
  <1>4. ASSUME NEW q \in Record, OrderStep(q) \/ CloseByStop(q) \/ DeferredClose(q)
        PROVE  exits' \subseteq exits
    BY <1>4 DEF OrderStep, EntryExecutes, EntryOver, FillConfirmed, EntryUnverified, EntryFails,
                ExitExecutes, ExitFails, CloseByStop, DeferredClose, orders
  <1>5. CASE CycleStep /\ ~Distrust
    BY <1>5 DEF CycleStep, CycleBegins, PollFails, PollReads, Sift, PhantomClosed, PhantomsOver,
         LegTracked, OrphanSeen, OrphanConfirmed, OrphanAdopted, OrphanSold, OrphanKept, CycleOver, orders
  <1>6. CASE CycleSkipped \/ Restart \/ UNCHANGED vars
    BY <1>6 DEF CycleSkipped, Restart, vars, orders
  <1> QED BY <1>1, <1>2, <1>3, <1>4, <1>5, <1>6 DEF Step

LEMMA ExitsStep ==
    ASSUME IType, BookMoves, OneRecordPerLeg, ExitsPrecede, [Step]_vars
    PROVE  ExitsPrecede'
  <1> BookOK /\ tracked \subseteq Record /\ made \in Seq(Leg) /\ exits \subseteq Record
    BY DEF IType, BookOK, OrdersOK
  <1> SUFFICES ASSUME NEW r \in exits'
               PROVE  r \notin tracked' /\ \A q \in tracked' : made'[q] = made'[r] => q > r
    BY DEF ExitsPrecede, On
  <1>1. CASE r \in exits
    <2>1. r \notin tracked /\ (\A q \in tracked : made[q] = made[r] => q > r) /\ made'[r] = made[r]
      BY <1>1, Grown DEF ExitsPrecede, On
    <2>2. Len(made) + 1 > r /\ r # Len(made) + 1
      BY <1>1 DEF Record
    <2>3. r \notin tracked'
      BY <2>1, <2>2, Grown
    <2>4. \A q \in tracked' : made'[q] = made'[r] => q > r
      BY <2>1, <2>2, Grown
    <2> QED BY <2>3, <2>4
  <1>2. CASE r \notin exits
    BY <1>2, ExitsAdded DEF OneRecordPerLeg
  <1> QED BY <1>1, <1>2

(* A record never waits for its exit while it is tracked, and a record     *)
(* tracked on its leg meanwhile was made after it was closed.              *)
THEOREM ExitsOfThePast == Spec => []ExitsPrecede
  <1> DEFINE Inv == IType /\ OneRecordPerLeg /\ ExitsPrecede
  <1>1. Init => Inv
    BY InitTyped, RestoredAssumption DEF Init, OneRecordPerLeg, ExitsPrecede
  <1>2. Inv /\ [Next]_vars => Inv'
    BY TypedStep, OneKept, ExitsStep DEF Next, IType
  <1> QED BY <1>1, <1>2, PTL DEF Spec
-----------------------------------------------------------------------------
(* Orphans.                                                                *)
LEMMA AskStep ==
    ASSUME [Step]_vars, phase' = "ask"
    PROVE  (\E l \in todo : OrphanConfirmed(l)) \/ UNCHANGED <<phase, asked>>
  <1>1. CASE UNCHANGED cycle
    BY <1>1 DEF cycle
  <1>2. CASE CycleStep
    BY <1>2 DEF CycleStep, CycleBegins, PollFails, PollReads, Distrust, Sift, PhantomClosed,
         PhantomsOver, LegTracked, OrphanSeen, Looked, OrphanAdopted, OrphanSold, OrphanKept,
         Resolved, CycleOver, Returns
  <1>3. CASE Restart
    BY <1>3 DEF Restart
  <1> QED BY <1>1, <1>2, <1>3, OutsideUnmoved

LEMMA OrphanStep ==
    ASSUME IType, BookMoves, OrphanUntracked, [Step]_vars PROVE OrphanUntracked'
  <1> SUFFICES ASSUME phase' = "ask", NEW r \in tracked', made'[r] = asked'.leg
               PROVE  r > asked'.seq
    BY DEF OrphanUntracked, On
  <1> BookOK /\ CycleOK /\ tracked \subseteq Record /\ made \in Seq(Leg)
    BY DEF IType, BookOK
  <1>1. CASE \E l \in todo : OrphanConfirmed(l)
    BY <1>1 DEF OrphanConfirmed, Represented, On, book
  <1>2. CASE UNCHANGED <<phase, asked>>
    <2>1. asked \in [leg : Leg, seq : 0 .. Len(made)]
      BY <1>2 DEF CycleOK, AskOK
    <2>2. CASE r \in tracked
      BY <1>2, <2>2, Grown DEF OrphanUntracked, On
    <2>3. CASE r \notin tracked
      <3>1. r = Len(made) + 1 /\ Len(made) \in Nat /\ asked.seq \in 0 .. Len(made)
        BY <2>1, <2>3, Grown
      <3> QED BY <1>2, <3>1
    <2> QED BY <2>2, <2>3
  <1> QED BY <1>1, <1>2, AskStep

(* A leg is only sold as an orphan when the only records it can have were  *)
(* made while the reconciliation asked for its open orders.                *)
THEOREM OrphansHaveNoRecord == Spec => []OrphanUntracked
  <1>1. Init => IType /\ OrphanUntracked
    BY InitTyped DEF Init, OrphanUntracked
  <1>2. IType /\ OrphanUntracked /\ [Next]_vars => (IType /\ OrphanUntracked)'
    BY TypedStep, OrphanStep DEF Next
  <1> QED BY <1>1, <1>2, PTL DEF Spec
-----------------------------------------------------------------------------
(* Phantoms.  A suspect was left out by one poll, one to be closed by two, *)
(* and what the view of this cycle leaves out is counted already.          *)
Spared == live \ flat

ISnap == snap \cap tracked \subseteq live /\ suspects \subseteq live

IPhantom ==
    /\ \A r \in Spared : (r \in suspects => r \in once) /\ (r \in doomed => r \in twice)
    /\ phase = "read" => \A r \in snap \cap Spared :
                            r \in Missing => r \in once /\ (r \in suspects => r \in twice)

(* Most steps add nothing to what the reconciliation suspects.             *)
Calm ==
    /\ suspects' \subseteq suspects /\ doomed' \subseteq doomed
    /\ snap' \subseteq snap
    /\ phase' = "read" => phase = "read" /\ UNCHANGED <<snap, view>>

LEMMA AdoptsCalm == ASSUME NEW l, Adopts(l) PROVE suspects' = suspects
  BY DEF Adopts, Makes, book

LEMMA EndedCalm == ASSUME NEW l, Ended(l) PROVE suspects' \subseteq suspects
  BY DEF Ended, Drops, Closed, book

LEMMA SoldCalm == ASSUME NEW l, Sold(l) PROVE suspects' \subseteq suspects
  BY EndedCalm DEF Sold, book

LEMMA BoughtCalm == ASSUME NEW l, Bought(l) PROVE suspects' \subseteq suspects
  BY AdoptsCalm DEF Bought, book

LEMMA LegStepCalm ==
    ASSUME NEW l \in Leg, EndsElsewhere(l) \/ Decide(l) \/ AppOrder(l) \/ Register(l)
    PROVE  Calm
  <1>1. UNCHANGED cycle
    BY DEF EndsElsewhere, Decide, AppOrder, Register
  <1>2. suspects' \subseteq suspects
    BY AdoptsCalm, EndedCalm, BoughtCalm
       DEF EndsElsewhere, Decide, Makes, AppOrder, Register, book
  <1> QED BY <1>1, <1>2 DEF Calm, cycle

LEMMA RecordStepCalm ==
    ASSUME NEW r \in Record,
           OrderStep(r) \/ CloseAtMarket(r) \/ CloseByStop(r) \/ DeferredClose(r)
    PROVE  Calm
  <1>1. UNCHANGED cycle
    BY DEF OrderStep, EntryExecutes, EntryOver, FillConfirmed, EntryUnverified, EntryFails,
           ExitExecutes, ExitFails, CloseAtMarket, CloseByStop, DeferredClose
  <1>2. suspects' \subseteq suspects
    <2>1. CASE EntryExecutes(r) \/ ExitExecutes(r)
      BY <2>1, BoughtCalm, SoldCalm DEF EntryExecutes, ExitExecutes
    <2>2. CASE FillConfirmed(r) \/ EntryUnverified(r) \/ ExitFails(r)
      BY <2>2 DEF FillConfirmed, EntryUnverified, ExitFails, book
    <2>3. CASE Drops(r)
      BY <2>3 DEF Drops, Closed
    <2> QED BY <2>1, <2>2, <2>3 DEF OrderStep, EntryFails, CloseAtMarket, CloseByStop, DeferredClose
  <1> QED BY <1>1, <1>2 DEF Calm, cycle

LEMMA CycleStepCalm ==
    ASSUME CycleStep PROVE Calm \/ CycleBegins \/ PollReads \/ Sift
  <1>1. CASE PollFails \/ CycleOver
    BY <1>1 DEF PollFails, CycleOver, Returns, Calm, book
  <1>2. CASE Distrust
    BY <1>2 DEF Distrust, Returns, Closed, Calm, book
  <1>3. CASE \E r \in doomed : PhantomClosed(r)
    BY <1>3 DEF PhantomClosed, Drops, Closed, Calm
  <1>4. CASE PhantomsOver \/ \E l \in todo : LegTracked(l) \/ OrphanSeen(l) \/ OrphanConfirmed(l)
    BY <1>4 DEF PhantomsOver, LegTracked, OrphanSeen, OrphanConfirmed, Calm, book
  <1>5. CASE OrphanAdopted \/ OrphanSold \/ OrphanKept
    BY <1>5, AdoptsCalm, SoldCalm
       DEF OrphanAdopted, OrphanSold, OrphanKept, Resolved, Calm, book
  <1> QED BY <1>1, <1>2, <1>3, <1>4, <1>5 DEF CycleStep

LEMMA StepCalm ==
    ASSUME [Step]_vars PROVE Calm \/ CycleBegins \/ PollReads \/ Sift
  <1>1. CASE CycleSkipped \/ UNCHANGED vars
    BY <1>1 DEF CycleSkipped, vars, book, cycle, Calm
  <1>2. CASE Restart
    BY <1>2 DEF Restart, Calm
  <1> QED BY <1>1, <1>2, LegStepCalm, RecordStepCalm, CycleStepCalm DEF Step

LEMMA SnapKept ==
    ASSUME IType, BookMoves, ISnap, [Step]_vars PROVE ISnap'
  <1> BookOK /\ tracked \subseteq Record /\ snap \subseteq Record /\ live \subseteq tracked
      /\ made \in Seq(Leg) /\ snap \cap tracked \subseteq live /\ suspects \subseteq live
    BY DEF IType, BookOK, CycleOK, ISnap
  <1>1. \A r \in live \cap tracked' : r \in live'
    BY DEF BookMoves, Grows, Makes, Closed, Confirms, Marks, book
  <1>2. \A r \in snap \cap tracked' : r \in tracked
    <2>1. Len(made) + 1 \notin Record
      BY DEF Record
    <2> QED BY <2>1, Grown
  <1>3. snap' \cap tracked' \subseteq live'
    <2>1. CASE snap' \subseteq snap
      BY <2>1, <1>1, <1>2
    <2>2. CASE CycleBegins
      BY <2>2 DEF CycleBegins, book
    <2> QED BY <2>1, <2>2, StepCalm DEF Calm, PollReads, Sift
  <1>4. suspects' \subseteq live'
    <2>1. CASE UNCHANGED book
      BY <2>1 DEF book
    <2>2. CASE \E l \in Leg : Grows(l)
      BY <2>2 DEF Grows, Makes
    <2>3. CASE \E rs : Closed(rs)
      BY <2>3 DEF Closed
    <2>4. CASE Confirms
      BY <2>4 DEF Confirms
    <2>5. CASE Marks
      <3>1. Missing \cap tracked \subseteq live
        BY DEF Missing
      <3> QED BY <2>5, <3>1 DEF Marks
    <2> QED BY <2>1, <2>2, <2>3, <2>4, <2>5 DEF BookMoves
  <1> QED BY <1>3, <1>4 DEF ISnap

(* A record spared after a step was spared before, or not yet live, and    *)
(* the polls counted for it still count.                                   *)
LEMMA SparedBefore ==
    ASSUME [Next]_vars, NEW r \in Spared', r \in live
    PROVE  /\ r \in Spared
           /\ r \in once => r \in once'
           /\ r \in twice => r \in twice'
  <1>1. CASE History
    BY <1>1 DEF History, Spared
  <1>2. CASE UNCHANGED vars
    BY <1>2 DEF vars, history, book, Spared
  <1> QED BY <1>1, <1>2 DEF Next

LEMMA PhantomKept ==
    ASSUME IType, BookMoves, ISnap, IPhantom, [Next]_vars PROVE IPhantom'
  <1> BookOK /\ tracked \subseteq Record /\ made \in Seq(Leg) /\ snap \subseteq Record
      /\ doomed \subseteq snap /\ live \subseteq tracked /\ suspects \subseteq live
      /\ snap \cap tracked \subseteq live
    BY DEF IType, BookOK, CycleOK, ISnap
  <1>0. \A r \in Spared' : r \in snap => r \in live
    <2>1. Len(made) + 1 \notin Record
      BY DEF Record
    <2> QED BY <2>1, Grown DEF Spared
  <1>1. ASSUME Calm PROVE IPhantom'
    <2>1. \A r \in Spared' : (r \in suspects' => r \in once') /\ (r \in doomed' => r \in twice')
      BY <1>0, <1>1, SparedBefore DEF Calm, IPhantom
    <2>2. ASSUME phase' = "read", NEW r \in snap' \cap Spared', r \in Missing'
          PROVE  r \in once' /\ (r \in suspects' => r \in twice')
      <3>1. phase = "read" /\ snap' = snap /\ view' = view
        BY <1>1, <2>2 DEF Calm
      <3>2. r \in live /\ r \in Spared /\ (r \in once => r \in once') /\ (r \in twice => r \in twice')
        BY <1>0, <2>2, <3>1, SparedBefore
      <3>3. r \in Missing
        BY <2>2, <3>1, Grown DEF Missing
      <3> QED BY <1>1, <3>1, <3>2, <3>3 DEF IPhantom, Calm
    <2> QED BY <2>1, <2>2 DEF IPhantom
  <1>2. ASSUME CycleBegins PROVE IPhantom'
    <2>1. UNCHANGED <<suspects, doomed>> /\ phase' # "read"
      BY <1>2 DEF CycleBegins, book
    <2> QED BY <1>0, <2>1, SparedBefore DEF IPhantom
  <1>3. ASSUME PollReads PROVE IPhantom'
    <2>1. UNCHANGED <<made, held, snap, suspects, doomed>> /\ phase = "polled" /\ phase' = "read"
      BY <1>3 DEF PollReads, book
    <2>2. \A r \in Spared' : (r \in suspects' => r \in once') /\ (r \in doomed' => r \in twice')
      BY <1>0, <2>1, SparedBefore DEF IPhantom
    <2>3. ASSUME NEW r \in snap' \cap Spared', r \in Missing'
          PROVE  r \in once' /\ (r \in suspects' => r \in twice')
      <3>1. r \in live /\ r \in Spared /\ r \in live'
        BY <1>0, <2>1, <2>3, SparedBefore DEF Spared
      <3>2. History
        BY <2>1 DEF Next, vars, cycle
      <3>3. made[r] \in held
        BY <2>1, <2>3, <3>2 DEF History, Spared
      <3>4. made[r] \notin view'
        BY <2>1, <2>3 DEF Missing
      <3>5. r \in once' /\ (r \in once => r \in twice')
        BY <2>1, <2>3, <3>1, <3>2, <3>3, <3>4 DEF History
      <3> QED BY <2>1, <3>1, <3>5 DEF IPhantom
    <2> QED BY <2>2, <2>3 DEF IPhantom
  <1>4. ASSUME Sift PROVE IPhantom'
    <2>1. /\ phase = "read" /\ phase' # "read" /\ doomed' = Missing \cap suspects
          /\ suspects' \subseteq suspects \cup (Missing \cap tracked)
      BY <1>4 DEF Sift
    <2>2. Missing \subseteq snap
      BY DEF Missing
    <2>3. ASSUME NEW r \in Spared'
          PROVE  (r \in suspects' => r \in once') /\ (r \in doomed' => r \in twice')
      <3>1. r \in suspects \cup Missing => r \in live
        BY <1>0, <2>2, <2>3
      <3>2. CASE r \in live
        BY <2>1, <2>2, <3>2, SparedBefore DEF IPhantom
      <3> QED BY <2>1, <3>1, <3>2
    <2> QED BY <2>1, <2>3 DEF IPhantom
  <1> QED BY <1>1, <1>2, <1>3, <1>4, StepCalm DEF Next
-----------------------------------------------------------------------------
(* An aged record is sold without a second look in Distrust alone.         *)
LEMMA SoldByAge ==
    ASSUME [Step]_vars, phase = "read", phase' = "idle", NEW r \in exits' \ exits
    PROVE  Distrust
  <1>1. CASE UNCHANGED cycle
    BY <1>1 DEF cycle
  <1>2. CASE Restart
    BY <1>2 DEF Restart
  <1>3. CASE CycleStep
    BY <1>3 DEF CycleStep, CycleBegins, PollFails, PollReads, Sift, PhantomClosed,
         PhantomsOver, LegTracked, OrphanSeen, OrphanConfirmed, Looked, OrphanAdopted, OrphanSold,
         OrphanKept, Resolved, CycleOver
  <1> QED BY <1>1, <1>2, <1>3, OutsideUnmoved

LEMMA PhantomStep ==
    ASSUME IType, ISnap, IPhantom, [Next]_vars
    PROVE  \A r \in live \ flat :
              /\ r \in doomed \ doomed' /\ phase' = "doom" => r \in twice
              /\ phase = "read" /\ phase' = "idle" /\ r \in exits' \ exits
                    => r \in once /\ streak' = MaxStreak
  <1> TAKE r \in live \ flat
  <1>1. r \in doomed => r \in twice
    BY DEF IPhantom, Spared
  <1>2. ASSUME phase = "read", phase' = "idle", r \in exits' \ exits
        PROVE  r \in once /\ streak' = MaxStreak
    <2>1. Distrust
      BY <1>2, SoldByAge DEF Next
    <2>2. streak' = MaxStreak /\ r \in snap /\ view = {}
      BY <1>2, <2>1 DEF Distrust
    <2>3. r \in Missing
      BY <2>2 DEF Missing
    <2> QED BY <1>2, <2>2, <2>3 DEF IPhantom, Spared
  <1> QED BY <1>1, <1>2

(* Two polls must leave out a leg that was held all along before its       *)
(* record is closed as a phantom.                                          *)
THEOREM PhantomsAreSeenTwice == Spec => FalsePhantom
  <1> DEFINE Inv == IType /\ ISnap /\ IPhantom
  <1>1. Init => Inv
    BY InitTyped DEF Init, ISnap, IPhantom
  <1>2. Inv /\ [Next]_vars => Inv'
    BY TypedStep, SnapKept, PhantomKept DEF Next
  <1>3. Inv /\ [Next]_vars => [\A r \in live \ flat :
              /\ r \in doomed \ doomed' /\ phase' = "doom" => r \in twice
              /\ phase = "read" /\ phase' = "idle" /\ r \in exits' \ exits
                    => r \in once /\ streak' = MaxStreak]_vars
    BY PhantomStep
  <1> QED BY <1>1, <1>2, <1>3, PTL DEF Spec, FalsePhantom
-----------------------------------------------------------------------------
(* Settled legs.  What a step does to the records and to what is under way *)
(* it does to other legs.                                                  *)
BookLeaves(l) ==
    /\ On(l)' = On(l) /\ On(l) \cap live \subseteq live'
    /\ \A r \in deferred' : made'[r] # l

Leaves(l) ==
    /\ BookLeaves(l)
    /\ l \in held' <=> l \in held
    /\ l \notin posted' /\ \A r \in sent' \cup filled' \cup exits' : made'[r] # l

LEMMA UnchangedLeaves ==
    ASSUME NEW l \in Leg, Settled(l), UNCHANGED book PROVE BookLeaves(l)
  BY DEF Settled, BookLeaves, On, book

LEMMA MakesLeaves ==
    ASSUME BookOK, NEW l \in Leg, Settled(l), NEW k \in Leg, k # l, NEW b, Makes(k, b)
    PROVE  BookLeaves(l) /\ made'[Len(made) + 1] = k
  <1> tracked \subseteq Record /\ deferred \subseteq Record /\ made \in Seq(Leg)
    BY DEF BookOK
  <1> DEFINE n == Len(made) + 1
  <1>1. made' = Append(made, k) /\ tracked' = tracked \cup {n} /\ deferred' = deferred /\ live \subseteq live'
    BY DEF Makes
  <1>2. (\A r \in Record : made'[r] = made[r]) /\ made'[n] = k
    BY <1>1 DEF Record
  <1> HIDE DEF n
  <1>3. On(l)' = On(l)
    BY <1>1, <1>2 DEF On
  <1> QED BY <1>1, <1>2, <1>3 DEF BookLeaves, Settled, n

LEMMA ClosedLeaves ==
    ASSUME NEW l \in Leg, Settled(l), NEW rs, rs \cap On(l) = {}, Closed(rs) PROVE BookLeaves(l)
  BY DEF Closed, BookLeaves, Settled, On

LEMMA DropsLeaves ==
    ASSUME NEW l \in Leg, Settled(l), NEW r, r \notin On(l), Drops(r) PROVE BookLeaves(l)
  BY ClosedLeaves DEF Drops

LEMMA AdoptsLeaves ==
    ASSUME BookOK, NEW l \in Leg, Settled(l), NEW k \in Leg, k # l, Adopts(k) PROVE BookLeaves(l)
  BY MakesLeaves, UnchangedLeaves DEF Adopts

LEMMA BoughtLeaves ==
    ASSUME BookOK, NEW l \in Leg, Settled(l), NEW k \in Leg, k # l, Bought(k)
    PROVE  BookLeaves(l) /\ (l \in held' <=> l \in held)
  BY AdoptsLeaves, UnchangedLeaves DEF Bought

LEMMA EndedLeaves ==
    ASSUME BookOK, NEW l \in Leg, Settled(l), NEW k \in Leg, k # l, Ended(k)
    PROVE  BookLeaves(l) /\ (l \in held' <=> l \in held)
  <1>1. l \in held' <=> l \in held
    BY DEF Ended
  <1>2. CASE \E r \in On(k) : Drops(r)
    <2>1. PICK r \in On(k) : Drops(r)
      BY <1>2
    <2>2. r \notin On(l)
      BY DEF On
    <2> QED BY <1>1, <2>1, <2>2, DropsLeaves
  <1>3. CASE deferred' = deferred \cup On(k) /\ UNCHANGED <<made, tracked, live, suspects>>
    <2>1. \A r \in deferred \cup On(k) : made[r] # l
      BY DEF Settled, On
    <2>2. On(l)' = On(l)
      BY <1>3 DEF On
    <2> QED BY <1>1, <1>3, <2>1, <2>2 DEF BookLeaves
  <1> QED BY <1>1, <1>2, <1>3, UnchangedLeaves DEF Ended

LEMMA SoldLeaves ==
    ASSUME BookOK, NEW l \in Leg, Settled(l), NEW k \in Leg, k # l, Sold(k)
    PROVE  BookLeaves(l) /\ (l \in held' <=> l \in held)
  BY EndedLeaves, UnchangedLeaves DEF Sold

(* Orders of records that were there keep their leg.                       *)
LEMMA OldOrders ==
    ASSUME BookOK, OrdersOK, BookMoves, NEW l \in Leg, Settled(l),
           NEW S, S \subseteq sent \cup filled \cup exits
    PROVE  \A r \in S : made'[r] # l
  <1>1. \A r \in Record : made'[r] = made[r]
    BY Grown
  <1>2. S \subseteq Record
    BY DEF OrdersOK
  <1> QED BY <1>1, <1>2 DEF Settled

LEMMA LegStepLeaves ==
    ASSUME BookOK, OrdersOK, BookMoves, NEW l \in Leg, Settled(l), ~Disturbs(l), NEW k \in Leg,
           EndsElsewhere(k) \/ Decide(k) \/ AppOrder(k) \/ Register(k)
    PROVE  Leaves(l)
  <1>0. k # l /\ l \notin posted
    BY DEF Disturbs, Settled, Register
  <1>1. CASE EndsElsewhere(k)
    BY <1>0, <1>1, EndedLeaves, OldOrders DEF EndsElsewhere, orders, Leaves
  <1>2. CASE Decide(k)
    <2>1. BookLeaves(l) /\ made'[Len(made) + 1] = k
      BY <1>0, <1>2, MakesLeaves DEF Decide
    <2>2. \A r \in sent \cup filled \cup exits : made'[r] # l
      BY OldOrders
    <2> QED BY <1>0, <1>2, <2>1, <2>2 DEF Decide, Leaves
  <1>3. CASE AppOrder(k)
    BY <1>0, <1>3, BoughtLeaves, OldOrders DEF AppOrder, Leaves
  <1>4. CASE Register(k)
    BY <1>0, <1>4, AdoptsLeaves, UnchangedLeaves, OldOrders DEF Register, Leaves
  <1> QED BY <1>1, <1>2, <1>3, <1>4

LEMMA RecordStepLeaves ==
    ASSUME BookOK, OrdersOK, BookMoves, NEW l \in Leg, Settled(l), ~Disturbs(l), NEW r \in Record,
           OrderStep(r) \/ CloseAtMarket(r) \/ CloseByStop(r) \/ DeferredClose(r)
    PROVE  Leaves(l)
  <1>0. l \notin posted /\ made[r] \in Leg
    BY LegOfRecord DEF Settled
  <1>1. made[r] # l
    <2>1. CASE CloseAtMarket(r) \/ CloseByStop(r)
      BY <2>1 DEF CloseAtMarket, CloseByStop, Disturbs, On
    <2>2. CASE r \in sent \cup filled \cup exits \cup deferred
      BY <2>2 DEF Settled
    <2> QED BY <2>1, <2>2 DEF OrderStep, EntryExecutes, EntryOver, FillConfirmed, EntryUnverified,
                EntryFails, ExitExecutes, ExitFails, DeferredClose
  <1>2. r \notin On(l)
    BY <1>1 DEF On
  <1>3. CASE EntryExecutes(r)
    BY <1>0, <1>1, <1>3, BoughtLeaves, OldOrders DEF EntryExecutes, Leaves
  <1>4. CASE FillConfirmed(r)
    <2>1. BookLeaves(l)
      BY <1>4 DEF FillConfirmed, BookLeaves, Settled, On
    <2> QED BY <1>0, <1>4, <2>1, OldOrders DEF FillConfirmed, EntryOver, Leaves
  <1>5. CASE EntryUnverified(r)
    BY <1>0, <1>5, UnchangedLeaves, OldOrders DEF EntryUnverified, EntryOver, Leaves
  <1>6. CASE EntryFails(r)
    BY <1>0, <1>2, <1>6, DropsLeaves, OldOrders DEF EntryFails, EntryOver, Leaves
  <1>7. CASE ExitExecutes(r)
    BY <1>0, <1>1, <1>7, SoldLeaves, OldOrders DEF ExitExecutes, Leaves
  <1>8. CASE ExitFails(r)
    BY <1>0, <1>8, UnchangedLeaves, OldOrders DEF ExitFails, Leaves
  <1>9. CASE CloseAtMarket(r)
    <2>1. BookLeaves(l) /\ made'[r] = made[r]
      BY <1>2, <1>9, DropsLeaves DEF CloseAtMarket, Drops, Closed
    <2>2. \A q \in sent \cup filled \cup exits : made'[q] # l
      BY OldOrders
    <2> QED BY <1>0, <1>1, <1>9, <2>1, <2>2 DEF CloseAtMarket, Leaves
  <1>10. CASE CloseByStop(r) \/ DeferredClose(r)
    BY <1>0, <1>2, <1>10, DropsLeaves, OldOrders DEF CloseByStop, DeferredClose, orders, Leaves
  <1> QED BY <1>3, <1>4, <1>5, <1>6, <1>7, <1>8, <1>9, <1>10 DEF OrderStep

LEMMA CycleStepLeaves ==
    ASSUME BookOK, OrdersOK, CycleOK, BookMoves, NEW l \in Leg, Settled(l), CycleStep
    PROVE  Leaves(l)
  <1>0. l \notin posted
    BY DEF Settled
  <1>1. CASE UNCHANGED <<book, orders, held>>
    BY <1>0, <1>1, UnchangedLeaves, OldOrders DEF orders, Leaves
  <1>2. CASE Distrust
    <2>1. CASE UNCHANGED <<book, exits, mishaps>>
      BY <1>0, <1>2, <2>1, UnchangedLeaves, OldOrders DEF Distrust, Leaves
    <2>2. CASE \E young \in SUBSET (snap \cap tracked) :
                  /\ Closed(snap \ young)
                  /\ exits' = exits \cup ((snap \cap tracked) \ young)
      <3>1. On(l) = {}
        BY <1>2 DEF Distrust, Settled
      <3>2. BookLeaves(l) /\ made' = made
        BY <2>2, <3>1, ClosedLeaves DEF Closed
      <3>3. \A r \in tracked : made'[r] # l
        BY <3>1, <3>2 DEF On
      <3>4. \A r \in sent \cup filled \cup exits : made'[r] # l
        BY OldOrders
      <3> QED BY <1>0, <1>2, <2>2, <3>2, <3>3, <3>4 DEF Distrust, Leaves
    <2> QED BY <1>2, <2>1, <2>2 DEF Distrust
  <1>3. CASE Sift
    <2>1. BookLeaves(l)
      BY <1>3 DEF Sift, BookLeaves, Settled, On
    <2> QED BY <1>0, <1>3, <2>1, OldOrders DEF Sift, orders, Leaves
  <1>4. CASE \E r \in doomed : PhantomClosed(r)
    <2>1. PICK r \in doomed : PhantomClosed(r)
      BY <1>4
    <2>2. BookLeaves(l)
      BY <2>1, DropsLeaves DEF PhantomClosed, Settled
    <2> QED BY <1>0, <2>1, <2>2, OldOrders DEF PhantomClosed, orders, Leaves
  <1>5. CASE OrphanAdopted
    <2>1. asked.leg \in Leg /\ asked.leg # l
      BY <1>5 DEF OrphanAdopted, Resolved, CycleOK, AskOK, Settled
    <2> QED BY <1>0, <1>5, <2>1, AdoptsLeaves, OldOrders DEF OrphanAdopted, orders, Leaves
  <1>6. CASE OrphanSold
    <2>1. asked.leg \in Leg /\ asked.leg # l
      BY <1>6 DEF OrphanSold, Resolved, CycleOK, AskOK, Settled
    <2> QED BY <1>0, <1>6, <2>1, SoldLeaves, OldOrders DEF OrphanSold, orders, Leaves
  <1> QED BY <1>1, <1>2, <1>3, <1>4, <1>5, <1>6
          DEF CycleStep, CycleBegins, PollFails, PollReads, PhantomsOver, LegTracked, OrphanSeen,
              OrphanConfirmed, OrphanKept, CycleOver

(* What the cycle has seen of a settled leg stays true.                    *)
Sees(l) ==
    /\ On(l)' \cap doomed' = {}
    /\ phase' = "ask" => asked'.leg # l
    /\ phase' \notin {"idle", "polled"} => (l \in view' <=> l \in held')

LEMMA CycleStepSees ==
    ASSUME CycleOK, NEW l \in Leg, Settled(l), ~Disturbs(l), Leaves(l), CycleStep
    PROVE  Sees(l)
  <1>0. /\ On(l)' = On(l) /\ (l \in held' <=> l \in held)
        /\ On(l) \cap doomed = {} /\ (phase = "ask" => asked.leg # l) /\ (l \in held <=> On(l) # {})
        /\ phase \notin {"idle", "polled"} => (l \in view <=> l \in held)
    BY DEF Leaves, BookLeaves, Settled
  <1>1. CASE CycleBegins
    BY <1>0, <1>1 DEF CycleBegins, Sees
  <1>2. CASE PollFails \/ Distrust \/ CycleOver
    BY <1>0, <1>2 DEF PollFails, Distrust, CycleOver, Returns, Sees
  <1>3. CASE PollReads
    <2>1. l \in held => l \in view'
      BY <1>3 DEF PollReads, Disturbs
    <2>2. view' \subseteq held
      BY <1>3 DEF PollReads
    <2> QED BY <1>0, <1>3, <2>1, <2>2 DEF PollReads, Sees
  <1>4. CASE Sift
    <2>1. \A r \in On(l) : r \notin Missing
      BY <1>0, <1>4 DEF Sift, Missing, On
    <2> QED BY <1>0, <1>4, <2>1 DEF Sift, Sees
  <1>5. CASE \E r \in doomed : PhantomClosed(r)
    BY <1>0, <1>5 DEF PhantomClosed, Sees
  <1>6. CASE PhantomsOver \/ \E k \in todo : LegTracked(k) \/ OrphanSeen(k)
    BY <1>0, <1>6 DEF PhantomsOver, LegTracked, OrphanSeen, Looked, Sees
  <1>7. CASE \E k \in todo : OrphanConfirmed(k)
    <2>1. PICK k \in todo : OrphanConfirmed(k)
      BY <1>7
    <2>2. k # l
      BY <1>0, <2>1 DEF OrphanConfirmed, Looked, Represented, CycleOK
    <2> QED BY <1>0, <2>1, <2>2 DEF OrphanConfirmed, Looked, Sees
  <1>8. CASE OrphanAdopted \/ OrphanSold \/ OrphanKept
    BY <1>0, <1>8 DEF OrphanAdopted, OrphanSold, OrphanKept, Resolved, Sees
  <1> QED BY <1>1, <1>2, <1>3, <1>4, <1>5, <1>6, <1>7, <1>8 DEF CycleStep
LEMMA SettledStep ==
    ASSUME IType, [Step]_vars, NEW l \in Leg, Settled(l), ~Disturbs(l)
    PROVE  Settled(l)'
  <1>0. BookOK /\ OrdersOK /\ CycleOK /\ BookMoves
    BY StepMoves DEF IType, CycleOK
  <1>1. Leaves(l)
    <2>1. CASE CycleSkipped \/ UNCHANGED vars
      <3>1. UNCHANGED <<book, orders, held>>
        BY <2>1 DEF CycleSkipped, vars
      <3> QED BY <1>0, <3>1, UnchangedLeaves, OldOrders DEF orders, Leaves, Settled
    <2>2. CASE Restart
      BY <2>2 DEF Restart, Leaves, BookLeaves, Settled, On
    <2> QED BY <1>0, <2>1, <2>2, LegStepLeaves, RecordStepLeaves, CycleStepLeaves DEF Step
  <1>2. Sees(l)
    <2>1. CASE CycleStep
      BY <1>0, <1>1, <2>1, CycleStepSees
    <2>2. CASE UNCHANGED cycle
      BY <1>1, <2>2 DEF cycle, Leaves, BookLeaves, Settled, Sees
    <2>3. CASE Restart
      BY <2>3 DEF Restart, Sees
    <2> QED BY <2>1, <2>2, <2>3, OutsideUnmoved
  <1>3. On(l)' \subseteq live' /\ (l \in held' <=> On(l)' # {})
    BY <1>1 DEF Leaves, BookLeaves, Settled
  <1>4. l \notin posted' /\ \A r \in sent' \cup filled' \cup exits' \cup deferred' : made'[r] # l
    BY <1>1 DEF Leaves, BookLeaves
  <1> QED BY <1>2, <1>3, <1>4 DEF Settled, Sees, On

(* A leg that is settled stays so, unless somebody acts on it or a poll    *)
(* leaves it out: whatever goes on in the other legs, and however long the *)
(* reconciliation has waited, it neither closes a record that is right nor *)
(* adopts or sells a leg that is in order.  What Converges adds is that a  *)
(* leg is settled in the end.                                              *)
THEOREM SettledForGood == Spec => SettledStays
  <1>1. Init => IType
    BY InitTyped
  <1>2. IType /\ [Next]_vars => IType'
    BY TypedStep
  <1>3. IType /\ [Next]_vars =>
          [\A l \in Leg : Settled(l) => Settled(l)' \/ Disturbs(l)]_vars
    BY SettledStep DEF Next
  <1> QED BY <1>1, <1>2, <1>3, PTL DEF Spec, SettledStays
=============================================================================
