-------------------------- MODULE LiveEntry_proofs --------------------------
(***************************************************************************)
(* What LiveEntry guarantees for any number of decisions, symbols,         *)
(* attempts, leases that run out, halts and restarts.  The order lock's    *)
(* share is taken over from OrderLock_proofs: the entries and exits use    *)
(* the lock as OrderLock describes it.                                     *)
(***************************************************************************)
EXTENDS LiveEntry, TLAPS

Proved == INSTANCE OrderLock_proofs WITH Key <- Symbol

LEMMA Typed ==
    ASSUME plan \in Plans
    PROVE  \A p \in Position : /\ symbol(p) \in Symbol /\ side(p) \in Side
                               /\ entering(p) \in Op /\ leaving(p) \in Op
BY PlansAssumption DEF symbol, side, entering, leaving, Op

LEMMA PlanKept == [Next]_vars => plan' = plan
<1>. SUFFICES ASSUME [Next]_vars  PROVE plan' = plan  OBVIOUS
<1>1. ASSUME NEW p \in Position, EntryStep(p)  PROVE plan' = plan
  BY <1>1 DEF EntryStep, CheckFails, CheckRefuses, PlaceSent, EntryFails, StopExhausted,
              Catastrophe, FillConfirmed, FillUnverified, ForceSent, ForceOver
<1>2. ASSUME NEW p \in Position, ExitStep(p) \/ ExchangeStep(p)  PROVE plan' = plan
  BY <1>2 DEF ExitStep, ExitPosted, ExitAnswered, ExitRefused, ExitFails, ExchangeStep,
              EntryExecutes, RescueExecutes, ForceExecutes, ExitExecutes, EndsElsewhere
<1>3. ASSUME NEW p \in Position,
             \/ Decide(p) \/ DecideInVain(p)
             \/ CloseBare(p) \/ CloseByStop(p) \/ CloseAtMarket(p)
      PROVE  plan' = plan
  BY <1>3 DEF Decide, DecideInVain, CloseBare, CloseByStop, CloseAtMarket
<1>4. ASSUME (\E p \in Position : QueueRowDone(p)) \/ (\E s \in Symbol : LeaseRunsOut(s))  PROVE plan' = plan
  BY <1>4 DEF QueueRowDone, LeaseRunsOut
<1>5. CASE ArmHalt \/ LiftHalt \/ Restart
  BY <1>5 DEF ArmHalt, LiftHalt, Restart
<1>6. CASE UNCHANGED vars
  BY <1>6 DEF vars
<1>. QED  BY <1>1, <1>2, <1>3, <1>4, <1>5, <1>6 DEF Next

LEMMA PlanTyped == Spec => [](plan \in Plans)
<1>1. Init => plan \in Plans  BY DEF Init
<1>2. plan \in Plans /\ [Next]_vars => (plan \in Plans)'  BY PlanKept
<1>. QED  BY <1>1, <1>2, PTL DEF Spec
-----------------------------------------------------------------------------
(* The order lock.                                                         *)

LEMMA StepUsesLock ==
    ASSUME plan \in Plans, [Next]_vars
    PROVE  [Lock!LockNext]_lockVars
<1>1. ASSUME NEW p \in Position, EntryStep(p)  PROVE [Lock!LockNext]_lockVars
  BY <1>1, Typed DEF Lock!LockNext, EntryStep, CheckFails, CheckRefuses, PlaceSent, EntryFails,
       StopExhausted, Catastrophe, FillConfirmed, FillUnverified, ForceSent, ForceOver
<1>2. ASSUME NEW p \in Position, ExitStep(p)  PROVE [Lock!LockNext]_lockVars
  BY <1>2, Typed DEF Lock!LockNext, ExitStep, ExitPosted, ExitAnswered, ExitRefused, ExitFails
<1>3. ASSUME NEW p \in Position, ExchangeStep(p)  PROVE [Lock!LockNext]_lockVars
  BY <1>3 DEF ExchangeStep, EntryExecutes, RescueExecutes, ForceExecutes, ExitExecutes, EndsElsewhere
<1>4. ASSUME NEW p \in Position,
             \/ Decide(p) \/ DecideInVain(p)
             \/ CloseBare(p) \/ CloseByStop(p) \/ CloseAtMarket(p)
      PROVE  [Lock!LockNext]_lockVars
  BY <1>4 DEF Decide, DecideInVain, CloseBare, CloseByStop, CloseAtMarket
<1>5. ASSUME (\E p \in Position : QueueRowDone(p)) \/ (\E s \in Symbol : LeaseRunsOut(s))  PROVE [Lock!LockNext]_lockVars
  BY <1>5 DEF QueueRowDone, LeaseRunsOut, Lock!LockNext
<1>6. CASE ArmHalt \/ LiftHalt \/ Restart
  BY <1>6 DEF ArmHalt, LiftHalt, Restart, Lock!LockNext
<1>7. CASE UNCHANGED vars
  BY <1>7 DEF vars
<1>. QED  BY <1>1, <1>2, <1>3, <1>4, <1>5, <1>6, <1>7 DEF Next

(* Every entry and exit takes and returns the order lock as OrderLock      *)
(* describes: nobody releases it who is not inside.                        *)
THEOREM LockUsedRight == Spec => LockUsed
<1>1. Init => Lock!LockInit  BY DEF Init
<1>2. plan \in Plans /\ [Next]_vars => [Lock!LockNext]_lockVars  BY StepUsesLock
<1>. QED
  BY <1>1, <1>2, PlanTyped, PTL DEF Spec, LockUsed, Lock!LockSpec, lockVars, Lock!lockVars

LEMMA LockFacts == LockUsed => [](Lock!LockTypeOK /\ Lock!Overlap)
<1>1. Proved!LockSpec => [](Proved!LockTypeOK /\ Proved!Overlap)
  BY EntryBounds, Proved!LocksApart
<1>2. Proved!LockInit <=> Lock!LockInit
  BY DEF Proved!LockInit, Lock!LockInit
<1>3. [Proved!LockNext]_(Proved!lockVars) <=> [Lock!LockNext]_(Lock!lockVars)
  BY DEF Proved!LockNext, Proved!lockVars, Proved!Acquire, Proved!Release, Proved!Renew,
         Proved!RunsOut, Proved!LockLost, Proved!Refuses,
         Lock!LockNext, Lock!lockVars, Lock!Acquire, Lock!Release, Lock!Renew,
         Lock!RunsOut, Lock!LockLost, Lock!Refuses
<1>4. Proved!LockTypeOK /\ Proved!Overlap <=> Lock!LockTypeOK /\ Lock!Overlap
  BY DEF Proved!LockTypeOK, Proved!Overlap, Proved!Cardinality,
         Lock!LockTypeOK, Lock!Overlap, Lock!Cardinality
<1>. QED  BY <1>1, <1>2, <1>3, <1>4, PTL DEF LockUsed, Proved!LockSpec, Lock!LockSpec

(* Entry and exit orders of a symbol overlap only as often as leases ran   *)
(* out, for any number of orders.                                          *)
THEOREM OrdersKeptApart == Spec => []OrdersApart
<1>1. Lock!LockTypeOK /\ Lock!Overlap => OrdersApart  BY DEF OrdersApart
<1>. QED  BY <1>1, LockUsedRight, LockFacts, PTL
-----------------------------------------------------------------------------
(* Type correctness.                                                       *)

EntryTyped ==
    /\ plan \in Plans
    /\ tracked \in SUBSET Position /\ live \in SUBSET Position
    /\ closed \in [Position -> Reason]
    /\ entry \in [Position -> Stage] /\ entryLock \in SUBSET Symbol
    /\ exit \in [Position -> ExitStage] /\ tries \in [Position -> 0 .. MaxTries - 1]
    /\ held \in SUBSET Position /\ queued \in SUBSET Position /\ abandoned \in SUBSET Position
    /\ halted \in BOOLEAN /\ sent \in [Symbol -> Nat] /\ restarts \in 0 .. MaxRestarts

LEMMA AttemptTyped ==
    ASSUME EntryTyped, NEW p \in Position, AttemptFailed(p)
    PROVE  /\ exit' \in [Position -> ExitStage] /\ tries' \in [Position -> 0 .. MaxTries - 1]
           /\ queued' \in SUBSET Position
<1>1. tries[p] \in 0 .. MaxTries - 1 /\ symbol(p) \in Symbol  BY Typed DEF EntryTyped
<1>2. CASE tries[p] + 1 < MaxTries
  BY <1>1, <1>2, EntryBounds DEF AttemptFailed, Ends, EntryTyped, ExitStage
<1>3. CASE ~(tries[p] + 1 < MaxTries)
  BY <1>1, <1>3, EntryBounds DEF AttemptFailed, Ends, EntryTyped, ExitStage
<1>. QED  BY <1>2, <1>3

LEMMA StepTyped ==
    ASSUME EntryTyped, [Next]_vars
    PROVE  EntryTyped'
<1>. USE DEF Goto, Over, Forgotten, Left, Stage, ExitStage, Reason, At,
             book, entries, exits, queue, halt
<1>0. plan' = plan /\ \A p \in Position : symbol(p) \in Symbol
  BY PlanKept, Typed DEF EntryTyped
<1>1. ASSUME NEW p \in Position, EntryStep(p)  PROVE EntryTyped'
  <2>1. CASE CheckFails(p)      BY <1>0, <2>1 DEF CheckFails, EntryTyped
  <2>2. CASE CheckRefuses(p)    BY <1>0, <2>2 DEF CheckRefuses, EntryTyped
  <2>3. CASE PlaceSent(p)       BY <1>0, <2>3 DEF PlaceSent, EntryTyped
  <2>4. CASE EntryFails(p)      BY <1>0, <2>4 DEF EntryFails, EntryTyped
  <2>5. CASE StopExhausted(p)   BY <1>0, <2>5 DEF StopExhausted, EntryTyped
  <2>6. CASE Catastrophe(p)     BY <1>0, <2>6 DEF Catastrophe, EntryTyped
  <2>7. CASE FillConfirmed(p)   BY <1>0, <2>7 DEF FillConfirmed, EntryTyped
  <2>8. CASE FillUnverified(p)  BY <1>0, <2>8 DEF FillUnverified, EntryTyped
  <2>9. CASE ForceSent(p)       BY <1>0, <2>9 DEF ForceSent, EntryTyped
  <2>10. CASE ForceOver(p)      BY <1>0, <2>10 DEF ForceOver, EntryTyped
  <2>. QED  BY <1>1, <2>1, <2>2, <2>3, <2>4, <2>5, <2>6, <2>7, <2>8, <2>9, <2>10 DEF EntryStep
<1>2. ASSUME NEW p \in Position, ExitStep(p)  PROVE EntryTyped'
  <2>1. CASE ExitPosted(p)      BY <1>0, <2>1 DEF ExitPosted, EntryTyped
  <2>2. CASE ExitAnswered(p)    BY <1>0, <2>2, EntryBounds DEF ExitAnswered, Ends, EntryTyped
  <2>3. CASE ExitRefused(p)     BY <1>0, <2>3, AttemptTyped DEF ExitRefused, EntryTyped
  <2>4. CASE ExitFails(p)       BY <1>0, <2>4, AttemptTyped DEF ExitFails, EntryTyped
  <2>. QED  BY <1>2, <2>1, <2>2, <2>3, <2>4 DEF ExitStep
<1>3. ASSUME NEW p \in Position, ExchangeStep(p)  PROVE EntryTyped'
  <2>1. CASE EntryExecutes(p)   BY <1>0, <2>1 DEF EntryExecutes, Bought, Opposing, EntryTyped
  <2>2. CASE RescueExecutes(p)  BY <1>0, <2>2 DEF RescueExecutes, Sold, Target, EntryTyped
  <2>3. CASE ForceExecutes(p)   BY <1>0, <2>3 DEF ForceExecutes, Sold, Target, EntryTyped
  <2>4. CASE ExitExecutes(p)    BY <1>0, <2>4 DEF ExitExecutes, Sold, Target, EntryTyped
  <2>5. CASE EndsElsewhere(p)   BY <1>0, <2>5 DEF EndsElsewhere, EntryTyped
  <2>. QED  BY <1>3, <2>1, <2>2, <2>3, <2>4, <2>5 DEF ExchangeStep
<1>4. ASSUME NEW p \in Position,
             \/ Decide(p) \/ DecideInVain(p)
             \/ CloseBare(p) \/ CloseByStop(p) \/ CloseAtMarket(p)
      PROVE  EntryTyped'
  BY <1>0, <1>4 DEF Decide, DecideInVain, CloseBare, CloseByStop, CloseAtMarket, EntryTyped
<1>5. ASSUME (\E p \in Position : QueueRowDone(p)) \/ (\E s \in Symbol : LeaseRunsOut(s))  PROVE EntryTyped'
  BY <1>0, <1>5 DEF QueueRowDone, LeaseRunsOut, EntryTyped
<1>6. CASE ArmHalt \/ LiftHalt
  <2>1. halted' \in BOOLEAN  BY <1>6 DEF ArmHalt, LiftHalt
  <2>2. sent' \in [Symbol -> Nat]  BY <1>6 DEF ArmHalt, LiftHalt, EntryTyped
  <2>3. UNCHANGED <<book, entries, exits, held, queue, restarts>>
    BY <1>6 DEF ArmHalt, LiftHalt
  <2>. QED  BY <1>0, <2>1, <2>2, <2>3 DEF EntryTyped
<1>7. CASE Restart
  BY <1>0, <1>7, EntryBounds DEF Restart, EntryTyped
<1>8. CASE UNCHANGED vars
  BY <1>0, <1>8 DEF vars, EntryTyped
<1>. QED  BY <1>1, <1>2, <1>3, <1>4, <1>5, <1>6, <1>7, <1>8 DEF Next

LEMMA EntriesTyped == Spec => []EntryTyped
<1>1. ASSUME Init  PROVE EntryTyped
  <2>1. halted \in BOOLEAN  BY <1>1 DEF Init
  <2>2. tries \in [Position -> 0 .. MaxTries - 1] /\ restarts \in 0 .. MaxRestarts
        /\ sent \in [Symbol -> Nat]
    BY <1>1, EntryBounds DEF Init
  <2>. QED  BY <1>1, <2>1, <2>2 DEF Init, EntryTyped, Reason, Stage, ExitStage
<1>2. EntryTyped /\ [Next]_vars => EntryTyped'  BY StepTyped
<1>. QED  BY <1>1, <1>2, PTL DEF Spec

(* Type correctness: an exit counts fewer than MaxTries failed attempts.   *)
THEOREM EntryTypeCorrect == Spec => []TypeOK
<1>1. EntryTyped /\ Lock!LockTypeOK => TypeOK  BY DEF EntryTyped, TypeOK
<1>. QED  BY <1>1, EntriesTyped, LockUsedRight, LockFacts, PTL
-----------------------------------------------------------------------------
(* One entry in flight per symbol.  How a step moves the entries.          *)

Going(p, stage) ==
    /\ InFlight(p) /\ stage \notin {"new", "check", "over"}
    /\ entry' = [entry EXCEPT ![p] = stage] /\ UNCHANGED entryLock

EntriesMove ==
    \/ UNCHANGED <<entry, entryLock>>
    \/ \E p \in Position :
          \/ /\ entry[p] = "new" /\ ~halted /\ symbol(p) \notin entryLock
             /\ entry' = [entry EXCEPT ![p] = "check"]
             /\ entryLock' = entryLock \cup {symbol(p)}
          \/ /\ entry[p] = "new"
             /\ entry' = [entry EXCEPT ![p] = "over"] /\ UNCHANGED entryLock
          \/ \E stage \in Stage : Going(p, stage)
          \/ InFlight(p) /\ Over(p)
    \/ /\ entry' = [p \in Position |-> IF InFlight(p) THEN "over" ELSE entry[p]]
       /\ entryLock' = {}

LEMMA StepMoves ==
    ASSUME EntryTyped, [Next]_vars
    PROVE  EntriesMove
<1>. USE DEF EntriesMove, Going, InFlight, Goto, Over, At, Stage, entries
<1>1. ASSUME NEW p \in Position, EntryStep(p)  PROVE EntriesMove
  <2>1. CASE CheckFails(p)      BY <2>1 DEF CheckFails
  <2>2. CASE CheckRefuses(p)    BY <2>2 DEF CheckRefuses
  <2>3. CASE PlaceSent(p)       BY <2>3 DEF PlaceSent
  <2>4. CASE EntryFails(p)      BY <2>4 DEF EntryFails
  <2>5. CASE StopExhausted(p)   BY <2>5 DEF StopExhausted
  <2>6. CASE Catastrophe(p)     BY <2>6 DEF Catastrophe
  <2>7. CASE FillConfirmed(p)   BY <2>7 DEF FillConfirmed
  <2>8. CASE FillUnverified(p)  BY <2>8 DEF FillUnverified
  <2>9. CASE ForceSent(p)       BY <2>9 DEF ForceSent
  <2>10. CASE ForceOver(p)      BY <2>10 DEF ForceOver
  <2>. QED  BY <1>1, <2>1, <2>2, <2>3, <2>4, <2>5, <2>6, <2>7, <2>8, <2>9, <2>10 DEF EntryStep
<1>2. ASSUME NEW p \in Position, ExitStep(p)  PROVE EntriesMove
  BY <1>2 DEF ExitStep, ExitPosted, ExitAnswered, ExitRefused, ExitFails
<1>3. ASSUME NEW p \in Position, ExchangeStep(p)  PROVE EntriesMove
  BY <1>3 DEF ExchangeStep, EntryExecutes, RescueExecutes, ForceExecutes, ExitExecutes, EndsElsewhere
<1>4. ASSUME NEW p \in Position, Decide(p) \/ DecideInVain(p)  PROVE EntriesMove
  BY <1>4 DEF Decide, DecideInVain
<1>5. ASSUME NEW p \in Position, CloseBare(p) \/ CloseByStop(p) \/ CloseAtMarket(p)
      PROVE  EntriesMove
  BY <1>5 DEF CloseBare, CloseByStop, CloseAtMarket
<1>6. ASSUME (\E p \in Position : QueueRowDone(p)) \/ (\E s \in Symbol : LeaseRunsOut(s))  PROVE EntriesMove
  BY <1>6 DEF QueueRowDone, LeaseRunsOut
<1>7. CASE ArmHalt \/ LiftHalt \/ Restart
  BY <1>7 DEF ArmHalt, LiftHalt, Restart
<1>8. CASE UNCHANGED vars
  BY <1>8 DEF vars
<1>. QED  BY <1>1, <1>2, <1>3, <1>4, <1>5, <1>6, <1>7, <1>8 DEF Next

LEMMA MoveExclusive ==
    ASSUME EntryTyped, plan' = plan, EntriesExclusive, EntriesMove
    PROVE  EntriesExclusive'
<1>. USE DEF EntriesExclusive, InFlight, symbol
<1>1. CASE UNCHANGED <<entry, entryLock>>  BY <1>1
<1>2. ASSUME NEW p \in Position,
             entry[p] = "new", symbol(p) \notin entryLock,
             entry' = [entry EXCEPT ![p] = "check"],
             entryLock' = entryLock \cup {symbol(p)}
      PROVE  EntriesExclusive'
  BY <1>2 DEF EntryTyped
<1>3. ASSUME NEW p \in Position, entry[p] = "new",
             entry' = [entry EXCEPT ![p] = "over"], UNCHANGED entryLock
      PROVE  EntriesExclusive'
  BY <1>3 DEF EntryTyped
<1>4. ASSUME NEW p \in Position, NEW stage \in Stage, Going(p, stage)  PROVE EntriesExclusive'
  BY <1>4 DEF EntryTyped, Going
<1>5. ASSUME NEW p \in Position, InFlight(p), Over(p)  PROVE EntriesExclusive'
  BY <1>5 DEF EntryTyped, Over
<1>6. CASE /\ entry' = [p \in Position |-> IF InFlight(p) THEN "over" ELSE entry[p]]
           /\ entryLock' = {}
  BY <1>6 DEF EntryTyped
<1>. QED  BY <1>1, <1>2, <1>3, <1>4, <1>5, <1>6 DEF EntriesMove

(* A symbol never has two entries in flight, and its lock is taken exactly *)
(* as long as it has one.                                                  *)
THEOREM EntriesAlone == Spec => []EntriesExclusive
<1>1. Init => EntriesExclusive  BY DEF Init, EntriesExclusive, InFlight
<1>2. EntryTyped /\ EntriesExclusive /\ [Next]_vars => EntriesExclusive'
  BY PlanKept, StepMoves, MoveExclusive
<1>. QED  BY <1>1, <1>2, EntriesTyped, PTL DEF Spec
-----------------------------------------------------------------------------
(* The halt.  Nothing was sent while it is off, nor in a symbol whose      *)
(* entry has yet to send its order.                                        *)

HaltInv ==
    /\ \A s \in Symbol : sent[s] \in {0, 1} /\ (~halted => sent[s] = 0)
    /\ \A p \in Position : At(p, "check") => sent[symbol(p)] = 0

(* What a step does to the halt.                                           *)
HaltMoves ==
    \/ UNCHANGED <<halted, sent>>
    \/ halted' = TRUE /\ UNCHANGED sent
    \/ sent' = [s \in Symbol |-> 0]

LEMMA HaltKept ==
    ASSUME EntryTyped, EntriesExclusive, HaltInv, [Next]_vars
    PROVE  HaltInv'
<1>0. plan' = plan /\ EntriesMove /\ \A p \in Position : symbol(p) \in Symbol
  BY PlanKept, StepMoves, Typed DEF EntryTyped
<1>1. ASSUME NEW p \in Position, PlaceSent(p)  PROVE HaltInv'
  <2>1. sent[symbol(p)] = 0 /\ symbol(p) \in Symbol  BY <1>0, <1>1 DEF HaltInv, PlaceSent
  <2>2. ASSUME NEW q \in Position, q # p, At(q, "check")  PROVE symbol(q) # symbol(p)
    BY <1>1, <2>2 DEF EntriesExclusive, InFlight, PlaceSent, At
  <2>3. \A q \in Position : At(q, "check")' => q # p /\ At(q, "check")
    BY <1>1 DEF PlaceSent, Goto, At, EntryTyped
  <2>4. \A s \in Symbol : sent'[s] = IF s = symbol(p) /\ halted THEN sent[s] + 1 ELSE sent[s]
    BY <1>1, <2>1 DEF PlaceSent, EntryTyped
  <2>5. halted' = halted  BY <1>1 DEF PlaceSent
  <2>6. \A s \in Symbol : sent'[s] \in {0, 1}  BY <2>1, <2>4 DEF HaltInv
  <2>7. \A s \in Symbol : ~halted' => sent'[s] = 0  BY <2>4, <2>5 DEF HaltInv
  <2>8. \A q \in Position : At(q, "check")' => sent'[symbol(q)'] = 0
    BY <1>0, <2>2, <2>3, <2>4 DEF HaltInv, symbol
  <2>. QED  BY <2>6, <2>7, <2>8 DEF HaltInv
<1>2. ASSUME HaltMoves  PROVE HaltInv'
  <2>1. \A s \in Symbol : sent'[s] \in {0, 1} /\ (~halted' => sent'[s] = 0)
    BY <1>2 DEF HaltMoves, HaltInv
  <2>2. ASSUME NEW q \in Position, At(q, "check")'  PROVE sent'[symbol(q)'] = 0
    <3>1. symbol(q)' = symbol(q) /\ symbol(q) \in Symbol  BY <1>0 DEF symbol
    <3>2. CASE At(q, "check")  BY <1>2, <3>1, <3>2 DEF HaltMoves, HaltInv
    <3>3. CASE ~At(q, "check")
      <4>1. ~halted
        BY <1>0, <2>2, <3>3 DEF EntriesMove, Going, InFlight, Over, At, EntryTyped
      <4>. QED  BY <1>2, <3>1, <4>1 DEF HaltMoves, HaltInv
    <3>. QED  BY <3>2, <3>3
  <2>. QED  BY <2>1, <2>2 DEF HaltInv
<1>. USE DEF HaltMoves, halt
<1>3. ASSUME NEW p \in Position, EntryStep(p), ~PlaceSent(p)  PROVE HaltMoves
  BY <1>3 DEF EntryStep, CheckFails, CheckRefuses, EntryFails, StopExhausted, Catastrophe,
              FillConfirmed, FillUnverified, ForceSent, ForceOver
<1>4. ASSUME NEW p \in Position, ExitStep(p) \/ ExchangeStep(p)  PROVE HaltMoves
  BY <1>4 DEF ExitStep, ExitPosted, ExitAnswered, ExitRefused, ExitFails, ExchangeStep,
              EntryExecutes, RescueExecutes, ForceExecutes, ExitExecutes, EndsElsewhere
<1>5. ASSUME NEW p \in Position,
             \/ Decide(p) \/ DecideInVain(p)
             \/ CloseBare(p) \/ CloseByStop(p) \/ CloseAtMarket(p)
      PROVE  HaltMoves
  BY <1>5 DEF Decide, DecideInVain, CloseBare, CloseByStop, CloseAtMarket
<1>6. ASSUME (\E p \in Position : QueueRowDone(p)) \/ (\E s \in Symbol : LeaseRunsOut(s))  PROVE HaltMoves
  BY <1>6 DEF QueueRowDone, LeaseRunsOut
<1>7. CASE ArmHalt \/ LiftHalt \/ Restart
  BY <1>2, <1>7 DEF ArmHalt, LiftHalt, Restart
<1>8. CASE UNCHANGED vars
  BY <1>2, <1>8 DEF vars
<1>. QED  BY <1>1, <1>2, <1>3, <1>4, <1>5, <1>6, <1>7, <1>8 DEF Next

(* However often the halt is armed and lifted, it lets out at most one     *)
(* entry order per symbol each time.                                       *)
THEOREM HaltBounds == Spec => []HaltBoundsEntries
<1>1. Init => HaltInv  BY Typed DEF Init, HaltInv, At
<1>2. EntryTyped /\ EntriesExclusive /\ HaltInv /\ [Next]_vars => HaltInv'  BY HaltKept
<1>3. HaltInv => HaltBoundsEntries  BY DEF HaltInv, HaltBoundsEntries
<1>. QED  BY <1>1, <1>2, <1>3, EntriesTyped, EntriesAlone, PTL DEF Spec
-----------------------------------------------------------------------------
(* What the exchange holds.  A position sends an exit only once its entry  *)
(* is over, and an exit that is over leaves its unit held only with a row  *)
(* in the queue, or when the queue was done with that row.                 *)

BookOf(p) ==
    /\ entry[p] = "new" => p \notin held /\ p \notin tracked /\ closed[p] = "open"
    /\ p \in tracked => closed[p] = "open"
    /\ p \notin tracked /\ entry[p] # "new" => closed[p] # "open"
    /\ p \in live => entry[p] = "over"
    /\ exit[p] # "no" => p \in live
    /\ closed[p] = "market" => exit[p] # "no"
    /\ exit[p] = "executed" => p \notin held
    /\ exit[p] = "over" /\ p \in held => p \in queued \cup abandoned

BookInv == \A p \in Position : BookOf(p)

LEMMA SoldFacts ==
    ASSUME NEW p \in Position, Sold(p)
    PROVE  held' \subseteq held /\ p \notin held'
BY DEF Sold, Target

LEMMA BoughtFacts ==
    ASSUME NEW p \in Position, Bought(p)
    PROVE  held' \subseteq held \cup {p}
BY DEF Bought, Opposing

LEMMA AttemptFacts ==
    ASSUME EntryTyped, NEW p \in Position, AttemptFailed(p)
    PROVE  /\ \A q \in Position : q # p => exit'[q] = exit[q]
           /\ exit'[p] \in {"due", "over"} /\ queued \subseteq queued'
           /\ exit'[p] = "over" => p \in queued'
BY DEF AttemptFailed, Ends, EntryTyped

LEMMA BookKept ==
    ASSUME EntryTyped, BookInv, [Next]_vars
    PROVE  BookInv'
<1>0. plan' = plan  BY PlanKept
<1>. SUFFICES ASSUME NEW q \in Position  PROVE BookOf(q)'
  BY DEF BookInv
<1>. USE DEF BookInv, BookOf, InFlight, Goto, Over, Forgotten, Left, At, book, entries, exits, queue, symbol
<1>1. ASSUME NEW p \in Position, EntryStep(p)  PROVE BookOf(q)'
  <2>1. CASE CheckFails(p)      BY <1>0, <2>1 DEF CheckFails, EntryTyped
  <2>2. CASE CheckRefuses(p)    BY <1>0, <2>2 DEF CheckRefuses, EntryTyped
  <2>3. CASE PlaceSent(p)       BY <1>0, <2>3 DEF PlaceSent, EntryTyped
  <2>4. CASE EntryFails(p)      BY <1>0, <2>4 DEF EntryFails, EntryTyped
  <2>5. CASE StopExhausted(p)   BY <1>0, <2>5 DEF StopExhausted, EntryTyped
  <2>6. CASE Catastrophe(p)     BY <1>0, <2>6 DEF Catastrophe, EntryTyped
  <2>7. CASE FillConfirmed(p)   BY <1>0, <2>7 DEF FillConfirmed, EntryTyped
  <2>8. CASE FillUnverified(p)  BY <1>0, <2>8 DEF FillUnverified, EntryTyped
  <2>9. CASE ForceSent(p)       BY <1>0, <2>9 DEF ForceSent, EntryTyped
  <2>10. CASE ForceOver(p)      BY <1>0, <2>10 DEF ForceOver, EntryTyped
  <2>. QED  BY <1>1, <2>1, <2>2, <2>3, <2>4, <2>5, <2>6, <2>7, <2>8, <2>9, <2>10 DEF EntryStep
<1>2. ASSUME NEW p \in Position, ExitStep(p)  PROVE BookOf(q)'
  <2>1. CASE ExitPosted(p)      BY <1>0, <2>1 DEF ExitPosted, EntryTyped
  <2>2. CASE ExitAnswered(p)    BY <1>0, <2>2 DEF ExitAnswered, Ends, EntryTyped
  <2>3. CASE ExitRefused(p)     BY <1>0, <2>3, AttemptFacts DEF ExitRefused, EntryTyped
  <2>4. CASE ExitFails(p)       BY <1>0, <2>4, AttemptFacts DEF ExitFails, EntryTyped
  <2>. QED  BY <1>2, <2>1, <2>2, <2>3, <2>4 DEF ExitStep
<1>3. ASSUME NEW p \in Position, ExchangeStep(p)  PROVE BookOf(q)'
  <2>1. CASE EntryExecutes(p)   BY <1>0, <2>1, BoughtFacts DEF EntryExecutes, EntryTyped
  <2>2. CASE RescueExecutes(p)  BY <1>0, <2>2, SoldFacts DEF RescueExecutes, EntryTyped
  <2>3. CASE ForceExecutes(p)   BY <1>0, <2>3, SoldFacts DEF ForceExecutes, EntryTyped
  <2>4. CASE ExitExecutes(p)    BY <1>0, <2>4, SoldFacts DEF ExitExecutes, EntryTyped
  <2>5. CASE EndsElsewhere(p)   BY <1>0, <2>5 DEF EndsElsewhere, EntryTyped
  <2>. QED  BY <1>3, <2>1, <2>2, <2>3, <2>4, <2>5 DEF ExchangeStep
<1>4. ASSUME NEW p \in Position, Decide(p) \/ DecideInVain(p)  PROVE BookOf(q)'
  BY <1>0, <1>4 DEF Decide, DecideInVain, EntryTyped
<1>5. ASSUME NEW p \in Position, CloseBare(p) \/ CloseByStop(p) \/ CloseAtMarket(p)
      PROVE  BookOf(q)'
  BY <1>0, <1>5 DEF CloseBare, CloseByStop, CloseAtMarket, EntryTyped
<1>6. ASSUME (\E p \in Position : QueueRowDone(p)) \/ (\E s \in Symbol : LeaseRunsOut(s))  PROVE BookOf(q)'
  BY <1>0, <1>6 DEF QueueRowDone, LeaseRunsOut, EntryTyped
<1>7. CASE ArmHalt \/ LiftHalt
  BY <1>0, <1>7 DEF ArmHalt, LiftHalt
<1>8. CASE Restart
  BY <1>0, <1>8 DEF Restart, Leaving, EntryTyped
<1>9. CASE UNCHANGED vars
  BY <1>0, <1>9 DEF vars
<1>. QED  BY <1>1, <1>2, <1>3, <1>4, <1>5, <1>6, <1>7, <1>8, <1>9 DEF Next

LEMMA BookAccounts ==
    ASSUME EntryTyped, BookInv
    PROVE  HeldAccounted
<1>. SUFFICES ASSUME NEW p \in Position, p \in held, p \notin tracked
              PROVE  \/ closed[p] \in {"failed", "bare", "stop"}
                     \/ closed[p] = "market" /\ (Leaving(p) \/ exit[p] = "cut" \/ p \in queued \cup abandoned)
  BY DEF HeldAccounted, EntryTyped
<1>1. closed[p] \in {"failed", "bare", "stop", "market"}
  BY DEF BookInv, BookOf, EntryTyped, Reason
<1>2. exit[p] \in {"no", "due", "posted", "executed", "over", "cut"}
  BY DEF EntryTyped, ExitStage
<1>. QED  BY <1>1, <1>2 DEF BookInv, BookOf, Leaving

(* For any interleaving of decisions, entries, closes, exits, lost answers *)
(* and restarts: what is held and no longer tracked has an exit under way  *)
(* or queued, or was forgotten in one of the five ways HeldAccounted names.*)
THEOREM HeldIsAccounted == Spec => []HeldAccounted
<1>1. Init => BookInv  BY DEF Init, BookInv, BookOf
<1>2. EntryTyped /\ BookInv /\ [Next]_vars => BookInv'  BY BookKept
<1>3. EntryTyped /\ BookInv => HeldAccounted  BY BookAccounts
<1>. QED  BY <1>1, <1>2, <1>3, EntriesTyped, PTL DEF Spec
-----------------------------------------------------------------------------
(* The way to the end of an entry and of an exit.                          *)

\* What a step of q may do to its entry, and any step to an entry.
EntryOn(q)   == entry'[q] # entry[q] => EntryToGo(q)' < EntryToGo(q)
EntriesOn    == \A q \in Position : EntryOn(q)
ExitOn(q)    == exit'[q] # exit[q] \/ tries'[q] # tries[q] => ExitToGo(q)' < ExitToGo(q)
ExitsOn      == \A q \in Position : ExitOn(q)

(* Attempts are counted only while an exit is under way, and only a        *)
(* position closed at the market has one.                                  *)
ExitInv ==
    \A p \in Position : /\ ~Leaving(p) => tries[p] = 0
                        /\ exit[p] # "no" => closed[p] = "market"

LEMMA EntryCount ==
    ASSUME EntryTyped, NEW p \in Position, NEW stage \in Stage,
           \/ entry[p] = "new" /\ stage \in {"check", "over"}
           \/ entry[p] = "check" /\ stage \in {"sent", "over"}
           \/ entry[p] = "sent" /\ stage \in {"filled", "over"}
           \/ entry[p] = "filled" /\ stage \in {"rescue", "force", "over"}
           \/ entry[p] = "rescue" /\ stage \in {"rescued", "over"}
           \/ entry[p] = "force" /\ stage \in {"forced", "over"}
           \/ entry[p] \in {"rescued", "forced"} /\ stage = "over",
           entry' = [entry EXCEPT ![p] = stage]
    PROVE  EntriesOn
<1>1. entry'[p] = stage /\ \A q \in Position : q # p => entry'[q] = entry[q]
  BY DEF EntryTyped
<1>2. EntryToGo(p)' < EntryToGo(p)
  BY <1>1 DEF EntryToGo
<1>. QED  BY <1>1, <1>2 DEF EntriesOn, EntryOn

LEMMA StepEntriesOn ==
    ASSUME EntryTyped, [Next]_vars
    PROVE  EntriesOn
<1>. USE EntryCount DEF Goto, Over, At, Stage
<1>1. ASSUME UNCHANGED entry  PROVE EntriesOn
  BY <1>1 DEF EntriesOn, EntryOn
<1>2. ASSUME NEW p \in Position, EntryStep(p)  PROVE EntriesOn
  <2>1. CASE CheckFails(p)      BY <2>1 DEF CheckFails
  <2>2. CASE CheckRefuses(p)    BY <2>2 DEF CheckRefuses
  <2>3. CASE PlaceSent(p)       BY <2>3 DEF PlaceSent
  <2>4. CASE EntryFails(p)      BY <2>4 DEF EntryFails
  <2>5. CASE StopExhausted(p)   BY <2>5 DEF StopExhausted
  <2>6. CASE Catastrophe(p)     BY <2>6 DEF Catastrophe
  <2>7. CASE FillConfirmed(p)   BY <2>7 DEF FillConfirmed
  <2>8. CASE FillUnverified(p)  BY <2>8 DEF FillUnverified
  <2>9. CASE ForceSent(p)       BY <2>9 DEF ForceSent
  <2>10. CASE ForceOver(p)      BY <2>10 DEF ForceOver
  <2>. QED  BY <1>2, <2>1, <2>2, <2>3, <2>4, <2>5, <2>6, <2>7, <2>8, <2>9, <2>10 DEF EntryStep
<1>3. ASSUME NEW p \in Position, ExchangeStep(p)  PROVE EntriesOn
  <2>1. CASE EntryExecutes(p)   BY <2>1 DEF EntryExecutes
  <2>2. CASE RescueExecutes(p)  BY <2>2 DEF RescueExecutes
  <2>3. CASE ForceExecutes(p)   BY <2>3 DEF ForceExecutes
  <2>4. CASE ExitExecutes(p) \/ EndsElsewhere(p)
    BY <1>1, <2>4 DEF ExitExecutes, EndsElsewhere, entries
  <2>. QED  BY <1>3, <2>1, <2>2, <2>3, <2>4 DEF ExchangeStep
<1>4. ASSUME NEW p \in Position, Decide(p) \/ DecideInVain(p)  PROVE EntriesOn
  BY <1>4 DEF Decide, DecideInVain
<1>5. CASE Restart
  <2>. SUFFICES ASSUME NEW q \in Position, InFlight(q)  PROVE EntryToGo(q)' < EntryToGo(q)
    BY <1>5 DEF EntriesOn, EntryOn, Restart
  <2>1. entry'[q] = "over" /\ entry[q] \in Stage \ {"new", "over"}
    BY <1>5 DEF Restart, InFlight, EntryTyped
  <2>. QED  BY <2>1 DEF EntryToGo
<1>6. ASSUME NEW p \in Position,
             ExitStep(p) \/ CloseBare(p) \/ CloseByStop(p) \/ CloseAtMarket(p)
      PROVE  EntriesOn
  BY <1>1, <1>6 DEF ExitStep, ExitPosted, ExitAnswered, ExitRefused, ExitFails,
                    CloseBare, CloseByStop, CloseAtMarket, entries
<1>7. ASSUME (\E p \in Position : QueueRowDone(p)) \/ (\E s \in Symbol : LeaseRunsOut(s))  PROVE EntriesOn
  BY <1>1, <1>7 DEF QueueRowDone, LeaseRunsOut, entries
<1>8. CASE ArmHalt \/ LiftHalt \/ UNCHANGED vars
  BY <1>1, <1>8 DEF ArmHalt, LiftHalt, vars, entries
<1>. QED  BY <1>2, <1>3, <1>4, <1>5, <1>6, <1>7, <1>8 DEF Next

LEMMA ExitCount ==
    ASSUME EntryTyped, NEW p \in Position, NEW stage, NEW n,
           \/ exit[p] = "no" /\ stage = "due" /\ n = tries[p]
           \/ exit[p] = "due" /\ stage = "posted" /\ n = tries[p]
           \/ exit[p] = "posted" /\ stage = "executed" /\ n = tries[p]
           \/ Leaving(p) /\ stage = "over"
           \/ Leaving(p) /\ stage = "due" /\ n = tries[p] + 1,
           exit' = [exit EXCEPT ![p] = stage], tries' = [tries EXCEPT ![p] = n]
    PROVE  ExitsOn
<1>1. /\ exit'[p] = stage /\ tries'[p] = n
      /\ \A q \in Position : q # p => exit'[q] = exit[q] /\ tries'[q] = tries[q]
  BY DEF EntryTyped
<1>2. tries[p] \in 0 .. MaxTries - 1 /\ MaxTries \in Nat
  BY EntryBounds DEF EntryTyped
<1>3. ExitToGo(p)' < ExitToGo(p)
  BY <1>1, <1>2 DEF ExitToGo, Leaving
<1>. QED  BY <1>1, <1>3 DEF ExitsOn, ExitOn

LEMMA StepExitsOn ==
    ASSUME EntryTyped, BookInv, ExitInv, [Next]_vars
    PROVE  ExitsOn
<1>1. ASSUME UNCHANGED <<exit, tries>>  PROVE ExitsOn
  BY <1>1 DEF ExitsOn, ExitOn
<1>2. ASSUME NEW p \in Position, ExitStep(p)  PROVE ExitsOn
  <2>1. tries = [tries EXCEPT ![p] = tries[p]]
    BY DEF EntryTyped
  <2>2. CASE ExitPosted(p)
    BY <2>1, <2>2, ExitCount DEF ExitPosted
  <2>3. CASE ExitAnswered(p)
    BY <2>3, ExitCount DEF ExitAnswered, Ends, Leaving
  <2>4. CASE AttemptFailed(p) /\ Leaving(p)
    BY <2>4, ExitCount DEF AttemptFailed, Ends
  <2>. QED  BY <1>2, <2>2, <2>3, <2>4 DEF ExitStep, ExitRefused, ExitFails, Leaving
<1>3. ASSUME NEW p \in Position, ExitExecutes(p)  PROVE ExitsOn
  <2>1. tries = [tries EXCEPT ![p] = tries[p]]
    BY DEF EntryTyped
  <2>. QED  BY <1>3, <2>1, ExitCount DEF ExitExecutes
<1>4. ASSUME NEW p \in Position, CloseAtMarket(p)  PROVE ExitsOn
  <2>1. tries = [tries EXCEPT ![p] = tries[p]]
    BY DEF EntryTyped
  <2>2. exit[p] = "no"
    BY <1>4 DEF CloseAtMarket, BookInv, BookOf, ExitInv
  <2>. QED  BY <1>4, <2>1, <2>2, ExitCount DEF CloseAtMarket
<1>5. CASE Restart
  <2>. SUFFICES ASSUME NEW q \in Position, Leaving(q)  PROVE ExitToGo(q)' < ExitToGo(q)
    BY <1>5 DEF ExitsOn, ExitOn, Restart, ExitInv, EntryTyped
  <2>1. exit'[q] = "cut" /\ exit[q] \in {"due", "posted", "executed"}
    BY <1>5 DEF Restart, Leaving
  <2>2. tries[q] \in 0 .. MaxTries - 1 /\ MaxTries \in Nat
    BY EntryBounds DEF EntryTyped
  <2>. QED  BY <2>1, <2>2 DEF ExitToGo
<1>6. ASSUME NEW p \in Position, EntryStep(p)  PROVE ExitsOn
  BY <1>1, <1>6 DEF EntryStep, CheckFails, CheckRefuses, PlaceSent, EntryFails, StopExhausted,
                    Catastrophe, FillConfirmed, FillUnverified, ForceSent, ForceOver, exits
<1>7. ASSUME NEW p \in Position, ExchangeStep(p), ~ExitExecutes(p)  PROVE ExitsOn
  BY <1>1, <1>7 DEF ExchangeStep, EntryExecutes, RescueExecutes, ForceExecutes, EndsElsewhere, exits
<1>8. ASSUME NEW p \in Position, Decide(p) \/ DecideInVain(p) \/ CloseBare(p) \/ CloseByStop(p)
      PROVE  ExitsOn
  BY <1>1, <1>8 DEF Decide, DecideInVain, CloseBare, CloseByStop, exits
<1>9. ASSUME (\E p \in Position : QueueRowDone(p)) \/ (\E s \in Symbol : LeaseRunsOut(s))  PROVE ExitsOn
  BY <1>1, <1>9 DEF QueueRowDone, LeaseRunsOut, exits
<1>10. CASE ArmHalt \/ LiftHalt \/ UNCHANGED vars
  BY <1>1, <1>10 DEF ArmHalt, LiftHalt, vars, exits
<1>. QED  BY <1>2, <1>3, <1>4, <1>5, <1>6, <1>7, <1>8, <1>9, <1>10 DEF Next

LEMMA ExitInvKept ==
    ASSUME EntryTyped, BookInv, ExitInv, [Next]_vars
    PROVE  ExitInv'
<1>. SUFFICES ASSUME NEW q \in Position
              PROVE  /\ ~Leaving(q)' => tries'[q] = 0
                     /\ exit'[q] # "no" => closed'[q] = "market"
  BY DEF ExitInv
<1>. USE DEF ExitInv, Leaving
<1>1. CASE UNCHANGED <<exit, tries, closed>>
  BY <1>1
<1>2. ASSUME NEW p \in Position, ExitStep(p)
      PROVE  /\ ~Leaving(q)' => tries'[q] = 0
             /\ exit'[q] # "no" => closed'[q] = "market"
  <2>1. closed' = closed /\ exit[p] # "no"
    BY <1>2 DEF ExitStep, ExitPosted, ExitAnswered, ExitRefused, ExitFails, book
  <2>2. \/ exit' = [exit EXCEPT ![p] = "posted"] /\ tries' = tries
        \/ Ends(p, "over", 0)
        \/ Ends(p, "due", tries[p] + 1)
    BY <1>2 DEF ExitStep, ExitPosted, ExitAnswered, ExitRefused, ExitFails, AttemptFailed
  <2>. QED  BY <2>1, <2>2 DEF Ends, EntryTyped
<1>3. ASSUME NEW p \in Position, ExitExecutes(p)
      PROVE  /\ ~Leaving(q)' => tries'[q] = 0
             /\ exit'[q] # "no" => closed'[q] = "market"
  BY <1>3 DEF ExitExecutes, EntryTyped, book
<1>4. ASSUME NEW p \in Position, p \in tracked \/ entry[p] = "new", NEW reason,
             closed' = [closed EXCEPT ![p] = reason], UNCHANGED exits
      PROVE  /\ ~Leaving(q)' => tries'[q] = 0
             /\ exit'[q] # "no" => closed'[q] = "market"
  BY <1>4 DEF BookInv, BookOf, EntryTyped, exits
<1>5. ASSUME NEW p \in Position, CloseAtMarket(p)
      PROVE  /\ ~Leaving(q)' => tries'[q] = 0
             /\ exit'[q] # "no" => closed'[q] = "market"
  BY <1>5 DEF CloseAtMarket, Left, EntryTyped
<1>6. CASE Restart
  BY <1>6 DEF Restart, EntryTyped, book
<1>7. ASSUME NEW p \in Position, EntryStep(p)
      PROVE  /\ ~Leaving(q)' => tries'[q] = 0
             /\ exit'[q] # "no" => closed'[q] = "market"
  <2>1. CASE Forgotten(p) /\ UNCHANGED exits
    <3>1. CASE p \in tracked      BY <1>4, <2>1, <3>1 DEF Forgotten
    <3>2. CASE p \notin tracked   BY <1>1, <2>1, <3>2 DEF Forgotten, EntryTyped, exits
    <3>. QED  BY <3>1, <3>2
  <2>2. CASE UNCHANGED <<closed, exits>>
    BY <1>1, <2>2 DEF exits
  <2>. QED
    BY <1>7, <2>1, <2>2
       DEF EntryStep, CheckFails, CheckRefuses, PlaceSent, EntryFails, StopExhausted,
           Catastrophe, FillConfirmed, FillUnverified, ForceSent, ForceOver, book
<1>8. ASSUME NEW p \in Position, DecideInVain(p) \/ CloseBare(p) \/ CloseByStop(p)
      PROVE  /\ ~Leaving(q)' => tries'[q] = 0
             /\ exit'[q] # "no" => closed'[q] = "market"
  BY <1>4, <1>8 DEF DecideInVain, CloseBare, CloseByStop, Left
<1>9. ASSUME NEW p \in Position, Decide(p) \/ (ExchangeStep(p) /\ ~ExitExecutes(p))
      PROVE  /\ ~Leaving(q)' => tries'[q] = 0
             /\ exit'[q] # "no" => closed'[q] = "market"
  BY <1>1, <1>9 DEF Decide, ExchangeStep, EntryExecutes, RescueExecutes, ForceExecutes,
                    EndsElsewhere, exits, book
<1>10. ASSUME (\E p \in Position : QueueRowDone(p)) \/ (\E s \in Symbol : LeaseRunsOut(s))
       PROVE  UNCHANGED <<exit, tries, closed>>
  BY <1>10 DEF QueueRowDone, LeaseRunsOut, exits, book
<1>11. ArmHalt \/ LiftHalt \/ UNCHANGED vars => UNCHANGED <<exit, tries, closed>>
  BY DEF ArmHalt, LiftHalt, vars, exits, book
<1>. QED
  BY <1>1, <1>2, <1>3, <1>5, <1>6, <1>7, <1>8, <1>9, <1>10, <1>11 DEF Next

(* Entries and exits only go on: whatever fails, is refused or restarts,   *)
(* every step of one brings it nearer to its end, and no other step moves  *)
(* it back.  What EntryEnds and ExitCompletes add is that steps are taken. *)
THEOREM EntriesGoOn == Spec => OnlyOnward
<1>1. Init => BookInv /\ ExitInv
  BY DEF Init, BookInv, BookOf, ExitInv
<1>2. EntryTyped /\ BookInv /\ ExitInv /\ [Next]_vars => (BookInv /\ ExitInv)'
  BY BookKept, ExitInvKept
<1>3. EntryTyped /\ BookInv /\ ExitInv /\ [Next]_vars =>
        [\A p \in Position :
           /\ entry'[p] # entry[p] => EntryToGo(p)' < EntryToGo(p)
           /\ exit'[p] # exit[p] \/ tries'[p] # tries[p] => ExitToGo(p)' < ExitToGo(p)]_vars
  BY StepEntriesOn, StepExitsOn DEF EntriesOn, EntryOn, ExitsOn, ExitOn
<1>. QED  BY <1>1, <1>2, <1>3, EntriesTyped, PTL DEF Spec, OnlyOnward
-----------------------------------------------------------------------------
(* The ledger.  A step makes at most one record, and otherwise closes some.*)

PromiseKept == INSTANCE Ledger_proofs WITH
    Leg      <- LegAt,
    Conflict <- Opposed,
    legOf    <- [p \in Decided |-> plan[p]],
    open     <- tracked

RecordsMove ==
    \/ Decided' = Decided /\ tracked' \subseteq tracked
    \/ \E p \in Position \ Decided :
          /\ Decided' = Decided \cup {p}
          /\ tracked' = tracked \/ (Allowed(p) /\ tracked' = tracked \cup {p})

LEMMA DecidedKept ==
    ASSUME EntryTyped, NEW p \in Position, NEW stage, entry[p] # "new", stage # "new",
           entry' = [entry EXCEPT ![p] = stage]
    PROVE  Decided' = Decided
BY DEF Decided, EntryTyped

LEMMA StepRecords ==
    ASSUME EntryTyped, [Next]_vars
    PROVE  RecordsMove
<1>. USE DEF RecordsMove
<1>1. ASSUME NEW p \in Position, EntryStep(p)  PROVE RecordsMove
  <2>1. /\ entry[p] # "new"
        /\ \E stage : stage # "new" /\ entry' = [entry EXCEPT ![p] = stage]
    BY <1>1 DEF EntryStep, CheckFails, CheckRefuses, PlaceSent, EntryFails, StopExhausted,
                Catastrophe, FillConfirmed, FillUnverified, ForceSent, ForceOver, At, Goto, Over
  <2>2. tracked' \subseteq tracked
    BY <1>1 DEF EntryStep, CheckFails, CheckRefuses, PlaceSent, EntryFails, StopExhausted,
                Catastrophe, FillConfirmed, FillUnverified, ForceSent, ForceOver, Forgotten, book
  <2>. QED  BY <2>1, <2>2, DecidedKept
<1>2. ASSUME NEW p \in Position, ExchangeStep(p)  PROVE RecordsMove
  <2>1. UNCHANGED book
    BY <1>2 DEF ExchangeStep, EntryExecutes, RescueExecutes, ForceExecutes, ExitExecutes, EndsElsewhere
  <2>2. \/ UNCHANGED entry
        \/ entry[p] # "new" /\ \E stage : stage # "new" /\ entry' = [entry EXCEPT ![p] = stage]
    BY <1>2 DEF ExchangeStep, EntryExecutes, RescueExecutes, ForceExecutes, ExitExecutes,
                EndsElsewhere, entries, At, Goto
  <2>. QED  BY <2>1, <2>2, DecidedKept DEF Decided, book
<1>3. ASSUME NEW p \in Position, ExitStep(p) \/ CloseBare(p) \/ CloseByStop(p) \/ CloseAtMarket(p)
      PROVE  RecordsMove
  BY <1>3 DEF ExitStep, ExitPosted, ExitAnswered, ExitRefused, ExitFails, CloseBare, CloseByStop,
              CloseAtMarket, Left, entries, book, Decided
<1>4. ASSUME NEW p \in Position, Decide(p) \/ DecideInVain(p)  PROVE RecordsMove
  <2>1. p \notin Decided /\ Decided' = Decided \cup {p}
    BY <1>4 DEF Decide, DecideInVain, Decided, EntryTyped
  <2>. QED  BY <1>4, <2>1 DEF Decide, DecideInVain
<1>5. ASSUME (\E p \in Position : QueueRowDone(p)) \/ (\E s \in Symbol : LeaseRunsOut(s))  PROVE RecordsMove
  BY <1>5 DEF QueueRowDone, LeaseRunsOut, entries, book, Decided
<1>6. CASE ArmHalt \/ LiftHalt \/ UNCHANGED vars
  BY <1>6 DEF ArmHalt, LiftHalt, vars, entries, book, Decided
<1>7. CASE Restart
  <2>1. Decided' = Decided
    BY <1>7 DEF Restart, Decided, InFlight, EntryTyped
  <2>. QED  BY <1>7, <2>1 DEF Restart, book
<1>. QED  BY <1>1, <1>2, <1>3, <1>4, <1>5, <1>6, <1>7 DEF Next

LEMMA TrackedDecided ==
    ASSUME EntryTyped, BookInv
    PROVE  tracked \subseteq Decided
BY DEF EntryTyped, BookInv, BookOf, Decided

LEMMA AllowedFree ==
    ASSUME EntryTyped, BookInv, NEW p \in Position, Allowed(p)
    PROVE  Records!Free(plan[p])
<1>. SUFFICES ASSUME NEW q \in tracked  PROVE ~Records!Clash(plan[p], plan[q])
  BY TrackedDecided DEF Records!Free
<1>1. side(q) = side(p) /\ symbol(q) # symbol(p)  BY DEF Allowed
<1>. QED  BY <1>1 DEF Records!Clash, Opposed, side, symbol

(* A step of the engine is a step of the ledger.                           *)
LEMMA StepKeepsLedger ==
    ASSUME EntryTyped, BookInv, [Next]_vars
    PROVE  [Records!LedgerNext]_(Records!ledgerVars)
<1>0. plan' = plan /\ RecordsMove  BY PlanKept, StepRecords
<1>1. CASE Decided' = Decided /\ tracked' \subseteq tracked
  BY <1>0, <1>1 DEF Records!LedgerNext, Records!Closes
<1>2. ASSUME NEW p \in Position \ Decided, Decided' = Decided \cup {p},
             tracked' = tracked \/ (Allowed(p) /\ tracked' = tracked \cup {p})
      PROVE  Records!LedgerNext
  <2>1. PICK l \in LegAt : l = plan[p]
    BY PlansAssumption DEF EntryTyped, LegAt
  <2>2. Records!Entered(p, l)
    BY <1>0, <1>2, <2>1 DEF Records!Entered
  <2>3. p \in Records!Fresh
    BY <1>2 DEF Records!Fresh
  <2>4. Records!Opens(p, l) \/ Records!Refuses(p, l)
    BY <1>2, <2>1, <2>2, AllowedFree DEF Records!Opens, Records!Refuses
  <2>. QED  BY <2>3, <2>4 DEF Records!LedgerNext
<1>. QED  BY <1>0, <1>1, <1>2 DEF RecordsMove

(* The decisions, entries, closes and restarts of the engine implement the *)
(* ledger.                                                                 *)
THEOREM EntriesKeepLedger == Spec => LedgerKept
<1>1. Init => Records!LedgerInit
  BY DEF Init, Records!LedgerInit, Records!Apart, Decided
<1>2. Init => BookInv  BY DEF Init, BookInv, BookOf
<1>3. EntryTyped /\ BookInv /\ [Next]_vars => BookInv'  BY BookKept
<1>4. EntryTyped /\ BookInv /\ [Next]_vars => [Records!LedgerNext]_(Records!ledgerVars)
  BY StepKeepsLedger
<1>. QED  BY <1>1, <1>2, <1>3, <1>4, EntriesTyped, PTL DEF Spec, LedgerKept, Records!LedgerSpec

(* What the ledger's promise comes to for the decisions.                   *)

LEMMA LedgerFacts == LedgerKept => []Records!Apart
<1>1. PromiseKept!LedgerSpec => []PromiseKept!Apart
  BY PromiseKept!BooksApart
<1>2. PromiseKept!LedgerInit <=> Records!LedgerInit
  BY DEF PromiseKept!LedgerInit, Records!LedgerInit, PromiseKept!Apart, Records!Apart,
         PromiseKept!Clash, Records!Clash
<1>3. [PromiseKept!LedgerNext]_(PromiseKept!ledgerVars) <=> [Records!LedgerNext]_(Records!ledgerVars)
  BY DEF PromiseKept!LedgerNext, PromiseKept!ledgerVars, PromiseKept!Opens, PromiseKept!Refuses,
         PromiseKept!Closes, PromiseKept!Fresh, PromiseKept!Entered, PromiseKept!Free, PromiseKept!Clash,
         Records!LedgerNext, Records!ledgerVars, Records!Opens, Records!Refuses,
         Records!Closes, Records!Fresh, Records!Entered, Records!Free, Records!Clash
<1>4. PromiseKept!Apart <=> Records!Apart
  BY DEF PromiseKept!Apart, Records!Apart, PromiseKept!Clash, Records!Clash
<1>. QED  BY <1>1, <1>2, <1>3, <1>4, PTL DEF LedgerKept, PromiseKept!LedgerSpec, Records!LedgerSpec

OneSide ==
    \A p, q \in tracked : p # q => side(p) = side(q) /\ symbol(p) # symbol(q)

LEMMA ApartMeans ==
    ASSUME EntryTyped, Records!Apart
    PROVE  OneSide
<1>. SUFFICES ASSUME NEW p \in tracked, NEW q \in tracked, p # q
              PROVE  side(p) = side(q) /\ symbol(p) # symbol(q)
  BY DEF OneSide
<1>1. p \in Decided /\ q \in Decided  BY DEF Records!Apart
<1>2. plan[p] \in LegAt /\ plan[q] \in LegAt
  BY PlansAssumption DEF EntryTyped, LegAt
<1>3. ~Records!Clash(plan[p], plan[q])
  BY <1>1 DEF Records!Apart
<1>. QED  BY <1>2, <1>3 DEF Records!Clash, Opposed, side, symbol

(* However many decisions, failures and restarts: all that is tracked is   *)
(* on one side of the market, and no two in a symbol.                      *)
THEOREM TrackedOnOneSide == Spec => []OneSide
<1>1. EntryTyped /\ Records!Apart => OneSide  BY ApartMeans
<1>. QED  BY <1>1, EntriesTyped, EntriesKeepLedger, LedgerFacts, PTL
=============================================================================
