----------------------------- MODULE LiveEntry -----------------------------
(***************************************************************************)
(* From a decision to a position on the exchange and out of it again: the  *)
(* decision (processBrainDecision), the live entry (_executeLiveEntry,     *)
(* placeEntry), the close (_closePosition) and the exit it sends           *)
(* (_handleLiveExit), for one user.                                        *)
(*                                                                         *)
(* A decision becomes a tracked position in the tick it is made, while its *)
(* order takes a second or a minute; a close forgets the position in the   *)
(* tick it is made, while the exit has yet to be sent.  Between the two    *)
(* the halt may be armed, other decisions be made, leases run out, answers *)
(* be lost and the process die.                                            *)
(*                                                                         *)
(* Each position is one unit on the exchange.                              *)
(***************************************************************************)
EXTENDS Integers, FiniteSets

CONSTANTS
    Position,      \* the decisions the brain may make, in any order
    Symbol,
    Side,
    Plans,         \* what the decisions may be about: the symbol and side of each
    MaxTries,      \* attempts at a market exit: CLOSE_RETRIES and one
    MaxExpiries,   \* bound on the leases that run out, per symbol
    MaxRestarts    \* bound on restarts

ASSUME PlansAssumption == Plans \in SUBSET [Position -> [symbol : Symbol, side : Side]]
ASSUME EntryBounds ==
    MaxTries \in Nat \ {0} /\ MaxExpiries \in Nat /\ MaxRestarts \in Nat

VARIABLES
    plan,       \* what the decisions are about
    tracked,    \* _positions
    live,       \* the positions whose live.status is LIVE or LIVE_NO_SL
    closed,     \* how the position left _positions
    entry,      \* where _executeLiveEntry waits
    entryLock,  \* _liveEntryLocks
    exit,       \* where _handleLiveExit waits
    tries,      \* attempts at the exit that failed
    lease, inside, expiries,   \* orderLock.js
    held,       \* the positions whose unit the exchange holds
    queued,     \* the positions with an unresolved row in emergency_close_queue
    abandoned,  \* history: those still held when their row left the queue
    halted,     \* global:halt
    sent,       \* history: entry orders sent by symbol since then, while it lasts
    restarts

book     == <<tracked, live, closed>>
entries  == <<entry, entryLock>>
exits    == <<exit, tries>>
lockVars == <<lease, inside, expiries>>
queue    == <<queued, abandoned>>
halt     == <<halted, sent>>
vars     == <<book, entries, exits, lockVars, held, queue, halt, restarts, plan>>
-----------------------------------------------------------------------------
(* "check" for the balance and the symbol's settings, "sent" for the       *)
(* market order, "filled" once it has executed, until its stop is placed   *)
(* and its fill confirmed, "rescue" and "rescued" for the emergency close, *)
(* "force" and "forced" for the close of an unverified fill.               *)
Stage == {"new", "check", "sent", "filled", "rescue", "rescued", "force", "forced", "over"}

(* "due" between two attempts, "posted" and "executed" during one, "cut"   *)
(* by a restart.                                                           *)
ExitStage == {"no", "due", "posted", "executed", "over", "cut"}

(* "failed": the clean-up of an entry, "bare": without a live leg, "stop": *)
(* by an exit type that expects the exchange to have closed it (HIT_SL,    *)
(* HIT_TP, RECON_PHANTOM), "market": with a market exit.                   *)
Reason == {"open", "failed", "bare", "stop", "market"}

symbol(p) == plan[p].symbol
side(p)   == plan[p].side
entering(p) == <<"entry", p>>
leaving(p)  == <<"exit", p>>
Op == {"entry", "exit"} \X Position

Lock == INSTANCE OrderLock WITH Key <- Symbol

(* What the records look like to a reader of _positions: a decision makes  *)
(* one, and clashes with every record of its symbol and of the other side. *)
LegAt   == [symbol : Symbol, side : Side]
Decided == {p \in Position : entry[p] # "new"}
Opposed == {c \in LegAt \X LegAt : c[1].side # c[2].side \/ c[1].symbol = c[2].symbol}

Records == INSTANCE Ledger WITH
    Leg      <- LegAt,
    Conflict <- Opposed,
    legOf    <- [p \in Decided |-> plan[p]],
    open     <- tracked

InFlight(p) == entry[p] \notin {"new", "over"}
Leaving(p)  == exit[p] \in {"due", "posted", "executed"}

TypeOK ==
    /\ plan \in Plans
    /\ tracked \in SUBSET Position /\ live \in SUBSET Position
    /\ closed \in [Position -> Reason]
    /\ entry \in [Position -> Stage] /\ entryLock \in SUBSET Symbol
    /\ exit \in [Position -> ExitStage] /\ tries \in [Position -> 0 .. MaxTries - 1]
    /\ Lock!LockTypeOK
    /\ held \in SUBSET Position /\ queued \in SUBSET Position
    /\ abandoned \in SUBSET Position
    /\ halted \in BOOLEAN /\ sent \in [Symbol -> Nat] /\ restarts \in 0 .. MaxRestarts

Init ==
    /\ plan \in Plans
    /\ tracked = {} /\ live = {} /\ closed = [p \in Position |-> "open"]
    /\ entry = [p \in Position |-> "new"] /\ entryLock = {}
    /\ exit = [p \in Position |-> "no"] /\ tries = [p \in Position |-> 0]
    /\ Lock!LockInit
    /\ held = {} /\ queued = {} /\ abandoned = {}
    /\ halted = FALSE /\ sent = [s \in Symbol |-> 0]
    /\ restarts = 0
-----------------------------------------------------------------------------
(* The exchange.                                                           *)

SameLeg(p, q)  == symbol(p) = symbol(q) /\ side(p) = side(q)
Opposing(p)    == {q \in held : symbol(q) = symbol(p) /\ side(q) # side(p)}

\* An entry order executes: against the opposite side if there is one.
Bought(p) ==
    IF Opposing(p) = {} THEN held' = held \cup {p}
    ELSE \E q \in Opposing(p) : held' = held \ {q}

\* What a reduce-only order of p closes: its own unit, or one like it.
Target(p) == IF p \in held THEN {p} ELSE {q \in held : SameLeg(p, q)}
Sold(p)   == \E q \in Target(p) : held' = held \ {q}

\* A stop triggers, or somebody closes the position by hand.
EndsElsewhere(p) ==
    /\ p \in held
    /\ held' = held \ {p}
    /\ UNCHANGED <<book, entries, exits, lockVars, queue, halt, restarts, plan>>

(* The processor of the emergency queue is done with the row of p.  It     *)
(* closed what the exchange reported for the symbol, which may be less     *)
(* than it holds by now; or nothing, having believed an empty answer, met  *)
(* a permanent error or spent the attempts.                                *)
QueueRowDone(p) ==
    /\ p \in queued
    /\ queued' = queued \ {p}
    /\ \E gone \in SUBSET {q \in held : symbol(q) = symbol(p)} : held' = held \ gone
    /\ abandoned' = abandoned \cup ({p} \cap held')
    /\ UNCHANGED <<book, entries, exits, lockVars, halt, restarts, plan>>
-----------------------------------------------------------------------------
(* The halt, armed and lifted by operators and monitors.                   *)

ArmHalt ==
    /\ ~halted /\ halted' = TRUE
    /\ UNCHANGED <<book, entries, exits, lockVars, held, queue, sent, restarts, plan>>

LiftHalt ==
    /\ halted /\ halted' = FALSE
    /\ sent' = [s \in Symbol |-> 0]
    /\ UNCHANGED <<book, entries, exits, lockVars, held, queue, restarts, plan>>
-----------------------------------------------------------------------------
(* The decision.  The position is tracked, saved and its entry started in  *)
(* the same tick, so the second look at the halt (1907) sees what the      *)
(* first saw.                                                              *)

\* Faulty: only the symbol is looked at together with the side.
Allowed_SameLeg(p) == \A q \in tracked : side(q) # side(p) \/ symbol(q) # symbol(p)

(* No position of the same symbol and side, and none of the other side in  *)
(* any symbol.                                                             *)
Allowed(p) == \A q \in tracked : side(q) = side(p) /\ symbol(q) # symbol(p)

\* Faulty: the halt is not looked at.
Decide_Unhalted(p) ==
    /\ entry[p] = "new" /\ Allowed(p)
    /\ symbol(p) \notin entryLock
    /\ tracked' = tracked \cup {p}
    /\ entry' = [entry EXCEPT ![p] = "check"]
    /\ entryLock' = entryLock \cup {symbol(p)}
    /\ UNCHANGED <<live, closed, exits, lockVars, held, queue, halt, restarts, plan>>

Decide(p) ==
    /\ entry[p] = "new" /\ ~halted /\ Allowed(p)
    /\ symbol(p) \notin entryLock
    /\ tracked' = tracked \cup {p}
    /\ entry' = [entry EXCEPT ![p] = "check"]
    /\ entryLock' = entryLock \cup {symbol(p)}
    /\ UNCHANGED <<live, closed, exits, lockVars, held, queue, halt, restarts, plan>>

\* Faulty: the entry that found the lock taken releases it.
DecideInVain_Unlocks(p) ==
    /\ entry[p] = "new" /\ ~halted /\ Allowed(p)
    /\ symbol(p) \in entryLock
    /\ entry' = [entry EXCEPT ![p] = "over"]
    /\ closed' = [closed EXCEPT ![p] = "failed"]
    /\ entryLock' = entryLock \ {symbol(p)}
    /\ UNCHANGED <<tracked, live, exits, lockVars, held, queue, halt, restarts, plan>>

(* LOCK_BLOCKED by another entry: archived and forgotten in the same tick. *)
(* So are NO_CREDS and RISK_BLOCKED, which leave nothing behind.           *)
DecideInVain(p) ==
    /\ entry[p] = "new" /\ ~halted /\ Allowed(p)
    /\ symbol(p) \in entryLock
    /\ entry' = [entry EXCEPT ![p] = "over"]
    /\ closed' = [closed EXCEPT ![p] = "failed"]
    /\ UNCHANGED <<tracked, live, entryLock, exits, lockVars, held, queue, halt, restarts, plan>>
-----------------------------------------------------------------------------
(* The entry.                                                              *)

At(p, stage)   == entry[p] = stage
Goto(p, stage) == entry' = [entry EXCEPT ![p] = stage] /\ UNCHANGED entryLock

(* The finally of _executeLiveEntry: the lock is released, an entry with a *)
(* failed status is archived and forgotten, any other is saved.            *)
Over(p) ==
    /\ entry' = [entry EXCEPT ![p] = "over"]
    /\ entryLock' = entryLock \ {symbol(p)}
Forgotten(p) ==
    /\ tracked' = tracked \ {p}
    /\ closed' = [closed EXCEPT ![p] = IF p \in tracked THEN "failed" ELSE @]
    /\ UNCHANGED live

(* INSUFFICIENT_MARGIN, MARGIN_CHECK_FAILED, LEVERAGE_FAILED, or           *)
(* ENTRY_FAILED because the order lock is taken or the lot size not met.   *)
CheckFails(p) ==
    /\ At(p, "check")
    /\ Over(p) /\ Forgotten(p)
    /\ UNCHANGED <<exits, lockVars, held, queue, halt, restarts, plan>>

\* Faulty: the lock stays taken.
CheckRefuses_Locked(p) ==
    /\ At(p, "check")
    /\ Goto(p, "over")
    /\ UNCHANGED <<book, exits, lockVars, held, queue, halt, restarts, plan>>

(* MARGIN_TYPE_FAILED and BALANCE_INSUFFICIENT are not among the failed    *)
(* statuses: the position stays tracked, without a leg.                    *)
CheckRefuses(p) ==
    /\ At(p, "check")
    /\ Over(p)
    /\ UNCHANGED <<book, exits, lockVars, held, queue, halt, restarts, plan>>

\* The market order is sent, whatever the halt says by now.
PlaceSent(p) ==
    /\ At(p, "check")
    /\ Lock!Acquire(symbol(p), entering(p))
    /\ Goto(p, "sent")
    /\ sent' = [sent EXCEPT ![symbol(p)] = IF halted THEN @ + 1 ELSE @]
    /\ UNCHANGED <<book, exits, held, queue, halted, restarts, plan>>

EntryExecutes(p) ==
    /\ At(p, "sent")
    /\ Goto(p, "filled") /\ Bought(p)
    /\ UNCHANGED <<book, exits, lockVars, queue, halt, restarts, plan>>

(* ENTRY_FAILED: the order is rejected or unanswered, a transition of the  *)
(* stub row throws after it has filled, or the emergency close succeeded.  *)
EntryFails(p) ==
    /\ entry[p] \in {"sent", "filled", "rescue", "rescued"}
    /\ Lock!Release(symbol(p), entering(p))
    /\ Over(p) /\ Forgotten(p)
    /\ UNCHANGED <<exits, held, queue, halt, restarts, plan>>

\* No stop in SL_RETRIES attempts: close at once.
StopExhausted(p) ==
    /\ At(p, "filled")
    /\ Goto(p, "rescue")
    /\ UNCHANGED <<book, exits, lockVars, held, queue, halt, restarts, plan>>

RescueExecutes(p) ==
    /\ At(p, "rescue")
    /\ Goto(p, "rescued") /\ Sold(p)
    /\ UNCHANGED <<book, exits, lockVars, queue, halt, restarts, plan>>

(* The emergency close fails or goes unanswered: queued and halted.  The   *)
(* position stays tracked, without a leg.                                  *)
Catastrophe(p) ==
    /\ entry[p] \in {"rescue", "rescued"}
    /\ Lock!Release(symbol(p), entering(p))
    /\ Over(p)
    /\ queued' = queued \cup {p}
    /\ halted' = TRUE
    /\ UNCHANGED <<book, exits, held, abandoned, sent, restarts, plan>>

\* LIVE, or LIVE_NO_SL.
FillConfirmed(p) ==
    /\ At(p, "filled")
    /\ Lock!Release(symbol(p), entering(p))
    /\ Over(p)
    /\ live' = live \cup {p}
    /\ UNCHANGED <<tracked, closed, exits, held, queue, halt, restarts, plan>>

(* FILL_UNVERIFIED.  While the position is tracked its row keeps the stub  *)
(* in OPENING, and the forced close throws on that.                        *)
FillUnverified(p) ==
    /\ At(p, "filled") /\ p \in tracked
    /\ Lock!Release(symbol(p), entering(p))
    /\ Over(p)
    /\ UNCHANGED <<book, exits, held, queue, halt, restarts, plan>>

ForceSent(p) ==
    /\ At(p, "filled") /\ p \notin tracked
    /\ Lock!Renew(symbol(p), entering(p))
    /\ Goto(p, "force")
    /\ UNCHANGED <<book, exits, held, queue, halt, restarts, plan>>

ForceExecutes(p) ==
    /\ At(p, "force")
    /\ Goto(p, "forced") /\ Sold(p)
    /\ UNCHANGED <<book, exits, lockVars, queue, halt, restarts, plan>>

\* Force-closed, or not, as far as the answer tells.
ForceOver(p) ==
    /\ entry[p] \in {"force", "forced"}
    /\ Lock!Release(symbol(p), entering(p))
    /\ Over(p)
    /\ UNCHANGED <<book, exits, held, queue, halt, restarts, plan>>
-----------------------------------------------------------------------------
(* The close: archived and forgotten in the tick it is made.  Only a       *)
(* position with a live leg sends an exit.  A close by the user or by the  *)
(* disaster stop does not wait for an entry in flight.                     *)

Left(p, reason) ==
    /\ tracked' = tracked \ {p}
    /\ closed' = [closed EXCEPT ![p] = reason]
    /\ UNCHANGED live

CloseBare(p) ==
    /\ p \in tracked \ live
    /\ Left(p, "bare")
    /\ UNCHANGED <<entries, exits, lockVars, held, queue, halt, restarts, plan>>

\* HIT_SL and HIT_TP send no order, though the stop need not have executed.
CloseByStop(p) ==
    /\ p \in tracked \cap live
    /\ Left(p, "stop")
    /\ UNCHANGED <<entries, exits, lockVars, held, queue, halt, restarts, plan>>

CloseAtMarket(p) ==
    /\ p \in tracked \cap live
    /\ Left(p, "market")
    /\ exit' = [exit EXCEPT ![p] = "due"]
    /\ UNCHANGED <<entries, tries, lockVars, held, queue, halt, restarts, plan>>
-----------------------------------------------------------------------------
(* The exit: attempts under the order lock, each with a key of its own.    *)

ExitPosted(p) ==
    /\ exit[p] = "due"
    /\ Lock!Acquire(symbol(p), leaving(p))
    /\ exit' = [exit EXCEPT ![p] = "posted"]
    /\ UNCHANGED <<book, entries, tries, held, queue, halt, restarts, plan>>

ExitExecutes(p) ==
    /\ exit[p] = "posted"
    /\ exit' = [exit EXCEPT ![p] = "executed"] /\ Sold(p)
    /\ UNCHANGED <<book, entries, tries, lockVars, queue, halt, restarts, plan>>

\* The attempt ends, and with it the exit or only its turn.
Ends(p, stage, failed) ==
    /\ exit' = [exit EXCEPT ![p] = stage]
    /\ tries' = [tries EXCEPT ![p] = failed]

ExitAnswered(p) ==
    /\ exit[p] = "executed"
    /\ Lock!Release(symbol(p), leaving(p))
    /\ Ends(p, "over", 0)
    /\ UNCHANGED <<book, entries, held, queue, halt, restarts, plan>>

\* Faulty: the last attempt is not queued.
AttemptFailed_Unqueued(p) ==
    /\ IF tries[p] + 1 < MaxTries
          THEN Ends(p, "due", tries[p] + 1)
          ELSE Ends(p, "over", 0)
    /\ UNCHANGED queued

\* Faulty: the attempt is not counted.
AttemptFailed_Uncounted(p) == Ends(p, "due", tries[p]) /\ UNCHANGED queued

\* Faulty: one attempt too many.
AttemptFailed_OneMore(p) ==
    IF tries[p] < MaxTries
       THEN Ends(p, "due", tries[p] + 1) /\ UNCHANGED queued
       ELSE Ends(p, "over", 0) /\ queued' = queued \cup {p}

(* The attempt is counted; after the last one the position is queued.      *)
AttemptFailed(p) ==
    IF tries[p] + 1 < MaxTries
       THEN Ends(p, "due", tries[p] + 1) /\ UNCHANGED queued
       ELSE Ends(p, "over", 0) /\ queued' = queued \cup {p}

\* Faulty: the lock is released by the attempt that was refused it.
ExitRefused_Releases(p) ==
    /\ exit[p] = "due" /\ Lock!Refuses(symbol(p))
    /\ AttemptFailed(p)
    /\ lease' = [lease EXCEPT ![symbol(p)] = "none"]
    /\ UNCHANGED <<book, entries, inside, expiries, held, abandoned, halt, restarts, plan>>

\* Faulty: refused the lock, the exit is given up.
ExitRefused_GivesUp(p) ==
    /\ exit[p] = "due" /\ Lock!Refuses(symbol(p))
    /\ exit' = [exit EXCEPT ![p] = "over"]
    /\ UNCHANGED <<book, entries, tries, lockVars, held, queue, halt, restarts, plan>>

ExitRefused(p) ==
    /\ exit[p] = "due" /\ Lock!Refuses(symbol(p))
    /\ AttemptFailed(p)
    /\ UNCHANGED <<book, entries, lockVars, held, abandoned, halt, restarts, plan>>

\* Rejected or unanswered.
ExitFails(p) ==
    /\ exit[p] \in {"posted", "executed"}
    /\ Lock!Release(symbol(p), leaving(p))
    /\ AttemptFailed(p)
    /\ UNCHANGED <<book, entries, held, abandoned, halt, restarts, plan>>
-----------------------------------------------------------------------------
LeaseRunsOut(s) ==
    /\ Lock!RunsOut(s)
    /\ UNCHANGED <<book, entries, exits, held, queue, halt, restarts, plan>>

(* The process restarts: open rows are tracked again with the leg they     *)
(* were saved with; entries and exits under way are gone.                  *)
Restart ==
    /\ restarts < MaxRestarts
    /\ restarts' = restarts + 1
    /\ entry' = [p \in Position |-> IF InFlight(p) THEN "over" ELSE entry[p]]
    /\ entryLock' = {}
    /\ exit' = [p \in Position |-> IF Leaving(p) THEN "cut" ELSE exit[p]]
    /\ tries' = [p \in Position |-> 0]
    /\ Lock!LockLost
    /\ UNCHANGED <<book, held, queue, halt, plan>>

EntryStep(p) ==
    \/ CheckFails(p) \/ CheckRefuses(p) \/ PlaceSent(p)
    \/ EntryFails(p) \/ StopExhausted(p) \/ Catastrophe(p)
    \/ FillConfirmed(p) \/ FillUnverified(p) \/ ForceSent(p) \/ ForceOver(p)

ExitStep(p) == ExitPosted(p) \/ ExitAnswered(p) \/ ExitRefused(p) \/ ExitFails(p)

ExchangeStep(p) ==
    EntryExecutes(p) \/ RescueExecutes(p) \/ ForceExecutes(p) \/ ExitExecutes(p) \/ EndsElsewhere(p)

Next ==
    \/ \E p \in Position :
          \/ Decide(p) \/ DecideInVain(p) \/ EntryStep(p) \/ ExchangeStep(p)
          \/ CloseBare(p) \/ CloseByStop(p) \/ CloseAtMarket(p) \/ ExitStep(p)
          \/ QueueRowDone(p)
    \/ \E s \in Symbol : LeaseRunsOut(s)
    \/ ArmHalt \/ LiftHalt \/ Restart

Spec == Init /\ [][Next]_vars

(* Every await returns, if only with the error of a timeout.  Nothing is   *)
(* assumed of the queue: without an account its rows wait for ever.        *)
FairSpec ==
    /\ Spec
    /\ \A p \in Position : WF_vars(EntryStep(p) \/ ExitStep(p))
-----------------------------------------------------------------------------
(* A symbol has one entry in flight, and _liveEntryLocks names exactly the *)
(* symbols that have one, whatever was closed or blocked in between.       *)
EntriesExclusive ==
    /\ \A p, q \in Position : InFlight(p) /\ InFlight(q) /\ symbol(p) = symbol(q) => p = q
    /\ entryLock = {symbol(p) : p \in {q \in Position : InFlight(q)}}

(* Entry and exit orders of a symbol overlap only when leases ran out.     *)
OrdersApart == Lock!Overlap

(* The order lock is used as it is meant to be: released by those inside.  *)
LockUsed == Lock!LockSpec

(* Decisions, failed entries, closes and restarts keep the promise of the  *)
(* ledger: all that is tracked is on one side and in different symbols,    *)
(* and what was closed while its orders were under way stays closed.       *)
LedgerKept == Records!LedgerSpec

(* A halt lets out at most one entry order per symbol, the one that was in *)
(* flight when it was armed: the decision looks at the halt, and nothing   *)
(* after it does.                                                          *)
HaltBoundsEntries == \A s \in Symbol : sent[s] <= 1

(* What the exchange holds is tracked or has an exit under way or queued.  *)
(* It can be forgotten in these ways only: its entry failed though the     *)
(* order was executed, it was closed without a live leg, the stop that was *)
(* said to have closed it did not, a restart cut its exit off, or the      *)
(* queue was done with its row and had not closed it.                      *)
HeldAccounted ==
    \A p \in held :
        \/ p \in tracked
        \/ closed[p] \in {"failed", "bare", "stop"}
        \/ closed[p] = "market" /\ (Leaving(p) \/ exit[p] = "cut" \/ p \in queued \cup abandoned)

(* The steps an entry, and an exit with all its attempts, have to go yet.  *)
EntryToGo(p) ==
    [new |-> 6, check |-> 5, sent |-> 4, filled |-> 3, rescue |-> 2, force |-> 2,
     rescued |-> 1, forced |-> 1, over |-> 0][entry[p]]
ExitToGo(p) ==
    IF exit[p] \in {"over", "cut"} THEN 0
    ELSE 3 * (MaxTries - 1 - tries[p])
            + [no |-> 4, due |-> 3, posted |-> 2, executed |-> 1][exit[p]]

(* Entries and exits only go on, whatever fails, is refused or restarts:   *)
(* no decision sends its entry order twice, no position starts a second    *)
(* exit, and every attempt at one spends what is left of it.               *)
OnlyOnward ==
    [][\A p \in Position :
          /\ entry'[p] # entry[p] => EntryToGo(p)' < EntryToGo(p)
          /\ exit'[p] # exit[p] \/ tries'[p] # tries[p] => ExitToGo(p)' < ExitToGo(p)]_vars

(* An entry ends and frees its symbol for the next decision.               *)
EntryEnds == \A s \in Symbol : s \in entryLock ~> s \notin entryLock

(* A market exit comes to its end, unless a restart cuts it off: with the  *)
(* position gone, or with a row for it in the queue, whatever becomes of   *)
(* that.                                                                   *)
ExitCompletes ==
    \A p \in Position :
        Leaving(p) ~> \/ exit[p] = "cut"
                      \/ exit[p] = "over" /\ (p \in held => p \in queued \cup abandoned)
=============================================================================
