--------------------------- MODULE Reconciliation ---------------------------
(***************************************************************************)
(* The reconciliation of the tracked positions with the exchange           *)
(* (_runReconciliation, every RECON_INTERVAL_MS) and the part of the user  *)
(* data stream that opens and closes records (onUserDataEvent), for one    *)
(* user on one exchange, with what they race against: entries, orders of   *)
(* the app that are registered afterwards, closes with an exit still to be *)
(* sent, stops, and the restart.                                           *)
(*                                                                         *)
(* A leg is a symbol and a side, of which the exchange holds one net       *)
(* position.  Quantities are left out: an exit closes its leg, or counts   *)
(* as failed.                                                              *)
(***************************************************************************)
EXTENDS Integers, Sequences, FiniteSets

CONSTANTS
    Leg,
    Restored,      \* the legs of the rows the process starts with
    MaxStreak,     \* _EMPTY_HELD_CLEANUP_AFTER
    MaxActs,       \* bound on the decisions, orders and closes
    MaxMishaps     \* bound on the mishaps: see Mishap

ASSUME RestoredAssumption ==
    /\ Restored \in Seq(Leg)
    /\ \A r, q \in DOMAIN Restored : Restored[r] = Restored[q] => r = q
ASSUME ReconBounds == MaxStreak \in Nat \ {0} /\ MaxActs \in Nat /\ MaxMishaps \in Nat

VARIABLES
    made,       \* the leg of every record ever made; its seq is the index
    tracked,    \* _positions
    live,       \* the records _isReconcilablePosition accepts
    sent, filled,   \* the records whose entry order is under way, has executed
    posted,     \* the legs the app has ordered and not yet registered
    exits,      \* the closed records whose market exit is still to be sent
    held,       \* the legs the exchange holds
    phase,      \* where the cycle waits
    snap,       \* userLivePositions
    view,       \* binanceHeld
    doomed,     \* the phantoms of this cycle whose trades are asked for
    todo,       \* the legs of the view not yet looked at
    asked,      \* the confirmed orphan whose open orders are asked for
    suspects,   \* _phantomCandidates
    pend,       \* _orphanPending: cycles since firstSeen, 0 for none
    streak,     \* _emptyHeldStreak
    idle,       \* _reconIdleCycles, modulo 2
    deferred,   \* the records whose close the stream has put off by 2.5 s
    acts, mishaps,
    flat, once, twice   \* history: see History

book     == <<made, tracked, live, suspects, deferred>>
orders   == <<sent, filled, posted, exits, acts>>
cycle    == <<phase, snap, view, doomed, todo, asked>>
memory   == <<pend, streak, idle>>
history  == <<flat, once, twice>>
vars     == <<book, orders, held, cycle, memory, mishaps, history>>
-----------------------------------------------------------------------------
Record    == DOMAIN made
On(l)     == {r \in tracked : made[r] = l}
InFlight(l) == {r \in sent \cup filled : made[r] = l}
Stale     == 5      \* older than 3 cycles, a detection is evicted
Nobody    == [leg |-> "none", seq |-> 0]

(* What the records look like to a reader of _positions: one per leg.      *)
Records == INSTANCE Ledger WITH
    Conflict <- {<<l, l>> : l \in Leg}, legOf <- made, open <- tracked

Phase == {"idle", "polled", "read", "doom", "legs", "ask"}

TypeOK ==
    /\ made \in Seq(Leg)
    /\ tracked \in SUBSET Record /\ live \in SUBSET tracked
    /\ sent \in SUBSET Record /\ filled \in SUBSET Record /\ exits \in SUBSET Record
    /\ posted \in SUBSET Leg /\ held \in SUBSET Leg
    /\ phase \in Phase /\ snap \in SUBSET Record /\ doomed \in SUBSET snap
    /\ view \in SUBSET Leg /\ todo \in SUBSET view
    /\ asked \in {Nobody} \cup [leg : Leg, seq : 0 .. Len(made)]
    /\ suspects \in SUBSET tracked /\ pend \in [Leg -> 0 .. Stale]
    /\ streak \in 0 .. MaxStreak /\ idle \in {0, 1}
    /\ deferred \in SUBSET tracked
    /\ acts \in 0 .. MaxActs /\ mishaps \in 0 .. MaxMishaps
    /\ flat \in SUBSET live /\ once \in SUBSET live /\ twice \in SUBSET once

Init ==
    /\ made = Restored
    /\ tracked = DOMAIN Restored /\ live = tracked
    /\ sent = {} /\ filled = {} /\ posted = {} /\ exits = {} /\ acts = 0
    /\ held \in SUBSET Leg
    /\ phase = "idle" /\ snap = {} /\ view = {} /\ doomed = {} /\ todo = {}
    /\ asked = Nobody
    /\ suspects = {} /\ pend = [l \in Leg |-> 0] /\ streak = 0 /\ idle = 0
    /\ deferred = {} /\ mishaps = 0
    /\ flat = {r \in live : made[r] \notin held} /\ once = {} /\ twice = {}

(* What goes wrong a bounded number of times: a poll that fails or leaves  *)
(* out a leg, a cycle longer than the interval, an exit that fails for     *)
(* good, a stop taken for executed, an orphan that can neither be adopted  *)
(* nor closed, a record too young to be closed, a restart.                 *)
Mishap == mishaps < MaxMishaps /\ mishaps' = mishaps + 1
Act == acts < MaxActs /\ acts' = acts + 1
-----------------------------------------------------------------------------
(* Records.                                                                *)

Makes(l, isLive) ==
    LET r == Len(made) + 1 IN
    /\ made' = Append(made, l)
    /\ tracked' = tracked \cup {r}
    /\ live' = IF isLive THEN live \cup {r} ELSE live
    /\ UNCHANGED <<suspects, deferred>>

(* Archived and forgotten in one tick.  What timers and the reconciliation *)
(* know of a record is of no use once it is gone.                          *)
Closed(rs) ==
    /\ tracked' = tracked \ rs /\ live' = live \ rs
    /\ suspects' = suspects \ rs /\ deferred' = deferred \ rs
    /\ UNCHANGED made
Drops(r) == Closed({r})

\* Faulty: the position is adopted without a look for one of the same leg.
Adopts_Twice(l) == Makes(l, TRUE)

\* _syncExternalPosition, _registerManualPositionLegacy.
Adopts(l) == IF On(l) = {} THEN Makes(l, TRUE) ELSE UNCHANGED book
-----------------------------------------------------------------------------
(* The exchange and the user data stream, which tells of a change at once  *)
(* or, when the connection is down, never.                                 *)

(* A leg is adopted, unless a record is there, or one was made or closed   *)
(* of late, or one of the other side is tracked.                           *)
Bought(l) ==
    /\ held' = held \cup {l}
    /\ Adopts(l) \/ UNCHANGED book

(* Attributed to a fill the record is closed; otherwise its close waits.   *)
Ended(l) ==
    /\ held' = held \ {l}
    /\ \/ UNCHANGED book
       \/ \E r \in On(l) : Drops(r)
       \/ deferred' = deferred \cup On(l) /\ UNCHANGED <<made, tracked, live, suspects>>

\* A reduce-only order, of one record or of what the view held.
Sold(l) ==
    \/ l \in held /\ Ended(l)
    \/ l \notin held /\ UNCHANGED <<held, book>>

EndsElsewhere(l) ==
    /\ l \in held /\ Ended(l)
    /\ UNCHANGED <<orders, cycle, memory, mishaps>>

(* 2.5 s later, by its seq and without another look at the exchange.       *)
DeferredClose(r) ==
    /\ r \in deferred
    /\ Drops(r)
    /\ UNCHANGED <<orders, held, cycle, memory, mishaps>>
-----------------------------------------------------------------------------
(* Entries and closes, in the steps the reconciliation can tell apart.     *)

Decide(l) ==
    /\ Act
    /\ On(l) = {} /\ InFlight(l) = {}
    /\ Makes(l, FALSE)
    /\ sent' = sent \cup {Len(made) + 1}
    /\ UNCHANGED <<filled, posted, exits, held, cycle, memory, mishaps>>

EntryExecutes(r) ==
    /\ r \in sent
    /\ sent' = sent \ {r} /\ filled' = filled \cup {r}
    /\ Bought(made[r])
    /\ UNCHANGED <<posted, exits, acts, cycle, memory, mishaps>>

EntryOver(r) ==
    /\ r \in sent \cup filled
    /\ sent' = sent \ {r} /\ filled' = filled \ {r}
    /\ UNCHANGED <<posted, exits, acts, held, cycle, memory, mishaps>>

\* Faulty: the fill puts the record into _positions, whether it was closed or not.
FillConfirmed_Reopens(r) ==
    /\ r \in filled
    /\ EntryOver(r)
    /\ tracked' = tracked \cup {r} /\ live' = live \cup {r}
    /\ UNCHANGED <<made, suspects, deferred>>

FillConfirmed(r) ==
    /\ r \in filled
    /\ EntryOver(r)
    /\ live' = live \cup ({r} \cap tracked) /\ UNCHANGED <<made, tracked, suspects, deferred>>

\* FILL_UNVERIFIED, or a status the clean-up does not list.
EntryUnverified(r) == EntryOver(r) /\ UNCHANGED book

\* The order failed, or was executed and counts as failed.
EntryFails(r) == EntryOver(r) /\ Drops(r)

\* A market order of the app executes; its registration follows.
AppOrder(l) ==
    /\ Act
    /\ l \notin posted /\ posted' = posted \cup {l}
    /\ Bought(l)
    /\ UNCHANGED <<sent, filled, exits, cycle, memory, mishaps>>

(* The registration may be refused, by the halt or by an error: then the   *)
(* leg is like one that was opened by hand.                                *)
Register(l) ==
    /\ l \in posted /\ posted' = posted \ {l}
    /\ Adopts(l) \/ UNCHANGED book
    /\ UNCHANGED <<sent, filled, exits, acts, held, cycle, memory, mishaps>>

\* Faulty: the record is kept until the exit has been answered.
CloseAtMarket_Keeps(r) ==
    /\ Act
    /\ r \in tracked /\ exits' = exits \cup ({r} \cap live)
    /\ UNCHANGED <<book, sent, filled, posted, held, cycle, memory, mishaps>>

\* Only a record with a live leg sends an exit.
CloseAtMarket(r) ==
    /\ Act
    /\ r \in tracked
    /\ Drops(r)
    /\ exits' = IF r \in live THEN exits \cup {r} ELSE exits
    /\ UNCHANGED <<sent, filled, posted, held, cycle, memory, mishaps>>

\* HIT_SL and HIT_TP on a leg that is held after all.
CloseByStop(r) ==
    /\ r \in tracked \cap live
    /\ Mishap
    /\ Drops(r)
    /\ UNCHANGED <<orders, held, cycle, memory>>

ExitExecutes(r) ==
    /\ r \in exits /\ exits' = exits \ {r}
    /\ Sold(made[r])
    /\ UNCHANGED <<sent, filled, posted, acts, cycle, memory, mishaps>>

ExitFails(r) ==
    /\ r \in exits /\ exits' = exits \ {r}
    /\ Mishap
    /\ UNCHANGED <<book, sent, filled, posted, acts, held, cycle, memory>>
-----------------------------------------------------------------------------
(* The cycle.                                                              *)

\* Faulty: the age has no end.
Older_Unbounded(n) == IF n = 0 THEN 0 ELSE n + 1

Older(n) == IF n \in 1 .. Stale - 1 THEN n + 1 ELSE n

\* Faulty: sooner than an idle sweep comes back.
Evicted_TooSoon(n) == IF n > 2 THEN 0 ELSE n

Evicted(n) == IF n = Stale THEN 0 ELSE n

\* With nothing to reconcile, every second cycle looks for orphans only.
CycleBegins ==
    /\ phase = "idle"
    /\ pend' = [l \in Leg |-> Evicted(Older(pend[l]))]
    /\ snap' = tracked \cap live
    /\ idle' = IF snap' = {} THEN 1 - idle ELSE 0
    /\ phase' = IF idle' = 1 THEN "idle" ELSE "polled"
    /\ UNCHANGED <<book, orders, held, view, doomed, todo, asked, streak, mishaps>>

Returns == phase' = "idle" /\ snap' = {} /\ view' = {}

\* The interval is over and the cycle is not.
CycleSkipped ==
    /\ phase # "idle" /\ Mishap
    /\ pend' = [l \in Leg |-> Older(pend[l])]
    /\ UNCHANGED <<book, orders, held, cycle, streak, idle>>

PollFails ==
    /\ phase = "polled" /\ Mishap
    /\ Returns
    /\ UNCHANGED <<book, orders, held, doomed, todo, asked, memory>>

\* The exchange reads its positions; eventually consistent, it may leave out any.
PollReads ==
    /\ phase = "polled" /\ phase' = "read"
    /\ \/ view' = held /\ UNCHANGED mishaps
       \/ Mishap /\ view' \in SUBSET held /\ view' # held
    /\ UNCHANGED <<book, orders, held, snap, doomed, todo, asked, memory>>

(* isUntrustedEmptyHeld.  After MaxStreak in a row the records are closed, *)
(* but for those younger than _STALE_EMPTY_MIN_AGE_MS.                     *)
Distrust ==
    /\ phase = "read" /\ Returns
    /\ view = {} /\ snap # {}
    /\ streak' = IF streak < MaxStreak THEN streak + 1 ELSE streak
    /\ \/ streak' < MaxStreak /\ UNCHANGED <<book, exits, mishaps>>
       \/ /\ streak' = MaxStreak
          /\ \E young \in SUBSET (snap \cap tracked) :
                /\ IF young = {} THEN UNCHANGED mishaps ELSE Mishap
                /\ Closed(snap \ young)
                /\ exits' = exits \cup ((snap \cap tracked) \ young)
    /\ UNCHANGED <<sent, filled, posted, acts, held, doomed, todo, asked, pend, idle>>

Missing == {r \in snap : made[r] \notin view}

\* Faulty: the first time.
Sift_AtOnce ==
    /\ phase = "read" /\ phase' = "doom"
    /\ view # {} \/ snap = {}
    /\ streak' = 0
    /\ doomed' = Missing
    /\ UNCHANGED <<book, orders, held, snap, view, todo, asked, pend, idle, mishaps>>

\* A record the view leaves out is a suspect the first time, then a phantom.
Sift ==
    /\ phase = "read" /\ phase' = "doom"
    /\ view # {} \/ snap = {}
    /\ streak' = 0
    /\ doomed' = Missing \cap suspects
    /\ suspects' = (suspects \cup (Missing \cap tracked)) \ doomed'
    /\ UNCHANGED <<made, tracked, live, deferred, orders, held, snap, view, todo, asked, pend, idle, mishaps>>

\* Its trades are known, or not: if it is still tracked it is closed.
PhantomClosed(r) ==
    /\ phase = "doom" /\ r \in doomed /\ doomed' = doomed \ {r}
    /\ Drops(r)
    /\ UNCHANGED <<orders, held, phase, snap, view, todo, asked, memory, mishaps>>

PhantomsOver ==
    /\ phase = "doom" /\ doomed = {}
    /\ phase' = "legs" /\ todo' = view
    /\ UNCHANGED <<book, orders, held, snap, view, doomed, asked, memory, mishaps>>

\* Faulty: any leg without a live record is an orphan.
Represented_Live(l) == \E r \in snap : made[r] = l

Represented(l) == (\E r \in snap : made[r] = l) \/ On(l) # {}

Looked(l) == phase = "legs" /\ l \in todo /\ todo' = todo \ {l}

LegTracked(l) ==
    /\ Looked(l) /\ Represented(l)
    /\ pend' = [pend EXCEPT ![l] = 0]
    /\ UNCHANGED <<book, orders, held, phase, snap, view, doomed, asked,
                   streak, idle, mishaps>>

OrphanSeen(l) ==
    /\ Looked(l) /\ ~Represented(l) /\ pend[l] = 0
    /\ pend' = [pend EXCEPT ![l] = 1]
    /\ UNCHANGED <<book, orders, held, phase, snap, view, doomed, asked,
                   streak, idle, mishaps>>

OrphanConfirmed(l) ==
    /\ Looked(l) /\ ~Represented(l) /\ pend[l] # 0
    /\ phase' = "ask" /\ asked' = [leg |-> l, seq |-> Len(made)]
    /\ UNCHANGED <<book, orders, held, snap, view, doomed, memory, mishaps>>

Resolved ==
    /\ phase = "ask" /\ phase' = "legs" /\ asked' = Nobody
    /\ pend' = [pend EXCEPT ![asked.leg] = 0]
    /\ UNCHANGED <<snap, view, doomed, todo, streak, idle>>

\* No order with a SAT_ id rests on the symbol.
OrphanAdopted ==
    /\ Resolved /\ Adopts(asked.leg)
    /\ UNCHANGED <<orders, held, mishaps>>

\* One does: what the view held is closed, without another look at the records.
OrphanSold ==
    /\ Resolved /\ Sold(asked.leg)
    /\ UNCHANGED <<orders, mishaps>>

OrphanKept ==
    /\ Resolved /\ Mishap
    /\ UNCHANGED <<book, orders, held>>

CycleOver ==
    /\ phase = "legs" /\ todo = {} /\ Returns
    /\ UNCHANGED <<book, orders, held, doomed, todo, asked, memory, mishaps>>
-----------------------------------------------------------------------------
(* The rows are restored with the leg they were saved with; everything     *)
(* under way and everything the reconciliation remembers is gone.          *)
Restart ==
    /\ Mishap
    /\ sent' = {} /\ filled' = {} /\ posted' = {} /\ exits' = {}
    /\ phase' = "idle" /\ snap' = {} /\ view' = {} /\ doomed' = {} /\ todo' = {}
    /\ asked' = Nobody
    /\ suspects' = {} /\ deferred' = {} /\ pend' = [l \in Leg |-> 0] /\ streak' = 0 /\ idle' = 0
    /\ UNCHANGED <<made, tracked, live, acts, held>>

OrderStep(r) ==
    EntryExecutes(r) \/ FillConfirmed(r) \/ EntryUnverified(r) \/ EntryFails(r)
        \/ ExitExecutes(r) \/ ExitFails(r)

CycleStep ==
    \/ CycleBegins \/ PollFails \/ PollReads \/ Distrust \/ Sift
    \/ \E r \in doomed : PhantomClosed(r)
    \/ PhantomsOver
    \/ \E l \in todo : LegTracked(l) \/ OrphanSeen(l) \/ OrphanConfirmed(l)
    \/ OrphanAdopted \/ OrphanSold \/ OrphanKept \/ CycleOver

Step ==
    \/ \E l \in Leg :
          \/ EndsElsewhere(l) \/ Decide(l) \/ AppOrder(l) \/ Register(l)
    \/ \E r \in Record :
          OrderStep(r) \/ CloseAtMarket(r) \/ CloseByStop(r) \/ DeferredClose(r)
    \/ CycleStep \/ CycleSkipped \/ Restart

(* flat: the leg was not held at some moment since the record is live.     *)
(* once, twice: polls that left its leg out though it was held.            *)
History ==
    /\ flat' = {r \in live' : r \in flat \/ made'[r] \notin held'}
    /\ LET left == IF phase = "polled" /\ phase' = "read"
                      THEN {r \in snap : made[r] \in held \ view'} ELSE {} IN
       /\ once' = (once \cup left) \cap live'
       /\ twice' = (twice \cup (once \cap left)) \cap live'

Next == Step /\ History

Spec == Init /\ [][Next]_vars

(* Timers fire and every await returns.                                    *)
FairSpec ==
    /\ Spec
    /\ WF_vars(CycleStep /\ History)
    /\ WF_vars(\E r \in Record : OrderStep(r) /\ History)
    /\ WF_vars(\E l \in Leg : Register(l) /\ History)
    /\ WF_vars(\E r \in Record : DeferredClose(r) /\ History)
-----------------------------------------------------------------------------
(* A leg has one record: the decision, the registration, the stream and    *)
(* the reconciliation all find the leg untracked, and only one tracks it.  *)
OneRecordPerLeg == \A r, q \in tracked : made[r] = made[q] => r = q

(* Whoever makes and closes records, the promise of the ledger is kept: a  *)
(* record's leg is never that of another open one, and neither an answer   *)
(* that comes late nor a restart brings a closed record back.              *)
LedgerKept == Records!LedgerSpec

(* The exit that is still to be sent for a closed record precedes whatever *)
(* is tracked on its leg by then: nobody reopens what is being closed, but *)
(* the exit, which names a leg, will close what was opened since.          *)
ExitsPrecede == \A r \in exits : r \notin tracked /\ \A q \in On(made[r]) : q > r

(* A record whose leg was held all the while it was live is closed by the  *)
(* reconciliation only after two polls that left the leg out, or as an     *)
(* aged record after one at the end of a streak of empty ones.             *)
FalsePhantom ==
    [][\A r \in live \ flat :
          /\ r \in doomed \ doomed' /\ phase' = "doom" => r \in twice
          /\ phase = "read" /\ phase' = "idle" /\ r \in exits' \ exits
                => r \in once /\ streak' = MaxStreak]_vars

(* What the reconciliation sells as an orphan has no record, unless one    *)
(* was made while it asked for the open orders of the symbol.              *)
OrphanUntracked ==
    phase = "ask" => \A r \in On(asked.leg) : r > asked.seq

(* Nothing is under way for a leg, and what the cycle in hand has seen of  *)
(* it is still true.                                                       *)
Settled(l) ==
    /\ On(l) \subseteq live /\ (l \in held <=> On(l) # {})
    /\ l \notin posted /\ \A r \in sent \cup filled \cup exits \cup deferred : made[r] # l
    /\ On(l) \cap doomed = {}
    /\ phase = "ask" => asked.leg # l
    /\ phase \notin {"idle", "polled"} => (l \in view <=> l \in held)

(* Somebody acts on the leg, or a poll leaves it out.                      *)
Disturbs(l) ==
    \/ Decide(l) \/ AppOrder(l) \/ EndsElsewhere(l)
    \/ \E r \in On(l) : CloseAtMarket(r) \/ CloseByStop(r)
    \/ phase = "polled" /\ phase' = "read" /\ l \in held \ view'

(* Whatever happens to the other legs, and whatever else the cycle finds,  *)
(* fails or forgets, the reconciliation leaves alone what is right: the    *)
(* record and the position of a settled leg.                               *)
SettledStays == [][\A l \in Leg : Settled(l) => Settled(l)' \/ Disturbs(l)]_vars

(* In the end the exchange holds a leg if and only if a live record is     *)
(* tracked for it; but for a leg with a bare record, which hides it.       *)
Agree(l) == On(l) \subseteq live => (l \in held <=> On(l) # {})
Converges == <>[](\A l \in Leg : Agree(l))
=============================================================================
