----------------------------- MODULE GlobalHalt -----------------------------
(***************************************************************************)
(* The global halt: one row of at_state that blocks every entry, written   *)
(* by whoever calls setGlobalHalt.  The writers are the operator, an       *)
(* emergency close that failed (EMERGENCY_CLOSE_CATASTROPHIC), the drift   *)
(* checker, the recovery at boot, and the dead man's switch, which arms    *)
(* the halt while the heartbeat of the brain is stale and lifts it after a *)
(* run of HealthyStreak healthy checks, ten seconds apart.                 *)
(***************************************************************************)
EXTENDS Integers, FiniteSets

CONSTANTS
    User,            \* the users with a verified exchange account
    HealthyStreak    \* HEALTHY_STREAK_TO_RECOVER

VARIABLES
    halt,       \* 'global:halt': active, and who wrote it last (reason)
    heartbeat,  \* the newest row of the brain: none, fresh or stale
    streak,     \* _healthyStreak, up to HealthyStreak
    muted,      \* less than ALERT_DEBOUNCE_MS since _lastAlertTs
    fired,      \* _haltFired: the users whose drift has been reported
    boot,       \* recoveryBoot.run: to do, clean, not clean; or over
    standing    \* history: who has armed the halt since it was last lifted

vars == <<halt, heartbeat, streak, muted, fired, boot, standing>>

Writer == {"switch", "operator", "catastrophe", "drift", "boot"}
BootOver  == [todo |-> {}, clean |-> {}, kept |-> {}, over |-> TRUE]
BootStart == [todo |-> User, clean |-> {}, kept |-> {}, over |-> FALSE]

Init ==
    /\ halt = [active |-> FALSE, reason |-> "none"]
    /\ heartbeat = "none" /\ streak = 0 /\ muted = FALSE
    /\ fired = {} /\ boot = BootStart /\ standing = {}
-----------------------------------------------------------------------------
(* setGlobalHalt keeps no count and looks at nobody's earlier halt.        *)

Arms(w) ==
    /\ halt' = [active |-> TRUE, reason |-> w]
    /\ standing' = standing \cup {w}

Lifts(w) ==
    /\ halt' = [active |-> FALSE, reason |-> w]
    /\ standing' = {}

\* The row can not be written; every caller goes on.
Tries(wish) == wish \/ UNCHANGED <<halt, standing>>

OperatorArms ==
    Arms("operator") /\ UNCHANGED <<heartbeat, streak, muted, fired, boot>>

OperatorLifts ==
    Lifts("operator") /\ UNCHANGED <<heartbeat, streak, muted, fired, boot>>

Catastrophe ==
    /\ Tries(Arms("catastrophe"))
    /\ UNCHANGED <<heartbeat, streak, muted, fired, boot>>

\* The second drift in a row; once per user and process.
DriftDetected(u) ==
    /\ u \notin fired /\ fired' = fired \cup {u}
    /\ Tries(Arms("drift"))
    /\ UNCHANGED <<heartbeat, streak, muted, boot>>
-----------------------------------------------------------------------------
(* The dead man's switch.                                                  *)

Beats == heartbeat' = "fresh" /\ UNCHANGED <<halt, streak, muted, fired, boot, standing>>

GoesStale ==
    /\ heartbeat = "fresh" /\ heartbeat' = "stale"
    /\ UNCHANGED <<halt, streak, muted, fired, boot, standing>>

DebounceOver ==
    /\ muted /\ muted' = FALSE
    /\ UNCHANGED <<halt, heartbeat, streak, fired, boot, standing>>

\* A stale heartbeat arms the halt, also one that is armed.
CheckStale ==
    /\ heartbeat = "stale" /\ streak' = 0
    /\ IF muted THEN UNCHANGED <<halt, standing, muted>>
                ELSE muted' = TRUE /\ Tries(Arms("switch"))
    /\ UNCHANGED <<heartbeat, fired, boot>>

CheckNoSignal ==
    /\ heartbeat = "none" /\ streak' = 0
    /\ UNCHANGED <<halt, heartbeat, muted, fired, boot, standing>>

Longer == IF streak < HealthyStreak THEN streak + 1 ELSE streak

\* Not enough healthy checks, or nothing to lift, or the row of another, or no write.
CheckHealthy ==
    /\ heartbeat = "fresh" /\ streak' = Longer
    /\ UNCHANGED <<halt, heartbeat, muted, fired, boot, standing>>

\* _maybeRecover
CheckRecovers ==
    /\ heartbeat = "fresh" /\ Longer = HealthyStreak
    /\ halt.active /\ halt.reason = "switch"
    /\ Lifts("switch")
    /\ streak' = 0 /\ muted' = FALSE
    /\ UNCHANGED <<heartbeat, fired, boot>>
-----------------------------------------------------------------------------
(* The recovery at boot, one user after the other.                         *)

\* Failed, or a leg only the exchange knows is left without a stop.
UserKept(u) ==
    /\ u \in boot.todo
    /\ boot' = [boot EXCEPT !.todo = @ \ {u}, !.kept = @ \cup {u}]
    /\ UNCHANGED <<halt, standing>> \/ Arms("boot")
    /\ UNCHANGED <<heartbeat, streak, muted, fired>>

UserClean(u) ==
    /\ u \in boot.todo
    /\ boot' = [boot EXCEPT !.todo = @ \ {u}, !.clean = @ \cup {u}]
    /\ UNCHANGED <<halt, heartbeat, streak, muted, fired, standing>>

\* On behalf of each clean user the one halt there is is lifted.
BootEnds ==
    /\ ~boot.over /\ boot.todo = {} /\ boot' = BootOver
    /\ IF boot.clean = {} THEN UNCHANGED <<halt, standing>>
                          ELSE Tries(Lifts("boot"))
    /\ UNCHANGED <<heartbeat, streak, muted, fired>>

\* The rows stay, what the process remembers does not.
Restart ==
    /\ streak' = 0 /\ muted' = FALSE /\ fired' = {} /\ boot' = BootStart
    /\ UNCHANGED <<halt, heartbeat, standing>>

Check == CheckStale \/ CheckNoSignal \/ CheckHealthy \/ CheckRecovers

Next ==
    \/ OperatorArms \/ OperatorLifts \/ Catastrophe \/ \E u \in User : DriftDetected(u)
    \/ Beats \/ GoesStale \/ DebounceOver \/ Check
    \/ \E u \in User : UserKept(u) \/ UserClean(u)
    \/ BootEnds \/ Restart

Spec == Init /\ [][Next]_vars
-----------------------------------------------------------------------------
(* A halt the switch lifts is one that it alone has armed since the last   *)
(* lift: the halts of the operator, of a failed emergency close and of the *)
(* others survive its recovery.                                            *)
OthersSurvive ==
    [][halt.active /\ ~halt'.active /\ halt'.reason = "switch"
            => standing \subseteq {"switch"}]_vars
=============================================================================
