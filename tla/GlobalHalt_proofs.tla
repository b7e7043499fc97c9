-------------------------- MODULE GlobalHalt_proofs --------------------------
(***************************************************************************)
(* Why the halt of others does not survive the dead man's switch: because  *)
(* the switch arms a halt that is already armed, and writes its own name   *)
(* over the reason (brainWatchdog.js 128).  With that look, which the      *)
(* recovery has (95-97) and the arming lacks, OthersSurvive holds.         *)
(***************************************************************************)
EXTENDS GlobalHalt, TLAPS

(* The switch leaves a halt alone that somebody else has armed.            *)
Looks == CheckStale => ~halt.active \/ halt.reason = "switch" \/ UNCHANGED halt

(* A halt with the switch's name on it is nobody else's.                   *)
Named ==
    /\ ~halt.active => standing = {}
    /\ halt.active /\ halt.reason = "switch" => standing \subseteq {"switch"}

LEMMA OthersNamed ==
    ASSUME NEW w \in Writer \ {"switch"}, Tries(Arms(w)) \/ Arms(w), Named
    PROVE  Named'
BY DEF Tries, Arms, Named, Writer

LEMMA LiftsNamed ==
    ASSUME NEW w \in Writer, Tries(Lifts(w)) \/ Lifts(w), Named
    PROVE  Named'
BY DEF Tries, Lifts, Named

LEMMA StepNamed ==
    ASSUME Named, [Next]_vars, [Looks]_vars
    PROVE  Named'
<1>1. CASE UNCHANGED <<halt, standing>>
  BY <1>1 DEF Named
<1>2. CASE OperatorArms \/ Catastrophe \/ (\E u \in User : DriftDetected(u))
  BY <1>2, OthersNamed DEF OperatorArms, Catastrophe, DriftDetected, Writer
<1>3. CASE OperatorLifts \/ CheckRecovers
  BY <1>3, LiftsNamed DEF OperatorLifts, CheckRecovers, Writer
<1>4. CASE CheckStale
  <2>1. ASSUME Arms("switch"), halt' # halt
        PROVE  Named'
    <3>1. ~halt.active \/ halt.reason = "switch"
      BY <1>4, <2>1 DEF Looks, vars
    <3>2. standing \subseteq {"switch"}
      BY <3>1 DEF Named
    <3>. QED  BY <2>1, <3>2 DEF Arms, Named
  <2>2. ASSUME Arms("switch"), halt' = halt
        PROVE  Named'
    BY <2>2 DEF Arms, Named
  <2>. QED  BY <1>1, <1>4, <2>1, <2>2 DEF CheckStale, Tries
<1>5. ASSUME NEW u \in User, UserKept(u) \/ UserClean(u)
      PROVE  Named'
  BY <1>1, <1>5, OthersNamed DEF UserKept, UserClean, Writer
<1>6. CASE BootEnds
  BY <1>1, <1>6, LiftsNamed DEF BootEnds, Writer
<1>. QED
  BY <1>1, <1>2, <1>3, <1>4, <1>5, <1>6
     DEF Next, vars, Beats, GoesStale, DebounceOver, Check, CheckNoSignal, CheckHealthy, Restart

(* Only the recovery of the switch lifts the halt in the switch's name.    *)
LEMMA OthersLift ==
    ASSUME [Next]_vars, ~CheckRecovers, halt.active
    PROVE  halt'.active \/ halt'.reason # "switch"
<1>1. CASE UNCHANGED halt
  BY <1>1
<1>2. ASSUME NEW w \in Writer, Arms(w)
      PROVE  halt'.active
  BY <1>2 DEF Arms
<1>3. ASSUME NEW w \in Writer \ {"switch"}, Lifts(w)
      PROVE  halt'.reason # "switch"
  BY <1>3 DEF Lifts
<1>4. CASE OperatorArms \/ Catastrophe \/ (\E u \in User : DriftDetected(u)) \/ CheckStale
  BY <1>1, <1>2, <1>4 DEF OperatorArms, Catastrophe, DriftDetected, CheckStale, Tries, Writer
<1>5. CASE OperatorLifts \/ BootEnds
  BY <1>1, <1>3, <1>5 DEF OperatorLifts, BootEnds, Tries, Writer
<1>6. ASSUME NEW u \in User, UserKept(u) \/ UserClean(u)
      PROVE  halt'.active \/ halt'.reason # "switch"
  BY <1>1, <1>2, <1>6 DEF UserKept, UserClean, Writer
<1>. QED
  BY <1>1, <1>4, <1>5, <1>6
     DEF Next, vars, Beats, GoesStale, DebounceOver, Check, CheckNoSignal, CheckHealthy, Restart

(* If the switch never arms a halt of others, its recovery lifts no halt   *)
(* but its own: for any number of users, checks, crashes of the brain,     *)
(* failed writes, boots and restarts.                                      *)
THEOREM OthersSurviveALook == Spec /\ [][Looks]_vars => OthersSurvive
<1>1. Init => Named
  BY DEF Init, Named
<1>2. Named /\ [Next]_vars /\ [Looks]_vars => Named'
  BY StepNamed
<1>3. Named /\ [Next]_vars
        => [halt.active /\ ~halt'.active /\ halt'.reason = "switch"
                => standing \subseteq {"switch"}]_vars
  <2>. SUFFICES ASSUME Named, [Next]_vars, halt.active, ~halt'.active, halt'.reason = "switch"
                PROVE  standing \subseteq {"switch"}
    OBVIOUS
  <2>1. CASE CheckRecovers
    BY <2>1 DEF CheckRecovers, Named
  <2>2. CASE ~CheckRecovers
    BY <2>2, OthersLift
  <2>. QED  BY <2>1, <2>2
<1>. QED  BY <1>1, <1>2, <1>3, PTL DEF Spec, OthersSurvive
=============================================================================
