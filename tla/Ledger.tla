------------------------------- MODULE Ledger -------------------------------
(***************************************************************************)
(* What the engine promises of its records (_positions), whoever opens and *)
(* closes them: of what is open at a time no two stand in each other's     *)
(* way, and what is closed is archived in the same tick and stays closed.  *)
(* LiveEntry keeps this promise with the decisions of the brain, and       *)
(* Reconciliation with all the others who make records.                    *)
(***************************************************************************)
CONSTANTS
    Leg,        \* what a record is about
    Conflict    \* pairs of which one must be closed before the other opens

VARIABLES
    legOf,      \* of every record ever made, what it is about
    open        \* those in _positions

ledgerVars == <<legOf, open>>

Clash(l, m) == <<l, m>> \in Conflict \/ <<m, l>> \in Conflict
Free(l)     == \A i \in open : ~Clash(l, legOf[i])

(* No two open records clash, and every open record has been made.         *)
Apart ==
    /\ open \subseteq DOMAIN legOf
    /\ \A i, j \in open : i # j => ~Clash(legOf[i], legOf[j])

LedgerInit == legOf \in [DOMAIN legOf -> Leg] /\ Apart
-----------------------------------------------------------------------------
Entered(i, l) == legOf' = [j \in DOMAIN legOf \cup {i} |-> IF j = i THEN l ELSE legOf[j]]

Opens(i, l) ==
    /\ Free(l)
    /\ Entered(i, l) /\ open' = open \cup {i}

\* Made, archived and forgotten in one tick.
Refuses(i, l) == Entered(i, l) /\ UNCHANGED open

Closes == open' \subseteq open /\ UNCHANGED legOf

\* A number that was never given to a record.
Fresh == DOMAIN legOf' \ DOMAIN legOf

LedgerNext ==
    \/ \E i \in Fresh, l \in Leg : Opens(i, l) \/ Refuses(i, l)
    \/ Closes

LedgerSpec == LedgerInit /\ [][LedgerNext]_ledgerVars
=============================================================================
