---------------------------- MODULE Ledger_proofs ----------------------------
(***************************************************************************)
(* What follows from the promise alone, for every module that keeps it.    *)
(***************************************************************************)
EXTENDS Ledger, TLAPS

LEMMA StepApart ==
    ASSUME Apart, [LedgerNext]_ledgerVars
    PROVE  Apart'
<1>1. ASSUME NEW i \in Fresh, NEW l \in Leg, Opens(i, l)
      PROVE  Apart'
  <2>1. open' \subseteq DOMAIN legOf'
    BY <1>1 DEF Opens, Entered, Apart
  <2>2. ASSUME NEW j \in open', NEW k \in open', j # k
        PROVE  ~Clash(legOf'[j], legOf'[k])
    <3>1. i \notin open /\ legOf'[i] = l /\ \A m \in open : legOf'[m] = legOf[m]
      BY <1>1 DEF Opens, Entered, Apart, Fresh
    <3>2. CASE j # i /\ k # i  BY <1>1, <2>2, <3>1, <3>2 DEF Opens, Apart
    <3>3. CASE j = i  BY <1>1, <2>2, <3>1, <3>3 DEF Opens, Free
    <3>4. CASE k = i  BY <1>1, <2>2, <3>1, <3>4 DEF Opens, Free, Clash
    <3>. QED  BY <3>2, <3>3, <3>4
  <2>. QED  BY <2>1, <2>2 DEF Apart, Clash
<1>2. ASSUME NEW i \in Fresh, NEW l \in Leg, Refuses(i, l)
      PROVE  Apart'
  BY <1>2 DEF Refuses, Entered, Apart, Fresh, Clash
<1>3. CASE Closes
  BY <1>3 DEF Closes, Apart, Clash
<1>4. CASE UNCHANGED ledgerVars
  BY <1>4 DEF ledgerVars, Apart, Clash
<1>. QED  BY <1>1, <1>2, <1>3, <1>4 DEF LedgerNext

(* Of the records open at a time no two stand in each other's way.         *)
THEOREM BooksApart == LedgerSpec => []Apart
<1>1. LedgerInit => Apart  BY DEF LedgerInit
<1>2. Apart /\ [LedgerNext]_ledgerVars => Apart'  BY StepApart
<1>. QED  BY <1>1, <1>2, PTL DEF LedgerSpec

ForGood ==
    [][\A i \in DOMAIN legOf :
          /\ i \in DOMAIN legOf' /\ legOf'[i] = legOf[i]
          /\ i \notin open => i \notin open']_ledgerVars

(* A record stays what it is about, and closed once it is closed.          *)
THEOREM ClosedForGood == LedgerSpec => ForGood
<1>1. [LedgerNext]_ledgerVars =>
        [\A i \in DOMAIN legOf :
            /\ i \in DOMAIN legOf' /\ legOf'[i] = legOf[i]
            /\ i \notin open => i \notin open']_ledgerVars
  BY DEF LedgerNext, Opens, Refuses, Closes, Entered, Fresh, ledgerVars
<1>. QED  BY <1>1, PTL DEF LedgerSpec, ForGood
=============================================================================
