---------------------------- MODULE PositionRows ----------------------------
(***************************************************************************)
(* The numbers that name positions.  serverAT numbers a position with      *)
(* seqAllocator and keeps its canonical row in at_positions under that     *)
(* number; binanceOps keeps a second row for the same position, its stub,  *)
(* under the row id SQLite picks, in the same table.  The position's entry *)
(* and its market close each span several awaits, so that two positions    *)
(* interleave; a restart rebuilds the engine from the two tables.          *)
(*                                                                         *)
(* Positions are numbered 1, 2, ... in the order they are decided.  They   *)
(* are one user's, each in a symbol of its own.                            *)
(***************************************************************************)
EXTENDS Integers, Sequences, FiniteSets

CONSTANTS
    MaxPositions,  \* bound on the positions ever decided
    MaxActive,     \* bound on those tracked or in the pipeline at a time
    MaxRestarts,   \* bound on restarts
    LossyReply     \* may the answer to an executed entry order be lost?

ASSUME RowsBounds == MaxPositions \in Nat /\ MaxActive \in Nat /\ MaxRestarts \in Nat
ASSUME RowsSwitch == LossyReply \in BOOLEAN

VARIABLES
    issued,    \* _seq of seqAllocator
    seq,       \* by position, its canonical number
    table,     \* at_positions, by row number
    closed,    \* at_closed: by row number, how many positions were decided then
    mem,       \* the positions in _positions
    live,      \* by position, live.status as far as it matters here
    stub,      \* by position, the number of its stub, 0 before it has one
    pc,        \* by position, where its entry or its exit waits
    held,      \* does the exchange hold the position?
    late,      \* closed positions a stop replacement in flight will save again
    restarts

rows     == <<issued, table, closed>>
pipeline == <<stub, pc, held, late>>
vars     == <<seq, rows, mem, live, pipeline, restarts>>
-----------------------------------------------------------------------------
Positions == 1 .. MaxPositions
Decided   == 1 .. Len(seq)

(* Those the engine still tracks, or has a request or a save under way for. *)
Active == {p \in Positions : p \in mem \cup late \/ pc[p] # "idle"}

(* "check" before the order, "entry" while it is posted, "filled" and      *)
(* "lost" once it is executed, "stop" while the stop is placed; "close"    *)
(* before an attempt to close, "closeRow" and "closeBare" while the close  *)
(* is posted; "query" while a stop exit asks for its fill.                 *)
Pc == {"idle", "check", "entry", "filled", "lost", "stop",
       "close", "closeRow", "closeBare", "query"}

Live == {"none", "LIVE", "failed", "CLOSED"}

(* DONE is the exit type a closed position has for status.                 *)
Status == {"PENDING", "OPENING", "OPEN", "CLOSING", "CANCELLED", "EMERGENCY", "DONE"}

Row == [of : Positions, kind : {"position", "stub"}, status : Status, live : Live]

TypeOK ==
    /\ issued \in Nat
    /\ seq \in Seq(Nat \ {0}) /\ Len(seq) <= MaxPositions
    /\ DOMAIN table \subseteq Nat \ {0} /\ table \in [DOMAIN table -> Row]
    /\ DOMAIN closed \subseteq Nat \ {0} /\ closed \in [DOMAIN closed -> Nat]
    /\ mem \subseteq Decided /\ late \subseteq Decided
    /\ live \in [Positions -> Live]
    /\ stub \in [Positions -> Nat]
    /\ pc \in [Positions -> Pc]
    /\ held \in [Positions -> BOOLEAN]
    /\ restarts \in 0 .. MaxRestarts

Init ==
    /\ issued = 0 /\ seq = <<>> /\ mem = {} /\ late = {} /\ restarts = 0
    /\ table = [x \in {} |-> 0] /\ closed = [x \in {} |-> 0]
    /\ live = [p \in Positions |-> "none"] /\ stub = [p \in Positions |-> 0]
    /\ pc = [p \in Positions |-> "idle"] /\ held = [p \in Positions |-> FALSE]
-----------------------------------------------------------------------------
(* The tables.                                                             *)

Put(f, x, v) == [y \in DOMAIN f \cup {x} |-> IF y = x THEN v ELSE f[y]]
Drop(f, S)   == [y \in DOMAIN f \ S |-> f[y]]

(* MAX(seq), 0 of an empty table.                                          *)
Top(S) == IF S = {} THEN 0 ELSE CHOOSE x \in S : \A y \in S : y <= x

Has(t, x, status) == x \in DOMAIN t /\ t[x].status = status

(* The update of a transition.                                             *)
Moved(t, x, status) == [t EXCEPT ![x].status = status]

(* The unique index on open rows: does another row than x hold p open?     *)
Taken(t, x, p) == \E y \in DOMAIN t \ {x} : t[y].of = p /\ t[y].status = "OPEN"

Stub_OfNobody(p, status) == [of |-> 0, kind |-> "stub", status |-> status, live |-> "none"]
Stub(p, status) == [of |-> p, kind |-> "stub", status |-> status, live |-> "none"]

(* atSavePosition: upsert p's canonical row, whatever was under its number. *)
(* A tracked position is OPEN; the upsert fails on the unique index.       *)
Saved(t, p, as) ==
    IF p \in mem
      THEN IF Taken(t, seq[p], p) THEN t
           ELSE Put(t, seq[p], [of |-> p, kind |-> "position", status |-> "OPEN", live |-> as])
      ELSE Put(t, seq[p], [of |-> p, kind |-> "position", status |-> "DONE", live |-> as])

(* The linked row of a position, deleted with it when it is a stub: a      *)
(* canonical row carries a price and a stub does not.                      *)
Linked(p) == IF live[p] \in {"LIVE", "CLOSED"} THEN {stub[p]} \ {seq[p]} ELSE {}
StubOnly(t, S) == {x \in S \cap DOMAIN t : t[x].kind = "stub"}

(* _persistClose                                                           *)
Archive(p) ==
    /\ closed' = Put(closed, seq[p], Len(seq))
    /\ table'  = Drop(table, {seq[p]} \cup StubOnly(table, Linked(p)))
-----------------------------------------------------------------------------
(* The entry.                                                              *)

(* A decision: number, track and save the position.                        *)
Decide ==
    LET p == Len(seq) + 1 IN
        /\ p <= MaxPositions /\ Cardinality(Active) < MaxActive
        /\ issued' = issued + 1
        /\ seq' = Append(seq, issued + 1)
        /\ mem' = mem \cup {p}
        /\ table' = Put(table, issued + 1,
                        [of |-> p, kind |-> "position", status |-> "OPEN", live |-> "none"])
        /\ pc' = [pc EXCEPT ![p] = "check"]
        /\ UNCHANGED <<closed, live, stub, held, late, restarts>>

(* The end of a failed entry: a position still tracked is archived and     *)
(* forgotten (it has no opsSeq, so its stub stays).  t is the table so far. *)
Fail(p, t) ==
    /\ live' = [live EXCEPT ![p] = "failed"]
    /\ pc'   = [pc EXCEPT ![p] = "idle"]
    /\ mem'  = mem \ {p}
    /\ IF p \in mem THEN /\ closed' = Put(closed, seq[p], Len(seq))
                         /\ table'  = Drop(t, {seq[p]})
                    ELSE closed' = closed /\ table' = t

CheckFailed(p) ==
    /\ pc[p] = "check"
    /\ Fail(p, table)
    /\ UNCHANGED <<issued, seq, stub, held, late, restarts>>

(* MARGIN_TYPE_FAILED and BALANCE_INSUFFICIENT leave the position tracked  *)
(* without a live record, as a demo position is.                           *)
CheckRefused(p) ==
    /\ pc[p] = "check"
    /\ pc' = [pc EXCEPT ![p] = "idle"]
    /\ table' = Saved(table, p, "none")
    /\ UNCHANGED <<issued, seq, closed, mem, live, stub, held, late, restarts>>

(* The stub takes the row id above the largest in the table.               *)
StubInserted(p) ==
    /\ pc[p] = "check"
    /\ pc' = [pc EXCEPT ![p] = "entry"]
    /\ stub' = [stub EXCEPT ![p] = Top(DOMAIN table) + 1]
    /\ table' = Put(table, Top(DOMAIN table) + 1, Stub(p, "PENDING"))
    /\ UNCHANGED <<issued, seq, closed, mem, live, held, late, restarts>>

LotRejected(p) ==
    /\ pc[p] = "check"
    /\ stub' = [stub EXCEPT ![p] = Top(DOMAIN table) + 1]
    /\ Fail(p, Put(table, Top(DOMAIN table) + 1, Stub(p, "CANCELLED")))
    /\ UNCHANGED <<issued, seq, held, late, restarts>>

EntryFilled(p) ==
    /\ pc[p] = "entry"
    /\ pc'   = [pc EXCEPT ![p] = "filled"]
    /\ held' = [held EXCEPT ![p] = TRUE]
    /\ UNCHANGED <<rows, seq, mem, live, stub, late, restarts>>

ReplyLost(p) ==
    /\ LossyReply /\ pc[p] = "filled"
    /\ pc' = [pc EXCEPT ![p] = "lost"]
    /\ UNCHANGED <<rows, seq, mem, live, stub, held, late, restarts>>

(* The exchange refuses the order, or its answer never comes.              *)
EntryThrew(p) ==
    /\ pc[p] \in {"entry", "lost"}
    /\ Fail(p, table)
    /\ UNCHANGED <<issued, seq, stub, held, late, restarts>>

EntryAnswered(p) ==
    /\ pc[p] = "filled"
    /\ IF Has(table, stub[p], "PENDING")
         THEN /\ table' = Moved(table, stub[p], "OPENING")
              /\ pc' = [pc EXCEPT ![p] = "stop"]
              /\ UNCHANGED <<closed, mem, live>>
         ELSE Fail(p, table)
    /\ UNCHANGED <<issued, seq, stub, held, late, restarts>>

(* The update that writes the order ids into the stub, and the transition  *)
(* to OPEN, which the unique index refuses while the canonical row is open. *)
Updated(p) ==
    IF stub[p] \in DOMAIN table
      THEN [table EXCEPT ![stub[p]] = Stub(p, table[stub[p]].status)]
      ELSE table

Opened(p) ==
    IF Taken(table, stub[p], p) THEN Updated(p)
    ELSE Moved(Updated(p), stub[p], "OPEN")

(* The update that found p's stub still OPENING cannot fail the entry.     *)
Opens_Alone(p) == Has(table, stub[p], "OPENING") /\ ~Taken(table, stub[p], p)
Opens(p) == Has(table, stub[p], "OPENING")

StopPlaced(p) ==
    /\ pc[p] = "stop"
    /\ IF Opens(p)
         THEN /\ live' = [live EXCEPT ![p] = "LIVE"]
              /\ pc'   = [pc EXCEPT ![p] = "idle"]
              /\ table' = Saved(Opened(p), p, "LIVE")
              /\ UNCHANGED <<closed, mem>>
         ELSE Fail(p, IF Has(table, stub[p], "OPEN") /\ Taken(table, stub[p], p)
                        THEN table ELSE Updated(p))
    /\ UNCHANGED <<issued, seq, stub, held, late, restarts>>

(* No stop after three attempts: the position is closed at once; when that *)
(* fails too it is queued and stays tracked, without a live record.  A     *)
(* transition that throws ends the entry before it is queued.              *)
StopExhausted(p) ==
    /\ pc[p] = "stop"
    /\ \E ok \in BOOLEAN :
        /\ held' = [held EXCEPT ![p] = held[p] /\ ~ok]
        /\ LET ends == Has(table, stub[p], "OPENING")
               t    == IF ends THEN Moved(table, stub[p], "EMERGENCY") ELSE table
           IN  IF ends /\ ~ok
                 THEN /\ pc' = [pc EXCEPT ![p] = "idle"]
                      /\ table' = Saved(t, p, "none")
                      /\ UNCHANGED <<closed, mem, live>>
                 ELSE Fail(p, t)
    /\ UNCHANGED <<issued, seq, stub, late, restarts>>
-----------------------------------------------------------------------------
(* The life of a tracked position, and its exit.                           *)

(* _persistPosition of a tracked position                                  *)
Save(p) ==
    /\ p \in mem
    /\ table' = Saved(table, p, live[p])
    /\ UNCHANGED <<issued, seq, closed, mem, live, pipeline, restarts>>

(* The exchange executes the stop, or the user closes there; left out for  *)
(* a position nothing here looks at any more.                              *)
Ended(p) ==
    /\ held[p] /\ (p \in mem \/ pc[p] # "idle")
    /\ held' = [held EXCEPT ![p] = FALSE]
    /\ UNCHANGED <<rows, seq, mem, live, stub, pc, late, restarts>>

(* _closePosition: archive and forget.  Only a LIVE position starts an     *)
(* exit, which first runs after the archive; while a stop is being         *)
(* replaced the position will be saved once more.                          *)
Close(p) ==
    /\ p \in mem
    /\ Archive(p)
    /\ mem' = mem \ {p}
    /\ IF live[p] = "LIVE"
         THEN /\ \E exit \in {"close", "query"} : pc' = [pc EXCEPT ![p] = exit]
              /\ late' \in {late, late \cup {p}}
         ELSE UNCHANGED <<pc, late>>
    /\ UNCHANGED <<issued, seq, live, stub, held, restarts>>

(* _updateLiveSL saves the position it holds, closed or not.               *)
LateSave(p) ==
    /\ p \in late
    /\ late' = late \ {p}
    /\ table' = Saved(table, p, live[p])
    /\ UNCHANGED <<issued, seq, closed, mem, live, stub, pc, held, restarts>>

(* A stop exit learns its fill and, when the price differs, archives anew. *)
ExitCorrected(p) ==
    /\ pc[p] = "query"
    /\ pc'   = [pc EXCEPT ![p] = "idle"]
    /\ live' = [live EXCEPT ![p] = "CLOSED"]
    /\ Archive(p) \/ UNCHANGED <<table, closed>>
    /\ UNCHANGED <<issued, seq, mem, stub, held, late, restarts>>

(* closePosition reads the row under opsSeq.  In any other status it       *)
(* throws, and the exit tries again.                                       *)
OpsCloseBegin(p) ==
    /\ pc[p] = "close"
    /\ \/ /\ stub[p] \notin DOMAIN table
          /\ pc' = [pc EXCEPT ![p] = "closeBare"]
          /\ UNCHANGED table
       \/ /\ Has(table, stub[p], "OPEN") \/ Has(table, stub[p], "CLOSING")
          /\ pc' = [pc EXCEPT ![p] = "closeRow"]
          /\ table' = Moved(table, stub[p], "CLOSING")
    /\ UNCHANGED <<issued, seq, closed, mem, live, stub, held, late, restarts>>

(* The close is executed; the row that was read, if there was one, is      *)
(* archived and deleted.                                                   *)
OpsCloseDone(p) ==
    /\ pc[p] \in {"closeBare", "closeRow"} /\ held[p]
    /\ held' = [held EXCEPT ![p] = FALSE]
    /\ IF pc[p] = "closeRow" /\ ~Has(table, stub[p], "CLOSING")
         THEN /\ pc' = [pc EXCEPT ![p] = "close"]
              /\ UNCHANGED <<live, closed, table>>
         ELSE /\ pc' = [pc EXCEPT ![p] = "idle"]
              /\ live' = [live EXCEPT ![p] = "CLOSED"]
              /\ IF pc[p] = "closeRow"
                   THEN /\ closed' = Put(closed, stub[p], Len(seq))
                        /\ table'  = Drop(table, {stub[p]})
                   ELSE UNCHANGED <<closed, table>>
    /\ UNCHANGED <<issued, seq, mem, stub, late, restarts>>

OpsCloseFails(p) ==
    /\ pc[p] \in {"closeBare", "closeRow"}
    /\ pc' = [pc EXCEPT ![p] = "close"]
    /\ UNCHANGED <<rows, seq, mem, live, stub, held, late, restarts>>

(* All attempts failed: the emergency queue takes over.                    *)
GiveUp(p) ==
    /\ pc[p] = "close"
    /\ pc'   = [pc EXCEPT ![p] = "idle"]
    /\ live' = [live EXCEPT ![p] = "CLOSED"]
    /\ UNCHANGED <<rows, seq, mem, stub, held, late, restarts>>
-----------------------------------------------------------------------------
(* _restoreFromDb: delete the rows a later archive contradicts, restore    *)
(* the open canonical ones, and number on above everything in the tables.  *)
Ghost(x) ==
    /\ table[x].kind = "position"
    /\ x \in DOMAIN closed /\ closed[x] >= table[x].of

Kept == Drop(table, {x \in DOMAIN table : Ghost(x)})

Restored_Stubs == {x \in DOMAIN Kept : Kept[x].status = "OPEN"}
Restored == {x \in DOMAIN Kept : Kept[x].status = "OPEN" /\ Kept[x].kind = "position"}

(* The numbers to stay above.                                              *)
Numbers_OpenOnly == DOMAIN Kept
Numbers == DOMAIN Kept \cup DOMAIN closed

Restart ==
    /\ restarts < MaxRestarts
    /\ restarts' = restarts + 1
    /\ table'  = Kept
    /\ mem'    = {table[x].of : x \in Restored}
    /\ issued' = Top(Numbers)
    /\ live'   = [p \in Positions |-> IF p \in mem' THEN table[seq[p]].live ELSE live[p]]
    /\ pc'     = [p \in Positions |-> "idle"]
    /\ late'   = {}
    /\ UNCHANGED <<seq, closed, stub, held>>
-----------------------------------------------------------------------------
Entry(p) ==
    \/ CheckFailed(p) \/ CheckRefused(p) \/ StubInserted(p) \/ LotRejected(p)
    \/ EntryFilled(p) \/ ReplyLost(p) \/ EntryThrew(p) \/ EntryAnswered(p)
    \/ StopPlaced(p) \/ StopExhausted(p)

Exit(p) ==
    \/ Save(p) \/ Ended(p) \/ Close(p) \/ LateSave(p) \/ ExitCorrected(p)
    \/ OpsCloseBegin(p) \/ OpsCloseDone(p) \/ OpsCloseFails(p) \/ GiveUp(p)

Next == Decide \/ Restart \/ \E p \in Positions : Entry(p) \/ Exit(p)

Spec == Init /\ [][Next]_vars
-----------------------------------------------------------------------------
(* Properties                                                              *)

(* Two positions are never given one number, restarts included, unless a   *)
(* stub has it too: the promise of seqAllocator as far as it goes, resting *)
(* on no canonical row being deleted before its number is in at_closed.    *)
(* (With a stub it fails: five positions suffice, when the second archive  *)
(* of a stop exit deletes the stub a third one's canonical row became.)    *)
SeqsUnique ==
    \A p, q \in Decided :
        p # q /\ seq[p] = seq[q] => \E r \in Decided : stub[r] = seq[p]

(* A position the engine has let go of never comes back, however late its  *)
(* record is saved and whatever rows it leaves for _restoreFromDb.         *)
StaysClosed == [][\A p \in Decided : p \notin mem => p \notin mem']_vars

(* Are p's numbers its own, or does another position use one of them?      *)
Shared(p) ==
    \E q \in Decided \ {p} : stub[q] = seq[p] \/ stub[p] \in {seq[q], stub[q]} \ {0}

(* Positions the engine knows the exchange to hold, before and after.      *)
Exposed(p) == held[p] /\ held'[p] /\ (live[p] = "LIVE" \/ pc[p] \in {"filled", "stop"})

(* A tracked position known to be on the exchange is let go of only with   *)
(* its entry or its exit still going on: no failed transition of its stub  *)
(* abandons it and no restart drops it, unless another position uses one   *)
(* of its numbers.                                                         *)
KeptUnlessShared ==
    [][\A p \in mem \ mem' : Exposed(p) => pc'[p] # "idle" \/ Shared(p)]_vars

(* The cleanup of failed entries says it removes live entries with no      *)
(* exchange exposure.                                                      *)
ZombiesUnexposed ==
    [][\A p \in mem \ mem' : live'[p] = "failed" => ~held'[p]]_vars

(* Why it does not: a failed entry that is removed while the exchange      *)
(* holds it is one whose answer was lost, or one of whose numbers another  *)
(* position uses.                                                          *)
ZombiesExplained ==
    [][\A p \in mem \ mem' :
          live[p] # "failed" /\ live'[p] = "failed" /\ held'[p]
            => pc[p] = "lost" \/ Shared(p)]_vars
=============================================================================
