------------------------- MODULE PositionRows_proofs -------------------------
(***************************************************************************)
(* What PositionRows guarantees for any number of positions, at once and   *)
(* in all, and any number of restarts.                                     *)
(***************************************************************************)
EXTENDS PositionRows, SequenceTheorems, WellFoundedInduction, TLAPS

(* at_positions, and what a table becomes when it is written to.           *)
IsTable(t) == DOMAIN t \subseteq Nat \ {0} /\ t \in [DOMAIN t -> Row]

(* Two tables agree but for the rows x and y.                              *)
OnlyAt(t, u, x, y) ==
    \A z : z # x /\ z # y => /\ z \in DOMAIN t <=> z \in DOMAIN u
                             /\ z \in DOMAIN t => u[z] = t[z]

LEMMA PutOnly ==
  ASSUME NEW f, NEW x, NEW v, NEW u, u = Put(f, x, v)
  PROVE  OnlyAt(f, u, x, x)
  BY DEF OnlyAt, Put

LEMMA PutDomain ==
  ASSUME NEW f, NEW x, NEW v, NEW u, u = Put(f, x, v)
  PROVE  \A y : y \in DOMAIN u <=> y = x \/ y \in DOMAIN f
  BY DEF Put

LEMMA PutAt ==
  ASSUME NEW f, NEW x, NEW v, NEW u, u = Put(f, x, v)
  PROVE  x \in DOMAIN u /\ u[x] = v
  BY DEF Put

LEMMA DropOnly ==
  ASSUME NEW f, NEW S, NEW x, NEW y, S \subseteq {x, y}, NEW u, u = Drop(f, S)
  PROVE  OnlyAt(f, u, x, y)
  BY DEF OnlyAt, Drop

LEMMA DropDomain ==
  ASSUME NEW f, NEW S, NEW u, u = Drop(f, S)
  PROVE  \A y : y \in DOMAIN u <=> y \notin S /\ y \in DOMAIN f
  BY DEF Drop

LEMMA PutTable ==
  ASSUME NEW t, IsTable(t), NEW x \in Nat \ {0}, NEW v \in Row, NEW u, u = Put(t, x, v)
  PROVE  IsTable(u)
  BY DEF IsTable, Put

LEMMA DropTable ==
  ASSUME NEW t, IsTable(t), NEW S, NEW u, u = Drop(t, S)
  PROVE  IsTable(u)
  BY DEF IsTable, Drop

LEMMA ReplaceTable ==
  ASSUME NEW t, IsTable(t), NEW x \in DOMAIN t, NEW v \in Row,
         NEW u, u = [t EXCEPT ![x] = v]
  PROVE  IsTable(u) /\ OnlyAt(t, u, x, x) /\ DOMAIN u = DOMAIN t /\ u[x] = v
  BY DEF IsTable, OnlyAt

(* Seen at one row, a change of its status.                                *)
LEMMA StatusTable ==
  ASSUME NEW t, IsTable(t), NEW x, NEW s \in Status,
         NEW u, u = Moved(t, x, s)
  PROVE  /\ IsTable(u) /\ DOMAIN u = DOMAIN t /\ OnlyAt(t, u, x, x)
         /\ x \in DOMAIN t => /\ u[x].status = s /\ u[x].of = t[x].of
                              /\ u[x].kind = t[x].kind /\ u[x].live = t[x].live
  BY DEF IsTable, Row, OnlyAt, Moved

(* MAX(seq) is one: a bounded set of numbers has a largest.                *)
Bounds(S) == {b \in Nat : \A x \in S : x <= b}

LEMMA TopIsTop ==
  ASSUME NEW S, S \subseteq Nat, Bounds(S) # {}
  PROVE  Top(S) \in Nat /\ \A x \in S : x <= Top(S)
<1>1. CASE S = {}
  BY <1>1 DEF Top
<1>2. CASE S # {}
  <2>1. PICK b \in Bounds(S) : \A c \in Bounds(S) : ~(<<c, b>> \in OpToRel(<, Nat))
    BY WFMin, NatLessThanWellFounded DEF Bounds
  <2>2. \A c \in Bounds(S) : ~(c < b)
    BY <2>1 DEF Bounds, OpToRel
  <2>3. b \in S
    <3>1. SUFFICES ASSUME b \notin S PROVE FALSE
      OBVIOUS
    <3>2. PICK x \in S : TRUE
      BY <1>2
    <3>3. b - 1 \in Nat /\ \A y \in S : y <= b - 1
      BY <3>1, <3>2 DEF Bounds
    <3>4. QED
      BY <2>2, <3>3 DEF Bounds
  <2>4. \A x \in S : x <= b
    BY DEF Bounds
  <2>5. QED
    BY <1>2, <2>3, <2>4 DEF Top
<1>3. QED
  BY <1>1, <1>2

LEMMA BoundsGrow ==
  ASSUME NEW S, Bounds(S) # {}, S \subseteq Nat, NEW k \in Nat, NEW T, T \subseteq S \cup {k}
  PROVE  Bounds(T) # {}
<1>1. PICK b \in Nat : \A x \in S : x <= b
  BY DEF Bounds
<1>2. b + k \in Nat /\ \A x \in T : x <= b + k
  BY <1>1
<1>3. QED
  BY <1>2 DEF Bounds
-----------------------------------------------------------------------------
LEMMA SavedFacts ==
  ASSUME TypeOK, NEW p \in Decided, NEW t, IsTable(t), NEW lv \in Live,
         NEW u, u = Saved(t, p, lv)
  PROVE  /\ IsTable(u) /\ OnlyAt(t, u, seq[p], seq[p])
         /\ \A y \in DOMAIN t : y \in DOMAIN u
         /\ \/ p \in mem /\ u = t
            \/ /\ seq[p] \in DOMAIN u /\ u[seq[p]].of = p
               /\ u[seq[p]].kind = "position" /\ u[seq[p]].live = lv
               /\ u[seq[p]].status = "OPEN" <=> p \in mem
               /\ u[seq[p]].status \in {"OPEN", "DONE"}
<1>1. seq[p] \in Nat \ {0} /\ p \in Positions
  BY ElementOfSeq, LenProperties, RowsBounds DEF TypeOK, Decided, Positions
<1>2. ASSUME NEW s \in {"OPEN", "DONE"}, p \in mem <=> s = "OPEN",
             u = Put(t, seq[p], [of |-> p, kind |-> "position", status |-> s, live |-> lv])
      PROVE  /\ IsTable(u) /\ OnlyAt(t, u, seq[p], seq[p]) /\ \A y \in DOMAIN t : y \in DOMAIN u
             /\ seq[p] \in DOMAIN u /\ u[seq[p]].of = p
             /\ u[seq[p]].kind = "position" /\ u[seq[p]].live = lv
             /\ u[seq[p]].status = "OPEN" <=> p \in mem
             /\ u[seq[p]].status \in {"OPEN", "DONE"}
  <2> DEFINE r == [of |-> p, kind |-> "position", status |-> s, live |-> lv]
  <2>1. r \in Row /\ r.of = p /\ r.kind = "position" /\ r.live = lv /\ r.status = s
    BY <1>1 DEF Row, Status
  <2>2. u = Put(t, seq[p], r)
    BY <1>2
  <2> HIDE DEF r
  <2>3. /\ IsTable(u) /\ OnlyAt(t, u, seq[p], seq[p]) /\ u[seq[p]] = r
        /\ seq[p] \in DOMAIN u /\ \A y \in DOMAIN t : y \in DOMAIN u
    <3>1. IsTable(u)
      BY <1>1, <2>1, <2>2, PutTable
    <3>2. QED
      BY <2>2, <3>1, PutOnly, PutDomain, PutAt
  <2>4. QED
    BY <1>2, <2>1, <2>3
<1>3. CASE p \in mem /\ Taken(t, seq[p], p)
  BY <1>3 DEF Saved, OnlyAt
<1>4. CASE p \in mem /\ ~Taken(t, seq[p], p)
  BY <1>2, <1>4 DEF Saved
<1>5. CASE p \notin mem
  BY <1>2, <1>5 DEF Saved
<1>6. QED
  BY <1>3, <1>4, <1>5

(* The number 0 stands for no stub, and no row has it.                     *)
LEMMA StubRow ==
  ASSUME TypeOK, NEW p \in Positions, NEW s \in Status, NEW r, r = Stub(p, s)
  PROVE  r \in Row /\ r.kind = "stub" /\ r.of = p /\ r.status = s
  BY DEF Stub, Row, Live

LEMMA UpdatedFacts ==
  ASSUME TypeOK, NEW p \in Positions, NEW u, u = Updated(p)
  PROVE  /\ IsTable(u) /\ OnlyAt(table, u, stub[p], stub[p])
         /\ DOMAIN u = DOMAIN table
         /\ stub[p] \in DOMAIN table => /\ u[stub[p]].kind = "stub" /\ u[stub[p]].of = p
                                        /\ u[stub[p]].status = table[stub[p]].status
<1>1. IsTable(table)
  BY DEF TypeOK, IsTable
<1>2. CASE stub[p] \in DOMAIN table
  <2> DEFINE r == Stub(p, table[stub[p]].status)
  <2>1. table[stub[p]].status \in Status
    BY <1>1, <1>2 DEF IsTable, Row
  <2>2. r \in Row /\ r.kind = "stub" /\ r.of = p /\ r.status = table[stub[p]].status
    BY <2>1, StubRow
  <2>3. u = [table EXCEPT ![stub[p]] = r]
    BY <1>2 DEF Updated
  <2> HIDE DEF r
  <2>4. QED
    BY <1>1, <1>2, <2>2, <2>3, ReplaceTable
<1>3. CASE stub[p] \notin DOMAIN table
  BY <1>1, <1>3 DEF Updated, OnlyAt
<1>4. QED
  BY <1>2, <1>3

LEMMA OpenedFacts ==
  ASSUME TypeOK, NEW p \in Positions, stub[p] \in DOMAIN table, NEW u, u = Opened(p)
  PROVE  /\ IsTable(u) /\ OnlyAt(table, u, stub[p], stub[p])
         /\ DOMAIN u = DOMAIN table
         /\ u[stub[p]].kind = "stub" /\ u[stub[p]].of = p
         /\ u[stub[p]].status = IF Taken(table, stub[p], p) THEN table[stub[p]].status ELSE "OPEN"
<1> DEFINE w == Updated(p)
<1>0. /\ IsTable(w) /\ OnlyAt(table, w, stub[p], stub[p]) /\ DOMAIN w = DOMAIN table
      /\ w[stub[p]].kind = "stub" /\ w[stub[p]].of = p /\ w[stub[p]].status = table[stub[p]].status
  BY UpdatedFacts
<1>1. CASE Taken(table, stub[p], p)
  <2>1. u = w
    BY <1>1 DEF Opened
  <2>2. QED
    BY <1>0, <1>1, <2>1
<1>2. CASE ~Taken(table, stub[p], p)
  <2>1. u = Moved(w, stub[p], "OPEN")
    BY <1>2 DEF Opened
  <2> HIDE DEF w
  <2>2. "OPEN" \in Status
    BY DEF Status
  <2>3. /\ IsTable(u) /\ DOMAIN u = DOMAIN w /\ OnlyAt(w, u, stub[p], stub[p])
        /\ u[stub[p]].status = "OPEN" /\ u[stub[p]].of = w[stub[p]].of
        /\ u[stub[p]].kind = w[stub[p]].kind
    BY <1>0, <2>1, <2>2, StatusTable
  <2>4. QED
    BY <1>0, <1>2, <2>3 DEF OnlyAt
<1>3. QED
  BY <1>1, <1>2
-----------------------------------------------------------------------------
(* The inductive invariant.                                                *)

IsArchive(c) == DOMAIN c \subseteq Nat \ {0} /\ c \in [DOMAIN c -> Nat]

(* A position has nothing before it is decided, and no stub before its     *)
(* order.                                                                  *)
Fresh ==
    \A p \in Positions : /\ p \notin Decided => pc[p] = "idle" /\ stub[p] = 0
                         /\ pc[p] = "check" => stub[p] = 0

(* Every row is its position's, under the number the position has for it,  *)
(* and only a tracked position's canonical row is OPEN.                    *)
InPlace(t, m, st) ==
    \A x \in DOMAIN t :
        /\ t[x].of \in Decided
        /\ t[x].kind = "position" => /\ x = seq[t[x].of]
                                     /\ t[x].status \in {"OPEN", "CLOSING", "DONE"}
                                     /\ t[x].status = "OPEN" => t[x].of \in m
        /\ t[x].kind = "stub" => x = st[t[x].of]

(* Only finitely many numbers are in use, so that MAX(seq) exists.         *)
Bounded == \E b \in Nat : \A x : x \in DOMAIN table \/ x \in DOMAIN closed => x <= b

IInv == TypeOK /\ Fresh /\ InPlace(table, mem, stub) /\ Bounded

LEMMA DecidedFacts ==
  ASSUME TypeOK, NEW p \in Decided
  PROVE  p \in Positions /\ seq[p] \in Nat \ {0}
  BY ElementOfSeq, LenProperties, RowsBounds DEF TypeOK, Decided, Positions

(* Only the rows that change need be looked at again.                      *)
LEMMA InPlaceAt ==
  ASSUME NEW t, NEW m, NEW st, InPlace(t, m, st), NEW x, NEW u, OnlyAt(t, u, x, x),
         x \in DOMAIN u =>
            /\ u[x].of \in Decided
            /\ u[x].kind = "position" => /\ x = seq[u[x].of]
                                         /\ u[x].status \in {"OPEN", "CLOSING", "DONE"}
                                         /\ u[x].status = "OPEN" => u[x].of \in m
            /\ u[x].kind = "stub" => x = st[u[x].of]
  PROVE  InPlace(u, m, st)
  BY DEF InPlace, OnlyAt

LEMMA InPlaceSaved ==
  ASSUME TypeOK, NEW p \in Decided, NEW t, IsTable(t), NEW lv \in Live,
         NEW st, InPlace(t, mem, st), NEW u, u = Saved(t, p, lv)
  PROVE  InPlace(u, mem, st)
<1>1. /\ IsTable(u) /\ OnlyAt(t, u, seq[p], seq[p])
      /\ \A y \in DOMAIN t : y \in DOMAIN u
      /\ \/ p \in mem /\ u = t
         \/ /\ seq[p] \in DOMAIN u /\ u[seq[p]].of = p
            /\ u[seq[p]].kind = "position" /\ u[seq[p]].live = lv
            /\ u[seq[p]].status = "OPEN" <=> p \in mem
            /\ u[seq[p]].status \in {"OPEN", "DONE"}
  BY SavedFacts
<1>2. CASE u = t
  BY <1>2
<1>3. CASE u # t
  BY <1>1, <1>3, InPlaceAt
<1>4. QED
  BY <1>2, <1>3

LEMMA InPlaceDropped ==
  ASSUME NEW t, NEW m, NEW st, InPlace(t, m, st), NEW p \in Decided,
         NEW S, seq[p] \in S, NEW u, u = Drop(t, S), NEW n, m \ {p} \subseteq n
  PROVE  InPlace(u, n, st)
  BY DEF InPlace, Drop

LEMMA InPlaceMoved ==
  ASSUME NEW t, IsTable(t), NEW m, NEW st, InPlace(t, m, st), NEW x \in DOMAIN t, NEW s \in Status,
         s = "CLOSING" \/ t[x].status \in {"PENDING", "OPENING"}, NEW u, u = Moved(t, x, s)
  PROVE  InPlace(u, m, st)
<1>1. /\ DOMAIN u = DOMAIN t /\ OnlyAt(t, u, x, x)
      /\ u[x].status = s /\ u[x].of = t[x].of /\ u[x].kind = t[x].kind
  BY StatusTable
<1>2. /\ t[x].of \in Decided
      /\ t[x].kind = "position" => /\ x = seq[t[x].of] /\ s = "CLOSING"
      /\ t[x].kind = "stub" => x = st[t[x].of]
  BY DEF InPlace
<1>3. QED
  BY <1>1, <1>2, InPlaceAt

LEMMA InPlaceStub ==
  ASSUME TypeOK, NEW p \in Decided, NEW t, NEW m, NEW st, InPlace(t, m, st),
         NEW s \in Status, NEW u, u = Put(t, st[p], Stub(p, s))
  PROVE  InPlace(u, m, st)
<1> DEFINE r == Stub(p, s)
<1>1. r.kind = "stub" /\ r.of = p
  BY DecidedFacts, StubRow
<1>2. u = Put(t, st[p], r)
  OBVIOUS
<1> HIDE DEF r
<1>3. OnlyAt(t, u, st[p], st[p]) /\ st[p] \in DOMAIN u /\ u[st[p]] = r
  BY <1>2, PutOnly, PutAt
<1>4. QED
  BY <1>1, <1>3, InPlaceAt

(* A position about to send its order has no stub yet.                     *)
LEMMA InPlaceUnstubbed ==
  ASSUME IInv, NEW p \in Decided, pc[p] = "check",
         NEW k, NEW st, st = [stub EXCEPT ![p] = k]
  PROVE  InPlace(table, mem, st)
<1>1. stub[p] = 0 /\ p \in Positions
  BY DecidedFacts DEF IInv, Fresh
<1>2. 0 \notin DOMAIN table /\ stub \in [Positions -> Nat] /\ \A q \in Decided : q \in Positions
  BY DecidedFacts DEF IInv, TypeOK
<1>3. \A q \in Decided : q # p => st[q] = stub[q]
  BY <1>1, <1>2
<1>4. QED
  BY <1>1, <1>2, <1>3 DEF IInv, InPlace

LEMMA TableTop ==
  ASSUME IInv
  PROVE  Top(DOMAIN table) \in Nat /\ \A x \in DOMAIN table : x <= Top(DOMAIN table)
<1>1. DOMAIN table \subseteq Nat
  BY DEF IInv, TypeOK
<1>2. Bounds(DOMAIN table) # {}
  BY DEF IInv, Bounded, Bounds
<1>3. QED
  BY <1>1, <1>2, TopIsTop

LEMMA PutArchive ==
  ASSUME NEW c, IsArchive(c), NEW x \in Nat \ {0}, NEW n \in Nat, NEW d, d = Put(c, x, n)
  PROVE  IsArchive(d)
  BY DEF IsArchive, Put

(* Writing for p makes u of t: at p's own rows, and never a stub of a      *)
(* canonical row, unless the two have one number.                          *)
Wrote(t, u, p) ==
    /\ OnlyAt(t, u, seq[p], stub'[p])
    /\ seq[p] # stub'[p] =>
         /\ seq[p] \in DOMAIN t => seq[p] \in DOMAIN u
         /\ seq[p] \in DOMAIN u => \/ u[seq[p]].kind = "position"
                                   \/ seq[p] \in DOMAIN t /\ u[seq[p]].kind = t[seq[p]].kind

(* What a step of p leaves true of the two tables.  A canonical row that   *)
(* goes is in at_closed.                                                   *)
Keeps(p) ==
    /\ IsTable(table') /\ IsArchive(closed')
    /\ InPlace(table', mem', stub')
    /\ OnlyAt(table, table', seq[p], stub'[p])
    /\ \A x \in DOMAIN closed : x \in DOMAIN closed'
    /\ \A x \in DOMAIN closed' : x \in DOMAIN closed \/ x = seq[p] \/ x = stub'[p]
    /\ seq[p] # stub'[p] =>
         /\ seq[p] \in DOMAIN table => seq[p] \in DOMAIN table' \/ seq[p] \in DOMAIN closed'
         /\ seq[p] \in DOMAIN table' =>
                \/ table'[seq[p]].kind = "position"
                \/ seq[p] \in DOMAIN table /\ table'[seq[p]].kind = table[seq[p]].kind

LEMMA WroteStub ==
  ASSUME NEW p, NEW t, NEW u, OnlyAt(t, u, stub'[p], stub'[p])
  PROVE  Wrote(t, u, p)
  BY DEF Wrote, OnlyAt

LEMMA WroteSaved ==
  ASSUME TypeOK, NEW p \in Decided, NEW t, IsTable(t), NEW lv \in Live, Wrote(table, t, p),
         NEW u, u = Saved(t, p, lv)
  PROVE  Wrote(table, u, p)
<1>1. /\ OnlyAt(t, u, seq[p], seq[p])
      /\ \/ u = t
         \/ seq[p] \in DOMAIN u /\ u[seq[p]].kind = "position"
  BY SavedFacts
<1>2. QED
  BY <1>1 DEF Wrote, OnlyAt

LEMMA FailKeeps ==
  ASSUME IInv, NEW p \in Decided, NEW t, IsTable(t), InPlace(t, mem, stub'), Fail(p, t),
         Wrote(table, t, p)
  PROVE  Keeps(p)
<1>1. IsArchive(closed) /\ seq[p] \in Nat \ {0} /\ Len(seq) \in Nat
  BY DecidedFacts, LenProperties DEF IInv, TypeOK, IsArchive
<1>2. CASE p \in mem
  <2>1. closed' = Put(closed, seq[p], Len(seq)) /\ mem' = mem \ {p}
    BY <1>2 DEF Fail
  <2> DEFINE S == {seq[p]}
  <2>2. table' = Drop(t, S) /\ seq[p] \in S
    BY <1>2 DEF Fail
  <2> HIDE DEF S
  <2>3. /\ IsArchive(closed') /\ seq[p] \in DOMAIN closed'
        /\ \A y \in DOMAIN closed' : y \in DOMAIN closed \/ y = seq[p]
        /\ \A y \in DOMAIN closed : y \in DOMAIN closed'
    BY <1>1, <2>1, PutArchive, PutDomain
  <2>4. IsTable(table')
    BY <2>2, DropTable
  <2>5. InPlace(table', mem', stub')
    BY <2>1, <2>2, InPlaceDropped
  <2>6. seq[p] \notin DOMAIN table' /\ S \subseteq {seq[p], seq[p]}
    BY <2>2, DropDomain DEF S
  <2>7. OnlyAt(t, table', seq[p], seq[p])
    BY <2>2, <2>6, DropOnly
  <2>8. QED
    BY <2>3, <2>4, <2>5, <2>6, <2>7 DEF Keeps, Wrote, OnlyAt
<1>3. CASE p \notin mem
  <2>1. table' = t /\ closed' = closed /\ mem' = mem
    BY <1>3 DEF Fail, IInv, TypeOK
  <2>2. QED
    BY <1>1, <2>1 DEF Keeps, Wrote
<1>4. QED
  BY <1>2, <1>3

(* The same of a step that leaves at_closed and the tracked alone.         *)
LEMMA WriteKeeps ==
  ASSUME IInv, NEW p \in Decided, closed' = closed, mem' = mem,
         IsTable(table'), InPlace(table', mem, stub'), Wrote(table, table', p)
  PROVE  Keeps(p)
  BY DEF Keeps, Wrote, IInv, TypeOK, IsArchive

LEMMA ArchiveKeeps ==
  ASSUME IInv, NEW p \in Decided, Archive(p), stub' = stub, mem \ {p} \subseteq mem'
  PROVE  Keeps(p)
<1>1. IsArchive(closed) /\ IsTable(table) /\ seq[p] \in Nat \ {0} /\ Len(seq) \in Nat
  BY DecidedFacts, LenProperties DEF IInv, TypeOK, IsArchive, IsTable
<1> DEFINE S == {seq[p]} \cup StubOnly(table, Linked(p))
<1>2. table' = Drop(table, S) /\ seq[p] \in S /\ closed' = Put(closed, seq[p], Len(seq))
  BY DEF Archive
<1>3. S \subseteq {seq[p], stub[p]}
  BY DEF StubOnly, Linked
<1> HIDE DEF S
<1>7. /\ IsArchive(closed') /\ seq[p] \in DOMAIN closed'
      /\ \A y \in DOMAIN closed' : y \in DOMAIN closed \/ y = seq[p]
      /\ \A y \in DOMAIN closed : y \in DOMAIN closed'
  BY <1>1, <1>2, PutArchive, PutDomain
<1>4. IsTable(table')
  BY <1>1, <1>2, DropTable
<1>5. InPlace(table', mem', stub')
  BY <1>2, InPlaceDropped DEF IInv
<1>6. OnlyAt(table, table', seq[p], stub[p]) /\ seq[p] \notin DOMAIN table'
  BY <1>2, <1>3, DropOnly, DropDomain
<1>8. QED
  BY <1>4, <1>5, <1>6, <1>7 DEF Keeps

LEMMA EntryKeeps ==
  ASSUME IInv, NEW p \in Decided, Entry(p)
  PROVE  Keeps(p)
<1>0. /\ IsTable(table) /\ InPlace(table, mem, stub) /\ TypeOK
      /\ p \in Positions /\ live[p] \in Live /\ {"none", "LIVE"} \subseteq Live
      /\ {"PENDING", "CANCELLED", "OPENING", "EMERGENCY", "OPEN"} \subseteq Status
      /\ Wrote(table, table, p)
  BY DecidedFacts DEF IInv, TypeOK, IsTable, Live, Status, Wrote, OnlyAt
<1>1. CASE CheckFailed(p) \/ EntryThrew(p)
  BY <1>0, <1>1, FailKeeps DEF CheckFailed, EntryThrew
<1>2. CASE CheckRefused(p)
  <2>1. table' = Saved(table, p, "none")
    BY <1>2 DEF CheckRefused
  <2>2. IsTable(table')
    BY <1>0, <2>1, SavedFacts
  <2>3. InPlace(table', mem, stub)
    BY <1>0, <2>1, InPlaceSaved
  <2>4. Wrote(table, table', p)
    BY <1>0, <2>1, WroteSaved
  <2>5. QED
    BY <1>2, <2>2, <2>3, <2>4, WriteKeeps DEF CheckRefused
<1>3. CASE StubInserted(p) \/ LotRejected(p)
  <2>1. PICK s, u :
           /\ s \in {"PENDING", "CANCELLED"}
           /\ u = Put(table, stub'[p], Stub(p, s))
           /\ \/ table' = u /\ closed' = closed /\ mem' = mem
              \/ Fail(p, u)
    BY <1>0, <1>3 DEF StubInserted, LotRejected, IInv, TypeOK
  <2>2. stub'[p] \in Nat \ {0}
    BY <1>0, <1>3, TableTop DEF StubInserted, LotRejected, TypeOK
  <2>3. InPlace(table, mem, stub')
    BY <1>3, InPlaceUnstubbed DEF StubInserted, LotRejected
  <2>4. InPlace(u, mem, stub')
    BY <1>0, <2>1, <2>3, InPlaceStub
  <2> DEFINE r == Stub(p, s)
  <2>5. r \in Row /\ u = Put(table, stub'[p], r)
    BY <1>0, <2>1, StubRow
  <2> HIDE DEF r
  <2>6. IsTable(u)
    BY <1>0, <2>2, <2>5, PutTable
  <2>7. OnlyAt(table, u, stub'[p], stub'[p])
    BY <2>5, PutOnly
  <2>8. Wrote(table, u, p)
    BY <2>7, WroteStub
  <2>9. QED
    BY <2>1, <2>4, <2>6, <2>8, WriteKeeps, FailKeeps
<1>4. CASE EntryFilled(p) \/ ReplyLost(p)
  BY <1>0, <1>4, WriteKeeps DEF EntryFilled, ReplyLost, rows
<1>5. CASE EntryAnswered(p)
  <2>1. CASE Has(table, stub[p], "PENDING")
    <3>1. /\ table' = Moved(table, stub[p], "OPENING") /\ UNCHANGED <<closed, mem, stub>>
          /\ stub[p] \in DOMAIN table /\ table[stub[p]].status = "PENDING"
      BY <1>5, <2>1 DEF EntryAnswered, Has
    <3>2. IsTable(table') /\ OnlyAt(table, table', stub'[p], stub'[p])
      BY <1>0, <3>1, StatusTable
    <3>3. InPlace(table', mem, stub)
      BY <1>0, <3>1, InPlaceMoved
    <3>4. Wrote(table, table', p)
      BY <3>2, WroteStub
    <3>5. QED
      BY <3>1, <3>2, <3>3, <3>4, WriteKeeps
  <2>2. CASE ~Has(table, stub[p], "PENDING")
    BY <1>0, <1>5, <2>2, FailKeeps DEF EntryAnswered
  <2>3. QED
    BY <2>1, <2>2
<1>6. CASE StopPlaced(p)
  <2>1. CASE Opens(p)
    <3> DEFINE u == Opened(p)
    <3>1. stub[p] \in DOMAIN table /\ UNCHANGED <<closed, mem, stub>> /\ table' = Saved(u, p, "LIVE")
      BY <1>6, <2>1 DEF StopPlaced, Opens, Has
    <3>2. /\ IsTable(u) /\ OnlyAt(table, u, stub[p], stub[p]) /\ DOMAIN u = DOMAIN table
          /\ u[stub[p]].kind = "stub" /\ u[stub[p]].of = p
      BY <1>0, <3>1, OpenedFacts
    <3> HIDE DEF u
    <3>3. InPlace(u, mem, stub)
      BY <1>0, <3>2, InPlaceAt
    <3>4. IsTable(table')
      BY <1>0, <3>1, <3>2, SavedFacts
    <3>5. InPlace(table', mem, stub)
      BY <1>0, <3>1, <3>2, <3>3, InPlaceSaved
    <3>6. Wrote(table, u, p)
      BY <3>1, <3>2, WroteStub
    <3>7. Wrote(table, table', p)
      BY <1>0, <3>1, <3>2, <3>6, WroteSaved
    <3>8. QED
      BY <3>1, <3>4, <3>5, <3>7, WriteKeeps
  <2>2. CASE ~Opens(p)
    <3>1. PICK u \in {table, Updated(p)} : Fail(p, u)
      BY <1>6, <2>2 DEF StopPlaced
    <3>2. IsTable(u) /\ InPlace(u, mem, stub) /\ OnlyAt(table, u, stub[p], stub[p])
      <4>1. CASE u = table
        BY <1>0, <4>1 DEF OnlyAt
      <4>2. CASE u = Updated(p)
        <5>1. /\ IsTable(u) /\ OnlyAt(table, u, stub[p], stub[p]) /\ DOMAIN u = DOMAIN table
              /\ stub[p] \in DOMAIN table => u[stub[p]].kind = "stub" /\ u[stub[p]].of = p
          BY <1>0, <4>2, UpdatedFacts
        <5>2. QED
          BY <1>0, <5>1, InPlaceAt
      <4>3. QED
        BY <3>1, <4>1, <4>2
    <3>3. stub' = stub
      BY <1>6 DEF StopPlaced
    <3>4. Wrote(table, u, p)
      BY <3>2, <3>3, WroteStub
    <3>5. QED
      BY <3>1, <3>2, <3>3, <3>4, FailKeeps
  <2>3. QED
    BY <2>1, <2>2
<1>7. CASE StopExhausted(p)
  <2>1. PICK u : /\ \/ u = table
                    \/ Has(table, stub[p], "OPENING") /\ u = Moved(table, stub[p], "EMERGENCY")
                 /\ \/ table' = Saved(u, p, "none") /\ UNCHANGED <<closed, mem>>
                    \/ Fail(p, u)
    BY <1>7 DEF StopExhausted
  <2>2. IsTable(u) /\ InPlace(u, mem, stub) /\ OnlyAt(table, u, stub[p], stub[p])
    <3>1. CASE u = table
      BY <1>0, <3>1 DEF OnlyAt
    <3>2. CASE Has(table, stub[p], "OPENING") /\ u = Moved(table, stub[p], "EMERGENCY")
      <4>1. stub[p] \in DOMAIN table /\ table[stub[p]].status = "OPENING"
        BY <3>2 DEF Has
      <4>2. IsTable(u) /\ OnlyAt(table, u, stub[p], stub[p])
        BY <1>0, <3>2, StatusTable
      <4>3. InPlace(u, mem, stub)
        BY <1>0, <3>2, <4>1, InPlaceMoved
      <4>4. QED
        BY <4>2, <4>3
    <3>3. QED
      BY <2>1, <3>1, <3>2
  <2>3. stub' = stub /\ Wrote(table, u, p)
    BY <1>7, <2>2, WroteStub DEF StopExhausted
  <2>4. CASE table' = Saved(u, p, "none") /\ UNCHANGED <<closed, mem>>
    <3>1. IsTable(table')
      BY <1>0, <2>2, <2>4, SavedFacts
    <3>2. InPlace(table', mem, stub)
      BY <1>0, <2>2, <2>4, InPlaceSaved
    <3>3. Wrote(table, table', p)
      BY <1>0, <2>2, <2>3, <2>4, WroteSaved
    <3>4. QED
      BY <1>7, <2>3, <2>4, <3>1, <3>2, <3>3, WriteKeeps
  <2>5. CASE Fail(p, u)
    BY <2>2, <2>3, <2>5, FailKeeps
  <2>6. QED
    BY <2>1, <2>4, <2>5
<1>8. QED
  BY <1>1, <1>2, <1>3, <1>4, <1>5, <1>6, <1>7 DEF Entry

LEMMA ExitKeeps ==
  ASSUME IInv, NEW p \in Decided, Exit(p)
  PROVE  Keeps(p)
<1>0. /\ IsTable(table) /\ InPlace(table, mem, stub) /\ TypeOK
      /\ p \in Positions /\ live[p] \in Live /\ "CLOSING" \in Status
      /\ Wrote(table, table, p)
  BY DecidedFacts DEF IInv, TypeOK, IsTable, Status, Wrote, OnlyAt
<1>1. CASE Save(p) \/ LateSave(p)
  <2>1. table' = Saved(table, p, live[p]) /\ UNCHANGED <<closed, mem, stub>>
    BY <1>1 DEF Save, LateSave, pipeline
  <2>2. IsTable(table')
    BY <1>0, <2>1, SavedFacts
  <2>3. InPlace(table', mem, stub)
    BY <1>0, <2>1, InPlaceSaved
  <2>4. Wrote(table, table', p)
    BY <1>0, <2>1, WroteSaved
  <2>5. QED
    BY <2>1, <2>2, <2>3, <2>4, WriteKeeps
<1>2. CASE Ended(p) \/ OpsCloseFails(p) \/ GiveUp(p)
  BY <1>0, <1>2, WriteKeeps DEF Ended, OpsCloseFails, GiveUp, rows
<1>3. CASE Close(p)
  BY <1>3, ArchiveKeeps DEF Close
<1>4. CASE ExitCorrected(p)
  <2>1. stub' = stub /\ mem' = mem
    BY <1>4 DEF ExitCorrected
  <2>2. CASE UNCHANGED <<table, closed>>
    BY <1>0, <2>1, <2>2, WriteKeeps
  <2>3. CASE Archive(p)
    BY <2>1, <2>3, ArchiveKeeps
  <2>4. QED
    BY <1>4, <2>2, <2>3 DEF ExitCorrected
<1>5. CASE OpsCloseBegin(p)
  <2>1. UNCHANGED <<closed, mem, stub>>
    BY <1>5 DEF OpsCloseBegin
  <2>2. CASE table' = table
    BY <1>0, <2>1, <2>2, WriteKeeps
  <2>3. CASE table' = Moved(table, stub[p], "CLOSING") /\ stub[p] \in DOMAIN table
    <3>1. IsTable(table') /\ OnlyAt(table, table', stub[p], stub[p])
      BY <1>0, <2>3, StatusTable
    <3>2. InPlace(table', mem, stub)
      BY <1>0, <2>3, InPlaceMoved
    <3>3. Wrote(table, table', p)
      BY <2>1, <3>1, WroteStub
    <3>4. QED
      BY <2>1, <3>1, <3>2, <3>3, WriteKeeps
  <2>4. QED
    BY <1>5, <2>2, <2>3 DEF OpsCloseBegin, Has
<1>6. CASE OpsCloseDone(p)
  <2>1. UNCHANGED <<mem, stub>>
    BY <1>6 DEF OpsCloseDone
  <2>2. CASE UNCHANGED <<closed, table>>
    BY <1>0, <2>1, <2>2, WriteKeeps
  <2>3. CASE /\ Has(table, stub[p], "CLOSING")
             /\ closed' = Put(closed, stub[p], Len(seq)) /\ table' = Drop(table, {stub[p]})
    <3>1. stub[p] \in Nat \ {0} /\ Len(seq) \in Nat /\ IsArchive(closed)
      BY <1>0, <2>3, LenProperties DEF Has, IsTable, TypeOK, IsArchive
    <3>2. /\ IsArchive(closed')
          /\ \A y \in DOMAIN closed' : y \in DOMAIN closed \/ y = stub[p]
          /\ \A y \in DOMAIN closed : y \in DOMAIN closed'
      BY <2>3, <3>1, PutArchive, PutDomain
    <3> DEFINE S == {stub[p]}
    <3>3. table' = Drop(table, S) /\ S \subseteq {stub[p], stub[p]}
      BY <2>3
    <3> HIDE DEF S
    <3>4. IsTable(table')
      BY <1>0, <3>3, DropTable
    <3>5. InPlace(table', mem', stub')
      BY <1>0, <2>1, <3>3 DEF InPlace, Drop
    <3>6. OnlyAt(table, table', stub[p], stub[p])
      BY <3>3, DropOnly
    <3>7. Wrote(table, table', p)
      BY <2>1, <3>6, WroteStub
    <3>8. QED
      BY <2>1, <3>2, <3>4, <3>5, <3>7 DEF Keeps, Wrote
  <2>4. QED
    BY <1>6, <2>2, <2>3 DEF OpsCloseDone
<1>7. QED
  BY <1>1, <1>2, <1>3, <1>4, <1>5, <1>6 DEF Exit

(* Every step of p leaves the rest of the invariant true as well.          *)
LEMMA StepTypes ==
  ASSUME IInv, NEW p \in Decided, Keeps(p), Entry(p) \/ Exit(p)
  PROVE  IInv'
<1>0. /\ TypeOK /\ Fresh /\ p \in Positions /\ seq' = seq /\ issued' = issued
      /\ mem' \subseteq mem /\ late' \subseteq late \cup {p} /\ restarts' = restarts
  BY DecidedFacts
     DEF IInv, Entry, Exit, CheckFailed, CheckRefused, StubInserted, LotRejected, EntryFilled,
         ReplyLost, EntryThrew, EntryAnswered, StopPlaced, StopExhausted, Fail, Save, Ended, Close,
         LateSave, ExitCorrected, OpsCloseBegin, OpsCloseDone, OpsCloseFails, GiveUp, rows, pipeline
<1>1. \/ live' = live
      \/ \E s \in Live : live' = [live EXCEPT ![p] = s]
  BY DEF Live, Entry, Exit, CheckFailed, CheckRefused, StubInserted, LotRejected, EntryFilled,
         ReplyLost, EntryThrew, EntryAnswered, StopPlaced, StopExhausted, Fail, Save, Ended, Close,
         LateSave, ExitCorrected, OpsCloseBegin, OpsCloseDone, OpsCloseFails, GiveUp, rows, pipeline
<1>2. \/ held' = held
      \/ \E b \in BOOLEAN : held' = [held EXCEPT ![p] = b]
  BY DEF IInv, TypeOK, Entry, Exit, CheckFailed, CheckRefused, StubInserted, LotRejected, EntryFilled,
         ReplyLost, EntryThrew, EntryAnswered, StopPlaced, StopExhausted, Fail, Save, Ended, Close,
         LateSave, ExitCorrected, OpsCloseBegin, OpsCloseDone, OpsCloseFails, GiveUp, rows, pipeline
<1>3. \/ pc' = pc
      \/ \E c \in Pc \ {"check"} : pc' = [pc EXCEPT ![p] = c]
  BY DEF Pc, Entry, Exit, CheckFailed, CheckRefused, StubInserted, LotRejected, EntryFilled,
         ReplyLost, EntryThrew, EntryAnswered, StopPlaced, StopExhausted, Fail, Save, Ended, Close,
         LateSave, ExitCorrected, OpsCloseBegin, OpsCloseDone, OpsCloseFails, GiveUp, rows, pipeline
<1>4. \/ stub' = stub
      \/ pc'[p] # "check" /\ \E k \in Nat : stub' = [stub EXCEPT ![p] = k]
  <2>1. CASE StubInserted(p) \/ LotRejected(p)
    BY <1>0, <2>1, TableTop DEF StubInserted, LotRejected, Fail, TypeOK
  <2>2. CASE ~(StubInserted(p) \/ LotRejected(p))
    BY <2>2 DEF Entry, Exit, CheckFailed, CheckRefused, EntryFilled, ReplyLost, EntryThrew,
         EntryAnswered, StopPlaced, StopExhausted, Save, Ended, Close, LateSave,
         ExitCorrected, OpsCloseBegin, OpsCloseDone, OpsCloseFails, GiveUp, pipeline
  <2>3. QED
    BY <2>1, <2>2
<1>5. Decided' = Decided
  BY <1>0 DEF Decided
<1>6. TypeOK'
  <2>1. live' \in [Positions -> Live]
    BY <1>0, <1>1 DEF TypeOK
  <2>2. held' \in [Positions -> BOOLEAN]
    BY <1>0, <1>2 DEF TypeOK
  <2>3. pc' \in [Positions -> Pc]
    BY <1>0, <1>3 DEF TypeOK
  <2>4. stub' \in [Positions -> Nat]
    BY <1>0, <1>4 DEF TypeOK
  <2>5. QED
    BY <1>0, <1>5, <2>1, <2>2, <2>3, <2>4 DEF TypeOK, Keeps, IsTable, IsArchive
<1>7. Fresh'
  BY <1>0, <1>3, <1>4, <1>5 DEF Fresh, TypeOK
<1>8. InPlace(table, mem, stub)'
  BY <1>0, <1>5 DEF Keeps, InPlace
<1>9. Bounded'
  <2>1. PICK b \in Nat : \A x : x \in DOMAIN table \/ x \in DOMAIN closed => x <= b
    BY DEF IInv, Bounded
  <2>2. b + seq[p] + stub'[p] \in Nat /\ DOMAIN table \subseteq Nat /\ DOMAIN closed \subseteq Nat
        /\ seq[p] \in Nat /\ stub'[p] \in Nat
    BY <1>0, <1>6, DecidedFacts DEF TypeOK
  <2>3. \A x : x \in DOMAIN table' \/ x \in DOMAIN closed' => x <= b + seq[p] + stub'[p]
    BY <2>1, <2>2 DEF Keeps, OnlyAt
  <2>4. QED
    BY <2>2, <2>3 DEF Bounded
<1>10. QED
  BY <1>6, <1>7, <1>8, <1>9 DEF IInv

LEMMA OnlyDecided ==
  ASSUME IInv, NEW p \in Positions, Entry(p) \/ Exit(p)
  PROVE  p \in Decided /\ mem' \subseteq mem /\ seq' = seq
<1>1. p \in mem \cup late \/ pc[p] # "idle"
  BY DEF Entry, Exit, CheckFailed, CheckRefused, StubInserted, LotRejected, EntryFilled,
         ReplyLost, EntryThrew, EntryAnswered, StopPlaced, StopExhausted, Save, Ended, Close,
         LateSave, ExitCorrected, OpsCloseBegin, OpsCloseDone, OpsCloseFails, GiveUp
<1>2. p \in Decided
  BY <1>1 DEF IInv, Fresh, TypeOK
<1>3. mem' \subseteq mem /\ seq' = seq
  BY DEF Entry, Exit, CheckFailed, CheckRefused, StubInserted, LotRejected, EntryFilled,
         ReplyLost, EntryThrew, EntryAnswered, StopPlaced, StopExhausted, Fail, Save, Ended, Close,
         LateSave, ExitCorrected, OpsCloseBegin, OpsCloseDone, OpsCloseFails, GiveUp, pipeline
<1>4. QED
  BY <1>2, <1>3

LEMMA DecideStep ==
  ASSUME IInv, Decide
  PROVE  IInv' /\ mem' \cap Decided \subseteq mem
<1> DEFINE p == Len(seq) + 1
           n == issued + 1
           r == [of |-> p, kind |-> "position", status |-> "OPEN", live |-> "none"]
<1>1. /\ p <= MaxPositions /\ issued' = n /\ seq' = Append(seq, n) /\ mem' = mem \cup {p}
      /\ table' = Put(table, n, r) /\ pc' = [pc EXCEPT ![p] = "check"]
      /\ UNCHANGED <<closed, live, stub, held, late, restarts>>
  BY DEF Decide
<1>2. /\ TypeOK /\ Fresh /\ seq \in Seq(Nat \ {0}) /\ Len(seq) \in Nat /\ n \in Nat \ {0}
  BY LenProperties DEF IInv, TypeOK
<1>3. /\ p \in Positions /\ p \in Nat /\ p \notin Decided
  BY <1>1, <1>2, RowsBounds DEF Positions, Decided
<1>4. seq' \in Seq(Nat \ {0}) /\ Len(seq') = p
  BY <1>1, <1>2, AppendProperties
<1>5. seq'[p] = n /\ \A q \in Decided : seq'[q] = seq[q]
  BY <1>1, <1>2, AppendProperties DEF Decided
<1>6. \A q : q \in Decided' <=> q \in Decided \/ q = p
  BY <1>2, <1>4 DEF Decided
<1>7. r \in Row /\ r.of = p /\ r.kind = "position" /\ r.status = "OPEN"
  BY <1>3 DEF Row, Status, Live
<1> HIDE DEF p, n, r
<1>8. IsTable(table)
  BY <1>2 DEF TypeOK, IsTable
<1>9. /\ IsTable(table') /\ n \in DOMAIN table' /\ table'[n] = r /\ OnlyAt(table, table', n, n)
  <2>1. IsTable(table')
    BY <1>1, <1>2, <1>7, <1>8, PutTable
  <2>2. QED
    BY <1>1, <2>1, PutAt, PutOnly
<1>10. TypeOK'
  <2>1. pc' \in [Positions -> Pc]
    BY <1>1, <1>2 DEF TypeOK, Pc
  <2>2. QED
    BY <1>1, <1>2, <1>4, <1>6, <1>9, <2>1 DEF TypeOK, IsTable
<1>11. Fresh'
  <2>1. stub[p] = 0 /\ pc[p] = "idle"
    BY <1>2, <1>3 DEF Fresh
  <2>2. QED
    BY <1>1, <1>2, <1>3, <1>6, <2>1 DEF Fresh, TypeOK
<1>12. InPlace(table, mem, stub)'
  <2>1. ASSUME NEW y \in DOMAIN table', y # n
        PROVE  y \in DOMAIN table /\ table'[y] = table[y]
    BY <1>9, <2>1 DEF OnlyAt
  <2>2. ASSUME NEW y \in DOMAIN table', y # n
        PROVE  /\ table'[y].of \in Decided
               /\ table'[y].kind = "position" => /\ y = seq[table'[y].of]
                                                 /\ table'[y].status \in {"OPEN", "CLOSING", "DONE"}
                                                 /\ table'[y].status = "OPEN" => table'[y].of \in mem
               /\ table'[y].kind = "stub" => y = stub[table'[y].of]
    BY <2>1, <2>2 DEF IInv, InPlace
  <2>3. ASSUME NEW y \in DOMAIN table'
        PROVE  /\ table'[y].of \in Decided'
               /\ table'[y].kind = "position" => /\ y = seq'[table'[y].of]
                                                 /\ table'[y].status \in {"OPEN", "CLOSING", "DONE"}
                                                 /\ table'[y].status = "OPEN" => table'[y].of \in mem'
               /\ table'[y].kind = "stub" => y = stub'[table'[y].of]
    <3>1. CASE y = n
      BY <1>1, <1>5, <1>6, <1>7, <1>9, <3>1
    <3>2. CASE y # n
      BY <1>1, <1>5, <1>6, <2>2, <3>2
    <3>3. QED
      BY <3>1, <3>2
  <2>4. QED
    BY <2>3 DEF InPlace
<1>13. Bounded'
  <2>1. PICK b \in Nat : \A y : y \in DOMAIN table \/ y \in DOMAIN closed => y <= b
    BY DEF IInv, Bounded
  <2>2. \A y : y \in DOMAIN table' => y \in DOMAIN table \/ y = n
    BY <1>9 DEF OnlyAt
  <2>3. DOMAIN table \subseteq Nat /\ DOMAIN closed \subseteq Nat
    BY <1>2 DEF TypeOK
  <2>4. b + n \in Nat /\ \A y : y \in DOMAIN table' \/ y \in DOMAIN closed' => y <= b + n
    BY <1>1, <1>2, <2>1, <2>2, <2>3
  <2>5. QED
    BY <2>4 DEF Bounded
<1>14. QED
  BY <1>1, <1>3, <1>10, <1>11, <1>12, <1>13 DEF IInv

LEMMA RestartStep ==
  ASSUME IInv, Restart
  PROVE  IInv' /\ mem' \subseteq mem /\ seq' = seq
<1>1. /\ TypeOK /\ Fresh /\ IsTable(table) /\ InPlace(table, mem, stub)
  BY DEF IInv, TypeOK, IsTable
<1>2. /\ table' = Kept /\ mem' = {table[x].of : x \in Restored} /\ issued' = Top(Numbers)
      /\ pc' = [p \in Positions |-> "idle"] /\ late' = {}
      /\ UNCHANGED <<seq, closed, stub, held>>
      /\ restarts' = restarts + 1 /\ restarts < MaxRestarts
      /\ live' = [p \in Positions |-> IF p \in mem' THEN table[seq[p]].live ELSE live[p]]
  BY DEF Restart
<1>3. /\ DOMAIN Kept \subseteq DOMAIN table /\ \A x \in DOMAIN Kept : Kept[x] = table[x]
  BY DEF Kept, Drop
<1>4. IsTable(table')
  BY <1>1, <1>2, <1>3, DropTable DEF Kept
<1>5. \A x \in Restored : /\ x \in DOMAIN table /\ table[x].of \in mem /\ x = seq[table[x].of]
  BY <1>1, <1>3 DEF Restored, InPlace
<1>6. mem' \subseteq mem /\ Decided' = Decided
  BY <1>2, <1>5 DEF Decided
<1>7. InPlace(table', mem', stub')
  <2>1. ASSUME NEW x \in DOMAIN table', table'[x].kind = "position", table'[x].status = "OPEN"
        PROVE  table'[x].of \in mem'
    <3>1. x \in Restored /\ table'[x] = table[x]
      BY <1>2, <1>3, <2>1 DEF Restored
    <3>2. QED
      BY <1>2, <3>1
  <2>2. QED
    BY <1>1, <1>2, <1>3, <2>1 DEF InPlace
<1>8. issued' \in Nat
  <2>1. DOMAIN closed \subseteq Nat /\ DOMAIN table \subseteq Nat
    BY <1>1 DEF TypeOK
  <2>2. Numbers \subseteq Nat /\ Bounds(Numbers) # {}
    BY <1>3, <2>1 DEF Numbers, Bounds, IInv, Bounded
  <2>3. QED
    BY <1>2, <2>2, TopIsTop
<1>9. TypeOK'
  <2>1. live' \in [Positions -> Live]
    <3>1. ASSUME NEW p \in mem' PROVE table[seq[p]].live \in Live
      <4>1. PICK x \in Restored : p = table[x].of
        BY <1>2, <3>1
      <4>2. QED
        BY <1>1, <1>5, <4>1 DEF IsTable, Row
    <3>2. QED
      BY <1>1, <1>2, <3>1 DEF TypeOK
  <2>2. pc' \in [Positions -> Pc]
    BY <1>2 DEF Pc
  <2>3. restarts' \in 0 .. MaxRestarts
    BY <1>1, <1>2, RowsBounds DEF TypeOK
  <2>4. QED
    BY <1>1, <1>2, <1>4, <1>6, <1>8, <2>1, <2>2, <2>3 DEF TypeOK, IsTable
<1>10. Fresh'
  BY <1>1, <1>2, <1>6 DEF Fresh
<1>11. InPlace(table, mem, stub)'
  BY <1>2, <1>6, <1>7 DEF InPlace
<1>12. Bounded'
  BY <1>2, <1>3 DEF IInv, Bounded
<1>13. QED
  BY <1>2, <1>6, <1>9, <1>10, <1>11, <1>12 DEF IInv

LEMMA InitIInv == Init => IInv
<1> SUFFICES ASSUME Init PROVE IInv
  OBVIOUS
<1>1. TypeOK
  BY EmptySeq, RowsBounds DEF Init, TypeOK, Row, Live, Pc
<1>2. Fresh /\ InPlace(table, mem, stub)
  BY DEF Init, Fresh, InPlace
<1>3. Bounded
  <2>1. 0 \in Nat /\ \A x : x \in DOMAIN table \/ x \in DOMAIN closed => x <= 0
    BY DEF Init
  <2>2. QED
    BY <2>1 DEF Bounded
<1>4. QED
  BY <1>1, <1>2, <1>3 DEF IInv

(* Every step keeps the invariant, and none but a decision tracks anew.    *)
LEMMA Step ==
  ASSUME IInv, [Next]_vars
  PROVE  IInv' /\ mem' \cap Decided \subseteq mem
<1>1. CASE Decide
  BY <1>1, DecideStep
<1>2. CASE Restart
  BY <1>2, RestartStep
<1>3. ASSUME NEW p \in Positions, Entry(p) \/ Exit(p) PROVE IInv' /\ mem' \subseteq mem
  BY <1>3, OnlyDecided, EntryKeeps, ExitKeeps, StepTypes
<1>4. CASE UNCHANGED vars
  BY <1>4 DEF IInv, TypeOK, Fresh, InPlace, Bounded, Decided, vars, rows, pipeline
<1>5. QED
  BY <1>1, <1>2, <1>3, <1>4 DEF Next

(* The inductive invariant holds in every reachable state.                 *)
THEOREM RowsInvariant == Spec => []IInv
<1>1. IInv /\ [Next]_vars => IInv'
  BY Step
<1>2. QED
  BY InitIInv, <1>1, PTL DEF Spec

(* Whatever the two positions share, the tables, the pipelines and the     *)
(* restored state are well formed; in particular MAX(seq) always exists,   *)
(* so that numbers are issued for ever.                                    *)
THEOREM RowsTyped == Spec => []TypeOK
<1>1. IInv => TypeOK
  BY DEF IInv
<1>2. QED
  BY RowsInvariant, <1>1, PTL

(* A position the engine let go of is never tracked again: not by a save   *)
(* that comes late, and not by a restart, because an OPEN canonical row is *)
(* always that of a tracked position and under its own number.             *)
THEOREM RowsStayClosed == Spec => StaysClosed
<1>1. IInv /\ [Next]_vars => [\A p \in Decided : p \notin mem => p \notin mem']_vars
  BY Step
<1>2. QED
  BY RowsInvariant, <1>1, PTL DEF Spec, StaysClosed
-----------------------------------------------------------------------------
(* Numbers are not issued twice.                                           *)

Clash(p) == \E r \in Decided : stub[r] = seq[p]

(* A number no stub has is below the next one and in one of the tables, so *)
(* that a restart stays above it too; only a canonical row can have it.    *)
Numbered ==
    \A p \in Decided : ~Clash(p) =>
        /\ seq[p] <= issued
        /\ seq[p] \in DOMAIN table \/ seq[p] \in DOMAIN closed
        /\ seq[p] \in DOMAIN table => table[seq[p]].kind = "position"

(* A position gets one stub, once.                                         *)
LEMMA StubOnce ==
  ASSUME IInv, NEW p \in Decided, Entry(p) \/ Exit(p)
  PROVE  \A q \in Positions : stub'[q] = stub[q] \/ (q = p /\ stub[q] = 0 /\ pc[q] = "check")
<1>1. CASE StubInserted(p) \/ LotRejected(p)
  BY <1>1, DecidedFacts DEF IInv, Fresh, TypeOK, StubInserted, LotRejected
<1>2. CASE ~(StubInserted(p) \/ LotRejected(p))
  BY <1>2 DEF Entry, Exit, CheckFailed, CheckRefused, EntryFilled, ReplyLost, EntryThrew,
       EntryAnswered, StopPlaced, StopExhausted, Save, Ended, Close, LateSave,
       ExitCorrected, OpsCloseBegin, OpsCloseDone, OpsCloseFails, GiveUp, pipeline
<1>3. QED
  BY <1>1, <1>2

LEMMA NumberedKept ==
  ASSUME IInv, Numbered, SeqsUnique, NEW p \in Decided, Keeps(p), Entry(p) \/ Exit(p)
  PROVE  Numbered' /\ SeqsUnique'
<1>1. seq' = seq /\ issued' = issued /\ Decided' = Decided
  BY DecidedFacts, OnlyDecided
     DEF Decided, Entry, Exit, CheckFailed, CheckRefused, StubInserted, LotRejected, EntryFilled,
         ReplyLost, EntryThrew, EntryAnswered, StopPlaced, StopExhausted, Save, Ended, Close,
         LateSave, ExitCorrected, OpsCloseBegin, OpsCloseDone, OpsCloseFails, GiveUp, rows
<1>2. ASSUME NEW q \in Decided, Clash(q) PROVE Clash(q)'
  <2>1. PICK r \in Decided : stub[r] = seq[q]
    BY <1>2 DEF Clash
  <2>2. r \in Positions /\ seq[q] # 0
    BY DecidedFacts DEF IInv
  <2>3. stub'[r] = stub[r]
    BY <2>1, <2>2, StubOnce
  <2>4. QED
    BY <1>1, <2>1, <2>3 DEF Clash
<1>3. ASSUME NEW q \in Decided, ~Clash(q)'
      PROVE  /\ seq[q] <= issued
             /\ seq[q] \in DOMAIN table' \/ seq[q] \in DOMAIN closed'
             /\ seq[q] \in DOMAIN table' => table'[seq[q]].kind = "position"
  <2>1. /\ seq[q] <= issued
        /\ seq[q] \in DOMAIN table \/ seq[q] \in DOMAIN closed
        /\ seq[q] \in DOMAIN table => table[seq[q]].kind = "position"
    BY <1>2, <1>3 DEF Numbered
  <2>2. seq[q] # stub'[p]
    BY <1>1, <1>3 DEF Clash
  <2>3. CASE seq[q] = seq[p]
    BY <2>1, <2>2, <2>3 DEF Keeps
  <2>4. CASE seq[q] # seq[p]
    BY <2>1, <2>2, <2>4 DEF Keeps, OnlyAt
  <2>5. QED
    BY <2>3, <2>4
<1>4. Numbered'
  BY <1>1, <1>3 DEF Numbered
<1>5. SeqsUnique'
  BY <1>1, <1>2 DEF SeqsUnique, Clash
<1>6. QED
  BY <1>4, <1>5

LEMMA NumberedDecide ==
  ASSUME IInv, Numbered, SeqsUnique, Decide
  PROVE  Numbered' /\ SeqsUnique'
<1> DEFINE p == Len(seq) + 1
           n == issued + 1
           v == [of |-> p, kind |-> "position", status |-> "OPEN", live |-> "none"]
<1>1. /\ issued' = n /\ seq' = Append(seq, n) /\ table' = Put(table, n, v)
      /\ stub' = stub /\ closed' = closed /\ p <= MaxPositions
  BY DEF Decide
<1>2. /\ seq \in Seq(Nat \ {0}) /\ Len(seq) \in Nat /\ issued \in Nat /\ n \in Nat /\ n > issued
  BY LenProperties DEF IInv, TypeOK
<1>3. /\ seq'[p] = n /\ \A q \in Decided : seq'[q] = seq[q] /\ seq[q] \in Nat
      /\ \A q : q \in Decided' <=> q \in Decided \/ q = p
  BY <1>1, <1>2, AppendProperties, DecidedFacts DEF Decided, IInv
<1>4. v.kind = "position"
  OBVIOUS
<1> HIDE DEF p, n, v
<1>5. n \in DOMAIN table' /\ table'[n] = v /\ OnlyAt(table, table', n, n)
  BY <1>1, PutAt, PutOnly
<1>6. ASSUME NEW q \in Decided, ~Clash(q)' PROVE ~Clash(q)
  BY <1>1, <1>3, <1>6 DEF Clash
<1>7. ASSUME NEW q \in Decided', ~Clash(q)'
      PROVE  /\ seq'[q] <= issued'
             /\ seq'[q] \in DOMAIN table' \/ seq'[q] \in DOMAIN closed'
             /\ seq'[q] \in DOMAIN table' => table'[seq'[q]].kind = "position"
  <2>1. CASE q = p
    <3>1. n <= issued'
      BY <1>1, <1>2
    <3>2. seq'[q] = n
      BY <1>3, <2>1
    <3>3. QED
      BY <1>4, <1>5, <3>1, <3>2
  <2>2. CASE q \in Decided
    <3>1. /\ seq[q] <= issued
          /\ seq[q] \in DOMAIN table \/ seq[q] \in DOMAIN closed
          /\ seq[q] \in DOMAIN table => table[seq[q]].kind = "position"
      BY <1>6, <1>7, <2>2 DEF Numbered
    <3>2. seq[q] # n
      BY <1>2, <1>3, <2>2, <3>1
    <3>3. seq[q] <= issued'
      BY <1>1, <1>2, <1>3, <2>2, <3>1
    <3>4. QED
      BY <1>1, <1>3, <1>5, <2>2, <3>1, <3>2, <3>3 DEF OnlyAt
  <2>3. QED
    BY <1>3, <2>1, <2>2
<1>8. Numbered'
  BY <1>7 DEF Numbered
<1>9. ASSUME NEW q \in Decided, seq[q] = n PROVE \E r \in Decided : stub[r] = n
  <2>1. ~(seq[q] <= issued)
    BY <1>2, <1>9
  <2>2. QED
    BY <1>9, <2>1 DEF Numbered, Clash
<1>10. ASSUME NEW a \in Decided', NEW b \in Decided', a # b, seq'[a] = seq'[b]
       PROVE  \E r \in Decided' : stub'[r] = seq'[a]
  <2>1. CASE a \in Decided /\ b \in Decided
    BY <1>1, <1>3, <1>10, <2>1 DEF SeqsUnique
  <2>2. CASE a = p \/ b = p
    <3>1. PICK q \in Decided : seq[q] = n /\ seq'[a] = n
      BY <1>3, <1>10, <2>2
    <3>2. QED
      BY <1>1, <1>3, <1>9, <3>1
  <2>3. QED
    BY <1>3, <2>1, <2>2
<1>11. QED
  BY <1>8, <1>10 DEF SeqsUnique

LEMMA NumberedRestart ==
  ASSUME IInv, Numbered, SeqsUnique, Restart
  PROVE  Numbered' /\ SeqsUnique'
<1>1. table' = Kept /\ issued' = Top(Numbers) /\ UNCHANGED <<seq, closed, stub>>
  BY DEF Restart
<1>2. /\ \A x : x \in DOMAIN Kept <=> x \in DOMAIN table /\ ~Ghost(x)
      /\ \A x \in DOMAIN Kept : Kept[x] = table[x]
  BY DEF Kept, Drop
<1>3. \A x \in Numbers : x <= Top(Numbers)
  <2>1. DOMAIN closed \subseteq Nat /\ DOMAIN table \subseteq Nat
    BY DEF IInv, TypeOK
  <2>2. Numbers \subseteq Nat /\ Bounds(Numbers) # {}
    BY <1>2, <2>1 DEF Numbers, Bounds, IInv, Bounded
  <2>3. QED
    BY <2>2, TopIsTop
<1>4. ASSUME NEW q \in Decided, ~Clash(q)
      PROVE  /\ seq[q] \in Numbers
             /\ seq[q] \in DOMAIN Kept => Kept[seq[q]].kind = "position"
  <2>1. /\ seq[q] \in DOMAIN table \/ seq[q] \in DOMAIN closed
        /\ seq[q] \in DOMAIN table => table[seq[q]].kind = "position"
    BY <1>4 DEF Numbered
  <2>2. QED
    BY <1>2, <2>1 DEF Numbers, Ghost
<1>5. Numbered'
  BY <1>1, <1>3, <1>4 DEF Numbered, Numbers, Clash, Decided
<1>6. QED
  BY <1>1, <1>5 DEF SeqsUnique, Decided

LEMMA NumberedStep ==
  ASSUME IInv, Numbered, SeqsUnique, [Next]_vars
  PROVE  Numbered' /\ SeqsUnique'
<1>1. ASSUME NEW p \in Positions, Entry(p) \/ Exit(p) PROVE Numbered' /\ SeqsUnique'
  BY <1>1, OnlyDecided, EntryKeeps, ExitKeeps, NumberedKept
<1>2. CASE UNCHANGED vars
  BY <1>2 DEF Numbered, SeqsUnique, Clash, Decided, vars, rows, pipeline
<1>3. QED
  BY <1>1, <1>2, NumberedDecide, NumberedRestart DEF Next

(* seqAllocator never issues a number twice, across any number of          *)
(* restarts, as long as binanceOps does not put a stub under it.           *)
THEOREM RowsNumbered == Spec => []SeqsUnique
<1>1. Init => Numbered /\ SeqsUnique
  BY EmptySeq DEF Init, Numbered, SeqsUnique, Decided
<1>2. IInv /\ Numbered /\ SeqsUnique /\ [Next]_vars => (Numbered /\ SeqsUnique)'
  BY NumberedStep
<1>3. QED
  BY RowsInvariant, <1>1, <1>2, PTL DEF Spec
-----------------------------------------------------------------------------
(* A tracked position is let go of only for a reason, if its numbers are   *)
(* its own.                                                                *)

(* An exit runs after its position is forgotten, live records are LIVE     *)
(* after their entry, and at_closed has numbers of positions only.         *)
Tidy ==
    /\ \A p \in Positions :
         /\ p \notin Decided => live[p] = "none"
         /\ pc[p] \in {"check", "entry", "filled", "lost", "stop"} => live[p] # "LIVE"
         /\ pc[p] \in {"close", "closeRow", "closeBare", "query"} => p \notin mem
    /\ \A p \in late : p \notin mem
    /\ \A x \in DOMAIN closed : \E q \in Decided : x = seq[q] \/ x = stub[q]

OpenRow(t, p) ==
    /\ seq[p] \in DOMAIN t /\ t[seq[p]].of = p
    /\ t[seq[p]].kind = "position" /\ t[seq[p]].status = "OPEN"

(* A tracked position with numbers of its own has its canonical row OPEN,  *)
(* not archived, and while its entry goes on the stub the entry expects.   *)
Own ==
    \A p \in mem : ~Shared(p) =>
        /\ OpenRow(table, p) /\ seq[p] \notin DOMAIN closed /\ stub[p] # seq[p]
        /\ pc[p] \in {"entry", "filled", "lost"} => Has(table, stub[p], "PENDING")
        /\ pc[p] = "stop" => Has(table, stub[p], "OPENING")

(* A step of p is p's: nothing changes of the others'.                     *)
LEMMA OthersFramed ==
  ASSUME IInv, NEW p \in Decided, Entry(p) \/ Exit(p), NEW q \in Positions, q # p
  PROVE  /\ pc'[q] = pc[q] /\ stub'[q] = stub[q] /\ live'[q] = live[q] /\ held'[q] = held[q]
         /\ q \in mem' <=> q \in mem
         /\ q \in late' <=> q \in late
<1>1. pc'[q] = pc[q]
  BY DEF IInv, TypeOK, Entry, Exit, CheckFailed, CheckRefused, StubInserted, LotRejected, EntryFilled,
         ReplyLost, EntryThrew, EntryAnswered, StopPlaced, StopExhausted, Fail, Save, Ended, Close,
         LateSave, ExitCorrected, OpsCloseBegin, OpsCloseDone, OpsCloseFails, GiveUp, pipeline
<1>2. stub'[q] = stub[q]
  BY StubOnce
<1>3. live'[q] = live[q]
  BY DEF IInv, TypeOK, Entry, Exit, CheckFailed, CheckRefused, StubInserted, LotRejected, EntryFilled,
         ReplyLost, EntryThrew, EntryAnswered, StopPlaced, StopExhausted, Fail, Save, Ended, Close,
         LateSave, ExitCorrected, OpsCloseBegin, OpsCloseDone, OpsCloseFails, GiveUp
<1>4. held'[q] = held[q]
  BY DEF IInv, TypeOK, Entry, Exit, CheckFailed, CheckRefused, StubInserted, LotRejected, EntryFilled,
         ReplyLost, EntryThrew, EntryAnswered, StopPlaced, StopExhausted, Fail, Save, Ended, Close,
         LateSave, ExitCorrected, OpsCloseBegin, OpsCloseDone, OpsCloseFails, GiveUp, pipeline
<1>5. q \in mem' <=> q \in mem
  BY DEF Entry, Exit, CheckFailed, CheckRefused, StubInserted, LotRejected, EntryFilled,
         ReplyLost, EntryThrew, EntryAnswered, StopPlaced, StopExhausted, Fail, Save, Ended, Close,
         LateSave, ExitCorrected, OpsCloseBegin, OpsCloseDone, OpsCloseFails, GiveUp
<1>6. q \in late' <=> q \in late
  BY DEF Entry, Exit, CheckFailed, CheckRefused, StubInserted, LotRejected, EntryFilled,
         ReplyLost, EntryThrew, EntryAnswered, StopPlaced, StopExhausted, Save, Ended, Close,
         LateSave, ExitCorrected, OpsCloseBegin, OpsCloseDone, OpsCloseFails, GiveUp, pipeline
<1>7. QED
  BY <1>1, <1>2, <1>3, <1>4, <1>5, <1>6

(* Once shared, a position's numbers stay so.                              *)
LEMMA SharedStays ==
  ASSUME IInv, NEW p \in Decided, Shared(p),
         \A q \in Decided : /\ q \in Decided' /\ seq'[q] = seq[q]
                            /\ stub'[q] = stub[q] \/ stub[q] = 0
  PROVE  Shared(p)'
<1>1. PICK q \in Decided : q # p /\ (stub[q] = seq[p] \/ stub[p] \in {seq[q], stub[q]} \ {0})
  BY DEF Shared
<1>2. seq[p] # 0
  BY DecidedFacts DEF IInv
<1>3. stub'[q] = seq'[p] \/ stub'[p] \in {seq'[q], stub'[q]} \ {0}
  BY <1>1, <1>2
<1>4. q \in Decided' \ {p}
  BY <1>1
<1>5. QED
  BY <1>3, <1>4 DEF Shared

LEMMA SharedByStep ==
  ASSUME IInv, NEW p \in Decided, Entry(p) \/ Exit(p), NEW q \in Decided, Shared(q)
  PROVE  Shared(q)'
<1>1. seq' = seq /\ Decided' = Decided
  BY DecidedFacts, OnlyDecided DEF IInv, Decided
<1>2. \A r \in Decided : r \in Positions
  BY DecidedFacts DEF IInv
<1>3. QED
  BY <1>1, <1>2, StubOnce, SharedStays

LEMMA TidyKept ==
  ASSUME IInv, Tidy, NEW p \in Decided, Keeps(p), Entry(p) \/ Exit(p)
  PROVE  Tidy'
<1>1. seq' = seq /\ Decided' = Decided /\ mem' \subseteq mem /\ p \in Positions /\ TypeOK
  BY DecidedFacts, OnlyDecided DEF Decided, IInv
<1>2. /\ pc'[p] \in {"check", "entry", "filled", "lost", "stop"} => live'[p] # "LIVE"
      /\ pc'[p] \in {"close", "closeRow", "closeBare", "query"} => p \notin mem'
      /\ p \in late' => p \notin mem'
  BY <1>1
     DEF TypeOK, Tidy, Entry, Exit, CheckFailed, CheckRefused, StubInserted, LotRejected, EntryFilled,
         ReplyLost, EntryThrew, EntryAnswered, StopPlaced, StopExhausted, Fail, Save, Ended, Close,
         LateSave, ExitCorrected, OpsCloseBegin, OpsCloseDone, OpsCloseFails, GiveUp, pipeline
<1>3. ASSUME NEW q \in Positions
      PROVE  /\ q \notin Decided' => live'[q] = "none"
             /\ pc'[q] \in {"check", "entry", "filled", "lost", "stop"} => live'[q] # "LIVE"
             /\ pc'[q] \in {"close", "closeRow", "closeBare", "query"} => q \notin mem'
             /\ q \in late' => q \notin mem'
  <2>1. CASE q = p
    BY <1>1, <1>2, <2>1
  <2>2. CASE q # p
    BY <1>1, <2>2, OthersFramed DEF Tidy
  <2>3. QED
    BY <2>1, <2>2
<1>4. \A q \in late' : q \in Positions
  BY <1>1, StepTypes, DecidedFacts DEF IInv, TypeOK
<1>5. ASSUME NEW x \in DOMAIN closed'
      PROVE  \E q \in Decided' : x = seq'[q] \/ x = stub'[q]
  <2>1. CASE x = seq[p] \/ x = stub'[p]
    BY <1>1, <2>1
  <2>2. CASE x \in DOMAIN closed
    <3>1. PICK q \in Decided : x = seq[q] \/ x = stub[q]
      BY <2>2 DEF Tidy
    <3>2. x # 0 /\ q \in Positions
      BY <1>1, <2>2, DecidedFacts DEF TypeOK
    <3>3. x = seq'[q] \/ x = stub'[q]
      BY <1>1, <3>1, <3>2, StubOnce
    <3>4. QED
      BY <1>1, <3>3
  <2>3. QED
    BY <2>1, <2>2 DEF Keeps
<1>6. QED
  BY <1>3, <1>4, <1>5 DEF Tidy

LEMMA OpenRowKept ==
  ASSUME NEW p \in Decided, NEW t, OpenRow(t, p), NEW x, x # seq[p], NEW u, OnlyAt(t, u, x, x)
  PROVE  OpenRow(u, p)
  BY DEF OpenRow, OnlyAt

LEMMA OpenRowSaved ==
  ASSUME TypeOK, NEW p \in Decided, p \in mem, NEW t, IsTable(t), OpenRow(t, p),
         NEW lv \in Live, NEW u, u = Saved(t, p, lv)
  PROVE  OpenRow(u, p) /\ OnlyAt(t, u, seq[p], seq[p])
<1>1. /\ OnlyAt(t, u, seq[p], seq[p])
      /\ \/ u = t
         \/ /\ seq[p] \in DOMAIN u /\ u[seq[p]].of = p
            /\ u[seq[p]].kind = "position" /\ u[seq[p]].status = "OPEN"
  BY SavedFacts
<1>2. QED
  BY <1>1 DEF OpenRow

(* A step of another position touches neither row.                         *)
LEMMA OwnOfOthers ==
  ASSUME IInv, Own, SeqsUnique, NEW p \in Decided, Keeps(p), Entry(p) \/ Exit(p),
         NEW q \in mem', q # p, ~Shared(q)'
  PROVE  /\ OpenRow(table', q) /\ seq[q] \notin DOMAIN closed' /\ stub'[q] # seq[q]
         /\ pc'[q] \in {"entry", "filled", "lost"} => Has(table', stub'[q], "PENDING")
         /\ pc'[q] = "stop" => Has(table', stub'[q], "OPENING")
<1>1. seq' = seq /\ Decided' = Decided /\ q \in mem /\ q \in Decided /\ q \in Positions
  BY OnlyDecided, DecidedFacts DEF Decided, IInv, TypeOK
<1>2. ~Shared(q)
  BY <1>1, SharedByStep
<1>3. stub'[q] = stub[q] /\ pc'[q] = pc[q]
  BY <1>1, OthersFramed
<1>4. stub'[p] # seq[q] /\ (stub[q] # 0 => stub[q] # seq[p] /\ stub[q] # stub'[p])
  BY <1>1, <1>3 DEF Shared
<1>5. seq[q] # seq[p]
  <2>1. SUFFICES ASSUME seq[q] = seq[p] PROVE FALSE
    OBVIOUS
  <2>2. PICK r \in Decided : stub[r] = seq[q]
    BY <1>1, <2>1 DEF SeqsUnique
  <2>3. seq[q] # 0
    BY <1>1, DecidedFacts DEF IInv
  <2>4. CASE r = q
    BY <1>2, <1>1, <2>1, <2>2, <2>3, <2>4 DEF Shared
  <2>5. CASE r # q
    BY <1>2, <1>1, <2>2, <2>5 DEF Shared
  <2>6. QED
    BY <2>4, <2>5
<1>6. /\ OpenRow(table, q) /\ seq[q] \notin DOMAIN closed /\ stub[q] # seq[q]
      /\ pc[q] \in {"entry", "filled", "lost"} => Has(table, stub[q], "PENDING")
      /\ pc[q] = "stop" => Has(table, stub[q], "OPENING")
  BY <1>1, <1>2 DEF Own
<1>7. OpenRow(table', q) /\ seq[q] \notin DOMAIN closed'
  BY <1>4, <1>5, <1>6 DEF Keeps, OnlyAt, OpenRow
<1>8. ASSUME NEW status, Has(table, stub[q], status) PROVE Has(table', stub[q], status)
  <2>1. stub[q] # 0
    BY <1>8 DEF Has, IInv, TypeOK
  <2>2. QED
    BY <1>4, <1>8, <2>1 DEF Keeps, OnlyAt, Has
<1>9. QED
  BY <1>3, <1>6, <1>7, <1>8

(* A step of its own leaves them as the next step expects them.            *)
LEMMA OwnOfItself ==
  ASSUME IInv, Own, Tidy, NEW p \in mem, Entry(p) \/ Exit(p), p \in mem', ~Shared(p)
  PROVE  /\ OpenRow(table', p) /\ seq[p] \notin DOMAIN closed' /\ stub'[p] # seq[p]
         /\ pc'[p] \in {"entry", "filled", "lost"} => Has(table', stub'[p], "PENDING")
         /\ pc'[p] = "stop" => Has(table', stub'[p], "OPENING")
<1>1. /\ OpenRow(table, p) /\ seq[p] \notin DOMAIN closed /\ stub[p] # seq[p]
      /\ pc[p] \in {"entry", "filled", "lost"} => Has(table, stub[p], "PENDING")
      /\ pc[p] = "stop" => Has(table, stub[p], "OPENING")
  BY DEF Own
<1>2. /\ p \in Decided /\ p \in Positions /\ TypeOK /\ IsTable(table) /\ live[p] \in Live
      /\ {"none", "LIVE"} \subseteq Live /\ {"PENDING", "OPENING", "EMERGENCY"} \subseteq Status
  BY DecidedFacts DEF IInv, TypeOK, IsTable, Live, Status
<1>3. CASE CheckRefused(p)
  <2>1. /\ table' = Saved(table, p, "none") /\ closed' = closed /\ stub' = stub /\ pc'[p] = "idle"
    BY <1>2, <1>3 DEF CheckRefused, TypeOK
  <2>2. OpenRow(table', p)
    BY <1>1, <1>2, <2>1, OpenRowSaved
  <2>3. QED
    BY <1>1, <2>1, <2>2
<1>4. CASE StubInserted(p)
  <2> DEFINE k == Top(DOMAIN table) + 1
             r == Stub(p, "PENDING")
  <2>1. table' = Put(table, k, r) /\ closed' = closed /\ stub'[p] = k /\ pc'[p] = "entry"
    BY <1>2, <1>4 DEF StubInserted, TypeOK
  <2>2. k # seq[p]
    BY <1>1, TableTop DEF OpenRow, IInv, TypeOK
  <2>3. r.status = "PENDING"
    BY <1>2, StubRow
  <2> HIDE DEF k, r
  <2>4. OnlyAt(table, table', k, k) /\ k \in DOMAIN table' /\ table'[k] = r
    BY <2>1, PutOnly, PutAt
  <2>5. OpenRow(table', p)
    BY <1>1, <1>2, <2>2, <2>4, OpenRowKept
  <2>6. QED
    BY <1>1, <2>1, <2>2, <2>3, <2>4, <2>5 DEF Has
<1>5. CASE EntryFilled(p) \/ ReplyLost(p) \/ Ended(p)
  <2>1. UNCHANGED <<table, closed, stub>>
    BY <1>5 DEF EntryFilled, ReplyLost, Ended, rows
  <2>2. pc'[p] = pc[p] \/ (pc[p] \in {"entry", "filled"} /\ pc'[p] \in {"filled", "lost"})
    BY <1>2, <1>5 DEF EntryFilled, ReplyLost, Ended, TypeOK
  <2>3. QED
    BY <1>1, <2>1, <2>2
<1>6. CASE EntryAnswered(p)
  <2>1. /\ table' = Moved(table, stub[p], "OPENING") /\ closed' = closed
        /\ stub' = stub /\ pc'[p] = "stop"
    BY <1>1, <1>2, <1>6 DEF EntryAnswered, TypeOK
  <2>2. stub[p] \in DOMAIN table
    BY <1>1, <1>6 DEF EntryAnswered, Has
  <2>3. /\ OnlyAt(table, table', stub[p], stub[p]) /\ DOMAIN table' = DOMAIN table
        /\ table'[stub[p]].status = "OPENING"
    BY <1>2, <2>1, <2>2, StatusTable
  <2>4. OpenRow(table', p)
    BY <1>1, <1>2, <2>3, OpenRowKept
  <2>5. QED
    BY <1>1, <2>1, <2>2, <2>3, <2>4 DEF Has
<1>7. CASE StopPlaced(p)
  <2> DEFINE u == Opened(p)
  <2>1. Opens(p) /\ stub[p] \in DOMAIN table
    BY <1>1, <1>7 DEF StopPlaced, Opens, Has
  <2>2. /\ table' = Saved(u, p, "LIVE") /\ closed' = closed /\ stub' = stub /\ pc'[p] = "idle"
    BY <1>2, <1>7, <2>1 DEF StopPlaced, TypeOK
  <2>3. IsTable(u) /\ OnlyAt(table, u, stub[p], stub[p])
    BY <1>2, <2>1, OpenedFacts
  <2> HIDE DEF u
  <2>4. OpenRow(u, p)
    BY <1>1, <1>2, <2>3, OpenRowKept
  <2>5. OpenRow(table', p)
    BY <1>2, <2>2, <2>3, <2>4, OpenRowSaved
  <2>6. QED
    BY <1>1, <2>2, <2>5
<1>8. CASE StopExhausted(p)
  <2> DEFINE u == Moved(table, stub[p], "EMERGENCY")
  <2>1. Has(table, stub[p], "OPENING")
    BY <1>1, <1>8 DEF StopExhausted
  <2>2. /\ table' = Saved(u, p, "none") /\ closed' = closed /\ stub' = stub /\ pc'[p] = "idle"
    BY <1>2, <1>8, <2>1 DEF StopExhausted, Fail, TypeOK
  <2>3. IsTable(u) /\ OnlyAt(table, u, stub[p], stub[p])
    BY <1>2, StatusTable
  <2> HIDE DEF u
  <2>4. OpenRow(u, p)
    BY <1>1, <1>2, <2>3, OpenRowKept
  <2>5. OpenRow(table', p)
    BY <1>2, <2>2, <2>3, <2>4, OpenRowSaved
  <2>6. QED
    BY <1>1, <2>2, <2>5
<1>9. CASE Save(p)
  <2>1. table' = Saved(table, p, live[p]) /\ UNCHANGED <<closed, stub, pc>>
    BY <1>9 DEF Save, pipeline
  <2>2. OpenRow(table', p) /\ OnlyAt(table, table', seq[p], seq[p])
    BY <1>1, <1>2, <2>1, OpenRowSaved
  <2>3. QED
    BY <1>1, <2>1, <2>2 DEF Has, OnlyAt
<1>10. ~(CheckFailed(p) \/ LotRejected(p) \/ EntryThrew(p) \/ Close(p))
  BY DEF CheckFailed, LotRejected, EntryThrew, Fail, Close
<1>11. ~(LateSave(p) \/ ExitCorrected(p) \/ OpsCloseBegin(p) \/ OpsCloseDone(p)
         \/ OpsCloseFails(p) \/ GiveUp(p))
  BY <1>2 DEF Tidy, LateSave, ExitCorrected, OpsCloseBegin, OpsCloseDone, OpsCloseFails, GiveUp
<1>12. QED
  BY <1>3, <1>4, <1>5, <1>6, <1>7, <1>8, <1>9, <1>10, <1>11 DEF Entry, Exit

LEMMA OwnKept ==
  ASSUME IInv, Own, Tidy, SeqsUnique, NEW p \in Decided, Keeps(p), Entry(p) \/ Exit(p)
  PROVE  Own'
<1>1. seq' = seq /\ mem' \subseteq mem /\ mem \subseteq Decided
  BY DecidedFacts, OnlyDecided DEF IInv, TypeOK
<1>2. ASSUME NEW q \in mem', ~Shared(q)'
      PROVE  /\ OpenRow(table', q) /\ seq[q] \notin DOMAIN closed' /\ stub'[q] # seq[q]
             /\ pc'[q] \in {"entry", "filled", "lost"} => Has(table', stub'[q], "PENDING")
             /\ pc'[q] = "stop" => Has(table', stub'[q], "OPENING")
  <2>1. CASE q = p
    BY <1>1, <1>2, <2>1, SharedByStep, OwnOfItself
  <2>2. CASE q # p
    BY <1>2, <2>2, OwnOfOthers
  <2>3. QED
    BY <2>1, <2>2
<1>3. \A q \in mem' : OpenRow(table', q) => OpenRow(table, q)'
  BY <1>1 DEF OpenRow
<1>4. QED
  BY <1>1, <1>2, <1>3 DEF Own, Has

LEMMA OwnDecide ==
  ASSUME IInv, Own, Tidy, Numbered, Decide
  PROVE  Own' /\ Tidy'
<1> DEFINE p == Len(seq) + 1
           n == issued + 1
           v == [of |-> p, kind |-> "position", status |-> "OPEN", live |-> "none"]
<1>1. /\ issued' = n /\ seq' = Append(seq, n) /\ table' = Put(table, n, v) /\ mem' = mem \cup {p}
      /\ UNCHANGED <<stub, closed, live, late>> /\ p <= MaxPositions
      /\ pc' = [pc EXCEPT ![p] = "check"]
  BY DEF Decide
<1>2. /\ seq \in Seq(Nat \ {0}) /\ Len(seq) \in Nat /\ issued \in Nat /\ n \in Nat \ {0} /\ n > issued
      /\ TypeOK /\ Fresh
  BY LenProperties DEF IInv, TypeOK
<1>3. /\ seq'[p] = n /\ \A q \in Decided : seq'[q] = seq[q] /\ seq[q] \in Nat /\ q \in Positions
      /\ \A q : q \in Decided' <=> q \in Decided \/ q = p
      /\ p \in Positions /\ p \notin Decided
  BY <1>1, <1>2, RowsBounds, AppendProperties, DecidedFacts DEF Decided, Positions
<1>4. /\ v.of = p /\ v.kind = "position" /\ v.status = "OPEN"
  OBVIOUS
<1> HIDE DEF p, n, v
<1>5. n \in DOMAIN table' /\ table'[n] = v /\ OnlyAt(table, table', n, n)
  BY <1>1, PutAt, PutOnly
<1>6. stub[p] = 0 /\ pc'[p] = "check" /\ \A q \in Positions : q # p => pc'[q] = pc[q]
  BY <1>1, <1>2, <1>3 DEF Fresh, TypeOK
<1>7. ASSUME NEW q \in mem', ~Shared(q)'
      PROVE  /\ OpenRow(table, q)' /\ seq'[q] \notin DOMAIN closed' /\ stub'[q] # seq'[q]
             /\ pc'[q] \in {"entry", "filled", "lost"} => Has(table', stub'[q], "PENDING")
             /\ pc'[q] = "stop" => Has(table', stub'[q], "OPENING")
  <2>1. CASE q = p
    <3>1. OpenRow(table, q)'
      BY <1>3, <1>4, <1>5, <2>1 DEF OpenRow
    <3>2. n \notin DOMAIN closed
      <4>1. SUFFICES ASSUME n \in DOMAIN closed PROVE FALSE
        OBVIOUS
      <4>2. PICK r \in Decided : n = seq[r] \/ n = stub[r]
        BY <4>1 DEF Tidy
      <4>3. \A a \in Decided : stub[a] # n
        BY <1>1, <1>3, <1>7, <2>1 DEF Shared
      <4>4. ~(seq[r] <= issued)
        BY <1>2, <1>3, <4>2, <4>3
      <4>5. QED
        BY <4>2, <4>3, <4>4 DEF Numbered, Clash
    <3>3. QED
      BY <1>1, <1>2, <1>3, <1>6, <2>1, <3>1, <3>2
  <2>2. CASE q # p
    <3>1. q \in mem /\ q \in Decided /\ q \in Positions
      BY <1>1, <1>2, <1>3, <2>2 DEF TypeOK
    <3>2. ~Shared(q)
      BY <1>1, <1>3, <1>7, <3>1, SharedStays
    <3>3. /\ OpenRow(table, q) /\ seq[q] \notin DOMAIN closed /\ stub[q] # seq[q]
          /\ pc[q] \in {"entry", "filled", "lost"} => Has(table, stub[q], "PENDING")
          /\ pc[q] = "stop" => Has(table, stub[q], "OPENING")
      BY <3>1, <3>2 DEF Own
    <3>4. ~Clash(q)
      BY <3>1, <3>2, <3>3 DEF Clash, Shared
    <3>5. seq[q] # n
      <4>1. seq[q] <= issued
        BY <3>1, <3>4 DEF Numbered
      <4>2. QED
        BY <1>2, <1>3, <3>1, <4>1
    <3>6. stub[q] # n
      BY <1>1, <1>2, <1>3, <1>7, <2>2, <3>1 DEF Shared
    <3>7. OpenRow(table, q)'
      BY <1>3, <1>5, <3>1, <3>3, <3>5 DEF OpenRow, OnlyAt
    <3>8. \A status : Has(table, stub[q], status) => Has(table', stub[q], status)
      BY <1>5, <3>6 DEF Has, OnlyAt
    <3>9. QED
      BY <1>1, <1>3, <1>6, <2>2, <3>1, <3>3, <3>7, <3>8
  <2>3. QED
    BY <2>1, <2>2
<1>8. Own'
  BY <1>7 DEF Own, Has
<1>9. ASSUME NEW x \in DOMAIN closed' PROVE \E q \in Decided' : x = seq'[q] \/ x = stub'[q]
  <2>1. PICK q \in Decided : x = seq[q] \/ x = stub[q]
    BY <1>1 DEF Tidy
  <2>2. q \in Decided' /\ (x = seq'[q] \/ x = stub'[q])
    BY <1>1, <1>3, <2>1
  <2>3. QED
    BY <2>2
<1>10. ASSUME NEW q \in Positions
       PROVE  /\ q \notin Decided' => live'[q] = "none"
              /\ pc'[q] \in {"check", "entry", "filled", "lost", "stop"} => live'[q] # "LIVE"
              /\ pc'[q] \in {"close", "closeRow", "closeBare", "query"} => q \notin mem'
  <2>1. CASE q = p
    BY <1>1, <1>3, <1>6, <2>1 DEF Tidy
  <2>2. CASE q # p
    BY <1>1, <1>3, <1>6, <2>2 DEF Tidy
  <2>3. QED
    BY <2>1, <2>2
<1>11. \A q \in late' : q \notin mem'
  BY <1>1, <1>2, <1>3 DEF Tidy, TypeOK
<1>12. QED
  BY <1>8, <1>9, <1>10, <1>11 DEF Tidy

LEMMA OwnRestart ==
  ASSUME IInv, Own, Tidy, Restart
  PROVE  /\ Own' /\ Tidy'
         /\ \A p \in mem : ~Shared(p) => p \in mem'
<1>1. /\ table' = Kept /\ mem' = {table[x].of : x \in Restored} /\ late' = {}
      /\ pc' = [p \in Positions |-> "idle"] /\ UNCHANGED <<seq, closed, stub, held>>
      /\ live' = [p \in Positions |-> IF p \in mem' THEN table[seq[p]].live ELSE live[p]]
  BY DEF Restart
<1>2. /\ \A x : x \in DOMAIN Kept <=> x \in DOMAIN table /\ ~Ghost(x)
      /\ \A x \in DOMAIN Kept : Kept[x] = table[x]
  BY DEF Kept, Drop
<1>3. mem' \subseteq mem /\ mem \subseteq Decided /\ Decided' = Decided /\ \A p \in Decided : p \in Positions
  BY RestartStep, DecidedFacts DEF IInv, TypeOK, Decided
<1>4. ASSUME NEW p \in mem, ~Shared(p)
      PROVE  OpenRow(Kept, p) /\ seq[p] \notin DOMAIN closed /\ stub[p] # seq[p]
  <2>1. OpenRow(table, p) /\ seq[p] \notin DOMAIN closed /\ stub[p] # seq[p]
    BY <1>4 DEF Own
  <2>2. seq[p] \in DOMAIN Kept /\ Kept[seq[p]] = table[seq[p]]
    BY <1>2, <2>1 DEF Ghost, OpenRow
  <2>3. QED
    BY <2>1, <2>2 DEF OpenRow
<1>5. ASSUME NEW p \in mem, ~Shared(p) PROVE p \in mem'
  <2>1. OpenRow(Kept, p)
    BY <1>4, <1>5
  <2>2. seq[p] \in Restored /\ table[seq[p]].of = p
    BY <1>2, <2>1 DEF OpenRow, Restored
  <2>3. QED
    BY <1>1, <2>2
<1>6. \A p \in Decided : Shared(p)' <=> Shared(p)
  BY <1>1, <1>3 DEF Shared
<1>7. Own'
  <2>1. ASSUME NEW p \in mem', ~Shared(p)'
        PROVE  OpenRow(table, p)' /\ seq'[p] \notin DOMAIN closed' /\ stub'[p] # seq'[p] /\ pc'[p] = "idle"
    <3>1. OpenRow(Kept, p) /\ seq[p] \notin DOMAIN closed /\ stub[p] # seq[p] /\ pc'[p] = "idle"
      BY <1>1, <1>3, <1>4, <1>6, <2>1
    <3>2. QED
      BY <1>1, <3>1 DEF OpenRow
  <2>2. QED
    BY <2>1 DEF Own
<1>8. Tidy'
  <2>1. \A p \in Positions : p \notin Decided' => live'[p] = "none"
    BY <1>1, <1>3 DEF Tidy
  <2>2. QED
    BY <1>1, <1>3, <2>1 DEF Tidy
<1>9. QED
  BY <1>5, <1>7, <1>8

KInv == IInv /\ Numbered /\ SeqsUnique /\ Own /\ Tidy

LEMMA KInvStep ==
  ASSUME KInv, [Next]_vars
  PROVE  KInv'
<1> USE DEF KInv
<1>1. IInv' /\ Numbered' /\ SeqsUnique'
  BY Step, NumberedStep
<1>2. ASSUME NEW p \in Positions, Entry(p) \/ Exit(p) PROVE Own' /\ Tidy'
  BY <1>2, OnlyDecided, EntryKeeps, ExitKeeps, OwnKept, TidyKept
<1>3. UNCHANGED vars => Own' /\ Tidy'
  BY DEF Own, Tidy, OpenRow, Has, Shared, Decided, vars, rows, pipeline
<1>4. Decide => Own' /\ Tidy'
  BY OwnDecide
<1>5. Restart => Own' /\ Tidy'
  BY OwnRestart
<1>6. Own' /\ Tidy'
  BY <1>2, <1>3, <1>4, <1>5 DEF Next
<1>7. QED
  BY <1>1, <1>6

(* Which steps let go of a position the exchange holds, and how.           *)
LEMMA LetGo ==
  ASSUME KInv, NEW p \in mem, p \notin mem', Exposed(p), ~Shared(p), Next
  PROVE  pc'[p] # "idle"
<1>1. /\ OpenRow(table, p) /\ p \in Decided /\ p \in Positions /\ TypeOK /\ IInv
      /\ pc[p] = "filled" => Has(table, stub[p], "PENDING")
      /\ pc[p] = "stop" => Has(table, stub[p], "OPENING")
      /\ pc[p] \in {"check", "entry", "filled", "lost", "stop"} => live[p] # "LIVE"
  BY DecidedFacts DEF KInv, Own, Tidy, IInv, TypeOK
<1>2. held[p] /\ held'[p] /\ (live[p] = "LIVE" \/ pc[p] \in {"filled", "stop"})
  BY DEF Exposed
<1>3. ~Decide /\ ~Restart
  BY OwnRestart DEF Decide, KInv
<1>4. PICK q \in Positions : Entry(q) \/ Exit(q)
  BY <1>3 DEF Next
<1>5. q = p
  BY <1>1, <1>4, OnlyDecided, OthersFramed
<1>6. ~CheckFailed(p) /\ ~LotRejected(p) /\ ~EntryThrew(p)
  BY <1>1, <1>2 DEF CheckFailed, LotRejected, EntryThrew
<1>7. ~EntryAnswered(p)
  BY <1>1, <1>2 DEF EntryAnswered
<1>8. ~StopPlaced(p)
  BY <1>1, <1>2 DEF StopPlaced, Opens
<1>9. ~StopExhausted(p)
  <2>1. SUFFICES ASSUME StopExhausted(p) PROVE FALSE
    OBVIOUS
  <2>2. PICK ok \in BOOLEAN :
          /\ held' = [held EXCEPT ![p] = held[p] /\ ~ok]
          /\ ok \/ mem' = mem
    BY <1>1, <2>1 DEF StopExhausted
  <2>3. held'[p] = (held[p] /\ ~ok)
    BY <1>1, <2>2 DEF TypeOK
  <2>4. QED
    BY <1>2, <2>2, <2>3
<1>10. Close(p)
  BY <1>4, <1>5, <1>6, <1>7, <1>8, <1>9
     DEF Entry, Exit, CheckRefused, StubInserted, EntryFilled, ReplyLost, Save, Ended, LateSave,
         ExitCorrected, OpsCloseBegin, OpsCloseDone, OpsCloseFails, GiveUp, pipeline
<1>11. CASE live[p] = "LIVE"
  BY <1>1, <1>10, <1>11 DEF Close, TypeOK
<1>12. CASE live[p] # "LIVE"
  BY <1>2, <1>10, <1>12 DEF Close
<1>13. QED
  BY <1>11, <1>12

(* A position the exchange is known to hold is let go of only with its     *)
(* entry or its exit still running, whatever fails and however often the   *)
(* engine restarts, if no other position uses one of its numbers: sharing  *)
(* them is the one way to lose it.                                         *)
THEOREM RowsKept == Spec => KeptUnlessShared
<1>1. Init => KInv
  <2>1. Init => Numbered /\ SeqsUnique /\ Own /\ Tidy
    BY EmptySeq DEF Init, Numbered, SeqsUnique, Own, Tidy, Decided
  <2>2. QED
    BY <2>1, InitIInv DEF KInv
<1>2. KInv /\ [Next]_vars => KInv'
  BY KInvStep
<1>3. KInv /\ [Next]_vars =>
        [\A p \in mem \ mem' : Exposed(p) => pc'[p] # "idle" \/ Shared(p)]_vars
  BY LetGo
<1>4. QED
  BY <1>1, <1>2, <1>3, PTL DEF Spec, KeptUnlessShared
-----------------------------------------------------------------------------
(* An order that has not been answered is not known to have executed, but  *)
(* one that has not executed is not held.                                  *)
Unsent ==
    \A p \in Positions : p \notin Decided \/ pc[p] \in {"check", "entry"} => ~held[p]

LEMMA UnsentStep ==
  ASSUME KInv, Unsent, [Next]_vars
  PROVE  Unsent'
<1>0. IInv /\ TypeOK /\ Fresh /\ TypeOK'
  BY KInvStep DEF KInv, IInv
<1>1. ASSUME NEW q \in Positions, Entry(q) \/ Exit(q) PROVE Unsent'
  <2>1. seq' = seq /\ q \in Decided /\ \A p \in Positions : p # q => pc'[p] = pc[p] /\ held'[p] = held[p]
    BY <1>0, <1>1, OnlyDecided, OthersFramed
  <2>2. held'[q] => held[q] \/ pc'[q] = "filled"
    BY <1>0, <1>1
       DEF TypeOK, Entry, Exit, CheckFailed, CheckRefused, StubInserted, LotRejected, EntryFilled,
           ReplyLost, EntryThrew, EntryAnswered, StopPlaced, StopExhausted, Save, Ended, Close,
           LateSave, ExitCorrected, OpsCloseBegin, OpsCloseDone, OpsCloseFails, GiveUp, pipeline
  <2>3. pc'[q] \in {"check", "entry"} => pc[q] \in {"check", "entry"}
    BY <1>0, <1>1
       DEF TypeOK, Entry, Exit, CheckFailed, CheckRefused, StubInserted, LotRejected, EntryFilled,
           ReplyLost, EntryThrew, EntryAnswered, StopPlaced, StopExhausted, Fail, Save, Ended, Close,
           LateSave, ExitCorrected, OpsCloseBegin, OpsCloseDone, OpsCloseFails, GiveUp, pipeline
  <2>4. QED
    BY <2>1, <2>2, <2>3 DEF Unsent, Decided
<1>2. UNCHANGED vars => Unsent'
  BY DEF Unsent, Decided, vars, pipeline
<1>3. ASSUME Decide PROVE Unsent'
  <2>1. Len(seq) + 1 \in Positions /\ Len(seq) + 1 \notin Decided /\ Len(seq) \in Nat
    BY <1>0, <1>3, LenProperties, RowsBounds DEF TypeOK, Decide, Positions, Decided
  <2>2. seq' = Append(seq, issued + 1) /\ held' = held /\ pc' = [pc EXCEPT ![Len(seq) + 1] = "check"]
    BY <1>3 DEF Decide
  <2>3. Decided \subseteq Decided'
    BY <1>0, <2>2, AppendProperties, LenProperties DEF Decided, TypeOK
  <2>4. QED
    BY <1>0, <2>1, <2>2, <2>3 DEF Unsent, TypeOK
<1>4. Restart => Unsent'
  BY DEF Restart, Unsent, Decided
<1>5. QED
  BY <1>1, <1>2, <1>3, <1>4 DEF Next

(* Which steps fail the entry of a position the exchange holds.            *)
LEMMA FailsHeld ==
  ASSUME KInv, Unsent, NEW p \in mem, p \notin mem', ~Shared(p), Next,
         live[p] # "failed", live'[p] = "failed", held'[p]
  PROVE  pc[p] = "lost"
<1>1. /\ p \in Decided /\ p \in Positions /\ TypeOK /\ IInv
      /\ pc[p] = "filled" => Has(table, stub[p], "PENDING")
      /\ pc[p] = "stop" => Has(table, stub[p], "OPENING")
  BY DecidedFacts DEF KInv, Own, IInv, TypeOK
<1>2. ~Decide /\ ~Restart
  BY OwnRestart DEF Decide, KInv
<1>3. PICK q \in Positions : Entry(q) \/ Exit(q)
  BY <1>2 DEF Next
<1>4. q = p
  BY <1>1, <1>3, OnlyDecided, OthersFramed
<1>5. ~CheckFailed(p) /\ ~LotRejected(p)
  BY <1>1 DEF CheckFailed, LotRejected, Unsent
<1>6. ~EntryAnswered(p)
  BY <1>1 DEF EntryAnswered
<1>7. ~StopPlaced(p)
  BY <1>1 DEF StopPlaced, Opens
<1>8. ~StopExhausted(p)
  <2>1. SUFFICES ASSUME StopExhausted(p) PROVE FALSE
    OBVIOUS
  <2>2. PICK ok \in BOOLEAN :
          /\ held' = [held EXCEPT ![p] = held[p] /\ ~ok]
          /\ ok \/ mem' = mem
    BY <1>1, <2>1 DEF StopExhausted
  <2>3. held'[p] = (held[p] /\ ~ok)
    BY <1>1, <2>2 DEF TypeOK
  <2>4. QED
    BY <2>2, <2>3
<1>9. ~Close(p)
  BY DEF Close
<1>10. EntryThrew(p)
  BY <1>3, <1>4, <1>5, <1>6, <1>7, <1>8, <1>9
     DEF Entry, Exit, CheckRefused, StubInserted, EntryFilled, ReplyLost, Save, Ended, LateSave,
         ExitCorrected, OpsCloseBegin, OpsCloseDone, OpsCloseFails, GiveUp, pipeline
<1>11. QED
  BY <1>1, <1>10 DEF EntryThrew, Unsent

(* The clean-up of failed entries removes what the exchange holds in two   *)
(* ways only: the answer to the entry order was lost, or another position  *)
(* uses one of the numbers.  With stubs that keep to numbers of their own  *)
(* the promise of the clean-up is as good as the exchange's answers.       *)
THEOREM ZombiesOfSharing == Spec => ZombiesExplained
<1>1. Init => KInv /\ Unsent
  <2>1. Init => Numbered /\ SeqsUnique /\ Own /\ Tidy /\ Unsent
    BY EmptySeq DEF Init, Numbered, SeqsUnique, Own, Tidy, Unsent, Decided
  <2>2. QED
    BY <2>1, InitIInv DEF KInv
<1>2. KInv /\ Unsent /\ [Next]_vars => (KInv /\ Unsent)'
  BY KInvStep, UnsentStep
<1>3. KInv /\ Unsent /\ [Next]_vars =>
        [\A p \in mem \ mem' :
           live[p] # "failed" /\ live'[p] = "failed" /\ held'[p]
             => pc[p] = "lost" \/ Shared(p)]_vars
  BY FailsHeld
<1>4. QED
  BY <1>1, <1>2, <1>3, PTL DEF Spec, ZombiesExplained
=============================================================================
