-------------------------- MODULE OrderLock_proofs --------------------------
(***************************************************************************)
(* For any number of keys and operations: as many operations are inside as *)
(* leases ran out, and one more while a lease runs.                        *)
(***************************************************************************)
EXTENDS OrderLock, FiniteSetTheorems, TLAPS

Running(k) == IF lease[k] = "runs" THEN 1 ELSE 0

Counted(k) ==
    /\ IsFiniteSet(inside[k])
    /\ Cardinality(inside[k]) <= expiries[k] + Running(k)

LockInv == LockTypeOK /\ \A k \in Key : Counted(k)
-----------------------------------------------------------------------------
(* Where nothing happens to a key its count stands.                        *)
LEMMA Untouched ==
    ASSUME NEW k, Counted(k), lease'[k] = lease[k], inside'[k] = inside[k],
           expiries'[k] = expiries[k]
    PROVE  Counted(k)'
BY DEF Counted, Running

LEMMA SizeStep ==
    ASSUME NEW S, IsFiniteSet(S), NEW x
    PROVE  /\ IsFiniteSet(S \cup {x}) /\ IsFiniteSet(S \ {x})
           /\ Cardinality(S) \in Nat
           /\ Cardinality(S \cup {x}) \in {Cardinality(S), Cardinality(S) + 1}
           /\ x \in S => Cardinality(S \ {x}) = Cardinality(S) - 1
<1>1. Cardinality(S) \in Nat  BY FS_CardinalityType
<1>2. /\ IsFiniteSet(S \cup {x})
      /\ Cardinality(S \cup {x}) \in {Cardinality(S), Cardinality(S) + 1}
  BY FS_AddElement
<1>3. IsFiniteSet(S \ {x}) /\ (x \in S => Cardinality(S \ {x}) = Cardinality(S) - 1)
  BY FS_RemoveElement
<1>. QED  BY <1>1, <1>2, <1>3

LEMMA AcquireKept ==
    ASSUME NEW k \in Key, NEW o \in Op, LockInv, Acquire(k, o)
    PROVE  LockInv'
<1>1. LockTypeOK'  BY DEF LockInv, LockTypeOK, Acquire
<1>2. ASSUME NEW j \in Key  PROVE Counted(j)'
  <2>0. Counted(j) /\ Counted(k) /\ expiries[k] \in Nat  BY DEF LockInv, LockTypeOK
  <2>1. CASE j # k
    BY <2>0, <2>1, Untouched DEF Acquire, LockInv, LockTypeOK
  <2>2. CASE j = k
    <3>1. Cardinality(inside[k]) <= expiries[k] /\ IsFiniteSet(inside[k])
      BY <2>0, <2>2 DEF Acquire, Refuses, Counted, Running
    <3>2. /\ IsFiniteSet(inside[k] \cup {o}) /\ Cardinality(inside[k]) \in Nat
          /\ Cardinality(inside[k] \cup {o}) \in {Cardinality(inside[k]), Cardinality(inside[k]) + 1}
      BY <3>1, SizeStep
    <3>3. /\ inside'[k] = inside[k] \cup {o} /\ lease'[k] = "runs"
          /\ expiries'[k] = expiries[k]
      BY DEF Acquire, LockInv, LockTypeOK
    <3>. QED  BY <2>0, <2>2, <3>1, <3>2, <3>3 DEF Counted, Running
  <2>. QED  BY <2>1, <2>2
<1>. QED  BY <1>1, <1>2 DEF LockInv

LEMMA ReleaseKept ==
    ASSUME NEW k \in Key, NEW o \in Op, LockInv, Release(k, o)
    PROVE  LockInv'
<1>1. LockTypeOK'  BY DEF LockInv, LockTypeOK, Release
<1>2. ASSUME NEW j \in Key  PROVE Counted(j)'
  <2>0. Counted(j) /\ Counted(k) /\ expiries[k] \in Nat  BY DEF LockInv, LockTypeOK
  <2>1. CASE j # k
    BY <2>0, <2>1, Untouched DEF Release, LockInv, LockTypeOK
  <2>2. CASE j = k
    <3>0. IsFiniteSet(inside[k]) /\ Cardinality(inside[k]) \in Nat
      BY <2>0, SizeStep DEF Counted
    <3>1. Cardinality(inside[k]) <= expiries[k] + 1 /\ IsFiniteSet(inside[k])
      BY <2>0, <3>0 DEF Counted, Running
    <3>2. /\ IsFiniteSet(inside[k] \ {o}) /\ Cardinality(inside[k]) \in Nat
          /\ Cardinality(inside[k] \ {o}) = Cardinality(inside[k]) - 1
      BY <3>1, SizeStep DEF Release
    <3>3. /\ inside'[k] = inside[k] \ {o} /\ lease'[k] = "none"
          /\ expiries'[k] = expiries[k]
      BY DEF Release, LockInv, LockTypeOK
    <3>. QED  BY <2>0, <2>2, <3>1, <3>2, <3>3 DEF Counted, Running
  <2>. QED  BY <2>1, <2>2
<1>. QED  BY <1>1, <1>2 DEF LockInv

LEMMA RenewKept ==
    ASSUME NEW k \in Key, NEW o \in Op, LockInv, Renew(k, o)
    PROVE  LockInv'
<1>1. LockTypeOK'  BY DEF LockInv, LockTypeOK, Renew
<1>2. ASSUME NEW j \in Key  PROVE Counted(j)'
  <2>1. /\ Counted(j) /\ expiries[j] \in Nat /\ lease'[j] \in {lease[j], "runs"}
        /\ inside'[j] = inside[j] /\ expiries'[j] = expiries[j]
    BY DEF Renew, LockInv, LockTypeOK
  <2>2. Cardinality(inside[j]) \in Nat  BY <2>1, FS_CardinalityType DEF Counted
  <2>. QED  BY <2>1, <2>2 DEF Counted, Running
<1>. QED  BY <1>1, <1>2 DEF LockInv

LEMMA RunsOutKept ==
    ASSUME NEW k \in Key, LockInv, RunsOut(k)
    PROVE  LockInv'
<1>1. LockTypeOK'  BY DEF LockInv, LockTypeOK, RunsOut
<1>2. ASSUME NEW j \in Key  PROVE Counted(j)'
  <2>0. Counted(j) /\ Counted(k) /\ expiries[k] \in Nat  BY DEF LockInv, LockTypeOK
  <2>1. CASE j # k
    BY <2>0, <2>1, Untouched DEF RunsOut, LockInv, LockTypeOK
  <2>2. CASE j = k
    <3>1. /\ inside'[k] = inside[k] /\ lease[k] = "runs" /\ lease'[k] = "ran_out"
          /\ expiries'[k] = expiries[k] + 1
      BY DEF RunsOut, LockInv, LockTypeOK
    <3>. QED  BY <2>0, <2>2, <3>1 DEF Counted, Running
  <2>. QED  BY <2>1, <2>2
<1>. QED  BY <1>1, <1>2 DEF LockInv

LEMMA LostKept ==
    ASSUME LockInv, LockLost
    PROVE  LockInv'
<1>1. LockTypeOK'  BY DEF LockInv, LockTypeOK, LockLost
<1>2. ASSUME NEW j \in Key  PROVE Counted(j)'
  <2>1. /\ inside'[j] = {} /\ lease'[j] = "none" /\ expiries'[j] = expiries[j]
        /\ expiries[j] \in Nat
    BY DEF LockLost, LockInv, LockTypeOK
  <2>. QED  BY <2>1, FS_EmptySet DEF Counted, Running
<1>. QED  BY <1>1, <1>2 DEF LockInv

LEMMA InitCounted == LockInit => LockInv
<1>. SUFFICES ASSUME LockInit  PROVE LockInv  OBVIOUS
<1>1. LockTypeOK  BY DEF LockInit, LockTypeOK
<1>2. ASSUME NEW j \in Key  PROVE Counted(j)
  <2>1. inside[j] = {} /\ lease[j] = "none" /\ expiries[j] = 0  BY DEF LockInit
  <2>. QED  BY <2>1, FS_EmptySet DEF Counted, Running
<1>. QED  BY <1>1, <1>2 DEF LockInv

LEMMA OverlapFollows == LockInv => Overlap
<1>. SUFFICES ASSUME LockInv, NEW k \in Key
              PROVE  Cardinality(inside[k]) <= 1 + expiries[k]
  BY DEF Overlap
<1>1. Counted(k) /\ expiries[k] \in Nat  BY DEF LockInv, LockTypeOK
<1>2. Cardinality(inside[k]) \in Nat  BY <1>1, FS_CardinalityType DEF Counted
<1>. QED  BY <1>1, <1>2 DEF Counted, Running

(* However leases run out and are overwritten and released by others, as   *)
(* many operations overlap on a symbol as leases ran out, and one more.    *)
THEOREM LocksApart == LockSpec => [](LockTypeOK /\ Overlap)
<1>1. LockInit => LockInv  BY InitCounted
<1>2. LockInv /\ [LockNext]_lockVars => LockInv'
  <2>. SUFFICES ASSUME LockInv, [LockNext]_lockVars  PROVE LockInv'  OBVIOUS
  <2>1. ASSUME NEW k \in Key, NEW o \in Op, Acquire(k, o)  PROVE LockInv'
    BY <2>1, AcquireKept
  <2>2. ASSUME NEW k \in Key, NEW o \in Op, Release(k, o)  PROVE LockInv'
    BY <2>2, ReleaseKept
  <2>3. ASSUME NEW k \in Key, NEW o \in Op, Renew(k, o)  PROVE LockInv'
    BY <2>3, RenewKept
  <2>4. ASSUME NEW k \in Key, RunsOut(k)  PROVE LockInv'
    BY <2>4, RunsOutKept
  <2>5. CASE LockLost  BY <2>5, LostKept
  <2>6. CASE UNCHANGED lockVars
    BY <2>6 DEF lockVars, LockInv, LockTypeOK, Counted, Running
  <2>. QED  BY <2>1, <2>2, <2>3, <2>4, <2>5, <2>6 DEF LockNext
<1>3. LockInv => LockTypeOK /\ Overlap  BY OverlapFollows DEF LockInv
<1>. QED  BY <1>1, <1>2, <1>3, PTL DEF LockSpec
=============================================================================
