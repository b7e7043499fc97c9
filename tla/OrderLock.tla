----------------------------- MODULE OrderLock -----------------------------
(***************************************************************************)
(* The advisory lock around exchange orders (orderLock.js): a map from     *)
(* user and symbol to a lease.  Nobody waits for a lock, an acquire that   *)
(* finds a running lease is refused.  A lease that has run out is simply   *)
(* overwritten, and a release deletes the key whoever holds it by then, so *)
(* after one lease ran out the orders of a symbol may overlap again and    *)
(* again.                                                                  *)
(***************************************************************************)
EXTENDS Integers, FiniteSets

CONSTANTS
    Key,           \* user and symbol
    Op,            \* the placements and closes that take locks
    MaxExpiries    \* bound on the leases that run out, per key

VARIABLES
    lease,         \* _locks: no entry, one that runs, or one that ran out
    inside,        \* the operations between their acquire and their release
    expiries       \* history: how many leases of the key ran out

lockVars == <<lease, inside, expiries>>
-----------------------------------------------------------------------------
LockTypeOK ==
    /\ lease \in [Key -> {"none", "runs", "ran_out"}]
    /\ inside \in [Key -> SUBSET Op]
    /\ expiries \in [Key -> Nat]

LockInit ==
    /\ lease = [k \in Key |-> "none"]
    /\ inside = [k \in Key |-> {}]
    /\ expiries = [k \in Key |-> 0]

Refuses(k) == lease[k] = "runs"

\* Faulty: the answer of the map is not looked at.
Acquire_Blind(k, o) ==
    /\ lease' = [lease EXCEPT ![k] = "runs"]
    /\ inside' = [inside EXCEPT ![k] = @ \cup {o}]
    /\ UNCHANGED expiries

Acquire(k, o) ==
    /\ ~Refuses(k)
    /\ lease' = [lease EXCEPT ![k] = "runs"]
    /\ inside' = [inside EXCEPT ![k] = @ \cup {o}]
    /\ UNCHANGED expiries

Release(k, o) ==
    /\ o \in inside[k]
    /\ lease' = [lease EXCEPT ![k] = "none"]
    /\ inside' = [inside EXCEPT ![k] = @ \ {o}]
    /\ UNCHANGED expiries

(* A release and, in the same tick, an acquire by the same operation.      *)
Renew(k, o) ==
    /\ o \in inside[k]
    /\ lease' = [lease EXCEPT ![k] = "runs"]
    /\ UNCHANGED <<inside, expiries>>

\* Ten seconds have passed since the acquire.
RunsOut(k) ==
    /\ lease[k] = "runs" /\ expiries[k] < MaxExpiries
    /\ lease' = [lease EXCEPT ![k] = "ran_out"]
    /\ expiries' = [expiries EXCEPT ![k] = @ + 1]
    /\ UNCHANGED inside

\* The process restarts: the map and the operations are gone.
LockLost ==
    /\ lease' = [k \in Key |-> "none"]
    /\ inside' = [k \in Key |-> {}]
    /\ UNCHANGED expiries

LockNext ==
    \/ \E k \in Key, o \in Op : Acquire(k, o) \/ Release(k, o) \/ Renew(k, o)
    \/ \E k \in Key : RunsOut(k)
    \/ LockLost

LockSpec == LockInit /\ [][LockNext]_lockVars
-----------------------------------------------------------------------------
(* At most one operation on a symbol is inside, plus one for every lease   *)
(* that ran out: "prevents concurrent entry/close orders for the same      *)
(* user+symbol pair" as far as the leases last.                            *)
Overlap == \A k \in Key : Cardinality(inside[k]) <= 1 + expiries[k]
=============================================================================
