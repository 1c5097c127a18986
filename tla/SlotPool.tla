------------------------------ MODULE SlotPool ------------------------------
(***************************************************************************)
(* What one licence promises about its device slots, whatever the order in *)
(* which concurrent requests reach the database: a pool of slots that is   *)
(* never fuller than its capacity.  A slot is taken by a device that had   *)
(* none, handed to another fingerprint of the same machine, or given back. *)
(* The capacity only follows the licence's device limit upwards: lowering  *)
(* the limit evicts nobody.                                                *)
(***************************************************************************)
EXTENDS Naturals, FiniteSets

CONSTANTS
    Device,
    MachineOf,   \* the machine of a device, or None when it cannot be told
    None

VARIABLES held,      \* the devices that hold a slot
          capacity   \* the largest number of slots there has been

poolVars == <<held, capacity>>

PoolInit ==
    /\ held = {}
    /\ capacity \in Nat

Acquire(d) ==
    /\ d \notin held
    /\ Cardinality(held) < capacity
    /\ held' = held \union {d}
    /\ UNCHANGED capacity

SameMachine(d, e) == MachineOf[d] # None /\ MachineOf[d] = MachineOf[e]

Transfer(d, e) ==
    /\ SameMachine(d, e)
    /\ d \in held
    /\ e \notin held
    /\ held' = (held \ {d}) \union {e}
    /\ UNCHANGED capacity

\* One device is unbound, or all of them at once.
Release ==
    /\ held' \subseteq held
    /\ UNCHANGED capacity

Raise ==
    /\ capacity' \in Nat
    /\ capacity' > capacity
    /\ UNCHANGED held

PoolNext ==
    \/ \E d \in Device : Acquire(d)
    \/ \E d, e \in Device : Transfer(d, e)
    \/ Release
    \/ Raise

PoolSpec == PoolInit /\ [][PoolNext]_poolVars
=============================================================================
