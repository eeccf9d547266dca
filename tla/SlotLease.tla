------------------------------ MODULE SlotLease ------------------------------
(***************************************************************************)
(* What the control plane promises the services that know a VM only by its *)
(* address (proxy, metadata, DNS): a slot is leased to one VM at a time,   *)
(* only the lessee's guest ever runs in the slot's network, and the lease  *)
(* passes on only once that guest is gone.                                 *)
(***************************************************************************)
CONSTANTS VmIds, NoVm, Slots

VARIABLES
  holder,  \* the VM each slot is leased to
  guests   \* VMs with a guest in each slot's network

leaseVars == <<holder, guests>>

Init ==
  /\ holder = [s \in Slots |-> NoVm]
  /\ guests = [s \in Slots |-> {}]

Acquire(s, v) ==
  /\ holder[s] = NoVm
  /\ guests[s] = {}
  /\ \A t \in Slots : holder[t] # v
  /\ holder' = [holder EXCEPT ![s] = v]
  /\ UNCHANGED guests

Enter(s) ==
  /\ holder[s] # NoVm
  /\ guests' = [guests EXCEPT ![s] = {holder[s]}]
  /\ UNCHANGED holder

(* One guest goes, or a host with all of them. *)
Leave ==
  /\ guests' \in [Slots -> SUBSET VmIds]
  /\ \A s \in Slots : guests'[s] \subseteq guests[s]
  /\ UNCHANGED holder

Release(s) ==
  /\ holder[s] # NoVm
  /\ guests[s] = {}
  /\ holder' = [holder EXCEPT ![s] = NoVm]
  /\ UNCHANGED guests

Next ==
  \/ \E s \in Slots, v \in VmIds : Acquire(s, v)
  \/ \E s \in Slots : Enter(s) \/ Release(s)
  \/ Leave

Spec == Init /\ [][Next]_leaseVars
=============================================================================
