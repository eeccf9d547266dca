------------------------------ MODULE MCEgress ------------------------------
(***************************************************************************)
(* Two connections of one VM, or one at a time on an address two VMs hold  *)
(* one after the other.                                                    *)
(***************************************************************************)
EXTENDS Egress

MCBounds == {[conns |-> {"c1", "c2"}, vms |-> 1], [conns |-> {"c1"}, vms |-> 2]}
=============================================================================
