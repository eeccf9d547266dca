------------------------------- MODULE MCHost -------------------------------
(***************************************************************************)
(* ControlPlane with two VMs, in three settings.  No run could afford all  *)
(* at once, so each spends the bounds on one question:                     *)
(*   lifecycle   every lifecycle call, boots failing;                      *)
(*   forwarding  host ports handed out, steered, withdrawn and released;   *)
(*   crashing    requests dropped, and the daemon or the host going down,  *)
(*               while it recovers from the last time too; the supervisor  *)
(*               does not get to a VM before recovery does.                *)
(* `setting' says which; it is chosen at the start and never changes.      *)
(***************************************************************************)
EXTENDS MCControlPlane

VARIABLE setting

HostVars == <<setting, vars>>

HostInit == Init /\ setting \in {"lifecycle", "forwarding", "crashing"}

HostCall(v) ==
  \/ CreateVm(v, 0) \/ StartVm(v) \/ HaltVm(v) \/ DestroyVm(v)
  \/ /\ setting = "lifecycle"
     /\ SuspendVm(v) \/ StopVm(v) \/ TerminateVm(v) \/ RetireSuspension(v)
  \/ /\ setting = "forwarding"
     /\ \/ \E n \in 1 .. MaxForwards : CreateVm(v, n)
        \/ AddForward(v)
        \/ \E p \in Ports : RemoveForward(v, p)

HostNext ==
  \/ \E v \in VmIds : HostCall(v) /\ UNCHANGED setting
  \/ \E v \in VmIds : Step(v) /\ UNCHANGED setting
  \/ \E v \in VmIds : (VmmExit(v) \/ GuestWrites(v)) /\ UNCHANGED setting
  \/ \E v \in VmIds : setting # "crashing" /\ (Probe(v) \/ Reap(v)) /\ UNCHANGED setting
  \/ \E v \in VmIds : setting = "crashing" /\ Cancel(v) /\ UNCHANGED setting
  \/ setting = "crashing" /\ Crash /\ UNCHANGED setting
  \/ \E v \in VmIds : RecoverVm(v) /\ UNCHANGED setting
  \/ (GiveUp \/ Boot \/ Serve) /\ UNCHANGED setting

HostSpec == HostInit /\ [][HostNext]_HostVars
=============================================================================
