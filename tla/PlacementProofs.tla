-------------------------- MODULE PlacementProofs ---------------------------
(***************************************************************************)
(* Proofs about ControlPlane for any number of VMs, slots and ports, and   *)
(* whatever fails, is dropped or crashes: its types, Placement (no two     *)
(* records hold one slot, and a live guest is identified as itself), the   *)
(* slot lease it implements, and Control, what the stage of a handler      *)
(* implies for its VM's row: the supervisor strikes only what is gone, and *)
(* a durable disk goes only when asked.  Then Tidy, NetOK and SlotOK: what *)
(* is on the host is on record, and no slot is lost.                       *)
(***************************************************************************)
EXTENDS ControlPlane, TLAPS

(* A leaf is for Zenon unless it cites SMT. *)
USE ZenonT(60) DEF db, slotVars, portVars, host, daemon

LEMMA TaskFields ==
  ASSUME NEW t \in Task
  PROVE  /\ \A pc \in Pcs : [t EXCEPT !.pc = pc] \in Task
         /\ \A s \in Slots \cup {NoSlot} : [t EXCEPT !.slot = s] \in Task
         /\ \A job \in Jobs : [t EXCEPT !.job = job] \in Task
         /\ \A ports \in SUBSET Ports : [t EXCEPT !.ports = ports] \in Task
         /\ \A want \in 0 .. MaxForwards : [t EXCEPT !.want = want] \in Task
BY DEF Task

LEMMA IdleTyped == Idle \in Task
<1>1. "none" \in Jobs
  BY DEF Jobs
<1>2. "idle" \in Pcs
  BY DEF Pcs
<1>3. 0 \in 0 .. MaxForwards
  BY SMTT(60), BoundsAssumption
<1> QED BY <1>1, <1>2, <1>3 DEF Idle, Task

(* How a task moves keeps it a task. *)
LEMMA TaskTypes ==
  ASSUME TypeOK, NEW v \in VmIds
  PROVE  /\ \A pc \in Pcs : Continue(v, pc) => task' \in [VmIds -> Task]
         /\ Finish(v) => task' \in [VmIds -> Task]
         /\ Fail(v) => task' \in [VmIds -> Task]
         /\ \A job \in Jobs, pc \in Pcs, keep \in BOOLEAN :
              Begin(v, job, pc, keep) => task' \in [VmIds -> Task]
<1>1. Idle \in Task
  BY IdleTyped
<1>2. ASSUME NEW pc \in Pcs, Continue(v, pc) PROVE task' \in [VmIds -> Task]
  <2>1. [task[v] EXCEPT !.pc = pc] \in Task
    BY DEF TypeOK, Task
  <2>2. task' = [task EXCEPT ![v] = [task[v] EXCEPT !.pc = pc]]
    BY <1>2 DEF Continue, TypeOK
  <2> QED BY <2>1, <2>2 DEF TypeOK
<1>3. ASSUME NEW job \in Jobs, NEW pc \in Pcs, NEW keep \in BOOLEAN,
             Begin(v, job, pc, keep)
      PROVE task' \in [VmIds -> Task]
  <2>1. vms[v].slot \in Slots \cup {NoSlot}
    BY DEF TypeOK, Row
  <2>2. [job |-> job, pc |-> pc, slot |-> vms[v].slot, ports |-> HostPorts(v),
         want |-> 0, keep |-> keep] \in Task
    BY SMTT(60), <2>1, BoundsAssumption DEF Task, HostPorts
  <2> QED BY <1>3, <2>2 DEF Begin, TypeOK
<1> QED BY <1>1, <1>2, <1>3 DEF Finish, Fail, TypeOK

(* However a step of a task ends, the tasks and the phase keep their types. *)
Moved ==
  /\ task' \in [VmIds -> Task]
  /\ phase' \in {"down", "recovering", "up", "failed"}

LEMMA MoveTypes ==
  ASSUME TypeOK, NEW v \in VmIds
  PROVE  /\ \A pc \in Pcs : Continue(v, pc) => Moved
         /\ Finish(v) => Moved
         /\ Fail(v) => Moved
         /\ BringUpFailed(v) => Moved
         /\ LetGo(v) => Moved
         /\ AfterSave(v) => Moved
<1>1. phase \in {"down", "recovering", "up", "failed"}
  BY DEF TypeOK
<1>2. \A pc \in Pcs : Continue(v, pc) => Moved
  BY <1>1, TaskTypes DEF Continue, Moved
<1>3. Finish(v) => Moved
  BY <1>1, TaskTypes DEF Finish, Moved
<1>4. Fail(v) => Moved
  BY <1>1, TaskTypes DEF Fail, Moved
<1>5. BringUpFailed(v) => Moved
  BY <1>2 DEF BringUpFailed, Pcs
<1>6. LetGo(v) => Moved
  <2>1. ASSUME task' = [task EXCEPT ![v].pc = "place", ![v].slot = NoSlot], UNCHANGED phase
        PROVE Moved
    <3>1. [task[v] EXCEPT !.pc = "place", !.slot = NoSlot] \in Task
      BY TaskFields DEF TypeOK, Pcs
    <3>2. task' = [task EXCEPT ![v] = [task[v] EXCEPT !.pc = "place", !.slot = NoSlot]]
      BY <2>1, Zenon DEF TypeOK
    <3> QED BY <1>1, <2>1, <3>1, <3>2 DEF Moved, TypeOK
  <2> QED BY <2>1, <1>3, <1>4 DEF LetGo
<1>7. AfterSave(v) => Moved
  BY <1>2, <1>6 DEF AfterSave, Pcs
<1> QED BY <1>2, <1>3, <1>4, <1>5, <1>6, <1>7

LEMMA ForwardTask ==
  ASSUME NEW p \in Ports, NEW pc \in Pcs
  PROVE  Forwarding(p, pc) \in Task
BY SMTT(60), CapacityAssumption, BoundsAssumption DEF Forwarding, Task, Jobs, ApiJobs

(* Each call's first step keeps the types. *)
LEMMA CallTypes ==
  ASSUME TypeOK, NEW v \in VmIds, Call(v)
  PROVE  TypeOK'
<1> USE CapacityAssumption, BoundsAssumption, SetsAssumption
<1>1. ASSUME NEW n \in 0 .. MaxForwards, CreateVm(v, n) PROVE TypeOK'
  <2>1. PICK s \in Slots : 
          /\ TakeSlot(s)
          /\ task' = [task EXCEPT ![v] =
               [job |-> "create", pc |-> "alloc", slot |-> s, ports |-> {},
                want |-> n, keep |-> FALSE]]
    BY <1>1 DEF CreateVm
  <2>2. task' \in [VmIds -> Task]
    BY <2>1 DEF TypeOK, Task, Jobs, ApiJobs, Pcs
  <2>3. used' \subseteq Slots /\ cursor' \in Slots /\ savedCursor' \in Slots \cup {NoSlot}
    BY SMTT(60), <2>1 DEF TakeSlot, CursorAfter, Slots, NoSlot, TypeOK
  <2> QED BY <1>1, <2>2, <2>3 DEF CreateVm, TypeOK
<1>2. ASSUME NEW call, Request(v, call), task' \in [VmIds -> Task] PROVE TypeOK'
  BY <1>2 DEF Request, TypeOK
<1>3. ASSUME StartVm(v) \/ SuspendVm(v) \/ StopVm(v) \/ HaltVm(v) \/ DestroyVm(v)
             \/ TerminateVm(v) \/ RetireSuspension(v)
      PROVE TypeOK'
  <2>1. (v \in Durable) \in BOOLEAN
    BY SMTT(60)
  <2>2. \E call : Request(v, call)
    BY <1>3 DEF StartVm, SuspendVm, StopVm, HaltVm, DestroyVm, TerminateVm,
                RetireSuspension
  <2>3. \E job \in Jobs, pc \in Pcs, keep \in BOOLEAN : Begin(v, job, pc, keep)
    BY <1>3, <2>1 DEF StartVm, SuspendVm, StopVm, HaltVm, DestroyVm, TerminateVm,
                      RetireSuspension, Jobs, ApiJobs, Pcs
  <2> QED BY <1>2, <2>2, <2>3, TaskTypes
<1>4. ASSUME AddForward(v) PROVE TypeOK'
  <2>1. PICK p \in Ports :
          /\ portUsed' = portUsed \cup {p}
          /\ portCursor' = CursorAfter(NPorts, p)
          /\ task' = [task EXCEPT ![v] = Forwarding(p, "declare")]
    BY <1>4 DEF AddForward
  <2>2. task' \in [VmIds -> Task]
    BY <2>1, ForwardTask DEF TypeOK, Pcs
  <2>3. portUsed' \subseteq Ports /\ portCursor' \in Ports \cup {0}
    BY SMTT(60), <2>1 DEF CursorAfter, Ports, TypeOK
  <2> QED BY <1>4, <2>2, <2>3 DEF AddForward, TypeOK
<1>5. ASSUME NEW p \in Ports, RemoveForward(v, p) PROVE TypeOK'
  <2>1. task' \in [VmIds -> Task]
    BY <1>5, ForwardTask DEF RemoveForward, TypeOK, Pcs
  <2> QED BY <1>5, <2>1 DEF RemoveForward, TypeOK
<1> QED BY <1>1, <1>3, <1>4, <1>5 DEF Call

LEMMA StatusType ==
  ASSUME TypeOK, NEW v \in VmIds, NEW status \in {"created", "running", "paused", "exited"}
  PROVE  [vmm EXCEPT ![v].status = status] \in [VmIds -> Vmm]
<1>1. [vmm[v] EXCEPT !.status = status] \in Vmm
  BY DEF TypeOK, Vmm
<1> QED BY <1>1 DEF TypeOK

(* The four ways a record is saved. *)
LEMMA RowTypes ==
  ASSUME TypeOK, NEW v \in VmIds
  PROVE  /\ [vms EXCEPT ![v].state = "running", ![v].dev = TRUE] \in [VmIds -> Row]
         /\ \A slot \in Slots \cup {NoSlot} :
              [vms EXCEPT ![v].state = "creating", ![v].slot = slot] \in [VmIds -> Row]
         /\ [vms EXCEPT ![v].state = "suspended", ![v].snap = TRUE] \in [VmIds -> Row]
         /\ \A snap \in BOOLEAN :
              [vms EXCEPT ![v].state = "stopped", ![v].slot = NoSlot, ![v].snap = snap]
                \in [VmIds -> Row]
<1>1. ASSUME NEW row \in Row
      PROVE  /\ \A st \in States : [row EXCEPT !.state = st] \in Row
             /\ \A s \in Slots \cup {NoSlot} : [row EXCEPT !.slot = s] \in Row
             /\ [row EXCEPT !.dev = TRUE] \in Row
             /\ \A b \in BOOLEAN : [row EXCEPT !.snap = b] \in Row
  BY DEF Row
<1>2. /\ [vms[v] EXCEPT !.state = "running", !.dev = TRUE] \in Row
      /\ \A slot \in Slots \cup {NoSlot} :
           [vms[v] EXCEPT !.state = "creating", !.slot = slot] \in Row
      /\ [vms[v] EXCEPT !.state = "suspended", !.snap = TRUE] \in Row
      /\ \A snap \in BOOLEAN :
           [vms[v] EXCEPT !.state = "stopped", !.slot = NoSlot, !.snap = snap] \in Row
  BY <1>1 DEF TypeOK, States
<1> QED BY <1>2 DEF TypeOK

(* create_vm's steps up to its record and forwards, and bring_up. *)
LEMMA BringUpTypes ==
  ASSUME TypeOK, NEW v \in VmIds,
         \/ AllocatePort(v) \/ InsertVm(v) \/ InsertForward(v)
         \/ Provision(v) \/ ApplyNetwork(v) \/ CreateVmm(v) \/ StartVmm(v) \/ SaveRunning(v)
  PROVE  TypeOK'
<1> USE CapacityAssumption, BoundsAssumption, SetsAssumption
<1>0. task[v] \in Task /\ task[v].slot \in Slots \cup {NoSlot} /\ task[v].ports \subseteq Ports
  BY DEF TypeOK, Task
<1>1. CASE AllocatePort(v)
  <2>1. CASE task[v].want = 0 /\ Continue(v, "insert") /\ UNCHANGED <<slotVars, portVars>>
    BY <1>1, <2>1, MoveTypes DEF AllocatePort, TypeOK, Moved, Pcs
  <2>2. ASSUME task[v].want > 0, NEW p \in Ports, portUsed' = portUsed \cup {p},
               portCursor' = CursorAfter(NPorts, p),
               task' = [task EXCEPT ![v].ports = @ \cup {p}, ![v].want = @ - 1],
               UNCHANGED <<slotVars, phase>>
        PROVE TypeOK'
    <3>1. task[v].want - 1 \in 0 .. MaxForwards
      BY SMTT(60), <2>2, <1>0 DEF Task
    <3>2. [task[v] EXCEPT !.ports = task[v].ports \cup {p}] \in Task
      BY <1>0, TaskFields
    <3>3. [[task[v] EXCEPT !.ports = task[v].ports \cup {p}] EXCEPT !.want = task[v].want - 1]
            \in Task
      BY <3>1, <3>2, TaskFields
    <3>4. task' = [task EXCEPT ![v] =
            [[task[v] EXCEPT !.ports = task[v].ports \cup {p}] EXCEPT !.want = task[v].want - 1]]
      BY <2>2, <1>0 DEF TypeOK, Task
    <3>5. task' \in [VmIds -> Task]
      BY <3>3, <3>4 DEF TypeOK
    <3>6. portUsed' \subseteq Ports /\ portCursor' \in Ports \cup {0}
      BY SMTT(60), <2>2 DEF CursorAfter, Ports, TypeOK
    <3> QED BY <1>1, <2>2, <3>5, <3>6 DEF AllocatePort, TypeOK
  <2>3. CASE /\ portUsed' = portUsed \ task[v].ports
             /\ used' = used \ {task[v].slot}
             /\ Fail(v)
             /\ UNCHANGED <<cursor, portCursor>>
    BY <1>1, <2>3, MoveTypes DEF AllocatePort, TypeOK, Moved
  <2> QED BY <1>1, <2>1, <2>2, <2>3 DEF AllocatePort
<1>2. CASE InsertVm(v)
  <2>1. Moved
    BY <1>2, MoveTypes DEF InsertVm, Pcs
  <2>2. vms' \in [VmIds -> Row]
    <3>1. [state |-> "creating", slot |-> task[v].slot, dev |-> FALSE, snap |-> FALSE] \in Row
      BY <1>0 DEF Row, States
    <3> QED BY <1>2, <3>1 DEF InsertVm, TypeOK
  <2> QED BY <1>2, <2>1, <2>2 DEF InsertVm, TypeOK, Moved
<1>3. CASE InsertForward(v)
  <2>1. Moved
    BY <1>3, MoveTypes DEF InsertForward, Pcs, BringUpPcs, TypeOK, Moved
  <2>2. forwards' \subseteq VmIds \X Ports
    BY SMTT(60), <1>0, <1>3 DEF InsertForward, TypeOK
  <2> QED BY <1>3, <2>1, <2>2 DEF InsertForward, TypeOK, Moved
<1>4. CASE Provision(v)
  <2>1. Moved
    BY <1>4, MoveTypes DEF Provision, Pcs, BringUpPcs
  <2> QED BY <1>4, <2>1 DEF Provision, TypeOK, Moved
<1>5. CASE ApplyNetwork(v)
  <2>1. Moved
    BY <1>5, MoveTypes DEF ApplyNetwork, Pcs, BringUpPcs
  <2>2. net' \in [Slots -> Net]
    <3>1. [vm |-> v, ports |-> task[v].ports] \in Net
      BY <1>0 DEF Net
    <3>2. net \in [Slots -> Net]
      BY DEF TypeOK
    <3> QED BY <1>5, <3>1, <3>2 DEF ApplyNetwork
  <2> QED BY <1>5, <2>1, <2>2 DEF ApplyNetwork, TypeOK, Moved
<1>6. CASE CreateVmm(v)
  <2>1. Moved
    BY <1>6, MoveTypes DEF CreateVmm, Pcs, BringUpPcs
  <2>2. vmm' \in [VmIds -> Vmm]
    <3>1. (ResumesOwn(v) /\ snapFile[v] = "stale") \in BOOLEAN
      OBVIOUS
    <3>2. [status |-> "created", slot |-> task[v].slot,
           stale |-> ResumesOwn(v) /\ snapFile[v] = "stale"] \in Vmm
      BY <1>0, <3>1 DEF Vmm
    <3> QED BY <1>6, <3>2 DEF CreateVmm, TypeOK
  <2> QED BY <1>6, <2>1, <2>2 DEF CreateVmm, TypeOK, Moved
<1>7. CASE StartVmm(v)
  <2>1. Moved
    BY <1>7, MoveTypes DEF StartVmm, Pcs, BringUpPcs
  <2>2. vmm' \in [VmIds -> Vmm]
    <3>1. [vmm EXCEPT ![v].status = "running"] \in [VmIds -> Vmm]
      BY StatusType
    <3> QED BY <1>7, <3>1 DEF StartVmm, TypeOK
  <2> QED BY <1>7, <2>1, <2>2 DEF StartVmm, TypeOK, Moved
<1>8. CASE SaveRunning(v)
  <2>1. Moved
    BY <1>8, MoveTypes DEF SaveRunning, Pcs, BringUpPcs
  <2>2. vms' \in [VmIds -> Row]
    <3>1. [vms EXCEPT ![v].state = "running", ![v].dev = TRUE] \in [VmIds -> Row]
      BY RowTypes
    <3> QED BY <1>8, <3>1 DEF SaveRunning, TypeOK
  <2> QED BY <1>8, <2>1, <2>2 DEF SaveRunning, TypeOK, Moved
<1> QED BY <1>1, <1>2, <1>3, <1>4, <1>5, <1>6, <1>7, <1>8

(* start_vm, suspend_vm, stop_vm and retire_suspension. *)
LEMMA LifecycleTypes ==
  ASSUME TypeOK, NEW v \in VmIds,
         \/ ResumeVmm(v) \/ Place(v) \/ SaveCreating(v)
         \/ Suspend(v) \/ SaveSuspended(v) \/ StopVmm(v) \/ RetireVmm(v)
  PROVE  TypeOK'
<1>1. \A status \in {"running", "paused", "exited"} :
        [vmm EXCEPT ![v].status = status] \in [VmIds -> Vmm]
  <2> SUFFICES ASSUME NEW status \in {"running", "paused", "exited"}
               PROVE  [vmm EXCEPT ![v].status = status] \in [VmIds -> Vmm]
    OBVIOUS
  <2>1. status \in {"created", "running", "paused", "exited"}
    OBVIOUS
  <2> QED BY <2>1, StatusType
<1> USE CapacityAssumption, BoundsAssumption, SetsAssumption
<1>0. task[v] \in Task /\ task[v].slot \in Slots \cup {NoSlot}
  BY DEF TypeOK, Task
<1>2. CASE ResumeVmm(v)
  <2>1. Moved
    BY <1>2, MoveTypes DEF ResumeVmm, Pcs, BringUpPcs
  <2> QED BY <1>1, <1>2, <2>1 DEF ResumeVmm, TypeOK, Moved
<1>3. CASE Place(v)
  <2>1. ASSUME NEW s \in Slots, TakeSlot(s), UNCHANGED phase,
               task' = [task EXCEPT ![v].pc = "saveCreating", ![v].slot = s,
                          ![v].job = IF @ = "restart" THEN "rerun" ELSE @]
        PROVE TypeOK'
    <3> DEFINE job == IF task[v].job = "restart" THEN "rerun" ELSE task[v].job
    <3>1. job \in Jobs
      BY <1>0 DEF Task, Jobs
    <3>2. [task[v] EXCEPT !.pc = "saveCreating", !.slot = s] \in Task
      BY <1>0, TaskFields DEF Pcs
    <3>3. [[task[v] EXCEPT !.pc = "saveCreating", !.slot = s] EXCEPT !.job = job] \in Task
      <4> DEFINE placed == [task[v] EXCEPT !.pc = "saveCreating", !.slot = s]
      <4> HIDE DEF placed, job
      <4>1. placed \in Task
        BY <3>2 DEF placed
      <4>2. [placed EXCEPT !.job = job] \in Task
        BY <3>1, <4>1, TaskFields
      <4> QED BY <4>2 DEF placed
    <3>4. task' = [task EXCEPT ![v] =
                     [[task[v] EXCEPT !.pc = "saveCreating", !.slot = s] EXCEPT !.job = job]]
      BY <2>1, <1>0 DEF TypeOK, Task
    <3>5. task' \in [VmIds -> Task]
      BY <3>3, <3>4 DEF TypeOK
    <3>6. used' \subseteq Slots
      BY <2>1 DEF TakeSlot, TypeOK
    <3>7. cursor' \in Slots
      BY SMTT(60), <2>1 DEF TakeSlot, CursorAfter, Slots
    <3>8. savedCursor' \in Slots \cup {NoSlot}
      BY <2>1, <3>7 DEF TakeSlot, TypeOK
    <3> QED BY <1>3, <2>1, <3>5, <3>6, <3>7, <3>8 DEF Place, TypeOK
  <2>2. CASE Fail(v) /\ UNCHANGED <<slotVars, savedCursor>>
    BY <1>3, <2>2, MoveTypes DEF Place, TypeOK, Moved
  <2> QED BY <1>3, <2>1, <2>2 DEF Place
<1>4. CASE SaveCreating(v)
  <2>1. Moved
    BY <1>4, MoveTypes DEF SaveCreating, Pcs, BringUpPcs
  <2>2. [vms EXCEPT ![v].state = "creating", ![v].slot = task[v].slot] \in [VmIds -> Row]
    BY <1>0, RowTypes
  <2> QED BY <1>4, <2>1, <2>2 DEF SaveCreating, TypeOK, Moved
<1>5. CASE Suspend(v)
  <2>1. Moved
    BY <1>5, MoveTypes DEF Suspend, Pcs
  <2>2. snapFile' \in [VmIds -> {"none", "fresh", "stale"}]
    BY <1>5 DEF Suspend, TypeOK
  <2>3. vmm' \in [VmIds -> Vmm]
    BY <1>1, <1>5 DEF Suspend, TypeOK
  <2> QED BY <1>5, <2>1, <2>2, <2>3 DEF Suspend, TypeOK, Moved
<1>6. CASE SaveSuspended(v)
  <2>1. Moved
    BY <1>6, MoveTypes DEF SaveSuspended
  <2>2. [vms EXCEPT ![v].state = "suspended", ![v].snap = TRUE] \in [VmIds -> Row]
    BY RowTypes
  <2> QED BY <1>6, <2>1, <2>2 DEF SaveSuspended, TypeOK, Moved
<1>7. CASE StopVmm(v)
  <2>1. Moved
    BY <1>7, MoveTypes DEF StopVmm, Pcs
  <2> QED BY <1>1, <1>7, <2>1 DEF StopVmm, TypeOK, Moved
<1>8. CASE RetireVmm(v)
  <2>1. ASSUME task' = [task EXCEPT ![v].job = "terminate", ![v].pc = "vmm"], UNCHANGED phase
        PROVE Moved
    <3>1. [task[v] EXCEPT !.job = "terminate", !.pc = "vmm"] \in Task
      BY <1>0, TaskFields DEF Jobs, ApiJobs, Pcs
    <3> QED BY <2>1, <3>1 DEF TypeOK, Moved
  <2>2. Moved
    BY <1>8, <2>1, MoveTypes DEF RetireVmm
  <2> QED BY <1>1, <1>8, <2>2 DEF RetireVmm, TypeOK, Moved
<1> QED BY <1>2, <1>3, <1>4, <1>5, <1>6, <1>7, <1>8

(* Letting go of a placement. *)
LEMMA TearDownTypes ==
  ASSUME TypeOK, NEW v \in VmIds,
         \/ UnallocatePorts(v) \/ TearDownVmm(v) \/ TearDownNet(v) \/ FreePorts(v)
         \/ TearDownVolume(v) \/ DeleteVm(v) \/ SaveStopped(v) \/ FreeSlot(v)
  PROVE  TypeOK'
<1> USE CapacityAssumption, BoundsAssumption, SetsAssumption
<1>1. CASE UnallocatePorts(v)
  <2>1. Moved
    BY <1>1, MoveTypes DEF UnallocatePorts, Pcs
  <2> QED BY <1>1, <2>1 DEF UnallocatePorts, TypeOK, Moved
<1>2. CASE TearDownVmm(v)
  <2>1. Moved
    BY <1>2, MoveTypes DEF TearDownVmm, Pcs
  <2>2. NoVmm \in Vmm
    BY DEF NoVmm, Vmm
  <2>3. vmm' \in [VmIds -> Vmm]
    BY <1>2, <2>2 DEF TearDownVmm, TypeOK
  <2>4. snapFile' \in [VmIds -> {"none", "fresh", "stale"}]
    BY <1>2 DEF TearDownVmm, TypeOK
  <2> QED BY <1>2, <2>1, <2>3, <2>4 DEF TearDownVmm, TypeOK, Moved
<1>3. CASE TearDownNet(v)
  <2>1. Moved
    BY <1>3, MoveTypes DEF TearDownNet, Pcs
  <2>2. NoNet \in Net
    BY DEF NoNet, Net
  <2>3. net' \in [Slots -> Net]
    BY <1>3, <2>2 DEF TearDownNet, TypeOK
  <2> QED BY <1>3, <2>1, <2>3 DEF TearDownNet, TypeOK, Moved
<1>4. CASE FreePorts(v)
  <2>1. Moved
    BY <1>4, MoveTypes DEF FreePorts, Pcs
  <2> QED BY <1>4, <2>1 DEF FreePorts, TypeOK, Moved
<1>5. CASE TearDownVolume(v)
  <2>1. Moved
    BY <1>5, MoveTypes DEF TearDownVolume, Pcs
  <2> QED BY <1>5, <2>1 DEF TearDownVolume, TypeOK, Moved
<1>6. CASE DeleteVm(v)
  <2>1. Moved
    BY <1>6, MoveTypes DEF DeleteVm
  <2>2. NoRow \in Row
    BY DEF NoRow, Row, States
  <2> QED BY SMTT(60), <1>6, <2>1, <2>2 DEF DeleteVm, TypeOK, Moved
<1>7. CASE SaveStopped(v)
  <2>1. Moved
    BY <1>7, MoveTypes DEF SaveStopped
  <2>2. ASSUME vms' = [vms EXCEPT ![v].state = "stopped", ![v].slot = NoSlot,
                         ![v].snap = @ /\ task[v].job # "terminate"]
        PROVE  vms' \in [VmIds -> Row]
    <3>1. (vms[v].snap /\ task[v].job # "terminate") \in BOOLEAN
      OBVIOUS
    <3>2. vms' = [vms EXCEPT ![v].state = "stopped", ![v].slot = NoSlot,
                    ![v].snap = (vms[v].snap /\ task[v].job # "terminate")]
      BY <2>2 DEF TypeOK
    <3> QED BY <3>1, <3>2, RowTypes
  <2>3. vms' \in [VmIds -> Row]
    BY <1>7, <2>2 DEF SaveStopped, TypeOK
  <2> QED BY <1>7, <2>1, <2>3 DEF SaveStopped, TypeOK, Moved
<1>8. CASE FreeSlot(v)
  <2>1. Moved
    BY <1>8, MoveTypes DEF FreeSlot
  <2> QED BY <1>8, <2>1 DEF FreeSlot, TypeOK, Moved
<1> QED BY <1>1, <1>2, <1>3, <1>4, <1>5, <1>6, <1>7, <1>8

(* Forwards at run time. *)
LEMMA ForwardTypes ==
  ASSUME TypeOK, NEW v \in VmIds,
         DeclareForward(v) \/ SteerForward(v) \/ WithdrawForward(v)
  PROVE  TypeOK'
<1>0. task[v].ports \subseteq Ports
  BY DEF TypeOK, Task
<1>1. Steered(v) \in [Slots -> Net]
  <2>1. HostPorts(v) \in SUBSET Ports
    BY DEF HostPorts
  <2>2. ASSUME NEW s \in Slots PROVE [net EXCEPT ![s].ports = HostPorts(v)] \in [Slots -> Net]
    <3>1. [net[s] EXCEPT !.ports = HostPorts(v)] \in Net
      BY <2>1 DEF TypeOK, Net
    <3> QED BY <3>1 DEF TypeOK
  <2>3. vms[v].slot \in Slots \cup {NoSlot}
    BY DEF TypeOK, Row
  <2> QED BY <2>2, <2>3 DEF Steered, TypeOK
<1>2. SteerFails(v) => net' \in [Slots -> Net]
  BY <1>1 DEF SteerFails, TypeOK
<1>3. CASE DeclareForward(v)
  <2>1. Moved
    BY <1>3, MoveTypes DEF DeclareForward, Pcs
  <2>2. forwards' \subseteq VmIds \X Ports /\ portUsed' \subseteq Ports
    <3>1. forwards \subseteq VmIds \X Ports /\ portUsed \subseteq Ports
      BY DEF TypeOK
    <3>2. PICK p \in task[v].ports :
            \/ forwards' = forwards \cup {<<v, p>>} /\ portUsed' = portUsed
            \/ forwards' = forwards /\ portUsed' = portUsed \ {p}
      BY <1>3 DEF DeclareForward
    <3>3. p \in Ports
      BY <1>0
    <3> QED BY SMTT(60), <3>1, <3>2, <3>3
  <2> QED BY <1>3, <2>1, <2>2 DEF DeclareForward, TypeOK, Moved
<1>4. CASE SteerForward(v)
  <2>1. Moved
    BY <1>4, MoveTypes DEF SteerForward
  <2> QED BY <1>1, <1>2, <1>4, <2>1 DEF SteerForward, TypeOK, Moved
<1>5. CASE WithdrawForward(v)
  <2>1. Moved
    BY <1>5, MoveTypes DEF WithdrawForward
  <2> QED BY <1>1, <1>2, <1>5, <2>1 DEF WithdrawForward, TypeOK, Moved
<1> QED BY <1>3, <1>4, <1>5

(* The guests, the supervisor, dropped requests, and recovery of a record. *)
LEMMA BesideTypes ==
  ASSUME TypeOK, NEW v \in VmIds,
         \/ VmmExit(v) \/ GuestWrites(v) \/ Cancel(v) \/ Probe(v) \/ Reap(v) \/ RecoverVm(v)
  PROVE  TypeOK'
<1>1. ASSUME HandleExit(v) PROVE task' \in [VmIds -> Task]
  <2>1. (v \in Durable) \in BOOLEAN
    BY SMTT(60)
  <2> QED BY <1>1, <2>1, TaskTypes DEF HandleExit, Jobs, Pcs
<1>2. CASE VmmExit(v)
  <2>1. [vmm EXCEPT ![v].status = "exited"] \in [VmIds -> Vmm]
    BY StatusType
  <2> QED BY <1>2, <2>1 DEF VmmExit, TypeOK
<1>3. CASE GuestWrites(v)
  <2>1. snapFile' \in [VmIds -> {"none", "fresh", "stale"}]
    BY <1>3 DEF GuestWrites, TypeOK
  <2> QED BY <1>3, <2>1 DEF GuestWrites, TypeOK
<1>4. CASE Cancel(v)
  BY <1>4, TaskTypes DEF Cancel, Finish, TypeOK
<1>5. CASE Probe(v)
  BY <1>5 DEF Probe, TypeOK
<1>6. CASE Reap(v)
  BY <1>1, <1>6 DEF Reap, TypeOK
<1>7. CASE RecoverVm(v)
  <2>1. (v \in Durable /\ vms[v].dev) \in BOOLEAN
    OBVIOUS
  <2>2. Begin(v, "abandon", "vmm", v \in Durable /\ vms[v].dev) => task' \in [VmIds -> Task]
    BY <2>1, TaskTypes DEF Jobs, Pcs
  <2>3. task' \in [VmIds -> Task]
    BY <1>1, <1>7, <2>2 DEF RecoverVm, Abandon, TypeOK
  <2> QED BY <1>7, <2>3 DEF RecoverVm, TypeOK
<1> QED BY <1>2, <1>3, <1>4, <1>5, <1>6, <1>7

(* The daemon's own life. *)
LEMMA DaemonTypes ==
  ASSUME TypeOK, Crash \/ GiveUp \/ Boot \/ Serve
  PROVE  TypeOK'
<1> USE CapacityAssumption, BoundsAssumption, SetsAssumption
<1>1. Idle \in Task
  BY IdleTyped
<1>2. NoVmm \in Vmm /\ NoNet \in Net
  BY DEF NoVmm, Vmm, NoNet, Net
<1>3. ASSUME Forget, UNCHANGED host \/ (vmm' = [v \in VmIds |-> NoVmm]
                                       /\ net' = [s \in Slots |-> NoNet]
                                       /\ UNCHANGED <<vol, snapFile>>),
             crashes' \in 0 .. MaxCrashes
      PROVE  TypeOK'
  BY SMTT(60), <1>1, <1>2, <1>3 DEF Forget, TypeOK, Slots
<1>4. CASE Crash
  BY SMTT(60), <1>3, <1>4 DEF Crash, TypeOK
<1>5. CASE GiveUp
  BY <1>3, <1>5 DEF GiveUp, TypeOK
<1>6. CASE Boot
  <2>1. Claimed \subseteq Slots
    BY SMTT(60) DEF Claimed, TypeOK, Row
  <2> QED BY <1>6, <2>1 DEF Boot, Records, TypeOK
<1>7. CASE Serve
  BY <1>7 DEF Serve, TypeOK
<1> QED BY <1>4, <1>5, <1>6, <1>7

(* The control plane keeps its types, whatever fails, crashes or is dropped: *)
(* no handler, error path or recovery leaves a record, a task, the slot and  *)
(* port bitmaps or a slot's network malformed.                               *)
THEOREM TypeCorrect == Spec => []TypeOK
<1>1. Init => TypeOK
  <2> SUFFICES ASSUME Init PROVE TypeOK
    OBVIOUS
  <2>1. Idle \in Task
    BY IdleTyped
  <2>2. NoRow \in Row
    BY DEF NoRow, Row, States
  <2>3. NoVmm \in Vmm
    BY DEF NoVmm, Vmm
  <2>4. NoNet \in Net
    BY DEF NoNet, Net
  <2>5. /\ vms \in [VmIds -> Row]
        /\ task \in [VmIds -> Task]
        /\ vmm \in [VmIds -> Vmm]
        /\ net \in [Slots -> Net]
        /\ snapFile \in [VmIds -> {"none", "fresh", "stale"}]
    BY <2>1, <2>2, <2>3, <2>4 DEF Init
  <2>6. cursor \in Slots
    BY SMTT(60), CapacityAssumption DEF Init, Slots
  <2>7. crashes \in 0 .. MaxCrashes
    BY SMTT(60), BoundsAssumption DEF Init
  <2> QED BY <2>5, <2>6, <2>7 DEF Init, TypeOK
<1>2. TypeOK /\ [Next]_vars => TypeOK'
  <2> SUFFICES ASSUME TypeOK, [Next]_vars PROVE TypeOK'
    OBVIOUS
  <2>1. CASE UNCHANGED vars
    BY <2>1 DEF vars, TypeOK
  <2> QED BY <2>1, CallTypes, BringUpTypes, LifecycleTypes, TearDownTypes, ForwardTypes,
             BesideTypes, DaemonTypes
          DEF Next, Step
<1> QED BY <1>1, <1>2, PTL DEF Spec

-----------------------------------------------------------------------------
(* What a step of v's task leaves alone, and what it may do to the slots. *)
Others(v) ==
  \A w \in VmIds \ {v} : vms'[w] = vms[w] /\ task'[w] = task[w] /\ vmm'[w] = vmm[w]

SlotsKept(v) ==
  /\ Answers(v)' \cap used \subseteq Answers(v)
  /\ used \ Answers(v) \subseteq used'
  /\ Answers(v)' \subseteq used'

(* A step of one VM's task keeps Placement if it leaves the other VMs alone, *)
(* takes no slot the allocator had given out, gives back none but its own,   *)
(* and leaves its own VM in order.                                           *)
LEMMA Frame ==
  ASSUME Placement, NEW v \in VmIds, Others(v), SlotsKept(v), VmOK(v)',
         phase # "down", phase' # "down"
  PROVE  Placement'
<1>1. ASSUME NEW w \in VmIds \ {v}
      PROVE  /\ Answers(w)' = Answers(w) /\ VmOK(w)'
             /\ Answers(w) \subseteq used' /\ Answers(w) \cap Answers(v)' = {}
  <2>1. Answers(w)' = Answers(w)
    BY DEF Others, Answers
  <2>2. VmOK(w)'
    <3>1. VmOK(w)
      BY DEF Placement
    <3> QED BY <3>1 DEF Others, VmOK, HandlerOK, Live, Exited
  <2>3. Answers(w) \subseteq used /\ Answers(w) \cap Answers(v) = {}
    BY DEF Placement
  <2> QED BY <2>1, <2>2, <2>3 DEF SlotsKept
<1>2. \A w \in VmIds : VmOK(w)'
  BY <1>1
<1>3. \A w \in VmIds : (Answers(w) \subseteq used)'
  BY <1>1 DEF SlotsKept
<1>4. ASSUME NEW u \in VmIds, NEW w \in VmIds, u # w
      PROVE  (Answers(u) \cap Answers(w) = {})'
  <2>1. CASE u = v
    BY <1>1, <1>4, <2>1
  <2>2. CASE w = v
    BY <1>1, <1>4, <2>2
  <2>3. CASE u # v /\ w # v
    BY <1>1, <1>4, <2>3 DEF Placement
  <2> QED BY <2>1, <2>2, <2>3
<1> QED BY <1>2, <1>3, <1>4 DEF Placement

(* What the proofs need of an idle task. *)
LEMMA IdleTask == Idle.pc = "idle" /\ Idle.slot = NoSlot
BY DEF Idle

(* A task in progress means a daemon that is not down. *)
LEMMA Working ==
  ASSUME Placement, NEW v \in VmIds, task[v].pc # "idle"
  PROVE  phase # "down"
BY IdleTask DEF Placement

(* How the tasks stand after each way a step ends. *)
OtherTasks(v) == \A w \in VmIds \ {v} : task'[w] = task[w]

LEMMA Moves ==
  ASSUME TypeOK, NEW v \in VmIds
  PROVE  /\ \A pc : Continue(v, pc) =>
              /\ task'[v].pc = pc /\ task'[v].slot = task[v].slot
              /\ OtherTasks(v) /\ phase' = phase
         /\ Finish(v) \/ Fail(v) =>
              task'[v] = Idle /\ OtherTasks(v) /\ phase' \in {phase, "failed"}
         /\ \A job, pc, keep : Begin(v, job, pc, keep) =>
              task'[v].pc = pc /\ task'[v].slot = vms[v].slot /\ OtherTasks(v)
<1>0. task \in [VmIds -> Task] /\ task[v] \in Task
  BY DEF TypeOK
<1>1. ASSUME NEW pc, Continue(v, pc)
      PROVE  /\ task'[v].pc = pc /\ task'[v].slot = task[v].slot
             /\ OtherTasks(v) /\ phase' = phase
  BY <1>0, <1>1 DEF Continue, OtherTasks, Task
<1>2. ASSUME Finish(v) \/ Fail(v)
      PROVE  task'[v] = Idle /\ OtherTasks(v) /\ phase' \in {phase, "failed"}
  BY <1>0, <1>2 DEF Finish, Fail, OtherTasks
<1>3. ASSUME NEW job, NEW pc, NEW keep, Begin(v, job, pc, keep)
      PROVE  task'[v].pc = pc /\ task'[v].slot = vms[v].slot /\ OtherTasks(v)
  BY <1>0, <1>3 DEF Begin, OtherTasks
<1> QED BY <1>1, <1>2, <1>3

(* Steps that leave the allocator alone and answer for no further slot. *)
LEMMA Settled ==
  ASSUME Placement, NEW v \in VmIds, Others(v), used' = used,
         phase # "down", phase' \in {phase, "failed"},
         Answers(v)' \subseteq Answers(v), VmOK(v)'
  PROVE  Placement'
<1>1. Answers(v) \subseteq used
  BY DEF Placement
<1>2. SlotsKept(v)
  BY <1>1 DEF SlotsKept
<1> QED BY <1>2, Frame

(* An operation that returns, its VM's record and VMM as they were. *)
LEMMA Returns ==
  ASSUME TypeOK, Placement, NEW v \in VmIds, task[v].pc # "idle",
         Finish(v) \/ Fail(v), UNCHANGED <<vms, vmm, used>>
  PROVE  Placement'
<1>1. task'[v] = Idle /\ OtherTasks(v) /\ phase' \in {phase, "failed"}
  BY Moves
<1>2. VmOK(v)
  BY DEF Placement
<1>3. VmOK(v)'
  BY <1>1, <1>2, IdleTask DEF VmOK, HandlerOK, Live, Exited
<1>4. Answers(v)' \subseteq Answers(v)
  BY <1>1, IdleTask DEF Answers
<1>5. Others(v)
  BY <1>1 DEF Others, OtherTasks
<1> QED BY <1>1, <1>3, <1>4, <1>5, Working, Settled

(* An operation that goes on to its next call, with its record and VMM as *)
(* they were.                                                             *)
LEMMA GoesOn ==
  ASSUME TypeOK, Placement, NEW v \in VmIds, task[v].pc # "idle",
         NEW pc, Continue(v, pc), HandlerOK(v)', UNCHANGED <<vms, vmm, used>>
  PROVE  Placement'
<1>1. /\ task'[v].pc = pc /\ task'[v].slot = task[v].slot
      /\ OtherTasks(v) /\ phase' = phase
  BY Moves
<1>2. VmOK(v)
  BY DEF Placement
<1>3. VmOK(v)'
  BY <1>1, <1>2 DEF VmOK, Live
<1>4. Answers(v)' \subseteq Answers(v)
  BY <1>1 DEF Answers
<1>5. Others(v)
  BY <1>1 DEF Others, OtherTasks
<1> QED BY <1>1, <1>3, <1>4, <1>5, Working, Settled

LEMMA CallPlaces ==
  ASSUME TypeOK, Placement, NEW v \in VmIds, Call(v)
  PROVE  Placement'
<1>0. VmOK(v) /\ task \in [VmIds -> Task]
  BY DEF Placement, TypeOK
<1>1. ASSUME NEW n \in 0 .. MaxForwards, CreateVm(v, n) PROVE Placement'
  <2>1. PICK s \in Slots :
          /\ TakeSlot(s)
          /\ task' = [task EXCEPT ![v] =
               [job |-> "create", pc |-> "alloc", slot |-> s, ports |-> {},
                want |-> n, keep |-> FALSE]]
    BY <1>1 DEF CreateVm
  <2>2. task'[v].pc = "alloc" /\ task'[v].slot = s /\ OtherTasks(v)
    BY <1>0, <2>1 DEF OtherTasks
  <2>3. UNCHANGED <<vms, vmm, phase>> /\ phase = "up" /\ vms[v].slot = NoSlot
    BY <1>0, <1>1 DEF CreateVm, VmOK
  <2>4. s # NoSlot /\ s \notin used /\ used' = used \cup {s}
    BY SMTT(60), <2>1, CapacityAssumption DEF TakeSlot, IsNext, Slots, NoSlot
  <2>5. VmOK(v)'
    BY <1>0, <2>2, <2>3, <2>4 DEF VmOK, HandlerOK, Live, Exited
  <2>6. SlotsKept(v)
    BY <2>2, <2>3, <2>4 DEF SlotsKept, Answers
  <2> QED BY <2>2, <2>3, <2>5, <2>6, Frame DEF Others, OtherTasks
<1>2. ASSUME NEW call, Request(v, call), NEW job, NEW pc, NEW keep, Begin(v, job, pc, keep),
             \/ pc \in {"resume", "suspend", "stop", "vmm"}
             \/ pc = "place" /\ vms[v].state = "stopped"
      PROVE Placement'
  <2>1. task'[v].pc = pc /\ task'[v].slot = vms[v].slot /\ OtherTasks(v)
    BY <1>2, Moves
  <2>2. UNCHANGED <<vms, vmm, used, phase>> /\ phase = "up"
    BY <1>2 DEF Request
  <2>3. VmOK(v)'
    BY <1>0, <1>2, <2>1, <2>2 DEF VmOK, HandlerOK, Live, Exited
  <2>4. Answers(v)' \subseteq Answers(v)
    BY <2>1, <2>2 DEF Answers
  <2> QED BY <2>1, <2>2, <2>3, <2>4, Settled DEF Others, OtherTasks
<1>3. CASE StartVm(v)
  BY <1>2, <1>3 DEF StartVm
<1>4. CASE SuspendVm(v) \/ StopVm(v) \/ HaltVm(v) \/ DestroyVm(v) \/ TerminateVm(v)
           \/ RetireSuspension(v)
  BY <1>2, <1>4 DEF SuspendVm, StopVm, HaltVm, DestroyVm, TerminateVm, RetireSuspension
<1>5. ASSUME NEW p \in Ports, NEW pc \in {"declare", "withdraw"},
             task' = [task EXCEPT ![v] = Forwarding(p, pc)],
             UNCHANGED <<vms, vmm, used, phase>>, phase = "up"
      PROVE Placement'
  <2>1. task'[v].pc = pc /\ task'[v].slot = NoSlot /\ OtherTasks(v)
    BY <1>0, <1>5 DEF OtherTasks, Forwarding
  <2>2. VmOK(v)'
    BY <1>0, <1>5, <2>1 DEF VmOK, HandlerOK, Live, Exited
  <2>3. Answers(v)' \subseteq Answers(v)
    BY <1>5, <2>1 DEF Answers
  <2> QED BY <1>5, <2>1, <2>2, <2>3, Settled DEF Others, OtherTasks
<1>6. CASE AddForward(v)
  BY <1>5, <1>6 DEF AddForward
<1>7. ASSUME NEW p \in Ports, RemoveForward(v, p) PROVE Placement'
  BY <1>5, <1>7 DEF RemoveForward
<1> QED BY <1>1, <1>3, <1>4, <1>6, <1>7 DEF Call

(* create_vm's steps up to its record, and bring_up. *)
LEMMA BringUpPlaces ==
  ASSUME TypeOK, Placement, NEW v \in VmIds,
         \/ AllocatePort(v) \/ InsertVm(v) \/ InsertForward(v)
         \/ Provision(v) \/ ApplyNetwork(v) \/ CreateVmm(v) \/ StartVmm(v) \/ SaveRunning(v)
  PROVE  Placement'
<1>0. VmOK(v) /\ task \in [VmIds -> Task] /\ task[v] \in Task
      /\ vms \in [VmIds -> Row] /\ vms[v] \in Row /\ vmm \in [VmIds -> Vmm] /\ vmm[v] \in Vmm
  BY DEF Placement, TypeOK
<1>1. ASSUME NEW pc \in {"rows", "unport", "provision", "apply", "boot", "go"},
             task[v].pc \in {"rows", "unport", "provision", "apply", "boot", "go"},
             Continue(v, pc) \/ BringUpFailed(v), UNCHANGED <<vms, vmm, used>>
      PROVE  Placement'
  <2>1. PICK next \in {"rows", "unport", "provision", "apply", "boot", "go", "vmm"} :
          Continue(v, next)
    BY <1>1 DEF BringUpFailed
  <2>2. task'[v].pc = next /\ task'[v].slot = task[v].slot
    BY <2>1, Moves
  <2>3. HandlerOK(v)'
    BY <1>0, <1>1, <2>2 DEF VmOK, HandlerOK, Exited, Live
  <2> QED BY <1>1, <2>1, <2>3, GoesOn
<1>2. CASE AllocatePort(v)
  <2>0. task[v].pc = "alloc" /\ UNCHANGED <<vms, vmm>>
    BY <1>2 DEF AllocatePort, At
  <2>1. CASE Continue(v, "insert") /\ UNCHANGED <<slotVars, portVars>>
    <3>1. task'[v].pc = "insert" /\ task'[v].slot = task[v].slot
      BY <2>1, Moves
    <3>2. HandlerOK(v)'
      BY <1>0, <2>0, <3>1 DEF VmOK, HandlerOK, Exited, Live
    <3> QED BY <2>0, <2>1, <3>2, GoesOn
  <2>2. ASSUME NEW p, task' = [task EXCEPT ![v].ports = @ \cup {p}, ![v].want = @ - 1],
               UNCHANGED <<slotVars, phase>>
        PROVE Placement'
    <3>1. task'[v].pc = "alloc" /\ task'[v].slot = task[v].slot /\ OtherTasks(v)
      BY <1>0, <2>0, <2>2 DEF Task, OtherTasks
    <3>2. VmOK(v)'
      BY <1>0, <2>0, <3>1 DEF VmOK, HandlerOK, Exited, Live
    <3>3. Answers(v)' \subseteq Answers(v)
      BY <2>0, <3>1 DEF Answers
    <3>4. Others(v)
      BY <2>0, <3>1 DEF Others, OtherTasks
    <3>5. phase # "down" /\ phase' = phase /\ used' = used
      BY <2>0, <2>2, Working
    <3> QED BY <3>2, <3>3, <3>4, <3>5, Settled
  <2>3. CASE used' = used \ {task[v].slot} /\ Fail(v)
    <3>1. task'[v] = Idle /\ OtherTasks(v) /\ phase' \in {phase, "failed"}
      BY <2>3, Moves
    <3>2. VmOK(v)'
      BY <1>0, <2>0, <3>1, IdleTask DEF VmOK, HandlerOK, Exited, Live
    <3>3. vms[v].slot = NoSlot /\ task[v].slot # NoSlot
      BY <1>0, <2>0 DEF VmOK, HandlerOK
    <3>4. SlotsKept(v)
      BY <2>0, <2>3, <3>1, <3>3, IdleTask DEF SlotsKept, Answers
    <3>5. Others(v)
      BY <2>0, <3>1 DEF Others, OtherTasks
    <3>6. phase # "down" /\ phase' # "down"
      BY <2>0, <3>1, Working
    <3> QED BY <3>2, <3>4, <3>5, <3>6, Frame
  <2> QED BY <1>2, <2>1, <2>2, <2>3 DEF AllocatePort
<1>3. CASE InsertVm(v)
  <2>0. task[v].pc = "insert" /\ UNCHANGED <<vmm, used>>
    BY <1>3 DEF InsertVm, At
  <2>1. ASSUME vms' = [vms EXCEPT ![v] =
                 [state |-> "creating", slot |-> task[v].slot, dev |-> FALSE, snap |-> FALSE]],
               Continue(v, "rows")
        PROVE Placement'
    <3>1. /\ task'[v].pc = "rows" /\ task'[v].slot = task[v].slot
          /\ OtherTasks(v) /\ phase' = phase
      BY <2>1, Moves
    <3>2. /\ vms'[v].slot = task[v].slot /\ vms'[v].state = "creating"
          /\ \A w \in VmIds \ {v} : vms'[w] = vms[w]
      BY <1>0, <2>1
    <3>3. VmOK(v)'
      BY <1>0, <2>0, <3>1, <3>2 DEF VmOK, HandlerOK, Exited, Live
    <3>4. Answers(v)' \subseteq Answers(v)
      BY <3>1, <3>2 DEF Answers
    <3> QED BY <2>0, <3>1, <3>2, <3>3, <3>4, Working, Settled DEF Others, OtherTasks
  <2>2. CASE UNCHANGED vms /\ Fail(v)
    BY <2>0, <2>2, Returns
  <2> QED BY <1>3, <2>1, <2>2 DEF InsertVm
<1>4. CASE InsertForward(v)
  <2>0. task[v].pc = "rows" /\ UNCHANGED <<vms, vmm, used>>
    BY <1>4 DEF InsertForward, At
  <2>1. ASSUME UNCHANGED <<task, phase>> PROVE Placement'
    BY <2>0, <2>1 DEF Placement, VmOK, HandlerOK, Exited, Live, Answers
  <2> QED BY <1>1, <1>4, <2>0, <2>1 DEF InsertForward
<1>5. CASE Provision(v)
  BY <1>1, <1>5 DEF Provision, At
<1>6. CASE ApplyNetwork(v)
  BY <1>1, <1>6 DEF ApplyNetwork, At
<1>7. CASE CreateVmm(v)
  <2>0. task[v].pc = "boot" /\ UNCHANGED <<vms, used>>
    BY <1>7 DEF CreateVmm, At
  <2>1. PICK next \in {"go", "unport", "vmm"} : Continue(v, next)
    BY <1>7 DEF CreateVmm, BringUpFailed
  <2>2. /\ task'[v].pc = next /\ task'[v].slot = task[v].slot
        /\ OtherTasks(v) /\ phase' = phase
    BY <2>1, Moves
  <2>3. vmm' = vmm \/ (vmm'[v].slot = task[v].slot /\ \A w \in VmIds \ {v} : vmm'[w] = vmm[w])
    <3> DEFINE spawned == [status |-> "created", slot |-> task[v].slot,
                           stale |-> ResumesOwn(v) /\ snapFile[v] = "stale"]
    <3>1. vmm' \in {vmm, [vmm EXCEPT ![v] = spawned]}
      BY <1>7 DEF CreateVmm
    <3>2. spawned.slot = task[v].slot
      OBVIOUS
    <3> HIDE DEF spawned
    <3> QED BY <1>0, <3>1, <3>2
  <2>4. VmOK(v)'
    BY <1>0, <2>0, <2>2, <2>3 DEF VmOK, HandlerOK, Exited, Live
  <2>5. Answers(v)' \subseteq Answers(v)
    BY <2>0, <2>2 DEF Answers
  <2> QED BY <2>0, <2>2, <2>3, <2>4, <2>5, Working, Settled DEF Others, OtherTasks
<1>8. CASE StartVmm(v)
  <2>0. task[v].pc = "go" /\ UNCHANGED <<vms, used>>
    BY <1>8 DEF StartVmm, At
  <2>1. ASSUME Live(v), vmm' = [vmm EXCEPT ![v].status = "running"], Continue(v, "saveRunning")
        PROVE Placement'
    <3>1. /\ task'[v].pc = "saveRunning" /\ task'[v].slot = task[v].slot
          /\ OtherTasks(v) /\ phase' = phase
      BY <2>1, Moves
    <3>2. vmm'[v].slot = vmm[v].slot /\ \A w \in VmIds \ {v} : vmm'[w] = vmm[w]
      BY <1>0, <2>1 DEF Vmm
    <3>3. VmOK(v)'
      BY <1>0, <2>0, <2>1, <3>1, <3>2 DEF VmOK, HandlerOK, Exited, Live
    <3>4. Answers(v)' \subseteq Answers(v)
      BY <2>0, <3>1 DEF Answers
    <3> QED BY <2>0, <3>1, <3>2, <3>3, <3>4, Working, Settled DEF Others, OtherTasks
  <2> QED BY <1>1, <1>8, <2>0, <2>1 DEF StartVmm
<1>9. CASE SaveRunning(v)
  <2>0. task[v].pc = "saveRunning" /\ UNCHANGED <<vmm, used>>
    BY <1>9 DEF SaveRunning, At
  <2>1. ASSUME vms' = [vms EXCEPT ![v].state = "running", ![v].dev = TRUE],
               Continue(v, "retire") \/ Finish(v)
        PROVE Placement'
    <3>1. /\ vms'[v].slot = vms[v].slot /\ vms'[v].state = "running"
          /\ \A w \in VmIds \ {v} : vms'[w] = vms[w]
      BY <1>0, <2>1 DEF Row
    <3>2. /\ \/ task'[v].pc = "retire" /\ task'[v].slot = task[v].slot
             \/ task'[v] = Idle
          /\ OtherTasks(v) /\ phase' \in {phase, "failed"}
      BY <2>1, Moves
    <3>3. VmOK(v)'
      BY <1>0, <2>0, <3>1, <3>2, IdleTask DEF VmOK, HandlerOK, Exited, Live
    <3>4. Answers(v)' \subseteq Answers(v)
      BY <3>1, <3>2, IdleTask DEF Answers
    <3> QED BY <2>0, <3>1, <3>2, <3>3, <3>4, Working, Settled DEF Others, OtherTasks
  <2>2. CASE UNCHANGED vms /\ Fail(v)
    BY <2>0, <2>2, Returns
  <2> QED BY <1>9, <2>1, <2>2 DEF SaveRunning
<1> QED BY <1>2, <1>3, <1>4, <1>5, <1>6, <1>7, <1>8, <1>9

(* start_vm, suspend_vm, stop_vm and retire_suspension. *)
LEMMA LifecyclePlaces ==
  ASSUME TypeOK, Placement, NEW v \in VmIds,
         \/ ResumeVmm(v) \/ Place(v) \/ SaveCreating(v)
         \/ Suspend(v) \/ SaveSuspended(v) \/ StopVmm(v) \/ RetireVmm(v)
  PROVE  Placement'
<1>0. VmOK(v) /\ task \in [VmIds -> Task] /\ task[v] \in Task
      /\ vms \in [VmIds -> Row] /\ vms[v] \in Row /\ vmm \in [VmIds -> Vmm] /\ vmm[v] \in Vmm
  BY DEF Placement, TypeOK
<1>1. ASSUME task[v].pc \in {"resume", "suspend", "stop", "retire"},
             vmm[v].status \in {"created", "running", "paused"},
             NEW status \in {"running", "paused", "exited"},
             vmm' = [vmm EXCEPT ![v].status = status] \/ UNCHANGED vmm,
             UNCHANGED <<vms, used>>, OtherTasks(v), phase' \in {phase, "failed"},
             \/ task'[v] = Idle
             \/ /\ task'[v].pc \in {"saveRunning", "saveSuspended", "vmm"}
                /\ task'[v].slot = task[v].slot
      PROVE  Placement'
  <2>1. vmm'[v].slot = vmm[v].slot /\ \A w \in VmIds \ {v} : vmm'[w] = vmm[w]
    BY <1>0, <1>1 DEF Vmm
  <2>2. VmOK(v)'
    BY <1>0, <1>1, <2>1, IdleTask DEF VmOK, HandlerOK, Exited, Live
  <2>3. Answers(v)' \subseteq Answers(v)
    BY <1>1, IdleTask DEF Answers
  <2> QED BY <1>1, <2>1, <2>2, <2>3, Working, Settled DEF Others, OtherTasks
<1>2. CASE ResumeVmm(v)
  <2>1. task[v].pc = "resume" /\ UNCHANGED <<vms, used>>
    BY <1>2 DEF ResumeVmm, At
  <2>2. CASE /\ vmm[v].status = "paused" /\ vmm' = [vmm EXCEPT ![v].status = "running"]
             /\ Continue(v, "saveRunning")
    BY <1>1, <2>1, <2>2, Moves
  <2>3. CASE Fail(v) /\ UNCHANGED vmm
    BY <2>1, <2>3, Returns
  <2> QED BY <1>2, <2>2, <2>3 DEF ResumeVmm
<1>3. CASE Place(v)
  <2>0. task[v].pc = "place" /\ UNCHANGED <<vms, vmm>> /\ phase # "down"
    BY <1>3, Working DEF Place, At
  <2>1. ASSUME NEW s \in Slots, TakeSlot(s), UNCHANGED phase,
               task' = [task EXCEPT ![v].pc = "saveCreating", ![v].slot = s,
                          ![v].job = IF @ = "restart" THEN "rerun" ELSE @]
        PROVE Placement'
    <3>1. task'[v].pc = "saveCreating" /\ task'[v].slot = s /\ OtherTasks(v)
      BY <1>0, <2>1 DEF Task, OtherTasks
    <3>2. s # NoSlot /\ s \notin used /\ used' = used \cup {s}
      BY SMTT(60), <2>1, CapacityAssumption DEF TakeSlot, IsNext, Slots, NoSlot
    <3>3. vms[v].slot = NoSlot /\ task[v].slot = NoSlot
      BY <1>0, <2>0 DEF VmOK, HandlerOK
    <3>4. VmOK(v)'
      BY <1>0, <2>0, <3>1, <3>2, <3>3 DEF VmOK, HandlerOK, Exited, Live
    <3>5. SlotsKept(v)
      BY <2>0, <3>1, <3>2, <3>3 DEF SlotsKept, Answers
    <3>6. Others(v)
      BY <2>0, <3>1 DEF Others, OtherTasks
    <3>7. phase' # "down"
      BY <2>0, <2>1
    <3> QED BY <2>0, <3>4, <3>5, <3>6, <3>7, Frame
  <2>2. CASE Fail(v) /\ UNCHANGED <<slotVars, savedCursor>>
    BY <2>0, <2>2, Returns
  <2> QED BY <1>3, <2>1, <2>2 DEF Place
<1>4. CASE SaveCreating(v)
  <2>0. task[v].pc = "saveCreating" /\ UNCHANGED <<vmm, used>>
    BY <1>4 DEF SaveCreating, At
  <2>1. ASSUME vms' = [vms EXCEPT ![v].state = "creating", ![v].slot = task[v].slot],
               Continue(v, "provision")
        PROVE Placement'
    <3>1. /\ task'[v].pc = "provision" /\ task'[v].slot = task[v].slot
          /\ OtherTasks(v) /\ phase' = phase
      BY <2>1, Moves
    <3>2. /\ vms'[v].slot = task[v].slot /\ vms'[v].state = "creating"
          /\ \A w \in VmIds \ {v} : vms'[w] = vms[w]
      BY <1>0, <2>1 DEF Row
    <3>3. VmOK(v)'
      BY <1>0, <2>0, <3>1, <3>2 DEF VmOK, HandlerOK, Exited, Live
    <3>4. Answers(v)' \subseteq Answers(v)
      BY <3>1, <3>2 DEF Answers
    <3> QED BY <2>0, <3>1, <3>2, <3>3, <3>4, Working, Settled DEF Others, OtherTasks
  <2>2. CASE UNCHANGED vms /\ Fail(v)
    BY <2>0, <2>2, Returns
  <2> QED BY <1>4, <2>1, <2>2 DEF SaveCreating
<1>5. CASE Suspend(v)
  <2>0. task[v].pc = "suspend" /\ UNCHANGED <<vms, used>>
    BY <1>5 DEF Suspend, At
  <2>1. CASE /\ vmm[v].status \in {"running", "paused"}
             /\ vmm' = [vmm EXCEPT ![v].status = "paused"]
             /\ Continue(v, "saveSuspended")
    BY <1>1, <2>0, <2>1, Moves
  <2>2. CASE /\ vmm[v].status \in {"running", "paused"}
             /\ vmm' \in {vmm, [vmm EXCEPT ![v].status = "paused"]}
             /\ Fail(v)
    BY <1>1, <2>0, <2>2, Moves
  <2>3. CASE Fail(v) /\ UNCHANGED vmm
    BY <2>0, <2>3, Returns
  <2> QED BY <1>5, <2>1, <2>2, <2>3 DEF Suspend
<1>6. CASE SaveSuspended(v)
  <2>0. task[v].pc = "saveSuspended" /\ UNCHANGED <<vmm, used>>
    BY <1>6 DEF SaveSuspended, At
  <2>1. ASSUME vms' = [vms EXCEPT ![v].state = "suspended", ![v].snap = TRUE], Finish(v)
        PROVE Placement'
    <3>1. task'[v] = Idle /\ OtherTasks(v) /\ phase' \in {phase, "failed"}
      BY <2>1, Moves
    <3>2. /\ vms'[v].slot = vms[v].slot /\ vms'[v].state = "suspended"
          /\ \A w \in VmIds \ {v} : vms'[w] = vms[w]
      BY <1>0, <2>1 DEF Row
    <3>3. VmOK(v)'
      BY <1>0, <2>0, <3>1, <3>2, IdleTask DEF VmOK, HandlerOK, Exited, Live
    <3>4. Answers(v)' \subseteq Answers(v)
      BY <3>1, <3>2, IdleTask DEF Answers
    <3> QED BY <2>0, <3>1, <3>2, <3>3, <3>4, Working, Settled DEF Others, OtherTasks
  <2>2. CASE UNCHANGED vms /\ Fail(v)
    BY <2>0, <2>2, Returns
  <2> QED BY <1>6, <2>1, <2>2 DEF SaveSuspended
<1>7. CASE StopVmm(v)
  <2>0. task[v].pc = "stop" /\ UNCHANGED <<vms, used>>
    BY <1>7 DEF StopVmm, At
  <2>1. CASE Live(v) /\ vmm' = [vmm EXCEPT ![v].status = "exited"] /\ Continue(v, "vmm")
    BY <1>1, <2>0, <2>1, Moves DEF Live
  <2>2. CASE Fail(v) /\ UNCHANGED vmm
    BY <2>0, <2>2, Returns
  <2> QED BY <1>7, <2>1, <2>2 DEF StopVmm
<1>8. CASE RetireVmm(v)
  <2>0. task[v].pc = "retire" /\ UNCHANGED <<vms, used>>
    BY <1>8 DEF RetireVmm, At
  <2>1. ASSUME Live(v), vmm' = [vmm EXCEPT ![v].status = "exited"], UNCHANGED phase,
               task' = [task EXCEPT ![v].job = "terminate", ![v].pc = "vmm"]
        PROVE Placement'
    <3>1. task'[v].pc = "vmm" /\ task'[v].slot = task[v].slot /\ OtherTasks(v)
      BY <1>0, <2>1 DEF Task, OtherTasks
    <3> QED BY <1>1, <2>0, <2>1, <3>1 DEF Live
  <2>2. CASE Fail(v) /\ UNCHANGED vmm
    BY <2>0, <2>2, Returns
  <2> QED BY <1>8, <2>1, <2>2 DEF RetireVmm
<1> QED BY <1>2, <1>3, <1>4, <1>5, <1>6, <1>7, <1>8

(* Letting go of a placement: the VMM, then the network, then the record, *)
(* and only then the slot.                                                *)
LEMMA TearDownPlaces ==
  ASSUME TypeOK, Placement, NEW v \in VmIds,
         \/ UnallocatePorts(v) \/ TearDownVmm(v) \/ TearDownNet(v) \/ FreePorts(v)
         \/ TearDownVolume(v) \/ DeleteVm(v) \/ SaveStopped(v) \/ FreeSlot(v)
  PROVE  Placement'
<1>0. VmOK(v) /\ task \in [VmIds -> Task] /\ task[v] \in Task
      /\ vms \in [VmIds -> Row] /\ vms[v] \in Row /\ vmm \in [VmIds -> Vmm] /\ vmm[v] \in Vmm
  BY DEF Placement, TypeOK
<1>1. ASSUME NEW pc \in {"save", "ports", "volume", "delete"},
             task[v].pc \in {"net", "ports", "volume"},
             Continue(v, pc), UNCHANGED <<vms, vmm, used>>
      PROVE  Placement'
  <2>1. task'[v].pc = pc /\ task'[v].slot = task[v].slot
    BY <1>1, Moves
  <2>2. HandlerOK(v)'
    BY <1>0, <1>1, <2>1 DEF VmOK, HandlerOK, Exited, Live
  <2> QED BY <1>1, <2>2, GoesOn
<1>2. CASE UnallocatePorts(v)
  <2>0. task[v].pc = "unport" /\ UNCHANGED <<vms, vmm, used>> /\ Continue(v, "vmm")
    BY <1>2 DEF UnallocatePorts, At
  <2>1. task'[v].pc = "vmm" /\ task'[v].slot = task[v].slot
    BY <2>0, Moves
  <2>2. HandlerOK(v)'
    BY <1>0, <2>0, <2>1 DEF VmOK, HandlerOK, Exited, Live
  <2> QED BY <2>0, <2>2, GoesOn
<1>3. CASE TearDownVmm(v)
  <2>0. task[v].pc = "vmm" /\ UNCHANGED <<vms, used>> /\ vmm' = [vmm EXCEPT ![v] = NoVmm]
    BY <1>3 DEF TearDownVmm, At
  <2>1. vmm'[v] = NoVmm /\ \A w \in VmIds \ {v} : vmm'[w] = vmm[w]
    BY <1>0, <2>0
  <2>2. /\ \/ task'[v].pc = "net" /\ task'[v].slot = task[v].slot
           \/ task'[v] = Idle
        /\ OtherTasks(v) /\ phase' \in {phase, "failed"}
    BY <1>3, Moves DEF TearDownVmm
  <2>3. VmOK(v)'
    BY <1>0, <2>0, <2>1, <2>2, IdleTask DEF VmOK, HandlerOK, Exited, Live, NoVmm
  <2>4. Answers(v)' \subseteq Answers(v)
    BY <2>0, <2>2, IdleTask DEF Answers
  <2> QED BY <2>0, <2>1, <2>2, <2>3, <2>4, Working, Settled DEF Others, OtherTasks
<1>4. CASE TearDownNet(v)
  <2>0. task[v].pc = "net" /\ UNCHANGED <<vms, vmm, used>>
    BY <1>4 DEF TearDownNet, At
  <2>1. Fail(v) \/ \E pc \in {"save", "ports", "volume", "delete"} : Continue(v, pc)
    BY <1>4 DEF TearDownNet
  <2> QED BY <1>1, <2>0, <2>1, Returns
<1>5. CASE FreePorts(v)
  BY <1>1, <1>5 DEF FreePorts, At
<1>6. CASE TearDownVolume(v)
  BY <1>1, <1>6 DEF TearDownVolume, At
<1>7. ASSUME task[v].slot = NoSlot \/ task[v].pc = "free", LetGo(v)
      PROVE  /\ \/ task'[v].pc = "place" /\ task'[v].slot = NoSlot
                \/ task'[v] = Idle
             /\ OtherTasks(v) /\ phase' \in {phase, "failed"}
  <2>1. ASSUME task' = [task EXCEPT ![v].pc = "place", ![v].slot = NoSlot], UNCHANGED phase
        PROVE  /\ task'[v].pc = "place" /\ task'[v].slot = NoSlot
               /\ OtherTasks(v) /\ phase' \in {phase, "failed"}
    BY <1>0, <2>1 DEF Task, OtherTasks
  <2> QED BY <1>7, <2>1, Moves DEF LetGo
<1>8. ASSUME task[v].pc \in {"delete", "save"}, AfterSave(v), UNCHANGED <<vmm, used>>,
             vms'[v].slot = NoSlot, \A w \in VmIds \ {v} : vms'[w] = vms[w]
      PROVE  Placement'
  <2>1. /\ \/ task'[v].pc = "free" /\ task'[v].slot = task[v].slot /\ task[v].slot # NoSlot
           \/ task'[v].pc = "place" /\ task'[v].slot = NoSlot
           \/ task'[v] = Idle
        /\ OtherTasks(v) /\ phase' \in {phase, "failed"}
    BY <1>7, <1>8, Moves DEF AfterSave
  <2>2. VmOK(v)'
    BY <1>0, <1>8, <2>1, IdleTask DEF VmOK, HandlerOK, Exited, Live
  <2>3. Answers(v)' \subseteq Answers(v)
    BY <1>8, <2>1, IdleTask DEF Answers
  <2> QED BY <1>8, <2>1, <2>2, <2>3, Working, Settled DEF Others, OtherTasks
<1>9. CASE DeleteVm(v)
  <2>0. task[v].pc = "delete" /\ UNCHANGED <<vmm, used>>
    BY <1>9 DEF DeleteVm, At
  <2>1. ASSUME vms' = [vms EXCEPT ![v] = NoRow], AfterSave(v) PROVE Placement'
    <3>1. vms'[v].slot = NoSlot /\ \A w \in VmIds \ {v} : vms'[w] = vms[w]
      BY <1>0, <2>1 DEF NoRow
    <3> QED BY <1>8, <2>0, <2>1, <3>1
  <2>2. CASE UNCHANGED vms /\ Fail(v)
    BY <2>0, <2>2, Returns
  <2> QED BY <1>9, <2>1, <2>2 DEF DeleteVm
<1>10. CASE SaveStopped(v)
  <2>0. task[v].pc = "save" /\ UNCHANGED <<vmm, used>>
    BY <1>10 DEF SaveStopped, At
  <2>1. ASSUME vms' = [vms EXCEPT ![v].state = "stopped", ![v].slot = NoSlot,
                         ![v].snap = @ /\ task[v].job # "terminate"], AfterSave(v)
        PROVE Placement'
    <3>1. vms'[v].slot = NoSlot /\ \A w \in VmIds \ {v} : vms'[w] = vms[w]
      BY <1>0, <2>1 DEF Row
    <3>2. task[v].pc \in {"delete", "save"} /\ AfterSave(v) /\ UNCHANGED <<vmm, used>>
      BY <2>0, <2>1
    <3> QED BY <1>8, <3>1, <3>2
  <2>2. CASE UNCHANGED vms /\ Fail(v)
    BY <2>0, <2>2, Returns
  <2> QED BY <1>10, <2>1, <2>2 DEF SaveStopped
<1>11. CASE FreeSlot(v)
  <2>0. task[v].pc = "free" /\ UNCHANGED <<vms, vmm>> /\ used' = used \ {task[v].slot}
    BY <1>11 DEF FreeSlot, At
  <2>1. vms[v].slot = NoSlot /\ task[v].slot # NoSlot
    BY <1>0, <2>0 DEF VmOK, HandlerOK
  <2>2. /\ \/ task'[v].pc = "place" /\ task'[v].slot = NoSlot
           \/ task'[v] = Idle
        /\ OtherTasks(v) /\ phase' \in {phase, "failed"}
    BY <1>7, <1>11, <2>0 DEF FreeSlot
  <2>3. VmOK(v)'
    BY <1>0, <2>0, <2>1, <2>2, IdleTask DEF VmOK, HandlerOK, Exited, Live
  <2>4. SlotsKept(v)
    BY <2>0, <2>1, <2>2, IdleTask DEF SlotsKept, Answers
  <2> QED BY <2>0, <2>2, <2>3, <2>4, Working, Frame DEF Others, OtherTasks
<1> QED BY <1>2, <1>3, <1>4, <1>5, <1>6, <1>9, <1>10, <1>11

(* Forwards at run time touch no slot. *)
LEMMA ForwardPlaces ==
  ASSUME TypeOK, Placement, NEW v \in VmIds,
         DeclareForward(v) \/ SteerForward(v) \/ WithdrawForward(v)
  PROVE  Placement'
<1>0. VmOK(v)
  BY DEF Placement
<1>1. task[v].pc \in {"declare", "steer", "withdraw"} /\ UNCHANGED <<vms, vmm, used>>
  BY DEF DeclareForward, SteerForward, WithdrawForward, At
<1>2. Finish(v) \/ Fail(v) \/ Continue(v, "steer")
  BY DEF DeclareForward, SteerForward, WithdrawForward
<1>3. ASSUME Continue(v, "steer") PROVE Placement'
  <2>1. task'[v].pc = "steer" /\ task'[v].slot = task[v].slot
    BY <1>3, Moves
  <2>2. HandlerOK(v)'
    BY <1>0, <1>1, <2>1 DEF VmOK, HandlerOK, Exited, Live
  <2> QED BY <1>1, <1>3, <2>2, GoesOn
<1> QED BY <1>1, <1>2, <1>3, Returns

(* What runs beside the handlers: exits and writes of guests, dropped *)
(* requests, the supervisor, and recovery's second half.              *)
LEMMA BesidePlaces ==
  ASSUME TypeOK, Placement, NEW v \in VmIds,
         \/ VmmExit(v) \/ GuestWrites(v) \/ Cancel(v)
         \/ Probe(v) \/ Reap(v) \/ RecoverVm(v)
  PROVE  Placement'
<1>0. VmOK(v) /\ task \in [VmIds -> Task] /\ task[v] \in Task
      /\ vmm \in [VmIds -> Vmm] /\ vmm[v] \in Vmm
  BY DEF Placement, TypeOK
<1>1. CASE VmmExit(v)
  <2>1. /\ Live(v) /\ vmm' = [vmm EXCEPT ![v].status = "exited"]
        /\ UNCHANGED <<vms, task, used, phase>>
    BY <1>1 DEF VmmExit
  <2>2. vmm'[v].status = "exited" /\ \A w \in VmIds \ {v} : vmm'[w] = vmm[w]
    BY <1>0, <2>1 DEF Vmm
  <2>3. \A w \in VmIds : Answers(w)' = Answers(w)
    BY <2>1 DEF Answers
  <2>4. ASSUME NEW w \in VmIds PROVE VmOK(w)'
    <3>1. VmOK(w)
      BY DEF Placement
    <3>2. CASE w = v
      BY <3>1, <3>2, <2>1, <2>2 DEF VmOK, HandlerOK, Live, Exited
    <3>3. CASE w # v
      BY <3>1, <3>3, <2>1, <2>2 DEF VmOK, HandlerOK, Live, Exited
    <3> QED BY <3>2, <3>3
  <2> QED BY <2>1, <2>3, <2>4 DEF Placement
<1>2. ASSUME UNCHANGED <<vms, task, vmm, used, phase>> PROVE Placement'
  BY <1>2 DEF Placement, Answers, VmOK, HandlerOK, Live, Exited
<1>3. CASE GuestWrites(v)
  BY <1>2, <1>3 DEF GuestWrites
<1>4. CASE Probe(v)
  BY <1>2, <1>4 DEF Probe
<1>5. CASE Cancel(v)
  <2>1. task[v].pc # "idle" /\ UNCHANGED <<vms, vmm, used>> /\ Finish(v)
    BY <1>5 DEF Cancel, NotAwaiting, Finish
  <2> QED BY <2>1, Returns
<1>6. ASSUME NEW job, NEW keep, NEW pc \in {"vmm", "net"}, Begin(v, job, pc, keep),
             pc = "net" => Exited(v), UNCHANGED <<vms, vmm, used, phase>>, phase # "down"
      PROVE  Placement'
  <2>1. task'[v].pc = pc /\ task'[v].slot = vms[v].slot /\ OtherTasks(v)
    BY <1>6, Moves
  <2>2. VmOK(v)'
    BY <1>0, <1>6, <2>1 DEF VmOK, HandlerOK, Exited, Live
  <2>3. Answers(v)' \subseteq Answers(v)
    BY <1>6, <2>1 DEF Answers
  <2> QED BY <1>6, <2>1, <2>2, <2>3, Settled DEF Others, OtherTasks
<1>7. ASSUME HandleExit(v), Exited(v), UNCHANGED <<vms, vmm, used, phase>>, phase # "down"
      PROVE  Placement'
  BY <1>6, <1>7 DEF HandleExit
<1>8. CASE Reap(v)
  BY <1>2, <1>7, <1>8 DEF Reap
<1>9. CASE RecoverVm(v)
  <2>1. UNCHANGED <<vms, vmm, used, phase>> /\ phase # "down"
    BY <1>9 DEF RecoverVm
  <2>2. \/ HandleExit(v) /\ Exited(v)
        \/ Begin(v, "abandon", "vmm", v \in Durable /\ vms[v].dev)
        \/ UNCHANGED task
    BY <1>9 DEF RecoverVm, Abandon
  <2> QED BY <1>2, <1>6, <1>7, <2>1, <2>2
<1> QED BY <1>1, <1>3, <1>4, <1>5, <1>8, <1>9

(* The daemon's death takes only what handlers answered for; a restart takes *)
(* every slot on record before it serves.                                    *)
LEMMA DaemonPlaces ==
  ASSUME TypeOK, Placement, Crash \/ GiveUp \/ Boot \/ Serve
  PROVE  Placement'
<1>0. vms \in [VmIds -> Row] /\ task \in [VmIds -> Task]
  BY DEF TypeOK
<1>1. ASSUME Forget, \/ UNCHANGED vmm
                     \/ vmm' = [v \in VmIds |-> NoVmm]
      PROVE  Placement'
  <2>1. /\ UNCHANGED vms /\ phase' = "down" /\ \A v \in VmIds : task'[v] = Idle
    BY <1>1 DEF Forget
  <2>2. \A v \in VmIds : Answers(v)' \subseteq Answers(v)
    BY <2>1, IdleTask DEF Answers
  <2>3. ASSUME NEW v \in VmIds PROVE VmOK(v)'
    <3>1. VmOK(v)
      BY DEF Placement
    <3>2. vmm'[v] \in {vmm[v], NoVmm}
      BY <1>1
    <3>3. Live(v)' => Live(v) /\ vmm'[v] = vmm[v]
      BY SMTT(60), <3>2 DEF Live, NoVmm
    <3>4. task'[v] = Idle
      BY <2>1
    <3>5. task'[v].pc = "idle"
      BY <3>4, IdleTask
    <3>6. HandlerOK(v)'
      BY <3>4, <3>5 DEF HandlerOK
    <3> QED BY <2>1, <3>1, <3>3, <3>6 DEF VmOK
  <2>4. ASSUME NEW v \in VmIds, NEW w \in VmIds, v # w
        PROVE  (Answers(v) \cap Answers(w) = {})'
    BY <2>2, <2>4 DEF Placement
  <2> QED BY <2>1, <2>3, <2>4 DEF Placement
<1>2. CASE Crash
  BY <1>1, <1>2 DEF Crash
<1>3. CASE GiveUp
  BY <1>1, <1>3 DEF GiveUp
<1>4. CASE Boot
  <2>1. UNCHANGED <<vms, vmm, task>> /\ phase = "down" /\ phase' = "recovering" /\ used' = Claimed
    BY <1>4 DEF Boot
  <2>2. \A v \in VmIds : task[v] = Idle
    BY <2>1 DEF Placement
  <2>3. \A v \in VmIds : Answers(v)' = Answers(v) /\ Answers(v) \subseteq Claimed
    BY <2>1, <2>2, IdleTask DEF Answers, Claimed
  <2>4. \A v \in VmIds : VmOK(v)'
    BY <2>1 DEF Placement, VmOK, HandlerOK, Live, Exited
  <2> QED BY <2>1, <2>3, <2>4 DEF Placement
<1>5. CASE Serve
  <2>1. UNCHANGED <<vms, vmm, task, used>> /\ phase = "recovering" /\ phase' = "up"
    BY <1>5 DEF Serve
  <2>2. \A v \in VmIds : Answers(v)' = Answers(v) /\ VmOK(v)'
    BY <2>1 DEF Placement, VmOK, HandlerOK, Live, Exited, Answers
  <2> QED BY <2>1, <2>2 DEF Placement
<1> QED BY <1>2, <1>3, <1>4, <1>5

(* Placement holds at every moment: the control plane's handlers, its       *)
(* supervisor and its recovery keep every slot with one VM, through every   *)
(* fault, crash and dropped request.                                        *)
THEOREM PlacementInvariant == Spec => []Placement
<1>1. Init => Placement
  <2> SUFFICES ASSUME Init PROVE Placement
    OBVIOUS
  <2>1. ASSUME NEW v \in VmIds
        PROVE  /\ vms[v].state = "none" /\ vms[v].slot = NoSlot
               /\ task[v] = Idle
               /\ vmm[v].status = "absent"
    BY DEF Init, NoRow, NoVmm
  <2>2. \A v \in VmIds : Answers(v) = {}
    BY <2>1, IdleTask DEF Answers
  <2>3. ASSUME NEW v \in VmIds PROVE HandlerOK(v)
    BY <2>1, IdleTask DEF HandlerOK
  <2>4. ASSUME NEW v \in VmIds PROVE VmOK(v)
    BY <2>1, <2>3 DEF VmOK, Live
  <2> QED BY <2>1, <2>2, <2>4 DEF Placement
<1>2. TypeOK /\ Placement /\ [Next]_vars => Placement'
  <2> SUFFICES ASSUME TypeOK, Placement, [Next]_vars PROVE Placement'
    OBVIOUS
  <2>1. ASSUME NEW v \in VmIds, Call(v) PROVE Placement'
    BY <2>1, CallPlaces
  <2>2. ASSUME NEW v \in VmIds, Step(v) PROVE Placement'
    BY <2>2, BringUpPlaces, LifecyclePlaces, TearDownPlaces, ForwardPlaces DEF Step
  <2>3. ASSUME NEW v \in VmIds,
               \/ VmmExit(v) \/ GuestWrites(v) \/ Cancel(v)
               \/ Probe(v) \/ Reap(v) \/ RecoverVm(v)
        PROVE  Placement'
    BY <2>3, BesidePlaces
  <2>4. CASE Crash \/ GiveUp \/ Boot \/ Serve
    BY <2>4, DaemonPlaces
  <2>5. CASE UNCHANGED vars
    BY <2>5 DEF vars, Placement, Answers, VmOK, HandlerOK, Live, Exited
  <2> QED BY <2>1, <2>2, <2>3, <2>4, <2>5 DEF Next
<1> QED BY <1>1, <1>2, TypeCorrect, PTL DEF Spec

(* No two records ever hold one slot, so identify has at most one answer. *)
THEOREM SlotsExclusive == Spec => []SlotExclusive
<1>1. Placement => SlotExclusive
  BY DEF Placement, SlotExclusive, Answers
<1> QED BY <1>1, PlacementInvariant, PTL

(* A live guest is identified by its slot as itself, and as nobody else. *)
THEOREM GuestsIdentified == Spec => []GuestIdentified
<1>1. Placement => GuestIdentified
  <2> SUFFICES ASSUME Placement, NEW v \in VmIds, Live(v)
               PROVE  Identify(vmm[v].slot) = {v}
    BY DEF GuestIdentified
  <2>1. vmm[v].slot = vms[v].slot /\ vms[v].slot # NoSlot
    BY DEF Placement, VmOK
  <2>2. \A w \in VmIds : vms[w].slot = vms[v].slot => w = v
    BY <2>1 DEF Placement, Answers
  <2> QED BY <2>1, <2>2 DEF Identify
<1> QED BY <1>1, PlacementInvariant, PTL

-----------------------------------------------------------------------------
(* What one VM's step may do to the lease: leave the record's slot as it is, *)
(* put one on a record that had none, or take it off, with no guest there.   *)
Kept(v) == vms'[v].slot = vms[v].slot
Taken(v) == vms[v].slot = NoSlot /\ ~Live(v)'
Given(v) == vms'[v].slot = NoSlot /\ ~Live(v)
OthersStay(v) == \A w \in VmIds \ {v} : vms'[w] = vms[w] /\ vmm'[w] = vmm[w]

(* Slots are numbers, which NoSlot is not; nobody is NoVm. *)
LEMMA Reserved == NoSlot \notin Slots /\ NoVm \notin VmIds
BY SMTT(60), CapacityAssumption, SetsAssumption DEF Slots, NoSlot

(* The record that holds a slot is its lessee and there is no other; a guest *)
(* runs in the slot its VM's record holds.                                   *)
Lessees ==
  \A s \in Slots :
    /\ \A v \in VmIds : Holder[s] = v <=> vms[v].slot = s
    /\ Holder[s] = NoVm <=> \A v \in VmIds : vms[v].slot # s
Tenants ==
  \A s \in Slots : Guests[s] = {v \in VmIds : Live(v) /\ vms[v].slot = s}

LEMMA Mapped == Placement => Lessees /\ Tenants
<1> SUFFICES ASSUME Placement, NEW s \in Slots
             PROVE  /\ \A v \in VmIds : Holder[s] = v <=> vms[v].slot = s
                    /\ Holder[s] = NoVm <=> \A v \in VmIds : vms[v].slot # s
                    /\ Guests[s] = {v \in VmIds : Live(v) /\ vms[v].slot = s}
  BY DEF Lessees, Tenants
<1>1. \A u, w \in VmIds : vms[u].slot = s /\ vms[w].slot = s => u = w
  BY Reserved DEF Placement, Answers
<1>2. Guests[s] = {v \in VmIds : Live(v) /\ vms[v].slot = s}
  <2>1. \A v \in VmIds : Live(v) => vmm[v].slot = vms[v].slot
    BY DEF Placement, VmOK
  <2> QED BY <2>1 DEF Guests
<1>3. CASE Identify(s) = {}
  <2>1. Holder[s] = NoVm
    BY <1>3 DEF Holder
  <2>2. \A w \in VmIds : vms[w].slot # s
    BY <1>3 DEF Identify
  <2> QED BY <2>1, <2>2, <1>2, Reserved
<1>4. CASE Identify(s) # {}
  <2>1. Holder[s] \in Identify(s)
    BY <1>4 DEF Holder
  <2>2. Holder[s] \in VmIds /\ vms[Holder[s]].slot = s
    BY <2>1 DEF Identify
  <2> QED BY <1>1, <2>2, <1>2, Reserved
<1> QED BY <1>3, <1>4

LEMMA MappedNext == Placement' => Lessees' /\ Tenants'
BY Mapped, PTL

(* The lessees stay with the records' slots. *)
LEMMA HolderStays ==
  ASSUME Placement, Placement', \A v \in VmIds : vms'[v].slot = vms[v].slot
  PROVE  Holder' = Holder
<1>1. ASSUME NEW s \in Slots PROVE Holder'[s] = Holder[s]
  <2>1. CASE \A v \in VmIds : vms[v].slot # s
    BY SMTT(60), <2>1, Mapped, MappedNext DEF Lessees
  <2>2. CASE \E v \in VmIds : vms[v].slot = s
    BY SMTT(60), <2>2, Mapped, MappedNext DEF Lessees
  <2> QED BY <2>1, <2>2
<1> QED BY <1>1 DEF Holder

(* Guests that go, or stay where they are, leave. *)
LEMMA GuestsLeave ==
  ASSUME Placement, Placement', \A v \in VmIds : vms'[v].slot = vms[v].slot,
         \A v \in VmIds : Live(v)' => Live(v)
  PROVE  Lease!Leave
<1>1. Holder' = Holder
  BY HolderStays
<1>2. Guests' \in [Slots -> SUBSET VmIds]
  BY DEF Guests
<1>3. \A s \in Slots : Guests'[s] \subseteq Guests[s]
  BY SMTT(60), Mapped, MappedNext DEF Tenants
<1> QED BY <1>1, <1>2, <1>3 DEF Lease!Leave

(* The guests are the same in the slots where the same VMs live. *)
LEMMA SameGuests ==
  ASSUME Placement, Placement', NEW S \in SUBSET Slots,
         \A w \in VmIds, t \in S :
           Live(w)' /\ vms'[w].slot = t <=> Live(w) /\ vms[w].slot = t
  PROVE  \A t \in S : Guests'[t] = Guests[t]
<1> SUFFICES ASSUME NEW t \in S PROVE Guests'[t] = Guests[t]
  OBVIOUS
<1>1. /\ Guests[t] = {w \in VmIds : Live(w) /\ vms[w].slot = t}
      /\ Guests'[t] = {w \in VmIds : Live(w)' /\ vms'[w].slot = t}
  BY Mapped, MappedNext DEF Tenants
<1>2. \A w \in VmIds : w \in Guests'[t] <=> w \in Guests[t]
  BY <1>1
<1>3. Guests[t] \subseteq VmIds /\ Guests'[t] \subseteq VmIds
  BY <1>1
<1> QED BY <1>2, <1>3

(* A VM's step that leaves the other VMs alone is a step of the lease. *)
LEMMA OneVm ==
  ASSUME TypeOK, TypeOK', Placement, Placement', NEW v \in VmIds, OthersStay(v),
         Kept(v) \/ Taken(v) \/ Given(v)
  PROVE  Lease!Next
<1>0. vms[v].slot \in Slots \cup {NoSlot} /\ vms'[v].slot \in Slots \cup {NoSlot}
  BY DEF TypeOK, Row
<1>1. /\ VmOK(v) /\ VmOK(v)'
      /\ Lessees /\ Tenants /\ Lessees' /\ Tenants'
  BY Mapped, MappedNext DEF Placement
<1>2. \A w \in VmIds \ {v} : vms'[w].slot = vms[w].slot /\ (Live(w)' <=> Live(w))
  BY DEF OthersStay, Live
<1>3. Holder = [s \in Slots |-> Holder[s]] /\ Holder' = [s \in Slots |-> Holder'[s]]
  BY SMTT(60) DEF Holder
<1>4. Guests = [s \in Slots |-> Guests[s]] /\ Guests' = [s \in Slots |-> Guests'[s]]
  BY DEF Guests
<1>5. CASE Kept(v) /\ (Live(v)' => Live(v))
  BY <1>2, <1>5, GuestsLeave DEF Kept, Lease!Next
<1>6. CASE Kept(v) /\ Live(v)' /\ ~Live(v)
  <2> DEFINE s == vms[v].slot
  <2>1. s \in Slots
    BY <1>0, <1>1, <1>6 DEF VmOK, Kept
  <2>2. Holder[s] = v /\ Holder' = Holder
    BY SMTT(60), <1>1, <1>2, <1>6, <2>1, HolderStays DEF Kept, Lessees
  <2>3. Guests'[s] = {v} /\ \A t \in Slots \ {s} : Guests'[t] = Guests[t]
    <3>1. \A w \in VmIds, t \in Slots \ {s} :
            Live(w)' /\ vms'[w].slot = t <=> Live(w) /\ vms[w].slot = t
      BY <1>2, <1>6 DEF Kept
    <3>2. \A w \in VmIds : Live(w)' /\ vms'[w].slot = s <=> w = v
      BY SMTT(60), <1>1, <1>2, <1>6, <2>1, <2>2 DEF Kept, Lessees
    <3>3. Guests'[s] = {w \in VmIds : Live(w)' /\ vms'[w].slot = s}
      BY <1>1, <2>1 DEF Tenants
    <3> QED BY <3>1, <3>2, <3>3, SameGuests
  <2>4. Guests' = [Guests EXCEPT ![s] = {Holder[s]}]
    BY <1>4, <2>1, <2>2, <2>3
  <2>5. Lease!Enter(s)
    BY <2>2, <2>4, Reserved DEF Lease!Enter
  <2> QED BY <2>1, <2>5 DEF Lease!Next
<1>7. CASE Taken(v) /\ ~Kept(v)
  <2> DEFINE s == vms'[v].slot
  <2>1. s \in Slots
    BY <1>0, <1>7 DEF Taken, Kept
  <2>2. ~Live(v)
    BY <1>1, <1>7 DEF VmOK, Taken
  <2>3. \A w \in VmIds : vms[w].slot # s
    BY SMTT(60), <1>1, <1>2, <1>7, <2>1, Reserved DEF Lessees, Taken
  <2>4. Holder[s] = NoVm /\ Guests[s] = {} /\ \A t \in Slots : Holder[t] # v
    BY SMTT(60), <1>1, <1>7, <2>1, <2>3, Reserved DEF Lessees, Tenants, Taken
  <2>5. Guests' = Guests
    <3>1. \A w \in VmIds, t \in Slots :
            Live(w)' /\ vms'[w].slot = t <=> Live(w) /\ vms[w].slot = t
      BY <1>2, <1>7, <2>2 DEF Taken
    <3>2. \A t \in Slots : Guests'[t] = Guests[t]
      BY <3>1, SameGuests
    <3> QED BY <1>4, <3>2
  <2>6. Holder'[s] = v
    BY <1>1, <2>1 DEF Lessees
  <2>7. ASSUME NEW t \in Slots \ {s} PROVE Holder'[t] = Holder[t]
    <3>1. CASE \A w \in VmIds : vms[w].slot # t
      BY SMTT(60), <1>1, <1>2, <2>7, <3>1 DEF Lessees
    <3>2. CASE \E w \in VmIds : vms[w].slot = t
      BY SMTT(60), <1>1, <1>2, <1>7, <2>7, <3>2, Reserved DEF Lessees, Taken
    <3> QED BY <3>1, <3>2
  <2>8. Holder' = [Holder EXCEPT ![s] = v]
    BY <1>3, <2>1, <2>6, <2>7
  <2>9. Lease!Acquire(s, v)
    BY <2>4, <2>5, <2>8 DEF Lease!Acquire
  <2> QED BY <2>1, <2>9 DEF Lease!Next
<1>8. CASE Given(v) /\ ~Kept(v)
  <2> DEFINE s == vms[v].slot
  <2>1. s \in Slots
    BY <1>0, <1>8 DEF Given, Kept
  <2>2. ~Live(v)'
    BY <1>1, <1>8 DEF VmOK, Given
  <2>3. Holder[s] = v
    BY SMTT(60), <1>1, <2>1 DEF Lessees
  <2>4. Guests[s] = {}
    BY SMTT(60), <1>1, <1>8, <2>1, <2>3 DEF Lessees, Tenants, Given
  <2>5. Guests' = Guests
    <3>1. \A w \in VmIds, t \in Slots :
            Live(w)' /\ vms'[w].slot = t <=> Live(w) /\ vms[w].slot = t
      BY <1>2, <1>8, <2>2 DEF Given
    <3>2. \A t \in Slots : Guests'[t] = Guests[t]
      BY <3>1, SameGuests
    <3> QED BY <1>4, <3>2
  <2>6. Holder'[s] = NoVm
    BY SMTT(60), <1>1, <1>2, <1>8, <2>1, <2>3, Reserved DEF Lessees, Given
  <2>7. ASSUME NEW t \in Slots \ {s} PROVE Holder'[t] = Holder[t]
    <3>1. CASE \A w \in VmIds : vms[w].slot # t
      BY SMTT(60), <1>1, <1>2, <1>8, <2>7, <3>1, Reserved DEF Lessees, Given
    <3>2. CASE \E w \in VmIds : vms[w].slot = t
      BY SMTT(60), <1>1, <1>2, <2>7, <3>2 DEF Lessees
    <3> QED BY <3>1, <3>2
  <2>8. Holder' = [Holder EXCEPT ![s] = NoVm]
    BY <1>3, <2>1, <2>6, <2>7
  <2>9. Lease!Release(s)
    BY <2>3, <2>4, <2>5, <2>8, Reserved DEF Lease!Release
  <2> QED BY <2>1, <2>9 DEF Lease!Next
<1> QED BY <1>5, <1>6, <1>7, <1>8

(* Steps that leave every record and VMM alone. *)
LEMMA Still ==
  ASSUME Placement, Placement', UNCHANGED <<vms, vmm>>
  PROVE  Lease!Next
BY GuestsLeave DEF Live, Lease!Next

LEMMA CallLeases ==
  ASSUME NEW v \in VmIds, Call(v)
  PROVE  UNCHANGED <<vms, vmm>>
BY DEF Call, CreateVm, TakeSlot, StartVm, SuspendVm, StopVm, HaltVm, DestroyVm, TerminateVm,
   RetireSuspension, AddForward, RemoveForward, Request

(* Steps of a handler that work on neither the record nor the VMM. *)
LEMMA AsideLeases ==
  ASSUME NEW v \in VmIds,
         \/ AllocatePort(v) \/ InsertForward(v) \/ Provision(v) \/ ApplyNetwork(v)
         \/ Place(v) \/ UnallocatePorts(v) \/ TearDownNet(v) \/ FreePorts(v)
         \/ TearDownVolume(v) \/ FreeSlot(v)
         \/ DeclareForward(v) \/ SteerForward(v) \/ WithdrawForward(v)
         \/ GuestWrites(v) \/ Cancel(v) \/ Probe(v) \/ Reap(v) \/ RecoverVm(v)
  PROVE  UNCHANGED <<vms, vmm>>
BY DEF AllocatePort, InsertForward, Provision, ApplyNetwork, Place, TakeSlot,
   UnallocatePorts, TearDownNet, FreePorts, TearDownVolume, FreeSlot, DeclareForward,
   SteerForward, WithdrawForward, GuestWrites, Cancel, Probe, Reap, RecoverVm

(* Steps on the VMM: whatever becomes of it, the record keeps its slot. *)
LEMMA VmmLeases ==
  ASSUME TypeOK, NEW v \in VmIds,
         \/ CreateVmm(v) \/ StartVmm(v) \/ ResumeVmm(v) \/ Suspend(v)
         \/ StopVmm(v) \/ RetireVmm(v) \/ TearDownVmm(v) \/ VmmExit(v)
  PROVE  OthersStay(v) /\ Kept(v)
<1>0. vmm \in [VmIds -> Vmm]
  BY DEF TypeOK
<1>1. /\ UNCHANGED vms
      /\ \/ UNCHANGED vmm
         \/ \E new : vmm' = [vmm EXCEPT ![v] = new]
  BY <1>0 DEF CreateVmm, StartVmm, ResumeVmm, Suspend, StopVmm, RetireVmm, TearDownVmm, VmmExit
<1> QED BY <1>0, <1>1 DEF OthersStay, Kept

(* Steps that write the record, its VMM as it was. *)
LEMMA RecordLeases ==
  ASSUME TypeOK, Placement, NEW v \in VmIds,
         \/ InsertVm(v) \/ SaveCreating(v) \/ SaveRunning(v) \/ SaveSuspended(v)
         \/ DeleteVm(v) \/ SaveStopped(v)
  PROVE  OthersStay(v) /\ (Kept(v) \/ Taken(v) \/ Given(v))
<1>0. vms \in [VmIds -> Row] /\ VmOK(v)
  BY DEF TypeOK, Placement
<1>1. UNCHANGED vmm
  BY DEF InsertVm, SaveCreating, SaveRunning, SaveSuspended, DeleteVm, SaveStopped
<1>2. UNCHANGED vms \/ \E new : vms' = [vms EXCEPT ![v] = new]
  BY <1>0 DEF InsertVm, SaveCreating, SaveRunning, SaveSuspended, DeleteVm, SaveStopped
<1>3. OthersStay(v)
  BY <1>0, <1>1, <1>2 DEF OthersStay
<1>4. CASE InsertVm(v) \/ SaveCreating(v)
  <2>1. vms[v].slot = NoSlot
    BY <1>0, <1>4 DEF InsertVm, SaveCreating, VmOK, HandlerOK, At
  <2> QED BY <1>0, <1>1, <1>3, <2>1 DEF Taken, VmOK, Live
<1>5. CASE SaveRunning(v) \/ SaveSuspended(v)
  BY <1>0, <1>3, <1>5 DEF SaveRunning, SaveSuspended, Kept, Row
<1>6. CASE DeleteVm(v) \/ SaveStopped(v)
  <2>1. ~Live(v)
    BY <1>0, <1>6 DEF DeleteVm, SaveStopped, VmOK, HandlerOK, At, Exited
  <2>2. vms' = vms \/ vms'[v].slot = NoSlot
    BY SMTT(60), <1>0, <1>6 DEF DeleteVm, SaveStopped, NoRow, Row
  <2> QED BY <1>3, <2>1, <2>2 DEF Kept, Given
<1> QED BY <1>4, <1>5, <1>6

(* The daemon's death and its start leave the records alone; a host that *)
(* goes down takes every guest with it.                                  *)
LEMMA DaemonLeases ==
  ASSUME Crash \/ GiveUp \/ Boot \/ Serve
  PROVE  UNCHANGED vms /\ \A v \in VmIds : Live(v)' => Live(v)
<1>1. UNCHANGED vms
  BY DEF Crash, GiveUp, Boot, Serve, Forget
<1>2. UNCHANGED vmm \/ vmm' = [v \in VmIds |-> NoVmm]
  BY DEF Crash, GiveUp, Boot, Serve
<1> QED BY SMTT(60), <1>1, <1>2 DEF Live, NoVmm

(* Every run of the control plane is a run of the slot lease: identify names *)
(* at most one VM, only that VM's guest is ever in the slot's network, and   *)
(* the slot passes on only once it is gone, whatever fails or crashes.       *)
THEOREM LeasesSlotsHolds == Spec => LeasesSlots
<1>1. Init => Lease!Init
  <2> SUFFICES ASSUME Init PROVE Lease!Init
    OBVIOUS
  <2>1. \A s \in Slots : Identify(s) = {}
    BY Reserved DEF Init, Identify, NoRow
  <2>2. Holder = [s \in Slots |-> NoVm]
    BY <2>1 DEF Holder
  <2>3. Guests = [s \in Slots |-> {}]
    BY DEF Init, Guests, Live, NoVmm
  <2> QED BY <2>2, <2>3 DEF Lease!Init
<1>2. TypeOK /\ TypeOK' /\ Placement /\ Placement' /\ [Next]_vars
      => [Lease!Next]_(Lease!leaseVars)
  <2> SUFFICES ASSUME TypeOK, TypeOK', Placement, Placement', [Next]_vars
               PROVE  Lease!Next
    OBVIOUS
  <2>1. ASSUME NEW v \in VmIds, Call(v) PROVE Lease!Next
    BY <2>1, CallLeases, Still
  <2>2. ASSUME NEW v \in VmIds, Step(v) PROVE Lease!Next
    <3>1. \/ UNCHANGED <<vms, vmm>>
          \/ OthersStay(v) /\ (Kept(v) \/ Taken(v) \/ Given(v))
      BY <2>2, AsideLeases, VmmLeases, RecordLeases DEF Step
    <3> QED BY <3>1, Still, OneVm
  <2>3. ASSUME NEW v \in VmIds,
               \/ VmmExit(v) \/ GuestWrites(v) \/ Cancel(v)
               \/ Probe(v) \/ Reap(v) \/ RecoverVm(v)
        PROVE  Lease!Next
    <3>1. UNCHANGED <<vms, vmm>> \/ (OthersStay(v) /\ Kept(v))
      BY <2>3, AsideLeases, VmmLeases
    <3> QED BY <3>1, Still, OneVm
  <2>4. CASE Crash \/ GiveUp \/ Boot \/ Serve
    BY <2>4, DaemonLeases, GuestsLeave DEF Lease!Next
  <2>5. CASE UNCHANGED vars
    BY <2>5, Still DEF vars
  <2> QED BY <2>1, <2>2, <2>3, <2>4, <2>5 DEF Next
<1> QED BY <1>1, <1>2, TypeCorrect, PlacementInvariant, PTL DEF Spec, LeasesSlots, Lease!Spec

-----------------------------------------------------------------------------
(* What the stage of a handler says of its job and of its VM's row. *)
Control(v) ==
  LET t == task[v] IN
  /\ vms[v].state = "none" =>
       /\ vms[v] = NoRow /\ HostPorts(v) = {}
       /\ t.pc \in {"idle", "alloc", "insert", "free"}
  /\ t.pc \in {"alloc", "insert"} => vms[v].state = "none"
  /\ t.pc = "free" /\ t.keep => vms[v].state # "none"
  /\ t.job \in {"exit", "restart"} =>
       /\ Exited(v)
       /\ t.pc \in {"vmm", "net", "save", "ports", "volume", "delete", "free", "place"}
  /\ t.job = "forward" => t.pc \in {"declare", "steer", "withdraw"}
  /\ t.job \in {"restart", "retire"} => t.keep
  /\ t.pc = "retire" => t.job = "retire"
  /\ t.pc = "place" => t.job \in {"start", "restart"}
  /\ t.pc \in {"ports", "volume", "delete"} => ~t.keep
  /\ v \in Durable /\ vms[v].dev /\ ~t.keep /\ t.pc # "idle" =>
       t.job \in {"destroy", "forward"}

(* What the other VMs see of a step of v's task: nothing. *)
Apart(v) ==
  \A w \in VmIds \ {v} :
    /\ vms'[w] = vms[w] /\ task'[w] = task[w] /\ vmm'[w] = vmm[w]
    /\ snapFile'[w] = snapFile[w] /\ (w \in vol' <=> w \in vol)
    /\ HostPorts(w)' = HostPorts(w)

(* How v's own task stands after each way a step ends, field by field. *)
LEMMA TaskMoves ==
  ASSUME TypeOK, NEW v \in VmIds
  PROVE  /\ \A pc : Continue(v, pc) =>
              /\ task'[v].pc = pc /\ task'[v].job = task[v].job
              /\ task'[v].slot = task[v].slot /\ task'[v].ports = task[v].ports
              /\ task'[v].keep = task[v].keep
         /\ Finish(v) \/ Fail(v) => task'[v] = Idle
         /\ \A job, pc, keep : Begin(v, job, pc, keep) =>
              /\ task'[v].pc = pc /\ task'[v].job = job
              /\ task'[v].slot = vms[v].slot /\ task'[v].ports = HostPorts(v)
              /\ task'[v].keep = keep
<1>0. task \in [VmIds -> Task] /\ task[v] \in Task
  BY DEF TypeOK
<1>1. ASSUME NEW pc, Continue(v, pc)
      PROVE  /\ task'[v].pc = pc /\ task'[v].job = task[v].job
             /\ task'[v].slot = task[v].slot /\ task'[v].ports = task[v].ports
             /\ task'[v].keep = task[v].keep
  BY <1>0, <1>1 DEF Continue, Task
<1>2. ASSUME Finish(v) \/ Fail(v) PROVE task'[v] = Idle
  BY <1>0, <1>2 DEF Finish, Fail
<1>3. ASSUME NEW job, NEW pc, NEW keep, Begin(v, job, pc, keep)
      PROVE  /\ task'[v].pc = pc /\ task'[v].job = job
             /\ task'[v].slot = vms[v].slot /\ task'[v].ports = HostPorts(v)
             /\ task'[v].keep = keep
  BY <1>0, <1>3 DEF Begin
<1> QED BY <1>1, <1>2, <1>3

LEMMA IdleFields ==
  /\ Idle.pc = "idle" /\ Idle.job = "none" /\ Idle.slot = NoSlot
  /\ Idle.ports = {} /\ Idle.keep = FALSE
BY DEF Idle

LEMMA PortsKept == \A v \in VmIds : forwards' = forwards => HostPorts(v)' = HostPorts(v)
BY DEF HostPorts

(* Control is each VM's own: a call, a step of its handler, or what happens *)
(* beside the handlers, keeps it.                                           *)
LEMMA CallControl ==
  ASSUME TypeOK, NEW v \in VmIds, Control(v), Call(v)
  PROVE  Control(v)'
<1>0. task \in [VmIds -> Task]
  BY DEF TypeOK
<1>1. ASSUME NEW n \in 0 .. MaxForwards, CreateVm(v, n) PROVE Control(v)'
  <2>1. /\ task'[v].pc = "alloc" /\ task'[v].job = "create" /\ task'[v].keep = FALSE
        /\ vms' = vms /\ vms[v].state = "none" /\ forwards' = forwards
    BY SMTT(60), <1>0, <1>1 DEF CreateVm
  <2>2. vms[v] = NoRow /\ HostPorts(v) = {}
    BY <2>1 DEF Control
  <2> QED BY SMTT(60), <2>1, <2>2, PortsKept DEF Control, NoRow
<1>2. ASSUME NEW call, Request(v, call), NEW job, NEW pc, NEW keep, Begin(v, job, pc, keep),
             job \in {"start", "suspend", "stop", "destroy", "terminate", "retire"},
             pc \in {"resume", "suspend", "stop", "vmm"} \/ (pc = "place" /\ job = "start"),
             job = "retire" => keep,
             v \in Durable /\ ~keep => job = "destroy"
      PROVE  Control(v)'
  <2>1. task'[v].pc = pc /\ task'[v].job = job /\ task'[v].keep = keep
    BY SMTT(60), <1>2, TaskMoves
  <2> QED BY <1>2, <2>1 DEF Control, Request
<1>3. CASE StartVm(v)
  BY <1>2, <1>3 DEF StartVm
<1>4. CASE SuspendVm(v)
  BY <1>2, <1>4 DEF SuspendVm
<1>5. CASE StopVm(v) \/ HaltVm(v) \/ DestroyVm(v) \/ TerminateVm(v) \/ RetireSuspension(v)
  BY <1>2, <1>5 DEF StopVm, HaltVm, DestroyVm, TerminateVm, RetireSuspension
<1>6. ASSUME NEW p \in Ports, NEW pc \in {"declare", "withdraw"},
             task' = [task EXCEPT ![v] = Forwarding(p, pc)],
             UNCHANGED vms, vms[v].state # "none"
      PROVE  Control(v)'
  <2>1. task'[v].pc = pc /\ task'[v].job = "forward" /\ task'[v].keep = FALSE
    BY <1>0, <1>6 DEF Forwarding
  <2> QED BY <1>6, <2>1 DEF Control
<1>7. CASE AddForward(v)
  BY <1>6, <1>7 DEF AddForward
<1>8. ASSUME NEW p \in Ports, RemoveForward(v, p) PROVE Control(v)'
  <2>1. vms[v].state # "none"
    BY <1>8 DEF RemoveForward, Control, HostPorts
  <2> QED BY <1>6, <1>8, <2>1 DEF RemoveForward
<1> QED BY <1>1, <1>3, <1>4, <1>5, <1>7, <1>8 DEF Call

LEMMA BringUpControl ==
  ASSUME TypeOK, NEW v \in VmIds, Control(v),
         \/ AllocatePort(v) \/ InsertVm(v) \/ InsertForward(v)
         \/ Provision(v) \/ ApplyNetwork(v) \/ CreateVmm(v) \/ StartVmm(v) \/ SaveRunning(v)
  PROVE  Control(v)'
<1>0. task \in [VmIds -> Task] /\ task[v] \in Task
      /\ vms \in [VmIds -> Row] /\ vms[v] \in Row /\ vmm \in [VmIds -> Vmm] /\ vmm[v] \in Vmm
  BY DEF TypeOK
<1>1. CASE AllocatePort(v)
  <2>1. task[v].pc = "alloc" /\ UNCHANGED <<vms, forwards, vmm>>
    BY <1>1 DEF AllocatePort, At
  <2>2. \/ task'[v] = Idle
        \/ /\ task'[v].pc \in {"alloc", "insert"} /\ task'[v].job = task[v].job
           /\ task'[v].keep = task[v].keep
    <3>1. CASE Continue(v, "insert") \/ Fail(v)
      BY <3>1, TaskMoves
    <3>2. ASSUME NEW p \in Ports,
                 task' = [task EXCEPT ![v].ports = @ \cup {p}, ![v].want = @ - 1]
          PROVE  /\ task'[v].pc = "alloc" /\ task'[v].job = task[v].job
                 /\ task'[v].keep = task[v].keep
      BY <1>0, <2>1, <3>2 DEF Task
    <3> QED BY <1>1, <3>1, <3>2 DEF AllocatePort
  <2> QED BY <2>1, <2>2, IdleFields, PortsKept DEF Control, Exited, Live
<1>2. CASE InsertVm(v)
  <2>1. task[v].pc = "insert" /\ UNCHANGED <<forwards, vmm>>
    BY <1>2 DEF InsertVm, At
  <2>2. CASE UNCHANGED vms /\ Fail(v)
    BY <2>1, <2>2, TaskMoves, IdleFields, PortsKept DEF Control
  <2>3. ASSUME vms' = [vms EXCEPT ![v] =
                 [state |-> "creating", slot |-> task[v].slot, dev |-> FALSE, snap |-> FALSE]],
               Continue(v, "rows")
        PROVE  Control(v)'
    <3>1. vms'[v].state = "creating" /\ vms'[v].dev = FALSE
      BY <1>0, <2>3
    <3>2. /\ task'[v].pc = "rows" /\ task'[v].job = task[v].job
          /\ task'[v].keep = task[v].keep
      BY <2>3, TaskMoves
    <3> QED BY <2>1, <3>1, <3>2 DEF Control, Exited, Live
  <2> QED BY <1>2, <2>2, <2>3 DEF InsertVm
<1>3. CASE InsertForward(v)
  <2>1. task[v].pc = "rows" /\ UNCHANGED <<vms, vmm>>
    BY <1>3 DEF InsertForward, At
  <2>2. \/ UNCHANGED task
        \/ \E pc \in {"provision", "unport"} : Continue(v, pc)
    BY <1>3 DEF InsertForward
  <2> QED BY <2>1, <2>2, TaskMoves DEF Control, Exited, Live
<1>4. CASE Provision(v)
  <2>1. task[v].pc = "provision" /\ UNCHANGED <<vms, forwards, vmm>>
    BY <1>4 DEF Provision, At
  <2>2. PICK pc \in {"apply", "unport", "vmm"} : Continue(v, pc)
    BY <1>4 DEF Provision, BringUpFailed
  <2> QED BY <2>1, <2>2, TaskMoves DEF Control, Exited, Live
<1>5. CASE ApplyNetwork(v)
  <2>1. task[v].pc = "apply" /\ UNCHANGED <<vms, forwards, vmm>>
    BY <1>5 DEF ApplyNetwork, At
  <2>2. PICK pc \in {"boot", "unport", "vmm"} : Continue(v, pc)
    BY <1>5 DEF ApplyNetwork, BringUpFailed
  <2> QED BY <2>1, <2>2, TaskMoves DEF Control, Exited, Live
<1>6. CASE CreateVmm(v)
  <2>1. task[v].pc = "boot" /\ UNCHANGED <<vms, forwards>>
    BY <1>6 DEF CreateVmm, At
  <2>2. PICK pc \in {"go", "unport", "vmm"} : Continue(v, pc)
    BY <1>6 DEF CreateVmm, BringUpFailed
  <2> QED BY <2>1, <2>2, TaskMoves DEF Control
<1>7. CASE StartVmm(v)
  <2>1. task[v].pc = "go" /\ UNCHANGED <<vms, forwards>>
    BY <1>7 DEF StartVmm, At
  <2>2. PICK pc \in {"saveRunning", "unport", "vmm"} : Continue(v, pc)
    BY <1>7 DEF StartVmm, BringUpFailed
  <2> QED BY <2>1, <2>2, TaskMoves DEF Control
<1>8. CASE SaveRunning(v)
  <2>1. task[v].pc = "saveRunning" /\ UNCHANGED <<forwards, vmm>>
    BY <1>8 DEF SaveRunning, At
  <2>2. CASE UNCHANGED vms /\ Fail(v)
    BY <2>1, <2>2, TaskMoves, IdleFields DEF Control
  <2>3. ASSUME vms' = [vms EXCEPT ![v].state = "running", ![v].dev = TRUE],
               IF task[v].job = "retire" THEN Continue(v, "retire") ELSE Finish(v)
        PROVE  Control(v)'
    <3>1. vms'[v].state = "running"
      BY <1>0, <2>3 DEF Row
    <3>2. \/ task'[v] = Idle
          \/ /\ task[v].job = "retire" /\ task'[v].pc = "retire" /\ task'[v].job = task[v].job
             /\ task'[v].keep = task[v].keep
      BY <2>3, TaskMoves
    <3> QED BY <2>1, <3>1, <3>2, IdleFields DEF Control, Exited, Live
  <2> QED BY <1>8, <2>2, <2>3 DEF SaveRunning
<1> QED BY <1>1, <1>2, <1>3, <1>4, <1>5, <1>6, <1>7, <1>8

LEMMA TearDownControl ==
  ASSUME TypeOK, NEW v \in VmIds, Control(v),
         \/ UnallocatePorts(v) \/ TearDownVmm(v) \/ TearDownNet(v) \/ FreePorts(v)
         \/ TearDownVolume(v) \/ DeleteVm(v) \/ SaveStopped(v) \/ FreeSlot(v)
  PROVE  Control(v)'
<1>0. task \in [VmIds -> Task] /\ task[v] \in Task
      /\ vms \in [VmIds -> Row] /\ vms[v] \in Row /\ vmm \in [VmIds -> Vmm] /\ vmm[v] \in Vmm
  BY DEF TypeOK
<1>1. CASE UnallocatePorts(v)
  <2>1. task[v].pc = "unport" /\ UNCHANGED <<vms, forwards, vmm>>
    BY <1>1 DEF UnallocatePorts, At
  <2>2. PICK pc \in {"vmm"} : Continue(v, pc)
    BY <1>1 DEF UnallocatePorts
  <2> QED BY <2>1, <2>2, TaskMoves DEF Control, Exited, Live
<1>2. CASE TearDownVmm(v)
  <2>1. task[v].pc = "vmm" /\ UNCHANGED <<vms, forwards>> /\ vmm'[v] = NoVmm
    BY <1>0, <1>2 DEF TearDownVmm, At
  <2>2. Continue(v, "net") \/ Fail(v)
    BY <1>2 DEF TearDownVmm
  <2>3. \/ task'[v] = Idle
        \/ task'[v].pc = "net" /\ task'[v].job = task[v].job /\ task'[v].keep = task[v].keep
    BY <2>2, TaskMoves
  <2>4. Exited(v)'
    BY SMT, <2>1 DEF Exited, Live, NoVmm
  <2> QED BY <2>1, <2>3, <2>4, IdleFields, PortsKept DEF Control
<1>3. CASE TearDownNet(v)
  <2>1. task[v].pc = "net" /\ UNCHANGED <<vms, forwards, vmm>>
    BY <1>3 DEF TearDownNet, At
  <2>2. \/ Fail(v)
        \/ Continue(v, "save")
        \/ ~task[v].keep /\ \E pc \in {"volume", "ports"} : Continue(v, pc)
    BY <1>3 DEF TearDownNet
  <2>3. \/ task'[v] = Idle
        \/ /\ task'[v].job = task[v].job /\ task'[v].keep = task[v].keep
           /\ \/ task'[v].pc = "save"
              \/ task'[v].pc \in {"volume", "ports"} /\ ~task[v].keep
    BY <2>2, TaskMoves
  <2> QED BY <2>1, <2>3, IdleFields, PortsKept DEF Control, Exited, Live
<1>4. CASE FreePorts(v)
  <2>1. task[v].pc = "ports" /\ UNCHANGED <<vms, forwards, vmm>>
    BY <1>4 DEF FreePorts, At
  <2>2. PICK pc \in {"volume"} : Continue(v, pc)
    BY <1>4 DEF FreePorts
  <2> QED BY <2>1, <2>2, TaskMoves DEF Control, Exited, Live
<1>5. CASE TearDownVolume(v)
  <2>1. task[v].pc = "volume" /\ UNCHANGED <<vms, forwards, vmm>>
    BY <1>5 DEF TearDownVolume, At
  <2>2. PICK pc \in {"delete"} : Continue(v, pc)
    BY <1>5 DEF TearDownVolume
  <2> QED BY <2>1, <2>2, TaskMoves DEF Control, Exited, Live
<1>6. CASE DeleteVm(v)
  <2>1. task[v].pc = "delete" /\ vmm' = vmm
    BY <1>6 DEF DeleteVm, At
  <2>2. CASE UNCHANGED <<vms, forwards>> /\ Fail(v)
    BY <2>1, <2>2, TaskMoves, IdleFields DEF Control
  <2>3. ASSUME vms' = [vms EXCEPT ![v] = NoRow], forwards' = {f \in forwards : f[1] # v},
               AfterSave(v)
        PROVE  Control(v)'
    <3>1. vms'[v] = NoRow /\ HostPorts(v)' = {}
      BY <1>0, <2>3 DEF HostPorts
    <3>2. task[v].job # "restart" /\ ~task[v].keep
      BY <2>1 DEF Control
    <3>3. \/ task'[v] = Idle
          \/ /\ task'[v].pc = "free" /\ task'[v].job = task[v].job
             /\ task'[v].keep = task[v].keep
      BY <2>3, <3>2, TaskMoves DEF AfterSave, LetGo
    <3>4. NoRow.state = "none" /\ NoRow.dev = FALSE
      BY DEF NoRow
    <3>5. Exited(v)' <=> Exited(v)
      BY <2>1 DEF Exited, Live
    <3>6. CASE task'[v] = Idle
      BY <3>1, <3>4, <3>6, IdleFields DEF Control
    <3>7. CASE task'[v] # Idle
      BY <2>1, <3>1, <3>2, <3>3, <3>4, <3>5, <3>7 DEF Control
    <3> QED BY <3>6, <3>7
  <2> QED BY <1>6, <2>2, <2>3 DEF DeleteVm
<1>7. CASE SaveStopped(v)
  <2>1. task[v].pc = "save" /\ vmm' = vmm
    BY <1>7 DEF SaveStopped, At
  <2>2. CASE UNCHANGED vms /\ Fail(v)
    BY <2>1, <2>2, TaskMoves, IdleFields DEF Control, Exited, Live
  <2>3. ASSUME vms' = [vms EXCEPT ![v].state = "stopped", ![v].slot = NoSlot,
                         ![v].snap = @ /\ task[v].job # "terminate"],
               AfterSave(v)
        PROVE  Control(v)'
    <3>1. vms'[v].state = "stopped" /\ vms'[v].dev = vms[v].dev
      BY <1>0, <2>3 DEF Row
    <3>2. \/ task'[v] = Idle
          \/ /\ task'[v].pc = "free" \/ (task'[v].pc = "place" /\ task[v].job = "restart")
             /\ task'[v].job = task[v].job /\ task'[v].keep = task[v].keep
      BY SMTT(60), <1>0, <2>3, TaskMoves DEF AfterSave, LetGo, Task
    <3> QED BY <2>1, <3>1, <3>2, IdleFields DEF Control, Exited, Live
  <2> QED BY <1>7, <2>2, <2>3 DEF SaveStopped
<1>8. CASE FreeSlot(v)
  <2>1. task[v].pc = "free" /\ UNCHANGED <<vms, forwards, vmm>>
    BY <1>8 DEF FreeSlot, At
  <2>2. \/ task'[v] = Idle
        \/ /\ task[v].job = "restart" /\ task'[v].pc = "place" /\ task'[v].job = task[v].job
           /\ task'[v].keep = task[v].keep
    BY SMTT(60), <1>0, <1>8, TaskMoves DEF FreeSlot, LetGo, Task
  <2> QED BY <2>1, <2>2, IdleFields, PortsKept DEF Control, Exited, Live
<1> QED BY <1>1, <1>2, <1>3, <1>4, <1>5, <1>6, <1>7, <1>8

LEMMA LifecycleControl ==
  ASSUME TypeOK, NEW v \in VmIds, Control(v),
         \/ ResumeVmm(v) \/ Place(v) \/ SaveCreating(v)
         \/ Suspend(v) \/ SaveSuspended(v) \/ StopVmm(v) \/ RetireVmm(v)
  PROVE  Control(v)'
<1>0. task \in [VmIds -> Task] /\ task[v] \in Task
      /\ vms \in [VmIds -> Row] /\ vms[v] \in Row
  BY DEF TypeOK
<1>1. ASSUME task[v].pc \in {"resume", "suspend", "stop"}, UNCHANGED <<vms, forwards>>,
             \/ \E pc \in {"saveRunning", "saveSuspended", "vmm"} : Continue(v, pc)
             \/ Fail(v)
      PROVE  Control(v)'
  BY <1>1, TaskMoves, IdleFields DEF Control
<1>2. CASE ResumeVmm(v)
  BY <1>1, <1>2 DEF ResumeVmm, At
<1>3. CASE Place(v)
  <2>1. task[v].pc = "place" /\ UNCHANGED <<vms, forwards, vmm>>
    BY <1>3 DEF Place, At
  <2>2. \/ task'[v] = Idle
        \/ /\ task'[v].pc = "saveCreating" /\ task'[v].keep = task[v].keep
           /\ task'[v].job = IF task[v].job = "restart" THEN "rerun" ELSE task[v].job
    <3>1. CASE Fail(v)
      BY <3>1, TaskMoves
    <3>2. ASSUME NEW s \in Slots,
                 task' = [task EXCEPT ![v].pc = "saveCreating", ![v].slot = s,
                            ![v].job = IF @ = "restart" THEN "rerun" ELSE @]
          PROVE  /\ task'[v].pc = "saveCreating" /\ task'[v].keep = task[v].keep
                 /\ task'[v].job = IF task[v].job = "restart" THEN "rerun" ELSE task[v].job
      BY <1>0, <3>2 DEF Task
    <3> QED BY <1>3, <3>1, <3>2 DEF Place
  <2>3. CASE task'[v] = Idle
    BY <2>1, <2>3, IdleFields DEF Control
  <2>4. CASE task'[v] # Idle
    <3>1. \/ task[v].job = "start" /\ task'[v].job = "start"
          \/ task[v].job = "restart" /\ task'[v].job = "rerun"
      BY <2>1, <2>2, <2>4 DEF Control
    <3> QED BY <2>1, <2>2, <2>4, <3>1 DEF Control
  <2> QED BY <2>3, <2>4
<1>4. CASE SaveCreating(v)
  <2>1. task[v].pc = "saveCreating" /\ UNCHANGED <<forwards, vmm>>
    BY <1>4 DEF SaveCreating, At
  <2>2. CASE UNCHANGED vms /\ Fail(v)
    BY <2>1, <2>2, TaskMoves, IdleFields DEF Control
  <2>3. ASSUME vms' = [vms EXCEPT ![v].state = "creating", ![v].slot = task[v].slot],
               Continue(v, "provision")
        PROVE  Control(v)'
    <3>1. vms'[v].state = "creating" /\ vms'[v].dev = vms[v].dev
      BY <1>0, <2>3 DEF Row
    <3> QED BY SMTT(60), <2>1, <2>3, <3>1, TaskMoves DEF Control, Exited, Live
  <2> QED BY <1>4, <2>2, <2>3 DEF SaveCreating
<1>5. CASE Suspend(v)
  BY <1>1, <1>5 DEF Suspend, At
<1>6. CASE SaveSuspended(v)
  <2>1. task[v].pc = "saveSuspended" /\ UNCHANGED <<forwards, vmm>>
    BY <1>6 DEF SaveSuspended, At
  <2>2. task'[v] = Idle
    BY <1>6, TaskMoves DEF SaveSuspended
  <2>3. vms'[v].state # "none" \/ UNCHANGED vms
    BY SMTT(60), <1>0, <1>6 DEF SaveSuspended, Row
  <2> QED BY <2>1, <2>2, <2>3, IdleFields DEF Control
<1>7. CASE StopVmm(v)
  BY <1>1, <1>7 DEF StopVmm, At
<1>8. CASE RetireVmm(v)
  <2>1. task[v].pc = "retire" /\ UNCHANGED <<vms, forwards>>
    BY <1>8 DEF RetireVmm, At
  <2>2. \/ task'[v] = Idle
        \/ /\ task'[v].pc = "vmm" /\ task'[v].job = "terminate"
           /\ task'[v].keep = task[v].keep
    BY SMTT(60), <1>0, <1>8, TaskMoves DEF RetireVmm, Task
  <2>3. CASE task'[v] = Idle
    BY <2>1, <2>3, IdleFields DEF Control
  <2>4. CASE task'[v] # Idle
    BY <2>1, <2>2, <2>4 DEF Control
  <2> QED BY <2>3, <2>4
<1> QED BY <1>2, <1>3, <1>4, <1>5, <1>6, <1>7, <1>8

LEMMA ForwardControl ==
  ASSUME TypeOK, NEW v \in VmIds, Control(v),
         DeclareForward(v) \/ SteerForward(v) \/ WithdrawForward(v)
  PROVE  Control(v)'
<1>1. task[v].pc \in {"declare", "steer", "withdraw"} /\ UNCHANGED <<vms, vmm>>
  BY DEF DeclareForward, SteerForward, WithdrawForward, At
<1>2. Finish(v) \/ Fail(v) \/ Continue(v, "steer")
  BY DEF DeclareForward, SteerForward, WithdrawForward
<1>3. CASE task'[v] = Idle
  BY <1>1, <1>3, IdleFields DEF Control
<1>4. CASE Continue(v, "steer")
  <2>1. /\ task'[v].pc = "steer" /\ task'[v].job = task[v].job
        /\ task'[v].keep = task[v].keep
    BY <1>4, TaskMoves
  <2>2. Exited(v)' <=> Exited(v)
    BY <1>1 DEF Exited, Live
  <2> QED BY <1>1, <2>1, <2>2 DEF Control
<1> QED BY <1>2, <1>3, <1>4, TaskMoves

LEMMA BesideControl ==
  ASSUME TypeOK, NEW v \in VmIds, Control(v),
         \/ VmmExit(v) \/ GuestWrites(v) \/ Cancel(v)
         \/ Probe(v) \/ Reap(v) \/ RecoverVm(v)
  PROVE  Control(v)'
<1>0. task \in [VmIds -> Task] /\ vmm \in [VmIds -> Vmm] /\ vmm[v] \in Vmm
  BY DEF TypeOK
<1>1. UNCHANGED <<vms, forwards>>
  BY DEF VmmExit, GuestWrites, Cancel, Probe, Reap, RecoverVm
<1>2. CASE UNCHANGED <<task, vmm>>
  BY <1>1, <1>2, PortsKept DEF Control, Exited, Live
<1>3. CASE VmmExit(v)
  <2>1. vmm'[v].status = "exited" /\ task' = task
    BY <1>0, <1>3 DEF VmmExit, Vmm
  <2> QED BY <1>1, <2>1, PortsKept DEF Control, Exited, Live
<1>4. CASE Cancel(v)
  <2>1. task'[v] = Idle /\ task[v].pc \notin NotAwaiting
    BY <1>0, <1>4 DEF Cancel
  <2>2. task[v].pc \notin {"alloc", "insert", "free"}
    BY <2>1 DEF NotAwaiting
  <2> QED BY <1>1, <2>1, <2>2, IdleFields, PortsKept DEF Control
<1>5. ASSUME NEW job, NEW pc, NEW keep, Begin(v, job, pc, keep), UNCHANGED vmm,
             vms[v].state # "none",
             \/ job = "restart" /\ pc = "net" /\ keep /\ Exited(v)
             \/ job = "exit" /\ pc = "vmm" /\ keep = (v \in Durable) /\ Exited(v)
             \/ job = "abandon" /\ pc = "vmm" /\ keep = (v \in Durable /\ vms[v].dev)
      PROVE  Control(v)'
  <2>1. task'[v].pc = pc /\ task'[v].job = job /\ task'[v].keep = keep
    BY SMTT(60), <1>5, TaskMoves
  <2>2. Exited(v)' <=> Exited(v)
    BY <1>5 DEF Exited, Live
  <2> QED BY <1>1, <1>5, <2>1, <2>2 DEF Control
<1>6. ASSUME HandleExit(v), Exited(v), UNCHANGED vmm, vms[v].state # "none"
      PROVE  Control(v)'
  <2>1. \/ Begin(v, "restart", "net", TRUE)
        \/ Begin(v, "exit", "vmm", v \in Durable)
    BY <1>6 DEF HandleExit
  <2> QED BY <1>5, <1>6, <2>1
<1>7. CASE Reap(v)
  BY <1>2, <1>6, <1>7 DEF Reap
<1>8. CASE RecoverVm(v)
  <2>1. UNCHANGED vmm
    BY <1>8 DEF RecoverVm
  <2>2. \/ HandleExit(v) /\ Exited(v) /\ vms[v].state # "none"
        \/ Begin(v, "abandon", "vmm", v \in Durable /\ vms[v].dev) /\ vms[v].state # "none"
        \/ UNCHANGED task
    BY <1>8 DEF RecoverVm, Abandon
  <2> QED BY <1>2, <1>5, <1>6, <2>1, <2>2
<1>9. CASE GuestWrites(v) \/ Probe(v)
  BY <1>2, <1>9 DEF GuestWrites, Probe
<1> QED BY <1>3, <1>4, <1>7, <1>8, <1>9

LEMMA DaemonControl ==
  ASSUME TypeOK, NEW v \in VmIds, Control(v), Crash \/ GiveUp \/ Boot \/ Serve
  PROVE  Control(v)'
<1>1. UNCHANGED <<vms, forwards>>
  BY DEF Crash, GiveUp, Boot, Serve, Forget
<1>2. CASE Forget
  <2>1. task'[v] = Idle
    BY <1>2 DEF Forget
  <2> QED BY <1>1, <2>1, IdleFields, PortsKept DEF Control
<1>3. CASE Boot \/ Serve
  <2>1. UNCHANGED <<task, vmm>>
    BY <1>3 DEF Boot, Serve
  <2> QED BY <1>1, <2>1, PortsKept DEF Control, Exited, Live
<1> QED BY <1>2, <1>3 DEF Crash, GiveUp

(* A VM's operation touches nothing of another VM. *)
Touches(v) ==
  /\ vms' = vms \/ \E new : vms' = [vms EXCEPT ![v] = new]
  /\ task' = task \/ \E new : task' = [task EXCEPT ![v] = new]
  /\ vmm' = vmm \/ \E new : vmm' = [vmm EXCEPT ![v] = new]
  /\ snapFile' = snapFile \/ \E new : snapFile' = [snapFile EXCEPT ![v] = new]
  /\ vol' \in {vol, vol \cup {v}, vol \ {v}}
  /\ \A w \in VmIds \ {v}, p \in Ports : <<w, p>> \in forwards' <=> <<w, p>> \in forwards

LEMMA TouchesApart ==
  ASSUME TypeOK, NEW v \in VmIds, Touches(v)
  PROVE  Apart(v)
<1>1. ASSUME NEW w \in VmIds \ {v}
      PROVE  /\ vms'[w] = vms[w] /\ task'[w] = task[w] /\ vmm'[w] = vmm[w]
             /\ snapFile'[w] = snapFile[w]
  BY DEF Touches, TypeOK
<1>2. ASSUME NEW w \in VmIds \ {v}
      PROVE  (w \in vol' <=> w \in vol) /\ HostPorts(w)' = HostPorts(w)
  BY DEF Touches, HostPorts
<1> QED BY <1>1, <1>2 DEF Apart

LEMMA TaskTouched ==
  ASSUME TypeOK, NEW v \in VmIds
  PROVE  /\ \A pc : Continue(v, pc) => \E new : task' = [task EXCEPT ![v] = new]
         /\ Finish(v) \/ Fail(v) => \E new : task' = [task EXCEPT ![v] = new]
         /\ \A job, pc, keep :
              Begin(v, job, pc, keep) => \E new : task' = [task EXCEPT ![v] = new]
         /\ LetGo(v) \/ AfterSave(v) \/ BringUpFailed(v) =>
              \E new : task' = [task EXCEPT ![v] = new]
BY DEF TypeOK, Continue, Finish, Fail, Begin, LetGo, AfterSave, BringUpFailed

LEMMA StepApart ==
  ASSUME TypeOK, NEW v \in VmIds,
         \/ Call(v) \/ Step(v) \/ VmmExit(v) \/ GuestWrites(v) \/ Cancel(v)
         \/ Probe(v) \/ Reap(v) \/ RecoverVm(v)
  PROVE  Apart(v)
<1>0. /\ vms \in [VmIds -> Row] /\ vms[v] \in Row /\ task \in [VmIds -> Task]
      /\ vmm \in [VmIds -> Vmm] /\ snapFile \in [VmIds -> {"none", "fresh", "stale"}]
  BY DEF TypeOK
<1>1. ASSUME UNCHANGED <<vms, forwards, vmm, snapFile, vol>>,
             task' = task \/ \E new : task' = [task EXCEPT ![v] = new]
      PROVE  Apart(v)
  BY <1>1, TouchesApart DEF Touches
<1>2. CASE Call(v)
  <2>1. ASSUME NEW p \in Ports, RemoveForward(v, p) PROVE Apart(v)
    BY <2>1, TouchesApart DEF Touches, RemoveForward
  <2>2. CASE \E n \in 0 .. MaxForwards : CreateVm(v, n)
    BY <1>1, <2>2 DEF CreateVm
  <2>3. CASE AddForward(v)
    BY <1>1, <2>3 DEF AddForward
  <2>4. CASE \/ StartVm(v) \/ SuspendVm(v) \/ StopVm(v) \/ HaltVm(v)
             \/ DestroyVm(v) \/ TerminateVm(v) \/ RetireSuspension(v)
    BY <1>1, <2>4, TaskTouched
    DEF StartVm, SuspendVm, StopVm, HaltVm, DestroyVm, TerminateVm, RetireSuspension, Request
  <2> QED BY <1>2, <2>1, <2>2, <2>3, <2>4 DEF Call
<1>3. CASE Place(v) \/ AllocatePort(v) \/ UnallocatePorts(v) \/ FreePorts(v) \/ FreeSlot(v)
  <2>1. CASE Place(v)
    <3>1. ASSUME NEW s \in Slots,
                 task' = [task EXCEPT ![v].pc = "saveCreating", ![v].slot = s,
                            ![v].job = IF @ = "restart" THEN "rerun" ELSE @]
          PROVE  task' = [task EXCEPT ![v] = task'[v]]
      BY <1>0, <3>1
    <3>2. UNCHANGED <<vms, forwards, vmm, snapFile, vol>>
      BY <2>1 DEF Place
    <3> QED BY <1>1, <2>1, <3>1, <3>2, TaskTouched DEF Place
  <2>2. CASE AllocatePort(v)
    BY <1>0, <1>1, <2>2, TaskTouched DEF AllocatePort
  <2>3. CASE UnallocatePorts(v) \/ FreePorts(v) \/ FreeSlot(v)
    BY <1>1, <2>3, TaskTouched DEF UnallocatePorts, FreePorts, FreeSlot
  <2> QED BY <1>3, <2>1, <2>2, <2>3
<1>4. CASE ApplyNetwork(v) \/ TearDownNet(v) \/ WithdrawForward(v)
  BY <1>1, <1>4, TaskTouched DEF ApplyNetwork, TearDownNet, WithdrawForward
<1>5. CASE Provision(v) \/ TearDownVolume(v)
  <2>1. /\ UNCHANGED <<vms, forwards, vmm, snapFile>>
        /\ vol' \in {vol, vol \cup {v}, vol \ {v}}
    BY <1>5 DEF Provision, TearDownVolume
  <2>2. \E new : task' = [task EXCEPT ![v] = new]
    BY <1>5, TaskTouched DEF Provision, TearDownVolume
  <2> QED BY <2>1, <2>2, TouchesApart DEF Touches
<1>6. CASE InsertVm(v) \/ SaveCreating(v) \/ SaveRunning(v) \/ SaveSuspended(v) \/ SaveStopped(v)
  <2>1. UNCHANGED <<vmm, snapFile, vol, forwards>>
    BY <1>6 DEF InsertVm, SaveCreating, SaveRunning, SaveSuspended, SaveStopped
  <2>2. \E new : task' = [task EXCEPT ![v] = new]
    BY <1>6, TaskTouched DEF InsertVm, SaveCreating, SaveRunning, SaveSuspended, SaveStopped
  <2>3. vms' = vms \/ \E new : vms' = [vms EXCEPT ![v] = new]
    BY SMTT(60), <1>0, <1>6 DEF InsertVm, SaveCreating, SaveRunning, SaveSuspended, SaveStopped
  <2> QED BY <2>1, <2>2, <2>3, TouchesApart DEF Touches
<1>7. CASE CreateVmm(v) \/ StartVmm(v) \/ ResumeVmm(v) \/ StopVmm(v) \/ RetireVmm(v)
  <2>1. UNCHANGED <<vms, snapFile, vol, forwards>>
    BY <1>7 DEF CreateVmm, StartVmm, ResumeVmm, StopVmm, RetireVmm
  <2>2. \E new : task' = [task EXCEPT ![v] = new]
    BY SMTT(60), <1>0, <1>7, TaskTouched DEF CreateVmm, StartVmm, ResumeVmm, StopVmm, RetireVmm
  <2>3. vmm' = vmm \/ \E new : vmm' = [vmm EXCEPT ![v] = new]
    BY <1>0, <1>7 DEF CreateVmm, StartVmm, ResumeVmm, StopVmm, RetireVmm
  <2> QED BY <2>1, <2>2, <2>3, TouchesApart DEF Touches
<1>8. CASE Suspend(v) \/ TearDownVmm(v)
  <2>1. UNCHANGED <<vms, vol, forwards>>
    BY <1>8 DEF Suspend, TearDownVmm
  <2>2. \E new : task' = [task EXCEPT ![v] = new]
    BY <1>8, TaskTouched DEF Suspend, TearDownVmm
  <2>3. vmm' = vmm \/ \E new : vmm' = [vmm EXCEPT ![v] = new]
    BY <1>0, <1>8 DEF Suspend, TearDownVmm
  <2>4. snapFile' = snapFile \/ \E new : snapFile' = [snapFile EXCEPT ![v] = new]
    BY <1>0, <1>8 DEF Suspend, TearDownVmm
  <2> QED BY <2>1, <2>2, <2>3, <2>4, TouchesApart DEF Touches
<1>9. CASE InsertForward(v) \/ DeclareForward(v) \/ SteerForward(v)
  <2>1. UNCHANGED <<vms, vmm, snapFile, vol>>
    BY <1>9 DEF InsertForward, DeclareForward, SteerForward
  <2>2. task' = task \/ \E new : task' = [task EXCEPT ![v] = new]
    BY <1>9, TaskTouched DEF InsertForward, DeclareForward, SteerForward
  <2>3. \A w \in VmIds \ {v}, p \in Ports : <<w, p>> \in forwards' <=> <<w, p>> \in forwards
    <3>1. CASE SteerForward(v)
      <4>1. forwards' \in {forwards, forwards \ ({v} \X task[v].ports)}
        BY <3>1 DEF SteerForward
      <4> QED BY <4>1
    <3>2. CASE InsertForward(v)
      <4>1. forwards' = forwards \/ \E p \in task[v].ports : forwards' = forwards \cup {<<v, p>>}
        BY <3>2 DEF InsertForward
      <4> QED BY SMTT(60), <4>1
    <3>3. CASE DeclareForward(v)
      <4>1. forwards' = forwards \/ \E p \in task[v].ports : forwards' = forwards \cup {<<v, p>>}
        BY <3>3 DEF DeclareForward
      <4> QED BY SMTT(60), <4>1
    <3> QED BY <1>9, <3>1, <3>2, <3>3
  <2> QED BY <2>1, <2>2, <2>3, TouchesApart DEF Touches
<1>10. CASE DeleteVm(v)
  <2>1. UNCHANGED <<vmm, snapFile, vol>> /\ (vms' = vms \/ vms' = [vms EXCEPT ![v] = NoRow])
    BY <1>10 DEF DeleteVm
  <2>2. \E new : task' = [task EXCEPT ![v] = new]
    BY <1>10, TaskTouched DEF DeleteVm
  <2>3. \A w \in VmIds \ {v}, p \in Ports : <<w, p>> \in forwards' <=> <<w, p>> \in forwards
    BY <1>10 DEF DeleteVm
  <2> QED BY <2>1, <2>2, <2>3, TouchesApart DEF Touches
<1>11. CASE VmmExit(v) \/ GuestWrites(v)
  <2>1. UNCHANGED <<vms, vol, forwards, task>>
    BY <1>11 DEF VmmExit, GuestWrites
  <2>2. vmm' = vmm \/ \E new : vmm' = [vmm EXCEPT ![v] = new]
    BY <1>0, <1>11 DEF VmmExit, GuestWrites
  <2>3. snapFile' = snapFile \/ \E new : snapFile' = [snapFile EXCEPT ![v] = new]
    BY <1>0, <1>11 DEF VmmExit, GuestWrites
  <2> QED BY <2>1, <2>2, <2>3, TouchesApart DEF Touches
<1>12. CASE Cancel(v) \/ Probe(v) \/ Reap(v) \/ RecoverVm(v)
  BY <1>1, <1>12, TaskTouched DEF Cancel, Probe, Reap, RecoverVm, HandleExit, Abandon
<1> QED BY <1>2, <1>3, <1>4, <1>5, <1>6, <1>7, <1>8, <1>9, <1>10, <1>11, <1>12 DEF Step

(* Control is an invariant: where a handler stands tells its job, whether its *)
(* VM has a row, and whether it may take the VM's disk.                       *)
Controlled == \A v \in VmIds : Control(v)

LEMMA ControlledInit == Init => Controlled
<1> SUFFICES ASSUME Init, NEW v \in VmIds PROVE Control(v)
  BY DEF Controlled
<1>1. vms[v] = NoRow /\ task[v] = Idle /\ HostPorts(v) = {}
  BY DEF Init, HostPorts
<1>2. NoRow.dev = FALSE
  BY DEF NoRow
<1> QED BY <1>1, <1>2, IdleFields DEF Control

LEMMA ControlledStep == TypeOK /\ Controlled /\ [Next]_vars => Controlled'
<1> SUFFICES ASSUME TypeOK, Controlled, [Next]_vars, NEW w \in VmIds PROVE Control(w)'
  BY DEF Controlled
<1>0. Control(w)
  BY DEF Controlled
<1>1. ASSUME NEW v \in VmIds,
             \/ Call(v) \/ Step(v) \/ VmmExit(v) \/ GuestWrites(v) \/ Cancel(v)
             \/ Probe(v) \/ Reap(v) \/ RecoverVm(v)
      PROVE  Control(w)'
  <2>1. CASE w = v
    BY <1>0, <1>1, <2>1, CallControl, BringUpControl, LifecycleControl, TearDownControl,
       ForwardControl, BesideControl DEF Step
  <2>2. CASE w # v
    <3>1. /\ vms'[w] = vms[w] /\ task'[w] = task[w] /\ vmm'[w] = vmm[w]
          /\ HostPorts(w)' = HostPorts(w)
      BY <1>1, <2>2, StepApart DEF Apart
    <3> QED BY <1>0, <3>1 DEF Control, Exited, Live
  <2> QED BY <2>1, <2>2
<1>2. CASE Crash \/ GiveUp \/ Boot \/ Serve
  BY <1>0, <1>2, DaemonControl
<1>3. CASE UNCHANGED vars
  BY <1>0, <1>3, PortsKept DEF vars, Control, Exited, Live
<1> QED BY <1>1, <1>2, <1>3 DEF Next

(* At every stage of a handler, what its job, the VM's record and its disk    *)
(* say fits the stage, through every fault, dropped request and crash.        *)
THEOREM ControlInvariant == Spec => []Controlled
BY ControlledInit, ControlledStep, TypeCorrect, PTL DEF Spec

(* The supervisor and recovery finish off or replace only a VMM that is gone, *)
(* for any number of VMs, under every fault, crash and dropped request: reap  *)
(* looks again under the lock, and no step of their handlers brings the VM up *)
(* before the old placement is let go.                                        *)
THEOREM ReapsOnlyExitedHolds == Spec => []ReapsOnlyExited
<1>1. Controlled => ReapsOnlyExited
  BY DEF Controlled, Control, ReapsOnlyExited
<1> QED BY <1>1, ControlInvariant, PTL

(* A durable disk that has been up goes only when its deletion was asked for: *)
(* tear_down's last step is reached with keep unset, and only destroy_vm sets *)
(* out that way on such a VM.                                                 *)
THEOREM DiskKeptHolds == Spec => DiskKept
<1>1. TypeOK /\ Controlled /\ [Next]_vars => [DiskKeptStep]_vars
  <2> SUFFICES ASSUME TypeOK, Controlled, Next,
                      NEW v \in Durable, v \in vol, v \notin vol', vms[v].dev
               PROVE  task[v].job = "destroy"
    BY DEF DiskKeptStep
  <2>0. v \in VmIds /\ Control(v)
    BY SetsAssumption DEF Controlled
  <2>1. PICK u \in VmIds :
          \/ Call(u) \/ Step(u) \/ VmmExit(u) \/ GuestWrites(u) \/ Cancel(u)
          \/ Probe(u) \/ Reap(u) \/ RecoverVm(u)
    BY DEF Next, Crash, GiveUp, Boot, Serve
  <2>2. u = v
    BY <2>0, <2>1, StepApart DEF Apart
  <2>3. TearDownVolume(v)
    <3>1. vol' # vol
      OBVIOUS
    <3>2. ~Call(v)
      BY <3>1 DEF Call, CreateVm, StartVm, SuspendVm, StopVm, HaltVm, DestroyVm, TerminateVm,
         RetireSuspension, AddForward, RemoveForward, Request
    <3>3. Step(v)
      BY <2>1, <2>2, <3>1, <3>2 DEF VmmExit, GuestWrites, Cancel, Probe, Reap, RecoverVm
    <3>4. Provision(v) \/ TearDownVolume(v)
      BY <3>1, <3>3 DEF Step, AllocatePort, InsertVm, InsertForward, ApplyNetwork, CreateVmm,
         StartVmm, SaveRunning, ResumeVmm, Place, SaveCreating, Suspend, SaveSuspended, StopVmm,
         RetireVmm, UnallocatePorts, TearDownVmm, TearDownNet, FreePorts, DeleteVm, SaveStopped,
         FreeSlot, DeclareForward, SteerForward, WithdrawForward
    <3>5. ~Provision(v)
      BY DEF Provision
    <3> QED BY <3>4, <3>5
  <2>4. task[v].pc = "volume"
    BY <2>3 DEF TearDownVolume, At
  <2> QED BY <2>0, <2>4 DEF Control
<1> QED BY <1>1, TypeCorrect, ControlInvariant, PTL DEF Spec, DiskKept

-----------------------------------------------------------------------------
(***************************************************************************)
(* What is on the host is on record, and no slot is lost.  Tidy says what  *)
(* the stage of a handler implies for its VM's disk, snapshot and ports,   *)
(* NetOK whose network is in a slot, SlotOK that some VM answers for every *)
(* slot the allocator holds.                                               *)
(***************************************************************************)
(* What a handler has taken away of its VM by the stage it is in, and what a *)
(* VM without a row has left: no snapshot, and no volume.                    *)
Files(v) ==
  LET t == task[v] IN
  /\ t.pc \in {"ports", "volume", "delete"} \/ (t.pc = "net" /\ ~t.keep) => snapFile[v] = "none"
  /\ "voldown" \notin Faults /\ t.pc = "delete" => v \notin vol
  /\ vms[v].state = "none" => snapFile[v] = "none" /\ ("voldown" \notin Faults => v \notin vol)

(* How the host ports a handler works with stand to those on its VM's rows. *)
Ported(v) ==
  LET t == task[v] IN
  /\ t.job = "none" => t.pc = "idle"
  /\ t.pc \in {"declare", "steer", "withdraw"} => t.job = "forward"
  /\ t.pc \in {"alloc", "insert", "rows", "unport"} => t.job = "create"
  /\ t.pc \in {"rows", "unport"} => HostPorts(v) \subseteq t.ports
  /\ t.pc = "withdraw" => t.ports \cap HostPorts(v) = {}
  /\ t.job = "create" =>
       /\ ~t.keep
       /\ t.pc \in BringUpPcs \cup
            {"alloc", "insert", "rows", "unport", "vmm", "net", "volume", "delete", "free"}
  /\ t.job = "create" /\ t.pc \in BringUpPcs => t.ports = HostPorts(v)
  /\ t.job \notin {"none", "create", "forward"} /\ ~(t.pc = "free" /\ ~t.keep) =>
       t.ports = HostPorts(v)

Tidy(v) == Files(v) /\ Ported(v)

(* A handler that returned holds nothing; only what a VM without a row has *)
(* left is to be seen to.                                                  *)
LEMMA IdleTidy ==
  ASSUME TypeOK, NEW v \in VmIds, task'[v] = Idle,
         vms'[v].state = "none" =>
           snapFile'[v] = "none" /\ ("voldown" \notin Faults => v \notin vol')
  PROVE  Tidy(v)'
<1>1. Files(v)'
  BY IdleFields DEF Files
<1>2. Ported(v)'
  BY IdleFields DEF Ported
<1> QED BY <1>1, <1>2 DEF Tidy

LEMMA ReturnTidy ==
  ASSUME TypeOK, NEW v \in VmIds, Tidy(v), task'[v] = Idle,
         vms'[v].state = vms[v].state \/ vms'[v].state # "none", UNCHANGED <<snapFile, vol>>
  PROVE  Tidy(v)'
BY IdleTidy DEF Tidy, Files

(* A handler that goes on, with its VM's rows, snapshot and volume as they *)
(* were.                                                                   *)
LEMMA OnwardTidy ==
  ASSUME TypeOK, NEW v \in VmIds, Tidy(v), NEW pc, Continue(v, pc),
         UNCHANGED <<forwards, snapFile>>, vms'[v].state # "none",
         vol' = vol \/ pc # "delete",
         task[v].pc # "idle", task[v].pc # "free", pc # "idle",
         pc \notin {"ports", "volume", "delete", "net", "declare", "steer"},
         pc \in {"alloc", "insert", "rows", "unport", "withdraw"} =>
           pc = "unport" /\ task[v].job = "create" /\ HostPorts(v) \subseteq task[v].ports,
         task[v].job = "create" =>
           /\ pc \in BringUpPcs \cup {"unport", "vmm"}
           /\ pc \in BringUpPcs => task[v].ports = HostPorts(v)
  PROVE  Tidy(v)'
<1>1. /\ task'[v].pc = pc /\ task'[v].job = task[v].job
      /\ task'[v].ports = task[v].ports /\ task'[v].keep = task[v].keep
  BY TaskMoves
<1>2. HostPorts(v)' = HostPorts(v)
  BY PortsKept
<1>3. Files(v)'
  BY <1>1 DEF Files
<1>4. Ported(v)'
  BY <1>1, <1>2 DEF Tidy, Ported
<1> QED BY <1>3, <1>4 DEF Tidy

LEMMA CallTidy ==
  ASSUME TypeOK, NEW v \in VmIds, Control(v), Tidy(v), Call(v)
  PROVE  Tidy(v)'
<1>0. task \in [VmIds -> Task]
  BY DEF TypeOK
<1>1. UNCHANGED <<vms, snapFile, vol>>
  BY DEF Call, CreateVm, StartVm, SuspendVm, StopVm, HaltVm, DestroyVm, TerminateVm,
     RetireSuspension, AddForward, RemoveForward, Request
<1>2. ASSUME NEW n \in 0 .. MaxForwards, CreateVm(v, n) PROVE Tidy(v)'
  <2>1. /\ task'[v].pc = "alloc" /\ task'[v].job = "create" /\ task'[v].keep = FALSE
        /\ vms[v].state = "none" /\ forwards' = forwards
    BY SMTT(60), <1>0, <1>2 DEF CreateVm
  <2> QED BY <1>1, <2>1, PortsKept DEF Tidy, Files, Ported, BringUpPcs
<1>3. ASSUME NEW call, Request(v, call), NEW job, NEW pc, NEW keep, Begin(v, job, pc, keep),
             job \in {"start", "suspend", "stop", "destroy", "terminate", "retire"},
             pc \in {"resume", "suspend", "stop", "vmm", "place"}
      PROVE  Tidy(v)'
  <2>1. /\ task'[v].pc = pc /\ task'[v].job = job /\ task'[v].keep = keep
        /\ task'[v].ports = HostPorts(v)
    BY SMTT(60), <1>3, TaskMoves
  <2>2. HostPorts(v)' = HostPorts(v)
    BY <1>3, PortsKept DEF Request
  <2> QED BY <1>1, <1>3, <2>1, <2>2 DEF Tidy, Files, Ported
<1>4. CASE StartVm(v) \/ SuspendVm(v)
  BY <1>3, <1>4 DEF StartVm, SuspendVm
<1>5. CASE StopVm(v) \/ HaltVm(v) \/ DestroyVm(v) \/ TerminateVm(v) \/ RetireSuspension(v)
  BY <1>3, <1>5 DEF StopVm, HaltVm, DestroyVm, TerminateVm, RetireSuspension
<1>6. CASE AddForward(v)
  <2>1. task'[v].pc = "declare" /\ task'[v].job = "forward"
    BY SMTT(60), <1>0, <1>6 DEF AddForward, Forwarding
  <2> QED BY <1>1, <2>1 DEF Tidy, Files, Ported
<1>7. ASSUME NEW p \in Ports, RemoveForward(v, p) PROVE Tidy(v)'
  <2>1. task'[v].pc = "withdraw" /\ task'[v].job = "forward" /\ task'[v].ports = {p}
    BY <1>0, <1>7 DEF RemoveForward, Forwarding
  <2>2. p \notin HostPorts(v)'
    BY <1>7 DEF RemoveForward, HostPorts
  <2> QED BY <1>1, <2>1, <2>2 DEF Tidy, Files, Ported
<1> QED BY <1>2, <1>4, <1>5, <1>6, <1>7 DEF Call

LEMMA BringUpTidy ==
  ASSUME TypeOK, NEW v \in VmIds, Control(v), Tidy(v),
         \/ AllocatePort(v) \/ InsertVm(v) \/ InsertForward(v)
         \/ Provision(v) \/ ApplyNetwork(v) \/ CreateVmm(v) \/ StartVmm(v) \/ SaveRunning(v)
  PROVE  Tidy(v)'
<1>0. task \in [VmIds -> Task] /\ task[v] \in Task
      /\ vms \in [VmIds -> Row] /\ vms[v] \in Row
  BY DEF TypeOK
<1>1. CASE AllocatePort(v)
  <2>1. task[v].pc = "alloc" /\ UNCHANGED <<vms, forwards, snapFile, vol>>
    BY <1>1 DEF AllocatePort, At
  <2>2. \/ task'[v] = Idle
        \/ /\ task'[v].pc \in {"alloc", "insert"} /\ task'[v].job = task[v].job
           /\ task'[v].keep = task[v].keep
    <3>1. CASE Continue(v, "insert") \/ Fail(v)
      BY <3>1, TaskMoves
    <3>2. ASSUME NEW p \in Ports,
                 task' = [task EXCEPT ![v].ports = @ \cup {p}, ![v].want = @ - 1]
          PROVE  /\ task'[v].pc = "alloc" /\ task'[v].job = task[v].job
                 /\ task'[v].keep = task[v].keep
      BY <1>0, <2>1, <3>2 DEF Task
    <3> QED BY <1>1, <3>1, <3>2 DEF AllocatePort
  <2>3. CASE task'[v] = Idle
    BY <2>1, <2>3, ReturnTidy
  <2>4. CASE task'[v] # Idle
    BY <2>1, <2>2, <2>4 DEF Tidy, Files, Ported, BringUpPcs
  <2> QED BY <2>3, <2>4
<1>2. CASE InsertVm(v)
  <2>1. task[v].pc = "insert" /\ UNCHANGED <<forwards, snapFile, vol>>
    BY <1>2 DEF InsertVm, At
  <2>2. CASE UNCHANGED vms /\ Fail(v)
    BY <2>1, <2>2, TaskMoves, ReturnTidy
  <2>3. ASSUME vms' = [vms EXCEPT ![v] =
                 [state |-> "creating", slot |-> task[v].slot, dev |-> FALSE, snap |-> FALSE]],
               Continue(v, "rows")
        PROVE  Tidy(v)'
    <3>1. vms'[v].state = "creating"
      BY <1>0, <2>3
    <3>2. task'[v].pc = "rows" /\ task'[v].job = task[v].job /\ task'[v].keep = task[v].keep
      BY <2>3, TaskMoves
    <3>3. HostPorts(v)' = {}
      BY <2>1, PortsKept DEF Control
    <3> QED BY <2>1, <3>1, <3>2, <3>3 DEF Tidy, Files, Ported, BringUpPcs
  <2> QED BY <1>2, <2>2, <2>3 DEF InsertVm
<1>3. CASE InsertForward(v)
  <2>1. /\ task[v].pc = "rows" /\ UNCHANGED <<vms, snapFile, vol>> /\ vms[v].state # "none"
        /\ task[v].job = "create" /\ HostPorts(v) \subseteq task[v].ports
    BY <1>3 DEF InsertForward, At, Control, Tidy, Ported
  <2>2. CASE task[v].ports \subseteq HostPorts(v) /\ Continue(v, "provision") /\ UNCHANGED forwards
    <3>1. task[v].ports = HostPorts(v)
      BY <2>1, <2>2
    <3>2. "provision" \in BringUpPcs
      BY DEF BringUpPcs
    <3> QED BY <2>1, <2>2, <3>1, <3>2, OnwardTidy
  <2>3. CASE Continue(v, "unport") /\ UNCHANGED forwards
    BY <2>1, <2>3, OnwardTidy DEF BringUpPcs
  <2>4. ASSUME NEW p \in task[v].ports, forwards' = forwards \cup {<<v, p>>}, UNCHANGED task
        PROVE  Tidy(v)'
    <3>1. HostPorts(v)' \subseteq task[v].ports
      BY <2>1, <2>4 DEF HostPorts
    <3> QED BY <2>1, <2>4, <3>1 DEF Tidy, Files, Ported, BringUpPcs
  <2> QED BY <1>3, <2>2, <2>3, <2>4 DEF InsertForward
<1>4. ASSUME task[v].pc \in BringUpPcs, UNCHANGED <<forwards, snapFile>>,
             vms'[v].state # "none",
             \/ \E pc \in {"apply", "boot", "go", "saveRunning"} : Continue(v, pc)
             \/ task[v].job = "retire" /\ Continue(v, "retire")
             \/ BringUpFailed(v)
      PROVE  Tidy(v)'
  <2>1. /\ task[v].pc \notin {"idle", "free"}
        /\ task[v].job = "create" => task[v].ports = HostPorts(v)
    BY <1>4 DEF Tidy, Ported, BringUpPcs
  <2>2. ASSUME NEW pc \in {"apply", "boot", "go", "saveRunning", "vmm"}, Continue(v, pc)
        PROVE  Tidy(v)'
    BY <1>4, <2>1, <2>2, OnwardTidy DEF BringUpPcs
  <2>4. ASSUME task[v].job = "retire", Continue(v, "retire") PROVE Tidy(v)'
    BY <1>4, <2>1, <2>4, OnwardTidy DEF BringUpPcs
  <2>3. ASSUME Continue(v, "unport"), task[v].job = "create"
        PROVE  Tidy(v)'
    BY <1>4, <2>1, <2>3, OnwardTidy DEF BringUpPcs
  <2> QED BY <1>4, <2>2, <2>3, <2>4 DEF BringUpFailed
<1>5. ASSUME task[v].pc \in BringUpPcs
      PROVE  vms[v].state # "none"
  BY <1>5 DEF Control, BringUpPcs
<1>6. CASE Provision(v)
  BY <1>4, <1>5, <1>6 DEF Provision, At, BringUpPcs
<1>7. CASE ApplyNetwork(v)
  BY <1>4, <1>5, <1>7 DEF ApplyNetwork, At, BringUpPcs
<1>8. CASE CreateVmm(v)
  <2>1. /\ task[v].pc = "boot" /\ UNCHANGED <<vms, forwards, snapFile>>
        /\ Continue(v, "go") \/ BringUpFailed(v)
    BY <1>8 DEF CreateVmm, At
  <2> QED BY <1>4, <1>5, <2>1 DEF BringUpPcs
<1>9. CASE StartVmm(v)
  BY <1>4, <1>5, <1>9 DEF StartVmm, At, BringUpPcs
<1>10. CASE SaveRunning(v)
  <2>1. task[v].pc = "saveRunning" /\ UNCHANGED <<forwards, snapFile, vol>>
    BY <1>10 DEF SaveRunning, At
  <2>2. vms'[v].state # "none"
    BY <1>0, <1>5, <1>10, <2>1 DEF SaveRunning, Row, BringUpPcs
  <2>3. (task[v].job = "retire" /\ Continue(v, "retire")) \/ Finish(v) \/ Fail(v)
    BY <1>10 DEF SaveRunning
  <2> QED BY <1>4, <2>1, <2>2, <2>3, TaskMoves, ReturnTidy DEF BringUpPcs
<1> QED BY <1>1, <1>2, <1>3, <1>6, <1>7, <1>8, <1>9, <1>10

LEMMA LifecycleTidy ==
  ASSUME TypeOK, NEW v \in VmIds, Control(v), Tidy(v),
         \/ ResumeVmm(v) \/ Place(v) \/ SaveCreating(v)
         \/ Suspend(v) \/ SaveSuspended(v) \/ StopVmm(v) \/ RetireVmm(v)
  PROVE  Tidy(v)'
<1>0. task \in [VmIds -> Task] /\ task[v] \in Task
      /\ vms \in [VmIds -> Row] /\ vms[v] \in Row
  BY DEF TypeOK
<1>1. /\ task[v].pc \in {"resume", "place", "saveCreating", "suspend", "saveSuspended", "stop",
                         "retire"}
      /\ UNCHANGED <<forwards, vol>>
  BY DEF ResumeVmm, Place, SaveCreating, Suspend, SaveSuspended, StopVmm, RetireVmm, At
<1>2. vms[v].state # "none" /\ vms'[v].state # "none"
  <2>1. vms[v].state # "none"
    BY <1>1 DEF Control
  <2>2. CASE SaveCreating(v)
    BY <1>0, <2>1, <2>2 DEF SaveCreating, Row
  <2>3. CASE SaveSuspended(v)
    BY <1>0, <2>1, <2>3 DEF SaveSuspended, Row
  <2>4. CASE ResumeVmm(v) \/ Place(v) \/ Suspend(v) \/ StopVmm(v) \/ RetireVmm(v)
    BY <2>1, <2>4 DEF ResumeVmm, Place, Suspend, StopVmm, RetireVmm
  <2> QED BY <2>1, <2>2, <2>3, <2>4
<1>3. CASE task'[v] = Idle
  BY <1>2, <1>3, IdleTidy
<1>4. ASSUME NEW pc \in {"saveRunning", "vmm"}, Continue(v, pc), UNCHANGED snapFile,
             task[v].job # "create"
      PROVE  Tidy(v)'
  BY <1>1, <1>2, <1>4, OnwardTidy
<1>5. ASSUME Continue(v, "vmm"), UNCHANGED snapFile
      PROVE  Tidy(v)'
  BY <1>1, <1>2, <1>5, OnwardTidy DEF BringUpPcs
<1>6. CASE StopVmm(v)
  BY <1>3, <1>5, <1>6, TaskMoves DEF StopVmm
<1>7. CASE SaveSuspended(v)
  BY <1>3, <1>7, TaskMoves DEF SaveSuspended
<1>8. CASE Suspend(v)
  <2>1. CASE Continue(v, "saveSuspended")
    <3>1. /\ task'[v].pc = "saveSuspended" /\ task'[v].job = task[v].job
          /\ task'[v].ports = task[v].ports /\ task[v].pc = "suspend"
      BY <1>8, <2>1, TaskMoves DEF Suspend, At
    <3>2. HostPorts(v)' = HostPorts(v)
      BY <1>1, PortsKept
    <3> QED BY <1>2, <3>1, <3>2 DEF Tidy, Files, Ported, BringUpPcs
  <2> QED BY <1>3, <1>8, <2>1, TaskMoves DEF Suspend
<1>9. CASE RetireVmm(v)
  <2>1. ASSUME task' = [task EXCEPT ![v].job = "terminate", ![v].pc = "vmm"] PROVE Tidy(v)'
    <3>1. task[v].pc = "retire"
      BY <1>9 DEF RetireVmm, At
    <3>2. task'[v].pc = "vmm" /\ task'[v].job = "terminate" /\ task'[v].ports = task[v].ports
      BY <1>0, <2>1 DEF Task
    <3>3. HostPorts(v)' = HostPorts(v)
      BY <1>1, PortsKept
    <3>4. task[v].ports = HostPorts(v)
      BY <3>1 DEF Control, Tidy, Ported
    <3> QED BY <1>2, <3>2, <3>3, <3>4 DEF Tidy, Files, Ported, BringUpPcs
  <2> QED BY <1>3, <1>9, <2>1, TaskMoves DEF RetireVmm
<1>10. CASE Place(v)
  <2>1. ASSUME NEW s \in Slots,
               task' = [task EXCEPT ![v].pc = "saveCreating", ![v].slot = s,
                          ![v].job = IF @ = "restart" THEN "rerun" ELSE @]
        PROVE  Tidy(v)'
    <3>1. task[v].pc = "place"
      BY <1>10 DEF Place, At
    <3>2. /\ task'[v].pc = "saveCreating" /\ task'[v].ports = task[v].ports
          /\ task'[v].job = IF task[v].job = "restart" THEN "rerun" ELSE task[v].job
      BY <1>0, <2>1 DEF Task
    <3>3. HostPorts(v)' = HostPorts(v)
      BY <1>1, PortsKept
    <3>4. task[v].ports = HostPorts(v) /\ task[v].job \in {"start", "restart"}
      BY <3>1 DEF Control, Tidy, Ported
    <3> QED BY <1>2, <3>2, <3>3, <3>4 DEF Tidy, Files, Ported, BringUpPcs
  <2> QED BY <1>3, <1>10, <2>1, TaskMoves DEF Place
<1>11. CASE SaveCreating(v)
  <2>1. ASSUME Continue(v, "provision") PROVE Tidy(v)'
    <3>1. task[v].pc = "saveCreating" /\ UNCHANGED snapFile
      BY <1>11 DEF SaveCreating, At
    <3>2. task[v].job # "create"
      BY <3>1 DEF Tidy, Ported, BringUpPcs
    <3> QED BY <1>1, <1>2, <2>1, <3>1, <3>2, OnwardTidy
  <2> QED BY <1>3, <1>11, <2>1, TaskMoves DEF SaveCreating
<1>12. CASE ResumeVmm(v)
  <2>1. ASSUME Continue(v, "saveRunning") PROVE Tidy(v)'
    <3>1. task[v].pc = "resume" /\ UNCHANGED snapFile
      BY <1>12 DEF ResumeVmm, At
    <3>2. task[v].job # "create"
      BY <3>1 DEF Tidy, Ported, BringUpPcs
    <3> QED BY <1>4, <2>1, <3>1, <3>2
  <2> QED BY <1>3, <1>12, <2>1, TaskMoves DEF ResumeVmm
<1> QED BY <1>6, <1>7, <1>8, <1>9, <1>10, <1>11, <1>12

LEMMA TearDownTidy ==
  ASSUME TypeOK, NEW v \in VmIds, Control(v), Tidy(v),
         \/ UnallocatePorts(v) \/ TearDownVmm(v) \/ TearDownNet(v) \/ FreePorts(v)
         \/ TearDownVolume(v) \/ DeleteVm(v) \/ SaveStopped(v) \/ FreeSlot(v)
  PROVE  Tidy(v)'
<1>0. task \in [VmIds -> Task] /\ task[v] \in Task
      /\ vms \in [VmIds -> Row] /\ vms[v] \in Row
      /\ snapFile \in [VmIds -> {"none", "fresh", "stale"}]
  BY DEF TypeOK
<1>1. CASE UnallocatePorts(v)
  <2>1. /\ task[v].pc = "unport" /\ UNCHANGED <<vms, forwards, snapFile, vol>>
        /\ Continue(v, "vmm")
    BY <1>1 DEF UnallocatePorts, At
  <2>2. vms[v].state # "none"
    BY <2>1 DEF Control
  <2> QED BY <2>1, <2>2, OnwardTidy DEF BringUpPcs
<1>2. ASSUME NEW pc, Continue(v, pc), UNCHANGED <<vms, forwards>>,
             task[v].pc \in {"vmm", "net", "ports", "volume"},
             pc \in {"net", "save", "ports", "volume", "delete"},
             task[v].job = "create" => pc \in {"net", "volume", "delete"},
             pc # "save" /\ ~task[v].keep => snapFile'[v] = "none",
             pc \in {"ports", "volume", "delete"} => ~task[v].keep,
             "voldown" \notin Faults /\ pc = "delete" => v \notin vol'
      PROVE  Tidy(v)'
  <2>1. /\ task'[v].pc = pc /\ task'[v].job = task[v].job
        /\ task'[v].ports = task[v].ports /\ task'[v].keep = task[v].keep
    BY <1>2, TaskMoves
  <2>2. HostPorts(v)' = HostPorts(v) /\ vms'[v].state # "none"
    BY <1>2, PortsKept DEF Control
  <2>3. Files(v)'
    BY <1>2, <2>1, <2>2 DEF Files
  <2>4. Ported(v)'
    BY <1>2, <2>1, <2>2 DEF Tidy, Ported, BringUpPcs
  <2> QED BY <2>3, <2>4 DEF Tidy
<1>3. CASE TearDownVmm(v)
  <2>1. task[v].pc = "vmm" /\ UNCHANGED <<vms, forwards, vol>>
    BY <1>3 DEF TearDownVmm, At
  <2>2. CASE Fail(v) /\ UNCHANGED snapFile
    BY <2>1, <2>2, TaskMoves, ReturnTidy
  <2>3. ASSUME Continue(v, "net"),
               snapFile' = IF ~task[v].keep \/ task[v].job = "terminate"
                           THEN [snapFile EXCEPT ![v] = "none"] ELSE snapFile
        PROVE  Tidy(v)'
    <3>1. ~task[v].keep => snapFile'[v] = "none"
      BY <1>0, <2>3
    <3> QED BY <1>2, <2>1, <2>3, <3>1
  <2> QED BY <1>3, <2>2, <2>3 DEF TearDownVmm
<1>4. CASE TearDownNet(v)
  <2>1. task[v].pc = "net" /\ UNCHANGED <<vms, forwards, snapFile, vol>>
    BY <1>4 DEF TearDownNet, At
  <2>2. CASE Fail(v)
    BY <2>1, <2>2, TaskMoves, ReturnTidy
  <2>3. ~task[v].keep => snapFile[v] = "none"
    BY <2>1 DEF Tidy, Files
  <2>4. task[v].job = "create" => ~task[v].keep
    BY DEF Tidy, Ported
  <2>5. ASSUME NEW pc, Continue(v, pc),
               pc = IF task[v].keep THEN "save"
                    ELSE IF task[v].job = "create" THEN "volume" ELSE "ports"
        PROVE  Tidy(v)'
    BY <1>2, <2>1, <2>3, <2>4, <2>5
  <2> QED BY <1>4, <2>2, <2>5 DEF TearDownNet
<1>5. CASE FreePorts(v)
  <2>1. /\ task[v].pc = "ports" /\ UNCHANGED <<vms, forwards, snapFile, vol>>
        /\ Continue(v, "volume")
    BY <1>5 DEF FreePorts, At
  <2>2. ~task[v].keep /\ snapFile[v] = "none"
    BY <2>1 DEF Control, Tidy, Files
  <2> QED BY <1>2, <2>1, <2>2
<1>6. CASE TearDownVolume(v)
  <2>1. /\ task[v].pc = "volume" /\ UNCHANGED <<vms, forwards, snapFile>>
        /\ Continue(v, "delete") /\ ("voldown" \notin Faults => v \notin vol')
    BY <1>6 DEF TearDownVolume, At, May
  <2>2. ~task[v].keep /\ snapFile[v] = "none"
    BY <2>1 DEF Control, Tidy, Files
  <2> QED BY <1>2, <2>1, <2>2
<1>7. CASE DeleteVm(v)
  <2>1. task[v].pc = "delete" /\ UNCHANGED <<snapFile, vol>>
    BY <1>7 DEF DeleteVm, At
  <2>2. CASE UNCHANGED vms /\ Fail(v)
    BY <2>1, <2>2, TaskMoves, ReturnTidy
  <2>3. snapFile[v] = "none" /\ ("voldown" \notin Faults => v \notin vol)
    BY <2>1 DEF Tidy, Files
  <2>4. CASE task'[v] = Idle
    BY <2>1, <2>3, <2>4, IdleTidy
  <2>5. ASSUME forwards' = {f \in forwards : f[1] # v}, AfterSave(v), task'[v] # Idle
        PROVE  Tidy(v)'
    <3>1. task[v].job # "restart" /\ ~task[v].keep
      BY <2>1 DEF Control
    <3>2. /\ task'[v].pc = "free" /\ task'[v].job = task[v].job
          /\ task'[v].keep = task[v].keep
      BY <2>5, <3>1, TaskMoves DEF AfterSave, LetGo
    <3>3. Files(v)'
      BY <2>1, <2>3, <3>2 DEF Files
    <3>4. Ported(v)'
      BY <2>1, <3>1, <3>2 DEF Tidy, Ported, BringUpPcs
    <3> QED BY <3>3, <3>4 DEF Tidy
  <2> QED BY <1>7, <2>2, <2>4, <2>5 DEF DeleteVm
<1>8. ASSUME LetGo(v), task'[v] # Idle
      PROVE  /\ task[v].job = "restart" /\ task'[v].pc = "place"
             /\ task'[v].job = task[v].job /\ task'[v].ports = task[v].ports
             /\ task'[v].keep = task[v].keep
  BY SMTT(60), <1>0, <1>8, TaskMoves DEF LetGo, Task
<1>9. CASE SaveStopped(v)
  <2>1. task[v].pc = "save" /\ UNCHANGED <<forwards, snapFile, vol>>
    BY <1>9 DEF SaveStopped, At
  <2>2. vms[v].state # "none" /\ vms'[v].state # "none"
    BY SMTT(60), <1>0, <1>9, <2>1 DEF SaveStopped, Row, Control
  <2>3. CASE task'[v] = Idle
    BY <2>2, <2>3, IdleTidy
  <2>4. ASSUME AfterSave(v), task'[v] # Idle PROVE Tidy(v)'
    <3>1. /\ task'[v].pc \in {"free", "place"} /\ task'[v].job = task[v].job
          /\ task'[v].ports = task[v].ports /\ task'[v].keep = task[v].keep
      BY <1>8, <2>4, TaskMoves DEF AfterSave
    <3>2. HostPorts(v)' = HostPorts(v)
      BY <2>1, PortsKept
    <3>3. task[v].job # "create"
      BY <2>1 DEF Tidy, Ported, BringUpPcs
    <3>4. Files(v)'
      BY <2>2, <3>1 DEF Files
    <3>5. Ported(v)'
      BY <2>1, <3>1, <3>2, <3>3 DEF Tidy, Ported, BringUpPcs
    <3> QED BY <3>4, <3>5 DEF Tidy
  <2> QED BY <1>9, <2>3, <2>4, TaskMoves DEF SaveStopped
<1>10. CASE FreeSlot(v)
  <2>1. /\ task[v].pc = "free" /\ UNCHANGED <<vms, forwards, snapFile, vol>> /\ LetGo(v)
    BY <1>10 DEF FreeSlot, At
  <2>2. CASE task'[v] = Idle
    BY <2>1, <2>2, ReturnTidy
  <2>3. CASE task'[v] # Idle
    <3>1. /\ task[v].job = "restart" /\ task'[v].pc = "place"
          /\ task'[v].job = task[v].job /\ task'[v].ports = task[v].ports
          /\ task'[v].keep = task[v].keep
      BY <1>8, <2>1, <2>3
    <3>2. HostPorts(v)' = HostPorts(v) /\ task[v].keep /\ task[v].ports = HostPorts(v)
      BY <2>1, <3>1, PortsKept DEF Control, Tidy, Ported
    <3> QED BY <2>1, <3>1, <3>2 DEF Control, Tidy, Files, Ported, BringUpPcs
  <2> QED BY <2>2, <2>3
<1> QED BY <1>1, <1>3, <1>4, <1>5, <1>6, <1>7, <1>9, <1>10

LEMMA ForwardTidy ==
  ASSUME TypeOK, NEW v \in VmIds, Control(v), Tidy(v),
         DeclareForward(v) \/ SteerForward(v) \/ WithdrawForward(v)
  PROVE  Tidy(v)'
<1>1. /\ task[v].pc \in {"declare", "steer", "withdraw"}
      /\ UNCHANGED <<vms, snapFile, vol>>
  BY DEF DeclareForward, SteerForward, WithdrawForward, At
<1>2. Finish(v) \/ Fail(v) \/ (task[v].pc = "declare" /\ Continue(v, "steer"))
  BY DEF DeclareForward, SteerForward, WithdrawForward, At
<1>3. CASE Finish(v) \/ Fail(v)
  BY <1>1, <1>3, TaskMoves, ReturnTidy
<1>4. CASE task[v].pc = "declare" /\ Continue(v, "steer")
  <2>1. task'[v].pc = "steer" /\ task'[v].job = task[v].job
    BY <1>4, TaskMoves
  <2>2. task[v].job = "forward"
    BY <1>4 DEF Control, Tidy, Ported, BringUpPcs
  <2> QED BY <1>1, <2>1, <2>2 DEF Tidy, Files, Ported
<1> QED BY <1>2, <1>3, <1>4

LEMMA BesideTidy ==
  ASSUME TypeOK, NEW v \in VmIds, Control(v), Tidy(v),
         \/ VmmExit(v) \/ GuestWrites(v) \/ Cancel(v)
         \/ Probe(v) \/ Reap(v) \/ RecoverVm(v)
  PROVE  Tidy(v)'
<1>0. task \in [VmIds -> Task] /\ snapFile \in [VmIds -> {"none", "fresh", "stale"}]
  BY DEF TypeOK
<1>1. UNCHANGED <<vms, forwards, vol>> /\ HostPorts(v)' = HostPorts(v)
  BY PortsKept DEF VmmExit, GuestWrites, Cancel, Probe, Reap, RecoverVm
<1>2. CASE UNCHANGED <<task, snapFile>>
  BY <1>1, <1>2 DEF Tidy, Files, Ported
<1>3. CASE GuestWrites(v)
  <2>1. snapFile[v] = "fresh" /\ UNCHANGED task
    BY <1>3 DEF GuestWrites
  <2> QED BY <1>1, <2>1 DEF Tidy, Files, Ported
<1>4. CASE Cancel(v)
  BY <1>0, <1>1, <1>4, ReturnTidy DEF Cancel
<1>5. ASSUME NEW job, NEW pc, NEW keep, Begin(v, job, pc, keep), UNCHANGED snapFile,
             vms[v].state # "none", job \in {"restart", "exit", "abandon"},
             pc = "vmm" \/ (pc = "net" /\ keep)
      PROVE  Tidy(v)'
  <2>1. /\ task'[v].pc = pc /\ task'[v].job = job /\ task'[v].keep = keep
        /\ task'[v].ports = HostPorts(v)
    BY SMTT(60), <1>5, TaskMoves
  <2> QED BY <1>1, <1>5, <2>1 DEF Tidy, Files, Ported
<1>6. ASSUME HandleExit(v), UNCHANGED snapFile, vms[v].state # "none"
      PROVE  Tidy(v)'
  <2>1. \/ Begin(v, "restart", "net", TRUE)
        \/ Begin(v, "exit", "vmm", v \in Durable)
    BY <1>6 DEF HandleExit
  <2> QED BY <1>5, <1>6, <2>1
<1>7. CASE Reap(v)
  BY <1>2, <1>6, <1>7 DEF Reap
<1>8. CASE RecoverVm(v)
  <2>1. UNCHANGED snapFile
    BY <1>8 DEF RecoverVm
  <2>2. \/ HandleExit(v) /\ vms[v].state # "none"
        \/ Begin(v, "abandon", "vmm", v \in Durable /\ vms[v].dev) /\ vms[v].state # "none"
        \/ UNCHANGED task
    BY <1>8 DEF RecoverVm, Abandon
  <2> QED BY <1>2, <1>5, <1>6, <2>1, <2>2
<1>9. CASE VmmExit(v) \/ Probe(v)
  BY <1>2, <1>9 DEF VmmExit, Probe
<1> QED BY <1>3, <1>4, <1>7, <1>8, <1>9

LEMMA DaemonTidy ==
  ASSUME TypeOK, NEW v \in VmIds, Tidy(v), Crash \/ GiveUp \/ Boot \/ Serve
  PROVE  Tidy(v)'
<1>1. UNCHANGED <<vms, forwards, snapFile, vol>>
  BY DEF Crash, GiveUp, Boot, Serve, Forget
<1>2. CASE Forget
  <2>1. task'[v] = Idle
    BY <1>2 DEF Forget
  <2> QED BY <1>1, <2>1, ReturnTidy
<1>3. CASE Boot \/ Serve
  <2>1. UNCHANGED task
    BY <1>3 DEF Boot, Serve
  <2> QED BY <1>1, <2>1, PortsKept DEF Tidy, Files, Ported
<1> QED BY <1>2, <1>3 DEF Crash, GiveUp

AllTidy == \A v \in VmIds : Tidy(v)

(* No host port is on two VMs' rows: the table's primary key, which an insert *)
(* runs into.                                                                 *)
Unique == \A v, w \in VmIds : v # w => HostPorts(v) \cap HostPorts(w) = {}

LEMMA TidyInit == Init => AllTidy /\ Unique
<1> SUFFICES ASSUME Init PROVE AllTidy /\ Unique
  OBVIOUS
<1>1. Unique
  BY DEF Init, Unique, HostPorts
<1>2. ASSUME NEW v \in VmIds PROVE Tidy(v)
  <2>1. task[v] = Idle /\ snapFile[v] = "none" /\ v \notin vol
    BY DEF Init
  <2> QED BY <2>1, IdleFields DEF Tidy, Files, Ported
<1> QED BY <1>1, <1>2 DEF AllTidy

LEMMA TidyStep == TypeOK /\ Controlled /\ AllTidy /\ [Next]_vars => AllTidy'
<1> SUFFICES ASSUME TypeOK, Controlled, AllTidy, [Next]_vars, NEW w \in VmIds PROVE Tidy(w)'
  BY DEF AllTidy
<1>0. Control(w) /\ Tidy(w)
  BY DEF Controlled, AllTidy
<1>1. ASSUME NEW v \in VmIds,
             \/ Call(v) \/ Step(v) \/ VmmExit(v) \/ GuestWrites(v) \/ Cancel(v)
             \/ Probe(v) \/ Reap(v) \/ RecoverVm(v)
      PROVE  Tidy(w)'
  <2>1. CASE w = v
    BY <1>0, <1>1, <2>1, CallTidy, BringUpTidy, LifecycleTidy, TearDownTidy,
       ForwardTidy, BesideTidy DEF Step
  <2>2. CASE w # v
    <3>1. /\ vms'[w] = vms[w] /\ task'[w] = task[w] /\ snapFile'[w] = snapFile[w]
          /\ (w \in vol' <=> w \in vol) /\ HostPorts(w)' = HostPorts(w)
      BY <1>1, <2>2, StepApart DEF Apart
    <3> QED BY <1>0, <3>1 DEF Tidy, Files, Ported
  <2> QED BY <2>1, <2>2
<1>2. CASE Crash \/ GiveUp \/ Boot \/ Serve
  BY <1>0, <1>2, DaemonTidy
<1>3. CASE UNCHANGED vars
  BY <1>0, <1>3, PortsKept DEF vars, Tidy, Files, Ported
<1> QED BY <1>1, <1>2, <1>3 DEF Next

LEMMA TidyInvariant == Spec => []AllTidy
BY TidyInit, TidyStep, TypeCorrect, ControlInvariant, PTL DEF Spec

-----------------------------------------------------------------------------
(* The stages a handler reaches only with the slot's network torn down. *)
Torn == {"save", "ports", "volume", "delete"}

(* The network of a slot is that of the VM on record there, and gone before *)
(* the record lets go of the slot.                                          *)
NetOK ==
  /\ \A s \in Slots : net[s].vm # NoVm => vms[net[s].vm].slot = s
  /\ \A s \in Slots : net[s] # NoNet => \E v \in VmIds : vms[v].slot = s
  /\ \A v \in VmIds : task[v].pc \in Torn /\ vms[v].slot # NoSlot => net[vms[v].slot] = NoNet

(* What a step of v's may do to the networks. *)
NetStep(v) ==
  LET s == vms[v].slot IN
  /\ \A t \in Slots : t # s => net'[t] = net[t]
  /\ \/ /\ vms'[v].slot = s
        /\ s # NoSlot => net'[s].vm \in {NoVm, v, net[s].vm}
     \/ s = NoSlot
     \/ vms'[v].slot = NoSlot /\ net' = net /\ net[s] = NoNet
  /\ task'[v].pc \in Torn /\ vms'[v].slot # NoSlot => net'[vms'[v].slot] = NoNet

LEMMA NetFrame ==
  ASSUME TypeOK, TypeOK', Placement, NetOK, NEW v \in VmIds, Apart(v), NetStep(v)
  PROVE  NetOK'
<1>0. /\ \A w \in VmIds :
           vms[w].slot \in Slots \cup {NoSlot} /\ vms'[w].slot \in Slots \cup {NoSlot}
      /\ \A t \in Slots : net[t].vm \in VmIds \cup {NoVm} /\ net'[t].vm \in VmIds \cup {NoVm}
      /\ NoSlot \notin Slots /\ NoVm \notin VmIds
  BY SMTT(60), CapacityAssumption, SetsAssumption DEF TypeOK, Row, Net, Slots, NoSlot
<1>1. \A w \in VmIds \ {v} : vms'[w] = vms[w] /\ task'[w] = task[w]
  BY DEF Apart
<1>2. \A w \in VmIds \ {v} : vms[w].slot # NoSlot => vms[w].slot # vms[v].slot
  BY DEF Placement, Answers
<1>3. NoNet.vm = NoVm
  BY DEF NoNet
<1>4. ASSUME NEW t \in Slots, net'[t].vm # NoVm PROVE vms'[net'[t].vm].slot = t
  <2>1. CASE t = vms[v].slot
    BY SMTT(60), <1>0, <1>1, <1>3, <1>4, <2>1 DEF NetStep, NetOK
  <2>2. CASE t # vms[v].slot
    BY SMTT(60), <1>0, <1>1, <1>3, <1>4, <2>2 DEF NetStep, NetOK
  <2> QED BY <2>1, <2>2
<1>5. ASSUME NEW t \in Slots, net'[t] # NoNet PROVE \E w \in VmIds : vms'[w].slot = t
  <2>1. CASE t = vms[v].slot
    BY <1>0, <1>5, <2>1 DEF NetStep
  <2>2. CASE t # vms[v].slot
    <3>1. PICK w \in VmIds : vms[w].slot = t
      BY <1>5, <2>2 DEF NetStep, NetOK
    <3> QED BY <1>1, <2>2, <3>1
  <2> QED BY <2>1, <2>2
<1>6. ASSUME NEW w \in VmIds, task'[w].pc \in Torn, vms'[w].slot # NoSlot
      PROVE  net'[vms'[w].slot] = NoNet
  <2>1. CASE w = v
    BY <1>6, <2>1 DEF NetStep
  <2>2. CASE w # v
    BY SMTT(60), <1>0, <1>1, <1>2, <1>6, <2>2 DEF NetStep, NetOK
  <2> QED BY <2>1, <2>2
<1> QED BY <1>4, <1>5, <1>6 DEF NetOK

(* Steps that leave networks and records' slots alone, on the way down or not. *)
LEMMA NetAside ==
  ASSUME TypeOK, NetOK, NEW v \in VmIds, net' = net, vms'[v].slot = vms[v].slot,
         task'[v].pc \in Torn => task[v].pc \in Torn
  PROVE  NetStep(v)
BY DEF NetStep, NetOK

LEMMA CallNet ==
  ASSUME TypeOK, NetOK, NEW v \in VmIds, Call(v)
  PROVE  NetStep(v)
<1>0. task \in [VmIds -> Task]
  BY DEF TypeOK
<1>1. UNCHANGED <<vms, net>>
  BY DEF Call, CreateVm, StartVm, SuspendVm, StopVm, HaltVm, DestroyVm, TerminateVm,
     RetireSuspension, AddForward, RemoveForward, Request
<1>2. ASSUME NEW n \in 0 .. MaxForwards, CreateVm(v, n) PROVE task'[v].pc = "alloc"
  BY SMTT(60), <1>0, <1>2 DEF CreateVm
<1>3. ASSUME AddForward(v) PROVE task'[v].pc = "declare"
  BY SMTT(60), <1>0, <1>3 DEF AddForward, Forwarding
<1>4. ASSUME NEW p \in Ports, RemoveForward(v, p) PROVE task'[v].pc = "withdraw"
  BY <1>0, <1>4 DEF RemoveForward, Forwarding
<1>5. ASSUME \/ StartVm(v) \/ SuspendVm(v) \/ StopVm(v) \/ HaltVm(v)
             \/ DestroyVm(v) \/ TerminateVm(v) \/ RetireSuspension(v)
      PROVE  task'[v].pc \in {"resume", "place", "suspend", "stop", "vmm"}
  BY <1>5, TaskMoves DEF StartVm, SuspendVm, StopVm, HaltVm, DestroyVm, TerminateVm,
     RetireSuspension
<1>6. task'[v].pc \notin Torn
  BY <1>2, <1>3, <1>4, <1>5 DEF Call, Torn
<1> QED BY <1>1, <1>6, NetAside

LEMMA StepNet ==
  ASSUME TypeOK, Placement, NetOK, NEW v \in VmIds, Step(v), "netdown" \notin Faults
  PROVE  NetStep(v)
<1>0. /\ task \in [VmIds -> Task] /\ task[v] \in Task
      /\ vms \in [VmIds -> Row] /\ vms[v] \in Row /\ net \in [Slots -> Net]
      /\ HandlerOK(v) /\ NoSlot \notin Slots
  BY SMTT(60), CapacityAssumption DEF TypeOK, Placement, VmOK, Slots, NoSlot
<1>1. Idle.pc \notin Torn
  BY IdleFields DEF Torn
<1>2. CASE AllocatePort(v)
  <2>1. task'[v].pc \notin Torn
    <3>1. \/ Continue(v, "insert") \/ Fail(v)
          \/ \E p \in Ports : task' = [task EXCEPT ![v].ports = @ \cup {p}, ![v].want = @ - 1]
      BY <1>2 DEF AllocatePort
    <3>2. ASSUME NEW p \in Ports, task' = [task EXCEPT ![v].ports = @ \cup {p}, ![v].want = @ - 1]
          PROVE  task'[v].pc = task[v].pc
      BY <1>0, <3>2 DEF Task
    <3>3. task[v].pc = "alloc"
      BY <1>2 DEF AllocatePort, At
    <3>4. Continue(v, "insert") => task'[v].pc = "insert"
      BY TaskMoves
    <3>5. Fail(v) => task'[v] = Idle
      BY TaskMoves
    <3> QED BY <1>1, <3>1, <3>2, <3>3, <3>4, <3>5 DEF Torn
  <2> QED BY <1>2, <2>1, NetAside DEF AllocatePort
<1>3. CASE InsertForward(v) \/ UnallocatePorts(v) \/ FreePorts(v)
  <2>1. UNCHANGED <<vms, net>>
    BY <1>3 DEF InsertForward, UnallocatePorts, FreePorts
  <2>2. task'[v].pc \in Torn => task[v].pc \in Torn
    BY SMTT(60), <1>1, <1>3, TaskMoves DEF InsertForward, UnallocatePorts, FreePorts, At, Torn
  <2> QED BY <2>1, <2>2, NetAside
<1>4. CASE Provision(v) \/ CreateVmm(v) \/ StartVmm(v)
  <2>1. UNCHANGED <<vms, net>>
    BY <1>4 DEF Provision, CreateVmm, StartVmm
  <2>2. \E pc \in {"apply", "go", "saveRunning", "unport", "vmm"} : Continue(v, pc)
    BY <1>4 DEF Provision, CreateVmm, StartVmm, BringUpFailed
  <2>3. task'[v].pc \notin Torn
    BY <2>2, TaskMoves DEF Torn
  <2> QED BY <2>1, <2>3, NetAside
<1>5. CASE ApplyNetwork(v)
  <2>1. task[v].pc = "apply" /\ UNCHANGED vms /\ vms[v].slot = task[v].slot /\ vms[v].slot \in Slots
    BY <1>0, <1>5 DEF ApplyNetwork, At, HandlerOK, Row
  <2>2. \E pc \in {"boot", "unport", "vmm"} : Continue(v, pc)
    BY <1>5 DEF ApplyNetwork, BringUpFailed
  <2>3. task'[v].pc \notin Torn
    BY <2>2, TaskMoves DEF Torn
  <2>4. net' \in {net, [net EXCEPT ![task[v].slot] = [vm |-> v, ports |-> task[v].ports]]}
    BY <1>5 DEF ApplyNetwork
  <2>5. \/ net' = net
        \/ net'[vms[v].slot].vm = v /\ \A t \in Slots : t # vms[v].slot => net'[t] = net[t]
    BY SMTT(60), <1>0, <2>1, <2>4
  <2> QED BY <2>1, <2>3, <2>5 DEF NetStep
<1>6. CASE SaveRunning(v) \/ SaveSuspended(v)
  <2>1. net' = net /\ vms'[v].slot = vms[v].slot
    BY SMTT(60), <1>0, <1>6 DEF SaveRunning, SaveSuspended, Row
  <2>2. task'[v].pc \notin Torn
    BY <1>1, <1>6, TaskMoves DEF SaveRunning, SaveSuspended, Torn
  <2> QED BY <2>1, <2>2, NetAside
<1>7. CASE ResumeVmm(v) \/ Suspend(v) \/ StopVmm(v) \/ TearDownVmm(v)
  <2>1. UNCHANGED <<vms, net>>
    BY <1>7 DEF ResumeVmm, Suspend, StopVmm, TearDownVmm
  <2>2. Fail(v) \/ \E pc \in {"saveRunning", "saveSuspended", "vmm", "net"} : Continue(v, pc)
    BY <1>7 DEF ResumeVmm, Suspend, StopVmm, TearDownVmm
  <2>3. task'[v].pc \notin Torn
    BY <1>1, <2>2, TaskMoves DEF Torn
  <2> QED BY <2>1, <2>3, NetAside
<1>8. CASE RetireVmm(v)
  <2>1. task'[v].pc \notin Torn
    <3>1. ASSUME task' = [task EXCEPT ![v].job = "terminate", ![v].pc = "vmm"]
          PROVE  task'[v].pc = "vmm"
      BY <1>0, <3>1 DEF Task
    <3> QED BY <1>1, <1>8, <3>1, TaskMoves DEF RetireVmm, Torn
  <2> QED BY <1>8, <2>1, NetAside DEF RetireVmm
<1>9. CASE Place(v)
  <2>1. task'[v].pc \notin Torn
    <3>1. ASSUME NEW s \in Slots,
                 task' = [task EXCEPT ![v].pc = "saveCreating", ![v].slot = s,
                            ![v].job = IF @ = "restart" THEN "rerun" ELSE @]
          PROVE  task'[v].pc = "saveCreating"
      BY <1>0, <3>1 DEF Task
    <3> QED BY <1>1, <1>9, <3>1, TaskMoves DEF Place, Torn
  <2> QED BY <1>9, <2>1, NetAside DEF Place
<1>10. CASE InsertVm(v) \/ SaveCreating(v)
  <2>1. net' = net /\ vms[v].slot = NoSlot
    BY <1>0, <1>10 DEF InsertVm, SaveCreating, At, HandlerOK
  <2>2. task'[v].pc \notin Torn
    BY SMTT(60), <1>1, <1>10, TaskMoves DEF InsertVm, SaveCreating, Torn
  <2> QED BY <2>1, <2>2 DEF NetStep
<1>11. CASE TearDownNet(v)
  <2>1. task[v].pc = "net" /\ UNCHANGED vms /\ task[v].slot = vms[v].slot
        /\ vms[v].slot \in Slots \cup {NoSlot}
    BY <1>0, <1>11 DEF TearDownNet, At, HandlerOK, Row
  <2>2. net' = IF task[v].slot = NoSlot THEN net ELSE [net EXCEPT ![task[v].slot] = NoNet]
    BY <1>11 DEF TearDownNet, May
  <2>3. CASE vms[v].slot = NoSlot
    BY <2>1, <2>2, <2>3 DEF NetStep
  <2>4. CASE vms[v].slot \in Slots
    <3>1. net'[vms[v].slot] = NoNet /\ \A t \in Slots : t # vms[v].slot => net'[t] = net[t]
      BY <1>0, <2>1, <2>2, <2>4
    <3> QED BY SMTT(60), <2>1, <3>1 DEF NetStep, NoNet
  <2> QED BY <2>1, <2>3, <2>4
<1>12. CASE TearDownVolume(v)
  <2>1. UNCHANGED <<vms, net>> /\ task[v].pc = "volume"
    BY <1>12 DEF TearDownVolume, At
  <2> QED BY <2>1, NetAside DEF Torn
<1>13. CASE DeleteVm(v) \/ SaveStopped(v)
  <2>1. task[v].pc \in Torn /\ net' = net
    BY <1>13 DEF DeleteVm, SaveStopped, At, Torn
  <2>2. vms[v].slot # NoSlot => net[vms[v].slot] = NoNet
    BY <2>1 DEF NetOK
  <2>3. vms' = vms \/ vms'[v].slot = NoSlot
    BY SMTT(60), <1>0, <1>13 DEF DeleteVm, SaveStopped, Row, NoRow
  <2> QED BY <2>1, <2>2, <2>3 DEF NetStep
<1>14. CASE FreeSlot(v)
  <2>1. UNCHANGED <<vms, net>> /\ LetGo(v)
    BY <1>14 DEF FreeSlot
  <2>2. task'[v].pc \notin Torn
    <3>1. ASSUME task' = [task EXCEPT ![v].pc = "place", ![v].slot = NoSlot]
          PROVE  task'[v].pc = "place"
      BY <1>0, <3>1 DEF Task
    <3> QED BY <1>1, <2>1, <3>1, TaskMoves DEF LetGo, Torn
  <2> QED BY <2>1, <2>2, NetAside
<1>15. CASE DeclareForward(v)
  <2>1. UNCHANGED <<vms, net>>
    BY <1>15 DEF DeclareForward
  <2>2. task'[v].pc \notin Torn
    BY SMTT(60), <1>1, <1>15, TaskMoves DEF DeclareForward, Torn
  <2> QED BY <2>1, <2>2, NetAside
<1>16. CASE SteerForward(v) \/ WithdrawForward(v)
  <2>1. UNCHANGED vms /\ net' \in {net, Steered(v)}
    BY <1>16 DEF SteerForward, WithdrawForward, SteerFails
  <2>2. task'[v].pc \notin Torn
    BY <1>1, <1>16, TaskMoves DEF SteerForward, WithdrawForward, Torn
  <2>3. CASE net' = net
    BY <2>1, <2>2, <2>3, NetAside
  <2>4. CASE net' = Steered(v) /\ vms[v].slot # NoSlot
    <3>1. vms[v].slot \in Slots
      BY <1>0, <2>4 DEF Row
    <3>2. /\ net'[vms[v].slot].vm = net[vms[v].slot].vm
          /\ \A t \in Slots : t # vms[v].slot => net'[t] = net[t]
      BY <1>0, <2>4, <3>1 DEF Steered, Net
    <3> QED BY <2>1, <2>2, <3>2 DEF NetStep
  <2> QED BY <2>1, <2>3, <2>4 DEF Steered
<1> QED BY <1>2, <1>3, <1>4, <1>5, <1>6, <1>7, <1>8, <1>9, <1>10, <1>11, <1>12, <1>13, <1>14,
       <1>15, <1>16 DEF Step

LEMMA BesideNet ==
  ASSUME TypeOK, NetOK, NEW v \in VmIds,
         \/ VmmExit(v) \/ GuestWrites(v) \/ Cancel(v)
         \/ Probe(v) \/ Reap(v) \/ RecoverVm(v)
  PROVE  NetStep(v)
<1>0. task \in [VmIds -> Task]
  BY DEF TypeOK
<1>1. UNCHANGED <<vms, net>>
  BY DEF VmmExit, GuestWrites, Cancel, Probe, Reap, RecoverVm
<1>2. CASE UNCHANGED task
  BY <1>1, <1>2, NetAside
<1>3. CASE VmmExit(v) \/ GuestWrites(v) \/ Probe(v)
  BY <1>2, <1>3 DEF VmmExit, GuestWrites, Probe
<1>4. CASE Cancel(v)
  <2>1. task'[v].pc \notin Torn
    BY <1>0, <1>4, IdleFields DEF Cancel, Torn
  <2> QED BY <1>1, <2>1, NetAside
<1>5. ASSUME HandleExit(v) \/ Abandon(v) PROVE NetStep(v)
  <2>1. \/ Begin(v, "restart", "net", TRUE)
        \/ Begin(v, "exit", "vmm", v \in Durable)
        \/ Begin(v, "abandon", "vmm", v \in Durable /\ vms[v].dev)
    BY <1>5 DEF HandleExit, Abandon
  <2>2. \A job, pc, keep : Begin(v, job, pc, keep) => task'[v].pc = pc
    BY SMTT(60), TaskMoves
  <2>3. task'[v].pc \in {"net", "vmm"}
    BY <2>1, <2>2
  <2> QED BY <1>1, <2>3, NetAside DEF Torn
<1>6. CASE Reap(v)
  BY <1>2, <1>5, <1>6 DEF Reap
<1>7. CASE RecoverVm(v)
  BY <1>2, <1>5, <1>7 DEF RecoverVm
<1> QED BY <1>3, <1>4, <1>6, <1>7

LEMMA DaemonNet ==
  ASSUME TypeOK, NetOK, Crash \/ GiveUp \/ Boot \/ Serve
  PROVE  NetOK'
<1>1. UNCHANGED vms
  BY DEF Crash, GiveUp, Boot, Serve, Forget
<1>2. \A v \in VmIds : task'[v] = Idle \/ task'[v] = task[v]
  BY DEF Crash, GiveUp, Boot, Serve, Forget
<1>3. \A v \in VmIds : task'[v].pc \in Torn => task'[v].pc = task[v].pc
  BY <1>2, IdleFields DEF Torn
<1>4. CASE net' = net
  BY <1>1, <1>3, <1>4 DEF NetOK
<1>5. CASE net' = [s \in Slots |-> NoNet]
  <2>1. \A s \in Slots : net'[s] = NoNet /\ NoNet.vm = NoVm
    BY <1>5 DEF NoNet
  <2>2. \A v \in VmIds : vms[v].slot \in Slots \cup {NoSlot}
    BY DEF TypeOK, Row
  <2> QED BY <1>1, <2>1, <2>2 DEF NetOK
<1> QED BY <1>4, <1>5 DEF Crash, GiveUp, Boot, Serve

LEMMA NetInvariant ==
  ASSUME "netdown" \notin Faults
  PROVE  Spec => []NetOK
<1>1. Init => NetOK
  <2> SUFFICES ASSUME Init PROVE NetOK
    OBVIOUS
  <2>1. /\ \A s \in Slots : net[s] = NoNet /\ NoNet.vm = NoVm
        /\ \A v \in VmIds : task[v].pc = "idle"
    BY IdleFields DEF Init, NoNet
  <2> QED BY <2>1 DEF NetOK, Torn
<1>2. TypeOK /\ TypeOK' /\ Placement /\ NetOK /\ [Next]_vars => NetOK'
  <2> SUFFICES ASSUME TypeOK, TypeOK', Placement, NetOK, [Next]_vars PROVE NetOK'
    OBVIOUS
  <2>1. ASSUME NEW v \in VmIds,
               \/ Call(v) \/ Step(v) \/ VmmExit(v) \/ GuestWrites(v) \/ Cancel(v)
               \/ Probe(v) \/ Reap(v) \/ RecoverVm(v)
        PROVE  NetOK'
    <3>1. NetStep(v)
      BY <2>1, CallNet, StepNet, BesideNet
    <3> QED BY <2>1, <3>1, StepApart, NetFrame
  <2>2. CASE Crash \/ GiveUp \/ Boot \/ Serve
    BY <2>2, DaemonNet
  <2>3. CASE UNCHANGED vars
    BY <2>3 DEF vars, NetOK
  <2> QED BY <2>1, <2>2, <2>3 DEF Next
<1> QED BY <1>1, <1>2, TypeCorrect, PlacementInvariant, PTL DEF Spec

(* While networks and volumes are torn down when asked, nothing is on the host *)
(* off the record, for any number of VMs, slots and ports and through every    *)
(* other fault, crash and dropped request: the write-ahead record of create_vm *)
(* comes before anything is set up, and tear_down's order leaves the record    *)
(* for last.                                                                   *)
THEOREM OnRecordHolds ==
  ASSUME "netdown" \notin Faults, "voldown" \notin Faults
  PROVE  Spec => []OnRecord
<1>1. Placement /\ Controlled /\ AllTidy /\ NetOK => OnRecord
  <2> SUFFICES ASSUME Placement, Controlled, AllTidy, NetOK PROVE OnRecord
    OBVIOUS
  <2>1. NetOfHolder
    BY DEF NetOK, NetOfHolder
  <2>2. ASSUME NEW v \in VmIds, vms[v].state = "none"
        PROVE  /\ Exited(v) /\ v \notin vol /\ snapFile[v] = "none"
               /\ \A s \in Slots : net[s].vm # v
               /\ HostPorts(v) = {}
    <3>1. vms[v].slot = NoSlot /\ Exited(v)
      BY <2>2 DEF Placement, VmOK, Exited
    <3>2. v \notin vol /\ snapFile[v] = "none"
      BY <2>2 DEF AllTidy, Tidy, Files
    <3>3. HostPorts(v) = {}
      BY <2>2 DEF Controlled, Control
    <3>4. \A s \in Slots : net[s].vm # v
      BY SMTT(60), <3>1, CapacityAssumption, SetsAssumption DEF NetOK, Slots, NoSlot
    <3> QED BY <3>1, <3>2, <3>3, <3>4
  <2> QED BY <2>1, <2>2 DEF OnRecord, RecordCovers
<1> QED BY <1>1, PlacementInvariant, ControlInvariant, TidyInvariant, NetInvariant, PTL

-----------------------------------------------------------------------------
(* Every slot the allocator holds is answered for by some VM. *)
SlotOK == phase # "down" => \A s \in used : \E v \in VmIds : s \in Answers(v)

(* What a step of v's may do to the slots taken: drop or add v's own. *)
SlotStep(v) == used' \subseteq (used \ Answers(v)) \cup Answers(v)'

(* Only a daemon that is not down has handlers at work. *)
LEMMA AtWork ==
  ASSUME Placement, NEW v \in VmIds,
         Call(v) \/ Step(v) \/ Cancel(v) \/ Probe(v) \/ Reap(v) \/ RecoverVm(v)
  PROVE  phase # "down"
<1>1. CASE Call(v) \/ Probe(v) \/ Reap(v) \/ RecoverVm(v)
  BY <1>1 DEF Call, CreateVm, StartVm, SuspendVm, StopVm, HaltVm, DestroyVm, TerminateVm,
     RetireSuspension, AddForward, RemoveForward, Request, Probe, Reap, RecoverVm
<1>2. CASE Step(v)
  <2>1. task[v].pc # "idle"
    BY <1>2 DEF Step, At, AllocatePort, InsertVm, InsertForward, Provision, ApplyNetwork,
       CreateVmm, StartVmm, SaveRunning, ResumeVmm, Place, SaveCreating, Suspend,
       SaveSuspended, StopVmm, RetireVmm, UnallocatePorts, TearDownVmm, TearDownNet,
       FreePorts, TearDownVolume, DeleteVm, SaveStopped, FreeSlot, DeclareForward,
       SteerForward, WithdrawForward
  <2> QED BY <2>1, Working
<1>3. CASE Cancel(v)
  <2>1. task[v].pc # "idle"
    BY <1>3 DEF Cancel, NotAwaiting
  <2> QED BY <2>1, Working
<1> QED BY <1>1, <1>2, <1>3

LEMMA SlotFrame ==
  ASSUME SlotOK, NEW v \in VmIds, Apart(v), SlotStep(v), phase # "down"
  PROVE  SlotOK'
<1> SUFFICES ASSUME NEW s \in used' PROVE \E w \in VmIds : s \in Answers(w)'
  BY DEF SlotOK
<1>1. CASE s \in Answers(v)'
  BY <1>1
<1>2. CASE s \in used /\ s \notin Answers(v)
  <2>1. PICK w \in VmIds : s \in Answers(w)
    BY <1>2 DEF SlotOK
  <2>2. w # v /\ Answers(w)' = Answers(w)
    BY <1>2, <2>1 DEF Apart, Answers
  <2> QED BY <2>1, <2>2
<1> QED BY <1>1, <1>2 DEF SlotStep

LEMMA SlotsAside ==
  ASSUME NEW v \in VmIds, used' = used, Answers(v) \subseteq Answers(v)'
  PROVE  SlotStep(v)
BY DEF SlotStep

(* A handler that goes on or returns with the record's slot as it was. *)
LEMMA SlotsKeptOn ==
  ASSUME TypeOK, NEW v \in VmIds, used' = used, vms'[v].slot = vms[v].slot,
         \/ task'[v].slot = task[v].slot
         \/ task[v].slot \in {vms[v].slot, NoSlot}
  PROVE  SlotStep(v)
BY SlotsAside DEF Answers

LEMMA CallSlots ==
  ASSUME TypeOK, Placement, NEW v \in VmIds, Call(v)
  PROVE  SlotStep(v)
<1>0. task \in [VmIds -> Task] /\ HandlerOK(v)
  BY DEF TypeOK, Placement, VmOK
<1>1. task[v].slot = NoSlot /\ UNCHANGED vms
  <2>1. task[v].pc = "idle"
    BY DEF Call, CreateVm, StartVm, SuspendVm, StopVm, HaltVm, DestroyVm, TerminateVm,
       RetireSuspension, AddForward, RemoveForward, Request, At
  <2> QED BY <1>0, <2>1, IdleFields DEF HandlerOK, Call, CreateVm, StartVm, SuspendVm, StopVm,
       HaltVm, DestroyVm, TerminateVm, RetireSuspension, AddForward, RemoveForward, Request
<1>2. ASSUME NEW n \in 0 .. MaxForwards, CreateVm(v, n) PROVE SlotStep(v)
  <2>1. PICK s \in Slots : used' = used \cup {s} /\ task'[v].slot = s
    BY SMTT(60), <1>0, <1>2 DEF CreateVm, TakeSlot
  <2>2. NoSlot \notin Slots
    BY SMTT(60), CapacityAssumption DEF Slots, NoSlot
  <2> QED BY <1>1, <2>1, <2>2 DEF SlotStep, Answers
<1>3. CASE used' = used
  BY <1>1, <1>3, SlotsKeptOn
<1> QED BY <1>2, <1>3 DEF Call, StartVm, SuspendVm, StopVm, HaltVm, DestroyVm, TerminateVm,
       RetireSuspension, AddForward, RemoveForward, Request

LEMMA StepSlots ==
  ASSUME TypeOK, Placement, NEW v \in VmIds, Step(v), "store" \notin Faults
  PROVE  SlotStep(v)
<1>0. /\ task \in [VmIds -> Task] /\ task[v] \in Task
      /\ vms \in [VmIds -> Row] /\ vms[v] \in Row
      /\ HandlerOK(v) /\ NoSlot \notin Slots
  BY SMTT(60), CapacityAssumption DEF TypeOK, Placement, VmOK, Slots, NoSlot
<1>1. CASE AllocatePort(v)
  <2>1. vms' = vms /\ vms[v].slot = NoSlot
    BY <1>0, <1>1 DEF AllocatePort, At, HandlerOK
  <2>2. CASE used' = used /\ task'[v].slot = task[v].slot
    BY <2>1, <2>2, SlotsKeptOn
  <2>3. CASE used' = used \ {task[v].slot}
    BY <2>1, <2>3 DEF SlotStep, Answers
  <2>4. ASSUME NEW p \in Ports, task' = [task EXCEPT ![v].ports = @ \cup {p}, ![v].want = @ - 1]
        PROVE  task'[v].slot = task[v].slot
    BY <1>0, <2>4 DEF Task
  <2>5. Continue(v, "insert") => task'[v].slot = task[v].slot
    BY TaskMoves
  <2> QED BY <1>1, <2>2, <2>3, <2>4, <2>5 DEF AllocatePort
<1>2. CASE \/ InsertForward(v) \/ Provision(v) \/ ApplyNetwork(v) \/ CreateVmm(v) \/ StartVmm(v)
           \/ ResumeVmm(v) \/ Suspend(v) \/ StopVmm(v)
           \/ UnallocatePorts(v) \/ TearDownVmm(v) \/ TearDownNet(v) \/ FreePorts(v)
           \/ TearDownVolume(v) \/ SteerForward(v) \/ WithdrawForward(v) \/ DeclareForward(v)
  <2>1. UNCHANGED <<vms, used>>
    BY <1>2 DEF InsertForward, Provision, ApplyNetwork, CreateVmm, StartVmm, ResumeVmm, Suspend,
       StopVmm, UnallocatePorts, TearDownVmm, TearDownNet, FreePorts, TearDownVolume,
       SteerForward, WithdrawForward, DeclareForward
  <2>2. (\E pc : Continue(v, pc)) \/ Fail(v) \/ Finish(v) \/ task' = task
    BY <1>2 DEF InsertForward, Provision, ApplyNetwork, CreateVmm, StartVmm, ResumeVmm, Suspend,
       StopVmm, UnallocatePorts, TearDownVmm, TearDownNet, FreePorts, TearDownVolume,
       SteerForward, WithdrawForward, DeclareForward, BringUpFailed
  <2>3. CASE Fail(v) \/ Finish(v)
    <3>1. task[v].pc \in {"rows", "unport", "provision", "apply", "boot", "go", "resume", "suspend",
            "stop", "vmm", "net", "ports", "volume", "declare", "steer", "withdraw"}
      BY <1>2 DEF InsertForward, Provision, ApplyNetwork, CreateVmm, StartVmm, ResumeVmm, Suspend,
         StopVmm, UnallocatePorts, TearDownVmm, TearDownNet, FreePorts, TearDownVolume,
         SteerForward, WithdrawForward, DeclareForward, At
    <3>2. task[v].slot \in {vms[v].slot, NoSlot}
      BY <1>0, <3>1 DEF HandlerOK
    <3> QED BY <2>1, <3>2, SlotsKeptOn
  <2>4. CASE task' = task \/ \E pc : Continue(v, pc)
    <3>1. task'[v].slot = task[v].slot
      BY <2>4, TaskMoves
    <3> QED BY <2>1, <3>1, SlotsKeptOn
  <2> QED BY <2>2, <2>3, <2>4
<1>3. CASE InsertVm(v) \/ SaveCreating(v)
  <2>1. vms[v].slot = NoSlot /\ vms'[v].slot = task[v].slot /\ used' = used
    BY SMTT(60), <1>0, <1>3 DEF InsertVm, SaveCreating, At, HandlerOK, May, Row
  <2> QED BY <2>1, SlotsAside DEF Answers
<1>4. CASE SaveRunning(v) \/ SaveSuspended(v)
  <2>1. used' = used /\ vms'[v].slot = vms[v].slot /\ task[v].slot = vms[v].slot
    BY SMTT(60), <1>0, <1>4 DEF SaveRunning, SaveSuspended, At, HandlerOK, Row
  <2> QED BY <2>1, SlotsKeptOn
<1>5. CASE RetireVmm(v)
  <2>1. used' = used /\ vms' = vms /\ task[v].slot = vms[v].slot
    BY <1>0, <1>5 DEF RetireVmm, At, HandlerOK
  <2> QED BY <2>1, SlotsKeptOn
<1>6. CASE Place(v)
  <2>1. vms' = vms /\ vms[v].slot = NoSlot /\ task[v].slot = NoSlot
    BY <1>0, <1>6 DEF Place, At, HandlerOK
  <2>2. CASE used' = used
    BY <2>1, <2>2, SlotsKeptOn
  <2>3. ASSUME NEW s \in Slots, used' = used \cup {s},
               task' = [task EXCEPT ![v].pc = "saveCreating", ![v].slot = s,
                          ![v].job = IF @ = "restart" THEN "rerun" ELSE @]
        PROVE  SlotStep(v)
    <3>1. task'[v].slot = s
      BY <1>0, <2>3 DEF Task
    <3> QED BY <1>0, <2>1, <2>3, <3>1 DEF SlotStep, Answers
  <2> QED BY <1>6, <2>2, <2>3 DEF Place, TakeSlot
<1>7. CASE DeleteVm(v) \/ SaveStopped(v)
  <2>1. task[v].slot = vms[v].slot /\ used' = used
    BY <1>0, <1>7 DEF DeleteVm, SaveStopped, At, HandlerOK
  <2>2. AfterSave(v)
    BY <1>7 DEF DeleteVm, SaveStopped, May
  <2>3. CASE task[v].slot = NoSlot
    BY <2>1, <2>3, SlotsAside DEF Answers
  <2>4. CASE Continue(v, "free")
    <3>1. task'[v].slot = task[v].slot
      BY <2>4, TaskMoves
    <3> QED BY <2>1, <3>1, SlotsAside DEF Answers
  <2> QED BY <2>2, <2>3, <2>4 DEF AfterSave
<1>8. CASE FreeSlot(v)
  <2>1. vms' = vms /\ vms[v].slot = NoSlot /\ used' = used \ {task[v].slot}
    BY <1>0, <1>8 DEF FreeSlot, At, HandlerOK
  <2> QED BY <2>1 DEF SlotStep, Answers
<1> QED BY <1>1, <1>2, <1>3, <1>4, <1>5, <1>6, <1>7, <1>8 DEF Step

LEMMA BesideSlots ==
  ASSUME TypeOK, Placement, NEW v \in VmIds,
         \/ VmmExit(v) \/ GuestWrites(v) \/ Cancel(v)
         \/ Probe(v) \/ Reap(v) \/ RecoverVm(v)
  PROVE  SlotStep(v)
<1>0. HandlerOK(v) /\ (task[v].pc = "idle" => task[v].slot = NoSlot) /\ task[v] \in Task
  BY IdleFields DEF Placement, VmOK, HandlerOK, TypeOK
<1>1. UNCHANGED <<vms, used>>
  BY DEF VmmExit, GuestWrites, Cancel, Probe, Reap, RecoverVm
<1>2. CASE UNCHANGED task
  BY <1>1, <1>2, SlotsKeptOn
<1>3. CASE Cancel(v)
  <2>1. task[v].pc \in Pcs \ NotAwaiting
    BY <1>0, <1>3 DEF Cancel, Task
  <2>2. task[v].slot \in {vms[v].slot, NoSlot}
    BY <1>0, <2>1 DEF HandlerOK, Pcs, BringUpPcs, NotAwaiting
  <2> QED BY <1>1, <2>2, SlotsKeptOn
<1>4. CASE Reap(v) \/ RecoverVm(v)
  <2>1. task[v].pc = "idle"
    BY <1>4 DEF Reap, RecoverVm, At
  <2> QED BY <1>0, <1>1, <2>1, SlotsKeptOn
<1> QED BY <1>2, <1>3, <1>4 DEF VmmExit, GuestWrites, Probe

LEMMA SlotInvariant ==
  ASSUME "store" \notin Faults
  PROVE  Spec => []SlotOK
<1>1. Init => SlotOK
  BY DEF Init, SlotOK
<1>2. TypeOK /\ Placement /\ SlotOK /\ [Next]_vars => SlotOK'
  <2> SUFFICES ASSUME TypeOK, Placement, SlotOK, [Next]_vars PROVE SlotOK'
    OBVIOUS
  <2>1. ASSUME NEW v \in VmIds,
               \/ Call(v) \/ Step(v) \/ VmmExit(v) \/ GuestWrites(v) \/ Cancel(v)
               \/ Probe(v) \/ Reap(v) \/ RecoverVm(v)
        PROVE  SlotOK'
    <3>1. SlotStep(v) /\ Apart(v)
      BY <2>1, CallSlots, StepSlots, BesideSlots, StepApart
    <3>2. CASE phase # "down"
      BY <3>1, <3>2, SlotFrame
    <3>3. CASE phase = "down"
      <4>1. phase' = phase
        BY <2>1, <3>3, AtWork DEF VmmExit, GuestWrites
      <4> QED BY <3>3, <4>1 DEF SlotOK
    <3> QED BY <3>2, <3>3
  <2>2. CASE Crash \/ GiveUp
    BY <2>2 DEF Crash, GiveUp, Forget, SlotOK
  <2>3. CASE Boot
    <3>1. used' = Claimed /\ vms' = vms
      BY <2>3 DEF Boot
    <3>2. \A s \in Claimed : \E v \in VmIds : s \in Answers(v)'
      BY <3>1 DEF Claimed, Answers
    <3> QED BY <3>1, <3>2 DEF SlotOK
  <2>4. CASE Serve \/ UNCHANGED vars
    BY <2>4 DEF Serve, vars, SlotOK, Answers
  <2> QED BY <2>1, <2>2, <2>3, <2>4 DEF Next
<1> QED BY <1>1, <1>2, TypeCorrect, PlacementInvariant, PTL DEF Spec

(* While the store does not fail, no slot is lost to the allocator: with no *)
(* operation in progress it holds exactly the slots on record, whatever     *)
(* else fails, crashes or is dropped (free_slot on every path).             *)
THEOREM NoSlotLeakHolds ==
  ASSUME "store" \notin Faults
  PROVE  Spec => []NoSlotLeak
<1>1. Placement /\ SlotOK => NoSlotLeak
  <2> SUFFICES ASSUME Placement, SlotOK, Quiet PROVE used = Claimed
    BY DEF NoSlotLeak
  <2>1. phase # "down" /\ \A v \in VmIds : task[v].slot = NoSlot
    BY IdleFields DEF Quiet, At, Placement, VmOK, HandlerOK
  <2>2. \A v \in VmIds : Answers(v) = {vms[v].slot} \ {NoSlot}
    BY <2>1 DEF Answers
  <2>3. used \subseteq Claimed
    BY SMTT(60), <2>1, <2>2 DEF SlotOK, Claimed
  <2>4. Claimed \subseteq used
    BY <2>1, <2>2 DEF Placement, Claimed
  <2> QED BY <2>3, <2>4
<1> QED BY <1>1, PlacementInvariant, SlotInvariant, PTL

=============================================================================
