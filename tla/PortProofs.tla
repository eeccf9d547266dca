----------------------------- MODULE PortProofs -----------------------------
(***************************************************************************)
(* No host port is lost, and a port leads to one VM at most, the one on    *)
(* record for it, for any number of VMs, slots and ports: what the port    *)
(* allocator holds is answered for by a record or by a handler at work, and *)
(* what a slot's network steers is on its VM's rows, or is what a handler  *)
(* is just now withdrawing.                                                *)
(***************************************************************************)
EXTENDS PlacementProofs

(* A leaf is for Zenon unless it cites SMT. *)
USE ZenonT(60) DEF db, slotVars, portVars, host, daemon

(* The ports a handler has taken, or not yet given back, beside the rows. *)
Pending(v) ==
  IF task[v].pc \in {"alloc", "insert", "rows", "unport", "declare", "withdraw"}
  THEN task[v].ports ELSE {}

(* A VM on its way out has given its ports back before its rows go. *)
Released(v) ==
  \/ task[v].pc \in {"volume", "delete"}
  \/ task[v].job = "create" /\ task[v].pc \in {"vmm", "net"}

Held(v) == IF Released(v) THEN {} ELSE HostPorts(v) \cup Pending(v)

(* A forward being declared is for one port, not yet on record. *)
Declares(v) ==
  task[v].pc = "declare" => \E p \in Ports : task[v].ports = {p} /\ p \notin HostPorts(v)

(* The port allocator holds what the VMs hold, and no two hold one port. *)
PortOK ==
  /\ phase # "down" =>
       /\ \A p \in Ports : p \in portUsed <=> \E v \in VmIds : p \in Held(v)
       /\ \A v, w \in VmIds : v # w => Held(v) \cap Held(w) = {}
  /\ \A v \in VmIds : Declares(v)

(* What a step of v's may do to the ports taken: drop its own, add free ones. *)
PortStep(v) ==
  /\ portUsed' = (portUsed \ Held(v)) \cup Held(v)'
  /\ Held(v)' \cap portUsed \subseteq Held(v)
  /\ Declares(v)'

LEMMA HeldApart ==
  ASSUME NEW v \in VmIds, Apart(v), NEW w \in VmIds, w # v
  PROVE  Held(w)' = Held(w) /\ (Declares(w) => Declares(w)')
BY DEF Apart, Held, Released, Pending, Declares

LEMMA HeldPorts ==
  ASSUME TypeOK, NEW v \in VmIds
  PROVE  Held(v) \subseteq Ports
BY DEF TypeOK, Task, Held, Pending, HostPorts

LEMMA PortFrame ==
  ASSUME TypeOK, TypeOK', PortOK, NEW v \in VmIds, Apart(v), PortStep(v), phase # "down"
  PROVE  PortOK'
<1>1. \A p \in Ports : p \in portUsed <=> \E w \in VmIds : p \in Held(w)
  BY DEF PortOK
<1>2. \A w, x \in VmIds : w # x => Held(w) \cap Held(x) = {}
  BY DEF PortOK
<1>3. \A w \in VmIds \ {v} : Held(w)' = Held(w) /\ (Declares(w) => Declares(w)')
  BY HeldApart
<1>4. \A w \in VmIds \ {v} : Held(w) \subseteq portUsed
  BY <1>1, HeldPorts
<1>5. ASSUME NEW p \in Ports PROVE p \in portUsed' <=> \E w \in VmIds : p \in Held(w)'
  <2>1. ASSUME p \in portUsed' PROVE \E w \in VmIds : p \in Held(w)'
    <3>1. CASE p \in Held(v)'
      BY <3>1
    <3>2. CASE p \in portUsed /\ p \notin Held(v)
      <4>1. PICK w \in VmIds : p \in Held(w)
        BY <1>1, <3>2
      <4> QED BY <1>3, <3>2, <4>1
    <3> QED BY <2>1, <3>1, <3>2 DEF PortStep
  <2>2. ASSUME NEW w \in VmIds, p \in Held(w)' PROVE p \in portUsed'
    <3>1. CASE w = v
      BY <2>2, <3>1 DEF PortStep
    <3>2. CASE w # v
      <4>1. p \in Held(w) /\ p \in portUsed /\ p \notin Held(v)
        BY <1>2, <1>3, <1>4, <2>2, <3>2
      <4> QED BY <4>1 DEF PortStep
    <3> QED BY <3>1, <3>2
  <2> QED BY <2>1, <2>2
<1>6. \A w \in VmIds \ {v} : Held(w)' \cap Held(v)' = {}
  BY <1>2, <1>3, <1>4 DEF PortStep
<1>7. \A w, x \in VmIds : w # x => Held(w)' \cap Held(x)' = {}
  BY SMTT(60), <1>2, <1>3, <1>6
<1>8. \A w \in VmIds : Declares(w)'
  BY <1>3 DEF PortOK, PortStep
<1> QED BY <1>5, <1>7, <1>8 DEF PortOK

(* Steps that neither take nor give back a port. *)
LEMMA PortsAside ==
  ASSUME TypeOK, PortOK, phase # "down", NEW v \in VmIds,
         portUsed' = portUsed, Held(v)' = Held(v), task'[v].pc # "declare"
  PROVE  PortStep(v)
<1>1. Held(v) \subseteq portUsed
  BY HeldPorts DEF PortOK
<1> QED BY <1>1 DEF PortStep, Declares

(* A handler between stages at which the rows alone are what is held. *)
OnRows(v) == Held(v) = HostPorts(v)

LEMMA RowsHeld ==
  ASSUME NEW v \in VmIds,
         task[v].pc \notin {"alloc", "insert", "rows", "unport", "declare", "withdraw",
                            "volume", "delete"},
         task[v].job # "create" \/ task[v].pc \notin {"vmm", "net"}
  PROVE  OnRows(v)
BY DEF OnRows, Held, Pending, Released

LEMMA IdleHeld ==
  ASSUME NEW v \in VmIds, task[v] = Idle
  PROVE  OnRows(v)
BY IdleFields, RowsHeld

LEMMA CallPorts ==
  ASSUME TypeOK, Placement, Controlled, AllTidy, PortOK, NEW v \in VmIds, Call(v)
  PROVE  PortStep(v)
<1>0. /\ task \in [VmIds -> Task] /\ HandlerOK(v) /\ Control(v)
      /\ phase # "down" /\ Held(v) \subseteq portUsed
  BY AtWork, HeldPorts DEF TypeOK, Placement, VmOK, Controlled, PortOK
<1>1. task[v].pc = "idle" /\ OnRows(v)
  <2>1. task[v].pc = "idle"
    BY DEF Call, CreateVm, StartVm, SuspendVm, StopVm, HaltVm, DestroyVm, TerminateVm,
       RetireSuspension, AddForward, RemoveForward, Request, At
  <2> QED BY <1>0, <2>1, IdleHeld DEF HandlerOK
<1>2. ASSUME NEW n \in 0 .. MaxForwards, CreateVm(v, n) PROVE PortStep(v)
  <2>1. /\ task'[v].pc = "alloc" /\ task'[v].ports = {} /\ task'[v].job = "create"
        /\ UNCHANGED <<forwards, portUsed>>
    BY SMTT(60), <1>0, <1>2 DEF CreateVm
  <2>2. Held(v)' = Held(v)
    BY <1>1, <2>1, PortsKept DEF OnRows, Held, Pending, Released
  <2> QED BY <1>0, <2>1, <2>2, PortsAside
<1>3. ASSUME AddForward(v) PROVE PortStep(v)
  <2>1. PICK p \in Ports : /\ p \notin portUsed /\ portUsed' = portUsed \cup {p}
                           /\ task' = [task EXCEPT ![v] = Forwarding(p, "declare")]
                           /\ forwards' = forwards
    BY <1>3 DEF AddForward, IsNext
  <2>2. task'[v].pc = "declare" /\ task'[v].ports = {p} /\ task'[v].job = "forward"
    BY <1>0, <2>1 DEF Forwarding
  <2>3. Held(v)' = Held(v) \cup {p}
    BY <1>1, <2>1, <2>2, PortsKept DEF OnRows, Held, Pending, Released
  <2>4. p \notin HostPorts(v)'
    BY <1>0, <1>1, <2>1, PortsKept DEF OnRows
  <2>5. Declares(v)'
    BY <2>2, <2>4 DEF Declares
  <2> QED BY <1>0, <2>1, <2>3, <2>5 DEF PortStep
<1>4. ASSUME NEW p \in Ports, RemoveForward(v, p) PROVE PortStep(v)
  <2>1. /\ <<v, p>> \in forwards /\ forwards' = forwards \ {<<v, p>>} /\ portUsed' = portUsed
        /\ task' = [task EXCEPT ![v] = Forwarding(p, "withdraw")]
    BY <1>4 DEF RemoveForward
  <2>2. task'[v].pc = "withdraw" /\ task'[v].ports = {p} /\ task'[v].job = "forward"
    BY <1>0, <2>1 DEF Forwarding
  <2>3. p \in HostPorts(v) /\ HostPorts(v)' = HostPorts(v) \ {p}
    BY <2>1 DEF HostPorts
  <2>4. Held(v)' = Held(v)
    BY <1>1, <2>2, <2>3 DEF OnRows, Held, Pending, Released
  <2> QED BY <1>0, <2>1, <2>2, <2>4, PortsAside
<1>5. ASSUME NEW job \in Jobs \ {"create"},
             NEW pc \in {"resume", "place", "suspend", "stop", "vmm"},
             NEW keep, Begin(v, job, pc, keep), UNCHANGED <<forwards, portUsed>>
      PROVE  PortStep(v)
  <2>1. task'[v].pc = pc /\ task'[v].job = job
    BY SMTT(60), <1>5, TaskMoves
  <2>2. Held(v)' = HostPorts(v)'
    BY <1>5, <2>1 DEF Held, Pending, Released
  <2>3. Held(v)' = Held(v)
    BY <1>1, <1>5, <2>2, PortsKept DEF OnRows
  <2> QED BY <1>0, <1>5, <2>1, <2>3, PortsAside
<1>6. ASSUME NEW call, Request(v, call) PROVE UNCHANGED <<forwards, portUsed>>
  BY <1>6 DEF Request
<1>7. CASE StartVm(v) \/ SuspendVm(v) \/ StopVm(v) \/ HaltVm(v)
  BY <1>5, <1>6, <1>7 DEF StartVm, SuspendVm, StopVm, HaltVm, Jobs, ApiJobs
<1>8. CASE DestroyVm(v) \/ TerminateVm(v) \/ RetireSuspension(v)
  BY <1>5, <1>6, <1>8 DEF DestroyVm, TerminateVm, RetireSuspension, Jobs, ApiJobs
<1> QED BY <1>2, <1>3, <1>4, <1>7, <1>8 DEF Call

LEMMA BringUpPorts ==
  ASSUME TypeOK, Placement, Controlled, AllTidy, PortOK, NEW v \in VmIds, "store" \notin Faults,
         \/ AllocatePort(v) \/ InsertVm(v) \/ InsertForward(v)
         \/ Provision(v) \/ ApplyNetwork(v) \/ CreateVmm(v) \/ StartVmm(v) \/ SaveRunning(v)
  PROVE  PortStep(v)
<1>0. /\ task \in [VmIds -> Task] /\ task[v] \in Task
      /\ Control(v) /\ Ported(v)
      /\ phase # "down" /\ Held(v) \subseteq portUsed
  BY AtWork, HeldPorts DEF TypeOK, Placement, VmOK, Controlled, AllTidy, Tidy, PortOK, Step
<1>1. CASE AllocatePort(v)
  <2>1. /\ task[v].pc = "alloc" /\ forwards' = forwards /\ HostPorts(v) = {}
        /\ HostPorts(v)' = {}
    BY <1>0, <1>1, PortsKept DEF AllocatePort, At, Control
  <2>2. Held(v) = task[v].ports
    BY <2>1 DEF Held, Pending, Released
  <2>3. ASSUME Continue(v, "insert"), portUsed' = portUsed PROVE PortStep(v)
    <3>1. task'[v].pc = "insert" /\ task'[v].ports = task[v].ports
      BY <2>3, TaskMoves
    <3>2. Held(v)' = task[v].ports
      BY <2>1, <3>1 DEF Held, Pending, Released
    <3> QED BY <1>0, <2>2, <2>3, <3>1, <3>2, PortsAside
  <2>4. ASSUME NEW p \in Ports, p \notin portUsed, portUsed' = portUsed \cup {p},
               task' = [task EXCEPT ![v].ports = @ \cup {p}, ![v].want = @ - 1]
        PROVE  PortStep(v)
    <3>1. /\ task'[v].pc = task[v].pc /\ task'[v].ports = task[v].ports \cup {p}
          /\ task'[v].job = task[v].job
      BY <1>0, <2>4 DEF Task
    <3>2. Held(v)' = Held(v) \cup {p}
      BY <2>1, <2>2, <3>1 DEF Held, Pending, Released
    <3>3. Declares(v)'
      BY <2>1, <3>1 DEF Declares
    <3> QED BY <1>0, <2>4, <3>2, <3>3 DEF PortStep
  <2>5. ASSUME Fail(v), portUsed' = portUsed \ task[v].ports PROVE PortStep(v)
    <3>1. task'[v] = Idle
      BY <2>5, TaskMoves
    <3>2. Held(v)' = {} /\ Declares(v)'
      BY <2>1, <3>1, IdleFields DEF Held, Pending, Released, Declares
    <3> QED BY <2>2, <2>5, <3>2 DEF PortStep
  <2> QED BY <1>1, <2>3, <2>4, <2>5 DEF AllocatePort, IsNext
<1>2. CASE InsertVm(v)
  <2>1. /\ task[v].pc = "insert" /\ UNCHANGED <<forwards, portUsed>> /\ Continue(v, "rows")
    BY <1>2 DEF InsertVm, At, May
  <2>2. task'[v].pc = "rows" /\ task'[v].ports = task[v].ports
    BY <2>1, TaskMoves
  <2>3. Held(v)' = Held(v)
    BY <2>1, <2>2, PortsKept DEF Held, Pending, Released
  <2> QED BY <1>0, <2>1, <2>2, <2>3, PortsAside
<1>3. CASE InsertForward(v)
  <2>1. /\ task[v].pc = "rows" /\ portUsed' = portUsed /\ HostPorts(v) \subseteq task[v].ports
    BY <1>0, <1>3 DEF InsertForward, At, Ported
  <2>2. Held(v) = task[v].ports
    BY <2>1 DEF Held, Pending, Released
  <2>3. ASSUME task[v].ports \subseteq HostPorts(v), Continue(v, "provision"), forwards' = forwards
        PROVE  PortStep(v)
    <3>1. task'[v].pc = "provision"
      BY <2>3, TaskMoves
    <3>2. Held(v)' = HostPorts(v)
      BY <2>3, <3>1, PortsKept DEF Held, Pending, Released
    <3>3. task[v].ports = HostPorts(v)
      BY <2>1, <2>3
    <3>4. Held(v)' = Held(v)
      BY <2>2, <3>2, <3>3
    <3> QED BY <1>0, <2>1, <3>1, <3>4, PortsAside
  <2>4. ASSUME NEW p \in task[v].ports, forwards' = forwards \cup {<<v, p>>}, task' = task
        PROVE  PortStep(v)
    <3>1. HostPorts(v)' \subseteq task[v].ports
      BY <2>1, <2>4 DEF HostPorts
    <3>2. Held(v)' = task[v].ports
      BY <2>1, <2>4, <3>1 DEF Held, Pending, Released
    <3> QED BY <1>0, <2>1, <2>2, <2>4, <3>2, PortsAside
  <2>5. ASSUME Continue(v, "unport"), forwards' = forwards PROVE PortStep(v)
    <3>1. task'[v].pc = "unport" /\ task'[v].ports = task[v].ports
      BY <2>5, TaskMoves
    <3>2. Held(v)' = task[v].ports
      BY <2>1, <2>5, <3>1, PortsKept DEF Held, Pending, Released
    <3> QED BY <1>0, <2>1, <2>2, <3>1, <3>2, PortsAside
  <2> QED BY <1>3, <2>3, <2>4, <2>5 DEF InsertForward
<1>4. ASSUME task[v].pc \in BringUpPcs, UNCHANGED <<forwards, portUsed>>,
             NEW pc \in BringUpPcs \cup {"retire"}, Continue(v, pc)
      PROVE  PortStep(v)
  <2>1. task'[v].pc = pc
    BY <1>4, TaskMoves
  <2>2. Held(v)' = Held(v)
    BY <1>4, <2>1, PortsKept DEF Held, Pending, Released, BringUpPcs
  <2> QED BY <1>0, <1>4, <2>1, <2>2, PortsAside DEF BringUpPcs
<1>5. ASSUME task[v].pc \in BringUpPcs, UNCHANGED <<forwards, portUsed>>, BringUpFailed(v)
      PROVE  PortStep(v)
  <2>1. Held(v) = HostPorts(v) /\ HostPorts(v)' = HostPorts(v)
    BY <1>5, PortsKept DEF Held, Pending, Released, BringUpPcs
  <2>2. CASE task[v].job = "create"
    <3>1. task'[v].pc = "unport" /\ task'[v].ports = HostPorts(v)
      BY <1>0, <1>5, <2>2, TaskMoves DEF BringUpFailed, Ported
    <3>2. Held(v)' = HostPorts(v)
      BY <2>1, <3>1 DEF Held, Pending, Released
    <3> QED BY <1>0, <1>5, <2>1, <3>1, <3>2, PortsAside
  <2>3. CASE task[v].job # "create"
    <3>1. task'[v].pc = "vmm" /\ task'[v].job # "create"
      BY <1>5, <2>3, TaskMoves DEF BringUpFailed
    <3>2. Held(v)' = HostPorts(v)
      BY <2>1, <3>1 DEF Held, Pending, Released
    <3> QED BY <1>0, <1>5, <2>1, <3>1, <3>2, PortsAside
  <2> QED BY <2>2, <2>3
<1>6. CASE Provision(v) \/ ApplyNetwork(v) \/ CreateVmm(v) \/ StartVmm(v)
  <2>1. task[v].pc \in BringUpPcs /\ UNCHANGED <<forwards, portUsed>>
    BY <1>6 DEF Provision, ApplyNetwork, CreateVmm, StartVmm, At, BringUpPcs
  <2>2. BringUpFailed(v) \/ \E pc \in BringUpPcs : Continue(v, pc)
    BY <1>6 DEF Provision, ApplyNetwork, CreateVmm, StartVmm, BringUpPcs
  <2> QED BY <1>4, <1>5, <2>1, <2>2
<1>7. CASE SaveRunning(v)
  <2>1. task[v].pc \in BringUpPcs /\ UNCHANGED <<forwards, portUsed>>
    BY <1>7 DEF SaveRunning, At, BringUpPcs
  <2>2. Continue(v, "retire") \/ task'[v] = Idle
    BY <1>7, TaskMoves DEF SaveRunning
  <2>3. CASE task'[v] = Idle
    <3>1. Held(v)' = Held(v) /\ task'[v].pc # "declare"
      BY <2>1, <2>3, IdleFields, PortsKept DEF Held, Pending, Released, BringUpPcs
    <3> QED BY <1>0, <2>1, <3>1, PortsAside
  <2> QED BY <1>4, <2>1, <2>2, <2>3
<1> QED BY <1>1, <1>2, <1>3, <1>6, <1>7

LEMMA LifecyclePorts ==
  ASSUME TypeOK, Placement, Controlled, AllTidy, PortOK, NEW v \in VmIds, "store" \notin Faults,
         \/ ResumeVmm(v) \/ Place(v) \/ SaveCreating(v)
         \/ Suspend(v) \/ SaveSuspended(v) \/ StopVmm(v) \/ RetireVmm(v)
  PROVE  PortStep(v)
<1>0. /\ task \in [VmIds -> Task] /\ task[v] \in Task /\ Ported(v) /\ phase # "down"
  BY AtWork DEF TypeOK, AllTidy, Tidy, Step
<1>1. /\ task[v].pc \in {"resume", "place", "saveCreating", "suspend", "saveSuspended",
                         "stop", "retire"}
      /\ UNCHANGED <<forwards, portUsed>>
  BY DEF ResumeVmm, Place, SaveCreating, Suspend, SaveSuspended, StopVmm, RetireVmm, At
<1>2. Held(v) = HostPorts(v) /\ HostPorts(v)' = HostPorts(v)
  BY <1>1, PortsKept DEF Held, Pending, Released
<1>3. \/ task'[v] = Idle
      \/ task'[v].pc \in {"saveRunning", "saveCreating", "provision", "saveSuspended"}
      \/ task'[v].pc = "vmm" /\ task'[v].job # "create"
  <2>1. CASE ResumeVmm(v) \/ SaveCreating(v) \/ Suspend(v) \/ SaveSuspended(v)
    BY <2>1, TaskMoves DEF ResumeVmm, SaveCreating, Suspend, SaveSuspended
  <2>2. CASE StopVmm(v)
    <3>1. task[v].job # "create"
      BY <1>0, <2>2 DEF StopVmm, At, Ported, BringUpPcs
    <3> QED BY <2>2, <3>1, TaskMoves DEF StopVmm
  <2>3. CASE RetireVmm(v)
    <3>1. ASSUME task' = [task EXCEPT ![v].job = "terminate", ![v].pc = "vmm"]
          PROVE  task'[v].pc = "vmm" /\ task'[v].job = "terminate"
      BY <1>0, <3>1 DEF Task
    <3> QED BY <2>3, <3>1, TaskMoves DEF RetireVmm
  <2>4. CASE Place(v)
    <3>1. ASSUME NEW s \in Slots,
                 task' = [task EXCEPT ![v].pc = "saveCreating", ![v].slot = s,
                            ![v].job = IF @ = "restart" THEN "rerun" ELSE @]
          PROVE  task'[v].pc = "saveCreating"
      BY <1>0, <3>1 DEF Task
    <3> QED BY <2>4, <3>1, TaskMoves DEF Place
  <2> QED BY <2>1, <2>2, <2>3, <2>4
<1>4. Held(v)' = HostPorts(v)' /\ task'[v].pc # "declare"
  BY <1>3, IdleFields DEF Held, Pending, Released
<1> QED BY <1>0, <1>1, <1>2, <1>4, PortsAside

LEMMA TearDownPorts ==
  ASSUME TypeOK, Placement, Controlled, AllTidy, PortOK, NEW v \in VmIds, "store" \notin Faults,
         \/ UnallocatePorts(v) \/ TearDownVmm(v) \/ TearDownNet(v) \/ FreePorts(v)
         \/ TearDownVolume(v) \/ DeleteVm(v) \/ SaveStopped(v) \/ FreeSlot(v)
  PROVE  PortStep(v)
<1>0. /\ task \in [VmIds -> Task] /\ task[v] \in Task /\ Control(v) /\ Ported(v)
      /\ phase # "down" /\ Held(v) \subseteq portUsed
  BY AtWork, HeldPorts DEF TypeOK, Controlled, AllTidy, Tidy, Step, PortOK
<1>1. CASE UnallocatePorts(v)
  <2>1. /\ task[v].pc = "unport" /\ task[v].job = "create" /\ HostPorts(v) \subseteq task[v].ports
        /\ portUsed' = portUsed \ task[v].ports /\ Continue(v, "vmm")
    BY <1>0, <1>1 DEF UnallocatePorts, At, Ported
  <2>2. Held(v) = task[v].ports
    BY <2>1 DEF Held, Pending, Released
  <2>3. task'[v].pc = "vmm" /\ task'[v].job = "create"
    BY <2>1, TaskMoves
  <2>4. Held(v)' = {} /\ Declares(v)'
    BY <2>3 DEF Held, Released, Declares
  <2> QED BY <2>1, <2>2, <2>4 DEF PortStep
<1>2. CASE TearDownVmm(v)
  <2>1. task[v].pc = "vmm" /\ UNCHANGED <<forwards, portUsed>> /\ HostPorts(v)' = HostPorts(v)
    BY <1>2, PortsKept DEF TearDownVmm, At
  <2>2. CASE Continue(v, "net")
    <3>1. task'[v].pc = "net" /\ task'[v].job = task[v].job
      BY <2>2, TaskMoves
    <3>2. Held(v)' = Held(v)
      BY <2>1, <3>1 DEF Held, Pending, Released
    <3> QED BY <1>0, <2>1, <3>1, <3>2, PortsAside
  <2>3. CASE task[v].job = "terminate" /\ Fail(v)
    <3>1. task'[v] = Idle
      BY <2>3, TaskMoves
    <3>2. Held(v)' = Held(v) /\ task'[v].pc # "declare"
      BY <2>1, <2>3, <3>1, IdleFields DEF Held, Pending, Released
    <3> QED BY <1>0, <2>1, <3>2, PortsAside
  <2> QED BY <1>2, <2>2, <2>3 DEF TearDownVmm
<1>3. CASE TearDownNet(v)
  <2>1. task[v].pc = "net" /\ UNCHANGED <<forwards, portUsed>> /\ HostPorts(v)' = HostPorts(v)
    BY <1>3, PortsKept DEF TearDownNet, At
  <2>2. CASE task[v].job = "terminate" /\ Fail(v)
    <3>1. task'[v] = Idle
      BY <2>2, TaskMoves
    <3>2. Held(v)' = Held(v) /\ task'[v].pc # "declare"
      BY <2>1, <2>2, <3>1, IdleFields DEF Held, Pending, Released
    <3> QED BY <1>0, <2>1, <3>2, PortsAside
  <2>3. CASE task[v].job = "create" /\ Continue(v, "volume")
    <3>1. task'[v].pc = "volume"
      BY <2>3, TaskMoves
    <3>2. Held(v)' = Held(v)
      BY <2>1, <2>3, <3>1 DEF Held, Released
    <3> QED BY <1>0, <2>1, <3>1, <3>2, PortsAside
  <2>4. CASE task[v].job # "create" /\ (Continue(v, "save") \/ Continue(v, "ports"))
    <3>1. task'[v].pc \in {"save", "ports"} /\ task'[v].job = task[v].job
      BY <2>4, TaskMoves
    <3>2. Held(v)' = Held(v)
      BY <2>1, <2>4, <3>1 DEF Held, Pending, Released
    <3> QED BY <1>0, <2>1, <3>1, <3>2, PortsAside
  <2>5. task[v].job = "create" => ~task[v].keep
    BY <1>0 DEF Ported
  <2> QED BY <1>3, <2>2, <2>3, <2>4, <2>5 DEF TearDownNet
<1>4. CASE FreePorts(v)
  <2>1. /\ task[v].pc = "ports" /\ forwards' = forwards
        /\ portUsed' = portUsed \ task[v].ports /\ Continue(v, "volume")
    BY <1>4 DEF FreePorts, At
  <2>2. task[v].job \notin {"none", "create", "forward"}
    BY <1>0, <2>1 DEF Control, Ported, BringUpPcs
  <2>3. Held(v) = HostPorts(v) /\ task[v].ports = HostPorts(v)
    BY <1>0, <2>1, <2>2 DEF Ported, Held, Pending, Released
  <2>4. task'[v].pc = "volume"
    BY <2>1, TaskMoves
  <2>5. Held(v)' = {} /\ Declares(v)'
    BY <2>4 DEF Held, Released, Declares
  <2> QED BY <2>1, <2>3, <2>5 DEF PortStep
<1>5. CASE TearDownVolume(v)
  <2>1. task[v].pc = "volume" /\ portUsed' = portUsed /\ Continue(v, "delete")
    BY <1>5 DEF TearDownVolume, At
  <2>2. task'[v].pc = "delete"
    BY <2>1, TaskMoves
  <2>3. Held(v)' = Held(v)
    BY <2>1, <2>2 DEF Held, Released
  <2> QED BY <1>0, <2>1, <2>2, <2>3, PortsAside
<1>6. ASSUME LetGo(v) PROVE task'[v] = Idle \/ task'[v].pc = "place"
  <2>1. ASSUME task' = [task EXCEPT ![v].pc = "place", ![v].slot = NoSlot]
        PROVE  task'[v].pc = "place"
    BY <1>0, <2>1 DEF Task
  <2> QED BY <1>6, <2>1, TaskMoves DEF LetGo
<1>7. ASSUME AfterSave(v) PROVE task'[v] = Idle \/ task'[v].pc \in {"place", "free"}
  BY <1>6, <1>7, TaskMoves DEF AfterSave
<1>8. ASSUME task'[v] = Idle \/ task'[v].pc \in {"place", "free"}
      PROVE  Held(v)' = HostPorts(v)' /\ task'[v].pc # "declare"
  BY <1>8, IdleFields DEF Held, Pending, Released
<1>9. CASE DeleteVm(v)
  <2>1. /\ task[v].pc = "delete" /\ portUsed' = portUsed /\ AfterSave(v)
        /\ forwards' = {f \in forwards : f[1] # v}
    BY <1>9 DEF DeleteVm, At, May
  <2>2. HostPorts(v)' = {}
    BY <2>1 DEF HostPorts
  <2>3. Held(v) = {}
    BY <2>1 DEF Held, Released
  <2> QED BY <1>0, <1>7, <1>8, <2>1, <2>2, <2>3, PortsAside
<1>10. CASE SaveStopped(v)
  <2>1. task[v].pc = "save" /\ UNCHANGED <<forwards, portUsed>> /\ AfterSave(v)
    BY <1>10 DEF SaveStopped, At, May
  <2>2. Held(v) = HostPorts(v) /\ HostPorts(v)' = HostPorts(v)
    BY <2>1, PortsKept DEF Held, Pending, Released
  <2> QED BY <1>0, <1>7, <1>8, <2>1, <2>2, PortsAside
<1>11. CASE FreeSlot(v)
  <2>1. task[v].pc = "free" /\ UNCHANGED <<forwards, portUsed>> /\ LetGo(v)
    BY <1>11 DEF FreeSlot, At
  <2>2. Held(v) = HostPorts(v) /\ HostPorts(v)' = HostPorts(v)
    BY <2>1, PortsKept DEF Held, Pending, Released
  <2> QED BY <1>0, <1>6, <1>8, <2>1, <2>2, PortsAside
<1> QED BY <1>1, <1>2, <1>3, <1>4, <1>5, <1>9, <1>10, <1>11

LEMMA ForwardPorts ==
  ASSUME TypeOK, Placement, Controlled, AllTidy, PortOK, NEW v \in VmIds,
         "store" \notin Faults, "apply" \notin Faults,
         DeclareForward(v) \/ SteerForward(v) \/ WithdrawForward(v)
  PROVE  PortStep(v)
<1>0. /\ task \in [VmIds -> Task] /\ task[v] \in Task /\ Ported(v) /\ Declares(v)
      /\ phase # "down" /\ Held(v) \subseteq portUsed
  BY AtWork, HeldPorts DEF TypeOK, AllTidy, Tidy, Step, PortOK
<1>1. ASSUME task'[v] = Idle PROVE Held(v)' = HostPorts(v)' /\ task'[v].pc # "declare"
  BY <1>1, IdleFields DEF Held, Pending, Released
<1>2. CASE DeclareForward(v)
  <2>1. PICK p \in Ports : task[v].ports = {p} /\ p \notin HostPorts(v) /\ task[v].pc = "declare"
    BY <1>0, <1>2 DEF DeclareForward, At, Declares
  <2>2. Held(v) = HostPorts(v) \cup {p}
    BY <2>1 DEF Held, Pending, Released
  <2>3. ASSUME forwards' = forwards \cup {<<v, p>>}, Continue(v, "steer"), portUsed' = portUsed
        PROVE  PortStep(v)
    <3>1. HostPorts(v)' = HostPorts(v) \cup {p}
      BY <2>3 DEF HostPorts
    <3>2. task'[v].pc = "steer"
      BY <2>3, TaskMoves
    <3>3. Held(v)' = Held(v)
      BY <2>2, <3>1, <3>2 DEF Held, Pending, Released
    <3> QED BY <1>0, <2>3, <3>2, <3>3, PortsAside
  <2>4. ASSUME portUsed' = portUsed \ {p}, Fail(v), forwards' = forwards PROVE PortStep(v)
    <3>1. task'[v] = Idle
      BY <2>4, TaskMoves
    <3>2. Held(v)' = HostPorts(v) /\ Declares(v)'
      BY <1>1, <2>4, <3>1, PortsKept DEF Declares
    <3> QED BY <1>0, <2>1, <2>2, <2>4, <3>2 DEF PortStep
  <2> QED BY <1>2, <2>1, <2>3, <2>4 DEF DeclareForward
<1>3. CASE SteerForward(v)
  <2>1. task[v].pc = "steer" /\ Finish(v) /\ UNCHANGED <<forwards, portUsed>>
    BY <1>3 DEF SteerForward, SteerFails, At, May
  <2>2. Held(v) = HostPorts(v) /\ HostPorts(v)' = HostPorts(v)
    BY <2>1, PortsKept DEF Held, Pending, Released
  <2> QED BY <1>0, <1>1, <2>1, <2>2, TaskMoves, PortsAside
<1>4. CASE WithdrawForward(v)
  <2>1. /\ task[v].pc = "withdraw" /\ Finish(v) /\ forwards' = forwards
        /\ portUsed' = portUsed \ task[v].ports
    BY <1>4 DEF WithdrawForward, SteerFails, At, May
  <2>2. Held(v) = HostPorts(v) \cup task[v].ports /\ task[v].ports \cap HostPorts(v) = {}
    BY <1>0, <2>1 DEF Held, Pending, Released, Ported
  <2>3. task'[v] = Idle
    BY <2>1, TaskMoves
  <2>4. Held(v)' = HostPorts(v) /\ Declares(v)'
    BY <1>1, <2>1, <2>3, PortsKept DEF Declares
  <2> QED BY <1>0, <2>1, <2>2, <2>4 DEF PortStep
<1> QED BY <1>2, <1>3, <1>4

LEMMA BesidePorts ==
  ASSUME TypeOK, Placement, PortOK, NEW v \in VmIds, phase # "down",
         VmmExit(v) \/ GuestWrites(v) \/ Probe(v) \/ Reap(v) \/ RecoverVm(v)
  PROVE  PortStep(v)
<1>0. Held(v) \subseteq portUsed /\ HandlerOK(v) /\ Declares(v)
  BY HeldPorts DEF PortOK, Placement, VmOK
<1>1. UNCHANGED <<forwards, portUsed>> /\ HostPorts(v)' = HostPorts(v)
  BY PortsKept DEF VmmExit, GuestWrites, Probe, Reap, RecoverVm
<1>2. CASE UNCHANGED task
  <2>1. Held(v)' = Held(v) /\ Declares(v)'
    BY <1>0, <1>1, <1>2 DEF Held, Pending, Released, Declares
  <2> QED BY <1>0, <1>1, <2>1 DEF PortStep
<1>3. ASSUME task[v].pc = "idle", NEW job \in {"restart", "exit", "abandon"},
             NEW pc \in {"net", "vmm"}, NEW keep, Begin(v, job, pc, keep)
      PROVE  PortStep(v)
  <2>1. task'[v].pc = pc /\ task'[v].job = job
    BY SMTT(60), <1>3, TaskMoves
  <2>2. Held(v)' = HostPorts(v) /\ Held(v) = HostPorts(v)
    BY <1>1, <1>3, <2>1 DEF Held, Pending, Released
  <2> QED BY <1>1, <1>3, <2>1, <2>2, PortsAside
<1>4. CASE Reap(v) \/ RecoverVm(v)
  <2>1. task[v].pc = "idle"
    BY <1>4 DEF Reap, RecoverVm, At
  <2>2. \/ Begin(v, "restart", "net", TRUE)
        \/ Begin(v, "exit", "vmm", v \in Durable)
        \/ Begin(v, "abandon", "vmm", v \in Durable /\ vms[v].dev)
        \/ UNCHANGED task
    BY <1>4 DEF Reap, RecoverVm, HandleExit, Abandon
  <2> QED BY <1>2, <1>3, <2>1, <2>2
<1> QED BY <1>2, <1>4 DEF VmmExit, GuestWrites, Probe

-----------------------------------------------------------------------------
(* A step adds a row only for a port its handler holds and no other VM has on *)
(* record (the primary key of port_forwards).                                 *)
RowStep(v) ==
  /\ \A w \in VmIds \ {v} : (HostPorts(v)' \ HostPorts(v)) \cap HostPorts(w) = {}
  /\ HostPorts(v)' \ HostPorts(v) \subseteq Pending(v)

LEMMA StepRows ==
  ASSUME TypeOK, NEW v \in VmIds,
         \/ Call(v) \/ Step(v) \/ VmmExit(v) \/ GuestWrites(v) \/ Cancel(v)
         \/ Probe(v) \/ Reap(v) \/ RecoverVm(v)
  PROVE  RowStep(v)
<1>1. CASE forwards' \subseteq forwards
  BY <1>1 DEF RowStep, HostPorts
<1>2. ASSUME NEW p \in task[v].ports, ~Collides(v, p), forwards' = forwards \cup {<<v, p>>},
             task[v].pc \in {"rows", "declare"}
      PROVE  RowStep(v)
  <2>1. HostPorts(v)' \ HostPorts(v) \subseteq {p}
    BY <1>2 DEF HostPorts
  <2>2. \A w \in VmIds \ {v} : p \notin HostPorts(w)
    BY <1>2 DEF Collides, HostPorts
  <2>3. p \in Pending(v)
    BY <1>2 DEF Pending
  <2> QED BY <2>1, <2>2, <2>3 DEF RowStep
<1>3. CASE Call(v)
  BY <1>1, <1>3 DEF Call, CreateVm, StartVm, SuspendVm, StopVm, HaltVm, DestroyVm, TerminateVm,
     RetireSuspension, AddForward, RemoveForward, Request
<1>4. CASE VmmExit(v) \/ GuestWrites(v) \/ Cancel(v) \/ Probe(v) \/ Reap(v) \/ RecoverVm(v)
  BY <1>1, <1>4 DEF VmmExit, GuestWrites, Cancel, Probe, Reap, RecoverVm
<1>5. CASE InsertForward(v)
  <2>1. task[v].pc = "rows"
    BY <1>5 DEF InsertForward, At
  <2>2. \/ forwards' = forwards
        \/ \E p \in task[v].ports : ~Collides(v, p) /\ forwards' = forwards \cup {<<v, p>>}
    BY <1>5 DEF InsertForward
  <2> QED BY <1>1, <1>2, <2>1, <2>2
<1>6. CASE DeclareForward(v)
  <2>1. task[v].pc = "declare"
    BY <1>6 DEF DeclareForward, At
  <2>2. \/ forwards' = forwards
        \/ \E p \in task[v].ports : ~Collides(v, p) /\ forwards' = forwards \cup {<<v, p>>}
    BY <1>6 DEF DeclareForward
  <2> QED BY <1>1, <1>2, <2>1, <2>2
<1>7. CASE SteerForward(v)
  <2>1. forwards' \subseteq forwards
    BY <1>7 DEF SteerForward
  <2> QED BY <1>1, <2>1
<1>8. CASE DeleteVm(v)
  <2>1. forwards' \subseteq forwards
    BY <1>8 DEF DeleteVm
  <2> QED BY <1>1, <2>1
<1>9. CASE forwards' = forwards
  BY <1>1, <1>9
<1>10. CASE Step(v) /\ ~InsertForward(v) /\ ~DeclareForward(v) /\ ~SteerForward(v) /\ ~DeleteVm(v)
  <2>1. forwards' = forwards
    BY <1>10 DEF Step, AllocatePort, InsertVm, Provision, ApplyNetwork,
       CreateVmm, StartVmm, SaveRunning, ResumeVmm, Place, SaveCreating, Suspend,
       SaveSuspended, StopVmm, RetireVmm, UnallocatePorts, TearDownVmm, TearDownNet,
       FreePorts, TearDownVolume, SaveStopped, FreeSlot, WithdrawForward
  <2> QED BY <1>9, <2>1
<1> QED BY <1>3, <1>4, <1>5, <1>6, <1>7, <1>8, <1>10

(* No two records declare one host port, whatever fails: the table's key. *)
LEMMA UniqueInvariant == Spec => []Unique
<1>1. TypeOK /\ Unique /\ [Next]_vars => Unique'
  <2> SUFFICES ASSUME TypeOK, Unique, [Next]_vars PROVE Unique'
    OBVIOUS
  <2>1. ASSUME NEW v \in VmIds,
               \/ Call(v) \/ Step(v) \/ VmmExit(v) \/ GuestWrites(v) \/ Cancel(v)
               \/ Probe(v) \/ Reap(v) \/ RecoverVm(v)
        PROVE  Unique'
    <3>1. \A w \in VmIds \ {v} : HostPorts(w)' = HostPorts(w)
      BY <2>1, StepApart DEF Apart
    <3>2. \A w \in VmIds \ {v} : (HostPorts(v)' \ HostPorts(v)) \cap HostPorts(w) = {}
      BY <2>1, StepRows DEF RowStep
    <3>3. \A w \in VmIds \ {v} : HostPorts(v)' \cap HostPorts(w)' = {}
      BY SMTT(60), <3>1, <3>2 DEF Unique
    <3>4. ASSUME NEW u \in VmIds, NEW w \in VmIds, u # w
          PROVE  HostPorts(u)' \cap HostPorts(w)' = {}
      BY SMTT(60), <3>1, <3>3, <3>4 DEF Unique
    <3> QED BY <3>4 DEF Unique
  <2>2. CASE Crash \/ GiveUp \/ Boot \/ Serve \/ UNCHANGED vars
    <3>1. forwards' = forwards
      BY <2>2 DEF Crash, GiveUp, Boot, Serve, Forget, vars
    <3> QED BY <3>1, PortsKept DEF Unique
  <2> QED BY <2>1, <2>2 DEF Next
<1> QED BY <1>1, TidyInit, TypeCorrect, PTL DEF Spec

LEMMA PortInvariant ==
  ASSUME "store" \notin Faults, "apply" \notin Faults, ~Cancels
  PROVE  Spec => []PortOK
<1>1. Init => PortOK
  BY IdleFields DEF Init, PortOK, Declares
<1>2. TypeOK /\ TypeOK' /\ Placement /\ Controlled /\ AllTidy /\ Unique /\ PortOK /\ [Next]_vars
        => PortOK'
  <2> SUFFICES ASSUME TypeOK, TypeOK', Placement, Controlled, AllTidy, Unique, PortOK, [Next]_vars
               PROVE  PortOK'
    OBVIOUS
  <2>1. ASSUME NEW v \in VmIds,
               \/ Call(v) \/ Step(v) \/ VmmExit(v) \/ GuestWrites(v) \/ Cancel(v)
               \/ Probe(v) \/ Reap(v) \/ RecoverVm(v)
        PROVE  PortOK'
    <3>0. ~Cancel(v) /\ Apart(v)
      BY <2>1, StepApart DEF Cancel
    <3>1. CASE phase # "down"
      <4>1. PortStep(v)
        BY <2>1, <3>0, <3>1, CallPorts, BringUpPorts, LifecyclePorts, TearDownPorts,
           ForwardPorts, BesidePorts DEF Step
      <4> QED BY <3>0, <3>1, <4>1, PortFrame
    <3>2. CASE phase = "down"
      <4>1. VmmExit(v) \/ GuestWrites(v)
        BY <2>1, <3>2, AtWork
      <4>2. UNCHANGED <<phase, task, forwards>>
        BY <4>1 DEF VmmExit, GuestWrites
      <4> QED BY SMTT(60), <3>2, <4>2, PortsKept DEF PortOK, Declares
    <3> QED BY <3>1, <3>2
  <2>2. CASE Crash \/ GiveUp
    <3>1. phase' = "down" /\ \A v \in VmIds : task'[v] = Idle
      BY <2>2 DEF Crash, GiveUp, Forget
    <3> QED BY <3>1, IdleFields DEF PortOK, Declares
  <2>3. CASE Boot
    <3>1. /\ phase = "down" /\ task' = task /\ forwards' = forwards
          /\ portUsed' = {p \in Ports : \E v \in VmIds : <<v, p>> \in forwards}
      BY <2>3 DEF Boot
    <3>2. \A v \in VmIds : task'[v] = Idle
      BY <3>1 DEF Placement
    <3>3. \A v \in VmIds : Held(v)' = HostPorts(v)
      BY <3>1, <3>2, IdleFields, PortsKept DEF Held, Pending, Released
    <3>4. \A v \in VmIds : Declares(v)'
      BY <3>2, IdleFields DEF Declares
    <3>5. \A p \in Ports : p \in portUsed' <=> \E v \in VmIds : p \in HostPorts(v)
      BY <3>1 DEF HostPorts
    <3> QED BY SMTT(60), <3>3, <3>4, <3>5 DEF PortOK, Unique
  <2>4. CASE Serve \/ UNCHANGED vars
    <3>1. UNCHANGED <<task, forwards, portUsed>> /\ (phase' # "down" => phase # "down")
      BY <2>4 DEF Serve, vars
    <3>2. \A v \in VmIds : Held(v)' = Held(v) /\ (Declares(v) => Declares(v)')
      BY <3>1, PortsKept DEF Held, Pending, Released, Declares
    <3> QED BY SMTT(60), <3>1, <3>2 DEF PortOK
  <2> QED BY <2>1, <2>2, <2>3, <2>4 DEF Next
<1> QED BY <1>1, <1>2, TypeCorrect, PlacementInvariant, ControlInvariant, TidyInvariant,
       UniqueInvariant, PTL DEF Spec

(* Neither a slot nor a host port is lost to its allocator, for any number of *)
(* VMs, slots and ports, through crashes, failed boots, failed provisioning,  *)
(* failed teardown and the table's key refusing a row: free_slot and          *)
(* free_ports are reached on every path, once.  A store or a steering call    *)
(* that fails, or a request dropped with its forwards half changed, does lose *)
(* a port until the daemon starts again, and is excluded.                     *)
THEOREM NoLeakHolds ==
  ASSUME "store" \notin Faults, "apply" \notin Faults, ~Cancels
  PROVE  Spec => []NoLeak
<1>1. TypeOK /\ Placement /\ PortOK => NoPortLeak
  <2> SUFFICES ASSUME TypeOK, Placement, PortOK, Quiet
               PROVE  portUsed = UNION {HostPorts(v) : v \in VmIds}
    BY DEF NoPortLeak
  <2>1. phase # "down" /\ \A v \in VmIds : task[v] = Idle
    BY DEF Quiet, At, Placement, VmOK, HandlerOK
  <2>2. \A v \in VmIds : Held(v) = HostPorts(v)
    BY <2>1, IdleHeld DEF OnRows
  <2>3. \A p \in Ports : p \in portUsed <=> \E v \in VmIds : p \in HostPorts(v)
    BY <2>1, <2>2 DEF PortOK
  <2>4. portUsed \subseteq Ports /\ \A v \in VmIds : HostPorts(v) \subseteq Ports
    BY DEF TypeOK, HostPorts
  <2> QED BY <2>3, <2>4
<1>2. NoSlotLeak /\ NoPortLeak => NoLeak
  BY DEF NoLeak
<1> QED BY <1>1, <1>2, TypeCorrect, PlacementInvariant, PortInvariant, NoSlotLeakHolds, PTL

-----------------------------------------------------------------------------
(* The port a handler is withdrawing: off the record, still steered. *)
Withdrawn(v) == IF task[v].pc = "withdraw" THEN task[v].ports ELSE {}

(* A slot's network forwards no port but those of the VM on record there. *)
Steering(v) ==
  vms[v].slot # NoSlot => net[vms[v].slot].ports \subseteq HostPorts(v) \cup Withdrawn(v)

AllSteering == \A v \in VmIds : Steering(v)

LEMMA SteeringAside ==
  ASSUME NEW v \in VmIds, Steering(v), net' = net, vms'[v].slot = vms[v].slot,
         HostPorts(v) \cup Withdrawn(v) \subseteq HostPorts(v)' \cup Withdrawn(v)'
  PROVE  Steering(v)'
BY DEF Steering

LEMMA CallSteers ==
  ASSUME TypeOK, NEW v \in VmIds, Steering(v), Call(v)
  PROVE  Steering(v)'
<1>0. task \in [VmIds -> Task]
  BY DEF TypeOK
<1>1. task[v].pc = "idle" /\ UNCHANGED <<vms, net>>
  BY DEF Call, CreateVm, StartVm, SuspendVm, StopVm, HaltVm, DestroyVm, TerminateVm,
     RetireSuspension, AddForward, RemoveForward, Request, At
<1>2. Withdrawn(v) = {}
  BY <1>1 DEF Withdrawn
<1>3. ASSUME NEW p \in Ports, RemoveForward(v, p) PROVE Steering(v)'
  <2>1. forwards' = forwards \ {<<v, p>>} /\ task' = [task EXCEPT ![v] = Forwarding(p, "withdraw")]
    BY <1>3 DEF RemoveForward
  <2>2. task'[v].pc = "withdraw" /\ task'[v].ports = {p}
    BY <1>0, <2>1 DEF Forwarding
  <2>3. HostPorts(v) \subseteq HostPorts(v)' \cup {p}
    BY <2>1 DEF HostPorts
  <2>4. Withdrawn(v)' = {p}
    BY <2>2 DEF Withdrawn
  <2> QED BY <1>1, <1>2, <2>3, <2>4, SteeringAside
<1>4. CASE forwards' = forwards
  BY <1>1, <1>2, <1>4, PortsKept, SteeringAside
<1> QED BY <1>3, <1>4 DEF Call, CreateVm, StartVm, SuspendVm, StopVm, HaltVm, DestroyVm,
     TerminateVm, RetireSuspension, AddForward, Request

LEMMA StepSteers ==
  ASSUME TypeOK, Placement, Controlled, AllTidy, NetOK, NEW v \in VmIds, Steering(v), Step(v),
         "store" \notin Faults, "apply" \notin Faults, "netdown" \notin Faults
  PROVE  Steering(v)'
<1>0. /\ task \in [VmIds -> Task] /\ task[v] \in Task
      /\ vms \in [VmIds -> Row] /\ vms[v] \in Row /\ net \in [Slots -> Net]
      /\ HandlerOK(v) /\ Control(v) /\ Ported(v) /\ NoSlot \notin Slots
  BY SMTT(60), CapacityAssumption
     DEF TypeOK, Placement, VmOK, Controlled, AllTidy, Tidy, Slots, NoSlot
<1>1. CASE \/ AllocatePort(v) \/ Provision(v) \/ CreateVmm(v) \/ StartVmm(v) \/ SaveRunning(v)
           \/ ResumeVmm(v) \/ Place(v) \/ Suspend(v) \/ SaveSuspended(v) \/ StopVmm(v)
           \/ RetireVmm(v)
           \/ UnallocatePorts(v) \/ TearDownVmm(v) \/ FreePorts(v) \/ TearDownVolume(v)
           \/ FreeSlot(v)
           \/ InsertForward(v) \/ DeclareForward(v)
  <2>1. net' = net /\ task[v].pc # "withdraw"
    BY <1>1 DEF AllocatePort, Provision, CreateVmm, StartVmm, SaveRunning, ResumeVmm, Place,
       Suspend, SaveSuspended, StopVmm, RetireVmm, UnallocatePorts, TearDownVmm, FreePorts,
       TearDownVolume, FreeSlot, InsertForward, DeclareForward, At
  <2>2. CASE SaveRunning(v) \/ SaveSuspended(v)
    <3>1. vms'[v].slot = vms[v].slot /\ forwards' = forwards
      BY SMTT(60), <1>0, <2>2 DEF SaveRunning, SaveSuspended, Row
    <3> QED BY <2>1, <3>1, PortsKept, SteeringAside DEF Withdrawn
  <2>3. CASE InsertForward(v) \/ DeclareForward(v)
    <3>1. vms' = vms /\ forwards \subseteq forwards'
      BY <2>3 DEF InsertForward, DeclareForward
    <3>2. HostPorts(v) \subseteq HostPorts(v)'
      BY <3>1 DEF HostPorts
    <3> QED BY <2>1, <3>1, <3>2, SteeringAside DEF Withdrawn
  <2>4. CASE vms' = vms /\ forwards' = forwards
    BY <2>1, <2>4, PortsKept, SteeringAside DEF Withdrawn
  <2> QED BY <1>1, <2>2, <2>3, <2>4 DEF AllocatePort, Provision, CreateVmm, StartVmm,
       ResumeVmm, Place, Suspend, StopVmm, RetireVmm, UnallocatePorts, TearDownVmm, FreePorts,
       TearDownVolume, FreeSlot
<1>2. CASE InsertVm(v) \/ SaveCreating(v)
  <2>1. /\ vms'[v].slot = task[v].slot /\ task[v].slot # NoSlot /\ net' = net
    BY SMTT(60), <1>0, <1>2 DEF InsertVm, SaveCreating, At, HandlerOK, May, Row
  <2>2. task[v].slot \in Slots /\ vms[v].slot = NoSlot
    BY <1>0, <1>2, <2>1 DEF Task, InsertVm, SaveCreating, At, HandlerOK
  <2>3. \A w \in VmIds : vms[w].slot # task[v].slot
    BY <2>1, <2>2 DEF Placement, Answers
  <2>4. net[task[v].slot] = NoNet
    BY <2>2, <2>3 DEF NetOK
  <2> QED BY SMTT(60), <2>1, <2>4 DEF Steering, NoNet
<1>3. CASE ApplyNetwork(v)
  <2>1. /\ task[v].pc = "apply" /\ UNCHANGED <<vms, forwards>>
        /\ vms[v].slot = task[v].slot /\ vms[v].slot \in Slots
        /\ net' = [net EXCEPT ![task[v].slot] = [vm |-> v, ports |-> task[v].ports]]
    BY <1>0, <1>3 DEF ApplyNetwork, At, HandlerOK, Row, May
  <2>2. net'[vms[v].slot].ports = task[v].ports
    BY <1>0, <2>1
  <2>3. task[v].ports = HostPorts(v)
    BY <1>0, <2>1 DEF Ported, Control, BringUpPcs
  <2> QED BY <2>1, <2>2, <2>3, PortsKept DEF Steering
<1>4. CASE TearDownNet(v)
  <2>1. task[v].pc = "net" /\ UNCHANGED <<vms, forwards>> /\ task[v].slot = vms[v].slot
        /\ vms[v].slot \in Slots \cup {NoSlot}
    BY <1>0, <1>4 DEF TearDownNet, At, HandlerOK, Row
  <2>2. net' = IF task[v].slot = NoSlot THEN net ELSE [net EXCEPT ![task[v].slot] = NoNet]
    BY <1>4 DEF TearDownNet, May
  <2>3. vms[v].slot # NoSlot => net'[vms[v].slot] = NoNet
    BY <1>0, <2>1, <2>2
  <2> QED BY SMTT(60), <2>1, <2>3 DEF Steering, NoNet
<1>5. CASE DeleteVm(v) \/ SaveStopped(v)
  <2>1. vms'[v].slot = NoSlot
    BY SMTT(60), <1>0, <1>5 DEF DeleteVm, SaveStopped, May, Row, NoRow
  <2> QED BY <2>1 DEF Steering
<1>6. CASE SteerForward(v) \/ WithdrawForward(v)
  <2>1. UNCHANGED <<vms, forwards>> /\ net' = Steered(v)
    BY <1>6 DEF SteerForward, WithdrawForward, SteerFails, May
  <2>2. vms[v].slot # NoSlot => net'[vms[v].slot].ports = HostPorts(v)
    BY <1>0, <2>1 DEF Steered, Row, Net
  <2> QED BY <2>1, <2>2, PortsKept DEF Steering
<1> QED BY <1>1, <1>2, <1>3, <1>4, <1>5, <1>6 DEF Step

LEMMA BesideSteers ==
  ASSUME TypeOK, NEW v \in VmIds, Steering(v), task[v].pc # "withdraw" \/ ~Cancels,
         \/ VmmExit(v) \/ GuestWrites(v) \/ Cancel(v)
         \/ Probe(v) \/ Reap(v) \/ RecoverVm(v)
  PROVE  Steering(v)'
<1>1. UNCHANGED <<vms, net, forwards>>
  BY DEF VmmExit, GuestWrites, Cancel, Probe, Reap, RecoverVm
<1>2. CASE task' = task
  BY <1>1, <1>2, PortsKept, SteeringAside DEF Withdrawn
<1>3. CASE task[v].pc # "withdraw"
  BY <1>1, <1>3, PortsKept, SteeringAside DEF Withdrawn
<1> QED BY <1>2, <1>3 DEF VmmExit, GuestWrites, Cancel, Probe, Reap, RecoverVm, At

LEMMA SteeringFrame ==
  ASSUME TypeOK, Placement, AllSteering, NEW v \in VmIds, Apart(v), NetStep(v), Steering(v)'
  PROVE  AllSteering'
<1> SUFFICES ASSUME NEW w \in VmIds, w # v PROVE Steering(w)'
  BY DEF AllSteering
<1>1. /\ vms'[w] = vms[w] /\ HostPorts(w)' = HostPorts(w) /\ task'[w] = task[w]
  BY DEF Apart
<1>2. CASE vms[w].slot # NoSlot
  <2>1. vms[w].slot \in Slots /\ vms[w].slot # vms[v].slot
    BY <1>2 DEF Placement, Answers, TypeOK, Row
  <2>2. net'[vms[w].slot] = net[vms[w].slot]
    BY <2>1 DEF NetStep
  <2> QED BY <1>1, <2>2 DEF AllSteering, Steering, Withdrawn
<1>3. CASE vms[w].slot = NoSlot
  BY <1>1, <1>3 DEF Steering
<1> QED BY <1>2, <1>3

(* The last step of the argument: two slots' forwards are two VMs' rows and *)
(* withdrawals.                                                             *)
LEMMA SteeredApart ==
  ASSUME TypeOK, NetOK, AllSteering, Unique,
         \A v, w \in VmIds : v # w => Withdrawn(v) \cap (HostPorts(w) \cup Withdrawn(w)) = {}
  PROVE  ForwardsExclusive
<1> SUFFICES ASSUME NEW s \in Slots, NEW t \in Slots, s # t
             PROVE  net[s].ports \cap net[t].ports = {}
  BY DEF ForwardsExclusive
<1>1. CASE net[s] = NoNet \/ net[t] = NoNet
  BY SMTT(60), <1>1 DEF NoNet
<1>2. CASE net[s] # NoNet /\ net[t] # NoNet
  <2>1. PICK v \in VmIds : vms[v].slot = s
    BY <1>2 DEF NetOK
  <2>2. PICK w \in VmIds : vms[w].slot = t
    BY <1>2 DEF NetOK
  <2>3. s # NoSlot /\ t # NoSlot /\ v # w
    BY SMTT(60), <2>1, <2>2, CapacityAssumption DEF Slots, NoSlot
  <2>4. /\ net[s].ports \subseteq HostPorts(v) \cup Withdrawn(v)
        /\ net[t].ports \subseteq HostPorts(w) \cup Withdrawn(w)
    BY <2>1, <2>2, <2>3 DEF AllSteering, Steering
  <2>5. (HostPorts(v) \cup Withdrawn(v)) \cap (HostPorts(w) \cup Withdrawn(w)) = {}
    BY <2>3 DEF Unique
  <2> QED BY <2>4, <2>5
<1> QED BY <1>1, <1>2

-----------------------------------------------------------------------------
(* Only remove_forward sets out to withdraw. *)
LEMMA Withdraws ==
  ASSUME TypeOK, NEW v \in VmIds, task[v].pc # "withdraw",
         \/ Call(v) /\ "forward" \notin Calls
         \/ Step(v) \/ VmmExit(v) \/ GuestWrites(v) \/ Cancel(v)
         \/ Probe(v) \/ Reap(v) \/ RecoverVm(v)
  PROVE  task'[v].pc # "withdraw"
<1>0. task \in [VmIds -> Task] /\ task[v] \in Task
  BY DEF TypeOK
<1>1. CASE task' = task \/ Fail(v) \/ Finish(v) \/ task'[v] = Idle
  BY <1>1, TaskMoves, IdleFields
<1>2. ASSUME NEW pc \in Pcs \ {"withdraw"}, Continue(v, pc) PROVE task'[v].pc # "withdraw"
  BY <1>2, TaskMoves
<1>3. ASSUME NEW job, NEW pc \in Pcs \ {"withdraw"}, NEW keep, Begin(v, job, pc, keep)
      PROVE  task'[v].pc # "withdraw"
  BY SMTT(60), <1>3, TaskMoves
<1>4. CASE Call(v) /\ "forward" \notin Calls
  <2>1. ASSUME NEW n \in 0 .. MaxForwards, CreateVm(v, n) PROVE task'[v].pc # "withdraw"
    BY SMTT(60), <1>0, <2>1 DEF CreateVm
  <2>2. CASE StartVm(v) \/ SuspendVm(v) \/ StopVm(v) \/ HaltVm(v)
             \/ DestroyVm(v) \/ TerminateVm(v) \/ RetireSuspension(v)
    BY <1>3, <2>2 DEF StartVm, SuspendVm, StopVm, HaltVm, DestroyVm, TerminateVm,
       RetireSuspension, Pcs, BringUpPcs
  <2> QED BY <1>4, <2>1, <2>2 DEF Call, AddForward, RemoveForward
<1>5. CASE VmmExit(v) \/ GuestWrites(v) \/ Probe(v)
  BY <1>1, <1>5 DEF VmmExit, GuestWrites, Probe
<1>6. CASE Cancel(v)
  BY <1>0, <1>6, IdleFields DEF Cancel
<1>7. CASE Reap(v) \/ RecoverVm(v)
  <2>1. \/ Begin(v, "restart", "net", TRUE)
        \/ Begin(v, "exit", "vmm", v \in Durable)
        \/ Begin(v, "abandon", "vmm", v \in Durable /\ vms[v].dev)
        \/ UNCHANGED task
    BY <1>7 DEF Reap, RecoverVm, HandleExit, Abandon
  <2> QED BY <1>1, <1>3, <2>1 DEF Pcs, BringUpPcs
<1>8. CASE AllocatePort(v)
  <2>1. \/ Continue(v, "insert") \/ Fail(v)
        \/ \E p \in Ports : task' = [task EXCEPT ![v].ports = @ \cup {p}, ![v].want = @ - 1]
    BY <1>8 DEF AllocatePort
  <2>2. ASSUME NEW p \in Ports, task' = [task EXCEPT ![v].ports = @ \cup {p}, ![v].want = @ - 1]
        PROVE  task'[v].pc = task[v].pc
    BY <1>0, <2>2 DEF Task
  <2> QED BY <1>1, <1>2, <2>1, <2>2 DEF Pcs
<1>9. CASE Place(v)
  <2>1. ASSUME NEW s \in Slots,
               task' = [task EXCEPT ![v].pc = "saveCreating", ![v].slot = s,
                          ![v].job = IF @ = "restart" THEN "rerun" ELSE @]
        PROVE  task'[v].pc = "saveCreating"
    BY <1>0, <2>1 DEF Task
  <2> QED BY <1>1, <1>9, <2>1 DEF Place
<1>10. CASE RetireVmm(v)
  <2>1. ASSUME task' = [task EXCEPT ![v].job = "terminate", ![v].pc = "vmm"]
        PROVE  task'[v].pc = "vmm"
    BY <1>0, <2>1 DEF Task
  <2> QED BY <1>1, <1>10, <2>1 DEF RetireVmm
<1>11. ASSUME LetGo(v) PROVE task'[v].pc # "withdraw"
  <2>1. ASSUME task' = [task EXCEPT ![v].pc = "place", ![v].slot = NoSlot]
        PROVE  task'[v].pc = "place"
    BY <1>0, <2>1 DEF Task
  <2> QED BY <1>1, <1>11, <2>1 DEF LetGo
<1>12. CASE DeleteVm(v) \/ SaveStopped(v) \/ FreeSlot(v)
  <2>1. LetGo(v) \/ Continue(v, "free") \/ Fail(v)
    BY <1>12 DEF DeleteVm, SaveStopped, FreeSlot, AfterSave
  <2> QED BY <1>1, <1>2, <1>11, <2>1 DEF Pcs
<1>13. CASE InsertVm(v) \/ InsertForward(v) \/ Provision(v) \/ ApplyNetwork(v) \/ CreateVmm(v)
            \/ StartVmm(v) \/ SaveRunning(v) \/ ResumeVmm(v) \/ SaveCreating(v)
  <2>1. \/ \E pc \in {"rows", "provision", "unport", "apply", "boot", "go", "vmm",
                      "saveRunning", "retire"} : Continue(v, pc)
        \/ Fail(v) \/ Finish(v) \/ task' = task
    BY <1>13 DEF InsertVm, InsertForward, Provision, ApplyNetwork, CreateVmm, StartVmm,
       SaveRunning, ResumeVmm, SaveCreating, BringUpFailed
  <2> QED BY <1>1, <1>2, <2>1 DEF Pcs, BringUpPcs
<1>14. CASE Suspend(v) \/ SaveSuspended(v) \/ StopVmm(v) \/ UnallocatePorts(v) \/ TearDownVmm(v)
            \/ TearDownNet(v) \/ FreePorts(v) \/ TearDownVolume(v) \/ DeclareForward(v)
            \/ SteerForward(v) \/ WithdrawForward(v)
  <2>1. \/ \E pc \in {"saveSuspended", "vmm", "net", "save", "ports", "volume", "delete",
                      "steer"} : Continue(v, pc)
        \/ Fail(v) \/ Finish(v)
    BY <1>14 DEF Suspend, SaveSuspended, StopVmm, UnallocatePorts, TearDownVmm, TearDownNet,
       FreePorts, TearDownVolume, DeclareForward, SteerForward, WithdrawForward
  <2> QED BY <1>1, <1>2, <2>1 DEF Pcs, BringUpPcs
<1> QED BY <1>4, <1>5, <1>6, <1>7, <1>8, <1>9, <1>10, <1>12, <1>13, <1>14 DEF Step

(* Without forward calls nothing is ever withdrawn, *)
LEMMA NoneWithdrawn ==
  ASSUME "forward" \notin Calls
  PROVE  Spec => [](\A v \in VmIds : task[v].pc # "withdraw")
<1> DEFINE None == \A v \in VmIds : task[v].pc # "withdraw"
<1>1. Init => None
  BY IdleFields DEF Init
<1>2. TypeOK /\ None /\ [Next]_vars => None'
  <2> SUFFICES ASSUME TypeOK, None, [Next]_vars, NEW w \in VmIds PROVE task'[w].pc # "withdraw"
    OBVIOUS
  <2>0. task[w].pc # "withdraw"
    OBVIOUS
  <2>1. ASSUME NEW v \in VmIds,
               \/ Call(v) \/ Step(v) \/ VmmExit(v) \/ GuestWrites(v) \/ Cancel(v)
               \/ Probe(v) \/ Reap(v) \/ RecoverVm(v)
        PROVE  task'[w].pc # "withdraw"
    <3>1. CASE w = v
      BY <2>0, <2>1, <3>1, Withdraws
    <3>2. CASE w # v
      BY <2>0, <2>1, <3>2, StepApart DEF Apart
    <3> QED BY <3>1, <3>2
  <2>2. CASE Crash \/ GiveUp \/ Boot \/ Serve \/ UNCHANGED vars
    <3>1. task'[w] = Idle \/ task' = task
      BY <2>2 DEF Crash, GiveUp, Boot, Serve, Forget, vars
    <3> QED BY <2>0, <3>1, IdleFields
  <2> QED BY <2>1, <2>2 DEF Next
<1> QED BY <1>1, <1>2, TypeCorrect, PTL DEF Spec

(* and forwards stay apart through crashes and dropped requests. *)
LEMMA DeclaredApart ==
  ASSUME "store" \notin Faults, "apply" \notin Faults, "netdown" \notin Faults,
         "forward" \notin Calls
  PROVE  Spec => []ForwardsExclusive
<1> DEFINE None == \A v \in VmIds : task[v].pc # "withdraw"
<1>1. Init => AllSteering
  <2> SUFFICES ASSUME Init, NEW v \in VmIds PROVE Steering(v)
    BY DEF AllSteering
  <2>1. vms[v] = NoRow
    BY DEF Init
  <2> QED BY SMTT(60), <2>1 DEF Steering, NoRow
<1>2. /\ TypeOK /\ Placement /\ Controlled /\ AllTidy /\ NetOK /\ None /\ AllSteering
      /\ [Next]_vars
      => AllSteering'
  <2> SUFFICES ASSUME TypeOK, Placement, Controlled, AllTidy, NetOK, None, AllSteering, [Next]_vars
               PROVE  AllSteering'
    OBVIOUS
  <2>1. ASSUME NEW v \in VmIds,
               \/ Call(v) \/ Step(v) \/ VmmExit(v) \/ GuestWrites(v) \/ Cancel(v)
               \/ Probe(v) \/ Reap(v) \/ RecoverVm(v)
        PROVE  AllSteering'
    <3>1. NetStep(v) /\ Apart(v)
      BY <2>1, CallNet, StepNet, BesideNet, StepApart
    <3>2. Steering(v) /\ task[v].pc # "withdraw"
      BY DEF AllSteering
    <3>3. Steering(v)'
      BY <2>1, <3>2, CallSteers, StepSteers, BesideSteers
    <3> QED BY <3>1, <3>3, SteeringFrame
  <2>2. CASE Crash \/ GiveUp \/ Boot \/ Serve \/ UNCHANGED vars
    <3>1. /\ UNCHANGED <<vms, forwards>>
          /\ net' = net \/ net' = [s \in Slots |-> NoNet]
      BY <2>2 DEF Crash, GiveUp, Boot, Serve, Forget, vars
    <3>2. ASSUME NEW v \in VmIds PROVE Steering(v)'
      <4>1. Steering(v) /\ Withdrawn(v) = {} /\ HostPorts(v)' = HostPorts(v)
            /\ vms[v].slot \in Slots \cup {NoSlot}
        BY <3>1, PortsKept DEF AllSteering, Withdrawn, TypeOK, Row
      <4> QED BY SMTT(60), <3>1, <4>1 DEF Steering, NoNet
    <3> QED BY <3>2 DEF AllSteering
  <2> QED BY <2>1, <2>2 DEF Next
<1>3. TypeOK /\ NetOK /\ AllSteering /\ Unique /\ None => ForwardsExclusive
  <2> SUFFICES ASSUME TypeOK, NetOK, AllSteering, Unique, None PROVE ForwardsExclusive
    OBVIOUS
  <2>1. \A v \in VmIds : Withdrawn(v) = {}
    BY DEF Withdrawn
  <2>2. \A v, w \in VmIds : v # w => Withdrawn(v) \cap (HostPorts(w) \cup Withdrawn(w)) = {}
    BY <2>1
  <2> QED BY <2>2, SteeredApart
<1>4. Spec => []None
  BY NoneWithdrawn
<1> QED BY <1>1, <1>2, <1>3, <1>4, TypeCorrect, PlacementInvariant, ControlInvariant,
       TidyInvariant, NetInvariant, UniqueInvariant, PTL DEF Spec

(* A daemon that never crashed recovers nothing and cannot fail to. *)
Fresh ==
  /\ phase # "failed"
  /\ phase # "up" => todo = {} /\ \A v \in VmIds : vms[v].state = "none" /\ task[v].pc = "idle"

LEMMA FreshInvariant ==
  ASSUME MaxCrashes = 0
  PROVE  Spec => []Fresh
<1>1. Init => Fresh
  BY SMTT(60), IdleFields DEF Init, Fresh, NoRow
<1>2. TypeOK /\ Fresh /\ [Next]_vars => Fresh'
  <2> SUFFICES ASSUME TypeOK, Fresh, [Next]_vars PROVE Fresh'
    OBVIOUS
  <2>1. CASE phase = "up"
    <3>1. \A v \in VmIds : ~RecoverVm(v)
      BY <2>1 DEF RecoverVm
    <3>2. ~Boot /\ ~Serve /\ ~GiveUp
      BY <2>1 DEF Boot, Serve, GiveUp
    <3>3. ~Crash
      BY SMTT(60) DEF Crash, TypeOK
    <3>4. \A v \in VmIds : Fail(v) \/ Finish(v) \/ LetGo(v) \/ AfterSave(v) \/ BringUpFailed(v)
                           \/ (\E pc : Continue(v, pc))
            => phase' = phase
      BY <2>1 DEF Fail, Finish, LetGo, AfterSave, BringUpFailed, Continue
    <3>5. ASSUME NEW v \in VmIds, Call(v) PROVE phase' = phase
      BY <3>5 DEF Call, CreateVm, StartVm, SuspendVm, StopVm, HaltVm, DestroyVm, TerminateVm,
         RetireSuspension, AddForward, RemoveForward, Request
    <3>6. ASSUME NEW v \in VmIds, VmmExit(v) \/ GuestWrites(v) \/ Cancel(v) \/ Probe(v) \/ Reap(v)
          PROVE  phase' = phase
      BY <3>6 DEF VmmExit, GuestWrites, Cancel, Probe, Reap
    <3>7. ASSUME NEW v \in VmIds, Step(v) PROVE phase' = phase
      <4>1. \/ Fail(v) \/ Finish(v) \/ LetGo(v) \/ AfterSave(v) \/ BringUpFailed(v)
            \/ (\E pc : Continue(v, pc)) \/ phase' = phase
        BY <3>7 DEF Step, AllocatePort, InsertVm, InsertForward, Provision, ApplyNetwork,
           CreateVmm, StartVmm, SaveRunning, ResumeVmm, Place, SaveCreating, Suspend,
           SaveSuspended, StopVmm, RetireVmm, UnallocatePorts, TearDownVmm, TearDownNet,
           FreePorts, TearDownVolume, DeleteVm, SaveStopped, FreeSlot, DeclareForward,
           SteerForward, WithdrawForward
      <4> QED BY <3>4, <4>1
    <3>8. phase' = phase
      BY <3>1, <3>2, <3>3, <3>5, <3>6, <3>7 DEF Next, vars
    <3> QED BY <2>1, <3>8 DEF Fresh
  <2>2. CASE phase # "up"
    <3>1. todo = {} /\ \A v \in VmIds : vms[v].state = "none" /\ task[v].pc = "idle"
      BY <2>2 DEF Fresh
    <3>2. ASSUME NEW v \in VmIds PROVE ~Call(v) /\ ~Probe(v) /\ ~Reap(v) /\ ~RecoverVm(v)
      BY <2>2, <3>1 DEF Call, CreateVm, StartVm, SuspendVm, StopVm, HaltVm, DestroyVm,
         TerminateVm, RetireSuspension, AddForward, RemoveForward, Request, Probe, Reap, RecoverVm
    <3>3. ASSUME NEW v \in VmIds PROVE ~Step(v) /\ ~Cancel(v)
      BY <3>1 DEF Step, At, AllocatePort, InsertVm, InsertForward, Provision, ApplyNetwork,
         CreateVmm, StartVmm, SaveRunning, ResumeVmm, Place, SaveCreating, Suspend,
         SaveSuspended, StopVmm, RetireVmm, UnallocatePorts, TearDownVmm, TearDownNet,
         FreePorts, TearDownVolume, DeleteVm, SaveStopped, FreeSlot, DeclareForward,
         SteerForward, WithdrawForward, Cancel, NotAwaiting
    <3>4. ~Crash /\ ~GiveUp
      BY SMTT(60) DEF Crash, GiveUp, TypeOK, Fresh
    <3>5. CASE Boot
      <4>1. UNCHANGED <<vms, task>> /\ phase' = "recovering" /\ todo' = Records
        BY <3>5 DEF Boot
      <4>2. Records = {}
        BY <3>1 DEF Records
      <4> QED BY <3>1, <4>1, <4>2 DEF Fresh
    <3>6. CASE Serve
      BY <3>6 DEF Serve, Fresh
    <3>7. ASSUME NEW v \in VmIds, VmmExit(v) \/ GuestWrites(v) PROVE Fresh'
      BY <3>7 DEF VmmExit, GuestWrites, Fresh
    <3>8. CASE UNCHANGED vars
      BY <3>8 DEF vars, Fresh
    <3> QED BY <3>2, <3>3, <3>4, <3>5, <3>6, <3>7, <3>8 DEF Next
  <2> QED BY <2>1, <2>2
<1> QED BY <1>1, <1>2, TypeCorrect, PTL DEF Spec

(* What one VM is withdrawing no other has on record. *)
WithdrawnApart ==
  \A v, w \in VmIds : v # w => Withdrawn(v) \cap HostPorts(w) = {}

LEMMA WithdrawnFrame ==
  ASSUME TypeOK, PortOK, Unique, WithdrawnApart, phase # "down", NEW v \in VmIds, Apart(v),
         RowStep(v), Withdrawn(v)' \subseteq Withdrawn(v) \cup HostPorts(v)
  PROVE  WithdrawnApart'
<1>1. \A w \in VmIds \ {v} : HostPorts(w)' = HostPorts(w) /\ Withdrawn(w)' = Withdrawn(w)
  BY DEF Apart, Withdrawn
<1>2. \A w \in VmIds \ {v} : Withdrawn(v)' \cap HostPorts(w)' = {}
  BY SMTT(60), <1>1 DEF WithdrawnApart, Unique
<1>3. \A w \in VmIds : Withdrawn(w) \subseteq Held(w)
  BY DEF Withdrawn, Held, Pending, Released
<1>4. \A w \in VmIds \ {v} : Withdrawn(w) \cap HostPorts(v)' = {}
  <2>1. Pending(v) \subseteq Held(v) \/ HostPorts(v)' \subseteq HostPorts(v)
    BY DEF RowStep, Pending, Held, Released
  <2>2. \A w \in VmIds \ {v} : Held(w) \cap Held(v) = {} /\ Withdrawn(w) \cap HostPorts(v) = {}
    BY DEF PortOK, WithdrawnApart
  <2> QED BY <1>3, <2>1, <2>2 DEF RowStep
<1>5. ASSUME NEW u \in VmIds, NEW w \in VmIds, u # w PROVE Withdrawn(u)' \cap HostPorts(w)' = {}
  BY SMTT(60), <1>1, <1>2, <1>4, <1>5 DEF WithdrawnApart
<1> QED BY <1>5 DEF WithdrawnApart

LEMMA WithdrawnStep ==
  ASSUME TypeOK, NEW v \in VmIds,
         \/ Call(v) \/ Step(v) \/ VmmExit(v) \/ GuestWrites(v) \/ Cancel(v)
         \/ Probe(v) \/ Reap(v) \/ RecoverVm(v)
  PROVE  Withdrawn(v)' \subseteq Withdrawn(v) \cup HostPorts(v)
<1>0. task \in [VmIds -> Task]
  BY DEF TypeOK
<1>1. CASE task'[v].pc # "withdraw"
  BY <1>1 DEF Withdrawn
<1>2. ASSUME NEW p \in Ports, RemoveForward(v, p)
      PROVE  Withdrawn(v)' \subseteq Withdrawn(v) \cup HostPorts(v)
  <2>1. task'[v].ports = {p} /\ p \in HostPorts(v)
    BY <1>0, <1>2 DEF RemoveForward, Forwarding, HostPorts
  <2> QED BY <2>1 DEF Withdrawn
<1>3. CASE task[v].pc = "withdraw"
  <2>1. task' = task \/ task'[v] = Idle
    <3>1. CASE Call(v) \/ Reap(v) \/ RecoverVm(v)
      BY <1>3, <3>1 DEF Call, CreateVm, StartVm, SuspendVm, StopVm, HaltVm, DestroyVm,
         TerminateVm, RetireSuspension, AddForward, RemoveForward, Request, Reap, RecoverVm, At
    <3>2. CASE VmmExit(v) \/ GuestWrites(v) \/ Probe(v)
      BY <3>2 DEF VmmExit, GuestWrites, Probe
    <3>3. CASE Cancel(v)
      BY <1>0, <3>3 DEF Cancel
    <3>4. CASE Step(v)
      <4>1. WithdrawForward(v)
        BY <1>3, <3>4 DEF Step, At, AllocatePort, InsertVm, InsertForward, Provision,
           ApplyNetwork, CreateVmm, StartVmm, SaveRunning, ResumeVmm, Place, SaveCreating,
           Suspend, SaveSuspended, StopVmm, RetireVmm, UnallocatePorts, TearDownVmm, TearDownNet,
           FreePorts, TearDownVolume, DeleteVm, SaveStopped, FreeSlot, DeclareForward,
           SteerForward
      <4> QED BY <4>1, TaskMoves DEF WithdrawForward
    <3> QED BY <3>1, <3>2, <3>3, <3>4
  <2> QED BY <2>1, IdleFields DEF Withdrawn
<1>4. CASE Call(v) /\ task[v].pc # "withdraw" /\ \A p \in Ports : ~RemoveForward(v, p)
  <2>1. ASSUME AddForward(v) PROVE task'[v].pc = "declare"
    BY SMTT(60), <1>0, <2>1 DEF AddForward, Forwarding
  <2>2. ASSUME NEW n \in 0 .. MaxForwards, CreateVm(v, n) PROVE task'[v].pc = "alloc"
    BY SMTT(60), <1>0, <2>2 DEF CreateVm
  <2>3. ASSUME NEW job, NEW pc \in {"resume", "place", "suspend", "stop", "vmm"}, NEW keep,
               Begin(v, job, pc, keep)
        PROVE  task'[v].pc = pc
    BY SMTT(60), <2>3, TaskMoves
  <2>4. CASE StartVm(v) \/ SuspendVm(v) \/ StopVm(v) \/ HaltVm(v)
             \/ DestroyVm(v) \/ TerminateVm(v) \/ RetireSuspension(v)
    BY <1>1, <2>3, <2>4 DEF StartVm, SuspendVm, StopVm, HaltVm, DestroyVm, TerminateVm,
       RetireSuspension
  <2> QED BY <1>1, <1>4, <2>1, <2>2, <2>4 DEF Call
<1>5. CASE ~Call(v) /\ task[v].pc # "withdraw"
  BY <1>1, <1>5, Withdraws
<1> QED BY <1>2, <1>3, <1>4, <1>5

(* Without crashes and dropped requests, forwards stay apart as they come and *)
(* go at run time.                                                            *)
LEMMA WithdrawingApart ==
  ASSUME "store" \notin Faults, "apply" \notin Faults, "netdown" \notin Faults,
         MaxCrashes = 0, ~Cancels
  PROVE  Spec => []ForwardsExclusive
<1> DEFINE Inv == AllSteering /\ WithdrawnApart
<1>1. Init => Inv
  <2> SUFFICES ASSUME Init PROVE AllSteering /\ WithdrawnApart
    OBVIOUS
  <2>1. ASSUME NEW v \in VmIds PROVE Steering(v) /\ Withdrawn(v) = {}
    <3>1. vms[v] = NoRow /\ task[v] = Idle
      BY DEF Init
    <3> QED BY SMTT(60), <3>1, IdleFields DEF Steering, Withdrawn, NoRow
  <2> QED BY <2>1 DEF AllSteering, WithdrawnApart
<1>2. /\ TypeOK /\ Placement /\ Controlled /\ AllTidy /\ NetOK /\ Unique /\ PortOK /\ Fresh
      /\ Inv /\ [Next]_vars
      => Inv'
  <2> SUFFICES ASSUME TypeOK, Placement, Controlled, AllTidy, NetOK, Unique, PortOK, Fresh,
                      AllSteering, WithdrawnApart, [Next]_vars
               PROVE  AllSteering' /\ WithdrawnApart'
    OBVIOUS
  <2>1. ASSUME NEW v \in VmIds,
               \/ Call(v) \/ Step(v) \/ VmmExit(v) \/ GuestWrites(v) \/ Cancel(v)
               \/ Probe(v) \/ Reap(v) \/ RecoverVm(v)
        PROVE  AllSteering' /\ WithdrawnApart'
    <3>1. NetStep(v) /\ Apart(v) /\ RowStep(v) /\ Steering(v)
          /\ Withdrawn(v)' \subseteq Withdrawn(v) \cup HostPorts(v)
      BY <2>1, CallNet, StepNet, BesideNet, StepApart, StepRows, WithdrawnStep DEF AllSteering
    <3>2. Steering(v)'
      BY <2>1, <3>1, CallSteers, StepSteers, BesideSteers
    <3>3. WithdrawnApart'
      <4>1. CASE phase # "down"
        BY <3>1, <4>1, WithdrawnFrame
      <4>2. CASE phase = "down"
        <5>1. VmmExit(v) \/ GuestWrites(v)
          BY <2>1, <4>2, AtWork
        <5>2. UNCHANGED <<task, forwards>>
          BY <5>1 DEF VmmExit, GuestWrites
        <5> QED BY <5>2, PortsKept DEF WithdrawnApart, Withdrawn
      <4> QED BY <4>1, <4>2
    <3> QED BY <3>1, <3>2, <3>3, SteeringFrame
  <2>2. CASE Crash \/ GiveUp \/ Boot \/ Serve \/ UNCHANGED vars
    <3>1. ~Crash /\ ~GiveUp
      BY SMTT(60) DEF Crash, GiveUp, TypeOK, Fresh
    <3>2. UNCHANGED <<vms, forwards, net, task>>
      BY <2>2, <3>1 DEF Boot, Serve, vars
    <3> QED BY <3>2, PortsKept DEF AllSteering, Steering, WithdrawnApart, Withdrawn
  <2> QED BY <2>1, <2>2 DEF Next
<1>3. TypeOK /\ Placement /\ NetOK /\ Unique /\ PortOK /\ Inv => ForwardsExclusive
  <2> SUFFICES ASSUME TypeOK, Placement, NetOK, Unique, PortOK, AllSteering, WithdrawnApart
               PROVE  ForwardsExclusive
    OBVIOUS
  <2>1. \A w \in VmIds : Withdrawn(w) \subseteq Held(w)
    BY DEF Withdrawn, Held, Pending, Released
  <2>2. phase = "down" => \A w \in VmIds : Withdrawn(w) = {}
    BY IdleFields DEF Placement, Withdrawn
  <2>3. phase # "down" => \A v, w \in VmIds : v # w => Held(v) \cap Held(w) = {}
    BY DEF PortOK
  <2>4. ASSUME NEW v \in VmIds, NEW w \in VmIds, v # w
        PROVE  Withdrawn(v) \cap (HostPorts(w) \cup Withdrawn(w)) = {}
    <3>1. Withdrawn(v) \cap Withdrawn(w) = {}
      BY <2>1, <2>2, <2>3, <2>4
    <3>2. Withdrawn(v) \cap HostPorts(w) = {}
      BY <2>4 DEF WithdrawnApart
    <3> QED BY <3>1, <3>2
  <2> QED BY <2>4, SteeredApart
<1> QED BY <1>1, <1>2, <1>3, TypeCorrect, PlacementInvariant, ControlInvariant, TidyInvariant,
       NetInvariant, UniqueInvariant, PortInvariant, FreshInvariant, PTL DEF Spec

(* A host port is never forwarded into two slots at once, for any number of   *)
(* VMs, slots and ports, though a failed create and a destroy give ports back *)
(* while their rows and network are still there: the table's key turns away   *)
(* a port still on record.  While the store and the network do as asked; and  *)
(* a forward is withdrawn only with no crash or dropped request to cut it     *)
(* short, which would leave the port steered and off the record, and free to  *)
(* be given out again when the daemon next starts.                            *)
THEOREM ForwardsExclusiveHolds ==
  ASSUME "store" \notin Faults, "apply" \notin Faults, "netdown" \notin Faults,
         "forward" \notin Calls \/ (MaxCrashes = 0 /\ ~Cancels)
  PROVE  Spec => []ForwardsExclusive
BY DeclaredApart, WithdrawingApart

=============================================================================
