---------------------------- MODULE ControlPlane ----------------------------
(***************************************************************************)
(* The host control plane (iso-control-plane/src/control.rs): the VM       *)
(* lifecycle over the store, the slot and port allocators, and the storage,*)
(* network and VMM components it drives, with the daemon's crashes, its    *)
(* recovery, its supervisor, and requests dropped in the middle.           *)
(*                                                                         *)
(* Every operation on a VM holds that VM's lock, so a VM has at most one   *)
(* task; task[v] is the handler in progress and its local variables.  A    *)
(* step of a task is one call to a component, one store transaction, or    *)
(* one pass under an allocator's lock; anything else may run in between.   *)
(***************************************************************************)
EXTENDS Rotation, FiniteSets

CONSTANTS
  VmIds,        \* ids of VMs
  NoVm,         \* no VM
  NPorts,       \* host ports in the forwarding range
  Durable,      \* VMs whose lifecycle is durable; the others are ephemeral
  Restarts,     \* VMs whose restart policy answers an unexpected exit
  Custom,       \* VMs with their own vcpus or memory: never resumed
  Calls,        \* API calls clients make
  Faults,       \* component calls that may fail
  Cancels,      \* whether a client may drop its request
  MaxForwards,  \* bound: forwards asked for by a create
  MaxCrashes    \* bound: times the daemon dies

ASSUME SetsAssumption ==
  /\ NoVm \notin VmIds
  /\ Durable \subseteq VmIds /\ Restarts \subseteq VmIds /\ Custom \subseteq VmIds
  /\ Cancels \in BOOLEAN
ASSUME BoundsAssumption ==
  NPorts \in Nat /\ MaxForwards \in Nat /\ MaxCrashes \in Nat

Slots == 0 .. Capacity - 1
NoSlot == -1
Ports == 0 .. NPorts - 1

VARIABLES
  vms,          \* store: the vms table, one row per VM
  forwards,     \* store: the port_forwards table, pairs <<vm, host port>>
  savedCursor,  \* store: where the slot rotation stands
  used,         \* slot allocator: bitmap
  cursor,       \* slot allocator: rotation
  portUsed,     \* port allocator
  portCursor,   \* port allocator: rotation
  task,         \* the operation holding each VM's lock
  vmm,          \* host: each VM's VMM process
  net,          \* host: what each slot's network is set up for
  vol,          \* host: VMs with a root volume
  snapFile,     \* host: each VM's own snapshot files against its disk
  phase,        \* the daemon: down, recovering, up, or failed to start
  todo,         \* VMs recovery has yet to look at
  suspect,      \* VM the supervisor saw exited, without its lock
  crashes       \* times the daemon has died

db == <<vms, forwards, savedCursor>>
slotVars == <<used, cursor>>
portVars == <<portUsed, portCursor>>
host == <<vmm, net, vol, snapFile>>
daemon == <<todo, suspect, crashes>>
vars == <<db, slotVars, portVars, task, host, phase, daemon>>

States == {"none", "creating", "running", "suspended", "stopped"}
Row == [state : States, slot : Slots \cup {NoSlot}, dev : BOOLEAN, snap : BOOLEAN]
NoRow == [state |-> "none", slot |-> NoSlot, dev |-> FALSE, snap |-> FALSE]

(* What runs a task: an API call, the supervisor or recovery ("exit",  *)
(* "restart" and then "rerun", "abandon").                             *)
ApiJobs == {"create", "start", "stop", "suspend", "destroy", "terminate",
            "retire", "forward"}
Jobs == ApiJobs \cup {"none", "exit", "restart", "rerun", "abandon"}

BringUpPcs == {"provision", "apply", "boot", "go", "saveRunning"}
Pcs == BringUpPcs \cup
       {"idle", "alloc", "insert", "rows", "place", "saveCreating", "resume",
        "retire", "stop", "suspend", "saveSuspended", "unport", "vmm", "net",
        "save", "ports", "volume", "delete", "free", "declare", "steer",
        "withdraw"}

(* slot: the slot the task answers for.  ports: the record's forwards as *)
(* read or allocated by the task.  want: forwards still to allocate.     *)
(* keep: the record stays, stopped, when its placement is let go.        *)
Task == [job : Jobs, pc : Pcs, slot : Slots \cup {NoSlot}, ports : SUBSET Ports,
         want : 0 .. MaxForwards, keep : BOOLEAN]
Idle == [job |-> "none", pc |-> "idle", slot |-> NoSlot, ports |-> {},
         want |-> 0, keep |-> FALSE]

Vmm == [status : {"absent", "created", "running", "paused", "exited"},
        slot : Slots \cup {NoSlot}, stale : BOOLEAN]
NoVmm == [status |-> "absent", slot |-> NoSlot, stale |-> FALSE]
Net == [vm : VmIds \cup {NoVm}, ports : SUBSET Ports]
NoNet == [vm |-> NoVm, ports |-> {}]

TypeOK ==
  /\ vms \in [VmIds -> Row]
  /\ forwards \subseteq VmIds \X Ports
  /\ savedCursor \in Slots \cup {NoSlot}
  /\ used \subseteq Slots /\ cursor \in Slots
  /\ portUsed \subseteq Ports /\ portCursor \in Ports \cup {0}
  /\ task \in [VmIds -> Task]
  /\ vmm \in [VmIds -> Vmm]
  /\ net \in [Slots -> Net]
  /\ vol \subseteq VmIds
  /\ snapFile \in [VmIds -> {"none", "fresh", "stale"}]
  /\ phase \in {"down", "recovering", "up", "failed"}
  /\ todo \subseteq VmIds
  /\ suspect \in VmIds \cup {NoVm}
  /\ crashes \in 0 .. MaxCrashes

-----------------------------------------------------------------------------
May(call) == call \in Faults

At(v, pc) == task[v].pc = pc

HostPorts(v) == {p \in Ports : <<v, p>> \in forwards}

(* The VMM process is there.  Its opposite is exited(status): stopped or *)
(* absent, whatever its API says otherwise.                              *)
Live(v) == vmm[v].status \in {"created", "running", "paused"}
Exited(v) == ~Live(v)

(* How a step of a task ends: the next call, done, or an error returned.  *)
(* An error while recovering ends the daemon (recover propagates it).     *)
Continue(v, pc) ==
  /\ task' = [task EXCEPT ![v].pc = pc]
  /\ UNCHANGED phase
Finish(v) ==
  /\ task' = [task EXCEPT ![v] = Idle]
  /\ UNCHANGED phase
Fail(v) ==
  /\ task' = [task EXCEPT ![v] = Idle]
  /\ phase' = IF phase = "recovering" THEN "failed" ELSE phase

(* A task takes the VM's lock with the record's slot and forwards read. *)
Begin(v, job, pc, keep) ==
  task' = [task EXCEPT ![v] =
    [job |-> job, pc |-> pc, slot |-> vms[v].slot, ports |-> HostPorts(v),
     want |-> 0, keep |-> keep]]

(* An API call that finds the record; unknown VMs change nothing. *)
Request(v, call) ==
  /\ call \in Calls
  /\ phase = "up"
  /\ At(v, "idle")
  /\ vms[v].state # "none"
  /\ UNCHANGED <<db, slotVars, portVars, host, phase, daemon>>

-----------------------------------------------------------------------------
(* create_vm.  A new id, or an id no record has. *)
TakeSlot(s) ==
  /\ IsNext(Capacity, used, cursor, s)
  /\ used' = used \cup {s}
  /\ cursor' = CursorAfter(Capacity, s)
  /\ savedCursor' \in {cursor'} \cup (IF May("store") THEN {savedCursor} ELSE {})

CreateVm(v, n) ==
  /\ "create" \in Calls
  /\ phase = "up"
  /\ At(v, "idle")
  /\ vms[v].state = "none"
  /\ \E s \in Slots :
       /\ TakeSlot(s)
       /\ task' = [task EXCEPT ![v] =
            [job |-> "create", pc |-> "alloc", slot |-> s, ports |-> {},
             want |-> n, keep |-> FALSE]]
  /\ UNCHANGED <<vms, forwards, portVars, host, phase, daemon>>

(* One host port per forward asked for; none left gives back all of them *)
(* and the slot.                                                         *)
AllocatePort(v) ==
  /\ At(v, "alloc")
  /\ \/ /\ task[v].want = 0
        /\ Continue(v, "insert")
        /\ UNCHANGED <<slotVars, portVars>>
     \/ /\ task[v].want > 0
        /\ \E p \in Ports :
             /\ IsNext(NPorts, portUsed, portCursor, p)
             /\ portUsed' = portUsed \cup {p}
             /\ portCursor' = CursorAfter(NPorts, p)
             /\ task' = [task EXCEPT ![v].ports = @ \cup {p}, ![v].want = @ - 1]
        /\ UNCHANGED <<slotVars, phase>>
     \/ /\ task[v].want > 0
        /\ Ports \subseteq portUsed
        /\ portUsed' = portUsed \ task[v].ports
        /\ used' = used \ {task[v].slot}
        /\ Fail(v)
        /\ UNCHANGED <<cursor, portCursor>>
  /\ UNCHANGED <<db, host, daemon>>

(* The write-ahead record.  An error here returns at once. *)
InsertVm(v) ==
  /\ At(v, "insert")
  /\ \/ /\ vms' = [vms EXCEPT ![v] =
             [state |-> "creating", slot |-> task[v].slot, dev |-> FALSE, snap |-> FALSE]]
        /\ Continue(v, "rows")
     \/ May("store") /\ UNCHANGED vms /\ Fail(v)
  /\ UNCHANGED <<forwards, savedCursor, slotVars, portVars, host, daemon>>

(* The primary key of port_forwards: another row has the port. *)
Collides(v, p) == \E w \in VmIds \ {v} : <<w, p>> \in forwards

InsertForward(v) ==
  /\ At(v, "rows")
  /\ \/ /\ task[v].ports \subseteq HostPorts(v)
        /\ Continue(v, "provision")
        /\ UNCHANGED forwards
     \/ \E p \in task[v].ports \ HostPorts(v) :
          \/ /\ ~Collides(v, p)
             /\ forwards' = forwards \cup {<<v, p>>}
             /\ UNCHANGED <<task, phase>>
          \/ /\ Collides(v, p) \/ May("store")
             /\ Continue(v, "unport")
             /\ UNCHANGED forwards
  /\ UNCHANGED <<vms, savedCursor, slotVars, portVars, host, daemon>>

-----------------------------------------------------------------------------
(* bring_up, for a create and for a start: storage, network, VMM. *)
BringUpFailed(v) ==
  IF task[v].job = "create" THEN Continue(v, "unport") ELSE Continue(v, "vmm")

Provision(v) ==
  /\ At(v, "provision")
  /\ \/ vol' = vol \cup {v} /\ Continue(v, "apply")
     \/ May("provision") /\ UNCHANGED vol /\ BringUpFailed(v)
  /\ UNCHANGED <<db, slotVars, portVars, vmm, net, snapFile, daemon>>

(* A failed apply may have set up part of the slot's network. *)
ApplyNetwork(v) ==
  LET applied == [net EXCEPT ![task[v].slot] = [vm |-> v, ports |-> task[v].ports]] IN
  /\ At(v, "apply")
  /\ \/ net' = applied /\ Continue(v, "boot")
     \/ May("apply") /\ net' \in {net, applied} /\ BringUpFailed(v)
  /\ UNCHANGED <<db, slotVars, portVars, vmm, vol, snapFile, daemon>>

(* The VM's own snapshot wins, unless its machine shape is its own. *)
ResumesOwn(v) == vms[v].snap /\ v \notin Custom

(* runtime.create: a failed one may leave a process behind. *)
CreateVmm(v) ==
  LET spawned == [status |-> "created", slot |-> task[v].slot,
                  stale |-> ResumesOwn(v) /\ snapFile[v] = "stale"] IN
  /\ At(v, "boot")
  /\ \/ /\ ResumesOwn(v) => snapFile[v] # "none"
        /\ vmm' = [vmm EXCEPT ![v] = spawned]
        /\ Continue(v, "go")
     \/ /\ May("boot") \/ (ResumesOwn(v) /\ snapFile[v] = "none")
        /\ vmm' \in {vmm, [vmm EXCEPT ![v] = spawned]}
        /\ BringUpFailed(v)
  /\ UNCHANGED <<db, slotVars, portVars, net, vol, snapFile, daemon>>

StartVmm(v) ==
  /\ At(v, "go")
  /\ \/ /\ Live(v)
        /\ vmm' = [vmm EXCEPT ![v].status = "running"]
        /\ Continue(v, "saveRunning")
     \/ /\ Exited(v) \/ May("boot")
        /\ BringUpFailed(v)
        /\ UNCHANGED vmm
  /\ UNCHANGED <<db, slotVars, portVars, net, vol, snapFile, daemon>>

SaveRunning(v) ==
  /\ At(v, "saveRunning")
  /\ \/ /\ vms' = [vms EXCEPT ![v].state = "running", ![v].dev = TRUE]
        /\ IF task[v].job = "retire" THEN Continue(v, "retire") ELSE Finish(v)
     \/ May("store") /\ UNCHANGED vms /\ Fail(v)
  /\ UNCHANGED <<forwards, savedCursor, slotVars, portVars, host, daemon>>

-----------------------------------------------------------------------------
(* start_vm: resume a suspended VM in place, re-place a stopped one. *)
StartVm(v) ==
  /\ Request(v, "start")
  /\ \/ vms[v].state = "suspended" /\ Begin(v, "start", "resume", TRUE)
     \/ vms[v].state = "stopped" /\ Begin(v, "start", "place", TRUE)

(* runtime.start on a paused VMM; any other answers with an error. *)
ResumeVmm(v) ==
  /\ At(v, "resume")
  /\ \/ /\ vmm[v].status = "paused"
        /\ vmm' = [vmm EXCEPT ![v].status = "running"]
        /\ Continue(v, "saveRunning")
     \/ /\ vmm[v].status # "paused" \/ May("boot")
        /\ Fail(v)
        /\ UNCHANGED vmm
  /\ UNCHANGED <<db, slotVars, portVars, net, vol, snapFile, daemon>>

(* start_vm_locked on a stopped record: a new slot, or none left. *)
Place(v) ==
  /\ At(v, "place")
  /\ \/ \E s \in Slots :
          /\ TakeSlot(s)
          /\ task' = [task EXCEPT ![v].pc = "saveCreating", ![v].slot = s,
                       ![v].job = IF @ = "restart" THEN "rerun" ELSE @]
          /\ UNCHANGED phase
     \/ /\ Slots \subseteq used
        /\ Fail(v)
        /\ UNCHANGED <<slotVars, savedCursor>>
  /\ UNCHANGED <<vms, forwards, portVars, host, daemon>>

SaveCreating(v) ==
  /\ At(v, "saveCreating")
  /\ \/ /\ vms' = [vms EXCEPT ![v].state = "creating", ![v].slot = task[v].slot]
        /\ Continue(v, "provision")
     \/ May("store") /\ UNCHANGED vms /\ Fail(v)
  /\ UNCHANGED <<forwards, savedCursor, slotVars, portVars, host, daemon>>

SuspendVm(v) ==
  /\ Request(v, "suspend")
  /\ vms[v].state = "running"
  /\ Begin(v, "suspend", "suspend", TRUE)

(* runtime.suspend pauses, then writes the files over the last ones.  A    *)
(* failed one may leave the guest paused or the files half replaced.       *)
Suspend(v) ==
  /\ At(v, "suspend")
  /\ \/ /\ vmm[v].status \in {"running", "paused"}
        /\ vmm' = [vmm EXCEPT ![v].status = "paused"]
        /\ snapFile' = [snapFile EXCEPT ![v] = "fresh"]
        /\ Continue(v, "saveSuspended")
     \/ /\ vmm[v].status \in {"running", "paused"} /\ May("suspend")
        /\ vmm' \in {vmm, [vmm EXCEPT ![v].status = "paused"]}
        /\ snapFile' \in {snapFile, [snapFile EXCEPT ![v] = "stale"]}
        /\ Fail(v)
     \/ /\ vmm[v].status \notin {"running", "paused"}
        /\ Fail(v)
        /\ UNCHANGED <<vmm, snapFile>>
  /\ UNCHANGED <<db, slotVars, portVars, net, vol, daemon>>

SaveSuspended(v) ==
  /\ At(v, "saveSuspended")
  /\ \/ /\ vms' = [vms EXCEPT ![v].state = "suspended", ![v].snap = TRUE]
        /\ Finish(v)
     \/ May("store") /\ UNCHANGED vms /\ Fail(v)
  /\ UNCHANGED <<forwards, savedCursor, slotVars, portVars, host, daemon>>

-----------------------------------------------------------------------------
(* Letting go of a VM's placement.  stop_vm and halt_vm end in finalize_stop, *)
(* which keeps a durable VM's record; destroy_vm keeps nothing; terminate_vm  *)
(* keeps the record without its snapshot.                                     *)
StopVm(v) ==
  /\ Request(v, "stop")
  /\ Begin(v, "stop", "stop", v \in Durable)

(* Mutants of HaltVm: a VMM left alive; a durable VM taken for ephemeral. *)
HaltVmSkipsVmm(v) ==
  /\ Request(v, "halt")
  /\ Begin(v, "stop", "net", v \in Durable)
HaltVmDiscards(v) ==
  /\ Request(v, "halt")
  /\ Begin(v, "stop", "vmm", FALSE)

HaltVm(v) ==
  /\ Request(v, "halt")
  /\ Begin(v, "stop", "vmm", v \in Durable)

DestroyVm(v) ==
  /\ Request(v, "destroy")
  /\ Begin(v, "destroy", "vmm", FALSE)

TerminateVm(v) ==
  /\ Request(v, "terminate")
  /\ v \in Durable
  /\ Begin(v, "terminate", "vmm", TRUE)

RetireSuspension(v) ==
  /\ Request(v, "retire")
  /\ v \in Durable
  /\ vms[v].state = "suspended"
  /\ Begin(v, "retire", "resume", TRUE)

(* runtime.stop, then wait for the exit and kill what is left. *)
StopVmm(v) ==
  /\ At(v, "stop")
  /\ \/ /\ Live(v)
        /\ vmm' = [vmm EXCEPT ![v].status = "exited"]
        /\ Continue(v, "vmm")
     \/ /\ Exited(v) \/ May("stop")
        /\ Fail(v)
        /\ UNCHANGED vmm
  /\ UNCHANGED <<db, slotVars, portVars, net, vol, snapFile, daemon>>

(* retire_suspension: a clean exit goes on to terminate; one that is not *)
(* confirmed in time is left as it is.                                   *)
RetireVmm(v) ==
  /\ At(v, "retire")
  /\ \/ /\ Live(v)
        /\ vmm' = [vmm EXCEPT ![v].status = "exited"]
        /\ task' = [task EXCEPT ![v].job = "terminate", ![v].pc = "vmm"]
        /\ UNCHANGED phase
     \/ Fail(v) /\ UNCHANGED vmm
  /\ UNCHANGED <<db, slotVars, portVars, net, vol, snapFile, daemon>>

(* A failed create gives its ports back first, then rolls back. *)
UnallocatePorts(v) ==
  /\ At(v, "unport")
  /\ portUsed' = portUsed \ task[v].ports
  /\ Continue(v, "vmm")
  /\ UNCHANGED <<db, slotVars, portCursor, host, daemon>>

(* runtime.halt with release or destroy: the VMM goes, and unless the VM is *)
(* kept its snapshot files with it.  terminate checks that the files went.  *)
TearDownVmm(v) ==
  LET discards == ~task[v].keep \/ task[v].job = "terminate" IN
  /\ At(v, "vmm")
  /\ vmm' = [vmm EXCEPT ![v] = NoVmm]
  /\ \/ /\ snapFile' = IF discards THEN [snapFile EXCEPT ![v] = "none"] ELSE snapFile
        /\ Continue(v, "net")
     \/ /\ task[v].job = "terminate" /\ May("unlink")
        /\ vms[v].snap /\ snapFile[v] # "none"
        /\ Fail(v)
        /\ UNCHANGED snapFile
  /\ UNCHANGED <<db, slotVars, portVars, net, vol, daemon>>

(* net.teardown of the record's slot, if it has one.  Only terminate minds *)
(* an error.                                                               *)
TearDownNet(v) ==
  LET s == task[v].slot
      torn == IF s = NoSlot THEN net ELSE [net EXCEPT ![s] = NoNet]
      next == IF task[v].keep THEN "save"
              ELSE IF task[v].job = "create" THEN "volume" ELSE "ports" IN
  /\ At(v, "net")
  /\ \/ net' = torn /\ Continue(v, next)
     \/ /\ s # NoSlot /\ May("netdown")
        /\ net' \in {net, torn}
        /\ IF task[v].job = "terminate" THEN Fail(v) ELSE Continue(v, next)
  /\ UNCHANGED <<db, slotVars, portVars, vmm, vol, snapFile, daemon>>

(* Mutants of FreePorts: the volume forgotten; the ports forgotten. *)
FreePortsThenDelete(v) ==
  /\ At(v, "ports")
  /\ portUsed' = portUsed \ task[v].ports
  /\ Continue(v, "delete")
  /\ UNCHANGED <<db, slotVars, portCursor, host, daemon>>
FreeNoPorts(v) ==
  /\ At(v, "ports")
  /\ Continue(v, "volume")
  /\ UNCHANGED <<db, slotVars, portVars, host, daemon>>

FreePorts(v) ==
  /\ At(v, "ports")
  /\ portUsed' = portUsed \ task[v].ports
  /\ Continue(v, "volume")
  /\ UNCHANGED <<db, slotVars, portCursor, host, daemon>>

TearDownVolume(v) ==
  /\ At(v, "volume")
  /\ vol' \in {vol \ {v}} \cup (IF May("voldown") THEN {vol} ELSE {})
  /\ Continue(v, "delete")
  /\ UNCHANGED <<db, slotVars, portVars, vmm, net, snapFile, daemon>>

(* With the placement gone: a restart goes on to place the VM again; a *)
(* create or start that got here failed.                               *)
LetGo(v) ==
  CASE task[v].job = "restart" ->
         /\ task' = [task EXCEPT ![v].pc = "place", ![v].slot = NoSlot]
         /\ UNCHANGED phase
    [] task[v].job \in {"create", "start", "rerun"} -> Fail(v)
    [] OTHER -> Finish(v)

(* Mutant of AfterSave: the slot is never freed. *)
AfterSaveKeepsSlot(v) == LetGo(v)

(* The record lets go of the slot before the slot is free. *)
AfterSave(v) ==
  IF task[v].slot = NoSlot THEN LetGo(v) ELSE Continue(v, "free")

DeleteVm(v) ==
  /\ At(v, "delete")
  /\ \/ /\ vms' = [vms EXCEPT ![v] = NoRow]
        /\ forwards' = {f \in forwards : f[1] # v}
        /\ AfterSave(v)
     \/ May("store") /\ UNCHANGED <<vms, forwards>> /\ Fail(v)
  /\ UNCHANGED <<savedCursor, slotVars, portVars, host, daemon>>

(* Mutant of SaveStopped: the slot is freed though the record kept it. *)
SaveStoppedUnchecked(v) ==
  /\ At(v, "save")
  /\ \/ vms' = [vms EXCEPT ![v].state = "stopped", ![v].slot = NoSlot,
                  ![v].snap = @ /\ task[v].job # "terminate"]
     \/ May("store") /\ UNCHANGED vms
  /\ AfterSave(v)
  /\ UNCHANGED <<forwards, savedCursor, slotVars, portVars, host, daemon>>

SaveStopped(v) ==
  /\ At(v, "save")
  /\ \/ /\ vms' = [vms EXCEPT ![v].state = "stopped", ![v].slot = NoSlot,
                     ![v].snap = @ /\ task[v].job # "terminate"]
        /\ AfterSave(v)
     \/ May("store") /\ UNCHANGED vms /\ Fail(v)
  /\ UNCHANGED <<forwards, savedCursor, slotVars, portVars, host, daemon>>

FreeSlot(v) ==
  /\ At(v, "free")
  /\ used' = used \ {task[v].slot}
  /\ LetGo(v)
  /\ UNCHANGED <<db, cursor, portVars, host, daemon>>

-----------------------------------------------------------------------------
(* Forwards at run time: declare in the store, then steer the network. *)
Forwarding(p, pc) ==
  [job |-> "forward", pc |-> pc, slot |-> NoSlot, ports |-> {p}, want |-> 0, keep |-> FALSE]

AddForward(v) ==
  /\ "forward" \in Calls
  /\ phase = "up"
  /\ At(v, "idle")
  /\ vms[v].state # "none"
  /\ \E p \in Ports :
       /\ IsNext(NPorts, portUsed, portCursor, p)
       /\ portUsed' = portUsed \cup {p}
       /\ portCursor' = CursorAfter(NPorts, p)
       /\ task' = [task EXCEPT ![v] = Forwarding(p, "declare")]
  /\ UNCHANGED <<db, slotVars, host, phase, daemon>>

DeclareForward(v) ==
  /\ At(v, "declare")
  /\ \E p \in task[v].ports :
       \/ /\ ~Collides(v, p)
          /\ forwards' = forwards \cup {<<v, p>>}
          /\ Continue(v, "steer")
          /\ UNCHANGED portUsed
       \/ /\ Collides(v, p) \/ May("store")
          /\ portUsed' = portUsed \ {p}
          /\ Fail(v)
          /\ UNCHANGED forwards
  /\ UNCHANGED <<vms, savedCursor, slotVars, portCursor, host, daemon>>

(* apply_network: the forwards on record, onto the slot on record if any. *)
Steered(v) ==
  IF vms[v].slot = NoSlot THEN net
  ELSE [net EXCEPT ![vms[v].slot].ports = HostPorts(v)]

(* It fails on reading the record, or having steered the host's table and *)
(* not the slot's own (reapply).                                          *)
SteerFails(v) ==
  \/ May("store") /\ UNCHANGED net
  \/ vms[v].slot # NoSlot /\ May("apply") /\ net' \in {net, Steered(v)}

(* A forward the network rejects is retracted, the row as far as the store *)
(* lets it.                                                                *)
SteerForward(v) ==
  /\ At(v, "steer")
  /\ \/ /\ net' = Steered(v)
        /\ Finish(v)
        /\ UNCHANGED <<forwards, portUsed>>
     \/ /\ SteerFails(v)
        /\ forwards' \in {forwards \ ({v} \X task[v].ports)} \cup
                          (IF May("store") THEN {forwards} ELSE {})
        /\ portUsed' = portUsed \ task[v].ports
        /\ Fail(v)
  /\ UNCHANGED <<vms, savedCursor, slotVars, portCursor, vmm, vol, snapFile, daemon>>

(* Mutant of RemoveForward: the port goes back while still steered. *)
RemoveForwardFreesFirst(v, p) ==
  /\ "forward" \in Calls
  /\ phase = "up"
  /\ At(v, "idle")
  /\ <<v, p>> \in forwards
  /\ forwards' = forwards \ {<<v, p>>}
  /\ portUsed' = portUsed \ {p}
  /\ task' = [task EXCEPT ![v] = Forwarding(p, "withdraw")]
  /\ UNCHANGED <<vms, savedCursor, slotVars, portCursor, host, phase, daemon>>

RemoveForward(v, p) ==
  /\ "forward" \in Calls
  /\ phase = "up"
  /\ At(v, "idle")
  /\ <<v, p>> \in forwards
  /\ forwards' = forwards \ {<<v, p>>}
  /\ task' = [task EXCEPT ![v] = Forwarding(p, "withdraw")]
  /\ UNCHANGED <<vms, savedCursor, slotVars, portVars, host, phase, daemon>>

(* A port whose withdrawal failed stays taken. *)
WithdrawForward(v) ==
  /\ At(v, "withdraw")
  /\ \/ /\ net' = Steered(v)
        /\ portUsed' = portUsed \ task[v].ports
        /\ Finish(v)
     \/ /\ SteerFails(v)
        /\ Fail(v)
        /\ UNCHANGED portUsed
  /\ UNCHANGED <<db, slotVars, portCursor, vmm, vol, snapFile, daemon>>

-----------------------------------------------------------------------------
(* What runs beside the handlers. *)

(* A guest shuts down or its VMM dies. *)
VmmExit(v) ==
  /\ Live(v)
  /\ vmm' = [vmm EXCEPT ![v].status = "exited"]
  /\ UNCHANGED <<db, slotVars, portVars, task, net, vol, snapFile, phase, daemon>>

(* A running guest writes its disk, which leaves its snapshot behind. *)
GuestWrites(v) ==
  /\ vmm[v].status = "running"
  /\ snapFile[v] = "fresh"
  /\ snapFile' = [snapFile EXCEPT ![v] = "stale"]
  /\ UNCHANGED <<db, slotVars, portVars, task, vmm, net, vol, phase, daemon>>

(* Mutant of NotAwaiting: a handler that awaits between any two steps. *)
AwaitsEverywhere == {"idle"}

(* The client goes away: its handler is dropped where it awaits.  These are *)
(* the points a handler reaches without having awaited since the last one.  *)
NotAwaiting == {"idle", "alloc", "insert", "rows", "place", "saveCreating",
                "unport", "free", "declare"}

Cancel(v) ==
  /\ Cancels
  /\ task[v].job \in ApiJobs
  /\ task[v].pc \notin NotAwaiting
  /\ task' = [task EXCEPT ![v] = Idle]
  /\ UNCHANGED <<db, slotVars, portVars, host, phase, daemon>>

(* Mutant of HandleExit: the slot is let go with its network still up. *)
HandleExitKeepsNet(v) ==
  IF v \in Restarts THEN Begin(v, "restart", "save", TRUE)
  ELSE Begin(v, "exit", "save", v \in Durable)

(* handle_exit_locked: restart per policy, else finalize per lifecycle. *)
HandleExit(v) ==
  IF v \in Restarts THEN Begin(v, "restart", "net", TRUE)
  ELSE Begin(v, "exit", "vmm", v \in Durable)

(* supervise_tick finds a running record's VMM exited, without its lock: by *)
(* the time it has the lock, the record and the VMM may be anything.        *)
Probe(v) ==
  /\ phase = "up"
  /\ suspect = NoVm
  /\ vms[v].state = "running"
  /\ Exited(v)
  /\ suspect' = v
  /\ UNCHANGED <<db, slotVars, portVars, task, host, phase, todo, crashes>>

(* Mutants of Reap: acting on what was seen without the lock; doing nothing. *)
ReapAtOnce(v) ==
  /\ phase = "up"
  /\ suspect = v
  /\ At(v, "idle")
  /\ suspect' = NoVm
  /\ IF vms[v].state = "running" THEN HandleExit(v) ELSE UNCHANGED task
  /\ UNCHANGED <<db, slotVars, portVars, host, phase, todo, crashes>>
ReapNever(v) ==
  /\ phase = "up"
  /\ suspect = v
  /\ At(v, "idle")
  /\ suspect' = NoVm
  /\ UNCHANGED <<db, slotVars, portVars, task, host, phase, todo, crashes>>

(* reap: look again under the lock. *)
Reap(v) ==
  /\ phase = "up"
  /\ suspect = v
  /\ At(v, "idle")
  /\ suspect' = NoVm
  /\ IF vms[v].state = "running" /\ Exited(v) THEN HandleExit(v) ELSE UNCHANGED task
  /\ UNCHANGED <<db, slotVars, portVars, host, phase, todo, crashes>>

-----------------------------------------------------------------------------
(* The daemon's own life.  What it held in memory goes with it; VMMs, the *)
(* network, volumes and files stay, unless the whole host went down.      *)
Forget ==
  /\ used' = {} /\ cursor' = 0
  /\ portUsed' = {} /\ portCursor' = 0
  /\ task' = [v \in VmIds |-> Idle]
  /\ phase' = "down"
  /\ todo' = {}
  /\ suspect' = NoVm
  /\ UNCHANGED db

Crash ==
  /\ phase \in {"recovering", "up"}
  /\ crashes < MaxCrashes
  /\ crashes' = crashes + 1
  /\ Forget
  /\ \/ UNCHANGED host
     \/ /\ vmm' = [v \in VmIds |-> NoVmm]
        /\ net' = [s \in Slots |-> NoNet]
        /\ UNCHANGED <<vol, snapFile>>

(* start returned recover's error. *)
GiveUp ==
  /\ phase = "failed"
  /\ Forget
  /\ UNCHANGED <<host, crashes>>

Records == {v \in VmIds : vms[v].state # "none"}

(* Mutant of Claimed: only running VMs' slots are taken on a restart. *)
ClaimedRunning == {vms[v].slot : v \in {w \in VmIds : vms[w].state = "running"}} \ {NoSlot}

Claimed == {vms[v].slot : v \in VmIds} \ {NoSlot}

(* recover, first half: every slot and port on record is taken before any *)
(* VM is acted on, and the rotation goes on from where it stood.          *)
Boot ==
  /\ phase = "down"
  /\ phase' = "recovering"
  /\ used' = Claimed
  /\ cursor' \in Slots
  /\ \/ savedCursor # NoSlot /\ cursor' = ResumeAt(Capacity, savedCursor)
     \/ savedCursor = NoSlot /\ Claimed = {} /\ cursor' = 0
     \/ /\ savedCursor = NoSlot
        /\ \E highest \in Claimed :
             /\ \A s \in Claimed : s <= highest
             /\ cursor' = CursorAfter(Capacity, highest)
  /\ portUsed' = {p \in Ports : \E v \in VmIds : <<v, p>> \in forwards}
  /\ todo' = Records
  /\ UNCHANGED <<db, portCursor, task, host, suspect, crashes>>

(* Mutants of Abandon: a VMM left alive; a disk that had been up discarded; *)
(* nothing done.                                                            *)
AbandonSkipsVmm(v) == Begin(v, "abandon", "net", v \in Durable /\ vms[v].dev)
AbandonDiscards(v) == Begin(v, "abandon", "vmm", FALSE)
AbandonNothing(v) == UNCHANGED task

(* abandon: undo a create or start cut short; a durable VM that has been up *)
(* keeps its record and disk.                                               *)
Abandon(v) == Begin(v, "abandon", "vmm", v \in Durable /\ vms[v].dev)

(* recover, second half, one record at a time. *)
RecoverVm(v) ==
  /\ phase = "recovering"
  /\ v \in todo
  /\ \A w \in VmIds : At(w, "idle")
  /\ todo' = todo \ {v}
  /\ CASE vms[v].state = "running" /\ Exited(v) -> HandleExit(v)
       [] vms[v].state = "creating" -> Abandon(v)
       [] OTHER -> UNCHANGED task
  /\ UNCHANGED <<db, slotVars, portVars, host, phase, suspect, crashes>>

Serve ==
  /\ phase = "recovering"
  /\ todo = {}
  /\ \A v \in VmIds : At(v, "idle")
  /\ phase' = "up"
  /\ UNCHANGED <<db, slotVars, portVars, task, host, daemon>>

-----------------------------------------------------------------------------
(* A host with nothing on it, and a daemon about to start. *)
Init ==
  /\ vms = [v \in VmIds |-> NoRow]
  /\ forwards = {}
  /\ savedCursor = NoSlot
  /\ used = {} /\ cursor = 0
  /\ portUsed = {} /\ portCursor = 0
  /\ task = [v \in VmIds |-> Idle]
  /\ vmm = [v \in VmIds |-> NoVmm]
  /\ net = [s \in Slots |-> NoNet]
  /\ vol = {}
  /\ snapFile = [v \in VmIds |-> "none"]
  /\ phase = "down"
  /\ todo = {}
  /\ suspect = NoVm
  /\ crashes = 0

Call(v) ==
  \/ \E n \in 0 .. MaxForwards : CreateVm(v, n)
  \/ StartVm(v) \/ SuspendVm(v) \/ StopVm(v) \/ HaltVm(v)
  \/ DestroyVm(v) \/ TerminateVm(v) \/ RetireSuspension(v)
  \/ AddForward(v)
  \/ \E p \in Ports : RemoveForward(v, p)

Step(v) ==
  \/ AllocatePort(v) \/ InsertVm(v) \/ InsertForward(v)
  \/ Provision(v) \/ ApplyNetwork(v) \/ CreateVmm(v) \/ StartVmm(v) \/ SaveRunning(v)
  \/ ResumeVmm(v) \/ Place(v) \/ SaveCreating(v)
  \/ Suspend(v) \/ SaveSuspended(v)
  \/ StopVmm(v) \/ RetireVmm(v)
  \/ UnallocatePorts(v) \/ TearDownVmm(v) \/ TearDownNet(v) \/ FreePorts(v)
  \/ TearDownVolume(v) \/ DeleteVm(v) \/ SaveStopped(v) \/ FreeSlot(v)
  \/ DeclareForward(v) \/ SteerForward(v) \/ WithdrawForward(v)

Next ==
  \/ \E v \in VmIds : Call(v)
  \/ \E v \in VmIds : Step(v)
  \/ \E v \in VmIds : VmmExit(v) \/ GuestWrites(v) \/ Cancel(v)
  \/ \E v \in VmIds : Probe(v) \/ Reap(v) \/ RecoverVm(v)
  \/ Crash \/ GiveUp \/ Boot \/ Serve

Spec == Init /\ [][Next]_vars

(* A handler goes on unless the daemon dies; a daemon that died is started *)
(* again (systemd); the supervisor reaches every VM each pass, and a VM's  *)
(* lock is handed out in order (tokio's Mutex is fair), so it gets it.     *)
Fairness ==
  /\ \A v \in VmIds :
       /\ WF_vars(Step(v))
       /\ SF_vars(Probe(v))
       /\ SF_vars(Reap(v))
       /\ WF_vars(RecoverVm(v))
  /\ WF_vars(Boot) /\ WF_vars(Serve) /\ WF_vars(GiveUp)

FairSpec == Spec /\ Fairness

-----------------------------------------------------------------------------
(* identify: a slot's address names the first record that holds the slot. *)
Identify(s) == {v \in VmIds : vms[v].slot = s}

(* No two records hold one slot: every allocation skips the slots any record *)
(* or handler answers for, and a slot is freed only once no record claims it *)
(* (free_slot), so identify has at most one answer.                          *)
SlotExclusive ==
  \A v, w \in VmIds : v # w /\ vms[v].slot # NoSlot => vms[v].slot # vms[w].slot

(* A guest is always taken for itself: while a VMM is alive in a slot's   *)
(* network, that slot identifies its VM and no other, through restarts,   *)
(* crashes and recovery, failed starts and requests dropped half way.     *)
GuestIdentified ==
  \A v \in VmIds : Live(v) => Identify(vmm[v].slot) = {v}

(* A slot's network is set up only for the VM whose record holds the slot; *)
(* a free slot has none of its last VM's (needs net.teardown to succeed).  *)
NetOfHolder ==
  \A s \in Slots : net[s].vm # NoVm => vms[net[s].vm].slot = s

(* A host port is never forwarded into two slots at once, though ports are *)
(* given back before the rows and, on a failed create, before the network. *)
ForwardsExclusive ==
  \A s, t \in Slots : s # t => net[s].ports \cap net[t].ports = {}

(* Whatever is on the host for a VM is on record: a VM without a row has no *)
(* VMM, network, volume or snapshot, at any moment of any handler.          *)
RecordCovers ==
  \A v \in VmIds : vms[v].state = "none" =>
    /\ Exited(v) /\ v \notin vol /\ snapFile[v] = "none"
    /\ \A s \in Slots : net[s].vm # v
    /\ HostPorts(v) = {}

(* Nothing is on the host off the record: no network in a slot its VM's     *)
(* record does not hold, and nothing at all of a VM without one (the order  *)
(* of create_vm, rollback, destroy_vm, finalize_stop and abandon).          *)
OnRecord == NetOfHolder /\ RecordCovers

(* The supervisor and recovery only ever finish off or replace a VMM that *)
(* is gone: an exit seen without the lock is looked at again under it.    *)
ReapsOnlyExited ==
  \A v \in VmIds : task[v].job \in {"exit", "restart"} => Exited(v)

(* Nothing leaks: with no operation in progress the slot allocator holds    *)
(* exactly the slots on record (while the store itself does not fail).      *)
Quiet == phase = "up" /\ \A v \in VmIds : At(v, "idle")

NoSlotLeak == Quiet => used = Claimed

(* And the port allocator exactly the host ports on record, though create's *)
(* error paths, destroy and remove_forward give ports back at three         *)
(* different points.                                                        *)
NoPortLeak == Quiet => portUsed = UNION {HostPorts(v) : v \in VmIds}

(* Neither a slot nor a port is lost to its allocator, by whichever path an *)
(* operation ended (free_slot, free_ports).                                 *)
NoLeak == NoSlotLeak /\ NoPortLeak

(* The disk of a durable VM that has been up goes only when its deletion *)
(* was asked for; not by recovery, the supervisor, a stop or a failed     *)
(* start.                                                                 *)
DiskKeptStep ==
  \A v \in Durable :
    (v \in vol /\ v \notin vol' /\ vms[v].dev) => task[v].job = "destroy"
DiskKept == [][DiskKeptStep]_vars

(* The supervisor's promise: a running record whose VMM is gone does not  *)
(* stay that way.                                                         *)
ExitHandled ==
  \A v \in VmIds :
    (vms[v].state = "running" /\ Exited(v)) ~> ~(vms[v].state = "running" /\ Exited(v))

(* A create or start that a crash cut short is undone: no record stays *)
(* creating (while the store does not fail and no request is dropped).    *)
CreatingResolved ==
  \A v \in VmIds : vms[v].state = "creating" ~> vms[v].state # "creating"

(* No record stays untrue: one that says running over a VMM that is gone is *)
(* dealt with, and one that says creating is resolved (supervise, recover). *)
RecordsSettle == ExitHandled /\ CreatingResolved

(* store.rs says of port_forwards that host ports are allocator-unique, so *)
(* the primary key cannot collide.  It can: every path that deletes a VM   *)
(* gives its ports back before its rows go.                                *)
ForwardKeyFree ==
  \A v \in VmIds : task[v].pc \in {"rows", "declare"} =>
    \A p \in task[v].ports : ~Collides(v, p)

(* A VM resumes memory that matches its disk: API.md has only a VM stopped *)
(* while suspended come back from its snapshot, any other boots.           *)
ResumeMatchesDisk ==
  \A v \in VmIds : Live(v) => ~vmm[v].stale

-----------------------------------------------------------------------------
(* Why slots stay exclusive.  A VM answers for the slot on its record and    *)
(* the slot its handler holds; where a handler stands tells which of the two *)
(* it is and whether the VMM may still be there.                             *)
Answers(v) == {vms[v].slot, task[v].slot} \ {NoSlot}

HandlerOK(v) ==
  LET rec == vms[v].slot  mine == task[v].slot  pc == task[v].pc IN
  /\ pc = "idle" => task[v] = Idle
  /\ pc \in {"alloc", "insert", "saveCreating", "free"} => rec = NoSlot /\ mine # NoSlot
  /\ pc = "place" => rec = NoSlot /\ mine = NoSlot
  /\ pc \in {"rows", "unport", "provision", "apply", "boot", "go"} =>
       rec = mine /\ mine # NoSlot
  /\ pc \in {"saveRunning", "resume", "retire", "stop", "suspend", "saveSuspended",
             "vmm", "net", "save", "ports", "volume", "delete"} => rec = mine
  /\ pc \in {"net", "save", "ports", "volume", "delete"} => Exited(v)
  /\ pc \in {"declare", "steer", "withdraw"} => mine = NoSlot

VmOK(v) ==
  /\ HandlerOK(v)
  /\ vms[v].state \in {"none", "stopped"} => vms[v].slot = NoSlot
  /\ Live(v) => vmm[v].slot = vms[v].slot /\ vms[v].slot # NoSlot

(* No two VMs answer for one slot, the allocator knows of every slot answered *)
(* for, and a live VMM sits in the slot on its VM's record: what every step   *)
(* of every handler, recovery and the supervisor keeps.                       *)
Placement ==
  /\ \A v, w \in VmIds : v # w => Answers(v) \cap Answers(w) = {}
  /\ phase # "down" => \A v \in VmIds : Answers(v) \subseteq used
  /\ phase = "down" => \A v \in VmIds : task[v] = Idle
  /\ \A v \in VmIds : VmOK(v)

(* The control plane leases slots: a record holding a slot is its lessee, a *)
(* live VMM its guest.                                                      *)
Holder ==
  [s \in Slots |-> IF Identify(s) = {} THEN NoVm ELSE CHOOSE v \in Identify(s) : TRUE]
Guests == [s \in Slots |-> {v \in VmIds : Live(v) /\ vmm[v].slot = s}]

Lease == INSTANCE SlotLease WITH holder <- Holder, guests <- Guests

(* Every run of the control plane is a run of the slot lease: a slot passes *)
(* from one VM to another only through a moment when no record holds it and *)
(* no guest is in it (free_slot's rule, and identify's reliance on it).     *)
LeasesSlots == Lease!Spec
=============================================================================
