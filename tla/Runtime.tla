------------------------------ MODULE Runtime ------------------------------
(***************************************************************************)
(* The Firecracker runtime (iso-firecracker): how one host's VMM processes *)
(* are spawned, recorded in pidfiles, found again by the next daemon,      *)
(* signalled, waited for and cleaned up after, and where the snapshot of a *)
(* suspended VM is kept.                                                   *)
(*                                                                         *)
(* Calls on one VM come one at a time, under the control plane's lock, in  *)
(* the order its records allow (phase); the supervisor's status call comes *)
(* without the lock, at any moment.  The kernel hands a free pid to any    *)
(* process, a VMM or a stranger; the daemon may crash between any two      *)
(* steps, VMMs outlive it, and the next one may run with the jailer turned *)
(* on or off, on a kernel with pidfds or without.  A snapshot is a pair of *)
(* files; its content is a number, 0 for the template's.                   *)
(***************************************************************************)
EXTENDS Naturals, Sequences, FiniteSets

CONSTANTS
  None,
  Vms,        \* the VMs of the host
  Pids,       \* process ids the kernel hands out
  Budgets     \* how many processes start, snapshots are taken and daemons crash
              \* in one behaviour: records of births, shots and crashes

VARIABLES
  up,       \* whether a daemon is running
  jailed,   \* whether its configuration runs VMMs under the jailer
  pidfds,   \* whether the kernel has pidfd_open
  proc,     \* the process behind each pid
  births,   \* processes started so far; the start time of the latest
  child,    \* children: the VMMs this daemon spawned and has not reaped
  pidfile,  \* the pidfile of each VM
  sock,     \* who bound the API socket of each VM, jailed and bare
  jail,     \* the jail directory of each VM, and its snapshot/out
  snap,     \* the snapshot in each VM's state directory
  shots,    \* snapshots taken so far
  phase,    \* what the control plane's record says of each VM
  kept,     \* whether that record names a snapshot of the VM's own
  dropped,  \* whether that snapshot's removal was asked for and is not recorded
  op,       \* the call in progress on each VM
  probe,    \* the supervisor's status call
  struck,   \* whether a signal reached a process that is not the VM's VMM
  crashes,
  budget

files == <<pidfile, sock, jail, snap, shots>>
record == <<phase, kept, dropped>>
host == <<up, jailed, pidfds, crashes, budget>>
vars == <<host, proc, births, child, files, record, op, probe, struck>>

Stranger == "stranger"
Fresh == "fresh"          \* a boot without a snapshot
Modes == {"jailed", "bare"}
Mode == IF jailed THEN "jailed" ELSE "bare"

(***************************************************************************)
(* Processes.                                                              *)
(***************************************************************************)
VmmBornEarly(v, mode) ==
  [vm |-> v, born |-> births, live |-> TRUE, api |-> "boot", mode |-> mode,
   ours |-> TRUE, known |-> FALSE, killed |-> FALSE]

Vmm(v, mode) ==
  [vm |-> v, born |-> births + 1, live |-> TRUE, api |-> "boot", mode |-> mode,
   ours |-> TRUE, known |-> FALSE, killed |-> FALSE]

IsVmm(p, v) == proc[p] # None /\ proc[p].vm = v

\* A live VMM that a daemon recorded and nobody has killed yet.
Runs(p, v) == IsVmm(p, v) /\ proc[p].live /\ proc[p].known /\ ~proc[p].killed

\* pidfile.rs start_time: none for a zombie.
StartTime(p) == IF proc[p] # None /\ proc[p].live THEN proc[p].born ELSE None

IsLiveThisMode(rec, v) ==
  /\ StartTime(rec.pid) # None
  /\ rec.start # None => rec.start = StartTime(rec.pid)
  /\ proc[rec.pid].vm = v /\ proc[rec.pid].mode = Mode

\* pidfile.rs is_live with names_vm: the process behind the recorded pid is
\* live, started when the pidfile says, and was launched for v.
IsLive(rec, v) ==
  /\ StartTime(rec.pid) # None
  /\ rec.start # None => rec.start = StartTime(rec.pid)
  /\ proc[rec.pid].vm = v

\* A child that exited stays a zombie until it is reaped, and kill(pid, 0)
\* finds it.
PidAlive(v) ==
  IF child[v] # None THEN proc[child[v]] # None
  ELSE pidfile[v] # None /\ IsLive(pidfile[v], v)

\* The VMM that answers on v's API socket, at the path the daemon's
\* configuration gives it.
Answers(v) == {p \in Pids : /\ IsVmm(p, v) /\ proc[p].live
                            /\ sock[v][Mode] = proc[p].born}

Exited(v) ==
  \/ child[v] # None /\ ~proc[child[v]].live
  \/ Answers(v) = {} /\ ~PidAlive(v)

Idle == [at |-> "idle", todo |-> <<>>, src |-> Fresh, keep |-> FALSE,
         pid |-> None, pin |-> 0, to |-> "idle"]
At(v, step) == up /\ op[v].at = step
Goto(v, step) == op' = [op EXCEPT ![v].at = step]
ToSave(v, to) == op' = [op EXCEPT ![v].at = "save", ![v].to = to, ![v].pid = None]

\* The steps left of a halt, release or destroy: kill, then wait for the exit.
Then(v, todo, keep) ==
  op' = [op EXCEPT ![v] = [Idle EXCEPT !.at = Head(todo), !.todo = Tail(todo), !.keep = keep]]
Next1(v) == op' = [op EXCEPT ![v].at = Head(op[v].todo), ![v].todo = Tail(op[v].todo),
                              ![v].pid = None, ![v].pin = 0]

UndoAny(v) == \E keep \in BOOLEAN : Then(v, <<"kill", "kill", "wait">>, keep)

\* control.rs: a failed bring_up halts the VMM, and releases what it used for a
\* VM that was there before, destroys it for a new one.
Undo(v) == \E keep \in BOOLEAN :
  (snap[v] = None \/ kept[v] => keep) /\ Then(v, <<"kill", "kill", "wait">>, keep)

Init ==
  /\ up = TRUE /\ jailed \in BOOLEAN /\ pidfds \in BOOLEAN /\ crashes = 0 /\ budget \in Budgets
  /\ proc = [p \in Pids |-> None] /\ births = 0
  /\ child = [v \in Vms |-> None]
  /\ pidfile = [v \in Vms |-> None]
  /\ sock = [v \in Vms |-> [m \in Modes |-> 0]]
  /\ jail = [v \in Vms |-> None]
  /\ snap = [v \in Vms |-> None]
  /\ shots = 0
  /\ phase = [v \in Vms |-> "idle"]
  /\ kept = [v \in Vms |-> FALSE] /\ dropped = [v \in Vms |-> FALSE]
  /\ op = [v \in Vms |-> Idle]
  /\ probe = [vm |-> None, at |-> "none", said |-> None]
  /\ struck = FALSE

(***************************************************************************)
(* create                                                                  *)
(***************************************************************************)
\* The record lets a VM be created when it has no VMM; it resumes from its
\* own snapshot if the record names one.
Create(v, src) ==
  /\ up /\ op[v] = Idle /\ phase[v] = "idle"
  /\ (src = "own") = kept[v]
  /\ phase' = [phase EXCEPT ![v] = "creating"]
  /\ op' = [op EXCEPT ![v] = [Idle EXCEPT !.at = IF jailed THEN "jail" ELSE "spawn", !.src = src]]
  /\ sock' = IF jailed THEN sock ELSE [sock EXCEPT ![v].bare = 0]
  /\ UNCHANGED <<host, proc, births, child, pidfile, jail, snap, shots, kept, dropped, probe, struck>>

\* spawn_jailed: the last jail goes, with the socket in it; a new one is made.
MakeJail(v) ==
  /\ At(v, "jail")
  /\ jail' = [jail EXCEPT ![v] = [out |-> None]]
  /\ sock' = [sock EXCEPT ![v].jailed = 0]
  /\ Goto(v, IF op[v].src = Fresh THEN "spawn" ELSE "link")
  /\ UNCHANGED <<host, proc, births, child, pidfile, snap, shots, record, probe, struck>>

Pair(mem, vmstate) == [mem |-> mem, vmstate |-> vmstate]
Source(v) == IF op[v].src = "own" THEN snap[v] ELSE Pair(0, 0)

\* materialize links the snapshot in, which must be there (module JailCache says
\* what the link takes).
Link(v) ==
  /\ At(v, "link") /\ Source(v) # None
  /\ Goto(v, "spawn")
  /\ UNCHANGED <<host, proc, births, child, files, record, probe, struck>>

\* The VMM runs, and no pidfile says so yet.
Spawn(v) ==
  /\ At(v, "spawn") /\ births < budget.births
  /\ \E p \in Pids :
       /\ proc[p] = None
       /\ proc' = [proc EXCEPT ![p] = Vmm(v, Mode)]
       /\ op' = [op EXCEPT ![v].at = "record", ![v].pid = p]
  /\ births' = births + 1
  /\ UNCHANGED <<host, child, files, record, probe, struck>>

\* pidfile.rs format: an exited VMM has no start time to write.
Format(p) == [pid |-> p, start |-> StartTime(p)]

OnlyRemember(v) ==
  /\ At(v, "record")
  /\ child' = [child EXCEPT ![v] = op[v].pid]
  /\ proc' = [proc EXCEPT ![op[v].pid].known = TRUE]
  /\ op' = [op EXCEPT ![v].at = "socket", ![v].pid = None]
  /\ UNCHANGED <<host, births, files, record, probe, struck>>

WritePidfile(v) ==
  /\ At(v, "record")
  /\ LET p == op[v].pid IN
       /\ pidfile' = [pidfile EXCEPT ![v] = Format(p)]
       /\ child' = [child EXCEPT ![v] = p]
       /\ proc' = [proc EXCEPT ![p].known = TRUE]
  /\ op' = [op EXCEPT ![v].at = "socket", ![v].pid = None]
  /\ UNCHANGED <<host, births, sock, jail, snap, shots, record, probe, struck>>

WaitSocket(v) ==
  /\ At(v, "socket") /\ Answers(v) # {}
  /\ Goto(v, IF op[v].src = Fresh THEN "config" ELSE "load")
  /\ UNCHANGED <<host, proc, births, child, files, record, probe, struck>>

\* /snapshot/load, from the jail's link or the named files.
Load(v) ==
  /\ At(v, "load") /\ Source(v) # None
  /\ \E p \in Answers(v) :
       proc' = [proc EXCEPT ![p].api = "paused"]
  /\ op' = [op EXCEPT ![v] = [Idle EXCEPT !.at = "start"]]
  /\ UNCHANGED <<host, births, child, files, record, probe, struck>>

Configure(v) ==
  /\ At(v, "config")
  /\ \E p \in Answers(v) : proc' = [proc EXCEPT ![p].api = "not started"]
  /\ Goto(v, "start")
  /\ UNCHANGED <<host, births, child, files, record, probe, struck>>

\* start: a paused instance is resumed, one not started is booted.
Start(v) ==
  /\ At(v, "start")
  /\ \E p \in Answers(v) : proc' = [proc EXCEPT ![p].api = "running"]
  /\ ToSave(v, "up")
  /\ UNCHANGED <<host, births, child, files, record, probe, struck>>

\* A step of create or start fails: the file or the spawn, the wait for the
\* socket (the VMM exited, or the boot timeout), an API call.  A VM that was
\* suspended stays so; a new one is undone.
Fail(v) ==
  /\ \E step \in {"jail", "link", "spawn", "record", "socket", "load", "config", "start"} :
       At(v, step)
  /\ IF phase[v] = "creating" THEN Undo(v) ELSE op' = [op EXCEPT ![v] = Idle]
  /\ UNCHANGED <<host, proc, births, child, files, record, probe, struck>>

(***************************************************************************)
(* suspend                                                                 *)
(***************************************************************************)
Pause(v) ==
  /\ up /\ op[v] = Idle /\ phase[v] = "up" /\ shots < budget.shots
  /\ \E p \in Answers(v) :
       /\ proc[p].api \in {"running", "paused"}
       /\ proc' = [proc EXCEPT ![p].api = "paused"]
  /\ op' = [op EXCEPT ![v] = [Idle EXCEPT !.at = "shoot"]]
  /\ UNCHANGED <<host, births, child, files, record, probe, struck>>

\* The VMM writes the snapshot: in its jail's snapshot/out, or, unjailed, in
\* the VM's state directory.
Shoot(v) ==
  /\ At(v, "shoot") /\ Answers(v) # {}
  /\ shots' = shots + 1
  /\ IF jailed
       THEN /\ jail' = [jail EXCEPT ![v].out = Pair(shots + 1, shots + 1)]
            /\ Goto(v, "move") /\ UNCHANGED snap
       ELSE /\ snap' = [snap EXCEPT ![v] = Pair(shots + 1, shots + 1)]
            /\ ToSave(v, "paused") /\ UNCHANGED jail
  /\ UNCHANGED <<host, proc, births, child, pidfile, sock, record, probe, struck>>

\* The vmstate is moved out of the jail first, then the memory; both are sealed.
MoveVmstate(v) ==
  /\ At(v, "move")
  /\ snap' = [snap EXCEPT ![v] = Pair(IF @ = None THEN None ELSE @.mem, jail[v].out.vmstate)]
  /\ Goto(v, "movemem")
  /\ UNCHANGED <<host, proc, births, child, pidfile, sock, jail, shots, record, probe, struck>>

MoveMem(v) ==
  /\ At(v, "movemem")
  /\ snap' = [snap EXCEPT ![v].mem = jail[v].out.mem]
  /\ jail' = [jail EXCEPT ![v].out = None]
  /\ ToSave(v, "paused")
  /\ UNCHANGED <<host, proc, births, child, pidfile, sock, shots, record, probe, struck>>

\* The record still says running, and names the snapshot it named before.
SuspendFails(v) ==
  /\ At(v, "shoot") \/ At(v, "move") \/ At(v, "movemem")
  /\ op' = [op EXCEPT ![v] = Idle]
  /\ UNCHANGED <<host, proc, births, child, files, record, probe, struck>>

Resume(v) ==
  /\ up /\ op[v] = Idle /\ phase[v] = "paused"
  /\ op' = [op EXCEPT ![v] = [Idle EXCEPT !.at = "start"]]
  /\ UNCHANGED <<host, proc, births, child, files, record, probe, struck>>

(***************************************************************************)
(* stop, halt, release, destroy                                            *)
(***************************************************************************)
\* The control plane takes a VM down: stop and finalize once it has exited,
\* or halt first; a create it abandons is halted and released or destroyed.
TakeDown(v, keep, forced) ==
  /\ up /\ op[v] = Idle /\ phase[v] # "idle"
  /\ forced \/ Exited(v)
  /\ snap[v] = None => keep
  /\ Then(v, IF forced THEN <<"kill", "kill", "wait">> ELSE <<"kill", "wait">>, keep)
  /\ dropped' = [dropped EXCEPT ![v] = @ \/ (kept[v] /\ ~keep)]
  /\ UNCHANGED <<host, proc, births, child, files, phase, kept, probe, struck>>

\* The supervisor's reap of an exited VMM that the restart policy boots again:
\* nothing is torn down, and the old pidfile, socket and jail are still there
\* when create is next called.
ReapToRestart(v) ==
  /\ up /\ op[v] = Idle /\ phase[v] = "up" /\ Exited(v)
  /\ phase' = [phase EXCEPT ![v] = "idle"]
  /\ proc' = [p \in Pids |-> IF child[v] = p THEN None ELSE proc[p]]
  /\ child' = [child EXCEPT ![v] = None]
  /\ UNCHANGED <<host, births, files, kept, dropped, op, probe, struck>>

KillChild(v) ==
  /\ At(v, "kill") /\ child[v] # None
  /\ proc' = [proc EXCEPT ![child[v]].killed = TRUE]
  /\ Next1(v)
  /\ UNCHANGED <<host, births, child, files, record, probe, struck>>

\* No pidfile, or pidfd_open finds no such process.
KillNothing(v) ==
  /\ At(v, "kill") /\ child[v] = None
  /\ pidfile[v] # None => pidfds /\ proc[pidfile[v].pid] = None
  /\ Next1(v)
  /\ UNCHANGED <<host, proc, births, child, files, record, probe, struck>>

\* signal_if: the pidfd pins whatever process has the pid now; then /proc is
\* read; then the signal goes to the pinned process, if it is still there.
PidfdOpen(v) ==
  /\ At(v, "kill") /\ child[v] = None
  /\ pidfile[v] # None /\ (pidfds => proc[pidfile[v].pid] # None)
  /\ op' = [op EXCEPT ![v].at = "check", ![v].pid = pidfile[v].pid,
                      ![v].pin = IF pidfds THEN proc[pidfile[v].pid].born ELSE 0]
  /\ UNCHANGED <<host, proc, births, child, files, record, probe, struck>>

CheckNothing(v) ==
  /\ At(v, "check")
  /\ op' = [op EXCEPT ![v].at = "signal", ![v].pin = IF pidfds THEN @ ELSE births]
  /\ UNCHANGED <<host, proc, births, child, files, record, probe, struck>>

\* Without pidfds (ENOSYS) nothing is pinned: what is remembered of the check is
\* when it was.
Check(v) ==
  /\ At(v, "check")
  /\ IF IsLive(pidfile[v], v)
       THEN op' = [op EXCEPT ![v].at = "signal", ![v].pin = IF pidfds THEN @ ELSE births]
       ELSE Next1(v)
  /\ UNCHANGED <<host, proc, births, child, files, record, probe, struck>>

ReachesByPid(p, pin) == proc[p] # None
Reaches(p, pin) == proc[p] # None /\ (pidfds => proc[p].born = pin)

\* A stranger that, without pidfds, took the pid between the check and the signal
\* is not counted: "the window is the time between the two".
Strikes(v, p, pin) == proc[p].vm # v /\ (pidfds \/ proc[p].born <= pin)

Signal(v) ==
  /\ At(v, "signal")
  /\ LET p == op[v].pid IN
       IF Reaches(p, op[v].pin)
         THEN /\ proc' = [proc EXCEPT ![p].killed = TRUE]
              /\ struck' = (struck \/ Strikes(v, p, op[v].pin))
         ELSE UNCHANGED <<proc, struck>>
  /\ Next1(v)
  /\ UNCHANGED <<host, births, child, files, record, probe>>

\* teardown_vmm waits: for its own child, however long it takes, ...
TakeChild(v) ==
  /\ At(v, "wait") /\ child[v] # None
  /\ op' = [op EXCEPT ![v].at = "reap", ![v].pid = child[v]]
  /\ child' = [child EXCEPT ![v] = None]
  /\ UNCHANGED <<host, proc, births, files, record, probe, struck>>

ReapChild(v) ==
  /\ At(v, "reap") /\ ~proc[op[v].pid].live
  /\ proc' = [proc EXCEPT ![op[v].pid] = None]
  /\ op' = [op EXCEPT ![v].at = "clean", ![v].pid = None]
  /\ UNCHANGED <<host, births, child, files, record, probe, struck>>

\* ... and for an adopted VMM until it is gone, five seconds at most.
WaitDead(v) ==
  /\ At(v, "wait") /\ child[v] = None
  /\ Goto(v, "clean")
  /\ UNCHANGED <<host, proc, births, child, files, record, probe, struck>>

CleanAll(v) ==
  /\ At(v, "clean")
  /\ sock' = [sock EXCEPT ![v][Mode] = 0]
  /\ pidfile' = [pidfile EXCEPT ![v] = None]
  /\ snap' = [snap EXCEPT ![v] = None]
  /\ jail' = [jail EXCEPT ![v] = IF jailed THEN None ELSE @]
  /\ ToSave(v, "idle")
  /\ UNCHANGED <<host, proc, births, child, shots, record, probe, struck>>

\* The rest of teardown_vmm: socket, pidfile, snapshot unless it is kept, jail.
Clean(v) ==
  /\ At(v, "clean")
  /\ sock' = [sock EXCEPT ![v][Mode] = 0]
  /\ pidfile' = [pidfile EXCEPT ![v] = None]
  /\ snap' = [snap EXCEPT ![v] = IF op[v].keep THEN @ ELSE None]
  /\ jail' = [jail EXCEPT ![v] = IF jailed THEN None ELSE @]
  /\ ToSave(v, "idle")
  /\ UNCHANGED <<host, proc, births, child, shots, record, probe, struck>>

(***************************************************************************)
(* The control plane's record, once the runtime has answered.              *)
(***************************************************************************)
\* suspend_vm's record names the snapshot; that of a VM taken down still does if
\* the snapshot was kept, and is cleared or deleted if it was not.
Save(v) ==
  /\ At(v, "save")
  /\ LET to == op[v].to IN
       /\ phase' = [phase EXCEPT ![v] = to]
       /\ kept' = [kept EXCEPT ![v] = to = "paused" \/ (@ /\ (to = "up" \/ op[v].keep))]
       /\ dropped' = [dropped EXCEPT ![v] = @ /\ (to = "up" \/ (to = "idle" /\ op[v].keep))]
  /\ op' = [op EXCEPT ![v] = Idle]
  /\ UNCHANGED <<host, proc, births, child, files, probe, struck>>

\* The network's teardown, or the store, fails first: the record stays as it was.
SaveFails(v) ==
  /\ At(v, "save")
  /\ op' = [op EXCEPT ![v] = Idle]
  /\ UNCHANGED <<host, proc, births, child, files, record, probe, struck>>

(***************************************************************************)
(* status, without the VM's lock                                           *)
(***************************************************************************)
Probing(step) == up /\ probe.at = step
Say(what) == probe' = [probe EXCEPT !.at = "none", !.said = what]

\* The supervisor asks of the records that say running.
Ask(v) ==
  /\ Probing("none") /\ phase[v] = "up"
  /\ probe' = [vm |-> v, at |-> "reap", said |-> None]
  /\ UNCHANGED <<host, proc, births, child, files, record, op, struck>>

TryWait ==
  /\ Probing("reap")
  /\ LET v == probe.vm IN
       IF child[v] # None /\ ~proc[child[v]].live
         THEN /\ proc' = [proc EXCEPT ![child[v]] = None]
              /\ child' = [child EXCEPT ![v] = None]
              /\ Say("exited")
         ELSE /\ probe' = [probe EXCEPT !.at = "socket"]
              /\ UNCHANGED <<proc, child>>
  /\ UNCHANGED <<host, births, files, record, op, struck>>

\* A socket file is there and its VMM answers, or whether the VMM is alive
\* decides: one that does not answer is running, not exited.
AskSocket ==
  /\ Probing("socket")
  /\ \/ Answers(probe.vm) # {} /\ Say("alive")
     \/ probe' = [probe EXCEPT !.at = "alive"]
  /\ UNCHANGED <<host, proc, births, child, files, record, op, struck>>

StatusOfChild(v) == IF child[v] # None THEN "alive" ELSE "exited"

StatusOf(v) == IF PidAlive(v) THEN "alive" ELSE "exited"

AskAlive ==
  /\ Probing("alive")
  /\ Say(StatusOf(probe.vm))
  /\ UNCHANGED <<host, proc, births, child, files, record, op, struck>>

(***************************************************************************)
(* The VMMs, other processes and the daemon.                               *)
(***************************************************************************)
\* A VMM opens its API socket, in its jail or in the socket directory.
Bind(p) ==
  /\ proc[p] # None /\ proc[p].live /\ proc[p].api = "boot"
  /\ LET v == proc[p].vm IN
       /\ proc[p].mode = "jailed" => jail[v] # None
       /\ sock' = [sock EXCEPT ![v][proc[p].mode] = proc[p].born]
  /\ proc' = [proc EXCEPT ![p].api = "not started"]
  /\ UNCHANGED <<host, births, child, pidfile, jail, snap, shots, record, op, probe, struck>>

\* A process exits, killed or of itself.  A child of the running daemon is
\* then a zombie that holds its pid; any other's pid is free.
Exit(p) ==
  /\ proc[p] # None /\ proc[p].live
  /\ proc' = [proc EXCEPT ![p] = IF @.ours THEN [@ EXCEPT !.live = FALSE] ELSE None]
  /\ UNCHANGED <<host, births, child, files, record, op, probe, struck>>

\* The kernel gives a free pid to a process that is no VMM.
Other(p) ==
  /\ proc[p] = None /\ births < budget.births
  /\ births' = births + 1
  /\ proc' = [proc EXCEPT ![p] =
       [Vmm(Stranger, "bare") EXCEPT !.api = "none", !.ours = FALSE]]
  /\ UNCHANGED <<host, child, files, record, op, probe, struck>>

Orphaned(q) == IF q = None THEN None ELSE IF q.live THEN [q EXCEPT !.ours = FALSE] ELSE None

Crash ==
  /\ up /\ crashes < budget.crashes
  /\ up' = FALSE /\ crashes' = crashes + 1
  /\ proc' = [p \in Pids |-> Orphaned(proc[p])]
  /\ child' = [v \in Vms |-> None]
  /\ op' = [v \in Vms |-> Idle]
  /\ probe' = [vm |-> None, at |-> "none", said |-> None]
  /\ UNCHANGED <<jailed, pidfds, budget, births, files, record, struck>>

\* The next daemon may be configured otherwise.
Boot ==
  /\ ~up /\ up' = TRUE
  /\ jailed' \in BOOLEAN
  /\ UNCHANGED <<pidfds, crashes, budget, proc, births, child, files, record, op, probe, struck>>

\* The caller goes away while the call waits.
Cancel(v) ==
  /\ \E step \in {"socket", "load", "config", "start", "shoot"} : At(v, step)
  /\ op' = [op EXCEPT ![v] = Idle]
  /\ UNCHANGED <<host, proc, births, child, files, record, probe, struck>>

CreateStep(v) ==
  \/ \E src \in {Fresh, "golden", "own"} : Create(v, src)
  \/ MakeJail(v) \/ Link(v) \/ Spawn(v) \/ WritePidfile(v)
  \/ WaitSocket(v) \/ Load(v) \/ Configure(v) \/ Start(v) \/ Fail(v)

SuspendStep(v) ==
  Pause(v) \/ Shoot(v) \/ MoveVmstate(v) \/ MoveMem(v) \/ SuspendFails(v) \/ Resume(v)

TearDownStep(v) ==
  \/ KillChild(v) \/ KillNothing(v) \/ PidfdOpen(v) \/ Check(v) \/ Signal(v)
  \/ TakeChild(v) \/ ReapChild(v) \/ WaitDead(v) \/ Clean(v)
  \/ Save(v) \/ SaveFails(v)

Next ==
  \/ \E v \in Vms : \/ CreateStep(v) \/ SuspendStep(v) \/ TearDownStep(v)
                     \/ \E keep, forced \in BOOLEAN : TakeDown(v, keep, forced)
                     \/ ReapToRestart(v) \/ Cancel(v) \/ Ask(v)
  \/ TryWait \/ AskSocket \/ AskAlive
  \/ \E p \in Pids : Bind(p) \/ Exit(p) \/ Other(p)
  \/ Crash \/ Boot

Spec == Init /\ [][Next]_vars

(***************************************************************************)
(* Properties.                                                             *)
(***************************************************************************)
TypeOK ==
  /\ up \in BOOLEAN /\ jailed \in BOOLEAN /\ struck \in BOOLEAN
  /\ \A v \in Vms :
       /\ child[v] \in Pids \cup {None}
       /\ pidfile[v] # None => pidfile[v].pid \in Pids
       /\ phase[v] \in {"idle", "creating", "up", "paused"}
       /\ DOMAIN op[v] = DOMAIN Idle
  /\ \A p \in Pids : proc[p] # None => proc[p].born \in 1..births
  /\ probe.at \in {"none", "reap", "socket", "alive"}

\* However often pids are reused, and whatever exits while the pidfile is being
\* checked, kill never signals a process other than the VM's own VMM; on a kernel
\* without pidfds, none that was there when the pidfile was checked (pidfile.rs
\* signal_if, both its branches, and is_live).
NoStrangerStruck == ~struck

\* A VMM the runtime recorded and has not killed can be found again, by the
\* daemon that spawned it or by the next one, under either jailer setting: the
\* children map or the pidfile leads to it (write_pidfile, recorded).
Findable ==
  \A v \in Vms : \A p \in Pids :
    Runs(p, v) => \/ child[v] = p
                  \/ child[v] = None /\ pidfile[v] # None
                     /\ pidfile[v].pid = p /\ IsLive(pidfile[v], v)

\* No VM has two VMMs on its disk: of the VMMs the runtime recorded and has
\* not killed there is one at most, and none once the record says the VM has
\* none (create after teardown_vmm, after a crash, after a reap).
OneVmm ==
  \A v \in Vms :
    LET running == {p \in Pids : Runs(p, v)} IN
    /\ Cardinality(running) <= 1
    /\ phase[v] = "idle" => running = {}

\* The runtime knows the VMM of each VM: it is found again whoever spawned it,
\* and there is no other (create, recorded, teardown_vmm).
VmmKnown == TypeOK /\ Findable /\ OneVmm

\* status never takes a VMM that is alive for one that exited, whatever
\* happens between its steps: when it says stopped or absent, no recorded VMM
\* of that VM is alive (the comment on the last arm of status).
StatusTrue ==
  [][probe'.said = "exited" /\ probe.said # "exited"
       => \A p \in Pids : ~(Runs(p, probe.vm))]_vars

\* A snapshot the record names is there to resume from until its removal is asked
\* for: neither a failed start, nor teardown_vmm with keep_snapshot, nor a new
\* jail, nor a crash between the files and the record loses it.  (A terminate that
\* fails after destroy leaves a record that names a snapshot it has removed.)
SnapshotKept == \A v \in Vms : kept[v] /\ ~dropped[v] => snap[v] # None

\* Not so: that the snapshot on record is one of a single suspend.  A VM suspended
\* again still has its last snapshot on record, and a daemon that dies between the
\* two renames leaves the new vmstate beside the old memory.
SnapshotWhole ==
  \A v \in Vms : kept[v] /\ snap[v] # None /\ op[v] = Idle => snap[v].mem = snap[v].vmstate
=============================================================================
