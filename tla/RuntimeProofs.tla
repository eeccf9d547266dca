---------------------------- MODULE RuntimeProofs ----------------------------
(***************************************************************************)
(* Proofs about Runtime, for any number of VMs, pids, processes, snapshots *)
(* and crashes of the daemon.                                              *)
(*                                                                         *)
(* The argument is about what a VM's pidfile is worth.  A VMM the runtime  *)
(* recorded and has not killed is always the process its pidfile names, by *)
(* pid and start time, and a child has the pidfile too; so whoever finds   *)
(* neither a child nor a live process behind the pidfile, or has killed    *)
(* what it found, knows that there is no VMM.  A signal reaches only the   *)
(* process it pinned, or without pidfds the one that was checked or a      *)
(* later one, because every later process has a later start time.          *)
(***************************************************************************)
EXTENDS Runtime, TLAPS

(* A leaf is for Zenon unless it cites SMT. *)
USE ZenonT(60)

USE DEF host, files, record

Proc ==
  [vm : Vms \cup {Stranger}, born : Nat, live : BOOLEAN,
   api : {"boot", "not started", "paused", "running", "none"}, mode : Modes,
   ours : BOOLEAN, known : BOOLEAN, killed : BOOLEAN]

Pidfile == [pid : Pids, start : Nat \cup {None}]

(* What a call does next that leaves the VM's record, pidfile and child as *)
(* they are, whatever they are; and what may follow.                       *)
Easy == {"idle", "socket", "load", "config", "start", "shoot", "move"}
Making == {"jail", "link", "spawn", "record"}
Killing == {"kill", "check", "signal"}
Ending == {"wait", "reap", "clean"}

OpRec ==
  [at : Easy \cup Making \cup Killing \cup Ending \cup {"movemem", "save"},
   todo : {<<>>, <<"wait">>, <<"kill", "wait">>}, src : {Fresh, "golden", "own"},
   keep : BOOLEAN, pid : Pids \cup {None}, pin : Nat, to : {"idle", "up", "paused"}]

(* A call that takes the VM down, up to the record that says so. *)
Down(o) == o.at \in Killing \cup Ending \/ (o.at = "save" /\ o.to = "idle")

(* The step after which a call has nothing to rely on. *)
Light(o) == o.at \in Easy \/ (o.at = "save" /\ o.to = "up")

IsPair(s) == \E mem, vmstate : s = Pair(mem, vmstate)

(* The value that stands for none is no process, pidfile, pid, start time, *)
(* snapshot or answer.                                                     *)
NoneApart ==
  /\ None \notin Proc \cup Pidfile \cup Pids \cup Nat /\ ~IsPair(None)
  /\ None # "exited"

ProcTypes ==
  /\ births \in Nat /\ proc \in [Pids -> Proc \cup {None}]
  /\ \A p \in Pids : proc[p] # None => proc[p].born \in 1 .. births

(* The processes only the runtime may take off the host: v's own. *)
Held(p, v) == proc[p] # None /\ proc[p].vm = v /\ proc[p].ours

NoVmm(v) == \A p \in Pids : ~Runs(p, v)

(* A VM's child, pidfile and record. *)
VmInv(v) ==
  /\ child[v] \in Pids \cup {None} /\ pidfile[v] \in Pidfile \cup {None}
  /\ phase[v] \in {"idle", "creating", "up", "paused"}
  /\ child[v] # None =>
       Held(child[v], v) /\ pidfile[v] # None /\ pidfile[v].pid = child[v]
  /\ \A p \in Pids : Runs(p, v) =>
       pidfile[v] # None /\ pidfile[v].pid = p /\ pidfile[v].start = proc[p].born
  /\ phase[v] = "idle" => child[v] = None /\ NoVmm(v)
  /\ kept[v] /\ ~dropped[v] => IsPair(snap[v])

(* The process a signal meant for pid would reach was there when pin was    *)
(* taken.                                                                   *)
Pinned(p, pin) == proc[p] # None /\ (IF pidfds THEN proc[p].born = pin ELSE proc[p].born <= pin)

(* What the call in progress on a VM may rely on. *)
OpInv(v, o) ==
  /\ o \in OpRec
  /\ o.at \in Making \cup Ending => NoVmm(v)
  /\ o.at \in Making \cup {"reap", "clean"} => child[v] = None
  /\ o.at \in Making => phase[v] # "idle"
  /\ o.at \in {"record", "reap"} => o.pid \in Pids /\ Held(o.pid, v)
  /\ o.at \in Killing => o.todo \in {<<"wait">>, <<"kill", "wait">>}
  /\ o.at \in Killing /\ o.todo = <<"wait">> => NoVmm(v)
  /\ o.at \in {"check", "signal"} =>
       /\ pidfile[v] # None /\ o.pid = pidfile[v].pid /\ o.pin <= births
       /\ pidfds => \A p \in Pids : Runs(p, v) => proc[p].born = o.pin
  /\ o.at = "signal" => (Pinned(o.pid, o.pin) => proc[o.pid].vm = v)
  /\ o.at = "movemem" => IsPair(snap[v])
  /\ o.at = "save" /\ o.to = "paused" => IsPair(snap[v])
  /\ o.at = "save" /\ o.to = "idle" => NoVmm(v) /\ child[v] = None
  /\ Down(o) /\ ~o.keep => (kept[v] => dropped[v])

Tables ==
  /\ child = [v \in Vms |-> child[v]] /\ pidfile = [v \in Vms |-> pidfile[v]]
  /\ phase = [v \in Vms |-> phase[v]] /\ kept \in [Vms -> BOOLEAN]
  /\ dropped \in [Vms -> BOOLEAN]
  /\ snap = [v \in Vms |-> snap[v]] /\ op = [v \in Vms |-> op[v]]

Probes ==
  /\ probe \in [vm : Vms \cup {None}, at : {"none", "reap", "socket", "alive"},
                said : {None, "exited", "alive"}]
  /\ probe.at # "none" => probe.vm \in Vms

RuntimeInv ==
  /\ up \in BOOLEAN /\ jailed \in BOOLEAN /\ pidfds \in BOOLEAN /\ ProcTypes /\ Tables /\ Probes
  /\ \A v \in Vms : VmInv(v) /\ OpInv(v, op[v])
  /\ struck = FALSE

-----------------------------------------------------------------------------
(***************************************************************************)
(* What a step may do to a process without a VM noticing: change it in     *)
(* what no invariant is about or take it further from running, start one   *)
(* that nobody recorded, or end one that the VM does not hold.             *)
(***************************************************************************)
Aged(p, v) ==
  /\ proc[p] # None /\ proc'[p] # None
  /\ proc'[p].vm = proc[p].vm /\ proc'[p].born = proc[p].born
  /\ proc'[p].ours = proc[p].ours
  /\ proc[p].vm = v => proc'[p].known = proc[p].known
  /\ proc'[p].live => proc[p].live
  /\ proc[p].killed => proc'[p].killed

Born(p) ==
  /\ proc[p] = None /\ proc'[p] # None
  /\ proc'[p].born = births + 1 /\ births' = births + 1 /\ ~proc'[p].known

Gone(p, v) == proc'[p] = None /\ ~Held(p, v)

Passes(v) ==
  /\ births' \in Nat /\ births <= births' /\ pidfds' = pidfds
  /\ \A p \in Pids : proc'[p] = proc[p] \/ Aged(p, v) \/ Born(p) \/ Gone(p, v)

(* The invariant's own parts through such a step. *)
LEMMA RunsBefore ==
  ASSUME NEW v \in Vms, Passes(v), NEW p \in Pids, Runs(p, v)'
  PROVE  Runs(p, v) /\ proc'[p].born = proc[p].born
BY DEF Passes, Runs, IsVmm, Aged, Born, Gone

LEMMA HeldAfter ==
  ASSUME NEW v \in Vms, Passes(v), NEW p \in Pids, Held(p, v)
  PROVE  Held(p, v)'
BY DEF Passes, Held, Aged, Born, Gone

LEMMA VmKept ==
  ASSUME NEW v \in Vms, VmInv(v), Passes(v),
         child'[v] = child[v], pidfile'[v] = pidfile[v], snap'[v] = snap[v],
         kept'[v] = kept[v], dropped'[v] = dropped[v], phase'[v] \in {"idle", "creating", "up", "paused"},
         phase'[v] = "idle" => phase[v] = "idle"
  PROVE  VmInv(v)'
<1>1. \A p \in Pids : Runs(p, v)' => Runs(p, v) /\ proc'[p].born = proc[p].born
  BY RunsBefore
<1>2. \A p \in Pids : Held(p, v) => Held(p, v)'
  BY HeldAfter
<1>3. child'[v] # None =>
        Held(child[v], v)' /\ pidfile'[v] # None /\ pidfile'[v].pid = child'[v]
  BY <1>2 DEF VmInv
<1>4. (child[v] # None => Held(child[v], v))'
  BY <1>3 DEF Held
<1> QED BY <1>1, <1>3, <1>4 DEF VmInv, NoVmm

LEMMA PinnedBefore ==
  ASSUME NEW v \in Vms, Passes(v), ProcTypes, NEW p \in Pids, NEW pin \in Nat, pin <= births,
         Pinned(p, pin)'
  PROVE  Pinned(p, pin) /\ proc'[p].vm = proc[p].vm
<1>1. proc'[p] = proc[p] \/ Aged(p, v) \/ Born(p) \/ Gone(p, v)
  BY DEF Passes
<1>2. pidfds' = pidfds /\ births \in Nat
  BY DEF Passes, ProcTypes
<1>3. ~Born(p)
  <2>1. SUFFICES ASSUME Born(p) PROVE FALSE
    OBVIOUS
  <2>2. proc'[p].born = births + 1
    BY <2>1 DEF Born
  <2>3. proc'[p].born = pin \/ proc'[p].born <= pin
    BY DEF Pinned
  <2> QED BY SMT, <1>2, <2>2, <2>3
<1>4. ~Gone(p, v)
  BY DEF Gone, Pinned
<1> QED BY <1>1, <1>2, <1>3, <1>4 DEF Pinned, Aged

LEMMA OpKept ==
  ASSUME NEW v \in Vms, NEW o, OpInv(v, o), Passes(v), VmInv(v), ProcTypes,
         child'[v] = child[v], pidfile'[v] = pidfile[v], snap'[v] = snap[v],
         kept'[v] = kept[v], dropped'[v] = dropped[v],
         phase'[v] = "idle" => phase[v] = "idle"
  PROVE  OpInv(v, o)'
<1>1. \A p \in Pids : Runs(p, v)' => Runs(p, v) /\ proc'[p].born = proc[p].born
  BY RunsBefore
<1>2. \A p \in Pids : Held(p, v) => Held(p, v)'
  BY HeldAfter
<1>3. NoVmm(v) => NoVmm(v)'
  BY <1>1 DEF NoVmm
<1>4. o.at \in {"check", "signal"} =>
        /\ o.pid \in Pids /\ o.pin \in Nat /\ o.pin <= births /\ births \in Nat
  BY DEF OpInv, VmInv, Pidfile, OpRec, ProcTypes
<1>5. o.at \in {"check", "signal"} =>
        /\ o.pin <= births' /\ (pidfds' => \A p \in Pids : Runs(p, v)' => proc'[p].born = o.pin)
  <2>1. o.at \in {"check", "signal"} => o.pin <= births'
    BY SMTT(60), <1>4 DEF Passes
  <2>2. pidfds' = pidfds
    BY DEF Passes
  <2> QED BY <1>1, <2>1, <2>2 DEF OpInv
<1>6. o.at = "signal" => (Pinned(o.pid, o.pin)' => proc'[o.pid].vm = v)
  <2>1. SUFFICES ASSUME o.at = "signal", Pinned(o.pid, o.pin)' PROVE proc'[o.pid].vm = v
    OBVIOUS
  <2>2. o.pid \in Pids /\ o.pin \in Nat /\ o.pin <= births
    BY <1>4, <2>1
  <2>3. Pinned(o.pid, o.pin) /\ proc'[o.pid].vm = proc[o.pid].vm
    BY <2>1, <2>2, PinnedBefore
  <2> QED BY <2>1, <2>3 DEF OpInv
<1>7. o.at \in {"record", "reap"} => o.pid \in Pids /\ Held(o.pid, v)'
  BY <1>2 DEF OpInv
<1> QED BY <1>3, <1>5, <1>6, <1>7 DEF OpInv

LEMMA OpEasy ==
  ASSUME NEW v \in Vms, NEW o \in OpRec, Light(o)
  PROVE  OpInv(v, o)
BY DEF OpInv, Light, Down, Easy, Making, Killing, Ending

(* The invariant of a call once the step has left it as o. *)
LEMMA OpNow ==
  ASSUME NEW v \in Vms, NEW o, op'[v] = o, OpInv(v, o)'
  PROVE  OpInv(v, op[v])'
BY DEF OpInv

(* A VM that a step is not about. *)
Same(w) ==
  /\ child'[w] = child[w] /\ pidfile'[w] = pidfile[w] /\ snap'[w] = snap[w]
  /\ kept'[w] = kept[w] /\ dropped'[w] = dropped[w] /\ phase'[w] = phase[w] /\ op'[w] = op[w]

LEMMA OthersKept ==
  ASSUME RuntimeInv, NEW w \in Vms, Passes(w), Same(w)
  PROVE  VmInv(w)' /\ OpInv(w, op[w])'
<1>1. VmInv(w) /\ OpInv(w, op[w]) /\ ProcTypes
  BY DEF RuntimeInv
<1>2. VmInv(w)'
  BY <1>1, VmKept DEF Same, VmInv
<1>3. PICK o : o = op[w]
  OBVIOUS
<1>4. OpInv(w, o)'
  BY <1>1, <1>3, OpKept DEF Same
<1> QED BY <1>2, <1>3, <1>4, OpNow DEF Same

(* The rest of the state, that one step in twenty changes. *)
Rest ==
  /\ up' \in BOOLEAN /\ jailed' \in BOOLEAN /\ pidfds' \in BOOLEAN /\ Probes' /\ struck' = FALSE

LEMMA StepOf ==
  ASSUME RuntimeInv, NEW v \in Vms, Rest, ProcTypes', Tables',
         \A w \in Vms \ {v} : Passes(w) /\ Same(w),
         VmInv(v)', OpInv(v, op[v])'
  PROVE  RuntimeInv'
<1>1. \A w \in Vms : VmInv(w)' /\ OpInv(w, op[w])'
  BY OthersKept
<1> QED BY <1>1 DEF RuntimeInv, Rest

(* Steps that leave the processes alone. *)
LEMMA StillPasses ==
  ASSUME RuntimeInv, UNCHANGED <<proc, births, pidfds>>
  PROVE  ProcTypes' /\ \A w \in Vms : Passes(w)
BY SMTT(60) DEF RuntimeInv, ProcTypes, Passes

LEMMA Updates ==
  ASSUME NEW q \in Proc
  PROVE  /\ \A a \in {"boot", "not started", "paused", "running", "none"} :
              LET r == [q EXCEPT !.api = a] IN
              /\ r \in Proc /\ r.vm = q.vm /\ r.born = q.born /\ r.ours = q.ours
              /\ r.known = q.known /\ r.live = q.live /\ r.killed = q.killed
         /\ LET r == [q EXCEPT !.killed = TRUE] IN
              /\ r \in Proc /\ r.vm = q.vm /\ r.born = q.born /\ r.ours = q.ours
              /\ r.known = q.known /\ r.live = q.live /\ r.killed = TRUE
         /\ LET r == [q EXCEPT !.live = FALSE] IN
              /\ r \in Proc /\ r.vm = q.vm /\ r.born = q.born /\ r.ours = q.ours
              /\ r.known = q.known /\ r.live = FALSE /\ r.killed = q.killed
         /\ LET r == [q EXCEPT !.ours = FALSE] IN
              /\ r \in Proc /\ r.vm = q.vm /\ r.born = q.born /\ r.ours = FALSE
              /\ r.known = q.known /\ r.live = q.live /\ r.killed = q.killed
         /\ LET r == [q EXCEPT !.known = TRUE] IN
              /\ r \in Proc /\ r.vm = q.vm /\ r.born = q.born /\ r.ours = q.ours
              /\ r.known = TRUE /\ r.live = q.live /\ r.killed = q.killed
BY DEF Proc

(* Steps that only tell a process something, or end its life. *)
LEMMA AgedPasses ==
  ASSUME RuntimeInv, NoneApart, UNCHANGED <<births, pidfds>>, NEW p \in Pids, proc[p] # None,
         NEW r \in Proc, proc' = [proc EXCEPT ![p] = r],
         r.vm = proc[p].vm, r.born = proc[p].born, r.ours = proc[p].ours,
         r.known = proc[p].known, r.live => proc[p].live, proc[p].killed => r.killed
  PROVE  ProcTypes' /\ \A w \in Vms : Passes(w)
<1>1. ProcTypes
  BY DEF RuntimeInv
<1>2. r # None
  BY DEF NoneApart
<1>3. proc'[p] = r /\ \A q \in Pids : q # p => proc'[q] = proc[q]
  BY <1>1 DEF ProcTypes
<1>4. \A w \in Vms : Aged(p, w)
  BY <1>2, <1>3 DEF Aged
<1>5. proc' \in [Pids -> Proc \cup {None}]
  BY <1>1 DEF ProcTypes
<1> QED BY SMTT(60), <1>1, <1>3, <1>4, <1>5 DEF ProcTypes, Passes

(* Steps that end a process. *)
LEMMA GonePasses ==
  ASSUME RuntimeInv, UNCHANGED <<births, pidfds>>, NEW p \in Pids, proc' = [proc EXCEPT ![p] = None]
  PROVE  ProcTypes' /\ \A w \in Vms : ~Held(p, w) => Passes(w)
<1>1. ProcTypes
  BY DEF RuntimeInv
<1>2. proc'[p] = None /\ \A q \in Pids : q # p => proc'[q] = proc[q]
  BY <1>1 DEF ProcTypes
<1> QED BY SMTT(60), <1>1, <1>2 DEF ProcTypes, Passes, Gone

LEMMA OpUpdates ==
  ASSUME NEW o \in OpRec
  PROVE  \A a \in Easy \cup Making \cup Killing \cup Ending \cup {"movemem"} :
           LET r == [o EXCEPT !.at = a] IN
           /\ r \in OpRec /\ r.at = a /\ r.todo = o.todo /\ r.pid = o.pid /\ r.pin = o.pin
           /\ r.keep = o.keep
BY DEF OpRec

LEMMA SaveUpdates ==
  ASSUME NEW o \in OpRec, NEW to \in {"idle", "up", "paused"}
  PROVE  LET r == [o EXCEPT !.at = "save", !.to = to, !.pid = None] IN
         r \in OpRec /\ r.at = "save" /\ r.to = to /\ r.keep = o.keep
BY DEF OpRec

LEMMA IdleOp == Idle \in OpRec /\ Idle.at = "idle"
BY DEF Idle, OpRec, Easy, Fresh

-----------------------------------------------------------------------------
(* Steps of a kind: those that only take a VM's call further, and those     *)
(* outside all calls.                                                       *)
LEMMA RestStays ==
  ASSUME RuntimeInv, UNCHANGED <<up, jailed, pidfds, probe, struck>>
  PROVE  Rest
BY DEF RuntimeInv, Rest, Probes

LEMMA TablesStay ==
  ASSUME RuntimeInv, NEW v \in Vms, NEW o, op' = [op EXCEPT ![v] = o],
         UNCHANGED <<child, pidfile, snap, kept, dropped>>,
         NEW x, phase' = phase \/ phase' = [phase EXCEPT ![v] = x]
  PROVE  Tables' /\ op'[v] = o /\ \A w \in Vms \ {v} : Same(w)
BY DEF RuntimeInv, Tables, Same

LEMMA Moves ==
  ASSUME RuntimeInv, NEW v \in Vms, Rest, ProcTypes', \A w \in Vms : Passes(w),
         UNCHANGED <<child, pidfile, snap, kept, dropped>>,
         NEW x \in {"creating", "up", "paused"},
         phase' = phase \/ phase' = [phase EXCEPT ![v] = x],
         NEW o, OpInv(v, o), op' = [op EXCEPT ![v] = o]
  PROVE  RuntimeInv'
<1>1. Tables' /\ op'[v] = o /\ \A w \in Vms \ {v} : Same(w)
  BY TablesStay
<1>2. VmInv(v) /\ ProcTypes
  BY DEF RuntimeInv
<1>3. phase'[v] = phase[v] \/ phase'[v] = x
  BY DEF RuntimeInv, Tables
<1>4. VmInv(v)'
  BY <1>2, <1>3, VmKept DEF VmInv
<1>5. PICK r : r = o
  OBVIOUS
<1>6. OpInv(v, r)'
  BY <1>2, <1>3, <1>5, OpKept
<1>7. OpInv(v, op[v])'
  BY <1>1, <1>5, <1>6, OpNow
<1> QED BY <1>1, <1>4, <1>7, StepOf

LEMMA Outside ==
  ASSUME RuntimeInv, Rest, ProcTypes', \A w \in Vms : Passes(w),
         UNCHANGED <<child, pidfile, snap, kept, dropped, phase, op>>
  PROVE  RuntimeInv'
<1>1. \A w \in Vms : Same(w)
  BY DEF Same
<1>2. \A w \in Vms : VmInv(w)' /\ OpInv(w, op[w])'
  BY <1>1, OthersKept
<1>3. Tables'
  BY DEF RuntimeInv, Tables
<1> QED BY <1>2, <1>3 DEF RuntimeInv, Rest

(* The calls whose next step is easy: nothing to remember but the types. *)
LEMMA EasyMove ==
  ASSUME RuntimeInv, NEW v \in Vms, ProcTypes', \A w \in Vms : Passes(w),
         UNCHANGED <<up, jailed, pidfds, probe, struck, child, pidfile, snap, kept, dropped>>,
         NEW x \in {"creating", "up", "paused"},
         phase' = phase \/ phase' = [phase EXCEPT ![v] = x],
         NEW o \in OpRec, Light(o), op' = [op EXCEPT ![v] = o]
  PROVE  RuntimeInv'
BY RestStays, OpEasy, Moves

LEMMA LightEasy == \A o : o.at \in Easy => Light(o)
BY DEF Light

LEMMA LightIdle == Idle \in OpRec /\ Light(Idle)
<1>1. Idle \in OpRec /\ Idle.at \in Easy
  BY IdleOp DEF Easy
<1> QED BY <1>1, LightEasy

LEMMA OpTyped ==
  ASSUME RuntimeInv, NEW v \in Vms
  PROVE  op[v] \in OpRec
BY DEF RuntimeInv, OpInv

(* The halves of Exited: a child is there until it is reaped, so a VM that *)
(* has exited has no VMM.                                                  *)
LEMMA NoneFound ==
  ASSUME NoneApart, RuntimeInv, NEW v \in Vms, ~PidAlive(v)
  PROVE  child[v] = None /\ NoVmm(v)
<1>1. VmInv(v) /\ ProcTypes
  BY DEF RuntimeInv
<1>2. child[v] = None
  BY <1>1 DEF VmInv, Held, PidAlive
<1>3. ASSUME NEW p \in Pids, Runs(p, v) PROVE FALSE
  <2>1. pidfile[v] # None /\ pidfile[v].pid = p /\ pidfile[v].start = proc[p].born
    BY <1>1, <1>3 DEF VmInv
  <2>2. proc[p].live /\ proc[p].vm = v /\ proc[p] # None /\ proc[p].born \in Nat
    BY <1>1, <1>3 DEF Runs, IsVmm, ProcTypes, Proc
  <2>3. IsLive(pidfile[v], v)
    BY <2>1, <2>2 DEF IsLive, StartTime, NoneApart
  <2> QED BY <1>2, <2>1, <2>3 DEF PidAlive
<1> QED BY <1>2, <1>3 DEF NoVmm

LEMMA DeadChild ==
  ASSUME RuntimeInv, NEW v \in Vms, child[v] # None, ~proc[child[v]].live
  PROVE  NoVmm(v)
<1>1. VmInv(v)
  BY DEF RuntimeInv
<1> QED BY <1>1 DEF VmInv, NoVmm, Runs

LEMMA ExitedNoVmm ==
  ASSUME NoneApart, RuntimeInv, NEW v \in Vms, Exited(v)
  PROVE  NoVmm(v)
BY NoneFound, DeadChild DEF Exited

-----------------------------------------------------------------------------
(* create *)

LEMMA CreateStarts ==
  ASSUME RuntimeInv, NEW v \in Vms, NEW src \in {Fresh, "golden", "own"}, Create(v, src)
  PROVE  RuntimeInv'
<1>0. PICK o : o = [Idle EXCEPT !.at = IF jailed THEN "jail" ELSE "spawn", !.src = src]
  OBVIOUS
<1>1. o \in OpRec /\ o.at \in {"jail", "spawn"}
  BY <1>0 DEF OpRec, Idle, Making, Fresh
<1>2. /\ phase[v] = "idle" /\ phase' = [phase EXCEPT ![v] = "creating"]
      /\ op' = [op EXCEPT ![v] = o]
      /\ UNCHANGED <<up, jailed, pidfds, probe, struck, proc, births, child, pidfile, snap, kept, dropped>>
  BY <1>0 DEF Create
<1>3. VmInv(v) /\ child[v] = None /\ NoVmm(v)
  BY <1>2 DEF RuntimeInv, VmInv
<1>4. ProcTypes' /\ \A w \in Vms : Passes(w)
  BY <1>2, StillPasses
<1>5. Tables' /\ op'[v] = o /\ \A w \in Vms \ {v} : Same(w)
  BY <1>2, TablesStay
<1>6. phase'[v] = "creating"
  BY <1>2 DEF RuntimeInv, Tables
<1>7. VmInv(v)'
  BY <1>2, <1>3, <1>4, <1>6, VmKept
<1>8. child'[v] = None /\ NoVmm(v)'
  BY <1>2, <1>3 DEF NoVmm, Runs, IsVmm
<1>9. OpInv(v, o)'
  BY <1>1, <1>6, <1>8 DEF OpInv, Down, Making, Killing, Ending
<1>10. OpInv(v, op[v])'
  BY <1>5, <1>9, OpNow
<1> QED BY <1>2, <1>4, <1>5, <1>7, <1>10, RestStays, StepOf

(* From one step of making a VMM to another. *)
LEMMA MakingMove ==
  ASSUME RuntimeInv, NEW v \in Vms, op[v].at \in Making,
         UNCHANGED <<up, jailed, pidfds, probe, struck, proc, births, child, pidfile, snap, kept, dropped,
                     phase>>,
         NEW a \in {"link", "spawn"}, Goto(v, a)
  PROVE  RuntimeInv'
<1> DEFINE o == [op[v] EXCEPT !.at = a]
<1>1. o \in OpRec /\ o.at = a
  BY OpTyped, OpUpdates DEF Making
<1>2. op' = [op EXCEPT ![v] = o]
  BY DEF Goto
<1> HIDE DEF o
<1>3. OpInv(v, op[v])
  BY DEF RuntimeInv
<1>4. OpInv(v, o)
  BY <1>1, <1>3 DEF OpInv, Down, Making, Killing, Ending
<1> QED BY <1>2, <1>4, RestStays, StillPasses, Moves

LEMMA VmmTyped ==
  ASSUME RuntimeInv, NEW v \in Vms \cup {Stranger}, NEW mode \in Modes
  PROVE  LET q == Vmm(v, mode) IN
         q \in Proc /\ q.vm = v /\ q.born = births + 1 /\ q.ours = TRUE /\ q.known = FALSE
<1>1. PICK n \in Nat : n = births + 1
  BY SMTT(60) DEF RuntimeInv, ProcTypes
<1>2. Vmm(v, mode) = [vm |-> v, born |-> n, live |-> TRUE, api |-> "boot", mode |-> mode,
                      ours |-> TRUE, known |-> FALSE, killed |-> FALSE]
  BY <1>1 DEF Vmm
<1>3. Vmm(v, mode) \in Proc
  BY SMTT(30), <1>2 DEF Proc
<1> QED BY SMTT(60), <1>1, <1>2, <1>3

LEMMA BornPasses ==
  ASSUME NoneApart, RuntimeInv, births' = births + 1, UNCHANGED pidfds,
         NEW p \in Pids, proc[p] = None,
         NEW q \in Proc, q.born = births + 1, q.known = FALSE, proc' = [proc EXCEPT ![p] = q]
  PROVE  ProcTypes' /\ \A w \in Vms : Passes(w)
<1>1. ProcTypes
  BY DEF RuntimeInv
<1>2. q # None
  BY DEF NoneApart
<1>3. proc'[p] = q /\ \A r \in Pids : r # p => proc'[r] = proc[r]
  BY <1>1 DEF ProcTypes
<1>4. Born(p)
  BY <1>2, <1>3 DEF Born
<1>5. proc' \in [Pids -> Proc \cup {None}] /\ births' \in Nat /\ births <= births'
  BY SMTT(60), <1>1 DEF ProcTypes
<1>6. \A r \in Pids : proc'[r] # None => proc'[r].born \in 1 .. births'
  BY SMTT(60), <1>1, <1>3 DEF ProcTypes
<1> QED BY <1>3, <1>4, <1>5, <1>6 DEF ProcTypes, Passes

LEMMA SpawnRuns ==
  ASSUME NoneApart, RuntimeInv, NEW v \in Vms, Spawn(v)
  PROVE  RuntimeInv'
<1>1. PICK p \in Pids :
        /\ proc[p] = None
        /\ proc' = [proc EXCEPT ![p] = Vmm(v, Mode)]
        /\ op' = [op EXCEPT ![v].at = "record", ![v].pid = p]
  BY DEF Spawn
<1>2. /\ op[v].at = "spawn" /\ births' = births + 1
      /\ UNCHANGED <<up, jailed, pidfds, probe, struck, child, pidfile, snap, kept, dropped, phase>>
  BY DEF Spawn, At
<1>3. PICK q : q = Vmm(v, Mode)
  OBVIOUS
<1>4. q \in Proc /\ q.vm = v /\ q.born = births + 1 /\ q.ours = TRUE /\ q.known = FALSE
  BY <1>3, VmmTyped DEF Mode, Modes
<1>5. ProcTypes' /\ \A w \in Vms : Passes(w)
  BY <1>1, <1>2, <1>3, <1>4, BornPasses
<1>6. Held(p, v)'
  <2>1. proc'[p] = q /\ q # None
    BY <1>1, <1>3, <1>4 DEF RuntimeInv, ProcTypes, NoneApart
  <2> QED BY <1>4, <2>1 DEF Held
<1>7. PICK o : o = [op[v] EXCEPT !.at = "record", !.pid = p]
  OBVIOUS
<1>8. o \in OpRec /\ o.at = "record" /\ o.pid = p
  BY <1>7, OpTyped DEF OpRec, Making
<1>9. op' = [op EXCEPT ![v] = o]
  BY <1>1, <1>7 DEF RuntimeInv, Tables
<1>10. Tables' /\ op'[v] = o /\ \A w \in Vms \ {v} : Same(w)
  BY <1>2, <1>9, TablesStay
<1>11. VmInv(v) /\ OpInv(v, op[v])
  BY DEF RuntimeInv
<1>12. VmInv(v)'
  BY <1>2, <1>5, <1>11, VmKept DEF VmInv
<1>13. NoVmm(v)' /\ phase'[v] # "idle"
  BY <1>2, <1>5, <1>11, RunsBefore DEF OpInv, Down, Making, NoVmm
<1>14. child'[v] = None
  BY <1>2, <1>11 DEF OpInv, Down, Making
<1>15. OpInv(v, o)'
  BY <1>6, <1>8, <1>13, <1>14 DEF OpInv, Down, Making, Killing, Ending
<1> QED BY <1>2, <1>5, <1>10, <1>12, <1>15, OpNow, RestStays, StepOf

(* The pidfile, the child and the process recorded at once: the first VMM   *)
(* of v that runs.                                                          *)
LEMMA PidfileWritten ==
  ASSUME NoneApart, RuntimeInv, NEW v \in Vms, WritePidfile(v)
  PROVE  RuntimeInv'
<1>1. PICK p : p = op[v].pid
  OBVIOUS
<1>2. PICK r : r = [proc[p] EXCEPT !.known = TRUE]
  OBVIOUS
<1>3. PICK o : o = [op[v] EXCEPT !.at = "socket", !.pid = None]
  OBVIOUS
<1>4. PICK f : f = Format(p)
  OBVIOUS
<1>5. VmInv(v) /\ OpInv(v, op[v]) /\ ProcTypes /\ Tables
  BY DEF RuntimeInv
<1>6. op[v].at = "record" /\ p \in Pids /\ Held(p, v) /\ NoVmm(v)
  BY <1>1, <1>5 DEF WritePidfile, At, OpInv, Making
<1>7. proc[p] \in Proc /\ proc[p].born \in Nat
  BY <1>5, <1>6 DEF ProcTypes, Held, Proc
<1>8. /\ r \in Proc /\ r.vm = proc[p].vm /\ r.born = proc[p].born /\ r.ours = proc[p].ours
      /\ r.live = proc[p].live /\ r.killed = proc[p].killed /\ r # None
  <2>1. PICK q \in Proc : q = proc[p]
    BY <1>7
  <2>2. r = [q EXCEPT !.known = TRUE]
    BY <1>2, <2>1
  <2>3. /\ r \in Proc /\ r.vm = q.vm /\ r.born = q.born /\ r.ours = q.ours
        /\ r.live = q.live /\ r.killed = q.killed
    BY <2>2, Updates
  <2> QED BY <2>1, <2>3 DEF NoneApart
<1>9. f \in Pidfile /\ f.pid = p /\ f # None /\ (proc[p].live => f.start = proc[p].born)
  BY SMTT(60), <1>4, <1>6, <1>7 DEF Format, Pidfile, StartTime, NoneApart, Held
<1>10. o \in OpRec /\ o.at \in Easy
  BY <1>3, OpTyped DEF OpRec, Easy
<1>11. /\ pidfile' = [pidfile EXCEPT ![v] = f] /\ child' = [child EXCEPT ![v] = p]
       /\ proc' = [proc EXCEPT ![p] = r] /\ op' = [op EXCEPT ![v] = o]
       /\ UNCHANGED <<up, jailed, pidfds, probe, struck, births, snap, kept, dropped, phase>>
  BY <1>1, <1>2, <1>3, <1>4 DEF WritePidfile
<1>12. proc'[p] = r /\ \A q \in Pids : q # p => proc'[q] = proc[q]
  BY <1>5, <1>6, <1>11 DEF ProcTypes
<1>13. ProcTypes'
  <2>1. proc' \in [Pids -> Proc \cup {None}]
    BY <1>5, <1>8, <1>11 DEF ProcTypes
  <2> QED BY <1>5, <1>6, <1>8, <1>11, <1>12, <2>1 DEF ProcTypes, Held
<1>14. \A w \in Vms \ {v} : Passes(w)
  <2>1. \A w \in Vms \ {v} : Aged(p, w)
    BY <1>6, <1>8, <1>12 DEF Aged, Held
  <2> QED BY SMTT(60), <1>5, <1>11, <1>12, <2>1 DEF Passes, ProcTypes
<1>15. Tables' /\ op'[v] = o /\ (\A w \in Vms \ {v} : Same(w))
       /\ pidfile'[v] = f /\ child'[v] = p
  BY <1>5, <1>11 DEF Tables, Same
<1>16. \A q \in Pids : Runs(q, v)' => q = p /\ proc[p].live
  BY <1>6, <1>8, <1>12 DEF Runs, IsVmm, NoVmm
<1>17. Held(p, v)'
  BY <1>6, <1>8, <1>12 DEF Held
<1>18. phase[v] # "idle"
  BY <1>5, <1>6 DEF OpInv, Down, Making
<1>19. VmInv(v)'
  <2>1. /\ child'[v] \in Pids \cup {None} /\ pidfile'[v] \in Pidfile \cup {None}
        /\ phase'[v] \in {"idle", "creating", "up", "paused"} /\ phase'[v] # "idle"
        /\ kept'[v] /\ ~dropped'[v] => IsPair(snap'[v])
    BY <1>5, <1>6, <1>9, <1>11, <1>15, <1>18 DEF VmInv
  <2>2. (child[v] # None => Held(child[v], v))' /\ pidfile'[v] # None /\ pidfile'[v].pid = child'[v]
    BY <1>9, <1>15, <1>17 DEF Held
  <2>3. \A q \in Pids : Runs(q, v)' =>
          pidfile'[v] # None /\ pidfile'[v].pid = q /\ pidfile'[v].start = proc'[q].born
    BY <1>8, <1>9, <1>12, <1>15, <1>16
  <2> QED BY <2>1, <2>2, <2>3 DEF VmInv
<1>20. OpInv(v, o)'
  BY <1>10 DEF OpInv, Down, Easy, Making, Killing, Ending
<1> QED BY <1>11, <1>13, <1>14, <1>15, <1>19, <1>20, OpNow, RestStays, StepOf

(* A VMM told something, or a process marked killed. *)
LEMMA ApiTold ==
  ASSUME NoneApart, RuntimeInv, UNCHANGED <<births, pidfds>>, NEW p \in Pids, proc[p] # None,
         NEW a \in {"boot", "not started", "paused", "running", "none"},
         proc' = [proc EXCEPT ![p].api = a]
  PROVE  ProcTypes' /\ \A w \in Vms : Passes(w)
<1>1. PICK q \in Proc : q = proc[p]
  BY DEF RuntimeInv, ProcTypes
<1>2. PICK r : r = [q EXCEPT !.api = a]
  OBVIOUS
<1>3. /\ r \in Proc /\ r.vm = q.vm /\ r.born = q.born /\ r.ours = q.ours
      /\ r.known = q.known /\ r.live = q.live /\ r.killed = q.killed
  BY <1>2, Updates
<1>4. proc' = [proc EXCEPT ![p] = r]
  BY <1>1, <1>2 DEF RuntimeInv, ProcTypes
<1>5. /\ r.vm = proc[p].vm /\ r.born = proc[p].born /\ r.ours = proc[p].ours
      /\ r.known = proc[p].known /\ (r.live => proc[p].live) /\ (proc[p].killed => r.killed)
  BY <1>1, <1>3
<1> QED BY <1>3, <1>4, <1>5, AgedPasses

LEMMA Struck ==
  ASSUME NoneApart, RuntimeInv, UNCHANGED <<births, pidfds>>, NEW p \in Pids, proc[p] # None,
         proc' = [proc EXCEPT ![p].killed = TRUE]
  PROVE  ProcTypes' /\ (\A w \in Vms : Passes(w)) /\ \A w \in Vms : ~Runs(p, w)'
<1>1. PICK q \in Proc : q = proc[p]
  BY DEF RuntimeInv, ProcTypes
<1>2. PICK r : r = [q EXCEPT !.killed = TRUE]
  OBVIOUS
<1>3. /\ r \in Proc /\ r.vm = q.vm /\ r.born = q.born /\ r.ours = q.ours
      /\ r.known = q.known /\ r.live = q.live /\ r.killed = TRUE
  BY <1>2, Updates
<1>4. proc' = [proc EXCEPT ![p] = r]
  BY <1>1, <1>2 DEF RuntimeInv, ProcTypes
<1>5. proc'[p] = r
  BY <1>4 DEF RuntimeInv, ProcTypes
<1>6. ProcTypes' /\ \A w \in Vms : Passes(w)
  BY <1>1, <1>3, <1>4, AgedPasses
<1> QED BY <1>3, <1>5, <1>6 DEF Runs

LEMMA IdleAt ==
  ASSUME NEW a \in Easy
  PROVE  [Idle EXCEPT !.at = a] \in OpRec /\ [Idle EXCEPT !.at = a].at = a
BY DEF Idle, OpRec, Fresh

LEMMA SocketUp ==
  ASSUME RuntimeInv, NEW v \in Vms, WaitSocket(v)
  PROVE  RuntimeInv'
<1>1. PICK o : o = [op[v] EXCEPT !.at = IF op[v].src = Fresh THEN "config" ELSE "load"]
  OBVIOUS
<1>2. o \in OpRec /\ o.at \in Easy
  BY SMTT(60), <1>1, OpTyped, OpUpdates DEF Easy
<1>3. op' = [op EXCEPT ![v] = o]
  BY <1>1 DEF WaitSocket, Goto
<1> QED BY <1>2, <1>3, StillPasses, LightEasy, EasyMove DEF WaitSocket

LEMMA Told ==
  ASSUME NoneApart, RuntimeInv, NEW v \in Vms, Load(v) \/ Configure(v) \/ Start(v) \/ Pause(v)
  PROVE  RuntimeInv'
<1>1. PICK p \in Pids, a \in {"boot", "not started", "paused", "running", "none"} :
        proc[p] # None /\ proc' = [proc EXCEPT ![p].api = a]
  BY DEF Load, Configure, Start, Pause, Answers, IsVmm
<1>2. UNCHANGED <<up, jailed, pidfds, probe, struck, births, child, pidfile, snap, kept, dropped>>
  BY DEF Load, Configure, Start, Pause
<1>3. ProcTypes' /\ \A w \in Vms : Passes(w)
  BY <1>1, <1>2, ApiTold
<1>4. phase' = phase
  BY DEF Load, Configure, Start, Pause
<1>5. PICK o \in OpRec : Light(o) /\ op' = [op EXCEPT ![v] = o]
  <2>1. [op[v] EXCEPT !.at = "start"] \in OpRec /\ [op[v] EXCEPT !.at = "start"].at = "start"
    BY OpTyped, OpUpdates DEF Easy
  <2>2. /\ [Idle EXCEPT !.at = "start"] \in OpRec /\ [Idle EXCEPT !.at = "start"].at = "start"
        /\ [Idle EXCEPT !.at = "shoot"] \in OpRec /\ [Idle EXCEPT !.at = "shoot"].at = "shoot"
    BY IdleAt DEF Easy
  <2>3. PICK r : r = [op[v] EXCEPT !.at = "save", !.to = "up", !.pid = None]
    OBVIOUS
  <2>4. r \in OpRec /\ Light(r)
    BY <2>3, OpTyped, SaveUpdates DEF Light
  <2>5. \/ op' = [op EXCEPT ![v] = [op[v] EXCEPT !.at = "start"]]
        \/ op' = [op EXCEPT ![v] = [Idle EXCEPT !.at = "start"]]
        \/ op' = [op EXCEPT ![v] = [Idle EXCEPT !.at = "shoot"]]
        \/ op' = [op EXCEPT ![v] = r]
    BY <2>3 DEF Load, Configure, Start, Pause, Goto, ToSave, RuntimeInv, Tables
  <2>6. "start" \in Easy /\ "shoot" \in Easy
    BY DEF Easy
  <2>7. CASE op' = [op EXCEPT ![v] = [op[v] EXCEPT !.at = "start"]]
    BY <2>1, <2>6, <2>7, LightEasy
  <2>8. CASE op' = [op EXCEPT ![v] = [Idle EXCEPT !.at = "start"]]
    BY <2>2, <2>6, <2>8, LightEasy
  <2>9. CASE op' = [op EXCEPT ![v] = [Idle EXCEPT !.at = "shoot"]]
    BY <2>2, <2>6, <2>9, LightEasy
  <2> QED BY <2>4, <2>5, <2>7, <2>8, <2>9
<1> QED BY <1>2, <1>3, <1>4, <1>5, EasyMove

(* The calls that end, or start, without touching anything. *)
LEMMA Turned ==
  ASSUME RuntimeInv, NEW v \in Vms, SuspendFails(v) \/ Resume(v) \/ Cancel(v) \/ SaveFails(v)
  PROVE  RuntimeInv'
<1>1. UNCHANGED <<up, jailed, pidfds, probe, struck, proc, births, child, pidfile, snap, kept, dropped,
                  phase>>
  BY DEF SuspendFails, Resume, Cancel, SaveFails
<1>2. PICK o \in OpRec : o.at \in Easy /\ op' = [op EXCEPT ![v] = o]
  <2>1. [Idle EXCEPT !.at = "start"] \in OpRec /\ [Idle EXCEPT !.at = "start"].at = "start"
    BY IdleAt DEF Easy
  <2>2. \/ op' = [op EXCEPT ![v] = [Idle EXCEPT !.at = "start"]]
        \/ op' = [op EXCEPT ![v] = Idle]
    BY DEF SuspendFails, Resume, Cancel, SaveFails
  <2> QED BY <2>1, <2>2, IdleOp DEF Easy
<1> QED BY <1>1, <1>2, StillPasses, LightEasy, EasyMove

-----------------------------------------------------------------------------
(* halt, release, destroy *)

LEMMA Halted ==
  ASSUME RuntimeInv, NEW v \in Vms, NEW keep \in BOOLEAN,
         NEW todo \in {<<"kill", "kill", "wait">>, <<"kill", "wait">>},
         todo = <<"kill", "wait">> => NoVmm(v), Then(v, todo, keep),
         UNCHANGED <<up, jailed, pidfds, probe, struck, proc, births, child, pidfile, snap, kept, phase>>,
         NEW d \in BOOLEAN, dropped' = [dropped EXCEPT ![v] = d], dropped[v] => d,
         ~keep /\ kept[v] => d
  PROVE  RuntimeInv'
<1>1. PICK o : o = [Idle EXCEPT !.at = Head(todo), !.todo = Tail(todo), !.keep = keep]
  OBVIOUS
<1>2. /\ Head(todo) = "kill" /\ Tail(todo) \in {<<"wait">>, <<"kill", "wait">>}
      /\ Tail(todo) = <<"wait">> => NoVmm(v)
  <2>1. CASE todo = <<"kill", "wait">>
    BY SMTT(60), <2>1
  <2>2. CASE todo = <<"kill", "kill", "wait">>
    <3>1. Tail(todo) = <<"kill", "wait">> /\ Head(todo) = "kill"
      BY SMTT(60), <2>2
    <3>2. Len(<<"kill", "wait">>) = 2 /\ Len(<<"wait">>) = 1
      OBVIOUS
    <3> QED BY SMTT(60), <3>1, <3>2
  <2> QED BY <2>1, <2>2
<1>3. o \in OpRec /\ o.at = "kill" /\ o.todo = Tail(todo) /\ o.keep = keep
  BY <1>1, <1>2 DEF Idle, OpRec, Killing, Fresh
<1>4. op' = [op EXCEPT ![v] = o]
  BY <1>1 DEF Then
<1>5. /\ op'[v] = o /\ dropped'[v] = d /\ \A w \in Vms \ {v} : Same(w)
  BY <1>4 DEF RuntimeInv, Tables, Same
<1>6. Tables'
  <2>1. dropped' \in [Vms -> BOOLEAN]
    BY DEF RuntimeInv, Tables
  <2> QED BY <1>4, <2>1 DEF RuntimeInv, Tables
<1>7. VmInv(v)
  BY DEF RuntimeInv
<1>8. \A p \in Pids : (Runs(p, v)' <=> Runs(p, v)) /\ (Held(p, v)' <=> Held(p, v))
  BY DEF Runs, IsVmm, Held
<1>9. VmInv(v)'
  <2>1. (child[v] # None => Held(child[v], v))'
    BY <1>7 DEF VmInv, Held
  <2> QED BY <1>5, <1>7, <1>8, <2>1 DEF VmInv, NoVmm
<1>10. NoVmm(v) => NoVmm(v)'
  BY <1>8 DEF NoVmm
<1>11. OpInv(v, o)'
  BY <1>2, <1>3, <1>5, <1>10 DEF OpInv, Down, Making, Killing, Ending
<1> QED BY <1>5, <1>6, <1>9, <1>11, OpNow, RestStays, StillPasses, StepOf

LEMMA Failed ==
  ASSUME RuntimeInv, NEW v \in Vms, Fail(v)
  PROVE  RuntimeInv'
<1>1. UNCHANGED <<up, jailed, pidfds, probe, struck, proc, births, child, pidfile, snap, kept, dropped,
                  phase>>
  BY DEF Fail
<1>2. CASE op' = [op EXCEPT ![v] = Idle]
  BY <1>1, <1>2, LightIdle, StillPasses, EasyMove
<1>3. CASE Undo(v)
  <2>1. <<"kill", "kill", "wait">> # <<"kill", "wait">>
    <3>1. Len(<<"kill", "wait">>) = 2 /\ Len(<<"kill", "kill", "wait">>) = 3
      OBVIOUS
    <3> QED BY <3>1
  <2>2. PICK keep \in BOOLEAN :
          Then(v, <<"kill", "kill", "wait">>, keep) /\ (kept[v] => keep)
    BY <1>3 DEF Undo
  <2>3. PICK d \in BOOLEAN : d = dropped[v]
    BY DEF RuntimeInv, Tables
  <2>4. dropped' = [dropped EXCEPT ![v] = d]
    BY <1>1, <2>3 DEF RuntimeInv, Tables
  <2>5. (dropped[v] => d) /\ (~keep /\ kept[v] => d)
    BY <2>2, <2>3
  <2> QED BY <1>1, <2>1, <2>2, <2>4, <2>5, Halted
<1> QED BY <1>2, <1>3 DEF Fail

LEMMA TakenDown ==
  ASSUME NoneApart, RuntimeInv, NEW v \in Vms, NEW keep \in BOOLEAN, NEW forced \in BOOLEAN,
         TakeDown(v, keep, forced)
  PROVE  RuntimeInv'
<1>1. UNCHANGED <<up, jailed, pidfds, probe, struck, proc, births, child, pidfile, snap, kept, phase>>
  BY DEF TakeDown
<1>2. PICK todo \in {<<"kill", "kill", "wait">>, <<"kill", "wait">>} :
        Then(v, todo, keep) /\ (todo = <<"kill", "wait">> => NoVmm(v))
  <2>1. CASE forced
    <3>1. Then(v, <<"kill", "kill", "wait">>, keep)
      BY <2>1 DEF TakeDown
    <3>2. Len(<<"kill", "wait">>) = 2 /\ Len(<<"kill", "kill", "wait">>) = 3
      OBVIOUS
    <3>3. <<"kill", "kill", "wait">> # <<"kill", "wait">>
      BY <3>2
    <3> QED BY <3>1, <3>3
  <2>2. CASE ~forced
    <3>1. Then(v, <<"kill", "wait">>, keep) /\ Exited(v)
      BY <2>2 DEF TakeDown
    <3> QED BY <3>1, ExitedNoVmm
  <2> QED BY <2>1, <2>2
<1>3. PICK d : d = (dropped[v] \/ (kept[v] /\ ~keep))
  OBVIOUS
<1>4. d \in BOOLEAN /\ (dropped[v] => d) /\ (~keep /\ kept[v] => d)
  BY <1>3
<1>5. dropped' = [dropped EXCEPT ![v] = d]
  BY <1>3 DEF TakeDown
<1> QED BY <1>1, <1>2, <1>4, <1>5, Halted

(* One kill is through: whatever it found, there is no VMM left. *)
LEMMA KillDone ==
  ASSUME RuntimeInv, NEW v \in Vms, Rest, ProcTypes', \A w \in Vms : Passes(w),
         UNCHANGED <<child, pidfile, snap, kept, dropped, phase>>,
         op[v].at \in Killing, NoVmm(v)', Next1(v)
  PROVE  RuntimeInv'
<1>1. PICK o : o = [op[v] EXCEPT !.at = Head(op[v].todo), !.todo = Tail(op[v].todo),
                                 !.pid = None, !.pin = 0]
  OBVIOUS
<1>2. VmInv(v) /\ OpInv(v, op[v]) /\ ProcTypes
  BY DEF RuntimeInv
<1>3. \/ Head(op[v].todo) = "wait" /\ Tail(op[v].todo) = <<>>
      \/ Head(op[v].todo) = "kill" /\ Tail(op[v].todo) = <<"wait">>
  <2>1. op[v].todo \in {<<"wait">>, <<"kill", "wait">>}
    BY <1>2 DEF OpInv
  <2>2. Head(<<"wait">>) = "wait" /\ Tail(<<"wait">>) = <<>>
    BY SMTT(60)
  <2>3. Head(<<"kill", "wait">>) = "kill" /\ Tail(<<"kill", "wait">>) = <<"wait">>
    BY SMTT(60)
  <2> QED BY <2>1, <2>2, <2>3
<1>4. /\ o \in OpRec /\ o.at = Head(op[v].todo) /\ o.todo = Tail(op[v].todo)
      /\ o.keep = op[v].keep
  BY <1>1, <1>2, <1>3 DEF OpInv, Down, OpRec, Killing, Ending
<1>5. op' = [op EXCEPT ![v] = o]
  BY <1>1 DEF Next1, RuntimeInv, Tables
<1>6. Tables' /\ op'[v] = o /\ \A w \in Vms \ {v} : Same(w)
  BY <1>5, TablesStay
<1>7. VmInv(v)'
  BY <1>2, VmKept DEF VmInv
<1>8. ~o.keep => (kept'[v] => dropped'[v])
  BY <1>2, <1>4 DEF OpInv, Down
<1>9. OpInv(v, o)'
  BY <1>3, <1>4, <1>8 DEF OpInv, Down, Making, Killing, Ending
<1> QED BY <1>6, <1>7, <1>9, OpNow, StepOf

LEMMA ChildKilled ==
  ASSUME NoneApart, RuntimeInv, NEW v \in Vms, KillChild(v)
  PROVE  RuntimeInv'
<1>1. /\ op[v].at = "kill" /\ child[v] # None /\ Next1(v)
      /\ proc' = [proc EXCEPT ![child[v]].killed = TRUE]
      /\ UNCHANGED <<up, jailed, pidfds, probe, struck, births, child, pidfile, snap, kept, dropped, phase>>
  BY DEF KillChild, At
<1>2. VmInv(v)
  BY DEF RuntimeInv
<1>3. PICK p \in Pids : p = child[v] /\ proc[p] # None /\ pidfile[v].pid = p
  BY <1>1, <1>2 DEF VmInv, Held
<1>4. ProcTypes' /\ (\A w \in Vms : Passes(w)) /\ \A w \in Vms : ~Runs(p, w)'
  BY <1>1, <1>3, Struck
<1>5. \A q \in Pids : Runs(q, v) => q = p
  BY <1>2, <1>3 DEF VmInv
<1>6. NoVmm(v)'
  BY <1>4, <1>5, RunsBefore DEF NoVmm
<1> QED BY <1>1, <1>4, <1>6, RestStays, KillDone DEF Killing

LEMMA NothingKilled ==
  ASSUME RuntimeInv, NEW v \in Vms, KillNothing(v)
  PROVE  RuntimeInv'
<1>1. /\ op[v].at = "kill" /\ Next1(v) /\ (pidfile[v] # None => proc[pidfile[v].pid] = None)
      /\ UNCHANGED <<up, jailed, pidfds, probe, struck, proc, births, child, pidfile, snap, kept, dropped,
                     phase>>
  BY DEF KillNothing, At
<1>2. VmInv(v)
  BY DEF RuntimeInv
<1>3. NoVmm(v)'
  BY <1>1, <1>2 DEF VmInv, NoVmm, Runs, IsVmm
<1> QED BY <1>1, <1>3, RestStays, StillPasses, KillDone DEF Killing

LEMMA PidPinned ==
  ASSUME RuntimeInv, NEW v \in Vms, PidfdOpen(v)
  PROVE  RuntimeInv'
<1>1. PICK p : p = pidfile[v].pid
  OBVIOUS
<1>2. PICK pin : pin = IF pidfds THEN proc[p].born ELSE 0
  OBVIOUS
<1>3. PICK o : o = [op[v] EXCEPT !.at = "check", !.pid = p, !.pin = pin]
  OBVIOUS
<1>4. /\ op[v].at = "kill" /\ pidfile[v] # None /\ (pidfds => proc[p] # None)
      /\ UNCHANGED <<up, jailed, pidfds, probe, struck, proc, births, child, pidfile, snap, kept, dropped,
                     phase>>
  BY <1>1 DEF PidfdOpen, At
<1>5. op' = [op EXCEPT ![v] = o]
  BY <1>1, <1>2, <1>3 DEF PidfdOpen, RuntimeInv, Tables
<1>6. VmInv(v) /\ OpInv(v, op[v]) /\ ProcTypes
  BY DEF RuntimeInv
<1>7. p \in Pids
  BY <1>1, <1>4, <1>6 DEF VmInv, Pidfile
<1>8. pin \in Nat /\ pin <= births
  <2>1. CASE pidfds
    BY SMTT(60), <1>2, <1>4, <1>6, <1>7, <2>1 DEF ProcTypes
  <2>2. CASE ~pidfds
    BY SMTT(60), <1>2, <1>6, <2>2 DEF ProcTypes
  <2> QED BY <2>1, <2>2
<1>9. /\ o \in OpRec /\ o.at = "check" /\ o.pid = p /\ o.pin = pin
      /\ o.todo = op[v].todo /\ o.keep = op[v].keep
  BY <1>3, <1>6, <1>7, <1>8 DEF OpInv, OpRec, Killing
<1>10. pidfds => \A q \in Pids : Runs(q, v) => proc[q].born = o.pin
  BY <1>1, <1>2, <1>6, <1>9 DEF VmInv
<1>11. /\ op[v].todo \in {<<"wait">>, <<"kill", "wait">>}
       /\ op[v].todo = <<"wait">> => NoVmm(v)
       /\ ~op[v].keep => (kept[v] => dropped[v])
  BY <1>4, <1>6 DEF OpInv, Down, Killing
<1>12. OpInv(v, o)
  BY <1>1, <1>4, <1>8, <1>9, <1>10, <1>11 DEF OpInv, Down, Making, Ending
<1> QED BY <1>4, <1>5, <1>12, RestStays, StillPasses, Moves

LEMMA Checked ==
  ASSUME NoneApart, RuntimeInv, NEW v \in Vms, Check(v)
  PROVE  RuntimeInv'
<1>1. /\ op[v].at = "check"
      /\ UNCHANGED <<up, jailed, pidfds, probe, struck, proc, births, child, pidfile, snap, kept, dropped,
                     phase>>
  BY DEF Check, At
<1>2. VmInv(v) /\ OpInv(v, op[v]) /\ ProcTypes
  BY DEF RuntimeInv
<1>3. CASE IsLive(pidfile[v], v)
  <2>1. PICK pin : pin = IF pidfds THEN op[v].pin ELSE births
    OBVIOUS
  <2>2. PICK o : o = [op[v] EXCEPT !.at = "signal", !.pin = pin]
    OBVIOUS
  <2>3. op' = [op EXCEPT ![v] = o]
    BY <1>3, <2>1, <2>2 DEF Check, RuntimeInv, Tables
  <2>4. op[v].pid = pidfile[v].pid /\ proc[op[v].pid].vm = v
    BY <1>1, <1>2, <1>3 DEF OpInv, IsLive
  <2>5. pin \in Nat /\ pin <= births /\ (pidfds => pin = op[v].pin)
    <3>1. op[v].pin \in Nat /\ op[v].pin <= births /\ births \in Nat /\ births <= births
      BY SMTT(60), <1>1, <1>2 DEF OpInv, OpRec, ProcTypes
    <3> QED BY <2>1, <3>1
  <2>6. /\ o \in OpRec /\ o.at = "signal" /\ o.todo = op[v].todo /\ o.pid = op[v].pid
        /\ o.pin = pin /\ o.keep = op[v].keep
    BY <1>2, <2>2, <2>5 DEF OpInv, OpRec, Killing
  <2>7. OpInv(v, o)
    BY <1>1, <1>2, <2>4, <2>5, <2>6 DEF OpInv, Down, Making, Ending, Killing
  <2> QED BY <1>1, <2>3, <2>7, RestStays, StillPasses, Moves
<1>4. CASE ~IsLive(pidfile[v], v)
  <2>1. ASSUME NEW p \in Pids, Runs(p, v) PROVE FALSE
    <3>1. pidfile[v].pid = p /\ pidfile[v].start = proc[p].born
      BY <1>2, <2>1 DEF VmInv
    <3>2. proc[p].live /\ proc[p].vm = v /\ proc[p] # None /\ proc[p].born \in Nat
      BY <1>2, <2>1 DEF Runs, IsVmm, ProcTypes, Proc
    <3>3. IsLive(pidfile[v], v)
      BY <3>1, <3>2 DEF IsLive, StartTime, NoneApart
    <3> QED BY <1>4, <3>3
  <2>2. NoVmm(v)'
    BY <1>1, <2>1 DEF NoVmm, Runs, IsVmm
  <2>3. Next1(v)
    BY <1>4 DEF Check
  <2> QED BY <1>1, <2>2, <2>3, RestStays, StillPasses, KillDone DEF Killing
<1> QED BY <1>3, <1>4

(* The signal goes to the process that was pinned, which is the VM's own;   *)
(* without pidfds, to that process or to one that came after the check.     *)
LEMMA Signalled ==
  ASSUME NoneApart, RuntimeInv, NEW v \in Vms, Signal(v)
  PROVE  RuntimeInv'
<1>1. PICK p : p = op[v].pid
  OBVIOUS
<1>2. /\ op[v].at = "signal" /\ Next1(v)
      /\ UNCHANGED <<up, jailed, pidfds, probe, births, child, pidfile, snap, kept, dropped, phase>>
  BY DEF Signal, At
<1>3. VmInv(v) /\ OpInv(v, op[v]) /\ ProcTypes /\ struck = FALSE
  BY DEF RuntimeInv
<1>4. /\ p \in Pids /\ p = pidfile[v].pid
      /\ \A q \in Pids : Runs(q, v) => q = p /\ (pidfds => proc[q].born = op[v].pin)
  BY <1>1, <1>2, <1>3 DEF OpInv, VmInv, Pidfile
<1>5. CASE Reaches(p, op[v].pin)
  <2>0. Pinned(p, op[v].pin) => proc[p].vm = v
    BY <1>1, <1>2, <1>3 DEF OpInv
  <2>1. proc[p] # None /\ ~Strikes(v, p, op[v].pin)
    BY <1>5, <2>0 DEF Reaches, Pinned, Strikes
  <2>2. proc' = [proc EXCEPT ![p].killed = TRUE] /\ struck' = FALSE
    BY <1>1, <1>3, <1>5, <2>1 DEF Signal
  <2>3. ProcTypes' /\ (\A w \in Vms : Passes(w)) /\ \A w \in Vms : ~Runs(p, w)'
    BY <1>2, <1>4, <2>1, <2>2, Struck
  <2>4. NoVmm(v)'
    BY <1>4, <2>3, RunsBefore DEF NoVmm
  <2>5. Rest
    BY <1>2, <2>2 DEF RuntimeInv, Rest, Probes
  <2> QED BY <1>2, <2>3, <2>4, <2>5, KillDone DEF Killing
<1>6. CASE ~Reaches(p, op[v].pin)
  <2>1. UNCHANGED <<proc, struck>>
    BY <1>1, <1>6 DEF Signal
  <2>2. NoVmm(v)'
    BY <1>4, <1>6, <2>1 DEF NoVmm, Runs, IsVmm, Reaches
  <2> QED BY <1>2, <2>1, <2>2, RestStays, StillPasses, KillDone DEF Killing
<1> QED BY <1>5, <1>6

LEMMA ChildTaken ==
  ASSUME NoneApart, RuntimeInv, NEW v \in Vms, TakeChild(v)
  PROVE  RuntimeInv'
<1>1. PICK o : o = [op[v] EXCEPT !.at = "reap", !.pid = child[v]]
  OBVIOUS
<1>2. /\ op[v].at = "wait" /\ child[v] # None /\ child' = [child EXCEPT ![v] = None]
      /\ op' = [op EXCEPT ![v] = o]
      /\ UNCHANGED <<up, jailed, pidfds, probe, struck, proc, births, pidfile, snap, kept, dropped, phase>>
  BY <1>1 DEF TakeChild, At, RuntimeInv, Tables
<1>3. VmInv(v) /\ OpInv(v, op[v])
  BY DEF RuntimeInv
<1>4. PICK p \in Pids : p = child[v] /\ Held(p, v)
  BY <1>2, <1>3 DEF VmInv
<1>5. /\ o \in OpRec /\ o.at = "reap" /\ o.pid = p
      /\ ~o.keep => (kept'[v] => dropped'[v])
  <2>1. o \in OpRec /\ o.at = "reap" /\ o.pid = p /\ o.keep = op[v].keep
    BY <1>1, <1>3, <1>4 DEF OpInv, OpRec, Ending
  <2> QED BY <1>2, <1>3, <2>1 DEF OpInv, Down, Ending
<1>6. NoVmm(v)' /\ Held(p, v)'
  BY <1>2, <1>3, <1>4 DEF OpInv, Down, Ending, NoVmm, Runs, IsVmm, Held
<1>7. /\ Tables' /\ op'[v] = o /\ child'[v] = None
      /\ \A w \in Vms \ {v} : Same(w)
  BY <1>2 DEF RuntimeInv, Tables, Same
<1>8. VmInv(v)'
  BY <1>2, <1>3, <1>6, <1>7 DEF VmInv, NoVmm
<1>9. OpInv(v, o)'
  BY <1>5, <1>6, <1>7 DEF OpInv, Down, Making, Killing, Ending
<1> QED BY <1>2, <1>7, <1>8, <1>9, OpNow, RestStays, StillPasses, StepOf

(* A VM's own process leaves the host once it has exited; no other VM holds *)
(* it.                                                                      *)
LEMMA Reaped ==
  ASSUME RuntimeInv, NEW v \in Vms, UNCHANGED <<births, pidfds>>, NEW p \in Pids, Held(p, v),
         proc' = [proc EXCEPT ![p] = None]
  PROVE  /\ ProcTypes' /\ \A w \in Vms \ {v} : Passes(w)
         /\ \A q \in Pids : proc'[q] = proc[q] \/ proc'[q] = None
         /\ \A q \in Pids : q # p => proc'[q] = proc[q]
BY GonePasses DEF Held, RuntimeInv, ProcTypes

LEMMA ChildReaped ==
  ASSUME NoneApart, RuntimeInv, NEW v \in Vms, ReapChild(v)
  PROVE  RuntimeInv'
<1>1. PICK p : p = op[v].pid
  OBVIOUS
<1>2. PICK o : o = [op[v] EXCEPT !.at = "clean", !.pid = None]
  OBVIOUS
<1>3. /\ op[v].at = "reap" /\ proc' = [proc EXCEPT ![p] = None]
      /\ op' = [op EXCEPT ![v] = o]
      /\ UNCHANGED <<up, jailed, pidfds, probe, struck, births, child, pidfile, snap, kept, dropped, phase>>
  BY <1>1, <1>2 DEF ReapChild, At, RuntimeInv, Tables
<1>4. VmInv(v) /\ OpInv(v, op[v])
  BY DEF RuntimeInv
<1>5. p \in Pids /\ Held(p, v) /\ NoVmm(v) /\ child[v] = None
  BY <1>1, <1>3, <1>4 DEF OpInv, Down, Ending
<1>6. o \in OpRec /\ o.at = "clean" /\ (~o.keep => (kept'[v] => dropped'[v]))
  <2>1. o \in OpRec /\ o.at = "clean" /\ o.keep = op[v].keep
    BY <1>2, <1>4 DEF OpInv, OpRec, Ending
  <2> QED BY <1>3, <1>4, <2>1 DEF OpInv, Down, Ending
<1>7. /\ ProcTypes' /\ \A w \in Vms \ {v} : Passes(w)
      /\ \A q \in Pids : proc'[q] = proc[q] \/ proc'[q] = None
  BY <1>3, <1>5, Reaped
<1>8. NoVmm(v)'
  BY <1>5, <1>7 DEF NoVmm, Runs, IsVmm
<1>9. Tables' /\ op'[v] = o /\ \A w \in Vms \ {v} : Same(w)
  BY <1>3, TablesStay
<1>10. VmInv(v)'
  BY <1>3, <1>4, <1>5, <1>8 DEF VmInv, NoVmm
<1>11. OpInv(v, o)'
  BY <1>3, <1>5, <1>6, <1>8 DEF OpInv, Down, Making, Killing, Ending
<1> QED BY <1>3, <1>7, <1>9, <1>10, <1>11, OpNow, RestStays, StepOf

LEMMA Waited ==
  ASSUME RuntimeInv, NEW v \in Vms, WaitDead(v)
  PROVE  RuntimeInv'
<1>1. PICK o : o = [op[v] EXCEPT !.at = "clean"]
  OBVIOUS
<1>2. /\ op[v].at = "wait" /\ child[v] = None /\ op' = [op EXCEPT ![v] = o]
      /\ UNCHANGED <<up, jailed, pidfds, probe, struck, proc, births, child, pidfile, snap, kept, dropped,
                     phase>>
  BY <1>1 DEF WaitDead, At, Goto
<1>3. o \in OpRec /\ o.at = "clean" /\ o.keep = op[v].keep
  BY <1>1, OpTyped, OpUpdates DEF Ending
<1>4. NoVmm(v) /\ (~o.keep => (kept[v] => dropped[v]))
  BY <1>2, <1>3 DEF RuntimeInv, OpInv, Down, Ending
<1>5. OpInv(v, o)
  BY <1>2, <1>3, <1>4 DEF OpInv, Down, Making, Killing, Ending
<1> QED BY <1>2, <1>5, RestStays, StillPasses, Moves

(* The snapshot goes if its removal was asked for; the record does not say  *)
(* so yet.                                                                  *)
LEMMA Cleaned ==
  ASSUME NoneApart, RuntimeInv, NEW v \in Vms, Clean(v)
  PROVE  RuntimeInv'
<1>1. PICK keep : keep = op[v].keep
  OBVIOUS
<1>2. PICK o : o = [op[v] EXCEPT !.at = "save", !.to = "idle", !.pid = None]
  OBVIOUS
<1>3. /\ op[v].at = "clean" /\ pidfile' = [pidfile EXCEPT ![v] = None]
      /\ snap' = [snap EXCEPT ![v] = IF keep THEN @ ELSE None]
      /\ UNCHANGED <<up, jailed, pidfds, probe, struck, proc, births, child, kept, dropped, phase>>
  BY <1>1 DEF Clean, At
<1>4. op' = [op EXCEPT ![v] = o]
  BY <1>2 DEF Clean, ToSave, RuntimeInv, Tables
<1>5. VmInv(v) /\ OpInv(v, op[v]) /\ keep \in BOOLEAN
  BY <1>1 DEF RuntimeInv, OpInv, OpRec
<1>6. o \in OpRec /\ o.at = "save" /\ o.to = "idle" /\ o.keep = keep
  BY <1>1, <1>2, OpTyped, SaveUpdates
<1>7. ~keep => (kept[v] => dropped[v])
  BY <1>1, <1>3, <1>5 DEF OpInv, Down, Ending
<1>8. pidfile'[v] = None /\ op'[v] = o /\ snap'[v] = IF keep THEN snap[v] ELSE None
  BY <1>3, <1>4 DEF RuntimeInv, Tables
<1>9. \A w \in Vms \ {v} : Same(w)
  BY <1>3, <1>4 DEF RuntimeInv, Tables, Same
<1>10. Tables'
  BY <1>3, <1>4 DEF RuntimeInv, Tables
<1>11. NoVmm(v)' /\ child'[v] = None
  BY <1>3, <1>5 DEF OpInv, Ending, NoVmm, Runs, IsVmm
<1>12. kept'[v] /\ ~dropped'[v] => IsPair(snap'[v])
  BY <1>3, <1>5, <1>7, <1>8 DEF VmInv
<1>13. VmInv(v)'
  BY <1>3, <1>5, <1>8, <1>11, <1>12 DEF VmInv, NoVmm
<1>14. OpInv(v, o)'
  BY <1>3, <1>6, <1>7, <1>11 DEF OpInv, Down, Making, Killing, Ending
<1> QED BY <1>3, <1>8, <1>9, <1>10, <1>13, <1>14, OpNow, RestStays, StillPasses, StepOf

(* The record is written: what the call found or left is what it says. *)
LEMMA Saved ==
  ASSUME NoneApart, RuntimeInv, NEW v \in Vms, Save(v)
  PROVE  RuntimeInv'
<1>1. PICK to, keep : to = op[v].to /\ keep = op[v].keep
  OBVIOUS
<1>2. PICK k, d : /\ k = (to = "paused" \/ (kept[v] /\ (to = "up" \/ keep)))
                  /\ d = (dropped[v] /\ (to = "up" \/ (to = "idle" /\ keep)))
  OBVIOUS
<1>3. k \in BOOLEAN /\ d \in BOOLEAN
  BY <1>2
<1>4. /\ op[v].at = "save" /\ phase' = [phase EXCEPT ![v] = to]
      /\ kept' = [kept EXCEPT ![v] = k] /\ dropped' = [dropped EXCEPT ![v] = d]
      /\ op' = [op EXCEPT ![v] = Idle]
      /\ UNCHANGED <<up, jailed, pidfds, probe, struck, proc, births, child, pidfile, snap>>
  BY <1>1, <1>2 DEF Save, At
<1>5. VmInv(v) /\ OpInv(v, op[v]) /\ to \in {"idle", "up", "paused"}
  BY <1>1 DEF RuntimeInv, OpInv, OpRec
<1>6. phase'[v] = to /\ kept'[v] = k /\ dropped'[v] = d /\ op'[v] = Idle
  BY <1>4 DEF RuntimeInv, Tables
<1>7. \A w \in Vms \ {v} : Same(w)
  BY <1>4 DEF RuntimeInv, Tables, Same
<1>8. Tables'
  <2>1. kept' \in [Vms -> BOOLEAN] /\ dropped' \in [Vms -> BOOLEAN]
    BY <1>3, <1>4 DEF RuntimeInv, Tables
  <2> QED BY <1>4, <2>1 DEF RuntimeInv, Tables
<1>9. k /\ ~d => IsPair(snap[v])
  <2>1. CASE to = "paused"
    BY <1>1, <1>4, <1>5, <2>1 DEF OpInv
  <2>2. CASE to # "paused"
    BY <1>2, <1>5, <2>2 DEF VmInv
  <2> QED BY <2>1, <2>2
<1>10. to = "idle" => NoVmm(v) /\ child[v] = None
  BY <1>1, <1>4, <1>5 DEF OpInv
<1>11. \A p \in Pids : (Runs(p, v)' <=> Runs(p, v)) /\ (Held(p, v)' <=> Held(p, v))
  BY <1>4 DEF Runs, IsVmm, Held
<1>12. VmInv(v)'
  <2>1. (child[v] # None => Held(child[v], v))'
    BY <1>4, <1>5 DEF VmInv, Held
  <2>2. (phase[v] = "idle" => child[v] = None /\ NoVmm(v))'
    BY <1>4, <1>6, <1>10, <1>11 DEF NoVmm
  <2>3. (kept[v] /\ ~dropped[v] => IsPair(snap[v]))'
    BY <1>4, <1>6, <1>9
  <2> QED BY <1>4, <1>5, <1>6, <1>11, <2>1, <2>2, <2>3 DEF VmInv
<1>13. OpInv(v, op[v])'
  <2>1. PICK o : o = Idle
    OBVIOUS
  <2>2. OpInv(v, o)'
    BY <2>1, IdleOp DEF OpInv, Down, Making, Killing, Ending
  <2> QED BY <1>6, <2>1, <2>2, OpNow
<1> QED BY <1>4, <1>7, <1>8, <1>12, <1>13, RestStays, StillPasses, StepOf

(* The reap before a restart: what exited leaves, the rest stays. *)
LEMMA ReapedToRestart ==
  ASSUME NoneApart, RuntimeInv, NEW v \in Vms, ReapToRestart(v)
  PROVE  RuntimeInv'
<1>1. /\ op[v] = Idle /\ Exited(v) /\ phase' = [phase EXCEPT ![v] = "idle"]
      /\ proc' = [p \in Pids |-> IF child[v] = p THEN None ELSE proc[p]]
      /\ child' = [child EXCEPT ![v] = None]
      /\ UNCHANGED <<up, jailed, pidfds, probe, struck, births, pidfile, snap, kept, dropped, op>>
  BY DEF ReapToRestart
<1>2. VmInv(v) /\ ProcTypes /\ NoVmm(v)
  BY <1>1, ExitedNoVmm DEF RuntimeInv
<1>3. \A q \in Pids : proc'[q] = IF child[v] = q THEN None ELSE proc[q]
  BY <1>1
<1>4. \A q \in Pids : child[v] = q => Held(q, v)
  BY <1>2 DEF VmInv, NoneApart
<1>5. ProcTypes'
  <2>1. proc' \in [Pids -> Proc \cup {None}]
    BY <1>1, <1>2 DEF ProcTypes
  <2> QED BY <1>1, <1>2, <1>3, <2>1 DEF ProcTypes
<1>6. \A w \in Vms \ {v} : Passes(w)
  BY SMTT(60), <1>1, <1>2, <1>3, <1>4 DEF Passes, Gone, Held, ProcTypes
<1>7. NoVmm(v)'
  BY <1>2, <1>3 DEF NoVmm, Runs, IsVmm
<1>8. /\ phase'[v] = "idle" /\ child'[v] = None
      /\ Tables' /\ \A w \in Vms \ {v} : Same(w)
  BY <1>1 DEF RuntimeInv, Tables, Same
<1>9. VmInv(v)'
  BY <1>1, <1>2, <1>7, <1>8 DEF VmInv, NoVmm
<1>10. OpInv(v, op[v])'
  <2>1. PICK o : o = Idle
    OBVIOUS
  <2>2. OpInv(v, o)'
    BY <2>1, IdleOp DEF OpInv, Down, Making, Killing, Ending
  <2>3. op'[v] = o
    BY <1>1, <2>1
  <2> QED BY <2>2, <2>3, OpNow
<1> QED BY <1>1, <1>5, <1>6, <1>8, <1>9, <1>10, RestStays, StepOf

-----------------------------------------------------------------------------
(* suspend *)

LEMMA Snapped ==
  ASSUME RuntimeInv, NEW v \in Vms,
         UNCHANGED <<up, jailed, pidfds, probe, struck, proc, births, child, pidfile, phase, kept,
                     dropped>>,
         NEW o \in OpRec, op' = [op EXCEPT ![v] = o],
         o.at = "movemem" \/ (o.at = "save" /\ o.to = "paused"),
         NEW s, IsPair(s), snap' = [snap EXCEPT ![v] = s]
  PROVE  RuntimeInv'
<1>1. VmInv(v)
  BY DEF RuntimeInv
<1>2. /\ op'[v] = o /\ snap'[v] = s
  BY DEF RuntimeInv, Tables
<1>3. \A w \in Vms \ {v} : Same(w)
  BY DEF RuntimeInv, Tables, Same
<1>4. Tables'
  BY DEF RuntimeInv, Tables
<1>5. \A p \in Pids : (Runs(p, v)' <=> Runs(p, v)) /\ (Held(p, v)' <=> Held(p, v))
  BY DEF Runs, IsVmm, Held
<1>6. VmInv(v)'
  <2>1. (child[v] # None => Held(child[v], v))'
    BY <1>1 DEF VmInv, Held
  <2> QED BY <1>1, <1>2, <1>5, <2>1 DEF VmInv, NoVmm
<1>7. OpInv(v, o)'
  BY <1>2 DEF OpInv, Down, Easy, Making, Killing, Ending
<1> QED BY <1>2, <1>3, <1>4, <1>6, <1>7, OpNow, RestStays, StillPasses, StepOf

LEMMA Shot ==
  ASSUME RuntimeInv, NEW v \in Vms, Shoot(v)
  PROVE  RuntimeInv'
<1>1. UNCHANGED <<up, jailed, pidfds, probe, struck, proc, births, child, pidfile>>
  BY DEF Shoot
<1>2. CASE jailed
  <2>1. PICK o : o = [op[v] EXCEPT !.at = "move"]
    OBVIOUS
  <2>2. o \in OpRec /\ o.at \in Easy
    BY <2>1, OpTyped, OpUpdates DEF Easy
  <2>3. op' = [op EXCEPT ![v] = o] /\ UNCHANGED <<snap, kept, dropped, phase>>
    BY <1>2, <2>1 DEF Shoot, Goto
  <2> QED BY <1>1, <2>2, <2>3, StillPasses, LightEasy, EasyMove
<1>3. CASE ~jailed
  <2>1. PICK s : s = Pair(shots + 1, shots + 1)
    OBVIOUS
  <2>2. IsPair(s)
    BY <2>1 DEF IsPair
  <2>3. PICK o : o = [op[v] EXCEPT !.at = "save", !.to = "paused", !.pid = None]
    OBVIOUS
  <2>4. o \in OpRec /\ o.at = "save" /\ o.to = "paused"
    BY <2>3, OpTyped, SaveUpdates
  <2>5. snap' = [snap EXCEPT ![v] = s] /\ op' = [op EXCEPT ![v] = o]
    BY <1>3, <2>1, <2>3 DEF Shoot, ToSave, RuntimeInv, Tables
  <2>6. UNCHANGED <<kept, dropped, phase>>
    BY DEF Shoot
  <2> QED BY <1>1, <2>2, <2>4, <2>5, <2>6, Snapped
<1> QED BY <1>2, <1>3

LEMMA VmstateMoved ==
  ASSUME RuntimeInv, NEW v \in Vms, MoveVmstate(v)
  PROVE  RuntimeInv'
<1>1. PICK s : s = Pair(IF snap[v] = None THEN None ELSE snap[v].mem, jail[v].out.vmstate)
  OBVIOUS
<1>2. IsPair(s)
  BY <1>1 DEF IsPair
<1>3. PICK o : o = [op[v] EXCEPT !.at = "movemem"]
  OBVIOUS
<1>4. o \in OpRec /\ o.at = "movemem"
  BY <1>3, OpTyped, OpUpdates
<1>5. /\ snap' = [snap EXCEPT ![v] = s] /\ op' = [op EXCEPT ![v] = o]
      /\ UNCHANGED <<up, jailed, pidfds, probe, struck, proc, births, child, pidfile, phase, kept, dropped>>
  BY <1>1, <1>3 DEF MoveVmstate, Goto, RuntimeInv, Tables
<1> QED BY <1>2, <1>4, <1>5, Snapped

LEMMA MemMoved ==
  ASSUME RuntimeInv, NEW v \in Vms, MoveMem(v)
  PROVE  RuntimeInv'
<1>1. PICK s : s = [snap[v] EXCEPT !.mem = jail[v].out.mem]
  OBVIOUS
<1>2. IsPair(s)
  <2>1. IsPair(snap[v])
    BY DEF RuntimeInv, OpInv, MoveMem, At
  <2>2. PICK mem, vmstate : snap[v] = Pair(mem, vmstate)
    BY <2>1 DEF IsPair
  <2>3. s = Pair(jail[v].out.mem, vmstate)
    BY SMTT(60), <1>1, <2>2 DEF Pair
  <2> QED BY <2>3 DEF IsPair
<1>3. PICK o : o = [op[v] EXCEPT !.at = "save", !.to = "paused", !.pid = None]
  OBVIOUS
<1>4. o \in OpRec /\ o.at = "save" /\ o.to = "paused"
  BY <1>3, OpTyped, SaveUpdates
<1>5. /\ snap' = [snap EXCEPT ![v] = s] /\ op' = [op EXCEPT ![v] = o]
      /\ UNCHANGED <<up, jailed, pidfds, probe, struck, proc, births, child, pidfile, phase, kept, dropped>>
  BY <1>1, <1>3 DEF MoveMem, ToSave, RuntimeInv, Tables
<1> QED BY <1>2, <1>4, <1>5, Snapped

-----------------------------------------------------------------------------
(* status, the processes and the daemon *)

LEMMA Asked ==
  ASSUME NoneApart, RuntimeInv, (\E v \in Vms : Ask(v)) \/ AskSocket \/ AskAlive
  PROVE  RuntimeInv'
<1>1. UNCHANGED <<up, jailed, pidfds, struck, proc, births, child, pidfile, snap, kept, dropped, phase, op>>
  BY DEF Ask, AskSocket, AskAlive
<1>2. Probes
  BY DEF RuntimeInv
<1>3. Probes'
  <2>1. ASSUME NEW v \in Vms, Ask(v) PROVE Probes'
    BY <2>1 DEF Ask, Probes
  <2>2. ASSUME NEW said \in {"exited", "alive"}, Say(said) PROVE Probes'
    BY <1>2, <2>2 DEF Say, Probes
  <2>3. CASE AskSocket
    BY <1>2, <2>2, <2>3 DEF AskSocket, Probing, Probes
  <2>4. CASE AskAlive
    BY <2>2, <2>4 DEF AskAlive, StatusOf
  <2> QED BY <2>1, <2>3, <2>4
<1>4. Rest
  BY <1>1, <1>3 DEF RuntimeInv, Rest
<1> QED BY <1>1, <1>4, StillPasses, Outside

(* A child that is there is not one that some call has taken. *)
LEMMA Tried ==
  ASSUME NoneApart, RuntimeInv, TryWait
  PROVE  RuntimeInv'
<1>1. PICK v : v = probe.vm
  OBVIOUS
<1>2. Probes /\ probe.at = "reap" /\ v \in Vms
  BY <1>1 DEF TryWait, Probing, RuntimeInv, Probes
<1>3. UNCHANGED <<up, jailed, pidfds, struck, births, pidfile, snap, kept, dropped, phase, op>>
  BY DEF TryWait
<1>4. CASE child[v] # None /\ ~proc[child[v]].live
  <2>1. PICK p : p = child[v]
    OBVIOUS
  <2>2. /\ proc' = [proc EXCEPT ![p] = None] /\ child' = [child EXCEPT ![v] = None]
        /\ Say("exited")
    BY <1>1, <1>4, <2>1 DEF TryWait
  <2>3. VmInv(v) /\ OpInv(v, op[v])
    BY <1>2 DEF RuntimeInv
  <2>4. p \in Pids /\ Held(p, v)
    BY <1>4, <2>1, <2>3 DEF VmInv
  <2>5. /\ ProcTypes' /\ \A w \in Vms \ {v} : Passes(w)
        /\ \A q \in Pids : proc'[q] = proc[q] \/ proc'[q] = None
        /\ \A q \in Pids : q # p => proc'[q] = proc[q]
    BY <1>2, <1>3, <2>2, <2>4, Reaped
  <2>6. NoVmm(v)
    BY <1>2, <1>4, DeadChild
  <2>7. NoVmm(v)'
    BY <2>5, <2>6 DEF NoVmm, Runs, IsVmm
  <2>8. /\ child'[v] = None /\ Tables' /\ \A w \in Vms \ {v} : Same(w)
    BY <1>2, <1>3, <2>2 DEF RuntimeInv, Tables, Same
  <2>9. Probes'
    BY <1>2, <2>2 DEF Say, Probes
  <2>10. VmInv(v)'
    BY <1>3, <2>3, <2>7, <2>8 DEF VmInv, NoVmm
  <2>11. PICK o : o = op[v]
    OBVIOUS
  <2>12. OpInv(v, o)'
    <3>1. o.at \notin Making \cup {"reap", "clean"}
      BY <1>4, <2>3, <2>11 DEF OpInv
    <3>2. o.at \in {"check", "signal"} => o.pid \in Pids
      BY <2>3, <2>11 DEF OpInv, VmInv, Pidfile
    <3>3. o.at = "signal" => (Pinned(o.pid, o.pin)' => proc'[o.pid].vm = v)
      BY <1>3, <2>3, <2>5, <2>11, <3>2 DEF OpInv, Pinned
    <3>4. o.at = "save" /\ o.to = "idle" => NoVmm(v)' /\ child'[v] = None
      BY <2>7, <2>8
    <3> QED BY <1>3, <2>3, <2>7, <2>11, <3>1, <3>3, <3>4 DEF OpInv, NoVmm, Making
  <2>13. OpInv(v, op[v])'
    BY <1>2, <1>3, <2>11, <2>12, OpNow
  <2>14. Rest
    BY <1>3, <2>9 DEF RuntimeInv, Rest
  <2> QED BY <1>2, <2>5, <2>8, <2>10, <2>13, <2>14, StepOf
<1>5. CASE ~(child[v] # None /\ ~proc[child[v]].live)
  <2>1. UNCHANGED <<proc, child>> /\ probe' = [probe EXCEPT !.at = "socket"]
    BY <1>1, <1>5 DEF TryWait
  <2>2. Probes'
    BY <1>2, <2>1 DEF Probes
  <2>3. Rest
    BY <1>3, <2>2 DEF RuntimeInv, Rest
  <2> QED BY <1>3, <2>1, <2>3, StillPasses, Outside
<1> QED BY <1>4, <1>5

LEMMA Bound ==
  ASSUME NoneApart, RuntimeInv, NEW p \in Pids, Bind(p)
  PROVE  RuntimeInv'
BY ApiTold, RestStays, Outside DEF Bind

LEMMA Exits ==
  ASSUME NoneApart, RuntimeInv, NEW p \in Pids, Exit(p)
  PROVE  RuntimeInv'
<1>1. /\ proc[p] # None
      /\ UNCHANGED <<up, jailed, pidfds, probe, struck, births, child, pidfile, snap, kept, dropped, phase,
                     op>>
  BY DEF Exit
<1>2. PICK q \in Proc : q = proc[p]
  BY <1>1 DEF RuntimeInv, ProcTypes
<1>3. CASE q.ours
  <2>1. PICK r : r = [q EXCEPT !.live = FALSE]
    OBVIOUS
  <2>2. /\ r \in Proc /\ r.vm = q.vm /\ r.born = q.born /\ r.ours = q.ours
        /\ r.known = q.known /\ r.live = FALSE /\ r.killed = q.killed
    BY <2>1, Updates
  <2>3. proc' = [proc EXCEPT ![p] = r]
    BY <1>2, <1>3, <2>1 DEF Exit
  <2>4. /\ r.vm = proc[p].vm /\ r.born = proc[p].born /\ r.ours = proc[p].ours
        /\ r.known = proc[p].known /\ (r.live => proc[p].live) /\ (proc[p].killed => r.killed)
    BY <1>2, <2>2
  <2>5. ProcTypes' /\ \A w \in Vms : Passes(w)
    BY <1>1, <2>2, <2>3, <2>4, AgedPasses
  <2> QED BY <1>1, <2>5, RestStays, Outside
<1>4. CASE ~q.ours
  <2>1. proc' = [proc EXCEPT ![p] = None]
    BY <1>2, <1>4 DEF Exit
  <2>2. ProcTypes' /\ \A w \in Vms : Passes(w)
    BY <1>1, <1>2, <1>4, <2>1, GonePasses DEF Held
  <2> QED BY <1>1, <2>2, RestStays, Outside
<1> QED BY <1>3, <1>4

LEMMA OtherStarts ==
  ASSUME NoneApart, RuntimeInv, NEW p \in Pids, Other(p)
  PROVE  RuntimeInv'
<1>1. PICK q : q = Vmm(Stranger, "bare")
  OBVIOUS
<1>2. q \in Proc /\ q.born = births + 1 /\ q.known = FALSE
  BY <1>1, VmmTyped DEF Modes
<1>3. PICK r : r = [q EXCEPT !.api = "none", !.ours = FALSE]
  OBVIOUS
<1>4. r \in Proc /\ r.born = births + 1 /\ r.known = FALSE
  BY <1>2, <1>3 DEF Proc
<1>5. /\ proc[p] = None /\ births' = births + 1 /\ proc' = [proc EXCEPT ![p] = r]
      /\ UNCHANGED <<up, jailed, pidfds, probe, struck, child, pidfile, snap, kept, dropped, phase, op>>
  BY <1>1, <1>3 DEF Other
<1>6. ProcTypes' /\ \A w \in Vms : Passes(w)
  BY <1>4, <1>5, BornPasses
<1> QED BY <1>5, <1>6, RestStays, Outside

LEMMA Crashes ==
  ASSUME NoneApart, RuntimeInv, Crash
  PROVE  RuntimeInv'
<1>1. /\ up' = FALSE /\ proc' = [p \in Pids |-> Orphaned(proc[p])]
      /\ child' = [v \in Vms |-> None] /\ op' = [v \in Vms |-> Idle]
      /\ probe' = [vm |-> None, at |-> "none", said |-> None]
      /\ UNCHANGED <<jailed, pidfds, births, pidfile, snap, phase, kept, dropped, struck>>
  BY DEF Crash
<1>2. ProcTypes /\ Tables /\ jailed \in BOOLEAN /\ pidfds \in BOOLEAN /\ struck = FALSE
  BY DEF RuntimeInv
<1>3. ASSUME NEW p \in Pids
      PROVE  \/ proc'[p] = None
             \/ /\ proc[p] # None /\ proc'[p] \in Proc
                /\ proc'[p].vm = proc[p].vm /\ proc'[p].born = proc[p].born
                /\ proc'[p].known = proc[p].known /\ proc'[p].live = proc[p].live
                /\ proc'[p].killed = proc[p].killed
  <2>1. proc'[p] = Orphaned(proc[p])
    BY <1>1
  <2>2. CASE proc[p] = None \/ ~proc[p].live
    BY <2>1, <2>2 DEF Orphaned
  <2>3. CASE proc[p] # None /\ proc[p].live
    <3>1. PICK q \in Proc : q = proc[p]
      BY <1>2, <2>3 DEF ProcTypes
    <3>2. proc'[p] = [q EXCEPT !.ours = FALSE]
      BY <2>1, <2>3, <3>1 DEF Orphaned
    <3>3. PICK r : r = [q EXCEPT !.ours = FALSE]
      OBVIOUS
    <3>4. /\ r \in Proc /\ r.vm = q.vm /\ r.born = q.born
          /\ r.known = q.known /\ r.live = q.live /\ r.killed = q.killed
      BY <3>3, Updates
    <3>5. proc'[p] = r /\ proc[p] = q
      BY <3>1, <3>2, <3>3
    <3> QED BY <2>3, <3>4, <3>5
  <2> QED BY <2>2, <2>3
<1>4. ProcTypes'
  <2>1. proc' = [p \in Pids |-> proc'[p]] /\ \A p \in Pids : proc'[p] \in Proc \cup {None}
    BY <1>1, <1>3
  <2>2. proc' \in [Pids -> Proc \cup {None}]
    BY <2>1
  <2> QED BY <1>1, <1>2, <1>3, <2>2 DEF ProcTypes
<1>5. \A v \in Vms, p \in Pids : Runs(p, v)' => Runs(p, v) /\ proc'[p].born = proc[p].born
  BY <1>3 DEF Runs, IsVmm
<1>6. ASSUME NEW v \in Vms PROVE VmInv(v)'
  <2>1. VmInv(v) /\ child'[v] = None
    BY <1>1 DEF RuntimeInv
  <2> QED BY <1>1, <1>5, <2>1 DEF VmInv, NoVmm
<1>7. PICK o : o = Idle
  OBVIOUS
<1>8. ASSUME NEW v \in Vms PROVE OpInv(v, op[v])'
  <2>1. OpInv(v, o)'
    BY <1>7, IdleOp DEF OpInv, Down, Making, Killing, Ending
  <2>2. op'[v] = o
    BY <1>1, <1>7
  <2> QED BY <2>1, <2>2, OpNow
<1>9. Tables' /\ Probes'
  BY <1>1, <1>2 DEF Tables, Probes
<1> QED BY <1>1, <1>2, <1>4, <1>6, <1>8, <1>9 DEF RuntimeInv

LEMMA Boots ==
  ASSUME RuntimeInv, Boot
  PROVE  RuntimeInv'
<1>1. Rest
  BY DEF Boot, RuntimeInv, Rest, Probes
<1> QED BY <1>1, StillPasses, Outside DEF Boot

-----------------------------------------------------------------------------
LEMMA RuntimeInit == Init => RuntimeInv
<1> SUFFICES ASSUME Init PROVE RuntimeInv
  OBVIOUS
<1>1. ProcTypes
  BY DEF Init, ProcTypes
<1>2. Tables /\ Probes
  BY DEF Init, Tables, Probes
<1>3. \A v \in Vms : NoVmm(v)
  BY DEF Init, NoVmm, Runs, IsVmm
<1>4. \A v \in Vms : VmInv(v)
  BY <1>3 DEF Init, VmInv, NoVmm
<1>5. \A v \in Vms : OpInv(v, op[v])
  BY LightIdle, OpEasy DEF Init
<1> QED BY <1>1, <1>2, <1>4, <1>5 DEF Init, RuntimeInv

LEMMA Stutters ==
  ASSUME RuntimeInv, UNCHANGED vars
  PROVE  RuntimeInv'
<1>1. UNCHANGED <<up, jailed, pidfds, probe, struck, proc, births, child, pidfile, snap, kept, dropped,
                  phase, op>>
  BY DEF vars
<1> QED BY <1>1, RestStays, StillPasses, Outside

LEMMA RuntimeNext ==
  ASSUME NoneApart, RuntimeInv, [Next]_vars
  PROVE  RuntimeInv'
<1>1. ASSUME NEW v \in Vms, CreateStep(v) PROVE RuntimeInv'
  <2>1. CASE MakeJail(v)
    <3>1. op[v].at \in Making
      BY <2>1 DEF MakeJail, At, Making
    <3>2. Goto(v, "link") \/ Goto(v, "spawn")
      BY <2>1 DEF MakeJail
    <3> QED BY <2>1, <3>1, <3>2, MakingMove DEF MakeJail
  <2>2. CASE Link(v)
    BY <2>2, MakingMove DEF Link, At, Making
  <2> QED BY <1>1, <2>1, <2>2, CreateStarts, SpawnRuns, PidfileWritten, SocketUp, Told, Failed
          DEF CreateStep
<1>2. ASSUME NEW v \in Vms, SuspendStep(v) PROVE RuntimeInv'
  BY <1>2, Told, Turned, Shot, VmstateMoved, MemMoved DEF SuspendStep
<1>3. ASSUME NEW v \in Vms, TearDownStep(v) PROVE RuntimeInv'
  BY <1>3, ChildKilled, NothingKilled, PidPinned, Checked, Signalled, ChildTaken, ChildReaped,
     Waited, Cleaned, Saved, Turned DEF TearDownStep
<1>4. ASSUME NEW v \in Vms, NEW keep \in BOOLEAN, NEW forced \in BOOLEAN,
             TakeDown(v, keep, forced)
      PROVE  RuntimeInv'
  BY <1>4, TakenDown
<1>5. ASSUME NEW v \in Vms, ReapToRestart(v) \/ Cancel(v) \/ Ask(v) PROVE RuntimeInv'
  BY <1>5, ReapedToRestart, Turned, Asked
<1>6. ASSUME NEW p \in Pids, Bind(p) \/ Exit(p) \/ Other(p) PROVE RuntimeInv'
  BY <1>6, Bound, Exits, OtherStarts
<1>7. CASE TryWait \/ AskSocket \/ AskAlive
  BY <1>7, Tried, Asked
<1>8. CASE Crash \/ Boot
  BY <1>8, Crashes, Boots
<1>9. CASE UNCHANGED vars
  BY <1>9, Stutters
<1> QED BY <1>1, <1>2, <1>3, <1>4, <1>5, <1>6, <1>7, <1>8, <1>9 DEF Next

(* What is known of each VM's process, pidfile, jail and snapshots at every  *)
(* step of create, kill, suspend and release is kept by every step of every  *)
(* VM, by exits, by strangers taking freed pids, by crashes and by a start   *)
(* with or without the jailer.                                               *)
THEOREM RuntimeInvariant ==
  ASSUME NoneApart
  PROVE  Spec => []RuntimeInv
<1>1. RuntimeInv /\ [Next]_vars => RuntimeInv'
  BY RuntimeNext
<1> QED BY <1>1, RuntimeInit, PTL DEF Spec

(* kill never signals a process other than the VM's own VMM: the signal     *)
(* goes to the process whose pidfd was opened before the pidfile's start    *)
(* time was compared (pidfile.rs signal_if, is_live), for every reuse of    *)
(* pids, exit, crash and change of the jailer's configuration.  On a kernel *)
(* without pidfds it reaches no process, other than that VMM, that was      *)
(* there when the pidfile was checked.                                      *)
THEOREM NoStrangerStruckHolds ==
  ASSUME NoneApart
  PROVE  Spec => []NoStrangerStruck
<1>1. RuntimeInv => NoStrangerStruck
  BY DEF RuntimeInv, NoStrangerStruck
<1> QED BY <1>1, RuntimeInvariant, PTL

INSTANCE FiniteSetTheorems

(* The children map or the pidfile leads to every VMM the runtime recorded  *)
(* and has not killed; a VM has one at most, and none while its record says *)
(* none (create, write_pidfile, recorded, teardown_vmm).                    *)
THEOREM VmmKnownHolds ==
  ASSUME NoneApart
  PROVE  Spec => []VmmKnown
<1>1. ASSUME RuntimeInv PROVE TypeOK
  <2>1. \A v \in Vms : VmInv(v) /\ op[v] \in OpRec
    BY <1>1 DEF RuntimeInv, OpInv
  <2>2. \A v \in Vms : DOMAIN op[v] = DOMAIN Idle
    BY <2>1 DEF OpRec, Idle
  <2>3. \A v \in Vms : /\ child[v] \in Pids \cup {None}
                       /\ pidfile[v] # None => pidfile[v].pid \in Pids
                       /\ phase[v] \in {"idle", "creating", "up", "paused"}
    BY <2>1 DEF VmInv, Pidfile
  <2>4. probe.at \in {"none", "reap", "socket", "alive"}
    BY <1>1 DEF RuntimeInv, Probes
  <2> QED BY <1>1, <2>2, <2>3, <2>4 DEF TypeOK, RuntimeInv, ProcTypes
<1>2. ASSUME RuntimeInv PROVE Findable
  <2> SUFFICES ASSUME NEW v \in Vms, NEW p \in Pids, Runs(p, v), child[v] # p
               PROVE  child[v] = None /\ pidfile[v] # None /\ pidfile[v].pid = p
                      /\ IsLive(pidfile[v], v)
    BY DEF Findable
  <2>1. VmInv(v) /\ ProcTypes
    BY <1>2 DEF RuntimeInv
  <2>2. pidfile[v] # None /\ pidfile[v].pid = p /\ pidfile[v].start = proc[p].born
    BY <2>1 DEF VmInv
  <2>3. child[v] = None
    BY <2>1, <2>2 DEF VmInv
  <2>4. proc[p].live /\ proc[p].vm = v /\ proc[p] # None /\ proc[p].born \in Nat
    BY <2>1 DEF Runs, IsVmm, ProcTypes, Proc
  <2> QED BY <2>2, <2>3, <2>4 DEF IsLive, StartTime, NoneApart
<1>3. ASSUME RuntimeInv PROVE OneVmm
  <2> SUFFICES ASSUME NEW v \in Vms
               PROVE  /\ Cardinality({p \in Pids : Runs(p, v)}) <= 1
                      /\ phase[v] = "idle" => {p \in Pids : Runs(p, v)} = {}
    BY DEF OneVmm
  <2>1. VmInv(v)
    BY <1>3 DEF RuntimeInv
  <2>2. phase[v] = "idle" => {p \in Pids : Runs(p, v)} = {}
    BY <2>1 DEF VmInv, NoVmm
  <2>3. CASE {p \in Pids : Runs(p, v)} = {}
    BY SMTT(60), <2>3, FS_EmptySet
  <2>4. CASE {p \in Pids : Runs(p, v)} # {}
    <3>1. PICK p \in Pids : Runs(p, v)
      BY <2>4
    <3>2. {q \in Pids : Runs(q, v)} = {p}
      BY <2>1, <3>1 DEF VmInv
    <3>3. Cardinality({p}) = 1
      BY FS_Singleton
    <3> QED BY SMTT(60), <2>2, <3>2, <3>3
  <2> QED BY <2>2, <2>3, <2>4
<1>4. RuntimeInv => VmmKnown
  BY <1>1, <1>2, <1>3 DEF VmmKnown
<1> QED BY <1>4, RuntimeInvariant, PTL

(* The snapshot a VM's record names is there until its removal is asked for, *)
(* whatever fails or crashes between a suspend's or a teardown's files and   *)
(* the record (suspend, bring_up's undo, teardown_vmm with keep_snapshot),   *)
(* for any number of VMs and suspends.                                       *)
THEOREM SnapshotKeptHolds ==
  ASSUME NoneApart
  PROVE  Spec => []SnapshotKept
<1>1. RuntimeInv => SnapshotKept
  BY DEF RuntimeInv, VmInv, NoneApart, SnapshotKept
<1> QED BY <1>1, RuntimeInvariant, PTL

(* status never says exited of a VM that has a live recorded VMM, whatever  *)
(* happened between its steps (the last arm of status).                     *)
THEOREM StatusTrueHolds ==
  ASSUME NoneApart
  PROVE  Spec => StatusTrue
<1>1. ASSUME RuntimeInv, [Next]_vars, probe'.said = "exited", probe.said # "exited"
      PROVE  \A p \in Pids : ~Runs(p, probe.vm)
  <2>1. CASE TryWait
    <3>1. probe.vm \in Vms
      BY <1>1, <2>1 DEF TryWait, Probing, RuntimeInv, Probes
    <3>2. child[probe.vm] # None /\ ~proc[child[probe.vm]].live
      BY <1>1, <2>1 DEF TryWait, RuntimeInv, Probes
    <3> QED BY <1>1, <3>1, <3>2, DeadChild DEF NoVmm
  <2>2. CASE AskAlive
    <3>1. probe.vm \in Vms
      BY <1>1, <2>2 DEF AskAlive, Probing, RuntimeInv, Probes
    <3>2. ~PidAlive(probe.vm)
      BY <1>1, <2>2 DEF AskAlive, Say, StatusOf, RuntimeInv, Probes
    <3> QED BY <1>1, <3>1, <3>2, NoneFound DEF NoVmm
  <2>3. CASE AskSocket
    BY <1>1, <2>3 DEF AskSocket, Say, RuntimeInv, Probes
  <2>4. CASE Crash \/ \E v \in Vms : Ask(v)
    BY SMTT(60), <1>1, <2>4 DEF Crash, Ask, NoneApart
  <2>5. ASSUME NEW v \in Vms, CreateStep(v) PROVE probe' = probe
    BY <2>5 DEF CreateStep, Create, MakeJail, Link, Spawn, WritePidfile, WaitSocket, Load,
       Configure, Start, Fail
  <2>6. ASSUME NEW v \in Vms, SuspendStep(v) PROVE probe' = probe
    BY <2>6 DEF SuspendStep, Pause, Shoot, MoveVmstate, MoveMem, SuspendFails, Resume
  <2>7. ASSUME NEW v \in Vms, TearDownStep(v) PROVE probe' = probe
    BY <2>7 DEF TearDownStep, KillChild, KillNothing, PidfdOpen, Check, Signal, TakeChild,
       ReapChild, WaitDead, Clean, Save, SaveFails
  <2>8. ASSUME NEW v \in Vms, NEW keep \in BOOLEAN, NEW forced \in BOOLEAN,
               TakeDown(v, keep, forced) \/ ReapToRestart(v) \/ Cancel(v)
        PROVE  probe' = probe
    BY <2>8 DEF TakeDown, ReapToRestart, Cancel
  <2>9. ASSUME NEW p \in Pids, Bind(p) \/ Exit(p) \/ Other(p) PROVE probe' = probe
    BY <2>9 DEF Bind, Exit, Other
  <2>10. ASSUME Boot \/ UNCHANGED vars PROVE probe' = probe
    BY <2>10 DEF Boot, vars
  <2>11. probe' # probe
    BY <1>1
  <2> QED BY <1>1, <2>1, <2>2, <2>3, <2>4, <2>5, <2>6, <2>7, <2>8, <2>9, <2>10, <2>11
          DEF Next
<1>2. RuntimeInv /\ [Next]_vars =>
        [probe'.said = "exited" /\ probe.said # "exited"
           => \A p \in Pids : ~(Runs(p, probe.vm))]_vars
  BY <1>1
<1> QED BY <1>2, RuntimeInvariant, PTL DEF Spec, StatusTrue

=============================================================================
