------------------------------- MODULE Sessions -------------------------------
(***************************************************************************)
(* Agent sessions (iso-master): a SQLite row and a mailbox per session, a   *)
(* headless pi worker and a VM on a control plane.  Every handler runs      *)
(* under the session's lock, one await at a time; the worker's reader, the  *)
(* one-second timer and the recovery after a restart run beside it.  A      *)
(* plane call may fail with its request still in flight, a client may go    *)
(* away and drop its handler, and the master may stop at any step.          *)
(***************************************************************************)
EXTENDS Naturals, FiniteSets, Sequences

CONSTANTS
  Sessions,    \* sessions that may come to exist, newest last
  Parent,      \* each session's planner, or NoParent for a root
  NoParent,
  MaxAgents,   \* max_agents: live workers, 0 for no cap
  MaxAllocs,   \* bound: creates asked of the plane for one session
  MaxMail,     \* bound: messages a mailbox ever holds (the code caps pending at 100)
  MaxEvents    \* bound: requests, failed calls, lost clients, dead workers and restarts,
               \* by the number of sessions there are

ASSUME SessionsAssumption ==
  /\ IsFiniteSet(Sessions) /\ NoParent \notin Sessions
  /\ Parent \in [Sessions -> Sessions \cup {NoParent}]
  /\ MaxAgents \in Nat /\ MaxAllocs \in Nat \ {0} /\ MaxMail \in Nat \ {0}
  /\ MaxEvents \in [0 .. Cardinality(Sessions) -> Nat]

VARIABLES
  sess,     \* store: phase, vm (0 for none) and error class of each session
  mail,     \* store: each mailbox, oldest first; sent counts the prompts made of it
  pi,       \* each worker process; "starting" ones are not in the workers map yet
  token,    \* worker_tokens
  task,     \* the handler that holds each session's lock
  closer,   \* the close_session handler, which holds swarm_gate
  auto,     \* what is left of auto_recover's list
  vms,      \* plane: the state of each VM labelled with the session
  work,     \* plane: prompts whose commands may be running in the guest
  flight,   \* requests the plane may still act on though the caller gave up
  allocs,   \* creates asked so far
  raced,    \* sessions a create was retried for with an earlier one in flight
  events    \* requests, faults and restarts so far

store == <<sess, mail>>
process == <<pi, token, task, closer, auto>>
plane == <<vms, work, flight, allocs, raced>>
vars == <<store, process, plane, events>>

Phases == {"none", "allocating", "allocation_unknown", "starting", "idle", "working",
           "sleeping", "asleep", "waking", "stopping", "stopped", "interrupted",
           "closing", "closed"}
Statuses == {"pending", "dispatching", "delivered", "uncertain", "cancelled"}
LaunchSteps == {"get", "term", "start", "ready", "pi"}
Operator == {"create", "prompt", "recover", "abort", "sleep", "stop", "reconcile",
             "retry", "close"}
Unattended == {"deliver", "sweep", "retire", "auto"}
Free == [op |-> "free", pc |-> "free", msg |-> 0]
Open == [pc |-> "none", todo |-> <<>>, all |-> <<>>]
Calls == {"create", "start", "suspend", "terminate", "halt", "retire", "destroy"}

TypeOK ==
  /\ sess \in [Sessions -> [phase : Phases, vm : 0 .. MaxAllocs,
                            err : {"none", "restart", "other"}]]
  /\ \A s \in Sessions :
       /\ mail[s] \in Seq([op : BOOLEAN, status : Statuses, sent : Nat])
       /\ Len(mail[s]) <= MaxMail
       /\ task[s].msg \in 0 .. Len(mail[s])
       /\ task[s].op \in Operator \cup Unattended \cup {"free"}
  /\ pi \in [Sessions -> {"none", "starting", "live", "dead"}]
  /\ token \in [Sessions -> BOOLEAN]
  /\ closer.pc \in {"none", "fence", "delete"}
  /\ auto \in Seq(Sessions)
  /\ vms \in [Sessions \X (1 .. MaxAllocs) -> {"none", "running", "suspended", "stopped"}]
  /\ work \in [Sessions -> Nat]
  /\ flight \subseteq [op : Calls, s : Sessions, n : 1 .. MaxAllocs]
  /\ allocs \in [Sessions -> 0 .. MaxAllocs] /\ raced \subseteq Sessions

Init ==
  /\ sess = [s \in Sessions |-> [phase |-> "none", vm |-> 0, err |-> "none"]]
  /\ mail = [s \in Sessions |-> <<>>]
  /\ pi = [s \in Sessions |-> "none"]
  /\ token = [s \in Sessions |-> FALSE]
  /\ task = [s \in Sessions |-> Free]
  /\ closer = Open
  /\ auto = <<>>
  /\ vms = [v \in Sessions \X (1 .. MaxAllocs) |-> "none"]
  /\ work = [s \in Sessions |-> 0]
  /\ flight = {}
  /\ allocs = [s \in Sessions |-> 0] /\ raced = {}
  /\ events = 0

-----------------------------------------------------------------------------
(* The store.                                                               *)

(* Phase::check *)
Check(old, new) ==
  \/ old = new
  \/ new = "closing" /\ old # "closed"
  \/ new \in CASE old = "allocating"         -> {"starting", "allocation_unknown", "interrupted"}
               [] old = "allocation_unknown" -> {"allocating", "interrupted", "closed"}
               [] old = "starting"           -> {"idle", "interrupted"}
               [] old = "idle"               -> {"working", "sleeping", "stopping", "interrupted"}
               [] old = "working"            -> {"idle", "stopping", "interrupted"}
               [] old = "sleeping"           -> {"asleep", "interrupted"}
               [] old = "asleep"             -> {"waking", "stopping", "interrupted"}
               [] old = "waking"             -> {"idle", "interrupted"}
               [] old = "stopping"           -> {"stopped", "interrupted"}
               [] old = "stopped"            -> {"waking", "stopping", "interrupted"}
               [] old = "interrupted"        -> {"starting", "stopping"}
               [] old = "closing"            -> {"closed", "interrupted"}
               [] OTHER                      -> {}

phase(s) == sess[s].phase

(* Store::phase: a new phase clears the error. *)
Moved(s, next) == [sess EXCEPT ![s] = [phase |-> next, vm |-> @.vm, err |-> "none"]]

InterruptAnything(s, why) ==
  [sess EXCEPT ![s] = [phase |-> "interrupted", vm |-> @.vm, err |-> why]]

(* Store::interrupt: closed, closing and ambiguous rows keep their phase. *)
Interrupt(s, why) ==
  IF phase(s) \in {"none", "closed", "closing", "allocation_unknown"}
  THEN sess
  ELSE [sess EXCEPT ![s] = [phase |-> "interrupted", vm |-> @.vm, err |-> why]]

Mark(s, m, status) == IF m = 0 THEN mail ELSE [mail EXCEPT ![s][m].status = status]
Pending(s) == {i \in DOMAIN mail[s] : mail[s][i].status = "pending"}
NextToOldest(is) == {i + 1 : i \in {i \in is : \A j \in is : i <= j}}
Oldest(is) == {i \in is : \A j \in is : i <= j}

Enqueue(s, byOperator) ==
  /\ Len(mail[s]) < MaxMail
  /\ mail' = [mail EXCEPT ![s] =
       Append(@, [op |-> byOperator, status |-> "pending", sent |-> 0])]

-----------------------------------------------------------------------------
(* Locks.  swarm_gate, placement and launch_gate are held exactly while the *)
(* handlers below run; session locks are task.                              *)
PlacementHeld == \E s \in Sessions : task[s].op \in {"create", "retry"}
SwarmGateHeld ==
  closer.pc # "none" \/ \E s \in Sessions : Parent[s] # NoParent /\ task[s].op = "create"
LaunchGateHeld == MaxAgents # 0 /\ \E s \in Sessions : task[s].pc \in LaunchSteps

Workers == {s \in Sessions : pi[s] \in {"live", "dead"}}
BelowAgentLimit == MaxAgents = 0 \/ Cardinality(Workers) < MaxAgents

Begin(s, op, pc, m) ==
  /\ task[s] = Free
  /\ task' = [task EXCEPT ![s] = [op |-> op, pc |-> pc, msg |-> m]]
Goto(s, pc) == task' = [task EXCEPT ![s].pc = pc]
Finish(s) == task' = [task EXCEPT ![s] = Free]
At(s, pc) == task[s].pc = pc

(* What the world does costs one of MaxEvents. *)
Existing == {s \in Sessions : sess[s].phase # "none" \/ task[s] # Free}
Outside == events < MaxEvents[Cardinality(Existing)] /\ events' = events + 1


Fault == Outside
FaultUnless(cause) ==
  \/ cause /\ UNCHANGED events
  \/ ~cause /\ Fault

KeepToken(s) == pi' = [pi EXCEPT ![s] = "none"] /\ UNCHANGED token

(* stop_worker: the token goes first, then the worker, closed and waited for. *)
StopWorker(s) ==
  /\ token' = [token EXCEPT ![s] = FALSE]
  /\ pi' = [pi EXCEPT ![s] = IF @ = "starting" THEN @ ELSE "none"]

-----------------------------------------------------------------------------
(* The plane.  A call either takes effect and says so, or fails: refused    *)
(* with no effect, or with the request left in flight.                      *)
Own(s) == <<s, sess[s].vm>>
VmState(s) == IF sess[s].vm = 0 THEN "none" ELSE vms[Own(s)]

Accepts(op, state) ==
  CASE op = "create"  -> state = "none"
    [] op = "start"   -> state \in {"suspended", "stopped"}
    [] op = "suspend" -> state = "running"
    [] op = "retire"  -> state = "suspended"
    [] OTHER          -> state # "none"

After(op) ==
  CASE op \in {"create", "start"} -> "running"
    [] op = "suspend"             -> "suspended"
    [] op = "destroy"             -> "none"
    [] OTHER                      -> "stopped"

(* What a request does when the plane acts on it.  Powering the guest off   *)
(* ends the commands that ran in it; a suspended guest keeps them.          *)
Effect(op, s, n) ==
  IF Accepts(op, vms[<<s, n>>])
  THEN /\ vms' = [vms EXCEPT ![<<s, n>>] = After(op)]
       /\ work' = IF n = sess[s].vm /\ op \in {"terminate", "halt", "retire", "destroy"}
                  THEN [work EXCEPT ![s] = 0] ELSE work
  ELSE UNCHANGED <<vms, work>>

Ok(op, s, n) == Accepts(op, vms[<<s, n>>]) /\ Effect(op, s, n) /\ UNCHANGED <<flight, events>>

(* An error answer: the plane refused, or the answer was lost or late. *)
Failed(op, s, n) ==
  /\ UNCHANGED <<vms, work>>
  /\ \/ ~Accepts(op, vms[<<s, n>>]) /\ UNCHANGED <<flight, events>>
     \/ Fault /\ flight' = flight \cup {[op |-> op, s |-> s, n |-> n]}

(* A read that fails costs nothing but the fault. *)
ReadFailed == Fault /\ UNCHANGED <<vms, work, flight>>

Lands(r) ==
  /\ r \in flight
  /\ flight' = flight \ {r}
  /\ Effect(r.op, r.s, r.n)
  /\ UNCHANGED <<store, process, allocs, raced, events>>

Lost(r) ==
  /\ r \in flight
  /\ flight' = flight \ {r}
  /\ UNCHANGED <<store, process, vms, work, allocs, raced, events>>

Labelled(s) == {n \in 1 .. MaxAllocs : vms[<<s, n>>] # "none"}

-----------------------------------------------------------------------------
(* create_node, for the operator and for a planner's spawn_child, which     *)
(* checks the parent before it waits for placement.                         *)
Create(s) ==
  /\ Outside
  /\ phase(s) = "none"
  /\ Parent[s] # NoParent =>
       /\ ~SwarmGateHeld
       /\ phase(Parent[s]) \notin {"none", "closed", "closing", "interrupted"}
  /\ Begin(s, "create", "placement", 0)
  /\ UNCHANGED <<store, pi, token, closer, auto, plane>>

(* The row and, for a child, its task message go in before the plane is asked. *)
Insert(s) ==
  /\ At(s, "placement")
  /\ \A o \in Sessions \ {s} : task[o].op \in {"create", "retry"} => At(o, "placement")
  /\ IF BelowAgentLimit
     THEN /\ sess' = Moved(s, "allocating")
          /\ mail' = [mail EXCEPT ![s] = IF Parent[s] = NoParent THEN <<>>
               ELSE <<[op |-> FALSE, status |-> "pending", sent |-> 0]>>]
          /\ allocs' = [allocs EXCEPT ![s] = 1]
          /\ Goto(s, "create")
     ELSE Finish(s) /\ UNCHANGED <<store, allocs>>
  /\ UNCHANGED <<pi, token, closer, auto, vms, work, flight, raced, events>>

(* The answer to a create.  A failed one is never retried: its VM may exist. *)
CreateAnswered(s) ==
  /\ At(s, "create")
  /\ \/ /\ Ok("create", s, allocs[s])
        /\ IF task[s].op = "create"
           THEN sess' = [sess EXCEPT ![s].vm = allocs[s]] /\ Goto(s, "gate")
           ELSE /\ sess' = [sess EXCEPT ![s] =
                     [phase |-> "interrupted", vm |-> allocs[s], err |-> "none"]]
                /\ Finish(s)
     \/ /\ Failed("create", s, allocs[s])
        /\ sess' = Moved(s, "allocation_unknown")
        /\ Finish(s)
  /\ UNCHANGED <<mail, pi, token, closer, auto, allocs, raced>>

-----------------------------------------------------------------------------
(* launch: under launch_gate, the VM up and ready, then pi.                 *)
Recovering(s) == task[s].op \in {"recover", "auto"}
Prompting(s) == task[s].op \in {"prompt", "deliver"}

(* The caller of a failed launch interrupts; a message being delivered is   *)
(* left uncertain.                                                          *)
LaunchFails(s) ==
  /\ sess' = Interrupt(s, "other")
  /\ mail' = Mark(s, task[s].msg, "uncertain")
  /\ Finish(s)

Launching(s) ==
  sess' = Moved(s, IF phase(s) \in {"asleep", "stopped"} THEN "waking" ELSE "starting")

UngatedLaunch(s) ==
  /\ At(s, "gate")
  /\ IF BelowAgentLimit
     THEN Launching(s) /\ Goto(s, "get") /\ UNCHANGED mail
     ELSE LaunchFails(s)
  /\ UNCHANGED <<pi, token, closer, auto, plane, events>>

Launch(s) ==
  /\ At(s, "gate")
  /\ ~LaunchGateHeld
  /\ IF BelowAgentLimit
     THEN Launching(s) /\ Goto(s, "get") /\ UNCHANGED mail
     ELSE LaunchFails(s)
  /\ UNCHANGED <<pi, token, closer, auto, plane, events>>

UnfencedGet(s) ==
  /\ At(s, "get")
  /\ \/ /\ VmState(s) # "none"
        /\ Goto(s, IF VmState(s) # "running" THEN "start" ELSE "ready")
        /\ UNCHANGED <<store, events>>
     \/ /\ FaultUnless(VmState(s) = "none")
        /\ LaunchFails(s)
  /\ UNCHANGED <<pi, token, closer, auto, plane>>

(* A recovery powers the guest off whatever state it is in. *)
LaunchGet(s) ==
  /\ At(s, "get")
  /\ \/ /\ VmState(s) # "none"
        /\ Goto(s, IF Recovering(s) THEN "term"
                   ELSE IF VmState(s) # "running" THEN "start" ELSE "ready")
        /\ UNCHANGED <<store, events>>
     \/ /\ FaultUnless(VmState(s) = "none")
        /\ LaunchFails(s)
  /\ UNCHANGED <<pi, token, closer, auto, plane>>

LaunchCall(s, pc, op, next) ==
  /\ At(s, pc)
  /\ \/ Ok(op, s, sess[s].vm) /\ Goto(s, next) /\ UNCHANGED store
     \/ Failed(op, s, sess[s].vm) /\ LaunchFails(s)
  /\ UNCHANGED <<pi, token, closer, auto, allocs, raced>>

LaunchTerm(s) == LaunchCall(s, "term", "terminate", "start")
LaunchStart(s) == LaunchCall(s, "start", "start", "ready")

(* The guest answers and resolves names; the worker gets a token and starts. *)
LaunchReady(s) ==
  /\ At(s, "ready")
  /\ \/ /\ VmState(s) = "running"
        /\ token' = [token EXCEPT ![s] = TRUE]
        /\ pi' = [pi EXCEPT ![s] = "starting"]
        /\ Goto(s, "pi")
        /\ UNCHANGED <<store, events>>
     \/ /\ FaultUnless(VmState(s) # "running")
        /\ LaunchFails(s)
        /\ UNCHANGED <<pi, token>>
  /\ UNCHANGED <<closer, auto, plane>>

(* The handshake is done: into the map, and idle, unless the worker's death *)
(* has interrupted the session in between.                                  *)
PiReady(s) ==
  /\ At(s, "pi")
  /\ pi' = [pi EXCEPT ![s] = IF @ = "dead" THEN "dead" ELSE "live"]
  /\ IF Check(phase(s), "idle")
     THEN /\ sess' = Moved(s, "idle")
          /\ IF Prompting(s) THEN Goto(s, "send") ELSE Finish(s)
          /\ UNCHANGED mail
     ELSE LaunchFails(s)
  /\ UNCHANGED <<token, closer, auto, plane, events>>

PiFails(s) ==
  /\ At(s, "pi")
  /\ FaultUnless(pi[s] = "dead")
  /\ pi' = [pi EXCEPT ![s] = "none"]
  /\ token' = [token EXCEPT ![s] = FALSE]
  /\ LaunchFails(s)
  /\ UNCHANGED <<closer, auto, plane>>

LaunchStep(s) ==
  \/ Launch(s) \/ LaunchGet(s) \/ LaunchTerm(s) \/ LaunchStart(s)
  \/ LaunchReady(s) \/ PiReady(s) \/ PiFails(s)

-----------------------------------------------------------------------------
(* The worker's reader, which holds no lock.                                *)

(* Its output ends: the session is interrupted.  A worker whose launch was  *)
(* dropped is killed with it and was never in the map.                      *)
Orphan(s) == pi[s] = "starting" /\ ~At(s, "pi")
PiDies(s) ==
  /\ pi[s] \in {"starting", "live"}
  /\ FaultUnless(Orphan(s))
  /\ pi' = [pi EXCEPT ![s] = IF Orphan(s) THEN "none" ELSE "dead"]
  /\ sess' = Interrupt(s, "other")
  /\ UNCHANGED <<mail, token, task, closer, auto, plane>>

(* agent_settled: the turn is over and its commands with it. *)
Settle(s) ==
  /\ pi[s] = "live"
  /\ work[s] > 0
  /\ work' = [work EXCEPT ![s] = 0]
  /\ sess' = [sess EXCEPT ![s].phase = IF @ = "working" THEN "idle" ELSE @]
  /\ UNCHANGED <<mail, process, vms, flight, allocs, raced, events>>

-----------------------------------------------------------------------------
(* Prompts: typed by the operator, or delivered from the mailbox.           *)
Wakes(s) == IF phase(s) \in {"asleep", "stopped"} THEN "gate" ELSE "send"

SubmitPrompt(s) ==
  /\ Outside
  /\ task[s] = Free
  /\ phase(s) \in {"idle", "asleep", "stopped", "working"}
  /\ IF phase(s) = "working" \/ Pending(s) # {}
     THEN Enqueue(s, TRUE) /\ UNCHANGED task
     ELSE /\ Begin(s, "prompt", Wakes(s), 0)
          /\ UNCHANGED mail
  /\ UNCHANGED <<sess, pi, token, closer, auto, plane>>

(* send_message between a planner and its child, by a worker with a token. *)
WorkerActive(s) == token[s] /\ phase(s) \in {"idle", "working", "starting", "waking"}
SendMessage(from, to) ==
  /\ Outside
  /\ WorkerActive(from)
  /\ Parent[to] = from \/ Parent[from] = to
  /\ phase(to) \notin {"none", "closed", "closing"}
  /\ Enqueue(to, FALSE)
  /\ UNCHANGED <<sess, process, plane>>

CancelQueued(s, i) ==
  /\ Outside
  /\ i \in Pending(s)
  /\ mail[s][i].op
  /\ mail' = Mark(s, i, "cancelled")
  /\ UNCHANGED <<sess, process, plane>>

DeliverIdleOnly(s) ==
  /\ phase(s) = "idle"
  /\ \E m \in Oldest(Pending(s)) :
       mail' = Mark(s, m, "dispatching") /\ Begin(s, "deliver", Wakes(s), m)
  /\ UNCHANGED <<sess, pi, token, closer, auto, plane, events>>

(* deliver_messages: the timer takes the oldest pending message. *)
Deliver(s) ==
  /\ phase(s) \in {"idle", "asleep", "stopped"}
  /\ \E m \in Oldest(Pending(s)) :
       mail' = Mark(s, m, "dispatching") /\ Begin(s, "deliver", Wakes(s), m)
  /\ UNCHANGED <<sess, pi, token, closer, auto, plane, events>>

PromptSend(s) ==
  /\ At(s, "send")
  /\ IF phase(s) = "idle" /\ s \in Workers
     THEN /\ sess' = Moved(s, "working")
          /\ work' = [work EXCEPT ![s] = @ + 1]
          /\ mail' = IF task[s].msg = 0 THEN mail
                     ELSE [mail EXCEPT ![s][task[s].msg].sent = @ + 1]
          /\ Goto(s, "ack")
     ELSE /\ mail' = Mark(s, task[s].msg, "uncertain")
          /\ Finish(s)
          /\ UNCHANGED <<sess, work>>
  /\ UNCHANGED <<pi, token, closer, auto, vms, flight, allocs, raced, events>>

PromptAcked(s) ==
  /\ At(s, "ack")
  /\ pi[s] = "live"
  /\ mail' = Mark(s, task[s].msg, "delivered")
  /\ Finish(s)
  /\ UNCHANGED <<sess, pi, token, closer, auto, plane, events>>

PromptUnacked(s) ==
  /\ At(s, "ack")
  /\ FaultUnless(pi[s] # "live")
  /\ sess' = Interrupt(s, "other")
  /\ mail' = Mark(s, task[s].msg, "uncertain")
  /\ Finish(s)
  /\ UNCHANGED <<pi, token, closer, auto, plane>>

PromptStep(s) == PromptSend(s) \/ PromptAcked(s) \/ PromptUnacked(s)

-----------------------------------------------------------------------------
(* Recovery, abort, sleep, stop and the retiring of suspensions.            *)
Recover(s) ==
  /\ Outside
  /\ phase(s) = "interrupted"
  /\ Begin(s, "recover", "gate", 0)
  /\ StopWorker(s)
  /\ UNCHANGED <<store, closer, auto, plane>>

(* auto_recover: one at a time, down the list made at start-up. *)
AutoRecover ==
  /\ auto # <<>>
  /\ \A o \in Sessions : task[o].op # "auto"
  /\ LET s == Head(auto) IN
     /\ task[s] = Free
     /\ IF phase(s) = "interrupted"
        THEN Begin(s, "auto", "gate", 0) /\ StopWorker(s)
        ELSE UNCHANGED <<task, pi, token>>
  /\ auto' = Tail(auto)
  /\ UNCHANGED <<store, closer, plane, events>>

(* abort: interrupted first, so that nothing is delivered while it halts. *)
Abort(s) ==
  /\ Outside
  /\ phase(s) = "working"
  /\ sess' = Interrupt(s, "other")
  /\ StopWorker(s)
  /\ Begin(s, "abort", "halt", 0)
  /\ UNCHANGED <<mail, closer, auto, plane>>

Sleep(s, op) ==
  /\ phase(s) = "idle"
  /\ sess' = Moved(s, "sleeping")
  /\ StopWorker(s)
  /\ Begin(s, op, "suspend", 0)
  /\ IF op = "sleep" THEN Outside ELSE UNCHANGED events
  /\ UNCHANGED <<mail, closer, auto, plane>>

StopVmAnytime(s) ==
  /\ Outside
  /\ phase(s) # "none"
  /\ sess[s].vm # 0
  /\ sess' = Moved(s, "stopping")
  /\ StopWorker(s)
  /\ Begin(s, "stop", "terminate", 0)
  /\ UNCHANGED <<mail, closer, auto, plane>>

StopVm(s) ==
  /\ Outside
  /\ phase(s) \in {"idle", "working", "asleep", "stopped", "interrupted"}
  /\ sess[s].vm # 0
  /\ sess' = Moved(s, "stopping")
  /\ StopWorker(s)
  /\ Begin(s, "stop", "terminate", 0)
  /\ UNCHANGED <<mail, closer, auto, plane>>

(* retire_suspension_locked: a pending message comes first. *)
Retire(s) ==
  /\ phase(s) = "asleep"
  /\ Pending(s) = {}
  /\ sess' = Moved(s, "stopping")
  /\ Begin(s, "retire", "retire", 0)
  /\ UNCHANGED <<mail, pi, token, closer, auto, plane, events>>

HaltAnswered(s) ==
  /\ At(s, "halt")
  /\ Ok("halt", s, sess[s].vm) \/ Failed("halt", s, sess[s].vm)
  /\ Finish(s)
  /\ UNCHANGED <<store, pi, token, closer, auto, allocs, raced>>

SuspendAnswered(s) ==
  /\ At(s, "suspend")
  /\ \/ Ok("suspend", s, sess[s].vm) /\ sess' = Moved(s, "asleep")
     \/ Failed("suspend", s, sess[s].vm) /\ sess' = Interrupt(s, "other")
  /\ Finish(s)
  /\ UNCHANGED <<mail, pi, token, closer, auto, allocs, raced>>

(* A retired VM is resumed to shut down cleanly, and may be left running. *)
LeftRunning(s) ==
  /\ Fault
  /\ vms[Own(s)] = "suspended"
  /\ vms' = [vms EXCEPT ![Own(s)] = "running"]
  /\ UNCHANGED <<work, flight>>

StopAnswered(s) ==
  /\ task[s].pc \in {"terminate", "retire"}
  /\ \/ Ok(task[s].pc, s, sess[s].vm) /\ Goto(s, "confirm") /\ UNCHANGED sess
     \/ /\ Failed(task[s].pc, s, sess[s].vm) \/ (At(s, "retire") /\ LeftRunning(s))
        /\ sess' = Interrupt(s, "other")
        /\ Finish(s)
  /\ UNCHANGED <<mail, pi, token, closer, auto, allocs, raced>>

StopConfirmed(s) ==
  /\ At(s, "confirm")
  /\ \/ VmState(s) = "stopped" /\ sess' = Moved(s, "stopped") /\ UNCHANGED events
     \/ FaultUnless(VmState(s) # "stopped") /\ sess' = Interrupt(s, "other")
  /\ Finish(s)
  /\ UNCHANGED <<mail, pi, token, closer, auto, plane>>

-----------------------------------------------------------------------------
(* Ambiguous allocations.                                                   *)
Reconcile(s) ==
  /\ Outside
  /\ phase(s) = "allocation_unknown"
  /\ Begin(s, "reconcile", "list", 0)
  /\ UNCHANGED <<store, pi, token, closer, auto, plane>>

(* Exactly one VM with the session's label is taken on. *)
Reconciled(s) ==
  /\ At(s, "list")
  /\ \/ /\ Cardinality(Labelled(s)) = 1
        /\ \E n \in Labelled(s) :
             sess' = [sess EXCEPT ![s] = [phase |-> "interrupted", vm |-> n, err |-> @.err]]
        /\ UNCHANGED events
     \/ FaultUnless(Cardinality(Labelled(s)) # 1) /\ UNCHANGED sess
  /\ Finish(s)
  /\ UNCHANGED <<mail, pi, token, closer, auto, plane>>

(* The operator is told to look for unfinished allocations first; the code  *)
(* cannot see whether they did.                                             *)
RetryAllocation(s) ==
  /\ Outside
  /\ phase(s) = "allocation_unknown" /\ sess[s].vm = 0
  /\ ~PlacementHeld
  /\ allocs[s] < MaxAllocs
  /\ Begin(s, "retry", "relist", 0)
  /\ UNCHANGED <<store, pi, token, closer, auto, plane>>

RetryListed(s) ==
  /\ At(s, "relist")
  /\ \/ /\ Labelled(s) = {} /\ BelowAgentLimit
        /\ sess' = Moved(s, "allocating")
        /\ allocs' = [allocs EXCEPT ![s] = @ + 1]
        /\ raced' = IF \E r \in flight : r.op = "create" /\ r.s = s THEN raced \cup {s} ELSE raced
        /\ Goto(s, "create")
        /\ UNCHANGED events
     \/ /\ FaultUnless(Labelled(s) # {} \/ ~BelowAgentLimit)
        /\ Finish(s)
        /\ UNCHANGED <<sess, allocs, raced>>
  /\ UNCHANGED <<mail, pi, token, closer, auto, vms, work, flight>>

-----------------------------------------------------------------------------
(* close_session: the whole subtree is fenced, deepest first, then deleted. *)
Depth[s \in Sessions] == IF Parent[s] = NoParent THEN 0 ELSE 1 + Depth[Parent[s]]
Above[s \in Sessions] == IF Parent[s] = NoParent THEN {} ELSE {Parent[s]} \cup Above[Parent[s]]

(* The orders close_session may take a set in, and the ones a list of the   *)
(* newest first may be in: a planner is older than its children.            *)
Orders(set) ==
  {q \in [1 .. Cardinality(set) -> set] : \A i, j \in DOMAIN q : i # j => q[i] # q[j]}
DeepestFirst(set) ==
  {q \in Orders(set) : \A i, j \in DOMAIN q : i < j => Depth[q[i]] >= Depth[q[j]]}
NewestFirst(set) ==
  {q \in Orders(set) : \A i, j \in DOMAIN q : i < j => q[i] \notin Above[q[j]]}

Doomed(s) == {t \in Sessions : (t = s \/ s \in Above[t]) /\ phase(t) \notin {"none", "closed"}}

CloseUnreconciled(s) ==
  /\ Outside
  /\ ~SwarmGateHeld
  /\ Doomed(s) # {}
  /\ \E nodes \in DeepestFirst(Doomed(s)) :
       closer' = [pc |-> "fence", todo |-> nodes, all |-> nodes]
  /\ UNCHANGED <<store, pi, token, task, auto, plane>>

Close(s) ==
  /\ Outside
  /\ ~SwarmGateHeld
  /\ Doomed(s) # {}
  /\ \A t \in Doomed(s) : sess[t].vm # 0
  /\ \E nodes \in DeepestFirst(Doomed(s)) :
       closer' = [pc |-> "fence", todo |-> nodes, all |-> nodes]
  /\ UNCHANGED <<store, pi, token, task, auto, plane>>

Fence ==
  /\ closer.pc = "fence"
  /\ LET s == Head(closer.todo) IN
     /\ task[s] = Free
     /\ sess' = Moved(s, "closing")
     /\ StopWorker(s)
  /\ closer' = IF Len(closer.todo) > 1
               THEN [pc |-> "fence", todo |-> Tail(closer.todo), all |-> closer.all]
               ELSE [pc |-> "delete", todo |-> closer.all, all |-> closer.all]
  /\ UNCHANGED <<mail, task, auto, plane, events>>

CloseOneAnyway ==
  /\ closer.pc = "delete"
  /\ \A o \in Sessions : task[o].op # "close"
  /\ IF closer.todo = <<>>
     THEN closer' = Open /\ UNCHANGED <<sess, pi, token, task>>
     ELSE /\ closer' = [pc |-> "delete", todo |-> Tail(closer.todo), all |-> closer.all]
          /\ LET s == Head(closer.todo) IN
             /\ task[s] = Free
             /\ IF phase(s) = "closed"
                THEN UNCHANGED <<sess, pi, token, task>>
                ELSE /\ sess' = Moved(s, "closing")
                     /\ StopWorker(s)
                     /\ Begin(s, "close", "check", 0)
  /\ UNCHANGED <<mail, auto, plane, events>>

(* close_one, called for each in turn; one that fails does not stop the rest. *)
CloseOne ==
  /\ closer.pc = "delete"
  /\ \A o \in Sessions : task[o].op # "close"
  /\ IF closer.todo = <<>>
     THEN closer' = Open /\ UNCHANGED <<sess, pi, token, task>>
     ELSE /\ closer' = [pc |-> "delete", todo |-> Tail(closer.todo), all |-> closer.all]
          /\ LET s == Head(closer.todo) IN
             /\ task[s] = Free
             /\ IF \/ phase(s) = "closed"
                   \/ \E t \in Sessions : Parent[t] = s /\ phase(t) \notin {"none", "closed"}
                THEN UNCHANGED <<sess, pi, token, task>>
                ELSE /\ sess' = Moved(s, "closing")
                     /\ StopWorker(s)
                     /\ Begin(s, "close", "check", 0)
  /\ UNCHANGED <<mail, auto, plane, events>>

CloseFails(s) == sess' = [sess EXCEPT ![s].err = "other"] /\ Finish(s)

(* A VM the plane no longer lists was deleted by an earlier attempt. *)
CloseListed(s) ==
  /\ At(s, "check")
  /\ \/ VmState(s) = "none" /\ sess' = Moved(s, "closed") /\ Finish(s) /\ UNCHANGED events
     \/ VmState(s) # "none" /\ Goto(s, "destroy") /\ UNCHANGED <<sess, events>>
     \/ Fault /\ CloseFails(s)
  /\ UNCHANGED <<mail, pi, token, closer, auto, plane>>

DestroyAnswered(s) ==
  /\ At(s, "destroy")
  /\ \/ Ok("destroy", s, sess[s].vm) /\ sess' = Moved(s, "closed") /\ Finish(s)
     \/ Failed("destroy", s, sess[s].vm) /\ CloseFails(s)
  /\ UNCHANGED <<mail, pi, token, closer, auto, allocs, raced>>

-----------------------------------------------------------------------------
(* A client that disconnects drops its handler at the await it is in.       *)
CallOf(pc) == IF pc = "term" THEN "terminate" ELSE pc
InCall(s) == CallOf(task[s].pc) \in Calls
RequestOf(s) == [op |-> CallOf(task[s].pc), s |-> s,
                 n |-> IF At(s, "create") THEN allocs[s] ELSE sess[s].vm]

Disconnect(s) ==
  /\ task[s].op \in Operator \ {"close"}
  /\ Fault
  /\ flight' = IF InCall(s) THEN flight \cup {RequestOf(s)} ELSE flight
  /\ Finish(s)
  /\ UNCHANGED <<store, pi, token, closer, auto, vms, work, allocs, raced>>

DisconnectClose ==
  /\ closer # Open
  /\ Fault
  /\ flight' = flight \cup {RequestOf(s) : s \in {o \in Sessions : At(o, "destroy")}}
  /\ task' = [s \in Sessions |-> IF task[s].op = "close" THEN Free ELSE task[s]]
  /\ closer' = Open
  /\ UNCHANGED <<store, pi, token, auto, vms, work, allocs, raced>>

(* Store::recover, with which the next master begins. *)
Recovered(was) ==
  [s \in Sessions |->
     CASE was[s].phase = "allocating"
            -> [phase |-> "allocation_unknown", vm |-> was[s].vm, err |-> "none"]
       [] was[s].phase \in {"starting", "idle", "working", "sleeping", "waking", "stopping"}
            -> [phase |-> "interrupted", vm |-> was[s].vm, err |-> "restart"]
       [] OTHER -> was[s]]

Replayed ==
  [s \in Sessions |-> [i \in DOMAIN mail[s] |->
     IF mail[s][i].status = "dispatching" THEN [mail[s][i] EXCEPT !.status = "pending"]
     ELSE mail[s][i]]]

Undecided ==
  [s \in Sessions |-> [i \in DOMAIN mail[s] |->
     IF mail[s][i].status = "dispatching" THEN [mail[s][i] EXCEPT !.status = "uncertain"]
     ELSE mail[s][i]]]

StartedBy(rows) ==
  /\ Outside
  /\ sess' = Recovered(rows)
  /\ mail' = Undecided
  /\ auto' \in NewestFirst(
       {s \in Sessions : sess'[s].phase = "interrupted" /\ sess'[s].err = "restart"})
  /\ flight' = flight \cup {RequestOf(s) : s \in {o \in Sessions : InCall(o)}}
  /\ pi' = [s \in Sessions |-> "none"]
  /\ token' = [s \in Sessions |-> FALSE]
  /\ task' = [s \in Sessions |-> Free]
  /\ closer' = Open
  /\ UNCHANGED <<vms, work, allocs, raced>>

Crash == StartedBy(sess)

(* An orderly stop waits for the operator's handlers, then closes every     *)
(* worker and interrupts its session.                                       *)
Shutdown ==
  /\ \A s \in Sessions : task[s].op \in Unattended \cup {"free", "create", "close"}
  /\ StartedBy([s \in Sessions |-> IF s \in Workers THEN Interrupt(s, "restart")[s] ELSE sess[s]])

-----------------------------------------------------------------------------
Step(s) ==
  \/ Insert(s) \/ CreateAnswered(s) \/ LaunchStep(s) \/ PromptStep(s)
  \/ HaltAnswered(s) \/ SuspendAnswered(s) \/ StopAnswered(s) \/ StopConfirmed(s)
  \/ Reconciled(s) \/ RetryListed(s) \/ CloseListed(s) \/ DestroyAnswered(s)

Request(s) ==
  \/ Create(s) \/ SubmitPrompt(s) \/ Recover(s) \/ Abort(s) \/ Sleep(s, "sleep") \/ StopVm(s)
  \/ Reconcile(s) \/ RetryAllocation(s) \/ Close(s)
  \/ \E i \in DOMAIN mail[s] : CancelQueued(s, i)
  \/ \E to \in Sessions : SendMessage(s, to)

Timer(s) == Deliver(s) \/ Sleep(s, "sweep") \/ Retire(s)

Next ==
  \/ \E s \in Sessions :
       Step(s) \/ Request(s) \/ Timer(s) \/ PiDies(s) \/ Settle(s) \/ Disconnect(s)
  \/ AutoRecover \/ Fence \/ CloseOne \/ DisconnectClose
  \/ \E r \in flight : Lands(r) \/ Lost(r)
  \/ Crash \/ Shutdown

Spec == Init /\ [][Next]_vars

(* The timer polls every second, and a handler that holds a lock always     *)
(* ends: every call it waits for has a timeout.  The operator, the workers, *)
(* the sweeps and the faults owe nothing.                                   *)
Fairness ==
  /\ \A s \in Sessions : WF_vars(Step(s)) /\ SF_vars(Deliver(s))
  /\ WF_vars(AutoRecover) /\ WF_vars(Fence) /\ WF_vars(CloseOne)

FairSpec == Spec /\ Fairness

-----------------------------------------------------------------------------
(* Every phase a handler writes is one Phase::check lets it write: no       *)
(* transition of a handler that holds the lock fails half-way because the   *)
(* reader, the timer or a restart moved the row under it.                   *)
PhasesLegal ==
  [][\A s \in Sessions : phase(s) # "none" => Check(phase(s), sess'[s].phase)]_vars

(* No prompt is replayed: whatever crashes, restarts and timeouts come in   *)
(* between, a mailbox message is handed to pi at most once, never before it *)
(* was claimed, and exactly once if it is marked delivered.                 *)
AtMostOnce ==
  \A s \in Sessions : \A i \in DOMAIN mail[s] :
    LET m == mail[s][i] IN
    /\ m.sent <= 1
    /\ m.status \in {"pending", "cancelled"} => m.sent = 0
    /\ m.status = "delivered" => m.sent = 1

(* A prompt is sent only to a guest in which no earlier prompt's commands   *)
(* can still run: an interrupted session comes back only over a power-off.  *)
OneTurn == \A s \in Sessions : work[s] <= 1

(* Every VM labelled with a session is the one its row names, or the row    *)
(* still says that the allocation is open; a closed session has none.  Only *)
(* a retry made while an earlier create could still land may leave a VM     *)
(* that no row names (retry_allocation sees the VMs there are, and not the  *)
(* ones being made).                                                        *)
VmAccounted ==
  \A s \in Sessions \ raced :
    /\ \A n \in Labelled(s) :
         n = sess[s].vm \/ phase(s) \in {"allocating", "allocation_unknown"}
    /\ phase(s) = "closed" => Labelled(s) = {}

(* A planner is closed only after every session below it: an open session   *)
(* is a root, or its planner is open too.                                   *)
NoOrphanChild ==
  \A s \in Sessions : phase(s) \notin {"none", "closed"} =>
    Parent[s] = NoParent \/ phase(Parent[s]) \notin {"none", "closed"}

(* max_agents holds: the check in launch and the insertion into the workers *)
(* map are a whole VM start apart.                                          *)
AgentLimit == MaxAgents # 0 => Cardinality(Workers) <= MaxAgents

(* A token worker_identity accepts belongs to a worker process that exists. *)
TokenRevoked == \A s \in Sessions : WorkerActive(s) => pi[s] \in {"starting", "live"}

(* Workers are accounted for: no more of them than the cap, and no token     *)
(* that outlives its worker (launch, stop_worker).                          *)
WorkersKept == TypeOK /\ AgentLimit /\ TokenRevoked

(* Closing is a fence: no recovery, restart, late answer or dying worker    *)
(* brings a session back from it.                                           *)
ClosingIsFinal ==
  [][\A s \in Sessions : phase(s) = "closing" => sess'[s].phase \in {"closing", "closed"}]_vars

(* The phases move as model.rs says, whoever moves them, and closing ends    *)
(* them (Phase::check, close_session).                                      *)
PhasesKept == PhasesLegal /\ ClosingIsFinal

(* A phase that a handler means to leave, with no handler left to leave it. *)
Abandoned(s) ==
  /\ task[s] = Free /\ pi[s] # "starting"
  /\ phase(s) \in {"allocating", "starting", "waking", "sleeping", "stopping"}

(* A pending message does not wait for ever in a session that could take    *)
(* it: the timer takes it up, unless the session is interrupted, closed, or *)
(* left half-way by a client that went away.                                *)
MailMoves ==
  \A s \in Sessions :
    (task[s] = Free /\ Pending(s) # {} /\ phase(s) \in {"idle", "asleep", "stopped"})
      ~> \/ task[s].op = "deliver" \/ Pending(s) = {} \/ Abandoned(s)
         \/ phase(s) \in {"interrupted", "closing", "closed"}

(* "A disconnected browser can reconnect without stopping the agent": what  *)
(* a handler began, something still running will finish.  It does not hold: *)
(* a handler dropped with its client's request leaves the phase it was in.  *)
NotAbandoned == \A s \in Sessions : ~Abandoned(s)

(* auto_recover's promise: an interruption caused by a failure waits for    *)
(* the operator, and only what a restart interrupted is recovered unasked.  *)
(* It does not hold: a shutdown writes its own reason over a failure's.     *)
FailuresWait ==
  [][\A s \in Sessions :
       (phase(s) = "interrupted" /\ sess[s].err = "other" /\ sess'[s].err # "other")
         => task'[s].op \in Operator \/ sess'[s].phase = "closing"]_vars
=============================================================================
