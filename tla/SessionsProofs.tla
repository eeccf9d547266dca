--------------------------- MODULE SessionsProofs ---------------------------
(***************************************************************************)
(* Proofs about Sessions, for any number of sessions, any hierarchy of     *)
(* them, any cap on workers and any number of requests, faults and         *)
(* restarts.                                                               *)
(*                                                                         *)
(* The argument is about who may move a session's row.  A handler holds    *)
(* the session's lock, so each of its steps finds the phase its own last   *)
(* step left, but for what the worker's reader may do; and in a phase in   *)
(* which there is no worker, there is no reader either.  So the invariant  *)
(* says, for every step a handler may be at, in which phases the row is,   *)
(* whether a worker may exist, what the VM's row and the plane agree on,   *)
(* whether commands of an earlier prompt may still run in the guest, and   *)
(* how far the message it delivers has come.                               *)
(***************************************************************************)
EXTENDS Sessions, TLAPS

(* A leaf is for Zenon unless it cites SMT. *)
USE ZenonT(60)

Letter == [op : BOOLEAN, status : Statuses, sent : Nat]
Row == [phase : Phases, vm : 0 .. MaxAllocs, err : {"none", "restart", "other"}]
Steps == LaunchSteps \cup {"free", "placement", "create", "gate", "send", "ack", "halt",
           "suspend", "terminate", "retire", "confirm", "list", "relist", "check", "destroy"}
Handler == [op : Operator \cup Unattended \cup {"free"}, pc : Steps, msg : Nat]

Types ==
  /\ sess \in [Sessions -> Row]
  /\ mail \in [Sessions -> Seq(Letter)]
  /\ pi \in [Sessions -> {"none", "starting", "live", "dead"}]
  /\ token \in [Sessions -> BOOLEAN]
  /\ task \in [Sessions -> Handler]
  /\ closer \in [pc : {"none", "fence", "delete"}, todo : Seq(Sessions), all : Seq(Sessions)]
  /\ auto \in Seq(Sessions)
  /\ vms \in [Sessions \X (1 .. MaxAllocs) -> {"none", "running", "suspended", "stopped"}]
  /\ work \in [Sessions -> Nat]
  /\ flight \subseteq [op : Calls, s : Sessions, n : 1 .. MaxAllocs]
  /\ allocs \in [Sessions -> 0 .. MaxAllocs] /\ raced \subseteq Sessions

(* A message's own bounds, and the one a handler delivers: claimed, and    *)
(* sent only once its handler waits for the acknowledgement.               *)
Proper(m) ==
  /\ m.sent <= 1
  /\ m.status \in {"pending", "cancelled"} => m.sent = 0
  /\ m.status = "delivered" => m.sent = 1

Once(s) ==
  /\ Len(mail[s]) <= MaxMail
  /\ \A i \in DOMAIN mail[s] : Proper(mail[s][i])
  /\ task[s].msg # 0 =>
       /\ task[s].msg \in DOMAIN mail[s]
       /\ mail[s][task[s].msg].status = "dispatching"
       /\ mail[s][task[s].msg].sent = IF task[s].pc = "ack" THEN 1 ELSE 0
       /\ task[s].pc \in LaunchSteps \cup {"gate", "send", "ack"}

(* The rest of what is kept of a session is about ten values: the phase p  *)
(* and VM v of its row, the handler o and the step c it is at, the worker  *)
(* q and whether a token k is out, the prompts w at work, the creates a    *)
(* asked, the VMs L it is tied to and the creates C in flight.              *)

(* Where nothing of an earlier prompt can be running in the guest. *)
Rested == {"none", "allocating", "allocation_unknown", "idle", "sleeping", "asleep",
           "waking", "stopped"}
Fresh == {"placement", "create", "start", "ready", "pi", "send", "suspend", "confirm",
          "list", "relist"}
Turn(p, o, c, w) ==
  /\ w <= 1
  /\ p \in Rested \/ c \in Fresh => w = 0
  /\ c \in {"gate", "get"} /\ o \notin {"recover", "auto"} => w = 0

(* The phase a handler finds its session in, step by step. *)
Phased(p, o, c, q) ==
  /\ c = "placement" => p = "none" /\ o = "create"
  /\ c = "create" => p = "allocating" /\ o \in {"create", "retry"}
  /\ c = "gate" => \/ o = "create" /\ p = "allocating"
                   \/ o \in {"prompt", "deliver"} /\ p \in {"asleep", "stopped"}
                   \/ o \in {"recover", "auto"} /\ p = "interrupted"
  /\ c \in {"get", "term", "start", "ready"} => p \in {"starting", "waking"}
  /\ c = "pi" => \/ q = "starting" /\ p \in {"starting", "waking"}
                 \/ q = "dead" /\ p = "interrupted"
  /\ c = "send" => p \in {"idle", "interrupted"}
  /\ c = "ack" => p \in {"working", "idle", "interrupted"}
  /\ c = "halt" => p = "interrupted"
  /\ c = "suspend" => p = "sleeping"
  /\ c \in {"terminate", "retire", "confirm"} => p = "stopping"
  /\ c \in {"list", "relist"} => p = "allocation_unknown"
  /\ c = "relist" => o = "retry"
  /\ c \in {"check", "destroy"} <=> o = "close"
  /\ o = "close" => p = "closing"

(* Phases and steps in which there is neither a worker nor a token; one    *)
(* that is only starting is in no worker's phase, and a token that is      *)
(* accepted is that of a worker.                                           *)
Alone == {"none", "allocating", "allocation_unknown", "sleeping", "asleep", "stopping", "stopped"}
Tended(p, c, q, k) ==
  /\ p \in Alone \/ c \in {"gate", "get", "term", "start", "ready"} => q = "none" /\ k = FALSE
  /\ q = "starting" => p \in {"starting", "waking", "closing", "closed"}
  /\ k = TRUE /\ p \in {"idle", "working", "starting", "waking"} => q \in {"starting", "live"}

(* What the row, the plane and the requests in flight say of the VM: only  *)
(* the last create asked can have made one, and a row that names it has no *)
(* create left in flight.  Nothing of this holds once a create was retried *)
(* with an earlier one in flight: such a session is tied to no VM here.    *)
Tied(s) == IF s \in raced THEN {} ELSE Labelled(s)
Creates(s) == IF s \in raced THEN {} ELSE {r \in flight : r.op = "create" /\ r.s = s}
Unplaced == {"none", "allocating", "allocation_unknown"}
Owned(p, v, o, c, a, L, C) ==
  /\ L \subseteq {a} /\ (v # 0 => L \subseteq {v})
  /\ C # {} => L = {} /\ v = 0
  /\ \A r \in C : r.n = a
  /\ p \notin Unplaced \/ (c = "gate" /\ o = "create") => v # 0
  /\ p = "none" => a = 0 /\ v = 0
  /\ p = "closed" => L = {}
  /\ c \in {"create", "relist"} => v = 0
  /\ c = "create" => a # 0 /\ L = {} /\ C = {}
  /\ c = "relist" => a < MaxAllocs

Fit(p, v, o, c, q, k, w, a, L, C) ==
  Turn(p, o, c, w) /\ Phased(p, o, c, q) /\ Tended(p, c, q, k) /\ Owned(p, v, o, c, a, L, C)

Fits(s) == Fit(sess[s].phase, sess[s].vm, task[s].op, task[s].pc, pi[s], token[s], work[s],
               allocs[s], Tied(s), Creates(s))

(* The nodes a close has listed are all placed, and none is closed before  *)
(* every one is fenced.                                                    *)
Closing ==
  /\ \A i \in DOMAIN closer.todo : sess[closer.todo[i]].vm # 0
  /\ \A i \in DOMAIN closer.all : sess[closer.all[i]].vm # 0
  /\ closer.pc = "fence" =>
       /\ closer.todo # <<>>
       /\ \A i \in DOMAIN closer.todo : phase(closer.todo[i]) # "closed"
  /\ closer.pc # "delete" => \A s \in Sessions : task[s].op # "close"

(* One launch at a time, begun below the cap. *)
Capped ==
  MaxAgents # 0 =>
    /\ Cardinality(Workers) <= MaxAgents
    /\ \A s \in Sessions : task[s].pc \in LaunchSteps =>
         /\ Cardinality(Workers \ {s}) < MaxAgents
         /\ \A t \in Sessions : task[t].pc \in LaunchSteps => t = s

(* An open session and one being created have an open planner; none is     *)
(* created below a node while it is being closed.                          *)
Live(s) == sess[s].phase \notin {"none", "closed"}
Child(s) == Parent[s] # NoParent
Lineage ==
  \A s \in Sessions : Child(s) =>
    /\ Live(s) \/ task[s].op = "create" => Live(Parent[s])
    /\ task[s].op = "create" => closer.pc = "none"
    /\ task[Parent[s]].op = "close" => ~Live(s)

SessionsInv ==
  /\ Types /\ Closing
  /\ \A s \in Sessions : Once(s) /\ Fits(s)

-----------------------------------------------------------------------------
(* What a step leaves of the sessions it is not about, and what it makes   *)
(* of the one it is about, variable by variable.                           *)

Others(s) == Sessions \ {s}

RowOf(s, p, v) ==
  /\ sess' \in [Sessions -> Row] /\ sess'[s].phase = p /\ sess'[s].vm = v
  /\ \A t \in Others(s) : sess'[t] = sess[t]

TaskOf(s, o, c, m) ==
  /\ task' \in [Sessions -> Handler] /\ task'[s].op = o /\ task'[s].pc = c /\ task'[s].msg = m
  /\ \A t \in Others(s) : task'[t] = task[t]

WorkerOf(s, q, k) ==
  /\ pi' \in [Sessions -> {"none", "starting", "live", "dead"}] /\ pi'[s] = q
  /\ token' \in [Sessions -> BOOLEAN] /\ token'[s] = k
  /\ \A t \in Others(s) : pi'[t] = pi[t] /\ token'[t] = token[t]

MailOf(s) ==
  /\ mail' \in [Sessions -> Seq(Letter)]
  /\ \A t \in Others(s) : mail'[t] = mail[t]

PlaneOf(s, w, a, L, C) ==
  /\ vms' \in [Sessions \X (1 .. MaxAllocs) -> {"none", "running", "suspended", "stopped"}]
  /\ work' \in [Sessions -> Nat] /\ work'[s] = w
  /\ flight' \subseteq [op : Calls, s : Sessions, n : 1 .. MaxAllocs]
  /\ allocs' \in [Sessions -> 0 .. MaxAllocs] /\ allocs'[s] = a /\ raced' \subseteq Sessions
  /\ Tied(s)' = L /\ Creates(s)' = C
  /\ \A t \in Others(s) : /\ work'[t] = work[t] /\ allocs'[t] = allocs[t]
                          /\ Tied(t)' = Tied(t) /\ Creates(t)' = Creates(t)

(* A phase may follow another, and closing ends them. *)
Legal(old, new) ==
  /\ old # "none" => Check(old, new)
  /\ old = "closing" => new \in {"closing", "closed"}

PhaseStep == \A s \in Sessions : Legal(sess[s].phase, sess'[s].phase)

(* What happens to the number of workers: no more of them and no launch    *)
(* that was not there; or a launch begun with the gate and below the cap;  *)
(* or the worker of a launch joins them.                                   *)
CapStep ==
  \/ /\ Workers' \subseteq Workers
     /\ \A t \in Sessions : task'[t].pc \in LaunchSteps => task[t].pc \in LaunchSteps
  \/ \E s \in Sessions :
       /\ ~LaunchGateHeld /\ BelowAgentLimit /\ Workers' = Workers
       /\ \A t \in Others(s) : task'[t] = task[t]
  \/ \E s \in Sessions :
       /\ task[s].pc \in LaunchSteps /\ Workers' = Workers \cup {s}
       /\ \A t \in Sessions : task'[t].pc \in LaunchSteps => task[t].pc \in LaunchSteps

(* What happens to the tree: sessions come with a create and go with a     *)
(* close, a create below a planner begins under swarm_gate and finds the   *)
(* planner open, and a close of a node finds nothing open below it.        *)
LineStep ==
  /\ \A s \in Sessions : ~Live(s) /\ Live(s)' => task[s].op = "create"
  /\ \A s \in Sessions : Live(s) /\ ~Live(s)' => task[s].op = "close"
  /\ \A s \in Sessions : task'[s].op = "create" =>
       task[s].op = "create" \/ ~Child(s) \/ (closer.pc = "none" /\ Live(Parent[s]))
  /\ \A s \in Sessions : task'[s].op = "close" =>
       \/ task[s].op = "close"
       \/ closer.pc = "delete" /\ \A t \in Sessions : Parent[t] = s => ~Live(t)
  /\ \/ closer'.pc = "none" \/ closer.pc # "none"
     \/ \A s \in Sessions : Child(s) => task'[s].op # "create"

Kept == SessionsInv' /\ PhaseStep /\ CapStep /\ LineStep

LEMMA OthersSound ==
  ASSUME SessionsInv, NEW s \in Sessions, NEW p, NEW v, NEW o, NEW c, NEW m, NEW q, NEW k, NEW w,
         NEW a, NEW L, NEW C, RowOf(s, p, v), TaskOf(s, o, c, m), WorkerOf(s, q, k),
         PlaneOf(s, w, a, L, C), MailOf(s)
  PROVE  \A t \in Others(s) : Once(t)' /\ Fits(t)'
<1> SUFFICES ASSUME NEW t \in Others(s) PROVE Once(t)' /\ Fits(t)'
  OBVIOUS
<1>1. t \in Sessions /\ Once(t) /\ Fits(t)
  BY DEF SessionsInv, Others
<1>2. /\ sess'[t] = sess[t] /\ task'[t] = task[t] /\ mail'[t] = mail[t] /\ pi'[t] = pi[t]
      /\ token'[t] = token[t]
  BY DEF RowOf, TaskOf, WorkerOf, MailOf
<1>3. /\ work'[t] = work[t] /\ allocs'[t] = allocs[t]
      /\ Tied(t)' = Tied(t) /\ Creates(t)' = Creates(t)
  BY DEF PlaneOf
<1>4. Once(t)'
  BY <1>1, <1>2 DEF Once
<1>5. Fits(t)'
  BY <1>1, <1>2, <1>3 DEF Fits
<1> QED
  BY <1>4, <1>5

LEMMA LegalSame ==
  ASSUME NEW p PROVE Legal(p, p)
  BY DEF Legal, Check

LEMMA LegalOpen ==
  ASSUME NEW p, NEW q, Legal(p, q)
  PROVE  (p = "closed" => q = "closed") /\ (p # "none" => q # "none")
  BY SMTT(60) DEF Legal, Check

(* A step about one session keeps the invariant if it leaves that session  *)
(* sound and legal and closes none that is only fenced; and the cap, if it *)
(* adds neither a worker nor a launch.                                     *)
Closer == [pc : {"none", "fence", "delete"}, todo : Seq(Sessions), all : Seq(Sessions)]

LEMMA OneSessionSound ==
  ASSUME SessionsInv, NEW s \in Sessions, NEW p, NEW v, NEW o, NEW c, NEW m, NEW q, NEW k, NEW w,
         NEW a, NEW L, NEW C, RowOf(s, p, v), TaskOf(s, o, c, m), WorkerOf(s, q, k),
         PlaneOf(s, w, a, L, C), MailOf(s),
         Once(s)', Fit(p, v, o, c, q, k, w, a, L, C), Legal(sess[s].phase, p),
         closer' \in Closer, auto' \in Seq(Sessions)
  PROVE  Types' /\ (\A t \in Sessions : Once(t)' /\ Fits(t)') /\ PhaseStep
<1>1. \A t \in Sessions : Once(t)' /\ Fits(t)'
  <2>1. Fits(s)'
    BY DEF Fits, RowOf, TaskOf, WorkerOf, PlaneOf
  <2> QED
    BY <2>1, OthersSound DEF Others
<1>2. Types'
  BY DEF Types, RowOf, TaskOf, WorkerOf, PlaneOf, MailOf, Closer
<1>3. PhaseStep
  BY LegalSame DEF PhaseStep, RowOf, Others
<1> QED
  BY <1>1, <1>2, <1>3

LEMMA CloserTyped ==
  ASSUME Types
  PROVE  /\ closer \in Closer /\ closer.todo \in Seq(Sessions) /\ closer.all \in Seq(Sessions)
         /\ \A i \in DOMAIN closer.todo : closer.todo[i] \in Sessions
         /\ \A i \in DOMAIN closer.all : closer.all[i] \in Sessions
<1>1. closer \in Closer /\ closer.todo \in Seq(Sessions) /\ closer.all \in Seq(Sessions)
  BY DEF Types, Closer
<1> QED
  BY <1>1, SMTT(60)

LEMMA OneSessionInv ==
  ASSUME SessionsInv, NEW s \in Sessions, NEW p, NEW v, NEW o, NEW c, NEW m, NEW q, NEW k, NEW w,
         NEW a, NEW L, NEW C, RowOf(s, p, v), TaskOf(s, o, c, m), WorkerOf(s, q, k),
         PlaneOf(s, w, a, L, C), MailOf(s),
         Once(s)', Fit(p, v, o, c, q, k, w, a, L, C), Legal(sess[s].phase, p),
         closer' = closer, auto' \in Seq(Sessions),
         sess[s].vm # 0 => v # 0,
         p = "closed" => sess[s].phase = "closed" \/ task[s].op = "close",
         o = "close" => task[s].op = "close",
         sess[s].phase = "none" => p = "none" \/ task[s].op = "create",
         o = "create" => task[s].op = "create" \/ ~Child(s) \/ (closer.pc = "none" /\ Live(Parent[s]))
  PROVE  SessionsInv' /\ PhaseStep /\ LineStep
<1>1. closer' \in Closer
  BY CloserTyped DEF SessionsInv
<1>2. Types' /\ (\A t \in Sessions : Once(t)' /\ Fits(t)') /\ PhaseStep
  BY <1>1, OneSessionSound
<1>3. /\ \A t \in Sessions : sess[t].vm # 0 => sess'[t].vm # 0
      /\ \A t \in Sessions : sess'[t].phase = "closed" => sess[t].phase = "closed" \/ task[t].op = "close"
      /\ \A t \in Sessions : task'[t].op = "close" => task[t].op = "close"
  BY DEF RowOf, TaskOf, Others
<1>4. Closing'
  BY <1>3, CloserTyped DEF SessionsInv, Closing, phase
<1>5. LineStep
  <2>1. \A t \in Sessions : ~Live(t) /\ Live(t)' => task[t].op = "create"
    BY LegalOpen DEF Live, RowOf, Others
  <2>2. \A t \in Sessions : Live(t) /\ ~Live(t)' => task[t].op = "close"
    BY <1>3, LegalOpen DEF Live, RowOf, Others
  <2>3. \A t \in Sessions : task'[t].op = "create" =>
          task[t].op = "create" \/ ~Child(t) \/ (closer.pc = "none" /\ Live(Parent[t]))
    BY DEF TaskOf, Others
  <2> QED
    BY <1>3, <2>1, <2>2, <2>3 DEF LineStep
<1> QED
  BY <1>2, <1>4, <1>5 DEF SessionsInv

LEMMA OneSession ==
  ASSUME SessionsInv, NEW s \in Sessions, NEW p, NEW v, NEW o, NEW c, NEW m, NEW q, NEW k, NEW w,
         NEW a, NEW L, NEW C, RowOf(s, p, v), TaskOf(s, o, c, m), WorkerOf(s, q, k),
         PlaneOf(s, w, a, L, C), MailOf(s),
         Once(s)', Fit(p, v, o, c, q, k, w, a, L, C), Legal(sess[s].phase, p),
         closer' = closer, auto' \in Seq(Sessions),
         sess[s].vm # 0 => v # 0,
         p = "closed" => sess[s].phase = "closed" \/ task[s].op = "close",
         o = "close" => task[s].op = "close",
         sess[s].phase = "none" => p = "none" \/ task[s].op = "create",
         o = "create" => task[s].op = "create" \/ ~Child(s) \/ (closer.pc = "none" /\ Live(Parent[s])),
         q \in {"live", "dead"} => pi[s] \in {"live", "dead"},
         c \in LaunchSteps => task[s].pc \in LaunchSteps
  PROVE  Kept
<1>1. SessionsInv' /\ PhaseStep /\ LineStep
  BY OneSessionInv
<1>2. Workers' \subseteq Workers
  BY DEF Workers, WorkerOf, Others
<1>3. \A t \in Sessions : task'[t].pc \in LaunchSteps => task[t].pc \in LaunchSteps
  BY DEF TaskOf, Others
<1> QED
  BY <1>1, <1>2, <1>3 DEF Kept, CapStep

-----------------------------------------------------------------------------
(* The ways a handler writes its session's row, its own place, the worker  *)
(* and the mailbox.                                                        *)

LEMMA RowTyped ==
  ASSUME Types, NEW s \in Sessions
  PROVE  /\ sess[s] \in Row /\ sess[s].phase \in Phases /\ sess[s].vm \in 0 .. MaxAllocs
         /\ task[s] \in Handler /\ task[s].msg \in Nat
         /\ mail[s] \in Seq(Letter) /\ work[s] \in Nat /\ allocs[s] \in 0 .. MaxAllocs
         /\ pi[s] \in {"none", "starting", "live", "dead"} /\ token[s] \in BOOLEAN
  BY SMTT(60) DEF Types, Row, Handler

LEMMA RowSet ==
  ASSUME Types, NEW s \in Sessions, NEW r \in Row, sess' = [sess EXCEPT ![s] = r]
  PROVE  RowOf(s, r.phase, r.vm)
  BY DEF Types, RowOf, Others

LEMMA RowMoved ==
  ASSUME Types, NEW s \in Sessions, NEW p \in Phases, sess' = Moved(s, p)
  PROVE  RowOf(s, p, sess[s].vm)
<1> DEFINE r == [phase |-> p, vm |-> sess[s].vm, err |-> "none"]
<1>1. r \in Row /\ r.phase = p /\ r.vm = sess[s].vm
  BY RowTyped, SMTT(60) DEF Row
<1>2. sess' = [sess EXCEPT ![s] = r]
  BY DEF Moved
<1> HIDE DEF r
<1> QED
  BY <1>1, <1>2, RowSet

Settled == {"none", "closed", "closing", "allocation_unknown"}

LEMMA RowKept ==
  ASSUME Types, NEW s \in Sessions, sess' = sess
  PROVE  RowOf(s, sess[s].phase, sess[s].vm)
  BY DEF Types, RowOf

LEMMA RowInterrupted ==
  ASSUME Types, NEW s \in Sessions, NEW why \in {"restart", "other"}, sess' = Interrupt(s, why)
  PROVE  RowOf(s, IF sess[s].phase \in Settled THEN sess[s].phase ELSE "interrupted", sess[s].vm)
<1>1. CASE sess[s].phase \in Settled
  BY <1>1, RowKept DEF Interrupt, Settled, phase
<1>2. CASE sess[s].phase \notin Settled
  <2>1. PICK r : r = [phase |-> "interrupted", vm |-> sess[s].vm, err |-> why]
    OBVIOUS
  <2>2. r \in Row /\ r.phase = "interrupted" /\ r.vm = sess[s].vm
    BY <2>1, RowTyped, SMTT(60) DEF Row, Phases
  <2>3. sess' = [sess EXCEPT ![s] = r]
    BY <1>2, <2>1 DEF Interrupt, Settled, phase
  <2> QED
    BY <1>2, <2>2, <2>3, RowSet
<1> QED
  BY <1>1, <1>2

LEMMA TaskSet ==
  ASSUME Types, NEW s \in Sessions, NEW h \in Handler, task' = [task EXCEPT ![s] = h]
  PROVE  TaskOf(s, h.op, h.pc, h.msg)
  BY DEF Types, TaskOf, Others

LEMMA TaskKept ==
  ASSUME Types, NEW s \in Sessions, task' = task
  PROVE  TaskOf(s, task[s].op, task[s].pc, task[s].msg)
  BY DEF Types, TaskOf

LEMMA TaskBegun ==
  ASSUME Types, NEW s \in Sessions, NEW o \in Operator \cup Unattended, NEW c \in Steps,
         NEW m \in Nat, Begin(s, o, c, m)
  PROVE  TaskOf(s, o, c, m) /\ task[s].op = "free" /\ task[s].pc = "free" /\ task[s].msg = 0
<1>1. PICK h : h = [op |-> o, pc |-> c, msg |-> m]
  OBVIOUS
<1>2. h \in Handler /\ h.op = o /\ h.pc = c /\ h.msg = m
  BY <1>1, SMTT(60) DEF Handler
<1>3. task' = [task EXCEPT ![s] = h] /\ task[s] = Free
  BY <1>1 DEF Begin
<1>4. task[s].op = "free" /\ task[s].pc = "free" /\ task[s].msg = 0
  BY <1>3, SMTT(60) DEF Free
<1> HIDE DEF Free
<1> QED
  BY <1>2, <1>3, <1>4, TaskSet

LEMMA TaskMoved ==
  ASSUME Types, NEW s \in Sessions, NEW c \in Steps, Goto(s, c)
  PROVE  TaskOf(s, task[s].op, c, task[s].msg)
<1>1. PICK h : h = [task[s] EXCEPT !.pc = c]
  OBVIOUS
<1>2. h \in Handler /\ h.op = task[s].op /\ h.pc = c /\ h.msg = task[s].msg
  BY <1>1, RowTyped, SMTT(60) DEF Handler
<1>3. task' = [task EXCEPT ![s] = h]
  BY <1>1 DEF Goto
<1> QED
  BY <1>2, <1>3, TaskSet

LEMMA TaskDone ==
  ASSUME Types, NEW s \in Sessions, Finish(s)
  PROVE  TaskOf(s, "free", "free", 0)
<1>1. Free \in Handler /\ Free.op = "free" /\ Free.pc = "free" /\ Free.msg = 0
  BY SMTT(60) DEF Free, Handler, Steps
<1> HIDE DEF Free
<1> QED
  BY <1>1, TaskSet DEF Finish

LEMMA WorkerSet ==
  ASSUME Types, NEW s \in Sessions, NEW q \in {"none", "starting", "live", "dead"},
         NEW k \in BOOLEAN, pi' = [pi EXCEPT ![s] = q], token' = [token EXCEPT ![s] = k]
  PROVE  WorkerOf(s, q, k)
  BY DEF Types, WorkerOf, Others

LEMMA WorkerKept ==
  ASSUME Types, NEW s \in Sessions, pi' = pi, token' = token
  PROVE  WorkerOf(s, pi[s], token[s])
  BY DEF Types, WorkerOf

LEMMA WorkerStopped ==
  ASSUME Types, NEW s \in Sessions, StopWorker(s)
  PROVE  WorkerOf(s, IF pi[s] = "starting" THEN "starting" ELSE "none", FALSE)
  BY WorkerSet DEF StopWorker

LEMMA PlaneKept ==
  ASSUME Types, NEW s \in Sessions, vms' = vms, work' = work, flight' = flight, allocs' = allocs /\ raced' = raced
  PROVE  PlaneOf(s, work[s], allocs[s], Tied(s), Creates(s))
  BY DEF Types, PlaneOf, Tied, Labelled, Creates

LEMMA MailKept ==
  ASSUME Types, mail' = mail, NEW s \in Sessions
  PROVE  MailOf(s) /\ mail'[s] = mail[s]
  BY DEF Types, MailOf

LEMMA MailSet ==
  ASSUME Types, NEW s \in Sessions, NEW box \in Seq(Letter), mail' = [mail EXCEPT ![s] = box]
  PROVE  MailOf(s) /\ mail'[s] = box
  BY DEF Types, MailOf, Others

(* A mailbox left alone is as good as it was, if its handler is done with  *)
(* the message or still on the way to sending it.                          *)
LEMMA OnceKept ==
  ASSUME NEW s \in Sessions, Once(s), mail'[s] = mail[s],
         \/ task'[s].msg = 0
         \/ task'[s].msg = task[s].msg /\ task'[s].pc = task[s].pc
         \/ /\ task'[s].msg = task[s].msg /\ task[s].pc # "ack"
            /\ task'[s].pc \in LaunchSteps \cup {"gate", "send"}
  PROVE  Once(s)'
<1>1. CASE task'[s].msg = 0
  BY <1>1 DEF Once
<1>2. CASE task'[s].msg = task[s].msg /\ task'[s].pc = task[s].pc
  BY <1>2 DEF Once
<1>3. CASE /\ task'[s].msg = task[s].msg /\ task[s].pc # "ack"
           /\ task'[s].pc \in LaunchSteps \cup {"gate", "send"}
  <2>1. task'[s].pc # "ack"
    BY <1>3, SMTT(60) DEF LaunchSteps
  <2> QED
    BY <1>3, <2>1 DEF Once
<1> QED
  BY <1>1, <1>2, <1>3

(* One message of a mailbox is replaced. *)
LEMMA OnceReplaced ==
  ASSUME Types, NEW s \in Sessions, Once(s), NEW i \in DOMAIN mail[s], NEW l \in Letter,
         mail' = [mail EXCEPT ![s] = [mail[s] EXCEPT ![i] = l]], Proper(l),
         \/ task'[s].msg = 0
         \/ task'[s] = task[s] /\ task[s].msg # i
         \/ /\ task'[s].msg = i /\ l.status = "dispatching"
            /\ l.sent = IF task'[s].pc = "ack" THEN 1 ELSE 0
            /\ task'[s].pc \in LaunchSteps \cup {"gate", "send", "ack"}
  PROVE  MailOf(s) /\ Once(s)'
<1>1. PICK box : box = [mail[s] EXCEPT ![i] = l]
  OBVIOUS
<1>2. /\ box \in Seq(Letter) /\ Len(box) = Len(mail[s]) /\ DOMAIN box = DOMAIN mail[s]
      /\ box[i] = l /\ \A j \in DOMAIN mail[s] : j # i => box[j] = mail[s][j]
  BY <1>1, RowTyped, SMTT(60)
<1>3. MailOf(s) /\ mail'[s] = box
  BY <1>1, <1>2, MailSet
<1>4. \A j \in DOMAIN box : Proper(box[j])
  BY <1>2 DEF Once
<1>5. CASE task'[s].msg = 0
  BY <1>2, <1>3, <1>4, <1>5 DEF Once
<1>6. CASE task'[s] = task[s] /\ task[s].msg # i
  BY <1>2, <1>3, <1>4, <1>6 DEF Once
<1>7. CASE /\ task'[s].msg = i /\ l.status = "dispatching"
           /\ l.sent = IF task'[s].pc = "ack" THEN 1 ELSE 0
           /\ task'[s].pc \in LaunchSteps \cup {"gate", "send", "ack"}
  BY <1>2, <1>3, <1>4, <1>7 DEF Once
<1> QED
  BY <1>3, <1>5, <1>6, <1>7

LEMMA LetterSet ==
  ASSUME NEW l \in Letter, NEW st \in Statuses, NEW n \in Nat
  PROVE  /\ [l EXCEPT !.status = st] \in Letter /\ [l EXCEPT !.sent = n] \in Letter
         /\ [l EXCEPT !.status = st].status = st /\ [l EXCEPT !.status = st].sent = l.sent
         /\ [l EXCEPT !.sent = n].status = l.status /\ [l EXCEPT !.sent = n].sent = n
         /\ l.sent \in Nat /\ l.status \in Statuses
  BY SMTT(60) DEF Letter

(* The handler ends and says what has become of its message. *)
LEMMA OnceMarked ==
  ASSUME Types, NEW s \in Sessions, Once(s), NEW st \in {"uncertain", "delivered"},
         st = "delivered" => task[s].pc = "ack",
         mail' = Mark(s, task[s].msg, st), task'[s].msg = 0
  PROVE  MailOf(s) /\ Once(s)'
<1>1. CASE task[s].msg = 0
  <2>1. mail' = mail
    BY <1>1 DEF Mark
  <2> QED
    BY <2>1, MailKept, OnceKept
<1>2. CASE task[s].msg # 0
  <2>1. PICK i : i = task[s].msg
    OBVIOUS
  <2>2. /\ i \in DOMAIN mail[s] /\ mail[s][i].sent = IF task[s].pc = "ack" THEN 1 ELSE 0
        /\ Proper(mail[s][i])
    BY <1>2, <2>1 DEF Once
  <2>3. mail[s][i] \in Letter
    BY <2>2, RowTyped, SMTT(60)
  <2>4. PICK l : l = [mail[s][i] EXCEPT !.status = st]
    OBVIOUS
  <2>5. st \in Statuses
    BY DEF Statuses
  <2>6. l \in Letter /\ l.status = st /\ l.sent = mail[s][i].sent
    BY <2>3, <2>4, <2>5, LetterSet
  <2>7. Proper(l)
    BY <2>2, <2>6 DEF Proper
  <2>8. mail' = [mail EXCEPT ![s] = [mail[s] EXCEPT ![i] = l]]
    BY <1>2, <2>1, <2>4 DEF Mark
  <2> QED
    BY <2>2, <2>6, <2>7, <2>8, OnceReplaced
<1> QED
  BY <1>1, <1>2

LEMMA LaunchFailed ==
  ASSUME SessionsInv, NEW s \in Sessions, LaunchFails(s)
  PROVE  /\ RowOf(s, IF sess[s].phase \in Settled THEN sess[s].phase ELSE "interrupted", sess[s].vm)
         /\ TaskOf(s, "free", "free", 0) /\ MailOf(s) /\ Once(s)'
<1>1. TaskOf(s, "free", "free", 0)
  BY TaskDone DEF LaunchFails, SessionsInv
<1>2. task'[s].msg = 0
  BY <1>1 DEF TaskOf
<1> QED
  BY <1>1, <1>2, RowInterrupted, OnceMarked DEF LaunchFails, SessionsInv

-----------------------------------------------------------------------------
(* What a call does to the plane, answered or not.                         *)

Powers == {"terminate", "halt", "retire", "destroy"}
Relabelled(op, s, n) ==
  IF op = "create" THEN Labelled(s) \cup {n}
  ELSE IF op = "destroy" THEN Labelled(s) \ {n} ELSE Labelled(s)

LEMMA Effects ==
  ASSUME Types, NEW s \in Sessions, NEW n \in 1 .. MaxAllocs, NEW op \in Calls,
         Accepts(op, vms[<<s, n>>]), Effect(op, s, n)
  PROVE  /\ vms' \in [Sessions \X (1 .. MaxAllocs) -> {"none", "running", "suspended", "stopped"}]
         /\ work' \in [Sessions -> Nat]
         /\ work'[s] = IF n = sess[s].vm /\ op \in Powers THEN 0 ELSE work[s]
         /\ \A t \in Others(s) : work'[t] = work[t] /\ Labelled(t)' = Labelled(t)
         /\ Labelled(s)' = Relabelled(op, s, n)
<1>1. /\ vms' = [vms EXCEPT ![<<s, n>>] = After(op)]
      /\ work' = IF n = sess[s].vm /\ op \in Powers THEN [work EXCEPT ![s] = 0] ELSE work
  BY DEF Effect, Powers
<1>2. After(op) \in {"none", "running", "suspended", "stopped"}
  BY SMTT(60) DEF After
<1>3. <<s, n>> \in Sessions \X (1 .. MaxAllocs)
  BY SMTT(60)
<1>4. vms' \in [Sessions \X (1 .. MaxAllocs) -> {"none", "running", "suspended", "stopped"}]
  BY <1>1, <1>2 DEF Types
<1>5. vms'[<<s, n>>] = After(op)
  BY <1>1, <1>3 DEF Types
<1>6. \A t \in Sessions, j \in 1 .. MaxAllocs : <<t, j>> # <<s, n>> => vms'[<<t, j>>] = vms[<<t, j>>]
  BY <1>1, SMTT(60) DEF Types
<1>7. \A t \in Others(s) : Labelled(t)' = Labelled(t)
  BY <1>6, SMTT(60) DEF Labelled, Others
<1>8. Labelled(s)' = Relabelled(op, s, n)
  <2>1. \A j \in 1 .. MaxAllocs : j # n => vms'[<<s, j>>] = vms[<<s, j>>]
    BY <1>6, SMTT(60)
  <2>2. op # "create" => vms[<<s, n>>] # "none"
    BY SMTT(60) DEF Accepts, Calls
  <2>3. After(op) = "none" <=> op = "destroy"
    BY SMTT(60) DEF After, Calls
  <2>4. \A j : j \in Labelled(s)' <=>
          j \in 1 .. MaxAllocs /\ IF j = n THEN op # "destroy" ELSE j \in Labelled(s)
    BY <1>5, <2>1, <2>3, SMTT(60) DEF Labelled
  <2>5. op # "create" => n \in Labelled(s)
    BY <2>2 DEF Labelled
  <2>6. \A j \in Labelled(s) : j \in 1 .. MaxAllocs
    BY DEF Labelled
  <2> QED
    BY <2>4, <2>5, <2>6, SMTT(60) DEF Relabelled
<1>9. /\ work' \in [Sessions -> Nat]
      /\ work'[s] = IF n = sess[s].vm /\ op \in Powers THEN 0 ELSE work[s]
      /\ \A t \in Others(s) : work'[t] = work[t]
  BY <1>1, SMTT(60) DEF Types, Others
<1> QED
  BY <1>4, <1>7, <1>8, <1>9

Retied(op, s, n) == IF s \in raced THEN {} ELSE Relabelled(op, s, n)

LEMMA PlaneOk ==
  ASSUME Types, NEW s \in Sessions, NEW n \in 1 .. MaxAllocs, NEW op \in Calls, Ok(op, s, n),
         allocs' = allocs /\ raced' = raced
  PROVE  PlaneOf(s, IF n = sess[s].vm /\ op \in Powers THEN 0 ELSE work[s], allocs[s],
                 Retied(op, s, n), Creates(s))
<1>1. Accepts(op, vms[<<s, n>>]) /\ Effect(op, s, n) /\ flight' = flight
  BY DEF Ok
<1>2. \A t \in Sessions : Creates(t)' = Creates(t)
  BY <1>1 DEF Creates
<1>3. /\ \A t \in Others(s) : Labelled(t)' = Labelled(t)
      /\ Labelled(s)' = Relabelled(op, s, n)
  BY <1>1, Effects
<1>4. Tied(s)' = Retied(op, s, n) /\ \A t \in Others(s) : Tied(t)' = Tied(t)
  BY <1>3 DEF Tied, Retied
<1> QED
  BY <1>1, <1>2, <1>4, Effects DEF PlaneOf, Types, Others

(* The request a caller has given up on may still be acted on. *)
Pended(op, s, n) ==
  IF op = "create" /\ s \notin raced
  THEN Creates(s) \cup {[op |-> op, s |-> s, n |-> n]} ELSE Creates(s)

LEMMA PlaneFlight ==
  ASSUME Types, NEW s \in Sessions, NEW n \in 1 .. MaxAllocs, NEW op \in Calls,
         vms' = vms, work' = work, allocs' = allocs /\ raced' = raced,
         flight' = flight \cup {[op |-> op, s |-> s, n |-> n]}
  PROVE  PlaneOf(s, work[s], allocs[s], Tied(s), Pended(op, s, n))
<1>1. PICK r : r = [op |-> op, s |-> s, n |-> n]
  OBVIOUS
<1>2. /\ r \in [op : Calls, s : Sessions, n : 1 .. MaxAllocs]
      /\ r.op = op /\ r.s = s /\ flight' = flight \cup {r}
  BY <1>1, SMTT(60)
<1>3. flight' \subseteq [op : Calls, s : Sessions, n : 1 .. MaxAllocs]
  BY <1>2 DEF Types
<1>4. \A t \in Others(s) : Creates(t)' = Creates(t)
  BY <1>2 DEF Creates, Others
<1>5. Creates(s)' = Pended(op, s, n)
  BY <1>1, <1>2 DEF Creates, Pended
<1> QED
  BY <1>3, <1>4, <1>5 DEF PlaneOf, Types, Tied, Labelled

LEMMA PlaneFailed ==
  ASSUME Types, NEW s \in Sessions, NEW n \in 1 .. MaxAllocs, NEW op \in Calls, Failed(op, s, n),
         allocs' = allocs /\ raced' = raced
  PROVE  \E C \in {Creates(s), Pended(op, s, n)} :
           PlaneOf(s, work[s], allocs[s], Tied(s), C)
  BY PlaneKept, PlaneFlight DEF Failed

(* A step of a handler leaves the close and the list of recoveries alone. *)
LEMMA AutoTyped ==
  ASSUME Types PROVE auto \in Seq(Sessions)
  BY DEF Types

-----------------------------------------------------------------------------
(* The steps, one by one.                                                  *)

USE DEF store, process, plane

LEMMA Known ==
  ASSUME SessionsInv, NEW s \in Sessions
  PROVE  /\ Types /\ Once(s) /\ auto \in Seq(Sessions)
         /\ Fit(sess[s].phase, sess[s].vm, task[s].op, task[s].pc, pi[s], token[s], work[s],
                allocs[s], Tied(s), Creates(s))
         /\ sess[s].phase \in Phases /\ sess[s].vm \in 0 .. MaxAllocs /\ task[s].msg \in Nat
         /\ work[s] \in Nat /\ allocs[s] \in 0 .. MaxAllocs
         /\ pi[s] \in {"none", "starting", "live", "dead"} /\ token[s] \in BOOLEAN
  BY RowTyped, AutoTyped DEF SessionsInv, Fits

LEMMA Creating ==
  ASSUME SessionsInv, NEW s \in Sessions, Create(s)
  PROVE  Kept
<1>1. /\ RowOf(s, sess[s].phase, sess[s].vm) /\ WorkerOf(s, pi[s], token[s])
      /\ PlaneOf(s, work[s], allocs[s], Tied(s), Creates(s))
      /\ MailOf(s) /\ mail'[s] = mail[s] /\ closer' = closer /\ auto' = auto
  BY Known, RowKept, WorkerKept, PlaneKept, MailKept DEF Create
<1>2. TaskOf(s, "create", "placement", 0) /\ task[s].op = "free" /\ task[s].pc = "free"
  BY Known, TaskBegun DEF Create, Operator, Steps
<1>3. Once(s)'
  BY <1>1, <1>2, Known, OnceKept DEF TaskOf
<1>4. Fit(sess[s].phase, sess[s].vm, "create", "placement", pi[s], token[s], work[s], allocs[s],
          Tied(s), Creates(s))
  <2>1. sess[s].phase = "none"
    BY DEF Create, phase
  <2> QED
    BY <1>2, <2>1, Known
       DEF Fit, Turn, Rested, Fresh, Phased, Tended, Alone, Owned, Unplaced
<1>5. ~Child(s) \/ (closer.pc = "none" /\ Live(Parent[s]))
  BY DEF Create, Child, Live, SwarmGateHeld, phase
<1> QED
  BY <1>1, <1>2, <1>3, <1>4, <1>5, Known, LegalSame, OneSession DEF LaunchSteps

LEMMA NoneAsked ==
  ASSUME SessionsInv, NEW s \in Sessions, sess[s].phase = "none"
  PROVE  Tied(s) = {} /\ Creates(s) = {} /\ sess[s].vm = 0
<1>1. Owned(sess[s].phase, sess[s].vm, task[s].op, task[s].pc, allocs[s], Tied(s), Creates(s))
  BY Known DEF Fit
<1>2. 0 \notin 1 .. MaxAllocs
  BY SMTT(60)
<1>3. \A r \in Creates(s) : r.n \in 1 .. MaxAllocs
  <2>1. \A r \in Creates(s) : r \in [op : Calls, s : Sessions, n : 1 .. MaxAllocs]
    BY Known DEF Types, Creates
  <2> QED
    BY <2>1
<1>4. Tied(s) \subseteq 1 .. MaxAllocs
  BY DEF Tied, Labelled
<1> QED
  BY <1>1, <1>2, <1>3, <1>4 DEF Owned

LEMMA PlaneAsked ==
  ASSUME Types, NEW s \in Sessions, NEW a \in 0 .. MaxAllocs, allocs' = [allocs EXCEPT ![s] = a],
         vms' = vms, work' = work, flight' = flight, raced' \in {raced, raced \cup {s}},
         NEW L, NEW C, Tied(s)' = L, Creates(s)' = C
  PROVE  PlaneOf(s, work[s], a, L, C)
<1>1. allocs' \in [Sessions -> 0 .. MaxAllocs] /\ allocs'[s] = a
  BY DEF Types
<1>2. \A t \in Others(s) : allocs'[t] = allocs[t]
  BY DEF Types, Others
<1>3. raced' \subseteq Sessions /\ \A t \in Others(s) : t \in raced' <=> t \in raced
  BY DEF Types, Others
<1>4. \A t \in Others(s) : Tied(t)' = Tied(t) /\ Creates(t)' = Creates(t)
  BY <1>3 DEF Tied, Labelled, Creates
<1> QED
  BY <1>1, <1>2, <1>3, <1>4 DEF Types, PlaneOf

LEMMA FreshMail ==
  ASSUME Types, NEW s \in Sessions, task'[s].msg = 0,
         NEW box \in {<<>>, <<[op |-> FALSE, status |-> "pending", sent |-> 0]>>},
         mail' = [mail EXCEPT ![s] = box]
  PROVE  MailOf(s) /\ Once(s)'
<1>1. PICK l : l = [op |-> FALSE, status |-> "pending", sent |-> 0]
  OBVIOUS
<1>2. l \in Letter /\ l.status = "pending" /\ l.sent = 0
  BY <1>1, SMTT(60) DEF Letter, Statuses
<1>3. Proper(l)
  BY <1>2, SMTT(60) DEF Proper
<1>4. box \in {<<>>, <<l>>}
  BY <1>1
<1>5. box \in Seq(Letter) /\ Len(box) <= 1 /\ \A i \in DOMAIN box : box[i] = l
  <2>1. CASE box = <<>>
    BY <2>1, SMTT(60)
  <2>2. CASE box = <<l>>
    BY <1>2, <2>2, SMTT(60)
  <2> QED
    BY <1>4, <2>1, <2>2
<1>6. MailOf(s) /\ mail'[s] = box
  BY <1>5, MailSet
<1>7. Len(box) <= MaxMail
  BY <1>5, SessionsAssumption, SMTT(60)
<1> QED
  BY <1>3, <1>5, <1>6, <1>7 DEF Once

LEMMA Inserting ==
  ASSUME SessionsInv, NEW s \in Sessions, Insert(s)
  PROVE  Kept
<1>1. /\ WorkerOf(s, pi[s], token[s]) /\ closer' = closer /\ auto' = auto
      /\ task[s].pc = "placement" /\ vms' = vms /\ work' = work /\ flight' = flight
      /\ raced' = raced
  BY Known, WorkerKept DEF Insert, At
<1>2. sess[s].phase = "none" /\ task[s].op = "create" /\ allocs[s] = 0
  BY <1>1, Known DEF Fit, Phased, Owned
<1>3. task[s].msg = 0
  BY <1>1, Known DEF Once, LaunchSteps
<1>4. CASE BelowAgentLimit
  <2>1. RowOf(s, "allocating", sess[s].vm)
    BY <1>4, Known, RowMoved DEF Insert, Phases
  <2>2. TaskOf(s, "create", "create", 0)
    BY <1>2, <1>3, <1>4, Known, TaskMoved DEF Insert, Steps
  <2>3. 1 \in 0 .. MaxAllocs
    BY SessionsAssumption, SMTT(60)
  <2>4. PlaneOf(s, work[s], 1, Tied(s), Creates(s))
    <3>1. PICK L, C : L = Tied(s) /\ C = Creates(s)
      OBVIOUS
    <3>2. Tied(s)' = L /\ Creates(s)' = C
      BY <1>1, <3>1 DEF Tied, Labelled, Creates
    <3>3. allocs' = [allocs EXCEPT ![s] = 1] /\ raced' \in {raced, raced \cup {s}}
      BY <1>1, <1>4 DEF Insert
    <3>4. PlaneOf(s, work[s], 1, L, C)
      BY <1>1, <2>3, <3>2, <3>3, Known, PlaneAsked
    <3> QED
      BY <3>1, <3>4
  <2>5. MailOf(s) /\ Once(s)'
    BY <1>4, <2>2, Known, FreshMail DEF Insert, TaskOf
  <2>6. 1 # 0
    BY SMTT(60)
  <2>7. Fit("allocating", sess[s].vm, "create", "create", pi[s], token[s], work[s], 1,
            Tied(s), Creates(s))
    BY <1>1, <1>2, <2>6, Known, NoneAsked
       DEF Fit, Turn, Rested, Fresh, Phased, Tended, Alone, Owned, Unplaced
  <2>8. Legal(sess[s].phase, "allocating")
    BY <1>2 DEF Legal
  <2> QED
    BY <1>1, <1>2, <2>1, <2>2, <2>4, <2>5, <2>7, <2>8, Known, NoneAsked, OneSession DEF LaunchSteps
<1>5. CASE ~BelowAgentLimit
  <2>1. /\ RowOf(s, sess[s].phase, sess[s].vm) /\ TaskOf(s, "free", "free", 0)
        /\ PlaneOf(s, work[s], allocs[s], Tied(s), Creates(s)) /\ MailOf(s) /\ mail'[s] = mail[s]
    BY <1>1, <1>5, Known, RowKept, TaskDone, PlaneKept, MailKept DEF Insert
  <2>2. Once(s)'
    BY <2>1, Known, OnceKept DEF TaskOf
  <2>3. Fit(sess[s].phase, sess[s].vm, "free", "free", pi[s], token[s], work[s], allocs[s],
            Tied(s), Creates(s))
    BY <1>1, <1>2, Known
       DEF Fit, Turn, Rested, Fresh, Phased, Tended, Alone, Owned, Unplaced
  <2> QED
    BY <1>1, <2>1, <2>2, <2>3, Known, LegalSame, OneSession DEF LaunchSteps
<1> QED
  BY <1>4, <1>5

LEMMA AnsweringCreate ==
  ASSUME SessionsInv, NEW s \in Sessions, CreateAnswered(s)
  PROVE  Kept
<1>1. /\ WorkerOf(s, pi[s], token[s]) /\ closer' = closer /\ auto' = auto
      /\ MailOf(s) /\ mail'[s] = mail[s] /\ task[s].pc = "create" /\ allocs' = allocs /\ raced' = raced
  BY Known, WorkerKept, MailKept DEF CreateAnswered, At
<1>2. /\ sess[s].phase = "allocating" /\ task[s].op \in {"create", "retry"} /\ allocs[s] # 0
      /\ sess[s].vm = 0 /\ Tied(s) = {} /\ Creates(s) = {}
  BY <1>1, Known DEF Fit, Phased, Owned
<1>3. allocs[s] \in 1 .. MaxAllocs
  BY <1>2, Known, SMTT(60)
<1>4. task[s].msg = 0
  BY <1>1, Known DEF Once, LaunchSteps
<1>8. Retied("create", s, allocs[s]) \in SUBSET {allocs[s]}
  <2>1. s \notin raced => Labelled(s) = {}
    BY <1>2 DEF Tied
  <2> QED
    BY <2>1 DEF Retied, Relabelled
<1>5. CASE Ok("create", s, allocs[s]) /\ task[s].op = "create"
           /\ sess' = [sess EXCEPT ![s].vm = allocs[s]] /\ Goto(s, "gate")
  <2>0. sess[s] \in Row /\ allocs[s] \in 0 .. MaxAllocs
    BY Known, RowTyped
  <2>1. PICK r : r = [sess[s] EXCEPT !.vm = allocs[s]]
    OBVIOUS
  <2>2. r \in Row /\ r.phase = sess[s].phase /\ r.vm = allocs[s]
    BY <2>0, <2>1, SMTT(60) DEF Row
  <2>3. RowOf(s, "allocating", allocs[s])
    BY <1>2, <1>5, <2>1, <2>2, Known, RowSet
  <2>4. TaskOf(s, "create", "gate", 0)
    BY <1>4, <1>5, Known, TaskMoved DEF Steps
  <2>5. PICK L \in SUBSET {allocs[s]} : PlaneOf(s, work[s], allocs[s], L, Creates(s))
    BY <1>1, <1>2, <1>3, <1>5, <1>8, Known, PlaneOk DEF Powers, Calls
  <2>6. Once(s)'
    BY <1>1, <2>4, Known, OnceKept DEF TaskOf
  <2>7. Fit("allocating", allocs[s], "create", "gate", pi[s], token[s], work[s], allocs[s],
            L, Creates(s))
    BY <1>1, <1>2, Known
       DEF Fit, Turn, Rested, Fresh, Phased, Tended, Alone, Owned, Unplaced
  <2>8. task[s].op = "create"
    BY <1>5
  <2> QED
    BY <1>1, <1>2, <2>3, <2>4, <2>5, <2>6, <2>7, <2>8, Known, LegalSame, OneSession DEF LaunchSteps
<1>6. CASE Ok("create", s, allocs[s]) /\ Finish(s)
           /\ sess' = [sess EXCEPT ![s] = [phase |-> "interrupted", vm |-> allocs[s], err |-> "none"]]
  <2>1. PICK r : r = [phase |-> "interrupted", vm |-> allocs[s], err |-> "none"]
    OBVIOUS
  <2>2. r \in Row /\ r.phase = "interrupted" /\ r.vm = allocs[s]
    BY <2>1, Known, SMTT(60) DEF Row, Phases
  <2>3. RowOf(s, "interrupted", allocs[s]) /\ TaskOf(s, "free", "free", 0)
    BY <1>6, <2>1, <2>2, Known, RowSet, TaskDone
  <2>4. PICK L \in SUBSET {allocs[s]} : PlaneOf(s, work[s], allocs[s], L, Creates(s))
    BY <1>1, <1>2, <1>3, <1>6, <1>8, Known, PlaneOk DEF Powers, Calls
  <2>5. Once(s)'
    BY <1>1, <2>3, Known, OnceKept DEF TaskOf
  <2>6. Fit("interrupted", allocs[s], "free", "free", pi[s], token[s], work[s], allocs[s],
            L, Creates(s))
    BY <1>1, <1>2, Known
       DEF Fit, Turn, Rested, Fresh, Phased, Tended, Alone, Owned, Unplaced
  <2>7. Legal(sess[s].phase, "interrupted")
    BY <1>2, SMTT(60) DEF Legal, Check
  <2> QED
    BY <1>1, <1>2, <2>3, <2>4, <2>5, <2>6, <2>7, Known, OneSession DEF LaunchSteps
<1>7. CASE Failed("create", s, allocs[s]) /\ sess' = Moved(s, "allocation_unknown") /\ Finish(s)
  <2>1. RowOf(s, "allocation_unknown", sess[s].vm) /\ TaskOf(s, "free", "free", 0)
    BY <1>7, Known, RowMoved, TaskDone DEF Phases
  <2>2. PICK C \in {Creates(s), Pended("create", s, allocs[s])} :
          PlaneOf(s, work[s], allocs[s], Tied(s), C)
    BY <1>1, <1>3, <1>7, Known, PlaneFailed DEF Calls
  <2>3. \A r \in C : r.n = allocs[s]
    BY <1>2, SMTT(60) DEF Pended
  <2>4. Once(s)'
    BY <1>1, <2>1, Known, OnceKept DEF TaskOf
  <2>5. Fit("allocation_unknown", sess[s].vm, "free", "free", pi[s], token[s], work[s], allocs[s],
            Tied(s), C)
    BY <1>1, <1>2, <2>3, Known
       DEF Fit, Turn, Rested, Fresh, Phased, Tended, Alone, Owned, Unplaced
  <2>6. Legal(sess[s].phase, "allocation_unknown")
    BY <1>2, SMTT(60) DEF Legal, Check
  <2> QED
    BY <1>1, <1>2, <2>1, <2>2, <2>4, <2>5, <2>6, Known, OneSession DEF LaunchSteps
<1> QED
  BY <1>5, <1>6, <1>7 DEF CreateAnswered

(* A launch that fails leaves the session interrupted and its message      *)
(* uncertain, wherever it was.                                             *)
LEMMA LaunchGivenUp ==
  ASSUME SessionsInv, NEW s \in Sessions, LaunchFails(s), task[s].pc \in LaunchSteps \cup {"gate"},
         NEW q \in {"none", "dead"}, NEW k, WorkerOf(s, q, k), q = "none" \/ q = pi[s],
         NEW w, w = work[s], PlaneOf(s, w, allocs[s], Tied(s), Creates(s)),
         closer' = closer, auto' = auto
  PROVE  Kept
<1>1. sess[s].phase \in {"allocating", "asleep", "stopped", "interrupted", "starting", "waking"}
  BY Known DEF Fit, Phased, LaunchSteps
<1>2. sess[s].vm # 0
  BY <1>1, Known DEF Fit, Phased, Owned, Unplaced, LaunchSteps
<1>3. /\ RowOf(s, "interrupted", sess[s].vm) /\ TaskOf(s, "free", "free", 0)
      /\ MailOf(s) /\ Once(s)'
  BY <1>1, LaunchFailed DEF Settled
<1>4. Fit("interrupted", sess[s].vm, "free", "free", q, k, w, allocs[s], Tied(s), Creates(s))
  BY <1>2, Known DEF Fit, Turn, Rested, Fresh, Phased, Tended, Alone, Owned, Unplaced
<1>5. Legal(sess[s].phase, "interrupted")
  BY <1>1, SMTT(60) DEF Legal, Check
<1> QED
  BY <1>1, <1>2, <1>3, <1>4, <1>5, Known, OneSession DEF LaunchSteps

LEMMA LaunchBegins ==
  ASSUME SessionsInv, NEW s \in Sessions, Launch(s)
  PROVE  Kept
<1>1. /\ WorkerOf(s, pi[s], token[s]) /\ closer' = closer /\ auto' = auto
      /\ PlaneOf(s, work[s], allocs[s], Tied(s), Creates(s))
      /\ task[s].pc = "gate" /\ pi' = pi /\ ~LaunchGateHeld
  BY Known, WorkerKept, PlaneKept DEF Launch, At
<1>2. /\ pi[s] = "none" /\ token[s] = FALSE /\ task[s].op # "close"
      /\ sess[s].phase \in {"allocating", "asleep", "stopped", "interrupted"}
      /\ sess[s].vm # 0 /\ (task[s].op \notin {"recover", "auto"} => work[s] = 0)
      /\ sess[s].phase \in {"asleep", "stopped"} => work[s] = 0
      /\ work[s] <= 1
  BY <1>1, Known DEF Fit, Phased, Tended, Owned, Unplaced, Turn, Rested
<1>3. CASE BelowAgentLimit
  <2>1. PICK p : p = IF sess[s].phase \in {"asleep", "stopped"} THEN "waking" ELSE "starting"
    OBVIOUS
  <2>2. p \in Phases /\ p \in {"waking", "starting"}
    BY <2>1 DEF Phases
  <2>3. RowOf(s, p, sess[s].vm)
    BY <1>3, <2>1, <2>2, Known, RowMoved DEF Launch, Launching, phase
  <2>4. TaskOf(s, task[s].op, "get", task[s].msg)
    BY <1>3, Known, TaskMoved DEF Launch, Steps, LaunchSteps
  <2>5. MailOf(s) /\ mail'[s] = mail[s]
    BY <1>3, Known, MailKept DEF Launch
  <2>6. Once(s)'
    BY <1>1, <2>4, <2>5, Known, OnceKept DEF TaskOf, LaunchSteps
  <2>7. Fit(p, sess[s].vm, task[s].op, "get", pi[s], token[s], work[s], allocs[s],
            Tied(s), Creates(s))
    BY <1>1, <1>2, <2>1, <2>2, Known
       DEF Fit, Turn, Rested, Fresh, Phased, Tended, Alone, Owned, Unplaced
  <2>8. Legal(sess[s].phase, p)
    BY <1>2, <2>1, SMTT(60) DEF Legal, Check
  <2>9. Workers' = Workers
    BY <1>1 DEF Workers
  <2> QED
    <3>1. SessionsInv' /\ PhaseStep /\ LineStep
      BY <1>1, <1>2, <2>2, <2>3, <2>4, <2>5, <2>6, <2>7, <2>8, Known, OneSessionInv
    <3>2. CapStep
      BY <1>1, <1>3, <2>4, <2>9 DEF CapStep, TaskOf
    <3> QED
      BY <3>1, <3>2 DEF Kept
<1>4. CASE ~BelowAgentLimit
  <2>1. LaunchFails(s)
    BY <1>4 DEF Launch
  <2> QED
    BY <1>1, <1>2, <2>1, LaunchGivenUp
<1> QED
  BY <1>3, <1>4

LEMMA Getting ==
  ASSUME SessionsInv, NEW s \in Sessions, LaunchGet(s)
  PROVE  Kept
<1>1. /\ WorkerOf(s, pi[s], token[s]) /\ closer' = closer /\ auto' = auto
      /\ PlaneOf(s, work[s], allocs[s], Tied(s), Creates(s)) /\ task[s].pc = "get"
  BY Known, WorkerKept, PlaneKept DEF LaunchGet, At
<1>2. /\ pi[s] = "none" /\ sess[s].phase \in {"starting", "waking"} /\ task[s].op # "close"
      /\ task[s].op \notin {"recover", "auto"} => work[s] = 0
  BY <1>1, Known DEF Fit, Phased, Tended, Turn
<1>3. CASE UNCHANGED store /\ \E c \in {"term", "start", "ready"} :
             Goto(s, c) /\ (c = "term" <=> Recovering(s))
  <2>1. PICK c \in {"term", "start", "ready"} : Goto(s, c) /\ (c = "term" <=> Recovering(s))
    BY <1>3
  <2>2. /\ RowOf(s, sess[s].phase, sess[s].vm) /\ MailOf(s) /\ mail'[s] = mail[s]
        /\ TaskOf(s, task[s].op, c, task[s].msg)
    BY <1>3, <2>1, Known, RowKept, MailKept, TaskMoved DEF Steps, LaunchSteps
  <2>3. Once(s)'
    BY <1>1, <2>2, Known, OnceKept DEF TaskOf, LaunchSteps
  <2>4. Fit(sess[s].phase, sess[s].vm, task[s].op, c, pi[s], token[s], work[s], allocs[s],
            Tied(s), Creates(s))
    BY <1>1, <1>2, <2>1, Known
       DEF Fit, Turn, Rested, Fresh, Phased, Tended, Alone, Owned, Unplaced, Recovering
  <2> QED
    BY <1>1, <1>2, <2>2, <2>3, <2>4, Known, LegalSame, OneSession DEF LaunchSteps
<1>4. CASE LaunchFails(s)
  BY <1>1, <1>2, <1>4, LaunchGivenUp DEF LaunchSteps
<1> QED
  BY <1>3, <1>4 DEF LaunchGet

(* The call terminate of a recovery, and start. *)
LEMMA LaunchCalling ==
  ASSUME SessionsInv, NEW s \in Sessions, LaunchTerm(s) \/ LaunchStart(s)
  PROVE  Kept
<1>1. PICK c \in {"term", "start"}, op \in {"terminate", "start"}, n \in {"start", "ready"} :
        /\ LaunchCall(s, c, op, n)
        /\ \/ c = "term" /\ op = "terminate" /\ n = "start"
           \/ c = "start" /\ op = "start" /\ n = "ready"
  BY DEF LaunchTerm, LaunchStart
<1>2. /\ WorkerOf(s, pi[s], token[s]) /\ closer' = closer /\ auto' = auto /\ allocs' = allocs /\ raced' = raced
      /\ task[s].pc = c
  BY <1>1, Known, WorkerKept DEF LaunchCall, At
<1>3. /\ pi[s] = "none" /\ sess[s].phase \in {"starting", "waking"} /\ task[s].op # "close"
      /\ sess[s].vm # 0 /\ (c = "start" => work[s] = 0)
  BY <1>1, <1>2, Known DEF Fit, Phased, Tended, Turn, Fresh, Owned, Unplaced
<1>4. sess[s].vm \in 1 .. MaxAllocs /\ op \in Calls /\ op \notin {"create", "destroy"}
  BY <1>1, <1>3, Known, SMTT(60) DEF Calls
<1>5. CASE Ok(op, s, sess[s].vm) /\ Goto(s, n) /\ UNCHANGED store
  <2>1. PlaneOf(s, 0, allocs[s], Tied(s), Creates(s))
    BY <1>1, <1>2, <1>3, <1>4, <1>5, Known, PlaneOk DEF Retied, Relabelled, Tied, Powers
  <2>2. /\ RowOf(s, sess[s].phase, sess[s].vm) /\ MailOf(s) /\ mail'[s] = mail[s]
        /\ TaskOf(s, task[s].op, n, task[s].msg)
    BY <1>5, Known, RowKept, MailKept, TaskMoved DEF Steps, LaunchSteps
  <2>3. Once(s)'
    BY <1>1, <1>2, <2>2, Known, OnceKept DEF TaskOf, LaunchSteps
  <2>4. 0 <= 1
    BY SMTT(60)
  <2>5. Fit(sess[s].phase, sess[s].vm, task[s].op, n, pi[s], token[s], 0, allocs[s],
            Tied(s), Creates(s))
    BY <1>1, <1>2, <1>3, <2>4, Known
       DEF Fit, Turn, Rested, Fresh, Phased, Tended, Alone, Owned, Unplaced
  <2> QED
    BY <1>1, <1>2, <1>3, <2>1, <2>2, <2>3, <2>5, Known, LegalSame, OneSession DEF LaunchSteps
<1>6. CASE Failed(op, s, sess[s].vm) /\ LaunchFails(s)
  <2>1. PlaneOf(s, work[s], allocs[s], Tied(s), Creates(s))
    BY <1>2, <1>4, <1>6, Known, PlaneFailed DEF Pended
  <2> QED
    BY <1>1, <1>2, <1>3, <1>6, <2>1, LaunchGivenUp DEF LaunchSteps
<1> QED
  BY <1>1, <1>5, <1>6 DEF LaunchCall

LEMMA Readying ==
  ASSUME SessionsInv, NEW s \in Sessions, LaunchReady(s)
  PROVE  Kept
<1>1. /\ closer' = closer /\ auto' = auto /\ task[s].pc = "ready"
      /\ PlaneOf(s, work[s], allocs[s], Tied(s), Creates(s))
  BY Known, PlaneKept DEF LaunchReady, At
<1>2. /\ pi[s] = "none" /\ sess[s].phase \in {"starting", "waking"} /\ task[s].op # "close"
      /\ work[s] = 0
  BY <1>1, Known DEF Fit, Phased, Tended, Turn, Fresh
<1>3. CASE /\ token' = [token EXCEPT ![s] = TRUE] /\ pi' = [pi EXCEPT ![s] = "starting"]
           /\ Goto(s, "pi") /\ UNCHANGED store
  <2>1. /\ RowOf(s, sess[s].phase, sess[s].vm) /\ MailOf(s) /\ mail'[s] = mail[s]
        /\ WorkerOf(s, "starting", TRUE) /\ TaskOf(s, task[s].op, "pi", task[s].msg)
    BY <1>3, Known, RowKept, MailKept, WorkerSet, TaskMoved DEF Steps, LaunchSteps
  <2>2. Once(s)'
    BY <1>1, <2>1, Known, OnceKept DEF TaskOf, LaunchSteps
  <2>3. Fit(sess[s].phase, sess[s].vm, task[s].op, "pi", "starting", TRUE, work[s], allocs[s],
            Tied(s), Creates(s))
    BY <1>1, <1>2, Known DEF Fit, Turn, Rested, Fresh, Phased, Tended, Alone, Owned, Unplaced
  <2> QED
    BY <1>1, <1>2, <2>1, <2>2, <2>3, Known, LegalSame, OneSession DEF LaunchSteps
<1>4. CASE LaunchFails(s) /\ UNCHANGED <<pi, token>>
  <2>1. WorkerOf(s, pi[s], token[s])
    BY <1>4, Known, WorkerKept
  <2> QED
    BY <1>1, <1>2, <1>4, <2>1, LaunchGivenUp DEF LaunchSteps
<1> QED
  BY <1>3, <1>4 DEF LaunchReady

(* The worker of a launch joins the others. *)
LEMMA Joins ==
  ASSUME NEW s \in Sessions, task[s].pc = "pi", NEW q \in {"live", "dead"}, NEW k,
         WorkerOf(s, q, k), NEW o, NEW c, NEW m, TaskOf(s, o, c, m)
  PROVE  CapStep
<1>1. Workers' = Workers \cup {s}
  BY DEF Workers, WorkerOf, Others
<1>2. \A t \in Sessions : task'[t].pc \in LaunchSteps => task[t].pc \in LaunchSteps
  BY DEF TaskOf, Others, LaunchSteps
<1> QED
  BY <1>1, <1>2 DEF CapStep, LaunchSteps

LEMMA Answering ==
  ASSUME SessionsInv, NEW s \in Sessions, PiReady(s)
  PROVE  Kept
<1>1. /\ closer' = closer /\ auto' = auto /\ task[s].pc = "pi" /\ token' = token
      /\ PlaneOf(s, work[s], allocs[s], Tied(s), Creates(s))
      /\ pi' = [pi EXCEPT ![s] = IF pi[s] = "dead" THEN "dead" ELSE "live"]
  BY Known, PlaneKept DEF PiReady, At
<1>2. /\ \/ pi[s] = "starting" /\ sess[s].phase \in {"starting", "waking"}
         \/ pi[s] = "dead" /\ sess[s].phase = "interrupted"
      /\ task[s].op # "close" /\ work[s] = 0
  BY <1>1, Known DEF Fit, Phased, Turn, Fresh
<1>3. token' = [token EXCEPT ![s] = token[s]]
  BY <1>1, Known DEF Types
<1>4. WorkerOf(s, IF pi[s] = "dead" THEN "dead" ELSE "live", token[s])
  BY <1>1, <1>3, Known, WorkerSet
<1>5. CASE pi[s] = "starting" /\ sess[s].phase \in {"starting", "waking"}
  <2>1. Check(sess[s].phase, "idle") /\ Legal(sess[s].phase, "idle")
    BY <1>5, SMTT(60) DEF Check, Legal
  <2>2. RowOf(s, "idle", sess[s].vm) /\ MailOf(s) /\ mail'[s] = mail[s]
    BY <2>1, Known, RowMoved, MailKept DEF PiReady, Phases, phase
  <2>3. PICK o, c, m : /\ TaskOf(s, o, c, m)
                       /\ \/ o = task[s].op /\ c = "send" /\ m = task[s].msg
                          \/ o = "free" /\ c = "free" /\ m = 0
    BY <2>1, Known, TaskMoved, TaskDone DEF PiReady, phase, Steps
  <2>4. Once(s)'
    BY <1>1, <2>2, <2>3, Known, OnceKept DEF TaskOf
  <2>5. WorkerOf(s, "live", token[s])
    BY <1>4, <1>5
  <2>6. Fit("idle", sess[s].vm, o, c, "live", token[s], work[s], allocs[s], Tied(s), Creates(s))
    BY <1>1, <1>2, <1>5, <2>3, Known
       DEF Fit, Turn, Rested, Fresh, Phased, Tended, Alone, Owned, Unplaced
  <2>7. SessionsInv' /\ PhaseStep /\ LineStep
    BY <1>1, <1>2, <2>1, <2>2, <2>3, <2>4, <2>5, <2>6, Known, OneSessionInv
  <2> QED
    BY <1>1, <2>3, <2>5, <2>7, Joins DEF Kept
<1>6. CASE pi[s] = "dead" /\ sess[s].phase = "interrupted"
  <2>1. ~Check(sess[s].phase, "idle")
    BY <1>6, SMTT(60) DEF Check
  <2>2. LaunchFails(s)
    BY <2>1 DEF PiReady, phase
  <2> QED
    BY <1>1, <1>4, <1>6, <2>2, LaunchGivenUp DEF LaunchSteps
<1> QED
  BY <1>2, <1>5, <1>6

LEMMA FailingPi ==
  ASSUME SessionsInv, NEW s \in Sessions, PiFails(s)
  PROVE  Kept
<1>1. /\ closer' = closer /\ auto' = auto /\ task[s].pc = "pi" /\ LaunchFails(s)
      /\ PlaneOf(s, work[s], allocs[s], Tied(s), Creates(s)) /\ WorkerOf(s, "none", FALSE)
  BY Known, PlaneKept, WorkerSet DEF PiFails, At
<1> QED
  BY <1>1, LaunchGivenUp DEF LaunchSteps

LEMMA Dying ==
  ASSUME SessionsInv, NEW s \in Sessions, PiDies(s)
  PROVE  Kept
<1>1. /\ closer' = closer /\ auto' = auto /\ token' = token /\ pi[s] \in {"starting", "live"}
      /\ PlaneOf(s, work[s], allocs[s], Tied(s), Creates(s))
      /\ MailOf(s) /\ mail'[s] = mail[s]
      /\ TaskOf(s, task[s].op, task[s].pc, task[s].msg)
      /\ pi' = [pi EXCEPT ![s] = IF Orphan(s) THEN "none" ELSE "dead"]
  BY Known, PlaneKept, MailKept, TaskKept DEF PiDies
<1>2. sess[s].phase \notin Alone /\ task[s].pc \notin {"gate", "get", "term", "start", "ready"}
  BY <1>1, Known DEF Fit, Tended
<1>3. PICK p : p = IF sess[s].phase \in Settled THEN sess[s].phase ELSE "interrupted"
  OBVIOUS
<1>4. RowOf(s, p, sess[s].vm)
  BY <1>3, Known, RowInterrupted DEF PiDies
<1>5. PICK q \in {"none", "dead"} : q = IF Orphan(s) THEN "none" ELSE "dead"
  OBVIOUS
<1>6. token' = [token EXCEPT ![s] = token[s]]
  BY <1>1, Known DEF Types
<1>7. WorkerOf(s, q, token[s])
  BY <1>1, <1>5, <1>6, Known, WorkerSet
<1>8. Once(s)'
  BY <1>1, Known, OnceKept DEF TaskOf
<1>9. task[s].pc = "pi" => q = "dead" /\ p = "interrupted"
  BY <1>1, <1>3, <1>5, Known DEF Fit, Phased, Orphan, At, Settled
<1>10. Fit(p, sess[s].vm, task[s].op, task[s].pc, q, token[s], work[s], allocs[s],
           Tied(s), Creates(s))
  BY <1>2, <1>3, <1>9, Known
     DEF Fit, Turn, Rested, Fresh, Phased, Tended, Alone, Owned, Unplaced, Settled
<1>11. Legal(sess[s].phase, p)
  BY <1>2, <1>3, Known, SMTT(60) DEF Legal, Check, Alone, Settled, Phases
<1>o. sess[s].phase # "none" /\ (p = "closed" => sess[s].phase = "closed")
  BY <1>2, <1>3 DEF Alone
<1>12. SessionsInv' /\ PhaseStep /\ LineStep
  BY <1>o, <1>1, <1>3, <1>4, <1>7, <1>8, <1>10, <1>11, Known, OneSessionInv
<1>13. CASE pi[s] = "live" \/ q = "none"
  <2>1. q = "dead" => pi[s] \in {"live", "dead"}
    BY <1>13
  <2> QED
    BY <1>o, <1>1, <1>3, <1>4, <1>7, <1>8, <1>10, <1>11, <2>1, Known, OneSession
<1>14. CASE pi[s] = "starting" /\ q = "dead"
  <2>1. task[s].pc = "pi"
    BY <1>5, <1>14 DEF Orphan, At
  <2> QED
    BY <1>1, <1>7, <1>12, <1>14, <2>1, Joins DEF Kept
<1> QED
  BY <1>1, <1>5, <1>13, <1>14

LEMMA PlaneWork ==
  ASSUME Types, NEW s \in Sessions, NEW w \in Nat, work' = [work EXCEPT ![s] = w],
         vms' = vms, flight' = flight, allocs' = allocs /\ raced' = raced
  PROVE  PlaneOf(s, w, allocs[s], Tied(s), Creates(s))
  BY DEF Types, PlaneOf, Tied, Labelled, Creates, Others

LEMMA Settling ==
  ASSUME SessionsInv, NEW s \in Sessions, Settle(s)
  PROVE  Kept
<1>1. /\ closer' = closer /\ auto' = auto /\ MailOf(s) /\ mail'[s] = mail[s]
      /\ WorkerOf(s, pi[s], token[s]) /\ pi[s] = "live"
      /\ TaskOf(s, task[s].op, task[s].pc, task[s].msg)
  BY Known, WorkerKept, MailKept, TaskKept DEF Settle
<1>2. 0 \in Nat /\ 0 <= 1
  BY SMTT(60)
<1>3. PlaneOf(s, 0, allocs[s], Tied(s), Creates(s))
  BY <1>2, Known, PlaneWork DEF Settle
<1>4. PICK p : p = IF sess[s].phase = "working" THEN "idle" ELSE sess[s].phase
  OBVIOUS
<1>5. RowOf(s, p, sess[s].vm)
  <2>1. PICK r : r = [sess[s] EXCEPT !.phase = p]
    OBVIOUS
  <2>2. p \in Phases /\ sess[s] \in Row
    BY <1>4, Known, RowTyped DEF Phases
  <2>3. r \in Row /\ r.phase = p /\ r.vm = sess[s].vm
    BY <2>1, <2>2, SMTT(60) DEF Row
  <2>4. sess' = [sess EXCEPT ![s] = r]
    BY <1>4, <2>1 DEF Settle
  <2> QED
    BY <2>3, <2>4, Known, RowSet
<1>6. Once(s)'
  BY <1>1, Known, OnceKept DEF TaskOf
<1>7. Fit(p, sess[s].vm, task[s].op, task[s].pc, pi[s], token[s], 0, allocs[s],
          Tied(s), Creates(s))
  BY <1>1, <1>2, <1>4, Known
     DEF Fit, Turn, Rested, Fresh, Phased, Tended, Alone, Owned, Unplaced
<1>8. Legal(sess[s].phase, p)
  BY <1>4, LegalSame, SMTT(60) DEF Legal, Check
<1> QED
  BY <1>1, <1>3, <1>4, <1>5, <1>6, <1>7, <1>8, Known, OneSession

LEMMA Sending ==
  ASSUME SessionsInv, NEW s \in Sessions, PromptSend(s)
  PROVE  Kept
<1>1. /\ closer' = closer /\ auto' = auto /\ WorkerOf(s, pi[s], token[s]) /\ task[s].pc = "send"
      /\ vms' = vms /\ flight' = flight /\ allocs' = allocs /\ raced' = raced
  BY Known, WorkerKept DEF PromptSend, At
<1>2. work[s] = 0 /\ task[s].op # "close"
  BY <1>1, Known DEF Fit, Phased, Turn, Fresh
<1>3. CASE sess[s].phase = "idle" /\ s \in Workers
  <2>1. RowOf(s, "working", sess[s].vm) /\ TaskOf(s, task[s].op, "ack", task[s].msg)
    BY <1>3, Known, RowMoved, TaskMoved DEF PromptSend, phase, Phases, Steps
  <2>2. work[s] + 1 = 1 /\ 1 \in Nat /\ 1 <= 1
    BY <1>2, SMTT(60)
  <2>3. PlaneOf(s, 1, allocs[s], Tied(s), Creates(s))
    BY <1>1, <1>3, <2>2, Known, PlaneWork DEF PromptSend, phase
  <2>4. MailOf(s) /\ Once(s)'
    <3>1. CASE task[s].msg = 0
      <4>1. mail' = mail
        BY <1>3, <3>1 DEF PromptSend, phase
      <4> QED
        BY <2>1, <3>1, <4>1, Known, MailKept, OnceKept DEF TaskOf
    <3>2. CASE task[s].msg # 0
      <4>1. PICK i : i = task[s].msg
        OBVIOUS
      <4>2. i \in DOMAIN mail[s] /\ mail[s][i].status = "dispatching" /\ mail[s][i].sent = 0
        BY <1>1, <3>2, <4>1, Known DEF Once
      <4>3. mail[s][i] \in Letter
        BY <4>2, Known, RowTyped, SMTT(60)
      <4>4. mail[s][i].sent + 1 = 1
        BY <4>2, SMTT(60)
      <4>5. PICK l : l = [mail[s][i] EXCEPT !.sent = 1]
        OBVIOUS
      <4>6. l \in Letter /\ l.status = "dispatching" /\ l.sent = 1
        BY <4>2, <4>3, <4>5, SMTT(60) DEF Letter
      <4>7. Proper(l)
        BY <2>2, <4>6 DEF Proper
      <4>8. mail' = [mail EXCEPT ![s] = [mail[s] EXCEPT ![i] = l]]
        BY <1>3, <3>2, <4>1, <4>4, <4>5 DEF PromptSend, phase
      <4> QED
        BY <2>1, <4>1, <4>2, <4>6, <4>7, <4>8, Known, OnceReplaced DEF TaskOf
    <3> QED
      BY <3>1, <3>2
  <2>5. Fit("working", sess[s].vm, task[s].op, "ack", pi[s], token[s], 1, allocs[s],
            Tied(s), Creates(s))
    BY <1>1, <1>2, <1>3, <2>2, Known
       DEF Fit, Turn, Rested, Fresh, Phased, Tended, Alone, Owned, Unplaced
  <2>6. Legal(sess[s].phase, "working")
    BY <1>3, SMTT(60) DEF Legal, Check
  <2> QED
    BY <1>1, <1>2, <1>3, <2>1, <2>3, <2>4, <2>5, <2>6, Known, OneSession DEF LaunchSteps
<1>4. CASE ~(sess[s].phase = "idle" /\ s \in Workers)
  <2>1. /\ RowOf(s, sess[s].phase, sess[s].vm) /\ TaskOf(s, "free", "free", 0)
        /\ PlaneOf(s, work[s], allocs[s], Tied(s), Creates(s))
    BY <1>1, <1>4, Known, RowKept, TaskDone, PlaneKept DEF PromptSend, phase
  <2>2. MailOf(s) /\ Once(s)'
    BY <1>4, <2>1, Known, OnceMarked DEF PromptSend, phase, TaskOf
  <2>3. Fit(sess[s].phase, sess[s].vm, "free", "free", pi[s], token[s], work[s], allocs[s],
            Tied(s), Creates(s))
    BY <1>1, <1>2, Known DEF Fit, Turn, Rested, Fresh, Phased, Tended, Alone, Owned, Unplaced
  <2> QED
    BY <1>1, <2>1, <2>2, <2>3, Known, LegalSame, OneSession DEF LaunchSteps
<1> QED
  BY <1>3, <1>4

LEMMA Acking ==
  ASSUME SessionsInv, NEW s \in Sessions, PromptAcked(s) \/ PromptUnacked(s)
  PROVE  Kept
<1>1. /\ closer' = closer /\ auto' = auto /\ WorkerOf(s, pi[s], token[s]) /\ task[s].pc = "ack"
      /\ PlaneOf(s, work[s], allocs[s], Tied(s), Creates(s)) /\ TaskOf(s, "free", "free", 0)
  BY Known, WorkerKept, PlaneKept, TaskDone DEF PromptAcked, PromptUnacked, At
<1>2. sess[s].phase \in {"working", "idle", "interrupted"} /\ task[s].op # "close"
  BY <1>1, Known DEF Fit, Phased
<1>3. MailOf(s) /\ Once(s)'
  BY <1>1, Known, OnceMarked DEF PromptAcked, PromptUnacked, TaskOf
<1>4. PICK p \in {sess[s].phase, "interrupted"} :
        RowOf(s, p, sess[s].vm) /\ (p = "interrupted" \/ p = sess[s].phase)
  BY <1>2, Known, RowKept, RowInterrupted DEF PromptAcked, PromptUnacked, Settled
<1>5. p = "interrupted" => pi[s] # "starting"
  BY <1>2, Known DEF Fit, Tended
<1>6. Fit(p, sess[s].vm, "free", "free", pi[s], token[s], work[s], allocs[s],
          Tied(s), Creates(s))
  BY <1>1, <1>2, <1>4, <1>5, Known
     DEF Fit, Turn, Rested, Fresh, Phased, Tended, Alone, Owned, Unplaced
<1>7. Legal(sess[s].phase, p)
  BY <1>2, <1>4, LegalSame, SMTT(60) DEF Legal, Check
<1> QED
  BY <1>1, <1>2, <1>3, <1>4, <1>6, <1>7, Known, OneSession DEF LaunchSteps

-----------------------------------------------------------------------------
(* Abort, sleep, stop, retire, and the answers to their calls.             *)

LEMMA Placed ==
  ASSUME SessionsInv, NEW s \in Sessions, sess[s].phase \notin Unplaced
  PROVE  sess[s].vm # 0 /\ sess[s].vm \in 1 .. MaxAllocs /\ Creates(s) = {}
<1>1. sess[s].vm # 0 /\ Creates(s) = {}
  BY Known DEF Fit, Owned
<1> QED
  BY <1>1, Known, SMTT(60)

(* Any call but create and destroy leaves the VMs that are labelled. *)
LEMMA CallAnswered ==
  ASSUME SessionsInv, NEW s \in Sessions, sess[s].phase \notin Unplaced, allocs' = allocs /\ raced' = raced,
         NEW op \in Calls \ {"create", "destroy"},
         Ok(op, s, sess[s].vm) \/ Failed(op, s, sess[s].vm)
  PROVE  \E w \in {0, work[s]} :
           /\ PlaneOf(s, w, allocs[s], Tied(s), Creates(s))
           /\ op \in Powers /\ Ok(op, s, sess[s].vm) => w = 0
<1>1. CASE Ok(op, s, sess[s].vm)
  BY <1>1, Known, Placed, PlaneOk DEF Retied, Relabelled, Tied
<1>2. CASE Failed(op, s, sess[s].vm) /\ ~Ok(op, s, sess[s].vm)
  BY <1>2, Known, Placed, PlaneFailed DEF Pended
<1> QED
  BY <1>1, <1>2

LEMMA HaltEnds ==
  ASSUME SessionsInv, NEW s \in Sessions, HaltAnswered(s)
  PROVE  Kept
<1>1. /\ closer' = closer /\ auto' = auto /\ WorkerOf(s, pi[s], token[s]) /\ task[s].pc = "halt"
      /\ MailOf(s) /\ mail'[s] = mail[s] /\ RowOf(s, sess[s].phase, sess[s].vm)
      /\ TaskOf(s, "free", "free", 0) /\ allocs' = allocs /\ raced' = raced
  BY Known, WorkerKept, MailKept, RowKept, TaskDone DEF HaltAnswered, At
<1>2. sess[s].phase = "interrupted"
  BY <1>1, Known DEF Fit, Phased
<1>3. PICK w \in {0, work[s]} : PlaneOf(s, w, allocs[s], Tied(s), Creates(s))
  BY <1>1, <1>2, CallAnswered DEF HaltAnswered, Unplaced, Calls
<1>4. Once(s)'
  BY <1>1, Known, OnceKept DEF TaskOf
<1>5. w <= 1
  BY Known, SMTT(60) DEF Fit, Turn
<1>6. Fit(sess[s].phase, sess[s].vm, "free", "free", pi[s], token[s], w, allocs[s],
          Tied(s), Creates(s))
  BY <1>2, <1>5, Known DEF Fit, Turn, Rested, Fresh, Phased, Tended, Alone, Owned, Unplaced
<1> QED
  BY <1>1, <1>3, <1>4, <1>6, Known, LegalSame, OneSession DEF LaunchSteps

LEMMA SuspendEnds ==
  ASSUME SessionsInv, NEW s \in Sessions, SuspendAnswered(s)
  PROVE  Kept
<1>1. /\ closer' = closer /\ auto' = auto /\ WorkerOf(s, pi[s], token[s]) /\ task[s].pc = "suspend"
      /\ MailOf(s) /\ mail'[s] = mail[s] /\ TaskOf(s, "free", "free", 0) /\ allocs' = allocs /\ raced' = raced
  BY Known, WorkerKept, MailKept, TaskDone DEF SuspendAnswered, At
<1>2. sess[s].phase = "sleeping" /\ work[s] = 0 /\ pi[s] = "none" /\ token[s] = FALSE
  BY <1>1, Known DEF Fit, Phased, Turn, Fresh, Tended, Alone
<1>3. PlaneOf(s, work[s], allocs[s], Tied(s), Creates(s))
  BY <1>1, <1>2, CallAnswered DEF SuspendAnswered, Unplaced, Calls
<1>4. Once(s)'
  BY <1>1, Known, OnceKept DEF TaskOf
<1>5. PICK p \in {"asleep", "interrupted"} : RowOf(s, p, sess[s].vm)
  BY <1>2, Known, RowMoved, RowInterrupted DEF SuspendAnswered, Phases, Settled
<1>6. Fit(p, sess[s].vm, "free", "free", pi[s], token[s], work[s], allocs[s],
          Tied(s), Creates(s))
  BY <1>2, Known DEF Fit, Turn, Rested, Fresh, Phased, Tended, Alone, Owned, Unplaced
<1>7. Legal(sess[s].phase, p)
  BY <1>2, SMTT(60) DEF Legal, Check
<1> QED
  BY <1>1, <1>2, <1>3, <1>4, <1>5, <1>6, <1>7, Known, OneSession DEF LaunchSteps

(* A VM that a retirement left running bears the label it had. *)
LEMMA PlaneResumed ==
  ASSUME SessionsInv, NEW s \in Sessions, sess[s].phase \notin Unplaced, LeftRunning(s),
         allocs' = allocs /\ raced' = raced
  PROVE  PlaneOf(s, work[s], allocs[s], Tied(s), Creates(s))
<1>1. /\ vms' = [vms EXCEPT ![<<s, sess[s].vm>>] = "running"] /\ work' = work /\ flight' = flight
      /\ vms[<<s, sess[s].vm>>] = "suspended"
  BY DEF LeftRunning, Own
<1>2. <<s, sess[s].vm>> \in Sessions \X (1 .. MaxAllocs)
  BY Placed, SMTT(60)
<1>3. /\ vms' \in [Sessions \X (1 .. MaxAllocs) -> {"none", "running", "suspended", "stopped"}]
      /\ \A x \in Sessions \X (1 .. MaxAllocs) : vms'[x] # "none" <=> vms[x] # "none"
  <2>1. vms \in [Sessions \X (1 .. MaxAllocs) -> {"none", "running", "suspended", "stopped"}]
    BY Known DEF Types
  <2>2. vms' \in [Sessions \X (1 .. MaxAllocs) -> {"none", "running", "suspended", "stopped"}]
    BY <1>1, <2>1
  <2>3. "running" # "none" /\ "suspended" # "none"
    OBVIOUS
  <2> QED
    BY <1>1, <1>2, <2>1, <2>2, <2>3
<1>4. \A t \in Sessions : Labelled(t)' = Labelled(t)
  BY <1>3, SMTT(60) DEF Labelled
<1>5. \A t \in Sessions : Tied(t)' = Tied(t) /\ Creates(t)' = Creates(t)
  BY <1>1, <1>4 DEF Tied, Creates
<1> QED
  BY <1>1, <1>3, <1>5, Known DEF PlaneOf, Types, Others

LEMMA StopEnds ==
  ASSUME SessionsInv, NEW s \in Sessions, StopAnswered(s)
  PROVE  Kept
<1>1. /\ closer' = closer /\ auto' = auto /\ WorkerOf(s, pi[s], token[s]) /\ allocs' = allocs /\ raced' = raced
      /\ MailOf(s) /\ mail'[s] = mail[s] /\ task[s].pc \in {"terminate", "retire"}
  BY Known, WorkerKept, MailKept DEF StopAnswered
<1>2. /\ sess[s].phase = "stopping" /\ pi[s] = "none" /\ token[s] = FALSE /\ task[s].op # "close"
      /\ sess[s].phase \notin Unplaced /\ task[s].pc \in Calls \ {"create", "destroy"}
      /\ task[s].pc \in Powers
  BY <1>1, Known DEF Fit, Phased, Tended, Alone, Unplaced, Calls, Powers
<1>3. task[s].msg = 0
  BY <1>1, Known DEF Once, LaunchSteps
<1>4. CASE Ok(task[s].pc, s, sess[s].vm) /\ Goto(s, "confirm") /\ sess' = sess
  <2>1. PlaneOf(s, 0, allocs[s], Tied(s), Creates(s))
    BY <1>1, <1>2, <1>4, CallAnswered
  <2>2. RowOf(s, sess[s].phase, sess[s].vm) /\ TaskOf(s, task[s].op, "confirm", 0)
    BY <1>3, <1>4, Known, RowKept, TaskMoved DEF Steps
  <2>3. Once(s)'
    BY <1>1, <2>2, Known, OnceKept DEF TaskOf
  <2>4. 0 <= 1
    BY SMTT(60)
  <2>5. Fit(sess[s].phase, sess[s].vm, task[s].op, "confirm", pi[s], token[s], 0, allocs[s],
            Tied(s), Creates(s))
    BY <1>1, <1>2, <2>4, Known DEF Fit, Turn, Rested, Fresh, Phased, Tended, Alone, Owned, Unplaced
  <2> QED
    BY <1>1, <1>2, <2>1, <2>2, <2>3, <2>5, Known, LegalSame, OneSession DEF LaunchSteps
<1>5. CASE /\ Failed(task[s].pc, s, sess[s].vm) \/ (At(s, "retire") /\ LeftRunning(s))
           /\ sess' = Interrupt(s, "other") /\ Finish(s)
  <2>1. PICK w \in {0, work[s]} : PlaneOf(s, w, allocs[s], Tied(s), Creates(s))
    BY <1>1, <1>2, <1>5, CallAnswered, PlaneResumed
  <2>2. RowOf(s, "interrupted", sess[s].vm) /\ TaskOf(s, "free", "free", 0)
    BY <1>2, <1>5, Known, RowInterrupted, TaskDone DEF Settled
  <2>3. Once(s)'
    BY <1>1, <2>2, Known, OnceKept DEF TaskOf
  <2>4. w <= 1
    BY Known, SMTT(60) DEF Fit, Turn
  <2>5. Fit("interrupted", sess[s].vm, "free", "free", pi[s], token[s], w, allocs[s],
            Tied(s), Creates(s))
    BY <1>2, <2>4, Known DEF Fit, Turn, Rested, Fresh, Phased, Tended, Alone, Owned, Unplaced
  <2>6. Legal(sess[s].phase, "interrupted")
    BY <1>2, SMTT(60) DEF Legal, Check
  <2> QED
    BY <1>1, <1>2, <2>1, <2>2, <2>3, <2>5, <2>6, Known, OneSession DEF LaunchSteps
<1> QED
  BY <1>4, <1>5 DEF StopAnswered

LEMMA ConfirmEnds ==
  ASSUME SessionsInv, NEW s \in Sessions, StopConfirmed(s)
  PROVE  Kept
<1>1. /\ closer' = closer /\ auto' = auto /\ WorkerOf(s, pi[s], token[s]) /\ task[s].pc = "confirm"
      /\ MailOf(s) /\ mail'[s] = mail[s] /\ TaskOf(s, "free", "free", 0)
      /\ PlaneOf(s, work[s], allocs[s], Tied(s), Creates(s))
  BY Known, WorkerKept, MailKept, TaskDone, PlaneKept DEF StopConfirmed, At
<1>2. sess[s].phase = "stopping" /\ work[s] = 0 /\ pi[s] = "none" /\ token[s] = FALSE
  BY <1>1, Known DEF Fit, Phased, Turn, Fresh, Tended, Alone
<1>3. Once(s)'
  BY <1>1, Known, OnceKept DEF TaskOf
<1>4. PICK p \in {"stopped", "interrupted"} : RowOf(s, p, sess[s].vm)
  BY <1>2, Known, RowMoved, RowInterrupted DEF StopConfirmed, Phases, Settled
<1>5. Fit(p, sess[s].vm, "free", "free", pi[s], token[s], work[s], allocs[s],
          Tied(s), Creates(s))
  BY <1>2, Known DEF Fit, Turn, Rested, Fresh, Phased, Tended, Alone, Owned, Unplaced
<1>6. Legal(sess[s].phase, p)
  BY <1>2, SMTT(60) DEF Legal, Check
<1> QED
  BY <1>1, <1>2, <1>3, <1>4, <1>5, <1>6, Known, OneSession DEF LaunchSteps

LEMMA Aborting ==
  ASSUME SessionsInv, NEW s \in Sessions, Abort(s)
  PROVE  Kept
<1>1. /\ closer' = closer /\ auto' = auto /\ MailOf(s) /\ mail'[s] = mail[s]
      /\ PlaneOf(s, work[s], allocs[s], Tied(s), Creates(s)) /\ sess[s].phase = "working"
      /\ WorkerOf(s, IF pi[s] = "starting" THEN "starting" ELSE "none", FALSE)
  BY Known, MailKept, PlaneKept, WorkerStopped DEF Abort, phase
<1>2. pi[s] # "starting"
  BY <1>1, Known DEF Fit, Tended
<1>3. TaskOf(s, "abort", "halt", 0) /\ task[s].op = "free" /\ task[s].pc = "free"
  BY Known, TaskBegun DEF Abort, Operator, Steps
<1>4. RowOf(s, "interrupted", sess[s].vm)
  BY <1>1, Known, RowInterrupted DEF Abort, Settled
<1>5. Once(s)'
  BY <1>1, <1>3, Known, OnceKept DEF TaskOf
<1>6. Fit("interrupted", sess[s].vm, "abort", "halt", "none", FALSE, work[s], allocs[s],
          Tied(s), Creates(s))
  BY <1>1, <1>3, Known DEF Fit, Turn, Rested, Fresh, Phased, Tended, Alone, Owned, Unplaced
<1>7. Legal(sess[s].phase, "interrupted")
  BY <1>1, SMTT(60) DEF Legal, Check
<1> QED
  BY <1>1, <1>2, <1>3, <1>4, <1>5, <1>6, <1>7, Known, OneSession DEF LaunchSteps

LEMMA Sleeping ==
  ASSUME SessionsInv, NEW s \in Sessions, NEW op \in {"sleep", "sweep"}, Sleep(s, op)
  PROVE  Kept
<1>1. /\ closer' = closer /\ auto' = auto /\ MailOf(s) /\ mail'[s] = mail[s]
      /\ PlaneOf(s, work[s], allocs[s], Tied(s), Creates(s)) /\ sess[s].phase = "idle"
      /\ WorkerOf(s, IF pi[s] = "starting" THEN "starting" ELSE "none", FALSE)
      /\ RowOf(s, "sleeping", sess[s].vm)
  BY Known, MailKept, PlaneKept, WorkerStopped, RowMoved DEF Sleep, phase, Phases
<1>2. pi[s] # "starting" /\ work[s] = 0
  BY <1>1, Known DEF Fit, Tended, Turn, Rested
<1>3. TaskOf(s, op, "suspend", 0) /\ task[s].op = "free" /\ task[s].pc = "free"
  BY Known, TaskBegun DEF Sleep, Operator, Unattended, Steps
<1>4. Once(s)'
  BY <1>1, <1>3, Known, OnceKept DEF TaskOf
<1>5. Fit("sleeping", sess[s].vm, op, "suspend", "none", FALSE, work[s], allocs[s],
          Tied(s), Creates(s))
  BY <1>1, <1>2, <1>3, Known DEF Fit, Turn, Rested, Fresh, Phased, Tended, Alone, Owned, Unplaced
<1>6. Legal(sess[s].phase, "sleeping")
  BY <1>1, SMTT(60) DEF Legal, Check
<1> QED
  BY <1>1, <1>2, <1>3, <1>4, <1>5, <1>6, Known, OneSession DEF LaunchSteps

LEMMA Stopping ==
  ASSUME SessionsInv, NEW s \in Sessions, StopVm(s)
  PROVE  Kept
<1>1. /\ closer' = closer /\ auto' = auto /\ MailOf(s) /\ mail'[s] = mail[s]
      /\ PlaneOf(s, work[s], allocs[s], Tied(s), Creates(s))
      /\ sess[s].phase \in {"idle", "working", "asleep", "stopped", "interrupted"}
      /\ WorkerOf(s, IF pi[s] = "starting" THEN "starting" ELSE "none", FALSE)
      /\ RowOf(s, "stopping", sess[s].vm)
  BY Known, MailKept, PlaneKept, WorkerStopped, RowMoved DEF StopVm, phase, Phases
<1>2. pi[s] # "starting"
  BY <1>1, Known DEF Fit, Tended, Turn, Rested
<1>3. TaskOf(s, "stop", "terminate", 0) /\ task[s].op = "free" /\ task[s].pc = "free"
  BY Known, TaskBegun DEF StopVm, Operator, Steps
<1>4. Once(s)'
  BY <1>1, <1>3, Known, OnceKept DEF TaskOf
<1>5. Fit("stopping", sess[s].vm, "stop", "terminate", "none", FALSE, work[s], allocs[s],
          Tied(s), Creates(s))
  BY <1>1, <1>2, <1>3, Known DEF Fit, Turn, Rested, Fresh, Phased, Tended, Alone, Owned, Unplaced
<1>6. Legal(sess[s].phase, "stopping")
  BY <1>1, SMTT(60) DEF Legal, Check
<1> QED
  BY <1>1, <1>2, <1>3, <1>4, <1>5, <1>6, Known, OneSession DEF LaunchSteps

LEMMA Retiring ==
  ASSUME SessionsInv, NEW s \in Sessions, Retire(s)
  PROVE  Kept
<1>1. /\ closer' = closer /\ auto' = auto /\ MailOf(s) /\ mail'[s] = mail[s]
      /\ PlaneOf(s, work[s], allocs[s], Tied(s), Creates(s)) /\ sess[s].phase = "asleep"
      /\ WorkerOf(s, pi[s], token[s]) /\ RowOf(s, "stopping", sess[s].vm)
  BY Known, MailKept, PlaneKept, WorkerKept, RowMoved DEF Retire, phase, Phases
<1>2. TaskOf(s, "retire", "retire", 0) /\ task[s].op = "free" /\ task[s].pc = "free"
  BY Known, TaskBegun DEF Retire, Unattended, Steps
<1>3. Once(s)'
  BY <1>1, <1>2, Known, OnceKept DEF TaskOf
<1>4. Fit("stopping", sess[s].vm, "retire", "retire", pi[s], token[s], work[s], allocs[s],
          Tied(s), Creates(s))
  BY <1>1, <1>2, Known DEF Fit, Turn, Rested, Fresh, Phased, Tended, Alone, Owned, Unplaced
<1>5. Legal(sess[s].phase, "stopping")
  BY <1>1, SMTT(60) DEF Legal, Check
<1> QED
  BY <1>1, <1>2, <1>3, <1>4, <1>5, Known, OneSession DEF LaunchSteps

(* A recovery begins, asked for or after a restart. *)
LEMMA RecoveryBegins ==
  ASSUME SessionsInv, NEW s \in Sessions, NEW op \in {"recover", "auto"},
         sess[s].phase = "interrupted", Begin(s, op, "gate", 0), StopWorker(s),
         UNCHANGED <<store, closer, plane>>, auto' \in Seq(Sessions)
  PROVE  Kept
<1>1. /\ MailOf(s) /\ mail'[s] = mail[s]
      /\ PlaneOf(s, work[s], allocs[s], Tied(s), Creates(s))
      /\ WorkerOf(s, IF pi[s] = "starting" THEN "starting" ELSE "none", FALSE)
      /\ RowOf(s, sess[s].phase, sess[s].vm)
  BY Known, MailKept, PlaneKept, WorkerStopped, RowKept
<1>2. pi[s] # "starting"
  BY Known DEF Fit, Tended
<1>3. TaskOf(s, op, "gate", 0) /\ task[s].op = "free" /\ task[s].pc = "free"
  BY Known, TaskBegun DEF Operator, Unattended, Steps
<1>4. Once(s)'
  BY <1>1, <1>3, Known, OnceKept DEF TaskOf
<1>5. Fit(sess[s].phase, sess[s].vm, op, "gate", "none", FALSE, work[s], allocs[s],
          Tied(s), Creates(s))
  BY <1>3, Known DEF Fit, Turn, Rested, Fresh, Phased, Tended, Alone, Owned, Unplaced
<1> QED
  BY <1>1, <1>2, <1>3, <1>4, <1>5, LegalSame, OneSession DEF LaunchSteps

LEMMA Recoveries ==
  ASSUME SessionsInv, (\E s \in Sessions : Recover(s)) \/ AutoRecover
  PROVE  Kept
<1>1. CASE \E s \in Sessions : Recover(s)
  BY <1>1, RecoveryBegins, AutoTyped DEF Recover, phase, SessionsInv
<1>2. CASE AutoRecover
  <2>1. auto \in Seq(Sessions) /\ auto # <<>>
    BY <1>2, AutoTyped DEF AutoRecover, SessionsInv
  <2>2. PICK s \in Sessions : s = Head(auto)
    BY <2>1, SMTT(60)
  <2>3. Tail(auto) \in Seq(Sessions)
    BY <2>1, SMTT(60)
  <2>4. CASE sess[s].phase = "interrupted"
    BY <1>2, <2>2, <2>3, <2>4, RecoveryBegins DEF AutoRecover, phase
  <2>5. CASE sess[s].phase # "interrupted"
    <3>1. /\ RowOf(s, sess[s].phase, sess[s].vm) /\ MailOf(s) /\ mail'[s] = mail[s]
          /\ WorkerOf(s, pi[s], token[s]) /\ TaskOf(s, task[s].op, task[s].pc, task[s].msg)
          /\ PlaneOf(s, work[s], allocs[s], Tied(s), Creates(s)) /\ closer' = closer
          /\ auto' \in Seq(Sessions)
      BY <1>2, <2>2, <2>3, <2>5, Known, RowKept, MailKept, WorkerKept, TaskKept, PlaneKept
         DEF AutoRecover, phase
    <3>2. Once(s)'
      BY <3>1, Known, OnceKept DEF TaskOf
    <3> QED
      BY <3>1, <3>2, Known, LegalSame, OneSession
  <2> QED
    BY <2>4, <2>5
<1> QED
  BY <1>1, <1>2

-----------------------------------------------------------------------------
(* Ambiguous allocations.                                                  *)

LEMMA ReconcileBegins ==
  ASSUME SessionsInv, NEW s \in Sessions, Reconcile(s) \/ RetryAllocation(s)
  PROVE  Kept
<1>1. /\ closer' = closer /\ auto' = auto /\ MailOf(s) /\ mail'[s] = mail[s]
      /\ PlaneOf(s, work[s], allocs[s], Tied(s), Creates(s))
      /\ WorkerOf(s, pi[s], token[s]) /\ RowOf(s, sess[s].phase, sess[s].vm)
      /\ sess[s].phase = "allocation_unknown"
  BY Known, MailKept, PlaneKept, WorkerKept, RowKept DEF Reconcile, RetryAllocation, phase
<1>2. PICK o \in {"reconcile", "retry"}, c \in {"list", "relist"} :
        /\ TaskOf(s, o, c, 0) /\ task[s].op = "free" /\ task[s].pc = "free"
        /\ c = "relist" =>
             o = "retry" /\ sess[s].vm = 0 /\ allocs[s] < MaxAllocs
  BY Known, TaskBegun DEF Reconcile, RetryAllocation, Operator, Steps
<1>3. Once(s)'
  BY <1>1, <1>2, Known, OnceKept DEF TaskOf
<1>4. Fit(sess[s].phase, sess[s].vm, o, c, pi[s], token[s], work[s], allocs[s],
          Tied(s), Creates(s))
  BY <1>1, <1>2, Known DEF Fit, Turn, Rested, Fresh, Phased, Tended, Alone, Owned, Unplaced
<1> QED
  BY <1>1, <1>2, <1>3, <1>4, Known, LegalSame, OneSession DEF LaunchSteps

LEMMA ReconcileEnds ==
  ASSUME SessionsInv, NEW s \in Sessions, Reconciled(s)
  PROVE  Kept
<1>1. /\ closer' = closer /\ auto' = auto /\ MailOf(s) /\ mail'[s] = mail[s]
      /\ PlaneOf(s, work[s], allocs[s], Tied(s), Creates(s)) /\ task[s].pc = "list"
      /\ WorkerOf(s, pi[s], token[s]) /\ TaskOf(s, "free", "free", 0)
  BY Known, MailKept, PlaneKept, WorkerKept, TaskDone DEF Reconciled, At
<1>2. sess[s].phase = "allocation_unknown" /\ pi[s] = "none" /\ token[s] = FALSE
  BY <1>1, Known DEF Fit, Phased, Tended, Alone
<1>3. Once(s)'
  BY <1>1, Known, OnceKept DEF TaskOf
<1>4. CASE \E n \in Labelled(s) :
             sess' = [sess EXCEPT ![s] = [phase |-> "interrupted", vm |-> n, err |-> sess[s].err]]
  <2>1. PICK n \in Labelled(s) :
          sess' = [sess EXCEPT ![s] = [phase |-> "interrupted", vm |-> n, err |-> sess[s].err]]
    BY <1>4
  <2>2. Tied(s) \subseteq {n} /\ n \in 1 .. MaxAllocs /\ Creates(s) = {}
    <3>1. n \in 1 .. MaxAllocs
      BY DEF Labelled
    <3>2. CASE s \in raced
      BY <3>1, <3>2 DEF Tied, Creates
    <3>3. CASE s \notin raced
      <4>1. n \in Tied(s)
        BY <3>3 DEF Tied
      <4> QED
        BY <3>1, <4>1, Known DEF Fit, Owned
    <3> QED
      BY <3>2, <3>3
  <2>3. n # 0
    BY <2>2, SMTT(60)
  <2>4. PICK r : r = [phase |-> "interrupted", vm |-> n, err |-> sess[s].err]
    OBVIOUS
  <2>5. r \in Row /\ r.phase = "interrupted" /\ r.vm = n
    BY <2>2, <2>4, Known, RowTyped, SMTT(60) DEF Row, Phases
  <2>6. RowOf(s, "interrupted", n)
    BY <2>1, <2>4, <2>5, Known, RowSet
  <2>7. Fit("interrupted", n, "free", "free", pi[s], token[s], work[s], allocs[s],
            Tied(s), Creates(s))
    BY <1>2, <2>2, <2>3, Known
       DEF Fit, Turn, Rested, Fresh, Phased, Tended, Alone, Owned, Unplaced
  <2>8. Legal(sess[s].phase, "interrupted")
    BY <1>2, SMTT(60) DEF Legal, Check
  <2> QED
    BY <1>1, <1>2, <1>3, <2>3, <2>6, <2>7, <2>8, Known, OneSession DEF LaunchSteps
<1>5. CASE sess' = sess
  <2>1. RowOf(s, sess[s].phase, sess[s].vm)
    BY <1>5, Known, RowKept
  <2>2. Fit(sess[s].phase, sess[s].vm, "free", "free", pi[s], token[s], work[s], allocs[s],
            Tied(s), Creates(s))
    BY <1>2, Known DEF Fit, Turn, Rested, Fresh, Phased, Tended, Alone, Owned, Unplaced
  <2> QED
    BY <1>1, <1>3, <2>1, <2>2, Known, LegalSame, OneSession DEF LaunchSteps
<1> QED
  BY <1>4, <1>5 DEF Reconciled

LEMMA RetryEnds ==
  ASSUME SessionsInv, NEW s \in Sessions, RetryListed(s)
  PROVE  Kept
<1>1. /\ closer' = closer /\ auto' = auto /\ MailOf(s) /\ mail'[s] = mail[s]
      /\ task[s].pc = "relist" /\ WorkerOf(s, pi[s], token[s])
      /\ vms' = vms /\ work' = work /\ flight' = flight
  BY Known, MailKept, WorkerKept DEF RetryListed, At
<1>2. /\ sess[s].phase = "allocation_unknown" /\ sess[s].vm = 0
      /\ allocs[s] < MaxAllocs /\ work[s] = 0 /\ task[s].op # "close"
      /\ pi[s] = "none" /\ token[s] = FALSE
  BY <1>1, Known DEF Fit, Phased, Owned, Turn, Fresh, Tended, Alone
<1>3. task[s].msg = 0
  BY <1>1, Known DEF Once, LaunchSteps
<1>4. CASE /\ Labelled(s) = {} /\ sess' = Moved(s, "allocating")
           /\ allocs' = [allocs EXCEPT ![s] = allocs[s] + 1] /\ Goto(s, "create")
           /\ raced' = IF \E r \in flight : r.op = "create" /\ r.s = s
                       THEN raced \cup {s} ELSE raced
  <2>1. PICK a \in 0 .. MaxAllocs : a = allocs[s] + 1
    BY <1>2, Known, SessionsAssumption, SMTT(60)
  <2>2. a # 0
    BY <2>1, Known, SMTT(60)
  <2>3. task[s].op = "retry"
    BY <1>1, Known DEF Fit, Phased
  <2>4. Tied(s)' = {} /\ Creates(s)' = {} /\ raced' \in {raced, raced \cup {s}}
    <3>1. Labelled(s)' = {}
      BY <1>1, <1>4 DEF Labelled
    <3>2. CASE \E r \in flight : r.op = "create" /\ r.s = s
      BY <1>4, <3>2 DEF Tied, Creates
    <3>3. CASE ~\E r \in flight : r.op = "create" /\ r.s = s
      BY <1>1, <1>4, <3>1, <3>3 DEF Tied, Creates
    <3> QED
      BY <3>2, <3>3
  <2>5. PlaneOf(s, work[s], a, {}, {})
    BY <1>1, <1>4, <2>1, <2>4, Known, PlaneAsked
  <2>6. RowOf(s, "allocating", sess[s].vm) /\ TaskOf(s, "retry", "create", 0)
    BY <1>1, <1>3, <1>4, <2>3, Known, RowMoved, TaskMoved DEF Phases, Steps
  <2>7. Once(s)'
    BY <1>1, <2>6, Known, OnceKept DEF TaskOf
  <2>8. Fit("allocating", sess[s].vm, "retry", "create", pi[s], token[s], work[s], a, {}, {})
    BY <1>2, <2>2, Known
       DEF Fit, Turn, Rested, Fresh, Phased, Tended, Alone, Owned, Unplaced
  <2>9. Legal(sess[s].phase, "allocating")
    BY <1>2, SMTT(60) DEF Legal, Check
  <2> QED
    BY <1>1, <1>2, <2>5, <2>6, <2>7, <2>8, <2>9, Known, OneSession DEF LaunchSteps
<1>5. CASE Finish(s) /\ sess' = sess /\ allocs' = allocs /\ raced' = raced
  <2>1. /\ RowOf(s, sess[s].phase, sess[s].vm) /\ TaskOf(s, "free", "free", 0)
        /\ PlaneOf(s, work[s], allocs[s], Tied(s), Creates(s))
    BY <1>1, <1>5, Known, RowKept, TaskDone, PlaneKept
  <2>2. Once(s)'
    BY <1>1, <2>1, Known, OnceKept DEF TaskOf
  <2>3. Fit(sess[s].phase, sess[s].vm, "free", "free", pi[s], token[s], work[s], allocs[s],
            Tied(s), Creates(s))
    BY <1>2, Known DEF Fit, Turn, Rested, Fresh, Phased, Tended, Alone, Owned, Unplaced
  <2> QED
    BY <1>1, <2>1, <2>2, <2>3, Known, LegalSame, OneSession DEF LaunchSteps
<1> QED
  BY <1>4, <1>5 DEF RetryListed

-----------------------------------------------------------------------------
(* Deleting a fenced session.                                              *)

LEMMA CloseGivenUp ==
  ASSUME SessionsInv, NEW s \in Sessions, CloseFails(s)
  PROVE  RowOf(s, sess[s].phase, sess[s].vm) /\ TaskOf(s, "free", "free", 0)
<1>1. PICK r : r = [sess[s] EXCEPT !.err = "other"]
  OBVIOUS
<1>2. r \in Row /\ r.phase = sess[s].phase /\ r.vm = sess[s].vm
  BY <1>1, Known, RowTyped, SMTT(60) DEF Row
<1>3. sess' = [sess EXCEPT ![s] = r]
  BY <1>1 DEF CloseFails
<1> QED
  BY <1>2, <1>3, Known, RowSet, TaskDone DEF CloseFails

LEMMA CloseEnds ==
  ASSUME SessionsInv, NEW s \in Sessions, CloseListed(s) \/ DestroyAnswered(s)
  PROVE  Kept
<1>1. /\ closer' = closer /\ auto' = auto /\ MailOf(s) /\ mail'[s] = mail[s]
      /\ task[s].pc \in {"check", "destroy"} /\ WorkerOf(s, pi[s], token[s]) /\ allocs' = allocs /\ raced' = raced
  BY Known, MailKept, WorkerKept DEF CloseListed, DestroyAnswered, At
<1>2. task[s].op = "close" /\ sess[s].phase = "closing" /\ sess[s].phase \notin Unplaced
  BY <1>1, Known DEF Fit, Phased, Unplaced
<1>3. task[s].msg = 0
  BY <1>1, Known DEF Once, LaunchSteps
<1>4. /\ sess[s].vm # 0 /\ sess[s].vm \in 1 .. MaxAllocs /\ Tied(s) \subseteq {sess[s].vm}
      /\ Creates(s) = {}
  BY <1>2, Known, Placed DEF Fit, Owned
<1>5. Legal(sess[s].phase, "closed")
  BY <1>2, SMTT(60) DEF Legal, Check
<1>6. ASSUME NEW w \in {0, work[s]}, PlaneOf(s, w, allocs[s], {}, Creates(s)),
             sess' = Moved(s, "closed"), Finish(s)
      PROVE  Kept
  <2>1. RowOf(s, "closed", sess[s].vm) /\ TaskOf(s, "free", "free", 0)
    BY <1>6, Known, RowMoved, TaskDone DEF Phases
  <2>2. Once(s)'
    BY <1>1, <2>1, Known, OnceKept DEF TaskOf
  <2>3. w <= 1
    BY Known, SMTT(60) DEF Fit, Turn
  <2>4. Fit("closed", sess[s].vm, "free", "free", pi[s], token[s], w, allocs[s], {}, Creates(s))
    BY <1>2, <1>4, <2>3, Known
       DEF Fit, Turn, Rested, Fresh, Phased, Tended, Alone, Owned, Unplaced
  <2> QED
    BY <1>1, <1>2, <1>4, <1>5, <1>6, <2>1, <2>2, <2>4, Known, OneSession DEF LaunchSteps
<1>7. ASSUME PlaneOf(s, work[s], allocs[s], Tied(s), Creates(s)), CloseFails(s)
      PROVE  Kept
  <2>1. RowOf(s, sess[s].phase, sess[s].vm) /\ TaskOf(s, "free", "free", 0)
    BY <1>7, CloseGivenUp
  <2>2. Once(s)'
    BY <1>1, <2>1, Known, OnceKept DEF TaskOf
  <2>3. Fit(sess[s].phase, sess[s].vm, "free", "free", pi[s], token[s], work[s], allocs[s],
            Tied(s), Creates(s))
    BY <1>2, Known DEF Fit, Turn, Rested, Fresh, Phased, Tended, Alone, Owned, Unplaced
  <2> QED
    BY <1>1, <1>7, <2>1, <2>2, <2>3, Known, LegalSame, OneSession DEF LaunchSteps
<1>8. CASE CloseListed(s)
  <2>1. PlaneOf(s, work[s], allocs[s], Tied(s), Creates(s))
    BY <1>8, Known, PlaneKept DEF CloseListed
  <2>2. CASE VmState(s) = "none" /\ sess' = Moved(s, "closed") /\ Finish(s)
    <3>1. Tied(s) = {}
      BY <1>4, <2>2 DEF VmState, Own, Tied, Labelled
    <3> QED
      BY <1>6, <2>1, <2>2, <3>1
  <2>3. CASE Goto(s, "destroy") /\ sess' = sess
    <3>1. RowOf(s, sess[s].phase, sess[s].vm) /\ TaskOf(s, "close", "destroy", 0)
      BY <1>2, <1>3, <2>3, Known, RowKept, TaskMoved DEF Steps
    <3>2. Once(s)'
      BY <1>1, <3>1, Known, OnceKept DEF TaskOf
    <3>3. Fit(sess[s].phase, sess[s].vm, "close", "destroy", pi[s], token[s], work[s], allocs[s],
              Tied(s), Creates(s))
      BY <1>2, Known DEF Fit, Turn, Rested, Fresh, Phased, Tended, Alone, Owned, Unplaced
    <3> QED
      BY <1>1, <1>2, <2>1, <3>1, <3>2, <3>3, Known, LegalSame, OneSession DEF LaunchSteps
  <2> QED
    BY <1>7, <1>8, <2>1, <2>2, <2>3 DEF CloseListed
<1>9. CASE DestroyAnswered(s)
  <2>1. CASE Ok("destroy", s, sess[s].vm) /\ sess' = Moved(s, "closed") /\ Finish(s)
    <3>1. Retied("destroy", s, sess[s].vm) = {}
      BY <1>4 DEF Retied, Relabelled, Tied
    <3>2. PICK w \in {0, work[s]} : PlaneOf(s, w, allocs[s], {}, Creates(s))
      BY <1>1, <1>4, <2>1, <3>1, Known, PlaneOk DEF Calls
    <3> QED
      BY <1>6, <2>1, <3>2
  <2>2. CASE Failed("destroy", s, sess[s].vm) /\ CloseFails(s)
    <3>1. PlaneOf(s, work[s], allocs[s], Tied(s), Creates(s))
      BY <1>1, <1>4, <2>2, Known, PlaneFailed DEF Calls, Pended
    <3> QED
      BY <1>7, <2>2, <3>1
  <2> QED
    BY <1>9, <2>1, <2>2 DEF DestroyAnswered
<1> QED
  BY <1>8, <1>9

-----------------------------------------------------------------------------
(* The mailbox.                                                            *)

LEMMA OnceAppended ==
  ASSUME Types, NEW s \in Sessions, Once(s), NEW b \in BOOLEAN, Enqueue(s, b), task'[s] = task[s]
  PROVE  MailOf(s) /\ Once(s)'
<1>1. PICK l : l = [op |-> b, status |-> "pending", sent |-> 0]
  OBVIOUS
<1>2. l \in Letter /\ l.status = "pending" /\ l.sent = 0
  BY <1>1, SMTT(60) DEF Letter, Statuses
<1>3. Proper(l)
  BY <1>2, SMTT(60) DEF Proper
<1>4. PICK box : box = Append(mail[s], l)
  OBVIOUS
<1>5. mail[s] \in Seq(Letter) /\ Len(mail[s]) < MaxMail /\ mail' = [mail EXCEPT ![s] = box]
  BY <1>1, <1>4, RowTyped DEF Enqueue
<1>6. /\ box \in Seq(Letter) /\ Len(box) <= MaxMail /\ DOMAIN mail[s] \subseteq DOMAIN box
      /\ \A i \in DOMAIN mail[s] : box[i] = mail[s][i]
      /\ \A i \in DOMAIN box : i \in DOMAIN mail[s] \/ box[i] = l
  BY <1>2, <1>4, <1>5, SessionsAssumption, SMTT(60)
<1>7. MailOf(s) /\ mail'[s] = box
  BY <1>5, <1>6, MailSet
<1>8. \A i \in DOMAIN box : Proper(box[i])
  BY <1>3, <1>6 DEF Once
<1> QED
  BY <1>6, <1>7, <1>8 DEF Once

LEMMA Enqueuing ==
  ASSUME SessionsInv, NEW s \in Sessions, NEW b \in BOOLEAN, Enqueue(s, b),
         UNCHANGED <<sess, process, plane>>
  PROVE  Kept
<1>1. /\ RowOf(s, sess[s].phase, sess[s].vm) /\ WorkerOf(s, pi[s], token[s])
      /\ TaskOf(s, task[s].op, task[s].pc, task[s].msg) /\ closer' = closer /\ auto' = auto
      /\ PlaneOf(s, work[s], allocs[s], Tied(s), Creates(s)) /\ task'[s] = task[s]
  BY Known, RowKept, WorkerKept, TaskKept, PlaneKept
<1>2. MailOf(s) /\ Once(s)'
  BY <1>1, Known, OnceAppended
<1> QED
  BY <1>1, <1>2, Known, LegalSame, OneSession

LEMMA Submitting ==
  ASSUME SessionsInv, NEW s \in Sessions, SubmitPrompt(s)
  PROVE  Kept
<1>1. CASE Enqueue(s, TRUE) /\ task' = task
  BY <1>1, Enqueuing DEF SubmitPrompt
<1>2. CASE Begin(s, "prompt", Wakes(s), 0) /\ mail' = mail /\ sess[s].phase # "working"
  <2>1. /\ RowOf(s, sess[s].phase, sess[s].vm) /\ WorkerOf(s, pi[s], token[s])
        /\ MailOf(s) /\ mail'[s] = mail[s] /\ closer' = closer /\ auto' = auto
        /\ PlaneOf(s, work[s], allocs[s], Tied(s), Creates(s))
        /\ sess[s].phase \in {"idle", "asleep", "stopped"}
    BY <1>2, Known, RowKept, WorkerKept, MailKept, PlaneKept DEF SubmitPrompt, phase
  <2>2. PICK c \in {"gate", "send"} :
          c = Wakes(s) /\ (c = "gate" <=> sess[s].phase \in {"asleep", "stopped"})
    BY DEF Wakes, phase
  <2>3. TaskOf(s, "prompt", c, 0) /\ task[s].op = "free" /\ task[s].pc = "free"
    BY <1>2, <2>2, Known, TaskBegun DEF Operator, Steps
  <2>4. Once(s)'
    BY <2>1, <2>3, Known, OnceKept DEF TaskOf
  <2>5. Fit(sess[s].phase, sess[s].vm, "prompt", c, pi[s], token[s], work[s], allocs[s],
            Tied(s), Creates(s))
    BY <2>1, <2>2, <2>3, Known
       DEF Fit, Turn, Rested, Fresh, Phased, Tended, Alone, Owned, Unplaced
  <2> QED
    BY <2>1, <2>2, <2>3, <2>4, <2>5, Known, LegalSame, OneSession DEF LaunchSteps
<1> QED
  BY <1>1, <1>2 DEF SubmitPrompt, phase

(* The timer claims a pending message; only then is it a handler's. *)
LEMMA Delivering ==
  ASSUME SessionsInv, NEW s \in Sessions, Deliver(s)
  PROVE  Kept
<1>1. /\ RowOf(s, sess[s].phase, sess[s].vm) /\ WorkerOf(s, pi[s], token[s])
      /\ closer' = closer /\ auto' = auto /\ sess[s].phase \in {"idle", "asleep", "stopped"}
      /\ PlaneOf(s, work[s], allocs[s], Tied(s), Creates(s))
  BY Known, RowKept, WorkerKept, PlaneKept DEF Deliver, phase
<1>2. PICK m \in Pending(s) : mail' = Mark(s, m, "dispatching") /\ Begin(s, "deliver", Wakes(s), m)
  BY DEF Deliver, Oldest
<1>3. PICK c \in {"gate", "send"} :
        c = Wakes(s) /\ (c = "gate" <=> sess[s].phase \in {"asleep", "stopped"})
  BY DEF Wakes, phase
<1>4. m \in DOMAIN mail[s] /\ mail[s][m].status = "pending" /\ Proper(mail[s][m])
  BY Known DEF Pending, Once
<1>5. m \in Nat /\ m # 0 /\ mail[s][m] \in Letter
  BY <1>4, Known, RowTyped, SMTT(60)
<1>6. TaskOf(s, "deliver", c, m) /\ task[s].op = "free" /\ task[s].pc = "free"
  BY <1>2, <1>3, <1>5, Known, TaskBegun DEF Unattended, Steps
<1>7. PICK l : l = [mail[s][m] EXCEPT !.status = "dispatching"]
  OBVIOUS
<1>8. l \in Letter /\ l.status = "dispatching" /\ l.sent = mail[s][m].sent
  BY <1>5, <1>7, SMTT(60) DEF Letter, Statuses
<1>9. mail[s][m].sent = 0 /\ Proper(l)
  BY <1>4, <1>8 DEF Proper
<1>10. mail' = [mail EXCEPT ![s] = [mail[s] EXCEPT ![m] = l]]
  BY <1>2, <1>5, <1>7 DEF Mark
<1>11. MailOf(s) /\ Once(s)'
  <2>1. /\ task'[s].msg = m /\ l.sent = IF task'[s].pc = "ack" THEN 1 ELSE 0
        /\ task'[s].pc \in LaunchSteps \cup {"gate", "send", "ack"}
    BY <1>6, <1>8, <1>9 DEF TaskOf
  <2> QED
    BY <1>4, <1>8, <1>9, <1>10, <2>1, Known, OnceReplaced
<1>12. Fit(sess[s].phase, sess[s].vm, "deliver", c, pi[s], token[s], work[s], allocs[s],
           Tied(s), Creates(s))
  BY <1>1, <1>3, <1>6, Known
     DEF Fit, Turn, Rested, Fresh, Phased, Tended, Alone, Owned, Unplaced
<1> QED
  BY <1>1, <1>3, <1>6, <1>11, <1>12, Known, LegalSame, OneSession DEF LaunchSteps

(* Only a message that no handler has is withdrawn. *)
LEMMA Withdrawing ==
  ASSUME SessionsInv, NEW s \in Sessions, NEW i \in DOMAIN mail[s], CancelQueued(s, i)
  PROVE  Kept
<1>1. /\ RowOf(s, sess[s].phase, sess[s].vm) /\ WorkerOf(s, pi[s], token[s])
      /\ TaskOf(s, task[s].op, task[s].pc, task[s].msg) /\ closer' = closer /\ auto' = auto
      /\ PlaneOf(s, work[s], allocs[s], Tied(s), Creates(s)) /\ task'[s] = task[s]
      /\ mail[s][i].status = "pending" /\ mail' = Mark(s, i, "cancelled")
  BY Known, RowKept, WorkerKept, TaskKept, PlaneKept DEF CancelQueued, Pending
<1>2. task[s].msg # i \/ task[s].msg = 0
  BY <1>1, Known DEF Once
<1>3. i # 0 /\ mail[s][i] \in Letter
  BY Known, RowTyped, SMTT(60)
<1>4. Proper(mail[s][i])
  BY Known DEF Once
<1>5. PICK l : l = [mail[s][i] EXCEPT !.status = "cancelled"]
  OBVIOUS
<1>6. l \in Letter /\ l.status = "cancelled" /\ l.sent = mail[s][i].sent
  BY <1>3, <1>5, SMTT(60) DEF Letter, Statuses
<1>7. Proper(l)
  BY <1>1, <1>4, <1>6 DEF Proper
<1>8. mail' = [mail EXCEPT ![s] = [mail[s] EXCEPT ![i] = l]]
  BY <1>1, <1>3, <1>5 DEF Mark
<1>9. MailOf(s) /\ Once(s)'
  BY <1>1, <1>2, <1>6, <1>7, <1>8, Known, OnceReplaced
<1> QED
  BY <1>1, <1>9, Known, LegalSame, OneSession

-----------------------------------------------------------------------------
(* Requests that outlive their callers.                                    *)

LEMMA Disconnecting ==
  ASSUME SessionsInv, NEW s \in Sessions, Disconnect(s)
  PROVE  Kept
<1>1. /\ RowOf(s, sess[s].phase, sess[s].vm) /\ WorkerOf(s, pi[s], token[s])
      /\ MailOf(s) /\ mail'[s] = mail[s] /\ closer' = closer /\ auto' = auto
      /\ TaskOf(s, "free", "free", 0) /\ vms' = vms /\ work' = work /\ allocs' = allocs /\ raced' = raced
      /\ task[s].op # "close"
  BY Known, RowKept, WorkerKept, MailKept, TaskDone DEF Disconnect
<1>2. Once(s)'
  BY <1>1, Known, OnceKept DEF TaskOf
<1>3. PICK C : /\ PlaneOf(s, work[s], allocs[s], Tied(s), C)
               /\ C # {} => Tied(s) = {} /\ sess[s].vm = 0
               /\ \A r \in C : r.n = allocs[s]
  <2>1. CASE ~InCall(s)
    <3>1. flight' = flight
      BY <2>1 DEF Disconnect
    <3> QED
      BY <1>1, <3>1, Known, PlaneKept DEF Fit, Owned
  <2>2. CASE InCall(s) /\ task[s].pc = "create"
    <3>1. allocs[s] # 0 /\ Creates(s) = {} /\ Tied(s) = {} /\ sess[s].vm = 0
      BY <2>2, Known DEF Fit, Owned
    <3>2. allocs[s] \in 1 .. MaxAllocs
      BY <3>1, Known, SMTT(60)
    <3>3. RequestOf(s) = [op |-> "create", s |-> s, n |-> allocs[s]]
      BY <2>2 DEF RequestOf, CallOf, At
    <3>4. PlaneOf(s, work[s], allocs[s], Tied(s), Pended("create", s, allocs[s]))
      BY <1>1, <2>2, <3>2, <3>3, Known, PlaneFlight DEF Disconnect, Calls
    <3>5. \A r \in Pended("create", s, allocs[s]) : r.n = allocs[s]
      BY <3>1, SMTT(60) DEF Pended
    <3> QED
      BY <3>1, <3>4, <3>5
  <2>3. CASE InCall(s) /\ task[s].pc # "create"
    <3>1. task[s].pc \in {"term", "start", "suspend", "terminate", "halt", "retire", "destroy"}
      BY <2>3, SMTT(60) DEF InCall, CallOf, Calls
    <3>2. sess[s].phase \notin Unplaced
      BY <3>1, Known DEF Fit, Phased, Unplaced
    <3>3. /\ RequestOf(s) = [op |-> CallOf(task[s].pc), s |-> s, n |-> sess[s].vm]
          /\ CallOf(task[s].pc) \in Calls /\ CallOf(task[s].pc) # "create"
      BY <2>3, <3>1 DEF RequestOf, CallOf, At, InCall
    <3>4. PlaneOf(s, work[s], allocs[s], Tied(s), Pended(CallOf(task[s].pc), s, sess[s].vm))
      BY <1>1, <2>3, <3>2, <3>3, Known, Placed, PlaneFlight DEF Disconnect
    <3>5. Pended(CallOf(task[s].pc), s, sess[s].vm) = {}
      BY <3>2, <3>3, Placed DEF Pended
    <3> QED
      BY <3>4, <3>5
  <2> QED
    BY <2>1, <2>2, <2>3
<1>4. Fit(sess[s].phase, sess[s].vm, "free", "free", pi[s], token[s], work[s], allocs[s],
          Tied(s), C)
  BY <1>1, <1>3, Known DEF Fit, Turn, Rested, Fresh, Phased, Tended, Alone, Owned, Unplaced
<1> QED
  BY <1>1, <1>2, <1>3, <1>4, Known, LegalSame, OneSession DEF LaunchSteps

(* A request leaves the flight: acted on, refused or lost. *)
LEMMA FlightEnds ==
  ASSUME SessionsInv, NEW r \in flight, Lands(r) \/ Lost(r)
  PROVE  Kept
<1>1. r \in [op : Calls, s : Sessions, n : 1 .. MaxAllocs] /\ flight' = flight \ {r}
  BY DEF SessionsInv, Types, Lands, Lost
<1>2. PICK s, n, op : s = r.s /\ n = r.n /\ op = r.op
  OBVIOUS
<1>3. s \in Sessions /\ n \in 1 .. MaxAllocs /\ op \in Calls
  BY <1>1, <1>2
<1>4. /\ RowOf(s, sess[s].phase, sess[s].vm) /\ WorkerOf(s, pi[s], token[s])
      /\ TaskOf(s, task[s].op, task[s].pc, task[s].msg) /\ closer' = closer /\ auto' = auto
      /\ MailOf(s) /\ mail'[s] = mail[s] /\ allocs' = allocs /\ raced' = raced
  BY <1>3, Known, RowKept, WorkerKept, TaskKept, MailKept DEF Lands, Lost
<1>5. Once(s)'
  BY <1>3, <1>4, Known, OnceKept DEF TaskOf
<1>6. Creates(s)' = Creates(s) \ {r}
  BY <1>1, <1>4 DEF Creates
<1>7. \A t \in Others(s) : Creates(t)' = Creates(t)
  BY <1>1, <1>2, <1>4 DEF Creates, Others
<1>8. flight' \subseteq [op : Calls, s : Sessions, n : 1 .. MaxAllocs]
  BY <1>1 DEF SessionsInv, Types
<1>9. CASE vms' = vms /\ work' = work
  <2>1. PlaneOf(s, work[s], allocs[s], Tied(s), Creates(s) \ {r})
    BY <1>3, <1>4, <1>6, <1>7, <1>8, <1>9, Known DEF PlaneOf, Types, Tied, Labelled, Others
  <2>2. Fit(sess[s].phase, sess[s].vm, task[s].op, task[s].pc, pi[s], token[s], work[s], allocs[s],
            Tied(s), Creates(s) \ {r})
    BY <1>3, Known DEF Fit, Owned
  <2> QED
    BY <1>3, <1>4, <1>5, <2>1, <2>2, Known, LegalSame, OneSession
<1>10. CASE Accepts(op, vms[<<s, n>>]) /\ Effect(op, s, n)
  <2>1. /\ vms' \in [Sessions \X (1 .. MaxAllocs) -> {"none", "running", "suspended", "stopped"}]
        /\ work' \in [Sessions -> Nat]
        /\ \A t \in Others(s) : work'[t] = work[t] /\ Labelled(t)' = Labelled(t)
        /\ Labelled(s)' = Relabelled(op, s, n)
        /\ work'[s] \in {0, work[s]}
    BY <1>3, <1>10, Known, Effects
  <2>0. Tied(s)' = Retied(op, s, n) /\ \A t \in Others(s) : Tied(t)' = Tied(t)
    BY <1>4, <2>1 DEF Tied, Retied
  <2>2. PlaneOf(s, work'[s], allocs[s], Retied(op, s, n), Creates(s) \ {r})
    BY <1>3, <1>4, <1>6, <1>7, <1>8, <2>0, <2>1, Known DEF PlaneOf, Types, Others
  <2>3. work'[s] <= 1 /\ (work[s] = 0 => work'[s] = 0)
    BY <1>3, <2>1, Known, SMTT(60) DEF Fit, Turn
  <2>6. CASE s \in raced
    <3>1. Retied(op, s, n) = {} /\ Tied(s) = {} /\ Creates(s) = {} /\ Creates(s) \ {r} = {}
      BY <2>6 DEF Retied, Tied, Creates
    <3>2. Fit(sess[s].phase, sess[s].vm, task[s].op, task[s].pc, pi[s], token[s], work'[s], allocs[s],
              {}, {})
      BY <1>3, <2>3, <3>1, Known DEF Fit, Turn, Owned
    <3> QED
      BY <1>3, <1>4, <1>5, <2>2, <3>1, <3>2, Known, LegalSame, OneSession
  <2>4. CASE op = "create" /\ s \notin raced
    <3>1. r \in Creates(s)
      BY <1>2, <2>4 DEF Creates
    <3>2. n = allocs[s] /\ Tied(s) = {} /\ sess[s].vm = 0 /\ task[s].pc # "create"
      BY <1>2, <1>3, <3>1, Known DEF Fit, Owned
    <3>3. Creates(s) \ {r} = {}
      <4>1. ASSUME NEW x \in Creates(s) PROVE x = r
        <5>1. x \in [op : Calls, s : Sessions, n : 1 .. MaxAllocs] /\ x.op = r.op /\ x.s = r.s
          BY <1>2, <2>4, <4>1, <1>3, Known DEF Creates, Types
        <5>2. x.n = r.n
          BY <1>2, <1>3, <3>2, <4>1, Known DEF Fit, Owned
        <5> QED
          BY <1>1, <5>1, <5>2, SMTT(60)
      <4> QED
        BY <4>1
    <3>4. Retied(op, s, n) = {allocs[s]}
      BY <2>4, <3>2 DEF Retied, Relabelled, Tied
    <3>5. sess[s].phase # "closed" /\ sess[s].phase # "none" /\ sess[s].phase \in Unplaced
      <4>1. n # 0
        BY <1>3, SMTT(60)
      <4> QED
        BY <1>3, <3>2, <4>1, Known DEF Fit, Owned, Unplaced
    <3>6. Fit(sess[s].phase, sess[s].vm, task[s].op, task[s].pc, pi[s], token[s], work'[s], allocs[s],
              {allocs[s]}, {})
      BY <1>3, <2>3, <3>2, <3>5, Known DEF Fit, Turn, Owned
    <3> QED
      BY <1>3, <1>4, <1>5, <2>2, <3>3, <3>4, <3>6, Known, LegalSame, OneSession
  <2>5. CASE op # "create" /\ s \notin raced
    <3>0. n \in Labelled(s)
      BY <1>3, <1>10, <2>5, SMTT(60) DEF Accepts, Labelled, Calls
    <3>1. n \in Tied(s)
      BY <2>5, <3>0 DEF Tied
    <3>2. Creates(s) = {}
      BY <1>3, <3>1, Known DEF Fit, Owned
    <3>3. Retied(op, s, n) \subseteq Tied(s)
      BY <2>5 DEF Retied, Relabelled, Tied
    <3>4. Fit(sess[s].phase, sess[s].vm, task[s].op, task[s].pc, pi[s], token[s], work'[s], allocs[s],
              Retied(op, s, n), Creates(s) \ {r})
      BY <1>3, <2>3, <3>2, <3>3, Known DEF Fit, Turn, Owned
    <3> QED
      BY <1>3, <1>4, <1>5, <2>2, <3>4, Known, LegalSame, OneSession
  <2> QED
    BY <2>4, <2>5, <2>6
<1> QED
  BY <1>2, <1>9, <1>10 DEF Lands, Lost, Effect

LEMMA Messaging ==
  ASSUME SessionsInv, NEW s \in Sessions, NEW to \in Sessions, SendMessage(s, to)
  PROVE  Kept
  BY Enqueuing DEF SendMessage

-----------------------------------------------------------------------------
(* Closing a subtree.                                                      *)

LEMMA CloserOnly ==
  ASSUME SessionsInv, UNCHANGED <<sess, mail, pi, token, task, auto, vms, work, flight, allocs, raced>>,
         closer' \in Closer, Closing',
         \/ closer'.pc = "none" \/ closer.pc # "none"
         \/ \A s \in Sessions : Child(s) => task[s].op # "create"
  PROVE  Kept
<1>1. Types'
  BY DEF SessionsInv, Types, Closer
<1>2. \A s \in Sessions : Once(s)' /\ Fits(s)'
  BY DEF SessionsInv, Once, Fits, Tied, Labelled, Creates
<1>3. PhaseStep
  BY LegalSame DEF PhaseStep
<1>4. CapStep
  BY DEF CapStep, Workers
<1>5. LineStep
  BY DEF LineStep, Live
<1> QED
  BY <1>1, <1>2, <1>3, <1>4, <1>5 DEF Kept, SessionsInv

(* A session with a VM was created. *)
LEMMA VmThenRow ==
  ASSUME SessionsInv, NEW s \in Sessions, sess[s].vm # 0
  PROVE  sess[s].phase # "none"
  BY Known DEF Fit, Owned

(* The next node on the list is a session, and the rest are on it too. *)
LEMMA NextNode ==
  ASSUME Types, closer.todo # <<>>
  PROVE  /\ 1 \in DOMAIN closer.todo /\ closer.todo[1] \in Sessions
         /\ Head(closer.todo) = closer.todo[1]
         /\ Tail(closer.todo) \in Seq(Sessions)
         /\ \A i \in DOMAIN Tail(closer.todo) :
              \E j \in DOMAIN closer.todo : Tail(closer.todo)[i] = closer.todo[j]
         /\ Len(closer.todo) > 1 => Tail(closer.todo) # <<>>
<1>1. PICK q \in Seq(Sessions) : q = closer.todo /\ q # <<>>
  BY CloserTyped
<1>2. Len(q) > 0 /\ 1 \in DOMAIN q /\ q[1] \in Sessions /\ Head(q) = q[1]
  BY <1>1, SMTT(60)
<1>3. Tail(q) \in Seq(Sessions) /\ Len(Tail(q)) = Len(q) - 1
  BY <1>2, SMTT(60)
<1>4. Len(q) > 1 => Tail(q) # <<>>
  <2>1. Len(q) > 1 => Len(Tail(q)) # 0
    BY <1>3, SMTT(60)
  <2>2. Len(<<>>) = 0
    BY SMTT(60)
  <2> QED
    BY <2>1, <2>2
<1>5. \A i \in DOMAIN Tail(q) : i + 1 \in DOMAIN q /\ Tail(q)[i] = q[i + 1]
  BY <1>2, <1>3, SMTT(60)
<1> QED
  BY <1>1, <1>2, <1>3, <1>4, <1>5

LEMMA Fencing ==
  ASSUME SessionsInv, Fence
  PROVE  Kept
<1>1. Types /\ Closing /\ closer.pc = "fence"
  BY DEF SessionsInv, Fence
<1>2. closer.todo # <<>>
  BY <1>1 DEF Closing
<1>3. PICK s \in Sessions : s = closer.todo[1] /\ s = Head(closer.todo)
  BY <1>1, <1>2, NextNode
<1>4. sess[s].vm # 0 /\ sess[s].phase # "closed"
  BY <1>1, <1>2, <1>3, NextNode DEF Closing, phase
<1>5. /\ RowOf(s, "closing", sess[s].vm) /\ MailOf(s) /\ mail'[s] = mail[s]
      /\ TaskOf(s, task[s].op, task[s].pc, task[s].msg) /\ task' = task /\ auto' = auto
      /\ PlaneOf(s, work[s], allocs[s], Tied(s), Creates(s)) /\ task[s] = Free
      /\ WorkerOf(s, IF pi[s] = "starting" THEN "starting" ELSE "none", FALSE)
  BY <1>1, <1>3, RowMoved, TaskKept, MailKept, PlaneKept, WorkerStopped DEF Fence, Phases
<1>6. task[s].op = "free" /\ task[s].pc = "free"
  BY <1>5, SMTT(60) DEF Free
<1>7. PICK q \in {"starting", "none"} : q = IF pi[s] = "starting" THEN "starting" ELSE "none"
  OBVIOUS
<1>8. Fit("closing", sess[s].vm, "free", "free", q, FALSE, work[s], allocs[s], Tied(s),
          Creates(s))
  BY <1>4, <1>6, <1>7, Known DEF Fit, Turn, Rested, Fresh, Phased, Tended, Alone, Owned, Unplaced
<1>9. Once(s)'
  BY <1>5, Known, OnceKept
<1>10. Legal(sess[s].phase, "closing")
  BY <1>4 DEF Legal, Check
<1>11. closer' = IF Len(closer.todo) > 1
                 THEN [pc |-> "fence", todo |-> Tail(closer.todo), all |-> closer.all]
                 ELSE [pc |-> "delete", todo |-> closer.all, all |-> closer.all]
  BY DEF Fence
<1>12. closer' \in Closer /\ Closing'
  <2>1. \A t \in Sessions :
          /\ sess'[t].vm = sess[t].vm /\ task'[t].op = task[t].op
          /\ sess'[t].phase = "closed" => sess[t].phase = "closed"
    BY <1>5, <1>6 DEF RowOf, TaskOf, Others
  <2>2. CASE Len(closer.todo) > 1
    <3>0. /\ closer' = [pc |-> "fence", todo |-> Tail(closer.todo), all |-> closer.all]
          /\ Tail(closer.todo) \in Seq(Sessions) /\ closer.all \in Seq(Sessions)
      BY <1>1, <1>2, <1>11, <2>2, NextNode, CloserTyped
    <3>1. /\ closer' \in Closer /\ closer'.pc = "fence" /\ closer'.todo = Tail(closer.todo)
          /\ closer'.all = closer.all
      BY <3>0, SMTT(60) DEF Closer
    <3>2. \A i \in DOMAIN closer'.todo :
            \E j \in DOMAIN closer.todo : closer'.todo[i] = closer.todo[j]
      BY <1>1, <1>2, <3>1, NextNode
    <3>3. closer'.todo # <<>>
      BY <1>1, <1>2, <2>2, <3>1, NextNode
    <3>4. \A i \in DOMAIN closer'.todo : sess'[closer'.todo[i]].vm # 0
      <4>1. \A j \in DOMAIN closer.todo : sess'[closer.todo[j]].vm # 0
        BY <1>1, <2>1, CloserTyped DEF Closing
      <4> QED
        BY <3>2, <4>1
    <3>5. \A i \in DOMAIN closer'.todo : sess'[closer'.todo[i]].phase # "closed"
      BY <1>1, <2>1, <3>2, CloserTyped DEF Closing, phase
    <3>6. \A i \in DOMAIN closer'.all : sess'[closer'.all[i]].vm # 0
      BY <1>1, <2>1, <3>1, CloserTyped DEF Closing
    <3>7. \A t \in Sessions : task'[t].op # "close"
      BY <1>1, <2>1 DEF Closing
    <3> QED
      BY <3>1, <3>3, <3>4, <3>5, <3>6, <3>7 DEF Closing, phase
  <2>3. CASE ~(Len(closer.todo) > 1)
    <3>1. /\ closer' \in Closer /\ closer'.pc = "delete" /\ closer'.todo = closer.all
          /\ closer'.all = closer.all
      BY <1>1, <1>11, <2>3, CloserTyped, SMTT(60) DEF Closer
    <3>2. \A i \in DOMAIN closer'.all : sess'[closer'.all[i]].vm # 0
      BY <1>1, <2>1, <3>1, CloserTyped DEF Closing
    <3> QED
      BY <3>1, <3>2 DEF Closing
  <2> QED
    BY <2>2, <2>3
<1>13. Types' /\ (\A t \in Sessions : Once(t)' /\ Fits(t)') /\ PhaseStep
  BY <1>5, <1>6, <1>7, <1>8, <1>9, <1>10, <1>12, Known, OneSessionSound
<1>14. CapStep
  <2>1. Workers' \subseteq Workers
    BY <1>5, <1>7 DEF Workers, WorkerOf, Others
  <2> QED
    BY <1>5, <2>1 DEF CapStep
<1>15. LineStep
  <2>1. Live(s) /\ Live(s)'
    BY <1>4, <1>5, VmThenRow DEF Live, RowOf
  <2>2. \A t \in Sessions : Live(t)' = Live(t)
    BY <1>5, <2>1 DEF Live, RowOf, Others
  <2> QED
    BY <1>1, <1>5, <2>2 DEF LineStep
<1> QED
  BY <1>12, <1>13, <1>14, <1>15 DEF Kept, SessionsInv

LEMMA ClosingOne ==
  ASSUME SessionsInv, CloseOne
  PROVE  Kept
<1>1. Types /\ Closing /\ closer.pc = "delete" /\ (\A t \in Sessions : task[t].op # "close")
  BY DEF SessionsInv, CloseOne
<1>2. CASE closer.todo = <<>>
  <2>1. closer' = Open /\ UNCHANGED <<sess, mail, pi, token, task, auto, vms, work, flight, allocs, raced>>
    BY <1>2 DEF CloseOne
  <2>2. closer' \in Closer /\ DOMAIN closer'.todo = {} /\ DOMAIN closer'.all = {}
        /\ closer'.pc = "none"
    BY <2>1, SMTT(60) DEF Open, Closer
  <2>3. Closing'
    BY <1>1, <2>1, <2>2 DEF Closing
  <2> QED
    BY <2>1, <2>2, <2>3, CloserOnly
<1>3. CASE closer.todo # <<>>
  <2>1. PICK s \in Sessions : s = closer.todo[1] /\ s = Head(closer.todo)
    BY <1>1, <1>3, NextNode
  <2>2. sess[s].vm # 0
    BY <1>1, <1>3, <2>1, NextNode DEF Closing
  <2>3. closer' = [pc |-> "delete", todo |-> Tail(closer.todo), all |-> closer.all]
    BY <1>3 DEF CloseOne
  <2>4. /\ closer' \in Closer /\ closer'.pc = "delete" /\ closer'.todo = Tail(closer.todo)
        /\ closer'.all = closer.all
    <3>1. Tail(closer.todo) \in Seq(Sessions) /\ closer.all \in Seq(Sessions)
      BY <1>1, <1>3, CloserTyped, NextNode
    <3> QED
      BY <2>3, <3>1, SMTT(60) DEF Closer
  <2>5. \A i \in DOMAIN closer'.todo :
          \E j \in DOMAIN closer.todo : closer'.todo[i] = closer.todo[j]
    BY <1>1, <1>3, <2>4, NextNode
  <2>6. ASSUME \A t \in Sessions : sess'[t].vm = sess[t].vm PROVE Closing'
    BY <1>1, <2>4, <2>5, <2>6, CloserTyped DEF Closing
  <2>7. CASE UNCHANGED <<sess, pi, token, task>>
    <3>1. UNCHANGED <<sess, mail, pi, token, task, auto, vms, work, flight, allocs, raced>>
      BY <2>7 DEF CloseOne
    <3> QED
      BY <1>1, <2>4, <2>6, <3>1, CloserOnly
  <2>8. CASE /\ sess[s].phase # "closed" /\ sess' = Moved(s, "closing") /\ StopWorker(s)
             /\ Begin(s, "close", "check", 0)
             /\ \A t \in Sessions : Parent[t] = s => ~Live(t)
    <3>1. /\ RowOf(s, "closing", sess[s].vm) /\ MailOf(s) /\ mail'[s] = mail[s]
          /\ PlaneOf(s, work[s], allocs[s], Tied(s), Creates(s)) /\ auto' = auto
          /\ WorkerOf(s, IF pi[s] = "starting" THEN "starting" ELSE "none", FALSE)
      BY <1>1, <2>8, RowMoved, MailKept, PlaneKept, WorkerStopped DEF CloseOne, Phases
    <3>2. TaskOf(s, "close", "check", 0) /\ task[s].op = "free" /\ task[s].pc = "free"
      BY <1>1, <2>8, TaskBegun DEF Operator, Steps
    <3>3. PICK q \in {"starting", "none"} : q = IF pi[s] = "starting" THEN "starting" ELSE "none"
      OBVIOUS
    <3>4. Fit("closing", sess[s].vm, "close", "check", q, FALSE, work[s], allocs[s], Tied(s),
              Creates(s))
      BY <2>2, <3>2, <3>3, Known
         DEF Fit, Turn, Rested, Fresh, Phased, Tended, Alone, Owned, Unplaced
    <3>5. Once(s)'
      BY <3>1, <3>2, Known, OnceKept DEF TaskOf
    <3>6. Legal(sess[s].phase, "closing")
      BY <2>8 DEF Legal, Check
    <3>7. Types' /\ (\A t \in Sessions : Once(t)' /\ Fits(t)') /\ PhaseStep
      BY <2>4, <3>1, <3>2, <3>3, <3>4, <3>5, <3>6, Known, OneSessionSound
    <3>8. Closing'
      BY <2>6, <3>1 DEF RowOf, Others
    <3>9. CapStep
      <4>1. Workers' \subseteq Workers
        BY <3>1, <3>3 DEF Workers, WorkerOf, Others
      <4>2. \A t \in Sessions : task'[t].pc \in LaunchSteps => task[t].pc \in LaunchSteps
        BY <3>2 DEF TaskOf, Others, LaunchSteps
      <4> QED
        BY <4>1, <4>2 DEF CapStep
    <3>10. LineStep
      <4>1. Live(s) /\ Live(s)'
        BY <2>2, <2>8, <3>1, VmThenRow DEF Live, RowOf
      <4>2. \A t \in Sessions : Live(t)' = Live(t)
        BY <3>1, <4>1 DEF Live, RowOf, Others
      <4>3. \A t \in Sessions : task'[t].op = "create" => task[t].op = "create"
        BY <3>2 DEF TaskOf, Others
      <4>4. \A t \in Sessions : task'[t].op = "close" => task[t].op = "close" \/ t = s
        BY <3>2 DEF TaskOf, Others
      <4> QED
        BY <1>1, <2>8, <4>2, <4>3, <4>4 DEF LineStep
    <3> QED
      BY <3>7, <3>8, <3>9, <3>10 DEF Kept, SessionsInv
  <2> QED
    BY <1>3, <2>1, <2>7, <2>8 DEF CloseOne, phase, Live
<1> QED
  BY <1>2, <1>3

-----------------------------------------------------------------------------
(* Several handlers dropped at once.                                       *)

LEMMA RequestTyped ==
  ASSUME SessionsInv, NEW s \in Sessions, InCall(s)
  PROVE  /\ RequestOf(s) \in [op : Calls, s : Sessions, n : 1 .. MaxAllocs]
         /\ RequestOf(s).s = s
         /\ RequestOf(s).op = "create" => task[s].pc = "create"
         /\ task[s].pc = "create" => /\ RequestOf(s).n = allocs[s] /\ Creates(s) = {}
                                     /\ Tied(s) = {} /\ sess[s].vm = 0
<1>1. PICK op : op = CallOf(task[s].pc)
  OBVIOUS
<1>2. op \in Calls /\ (op = "create" => task[s].pc = "create")
  BY <1>1 DEF InCall, CallOf
<1>3. CASE task[s].pc = "create"
  <2>1. allocs[s] # 0 /\ Creates(s) = {} /\ Tied(s) = {} /\ sess[s].vm = 0
    BY <1>3, Known DEF Fit, Owned
  <2>2. allocs[s] \in 1 .. MaxAllocs
    BY <2>1, Known, SMTT(60)
  <2>3. RequestOf(s) = [op |-> op, s |-> s, n |-> allocs[s]]
    BY <1>1, <1>3 DEF RequestOf, At
  <2>4. /\ RequestOf(s) \in [op : Calls, s : Sessions, n : 1 .. MaxAllocs]
        /\ RequestOf(s).s = s /\ RequestOf(s).n = allocs[s]
    BY <1>2, <2>2, <2>3, SMTT(60)
  <2> QED
    BY <1>3, <2>1, <2>4
<1>4. CASE task[s].pc # "create"
  <2>1. task[s].pc \in {"term", "start", "suspend", "terminate", "halt", "retire", "destroy"}
    BY <1>1, <1>2, <1>4, SMTT(60) DEF CallOf, Calls
  <2>2. sess[s].phase \notin Unplaced
    BY <2>1, Known DEF Fit, Phased, Unplaced
  <2>3. RequestOf(s) = [op |-> op, s |-> s, n |-> sess[s].vm] /\ sess[s].vm \in 1 .. MaxAllocs
    BY <1>1, <1>4, <2>2, Placed DEF RequestOf, At
  <2>4. /\ RequestOf(s) \in [op : Calls, s : Sessions, n : 1 .. MaxAllocs]
        /\ RequestOf(s).s = s /\ RequestOf(s).op = op
    BY <1>2, <2>3, SMTT(60)
  <2> QED
    BY <1>2, <1>4, <2>4
<1> QED
  BY <1>3, <1>4

LEMMA RequestsLeft ==
  ASSUME SessionsInv, NEW S \in SUBSET Sessions, \A s \in S : InCall(s),
         flight' = flight \cup {RequestOf(s) : s \in S}, raced' = raced
  PROVE  /\ flight' \subseteq [op : Calls, s : Sessions, n : 1 .. MaxAllocs]
         /\ \A t \in Sessions :
              /\ t \notin S \/ task[t].pc # "create" => Creates(t)' = Creates(t)
              /\ Creates(t)' # {} => Tied(t) = {} /\ sess[t].vm = 0
              /\ \A r \in Creates(t)' : r.n = allocs[t]
<1>1. flight' \subseteq [op : Calls, s : Sessions, n : 1 .. MaxAllocs]
  <2>1. \A s \in S : RequestOf(s) \in [op : Calls, s : Sessions, n : 1 .. MaxAllocs]
    BY RequestTyped
  <2>2. flight \subseteq [op : Calls, s : Sessions, n : 1 .. MaxAllocs]
    BY DEF SessionsInv, Types
  <2> HIDE DEF RequestOf
  <2> QED
    BY <2>1, <2>2
<1>2. ASSUME NEW t \in Sessions, t \notin S \/ task[t].pc # "create"
      PROVE  Creates(t)' = Creates(t)
  <2>1. ASSUME NEW r \in flight', r.op = "create", r.s = t PROVE r \in flight
    <3>1. ASSUME NEW s \in S, r = RequestOf(s) PROVE FALSE
      <4>1. s = t /\ task[s].pc = "create"
        BY <2>1, <3>1, RequestTyped
      <4> QED
        BY <1>2, <3>1, <4>1
    <3> QED
      BY <2>1, <3>1
  <2> QED
    BY <2>1 DEF Creates
<1>3. ASSUME NEW t \in Sessions, t \in S, task[t].pc = "create"
      PROVE  /\ Tied(t) = {} /\ sess[t].vm = 0
             /\ \A r \in Creates(t)' : r.n = allocs[t]
  <2>1. /\ RequestOf(t).n = allocs[t] /\ Creates(t) = {} /\ Tied(t) = {} /\ sess[t].vm = 0
    BY <1>3, RequestTyped
  <2>2. ASSUME NEW r \in Creates(t)' PROVE r = RequestOf(t)
    <3>1. r \in flight' /\ r.op = "create" /\ r.s = t /\ t \notin raced
      BY <2>2 DEF Creates
    <3>2. r \notin flight
      BY <2>1, <3>1 DEF Creates
    <3>3. PICK s \in S : r = RequestOf(s)
      BY <3>1, <3>2
    <3> QED
      BY <3>1, <3>3, RequestTyped
  <2> QED
    BY <2>1, <2>2
<1>4. ASSUME NEW t \in Sessions, Creates(t)' = Creates(t)
      PROVE  /\ Creates(t)' # {} => Tied(t) = {} /\ sess[t].vm = 0
             /\ \A r \in Creates(t)' : r.n = allocs[t]
  BY <1>4, Known DEF Fit, Owned
<1> QED
  BY <1>1, <1>2, <1>3, <1>4

LEMMA ClosesDropped ==
  ASSUME SessionsInv, DisconnectClose
  PROVE  Kept
<1> DEFINE S == {o \in Sessions : At(o, "destroy")}
<1>1. \A s \in S : InCall(s)
  BY DEF At, InCall, CallOf, Calls
<1>2. flight' = flight \cup {RequestOf(s) : s \in S}
  BY DEF DisconnectClose
<1>3. \A s \in S : task[s].pc # "create"
  BY DEF At
<1>4. /\ flight' \subseteq [op : Calls, s : Sessions, n : 1 .. MaxAllocs]
      /\ \A t \in Sessions : Creates(t)' = Creates(t)
  <2>1. S \in SUBSET Sessions
    OBVIOUS
  <2> HIDE DEF S
  <2> QED
    BY <1>1, <1>2, <1>3, <2>1, RequestsLeft DEF DisconnectClose
<1>5. /\ UNCHANGED <<sess, mail, pi, token, auto, vms, work, allocs, raced>> /\ closer' = Open
      /\ task' = [s \in Sessions |-> IF task[s].op = "close" THEN Free ELSE task[s]]
  BY DEF DisconnectClose
<1>6. Free \in Handler /\ Free.op = "free" /\ Free.pc = "free" /\ Free.msg = 0
  BY SMTT(60) DEF Free, Handler, Steps
<1>7. closer' \in Closer /\ DOMAIN closer'.todo = {} /\ DOMAIN closer'.all = {}
      /\ closer'.pc = "none"
  BY <1>5, SMTT(60) DEF Open, Closer
<1> HIDE DEF Free, Open
<1>8. /\ task' \in [Sessions -> Handler] /\ \A t \in Sessions : task'[t].op # "close"
      /\ \A t \in Sessions : task'[t] = task[t] \/ task'[t] = Free
  BY <1>5, <1>6 DEF SessionsInv, Types
<1>9. Types'
  BY <1>4, <1>5, <1>7, <1>8 DEF SessionsInv, Types, Closer
<1>10. Closing'
  BY <1>7, <1>8 DEF Closing
<1>11. ASSUME NEW t \in Sessions PROVE Once(t)' /\ Fits(t)'
  <2>1. /\ sess'[t] = sess[t] /\ mail'[t] = mail[t] /\ pi'[t] = pi[t] /\ token'[t] = token[t]
        /\ work'[t] = work[t] /\ allocs'[t] = allocs[t] /\ Tied(t)' = Tied(t)
        /\ Creates(t)' = Creates(t)
    BY <1>4, <1>5 DEF Tied, Labelled
  <2>2. Once(t)'
    BY <1>6, <1>8, <2>1, Known, OnceKept
  <2>3. Fit(sess[t].phase, sess[t].vm, "free", "free", pi[t], token[t], work[t], allocs[t],
            Tied(t), Creates(t))
    BY Known DEF Fit, Turn, Rested, Fresh, Phased, Tended, Alone, Owned, Unplaced
  <2>4. Fit(sess[t].phase, sess[t].vm, task'[t].op, task'[t].pc, pi[t], token[t], work[t], allocs[t],
            Tied(t), Creates(t))
    BY <1>6, <1>8, <2>3, Known
  <2> QED
    BY <2>1, <2>2, <2>4 DEF Fits
<1>12. PhaseStep
  BY <1>5, LegalSame DEF PhaseStep
<1>13. CapStep
  <2>1. \A t \in Sessions : task'[t].pc \in LaunchSteps => task[t].pc \in LaunchSteps
    BY <1>6, <1>8 DEF LaunchSteps
  <2>2. Workers' \subseteq Workers
    BY <1>5 DEF Workers
  <2> QED
    BY <2>1, <2>2 DEF CapStep
<1>14. LineStep
  BY <1>5, <1>6, <1>7, <1>8 DEF LineStep, Live
<1> QED
  BY <1>9, <1>10, <1>11, <1>12, <1>13, <1>14 DEF Kept, SessionsInv

-----------------------------------------------------------------------------
(* The steps that list sessions: a close, and the recovery of a restart.   *)

(* An order of a set of sessions is a list of them. *)
Listed ==
  \A S \in SUBSET Sessions : \A q \in Orders(S) :
    q \in Seq(Sessions) /\ (\A i \in DOMAIN q : q[i] \in S) /\ (S # {} => q # <<>>)

LEMMA ClosingBegins ==
  ASSUME SessionsInv, Listed, NEW s \in Sessions, Close(s)
  PROVE  Kept
<1>1. PICK nodes \in DeepestFirst(Doomed(s)) :
        closer' = [pc |-> "fence", todo |-> nodes, all |-> nodes]
  BY DEF Close
<1>2. Doomed(s) \in SUBSET Sessions /\ nodes \in Orders(Doomed(s)) /\ Doomed(s) # {}
  BY <1>1 DEF Close, DeepestFirst, Doomed
<1>3. nodes \in Seq(Sessions) /\ (\A i \in DOMAIN nodes : nodes[i] \in Doomed(s)) /\ nodes # <<>>
  BY <1>2 DEF Listed
<1>4. closer' \in Closer /\ closer'.pc = "fence" /\ closer'.todo = nodes /\ closer'.all = nodes
  BY <1>1, <1>3, SMTT(60) DEF Closer
<1>5. UNCHANGED <<sess, mail, pi, token, task, auto, vms, work, flight, allocs, raced>>
  BY DEF Close
<1>6. \A i \in DOMAIN nodes : sess[nodes[i]].vm # 0 /\ sess[nodes[i]].phase # "closed"
  BY <1>3 DEF Close, Doomed, phase
<1>7. \A t \in Sessions : task[t].op # "close"
  <2>1. closer.pc = "none"
    BY DEF Close, SwarmGateHeld
  <2> QED
    BY <2>1 DEF SessionsInv, Closing
<1>8. Closing'
  BY <1>3, <1>4, <1>5, <1>6, <1>7 DEF Closing, phase
<1>9. \A t \in Sessions : Child(t) => task[t].op # "create"
  BY DEF Close, SwarmGateHeld, Child
<1> QED
  BY <1>4, <1>5, <1>8, <1>9, CloserOnly

(* What a restart makes of a phase: allocating is ambiguous, and what a    *)
(* handler or a worker was to move on is interrupted.                      *)
Resumed(p) ==
  IF p = "allocating" THEN "allocation_unknown"
  ELSE IF p \in {"starting", "idle", "working", "sleeping", "waking", "stopping"}
  THEN "interrupted" ELSE p

LEMMA Restarted ==
  ASSUME SessionsInv, Listed, NEW rows \in [Sessions -> Row], StartedBy(rows),
         \A t \in Sessions :
           /\ rows[t].vm = sess[t].vm
           /\ \/ rows[t].phase = sess[t].phase
              \/ rows[t].phase = "interrupted" /\ pi[t] # "none" /\ sess[t].phase \notin Settled
  PROVE  Kept
<1>1. ASSUME NEW t \in Sessions
      PROVE  sess'[t] \in Row /\ sess'[t].phase = Resumed(rows[t].phase) /\ sess'[t].vm = sess[t].vm
  <2>1. PICK r \in Row : r = rows[t] /\ r.vm = sess[t].vm
    OBVIOUS
  <2>2. sess'[t] = CASE r.phase = "allocating"
                          -> [phase |-> "allocation_unknown", vm |-> r.vm, err |-> "none"]
                     [] r.phase \in {"starting", "idle", "working", "sleeping", "waking", "stopping"}
                          -> [phase |-> "interrupted", vm |-> r.vm, err |-> "restart"]
                     [] OTHER -> r
    BY <2>1 DEF StartedBy, Recovered
  <2>3. sess'[t] \in Row /\ sess'[t].phase = Resumed(r.phase) /\ sess'[t].vm = r.vm
    BY <2>2, SMTT(60) DEF Row, Phases, Resumed
  <2> QED
    BY <2>1, <2>3
<1>2. sess' \in [Sessions -> Row]
  <2>1. sess' = [t \in Sessions |-> sess'[t]]
    BY DEF StartedBy, Recovered
  <2> QED
    BY <1>1, <2>1
<1>3. ASSUME NEW t \in Sessions
      PROVE  /\ mail'[t] \in Seq(Letter) /\ Len(mail'[t]) = Len(mail[t])
             /\ \A i \in DOMAIN mail'[t] : Proper(mail'[t][i])
  <2>1. PICK box \in Seq(Letter) : box = mail[t] /\ \A i \in DOMAIN box : Proper(box[i])
    BY Known, RowTyped DEF Once
  <2>2. PICK new : /\ new = [i \in DOMAIN box |->
                       IF box[i].status = "dispatching" THEN [box[i] EXCEPT !.status = "uncertain"]
                       ELSE box[i]]
                   /\ new = mail'[t]
    BY <2>1 DEF StartedBy, Undecided
  <2>3. ASSUME NEW i \in DOMAIN box PROVE new[i] \in Letter /\ Proper(new[i])
    <3>1. PICK l \in Letter : l = box[i] /\ Proper(l)
      BY <2>1, SMTT(60)
    <3>2. new[i] = IF l.status = "dispatching" THEN [l EXCEPT !.status = "uncertain"] ELSE l
      BY <2>2, <3>1
    <3> QED
      BY <3>1, <3>2, SMTT(60) DEF Letter, Statuses, Proper
  <2>4. new \in Seq(Letter) /\ Len(new) = Len(box) /\ DOMAIN new = DOMAIN box
    BY <2>2, <2>3, SMTT(60)
  <2> QED
    BY <2>1, <2>2, <2>3, <2>4
<1>4. mail' \in [Sessions -> Seq(Letter)]
  <2>1. mail' = [t \in Sessions |-> mail'[t]]
    BY DEF StartedBy, Undecided
  <2> QED
    BY <1>3, <2>1
<1>5. Free \in Handler /\ Free.op = "free" /\ Free.pc = "free" /\ Free.msg = 0
  BY SMTT(60) DEF Free, Handler, Steps
<1>6. closer' \in Closer /\ DOMAIN closer'.todo = {} /\ DOMAIN closer'.all = {}
      /\ closer'.pc = "none"
  BY SMTT(60) DEF StartedBy, Open, Closer
<1> HIDE DEF Free, Open
<1>7. /\ \A t \in Sessions : task'[t] = Free /\ pi'[t] = "none" /\ token'[t] = FALSE
      /\ task' \in [Sessions -> Handler] /\ token' \in [Sessions -> BOOLEAN]
      /\ pi' \in [Sessions -> {"none", "starting", "live", "dead"}]
      /\ UNCHANGED <<vms, work, allocs, raced>>
  BY <1>5 DEF StartedBy
<1>8. auto' \in Seq(Sessions)
  <2> DEFINE S == {t \in Sessions : sess'[t].phase = "interrupted" /\ sess'[t].err = "restart"}
  <2>1. auto' \in Orders(S)
    BY DEF StartedBy, NewestFirst
  <2>2. S \in SUBSET Sessions
    OBVIOUS
  <2> HIDE DEF S
  <2> QED
    BY <2>1, <2>2 DEF Listed
<1>9. /\ flight' \subseteq [op : Calls, s : Sessions, n : 1 .. MaxAllocs]
      /\ \A t \in Sessions :
           /\ Creates(t)' # {} => Tied(t) = {} /\ sess[t].vm = 0
           /\ \A r \in Creates(t)' : r.n = allocs[t]
  <2> DEFINE S == {o \in Sessions : InCall(o)}
  <2>1. flight' = flight \cup {RequestOf(s) : s \in S} /\ raced' = raced
    BY DEF StartedBy
  <2>2. S \in SUBSET Sessions /\ \A s \in S : InCall(s)
    OBVIOUS
  <2> HIDE DEF S
  <2> QED
    BY <2>1, <2>2, RequestsLeft
<1>10. Types'
  BY <1>2, <1>4, <1>6, <1>7, <1>8, <1>9 DEF SessionsInv, Types, Closer
<1>11. Closing'
  BY <1>5, <1>6, <1>7 DEF Closing
<1>12. ASSUME NEW t \in Sessions
       PROVE  Once(t)' /\ Fits(t)' /\ Legal(sess[t].phase, sess'[t].phase) /\ Live(t)' = Live(t)
  <2>1. Once(t)'
    BY <1>3, <1>5, <1>7, Known DEF Once
  <2>p. PICK p \in Phases : p = sess[t].phase
    BY Known
  <2>q. PICK q : q = pi[t]
    OBVIOUS
  <2>2. PICK p1 : /\ p = sess[t].phase /\ p1 = rows[t].phase /\ q = pi[t]
                  /\ p1 = p \/ (p1 = "interrupted" /\ q # "none" /\ p \notin Settled)
    BY <2>p, <2>q
  <2>3. q # "none" => p \notin Alone
    BY <2>2, Known DEF Fit, Tended
  <2>4. /\ Resumed(p1) \in Rested => p \in Rested
        /\ Resumed(p1) \in Unplaced \/ p \notin Unplaced
        /\ Resumed(p1) = "none" <=> p = "none"
        /\ Resumed(p1) = "closed" <=> p = "closed"
    BY <2>2, <2>3, SMTT(60) DEF Resumed, Phases, Settled, Rested, Alone, Unplaced
  <2>5. Legal(p, Resumed(p1))
    BY <2>2, <2>3, SMTT(60) DEF Legal, Check, Resumed, Phases, Settled, Alone
  <2>6. Fit(Resumed(p1), sess[t].vm, "free", "free", "none", FALSE, work[t], allocs[t], Tied(t),
            Creates(t)')
    BY <1>9, <2>2, <2>4, Known DEF Fit, Turn, Fresh, Phased, Tended, Owned
  <2>7. Tied(t)' = Tied(t)
    BY <1>7 DEF Tied, Labelled
  <2>8. /\ sess'[t].phase = Resumed(p1) /\ sess'[t].vm = sess[t].vm
        /\ task'[t].op = "free" /\ task'[t].pc = "free" /\ pi'[t] = "none" /\ token'[t] = FALSE
        /\ work'[t] = work[t] /\ allocs'[t] = allocs[t]
    BY <1>1, <1>5, <1>7, <2>2
  <2>9. Fits(t)'
    BY <2>6, <2>7, <2>8 DEF Fits
  <2>10. Live(t)' = Live(t)
    BY <2>2, <2>4, <2>8 DEF Live
  <2> QED
    BY <2>1, <2>2, <2>5, <2>8, <2>9, <2>10
<1>13. CapStep
  <2>1. Workers' \subseteq Workers
    BY <1>7 DEF Workers
  <2>2. \A t \in Sessions : task'[t].pc \notin LaunchSteps
    BY <1>5, <1>7 DEF LaunchSteps
  <2> QED
    BY <2>1, <2>2 DEF CapStep
<1>14. LineStep
  <2>1. \A t \in Sessions : task'[t].op \notin {"create", "close"}
    BY <1>5, <1>7
  <2> QED
    BY <1>6, <1>12, <2>1 DEF LineStep
<1> QED
  BY <1>10, <1>11, <1>12, <1>13, <1>14 DEF Kept, SessionsInv, PhaseStep

LEMMA Restarting ==
  ASSUME SessionsInv, Listed, Crash \/ Shutdown
  PROVE  Kept
<1>1. Types
  BY DEF SessionsInv
<1>2. CASE Crash
  BY <1>1, <1>2, Restarted DEF Crash, Types
<1>3. CASE Shutdown
  <2>1. PICK rows : rows = [s \in Sessions |-> IF s \in Workers THEN Interrupt(s, "restart")[s]
                                               ELSE sess[s]]
    OBVIOUS
  <2>2. ASSUME NEW t \in Sessions
        PROVE  /\ rows[t] \in Row /\ rows[t].vm = sess[t].vm
               /\ \/ rows[t].phase = sess[t].phase
                  \/ rows[t].phase = "interrupted" /\ pi[t] # "none" /\ sess[t].phase \notin Settled
    <3>1. CASE rows[t] = sess[t]
      BY <1>1, <3>1, RowTyped
    <3>2. CASE /\ t \in Workers /\ sess[t].phase \notin Settled
               /\ rows[t] = [phase |-> "interrupted", vm |-> sess[t].vm, err |-> "restart"]
      <4>1. rows[t] \in Row /\ rows[t].phase = "interrupted" /\ rows[t].vm = sess[t].vm
        BY <1>1, <3>2, RowTyped, SMTT(60) DEF Row, Phases
      <4>2. pi[t] # "none"
        BY <3>2 DEF Workers
      <4> QED
        BY <3>2, <4>1, <4>2
    <3> QED
      BY <1>1, <2>1, <3>1, <3>2 DEF Interrupt, Settled, phase, Types
  <2>3. rows \in [Sessions -> Row]
    BY <2>1, <2>2
  <2> QED
    BY <1>3, <2>1, <2>2, <2>3, Restarted DEF Shutdown
<1> QED
  BY <1>2, <1>3

-----------------------------------------------------------------------------
(* The invariant.                                                          *)

LEMMA Starting ==
  ASSUME Init
  PROVE  SessionsInv /\ Lineage
<1>1. PICK r, h, e : /\ r = [phase |-> "none", vm |-> 0, err |-> "none"] /\ h = Free /\ e = <<>>
  OBVIOUS
<1>2. r \in Row /\ r.phase = "none" /\ r.vm = 0
  BY <1>1, SessionsAssumption, SMTT(60) DEF Row, Phases
<1>3. h \in Handler /\ h.op = "free" /\ h.pc = "free" /\ h.msg = 0
  BY <1>1, SMTT(60) DEF Free, Handler, Steps
<1>4. e \in Seq(Letter) /\ e \in Seq(Sessions) /\ Len(e) = 0 /\ DOMAIN e = {}
  BY <1>1, SMTT(60)
<1>5. /\ closer \in Closer /\ closer.pc = "none" /\ DOMAIN closer.todo = {} /\ DOMAIN closer.all = {}
  BY SMTT(60) DEF Init, Open, Closer
<1>6. 0 \in Nat /\ 0 \in 0 .. MaxAllocs /\ 0 <= 1 /\ 0 <= MaxMail
  BY SessionsAssumption, SMTT(60)
<1>7. /\ sess = [s \in Sessions |-> r] /\ mail = [s \in Sessions |-> e]
      /\ task = [s \in Sessions |-> h] /\ auto = e
  BY <1>1 DEF Init
<1>8. Types
  <2>1. /\ sess \in [Sessions -> Row] /\ mail \in [Sessions -> Seq(Letter)]
        /\ task \in [Sessions -> Handler] /\ auto \in Seq(Sessions)
    BY <1>2, <1>3, <1>4, <1>7
  <2>2. /\ pi \in [Sessions -> {"none", "starting", "live", "dead"}]
        /\ token \in [Sessions -> BOOLEAN] /\ flight = {} /\ raced = {}
    BY DEF Init
  <2>3. vms \in [Sessions \X (1 .. MaxAllocs) -> {"none", "running", "suspended", "stopped"}]
    BY DEF Init
  <2>4. work \in [Sessions -> Nat] /\ allocs \in [Sessions -> 0 .. MaxAllocs]
    BY <1>6 DEF Init
  <2> QED
    BY <1>5, <2>1, <2>2, <2>3, <2>4 DEF Types, Closer
<1>9. Closing
  BY <1>3, <1>5, <1>7 DEF Closing
<1>10. ASSUME NEW s \in Sessions PROVE Once(s) /\ Fits(s)
  <2>1. Once(s)
    BY <1>3, <1>4, <1>6, <1>7 DEF Once
  <2>2. Tied(s) = {} /\ Creates(s) = {}
    BY DEF Init, Tied, Labelled, Creates
  <2>3. Fit("none", 0, "free", "free", "none", FALSE, 0, 0, {}, {})
    BY <1>6 DEF Fit, Turn, Rested, Fresh, Phased, Tended, Owned, Unplaced
  <2> QED
    BY <1>2, <1>3, <1>7, <2>1, <2>2, <2>3 DEF Init, Fits
<1>11. Lineage
  BY <1>2, <1>3, <1>7, SessionsAssumption DEF Lineage, Live, Child
<1> QED
  BY <1>8, <1>9, <1>10, <1>11 DEF SessionsInv

LEMMA Stepping ==
  ASSUME SessionsInv, Listed, [Next]_vars
  PROVE  Kept
<1>1. CASE UNCHANGED vars
  <2>1. UNCHANGED <<sess, mail, pi, token, task, auto, vms, work, flight, allocs, raced>> /\ closer' = closer
    BY <1>1 DEF vars
  <2>2. closer' \in Closer /\ Closing'
    BY <2>1, CloserTyped DEF SessionsInv, Closing, phase
  <2> QED
    BY <2>1, <2>2, CloserOnly
<1>2. ASSUME NEW s \in Sessions, Step(s) PROVE Kept
  <2>1. CASE Insert(s) \/ CreateAnswered(s)
    BY <2>1, Inserting, AnsweringCreate
  <2>2. CASE LaunchStep(s)
    BY <2>2, LaunchBegins, Getting, LaunchCalling, Readying, Answering, FailingPi DEF LaunchStep
  <2>3. CASE PromptStep(s)
    BY <2>3, Sending, Acking DEF PromptStep
  <2>4. CASE HaltAnswered(s) \/ SuspendAnswered(s) \/ StopAnswered(s) \/ StopConfirmed(s)
    BY <2>4, HaltEnds, SuspendEnds, StopEnds, ConfirmEnds
  <2>5. CASE Reconciled(s) \/ RetryListed(s) \/ CloseListed(s) \/ DestroyAnswered(s)
    BY <2>5, ReconcileEnds, RetryEnds, CloseEnds
  <2> QED
    BY <1>2, <2>1, <2>2, <2>3, <2>4, <2>5 DEF Step
<1>3. ASSUME NEW s \in Sessions, Request(s) PROVE Kept
  <2>1. CASE Create(s) \/ SubmitPrompt(s) \/ Recover(s) \/ Abort(s)
    BY <2>1, Creating, Submitting, Recoveries, Aborting
  <2>2. CASE Sleep(s, "sleep") \/ StopVm(s) \/ Reconcile(s) \/ RetryAllocation(s) \/ Close(s)
    BY <2>2, Sleeping, Stopping, ReconcileBegins, ClosingBegins
  <2>3. CASE \E i \in DOMAIN mail[s] : CancelQueued(s, i)
    BY <2>3, Withdrawing
  <2>4. CASE \E to \in Sessions : SendMessage(s, to)
    BY <2>4, Messaging
  <2> QED
    BY <1>3, <2>1, <2>2, <2>3, <2>4 DEF Request
<1>4. ASSUME NEW s \in Sessions, Timer(s) \/ PiDies(s) \/ Settle(s) \/ Disconnect(s) PROVE Kept
  <2>1. CASE Timer(s)
    BY <2>1, Delivering, Sleeping, Retiring DEF Timer
  <2> QED
    BY <1>4, <2>1, Dying, Settling, Disconnecting
<1>5. CASE AutoRecover \/ Fence \/ CloseOne \/ DisconnectClose
  BY <1>5, Recoveries, Fencing, ClosingOne, ClosesDropped
<1>6. ASSUME NEW r \in flight, Lands(r) \/ Lost(r) PROVE Kept
  BY <1>6, FlightEnds
<1>7. CASE Crash \/ Shutdown
  BY <1>7, Restarting
<1> QED
  BY <1>1, <1>2, <1>3, <1>4, <1>5, <1>6, <1>7 DEF Next

LEMMA LineageKept ==
  ASSUME SessionsInv, Lineage, LineStep
  PROVE  Lineage'
<1> SUFFICES ASSUME NEW s \in Sessions, Child(s)
             PROVE  /\ Live(s)' \/ task'[s].op = "create" => Live(Parent[s])'
                    /\ task'[s].op = "create" => closer'.pc = "none"
                    /\ task'[Parent[s]].op = "close" => ~Live(s)'
  BY DEF Lineage, Live, Child
<1>1. PICK u \in Sessions : u = Parent[s]
  BY SessionsAssumption DEF Child
<1>2. /\ Live(s) \/ task[s].op = "create" => Live(u)
      /\ task[s].op = "create" => closer.pc = "none"
      /\ task[u].op = "close" => ~Live(s)
  BY <1>1 DEF Lineage
<1>3. closer.pc # "delete" => task[u].op # "close"
  BY DEF SessionsInv, Closing
<1>4. task'[s].op = "create" => closer.pc = "none" /\ Live(u)
  BY <1>1, <1>2 DEF LineStep
<1>5. task'[s].op = "create" => closer'.pc = "none"
  BY <1>4 DEF LineStep
<1>6. Live(u) /\ task[u].op # "close" => Live(u)'
  BY DEF LineStep
<1>7. Live(s)' => Live(u)'
  BY <1>2, <1>3, <1>6 DEF LineStep
<1>8. task'[u].op = "close" => ~Live(s)'
  BY <1>1, <1>2, <1>3 DEF LineStep
<1>9. Live(Parent[s])' <=> Live(u)'
  BY <1>1 DEF Live
<1> QED
  BY <1>1, <1>3, <1>4, <1>5, <1>6, <1>7, <1>8, <1>9

-----------------------------------------------------------------------------
(* The cap.  A launch holds launch_gate from the count it was let in by to *)
(* the insertion of its worker.                                            *)

INSTANCE FiniteSetTheorems

LEMMA WorkersFinite ==
  /\ IsFiniteSet(Workers) /\ IsFiniteSet(Workers') /\ Cardinality(Workers) \in Nat
  /\ Cardinality(Workers') \in Nat
<1>1. Workers \subseteq Sessions /\ Workers' \subseteq Sessions
  BY DEF Workers
<1> QED
  BY <1>1, SessionsAssumption, FS_Subset, FS_CardinalityType

(* A set within a set of workers is no larger. *)
LEMMA Fewer ==
  ASSUME NEW S, NEW T, IsFiniteSet(T), S \subseteq T
  PROVE  /\ Cardinality(S) \in Nat /\ Cardinality(T) \in Nat /\ Cardinality(S) <= Cardinality(T)
  BY FS_Subset, FS_CardinalityType

LEMMA CapKept ==
  ASSUME Capped, CapStep
  PROVE  Capped'
<1> SUFFICES ASSUME MaxAgents # 0 PROVE Capped'
  BY DEF Capped
<1>1. /\ Cardinality(Workers) <= MaxAgents /\ MaxAgents \in Nat
      /\ \A s \in Sessions : task[s].pc \in LaunchSteps =>
           /\ Cardinality(Workers \ {s}) < MaxAgents
           /\ \A t \in Sessions : task[t].pc \in LaunchSteps => t = s
  BY SessionsAssumption DEF Capped
<1>2. CASE /\ Workers' \subseteq Workers
           /\ \A t \in Sessions : task'[t].pc \in LaunchSteps => task[t].pc \in LaunchSteps
  <2>1. Cardinality(Workers') <= MaxAgents
    <3>1. Cardinality(Workers') <= Cardinality(Workers)
      BY <1>2, WorkersFinite, Fewer
    <3> QED
      BY <1>1, <3>1, WorkersFinite, SMTT(60)
  <2>2. ASSUME NEW s \in Sessions, task'[s].pc \in LaunchSteps
        PROVE  Cardinality(Workers' \ {s}) < MaxAgents
    <3>1. /\ Cardinality(Workers' \ {s}) \in Nat /\ Cardinality(Workers \ {s}) \in Nat
          /\ Cardinality(Workers' \ {s}) <= Cardinality(Workers \ {s})
      <4>1. IsFiniteSet(Workers \ {s})
        BY WorkersFinite, FS_Subset
      <4> QED
        BY <1>2, <4>1, Fewer
    <3>2. Cardinality(Workers \ {s}) < MaxAgents
      BY <1>1, <1>2, <2>2
    <3> QED
      BY <1>1, <3>1, <3>2, SMTT(60)
  <2> QED
    BY <1>1, <1>2, <2>1, <2>2 DEF Capped
<1>3. ASSUME NEW s \in Sessions, ~LaunchGateHeld, BelowAgentLimit, Workers' = Workers,
             \A t \in Others(s) : task'[t] = task[t]
      PROVE  Capped'
  <2>1. /\ \A t \in Sessions : task'[t].pc \in LaunchSteps => t = s
        /\ Cardinality(Workers) < MaxAgents
    BY <1>3 DEF LaunchGateHeld, BelowAgentLimit, Others
  <2>2. Cardinality(Workers \ {s}) < MaxAgents
    <3>1. /\ Cardinality(Workers \ {s}) <= Cardinality(Workers)
          /\ Cardinality(Workers \ {s}) \in Nat
      BY WorkersFinite, Fewer
    <3> QED
      BY <1>1, <2>1, <3>1, WorkersFinite, SMTT(60)
  <2> QED
    BY <1>1, <1>3, <2>1, <2>2 DEF Capped
<1>4. ASSUME NEW s \in Sessions, task[s].pc \in LaunchSteps, Workers' = Workers \cup {s},
             \A t \in Sessions : task'[t].pc \in LaunchSteps => task[t].pc \in LaunchSteps
      PROVE  Capped'
  <2>1. Cardinality(Workers \ {s}) < MaxAgents
    BY <1>1, <1>4
  <2>2. IsFiniteSet(Workers \ {s}) /\ Cardinality(Workers \ {s}) \in Nat
    BY WorkersFinite, FS_Subset, FS_CardinalityType
  <2>3. Workers' = (Workers \ {s}) \cup {s} /\ s \notin Workers \ {s}
    BY <1>4
  <2>4. Cardinality(Workers') = Cardinality(Workers \ {s}) + 1
    BY <2>2, <2>3, FS_AddElement
  <2>5. Cardinality(Workers') <= MaxAgents
    BY <1>1, <2>1, <2>2, <2>4, SMTT(60)
  <2>6. Workers' \ {s} = Workers \ {s}
    BY <1>4
  <2>7. \A t \in Sessions : task'[t].pc \in LaunchSteps => t = s
    BY <1>1, <1>4
  <2> QED
    BY <2>1, <2>5, <2>6, <2>7 DEF Capped
<1> QED
  BY <1>2, <1>3, <1>4 DEF CapStep

(* Some facts on finite sets. *)
LEMMA OrdersTyped ==
  ASSUME NEW S \in SUBSET Sessions, NEW q \in Orders(S)
  PROVE  q \in Seq(Sessions) /\ (\A i \in DOMAIN q : q[i] \in S) /\ (S # {} => q # <<>>)
<1>1. IsFiniteSet(S) /\ Cardinality(S) \in Nat /\ (S # {} => Cardinality(S) # 0)
  BY SessionsAssumption, FS_Subset, FS_CardinalityType, FS_EmptySet
<1>2. PICK n \in Nat : n = Cardinality(S) /\ q \in [1 .. n -> S] /\ (S # {} => n # 0)
  BY <1>1 DEF Orders
<1>3. q \in Seq(S) /\ q \in Seq(Sessions) /\ Len(q) = n
  BY <1>2, SMTT(60)
<1>4. S # {} => q # <<>>
  <2>1. Len(<<>>) = 0
    BY SMTT(60)
  <2> QED
    BY <1>2, <1>3, <2>1
<1> QED
  BY <1>2, <1>3, <1>4

LEMMA NoneYet ==
  ASSUME Init
  PROVE  Capped
<1>1. Workers = {}
  BY DEF Init, Workers
<1>2. \A s \in Sessions : task[s] = Free
  BY DEF Init
<1>3. Free.pc \notin LaunchSteps
  BY SMTT(60) DEF Free, LaunchSteps
<1> HIDE DEF Free
<1>4. Cardinality(Workers) <= MaxAgents
  BY <1>1, FS_EmptySet, SessionsAssumption, SMTT(60)
<1> QED
  BY <1>2, <1>3, <1>4 DEF Capped

-----------------------------------------------------------------------------
(* The theorems.                                                           *)

(* Every reachable state has the invariant: each handler finds its session *)
(* as its last step left it, the cap holds and no open session is below a  *)
(* closed one.                                                             *)
THEOREM SessionsInvariant == Spec => [](SessionsInv /\ Lineage /\ Capped)
<1>1. Init => SessionsInv /\ Lineage /\ Capped
  BY Starting, NoneYet
<1>2. Listed
  BY OrdersTyped DEF Listed
<1>3. SessionsInv /\ Lineage /\ Capped /\ [Next]_vars => (SessionsInv /\ Lineage /\ Capped)'
  BY <1>2, Stepping, LineageKept, CapKept DEF Kept
<1> QED
  BY <1>1, <1>3, PTL DEF Spec

-----------------------------------------------------------------------------
(* No prompt is replayed (deliver_next, submit_prompt, Store::recover):    *)
(* however many crashes, restarts, lost answers and dropped clients there  *)
(* are, a mailbox message reaches pi at most once, never before it was     *)
(* claimed, and exactly once if it is marked delivered.                    *)
THEOREM AtMostOnceHolds == Spec => []AtMostOnce
<1>1. SessionsInv => AtMostOnce
  BY DEF SessionsInv, Once, Proper, AtMostOnce
<1> QED
  BY <1>1, SessionsInvariant, PTL

(* A prompt is sent only to a guest in which nothing of an earlier one     *)
(* runs (launch, recover): at most one is ever at work in a session's VM.  *)
THEOREM OneTurnHolds == Spec => []OneTurn
<1>1. SessionsInv => OneTurn
  BY DEF SessionsInv, Fits, Fit, Turn, OneTurn
<1> QED
  BY <1>1, SessionsInvariant, PTL

(* No VM is lost sight of (create_node, retry_allocation, reconcile,       *)
(* close_one): one that bears a session's label is the one its row names,  *)
(* or the row says the allocation is open; a closed session has none.  It  *)
(* is so of every session but those a create was retried for with an       *)
(* earlier one in flight, whatever else is dropped, lost or late.          *)
THEOREM VmAccountedHolds == Spec => []VmAccounted
<1>1. ASSUME SessionsInv, NEW s \in Sessions \ raced
      PROVE  /\ \A n \in Labelled(s) :
                  n = sess[s].vm \/ phase(s) \in {"allocating", "allocation_unknown"}
             /\ phase(s) = "closed" => Labelled(s) = {}
  <2>1. Tied(s) = Labelled(s)
    BY DEF Tied
  <2>2. Owned(sess[s].phase, sess[s].vm, task[s].op, task[s].pc, allocs[s], Labelled(s), Creates(s))
    BY <1>1, <2>1, Known DEF Fit
  <2>3. \A n \in Labelled(s) : n # 0
    BY SMTT(60) DEF Labelled
  <2> QED
    BY <2>2, <2>3 DEF Owned, Unplaced, phase
<1>2. SessionsInv => VmAccounted
  BY <1>1 DEF VmAccounted
<1> QED
  BY <1>2, SessionsInvariant, PTL

(* A planner is closed only after every session below it (close_session,   *)
(* create_node): a close finds nothing open below the node it deletes, and *)
(* swarm_gate keeps a child from coming in while it does.                  *)
THEOREM NoOrphanChildHolds == Spec => []NoOrphanChild
<1>1. Lineage => NoOrphanChild
  BY DEF Lineage, Live, Child, NoOrphanChild, phase
<1> QED
  BY <1>1, SessionsInvariant, PTL

(* Workers are accounted for (launch, stop_worker): max_agents holds       *)
(* however many launches wait for the gate, whatever fails in them and     *)
(* whoever goes away, and no token is accepted whose worker is gone.       *)
THEOREM WorkersKeptHolds == Spec => []WorkersKept
<1>1. SessionsInv => TypeOK
  <2> SUFFICES ASSUME SessionsInv PROVE TypeOK
    OBVIOUS
  <2>1. Types
    BY DEF SessionsInv
  <2>2. ASSUME NEW s \in Sessions
        PROVE  /\ mail[s] \in Seq([op : BOOLEAN, status : Statuses, sent : Nat])
               /\ Len(mail[s]) <= MaxMail
               /\ task[s].msg \in 0 .. Len(mail[s])
               /\ task[s].op \in Operator \cup Unattended \cup {"free"}
    <3>1. task[s].msg # 0 => task[s].msg \in DOMAIN mail[s]
      BY Known DEF Once
    <3>2. mail[s] \in Seq(Letter) /\ task[s].msg \in Nat
      BY <2>1, RowTyped
    <3>3. task[s].msg \in 0 .. Len(mail[s])
      BY <3>1, <3>2, SMTT(60)
    <3>4. task[s].op \in Operator \cup Unattended \cup {"free"}
      BY <2>1, RowTyped, SMTT(60) DEF Handler
    <3> QED
      BY <3>2, <3>3, <3>4, Known DEF Once, Letter
  <2>3. closer.pc \in {"none", "fence", "delete"}
    BY <2>1, SMTT(60) DEF Types
  <2> QED
    BY <2>1, <2>2, <2>3 DEF TypeOK, Types, Row
<1>2. Capped => AgentLimit
  BY DEF Capped, AgentLimit
<1>3. SessionsInv => TokenRevoked
  BY Known DEF TokenRevoked, WorkerActive, Fit, Tended, phase
<1> QED
  BY <1>1, <1>2, <1>3, SessionsInvariant, PTL DEF WorkersKept

(* Phases move as Phase::check says, whoever moves them: no handler finds  *)
(* that its row has gone where its next write is illegal, and nothing      *)
(* brings a session back from closing.                                     *)
THEOREM PhasesKeptHolds == Spec => PhasesKept
<1>0. Listed
  BY OrdersTyped DEF Listed
<1>1. SessionsInv /\ [Next]_vars =>
        [\A s \in Sessions : phase(s) # "none" => Check(phase(s), sess'[s].phase)]_vars
  BY <1>0, Stepping DEF Kept, PhaseStep, Legal, phase
<1>2. SessionsInv /\ [Next]_vars =>
        [\A s \in Sessions : phase(s) = "closing" => sess'[s].phase \in {"closing", "closed"}]_vars
  BY <1>0, Stepping DEF Kept, PhaseStep, Legal, phase
<1> QED
  BY <1>1, <1>2, SessionsInvariant, PTL DEF Spec, PhasesKept, PhasesLegal, ClosingIsFinal

=============================================================================
