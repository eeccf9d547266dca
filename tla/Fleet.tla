-------------------------------- MODULE Fleet --------------------------------
(***************************************************************************)
(* The fleet service (iso-fleet): one record per VM, hosts that own the    *)
(* VMs, handlers that place and delete, and a sync pass per host that      *)
(* settles what the record and the host disagree about.  Calls to a host   *)
(* may be refused, lose their reply, or be acted on after the caller has   *)
(* given up; nothing holds a lock across a call.                           *)
(***************************************************************************)
EXTENDS Naturals, FiniteSets

CONSTANTS
  VmIds,      \* ids the fleet makes up, each once
  Hosts,      \* hosts a configuration may name
  NoHost,     \* no host
  NoVm,       \* no VM
  MaxFaults   \* bound: hosts lost, replies lost, refusals, drops and restarts

ASSUME FleetAssumption ==
  NoHost \notin Hosts /\ NoVm \notin VmIds /\ MaxFaults \in Nat

VARIABLES
  row,        \* store: each VM's fleet_state and host
  healthy,    \* store: hosts last seen healthy
  old,        \* VMs whose record is past the create grace
  minted,     \* ids already made up
  create,     \* create handlers
  delete,     \* delete handlers
  sync,       \* each host's sync pass
  due,        \* hosts whose pass of this round has yet to begin
  conf,       \* hosts in this process's configuration
  vms,        \* hosts: the VMs each has
  up,         \* hosts the fleet can reach
  sent,       \* requests a host may still act on
  faults      \* faults so far

db == <<row, healthy, old, minted>>
handlers == <<create, delete, sync, due>>
world == <<vms, up, sent>>
vars == <<db, handlers, conf, world, faults>>

States == {"none", "creating", "placed", "unreachable", "lost", "deleting", "failed"}
Row == [state : States, host : Hosts \cup {NoHost}]
NoRow == [state |-> "none", host |-> NoHost]

Answers == {"none", "ok", "exists", "full", "bad", "gone", "refused", "unreachable"}
Request == [op : {"create", "delete", "retry"}, vm : VmIds, host : Hosts]

CreateTask == [pc : {"none", "next", "wait"}, left : SUBSET Hosts,
               host : Hosts \cup {NoHost}, answer : Answers]
DeleteTask == [pc : {"none", "wait"}, host : Hosts \cup {NoHost}, answer : Answers]
SyncTask == [pc : {"idle", "rows", "walk", "retry"}, reached : BOOLEAN,
             seen : SUBSET VmIds, rows : [VmIds -> States],
             vm : VmIds \cup {NoVm}, answer : Answers]
IdleCreate == [pc |-> "none", left |-> {}, host |-> NoHost, answer |-> "none"]
IdleDelete == [pc |-> "none", host |-> NoHost, answer |-> "none"]
IdleSync == [pc |-> "idle", reached |-> FALSE, seen |-> {},
             rows |-> [v \in VmIds |-> "none"], vm |-> NoVm, answer |-> "none"]

TypeOK ==
  /\ row \in [VmIds -> Row]
  /\ \A v \in VmIds : row[v].state = "none" <=> row[v].host = NoHost
  /\ healthy \subseteq Hosts /\ old \subseteq VmIds /\ minted \subseteq VmIds
  /\ create \in [VmIds -> CreateTask]
  /\ delete \in [VmIds -> DeleteTask]
  /\ sync \in [Hosts -> SyncTask]
  /\ \A h \in Hosts : sync[h].pc = "retry" => sync[h].vm \in VmIds
  /\ conf \subseteq Hosts /\ due \subseteq Hosts
  /\ vms \in [Hosts -> SUBSET VmIds] /\ up \subseteq Hosts
  /\ sent \subseteq Request
  /\ faults \in 0 .. MaxFaults

-----------------------------------------------------------------------------
Fault == faults < MaxFaults /\ faults' = faults + 1

SetStateAnyway(v, state) == row' = [row EXCEPT ![v].state = state]

(* Every store write is an UPDATE ... WHERE id: no row, no effect. *)
SetState(v, state) ==
  row' = [row EXCEPT ![v].state = IF @ = "none" THEN @ ELSE state]
DropRow(v) == row' = [row EXCEPT ![v] = NoRow]

(* A call to a host that cannot be reached fails with nothing sent. *)
Ask(op, v, h) ==
  sent' = IF h \in up THEN sent \cup {[op |-> op, vm |-> v, host |-> h]} ELSE sent
Asked(h) == IF h \in up THEN "none" ELSE "unreachable"

(* create: the record goes in before any host is asked.  Which hosts have   *)
(* the template and a free slot, and in which order, is for placement: any. *)
Create(v, hosts) ==
  /\ v \notin minted
  /\ hosts # {} /\ hosts \subseteq healthy \cap conf
  /\ minted' = minted \cup {v}
  /\ \E first \in hosts : row' = [row EXCEPT ![v] = [state |-> "creating", host |-> first]]
  /\ create' = [create EXCEPT ![v] =
       [pc |-> "next", left |-> hosts, host |-> NoHost, answer |-> "none"]]
  /\ UNCHANGED <<healthy, old, delete, sync, due, conf, world, faults>>

TryHost(v, h) ==
  /\ create[v].pc = "next"
  /\ h \in create[v].left
  /\ row' = [row EXCEPT ![v].host = IF row[v].state = "none" THEN @ ELSE h]
  /\ Ask("create", v, h)
  /\ create' = [create EXCEPT ![v] =
       [pc |-> "wait", left |-> create[v].left \ {h}, host |-> h, answer |-> Asked(h)]]
  /\ UNCHANGED <<healthy, old, minted, delete, sync, due, conf, vms, up, faults>>

NoCandidate(v) ==
  /\ create[v].pc = "next"
  /\ create[v].left = {}
  /\ DropRow(v)
  /\ create' = [create EXCEPT ![v] = IdleCreate]
  /\ UNCHANGED <<healthy, old, minted, delete, sync, due, conf, world, faults>>

CreateAnswered(v) ==
  LET answer == create[v].answer IN
  /\ create[v].pc = "wait"
  /\ \/ /\ answer \in {"ok", "exists"}
        /\ SetState(v, "placed")
        /\ create' = [create EXCEPT ![v] = IdleCreate]
     \/ /\ answer \in {"full", "unreachable"}
        /\ create' = [create EXCEPT ![v].pc = "next"]
        /\ UNCHANGED row
     \/ /\ answer = "bad"
        /\ DropRow(v)
        /\ create' = [create EXCEPT ![v] = IdleCreate]
  /\ healthy' = IF answer = "unreachable" THEN healthy \ {create[v].host} ELSE healthy
  /\ UNCHANGED <<old, minted, delete, sync, due, conf, world, faults>>

CreateUnansweredGoesOn(v) ==
  /\ create[v].pc = "wait" /\ create[v].answer # "unreachable"
  /\ Fault
  /\ create' = [create EXCEPT ![v].pc = "next"]
  /\ UNCHANGED <<db, delete, sync, due, conf, world>>

(* No reply: the host may have acted, or may yet. *)
CreateUnanswered(v) ==
  /\ create[v].pc = "wait" /\ create[v].answer # "unreachable"
  /\ Fault
  /\ SetState(v, "creating")
  /\ create' = [create EXCEPT ![v] = IdleCreate]
  /\ UNCHANGED <<healthy, old, minted, delete, sync, due, conf, world>>

-----------------------------------------------------------------------------
(* delete_one: a lost or failed record, or one of a host no longer          *)
(* configured, just goes; otherwise its host is asked.                      *)
Delete(v) ==
  LET h == row[v].host IN
  /\ row[v].state # "none"
  /\ delete[v].pc = "none"
  /\ \/ /\ row[v].state \in {"lost", "failed"} \/ h \notin conf
        /\ DropRow(v)
        /\ UNCHANGED <<delete, sent>>
     \/ /\ row[v].state \notin {"lost", "failed"} /\ h \in conf
        /\ Ask("delete", v, h)
        /\ delete' = [delete EXCEPT ![v] = [pc |-> "wait", host |-> h, answer |-> Asked(h)]]
        /\ UNCHANGED row
  /\ UNCHANGED <<healthy, old, minted, create, sync, due, conf, vms, up, faults>>

DeleteAnswered(v) ==
  /\ delete[v].pc = "wait"
  /\ delete[v].answer # "none"
  /\ CASE delete[v].answer = "gone" -> DropRow(v)
       [] delete[v].answer = "unreachable" -> SetState(v, "deleting")
       [] OTHER -> UNCHANGED row
  /\ delete' = [delete EXCEPT ![v] = IdleDelete]
  /\ UNCHANGED <<healthy, old, minted, create, sync, due, conf, world, faults>>

DeleteUnanswered(v) ==
  /\ delete[v].pc = "wait"
  /\ Fault
  /\ SetState(v, "deleting")
  /\ delete' = [delete EXCEPT ![v] = IdleDelete]
  /\ UNCHANGED <<healthy, old, minted, create, sync, due, conf, world>>

(* The client goes away and its handler is dropped where it waits. *)
Drop(v) ==
  /\ Fault
  /\ \/ create[v].pc = "wait" /\ create' = [create EXCEPT ![v] = IdleCreate] /\ UNCHANGED delete
     \/ delete[v].pc = "wait" /\ delete' = [delete EXCEPT ![v] = IdleDelete] /\ UNCHANGED create
  /\ UNCHANGED <<db, sync, due, conf, world>>

-----------------------------------------------------------------------------
(* sync_once: a round is one pass per host; the next waits for all of them. *)
SyncRound ==
  /\ due = {} /\ \A h \in Hosts : sync[h].pc = "idle"
  /\ due' = conf
  /\ UNCHANGED <<db, create, delete, sync, conf, world, faults>>

(* sync_host: ask what the host has, then read the records, then settle them *)
(* one at a time by what was read.                                           *)
SyncList(h) ==
  /\ h \in due
  /\ due' = due \ {h}
  /\ sync' = [sync EXCEPT ![h] =
       [pc |-> "rows", reached |-> h \in up, seen |-> IF h \in up THEN vms[h] ELSE {},
        rows |-> [v \in VmIds |-> "none"], vm |-> NoVm, answer |-> "none"]]
  /\ UNCHANGED <<db, create, delete, conf, world, faults>>

(* The pass goes on to the records still to settle, or ends. *)
Walk(h, rows) ==
  sync' = [sync EXCEPT ![h] = IF \A v \in VmIds : rows[v] = "none" THEN IdleSync
             ELSE [pc |-> "walk", reached |-> @.reached, seen |-> @.seen, rows |-> rows,
                   vm |-> NoVm, answer |-> "none"]]

SyncRows(h) ==
  /\ sync[h].pc = "rows"
  /\ healthy' = IF sync[h].reached THEN healthy \cup {h} ELSE healthy \ {h}
  /\ Walk(h, [v \in VmIds |-> IF row[v].host = h THEN row[v].state ELSE "none"])
  /\ UNCHANGED <<row, old, minted, create, delete, due, conf, world, faults>>

SettledOnce(v, state, reached, seen) ==
  CASE ~reached -> IF state \in {"placed", "creating"} THEN "unreachable" ELSE "same"
    [] reached /\ seen -> IF state \in {"deleting", "lost", "failed"} THEN "same" ELSE "placed"
    [] OTHER -> CASE state = "deleting" -> "none"
                  [] state = "creating" -> IF v \in old THEN "failed" ELSE "same"
                  [] state \in {"lost", "failed"} -> "same"
                  [] OTHER -> "lost"

(* What a record read as state turns into; "same" leaves it, "ask" retries *)
(* the delete.                                                             *)
Settled(v, state, reached, seen) ==
  CASE ~reached -> IF state \in {"placed", "creating"} THEN "unreachable" ELSE "same"
    [] reached /\ seen -> IF state = "deleting" THEN "ask" ELSE "placed"
    [] OTHER -> CASE state = "deleting" -> "none"
                  [] state = "creating" -> IF v \in old THEN "failed" ELSE "same"
                  [] state \in {"lost", "failed"} -> "same"
                  [] OTHER -> "lost"

SyncVm(h, v) ==
  LET read == sync[h].rows[v]
      rest == [sync[h].rows EXCEPT ![v] = "none"]
      settled == Settled(v, read, sync[h].reached, v \in sync[h].seen) IN
  /\ sync[h].pc = "walk"
  /\ read # "none"
  /\ IF settled = "ask"
     THEN /\ Ask("retry", v, h)
          /\ sync' = [sync EXCEPT ![h].pc = "retry", ![h].rows = rest, ![h].vm = v,
                        ![h].answer = Asked(h)]
     ELSE Walk(h, rest) /\ UNCHANGED sent
  /\ CASE settled = "none" -> DropRow(v)
       [] settled \in States \ {"none"} -> SetState(v, settled)
       [] OTHER -> UNCHANGED row
  /\ UNCHANGED <<healthy, old, minted, create, delete, due, conf, vms, up, faults>>

SyncRetried(h) ==
  /\ sync[h].pc = "retry"
  /\ \/ /\ sync[h].answer # "none"
        /\ IF sync[h].answer = "gone" THEN DropRow(sync[h].vm) ELSE UNCHANGED row
        /\ UNCHANGED faults
     \/ Fault /\ UNCHANGED row
  /\ Walk(h, sync[h].rows)
  /\ UNCHANGED <<healthy, old, minted, create, delete, due, conf, world>>

-----------------------------------------------------------------------------
(* The hosts, and what goes wrong.  A host answers whoever still waits. *)
HostCreates(q) ==
  /\ q \in sent /\ q.op = "create"
  /\ sent' = sent \ {q}
  /\ \E answer \in IF q.vm \in vms[q.host] THEN {"exists"} ELSE {"ok", "full", "bad"} :
       /\ vms' = IF answer = "ok" THEN [vms EXCEPT ![q.host] = @ \cup {q.vm}] ELSE vms
       /\ create' = IF create[q.vm].pc = "wait" /\ create[q.vm].host = q.host
                    THEN [create EXCEPT ![q.vm].answer = answer] ELSE create
  /\ UNCHANGED <<db, delete, sync, due, conf, up, faults>>

HostDeletes(q) ==
  LET answered(a) ==
        /\ delete' = IF q.op = "delete" /\ delete[q.vm].pc = "wait" /\ delete[q.vm].host = q.host
                     THEN [delete EXCEPT ![q.vm].answer = a] ELSE delete
        /\ sync' = IF q.op = "retry" /\ sync[q.host].pc = "retry" /\ sync[q.host].vm = q.vm
                   THEN [sync EXCEPT ![q.host].answer = a] ELSE sync IN
  /\ q \in sent /\ q.op \in {"delete", "retry"}
  /\ sent' = sent \ {q}
  /\ \/ answered("gone") /\ vms' = [vms EXCEPT ![q.host] = @ \ {q.vm}] /\ UNCHANGED faults
     \/ Fault /\ answered("refused") /\ UNCHANGED vms
  /\ UNCHANGED <<db, create, due, conf, up>>

(* A guest exits, or a VM is deleted on its host. *)
VmGone(h, v) ==
  /\ v \in vms[h]
  /\ vms' = [vms EXCEPT ![h] = @ \ {v}]
  /\ UNCHANGED <<db, handlers, conf, up, sent, faults>>

HostDown(h) ==
  /\ h \in up
  /\ Fault
  /\ up' = up \ {h}
  /\ UNCHANGED <<db, handlers, conf, vms, sent>>

HostUp(h) ==
  /\ h \notin up
  /\ up' = up \cup {h}
  /\ UNCHANGED <<db, handlers, conf, vms, sent, faults>>

(* create_grace_secs pass. *)
Age(v) ==
  /\ row[v].state # "none" /\ v \notin old
  /\ old' = old \cup {v}
  /\ UNCHANGED <<row, healthy, minted, handlers, conf, world, faults>>

(* The fleet daemon restarts, perhaps with other hosts in its configuration: *)
(* records on hosts left out become unreachable (retain_hosts).  One that    *)
(* only has hosts again is no fault.                                         *)
Restart(hosts) ==
  /\ IF hosts # conf /\ conf \subseteq hosts THEN UNCHANGED faults ELSE Fault
  /\ hosts # {}
  /\ conf' = hosts
  /\ healthy' = healthy \cap hosts
  /\ row' = [v \in VmIds |->
       IF row[v].host \in conf \ hosts /\ row[v].state \notin {"lost", "failed"}
       THEN [row[v] EXCEPT !.state = "unreachable"] ELSE row[v]]
  /\ due' = {}
  /\ create' = [v \in VmIds |-> IdleCreate]
  /\ delete' = [v \in VmIds |-> IdleDelete]
  /\ sync' = [h \in Hosts |-> IdleSync]
  /\ UNCHANGED <<old, minted, world>>

-----------------------------------------------------------------------------
Init ==
  /\ row = [v \in VmIds |-> NoRow]
  /\ healthy = {} /\ old = {} /\ minted = {}
  /\ create = [v \in VmIds |-> IdleCreate]
  /\ delete = [v \in VmIds |-> IdleDelete]
  /\ sync = [h \in Hosts |-> IdleSync]
  /\ conf = Hosts /\ due = {}
  /\ vms = [h \in Hosts |-> {}] /\ up = Hosts /\ sent = {}
  /\ faults = 0

Handle(v) ==
  \/ \E h \in Hosts : TryHost(v, h)
  \/ NoCandidate(v) \/ CreateAnswered(v) \/ DeleteAnswered(v)
SyncStep(h) ==
  \/ SyncList(h) \/ SyncRows(h) \/ (\E v \in VmIds : SyncVm(h, v))
  \/ SyncRetried(h)
HostActs == \E q \in sent : HostCreates(q) \/ HostDeletes(q)

Next ==
  \/ \E v \in VmIds :
       \/ \E hosts \in SUBSET Hosts : Create(v, hosts)
       \/ Handle(v) \/ Delete(v)
       \/ CreateUnanswered(v) \/ DeleteUnanswered(v) \/ Drop(v) \/ Age(v)
  \/ SyncRound
  \/ \E h \in Hosts : SyncStep(h) \/ HostDown(h) \/ HostUp(h)
  \/ \E h \in Hosts, v \in VmIds : VmGone(h, v)
  \/ \E hosts \in SUBSET Hosts : Restart(hosts)
  \/ HostActs

Spec == Init /\ [][Next]_vars

(* Handlers and hosts go on, sync passes come round (run's loop), time passes *)
(* and a host that went away comes back.                                      *)
Fairness ==
  /\ \A v \in VmIds : WF_vars(Handle(v)) /\ WF_vars(Age(v))
  /\ \A h \in Hosts : WF_vars(SyncStep(h)) /\ WF_vars(HostUp(h))
  /\ WF_vars(SyncRound) /\ WF_vars(HostActs)

FairSpec == Spec /\ Fairness

-----------------------------------------------------------------------------
(* A VM is never on two hosts: create asks the next host only once the last *)
(* one has refused, or could not be asked, whatever was lost or came late.  *)
OneHost ==
  \A v \in VmIds, g, h \in Hosts : v \in vms[g] /\ v \in vms[h] => g = h

(* The hosts that have v, or may yet make it. *)
Places(v) ==
  {h \in Hosts : v \in vms[h] \/ [op |-> "create", vm |-> v, host |-> h] \in sent}
OnePlaceOf(v) ==
  /\ \A g, h \in Places(v) : g = h
  /\ v \notin minted \/ create[v].pc = "next" => Places(v) = {}
  /\ v \notin minted => create[v].pc = "none"
  /\ create[v].pc = "wait" => Places(v) \subseteq {create[v].host}
  /\ create[v].pc = "wait" /\ create[v].answer \in {"full", "bad", "unreachable"} =>
       Places(v) = {}

(* What OneHost rests on: whatever create's calls met, one host at most has the *)
(* VM or may yet make it, and a create that looks for its next host has left    *)
(* none behind.                                                                 *)
OnePlace == \A v \in VmIds : OnePlaceOf(v)

(* The record is kept honest by the sync loop: once faults stop, every record *)
(* of a configured host comes to say what its host has, and stays so.         *)
Honest ==
  \A v \in VmIds : row[v].host \in conf =>
    /\ row[v].state = "placed" => v \in vms[row[v].host]
    /\ row[v].state \in {"lost", "failed"} => v \notin vms[row[v].host]
    /\ row[v].state \notin {"creating", "unreachable", "deleting"}
Converges == <>[]Honest

(* store.rs on LOST: its host is reachable and does not have it.  Until the *)
(* next pass it may: sync_host lists the VMs first and reads the rows after, *)
(* and a create may finish in between.                                       *)
LostMeansGone ==
  \A v \in VmIds : row[v].state = "lost" => v \notin vms[row[v].host]

(* fleet.md: a delete the host has not confirmed is retried until it does, so *)
(* a deleting record only ever goes away.                                     *)
DeleteStands ==
  [][\A v \in VmIds : row[v].state = "deleting" =>
       row'[v].state \in {"deleting", "none"}]_vars
=============================================================================
