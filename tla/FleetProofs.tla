----------------------------- MODULE FleetProofs -----------------------------
(***************************************************************************)
(* For any number of hosts, VMs and faults, a VM is never on two hosts.    *)
(***************************************************************************)
EXTENDS Fleet, TLAPS

USE DEF db, handlers, world

(* What the store's writes leave a record as. *)
RowsOK(rows) ==
  /\ rows \in [VmIds -> Row]
  /\ \A v \in VmIds : rows[v].state = "none" <=> rows[v].host = NoHost

LEMMA Writes ==
  ASSUME TypeOK, NEW v \in VmIds
  PROVE  /\ \A state \in States \ {"none"} : SetState(v, state) => RowsOK(row')
         /\ DropRow(v) => RowsOK(row')
         /\ UNCHANGED row => RowsOK(row')
<1>0. row[v] \in Row /\ RowsOK(row)
  BY DEF TypeOK, RowsOK
<1>1. ASSUME NEW state \in States \ {"none"}, SetState(v, state) PROVE RowsOK(row')
  <2> DEFINE new == [row[v] EXCEPT !.state = IF @ = "none" THEN @ ELSE state]
  <2>1. new \in Row /\ (new.state = "none" <=> new.host = NoHost)
    BY <1>0 DEF Row, RowsOK
  <2>2. row' = [row EXCEPT ![v] = new]
    BY <1>1, <1>0 DEF SetState, RowsOK
  <2> HIDE DEF new
  <2> QED BY <1>0, <2>1, <2>2 DEF RowsOK
<1>2. ASSUME DropRow(v) PROVE RowsOK(row')
  <2>1. NoRow \in Row /\ NoRow.state = "none" /\ NoRow.host = NoHost
    BY DEF NoRow, Row, States
  <2> QED BY <1>0, <1>2, <2>1 DEF DropRow, RowsOK
<1> QED BY <1>0, <1>1, <1>2

(* Idle handlers, and a request put on its way, have their types. *)
LEMMA Idles ==
  /\ IdleCreate \in CreateTask /\ IdleDelete \in DeleteTask /\ IdleSync \in SyncTask
  /\ IdleCreate.pc = "none" /\ IdleSync.pc = "idle"
BY DEF IdleCreate, IdleDelete, IdleSync, CreateTask, DeleteTask, SyncTask, Answers, States

LEMMA Sends ==
  ASSUME TypeOK, NEW v \in VmIds, NEW h \in Hosts, NEW op \in {"create", "delete", "retry"},
         Ask(op, v, h)
  PROVE  sent' \subseteq Request /\ Asked(h) \in Answers
BY DEF TypeOK, Ask, Asked, Request, Answers

(* The pass that goes on, or ends. *)
LEMMA Walks ==
  ASSUME TypeOK, NEW h \in Hosts, NEW rows \in [VmIds -> States], Walk(h, rows)
  PROVE  sync' \in [Hosts -> SyncTask]
         /\ \A g \in Hosts : sync'[g].pc = "retry" => sync'[g].vm \in VmIds
<1> DEFINE new == IF \A v \in VmIds : rows[v] = "none" THEN IdleSync
                  ELSE [pc |-> "walk", reached |-> sync[h].reached, seen |-> sync[h].seen,
                        rows |-> rows, vm |-> NoVm, answer |-> "none"]
<1>1. sync[h] \in SyncTask
  BY DEF TypeOK
<1>2. new \in SyncTask /\ new.pc # "retry"
  BY <1>1, Idles DEF SyncTask, Answers
<1>3. sync' = [sync EXCEPT ![h] = new]
  BY DEF Walk
<1> HIDE DEF new
<1> QED BY <1>2, <1>3 DEF TypeOK

(* The fleet's record, handlers, passes and requests keep their types, and a *)
(* record always names its host: every handler, sync and host step.          *)
LEMMA HandlerTypes ==
  ASSUME TypeOK, NEW v \in VmIds,
         \/ \E hosts \in SUBSET Hosts : Create(v, hosts)
         \/ Handle(v) \/ Delete(v)
         \/ CreateUnanswered(v) \/ DeleteUnanswered(v) \/ Drop(v) \/ Age(v)
  PROVE  TypeOK'
<1>0. /\ create \in [VmIds -> CreateTask] /\ create[v] \in CreateTask
      /\ delete \in [VmIds -> DeleteTask] /\ delete[v] \in DeleteTask
      /\ row \in [VmIds -> Row] /\ row[v] \in Row
  BY DEF TypeOK
<1>1. ASSUME Fault PROVE faults' \in 0 .. MaxFaults
  BY <1>1, FleetAssumption DEF Fault, TypeOK
<1>2. ASSUME NEW hosts \in SUBSET Hosts, Create(v, hosts) PROVE TypeOK'
  <2>1. PICK first \in hosts : row' = [row EXCEPT ![v] = [state |-> "creating", host |-> first]]
    BY <1>2 DEF Create
  <2>2. first \in Hosts /\ [state |-> "creating", host |-> first] \in Row
    BY DEF Row, States
  <2>3. RowsOK(row')
    BY <1>0, <2>1, <2>2, FleetAssumption DEF TypeOK, RowsOK
  <2>4. [pc |-> "next", left |-> hosts, host |-> NoHost, answer |-> "none"] \in CreateTask
    BY DEF CreateTask, Answers
  <2>5. create' \in [VmIds -> CreateTask]
    BY <1>0, <1>2, <2>4 DEF Create
  <2> QED BY <1>2, <2>3, <2>5 DEF Create, TypeOK, RowsOK
<1>3. ASSUME NEW h \in Hosts, TryHost(v, h) PROVE TypeOK'
  <2> DEFINE new == [row[v] EXCEPT !.host = IF row[v].state = "none" THEN @ ELSE h]
  <2>1. new \in Row /\ (new.state = "none" <=> new.host = NoHost)
    BY <1>0, FleetAssumption DEF Row, TypeOK
  <2>2. row' = [row EXCEPT ![v] = new]
    BY <1>0, <1>3 DEF TryHost
  <2> HIDE DEF new
  <2>3. RowsOK(row')
    BY <1>0, <2>1, <2>2 DEF RowsOK, TypeOK
  <2>4. sent' \subseteq Request /\ Asked(h) \in Answers
    BY <1>3, Sends DEF TryHost
  <2>5. [pc |-> "wait", left |-> create[v].left \ {h}, host |-> h, answer |-> Asked(h)]
          \in CreateTask
    BY <1>0, <2>4 DEF CreateTask
  <2>6. create' \in [VmIds -> CreateTask]
    BY <1>0, <1>3, <2>5 DEF TryHost
  <2> QED BY <1>3, <2>3, <2>4, <2>6 DEF TryHost, TypeOK, RowsOK
<1>4. create' = [create EXCEPT ![v] = IdleCreate] => create' \in [VmIds -> CreateTask]
  BY <1>0, Idles
<1>5. delete' = [delete EXCEPT ![v] = IdleDelete] => delete' \in [VmIds -> DeleteTask]
  BY <1>0, Idles
<1>6. CASE NoCandidate(v)
  BY <1>4, <1>6, Writes DEF NoCandidate, TypeOK, RowsOK
<1>7. CASE CreateAnswered(v)
  <2>1. RowsOK(row')
    BY <1>7, Writes DEF CreateAnswered, States
  <2>2. create' = [create EXCEPT ![v].pc = "next"] => create' \in [VmIds -> CreateTask]
    <3>1. [create[v] EXCEPT !.pc = "next"] \in CreateTask
      BY <1>0 DEF CreateTask
    <3> QED BY <1>0, <3>1
  <2>3. create' \in [VmIds -> CreateTask]
    BY <1>4, <1>7, <2>2 DEF CreateAnswered
  <2>4. healthy' \subseteq Hosts
    BY <1>7 DEF CreateAnswered, TypeOK
  <2> QED BY <1>7, <2>1, <2>3, <2>4 DEF CreateAnswered, TypeOK, RowsOK
<1>8. CASE CreateUnanswered(v)
  <2>1. RowsOK(row')
    BY <1>8, Writes DEF CreateUnanswered, States
  <2> QED BY <1>1, <1>4, <1>8, <2>1 DEF CreateUnanswered, TypeOK, RowsOK
<1>9. CASE Delete(v)
  <2>1. RowsOK(row')
    BY <1>9, Writes DEF Delete
  <2>2. sent' \subseteq Request /\ delete' \in [VmIds -> DeleteTask]
    <3>1. CASE UNCHANGED <<delete, sent>>
      BY <3>1 DEF TypeOK
    <3>2. ASSUME NEW h \in Hosts, Ask("delete", v, h),
                 delete' = [delete EXCEPT ![v] = [pc |-> "wait", host |-> h, answer |-> Asked(h)]]
          PROVE  sent' \subseteq Request /\ delete' \in [VmIds -> DeleteTask]
      <4>1. sent' \subseteq Request /\ Asked(h) \in Answers
        BY <3>2, Sends
      <4>2. [pc |-> "wait", host |-> h, answer |-> Asked(h)] \in DeleteTask
        BY <4>1 DEF DeleteTask
      <4> QED BY <1>0, <3>2, <4>1, <4>2
    <3>3. conf \subseteq Hosts
      BY DEF TypeOK
    <3> QED BY <1>9, <3>1, <3>2, <3>3 DEF Delete
  <2> QED BY <1>9, <2>1, <2>2 DEF Delete, TypeOK, RowsOK
<1>10. CASE DeleteAnswered(v)
  <2>1. RowsOK(row')
    BY <1>10, Writes DEF DeleteAnswered, States
  <2> QED BY <1>5, <1>10, <2>1 DEF DeleteAnswered, TypeOK, RowsOK
<1>11. CASE DeleteUnanswered(v)
  <2>1. RowsOK(row')
    BY <1>11, Writes DEF DeleteUnanswered, States
  <2> QED BY <1>1, <1>5, <1>11, <2>1 DEF DeleteUnanswered, TypeOK, RowsOK
<1>12. CASE Drop(v)
  BY <1>1, <1>4, <1>5, <1>12 DEF Drop, TypeOK
<1>13. CASE Age(v)
  BY <1>13 DEF Age, TypeOK
<1> QED BY <1>2, <1>3, <1>6, <1>7, <1>8, <1>9, <1>10, <1>11, <1>12, <1>13 DEF Handle

LEMMA SyncTypes ==
  ASSUME TypeOK, NEW h \in Hosts, SyncStep(h)
  PROVE  TypeOK'
<1>0. /\ sync \in [Hosts -> SyncTask] /\ sync[h] \in SyncTask /\ sync[h].rows \in [VmIds -> States]
      /\ row \in [VmIds -> Row]
  BY DEF TypeOK, SyncTask
<1>1. CASE SyncList(h)
  <2> DEFINE new == [pc |-> "rows", reached |-> h \in up, seen |-> IF h \in up THEN vms[h] ELSE {},
                     rows |-> [v \in VmIds |-> "none"], vm |-> NoVm, answer |-> "none"]
  <2>1. [v \in VmIds |-> "none"] \in [VmIds -> States]
    BY DEF States
  <2>2. (IF h \in up THEN vms[h] ELSE {}) \in SUBSET VmIds
    BY DEF TypeOK
  <2>3. new \in SyncTask /\ new.pc = "rows"
    BY <2>1, <2>2 DEF SyncTask, Answers
  <2>4. sync' = [sync EXCEPT ![h] = new]
    BY <1>1 DEF SyncList
  <2> HIDE DEF new
  <2>5. sync' \in [Hosts -> SyncTask] /\ \A g \in Hosts : sync'[g].pc = "retry" => sync'[g].vm \in VmIds
    BY <1>0, <2>3, <2>4 DEF TypeOK
  <2>6. due' \subseteq Hosts
    BY <1>1 DEF SyncList, TypeOK
  <2> QED BY <1>1, <2>5, <2>6 DEF SyncList, TypeOK
<1>2. CASE SyncRows(h)
  <2>1. [v \in VmIds |-> IF row[v].host = h THEN row[v].state ELSE "none"] \in [VmIds -> States]
    BY <1>0 DEF Row, States
  <2>2. sync' \in [Hosts -> SyncTask] /\ \A g \in Hosts : sync'[g].pc = "retry" => sync'[g].vm \in VmIds
    BY <1>2, <2>1, Walks DEF SyncRows
  <2>3. healthy' \subseteq Hosts
    BY <1>2 DEF SyncRows, TypeOK
  <2> QED BY <1>2, <2>2, <2>3 DEF SyncRows, TypeOK
<1>3. ASSUME NEW v \in VmIds, SyncVm(h, v) PROVE TypeOK'
  <2> DEFINE rest == [sync[h].rows EXCEPT ![v] = "none"]
             settled == Settled(v, sync[h].rows[v], sync[h].reached, v \in sync[h].seen)
  <2>1. rest \in [VmIds -> States]
    BY <1>0 DEF States
  <2>2. CASE settled = "ask"
    <3>1. Ask("retry", v, h) /\ UNCHANGED row
          /\ sync' = [sync EXCEPT ![h].pc = "retry", ![h].rows = rest, ![h].vm = v,
                        ![h].answer = Asked(h)]
      BY <1>3, <2>2 DEF SyncVm, States
    <3>2. sent' \subseteq Request /\ Asked(h) \in Answers
      BY <3>1, Sends
    <3> DEFINE new == [sync[h] EXCEPT !.pc = "retry", !.rows = rest, !.vm = v, !.answer = Asked(h)]
    <3>3. new \in SyncTask /\ new.vm \in VmIds
      BY <1>0, <2>1, <3>2 DEF SyncTask
    <3>4. sync' = [sync EXCEPT ![h] = new]
      BY <1>0, <3>1
    <3> HIDE DEF new
    <3>5. sync' \in [Hosts -> SyncTask] /\ \A g \in Hosts : sync'[g].pc = "retry" => sync'[g].vm \in VmIds
      BY <1>0, <3>3, <3>4 DEF TypeOK
    <3> QED BY <1>3, <3>1, <3>2, <3>5 DEF SyncVm, TypeOK
  <2>3. CASE settled # "ask"
    <3>1. Walk(h, rest) /\ UNCHANGED sent
      BY <1>3, <2>3 DEF SyncVm
    <3>2. sync' \in [Hosts -> SyncTask] /\ \A g \in Hosts : sync'[g].pc = "retry" => sync'[g].vm \in VmIds
      BY <2>1, <3>1, Walks
    <3>3. \/ DropRow(v) \/ UNCHANGED row
          \/ \E state \in States \ {"none"} : SetState(v, state)
      BY <1>3 DEF SyncVm
    <3>4. RowsOK(row')
      BY <3>3, Writes
    <3> QED BY <1>3, <3>1, <3>2, <3>4 DEF SyncVm, TypeOK, RowsOK
  <2> QED BY <2>2, <2>3
<1>4. CASE SyncRetried(h)
  <2>1. sync[h].vm \in VmIds
    BY <1>4 DEF SyncRetried, TypeOK
  <2>2. RowsOK(row')
    BY <1>4, <2>1, Writes DEF SyncRetried
  <2>3. sync' \in [Hosts -> SyncTask] /\ \A g \in Hosts : sync'[g].pc = "retry" => sync'[g].vm \in VmIds
    BY <1>0, <1>4, Walks DEF SyncRetried
  <2>4. faults' \in 0 .. MaxFaults
    BY <1>4, FleetAssumption DEF SyncRetried, Fault, TypeOK
  <2> QED BY <1>4, <2>2, <2>3, <2>4 DEF SyncRetried, TypeOK, RowsOK
<1> QED BY <1>1, <1>2, <1>3, <1>4 DEF SyncStep

LEMMA WorldTypes ==
  ASSUME TypeOK,
         \/ SyncRound \/ HostActs
         \/ \E h \in Hosts : HostDown(h) \/ HostUp(h)
         \/ \E h \in Hosts, v \in VmIds : VmGone(h, v)
         \/ \E hosts \in SUBSET Hosts : Restart(hosts)
  PROVE  TypeOK'
<1>1. CASE SyncRound
  BY <1>1 DEF SyncRound, TypeOK
<1>2. ASSUME NEW h \in Hosts, HostDown(h) \/ HostUp(h) PROVE TypeOK'
  BY <1>2, FleetAssumption DEF HostDown, HostUp, Fault, TypeOK
<1>3. ASSUME NEW h \in Hosts, NEW v \in VmIds, VmGone(h, v) PROVE TypeOK'
  BY <1>3 DEF VmGone, TypeOK
<1>4. ASSUME NEW hosts \in SUBSET Hosts, Restart(hosts) PROVE TypeOK'
  <2> DEFINE new(v) == IF row[v].host \in conf \ hosts /\ row[v].state \notin {"lost", "failed"}
                       THEN [row[v] EXCEPT !.state = "unreachable"] ELSE row[v]
  <2>1. ASSUME NEW v \in VmIds
        PROVE  new(v) \in Row /\ (new(v).state = "none" <=> new(v).host = NoHost)
    BY FleetAssumption DEF TypeOK, Row, States
  <2>2. row' = [v \in VmIds |-> new(v)]
    BY <1>4 DEF Restart
  <2> HIDE DEF new
  <2>3. RowsOK(row')
    BY <2>1, <2>2 DEF RowsOK
  <2>4. /\ create' \in [VmIds -> CreateTask] /\ delete' \in [VmIds -> DeleteTask]
        /\ sync' \in [Hosts -> SyncTask] /\ \A g \in Hosts : sync'[g].pc # "retry"
    BY <1>4, Idles DEF Restart
  <2>5. faults' \in 0 .. MaxFaults /\ healthy' \subseteq Hosts /\ conf' \subseteq Hosts /\ due' \subseteq Hosts
    BY <1>4, FleetAssumption DEF Restart, Fault, TypeOK
  <2> QED BY <1>4, <2>3, <2>4, <2>5 DEF Restart, TypeOK, RowsOK
<1>5. ASSUME NEW q \in sent, HostCreates(q) PROVE TypeOK'
  <2>1. q.vm \in VmIds /\ q.host \in Hosts
    BY DEF TypeOK, Request
  <2>2. PICK answer \in {"exists", "ok", "full", "bad"} :
          /\ vms' = IF answer = "ok" THEN [vms EXCEPT ![q.host] = @ \cup {q.vm}] ELSE vms
          /\ create' = IF create[q.vm].pc = "wait" /\ create[q.vm].host = q.host
                       THEN [create EXCEPT ![q.vm].answer = answer] ELSE create
    BY <1>5 DEF HostCreates
  <2>3. vms' \in [Hosts -> SUBSET VmIds]
    BY <2>1, <2>2 DEF TypeOK
  <2>4. create' \in [VmIds -> CreateTask]
    <3>1. create[q.vm] \in CreateTask
      BY <2>1 DEF TypeOK
    <3>2. [create[q.vm] EXCEPT !.answer = answer] \in CreateTask
      BY <3>1 DEF CreateTask, Answers
    <3> QED BY <2>1, <2>2, <3>2 DEF TypeOK
  <2> QED BY <1>5, <2>3, <2>4 DEF HostCreates, TypeOK
<1>6. ASSUME NEW q \in sent, HostDeletes(q) PROVE TypeOK'
  <2>1. q.vm \in VmIds /\ q.host \in Hosts
    BY DEF TypeOK, Request
  <2>2. PICK answer \in {"gone", "refused"} :
          /\ delete' = delete \/ delete' = [delete EXCEPT ![q.vm].answer = answer]
          /\ sync' = sync \/ sync' = [sync EXCEPT ![q.host].answer = answer]
    BY <1>6 DEF HostDeletes
  <2>3. delete' \in [VmIds -> DeleteTask]
    <3>0. delete[q.vm] \in DeleteTask
      BY <2>1 DEF TypeOK
    <3>1. [delete[q.vm] EXCEPT !.answer = answer] \in DeleteTask
      BY <3>0 DEF DeleteTask, Answers
    <3> QED BY <2>1, <2>2, <3>1 DEF TypeOK
  <2>4. sync' \in [Hosts -> SyncTask] /\ \A g \in Hosts : sync'[g].pc = "retry" => sync'[g].vm \in VmIds
    <3> DEFINE new == [sync[q.host] EXCEPT !.answer = answer]
    <3>0. sync[q.host] \in SyncTask
      BY <2>1 DEF TypeOK
    <3>1. new \in SyncTask /\ new.pc = sync[q.host].pc /\ new.vm = sync[q.host].vm
      BY <3>0 DEF SyncTask, Answers
    <3>2. sync' = sync \/ sync' = [sync EXCEPT ![q.host] = new]
      BY <2>1, <2>2 DEF TypeOK
    <3> HIDE DEF new
    <3> QED BY <2>1, <3>1, <3>2 DEF TypeOK
  <2>5. vms' \in [Hosts -> SUBSET VmIds] /\ faults' \in 0 .. MaxFaults
    BY <1>6, <2>1, FleetAssumption DEF HostDeletes, Fault, TypeOK
  <2> QED BY <1>6, <2>3, <2>4, <2>5 DEF HostDeletes, TypeOK
<1> QED BY <1>1, <1>2, <1>3, <1>4, <1>5, <1>6 DEF HostActs

(* The fleet's record, handlers, sync passes and requests in flight keep  *)
(* their types, and every record names its host, whatever goes wrong.     *)
THEOREM TypeCorrect == Spec => []TypeOK
<1>1. Init => TypeOK
  <2> SUFFICES ASSUME Init PROVE TypeOK
    OBVIOUS
  <2>1. NoRow \in Row /\ NoRow.state = "none" /\ NoRow.host = NoHost
    BY DEF NoRow, Row, States
  <2> QED BY <2>1, Idles, FleetAssumption DEF Init, TypeOK
<1>2. TypeOK /\ [Next]_vars => TypeOK'
  <2> SUFFICES ASSUME TypeOK, [Next]_vars PROVE TypeOK'
    OBVIOUS
  <2>1. CASE UNCHANGED vars
    BY <2>1 DEF vars, TypeOK
  <2>2. CASE Next
    BY <2>2, HandlerTypes, SyncTypes, WorldTypes DEF Next
  <2> QED BY <2>1, <2>2
<1> QED BY <1>1, <1>2, PTL DEF Spec

(* A step that adds no place, asks no further host and *)
(* leaves the create handler alone or ends it keeps it.                     *)
LEMMA Quiet ==
  ASSUME NEW v \in VmIds, OnePlaceOf(v), Places(v)' \subseteq Places(v), minted' = minted,
         create'[v] = create[v] \/ create'[v].pc = "none"
  PROVE  OnePlaceOf(v)'
BY DEF OnePlaceOf

(* No step but create's own asks a host to create. *)
LEMMA OthersKeep ==
  ASSUME TypeOK, OnePlace, vms' = vms, minted' = minted,
         \A q \in sent' : q.op = "create" => q \in sent,
         \A v \in VmIds : create'[v] = create[v] \/ create'[v].pc = "none"
  PROVE  OnePlace'
<1>1. ASSUME NEW v \in VmIds PROVE Places(v)' \subseteq Places(v)
  BY DEF Places
<1> QED BY <1>1, Quiet DEF OnePlace

LEMMA CreatePlaces ==
  ASSUME TypeOK, OnePlace, NEW v \in VmIds,
         \/ \E hosts \in SUBSET Hosts : Create(v, hosts)
         \/ \E h \in Hosts : TryHost(v, h)
         \/ NoCandidate(v) \/ CreateAnswered(v) \/ CreateUnanswered(v)
  PROVE  OnePlace'
<1>0. create \in [VmIds -> CreateTask] /\ OnePlaceOf(v)
  BY DEF TypeOK, OnePlace
<1>1. ASSUME NEW w \in VmIds \ {v}, create'[w] = create[w], Places(w)' = Places(w),
             w \in minted' <=> w \in minted
      PROVE  OnePlaceOf(w)'
  <2>1. OnePlaceOf(w)
    BY DEF OnePlace
  <2> QED BY <1>1, <2>1 DEF OnePlaceOf
<1>2. ASSUME NEW hosts \in SUBSET Hosts, Create(v, hosts) PROVE OnePlace'
  <2>1. \A w \in VmIds : Places(w)' = Places(w)
    BY <1>2 DEF Create, Places
  <2>2. create'[v].pc = "next" /\ \A w \in VmIds \ {v} : create'[w] = create[w]
    BY <1>0, <1>2 DEF Create
  <2>3. v \notin minted /\ minted' = minted \cup {v}
    BY <1>2 DEF Create
  <2>4. OnePlaceOf(v)'
    BY <1>0, <2>1, <2>2, <2>3 DEF OnePlaceOf
  <2> QED BY <1>1, <2>1, <2>2, <2>3, <2>4 DEF OnePlace
<1>3. ASSUME NEW h \in Hosts, TryHost(v, h) PROVE OnePlace'
  <2>1. \A w \in VmIds \ {v} : Places(w)' = Places(w) /\ create'[w] = create[w]
    BY <1>0, <1>3 DEF TryHost, Places, Ask
  <2>2. /\ create'[v].pc = "wait" /\ create'[v].host = h
        /\ create'[v].answer = Asked(h) /\ minted' = minted
    BY <1>0, <1>3 DEF TryHost
  <2>3. Places(v) = {} /\ v \in minted
    BY <1>0, <1>3 DEF TryHost, OnePlaceOf
  <2>4. Places(v)' = IF h \in up THEN {h} ELSE {}
    BY <1>3, <2>3 DEF TryHost, Places, Ask
  <2>5. h \in up => create'[v].answer = "none"
    BY <2>2 DEF Asked
  <2>6. OnePlaceOf(v)'
    BY <2>2, <2>3, <2>4, <2>5 DEF OnePlaceOf
  <2> QED BY <1>1, <2>1, <2>2, <2>6 DEF OnePlace
<1>4. ASSUME create' = [create EXCEPT ![v] = IdleCreate], UNCHANGED <<vms, sent, minted>>
      PROVE  OnePlace'
  <2>1. \A w \in VmIds : create'[w] = create[w] \/ create'[w].pc = "none"
    BY <1>0, <1>4, Idles
  <2> QED BY <1>4, <2>1, OthersKeep
<1>5. CASE NoCandidate(v) \/ CreateUnanswered(v)
  BY <1>4, <1>5 DEF NoCandidate, CreateUnanswered
<1>6. CASE CreateAnswered(v)
  <2>1. ASSUME create[v].pc = "wait", create[v].answer \in {"full", "unreachable"},
               create' = [create EXCEPT ![v].pc = "next"], UNCHANGED <<vms, sent, minted>>
        PROVE  OnePlace'
    <3>1. \A w \in VmIds : Places(w)' = Places(w)
      BY <2>1 DEF Places
    <3>2. create'[v].pc = "next" /\ \A w \in VmIds \ {v} : create'[w] = create[w]
      BY <1>0, <2>1 DEF CreateTask
    <3>3. OnePlaceOf(v)'
      BY <1>0, <2>1, <3>1, <3>2 DEF OnePlaceOf
    <3> QED BY <1>1, <2>1, <3>1, <3>2, <3>3 DEF OnePlace
  <2> QED BY <1>4, <1>6, <2>1 DEF CreateAnswered
<1> QED BY <1>2, <1>3, <1>5, <1>6

(* A host that takes a create makes its own place the VM's; one that refuses *)
(* leaves none.                                                              *)
LEMMA HostPlaces ==
  ASSUME TypeOK, OnePlace, HostActs
  PROVE  OnePlace'
<1>1. ASSUME NEW q \in sent, HostCreates(q) PROVE OnePlace'
  <2>0. q \in Request /\ q.op = "create" /\ q.vm \in VmIds /\ q.host \in Hosts
        /\ create \in [VmIds -> CreateTask] /\ vms \in [Hosts -> SUBSET VmIds]
    BY <1>1 DEF HostCreates, TypeOK, Request
  <2> DEFINE v == q.vm
             h == q.host
  <2>1. q = [op |-> "create", vm |-> v, host |-> h]
    BY <2>0 DEF Request
  <2>2. OnePlaceOf(v) /\ h \in Places(v)
    BY <2>0, <2>1 DEF Places, OnePlace
  <2>3. \A g \in Places(v) : g = h
    BY <2>2 DEF OnePlaceOf
  <2>4. PICK answer \in IF v \in vms[h] THEN {"exists"} ELSE {"ok", "full", "bad"} :
          /\ vms' = IF answer = "ok" THEN [vms EXCEPT ![h] = @ \cup {v}] ELSE vms
          /\ create' = IF create[v].pc = "wait" /\ create[v].host = h
                       THEN [create EXCEPT ![v].answer = answer] ELSE create
    BY <1>1 DEF HostCreates
  <2>5. sent' = sent \ {q} /\ minted' = minted
    BY <1>1 DEF HostCreates
  <2>6. \A w \in VmIds \ {v} : Places(w)' = Places(w) /\ create'[w] = create[w]
    BY <2>0, <2>4, <2>5 DEF Places
  <2>7. Places(v)' \subseteq {h}
    BY <2>0, <2>3, <2>4, <2>5 DEF Places
  <2>8. answer \in {"full", "bad"} => Places(v)' = {}
    BY <2>1, <2>3, <2>4, <2>5, <2>7 DEF Places
  <2>9. v \in minted /\ create[v].pc # "next" /\ (create[v].pc = "wait" => create[v].host = h)
    BY <2>2 DEF OnePlaceOf
  <2>10. /\ create'[v].pc = create[v].pc /\ create'[v].host = create[v].host
         /\ create[v].pc = "wait" => create'[v].answer = answer
    BY <2>0, <2>4, <2>9 DEF CreateTask
  <2>11. OnePlaceOf(v)'
    BY <2>4, <2>5, <2>7, <2>8, <2>9, <2>10 DEF OnePlaceOf
  <2>12. ASSUME NEW w \in VmIds \ {v} PROVE OnePlaceOf(w)'
    BY <2>5, <2>6 DEF OnePlaceOf, OnePlace
  <2> QED BY <2>11, <2>12 DEF OnePlace
<1>2. ASSUME NEW q \in sent, HostDeletes(q) PROVE OnePlace'
  <2>1. \A h \in Hosts : vms'[h] \subseteq vms[h]
    BY <1>2 DEF HostDeletes, TypeOK
  <2>2. sent' \subseteq sent /\ UNCHANGED <<create, minted>>
    BY <1>2 DEF HostDeletes
  <2>3. ASSUME NEW v \in VmIds PROVE Places(v)' \subseteq Places(v)
    BY <2>1, <2>2 DEF Places
  <2> QED BY <2>2, <2>3, Quiet DEF OnePlace
<1> QED BY <1>1, <1>2 DEF HostActs

(* Whatever is refused, lost, late or dropped, and across restarts, at most *)
(* one host has a VM or may still make it.                                  *)
THEOREM OnePlaceInvariant == Spec => []OnePlace
<1>1. Init => OnePlace
  <2> SUFFICES ASSUME Init PROVE OnePlace
    OBVIOUS
  <2>1. ASSUME NEW v \in VmIds PROVE Places(v) = {}
    BY DEF Init, Places
  <2>2. \A v \in VmIds : create[v].pc = "none"
    BY Idles DEF Init
  <2> QED BY <2>1, <2>2 DEF OnePlace, OnePlaceOf
<1>2. TypeOK /\ OnePlace /\ [Next]_vars => OnePlace'
  <2> SUFFICES ASSUME TypeOK, OnePlace, [Next]_vars PROVE OnePlace'
    OBVIOUS
  <2>1. ASSUME NEW v \in VmIds,
               \/ Delete(v) \/ DeleteAnswered(v) \/ DeleteUnanswered(v) \/ Age(v)
        PROVE  OnePlace'
    <3>1. UNCHANGED <<vms, minted, create>>
      BY <2>1 DEF Delete, DeleteAnswered, DeleteUnanswered, Age
    <3>2. \A q \in sent' : q.op = "create" => q \in sent
      BY <2>1 DEF Delete, DeleteAnswered, DeleteUnanswered, Age, Ask
    <3> QED BY <3>1, <3>2, OthersKeep
  <2>2. ASSUME NEW v \in VmIds, Drop(v) PROVE OnePlace'
    <3>1. UNCHANGED <<vms, minted, sent>>
          /\ \A w \in VmIds : create'[w] = create[w] \/ create'[w].pc = "none"
      BY <2>2, Idles DEF Drop, TypeOK
    <3> QED BY <3>1, OthersKeep
  <2>3. ASSUME NEW h \in Hosts, SyncStep(h) \/ HostDown(h) \/ HostUp(h) PROVE OnePlace'
    <3>1. UNCHANGED <<vms, minted, create>>
      BY <2>3 DEF SyncStep, SyncList, SyncRows, SyncVm, SyncRetried, HostDown, HostUp
    <3>2. sent' = sent \/ \E v \in VmIds : Ask("retry", v, h)
      BY <2>3 DEF SyncStep, SyncList, SyncRows, SyncVm, SyncRetried, HostDown, HostUp
    <3>3. \A q \in sent' : q.op = "create" => q \in sent
      BY <3>2 DEF Ask
    <3> QED BY <3>1, <3>3, OthersKeep
  <2>4. ASSUME NEW h \in Hosts, NEW v \in VmIds, VmGone(h, v) PROVE OnePlace'
    <3>1. \A g \in Hosts : vms'[g] \subseteq vms[g]
      BY <2>4 DEF VmGone, TypeOK
    <3>2. UNCHANGED <<sent, create, minted>>
      BY <2>4 DEF VmGone
    <3>3. ASSUME NEW w \in VmIds PROVE Places(w)' \subseteq Places(w)
      BY <3>1, <3>2 DEF Places
    <3> QED BY <3>2, <3>3, Quiet DEF OnePlace
  <2>5. ASSUME NEW hosts \in SUBSET Hosts, Restart(hosts) PROVE OnePlace'
    <3>1. UNCHANGED <<vms, minted, sent>> /\ \A w \in VmIds : create'[w].pc = "none"
      BY <2>5, Idles DEF Restart
    <3> QED BY <3>1, OthersKeep
  <2>6. CASE SyncRound \/ UNCHANGED vars
    BY <2>6, OthersKeep DEF SyncRound, vars
  <2> QED BY <2>1, <2>2, <2>3, <2>4, <2>5, <2>6, CreatePlaces, HostPlaces DEF Next, Handle
<1> QED BY <1>1, <1>2, TypeCorrect, PTL DEF Spec

(* A VM is never on two hosts: "never a second VM", for any number of hosts *)
(* and however often calls fail.                                            *)
THEOREM NeverASecondVm == Spec => []OneHost
<1>1. OnePlace => OneHost
  BY DEF OnePlace, OnePlaceOf, OneHost, Places
<1> QED BY <1>1, OnePlaceInvariant, PTL
=============================================================================
