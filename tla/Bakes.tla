-------------------------------- MODULE Bakes --------------------------------
(* Template builds: the daemon's build jobs (iso-controld/src/build.rs), the   *)
(* bake they run as a child process (iso-cli/src/main.rs), the VMs cloned from *)
(* the template meanwhile, and isoctl following a build over the fleet         *)
(* (iso-fleet/src/api.rs, iso-cli/src/template.rs).                            *)
(*                                                                             *)
(* A bake is a number.  A template's root volume, memory file and VM state     *)
(* file hold the number of the bake that last wrote them, 0 before any.  The   *)
(* memory file is shared: a clone resumes from a link to it and reads its      *)
(* pages as it runs.  The bake is in the daemon's control group and dies with  *)
(* it; its templates do not.                                                   *)
EXTENDS Naturals, Sequences

CONSTANTS
  None,
  Hosts, Names,
  MaxBakes,    \* bakes of all hosts together
  MaxCrashes   \* daemon restarts together

VARIABLES
  row,      \* host, name -> the bake the registered template is of, 0 if none
  job,      \* host, name -> its build's state, "none" if this daemon has none
  queue,    \* host -> the builds waiting for the lane or in it, oldest first
  step,     \* host -> how far the bake in the lane is
  id,       \* host -> its number
  disk, mem, vmstate,   \* host, name -> who wrote the file
  clone,    \* host -> the create in progress
  live,     \* host -> the clones running there
  cli,      \* isoctl template build --wait: where it is
  seen,     \* host -> what it answered in this round of the poll
  redone,   \* history: host, name -> the last registered bake to be baked over
  bakes, crashes

files == <<disk, mem, vmstate>>
builds == <<row, job, queue, step, id, files, redone, bakes>>
clones == <<clone, live>>
poll == <<cli, seen>>
vars == <<builds, clones, poll, crashes>>

Zero == [h \in Hosts |-> [n \in Names |-> 0]]
Init ==
  /\ row = Zero /\ disk = Zero /\ mem = Zero /\ vmstate = Zero /\ redone = Zero
  /\ job = [h \in Hosts |-> [n \in Names |-> "none"]]
  /\ queue = [h \in Hosts |-> <<>>]
  /\ step = [h \in Hosts |-> "idle"]
  /\ id = [h \in Hosts |-> 0]
  /\ clone = [h \in Hosts |-> None]
  /\ live = [h \in Hosts |-> {}]
  /\ cli = [name |-> None, state |-> "idle"]
  /\ seen = [h \in Hosts |-> None]
  /\ bakes = 0 /\ crashes = 0
--------------------------------------------------------------------------------
(* Builds::start, under the lock of the jobs. *)

\* One build of a name at a time.
RefusesNone(h, n) == FALSE
Refuses(h, n) == job[h][n] = "building"

\* The template is registered already; a store that cannot be read says no.
ExistsNever(h, n, readable) == FALSE
Exists(h, n, readable) == readable /\ row[h][n] # 0

\* What the request leaves of host h's jobs and queue.
Started(h, n, force, readable) ==
  IF Exists(h, n, readable) /\ ~force
  THEN job' = [job EXCEPT ![h][n] = "ready"] /\ UNCHANGED <<queue, redone, bakes>>
  ELSE /\ bakes < MaxBakes
       /\ bakes' = bakes + 1
       /\ job' = [job EXCEPT ![h][n] = "building"]
       /\ queue' = [queue EXCEPT ![h] = Append(@, n)]
       /\ redone' = IF force \/ ~readable THEN [redone EXCEPT ![h][n] = row[h][n]] ELSE redone

Start(h, n, force, readable) ==
  /\ ~Refuses(h, n)
  /\ Started(h, n, force, readable)
  /\ UNCHANGED <<row, step, id, files, clones, poll, crashes>>

--------------------------------------------------------------------------------
(* The task of a build: it waits for the lane, runs the bake, registers. *)

Baking(h) == Head(queue[h])

\* The lane goes to the oldest; the bake starts.
Lane(h) ==
  /\ step[h] = "idle" /\ queue[h] # <<>>
  /\ step' = [step EXCEPT ![h] = "install"]
  /\ \E i \in 1 .. MaxBakes :
       /\ i = 1 \/ \E m \in Names : disk[h][m] = i - 1
       /\ \A m \in Names : disk[h][m] < i
       /\ id' = [id EXCEPT ![h] = i]
  /\ UNCHANGED <<row, job, queue, files, redone, bakes, clones, poll, crashes>>

\* The bake goes from one step to the next, with these files written.
Advance(h, from, to) ==
  /\ step[h] = from
  /\ step' = [step EXCEPT ![h] = to]
  /\ UNCHANGED <<row, job, queue, id, redone, bakes, clones, poll, crashes>>
Wrote(h, f) == [f EXCEPT ![h][Baking(h)] = id[h]]

\* The volume is made if it is not there, then formatted and filled.
Install(h) ==
  /\ Advance(h, "install", "boot")
  /\ disk' = Wrote(h, disk)
  /\ UNCHANGED <<mem, vmstate>>

\* The builder boots from it, is provisioned, and is suspended.
BootBuilder(h) ==
  /\ Advance(h, "boot", "mem")
  /\ UNCHANGED files

\* Its two snapshot files are copied over the template's.
CopyMem(h) ==
  /\ Advance(h, "mem", "vmstate")
  /\ mem' = Wrote(h, mem)
  /\ UNCHANGED <<disk, vmstate>>
CopyVmstate(h) ==
  /\ Advance(h, "vmstate", "register")
  /\ vmstate' = Wrote(h, vmstate)
  /\ UNCHANGED <<disk, mem>>

\* What a build's job says in the end.
OutcomeReady(ok) == "ready"
Outcome(ok) == IF ok THEN "ready" ELSE "failed"

\* The task is done: the bake exited badly at any step, or the registration
\* was read back and stored (or not).
Finish(h, ok) ==
  LET n == Baking(h) IN
  /\ step[h] # "idle" /\ (ok => step[h] = "register")
  /\ row' = IF ok THEN [row EXCEPT ![h][n] = id[h]] ELSE row
  /\ job' = [job EXCEPT ![h][n] = Outcome(ok)]
  /\ queue' = [queue EXCEPT ![h] = Tail(@)]
  /\ step' = [step EXCEPT ![h] = "idle"]
  /\ UNCHANGED <<id, files, redone, bakes, clones, poll, crashes>>

\* The daemon restarts.  Its jobs, and the bake, are gone.
Restart(h) ==
  /\ crashes < MaxCrashes
  /\ crashes' = crashes + 1
  /\ job' = [job EXCEPT ![h] = [n \in Names |-> "none"]]
  /\ queue' = [queue EXCEPT ![h] = <<>>]
  /\ step' = [step EXCEPT ![h] = "idle"]
  /\ clone' = [clone EXCEPT ![h] = None]
  /\ UNCHANGED <<row, id, files, redone, bakes, live, poll>>

--------------------------------------------------------------------------------
(* A create from the template: its row is read, then its volume is cloned, *)
(* then the VM resumes from the two files.                                 *)

Template(h, n) ==
  /\ clone[h] = None /\ row[h][n] # 0
  /\ clone' = [clone EXCEPT ![h] = [name |-> n, row |-> row[h][n], disk |-> 0]]
  /\ UNCHANGED <<builds, live, poll, crashes>>

Provision(h) ==
  /\ clone[h] # None /\ clone[h].disk = 0
  /\ clone' = [clone EXCEPT ![h] = [name |-> @.name, row |-> @.row, disk |-> disk[h][@.name]]]
  /\ UNCHANGED <<builds, live, poll, crashes>>

Resume(h) ==
  /\ clone[h] # None /\ clone[h].disk # 0
  /\ live' = [live EXCEPT ![h] = @ \cup
        {[name |-> clone[h].name, row |-> clone[h].row, disk |-> clone[h].disk,
          vmstate |-> vmstate[h][clone[h].name]]}]
  /\ clone' = [clone EXCEPT ![h] = None]
  /\ UNCHANGED <<builds, poll, crashes>>

--------------------------------------------------------------------------------
(* isoctl template wait, by way of the fleet's get_build. *)

Wait(n) ==
  /\ cli.state = "idle"
  /\ cli' = [name |-> n, state |-> "polling"]
  /\ UNCHANGED <<builds, clones, seen, crashes>>

\* A host answers with the build it has of that name, with 404, or not at all.
Ask(h) ==
  /\ cli.state = "polling" /\ seen[h] = None
  /\ \E a \in {job[h][cli.name], "unknown"} : seen' = [seen EXCEPT ![h] = a]
  /\ UNCHANGED <<builds, clones, cli, crashes>>

\* The state for the whole, of the hosts that know the build.
Whole ==
  LET known == {h \in Hosts : seen[h] # "none"} IN
  CASE known = {} -> "none"
    [] \E h \in known : seen[h] = "failed" -> "failed"
    [] \E h \in known : seen[h] \in {"building", "unknown"} -> "building"
    [] OTHER -> "ready"

\* A 404 and a build under way are asked about again; the deadline may pass.
Poll ==
  /\ cli.state = "polling" /\ \A h \in Hosts : seen[h] # None
  /\ \/ /\ Whole = "ready" /\ cli' = [name |-> cli.name, state |-> "ok"] /\ UNCHANGED seen
     \/ /\ Whole # "ready" /\ cli' = [name |-> cli.name, state |-> "err"] /\ UNCHANGED seen
     \/ /\ Whole \in {"none", "building"} /\ UNCHANGED cli
        /\ seen' = [h \in Hosts |-> None]
  /\ UNCHANGED <<builds, clones, crashes>>

Next ==
  \/ \E h \in Hosts, n \in Names :
       \/ \E force, readable \in BOOLEAN : Start(h, n, force, readable)
       \/ Template(h, n)
  \/ \E h \in Hosts :
       \/ Lane(h) \/ Install(h) \/ BootBuilder(h) \/ CopyMem(h) \/ CopyVmstate(h)
       \/ Restart(h) \/ Provision(h) \/ Resume(h) \/ Ask(h)
       \/ \E ok \in BOOLEAN : Finish(h, ok)
  \/ \E n \in Names : Wait(n)
  \/ Poll

Spec == Init /\ [][Next]_vars
--------------------------------------------------------------------------------
\* A clone runs on the root volume, the memory and the VM state of one bake, the
\* one registered when its create began: the memory holds the volume's cached
\* pages, and is read as the clone runs (iso-cli main.rs bake_inner; jail.rs: the
\* template's snapshot is read-only by contract).  Only a build that was forced,
\* or asked for while the store could not be read, takes the template from under
\* the clones of the bake it replaces; a build that was not never does.
CloneWhole ==
  \A h \in Hosts : \A c \in live[h] :
    c.row > redone[h][c.name] =>
      c.disk = c.row /\ c.vmstate = c.row /\ mem[h][c.name] = c.row

\* A build is "building" as long as one task is there for it, and no longer: a
\* name never has two (build.rs start, and the restart that loses both).
OneTaskPerBuild ==
  \A h \in Hosts, n \in Names :
    LET tasks == {i \in DOMAIN queue[h] : queue[h][i] = n}
    IN IF job[h][n] = "building" THEN \E i \in DOMAIN queue[h] : tasks = {i}
       ELSE tasks = {}

\* When isoctl's wait ends well, some host was ready, and every host that said
\* so has the template to create from (template.rs wait_for, api.rs get_build,
\* build.rs run).
ReadyIsUsable ==
  cli.state = "ok" =>
    /\ \E h \in Hosts : seen[h] = "ready"
    /\ \A h \in Hosts : seen[h] = "ready" => row[h][cli.name] # 0
=============================================================================
