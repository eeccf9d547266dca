# iso in TLA+

A model of iso: the host daemon (`iso-controld`) and what it drives, the fleet
service in front of many hosts (`iso-fleetd`), the egress proxy, and the master
that runs agent sessions (`iso-master`). TLC checks it on small instances; the
safety properties, but for a few, are proved with TLAPS for every instance.

Paths below are relative to the repository's `crates/`.

## 1. The system and its modules

iso runs Firecracker microVMs for agents. One host runs one daemon; a fleet
places VMs on many hosts; a master runs agent sessions in them.

| Part | State it owns | Module |
| --- | --- | --- |
| Control plane (`iso-control-plane/src/control.rs`, `store.rs`) | the records, slot and port allocators, one lock per VM | `ControlPlane`, `VmLocks` |
| Slot and port allocators (`slot.rs`, `port.rs`) | bitmap and rotating cursor | `Rotation` (operators), `SlotAllocator` |
| What the others may assume of a slot | | `SlotLease` (abstract) |
| Firecracker runtime (`iso-firecracker`) | VMM processes, pid files, sockets, jails, snapshots | `Runtime`, `JailCache`, `JailSettings` |
| Network manager (`iso-network-manager`) | per slot: netns, veth, tap, nft tables, conntrack | `SlotNet` |
| DNS server, gate and memory (`iso-dns-server`, `iso-controld`) | answers and reach by slot address | `SlotMemory` |
| Policy language (`iso-policy`, proxy `policy.rs`, `identify.rs`) | none: text to decisions | `PolicyRules` |
| Policy signatures (`signed.rs`, fleet `api.rs`, `sync.rs`) | generation, signature, steering | `SignedPolicies` |
| Egress proxy (`iso-proxy`) | live connections, resolver cache; tunnel pools; leaves | `Egress`, `TierPool`, `LeafCache` |
| Secrets (`iso-secrets`) | the file as last read | `SecretsFile` |
| CAs and keys (`iso-ca`, `iso-admin-pki`, `tls.rs`) | key and certificate files | `KeyFiles` |
| Template builds (`build.rs`, `isoctl bake`) | jobs, the build lane, template files | `Bakes` |
| Daemon API and generated client (`http.rs`, `iso-client`, `isoctl vm`) | none: the contract | `ApiTypes`, `DaemonTypes`, `ApiContract` |
| Fleet (`iso-fleet`) | one record per VM: its host and `fleet_state` | `Fleet` |
| Master (`iso-master`) | sessions, mailboxes, workers, swarms | `Sessions` |

`MC*` modules give TLC its constants. Most runs are of one component.
`MCHost` puts three settings of the control plane side by side; `MCParts` and
`MCNetwork` each put several small components side by side: a variable `part`,
chosen at the start, says which one a behaviour is about, and the small ones
are instances over shared registers. A state of such a run is a state of one
component, so nothing of one hides or helps another. Theorems are in `*Proofs`.

What makes the system hard, and so what the models keep:

- A VM is known to the network, the proxy, DNS and metadata only by its
  **slot**: the addresses of a slot are the identity of the VM in it. A slot
  that passes on too early gives the next VM somebody else's policy.
- An operation is a sequence of calls to components, each of which can fail;
  each await is a point where the daemon can die, or the client's request, and
  the handler with it, be dropped.
- The supervisor, identify, the DNS gate and the fleet read without the lock
  and act later on what they read.
- A restarted daemon rebuilds everything from records written ahead of what
  they describe, while the VMMs kept running.
- A call between services can be refused, lose its reply, or be acted on after
  the caller gave up; no lock is held across it.

## 2. How the modules follow the code

A step is what the code does between two points where something else may come
in: a call to a component, a store transaction, a pass under a mutex, a system
call where files or the kernel are the subject. Handlers keep a program counter
and their locals; data is a small set. `PROJECT.json` maps each definition to
its lines.

**ControlPlane.** Every operation holds the VM's async lock for its whole
length, so a VM has at most one under way: `task[v]`, with `job`, `pc` and the
handler's locals. `vms`, `forwards`, `savedCursor` are the tables; `used`,
`cursor`, `portUsed`, `portCursor` the allocators; `vmm[v]` the process and the
slot whose network it is in; `net[s]` whom a slot's network is set up for and
the ports steered into it; `vol`, `snapFile` what is on disk; `phase`, `todo`
the daemon's start; `suspect` what the supervisor saw. An API call takes the
lock and reads the record; the actions under `Step` carry it on, one component
call each (`Provision`, `ApplyNetwork`, `CreateVmm`, `StartVmm`, `SaveRunning`
are `bring_up`; the ways down share actions and differ in order, as in the
code). `Faults` says which calls may fail. `Cancel` drops a handler where the
code awaits. `Crash` forgets what was in memory, and on one branch the VMMs and
networks, as a host reboot does.

**VmLocks.** `ControlPlane` gives a VM one lock for ever. The code has a map:
`vm_lock` looks up or makes an entry, `forget_lock` takes it out with the
record, and whoever waited keeps the lock it was given. `OneActor` says that
two operations still never act on a VM at once. It rests on two facts the
module makes constants: an id is created once (`Comes` is FALSE), and the
record is gone when its lock is (`StoreFails` is FALSE). See section 6.

**Runtime.** What `ControlPlane` calls `vmm[v]` as the code does it: spawn, pid
file, pidfd, socket, children map, jail directory, snapshot pair. Calls on a VM
come one at a time, in an order its record allows; `status` comes any time.
The kernel gives a free pid to anyone and has pidfds or has not (`pidfds`), and
the next daemon may have the jailer setting the other way round. A call ends
with the control plane's save of the record, which may fail (`Save`,
`SaveFails`): `kept` says whether the record names a snapshot of the VM's own,
`dropped` that its removal was asked for and is not on record yet. The content
of a snapshot file is the number of the suspend that wrote it.

**SlotNet.** A call of the manager is the sequence of kernel calls still to be
made, any of which may fail. The plan's rules are data, evaluated for a flow
from the VM; `Contained` asks what a packet could do at every moment.

**SlotMemory, Egress.** Both follow one address that VMs hold one after the
other, as `SlotLease` allows: queries and connections take several steps, and
the VM may have changed at each. In `Egress` nothing keeps the address from
being used again at once; each answer carries the `turn` it was asked for in,
the number of the VM last placed there.

**PolicyRules, JailSettings, ApiTypes, DaemonTypes.** Pure functions over small
sets of inputs, against references: glob matching by a declarative definition,
the proxy's decision by the record's rules, DNS reach by what the proxy would
admit, identities by their being distinct.

**ApiContract.** A caller fills in a builder (by hand or through `isoctl`'s
flags); the client validates, sends, may time out and send again; axum's
extractors and the handler answer; the client sorts the answer by its table.
Both sides' types are translated from their own source, the client's from
`generated.rs`, so a disagreement between the two is a violation. What a
handler did is recorded with the fields it went by (`Reads`), which leave out
what it takes and drops (`Ignores`).

**SignedPolicies.** Two clients, changes on the host behind the fleet, the sync
loop's renewals and time, over one VM's record.

**Fleet.** `row[v]` is the record, `vms[h]` what a host has. `create`,
`delete` and `sync` are handlers with what they have read so far. A call puts a
request into `sent`; the host takes it out when it acts, at any time, and
answers whoever still waits. `Settled` is the table of `sync_host`.

**Sessions.** Each handler under its session's lock, one await per step; the
workers' reader, the one-second timer, `auto_recover` and the closer of a
hierarchy beside it. `flight` holds plane requests whose caller gave up and
which may still land, at any time, also after an operator's retry: `raced` are
the sessions retried while an earlier create was still on its way.

**KeyFiles, JailCache, Bakes, SecretsFile, LeafCache, TierPool.** Files are
written by the system calls the code makes, and a process may die between any
two; caches are read and filled under the locks the code takes, not longer.
Where the code lets two of them meet, the history is kept and the property
excepts exactly it: `JailCache!shared`, files opened under a temporary name that
another call of the same process was copying to; `Bakes!redone`, the registered
bakes that were baked over by force or by a daemon whose store could not be
read; `KeyFiles!taken`, set when names are taken back over a server pair that
does not match.

**SlotLease** is the promise the proxy, DNS and metadata rely on when they take
an address for a VM: a slot is leased to one VM at a time, only the lessee's
guest runs in it, and it passes on only when that guest is gone.
`ControlPlane` implements it with `holder` the record that has the slot and
`guests` the live VMMs in its network.

## 3. Runs

| Run | Instance | Shows |
| --- | --- | --- |
| `Host` | 2 VMs (a durable one; an ephemeral one that restarts and has its own machine shape), 2 slots, 1 port. Every lifecycle call with failing boots; or forwards added, removed and released; or dropped requests and two crashes or reboots, recovery included | slots and ports never leaked, guests identified as themselves, nothing on the host off the record, no port steered twice, the supervisor acts only on dead VMMs |
| `Faults` | 1 VM, 1 slot, 1 port, every call, every fault, dropped requests, two crashes | the inductive invariant and the durable disk in every combination of faults |
| `Supervise` | 2 VMs, fair, a crash, the supervisor at work | an exit is dealt with, no record stays creating, `LeasesSlots` |
| `Runtime` | 1 VM, 2 pids; 3 processes, or 2 and a suspend, or 1 and 2 suspends; a crash; with pidfds and without | no signal hits a stranger, a recorded VMM is found again, there is one, status is true, a snapshot on record is there |
| `Fleet` | 1 VM, 2 hosts, 1 fault, fair | never two copies; the records converge |
| `Sessions` | a planner and its child, 4 events together (5 with one session), fair | prompts at most once and never into a busy guest, VMs accounted for unless a retry raced a create, no orphan, cap and tokens kept, mail moves |
| `Egress` | 2 connections of one VM, or one on an address two VMs hold in turn; 2 generations | another VM's policy is met only by answers older than the VM, and these run out; a connection of a replaced generation is closed |
| `Parts` | API contract (2 tries, another client once), 5 slots, lock map (3 operations), jail files (2 threads of the daemon and a bake) and identities, builds on 2 hosts, forced or not, key files, signed policies | see 3.1 |
| `Network` | 2 slots of which one call is in progress, DNS, policy rules, 2 replicas with pools of 2, leaves, secrets file | see 3.1 |
| `DeleteLost`, `StaleResume`, `LockLost` | | findings, section 6 |

### 3.1 The properties

A property of a run is often the conjunction of what a component promises; each
conjunct has a definition of its own, and a mutated form of the code's model,
kept beside the original, that TLC finds it violated by.

| Component | Properties |
| --- | --- |
| Control plane | `GuestIdentified`; `NoLeak` = `NoSlotLeak`, `NoPortLeak`; `OnRecord` = `NetOfHolder`, `RecordCovers`; `ReapsOnlyExited`; `ForwardsExclusive`; `Placement`; `DiskKept`; `RecordsSettle` = `ExitHandled`, `CreatingResolved`; `LeasesSlots` |
| Runtime | `NoStrangerStruck`; `VmmKnown` = a recorded VMM is found again (`Findable`) and is the only one (`OneVmm`); `SnapshotKept`; `StatusTrue` |
| Fleet | `OnePlace`, `Converges` |
| Sessions | `AtMostOnce`; `OneTurn`; `VmAccounted`; `NoOrphanChild`; `WorkersKept` = `AgentLimit`, `TokenRevoked`; `PhasesKept` = `PhasesLegal`, `ClosingIsFinal`; `MailMoves` |
| Egress | `OwnPolicy`: once no answer from before the VM is left, its connections are admitted by its own policy; `StaleClosed` = a connection whose generation is not the holder's is closed (`OutdatedClosed`), and the answers from before run out (`WindowEnds`) |
| API contract | `AnswersTrue` = an answer the client calls success was done, with all that was given but what is named there (`DoneWhenOk`), a repeated create with an id makes one VM (`CreatedOnce`), an unknown egress opens nothing (`FailsClosed`); `ClientFits` = both sides' types fit (`ContractHolds`), `isoctl` fills in what it must (`IsoctlComplete`) |
| Slot allocator, lock map | `OncePerRound`; `OneActor` |
| Jails | a jail's file is whole, unless in `shared` (`LinksWhole`); `JailsApart` = no two slots share a uid (`IdentityPerSlot`), what is derived is just the limits the host offers and the operator left alone (`SettingsDerived`) |
| Builds | `BuildsWhole` = a clone is of one bake, unless baked over (`CloneWhole`), one task per build, ready is usable |
| Keys | `KeysKept` = pairs match and no start is stranded, unless `taken`; a pinned root stays |
| Signed policies | `PolicyStands` = `SignatureDescribes`, `TierEnforces`, `Steered`, `NeverLapses` |
| Slot network | no packet gets past the plan at any moment (`Contained`); `StartsClean` = a slot starts without its last VM's flows (`NextStartsClean`), an Ok apply left all of the plan (`Converged`) |
| DNS | `DnsOfHolder` = no name resolves by a predecessor's policy, memory is bounded |
| Policy rules | `RulesAgree` = identify's text parses back to the record, the phases of a request agree, DNS reach covers what the proxy admits, globs match by definition, an upstream is one that was granted |
| Tunnels, leaves, secrets | `TunnelsFair` = `PoolBounded`, `AllTried`; `LeafOutlives`; `NoEditLost` |

### 3.2 Bounds

*Slots and VMs*: two VMs and two slots are the fewest at which both can be up
and the rotation can put one into the other's old slot; every property relates
at most two VMs. One port and two forwards: a create can allocate one and fail
on the second, and two VMs want the same one. Two crashes: the first leaves records to recover, the second
comes in the middle of recovering them. `Host` splits the calls into settings
because their product is too large, and leaves the supervisor out of the one
with crashes; `Faults` has every call, fault and crash with the supervisor for
one VM, and `Supervise` has a crash with the supervisor for two. *Runtime*: two pids, so that one can be reused
while another is in use; three births, so that a stranger or a second VMM can
come into the place of a first; two with a snapshot and a crash of the daemon,
so that a VMM is resumed by another daemon than suspended it, and a pid the
pidfile names changes hands; two suspends, so that one is taken over another on
record. *Fleet*: one VM, since records do not interact;
two hosts, since a create goes to a next host only after the last; one fault,
since each kind of disagreement needs one, and a host that was left out of the
configuration comes back into it without another. *Sessions*: a hierarchy of two is
the smallest that can be closed; four events fit a message, a crash, a failed
call and a close; two allocations are a lost one and its retry. *Egress, DNS*:
two VMs on one address are a predecessor and a successor; two generations are
before and after. *SignedPolicies*: two clients race, three generations let
both win once, time runs past one lifetime. *TierPool*: two replicas with pools
of two let both guests find the last place. *JailCache*: two threads share a
temporary name and a third process does not; three inodes are one for each
name in the cache directory. *Bakes*: two bakes, the second over the first. *KeyFiles*:
two names, so that one can be taken back and another asked for. *LeafCache*:
lifetimes below and above the margin. Most safety properties are also proved with no bound at all
(section 5), so for them the bounds only matter to what TLC covers.

Symmetry is used for the pids of `Runtime`, which nothing but their process
tells apart. Elsewhere it is not: the VMs of `ControlPlane` differ, and liveness
is checked in most of the other runs.

Deadlock is checked in `Host`, `Supervise` and `Fleet`. The others may really
stop. In `Faults` a store that fails at the wrong moments leaks every slot; the
rest end where their bounds on calls, processes or time do.

## 4. Fairness

`ControlPlane!Fairness`: weak fairness on each handler's steps (tokio polls a
ready task), on boot, recovery and serving (systemd restarts the daemon, and
`main` goes on), strong fairness on `Probe` and `Reap`: `supervise` visits
every running record each tick for ever, and tokio's mutex is first come first
served, so a `reap` waiting for a VM's lock gets it although clients keep
calling. Nothing is assumed of clients or guests.

`Fleet!Fairness`: handlers and sync passes go on, rounds come round (`run`'s
loop), a host acts on what reached it, time passes (`Age`), and a host that
went away comes back. The last is an assumption about the world, not the code:
without it a record rightly stays `unreachable`. Faults are bounded, so
`Converges` says what happens once they stop.

`Sessions!Fairness`: a handler that holds a lock always ends, since every call
it waits for has a timeout; `auto_recover` and a close go on; and the timer,
which polls each second, gets to a session's mailbox if it can again and again
(strong, since the lock may be taken in between). The operator, the workers,
the sweeps and the faults owe nothing.

`Egress!Fairness`: tokio runs every task that can go on (an identify call in
progress, the watcher's round), and cache entries expire. Nothing makes a guest
end a connection or a VM leave.

## 5. What is proved

Theorems hold for every value of the constants, under the assumptions named in
the modules (sentinels outside their sets, bounds natural numbers, at least one
slot) or in the theorem. They are about the definitions the runs check:
`MCParts` and `MCNetwork` are extended as they are, so a theorem about one of
their small components is about the instance TLC explores, with its constants
left open.

| Module | Specification | Theorems |
| --- | --- | --- |
| `PlacementProofs` | `ControlPlane` | `TypeCorrect`, `PlacementInvariant`, `SlotsExclusive`, `GuestsIdentified`, `LeasesSlotsHolds`, `ControlInvariant`, `ReapsOnlyExitedHolds`, `DiskKeptHolds`, `OnRecordHolds`, `NoSlotLeakHolds` |
| `PortProofs` | `ControlPlane` | `NoLeakHolds`, `ForwardsExclusiveHolds` |
| `RuntimeProofs` | `Runtime` | `RuntimeInvariant`, `NoStrangerStruckHolds`, `VmmKnownHolds`, `SnapshotKeptHolds`, `StatusTrueHolds` |
| `FleetProofs` | `Fleet` | `TypeCorrect`, `OnePlaceInvariant`, `NeverASecondVm` |
| `SessionsProofs` | `Sessions` | `SessionsInvariant`, `AtMostOnceHolds`, `OneTurnHolds`, `VmAccountedHolds`, `NoOrphanChildHolds`, `WorkersKeptHolds`, `PhasesKeptHolds` |
| `EgressProofs` | `Egress` | `OwnPolicyHolds` |
| `PartsProofs` | `MCParts` | `OncePerRoundHolds`, `PolicyStandsHolds`, `NotBlessedHolds`, `LinksWholeHolds`, `BuildsWholeHolds`, `OneActorHolds`, `JailsApartHolds` |
| `NetworkProofs` | `MCNetwork` | `ContainedHolds`, `StartsCleanHolds`, `DnsOfHolderHolds`, `TunnelsFairHolds`, `LeafOutlivesHolds`, `NoEditLostHolds` |

Some theorems have a hypothesis beyond those. Each marks the edge of what the
code keeps:

| Theorem | Hypothesis | Why |
| --- | --- | --- |
| `OnRecordHolds` | no fault of `netdown`, `voldown` | a teardown whose error is dropped leaves its object behind |
| `NoSlotLeakHolds` | no fault of `store` | a handler that cannot save keeps the slot |
| `NoLeakHolds` | no fault of `store`, `apply`; no request dropped | a forward cut short between its port and its row loses the port |
| `ForwardsExclusiveHolds` | no fault of `store`, `apply`, `netdown`; with forwards, no crash and no request dropped | section 6 |
| `OneActorHolds` | `Comes` and `StoreFails` are FALSE | section 2, `VmLocks`; section 6 |
| `JailsApartHolds` | the default base leaves room for all slots | it does by far, with 32 bits |
| `NoEditLostHolds` | no save falls into the first load | section 6 |
| `LeafOutlivesHolds` | leaves live at least one tick | a lifetime of nothing is expired when signed |

### 5.1 The arguments

An invariant is seldom inductive as it stands. What had to be added, and why:

**Slots.** `SlotExclusive` is not inductive: a slot can be in a handler's
hands and on no record. `Placement` therefore speaks of the slots a VM
*answers for*, the one on its record and the one its handler holds. They are
disjoint between VMs and all known to the allocator while the daemon is not
down, and for each `pc` it says which of the two is set and whether the VMM may
still be alive (`HandlerOK`). Allocation picks a slot nobody answers for;
`FreeSlot` is reached only when the record has let go and the VMM is gone;
recovery starts by taking every recorded slot. `GuestIdentified` then follows:
a live VMM sits in its record's slot, which no other record holds. The proof
covers every fault, dropped request and crash, also those no run has room for.

**The lease.** Given `Placement`, the mapping is simple: the lessee of a slot
is the one record that has it, and its guests are that VM's VMM if it lives
(`Mapped`). So a step changes the lease in one of three ways: it leaves a
record's slot, puts one on a record that had none while no guest of it lives,
or takes it off after the guest is gone. One lemma per group of actions shows
which; a crash and a guest's exit only take guests away.

**Handlers and what is on the host.** `Control` says what the stage a handler
has reached implies for its VM's row, most of all that an `exit` or `restart`
under way has a VMM that is gone: nothing but the handler itself can start one,
since it has the lock. `DiskKept` and `ReapsOnlyExited` need no more. `Tidy` adds
which files and ports the handler still has to see to, and `NetOK` whose network
a slot may hold; with them `OnRecord` is the case of a handler that returned.
`SlotOK` is the converse of `Placement`: someone answers for every slot taken.

**Ports.** `PortOK` is the same equality for ports, with those a handler holds
between allocator and row. Exclusive steering needs `Unique`, no two rows for a
port, and `Steering`: a slot's network forwards only the ports its VM has on
record, or has just taken off the record and not yet withdrawn. Only there a
crash or a dropped request does harm, which is why both are excluded once
forwards change.

**One host.** `OneHost` is not inductive either: a request on its way may
become a second VM. `OnePlace` counts the hosts that have the VM *or may yet
make it* (`Places`): at most one, none when a create looks for its next host,
and none when the host it waits for has refused or could not be reached. The
step that matters is `CreateUnanswered`, which ends the create instead of
going on.

**Runtime.** `RuntimeInv` says, for each VM, which process its pid file, its
child entry and its jail speak of, and for each stage of each call (`OpInv`) what
of it still stands. A signal goes out only through a handle got before the pid
was seen to be the VMM's, or, without pidfds, to a pid that was seen to be; and
a stranger to whom a pid passes is born later than anything recorded of it.
A snapshot on record is there because a release keeps it, an undone create keeps
it if the record names it, and a suspend replaces its files one by one without
removing any. What a step does to other processes is summed up
once (`Aged` and its siblings), so each action is proved for the VM it is about.

**Sessions.** `SessionsInv` fits, for each session, the handler's stage to the
phase, worker, token, mailbox and VMs of its row, and counts what was sent of
each message. A message is claimed before it is sent, and only a claimed one is;
an interrupted session comes back over a power-off, so `work` starts over.
Outside `raced`, only the last create asked for can have made a VM or yet make
one, not both (`Tied`, `Creates`): a retry finds neither or puts the session
into `raced`.
`Lineage` extends `NoOrphanChild` to a child being created, which the closer of
the hierarchy keeps out. `Capped` extends the cap to a launch under way: the
code lets one through at a time, so the place it saw free stays free.

**Egress.** `EgressInv` dates every answer by the VM last placed on the address
when it was asked for: one dated by the present VM is of that VM or of none, and
a connection that waits for an answer was made by the VM it is dated by. When
all answers about are of the present turn (`Settled`), so is the one a
connection is admitted by.

**The rotation.** `OncePerRound` follows from `FreeComesFirst`: seen from the
cursor, a slot that stayed free lies before every slot given out since it
became free. Giving out `s` puts the cursor just past `s`, which makes `s` the
farthest of all. Across a restart the order survives because the cursor comes
back where it stood; `CursorSaved` says when it does. After a failed save it
need not, and `passed` starts over there: that much the code gives up, as its
comment says.

**Signatures.** The invariant adds to the properties that the claims the sync
loop is about to renew are on record or older (`SyncBehind`), and that the clock
has not outrun the renewals (`Timely`). A generation number is used once, so a
renewal that comes late finds another generation and is refused; with that, a
renewal never meets a record that lost its signature.

**Locks.** `LockInv` is a disjunction: either all who wait or act have the one
lock in the map, of which one holder acts (`OneLock`), or the record is gone for
good and nobody acts any more (`NoneActs`).

**Builds and jail files.** `BakeInv` ties the job table to the one task of a
build, the lane to the task in it, and the three files of a template to one bake
from the moment its name is published until that bake is marked in `redone`; a
clone is of the template there is, or of one that was given up (`Standing`).
`CacheSafe` says that the inode at a temporary name is under no other name and
in no jail (`Apart`), so truncating it harms none, and that one not in `shared`
has one call at it, which has written it to the end when it renames (`Sole`).

**The slot's network.** `SlotNetInv` follows a call through the sequence of its
kernel calls: for each prefix done it says what stands (`Doing`, `SlotGood`). Once
a boot may come, the host's table is that of some plan of the same kind, and it is
replaced in one batch, so no prefix leaves a way past it; a teardown is Ok only if
every call was.

**DNS.** `MemInv` dates each lookup by the releases its asker has seen. A release
ends what was cached and raises the count a slow lookup is compared with before
its reach is kept. The bound on the memory is kept by the step that adds to it.

**Tunnels, leaves, secrets.** An open that has tried `n` replicas has failed on
`n` that follow each other from where it began, so `n` is all of them (`TierInv`).
What is cached is renewed a margin before it expires, or a tick after it was
asked for; and a leaf is signed no earlier than it was asked for, in whatever
order two answers are kept. For the file, the recorded time is never later than
the content, nor the content than the file: when the times agree, both are
squeezed together.

### 5.2 What is only proved, and what is only model-checked

`SlotExclusive`, `OneHost`, `FreeComesFirst`, `NotBlessed` and the type
invariants of `ControlPlane` and `Fleet` have no run of their own: each follows
from or belongs to an invariant proved for every instance.

Only model-checked are

- liveness (`RecordsSettle`, `Converges`, `MailMoves`, `StaleClosed`), which
  rests on fairness and so on ENABLED, outside what the prover does;
- `RulesAgree` and the API's `AnswersTrue` and `ClientFits`: they compare what
  recursive or table-driven definitions compute with a reference, input by
  input, and induction over data is not available;
- `KeysKept`: the files and the processes are fixed by the code, and TLC covers
  every order of their writes and deaths; only the number of keys is bounded.

## 6. Where the code and its documentation part

Three have a run that TLC refutes and a finding in `PROJECT.json`.

- `StaleResume`: suspend, start, halt, start. Starting a suspended VM leaves
  `rec.snapshot` set, so the second start resumes memory older than the disk.
- `DeleteLost`: `placed` is written unconditionally, over a `deleting` that
  came after the record was read.
- `LockLost`: `forget_lock` is called safe because ids are never reused, but a
  client may name the id of a create. If it names one again after a removal, an
  operation queued on the forgotten lock and one with the new lock act at once.

Others are stated in the modules, do not hold, and have no run of their own:

- `Sessions!NotAbandoned`: a handler dropped with its client's request leaves
  its session in a phase no one else moves it out of. `Sessions!FailuresWait`: a
  shutdown writes its own reason over a failure's, and the next start recovers
  the session unasked.
- `ControlPlane!ForwardKeyFree`: host ports go back to the allocator before
  their rows are deleted, so an insert can hit the primary key `store.rs:376`
  calls safe.
- `ForwardsExclusive` across a crash between deleting a forward's row and
  re-steering: recovery re-applies nothing, and the port is issued again while
  still steered. `Host` has no crash in its forwarding setting.
- `Fleet!LostMeansGone`: a sync pass reads the records after the host's list,
  so a VM whose create finishes in between is marked `lost` for a while.
- `SlotNet!TakesEffect`: a change from deny to proxy on a live VM adds the
  rules and no default route, which only a new apply does.
- `SignedPolicies!OkTakesEffect`: after a re-steer failed, a repeat of the same
  change answers Ok without steering.
- `SlotMemory!CreditsOwn`: an answer that comes after the slot's release is
  recorded, and names the next VM's connections.
- `ApiContract!AnswersByTheTable`: some calls in the wrong state, and an agent
  with no channel, answer 500 where `docs/API.md` has 409 and 502.
- `Runtime!SnapshotWhole`: a VM suspended a second time still has its first
  snapshot on record, under the same file names, and a daemon that dies between
  the two renames of `move_out` leaves the new vmstate beside the old memory.
- `JailCache!AlwaysWhole`: two creates of one daemon copy to one temporary name,
  made of the process id, and one may rename into the cache what the other has
  just truncated: a jail gets half a kernel. `LinksWhole` excepts just these.
- `Egress!PredecessorClosed`: `close_stale` compares generations, and every VM's
  begin alike, so a connection of the address's last VM stays open when its
  successor is at the same generation.
- Three properties except what the code does not keep, as their definitions
  say. `Bakes!CloneWhole`: a build that is forced, or that a daemon starts
  because it could not read its store, rewrites the memory file running clones
  still read. `Sessions!VmAccounted`: `retry_allocation` sees the VMs there are
  and not the ones being made, so a retry that overtakes the first create leaves
  a VM no row names. `KeyFiles!PairsMatch` and `NotStranded`: a daemon that died
  between the new server key and its certificate, and is started again without
  the names it was reissuing for, takes the old certificate for good.
- `VmLocks!OneActor` with `StoreFails`: a rollback forgets the lock even of a
  record it could not delete.
- `SecretsFile!NoEditLost` with `SavesAtLoad`: the first load takes the time
  after the text. The properties of `KeyFiles` with `Alone = FALSE`: `isoctl admin` run
  while the daemon loads its identity.

Smaller limits, part of the models:

- A slot freed while the cursor stands on it is the next one given out, though
  `slot.rs` and the network's `DESIGN.md` promise a cooldown; `OncePerRound` is
  what does hold. So a VM may meet the policy the proxy has cached of its
  address's last one; `OwnPolicy` and `WindowEnds` say how long.
- Most teardown errors are dropped and the slot freed with its network still
  up; `NetOfHolder` is checked without that fault. A re-steer that fails after
  the host's table was replaced leaves a forward up whose row is given back;
  `ForwardsExclusive` is checked without that one.
- A crash between spawning a VMM and writing its pid file leaves a process
  nobody finds; `Findable` speaks of recorded ones. Without pidfds, a process
  that takes the pid between the check and the signal is hit, as `signal_if`
  says; `struck` does not count it. A terminate that fails after `destroy`
  leaves a record that names a removed snapshot; `SnapshotKept` holds until the
  removal is asked for. `pidfd_open` failing for want of descriptors, where
  nothing is signalled, is not modelled.
- A `PATCH` with an egress that does not parse leaves the egress as it was and
  answers Ok, as `docs/API.md` says; `DoneWhenOk` names it, and the query fields
  the file operations share and do not all use.
- An operator's entries for the jailer are passed on as they are, a key given
  twice included; `SettingsDerived` is about what the daemon adds.
- `netlink.rs` takes a slot's host table away before its links, so a VMM that
  outlived its own teardown is not held back while the network's goes on;
  `Contained` speaks of a VM from its boot to its teardown.
- `SecretsFile` takes each save to have a modification time of its own.

## 7. What is not modelled

- The guest agent, and the clock and reseed calls `bring_up` makes once a guest
  runs: best effort, no state that outlives a request.
- Byte formats: TLS, HTTP framing, SNI, DNS packets, netlink, TOML, SQL. Their
  outcome (parses or not, fails or not) is a choice.
- Cryptography: a signature verifies if and only if it was made.
- Statistics, IPv6, quotas and the pool watermark, which only refuse a create.
- What a builder VM does inside a bake, and OCI layers.
- In the master: pages, metrics, the transcript, workspace edits.
- Fleet calls that are passed on to a host and leave no state.
- A `spawn_blocking` call outliving a dropped handler: a step happens whole or
  not at all.
- Contrib, images and scripts around the daemon.

About a third of the implementation's lines are mapped. Somewhat more than a
third of those are the generated client (`iso-client/src/generated.rs`), whose
builders and conversions are repetitive: `ApiTypes` and `ApiContract` stand for
them in a few lines each.
