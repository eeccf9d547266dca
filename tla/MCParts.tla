------------------------------ MODULE MCParts ------------------------------
(***************************************************************************)
(* The API's contract and the smaller components of a host, one at a time. *)
(* `part' says which of them this behaviour is about; it never changes.    *)
(* The contract has variables of its own, which stay where they start when *)
(* it is not its turn; every other component keeps its state in the        *)
(* registers r1 to r15, as its instance says, and leaves those it does not *)
(* need at Nothing.                                                        *)
(***************************************************************************)
EXTENDS ApiContract

CONSTANTS
  Nothing, Disabled,
  Capacity,                                                   \* SlotAllocator
  Makers, InDaemon, Inodes,                                   \* JailCache
  IdMax, SlotMax, DefaultBase, Pinned,                        \* JailSettings
  BakeHosts, BakeNames, MaxBakes, MaxCrashes,                 \* Bakes
  CertNames, MaxKeys, Alone,                                  \* KeyFiles
  Clients, PolicyBodies, MaxGen, MaxTime,                     \* SignedPolicies
  Ops, Comes, StoreFails, MaxLocks                            \* VmLocks

VARIABLES part, r1, r2, r3, r4, r5, r6, r7, r8, r9, r10, r11, r12, r13, r14, r15

SlotAllocator == INSTANCE SlotAllocator WITH
  used <- r1, cursor <- r2, saved <- r3, unsaved <- r4, passed <- r5

JailCache == INSTANCE JailCache WITH
  at <- r1, tmp <- r2, cached <- r3, whole <- r4, fd <- r5, jails <- r6, shared <- r7

JailSettings == INSTANCE JailSettings WITH
  None <- Nothing, Off <- Disabled,
  env <- r1, host <- r2

Bakes == INSTANCE Bakes WITH
  None <- Nothing, Hosts <- BakeHosts, Names <- BakeNames,
  row <- r1, job <- r2, queue <- r3, step <- r4, id <- r5, disk <- r6,
  mem <- r7, vmstate <- r8, clone <- r9, live <- r10, cli <- r11, seen <- r12,
  redone <- r13, bakes <- r14, crashes <- r15

KeyFiles == INSTANCE KeyFiles WITH
  None <- Nothing, Names <- CertNames,
  file <- r1, dir <- r2, run <- r3, sans <- r4, keys <- r5, pinned <- r6,
  taken <- r7

SignedPolicies == INSTANCE SignedPolicies WITH
  None <- Nothing, Bodies <- PolicyBodies,
  rec <- r1, row <- r2, steer <- r3, steering <- r4, failed <- r5, ok <- r6,
  call <- r7, sync <- r8, synced <- r9, away <- r10, time <- r11

VmLocks == INSTANCE VmLocks WITH
  None <- Nothing,
  entry <- r1, locks <- r2, record <- r3, asked <- r4, op <- r5

(* The registers a component of so many variables leaves alone. *)
after11 == <<r12, r13, r14, r15>>
after7 == <<r8, r9, r10, r11, after11>>
after5 == <<r6, r7, after7>>
after2 == <<r3, r4, r5, after5>>
after0 == <<r1, r2, after2>>
Free11 == r12 = Nothing /\ r13 = Nothing /\ r14 = Nothing /\ r15 = Nothing
Free7 == r8 = Nothing /\ r9 = Nothing /\ r10 = Nothing /\ r11 = Nothing /\ Free11
Free5 == r6 = Nothing /\ r7 = Nothing /\ Free7
Free2 == r3 = Nothing /\ r4 = Nothing /\ r5 = Nothing /\ Free5
Free0 == r1 = Nothing /\ r2 = Nothing /\ Free2

(* The call the others leave at the start. *)
Listing == CHOOSE c \in ApiCalls : c.op = "list" /\ DOMAIN c.given = {}

PartsInit ==
  \/ part = "api" /\ Init /\ Free0
  \/ /\ call = Listing /\ durable = TRUE /\ vm = "absent"
     /\ Init
     /\ \/ part = "slots" /\ SlotAllocator!Init /\ Free5
        \/ part = "locks" /\ VmLocks!Init /\ Free5
        \/ part = "jailCache" /\ JailCache!Init /\ Free7
        \/ part = "jailSettings" /\ JailSettings!Init /\ Free2
        \/ part = "bakes" /\ Bakes!Init
        \/ part = "keyFiles" /\ KeyFiles!Init /\ Free7
        \/ part = "signedPolicies" /\ SignedPolicies!Init /\ Free11

PartsNext ==
  \/ part = "api" /\ Next /\ UNCHANGED <<part, after0>>
  \/ part = "slots" /\ SlotAllocator!Next /\ UNCHANGED <<part, vars, after5>>
  \/ part = "locks" /\ VmLocks!Next /\ UNCHANGED <<part, vars, after5>>
  \/ part = "jailCache" /\ JailCache!Next /\ UNCHANGED <<part, vars, after7>>
  \/ part = "jailSettings" /\ JailSettings!Next /\ UNCHANGED <<part, vars, after2>>
  \/ part = "bakes" /\ Bakes!Next /\ UNCHANGED <<part, vars>>
  \/ part = "keyFiles" /\ KeyFiles!Next /\ UNCHANGED <<part, vars, after7>>
  \/ part = "signedPolicies" /\ SignedPolicies!Next /\ UNCHANGED <<part, vars, after11>>

PartsVars == <<part, vars, after0>>

PartsSpec == PartsInit /\ [][PartsNext]_PartsVars

-----------------------------------------------------------------------------
(* What each of them promises.  AnswersTrue and ClientFits are the API's.  *)

\* No slot is given out twice while another stays free (slot.rs, allocate).
OncePerRound == [][part = "slots" => SlotAllocator!OncePerRoundStep]_PartsVars
\* No two operations act on one VM at a time (vm_lock, forget_lock).
OneActor == part = "locks" => VmLocks!OneActor
\* What a jail is given is the whole source file (jail.rs, link_or_cache), but for
\* a copy begun while another call of the same process was at its own.
LinksWhole == part = "jailCache" => JailCache!LinksWhole
\* No two slots' VMMs share a uid, whatever the base, and what the daemon derives
\* for the jailer is neither for a controller the host lacks nor against the
\* operator's entries (jail.rs, id_base, limits and overlay).
JailsApart ==
  part = "jailSettings" => JailSettings!IdentityPerSlot /\ JailSettings!SettingsDerived
\* A build is building just as long as it has one task (build.rs, start), a
\* host found ready has the template (template.rs, wait_for), and a clone runs
\* on disk, memory and VM state of one bake (main.rs, bake_inner), unless it was
\* baked over by force or by a daemon that could not read its store.
BuildsWhole ==
  part = "bakes" => Bakes!OneTaskPerBuild /\ Bakes!ReadyIsUsable /\ Bakes!CloneWhole
\* However a process dies between two files, a certificate served is that of
\* the key beside it, the next start is not stranded (write_private), unless the
\* names it died over have gone again (load_or_generate), and a trust root others
\* pinned is not replaced (load_issued_elsewhere).
KeysKept ==
  part = "keyFiles" => KeyFiles!PairsMatch /\ KeyFiles!NotStranded /\ KeyFiles!RootKept
\* A stored signature describes the policy beside it (set_policy), the tier
\* enforces that policy or refuses (accept_stream), the network steers by it
\* (apply_network), and none expires while the fleet is there (sync_host).
PolicyStands ==
  part = "signedPolicies" =>
    /\ SignedPolicies!SignatureDescribes /\ SignedPolicies!TierEnforces
    /\ SignedPolicies!Steered /\ SignedPolicies!NeverLapses
=============================================================================
