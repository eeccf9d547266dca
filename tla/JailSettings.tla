---------------------------- MODULE JailSettings ----------------------------
(***************************************************************************)
(* The jailer's settings (iso-firecracker, jail.rs): which identity each   *)
(* slot's VMM runs as, and which cgroup and rlimit settings its jailer is  *)
(* given, from the operator's environment and what the host offers.  The   *)
(* functions are pure; a behaviour is one choice of their inputs.          *)
(* Identities are 32-bit in the code; IdMax stands for the largest.        *)
(***************************************************************************)
EXTENDS Integers, FiniteSets, Sequences

CONSTANTS
  None, Off,
  IdMax,        \* the largest uid
  SlotMax,      \* SlotId::MAX
  DefaultBase,  \* DEFAULT_ID_BASE
  Pinned        \* the identity of ISO_JAIL_UID and ISO_JAIL_GID, or 65534

VARIABLES
  env,    \* the operator's settings
  host    \* the controllers of cgroup.controllers, or None if unreadable

vars == <<env, host>>

Controllers == {"cpu", "memory", "pids"}
Derived == Controllers      \* cpu.max, memory.max and pids.max

\* The operator's entries, by their keys; a key may come twice.
Entries(keys) == {<<>>} \cup {<<k>> : k \in keys} \cup (keys \X keys)
Keys(entries) == {entries[i] : i \in DOMAIN entries}

Init ==
  /\ env \in [base : {None, Off} \cup 0..(IdMax + 1),
              pinned : BOOLEAN, version : {1, 2}, limits : {None, Off},
              cgroups : Entries({"cpu", "io"}), rlimits : Entries({"no-file", "fsize"})]
  /\ host \in SUBSET Controllers \cup {None}

Next == UNCHANGED vars
Spec == Init /\ [][Next]_vars

\* id_base: a base that leaves room for every slot, else the default.
UncheckedBase(setting, pinned) ==
  IF setting = Off THEN None
  ELSE IF setting # None THEN IF setting <= IdMax THEN setting ELSE DefaultBase
  ELSE IF pinned THEN None ELSE DefaultBase

IdBase(setting, pinned) ==
  IF setting = Off THEN None
  ELSE IF setting # None THEN IF setting + SlotMax <= IdMax THEN setting ELSE DefaultBase
  ELSE IF pinned THEN None ELSE DefaultBase

\* identity: base.saturating_add(slot), or the one identity for all.
Saturate(n) == IF n > IdMax THEN IdMax ELSE n
Identity(slot) ==
  LET base == IdBase(env.base, env.pinned) IN
  IF base # None /\ slot # None THEN Saturate(base + slot) ELSE Pinned

\* offers: what from_env found, or every controller when it did not look.
DefaultLimits == env.limits # Off
Looked == DefaultLimits /\ env.version = 2
Offered == IF ~Looked THEN Controllers ELSE IF host = None THEN {} ELSE host

\* limits: the keys derived from the VM's size.
DerivedCgroups == IF DefaultLimits /\ env.version = 2 THEN Derived \cap Offered ELSE {}
DerivedRlimits == IF DefaultLimits THEN {"no-file"} ELSE {}

\* overlay: the derived keys that no entry has, then the entries, as they are.
OverlayAdding(base, over) == [derived |-> base, given |-> over]
Overlay(base, over) == [derived |-> base \ Keys(over), given |-> over]

Cgroups == Overlay(DerivedCgroups, env.cgroups)
Rlimits == Overlay(DerivedRlimits, env.rlimits)

\* Whatever base the operator sets, no two slots share an identity and none is
\* past the last one, so that no VMM can touch another's files: id_base
\* refuses a base that would make identity's saturating add collide.
IdentityPerSlot ==
  IdBase(env.base, env.pinned) # None =>
    /\ Cardinality({Identity(s) : s \in 0..SlotMax}) = SlotMax + 1
    /\ \A s \in 0..SlotMax : Identity(s) <= IdMax

\* What is derived never fails a VM that would have started, and never goes
\* against the operator: it is for a controller the host offers, whatever could
\* be read of them, and for a key the operator left alone; and each such key is
\* bounded, once (limits, overlay, offered_controllers).  The operator's own
\* entries are passed on whatever the host offers, a key given twice included.
SettingsDerived ==
  /\ Cgroups.derived =
       {k \in Controllers : Looked /\ host # None /\ k \in host /\ k \notin Keys(env.cgroups)}
  /\ Rlimits.derived = IF DefaultLimits /\ "no-file" \notin Keys(env.rlimits) THEN {"no-file"} ELSE {}
  /\ Cgroups.given = env.cgroups /\ Rlimits.given = env.rlimits
=============================================================================
