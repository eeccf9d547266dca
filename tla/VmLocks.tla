------------------------------- MODULE VmLocks -------------------------------
(***************************************************************************)
(* The control plane's lock map (control.rs): an operation takes the lock  *)
(* the map has for its VM's id, made on first use, and holds it from the   *)
(* reading of the record to its own end; one that deletes the record also  *)
(* takes the entry out of the map.  An operation that waits keeps the lock *)
(* it was given, in the map or not.  One id is modelled.  ControlPlane     *)
(* gives every VM one lock for ever, which is what this module is about.   *)
(***************************************************************************)
EXTENDS Naturals, FiniteSets

CONSTANTS
  None,
  Ops,         \* operations in flight at once
  Comes,       \* whether an id may be created again (a client names it)
  StoreFails,  \* whether deleting the record may fail
  MaxLocks     \* bound: locks made

Kinds == {"create", "destroy", "other"}

VARIABLES
  entry,   \* the map's lock for the id, 0 for none
  locks,   \* locks made so far
  record,  \* whether the store has a record
  asked,   \* whether a create for the id was called before
  op       \* the operations: what, how far, and with which lock

vars == <<entry, locks, record, asked, op>>

Init ==
  /\ entry = 0 /\ locks = 0
  /\ record = FALSE /\ asked = FALSE
  /\ op = [o \in Ops |-> None]

(* Mutant of VmLock: the entry is replaced, not looked up. *)
VmLockAlways(o, lock) == lock = locks + 1

(* vm_lock: the entry, or a new one. *)
VmLock(o, lock) == lock = IF entry = 0 THEN locks + 1 ELSE entry

Call(o, kind) ==
  /\ op[o] = None
  /\ kind = "create" => Comes \/ ~asked
  /\ asked' = (asked \/ kind = "create")
  /\ \E lock \in 1 .. MaxLocks :
       /\ VmLock(o, lock)
       /\ entry' = lock
       /\ locks' = IF lock > locks THEN lock ELSE locks
       /\ op' = [op EXCEPT ![o] = [kind |-> kind, at |-> "waits", lock |-> lock]]
  /\ UNCHANGED record

Is(o, at) == op[o] # None /\ op[o].at = at

(* The guard, and the record read under it: a create needs there to be none *)
(* and writes one before it awaits anything; the others need one.           *)
Enter(o) ==
  LET create == op[o].kind = "create" IN
  /\ Is(o, "waits")
  /\ \A p \in Ops : Is(p, "acts") => op[p].lock # op[o].lock
  /\ \/ /\ record = ~create
        /\ op' = [op EXCEPT ![o].at = "acts"]
        /\ record' = TRUE
     \/ /\ record = create
        /\ op' = [op EXCEPT ![o] = None]
        /\ UNCHANGED record
  /\ UNCHANGED <<entry, locks, asked>>

(* A create that came up, an operation that keeps the record, one that     *)
(* failed, or one whose client went away.                                  *)
Leave(o) ==
  /\ Is(o, "acts")
  /\ op' = [op EXCEPT ![o] = None]
  /\ UNCHANGED <<entry, locks, record, asked>>

(* The record goes, then the map's entry: destroy_vm, finalize_stop,       *)
(* abandon, and the rollback of a create, which forgets the lock even when *)
(* the record could not be deleted.                                        *)
Remove(o) ==
  /\ Is(o, "acts")
  /\ op[o].kind \in {"create", "destroy"}
  /\ record' \in IF StoreFails /\ op[o].kind = "create" THEN {FALSE, record} ELSE {FALSE}
  /\ entry' = 0
  /\ op' = [op EXCEPT ![o] = None]
  /\ UNCHANGED <<locks, asked>>

(* Dropped while it waits. *)
GoAway(o) ==
  /\ Is(o, "waits")
  /\ op' = [op EXCEPT ![o] = None]
  /\ UNCHANGED <<entry, locks, record, asked>>

Next ==
  \E o \in Ops :
    \/ \E kind \in Kinds : Call(o, kind)
    \/ Enter(o) \/ Leave(o) \/ Remove(o) \/ GoAway(o)

Spec == Init /\ [][Next]_vars

(* No two operations act on one VM's record at a time, though the lock they *)
(* queue on may have been forgotten meanwhile and another made (vm_lock:    *)
(* held "across the whole read-modify-write"; forget_lock: "safe because VM *)
(* ids are random and never reused").                                       *)
OneActor == Cardinality({o \in Ops : Is(o, "acts")}) <= 1
=============================================================================
