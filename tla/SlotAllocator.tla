---------------------------- MODULE SlotAllocator ----------------------------
(***************************************************************************)
(* The placement-slot allocator (slot.rs) with the cursor the store keeps  *)
(* for it (control.rs allocate_slot, recover), over the daemon's restarts. *)
(* The bitmap and the cursor live in memory; the saved cursor and the      *)
(* slots that records hold survive.                                        *)
(***************************************************************************)
EXTENDS Rotation

Slots == 0 .. Capacity - 1
None == -1

VARIABLES
  used,      \* slots marked in the bitmap
  cursor,    \* where the next scan starts
  saved,     \* the cursor in the store, None before the first save
  unsaved,   \* history: the latest save of the cursor failed
  passed     \* history: slots given out since each slot last became free, or
             \* since a restart that the cursor's last move did not survive

vars == <<used, cursor, saved, unsaved, passed>>

TypeOK ==
  /\ used \in SUBSET Slots
  /\ cursor \in Slots
  /\ saved \in Slots \cup {None}
  /\ unsaved \in BOOLEAN
  /\ passed \in [Slots -> SUBSET Slots]

Init ==
  /\ used = {}
  /\ cursor = 0
  /\ saved = None
  /\ unsaved = FALSE
  /\ passed = [s \in Slots |-> {}]

-----------------------------------------------------------------------------
(* allocate_slot: the next free slot, and the cursor saved under the lock, *)
(* best effort.                                                            *)
Allocate(s) ==
  /\ s \in Slots
  /\ IsNext(Capacity, used, cursor, s)
  /\ used' = used \cup {s}
  /\ cursor' = CursorAfter(Capacity, s)
  /\ \/ saved' = cursor' /\ unsaved' = FALSE
     \/ saved' = saved /\ unsaved' = TRUE
  /\ passed' = [f \in Slots |->
       IF f \in used \cup {s} THEN {} ELSE passed[f] \cup {s}]

Free(s) ==
  /\ s \in used
  /\ used' = used \ {s}
  /\ passed' = [passed EXCEPT ![s] = {}]
  /\ UNCHANGED <<cursor, saved, unsaved>>

(* Mutant of Resumes: the rotation starts over with every daemon. *)
ResumesFromZero(kept, c) == c = 0

(* recover: a cursor never saved falls back to one past the highest slot *)
(* held, and to 0 when none is.                                          *)
Resumes(kept, c) ==
  \/ saved # None /\ c = ResumeAt(Capacity, saved)
  \/ saved = None /\ kept = {} /\ c = 0
  \/ /\ saved = None
     /\ \E highest \in kept :
          /\ \A s \in kept : s <= highest
          /\ c = CursorAfter(Capacity, highest)

(* A new daemon: only the slots that records hold are reserved again, so a *)
(* slot allocated but not yet on record comes back free.                   *)
Restart(kept) ==
  /\ used' = kept
  /\ cursor' \in Slots
  /\ Resumes(kept, cursor')
  /\ unsaved' = FALSE
  /\ passed' = [s \in Slots |-> IF s \in used \/ unsaved THEN {} ELSE passed[s]]
  /\ UNCHANGED saved

Next ==
  \/ \E s \in Slots : Allocate(s)
  \/ \E s \in Slots : Free(s)
  \/ \E kept \in SUBSET used : Restart(kept)

Spec == Init /\ [][Next]_vars

-----------------------------------------------------------------------------
(* No slot is given out twice while another stays free throughout: the     *)
(* rotation reaches every free slot once before it comes back to any, also *)
(* across a restart (allocate's scan from the cursor, set_slot_cursor and  *)
(* resume_at), unless the cursor's latest save failed before it.           *)
OncePerRoundStep ==
  \A s, f \in Slots :
    (s \notin used /\ s \in used' /\ f \notin used \cup used') => s \notin passed[f]

(* Every step of the allocator is one of those. *)
OncePerRound == [][OncePerRoundStep]_vars

(* Why: seen from the cursor, a slot that stayed free comes before every *)
(* slot given out since.                                                 *)
FreeComesFirst ==
  \A f \in Slots \ used : \A s \in passed[f] :
    Ahead(Capacity, cursor, f) < Ahead(Capacity, cursor, s)
=============================================================================
