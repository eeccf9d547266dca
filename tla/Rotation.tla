------------------------------ MODULE Rotation ------------------------------
(***************************************************************************)
(* The rotating scan both allocators of the control plane use: placement   *)
(* slots (slot.rs) and host ports (port.rs).  Positions are 0 .. n-1; a    *)
(* scan starts at a cursor, wraps, and takes the first position not taken. *)
(***************************************************************************)
EXTENDS Integers

CONSTANT
  Capacity   \* placement slots the host was configured with

ASSUME CapacityAssumption == Capacity \in Nat \ {0}

(* How many positions the scan passes before it reaches p: the i of *)
(* (cursor + i) % n = p.                                            *)
Ahead(n, cur, p) ==
  IF p >= cur THEN p - cur ELSE n + p - cur

(* The scan from cur stops at p: p is free, all positions before it taken. *)
IsNext(n, taken, cur, p) ==
  /\ p \notin taken
  /\ \A q \in 0 .. n - 1 : Ahead(n, cur, q) < Ahead(n, cur, p) => q \in taken

(* Mutants of CursorAfter: no wrap at the end; a cursor that stays put. *)
CursorAfterUnwrapped(n, p) == p + 1
CursorAfterStays(n, p) == p

(* Where the next scan starts once p is given out. *)
CursorAfter(n, p) ==
  IF p + 1 = n THEN 0 ELSE p + 1

(* A saved cursor, wrapped into range: the capacity may have shrunk. *)
ResumeAt(n, c) ==
  IF c < n THEN c ELSE c % n
=============================================================================
