----------------------------- MODULE SlotMemory -----------------------------
(***************************************************************************)
(* What the daemon's DNS remembers of a slot (iso-controld dns_gate.rs and *)
(* dns_memory.rs, iso-dns-server): the gate's cached reach of the slot's   *)
(* VM, and the names its queries were answered with, by which a later      *)
(* connection to an answered address is named.  VMs hold the slot one      *)
(* after the other and have the same address.  A query goes through the    *)
(* gate and upstream in several steps, and the VM that asked may have left *)
(* the slot in between.                                                    *)
(***************************************************************************)
EXTENDS Naturals, FiniteSets

CONSTANTS
  None,
  Names,    \* names a VM asks for
  Addrs,    \* addresses they resolve to
  Queries,  \* queries in progress at once
  MaxVms,   \* VMs placed on the slot, one after the other
  PerVm     \* PER_VM: entries kept for one VM

VARIABLES
  holder,    \* the VM whose record claims the slot, 0 for none
  stage,     \* how far the slot's release is
  placed,    \* VMs placed so far
  reach,     \* the names the policy of each VM lets it resolve
  cached,    \* the gate's cached answer: whose reach, and what
  releases,  \* the gate's count of releases
  query,     \* the queries in progress
  memory     \* answered address -> name, who asked for it, and whether it lives

slot == <<holder, stage, placed>>
vars == <<slot, reach, cached, releases, query, memory>>

VmIds == 1..MaxVms
Lives == {dst \in Addrs : memory[dst] # None /\ memory[dst].lives}
Entries == {dst \in Addrs : memory[dst] # None}

Init ==
  /\ holder = 0 /\ stage = "free" /\ placed = 0
  /\ reach \in [VmIds -> SUBSET Names]
  /\ cached = None /\ releases = 0
  /\ query = [q \in Queries |-> None]
  /\ memory = [dst \in Addrs |-> None]

(***************************************************************************)
(* The slot's VMs.                                                         *)
(***************************************************************************)
Place ==
  /\ stage = "free" /\ placed < MaxVms
  /\ placed' = placed + 1 /\ holder' = placed + 1 /\ stage' = "held"
  /\ UNCHANGED <<reach, cached, releases, query, memory>>

SetPolicy ==
  /\ holder # 0
  /\ \E names \in SUBSET Names : reach' = [reach EXCEPT ![holder] = names]
  /\ UNCHANGED <<slot, cached, releases, query, memory>>

\* The record lets go of the slot; ...
Unclaim ==
  /\ stage = "held"
  /\ holder' = 0 /\ stage' = "unclaimed"
  /\ UNCHANGED <<placed, reach, cached, releases, query, memory>>

\* ... free_slot runs forget, then the gate's hook, and frees the slot.
Forget ==
  /\ stage = "unclaimed"
  /\ memory' = [dst \in Addrs |-> None]
  /\ stage' = "forgotten"
  /\ UNCHANGED <<holder, placed, reach, cached, releases, query>>

Release ==
  /\ stage = "forgotten"
  /\ cached' = None /\ releases' = releases + 1
  /\ stage' = "free"
  /\ UNCHANGED <<holder, placed, reach, query, memory>>

(***************************************************************************)
(* A query.                                                                *)
(***************************************************************************)
Ask(q) ==
  /\ query[q] = None /\ holder # 0
  /\ \E n \in Names :
       query' = [query EXCEPT ![q] =
         [asker |-> holder, name |-> n, at |-> "cache", seen |-> 0, of |-> 0, reach |-> {}]]
  /\ UNCHANGED <<slot, reach, cached, releases, memory>>

\* Refused, or looked up upstream.
Decided(q, of, names) ==
  query' = [query EXCEPT ![q] =
    IF query[q].name \in names
      THEN [query[q] EXCEPT !.at = "lookup", !.of = of, !.reach = {}, !.seen = 0] ELSE None]

FromCache(q) ==
  /\ query[q] # None /\ query[q].at = "cache"
  /\ IF cached # None THEN Decided(q, cached.of, cached.reach)
     ELSE query' = [query EXCEPT ![q].at = "list", ![q].seen = releases]
  /\ UNCHANGED <<slot, reach, cached, releases, memory>>

\* list_vms: the record that claims the slot, which may be gone or another by
\* now; a store error refuses the query.
ListVms(q) ==
  /\ query[q] # None /\ query[q].at = "list"
  /\ \/ query' = [query EXCEPT ![q].at = "keep", ![q].of = holder,
                               ![q].reach = IF holder = 0 THEN {} ELSE reach[holder]]
     \/ query' = [query EXCEPT ![q] = None]
  /\ UNCHANGED <<slot, reach, cached, releases, memory>>

KeepsAny(q) == TRUE
Keeps(q) == releases = query[q].seen

Keep(q) ==
  /\ query[q] # None /\ query[q].at = "keep"
  /\ cached' = IF Keeps(q) THEN [of |-> query[q].of, reach |-> query[q].reach] ELSE cached
  /\ Decided(q, query[q].of, query[q].reach)
  /\ UNCHANGED <<slot, reach, releases, memory>>

\* record: a full memory is rid of what expired, and takes nothing if that
\* leaves it full.
RecordsAny(q, addrs) ==
  [dst \in Addrs |-> IF dst \in addrs
     THEN [name |-> query[q].name, by |-> query[q].asker, lives |-> TRUE] ELSE memory[dst]]

Records(q, addrs) ==
  LET full == Cardinality(Entries) >= PerVm
      kept == [dst \in Addrs |-> IF full /\ dst \notin Lives THEN None ELSE memory[dst]]
  IN IF full /\ Cardinality(Lives) >= PerVm THEN kept
     ELSE [dst \in Addrs |-> IF dst \in addrs
             THEN [name |-> query[q].name, by |-> query[q].asker, lives |-> TRUE] ELSE kept[dst]]

Answered(q) ==
  /\ query[q] # None /\ query[q].at = "lookup"
  /\ \E addrs \in {a \in SUBSET Addrs : Cardinality(a) <= 2} : memory' = Records(q, addrs)
  /\ query' = [query EXCEPT ![q] = None]
  /\ UNCHANGED <<slot, reach, cached, releases>>

LookupFails(q) ==
  /\ query[q] # None /\ query[q].at = "lookup"
  /\ query' = [query EXCEPT ![q] = None]
  /\ UNCHANGED <<slot, reach, cached, releases, memory>>

(***************************************************************************)
(* Time.                                                                   *)
(***************************************************************************)
CacheExpires ==
  /\ cached # None /\ cached' = None
  /\ UNCHANGED <<slot, reach, releases, query, memory>>

EntryExpires(dst) ==
  /\ memory[dst] # None /\ memory[dst].lives
  /\ memory' = [memory EXCEPT ![dst].lives = FALSE]
  /\ UNCHANGED <<slot, reach, cached, releases, query>>

Next ==
  \/ Place \/ SetPolicy \/ Unclaim \/ Forget \/ Release \/ CacheExpires
  \/ \E q \in Queries : \/ Ask(q) \/ FromCache(q) \/ ListVms(q) \/ Keep(q)
                        \/ Answered(q) \/ LookupFails(q)
  \/ \E dst \in Addrs : EntryExpires(dst)

Spec == Init /\ [][Next]_vars

\* No VM has a name resolved because of the policy of the VM that held its slot
\* before: whatever lookup a release overtakes, the reach a query is allowed by
\* is never that of an earlier VM than its asker (slot_may_resolve, and the
\* hook of DnsGate::new).
NotByPredecessor ==
  \A q \in Queries : query[q] # None /\ query[q].at = "lookup" => query[q].of >= query[q].asker

\* A guest that resolves for ever does not grow the daemon: no more than one
\* answer's addresses past PER_VM are remembered (DnsMemory::record).
MemoryBounded == Cardinality(Entries) <= PerVm + 1

\* No VM is credited with a name it never looked up: what is remembered of the
\* slot was resolved by the VM that holds it (the head of dns_memory.rs).  It
\* does not hold: an answer that comes after the slot's release is recorded.
CreditsOwn == \A dst \in Addrs : holder # 0 /\ memory[dst] # None => memory[dst].by = holder
=============================================================================
