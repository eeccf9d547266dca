------------------------------ MODULE TierPool ------------------------------
(***************************************************************************)
(* How an edge carries guest connections to the replicas of the proxy tier *)
(* (iso-proxy, edge.rs, Tier): a small pool of tunnels to each replica,    *)
(* dialled outside the pool's lock, and one CONNECT stream per guest       *)
(* connection on the next replica in turn, the one after it when it fails. *)
(***************************************************************************)
EXTENDS Naturals, FiniteSets

CONSTANTS
  None,
  N,         \* replicas, numbered from 0
  PoolSize,  \* tier_pool_size
  Guests,    \* guest connections being carried at once
  MaxOpens   \* bound on connections carried

Replicas == 0..(N - 1)

VARIABLES
  up,      \* the replicas that answer
  pool,    \* each replica's tunnels: those that work, those that do not yet
           \* show as closed, and those that do
  next,    \* next_replica, modulo N
  open,    \* the guest connections being carried
  opens

vars == <<up, pool, next, open, opens>>

Size(p) == p.live + p.dead + p.closed

Init ==
  /\ up = Replicas
  /\ pool = [i \in Replicas |-> [live |-> 0, dead |-> 0, closed |-> 0]]
  /\ next = 0
  /\ open = [g \in Guests |-> None]
  /\ opens = 0

\* Tier::open: the replicas in turn from where the counter stands.
Start(g) ==
  /\ open[g] = None /\ opens < MaxOpens
  /\ open' = [open EXCEPT ![g] = [start |-> next, n |-> 0, at |-> "pick", via |-> None, failed |-> {}]]
  /\ next' = (next + 1) % N /\ opens' = opens + 1
  /\ UNCHANGED <<up, pool>>

ReplicaFromCounter(g) == (next + open[g].n) % N
Replica(g) == (open[g].start + open[g].n) % N

Going(g, step) == open[g] # None /\ open[g].at = step

\* The replica is skipped for the next; after the last the connection is closed.
Skip(g) ==
  open' = [open EXCEPT ![g].failed = @ \cup {Replica(g)}, ![g].n = @ + 1,
                       ![g].at = IF open[g].n + 1 < N THEN "pick" ELSE "refused"]

\* conn_for: closed tunnels are dropped, and a full pool is used.
Pick(g) ==
  LET i == Replica(g)
      kept == [pool[i] EXCEPT !.closed = 0]
  IN /\ Going(g, "pick")
     /\ pool' = [pool EXCEPT ![i] = kept]
     /\ IF Size(kept) < PoolSize THEN open' = [open EXCEPT ![g].at = "dial"]
        ELSE \E via \in {k \in {"live", "dead"} : kept[k] > 0} :
               open' = [open EXCEPT ![g].at = "send", ![g].via = via]
     /\ UNCHANGED <<up, next, opens>>

\* A tunnel dialled meanwhile may have filled the pool; this one is then used
\* for its one stream.
RoomAlways(i) == TRUE
Room(i) == Size(pool[i]) < PoolSize

Dial(g) ==
  LET i == Replica(g) IN
  /\ Going(g, "dial")
  /\ \/ /\ i \in up
        /\ pool' = IF Room(i) THEN [pool EXCEPT ![i].live = @ + 1] ELSE pool
        /\ open' = [open EXCEPT ![g].at = "send", ![g].via = "live"]
     \/ Skip(g) /\ UNCHANGED pool     \* refused, or not connected in time
  /\ UNCHANGED <<up, next, opens>>

\* open_on: the CONNECT and its answer.
Send(g) ==
  /\ Going(g, "send")
  /\ \/ /\ Replica(g) \in up /\ open[g].via = "live"
        /\ open' = [open EXCEPT ![g] = None]
     \/ Skip(g)     \* refused, or not answered in time
  /\ UNCHANGED <<up, pool, next, opens>>

Refused(g) ==
  /\ Going(g, "refused")
  /\ open' = [open EXCEPT ![g] = None]
  /\ UNCHANGED <<up, pool, next, opens>>

(***************************************************************************)
(* Replicas come and go; a PING that is not answered closes a tunnel.      *)
(***************************************************************************)
Down(i) ==
  /\ i \in up /\ up' = up \ {i}
  /\ pool' = [pool EXCEPT ![i] = [@ EXCEPT !.dead = pool[i].dead + pool[i].live, !.live = 0]]
  /\ open' = [g \in Guests |-> IF Going(g, "send") /\ Replica(g) = i
                                 THEN [open[g] EXCEPT !.via = "dead"] ELSE open[g]]
  /\ UNCHANGED <<next, opens>>

Up(i) ==
  /\ i \notin up /\ up' = up \cup {i}
  /\ UNCHANGED <<pool, next, open, opens>>

Ping(i) ==
  /\ pool[i].dead > 0
  /\ pool' = [pool EXCEPT ![i].closed = @ + pool[i].dead, ![i].dead = 0]
  /\ UNCHANGED <<up, next, open, opens>>

Next ==
  \/ \E g \in Guests : Start(g) \/ Pick(g) \/ Dial(g) \/ Send(g) \/ Refused(g)
  \/ \E i \in Replicas : Down(i) \/ Up(i) \/ Ping(i)

Spec == Init /\ [][Next]_vars

\* However many guests dial at once, no more than tier_pool_size tunnels to a
\* replica are kept (conn_for, whose lock is let go of while it dials).
PoolBounded == \A i \in Replicas : Size(pool[i]) <= PoolSize

\* A guest's connection is given up only when every replica has failed it, once
\* each, though other guests move the counter meanwhile (Tier::open; DESIGN.md:
\* one replica down, the next is used).
AllTried == \A g \in Guests : Going(g, "refused") => open[g].failed = Replicas
=============================================================================
