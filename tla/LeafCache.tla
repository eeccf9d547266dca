----------------------------- MODULE LeafCache -----------------------------
(***************************************************************************)
(* CaClient::server_config (iso-proxy, ca.rs) against iso-cad's handler    *)
(* (Ca::handle and sign): a proxy terminates TLS with leaves it has signed *)
(* on demand and keeps, per domain, until shortly before they expire.      *)
(* Connections ask at once; the answer to one may come after another's.    *)
(* Time is in steps of the margin's unit.                                  *)
(***************************************************************************)
EXTENDS Integers

CONSTANTS
  None,
  Conns,        \* connections that need a leaf for the domain
  Ttls,         \* lifetimes a CA may give its leaves (iso-cad: LEAF_TTL)
  Margin,       \* RENEW_MARGIN
  DefaultTtl,   \* what the proxy assumes of a CA that does not say
  MaxTime

VARIABLES
  clock,
  ttl,     \* the CA's
  says,    \* whether the CA says when a leaf expires
  cached,  \* the leaf kept for the domain and when it is renewed, or None
  conn     \* each connection: where it is, when it asked, its leaf

vars == <<clock, ttl, says, cached, conn>>

Idle == [pc |-> "idle", now |-> 0, leaf |-> 0]

Init ==
  /\ clock = 0 /\ ttl \in Ttls /\ says \in BOOLEAN
  /\ cached = None /\ conn = [c \in Conns |-> Idle]

Hit == cached # None /\ cached.renewAt > clock

\* The lookup, under the cache's lock; a leaf due for renewal is dropped.
Ask(c) ==
  /\ conn[c].pc = "idle"
  /\ conn' = [conn EXCEPT ![c] =
       IF Hit THEN [pc |-> "served", now |-> clock, leaf |-> cached.leaf]
       ELSE [pc |-> "asking", now |-> clock, leaf |-> 0]]
  /\ cached' = IF Hit THEN cached ELSE None
  /\ UNCHANGED <<clock, ttl, says>>

\* iso-cad signs from now on, or refuses with an empty chain.
Sign(c) ==
  /\ conn[c].pc = "asking"
  /\ conn' = [conn EXCEPT ![c] = [pc |-> "signed", now |-> @.now, leaf |-> clock + ttl]]
  /\ UNCHANGED <<clock, ttl, says, cached>>

\* The call failed or the chain is empty: no certificate, no connection.
Refuse(c) ==
  /\ conn[c].pc = "asking"
  /\ conn' = [conn EXCEPT ![c] = Idle]
  /\ UNCHANGED <<clock, ttl, says, cached>>

Later(x, y) == IF x > y THEN x ELSE y

RenewAtExpiry(notAfter, now) == Later(notAfter, now + 1)
RenewAt(notAfter, now) == Later(notAfter - Margin, now + 1)

\* The answer came: keep the leaf, whoever else kept one meanwhile.
Keep(c) ==
  /\ conn[c].pc = "signed"
  /\ LET notAfter == IF says THEN conn[c].leaf ELSE conn[c].now + DefaultTtl
     IN  cached' = [leaf |-> conn[c].leaf, renewAt |-> RenewAt(notAfter, conn[c].now)]
  /\ conn' = [conn EXCEPT ![c] = Idle]
  /\ UNCHANGED <<clock, ttl, says>>

Tick ==
  /\ clock < MaxTime
  /\ clock' = clock + 1
  /\ UNCHANGED <<ttl, says, cached, conn>>

Finish(c) ==
  /\ conn[c].pc = "served"
  /\ conn' = [conn EXCEPT ![c] = Idle]
  /\ UNCHANGED <<clock, ttl, says, cached>>

Next == Tick \/ \E c \in Conns : Ask(c) \/ Sign(c) \/ Refuse(c) \/ Keep(c) \/ Finish(c)

Spec == Init /\ [][Next]_vars

(* A connection served from the cache presents a leaf that is good for more *)
(* than the margin, whichever of two late answers was kept last; where the  *)
(* CA's leaves do not live that long, one that has not expired.             *)
LeafOutlives ==
  \A c \in Conns :
    (conn[c].pc = "served" /\ says) =>
      /\ conn[c].leaf > conn[c].now
      /\ ttl > Margin => conn[c].leaf - conn[c].now > Margin
=============================================================================
