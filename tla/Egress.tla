------------------------------- MODULE Egress -------------------------------
(***************************************************************************)
(* The lifetime of a guest's connections through the proxy (iso-proxy,     *)
(* lib.rs, edge.rs, policy.rs, ws.rs).  A connection is named by its       *)
(* source address, through the identify RPC and a cache; it is admitted,   *)
(* registered at the policy generation it was admitted under, and served;  *)
(* a watcher re-reads the policy of every address with live connections    *)
(* and closes what is held at another generation.  One address is          *)
(* modelled; VMs hold it one after the other.  Which requests the policy   *)
(* lets through is PolicyRules; here serving goes on or ends.              *)
(***************************************************************************)
EXTENDS Naturals, FiniteSets

CONSTANTS
  None,
  Conns,     \* connections at once
  MaxVms,    \* VMs that may hold the address
  Bounds,    \* how many connections at once with how many VMs: [conns, vms]
  MaxGen     \* bound on a VM's policy generations

Watch == "watch"
Askers == Conns \cup {Watch}

VARIABLES
  holder,   \* the VM whose record claims the address's slot, 0 for none
  placed,   \* VMs placed so far
  policy,   \* each VM's policy: generation and egress
  cache,    \* RpcResolver's entry for the address: the answer, whether it is
            \* within its ttl, and the address's last VM when it was asked for
  ask,      \* the resolver's calls in progress, with that VM
  conn,     \* the connections: who made it, how far it is, under which policy
  ws,       \* the WebSocket tunnels connections turned into
  watch,    \* how far the watcher's round is
  bounds    \* of this behaviour

vars == <<holder, placed, policy, cache, ask, conn, ws, watch, bounds>>
daemon == <<holder, placed, policy, bounds>>

\* A resolved policy is the VM's id, generation and mode.
NoVm == [vm |-> 0, gen |-> 0, egress |-> "deny"]
Resolved(vm) == IF vm = 0 THEN NoVm ELSE [vm |-> vm, gen |-> policy[vm].gen, egress |-> policy[vm].egress]

Init ==
  /\ holder = 0 /\ placed = 0
  /\ policy = [v \in 1..MaxVms |-> [gen |-> 1, egress |-> "proxy"]]
  /\ cache = None
  /\ ask = [w \in Askers |-> None]
  /\ conn = [c \in Conns |-> None]
  /\ ws = [c \in Conns |-> None]
  /\ watch = "asleep" /\ bounds \in Bounds

(***************************************************************************)
(* The daemon: VMs come, change policy and go.                             *)
(***************************************************************************)
Place ==
  /\ holder = 0 /\ placed < bounds.vms
  /\ holder' = placed + 1 /\ placed' = placed + 1
  /\ UNCHANGED <<policy, cache, ask, conn, ws, watch, bounds>>

SetPolicy ==
  /\ holder # 0 /\ policy[holder].gen < MaxGen
  /\ \E mode \in {"proxy", "deny"} :
       policy' = [policy EXCEPT ![holder] = [gen |-> @.gen + 1, egress |-> mode]]
  /\ UNCHANGED <<holder, placed, cache, ask, conn, ws, watch, bounds>>

Leave ==
  /\ holder # 0 /\ holder' = 0
  /\ UNCHANGED <<placed, policy, cache, ask, conn, ws, watch, bounds>>

(***************************************************************************)
(* RpcResolver::resolve.                                                   *)
(***************************************************************************)
\* An entry is used for its ttl.
FreshForever == cache # None
Fresh == cache # None /\ cache.fresh

\* The identify RPC reads the record; a failed call counts as no VM.
Rpc(w) ==
  /\ ask[w] # None /\ ask[w].at = "rpc"
  /\ \E answer \in {Resolved(holder), NoVm} :
       ask' = [ask EXCEPT ![w] = [at |-> "insert", pol |-> answer, turn |-> @.turn]]
  /\ UNCHANGED <<daemon, cache, conn, ws, watch>>

Expire ==
  /\ cache # None /\ cache.fresh
  /\ cache' = [pol |-> cache.pol, fresh |-> FALSE, turn |-> cache.turn]
  /\ UNCHANGED <<daemon, ask, conn, ws, watch>>

(***************************************************************************)
(* A connection: single_conn and edge_conn.                                *)
(***************************************************************************)
\* admit.
Admits(pol) == pol.vm # 0 /\ pol.egress # "deny"

Named(c, owner, pol) ==
  conn' = [conn EXCEPT ![c] =
    IF Admits(pol) THEN [owner |-> owner, at |-> "named", pol |-> pol] ELSE None]

Accept(c) ==
  /\ conn[c] = None /\ holder # 0 /\ c \in bounds.conns
  /\ IF Fresh THEN Named(c, holder, cache.pol) /\ UNCHANGED ask
     ELSE /\ ask' = [ask EXCEPT ![c] = [at |-> "rpc", pol |-> NoVm, turn |-> placed]]
          /\ conn' = [conn EXCEPT ![c] = [owner |-> holder, at |-> "asking", pol |-> NoVm]]
  /\ UNCHANGED <<daemon, cache, ws, watch>>

Insert(c) ==
  /\ ask[c] # None /\ ask[c].at = "insert"
  /\ cache' = [pol |-> ask[c].pol, fresh |-> TRUE, turn |-> ask[c].turn]
  /\ ask' = [ask EXCEPT ![c] = None]
  /\ Named(c, conn[c].owner, ask[c].pol)
  /\ UNCHANGED <<daemon, ws, watch>>

\* lookup_dst, then the serving task and its registration.
Register(c) ==
  /\ conn[c] # None /\ conn[c].at = "named"
  /\ conn' = [conn EXCEPT ![c] = [owner |-> @.owner, at |-> "serving", pol |-> @.pol]]
  /\ UNCHANGED <<daemon, cache, ask, ws, watch>>

\* Served to its end, refused, or gone: the registration is dropped.
End(c) ==
  /\ conn[c] # None /\ conn[c].at = "serving"
  /\ conn' = [conn EXCEPT ![c] = None]
  /\ UNCHANGED <<daemon, cache, ask, ws, watch>>

\* proxy_upgrade: the tunnel is a task of its own, registered beside the
\* connection, which ends.
Unregistered(c) == [gen |-> 0, owner |-> conn[c].owner]
Registered(c) == [gen |-> conn[c].pol.gen, owner |-> conn[c].owner]

Upgrade(c) ==
  /\ conn[c] # None /\ conn[c].at = "serving" /\ ws[c] = None
  /\ ws' = [ws EXCEPT ![c] = Registered(c)]
  /\ conn' = [conn EXCEPT ![c] = None]
  /\ UNCHANGED <<daemon, cache, ask, watch>>

WsEnd(c) ==
  /\ ws[c] # None
  /\ ws' = [ws EXCEPT ![c] = None]
  /\ UNCHANGED <<daemon, cache, ask, conn, watch>>

(***************************************************************************)
(* watch, and Registry::close_stale.                                       *)
(***************************************************************************)
Serving == {c \in Conns : conn[c] # None /\ conn[c].at = "serving"}
Tunnels == {c \in Conns : ws[c] # None /\ ws[c].gen # 0}

\* keep is the generation to keep, 0 to keep none.
StaleOlder(gen, keep) == gen < keep
Stale(gen, keep) == gen # keep

CloseStale(keep) ==
  /\ conn' = [c \in Conns |-> IF c \in Serving /\ Stale(conn[c].pol.gen, keep) THEN None ELSE conn[c]]
  /\ ws' = [c \in Conns |-> IF c \in Tunnels /\ Stale(ws[c].gen, keep) THEN None ELSE ws[c]]

Keep(pol) == IF Admits(pol) THEN pol.gen ELSE 0

WatchRound ==
  /\ watch = "asleep" /\ Serving \cup Tunnels # {}
  /\ IF Fresh THEN CloseStale(Keep(cache.pol)) /\ UNCHANGED <<ask, watch>>
     ELSE /\ ask' = [ask EXCEPT ![Watch] = [at |-> "rpc", pol |-> NoVm, turn |-> placed]]
          /\ watch' = "asking"
          /\ UNCHANGED <<conn, ws>>
  /\ UNCHANGED <<daemon, cache>>

WatchInsert ==
  /\ ask[Watch] # None /\ ask[Watch].at = "insert"
  /\ cache' = [pol |-> ask[Watch].pol, fresh |-> TRUE, turn |-> ask[Watch].turn]
  /\ ask' = [ask EXCEPT ![Watch] = None]
  /\ CloseStale(Keep(ask[Watch].pol))
  /\ watch' = "asleep"
  /\ UNCHANGED daemon

Next ==
  \/ Place \/ SetPolicy \/ Leave \/ Expire \/ WatchRound \/ WatchInsert
  \/ \E w \in Askers : Rpc(w)
  \/ \E c \in Conns : Accept(c) \/ Insert(c) \/ Register(c) \/ End(c) \/ Upgrade(c) \/ WsEnd(c)

\* The runtime runs every task that can go on, and time passes.  Nothing makes a
\* guest end a connection, or a VM leave.
Fairness ==
  /\ WF_vars(Expire) /\ WF_vars(WatchRound) /\ WF_vars(WatchInsert)
  /\ \A w \in Askers : WF_vars(Rpc(w))
  /\ \A c \in Conns : WF_vars(Insert(c))

Spec == Init /\ [][Next]_vars /\ Fairness

\* Nothing asked before the address came to its last VM is still on its way, or
\* believed.
Settled ==
  /\ cache # None /\ cache.fresh => cache.turn = placed
  /\ \A w \in Askers : ask[w] # None => ask[w].turn = placed

IsNamed(c) == conn[c] # None /\ conn[c].at # "asking"

\* Addresses are used again and answers are cached, so a VM may meet the policy of
\* the address's last one; but only by an answer asked for before it came, and for
\* no longer than that lookup and its entry's ttl.  From then on each connection it
\* makes is admitted under its own policy (single_conn, RpcResolver::resolve).
OwnPolicy ==
  [][\A c \in Conns :
       Settled /\ ~IsNamed(c) /\ IsNamed(c)' => conn'[c].pol.vm = conn'[c].owner]_vars

\* A connection is outdated when the address has no VM, or one in deny mode, or
\* one whose policy has another generation than it was admitted at, that VM's own
\* or, the address having changed hands, its successor's.
Outdated(gen) == holder = 0 \/ policy[holder].egress = "deny" \/ gen # policy[holder].gen

\* An outdated connection is closed, WebSockets included, unless policies change
\* so that it no longer is (watch; docs/API.md, PATCH policy).
OutdatedClosed ==
  \A c \in Conns :
    /\ (c \in Serving /\ Outdated(conn[c].pol.gen)) ~> (c \in Serving => ~Outdated(conn[c].pol.gen))
    /\ (ws[c] # None /\ Outdated(ws[c].gen)) ~> (ws[c] # None => ~Outdated(ws[c].gen))

\* OwnPolicy's window ends: a VM that keeps its address is soon met by its own
\* policy only (RpcResolver's ttl, call_unix's timeout).
WindowEnds == \A v \in 1..MaxVms : (holder = v) ~> (Settled \/ holder # v)

StaleClosed == OutdatedClosed /\ WindowEnds

\* Not so: that a connection of a VM that has left is closed.  close_stale compares
\* generations, each VM's start from the same number, and so one admitted for the
\* predecessor at the generation its successor has stays open (edge.rs, Live.vm is
\* only logged).
PredecessorClosed == \A c \in Conns : (c \in Serving /\ conn[c].owner # holder) ~> (c \in Serving => conn[c].owner = holder)
=============================================================================
