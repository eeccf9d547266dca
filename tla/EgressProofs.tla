---------------------------- MODULE EgressProofs ----------------------------
(***************************************************************************)
(* Proofs about Egress, for any number of connections, VMs and policy      *)
(* generations.                                                            *)
(*                                                                         *)
(* Every answer is dated: by the VM last placed on the address when it was *)
(* asked for.  One asked for since the last VM came is of that VM or of    *)
(* none, and a connection that waits for it was made by that VM.           *)
(***************************************************************************)
EXTENDS Egress, TLAPS

(* A leaf is for Zenon unless it cites SMT. *)
USE ZenonT(60)

(* The value that stands for none is no answer, lookup or connection. *)
NoneApart ==
  /\ \A pol, fresh, turn : None # [pol |-> pol, fresh |-> fresh, turn |-> turn]
  /\ \A at, pol, turn : None # [at |-> at, pol |-> pol, turn |-> turn]
  /\ \A owner, at, pol : None # [owner |-> owner, at |-> at, pol |-> pol]

(* Of the address's last VM, or of nobody. *)
Latest(pol) == pol.vm \in {0, placed}

(* What was asked for at turn: not of the future, and of the last VM if it *)
(* was there already.                                                      *)
Dated(turn, pol) == turn \in 0..placed /\ (turn = placed => Latest(pol))

(* A connection that waits was made by the VM its lookup is dated by. *)
Waits(c) == ask[c] # None => conn[c] # None /\ conn[c].at = "asking" /\ conn[c].owner = ask[c].turn

EgressInv ==
  /\ holder \in {0, placed} /\ placed \in Nat
  /\ cache # None => Dated(cache.turn, cache.pol)
  /\ DOMAIN ask = Askers /\ DOMAIN conn = Conns
  /\ \A w \in Askers : ask[w] # None => Dated(ask[w].turn, ask[w].pol)
  /\ \A c \in Conns : Waits(c)

LEMMA EgressInit == Init => EgressInv
<1> SUFFICES ASSUME Init PROVE EgressInv
  OBVIOUS
<1>1. holder = 0 /\ placed = 0 /\ placed \in Nat /\ cache = None
  BY SMT DEF Init
<1>2. DOMAIN ask = Askers /\ \A w \in Askers : ask[w] = None
  BY DEF Init
<1>3. DOMAIN conn = Conns
  BY DEF Init
<1>4. Conns \subseteq Askers
  BY DEF Askers
<1> QED BY <1>1, <1>2, <1>3, <1>4 DEF EgressInv, Waits

(* What is resolved for the address is of the VM there, or of none; a       *)
(* lookup begun now is dated by the last VM.                                *)
LEMMA ResolvedLatest ==
  ASSUME EgressInv
  PROVE  Latest(Resolved(holder)) /\ Latest(NoVm) /\ Dated(placed, NoVm)
<1>1. NoVm.vm = 0
  BY DEF NoVm
<1>2. Resolved(holder).vm = holder
  BY <1>1 DEF Resolved
<1>3. placed \in 0..placed
  BY SMT DEF EgressInv
<1> QED BY <1>1, <1>2, <1>3 DEF EgressInv, Latest, Dated

(* No answer given before the next VM comes is dated by it. *)
LEMMA DatedLater ==
  ASSUME EgressInv, placed' = placed + 1, NEW turn, NEW pol, Dated(turn, pol)
  PROVE  Dated(turn, pol)'
<1>1. turn \in 0..placed' /\ turn # placed'
  BY SMT DEF EgressInv, Dated
<1> QED BY <1>1 DEF Dated

LEMMA Placing ==
  ASSUME EgressInv, Place
  PROVE  EgressInv'
<1>1. UNCHANGED <<cache, ask, conn>> /\ placed' = placed + 1 /\ holder' = placed'
  BY DEF Place
<1>2. placed' \in Nat
  BY SMT, <1>1 DEF EgressInv
<1>3. /\ cache' # None => Dated(cache.turn, cache.pol)'
      /\ \A w \in Askers : ask'[w] # None => Dated(ask[w].turn, ask[w].pol)'
  BY <1>1, DatedLater DEF EgressInv
<1> QED BY <1>1, <1>2, <1>3 DEF EgressInv, Waits

LEMMA Lookups ==
  ASSUME NoneApart, EgressInv, NEW w \in Askers, Rpc(w)
  PROVE  EgressInv'
<1>1. PICK pol : /\ Latest(pol)
                 /\ ask' = [ask EXCEPT ![w] = [at |-> "insert", pol |-> pol, turn |-> ask[w].turn]]
  BY ResolvedLatest DEF Rpc
<1>2. UNCHANGED <<holder, placed, cache, conn>> /\ ask[w] # None
  BY DEF Rpc, daemon
<1>3. /\ DOMAIN ask' = Askers
      /\ ask'[w] # None /\ ask'[w].pol = pol /\ ask'[w].turn = ask[w].turn
      /\ \A v \in Askers : v # w => ask'[v] = ask[v]
  BY <1>1 DEF EgressInv, NoneApart
<1>4. Dated(ask[w].turn, pol)
  BY <1>1, <1>2 DEF EgressInv, Dated
<1>5. \A v \in Askers : ask'[v] # None => Dated(ask'[v].turn, ask'[v].pol)
  BY <1>3, <1>4 DEF EgressInv
<1>6. \A v \in Askers : ask'[v] # None => ask[v] # None /\ ask'[v].turn = ask[v].turn
  BY <1>2, <1>3
<1>7. \A c \in Conns : Waits(c)'
  BY <1>2, <1>6 DEF EgressInv, Waits, Askers
<1> QED BY <1>2, <1>3, <1>5, <1>7 DEF EgressInv, Latest, Dated

LEMMA Accepting ==
  ASSUME NoneApart, EgressInv, NEW c \in Conns, Accept(c)
  PROVE  EgressInv'
<1>1. UNCHANGED <<holder, placed, cache>> /\ holder = placed /\ conn[c] = None
  BY DEF Accept, daemon, EgressInv
<1>2. c \in Askers /\ Conns \subseteq Askers /\ ask[c] = None
  BY <1>1 DEF Askers, EgressInv, Waits
<1>3. CASE Fresh
  <2>1. Named(c, holder, cache.pol) /\ UNCHANGED ask
    BY <1>3 DEF Accept
  <2>2. DOMAIN conn' = Conns /\ \A d \in Conns : d # c => conn'[d] = conn[d]
    BY <2>1 DEF Named, EgressInv
  <2>3. \A d \in Conns : Waits(d)'
    BY <1>2, <2>1, <2>2 DEF EgressInv, Waits
  <2> QED BY <1>1, <2>1, <2>2, <2>3 DEF EgressInv, Latest, Dated
<1>4. CASE ~Fresh
  <2>1. /\ ask' = [ask EXCEPT ![c] = [at |-> "rpc", pol |-> NoVm, turn |-> placed]]
        /\ conn' = [conn EXCEPT ![c] = [owner |-> placed, at |-> "asking", pol |-> NoVm]]
    BY <1>1, <1>4 DEF Accept
  <2>2. /\ DOMAIN ask' = Askers /\ ask'[c].pol = NoVm /\ ask'[c].turn = placed
        /\ \A w \in Askers : w # c => ask'[w] = ask[w]
    BY <1>2, <2>1 DEF EgressInv
  <2>3. /\ DOMAIN conn' = Conns /\ conn'[c] # None
        /\ conn'[c].at = "asking" /\ conn'[c].owner = placed
        /\ \A d \in Conns : d # c => conn'[d] = conn[d]
    BY <2>1 DEF EgressInv, NoneApart
  <2>4. \A w \in Askers : ask'[w] # None => Dated(ask'[w].turn, ask'[w].pol)
    BY <2>2, ResolvedLatest DEF EgressInv
  <2>5. \A d \in Conns : Waits(d)'
    BY <1>2, <2>2, <2>3 DEF EgressInv, Waits
  <2> QED BY <1>1, <2>2, <2>3, <2>4, <2>5 DEF EgressInv, Latest, Dated
<1> QED BY <1>3, <1>4

(* An answer is taken for the address, and its asker is done. *)
LEMMA Answered ==
  ASSUME EgressInv, NEW w \in Askers, ask[w] # None,
         cache' = [pol |-> ask[w].pol, fresh |-> TRUE, turn |-> ask[w].turn],
         ask' = [ask EXCEPT ![w] = None], UNCHANGED <<holder, placed>>
  PROVE  /\ Dated(cache.turn, cache.pol)'
         /\ DOMAIN ask' = Askers /\ ask'[w] = None
         /\ \A v \in Askers : v # w => ask'[v] = ask[v]
         /\ \A v \in Askers : ask'[v] # None => Dated(ask[v].turn, ask[v].pol)'
<1>1. Dated(ask[w].turn, ask[w].pol) /\ cache'.pol = ask[w].pol /\ cache'.turn = ask[w].turn
  BY DEF EgressInv
<1>2. /\ DOMAIN ask' = Askers /\ ask'[w] = None
      /\ \A v \in Askers : v # w => ask'[v] = ask[v]
  BY DEF EgressInv
<1> QED BY <1>1, <1>2 DEF EgressInv, Dated, Latest

LEMMA Inserting ==
  ASSUME EgressInv, NEW c \in Conns, Insert(c)
  PROVE  EgressInv'
<1>1. c \in Askers /\ Conns \subseteq Askers
  BY DEF Askers
<1>2. UNCHANGED <<holder, placed>> /\ ask[c] # None
  BY DEF Insert, daemon
<1>3. /\ Dated(cache.turn, cache.pol)'
      /\ DOMAIN ask' = Askers /\ ask'[c] = None
      /\ \A v \in Askers : v # c => ask'[v] = ask[v]
      /\ \A v \in Askers : ask'[v] # None => Dated(ask[v].turn, ask[v].pol)'
  BY <1>1, <1>2, Answered DEF Insert
<1>4. DOMAIN conn' = Conns /\ \A d \in Conns : d # c => conn'[d] = conn[d]
  BY DEF Insert, Named, EgressInv
<1>5. \A d \in Conns : Waits(d)'
  BY <1>1, <1>3, <1>4 DEF EgressInv, Waits
<1> QED BY <1>2, <1>3, <1>4, <1>5 DEF EgressInv

(* Closing what is served leaves alone what still waits for its answer. *)
LEMMA ClosingWaits ==
  ASSUME EgressInv, NEW keep, CloseStale(keep),
         \A c \in Conns : ask'[c] = ask[c]
  PROVE  DOMAIN conn' = Conns /\ \A c \in Conns : Waits(c)'
<1>1. DOMAIN conn' = Conns
  BY DEF CloseStale
<1>2. ASSUME NEW c \in Conns PROVE Waits(c)'
  <2>1. conn'[c] = conn[c] \/ conn[c].at = "serving"
    BY DEF CloseStale, Serving
  <2>2. "serving" # "asking"
    OBVIOUS
  <2> QED BY <2>1, <2>2 DEF Waits, EgressInv
<1> QED BY <1>1, <1>2

LEMMA Watching ==
  ASSUME Watch \notin Conns, EgressInv, WatchRound \/ WatchInsert
  PROVE  EgressInv'
<1>1. Watch \in Askers /\ UNCHANGED <<holder, placed>>
  BY DEF Askers, WatchRound, WatchInsert, daemon
<1>2. \A c \in Conns : c \in Askers /\ c # Watch
  BY DEF Askers
<1>3. CASE WatchRound
  <2>1. cache' = cache
    BY <1>3 DEF WatchRound
  <2>2. CASE Fresh
    <3>1. CloseStale(Keep(cache.pol)) /\ UNCHANGED ask
      BY <1>3, <2>2 DEF WatchRound
    <3>2. DOMAIN conn' = Conns /\ \A c \in Conns : Waits(c)'
      BY <3>1, ClosingWaits
    <3> QED BY <1>1, <2>1, <3>1, <3>2 DEF EgressInv, Latest, Dated
  <2>3. CASE ~Fresh
    <3>1. UNCHANGED conn /\ ask' = [ask EXCEPT ![Watch] = [at |-> "rpc", pol |-> NoVm, turn |-> placed]]
      BY <1>3, <2>3 DEF WatchRound
    <3>2. /\ DOMAIN ask' = Askers /\ ask'[Watch].pol = NoVm /\ ask'[Watch].turn = placed
          /\ \A w \in Askers : w # Watch => ask'[w] = ask[w]
      BY <1>1, <3>1 DEF EgressInv
    <3>3. \A w \in Askers : ask'[w] # None => Dated(ask'[w].turn, ask'[w].pol)
      BY <3>2, ResolvedLatest DEF EgressInv
    <3>4. \A c \in Conns : Waits(c)'
      BY <1>2, <3>1, <3>2 DEF EgressInv, Waits
    <3> QED BY <1>1, <2>1, <3>1, <3>2, <3>3, <3>4 DEF EgressInv, Latest, Dated
  <2> QED BY <2>2, <2>3
<1>4. CASE WatchInsert
  <2>1. /\ Dated(cache.turn, cache.pol)' /\ DOMAIN ask' = Askers
        /\ \A v \in Askers : v # Watch => ask'[v] = ask[v]
        /\ \A v \in Askers : ask'[v] # None => Dated(ask[v].turn, ask[v].pol)'
    BY <1>1, <1>4, Answered DEF WatchInsert
  <2>2. DOMAIN conn' = Conns /\ \A c \in Conns : Waits(c)'
    BY <1>2, <1>4, <2>1, ClosingWaits DEF WatchInsert
  <2> QED BY <1>1, <2>1, <2>2 DEF EgressInv
<1> QED BY <1>3, <1>4

(* A connection that is served, becomes a tunnel or ends waits for nothing. *)
LEMMA Serves ==
  ASSUME EgressInv, NEW c \in Conns, Register(c) \/ End(c) \/ Upgrade(c) \/ WsEnd(c)
  PROVE  EgressInv'
<1>1. UNCHANGED <<holder, placed, cache, ask>>
  BY DEF Register, End, Upgrade, WsEnd, daemon
<1>2. DOMAIN conn' = Conns /\ \A d \in Conns : d # c => conn'[d] = conn[d]
  BY DEF Register, End, Upgrade, WsEnd, EgressInv
<1>3. conn'[c] = conn[c] \/ conn[c].at \in {"named", "serving"}
  BY DEF Register, End, Upgrade, WsEnd
<1>4. "named" # "asking" /\ "serving" # "asking"
  OBVIOUS
<1>5. Waits(c)'
  BY <1>1, <1>3, <1>4 DEF EgressInv, Waits
<1>6. \A d \in Conns : Waits(d)'
  BY <1>1, <1>2, <1>5 DEF EgressInv, Waits
<1> QED BY <1>1, <1>2, <1>6 DEF EgressInv, Latest, Dated

LEMMA EgressStep ==
  ASSUME NoneApart, Watch \notin Conns, EgressInv, [Next]_vars
  PROVE  EgressInv'
<1>1. CASE SetPolicy \/ Leave \/ UNCHANGED vars
  <2>1. UNCHANGED <<placed, cache, ask, conn>> /\ holder' \in {0, placed}
    BY <1>1 DEF SetPolicy, Leave, vars, EgressInv
  <2> QED BY <2>1 DEF EgressInv, Latest, Dated, Waits
<1>2. CASE Expire
  <2>1. /\ UNCHANGED <<holder, placed, ask, conn>> /\ cache # None
        /\ cache' = [pol |-> cache.pol, fresh |-> FALSE, turn |-> cache.turn]
    BY <1>2 DEF Expire, daemon
  <2>2. cache'.pol = cache.pol /\ cache'.turn = cache.turn
    BY <2>1
  <2> QED BY <2>1, <2>2 DEF EgressInv, Latest, Dated, Waits
<1> QED
  BY <1>1, <1>2, Placing, Lookups, Accepting, Inserting, Watching, Serves DEF Next

(* A connection that is named is named by an answer dated by its VM, once  *)
(* the older ones have gone.                                               *)
LEMMA NamedOwn ==
  ASSUME NoneApart, EgressInv, Settled, NEW c \in Conns, NEW pol, NEW turn,
         Dated(turn, pol), turn = placed, Named(c, placed, pol), IsNamed(c)'
  PROVE  conn'[c].pol.vm = conn'[c].owner
<1>1. conn'[c] = IF Admits(pol) THEN [owner |-> placed, at |-> "named", pol |-> pol] ELSE None
  BY DEF Named, EgressInv
<1>2. Admits(pol) /\ conn'[c] = [owner |-> placed, at |-> "named", pol |-> pol]
  BY <1>1 DEF IsNamed
<1>3. pol.vm = placed
  BY <1>2 DEF Admits, Latest, Dated
<1>4. conn'[c].pol = pol /\ conn'[c].owner = placed
  BY SMT, <1>2
<1> QED BY <1>3, <1>4

LEMMA NamingStep ==
  ASSUME NoneApart, EgressInv, Settled, [Next]_vars,
         NEW c \in Conns, ~IsNamed(c), IsNamed(c)'
  PROVE  conn'[c].pol.vm = conn'[c].owner
<1>1. conn'[c] # conn[c]
  BY DEF IsNamed
<1>2. CASE Accept(c)
  <2>1. Fresh /\ Named(c, holder, cache.pol) /\ holder = placed
    <3>1. SUFFICES ASSUME ~Fresh PROVE FALSE
      BY <1>2 DEF Accept, EgressInv
    <3>2. conn' = [conn EXCEPT ![c] = [owner |-> holder, at |-> "asking", pol |-> NoVm]]
      BY <1>2, <3>1 DEF Accept
    <3>3. conn'[c].at = "asking"
      BY <3>2 DEF EgressInv
    <3> QED BY <3>3 DEF IsNamed
  <2>2. cache.turn = placed /\ Dated(cache.turn, cache.pol)
    BY <2>1 DEF Settled, Fresh, EgressInv
  <2> QED BY <2>1, <2>2, NamedOwn
<1>3. CASE Insert(c)
  <2>1. ask[c] # None /\ Named(c, conn[c].owner, ask[c].pol) /\ c \in Askers
    BY <1>3 DEF Insert, Askers
  <2>2. ask[c].turn = placed /\ conn[c].owner = placed /\ Dated(ask[c].turn, ask[c].pol)
    BY <2>1 DEF Settled, EgressInv, Waits
  <2> QED BY <2>1, <2>2, NamedOwn
<1>4. CASE \E d \in Conns : d # c /\ (Accept(d) \/ Insert(d))
  <2>1. PICK d \in Conns : d # c /\ (Accept(d) \/ Insert(d))
    BY <1>4
  <2>2. conn'[c] = conn[c]
    BY <2>1 DEF Accept, Insert, Named, EgressInv
  <2> QED BY <1>1, <2>2
<1>5. CASE \E d \in Conns : Register(d) \/ End(d) \/ Upgrade(d) \/ WsEnd(d)
  <2>1. PICK d \in Conns : Register(d) \/ End(d) \/ Upgrade(d) \/ WsEnd(d)
    BY <1>5
  <2>2. d = c
    <3>1. SUFFICES ASSUME d # c PROVE FALSE
      OBVIOUS
    <3>2. conn'[c] = conn[c]
      BY <2>1, <3>1 DEF Register, End, Upgrade, WsEnd, EgressInv
    <3> QED BY <1>1, <3>2
  <2>3. "named" # "asking" /\ "serving" # "asking"
    OBVIOUS
  <2>4. conn[c] # None /\ conn[c].at \in {"named", "serving"}
    BY <1>1, <2>1, <2>2 DEF Register, End, Upgrade, WsEnd
  <2> QED BY <2>3, <2>4 DEF IsNamed
<1>6. CASE WatchRound \/ WatchInsert
  <2>1. conn'[c] = conn[c] \/ conn'[c] = None
    BY <1>6 DEF WatchRound, WatchInsert, CloseStale
  <2> QED BY <1>1, <2>1 DEF IsNamed
<1>7. CASE Place \/ SetPolicy \/ Leave \/ Expire \/ (\E w \in Askers : Rpc(w)) \/ UNCHANGED vars
  <2>1. conn' = conn
    BY <1>7 DEF Place, SetPolicy, Leave, Expire, Rpc, vars
  <2> QED BY <1>1, <2>1
<1> QED BY <1>2, <1>3, <1>4, <1>5, <1>6, <1>7 DEF Next

(* Once what was asked before a VM came to its address has been answered   *)
(* and has expired, each connection it makes is admitted under its own     *)
(* policy, for any number of connections, VMs and generations, however     *)
(* lookups, their cache, the watcher's rounds and the VMs' coming and      *)
(* going interleave (single_conn, edge_conn, RpcResolver::resolve).        *)
THEOREM OwnPolicyHolds ==
  ASSUME NoneApart, Watch \notin Conns
  PROVE  Spec => OwnPolicy
<1>1. EgressInv /\ [Next]_vars => EgressInv'
  BY EgressStep
<1>2. EgressInv /\ [Next]_vars =>
        [\A c \in Conns : Settled /\ ~IsNamed(c) /\ IsNamed(c)' => conn'[c].pol.vm = conn'[c].owner]_vars
  BY NamingStep
<1> QED BY <1>1, <1>2, EgressInit, PTL DEF Spec, OwnPolicy
=============================================================================
