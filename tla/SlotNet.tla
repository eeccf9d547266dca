------------------------------- MODULE SlotNet -------------------------------
(* The network manager, iso-network-manager: the plan of a slot's network      *)
(* (plan.rs), the kernel calls that converge, re-steer and destroy it          *)
(* (netlink.rs, nft.rs, conntrack.rs), and what the host's rules then do to    *)
(* the packets of its VM.  Any call may fail and leave the ones before it in   *)
(* place; the slots are worked on concurrently.                                *)
(*                                                                             *)
(* A call of the manager is a sequence of kernel calls still to be made.  The  *)
(* caller is the control plane: it boots a VM after an apply that answered Ok, *)
(* rolls a failed one back, and frees a slot after its teardown, whatever that *)
(* answered (control.rs, finalize_stop and rollback).                          *)
EXTENDS FiniteSets, Naturals, Sequences

CONSTANTS
  None,
  Slots,       \* slots in play
  Ports,       \* host ports that forwards may open
  MaxCalls,    \* calls of the manager in progress at once
  MaxVms,      \* occupancies of all slots together
  MaxChanges,  \* policy changes of live VMs together
  MaxFlows     \* conntrack entries at once

VARIABLES
  net,      \* slot -> what the kernel has for it
  op,       \* slot -> the manager's call in progress
  vm,       \* slot -> its occupant, 0 when the slot is free
  want,     \* slot -> the policy its occupant was last given
  vmm,      \* slot -> a VMM holds the TAP
  answer,   \* slot -> what the occupant's last apply or reapply answered
  clean,    \* slot -> its last teardown answered Ok
  ct,       \* the host's conntrack entries
  vms,      \* occupants so far
  changes   \* policy changes so far

vars == <<net, op, vm, want, vmm, answer, clean, ct, vms, changes>>

--------------------------------------------------------------------------------
(* The plan. *)

Vh(s) == <<"vh", s>>
Vp(s) == <<"vp", s>>
VethNet == {Vh(s) : s \in Slots} \cup {Vp(s) : s \in Slots}
\* The services address, any other address of the host, any other machine's.
Services == <<"services">>
HostAddr == <<"host">>
World == <<"world">>
Uplink == <<"uplink">>
Dropped == <<"dropped">>
Addrs == VethNet \cup {Services, HostAddr, World}

\* What iso serves there besides the proxy: by default DNS and the metadata
\* server, of which DNS (both protocols) stands for all.
ServicePorts == {<<"udp", "dns">>, <<"tcp", "dns">>}
Protos == {"tcp", "udp", "icmp"}
\* The destinations a VM tries; a port matters only on the services address,
\* the one place a rule for the VM's packets looks at it.
Destinations == {<<daddr, "other">> : daddr \in Addrs} \cup
                {<<Services, dport>> : dport \in {"dns", "proxy"}}

\* A rule: the values each field it names must have, and its verdict.
Rule(match, verdict) == [match |-> match, verdict |-> verdict]
Dnat(to, port) == [do |-> "dnat", to |-> to, port |-> port]
Accept == [do |-> "accept"]
Drop == [do |-> "drop"]

DropFrom(s) == Rule([iif |-> {Vh(s)}], Drop)
AcceptService(s, svc) ==
  Rule([iif |-> {Vh(s)}, daddr |-> {Services}, proto |-> {svc[1]}, dport |-> {svc[2]}],
       Accept)
RedirectProxy(s, proto) ==
  Rule([iif |-> {Vh(s)}, daddr |-> Addrs \ {Services}, proto |-> {proto}],
       Dnat(Services, "proxy"))

\* The chains of a slot's table in the root namespace.  The packets here open
\* flows, so `established,related accept' matches none of them.
Prerouting(s, p) ==
  (IF p.ingress = {} THEN <<>>
   ELSE <<Rule([iif |-> {Uplink}, proto |-> {"tcp"}, dport |-> p.ingress],
               Dnat(Vp(s), "vm_port"))>>)
  \o (IF p.egress = "proxy" /\ ~p.direct
      THEN <<RedirectProxy(s, "tcp"), RedirectProxy(s, "udp")>> ELSE <<>>)
Forward(s, p) ==
  <<Rule([iif |-> {Uplink}, oif |-> {Vh(s)}], Accept),
    Rule([iif |-> {Vh(s)}, daddr |-> VethNet], Drop)>>
  \o (IF p.direct /\ p.egress # "deny"
      THEN <<Rule([iif |-> {Vh(s)}, oif |-> {Uplink}], Accept)>> ELSE <<>>)
  \o <<DropFrom(s)>>
Input(s) ==
  <<AcceptService(s, <<"udp", "dns">>), AcceptService(s, <<"tcp", "dns">>),
    AcceptService(s, <<"tcp", "proxy">>),
    DropFrom(s)>>
HostRuleset(s, p, kind) ==
  CASE kind = "prerouting" -> Prerouting(s, p)
    [] kind = "forward" -> Forward(s, p)
    [] kind = "input" -> Input(s)

\* The namespace's routes: the services address in every mode, the default
\* route when egress is not denied.
Routes(p) == {"services"} \cup (IF p.egress = "deny" THEN {} ELSE {"default"})

Policies == [egress : {"deny", "proxy"}, ingress : SUBSET Ports, direct : {FALSE}]
Builder == [egress |-> "proxy", ingress |-> {}, direct |-> TRUE]

--------------------------------------------------------------------------------
(* What the host does with a packet that opens a flow. *)

\* The verdict of the chain's first matching rule; every chain's policy is accept.
Verdict(rules, pkt) ==
  LET hits == {i \in 1 .. Len(rules) :
                \A f \in DOMAIN rules[i].match : pkt[f] \in rules[i].match[f]}
  IN IF hits = {} THEN Accept
     ELSE rules[CHOOSE i \in hits : \A j \in hits : i <= j].verdict

Tables == {s \in Slots : net[s].host # None}
Chain(s, kind) == HostRuleset(s, net[s].host, kind)

\* The packet after the prerouting hook.  Chains of one priority run in the
\* order they were registered in and the first translation binds, so with
\* several that match, any may.
Translated(pkt) ==
  LET binds == {v \in {Verdict(Chain(s, "prerouting"), pkt) : s \in Tables} : v.do = "dnat"}
  IN IF binds = {} THEN {pkt}
     ELSE {[pkt EXCEPT !.daddr = v.to, !.dport = v.port] : v \in binds}

\* A drop by any table is final; an accept only ends that table's chain.
Passes(pkt, kind) == \A s \in Tables : Verdict(Chain(s, kind), pkt).do # "drop"

Oif(daddr) == IF daddr \in {Vp(s) : s \in Slots} THEN Vh(daddr[2]) ELSE Uplink
IsLocal(daddr) == daddr \in {Services, HostAddr} \cup {Vh(s) : s \in Slots}

\* Where the translated packet ends up.
Ends(pkt) ==
  CASE IsLocal(pkt.daddr) ->
         IF Passes(pkt, "input") THEN <<pkt.daddr, pkt.proto, pkt.dport>> ELSE Dropped
    [] ~IsLocal(pkt.daddr) ->
         LET out == [pkt EXCEPT !.oif = Oif(pkt.daddr)]
         IN IF Passes(out, "forward") THEN out.oif ELSE Dropped

Packet(iif, daddr, proto, dport) ==
  [iif |-> iif, oif |-> <<>>, daddr |-> daddr, proto |-> proto, dport |-> dport]
Delivered(iif, daddr, proto, dport) ==
  {Ends(pkt) : pkt \in Translated(Packet(iif, daddr, proto, dport))}

\* The slot's links carry packets between its VM and the host.
Path(s) == net[s].peer = "netns" /\ net[s].up = {"host", "peer", "tap"}
\* The namespace routes the VM's packet out, and translates its source.
Leaves(s, daddr) ==
  /\ Path(s)
  /\ net[s].inner # None
  /\ (IF daddr = Services THEN "services" ELSE "default") \in net[s].routes
--------------------------------------------------------------------------------
(* The kernel calls, each on the record n of a slot's network. *)

Absent == [ns |-> FALSE, peer |-> "none", up |-> {}, tap |-> FALSE, routes |-> {},
           sysctls |-> FALSE, host |-> None, inner |-> None]

\* A new namespace, or the one of that name.
EnsureNs(n) == [n EXCEPT !.ns = TRUE]
\* The veth pair, unless the host side exists.
EnsureVeth(n) == IF n.peer = "none" THEN [n EXCEPT !.peer = "root"] ELSE n
AddrAndUp(n, link) == [n EXCEPT !.up = @ \cup {link}]
\* The peer is moved when it is found in the root namespace.
MovePeer(n) == IF n.peer = "root" THEN [n EXCEPT !.peer = "netns"] ELSE n
\* One batch resets a table and fills it.
ApplyHost(n, p) == [n EXCEPT !.host = p]
ApplyInner(n, p) == [n EXCEPT !.inner = p]
CreateTap(n) == [n EXCEPT !.tap = TRUE]
AddRoutes(n, p) == [n EXCEPT !.routes = @ \cup Routes(p)]
DeleteTable(n) == [n EXCEPT !.host = None]
\* A teardown that leaves the namespace.
KeepNs(n) == n
\* The namespace takes the peer (so the pair), the TAP and its own table with it.
RemoveNs(n) ==
  IF n.ns THEN [Absent EXCEPT !.host = n.host, !.peer = IF n.peer = "root" THEN "root" ELSE "none",
                              !.up = IF n.peer = "root" THEN n.up \cap {"host"} ELSE {}]
  ELSE n
\* The backstop.
DeleteVeth(n) == [n EXCEPT !.peer = "none", !.up = @ \cap {"tap"}]

Converge == <<"ns", "veth", "hostaddr", "move", "host", "peeraddr", "tap", "tapaddr",
              "routes", "sysctls", "inner">>
\* A reset in two batches.
ReapplyTwoBatches == <<"table", "host", "ns", "inner">>
Reapply == <<"host", "ns", "inner">>
\* The flush before the links are gone.
DestroyFlushFirst == <<"dump", "delete", "table", "unns", "link">>
Destroy == <<"table", "unns", "link", "dump", "delete">>

KernelCall(n, step, p) ==
  CASE step = "ns" -> EnsureNs(n)
    [] step = "veth" -> EnsureVeth(n)
    [] step = "hostaddr" -> AddrAndUp(n, "host")
    [] step = "move" -> MovePeer(n)
    [] step = "host" -> ApplyHost(n, p)
    [] step = "peeraddr" -> AddrAndUp(n, "peer")
    [] step = "tap" -> CreateTap(n)
    [] step = "tapaddr" -> AddrAndUp(n, "tap")
    [] step = "routes" -> AddRoutes(n, p)
    [] step = "sysctls" -> [n EXCEPT !.sysctls = TRUE]
    [] step = "inner" -> ApplyInner(n, p)
    [] step = "table" -> DeleteTable(n)
    [] step = "unns" -> RemoveNs(n)
    [] step = "link" -> DeleteVeth(n)
    [] step \in {"dump", "delete"} -> n

\* The entries a teardown picks: started by the VM or by the host side of its
\* link, or translated to the VM.
Doomed(s) == {e \in ct : e.slot = s}
\* The entries that were in the dump are deleted, each by its tuple and id.
Flushed(step, doomed) == IF step = "delete" THEN ct \ doomed ELSE ct

--------------------------------------------------------------------------------
Idle == [name |-> "none", steps |-> <<>>, pol |-> None, doomed |-> {}]
Call(name, steps, p) == [name |-> name, steps |-> steps, pol |-> p, doomed |-> {}]

Init ==
  /\ net = [s \in Slots |-> Absent]
  /\ op = [s \in Slots |-> Idle]
  /\ vm = [s \in Slots |-> 0]
  /\ want = [s \in Slots |-> None]
  /\ vmm = [s \in Slots |-> FALSE]
  /\ answer = [s \in Slots |-> "none"]
  /\ clean = [s \in Slots |-> TRUE]
  /\ ct = {}
  /\ vms = 0
  /\ changes = 0

Room == Cardinality({s \in Slots : op[s] # Idle}) < MaxCalls

\* A port is in one VM's forwards at a time (the port allocator).
PortsFree(s, p) ==
  \A t \in Slots \ {s} : want[t] # None => p.ingress \cap want[t].ingress = {}

\* apply, for a VM placed on a free slot or for the bake's builder.
Apply(s, p) ==
  /\ vm[s] = 0 /\ op[s] = Idle /\ Room /\ vms < MaxVms /\ PortsFree(s, p)
  /\ vms' = vms + 1
  /\ vm' = [vm EXCEPT ![s] = vms + 1]
  /\ want' = [want EXCEPT ![s] = p]
  /\ op' = [op EXCEPT ![s] = Call("apply", Converge, p)]
  /\ UNCHANGED <<net, vmm, answer, clean, ct, changes>>

\* The VM's boot, which opens the TAP.
Boot(s) ==
  /\ vm[s] # 0 /\ op[s] = Idle /\ answer[s] = "ok" /\ ~vmm[s]
  /\ vmm' = [vmm EXCEPT ![s] = TRUE]
  /\ UNCHANGED <<net, op, vm, want, answer, clean, ct, vms, changes>>

\* reapply_policy, on a live VM.
ReapplyPolicy(s, p) ==
  /\ vm[s] # 0 /\ op[s] = Idle /\ Room /\ vmm[s] /\ ~want[s].direct
  /\ changes < MaxChanges /\ p # want[s] /\ PortsFree(s, p)
  /\ changes' = changes + 1
  /\ want' = [want EXCEPT ![s] = p]
  /\ op' = [op EXCEPT ![s] = Call("reapply", Reapply, p)]
  /\ UNCHANGED <<net, vm, vmm, answer, clean, ct, vms>>

Release == Call("teardown", Destroy, None)

\* teardown, with the VMM gone or (its own teardown failed) still there.
Teardown(s) ==
  /\ vm[s] # 0 /\ op[s] = Idle /\ Room
  /\ \E gone \in BOOLEAN : vmm' = [vmm EXCEPT ![s] = @ /\ ~gone]
  /\ op' = [op EXCEPT ![s] = Release]
  /\ UNCHANGED <<net, vm, want, answer, clean, ct, vms, changes>>

\* The manager's call answers.  An apply that failed is rolled back; a teardown
\* frees the slot.  A VMM whose namespace was removed has no link any more.
Answer(s, n, ok) ==
  LET name == op[s].name IN
  /\ answer' = [answer EXCEPT ![s] = IF name = "teardown" THEN "none"
                                     ELSE IF ok THEN "ok" ELSE "err"]
  /\ op' = [op EXCEPT ![s] = IF name = "apply" /\ ~ok THEN Release ELSE Idle]
  /\ vm' = [vm EXCEPT ![s] = IF name = "teardown" THEN 0 ELSE @]
  /\ want' = [want EXCEPT ![s] = IF name = "teardown" THEN None ELSE @]
  /\ clean' = [clean EXCEPT ![s] = IF name = "teardown" THEN ok ELSE @]
  /\ vmm' = [vmm EXCEPT ![s] = @ /\ n.tap]

\* The links and the TAP the step works on must be there, and the TAP not busy.
Possible(s, step) ==
  CASE step = "peeraddr" -> net[s].peer = "netns"
    [] step = "tap" -> ~vmm[s]
    [] OTHER -> TRUE

\* The next kernel call of the manager's call on the slot succeeds.
Step(s) ==
  /\ op[s] # Idle
  /\ LET step == Head(op[s].steps)
         n == KernelCall(net[s], step, op[s].pol)
     IN /\ Possible(s, step)
        /\ net' = [net EXCEPT ![s] = n]
        /\ ct' = Flushed(step, op[s].doomed)
        /\ IF Len(op[s].steps) = 1 THEN Answer(s, n, TRUE)
           ELSE /\ op' = [op EXCEPT ![s].steps = Tail(@),
                                    ![s].doomed = IF step = "dump" THEN Doomed(s) ELSE @]
                /\ UNCHANGED <<vm, want, vmm, answer, clean>>
        /\ UNCHANGED <<vms, changes>>

\* It fails, and the call with it.  The deletes of the host table and of the
\* link are tried for what they do: their errors are dropped, and they are
\* taken to succeed.
Fail(s) ==
  /\ op[s] # Idle
  /\ Head(op[s].steps) \notin {"table", "link"}
  /\ Answer(s, net[s], FALSE)
  /\ UNCHANGED <<net, ct, vms, changes>>

\* A flow the host tracks: one the VM opens, one forwarded to it, or one the
\* host side of the link opens.
Flow(s) ==
  /\ vmm[s] /\ vm[s] # 0 /\ Path(s) /\ Cardinality(ct) < MaxFlows
  /\ \E dir \in {"out", "in", "host"} :
       /\ dir = "out" => Leaves(s, Services)
       /\ dir = "in" => /\ net[s].inner # None /\ net[s].host # None
                        /\ net[s].host.ingress \cap net[s].inner.ingress # {}
       /\ ct' = ct \cup {[slot |-> s, vm |-> vm[s], dir |-> dir]}
  /\ UNCHANGED <<net, op, vm, want, vmm, answer, clean, vms, changes>>

Next ==
  \E s \in Slots :
    \/ \E p \in Policies \cup {Builder} : Apply(s, p)
    \/ \E p \in Policies : ReapplyPolicy(s, p)
    \/ Boot(s)
    \/ Teardown(s)
    \/ Step(s)
    \/ Fail(s)
    \/ Flow(s)

Spec == Init /\ [][Next]_vars
--------------------------------------------------------------------------------
Live(s) == vmm[s] /\ vm[s] # 0 /\ answer[s] = "ok"

\* From the moment a VM has booted, and through every re-steer of it and every
\* call on the other slots, a flow it opens ends at a port iso serves on the
\* services address or is dropped: never at another port of the host, never at
\* another VM, and at the uplink only for the bake's builder (plan.rs
\* host_ruleset; nft.rs resets a table in one batch).
Contained ==
  \A s \in Slots :
    vmm[s] /\ vm[s] # 0 /\ answer[s] # "none" /\ op[s].name # "teardown" =>
    \A dst \in Destinations, proto \in Protos :
      \A end \in Delivered(Vh(s), dst[1], proto, dst[2]) :
        \/ end = Dropped
        \/ end \in {<<Services, svc[1], svc[2]>> :
                      svc \in ServicePorts \cup {<<"tcp", "proxy">>}}
        \/ end = Uplink /\ want[s].direct

\* A VM placed on a slot whose last teardown answered Ok finds none of its
\* predecessors' flows in the host's conntrack table (netlink.rs destroy: the
\* flush comes after the links are gone).
NextStartsClean ==
  \A s \in Slots : vm[s] # 0 /\ clean[s] =>
    \A e \in ct : e.slot = s => e.vm = vm[s]

\* An apply that answers Ok has made all of the plan, whatever an earlier call
\* that failed part-way left behind; and only the plan's routes, unless it
\* found those of a teardown that failed (netlink.rs converge).
Converged ==
  \A s \in Slots : Live(s) /\ op[s] = Idle /\ changes = 0 =>
    /\ net[s] = [ns |-> TRUE, peer |-> "netns", up |-> {"host", "peer", "tap"},
                 tap |-> TRUE, routes |-> net[s].routes, sysctls |-> TRUE,
                 host |-> want[s], inner |-> want[s]]
    /\ Routes(want[s]) \subseteq net[s].routes
    /\ clean[s] => net[s].routes = Routes(want[s])

\* A slot starts anew with each VM: none of the last one's flows, and all of
\* the plan (netlink.rs converge and destroy).
StartsClean == NextStartsClean /\ Converged

\* A live VM that a policy change answered Ok for and that is under the proxy
\* has its web traffic taken there (docs/API.md: the change takes effect on a
\* live VM without a restart).  It does not hold: reapply adds no route, and a
\* VM placed under deny has none to the outside.
TakesEffect ==
  \A s \in Slots : Live(s) /\ op[s] = Idle /\ want[s].egress = "proxy" /\ ~want[s].direct =>
    /\ Leaves(s, World)
    /\ Delivered(Vh(s), World, "tcp", "other") = {<<Services, "tcp", "proxy">>}
=============================================================================
