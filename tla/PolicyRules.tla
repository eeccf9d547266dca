---------------------------- MODULE PolicyRules ----------------------------
(***************************************************************************)
(* The egress rule language (iso-policy, lib.rs) and the three places that *)
(* read a VM's policy: the identify RPC and the proxy's resolver, which    *)
(* carry it as text from the record to the proxy, the proxy's phases, and  *)
(* the DNS gate's reach.  The functions are pure; a behaviour is one       *)
(* record.  A host name is its sequence of labels and a path its sequence  *)
(* of segments; letter case and a trailing dot are left out.               *)
(***************************************************************************)
EXTENDS Naturals, Sequences, FiniteSets

CONSTANTS None

VARIABLES record   \* [allow, rules] of a VM, as the client gave them

Actions == {"allow", "deny", "tunnel"}
Schemes == {"https", "wss", "tcp"}

\* The hosts, paths and ports asked about, and the texts rules are written in.
Hosts == {<<"x">>, <<"a", "x">>, <<"b", "a", "x">>, <<"y">>}
Paths == {<<"">>, <<"p">>, <<"p", "q">>}
PortsAsked == {443, 5432}
HostTexts == {<<"x">>, <<"a", "x">>, <<"*", "x">>, <<"*">>, <<"a", "*">>}
PathTexts == {None, <<"p">>, <<"*", "q">>, <<"p", "**">>}
Texts == [action : Actions, scheme : Schemes, host : HostTexts,
          port : {None, 5432}, path : PathTexts]

(***************************************************************************)
(* HostPattern and PathPattern.                                            *)
(***************************************************************************)
Bad == [kind |-> "bad"]

\* HostPattern::parse: `*` alone, or as the first label.
HostPattern(text) ==
  IF text = <<"*">> THEN [kind |-> "any"]
  ELSE LET wild == Head(text) = "*"
           name == IF wild THEN Tail(text) ELSE text
       IN IF name = <<>> \/ \E i \in 1..Len(name) : name[i] = "*" THEN Bad
          ELSE [kind |-> IF wild THEN "sub" ELSE "exact", name |-> name]

EndsWith(host, suffix) ==
  /\ Len(host) >= Len(suffix)
  /\ SubSeq(host, Len(host) - Len(suffix) + 1, Len(host)) = suffix

\* HostPattern::matches: a wildcard never matches the apex.
HostMatches(pattern, host) ==
  CASE pattern.kind = "any"   -> host # <<>>
    [] pattern.kind = "exact" -> pattern.name = host
    [] pattern.kind = "sub"   -> Len(host) > Len(pattern.name) /\ EndsWith(host, pattern.name)

HostText(pattern) ==
  CASE pattern.kind = "any"   -> <<"*">>
    [] pattern.kind = "exact" -> pattern.name
    [] pattern.kind = "sub"   -> <<"*">> \o pattern.name

\* PathPattern::parse: `**` only last.
PathPattern(text) ==
  IF \E i \in 1..(Len(text) - 1) : text[i] = "**" THEN Bad ELSE [kind |-> "path", segs |-> text]

\* PathPattern::match_from, from the i-th segment and part on.
MatchFromSome(segs, parts) ==
  LET from[i \in 1..(Len(segs) + 1)] ==
        IF i > Len(segs) THEN i > Len(parts)
        ELSE IF i > Len(parts) THEN FALSE
        ELSE segs[i] = "**" \/ ((segs[i] = "*" \/ segs[i] = parts[i]) /\ from[i + 1])
  IN from[1]

MatchFrom(segs, parts) ==
  LET from[i \in 1..(Len(segs) + 1)] ==
        IF i > Len(segs) THEN i > Len(parts)
        ELSE IF segs[i] = "**" THEN TRUE
        ELSE IF i > Len(parts) THEN FALSE
        ELSE (segs[i] = "*" \/ segs[i] = parts[i]) /\ from[i + 1]
  IN from[1]

(***************************************************************************)
(* Rule and RuleSet.                                                       *)
(***************************************************************************)
Rule(action, scheme, host, port, path) ==
  [action |-> action, scheme |-> scheme, host |-> host, port |-> port, path |-> path]

\* Rule::parse, and the rules it refuses.
Paired(action, scheme) == (action = "tunnel") => (scheme = "tcp")
Parses(t) ==
  /\ Paired(t.action, t.scheme) /\ ~(t.action = "allow" /\ t.scheme = "tcp")
  /\ t.scheme = "tcp" => t.port # None /\ t.path \in {None, <<"">>}
  /\ HostPattern(t.host) # Bad
  /\ t.path # None => PathPattern(t.path) # Bad

Parse(t) ==
  Rule(t.action, t.scheme, HostPattern(t.host), t.port,
       IF t.path = None THEN <<"">> ELSE t.path)

\* Display of a rule.
TextNoPort(r) ==
  [action |-> r.action, scheme |-> r.scheme, host |-> HostText(r.host),
   port |-> IF r.scheme = "tcp" THEN r.port ELSE None,
   path |-> IF r.scheme = "tcp" THEN None ELSE r.path]

Text(r) ==
  [action |-> r.action, scheme |-> r.scheme, host |-> HostText(r.host), port |-> r.port,
   path |-> IF r.scheme = "tcp" THEN None ELSE r.path]

ToStrings(rules) == {Text(r) : r \in rules}

\* from_allow_list and from_record.
FromAllowList(hosts) ==
  {Rule("allow", scheme, HostPattern(h), None, <<"**">>) : scheme \in {"https", "wss"}, h \in hosts}

FromRecord(rec) == FromAllowList(rec.allow) \cup {Parse(t) : t \in rec.rules}

\* validate_policy: only such a record is stored.
Valid(rec) == (\A h \in rec.allow : HostPattern(h) # Bad) /\ (\A t \in rec.rules : Parses(t))

\* Rule::matches.
RuleMatches(r, scheme, host, port, path) ==
  /\ r.scheme = scheme
  /\ HostMatches(r.host, host)
  /\ r.port # None /\ port # None => r.port = port
  /\ MatchFrom(r.path, path)

\* RuleSet::evaluate: deny beats allow, and nothing matching is denied.
Evaluate(rules, scheme, host, port, path) ==
  LET matching == {r \in rules : RuleMatches(r, scheme, host, port, path)} IN
  matching # {} /\ \A r \in matching : r.action # "deny"

HostAllowedExactly(rules, sni) ==
  \E r \in rules : r.action = "allow" /\ r.host.kind = "exact" /\ r.host.name = sni
HostAllowed(rules, sni) == \E r \in rules : r.action = "allow" /\ HostMatches(r.host, sni)

TunnelAllowed(rules, host, port) == Evaluate(rules, "tcp", host, port, <<"">>)

(***************************************************************************)
(* From the record to the proxy, and to the DNS gate.                      *)
(***************************************************************************)
\* The identify RPC's answer.
Answer(rec) == [allow |-> rec.allow, rules |-> ToStrings(FromRecord(rec))]

\* Policy::from_identify: an answer with rules is its rules.
FromIdentify(a) ==
  IF a.rules = {} THEN FromAllowList(a.allow) ELSE {Parse(t) : t \in a.rules}

\* What serve_conn does with a connection to a port, by the name it goes by.
Serve(rules, host, port) ==
  IF TunnelAllowed(rules, host, port) THEN "passthrough"
  ELSE IF port = 443 /\ HostAllowed(rules, host) THEN "terminate" ELSE "drop"

\* handle: what is answered to a request on a terminated connection.  It goes
\* upstream, with the credentials of its host, only after the URI phase, which
\* judges an upgrade under wss.
Scheme(request) == IF request.upgrade THEN "wss" ELSE "https"
HandleAsHttps(rules, sni, request) ==
  IF request.authority # sni THEN "misdirected"
  ELSE IF ~Evaluate(rules, "https", sni, None, request.path) THEN "denied"
  ELSE "upstream"
Handle(rules, sni, request) ==
  IF request.authority # sni THEN "misdirected"
  ELSE IF ~Evaluate(rules, Scheme(request), sni, None, request.path) THEN "denied"
  ELSE "upstream"

\* Reach::of and Reach::allows, of a proxy VM.
ReachAllowed(rec, name) ==
  \E r \in FromRecord(rec) : r.action = "allow" /\ HostMatches(r.host, name)
Reach(rec, name) ==
  \E r \in FromRecord(rec) : r.action # "deny" /\ HostMatches(r.host, name)

(***************************************************************************)
(* A record, as set_policy lets it be stored.                              *)
(***************************************************************************)
Init == record = [allow |-> {}, rules |-> {}]

Stored(rec) == Valid(rec) /\ record' = rec
Allow(h) == record.allow = {} /\ Stored([record EXCEPT !.allow = {h}])
AddRule(t) == Cardinality(record.rules) < 2 /\ Stored([record EXCEPT !.rules = @ \cup {t}])

Next ==
  \/ \E h \in HostTexts : Allow(h)
  \/ \E t \in Texts : AddRule(t)

Spec == Init /\ [][Next]_record

\* What the proxy enforces is what the record says, though it comes to the proxy
\* as text and in two forms: parsing the identify answer gives back the record's
\* rule set (identify.rs handle, Display for Rule, Policy::from_identify).
ProxyEnforcesRecord == FromIdentify(Answer(record)) = FromRecord(record)

\* The two phases agree: a request the URI phase would let through is on a host
\* the host phase terminates, unless the host is tunnelled; so an allow rule is
\* never dead because its host is dropped at the SNI (host_allowed, evaluate).
PhasesAgree ==
  LET rules == FromRecord(record) IN
  \A host \in Hosts, path \in Paths, scheme \in {"https", "wss"} :
    Evaluate(rules, scheme, host, None, path) => Serve(rules, host, 443) # "drop"

\* Every name the proxy would carry a connection to is one the VM may resolve:
\* the DNS gate never leaves a VM unable to reach what its policy grants
\* (Reach::of against serve_conn).
ReachCovers ==
  \A host \in Hosts, port \in PortsAsked :
    Serve(FromRecord(record), host, port) # "drop" => Reach(record, host)

\* What leaves the host is what the record grants: a request that goes upstream
\* is on a connection the proxy terminates, some rule of the record matches it
\* under its own scheme, and no deny rule does (serve_conn, handle; the rules are
\* those the identify answer brought).
UpstreamIsGranted ==
  LET rules == FromIdentify(Answer(record))
      terminated == {host \in Hosts : Serve(rules, host, 443) = "terminate"}
  IN \A sni \in terminated, authority \in Hosts, path \in Paths, upgrade \in BOOLEAN :
       LET request == [authority |-> authority, path |-> path, upgrade |-> upgrade]
           matching == {r \in FromRecord(record) :
                          RuleMatches(r, Scheme(request), authority, None, path)}
       IN Handle(rules, sni, request) = "upstream"
            => (\E r \in matching : r.action = "allow") /\ (\A r \in matching : r.action # "deny")

\* A path is matched as the grammar says: segment by segment, `*` standing for
\* one and a last `**` for any number, none included (PathPattern::match_from).
GlobMatches ==
  \A r \in FromRecord(record), path \in Paths :
    LET rest == r.path[Len(r.path)] = "**"
        fixed == IF rest THEN Len(r.path) - 1 ELSE Len(r.path)
    IN MatchFrom(r.path, path) <=>
         /\ Len(path) = fixed \/ (rest /\ Len(path) > fixed)
         /\ \A i \in 1..fixed : r.path[i] \in {"*", path[i]}
=============================================================================
