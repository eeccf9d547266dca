--------------------------- MODULE SignedPolicies ---------------------------
(***************************************************************************)
(* A VM's policy from the fleet to the proxy tier.  The fleet lays a       *)
(* client's change over the host's record and signs the result at the next *)
(* generation (iso-fleet, api.rs); the host files a signature only under   *)
(* the policy it describes (control.rs set_policy); the sync loop renews   *)
(* the fleet's own signatures; and the tier enforces the claims that       *)
(* verify, of what the edge relays from identify (iso-proxy, lib.rs).      *)
(* Time passes in thirds of a signature's life.  A policy is its egress    *)
(* mode and a body, which stands for principal, allow and rules; the       *)
(* fleet's copy of the record, which nothing is signed from, is left out.  *)
(***************************************************************************)
EXTENDS Naturals

CONSTANTS
  None,
  Clients,   \* clients changing the policy through the fleet
  Bodies,    \* principals and rules
  MaxGen,    \* bound on policy generations
  MaxTime    \* bound on time

Ttl == 3     \* policy_ttl_secs
Here == "here"

VARIABLES
  rec,      \* the host's record: policy, generation, signature; None once deleted
  row,      \* the fleet's row: whether it is placed
  steer,    \* the egress mode the host's nft rules enforce
  steering, \* the call that stored a mode and has not applied it yet
  failed,   \* an application failed, or was cut off
  ok,       \* the last change was answered Ok
  call,     \* the fleet's calls for clients
  sync,     \* the claims the sync loop is about to renew
  synced,   \* it has visited the host since time last passed
  away,     \* the fleet was down, or cut off, while time passed
  time

vars == <<rec, row, steer, steering, failed, ok, call, sync, synced, away, time>>
host == <<rec, steer, steering, failed, ok>>
fleet == <<row, call, sync, synced, away>>

Modes == {"proxy", "deny"}
Policies == [egress : Modes, body : Bodies]
Changes == {c \in [egress : Modes \cup {None}, body : Bodies \cup {None}] :
              c.egress = None \/ c.body = None}
Claims(p, gen, at) == [host |-> Here, pol |-> p, gen |-> gen, expires |-> at + Ttl]

Init ==
  /\ \E p \in Policies, signed \in {None, 1} :   \* created through the fleet or not
       /\ rec = [pol |-> p, gen |-> 1,
                 signed |-> IF signed = None THEN None ELSE Claims(p, 1, 0)]
       /\ steer = p.egress
  /\ row = "placed" /\ steering = None /\ failed = FALSE /\ ok = TRUE
  /\ call = [c \in Clients |-> None]
  /\ sync = None /\ synced = FALSE /\ away = FALSE /\ time = 0

(***************************************************************************)
(* The host's set_policy.                                                  *)
(***************************************************************************)
Merge(p, change) ==
  [egress |-> IF change.egress = None THEN p.egress ELSE change.egress,
   body |-> IF change.body = None THEN p.body ELSE change.body]

\* check_signed: the claims describe the policy about to be stored.
CheckSignedAnyGen(signed, p, gen) == signed.pol = p
CheckSigned(signed, p, gen) == signed.pol = p /\ signed.gen = gen

Refreshes(change, signed) ==
  signed # None /\ Merge(rec.pol, change) = rec.pol /\ signed.gen = rec.gen

Accepts(change, signed) ==
  LET p == Merge(rec.pol, change) IN
  signed # None => CheckSigned(signed, p, IF Refreshes(change, signed) THEN rec.gen ELSE rec.gen + 1)

\* update_policy: the generation moves on, and an unsigned change leaves no
\* signature.
StoredKeepsSignature(change, signed) ==
  [pol |-> Merge(rec.pol, change), gen |-> rec.gen + 1,
   signed |-> IF signed = None THEN rec.signed ELSE signed]
Stored(change, signed) ==
  [pol |-> Merge(rec.pol, change), gen |-> rec.gen + 1, signed |-> signed]

NoResteer(p) == FALSE
Resteers(p) == p.egress # rec.pol.egress

\* The call up to its answer, or to the re-steer that is still to come.
SetPolicy(who, change, signed) ==
  /\ steering = None     \* the VM's lock
  /\ IF rec = None \/ (rec # None => ~Accepts(change, signed))
       THEN ok' = FALSE /\ UNCHANGED <<rec, steering>>
     ELSE IF Refreshes(change, signed)
       THEN rec' = [rec EXCEPT !.signed = signed] /\ ok' = TRUE /\ UNCHANGED steering
     ELSE /\ rec.gen < MaxGen
          /\ rec' = Stored(change, signed)
          /\ IF Resteers(rec'.pol) THEN steering' = who /\ ok' = FALSE
             ELSE ok' = TRUE /\ UNCHANGED steering
  /\ UNCHANGED <<steer, failed>>

\* apply_network, and the answer.
Steer ==
  /\ steering # None /\ steering' = None
  /\ \/ steer' = rec.pol.egress /\ failed' = FALSE /\ ok' = TRUE
     \/ failed' = TRUE /\ ok' = FALSE /\ UNCHANGED steer
  /\ UNCHANGED <<rec, fleet, time>>

\* The VM is stopped and brought up again, or a forward of its changes: the
\* network is given the recorded mode.
BringUp ==
  /\ rec # None /\ steering = None /\ failed
  /\ steer' = rec.pol.egress /\ failed' = FALSE
  /\ UNCHANGED <<rec, steering, ok, fleet, time>>

\* A change made on the host, which carries no signature.
DirectPatch(change) ==
  /\ SetPolicy("direct", change, None)
  /\ UNCHANGED <<fleet, time>>

\* The host dies inside the call: the record stands, the rules do not follow.
Crash ==
  /\ steering # None /\ steering' = None
  /\ failed' = TRUE /\ ok' = FALSE
  /\ UNCHANGED <<rec, steer, fleet, time>>

(***************************************************************************)
(* The fleet's set_policy: the host's record, fresh; the change laid over  *)
(* it and signed at the next generation; the PATCH, which may be lost.     *)
(***************************************************************************)
FleetGet(c, change) ==
  /\ call[c] = None /\ row = "placed"
  /\ call' = IF rec = None THEN call   \* answered as the host answers
             ELSE [call EXCEPT ![c] =
               [change |-> change,
                signed |-> Claims(Merge(rec.pol, change), rec.gen + 1, time)]]
  /\ UNCHANGED <<host, row, sync, synced, away, time>>

FleetPatch(c) ==
  /\ call[c] # None
  /\ call' = [call EXCEPT ![c] = None]
  /\ SetPolicy(c, call[c].change, call[c].signed)
  /\ UNCHANGED <<row, sync, synced, away, time>>

FleetPatchLost(c) ==
  /\ call[c] # None
  /\ call' = [call EXCEPT ![c] = None]
  /\ UNCHANGED <<host, row, sync, synced, away, time>>

\* The row is dropped or, the answer lost, marked deleting: either way no policy
\* is set through it.
Delete ==
  /\ row = "placed" /\ steering = None
  /\ row' = "gone" /\ rec' = None
  /\ UNCHANGED <<steer, steering, failed, ok, call, sync, synced, away, time>>

(***************************************************************************)
(* The sync loop: a signature of the fleet's own with a third of its life  *)
(* left is renewed, as it was signed, never as the host reports the VM.    *)
(***************************************************************************)
Minus(a, b) == IF a > b THEN a - b ELSE 0
DueLate(claims) == Minus(claims.expires, time) < Ttl \div 3
Due(claims) == Minus(claims.expires, time) <= Ttl \div 3

RenewedReported(signed) == Claims(rec.pol, rec.gen, time)
Renewed(signed) == IF signed = None THEN None ELSE [signed EXCEPT !.expires = time + Ttl]

SyncList ==
  /\ sync = None /\ ~synced
  /\ IF rec = None THEN UNCHANGED sync
     ELSE LET renewed == Renewed(rec.signed) IN
          sync' = IF renewed # None /\ (rec.signed # None => Due(rec.signed)) THEN renewed ELSE None
  /\ synced' = (sync' = None)
  /\ UNCHANGED <<host, row, call, away, time>>

\* refresh_signature, which the host refuses once its policy has moved on.
SyncPatch ==
  /\ sync # None
  /\ SetPolicy("sync", [egress |-> None, body |-> None], sync)
  /\ sync' = None /\ synced' = TRUE
  /\ UNCHANGED <<row, call, away, time>>

\* A call ends, and the loop comes round, long before a third of a signature's
\* life has passed, unless the fleet does not reach the host.
Tick ==
  /\ time < MaxTime
  /\ \A c \in Clients : call[c] = None
  /\ time' = time + 1 /\ synced' = FALSE
  /\ away' = (away \/ ~synced)
  /\ UNCHANGED <<host, row, call, sync>>

(***************************************************************************)
(* The tier: the edge admits what identify answers, and the tier takes the *)
(* policy from the claims, if they verify for the name on its certificate. *)
(***************************************************************************)
Verifies(signed, edge) == signed.expires > time /\ signed.host = edge

AcceptStream(answer, edge) ==
  IF answer.pol.egress = "deny" \/ answer.signed = None THEN None
  ELSE IF ~Verifies(answer.signed, edge) \/ answer.signed.pol.egress = "deny" THEN None
  ELSE answer.signed

Next ==
  \/ Steer \/ BringUp \/ Crash \/ Delete \/ SyncList \/ SyncPatch \/ Tick
  \/ \E change \in Changes : DirectPatch(change)
  \/ \E c \in Clients : \/ FleetPatch(c) \/ FleetPatchLost(c)
                        \/ \E change \in Changes : FleetGet(c, change)

Spec == Init /\ [][Next]_vars

\* What identify answers and what the edge relays never disagree: a stored
\* signature describes the policy it is stored with, at its generation, however
\* the fleet's calls, the sync loop and changes on the host interleave
\* (set_policy and check_signed).
SignatureDescribes ==
  rec # None => (rec.signed # None => rec.signed.pol = rec.pol /\ rec.signed.gen = rec.gen)

\* The tier enforces the very policy the record holds, at its generation, or
\* refuses the stream (accept_stream of what identify answers).
TierEnforces ==
  \A edge \in {Here, "other"} : rec # None =>
    LET claims == AcceptStream(rec, edge) IN
    claims # None => claims.host = edge /\ claims.pol = rec.pol /\ claims.gen = rec.gen

\* A VM whose policy the fleet signed never lapses while the fleet reaches its
\* host: the signature on record is renewed before it expires (sync_host).
NeverLapses == rec # None /\ ~away => (rec.signed # None => rec.signed.expires > time)

\* A change made behind the fleet's back stays unsigned until a client makes one
\* through the fleet: renewing never signs it (refresh_signature).
NotBlessedStep ==
  (rec # None /\ rec' # None /\ rec.signed = None /\ rec'.signed # None) =>
    \E c \in Clients : call[c] # None /\ call'[c] = None
NotBlessed == [][NotBlessedStep]_vars

\* Unless an application failed or was cut off, the host steers as the record
\* says when no change is in progress (set_policy and apply_network).
Steered == rec # None /\ steering = None /\ ~failed => steer = rec.pol.egress

\* A change answered Ok has taken effect on the live VM (docs/API.md, PATCH
\* /vms/{id}/policy): the network enforces the recorded mode.  It does not hold:
\* after a re-steer that failed, repeating the change re-steers nothing.
OkTakesEffect == rec # None /\ ok => steer = rec.pol.egress
=============================================================================
