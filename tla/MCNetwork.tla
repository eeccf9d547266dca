----------------------------- MODULE MCNetwork -----------------------------
(***************************************************************************)
(* The components a guest's traffic meets, one at a time.  `part' says which *)
(* of them this behaviour is about; it never changes.  The slots' networks *)
(* have variables of their own, which stay where they start when it is not *)
(* their turn; every other component keeps its state in the registers r1 to *)
(* r8, as its instance says, and leaves those it does not need at None.    *)
(***************************************************************************)
EXTENDS SlotNet, Integers

CONSTANTS
  Names, Dsts, Queries, Holders, PerVm,              \* SlotMemory
  Tiers, PoolSize, Guests, MaxOpens,                 \* TierPool
  Conns, Ttls, Margin, DefaultTtl, MaxTime,          \* LeafCache
  Readers, MaxSaves, MaxRequests, SavesAtLoad        \* SecretsFile

VARIABLES part, r1, r2, r3, r4, r5, r6, r7, r8

SlotMemory == INSTANCE SlotMemory WITH
  Addrs <- Dsts, MaxVms <- Holders,
  holder <- r1, stage <- r2, placed <- r3, reach <- r4, cached <- r5,
  releases <- r6, query <- r7, memory <- r8

PolicyRules == INSTANCE PolicyRules WITH
  record <- r1

TierPool == INSTANCE TierPool WITH
  N <- Tiers,
  up <- r1, pool <- r2, next <- r3, open <- r4, opens <- r5

LeafCache == INSTANCE LeafCache WITH
  clock <- r1, ttl <- r2, says <- r3, cached <- r4, conn <- r5

SecretsFile == INSTANCE SecretsFile WITH
  disk <- r1, cache <- r2, load <- r3, reader <- r4, looks <- r5

(* The registers a component of so many variables leaves alone. *)
after5 == <<r6, r7, r8>>
after1 == <<r2, r3, r4, r5, after5>>
after0 == <<r1, after1>>
Free5 == r6 = None /\ r7 = None /\ r8 = None
Free1 == r2 = None /\ r3 = None /\ r4 = None /\ r5 = None /\ Free5
Free0 == r1 = None /\ Free1

NetworkInit ==
  /\ Init
  /\ \/ part = "slotNet" /\ Free0
     \/ part = "slotMemory" /\ SlotMemory!Init
     \/ part = "policyRules" /\ PolicyRules!Init /\ Free1
     \/ part = "tierPool" /\ TierPool!Init /\ Free5
     \/ part = "leafCache" /\ LeafCache!Init /\ Free5
     \/ part = "secretsFile" /\ SecretsFile!Init /\ Free5

NetworkNext ==
  \/ part = "slotNet" /\ Next /\ UNCHANGED <<part, after0>>
  \/ part = "slotMemory" /\ SlotMemory!Next /\ UNCHANGED <<part, vars>>
  \/ part = "policyRules" /\ PolicyRules!Next /\ UNCHANGED <<part, vars, after1>>
  \/ part = "tierPool" /\ TierPool!Next /\ UNCHANGED <<part, vars, after5>>
  \/ part = "leafCache" /\ LeafCache!Next /\ UNCHANGED <<part, vars, after5>>
  \/ part = "secretsFile" /\ SecretsFile!Next /\ UNCHANGED <<part, vars, after5>>

NetworkVars == <<part, vars, after0>>

NetworkSpec == NetworkInit /\ [][NetworkNext]_NetworkVars

-----------------------------------------------------------------------------
(* What each of them promises.  Contained and StartsClean are those of the *)
(* slots' networks.                                                        *)

\* No name resolves by the policy of the slot's former VM (slot_may_resolve),
\* and names resolved for ever do not grow the daemon (DnsMemory::record).
DnsOfHolder ==
  part = "slotMemory" => SlotMemory!NotByPredecessor /\ SlotMemory!MemoryBounded
\* Everyone reads the record's rules alike: the identify answer parses back to
\* them (from_identify), no allow is dead for its host being dropped
\* (host_allowed), what may be reached may be resolved (Reach::of), a path
\* pattern matches what the grammar says (match_from), and only what is granted
\* goes upstream (serve_conn, handle).
RulesAgree ==
  part = "policyRules" =>
    /\ PolicyRules!ProxyEnforcesRecord /\ PolicyRules!PhasesAgree
    /\ PolicyRules!ReachCovers /\ PolicyRules!GlobMatches
    /\ PolicyRules!UpstreamIsGranted
\* No more tunnels than tier_pool_size are kept (conn_for), and a stream is
\* refused only when each replica failed it once (Tier::open).
TunnelsFair == part = "tierPool" => TierPool!PoolBounded /\ TierPool!AllTried
\* A cached leaf outlives the margin when served (ca.rs, server_config).
LeafOutlives == part = "leafCache" => LeafCache!LeafOutlives
\* An edit of the secrets file is never missed (reload_if_changed).
NoEditLost == part = "secretsFile" => SecretsFile!NoEditLost
=============================================================================
