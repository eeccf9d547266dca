---------------------------- MODULE NetworkProofs ----------------------------
(***************************************************************************)
(* Proofs about the components of MCNetwork, for every value of their      *)
(* constants.  A component's invariant speaks of the behaviours that are   *)
(* about it; the steps of the others keep `part' and so the invariant.     *)
(***************************************************************************)
EXTENDS MCNetwork, TLAPS

(* A leaf is for Zenon unless it cites SMT. *)
USE ZenonT(60)

(* A behaviour is about one component from its start to its end. *)
LEMMA OnePart ==
  ASSUME [NetworkNext]_NetworkVars
  PROVE  /\ part' = part
         /\ part = "slotNet" => [Next]_vars
         /\ part = "slotMemory" => [SlotMemory!Next]_(SlotMemory!vars)
         /\ part = "tierPool" => [TierPool!Next]_(TierPool!vars)
         /\ part = "leafCache" => [LeafCache!Next]_(LeafCache!vars)
         /\ part = "secretsFile" => [SecretsFile!Next]_(SecretsFile!vars)
BY DEF NetworkNext, NetworkVars, after0, after1, after5, SlotMemory!vars, SlotMemory!slot,
   TierPool!vars, LeafCache!vars, SecretsFile!vars

-----------------------------------------------------------------------------
(***************************************************************************)
(* LeafCache.  What is kept is renewed by the margin before the leaf       *)
(* expires, or a tick after it was asked for where leaves are shorter than *)
(* the margin; and a leaf is signed no earlier than it was asked for.      *)
(***************************************************************************)
LeafConn == [pc : {"idle", "asking", "signed", "served"}, now : Nat, leaf : Nat]

LeafInv ==
  LET clock == r1  ttl == r2  says == r3  cached == r4  conn == r5 IN
  /\ clock \in Nat /\ ttl \in Nat \ {0}
  /\ conn \in [Conns -> LeafConn]
  /\ cached # None => cached \in [leaf : Nat, renewAt : Int]
  /\ cached # None /\ says =>
       cached.renewAt <= cached.leaf - Margin \/ cached.renewAt <= cached.leaf - ttl + 1
  /\ \A c \in Conns :
       /\ conn[c].now <= clock
       /\ conn[c].pc = "signed" => conn[c].leaf >= conn[c].now + ttl
  /\ LeafCache!LeafOutlives

LEMMA LeafInit ==
  ASSUME Ttls \subseteq Nat \ {0}, LeafCache!Init
  PROVE  LeafInv
BY SMTT(60) DEF LeafCache!Init, LeafInv, LeafCache!LeafOutlives, LeafConn, LeafCache!Idle

LEMMA LeafNext ==
  ASSUME Margin \in Nat, DefaultTtl \in Nat, LeafInv, [LeafCache!Next]_(LeafCache!vars)
  PROVE  LeafInv'
<1> USE DEF LeafInv, LeafCache!LeafOutlives, LeafConn
<1>1. CASE LeafCache!Tick
  BY SMTT(60), <1>1 DEF LeafCache!Tick
<1>2. ASSUME NEW c \in Conns, LeafCache!Ask(c) PROVE LeafInv'
  <2>1. CASE LeafCache!Hit
    BY SMTT(60), <1>2, <2>1 DEF LeafCache!Ask, LeafCache!Hit
  <2>2. CASE ~LeafCache!Hit
    BY SMTT(60), <1>2, <2>2 DEF LeafCache!Ask
  <2> QED BY <2>1, <2>2
<1>3. ASSUME NEW c \in Conns, LeafCache!Sign(c) PROVE LeafInv'
  BY SMTT(60), <1>3 DEF LeafCache!Sign
<1>4. ASSUME NEW c \in Conns, LeafCache!Refuse(c) PROVE LeafInv'
  BY SMTT(60), <1>4 DEF LeafCache!Refuse, LeafCache!Idle
<1>5. ASSUME NEW c \in Conns, LeafCache!Keep(c) PROVE LeafInv'
  BY SMTT(60), <1>5 DEF LeafCache!Keep, LeafCache!RenewAt, LeafCache!Later, LeafCache!Idle
<1>6. ASSUME NEW c \in Conns, LeafCache!Finish(c) PROVE LeafInv'
  BY SMTT(60), <1>6 DEF LeafCache!Finish, LeafCache!Idle
<1>7. CASE UNCHANGED LeafCache!vars
  BY <1>7 DEF LeafCache!vars
<1> QED BY <1>1, <1>2, <1>3, <1>4, <1>5, <1>6, <1>7 DEF LeafCache!Next

(* A connection served from the cache presents a leaf that is good for more *)
(* than RENEW_MARGIN, or has not expired where the CA's leaves live no      *)
(* longer (ca.rs server_config, against two late answers kept in any order), *)
(* for every lifetime, margin and number of connections.                    *)
THEOREM LeafOutlivesHolds ==
  ASSUME Ttls \subseteq Nat \ {0}, Margin \in Nat, DefaultTtl \in Nat
  PROVE  NetworkSpec => []LeafOutlives
<1> DEFINE Inv == part = "leafCache" => LeafInv
<1>1. NetworkInit => Inv
  BY LeafInit DEF NetworkInit
<1>2. Inv /\ [NetworkNext]_NetworkVars => Inv'
  BY OnePart, LeafNext
<1>3. Inv => LeafOutlives
  BY DEF LeafInv, LeafOutlives
<1> QED BY <1>1, <1>2, <1>3, PTL DEF NetworkSpec

-----------------------------------------------------------------------------
(***************************************************************************)
(* SecretsFile.  The modification time numbers the saves.  What a reader   *)
(* installs it read after it looked at the time it installs with, so in    *)
(* memory the content is never older than its time; and nothing is newer   *)
(* than the file.  The two squeeze the content when the times agree.       *)
(***************************************************************************)
Reader == [pc : {"idle", "answer", "read", "install"}, mtime : Nat, file : Nat]

SecretsInv ==
  LET disk == r1  cache == r2  load == r3  reader == r4 IN
  /\ disk \in [save : Nat, parses : BOOLEAN, mtime : Nat]
  /\ cache \in [save : Nat, mtime : Nat]
  /\ reader \in [Readers -> Reader]
  /\ disk.mtime = disk.save
  /\ load = "mtime" => cache.save = disk.save
  /\ load = "up" => cache.mtime <= cache.save /\ cache.save <= disk.save
  /\ \A r \in Readers :
       /\ reader[r].mtime <= disk.save
       /\ reader[r].pc = "install" =>
            reader[r].mtime <= reader[r].file /\ reader[r].file <= disk.save
       /\ reader[r].pc # "idle" => load = "up"

LEMMA SecretsInit == SecretsFile!Init => SecretsInv
BY SMTT(60) DEF SecretsFile!Init, SecretsInv, Reader, SecretsFile!Quiet

(* A step keeps it: a save moves the file ahead of everything, the load     *)
(* meets no save, and a reader's time is older than what it reads.          *)
LEMMA SecretsNext ==
  ASSUME SavesAtLoad = FALSE, SecretsInv, [SecretsFile!Next]_(SecretsFile!vars)
  PROVE  SecretsInv'
<1>1. CASE SecretsFile!Save
  BY SMTT(60), <1>1 DEF SecretsFile!Save, SecretsInv, Reader
<1>2. CASE SecretsFile!LoadText
  BY <1>2 DEF SecretsFile!LoadText, SecretsInv, Reader
<1>3. CASE SecretsFile!LoadMtime
  BY SMTT(60), <1>3 DEF SecretsFile!LoadMtime, SecretsInv, Reader
<1>4. ASSUME NEW r \in Readers, SecretsFile!Look(r) PROVE SecretsInv'
  <2> DEFINE pc == IF r2.mtime = r1.mtime THEN "answer" ELSE "read"
             new == [pc |-> pc, mtime |-> r1.mtime, file |-> 0]
  <2>1. new \in Reader /\ new.pc # "install" /\ new.mtime = r1.save
    BY DEF SecretsInv, Reader
  <2>2. r4' = [r4 EXCEPT ![r] = new] /\ r3 = "up" /\ UNCHANGED <<r1, r2, r3>>
    BY <1>4 DEF SecretsFile!Look
  <2> HIDE DEF new
  <2> QED BY SMTT(60), <2>1, <2>2 DEF SecretsInv, Reader
<1>5. ASSUME NEW r \in Readers, SecretsFile!Read(r) PROVE SecretsInv'
  BY SMTT(60), <1>5 DEF SecretsFile!Read, SecretsInv, Reader
<1>6. ASSUME NEW r \in Readers, SecretsFile!Install(r) PROVE SecretsInv'
  BY <1>6 DEF SecretsFile!Install, SecretsInv, Reader
<1>7. ASSUME NEW r \in Readers, SecretsFile!Answer(r) PROVE SecretsInv'
  BY SMTT(60), <1>7 DEF SecretsFile!Answer, SecretsInv, Reader, SecretsFile!Quiet
<1>8. CASE UNCHANGED SecretsFile!vars
  BY <1>8 DEF SecretsFile!vars, SecretsInv, Reader
<1> QED BY <1>1, <1>2, <1>3, <1>4, <1>5, <1>6, <1>7, <1>8 DEF SecretsFile!Next

(* Whenever memory carries the modification time the file has now, it      *)
(* holds the file's content (reload_if_changed takes the time before it    *)
(* reads; load, which takes it after, is alone with the file), for every   *)
(* number of readers, saves and requests.                                  *)
THEOREM NoEditLostHolds ==
  ASSUME SavesAtLoad = FALSE
  PROVE  NetworkSpec => []NoEditLost
<1> DEFINE Inv == part = "secretsFile" => SecretsInv
<1>1. NetworkInit => Inv
  BY SecretsInit DEF NetworkInit
<1>2. Inv /\ [NetworkNext]_NetworkVars => Inv'
  BY OnePart, SecretsNext
<1>3. Inv => NoEditLost
  BY SMTT(60) DEF SecretsInv, NoEditLost, SecretsFile!NoEditLost
<1> QED BY <1>1, <1>2, <1>3, PTL DEF NetworkSpec

-----------------------------------------------------------------------------
(***************************************************************************)
(* TierPool.  The replicas a connection was failed by are those from where *)
(* it started, in turn, so after as many as there are it has met them all. *)
(***************************************************************************)
Tunnels == [live : Nat, dead : Nat, closed : Nat]
Carried == [start : TierPool!Replicas, n : Nat, at : {"pick", "dial", "send", "refused"},
            via : {None, "live", "dead"}, failed : SUBSET TierPool!Replicas]

Tried(c) ==
  /\ c \in Carried
  /\ \A k \in 0 .. (c.n - 1) : (c.start + k) % Tiers \in c.failed
  /\ IF c.at = "refused" THEN c.n = Tiers ELSE c.n < Tiers

TierInv ==
  LET pool == r2  next == r3  open == r4 IN
  /\ pool \in [TierPool!Replicas -> Tunnels]
  /\ next \in TierPool!Replicas
  /\ TierPool!PoolBounded
  /\ DOMAIN open = Guests
  /\ \A g \in Guests : open[g] # None => Tried(open[g])

(* Counting on from one replica, as many as there are, meets every one. *)
LEMMA InTurn ==
  ASSUME Tiers \in Nat \ {0}, NEW start \in 0 .. (Tiers - 1)
  PROVE  /\ \A k \in Nat : (start + k) % Tiers \in 0 .. (Tiers - 1)
         /\ \A i \in 0 .. (Tiers - 1) : \E k \in 0 .. (Tiers - 1) : (start + k) % Tiers = i
<1>1. \A k \in Nat : (start + k) % Tiers \in 0 .. (Tiers - 1)
  BY SMTT(60)
<1>2. ASSUME NEW i \in 0 .. (Tiers - 1)
      PROVE  \E k \in 0 .. (Tiers - 1) : (start + k) % Tiers = i
  <2>1. i % Tiers = i /\ (i + Tiers) % Tiers = i
    BY SMTT(60)
  <2>2. CASE i >= start
    <3>1. i - start \in 0 .. (Tiers - 1) /\ start + (i - start) = i
      BY SMTT(60), <2>2
    <3> QED BY <2>1, <3>1
  <2>3. CASE i < start
    <3>1. /\ i + Tiers - start \in 0 .. (Tiers - 1)
          /\ start + (i + Tiers - start) = i + Tiers
      BY SMTT(60), <2>3
    <3> QED BY <2>1, <3>1
  <2> QED BY SMTT(60), <2>2, <2>3
<1> QED BY <1>1, <1>2

LEMMA TierInit ==
  ASSUME Tiers \in Nat \ {0}, PoolSize \in Nat, TierPool!Init
  PROVE  TierInv
BY SMTT(60) DEF TierPool!Init, TierInv, TierPool!PoolBounded, TierPool!Size, TierPool!Replicas, Tunnels

(* One connection's step keeps the others' and its own account in order. *)
LEMMA OneCarried ==
  ASSUME TierInv, NEW g \in Guests, NEW c, c # None => Tried(c),
         r4' = [r4 EXCEPT ![g] = c]
  PROVE  DOMAIN r4' = Guests /\ \A h \in Guests : r4'[h] # None => Tried(r4'[h])
BY DEF TierInv

(* A replica skipped is one more that failed. *)
LEMMA SkipTried ==
  ASSUME Tiers \in Nat \ {0}, TierInv, NEW g \in Guests, r4[g] # None,
         r4[g].at # "refused", TierPool!Skip(g)
  PROVE  DOMAIN r4' = Guests /\ \A h \in Guests : r4'[h] # None => Tried(r4'[h])
<1> DEFINE c == r4[g]
           at == IF c.n + 1 < Tiers THEN "pick" ELSE "refused"
           new == [c EXCEPT !.failed = @ \cup {TierPool!Replica(g)}, !.n = @ + 1, !.at = at]
<1>1. Tried(c) /\ c.n < Tiers
  BY DEF TierInv, Tried
<1>2. TierPool!Replica(g) \in TierPool!Replicas /\ TierPool!Replica(g) = (c.start + c.n) % Tiers
  BY <1>1, InTurn DEF Tried, Carried, TierPool!Replica, TierPool!Replicas
<1>3. /\ new \in Carried /\ new.start = c.start /\ new.n = c.n + 1 /\ new.at = at
      /\ new.failed = c.failed \cup {TierPool!Replica(g)}
  <2>1. c \in Carried /\ c.n + 1 \in Nat /\ c.failed \cup {TierPool!Replica(g)} \subseteq
        TierPool!Replicas /\ at \in {"pick", "refused"}
    BY SMTT(60), <1>1, <1>2 DEF Tried, Carried
  <2>2. new \in Carried
    <3> HIDE DEF at
    <3> QED BY <2>1 DEF Carried
  <2> QED BY <2>1, <2>2 DEF Carried
<1>4. Tried(new)
  <2>1. \A k \in 0 .. (new.n - 1) : k \in 0 .. (c.n - 1) \/ k = c.n
    BY SMTT(60), <1>1, <1>3 DEF Tried, Carried
  <2>2. \A k \in 0 .. (new.n - 1) : (new.start + k) % Tiers \in new.failed
    BY <1>1, <1>2, <1>3, <2>1 DEF Tried
  <2>3. IF new.at = "refused" THEN new.n = Tiers ELSE new.n < Tiers
    BY SMTT(60), <1>1, <1>3 DEF Tried, Carried
  <2> QED BY <1>3, <2>2, <2>3 DEF Tried
<1>5. r4' = [r4 EXCEPT ![g] = new]
  BY DEF TierPool!Skip, TierInv
<1> HIDE DEF new
<1> QED BY <1>4, <1>5, OneCarried

LEMMA TierNext ==
  ASSUME Tiers \in Nat \ {0}, PoolSize \in Nat, TierInv, [TierPool!Next]_(TierPool!vars)
  PROVE  TierInv'
<1> DEFINE Accounts == DOMAIN r4' = Guests /\ \A h \in Guests : r4'[h] # None => Tried(r4'[h])
           Pools == r2' \in [TierPool!Replicas -> Tunnels] /\ TierPool!PoolBounded'
<1>0. SUFFICES Accounts /\ Pools /\ r3' \in TierPool!Replicas
  BY DEF TierInv
<1>1. ASSUME NEW g \in Guests, TierPool!Start(g)
      PROVE  Accounts /\ Pools /\ r3' \in TierPool!Replicas
  <2> DEFINE new == [start |-> r3, n |-> 0, at |-> "pick", via |-> None, failed |-> {}]
  <2>1. Tried(new)
    BY SMTT(60) DEF TierInv, Tried, Carried
  <2>2. Accounts
    BY <1>1, <2>1, OneCarried DEF TierPool!Start
  <2>3. r3' \in TierPool!Replicas
    BY <1>1, InTurn DEF TierPool!Start, TierInv, TierPool!Replicas
  <2> QED BY <1>1, <2>2, <2>3 DEF TierPool!Start, TierInv, TierPool!PoolBounded, TierPool!Size
<1>2. ASSUME NEW g \in Guests, TierPool!Pick(g)
      PROVE  Accounts /\ Pools /\ r3' \in TierPool!Replicas
  <2> DEFINE i == TierPool!Replica(g)
             kept == [r2[i] EXCEPT !.closed = 0]
  <2>0. r4[g] # None /\ r4[g].at = "pick" /\ Tried(r4[g])
    BY <1>2 DEF TierPool!Pick, TierPool!Going, TierInv
  <2>1. i \in TierPool!Replicas
    BY <2>0, InTurn DEF Tried, Carried, TierPool!Replica, TierPool!Replicas
  <2>2. r2[i] \in Tunnels /\ TierPool!Size(r2[i]) <= PoolSize
    BY <2>1 DEF TierInv, TierPool!PoolBounded
  <2>3. kept \in Tunnels /\ TierPool!Size(kept) <= PoolSize
    BY SMTT(60), <2>2 DEF Tunnels, TierPool!Size
  <2>4. r2' = [r2 EXCEPT ![i] = kept] /\ r3' = r3
    BY <1>2 DEF TierPool!Pick
  <2>5. Pools
    <3> HIDE DEF kept, i
    <3> QED BY <2>1, <2>3, <2>4 DEF TierInv, TierPool!PoolBounded
  <2>6. PICK new : r4' = [r4 EXCEPT ![g] = new] /\ Tried(new)
    <3>1. \/ r4' = [r4 EXCEPT ![g] = [r4[g] EXCEPT !.at = "dial"]]
          \/ \E via \in {"live", "dead"} :
               r4' = [r4 EXCEPT ![g] = [r4[g] EXCEPT !.at = "send", !.via = via]]
      BY <1>2 DEF TierPool!Pick, TierInv
    <3>2. r4[g] \in Carried /\ \A via \in {"live", "dead"} :
            [r4[g] EXCEPT !.at = "send", !.via = via] \in Carried
      BY <2>0 DEF Tried, Carried
    <3>3. /\ Tried([r4[g] EXCEPT !.at = "dial"])
          /\ \A via \in {"live", "dead"} : Tried([r4[g] EXCEPT !.at = "send", !.via = via])
      BY SMTT(30), <2>0, <3>2 DEF Tried, Carried
    <3> QED BY <3>1, <3>3
  <2>7. Accounts
    BY <2>6, OneCarried
  <2> QED BY <2>4, <2>5, <2>7 DEF TierInv
<1>3. ASSUME NEW g \in Guests, TierPool!Dial(g)
      PROVE  Accounts /\ Pools /\ r3' \in TierPool!Replicas
  <2> DEFINE i == TierPool!Replica(g)
             grown == [r2[i] EXCEPT !.live = @ + 1]
  <2>0. r4[g] # None /\ r4[g].at = "dial" /\ Tried(r4[g])
    BY <1>3 DEF TierPool!Dial, TierPool!Going, TierInv
  <2>1. i \in TierPool!Replicas
    BY <2>0, InTurn DEF Tried, Carried, TierPool!Replica, TierPool!Replicas
  <2>2. r2[i] \in Tunnels
    BY <2>1 DEF TierInv
  <2>3. TierPool!Room(i) => grown \in Tunnels /\ TierPool!Size(grown) <= PoolSize
    BY SMTT(60), <2>2 DEF Tunnels, TierPool!Room, TierPool!Size
  <2>4. r2' = r2 \/ (TierPool!Room(i) /\ r2' = [r2 EXCEPT ![i] = grown])
    BY <1>3, <2>1 DEF TierPool!Dial, TierInv
  <2>5. Pools
    <3> HIDE DEF grown, i
    <3> QED BY <2>1, <2>3, <2>4 DEF TierInv, TierPool!PoolBounded, TierPool!Size
  <2>6. CASE TierPool!Skip(g)
    BY <1>3, <2>0, <2>5, <2>6, SkipTried DEF TierPool!Dial, TierInv
  <2>7. CASE r4' = [r4 EXCEPT ![g] = [r4[g] EXCEPT !.at = "send", !.via = "live"]]
    <3>1. [r4[g] EXCEPT !.at = "send", !.via = "live"] \in Carried
      BY <2>0 DEF Tried, Carried
    <3>2. Tried([r4[g] EXCEPT !.at = "send", !.via = "live"])
      BY <2>0, <3>1 DEF Tried, Carried
    <3> QED BY <1>3, <2>5, <2>7, <3>2, OneCarried DEF TierPool!Dial, TierInv
  <2> QED BY <1>3, <2>6, <2>7 DEF TierPool!Dial, TierInv
<1>4. ASSUME NEW g \in Guests, TierPool!Send(g) \/ TierPool!Refused(g)
      PROVE  Accounts /\ Pools /\ r3' \in TierPool!Replicas
  <2>1. UNCHANGED <<r2, r3>>
    BY <1>4 DEF TierPool!Send, TierPool!Refused
  <2>2. CASE r4' = [r4 EXCEPT ![g] = None]
    BY <2>1, <2>2, OneCarried DEF TierInv, TierPool!PoolBounded, TierPool!Size
  <2>3. CASE TierPool!Send(g) /\ TierPool!Skip(g)
    <3>1. r4[g] # None /\ r4[g].at = "send"
      BY <2>3 DEF TierPool!Send, TierPool!Going
    <3> QED BY <2>1, <2>3, <3>1, SkipTried DEF TierInv, TierPool!PoolBounded, TierPool!Size
  <2> QED BY <1>4, <2>2, <2>3 DEF TierPool!Send, TierPool!Refused
<1>5. ASSUME NEW i \in TierPool!Replicas, TierPool!Down(i)
      PROVE  Accounts /\ Pools /\ r3' \in TierPool!Replicas
  <2> DEFINE lost == [r2[i] EXCEPT !.dead = r2[i].dead + r2[i].live, !.live = 0]
  <2>1. r2[i] \in Tunnels /\ TierPool!Size(r2[i]) <= PoolSize
    BY DEF TierInv, TierPool!PoolBounded
  <2>2. lost \in Tunnels /\ TierPool!Size(lost) <= PoolSize
    <3>1. r2[i].dead + r2[i].live \in Nat
      BY SMTT(60), <2>1 DEF Tunnels
    <3>2. lost \in Tunnels
      BY <2>1, <3>1 DEF Tunnels
    <3> QED BY SMTT(60), <2>1, <3>2 DEF Tunnels, TierPool!Size
  <2>3. r2' = [r2 EXCEPT ![i] = lost] /\ r3' = r3
    BY <1>5 DEF TierPool!Down, TierInv
  <2>4. Pools
    <3> HIDE DEF lost
    <3> QED BY <2>2, <2>3 DEF TierInv, TierPool!PoolBounded
  <2>5. ASSUME NEW h \in Guests, r4'[h] # None PROVE Tried(r4'[h])
    <3>1. \/ r4'[h] = r4[h]
          \/ r4[h] # None /\ r4[h].at = "send" /\ r4'[h] = [r4[h] EXCEPT !.via = "dead"]
      BY <1>5 DEF TierPool!Down, TierPool!Going
    <3>2. r4[h] # None => Tried(r4[h])
      BY DEF TierInv
    <3>3. r4[h] \in Carried => [r4[h] EXCEPT !.via = "dead"] \in Carried
      BY DEF Carried
    <3> QED BY <2>5, <3>1, <3>2, <3>3 DEF Tried, Carried
  <2>6. DOMAIN r4' = Guests
    BY <1>5 DEF TierPool!Down
  <2> QED BY <2>3, <2>4, <2>5, <2>6 DEF TierInv
<1>6. ASSUME NEW i \in TierPool!Replicas, TierPool!Ping(i)
      PROVE  Accounts /\ Pools /\ r3' \in TierPool!Replicas
  <2> DEFINE shut == [r2[i] EXCEPT !.closed = @ + r2[i].dead, !.dead = 0]
  <2>1. r2[i] \in Tunnels /\ TierPool!Size(r2[i]) <= PoolSize
    BY DEF TierInv, TierPool!PoolBounded
  <2>2. shut \in Tunnels /\ TierPool!Size(shut) <= PoolSize
    <3>1. r2[i].closed + r2[i].dead \in Nat
      BY SMTT(60), <2>1 DEF Tunnels
    <3>2. shut \in Tunnels
      BY <2>1, <3>1 DEF Tunnels
    <3> QED BY SMTT(60), <2>1, <3>2 DEF Tunnels, TierPool!Size
  <2>3. r2' = [r2 EXCEPT ![i] = shut] /\ r3' = r3 /\ r4' = r4
    BY <1>6 DEF TierPool!Ping, TierInv
  <2> HIDE DEF shut
  <2> QED BY <2>2, <2>3 DEF TierInv, TierPool!PoolBounded
<1>7. CASE UNCHANGED <<r2, r3, r4>>
  BY <1>7 DEF TierInv, TierPool!PoolBounded, TierPool!Size
<1>8. ASSUME NEW i \in TierPool!Replicas, TierPool!Up(i) PROVE UNCHANGED <<r2, r3, r4>>
  BY <1>8 DEF TierPool!Up
<1> QED BY <1>1, <1>2, <1>3, <1>4, <1>5, <1>6, <1>7, <1>8 DEF TierPool!Next, TierPool!vars

(* No more than tier_pool_size tunnels to a replica are kept, however many  *)
(* dial at once (conn_for), and a guest's connection is given up only when  *)
(* each replica has failed it (Tier::open), for any number of replicas,     *)
(* guests and tunnels.                                                      *)
THEOREM TunnelsFairHolds ==
  ASSUME Tiers \in Nat \ {0}, PoolSize \in Nat
  PROVE  NetworkSpec => []TunnelsFair
<1> DEFINE Inv == part = "tierPool" => TierInv
<1>1. NetworkInit => Inv
  BY TierInit DEF NetworkInit
<1>2. Inv /\ [NetworkNext]_NetworkVars => Inv'
  BY OnePart, TierNext
<1>3. Inv => TunnelsFair
  <2> SUFFICES ASSUME TierInv, NEW g \in Guests, TierPool!Going(g, "refused")
               PROVE  r4[g].failed = TierPool!Replicas
    BY DEF TunnelsFair, TierPool!AllTried, TierInv
  <2>1. Tried(r4[g]) /\ r4[g].n = Tiers
    BY DEF TierInv, TierPool!Going, Tried
  <2>2. ASSUME NEW i \in TierPool!Replicas PROVE i \in r4[g].failed
    <3>1. r4[g].start \in 0 .. (Tiers - 1) /\ i \in 0 .. (Tiers - 1)
      BY <2>1 DEF Tried, Carried, TierPool!Replicas
    <3>2. PICK k \in 0 .. (Tiers - 1) : (r4[g].start + k) % Tiers = i
      BY <3>1, InTurn
    <3> QED BY <2>1, <3>2 DEF Tried
  <2> QED BY <2>1, <2>2 DEF Tried, Carried
<1> QED BY <1>1, <1>2, <1>3, PTL DEF NetworkSpec

-----------------------------------------------------------------------------
(***************************************************************************)
(* SlotNet.  A call of the manager has made the first i - 1 calls of its   *)
(* plan, and what those leave in the kernel stays: nothing but the slot's  *)
(* own call changes the slot's network.                                    *)
(***************************************************************************)
Pols == Policies \cup {Builder}
Nets == [ns : BOOLEAN, peer : {"none", "root", "netns"}, up : SUBSET {"host", "peer", "tap"},
         tap : BOOLEAN, routes : SUBSET {"services", "default"}, sysctls : BOOLEAN,
         host : Pols \cup {None}, inner : Pols \cup {None}]

Plan(name) ==
  IF name = "apply" THEN Converge ELSE IF name = "reapply" THEN Reapply ELSE Destroy
Rest(c, i) == [k \in 1 .. (Len(c) - i + 1) |-> c[i + k - 1]]

(* What the first i - 1 calls of converge have made. *)
Made(n, p, i) ==
  /\ i > 1 => n.ns
  /\ i > 2 => n.peer # "none"
  /\ i > 3 => "host" \in n.up
  /\ i > 4 => n.peer = "netns"
  /\ i > 5 => n.host = p
  /\ i > 6 => "peer" \in n.up
  /\ i > 7 => n.tap
  /\ i > 8 => "tap" \in n.up
  /\ i > 9 => Routes(p) \subseteq n.routes
  /\ i > 10 => n.sysctls
  /\ i > 11 => n.inner = p

(* The routes are the plan's, and were none before. *)
OwnRoutes(n, p, i) == n.routes = IF i > 9 THEN Routes(p) ELSE {}

Doing(s, i) ==
  /\ DOMAIN op[s] = {"name", "steps", "pol", "doomed"}
  /\ op[s].name \in {"apply", "reapply", "teardown"}
  /\ op[s].steps = Rest(Plan(op[s].name), i)
  /\ i \in 1 .. Len(Plan(op[s].name))
  /\ op[s].name = "apply" =>
       /\ answer[s] = "none" /\ op[s].pol = want[s]
       /\ Made(net[s], want[s], i)
       /\ clean[s] => OwnRoutes(net[s], want[s], i)
  /\ op[s].name = "reapply" =>
       op[s].pol = want[s] /\ want[s] \in Policies /\ answer[s] # "none" /\ changes # 0
  /\ op[s].name = "teardown" =>
       /\ op[s].pol = None
       /\ i > 2 => net[s].routes = {}
       /\ i > 3 => net[s].peer = "none"
       /\ i > 4 => \A e \in ct : e.slot = s => e \in op[s].doomed

(* The network of a slot whose VM an apply has answered Ok for. *)
Full(s) ==
  /\ Made(net[s], want[s], 12)
  /\ clean[s] => OwnRoutes(net[s], want[s], 12)

SlotGood(s) ==
  /\ net[s] \in Nets
  /\ op[s] = Idle \/ (vm[s] # 0 /\ \E i \in Nat : Doing(s, i))
  /\ vm[s] # 0 => want[s] \in Pols
  /\ vm[s] = 0 => answer[s] = "none"
  /\ vm[s] # 0 /\ op[s] = Idle => answer[s] # "none"
  /\ vm[s] # 0 /\ answer[s] # "none" /\ op[s].name # "teardown" =>
       net[s].host \in Pols /\ net[s].host.direct = want[s].direct
  /\ ~net[s].ns => net[s].routes = {}
  /\ vm[s] = 0 /\ clean[s] => net[s].routes = {}
  /\ \A e \in ct : e.slot = s /\ clean[s] => vm[s] # 0 /\ e.vm = vm[s]
  /\ vm[s] # 0 /\ op[s] = Idle /\ answer[s] = "ok" /\ changes = 0 => Full(s)

SlotNetInv ==
  /\ vms \in Nat /\ changes \in Nat
  /\ DOMAIN net = Slots /\ DOMAIN op = Slots /\ DOMAIN vm = Slots /\ DOMAIN want = Slots
  /\ DOMAIN vmm = Slots /\ DOMAIN answer = Slots /\ DOMAIN clean = Slots
  /\ \A s \in Slots : SlotGood(s)

LEMMA RestFacts ==
  ASSUME NEW S, NEW c \in Seq(S), NEW i \in 1 .. Len(c)
  PROVE  /\ c[i] \in S
         /\ Rest(c, 1) = c
         /\ Head(Rest(c, i)) = c[i]
         /\ Len(Rest(c, i)) = Len(c) - i + 1
         /\ i < Len(c) => Tail(Rest(c, i)) = Rest(c, i + 1)
<1>1. Rest(c, 1) = c
  BY SMTT(60) DEF Rest
<1>2. Rest(c, i) \in Seq(S) /\ Len(Rest(c, i)) = Len(c) - i + 1
  BY SMTT(60) DEF Rest
<1>3. Head(Rest(c, i)) = c[i]
  BY SMTT(60), <1>2 DEF Rest
<1>4. ASSUME i < Len(c) PROVE Tail(Rest(c, i)) = Rest(c, i + 1)
  BY SMTT(60), <1>2, <1>4 DEF Rest
<1> QED BY SMTT(60), <1>1, <1>2, <1>3, <1>4

KernelSteps == {"ns", "veth", "hostaddr", "move", "host", "peeraddr", "tap", "tapaddr",
                "routes", "sysctls", "inner", "table", "unns", "link", "dump", "delete"}

LEMMA PlanFacts ==
  /\ Converge \in Seq(KernelSteps) /\ Reapply \in Seq(KernelSteps) /\ Destroy \in Seq(KernelSteps)
  /\ Len(Converge) = 11 /\ Len(Reapply) = 3 /\ Len(Destroy) = 5
  /\ Converge[1] = "ns" /\ Converge[2] = "veth" /\ Converge[3] = "hostaddr"
  /\ Converge[4] = "move" /\ Converge[5] = "host" /\ Converge[6] = "peeraddr"
  /\ Converge[7] = "tap" /\ Converge[8] = "tapaddr" /\ Converge[9] = "routes"
  /\ Converge[10] = "sysctls" /\ Converge[11] = "inner"
  /\ Reapply[1] = "host" /\ Reapply[2] = "ns" /\ Reapply[3] = "inner"
  /\ Destroy[1] = "table" /\ Destroy[2] = "unns" /\ Destroy[3] = "link"
  /\ Destroy[4] = "dump" /\ Destroy[5] = "delete"
<1>1. Converge \in Seq(KernelSteps) /\ Reapply \in Seq(KernelSteps) /\ Destroy \in Seq(KernelSteps)
  <2>1. Converge \in Seq(KernelSteps)
    BY SMTT(60) DEF Converge, KernelSteps
  <2>2. Reapply \in Seq(KernelSteps) /\ Destroy \in Seq(KernelSteps)
    BY SMTT(60) DEF Reapply, Destroy, KernelSteps
  <2> QED BY <2>1, <2>2
<1>2. Len(Converge) = 11 /\ Len(Reapply) = 3 /\ Len(Destroy) = 5
  BY DEF Converge, Reapply, Destroy
<1>3. /\ Converge[1] = "ns" /\ Converge[2] = "veth" /\ Converge[3] = "hostaddr"
      /\ Converge[4] = "move" /\ Converge[5] = "host" /\ Converge[6] = "peeraddr"
  BY DEF Converge
<1>4. /\ Converge[7] = "tap" /\ Converge[8] = "tapaddr" /\ Converge[9] = "routes"
      /\ Converge[10] = "sysctls" /\ Converge[11] = "inner"
  BY DEF Converge
<1>5. /\ Reapply[1] = "host" /\ Reapply[2] = "ns" /\ Reapply[3] = "inner"
      /\ Destroy[1] = "table" /\ Destroy[2] = "unns" /\ Destroy[3] = "link"
      /\ Destroy[4] = "dump" /\ Destroy[5] = "delete"
  BY DEF Reapply, Destroy
<1> QED BY <1>1, <1>2, <1>3, <1>4, <1>5

(* What each kernel call leaves of a slot's network, field by field. *)
Leave(n, step, p, k) ==
  /\ k \in Nets
  /\ step = "ns" => k.ns
  /\ step # "unns" => (n.ns => k.ns)
  /\ step \notin {"unns", "ns"} => k.ns = n.ns
  /\ step \notin {"veth", "move", "unns", "link"} => k.peer = n.peer
  /\ step = "veth" => k.peer = IF n.peer = "none" THEN "root" ELSE n.peer
  /\ step = "move" => k.peer = IF n.peer = "root" THEN "netns" ELSE n.peer
  /\ step = "link" => k.peer = "none"
  /\ step \notin {"unns", "link"} => n.up \subseteq k.up
  /\ step = "hostaddr" => "host" \in k.up
  /\ step = "peeraddr" => "peer" \in k.up
  /\ step = "tapaddr" => "tap" \in k.up
  /\ step = "tap" => k.tap
  /\ step # "unns" => (n.tap => k.tap)
  /\ step \notin {"routes", "unns"} => k.routes = n.routes
  /\ step = "routes" => k.routes = n.routes \cup Routes(p)
  /\ step = "unns" => k.routes = {} \/ (~n.ns /\ k = n)
  /\ step = "sysctls" => k.sysctls
  /\ step # "unns" => (n.sysctls => k.sysctls)
  /\ step \notin {"host", "table"} => k.host = n.host
  /\ step = "host" => k.host = p
  /\ step \notin {"inner", "unns"} => k.inner = n.inner
  /\ step = "inner" => k.inner = p

LEMMA KernelFields ==
  ASSUME NEW n \in Nets, NEW p \in Pols \cup {None}, NEW step \in KernelSteps,
         NEW k, k = KernelCall(n, step, p)
  PROVE  Leave(n, step, p, k)
<1> USE DEF Leave
<1>0. Routes(p) \subseteq {"services", "default"}
  BY DEF Routes
<1>1. CASE step = "ns"
  BY <1>1 DEF KernelCall, EnsureNs, Nets
<1>2. CASE step = "veth"
  BY <1>2 DEF KernelCall, EnsureVeth, Nets
<1>3. CASE step = "hostaddr"
  BY <1>3 DEF KernelCall, AddrAndUp, Nets
<1>4. CASE step = "move"
  BY <1>4 DEF KernelCall, MovePeer, Nets
<1>5. CASE step = "host"
  BY <1>5 DEF KernelCall, ApplyHost, Nets
<1>6. CASE step = "peeraddr"
  BY <1>6 DEF KernelCall, AddrAndUp, Nets
<1>7. CASE step = "tap"
  BY <1>7 DEF KernelCall, CreateTap, Nets
<1>8. CASE step = "tapaddr"
  BY <1>8 DEF KernelCall, AddrAndUp, Nets
<1>9. CASE step = "routes"
  BY <1>0, <1>9 DEF KernelCall, AddRoutes, Nets
<1>10. CASE step = "sysctls"
  BY <1>10 DEF KernelCall, Nets
<1>11. CASE step = "inner"
  BY <1>11 DEF KernelCall, ApplyInner, Nets
<1>12. CASE step = "table"
  BY <1>12 DEF KernelCall, DeleteTable, Nets
<1>13. CASE step = "unns"
  <2>1. k = RemoveNs(n)
    BY <1>13 DEF KernelCall
  <2>2. CASE ~n.ns
    BY <1>13, <2>1, <2>2 DEF RemoveNs
  <2>3. CASE n.ns
    <3>1. k = [Absent EXCEPT !.host = n.host, !.peer = IF n.peer = "root" THEN "root" ELSE "none",
                             !.up = IF n.peer = "root" THEN n.up \cap {"host"} ELSE {}]
      BY <2>1, <2>3 DEF RemoveNs
    <3>2. /\ n.host \in Pols \cup {None} /\ n.up \in SUBSET {"host", "peer", "tap"}
          /\ (IF n.peer = "root" THEN "root" ELSE "none") \in {"none", "root", "netns"}
          /\ (IF n.peer = "root" THEN n.up \cap {"host"} ELSE {}) \in SUBSET {"host", "peer", "tap"}
      BY DEF Nets
    <3>3. Absent \in Nets
      BY DEF Absent, Nets
    <3>4. k \in Nets
      BY <3>1, <3>2, <3>3 DEF Nets
    <3>5. k.routes = {} /\ k.host = n.host
      BY <3>1 DEF Absent
    <3> QED BY <1>13, <3>4, <3>5
  <2> QED BY <2>2, <2>3
<1>14. CASE step = "link"
  <2>1. k = [n EXCEPT !.peer = "none", !.up = n.up \cap {"tap"}]
    BY <1>14 DEF KernelCall, DeleteVeth
  <2>2. "none" \in {"none", "root", "netns"} /\ n.up \cap {"tap"} \in SUBSET {"host", "peer", "tap"}
    BY DEF Nets
  <2>3. k \in Nets
    BY <2>1, <2>2 DEF Nets
  <2>4. /\ k.peer = "none" /\ k.ns = n.ns /\ k.tap = n.tap /\ k.routes = n.routes
        /\ k.sysctls = n.sysctls /\ k.host = n.host /\ k.inner = n.inner
    BY <2>1 DEF Nets
  <2> QED BY <1>14, <2>3, <2>4
<1>15. CASE step \in {"dump", "delete"}
  BY <1>15 DEF KernelCall, Nets
<1> HIDE DEF Leave
<1> QED
  <2>1. step \in {"ns", "veth", "hostaddr", "move"} \cup {"host", "peeraddr", "tap", "tapaddr"}
                 \cup {"routes", "sysctls", "inner", "table"} \cup {"unns", "link", "dump", "delete"}
    BY DEF KernelSteps
  <2> QED BY <1>1, <1>2, <1>3, <1>4, <1>5, <1>6, <1>7, <1>8, <1>9, <1>10, <1>11, <1>12,
             <1>13, <1>14, <1>15, <2>1

(* What the other slots and their calls do leaves a slot as it was. *)
LEMMA OtherSlot ==
  ASSUME SlotNetInv, NEW s \in Slots,
         net'[s] = net[s], op'[s] = op[s], vm'[s] = vm[s], want'[s] = want[s],
         answer'[s] = answer[s], clean'[s] = clean[s],
         \A e \in ct' : e.slot = s => e \in ct,
         changes' = 0 => changes = 0
  PROVE  SlotGood(s)'
<1>1. SlotGood(s)
  BY DEF SlotNetInv
<1>2. ASSUME NEW i \in Nat, Doing(s, i) PROVE Doing(s, i)'
  BY <1>2 DEF Doing
<1>3. Full(s) => Full(s)'
  BY DEF Full
<1> QED BY <1>1, <1>2, <1>3 DEF SlotGood

LEMMA SlotNetInit == Init => SlotNetInv
<1> SUFFICES ASSUME Init PROVE SlotNetInv
  OBVIOUS
<1>1. ASSUME NEW s \in Slots PROVE SlotGood(s)
  <2>1. net[s] = Absent /\ op[s] = Idle /\ vm[s] = 0 /\ answer[s] = "none" /\ ct = {}
    BY <1>1 DEF Init
  <2>2. Absent \in Nets /\ Absent.routes = {}
    BY DEF Absent, Nets
  <2> QED BY <2>1, <2>2 DEF SlotGood
<1> QED BY <1>1 DEF Init, SlotNetInv

LEMMA IdleFacts == Idle.name = "none"
BY DEF Idle

LEMMA PlanOf ==
  Plan("apply") = Converge /\ Plan("reapply") = Reapply /\ Plan("teardown") = Destroy
BY DEF Plan

(* A call begins with all of its plan to make. *)
LEMMA Begins ==
  ASSUME NEW name \in {"apply", "reapply", "teardown"}, NEW p,
         NEW o, o = Call(name, Plan(name), p)
  PROVE  /\ DOMAIN o = {"name", "steps", "pol", "doomed"}
         /\ o.name = name /\ o.pol = p /\ o # Idle
         /\ o.steps = Rest(Plan(name), 1)
         /\ 1 \in 1 .. Len(Plan(name))
<1>1. Plan(name) \in Seq(KernelSteps) /\ Len(Plan(name)) \in {3, 5, 11}
  BY PlanOf, PlanFacts
<1>2. 1 \in 1 .. Len(Plan(name))
  <2>1. Len(Plan(name)) = 3 \/ Len(Plan(name)) = 5 \/ Len(Plan(name)) = 11
    BY <1>1
  <2> QED BY SMTT(60), <2>1
<1>3. Rest(Plan(name), 1) = Plan(name)
  BY <1>1, <1>2, RestFacts
<1>4. o.name = name /\ o.pol = p /\ o.steps = Plan(name)
      /\ DOMAIN o = {"name", "steps", "pol", "doomed"}
  BY DEF Call
<1> QED BY <1>2, <1>3, <1>4, IdleFacts

LEMMA ApplyGood ==
  ASSUME SlotNetInv, NEW s \in Slots, NEW p \in Pols, Apply(s, p)
  PROVE  SlotNetInv'
<1>1. /\ op'[s] = Call("apply", Converge, p) /\ want'[s] = p /\ vm'[s] = vms + 1
      /\ UNCHANGED <<net, answer, clean, ct, changes>>
      /\ vm[s] = 0
  BY DEF Apply, SlotNetInv
<1>a. /\ DOMAIN op'[s] = {"name", "steps", "pol", "doomed"}
      /\ op'[s].name = "apply" /\ op'[s].pol = p /\ op'[s] # Idle
      /\ op'[s].steps = Rest(Plan("apply"), 1) /\ 1 \in 1 .. Len(Plan("apply"))
  BY SMTT(60), <1>1, Begins, PlanOf
<1>2. ASSUME NEW t \in Slots, t # s PROVE SlotGood(t)'
  <2>1. op'[t] = op[t] /\ vm'[t] = vm[t] /\ want'[t] = want[t]
    BY <1>2 DEF Apply, SlotNetInv
  <2> QED BY <1>1, <2>1, OtherSlot
<1>3. SlotGood(s)'
  <2>1. SlotGood(s) /\ vms + 1 # 0
    BY SMTT(60) DEF SlotNetInv
  <2>2. Doing(s, 1)'
    <3>1. Made(net'[s], p, 1) /\ (clean[s] => OwnRoutes(net'[s], p, 1))
      BY SMTT(60), <1>1, <2>1 DEF Made, OwnRoutes, SlotGood
    <3>2. answer'[s] = "none"
      BY <1>1, <2>1 DEF SlotGood
    <3> QED BY <1>1, <1>a, <3>1, <3>2 DEF Doing
  <2>3. op'[s] # Idle /\ op'[s].name # "teardown" /\ answer'[s] = "none"
    BY <1>1, <1>a, <2>1 DEF SlotGood
  <2>4. ~(\E e \in ct' : e.slot = s /\ clean'[s])
    BY <1>1, <2>1 DEF SlotGood
  <2>5. 1 \in Nat /\ net'[s] = net[s]
    BY <1>1
  <2> QED BY <1>1, <2>1, <2>2, <2>3, <2>4, <2>5 DEF SlotGood
<1>4. /\ vms' \in Nat /\ changes' \in Nat
      /\ DOMAIN net' = Slots /\ DOMAIN op' = Slots /\ DOMAIN vm' = Slots /\ DOMAIN want' = Slots
      /\ DOMAIN vmm' = Slots /\ DOMAIN answer' = Slots /\ DOMAIN clean' = Slots
  BY SMTT(60) DEF Apply, SlotNetInv
<1> QED BY <1>2, <1>3, <1>4 DEF SlotNetInv

LEMMA ReapplyGood ==
  ASSUME SlotNetInv, NEW s \in Slots, NEW p \in Policies, ReapplyPolicy(s, p)
  PROVE  SlotNetInv'
<1>1. /\ op'[s] = Call("reapply", Reapply, p) /\ want'[s] = p
      /\ UNCHANGED <<net, vm, answer, clean, ct>> /\ changes' = changes + 1
      /\ vm[s] # 0 /\ op[s] = Idle /\ ~want[s].direct
  BY DEF ReapplyPolicy, SlotNetInv
<1>a. changes' # 0 /\ changes' \in Nat
  BY SMTT(60), <1>1 DEF SlotNetInv
<1>b. /\ DOMAIN op'[s] = {"name", "steps", "pol", "doomed"}
      /\ op'[s].name = "reapply" /\ op'[s].pol = p /\ op'[s] # Idle
      /\ op'[s].steps = Rest(Plan("reapply"), 1) /\ 1 \in 1 .. Len(Plan("reapply"))
  BY SMTT(60), <1>1, Begins, PlanOf
<1>2. ASSUME NEW t \in Slots, t # s PROVE SlotGood(t)'
  <2>1. op'[t] = op[t] /\ want'[t] = want[t]
    BY <1>2 DEF ReapplyPolicy, SlotNetInv
  <2> QED BY <1>1, <1>a, <2>1, OtherSlot
<1>3. SlotGood(s)'
  <2>1. SlotGood(s)
    BY DEF SlotNetInv
  <2>2. p \in Pols /\ p.direct = FALSE
    BY DEF Pols, Policies
  <2>3. want[s].direct = FALSE
    <3>1. want[s] \in Pols
      BY <1>1, <2>1 DEF SlotGood
    <3>2. Builder.direct = TRUE /\ (want[s] \in Policies => want[s].direct = FALSE)
      BY DEF Builder, Policies
    <3> QED BY <1>1, <3>1, <3>2 DEF Pols
  <2>4. answer[s] # "none" /\ net[s].host \in Pols /\ net[s].host.direct = p.direct
    BY <1>1, <2>1, <2>2, <2>3, IdleFacts DEF SlotGood
  <2>5. Doing(s, 1)'
    BY <1>1, <1>a, <1>b, <2>4 DEF Doing
  <2>6. 1 \in Nat /\ net'[s] = net[s] /\ vm'[s] = vm[s] /\ answer'[s] = answer[s]
        /\ clean'[s] = clean[s] /\ ct' = ct
    BY <1>1
  <2> QED BY <1>1, <2>1, <1>a, <1>b, <2>2, <2>4, <2>5, <2>6 DEF SlotGood
<1>4. /\ vms' \in Nat /\ changes' \in Nat
      /\ DOMAIN net' = Slots /\ DOMAIN op' = Slots /\ DOMAIN vm' = Slots /\ DOMAIN want' = Slots
      /\ DOMAIN vmm' = Slots /\ DOMAIN answer' = Slots /\ DOMAIN clean' = Slots
  BY <1>a DEF ReapplyPolicy, SlotNetInv
<1> QED BY <1>2, <1>3, <1>4 DEF SlotNetInv

(* One more call of converge. *)
LEMMA MadeStep ==
  ASSUME NEW n \in Nets, NEW p \in Pols, NEW i \in 1 .. 11, Made(n, p, i),
         NEW k, k = KernelCall(n, Converge[i], p)
  PROVE  Made(k, p, i + 1) /\ (OwnRoutes(n, p, i) => OwnRoutes(k, p, i + 1))
<1>0. Converge[i] \in KernelSteps
  <2>1. Converge \in Seq(KernelSteps) /\ Len(Converge) = 11
    BY PlanFacts
  <2> QED BY <2>1, RestFacts
<1>a. Leave(n, Converge[i], p, k)
  BY <1>0, KernelFields
<1>1. CASE i = 1
  <2>1. Leave(n, "ns", p, k)
    BY <1>a, <1>1, PlanFacts
  <2> QED BY SMTT(60), <1>1, <2>1 DEF Leave, Made, OwnRoutes
<1>2. CASE i = 2
  <2>1. Leave(n, "veth", p, k)
    BY <1>a, <1>2, PlanFacts
  <2> QED BY SMTT(60), <1>2, <2>1 DEF Leave, Made, OwnRoutes
<1>3. CASE i = 3
  <2>1. Leave(n, "hostaddr", p, k)
    BY <1>a, <1>3, PlanFacts
  <2> QED BY SMTT(60), <1>3, <2>1 DEF Leave, Made, OwnRoutes
<1>4. CASE i = 4
  <2>1. Leave(n, "move", p, k)
    BY <1>a, <1>4, PlanFacts
  <2> QED BY SMTT(60), <1>4, <2>1 DEF Leave, Made, OwnRoutes, Nets
<1>5. CASE i = 5
  <2>1. Leave(n, "host", p, k)
    BY <1>a, <1>5, PlanFacts
  <2> QED BY SMTT(60), <1>5, <2>1 DEF Leave, Made, OwnRoutes
<1>6. CASE i = 6
  <2>1. Leave(n, "peeraddr", p, k)
    BY <1>a, <1>6, PlanFacts
  <2> QED BY SMTT(60), <1>6, <2>1 DEF Leave, Made, OwnRoutes
<1>7. CASE i = 7
  <2>1. Leave(n, "tap", p, k)
    BY <1>a, <1>7, PlanFacts
  <2> QED BY SMTT(60), <1>7, <2>1 DEF Leave, Made, OwnRoutes
<1>8. CASE i = 8
  <2>1. Leave(n, "tapaddr", p, k)
    BY <1>a, <1>8, PlanFacts
  <2> QED BY SMTT(60), <1>8, <2>1 DEF Leave, Made, OwnRoutes
<1>9. CASE i = 9
  <2>1. Leave(n, "routes", p, k)
    BY <1>a, <1>9, PlanFacts
  <2> QED BY SMTT(60), <1>9, <2>1 DEF Leave, Made, OwnRoutes
<1>10. CASE i = 10
  <2>1. Leave(n, "sysctls", p, k)
    BY <1>a, <1>10, PlanFacts
  <2> QED BY SMTT(60), <1>10, <2>1 DEF Leave, Made, OwnRoutes
<1>11. CASE i = 11
  <2>1. Leave(n, "inner", p, k)
    BY <1>a, <1>11, PlanFacts
  <2> QED BY SMTT(60), <1>11, <2>1 DEF Leave, Made, OwnRoutes
<1> QED BY SMTT(60), <1>1, <1>2, <1>3, <1>4, <1>5, <1>6, <1>7, <1>8, <1>9, <1>10, <1>11

(* The step a call is at. *)
LEMMA StepAt ==
  ASSUME SlotNetInv, NEW s \in Slots, NEW i \in Nat, Doing(s, i)
  PROVE  /\ op[s] # Idle
         /\ Head(op[s].steps) = Plan(op[s].name)[i]
         /\ Head(op[s].steps) \in KernelSteps
         /\ Len(op[s].steps) = Len(Plan(op[s].name)) - i + 1
         /\ i < Len(Plan(op[s].name)) => Tail(op[s].steps) = Rest(Plan(op[s].name), i + 1)
         /\ Len(Plan(op[s].name)) \in Nat
<1>1. op[s].name \in {"apply", "reapply", "teardown"} /\ op[s].steps = Rest(Plan(op[s].name), i)
      /\ i \in 1 .. Len(Plan(op[s].name))
  BY DEF Doing
<1>2. Plan(op[s].name) \in Seq(KernelSteps)
  BY <1>1, PlanOf, PlanFacts
<1> DEFINE c == Plan(op[s].name)
<1>3. c \in Seq(KernelSteps) /\ i \in 1 .. Len(c)
  BY <1>1, <1>2
<1> HIDE DEF c
<1>4. c[i] \in KernelSteps /\ Len(c) \in Nat
  BY SMTT(60), <1>3
<1>5. Head(Rest(c, i)) = c[i] /\ Len(Rest(c, i)) = Len(c) - i + 1
      /\ (i < Len(c) => Tail(Rest(c, i)) = Rest(c, i + 1))
  BY <1>3, RestFacts
<1> QED BY <1>1, <1>4, <1>5, IdleFacts DEF c

(* What a call in the middle leaves: the next step is its turn. *)
LEMMA MidGood ==
  ASSUME SlotNetInv, NEW s \in Slots, Step(s), NEW i \in Nat, Doing(s, i), Len(op[s].steps) # 1
  PROVE  SlotGood(s)'
<1> DEFINE o == op[s]
           c == Plan(o.name)
           k == KernelCall(net[s], c[i], o.pol)
           o1 == [o EXCEPT !.steps = Tail(o.steps),
                           !.doomed = IF c[i] = "dump" THEN Doomed(s) ELSE o.doomed]
<1>1. SlotGood(s) /\ DOMAIN net = Slots /\ DOMAIN op = Slots
  BY DEF SlotNetInv
<1>2. /\ o # Idle /\ Head(o.steps) = c[i] /\ c[i] \in KernelSteps /\ Len(c) \in Nat
      /\ Len(o.steps) = Len(c) - i + 1
      /\ i < Len(c) => Tail(o.steps) = Rest(c, i + 1)
  BY StepAt
<1>3. /\ o.name \in {"apply", "reapply", "teardown"} /\ i \in 1 .. Len(c)
      /\ DOMAIN o = {"name", "steps", "pol", "doomed"}
  BY DEF Doing
<1>4. i < Len(c) /\ i + 1 \in 1 .. Len(c) /\ i + 1 \in Nat
  BY SMTT(60), <1>2, <1>3
<1>5. /\ net'[s] = k /\ op'[s] = o1 /\ ct' = Flushed(c[i], o.doomed)
      /\ UNCHANGED <<vm, want, vmm, answer, clean, vms, changes>>
  BY <1>1, <1>2 DEF Step
<1>6. /\ DOMAIN o1 = {"name", "steps", "pol", "doomed"}
      /\ o1.name = o.name /\ o1.pol = o.pol /\ o1.steps = Rest(c, i + 1)
      /\ o1.doomed = IF c[i] = "dump" THEN Doomed(s) ELSE o.doomed
  BY <1>2, <1>3, <1>4
<1>7. o1 # Idle
  BY <1>3, <1>6, IdleFacts
<1>8. vm[s] # 0 /\ want[s] \in Pols /\ net[s] \in Nets
  BY <1>1, <1>2 DEF SlotGood
<1>9. o.pol \in Pols \cup {None}
  BY <1>3, <1>8 DEF Doing
<1>10. Leave(net[s], c[i], o.pol, k)
  BY <1>2, <1>8, <1>9, KernelFields
<1>11. ct' \subseteq ct
  BY <1>5 DEF Flushed
<1> HIDE DEF k, o1
<1>12. CASE o.name = "apply"
  <2>1. /\ o.pol = want[s] /\ Made(net[s], want[s], i) /\ answer[s] = "none"
        /\ clean[s] => OwnRoutes(net[s], want[s], i)
    BY <1>12 DEF Doing
  <2>2. i \in 1 .. 11 /\ c = Converge
    BY <1>3, <1>12, PlanOf, PlanFacts
  <2>3. Made(k, want[s], i + 1) /\ (clean[s] => OwnRoutes(k, want[s], i + 1))
    BY <1>8, <2>1, <2>2, MadeStep DEF k
  <2>4. Doing(s, i + 1)'
    BY <1>4, <1>5, <1>6, <1>12, <2>1, <2>3 DEF Doing
  <2>5. ~k.ns => k.routes = {}
    BY SMTT(60), <1>1, <1>10, <2>2, <2>1, <2>3 DEF Made
  <2> QED BY <1>1, <1>4, <1>5, <1>6, <1>7, <1>8, <1>10, <1>11, <2>1, <2>4, <2>5
          DEF SlotGood, Leave
<1>13. CASE o.name = "reapply"
  <2>1. o.pol = want[s] /\ want[s] \in Policies /\ answer[s] # "none" /\ changes # 0
    BY <1>13 DEF Doing
  <2>2. c[i] = "host" \/ c[i] = "ns"
    <3>1. c = Reapply /\ Len(Reapply) = 3 /\ Reapply[1] = "host" /\ Reapply[2] = "ns"
      BY <1>13, PlanOf, PlanFacts
    <3>2. i = 1 \/ i = 2
      BY SMTT(60), <1>3, <1>4, <3>1
    <3> QED BY <3>1, <3>2
  <2>3. Doing(s, i + 1)'
    BY <1>4, <1>5, <1>6, <1>13, <2>1 DEF Doing
  <2>4. k.host \in Pols /\ k.host.direct = want[s].direct
    BY <1>1, <1>8, <1>10, <1>13, <2>1, <2>2 DEF SlotGood, Leave
  <2>5. (~k.ns => k.routes = {})
    BY <1>1, <1>10, <2>2 DEF SlotGood, Leave
  <2> QED BY <1>1, <1>4, <1>5, <1>6, <1>7, <1>8, <1>10, <1>11, <2>1, <2>3, <2>4, <2>5
          DEF SlotGood, Leave
<1>14. CASE o.name = "teardown"
  <2>1. /\ o.pol = None /\ (i > 2 => net[s].routes = {}) /\ (i > 3 => net[s].peer = "none")
        /\ i > 4 => \A e \in ct : e.slot = s => e \in o.doomed
    BY <1>14 DEF Doing
  <2>2. /\ i = 1 \/ i = 2 \/ i = 3 \/ i = 4
        /\ c[i] \in {"table", "unns", "link", "dump"}
        /\ i = 2 => c[i] = "unns"
        /\ i = 3 => c[i] = "link"
        /\ i = 4 => c[i] = "dump"
        /\ i > 2 => c[i] = "link" \/ c[i] = "dump"
        /\ i > 3 => c[i] = "dump"
    <3>1. c = Destroy /\ Len(Destroy) = 5 /\ Destroy[1] = "table" /\ Destroy[2] = "unns"
          /\ Destroy[3] = "link" /\ Destroy[4] = "dump"
      BY <1>14, PlanOf, PlanFacts
    <3>2. /\ i = 1 \/ i = 2 \/ i = 3 \/ i = 4
          /\ i > 2 => i = 3 \/ i = 4
          /\ i > 3 => i = 4
      BY SMTT(60), <1>3, <1>4, <3>1
    <3> QED BY <3>1, <3>2
  <2>3. /\ i + 1 > 2 => i = 2 \/ i > 2
        /\ i + 1 > 3 => i = 3 \/ i > 3
        /\ i + 1 > 4 => i = 4
    <3>1. i = 1 \/ i = 2 \/ i = 3 \/ i = 4
      BY <2>2
    <3> QED BY SMTT(60), <3>1
  <2>4. (~k.ns => k.routes = {}) /\ (i + 1 > 2 => k.routes = {})
    <3>1. ~net[s].ns => net[s].routes = {}
      BY <1>1 DEF SlotGood
    <3>2. c[i] = "unns" => k.routes = {}
      BY <1>10, <3>1 DEF Leave
    <3>3. c[i] # "unns" => k.routes = net[s].routes /\ k.ns = net[s].ns
      BY <1>10, <2>2 DEF Leave
    <3>4. i > 2 => c[i] # "unns"
      BY <2>2
    <3> QED BY <2>1, <2>2, <2>3, <3>1, <3>2, <3>3, <3>4
  <2>5. i + 1 > 3 => k.peer = "none"
    <3>1. c[i] = "link" => k.peer = "none"
      BY <1>10 DEF Leave
    <3>2. c[i] = "dump" => k.peer = net[s].peer
      BY <1>10 DEF Leave
    <3> QED BY <2>1, <2>2, <2>3, <3>1, <3>2
  <2>6. i + 1 > 4 => \A e \in ct' : e.slot = s => e \in o1.doomed
    BY <1>6, <1>11, <2>2, <2>3 DEF Doomed
  <2>7. Doing(s, i + 1)'
    BY <1>4, <1>5, <1>6, <1>14, <2>1, <2>4, <2>5, <2>6 DEF Doing
  <2> QED BY <1>1, <1>4, <1>5, <1>6, <1>7, <1>8, <1>10, <1>11, <1>14, <2>4, <2>7
          DEF SlotGood, Leave
<1> QED BY <1>3, <1>12, <1>13, <1>14

(* The last step answers. *)
LEMMA LastGood ==
  ASSUME SlotNetInv, NEW s \in Slots, Step(s), NEW i \in Nat, Doing(s, i), Len(op[s].steps) = 1
  PROVE  SlotGood(s)'
<1> DEFINE o == op[s]
           c == Plan(o.name)
           k == KernelCall(net[s], c[i], o.pol)
<1>1. SlotGood(s) /\ DOMAIN net = Slots /\ DOMAIN op = Slots /\ DOMAIN vm = Slots
      /\ DOMAIN want = Slots /\ DOMAIN answer = Slots /\ DOMAIN clean = Slots
  BY DEF SlotNetInv
<1>2. /\ o # Idle /\ Head(o.steps) = c[i] /\ c[i] \in KernelSteps /\ Len(c) \in Nat
      /\ Len(o.steps) = Len(c) - i + 1
  BY StepAt
<1>3. o.name \in {"apply", "reapply", "teardown"} /\ i \in 1 .. Len(c)
  BY DEF Doing
<1>4. i = Len(c)
  <2> DEFINE l == Len(c)
  <2>1. l \in Nat /\ 1 = l - i + 1
    BY <1>2
  <2> HIDE DEF l
  <2>2. i = l
    BY SMTT(60), <2>1
  <2> QED BY <2>2 DEF l
<1>5. /\ net'[s] = k /\ ct' = Flushed(c[i], o.doomed) /\ Answer(s, k, TRUE)
      /\ UNCHANGED <<vms, changes>>
  BY <1>1, <1>2 DEF Step
<1>6. vm[s] # 0 /\ want[s] \in Pols /\ net[s] \in Nets
  BY <1>1, <1>2 DEF SlotGood
<1>7. o.pol \in Pols \cup {None}
  BY <1>3, <1>6 DEF Doing
<1>8. Leave(net[s], c[i], o.pol, k)
  BY <1>2, <1>6, <1>7, KernelFields
<1>9. ct' \subseteq ct
  BY <1>5 DEF Flushed
<1> HIDE DEF k
<1>10. /\ answer'[s] = (IF o.name = "teardown" THEN "none" ELSE "ok")
       /\ op'[s] = Idle
       /\ vm'[s] = (IF o.name = "teardown" THEN 0 ELSE vm[s])
       /\ want'[s] = (IF o.name = "teardown" THEN None ELSE want[s])
       /\ clean'[s] = (IF o.name = "teardown" THEN TRUE ELSE clean[s])
  BY <1>1, <1>5 DEF Answer
<1>11. CASE o.name = "apply"
  <2>1. /\ o.pol = want[s] /\ Made(net[s], want[s], i)
        /\ clean[s] => OwnRoutes(net[s], want[s], i)
    BY <1>11 DEF Doing
  <2>2. i \in 1 .. 11 /\ i + 1 = 12 /\ c = Converge
    <3>1. c = Converge /\ Len(Converge) = 11
      BY <1>11, PlanOf, PlanFacts
    <3> QED BY SMTT(60), <1>4, <3>1
  <2>3. Made(k, want[s], 12) /\ (clean[s] => OwnRoutes(k, want[s], 12))
    BY <1>6, <2>1, <2>2, MadeStep DEF k
  <2>4. k.host = want[s] /\ k.ns
    BY SMTT(60), <2>3 DEF Made
  <2>5. Full(s)'
    BY <1>5, <1>10, <1>11, <2>3 DEF Full
  <2> QED BY <1>1, <1>5, <1>6, <1>8, <1>9, <1>10, <1>11, <2>4, <2>5 DEF SlotGood, Leave
<1>12. CASE o.name = "reapply"
  <2>1. want[s] \in Policies /\ answer[s] # "none" /\ changes # 0
    BY <1>12 DEF Doing
  <2>2. c[i] = "inner"
    BY <1>4, <1>12, PlanOf, PlanFacts
  <2>3. k.host = net[s].host /\ k.ns = net[s].ns /\ k.routes = net[s].routes
    BY <1>8, <2>2 DEF Leave
  <2> QED BY <1>1, <1>5, <1>6, <1>8, <1>9, <1>10, <1>12, <2>1, <2>3 DEF SlotGood, Leave
<1>13. CASE o.name = "teardown"
  <2>1. i = 5 /\ c[i] = "delete"
    BY <1>4, <1>13, PlanOf, PlanFacts
  <2>2. /\ net[s].routes = {} /\ \A e \in ct : e.slot = s => e \in o.doomed
    BY SMTT(60), <1>13, <2>1 DEF Doing
  <2>3. k.routes = {} /\ \A e \in ct' : e.slot # s
    BY <1>5, <1>8, <2>1, <2>2 DEF Leave, Flushed
  <2> QED BY <1>1, <1>5, <1>8, <1>10, <1>13, <2>3 DEF SlotGood, Leave
<1> QED BY <1>3, <1>11, <1>12, <1>13

LEMMA StepGood ==
  ASSUME SlotNetInv, NEW s \in Slots, Step(s)
  PROVE  SlotNetInv'
<1>1. PICK i \in Nat : Doing(s, i)
  BY DEF SlotNetInv, SlotGood, Step
<1>2. SlotGood(s)'
  BY <1>1, MidGood, LastGood
<1>3. /\ vms' = vms /\ changes' = changes
      /\ DOMAIN net' = Slots /\ DOMAIN op' = Slots /\ DOMAIN vm' = Slots /\ DOMAIN want' = Slots
      /\ DOMAIN vmm' = Slots /\ DOMAIN answer' = Slots /\ DOMAIN clean' = Slots
  BY DEF SlotNetInv, Step, Answer
<1>4. ct' \subseteq ct
  BY DEF Step, Flushed
<1>5. ASSUME NEW t \in Slots, t # s PROVE SlotGood(t)'
  <2>1. net'[t] = net[t] /\ op'[t] = op[t] /\ vm'[t] = vm[t] /\ want'[t] = want[t]
        /\ answer'[t] = answer[t] /\ clean'[t] = clean[t]
    BY <1>5 DEF SlotNetInv, Step, Answer
  <2> QED BY <1>3, <1>4, <2>1, OtherSlot
<1> QED BY <1>2, <1>3, <1>5 DEF SlotNetInv

LEMMA FailGood ==
  ASSUME SlotNetInv, NEW s \in Slots, Fail(s)
  PROVE  SlotNetInv'
<1>1. PICK i \in Nat : Doing(s, i)
  BY DEF SlotNetInv, SlotGood, Fail
<1>2. /\ vms' = vms /\ changes' = changes /\ net' = net /\ ct' = ct
      /\ DOMAIN op' = Slots /\ DOMAIN vm' = Slots /\ DOMAIN want' = Slots
      /\ DOMAIN vmm' = Slots /\ DOMAIN answer' = Slots /\ DOMAIN clean' = Slots
  BY DEF SlotNetInv, Fail, Answer
<1>3. ASSUME NEW t \in Slots, t # s PROVE SlotGood(t)'
  <2>1. op'[t] = op[t] /\ vm'[t] = vm[t] /\ want'[t] = want[t]
        /\ answer'[t] = answer[t] /\ clean'[t] = clean[t]
    BY <1>3 DEF SlotNetInv, Fail, Answer
  <2> QED BY <1>2, <2>1, OtherSlot
<1>4. SlotGood(s)'
  <2> DEFINE name == op[s].name
  <2>1. SlotGood(s) /\ vm[s] # 0 /\ name \in {"apply", "reapply", "teardown"}
    <3>1. op[s] # Idle
      BY DEF Fail
    <3> QED BY <1>1, <3>1 DEF SlotNetInv, SlotGood, Doing
  <2>2. /\ answer'[s] = (IF name = "teardown" THEN "none" ELSE "err")
        /\ op'[s] = (IF name = "apply" THEN Release ELSE Idle)
        /\ vm'[s] = (IF name = "teardown" THEN 0 ELSE vm[s])
        /\ want'[s] = (IF name = "teardown" THEN None ELSE want[s])
        /\ clean'[s] = (IF name = "teardown" THEN FALSE ELSE clean[s])
    BY DEF SlotNetInv, Fail, Answer
  <2>3. CASE name = "apply"
    <3>1. /\ DOMAIN op'[s] = {"name", "steps", "pol", "doomed"}
          /\ op'[s].name = "teardown" /\ op'[s].pol = None /\ op'[s] # Idle
          /\ op'[s].steps = Rest(Plan("teardown"), 1) /\ 1 \in 1 .. Len(Plan("teardown"))
      BY SMTT(60), <2>2, <2>3, Begins, PlanOf DEF Release
    <3>2. Doing(s, 1)' /\ 1 \in Nat
      BY SMTT(60), <3>1 DEF Doing
    <3> QED BY <1>2, <2>1, <2>2, <2>3, <3>1, <3>2 DEF SlotGood
  <2>4. CASE name = "reapply"
    <3>1. changes # 0 /\ answer[s] # "none"
      BY <1>1, <2>4 DEF Doing
    <3> QED BY <1>2, <2>1, <2>2, <2>4, <3>1 DEF SlotGood
  <2>5. CASE name = "teardown"
    BY <1>2, <2>1, <2>2, <2>5 DEF SlotGood
  <2> QED BY <2>1, <2>3, <2>4, <2>5
<1> QED BY <1>2, <1>3, <1>4 DEF SlotNetInv

LEMMA TeardownGood ==
  ASSUME SlotNetInv, NEW s \in Slots, Teardown(s)
  PROVE  SlotNetInv'
<1>1. /\ UNCHANGED <<net, vm, want, answer, clean, ct, vms, changes>> /\ op'[s] = Release
      /\ vm[s] # 0 /\ DOMAIN op' = Slots /\ DOMAIN vmm' = Slots
  BY DEF SlotNetInv, Teardown
<1>2. ASSUME NEW t \in Slots, t # s PROVE SlotGood(t)'
  <2>1. op'[t] = op[t]
    BY <1>2 DEF SlotNetInv, Teardown
  <2> QED BY <1>1, <2>1, OtherSlot
<1>3. SlotGood(s)'
  <2>1. /\ DOMAIN op'[s] = {"name", "steps", "pol", "doomed"}
        /\ op'[s].name = "teardown" /\ op'[s].pol = None /\ op'[s] # Idle
        /\ op'[s].steps = Rest(Plan("teardown"), 1) /\ 1 \in 1 .. Len(Plan("teardown"))
    BY <1>1, Begins, PlanOf DEF Release
  <2>2. Doing(s, 1)' /\ 1 \in Nat
    BY SMTT(60), <2>1 DEF Doing
  <2>3. SlotGood(s)
    BY DEF SlotNetInv
  <2> QED BY <1>1, <2>1, <2>2, <2>3 DEF SlotGood
<1> QED BY <1>1, <1>2, <1>3 DEF SlotNetInv

(* A boot changes nothing of a slot but that it has a VMM, and a flow is of *)
(* the VM that holds the slot, which the host's links still reach.         *)
LEMMA FlowGood ==
  ASSUME SlotNetInv, NEW s \in Slots, Boot(s) \/ Flow(s)
  PROVE  SlotNetInv'
<1>1. UNCHANGED <<net, op, vm, want, answer, clean, vms, changes>> /\ DOMAIN vmm' = Slots
  BY DEF SlotNetInv, Boot, Flow
<1>2. CASE ct' = ct
  <2>1. ASSUME NEW t \in Slots PROVE SlotGood(t)'
    BY <1>1, <1>2, OtherSlot
  <2> QED BY <1>1, <2>1 DEF SlotNetInv
<1>3. ASSUME NEW dir, ct' = ct \cup {[slot |-> s, vm |-> vm[s], dir |-> dir]}, vm[s] # 0, Path(s)
      PROVE  SlotNetInv'
  <2>1. ASSUME NEW e \in ct' PROVE e \in ct \/ (e.slot = s /\ e.vm = vm[s])
    BY SMTT(60), <1>3, <2>1
  <2>2. ASSUME NEW t \in Slots, t # s PROVE SlotGood(t)'
    BY <1>1, <2>1, <2>2, OtherSlot
  <2>3. SlotGood(s) /\ net[s].peer = "netns"
    BY <1>3 DEF SlotNetInv, Path
  <2>4. ASSUME NEW i \in Nat, Doing(s, i) PROVE Doing(s, i)'
    <3>1. op[s].name = "teardown" => ~(i > 3) /\ ~(i > 4)
      BY SMTT(60), <2>3, <2>4 DEF Doing
    <3> QED BY <1>1, <2>4, <3>1 DEF Doing
  <2>5. Full(s) => Full(s)'
    BY <1>1 DEF Full
  <2>6. \A e \in ct' : e.slot = s /\ clean[s] => e.vm = vm[s]
    BY <2>1, <2>3 DEF SlotGood
  <2>7. SlotGood(s)'
    BY <1>1, <1>3, <2>3, <2>4, <2>5, <2>6 DEF SlotGood
  <2> QED BY <1>1, <2>2, <2>7 DEF SlotNetInv
<1> QED BY <1>2, <1>3 DEF Boot, Flow

LEMMA SlotNetNext ==
  ASSUME SlotNetInv, [Next]_vars
  PROVE  SlotNetInv'
<1>1. CASE UNCHANGED vars
  <2>1. ASSUME NEW t \in Slots PROVE SlotGood(t)'
    BY <1>1, OtherSlot DEF vars
  <2> QED BY <1>1, <2>1 DEF SlotNetInv, vars
<1>2. CASE Next
  BY <1>2, ApplyGood, ReapplyGood, StepGood, FailGood, TeardownGood, FlowGood
  DEF Next, Pols
<1> QED BY <1>1, <1>2

(* The first rule that matches a packet decides. *)
Hits(rule, pkt) == \A f \in DOMAIN rule.match : pkt[f] \in rule.match[f]

LEMMA FirstHit ==
  ASSUME NEW rules, Len(rules) \in Nat, NEW pkt, NEW k \in 1 .. Len(rules), Hits(rules[k], pkt),
         \A j \in 1 .. Len(rules) : j < k => ~Hits(rules[j], pkt)
  PROVE  Verdict(rules, pkt) = rules[k].verdict
<1> DEFINE hits == {i \in 1 .. Len(rules) :
                     \A f \in DOMAIN rules[i].match : pkt[f] \in rules[i].match[f]}
           first == CHOOSE i \in hits : \A j \in hits : i <= j
<1>1. k \in hits /\ hits # {} /\ hits \subseteq Nat
  BY SMTT(60) DEF Hits
<1>2. \A j \in hits : k <= j
  BY SMTT(60) DEF Hits
<1>3. first \in hits /\ \A j \in hits : first <= j
  BY <1>1, <1>2
<1> HIDE DEF first, hits
<1>4. first = k
  BY SMTT(60), <1>1, <1>2, <1>3
<1>5. Verdict(rules, pkt) = rules[first].verdict
  BY <1>1 DEF Verdict, first, hits
<1> QED BY <1>4, <1>5

(* What comes in by the slot's link reaches nothing on the host but the    *)
(* services, whatever table else the host has, ...                         *)
LEMMA InputDrops ==
  ASSUME NEW s, NEW pkt, pkt.iif = Vh(s), Verdict(Input(s), pkt).do # "drop"
  PROVE  /\ pkt.daddr = Services
         /\ <<pkt.proto, pkt.dport>> \in ServicePorts \cup {<<"tcp", "proxy">>}
<1> DEFINE a == AcceptService(s, <<"udp", "dns">>)
           b == AcceptService(s, <<"tcp", "dns">>)
           c == AcceptService(s, <<"tcp", "proxy">>)
           d == DropFrom(s)
           rules == <<a, b, c, d>>
<1>1. Input(s) = rules
  BY DEF Input
<1>2. Hits(d, pkt) /\ d.verdict = Drop
  BY SMTT(60) DEF Hits, DropFrom, Rule
<1> HIDE DEF a, b, c, d
<1>3. Len(rules) = 4 /\ rules[1] = a /\ rules[2] = b /\ rules[3] = c /\ rules[4] = d
  OBVIOUS
<1> HIDE DEF rules
<1>4. Hits(a, pkt) \/ Hits(b, pkt) \/ Hits(c, pkt)
  <2> SUFFICES ASSUME ~Hits(a, pkt), ~Hits(b, pkt), ~Hits(c, pkt) PROVE FALSE
    OBVIOUS
  <2>1. \A j \in 1 .. Len(rules) : j < 4 => ~Hits(rules[j], pkt)
    BY SMTT(60), <1>3
  <2>2. Verdict(rules, pkt) = Drop
    BY SMTT(60), <1>2, <1>3, <2>1, FirstHit
  <2> QED BY SMTT(60), <1>1, <2>2 DEF Drop
<1>5. ASSUME NEW svc, Hits(AcceptService(s, svc), pkt)
      PROVE  pkt.daddr = Services /\ pkt.proto = svc[1] /\ pkt.dport = svc[2]
  BY <1>5 DEF Hits, AcceptService, Rule
<1> QED BY SMTT(60), <1>4, <1>5 DEF a, b, c, ServicePorts

LEMMA JoinedLength ==
  ASSUME NEW S, NEW c \in Seq(S), NEW d \in Seq(S)
  PROVE  Len(c \o d) = Len(c) + Len(d)
BY SMTT(60)

LEMMA Joined ==
  ASSUME NEW S, NEW c \in Seq(S), NEW d \in Seq(S), Len(d) = 1
  PROVE  /\ c \o d \in Seq(S) /\ Len(c \o d) = Len(c) + 1
         /\ \A i \in 1 .. Len(c) : (c \o d)[i] = c[i]
         /\ (c \o d)[Len(c) + 1] = d[1]
<1>1. Len(c \o d) = Len(c) + 1
  BY JoinedLength
<1>2. c \o d \in Seq(S)
  BY SMTT(60)
<1>3. \A i \in 1 .. Len(c) : (c \o d)[i] = c[i]
  BY SMTT(60)
<1>4. (c \o d)[Len(c) + 1] = d[1]
  BY SMTT(60)
<1> QED BY <1>1, <1>2, <1>3, <1>4

LEMMA Three ==
  ASSUME NEW S, NEW p \in Seq(S), NEW q \in Seq(S), Len(p) = 2, Len(q) = 1
  PROVE  /\ p \o q \in Seq(S) /\ Len(p \o q) = 3 /\ (p \o q)[1] = p[1]
         /\ (p \o q)[2] = p[2] /\ (p \o q)[3] = q[1]
<1>1. /\ p \o q \in Seq(S) /\ Len(p \o q) = Len(p) + 1
      /\ \A i \in 1 .. Len(p) : (p \o q)[i] = p[i]
      /\ (p \o q)[Len(p) + 1] = q[1]
  BY Joined
<1> QED BY SMTT(60), <1>1

(* Two rules, one that is there or not, and one. *)
LEMMA Spliced ==
  ASSUME NEW S, NEW p \in Seq(S), NEW q \in Seq(S), NEW r \in Seq(S),
         Len(p) = 2, Len(q) = 1, Len(r) = 1
  PROVE  /\ Len(p \o <<>> \o r) = 3 /\ (p \o <<>> \o r)[1] = p[1]
         /\ (p \o <<>> \o r)[2] = p[2] /\ (p \o <<>> \o r)[3] = r[1]
         /\ Len(p \o q \o r) = 4 /\ (p \o q \o r)[1] = p[1] /\ (p \o q \o r)[2] = p[2]
         /\ (p \o q \o r)[3] = q[1] /\ (p \o q \o r)[4] = r[1]
<1> DEFINE y == p \o q
<1>1. p \o <<>> = p
  BY SMTT(60)
<1>3. y \in Seq(S) /\ Len(y) = 3 /\ y[1] = p[1] /\ y[2] = p[2] /\ y[3] = q[1]
  BY SMTT(60), Three
<1> HIDE DEF y
<1>4. /\ Len(y \o r) = Len(y) + 1
      /\ \A i \in 1 .. Len(y) : (y \o r)[i] = y[i]
      /\ (y \o r)[Len(y) + 1] = r[1]
  <2>1. y \in Seq(S)
    BY <1>3
  <2> QED BY <2>1, Joined, SMTT(30)
<1>6. Len(p \o r) = 3 /\ (p \o r)[1] = p[1] /\ (p \o r)[2] = p[2] /\ (p \o r)[3] = r[1]
  BY SMTT(60), Three
<1>7. /\ Len(y \o r) = 4 /\ (y \o r)[1] = p[1] /\ (y \o r)[2] = p[2]
      /\ (y \o r)[3] = q[1] /\ (y \o r)[4] = r[1]
  BY SMTT(60), <1>3, <1>4
<1> QED BY <1>1, <1>6, <1>7 DEF y

(* ... and nothing beyond it but the uplink, when the policy is direct.    *)
LEMMA ForwardDrops ==
  ASSUME NEW s, NEW p, NEW pkt, pkt.iif = Vh(s), Verdict(Forward(s, p), pkt).do # "drop"
  PROVE  p.direct /\ pkt.oif = Uplink
<1> DEFINE a == Rule([iif |-> {Uplink}, oif |-> {Vh(s)}], Accept)
           b == Rule([iif |-> {Vh(s)}, daddr |-> VethNet], Drop)
           c == Rule([iif |-> {Vh(s)}, oif |-> {Uplink}], Accept)
           d == DropFrom(s)
           direct == p.direct /\ p.egress # "deny"
           rules == Forward(s, p)
<1>1. ~Hits(a, pkt)
  BY SMTT(60) DEF Hits, Rule, Vh, Uplink
<1>2. Hits(d, pkt) /\ d.verdict = Drop /\ b.verdict = Drop
  BY SMTT(60) DEF Hits, DropFrom, Rule
<1>3. Hits(c, pkt) => pkt.oif = Uplink
  BY DEF Hits, Rule
<1> DEFINE x == <<a, b>>
           y == <<c>>
           z == <<d>>
           S == {a, b, c, d}
<1>4. /\ ~direct => rules = x \o <<>> \o z
      /\ direct => rules = x \o y \o z
  BY DEF Forward
<1> HIDE DEF a, b, c, d, direct, rules
<1>a. /\ x \in Seq(S) /\ y \in Seq(S) /\ z \in Seq(S)
      /\ Len(x) = 2 /\ Len(y) = 1 /\ Len(z) = 1
  BY SMTT(60)
<1>b. x[1] = a /\ x[2] = b /\ y[1] = c /\ z[1] = d
  OBVIOUS
<1> HIDE DEF x, y, z, S
<1>c. /\ Len(x \o <<>> \o z) = 3 /\ (x \o <<>> \o z)[1] = x[1]
      /\ (x \o <<>> \o z)[2] = x[2] /\ (x \o <<>> \o z)[3] = z[1]
      /\ Len(x \o y \o z) = 4 /\ (x \o y \o z)[1] = x[1] /\ (x \o y \o z)[2] = x[2]
      /\ (x \o y \o z)[3] = y[1] /\ (x \o y \o z)[4] = z[1]
  BY <1>a, Spliced, SMTT(30)
<1>5. /\ ~direct => Len(rules) = 3 /\ rules[1] = a /\ rules[2] = b /\ rules[3] = d
      /\ direct => Len(rules) = 4 /\ rules[1] = a /\ rules[2] = b
                   /\ rules[3] = c /\ rules[4] = d
  BY <1>4, <1>b, <1>c
<1>6. CASE direct
  <2>1. Len(rules) = 4 /\ rules[1] = a /\ rules[2] = b /\ rules[3] = c /\ rules[4] = d
    BY <1>5, <1>6
  <2>2. CASE Hits(b, pkt)
    <3>1. \A j \in 1 .. Len(rules) : j < 2 => ~Hits(rules[j], pkt)
      BY SMTT(60), <1>1, <2>1
    <3>2. Verdict(rules, pkt) = Drop
      BY SMTT(60), <1>2, <2>1, <2>2, <3>1, FirstHit
    <3> QED BY SMTT(60), <3>2 DEF Drop, rules
  <2>3. CASE ~Hits(b, pkt) /\ ~Hits(c, pkt)
    <3>1. \A j \in 1 .. Len(rules) : j < 4 => ~Hits(rules[j], pkt)
      BY SMTT(60), <1>1, <2>1, <2>3
    <3>2. Verdict(rules, pkt) = Drop
      BY SMTT(60), <1>2, <2>1, <3>1, FirstHit
    <3> QED BY SMTT(60), <3>2 DEF Drop, rules
  <2> QED BY <1>3, <1>6, <2>2, <2>3 DEF direct
<1>7. CASE ~direct
  <2>1. Len(rules) = 3 /\ rules[1] = a /\ rules[2] = b /\ rules[3] = d
    BY <1>5, <1>7
  <2>2. CASE Hits(b, pkt)
    <3>1. \A j \in 1 .. Len(rules) : j < 2 => ~Hits(rules[j], pkt)
      BY SMTT(60), <1>1, <2>1
    <3>2. Verdict(rules, pkt) = Drop
      BY SMTT(60), <1>2, <2>1, <2>2, <3>1, FirstHit
    <3> QED BY SMTT(60), <3>2 DEF Drop, rules
  <2>3. CASE ~Hits(b, pkt)
    <3>1. \A j \in 1 .. Len(rules) : j < 3 => ~Hits(rules[j], pkt)
      BY SMTT(60), <1>1, <2>1, <2>3
    <3>2. Verdict(rules, pkt) = Drop
      BY SMTT(60), <1>2, <2>1, <3>1, FirstHit
    <3> QED BY SMTT(60), <3>2 DEF Drop, rules
  <2> QED BY <2>2, <2>3
<1> QED BY <1>6, <1>7

(* A translation changes where a packet goes, not where it came from. *)
LEMMA KeepsIif ==
  ASSUME NEW iif, NEW daddr, NEW proto, NEW dport,
         NEW pkt \in Translated(Packet(iif, daddr, proto, dport))
  PROVE  DOMAIN pkt = {"iif", "oif", "daddr", "proto", "dport"} /\ pkt.iif = iif
<1> DEFINE old == Packet(iif, daddr, proto, dport)
<1>1. DOMAIN old = {"iif", "oif", "daddr", "proto", "dport"} /\ old.iif = iif
  BY DEF Packet
<1>2. pkt = old \/ \E v : pkt = [old EXCEPT !.daddr = v.to, !.dport = v.port]
  BY DEF Translated
<1> HIDE DEF old
<1> QED BY <1>1, <1>2

LEMMA HostHolds ==
  ASSUME None \notin Pols, NEW s \in Slots, net[s].host \in Pols,
         NEW daddr, NEW proto, NEW dport, NEW end \in Delivered(Vh(s), daddr, proto, dport)
  PROVE  \/ end = Dropped
         \/ end \in {<<Services, svc[1], svc[2]>> : svc \in ServicePorts \cup {<<"tcp", "proxy">>}}
         \/ end = Uplink /\ net[s].host.direct
<1>1. PICK pkt \in Translated(Packet(Vh(s), daddr, proto, dport)) : end = Ends(pkt)
  BY DEF Delivered
<1>2. DOMAIN pkt = {"iif", "oif", "daddr", "proto", "dport"} /\ pkt.iif = Vh(s)
  BY KeepsIif
<1>3. s \in Tables
  BY DEF Tables
<1>4. CASE IsLocal(pkt.daddr)
  <2>1. CASE Passes(pkt, "input")
    <3>1. end = <<pkt.daddr, pkt.proto, pkt.dport>>
      BY <1>1, <1>4, <2>1 DEF Ends
    <3>2. Verdict(Input(s), pkt).do # "drop"
      BY <1>3, <2>1 DEF Passes, Chain, HostRuleset
    <3>3. /\ pkt.daddr = Services
          /\ <<pkt.proto, pkt.dport>> \in ServicePorts \cup {<<"tcp", "proxy">>}
      BY <1>2, <3>2, InputDrops
    <3> QED BY SMTT(60), <3>1, <3>3 DEF ServicePorts
  <2>2. CASE ~Passes(pkt, "input")
    BY <1>1, <1>4, <2>2 DEF Ends
  <2> QED BY <2>1, <2>2
<1>5. CASE ~IsLocal(pkt.daddr)
  <2> DEFINE out == [pkt EXCEPT !.oif = Oif(pkt.daddr)]
  <2>1. out.iif = Vh(s)
    BY <1>2
  <2>2. end = IF Passes(out, "forward") THEN out.oif ELSE Dropped
    BY <1>1, <1>5 DEF Ends
  <2> HIDE DEF out
  <2>3. CASE Passes(out, "forward")
    <3>1. Verdict(Forward(s, net[s].host), out).do # "drop"
      BY <1>3, <2>3 DEF Passes, Chain, HostRuleset
    <3>2. net[s].host.direct /\ out.oif = Uplink
      BY <2>1, <3>1, ForwardDrops
    <3> QED BY <2>2, <2>3, <3>2
  <2> QED BY <2>2, <2>3
<1> QED BY <1>4, <1>5

(* From its boot to its teardown, and whatever is done meanwhile to it and *)
(* to the other slots, a VM's flows end at the services or are dropped, for *)
(* any number of slots, ports, calls and VMs: while it runs, its slot's    *)
(* table is there and is as direct as its policy (plan.rs host_ruleset,    *)
(* nft.rs).                                                                *)
THEOREM ContainedHolds ==
  ASSUME None \notin Pols
  PROVE  NetworkSpec => []Contained
<1>1. NetworkInit => SlotNetInv
  BY SlotNetInit DEF NetworkInit
<1>2. SlotNetInv /\ [NetworkNext]_NetworkVars => SlotNetInv'
  BY SlotNetNext DEF NetworkNext, NetworkVars
<1>3. SlotNetInv => Contained
  <2> SUFFICES ASSUME SlotNetInv, NEW s \in Slots, vm[s] # 0, answer[s] # "none",
                      op[s].name # "teardown", NEW dst \in Destinations, NEW proto \in Protos,
                      NEW end \in Delivered(Vh(s), dst[1], proto, dst[2])
               PROVE  \/ end = Dropped
                      \/ end \in {<<Services, svc[1], svc[2]>> :
                                    svc \in ServicePorts \cup {<<"tcp", "proxy">>}}
                      \/ end = Uplink /\ want[s].direct
    BY DEF Contained
  <2>1. net[s].host \in Pols /\ net[s].host.direct = want[s].direct
    BY DEF SlotNetInv, SlotGood
  <2> QED BY SMTT(60), <2>1, HostHolds
<1> QED BY <1>1, <1>2, <1>3, PTL DEF NetworkSpec

(* Every VM starts with a whole network, and after a teardown that answered *)
(* Ok with none of its predecessor's flows and routes: the manager's calls *)
(* make their plans call by call, and by the time the flush dumps the      *)
(* host's flows the slot's link is gone (netlink.rs converge and destroy). *)
THEOREM StartsCleanHolds == NetworkSpec => []StartsClean
<1>1. NetworkInit => SlotNetInv
  BY SlotNetInit DEF NetworkInit
<1>2. SlotNetInv /\ [NetworkNext]_NetworkVars => SlotNetInv'
  BY SlotNetNext DEF NetworkNext, NetworkVars
<1>3. SlotNetInv => StartsClean
  <2> SUFFICES ASSUME SlotNetInv PROVE StartsClean
    OBVIOUS
  <2>1. NextStartsClean
    BY DEF NextStartsClean, SlotNetInv, SlotGood
  <2>2. ASSUME NEW s \in Slots, Live(s), op[s] = Idle, changes = 0
        PROVE  /\ net[s] = [ns |-> TRUE, peer |-> "netns", up |-> {"host", "peer", "tap"},
                            tap |-> TRUE, routes |-> net[s].routes, sysctls |-> TRUE,
                            host |-> want[s], inner |-> want[s]]
               /\ Routes(want[s]) \subseteq net[s].routes
               /\ clean[s] => net[s].routes = Routes(want[s])
    <3>1. Full(s) /\ net[s] \in Nets
      BY <2>2 DEF SlotNetInv, SlotGood, Live
    <3>2. /\ net[s].ns = TRUE /\ net[s].peer = "netns" /\ net[s].up = {"host", "peer", "tap"}
          /\ net[s].tap = TRUE /\ net[s].sysctls = TRUE
          /\ net[s].host = want[s] /\ net[s].inner = want[s]
          /\ Routes(want[s]) \subseteq net[s].routes
          /\ clean[s] => net[s].routes = Routes(want[s])
      BY SMTT(60), <3>1 DEF Full, Made, OwnRoutes, Nets
    <3> QED BY <3>1, <3>2 DEF Nets
  <2> QED BY <2>1, <2>2 DEF StartsClean, Converged
<1> QED BY <1>1, <1>2, <1>3, PTL DEF NetworkSpec

-----------------------------------------------------------------------------
(***************************************************************************)
(* SlotMemory.  The VMs of a slot are numbered as they come and a release  *)
(* lies between any two, so the count of releases dates a lookup: what a   *)
(* query found while the count stood still is of the VM holding the slot   *)
(* then, and its asker came no later.                                      *)
(***************************************************************************)
Dated(q, releases) ==
  /\ q.asker \in Nat /\ q.asker <= releases + 1
  /\ q.at \in {"list", "keep"} =>
       q.seen \in Nat /\ q.seen <= releases /\ q.asker <= q.seen + 1
  /\ q.at = "keep" /\ q.reach # {} =>
       q.of \in Nat /\ q.seen < q.of /\ q.of <= releases + 1
  /\ q.at = "lookup" => q.of \in Nat /\ q.of >= q.asker

MemInv ==
  LET holder == r1  stage == r2  placed == r3  cached == r5  releases == r6
      query == r7
  IN
  /\ placed \in Nat /\ releases \in Nat
  /\ stage \in {"free", "held", "unclaimed", "forgotten"}
  /\ placed = IF stage = "free" THEN releases ELSE releases + 1
  /\ holder = IF stage = "held" THEN placed ELSE 0
  /\ cached # None /\ cached.reach # {} => cached.of = releases + 1
  /\ DOMAIN query = Queries
  /\ \A q \in Queries : query[q] # None => Dated(query[q], releases)

LEMMA MemInit ==
  ASSUME SlotMemory!Init
  PROVE  MemInv
BY DEF SlotMemory!Init, MemInv

(* A query's own step leaves the others as they were. *)
LEMMA OneQuery ==
  ASSUME MemInv, NEW q \in Queries, NEW new, new # None => Dated(new, r6),
         r7' = [r7 EXCEPT ![q] = new], r6' = r6
  PROVE  DOMAIN r7' = Queries /\ \A p \in Queries : r7'[p] # None => Dated(r7'[p], r6')
BY DEF MemInv

LEMMA DecidedDated ==
  ASSUME MemInv, NEW q \in Queries, r7[q] # None, NEW of, NEW names,
         names # {} => of \in Nat /\ of >= r7[q].asker,
         SlotMemory!Decided(q, of, names), r6' = r6
  PROVE  DOMAIN r7' = Queries /\ \A p \in Queries : r7'[p] # None => Dated(r7'[p], r6')
<1> DEFINE new == [r7[q] EXCEPT !.at = "lookup", !.of = of, !.reach = {}, !.seen = 0]
<1>1. CASE r7[q].name \in names
  <2>1. new.at = "lookup" /\ new.of = of /\ new.asker = r7[q].asker
    BY SMTT(60)
  <2>2. r7' = [r7 EXCEPT ![q] = new]
    BY <1>1 DEF SlotMemory!Decided
  <2>3. Dated(new, r6)
    <3>1. Dated(r7[q], r6) /\ of \in Nat /\ of >= r7[q].asker
      BY <1>1 DEF MemInv
    <3> HIDE DEF new
    <3> QED BY <2>1, <3>1 DEF Dated
  <2> HIDE DEF new
  <2> QED BY <2>2, <2>3, OneQuery
<1>2. CASE r7[q].name \notin names
  BY <1>2, OneQuery DEF SlotMemory!Decided
<1> QED BY <1>1, <1>2

LEMMA MemNext ==
  ASSUME MemInv, [SlotMemory!Next]_(SlotMemory!vars)
  PROVE  MemInv'
<1> DEFINE Counts ==
             /\ r3 \in Nat /\ r6 \in Nat
             /\ r2 \in {"free", "held", "unclaimed", "forgotten"}
             /\ r3 = IF r2 = "free" THEN r6 ELSE r6 + 1
             /\ r1 = IF r2 = "held" THEN r3 ELSE 0
           Kept == r5 # None /\ r5.reach # {} => r5.of = r6 + 1
           Asked == DOMAIN r7 = Queries /\ \A q \in Queries : r7[q] # None => Dated(r7[q], r6)
<1>0. (MemInv <=> Counts /\ Kept /\ Asked) /\ (MemInv' <=> Counts' /\ Kept' /\ Asked')
  BY DEF MemInv
<1>1. Counts /\ Kept /\ Asked /\ r6 \in Nat
  BY <1>0
<1>2. UNCHANGED <<r6, r7>> => Asked'
  BY <1>1 DEF Dated
<1>3. CASE SlotMemory!Place
  <2>1. /\ r2 = "free" /\ r2' = "held" /\ r3' = r3 + 1 /\ r1' = r3 + 1 /\ r3 = r6
        /\ UNCHANGED <<r5, r6, r7>>
    BY <1>1, <1>3 DEF SlotMemory!Place
  <2>2. r3 + 1 \in Nat
    BY SMTT(60), <1>1, <2>1
  <2> QED BY <1>0, <1>1, <1>2, <2>1, <2>2
<1>4. CASE SlotMemory!SetPolicy \/ SlotMemory!CacheExpires \/ UNCHANGED SlotMemory!vars
           \/ \E dst \in Dsts : SlotMemory!EntryExpires(dst)
  <2>1. UNCHANGED <<r1, r2, r3, r6, r7>> /\ (r5' = r5 \/ r5' = None)
    BY <1>4 DEF SlotMemory!SetPolicy, SlotMemory!CacheExpires, SlotMemory!EntryExpires,
                SlotMemory!vars, SlotMemory!slot
  <2>2. Counts' /\ Kept'
    BY <1>1, <2>1
  <2> QED BY <1>0, <1>2, <2>1, <2>2
<1>5. CASE SlotMemory!Unclaim \/ SlotMemory!Forget
  <2>1. Counts' /\ Kept'
    BY <1>1, <1>5 DEF SlotMemory!Unclaim, SlotMemory!Forget
  <2>2. UNCHANGED <<r6, r7>>
    BY <1>5 DEF SlotMemory!Unclaim, SlotMemory!Forget
  <2> QED BY <1>0, <1>2, <2>1, <2>2
<1>6. CASE SlotMemory!Release
  <2>1. Counts' /\ Kept'
    BY <1>1, <1>6 DEF SlotMemory!Release
  <2>2. r7' = r7 /\ r6' = r6 + 1
    BY <1>6 DEF SlotMemory!Release
  <2>3. ASSUME NEW q \in Queries, Dated(r7[q], r6) PROVE Dated(r7[q], r6 + 1)
    BY SMTT(60), <1>1, <2>3 DEF Dated
  <2>4. Asked'
    BY <1>1, <2>2, <2>3
  <2> QED BY <1>0, <2>1, <2>4
<1>7. ASSUME NEW q \in Queries, SlotMemory!Ask(q) PROVE MemInv'
  <2>1. UNCHANGED <<r1, r2, r3, r5, r6>>
    BY <1>7 DEF SlotMemory!Ask, SlotMemory!slot
  <2>2. PICK n \in Names : r7' = [r7 EXCEPT ![q] =
          [asker |-> r1, name |-> n, at |-> "cache", seen |-> 0, of |-> 0, reach |-> {}]]
    BY <1>7 DEF SlotMemory!Ask
  <2>3. PICK new : new = [asker |-> r1, name |-> n, at |-> "cache", seen |-> 0, of |-> 0, reach |-> {}]
    OBVIOUS
  <2>4. new.asker = r1 /\ new.at = "cache"
    BY SMTT(60), <2>3
  <2>5. r1 = 0 \/ r1 = r6 + 1
    BY <1>1
  <2>6. r1 \in Nat /\ r1 <= r6 + 1
    BY SMTT(60), <1>1, <2>5
  <2>7. Dated(new, r6)
    BY <2>4, <2>6 DEF Dated
  <2>8. Asked'
    BY <2>1, <2>2, <2>3, <2>7, OneQuery
  <2>9. Counts' /\ Kept'
    BY <1>1, <2>1
  <2> QED BY <1>0, <2>8, <2>9
<1>8. ASSUME NEW q \in Queries, SlotMemory!FromCache(q) PROVE MemInv'
  <2>1. UNCHANGED <<r1, r2, r3, r5, r6>>
    BY <1>8 DEF SlotMemory!FromCache, SlotMemory!slot
  <2>2. r7[q] # None /\ Dated(r7[q], r6)
    BY <1>1, <1>8 DEF SlotMemory!FromCache
  <2>3. Counts' /\ Kept'
    BY <1>1, <2>1
  <2>4. r7[q].asker \in Nat /\ r7[q].asker <= r6 + 1
    BY <2>2 DEF Dated
  <2>5. CASE r5 # None
    <3>1. r6 + 1 \in Nat /\ r6 + 1 >= r7[q].asker
      BY SMTT(60), <1>1, <2>4
    <3>2. r5.reach # {} => r5.of \in Nat /\ r5.of >= r7[q].asker
      BY <1>1, <2>5, <3>1
    <3>3. SlotMemory!Decided(q, r5.of, r5.reach)
      BY <1>8, <2>5 DEF SlotMemory!FromCache
    <3>4. Asked'
      BY <2>1, <2>2, <3>2, <3>3, DecidedDated
    <3> QED BY <1>0, <2>3, <3>4
  <2>6. CASE r5 = None
    <3>1. PICK new : new = [r7[q] EXCEPT !.at = "list", !.seen = r6]
      OBVIOUS
    <3>2. r7' = [r7 EXCEPT ![q] = new]
      BY <1>8, <2>6, <3>1 DEF SlotMemory!FromCache
    <3>3. new.at = "list" /\ new.seen = r6 /\ new.asker = r7[q].asker
      BY SMTT(60), <3>1
    <3>4. r6 <= r6
      BY SMTT(60), <1>1
    <3>5. Dated(new, r6)
      BY <1>1, <2>4, <3>3, <3>4 DEF Dated
    <3>6. Asked'
      BY <2>1, <3>2, <3>5, OneQuery
    <3> QED BY <1>0, <2>3, <3>6
  <2> QED BY <2>5, <2>6
<1>9. ASSUME NEW q \in Queries, SlotMemory!ListVms(q) PROVE MemInv'
  <2>1. UNCHANGED <<r1, r2, r3, r5, r6>>
    BY <1>9 DEF SlotMemory!ListVms, SlotMemory!slot
  <2>2. r7[q] # None /\ Dated(r7[q], r6) /\ r7[q].at = "list"
    BY <1>1, <1>9 DEF SlotMemory!ListVms
  <2>3. PICK reach : reach = IF r1 = 0 THEN {} ELSE r4[r1]
    OBVIOUS
  <2>4. PICK new : new = [r7[q] EXCEPT !.at = "keep", !.of = r1, !.reach = reach]
    OBVIOUS
  <2>5. r7' = [r7 EXCEPT ![q] = new] \/ r7' = [r7 EXCEPT ![q] = None]
    BY <1>9, <2>3, <2>4 DEF SlotMemory!ListVms
  <2>6. new.at = "keep" /\ new.of = r1 /\ new.reach = reach
        /\ new.asker = r7[q].asker /\ new.seen = r7[q].seen
    BY SMTT(60), <2>4
  <2>7. reach # {} => r1 = r6 + 1
    BY <1>1, <2>3
  <2>8. /\ r7[q].asker \in Nat /\ r7[q].asker <= r6 + 1
        /\ r7[q].seen \in Nat /\ r7[q].seen <= r6 /\ r7[q].asker <= r7[q].seen + 1
    BY <2>2 DEF Dated
  <2>9. r6 + 1 \in Nat /\ r7[q].seen < r6 + 1 /\ r6 + 1 <= r6 + 1
    BY SMTT(60), <1>1, <2>8
  <2>10. Dated(new, r6)
    BY <2>6, <2>7, <2>8, <2>9 DEF Dated
  <2>11. Asked'
    BY <2>1, <2>5, <2>10, OneQuery
  <2>12. Counts' /\ Kept'
    BY <1>1, <2>1
  <2> QED BY <1>0, <2>11, <2>12
<1>10. ASSUME NEW q \in Queries, SlotMemory!Keep(q) PROVE MemInv'
  <2>1. UNCHANGED <<r1, r2, r3, r6>>
    BY <1>10 DEF SlotMemory!Keep, SlotMemory!slot
  <2>2. r7[q] # None /\ Dated(r7[q], r6) /\ r7[q].at = "keep"
    BY <1>1, <1>10 DEF SlotMemory!Keep
  <2>3. /\ r7[q].asker \in Nat /\ r7[q].seen \in Nat /\ r7[q].asker <= r7[q].seen + 1
        /\ r7[q].reach # {} => r7[q].of \in Nat /\ r7[q].seen < r7[q].of /\ r7[q].of <= r6 + 1
    BY <2>2 DEF Dated
  <2>4. r7[q].reach # {} => /\ r7[q].of \in Nat /\ r7[q].of >= r7[q].asker
                            /\ r6 = r7[q].seen => r7[q].of = r6 + 1
    BY SMTT(60), <1>1, <2>3
  <2>5. Counts' /\ Kept'
    <3>1. r5' = r5 \/ (r6 = r7[q].seen /\ r5' = [of |-> r7[q].of, reach |-> r7[q].reach])
      BY <1>10 DEF SlotMemory!Keep, SlotMemory!Keeps
    <3>2. CASE r5' = [of |-> r7[q].of, reach |-> r7[q].reach] /\ r6 = r7[q].seen
      <4>1. r5'.of = r7[q].of /\ r5'.reach = r7[q].reach
        BY <3>2
      <4> QED BY <1>1, <2>1, <2>4, <3>2, <4>1
    <3> QED BY <1>1, <2>1, <3>1, <3>2
  <2>6. SlotMemory!Decided(q, r7[q].of, r7[q].reach)
    BY <1>10 DEF SlotMemory!Keep
  <2>7. Asked'
    BY <2>1, <2>2, <2>4, <2>6, DecidedDated
  <2> QED BY <1>0, <2>5, <2>7
<1>11. ASSUME NEW q \in Queries, SlotMemory!Answered(q) \/ SlotMemory!LookupFails(q) PROVE MemInv'
  <2>1. UNCHANGED <<r1, r2, r3, r5, r6>> /\ r7' = [r7 EXCEPT ![q] = None]
    BY <1>11 DEF SlotMemory!Answered, SlotMemory!LookupFails, SlotMemory!slot
  <2>2. Asked'
    BY <2>1, OneQuery
  <2>3. Counts' /\ Kept'
    BY <1>1, <2>1
  <2> QED BY <1>0, <2>2, <2>3
<1> QED BY <1>3, <1>4, <1>5, <1>6, <1>7, <1>8, <1>9, <1>10, <1>11 DEF SlotMemory!Next

INSTANCE FiniteSetTheorems

(* The instance's cardinality is the library's. *)
LEMMA SameCardinality ==
  ASSUME NEW S
  PROVE  SlotMemory!Cardinality(S) = Cardinality(S)
BY DEF SlotMemory!Cardinality, Cardinality

LEMMA Bounded ==
  /\ SlotMemory!MemoryBounded <=> Cardinality(SlotMemory!Entries) <= PerVm + 1
  /\ SlotMemory!MemoryBounded' <=> Cardinality(SlotMemory!Entries') <= PerVm + 1
BY SameCardinality DEF SlotMemory!MemoryBounded

LEMMA BoundedInit ==
  ASSUME PerVm \in Nat, SlotMemory!Init
  PROVE  SlotMemory!MemoryBounded
<1>1. SlotMemory!Entries = {}
  BY DEF SlotMemory!Init, SlotMemory!Entries
<1>2. Cardinality(SlotMemory!Entries) = 0
  BY <1>1, FS_EmptySet
<1>3. 0 <= PerVm + 1
  BY SMTT(60)
<1> QED BY <1>2, <1>3, Bounded

(* An answer adds two addresses at most to fewer than PER_VM. *)
LEMMA RecordsBounded ==
  ASSUME PerVm \in Nat, IsFiniteSet(Dsts), SlotMemory!MemoryBounded,
         NEW q \in Queries, NEW addrs \in SUBSET Dsts, Cardinality(addrs) <= 2,
         r8' = SlotMemory!Records(q, addrs)
  PROVE  SlotMemory!MemoryBounded'
<1> DEFINE E == SlotMemory!Entries
           L == SlotMemory!Lives
           New == SlotMemory!Entries'
           full == Cardinality(E) >= PerVm
           left == IF full THEN L ELSE E
           kept == [dst \in Dsts |-> IF full /\ dst \notin L THEN None ELSE r8[dst]]
           entry == [name |-> r7[q].name, by |-> r7[q].asker, lives |-> TRUE]
<1>0. r8' = IF full /\ Cardinality(L) >= PerVm THEN kept
            ELSE [dst \in Dsts |-> IF dst \in addrs THEN entry ELSE kept[dst]]
  BY SameCardinality DEF SlotMemory!Records
<1>1. /\ E \subseteq Dsts /\ L \subseteq E /\ New \subseteq Dsts
      /\ left \subseteq Dsts
  BY DEF SlotMemory!Entries, SlotMemory!Lives
<1>2. /\ IsFiniteSet(E) /\ IsFiniteSet(L) /\ IsFiniteSet(New) /\ IsFiniteSet(addrs)
      /\ IsFiniteSet(left)
  BY <1>1, FS_Subset
<1>3. /\ Cardinality(E) \in Nat /\ Cardinality(L) \in Nat /\ Cardinality(left) \in Nat
      /\ Cardinality(New) \in Nat /\ Cardinality(addrs) \in Nat
  BY <1>2, FS_CardinalityType
<1>4. Cardinality(L) <= Cardinality(E)
  BY <1>1, <1>2, FS_Subset
<1>5. CASE full /\ Cardinality(L) >= PerVm
  <2>1. New \subseteq E
    BY <1>0, <1>5 DEF SlotMemory!Entries, SlotMemory!Lives
  <2>2. Cardinality(New) <= Cardinality(E)
    BY <1>2, <2>1, FS_Subset
  <2> QED BY SMTT(60), <1>3, <2>2, Bounded
<1>6. CASE ~(full /\ Cardinality(L) >= PerVm)
  <2>1. New \subseteq left \cup addrs
    BY <1>0, <1>6 DEF SlotMemory!Entries, SlotMemory!Lives
  <2>2. Cardinality(left) < PerVm
    BY SMTT(60), <1>3, <1>6
  <2>3. /\ IsFiniteSet(left \cup addrs)
        /\ Cardinality(left \cup addrs) <= Cardinality(left) + Cardinality(addrs)
    <3>1. /\ IsFiniteSet(left \cup addrs)
          /\ Cardinality(left \cup addrs) =
               Cardinality(left) + Cardinality(addrs) - Cardinality(left \cap addrs)
      BY <1>2, FS_Union
    <3>2. Cardinality(left \cap addrs) \in Nat
      BY <1>2, FS_Subset, FS_CardinalityType
    <3> HIDE DEF left
    <3> QED BY SMTT(60), <1>3, <3>1, <3>2
  <2>4. Cardinality(New) <= Cardinality(left \cup addrs) /\ Cardinality(left \cup addrs) \in Nat
    BY <2>1, <2>3, FS_Subset, FS_CardinalityType
  <2> HIDE DEF left, New
  <2>5. Cardinality(New) <= PerVm + 1
    BY SMTT(60), <1>3, <2>2, <2>3, <2>4
  <2> QED BY <2>5, Bounded DEF New
<1> QED BY <1>5, <1>6

(* Entries that only go leave the memory bounded. *)
LEMMA FewerEntries ==
  ASSUME PerVm \in Nat, IsFiniteSet(Dsts), SlotMemory!MemoryBounded,
         SlotMemory!Entries' \subseteq SlotMemory!Entries
  PROVE  SlotMemory!MemoryBounded'
<1>1. IsFiniteSet(SlotMemory!Entries)
  BY FS_Subset DEF SlotMemory!Entries
<1>2. /\ Cardinality(SlotMemory!Entries') <= Cardinality(SlotMemory!Entries)
      /\ Cardinality(SlotMemory!Entries) \in Nat /\ Cardinality(SlotMemory!Entries') \in Nat
  BY <1>1, FS_Subset, FS_CardinalityType
<1> QED BY SMTT(60), <1>2, Bounded

LEMMA BoundedNext ==
  ASSUME PerVm \in Nat, IsFiniteSet(Dsts), SlotMemory!MemoryBounded,
         [SlotMemory!Next]_(SlotMemory!vars)
  PROVE  SlotMemory!MemoryBounded'
<1>1. ASSUME \A d \in Dsts : r8[d] = None => r8'[d] = None PROVE SlotMemory!MemoryBounded'
  BY <1>1, FewerEntries DEF SlotMemory!Entries
<1>2. ASSUME NEW q \in Queries, SlotMemory!Answered(q) PROVE SlotMemory!MemoryBounded'
  <2>1. PICK addrs \in SUBSET Dsts :
          Cardinality(addrs) <= 2 /\ r8' = SlotMemory!Records(q, addrs)
    BY <1>2, SameCardinality DEF SlotMemory!Answered
  <2> QED BY <2>1, RecordsBounded
<1>3. ASSUME NEW dst \in Dsts, SlotMemory!EntryExpires(dst)
      PROVE  \A d \in Dsts : r8[d] = None => r8'[d] = None
  BY SMTT(60), <1>3 DEF SlotMemory!EntryExpires
<1>4. CASE SlotMemory!Forget
  BY <1>1, <1>4 DEF SlotMemory!Forget
<1>5. ASSUME NEW q \in Queries,
             \/ SlotMemory!Ask(q) \/ SlotMemory!FromCache(q) \/ SlotMemory!ListVms(q)
             \/ SlotMemory!Keep(q) \/ SlotMemory!LookupFails(q)
      PROVE  r8' = r8
  BY <1>5 DEF SlotMemory!Ask, SlotMemory!FromCache, SlotMemory!ListVms, SlotMemory!Keep,
              SlotMemory!LookupFails
<1>6. CASE \/ SlotMemory!Place \/ SlotMemory!SetPolicy \/ SlotMemory!Unclaim
           \/ SlotMemory!Release \/ SlotMemory!CacheExpires \/ UNCHANGED SlotMemory!vars
  <2>1. r8' = r8
    BY <1>6 DEF SlotMemory!Place, SlotMemory!SetPolicy, SlotMemory!Unclaim, SlotMemory!Release,
                SlotMemory!CacheExpires, SlotMemory!vars
  <2> QED BY <1>1, <2>1
<1> QED BY <1>1, <1>2, <1>3, <1>4, <1>5, <1>6 DEF SlotMemory!Next

(* No VM has a name resolved by the policy of an earlier VM of its slot,   *)
(* whatever lookup a release overtakes (slot_may_resolve), and a guest that *)
(* resolves for ever does not grow the daemon (DnsMemory::record), for any *)
(* number of VMs, queries, names and addresses.                            *)
THEOREM DnsOfHolderHolds ==
  ASSUME PerVm \in Nat, IsFiniteSet(Dsts)
  PROVE  NetworkSpec => []DnsOfHolder
<1> DEFINE Inv == part = "slotMemory" => MemInv /\ SlotMemory!MemoryBounded
<1>1. NetworkInit => Inv
  BY MemInit, BoundedInit DEF NetworkInit
<1>2. Inv /\ [NetworkNext]_NetworkVars => Inv'
  BY OnePart, MemNext, BoundedNext
<1>3. Inv => DnsOfHolder
  BY DEF MemInv, Dated, DnsOfHolder, SlotMemory!NotByPredecessor
<1> QED BY <1>1, <1>2, <1>3, PTL DEF NetworkSpec
=============================================================================
