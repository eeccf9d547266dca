---------------------------- MODULE PartsProofs ----------------------------
(***************************************************************************)
(* Proofs about the components of MCParts, for every value of their        *)
(* constants.  A component's invariant speaks of the behaviours that are   *)
(* about it; the steps of the others keep `part' and so the invariant.     *)
(***************************************************************************)
EXTENDS MCParts, Sequences, TLAPS

(* A leaf is for Zenon unless it cites SMT. *)
USE ZenonT(60)

(* A behaviour is about one component from its start to its end. *)
LEMMA OnePart ==
  ASSUME [PartsNext]_PartsVars
  PROVE  /\ part' = part
         /\ part = "slots" => [SlotAllocator!Next]_(SlotAllocator!vars)
         /\ part = "locks" => [VmLocks!Next]_(VmLocks!vars)
         /\ part = "jailCache" => [JailCache!Next]_(JailCache!vars)
         /\ part = "jailSettings" => [JailSettings!Next]_(JailSettings!vars)
         /\ part = "bakes" => [Bakes!Next]_(Bakes!vars)
         /\ part = "keyFiles" => [KeyFiles!Next]_(KeyFiles!vars)
         /\ part = "signedPolicies" => [SignedPolicies!Next]_(SignedPolicies!vars)
<1>1. CASE PartsNext
  BY <1>1 DEF PartsNext
<1>2. CASE UNCHANGED PartsVars
  <2>1. UNCHANGED <<part, r1, r2, r3, r4, r5, r6, r7, r8, r9, r10, r11, r12, r13, r14, r15>>
    BY <1>2 DEF PartsVars, after0, after2, after5, after7, after11
  <2>2. UNCHANGED Bakes!vars
    BY <2>1 DEF Bakes!vars, Bakes!builds, Bakes!files, Bakes!clones, Bakes!poll
  <2> QED
    BY <2>1, <2>2
    DEF SlotAllocator!vars, VmLocks!vars, JailCache!vars, JailSettings!vars,
        KeyFiles!vars, SignedPolicies!vars
<1> QED BY <1>1, <1>2

-----------------------------------------------------------------------------
(***************************************************************************)
(* SlotAllocator: the bitmap is r1, the cursor r2, the saved cursor r3,    *)
(* unsaved r4 and passed r5.  Seen from the cursor, a slot that stayed     *)
(* free comes before every slot given out since; and a restart finds the   *)
(* cursor itself in the store, unless the latest save failed, or none, and *)
(* then nothing to remember was given out.                                 *)
(***************************************************************************)
Numbered == Capacity \in Nat \ {0}

CursorSaved ==
  \/ r4 \/ r3 = r2
  \/ r3 = SlotAllocator!None /\ \A s \in SlotAllocator!Slots : r5[s] = {}

SlotInv == SlotAllocator!TypeOK /\ CursorSaved /\ SlotAllocator!FreeComesFirst

(* Allocate, free and recover never leave the bitmap or the cursor out of *)
(* range.                                                                 *)
LEMMA SlotTypes ==
  ASSUME Numbered, SlotAllocator!TypeOK, [SlotAllocator!Next]_(SlotAllocator!vars)
  PROVE  SlotAllocator!TypeOK'
<1>1. ASSUME NEW s \in SlotAllocator!Slots, SlotAllocator!Allocate(s)
      PROVE  SlotAllocator!TypeOK'
  <2>1. r4' \in BOOLEAN
    BY <1>1 DEF SlotAllocator!Allocate
  <2>2. r2' \in SlotAllocator!Slots
    BY SMTT(60), <1>1 DEF SlotAllocator!Allocate, SlotAllocator!CursorAfter, SlotAllocator!Slots, Numbered
  <2> QED BY <1>1, <2>1, <2>2 DEF SlotAllocator!Allocate, SlotAllocator!TypeOK
<1>2. ASSUME NEW s \in SlotAllocator!Slots, SlotAllocator!Free(s)
      PROVE  SlotAllocator!TypeOK'
  BY <1>2 DEF SlotAllocator!Free, SlotAllocator!TypeOK
<1>3. ASSUME NEW kept \in SUBSET r1, SlotAllocator!Restart(kept)
      PROVE  SlotAllocator!TypeOK'
  BY <1>3 DEF SlotAllocator!Restart, SlotAllocator!TypeOK
<1>4. CASE UNCHANGED SlotAllocator!vars
  BY <1>4 DEF SlotAllocator!vars, SlotAllocator!TypeOK
<1> QED BY <1>1, <1>2, <1>3, <1>4 DEF SlotAllocator!Next

(* Giving out s, the first free slot from the cursor, moves the cursor just *)
(* past s: every other free slot is now nearer than s, and no other slot    *)
(* overtook it.                                                             *)
LEMMA AllocateKeepsOrder ==
  ASSUME Numbered, SlotInv, NEW s \in SlotAllocator!Slots, SlotAllocator!Allocate(s),
         NEW f \in SlotAllocator!Slots, f \notin r1', NEW t \in r5'[f]
  PROVE  SlotAllocator!Ahead(Capacity, r2', f) < SlotAllocator!Ahead(Capacity, r2', t)
<1>1. f # s /\ f \notin r1 /\ t \in r5[f] \cup {s} /\ t \in SlotAllocator!Slots
  BY DEF SlotAllocator!Allocate, SlotInv, SlotAllocator!TypeOK
<1>2. SlotAllocator!Ahead(Capacity, r2, s) < SlotAllocator!Ahead(Capacity, r2, f)
  <2>1. ~(SlotAllocator!Ahead(Capacity, r2, f) < SlotAllocator!Ahead(Capacity, r2, s))
    BY <1>1 DEF SlotAllocator!Allocate, SlotAllocator!IsNext, SlotAllocator!Slots
  <2>2. SlotAllocator!Ahead(Capacity, r2, f) # SlotAllocator!Ahead(Capacity, r2, s)
    BY SMTT(60), <1>1 DEF SlotAllocator!Ahead, SlotAllocator!Slots, SlotInv, SlotAllocator!TypeOK, Numbered
  <2> QED
    BY SMTT(60), <2>1, <2>2
    DEF SlotAllocator!Ahead, SlotAllocator!Slots, SlotInv, SlotAllocator!TypeOK, Numbered
<1>3. CASE t = s
  BY SMTT(60), <1>1, <1>3
  DEF SlotAllocator!Allocate, SlotAllocator!CursorAfter, SlotAllocator!Ahead,
      SlotAllocator!Slots, SlotInv, SlotAllocator!TypeOK, Numbered
<1>4. CASE t \in r5[f]
  <2>1. SlotAllocator!Ahead(Capacity, r2, f) < SlotAllocator!Ahead(Capacity, r2, t)
    BY <1>1, <1>4 DEF SlotInv, SlotAllocator!FreeComesFirst
  <2> QED
    BY SMTT(60), <1>1, <1>2, <2>1
    DEF SlotAllocator!Allocate, SlotAllocator!CursorAfter, SlotAllocator!Ahead,
        SlotAllocator!Slots, SlotInv, SlotAllocator!TypeOK, Numbered
<1> QED BY <1>1, <1>3, <1>4

LEMMA SlotNext ==
  ASSUME Numbered, SlotInv, [SlotAllocator!Next]_(SlotAllocator!vars)
  PROVE  SlotInv'
<1>0. SlotAllocator!TypeOK'
  BY SlotTypes DEF SlotInv
<1>1. ASSUME NEW s \in SlotAllocator!Slots, SlotAllocator!Allocate(s) PROVE SlotInv'
  <2>1. CursorSaved'
    BY <1>1 DEF SlotAllocator!Allocate, CursorSaved
  <2>2. SlotAllocator!FreeComesFirst'
    BY <1>1, AllocateKeepsOrder DEF SlotAllocator!FreeComesFirst
  <2> QED BY <1>0, <2>1, <2>2 DEF SlotInv
<1>2. ASSUME NEW s \in SlotAllocator!Slots, SlotAllocator!Free(s) PROVE SlotInv'
  BY <1>0, <1>2
  DEF SlotAllocator!Free, SlotInv, SlotAllocator!TypeOK, CursorSaved,
      SlotAllocator!FreeComesFirst
<1>3. ASSUME NEW kept \in SUBSET r1, SlotAllocator!Restart(kept) PROVE SlotInv'
  <2>1. CASE ~r4 /\ r3 = r2
    <3>1. r2' = r2 /\ r3' = r3
      BY SMTT(60), <1>3, <2>1
      DEF SlotAllocator!Restart, SlotAllocator!Resumes, SlotAllocator!ResumeAt,
          SlotInv, SlotAllocator!TypeOK, SlotAllocator!Slots, SlotAllocator!None, Numbered
    <3>2. SlotAllocator!FreeComesFirst'
      BY <1>3, <3>1
      DEF SlotAllocator!Restart, SlotInv, SlotAllocator!FreeComesFirst, SlotAllocator!TypeOK
    <3> QED BY <1>0, <2>1, <3>1, <3>2 DEF SlotInv, CursorSaved
  <2>2. CASE ~(~r4 /\ r3 = r2)
    <3>1. \A s \in SlotAllocator!Slots : r5'[s] = {}
      BY <1>3, <2>2 DEF SlotAllocator!Restart, SlotInv, CursorSaved, SlotAllocator!TypeOK
    <3>2. r3 # SlotAllocator!None => r3' = r2'
      BY SMTT(60), <1>3
      DEF SlotAllocator!Restart, SlotAllocator!Resumes, SlotAllocator!ResumeAt,
          SlotInv, SlotAllocator!TypeOK, SlotAllocator!Slots, SlotAllocator!None, Numbered
    <3>3. r3' = r3
      BY <1>3 DEF SlotAllocator!Restart
    <3> QED
      BY <1>0, <3>1, <3>2, <3>3 DEF SlotInv, CursorSaved, SlotAllocator!FreeComesFirst
  <2> QED BY <2>1, <2>2
<1>4. CASE UNCHANGED SlotAllocator!vars
  BY <1>4
  DEF SlotAllocator!vars, SlotInv, SlotAllocator!TypeOK, CursorSaved,
      SlotAllocator!FreeComesFirst
<1> QED BY <1>1, <1>2, <1>3, <1>4 DEF SlotAllocator!Next

LEMMA SlotInit ==
  ASSUME Numbered, SlotAllocator!Init
  PROVE  SlotInv
<1>1. r4 \in BOOLEAN
  BY DEF SlotAllocator!Init
<1>2. SlotAllocator!TypeOK
  BY SMTT(60), <1>1 DEF SlotAllocator!Init, SlotAllocator!TypeOK, SlotAllocator!Slots, SlotAllocator!None,
     Numbered
<1> QED BY <1>2 DEF SlotAllocator!Init, SlotInv, CursorSaved, SlotAllocator!FreeComesFirst

(* In a step the slot given out is nearest to the cursor of all that are   *)
(* free, so none that stayed free has waited while it was given out before. *)
LEMMA SlotStep ==
  ASSUME SlotInv, [SlotAllocator!Next]_(SlotAllocator!vars)
  PROVE  SlotAllocator!OncePerRoundStep
<1> SUFFICES ASSUME NEW s \in SlotAllocator!Slots, NEW f \in SlotAllocator!Slots,
                    s \notin r1, s \in r1', f \notin r1 \cup r1'
             PROVE  s \notin r5[f]
  BY DEF SlotAllocator!OncePerRoundStep
<1>1. PICK r \in SlotAllocator!Slots : SlotAllocator!Allocate(r)
  BY DEF SlotAllocator!Next, SlotAllocator!Free, SlotAllocator!Restart, SlotAllocator!vars
<1>2. r = s
  BY <1>1 DEF SlotAllocator!Allocate
<1>3. ~(SlotAllocator!Ahead(Capacity, r2, f) < SlotAllocator!Ahead(Capacity, r2, s))
  BY <1>1, <1>2 DEF SlotAllocator!Allocate, SlotAllocator!IsNext, SlotAllocator!Slots
<1> QED BY <1>3 DEF SlotInv, SlotAllocator!FreeComesFirst

(* No slot is given out twice while another stays free throughout, for      *)
(* every capacity and across every restart that the cursor's last save      *)
(* reached (slot.rs allocate and resume_at, control.rs allocate_slot).      *)
THEOREM OncePerRoundHolds ==
  ASSUME Numbered
  PROVE  PartsSpec => OncePerRound
<1> DEFINE Inv == part = "slots" => SlotInv
<1>1. PartsInit => Inv
  BY SlotInit DEF PartsInit
<1>2. Inv /\ [PartsNext]_PartsVars => Inv'
  BY OnePart, SlotNext
<1>3. Inv /\ [PartsNext]_PartsVars => [part = "slots" => SlotAllocator!OncePerRoundStep]_PartsVars
  BY OnePart, SlotStep
<1> QED BY <1>1, <1>2, <1>3, PTL DEF PartsSpec, OncePerRound

-----------------------------------------------------------------------------
(***************************************************************************)
(* SignedPolicies: the host's record is r1, what the network steers by r3, *)
(* the call that is to re-steer r4, failed r5, the fleet's calls r7, the   *)
(* claims the sync loop renews r8, synced r9, away r10 and the time r11.   *)
(*                                                                         *)
(* The claims the sync loop carries were on record when it listed the VM:  *)
(* a record whose policy changed since has moved to a new generation, so   *)
(* they are refused just when they no longer describe it.  What a call or  *)
(* the loop carries was signed now, since neither outlives a third of a    *)
(* signature's life; so a record the loop has visited has two thirds of    *)
(* its signature's life left, and any record one.                          *)
(***************************************************************************)
Claim ==
  [host : {SignedPolicies!Here}, pol : SignedPolicies!Policies, gen : Nat, expires : Nat]
Rec == [pol : SignedPolicies!Policies, gen : Nat, signed : Claim \cup {Nothing}]

PolicyTypes ==
  /\ r1 # Nothing => r1 \in Rec
  /\ r7 \in [Clients -> [change : SignedPolicies!Changes, signed : Claim] \cup {Nothing}]
  /\ r8 \in Claim \cup {Nothing}
  /\ r11 \in Nat

(* The claims the sync loop is about to renew are those on record, or older. *)
SyncBehind ==
  r8 # Nothing /\ r1 # Nothing =>
    /\ r8.gen <= r1.gen
    /\ r8.gen = r1.gen => r1.signed # Nothing /\ r8.pol = r1.pol

(* How long what is on record, and what is on its way there, is still good. *)
Timely ==
  /\ \A c \in Clients : r7[c] # Nothing => r7[c].signed.expires = r11 + 3
  /\ r8 # Nothing => ~r9
  /\ r8 # Nothing /\ ~r10 => r8.expires = r11 + 3
  /\ r1 # Nothing /\ ~r10 =>
       (r1.signed # Nothing =>
          /\ r1.signed.expires >= r11 + 1
          /\ r9 => r1.signed.expires >= r11 + 2
          /\ r8 # Nothing /\ r8.gen # r1.gen => r1.signed.expires >= r11 + 2)

Kept == SignedPolicies!SignatureDescribes /\ SignedPolicies!Steered /\ SyncBehind
PolicyInv == PolicyTypes /\ Kept

(* The value that stands for none is no caller and no claims. *)
NothingApart == Nothing \notin Clients \cup {"direct", "sync"} \cup Claim

LEMMA MergeType ==
  ASSUME NEW p \in SignedPolicies!Policies, NEW change \in SignedPolicies!Changes
  PROVE  SignedPolicies!Merge(p, change) \in SignedPolicies!Policies
BY DEF SignedPolicies!Merge, SignedPolicies!Changes, SignedPolicies!Policies,
   SignedPolicies!Modes

LEMMA ClaimsType ==
  ASSUME NEW p \in SignedPolicies!Policies, NEW gen \in Nat, NEW at \in Nat
  PROVE  SignedPolicies!Claims(p, gen, at) \in Claim
BY SMTT(60) DEF SignedPolicies!Claims, Claim, SignedPolicies!Ttl

(* A change of nothing, which is what the sync loop sends its claims with. *)
Unaltered == [egress |-> Nothing, body |-> Nothing]

LEMMA UnalteredMerge ==
  /\ Unaltered \in SignedPolicies!Changes
  /\ \A p \in SignedPolicies!Policies : SignedPolicies!Merge(p, Unaltered) = p
BY SMTT(60) DEF Unaltered, SignedPolicies!Changes, SignedPolicies!Merge, SignedPolicies!Policies

(* What the host's set_policy does to the record: nothing, a fresh signature *)
(* of the same policy, or a new generation.                                  *)
LEMMA SetPolicyRecord ==
  ASSUME PolicyInv, NEW who, NEW change \in SignedPolicies!Changes,
         NEW signed \in Claim \cup {Nothing}, SignedPolicies!SetPolicy(who, change, signed)
  PROVE  \/ UNCHANGED <<r1, r4>>
         \/ /\ r1 # Nothing /\ signed # Nothing /\ UNCHANGED r4
            /\ signed.gen = r1.gen /\ signed.pol = r1.pol
            /\ r1' = [r1 EXCEPT !.signed = signed]
         \/ /\ r1 # Nothing /\ r1' = SignedPolicies!Stored(change, signed)
            /\ signed # Nothing => signed.gen = r1.gen + 1 /\ signed.pol = r1'.pol
            /\ IF r1'.pol.egress # r1.pol.egress THEN r4' = who ELSE UNCHANGED r4
<1> DEFINE accepts == SignedPolicies!Accepts(change, signed)
           refreshes == SignedPolicies!Refreshes(change, signed)
<1>1. CASE r1 = Nothing \/ ~accepts
  BY <1>1 DEF SignedPolicies!SetPolicy
<1>2. CASE r1 # Nothing /\ accepts /\ refreshes
  BY <1>2 DEF SignedPolicies!SetPolicy, SignedPolicies!Accepts, SignedPolicies!CheckSigned,
     SignedPolicies!Refreshes
<1>3. CASE r1 # Nothing /\ accepts /\ ~refreshes
  <2>1. r1' = SignedPolicies!Stored(change, signed)
    BY <1>3 DEF SignedPolicies!SetPolicy
  <2>2. r1'.pol = SignedPolicies!Merge(r1.pol, change)
    BY <2>1 DEF SignedPolicies!Stored
  <2>3. signed # Nothing => signed.gen = r1.gen + 1 /\ signed.pol = r1'.pol
    BY <1>3, <2>2 DEF SignedPolicies!Accepts, SignedPolicies!CheckSigned
  <2>4. IF r1'.pol.egress # r1.pol.egress THEN r4' = who ELSE UNCHANGED r4
    BY <1>3 DEF SignedPolicies!SetPolicy, SignedPolicies!Resteers
  <2> QED BY <1>3, <2>1, <2>3, <2>4
<1> QED BY <1>1, <1>2, <1>3

(* So it keeps the record's part of the invariant; and a signature that is  *)
(* put on record is the one the call brought.                               *)
LEMMA SetPolicyKeeps ==
  ASSUME PolicyInv, NEW who, NEW change \in SignedPolicies!Changes,
         NEW signed \in Claim \cup {Nothing}, SignedPolicies!SetPolicy(who, change, signed),
         who # Nothing
  PROVE  /\ (r1 # Nothing => r1 \in Rec)'
         /\ SignedPolicies!SignatureDescribes' /\ SignedPolicies!Steered'
         /\ r8' = r8 => SyncBehind'
         /\ r1' = r1 \/ (r1 # Nothing /\ r1'.signed = signed)
<1> USE DEF PolicyInv, PolicyTypes, Kept, SignedPolicies!SignatureDescribes,
            SignedPolicies!Steered, SyncBehind
<1>0. UNCHANGED <<r3, r5>> /\ r4 = Nothing
  BY DEF SignedPolicies!SetPolicy
<1>1. CASE UNCHANGED <<r1, r4>>
  BY <1>0, <1>1
<1>2. CASE /\ r1 # Nothing /\ signed # Nothing /\ UNCHANGED r4
           /\ signed.gen = r1.gen /\ signed.pol = r1.pol
           /\ r1' = [r1 EXCEPT !.signed = signed]
  <2>1. r1 \in Rec
    BY <1>2
  <2>2. /\ r1' \in Rec /\ r1'.pol = r1.pol /\ r1'.gen = r1.gen
        /\ r1'.signed = signed
    BY <1>2, <2>1 DEF Rec
  <2> QED BY <1>0, <1>2, <2>2
<1>3. CASE /\ r1 # Nothing /\ r1' = SignedPolicies!Stored(change, signed)
           /\ signed # Nothing => signed.gen = r1.gen + 1 /\ signed.pol = r1'.pol
           /\ IF r1'.pol.egress # r1.pol.egress THEN r4' = who ELSE UNCHANGED r4
  <2>1. r1 \in Rec
    BY <1>3
  <2>2. SignedPolicies!Merge(r1.pol, change) \in SignedPolicies!Policies
    BY <2>1, MergeType DEF Rec
  <2>3. r1' \in Rec /\ r1'.gen = r1.gen + 1 /\ r1'.signed = signed
    BY SMTT(60), <1>3, <2>1, <2>2 DEF Rec, SignedPolicies!Stored
  <2>4. SignedPolicies!SignatureDescribes'
    BY <1>3, <2>3
  <2>5. SignedPolicies!Steered'
    BY <1>0, <1>3
  <2>6. r8' = r8 => SyncBehind'
    BY SMTT(60), <1>3, <2>1, <2>3 DEF Rec, Claim
  <2> QED BY <1>3, <2>3, <2>4, <2>5, <2>6
<1> QED BY <1>1, <1>2, <1>3, SetPolicyRecord

LEMMA PolicyInit ==
  ASSUME SignedPolicies!Init
  PROVE  PolicyInv /\ Timely
<1>1. PICK p \in SignedPolicies!Policies, signed \in {Nothing, 1} :
        /\ r1 = [pol |-> p, gen |-> 1,
                 signed |-> IF signed = Nothing THEN Nothing ELSE SignedPolicies!Claims(p, 1, 0)]
        /\ r3 = p.egress
  BY DEF SignedPolicies!Init
<1>2. SignedPolicies!Claims(p, 1, 0) \in Claim
  BY ClaimsType
<1>3. PolicyTypes
  BY <1>1, <1>2 DEF SignedPolicies!Init, PolicyTypes, Rec
<1>4. SignedPolicies!SignatureDescribes
  BY <1>1 DEF SignedPolicies!SignatureDescribes, SignedPolicies!Claims
<1>5. SignedPolicies!Steered /\ SyncBehind
  BY <1>1 DEF SignedPolicies!Init, SignedPolicies!Steered, SyncBehind
<1>6. Timely
  BY SMTT(60), <1>1 DEF SignedPolicies!Init, Timely, SignedPolicies!Claims, SignedPolicies!Ttl
<1> QED BY <1>3, <1>4, <1>5, <1>6 DEF PolicyInv, Kept

(* What the sync loop carries from its visit: the claims on record, if they *)
(* are due, signed anew.                                                    *)
LEMMA SyncListClaims ==
  ASSUME PolicyInv, SignedPolicies!SyncList, r8' # Nothing
  PROVE  /\ r1 # Nothing /\ r1.signed # Nothing
         /\ r8' \in Claim /\ r8'.gen = r1.gen /\ r8'.pol = r1.pol /\ r8'.expires = r11 + 3
<1>1. r1 # Nothing /\ r1.signed # Nothing /\ r8' = [r1.signed EXCEPT !.expires = r11 + 3]
  BY DEF SignedPolicies!SyncList, SignedPolicies!Renewed, SignedPolicies!Ttl
<1>2. r1.signed \in Claim /\ r11 \in Nat
  BY <1>1 DEF PolicyInv, PolicyTypes, Rec
<1>3. r1.signed.gen = r1.gen /\ r1.signed.pol = r1.pol
  BY <1>1 DEF PolicyInv, Kept, SignedPolicies!SignatureDescribes
<1>4. /\ r8' \in Claim /\ r8'.gen = r1.signed.gen /\ r8'.pol = r1.signed.pol
      /\ r8'.expires = r11 + 3
  BY SMTT(60), <1>1, <1>2 DEF Claim
<1> QED BY <1>1, <1>3, <1>4

LEMMA PolicyNext ==
  ASSUME NothingApart, PolicyInv, [SignedPolicies!Next]_(SignedPolicies!vars)
  PROVE  PolicyInv'
<1> USE DEF SignedPolicies!host, SignedPolicies!fleet, PolicyInv, PolicyTypes, Kept,
            SignedPolicies!SignatureDescribes, SignedPolicies!Steered, SyncBehind
<1>1. CASE SignedPolicies!Steer
  BY <1>1 DEF SignedPolicies!Steer
<1>2. CASE SignedPolicies!BringUp
  BY <1>2 DEF SignedPolicies!BringUp
<1>3. CASE SignedPolicies!Crash
  BY <1>3 DEF SignedPolicies!Crash
<1>4. CASE SignedPolicies!Delete
  BY <1>4 DEF SignedPolicies!Delete
<1>5. CASE SignedPolicies!SyncList
  <2>0. UNCHANGED <<r1, r3, r4, r5, r7, r11>>
    BY <1>5 DEF SignedPolicies!SyncList
  <2>1. CASE r8' = Nothing
    BY <2>0, <2>1
  <2>2. CASE r8' # Nothing
    <3>1. r1 # Nothing => r1.gen \in Nat
      BY DEF Rec
    <3> QED BY SMTT(60), <1>5, <2>0, <2>2, <3>1, SyncListClaims
  <2> QED BY <2>1, <2>2
<1>6. CASE SignedPolicies!SyncPatch
  <2>1. /\ r8 \in Claim \cup {Nothing} /\ SignedPolicies!SetPolicy("sync", Unaltered, r8)
        /\ Unaltered \in SignedPolicies!Changes
    BY <1>6, UnalteredMerge DEF SignedPolicies!SyncPatch, Unaltered
  <2>2. /\ (r1 # Nothing => r1 \in Rec)'
        /\ SignedPolicies!SignatureDescribes' /\ SignedPolicies!Steered'
    BY <2>1, SetPolicyKeeps DEF NothingApart
  <2>3. r8' = Nothing /\ UNCHANGED <<r7, r11>>
    BY <1>6 DEF SignedPolicies!SyncPatch
  <2> QED BY <2>2, <2>3
<1>7. CASE SignedPolicies!Tick
  <2>1. UNCHANGED <<r1, r3, r4, r5, r7, r8>> /\ r11' = r11 + 1
    BY <1>7 DEF SignedPolicies!Tick
  <2> QED BY SMTT(60), <2>1
<1>8. ASSUME NEW change \in SignedPolicies!Changes, SignedPolicies!DirectPatch(change)
      PROVE  PolicyInv'
  <2>1. SignedPolicies!SetPolicy("direct", change, Nothing) /\ UNCHANGED <<r7, r8, r11>>
    BY <1>8 DEF SignedPolicies!DirectPatch
  <2>2. (r1 # Nothing => r1 \in Rec)' /\ Kept'
    BY <2>1, SetPolicyKeeps DEF NothingApart
  <2> QED BY <2>1, <2>2
<1>9. ASSUME NEW c \in Clients, SignedPolicies!FleetPatch(c) PROVE PolicyInv'
  <2>1. r7[c] \in [change : SignedPolicies!Changes, signed : Claim]
    BY <1>9 DEF SignedPolicies!FleetPatch
  <2>2. /\ r7' = [r7 EXCEPT ![c] = Nothing] /\ UNCHANGED <<r8, r11>>
        /\ SignedPolicies!SetPolicy(c, r7[c].change, r7[c].signed)
    BY <1>9 DEF SignedPolicies!FleetPatch
  <2>3. /\ r7[c].change \in SignedPolicies!Changes /\ r7[c].signed \in Claim \cup {Nothing}
        /\ c # Nothing
    BY <2>1 DEF NothingApart
  <2>4. (r1 # Nothing => r1 \in Rec)' /\ Kept'
    BY <2>2, <2>3, SetPolicyKeeps
  <2> QED BY <2>2, <2>4
<1>10. ASSUME NEW c \in Clients, SignedPolicies!FleetPatchLost(c) PROVE PolicyInv'
  BY <1>10 DEF SignedPolicies!FleetPatchLost
<1>11. ASSUME NEW c \in Clients, NEW change \in SignedPolicies!Changes,
              SignedPolicies!FleetGet(c, change)
       PROVE  PolicyInv'
  <2>1. UNCHANGED <<r1, r3, r4, r5, r8, r11>>
    BY <1>11 DEF SignedPolicies!FleetGet
  <2>2. r7' \in [Clients -> [change : SignedPolicies!Changes, signed : Claim] \cup {Nothing}]
    <3>1. CASE r1 = Nothing
      BY <1>11, <3>1 DEF SignedPolicies!FleetGet
    <3>2. CASE r1 # Nothing
      <4>1. r1 \in Rec /\ r1.gen + 1 \in Nat /\ r11 \in Nat
        BY SMTT(60), <3>2 DEF Rec
      <4>2. SignedPolicies!Merge(r1.pol, change) \in SignedPolicies!Policies
        BY <4>1, MergeType DEF Rec
      <4>3. SignedPolicies!Claims(SignedPolicies!Merge(r1.pol, change), r1.gen + 1, r11)
              \in Claim
        BY <4>1, <4>2, ClaimsType
      <4> QED BY <1>11, <3>2, <4>3 DEF SignedPolicies!FleetGet
    <3> QED BY <3>1, <3>2
  <2> QED BY <2>1, <2>2
<1>12. CASE UNCHANGED SignedPolicies!vars
  BY <1>12 DEF SignedPolicies!vars
<1> QED
  BY <1>1, <1>2, <1>3, <1>4, <1>5, <1>6, <1>7, <1>8, <1>9, <1>10, <1>11, <1>12
  DEF SignedPolicies!Next

(* A renewal that still describes the record is taken, so the record the   *)
(* loop leaves has its signature anew; one that does not is refused.       *)
LEMMA SyncPatchRenews ==
  ASSUME PolicyInv, SignedPolicies!SyncPatch, r1 # Nothing
  PROVE  IF r8.gen = r1.gen THEN r1'.signed = r8 ELSE r1' = r1
<1>1. /\ r8 \in Claim /\ r8 # Nothing /\ SignedPolicies!SetPolicy("sync", Unaltered, r8)
      /\ r1 \in Rec
  BY DEF SignedPolicies!SyncPatch, Unaltered, PolicyInv, PolicyTypes
<1>2. SignedPolicies!Merge(r1.pol, Unaltered) = r1.pol
  BY <1>1, UnalteredMerge DEF Rec
<1>3. SyncBehind
  BY DEF PolicyInv, Kept
<1>4. CASE r8.gen = r1.gen
  <2>1. SignedPolicies!Refreshes(Unaltered, r8) /\ SignedPolicies!Accepts(Unaltered, r8)
    BY <1>1, <1>2, <1>3, <1>4
    DEF SignedPolicies!Refreshes, SignedPolicies!Accepts, SignedPolicies!CheckSigned, SyncBehind
  <2>2. r1' = [r1 EXCEPT !.signed = r8]
    BY <1>1, <2>1 DEF SignedPolicies!SetPolicy
  <2> QED BY <1>1, <1>4, <2>2 DEF Rec
<1>5. CASE r8.gen # r1.gen
  <2>1. r8.gen # r1.gen + 1
    BY SMTT(60), <1>1, <1>3, <1>5 DEF SyncBehind, Rec, Claim
  <2>2. ~SignedPolicies!Accepts(Unaltered, r8)
    BY <1>1, <1>5, <2>1
    DEF SignedPolicies!Accepts, SignedPolicies!CheckSigned, SignedPolicies!Refreshes
  <2> QED BY <1>1, <1>5, <2>2 DEF SignedPolicies!SetPolicy
<1> QED BY <1>4, <1>5

LEMMA TimelyNext ==
  ASSUME NothingApart, PolicyInv, PolicyInv', Timely, [SignedPolicies!Next]_(SignedPolicies!vars)
  PROVE  Timely'
<1> USE DEF SignedPolicies!host, SignedPolicies!fleet
<1>0. /\ r11 \in Nat /\ r8 \in Claim \cup {Nothing}
      /\ r7 \in [Clients -> [change : SignedPolicies!Changes, signed : Claim] \cup {Nothing}]
      /\ r1 # Nothing =>
           r1.gen \in Nat /\ (r1.signed # Nothing => r1.signed \in Claim /\ r1.signed.expires \in Nat)
  BY DEF PolicyInv, PolicyTypes, Rec, Claim
<1>1. CASE SignedPolicies!Steer
  BY <1>1 DEF SignedPolicies!Steer, Timely
<1>2. CASE SignedPolicies!BringUp
  BY <1>2 DEF SignedPolicies!BringUp, Timely
<1>3. CASE SignedPolicies!Crash
  BY <1>3 DEF SignedPolicies!Crash, Timely
<1>4. CASE SignedPolicies!Delete
  BY <1>4 DEF SignedPolicies!Delete, Timely
<1>5. CASE SignedPolicies!SyncList
  <2>0. UNCHANGED <<r1, r7, r10, r11>> /\ (r9' <=> r8' = Nothing)
    BY <1>5 DEF SignedPolicies!SyncList
  <2>1. CASE r8' = Nothing
    <3>1. ASSUME r1 # Nothing, r1.signed # Nothing PROVE r1.signed.expires >= r11 + 2
      <4>1. [r1.signed EXCEPT !.expires = r11 + 3] \in Claim
        BY SMTT(60), <1>0, <3>1 DEF Claim
      <4>2. ~SignedPolicies!Due(r1.signed)
        BY <1>5, <2>1, <3>1, <4>1
        DEF SignedPolicies!SyncList, SignedPolicies!Renewed, SignedPolicies!Ttl, NothingApart
      <4> QED BY SMTT(60), <1>0, <3>1, <4>2
              DEF SignedPolicies!Due, SignedPolicies!Minus, SignedPolicies!Ttl
    <3> QED BY <1>0, <2>0, <2>1, <3>1 DEF Timely
  <2>2. CASE r8' # Nothing
    BY <1>5, <2>0, <2>2, SyncListClaims DEF Timely
  <2> QED BY <2>1, <2>2
<1>6. CASE SignedPolicies!SyncPatch
  <2>1. r8 # Nothing /\ r8' = Nothing /\ UNCHANGED <<r7, r10, r11>>
    BY <1>6 DEF SignedPolicies!SyncPatch
  <2>2. r1 = Nothing => r1' = Nothing
    BY <1>6 DEF SignedPolicies!SyncPatch, SignedPolicies!SetPolicy
  <2>3. CASE r1 # Nothing
    BY SMTT(60), <1>0, <1>6, <2>1, <2>3, SyncPatchRenews DEF Timely
  <2> QED BY <2>1, <2>2, <2>3 DEF Timely
<1>7. CASE SignedPolicies!Tick
  <2>1. /\ UNCHANGED <<r1, r7, r8>> /\ r11' = r11 + 1 /\ ~r9' /\ (r10' <=> r10 \/ ~r9)
        /\ \A c \in Clients : r7[c] = Nothing
    BY <1>7 DEF SignedPolicies!Tick
  <2> QED BY SMTT(60), <1>0, <2>1 DEF Timely
<1>8. ASSUME NEW change \in SignedPolicies!Changes, SignedPolicies!DirectPatch(change)
      PROVE  Timely'
  <2>1. SignedPolicies!SetPolicy("direct", change, Nothing) /\ UNCHANGED <<r7, r8, r9, r10, r11>>
    BY <1>8 DEF SignedPolicies!DirectPatch
  <2>2. r1' = r1 \/ r1'.signed = Nothing
    BY <2>1, SetPolicyKeeps DEF NothingApart
  <2> QED BY <2>1, <2>2 DEF Timely
<1>9. ASSUME NEW c \in Clients, SignedPolicies!FleetPatch(c) PROVE Timely'
  <2>1. r7[c] # Nothing /\ r7[c] \in [change : SignedPolicies!Changes, signed : Claim]
    BY <1>0, <1>9 DEF SignedPolicies!FleetPatch
  <2>2. /\ r7' = [r7 EXCEPT ![c] = Nothing] /\ UNCHANGED <<r8, r9, r10, r11>>
        /\ SignedPolicies!SetPolicy(c, r7[c].change, r7[c].signed)
    BY <1>9 DEF SignedPolicies!FleetPatch
  <2>3. /\ r7[c].change \in SignedPolicies!Changes /\ r7[c].signed \in Claim \cup {Nothing}
        /\ c # Nothing
    BY <2>1 DEF NothingApart
  <2>4. r1' = r1 \/ r1'.signed = r7[c].signed
    BY <2>2, <2>3, SetPolicyKeeps
  <2>5. r7[c].signed.expires = r11 + 3
    BY <2>1 DEF Timely
  <2> QED BY SMTT(60), <1>0, <2>2, <2>4, <2>5 DEF Timely
<1>10. ASSUME NEW c \in Clients, SignedPolicies!FleetPatchLost(c) PROVE Timely'
  BY <1>0, <1>10 DEF SignedPolicies!FleetPatchLost, Timely
<1>11. ASSUME NEW c \in Clients, NEW change \in SignedPolicies!Changes,
              SignedPolicies!FleetGet(c, change)
       PROVE  Timely'
  <2>1. UNCHANGED <<r1, r8, r9, r10, r11>>
    BY <1>11 DEF SignedPolicies!FleetGet
  <2>2. \A d \in Clients : r7'[d] # Nothing => r7'[d].signed.expires = r11 + 3
    BY <1>0, <1>11
    DEF SignedPolicies!FleetGet, SignedPolicies!Claims, SignedPolicies!Ttl, Timely
  <2> QED BY <2>1, <2>2 DEF Timely
<1>12. CASE UNCHANGED SignedPolicies!vars
  BY <1>12 DEF SignedPolicies!vars, Timely
<1> QED
  BY <1>1, <1>2, <1>3, <1>4, <1>5, <1>6, <1>7, <1>8, <1>9, <1>10, <1>11, <1>12
  DEF SignedPolicies!Next

(* A stored signature describes the policy it is stored with (set_policy   *)
(* and check_signed), the tier enforces that very policy or refuses the    *)
(* stream (accept_stream), the network steers by it unless an application  *)
(* failed (apply_network), and no signature of a fleet that reaches its    *)
(* host expires (sync_host): for any clients, policies, generations, and   *)
(* however much time passes.                                               *)
THEOREM PolicyStandsHolds ==
  ASSUME NothingApart
  PROVE  PartsSpec => []PolicyStands
<1> DEFINE Inv == part = "signedPolicies" => PolicyInv /\ Timely
<1>1. PartsInit => Inv
  BY PolicyInit DEF PartsInit
<1>2. Inv /\ [PartsNext]_PartsVars => Inv'
  BY OnePart, PolicyNext, TimelyNext
<1>3. Inv => PolicyStands
  <2> SUFFICES ASSUME PolicyInv, Timely
               PROVE  /\ SignedPolicies!SignatureDescribes /\ SignedPolicies!TierEnforces
                      /\ SignedPolicies!Steered /\ SignedPolicies!NeverLapses
    BY DEF PolicyStands
  <2>1. SignedPolicies!SignatureDescribes /\ SignedPolicies!Steered
    BY DEF PolicyInv, Kept
  <2>2. SignedPolicies!TierEnforces
    BY <2>1
    DEF SignedPolicies!SignatureDescribes, SignedPolicies!TierEnforces,
        SignedPolicies!AcceptStream, SignedPolicies!Verifies
  <2>3. SignedPolicies!NeverLapses
    <3>1. r11 \in Nat /\ (r1 # Nothing => (r1.signed # Nothing => r1.signed.expires \in Nat))
      BY DEF PolicyInv, PolicyTypes, Rec, Claim
    <3> QED BY SMTT(60), <3>1 DEF Timely, SignedPolicies!NeverLapses
  <2> QED BY <2>1, <2>2, <2>3
<1> QED BY <1>1, <1>2, <1>3, PTL DEF PartsSpec

(* A policy that was unsigned gets a signature only from a client's own   *)
(* change through the fleet, never from a renewal (refresh_signature).    *)
THEOREM NotBlessedHolds ==
  ASSUME NothingApart
  PROVE  PartsSpec => [][part = "signedPolicies" => SignedPolicies!NotBlessedStep]_PartsVars
<1> DEFINE Inv == part = "signedPolicies" => PolicyInv
<1>1. PartsInit => Inv
  BY PolicyInit DEF PartsInit
<1>2. Inv /\ [PartsNext]_PartsVars => Inv'
  BY OnePart, PolicyNext
<1>3. ASSUME PolicyInv, [SignedPolicies!Next]_(SignedPolicies!vars)
      PROVE  SignedPolicies!NotBlessedStep
  <2> SUFFICES ASSUME r1 # Nothing, r1' # Nothing, r1.signed = Nothing, r1'.signed # Nothing
               PROVE  \E c \in Clients : r7[c] # Nothing /\ r7'[c] = Nothing
    BY DEF SignedPolicies!NotBlessedStep
  <2> USE DEF SignedPolicies!host, SignedPolicies!fleet
  <2>1. CASE SignedPolicies!SyncPatch
    <3>1. SyncBehind /\ r8 # Nothing
      BY <1>3, <2>1 DEF SignedPolicies!SyncPatch, PolicyInv, Kept
    <3> QED BY <1>3, <2>1, <3>1, SyncPatchRenews DEF SyncBehind
  <2>2. ASSUME NEW change \in SignedPolicies!Changes, SignedPolicies!DirectPatch(change)
        PROVE  FALSE
    <3>1. SignedPolicies!SetPolicy("direct", change, Nothing)
      BY <2>2 DEF SignedPolicies!DirectPatch
    <3>2. r1' = r1 \/ r1'.signed = Nothing
      BY <1>3, <3>1, SetPolicyKeeps DEF NothingApart
    <3> QED BY <3>2
  <2>3. ASSUME NEW c \in Clients, SignedPolicies!FleetPatch(c)
        PROVE  r7[c] # Nothing /\ r7'[c] = Nothing
    BY <1>3, <2>3 DEF SignedPolicies!FleetPatch, PolicyInv, PolicyTypes
  <2>4. UNCHANGED r1 => FALSE
    OBVIOUS
  <2> QED
    BY <1>3, <2>1, <2>2, <2>3, <2>4
    DEF SignedPolicies!Next, SignedPolicies!vars, SignedPolicies!Steer, SignedPolicies!BringUp,
        SignedPolicies!Crash, SignedPolicies!Delete, SignedPolicies!SyncList,
        SignedPolicies!Tick, SignedPolicies!FleetPatchLost, SignedPolicies!FleetGet
<1>4. Inv /\ [PartsNext]_PartsVars
        => [part = "signedPolicies" => SignedPolicies!NotBlessedStep]_PartsVars
  BY <1>3, OnePart
<1> QED BY <1>1, <1>2, <1>4, PTL DEF PartsSpec

-----------------------------------------------------------------------------
(***************************************************************************)
(* JailCache: where each call is r1, the temporary names r2, the cached    *)
(* name r3, the whole files r4, what each call writes r5, the files in     *)
(* jails r6 and those begun beside another copy of the process r7.  The    *)
(* file at a temporary name is no other name's, nor any jail's, so         *)
(* truncating it harms none; and unless it was begun beside another, the   *)
(* one call that is to rename it wrote it to its end.                      *)
(***************************************************************************)
CacheTypes ==
  /\ r1 \in [Makers -> {"look", "copy", "write", "rename", "link"}]
  /\ r2 \in [JailCache!Processes -> Inodes \cup {0}]
  /\ r3 \in Inodes \cup {0} /\ r4 \in SUBSET Inodes
  /\ r5 \in [Makers -> Inodes \cup {0}]
  /\ r6 \in SUBSET Inodes /\ r7 \in SUBSET Inodes

InCopy(m) == r1[m] \in {"write", "rename"}

Apart(p) ==
  r2[p] # 0 => /\ r2[p] # r3 /\ r2[p] \notin r6
               /\ \A q \in JailCache!Processes : r2[q] = r2[p] => q = p

Sole(m) ==
  InCopy(m) /\ r2[JailCache!Process(m)] # 0 /\ r2[JailCache!Process(m)] \notin r7 =>
    /\ \A o \in Makers : o # m /\ JailCache!Process(o) = JailCache!Process(m) => ~InCopy(o)
    /\ r1[m] = "write" => r5[m] = r2[JailCache!Process(m)]
    /\ r1[m] = "rename" => r2[JailCache!Process(m)] \in r4

CacheSafe ==
  /\ r3 # 0 => r3 \in r4 \cup r7
  /\ r6 \subseteq r4 \cup r7
  /\ \A m \in Makers : r1[m] = "link" => r3 # 0
  /\ \A p \in JailCache!Processes : Apart(p)
  /\ \A m \in Makers : Sole(m)

CacheInv == CacheTypes /\ CacheSafe

LEMMA CacheInit ==
  ASSUME JailCache!Init
  PROVE  CacheInv
<1>1. CacheTypes
  BY DEF JailCache!Init, CacheTypes
<1> QED BY <1>1 DEF JailCache!Init, CacheInv, CacheSafe, Apart, Sole, InCopy

LEMMA MakersProcess ==
  ASSUME NEW m \in Makers
  PROVE  JailCache!Process(m) \in JailCache!Processes
BY DEF JailCache!Processes

(* The calls go on as they were, or leave the copy they were at. *)
LEMMA CacheLeaves ==
  ASSUME CacheInv, CacheTypes', UNCHANGED <<r2, r3, r4, r6, r7>>,
         \A m \in Makers : \/ r1'[m] = r1[m] /\ r5'[m] = r5[m]
                           \/ r1'[m] \in {"look", "copy"} \/ (r1'[m] = "link" /\ r3 # 0)
  PROVE  CacheInv'
<1>1. \A m \in Makers : InCopy(m)' => InCopy(m) /\ r1'[m] = r1[m] /\ r5'[m] = r5[m]
  BY DEF InCopy
<1>2. ASSUME NEW m \in Makers PROVE Sole(m)'
  <2>1. Sole(m)
    BY DEF CacheInv, CacheSafe
  <2>2. \A o \in Makers : ~InCopy(o) => ~InCopy(o)'
    BY <1>1
  <2> QED BY <1>1, <2>1, <2>2 DEF Sole
<1>3. \A p \in JailCache!Processes : Apart(p)'
  BY DEF CacheInv, CacheSafe, Apart
<1>4. \A m \in Makers : r1'[m] = "link" => r3' # 0
  BY DEF CacheInv, CacheSafe
<1> QED BY <1>2, <1>3, <1>4 DEF CacheInv, CacheSafe

LEMMA CacheCopy ==
  ASSUME 0 \notin Inodes, CacheInv, NEW m \in Makers, JailCache!Copy(m)
  PROVE  CacheInv'
<1>1. PICK P : P = JailCache!Process(m)
  OBVIOUS
<1>2. PICK i \in Inodes :
        /\ IF r2[P] # 0 THEN i = r2[P] ELSE JailCache!Fresh(i)
        /\ r2' = [r2 EXCEPT ![P] = i]
        /\ JailCache!Opens(m, i)
  BY <1>1 DEF JailCache!Copy
<1>3. UNCHANGED <<r3, r6>> /\ r4' = r4 \ {i} /\ r1' = [r1 EXCEPT ![m] = "write"]
  BY <1>2 DEF JailCache!Copy, JailCache!Opens
<1>4. r5' = [o \in Makers |-> IF o = m THEN i ELSE IF r5[o] = i THEN 0 ELSE r5[o]]
  BY <1>2 DEF JailCache!Opens
<1>5. r7' = IF JailCache!Copying(m) THEN r7 \cup {i} ELSE r7 \ {i}
  BY <1>2 DEF JailCache!Opens
<1>6. P \in JailCache!Processes /\ i # 0
  BY <1>1, MakersProcess
<1>7. /\ r2' \in [JailCache!Processes -> Inodes \cup {0}] /\ r2'[P] = i
      /\ \A q \in JailCache!Processes : q # P => r2'[q] = r2[q]
  BY <1>2, <1>6 DEF CacheInv, CacheTypes
<1>8. /\ r1' \in [Makers -> {"look", "copy", "write", "rename", "link"}] /\ r1'[m] = "write"
      /\ \A o \in Makers : o # m => r1'[o] = r1[o]
  BY <1>3 DEF CacheInv, CacheTypes
<1>9. /\ r5' \in [Makers -> Inodes \cup {0}] /\ r5'[m] = i
      /\ \A o \in Makers : o # m /\ r5[o] # i => r5'[o] = r5[o]
  BY <1>4 DEF CacheInv, CacheTypes
<1>10. CacheTypes'
  BY <1>3, <1>5, <1>7, <1>8, <1>9 DEF CacheInv, CacheTypes
<1>11. i # r3 /\ i \notin r6 /\ \A q \in JailCache!Processes : q # P => r2[q] # i
  <2>1. CASE r2[P] # 0
    <3>1. i = r2[P] /\ Apart(P)
      BY <1>2, <1>6, <2>1 DEF CacheInv, CacheSafe
    <3> QED BY <2>1, <3>1 DEF Apart
  <2>2. CASE r2[P] = 0
    <3>1. JailCache!Fresh(i)
      BY <1>2, <2>2
    <3> QED BY <3>1 DEF JailCache!Fresh
  <2> QED BY <2>1, <2>2
<1>12. \A j : j # i => (j \in r4' <=> j \in r4) /\ (j \in r7' <=> j \in r7)
  BY <1>3, <1>5
<1>13. (r3' # 0 => r3' \in r4' \cup r7') /\ r6' \subseteq r4' \cup r7'
  BY <1>3, <1>11, <1>12 DEF CacheInv, CacheSafe
<1>14. \A o \in Makers : r1'[o] = "link" => r3' # 0
  BY <1>3, <1>8 DEF CacheInv, CacheSafe
<1>15. ASSUME NEW p \in JailCache!Processes PROVE Apart(p)'
  <2>1. CASE p = P
    BY <1>3, <1>7, <1>11, <2>1 DEF Apart
  <2>2. CASE p # P
    <3>1. Apart(p) /\ r2'[p] = r2[p] /\ r2[p] # i
      BY <1>7, <1>11, <2>2 DEF CacheInv, CacheSafe
    <3> QED BY <1>3, <1>6, <1>7, <3>1 DEF Apart
  <2> QED BY <2>1, <2>2
<1>16. ASSUME NEW o \in Makers PROVE Sole(o)'
  <2>1. PICK Q : Q = JailCache!Process(o)
    OBVIOUS
  <2>2. Q \in JailCache!Processes
    BY <2>1, MakersProcess
  <2>3. CASE Q = P /\ JailCache!Copying(m)
    <3>1. r2'[Q] = i /\ i \in r7'
      BY <1>5, <1>7, <2>3
    <3> QED BY <2>1, <3>1 DEF Sole
  <2>4. CASE Q = P /\ ~JailCache!Copying(m)
    <3>1. \A n \in Makers : n # m /\ JailCache!Process(n) = P => ~InCopy(n)
      BY <1>1, <2>4 DEF JailCache!Copying, InCopy
    <3>2. \A n \in Makers : n # m /\ JailCache!Process(n) = P => ~InCopy(n)'
      BY <1>8, <3>1 DEF InCopy
    <3>3. CASE o = m
      BY <1>1, <1>7, <1>8, <1>9, <3>2, <3>3 DEF Sole
    <3>4. CASE o # m
      BY <2>1, <2>4, <3>2, <3>4 DEF Sole
    <3> QED BY <3>3, <3>4
  <2>5. CASE Q # P
    <3>1. o # m /\ r1'[o] = r1[o] /\ r2'[Q] = r2[Q] /\ r2[Q] # i
      BY <1>1, <1>7, <1>8, <1>11, <2>1, <2>2, <2>5
    <3>2. Sole(o) /\ (r2[Q] \in r4' <=> r2[Q] \in r4) /\ (r2[Q] \in r7' <=> r2[Q] \in r7)
      BY <1>12, <3>1 DEF CacheInv, CacheSafe
    <3>3. r5[o] = r2[Q] => r5'[o] = r2[Q]
      BY <1>9, <3>1
    <3>4. \A n \in Makers : JailCache!Process(n) = Q => n # m /\ r1'[n] = r1[n]
      BY <1>1, <1>8, <2>5
    <3> QED BY <2>1, <3>1, <3>2, <3>3, <3>4 DEF Sole, InCopy
  <2> QED BY <2>3, <2>4, <2>5
<1> QED BY <1>10, <1>13, <1>14, <1>15, <1>16 DEF CacheInv, CacheSafe

LEMMA CacheWritten ==
  ASSUME CacheInv, NEW m \in Makers, JailCache!Written(m)
  PROVE  CacheInv'
<1>1. /\ r1[m] = "write" /\ r1' = [r1 EXCEPT ![m] = "rename"] /\ r5' = [r5 EXCEPT ![m] = 0]
      /\ r4' = (IF r5[m] # 0 THEN r4 \cup {r5[m]} ELSE r4) /\ UNCHANGED <<r2, r3, r6, r7>>
  BY DEF JailCache!Written
<1>2. r5[m] \in Inodes \cup {0} /\ r4 \subseteq r4'
  BY <1>1 DEF CacheInv, CacheTypes
<1>3. CacheTypes'
  BY <1>1, <1>2 DEF CacheInv, CacheTypes
<1>4. /\ r1'[m] = "rename" /\ \A o \in Makers : o # m => r1'[o] = r1[o] /\ r5'[o] = r5[o]
      /\ InCopy(m) /\ \A o \in Makers : InCopy(o)' <=> InCopy(o)
  <2>1. r1'[m] = "rename" /\ \A o \in Makers : o # m => r1'[o] = r1[o] /\ r5'[o] = r5[o]
    BY <1>1 DEF CacheInv, CacheTypes
  <2>2. InCopy(m) /\ InCopy(m)'
    BY <1>1, <2>1 DEF InCopy
  <2>3. ASSUME NEW o \in Makers, o # m PROVE InCopy(o)' <=> InCopy(o)
    BY <2>1, <2>3 DEF InCopy
  <2> QED BY <2>1, <2>2, <2>3
<1>5. ASSUME NEW o \in Makers PROVE Sole(o)'
  <2>1. Sole(o) /\ Sole(m)
    BY DEF CacheInv, CacheSafe
  <2>2. CASE o = m
    <3>1. SUFFICES ASSUME r2[JailCache!Process(m)] # 0, r2[JailCache!Process(m)] \notin r7
                   PROVE  /\ \A n \in Makers :
                               n # m /\ JailCache!Process(n) = JailCache!Process(m) => ~InCopy(n)
                          /\ r2[JailCache!Process(m)] \in r4'
      BY <1>1, <1>4, <2>2 DEF Sole
    <3>2. /\ \A n \in Makers : n # m /\ JailCache!Process(n) = JailCache!Process(m) => ~InCopy(n)
          /\ r5[m] = r2[JailCache!Process(m)]
      BY <1>1, <1>4, <2>1, <3>1 DEF Sole
    <3> QED BY <1>1, <3>1, <3>2
  <2>3. CASE o # m
    BY <1>1, <1>2, <1>4, <2>1, <2>3 DEF Sole
  <2> QED BY <2>2, <2>3
<1>6. \A p \in JailCache!Processes : Apart(p)'
  BY <1>1 DEF CacheInv, CacheSafe, Apart
<1>7. /\ r3' # 0 => r3' \in r4' \cup r7'
      /\ r6' \subseteq r4' \cup r7'
      /\ \A o \in Makers : r1'[o] = "link" => r3' # 0
  BY <1>1, <1>2, <1>4 DEF CacheInv, CacheSafe
<1> QED BY <1>3, <1>5, <1>6, <1>7 DEF CacheInv, CacheSafe

LEMMA CacheRename ==
  ASSUME CacheInv, NEW m \in Makers, JailCache!Rename(m)
  PROVE  CacheInv'
<1>1. PICK P : P = JailCache!Process(m)
  OBVIOUS
<1>2. P \in JailCache!Processes /\ r1[m] = "rename" /\ UNCHANGED <<r4, r5, r6, r7>>
  BY <1>1, MakersProcess DEF JailCache!Rename
<1>3. CASE r2[P] = 0
  <2>1. r1' = [r1 EXCEPT ![m] = "look"] /\ UNCHANGED <<r2, r3>>
    BY <1>1, <1>3 DEF JailCache!Rename
  <2>2. CacheTypes'
    BY <1>2, <2>1 DEF CacheInv, CacheTypes
  <2>3. \A o \in Makers : r1'[o] = r1[o] \/ r1'[o] = "look"
    BY <2>1 DEF CacheInv, CacheTypes
  <2> QED BY <1>2, <2>1, <2>2, <2>3, CacheLeaves
<1>4. CASE r2[P] # 0
  <2>1. r3' = r2[P] /\ r2' = [r2 EXCEPT ![P] = 0] /\ r1' = [r1 EXCEPT ![m] = "link"]
    BY <1>1, <1>4 DEF JailCache!Rename
  <2>2. r2[P] \in Inodes
    BY <1>2, <1>4 DEF CacheInv, CacheTypes
  <2>3. CacheTypes'
    BY <1>2, <2>1, <2>2 DEF CacheInv, CacheTypes
  <2>4. r2'[P] = 0 /\ \A q \in JailCache!Processes : q # P => r2'[q] = r2[q]
    BY <1>2, <2>1 DEF CacheInv, CacheTypes
  <2>5. r1'[m] = "link" /\ \A o \in Makers : o # m => r1'[o] = r1[o]
    BY <2>1 DEF CacheInv, CacheTypes
  <2>6. r3' \in r4 \cup r7
    <3>1. Sole(m) /\ InCopy(m)
      BY <1>2 DEF CacheInv, CacheSafe, InCopy
    <3> QED BY <1>1, <1>2, <1>4, <2>1, <3>1 DEF Sole
  <2>7. ASSUME NEW p \in JailCache!Processes PROVE Apart(p)'
    <3>1. CASE p = P
      BY <2>4, <3>1 DEF Apart
    <3>2. CASE p # P
      <4>1. Apart(p) /\ Apart(P) /\ r2'[p] = r2[p]
        BY <1>2, <2>4, <3>2 DEF CacheInv, CacheSafe
      <4>2. r2[p] # r2[P]
        BY <1>2, <1>4, <3>2, <4>1 DEF Apart
      <4>3. ASSUME r2[p] # 0, NEW q \in JailCache!Processes, r2'[q] = r2[p] PROVE q = p
        BY <2>4, <4>1, <4>3 DEF Apart
      <4>4. r2[p] # 0 => r2[p] # r3' /\ r2[p] \notin r6'
        BY <1>2, <2>1, <4>1, <4>2 DEF Apart
      <4>5. r2'[p] = r2[p]
        BY <4>1
      <4> QED BY <4>3, <4>4, <4>5 DEF Apart
    <3> QED BY <3>1, <3>2
  <2>8. ASSUME NEW o \in Makers PROVE Sole(o)'
    <3>1. CASE JailCache!Process(o) = P
      BY <2>4, <3>1 DEF Sole
    <3>2. CASE JailCache!Process(o) # P
      <4>1. /\ Sole(o) /\ r2'[JailCache!Process(o)] = r2[JailCache!Process(o)]
            /\ r1'[o] = r1[o]
        BY <1>1, <2>4, <2>5, <3>2, MakersProcess DEF CacheInv, CacheSafe
      <4>2. \A n \in Makers : JailCache!Process(n) = JailCache!Process(o) => r1'[n] = r1[n]
        BY <1>1, <2>5, <3>2
      <4> QED BY <1>2, <4>1, <4>2 DEF Sole, InCopy
    <3> QED BY <3>1, <3>2
  <2>9. r6' \subseteq r4' \cup r7' /\ \A o \in Makers : r1'[o] = "link" => r3' # 0
    BY <1>2, <1>4, <2>1 DEF CacheInv, CacheSafe
  <2> QED BY <1>2, <2>3, <2>6, <2>7, <2>8, <2>9 DEF CacheInv, CacheSafe
<1> QED BY <1>3, <1>4

LEMMA CacheLinked ==
  ASSUME CacheInv, NEW m \in Makers, JailCache!LinkCached(m)
  PROVE  CacheInv'
<1>1. r1[m] = "link" /\ r1' = [r1 EXCEPT ![m] = "look"] /\ UNCHANGED <<r2, r3, r5>>
  BY DEF JailCache!LinkCached
<1>2. r3 # 0 /\ r3 \in r4 \cup r7 /\ r3 \in Inodes
  BY <1>1 DEF CacheInv, CacheSafe, CacheTypes
<1>3. PICK i \in Inodes :
        /\ r6' = r6 \cup {i} /\ i \in r4' \cup r7'
        /\ \A p \in JailCache!Processes : r2[p] # 0 => r2[p] # i
        /\ \A j : j \in r6 \cup {r3} \/ (\E p \in JailCache!Processes : r2[p] = j) =>
             (j \in r4' <=> j \in r4) /\ (j \in r7' <=> j \in r7)
        /\ r4' \subseteq r4 \cup {i} /\ r7' \subseteq r7 \cup {i}
  <2>1. CASE r6' = r6 \cup {r3} /\ UNCHANGED <<r4, r7>>
    <3>1. \A p \in JailCache!Processes : r2[p] # 0 => r2[p] # r3
      BY DEF CacheInv, CacheSafe, Apart
    <3> QED BY <1>2, <2>1, <3>1
  <2>2. ASSUME NEW i \in Inodes, JailCache!Fresh(i), r6' = r6 \cup {i},
               r4' = IF r3 \in r4 THEN r4 \cup {i} ELSE r4 \ {i},
               r7' = IF r3 \in r7 THEN r7 \cup {i} ELSE r7 \ {i}
        PROVE  /\ i \in r4' \cup r7'
               /\ \A p \in JailCache!Processes : r2[p] # 0 => r2[p] # i
               /\ \A j : j \in r6 \cup {r3} \/ (\E p \in JailCache!Processes : r2[p] = j) =>
                    (j \in r4' <=> j \in r4) /\ (j \in r7' <=> j \in r7)
               /\ r4' \subseteq r4 \cup {i} /\ r7' \subseteq r7 \cup {i}
    <3>1. i # r3 /\ i \notin r6 /\ \A p \in JailCache!Processes : r2[p] # i
      BY <2>2 DEF JailCache!Fresh
    <3>2. \A j : j # i => (j \in r4' <=> j \in r4) /\ (j \in r7' <=> j \in r7)
      BY <2>2
    <3>3. i \in r4' \cup r7'
      BY <1>2, <2>2
    <3>4. r4' \subseteq r4 \cup {i} /\ r7' \subseteq r7 \cup {i}
      BY <2>2
    <3> QED BY <3>1, <3>2, <3>3, <3>4
  <2>3. \/ r6' = r6 \cup {r3} /\ UNCHANGED <<r4, r7>>
        \/ \E i \in Inodes :
             /\ JailCache!Fresh(i) /\ r6' = r6 \cup {i}
             /\ r4' = IF r3 \in r4 THEN r4 \cup {i} ELSE r4 \ {i}
             /\ r7' = IF r3 \in r7 THEN r7 \cup {i} ELSE r7 \ {i}
    BY DEF JailCache!LinkCached
  <2> QED BY <2>1, <2>2, <2>3
<1>4. CacheTypes'
  BY <1>1, <1>3 DEF CacheInv, CacheTypes
<1>5. r3' \in r4' \cup r7' /\ r6' \subseteq r4' \cup r7'
  BY <1>1, <1>2, <1>3 DEF CacheInv, CacheSafe
<1>6. \A o \in Makers : r1'[o] = r1[o] \/ r1'[o] = "look"
  BY <1>1 DEF CacheInv, CacheTypes
<1>7. \A p \in JailCache!Processes : Apart(p)'
  BY <1>1, <1>3 DEF CacheInv, CacheSafe, Apart
<1>8. ASSUME NEW o \in Makers PROVE Sole(o)'
  <2>1. PICK t : t = r2[JailCache!Process(o)]
    OBVIOUS
  <2>2. (t \in r4' <=> t \in r4) /\ (t \in r7' <=> t \in r7)
    BY <1>3, <2>1, MakersProcess
  <2>3. Sole(o) /\ \A n \in Makers : InCopy(n)' => InCopy(n) /\ r1'[n] = r1[n]
    BY <1>6 DEF CacheInv, CacheSafe, InCopy
  <2> QED BY <1>1, <2>1, <2>2, <2>3 DEF Sole
<1> QED BY <1>1, <1>2, <1>4, <1>5, <1>7, <1>8 DEF CacheInv, CacheSafe

LEMMA CacheNext ==
  ASSUME 0 \notin Inodes, CacheInv, [JailCache!Next]_(JailCache!vars)
  PROVE  CacheInv'
<1>1. ASSUME NEW m \in Makers, JailCache!Look(m) PROVE CacheInv'
  <2>1. /\ UNCHANGED <<r2, r3, r4, r5, r6, r7>>
        /\ r1' = [r1 EXCEPT ![m] = IF r3 # 0 THEN "link" ELSE "copy"]
    BY <1>1 DEF JailCache!Look
  <2>2. CacheTypes'
    BY <2>1 DEF CacheInv, CacheTypes
  <2>3. \A o \in Makers : r1'[o] = r1[o] \/ r1'[o] = "copy" \/ (r1'[o] = "link" /\ r3 # 0)
    BY <2>1 DEF CacheInv, CacheTypes
  <2> QED BY <2>1, <2>2, <2>3, CacheLeaves
<1>2. ASSUME NEW m \in Makers, JailCache!Fail(m) PROVE CacheInv'
  <2>1. /\ UNCHANGED <<r2, r3, r4, r6, r7>> /\ r1' = [r1 EXCEPT ![m] = "look"]
        /\ r5' = [r5 EXCEPT ![m] = 0]
    BY <1>2 DEF JailCache!Fail
  <2>2. CacheTypes'
    BY <2>1 DEF CacheInv, CacheTypes
  <2>3. \A o \in Makers : (r1'[o] = r1[o] /\ r5'[o] = r5[o]) \/ r1'[o] = "look"
    BY <2>1 DEF CacheInv, CacheTypes
  <2> QED BY <2>1, <2>2, <2>3, CacheLeaves
<1>3. ASSUME NEW p \in JailCache!Processes, JailCache!Crash(p) PROVE CacheInv'
  <2>1. /\ UNCHANGED <<r2, r3, r4, r6, r7>>
        /\ \A o \in Makers : (r1'[o] = r1[o] /\ r5'[o] = r5[o]) \/ r1'[o] = "look"
    BY <1>3 DEF JailCache!Crash
  <2>2. CacheTypes'
    BY <1>3 DEF JailCache!Crash, CacheInv, CacheTypes
  <2> QED BY <2>1, <2>2, CacheLeaves
<1>4. ASSUME UNCHANGED JailCache!vars PROVE CacheInv'
  <2>1. UNCHANGED <<r1, r2, r3, r4, r5, r6, r7>>
    BY <1>4 DEF JailCache!vars
  <2>2. CacheTypes'
    BY <2>1 DEF CacheInv, CacheTypes
  <2> QED BY <2>1, <2>2, CacheLeaves
<1> QED
  BY <1>1, <1>2, <1>3, <1>4, CacheCopy, CacheWritten, CacheRename, CacheLinked DEF JailCache!Next

(* What a jail is given is the whole source file and stays so, however     *)
(* calls fail, processes die and a bake, the daemon and its threads        *)
(* interleave, but for a copy begun while another call of the same process *)
(* was between opening the temporary name and renaming it (jail.rs,        *)
(* link_or_cache): for any calls, processes and files.                     *)
THEOREM LinksWholeHolds ==
  ASSUME 0 \notin Inodes
  PROVE  PartsSpec => []LinksWhole
<1> DEFINE Inv == part = "jailCache" => CacheInv
<1>1. PartsInit => Inv
  BY CacheInit DEF PartsInit
<1>2. Inv /\ [PartsNext]_PartsVars => Inv'
  BY OnePart, CacheNext
<1>3. Inv => LinksWhole
  BY DEF CacheInv, CacheSafe, LinksWhole, JailCache!LinksWhole
<1> QED BY <1>1, <1>2, <1>3, PTL DEF PartsSpec

-----------------------------------------------------------------------------
(***************************************************************************)
(* Bakes: per host, the templates are r1, the jobs r2, the queue r3, the   *)
(* bake's step r4 and number r5, the files r6, r7 and r8, the create in    *)
(* progress r9 and the clones r10; isoctl is r11 and what it has seen r12; *)
(* the last template baked over is r13.  A template whose name is in the   *)
(* queue is given up, with its clones, and what is written meanwhile is of *)
(* the bake at the queue's head alone; a bake's number is above any it     *)
(* finds on the host, so a template given up stays so.                     *)
(***************************************************************************)
Steps == {"idle", "install", "boot", "mem", "vmstate", "register"}
Said == {"none", "building", "ready", "failed"}

BakeTypes ==
  /\ r1 \in [BakeHosts -> [BakeNames -> Nat]] /\ r2 \in [BakeHosts -> [BakeNames -> Said]]
  /\ r3 \in [BakeHosts -> Seq(BakeNames)]
  /\ r4 \in [BakeHosts -> Steps] /\ r5 \in [BakeHosts -> Nat]
  /\ r6 \in [BakeHosts -> [BakeNames -> Nat]] /\ r7 \in [BakeHosts -> [BakeNames -> Nat]]
  /\ r8 \in [BakeHosts -> [BakeNames -> Nat]]
  /\ DOMAIN r9 = BakeHosts /\ DOMAIN r10 = BakeHosts
  /\ r13 \in [BakeHosts -> [BakeNames -> Nat]]

(* The builds under way are those in the queue, each once. *)
Once(q) == \A i, j \in DOMAIN q : q[i] = q[j] => i = j
Queued(q) == {q[i] : i \in DOMAIN q}
Tasked(q, jobs) == Once(q) /\ \A n \in BakeNames : jobs[n] = "building" <=> n \in Queued(q)

(* How far the bake of n is. *)
Written(h, n) ==
  /\ r4[h] \in {"boot", "mem", "vmstate", "register"} => r6[h][n] = r5[h]
  /\ r4[h] \in {"vmstate", "register"} => r7[h][n] = r5[h]
  /\ r4[h] = "register" => r8[h][n] = r5[h]

Baked(h, n) ==
  /\ r13[h][n] <= r1[h][n] /\ r1[h][n] <= r6[h][n]
  /\ r1[h][n] # r13[h][n] =>
       r6[h][n] = r1[h][n] /\ r7[h][n] = r1[h][n] /\ r8[h][n] = r1[h][n]
  /\ r2[h][n] = "ready" => r1[h][n] # 0
  /\ r4[h] # "idle" => r6[h][n] <= r5[h]

(* A clone is of the template there is, or of one that was given up. *)
Outlived(h, c) == c.row <= r13[h][c.name]
Standing(h, c) ==
  /\ c.name \in BakeNames /\ c.row \in Nat /\ c.row <= r1[h][c.name]
  /\ Outlived(h, c) \/ c.row = r1[h][c.name]

Cloned(h) ==
  /\ r9[h] # Nothing =>
       Standing(h, r9[h]) /\ (Outlived(h, r9[h]) \/ r9[h].disk \in {0, r9[h].row})
  /\ \A c \in r10[h] :
       Standing(h, c) /\ (Outlived(h, c) \/ (c.disk = c.row /\ c.vmstate = c.row))

BakeFit(h) ==
  /\ Tasked(r3[h], r2[h])
  /\ \A n \in Queued(r3[h]) : r1[h][n] = r13[h][n]
  /\ r4[h] # "idle" => r3[h] # <<>> /\ r5[h] # 0 /\ Written(h, Head(r3[h]))
  /\ \A n \in BakeNames : Baked(h, n)
  /\ Cloned(h)

(* What isoctl was told, and what it made of it. *)
Polled ==
  /\ r12 \in [BakeHosts -> Said \cup {"unknown", Nothing}]
  /\ IF r11.state = "idle" THEN \A h \in BakeHosts : r12[h] = Nothing
     ELSE /\ r11.name \in BakeNames
          /\ \A h \in BakeHosts : r12[h] = "ready" => r1[h][r11.name] # 0
  /\ r11.state = "ok" => \E h \in BakeHosts : r12[h] = "ready"

BakeInv == BakeTypes /\ (\A h \in BakeHosts : BakeFit(h)) /\ Polled

(* A host's own step is no business of the others'. *)
OnHost(h) ==
  \A k \in BakeHosts : k # h =>
    /\ r1'[k] = r1[k] /\ r2'[k] = r2[k] /\ r3'[k] = r3[k] /\ r4'[k] = r4[k] /\ r5'[k] = r5[k]
    /\ r6'[k] = r6[k] /\ r7'[k] = r7[k] /\ r8'[k] = r8[k] /\ r9'[k] = r9[k] /\ r10'[k] = r10[k]
    /\ r13'[k] = r13[k]

LEMMA OneBakeHost ==
  ASSUME BakeInv, BakeTypes', NEW h \in BakeHosts, OnHost(h), BakeFit(h)',
         \A n \in BakeNames : r1[h][n] # 0 => r1'[h][n] # 0, UNCHANGED <<r11, r12>>
  PROVE  BakeInv'
<1>1. ASSUME NEW k \in BakeHosts, k # h PROVE BakeFit(k)'
  <2>1. /\ r1'[k] = r1[k] /\ r2'[k] = r2[k] /\ r3'[k] = r3[k] /\ r4'[k] = r4[k] /\ r5'[k] = r5[k]
        /\ r6'[k] = r6[k] /\ r7'[k] = r7[k] /\ r8'[k] = r8[k] /\ r9'[k] = r9[k] /\ r10'[k] = r10[k]
        /\ r13'[k] = r13[k]
    BY <1>1 DEF OnHost
  <2>2. BakeFit(k)
    BY DEF BakeInv
  <2>3. /\ Tasked(r3[k], r2[k])' = Tasked(r3[k], r2[k])
        /\ \A n \in Queued(r3'[k]) : r1'[k][n] = r13'[k][n]
    BY <2>1, <2>2 DEF BakeFit
  <2>4. r4'[k] # "idle" => r3'[k] # <<>> /\ r5'[k] # 0 /\ Written(k, Head(r3[k]))'
    BY <2>1, <2>2 DEF BakeFit, Written
  <2>5. \A n \in BakeNames : Baked(k, n)'
    BY <2>1, <2>2 DEF BakeFit, Baked
  <2>6. Cloned(k)'
    BY <2>1, <2>2 DEF BakeFit, Cloned, Standing, Outlived
  <2> QED BY <2>2, <2>3, <2>4, <2>5, <2>6 DEF BakeFit
<1>2. \A k \in BakeHosts, n \in BakeNames : r1[k][n] # 0 => r1'[k][n] # 0
  BY DEF OnHost
<1>3. Polled'
  BY <1>2 DEF Polled, BakeInv
<1> QED BY <1>1, <1>3 DEF BakeInv

LEMMA BakeInit ==
  ASSUME Bakes!Init, Nothing # "ready"
  PROVE  BakeInv
<1>1. BakeTypes
  BY SMTT(60) DEF Bakes!Init, Bakes!Zero, BakeTypes, Steps, Said
<1>2. Polled
  BY DEF Bakes!Init, Polled
<1>3. ASSUME NEW h \in BakeHosts PROVE BakeFit(h)
  <2>1. /\ r3[h] = <<>> /\ r4[h] = "idle" /\ r9[h] = Nothing /\ r10[h] = {}
        /\ \A n \in BakeNames : r1[h][n] = 0 /\ r2[h][n] = "none" /\ r6[h][n] = 0 /\ r13[h][n] = 0
    BY DEF Bakes!Init, Bakes!Zero
  <2>2. Queued(r3[h]) = {} /\ Once(r3[h])
    BY SMTT(60), <2>1 DEF Queued, Once
  <2>3. "none" # "building" /\ "none" # "ready" /\ 0 <= 0
    BY SMTT(60)
  <2> QED BY <2>1, <2>2, <2>3 DEF BakeFit, Tasked, Written, Baked, Cloned
<1> QED BY <1>1, <1>2, <1>3 DEF BakeInv

LEMMA QueueGrows ==
  ASSUME NEW q \in Seq(BakeNames), NEW n \in BakeNames, n \notin Queued(q), Once(q),
         NEW a, a = Append(q, n)
  PROVE  /\ a \in Seq(BakeNames) /\ a # <<>> /\ Once(a) /\ Queued(a) = Queued(q) \cup {n}
         /\ q # <<>> => Head(a) = Head(q)
<1>1. a \in Seq(BakeNames) /\ a # <<>> /\ (q # <<>> => Head(a) = Head(q))
  BY SMTT(60)
<1>2. /\ Len(a) = Len(q) + 1 /\ Len(q) \in Nat /\ a[Len(q) + 1] = n
      /\ DOMAIN a = 1 .. Len(a) /\ DOMAIN q = 1 .. Len(q)
      /\ \A i \in 1 .. Len(q) : a[i] = q[i]
  BY SMTT(60)
<1>3. Once(a)
  BY SMTT(60), <1>2 DEF Once, Queued
<1>4. Queued(a) = Queued(q) \cup {n}
  BY SMTT(60), <1>2 DEF Queued
<1> QED BY <1>1, <1>3, <1>4

LEMMA QueueMoves ==
  ASSUME NEW q \in Seq(BakeNames), q # <<>>, Once(q), NEW a, a = Tail(q)
  PROVE  /\ a \in Seq(BakeNames) /\ Head(q) \in BakeNames /\ Head(q) \in Queued(q)
         /\ Once(a) /\ Queued(a) = Queued(q) \ {Head(q)}
<1>1. a \in Seq(BakeNames)
  BY SMTT(60)
<1>2. /\ Len(q) \in Nat \ {0} /\ Len(a) = Len(q) - 1 /\ q[1] = Head(q) /\ Head(q) \in BakeNames
      /\ DOMAIN a = 1 .. Len(a) /\ DOMAIN q = 1 .. Len(q)
      /\ \A i \in 1 .. Len(a) : a[i] = q[i + 1]
  BY SMTT(60)
<1>3. Once(a)
  BY SMTT(60), <1>2 DEF Once
<1>4. Head(q) \in Queued(q)
  BY SMTT(60), <1>2 DEF Queued
<1>5. Queued(a) \subseteq Queued(q) \ {Head(q)}
  BY SMTT(60), <1>2 DEF Queued, Once
<1>6. ASSUME NEW j \in DOMAIN q, q[j] # Head(q)
      PROVE  q[j] \in Queued(a)
  <2>1. j - 1 \in DOMAIN a /\ a[j - 1] = q[j]
    BY SMTT(60), <1>2, <1>6
  <2> QED BY <2>1 DEF Queued
<1>7. Queued(q) \ {Head(q)} \subseteq Queued(a)
  BY <1>6 DEF Queued
<1> QED BY <1>1, <1>2, <1>3, <1>4, <1>5, <1>7

(* The entries of the tables are numbers. *)
LEMMA EntryTypes ==
  ASSUME BakeTypes, NEW h \in BakeHosts, NEW n \in BakeNames
  PROVE  /\ r1[h][n] \in Nat /\ r6[h][n] \in Nat /\ r13[h][n] \in Nat
         /\ r5[h] \in Nat
BY DEF BakeTypes

(* One entry of a table by host is set. *)
LEMMA HostEntry ==
  ASSUME NEW S, NEW f \in [BakeHosts -> S], NEW h \in BakeHosts,
         NEW x \in S, NEW g, g = [f EXCEPT ![h] = x]
  PROVE  /\ g \in [BakeHosts -> S] /\ g[h] = x
         /\ \A k \in BakeHosts : k # h => g[k] = f[k]
OBVIOUS

(* A file table of which at most the entry of one name on one host is new. *)
Table == [BakeHosts -> [BakeNames -> Nat]]
Rewritten(f, g, h, n) ==
  /\ g \in Table
  /\ \A k \in BakeHosts : k # h => g[k] = f[k]
  /\ \A m \in BakeNames : m # n => g[h][m] = f[h][m]

LEMMA Unwritten ==
  ASSUME NEW f \in Table, NEW h \in BakeHosts, NEW n \in BakeNames
  PROVE  Rewritten(f, f, h, n)
BY DEF Rewritten

LEMMA BakeStarts ==
  ASSUME BakeInv, NEW h \in BakeHosts, NEW n \in BakeNames,
         NEW force \in BOOLEAN, NEW readable \in BOOLEAN, Bakes!Start(h, n, force, readable)
  PROVE  BakeInv'
<1>1. BakeTypes /\ BakeFit(h)
  BY DEF BakeInv
<1>0. r2 \in [BakeHosts -> [BakeNames -> Said]] /\ "ready" \in Said /\ "building" \in Said
  BY <1>1 DEF BakeTypes, Said
<1>2. UNCHANGED <<r1, r4, r5, r6, r7, r8, r9, r10, r11, r12>> /\ r2[h][n] # "building"
  BY DEF Bakes!Start, Bakes!files, Bakes!clones, Bakes!poll, Bakes!Refuses
<1>3. r3[h] \in Seq(BakeNames)
  BY <1>1 DEF BakeTypes
<1>4. n \notin Queued(r3[h])
  BY <1>1, <1>2 DEF BakeFit, Tasked
<1>6. CASE Bakes!Exists(h, n, readable) /\ ~force
  <2>1. r2' = [r2 EXCEPT ![h][n] = "ready"] /\ UNCHANGED <<r3, r13>> /\ r1[h][n] # 0
    BY <1>6 DEF Bakes!Start, Bakes!Started, Bakes!Exists
  <2>2. /\ r2' \in [BakeHosts -> [BakeNames -> Said]] /\ r2'[h][n] = "ready"
        /\ \A m \in BakeNames : m # n => r2'[h][m] = r2[h][m]
        /\ \A k \in BakeHosts : k # h => r2'[k] = r2[k]
    BY SMTT(60), <1>0, <2>1
  <2>3. BakeTypes'
    BY <1>1, <1>2, <2>1, <2>2 DEF BakeTypes
  <2>4. OnHost(h)
    BY <1>2, <2>1, <2>2 DEF OnHost
  <2>5. "ready" # "building"
    OBVIOUS
  <2>6. Tasked(r3[h], r2[h])'
    BY <1>1, <1>2, <1>4, <2>1, <2>2, <2>5 DEF BakeFit, Tasked
  <2>7. \A m \in BakeNames : Baked(h, m)'
    BY <1>1, <1>2, <2>1, <2>2 DEF BakeFit, Baked
  <2>9. Cloned(h)'
    BY <1>1, <1>2, <2>1 DEF BakeFit, Cloned, Standing, Outlived
  <2>8. BakeFit(h)'
    BY <1>1, <1>2, <2>1, <2>6, <2>7, <2>9 DEF BakeFit, Written
  <2> QED BY <1>2, <2>3, <2>4, <2>8, OneBakeHost
<1>7. CASE ~(Bakes!Exists(h, n, readable) /\ ~force)
  <2>1. /\ r2' = [r2 EXCEPT ![h][n] = "building"] /\ r3' = [r3 EXCEPT ![h] = Append(r3[h], n)]
        /\ r13' = [r13 EXCEPT ![h][n] = r1[h][n]] \/ (r13' = r13 /\ r1[h][n] = 0)
    BY <1>7 DEF Bakes!Start, Bakes!Started, Bakes!Exists
  <2>13. r1[h][n] \in Nat /\ r13 \in Table /\ r13[h][n] \in Nat /\ r13[h][n] <= r1[h][n]
    BY <1>1 DEF BakeTypes, BakeFit, Baked, Table
  <2>14. Rewritten(r13, r13', h, n) /\ r13'[h][n] = r1[h][n]
    <3>1. CASE r13' = [r13 EXCEPT ![h][n] = r1[h][n]]
      BY SMTT(60), <2>13, <3>1 DEF Rewritten, Table
    <3>2. CASE r13' = r13 /\ r1[h][n] = 0
      <4>1. r13[h][n] = 0
        BY SMTT(60), <2>13, <3>2
      <4> QED BY <2>13, <3>2, <4>1, Unwritten
    <3> QED BY <2>1, <3>1, <3>2
  <2>2. /\ r2' \in [BakeHosts -> [BakeNames -> Said]] /\ r2'[h][n] = "building"
        /\ \A m \in BakeNames : m # n => r2'[h][m] = r2[h][m]
        /\ \A k \in BakeHosts : k # h => r2'[k] = r2[k]
    BY SMTT(60), <1>0, <2>1
  <2>3. PICK q : q = Append(r3[h], n)
    OBVIOUS
  <2>4. /\ q \in Seq(BakeNames) /\ q # <<>> /\ Once(q) /\ Queued(q) = Queued(r3[h]) \cup {n}
        /\ r3[h] # <<>> => Head(q) = Head(r3[h])
    BY <1>1, <1>3, <1>4, <2>3, QueueGrows DEF BakeFit, Tasked
  <2>5. /\ r3' \in [BakeHosts -> Seq(BakeNames)] /\ r3'[h] = q
        /\ \A k \in BakeHosts : k # h => r3'[k] = r3[k]
    BY <1>1, <2>1, <2>3, <2>4, HostEntry DEF BakeTypes
  <2>6. BakeTypes'
    BY <1>1, <1>2, <2>2, <2>5, <2>14 DEF BakeTypes, Rewritten, Table
  <2>7. OnHost(h)
    BY <1>2, <2>2, <2>5, <2>14 DEF OnHost, Rewritten
  <2>8. Tasked(q, r2'[h])
    BY <1>1, <2>2, <2>4 DEF BakeFit, Tasked
  <2>9. \A m \in Queued(q) : r1[h][m] = r13'[h][m]
    <3>1. Queued(q) \subseteq BakeNames
      BY SMTT(60), <2>4 DEF Queued
    <3> QED BY <1>1, <2>4, <2>14, <3>1 DEF BakeFit, Rewritten
  <2>10. ASSUME NEW m \in BakeNames PROVE Baked(h, m)'
    <3>1. "building" # "ready" /\ Baked(h, m) /\ r1[h][n] <= r1[h][n]
      <4>1. r1[h][n] <= r1[h][n]
        BY SMTT(60), <2>13
      <4> QED BY <1>1, <4>1 DEF BakeFit
    <3>2. CASE m # n
      BY <1>2, <2>2, <2>14, <3>1, <3>2 DEF Baked, Rewritten
    <3>3. CASE m = n
      BY <1>2, <2>2, <2>14, <3>1, <3>3 DEF Baked
    <3> QED BY <3>2, <3>3
  <2>15. ASSUME NEW c, Standing(h, c)
         PROVE  Standing(h, c)' /\ (Outlived(h, c) => Outlived(h, c)')
    <3>1. CASE c.name # n
      BY <1>2, <2>14, <2>15, <3>1 DEF Standing, Outlived, Rewritten
    <3>2. CASE c.name = n
      BY <1>2, <2>14, <2>15, <3>2 DEF Standing, Outlived
    <3> QED BY <3>1, <3>2
  <2>16. Cloned(h)'
    BY <1>1, <1>2, <2>15 DEF BakeFit, Cloned
  <2>11. r4[h] # "idle" => q # <<>> /\ r5[h] # 0 /\ Written(h, Head(q))
    BY <1>1, <2>4 DEF BakeFit
  <2>12. BakeFit(h)'
    BY <1>2, <2>5, <2>8, <2>9, <2>10, <2>11, <2>16 DEF BakeFit, Written
  <2> QED BY <1>2, <2>6, <2>7, <2>12, OneBakeHost
<1> QED BY <1>6, <1>7

LEMMA BakeLane ==
  ASSUME BakeInv, NEW h \in BakeHosts, Bakes!Lane(h)
  PROVE  BakeInv'
<1>1. BakeTypes /\ BakeFit(h)
  BY DEF BakeInv
<1>2. /\ UNCHANGED <<r1, r2, r3, r6, r7, r8, r9, r10, r11, r12, r13>>
      /\ r3[h] # <<>> /\ r4' = [r4 EXCEPT ![h] = "install"]
  BY DEF Bakes!Lane, Bakes!files, Bakes!clones, Bakes!poll
<1>3. PICK i \in 1 .. MaxBakes :
        r5' = [r5 EXCEPT ![h] = i] /\ \A n \in BakeNames : r6[h][n] < i
  BY DEF Bakes!Lane
<1>4. i \in Nat /\ i # 0
  BY SMTT(60)
<1>5. /\ r4' \in [BakeHosts -> Steps] /\ r4'[h] = "install"
      /\ \A k \in BakeHosts : k # h => r4'[k] = r4[k]
  BY <1>1, <1>2, HostEntry DEF BakeTypes, Steps
<1>6. /\ r5' \in [BakeHosts -> Nat] /\ r5'[h] = i
      /\ \A k \in BakeHosts : k # h => r5'[k] = r5[k]
  BY <1>1, <1>3, <1>4, HostEntry DEF BakeTypes
<1>7. BakeTypes' /\ OnHost(h)
  BY <1>1, <1>2, <1>5, <1>6 DEF BakeTypes, OnHost
<1>8. \A n : Written(h, n)'
  BY <1>5 DEF Written
<1>9. Tasked(r3[h], r2[h])' = Tasked(r3[h], r2[h]) /\ Cloned(h)' = Cloned(h)
  BY <1>2 DEF Cloned, Standing, Outlived
<1>10. ASSUME NEW n \in BakeNames PROVE Baked(h, n)'
  <2>1. r6[h][n] <= i
    <3>1. r6[h][n] \in Nat /\ r6[h][n] < i
      BY <1>1, <1>3, EntryTypes
    <3> QED BY SMTT(60), <1>4, <3>1
  <2>2. Baked(h, n)
    BY <1>1 DEF BakeFit
  <2> QED BY <1>2, <1>6, <2>1, <2>2 DEF Baked
<1>11. BakeFit(h)'
  BY <1>1, <1>2, <1>4, <1>6, <1>8, <1>9, <1>10 DEF BakeFit
<1> QED BY <1>1, <1>2, <1>7, <1>11, OneBakeHost

(* Of numbers. *)
LEMMA Between ==
  \A a, b, c \in Nat : a <= b /\ b <= c => \A d \in {b, c} : a <= d /\ d <= c
  BY SMTT(60)

LEMMA AboveDiffers ==
  \A a, b \in Nat : ~(a <= b) => a # b
  BY SMTT(60)

(* A write of the bake's goes to the name at the queue's head, of which no  *)
(* template stands: what is registered, and cloned, stays as it is.         *)
LEMMA OneWrite ==
  ASSUME BakeInv, NEW h \in BakeHosts, NEW to \in Steps, r4[h] # "idle", to # "idle",
         r4' = [r4 EXCEPT ![h] = to], UNCHANGED <<r1, r2, r3, r5, r9, r10, r11, r12, r13>>,
         NEW n \in BakeNames, n = Head(r3[h]), Rewritten(r6, r6', h, n),
         r6'[h][n] \in {r6[h][n], r5[h]},
         Rewritten(r7, r7', h, n), Rewritten(r8, r8', h, n), Written(h, n)'
  PROVE  BakeInv'
<1>1. BakeTypes /\ BakeFit(h)
  BY DEF BakeInv
<1>2. /\ r4' \in [BakeHosts -> Steps] /\ r4'[h] = to
      /\ \A k \in BakeHosts : k # h => r4'[k] = r4[k]
  BY <1>1, HostEntry DEF BakeTypes
<1>3. BakeTypes' /\ OnHost(h)
  BY <1>1, <1>2 DEF BakeTypes, OnHost, Rewritten, Table
<1>4. r1[h][n] = r13[h][n]
  <2>1. r3[h] \in Seq(BakeNames) /\ r3[h] # <<>>
    BY <1>1 DEF BakeTypes, BakeFit
  <2>2. n \in Queued(r3[h])
    BY <1>1, <2>1, QueueMoves DEF BakeFit, Tasked
  <2> QED BY <1>1, <2>2 DEF BakeFit
<1>5. ASSUME NEW m \in BakeNames PROVE Baked(h, m)'
  <2>1. Baked(h, m) /\ Baked(h, n)
    BY <1>1 DEF BakeFit
  <2>2. CASE m # n
    BY <2>1, <2>2 DEF Baked, Rewritten
  <2>3. CASE m = n
    <3>1. r1[h][n] \in Nat /\ r6[h][n] \in Nat /\ r5[h] \in Nat
      BY <1>1, EntryTypes
    <3>2. r1[h][n] <= r6[h][n] /\ r6[h][n] <= r5[h]
      BY <2>1 DEF Baked
    <3>3. r1[h][n] <= r6'[h][n] /\ r6'[h][n] <= r5[h]
      BY <3>1, <3>2, Between
    <3> QED BY <1>4, <2>1, <2>3, <3>3 DEF Baked
  <2> QED BY <2>2, <2>3
<1>6. Tasked(r3[h], r2[h])' = Tasked(r3[h], r2[h]) /\ Cloned(h)' = Cloned(h)
  BY DEF Cloned, Standing, Outlived
<1>7. BakeFit(h)'
  BY <1>1, <1>5, <1>6 DEF BakeFit
<1> QED BY <1>3, <1>7, OneBakeHost

LEMMA BakeWrites ==
  ASSUME BakeInv, NEW h \in BakeHosts,
         Bakes!Install(h) \/ Bakes!BootBuilder(h) \/ Bakes!CopyMem(h) \/ Bakes!CopyVmstate(h)
  PROVE  BakeInv'
<1>1. BakeTypes /\ BakeFit(h)
  BY DEF BakeInv
<1>2. UNCHANGED <<r1, r2, r3, r5, r9, r10, r11, r12, r13>> /\ r4[h] # "idle"
  BY DEF Bakes!Install, Bakes!BootBuilder, Bakes!CopyMem, Bakes!CopyVmstate, Bakes!Advance,
         Bakes!clones, Bakes!poll
<1>3. r3[h] \in Seq(BakeNames) /\ r3[h] # <<>> /\ Once(r3[h])
  BY <1>1, <1>2 DEF BakeTypes, BakeFit, Tasked
<1>4. PICK n \in BakeNames : n = Head(r3[h])
  BY <1>3, QueueMoves
<1>5. r5[h] \in Nat /\ r6 \in Table /\ r7 \in Table /\ r8 \in Table /\ DOMAIN r4 = BakeHosts
  BY <1>1 DEF BakeTypes, Table
<1>6. Written(h, n)
  BY <1>1, <1>2, <1>4 DEF BakeFit
<1>7. {"boot", "mem", "vmstate", "register"} \subseteq Steps /\ "idle" \notin
        {"boot", "mem", "vmstate", "register"}
  BY DEF Steps
<1>8. CASE Bakes!Install(h)
  <2>1. /\ r4' = [r4 EXCEPT ![h] = "boot"] /\ r6' = [r6 EXCEPT ![h][n] = r5[h]]
        /\ UNCHANGED <<r7, r8>>
    BY <1>4, <1>8 DEF Bakes!Install, Bakes!Advance, Bakes!Wrote, Bakes!Baking
  <2>2. /\ Rewritten(r6, r6', h, n) /\ r6'[h][n] = r5[h]
        /\ Rewritten(r7, r7', h, n) /\ Rewritten(r8, r8', h, n)
    <3>1. Rewritten(r6, r6', h, n) /\ r6'[h][n] = r5[h]
      BY SMTT(60), <1>5, <2>1 DEF Rewritten, Table
    <3> QED BY <1>5, <2>1, <3>1, Unwritten
  <2>3. r4'[h] = "boot"
    BY <1>5, <2>1
  <2>4. Written(h, n)'
    BY <1>2, <2>2, <2>3 DEF Written
  <2>5. r6'[h][n] \in {r6[h][n], r5[h]}
    BY <2>1, <2>2
  <2> QED BY <1>2, <1>4, <1>7, <2>1, <2>2, <2>4, <2>5, OneWrite
<1>9. CASE Bakes!BootBuilder(h)
  <2>1. r4' = [r4 EXCEPT ![h] = "mem"] /\ UNCHANGED <<r6, r7, r8>> /\ r4[h] = "boot"
    BY <1>9 DEF Bakes!BootBuilder, Bakes!Advance, Bakes!files
  <2>2. Rewritten(r6, r6', h, n) /\ Rewritten(r7, r7', h, n) /\ Rewritten(r8, r8', h, n)
    BY <1>5, <2>1, Unwritten
  <2>3. r4'[h] = "mem"
    BY <1>5, <2>1
  <2>4. Written(h, n)'
    BY <1>2, <1>6, <2>1, <2>3 DEF Written
  <2>5. r6'[h][n] \in {r6[h][n], r5[h]}
    BY <2>1, <2>2
  <2> QED BY <1>2, <1>4, <1>7, <2>1, <2>2, <2>4, <2>5, OneWrite
<1>10. CASE Bakes!CopyMem(h)
  <2>1. /\ r4' = [r4 EXCEPT ![h] = "vmstate"] /\ r7' = [r7 EXCEPT ![h][n] = r5[h]]
        /\ UNCHANGED <<r6, r8>> /\ r4[h] = "mem"
    BY <1>4, <1>10 DEF Bakes!CopyMem, Bakes!Advance, Bakes!Wrote, Bakes!Baking
  <2>2. /\ Rewritten(r7, r7', h, n) /\ r7'[h][n] = r5[h]
        /\ Rewritten(r6, r6', h, n) /\ Rewritten(r8, r8', h, n)
    <3>1. Rewritten(r7, r7', h, n) /\ r7'[h][n] = r5[h]
      BY SMTT(60), <1>5, <2>1 DEF Rewritten, Table
    <3> QED BY <1>5, <2>1, <3>1, Unwritten
  <2>3. r4'[h] = "vmstate"
    BY <1>5, <2>1
  <2>4. Written(h, n)'
    BY <1>2, <1>6, <2>1, <2>2, <2>3 DEF Written
  <2>5. r6'[h][n] \in {r6[h][n], r5[h]}
    BY <2>1, <2>2
  <2> QED BY <1>2, <1>4, <1>7, <2>1, <2>2, <2>4, <2>5, OneWrite
<1>11. CASE Bakes!CopyVmstate(h)
  <2>1. /\ r4' = [r4 EXCEPT ![h] = "register"] /\ r8' = [r8 EXCEPT ![h][n] = r5[h]]
        /\ UNCHANGED <<r6, r7>> /\ r4[h] = "vmstate"
    BY <1>4, <1>11 DEF Bakes!CopyVmstate, Bakes!Advance, Bakes!Wrote, Bakes!Baking
  <2>2. /\ Rewritten(r8, r8', h, n) /\ r8'[h][n] = r5[h]
        /\ Rewritten(r6, r6', h, n) /\ Rewritten(r7, r7', h, n)
    <3>1. Rewritten(r8, r8', h, n) /\ r8'[h][n] = r5[h]
      BY SMTT(60), <1>5, <2>1 DEF Rewritten, Table
    <3> QED BY <1>5, <2>1, <3>1, Unwritten
  <2>3. r4'[h] = "register"
    BY <1>5, <2>1
  <2>4. Written(h, n)'
    BY <1>2, <1>6, <2>1, <2>2, <2>3 DEF Written
  <2>5. r6'[h][n] \in {r6[h][n], r5[h]}
    BY <2>1, <2>2
  <2> QED BY <1>2, <1>4, <1>7, <2>1, <2>2, <2>4, <2>5, OneWrite
<1> QED BY <1>8, <1>9, <1>10, <1>11
LEMMA BakeFinishes ==
  ASSUME BakeInv, NEW h \in BakeHosts, NEW ok \in BOOLEAN, Bakes!Finish(h, ok)
  PROVE  BakeInv'
<1>1. BakeTypes /\ BakeFit(h)
  BY DEF BakeInv
<1>2. /\ UNCHANGED <<r5, r6, r7, r8, r9, r10, r11, r12, r13>>
      /\ r4[h] # "idle" /\ (ok => r4[h] = "register")
  BY DEF Bakes!Finish, Bakes!files, Bakes!clones, Bakes!poll
<1>3. r3[h] \in Seq(BakeNames) /\ r3[h] # <<>> /\ Once(r3[h])
  BY <1>1, <1>2 DEF BakeTypes, BakeFit, Tasked
<1>4. PICK n \in BakeNames : n = Head(r3[h])
  BY <1>3, QueueMoves
<1>5. PICK q : q = Tail(r3[h])
  OBVIOUS
<1>6. /\ q \in Seq(BakeNames) /\ Once(q) /\ Queued(q) = Queued(r3[h]) \ {n}
      /\ n \in Queued(r3[h])
  BY <1>3, <1>4, <1>5, QueueMoves
<1>7. PICK out \in {"ready", "failed"} :
        /\ out = IF ok THEN "ready" ELSE "failed"
        /\ r2' = [r2 EXCEPT ![h][n] = out]
        /\ r1' = IF ok THEN [r1 EXCEPT ![h][n] = r5[h]] ELSE r1
        /\ r3' = [r3 EXCEPT ![h] = q] /\ r4' = [r4 EXCEPT ![h] = "idle"]
  BY <1>4, <1>5 DEF Bakes!Finish, Bakes!Outcome, Bakes!Baking
<1>8. /\ r1 \in Table /\ r5[h] \in Nat /\ r2 \in [BakeHosts -> [BakeNames -> Said]]
      /\ out \in Said /\ "idle" \in Steps
  BY <1>1 DEF BakeTypes, Table, Said, Steps
<1>9. /\ r2' \in [BakeHosts -> [BakeNames -> Said]] /\ r2'[h][n] = out
      /\ \A m \in BakeNames : m # n => r2'[h][m] = r2[h][m]
      /\ \A k \in BakeHosts : k # h => r2'[k] = r2[k]
  BY SMTT(60), <1>7, <1>8
<1>10. Rewritten(r1, r1', h, n) /\ r1'[h][n] = IF ok THEN r5[h] ELSE r1[h][n]
  <2>1. CASE ok
    BY SMTT(60), <1>7, <1>8, <2>1 DEF Rewritten, Table
  <2>2. CASE ~ok
    BY <1>7, <1>8, <2>2, Unwritten
  <2> QED BY <2>1, <2>2
<1>11. /\ r3' \in [BakeHosts -> Seq(BakeNames)] /\ r3'[h] = q
       /\ \A k \in BakeHosts : k # h => r3'[k] = r3[k]
  BY <1>1, <1>6, <1>7, HostEntry DEF BakeTypes
<1>12. /\ r4' \in [BakeHosts -> Steps] /\ r4'[h] = "idle"
       /\ \A k \in BakeHosts : k # h => r4'[k] = r4[k]
  BY <1>1, <1>7, <1>8, HostEntry DEF BakeTypes
<1>13. BakeTypes' /\ OnHost(h)
  BY <1>1, <1>2, <1>9, <1>10, <1>11, <1>12 DEF BakeTypes, OnHost, Rewritten, Table
<1>14. r1[h][n] = r13[h][n] /\ r5[h] # 0 /\ Written(h, n) /\ Baked(h, n)
  BY <1>1, <1>2, <1>4, <1>6 DEF BakeFit
<1>15. /\ r13[h][n] \in Nat /\ r1[h][n] \in Nat /\ r6[h][n] \in Nat
       /\ r13[h][n] <= r1[h][n] /\ r1[h][n] <= r6[h][n] /\ r6[h][n] <= r5[h]
  <2>1. r13[h][n] \in Nat /\ r1[h][n] \in Nat /\ r6[h][n] \in Nat
    BY <1>1, <1>2, EntryTypes
  <2> QED BY <1>1, <1>2, <1>14, <2>1 DEF Baked
<1>16. Tasked(q, r2'[h])
  <2>1. out # "building"
    BY <1>7
  <2> QED BY <1>1, <1>6, <1>9, <2>1 DEF BakeFit, Tasked
<1>17. \A m \in Queued(q) : r1'[h][m] = r13[h][m]
  <2>1. Queued(q) \subseteq BakeNames
    BY SMTT(60), <1>6 DEF Queued
  <2> QED BY <1>1, <1>6, <1>10, <2>1 DEF BakeFit, Rewritten
<1>18. ASSUME NEW m \in BakeNames PROVE Baked(h, m)'
  <2>1. CASE m # n
    BY <1>1, <1>2, <1>9, <1>10, <2>1 DEF BakeFit, Baked, Rewritten
  <2>2. CASE m = n /\ ok
    <3>1. r6[h][n] = r5[h] /\ r7[h][n] = r5[h] /\ r8[h][n] = r5[h]
      BY <1>2, <1>14, <2>2 DEF Written
    <3>2. r13[h][n] <= r5[h] /\ r5[h] <= r5[h]
      BY SMTT(60), <1>8, <1>15
    <3> QED BY <1>2, <1>10, <1>12, <1>14, <2>2, <3>1, <3>2 DEF Baked
  <2>3. CASE m = n /\ ~ok
    <3>1. out # "ready"
      BY <1>7, <2>3
    <3> QED BY <1>2, <1>9, <1>10, <1>12, <1>14, <2>3, <3>1 DEF Baked
  <2> QED BY <2>1, <2>2, <2>3
<1>19. ASSUME NEW c, Standing(h, c) PROVE Standing(h, c)' /\ Outlived(h, c)' = Outlived(h, c)
  <2>1. Outlived(h, c)' = Outlived(h, c)
    BY <1>2 DEF Outlived
  <2>2. CASE c.name # n
    BY <1>2, <1>10, <1>19, <2>1, <2>2 DEF Standing, Rewritten
  <2>3. CASE c.name = n
    <3>1. c.row \in Nat /\ c.row <= r1[h][n] /\ (c.row <= r13[h][n] \/ c.row = r1[h][n])
      BY <1>19, <2>3 DEF Standing, Outlived
    <3>2. c.row <= r13[h][n] /\ c.row <= r5[h]
      BY SMTT(60), <1>8, <1>14, <1>15, <3>1
    <3>3. c.row <= r1'[h][n]
      BY <1>10, <3>1, <3>2
    <3>4. Outlived(h, c)'
      BY <1>2, <2>3, <3>2 DEF Outlived
    <3> QED BY <2>1, <2>3, <3>1, <3>3, <3>4 DEF Standing
  <2> QED BY <2>2, <2>3
<1>20. Cloned(h)'
  BY <1>1, <1>2, <1>19 DEF BakeFit, Cloned
<1>21. BakeFit(h)'
  BY <1>2, <1>11, <1>12, <1>16, <1>17, <1>18, <1>20 DEF BakeFit
<1>22. ASSUME NEW m \in BakeNames, r1[h][m] # 0 PROVE r1'[h][m] # 0
  BY <1>10, <1>14, <1>22 DEF Rewritten
<1> QED BY <1>2, <1>13, <1>21, <1>22, OneBakeHost

LEMMA BakeRestarts ==
  ASSUME BakeInv, NEW h \in BakeHosts, Bakes!Restart(h)
  PROVE  BakeInv'
<1>1. BakeTypes /\ BakeFit(h)
  BY DEF BakeInv
<1>2. /\ UNCHANGED <<r1, r5, r6, r7, r8, r10, r11, r12, r13>>
      /\ r2' = [r2 EXCEPT ![h] = [n \in BakeNames |-> "none"]]
      /\ r3' = [r3 EXCEPT ![h] = <<>>] /\ r4' = [r4 EXCEPT ![h] = "idle"]
      /\ r9' = [r9 EXCEPT ![h] = Nothing]
  BY DEF Bakes!Restart, Bakes!files, Bakes!poll
<1>3. <<>> \in Seq(BakeNames) /\ Queued(<<>>) = {} /\ Once(<<>>)
  BY SMTT(60) DEF Queued, Once
<1>4. /\ r2' \in [BakeHosts -> [BakeNames -> Said]] /\ \A n \in BakeNames : r2'[h][n] = "none"
      /\ \A k \in BakeHosts : k # h => r2'[k] = r2[k]
  BY SMTT(60), <1>1, <1>2 DEF BakeTypes, Said
<1>5. /\ r3' \in [BakeHosts -> Seq(BakeNames)] /\ r3'[h] = <<>>
      /\ \A k \in BakeHosts : k # h => r3'[k] = r3[k]
  BY <1>1, <1>2, <1>3, HostEntry DEF BakeTypes
<1>6. /\ r4' \in [BakeHosts -> Steps] /\ r4'[h] = "idle"
      /\ \A k \in BakeHosts : k # h => r4'[k] = r4[k]
  BY <1>1, <1>2, HostEntry DEF BakeTypes, Steps
<1>7. DOMAIN r9' = BakeHosts /\ r9'[h] = Nothing /\ \A k \in BakeHosts : k # h => r9'[k] = r9[k]
  BY <1>1, <1>2 DEF BakeTypes
<1>8. BakeTypes' /\ OnHost(h)
  BY <1>1, <1>2, <1>4, <1>5, <1>6, <1>7 DEF BakeTypes, OnHost
<1>9. Tasked(<<>>, r2'[h]) /\ \A n \in BakeNames : r2'[h][n] # "ready"
  BY <1>3, <1>4 DEF Tasked
<1>10. \A n \in BakeNames : Baked(h, n)'
  BY <1>1, <1>2, <1>6, <1>9 DEF BakeFit, Baked
<1>11. Cloned(h)'
  BY <1>1, <1>2, <1>7 DEF BakeFit, Cloned, Standing, Outlived
<1>12. BakeFit(h)'
  BY <1>2, <1>3, <1>5, <1>6, <1>9, <1>10, <1>11 DEF BakeFit
<1> QED BY <1>2, <1>8, <1>12, OneBakeHost

(* The files are of the bake that stands. *)
LEMMA StandingFiles ==
  ASSUME BakeTypes, NEW h \in BakeHosts, BakeFit(h), NEW c, Standing(h, c)
  PROVE  \/ Outlived(h, c)
         \/ r6[h][c.name] = c.row /\ r7[h][c.name] = c.row /\ r8[h][c.name] = c.row
<1> SUFFICES ASSUME ~Outlived(h, c)
             PROVE  r6[h][c.name] = c.row /\ r7[h][c.name] = c.row /\ r8[h][c.name] = c.row
  OBVIOUS
<1>1. c.name \in BakeNames /\ c.row = r1[h][c.name] /\ Baked(h, c.name)
  BY DEF Standing, BakeFit
<1>2. r1[h][c.name] \in Nat /\ r13[h][c.name] \in Nat
  BY <1>1 DEF BakeTypes
<1>3. r1[h][c.name] # r13[h][c.name]
  <2>1. ~(r1[h][c.name] <= r13[h][c.name])
    BY <1>1 DEF Outlived
  <2> QED BY <1>2, <2>1, AboveDiffers
<1> QED BY <1>1, <1>3 DEF Baked

(* A create takes what the template's row says is there. *)
LEMMA BakeClones ==
  ASSUME BakeInv, NEW h \in BakeHosts,
         (\E n \in BakeNames : Bakes!Template(h, n)) \/ Bakes!Provision(h) \/ Bakes!Resume(h)
  PROVE  BakeInv'
<1>1. BakeTypes /\ BakeFit(h)
  BY DEF BakeInv
<1>2. UNCHANGED <<r1, r2, r3, r4, r5, r6, r7, r8, r11, r12, r13>>
  BY DEF Bakes!Template, Bakes!Provision, Bakes!Resume, Bakes!builds, Bakes!files, Bakes!poll
<1>3. Tasked(r3[h], r2[h])' = Tasked(r3[h], r2[h]) /\ \A n \in BakeNames : Baked(h, n)' = Baked(h, n)
  BY <1>2 DEF Baked
<1>4. \A n : Written(h, n)' = Written(h, n)
  BY <1>2 DEF Written
<1>5. /\ DOMAIN r9' = BakeHosts /\ DOMAIN r10' = BakeHosts
      /\ \A k \in BakeHosts : k # h => r9'[k] = r9[k] /\ r10'[k] = r10[k]
  BY <1>1 DEF Bakes!Template, Bakes!Provision, Bakes!Resume, BakeTypes
<1>6. BakeTypes' /\ OnHost(h)
  BY <1>1, <1>2, <1>5 DEF BakeTypes, OnHost
<1>11. \A c : Standing(h, c)' = Standing(h, c) /\ Outlived(h, c)' = Outlived(h, c)
  BY <1>2 DEF Standing, Outlived
<1>7. ASSUME NEW n \in BakeNames, Bakes!Template(h, n) PROVE Cloned(h)'
  <2>1. PICK c : c = [name |-> n, row |-> r1[h][n], disk |-> 0]
    OBVIOUS
  <2>2. r10' = r10 /\ r9' = [r9 EXCEPT ![h] = c]
    BY <1>7, <2>1 DEF Bakes!Template
  <2>3. r9'[h] = c
    BY <1>1, <2>2 DEF BakeTypes
  <2>4. c.name = n /\ c.row = r1[h][n] /\ c.disk = 0
    BY <2>1
  <2>5. r1[h][n] \in Nat /\ r1[h][n] <= r1[h][n]
    <3>1. r1[h][n] \in Nat
      BY SMTT(60), <1>1 DEF BakeTypes
    <3> QED BY SMTT(60), <3>1
  <2>6. Standing(h, c)
    BY <2>4, <2>5 DEF Standing
  <2> QED BY <1>1, <1>11, <2>2, <2>3, <2>4, <2>6 DEF BakeFit, Cloned
<1>8. ASSUME Bakes!Provision(h) PROVE Cloned(h)'
  <2>1. PICK b, c : /\ b = r9[h] /\ c = [name |-> b.name, row |-> b.row, disk |-> r6[h][b.name]]
    OBVIOUS
  <2>2. r10' = r10 /\ b # Nothing /\ r9' = [r9 EXCEPT ![h] = c]
    BY <1>8, <2>1 DEF Bakes!Provision
  <2>3. r9'[h] = c
    BY <1>1, <2>2 DEF BakeTypes
  <2>4. c.name = b.name /\ c.row = b.row /\ c.disk = r6[h][b.name]
    BY <2>1
  <2>5. Standing(h, b)
    BY <1>1, <2>1, <2>2 DEF BakeFit, Cloned
  <2>6. Standing(h, c)
    BY <2>4, <2>5 DEF Standing, Outlived
  <2>7. Outlived(h, c) \/ c.disk = c.row
    <3>1. Outlived(h, b) \/ r6[h][b.name] = b.row
      BY <1>1, <2>5, StandingFiles
    <3> QED BY <2>4, <3>1 DEF Outlived
  <2> QED BY <1>1, <1>11, <2>2, <2>3, <2>6, <2>7 DEF BakeFit, Cloned
<1>9. ASSUME Bakes!Resume(h) PROVE Cloned(h)'
  <2>1. PICK b, c : /\ b = r9[h]
                    /\ c = [name |-> b.name, row |-> b.row, disk |-> b.disk,
                            vmstate |-> r8[h][b.name]]
    OBVIOUS
  <2>2. /\ b # Nothing /\ b.disk # 0 /\ r9' = [r9 EXCEPT ![h] = Nothing]
        /\ r10' = [r10 EXCEPT ![h] = r10[h] \cup {c}]
    BY <1>9, <2>1 DEF Bakes!Resume
  <2>3. c.name = b.name /\ c.row = b.row /\ c.disk = b.disk /\ c.vmstate = r8[h][b.name]
    BY <2>1
  <2>4. r9'[h] = Nothing /\ r10'[h] = r10[h] \cup {c}
    BY <1>1, <2>2 DEF BakeTypes
  <2>5. Standing(h, b) /\ (Outlived(h, b) \/ b.disk = b.row)
    BY <1>1, <2>1, <2>2 DEF BakeFit, Cloned
  <2>6. Standing(h, c)
    BY <2>3, <2>5 DEF Standing, Outlived
  <2>7. Outlived(h, c) \/ (c.disk = c.row /\ c.vmstate = c.row)
    <3>1. Outlived(h, b) \/ r8[h][b.name] = b.row
      BY <1>1, <2>5, StandingFiles
    <3> QED BY <2>3, <2>5, <3>1 DEF Outlived
  <2> QED BY <1>1, <1>11, <2>4, <2>6, <2>7 DEF BakeFit, Cloned
<1>10. BakeFit(h)'
  BY <1>1, <1>2, <1>3, <1>4, <1>7, <1>8, <1>9 DEF BakeFit
<1> QED BY <1>2, <1>6, <1>10, OneBakeHost
LEMMA BakeStill ==
  ASSUME BakeInv, UNCHANGED <<r1, r2, r3, r4, r5, r6, r7, r8, r9, r10, r13>>
  PROVE  BakeTypes' /\ \A h \in BakeHosts : BakeFit(h)'
<1>1. BakeTypes'
  BY DEF BakeInv, BakeTypes
<1>2. ASSUME NEW h \in BakeHosts PROVE BakeFit(h)'
  <2>1. BakeFit(h)
    BY DEF BakeInv
  <2>2. /\ Tasked(r3[h], r2[h])' = Tasked(r3[h], r2[h])
        /\ \A n : Written(h, n)' = Written(h, n)
    BY DEF Written
  <2>3. \A n \in BakeNames : Baked(h, n)'
    BY <2>1 DEF BakeFit, Baked
  <2>4. Cloned(h)'
    BY <2>1 DEF BakeFit, Cloned, Standing, Outlived
  <2> QED BY <2>1, <2>2, <2>3, <2>4 DEF BakeFit
<1> QED BY <1>1, <1>2

(* isoctl ends well on hosts that all said ready, and some did. *)
LEMMA BakePolls ==
  ASSUME BakeInv, Nothing # "ready",
         (\E n \in BakeNames : Bakes!Wait(n)) \/ (\E h \in BakeHosts : Bakes!Ask(h)) \/ Bakes!Poll
  PROVE  BakeInv'
<1>1. UNCHANGED <<r1, r2, r3, r4, r5, r6, r7, r8, r9, r10, r13>>
  BY DEF Bakes!Wait, Bakes!Ask, Bakes!Poll, Bakes!builds, Bakes!files, Bakes!clones
<1>2. BakeTypes' /\ \A h \in BakeHosts : BakeFit(h)'
  BY <1>1, BakeStill
<1>3. ASSUME NEW n \in BakeNames, Bakes!Wait(n) PROVE Polled'
  <2>1. r11.state = "idle" /\ r11' = [name |-> n, state |-> "polling"] /\ r12' = r12
    BY <1>3 DEF Bakes!Wait
  <2>2. r11'.name = n /\ r11'.state = "polling"
    BY <2>1
  <2> QED BY <1>1, <2>1, <2>2 DEF BakeInv, Polled
<1>4. ASSUME NEW h \in BakeHosts, Bakes!Ask(h) PROVE Polled'
  <2>1. PICK a \in {r2[h][r11.name], "unknown"} :
          r11.state = "polling" /\ r12' = [r12 EXCEPT ![h] = a] /\ r11' = r11
    BY <1>4 DEF Bakes!Ask
  <2>2. r11.state # "idle" /\ r11.state # "ok"
    BY <2>1
  <2>3. r11.name \in BakeNames /\ r12 \in [BakeHosts -> Said \cup {"unknown", Nothing}]
    BY <2>2 DEF BakeInv, Polled
  <2>4. a \in Said \cup {"unknown"} /\ (a = "ready" => r1[h][r11.name] # 0)
    <3>1. r2[h][r11.name] \in Said /\ Baked(h, r11.name)
      BY <2>3 DEF BakeInv, BakeTypes, BakeFit
    <3> QED BY <2>1, <3>1 DEF Baked
  <2>5. r12' \in [BakeHosts -> Said \cup {"unknown", Nothing}]
    BY <2>1, <2>3, <2>4
  <2>6. \A k \in BakeHosts : r12'[k] = "ready" => r1[k][r11.name] # 0
    BY <2>1, <2>2, <2>3, <2>4 DEF BakeInv, Polled
  <2> QED BY <1>1, <2>1, <2>2, <2>3, <2>5, <2>6 DEF Polled
<1>5. ASSUME Bakes!Poll PROVE Polled'
  <2>1. r11.state = "polling" /\ \A h \in BakeHosts : r12[h] # Nothing
    BY <1>5 DEF Bakes!Poll
  <2>2. /\ r11.name \in BakeNames /\ r12 \in [BakeHosts -> Said \cup {"unknown", Nothing}]
        /\ \A h \in BakeHosts : r12[h] = "ready" => r1[h][r11.name] # 0
    BY <2>1 DEF BakeInv, Polled
  <2>3. CASE Bakes!Whole = "ready" /\ r11' = [name |-> r11.name, state |-> "ok"] /\ r12' = r12
    <3>1. \E h \in BakeHosts : r12[h] = "ready"
      BY SMTT(60), <2>1, <2>2, <2>3 DEF Bakes!Whole, Said
    <3>2. r11'.name = r11.name /\ r11'.state = "ok"
      BY <2>3
    <3> QED BY <1>1, <2>2, <2>3, <3>1, <3>2 DEF Polled
  <2>4. CASE r11' = [name |-> r11.name, state |-> "err"] /\ r12' = r12
    <3>1. r11'.name = r11.name /\ r11'.state = "err"
      BY <2>4
    <3> QED BY <1>1, <2>2, <2>4, <3>1 DEF Polled
  <2>5. CASE r11' = r11 /\ r12' = [h \in BakeHosts |-> Nothing]
    BY <1>1, <2>1, <2>2, <2>5 DEF Polled
  <2> QED BY <1>5, <2>3, <2>4, <2>5 DEF Bakes!Poll
<1> QED BY <1>1, <1>2, <1>3, <1>4, <1>5 DEF BakeInv

LEMMA BakeNext ==
  ASSUME Nothing # "ready", BakeInv, [Bakes!Next]_(Bakes!vars)
  PROVE  BakeInv'
<1>1. ASSUME NEW h \in BakeHosts, NEW n \in BakeNames, NEW force \in BOOLEAN,
             NEW readable \in BOOLEAN, Bakes!Start(h, n, force, readable)
      PROVE  BakeInv'
  BY <1>1, BakeStarts
<1>2. ASSUME NEW h \in BakeHosts, Bakes!Lane(h) PROVE BakeInv'
  BY <1>2, BakeLane
<1>3. ASSUME NEW h \in BakeHosts,
             Bakes!Install(h) \/ Bakes!BootBuilder(h) \/ Bakes!CopyMem(h) \/ Bakes!CopyVmstate(h)
      PROVE  BakeInv'
  BY <1>3, BakeWrites
<1>4. ASSUME UNCHANGED Bakes!vars PROVE BakeInv'
  <2>1. UNCHANGED <<r1, r2, r3, r4, r5, r6, r7, r8, r9, r10, r11, r12, r13>>
    BY <1>4 DEF Bakes!vars, Bakes!builds, Bakes!files, Bakes!clones, Bakes!poll
  <2>2. Polled'
    BY <2>1 DEF BakeInv, Polled
  <2> QED BY <2>1, <2>2, BakeStill DEF BakeInv
<1> QED BY <1>1, <1>2, <1>3, <1>4, BakeFinishes, BakeRestarts, BakeClones, BakePolls DEF Bakes!Next

(* A build under way has one task on its host and any other none           *)
(* (BuildManager::start, run, and a restart between them); isoctl's wait   *)
(* ends well only on hosts that have the template to create from           *)
(* (wait_for); and a clone runs on the volume, the memory and the VM state *)
(* of the bake registered when its create began (bake_inner), as long as   *)
(* no build of that name was forced, or asked for while the store could    *)
(* not be read, since that bake: for every set of hosts and names, and any *)
(* number of bakes, forced ones included, restarts and creates.            *)
THEOREM BuildsWholeHolds ==
  ASSUME Nothing # "ready"
  PROVE  PartsSpec => []BuildsWhole
<1> DEFINE Inv == part = "bakes" => BakeInv
<1>1. PartsInit => Inv
  BY BakeInit DEF PartsInit
<1>2. Inv /\ [PartsNext]_PartsVars => Inv'
  BY OnePart, BakeNext
<1>3. Inv => BuildsWhole
  <2> SUFFICES ASSUME BakeInv
               PROVE  Bakes!OneTaskPerBuild /\ Bakes!ReadyIsUsable /\ Bakes!CloneWhole
    BY DEF BuildsWhole
  <2>1. ASSUME NEW h \in BakeHosts, NEW n \in BakeNames,
               NEW tasks, tasks = {i \in DOMAIN r3[h] : r3[h][i] = n}
        PROVE  IF r2[h][n] = "building" THEN \E i \in DOMAIN r3[h] : tasks = {i} ELSE tasks = {}
    <3>1. Tasked(r3[h], r2[h])
      BY DEF BakeInv, BakeFit
    <3>2. CASE r2[h][n] = "building"
      <4>1. PICK i \in DOMAIN r3[h] : r3[h][i] = n
        BY <3>1, <3>2 DEF Tasked, Queued
      <4>2. \A j \in DOMAIN r3[h] : r3[h][j] = n => j = i
        BY <3>1, <4>1 DEF Tasked, Once
      <4>3. tasks = {i}
        BY <2>1, <4>1, <4>2
      <4> QED BY <3>2, <4>3
    <3>3. CASE r2[h][n] # "building"
      <4>1. n \notin Queued(r3[h])
        BY <3>1, <3>3 DEF Tasked
      <4> QED BY <2>1, <3>3, <4>1 DEF Queued
    <3> QED BY <3>2, <3>3
  <2>2. Bakes!OneTaskPerBuild
    BY <2>1 DEF Bakes!OneTaskPerBuild
  <2>3. Bakes!ReadyIsUsable
    BY DEF BakeInv, Polled, Bakes!ReadyIsUsable
  <2>4. ASSUME NEW h \in BakeHosts, NEW c \in r10[h], c.row > r13[h][c.name]
        PROVE  c.disk = c.row /\ c.vmstate = c.row /\ r7[h][c.name] = c.row
    <3>1. BakeTypes /\ BakeFit(h)
      BY DEF BakeInv
    <3>2. Standing(h, c) /\ (Outlived(h, c) \/ (c.disk = c.row /\ c.vmstate = c.row))
      BY <3>1 DEF BakeFit, Cloned
    <3>3. c.row \in Nat /\ r13[h][c.name] \in Nat
      BY <3>1, <3>2 DEF Standing, BakeTypes
    <3>4. ~(c.row <= r13[h][c.name])
      BY SMTT(60), <2>4, <3>3
    <3>5. ~Outlived(h, c)
      BY <3>4 DEF Outlived
    <3> QED BY <3>1, <3>2, <3>5, StandingFiles
  <2>5. Bakes!CloneWhole
    BY <2>4 DEF Bakes!CloneWhole
  <2> QED BY <2>2, <2>3, <2>5
<1> QED BY <1>1, <1>2, <1>3, PTL DEF PartsSpec

-----------------------------------------------------------------------------
(***************************************************************************)
(* VmLocks: the map's entry is r1, the locks made r2, the record r3, asked *)
(* r4 and the operations r5.  Until the record is first removed, every     *)
(* operation has the lock of the map, so they act one at a time; the only  *)
(* create acts by the time there is a record.  From then on there is no    *)
(* record and no create to make one, so nothing acts, whatever locks the   *)
(* late operations are given.                                              *)
(***************************************************************************)
LockOp == [kind : VmLocks!Kinds, at : {"waits", "acts"}, lock : 1 .. MaxLocks]

Creating(o) == r5[o] # Nothing /\ r5[o].kind = "create"

LockTypes ==
  /\ r1 \in Nat /\ r2 \in Nat /\ r3 \in BOOLEAN /\ r4 \in BOOLEAN
  /\ r5 \in [Ops -> LockOp \cup {Nothing}]

(* Before a record was removed, and after. *)
OneLock ==
  /\ \A o \in Ops : r5[o] # Nothing => r5[o].lock = r1
  /\ \A o, p \in Ops : VmLocks!Is(o, "acts") /\ VmLocks!Is(p, "acts") => o = p
  /\ \A o \in Ops : VmLocks!Is(o, "acts") => r3 = TRUE
  /\ \A o, p \in Ops : Creating(o) /\ Creating(p) => o = p
  /\ \A o \in Ops : Creating(o) => r4 = TRUE
  /\ r3 = TRUE => r4 = TRUE /\ \A o \in Ops : Creating(o) => VmLocks!Is(o, "acts")

NoneActs ==
  /\ r3 = FALSE /\ r4 = TRUE
  /\ \A o \in Ops : ~Creating(o) /\ ~VmLocks!Is(o, "acts")

LockInv == LockTypes /\ (OneLock \/ NoneActs)

LEMMA LockInit ==
  ASSUME VmLocks!Init
  PROVE  LockInv
<1>1. r3 \in BOOLEAN /\ r4 \in BOOLEAN
  BY DEF VmLocks!Init
<1>2. r5 = [o \in Ops |-> Nothing] /\ r1 = 0 /\ r2 = 0 /\ r3 = FALSE
  BY DEF VmLocks!Init
<1>3. LockTypes
  BY <1>1, <1>2 DEF LockTypes
<1> QED BY <1>2, <1>3 DEF LockInv, OneLock, Creating, VmLocks!Is

(* An operation that ends leaves the others as they were. *)
LEMMA LockEnds ==
  ASSUME LockInv, NEW o \in Ops, r5' = [r5 EXCEPT ![o] = Nothing], UNCHANGED <<r1, r2, r3, r4>>
  PROVE  LockInv'
<1>1. LockTypes'
  BY DEF LockInv, LockTypes
<1>2. \A p \in Ops : r5'[p] = r5[p] \/ r5'[p] = Nothing
  BY DEF LockInv, LockTypes
<1>3. CASE OneLock
  <2>1. \A p \in Ops : r5'[p] # Nothing => r5'[p] = r5[p]
    BY <1>2
  <2>2. \A p \in Ops : r5'[p] # Nothing => r5'[p].lock = r1'
    BY <1>3, <2>1 DEF OneLock
  <2>3. \A p \in Ops : VmLocks!Is(p, "acts")' <=> r5'[p] # Nothing /\ VmLocks!Is(p, "acts")
    BY <2>1 DEF VmLocks!Is
  <2>4. \A p \in Ops : Creating(p)' <=> r5'[p] # Nothing /\ Creating(p)
    BY <2>1 DEF Creating
  <2>5. /\ \A p, q \in Ops : VmLocks!Is(p, "acts")' /\ VmLocks!Is(q, "acts")' => p = q
        /\ \A p \in Ops : VmLocks!Is(p, "acts")' => r3' = TRUE
        /\ \A p, q \in Ops : Creating(p)' /\ Creating(q)' => p = q
        /\ \A p \in Ops : Creating(p)' => r4' = TRUE
    BY <1>3, <2>3, <2>4 DEF OneLock
  <2>6. r3' = TRUE => r4' = TRUE /\ \A p \in Ops : Creating(p)' => VmLocks!Is(p, "acts")'
    BY <1>3, <2>3, <2>4 DEF OneLock
  <2> QED BY <1>1, <2>2, <2>5, <2>6 DEF OneLock, LockInv
<1>4. CASE NoneActs
  BY <1>2, <1>4, <1>1 DEF NoneActs, Creating, VmLocks!Is, LockInv
<1> QED BY <1>3, <1>4 DEF LockInv

LEMMA LockCall ==
  ASSUME Comes = FALSE, LockInv, NEW o \in Ops, NEW kind \in VmLocks!Kinds,
         VmLocks!Call(o, kind)
  PROVE  LockInv'
<1>1. PICK lock \in 1 .. MaxLocks :
        /\ lock = IF r1 = 0 THEN r2 + 1 ELSE r1
        /\ r1' = lock
        /\ r2' = IF lock > r2 THEN lock ELSE r2
        /\ r5' = [r5 EXCEPT ![o] = [kind |-> kind, at |-> "waits", lock |-> lock]]
  BY DEF VmLocks!Call, VmLocks!VmLock
<1>2. /\ r5[o] = Nothing /\ (kind = "create" => r4 = FALSE)
      /\ r4' \in BOOLEAN /\ (r4' = TRUE <=> r4 = TRUE \/ kind = "create") /\ r3' = r3
  BY DEF VmLocks!Call, LockInv, LockTypes
<1> DEFINE new == [kind |-> kind, at |-> "waits", lock |-> lock]
<1>3. new \in LockOp /\ new.kind = kind /\ new.at = "waits" /\ new.lock = lock
  BY DEF LockOp
<1> HIDE DEF new
<1>4. \A p \in Ops : r5'[p] = IF p = o THEN new ELSE r5[p]
  BY <1>1 DEF LockInv, LockTypes, new
<1>5. LockTypes'
  BY SMTT(60), <1>1, <1>2, <1>3 DEF LockInv, LockTypes, new
<1>6. \A p \in Ops : r5[p] # Nothing => r5[p].lock # 0
  BY SMTT(60) DEF LockInv, LockTypes, LockOp
<1>7. CASE OneLock
  <2>1. \A p \in Ops : r5[p] # Nothing => r5[p].lock = lock
    BY <1>1, <1>6, <1>7 DEF OneLock
  <2>2. \A p \in Ops : r5'[p] # Nothing => r5'[p].lock = r1'
    BY <1>1, <1>3, <1>4, <2>1
  <2>3. \A p \in Ops : VmLocks!Is(p, "acts")' <=> p # o /\ VmLocks!Is(p, "acts")
    BY <1>2, <1>3, <1>4 DEF VmLocks!Is
  <2>4. \A p \in Ops : Creating(p)' => (p = o /\ kind = "create") \/ (p # o /\ Creating(p))
    BY <1>3, <1>4 DEF Creating
  <2>5. kind = "create" => \A p \in Ops : ~Creating(p)
    BY <1>2, <1>7 DEF OneLock
  <2>6. /\ \A p, q \in Ops : VmLocks!Is(p, "acts")' /\ VmLocks!Is(q, "acts")' => p = q
        /\ \A p \in Ops : VmLocks!Is(p, "acts")' => r3' = TRUE
    BY <1>2, <1>7, <2>3 DEF OneLock
  <2>7. /\ \A p, q \in Ops : Creating(p)' /\ Creating(q)' => p = q
        /\ \A p \in Ops : Creating(p)' => r4' = TRUE
    BY <1>2, <1>7, <2>4, <2>5 DEF OneLock
  <2>8. r3' = TRUE => r4' = TRUE /\ \A p \in Ops : Creating(p)' => VmLocks!Is(p, "acts")'
    BY <1>2, <1>7, <2>3, <2>4, <2>5 DEF OneLock
  <2> QED BY <1>5, <2>2, <2>6, <2>7, <2>8 DEF OneLock, LockInv
<1>8. CASE NoneActs
  BY <1>2, <1>3, <1>4, <1>5, <1>8 DEF NoneActs, Creating, VmLocks!Is, LockInv
<1> QED BY <1>7, <1>8 DEF LockInv

LEMMA LockEnter ==
  ASSUME LockInv, NEW o \in Ops, VmLocks!Enter(o)
  PROVE  LockInv'
<1>1. UNCHANGED <<r1, r2, r4>> /\ VmLocks!Is(o, "waits")
  BY DEF VmLocks!Enter
<1>2. CASE r5' = [r5 EXCEPT ![o] = Nothing] /\ UNCHANGED r3
  BY <1>1, <1>2, LockEnds
<1>3. CASE /\ r3 = ~(r5[o].kind = "create")
           /\ r5' = [r5 EXCEPT ![o].at = "acts"] /\ r3' = TRUE
  <2>1. r5[o] \in LockOp
    BY <1>1 DEF LockInv, LockTypes, VmLocks!Is
  <2>2. /\ r5'[o] \in LockOp /\ r5'[o].kind = r5[o].kind /\ r5'[o].lock = r5[o].lock
        /\ r5'[o].at = "acts"
    BY <1>3, <2>1 DEF LockInv, LockTypes, LockOp
  <2>3. \A p \in Ops : p # o => r5'[p] = r5[p]
    BY <1>3 DEF LockInv, LockTypes
  <2>4. LockTypes'
    BY <1>1, <1>3, <2>1 DEF LockInv, LockTypes, LockOp
  <2>5. CASE NoneActs
    BY <1>1, <1>3, <2>5 DEF NoneActs, Creating, VmLocks!Is
  <2>6. CASE OneLock
    <3>1. \A p \in Ops : ~VmLocks!Is(p, "acts")
      BY <1>1, <2>6 DEF VmLocks!Enter, OneLock, VmLocks!Is
    <3>2. \A p \in Ops : VmLocks!Is(p, "acts")' => p = o
      BY <2>3, <3>1 DEF VmLocks!Is
    <3>3. \A p \in Ops : Creating(p)' => Creating(p)
      BY <1>1, <2>2, <2>3 DEF Creating, VmLocks!Is
    <3>4. \A p \in Ops : Creating(p) => p = o /\ r4 = TRUE
      BY <1>1, <1>3, <2>6, <3>1 DEF OneLock, Creating, VmLocks!Is
    <3>5. r4 = TRUE
      BY <1>1, <1>3, <2>6, <3>4 DEF OneLock, Creating, VmLocks!Is
    <3>6. \A p \in Ops : r5'[p] # Nothing => r5'[p].lock = r1'
      BY <1>1, <2>2, <2>3, <2>6 DEF OneLock, VmLocks!Is
    <3>7. Creating(o)' => VmLocks!Is(o, "acts")'
      BY <2>2 DEF Creating, VmLocks!Is
    <3> QED BY <1>1, <1>3, <2>4, <3>2, <3>3, <3>4, <3>5, <3>6, <3>7 DEF LockInv, OneLock
  <2> QED BY <2>5, <2>6 DEF LockInv
<1> QED BY <1>2, <1>3 DEF VmLocks!Enter

(* The operation that removes the record is the only one that acts, and the *)
(* create that made it is over, or is this one.                             *)
LEMMA LockRemove ==
  ASSUME StoreFails = FALSE, LockInv, NEW o \in Ops, VmLocks!Remove(o)
  PROVE  LockInv'
<1>1. /\ VmLocks!Is(o, "acts") /\ r3' = FALSE /\ r1' = 0 /\ UNCHANGED <<r2, r4>>
      /\ r5' = [r5 EXCEPT ![o] = Nothing]
  BY DEF VmLocks!Remove
<1>2. OneLock
  BY <1>1 DEF LockInv, NoneActs
<1>3. \A p \in Ops : p # o => r5'[p] = r5[p]
  BY <1>1 DEF LockInv, LockTypes
<1>4. r5'[o] = Nothing /\ LockTypes'
  BY <1>1 DEF LockInv, LockTypes
<1>5. \A p \in Ops : p # o => ~VmLocks!Is(p, "acts") /\ ~Creating(p)
  BY <1>1, <1>2 DEF OneLock
<1>6. r4 = TRUE
  BY <1>1, <1>2 DEF OneLock
<1>7. NoneActs'
  BY <1>1, <1>3, <1>4, <1>5, <1>6 DEF NoneActs, Creating, VmLocks!Is
<1> QED BY <1>4, <1>7 DEF LockInv

LEMMA LockNext ==
  ASSUME Comes = FALSE, StoreFails = FALSE, LockInv, [VmLocks!Next]_(VmLocks!vars)
  PROVE  LockInv'
<1>1. ASSUME NEW o \in Ops, NEW kind \in VmLocks!Kinds, VmLocks!Call(o, kind) PROVE LockInv'
  BY <1>1, LockCall
<1>2. ASSUME NEW o \in Ops, VmLocks!Enter(o) PROVE LockInv'
  BY <1>2, LockEnter
<1>3. ASSUME NEW o \in Ops, VmLocks!Leave(o) \/ VmLocks!GoAway(o) PROVE LockInv'
  BY <1>3, LockEnds DEF VmLocks!Leave, VmLocks!GoAway
<1>4. ASSUME NEW o \in Ops, VmLocks!Remove(o) PROVE LockInv'
  BY <1>4, LockRemove
<1>5. CASE UNCHANGED VmLocks!vars
  BY <1>5 DEF VmLocks!vars, LockInv, LockTypes, OneLock, NoneActs, Creating, VmLocks!Is
<1> QED BY <1>1, <1>2, <1>3, <1>4, <1>5 DEF VmLocks!Next

INSTANCE FiniteSetTheorems

(* The instance's cardinality is the library's. *)
LEMMA LockCardinality == \A S : VmLocks!Cardinality(S) = Cardinality(S)
BY Zenon DEF VmLocks!Cardinality, Cardinality

(* No two operations act on a VM's record at a time, though the lock they  *)
(* queue on is forgotten meanwhile and another made, for any operations in *)
(* flight: so long as an id never comes again and the rollback of a create *)
(* deletes its record (vm_lock and forget_lock).                           *)
THEOREM OneActorHolds ==
  ASSUME Comes = FALSE, StoreFails = FALSE
  PROVE  PartsSpec => []OneActor
<1> DEFINE Inv == part = "locks" => LockInv
<1>1. PartsInit => Inv
  BY LockInit DEF PartsInit
<1>2. Inv /\ [PartsNext]_PartsVars => Inv'
  BY OnePart, LockNext
<1>3. Inv => OneActor
  <2> SUFFICES ASSUME LockInv PROVE VmLocks!OneActor
    BY DEF OneActor
  <2> DEFINE acting == {o \in Ops : VmLocks!Is(o, "acts")}
  <2>1. \A o, p \in acting : o = p
    BY DEF LockInv, OneLock, NoneActs
  <2>2. CASE acting = {}
    <3>1. Cardinality(acting) = 0
      BY <2>2, FS_EmptySet
    <3> QED BY SMTT(60), <3>1, LockCardinality DEF VmLocks!OneActor
  <2>3. CASE acting # {}
    <3>1. PICK o : acting = {o}
      BY <2>1, <2>3
    <3>2. Cardinality({o}) = 1
      BY FS_Singleton
    <3> QED BY SMTT(60), <3>1, <3>2, LockCardinality DEF VmLocks!OneActor
  <2> QED BY <2>2, <2>3
<1> QED BY <1>1, <1>2, <1>3, PTL DEF PartsSpec

-----------------------------------------------------------------------------
(***************************************************************************)
(* JailSettings: the operator's settings are r1 and the host's controllers *)
(* r2.  The base that id_base settles on leaves room for every slot below  *)
(* the largest identity, so the saturating addition is an addition.        *)
(***************************************************************************)
Identities ==
  /\ IdMax \in Nat /\ SlotMax \in Nat /\ DefaultBase \in Nat
  /\ DefaultBase + SlotMax <= IdMax
  /\ Nothing \notin Int /\ Disabled \notin Int

LEMMA JailCardinality == \A S : JailSettings!Cardinality(S) = Cardinality(S)
BY Zenon DEF JailSettings!Cardinality, Cardinality

LEMMA BaseLeavesRoom ==
  ASSUME Identities, JailSettings!Init, JailSettings!IdBase(r1.base, r1.pinned) # Nothing
  PROVE  /\ JailSettings!IdBase(r1.base, r1.pinned) \in Nat
         /\ JailSettings!IdBase(r1.base, r1.pinned) + SlotMax <= IdMax
<1>1. r1.base \in {Nothing, Disabled} \cup 0 .. (IdMax + 1)
  BY DEF JailSettings!Init
<1> QED BY SMTT(60), <1>1 DEF Identities, JailSettings!IdBase

LEMMA IdentitiesApart ==
  ASSUME Identities, JailSettings!Init
  PROVE  JailSettings!IdentityPerSlot
<1> DEFINE base == JailSettings!IdBase(r1.base, r1.pinned)
<1> SUFFICES ASSUME base # Nothing
             PROVE  /\ JailSettings!Cardinality({JailSettings!Identity(s) : s \in 0 .. SlotMax})
                         = SlotMax + 1
                    /\ \A s \in 0 .. SlotMax : JailSettings!Identity(s) <= IdMax
  BY DEF JailSettings!IdentityPerSlot
<1>1. base \in Nat /\ base + SlotMax <= IdMax
  BY BaseLeavesRoom
<1> HIDE DEF base
<1>2. \A s \in 0 .. SlotMax : JailSettings!Identity(s) = base + s
  <2> TAKE s \in 0 .. SlotMax
  <2>1. s # Nothing /\ base + s <= IdMax /\ base + s \in Nat
    BY SMTT(60), <1>1 DEF Identities
  <2>2. JailSettings!Identity(s) = JailSettings!Saturate(base + s)
    BY <2>1 DEF JailSettings!Identity, base
  <2> QED BY SMTT(60), <2>1, <2>2 DEF JailSettings!Saturate, Identities
<1>3. {JailSettings!Identity(s) : s \in 0 .. SlotMax} = base .. (base + SlotMax)
  <2>1. {JailSettings!Identity(s) : s \in 0 .. SlotMax} = {base + s : s \in 0 .. SlotMax}
    BY <1>2
  <2>2. \A n \in base .. (base + SlotMax) : n - base \in 0 .. SlotMax /\ n = base + (n - base)
    BY SMTT(60), <1>1 DEF Identities
  <2>3. \A s \in 0 .. SlotMax : base + s \in base .. (base + SlotMax)
    BY SMTT(60), <1>1 DEF Identities
  <2>4. {base + s : s \in 0 .. SlotMax} = base .. (base + SlotMax)
    BY <2>2, <2>3
  <2> QED BY <2>1, <2>4
<1>4. Cardinality(base .. (base + SlotMax)) = SlotMax + 1
  <2>1. base \in Int /\ base + SlotMax \in Int /\ ~(base > base + SlotMax)
        /\ (base + SlotMax) - base + 1 = SlotMax + 1
    BY SMTT(60), <1>1 DEF Identities
  <2> QED BY <2>1, FS_Interval
<1>5. \A s \in 0 .. SlotMax : base + s <= IdMax
  BY SMTT(60), <1>1 DEF Identities
<1> QED BY <1>2, <1>3, <1>4, <1>5, JailCardinality

LEMMA OverlayFields ==
  \A base, over : /\ JailSettings!Overlay(base, over).derived = base \ JailSettings!Keys(over)
                  /\ JailSettings!Overlay(base, over).given = over
BY DEF JailSettings!Overlay

LEMMA SettingsLaid ==
  ASSUME JailSettings!Init
  PROVE  JailSettings!SettingsDerived
<1>1. /\ JailSettings!Cgroups.derived
           = JailSettings!DerivedCgroups \ JailSettings!Keys(r1.cgroups)
      /\ JailSettings!Rlimits.derived
           = JailSettings!DerivedRlimits \ JailSettings!Keys(r1.rlimits)
      /\ JailSettings!Cgroups.given = r1.cgroups /\ JailSettings!Rlimits.given = r1.rlimits
  BY OverlayFields DEF JailSettings!Cgroups, JailSettings!Rlimits
<1>2. JailSettings!DerivedCgroups =
        {k \in JailSettings!Controllers : JailSettings!Looked /\ r2 # Nothing /\ k \in r2}
  <2>1. CASE ~JailSettings!Looked
    BY <2>1 DEF JailSettings!DerivedCgroups, JailSettings!Looked
  <2>2. CASE JailSettings!Looked
    <3>1. JailSettings!DerivedCgroups = JailSettings!Controllers \cap JailSettings!Offered
      BY <2>2 DEF JailSettings!DerivedCgroups, JailSettings!Looked, JailSettings!Derived
    <3>2. JailSettings!Offered = IF r2 = Nothing THEN {} ELSE r2
      BY <2>2 DEF JailSettings!Offered
    <3> QED BY <2>2, <3>1, <3>2
  <2> QED BY <2>1, <2>2
<1>3. JailSettings!Rlimits.derived =
        IF JailSettings!DefaultLimits /\ "no-file" \notin JailSettings!Keys(r1.rlimits)
        THEN {"no-file"} ELSE {}
  BY <1>1 DEF JailSettings!DerivedRlimits
<1> QED BY <1>1, <1>2, <1>3 DEF JailSettings!SettingsDerived

(* No two slots' VMMs share a uid and none is past the last, whatever base *)
(* the operator sets, for every number of slots and width of a uid that    *)
(* the default base leaves room in (id_base, identity); and what is        *)
(* derived for the jailer is what the host offers and the operator left    *)
(* alone, beside the operator's own entries as they are (limits, overlay). *)
THEOREM JailsApartHolds ==
  ASSUME Identities
  PROVE  PartsSpec => []JailsApart
<1> DEFINE Inv == part = "jailSettings" => JailSettings!Init
<1>1. PartsInit => Inv
  BY DEF PartsInit
<1>2. Inv /\ [PartsNext]_PartsVars => Inv'
  BY OnePart DEF JailSettings!Next, JailSettings!vars, JailSettings!Init
<1>3. Inv => JailsApart
  BY IdentitiesApart, SettingsLaid DEF JailsApart
<1> QED BY <1>1, <1>2, <1>3, PTL DEF PartsSpec

=============================================================================
