--------------------------- MODULE Delivery_proofs --------------------------
(***************************************************************************)
(* Proofs about Delivery, for every number of devices, of concurrent       *)
(* invocations, of key server instances and of rotations.                  *)
(***************************************************************************)
EXTENDS Delivery, FiniteSetTheorems, TLAPS

LEMMA IdleTyped == Idle \in Invocation /\ Idle.pc = "idle"
  BY DEF Idle, Invocation, Pcs, RegisterPcs, NoWrap, Wrapped

(* Worker w goes on as r, and no other moves.                              *)
LEMMA Moves ==
    ASSUME TypeOK, NEW w \in Workers, NEW r \in Invocation, Become(w, r)
    PROVE  /\ inv' \in [Workers -> Invocation]
           /\ inv'[w] = r
           /\ \A u \in Workers \ {w} : inv'[u] = inv[u]
  BY DEF TypeOK, Become

LEMMA MasterTyped ==
    ASSUME TypeOK, NEW i \in Instances
    PROVE  /\ MasterOf(i) \in Masters
           /\ Load(i) => cache' \in [Instances -> Masters \cup {0}] /\ secret' = secret
<1>1. MasterOf(i) \in Masters
  BY DEF TypeOK, MasterOf
<1> QED
  BY <1>1 DEF TypeOK, Load

LEMMA Setup ==
    ASSUME Init
    PROVE  TypeOK /\ DeliveryInv
<1>1. TypeOK
  BY IdleTyped, DeliveryAssumption DEF Init, TypeOK, Masters, Package, Pending, NoWrap, Wrapped
<1>2. \A w \in Workers : inv[w].pc = "idle"
  BY IdleTyped DEF Init
<1>3. Joining = {}
  BY <1>2 DEF Joining, At
<1>4. CanaryRoom
  BY <1>3, FS_EmptySet DEF Init, CanaryRoom
<1>5. FirstAlone /\ OneGroup
  BY <1>2 DEF Init, FirstAlone, OneGroup, Registering, RegisterPcs
<1>6. KeysMatch /\ JobOpens
  <2>1. \A w \in Workers : KeyHeld(inv[w])
    BY DEF Init, KeyHeld, Idle
  <2> QED
    BY <2>1 DEF Init, KeysMatch, JobOpens, Pending, NoWrap
<1> QED
  BY <1>1, <1>4, <1>5, <1>6 DEF DeliveryInv

----------------------------------------------------------------------------
(* The keys                                                                *)

(* A handler that moves on with a key, and leaves the row as it is.        *)
LEMMA KeysKept ==
    ASSUME TypeOK, KeysMatch, JobOpens, NEW w \in Workers, NEW r \in Invocation,
           Become(w, r), KeyHeld(r), UNCHANGED pkg
    PROVE  KeysMatch'
  BY Moves DEF KeysMatch, KeyHeld

(* An invocation that holds no key.                                        *)
Keyless(i) == i.pc \in {"idle", "put", "restore", "read"} \cup RegisterPcs

LEMMA IdleKeyless == Keyless(Idle)
  BY DEF Keyless, Idle

LEMMA KeylessHeld == ASSUME NEW i, Keyless(i) PROVE KeyHeld(i)
  BY DEF Keyless, KeyHeld, RegisterPcs

(* A step of a handler that touches neither the row, nor the key server,   *)
(* nor the jobs: registration, and every handler that ends.                *)
LEMMA KeylessStep ==
    ASSUME TypeOK, KeysMatch, JobOpens, NEW w \in Workers, NEW r \in Invocation,
           Become(w, r), Keyless(r),
           thing' \subseteq Devices, canary' \subseteq Devices,
           production' \subseteq Devices, twice' \subseteq Devices,
           UNCHANGED <<keys, catalog, docs>>
    PROVE  (TypeOK /\ KeysMatch /\ JobOpens)'
<1>1. UNCHANGED <<secret, cache, pkg, made, docs>>
  BY DEF keys, catalog
<1> QED
  BY <1>1, Moves, KeylessHeld, KeysKept DEF TypeOK, JobOpens

LEMMA EndStep ==
    ASSUME TypeOK, KeysMatch, JobOpens, NEW w \in Workers, Return(w),
           UNCHANGED <<fleet, keys, catalog, docs>>
    PROVE  (TypeOK /\ KeysMatch /\ JobOpens)'
<1>1. Keyless(Idle) /\ Become(w, Idle)
  BY IdleKeyless DEF Return
<1>2. UNCHANGED <<thing, canary, production, twice>>
  BY DEF fleet
<1> QED
  BY <1>1, <1>2, IdleTyped, KeylessStep DEF TypeOK

(* A handler that writes the row, with an object and its own key, and ends. *)
LEMMA RowStep ==
    ASSUME TypeOK, KeysMatch, JobOpens, NEW w \in Workers, Return(w),
           UNCHANGED <<fleet, keys, made, docs>>,
           pkg' \in Package, pkg'.wrapped.key = pkg'.enc
    PROVE  (TypeOK /\ KeysMatch /\ JobOpens)'
<1>1. Become(w, Idle) /\ KeyHeld(Idle)
  BY IdleKeyless, KeylessHeld DEF Return
<1>2. UNCHANGED <<thing, canary, production, twice, secret, cache, made, docs>>
  BY DEF fleet, keys
<1> QED
  BY <1>1, <1>2, IdleTyped, Moves DEF TypeOK, KeysMatch, KeyHeld, JobOpens

LEMMA KeysStep ==
    ASSUME TypeOK, KeysMatch, FirstAlone, JobOpens, [Next]_vars
    PROVE  (TypeOK /\ KeysMatch /\ JobOpens)'
<1> DEFINE Good == TypeOK /\ KeysMatch /\ JobOpens
<1> USE DEF fleet, keys, catalog
<1>1. CASE UNCHANGED vars
  BY <1>1 DEF vars, TypeOK, KeysMatch, KeyHeld, JobOpens, At
<1>2. ASSUME NEW w \in Workers, NEW d \in Devices, RegisterStart(w, d)
      PROVE  Good'
  <2> DEFINE r == [Idle EXCEPT !.pc = "update", !.dev = d, !.first = d \notin thing]
  <2>1. r \in Invocation /\ Keyless(r)
    BY DEF Idle, Invocation, Pcs, RegisterPcs, NoWrap, Wrapped, Keyless
  <2>2. Become(w, r) /\ UNCHANGED <<thing, canary, production, keys, catalog, docs>>
        /\ twice' \subseteq Devices
    BY <1>2 DEF RegisterStart, TypeOK
  <2> HIDE DEF r
  <2> QED
    BY <2>1, <2>2, KeylessStep DEF TypeOK
<1>3. ASSUME NEW w \in Workers,
             RegisterUpdate(w) \/ CountCanary(w) \/ JoinGroup(w) \/ EndEarly(w)
      PROVE  Good'
  <2>1. inv[w] \in Invocation
    BY DEF TypeOK
  <2>2. [inv[w] EXCEPT !.pc = "count"] \in Invocation /\ Keyless([inv[w] EXCEPT !.pc = "count"])
    BY <2>1 DEF Invocation, Pcs, RegisterPcs, Keyless
  <2>3. \A g \in {"canary", "production"} :
          /\ [inv[w] EXCEPT !.pc = "join", !.group = g] \in Invocation
          /\ Keyless([inv[w] EXCEPT !.pc = "join", !.group = g])
    BY <2>1 DEF Invocation, Pcs, RegisterPcs, Keyless
  <2>4. Idle \in Invocation /\ Keyless(Idle)
    BY IdleTyped, IdleKeyless
  <2>5. PICK r \in Invocation : Keyless(r) /\ Become(w, r)
    BY <1>3, <2>2, <2>3, <2>4
    DEF RegisterUpdate, CountCanary, JoinGroup, EndEarly, Return
  <2>6. UNCHANGED <<keys, catalog, docs>>
    BY <1>3 DEF RegisterUpdate, CountCanary, JoinGroup, EndEarly
  <2>7. At(w, "update") \/ At(w, "join") => inv[w].dev \in Devices
    BY DEF FirstAlone, Registering, RegisterPcs, At
  <2>8. /\ thing' \subseteq Devices /\ canary' \subseteq Devices
        /\ production' \subseteq Devices /\ twice' \subseteq Devices
    BY <1>3, <2>7 DEF RegisterUpdate, CountCanary, JoinGroup, EndEarly, TypeOK
  <2> QED
    BY <2>5, <2>6, <2>8, KeylessStep
<1>4. ASSUME NEW w \in Workers, ProcessStart(w)
      PROVE  Good'
  <2> DEFINE r == [Idle EXCEPT !.pc = "wrap", !.enc = made + 1]
  <2>1. made + 1 \in DataKeys /\ made' \in 0 .. MaxKeys
    BY <1>4, DeliveryAssumption DEF ProcessStart, TypeOK, DataKeys
  <2>2. r \in Invocation /\ KeyHeld(r)
    BY <2>1 DEF Idle, Invocation, Pcs, NoWrap, Wrapped, KeyHeld
  <2>3. Become(w, r) /\ UNCHANGED <<thing, canary, production, twice, secret, cache, pkg, docs>>
    BY <1>4 DEF ProcessStart
  <2> HIDE DEF r
  <2> QED
    BY <2>1, <2>2, <2>3, Moves, KeysKept DEF TypeOK, JobOpens
<1>5. ASSUME NEW w \in Workers, NEW i \in Instances, Wrap(w, i)
      PROVE  Good'
  <2> DEFINE r == [inv[w] EXCEPT !.pc = "activate", !.wrapped = WrapKey(inv[w].enc, i)]
  <2>1. inv[w] \in Invocation /\ inv[w].enc \in DataKeys
    BY <1>5 DEF Wrap, At, TypeOK, KeysMatch, KeyHeld
  <2>2. WrapKey(inv[w].enc, i) \in Wrapped /\ WrapKey(inv[w].enc, i).key = inv[w].enc
    BY <2>1, MasterTyped DEF WrapKey, Wrapped, Invocation
  <2>3. r \in Invocation /\ r.pc = "activate" /\ r.enc = inv[w].enc
        /\ r.wrapped = WrapKey(inv[w].enc, i)
    BY <2>1, <2>2 DEF Invocation, Pcs
  <2>4. Become(w, r) /\ Load(i) /\ UNCHANGED <<fleet, catalog, docs>>
    BY <1>5 DEF Wrap
  <2> HIDE DEF r
  <2>5. KeyHeld(r)
    BY <2>1, <2>2, <2>3 DEF KeyHeld
  <2> QED
    BY <2>3, <2>4, <2>5, MasterTyped, Moves, KeysKept DEF TypeOK, JobOpens
<1>6. ASSUME NEW w \in Workers, Activate(w)
      PROVE  Good'
  <2>1. inv[w] \in Invocation /\ inv[w].wrapped.key = inv[w].enc
    BY <1>6 DEF Activate, At, TypeOK, KeysMatch, KeyHeld
  <2>2. inv[w].wrapped \in Wrapped /\ inv[w].enc \in DataKeys \cup {0}
    BY <2>1 DEF Invocation
  <2>3. pkg' \in Package /\ pkg'.wrapped.key = pkg'.enc
    BY <1>6, <2>1, <2>2 DEF Activate, Package
  <2>4. Return(w) /\ UNCHANGED <<fleet, keys, made, docs>>
    BY <1>6 DEF Activate
  <2> QED
    BY <2>3, <2>4, RowStep
<1>7. ASSUME NEW w \in Workers, ConsentStart(w) \/ UploadStart(w) \/ RestoreStart(w)
      PROVE  Good'
  <2>1. \A pc \in {"read", "put", "restore"} :
           [Idle EXCEPT !.pc = pc] \in Invocation /\ Keyless([Idle EXCEPT !.pc = pc])
    BY DEF Idle, Invocation, Pcs, RegisterPcs, NoWrap, Wrapped, Keyless
  <2> QED
    BY <1>7, <2>1, KeylessStep DEF ConsentStart, UploadStart, RestoreStart, TypeOK
<1>8. ASSUME NEW w \in Workers, ReadPackage(w)
      PROVE  Good'
  <2> DEFINE r == [inv[w] EXCEPT !.pc = "unwrap", !.enc = pkg.enc, !.wrapped = pkg.wrapped]
  <2>1. CASE pkg.status # "ACTIVE" \/ pkg.enc = 0
    BY <1>8, <2>1, EndStep DEF ReadPackage
  <2>2. CASE pkg.status = "ACTIVE" /\ pkg.enc # 0
    <3>1. inv[w] \in Invocation /\ pkg.wrapped \in Wrapped
          /\ pkg.enc \in DataKeys /\ pkg.wrapped.key = pkg.enc
      BY <2>2 DEF TypeOK, Package, KeysMatch
    <3>2. r \in Invocation /\ r.pc = "unwrap" /\ r.enc = pkg.enc /\ r.wrapped = pkg.wrapped
      BY <3>1 DEF Invocation, Pcs
    <3>3. Become(w, r) /\ UNCHANGED <<fleet, keys, catalog, docs>>
      BY <1>8, <2>2 DEF ReadPackage
    <3> HIDE DEF r
    <3>4. KeyHeld(r)
      BY <3>1, <3>2 DEF KeyHeld
    <3> QED
      BY <3>2, <3>3, <3>4, Moves, KeysKept DEF TypeOK, JobOpens
  <2> QED
    BY <2>1, <2>2
<1>9. ASSUME NEW w \in Workers, NEW i \in Instances, Unwrap(w, i)
      PROVE  Good'
  <2> DEFINE r == [inv[w] EXCEPT !.pc = "create", !.key = inv[w].wrapped.key]
  <2>1. inv[w] \in Invocation /\ inv[w].enc \in DataKeys /\ inv[w].wrapped.key = inv[w].enc
    BY <1>9 DEF Unwrap, At, TypeOK, KeysMatch, KeyHeld
  <2>2. r \in Invocation /\ r.pc = "create" /\ r.enc = inv[w].enc /\ r.key = inv[w].wrapped.key
    BY <2>1 DEF Invocation, Pcs
  <2>3. Become(w, r) \/ Become(w, Idle)
    BY <1>9 DEF Unwrap, Return
  <2>4. Load(i) /\ UNCHANGED <<fleet, catalog, docs>>
    BY <1>9 DEF Unwrap
  <2> HIDE DEF r
  <2>5. KeyHeld(r) /\ KeyHeld(Idle)
    BY <2>1, <2>2, IdleKeyless, KeylessHeld DEF KeyHeld
  <2> QED
    BY <2>2, <2>3, <2>4, <2>5, IdleTyped, MasterTyped, Moves, KeysKept DEF TypeOK, JobOpens
<1>10. ASSUME NEW w \in Workers, CreateJob(w)
       PROVE  Good'
  <2>1. inv[w].enc \in DataKeys /\ inv[w].key = inv[w].enc
    BY <1>10 DEF CreateJob, At, KeysMatch, KeyHeld
  <2>3. docs' \subseteq Document /\ JobOpens'
    BY <1>10, <2>1 DEF CreateJob, TypeOK, Document, JobOpens
  <2>4. Become(w, Idle) /\ UNCHANGED <<fleet, keys, catalog>>
    BY <1>10 DEF CreateJob, Return
  <2>5. KeyHeld(Idle)
    BY IdleKeyless, KeylessHeld
  <2> QED
    BY <2>3, <2>4, <2>5, IdleTyped, Moves, KeysKept DEF TypeOK
<1>11. ASSUME NEW w \in Workers, UploadPut(w) \/ RestoreSet(w)
       PROVE  Good'
  <2>1. pkg' \in Package /\ pkg'.wrapped.key = pkg'.enc
    BY <1>11 DEF UploadPut, RestoreSet, Pending, Package, NoWrap, Wrapped, TypeOK, KeysMatch
  <2>2. Return(w) /\ UNCHANGED <<fleet, keys, made, docs>>
    BY <1>11 DEF UploadPut, RestoreSet
  <2> QED
    BY <2>1, <2>2, RowStep
<1>12. CASE Supersede \/ Rotate
  <2>1. secret' \in Masters
    BY <1>12, DeliveryAssumption DEF Supersede, Rotate, TypeOK, Masters
  <2>2. pkg' \in Package /\ pkg'.wrapped.key = pkg'.enc
    BY <1>12 DEF Supersede, Rotate, Package, TypeOK, KeysMatch
  <2>3. UNCHANGED <<inv, made, docs, fleet, cache>>
    BY <1>12 DEF Supersede, Rotate
  <2> QED
    BY <2>1, <2>2, <2>3 DEF TypeOK, KeysMatch, KeyHeld, JobOpens
<1>13. ASSUME NEW i \in Instances, Recycle(i)
       PROVE  Good'
  BY <1>13 DEF Recycle, TypeOK, KeysMatch, KeyHeld, JobOpens, At
<1> QED
  BY <1>1, <1>2, <1>3, <1>4, <1>5, <1>6, <1>7, <1>8, <1>9, <1>10, <1>11, <1>12, <1>13
  DEF Next, Request, Continue
----------------------------------------------------------------------------
(* The thing groups                                                        *)

LEMMA JoiningFinite ==
    /\ IsFiniteSet(Joining) /\ Cardinality(Joining) \in Nat
    /\ IsFiniteSet(Joining') /\ Cardinality(Joining') \in Nat
    /\ Cardinality(Joining') <= Cardinality(Workers) /\ Cardinality(Workers) \in Nat
<1>1. Joining \in SUBSET Workers /\ Joining' \in SUBSET Workers
  BY DEF Joining
<1> QED
  BY <1>1, DeliveryAssumption, FS_Subset, FS_CardinalityType

(* Nobody joins, and nobody more finds room.                               *)
LEMMA RoomKept ==
    ASSUME CanaryRoom, UNCHANGED canary, Joining' \subseteq Joining
    PROVE  CanaryRoom'
<1>1. Joining' \in SUBSET Joining
  OBVIOUS
<1>2. Cardinality(Joining') <= Cardinality(Joining)
  BY <1>1, JoiningFinite, FS_Subset
<1>3. Cardinality(canary) \in Nat
  BY FS_CardinalityType DEF CanaryRoom
<1>4. canary' \cup Joining' # {} => canary \cup Joining # {}
  OBVIOUS
<1> QED
  BY <1>2, <1>3, <1>4, JoiningFinite, DeliveryAssumption DEF CanaryRoom

(* A worker that was not joining is not after this step.                   *)
LEMMA NotJoining ==
    ASSUME TypeOK, NEW w \in Workers, NEW r \in Invocation, Become(w, r),
           r.pc # "join" \/ r.group # "canary"
    PROVE  Joining' = Joining \ {w}
<1>1. inv'[w] = r /\ \A u \in Workers \ {w} : inv'[u] = inv[u]
  BY Moves
<1> QED
  BY <1>1 DEF Joining, At

(* The handlers other than registration that begin, and that end.          *)
Enters(w) == UploadStart(w) \/ ProcessStart(w) \/ RestoreStart(w) \/ ConsentStart(w)
Ends(w) == \/ UploadPut(w) \/ Activate(w) \/ RestoreSet(w) \/ CreateJob(w)
           \/ EndEarly(w)

LEMMA RoomStep ==
    ASSUME TypeOK, CanaryRoom, [Next]_vars
    PROVE  CanaryRoom'
<1>1. CASE UNCHANGED vars
  <2>1. Joining' \subseteq Joining /\ UNCHANGED canary
    BY <1>1 DEF vars, Joining, At
  <2> QED
    BY <2>1, RoomKept
<1>2. ASSUME NEW w \in Workers, CountCanary(w)
      PROVE  CanaryRoom'
  <2> DEFINE g == IF Cardinality(canary) < CanaryMax THEN "canary" ELSE "production"
             r == [inv[w] EXCEPT !.pc = "join", !.group = g]
  <2>1. inv[w] \in Invocation /\ UNCHANGED canary /\ Become(w, r)
    BY <1>2 DEF TypeOK, CountCanary, fleet
  <2>2. r \in Invocation /\ r.group = g
    BY <2>1 DEF Invocation, Pcs, RegisterPcs
  <2>3. Cardinality(canary) \in Nat
    BY FS_CardinalityType DEF CanaryRoom
  <2>4. CASE Cardinality(canary) < CanaryMax
    BY <2>1, <2>3, <2>4, JoiningFinite, DeliveryAssumption DEF CanaryRoom
  <2>5. CASE ~(Cardinality(canary) < CanaryMax)
    <3>1. r.group # "canary"
      BY <2>2, <2>5
    <3> HIDE DEF r
    <3> QED
      BY <2>1, <2>2, <3>1, NotJoining, RoomKept
  <2> QED
    BY <2>4, <2>5
<1>3. ASSUME NEW w \in Workers, JoinGroup(w)
      PROVE  CanaryRoom'
  <2>1. Joining' = Joining \ {w}
    BY <1>3, IdleTyped, NotJoining DEF JoinGroup, Return
  <2>2. CASE inv[w].group = "canary"
    <3>1. w \in Joining /\ canary' = canary \cup {inv[w].dev}
      BY <1>3, <2>2 DEF JoinGroup, Joining
    <3>2. Cardinality(Joining') = Cardinality(Joining) - 1
      BY <2>1, <3>1, JoiningFinite, FS_RemoveElement
    <3>3. /\ IsFiniteSet(canary') /\ Cardinality(canary) \in Nat
          /\ Cardinality(canary') \in Nat
          /\ Cardinality(canary') <= Cardinality(canary) + 1
      <4>1. IsFiniteSet(canary) /\ Cardinality(canary) \in Nat
        BY FS_CardinalityType DEF CanaryRoom
      <4>2. /\ IsFiniteSet(canary')
            /\ Cardinality(canary') = IF inv[w].dev \in canary THEN Cardinality(canary)
                                      ELSE Cardinality(canary) + 1
        BY <3>1, <4>1, FS_AddElement
      <4> QED
        BY <4>1, <4>2
    <3>4. Cardinality(canary) + Cardinality(Joining) < CanaryMax + Cardinality(Workers)
      BY <3>1 DEF CanaryRoom
    <3> QED
      BY <3>2, <3>3, <3>4, JoiningFinite, DeliveryAssumption DEF CanaryRoom
  <2>3. CASE inv[w].group # "canary"
    BY <1>3, <2>1, <2>3, RoomKept DEF JoinGroup
  <2> QED
    BY <2>2, <2>3
<1>4. ASSUME NEW w \in Workers,
             \/ \E d \in Devices : RegisterStart(w, d)
             \/ RegisterUpdate(w) \/ ReadPackage(w) \/ Enters(w) \/ Ends(w)
             \/ \E i \in Instances : Wrap(w, i) \/ Unwrap(w, i)
      PROVE  CanaryRoom'
  <2> USE DEF fleet
  <2>1. UNCHANGED canary
    BY <1>4 DEF RegisterStart, RegisterUpdate, ReadPackage, Enters, Ends, Wrap, Unwrap,
       UploadStart, ProcessStart, RestoreStart, ConsentStart,
       UploadPut, Activate, RestoreSet, CreateJob, EndEarly
  <2>2. inv'[w].pc # "join"
    <3>1. inv \in [Workers -> Invocation] /\ inv[w] \in Invocation
      BY DEF TypeOK
    <3>2. \A r : Become(w, r) => inv'[w] = r
      BY <3>1 DEF Become
    <3>3. Return(w) => inv'[w].pc = "idle"
      BY <3>2, IdleTyped DEF Return
    <3>4. \A d \in Devices : RegisterStart(w, d) => inv'[w].pc = "update"
      BY <3>2 DEF RegisterStart, Idle
    <3>5. RegisterUpdate(w) => inv'[w].pc # "join"
      BY <3>1, <3>2, <3>3 DEF RegisterUpdate, Invocation
    <3>6. Enters(w) => inv'[w].pc # "join"
      BY <3>2 DEF Enters, UploadStart, ProcessStart, RestoreStart, ConsentStart, Idle
    <3>7. ReadPackage(w) => inv'[w].pc # "join"
      BY <3>1, <3>2, <3>3 DEF ReadPackage, Invocation
    <3>8. \A i \in Instances : Wrap(w, i) => inv'[w].pc # "join"
      BY <3>1, <3>2 DEF Wrap, Invocation
    <3>9. \A i \in Instances : Unwrap(w, i) => inv'[w].pc # "join"
      BY <3>1, <3>2, <3>3 DEF Unwrap, Invocation
    <3>10. Ends(w) => inv'[w].pc # "join"
      BY <3>3 DEF Ends, UploadPut, Activate, RestoreSet, CreateJob, EndEarly
    <3> QED
      BY <1>4, <3>4, <3>5, <3>6, <3>7, <3>8, <3>9, <3>10
  <2>3. \A u \in Workers \ {w} : inv'[u] = inv[u]
    BY <1>4
    DEF RegisterStart, RegisterUpdate, ReadPackage, Enters, Ends, Wrap, Unwrap,
       UploadStart, ProcessStart, RestoreStart, ConsentStart,
       UploadPut, Activate, RestoreSet, CreateJob, EndEarly, Return, Become, TypeOK
  <2>4. Joining' \subseteq Joining
    BY <2>2, <2>3 DEF Joining, At
  <2> QED
    BY <2>1, <2>4, RoomKept
<1>5. ASSUME Supersede \/ Rotate \/ \E i \in Instances : Recycle(i)
      PROVE  CanaryRoom'
  <2>1. UNCHANGED <<canary, inv>>
    BY <1>5 DEF Supersede, Rotate, Recycle, fleet
  <2>2. Joining' \subseteq Joining
    BY <2>1 DEF Joining, At
  <2> QED
    BY <2>1, <2>2, RoomKept
<1> QED
  BY <1>1, <1>2, <1>3, <1>4, <1>5 DEF Next, Request, Continue, Enters, Ends

(* A step that ends in no registration, and leaves the groups alone.       *)
LEMMA FirstKept ==
    ASSUME TypeOK, FirstAlone, NEW w \in Workers, UNCHANGED fleet,
           ~Registering(w)', \A u \in Workers \ {w} : inv'[u] = inv[u]
    PROVE  FirstAlone'
  BY DEF FirstAlone, Registering, RegisterPcs, fleet

(* Whatever worker w goes on as, no other moves.                           *)
LEMMA Alone ==
    ASSUME TypeOK, NEW w \in Workers
    PROVE  /\ \A r : Become(w, r) =>
                  inv'[w] = r /\ \A u \in Workers \ {w} : inv'[u] = inv[u]
           /\ Return(w) =>
                  inv'[w].pc = "idle" /\ \A u \in Workers \ {w} : inv'[u] = inv[u]
<1>1. inv \in [Workers -> Invocation]
  BY DEF TypeOK
<1>2. \A r : Become(w, r) => inv'[w] = r /\ \A u \in Workers \ {w} : inv'[u] = inv[u]
  BY <1>1 DEF Become
<1> QED
  BY <1>2, IdleTyped DEF Return

LEMMA GroupStep ==
    ASSUME TypeOK, FirstAlone, OneGroup, [Next]_vars
    PROVE  FirstAlone' /\ OneGroup'
<1>1. CASE UNCHANGED vars
  BY <1>1 DEF vars, FirstAlone, Registering, OneGroup
<1>3. ASSUME NEW w \in Workers, NEW d \in Devices, RegisterStart(w, d)
      PROVE  FirstAlone' /\ OneGroup'
  <2>0. /\ \A r : Become(w, r) => inv'[w] = r
        /\ Return(w) => inv'[w].pc = "idle"
        /\ \A r : Become(w, r) => \A u \in Workers \ {w} : inv'[u] = inv[u]
        /\ Return(w) => \A u \in Workers \ {w} : inv'[u] = inv[u]
    BY Alone
  <2>1. /\ inv'[w] = [Idle EXCEPT !.pc = "update", !.dev = d, !.first = d \notin thing]
        /\ UNCHANGED <<thing, canary, production>> /\ At(w, "idle")
        /\ \A u \in Workers \ {w} : inv'[u] = inv[u]
    BY <2>0, <1>3 DEF RegisterStart
  <2>2. inv'[w].pc = "update" /\ inv'[w].dev = d /\ inv'[w].first = (d \notin thing)
    BY <2>1 DEF Idle
  <2>3. /\ twice \subseteq twice'
        /\ \A x \in Workers : Registering(x) /\ inv[x].dev = d => d \in twice'
    BY <1>3 DEF RegisterStart, Registering
  <2>4. OneGroup'
    BY <2>1, <2>3 DEF OneGroup
  <2>5. \A u \in Workers : Registering(u)' => inv'[u].dev \in Devices
    BY <2>1, <2>2 DEF FirstAlone, Registering
  <2>6. \A u \in Workers : inv'[u].pc \in {"count", "join"} =>
           inv'[u].first /\ inv'[u].dev \in thing'
    BY <2>1, <2>2 DEF FirstAlone
  <2>7. ASSUME NEW u \in Workers, Registering(u)', inv'[u].first, inv'[u].dev \notin twice'
        PROVE  /\ inv'[u].dev \notin canary' \cup production'
               /\ \A x \in Workers \ {u} : Registering(x)' => inv'[x].dev # inv'[u].dev
    <3>1. CASE u = w
      BY <2>1, <2>2, <2>3, <2>7, <3>1 DEF FirstAlone, Registering
    <3>2. CASE u # w
      <4>1. Registering(u) /\ inv[u].first /\ inv[u].dev \notin twice /\ inv'[u] = inv[u]
        BY <2>1, <2>3, <2>7, <3>2 DEF Registering
      <4>2. inv[u].dev # d
        BY <2>3, <2>7, <4>1
      <4>3. inv[u].dev \notin canary \cup production
        BY <4>1 DEF FirstAlone
      <4>4. ASSUME NEW x \in Workers \ {u}, Registering(x)'
            PROVE  inv'[x].dev # inv'[u].dev
        <5>1. CASE x = w
          BY <2>2, <4>1, <4>2, <5>1
        <5>2. CASE x # w
          <6>1. inv'[x] = inv[x]
            BY <2>1, <5>2
          <6> QED
            BY <4>1, <4>4, <6>1 DEF FirstAlone, Registering
        <5> QED
          BY <5>1, <5>2
      <4> QED
        BY <2>1, <4>1, <4>3, <4>4
    <3> QED
      BY <3>1, <3>2
  <2> QED
    BY <2>1, <2>4, <2>5, <2>6, <2>7 DEF FirstAlone
<1>4. ASSUME NEW w \in Workers, RegisterUpdate(w) \/ CountCanary(w)
      PROVE  FirstAlone' /\ OneGroup'
  <2>0. /\ \A r : Become(w, r) => inv'[w] = r
        /\ Return(w) => inv'[w].pc = "idle"
        /\ \A r : Become(w, r) => \A u \in Workers \ {w} : inv'[u] = inv[u]
        /\ Return(w) => \A u \in Workers \ {w} : inv'[u] = inv[u]
    BY Alone
  <2>1. inv[w] \in Invocation /\ Registering(w) /\ inv[w].dev \in Devices
    BY <1>4 DEF TypeOK, RegisterUpdate, CountCanary, At, FirstAlone, Registering, RegisterPcs
  <2>2. /\ UNCHANGED <<canary, production, twice>> /\ thing \subseteq thing'
        /\ RegisterUpdate(w) => inv[w].dev \in thing'
        /\ CountCanary(w) => inv[w].first /\ inv[w].dev \in thing'
    BY <1>4 DEF RegisterUpdate, CountCanary, fleet, FirstAlone, At
  <2>3. \A u \in Workers \ {w} : inv'[u] = inv[u]
    BY <2>0, <1>4 DEF RegisterUpdate, CountCanary
  <2>4. \/ inv'[w].pc = "idle"
        \/ /\ inv'[w].pc \in {"count", "join"} /\ inv'[w].dev = inv[w].dev
           /\ inv'[w].first = inv[w].first /\ inv[w].first
    <3>1. CASE RegisterUpdate(w)
      <4>1. CASE inv[w].first
        <5>1. inv'[w] = [inv[w] EXCEPT !.pc = "count"]
          BY <2>0, <3>1, <4>1 DEF RegisterUpdate
        <5> QED
          BY <2>1, <4>1, <5>1 DEF Invocation
      <4>2. CASE ~inv[w].first
        BY <2>0, <3>1, <4>2 DEF RegisterUpdate
      <4> QED
        BY <4>1, <4>2
    <3>2. CASE CountCanary(w)
      <4>1. PICK g \in {"canary", "production"} :
               inv'[w] = [inv[w] EXCEPT !.pc = "join", !.group = g]
        BY <2>0, <3>2 DEF CountCanary
      <4> QED
        BY <2>1, <2>2, <3>2, <4>1 DEF Invocation
    <3> QED
      BY <1>4, <3>1, <3>2
  <2>5. OneGroup'
    BY <2>2 DEF OneGroup
  <2>6. CASE inv'[w].pc = "idle"
    BY <2>2, <2>3, <2>6 DEF FirstAlone, Registering, RegisterPcs, OneGroup
  <2>7. CASE inv'[w].pc # "idle"
    BY <1>4, <2>1, <2>2, <2>3, <2>4, <2>5, <2>7 DEF FirstAlone, Registering, RegisterPcs
  <2> QED
    BY <2>5, <2>6, <2>7
<1>5. ASSUME NEW w \in Workers, JoinGroup(w)
      PROVE  FirstAlone' /\ OneGroup'
  <2>0. /\ \A r : Become(w, r) => inv'[w] = r
        /\ Return(w) => inv'[w].pc = "idle"
        /\ \A r : Become(w, r) => \A u \in Workers \ {w} : inv'[u] = inv[u]
        /\ Return(w) => \A u \in Workers \ {w} : inv'[u] = inv[u]
    BY Alone
  <2>1. Registering(w) /\ inv[w].first /\ inv[w].dev \in thing
    BY <1>5 DEF JoinGroup, At, FirstAlone, Registering, RegisterPcs
  <2>2. inv'[w].pc = "idle" /\ UNCHANGED <<thing, twice>>
        /\ \A u \in Workers \ {w} : inv'[u] = inv[u]
    BY <2>0, <1>5, IdleTyped DEF JoinGroup
  <2>3. /\ canary \cup production \subseteq thing
        /\ canary' \cup production' \subseteq canary \cup production \cup {inv[w].dev}
        /\ canary' = canary \/ production' = production
        /\ canary' \subseteq canary \cup {inv[w].dev}
        /\ production' \subseteq production \cup {inv[w].dev}
    BY <1>5 DEF JoinGroup, FirstAlone
  <2>4. inv[w].dev \notin twice => inv[w].dev \notin canary \cup production
    BY <2>1 DEF FirstAlone
  <2>5. OneGroup'
    BY <2>2, <2>3, <2>4 DEF OneGroup
  <2>6. ASSUME NEW u \in Workers \ {w}, Registering(u), inv[u].first, inv[u].dev \notin twice
        PROVE  inv[u].dev \notin canary' \cup production'
    BY <2>1, <2>3, <2>6 DEF FirstAlone
  <2> QED
    BY <2>1, <2>2, <2>3, <2>5, <2>6 DEF FirstAlone, Registering, RegisterPcs
<1>6. ASSUME NEW w \in Workers,
             \/ Enters(w) \/ ReadPackage(w) \/ Ends(w)
             \/ \E i \in Instances : Wrap(w, i) \/ Unwrap(w, i)
      PROVE  FirstAlone' /\ OneGroup'
  <2>0. /\ \A r : Become(w, r) => inv'[w] = r
        /\ Return(w) => inv'[w].pc = "idle"
        /\ \A r : Become(w, r) => \A u \in Workers \ {w} : inv'[u] = inv[u]
        /\ Return(w) => \A u \in Workers \ {w} : inv'[u] = inv[u]
    BY Alone
  <2>1. inv[w] \in Invocation
    BY DEF TypeOK
  <2>2. UNCHANGED fleet /\ \A u \in Workers \ {w} : inv'[u] = inv[u]
    BY <2>0, <1>6 DEF Enters, ReadPackage, Ends, Wrap, Unwrap, UploadStart, ProcessStart,
       RestoreStart, ConsentStart, UploadPut, Activate, RestoreSet, CreateJob, EndEarly
  <2>3. ~Registering(w)'
    <3>1. Enters(w) => ~Registering(w)'
      BY <2>0 DEF Enters, UploadStart, ProcessStart, RestoreStart, ConsentStart,
         Registering, RegisterPcs, Idle
    <3>2. Ends(w) => ~Registering(w)'
      BY <2>0 DEF Ends, UploadPut, Activate, RestoreSet, CreateJob, EndEarly,
         Registering, RegisterPcs
    <3>3. ReadPackage(w) => ~Registering(w)'
      BY <2>0, <2>1, IdleTyped DEF ReadPackage, Registering, RegisterPcs, Invocation
    <3>4. \A i \in Instances : Wrap(w, i) => ~Registering(w)'
      BY <2>0, <2>1 DEF Wrap, Registering, RegisterPcs, Invocation
    <3>5. \A i \in Instances : Unwrap(w, i) => ~Registering(w)'
      BY <2>0, <2>1, IdleTyped DEF Unwrap, Registering, RegisterPcs, Invocation
    <3> QED
      BY <1>6, <3>1, <3>2, <3>3, <3>4, <3>5
  <2> QED
    BY <2>2, <2>3, FirstKept DEF fleet, OneGroup
<1>7. ASSUME Supersede \/ Rotate \/ \E i \in Instances : Recycle(i)
      PROVE  FirstAlone' /\ OneGroup'
  BY <1>7 DEF Supersede, Rotate, Recycle, fleet, FirstAlone, Registering, OneGroup
<1> QED
  BY <1>1, <1>3, <1>4, <1>5, <1>6, <1>7 DEF Next, Request, Continue, Enters, Ends

----------------------------------------------------------------------------
(* Theorems                                                                *)

(* The tables, the thing groups, the key server and every running handler  *)
(* keep their types, and the invariants the three theorems below rest on   *)
(* hold in every reachable state.                                          *)
THEOREM DeliveryTyped == Spec => [](TypeOK /\ DeliveryInv)
<1>1. TypeOK /\ DeliveryInv /\ [Next]_vars => (TypeOK /\ DeliveryInv)'
  BY KeysStep, RoomStep, GroupStep DEF DeliveryInv
<1> QED
  BY <1>1, Setup, PTL DEF Spec

(* _assign_to_thing_group counts and then adds: with any CANARY_MAX, any   *)
(* number of devices that start at once put fewer than one device for each *)
(* concurrent registration over the limit.                                 *)
THEOREM CanaryLimited == Spec => []CanaryBounded
<1>1. TypeOK /\ DeliveryInv => CanaryBounded
  <2> SUFFICES ASSUME DeliveryInv, canary # {}
               PROVE  Cardinality(canary) < CanaryMax + Cardinality(Workers)
    BY DEF CanaryBounded
  <2>1. Cardinality(canary) \in Nat
    BY FS_CardinalityType DEF DeliveryInv, CanaryRoom
  <2> QED
    BY <2>1, JoiningFinite, DeliveryAssumption DEF DeliveryInv, CanaryRoom
<1> QED
  BY <1>1, DeliveryTyped, PTL

(* Restarts and handlers that end half-way never give a device a second    *)
(* thing group: only two overlapping first registrations of it do.         *)
THEOREM GroupedOnce == Spec => []OneGroup
<1>1. TypeOK /\ DeliveryInv => OneGroup
  BY DEF DeliveryInv
<1> QED
  BY <1>1, DeliveryTyped, PTL

(* Whatever the uploads, the rotations of the master key and the warm      *)
(* instances of the key server, the key in a job document is that of the   *)
(* object the document points at.                                          *)
THEOREM JobsOpen == Spec => []JobOpens
<1>1. TypeOK /\ DeliveryInv => JobOpens
  BY DEF DeliveryInv
<1> QED
  BY <1>1, DeliveryTyped, PTL
=============================================================================
