------------------------------ MODULE Delivery -----------------------------
(***************************************************************************)
(* Devices register, artefacts are processed and updates are accepted at   *)
(* the same time, while the key server's instances come and go and its     *)
(* master key is rotated.                                                  *)
(***************************************************************************)
EXTENDS DeviceGroups, KeyServer

Init ==
    /\ thing = {} /\ canary = {} /\ production = {} /\ twice = {}
    /\ secret = 1 /\ cache = [i \in Instances |-> 0]
    /\ pkg = Pending /\ made = 0 /\ docs = {}
    /\ inv = [w \in Workers |-> Idle]

(* A handler ends early: a call fails, the key server cannot be reached,   *)
(* or it runs out of time.  device_register logs its errors and returns,   *)
(* so a device that was written but in no group stays in none.             *)
EndEarly(w) ==
    /\ ~At(w, "idle")
    /\ Return(w)
    /\ UNCHANGED <<fleet, keys, catalog, docs>>

Request(w) == \/ \E d \in Devices : RegisterStart(w, d)
              \/ UploadStart(w) \/ ProcessStart(w) \/ RestoreStart(w) \/ ConsentStart(w)

Continue(w) ==
    \/ RegisterUpdate(w) \/ CountCanary(w) \/ JoinGroup(w)
    \/ UploadPut(w) \/ Activate(w) \/ RestoreSet(w) \/ ReadPackage(w) \/ CreateJob(w)
    \/ \E i \in Instances : Wrap(w, i) \/ Unwrap(w, i)

Next ==
    \/ \E w \in Workers : Request(w) \/ Continue(w) \/ EndEarly(w)
    \/ Supersede \/ Rotate
    \/ \E i \in Instances : Recycle(i)

Spec == Init /\ [][Next]_vars

----------------------------------------------------------------------------
(* Properties                                                              *)

TypeOK ==
    /\ thing \subseteq Devices /\ twice \subseteq Devices
    /\ canary \subseteq Devices /\ production \subseteq Devices
    /\ secret \in Masters /\ cache \in [Instances -> Masters \cup {0}]
    /\ pkg \in Package /\ made \in 0 .. MaxKeys
    /\ docs \subseteq Document
    /\ inv \in [Workers -> Invocation]

(* However many devices start for the first time at once, DGX-Canary       *)
(* outgrows CANARY_MAX by fewer than there are concurrent registrations.   *)
CanaryBounded ==
    canary # {} => Cardinality(canary) < CanaryMax + Cardinality(Workers)

(* A device joins one group, unless two of its messages were handled at a  *)
(* time; that holds for restarts, and for handlers that ended half-way.    *)
OneGroup == canary \cap production \subseteq twice

(* The key in a job document decrypts the object its URL points at, however*)
(* uploads, restorations, rotations and acceptances overlap: an owner is   *)
(* refused rather than sent an update that the device cannot open.         *)
JobOpens == \A doc \in docs : doc.key = doc.enc

----------------------------------------------------------------------------
(* What they rest on                                                       *)

(* The invocations that counted the canary group and found room in it.     *)
Joining == {w \in Workers : At(w, "join") /\ inv[w].group = "canary"}

CanaryRoom ==
    /\ IsFiniteSet(canary)
    /\ canary \cup Joining # {} =>
          Cardinality(canary) + Cardinality(Joining) < CanaryMax + Cardinality(Workers)

(* The first registration of a device is alone with it, and finds it in no *)
(* group; only a first registration goes on to a group.                    *)
Registering(w) == inv[w].pc \in RegisterPcs
FirstAlone ==
    /\ canary \cup production \subseteq thing
    /\ \A w \in Workers : Registering(w) => inv[w].dev \in Devices
    /\ \A w \in Workers : inv[w].pc \in {"count", "join"} =>
          inv[w].first /\ inv[w].dev \in thing
    /\ \A w \in Workers : Registering(w) /\ inv[w].first /\ inv[w].dev \notin twice =>
          /\ inv[w].dev \notin canary \cup production
          /\ \A x \in Workers \ {w} : Registering(x) => inv[x].dev # inv[w].dev

(* Wherever a wrapped key stands beside an object, it is the object's.     *)
KeyHeld(i) ==
    /\ i.pc \in {"wrap", "activate", "unwrap", "create"} => i.enc \in DataKeys
    /\ i.pc \in {"activate", "unwrap"} => i.wrapped.key = i.enc
    /\ i.pc = "create" => i.key = i.enc

KeysMatch ==
    /\ pkg.wrapped.key = pkg.enc
    /\ \A w \in Workers : KeyHeld(inv[w])

DeliveryInv == CanaryRoom /\ FirstAlone /\ KeysMatch /\ OneGroup /\ JobOpens
=============================================================================
