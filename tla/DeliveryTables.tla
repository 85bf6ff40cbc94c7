-------------------------- MODULE DeliveryTables ---------------------------
(***************************************************************************)
(* From the first message of a device to a job it can decrypt: what        *)
(* device_register, artifact_processor, user_consent and the key server    *)
(* share.  One version of one package; a step is one call, as in OtaTables.*)
(***************************************************************************)
EXTENDS Naturals, FiniteSets

CONSTANTS
    Devices,     \* devices with a row in digilux_device_data; deviceId = thingName
    Workers,     \* concurrently running Lambda invocations
    Instances,   \* warm execution environments of the key server
    CanaryMax,   \* CANARY_MAX: devices that join DGX-Canary on their own
    MaxMaster,   \* bound: master keys the secret takes, 1..MaxMaster
    MaxKeys,     \* bound: data keys made, one for each time an artefact is processed
    NoDev

(* list_things_in_thing_group is asked for one page of 100 things.         *)
ASSUME DeliveryAssumption ==
    /\ IsFiniteSet(Workers)
    /\ CanaryMax \in 0 .. 100
    /\ MaxMaster \in Nat \ {0} /\ MaxKeys \in Nat
    /\ NoDev \notin Devices

VARIABLES
    thing,       \* the device rows that have thingName
    canary,      \* things in DGX-Canary
    production,  \* things in DGX-Production
    twice,       \* devices of which two registrations were handled at a time
    secret,      \* the master key in Secrets Manager
    cache,       \* _master_key_cache of each instance, 0 when it is cold
    pkg,         \* the row in digilux_ota_packages
    made,        \* data keys made so far
    docs,        \* the job documents given to AWS IoT
    inv          \* the running invocations

fleet   == <<thing, canary, production, twice>>
keys    == <<secret, cache>>
catalog == <<pkg, made>>
vars    == <<thing, canary, production, twice, secret, cache, pkg, made, docs, inv>>

----------------------------------------------------------------------------

DataKeys == 1 .. MaxKeys
Masters  == 1 .. MaxMaster

Wrapped == [key : DataKeys \cup {0}, master : Masters \cup {0}]   \* wrappedDataKey
NoWrap  == [key |-> 0, master |-> 0]

(* enc is the data key under which the object at encS3Key is encrypted, 0  *)
(* in a row that was uploaded and not processed since.                     *)
Package == [status : {"PENDING", "ACTIVE", "SUPERSEDED"}, enc : DataKeys \cup {0},
            wrapped : Wrapped]
Pending == [status |-> "PENDING", enc |-> 0, wrapped |-> NoWrap]

(* What matters of a job document: the object at its URL, and its key.     *)
Document == [enc : DataKeys, key : DataKeys]

RegisterPcs == {"update", "count", "join"}
Pcs == {"idle", "put", "wrap", "activate", "restore", "read", "unwrap", "create"}
          \cup RegisterPcs

Invocation == [pc : Pcs, dev : Devices \cup {NoDev}, first : BOOLEAN,
               group : {"none", "canary", "production"},
               enc : DataKeys \cup {0}, wrapped : Wrapped, key : DataKeys \cup {0}]
Idle == [pc |-> "idle", dev |-> NoDev, first |-> FALSE, group |-> "none",
         enc |-> 0, wrapped |-> NoWrap, key |-> 0]

At(w, pc)    == inv[w].pc = pc
Become(w, i) == inv' = [inv EXCEPT ![w] = i]
Return(w)    == Become(w, Idle)
=============================================================================
