----------------------------- MODULE OtaTables -----------------------------
(***************************************************************************)
(* The state that the OTA backend's Lambda functions share - four DynamoDB *)
(* tables - and the invocations that are running.  Every Lambda has a       *)
(* module of its own that EXTENDS this one; OtaJobs composes them.          *)
(*                                                                         *)
(* The unit of atomicity is one DynamoDB or AWS IoT call: a handler is a   *)
(* chain of steps, one per call, and between two of them any other         *)
(* invocation, device or AWS IoT step may happen.  Local computation is    *)
(* folded into the call that follows it.                                   *)
(***************************************************************************)
EXTENDS Naturals, FiniteSets

CONSTANTS
    Devices,      \* devices of the inventory; thingName = deviceId (device_register)
    Versions,     \* versions of the one package modelled, ordered as numbers
    ConsentIds,   \* identifiers uuid4 can return for consent records
    Workers,      \* concurrently running Lambda invocations
    MaxSec,       \* bound: int(time.time()) takes the values 0..MaxSec
    MaxCrash,     \* bound: how many invocations may die half-way
    MapReady,     \* devices whose inventory row has the installedVersions map
    Ops,          \* requests issued in this instance (see OtaJobs)
    Env,          \* what the environment may do in this instance (see EnvNames)
    Mirroring,    \* devices whose agent also reports on the reserved Jobs topic
    Telling,      \* devices whose agent registers with its version and package
    NoJob, NoDev, NoCons

EnvNames == {"restart",    \* devices start unregistered and (re)start their agent
             "progress",   \* a device repeats IN_PROGRESS while it works
             "late",       \* a terminal report may come after the IoT timeout
             "reorder",    \* a device's status messages may overtake each other
             "dup",        \* a status message may be delivered again
             "loss",       \* a status message or lifecycle event may be lost
             "delay",      \* requests come while messages or events are under way
             "overlap",    \* a request comes while another request is handled
             "sameSecond", \* two ids of one version may be made in one second
             "console"}    \* a job is cancelled in AWS IoT, outside the OTA API

(* A job id is digilux-ota-<package>-<version>-<seconds>.                  *)
JobIds == Versions \X (0 .. MaxSec)

ASSUME OtaAssumption ==
    /\ Versions \subseteq Nat \ {0}
    /\ MaxSec \in Nat /\ MaxCrash \in Nat
    /\ MapReady \subseteq Devices /\ Mirroring \subseteq Devices
    /\ Telling \subseteq Devices
    /\ Env \subseteq EnvNames
    /\ NoJob \notin JobIds
    /\ NoDev \notin Devices
    /\ NoCons \notin ConsentIds

VARIABLES
    jobs,      \* digilux_ota_jobs: [JobIds -> JobRow]
    consents,  \* digilux_ota_user_consents: [ConsentIds -> Consent]
    pending,   \* digilux_device_data.pendingJobId, NoJob when null or absent
    inventory, \* digilux_device_data: the other OTA fields
    package,   \* digilux_ota_packages.status of each version
    inv,       \* the running invocations: [Workers -> Invocation]
    now,       \* int(time.time())
    crashes,   \* invocations that died so far
    old        \* job rows created more than STALE_JOB_DAYS ago

VARIABLES
    iot,       \* AWS IoT Jobs: one single-target job and its execution per id
    run,       \* what the device does with a job
    fw,        \* the version the device runs
    msgs,      \* status messages on their way to status_handler
    events     \* job lifecycle events on their way to job_sync

tables == <<jobs, consents, pending, inventory, package>>
awsVars == <<iot, run, fw, msgs, events>>
vars == <<jobs, consents, pending, inventory, package, inv, now, crashes, old,
          iot, run, fw, msgs, events>>

----------------------------------------------------------------------------
(* Types                                                                   *)

ReportStatus == {"IN_PROGRESS", "SUCCEEDED", "FAILED", "REJECTED", "TIMED_OUT"}
RowStatus    == {"NONE", "AWAITING_CONSENT", "QUEUED", "IN_PROGRESS",
                 "SUCCEEDED", "FAILED", "CANCELLED", "TIMED_OUT"}
LiveStatus   == {"QUEUED", "IN_PROGRESS"}
ActiveStatus == {"AWAITING_CONSENT", "QUEUED", "IN_PROGRESS"}

JobRow == [status   : RowStatus,
           type     : {"THING", "GROUP"},    \* GROUP: THING_GROUP or THING_LIST
           targets  : SUBSET Devices,
           reported : [Devices -> ReportStatus \cup {"NONE"}]]  \* deviceStatuses

Consent == [status     : {"NONE", "PENDING", "ACCEPTED", "DECLINED", "CANCELLED"},
            dev        : Devices \cup {NoDev},
            ver        : Versions \cup {0},
            deployment : JobIds \cup {NoJob},
            job        : JobIds \cup {NoJob}]

Inventory == [thing : BOOLEAN,                   \* thingName is set
              ver   : Versions \cup {0},         \* globalInstalledVersion
              installed : Versions \cup {0}]     \* installedVersions[package]

PackageStatus == {"ACTIVE", "RECALLED"}

NoRow     == [status |-> "NONE", type |-> "THING", targets |-> {},
              reported |-> [d \in Devices |-> "NONE"]]
NoConsent == [status |-> "NONE", dev |-> NoDev, ver |-> 0,
              deployment |-> NoJob, job |-> NoJob]

(* Where an invocation stands: the call it makes next.                     *)
Pcs == {"idle",
        "deployPut", "deployConsent",
        "findConsent", "decline", "readPackage", "checkPending", "clearStale",
        "createIot", "writeConsent", "putJob", "setPending",
        "aggregate", "updateRow", "clearDevice", "markTerminal",
        "abortQuery", "abortConsent", "abortCancel", "abortMark", "abortClear",
        "recallMark", "recallScan", "recallCancel", "recallWrite",
        "describeCounts", "syncWrite",
        "staleDescribe", "staleCancel", "staleWrite"}

Invocation == [pc    : Pcs,
               dev   : Devices \cup {NoDev},
               ver   : Versions \cup {0},
               job   : JobIds \cup {NoJob},
               cons  : ConsentIds \cup {NoCons},
               stat  : RowStatus \cup ReportStatus \cup {"ACCEPTED", "DECLINED"},
               agg   : RowStatus,
               newer : BOOLEAN,
               type  : {"THING", "GROUP"},
               devs  : SUBSET Devices,
               ids   : SUBSET JobIds,
               conss : SUBSET ConsentIds]

Idle == [pc |-> "idle", dev |-> NoDev, ver |-> 0, job |-> NoJob,
         cons |-> NoCons, stat |-> "NONE", agg |-> "NONE",
         newer |-> FALSE, type |-> "THING", devs |-> {}, ids |-> {}, conss |-> {}]

----------------------------------------------------------------------------
(* Steps of an invocation                                                  *)

At(w, pc) == inv[w].pc = pc

(* Worker w continues as record r.                                         *)
Become(w, r) == inv' = [inv EXCEPT ![w] = r]
Goto(w, pc)  == Become(w, [inv[w] EXCEPT !.pc = pc])
Return(w)    == Become(w, Idle)

(* One call fails: the budget of failures is shared by all invocations.    *)
Fail == crashes < MaxCrash /\ crashes' = crashes + 1

(* The second part of a job id is the clock when the id is made.  Unless   *)
(* the instance has the fault "sameSecond", no second is used twice.       *)
NewId(v)   == <<v, now>>
Fresh(id)  == jobs[id].status = "NONE" /\ iot[id].status = "NONE"
Usable(id) == "sameSecond" \in Env \/ Fresh(id)

(* A request that makes an id starts only while an id is left to make.     *)
IdLeft(v) == now < MaxSec \/ Usable(NewId(v))

SetRowStatus(id, s) == jobs' = [jobs EXCEPT ![id].status = s]

=============================================================================
