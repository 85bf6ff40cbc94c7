------------------------------ MODULE OtaJobs ------------------------------
(***************************************************************************)
(* The deployment pipeline: the Lambdas that read and write the OTA tables *)
(* run concurrently with each other, with AWS IoT Jobs and with devices.   *)
(***************************************************************************)
EXTENDS JobCreate, UserConsent, StatusHandler, JobSync, PackageRecall, DeviceRegister,
        UpdateChecks

CONSTANT Reports   \* terminal statuses the devices publish

OpNames == {"deploy", "accept", "decline", "abort", "recall", "stale"}

ASSUME OtaJobsAssumption ==
    /\ Ops \subseteq OpNames
    /\ Reports \subseteq ReportStatus \ {"IN_PROGRESS"}

Init ==
    /\ jobs = [id \in JobIds |-> NoRow]
    /\ consents = [c \in ConsentIds |-> NoConsent]
    /\ pending = [d \in Devices |-> NoJob]
    /\ inventory = [d \in Devices |-> 
                     [thing |-> "restart" \notin Env, ver |-> 0, installed |-> 0]]
    /\ package = [v \in Versions |-> "ACTIVE"]
    /\ inv = [w \in Workers |-> Idle]
    /\ now = 0 /\ crashes = 0 /\ old = {}
    /\ iot = [id \in JobIds |-> NoIot]
    /\ run = [id \in JobIds |-> "idle"]
    /\ fw = [d \in Devices |-> 0]
    /\ msgs = {} /\ events = {}

----------------------------------------------------------------------------
(* Requests of administrators and owners, and the daily schedule           *)

(* The handlers of messages and events.                                    *)
StatusPcs == {"aggregate", "updateRow", "clearDevice", "markTerminal"}
SyncPcs   == {"describeCounts", "syncWrite"}

Quiet ==
    /\ "delay" \in Env \/ (msgs = {} /\ events = {})
    /\ "overlap" \in Env \/ \A w \in Workers : inv[w].pc \in {"idle"} \cup StatusPcs \cup SyncPcs

Deploy(w) == /\ "deploy" \in Ops /\ Quiet
             /\ \E v \in Versions, ds \in SUBSET Devices, type \in {"THING", "GROUP"} :
                  DeployStart(w, v, ds, type)
Accept(w) == /\ "accept" \in Ops /\ Quiet
             /\ \E d \in Devices, v \in Versions : ConsentStart(w, d, v, "ACCEPTED")
DeclineRequest(w) ==
             /\ "decline" \in Ops /\ Quiet
             /\ \E d \in Devices, v \in Versions : ConsentStart(w, d, v, "DECLINED")
Abort(w)  == /\ "abort" \in Ops /\ Quiet
             /\ \E id \in JobIds : AbortStart(w, id)
Recall(w) == /\ "recall" \in Ops /\ Quiet
             /\ \E v \in Versions : RecallStart(w, v)
StaleCheck(w) == "stale" \in Ops /\ StaleStart(w)

Request(w) == Deploy(w) \/ Accept(w) \/ DeclineRequest(w) \/ Abort(w) \/ Recall(w)

(* The next call of a running handler.                                     *)
Continue(w) ==
    \/ DeployPut(w) \/ DeployConsent(w) \/ DeployConsentFails(w)
    \/ AbortQuery(w) \/ AbortConsent(w) \/ AbortCancel(w) \/ AbortMark(w) \/ AbortClear(w)
    \/ FindConsent(w) \/ Decline(w) \/ ReadPackage(w) \/ CheckPending(w) \/ ClearStale(w)
    \/ CreateIot(w) \/ WriteConsent(w) \/ PutJob(w) \/ SetPending(w)
    \/ ReadAggregate(w) \/ UpdateRow(w) \/ ClearDevice(w) \/ MarkTerminal(w)
    \/ DescribeCounts(w) \/ SyncWrite(w)
    \/ StaleDescribe(w) \/ StaleCancel(w) \/ StaleWrite(w)
    \/ RecallMark(w) \/ RecallScan(w) \/ RecallCancel(w) \/ RecallWrite(w)

DeliverMessage(w) == \E m \in msgs : StatusReceive(w, m)
DeliverEvent(w)   == \E e \in events : LifecycleReceive(w, e)

----------------------------------------------------------------------------
(* A handler dies between two calls: a timeout, a throttled call, a failed *)
(* key server.  AWS invokes the two asynchronous handlers again with the   *)
(* same payload, at most a few times.                                      *)

Redeliver(w) ==
    \/ /\ inv[w].pc \in StatusPcs
       /\ msgs' = msgs \cup {[job |-> inv[w].job, status |-> inv[w].stat]}
       /\ UNCHANGED events
    \/ /\ inv[w].pc \in SyncPcs
       /\ events' = events \cup
            {[job |-> inv[w].job, type |-> IF inv[w].stat = "CANCELLED"
                                           THEN "canceled" ELSE "completed"]}
       /\ UNCHANGED msgs

Crash(w) ==
    /\ inv[w].pc # "idle" /\ Fail
    /\ Return(w)
    /\ Redeliver(w) \/ UNCHANGED <<msgs, events>>
    /\ UNCHANGED <<tables, now, old, iot, run, fw>>

----------------------------------------------------------------------------
(* Time                                                                    *)

Tick == /\ now < MaxSec
        /\ now' = now + 1
        /\ UNCHANGED <<tables, inv, crashes, old, awsVars>>

(* More than STALE_JOB_DAYS pass for the rows there are.  A Lambda runs at *)
(* most 15 minutes, events come within seconds and an execution in         *)
(* progress is timed out after a day; a report can stay on a device.       *)
WeekPasses ==
    /\ "stale" \in Ops
    /\ \A w \in Workers : At(w, "idle")
    /\ events = {}
    /\ \A id \in JobIds : iot[id].exec # "IN_PROGRESS"
    /\ old' = {id \in JobIds : jobs[id].status # "NONE"}
    /\ old' # old
    /\ UNCHANGED <<tables, inv, now, crashes, awsVars>>

----------------------------------------------------------------------------

Device ==
    \/ \E d \in Devices : Register(d)
    \/ \E id \in JobIds :
         \/ DeviceStart(id)
         \/ DeviceProgress(id)
         \/ \E s \in Reports : DeviceFinish(id, s)

Aws ==
    \/ \E id \in JobIds : IotTimeout(id) \/ ConsoleCancel(id)
    \/ \E m \in msgs : LoseMessage(m)
    \/ \E e \in events : LoseEvent(e)

Next ==
    \/ \E w \in Workers : \/ Request(w) \/ StaleCheck(w)
                          \/ DeliverMessage(w) \/ DeliverEvent(w)
                          \/ Continue(w) \/ Crash(w)
    \/ Device \/ Aws \/ Tick \/ WeekPasses

Spec == Init /\ [][Next]_vars

----------------------------------------------------------------------------
(* Invariants                                                              *)

TypeOK ==
    /\ jobs \in [JobIds -> JobRow]
    /\ consents \in [ConsentIds -> Consent]
    /\ pending \in [Devices -> JobIds \cup {NoJob}]
    /\ inventory \in [Devices -> Inventory]
    /\ package \in [Versions -> PackageStatus]
    /\ inv \in [Workers -> Invocation]
    /\ now \in 0 .. MaxSec
    /\ crashes \in 0 .. MaxCrash
    /\ old \subseteq JobIds
    /\ iot \in [JobIds -> IotJob]
    /\ run \in [JobIds -> RunStatus]
    /\ fw \in [Devices -> Versions \cup {0}]
    /\ msgs \subseteq Message
    /\ events \subseteq Event

(* An ACCEPTED consent names an AWS IoT job of its own device, even when   *)
(* the handler that accepted it died half-way.                             *)
AcceptedHasJob ==
    \A c \in ConsentIds : consents[c].status = "ACCEPTED" =>
        /\ consents[c].job \in JobIds /\ Exists(consents[c].job)
        /\ iot[consents[c].job].dev = consents[c].dev

(* pendingJobId names a job that has a row in digilux_ota_jobs and an AWS  *)
(* IoT job for this device: the check in user_consent never blocks a       *)
(* device on a job that does not exist.                                    *)
PendingHasJob ==
    \A d \in Devices : pending[d] # NoJob =>
        /\ jobs[pending[d]].status # "NONE"
        /\ iot[pending[d]].dev = d

(* A row that says anything of an execution has an AWS IoT job behind it.  *)
RowHasJob ==
    \A id \in JobIds :
        jobs[id].status \notin {"NONE", "AWAITING_CONSENT", "CANCELLED"} => Exists(id)

(* What the three invariants above rest on: what a running handler holds   *)
(* in its local variables i, and what is under way, refers to what exists. *)

ConsentPcs == {"findConsent", "decline", "readPackage", "checkPending", "clearStale",
               "createIot", "writeConsent", "putJob", "setPending"}
AbortPcs   == {"abortQuery", "abortConsent", "abortCancel", "abortMark", "abortClear"}
CreatedPcs == {"writeConsent", "putJob", "setPending"}   \* the IoT job was created

HandlerTyped(i) ==
    /\ i.pc \in ConsentPcs \cup {"deployPut", "deployConsent"} => i.ver \in Versions
    /\ i.pc \in ConsentPcs \cup StatusPcs => i.dev \in Devices
    /\ i.pc \in CreatedPcs \cup AbortPcs \cup StatusPcs \cup SyncPcs
                     \cup {"checkPending", "deployConsent", "recallWrite",
                           "staleCancel", "staleWrite"} => i.job \in JobIds
    /\ i.pc = "decline" => i.cons \in ConsentIds
    /\ i.pc \in StatusPcs => i.stat \in ReportStatus
    /\ i.pc \in {"clearDevice", "markTerminal"} => i.stat # "IN_PROGRESS"
    /\ i.pc = "updateRow" => i.agg \in {"FAILED", "IN_PROGRESS", "SUCCEEDED"}
    /\ i.pc = "syncWrite" => i.stat \in {"CANCELLED", "SUCCEEDED", "FAILED"}

HandlerBacked(i) ==
    /\ i.pc \in CreatedPcs => iot[i.job].dev = i.dev
    /\ i.pc = "setPending" => jobs[i.job].status # "NONE"
    /\ i.pc \in ConsentPcs /\ i.cons # NoCons
          => consents[i.cons].dev = i.dev
    /\ i.pc \in StatusPcs => iot[i.job].dev = i.dev
    /\ i.pc \in SyncPcs => Exists(i.job)
    /\ i.pc \in {"staleCancel", "staleWrite"} =>
          \/ i.stat = "CANCELLED"
          \/ i.stat = "SUCCEEDED" /\ Exists(i.job)

IotConsistent ==
    \A id \in JobIds :
        /\ Exists(id) <=> iot[id].dev \in Devices
        /\ iot[id].exec # "NONE" => Exists(id)
        /\ run[id] # "idle" => Exists(id)

SentBacked ==
    /\ \A m \in msgs : Exists(m.job)
    /\ \A e \in events : Exists(e.job)

Backed ==
    /\ TypeOK
    /\ \A w \in Workers : HandlerTyped(inv[w]) /\ HandlerBacked(inv[w])
    /\ IotConsistent /\ SentBacked
    /\ AcceptedHasJob /\ PendingHasJob /\ RowHasJob

(* Two accepted consents never share a job, even when two acceptances make *)
(* the same id in one second: only one of them gets past create_job.       *)
JobOfOneConsent ==
    \A c1, c2 \in ConsentIds :
        /\ consents[c1].status = "ACCEPTED" /\ consents[c2].status = "ACCEPTED"
        /\ consents[c1].job = consents[c2].job
        => c1 = c2

(* A job row says SUCCEEDED, and the inventory names an installed version, *)
(* only for an update that did succeed on the device.                      *)
SuccessIsReal ==
    /\ \A id \in JobIds : jobs[id].status = "SUCCEEDED" => run[id] = "SUCCEEDED"
    /\ \A d \in Devices : inventory[d].installed # 0 =>
          \E id \in JobIds : /\ id[1] = inventory[d].installed
                             /\ iot[id].dev = d /\ run[id] = "SUCCEEDED"

(* No firmware without consent: the job of every execution belongs to an   *)
(* acceptance, on record or about to be recorded.                          *)
ConsentBehindEveryJob ==
    \A id \in JobIds : Exists(id) =>
        \/ \E c \in ConsentIds : consents[c].status = "ACCEPTED" /\ consents[c].job = id
        \/ \E w \in Workers : At(w, "writeConsent") /\ inv[w].job = id

(* Nothing is running and nothing is under way to a Lambda.                *)
Settled == /\ \A w \in Workers : At(w, "idle")
           /\ msgs = {} /\ events = {}

(* Once the terminal report of a job has been handled, pendingJobId of its *)
(* device does not name it any more.                                       *)
ReportClearsPending ==
    Settled => \A id \in JobIds, d \in Devices :
        pending[d] = id => run[id] \in {"idle", "running"}

(* Whatever the app offers can be taken: user_consent does not answer that *)
(* an update is in progress, though one handler looks at the execution and *)
(* the other at the row, and whichever release types the device may see.   *)
(* Only a device that is at work when AWS IoT gives its execution up can   *)
(* report progress of it once more, and wake the row of the ended job.     *)
OfferCanBeTaken ==
    Settled => \A d \in Devices :
        \A released \in SUBSET {v \in Versions : package[v] = "ACTIVE"} :
            Offer(d, released) # {} =>
                \/ pending[d] = NoJob
                \/ jobs[pending[d]].status \notin ActiveStatus
                \/ iot[pending[d]].exec = "TIMED_OUT"

(* A running update is never hidden from its owner: check_updates answers  *)
(* JOB_ACTIVE, update_status follows it, and no link lets the device be    *)
(* updated beside it.                                                      *)
LiveUpdateIsShown ==
    Settled => \A d \in Devices : \A id \in LiveJobs(d) :
        /\ JobActive(d) /\ pending[d] = id
        /\ ProgressShown(id) \in LiveStatus
        /\ \A v \in Versions : ~LinkGranted(d, v)

(* A recall leaves no queued job of the version.                           *)
RecalledNotQueued ==
    Settled => \A id \in JobIds :
        package[id[1]] = "RECALLED" => jobs[id].status # "QUEUED"

(* An aborted deployment leaves no consent that could still be accepted.   *)
AbortedOffersNothing ==
    Settled => \A c \in ConsentIds :
        consents[c].status = "PENDING" =>
            jobs[consents[c].deployment].status = "AWAITING_CONSENT"

(* A declined consent started no update.                                   *)
DeclinedHasNoJob ==
    \A c \in ConsentIds : consents[c].status = "DECLINED" => consents[c].job = NoJob

----------------------------------------------------------------------------
(* Action properties                                                       *)

(* A row is written as AWAITING_CONSENT or QUEUED once, when it is made:   *)
(* no report, event, abort, recall or check sends a job back to the queue. *)
NeverRequeued ==
    [][\A id \in JobIds :
          jobs[id].status # "NONE" /\ jobs'[id].status # jobs[id].status
          => jobs'[id].status \notin {"NONE", "AWAITING_CONSENT", "QUEUED"}]_vars

(* An update is granted to a device only while it has no other.            *)
Lock == INSTANCE UpdateLock WITH Device <- Devices, Update <- JobIds,
                                 live <- [d \in Devices |-> LiveJobs(d)]
OneUpdateAtATime == Lock!Spec

----------------------------------------------------------------------------
(* Liveness                                                                *)

(* Lambda runs what it was invoked with, IoT delivers what it took, an     *)
(* execution in progress is finished or timed out, time passes and the     *)
(* daily check runs.  Nothing makes a device start, or a person act.       *)
FairSpec ==
    /\ Spec
    /\ \A w \in Workers : WF_vars(Continue(w))
    /\ SF_vars(\E w \in Workers : DeliverMessage(w))
    /\ SF_vars(\E w \in Workers : DeliverEvent(w))
    /\ WF_vars(\E id \in JobIds : IotTimeout(id))
    /\ WF_vars(Tick)
    /\ SF_vars(\E w \in Workers : StaleCheck(w))
    /\ SF_vars(WeekPasses)

(* No job row stays QUEUED or IN_PROGRESS for ever, whatever was lost and  *)
(* whichever handler died.                                                 *)
RowsSettle ==
    \A id \in JobIds :
        jobs[id].status \in LiveStatus ~> jobs[id].status \notin LiveStatus

=============================================================================
