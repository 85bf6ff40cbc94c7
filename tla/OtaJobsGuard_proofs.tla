------------------------ MODULE OtaJobsGuard_proofs ------------------------
(***************************************************************************)
(* "An update is already in progress on this device": when the check that  *)
(* user_consent makes keeps its promise, and what owners and devices can   *)
(* rely on then.                                                           *)
(***************************************************************************)
EXTENDS OtaJobsOrder_proofs

(* The check is sound while one handler runs at a time and none dies, while *)
(* requests wait until reports and events were handled, nothing but the    *)
(* device and its timeout ends an execution, and the device reports before *)
(* that timeout, in words AWS IoT accepts.                                 *)
Undisturbed ==
    /\ \A u, w \in Workers : u = w
    /\ MaxCrash = 0
    /\ Ops \cap {"abort", "recall", "stale"} = {}
    /\ Env \cap {"delay", "late", "console"} = {}
    /\ "TIMED_OUT" \notin Reports

Live(id)   == iot[id].exec \in ExecLive
Active(id) == jobs[id].status \in ActiveStatus

(* An acceptance has made the job id and not entered it in the device row. *)
Making(id) == \E w \in Workers : inv[w].pc \in CreatedPcs /\ inv[w].job = id
Consenting == \E w \in Workers : inv[w].pc \in ConsentPcs

NoAdministration ==
    \A w \in Workers : inv[w].pc \notin AbortPcs \cup RecallPcs \cup StalePcs

(* The row of the device blocks the next acceptance while an execution is  *)
(* live.                                                                   *)
LiveGuarded ==
    \A id \in JobIds : Live(id) =>
        Making(id) \/ (pending[iot[id].dev] = id /\ Active(id))

(* A terminal report under way will not take a later update for its own.   *)
ReportGuarded ==
    \A m \in msgs : m.status # "IN_PROGRESS" =>
        /\ m.status # "TIMED_OUT"
        /\ \/ Making(m.job)
           \/ pending[iot[m.job].dev] = m.job /\ Active(m.job)
           \/ pending[iot[m.job].dev] \in {m.job, NoJob} /\ ~Consenting

EventGuarded == \A e \in events : ~Live(e.job)

(* The reports of a row are its own device's.                              *)
OwnReports ==
    \A id \in JobIds, d \in Devices :
        jobs[id].reported[d] # "NONE" => d = iot[id].dev

(* What a handler read is still so, and what it writes late is settled.    *)
Guarding(i) ==
    /\ i.pc \in {"findConsent", "readPackage", "checkPending", "clearStale"} =>
          i.job = pending[i.dev]
    /\ i.pc = "clearStale" => ~Active(i.job)
    /\ i.pc \in CreatedPcs \cup {"createIot"} => pending[i.dev] = NoJob
    /\ i.pc = "setPending" => Active(i.job)
    /\ i.pc \in StatusPcs /\ i.stat # "IN_PROGRESS" =>
          /\ ~Live(i.job)
          /\ i.pc # "markTerminal" => pending[i.dev] \in {i.job, NoJob}
    /\ i.pc = "updateRow" /\ i.stat = "IN_PROGRESS" => i.agg = "IN_PROGRESS"
    /\ i.pc \in SyncPcs => ~Live(i.job)

GuardInv ==
    /\ Backed /\ NoAdministration
    /\ LiveGuarded /\ ReportGuarded /\ EventGuarded /\ OwnReports
    /\ \A w \in Workers : Guarding(inv[w])

USE DEF ConsentPcs, AbortPcs, CreatedPcs, StatusPcs, SyncPcs

----------------------------------------------------------------------------
(* The only handler                                                        *)

LEMMA OnlyWorker ==
    ASSUME Undisturbed, NEW w \in Workers
    PROVE  /\ \A u \in Workers : u = w
           /\ \A id : Making(id) <=> inv[w].pc \in CreatedPcs /\ inv[w].job = id
           /\ \A id : Making(id)' <=> inv'[w].pc \in CreatedPcs /\ inv'[w].job = id
           /\ Consenting <=> inv[w].pc \in ConsentPcs
           /\ Consenting' <=> inv'[w].pc \in ConsentPcs
  BY DEF Undisturbed, Making, Consenting

(* The parts of the invariant, for the only handler.                       *)
LEMMA GuardBy ==
    ASSUME Undisturbed, Backed', NEW w \in Workers,
           inv'[w].pc \notin AbortPcs \cup RecallPcs \cup StalePcs,
           LiveGuarded', ReportGuarded', EventGuarded', OwnReports', Guarding(inv[w])'
    PROVE  GuardInv'
<1>1. \A u \in Workers : u = w
  BY OnlyWorker
<1>2. NoAdministration' /\ \A u \in Workers : Guarding(inv[u])'
  BY <1>1 DEF NoAdministration
<1> QED
  BY <1>2 DEF GuardInv

(* A step that reads, or writes consents, and moves the handler on.        *)
LEMMA GuardRead ==
    ASSUME Undisturbed, GuardInv, Backed', NEW w \in Workers,
           UNCHANGED <<jobs, pending, iot, msgs, events>>,
           inv'[w].pc \notin AbortPcs \cup RecallPcs \cup StalePcs,
           inv[w].pc \in CreatedPcs => inv'[w].pc \in CreatedPcs /\ inv'[w].job = inv[w].job,
           inv'[w].pc \in ConsentPcs => inv[w].pc \in ConsentPcs \/ msgs = {},
           Guarding(inv[w])'
    PROVE  GuardInv'
<1>1. /\ \A id : Making(id) => Making(id)'
      /\ Consenting' => Consenting \/ msgs = {}
  BY OnlyWorker
<1>2. \A id : (Live(id)' <=> Live(id)) /\ (Active(id)' <=> Active(id))
  BY DEF Live, Active
<1>3. LiveGuarded' /\ ReportGuarded' /\ EventGuarded' /\ OwnReports'
  BY <1>1, <1>2 DEF GuardInv, LiveGuarded, ReportGuarded, EventGuarded, OwnReports
<1> QED
  BY <1>3, GuardBy

----------------------------------------------------------------------------
(* Executions                                                              *)

(* No execution comes to life, at most one moves, and an event tells of    *)
(* one that ended.                                                         *)
ExecutionsEnd ==
    /\ \A id \in JobIds : /\ Exists(id)' <=> Exists(id)
                          /\ iot'[id].dev = iot[id].dev
                          /\ Live(id)' => Live(id)
    /\ \A j, k \in JobIds : Live(j) /\ ~Live(j)' /\ Live(k) /\ ~Live(k)' => j = k
    /\ \A e \in events' : e \in events \/ ~Live(e.job)'

LEMMA ExecutionsStill ==
    ASSUME UNCHANGED iot, events' \subseteq events
    PROVE  ExecutionsEnd
  BY DEF ExecutionsEnd, Live, Exists

LEMMA ExecutionEnds ==
    ASSUME Backed, NEW id \in JobIds, NEW s, s \notin ExecLive, EndExecution(id, s)
    PROVE  ExecutionsEnd /\ ~Live(id)'
<1>1. iot \in [JobIds -> IotJob] /\ events \subseteq Event
  BY DEF Backed, TypeOK
<1>2. /\ iot'[id].dev = iot[id].dev /\ iot'[id].exec = s
      /\ iot'[id].status = "NONE" <=> iot[id].status = "NONE"
      /\ \A k \in JobIds : k # id => iot'[k] = iot[k]
  BY <1>1 DEF EndExecution
<1>3. \A e \in events' : e \in events \/ e.job = id
  BY DEF EndExecution
<1> QED
  BY <1>2, <1>3 DEF ExecutionsEnd, Live, Exists

LEMMA ExecutionReported ==
    ASSUME Backed, NEW id \in JobIds, NEW s \in ReportStatus, UpdateExecution(id, s)
    PROVE  /\ ExecutionsEnd
           /\ s \notin {"IN_PROGRESS", "TIMED_OUT"} => ~Live(id)'
<1>1. CASE ~(iot[id].exec \in ExecLive /\ s # "TIMED_OUT")
  <2>1. UNCHANGED <<iot, events>>
    BY <1>1 DEF UpdateExecution
  <2> QED
    BY <1>1, <2>1, ExecutionsStill DEF Live
<1>2. CASE iot[id].exec \in ExecLive /\ s = "IN_PROGRESS"
  <2>1. UNCHANGED events /\ iot' = [iot EXCEPT ![id] = [@ EXCEPT !.exec = s]]
    BY <1>2 DEF UpdateExecution
  <2>2. iot \in [JobIds -> IotJob]
    BY DEF Backed, TypeOK
  <2>3. /\ iot'[id].dev = iot[id].dev /\ Live(id)
        /\ \A k \in JobIds : k # id => iot'[k] = iot[k]
    BY <1>2, <2>1, <2>2 DEF IotJob, Live
  <2> QED
    BY <1>2, <2>1, <2>3 DEF ExecutionsEnd, Live, Exists
<1>3. CASE iot[id].exec \in ExecLive /\ s \notin {"IN_PROGRESS", "TIMED_OUT"}
  <2>1. EndExecution(id, s) /\ s \notin ExecLive
    BY <1>3 DEF UpdateExecution, ReportStatus, ExecLive
  <2> QED
    BY <2>1, ExecutionEnds
<1> QED
  BY <1>1, <1>2, <1>3

(* The report that a handler takes is mirrored: no call fails.             *)
LEMMA ReportMirrored ==
    ASSUME Undisturbed, Backed, NEW w \in Workers, NEW m \in msgs, StatusReceive(w, m)
    PROVE  /\ m.job \in JobIds /\ m.status \in ReportStatus
           /\ UpdateExecution(m.job, m.status)
           /\ ExecutionsEnd
           /\ m.status \notin {"IN_PROGRESS", "TIMED_OUT"} => ~Live(m.job)'
<1>1. m.job \in JobIds /\ m.status \in ReportStatus
  BY DEF Backed, TypeOK, Message
<1>2. UpdateExecution(m.job, m.status)
  BY NoCrash DEF Undisturbed, StatusReceive
<1> QED
  BY <1>1, <1>2, ExecutionReported

----------------------------------------------------------------------------
(* Devices and AWS IoT                                                     *)

(* A step that moves no handler and writes no row of a job or a device; a  *)
(* terminal report it sends is of a live execution.                        *)
LEMMA GuardOutside ==
    ASSUME Undisturbed, GuardInv, Backed', UNCHANGED <<inv, jobs, pending>>, ExecutionsEnd,
           \A m \in msgs' : m \in msgs \/ m.status = "IN_PROGRESS"
                                       \/ (m.status # "TIMED_OUT" /\ Live(m.job))
    PROVE  GuardInv'
<1>0. /\ Backed /\ \A id : (Making(id)' <=> Making(id)) /\ (Active(id)' <=> Active(id))
      /\ Consenting' <=> Consenting
  BY DEF GuardInv, Making, Active, Consenting
<1>1. /\ \A m \in msgs' : m.job \in JobIds
      /\ \A e \in events : e.job \in JobIds
  BY DEF GuardInv, Backed, TypeOK, Message, Event
<1>2. LiveGuarded'
  BY <1>0 DEF GuardInv, LiveGuarded, ExecutionsEnd
<1>3. ReportGuarded'
  BY <1>0, <1>1 DEF GuardInv, LiveGuarded, ReportGuarded, ExecutionsEnd
<1>4. EventGuarded'
  BY <1>1 DEF GuardInv, EventGuarded, ExecutionsEnd
<1>5. OwnReports'
  BY DEF GuardInv, OwnReports, ExecutionsEnd
<1>6. ASSUME NEW w \in Workers PROVE Guarding(inv[w])'
  <2>1. PICK i \in Invocation : i = inv[w] /\ i = inv'[w] /\ HandlerTyped(i) /\ Guarding(i)
    BY <1>0, Moving DEF GuardInv
  <2>2. i.pc \in StatusPcs \cup SyncPcs => (Live(i.job)' => Live(i.job))
    BY <2>1 DEF HandlerTyped, ExecutionsEnd
  <2>3. Guarding(i)'
    BY <1>0, <2>1, <2>2 DEF Guarding
  <2> QED
    BY <2>1, <2>3 DEF Guarding
<1> QED
  BY <1>2, <1>3, <1>4, <1>5, <1>6 DEF GuardInv, NoAdministration

LEMMA DeviceGuard ==
    ASSUME Undisturbed, GuardInv, Backed', Device
    PROVE  GuardInv'
<1>0. Backed /\ Reports \subseteq ReportStatus
  BY OtaJobsAssumption DEF GuardInv
<1>1. ASSUME NEW d \in Devices, Register(d) PROVE GuardInv'
  BY <1>1, GuardOutside, ExecutionsStill DEF Register, awsVars
<1>2. ASSUME NEW id \in JobIds, NEW s \in ReportStatus, Report(id, s),
             UNCHANGED <<inv, jobs, pending>>,
             s = "IN_PROGRESS" \/ (s # "TIMED_OUT" /\ Live(id))
      PROVE  GuardInv'
  <2>1. \A m \in msgs' : m \in msgs \/ (m.job = id /\ m.status = s)
    BY <1>2 DEF Report
  <2>2. ExecutionsEnd
    BY <1>0, <1>2, ExecutionReported, ExecutionsStill DEF Report
  <2> QED
    BY <1>2, <2>1, <2>2, GuardOutside
<1>3. ASSUME NEW id \in JobIds, DeviceStart(id) \/ DeviceProgress(id) PROVE GuardInv'
  BY <1>2, <1>3 DEF DeviceStart, DeviceProgress, tables, ReportStatus
<1>4. ASSUME NEW id \in JobIds, NEW s \in Reports, DeviceFinish(id, s) PROVE GuardInv'
  <2>1. Live(id) /\ s # "TIMED_OUT"
    BY <1>4 DEF DeviceFinish, Undisturbed, Live
  <2> QED
    BY <1>0, <1>2, <1>4, <2>1 DEF DeviceFinish, tables
<1> QED
  BY <1>1, <1>3, <1>4 DEF Device

LEMMA AwsGuard ==
    ASSUME Undisturbed, GuardInv, Backed', Aws \/ Tick \/ WeekPasses \/ UNCHANGED vars
    PROVE  GuardInv'
<1>0. Backed
  BY DEF GuardInv
<1>1. ASSUME NEW id \in JobIds, IotTimeout(id) PROVE GuardInv'
  <2>1. ExecutionsEnd
    BY <1>0, <1>1, ExecutionEnds DEF IotTimeout, ExecLive
  <2> QED
    BY <1>1, <2>1, GuardOutside DEF IotTimeout, tables
<1>2. \A id \in JobIds : ~ConsoleCancel(id)
  BY DEF Undisturbed, ConsoleCancel
<1>3. CASE \/ \E m \in msgs : LoseMessage(m)
           \/ \E e \in events : LoseEvent(e)
           \/ Tick \/ WeekPasses \/ UNCHANGED vars
  <2>1. /\ UNCHANGED <<inv, jobs, pending, iot>>
        /\ msgs' \subseteq msgs /\ events' \subseteq events
    BY <1>3 DEF LoseMessage, LoseEvent, Tick, WeekPasses, vars, tables, awsVars
  <2> QED
    BY <2>1, GuardOutside, ExecutionsStill
<1> QED
  BY <1>1, <1>2, <1>3 DEF Aws

----------------------------------------------------------------------------
(* Requests                                                                *)

LEMMA StartGuard ==
    ASSUME Undisturbed, GuardInv, Backed', NEW w \in Workers, Request(w)
    PROVE  GuardInv'
<1>0. Backed
  BY DEF GuardInv
<1>1. /\ UNCHANGED <<jobs, pending, iot, msgs, events>> /\ msgs = {}
      /\ At(w, "idle")
  BY <1>0, RequestStarts DEF Undisturbed, Quiet, tables, awsVars
<1>2. ASSUME NEW d \in Devices, NEW v \in Versions, NEW a, ConsentStart(w, d, v, a)
      PROVE  inv'[w].pc = "findConsent" /\ inv'[w].dev = d /\ inv'[w].job = pending[d]
  <2>1. PICK r : r = [Idle EXCEPT !.pc = "findConsent", !.dev = d, !.ver = v, !.stat = a,
                                  !.job = pending[d], !.newer = v > inventory[d].ver]
    OBVIOUS
  <2>2. r.pc = "findConsent" /\ r.dev = d /\ r.job = pending[d]
    BY <2>1 DEF Idle
  <2> QED
    BY <1>0, <1>2, <2>1, <2>2, BecomesAt DEF ConsentStart
<1>3. ASSUME NEW v \in Versions, NEW ds \in SUBSET Devices, NEW type \in {"THING", "GROUP"},
             DeployStart(w, v, ds, type)
      PROVE  inv'[w].pc = "deployPut"
  <2>1. PICK r : r = [Idle EXCEPT !.pc = "deployPut", !.ver = v, !.devs = ds, !.type = type]
    OBVIOUS
  <2>2. r.pc = "deployPut"
    BY <2>1 DEF Idle
  <2> QED
    BY <1>0, <1>3, <2>1, <2>2, BecomesAt DEF DeployStart
<1>4. \/ inv'[w].pc = "deployPut"
      \/ inv'[w].pc = "findConsent" /\ inv'[w].job = pending[inv'[w].dev]
  BY <1>2, <1>3 DEF Request, Deploy, Accept, DeclineRequest, Abort, Recall, Undisturbed
<1>5. Guarding(inv[w])'
  BY <1>1, <1>4 DEF Guarding
<1>6. inv'[w].pc \notin AbortPcs \cup RecallPcs \cup StalePcs
  BY <1>4 DEF RecallPcs, StalePcs
<1> QED
  BY <1>1, <1>5, <1>6, GuardRead DEF At

(* A deployment writes rows that wait for consent.                         *)
LEMMA DeployGuard ==
    ASSUME Undisturbed, GuardInv, Backed', NEW w \in Workers, DeployCall(w)
    PROVE  GuardInv'
<1>0. Backed
  BY DEF GuardInv
<1>1. inv[w].pc \in DeployPcs /\ inv'[w].pc \in {"idle", "deployConsent"}
  BY <1>0, DeployTurn
<1>2. Guarding(inv[w])' /\ inv'[w].pc \notin AbortPcs \cup RecallPcs \cup StalePcs
  BY <1>1 DEF Guarding, RecallPcs, StalePcs
<1>3. inv[w].pc \notin CreatedPcs /\ inv'[w].pc \notin ConsentPcs
  BY <1>1 DEF DeployPcs
<1>4. CASE DeployConsent(w) \/ DeployConsentFails(w)
  <2>1. UNCHANGED <<jobs, pending, iot, msgs, events>>
    BY <1>4 DEF DeployConsent, DeployConsentFails, tables, awsVars
  <2> QED
    BY <1>2, <1>3, <2>1, GuardRead
<1>5. CASE DeployPut(w)
  <2>1. PICK i \in Invocation : i = inv[w]
    BY <1>0, Moving
  <2>2. PICK row : row = [NoRow EXCEPT !.status = "AWAITING_CONSENT", !.type = i.type,
                                       !.targets = i.devs]
    OBVIOUS
  <2>3. row.status = "AWAITING_CONSENT" /\ \A d \in Devices : row.reported[d] = "NONE"
    BY <2>2 DEF NoRow
  <2>4. /\ jobs' = [jobs EXCEPT ![NewId(i.ver)] = row]
        /\ UNCHANGED <<pending, iot, msgs, events>>
    BY <1>5, <2>1, <2>2 DEF DeployPut, awsVars
  <2>5. /\ \A id \in JobIds : (Active(id) => Active(id)') /\ (Live(id)' <=> Live(id))
        /\ \A id \in JobIds, d \in Devices :
              jobs'[id].reported[d] # "NONE" => jobs[id].reported[d] # "NONE"
    BY <1>0, <2>3, <2>4 DEF Active, Live, ActiveStatus, Backed, TypeOK
  <2>6. /\ \A m \in msgs : m.job \in JobIds
        /\ \A e \in events : e.job \in JobIds
        /\ \A id : ~Making(id) /\ (Making(id)' <=> inv'[w].pc \in CreatedPcs /\ inv'[w].job = id)
        /\ ~Consenting'
    BY <1>0, <1>3, OnlyWorker DEF Backed, TypeOK, Message, Event
  <2>7. LiveGuarded' /\ ReportGuarded' /\ EventGuarded' /\ OwnReports'
    BY <2>4, <2>5, <2>6 DEF GuardInv, LiveGuarded, ReportGuarded, EventGuarded, OwnReports
  <2> QED
    BY <1>2, <2>7, GuardBy
<1> QED
  BY <1>4, <1>5 DEF DeployCall

----------------------------------------------------------------------------
(* An acceptance or a decline                                              *)

(* What is live, and what was reported, is an update of a device.          *)
LEMMA OfDevices ==
    ASSUME Backed
    PROVE  /\ \A id \in JobIds : Live(id) => iot[id].dev \in Devices
           /\ \A m \in msgs : m.job \in JobIds /\ iot[m.job].dev \in Devices
  BY DEF Backed, IotConsistent, SentBacked, TypeOK, Message, Live, ExecLive

LEMMA ConsentReads ==
    ASSUME Undisturbed, GuardInv, Backed', NEW w \in Workers,
           \/ FindConsent(w) \/ Decline(w) \/ ReadPackage(w) \/ CheckPending(w)
           \/ WriteConsent(w)
    PROVE  GuardInv'
<1>0. Backed /\ ~Fail
  BY NoCrash DEF GuardInv, Undisturbed
<1>1. UNCHANGED <<jobs, pending, iot, msgs, events>>
  BY DEF FindConsent, Decline, ReadPackage, CheckPending, WriteConsent, tables, awsVars
<1>2. PICK i \in Invocation : i = inv[w] /\ Guarding(i)
  BY <1>0, Moving DEF GuardInv
<1>3. ConsentCall(w)
  BY DEF ConsentCall
<1>4. /\ i.pc \in ConsentPcs
      /\ \/ inv'[w].pc = "idle"
         \/ inv'[w].pc \in Answering /\ Same(w)
      /\ inv'[w].pc \in Answering \ {"writeConsent"} => inv'[w].job = i.job
  BY <1>0, <1>2, <1>3, ConsentTurn
<1>5. CASE inv'[w].pc = "idle"
  <2>0. ASSUME WriteConsent(w) PROVE FALSE
    <3>1. inv'[w].pc = "putJob"
      BY <1>0, <2>0, GoesTo DEF WriteConsent
    <3> QED
      BY <1>5, <3>1
  <2>1. i.pc \notin CreatedPcs
    BY <1>2, <2>0 DEF FindConsent, Decline, ReadPackage, CheckPending, At
  <2>2. Guarding(inv[w])' /\ inv'[w].pc \notin AbortPcs \cup RecallPcs \cup StalePcs
    BY <1>5 DEF Guarding, RecallPcs, StalePcs
  <2> QED
    BY <1>1, <1>2, <1>5, <2>1, <2>2, GuardRead
<1>6. ASSUME NEW p \in Answering, inv'[w].pc = p, inv'[w].job = i.job, inv'[w].dev = i.dev,
             i.pc \in CreatedPcs => p \in CreatedPcs,
             p \in {"readPackage", "checkPending", "clearStale"} => i.job = pending[i.dev],
             p = "clearStale" => ~Active(i.job),
             p \in CreatedPcs \cup {"createIot"} => pending[i.dev] = NoJob,
             p # "setPending"
      PROVE  GuardInv'
  <2>1. Guarding(inv[w])'
    BY <1>1, <1>6 DEF Guarding, Answering, Active
  <2> QED
    BY <1>1, <1>2, <1>4, <1>6, <2>1, GuardRead DEF Answering, RecallPcs, StalePcs
<1>7. CASE FindConsent(w) /\ inv'[w].pc # "idle"
  <2>1. i.pc = "findConsent" /\ inv'[w].pc \in {"decline", "readPackage"}
    BY <1>0, <1>2, <1>3, <1>4, <1>7, ConsentTurn DEF FindConsent, At, Answering
  <2> QED
    BY <1>2, <1>4, <1>6, <2>1 DEF Guarding, Answering, Same
<1>8. CASE ReadPackage(w) /\ inv'[w].pc # "idle"
  <2>1. i.pc = "readPackage"
    BY <1>2, <1>8 DEF ReadPackage, At
  <2>2. Goto(w, IF i.job = NoJob THEN "createIot" ELSE "checkPending")
    BY <1>0, <1>2, <1>8, GoesHome DEF ReadPackage
  <2>3. inv'[w].pc = IF i.job = NoJob THEN "createIot" ELSE "checkPending"
    BY <1>0, <2>2, GoesTo
  <2> QED
    BY <1>2, <1>4, <1>6, <2>1, <2>3 DEF Guarding, Answering, Same
<1>9. CASE CheckPending(w) /\ inv'[w].pc # "idle"
  <2>1. i.pc = "checkPending"
    BY <1>2, <1>9 DEF CheckPending, At
  <2>2. Goto(w, "clearStale") /\ ~Active(i.job)
    BY <1>0, <1>2, <1>9, GoesHome DEF CheckPending, Active
  <2>3. inv'[w].pc = "clearStale"
    BY <1>0, <2>2, GoesTo
  <2> QED
    BY <1>2, <1>4, <1>6, <2>1, <2>2, <2>3 DEF Guarding, Answering, Same
<1>10. CASE WriteConsent(w)
  <2>1. i.pc = "writeConsent" /\ inv'[w].pc = "putJob"
    BY <1>0, <1>2, <1>10, GoesTo DEF WriteConsent, At
  <2> QED
    BY <1>2, <1>4, <1>6, <2>1 DEF Guarding, Answering, Same
<1>11. CASE Decline(w)
  BY <1>0, <1>5, <1>11, GoesHome DEF Decline
<1> QED
  BY <1>5, <1>7, <1>8, <1>9, <1>10, <1>11

(* The stale entry of the device row goes only when no update is live and  *)
(* no terminal report of one is under way.                                 *)
LEMMA ClearStaleGuard ==
    ASSUME Undisturbed, GuardInv, Backed', NEW w \in Workers, ClearStale(w)
    PROVE  GuardInv'
<1>0. Backed /\ pending \in [Devices -> JobIds \cup {NoJob}]
  BY DEF GuardInv, Backed, TypeOK
<1>1. PICK i \in Invocation : i = inv[w] /\ Guarding(i) /\ HandlerTyped(i)
  BY <1>0, Moving DEF GuardInv
<1>2. i.pc = "clearStale" /\ i.dev \in Devices /\ i.job = pending[i.dev] /\ ~Active(i.job)
  BY <1>1 DEF ClearStale, At, HandlerTyped, Guarding
<1>3. /\ pending' = [pending EXCEPT ![i.dev] = NoJob] /\ UNCHANGED <<jobs, iot, msgs, events>>
      /\ inv'[w].pc = "createIot" /\ inv'[w].dev = i.dev
  BY <1>0, <1>1, GoesTo DEF ClearStale, awsVars, Same
<1>4. /\ \A id : ~Making(id) /\ ~Making(id)'
      /\ Consenting
      /\ \A id : (Active(id)' <=> Active(id)) /\ (Live(id)' <=> Live(id))
  BY <1>1, <1>2, <1>3, OnlyWorker DEF Active, Live
<1>5. \A id : (pending[iot[id].dev] = id /\ Active(id)) => iot[id].dev # i.dev
  BY <1>2
<1>6. \A d \in Devices : d # i.dev => pending'[d] = pending[d]
  BY <1>0, <1>3
<1>7. LiveGuarded' /\ ReportGuarded'
  BY <1>0, <1>3, <1>4, <1>5, <1>6, OfDevices DEF GuardInv, LiveGuarded, ReportGuarded
<1>8. EventGuarded' /\ OwnReports' /\ Guarding(inv[w])'
  BY <1>0, <1>2, <1>3, <1>4 DEF GuardInv, EventGuarded, OwnReports, Guarding
<1> QED
  BY <1>3, <1>7, <1>8, GuardBy DEF RecallPcs, StalePcs

LEMMA CreateIotGuard ==
    ASSUME Undisturbed, GuardInv, Backed', NEW w \in Workers, CreateIot(w)
    PROVE  GuardInv'
<1>0. Backed /\ iot \in [JobIds -> IotJob]
  BY DEF GuardInv, Backed, TypeOK
<1>1. PICK i \in Invocation : i = inv[w] /\ Guarding(i)
  BY <1>0, Moving DEF GuardInv
<1>2. i.pc = "createIot" /\ pending[i.dev] = NoJob
  BY <1>1 DEF CreateIot, At, Guarding
<1>3. UNCHANGED <<jobs, pending, msgs>>
  BY DEF CreateIot, tables
<1>4. PICK id \in JobIds :
        \/ Return(w) /\ UNCHANGED <<iot, events>>
        \/ /\ ~Exists(id) /\ UNCHANGED events
           /\ iot' = [iot EXCEPT ![id] = [status |-> "IN_PROGRESS", dev |-> i.dev,
                                          exec |-> "QUEUED"]]
           /\ inv'[w].pc = "writeConsent" /\ inv'[w].job = id /\ Same(w)
  BY <1>0, <1>1, CreateTurn
<1>5. CASE Return(w) /\ UNCHANGED <<iot, events>>
  <2>1. inv'[w].pc = "idle"
    BY <1>0, <1>5, GoesHome
  <2>2. Guarding(inv[w])' /\ inv'[w].pc \notin AbortPcs \cup RecallPcs \cup StalePcs
    BY <2>1 DEF Guarding, RecallPcs, StalePcs
  <2> QED
    BY <1>1, <1>2, <1>3, <1>5, <2>1, <2>2, GuardRead
<1>6. CASE /\ ~Exists(id) /\ UNCHANGED events
           /\ iot' = [iot EXCEPT ![id] = [status |-> "IN_PROGRESS", dev |-> i.dev,
                                          exec |-> "QUEUED"]]
           /\ inv'[w].pc = "writeConsent" /\ inv'[w].job = id /\ Same(w)
  <2>1. /\ \A k \in JobIds : k # id => iot'[k] = iot[k]
        /\ Making(id)' /\ \A k : ~Making(k)
        /\ Consenting /\ \A k : Active(k)' <=> Active(k)
    BY <1>0, <1>1, <1>2, <1>3, <1>6, OnlyWorker DEF Active
  <2>2. /\ \A m \in msgs : m.job \in JobIds \ {id}
        /\ \A e \in events : e.job \in JobIds \ {id}
    BY <1>0, <1>6 DEF Backed, TypeOK, Message, Event, SentBacked
  <2>3. LiveGuarded' /\ ReportGuarded' /\ EventGuarded'
    BY <1>3, <1>6, <2>1, <2>2 DEF GuardInv, LiveGuarded, ReportGuarded, EventGuarded, Live
  <2>4. \A d \in Devices : jobs[id].reported[d] = "NONE"
    BY <1>0, <1>6 DEF GuardInv, OwnReports, Backed, IotConsistent
  <2>5. OwnReports'
    BY <1>3, <2>1, <2>4 DEF GuardInv, OwnReports
  <2>6. Guarding(inv[w])'
    BY <1>1, <1>2, <1>3, <1>6 DEF Guarding, Same
  <2> QED
    BY <1>6, <2>3, <2>5, <2>6, GuardBy DEF RecallPcs, StalePcs
<1> QED
  BY <1>4, <1>5, <1>6

LEMMA PutJobGuard ==
    ASSUME Undisturbed, GuardInv, Backed', NEW w \in Workers, PutJob(w)
    PROVE  GuardInv'
<1>0. Backed /\ jobs \in [JobIds -> JobRow]
  BY DEF GuardInv, Backed, TypeOK
<1>1. PICK i \in Invocation : i = inv[w] /\ Guarding(i) /\ HandlerTyped(i)
  BY <1>0, Moving DEF GuardInv
<1>2. i.pc = "putJob" /\ pending[i.dev] = NoJob /\ i.job \in JobIds
  BY <1>1 DEF PutJob, At, Guarding, HandlerTyped
<1>3. PICK row : /\ row = [NoRow EXCEPT !.status = "QUEUED", !.targets = {i.dev}]
                 /\ jobs' = [jobs EXCEPT ![i.job] = row]
  BY <1>1 DEF PutJob
<1>4. row.status = "QUEUED" /\ \A d \in Devices : row.reported[d] = "NONE"
  BY <1>3 DEF NoRow
<1>5. /\ UNCHANGED <<pending, iot, msgs, events>>
      /\ inv'[w].pc = "setPending" /\ inv'[w].job = i.job /\ inv'[w].dev = i.dev
  BY <1>0, <1>1, GoesTo DEF PutJob, awsVars, Same
<1>6. /\ \A id : Making(id)' <=> Making(id)
      /\ Consenting /\ Active(i.job)'
      /\ \A id \in JobIds : (Active(id) => Active(id)') /\ (Live(id)' <=> Live(id))
  BY <1>0, <1>1, <1>2, <1>3, <1>4, <1>5, OnlyWorker DEF Active, Live, ActiveStatus
<1>7. \A m \in msgs : m.job \in JobIds
  BY <1>0 DEF Backed, TypeOK, Message
<1>8. LiveGuarded' /\ ReportGuarded'
  BY <1>5, <1>6, <1>7 DEF GuardInv, LiveGuarded, ReportGuarded
<1>9. EventGuarded' /\ Guarding(inv[w])'
  BY <1>2, <1>5, <1>6 DEF GuardInv, EventGuarded, Guarding, Live
<1>10. OwnReports'
  BY <1>0, <1>3, <1>4, <1>5 DEF GuardInv, OwnReports
<1> QED
  BY <1>5, <1>8, <1>9, <1>10, GuardBy DEF RecallPcs, StalePcs

LEMMA SetPendingGuard ==
    ASSUME Undisturbed, GuardInv, Backed', NEW w \in Workers, SetPending(w)
    PROVE  GuardInv'
<1>0. Backed /\ pending \in [Devices -> JobIds \cup {NoJob}]
  BY DEF GuardInv, Backed, TypeOK
<1>1. PICK i \in Invocation : /\ i = inv[w] /\ Guarding(i)
                              /\ HandlerTyped(i) /\ HandlerBacked(i)
  BY <1>0, Moving DEF GuardInv
<1>2. /\ i.pc = "setPending" /\ pending[i.dev] = NoJob /\ i.job \in JobIds
      /\ i.dev \in Devices /\ iot[i.job].dev = i.dev /\ Active(i.job)
  BY <1>1 DEF SetPending, At, Guarding, HandlerTyped, HandlerBacked
<1>3. /\ pending' = [pending EXCEPT ![i.dev] = i.job] /\ UNCHANGED <<jobs, iot, msgs, events>>
      /\ inv'[w].pc = "idle"
  BY <1>0, <1>1, GoesHome DEF SetPending, awsVars
<1>4. /\ \A id : Making(id) => id = i.job
      /\ Consenting
      /\ \A id : (Active(id)' <=> Active(id)) /\ (Live(id)' <=> Live(id))
  BY <1>1, <1>2, <1>3, OnlyWorker DEF Active, Live
<1>5. \A id \in JobIds : pending[iot[id].dev] = id => iot[id].dev # i.dev
  BY <1>2, OtaAssumption
<1>6. pending'[i.dev] = i.job /\ \A d \in Devices : d # i.dev => pending'[d] = pending[d]
  BY <1>0, <1>2, <1>3
<1>7. \A m \in msgs : m.job \in JobIds
  BY <1>0 DEF Backed, TypeOK, Message
<1>8. LiveGuarded' /\ ReportGuarded'
  BY <1>0, <1>2, <1>3, <1>4, <1>5, <1>6, <1>7, OfDevices
  DEF GuardInv, LiveGuarded, ReportGuarded
<1>9. EventGuarded' /\ OwnReports' /\ Guarding(inv[w])'
  BY <1>3, <1>4 DEF GuardInv, EventGuarded, OwnReports, Guarding
<1> QED
  BY <1>3, <1>8, <1>9, GuardBy DEF RecallPcs, StalePcs

LEMMA ConsentGuard ==
    ASSUME Undisturbed, GuardInv, Backed', NEW w \in Workers, ConsentCall(w)
    PROVE  GuardInv'
  BY ConsentReads, ClearStaleGuard, CreateIotGuard, PutJobGuard, SetPendingGuard
  DEF ConsentCall

----------------------------------------------------------------------------
(* Reports and events                                                      *)

(* Between a report and its last write no acceptance is handled, so that   *)
(* the report still is of the update the device row names, if any.         *)
LEMMA ReceiveGuard ==
    ASSUME Undisturbed, GuardInv, Backed', NEW w \in Workers, NEW m \in msgs,
           StatusReceive(w, m)
    PROVE  GuardInv'
<1>0. Backed
  BY DEF GuardInv
<1>1. /\ m.job \in JobIds /\ m.status \in ReportStatus
      /\ \A k \in msgs : k.job \in JobIds
      /\ \A e \in events : e.job \in JobIds
  BY <1>0 DEF Backed, TypeOK, Message, Event
<1>2. PICK r : r = [Idle EXCEPT !.pc = "aggregate", !.job = m.job, !.stat = m.status,
                                !.dev = iot[m.job].dev]
  OBVIOUS
<1>3. /\ r.pc = "aggregate" /\ r.job = m.job /\ r.stat = m.status
      /\ r.dev = iot[m.job].dev
  BY <1>2 DEF Idle
<1>4. inv'[w] = r
  BY <1>0, <1>2, BecomesAt DEF StatusReceive
<1>5. UNCHANGED <<jobs, pending>> /\ msgs' \subseteq msgs /\ inv[w].pc = "idle"
  BY DEF StatusReceive, tables, Consume, At
<1>6. ExecutionsEnd /\ (m.status \notin {"IN_PROGRESS", "TIMED_OUT"} => ~Live(m.job)')
  BY <1>0, <1>1, ReportMirrored
<1>7. /\ \A id : ~Making(id) /\ ~Making(id)'
      /\ ~Consenting /\ ~Consenting'
      /\ \A id : Active(id)' <=> Active(id)
  BY <1>3, <1>4, <1>5, OnlyWorker DEF Active
<1>8. LiveGuarded' /\ ReportGuarded'
  BY <1>1, <1>5, <1>6, <1>7 DEF GuardInv, LiveGuarded, ReportGuarded, ExecutionsEnd
<1>9. EventGuarded' /\ OwnReports'
  BY <1>1, <1>5, <1>6 DEF GuardInv, EventGuarded, OwnReports, ExecutionsEnd
<1>10. m.status # "IN_PROGRESS" =>
         m.status # "TIMED_OUT" /\ pending[iot[m.job].dev] \in {m.job, NoJob}
  BY <1>7 DEF GuardInv, ReportGuarded
<1>11. Guarding(inv[w])'
  BY <1>3, <1>4, <1>5, <1>6, <1>10 DEF Guarding
<1> QED
  BY <1>3, <1>4, <1>8, <1>9, <1>11, GuardBy DEF RecallPcs, StalePcs

(* The only reports in a row are those of its device.                      *)
LEMMA OwnAggregate ==
    ASSUME Backed, OwnReports, NEW id \in JobIds, NEW d \in Devices, iot[id].dev = d
    PROVE  Aggregate(jobs[id], d, "IN_PROGRESS") = "IN_PROGRESS"
<1>1. {jobs[id].reported[e] : e \in Devices \ {d}} \subseteq {"NONE"}
  BY DEF OwnReports
<1>2. ({"IN_PROGRESS"} \cup {jobs[id].reported[e] : e \in Devices \ {d}}) \ {"NONE"}
        = {"IN_PROGRESS"}
  BY <1>1
<1> QED
  BY <1>2 DEF Aggregate

LEMMA ReportReads ==
    ASSUME Undisturbed, GuardInv, Backed', NEW w \in Workers,
           ReadAggregate(w) \/ DescribeCounts(w)
    PROVE  GuardInv'
<1>0. Backed /\ ~Fail
  BY NoCrash DEF GuardInv, Undisturbed
<1>1. PICK i \in Invocation : /\ i = inv[w] /\ Guarding(i)
                              /\ HandlerTyped(i) /\ HandlerBacked(i)
  BY <1>0, Moving DEF GuardInv
<1>2. UNCHANGED <<jobs, pending, iot, msgs, events>>
  BY DEF ReadAggregate, DescribeCounts, tables, awsVars
<1>3. CASE ReadAggregate(w)
  <2>1. PICK a : /\ a = Aggregate(jobs[i.job], i.dev, i.stat)
                 /\ Become(w, [i EXCEPT !.pc = "updateRow", !.agg = a])
    BY <1>0, <1>1, <1>3 DEF ReadAggregate
  <2>2. inv'[w] = [i EXCEPT !.pc = "updateRow", !.agg = a]
    BY <1>0, <2>1, BecomesAt
  <2>3. /\ inv'[w].pc = "updateRow" /\ inv'[w].agg = a /\ inv'[w].job = i.job
        /\ inv'[w].dev = i.dev /\ inv'[w].stat = i.stat
    BY <2>2 DEF Invocation
  <2>4. i.pc = "aggregate" /\ i.job \in JobIds /\ i.dev \in Devices /\ iot[i.job].dev = i.dev
    BY <1>1, <1>3 DEF ReadAggregate, At, HandlerTyped, HandlerBacked
  <2>5. i.stat = "IN_PROGRESS" => a = "IN_PROGRESS"
    BY <1>0, <2>1, <2>4, OwnAggregate DEF GuardInv
  <2>6. Guarding(inv[w])'
    BY <1>1, <1>2, <2>3, <2>4, <2>5 DEF Guarding, Live
  <2> QED
    BY <1>1, <1>2, <2>3, <2>4, <2>6, GuardRead DEF RecallPcs, StalePcs
<1>4. CASE DescribeCounts(w)
  <2>1. PICK s : Become(w, [i EXCEPT !.pc = "syncWrite", !.stat = s])
    BY <1>0, <1>1, <1>4 DEF DescribeCounts
  <2>2. inv'[w] = [i EXCEPT !.pc = "syncWrite", !.stat = s]
    BY <1>0, <2>1, BecomesAt
  <2>3. inv'[w].pc = "syncWrite" /\ inv'[w].job = i.job
    BY <2>2 DEF Invocation
  <2>4. i.pc = "describeCounts"
    BY <1>1, <1>4 DEF DescribeCounts, At
  <2>5. Guarding(inv[w])'
    BY <1>1, <1>2, <2>3, <2>4 DEF Guarding, Live
  <2> QED
    BY <1>1, <1>2, <2>3, <2>4, <2>5, GuardRead DEF RecallPcs, StalePcs
<1> QED
  BY <1>3, <1>4

(* A row that is written late: its execution has ended, or it stays active *)
(* as it must.                                                             *)
LEMMA RowGuard ==
    ASSUME Undisturbed, GuardInv, Backed', NEW w \in Workers, NEW id \in JobIds,
           UNCHANGED <<pending, iot, msgs, events>>,
           inv[w].pc \notin ConsentPcs, inv'[w].pc \notin ConsentPcs,
           inv'[w].pc \notin AbortPcs \cup RecallPcs \cup StalePcs,
           \A k \in JobIds : k # id => jobs'[k] = jobs[k],
           Live(id) => Active(id)',
           \A d \in Devices : jobs'[id].reported[d] # "NONE" =>
               jobs[id].reported[d] # "NONE" \/ d = iot[id].dev,
           Guarding(inv[w])'
    PROVE  GuardInv'
<1>0. Backed
  BY DEF GuardInv
<1>1. /\ \A k : ~Making(k) /\ ~Making(k)'
      /\ ~Consenting /\ ~Consenting'
  BY OnlyWorker
<1>2. \A k \in JobIds : (Live(k)' <=> Live(k)) /\ (Live(k) /\ Active(k) => Active(k)')
  BY DEF Live, Active
<1>3. /\ \A m \in msgs : m.job \in JobIds
      /\ \A e \in events : e.job \in JobIds
  BY <1>0 DEF Backed, TypeOK, Message, Event
<1>4. LiveGuarded' /\ EventGuarded'
  BY <1>1, <1>2, <1>3 DEF GuardInv, LiveGuarded, EventGuarded
<1>5. ReportGuarded'
  BY <1>1, <1>3 DEF GuardInv, ReportGuarded
<1>6. OwnReports'
  BY DEF GuardInv, OwnReports
<1> QED
  BY <1>4, <1>5, <1>6, GuardBy

LEMMA UpdateRowGuard ==
    ASSUME Undisturbed, GuardInv, Backed', NEW w \in Workers, UpdateRow(w)
    PROVE  GuardInv'
<1>0. Backed /\ jobs \in [JobIds -> JobRow]
  BY DEF GuardInv, Backed, TypeOK
<1>1. PICK i \in Invocation : /\ i = inv[w] /\ Guarding(i)
                              /\ HandlerTyped(i) /\ HandlerBacked(i)
  BY <1>0, Moving DEF GuardInv
<1>2. /\ i.pc = "updateRow" /\ i.job \in JobIds /\ i.dev \in Devices /\ iot[i.job].dev = i.dev
      /\ i.stat = "IN_PROGRESS" => i.agg = "IN_PROGRESS"
      /\ i.stat # "IN_PROGRESS" => ~Live(i.job) /\ pending[i.dev] \in {i.job, NoJob}
  BY <1>1 DEF UpdateRow, At, HandlerTyped, HandlerBacked, Guarding
<1>3. UNCHANGED <<pending, iot, msgs, events>>
  BY DEF UpdateRow, awsVars
<1>4. /\ \A k \in JobIds : k # i.job => jobs'[k] = jobs[k]
      /\ jobs'[i.job] = jobs[i.job]
         \/ /\ jobs'[i.job].status = i.agg
            /\ \A d \in Devices : d # i.dev => jobs'[i.job].reported[d] = jobs[i.job].reported[d]
  <2>1. CASE UNCHANGED jobs
    BY <2>1
  <2>2. CASE jobs' = [jobs EXCEPT ![i.job] =
                 [status |-> i.agg, type |-> @.type, targets |-> @.targets,
                  reported |-> [@.reported EXCEPT ![i.dev] = i.stat]]]
    <3>1. jobs[i.job].reported \in [Devices -> ReportStatus \cup {"NONE"}]
      BY <1>0, <1>2 DEF JobRow
    <3> QED
      BY <1>0, <1>2, <2>2, <3>1
  <2> QED
    BY <1>1, <2>1, <2>2 DEF UpdateRow
<1>5. \/ inv'[w].pc = "idle"
      \/ /\ inv'[w].pc = "clearDevice" /\ inv'[w].job = i.job /\ inv'[w].dev = i.dev
         /\ inv'[w].stat = i.stat /\ i.stat # "IN_PROGRESS"
  <2>1. CASE Return(w)
    BY <1>0, <2>1, GoesHome
  <2>2. CASE Goto(w, "clearDevice") /\ i.stat # "IN_PROGRESS"
    BY <1>0, <1>1, <2>2, GoesTo DEF Same
  <2> QED
    BY <1>1, <2>1, <2>2 DEF UpdateRow
<1>6. Guarding(inv[w])'
  BY <1>2, <1>3, <1>5 DEF Guarding, Live
<1>7. ASSUME Live(i.job) PROVE Active(i.job)'
  <2>1. Active(i.job)
    <3>1. ~Making(i.job)
      BY <1>1, <1>2, OnlyWorker
    <3> QED
      BY <1>2, <1>7, <3>1 DEF GuardInv, LiveGuarded
  <2>2. i.agg = "IN_PROGRESS"
    BY <1>2, <1>7
  <2> QED
    BY <1>4, <2>1, <2>2 DEF Active, ActiveStatus
<1> QED
  BY <1>1, <1>2, <1>3, <1>4, <1>5, <1>6, <1>7, RowGuard DEF RecallPcs, StalePcs

(* A report clears the entry of the update it ends, or none.               *)
LEMMA ClearDeviceGuard ==
    ASSUME Undisturbed, GuardInv, Backed', NEW w \in Workers, ClearDevice(w)
    PROVE  GuardInv'
<1>0. Backed /\ pending \in [Devices -> JobIds \cup {NoJob}]
  BY DEF GuardInv, Backed, TypeOK
<1>1. PICK i \in Invocation : /\ i = inv[w] /\ Guarding(i) /\ HandlerTyped(i)
  BY <1>0, Moving DEF GuardInv
<1>2. /\ i.pc = "clearDevice" /\ i.stat # "IN_PROGRESS" /\ i.dev \in Devices
      /\ ~Live(i.job) /\ pending[i.dev] \in {i.job, NoJob}
  BY <1>1 DEF ClearDevice, At, HandlerTyped, Guarding
<1>3. UNCHANGED <<jobs, iot, msgs, events>>
  BY DEF ClearDevice, awsVars
<1>4. \/ UNCHANGED pending /\ inv'[w].pc = "idle"
      \/ /\ pending' = [pending EXCEPT ![i.dev] = NoJob]
         /\ inv'[w].pc = "markTerminal" /\ inv'[w].job = i.job
  <2>1. CASE Return(w) /\ UNCHANGED pending
    BY <1>0, <2>1, GoesHome
  <2>2. CASE Goto(w, "markTerminal") /\ pending' = [pending EXCEPT ![i.dev] = NoJob]
    BY <1>0, <1>1, <2>2, GoesTo
  <2> QED
    BY <1>1, <2>1, <2>2 DEF ClearDevice
<1>5. /\ \A k : ~Making(k) /\ ~Making(k)'
      /\ ~Consenting /\ ~Consenting'
      /\ \A k : (Active(k)' <=> Active(k)) /\ (Live(k)' <=> Live(k))
  BY <1>1, <1>2, <1>3, <1>4, OnlyWorker DEF Active, Live
<1>6. \A d \in Devices : pending'[d] = pending[d] \/ (d = i.dev /\ pending'[d] = NoJob)
  BY <1>0, <1>2, <1>4
<1>7. \A id \in JobIds : Live(id) => pending[iot[id].dev] = id /\ iot[id].dev # i.dev
  BY <1>2, <1>5, OtaAssumption DEF GuardInv, LiveGuarded
<1>8. LiveGuarded'
  BY <1>0, <1>3, <1>5, <1>6, <1>7, OfDevices DEF GuardInv, LiveGuarded
<1>9. ReportGuarded'
  BY <1>0, <1>3, <1>5, <1>6, OfDevices DEF GuardInv, ReportGuarded
<1>10. EventGuarded' /\ OwnReports' /\ Guarding(inv[w])'
  BY <1>2, <1>3, <1>4, <1>5 DEF GuardInv, EventGuarded, OwnReports, Guarding
<1> QED
  BY <1>4, <1>8, <1>9, <1>10, GuardBy DEF RecallPcs, StalePcs

LEMMA LateWrites ==
    ASSUME Undisturbed, GuardInv, Backed', NEW w \in Workers, MarkTerminal(w) \/ SyncWrite(w)
    PROVE  GuardInv'
<1>0. Backed /\ jobs \in [JobIds -> JobRow]
  BY DEF GuardInv, Backed, TypeOK
<1>1. PICK i \in Invocation : /\ i = inv[w] /\ Guarding(i) /\ HandlerTyped(i)
  BY <1>0, Moving DEF GuardInv
<1>2. i.pc \in {"markTerminal", "syncWrite"} /\ i.job \in JobIds /\ ~Live(i.job)
  BY <1>1 DEF MarkTerminal, SyncWrite, At, HandlerTyped, Guarding
<1>3. /\ UNCHANGED <<pending, iot, msgs, events>> /\ inv'[w].pc = "idle"
      /\ \E s : jobs' = [jobs EXCEPT ![i.job].status = s]
  BY <1>0, <1>1, GoesHome DEF MarkTerminal, SyncWrite, SetRowStatus, awsVars
<1>4. /\ \A k \in JobIds : k # i.job => jobs'[k] = jobs[k]
      /\ jobs'[i.job].reported = jobs[i.job].reported
  BY <1>0, <1>2, <1>3 DEF JobRow
<1>5. Guarding(inv[w])'
  BY <1>3 DEF Guarding
<1> QED
  BY <1>1, <1>2, <1>3, <1>4, <1>5, RowGuard DEF RecallPcs, StalePcs

LEMMA EventGuard ==
    ASSUME Undisturbed, GuardInv, Backed', NEW w \in Workers, NEW e \in events,
           LifecycleReceive(w, e)
    PROVE  GuardInv'
<1>0. Backed
  BY DEF GuardInv
<1>1. /\ UNCHANGED <<jobs, pending, iot, msgs>> /\ events' \subseteq events /\ inv[w].pc = "idle"
  BY DEF LifecycleReceive, tables, At
<1>2. [Idle EXCEPT !.pc = "syncWrite", !.job = e.job, !.stat = "CANCELLED"].job = e.job
        /\ [Idle EXCEPT !.pc = "syncWrite", !.job = e.job, !.stat = "CANCELLED"].pc = "syncWrite"
  BY DEF Idle
<1>3. [Idle EXCEPT !.pc = "describeCounts", !.job = e.job].job = e.job
        /\ [Idle EXCEPT !.pc = "describeCounts", !.job = e.job].pc = "describeCounts"
  BY DEF Idle
<1>4. \E r : Become(w, r) /\ (r.pc = "idle" \/ (r.pc \in SyncPcs /\ r.job = e.job))
  BY <1>2, <1>3, IdlePc DEF LifecycleReceive, Return
<1>5. inv'[w].pc = "idle" \/ (inv'[w].pc \in SyncPcs /\ inv'[w].job = e.job)
  BY <1>0, <1>4, BecomesAt
<1>6. \A id : (Active(id)' <=> Active(id)) /\ (Live(id)' <=> Live(id))
  BY <1>1 DEF Active, Live
<1>7. /\ \A k : ~Making(k) /\ ~Making(k)'
      /\ ~Consenting /\ ~Consenting'
  BY <1>1, <1>5, OnlyWorker
<1>8. LiveGuarded' /\ ReportGuarded' /\ EventGuarded' /\ OwnReports'
  BY <1>1, <1>6, <1>7 DEF GuardInv, LiveGuarded, ReportGuarded, EventGuarded, OwnReports
<1>9. Guarding(inv[w])'
  BY <1>1, <1>5, <1>6 DEF Guarding, GuardInv, EventGuarded
<1> QED
  BY <1>5, <1>8, <1>9, GuardBy DEF RecallPcs, StalePcs

----------------------------------------------------------------------------
(* The invariant                                                           *)

(* Nobody aborts, recalls or checks, and no handler dies.                  *)
LEMMA OrderlySteps ==
    ASSUME Undisturbed, GuardInv, Next
    PROVE  \/ \E w \in Workers :
                 \/ Request(w) \/ DeployCall(w) \/ ConsentCall(w)
                 \/ DeliverMessage(w) \/ DeliverEvent(w) \/ StatusCall(w) \/ SyncCall(w)
           \/ Device \/ Aws \/ Tick \/ WeekPasses
<1>0. Backed
  BY DEF GuardInv
<1>1. ASSUME NEW w \in Workers
      PROVE  /\ ~StaleCheck(w) /\ ~StaleCall(w) /\ ~AbortCall(w) /\ ~RecallCall(w)
             /\ ~Crash(w)
  <2>1. inv[w].pc \notin AbortPcs \cup RecallPcs \cup StalePcs
    BY DEF GuardInv, NoAdministration
  <2>2. ~AbortCall(w) /\ ~RecallCall(w)
    BY <1>0, <2>1, AbortTurn, RecallTurn
  <2>3. ~StaleCall(w)
    BY <2>1 DEF StaleCall, StaleDescribe, StaleCancel, StaleWrite, StalePcs, At
  <2> QED
    BY <1>0, <2>2, <2>3, NoCrash DEF Undisturbed, StaleCheck
<1> QED
  BY <1>1, Steps DEF FollowUp, RequestCall

LEMMA GuardNext ==
    ASSUME Undisturbed, GuardInv, [Next]_vars
    PROVE  GuardInv'
<1>0. Backed'
  BY BackedNext DEF GuardInv
<1>1. ASSUME NEW w \in Workers,
             \/ Request(w) \/ DeployCall(w) \/ ConsentCall(w)
             \/ DeliverMessage(w) \/ DeliverEvent(w) \/ StatusCall(w) \/ SyncCall(w)
      PROVE  GuardInv'
  BY <1>0, <1>1, StartGuard, DeployGuard, ConsentGuard, ReceiveGuard, ReportReads,
     UpdateRowGuard, ClearDeviceGuard, LateWrites, EventGuard
  DEF DeliverMessage, DeliverEvent, StatusCall, SyncCall
<1> QED
  BY <1>0, <1>1, DeviceGuard, AwsGuard, OrderlySteps

LEMMA GuardInit ==
    ASSUME Init
    PROVE  GuardInv
<1>1. \A w \in Workers : inv[w].pc = "idle"
  BY DEF Init, Idle
<1>2. NoAdministration /\ \A w \in Workers : Guarding(inv[w])
  BY <1>1 DEF NoAdministration, Guarding, RecallPcs, StalePcs
<1>3. LiveGuarded /\ ReportGuarded /\ EventGuarded /\ OwnReports
  BY DEF Init, LiveGuarded, ReportGuarded, EventGuarded, OwnReports, Live, NoIot, NoRow, ExecLive
<1> QED
  BY <1>2, <1>3, BackedInit DEF GuardInv

----------------------------------------------------------------------------
(* One update at a time                                                    *)

LEMMA OutsideEnds ==
    ASSUME Undisturbed, GuardInv, Device \/ Aws \/ Tick \/ WeekPasses \/ UNCHANGED vars
    PROVE  ExecutionsEnd
<1>0. Backed /\ Reports \subseteq ReportStatus /\ "IN_PROGRESS" \in ReportStatus
  BY OtaJobsAssumption DEF GuardInv, ReportStatus
<1>1. ASSUME NEW id \in JobIds, NEW s \in ReportStatus, Report(id, s) PROVE ExecutionsEnd
  BY <1>0, <1>1, ExecutionReported, ExecutionsStill DEF Report
<1>2. CASE Device
  BY <1>0, <1>1, <1>2, ExecutionsStill
  DEF Device, Register, DeviceStart, DeviceProgress, DeviceFinish, awsVars
<1>3. ASSUME NEW id \in JobIds, IotTimeout(id) PROVE ExecutionsEnd
  BY <1>0, <1>3, ExecutionEnds DEF IotTimeout, ExecLive
<1>4. \A id \in JobIds : ~ConsoleCancel(id)
  BY DEF Undisturbed, ConsoleCancel
<1>5. CASE \/ \E m \in msgs : LoseMessage(m)
           \/ \E e \in events : LoseEvent(e)
           \/ Tick \/ WeekPasses \/ UNCHANGED vars
  BY <1>5, ExecutionsStill DEF LoseMessage, LoseEvent, Tick, WeekPasses, vars, awsVars
<1> QED
  BY <1>2, <1>3, <1>4, <1>5 DEF Aws

LEMMA ExecutionSteps ==
    ASSUME Undisturbed, GuardInv, [Next]_vars
    PROVE  ExecutionsEnd \/ \E w \in Workers : CreateIot(w)
<1>0. Backed
  BY DEF GuardInv
<1>1. ASSUME NEW w \in Workers, NEW m \in msgs, StatusReceive(w, m) PROVE ExecutionsEnd
  BY <1>0, <1>1, ReportMirrored
<1>2. ASSUME NEW w \in Workers, Request(w) PROVE ExecutionsEnd
  BY <1>0, <1>2, RequestStarts, ExecutionsStill DEF awsVars
<1>3. ASSUME NEW w \in Workers,
             \/ DeployCall(w) \/ (ConsentCall(w) /\ ~CreateIot(w))
             \/ DeliverEvent(w) \/ StatusCall(w) \/ SyncCall(w)
      PROVE  ExecutionsEnd
  <2>1. UNCHANGED iot /\ events' \subseteq events
    BY <1>3 DEF DeployCall, DeployPut, DeployConsent, DeployConsentFails, ConsentCall,
       FindConsent, Decline, ReadPackage, CheckPending, ClearStale, WriteConsent, PutJob,
       SetPending, DeliverEvent, LifecycleReceive, StatusCall, ReadAggregate, UpdateRow,
       ClearDevice, MarkTerminal, SyncCall, DescribeCounts, SyncWrite, awsVars
  <2> QED
    BY <2>1, ExecutionsStill
<1> QED
  BY <1>1, <1>2, <1>3, OutsideEnds, OrderlySteps DEF DeliverMessage

(* A device has one live update at most.                                   *)
LEMMA OneLive ==
    ASSUME Undisturbed, GuardInv, NEW j \in JobIds, NEW k \in JobIds, Live(j), Live(k),
           iot[j].dev = iot[k].dev
    PROVE  j = k
<1>1. ASSUME NEW id \in JobIds, Making(id)
      PROVE  pending[iot[id].dev] = NoJob /\ \A x : Making(x) => x = id
  <2>1. PICK w \in Workers : inv[w].pc \in CreatedPcs /\ inv[w].job = id
    BY <1>1 DEF Making
  <2>2. PICK i \in Invocation : i = inv[w] /\ Guarding(i) /\ HandlerBacked(i)
    BY Moving DEF GuardInv
  <2>3. pending[iot[id].dev] = NoJob
    BY <2>1, <2>2 DEF Guarding, HandlerBacked
  <2> QED
    BY <2>1, <2>3, OnlyWorker
<1>2. (Making(j) \/ pending[iot[j].dev] = j) /\ (Making(k) \/ pending[iot[k].dev] = k)
  BY DEF GuardInv, LiveGuarded
<1> QED
  BY <1>1, <1>2, OtaAssumption

LEMMA LockStep ==
    ASSUME Undisturbed, GuardInv, [Next]_vars
    PROVE  [Lock!Next]_([d \in Devices |-> LiveJobs(d)])
<1>0. Backed /\ iot \in [JobIds -> IotJob]
  BY DEF GuardInv, Backed, TypeOK
<1> DEFINE live == [d \in Devices |-> LiveJobs(d)]
<1>1. CASE ExecutionsEnd
  <2>1. CASE \A id \in JobIds : Live(id) => Live(id)'
    <3>1. \A d \in Devices : LiveJobs(d)' = LiveJobs(d)
      BY <1>1, <2>1 DEF LiveJobs, ExecutionsEnd, Live
    <3> QED
      BY <3>1
  <2>2. ASSUME NEW k \in JobIds, Live(k), ~Live(k)' PROVE Lock!Next
    <3>1. PICK e \in Devices : e = iot[k].dev
      BY <1>0, <2>2, OfDevices
    <3>2. LiveJobs(e)' = {}
      BY <1>1, <2>2, <3>1, OneLive DEF LiveJobs, ExecutionsEnd, Live
    <3>3. \A d \in Devices : d # e => LiveJobs(d)' = LiveJobs(d)
      BY <1>1, <2>2, <3>1 DEF LiveJobs, ExecutionsEnd, Live
    <3>4. live' = [live EXCEPT ![e] = {}]
      BY <3>2, <3>3
    <3> QED
      BY <3>4 DEF Lock!Next, Lock!Release
  <2> QED
    BY <2>1, <2>2
<1>2. ASSUME NEW w \in Workers, CreateIot(w)
      PROVE  Lock!Next \/ UNCHANGED live
  <2>1. PICK i \in Invocation : i = inv[w] /\ Guarding(i) /\ HandlerTyped(i)
    BY <1>0, Moving DEF GuardInv
  <2>2. i.pc = "createIot" /\ pending[i.dev] = NoJob /\ i.dev \in Devices
    BY <1>2, <2>1 DEF CreateIot, At, Guarding, HandlerTyped
  <2>3. PICK id \in JobIds :
          \/ UNCHANGED iot
          \/ /\ ~Exists(id)
             /\ iot' = [iot EXCEPT ![id] = [status |-> "IN_PROGRESS", dev |-> i.dev,
                                            exec |-> "QUEUED"]]
    BY <1>0, <1>2, <2>1, CreateTurn
  <2>4. CASE UNCHANGED iot
    <3>1. \A d \in Devices : LiveJobs(d)' = LiveJobs(d)
      BY <2>4 DEF LiveJobs
    <3> QED
      BY <3>1
  <2>5. CASE /\ ~Exists(id)
             /\ iot' = [iot EXCEPT ![id] = [status |-> "IN_PROGRESS", dev |-> i.dev,
                                            exec |-> "QUEUED"]]
    <3>1. \A k \in JobIds : ~Making(k)
      BY <2>1, <2>2, OnlyWorker
    <3>2. LiveJobs(i.dev) = {}
      BY <2>2, <3>1, OtaAssumption DEF GuardInv, LiveGuarded, LiveJobs, Live
    <3>3. ~Live(id)
      BY <1>0, <2>5 DEF Backed, IotConsistent, Live, ExecLive
    <3>4. /\ iot'[id].dev = i.dev /\ iot'[id].exec \in ExecLive
          /\ \A k \in JobIds : k # id => iot'[k] = iot[k]
      BY <1>0, <2>5 DEF ExecLive
    <3>5. LiveJobs(i.dev)' = {id}
      BY <3>2, <3>4 DEF LiveJobs
    <3>6. \A d \in Devices : d # i.dev => LiveJobs(d)' = LiveJobs(d)
      BY <3>3, <3>4 DEF LiveJobs, Live
    <3>7. live' = [live EXCEPT ![i.dev] = {id}] /\ live[i.dev] = {}
      BY <2>2, <3>2, <3>5, <3>6
    <3> QED
      BY <2>2, <3>7 DEF Lock!Next, Lock!Grant
  <2> QED
    BY <2>3, <2>4, <2>5
<1> QED
  BY <1>1, <1>2, ExecutionSteps

(* An undisturbed backend implements the lock: an update is granted to a   *)
(* device only while it has no other.  The reports may come in any order   *)
(* and more than once, they and the events may be lost, devices may        *)
(* restart, execution status may be mirrored or not, and ids may be reused.*)
THEOREM UndisturbedLock == Undisturbed => (Spec => OneUpdateAtATime)
<1> SUFFICES ASSUME Undisturbed PROVE Spec => OneUpdateAtATime
  OBVIOUS
<1>1. Init => Lock!Init
  <2>1. Init => \A d \in Devices : LiveJobs(d) = {}
    BY DEF Init, LiveJobs, NoIot, ExecLive
  <2> QED
    BY <2>1 DEF Lock!Init
<1>2. GuardInv /\ [Next]_vars => [Lock!Next]_([d \in Devices |-> LiveJobs(d)])
  BY LockStep
<1> QED
  BY <1>1, <1>2, GuardInit, GuardNext, PTL DEF Spec, OneUpdateAtATime, Lock!Spec

----------------------------------------------------------------------------
(* What the owner sees                                                     *)

(* A job is made for a device that registered, and no deployment that      *)
(* waits for consent bears the id of a job.                                *)
Seen ==
    \A id \in JobIds : Exists(id) =>
        inventory[iot[id].dev].thing /\ jobs[id].status # "AWAITING_CONSENT"

Accepting == {"readPackage", "checkPending", "clearStale"} \cup {"createIot"} \cup CreatedPcs

SeenBy(i) ==
    i.pc \in Accepting \/ (i.pc = "findConsent" /\ i.stat # "DECLINED") =>
        inventory[i.dev].thing

SeenInv == GuardInv /\ Seen /\ \A w \in Workers : SeenBy(inv[w])

LEMMA ThingsStay ==
    ASSUME Undisturbed, GuardInv, [Next]_vars, NEW d \in Devices, inventory[d].thing
    PROVE  inventory'[d].thing
<1>0. Backed /\ inventory \in [Devices -> Inventory]
  BY DEF GuardInv, Backed, TypeOK
<1>1. ASSUME NEW e \in Devices, Register(e) PROVE inventory'[d].thing
  BY <1>0, <1>1 DEF Register, Inventory
<1>2. ASSUME NEW w \in Workers, ClearDevice(w) PROVE inventory'[d].thing
  <2>1. PICK e, v : UNCHANGED inventory \/ inventory' = [inventory EXCEPT ![e].installed = v]
    BY <1>2 DEF ClearDevice
  <2> QED
    BY <1>0, <2>1 DEF Inventory
<1>3. UNCHANGED inventory \/ Device \/ \E w \in Workers : ClearDevice(w)
  <2>1. ASSUME NEW w \in Workers, DeployCall(w) \/ ConsentCall(w) PROVE UNCHANGED inventory
    BY <1>0, <2>1, RequestCallWrites DEF RequestCall, RequestWrites
  <2>2. ASSUME NEW w \in Workers, Request(w) PROVE UNCHANGED inventory
    BY <1>0, <2>2, RequestStarts DEF tables
  <2>3. ASSUME NEW w \in Workers,
               DeliverMessage(w) \/ DeliverEvent(w) \/ StatusCall(w) \/ SyncCall(w),
               ~ClearDevice(w)
        PROVE  UNCHANGED inventory
    BY <2>3 DEF DeliverMessage, StatusReceive, DeliverEvent, LifecycleReceive, StatusCall,
       ReadAggregate, UpdateRow, MarkTerminal, SyncCall, DescribeCounts, SyncWrite, tables
  <2>4. CASE Aws \/ Tick \/ WeekPasses \/ UNCHANGED vars
    BY <2>4 DEF Aws, IotTimeout, ConsoleCancel, LoseMessage, LoseEvent, Tick, WeekPasses,
       vars, tables
  <2> QED
    BY <2>1, <2>2, <2>3, <2>4, OrderlySteps
<1>4. CASE Device
  BY <1>0, <1>1, <1>4 DEF Device, DeviceStart, DeviceProgress, DeviceFinish, tables
<1> QED
  BY <1>1, <1>2, <1>3, <1>4

(* A row comes to wait for consent when a deployment makes it.             *)
LEMMA WaitingByPut ==
    ASSUME Undisturbed, GuardInv, [Next]_vars, NEW id \in JobIds,
           jobs'[id].status = "AWAITING_CONSENT"
    PROVE  \/ jobs[id].status = "AWAITING_CONSENT"
           \/ UNCHANGED iot /\ Usable(id)
<1>0. Backed /\ jobs \in [JobIds -> JobRow]
  BY DEF GuardInv, Backed, TypeOK
<1>1. ASSUME NEW w \in Workers, Request(w) PROVE UNCHANGED jobs
  BY <1>0, <1>1, RequestStarts DEF tables
<1>2. ASSUME NEW w \in Workers, DeployPut(w)
      PROVE  UNCHANGED iot /\ (jobs'[id] = jobs[id] \/ Usable(id))
  BY <1>0, <1>2 DEF DeployPut, awsVars
<1>3. ASSUME NEW w \in Workers, PutJob(w)
      PROVE  jobs'[id] = jobs[id]
  <2>1. [NoRow EXCEPT !.status = "QUEUED", !.targets = {inv[w].dev}].status = "QUEUED"
    BY DEF NoRow
  <2> QED
    BY <1>0, <1>3, <2>1 DEF PutJob
<1>4. ASSUME NEW w \in Workers, DeployCall(w) \/ ConsentCall(w), ~DeployPut(w), ~PutJob(w)
      PROVE  UNCHANGED jobs
  BY <1>4 DEF DeployCall, DeployConsent, DeployConsentFails, ConsentCall, FindConsent,
     Decline, ReadPackage, CheckPending, ClearStale, CreateIot, WriteConsent, SetPending, tables
<1>5. ASSUME NEW w \in Workers,
             DeliverMessage(w) \/ DeliverEvent(w) \/ StatusCall(w) \/ SyncCall(w)
      PROVE  jobs'[id].status = jobs[id].status
  BY <1>0, <1>5, StatusTurn, SyncTurn DEF FollowUpWrites, Waiting
<1>6. CASE Device \/ Aws \/ Tick \/ WeekPasses \/ UNCHANGED vars
  BY <1>6, InvStill
<1> QED
  BY <1>1, <1>2, <1>3, <1>4, <1>5, <1>6, OrderlySteps

LEMMA SeenNext ==
    ASSUME Undisturbed, "sameSecond" \notin Env, SeenInv, [Next]_vars
    PROVE  SeenInv'
<1>0. GuardInv /\ GuardInv' /\ Backed /\ Backed' /\ iot \in [JobIds -> IotJob]
  BY GuardNext DEF SeenInv, GuardInv, Backed, TypeOK
<1>1. \A d \in Devices : inventory[d].thing => inventory'[d].thing
  BY <1>0, ThingsStay
<1>2. Seen'
  <2>1. ASSUME NEW id \in JobIds, Exists(id), Exists(id)', iot'[id].dev = iot[id].dev
        PROVE  inventory'[iot[id].dev].thing /\ jobs'[id].status # "AWAITING_CONSENT"
    <3>1. iot[id].dev \in Devices
      BY <1>0, <2>1 DEF Backed, IotConsistent
    <3>2. jobs'[id].status # "AWAITING_CONSENT"
      BY <1>0, <2>1, WaitingByPut DEF SeenInv, Seen, Usable, Fresh, Exists
    <3> QED
      BY <1>1, <2>1, <3>1, <3>2 DEF SeenInv, Seen
  <2>2. ASSUME NEW w \in Workers, CreateIot(w) PROVE Seen'
    <3>1. PICK i \in Invocation : i = inv[w] /\ SeenBy(i) /\ HandlerTyped(i)
      BY <1>0, Moving DEF SeenInv
    <3>2. /\ inventory[i.dev].thing /\ i.dev \in Devices
          /\ UNCHANGED <<jobs, inventory>> /\ Usable(NewId(i.ver))
      BY <2>2, <3>1 DEF CreateIot, At, SeenBy, Accepting, HandlerTyped, tables
    <3>3. PICK id \in JobIds :
            /\ id = NewId(i.ver)
            /\ \/ UNCHANGED iot
               \/ iot' = [iot EXCEPT ![id] = [status |-> "IN_PROGRESS", dev |-> i.dev,
                                              exec |-> "QUEUED"]]
      BY <1>0, <2>2, <3>1, CreateTurn
    <3>4. jobs[id].status # "AWAITING_CONSENT"
      BY <3>2, <3>3 DEF Usable, Fresh
    <3> QED
      BY <1>0, <3>2, <3>3, <3>4 DEF SeenInv, Seen, Exists
  <2>3. CASE ExecutionsEnd
    BY <2>1, <2>3 DEF Seen, ExecutionsEnd
  <2> QED
    BY <1>0, <2>2, <2>3, ExecutionSteps
<1>3. ASSUME NEW w \in Workers PROVE SeenBy(inv[w])'
  <2>1. PICK i \in Invocation : i = inv[w] /\ SeenBy(i) /\ HandlerTyped(i)
    BY <1>0, Moving DEF SeenInv
  <2>2. ASSUME inv'[w].dev \in Devices, inventory[inv'[w].dev].thing PROVE SeenBy(inv[w])'
    BY <1>1, <2>2 DEF SeenBy
  <2>3. ASSUME inv'[w].pc \notin ConsentPcs PROVE SeenBy(inv[w])'
    BY <2>3 DEF SeenBy, Accepting
  <2>4. CASE inv'[w] = inv[w]
    <3>1. i.pc \in ConsentPcs => i.dev \in Devices
      BY <2>1 DEF HandlerTyped
    <3> QED
      BY <2>1, <2>2, <2>3, <2>4, <3>1 DEF SeenBy, Accepting
  <2>5. CASE Request(w)
    <3>1. ASSUME NEW d \in Devices, NEW v \in Versions, NEW a \in {"ACCEPTED", "DECLINED"},
                 ConsentStart(w, d, v, a)
          PROVE  SeenBy(inv[w])'
      <4>1. PICK r : r = [Idle EXCEPT !.pc = "findConsent", !.dev = d, !.ver = v, !.stat = a,
                                      !.job = pending[d], !.newer = v > inventory[d].ver]
        OBVIOUS
      <4>2. r.pc = "findConsent" /\ r.dev = d /\ r.stat = a
        BY <4>1 DEF Idle
      <4>3. inv'[w] = r
        BY <1>0, <3>1, <4>1, BecomesAt DEF ConsentStart
      <4>4. a # "DECLINED" => inventory[d].thing
        BY <3>1 DEF ConsentStart
      <4> QED
        BY <1>1, <4>2, <4>3, <4>4 DEF SeenBy, Accepting
    <3>2. CASE inv'[w].pc # "findConsent"
      BY <1>0, <2>3, <2>5, <3>2, RequestStarts
    <3>3. CASE inv'[w].pc = "findConsent"
      <4>1. ~Deploy(w)
        <5>1. ASSUME NEW v \in Versions, NEW ds \in SUBSET Devices, NEW type \in {"THING", "GROUP"},
                     DeployStart(w, v, ds, type)
              PROVE  inv'[w].pc = "deployPut"
          <6>1. PICK r : r = [Idle EXCEPT !.pc = "deployPut", !.ver = v, !.devs = ds, !.type = type]
            OBVIOUS
          <6>2. r.pc = "deployPut"
            BY <6>1 DEF Idle
          <6> QED
            BY <1>0, <5>1, <6>1, <6>2, BecomesAt DEF DeployStart
        <5> QED
          BY <3>3, <5>1 DEF Deploy
      <4> QED
        BY <2>5, <3>1, <4>1 DEF Request, Accept, DeclineRequest, Abort, Recall, Undisturbed
    <3> QED
      BY <3>2, <3>3
  <2>6. CASE ConsentCall(w)
    <3>1. /\ i.pc \in ConsentPcs /\ i.dev \in Devices
          /\ \/ inv'[w].pc = "idle"
             \/ inv'[w].pc \in Answering /\ inv'[w].dev = i.dev
          /\ inv'[w].pc \in Answering => FindConsent(w) \/ i.pc \in Answering \ {"decline"}
      BY <1>0, <2>1, <2>6, ConsentTurn DEF HandlerTyped, Same
    <3>2. CASE FindConsent(w) /\ i.stat = "DECLINED"
      <4>1. Return(w) \/ \E c : Become(w, [i EXCEPT !.pc = "decline", !.cons = c])
        BY <2>1, <3>2 DEF FindConsent
      <4>2. \A c : [i EXCEPT !.pc = "decline", !.cons = c].pc = "decline"
        BY DEF Invocation
      <4>3. inv'[w].pc \in {"idle", "decline"}
        BY <1>0, <4>1, <4>2, GoesHome, BecomesAt
      <4> QED
        BY <4>3 DEF SeenBy, Accepting
    <3>3. CASE FindConsent(w) /\ i.stat # "DECLINED"
      BY <2>1, <2>2, <2>3, <3>1, <3>3 DEF SeenBy, FindConsent, At
    <3>4. CASE i.pc \in Answering \ {"decline"}
      BY <2>1, <2>2, <2>3, <3>1, <3>4 DEF SeenBy, Answering, Accepting
    <3> QED
      BY <2>3, <3>1, <3>2, <3>3, <3>4
  <2>7. CASE DeployCall(w)
    BY <1>0, <2>3, <2>7, DeployTurn
  <2>8. CASE DeliverMessage(w) \/ DeliverEvent(w) \/ StatusCall(w) \/ SyncCall(w)
    <3>1. inv'[w].pc \in StatusPcs \cup SyncPcs \cup StalePcs \cup {"idle"}
      BY <1>0, <2>8, StatusTurn, SyncTurn DEF FollowUpWrites
    <3> QED
      BY <2>3, <3>1 DEF StalePcs
  <2>9. CASE Device \/ Aws \/ Tick \/ WeekPasses \/ UNCHANGED vars
    BY <2>4, <2>9, InvStill
  <2> QED
    BY <1>0, <2>5, <2>6, <2>7, <2>8, <2>9, OrderlySteps, OnlyWorker
<1> QED
  BY <1>0, <1>2, <1>3 DEF SeenInv

LEMMA SeenInit ==
    ASSUME Init
    PROVE  SeenInv
<1>1. \A w \in Workers : inv[w].pc = "idle"
  BY DEF Init, Idle
<1>2. \A w \in Workers : SeenBy(inv[w])
  BY <1>1 DEF SeenBy, Accepting
<1>3. Seen
  BY DEF Init, Seen, Exists, NoIot
<1> QED
  BY <1>2, <1>3, GuardInit DEF SeenInv

(* In an undisturbed backend that gives out no id twice in a second, and   *)
(* with agents that register as device_register expects, a running update  *)
(* is never hidden from its owner: check_updates answers JOB_ACTIVE,       *)
(* update_status follows it, and no link lets the device be updated beside *)
(* it.                                                                     *)
THEOREM RunningIsShown ==
    Undisturbed /\ "sameSecond" \notin Env /\ Telling = Devices
    => (Spec => []LiveUpdateIsShown)
<1> SUFFICES ASSUME Undisturbed, "sameSecond" \notin Env, Telling = Devices
             PROVE  Spec => []LiveUpdateIsShown
  OBVIOUS
<1>1. SeenInv /\ ConsentBehindEveryJob => LiveUpdateIsShown
  <2> SUFFICES ASSUME SeenInv, ConsentBehindEveryJob, Settled, NEW d \in Devices,
                      NEW id \in LiveJobs(d)
               PROVE  /\ JobActive(d) /\ pending[d] = id
                      /\ ProgressShown(id) \in LiveStatus
                      /\ \A v \in Versions : ~LinkGranted(d, v)
    BY DEF LiveUpdateIsShown
  <2>1. /\ id \in JobIds /\ Live(id) /\ iot[id].dev = d /\ id # NoJob
        /\ Exists(id) /\ \A w \in Workers : inv[w].pc = "idle"
    BY OtaAssumption DEF LiveJobs, Live, SeenInv, GuardInv, Backed, IotConsistent, ExecLive,
       Settled, At
  <2>2. pending[d] = id /\ Active(id)
    BY <2>1 DEF SeenInv, GuardInv, LiveGuarded, Making
  <2>3. inventory[d].thing /\ jobs[id].status \in LiveStatus
    BY <2>1, <2>2 DEF SeenInv, Seen, Active, ActiveStatus, LiveStatus
  <2>4. \E c \in ConsentIds : consents[c].job = id
    BY <2>1 DEF ConsentBehindEveryJob, At
  <2>5. JobActive(d)
    BY <2>1, <2>2, <2>3 DEF JobActive, Registered, ShownStatuses, InProgressStatuses,
       LiveStatus, Live, ExecLive
  <2> QED
    BY <2>1, <2>2, <2>3, <2>4, <2>5 DEF ProgressShown, LinkGranted
<1>2. Init => SoleInv /\ SeenInv /\ ConsentBehindEveryJob
  <2>1. Init => ConsentBehindEveryJob
    BY DEF Init, ConsentBehindEveryJob, Exists, NoIot
  <2> QED
    BY <2>1, SoleInit, SeenInit
<1>3. /\ SoleInv /\ SeenInv /\ ConsentBehindEveryJob /\ [Next]_vars
      => (SoleInv /\ SeenInv /\ ConsentBehindEveryJob)'
  BY SoleNext, BehindNext, SeenNext DEF Undisturbed
<1> QED
  BY <1>1, <1>2, <1>3, PTL DEF Spec


----------------------------------------------------------------------------
(* A handled report                                                        *)

Reporting(id) ==
    \/ \E m \in msgs : m.job = id /\ m.status # "IN_PROGRESS"
    \/ \E w \in Workers : /\ inv[w].pc \in StatusPcs \ {"markTerminal"}
                          /\ inv[w].job = id /\ inv[w].stat # "IN_PROGRESS"

(* The device row names an update that ended no longer than until the      *)
(* report of it was handled.                                               *)
Cleared ==
    \A id \in JobIds : run[id] \notin {"idle", "running"} =>
        Reporting(id) \/ (pending[iot[id].dev] # id /\ ~Making(id))

LEMMA DeviceRuns ==
    ASSUME Undisturbed, GuardInv, [Next]_vars
    PROVE  UNCHANGED run \/ Device
<1>1. ASSUME NEW w \in Workers, Request(w) PROVE UNCHANGED run
  BY <1>1, RequestStarts DEF awsVars, GuardInv
<1>2. ASSUME NEW w \in Workers,
             \/ DeployCall(w) \/ ConsentCall(w) \/ DeliverMessage(w) \/ DeliverEvent(w)
             \/ StatusCall(w) \/ SyncCall(w)
      PROVE  UNCHANGED run
  BY <1>2 DEF DeployCall, DeployPut, DeployConsent, DeployConsentFails, ConsentCall,
     FindConsent, Decline, ReadPackage, CheckPending, ClearStale, CreateIot, WriteConsent,
     PutJob, SetPending, DeliverMessage, StatusReceive, DeliverEvent, LifecycleReceive,
     StatusCall, ReadAggregate, UpdateRow, ClearDevice, MarkTerminal, SyncCall,
     DescribeCounts, SyncWrite, awsVars
<1>3. CASE Aws \/ Tick \/ WeekPasses \/ UNCHANGED vars
  BY <1>3 DEF Aws, IotTimeout, ConsoleCancel, LoseMessage, LoseEvent, Tick, WeekPasses,
     vars, awsVars
<1> QED
  BY <1>1, <1>2, <1>3, OrderlySteps

LEMMA ReportsFinish ==
    ASSUME Undisturbed, GuardInv, [Next]_vars, NEW id \in JobIds, run'[id] # run[id]
    PROVE  IF run'[id] = "running" THEN run[id] = "idle"
                                   ELSE \E s \in Reports : DeviceFinish(id, s)
<1>1. run \in [JobIds -> RunStatus]
  BY DEF GuardInv, Backed, TypeOK
<1>2. "running" \notin Reports
  BY OtaJobsAssumption DEF ReportStatus
<1> QED
  BY <1>1, <1>2, DeviceRuns DEF Device, Register, DeviceStart, DeviceProgress, DeviceFinish,
     awsVars

LEMMA ClearedNext ==
    ASSUME Undisturbed, "loss" \notin Env, MapReady = Devices, GuardInv, Cleared, [Next]_vars
    PROVE  Cleared'
<1>0. Backed /\ iot \in [JobIds -> IotJob] /\ pending \in [Devices -> JobIds \cup {NoJob}]
  BY DEF GuardInv, Backed, TypeOK
<1> SUFFICES ASSUME NEW id \in JobIds, run'[id] \notin {"idle", "running"}
             PROVE  Reporting(id)' \/ (pending'[iot'[id].dev] # id /\ ~Making(id)')
  BY DEF Cleared
<1>1. CASE run[id] \in {"idle", "running"}
  <2>1. PICK s \in Reports : DeviceFinish(id, s)
    BY <1>1, ReportsFinish
  <2>2. s # "IN_PROGRESS" /\ [job |-> id, status |-> s] \in msgs'
    BY <2>1, OtaJobsAssumption DEF DeviceFinish, Report
  <2> QED
    BY <2>2 DEF Reporting
<1>2. CASE run[id] \notin {"idle", "running"}
  <2>1. Exists(id) /\ (Reporting(id) \/ (pending[iot[id].dev] # id /\ ~Making(id)))
    BY <1>0, <1>2 DEF Cleared, Backed, IotConsistent
  <2>2. ASSUME msgs \subseteq msgs', UNCHANGED pending, iot'[id].dev = iot[id].dev,
               \A w \in Workers : inv[w].pc \in StatusPcs \ {"markTerminal"} =>
                  inv'[w] = inv[w],
               Making(id)' => Making(id)
        PROVE  Reporting(id)' \/ (pending'[iot'[id].dev] # id /\ ~Making(id)')
    BY <2>1, <2>2 DEF Reporting
  <2>3. ASSUME NEW w \in Workers, NEW m \in msgs, StatusReceive(w, m)
        PROVE  Reporting(id)' \/ (pending'[iot'[id].dev] # id /\ ~Making(id)')
    <3>1. PICK r : r = [Idle EXCEPT !.pc = "aggregate", !.job = m.job, !.stat = m.status,
                                    !.dev = iot[m.job].dev]
      OBVIOUS
    <3>2. r.pc = "aggregate" /\ r.job = m.job /\ r.stat = m.status
      BY <3>1 DEF Idle
    <3>3. inv'[w] = r /\ inv[w].pc = "idle"
      BY <1>0, <2>3, <3>1, BecomesAt DEF StatusReceive, At
    <3>4. msgs \ {m} \subseteq msgs' /\ UNCHANGED pending /\ ~Making(id)'
      BY <2>3, <3>2, <3>3, OnlyWorker DEF StatusReceive, Consume, tables
    <3>5. iot'[id].dev = iot[id].dev
      BY <1>0, <2>3, ReportMirrored DEF ExecutionsEnd
    <3>6. CASE m.job = id /\ m.status # "IN_PROGRESS"
      BY <3>2, <3>3, <3>6 DEF Reporting
    <3>7. CASE \E k \in msgs \ {m} : k.job = id /\ k.status # "IN_PROGRESS"
      BY <3>4, <3>7 DEF Reporting
    <3>8. CASE pending[iot[id].dev] # id /\ ~Making(id)
      BY <3>4, <3>5, <3>8
    <3>9. ~ \E u \in Workers : inv[u].pc \in StatusPcs \ {"markTerminal"}
      BY <3>3, OnlyWorker
    <3> QED
      BY <2>1, <3>6, <3>7, <3>8, <3>9 DEF Reporting
  <2>4. ASSUME NEW w \in Workers, ReadAggregate(w) \/ UpdateRow(w) \/ ClearDevice(w)
        PROVE  Reporting(id)' \/ (pending'[iot'[id].dev] # id /\ ~Making(id)')
    <3>1. PICK i \in Invocation : i = inv[w] /\ HandlerTyped(i) /\ HandlerBacked(i)
      BY <1>0, Moving
    <3>2. /\ i.pc \in StatusPcs \ {"markTerminal"} /\ i.dev \in Devices
          /\ iot[i.job].dev = i.dev /\ ~Fail
          /\ UNCHANGED <<iot, msgs>>
      BY <1>0, <2>4, <3>1, NoCrash DEF ReadAggregate, UpdateRow, ClearDevice, At, HandlerTyped,
         HandlerBacked, awsVars, Undisturbed
    <3>3. \/ /\ inv'[w].pc \in StatusPcs \ {"markTerminal"} /\ UNCHANGED pending
             /\ inv'[w].job = i.job /\ inv'[w].stat = i.stat
          \/ /\ inv'[w].pc = "idle" /\ UNCHANGED pending
             /\ i.stat = "IN_PROGRESS" \/ jobs[i.job].status = "NONE"
          \/ inv'[w].pc = "markTerminal" /\ pending' = [pending EXCEPT ![i.dev] = NoJob]
      <4>1. CASE ReadAggregate(w)
        <5>1. PICK a : Become(w, [i EXCEPT !.pc = "updateRow", !.agg = a])
          BY <3>1, <3>2, <4>1 DEF ReadAggregate
        <5>2. /\ [i EXCEPT !.pc = "updateRow", !.agg = a].pc = "updateRow"
              /\ [i EXCEPT !.pc = "updateRow", !.agg = a].job = i.job
              /\ [i EXCEPT !.pc = "updateRow", !.agg = a].stat = i.stat
          BY DEF Invocation
        <5> QED
          BY <1>0, <4>1, <5>1, <5>2, BecomesAt DEF ReadAggregate, tables
      <4>2. CASE UpdateRow(w)
        <5>1. /\ UNCHANGED pending
              /\ \/ Return(w) /\ (i.stat = "IN_PROGRESS" \/ jobs[i.job].status = "NONE")
                 \/ Goto(w, "clearDevice")
          BY <3>1, <4>2 DEF UpdateRow
        <5>2. CASE Return(w) /\ (i.stat = "IN_PROGRESS" \/ jobs[i.job].status = "NONE")
          <6>1. inv'[w].pc = "idle"
            BY <1>0, <5>2, GoesHome
          <6> QED
            BY <5>1, <5>2, <6>1
        <5>3. CASE Goto(w, "clearDevice")
          <6>1. inv'[w].pc = "clearDevice" /\ inv'[w].job = i.job /\ inv'[w].stat = i.stat
            BY <1>0, <3>1, <5>3, GoesTo DEF Same
          <6> QED
            BY <5>1, <6>1
        <5> QED
          BY <5>1, <5>2, <5>3
      <4>3. CASE ClearDevice(w)
        <5>1. Goto(w, "markTerminal") /\ pending' = [pending EXCEPT ![i.dev] = NoJob]
          BY <3>1, <3>2, <4>3 DEF ClearDevice
        <5> QED
          BY <1>0, <5>1, GoesTo
      <4> QED
        BY <2>4, <4>1, <4>2, <4>3
    <3>4. ~Making(id)' /\ \A e \in Devices : pending[e] # NoJob => jobs[pending[e]].status # "NONE"
      BY <1>0, <3>3, OnlyWorker DEF Backed, PendingHasJob
    <3>5. id # NoJob /\ iot[id].dev \in Devices
      BY <1>0, <2>1, OtaAssumption DEF Backed, IotConsistent
    <3>6. CASE \E m \in msgs : m.job = id /\ m.status # "IN_PROGRESS"
      BY <3>2, <3>6 DEF Reporting
    <3>7. CASE i.job = id /\ i.stat # "IN_PROGRESS"
      BY <1>0, <3>2, <3>3, <3>4, <3>5, <3>7 DEF Reporting
    <3>8. CASE pending[iot[id].dev] # id
      BY <1>0, <3>2, <3>3, <3>4, <3>5, <3>8
    <3> QED
      BY <2>1, <3>1, <3>6, <3>7, <3>8, OnlyWorker DEF Reporting
  <2>5. ASSUME NEW w \in Workers, ConsentCall(w)
        PROVE  Reporting(id)' \/ (pending'[iot'[id].dev] # id /\ ~Making(id)')
    <3>1. PICK i \in Invocation : i = inv[w] /\ HandlerTyped(i) /\ HandlerBacked(i)
      BY <1>0, Moving
    <3>2. /\ i.pc \in ConsentPcs /\ i.dev \in Devices
          /\ inv'[w].pc \in Answering \cup {"idle"}
          /\ inv'[w].pc = "writeConsent" => CreateIot(w) /\ ~Exists(inv'[w].job)
          /\ inv'[w].pc \in {"putJob", "setPending"} => inv'[w].job = i.job
          /\ inv'[w].pc \in {"putJob", "setPending"} => i.pc \in CreatedPcs
      BY <1>0, <2>5, <3>1, ConsentTurn DEF HandlerTyped, Answering, WriteConsent, PutJob, At
    <3>3. UNCHANGED msgs
      BY <2>5 DEF ConsentCall, FindConsent, Decline, ReadPackage, CheckPending, ClearStale,
         CreateIot, WriteConsent, PutJob, SetPending, awsVars
    <3>4. iot'[id] = iot[id]
      <4>1. CASE CreateIot(w)
        BY <1>0, <2>1, <4>1, CreateTurn
      <4>2. CASE ~CreateIot(w)
        BY <2>5, <4>2 DEF ConsentCall, FindConsent, Decline, ReadPackage, CheckPending,
           ClearStale, WriteConsent, PutJob, SetPending, awsVars
      <4> QED
        BY <4>1, <4>2
    <3>5. \A e \in Devices : \/ pending'[e] \in {pending[e], NoJob}
                             \/ pending'[e] = i.job /\ Making(i.job)
      <4>1. CASE ClearStale(w)
        BY <1>0, <3>1, <3>2, <4>1 DEF ClearStale
      <4>2. CASE SetPending(w)
        <5>1. Making(i.job) /\ pending' = [pending EXCEPT ![i.dev] = i.job]
          BY <3>1, <4>2, OnlyWorker DEF SetPending, At
        <5> QED
          BY <1>0, <3>2, <5>1
      <4>3. CASE ~ClearStale(w) /\ ~SetPending(w)
        <5>1. UNCHANGED pending
          BY <2>5, <4>3 DEF ConsentCall, FindConsent, Decline, ReadPackage, CheckPending,
             CreateIot, WriteConsent, PutJob, tables
        <5> QED
          BY <5>1
      <4> QED
        BY <4>1, <4>2, <4>3
    <3>6. Making(id)' => Making(id)
      BY <2>1, <3>1, <3>2, <3>4, OnlyWorker DEF Exists
    <3>7. CASE pending[iot[id].dev] # id /\ ~Making(id)
      <4>1. iot[id].dev \in Devices /\ id # NoJob
        BY <1>0, <2>1, OtaAssumption DEF Backed, IotConsistent
      <4> QED
        BY <3>4, <3>5, <3>6, <3>7, <4>1
    <3>8. ~ \E u \in Workers : inv[u].pc \in StatusPcs
      BY <3>1, <3>2, OnlyWorker
    <3> QED
      BY <2>1, <3>3, <3>7, <3>8 DEF Reporting
  <2>6. ASSUME NEW w \in Workers,
               \/ Request(w) \/ DeployCall(w) \/ DeliverEvent(w) \/ MarkTerminal(w) \/ SyncCall(w)
        PROVE  Reporting(id)' \/ (pending'[iot'[id].dev] # id /\ ~Making(id)')
    <3>1. UNCHANGED <<iot, msgs, pending>>
      <4>1. CASE Request(w)
        BY <1>0, <4>1, RequestStarts DEF tables, awsVars
      <4> QED
        BY <2>6, <4>1 DEF DeployCall, DeployPut, DeployConsent, DeployConsentFails,
           DeliverEvent, LifecycleReceive, MarkTerminal, SyncCall, DescribeCounts, SyncWrite,
           tables, awsVars
    <3>2. inv[w].pc \notin StatusPcs \ {"markTerminal"}
      <4>1. CASE Request(w)
        BY <1>0, <4>1, RequestStarts DEF At
      <4>2. CASE DeployCall(w)
        BY <1>0, <4>2, DeployTurn DEF DeployPcs
      <4> QED
        BY <2>6, <4>1, <4>2 DEF DeliverEvent, LifecycleReceive, MarkTerminal, SyncCall,
           DescribeCounts, SyncWrite, At
    <3>3. inv'[w].pc \notin CreatedPcs
      <4>1. CASE Request(w)
        BY <1>0, <4>1, RequestStarts
      <4>2. CASE DeployCall(w)
        BY <1>0, <4>2, DeployTurn
      <4>3. CASE DeliverEvent(w) \/ MarkTerminal(w) \/ SyncCall(w)
        BY <1>0, <4>3, StatusTurn, SyncTurn DEF FollowUpWrites, StatusCall, StalePcs
      <4> QED
        BY <2>6, <4>1, <4>2, <4>3
    <3> QED
      BY <2>2, <3>1, <3>2, <3>3, OnlyWorker
  <2>7. CASE Device \/ Aws \/ Tick \/ WeekPasses \/ UNCHANGED vars
    <3>1. UNCHANGED inv /\ iot'[id].dev = iot[id].dev
      BY <2>7, InvStill, OutsideEnds DEF ExecutionsEnd
    <3>2. msgs \subseteq msgs' /\ UNCHANGED pending
      BY <2>7 DEF Device, Register, DeviceStart, DeviceProgress, DeviceFinish, Report, Aws,
         IotTimeout, ConsoleCancel, LoseMessage, LoseEvent, Tick, WeekPasses, vars, tables,
         awsVars
    <3> QED
      BY <2>2, <3>1, <3>2 DEF Making
  <2> QED
    BY <2>3, <2>4, <2>5, <2>6, <2>7, OrderlySteps DEF DeliverMessage, StatusCall
<1> QED
  BY <1>1, <1>2

(* In an undisturbed backend in which no report is lost, and every device  *)
(* row has its installedVersions map, an update that ended is not named in *)
(* the device row any more once its report was handled.                    *)
THEOREM HandledReportClears ==
    Undisturbed /\ "loss" \notin Env /\ MapReady = Devices => (Spec => []ReportClearsPending)
<1> SUFFICES ASSUME Undisturbed, "loss" \notin Env, MapReady = Devices
             PROVE  Spec => []ReportClearsPending
  OBVIOUS
<1>1. GuardInv /\ Cleared => ReportClearsPending
  <2> SUFFICES ASSUME GuardInv, Cleared, Settled, NEW id \in JobIds, NEW d \in Devices,
                      pending[d] = id
               PROVE  run[id] \in {"idle", "running"}
    BY DEF ReportClearsPending
  <2>1. iot[id].dev = d
    BY OtaAssumption DEF GuardInv, Backed, PendingHasJob
  <2>2. ~Reporting(id)
    BY DEF Settled, At, Reporting
  <2> QED
    BY <2>1, <2>2 DEF Cleared
<1>2. Init => GuardInv /\ Cleared
  <2>1. Init => Cleared
    BY DEF Init, Cleared
  <2> QED
    BY <2>1, GuardInit
<1>3. GuardInv /\ Cleared /\ [Next]_vars => (GuardInv /\ Cleared)'
  BY GuardNext, ClearedNext
<1> QED
  BY <1>1, <1>2, <1>3, PTL DEF Spec

----------------------------------------------------------------------------
(* An update that ended blocks no offer                                    *)

Finished(id) == run[id] \notin {"idle", "running"}

(* Nothing but its device, or its timeout, ends an execution.              *)
EndedByDevice ==
    /\ \A id \in JobIds :
          iot[id].exec \in ExecLive \cup {"NONE", "TIMED_OUT"} \/ Finished(id)
    /\ \A m \in msgs : m.status # "IN_PROGRESS" => Finished(m.job)

LEMMA FinishedStays ==
    ASSUME Undisturbed, GuardInv, [Next]_vars, NEW id \in JobIds, Finished(id)
    PROVE  Finished(id)'
  BY ReportsFinish DEF DeviceFinish, Finished

LEMMA ExecutionMoves ==
    ASSUME Backed, NEW id \in JobIds, NEW s, UpdateExecution(id, s) \/ EndExecution(id, s)
    PROVE  \A k \in JobIds : \/ iot'[k].exec = iot[k].exec
                             \/ k = id /\ iot'[k].exec = s
<1>1. iot \in [JobIds -> IotJob]
  BY DEF Backed, TypeOK
<1> QED
  BY <1>1 DEF UpdateExecution, EndExecution, IotJob

LEMMA EndedNext ==
    ASSUME Undisturbed, GuardInv, EndedByDevice, [Next]_vars
    PROVE  EndedByDevice'
<1>0. Backed /\ \A m \in msgs : m.job \in JobIds
  BY DEF GuardInv, Backed, TypeOK, Message
<1>1. ASSUME \A id \in JobIds :
                \/ iot'[id].exec \in {iot[id].exec, "TIMED_OUT"} \cup ExecLive
                \/ Finished(id)',
             \A m \in msgs' : m \in msgs \/ m.status = "IN_PROGRESS" \/ Finished(m.job)'
      PROVE  EndedByDevice'
  BY <1>0, <1>1, FinishedStays DEF EndedByDevice
<1>2. ASSUME NEW w \in Workers, NEW m \in msgs, StatusReceive(w, m) PROVE EndedByDevice'
  <2>1. msgs' \subseteq msgs
    BY <1>2 DEF StatusReceive, Consume
  <2>2. m.status \in ExecLive \/ Finished(m.job)'
    BY <1>0, FinishedStays DEF EndedByDevice, ExecLive
  <2> QED
    BY <1>0, <1>1, <1>2, <2>1, <2>2, ReportMirrored, ExecutionMoves
<1>3. ASSUME NEW w \in Workers, CreateIot(w) PROVE EndedByDevice'
  <2>1. \A id \in JobIds : iot'[id].exec \in {iot[id].exec, "QUEUED"}
    <3>1. iot \in [JobIds -> IotJob]
      BY <1>0 DEF Backed, TypeOK
    <3> QED
      BY <1>0, <1>3, <3>1, CreateTurn
  <2>2. UNCHANGED msgs
    BY <1>3 DEF CreateIot
  <2> QED
    BY <1>1, <2>1, <2>2 DEF ExecLive
<1>4. ASSUME NEW w \in Workers,
             \/ Request(w) \/ DeployCall(w) \/ (ConsentCall(w) /\ ~CreateIot(w))
             \/ DeliverEvent(w) \/ StatusCall(w) \/ SyncCall(w)
      PROVE  EndedByDevice'
  <2>1. CASE Request(w)
    BY <1>0, <1>1, <2>1, RequestStarts DEF awsVars
  <2>2. CASE ~Request(w)
    <3>1. UNCHANGED <<iot, msgs>>
      BY <1>4, <2>2 DEF DeployCall, DeployPut, DeployConsent, DeployConsentFails, ConsentCall,
         FindConsent, Decline, ReadPackage, CheckPending, ClearStale, WriteConsent, PutJob,
         SetPending, DeliverEvent, LifecycleReceive, StatusCall, ReadAggregate, UpdateRow,
         ClearDevice, MarkTerminal, SyncCall, DescribeCounts, SyncWrite, awsVars
    <3> QED
      BY <1>1, <3>1
  <2> QED
    BY <2>1, <2>2
<1>5. CASE Device
  <2>1. ASSUME NEW id \in JobIds, NEW s, Report(id, s), s = "IN_PROGRESS" \/ Finished(id)'
        PROVE  EndedByDevice'
    <3>1. \A m \in msgs' : m \in msgs \/ (m.job = id /\ m.status = s)
      BY <2>1 DEF Report
    <3>2. \A k \in JobIds : iot'[k].exec = iot[k].exec \/ (k = id /\ iot'[k].exec = s)
      BY <1>0, <2>1, ExecutionMoves DEF Report
    <3> QED
      BY <1>1, <2>1, <3>1, <3>2 DEF ExecLive
  <2>2. ASSUME NEW d \in Devices, Register(d) PROVE EndedByDevice'
    BY <1>1, <2>2 DEF Register, awsVars
  <2>3. ASSUME NEW id \in JobIds, NEW s \in Reports, DeviceFinish(id, s) PROVE EndedByDevice'
    <3>1. s \in ReportStatus \ {"IN_PROGRESS"} /\ run \in [JobIds -> RunStatus]
      BY <1>0, OtaJobsAssumption DEF Backed, TypeOK
    <3>2. Finished(id)'
      BY <2>3, <3>1 DEF DeviceFinish, Finished, ReportStatus
    <3> QED
      BY <2>1, <2>3, <3>2 DEF DeviceFinish
  <2> QED
    BY <1>5, <2>1, <2>2, <2>3 DEF Device, DeviceStart, DeviceProgress
<1>6. ASSUME NEW id \in JobIds, IotTimeout(id) PROVE EndedByDevice'
  BY <1>0, <1>1, <1>6, ExecutionMoves DEF IotTimeout
<1>7. CASE \/ \E m \in msgs : LoseMessage(m)
           \/ \E e \in events : LoseEvent(e)
           \/ Tick \/ WeekPasses \/ UNCHANGED vars
  BY <1>1, <1>7 DEF LoseMessage, LoseEvent, Tick, WeekPasses, vars, awsVars
<1>8. \A id \in JobIds : ~ConsoleCancel(id)
  BY DEF Undisturbed, ConsoleCancel
<1> QED
  BY <1>2, <1>3, <1>4, <1>5, <1>6, <1>7, <1>8, OrderlySteps DEF Aws, DeliverMessage

(* In an undisturbed backend in which no report is lost, and every device  *)
(* row has its installedVersions map, whatever the app offers can be taken,*)
(* although agents report progress, mirror what they report, and reports   *)
(* are repeated and overtake each other.  The execution that timed out     *)
(* under its device is the exception that the property names.              *)
THEOREM OffersCanBeTaken ==
    Undisturbed /\ "loss" \notin Env /\ MapReady = Devices => (Spec => []OfferCanBeTaken)
<1> SUFFICES ASSUME Undisturbed, "loss" \notin Env, MapReady = Devices
             PROVE  Spec => []OfferCanBeTaken
  OBVIOUS
<1>1. GuardInv /\ EndedByDevice /\ ReportClearsPending => OfferCanBeTaken
  <2> SUFFICES ASSUME GuardInv, EndedByDevice, ReportClearsPending, Settled,
                      NEW d \in Devices, NEW released, Offer(d, released) # {},
                      pending[d] # NoJob, Active(pending[d])
               PROVE  iot[pending[d]].exec = "TIMED_OUT"
    BY DEF OfferCanBeTaken, Active
  <2>1. PICK id \in JobIds : id = pending[d] /\ jobs[id].status # "NONE"
    BY DEF GuardInv, Backed, PendingHasJob, TypeOK
  <2>2. PICK s \in ShownStatuses(d) : s \notin InProgressStatuses
    BY <2>1, OtaAssumption DEF Offer, ShownStatuses
  <2>3. s = iot[id].exec /\ s # "NONE" /\ s \notin ExecLive
    BY <2>1, <2>2 DEF ShownStatuses, Active, ActiveStatus, InProgressStatuses, ExecLive
  <2>4. ~Finished(id)
    BY <2>1 DEF ReportClearsPending, Finished
  <2> QED
    BY <2>1, <2>3, <2>4 DEF EndedByDevice
<1>2. Init => GuardInv /\ EndedByDevice
  <2>1. Init => EndedByDevice
    BY DEF Init, EndedByDevice, NoIot
  <2> QED
    BY <2>1, GuardInit
<1>3. GuardInv /\ EndedByDevice /\ [Next]_vars => (GuardInv /\ EndedByDevice)'
  BY GuardNext, EndedNext
<1> QED
  BY <1>1, <1>2, <1>3, HandledReportClears, PTL DEF Spec
=============================================================================
