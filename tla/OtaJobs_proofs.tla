--------------------------- MODULE OtaJobs_proofs ---------------------------
(***************************************************************************)
(* Proofs about OtaJobs, for every value of its constants.                 *)
(***************************************************************************)
EXTENDS OtaJobs, TLAPS

Handler(i) == HandlerTyped(i) /\ HandlerBacked(i)
Invariants == AcceptedHasJob /\ PendingHasJob /\ RowHasJob

(* What no step takes back: an AWS IoT job and its target, a job row, the  *)
(* device of a consent record.                                             *)
JobsKept     == \A id \in JobIds : Exists(id) => Exists(id)' /\ iot'[id].dev = iot[id].dev
RowsKept     == \A id \in JobIds : jobs[id].status # "NONE" => jobs'[id].status # "NONE"
ConsentsKept == \A c \in ConsentIds :
                   consents[c].dev \in Devices => consents'[c].dev = consents[c].dev
Kept == JobsKept /\ RowsKept /\ ConsentsKept

----------------------------------------------------------------------------
(* A step of one invocation                                                *)

(* What a handler holds stays backed while others move.                    *)
LEMMA HandlerKept ==
    ASSUME Backed, Kept, NEW i \in Invocation, Handler(i)
    PROVE  Handler(i)'
<1>1. HandlerTyped(i)'
  BY DEF Handler, HandlerTyped
<1>2. HandlerBacked(i)'
  <2>1. i.job \in JobIds /\ Exists(i.job) =>
          Exists(i.job)' /\ iot'[i.job].dev = iot[i.job].dev
    BY DEF Kept, JobsKept
  <2>2. i.job \in JobIds /\ jobs[i.job].status # "NONE" => jobs'[i.job].status # "NONE"
    BY DEF Kept, RowsKept
  <2>3. i.cons \in ConsentIds /\ consents[i.cons].dev \in Devices =>
          consents'[i.cons].dev = consents[i.cons].dev
    BY DEF Kept, ConsentsKept
  <2>4. i.cons \in ConsentIds \cup {NoCons}
    BY DEF Invocation
  <2>5. i.job \in JobIds => (Exists(i.job) <=> iot[i.job].dev \in Devices)
    BY DEF Backed, IotConsistent
  <2> QED
    BY <2>1, <2>2, <2>3, <2>4, <2>5
    DEF Handler, HandlerTyped, HandlerBacked, Exists, CreatedPcs, ConsentPcs,
        StatusPcs, SyncPcs
<1> QED
  BY <1>1, <1>2 DEF Handler

(* The step is put together from what it does to each variable; an         *)
(* invocation either stays where it is or is still well off afterwards.    *)
LEMMA Assemble ==
    ASSUME Backed, Kept,
           inv' \in [Workers -> Invocation],
           \A u \in Workers : inv'[u] = inv[u] \/ (HandlerTyped(inv[u]) /\ HandlerBacked(inv[u]))',
           jobs' \in [JobIds -> JobRow], consents' \in [ConsentIds -> Consent],
           pending' \in [Devices -> JobIds \cup {NoJob}],
           inventory' \in [Devices -> Inventory],
           package' \in [Versions -> PackageStatus],
           now' \in 0 .. MaxSec, crashes' \in 0 .. MaxCrash, old' \subseteq JobIds,
           iot' \in [JobIds -> IotJob], run' \in [JobIds -> RunStatus],
           fw' \in [Devices -> Versions \cup {0}],
           msgs' \subseteq Message, events' \subseteq Event,
           IotConsistent', SentBacked', Invariants'
    PROVE  Backed'
<1>1. TypeOK'
  BY DEF TypeOK
<1>2. ASSUME NEW u \in Workers
      PROVE  (HandlerTyped(inv[u]) /\ HandlerBacked(inv[u]))'
  <2>1. CASE inv'[u] = inv[u]
    <3>1. PICK i \in Invocation : i = inv[u]
      BY DEF Backed, TypeOK
    <3>2. Handler(i)
      BY <3>1 DEF Backed, Handler
    <3>3. Handler(i)'
      BY <3>2, HandlerKept
    <3> QED
      BY <2>1, <3>1, <3>3 DEF Handler, HandlerTyped, HandlerBacked
  <2> QED
    BY <2>1
<1> QED
  BY <1>1, <1>2 DEF Backed, Invariants

(* Worker w goes on as r.                                                  *)
LEMMA Becomes ==
    ASSUME Backed, NEW w \in Workers, NEW r \in Invocation, Become(w, r), Handler(r)'
    PROVE  /\ inv' \in [Workers -> Invocation]
           /\ \A u \in Workers :
                inv'[u] = inv[u] \/ (HandlerTyped(inv[u]) /\ HandlerBacked(inv[u]))'
<1>1. inv' = [inv EXCEPT ![w] = r] /\ inv \in [Workers -> Invocation]
  BY DEF Become, Backed, TypeOK
<1>2. inv'[w] = r /\ \A u \in Workers : u # w => inv'[u] = inv[u]
  BY <1>1
<1> QED
  BY <1>1, <1>2 DEF Handler, HandlerTyped, HandlerBacked

LEMMA IdleHandler ==
    /\ Idle \in Invocation
    /\ Handler(Idle)
    /\ Handler(Idle)'
<1>1. Idle \in Invocation /\ Idle.pc = "idle"
  BY DEF Idle, Invocation, Pcs, RowStatus
<1>2. PICK i \in Invocation : i = Idle
  BY <1>1
<1>3. Handler(i) /\ Handler(i)'
  BY <1>1, <1>2 DEF Handler, HandlerTyped, HandlerBacked, ConsentPcs, StatusPcs,
     SyncPcs, CreatedPcs, AbortPcs
<1> QED
  BY <1>1, <1>2, <1>3

(* What is known of the invocation that moves.                             *)
LEMMA Moving ==
    ASSUME Backed, NEW w \in Workers
    PROVE  inv[w] \in Invocation /\ HandlerTyped(inv[w]) /\ HandlerBacked(inv[w])
  BY DEF Backed, TypeOK

----------------------------------------------------------------------------
(* What the steps do to the tables                                         *)

(* A read, or a computation: only the invocation moves.                    *)
LEMMA InvStep ==
    ASSUME Backed, NEW w \in Workers, NEW r \in Invocation, Become(w, r), Handler(r),
           crashes' \in 0 .. MaxCrash, UNCHANGED <<tables, now, old, awsVars>>
    PROVE  Backed'
<1>1. Kept
  BY DEF tables, awsVars, Kept, JobsKept, RowsKept, ConsentsKept, Exists
<1>2. Handler(r)'
  BY <1>1, HandlerKept
<1>3. IotConsistent' /\ SentBacked' /\ Invariants'
  BY DEF tables, awsVars, Backed, IotConsistent, SentBacked, Exists, Invariants,
     AcceptedHasJob, PendingHasJob, RowHasJob
<1>4. TypeOK
  BY DEF Backed
<1> QED
  BY <1>1, <1>2, <1>3, <1>4, Becomes, Assemble DEF TypeOK, tables, awsVars

(* A write to digilux_ota_jobs.                                            *)
LEMMA RowStep ==
    ASSUME Backed, NEW w \in Workers, NEW r \in Invocation, Become(w, r),
           NEW id \in JobIds, NEW row \in JobRow,
           jobs' = [jobs EXCEPT ![id] = row],
           row.status # "NONE",
           row.status \in {"AWAITING_CONSENT", "CANCELLED"} \/ Exists(id),
           Handler(r) \/ Handler(r)',
           crashes' \in 0 .. MaxCrash,
           UNCHANGED <<consents, pending, inventory, package, now, old, awsVars>>
    PROVE  Backed'
<1>1. TypeOK /\ jobs \in [JobIds -> JobRow]
  BY DEF Backed, TypeOK
<1>2. /\ jobs' \in [JobIds -> JobRow] /\ jobs'[id] = row
      /\ \A j \in JobIds : j # id => jobs'[j] = jobs[j]
  BY <1>1
<1>3. Kept
  BY <1>2 DEF awsVars, Kept, JobsKept, RowsKept, ConsentsKept, Exists
<1>4. Handler(r)'
  BY <1>3, HandlerKept
<1>5. IotConsistent' /\ SentBacked'
  BY DEF awsVars, Backed, IotConsistent, SentBacked, Exists
<1>6. AcceptedHasJob'
  BY DEF awsVars, Backed, AcceptedHasJob, Exists
<1>7. PendingHasJob'
  <2>1. \A j \in JobIds : jobs[j].status # "NONE" => jobs'[j].status # "NONE"
    BY <1>2
  <2> QED
    BY <1>1, <2>1 DEF awsVars, Backed, TypeOK, PendingHasJob
<1>8. RowHasJob'
  BY <1>2 DEF awsVars, Backed, RowHasJob, Exists
<1> QED
  BY <1>1, <1>2, <1>3, <1>4, <1>5, <1>6, <1>7, <1>8, Becomes, Assemble
  DEF TypeOK, awsVars, Invariants

(* A write to digilux_device_data.                                         *)
LEMMA PendingStep ==
    ASSUME Backed, NEW w \in Workers, NEW r \in Invocation, Become(w, r), Handler(r),
           pending' \in [Devices -> JobIds \cup {NoJob}],
           \A d \in Devices : \/ pending'[d] \in {pending[d], NoJob}
                              \/ /\ jobs[pending'[d]].status # "NONE"
                                 /\ iot[pending'[d]].dev = d,
           inventory' \in [Devices -> Inventory],
           UNCHANGED <<jobs, consents, package, now, crashes, old, awsVars>>
    PROVE  Backed'
<1>1. TypeOK
  BY DEF Backed
<1>2. Kept
  BY DEF awsVars, Kept, JobsKept, RowsKept, ConsentsKept, Exists
<1>3. Handler(r)'
  BY <1>2, HandlerKept
<1>4. IotConsistent' /\ SentBacked' /\ AcceptedHasJob' /\ RowHasJob'
  BY DEF awsVars, Backed, IotConsistent, SentBacked, Exists, AcceptedHasJob, RowHasJob
<1>5. PendingHasJob'
  BY DEF awsVars, Backed, PendingHasJob
<1> QED
  BY <1>1, <1>2, <1>3, <1>4, <1>5, Becomes, Assemble DEF TypeOK, awsVars, Invariants

(* A write to digilux_ota_user_consents.                                   *)
LEMMA ConsentStep ==
    ASSUME Backed, NEW w \in Workers, NEW r \in Invocation, Become(w, r), Handler(r),
           NEW c \in ConsentIds, NEW new \in Consent,
           consents' = [consents EXCEPT ![c] = new],
           consents[c].dev \in Devices => new.dev = consents[c].dev,
           new.status = "ACCEPTED" =>
               new.job \in JobIds /\ Exists(new.job) /\ iot[new.job].dev = new.dev,
           UNCHANGED <<jobs, pending, inventory, package, now, crashes, old, awsVars>>
    PROVE  Backed'
<1>1. TypeOK /\ consents \in [ConsentIds -> Consent]
  BY DEF Backed, TypeOK
<1>2. /\ consents' \in [ConsentIds -> Consent] /\ consents'[c] = new
      /\ \A k \in ConsentIds : k # c => consents'[k] = consents[k]
  BY <1>1
<1>3. Kept
  BY <1>2 DEF awsVars, Kept, JobsKept, RowsKept, ConsentsKept, Exists
<1>4. Handler(r)'
  BY <1>3, HandlerKept
<1>5. IotConsistent' /\ SentBacked' /\ PendingHasJob' /\ RowHasJob'
  BY DEF awsVars, Backed, IotConsistent, SentBacked, Exists, PendingHasJob, RowHasJob
<1>6. AcceptedHasJob'
  BY <1>2 DEF awsVars, Backed, AcceptedHasJob, Exists
<1> QED
  BY <1>1, <1>2, <1>3, <1>4, <1>5, <1>6, Becomes, Assemble DEF TypeOK, awsVars, Invariants

----------------------------------------------------------------------------
(* AWS IoT Jobs                                                            *)

(* What every call and every step of a device leaves of AWS IoT.           *)
IotSound ==
    /\ iot' \in [JobIds -> IotJob]
    /\ JobsKept
    /\ \A id \in JobIds : /\ Exists(id)' <=> iot'[id].dev \in Devices
                          /\ iot'[id].exec # "NONE" => Exists(id)'
    /\ events' \subseteq Event
    /\ \A e \in events' : Exists(e.job)'

(* One job changes, and what is announced is about it.                     *)
LEMMA IotChange ==
    ASSUME Backed, NEW id \in JobIds, NEW new \in IotJob,
           iot' = [iot EXCEPT ![id] = new],
           new.status # "NONE", new.dev \in Devices,
           Exists(id) => new.dev = iot[id].dev,
           \/ events' = events
           \/ \E t \in EventType : events' = events \cup {[job |-> id, type |-> t]}
    PROVE  IotSound
<1>1. iot \in [JobIds -> IotJob] /\ events \subseteq Event
  BY DEF Backed, TypeOK
<1>2. /\ iot' \in [JobIds -> IotJob] /\ iot'[id] = new
      /\ \A j \in JobIds : j # id => iot'[j] = iot[j]
  BY <1>1
<1>3. JobsKept
  BY <1>2 DEF JobsKept, Exists
<1>4. \A j \in JobIds : /\ Exists(j)' <=> iot'[j].dev \in Devices
                        /\ iot'[j].exec # "NONE" => Exists(j)'
  BY <1>2 DEF Backed, IotConsistent, Exists
<1>5. events' \subseteq Event
  BY <1>1 DEF Event
<1>6. ASSUME NEW e \in events' PROVE Exists(e.job)'
  <2>1. e \in events \/ e.job = id
    OBVIOUS
  <2>2. e.job \in JobIds
    BY <1>5 DEF Event
  <2>3. CASE e.job = id
    BY <1>2, <2>3 DEF Exists
  <2>4. CASE e \in events
    BY <1>3, <2>2, <2>4 DEF Backed, SentBacked, JobsKept
  <2> QED
    BY <2>1, <2>3, <2>4
<1> QED
  BY <1>2, <1>3, <1>4, <1>5, <1>6 DEF IotSound

LEMMA IotUnchanged ==
    ASSUME Backed, UNCHANGED <<iot, events>>
    PROVE  IotSound
<1>1. TypeOK /\ IotConsistent /\ SentBacked
  BY DEF Backed
<1> QED
  BY <1>1 DEF IotSound, TypeOK, IotConsistent, SentBacked, JobsKept, Exists

LEMMA CreateJobSound ==
    ASSUME Backed, NEW id \in JobIds, NEW d \in Devices, ~Exists(id), CreateJob(id, d)
    PROVE  IotSound /\ iot'[id].dev = d
<1>1. PICK new \in IotJob :
        new = [status |-> "IN_PROGRESS", dev |-> d, exec |-> "QUEUED"]
  BY DEF IotJob, IotStatus, ExecStatus, ExecLive
<1>2. iot' = [iot EXCEPT ![id] = new] /\ events' = events
  BY <1>1 DEF CreateJob
<1>3. IotSound
  BY <1>1, <1>2, IotChange
<1>4. iot \in [JobIds -> IotJob]
  BY DEF Backed, TypeOK
<1> QED
  BY <1>1, <1>2, <1>3, <1>4

LEMMA CancelJobSound ==
    ASSUME Backed, NEW id \in JobIds, CancelJob(id)
    PROVE  IotSound
<1>1. CASE iot[id].status = "IN_PROGRESS"
  <2>1. PICK x \in IotJob : x = iot[id]
    BY DEF Backed, TypeOK
  <2>2. PICK new \in IotJob :
          new = [status |-> "CANCELED", dev |-> x.dev,
                 exec |-> IF x.exec = "QUEUED" THEN "CANCELED" ELSE x.exec]
    BY DEF IotJob, IotStatus, ExecStatus
  <2>3. iot' = [iot EXCEPT ![id] = new]
    BY <1>1, <2>1, <2>2 DEF CancelJob
  <2>4. new.status = "CANCELED" /\ new.dev = iot[id].dev
    BY <2>1, <2>2 DEF IotJob
  <2>5. iot[id].dev \in Devices
    BY <1>1 DEF Backed, IotConsistent, Exists
  <2>6. \E t \in EventType : events' = events \cup {[job |-> id, type |-> t]}
    BY <1>1 DEF CancelJob, EventType
  <2> QED
    BY <2>3, <2>4, <2>5, <2>6, IotChange
<1>2. CASE iot[id].status # "IN_PROGRESS"
  BY <1>2, IotUnchanged DEF CancelJob
<1> QED
  BY <1>1, <1>2

LEMMA EndExecutionSound ==
    ASSUME Backed, NEW id \in JobIds, NEW s \in ExecStatus,
           iot[id].exec # "NONE", EndExecution(id, s)
    PROVE  IotSound
<1>1. PICK x \in IotJob : x = iot[id]
  BY DEF Backed, TypeOK
<1>2. PICK new \in IotJob :
        new = [status |-> IF x.status = "IN_PROGRESS" THEN "COMPLETED" ELSE x.status,
               dev |-> x.dev, exec |-> s]
  BY DEF IotJob, IotStatus
<1>3. iot' = [iot EXCEPT ![id] = new]
  BY <1>1, <1>2 DEF EndExecution
<1>4. Exists(id) /\ iot[id].dev \in Devices
  BY DEF Backed, IotConsistent
<1>5. new.status # "NONE" /\ new.dev = iot[id].dev
  BY <1>1, <1>2, <1>4 DEF IotJob, Exists
<1>6. \/ events' = events
      \/ \E t \in EventType : events' = events \cup {[job |-> id, type |-> t]}
  BY DEF EndExecution, EventType
<1> QED
  BY <1>3, <1>4, <1>5, <1>6, IotChange

LEMMA UpdateExecutionSound ==
    ASSUME Backed, NEW id \in JobIds, NEW s \in ReportStatus, UpdateExecution(id, s)
    PROVE  IotSound
<1>1. CASE iot[id].exec \in ExecLive /\ s = "IN_PROGRESS"
  <2>1. PICK x \in IotJob : x = iot[id]
    BY DEF Backed, TypeOK
  <2>2. PICK new \in IotJob : new = [x EXCEPT !.exec = "IN_PROGRESS"]
    BY DEF IotJob, ExecStatus, ExecLive
  <2>3. iot' = [iot EXCEPT ![id] = new] /\ events' = events
    BY <1>1, <2>1, <2>2 DEF UpdateExecution
  <2>4. Exists(id) /\ iot[id].dev \in Devices
    BY <1>1 DEF Backed, IotConsistent, ExecLive
  <2>5. new.status # "NONE" /\ new.dev = iot[id].dev
    BY <2>1, <2>2, <2>4 DEF IotJob, Exists
  <2> QED
    BY <2>3, <2>4, <2>5, IotChange
<1>2. CASE iot[id].exec \in ExecLive /\ s \notin {"IN_PROGRESS", "TIMED_OUT"}
  <2>1. s \in ExecStatus /\ iot[id].exec # "NONE" /\ EndExecution(id, s)
    BY <1>2 DEF UpdateExecution, ReportStatus, ExecStatus, ExecLive
  <2> QED
    BY <2>1, EndExecutionSound
<1>3. CASE ~(iot[id].exec \in ExecLive /\ s # "TIMED_OUT")
  BY <1>3, IotUnchanged DEF UpdateExecution
<1> QED
  BY <1>1, <1>2, <1>3

(* A step of AWS IoT, of a device, or of the handler that calls them.      *)
LEMMA IotStep ==
    ASSUME Backed, IotSound,
           inv' \in [Workers -> Invocation],
           \A u \in Workers : inv'[u] = inv[u] \/ (HandlerTyped(inv[u]) /\ HandlerBacked(inv[u]))',
           crashes' \in 0 .. MaxCrash,
           run' \in [JobIds -> RunStatus],
           \A id \in JobIds : run'[id] # "idle" => Exists(id),
           fw' \in [Devices -> Versions \cup {0}],
           msgs' \subseteq Message,
           \A m \in msgs' : Exists(m.job),
           UNCHANGED <<tables, now, old>>
    PROVE  Backed'
<1>1. TypeOK
  BY DEF Backed
<1>2. Kept
  BY DEF IotSound, tables, Kept, RowsKept, ConsentsKept
<1>3. IotConsistent'
  BY DEF IotSound, IotConsistent, JobsKept
<1>4. SentBacked'
  BY DEF IotSound, SentBacked, JobsKept, Message
<1>5. JobsKept /\ IotConsistent
  BY DEF IotSound, Backed
<1>6. AcceptedHasJob'
  <2>1. ASSUME NEW c \in ConsentIds, consents[c].status = "ACCEPTED"
        PROVE  /\ consents[c].job \in JobIds /\ Exists(consents[c].job)'
                 /\ iot'[consents[c].job].dev = consents[c].dev
    <3>1. /\ consents[c].job \in JobIds /\ Exists(consents[c].job)
          /\ iot[consents[c].job].dev = consents[c].dev
      BY <2>1 DEF Backed, AcceptedHasJob
    <3>2. UNCHANGED consents
      BY DEF tables
    <3> QED
      BY <1>5, <3>1, <3>2 DEF JobsKept
  <2> QED
    BY <2>1 DEF tables, AcceptedHasJob, Exists
<1>7. PendingHasJob'
  BY <1>1, <1>5 DEF tables, Backed, TypeOK, PendingHasJob, IotConsistent, JobsKept
<1>8. RowHasJob'
  BY <1>5 DEF tables, Backed, RowHasJob, JobsKept
<1> QED
  BY <1>1, <1>2, <1>3, <1>4, <1>6, <1>7, <1>8, Assemble
  DEF TypeOK, tables, IotSound, Invariants

----------------------------------------------------------------------------
(* The handlers                                                            *)

USE DEF ConsentPcs, AbortPcs, CreatedPcs, StatusPcs, SyncPcs

(* A handler that goes on and writes one field is still an invocation.     *)
LEMMA FieldWritten ==
    ASSUME NEW i \in Invocation, NEW p \in Pcs
    PROVE  /\ [i EXCEPT !.pc = p] \in Invocation
           /\ \A j \in JobIds \cup {NoJob} : [i EXCEPT !.pc = p, !.job = j] \in Invocation
           /\ \A cs \in SUBSET ConsentIds : [i EXCEPT !.pc = p, !.conss = cs] \in Invocation
           /\ \A c \in ConsentIds \cup {NoCons} : [i EXCEPT !.pc = p, !.cons = c] \in Invocation
           /\ \A a \in RowStatus : [i EXCEPT !.pc = p, !.agg = a] \in Invocation
           /\ \A s \in RowStatus : [i EXCEPT !.pc = p, !.stat = s] \in Invocation
           /\ \A js \in SUBSET JobIds : [i EXCEPT !.pc = p, !.ids = js] \in Invocation
<1>1. PICK k \in Invocation : k = [i EXCEPT !.pc = p]
  BY DEF Invocation
<1>2. ASSUME NEW j \in JobIds \cup {NoJob}
      PROVE  [i EXCEPT !.pc = p, !.job = j] \in Invocation
  <2>1. [k EXCEPT !.job = j] \in Invocation
    BY DEF Invocation
  <2>2. [k EXCEPT !.job = j] = [i EXCEPT !.pc = p, !.job = j]
    BY <1>1 DEF Invocation
  <2> QED
    BY <2>1, <2>2
<1>3. ASSUME NEW cs \in SUBSET ConsentIds
      PROVE  [i EXCEPT !.pc = p, !.conss = cs] \in Invocation
  <2>1. [k EXCEPT !.conss = cs] \in Invocation
    BY DEF Invocation
  <2>2. [k EXCEPT !.conss = cs] = [i EXCEPT !.pc = p, !.conss = cs]
    BY <1>1 DEF Invocation
  <2> QED
    BY <2>1, <2>2
<1>4. ASSUME NEW c \in ConsentIds \cup {NoCons}
      PROVE  [i EXCEPT !.pc = p, !.cons = c] \in Invocation
  <2>1. [k EXCEPT !.cons = c] \in Invocation
    BY DEF Invocation
  <2>2. [k EXCEPT !.cons = c] = [i EXCEPT !.pc = p, !.cons = c]
    BY <1>1 DEF Invocation
  <2> QED
    BY <2>1, <2>2
<1>5. ASSUME NEW a \in RowStatus
      PROVE  [i EXCEPT !.pc = p, !.agg = a] \in Invocation
  <2>1. [k EXCEPT !.agg = a] \in Invocation
    BY DEF Invocation
  <2>2. [k EXCEPT !.agg = a] = [i EXCEPT !.pc = p, !.agg = a]
    BY <1>1 DEF Invocation
  <2> QED
    BY <2>1, <2>2
<1>6. ASSUME NEW s \in RowStatus
      PROVE  [i EXCEPT !.pc = p, !.stat = s] \in Invocation
  <2>1. [k EXCEPT !.stat = s] \in Invocation
    BY DEF Invocation
  <2>2. [k EXCEPT !.stat = s] = [i EXCEPT !.pc = p, !.stat = s]
    BY <1>1 DEF Invocation
  <2> QED
    BY <2>1, <2>2
<1>7. ASSUME NEW js \in SUBSET JobIds
      PROVE  [i EXCEPT !.pc = p, !.ids = js] \in Invocation
  <2>1. [k EXCEPT !.ids = js] \in Invocation
    BY DEF Invocation
  <2>2. [k EXCEPT !.ids = js] = [i EXCEPT !.pc = p, !.ids = js]
    BY <1>1 DEF Invocation
  <2> QED
    BY <2>1, <2>2
<1> QED
  BY <1>1, <1>2, <1>3, <1>4, <1>5, <1>6, <1>7

LEMMA CrashesBounded ==
    ASSUME Backed, UNCHANGED crashes \/ Fail
    PROVE  crashes' \in 0 .. MaxCrash
  BY OtaAssumption DEF Backed, TypeOK, Fail

(* A handler that returns leaves nothing to be checked.                    *)
LEMMA Returns ==
    ASSUME Backed, NEW w \in Workers, Return(w), UNCHANGED crashes \/ Fail,
           UNCHANGED <<tables, now, old, awsVars>>
    PROVE  Backed'
  BY IdleHandler, CrashesBounded, InvStep DEF Return

LEMMA DeployStartKeeps ==
    ASSUME Backed, NEW w \in Workers, NEW v \in Versions, NEW ds \in SUBSET Devices,
           NEW type \in {"THING", "GROUP"}, DeployStart(w, v, ds, type)
    PROVE  Backed'
<1>1. PICK r \in Invocation :
        r = [Idle EXCEPT !.pc = "deployPut", !.ver = v, !.devs = ds, !.type = type]
  BY DEF Idle, Invocation, Pcs, RowStatus
<1>2. Handler(r)
  BY <1>1 DEF Idle, Handler, HandlerTyped, HandlerBacked
<1>3. Become(w, r) /\ UNCHANGED <<tables, now, crashes, old, awsVars>>
  BY <1>1 DEF DeployStart
<1> QED
  BY <1>2, <1>3, CrashesBounded, InvStep

LEMMA NewIdTyped ==
    ASSUME Backed, NEW v \in Versions
    PROVE  NewId(v) \in JobIds
  BY DEF Backed, TypeOK, NewId, JobIds

LEMMA DeployPutKeeps ==
    ASSUME Backed, NEW w \in Workers, DeployPut(w)
    PROVE  Backed'
<1>1. PICK i \in Invocation : i = inv[w]
  BY Moving
<1>2. i.pc = "deployPut" /\ i.ver \in Versions
  BY <1>1, Moving DEF DeployPut, At, HandlerTyped
<1>3. PICK id \in JobIds : id = NewId(i.ver)
  BY <1>2, NewIdTyped
<1>4. PICK row \in JobRow :
        row = [NoRow EXCEPT !.status = "AWAITING_CONSENT",
                            !.type = i.type, !.targets = i.devs]
  BY DEF Invocation, JobRow, NoRow, RowStatus
<1>5. row.status = "AWAITING_CONSENT"
  BY <1>4 DEF NoRow
<1>6. PICK r \in Invocation : r = [i EXCEPT !.pc = "deployConsent", !.job = id]
  BY FieldWritten DEF Pcs
<1>7. Handler(r)
  BY <1>2, <1>6 DEF Invocation, Handler, HandlerTyped, HandlerBacked
<1>8. /\ jobs' = [jobs EXCEPT ![id] = row] /\ Become(w, r)
      /\ UNCHANGED <<consents, pending, inventory, package, now, crashes, old, awsVars>>
  BY <1>1, <1>3, <1>4, <1>6 DEF DeployPut
<1> QED
  BY <1>5, <1>7, <1>8, CrashesBounded, RowStep

(* The loop over the devices of the deployment.                            *)
LEMMA ConsentRecordSound ==
    ASSUME Backed, NEW w \in Workers, At(w, "deployConsent"),
           NEW d \in Devices, ConsentRecordDone(w, d)
    PROVE  \E r \in Invocation : Become(w, r) /\ Handler(r)
<1>1. PICK i \in Invocation : i = inv[w]
  BY Moving
<1>2. i.pc = "deployConsent" /\ HandlerTyped(i)
  BY <1>1, Moving DEF At
<1>3. CASE i.devs = {d}
  BY <1>1, <1>3, IdleHandler DEF ConsentRecordDone, Return
<1>4. CASE i.devs # {d}
  <2>1. PICK r \in Invocation : r = [i EXCEPT !.devs = @ \ {d}]
    BY DEF Invocation
  <2>2. Handler(r)
    BY <1>2, <2>1 DEF Invocation, Handler, HandlerTyped, HandlerBacked
  <2> QED
    BY <1>1, <1>4, <2>1, <2>2 DEF ConsentRecordDone
<1> QED
  BY <1>3, <1>4

LEMMA DeployConsentKeeps ==
    ASSUME Backed, NEW w \in Workers, DeployConsent(w)
    PROVE  Backed'
<1>1. PICK i \in Invocation : i = inv[w]
  BY Moving
<1>2. i.pc = "deployConsent" /\ i.ver \in Versions /\ i.job \in JobIds
  BY <1>1, Moving DEF DeployConsent, At, HandlerTyped
<1>3. PICK d \in i.devs, c \in UnusedConsents :
        /\ consents' = [consents EXCEPT ![c] =
             [status |-> "PENDING", dev |-> d, ver |-> i.ver,
              deployment |-> i.job, job |-> NoJob]]
        /\ ConsentRecordDone(w, d)
  BY <1>1 DEF DeployConsent
<1>4. d \in Devices /\ c \in ConsentIds /\ consents[c] = NoConsent
  BY DEF Invocation, UnusedConsents
<1>5. PICK new \in Consent : new = [status |-> "PENDING", dev |-> d, ver |-> i.ver,
                                    deployment |-> i.job, job |-> NoJob]
  BY <1>2, <1>4 DEF Consent
<1>6. PICK r \in Invocation : Become(w, r) /\ Handler(r)
  BY <1>3, <1>4, ConsentRecordSound DEF DeployConsent
<1>7. consents[c].dev \notin Devices
  BY <1>4, OtaAssumption DEF NoConsent
<1>8. UNCHANGED <<jobs, pending, inventory, package, now, crashes, old, awsVars>>
  BY DEF DeployConsent
<1> QED
  BY <1>3, <1>4, <1>5, <1>6, <1>7, <1>8, ConsentStep

LEMMA DeployConsentFailsKeeps ==
    ASSUME Backed, NEW w \in Workers, DeployConsentFails(w)
    PROVE  Backed'
<1>1. PICK d \in inv[w].devs : ConsentRecordDone(w, d)
  BY DEF DeployConsentFails
<1>2. d \in Devices
  BY Moving DEF Invocation
<1>3. PICK r \in Invocation : Become(w, r) /\ Handler(r)
  BY <1>1, <1>2, ConsentRecordSound DEF DeployConsentFails
<1> QED
  BY <1>3, CrashesBounded, InvStep DEF DeployConsentFails

LEMMA AbortStartKeeps ==
    ASSUME Backed, NEW w \in Workers, NEW id \in JobIds, AbortStart(w, id)
    PROVE  Backed'
<1>1. PICK r \in Invocation :
        r = [Idle EXCEPT !.pc = IF jobs[id].status = "AWAITING_CONSENT"
                                THEN "abortQuery" ELSE "abortCancel",
                         !.job = id, !.devs = jobs[id].targets, !.type = jobs[id].type]
  BY DEF Backed, TypeOK, Idle, Invocation, Pcs, RowStatus, JobRow
<1>2. Handler(r)
  BY <1>1 DEF Idle, Handler, HandlerTyped, HandlerBacked
<1>3. Become(w, r) /\ UNCHANGED <<tables, now, crashes, old, awsVars>>
  BY <1>1 DEF AbortStart
<1> QED
  BY <1>2, <1>3, CrashesBounded, InvStep

LEMMA AbortQueryKeeps ==
    ASSUME Backed, NEW w \in Workers, AbortQuery(w)
    PROVE  Backed'
<1>1. PICK i \in Invocation : i = inv[w]
  BY Moving
<1>2. i.pc = "abortQuery" /\ i.job \in JobIds
  BY <1>1, Moving DEF AbortQuery, At, HandlerTyped
<1>3. PICK found \in SUBSET ConsentIds :
        Become(w, [i EXCEPT !.pc = IF found = {} THEN "abortMark" ELSE "abortConsent",
                            !.conss = found])
  BY <1>1 DEF AbortQuery
<1>4. PICK r \in Invocation :
        r = [i EXCEPT !.pc = IF found = {} THEN "abortMark" ELSE "abortConsent",
                      !.conss = found]
  BY FieldWritten DEF Pcs
<1>5. Handler(r)
  BY <1>2, <1>4 DEF Invocation, Handler, HandlerTyped, HandlerBacked
<1>6. UNCHANGED <<tables, now, crashes, old, awsVars>>
  BY DEF AbortQuery
<1> QED
  BY <1>3, <1>4, <1>5, <1>6, CrashesBounded, InvStep

LEMMA AbortConsentKeeps ==
    ASSUME Backed, NEW w \in Workers, AbortConsent(w)
    PROVE  Backed'
<1>1. PICK i \in Invocation : i = inv[w]
  BY Moving
<1>2. i.pc = "abortConsent" /\ i.job \in JobIds
  BY <1>1, Moving DEF AbortConsent, At, HandlerTyped
<1>3. PICK c \in i.conss :
        /\ consents' = [consents EXCEPT ![c].status = "CANCELLED"]
        /\ Become(w, [i EXCEPT !.pc = IF i.conss = {c} THEN "abortMark" ELSE i.pc,
                               !.conss = i.conss \ {c}])
  BY <1>1 DEF AbortConsent
<1>4. PICK r \in Invocation :
        r = [i EXCEPT !.pc = IF i.conss = {c} THEN "abortMark" ELSE i.pc,
                      !.conss = i.conss \ {c}]
  <2>1. i.conss \ {c} \in SUBSET ConsentIds
    BY DEF Invocation
  <2> QED
    BY <1>2, <2>1, FieldWritten DEF Pcs
<1>5. Handler(r)
  BY <1>2, <1>4 DEF Invocation, Handler, HandlerTyped, HandlerBacked
<1>6. c \in ConsentIds
  BY DEF Invocation
<1>7. PICK x \in Consent : x = consents[c]
  BY <1>6 DEF Backed, TypeOK
<1>8. PICK new \in Consent : new = [x EXCEPT !.status = "CANCELLED"]
  BY DEF Consent
<1>9. new.status = "CANCELLED" /\ new.dev = consents[c].dev
  BY <1>7, <1>8 DEF Consent
<1>10. consents' = [consents EXCEPT ![c] = new]
  BY <1>3, <1>7, <1>8
<1>11. UNCHANGED <<jobs, pending, inventory, package, now, crashes, old, awsVars>>
  BY DEF AbortConsent
<1> QED
  BY <1>3, <1>4, <1>5, <1>6, <1>9, <1>10, <1>11, ConsentStep

(* A handler calls AWS IoT.                                                *)
LEMMA IotCall ==
    ASSUME Backed, IotSound, NEW w \in Workers, NEW r \in Invocation, Become(w, r),
           Handler(r) \/ Handler(r)',
           crashes' \in 0 .. MaxCrash,
           msgs' \subseteq msgs,
           UNCHANGED <<tables, now, old, run, fw>>
    PROVE  Backed'
<1>1. Kept
  BY DEF IotSound, tables, Kept, RowsKept, ConsentsKept
<1>2. Handler(r)'
  BY <1>1, HandlerKept
<1>3. TypeOK /\ IotConsistent /\ SentBacked
  BY DEF Backed
<1>4. run' \in [JobIds -> RunStatus] /\ fw' \in [Devices -> Versions \cup {0}]
  BY <1>3 DEF TypeOK
<1>5. \A id \in JobIds : run'[id] # "idle" => Exists(id)
  BY <1>3 DEF IotConsistent
<1>6. msgs' \subseteq Message /\ \A m \in msgs' : Exists(m.job)
  BY <1>3 DEF TypeOK, SentBacked
<1> QED
  BY <1>2, <1>4, <1>5, <1>6, Becomes, IotStep

LEMMA AbortCancelKeeps ==
    ASSUME Backed, NEW w \in Workers, AbortCancel(w)
    PROVE  Backed'
<1>1. PICK i \in Invocation : i = inv[w]
  BY Moving
<1>2. i.pc = "abortCancel" /\ i.job \in JobIds
  BY <1>1, Moving DEF AbortCancel, At, HandlerTyped
<1>3. PICK r \in Invocation : r = [i EXCEPT !.pc = "abortMark"]
  BY FieldWritten DEF Pcs
<1>4. Become(w, r)
  BY <1>1, <1>3 DEF AbortCancel, Goto
<1>5. Handler(r)
  BY <1>2, <1>3 DEF Invocation, Handler, HandlerTyped, HandlerBacked
<1>6. IotSound
  BY <1>1, <1>2, CancelJobSound, IotUnchanged DEF AbortCancel
<1>7. /\ UNCHANGED crashes \/ Fail
      /\ UNCHANGED <<tables, now, old, run, fw, msgs>>
  BY DEF AbortCancel
<1> QED
  BY <1>4, <1>5, <1>6, <1>7, CrashesBounded, IotCall

(* A row gets another status.                                              *)
LEMMA RowStatusSet ==
    ASSUME Backed, NEW id \in JobIds, NEW s \in RowStatus, SetRowStatus(id, s)
    PROVE  \E row \in JobRow : row.status = s /\ jobs' = [jobs EXCEPT ![id] = row]
<1>1. PICK x \in JobRow : x = jobs[id]
  BY DEF Backed, TypeOK
<1>2. PICK row \in JobRow : row = [x EXCEPT !.status = s]
  BY DEF JobRow
<1>3. row.status = s
  BY <1>2 DEF JobRow
<1>4. jobs' = [jobs EXCEPT ![id] = row]
  BY <1>1, <1>2 DEF SetRowStatus
<1> QED
  BY <1>3, <1>4

LEMMA AbortMarkKeeps ==
    ASSUME Backed, NEW w \in Workers, AbortMark(w)
    PROVE  Backed'
<1>1. PICK i \in Invocation : i = inv[w]
  BY Moving
<1>2. i.pc = "abortMark" /\ i.job \in JobIds
  BY <1>1, Moving DEF AbortMark, At, HandlerTyped
<1>3. PICK r \in Invocation : Become(w, r) /\ Handler(r)
  <2>1. CASE i.type = "THING"
    <3>1. PICK r \in Invocation : r = [i EXCEPT !.pc = "abortClear"]
      BY FieldWritten DEF Pcs
    <3>2. Handler(r)
      BY <1>2, <3>1 DEF Invocation, Handler, HandlerTyped, HandlerBacked
    <3> QED
      BY <1>1, <2>1, <3>1, <3>2 DEF AbortMark, Goto
  <2>2. CASE i.type # "THING"
    BY <1>1, <2>2, IdleHandler DEF AbortMark, Return
  <2> QED
    BY <2>1, <2>2
<1>4. PICK row \in JobRow :
        row.status = "CANCELLED" /\ jobs' = [jobs EXCEPT ![i.job] = row]
  BY <1>1, <1>2, RowStatusSet DEF AbortMark, RowStatus
<1>5. UNCHANGED <<consents, pending, inventory, package, now, crashes, old, awsVars>>
  BY DEF AbortMark
<1> QED
  BY <1>2, <1>3, <1>4, <1>5, CrashesBounded, RowStep

LEMMA AbortClearKeeps ==
    ASSUME Backed, NEW w \in Workers, AbortClear(w)
    PROVE  Backed'
<1>1. pending \in [Devices -> JobIds \cup {NoJob}] /\ inventory \in [Devices -> Inventory]
  BY DEF Backed, TypeOK
<1>2. pending' = [d \in Devices |-> IF d \in inv[w].devs THEN NoJob ELSE pending[d]]
  BY DEF AbortClear
<1>3. /\ pending' \in [Devices -> JobIds \cup {NoJob}]
      /\ \A d \in Devices : pending'[d] \in {pending[d], NoJob}
  BY <1>1, <1>2
<1> QED
  BY <1>1, <1>3, IdleHandler, PendingStep DEF AbortClear, Return

----------------------------------------------------------------------------

LEMMA ConsentStartKeeps ==
    ASSUME Backed, NEW w \in Workers, NEW d \in Devices, NEW v \in Versions,
           NEW answer \in {"ACCEPTED", "DECLINED"}, ConsentStart(w, d, v, answer)
    PROVE  Backed'
<1>1. PICK r \in Invocation :
        r = [Idle EXCEPT !.pc = "findConsent", !.dev = d, !.ver = v, !.stat = answer,
                         !.job = pending[d], !.newer = v > inventory[d].ver]
  <2>1. PICK j \in JobIds \cup {NoJob} : j = pending[d]
    BY DEF Backed, TypeOK
  <2>2. PICK x \in Inventory : x = inventory[d]
    BY DEF Backed, TypeOK
  <2>3. PICK b \in BOOLEAN : b = (v > inventory[d].ver)
    <3>1. CASE v > x.ver
      <4>1. TRUE = (v > inventory[d].ver)
        BY <2>2, <3>1
      <4> QED
        BY <4>1
    <3>2. CASE ~(v > x.ver)
      <4>1. FALSE = (v > inventory[d].ver)
        BY <2>2, <3>2
      <4> QED
        BY <4>1
    <3> QED
      BY <3>1, <3>2
  <2>4. [Idle EXCEPT !.pc = "findConsent", !.dev = d, !.ver = v, !.stat = answer,
                     !.job = j, !.newer = b] \in Invocation
    BY DEF Idle, Invocation, Pcs, RowStatus
  <2> QED
    BY <2>1, <2>3, <2>4
<1>2. Handler(r)
  BY <1>1 DEF Idle, Handler, HandlerTyped, HandlerBacked
<1>3. Become(w, r) /\ UNCHANGED <<tables, now, crashes, old, awsVars>>
  BY <1>1 DEF ConsentStart
<1> QED
  BY <1>2, <1>3, CrashesBounded, InvStep

LEMMA FindConsentKeeps ==
    ASSUME Backed, NEW w \in Workers, FindConsent(w)
    PROVE  Backed'
<1>1. PICK i \in Invocation : i = inv[w]
  BY Moving
<1>2. /\ i.pc = "findConsent" /\ i.dev \in Devices /\ i.ver \in Versions
      /\ i.cons # NoCons => consents[i.cons].dev = i.dev
  BY <1>1, Moving DEF FindConsent, At, HandlerTyped, HandlerBacked
<1>3. UNCHANGED <<tables, now, crashes, old, awsVars>>
  BY DEF FindConsent
<1>4. CASE \E c \in Matching(i.dev, i.ver) :
             Become(w, [i EXCEPT !.pc = IF i.stat = "DECLINED" THEN "decline"
                                        ELSE "readPackage",
                                 !.cons = c])
  <2>1. PICK c \in ConsentIds :
          /\ consents[c].dev = i.dev
          /\ Become(w, [i EXCEPT !.pc = IF i.stat = "DECLINED" THEN "decline"
                                        ELSE "readPackage",
                                 !.cons = c])
    BY <1>4 DEF Matching
  <2>2. PICK r \in Invocation :
          r = [i EXCEPT !.pc = IF i.stat = "DECLINED" THEN "decline" ELSE "readPackage",
                        !.cons = c]
    BY FieldWritten DEF Pcs
  <2>3. Handler(r)
    BY <1>2, <2>1, <2>2 DEF Invocation, Handler, HandlerTyped, HandlerBacked
  <2> QED
    BY <1>3, <2>1, <2>2, <2>3, CrashesBounded, InvStep
<1>5. CASE Goto(w, "readPackage")
  <2>1. PICK r \in Invocation : r = [i EXCEPT !.pc = "readPackage"]
    BY FieldWritten DEF Pcs
  <2>2. Handler(r)
    BY <1>2, <2>1 DEF Invocation, Handler, HandlerTyped, HandlerBacked
  <2> QED
    BY <1>1, <1>3, <1>5, <2>1, <2>2, CrashesBounded, InvStep DEF Goto
<1>6. CASE Return(w)
  BY <1>3, <1>6, Returns
<1> QED
  BY <1>1, <1>4, <1>5, <1>6 DEF FindConsent

LEMMA DeclineKeeps ==
    ASSUME Backed, NEW w \in Workers, Decline(w)
    PROVE  Backed'
<1>1. PICK c \in ConsentIds : c = inv[w].cons
  BY Moving DEF Decline, At, HandlerTyped
<1>2. PICK x \in Consent : x = consents[c]
  BY <1>1 DEF Backed, TypeOK
<1>3. PICK new \in Consent : new = [x EXCEPT !.status = "DECLINED"]
  BY DEF Consent
<1>4. new.status = "DECLINED" /\ new.dev = consents[c].dev
  BY <1>2, <1>3 DEF Consent
<1>5. consents' = [consents EXCEPT ![c] = new]
  BY <1>1, <1>2, <1>3 DEF Decline
<1> QED
  BY <1>4, <1>5, IdleHandler, ConsentStep DEF Decline, Return

LEMMA ReadPackageKeeps ==
    ASSUME Backed, NEW w \in Workers, ReadPackage(w)
    PROVE  Backed'
<1>1. PICK i \in Invocation : i = inv[w]
  BY Moving
<1>2. /\ i.pc = "readPackage" /\ i.dev \in Devices /\ i.ver \in Versions
      /\ i.cons # NoCons => consents[i.cons].dev = i.dev
  BY <1>1, Moving DEF ReadPackage, At, HandlerTyped, HandlerBacked
<1>3. UNCHANGED <<tables, now, crashes, old, awsVars>>
  BY DEF ReadPackage
<1>4. CASE Goto(w, IF i.job = NoJob THEN "createIot" ELSE "checkPending")
  <2>1. PICK r \in Invocation :
          r = [i EXCEPT !.pc = IF i.job = NoJob THEN "createIot" ELSE "checkPending"]
    BY FieldWritten DEF Pcs
  <2>2. Handler(r)
    BY <1>2, <2>1 DEF Invocation, Handler, HandlerTyped, HandlerBacked
  <2> QED
    BY <1>1, <1>3, <1>4, <2>1, <2>2, CrashesBounded, InvStep DEF Goto
<1>5. CASE Return(w)
  BY <1>3, <1>5, Returns
<1> QED
  BY <1>1, <1>4, <1>5 DEF ReadPackage

LEMMA CheckPendingKeeps ==
    ASSUME Backed, NEW w \in Workers, CheckPending(w)
    PROVE  Backed'
<1>1. PICK i \in Invocation : i = inv[w]
  BY Moving
<1>2. /\ i.pc = "checkPending" /\ i.dev \in Devices /\ i.ver \in Versions
      /\ i.cons # NoCons => consents[i.cons].dev = i.dev
  BY <1>1, Moving DEF CheckPending, At, HandlerTyped, HandlerBacked
<1>3. (UNCHANGED crashes \/ Fail) /\ UNCHANGED <<tables, now, old, awsVars>>
  BY DEF CheckPending
<1>4. CASE Goto(w, "clearStale")
  <2>1. PICK r \in Invocation : r = [i EXCEPT !.pc = "clearStale"]
    BY FieldWritten DEF Pcs
  <2>2. Handler(r)
    BY <1>2, <2>1 DEF Invocation, Handler, HandlerTyped, HandlerBacked
  <2> QED
    BY <1>1, <1>3, <1>4, <2>1, <2>2, CrashesBounded, InvStep DEF Goto
<1>5. CASE Return(w)
  BY <1>3, <1>5, Returns
<1> QED
  BY <1>4, <1>5 DEF CheckPending

LEMMA ClearStaleKeeps ==
    ASSUME Backed, NEW w \in Workers, ClearStale(w)
    PROVE  Backed'
<1>1. PICK i \in Invocation : i = inv[w]
  BY Moving
<1>2. /\ i.pc = "clearStale" /\ i.dev \in Devices /\ i.ver \in Versions
      /\ i.cons # NoCons => consents[i.cons].dev = i.dev
  BY <1>1, Moving DEF ClearStale, At, HandlerTyped, HandlerBacked
<1>3. PICK r \in Invocation : r = [i EXCEPT !.pc = "createIot"]
  BY FieldWritten DEF Pcs
<1>4. Handler(r)
  BY <1>2, <1>3 DEF Invocation, Handler, HandlerTyped, HandlerBacked
<1>5. pending \in [Devices -> JobIds \cup {NoJob}] /\ inventory \in [Devices -> Inventory]
  BY DEF Backed, TypeOK
<1>6. /\ pending' \in [Devices -> JobIds \cup {NoJob}]
      /\ \A d \in Devices : pending'[d] \in {pending[d], NoJob}
  BY <1>1, <1>2, <1>5 DEF ClearStale
<1> QED
  BY <1>1, <1>3, <1>4, <1>5, <1>6, PendingStep DEF ClearStale, Goto

LEMMA CreateIotKeeps ==
    ASSUME Backed, NEW w \in Workers, CreateIot(w)
    PROVE  Backed'
<1>1. PICK i \in Invocation : i = inv[w]
  BY Moving
<1>2. /\ i.pc = "createIot" /\ i.dev \in Devices /\ i.ver \in Versions
      /\ i.cons # NoCons => consents[i.cons].dev = i.dev
  BY <1>1, Moving DEF CreateIot, At, HandlerTyped, HandlerBacked
<1>3. PICK id \in JobIds : id = NewId(i.ver)
  BY <1>2, NewIdTyped
<1>4. UNCHANGED <<tables, now, crashes, old, run, fw, msgs>>
  BY DEF CreateIot
<1>5. CASE Exists(id)
  BY <1>1, <1>3, <1>4, <1>5, IotUnchanged, IdleHandler, CrashesBounded, IotCall
  DEF CreateIot, Return
<1>6. CASE ~Exists(id)
  <2>1. CreateJob(id, i.dev)
    BY <1>1, <1>3, <1>6 DEF CreateIot
  <2>2. IotSound /\ iot'[id].dev = i.dev
    BY <1>2, <1>6, <2>1, CreateJobSound
  <2>3. PICK r \in Invocation : r = [i EXCEPT !.pc = "writeConsent", !.job = id]
    BY FieldWritten DEF Pcs
  <2>4. Become(w, r)
    BY <1>1, <1>3, <1>6, <2>3 DEF CreateIot
  <2>5. UNCHANGED consents
    BY <1>4 DEF tables
  <2>6. Handler(r)'
    BY <1>2, <2>2, <2>3, <2>5 DEF Invocation, Handler, HandlerTyped, HandlerBacked
  <2> QED
    BY <1>4, <2>2, <2>4, <2>6, CrashesBounded, IotCall
<1> QED
  BY <1>5, <1>6

LEMMA WriteConsentKeeps ==
    ASSUME Backed, NEW w \in Workers, WriteConsent(w)
    PROVE  Backed'
<1>1. PICK i \in Invocation : i = inv[w]
  BY Moving
<1>2. /\ i.pc = "writeConsent" /\ i.dev \in Devices /\ i.ver \in Versions
      /\ i.job \in JobIds /\ iot[i.job].dev = i.dev
      /\ i.cons # NoCons => consents[i.cons].dev = i.dev
  BY <1>1, Moving DEF WriteConsent, At, HandlerTyped, HandlerBacked
<1>3. Exists(i.job)
  BY <1>2 DEF Backed, IotConsistent
<1>4. PICK r \in Invocation : r = [i EXCEPT !.pc = "putJob"]
  BY FieldWritten DEF Pcs
<1>5. Become(w, r)
  BY <1>1, <1>4 DEF WriteConsent, Goto
<1>6. Handler(r)
  BY <1>2, <1>4 DEF Invocation, Handler, HandlerTyped, HandlerBacked
<1>7. PICK c \in ConsentIds, new \in Consent :
        /\ consents' = [consents EXCEPT ![c] = new]
        /\ consents[c].dev \in Devices => new.dev = consents[c].dev
        /\ new.dev = i.dev /\ new.job = i.job
  <2>1. CASE /\ i.cons # NoCons
             /\ consents' = [consents EXCEPT ![i.cons] =
                               [@ EXCEPT !.status = "ACCEPTED", !.job = i.job]]
    <3>1. PICK c \in ConsentIds : c = i.cons
      BY <2>1 DEF Invocation
    <3>2. PICK x \in Consent : x = consents[c]
      BY DEF Backed, TypeOK
    <3>3. PICK k \in Consent : k = [x EXCEPT !.status = "ACCEPTED"]
      BY DEF Consent
    <3>4. PICK new \in Consent : new = [k EXCEPT !.job = i.job]
      BY <1>2 DEF Consent
    <3>5. new = [x EXCEPT !.status = "ACCEPTED", !.job = i.job]
      BY <3>3, <3>4 DEF Consent
    <3>6. consents' = [consents EXCEPT ![c] = new]
      BY <2>1, <3>1, <3>2, <3>5
    <3>7. new.dev = x.dev /\ new.job = i.job
      BY <3>3, <3>4 DEF Consent
    <3>8. new.dev = consents[c].dev /\ new.dev = i.dev
      BY <1>2, <2>1, <3>1, <3>2, <3>7
    <3> QED
      BY <3>6, <3>7, <3>8
  <2>2. CASE \E c \in ConsentIds :
               /\ consents[c] = NoConsent
               /\ consents' = [consents EXCEPT ![c] =
                    [status |-> "ACCEPTED", dev |-> i.dev, ver |-> i.ver,
                     deployment |-> NoJob, job |-> i.job]]
    <3>1. PICK c \in ConsentIds :
               /\ consents[c] = NoConsent
               /\ consents' = [consents EXCEPT ![c] =
                    [status |-> "ACCEPTED", dev |-> i.dev, ver |-> i.ver,
                     deployment |-> NoJob, job |-> i.job]]
      BY <2>2
    <3>2. PICK new \in Consent :
            new = [status |-> "ACCEPTED", dev |-> i.dev, ver |-> i.ver,
                   deployment |-> NoJob, job |-> i.job]
      BY <1>2 DEF Consent
    <3>3. consents[c].dev \notin Devices
      BY <3>1, OtaAssumption DEF NoConsent
    <3> QED
      BY <3>1, <3>2, <3>3
  <2> QED
    BY <1>1, <2>1, <2>2 DEF WriteConsent
<1>8. UNCHANGED <<jobs, pending, inventory, package, now, crashes, old, awsVars>>
  BY DEF WriteConsent
<1> QED
  BY <1>2, <1>3, <1>5, <1>6, <1>7, <1>8, ConsentStep

LEMMA PutJobKeeps ==
    ASSUME Backed, NEW w \in Workers, PutJob(w)
    PROVE  Backed'
<1>1. PICK i \in Invocation : i = inv[w]
  BY Moving
<1>2. /\ i.pc = "putJob" /\ i.dev \in Devices /\ i.ver \in Versions
      /\ i.job \in JobIds /\ iot[i.job].dev = i.dev
      /\ i.cons # NoCons => consents[i.cons].dev = i.dev
  BY <1>1, Moving DEF PutJob, At, HandlerTyped, HandlerBacked
<1>3. Exists(i.job)
  BY <1>2 DEF Backed, IotConsistent
<1>4. PICK row \in JobRow :
        row = [NoRow EXCEPT !.status = "QUEUED", !.targets = {i.dev}]
  BY <1>2 DEF JobRow, NoRow, RowStatus
<1>5. row.status = "QUEUED"
  BY <1>4 DEF NoRow
<1>6. PICK r \in Invocation : r = [i EXCEPT !.pc = "setPending"]
  BY FieldWritten DEF Pcs
<1>7. /\ jobs' = [jobs EXCEPT ![i.job] = row] /\ Become(w, r)
      /\ UNCHANGED <<consents, pending, inventory, package, now, crashes, old, awsVars>>
  BY <1>1, <1>4, <1>6 DEF PutJob, Goto
<1>8. jobs'[i.job] = row /\ UNCHANGED <<consents, iot>>
  BY <1>2, <1>7 DEF Backed, TypeOK, awsVars
<1>9. Handler(r)'
  BY <1>2, <1>5, <1>6, <1>8 DEF Invocation, Handler, HandlerTyped, HandlerBacked
<1> QED
  BY <1>2, <1>3, <1>5, <1>7, <1>9, CrashesBounded, RowStep

LEMMA SetPendingKeeps ==
    ASSUME Backed, NEW w \in Workers, SetPending(w)
    PROVE  Backed'
<1>1. PICK i \in Invocation : i = inv[w]
  BY Moving
<1>2. /\ i.dev \in Devices /\ i.job \in JobIds
      /\ iot[i.job].dev = i.dev /\ jobs[i.job].status # "NONE"
  BY <1>1, Moving DEF SetPending, At, HandlerTyped, HandlerBacked
<1>3. pending \in [Devices -> JobIds \cup {NoJob}] /\ inventory \in [Devices -> Inventory]
  BY DEF Backed, TypeOK
<1>4. pending' = [pending EXCEPT ![i.dev] = i.job]
  BY <1>1 DEF SetPending
<1>5. /\ pending' \in [Devices -> JobIds \cup {NoJob}]
      /\ \A d \in Devices : IF d = i.dev THEN pending'[d] = i.job
                                         ELSE pending'[d] = pending[d]
  BY <1>2, <1>3, <1>4
<1>6. \A d \in Devices : \/ pending'[d] \in {pending[d], NoJob}
                         \/ /\ jobs[pending'[d]].status # "NONE"
                            /\ iot[pending'[d]].dev = d
  BY <1>2, <1>5
<1> QED
  BY <1>3, <1>5, <1>6, IdleHandler, PendingStep DEF SetPending, Return

----------------------------------------------------------------------------

LEMMA StatusReceiveKeeps ==
    ASSUME Backed, NEW w \in Workers, NEW m \in msgs, StatusReceive(w, m)
    PROVE  Backed'
<1>1. PICK id \in JobIds, s \in ReportStatus : id = m.job /\ s = m.status
  BY DEF Backed, TypeOK, Message
<1>2. Exists(id) /\ iot[id].dev \in Devices
  BY <1>1 DEF Backed, SentBacked, IotConsistent
<1>3. PICK d \in Devices : d = iot[id].dev
  BY <1>2
<1>4. PICK r \in Invocation :
        r = [Idle EXCEPT !.pc = "aggregate", !.job = id, !.stat = s, !.dev = d]
  BY DEF Idle, Invocation, Pcs, RowStatus
<1>5. Handler(r)
  BY <1>3, <1>4 DEF Idle, Handler, HandlerTyped, HandlerBacked
<1>6. Become(w, r)
  BY <1>1, <1>3, <1>4 DEF StatusReceive
<1>7. IotSound /\ (UNCHANGED crashes \/ Fail)
  BY <1>1, UpdateExecutionSound, IotUnchanged DEF StatusReceive
<1>8. msgs' \subseteq msgs /\ UNCHANGED <<tables, now, old, run, fw>>
  BY DEF StatusReceive, Consume
<1> QED
  BY <1>5, <1>6, <1>7, <1>8, CrashesBounded, IotCall

LEMMA ReadAggregateKeeps ==
    ASSUME Backed, NEW w \in Workers, ReadAggregate(w)
    PROVE  Backed'
<1>1. PICK i \in Invocation : i = inv[w]
  BY Moving
<1>2. /\ i.pc = "aggregate" /\ i.dev \in Devices /\ i.stat \in ReportStatus
      /\ i.job \in JobIds /\ iot[i.job].dev = i.dev
  BY <1>1, Moving DEF ReadAggregate, At, HandlerTyped, HandlerBacked
<1>3. PICK a \in {"FAILED", "IN_PROGRESS", "SUCCEEDED"} :
        Become(w, [i EXCEPT !.pc = "updateRow", !.agg = a])
  <2>1. Aggregate(jobs[i.job], i.dev, i.stat) \in {"FAILED", "IN_PROGRESS", "SUCCEEDED"}
    BY DEF Aggregate
  <2> QED
    BY <1>1, <2>1 DEF ReadAggregate
<1>4. PICK r \in Invocation : r = [i EXCEPT !.pc = "updateRow", !.agg = a]
  BY FieldWritten DEF Pcs, RowStatus
<1>5. Handler(r)
  BY <1>2, <1>4 DEF Invocation, Handler, HandlerTyped, HandlerBacked
<1>6. (UNCHANGED crashes \/ Fail) /\ UNCHANGED <<tables, now, old, awsVars>>
  BY DEF ReadAggregate
<1> QED
  BY <1>3, <1>4, <1>5, <1>6, CrashesBounded, InvStep

LEMMA UpdateRowKeeps ==
    ASSUME Backed, NEW w \in Workers, UpdateRow(w)
    PROVE  Backed'
<1>1. PICK i \in Invocation : i = inv[w]
  BY Moving
<1>2. /\ i.pc = "updateRow" /\ i.dev \in Devices /\ i.stat \in ReportStatus
      /\ i.agg \in {"FAILED", "IN_PROGRESS", "SUCCEEDED"}
      /\ i.job \in JobIds /\ iot[i.job].dev = i.dev
  BY <1>1, Moving DEF UpdateRow, At, HandlerTyped, HandlerBacked
<1>3. Exists(i.job)
  BY <1>2 DEF Backed, IotConsistent
<1>4. UNCHANGED <<consents, pending, inventory, package, now, crashes, old, awsVars>>
  BY DEF UpdateRow
<1>5. CASE jobs[i.job].status = "NONE"
  <2>1. Return(w) /\ UNCHANGED <<tables, now, crashes, old, awsVars>>
    BY <1>1, <1>4, <1>5 DEF UpdateRow, tables
  <2> QED
    BY <2>1, Returns
<1>6. CASE jobs[i.job].status # "NONE"
  <2>1. PICK x \in JobRow : x = jobs[i.job]
    BY <1>2 DEF Backed, TypeOK
  <2>2. PICK reported \in [Devices -> ReportStatus \cup {"NONE"}] :
          reported = [x.reported EXCEPT ![i.dev] = i.stat]
    BY <1>2 DEF JobRow
  <2>3. PICK row \in JobRow :
          row = [status |-> i.agg, type |-> x.type, targets |-> x.targets,
                 reported |-> reported]
    BY <1>2 DEF JobRow, RowStatus
  <2>4. jobs' = [jobs EXCEPT ![i.job] = row]
    BY <1>1, <1>6, <2>1, <2>2, <2>3 DEF UpdateRow
  <2>5. row.status # "NONE"
    BY <1>2, <2>3
  <2>6. PICK r \in Invocation : Become(w, r) /\ Handler(r)
    <3>1. CASE i.stat = "IN_PROGRESS"
      BY <1>1, <1>6, <3>1, IdleHandler DEF UpdateRow, Return
    <3>2. CASE i.stat # "IN_PROGRESS"
      <4>1. PICK r \in Invocation : r = [i EXCEPT !.pc = "clearDevice"]
        BY FieldWritten DEF Pcs
      <4>2. Handler(r)
        BY <1>2, <3>2, <4>1 DEF Invocation, Handler, HandlerTyped, HandlerBacked
      <4> QED
        BY <1>1, <1>6, <3>2, <4>1, <4>2 DEF UpdateRow, Goto
    <3> QED
      BY <3>1, <3>2
  <2> QED
    BY <1>2, <1>3, <1>4, <2>4, <2>5, <2>6, CrashesBounded, RowStep
<1> QED
  BY <1>5, <1>6

LEMMA ClearDeviceKeeps ==
    ASSUME Backed, NEW w \in Workers, ClearDevice(w)
    PROVE  Backed'
<1>1. PICK i \in Invocation : i = inv[w]
  BY Moving
<1>2. /\ i.pc = "clearDevice" /\ i.dev \in Devices
      /\ i.stat \in ReportStatus /\ i.stat # "IN_PROGRESS"
      /\ i.job \in JobIds /\ iot[i.job].dev = i.dev
  BY <1>1, Moving DEF ClearDevice, At, HandlerTyped, HandlerBacked
<1>3. pending \in [Devices -> JobIds \cup {NoJob}] /\ inventory \in [Devices -> Inventory]
  BY DEF Backed, TypeOK
<1>4. UNCHANGED <<jobs, consents, package, now, crashes, old, awsVars>>
  BY DEF ClearDevice
<1>5. CASE i.stat = "SUCCEEDED" /\ i.dev \notin MapReady
  <2>1. Return(w) /\ UNCHANGED <<tables, now, crashes, old, awsVars>>
    BY <1>1, <1>4, <1>5 DEF ClearDevice, tables
  <2> QED
    BY <2>1, Returns
<1>6. CASE ~(i.stat = "SUCCEEDED" /\ i.dev \notin MapReady)
  <2>1. PICK r \in Invocation : r = [i EXCEPT !.pc = "markTerminal"]
    BY FieldWritten DEF Pcs
  <2>2. Handler(r)
    BY <1>2, <2>1 DEF Invocation, Handler, HandlerTyped, HandlerBacked
  <2>3. Become(w, r)
    BY <1>1, <1>6, <2>1 DEF ClearDevice, Goto
  <2>4. pending' = [pending EXCEPT ![i.dev] = NoJob]
    BY <1>1, <1>6 DEF ClearDevice
  <2>5. /\ pending' \in [Devices -> JobIds \cup {NoJob}]
        /\ \A d \in Devices : pending'[d] \in {pending[d], NoJob}
    BY <1>2, <1>3, <2>4
  <2>6. inventory' \in [Devices -> Inventory]
    <3>1. i.job[1] \in Versions
      BY <1>2 DEF JobIds
    <3>2. PICK x \in Inventory : x = inventory[i.dev]
      BY <1>2, <1>3
    <3>3. PICK y \in Inventory : y = [x EXCEPT !.installed = i.job[1]]
      BY <3>1 DEF Inventory
    <3>4. inventory' = inventory \/ inventory' = [inventory EXCEPT ![i.dev] = y]
      BY <1>1, <1>6, <3>2, <3>3 DEF ClearDevice
    <3> QED
      BY <1>3, <3>4
  <2> QED
    BY <1>4, <2>2, <2>3, <2>5, <2>6, PendingStep
<1> QED
  BY <1>5, <1>6

LEMMA MarkTerminalKeeps ==
    ASSUME Backed, NEW w \in Workers, MarkTerminal(w)
    PROVE  Backed'
<1>1. PICK i \in Invocation : i = inv[w]
  BY Moving
<1>2. /\ i.dev \in Devices /\ i.stat \in ReportStatus /\ i.stat # "IN_PROGRESS"
      /\ i.job \in JobIds /\ iot[i.job].dev = i.dev
  BY <1>1, Moving DEF MarkTerminal, At, HandlerTyped, HandlerBacked
<1>3. Exists(i.job)
  BY <1>2 DEF Backed, IotConsistent
<1>4. PICK s \in RowStatus :
        s = (IF i.stat = "REJECTED" THEN "FAILED" ELSE i.stat) /\ s # "NONE"
  BY <1>2 DEF RowStatus, ReportStatus
<1>5. PICK row \in JobRow : row.status = s /\ jobs' = [jobs EXCEPT ![i.job] = row]
  BY <1>1, <1>2, <1>4, RowStatusSet DEF MarkTerminal
<1>6. UNCHANGED <<consents, pending, inventory, package, now, crashes, old, awsVars>>
  BY DEF MarkTerminal
<1> QED
  BY <1>2, <1>3, <1>4, <1>5, <1>6, IdleHandler, CrashesBounded, RowStep
  DEF MarkTerminal, Return

----------------------------------------------------------------------------

LEMMA LifecycleReceiveKeeps ==
    ASSUME Backed, NEW w \in Workers, NEW e \in events, LifecycleReceive(w, e)
    PROVE  Backed'
<1>1. PICK id \in JobIds : id = e.job
  BY DEF Backed, TypeOK, Event
<1>2. Exists(id)
  BY <1>1 DEF Backed, SentBacked
<1>3. /\ events' = events \ {e}
      /\ UNCHANGED <<tables, now, crashes, old, iot, run, fw, msgs>>
  BY DEF LifecycleReceive
<1>4. IotSound
  <2>1. TypeOK /\ IotConsistent /\ SentBacked
    BY DEF Backed
  <2> QED
    BY <1>3, <2>1 DEF IotSound, TypeOK, IotConsistent, SentBacked, JobsKept, Exists
<1>5. PICK r \in Invocation : Become(w, r) /\ Handler(r)
  <2>1. CASE Become(w, [Idle EXCEPT !.pc = "syncWrite", !.job = e.job,
                                    !.stat = "CANCELLED"])
    <3>1. PICK r \in Invocation :
            r = [Idle EXCEPT !.pc = "syncWrite", !.job = id, !.stat = "CANCELLED"]
      BY DEF Idle, Invocation, Pcs, RowStatus
    <3>2. Handler(r)
      BY <1>2, <3>1 DEF Idle, Handler, HandlerTyped, HandlerBacked
    <3> QED
      BY <1>1, <2>1, <3>1, <3>2
  <2>2. CASE Become(w, [Idle EXCEPT !.pc = "describeCounts", !.job = e.job])
    <3>1. PICK r \in Invocation : r = [Idle EXCEPT !.pc = "describeCounts", !.job = id]
      BY DEF Idle, Invocation, Pcs, RowStatus
    <3>2. Handler(r)
      BY <1>2, <3>1 DEF Idle, Handler, HandlerTyped, HandlerBacked
    <3> QED
      BY <1>1, <2>2, <3>1, <3>2
  <2>3. CASE Return(w)
    BY <2>3, IdleHandler DEF Return
  <2> QED
    BY <2>1, <2>2, <2>3 DEF LifecycleReceive
<1> QED
  BY <1>3, <1>4, <1>5, CrashesBounded, IotCall

LEMMA DescribeCountsKeeps ==
    ASSUME Backed, NEW w \in Workers, DescribeCounts(w)
    PROVE  Backed'
<1>1. PICK i \in Invocation : i = inv[w]
  BY Moving
<1>2. i.pc = "describeCounts" /\ i.job \in JobIds /\ Exists(i.job)
  BY <1>1, Moving DEF DescribeCounts, At, HandlerTyped, HandlerBacked
<1>3. (UNCHANGED crashes \/ Fail) /\ UNCHANGED <<tables, now, old, awsVars>>
  BY DEF DescribeCounts
<1>4. CASE Return(w)
  BY <1>3, <1>4, Returns
<1>5. CASE \E s \in {"SUCCEEDED", "FAILED"} :
             Become(w, [i EXCEPT !.pc = "syncWrite", !.stat = s])
  <2>1. PICK s \in {"SUCCEEDED", "FAILED"} :
          Become(w, [i EXCEPT !.pc = "syncWrite", !.stat = s])
    BY <1>5
  <2>2. PICK r \in Invocation : r = [i EXCEPT !.pc = "syncWrite", !.stat = s]
    BY FieldWritten DEF Pcs, RowStatus
  <2>3. Handler(r)
    BY <1>2, <2>2 DEF Invocation, Handler, HandlerTyped, HandlerBacked
  <2> QED
    BY <1>3, <2>1, <2>2, <2>3, CrashesBounded, InvStep
<1> QED
  BY <1>1, <1>4, <1>5 DEF DescribeCounts

LEMMA SyncWriteKeeps ==
    ASSUME Backed, NEW w \in Workers, SyncWrite(w)
    PROVE  Backed'
<1>1. PICK i \in Invocation : i = inv[w]
  BY Moving
<1>2. /\ i.job \in JobIds /\ Exists(i.job)
      /\ i.stat \in {"CANCELLED", "SUCCEEDED", "FAILED"}
  BY <1>1, Moving DEF SyncWrite, At, HandlerTyped, HandlerBacked
<1>3. PICK row \in JobRow : row.status = i.stat /\ jobs' = [jobs EXCEPT ![i.job] = row]
  BY <1>1, <1>2, RowStatusSet DEF SyncWrite, RowStatus
<1>4. UNCHANGED <<consents, pending, inventory, package, now, crashes, old, awsVars>>
  BY DEF SyncWrite
<1> QED
  BY <1>2, <1>3, <1>4, IdleHandler, CrashesBounded, RowStep DEF SyncWrite, Return

(* The loop over the rows of the daily check.                              *)
LEMMA StaleNextSound ==
    ASSUME Backed, NEW w \in Workers, NEW id, StaleNext(w, id)
    PROVE  \E r \in Invocation : Become(w, r) /\ Handler(r)
<1>1. CASE Return(w)
  BY <1>1, IdleHandler DEF Return
<1>2. CASE Become(w, [Idle EXCEPT !.pc = "staleDescribe", !.ids = inv[w].ids \ {id}])
  <2>1. PICK js \in SUBSET JobIds : js = inv[w].ids \ {id}
    BY Moving DEF Invocation
  <2>2. PICK r \in Invocation : r = [Idle EXCEPT !.pc = "staleDescribe", !.ids = js]
    BY DEF Idle, Invocation, Pcs, RowStatus
  <2>3. Handler(r)
    BY <2>2 DEF Idle, Handler, HandlerTyped, HandlerBacked
  <2> QED
    BY <1>2, <2>1, <2>2, <2>3
<1> QED
  BY <1>1, <1>2 DEF StaleNext

LEMMA StaleStartKeeps ==
    ASSUME Backed, NEW w \in Workers, StaleStart(w)
    PROVE  Backed'
<1>1. PICK js \in SUBSET JobIds : js = StaleRows
  BY DEF Backed, TypeOK, StaleRows
<1>2. PICK r \in Invocation : r = [Idle EXCEPT !.pc = "staleDescribe", !.ids = js]
  BY DEF Idle, Invocation, Pcs, RowStatus
<1>3. Handler(r)
  BY <1>2 DEF Idle, Handler, HandlerTyped, HandlerBacked
<1>4. Become(w, r) /\ UNCHANGED <<tables, now, crashes, old, awsVars>>
  BY <1>1, <1>2 DEF StaleStart
<1> QED
  BY <1>3, <1>4, CrashesBounded, InvStep

LEMMA StaleDescribeKeeps ==
    ASSUME Backed, NEW w \in Workers, StaleDescribe(w)
    PROVE  Backed'
<1>1. PICK i \in Invocation : i = inv[w]
  BY Moving
<1>2. i.pc = "staleDescribe"
  BY <1>1 DEF StaleDescribe, At
<1>3. (UNCHANGED crashes \/ Fail) /\ UNCHANGED <<tables, now, old, awsVars>>
  BY DEF StaleDescribe
<1>4. CASE \E id \in i.ids : StaleNext(w, id)
  <2>1. PICK r \in Invocation : Become(w, r) /\ Handler(r)
    BY <1>4, StaleNextSound
  <2> QED
    BY <1>3, <2>1, CrashesBounded, InvStep
<1>5. CASE \E id \in i.ids :
        Become(w, [i EXCEPT
                  !.pc = IF iot[id].status = "IN_PROGRESS"
                         THEN "staleCancel" ELSE "staleWrite",
                  !.job = id,
                  !.stat = IF iot[id].status = "COMPLETED"
                           THEN "SUCCEEDED" ELSE "CANCELLED"])
  <2>1. PICK id \in i.ids :
        Become(w, [i EXCEPT
                  !.pc = IF iot[id].status = "IN_PROGRESS"
                         THEN "staleCancel" ELSE "staleWrite",
                  !.job = id,
                  !.stat = IF iot[id].status = "COMPLETED"
                           THEN "SUCCEEDED" ELSE "CANCELLED"])
    BY <1>5
  <2>2. id \in JobIds
    BY DEF Invocation
  <2>3. PICK p \in {"staleCancel", "staleWrite"} :
          p = IF iot[id].status = "IN_PROGRESS" THEN "staleCancel" ELSE "staleWrite"
    OBVIOUS
  <2>4. PICK s \in {"SUCCEEDED", "CANCELLED"} :
          s = IF iot[id].status = "COMPLETED" THEN "SUCCEEDED" ELSE "CANCELLED"
    OBVIOUS
  <2>5. s = "SUCCEEDED" => Exists(id)
    BY <2>4 DEF Exists
  <2>6. PICK k \in Invocation : k = [i EXCEPT !.pc = p, !.job = id]
    BY <2>2, FieldWritten DEF Pcs
  <2>7. PICK r \in Invocation : r = [k EXCEPT !.pc = p, !.stat = s]
    BY FieldWritten DEF Pcs, RowStatus
  <2>8. r = [i EXCEPT !.pc = p, !.job = id, !.stat = s]
    BY <2>6, <2>7 DEF Invocation
  <2>9. r.pc = p /\ r.job = id /\ r.stat = s
    BY <2>6, <2>7 DEF Invocation
  <2>10. Handler(r)
    BY <2>2, <2>5, <2>9 DEF Invocation, Handler, HandlerTyped, HandlerBacked
  <2>11. Become(w, r)
    BY <2>1, <2>3, <2>4, <2>8
  <2> QED
    BY <1>3, <2>10, <2>11, CrashesBounded, InvStep
<1> QED
  BY <1>1, <1>4, <1>5 DEF StaleDescribe

LEMMA StaleCancelKeeps ==
    ASSUME Backed, NEW w \in Workers, StaleCancel(w)
    PROVE  Backed'
<1>1. PICK i \in Invocation : i = inv[w]
  BY Moving
<1>2. /\ i.pc = "staleCancel" /\ i.job \in JobIds
      /\ i.stat = "CANCELLED" \/ (i.stat = "SUCCEEDED" /\ Exists(i.job))
  BY <1>1, Moving DEF StaleCancel, At, HandlerTyped, HandlerBacked
<1>3. PICK r \in Invocation : r = [i EXCEPT !.pc = "staleWrite"]
  BY FieldWritten DEF Pcs
<1>4. Become(w, r)
  BY <1>1, <1>3 DEF StaleCancel, Goto
<1>5. Handler(r)
  BY <1>2, <1>3 DEF Invocation, Handler, HandlerTyped, HandlerBacked
<1>6. IotSound
  BY <1>1, <1>2, CancelJobSound, IotUnchanged DEF StaleCancel
<1>7. /\ UNCHANGED crashes \/ Fail
      /\ UNCHANGED <<tables, now, old, run, fw, msgs>>
  BY DEF StaleCancel
<1> QED
  BY <1>4, <1>5, <1>6, <1>7, CrashesBounded, IotCall

LEMMA StaleWriteKeeps ==
    ASSUME Backed, NEW w \in Workers, StaleWrite(w)
    PROVE  Backed'
<1>1. PICK i \in Invocation : i = inv[w]
  BY Moving
<1>2. /\ i.job \in JobIds
      /\ i.stat = "CANCELLED" \/ (i.stat = "SUCCEEDED" /\ Exists(i.job))
  BY <1>1, Moving DEF StaleWrite, At, HandlerTyped, HandlerBacked
<1>3. PICK row \in JobRow : row.status = i.stat /\ jobs' = [jobs EXCEPT ![i.job] = row]
  BY <1>1, <1>2, RowStatusSet DEF StaleWrite, RowStatus
<1>4. PICK r \in Invocation : Become(w, r) /\ Handler(r)
  BY StaleNextSound DEF StaleWrite
<1>5. UNCHANGED <<consents, pending, inventory, package, now, crashes, old, awsVars>>
  BY DEF StaleWrite
<1> QED
  BY <1>2, <1>3, <1>4, <1>5, CrashesBounded, RowStep

----------------------------------------------------------------------------

LEMMA RecallStartKeeps ==
    ASSUME Backed, NEW w \in Workers, NEW v \in Versions, RecallStart(w, v)
    PROVE  Backed'
<1>1. PICK r \in Invocation : r = [Idle EXCEPT !.pc = "recallMark", !.ver = v]
  BY DEF Idle, Invocation, Pcs, RowStatus
<1>2. Handler(r)
  BY <1>1 DEF Idle, Handler, HandlerTyped, HandlerBacked
<1>3. Become(w, r) /\ UNCHANGED <<tables, now, crashes, old, awsVars>>
  BY <1>1 DEF RecallStart
<1> QED
  BY <1>2, <1>3, CrashesBounded, InvStep

LEMMA RecallMarkKeeps ==
    ASSUME Backed, NEW w \in Workers, RecallMark(w)
    PROVE  Backed'
<1>1. PICK i \in Invocation : i = inv[w]
  BY Moving
<1>2. PICK r \in Invocation : r = [i EXCEPT !.pc = "recallScan"]
  BY FieldWritten DEF Pcs
<1>3. Handler(r)
  BY <1>2 DEF Invocation, Handler, HandlerTyped, HandlerBacked
<1>4. Become(w, r) /\ UNCHANGED <<jobs, consents, pending, inventory, now, crashes, old,
                                  awsVars>>
  BY <1>1, <1>2 DEF RecallMark, Goto
<1>5. TypeOK
  BY DEF Backed
<1>6. package' \in [Versions -> PackageStatus]
  BY <1>5 DEF RecallMark, TypeOK, PackageStatus
<1>7. Kept
  BY <1>4 DEF awsVars, Kept, JobsKept, RowsKept, ConsentsKept, Exists
<1>8. Handler(r)'
  BY <1>3, <1>7, HandlerKept
<1>9. IotConsistent' /\ SentBacked' /\ Invariants'
  BY <1>4 DEF awsVars, Backed, IotConsistent, SentBacked, Exists, Invariants,
     AcceptedHasJob, PendingHasJob, RowHasJob
<1> QED
  BY <1>4, <1>5, <1>6, <1>7, <1>8, <1>9, Becomes, Assemble DEF TypeOK, awsVars

LEMMA RecallScanKeeps ==
    ASSUME Backed, NEW w \in Workers, RecallScan(w)
    PROVE  Backed'
<1>1. PICK i \in Invocation : i = inv[w]
  BY Moving
<1>2. UNCHANGED <<tables, now, crashes, old, awsVars>>
  BY DEF RecallScan
<1>3. CASE Return(w)
  BY <1>2, <1>3, Returns
<1>4. CASE Become(w, [i EXCEPT !.pc = "recallCancel", !.ids = QueuedRows(i.ver)])
  <2>1. PICK js \in SUBSET JobIds : js = QueuedRows(i.ver)
    BY DEF QueuedRows
  <2>2. PICK r \in Invocation : r = [i EXCEPT !.pc = "recallCancel", !.ids = js]
    BY FieldWritten DEF Pcs
  <2>3. Handler(r)
    BY <2>2 DEF Invocation, Handler, HandlerTyped, HandlerBacked
  <2> QED
    BY <1>2, <1>4, <2>1, <2>2, <2>3, CrashesBounded, InvStep
<1> QED
  BY <1>1, <1>3, <1>4 DEF RecallScan

LEMMA RecallCancelKeeps ==
    ASSUME Backed, NEW w \in Workers, RecallCancel(w)
    PROVE  Backed'
<1>1. PICK i \in Invocation : i = inv[w]
  BY Moving
<1>2. PICK id \in i.ids :
        /\ \/ CancelJob(id)
           \/ UNCHANGED <<iot, events>>
        /\ Become(w, [i EXCEPT !.pc = "recallWrite", !.job = id])
  BY <1>1 DEF RecallCancel
<1>3. id \in JobIds
  BY DEF Invocation
<1>4. PICK r \in Invocation : r = [i EXCEPT !.pc = "recallWrite", !.job = id]
  BY <1>3, FieldWritten DEF Pcs
<1>5. Handler(r)
  BY <1>3, <1>4 DEF Invocation, Handler, HandlerTyped, HandlerBacked
<1>6. IotSound
  BY <1>2, <1>3, CancelJobSound, IotUnchanged
<1>7. /\ UNCHANGED crashes \/ Fail
      /\ UNCHANGED <<tables, now, old, run, fw, msgs>>
  BY DEF RecallCancel
<1> QED
  BY <1>2, <1>4, <1>5, <1>6, <1>7, CrashesBounded, IotCall

LEMMA RecallWriteKeeps ==
    ASSUME Backed, NEW w \in Workers, RecallWrite(w)
    PROVE  Backed'
<1>1. PICK i \in Invocation : i = inv[w]
  BY Moving
<1>2. i.pc = "recallWrite" /\ i.job \in JobIds
  BY <1>1, Moving DEF RecallWrite, At, HandlerTyped
<1>3. /\ UNCHANGED crashes \/ Fail
      /\ UNCHANGED <<consents, pending, inventory, package, now, old, awsVars>>
  BY DEF RecallWrite
<1>4. PICK r \in Invocation : Become(w, r) /\ Handler(r)
  <2>1. CASE Return(w)
    BY <2>1, IdleHandler DEF Return
  <2>2. CASE Become(w, [i EXCEPT !.pc = "recallCancel", !.job = NoJob,
                                 !.ids = i.ids \ {i.job}])
    <3>1. PICK k \in Invocation : k = [i EXCEPT !.pc = "recallCancel", !.job = NoJob]
      BY FieldWritten DEF Pcs
    <3>2. PICK js \in SUBSET JobIds : js = i.ids \ {i.job}
      BY DEF Invocation
    <3>3. PICK r \in Invocation : r = [k EXCEPT !.pc = "recallCancel", !.ids = js]
      BY FieldWritten DEF Pcs
    <3>4. r = [i EXCEPT !.pc = "recallCancel", !.job = NoJob, !.ids = js]
      BY <3>1, <3>3 DEF Invocation
    <3>5. r.pc = "recallCancel"
      BY <3>1, <3>3 DEF Invocation
    <3>6. Handler(r)
      BY <3>5 DEF Handler, HandlerTyped, HandlerBacked
    <3> QED
      BY <2>2, <3>2, <3>4, <3>6
  <2> QED
    BY <1>1, <2>1, <2>2 DEF RecallWrite
<1>5. CASE SetRowStatus(i.job, "CANCELLED")
  <2>1. PICK row \in JobRow :
          row.status = "CANCELLED" /\ jobs' = [jobs EXCEPT ![i.job] = row]
    BY <1>2, <1>5, RowStatusSet DEF RowStatus
  <2> QED
    BY <1>2, <1>3, <1>4, <2>1, CrashesBounded, RowStep
<1>6. CASE UNCHANGED jobs
  BY <1>3, <1>4, <1>6, CrashesBounded, InvStep DEF tables
<1> QED
  BY <1>1, <1>5, <1>6 DEF RecallWrite

----------------------------------------------------------------------------
(* Devices, AWS IoT, time and crashes                                      *)

(* A step that no invocation takes part in.                                *)
LEMMA OutsideStep ==
    ASSUME Backed, IotSound,
           run' \in [JobIds -> RunStatus],
           \A id \in JobIds : run'[id] # "idle" => Exists(id),
           fw' \in [Devices -> Versions \cup {0}],
           msgs' \subseteq Message,
           \A m \in msgs' : Exists(m.job),
           UNCHANGED <<tables, inv, now, crashes, old>>
    PROVE  Backed'
<1>1. inv' \in [Workers -> Invocation] /\ crashes' \in 0 .. MaxCrash
  BY DEF Backed, TypeOK
<1> QED
  BY <1>1, IotStep

LEMMA ReportSound ==
    ASSUME Backed, NEW id \in JobIds, NEW s \in ReportStatus, Exists(id), Report(id, s)
    PROVE  IotSound /\ msgs' \subseteq Message /\ \A m \in msgs' : Exists(m.job)
<1>1. IotSound
  BY UpdateExecutionSound, IotUnchanged DEF Report
<1>2. PICK m \in Message : m = [job |-> id, status |-> s]
  BY DEF Message
<1>3. msgs' = msgs \cup {m} /\ m.job = id
  BY <1>2 DEF Report
<1>4. msgs \subseteq Message /\ \A x \in msgs : Exists(x.job)
  BY DEF Backed, TypeOK, SentBacked
<1> QED
  BY <1>1, <1>3, <1>4

LEMMA DeviceStartKeeps ==
    ASSUME Backed, NEW id \in JobIds, DeviceStart(id)
    PROVE  Backed'
<1>1. Exists(id)
  BY DEF DeviceStart, Backed, IotConsistent
<1>2. IotSound /\ msgs' \subseteq Message /\ \A m \in msgs' : Exists(m.job)
  BY <1>1, ReportSound DEF DeviceStart, ReportStatus
<1>3. TypeOK /\ IotConsistent
  BY DEF Backed
<1>4. /\ run' \in [JobIds -> RunStatus]
      /\ \A j \in JobIds : j # id => run'[j] = run[j]
  BY <1>3 DEF DeviceStart, TypeOK, RunStatus
<1>5. \A j \in JobIds : run'[j] # "idle" => Exists(j)
  BY <1>1, <1>3, <1>4 DEF IotConsistent
<1>6. fw' \in [Devices -> Versions \cup {0}]
  BY <1>3 DEF DeviceStart, TypeOK
<1> QED
  BY <1>2, <1>4, <1>5, <1>6, OutsideStep DEF DeviceStart

LEMMA DeviceProgressKeeps ==
    ASSUME Backed, NEW id \in JobIds, DeviceProgress(id)
    PROVE  Backed'
<1>1. TypeOK /\ IotConsistent
  BY DEF Backed
<1>2. Exists(id)
  BY <1>1 DEF DeviceProgress, IotConsistent
<1>3. IotSound /\ msgs' \subseteq Message /\ \A m \in msgs' : Exists(m.job)
  BY <1>2, ReportSound DEF DeviceProgress, ReportStatus
<1>4. /\ run' \in [JobIds -> RunStatus] /\ fw' \in [Devices -> Versions \cup {0}]
      /\ \A j \in JobIds : run'[j] # "idle" => Exists(j)
  BY <1>1 DEF DeviceProgress, TypeOK, IotConsistent
<1> QED
  BY <1>3, <1>4, OutsideStep DEF DeviceProgress

LEMMA DeviceFinishKeeps ==
    ASSUME Backed, NEW id \in JobIds, NEW s \in Reports, DeviceFinish(id, s)
    PROVE  Backed'
<1>1. TypeOK /\ IotConsistent
  BY DEF Backed
<1>2. Exists(id) /\ iot[id].dev \in Devices
  BY <1>1 DEF DeviceFinish, IotConsistent
<1>3. s \in ReportStatus /\ s # "IN_PROGRESS"
  BY OtaJobsAssumption
<1>4. IotSound /\ msgs' \subseteq Message /\ \A m \in msgs' : Exists(m.job)
  BY <1>2, <1>3, ReportSound DEF DeviceFinish
<1>5. s \in RunStatus
  BY <1>3 DEF RunStatus, ReportStatus
<1>6. /\ run' \in [JobIds -> RunStatus]
      /\ \A j \in JobIds : j # id => run'[j] = run[j]
  BY <1>1, <1>5 DEF DeviceFinish, TypeOK
<1>7. \A j \in JobIds : run'[j] # "idle" => Exists(j)
  BY <1>1, <1>2, <1>6 DEF IotConsistent
<1>8. fw' \in [Devices -> Versions \cup {0}]
  <2>1. id[1] \in Versions
    BY DEF JobIds
  <2> QED
    BY <1>1, <1>2, <2>1 DEF DeviceFinish, TypeOK
<1> QED
  BY <1>4, <1>6, <1>7, <1>8, OutsideStep DEF DeviceFinish

(* AWS IoT ends an execution, or an operator a job, of its own accord.     *)
LEMMA IotOnlyStep ==
    ASSUME Backed, IotSound,
           UNCHANGED <<tables, inv, now, crashes, old, run, fw, msgs>>
    PROVE  Backed'
<1>1. TypeOK /\ IotConsistent /\ SentBacked
  BY DEF Backed
<1>2. /\ run' \in [JobIds -> RunStatus] /\ fw' \in [Devices -> Versions \cup {0}]
      /\ \A j \in JobIds : run'[j] # "idle" => Exists(j)
      /\ msgs' \subseteq Message /\ \A m \in msgs' : Exists(m.job)
  BY <1>1 DEF TypeOK, IotConsistent, SentBacked
<1> QED
  BY <1>2, OutsideStep

LEMMA IotTimeoutKeeps ==
    ASSUME Backed, NEW id \in JobIds, IotTimeout(id)
    PROVE  Backed'
  BY EndExecutionSound, IotOnlyStep DEF IotTimeout, ExecStatus

LEMMA ConsoleCancelKeeps ==
    ASSUME Backed, NEW id \in JobIds, ConsoleCancel(id)
    PROVE  Backed'
  BY CancelJobSound, IotOnlyStep DEF ConsoleCancel

(* Fewer messages and events, and nothing else.                            *)
LEMMA LossStep ==
    ASSUME Backed, msgs' \subseteq msgs, events' \subseteq events,
           UNCHANGED <<tables, inv, now, crashes, old, iot, run, fw>>
    PROVE  Backed'
<1>1. TypeOK /\ IotConsistent /\ SentBacked
  BY DEF Backed
<1>2. IotSound
  BY <1>1 DEF IotSound, TypeOK, IotConsistent, SentBacked, JobsKept, Exists
<1>3. /\ run' \in [JobIds -> RunStatus] /\ fw' \in [Devices -> Versions \cup {0}]
      /\ \A j \in JobIds : run'[j] # "idle" => Exists(j)
      /\ msgs' \subseteq Message /\ \A m \in msgs' : Exists(m.job)
  BY <1>1 DEF TypeOK, IotConsistent, SentBacked
<1> QED
  BY <1>2, <1>3, OutsideStep

LEMMA RegisterKeeps ==
    ASSUME Backed, NEW d \in Devices, Register(d)
    PROVE  Backed'
<1>1. TypeOK
  BY DEF Backed
<1>2. Kept
  BY DEF Register, awsVars, Kept, JobsKept, RowsKept, ConsentsKept, Exists
<1>3. IotConsistent' /\ SentBacked' /\ Invariants'
  BY DEF Register, awsVars, Backed, IotConsistent, SentBacked, Exists, Invariants,
     AcceptedHasJob, PendingHasJob, RowHasJob
<1>4. inventory' \in [Devices -> Inventory]
  <2>1. PICK x \in Inventory : x = inventory[d]
    BY <1>1 DEF TypeOK
  <2>2. PICK v \in Versions \cup {0} : v = IF d \in Telling THEN fw[d] ELSE 0
    BY <1>1 DEF TypeOK
  <2>3. PICK k \in Inventory : k = [x EXCEPT !.thing = TRUE]
    BY DEF Inventory
  <2>4. PICK y \in Inventory : y = [x EXCEPT !.thing = TRUE, !.ver = v]
    <3>1. [k EXCEPT !.ver = v] \in Inventory
      BY DEF Inventory
    <3> QED
      BY <2>3, <3>1 DEF Inventory
  <2>5. inventory' = [inventory EXCEPT ![d] = y]
    BY <2>1, <2>2, <2>4 DEF Register
  <2> QED
    BY <1>1, <2>5 DEF TypeOK
<1> QED
  BY <1>1, <1>2, <1>3, <1>4, Assemble DEF Register, TypeOK, awsVars

LEMMA TimePasses ==
    ASSUME Backed, now' \in 0 .. MaxSec, old' \subseteq JobIds,
           UNCHANGED <<tables, inv, crashes, awsVars>>
    PROVE  Backed'
<1>1. TypeOK
  BY DEF Backed
<1>2. Kept
  BY DEF tables, awsVars, Kept, JobsKept, RowsKept, ConsentsKept, Exists
<1>3. IotConsistent' /\ SentBacked' /\ Invariants'
  BY DEF tables, awsVars, Backed, IotConsistent, SentBacked, Exists, Invariants,
     AcceptedHasJob, PendingHasJob, RowHasJob
<1> QED
  BY <1>1, <1>2, <1>3, Assemble DEF TypeOK, tables, awsVars

LEMMA CrashKeeps ==
    ASSUME Backed, NEW w \in Workers, Crash(w)
    PROVE  Backed'
<1>1. PICK i \in Invocation : i = inv[w]
  BY Moving
<1>2. /\ i.pc \in StatusPcs \cup SyncPcs => i.job \in JobIds
      /\ i.pc \in StatusPcs => i.stat \in ReportStatus /\ Exists(i.job)
      /\ i.pc \in SyncPcs => Exists(i.job)
  BY <1>1, Moving DEF HandlerTyped, HandlerBacked, Backed, IotConsistent
<1>3. TypeOK /\ IotConsistent /\ SentBacked
  BY DEF Backed
<1>4. /\ msgs' \subseteq Message /\ \A m \in msgs' : Exists(m.job)
      /\ events' \subseteq Event /\ \A e \in events' : Exists(e.job)
  <2>1. CASE /\ i.pc \in StatusPcs
             /\ msgs' = msgs \cup {[job |-> i.job, status |-> i.stat]}
             /\ UNCHANGED events
    <3>1. PICK m \in Message : m = [job |-> i.job, status |-> i.stat]
      BY <1>2, <2>1 DEF Message
    <3>2. m.job = i.job /\ Exists(m.job)
      BY <1>2, <2>1, <3>1
    <3> QED
      BY <1>3, <2>1, <3>1, <3>2 DEF TypeOK, SentBacked
  <2>2. CASE /\ i.pc \in SyncPcs
             /\ \E t \in EventType : events' = events \cup {[job |-> i.job, type |-> t]}
             /\ UNCHANGED msgs
    <3>1. PICK t \in EventType : events' = events \cup {[job |-> i.job, type |-> t]}
      BY <2>2
    <3>2. PICK e \in Event : e = [job |-> i.job, type |-> t]
      BY <1>2, <2>2 DEF Event
    <3>3. e.job = i.job /\ Exists(e.job)
      BY <1>2, <2>2, <3>2
    <3> QED
      BY <1>3, <2>2, <3>1, <3>2, <3>3 DEF TypeOK, SentBacked
  <2>3. CASE UNCHANGED <<msgs, events>>
    BY <1>3, <2>3 DEF TypeOK, SentBacked
  <2> QED
    BY <1>1, <2>1, <2>2, <2>3 DEF Crash, Redeliver, EventType
<1>5. UNCHANGED <<tables, now, old, iot, run, fw>>
  BY DEF Crash
<1>6. IotSound
  BY <1>3, <1>4, <1>5 DEF IotSound, TypeOK, IotConsistent, JobsKept, Exists
<1>7. /\ run' \in [JobIds -> RunStatus] /\ fw' \in [Devices -> Versions \cup {0}]
      /\ \A j \in JobIds : run'[j] # "idle" => Exists(j)
  BY <1>3, <1>5 DEF TypeOK, IotConsistent
<1>8. /\ inv' \in [Workers -> Invocation]
      /\ \A u \in Workers :
           inv'[u] = inv[u] \/ (HandlerTyped(inv[u]) /\ HandlerBacked(inv[u]))'
  BY IdleHandler, Becomes DEF Crash, Return
<1>9. crashes' \in 0 .. MaxCrash
  BY CrashesBounded DEF Crash
<1> QED
  BY <1>4, <1>5, <1>6, <1>7, <1>8, <1>9, IotStep

----------------------------------------------------------------------------
(* The invariant                                                           *)

LEMMA BackedInit ==
    ASSUME Init
    PROVE  Backed
<1>1. TypeOK
  <2>1. NoRow \in JobRow /\ NoConsent \in Consent /\ NoIot \in IotJob
    BY DEF NoRow, JobRow, RowStatus, NoConsent, Consent, NoIot, IotJob, IotStatus,
       ExecStatus
  <2>2. 0 \in 0 .. MaxSec /\ 0 \in 0 .. MaxCrash
    BY OtaAssumption
  <2>3. inventory \in [Devices -> Inventory]
    BY DEF Init, Inventory
  <2>4. inv \in [Workers -> Invocation]
    BY IdleHandler DEF Init
  <2> QED
    BY <2>1, <2>2, <2>3, <2>4 DEF Init, TypeOK, PackageStatus, RunStatus, ReportStatus
<1>2. \A w \in Workers : inv[w] = Idle
  BY DEF Init
<1>3. \A w \in Workers : HandlerTyped(inv[w]) /\ HandlerBacked(inv[w])
  BY <1>2, IdleHandler DEF Handler
<1>4. /\ \A id \in JobIds : jobs[id].status = "NONE"
      /\ \A id \in JobIds : iot[id] = NoIot
      /\ \A c \in ConsentIds : consents[c].status = "NONE"
  BY DEF Init, NoRow, NoConsent
<1>5. IotConsistent /\ SentBacked
  BY <1>4, OtaAssumption DEF Init, IotConsistent, SentBacked, Exists, NoIot
<1>6. AcceptedHasJob /\ PendingHasJob /\ RowHasJob
  BY <1>4 DEF Init, AcceptedHasJob, PendingHasJob, RowHasJob
<1> QED
  BY <1>1, <1>3, <1>5, <1>6 DEF Backed

LEMMA RequestKeeps ==
    ASSUME Backed, NEW w \in Workers, Request(w) \/ StaleCheck(w)
    PROVE  Backed'
<1>1. CASE Deploy(w)
  BY <1>1, DeployStartKeeps DEF Deploy
<1>2. CASE Accept(w)
  BY <1>2, ConsentStartKeeps DEF Accept
<1>3. CASE DeclineRequest(w)
  BY <1>3, ConsentStartKeeps DEF DeclineRequest
<1>4. CASE Abort(w)
  BY <1>4, AbortStartKeeps DEF Abort
<1>5. CASE Recall(w)
  BY <1>5, RecallStartKeeps DEF Recall
<1>6. CASE StaleCheck(w)
  BY <1>6, StaleStartKeeps DEF StaleCheck
<1> QED
  BY <1>1, <1>2, <1>3, <1>4, <1>5, <1>6 DEF Request

LEMMA ContinueKeeps ==
    ASSUME Backed, NEW w \in Workers, Continue(w)
    PROVE  Backed'
<1>1. CASE DeployPut(w) \/ DeployConsent(w) \/ DeployConsentFails(w)
  BY <1>1, DeployPutKeeps, DeployConsentKeeps, DeployConsentFailsKeeps
<1>2. CASE AbortQuery(w) \/ AbortConsent(w) \/ AbortCancel(w) \/ AbortMark(w) \/ AbortClear(w)
  BY <1>2, AbortQueryKeeps, AbortConsentKeeps, AbortCancelKeeps, AbortMarkKeeps,
     AbortClearKeeps
<1>3. CASE FindConsent(w) \/ Decline(w) \/ ReadPackage(w) \/ CheckPending(w) \/ ClearStale(w)
  BY <1>3, FindConsentKeeps, DeclineKeeps, ReadPackageKeeps, CheckPendingKeeps,
     ClearStaleKeeps
<1>4. CASE CreateIot(w) \/ WriteConsent(w) \/ PutJob(w) \/ SetPending(w)
  BY <1>4, CreateIotKeeps, WriteConsentKeeps, PutJobKeeps, SetPendingKeeps
<1>5. CASE ReadAggregate(w) \/ UpdateRow(w) \/ ClearDevice(w) \/ MarkTerminal(w)
  BY <1>5, ReadAggregateKeeps, UpdateRowKeeps, ClearDeviceKeeps, MarkTerminalKeeps
<1>6. CASE DescribeCounts(w) \/ SyncWrite(w)
  BY <1>6, DescribeCountsKeeps, SyncWriteKeeps
<1>7. CASE StaleDescribe(w) \/ StaleCancel(w) \/ StaleWrite(w)
  BY <1>7, StaleDescribeKeeps, StaleCancelKeeps, StaleWriteKeeps
<1>8. CASE RecallMark(w) \/ RecallScan(w) \/ RecallCancel(w) \/ RecallWrite(w)
  BY <1>8, RecallMarkKeeps, RecallScanKeeps, RecallCancelKeeps, RecallWriteKeeps
<1> QED
  BY <1>1, <1>2, <1>3, <1>4, <1>5, <1>6, <1>7, <1>8 DEF Continue

LEMMA BackedNext ==
    ASSUME Backed, [Next]_vars
    PROVE  Backed'
<1>1. ASSUME NEW w \in Workers, Request(w) \/ StaleCheck(w) PROVE Backed'
  BY <1>1, RequestKeeps
<1>2. ASSUME NEW w \in Workers, DeliverMessage(w) PROVE Backed'
  BY <1>2, StatusReceiveKeeps DEF DeliverMessage
<1>3. ASSUME NEW w \in Workers, DeliverEvent(w) PROVE Backed'
  BY <1>3, LifecycleReceiveKeeps DEF DeliverEvent
<1>4. ASSUME NEW w \in Workers, Continue(w) PROVE Backed'
  BY <1>4, ContinueKeeps
<1>5. ASSUME NEW w \in Workers, Crash(w) PROVE Backed'
  BY <1>5, CrashKeeps
<1>6. CASE Device
  <2>1. ASSUME NEW d \in Devices, Register(d) PROVE Backed'
    BY <2>1, RegisterKeeps
  <2>2. ASSUME NEW id \in JobIds, DeviceStart(id) \/ DeviceProgress(id) PROVE Backed'
    BY <2>2, DeviceStartKeeps, DeviceProgressKeeps
  <2>3. ASSUME NEW id \in JobIds, NEW s \in Reports, DeviceFinish(id, s) PROVE Backed'
    BY <2>3, DeviceFinishKeeps
  <2> QED
    BY <1>6, <2>1, <2>2, <2>3 DEF Device
<1>7. CASE Aws
  <2>1. ASSUME NEW id \in JobIds, IotTimeout(id) \/ ConsoleCancel(id) PROVE Backed'
    BY <2>1, IotTimeoutKeeps, ConsoleCancelKeeps
  <2>2. ASSUME NEW m \in msgs, LoseMessage(m) PROVE Backed'
    BY <2>2, LossStep DEF LoseMessage
  <2>3. ASSUME NEW e \in events, LoseEvent(e) PROVE Backed'
    BY <2>3, LossStep DEF LoseEvent
  <2> QED
    BY <1>7, <2>1, <2>2, <2>3 DEF Aws
<1>8. CASE Tick
  <2>1. now' \in 0 .. MaxSec /\ old' \subseteq JobIds
    BY <1>8, OtaAssumption DEF Tick, Backed, TypeOK
  <2> QED
    BY <1>8, <2>1, TimePasses DEF Tick
<1>9. CASE WeekPasses
  <2>1. now' \in 0 .. MaxSec /\ old' \subseteq JobIds
    BY <1>9 DEF WeekPasses, Backed, TypeOK
  <2> QED
    BY <1>9, <2>1, TimePasses DEF WeekPasses
<1>10. CASE UNCHANGED vars
  <2>1. now' \in 0 .. MaxSec /\ old' \subseteq JobIds
    BY <1>10 DEF vars, Backed, TypeOK
  <2> QED
    BY <1>10, <2>1, TimePasses DEF vars, tables, awsVars
<1> QED
  BY <1>1, <1>2, <1>3, <1>4, <1>5, <1>6, <1>7, <1>8, <1>9, <1>10 DEF Next

(* Whatever the number of devices, versions, concurrent invocations and    *)
(* crashes, and whatever the environment may do: everything a Lambda holds *)
(* and every row refers to what exists.  The inductive invariant.          *)
THEOREM BackedAlways == Spec => []Backed
<1>1. Init => Backed
  BY BackedInit
<1>2. Backed /\ [Next]_vars => Backed'
  BY BackedNext
<1> QED
  BY <1>1, <1>2, PTL DEF Spec

(* Every variable keeps its type.                                          *)
THEOREM TypesCorrect == Spec => []TypeOK
<1>1. Backed => TypeOK
  BY DEF Backed
<1> QED
  BY <1>1, BackedAlways, PTL

(* A handler that dies between iot.create_job and the writes that follow   *)
(* it never leaves an ACCEPTED consent that names no job of its device.    *)
THEOREM AcceptanceBacked == Spec => []AcceptedHasJob
<1>1. Backed => AcceptedHasJob
  BY DEF Backed
<1> QED
  BY <1>1, BackedAlways, PTL

(* user_consent never finds a device blocked by a job without a row, or by *)
(* the job of another device.                                              *)
THEOREM PendingBacked == Spec => []PendingHasJob
<1>1. Backed => PendingHasJob
  BY DEF Backed
<1> QED
  BY <1>1, BackedAlways, PTL

(* Neither a report, nor an event, nor the daily check makes a row claim   *)
(* an execution that AWS IoT does not have.                                *)
THEOREM RowBacked == Spec => []RowHasJob
<1>1. Backed => RowHasJob
  BY DEF Backed
<1> QED
  BY <1>1, BackedAlways, PTL


----------------------------------------------------------------------------
(* What is done once only: a job serves one consent, and a row is put into *)
(* the queue one time.                                                     *)

HasRow(id)  == jobs[id].status # "NONE"
Creating(i) == i.pc \in {"writeConsent", "putJob"}   \* the row is not written yet

(* The handlers that write a row without looking at it again were told of  *)
(* it by the row itself.                                                   *)
FromRow(i) ==
    /\ i.pc \in AbortPcs \cup SyncPcs \cup
               {"clearDevice", "markTerminal", "recallWrite", "staleCancel", "staleWrite"}
          => HasRow(i.job)
    /\ i.pc \in {"recallCancel", "recallWrite", "staleDescribe", "staleCancel", "staleWrite"}
          => \A id \in i.ids : HasRow(id)

Rowed == \A w \in Workers : FromRow(inv[w])

(* The acceptances of one job, recorded or about to be.                    *)
Owned ==
    /\ JobOfOneConsent
    /\ \A w \in Workers, c \in ConsentIds :
          At(w, "writeConsent") /\ consents[c].status = "ACCEPTED"
             => consents[c].job # inv[w].job
    /\ \A u, w \in Workers :
          At(u, "writeConsent") /\ At(w, "writeConsent") /\ inv[u].job = inv[w].job => u = w

(* A job that is being created has no row yet, and one creator.            *)
New ==
    /\ \A w \in Workers : Creating(inv[w]) => ~HasRow(inv[w].job)
    /\ \A u, w \in Workers :
          Creating(inv[u]) /\ Creating(inv[w]) /\ inv[u].job = inv[w].job => u = w

OnceInv == Backed /\ Rowed /\ Owned

Waiting == {"NONE", "AWAITING_CONSENT", "QUEUED"}

(* What most steps of w leave alone: acceptances, which rows there are, and*)
(* the other invocations.                                                  *)
OwnersKept == \A c \in ConsentIds : consents'[c].status = "ACCEPTED" =>
                 consents[c].status = "ACCEPTED" /\ consents'[c].job = consents[c].job
RowsSame   == \A id \in JobIds : HasRow(id)' <=> HasRow(id)
NotQueued  == \A id \in JobIds :
                 jobs'[id].status # jobs[id].status => jobs'[id].status \notin Waiting
Moves(w)   == /\ \A u \in Workers \ {w} : inv'[u] = inv[u]
              /\ FromRow(inv'[w])
              /\ Creating(inv'[w]) => Creating(inv[w]) /\ inv'[w].job = inv[w].job
              /\ inv'[w].pc = "writeConsent" => At(w, "writeConsent")
Ordinary(w) == OwnersKept /\ RowsSame /\ NotQueued /\ Moves(w)

----------------------------------------------------------------------------
(* Steps of one handler                                                    *)

LEMMA MovesTo ==
    ASSUME Backed, NEW w \in Workers, NEW r, Become(w, r)
    PROVE  inv'[w] = r /\ \A u \in Workers \ {w} : inv'[u] = inv[u]
  BY DEF Backed, TypeOK, Become

(* A step that writes neither consents nor rows, to a record that creates  *)
(* nothing.                                                                *)
LEMMA QuietMove ==
    ASSUME Backed, NEW w \in Workers, NEW r, Become(w, r),
           ~Creating(r), FromRow(r), UNCHANGED <<consents, jobs>>
    PROVE  Ordinary(w)
  BY MovesTo DEF Ordinary, OwnersKept, RowsSame, NotQueued, Moves, Creating, HasRow

LEMMA ReturnMoves ==
    FromRow(Idle) /\ ~Creating(Idle)
  BY DEF FromRow, Creating, Idle

LEMMA ReturnsOrdinary ==
    ASSUME Backed, NEW w \in Workers, Return(w), UNCHANGED <<consents, jobs>>
    PROVE  Ordinary(w)
  BY ReturnMoves, QuietMove DEF Return

LEMMA StatusWritten ==
    ASSUME Backed, NEW w \in Workers, NEW r, Become(w, r), ~Creating(r), FromRow(r),
           NEW id \in JobIds, NEW s \in RowStatus \ Waiting, HasRow(id),
           jobs' = [jobs EXCEPT ![id].status = s] \/ UNCHANGED jobs,
           UNCHANGED consents
    PROVE  Ordinary(w)
<1>1. \A j \in JobIds : jobs'[j].status = jobs[j].status \/ (j = id /\ jobs'[j].status = s)
  BY DEF Backed, TypeOK, JobRow
<1>2. RowsSame /\ NotQueued
  BY <1>1 DEF RowsSame, NotQueued, HasRow, Waiting
<1> QED
  BY <1>2, MovesTo DEF Ordinary, OwnersKept, Moves, Creating

----------------------------------------------------------------------------
(* The handlers                                                            *)

LEMMA DeployOrdinary ==
    ASSUME Backed, NEW w \in Workers,
           \/ \E v \in Versions, ds \in SUBSET Devices, type \in {"THING", "GROUP"} :
                 DeployStart(w, v, ds, type)
           \/ DeployConsent(w) \/ DeployConsentFails(w)
    PROVE  Ordinary(w)
<1>1. ASSUME NEW v \in Versions, NEW ds \in SUBSET Devices, NEW type \in {"THING", "GROUP"},
             DeployStart(w, v, ds, type)
      PROVE  Ordinary(w)
  <2>1. PICK r \in Invocation :
          r = [Idle EXCEPT !.pc = "deployPut", !.ver = v, !.devs = ds, !.type = type]
    BY DEF Idle, Invocation, Pcs, RowStatus
  <2>2. FromRow(r) /\ ~Creating(r)
    BY <2>1 DEF FromRow, Creating, Idle
  <2> QED
    BY <1>1, <2>1, <2>2, QuietMove DEF DeployStart, tables
<1>2. ASSUME NEW d \in Devices, At(w, "deployConsent"), ConsentRecordDone(w, d)
      PROVE  Moves(w)
  <2>1. PICK i \in Invocation : i = inv[w]
    BY Moving
  <2>2. CASE i.devs = {d}
    BY <1>2, <2>1, <2>2, ReturnMoves, MovesTo DEF ConsentRecordDone, Return, Moves, Creating, Idle
  <2>3. CASE i.devs # {d}
    <3>1. PICK r \in Invocation : r = [i EXCEPT !.devs = @ \ {d}]
      BY DEF Invocation
    <3>2. FromRow(r) /\ ~Creating(r) /\ r.pc = "deployConsent"
      BY <1>2, <2>1, <3>1 DEF FromRow, Creating, At, Invocation
    <3> QED
      BY <1>2, <2>1, <2>3, <3>1, <3>2, MovesTo DEF ConsentRecordDone, Moves
  <2> QED
    BY <2>2, <2>3
<1>3. CASE DeployConsent(w)
  <2>1. PICK d \in inv[w].devs, c \in UnusedConsents :
          /\ consents' = [consents EXCEPT ![c] =
               [status |-> "PENDING", dev |-> d, ver |-> inv[w].ver,
                deployment |-> inv[w].job, job |-> NoJob]]
          /\ ConsentRecordDone(w, d)
    BY <1>3 DEF DeployConsent
  <2>2. d \in Devices /\ c \in ConsentIds
    BY Moving DEF Invocation, UnusedConsents
  <2>3. OwnersKept
    BY <2>1, <2>2 DEF Backed, TypeOK, OwnersKept
  <2>4. RowsSame /\ NotQueued
    BY <1>3 DEF DeployConsent, RowsSame, NotQueued, HasRow
  <2> QED
    BY <1>2, <1>3, <2>1, <2>2, <2>3, <2>4 DEF DeployConsent, Ordinary
<1>4. CASE DeployConsentFails(w)
  <2>1. PICK d \in inv[w].devs : ConsentRecordDone(w, d)
    BY <1>4 DEF DeployConsentFails
  <2>2. d \in Devices
    BY Moving DEF Invocation
  <2> QED
    BY <1>2, <1>4, <2>1, <2>2
    DEF DeployConsentFails, tables, Ordinary, OwnersKept, RowsSame, NotQueued, HasRow
<1> QED
  BY <1>1, <1>3, <1>4

LEMMA AbortStartOrdinary ==
    ASSUME Backed, NEW w \in Workers, NEW id \in JobIds, AbortStart(w, id)
    PROVE  Ordinary(w)
<1>1. PICK r \in Invocation :
        r = [Idle EXCEPT !.pc = IF jobs[id].status = "AWAITING_CONSENT"
                                THEN "abortQuery" ELSE "abortCancel",
                         !.job = id, !.devs = jobs[id].targets, !.type = jobs[id].type]
  BY DEF Backed, TypeOK, Idle, Invocation, Pcs, RowStatus, JobRow
<1>2. r.pc \in {"abortQuery", "abortCancel"} /\ r.job = id
  BY <1>1 DEF Idle
<1>3. HasRow(id)
  BY DEF AbortStart, HasRow
<1>4. FromRow(r) /\ ~Creating(r)
  BY <1>2, <1>3 DEF FromRow, Creating
<1> QED
  BY <1>1, <1>4, QuietMove DEF AbortStart, tables

LEMMA AbortOrdinary ==
    ASSUME Backed, Rowed, NEW w \in Workers,
           AbortQuery(w) \/ AbortConsent(w) \/ AbortCancel(w) \/ AbortMark(w) \/ AbortClear(w)
    PROVE  Ordinary(w)
<1>1. PICK i \in Invocation : i = inv[w] /\ HandlerTyped(i)
  BY Moving
<1>2. i.pc \in AbortPcs => i.job \in JobIds /\ HasRow(i.job)
  BY <1>1 DEF HandlerTyped, Rowed, FromRow
<1>4. CASE AbortQuery(w)
  <2>1. PICK found \in SUBSET ConsentIds :
          Become(w, [i EXCEPT !.pc = IF found = {} THEN "abortMark" ELSE "abortConsent",
                              !.conss = found])
    BY <1>1, <1>4 DEF AbortQuery
  <2>2. PICK r \in Invocation :
          r = [i EXCEPT !.pc = IF found = {} THEN "abortMark" ELSE "abortConsent",
                        !.conss = found]
    BY FieldWritten DEF Pcs
  <2>3. FromRow(r) /\ ~Creating(r)
    BY <1>1, <1>2, <1>4, <2>2 DEF FromRow, Creating, AbortQuery, At, Invocation
  <2> QED
    BY <1>4, <2>1, <2>2, <2>3, QuietMove DEF AbortQuery, tables
<1>5. CASE AbortConsent(w)
  <2>1. PICK c \in i.conss :
          /\ consents' = [consents EXCEPT ![c].status = "CANCELLED"]
          /\ Become(w, [i EXCEPT !.pc = IF i.conss = {c} THEN "abortMark" ELSE i.pc,
                                 !.conss = i.conss \ {c}])
    BY <1>1, <1>5 DEF AbortConsent
  <2>2. PICK r \in Invocation :
          r = [i EXCEPT !.pc = IF i.conss = {c} THEN "abortMark" ELSE i.pc,
                        !.conss = i.conss \ {c}]
    <3>1. i.conss \ {c} \in SUBSET ConsentIds /\ i.pc = "abortConsent"
      BY <1>1, <1>5 DEF Invocation, AbortConsent, At
    <3> QED
      BY <3>1, FieldWritten DEF Pcs
  <2>3. FromRow(r) /\ ~Creating(r)
    BY <1>1, <1>2, <1>5, <2>2 DEF FromRow, Creating, AbortConsent, At, Invocation
  <2>4. OwnersKept
    BY <2>1 DEF Backed, TypeOK, OwnersKept, Consent, Invocation
  <2> QED
    BY <1>5, <2>1, <2>2, <2>3, <2>4, MovesTo
    DEF AbortConsent, Ordinary, RowsSame, NotQueued, Moves, Creating, HasRow
<1>6. ASSUME NEW p \in AbortPcs, Goto(w, p), i.pc \in AbortPcs
      PROVE  \E r \in Invocation : Become(w, r) /\ FromRow(r) /\ ~Creating(r)
  <2>1. PICK r \in Invocation : r = [i EXCEPT !.pc = p]
    BY FieldWritten DEF Pcs
  <2>2. FromRow(r) /\ ~Creating(r)
    BY <1>2, <1>6, <2>1 DEF FromRow, Creating, Invocation
  <2> QED
    BY <1>1, <1>6, <2>1, <2>2 DEF Goto
<1>7. CASE AbortCancel(w)
  BY <1>1, <1>6, <1>7, QuietMove DEF AbortCancel, At, tables
<1>8. CASE AbortMark(w)
  <2>1. \E r : Become(w, r) /\ FromRow(r) /\ ~Creating(r)
    BY <1>1, <1>6, <1>8, ReturnMoves DEF AbortMark, At, Return
  <2>2. "CANCELLED" \in RowStatus \ Waiting
    BY DEF RowStatus, Waiting
  <2> QED
    BY <1>1, <1>2, <1>8, <2>1, <2>2, StatusWritten DEF AbortMark, At, SetRowStatus
<1>9. CASE AbortClear(w)
  BY <1>9, ReturnsOrdinary DEF AbortClear
<1> QED
  BY <1>4, <1>5, <1>7, <1>8, <1>9

----------------------------------------------------------------------------

(* The steps before which nothing was promised of a row.                   *)
PlainPcs == {"idle", "deployPut", "deployConsent", "findConsent", "decline", "readPackage",
             "checkPending", "clearStale", "createIot", "setPending", "aggregate",
             "updateRow", "recallMark", "recallScan"}

LEMMA PlainMove ==
    ASSUME Backed, NEW w \in Workers, NEW r, Become(w, r), r.pc \in PlainPcs,
           UNCHANGED <<consents, jobs>>
    PROVE  Ordinary(w)
<1>1. FromRow(r) /\ ~Creating(r)
  BY DEF PlainPcs, FromRow, Creating
<1> QED
  BY <1>1, QuietMove

LEMMA GotoPlain ==
    ASSUME Backed, NEW w \in Workers, NEW p \in PlainPcs, Goto(w, p)
    PROVE  \E r \in Invocation : Become(w, r) /\ r.pc = p
<1>1. PICK i \in Invocation : i = inv[w]
  BY Moving
<1>2. PICK r \in Invocation : r = [i EXCEPT !.pc = p]
  BY FieldWritten DEF Pcs, PlainPcs
<1>3. r.pc = p
  BY <1>2 DEF Invocation
<1> QED
  BY <1>1, <1>2, <1>3 DEF Goto

LEMMA ConsentStartOrdinary ==
    ASSUME Backed, NEW w \in Workers, NEW d \in Devices, NEW v \in Versions,
           NEW answer \in {"ACCEPTED", "DECLINED"}, ConsentStart(w, d, v, answer)
    PROVE  Ordinary(w)
<1>1. Become(w, [Idle EXCEPT !.pc = "findConsent", !.dev = d, !.ver = v, !.stat = answer,
                             !.job = pending[d], !.newer = v > inventory[d].ver])
  BY DEF ConsentStart
<1>2. ASSUME NEW j, NEW b
      PROVE  [Idle EXCEPT !.pc = "findConsent", !.dev = d, !.ver = v, !.stat = answer,
                          !.job = j, !.newer = b].pc = "findConsent"
  BY DEF Idle
<1>3. "findConsent" \in PlainPcs /\ UNCHANGED <<consents, jobs>>
  BY DEF PlainPcs, ConsentStart, tables
<1> QED
  BY <1>1, <1>2, <1>3, PlainMove

LEMMA ConsentOrdinary ==
    ASSUME Backed, NEW w \in Workers,
           \/ FindConsent(w) \/ Decline(w) \/ ReadPackage(w) \/ CheckPending(w)
           \/ ClearStale(w) \/ SetPending(w)
    PROVE  Ordinary(w)
<1>1. PICK i \in Invocation : i = inv[w] /\ HandlerTyped(i)
  BY Moving
<1>2. ASSUME NEW p \in PlainPcs, Goto(w, p), UNCHANGED <<consents, jobs>>
      PROVE  Ordinary(w)
  BY <1>2, GotoPlain, PlainMove
<1>3. {"readPackage", "createIot", "checkPending", "clearStale", "decline"} \subseteq PlainPcs
  BY DEF PlainPcs
<1>4. CASE FindConsent(w)
  <2>1. CASE \E c \in Matching(i.dev, i.ver) :
               Become(w, [i EXCEPT !.pc = IF i.stat = "DECLINED" THEN "decline"
                                          ELSE "readPackage",
                                   !.cons = c])
    <3>1. PICK c \in ConsentIds :
            Become(w, [i EXCEPT !.pc = IF i.stat = "DECLINED" THEN "decline"
                                       ELSE "readPackage",
                                !.cons = c])
      BY <2>1 DEF Matching
    <3>2. PICK r \in Invocation :
            r = [i EXCEPT !.pc = IF i.stat = "DECLINED" THEN "decline" ELSE "readPackage",
                          !.cons = c]
      BY FieldWritten DEF Pcs
    <3>3. r.pc \in PlainPcs
      BY <1>3, <3>2 DEF Invocation
    <3> QED
      BY <1>4, <3>1, <3>2, <3>3, PlainMove DEF FindConsent, tables
  <2>2. CASE Goto(w, "readPackage") \/ Return(w)
    BY <1>2, <1>3, <1>4, <2>2, ReturnsOrdinary DEF FindConsent, tables
  <2> QED
    BY <1>1, <1>4, <2>1, <2>2 DEF FindConsent
<1>5. CASE Decline(w)
  <2>1. PICK c \in ConsentIds : c = inv[w].cons
    BY <1>5, Moving DEF Decline, At, HandlerTyped
  <2>2. OwnersKept
    BY <1>5, <2>1 DEF Decline, Backed, TypeOK, Consent, OwnersKept
  <2> QED
    BY <1>5, <2>2, ReturnMoves, MovesTo
    DEF Decline, Return, Ordinary, RowsSame, NotQueued, Moves, HasRow, Creating, Idle
<1>6. CASE ReadPackage(w)
  BY <1>2, <1>3, <1>6, ReturnsOrdinary DEF ReadPackage, tables
<1>7. CASE CheckPending(w)
  BY <1>2, <1>3, <1>7, ReturnsOrdinary DEF CheckPending, tables
<1>8. CASE ClearStale(w)
  BY <1>2, <1>3, <1>8 DEF ClearStale
<1>9. CASE SetPending(w)
  BY <1>9, ReturnsOrdinary DEF SetPending
<1> QED
  BY <1>4, <1>5, <1>6, <1>7, <1>8, <1>9

----------------------------------------------------------------------------

LEMMA StatusOrdinary ==
    ASSUME Backed, Rowed, NEW w \in Workers,
           \/ \E m \in msgs : StatusReceive(w, m)
           \/ ReadAggregate(w) \/ UpdateRow(w) \/ ClearDevice(w) \/ MarkTerminal(w)
    PROVE  Ordinary(w)
<1>1. PICK i \in Invocation : i = inv[w] /\ HandlerTyped(i)
  BY Moving
<1>2. ASSUME NEW m \in msgs, StatusReceive(w, m) PROVE Ordinary(w)
  <2>1. [Idle EXCEPT !.pc = "aggregate", !.job = m.job, !.stat = m.status,
                     !.dev = iot[m.job].dev].pc = "aggregate"
    BY DEF Idle
  <2> QED
    BY <1>2, <2>1, PlainMove DEF StatusReceive, tables, PlainPcs
<1>3. CASE ReadAggregate(w)
  <2>1. PICK a : Become(w, [i EXCEPT !.pc = "updateRow", !.agg = a])
    BY <1>1, <1>3 DEF ReadAggregate
  <2>2. [i EXCEPT !.pc = "updateRow", !.agg = a].pc = "updateRow"
    BY DEF Invocation
  <2> QED
    BY <1>3, <2>1, <2>2, PlainMove DEF ReadAggregate, tables, PlainPcs
<1>4. CASE UpdateRow(w)
  <2>1. i.job \in JobIds /\ i.agg \in {"FAILED", "IN_PROGRESS", "SUCCEEDED"}
    BY <1>1, <1>4 DEF UpdateRow, At, HandlerTyped
  <2>2. CASE ~HasRow(i.job)
    BY <1>1, <1>4, <2>2, ReturnsOrdinary DEF UpdateRow, HasRow
  <2>3. CASE HasRow(i.job)
    <3>1. PICK row : row.status = i.agg /\ jobs' = [jobs EXCEPT ![i.job] = row]
      BY <1>1, <1>4, <2>3 DEF UpdateRow, HasRow
    <3>2. \A j \in JobIds : jobs'[j].status = jobs[j].status
                             \/ (j = i.job /\ jobs'[j].status = i.agg)
      BY <3>1 DEF Backed, TypeOK
    <3>3. RowsSame /\ NotQueued
      BY <2>1, <2>3, <3>2 DEF RowsSame, NotQueued, HasRow, Waiting
    <3>4. \E r : Become(w, r) /\ FromRow(r) /\ ~Creating(r)
      <4>1. CASE Return(w)
        BY <4>1, ReturnMoves DEF Return
      <4>2. CASE Goto(w, "clearDevice")
        <5>1. PICK r \in Invocation : r = [i EXCEPT !.pc = "clearDevice"]
          BY FieldWritten DEF Pcs
        <5>2. FromRow(r) /\ ~Creating(r)
          BY <2>3, <5>1 DEF Invocation, FromRow, Creating
        <5> QED
          BY <1>1, <4>2, <5>1, <5>2 DEF Goto
      <4> QED
        BY <1>1, <1>4, <2>3, <4>1, <4>2 DEF UpdateRow, HasRow
    <3> QED
      BY <1>4, <3>3, <3>4, MovesTo DEF UpdateRow, Ordinary, OwnersKept, Moves, Creating
  <2> QED
    BY <2>2, <2>3
<1>5. CASE ClearDevice(w)
  <2>1. HasRow(i.job)
    BY <1>1, <1>5 DEF ClearDevice, At, Rowed, FromRow
  <2>2. CASE Return(w)
    BY <1>5, <2>2, ReturnsOrdinary DEF ClearDevice
  <2>3. CASE Goto(w, "markTerminal")
    <3>1. PICK r \in Invocation : r = [i EXCEPT !.pc = "markTerminal"]
      BY FieldWritten DEF Pcs
    <3>2. FromRow(r) /\ ~Creating(r)
      BY <2>1, <3>1 DEF Invocation, FromRow, Creating
    <3> QED
      BY <1>1, <1>5, <2>3, <3>1, <3>2, QuietMove DEF ClearDevice, Goto
  <2> QED
    BY <1>5, <2>2, <2>3 DEF ClearDevice
<1>6. CASE MarkTerminal(w)
  <2>1. /\ i.job \in JobIds /\ HasRow(i.job)
        /\ i.stat \in ReportStatus /\ i.stat # "IN_PROGRESS"
    BY <1>1, <1>6 DEF MarkTerminal, At, HandlerTyped, Rowed, FromRow
  <2>2. PICK s \in RowStatus \ Waiting : s = (IF i.stat = "REJECTED" THEN "FAILED" ELSE i.stat)
    BY <2>1 DEF RowStatus, ReportStatus, Waiting
  <2> QED
    BY <1>1, <1>6, <2>1, <2>2, ReturnMoves, StatusWritten DEF MarkTerminal, SetRowStatus, Return
<1> QED
  BY <1>2, <1>3, <1>4, <1>5, <1>6

LEMMA SyncOrdinary ==
    ASSUME Backed, Rowed, NEW w \in Workers,
           \/ \E e \in events : LifecycleReceive(w, e)
           \/ DescribeCounts(w) \/ SyncWrite(w)
    PROVE  Ordinary(w)
<1>1. PICK i \in Invocation : i = inv[w] /\ HandlerTyped(i)
  BY Moving
<1>2. ASSUME NEW e \in events, LifecycleReceive(w, e) PROVE Ordinary(w)
  <2>1. CASE Return(w)
    BY <1>2, <2>1, ReturnsOrdinary DEF LifecycleReceive, tables
  <2>2. ASSUME NEW r, Become(w, r), r.pc \in SyncPcs, r.job = e.job, HasRow(e.job)
        PROVE  Ordinary(w)
    <3>1. FromRow(r) /\ ~Creating(r)
      BY <2>2 DEF FromRow, Creating
    <3> QED
      BY <1>2, <2>2, <3>1, QuietMove DEF LifecycleReceive, tables
  <2>3. CASE Become(w, [Idle EXCEPT !.pc = "syncWrite", !.job = e.job, !.stat = "CANCELLED"])
             /\ HasRow(e.job)
    <3>1. PICK r : r = [Idle EXCEPT !.pc = "syncWrite", !.job = e.job, !.stat = "CANCELLED"]
      OBVIOUS
    <3>2. r.pc = "syncWrite" /\ r.job = e.job
      BY <3>1 DEF Idle
    <3> QED
      BY <2>2, <2>3, <3>1, <3>2
  <2>4. CASE Become(w, [Idle EXCEPT !.pc = "describeCounts", !.job = e.job])
             /\ HasRow(e.job)
    <3>1. PICK r : r = [Idle EXCEPT !.pc = "describeCounts", !.job = e.job]
      OBVIOUS
    <3>2. r.pc = "describeCounts" /\ r.job = e.job
      BY <3>1 DEF Idle
    <3> QED
      BY <2>2, <2>4, <3>1, <3>2
  <2> QED
    BY <1>2, <2>1, <2>3, <2>4 DEF LifecycleReceive, HasRow
<1>3. CASE DescribeCounts(w)
  <2>1. HasRow(i.job)
    BY <1>1, <1>3 DEF DescribeCounts, At, Rowed, FromRow
  <2>2. CASE Return(w)
    BY <1>3, <2>2, ReturnsOrdinary DEF DescribeCounts, tables
  <2>3. ASSUME NEW s \in RowStatus, Become(w, [i EXCEPT !.pc = "syncWrite", !.stat = s])
        PROVE  Ordinary(w)
    <3>1. PICK r \in Invocation : r = [i EXCEPT !.pc = "syncWrite", !.stat = s]
      BY FieldWritten DEF Pcs
    <3>2. FromRow(r) /\ ~Creating(r)
      BY <2>1, <3>1 DEF Invocation, FromRow, Creating
    <3> QED
      BY <1>3, <2>3, <3>1, <3>2, QuietMove DEF DescribeCounts, tables
  <2> QED
    BY <1>1, <1>3, <2>2, <2>3 DEF DescribeCounts, RowStatus
<1>4. CASE SyncWrite(w)
  <2>1. /\ i.job \in JobIds /\ HasRow(i.job)
        /\ i.stat \in {"CANCELLED", "SUCCEEDED", "FAILED"}
    BY <1>1, <1>4 DEF SyncWrite, At, HandlerTyped, Rowed, FromRow
  <2>2. i.stat \in RowStatus \ Waiting
    BY <2>1 DEF RowStatus, Waiting
  <2> QED
    BY <1>1, <1>4, <2>1, <2>2, ReturnMoves, StatusWritten DEF SyncWrite, SetRowStatus, Return
<1> QED
  BY <1>2, <1>3, <1>4

----------------------------------------------------------------------------

(* A list of rows that is worked through: ids only ever gets smaller.      *)
LEMMA StaleNextMoves ==
    ASSUME Backed, Rowed, NEW w \in Workers, NEW id, StaleNext(w, id),
           At(w, "staleDescribe") \/ At(w, "staleWrite")
    PROVE  \E r : Become(w, r) /\ FromRow(r) /\ ~Creating(r)
<1>1. \A j \in inv[w].ids : HasRow(j)
  BY DEF Rowed, FromRow, At
<1>2. CASE Return(w)
  BY <1>2, ReturnMoves DEF Return
<1>3. CASE Become(w, [Idle EXCEPT !.pc = "staleDescribe", !.ids = inv[w].ids \ {id}])
  <2>1. PICK r : r = [Idle EXCEPT !.pc = "staleDescribe", !.ids = inv[w].ids \ {id}]
    OBVIOUS
  <2>2. r.pc = "staleDescribe" /\ r.ids \subseteq inv[w].ids
    BY <2>1 DEF Idle
  <2>3. FromRow(r) /\ ~Creating(r)
    BY <1>1, <2>2 DEF FromRow, Creating
  <2> QED
    BY <1>3, <2>1, <2>3
<1> QED
  BY <1>2, <1>3 DEF StaleNext

LEMMA StaleOrdinary ==
    ASSUME Backed, Rowed, NEW w \in Workers,
           StaleStart(w) \/ StaleDescribe(w) \/ StaleCancel(w) \/ StaleWrite(w)
    PROVE  Ordinary(w)
<1>1. PICK i \in Invocation : i = inv[w] /\ HandlerTyped(i) /\ HandlerBacked(i)
  BY Moving
<1>2. i.pc \in {"staleDescribe", "staleCancel", "staleWrite"} => \A j \in i.ids : HasRow(j)
  BY <1>1 DEF Rowed, FromRow
<1>3. CASE StaleStart(w)
  <2>1. PICK r : r = [Idle EXCEPT !.pc = "staleDescribe", !.ids = StaleRows]
    OBVIOUS
  <2>2. r.pc = "staleDescribe" /\ r.ids = StaleRows
    BY <2>1 DEF Idle
  <2>3. FromRow(r) /\ ~Creating(r)
    BY <2>2 DEF FromRow, Creating, StaleRows, LiveStatus, HasRow
  <2> QED
    BY <1>3, <2>1, <2>3, QuietMove DEF StaleStart, tables
<1>4. CASE StaleDescribe(w)
  <2>1. ASSUME NEW id \in i.ids, StaleNext(w, id) PROVE Ordinary(w)
    BY <1>4, <2>1, StaleNextMoves, QuietMove DEF StaleDescribe, tables
  <2>2. ASSUME NEW id \in i.ids, NEW p \in {"staleCancel", "staleWrite"},
               NEW s \in {"SUCCEEDED", "CANCELLED"},
               Become(w, [i EXCEPT !.pc = p, !.job = id, !.stat = s])
        PROVE  Ordinary(w)
    <3>0. id \in JobIds /\ p \in Pcs
      BY DEF Invocation, Pcs
    <3>1. PICK k \in Invocation : k = [i EXCEPT !.pc = p, !.job = id]
      BY <3>0, FieldWritten
    <3>2. PICK r \in Invocation : r = [k EXCEPT !.pc = p, !.stat = s]
      BY FieldWritten DEF Pcs, RowStatus
    <3>3. r = [i EXCEPT !.pc = p, !.job = id, !.stat = s]
      BY <3>1, <3>2 DEF Invocation
    <3>4. r.pc = p /\ r.job = id /\ r.ids = i.ids
      BY <3>1, <3>2 DEF Invocation
    <3>5. FromRow(r) /\ ~Creating(r)
      BY <1>1, <1>2, <1>4, <2>2, <3>4 DEF FromRow, Creating, StaleDescribe, At
    <3> QED
      BY <1>4, <2>2, <3>3, <3>5, QuietMove DEF StaleDescribe, tables
  <2>3. \E id \in i.ids :
          \/ \E p \in {"staleCancel", "staleWrite"}, s \in {"SUCCEEDED", "CANCELLED"} :
                Become(w, [i EXCEPT !.pc = p, !.job = id, !.stat = s])
          \/ StaleNext(w, id)
    BY <1>1, <1>4 DEF StaleDescribe
  <2> QED
    BY <2>1, <2>2, <2>3
<1>5. CASE StaleCancel(w)
  <2>1. PICK r \in Invocation : r = [i EXCEPT !.pc = "staleWrite"]
    BY FieldWritten DEF Pcs
  <2>2. r.pc = "staleWrite" /\ r.job = i.job /\ r.ids = i.ids
    BY <2>1 DEF Invocation
  <2>3. FromRow(r) /\ ~Creating(r)
    BY <1>1, <1>2, <1>5, <2>2 DEF FromRow, Creating, StaleCancel, At, Rowed
  <2> QED
    BY <1>1, <1>5, <2>1, <2>3, QuietMove DEF StaleCancel, Goto, tables
<1>6. CASE StaleWrite(w)
  <2>1. i.job \in JobIds /\ HasRow(i.job) /\ i.stat \in {"CANCELLED", "SUCCEEDED"}
    BY <1>1, <1>6 DEF StaleWrite, At, HandlerTyped, HandlerBacked, Rowed, FromRow
  <2>2. i.stat \in RowStatus \ Waiting
    BY <2>1 DEF RowStatus, Waiting
  <2>3. PICK r : Become(w, r) /\ FromRow(r) /\ ~Creating(r)
    BY <1>6, StaleNextMoves DEF StaleWrite
  <2> QED
    BY <1>1, <1>6, <2>1, <2>2, <2>3, StatusWritten DEF StaleWrite, SetRowStatus
<1> QED
  BY <1>3, <1>4, <1>5, <1>6

LEMMA RecallOrdinary ==
    ASSUME Backed, Rowed, NEW w \in Workers,
           \/ \E v \in Versions : RecallStart(w, v)
           \/ RecallMark(w) \/ RecallScan(w) \/ RecallCancel(w) \/ RecallWrite(w)
    PROVE  Ordinary(w)
<1>1. PICK i \in Invocation : i = inv[w] /\ HandlerTyped(i)
  BY Moving
<1>2. i.pc \in {"recallCancel", "recallWrite"} => \A j \in i.ids : HasRow(j)
  BY <1>1 DEF Rowed, FromRow
<1>3. ASSUME NEW v \in Versions, RecallStart(w, v) PROVE Ordinary(w)
  <2>1. [Idle EXCEPT !.pc = "recallMark", !.ver = v].pc = "recallMark"
    BY DEF Idle
  <2> QED
    BY <1>3, <2>1, PlainMove DEF RecallStart, tables, PlainPcs
<1>4. CASE RecallMark(w)
  BY <1>4, GotoPlain, PlainMove DEF RecallMark, PlainPcs
<1>5. CASE RecallScan(w)
  <2>1. PICK found \in SUBSET JobIds : found = QueuedRows(i.ver)
    BY DEF QueuedRows
  <2>2. \A j \in found : HasRow(j)
    BY <2>1 DEF QueuedRows, HasRow
  <2>3. CASE Return(w)
    BY <1>5, <2>3, ReturnsOrdinary DEF RecallScan, tables
  <2>4. CASE Become(w, [i EXCEPT !.pc = "recallCancel", !.ids = found])
    <3>1. PICK r \in Invocation : r = [i EXCEPT !.pc = "recallCancel", !.ids = found]
      BY FieldWritten DEF Pcs
    <3>2. r.pc = "recallCancel" /\ r.ids = found
      BY <3>1 DEF Invocation
    <3>3. FromRow(r) /\ ~Creating(r)
      BY <2>2, <3>2 DEF FromRow, Creating
    <3> QED
      BY <1>5, <2>4, <3>1, <3>3, QuietMove DEF RecallScan, tables
  <2> QED
    BY <1>1, <1>5, <2>1, <2>3, <2>4 DEF RecallScan
<1>6. CASE RecallCancel(w)
  <2>1. PICK id \in i.ids : Become(w, [i EXCEPT !.pc = "recallWrite", !.job = id])
    BY <1>1, <1>6 DEF RecallCancel
  <2>0. id \in JobIds /\ "recallWrite" \in Pcs
    BY DEF Invocation, Pcs
  <2>2. PICK r \in Invocation : r = [i EXCEPT !.pc = "recallWrite", !.job = id]
    BY <2>0, FieldWritten
  <2>3. r.pc = "recallWrite" /\ r.job = id /\ r.ids = i.ids
    BY <2>2 DEF Invocation
  <2>4. FromRow(r) /\ ~Creating(r)
    BY <1>1, <1>2, <1>6, <2>3 DEF FromRow, Creating, RecallCancel, At
  <2> QED
    BY <1>6, <2>1, <2>2, <2>4, QuietMove DEF RecallCancel, tables
<1>7. CASE RecallWrite(w)
  <2>1. i.job \in JobIds /\ HasRow(i.job)
    BY <1>1, <1>7 DEF RecallWrite, At, HandlerTyped, Rowed, FromRow
  <2>2. "CANCELLED" \in RowStatus \ Waiting
    BY DEF RowStatus, Waiting
  <2>3. \E r : Become(w, r) /\ FromRow(r) /\ ~Creating(r)
    <3>1. CASE Return(w)
      BY <3>1, ReturnMoves DEF Return
    <3>2. CASE Become(w, [i EXCEPT !.pc = "recallCancel", !.job = NoJob,
                                   !.ids = i.ids \ {i.job}])
      <4>1. PICK r : r = [i EXCEPT !.pc = "recallCancel", !.job = NoJob,
                                   !.ids = i.ids \ {i.job}]
        OBVIOUS
      <4>2. r.pc = "recallCancel" /\ r.ids \subseteq i.ids
        BY <4>1 DEF Invocation
      <4>3. FromRow(r) /\ ~Creating(r)
        BY <1>1, <1>2, <1>7, <4>2 DEF FromRow, Creating, RecallWrite, At
      <4> QED
        BY <3>2, <4>1, <4>3
    <3>3. [i EXCEPT !.pc = "recallCancel", !.job = NoJob, !.ids = @ \ {i.job}]
            = [i EXCEPT !.pc = "recallCancel", !.job = NoJob, !.ids = i.ids \ {i.job}]
      BY DEF Invocation
    <3> QED
      BY <1>1, <1>7, <3>1, <3>2, <3>3 DEF RecallWrite
  <2> QED
    BY <1>1, <1>7, <2>1, <2>2, <2>3, StatusWritten DEF RecallWrite, SetRowStatus
<1> QED
  BY <1>3, <1>4, <1>5, <1>6, <1>7

----------------------------------------------------------------------------
(* What each step does to the invariant                                    *)

(* One invocation moves, and no row disappears.                            *)
LEMMA RowedKept ==
    ASSUME Backed, Rowed, Backed', NEW w \in Workers,
           \A u \in Workers \ {w} : inv'[u] = inv[u],
           FromRow(inv'[w]), \A id \in JobIds : HasRow(id) => HasRow(id)'
    PROVE  Rowed'
<1>1. ASSUME NEW i \in Invocation, HandlerTyped(i), FromRow(i)
      PROVE  FromRow(i)'
  BY <1>1 DEF FromRow, HandlerTyped, Invocation
<1>2. ASSUME NEW u \in Workers
      PROVE  FromRow(inv[u])'
  <2>1. PICK i \in Invocation : i = inv'[u] /\ HandlerTyped(i)
    BY DEF Backed, TypeOK, HandlerTyped
  <2>2. FromRow(i)
    BY <2>1 DEF Rowed
  <2> QED
    BY <1>1, <2>1, <2>2 DEF FromRow
<1> QED
  BY <1>2 DEF Rowed

LEMMA OrdinaryKeeps ==
    ASSUME OnceInv, Backed', NEW w \in Workers, Ordinary(w)
    PROVE  OnceInv' /\ (New => New') /\ NotQueued
<1>1. Rowed'
  BY RowedKept DEF OnceInv, Ordinary, Moves, RowsSame
<1>2. \A u \in Workers : Creating(inv'[u]) => Creating(inv[u]) /\ inv'[u].job = inv[u].job
  BY DEF Ordinary, Moves
<1>3. \A u \in Workers : inv'[u].pc = "writeConsent" =>
         At(u, "writeConsent") /\ inv'[u].job = inv[u].job
  BY <1>2 DEF Ordinary, Moves, Creating, At
<1>4. Owned'
  BY <1>3 DEF OnceInv, Owned, JobOfOneConsent, Ordinary, OwnersKept, At
<1>5. \A u \in Workers : Creating(inv'[u]) => inv[u].job \in JobIds
  BY <1>2, Moving DEF OnceInv, Creating, HandlerTyped
<1>6. ASSUME New PROVE New'
  <2>1. \A u \in Workers : Creating(inv'[u]) => jobs'[inv'[u].job].status = "NONE"
    BY <1>2, <1>5, <1>6 DEF New, Ordinary, RowsSame, HasRow
  <2>2. \A u, v \in Workers :
           Creating(inv'[u]) /\ Creating(inv'[v]) /\ inv'[u].job = inv'[v].job => u = v
    BY <1>2, <1>6 DEF New, Creating
  <2> QED
    BY <2>1, <2>2 DEF New, Creating, HasRow
<1> QED
  BY <1>1, <1>4, <1>6 DEF OnceInv, Ordinary

(* Nothing that the invariant speaks of changes.                           *)
LEMMA OutsideKeeps ==
    ASSUME OnceInv, Backed', UNCHANGED <<inv, jobs, consents>>
    PROVE  OnceInv' /\ (New => New') /\ NotQueued
<1>1. Rowed' /\ Owned'
  BY DEF OnceInv, Rowed, FromRow, HasRow, Owned, JobOfOneConsent, At
<1>2. New => New'
  BY DEF New, Creating, HasRow
<1> QED
  BY <1>1, <1>2 DEF OnceInv, NotQueued

(* A job that does not exist in AWS IoT has neither creator nor acceptance.*)
LEMMA UnknownJob ==
    ASSUME OnceInv, NEW id \in JobIds, ~Exists(id)
    PROVE  /\ \A u \in Workers : Creating(inv[u]) => inv[u].job # id
           /\ \A c \in ConsentIds : consents[c].status = "ACCEPTED" => consents[c].job # id
<1>1. ASSUME NEW u \in Workers, Creating(inv[u]) PROVE inv[u].job # id
  BY <1>1, Moving DEF OnceInv, Creating, HandlerTyped, HandlerBacked, Backed, IotConsistent
<1> QED
  BY <1>1 DEF OnceInv, Backed, AcceptedHasJob

(* CreateIot: AWS IoT refuses an id it has.                                *)
LEMMA CreateIotOnce ==
    ASSUME OnceInv, Backed', NEW w \in Workers, CreateIot(w)
    PROVE  /\ OnceInv' /\ NotQueued
           /\ New /\ "sameSecond" \notin Env => New'
<1>1. UNCHANGED <<jobs, consents>> /\ Backed
  BY DEF CreateIot, tables, OnceInv
<1>2. CASE Return(w)
  BY <1>1, <1>2, ReturnsOrdinary, OrdinaryKeeps
<1>3. CASE ~Return(w)
  <2>1. PICK i \in Invocation : i = inv[w] /\ HandlerTyped(i)
    BY <1>1, Moving
  <2>2. PICK id \in JobIds : id = NewId(i.ver)
    BY <1>1, <2>1, NewIdTyped DEF CreateIot, At, HandlerTyped
  <2>3. /\ ~Exists(id) /\ Usable(id)
        /\ Become(w, [i EXCEPT !.pc = "writeConsent", !.job = id])
    BY <1>3, <2>1, <2>2 DEF CreateIot
  <2>4. PICK r \in Invocation : r = [i EXCEPT !.pc = "writeConsent", !.job = id]
    BY FieldWritten DEF Pcs
  <2>5. r.pc = "writeConsent" /\ r.job = id
    BY <2>4 DEF Invocation
  <2>6. inv'[w] = r /\ \A u \in Workers \ {w} : inv'[u] = inv[u]
    BY <1>1, <2>3, <2>4, MovesTo
  <2>7. Rowed'
    <3>1. FromRow(r)
      BY <2>5 DEF FromRow
    <3>2. \A j \in JobIds : HasRow(j) => HasRow(j)'
      BY <1>1 DEF HasRow
    <3> QED
      BY <1>1, <2>6, <3>1, <3>2, RowedKept DEF OnceInv
  <2>8. /\ \A u \in Workers : Creating(inv[u]) => inv[u].job # id
        /\ \A c \in ConsentIds : consents[c].status = "ACCEPTED" => consents[c].job # id
    BY <2>3, UnknownJob
  <2>9. Owned'
    BY <1>1, <2>5, <2>6, <2>8 DEF OnceInv, Owned, JobOfOneConsent, At, Creating
  <2>10. ASSUME New, "sameSecond" \notin Env PROVE New'
    <3>1. ~HasRow(id)
      BY <2>3, <2>10 DEF Usable, Fresh, HasRow
    <3>2. \A u \in Workers : Creating(inv'[u]) => jobs'[inv'[u].job].status = "NONE"
      BY <1>1, <2>5, <2>6, <2>10, <3>1 DEF New, HasRow
    <3>3. \A u, v \in Workers :
             Creating(inv'[u]) /\ Creating(inv'[v]) /\ inv'[u].job = inv'[v].job => u = v
      BY <2>5, <2>6, <2>8, <2>10 DEF New, Creating
    <3> QED
      BY <3>2, <3>3 DEF New, Creating, HasRow
  <2> QED
    BY <1>1, <2>7, <2>9, <2>10 DEF OnceInv, NotQueued
<1> QED
  BY <1>2, <1>3

(* WriteConsent: the acceptance moves from the handler to the record.      *)
LEMMA WriteConsentOnce ==
    ASSUME OnceInv, Backed', NEW w \in Workers, WriteConsent(w)
    PROVE  OnceInv' /\ (New => New') /\ NotQueued
<1>1. PICK i \in Invocation : i = inv[w] /\ i.pc = "writeConsent"
  BY Moving DEF WriteConsent, At, OnceInv
<1>2. PICK r \in Invocation : r = [i EXCEPT !.pc = "putJob"]
  BY FieldWritten DEF Pcs
<1>3. r.pc = "putJob" /\ r.job = i.job
  BY <1>2 DEF Invocation
<1>4. inv'[w] = r /\ \A u \in Workers \ {w} : inv'[u] = inv[u]
  BY <1>1, <1>2, MovesTo DEF WriteConsent, Goto, OnceInv
<1>5. UNCHANGED jobs
  BY DEF WriteConsent
<1>6. Rowed'
  <2>1. FromRow(r) /\ \A j \in JobIds : HasRow(j) => HasRow(j)'
    BY <1>3, <1>5 DEF FromRow, HasRow
  <2> QED
    BY <1>4, <2>1, RowedKept DEF OnceInv
<1>7. PICK c \in ConsentIds :
         \A b \in ConsentIds : IF b = c THEN consents'[b].job = i.job
                               ELSE consents'[b] = consents[b]
  <2>1. consents \in [ConsentIds -> Consent]
    BY DEF OnceInv, Backed, TypeOK
  <2>2. CASE i.cons # NoCons
               /\ consents' = [consents EXCEPT ![i.cons] =
                                 [@ EXCEPT !.status = "ACCEPTED", !.job = i.job]]
    <3>1. i.cons \in ConsentIds
      BY <2>2 DEF Invocation
    <3>2. consents'[i.cons].job = i.job
      BY <2>1, <2>2, <3>1 DEF Consent
    <3>3. \A b \in ConsentIds : b # i.cons => consents'[b] = consents[b]
      BY <2>1, <2>2
    <3> QED
      BY <3>1, <3>2, <3>3
  <2>3. ASSUME NEW c \in ConsentIds,
               consents' = [consents EXCEPT ![c] =
                    [status |-> "ACCEPTED", dev |-> i.dev, ver |-> i.ver,
                     deployment |-> NoJob, job |-> i.job]]
        PROVE  \A b \in ConsentIds : IF b = c THEN consents'[b].job = i.job
                                     ELSE consents'[b] = consents[b]
    BY <2>1, <2>3
  <2> QED
    BY <1>1, <2>2, <2>3 DEF WriteConsent
<1>8. \A b \in ConsentIds : b # c /\ consents[b].status = "ACCEPTED"
          => consents[b].job # i.job
  BY <1>1 DEF OnceInv, Owned, At
<1>9. JobOfOneConsent'
  BY <1>7, <1>8 DEF OnceInv, Owned, JobOfOneConsent
<1>10. \A u \in Workers : inv'[u].pc = "writeConsent" =>
          u # w /\ At(u, "writeConsent") /\ inv'[u] = inv[u] /\ inv[u].job # i.job
  BY <1>1, <1>3, <1>4 DEF OnceInv, Owned, At
<1>11. Owned'
  BY <1>7, <1>9, <1>10 DEF OnceInv, Owned, At
<1>12. \A u \in Workers : Creating(inv'[u]) => Creating(inv[u]) /\ inv'[u].job = inv[u].job
  BY <1>1, <1>3, <1>4 DEF Creating
<1>13. ASSUME New PROVE New'
  <2>1. \A u \in Workers : Creating(inv'[u]) => jobs'[inv'[u].job].status = "NONE"
    BY <1>5, <1>12, <1>13 DEF New, HasRow
  <2>2. \A u, v \in Workers :
           Creating(inv'[u]) /\ Creating(inv'[v]) /\ inv'[u].job = inv'[v].job => u = v
    BY <1>12, <1>13 DEF New, Creating
  <2> QED
    BY <2>1, <2>2 DEF New, Creating, HasRow
<1> QED
  BY <1>5, <1>6, <1>11, <1>13 DEF OnceInv, NotQueued

(* A row is put for id, of which w is not a creator any more.              *)
LEMMA RowPut ==
    ASSUME OnceInv, Backed', NEW w \in Workers, NEW r \in Invocation, Become(w, r),
           FromRow(r)', ~Creating(r), UNCHANGED consents,
           NEW id \in JobIds, NEW row, jobs' = [jobs EXCEPT ![id] = row],
           row.status # "NONE",
           New => ~HasRow(id) /\ \A u \in Workers \ {w} : Creating(inv[u]) => inv[u].job # id
    PROVE  /\ OnceInv' /\ (New => New')
           /\ New => \A j \in JobIds : HasRow(j) => jobs'[j] = jobs[j]
<1>1. inv'[w] = r /\ \A u \in Workers \ {w} : inv'[u] = inv[u]
  BY MovesTo DEF OnceInv
<1>2. \A j \in JobIds : j # id => jobs'[j] = jobs[j]
  BY DEF OnceInv, Backed, TypeOK
<1>3. jobs'[id] = row
  BY DEF OnceInv, Backed, TypeOK
<1>4. \A u \in Workers : Creating(inv'[u]) => u # w /\ Creating(inv[u]) /\ inv'[u] = inv[u]
  BY <1>1 DEF Creating
<1>5. Rowed'
  <2>1. \A j \in JobIds : HasRow(j) => HasRow(j)'
    BY <1>2, <1>3 DEF HasRow
  <2>2. ASSUME NEW u \in Workers \ {w} PROVE FromRow(inv[u])'
    <3>1. PICK i \in Invocation : i = inv[u] /\ HandlerTyped(i) /\ i = inv'[u]
      BY <1>1, Moving DEF OnceInv
    <3>2. FromRow(i)
      BY <3>1 DEF OnceInv, Rowed
    <3>3. FromRow(i)'
      BY <2>1, <3>1, <3>2 DEF FromRow, HandlerTyped, Invocation
    <3> QED
      BY <3>1, <3>3 DEF FromRow
  <2>3. FromRow(inv[w])'
    BY <1>1 DEF FromRow
  <2> QED
    BY <2>2, <2>3 DEF Rowed
<1>6. Owned'
  BY <1>4, <1>1 DEF OnceInv, Owned, JobOfOneConsent, At, Creating
<1>7. ASSUME New PROVE New'
  <2>1. \A u \in Workers : Creating(inv'[u]) => inv'[u].job \in JobIds
    BY <1>4, Moving DEF OnceInv, Creating, HandlerTyped
  <2>2. \A u \in Workers : Creating(inv'[u]) => jobs'[inv'[u].job].status = "NONE"
    BY <1>2, <1>4, <1>7, <2>1 DEF New, HasRow
  <2>3. \A u, v \in Workers :
           Creating(inv'[u]) /\ Creating(inv'[v]) /\ inv'[u].job = inv'[v].job => u = v
    BY <1>4, <1>7 DEF New, Creating
  <2> QED
    BY <2>2, <2>3 DEF New, Creating, HasRow
<1> QED
  BY <1>2, <1>5, <1>6, <1>7 DEF OnceInv

LEMMA PutJobOnce ==
    ASSUME OnceInv, Backed', NEW w \in Workers, PutJob(w)
    PROVE  /\ OnceInv' /\ (New => New')
           /\ New => \A j \in JobIds : HasRow(j) => jobs'[j] = jobs[j]
<1>1. PICK i \in Invocation : i = inv[w] /\ i.pc = "putJob" /\ i.job \in JobIds
  BY Moving DEF PutJob, At, OnceInv, HandlerTyped
<1>2. PICK r \in Invocation : r = [i EXCEPT !.pc = "setPending"]
  BY FieldWritten DEF Pcs
<1>3. r.pc = "setPending" /\ Become(w, r)
  BY <1>1, <1>2 DEF Invocation, PutJob, Goto
<1>4. FromRow(r)' /\ ~Creating(r)
  BY <1>3 DEF FromRow, Creating
<1>5. PICK row : row.status = "QUEUED" /\ jobs' = [jobs EXCEPT ![i.job] = row]
  <2>1. [NoRow EXCEPT !.status = "QUEUED", !.targets = {i.dev}].status = "QUEUED"
    BY DEF NoRow
  <2> QED
    BY <1>1, <2>1 DEF PutJob
<1>6. New => ~HasRow(i.job) /\ \A u \in Workers \ {w} : Creating(inv[u]) => inv[u].job # i.job
  BY <1>1 DEF New, Creating
<1>7. UNCHANGED consents /\ row.status # "NONE"
  BY <1>5 DEF PutJob
<1> QED
  BY <1>1, <1>3, <1>4, <1>5, <1>6, <1>7, RowPut

LEMMA DeployPutOnce ==
    ASSUME OnceInv, Backed', NEW w \in Workers, DeployPut(w)
    PROVE  /\ OnceInv'
           /\ New /\ "sameSecond" \notin Env =>
                 New' /\ \A j \in JobIds : HasRow(j) => jobs'[j] = jobs[j]
<1>1. PICK i \in Invocation : i = inv[w] /\ i.pc = "deployPut" /\ i.ver \in Versions
  BY Moving DEF DeployPut, At, OnceInv, HandlerTyped
<1>2. PICK id \in JobIds : id = NewId(i.ver)
  BY <1>1, NewIdTyped DEF OnceInv
<1>3. PICK r \in Invocation : r = [i EXCEPT !.pc = "deployConsent", !.job = id]
  BY FieldWritten DEF Pcs
<1>4. r.pc = "deployConsent" /\ Become(w, r)
  BY <1>1, <1>2, <1>3 DEF Invocation, DeployPut
<1>5. FromRow(r) /\ FromRow(r)' /\ ~Creating(r)
  BY <1>4 DEF FromRow, Creating
<1>6. PICK row : row.status = "AWAITING_CONSENT" /\ jobs' = [jobs EXCEPT ![id] = row]
  <2>1. [NoRow EXCEPT !.status = "AWAITING_CONSENT", !.type = i.type,
                      !.targets = i.devs].status = "AWAITING_CONSENT"
    BY DEF NoRow
  <2> QED
    BY <1>1, <1>2, <2>1 DEF DeployPut
<1>7. UNCHANGED consents /\ Usable(id)
  BY <1>1, <1>2 DEF DeployPut
<1>8. CASE "sameSecond" \notin Env
  <2>1. ~HasRow(id) /\ ~Exists(id)
    BY <1>7, <1>8 DEF Usable, Fresh, HasRow, Exists
  <2> QED
    BY <1>4, <1>5, <1>6, <1>7, <2>1, UnknownJob, RowPut
<1>9. OnceInv'
  <2>1. inv'[w] = r /\ \A u \in Workers \ {w} : inv'[u] = inv[u]
    BY <1>4, MovesTo DEF OnceInv
  <2>2. \A j \in JobIds : HasRow(j) => HasRow(j)'
    BY <1>6 DEF OnceInv, Backed, TypeOK, HasRow
  <2>3. Rowed'
    BY <1>5, <2>1, <2>2, RowedKept DEF OnceInv
  <2>4. Owned'
    BY <1>4, <1>7, <2>1 DEF OnceInv, Owned, JobOfOneConsent, At
  <2> QED
    BY <2>3, <2>4 DEF OnceInv
<1> QED
  BY <1>8, <1>9

----------------------------------------------------------------------------
(* The two results                                                         *)

LEMMA OnceInit ==
    ASSUME Init
    PROVE  OnceInv /\ New
<1>1. \A w \in Workers : inv[w] = Idle
  BY DEF Init
<1>2. \A c \in ConsentIds : consents[c].status = "NONE"
  BY DEF Init, NoConsent
<1>3. Rowed
  BY <1>1, ReturnMoves DEF Rowed
<1>4. \A w \in Workers : inv[w].pc = "idle"
  BY <1>1 DEF Idle
<1>5. Owned /\ New
  BY <1>2, <1>4 DEF Owned, JobOfOneConsent, New, At, Creating
<1> QED
  BY <1>3, <1>5, BackedInit DEF OnceInv

(* The steps of the handlers that neither create a job nor write its row.  *)
LEMMA HandlersOrdinary ==
    ASSUME OnceInv, NEW w \in Workers,
           \/ Request(w) \/ StaleCheck(w) \/ DeliverMessage(w) \/ DeliverEvent(w) \/ Crash(w)
           \/ Continue(w) /\ ~(DeployPut(w) \/ CreateIot(w) \/ WriteConsent(w) \/ PutJob(w))
    PROVE  Ordinary(w)
<1>1. Backed /\ Rowed
  BY DEF OnceInv
<1>2. CASE Request(w)
  BY <1>1, <1>2, DeployOrdinary, ConsentStartOrdinary, AbortStartOrdinary, RecallOrdinary
  DEF Request, Deploy, Accept, DeclineRequest, Abort, Recall
<1>3. CASE StaleCheck(w)
  BY <1>1, <1>3, StaleOrdinary DEF StaleCheck
<1>4. CASE DeliverMessage(w)
  BY <1>1, <1>4, StatusOrdinary DEF DeliverMessage
<1>5. CASE DeliverEvent(w)
  BY <1>1, <1>5, SyncOrdinary DEF DeliverEvent
<1>6. CASE Crash(w)
  BY <1>1, <1>6, ReturnsOrdinary DEF Crash, tables
<1>7. CASE Continue(w) /\ ~(DeployPut(w) \/ CreateIot(w) \/ WriteConsent(w) \/ PutJob(w))
  BY <1>1, <1>7, DeployOrdinary, AbortOrdinary, ConsentOrdinary, StatusOrdinary,
     SyncOrdinary, StaleOrdinary, RecallOrdinary DEF Continue
<1> QED
  BY <1>2, <1>3, <1>4, <1>5, <1>6, <1>7

LEMMA OutsideStill ==
    ASSUME Device \/ Aws \/ Tick \/ WeekPasses \/ UNCHANGED vars
    PROVE  UNCHANGED <<inv, jobs, consents>>
<1>1. CASE Device
  BY <1>1 DEF Device, Register, DeviceStart, DeviceProgress, DeviceFinish, tables
<1>2. CASE Aws
  BY <1>2 DEF Aws, IotTimeout, ConsoleCancel, LoseMessage, LoseEvent, tables
<1>3. CASE Tick \/ WeekPasses \/ UNCHANGED vars
  BY <1>3 DEF Tick, WeekPasses, vars, tables
<1> QED
  BY <1>1, <1>2, <1>3

LEMMA OnceNext ==
    ASSUME OnceInv, [Next]_vars
    PROVE  /\ OnceInv'
           /\ New /\ "sameSecond" \notin Env =>
                 New' /\ \A j \in JobIds : HasRow(j) /\ jobs'[j].status # jobs[j].status
                                           => jobs'[j].status \notin Waiting
<1>1. Backed'
  BY BackedNext DEF OnceInv
<1>2. ASSUME OnceInv' /\ (New => New') /\ NotQueued
      PROVE  /\ OnceInv'
             /\ New /\ "sameSecond" \notin Env =>
                   New' /\ \A j \in JobIds : HasRow(j) /\ jobs'[j].status # jobs[j].status
                                             => jobs'[j].status \notin Waiting
  BY <1>2 DEF NotQueued
<1>3. CASE Device \/ Aws \/ Tick \/ WeekPasses \/ UNCHANGED vars
  BY <1>1, <1>2, <1>3, OutsideStill, OutsideKeeps
<1>4. ASSUME NEW w \in Workers, Ordinary(w)
      PROVE  OnceInv' /\ (New => New') /\ NotQueued
  BY <1>1, <1>4, OrdinaryKeeps
<1>5. CASE \E w \in Workers : Ordinary(w)
  BY <1>2, <1>4, <1>5
<1>6. ASSUME NEW w \in Workers, CreateIot(w)
      PROVE  OnceInv' /\ NotQueued /\ (New /\ "sameSecond" \notin Env => New')
  BY <1>1, <1>6, CreateIotOnce
<1>7. CASE \E w \in Workers : CreateIot(w)
  BY <1>6, <1>7 DEF NotQueued
<1>8. CASE \E w \in Workers : WriteConsent(w)
  BY <1>1, <1>2, <1>8, WriteConsentOnce
<1>9. CASE \E w \in Workers : PutJob(w)
  BY <1>1, <1>9, PutJobOnce
<1>10. CASE \E w \in Workers : DeployPut(w)
  BY <1>1, <1>10, DeployPutOnce
<1>11. \/ Device \/ Aws \/ Tick \/ WeekPasses \/ UNCHANGED vars
       \/ \E w \in Workers : \/ Ordinary(w) \/ CreateIot(w) \/ WriteConsent(w)
                             \/ PutJob(w) \/ DeployPut(w)
  BY HandlersOrdinary DEF Next
<1> QED
  BY <1>3, <1>5, <1>7, <1>8, <1>9, <1>10, <1>11

LEMMA OnceAlways == Spec => []OnceInv
<1>1. Init => OnceInv
  BY OnceInit
<1>2. OnceInv /\ [Next]_vars => OnceInv'
  BY OnceNext
<1> QED
  BY <1>1, <1>2, PTL DEF Spec

(* Whatever runs at the same time and whichever ids are made in the same   *)
(* second, no two accepted consents ever name one job: create_job lets one *)
(* of their handlers through, and the other returns before it writes.      *)
THEOREM AcceptancesApart == Spec => []JobOfOneConsent
<1>1. OnceInv => JobOfOneConsent
  BY DEF OnceInv, Owned
<1> QED
  BY <1>1, OnceAlways, PTL

(* While no two ids of a version are made in one second, a job row enters  *)
(* the queue when it is made and never again: no report, event, abort,     *)
(* recall or daily check, late or in whichever order, takes it back.       *)
THEOREM QueuedOnce == "sameSecond" \notin Env => (Spec => NeverRequeued)
<1> SUFFICES ASSUME "sameSecond" \notin Env PROVE Spec => NeverRequeued
  OBVIOUS
<1>1. Init => OnceInv /\ New
  BY OnceInit
<1>2. (OnceInv /\ New) /\ [Next]_vars => (OnceInv /\ New)'
  BY OnceNext
<1>3. (OnceInv /\ New) /\ [Next]_vars =>
        [\A id \in JobIds :
            jobs[id].status # "NONE" /\ jobs'[id].status # jobs[id].status
            => jobs'[id].status \notin {"NONE", "AWAITING_CONSENT", "QUEUED"}]_vars
  BY OnceNext DEF HasRow, Waiting
<1> QED
  BY <1>1, <1>2, <1>3, PTL DEF Spec, NeverRequeued

=============================================================================
