------------------------------ MODULE IotJobs ------------------------------
(***************************************************************************)
(* AWS IoT Jobs and the devices, as the Lambdas use them: external to the  *)
(* repository except for the agent's report (controller/jobs_client.py).   *)
(*                                                                         *)
(* Every job is made by user_consent for one thing, so a job and its only  *)
(* execution are one record.  cancel_job(force=False) cancels an execution *)
(* that is still QUEUED and leaves a running one alone.                    *)
(***************************************************************************)
EXTENDS OtaTables

IotStatus  == {"NONE", "IN_PROGRESS", "CANCELED", "COMPLETED"}
ExecLive   == {"QUEUED", "IN_PROGRESS"}
ExecStatus == ExecLive \cup {"NONE", "SUCCEEDED", "FAILED", "REJECTED",
                             "TIMED_OUT", "CANCELED"}
EventType  == {"canceled", "completed"}
RunStatus  == {"idle", "running", "SUCCEEDED", "FAILED", "REJECTED", "TIMED_OUT"}

IotJob  == [status : IotStatus, dev : Devices \cup {NoDev}, exec : ExecStatus]
Message == [job : JobIds, status : ReportStatus]
Event   == [job : JobIds, type : EventType]
NoIot   == [status |-> "NONE", dev |-> NoDev, exec |-> "NONE"]

Exists(id) == iot[id].status # "NONE"
LiveJobs(d) == {id \in JobIds : iot[id].dev = d /\ iot[id].exec \in ExecLive}

----------------------------------------------------------------------------
(* The API the Lambdas call                                                *)

CreateJob(id, d) ==
    /\ iot' = [iot EXCEPT ![id] =
                 [status |-> "IN_PROGRESS", dev |-> d, exec |-> "QUEUED"]]
    /\ UNCHANGED events

CancelJob(id) ==
    IF iot[id].status = "IN_PROGRESS"
    THEN /\ iot' = [iot EXCEPT ![id] =
                      [status |-> "CANCELED", dev |-> @.dev,
                       exec |-> IF @.exec = "QUEUED" THEN "CANCELED" ELSE @.exec]]
         /\ events' = events \cup {[job |-> id, type |-> "canceled"]}
    ELSE UNCHANGED <<iot, events>>

(* The execution ends in s; the last execution to end completes the job.   *)
EndExecution(id, s) ==
    /\ iot' = [iot EXCEPT ![id] =
                 [status |-> IF @.status = "IN_PROGRESS" THEN "COMPLETED" ELSE @.status,
                  dev |-> @.dev, exec |-> s]]
    /\ events' = IF iot[id].status = "IN_PROGRESS"
                 THEN events \cup {[job |-> id, type |-> "completed"]}
                 ELSE events

(* UpdateJobExecution refuses to leave a terminal execution and takes no   *)
(* TIMED_OUT; the callers ignore a refusal.                                *)
UpdateExecution(id, s) ==
    IF iot[id].exec \in ExecLive /\ s # "TIMED_OUT"
    THEN IF s = "IN_PROGRESS"
         THEN /\ iot' = [iot EXCEPT ![id] = [@ EXCEPT !.exec = s]]
              /\ UNCHANGED events
         ELSE EndExecution(id, s)
    ELSE UNCHANGED <<iot, events>>

----------------------------------------------------------------------------
(* The device.  A report goes to the custom status topic; an agent that    *)
(* also publishes on the reserved topic (Mirroring) updates its execution  *)
(* itself, any other leaves that to status_handler.                        *)

Report(id, s) ==
    /\ msgs' = msgs \cup {[job |-> id, status |-> s]}
    /\ IF iot[id].dev \in Mirroring THEN UpdateExecution(id, s)
       ELSE UNCHANGED <<iot, events>>

DeviceStart(id) ==
    /\ iot[id].exec = "QUEUED" /\ run[id] = "idle"
    /\ run' = [run EXCEPT ![id] = "running"]
    /\ Report(id, "IN_PROGRESS")
    /\ UNCHANGED <<tables, inv, now, crashes, old, fw>>

(* A controller repeats IN_PROGRESS with a new progress value.             *)
DeviceProgress(id) ==
    /\ "progress" \in Env /\ run[id] = "running"
    /\ Report(id, "IN_PROGRESS")
    /\ UNCHANGED <<tables, inv, now, crashes, old, run, fw>>

DeviceFinish(id, s) ==
    /\ run[id] = "running"
    /\ "late" \in Env \/ iot[id].exec \in ExecLive
    /\ run' = [run EXCEPT ![id] = s]
    /\ fw' = IF s = "SUCCEEDED" THEN [fw EXCEPT ![iot[id].dev] = id[1]] ELSE fw
    /\ Report(id, s)
    /\ UNCHANGED <<tables, inv, now, crashes, old>>

(* inProgressTimeoutInMinutes passed without an answer.                    *)
IotTimeout(id) ==
    /\ iot[id].exec = "IN_PROGRESS"
    /\ EndExecution(id, "TIMED_OUT")
    /\ UNCHANGED <<tables, inv, now, crashes, old, run, fw, msgs>>

ConsoleCancel(id) ==
    /\ "console" \in Env
    /\ iot[id].status = "IN_PROGRESS"
    /\ CancelJob(id)
    /\ UNCHANGED <<tables, inv, now, crashes, old, run, fw, msgs>>

----------------------------------------------------------------------------
(* Delivery                                                                *)

(* Unless messages may overtake each other, a terminal report waits for    *)
(* the IN_PROGRESS reports sent before it.                                 *)
Deliverable(m) ==
    \/ "reorder" \in Env
    \/ m.status = "IN_PROGRESS"
    \/ [job |-> m.job, status |-> "IN_PROGRESS"] \notin msgs

Consume(m) == \/ msgs' = msgs \ {m}
              \/ "dup" \in Env /\ UNCHANGED msgs

LoseMessage(m) ==
    /\ "loss" \in Env /\ m \in msgs
    /\ msgs' = msgs \ {m}
    /\ UNCHANGED <<tables, inv, now, crashes, old, iot, run, fw, events>>

LoseEvent(e) ==
    /\ "loss" \in Env /\ e \in events
    /\ events' = events \ {e}
    /\ UNCHANGED <<tables, inv, now, crashes, old, iot, run, fw, msgs>>

=============================================================================
