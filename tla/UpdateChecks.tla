--------------------------- MODULE UpdateChecks ----------------------------
(***************************************************************************)
(* What the owner's app is told, and may do next: the available updates    *)
(* (digilux_ota_user_check_updates), a download link                       *)
(* (digilux_ota_user_get_download_link) and the progress of an update      *)
(* (digilux_ota_user_update_status).  The three handlers write no table,   *)
(* so each is what it answers from the tables and AWS IoT in one state.    *)
(***************************************************************************)
EXTENDS IotJobs

(* Mutant: a job the device has not started does not count.                *)
InProgressStatusesRunning == {"IN_PROGRESS"}

InProgressStatuses == {"AWAITING_CONSENT", "QUEUED", "IN_PROGRESS"}

(* What _get_active_job may find of the job that pendingJobId names: the   *)
(* status of the execution, or of the row when describe_job_execution      *)
(* fails; nothing when there is no row.                                    *)
ShownStatuses(d) ==
    LET id == pending[d] IN
    IF id = NoJob \/ jobs[id].status = "NONE" THEN {}
    ELSE {jobs[id].status} \cup
         (IF inventory[d].thing /\ iot[id].exec # "NONE" THEN {iot[id].exec} ELSE {})

(* globalInstalledVersion and the name of the package are there.           *)
Registered(d) == inventory[d].thing /\ d \in Telling

(* JOB_ACTIVE is the answer whichever of the statuses is found.            *)
JobActive(d) ==
    /\ Registered(d)
    /\ ShownStatuses(d) # {} /\ ShownStatuses(d) \subseteq InProgressStatuses

(* The version that may be offered, if any.  released are the ACTIVE       *)
(* versions that are activated and, for a device outside the canary group, *)
(* of type PROD.  A refused entitlement withholds the offer.               *)
Offer(d, released) ==
    {v \in released :
        /\ Registered(d)
        /\ ShownStatuses(d) = {} \/ \E s \in ShownStatuses(d) : s \notin InProgressStatuses
        /\ \A u \in released : u <= v
        /\ v > inventory[d].ver}

(* A link is refused while pendingJobId is set, whatever became of the job.*)
LinkGranted(d, v) ==
    /\ package[v] = "ACTIVE" /\ inventory[d].thing
    /\ v > inventory[d].installed
    /\ pending[d] = NoJob

(* The status the owner is shown: 404 without a consent and without a row. *)
ProgressShown(id) ==
    IF \E c \in ConsentIds : consents[c].job = id THEN jobs[id].status ELSE "NONE"

=============================================================================
