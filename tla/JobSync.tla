------------------------------ MODULE JobSync ------------------------------
(***************************************************************************)
(* digilux_ota_job_sync: follows AWS IoT's job lifecycle events and, once  *)
(* a day, looks for jobs that nothing has moved for STALE_JOB_DAYS.        *)
(***************************************************************************)
EXTENDS IotJobs

----------------------------------------------------------------------------
(* Lifecycle events                                                        *)

(* What a "completed" event does not overwrite.  TIMED_OUT is not in it.   *)
SyncTerminal == {"SUCCEEDED", "FAILED", "CANCELLED"}

(* Mutant: the row gets AWS IoT's spelling of the status.                  *)
LifecycleReceiveRaw(w, e) ==
    /\ At(w, "idle") /\ e \in events
    /\ events' = events \ {e}
    /\ IF e.type = "canceled" /\ jobs[e.job].status \notin {"NONE", "CANCELLED"}
       THEN Become(w, [Idle EXCEPT !.pc = "syncWrite", !.job = e.job, !.stat = "CANCELED"])
       ELSE Return(w)
    /\ UNCHANGED <<tables, now, crashes, old, iot, run, fw, msgs>>

(* Read the row: an unknown job or one already settled needs nothing.      *)
LifecycleReceive(w, e) ==
    LET s == jobs[e.job].status IN
    /\ At(w, "idle") /\ e \in events
    /\ events' = events \ {e}
    /\ \/ /\ e.type = "canceled" /\ s \notin {"NONE", "CANCELLED"}
          /\ Become(w, [Idle EXCEPT !.pc = "syncWrite", !.job = e.job,
                                    !.stat = "CANCELLED"])
       \/ /\ e.type = "completed" /\ s \notin {"NONE"} \cup SyncTerminal
          /\ Become(w, [Idle EXCEPT !.pc = "describeCounts", !.job = e.job])
       \/ /\ s \in {"NONE"} \cup
                   (IF e.type = "canceled" THEN {"CANCELLED"} ELSE SyncTerminal)
          /\ Return(w)
    /\ UNCHANGED <<tables, now, crashes, old, iot, run, fw, msgs>>

(* jobProcessDetails of a job with one thing.                              *)
DescribeCounts(w) ==
    /\ At(w, "describeCounts")
    /\ \/ /\ Become(w, [inv[w] EXCEPT !.pc = "syncWrite", !.stat =
                 IF iot[inv[w].job].exec = "SUCCEEDED" THEN "SUCCEEDED" ELSE "FAILED"])
          /\ UNCHANGED crashes
       \/ Fail /\ Return(w)
    /\ UNCHANGED <<tables, now, old, awsVars>>

SyncWrite(w) ==
    /\ At(w, "syncWrite")
    /\ SetRowStatus(inv[w].job, inv[w].stat)
    /\ Return(w)
    /\ UNCHANGED <<consents, pending, inventory, package, now, crashes, old, awsVars>>

----------------------------------------------------------------------------
(* Staleness check                                                         *)

(* Mutant: the scan looks for QUEUED rows only.                            *)
StaleQueuedRows == {id \in old : jobs[id].status = "QUEUED"}

StaleRows == {id \in old : jobs[id].status \in LiveStatus}

(* The scan: the rows it finds are worked through one by one.              *)
StaleStart(w) ==
    /\ At(w, "idle") /\ StaleRows # {}
    /\ Become(w, [Idle EXCEPT !.pc = "staleDescribe", !.ids = StaleRows])
    /\ UNCHANGED <<tables, now, crashes, old, awsVars>>

(* Done with the row id.                                                   *)
StaleNext(w, id) ==
    IF inv[w].ids = {id} THEN Return(w)
    ELSE Become(w, [Idle EXCEPT !.pc = "staleDescribe", !.ids = inv[w].ids \ {id}])

StaleDescribe(w) ==
    /\ At(w, "staleDescribe")
    /\ \E id \in inv[w].ids :
         \/ /\ Become(w, [inv[w] EXCEPT
                  !.pc = IF iot[id].status = "IN_PROGRESS"
                         THEN "staleCancel" ELSE "staleWrite",
                  !.job = id,
                  !.stat = IF iot[id].status = "COMPLETED"
                           THEN "SUCCEEDED" ELSE "CANCELLED"])
            /\ UNCHANGED crashes
         \/ Fail /\ StaleNext(w, id)
    /\ UNCHANGED <<tables, now, old, awsVars>>

(* A ClientError is logged; the row becomes CANCELLED all the same.        *)
StaleCancel(w) ==
    /\ At(w, "staleCancel")
    /\ \/ CancelJob(inv[w].job) /\ UNCHANGED crashes
       \/ Fail /\ UNCHANGED <<iot, events>>
    /\ Goto(w, "staleWrite")
    /\ UNCHANGED <<tables, now, old, run, fw, msgs>>

StaleWrite(w) ==
    /\ At(w, "staleWrite")
    /\ SetRowStatus(inv[w].job, inv[w].stat)
    /\ StaleNext(w, inv[w].job)
    /\ UNCHANGED <<consents, pending, inventory, package, now, crashes, old, awsVars>>

=============================================================================
