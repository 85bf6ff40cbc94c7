--------------------------- MODULE PackageRecall ---------------------------
(***************************************************************************)
(* The recall of digilux_ota_package_activate: the package stops being     *)
(* offered and its queued jobs are cancelled.                              *)
(***************************************************************************)
EXTENDS IotJobs

(* Only an ACTIVE package can be recalled.                                 *)
RecallStart(w, v) ==
    /\ At(w, "idle") /\ package[v] = "ACTIVE"
    /\ Become(w, [Idle EXCEPT !.pc = "recallMark", !.ver = v])
    /\ UNCHANGED <<tables, now, crashes, old, awsVars>>

RecallMark(w) ==
    /\ At(w, "recallMark")
    /\ package' = [package EXCEPT ![inv[w].ver] = "RECALLED"]
    /\ Goto(w, "recallScan")
    /\ UNCHANGED <<jobs, consents, pending, inventory, now, crashes, old, awsVars>>

(* IN_PROGRESS rows are only reported to the caller.                       *)
QueuedRows(v) == {id \in JobIds : id[1] = v /\ jobs[id].status = "QUEUED"}

RecallScan(w) ==
    /\ At(w, "recallScan")
    /\ LET found == QueuedRows(inv[w].ver) IN
       IF found = {} THEN Return(w)
       ELSE Become(w, [inv[w] EXCEPT !.pc = "recallCancel", !.ids = found])
    /\ UNCHANGED <<tables, now, crashes, old, awsVars>>

(* A ClientError is logged; the row becomes CANCELLED all the same.        *)
RecallCancel(w) ==
    /\ At(w, "recallCancel")
    /\ \E id \in inv[w].ids :
         /\ \/ CancelJob(id) /\ UNCHANGED crashes
            \/ Fail /\ UNCHANGED <<iot, events>>
         /\ Become(w, [inv[w] EXCEPT !.pc = "recallWrite", !.job = id])
    /\ UNCHANGED <<tables, now, old, run, fw, msgs>>

(* Mutant: the handler returns after the first job.                        *)
RecallWriteOnce(w) ==
    /\ At(w, "recallWrite")
    /\ SetRowStatus(inv[w].job, "CANCELLED")
    /\ Return(w)
    /\ UNCHANGED <<consents, pending, inventory, package, now, crashes, old, awsVars>>

(* The write does not look at the row again; one that fails is logged.     *)
RecallWrite(w) ==
    /\ At(w, "recallWrite")
    /\ \/ SetRowStatus(inv[w].job, "CANCELLED") /\ UNCHANGED crashes
       \/ Fail /\ UNCHANGED jobs
    /\ IF inv[w].ids = {inv[w].job} THEN Return(w)
       ELSE Become(w, [inv[w] EXCEPT !.pc = "recallCancel", !.job = NoJob,
                                     !.ids = @ \ {inv[w].job}])
    /\ UNCHANGED <<consents, pending, inventory, package, now, old, awsVars>>

=============================================================================
