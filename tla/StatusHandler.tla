--------------------------- MODULE StatusHandler ---------------------------
(***************************************************************************)
(* digilux_ota_status_handler: one invocation per message on               *)
(* iot/device/+/ota/status.                                                *)
(***************************************************************************)
EXTENDS IotJobs

(* Mirror the report into the job execution; a refusal, or an error of the *)
(* call, is logged.                                                        *)
StatusReceive(w, m) ==
    /\ At(w, "idle") /\ m \in msgs /\ Deliverable(m)
    /\ Consume(m)
    /\ \/ UpdateExecution(m.job, m.status) /\ UNCHANGED crashes
       \/ Fail /\ UNCHANGED <<iot, events>>
    /\ Become(w, [Idle EXCEPT !.pc = "aggregate", !.job = m.job,
                              !.stat = m.status, !.dev = iot[m.job].dev])
    /\ UNCHANGED <<tables, now, old, run, fw>>

(* Mutant: only FAILED counts as a failure.                                *)
AggregateFailedOnly(row, d, s) ==
    LET all == ({s} \cup {row.reported[e] : e \in Devices \ {d}}) \ {"NONE"} IN
    IF "FAILED" \in all THEN "FAILED"
    ELSE IF "IN_PROGRESS" \in all THEN "IN_PROGRESS" ELSE "SUCCEEDED"

(* The device statuses of row with d's replaced by s, folded into one.     *)
Aggregate(row, d, s) ==
    LET all == ({s} \cup {row.reported[e] : e \in Devices \ {d}}) \ {"NONE"} IN
    IF all \cap {"FAILED", "REJECTED", "TIMED_OUT"} # {} THEN "FAILED"
    ELSE IF "IN_PROGRESS" \in all THEN "IN_PROGRESS" ELSE "SUCCEEDED"

(* A row that cannot be read counts as IN_PROGRESS.                        *)
ReadAggregate(w) ==
    /\ At(w, "aggregate")
    /\ \/ /\ Become(w, [inv[w] EXCEPT !.pc = "updateRow", !.agg =
                          Aggregate(jobs[inv[w].job], inv[w].dev, inv[w].stat)])
          /\ UNCHANGED crashes
       \/ Fail /\ Become(w, [inv[w] EXCEPT !.pc = "updateRow", !.agg = "IN_PROGRESS"])
    /\ UNCHANGED <<tables, now, old, awsVars>>

(* Mutant: update_item makes the row that is not there yet.                *)
UpdateRowUpserts(w) ==
    /\ At(w, "updateRow")
    /\ jobs' = [jobs EXCEPT ![inv[w].job] =
                  [status |-> inv[w].agg, type |-> @.type, targets |-> @.targets,
                   reported |-> [@.reported EXCEPT ![inv[w].dev] = inv[w].stat]]]
    /\ IF inv[w].stat = "IN_PROGRESS" THEN Return(w) ELSE Goto(w, "clearDevice")
    /\ UNCHANGED <<consents, pending, inventory, package, now, crashes, old, awsVars>>

(* Without a row the path deviceStatuses.<thing> is invalid: the exception *)
(* ends the handler and the message is not tried again.                    *)
UpdateRow(w) ==
    /\ At(w, "updateRow")
    /\ IF jobs[inv[w].job].status = "NONE"
       THEN Return(w) /\ UNCHANGED jobs
       ELSE /\ jobs' = [jobs EXCEPT ![inv[w].job] =
                 [status |-> inv[w].agg, type |-> @.type, targets |-> @.targets,
                  reported |-> [@.reported EXCEPT ![inv[w].dev] = inv[w].stat]]]
            /\ IF inv[w].stat = "IN_PROGRESS" THEN Return(w) ELSE Goto(w, "clearDevice")
    /\ UNCHANGED <<consents, pending, inventory, package, now, crashes, old, awsVars>>

(* Mutant: only a success clears pendingJobId.                             *)
ClearDeviceOnSuccess(w) ==
    /\ At(w, "clearDevice")
    /\ IF inv[w].stat = "SUCCEEDED"
       THEN /\ pending' = [pending EXCEPT ![inv[w].dev] = NoJob]
            /\ inventory' = [inventory EXCEPT ![inv[w].dev].installed = inv[w].job[1]]
       ELSE UNCHANGED <<pending, inventory>>
    /\ Goto(w, "markTerminal")
    /\ UNCHANGED <<jobs, consents, package, now, crashes, old, awsVars>>

(* A terminal report clears pendingJobId, whichever job it names.  Setting *)
(* installedVersions.<package> raises when the map is not there, and the   *)
(* exception leaves pendingJobId as it is.                                 *)
ClearDevice(w) ==
    LET d == inv[w].dev
        succeeded == inv[w].stat = "SUCCEEDED" IN
    /\ At(w, "clearDevice")
    /\ IF succeeded /\ d \notin MapReady
       THEN Return(w) /\ UNCHANGED <<pending, inventory>>
       ELSE /\ pending' = [pending EXCEPT ![d] = NoJob]
            /\ inventory' = IF succeeded
                            THEN [inventory EXCEPT ![d].installed = inv[w].job[1]]
                            ELSE inventory
            /\ Goto(w, "markTerminal")
    /\ UNCHANGED <<jobs, consents, package, now, crashes, old, awsVars>>

MarkTerminal(w) ==
    /\ At(w, "markTerminal")
    /\ SetRowStatus(inv[w].job,
                    IF inv[w].stat = "REJECTED" THEN "FAILED" ELSE inv[w].stat)
    /\ Return(w)
    /\ UNCHANGED <<consents, pending, inventory, package, now, crashes, old, awsVars>>

=============================================================================
