----------------------------- MODULE JobCreate -----------------------------
(***************************************************************************)
(* digilux_ota_job_create: POST /ota/deployments and                       *)
(* POST /ota/deployments/{jobId}/abort.                                    *)
(***************************************************************************)
EXTENDS IotJobs

UnusedConsents == {c \in ConsentIds : consents[c] = NoConsent}

----------------------------------------------------------------------------
(* POST /ota/deployments                                                   *)

(* Resolve the targets and read the package; a package that is not ACTIVE  *)
(* is refused.  A THING deployment names one device, THING_GROUP and       *)
(* THING_LIST any number of them.                                          *)
DeployStart(w, v, ds, type) ==
    /\ At(w, "idle") /\ IdLeft(v)
    /\ ds # {} /\ (type = "THING" => Cardinality(ds) = 1)
    /\ Cardinality(ds) <= Cardinality(UnusedConsents)
    /\ package[v] = "ACTIVE"
    /\ Become(w, [Idle EXCEPT !.pc = "deployPut", !.ver = v,
                              !.devs = ds, !.type = type])
    /\ UNCHANGED <<tables, now, crashes, old, awsVars>>

(* Mutant: the row starts as QUEUED, before anyone consented.              *)
DeployPutQueued(w) ==
    LET id == NewId(inv[w].ver) IN
    /\ At(w, "deployPut") /\ Usable(id)
    /\ jobs' = [jobs EXCEPT ![id] =
                  [NoRow EXCEPT !.status = "QUEUED",
                                !.type = inv[w].type, !.targets = inv[w].devs]]
    /\ Become(w, [inv[w] EXCEPT !.pc = "deployConsent", !.job = id])
    /\ UNCHANGED <<consents, pending, inventory, package, now, crashes, old, awsVars>>

(* put_item replaces whatever row has this id.                             *)
DeployPut(w) ==
    LET id == NewId(inv[w].ver) IN
    /\ At(w, "deployPut") /\ Usable(id)
    /\ jobs' = [jobs EXCEPT ![id] =
                  [NoRow EXCEPT !.status = "AWAITING_CONSENT",
                                !.type = inv[w].type, !.targets = inv[w].devs]]
    /\ Become(w, [inv[w] EXCEPT !.pc = "deployConsent", !.job = id])
    /\ UNCHANGED <<consents, pending, inventory, package, now, crashes, old, awsVars>>

(* After the record for device d the handler goes on with the others.      *)
ConsentRecordDone(w, d) ==
    IF inv[w].devs = {d} THEN Return(w)
    ELSE Become(w, [inv[w] EXCEPT !.devs = @ \ {d}])

DeployConsent(w) ==
    /\ At(w, "deployConsent")
    /\ \E d \in inv[w].devs, c \in UnusedConsents :
         /\ consents' = [consents EXCEPT ![c] =
              [status |-> "PENDING", dev |-> d, ver |-> inv[w].ver,
               deployment |-> inv[w].job, job |-> NoJob]]
         /\ ConsentRecordDone(w, d)
    /\ UNCHANGED <<jobs, pending, inventory, package, now, crashes, old, awsVars>>

(* A ClientError on one record is logged and the loop goes on.             *)
DeployConsentFails(w) ==
    /\ At(w, "deployConsent") /\ Fail
    /\ \E d \in inv[w].devs : ConsentRecordDone(w, d)
    /\ UNCHANGED <<tables, now, old, awsVars>>

----------------------------------------------------------------------------
(* POST /ota/deployments/{jobId}/abort                                     *)

(* Only SUCCEEDED is refused.                                              *)
AbortStart(w, id) ==
    /\ At(w, "idle")
    /\ jobs[id].status \notin {"NONE", "SUCCEEDED"}
    /\ Become(w, [Idle EXCEPT
         !.pc   = IF jobs[id].status = "AWAITING_CONSENT"
                  THEN "abortQuery" ELSE "abortCancel",
         !.job  = id,
         !.devs = jobs[id].targets,
         !.type = jobs[id].type])
    /\ UNCHANGED <<tables, now, crashes, old, awsVars>>

AbortQuery(w) ==
    LET found == {c \in ConsentIds : /\ consents[c].status = "PENDING"
                                     /\ consents[c].deployment = inv[w].job}
    IN  /\ At(w, "abortQuery")
        /\ Become(w, [inv[w] EXCEPT
                        !.pc = IF found = {} THEN "abortMark" ELSE "abortConsent",
                        !.conss = found])
        /\ UNCHANGED <<tables, now, crashes, old, awsVars>>

(* Mutant: only the first record is cancelled.                             *)
AbortConsentOnce(w) ==
    /\ At(w, "abortConsent")
    /\ \E c \in inv[w].conss : consents' = [consents EXCEPT ![c].status = "CANCELLED"]
    /\ Goto(w, "abortMark")
    /\ UNCHANGED <<jobs, pending, inventory, package, now, crashes, old, awsVars>>

(* The write does not look at the record again.                            *)
AbortConsent(w) ==
    /\ At(w, "abortConsent")
    /\ \E c \in inv[w].conss :
         /\ consents' = [consents EXCEPT ![c].status = "CANCELLED"]
         /\ Become(w, [inv[w] EXCEPT
                         !.pc = IF inv[w].conss = {c} THEN "abortMark" ELSE @,
                         !.conss = @ \ {c}])
    /\ UNCHANGED <<jobs, pending, inventory, package, now, crashes, old, awsVars>>

(* iotJobId is not an attribute of any row, so the row's own id is used;   *)
(* a ClientError is logged and the abort goes on.                          *)
AbortCancel(w) ==
    /\ At(w, "abortCancel")
    /\ \/ CancelJob(inv[w].job) /\ UNCHANGED crashes
       \/ Fail /\ UNCHANGED <<iot, events>>
    /\ Goto(w, "abortMark")
    /\ UNCHANGED <<tables, now, old, run, fw, msgs>>

AbortMark(w) ==
    /\ At(w, "abortMark")
    /\ SetRowStatus(inv[w].job, "CANCELLED")
    /\ IF inv[w].type = "THING" THEN Goto(w, "abortClear") ELSE Return(w)
    /\ UNCHANGED <<consents, pending, inventory, package, now, crashes, old, awsVars>>

(* Cleared whichever job it names.                                         *)
AbortClear(w) ==
    /\ At(w, "abortClear")
    /\ pending' = [d \in Devices |-> IF d \in inv[w].devs THEN NoJob ELSE pending[d]]
    /\ Return(w)
    /\ UNCHANGED <<jobs, consents, inventory, package, now, crashes, old, awsVars>>

=============================================================================
