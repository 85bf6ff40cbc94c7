---------------------------- MODULE UserConsent ----------------------------
(***************************************************************************)
(* digilux_ota_user_consent: POST /ota/my/consent, by the device's owner.  *)
(* With a PENDING record of the administrator it answers that record, else *)
(* an acceptance starts an update of the user's own.                       *)
(***************************************************************************)
EXTENDS IotJobs

(* The device row is read once, here: pendingJobId and the installed       *)
(* version are the handler's for the rest of its life.  Without thingName  *)
(* an acceptance ends in 409.                                              *)
ConsentStart(w, d, v, answer) ==
    /\ At(w, "idle")
    /\ answer = "ACCEPTED" => inventory[d].thing /\ IdLeft(v)
    /\ Become(w, [Idle EXCEPT !.pc = "findConsent", !.dev = d, !.ver = v,
                              !.stat = answer, !.job = pending[d],
                              !.newer = v > inventory[d].ver])
    /\ UNCHANGED <<tables, now, crashes, old, awsVars>>

(* Mutant: the scan forgets the filter on PENDING.                         *)
MatchingAnyStatus(d, v) == {c \in ConsentIds : consents[c].dev = d /\ consents[c].ver = v}

Matching(d, v) == {c \in ConsentIds : /\ consents[c].status = "PENDING"
                                      /\ consents[c].dev = d
                                      /\ consents[c].ver = v}

(* The first match is taken.  Without one a decline is 404, and an         *)
(* acceptance needs a version newer than the installed one.                *)
FindConsent(w) ==
    LET found == Matching(inv[w].dev, inv[w].ver)
        declined == inv[w].stat = "DECLINED" IN
    /\ At(w, "findConsent")
    /\ \/ \E c \in found :
            Become(w, [inv[w] EXCEPT
                         !.pc = IF declined THEN "decline" ELSE "readPackage",
                         !.cons = c])
       \/ /\ found = {} /\ ~declined /\ inv[w].newer
          /\ Goto(w, "readPackage")
       \/ /\ found = {} /\ (declined \/ ~inv[w].newer)
          /\ Return(w)
    /\ UNCHANGED <<tables, now, crashes, old, awsVars>>

Decline(w) ==
    /\ At(w, "decline")
    /\ consents' = [consents EXCEPT ![inv[w].cons].status = "DECLINED"]
    /\ Return(w)
    /\ UNCHANGED <<jobs, pending, inventory, package, now, crashes, old, awsVars>>

ReadPackage(w) ==
    /\ At(w, "readPackage")
    /\ IF package[inv[w].ver] # "ACTIVE" THEN Return(w)
       ELSE Goto(w, IF inv[w].job = NoJob THEN "createIot" ELSE "checkPending")
    /\ UNCHANGED <<tables, now, crashes, old, awsVars>>

(* Mutant: only a job that is IN_PROGRESS blocks the device.               *)
CheckPendingInProgress(w) ==
    /\ At(w, "checkPending")
    /\ IF jobs[inv[w].job].status = "IN_PROGRESS" THEN Return(w) ELSE Goto(w, "clearStale")
    /\ UNCHANGED <<tables, now, crashes, old, awsVars>>

(* _is_job_still_active: a row that cannot be read counts as finished.     *)
CheckPending(w) ==
    /\ At(w, "checkPending")
    /\ \/ /\ IF jobs[inv[w].job].status \in ActiveStatus THEN Return(w)
             ELSE Goto(w, "clearStale")
          /\ UNCHANGED crashes
       \/ Fail /\ Goto(w, "clearStale")
    /\ UNCHANGED <<tables, now, old, awsVars>>

ClearStale(w) ==
    /\ At(w, "clearStale")
    /\ pending' = [pending EXCEPT ![inv[w].dev] = NoJob]
    /\ Goto(w, "createIot")
    /\ UNCHANGED <<jobs, consents, inventory, package, now, crashes, old, awsVars>>

(* Mutant: the ClientError of create_job is logged and the handler goes on. *)
CreateIotGoesOn(w) ==
    LET id == NewId(inv[w].ver) IN
    /\ At(w, "createIot") /\ Usable(id)
    /\ CreateJob(id, inv[w].dev) \/ UNCHANGED <<iot, events>>
    /\ Become(w, [inv[w] EXCEPT !.pc = "writeConsent", !.job = id])
    /\ UNCHANGED <<tables, now, crashes, old, run, fw, msgs>>

(* iot.create_job refuses an id that exists: ClientError, 500.             *)
CreateIot(w) ==
    LET id == NewId(inv[w].ver) IN
    /\ At(w, "createIot") /\ Usable(id)
    /\ IF Exists(id)
       THEN Return(w) /\ UNCHANGED <<iot, events>>
       ELSE /\ CreateJob(id, inv[w].dev)
            /\ Become(w, [inv[w] EXCEPT !.pc = "writeConsent", !.job = id])
    /\ UNCHANGED <<tables, now, crashes, old, run, fw, msgs>>

(* Mutant: pendingJobId is set before the row is put.                      *)
WriteConsentThenPending(w) ==
    /\ At(w, "writeConsent")
    /\ \E c \in ConsentIds :
         /\ c = inv[w].cons \/ (inv[w].cons = NoCons /\ consents[c] = NoConsent)
         /\ consents' = [consents EXCEPT ![c] =
              [@ EXCEPT !.status = "ACCEPTED", !.dev = inv[w].dev, !.job = inv[w].job]]
    /\ Goto(w, "setPending")
    /\ UNCHANGED <<jobs, pending, inventory, package, now, crashes, old, awsVars>>

(* The administrator's record is updated without a condition; the user's   *)
(* own update gets a record of its own.                                    *)
WriteConsent(w) ==
    /\ At(w, "writeConsent")
    /\ \/ /\ inv[w].cons # NoCons
          /\ consents' = [consents EXCEPT ![inv[w].cons] =
                            [@ EXCEPT !.status = "ACCEPTED", !.job = inv[w].job]]
       \/ /\ inv[w].cons = NoCons
          /\ \E c \in ConsentIds :
               /\ consents[c] = NoConsent
               /\ consents' = [consents EXCEPT ![c] =
                    [status |-> "ACCEPTED", dev |-> inv[w].dev, ver |-> inv[w].ver,
                     deployment |-> NoJob, job |-> inv[w].job]]
    /\ Goto(w, "putJob")
    /\ UNCHANGED <<jobs, pending, inventory, package, now, crashes, old, awsVars>>

PutJob(w) ==
    /\ At(w, "putJob")
    /\ jobs' = [jobs EXCEPT ![inv[w].job] =
                  [NoRow EXCEPT !.status = "QUEUED", !.targets = {inv[w].dev}]]
    /\ Goto(w, "setPending")
    /\ UNCHANGED <<consents, pending, inventory, package, now, crashes, old, awsVars>>

(* Mutant: only the user's own update is entered in the device row.        *)
SetPendingOwn(w) ==
    /\ At(w, "setPending")
    /\ pending' = IF \E c \in ConsentIds : /\ consents[c].job = inv[w].job
                                          /\ consents[c].deployment # NoJob
                  THEN pending ELSE [pending EXCEPT ![inv[w].dev] = inv[w].job]
    /\ Return(w)
    /\ UNCHANGED <<jobs, consents, inventory, package, now, crashes, old, awsVars>>

SetPending(w) ==
    /\ At(w, "setPending")
    /\ pending' = [pending EXCEPT ![inv[w].dev] = inv[w].job]
    /\ Return(w)
    /\ UNCHANGED <<jobs, consents, inventory, package, now, crashes, old, awsVars>>

=============================================================================
