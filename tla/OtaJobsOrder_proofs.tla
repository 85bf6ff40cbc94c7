------------------------ MODULE OtaJobsOrder_proofs ------------------------
(***************************************************************************)
(* What OtaJobs keeps when the environment leaves one thing out: successes *)
(* without the daily check, and the promises to owners and administrators  *)
(* when one request is handled at a time.                                  *)
(***************************************************************************)
EXTENDS OtaJobs_proofs

StalePcs   == {"staleDescribe", "staleCancel", "staleWrite"}
DeployPcs  == {"deployPut", "deployConsent"}
RecallPcs  == {"recallMark", "recallScan", "recallCancel", "recallWrite"}
RequestPcs == DeployPcs \cup ConsentPcs \cup AbortPcs \cup RecallPcs

(* The calls of the four kinds of handler.                                 *)
DeployCall(w)  == DeployPut(w) \/ DeployConsent(w) \/ DeployConsentFails(w)
AbortCall(w)   == \/ AbortQuery(w) \/ AbortConsent(w) \/ AbortCancel(w)
                  \/ AbortMark(w) \/ AbortClear(w)
ConsentCall(w) == \/ FindConsent(w) \/ Decline(w) \/ ReadPackage(w) \/ CheckPending(w)
                  \/ ClearStale(w) \/ CreateIot(w) \/ WriteConsent(w) \/ PutJob(w)
                  \/ SetPending(w)
RecallCall(w)  == RecallMark(w) \/ RecallScan(w) \/ RecallCancel(w) \/ RecallWrite(w)
RequestCall(w) == DeployCall(w) \/ AbortCall(w) \/ ConsentCall(w) \/ RecallCall(w)
StatusCall(w)  == ReadAggregate(w) \/ UpdateRow(w) \/ ClearDevice(w) \/ MarkTerminal(w)
SyncCall(w)    == DescribeCounts(w) \/ SyncWrite(w)
StaleCall(w)   == StaleDescribe(w) \/ StaleCancel(w) \/ StaleWrite(w)

Others(w) == \A u \in Workers \ {w} : inv'[u] = inv[u]
Same(w)   == /\ inv'[w].dev = inv[w].dev /\ inv'[w].ver = inv[w].ver
             /\ inv'[w].stat = inv[w].stat

USE DEF ConsentPcs, AbortPcs, CreatedPcs, StatusPcs, SyncPcs

----------------------------------------------------------------------------
(* Calls to AWS IoT                                                        *)

(* What the calls other than create_job do to the jobs: none appears or    *)
(* changes its device, and only the execution of k moves, to s or CANCELED.*)
IotKeeps(k, s) ==
    \A id \in JobIds :
        /\ Exists(id)' <=> Exists(id)
        /\ iot'[id].dev = iot[id].dev
        /\ \/ iot'[id].exec = iot[id].exec
           \/ id = k /\ iot'[id].exec \in {"CANCELED", s}

LEMMA CancelKeeps ==
    ASSUME Backed, NEW id \in JobIds, CancelJob(id) \/ UNCHANGED <<iot, events>>, NEW s
    PROVE  IotKeeps(id, s)
<1>1. iot \in [JobIds -> IotJob]
  BY DEF Backed, TypeOK
<1>2. CASE UNCHANGED iot
  BY <1>2 DEF IotKeeps, Exists
<1>3. CASE iot[id].status = "IN_PROGRESS"
            /\ iot' = [iot EXCEPT ![id] =
                      [status |-> "CANCELED", dev |-> @.dev,
                       exec |-> IF @.exec = "QUEUED" THEN "CANCELED" ELSE @.exec]]
  BY <1>1, <1>3 DEF IotKeeps, Exists
<1> QED
  BY <1>2, <1>3 DEF CancelJob

LEMMA EndKeeps ==
    ASSUME Backed, NEW id \in JobIds, NEW s, EndExecution(id, s)
    PROVE  IotKeeps(id, s)
<1>1. iot \in [JobIds -> IotJob]
  BY DEF Backed, TypeOK
<1> QED
  BY <1>1 DEF EndExecution, IotKeeps, Exists

LEMMA UpdateKeeps ==
    ASSUME Backed, NEW id \in JobIds, NEW s, UpdateExecution(id, s)
    PROVE  IotKeeps(id, s)
<1>1. iot \in [JobIds -> IotJob]
  BY DEF Backed, TypeOK
<1>2. CASE UNCHANGED iot
  BY <1>2 DEF IotKeeps, Exists
<1>3. CASE EndExecution(id, s)
  BY <1>3, EndKeeps
<1>4. CASE iot' = [iot EXCEPT ![id] = [@ EXCEPT !.exec = s]]
  BY <1>1, <1>4 DEF IotKeeps, Exists, IotJob
<1> QED
  BY <1>2, <1>3, <1>4 DEF UpdateExecution

----------------------------------------------------------------------------
(* Where the handlers go                                                   *)

LEMMA BecomesAt ==
    ASSUME Backed, NEW w \in Workers, NEW r, Become(w, r)
    PROVE  inv'[w] = r /\ Others(w)
  BY MovesTo DEF Others

LEMMA GoesTo ==
    ASSUME Backed, NEW w \in Workers, NEW p, Goto(w, p)
    PROVE  /\ inv'[w] = [inv[w] EXCEPT !.pc = p] /\ Others(w)
           /\ inv'[w].pc = p
           /\ Same(w) /\ inv'[w].job = inv[w].job /\ inv'[w].cons = inv[w].cons
           /\ inv'[w].ids = inv[w].ids /\ inv'[w].conss = inv[w].conss
<1>1. inv'[w] = [inv[w] EXCEPT !.pc = p] /\ Others(w)
  BY BecomesAt DEF Goto
<1>2. inv[w] \in Invocation
  BY Moving
<1> QED
  BY <1>1, <1>2 DEF Invocation, Same

LEMMA GoesHome ==
    ASSUME Backed, NEW w \in Workers, Return(w)
    PROVE  inv'[w] = Idle /\ inv'[w].pc = "idle" /\ Others(w)
  BY BecomesAt DEF Return, Idle

(* The local variables after the calls that change more than pc.           *)
LEMMA DeployTurn ==
    ASSUME Backed, NEW w \in Workers, DeployCall(w)
    PROVE  /\ Others(w) /\ inv[w].pc \in DeployPcs
           /\ \/ inv'[w].pc = "idle"
              \/ /\ inv'[w].pc = "deployConsent" /\ inv'[w].ver = inv[w].ver
                 /\ IF DeployPut(w) THEN inv'[w].job = NewId(inv[w].ver)
                                    ELSE inv'[w].job = inv[w].job
<1>1. PICK i \in Invocation : i = inv[w]
  BY Moving
<1>2. ~(At(w, "deployConsent") /\ DeployPut(w))
  BY DEF At, DeployPut
<1>3. CASE DeployPut(w)
  <2>1. Become(w, [i EXCEPT !.pc = "deployConsent", !.job = NewId(i.ver)])
    BY <1>1, <1>3 DEF DeployPut
  <2>2. inv'[w] = [i EXCEPT !.pc = "deployConsent", !.job = NewId(i.ver)] /\ Others(w)
    BY <2>1, BecomesAt
  <2> QED
    BY <1>1, <1>3, <2>2 DEF Invocation, DeployPcs, DeployPut, At
<1>4. ASSUME NEW d, At(w, "deployConsent"), ConsentRecordDone(w, d)
      PROVE  /\ Others(w)
             /\ \/ inv'[w].pc = "idle"
                \/ /\ inv'[w].pc = "deployConsent" /\ inv'[w].ver = i.ver
                   /\ inv'[w].job = i.job
  <2>1. CASE Return(w)
    BY <2>1, GoesHome
  <2>2. CASE Become(w, [i EXCEPT !.devs = @ \ {d}])
    <3>1. inv'[w] = [i EXCEPT !.devs = @ \ {d}] /\ Others(w)
      BY <2>2, BecomesAt
    <3> QED
      BY <1>1, <1>4, <3>1 DEF At, Invocation
  <2> QED
    BY <1>1, <1>4, <2>1, <2>2 DEF ConsentRecordDone
<1>5. CASE DeployConsent(w) \/ DeployConsentFails(w)
  <2>1. At(w, "deployConsent") /\ \E d : ConsentRecordDone(w, d)
    BY <1>5 DEF DeployConsent, DeployConsentFails
  <2> QED
    BY <1>1, <1>2, <1>4, <2>1 DEF DeployPcs, At
<1> QED
  BY <1>3, <1>5 DEF DeployCall

LEMMA AbortTurn ==
    ASSUME Backed, NEW w \in Workers, AbortCall(w)
    PROVE  /\ Others(w) /\ inv[w].pc \in AbortPcs
           /\ \/ inv'[w].pc = "idle"
              \/ inv'[w].pc \in AbortPcs \ {"abortQuery"} /\ inv'[w].job = inv[w].job
           /\ inv'[w].pc = "abortConsent" =>
                 \/ /\ AbortQuery(w)
                    /\ inv'[w].conss = {c \in ConsentIds : /\ consents[c].status = "PENDING"
                                                           /\ consents[c].deployment = inv[w].job}
                 \/ /\ AbortConsent(w)
                    /\ \E c \in inv[w].conss :
                          /\ consents' = [consents EXCEPT ![c].status = "CANCELLED"]
                          /\ inv'[w].conss = inv[w].conss \ {c}
           /\ inv'[w].pc = "abortMark" /\ AbortQuery(w) =>
                 {c \in ConsentIds : /\ consents[c].status = "PENDING"
                                     /\ consents[c].deployment = inv[w].job} = {}
           /\ inv'[w].pc = "abortMark" /\ AbortConsent(w) =>
                 \E c : /\ inv[w].conss = {c}
                        /\ consents' = [consents EXCEPT ![c].status = "CANCELLED"]
           /\ inv'[w].pc = "abortMark" =>
                 AbortQuery(w) \/ AbortConsent(w) \/ inv[w].pc = "abortCancel"
           /\ inv'[w].pc # "abortCancel"
<1>1. PICK i \in Invocation : i = inv[w]
  BY Moving
<1>2. PICK found : found = {c \in ConsentIds : /\ consents[c].status = "PENDING"
                                              /\ consents[c].deployment = i.job}
  OBVIOUS
<1>3. CASE AbortQuery(w)
  <2>1. Become(w, [i EXCEPT !.pc = IF found = {} THEN "abortMark" ELSE "abortConsent",
                            !.conss = found])
    BY <1>1, <1>2, <1>3 DEF AbortQuery
  <2>2. /\ inv'[w] = [i EXCEPT !.pc = IF found = {} THEN "abortMark" ELSE "abortConsent",
                               !.conss = found]
        /\ Others(w)
    BY <2>1, BecomesAt
  <2>3. /\ inv'[w].pc = IF found = {} THEN "abortMark" ELSE "abortConsent"
        /\ inv'[w].conss = found /\ inv'[w].job = i.job
    BY <2>2 DEF Invocation
  <2>4. ~AbortConsent(w) /\ i.pc = "abortQuery"
    BY <1>1, <1>3 DEF AbortConsent, AbortQuery, At
  <2> QED
    BY <1>1, <1>2, <1>3, <2>2, <2>3, <2>4
<1>4. CASE AbortConsent(w)
  <2>1. PICK c \in i.conss :
          /\ consents' = [consents EXCEPT ![c].status = "CANCELLED"]
          /\ Become(w, [i EXCEPT !.pc = IF i.conss = {c} THEN "abortMark" ELSE @,
                                 !.conss = @ \ {c}])
    BY <1>1, <1>4 DEF AbortConsent
  <2>2. /\ inv'[w] = [i EXCEPT !.pc = IF i.conss = {c} THEN "abortMark" ELSE @,
                               !.conss = @ \ {c}]
        /\ Others(w)
    BY <2>1, BecomesAt
  <2>3. i.pc = "abortConsent" /\ ~AbortQuery(w)
    BY <1>1, <1>4 DEF AbortConsent, AbortQuery, At
  <2>4. /\ inv'[w].pc = IF i.conss = {c} THEN "abortMark" ELSE "abortConsent"
        /\ inv'[w].conss = i.conss \ {c} /\ inv'[w].job = i.job
    BY <2>2, <2>3 DEF Invocation
  <2> QED
    BY <1>1, <1>4, <2>1, <2>2, <2>3, <2>4
<1>5. CASE AbortCancel(w)
  <2>1. i.pc = "abortCancel" /\ Goto(w, "abortMark")
    BY <1>1, <1>5 DEF AbortCancel, At
  <2>2. ~AbortQuery(w) /\ ~AbortConsent(w)
    BY <1>1, <2>1 DEF AbortQuery, AbortConsent, At
  <2>3. Others(w) /\ inv'[w].pc = "abortMark" /\ inv'[w].job = i.job
    BY <1>1, <2>1, GoesTo
  <2> QED
    BY <1>1, <2>1, <2>2, <2>3
<1>6. CASE AbortMark(w) \/ AbortClear(w)
  <2>1. i.pc \in {"abortMark", "abortClear"} /\ (Goto(w, "abortClear") \/ Return(w))
    BY <1>1, <1>6 DEF AbortMark, AbortClear, At
  <2>2. CASE Return(w)
    BY <1>1, <2>1, <2>2, GoesHome
  <2>3. CASE Goto(w, "abortClear")
    <3>1. Others(w) /\ inv'[w].pc = "abortClear" /\ inv'[w].job = i.job
      BY <1>1, <2>3, GoesTo
    <3> QED
      BY <1>1, <2>1, <3>1
  <2> QED
    BY <2>1, <2>2, <2>3
<1> QED
  BY <1>3, <1>4, <1>5, <1>6 DEF AbortCall

(* What an acceptance knows of its own from the first read to the last.    *)
Answering == {"decline", "readPackage", "checkPending", "clearStale", "createIot",
              "writeConsent", "putJob", "setPending"}

LEMMA ConsentTurn ==
    ASSUME Backed, NEW w \in Workers, ConsentCall(w)
    PROVE  /\ Others(w) /\ inv[w].pc \in ConsentPcs
           /\ \/ inv'[w].pc = "idle"
              \/ inv'[w].pc \in Answering /\ Same(w)
           /\ inv'[w].pc \in Answering =>
                 \/ /\ FindConsent(w) /\ inv'[w].job = inv[w].job
                    /\ inv'[w].pc \in {"decline", "readPackage"}
                    /\ \/ \E c \in Matching(inv[w].dev, inv[w].ver) : inv'[w].cons = c
                       \/ /\ inv'[w].cons = inv[w].cons /\ inv'[w].pc = "readPackage"
                          /\ Matching(inv[w].dev, inv[w].ver) = {}
                 \/ inv'[w].cons = inv[w].cons /\ inv[w].pc \in Answering \ {"decline"}
           /\ inv'[w].pc = "writeConsent" =>
                 CreateIot(w) /\ inv'[w].job = NewId(inv[w].ver) /\ ~Exists(NewId(inv[w].ver))
           /\ inv'[w].pc \in Answering \ {"writeConsent"} => inv'[w].job = inv[w].job
           /\ inv'[w].pc \in {"checkPending", "createIot"} /\ ReadPackage(w) =>
                 package[inv[w].ver] = "ACTIVE"
           /\ inv'[w].pc \in {"checkPending", "createIot"} =>
                 ReadPackage(w) \/ inv[w].pc = "clearStale"
           /\ inv'[w].pc = "clearStale" => inv[w].pc = "checkPending"
           /\ inv'[w].pc = "putJob" => WriteConsent(w)
           /\ inv'[w].pc = "setPending" => PutJob(w)
<1>1. PICK i \in Invocation : i = inv[w]
  BY Moving
<1>2. CASE FindConsent(w)
  <2>0. i.pc = "findConsent"
    BY <1>1, <1>2 DEF FindConsent, At
  <2>1. ASSUME NEW c \in Matching(i.dev, i.ver), NEW p \in {"decline", "readPackage"},
               Become(w, [i EXCEPT !.pc = p, !.cons = c])
        PROVE  /\ Others(w) /\ inv'[w].pc = p /\ inv'[w].cons = c
               /\ inv'[w].job = i.job /\ Same(w)
    <3>1. inv'[w] = [i EXCEPT !.pc = p, !.cons = c] /\ Others(w)
      BY <2>1, BecomesAt
    <3> QED
      BY <1>1, <3>1 DEF Invocation, Same
  <2>2. CASE Return(w)
    BY <1>1, <2>0, <2>2, GoesHome DEF Answering
  <2>3. CASE Goto(w, "readPackage") /\ Matching(i.dev, i.ver) = {}
    <3>1. /\ Others(w) /\ inv'[w].pc = "readPackage" /\ Same(w)
          /\ inv'[w].job = i.job /\ inv'[w].cons = i.cons
      BY <1>1, <2>3, GoesTo
    <3> QED
      BY <1>1, <1>2, <2>0, <2>3, <3>1 DEF Answering
  <2>4. CASE \E c \in Matching(i.dev, i.ver), p \in {"decline", "readPackage"} :
               Become(w, [i EXCEPT !.pc = p, !.cons = c])
    <3>1. /\ Others(w) /\ inv'[w].pc \in {"decline", "readPackage"}
          /\ \E c \in Matching(i.dev, i.ver) : inv'[w].cons = c
          /\ inv'[w].job = i.job /\ Same(w)
      BY <2>1, <2>4
    <3> QED
      BY <1>1, <1>2, <2>0, <3>1 DEF Answering
  <2> QED
    BY <1>1, <1>2, <2>2, <2>3, <2>4 DEF FindConsent
<1>3. CASE CreateIot(w)
  <2>1. i.pc = "createIot"
    BY <1>1, <1>3 DEF CreateIot, At
  <2>2. CASE Return(w)
    BY <1>1, <2>1, <2>2, GoesHome DEF Answering
  <2>3. CASE /\ ~Exists(NewId(i.ver))
             /\ Become(w, [i EXCEPT !.pc = "writeConsent", !.job = NewId(i.ver)])
    <3>1. inv'[w] = [i EXCEPT !.pc = "writeConsent", !.job = NewId(i.ver)] /\ Others(w)
      BY <2>3, BecomesAt
    <3>2. /\ inv'[w].pc = "writeConsent" /\ inv'[w].job = NewId(i.ver)
          /\ inv'[w].cons = i.cons /\ Same(w)
      BY <1>1, <3>1 DEF Invocation, Same
    <3> QED
      BY <1>1, <1>3, <2>1, <2>3, <3>1, <3>2 DEF Answering
  <2> QED
    BY <1>1, <1>3, <2>2, <2>3 DEF CreateIot
<1>4. ASSUME NEW p \in Answering, Goto(w, p)
      PROVE  /\ Others(w) /\ inv'[w].pc = p /\ inv'[w].cons = i.cons
             /\ inv'[w].job = i.job /\ Same(w)
  BY <1>1, <1>4, GoesTo DEF Same
<1>5. CASE ReadPackage(w)
  <2>1. i.pc = "readPackage"
    BY <1>1, <1>5 DEF ReadPackage, At
  <2>2. CASE Return(w)
    BY <1>1, <2>1, <2>2, GoesHome DEF Answering
  <2>3. CASE /\ package[i.ver] = "ACTIVE"
             /\ \E p \in {"createIot", "checkPending"} : Goto(w, p)
    <3>1. PICK p \in {"createIot", "checkPending"} : Goto(w, p)
      BY <2>3
    <3>2. p \in Answering
      BY DEF Answering
    <3> QED
      BY <1>1, <1>4, <1>5, <2>1, <2>3, <3>1, <3>2 DEF Answering
  <2> QED
    BY <1>1, <1>5, <2>2, <2>3 DEF ReadPackage
<1>6. CASE Decline(w)
  BY <1>1, <1>6, GoesHome DEF Decline, At, Answering
<1>7. CASE CheckPending(w)
  BY <1>1, <1>4, <1>7, GoesHome DEF CheckPending, At, Answering
<1>8. CASE ClearStale(w)
  BY <1>1, <1>4, <1>8 DEF ClearStale, ReadPackage, At, Answering
<1>9. CASE WriteConsent(w)
  BY <1>1, <1>4, <1>9 DEF WriteConsent, At, Answering
<1>10. CASE PutJob(w)
  BY <1>1, <1>4, <1>10 DEF PutJob, At, Answering
<1>11. CASE SetPending(w)
  BY <1>1, <1>11, GoesHome DEF SetPending, At, Answering
<1> QED
  BY <1>2, <1>3, <1>5, <1>6, <1>7, <1>8, <1>9, <1>10, <1>11 DEF ConsentCall

LEMMA RecallTurn ==
    ASSUME Backed, NEW w \in Workers, RecallCall(w)
    PROVE  /\ Others(w) /\ inv[w].pc \in RecallPcs
           /\ \/ inv'[w].pc = "idle"
              \/ inv'[w].pc \in RecallPcs \ {"recallMark"} /\ inv'[w].ver = inv[w].ver
           /\ inv'[w].pc = "recallScan" => RecallMark(w)
           /\ RecallMark(w) => inv'[w].pc = "recallScan"
           /\ RecallScan(w) => \/ inv'[w].pc = "idle" /\ QueuedRows(inv[w].ver) = {}
                               \/ /\ inv'[w].pc = "recallCancel"
                                  /\ inv'[w].ids = QueuedRows(inv[w].ver)
           /\ RecallCancel(w) => /\ inv'[w].pc = "recallWrite" /\ inv'[w].ids = inv[w].ids
                                 /\ inv'[w].job \in inv[w].ids
           /\ RecallWrite(w) => \/ inv'[w].pc = "idle" /\ inv[w].ids = {inv[w].job}
                                \/ /\ inv'[w].pc = "recallCancel"
                                   /\ inv'[w].ids = inv[w].ids \ {inv[w].job}
<1>1. PICK i \in Invocation : i = inv[w]
  BY Moving
<1>2. /\ RecallMark(w) => i.pc = "recallMark"
      /\ RecallScan(w) => i.pc = "recallScan"
      /\ RecallCancel(w) => i.pc = "recallCancel"
      /\ RecallWrite(w) => i.pc = "recallWrite"
  BY <1>1 DEF RecallMark, RecallScan, RecallCancel, RecallWrite, At
<1>3. CASE RecallMark(w)
  <2>1. Others(w) /\ inv'[w].pc = "recallScan" /\ Same(w)
    BY <1>3, GoesTo DEF RecallMark
  <2> QED
    BY <1>1, <1>2, <1>3, <2>1 DEF RecallPcs, Same
<1>4. CASE RecallScan(w)
  <2>1. CASE Return(w) /\ QueuedRows(i.ver) = {}
    BY <1>1, <1>2, <1>4, <2>1, GoesHome DEF RecallPcs
  <2>2. CASE Become(w, [i EXCEPT !.pc = "recallCancel", !.ids = QueuedRows(i.ver)])
    <3>1. inv'[w] = [i EXCEPT !.pc = "recallCancel", !.ids = QueuedRows(i.ver)] /\ Others(w)
      BY <2>2, BecomesAt
    <3>2. /\ inv'[w].pc = "recallCancel" /\ inv'[w].ids = QueuedRows(i.ver)
          /\ inv'[w].ver = i.ver
      BY <3>1 DEF Invocation
    <3> QED
      BY <1>1, <1>2, <1>4, <3>1, <3>2 DEF RecallPcs
  <2> QED
    BY <1>1, <1>4, <2>1, <2>2 DEF RecallScan
<1>5. CASE RecallCancel(w)
  <2>1. PICK id \in i.ids : Become(w, [i EXCEPT !.pc = "recallWrite", !.job = id])
    BY <1>1, <1>5 DEF RecallCancel
  <2>2. inv'[w] = [i EXCEPT !.pc = "recallWrite", !.job = id] /\ Others(w)
    BY <2>1, BecomesAt
  <2>3. /\ inv'[w].pc = "recallWrite" /\ inv'[w].ids = i.ids /\ inv'[w].job = id
        /\ inv'[w].ver = i.ver
    BY <2>2 DEF Invocation
  <2> QED
    BY <1>1, <1>2, <1>5, <2>2, <2>3 DEF RecallPcs
<1>6. CASE RecallWrite(w)
  <2>1. CASE Return(w) /\ i.ids = {i.job}
    BY <1>1, <1>2, <1>6, <2>1, GoesHome DEF RecallPcs
  <2>2. CASE Become(w, [i EXCEPT !.pc = "recallCancel", !.job = NoJob, !.ids = @ \ {i.job}])
    <3>1. inv'[w] = [i EXCEPT !.pc = "recallCancel", !.job = NoJob, !.ids = @ \ {i.job}]
          /\ Others(w)
      BY <2>2, BecomesAt
    <3>2. /\ inv'[w].pc = "recallCancel" /\ inv'[w].ids = i.ids \ {i.job}
          /\ inv'[w].ver = i.ver
      BY <3>1 DEF Invocation
    <3> QED
      BY <1>1, <1>2, <1>6, <3>1, <3>2 DEF RecallPcs
  <2> QED
    BY <1>1, <1>6, <2>1, <2>2 DEF RecallWrite
<1> QED
  BY <1>3, <1>4, <1>5, <1>6 DEF RecallCall

----------------------------------------------------------------------------
(* What a request writes outside the rows it makes                         *)

(* A row is made, put into the queue or cancelled; no report, device or    *)
(* clock is touched, and an execution is created or cancelled.             *)
RequestWrites(w) ==
    /\ JobsKept /\ (CreateIot(w) \/ \A id \in JobIds : Exists(id)' <=> Exists(id))
    /\ UNCHANGED <<inventory, run, fw, msgs, now, old>>
    /\ \A id \in JobIds : jobs'[id].status \in {jobs[id].status, "AWAITING_CONSENT",
                                                "QUEUED", "CANCELLED"}
    /\ \A id \in JobIds : iot'[id].exec \in {iot[id].exec, "QUEUED", "CANCELED"}

LEMMA RowSet ==
    ASSUME Backed, NEW id, NEW s, SetRowStatus(id, s)
    PROVE  \A j \in JobIds : jobs'[j].status = IF j = id THEN s ELSE jobs[j].status
<1>1. \A j \in JobIds : jobs[j] \in JobRow
  BY DEF Backed, TypeOK
<1>2. \A j \in JobIds : jobs'[j] = IF j = id THEN [jobs[j] EXCEPT !.status = s] ELSE jobs[j]
  BY DEF SetRowStatus, Backed, TypeOK
<1> QED
  BY <1>1, <1>2 DEF JobRow

LEMMA RequestCallWrites ==
    ASSUME Backed, NEW w \in Workers, RequestCall(w)
    PROVE  RequestWrites(w)
<1>1. jobs \in [JobIds -> JobRow] /\ iot \in [JobIds -> IotJob]
  BY DEF Backed, TypeOK
<1>2. PICK i \in Invocation : i = inv[w] /\ HandlerTyped(i)
  BY Moving
<1>3. CASE UNCHANGED <<jobs, iot, inventory, run, fw, msgs, now, old>>
  BY <1>3 DEF RequestWrites, JobsKept, Exists
<1>4. ASSUME NEW k, NEW row \in {"AWAITING_CONSENT", "QUEUED", "CANCELLED"},
             \A j \in JobIds : jobs'[j].status = IF j = k THEN row ELSE jobs[j].status,
             UNCHANGED <<iot, inventory, run, fw, msgs, now, old>>
      PROVE  RequestWrites(w)
  BY <1>4 DEF RequestWrites, JobsKept, Exists
<1>6. ASSUME NEW k \in JobIds, CancelJob(k) \/ UNCHANGED <<iot, events>>,
             UNCHANGED <<jobs, inventory, run, fw, msgs, now, old>>
      PROVE  RequestWrites(w)
  <2>1. IotKeeps(k, "CANCELED")
    BY <1>6, CancelKeeps
  <2> QED
    BY <1>6, <2>1 DEF RequestWrites, JobsKept, IotKeeps
<1>7. CASE DeployCall(w)
  <2>1. [NoRow EXCEPT !.status = "AWAITING_CONSENT", !.type = i.type,
                      !.targets = i.devs].status = "AWAITING_CONSENT"
    BY DEF NoRow
  <2>2. CASE DeployPut(w)
    <3>1. \A j \in JobIds : jobs'[j].status \in {jobs[j].status, "AWAITING_CONSENT"}
      BY <1>1, <1>2, <2>1, <2>2 DEF DeployPut
    <3>2. UNCHANGED <<iot, inventory, run, fw, msgs, now, old>>
      BY <2>2 DEF DeployPut, awsVars
    <3> QED
      BY <3>1, <3>2 DEF RequestWrites, JobsKept, Exists
  <2> QED
    BY <1>3, <1>7, <2>2 DEF DeployCall, DeployConsent, DeployConsentFails, tables, awsVars
<1>8. CASE AbortCall(w)
  <2>1. CASE AbortCancel(w)
    <3>1. i.job \in JobIds
      BY <1>2, <2>1 DEF AbortCancel, At, HandlerTyped
    <3> QED
      BY <1>2, <1>6, <2>1, <3>1 DEF AbortCancel, tables
  <2>2. CASE AbortMark(w)
    <3>1. \A j \in JobIds : jobs'[j].status = IF j = i.job THEN "CANCELLED" ELSE jobs[j].status
      BY <1>2, <2>2, RowSet DEF AbortMark
    <3>2. UNCHANGED <<iot, inventory, run, fw, msgs, now, old>>
      BY <2>2 DEF AbortMark, awsVars
    <3> QED
      BY <1>4, <3>1, <3>2
  <2> QED
    BY <1>3, <1>8, <2>1, <2>2 DEF AbortCall, AbortQuery, AbortConsent, AbortClear, tables, awsVars
<1>9. CASE ConsentCall(w)
  <2>1. CASE CreateIot(w)
    <3>1. CASE \E k : ~Exists(k) /\ iot' = [iot EXCEPT ![k] =
                        [status |-> "IN_PROGRESS", dev |-> i.dev, exec |-> "QUEUED"]]
      BY <1>1, <2>1, <3>1 DEF CreateIot, RequestWrites, JobsKept, Exists, tables
    <3> QED
      BY <1>2, <1>3, <2>1, <3>1 DEF CreateIot, CreateJob, tables
  <2>2. CASE PutJob(w)
    <3>1. [NoRow EXCEPT !.status = "QUEUED", !.targets = {i.dev}].status = "QUEUED"
      BY DEF NoRow
    <3>2. \A j \in JobIds : jobs'[j].status \in {jobs[j].status, "QUEUED"}
      BY <1>1, <1>2, <2>2, <3>1 DEF PutJob
    <3>3. UNCHANGED <<iot, inventory, run, fw, msgs, now, old>>
      BY <2>2 DEF PutJob, awsVars
    <3> QED
      BY <3>2, <3>3 DEF RequestWrites, JobsKept, Exists
  <2> QED
    BY <1>3, <1>9, <2>1, <2>2
    DEF ConsentCall, FindConsent, Decline, ReadPackage, CheckPending, ClearStale,
        WriteConsent, SetPending, tables, awsVars
<1>10. CASE RecallCall(w)
  <2>1. CASE RecallCancel(w)
    <3>1. PICK k \in i.ids : CancelJob(k) \/ UNCHANGED <<iot, events>>
      BY <1>2, <2>1 DEF RecallCancel
    <3>2. k \in JobIds
      BY DEF Invocation
    <3> QED
      BY <1>6, <2>1, <3>1, <3>2 DEF RecallCancel, tables
  <2>2. CASE RecallWrite(w)
    BY <1>3, <1>4, <2>2, RowSet DEF RecallWrite, awsVars
  <2> QED
    BY <1>3, <1>10, <2>1, <2>2 DEF RecallCall, RecallMark, RecallScan, tables, awsVars
<1> QED
  BY <1>7, <1>8, <1>9, <1>10 DEF RequestCall

(* A request starts: the tables are as they were.                          *)
LEMMA RequestStarts ==
    ASSUME Backed, NEW w \in Workers, Request(w)
    PROVE  /\ UNCHANGED <<tables, now, crashes, old, awsVars>> /\ Others(w) /\ Quiet
           /\ At(w, "idle")
           /\ inv'[w].pc \in {"deployPut", "findConsent", "abortQuery", "abortCancel",
                              "recallMark"}
           /\ inv'[w].pc = "findConsent" => inv'[w].cons = NoCons
           /\ inv'[w].pc = "abortCancel" =>
                 jobs[inv'[w].job].status # "AWAITING_CONSENT" /\ inv'[w].job \in JobIds
<1>1. ASSUME NEW v \in Versions, NEW ds \in SUBSET Devices, NEW type \in {"THING", "GROUP"},
             DeployStart(w, v, ds, type)
      PROVE  Others(w) /\ inv'[w].pc = "deployPut"
  <2>1. PICK r : r = [Idle EXCEPT !.pc = "deployPut", !.ver = v, !.devs = ds, !.type = type]
    OBVIOUS
  <2>2. r.pc = "deployPut"
    BY <2>1 DEF Idle
  <2> QED
    BY <1>1, <2>1, <2>2, BecomesAt DEF DeployStart
<1>2. ASSUME NEW d \in Devices, NEW v \in Versions, NEW a, ConsentStart(w, d, v, a)
      PROVE  Others(w) /\ inv'[w].pc = "findConsent" /\ inv'[w].cons = NoCons
  <2>1. PICK r : r = [Idle EXCEPT !.pc = "findConsent", !.dev = d, !.ver = v, !.stat = a,
                                  !.job = pending[d], !.newer = v > inventory[d].ver]
    OBVIOUS
  <2>2. r.pc = "findConsent" /\ r.cons = NoCons
    BY <2>1 DEF Idle
  <2> QED
    BY <1>2, <2>1, <2>2, BecomesAt DEF ConsentStart
<1>3. ASSUME NEW id \in JobIds, AbortStart(w, id)
      PROVE  /\ Others(w) /\ inv'[w].job = id
             /\ inv'[w].pc = IF jobs[id].status = "AWAITING_CONSENT"
                             THEN "abortQuery" ELSE "abortCancel"
  <2>1. PICK r : r = [Idle EXCEPT !.pc = IF jobs[id].status = "AWAITING_CONSENT"
                                         THEN "abortQuery" ELSE "abortCancel",
                                  !.job = id, !.devs = jobs[id].targets,
                                  !.type = jobs[id].type]
    OBVIOUS
  <2>2. r.job = id /\ r.pc = IF jobs[id].status = "AWAITING_CONSENT"
                             THEN "abortQuery" ELSE "abortCancel"
    BY <2>1 DEF Idle
  <2> QED
    BY <1>3, <2>1, <2>2, BecomesAt DEF AbortStart
<1>4. ASSUME NEW v \in Versions, RecallStart(w, v)
      PROVE  Others(w) /\ inv'[w].pc = "recallMark"
  <2>1. PICK r : r = [Idle EXCEPT !.pc = "recallMark", !.ver = v]
    OBVIOUS
  <2>2. r.pc = "recallMark"
    BY <2>1 DEF Idle
  <2> QED
    BY <1>4, <2>1, <2>2, BecomesAt DEF RecallStart
<1>5. CASE Deploy(w)
  BY <1>1, <1>5 DEF Deploy, DeployStart
<1>6. CASE Accept(w) \/ DeclineRequest(w)
  BY <1>2, <1>6 DEF Accept, DeclineRequest, ConsentStart
<1>7. CASE Abort(w)
  BY <1>3, <1>7 DEF Abort, AbortStart
<1>8. CASE Recall(w)
  BY <1>4, <1>8 DEF Recall, RecallStart
<1> QED
  BY <1>5, <1>6, <1>7, <1>8 DEF Request

LEMMA RequestTurn ==
    ASSUME Backed, NEW w \in Workers, RequestCall(w)
    PROVE  Others(w) /\ inv[w].pc \in RequestPcs /\ inv'[w].pc \in RequestPcs \cup {"idle"}
<1>1. "deployConsent" \in RequestPcs /\ Answering \subseteq RequestPcs
      /\ RecallPcs \subseteq RequestPcs /\ AbortPcs \subseteq RequestPcs
      /\ ConsentPcs \subseteq RequestPcs /\ DeployPcs \subseteq RequestPcs
  BY DEF RequestPcs, Answering, RecallPcs, DeployPcs
<1>2. CASE DeployCall(w)
  BY <1>1, <1>2, DeployTurn
<1>3. CASE AbortCall(w)
  BY <1>1, <1>3, AbortTurn
<1>4. CASE ConsentCall(w)
  BY <1>1, <1>4, ConsentTurn
<1>5. CASE RecallCall(w)
  BY <1>1, <1>5, RecallTurn
<1> QED
  BY <1>2, <1>3, <1>4, <1>5 DEF RequestCall

----------------------------------------------------------------------------
(* Successes                                                               *)

(* What a handler passes on was reported by the device, or asked of the    *)
(* execution that the report ended.  Only the daily check guesses.         *)
Truthful(i) ==
    /\ i.pc \notin StalePcs
    /\ i.pc \in StatusPcs \cup SyncPcs /\ i.stat = "SUCCEEDED" => run[i.job] = "SUCCEEDED"
    /\ i.pc = "updateRow" /\ i.agg = "SUCCEEDED" => run[i.job] = "SUCCEEDED"

RealInv ==
    /\ Backed /\ SuccessIsReal
    /\ \A w \in Workers : Truthful(inv[w])
    /\ \A m \in msgs : m.status = "SUCCEEDED" => run[m.job] = "SUCCEEDED"
    /\ \A id \in JobIds : iot[id].exec = "SUCCEEDED" => run[id] = "SUCCEEDED"

RunKept == \A id \in JobIds : run[id] = "SUCCEEDED" => run'[id] = "SUCCEEDED"

LEMMA RealStep ==
    ASSUME RealInv, Backed', RunKept,
           \A id \in JobIds : jobs'[id].status = "SUCCEEDED" =>
               jobs[id].status = "SUCCEEDED" \/ run'[id] = "SUCCEEDED",
           \A d \in Devices :
               \/ inventory'[d].installed = inventory[d].installed
               \/ \E id \in JobIds : /\ id[1] = inventory'[d].installed
                                     /\ iot[id].dev = d /\ run[id] = "SUCCEEDED",
           JobsKept,
           \A id \in JobIds : iot'[id].exec = "SUCCEEDED" =>
               iot[id].exec = "SUCCEEDED" \/ run'[id] = "SUCCEEDED",
           \A w \in Workers : inv'[w] = inv[w] \/ Truthful(inv[w])',
           \A m \in msgs' : m \in msgs \/ (m.status = "SUCCEEDED" => run'[m.job] = "SUCCEEDED")
    PROVE  RealInv'
<1>1. \A id \in JobIds : run[id] = "SUCCEEDED" => Exists(id)
  BY DEF RealInv, Backed, IotConsistent
<1>2. SuccessIsReal'
  <2>1. \A id \in JobIds : jobs'[id].status = "SUCCEEDED" => run'[id] = "SUCCEEDED"
    BY DEF RealInv, SuccessIsReal, RunKept
  <2>2. \A d \in Devices : inventory'[d].installed # 0 =>
          \E id \in JobIds : /\ id[1] = inventory'[d].installed
                             /\ iot[id].dev = d /\ run[id] = "SUCCEEDED"
    BY DEF RealInv, SuccessIsReal
  <2>3. \A d \in Devices : inventory'[d].installed # 0 =>
          \E id \in JobIds : /\ id[1] = inventory'[d].installed
                             /\ iot'[id].dev = d /\ run'[id] = "SUCCEEDED"
    BY <1>1, <2>2 DEF RunKept, JobsKept
  <2> QED
    BY <2>1, <2>3 DEF SuccessIsReal
<1>3. ASSUME NEW w \in Workers PROVE Truthful(inv[w])'
  <2>1. CASE inv'[w] = inv[w]
    <3>1. PICK i \in Invocation : i = inv[w] /\ HandlerTyped(i) /\ Truthful(i)
      BY Moving DEF RealInv
    <3>2. Truthful(i)'
      BY <3>1 DEF Truthful, HandlerTyped, RunKept
    <3> QED
      BY <2>1, <3>1, <3>2 DEF Truthful
  <2> QED
    BY <2>1
<1>4. \A m \in msgs' : m.status = "SUCCEEDED" => run'[m.job] = "SUCCEEDED"
  <2>1. \A m \in msgs : m.job \in JobIds
    BY DEF RealInv, Backed, TypeOK, Message
  <2> QED
    BY <2>1 DEF RealInv, RunKept
<1>5. \A id \in JobIds : iot'[id].exec = "SUCCEEDED" => run'[id] = "SUCCEEDED"
  BY DEF RealInv, RunKept
<1> QED
  BY <1>2, <1>3, <1>4, <1>5 DEF RealInv

(* A handler that is not told of a report says nothing of one.             *)
LEMMA Untold ==
    ASSUME NEW i, i.pc \in RequestPcs \cup {"idle"}
    PROVE  Truthful(i)'
  BY DEF Truthful, RequestPcs, StalePcs, DeployPcs, RecallPcs

(* The row of a job says SUCCEEDED only when the report being handled does.*)
LEMMA AggregateSucceeds ==
    ASSUME NEW row, NEW d, NEW s \in ReportStatus, Aggregate(row, d, s) = "SUCCEEDED"
    PROVE  s = "SUCCEEDED"
<1>1. PICK all : all = ({s} \cup {row.reported[e] : e \in Devices \ {d}}) \ {"NONE"}
  OBVIOUS
<1>2. s \in all
  BY <1>1 DEF ReportStatus
<1>3. /\ all \cap {"FAILED", "REJECTED", "TIMED_OUT"} = {} /\ "IN_PROGRESS" \notin all
  BY <1>1 DEF Aggregate
<1> QED
  BY <1>2, <1>3 DEF ReportStatus

LEMMA RequestReal ==
    ASSUME RealInv, Backed', NEW w \in Workers, Request(w) \/ RequestCall(w) \/ Crash(w)
    PROVE  RealInv'
<1>0. Backed
  BY DEF RealInv
<1>1. CASE RequestCall(w)
  <2>1. RequestWrites(w) /\ Others(w) /\ inv'[w].pc \in RequestPcs \cup {"idle"}
    BY <1>0, <1>1, RequestCallWrites, RequestTurn
  <2>2. \A u \in Workers : inv'[u] = inv[u] \/ Truthful(inv[u])'
    BY <2>1, Untold DEF Others, Truthful
  <2> QED
    BY <2>1, <2>2, RealStep DEF RequestWrites, RunKept
<1>2. CASE Request(w)
  <2>1. /\ UNCHANGED <<tables, now, crashes, old, awsVars>> /\ Others(w)
        /\ inv'[w].pc \in RequestPcs
    BY <1>0, <1>2, RequestStarts DEF RequestPcs, DeployPcs, RecallPcs
  <2>2. \A u \in Workers : inv'[u] = inv[u] \/ Truthful(inv[u])'
    BY <2>1, Untold DEF Others, Truthful
  <2> QED
    BY <2>1, <2>2, RealStep DEF tables, awsVars, RunKept, JobsKept, Exists
<1>3. CASE Crash(w)
  <2>1. Others(w) /\ inv'[w].pc = "idle" /\ UNCHANGED <<tables, now, old, iot, run, fw>>
    BY <1>0, <1>3, GoesHome DEF Crash
  <2>2. \A u \in Workers : inv'[u] = inv[u] \/ Truthful(inv[u])'
    BY <2>1, Untold DEF Others, Truthful
  <2>3. PICK i \in Invocation : i = inv[w] /\ Truthful(i)
    BY <1>0, Moving DEF RealInv
  <2>4. \A m \in msgs' : m \in msgs \/ (m.status = "SUCCEEDED" => run[m.job] = "SUCCEEDED")
    BY <1>3, <2>3 DEF Crash, Redeliver, Truthful
  <2> QED
    BY <2>1, <2>2, <2>4, RealStep DEF tables, RunKept, JobsKept, Exists
<1> QED
  BY <1>1, <1>2, <1>3

(* One report: what it says is passed on to the execution and the row.     *)
LEMMA StatusReal ==
    ASSUME RealInv, Backed', NEW w \in Workers, DeliverMessage(w) \/ StatusCall(w)
    PROVE  RealInv'
<1>0. Backed
  BY DEF RealInv
<1>1. PICK i \in Invocation : i = inv[w] /\ HandlerTyped(i) /\ HandlerBacked(i) /\ Truthful(i)
  BY <1>0, Moving DEF RealInv
<1>2. ASSUME NEW r, Become(w, r), Truthful(r)'
      PROVE  \A u \in Workers : inv'[u] = inv[u] \/ Truthful(inv[u])'
  BY <1>0, <1>2, BecomesAt DEF Others, Truthful
<1>3. Truthful(Idle)'
  BY DEF Truthful, Idle, StalePcs
<1>4. ASSUME NEW m \in msgs, StatusReceive(w, m)
      PROVE  RealInv'
  <2>1. m.job \in JobIds /\ (m.status = "SUCCEEDED" => run[m.job] = "SUCCEEDED")
    BY <1>0 DEF RealInv, Backed, TypeOK, Message
  <2>2. UNCHANGED <<tables, run>> /\ msgs' \subseteq msgs /\ IotKeeps(m.job, m.status)
    BY <1>0, <1>4, <2>1, UpdateKeeps, CancelKeeps DEF StatusReceive, Consume
  <2>3. PICK r : r = [Idle EXCEPT !.pc = "aggregate", !.job = m.job, !.stat = m.status,
                                  !.dev = iot[m.job].dev]
    OBVIOUS
  <2>4. r.pc = "aggregate" /\ r.job = m.job /\ r.stat = m.status
    BY <2>3 DEF Idle
  <2>5. Truthful(r)'
    BY <2>1, <2>2, <2>4 DEF Truthful, StalePcs
  <2>6. \A u \in Workers : inv'[u] = inv[u] \/ Truthful(inv[u])'
    BY <1>2, <1>4, <2>3, <2>5 DEF StatusReceive
  <2> QED
    BY <2>1, <2>2, <2>6, RealStep DEF tables, RunKept, JobsKept, IotKeeps
<1>5. CASE ReadAggregate(w)
  <2>0. i.pc = "aggregate" /\ i.stat \in ReportStatus /\ UNCHANGED <<tables, awsVars>>
    BY <1>1, <1>5 DEF ReadAggregate, At, HandlerTyped
  <2>1. PICK a \in {Aggregate(jobs[i.job], i.dev, i.stat), "IN_PROGRESS"} :
               Become(w, [i EXCEPT !.pc = "updateRow", !.agg = a])
    BY <1>1, <1>5 DEF ReadAggregate
  <2>5. a = "SUCCEEDED" => i.stat = "SUCCEEDED"
    BY <2>0, AggregateSucceeds
  <2>2. PICK r : r = [i EXCEPT !.pc = "updateRow", !.agg = a]
    OBVIOUS
  <2>3. r.pc = "updateRow" /\ r.job = i.job /\ r.stat = i.stat /\ r.agg = a
    BY <2>2 DEF Invocation
  <2>4. Truthful(r)'
    BY <1>1, <2>0, <2>3, <2>5 DEF Truthful, StalePcs, awsVars
  <2> QED
    BY <1>2, <2>0, <2>1, <2>2, <2>4, RealStep DEF tables, awsVars, RunKept, JobsKept, Exists
<1>6. ASSUME NEW p \in {"clearDevice", "markTerminal"}, Goto(w, p), i.pc \in StatusPcs,
             UNCHANGED run
      PROVE  \A u \in Workers : inv'[u] = inv[u] \/ Truthful(inv[u])'
  <2>1. Others(w) /\ inv'[w].pc = p /\ inv'[w].job = i.job /\ inv'[w].stat = i.stat
    BY <1>0, <1>1, <1>6, GoesTo DEF Same
  <2>2. Truthful(inv[w])'
    BY <1>1, <1>6, <2>1 DEF Truthful, StalePcs
  <2> QED
    BY <2>1, <2>2 DEF Others
<1>7. CASE UpdateRow(w)
  <2>0. i.pc = "updateRow" /\ UNCHANGED <<inventory, awsVars>>
    BY <1>1, <1>7 DEF UpdateRow, At
  <2>1. \A u \in Workers : inv'[u] = inv[u] \/ Truthful(inv[u])'
    BY <1>2, <1>3, <1>6, <1>7, <2>0 DEF UpdateRow, Return, awsVars
  <2>2. \A j \in JobIds : jobs'[j].status = jobs[j].status
                            \/ (j = i.job /\ jobs'[j].status = i.agg)
    BY <1>0, <1>1, <1>7 DEF UpdateRow, Backed, TypeOK
  <2>3. \A j \in JobIds : jobs'[j].status = "SUCCEEDED" =>
                            jobs[j].status = "SUCCEEDED" \/ run[j] = "SUCCEEDED"
    BY <1>1, <2>0, <2>2 DEF Truthful
  <2> QED
    BY <2>0, <2>1, <2>3, RealStep DEF awsVars, RunKept, JobsKept, Exists
<1>8. CASE ClearDevice(w)
  <2>0. i.pc = "clearDevice" /\ UNCHANGED <<jobs, awsVars>> /\ i.job \in JobIds
        /\ i.dev \in Devices /\ iot[i.job].dev = i.dev
    BY <1>1, <1>8 DEF ClearDevice, At, HandlerTyped, HandlerBacked
  <2>1. \A u \in Workers : inv'[u] = inv[u] \/ Truthful(inv[u])'
    BY <1>2, <1>3, <1>6, <1>8, <2>0 DEF ClearDevice, Return, awsVars
  <2>2. \/ UNCHANGED inventory
        \/ /\ i.stat = "SUCCEEDED"
           /\ inventory' = [inventory EXCEPT ![i.dev].installed = i.job[1]]
    BY <1>1, <1>8 DEF ClearDevice
  <2>3. inventory \in [Devices -> Inventory]
    BY <1>0 DEF Backed, TypeOK
  <2>4. \A d \in Devices :
           \/ inventory'[d].installed = inventory[d].installed
           \/ i.stat = "SUCCEEDED" /\ d = i.dev /\ inventory'[d].installed = i.job[1]
    BY <2>2, <2>3 DEF Inventory
  <2>5. i.stat = "SUCCEEDED" => run[i.job] = "SUCCEEDED"
    BY <1>1, <2>0 DEF Truthful
  <2> QED
    BY <2>0, <2>1, <2>4, <2>5, RealStep DEF awsVars, RunKept, JobsKept, Exists
<1>9. CASE MarkTerminal(w)
  <2>0. i.pc = "markTerminal" /\ UNCHANGED <<inventory, awsVars>>
    BY <1>1, <1>9 DEF MarkTerminal, At
  <2>1. \A u \in Workers : inv'[u] = inv[u] \/ Truthful(inv[u])'
    BY <1>2, <1>3, <1>9 DEF MarkTerminal, Return
  <2>2. PICK s : SetRowStatus(i.job, s) /\ (s = "SUCCEEDED" => i.stat = "SUCCEEDED")
    BY <1>1, <1>9 DEF MarkTerminal
  <2>3. \A j \in JobIds : jobs'[j].status = "SUCCEEDED" =>
                            jobs[j].status = "SUCCEEDED" \/ run[j] = "SUCCEEDED"
    BY <1>0, <1>1, <2>0, <2>2, RowSet DEF Truthful
  <2> QED
    BY <2>0, <2>1, <2>3, RealStep DEF awsVars, RunKept, JobsKept, Exists
<1> QED
  BY <1>4, <1>5, <1>7, <1>8, <1>9 DEF DeliverMessage, StatusCall

(* A lifecycle event: the execution is asked.                              *)
LEMMA SyncReal ==
    ASSUME RealInv, Backed', NEW w \in Workers, DeliverEvent(w) \/ SyncCall(w)
    PROVE  RealInv'
<1>0. Backed
  BY DEF RealInv
<1>1. PICK i \in Invocation : i = inv[w] /\ HandlerTyped(i) /\ Truthful(i)
  BY <1>0, Moving DEF RealInv
<1>2. ASSUME NEW r, Become(w, r), Truthful(r)'
      PROVE  \A u \in Workers : inv'[u] = inv[u] \/ Truthful(inv[u])'
  BY <1>0, <1>2, BecomesAt DEF Others, Truthful
<1>3. Truthful(Idle)'
  BY DEF Truthful, Idle, StalePcs
<1>4. ASSUME NEW e \in events, LifecycleReceive(w, e)
      PROVE  RealInv'
  <2>1. Truthful([Idle EXCEPT !.pc = "syncWrite", !.job = e.job, !.stat = "CANCELLED"])'
    <3>1. PICK r : r = [Idle EXCEPT !.pc = "syncWrite", !.job = e.job, !.stat = "CANCELLED"]
      OBVIOUS
    <3>2. r.pc = "syncWrite" /\ r.stat = "CANCELLED"
      BY <3>1 DEF Idle
    <3> QED
      BY <3>1, <3>2 DEF Truthful, StalePcs
  <2>2. Truthful([Idle EXCEPT !.pc = "describeCounts", !.job = e.job])'
    <3>1. PICK r : r = [Idle EXCEPT !.pc = "describeCounts", !.job = e.job]
      OBVIOUS
    <3>2. r.pc = "describeCounts" /\ r.stat = "NONE"
      BY <3>1 DEF Idle
    <3> QED
      BY <3>1, <3>2 DEF Truthful, StalePcs
  <2>3. \E r : Become(w, r) /\ Truthful(r)'
    BY <1>3, <1>4, <2>1, <2>2 DEF LifecycleReceive, Return
  <2>4. \A u \in Workers : inv'[u] = inv[u] \/ Truthful(inv[u])'
    BY <1>2, <2>3
  <2> QED
    BY <1>4, <2>4, RealStep DEF LifecycleReceive, tables, RunKept, JobsKept, Exists
<1>5. CASE DescribeCounts(w)
  <2>0. i.pc = "describeCounts" /\ UNCHANGED <<tables, awsVars>> /\ i.job \in JobIds
    BY <1>1, <1>5 DEF DescribeCounts, At, HandlerTyped
  <2>1. ASSUME NEW s \in {"SUCCEEDED", "FAILED"}, s = "SUCCEEDED" => run[i.job] = "SUCCEEDED",
               Become(w, [i EXCEPT !.pc = "syncWrite", !.stat = s])
        PROVE  \A u \in Workers : inv'[u] = inv[u] \/ Truthful(inv[u])'
    <3>1. PICK r : r = [i EXCEPT !.pc = "syncWrite", !.stat = s]
      OBVIOUS
    <3>2. r.pc = "syncWrite" /\ r.job = i.job /\ r.stat = s
      BY <3>1 DEF Invocation
    <3>3. Truthful(r)'
      BY <2>0, <2>1, <3>2 DEF Truthful, StalePcs, awsVars
    <3> QED
      BY <1>2, <2>1, <3>1, <3>3
  <2>2. iot[i.job].exec = "SUCCEEDED" => run[i.job] = "SUCCEEDED"
    BY <2>0 DEF RealInv
  <2>3. \/ Return(w)
        \/ \E s \in {"SUCCEEDED", "FAILED"} :
              /\ s = "SUCCEEDED" => run[i.job] = "SUCCEEDED"
              /\ Become(w, [i EXCEPT !.pc = "syncWrite", !.stat = s])
    BY <1>1, <1>5, <2>2 DEF DescribeCounts
  <2>4. \A u \in Workers : inv'[u] = inv[u] \/ Truthful(inv[u])'
    BY <1>2, <1>3, <2>1, <2>3 DEF Return
  <2> QED
    BY <2>0, <2>4, RealStep DEF tables, awsVars, RunKept, JobsKept, Exists
<1>6. CASE SyncWrite(w)
  <2>0. i.pc = "syncWrite" /\ UNCHANGED <<inventory, awsVars>>
    BY <1>1, <1>6 DEF SyncWrite, At
  <2>1. \A u \in Workers : inv'[u] = inv[u] \/ Truthful(inv[u])'
    BY <1>2, <1>3, <1>6 DEF SyncWrite, Return
  <2>2. \A j \in JobIds : jobs'[j].status = "SUCCEEDED" =>
                            jobs[j].status = "SUCCEEDED" \/ run[j] = "SUCCEEDED"
    BY <1>0, <1>1, <1>6, <2>0, RowSet DEF SyncWrite, Truthful
  <2> QED
    BY <2>0, <2>1, <2>2, RealStep DEF awsVars, RunKept, JobsKept, Exists
<1> QED
  BY <1>4, <1>5, <1>6 DEF DeliverEvent, SyncCall

(* A device that reports has done what it says.                            *)
LEMMA ReportKeeps ==
    ASSUME Backed, NEW id \in JobIds, NEW s, Report(id, s)
    PROVE  /\ msgs' = msgs \cup {[job |-> id, status |-> s]}
           /\ IotKeeps(id, s)
<1>1. CASE UNCHANGED iot
  BY <1>1 DEF Report, IotKeeps, Exists
<1>2. CASE UpdateExecution(id, s)
  BY <1>2, UpdateKeeps DEF Report
<1> QED
  BY <1>1, <1>2 DEF Report

LEMMA DeviceReal ==
    ASSUME RealInv, Backed', Device
    PROVE  RealInv'
<1>0. Backed /\ run \in [JobIds -> RunStatus] /\ inventory \in [Devices -> Inventory]
  BY DEF RealInv, Backed, TypeOK
<1>1. ASSUME NEW d \in Devices, Register(d) PROVE RealInv'
  <2>1. \A e \in Devices : inventory'[e].installed = inventory[e].installed
    BY <1>0, <1>1 DEF Register, Inventory
  <2> QED
    BY <1>1, <2>1, RealStep DEF Register, awsVars, RunKept, JobsKept, Exists
<1>2. ASSUME NEW id \in JobIds, DeviceStart(id) \/ DeviceProgress(id) PROVE RealInv'
  <2>1. Report(id, "IN_PROGRESS") /\ UNCHANGED <<tables, inv>>
    BY <1>2 DEF DeviceStart, DeviceProgress
  <2>2. RunKept
    BY <1>0, <1>2 DEF DeviceStart, DeviceProgress, RunKept
  <2>3. /\ msgs' = msgs \cup {[job |-> id, status |-> "IN_PROGRESS"]}
        /\ IotKeeps(id, "IN_PROGRESS")
    BY <1>0, <2>1, ReportKeeps
  <2> QED
    BY <2>1, <2>2, <2>3, RealStep DEF tables, JobsKept, IotKeeps
<1>3. ASSUME NEW id \in JobIds, NEW s \in Reports, DeviceFinish(id, s) PROVE RealInv'
  <2>1. Report(id, s) /\ UNCHANGED <<tables, inv>> /\ run' = [run EXCEPT ![id] = s]
        /\ run[id] = "running"
    BY <1>3 DEF DeviceFinish
  <2>2. RunKept /\ run'[id] = s
    BY <1>0, <2>1 DEF RunKept
  <2>3. /\ msgs' = msgs \cup {[job |-> id, status |-> s]}
        /\ IotKeeps(id, s)
    BY <1>0, <2>1, ReportKeeps
  <2> QED
    BY <2>1, <2>2, <2>3, RealStep DEF tables, JobsKept, IotKeeps
<1> QED
  BY <1>1, <1>2, <1>3 DEF Device

LEMMA OutsideReal ==
    ASSUME RealInv, Backed', Aws \/ Tick \/ WeekPasses \/ UNCHANGED vars
    PROVE  RealInv'
<1>0. Backed
  BY DEF RealInv
<1>1. ASSUME NEW id \in JobIds, IotTimeout(id) \/ ConsoleCancel(id) PROVE RealInv'
  <2>1. IotKeeps(id, "TIMED_OUT") /\ UNCHANGED <<tables, inv, run, msgs>>
    BY <1>0, <1>1, EndKeeps, CancelKeeps DEF IotTimeout, ConsoleCancel
  <2> QED
    BY <2>1, RealStep DEF tables, RunKept, JobsKept, IotKeeps
<1>2. CASE \/ \E m \in msgs : LoseMessage(m)
           \/ \E e \in events : LoseEvent(e)
           \/ Tick \/ WeekPasses \/ UNCHANGED vars
  <2>1. UNCHANGED <<tables, inv, run, iot>> /\ msgs' \subseteq msgs
    BY <1>2 DEF LoseMessage, LoseEvent, Tick, WeekPasses, vars, tables, awsVars
  <2> QED
    BY <2>1, RealStep DEF tables, RunKept, JobsKept, Exists
<1> QED
  BY <1>1, <1>2 DEF Aws

LEMMA Calls ==
    ASSUME NEW w \in Workers, Continue(w)
    PROVE  RequestCall(w) \/ StatusCall(w) \/ SyncCall(w) \/ StaleCall(w)
  BY DEF Continue, RequestCall, StatusCall, SyncCall, StaleCall, DeployCall, AbortCall,
     ConsentCall, RecallCall

LEMMA RealNext ==
    ASSUME RealInv, "stale" \notin Ops, [Next]_vars
    PROVE  RealInv'
<1>1. Backed'
  BY BackedNext DEF RealInv
<1>2. ASSUME NEW w \in Workers PROVE ~StaleCheck(w) /\ ~StaleCall(w)
  <2>1. inv[w].pc \notin StalePcs
    BY DEF RealInv, Truthful
  <2> QED
    BY <2>1 DEF StaleCheck, StaleCall, StaleDescribe, StaleCancel, StaleWrite, At, StalePcs
<1>3. ASSUME NEW w \in Workers,
             \/ Request(w) \/ StaleCheck(w) \/ DeliverMessage(w) \/ DeliverEvent(w)
             \/ Continue(w) \/ Crash(w)
      PROVE  RealInv'
  BY <1>1, <1>2, <1>3, Calls, RequestReal, StatusReal, SyncReal
<1>4. CASE Device
  BY <1>1, <1>4, DeviceReal
<1>5. CASE Aws \/ Tick \/ WeekPasses \/ UNCHANGED vars
  BY <1>1, <1>5, OutsideReal
<1> QED
  BY <1>3, <1>4, <1>5 DEF Next

LEMMA RealInit ==
    ASSUME Init
    PROVE  RealInv
<1>1. /\ \A id \in JobIds : jobs[id].status = "NONE" /\ iot[id].exec = "NONE"
      /\ \A d \in Devices : inventory[d].installed = 0
  BY DEF Init, NoRow, NoIot
<1>2. \A w \in Workers : Truthful(inv[w])
  BY DEF Init, Idle, Truthful, StalePcs
<1> QED
  BY <1>1, <1>2, BackedInit DEF Init, RealInv, SuccessIsReal

(* While the daily check does not run, a row says SUCCEEDED and the        *)
(* inventory names an installed version only for an update that its device *)
(* did report as done: with messages lost, repeated, late or out of order, *)
(* executions timed out or cancelled, ids reused and handlers that die.    *)
THEOREM SuccessReported == "stale" \notin Ops => (Spec => []SuccessIsReal)
<1> SUFFICES ASSUME "stale" \notin Ops PROVE Spec => []SuccessIsReal
  OBVIOUS
<1>1. Init => RealInv
  BY RealInit
<1>2. RealInv /\ [Next]_vars => RealInv'
  BY RealNext
<1>3. RealInv => SuccessIsReal
  BY DEF RealInv
<1> QED
  BY <1>1, <1>2, <1>3, PTL DEF Spec

----------------------------------------------------------------------------
(* One request at a time                                                   *)

WritingPcs == {"updateRow", "markTerminal", "syncWrite", "staleWrite"}

(* The handlers of reports and events and the daily check write no consent *)
(* and no package, and put no row into the queue.                          *)
FollowUp(w) == \/ StaleCheck(w) \/ DeliverMessage(w) \/ DeliverEvent(w) \/ Crash(w)
               \/ StatusCall(w) \/ SyncCall(w) \/ StaleCall(w)

FollowUpWrites(w) ==
    /\ Others(w)
    /\ inv'[w].pc \in StatusPcs \cup SyncPcs \cup StalePcs \cup {"idle"}
    /\ UNCHANGED <<consents, package>>
    /\ \A id \in JobIds :
          \/ jobs'[id].status = jobs[id].status
          \/ /\ id = inv[w].job /\ inv[w].pc \in WritingPcs
             /\ jobs'[id].status \notin Waiting

LEMMA RowUntouched ==
    ASSUME Backed, NEW w \in Workers, UNCHANGED <<consents, package, jobs>>,
           NEW r, Become(w, r),
           r.pc \in StatusPcs \cup SyncPcs \cup StalePcs \cup {"idle"}
    PROVE  FollowUpWrites(w)
  BY BecomesAt DEF FollowUpWrites

LEMMA IdlePc == Idle.pc = "idle"
  BY DEF Idle

LEMMA StatusTurn ==
    ASSUME Backed, NEW w \in Workers, DeliverMessage(w) \/ StatusCall(w)
    PROVE  FollowUpWrites(w)
<1>1. PICK i \in Invocation : i = inv[w] /\ HandlerTyped(i)
  BY Moving
<1>2. ASSUME NEW m \in msgs, StatusReceive(w, m) PROVE FollowUpWrites(w)
  <2>1. PICK r : r = [Idle EXCEPT !.pc = "aggregate", !.job = m.job, !.stat = m.status,
                                  !.dev = iot[m.job].dev]
    OBVIOUS
  <2>2. r.pc = "aggregate"
    BY <2>1 DEF Idle
  <2> QED
    BY <1>2, <2>1, <2>2, RowUntouched DEF StatusReceive, tables
<1>3. CASE ReadAggregate(w)
  <2>1. PICK a : Become(w, [i EXCEPT !.pc = "updateRow", !.agg = a])
    BY <1>1, <1>3 DEF ReadAggregate
  <2>2. [i EXCEPT !.pc = "updateRow", !.agg = a].pc = "updateRow"
    BY DEF Invocation
  <2> QED
    BY <1>3, <2>1, <2>2, RowUntouched DEF ReadAggregate, tables
<1>4. ASSUME Return(w) \/ Goto(w, "clearDevice") \/ Goto(w, "markTerminal")
      PROVE  Others(w) /\ inv'[w].pc \in StatusPcs \cup {"idle"}
  <2>1. CASE Return(w)
    BY <2>1, GoesHome
  <2>2. CASE Goto(w, "clearDevice")
    BY <2>2, GoesTo
  <2>3. CASE Goto(w, "markTerminal")
    BY <2>3, GoesTo
  <2> QED
    BY <1>4, <2>1, <2>2, <2>3
<1>5. CASE UpdateRow(w)
  <2>1. i.pc = "updateRow" /\ i.agg \in {"FAILED", "IN_PROGRESS", "SUCCEEDED"}
    BY <1>1, <1>5 DEF UpdateRow, At, HandlerTyped
  <2>2. \A j \in JobIds : jobs'[j].status = jobs[j].status
                            \/ (j = i.job /\ jobs'[j].status = i.agg)
    BY <1>1, <1>5 DEF UpdateRow, Backed, TypeOK
  <2>3. Return(w) \/ Goto(w, "clearDevice")
    BY <1>5 DEF UpdateRow
  <2> QED
    BY <1>1, <1>4, <1>5, <2>1, <2>2, <2>3 DEF UpdateRow, FollowUpWrites, WritingPcs, Waiting
<1>6. CASE ClearDevice(w)
  <2>1. Return(w) \/ Goto(w, "markTerminal")
    BY <1>6 DEF ClearDevice
  <2> QED
    BY <1>4, <1>6, <2>1 DEF ClearDevice, FollowUpWrites
<1>7. CASE MarkTerminal(w)
  <2>1. i.pc = "markTerminal" /\ i.stat \in ReportStatus \ {"IN_PROGRESS"}
    BY <1>1, <1>7 DEF MarkTerminal, At, HandlerTyped
  <2>2. PICK s \in {"SUCCEEDED", "FAILED", "TIMED_OUT"} : SetRowStatus(i.job, s)
    BY <1>1, <1>7, <2>1 DEF MarkTerminal, ReportStatus
  <2>3. \A j \in JobIds : jobs'[j].status = jobs[j].status
                            \/ (j = i.job /\ jobs'[j].status = s)
    BY <2>2, RowSet
  <2> QED
    BY <1>1, <1>4, <1>7, <2>1, <2>3 DEF MarkTerminal, FollowUpWrites, WritingPcs, Waiting
<1> QED
  BY <1>2, <1>3, <1>5, <1>6, <1>7 DEF DeliverMessage, StatusCall

LEMMA SyncTurn ==
    ASSUME Backed, NEW w \in Workers, DeliverEvent(w) \/ SyncCall(w)
    PROVE  FollowUpWrites(w)
<1>1. PICK i \in Invocation : i = inv[w] /\ HandlerTyped(i)
  BY Moving
<1>2. ASSUME NEW e \in events, LifecycleReceive(w, e) PROVE FollowUpWrites(w)
  <2>1. [Idle EXCEPT !.pc = "syncWrite", !.job = e.job, !.stat = "CANCELLED"].pc = "syncWrite"
    BY DEF Idle
  <2>2. [Idle EXCEPT !.pc = "describeCounts", !.job = e.job].pc = "describeCounts"
    BY DEF Idle
  <2>3. \E r : Become(w, r) /\ r.pc \in SyncPcs \cup {"idle"}
    BY <1>2, <2>1, <2>2, IdlePc DEF LifecycleReceive, Return
  <2> QED
    BY <1>2, <2>3, RowUntouched DEF LifecycleReceive, tables
<1>3. CASE DescribeCounts(w)
  <2>1. ASSUME NEW s PROVE [i EXCEPT !.pc = "syncWrite", !.stat = s].pc = "syncWrite"
    BY DEF Invocation
  <2>2. \E r : Become(w, r) /\ r.pc \in SyncPcs \cup {"idle"}
    BY <1>1, <1>3, <2>1, IdlePc DEF DescribeCounts, Return
  <2> QED
    BY <1>3, <2>2, RowUntouched DEF DescribeCounts, tables
<1>4. CASE SyncWrite(w)
  <2>1. i.pc = "syncWrite" /\ i.stat \in {"CANCELLED", "SUCCEEDED", "FAILED"}
    BY <1>1, <1>4 DEF SyncWrite, At, HandlerTyped
  <2>2. \A j \in JobIds : jobs'[j].status = jobs[j].status
                            \/ (j = i.job /\ jobs'[j].status = i.stat)
    BY <1>1, <1>4, RowSet DEF SyncWrite
  <2>3. Others(w) /\ inv'[w].pc = "idle"
    BY <1>4, GoesHome DEF SyncWrite
  <2> QED
    BY <1>1, <1>4, <2>1, <2>2, <2>3 DEF SyncWrite, FollowUpWrites, WritingPcs, Waiting
<1> QED
  BY <1>2, <1>3, <1>4 DEF DeliverEvent, SyncCall

LEMMA StaleNextTurn ==
    ASSUME Backed, NEW w \in Workers, NEW id, StaleNext(w, id)
    PROVE  \E r : /\ Become(w, r) /\ r.pc \in {"staleDescribe", "idle"}
                  /\ r.pc = "staleDescribe" => r.ids \subseteq inv[w].ids
<1>1. CASE Return(w)
  BY <1>1, IdlePc DEF Return
<1>2. CASE Become(w, [Idle EXCEPT !.pc = "staleDescribe", !.ids = inv[w].ids \ {id}])
  <2>1. PICK r : r = [Idle EXCEPT !.pc = "staleDescribe", !.ids = inv[w].ids \ {id}]
    OBVIOUS
  <2>2. r.pc = "staleDescribe" /\ r.ids \subseteq inv[w].ids
    BY <2>1 DEF Idle
  <2> QED
    BY <1>2, <2>1, <2>2
<1> QED
  BY <1>1, <1>2 DEF StaleNext

(* The rows the check has still to look at are rows that were live.        *)
LEMMA StaleTurn ==
    ASSUME Backed, NEW w \in Workers, StaleCheck(w) \/ StaleCall(w)
    PROVE  /\ FollowUpWrites(w)
           /\ inv'[w].pc \in StalePcs \cup {"idle"}
           /\ inv'[w].pc \in StalePcs =>
                 \/ StaleCheck(w) /\ inv'[w].ids = StaleRows
                 \/ inv[w].pc \in StalePcs /\ inv'[w].ids \subseteq inv[w].ids
           /\ inv'[w].pc \in {"staleCancel", "staleWrite"} =>
                 \/ inv[w].pc = "staleDescribe" /\ inv'[w].job \in inv[w].ids
                 \/ inv[w].pc = "staleCancel" /\ inv'[w].job = inv[w].job
<1>1. PICK i \in Invocation : i = inv[w] /\ HandlerTyped(i) /\ HandlerBacked(i)
  BY Moving
<1>2. CASE StaleCheck(w)
  <2>1. PICK r : r = [Idle EXCEPT !.pc = "staleDescribe", !.ids = StaleRows]
    OBVIOUS
  <2>2. r.pc = "staleDescribe" /\ r.ids = StaleRows
    BY <2>1 DEF Idle
  <2>3. Become(w, r) /\ UNCHANGED <<consents, package, jobs>>
    BY <1>2, <2>1 DEF StaleCheck, StaleStart, tables
  <2> QED
    BY <1>2, <2>2, <2>3, RowUntouched, BecomesAt DEF StalePcs
<1>3. CASE StaleDescribe(w)
  <2>0. i.pc = "staleDescribe" /\ UNCHANGED <<consents, package, jobs>>
    BY <1>1, <1>3 DEF StaleDescribe, At, tables
  <2>1. ASSUME NEW id, StaleNext(w, id)
        PROVE  \E r : /\ Become(w, r) /\ r.pc \in {"staleDescribe", "idle"}
                      /\ r.pc = "staleDescribe" => r.ids \subseteq i.ids
    BY <1>1, <2>1, StaleNextTurn
  <2>2. ASSUME NEW id \in i.ids, NEW p \in {"staleCancel", "staleWrite"}, NEW s,
               Become(w, [i EXCEPT !.pc = p, !.job = id, !.stat = s])
        PROVE  \E r : Become(w, r) /\ r.pc = p /\ r.ids = i.ids /\ r.job \in i.ids
    <3>1. PICK r : r = [i EXCEPT !.pc = p, !.job = id, !.stat = s]
      OBVIOUS
    <3>2. r.pc = p /\ r.ids = i.ids /\ r.job \in i.ids
      BY <3>1 DEF Invocation
    <3> QED
      BY <2>2, <3>1, <3>2
  <2>3. \E id \in i.ids :
          \/ \E p \in {"staleCancel", "staleWrite"}, s \in {"SUCCEEDED", "CANCELLED"} :
                Become(w, [i EXCEPT !.pc = p, !.job = id, !.stat = s])
          \/ StaleNext(w, id)
    BY <1>1, <1>3 DEF StaleDescribe
  <2>4. PICK r : /\ Become(w, r) /\ r.pc \in StalePcs \cup {"idle"}
                 /\ r.pc \in StalePcs => r.ids \subseteq i.ids
                 /\ r.pc \in {"staleCancel", "staleWrite"} => r.job \in i.ids
    BY <2>1, <2>2, <2>3 DEF StalePcs
  <2>5. FollowUpWrites(w) /\ inv'[w] = r
    BY <2>0, <2>4, RowUntouched, BecomesAt
  <2> QED
    BY <1>1, <2>0, <2>4, <2>5 DEF StalePcs
<1>4. CASE StaleCancel(w)
  <2>0. i.pc = "staleCancel" /\ UNCHANGED <<consents, package, jobs>>
    BY <1>1, <1>4 DEF StaleCancel, At, tables
  <2>1. /\ Others(w) /\ inv'[w].pc = "staleWrite" /\ inv'[w].ids = i.ids
        /\ inv'[w].job = i.job
    BY <1>1, <1>4, GoesTo DEF StaleCancel
  <2> QED
    BY <1>1, <2>0, <2>1 DEF StalePcs, FollowUpWrites
<1>5. CASE StaleWrite(w)
  <2>0. i.pc = "staleWrite" /\ i.stat \in {"CANCELLED", "SUCCEEDED"}
    BY <1>1, <1>5 DEF StaleWrite, At, HandlerBacked
  <2>1. \A j \in JobIds : jobs'[j].status = jobs[j].status
                            \/ (j = i.job /\ jobs'[j].status = i.stat)
    BY <1>1, <1>5, RowSet DEF StaleWrite
  <2>2. PICK r : /\ Become(w, r) /\ r.pc \in {"staleDescribe", "idle"}
                 /\ r.pc = "staleDescribe" => r.ids \subseteq i.ids
    BY <1>1, <1>5, StaleNextTurn DEF StaleWrite
  <2>3. inv'[w] = r /\ Others(w)
    BY <2>2, BecomesAt
  <2> QED
    BY <1>1, <1>5, <2>0, <2>1, <2>2, <2>3
    DEF StaleWrite, StalePcs, FollowUpWrites, WritingPcs, Waiting
<1> QED
  BY <1>2, <1>3, <1>4, <1>5 DEF StaleCall

LEMMA FollowUpTurn ==
    ASSUME Backed, NEW w \in Workers, FollowUp(w)
    PROVE  FollowUpWrites(w)
<1>1. CASE Crash(w)
  BY <1>1, IdlePc, RowUntouched DEF Crash, Return, tables
<1> QED
  BY <1>1, StatusTurn, SyncTurn, StaleTurn DEF FollowUp

(* No two requests are handled at the same time.                           *)
Alone == \A u, w \in Workers :
            inv[u].pc \in RequestPcs /\ inv[w].pc \in RequestPcs => u = w

IsPending(c) == consents[c].status = "PENDING"

(* The record a handler is about to answer is still unanswered.            *)
Unanswered(i) ==
    /\ i.pc = "findConsent" => i.cons = NoCons
    /\ i.pc \in {"decline", "readPackage", "checkPending", "clearStale", "createIot",
                 "writeConsent"} /\ i.cons # NoCons => IsPending(i.cons)
    /\ i.pc = "abortConsent" => \A c \in i.conss : IsPending(c)

SoleInv == Backed /\ Alone /\ \A w \in Workers : Unanswered(inv[w])

LEMMA PcsApart ==
    RequestPcs \cap (StatusPcs \cup SyncPcs \cup StalePcs \cup {"idle"}) = {}
  BY DEF RequestPcs, StalePcs, DeployPcs, RecallPcs

LEMMA AloneStep ==
    ASSUME Alone, NEW w \in Workers, Others(w),
           inv'[w].pc \in RequestPcs => inv[w].pc \in RequestPcs
    PROVE  Alone'
<1>1. \A u \in Workers : inv'[u].pc \in RequestPcs => inv[u].pc \in RequestPcs
  BY DEF Others
<1> QED
  BY <1>1 DEF Alone

(* The others are no requests, or the records are as they were.            *)
LEMMA SoleStep ==
    ASSUME SoleInv, Backed', Alone', NEW w \in Workers, Others(w), Unanswered(inv[w])',
           UNCHANGED consents \/ inv[w].pc \in RequestPcs
    PROVE  SoleInv'
<1>1. ASSUME NEW u \in Workers \ {w} PROVE Unanswered(inv[u])'
  <2>1. PICK i \in Invocation : i = inv[u] /\ i = inv'[u] /\ Unanswered(i)
    BY Moving DEF SoleInv, Others
  <2>2. CASE UNCHANGED consents
    <3>1. Unanswered(i)'
      BY <2>1, <2>2 DEF Unanswered, IsPending
    <3> QED
      BY <2>1, <3>1 DEF Unanswered, IsPending
  <2>3. CASE inv[w].pc \in RequestPcs
    <3>1. inv'[u].pc \notin RequestPcs
      BY <2>1, <2>3 DEF SoleInv, Alone
    <3> QED
      BY <3>1 DEF Unanswered, RequestPcs
  <2> QED
    BY <2>2, <2>3
<1> QED
  BY <1>1 DEF SoleInv

LEMMA DeploySole ==
    ASSUME SoleInv, NEW w \in Workers, DeployCall(w)
    PROVE  Unanswered(inv[w])'
  BY DeployTurn DEF SoleInv, Unanswered

LEMMA AbortSole ==
    ASSUME SoleInv, NEW w \in Workers, AbortCall(w)
    PROVE  Unanswered(inv[w])'
<1>1. Backed /\ consents \in [ConsentIds -> Consent]
  BY DEF SoleInv, Backed, TypeOK
<1>2. CASE inv'[w].pc # "abortConsent"
  <2>1. inv'[w].pc \in AbortPcs \cup {"idle"}
    BY <1>1, AbortTurn
  <2> QED
    BY <1>2, <2>1 DEF Unanswered
<1>3. CASE inv'[w].pc = "abortConsent"
  <2>1. CASE /\ AbortQuery(w)
             /\ inv'[w].conss = {c \in ConsentIds : /\ consents[c].status = "PENDING"
                                                    /\ consents[c].deployment = inv[w].job}
    BY <1>3, <2>1 DEF AbortQuery, tables, Unanswered, IsPending
  <2>2. ASSUME AbortConsent(w), NEW c \in inv[w].conss,
               consents' = [consents EXCEPT ![c].status = "CANCELLED"],
               inv'[w].conss = inv[w].conss \ {c}
        PROVE  Unanswered(inv[w])'
    <3>1. \A b \in inv[w].conss : IsPending(b) /\ b \in ConsentIds
      BY <1>1, <2>2, Moving DEF SoleInv, Unanswered, AbortConsent, At, Invocation
    <3>2. \A b \in ConsentIds : b # c => consents'[b] = consents[b]
      BY <1>1, <2>2
    <3> QED
      BY <1>3, <2>2, <3>1, <3>2 DEF Unanswered, IsPending
  <2> QED
    BY <1>1, <1>3, <2>1, <2>2, AbortTurn
<1> QED
  BY <1>2, <1>3

LEMMA ConsentSole ==
    ASSUME SoleInv, NEW w \in Workers, ConsentCall(w)
    PROVE  Unanswered(inv[w])'
<1>1. Backed /\ Unanswered(inv[w])
  BY DEF SoleInv
<1>2. CASE inv'[w].pc \notin Answering
  BY <1>1, <1>2, ConsentTurn DEF Unanswered
<1>3. CASE inv'[w].pc \in {"putJob", "setPending"}
  BY <1>3 DEF Unanswered
<1>4. CASE inv'[w].pc \in Answering \ {"putJob", "setPending"}
  <2>1. UNCHANGED consents
    <3>1. ~WriteConsent(w) /\ ~Decline(w)
      BY <1>1, <1>4, GoesTo, GoesHome DEF WriteConsent, Decline, Answering
    <3> QED
      BY <3>1 DEF ConsentCall, FindConsent, ReadPackage, CheckPending, ClearStale,
         CreateIot, PutJob, SetPending, tables
  <2>2. CASE FindConsent(w)
    <3>1. inv[w].cons = NoCons
      BY <1>1, <2>2 DEF FindConsent, At, Unanswered
    <3>2. \/ inv'[w].cons = NoCons
          \/ inv'[w].cons \in Matching(inv[w].dev, inv[w].ver)
      BY <1>1, <1>4, <2>2, <3>1, ConsentTurn DEF FindConsent, At, Answering
    <3> QED
      BY <1>4, <2>1, <3>2 DEF Unanswered, Matching, IsPending, Answering
  <2>3. CASE inv'[w].cons = inv[w].cons /\ inv[w].pc \in Answering \ {"decline"}
    <3>1. inv[w].pc \notin {"putJob", "setPending"}
      <4>1. inv[w].pc = "putJob" => PutJob(w)
        BY DEF ConsentCall, FindConsent, Decline, ReadPackage, CheckPending, ClearStale,
           CreateIot, WriteConsent, SetPending, At
      <4>2. inv[w].pc = "setPending" => SetPending(w)
        BY DEF ConsentCall, FindConsent, Decline, ReadPackage, CheckPending, ClearStale,
           CreateIot, WriteConsent, PutJob, At
      <4> QED
        BY <1>1, <1>4, <4>1, <4>2, GoesTo, GoesHome DEF PutJob, SetPending, Answering
    <3> QED
      BY <1>1, <1>4, <2>1, <2>3, <3>1 DEF Unanswered, Answering, IsPending
  <2> QED
    BY <1>1, <1>4, <2>2, <2>3, ConsentTurn
<1> QED
  BY <1>2, <1>3, <1>4

LEMMA RecallSole ==
    ASSUME SoleInv, NEW w \in Workers, RecallCall(w)
    PROVE  Unanswered(inv[w])'
<1>1. inv'[w].pc \in RecallPcs \cup {"idle"}
  BY RecallTurn DEF SoleInv
<1> QED
  BY <1>1 DEF Unanswered, RecallPcs

LEMMA InvStill ==
    ASSUME Device \/ Aws \/ Tick \/ WeekPasses \/ UNCHANGED vars
    PROVE  UNCHANGED <<inv, jobs, consents, package>>
<1>1. CASE Device
  BY <1>1 DEF Device, Register, DeviceStart, DeviceProgress, DeviceFinish, tables
<1>2. CASE Aws
  BY <1>2 DEF Aws, IotTimeout, ConsoleCancel, LoseMessage, LoseEvent, tables
<1>3. CASE Tick \/ WeekPasses \/ UNCHANGED vars
  BY <1>3 DEF Tick, WeekPasses, vars, tables
<1> QED
  BY <1>1, <1>2, <1>3

LEMMA Steps ==
    ASSUME Next
    PROVE  \/ \E w \in Workers : Request(w) \/ RequestCall(w) \/ FollowUp(w)
           \/ Device \/ Aws \/ Tick \/ WeekPasses
  BY Calls DEF Next, FollowUp

LEMMA SoleNext ==
    ASSUME SoleInv, "overlap" \notin Env \/ \A u, v \in Workers : u = v, [Next]_vars
    PROVE  SoleInv'
<1>0. Backed /\ Backed'
  BY BackedNext DEF SoleInv
<1>1. ASSUME NEW w \in Workers, Request(w) PROVE SoleInv'
  <2>1. /\ UNCHANGED consents /\ Others(w) /\ Quiet /\ At(w, "idle")
        /\ inv'[w].pc \in {"deployPut", "findConsent", "abortQuery", "abortCancel",
                           "recallMark"}
        /\ inv'[w].pc = "findConsent" => inv'[w].cons = NoCons
    BY <1>0, <1>1, RequestStarts DEF tables
  <2>2. \A u \in Workers : inv[u].pc \notin RequestPcs
    BY <2>1, PcsApart DEF Quiet, At
  <2>3. Alone'
    BY <2>1, <2>2 DEF Alone, Others
  <2>4. Unanswered(inv[w])'
    BY <2>1 DEF Unanswered
  <2> QED
    BY <1>0, <2>1, <2>3, <2>4, SoleStep
<1>2. ASSUME NEW w \in Workers, RequestCall(w) PROVE SoleInv'
  <2>1. Others(w) /\ inv[w].pc \in RequestPcs
    BY <1>0, <1>2, RequestTurn
  <2>2. Alone'
    BY <2>1, AloneStep DEF SoleInv
  <2>3. Unanswered(inv[w])'
    BY <1>2, DeploySole, AbortSole, ConsentSole, RecallSole DEF RequestCall
  <2> QED
    BY <1>0, <2>1, <2>2, <2>3, SoleStep
<1>3. ASSUME NEW w \in Workers, FollowUp(w) PROVE SoleInv'
  <2>1. /\ Others(w) /\ UNCHANGED consents
        /\ inv'[w].pc \in StatusPcs \cup SyncPcs \cup StalePcs \cup {"idle"}
    BY <1>0, <1>3, FollowUpTurn DEF FollowUpWrites
  <2>2. Alone'
    BY <2>1, PcsApart, AloneStep DEF SoleInv
  <2>3. Unanswered(inv[w])'
    BY <2>1 DEF Unanswered, StalePcs
  <2> QED
    BY <1>0, <2>1, <2>2, <2>3, SoleStep
<1>4. CASE Device \/ Aws \/ Tick \/ WeekPasses \/ UNCHANGED vars
  <2>1. UNCHANGED <<inv, consents>>
    BY <1>4, InvStill
  <2>2. Alone' /\ \A w \in Workers : Unanswered(inv[w])'
    BY <2>1 DEF SoleInv, Alone, Unanswered, IsPending
  <2> QED
    BY <1>0, <2>2 DEF SoleInv
<1> QED
  BY <1>1, <1>2, <1>3, <1>4, Steps

LEMMA SoleInit ==
    ASSUME Init
    PROVE  SoleInv
<1>1. \A w \in Workers : inv[w].pc = "idle"
  BY DEF Init, Idle
<1>2. Alone /\ \A w \in Workers : Unanswered(inv[w])
  BY <1>1, PcsApart DEF Alone, Unanswered
<1> QED
  BY <1>2, BackedInit DEF SoleInv

----------------------------------------------------------------------------
(* The consent behind a job                                                *)

(* An acceptance is final: a request writes records it found unanswered.   *)
LEMMA AcceptedKept ==
    ASSUME SoleInv, NEW w \in Workers, RequestCall(w),
           NEW c \in ConsentIds, consents[c].status = "ACCEPTED"
    PROVE  consents'[c] = consents[c]
<1>1. /\ consents \in [ConsentIds -> Consent] /\ Unanswered(inv[w])
      /\ inv[w].cons \in ConsentIds \cup {NoCons} /\ inv[w].conss \subseteq ConsentIds
      /\ HandlerTyped(inv[w])
  BY Moving DEF SoleInv, Backed, TypeOK, Invocation
<1>2. CASE DeployConsent(w)
  <2>1. PICK b \in ConsentIds : /\ consents[b] = NoConsent
                                /\ \E v : consents' = [consents EXCEPT ![b] = v]
    BY <1>2 DEF DeployConsent, UnusedConsents
  <2> QED
    BY <1>1, <2>1 DEF NoConsent
<1>3. CASE AbortConsent(w)
  <2>1. PICK b \in inv[w].conss : consents' = [consents EXCEPT ![b].status = "CANCELLED"]
    BY <1>3 DEF AbortConsent
  <2>2. b # c
    BY <1>1, <1>3 DEF AbortConsent, At, Unanswered, IsPending
  <2> QED
    BY <1>1, <2>1, <2>2
<1>4. CASE Decline(w)
  <2>1. inv[w].cons \in ConsentIds /\ inv[w].cons # c
    BY <1>1, <1>4, OtaAssumption DEF Decline, At, Unanswered, IsPending, HandlerTyped
  <2> QED
    BY <1>1, <1>4, <2>1 DEF Decline
<1>5. CASE WriteConsent(w)
  <2>1. inv[w].cons # NoCons => inv[w].cons # c
    BY <1>1, <1>5 DEF WriteConsent, At, Unanswered, IsPending
  <2>2. \A b \in ConsentIds : consents[b] = NoConsent => b # c
    BY DEF NoConsent
  <2> QED
    BY <1>1, <1>5, <2>1, <2>2 DEF WriteConsent
<1>6. CASE UNCHANGED consents
  BY <1>6
<1> QED
  BY <1>2, <1>3, <1>4, <1>5, <1>6
  DEF RequestCall, DeployCall, AbortCall, ConsentCall, RecallCall, DeployPut,
      DeployConsentFails, AbortQuery, AbortCancel, AbortMark, AbortClear, FindConsent,
      ReadPackage, CheckPending, ClearStale, CreateIot, PutJob, SetPending,
      RecallMark, RecallScan, RecallCancel, RecallWrite, tables

(* The handler between create_job and the record puts it there.            *)
LEMMA Recorded ==
    ASSUME Backed, NEW w \in Workers, RequestCall(w), At(w, "writeConsent")
    PROVE  \E c \in ConsentIds : /\ consents'[c].status = "ACCEPTED"
                                 /\ consents'[c].job = inv[w].job
<1>1. PICK i \in Invocation : i = inv[w] /\ consents \in [ConsentIds -> Consent]
  BY Moving DEF Backed, TypeOK
<1>2. WriteConsent(w)
  BY DEF RequestCall, DeployCall, AbortCall, ConsentCall, RecallCall, DeployPut,
     DeployConsent, DeployConsentFails, AbortQuery, AbortConsent, AbortCancel, AbortMark,
     AbortClear, FindConsent, Decline, ReadPackage, CheckPending, ClearStale, CreateIot,
     PutJob, SetPending, RecallMark, RecallScan, RecallCancel, RecallWrite, At
<1>3. CASE i.cons # NoCons
  <2>1. i.cons \in ConsentIds
    BY <1>3 DEF Invocation
  <2>2. consents' = [consents EXCEPT ![i.cons] =
                       [@ EXCEPT !.status = "ACCEPTED", !.job = i.job]]
    BY <1>1, <1>2, <1>3 DEF WriteConsent
  <2> QED
    BY <1>1, <2>1, <2>2 DEF Consent
<1>4. CASE i.cons = NoCons
  <2>1. PICK c \in ConsentIds :
          consents' = [consents EXCEPT ![c] =
                    [status |-> "ACCEPTED", dev |-> i.dev, ver |-> i.ver,
                     deployment |-> NoJob, job |-> i.job]]
    BY <1>1, <1>2, <1>4 DEF WriteConsent
  <2> QED
    BY <1>1, <2>1
<1> QED
  BY <1>3, <1>4

(* Which jobs there are changes with create_job only.                      *)
LEMMA FollowUpJobs ==
    ASSUME Backed, NEW w \in Workers, FollowUp(w), NEW id \in JobIds
    PROVE  Exists(id)' <=> Exists(id)
<1>1. PICK i \in Invocation : i = inv[w] /\ HandlerTyped(i)
  BY Moving
<1>2. ASSUME NEW m \in msgs, StatusReceive(w, m) PROVE Exists(id)' <=> Exists(id)
  <2>1. m.job \in JobIds
    BY DEF Backed, TypeOK, Message
  <2> QED
    BY <1>2, <2>1, UpdateKeeps, CancelKeeps DEF StatusReceive, IotKeeps
<1>3. CASE StaleCancel(w)
  <2>1. i.job \in JobIds
    BY <1>1, <1>3 DEF StaleCancel, At, HandlerTyped
  <2> QED
    BY <1>1, <1>3, <2>1, CancelKeeps DEF StaleCancel, IotKeeps
<1>4. CASE UNCHANGED iot
  BY <1>4 DEF Exists
<1> QED
  BY <1>2, <1>3, <1>4
  DEF FollowUp, StaleCheck, DeliverMessage, DeliverEvent, Crash, StatusCall, SyncCall,
      StaleCall, StaleStart, LifecycleReceive, ReadAggregate, UpdateRow, ClearDevice,
      MarkTerminal, DescribeCounts, SyncWrite, StaleDescribe, StaleWrite, awsVars

LEMMA OutsideJobs ==
    ASSUME Backed, Device \/ Aws \/ Tick \/ WeekPasses \/ UNCHANGED vars, NEW id \in JobIds
    PROVE  Exists(id)' <=> Exists(id)
<1>1. ASSUME NEW k \in JobIds, NEW s, Report(k, s) PROVE Exists(id)' <=> Exists(id)
  BY <1>1, ReportKeeps DEF IotKeeps
<1>2. CASE Device
  BY <1>1, <1>2 DEF Device, Register, DeviceStart, DeviceProgress, DeviceFinish, awsVars, Exists
<1>3. ASSUME NEW k \in JobIds, IotTimeout(k) \/ ConsoleCancel(k)
      PROVE  Exists(id)' <=> Exists(id)
  BY <1>3, EndKeeps, CancelKeeps DEF IotTimeout, ConsoleCancel, IotKeeps
<1>4. CASE Aws
  BY <1>3, <1>4 DEF Aws, LoseMessage, LoseEvent, Exists
<1>5. CASE Tick \/ WeekPasses \/ UNCHANGED vars
  BY <1>5 DEF Tick, WeekPasses, vars, awsVars, Exists
<1> QED
  BY <1>2, <1>4, <1>5

(* create_job: an id that exists is refused.                               *)
LEMMA CreateTurn ==
    ASSUME Backed, NEW w \in Workers, CreateIot(w)
    PROVE  \E id \in JobIds :
              /\ id = NewId(inv[w].ver)
              /\ \/ Return(w) /\ UNCHANGED <<iot, events>>
                 \/ /\ ~Exists(id) /\ UNCHANGED events
                    /\ iot' = [iot EXCEPT ![id] = [status |-> "IN_PROGRESS",
                                                   dev |-> inv[w].dev, exec |-> "QUEUED"]]
                    /\ inv'[w].pc = "writeConsent" /\ inv'[w].job = id /\ Same(w)
<1>1. PICK i \in Invocation : i = inv[w] /\ i.ver \in Versions
  BY Moving DEF CreateIot, At, HandlerTyped
<1>2. PICK id \in JobIds : id = NewId(i.ver)
  BY <1>1, NewIdTyped
<1>3. CASE Exists(id)
  BY <1>1, <1>2, <1>3 DEF CreateIot
<1>4. CASE ~Exists(id)
  <2>1. /\ CreateJob(id, i.dev)
        /\ Become(w, [i EXCEPT !.pc = "writeConsent", !.job = id])
    BY <1>1, <1>2, <1>4 DEF CreateIot
  <2>2. inv'[w] = [i EXCEPT !.pc = "writeConsent", !.job = id]
    BY <2>1, BecomesAt
  <2>3. inv'[w].pc = "writeConsent" /\ inv'[w].job = id /\ Same(w)
    BY <1>1, <2>2 DEF Invocation, Same
  <2> QED
    BY <1>1, <1>2, <1>4, <2>1, <2>3 DEF CreateJob
<1> QED
  BY <1>3, <1>4

LEMMA NoCrash ==
    ASSUME Backed, MaxCrash = 0
    PROVE  ~Fail /\ \A w \in Workers : ~Crash(w)
  BY DEF Backed, TypeOK, Fail, Crash

LEMMA BehindNext ==
    ASSUME SoleInv, ConsentBehindEveryJob, MaxCrash = 0, [Next]_vars
    PROVE  ConsentBehindEveryJob'
<1>0. Backed
  BY DEF SoleInv
<1>1. ASSUME \A id \in JobIds : Exists(id)' => Exists(id),
             \A c \in ConsentIds : consents[c].status = "ACCEPTED" => consents'[c] = consents[c],
             \A w \in Workers : At(w, "writeConsent") =>
                inv'[w].pc = "writeConsent" /\ inv'[w].job = inv[w].job
      PROVE  ConsentBehindEveryJob'
  BY <1>1 DEF ConsentBehindEveryJob, At
<1>2. ASSUME NEW w \in Workers, RequestCall(w) PROVE ConsentBehindEveryJob'
  <2>1. RequestWrites(w) /\ Others(w)
    BY <1>0, <1>2, RequestCallWrites, RequestTurn
  <2>2. \A c \in ConsentIds : consents[c].status = "ACCEPTED" => consents'[c] = consents[c]
    BY <1>2, AcceptedKept
  <2>3. \A u \in Workers, id \in JobIds : At(u, "writeConsent") /\ inv[u].job = id =>
          \/ inv'[u].pc = "writeConsent" /\ inv'[u].job = id
          \/ \E c \in ConsentIds : consents'[c].status = "ACCEPTED" /\ consents'[c].job = id
    BY <1>0, <1>2, <2>1, Recorded DEF Others, At
  <2>4. ASSUME NEW id \in JobIds, Exists(id)', ~Exists(id)
        PROVE  inv'[w].pc = "writeConsent" /\ inv'[w].job = id
    <3>1. CreateIot(w) /\ At(w, "createIot")
      BY <2>1, <2>4 DEF RequestWrites, CreateIot
    <3>2. iot \in [JobIds -> IotJob]
      BY <1>0 DEF Backed, TypeOK
    <3> QED
      BY <1>0, <2>4, <3>1, <3>2, CreateTurn DEF Exists
  <2>5. \A id \in JobIds : Exists(id)' => Exists(id) \/ (At(w, "writeConsent")' /\ inv'[w].job = id)
    BY <2>4 DEF At
  <2> QED
    BY <2>2, <2>3, <2>5 DEF ConsentBehindEveryJob, At
<1>3. ASSUME NEW w \in Workers, Request(w) \/ FollowUp(w) PROVE ConsentBehindEveryJob'
  <2>1. UNCHANGED consents /\ Others(w)
    BY <1>0, <1>3, RequestStarts, FollowUpTurn DEF FollowUpWrites, tables
  <2>2. ~Crash(w)
    BY <1>0, NoCrash
  <2>3. ~At(w, "writeConsent")
    BY <1>3, <2>2
    DEF FollowUp, StaleCheck, DeliverMessage, DeliverEvent, StatusCall, SyncCall, StaleCall,
        StaleStart, StatusReceive, LifecycleReceive, ReadAggregate, UpdateRow, ClearDevice,
        MarkTerminal, DescribeCounts, SyncWrite, StaleDescribe, StaleCancel, StaleWrite,
        Request, Deploy, Accept, DeclineRequest, Abort, Recall, DeployStart, ConsentStart,
        AbortStart, RecallStart, At
  <2>4. \A id \in JobIds : Exists(id)' => Exists(id)
    BY <1>0, <1>3, RequestStarts, FollowUpJobs DEF awsVars, Exists
  <2> QED
    BY <1>1, <2>1, <2>3, <2>4 DEF Others, At
<1>4. CASE Device \/ Aws \/ Tick \/ WeekPasses \/ UNCHANGED vars
  <2>1. UNCHANGED <<inv, consents>>
    BY <1>4, InvStill
  <2> QED
    BY <1>0, <1>1, <1>4, <2>1, OutsideJobs DEF At
<1> QED
  BY <1>2, <1>3, <1>4, Steps

(* While requests do not overlap and no handler dies, every execution in   *)
(* AWS IoT stands behind an acceptance, on record or about to be recorded: *)
(* no device is sent firmware its owner did not accept, and neither an     *)
(* abort nor a decline takes back the acceptance of a job there is.        *)
THEOREM NoneWithoutConsent ==
    "overlap" \notin Env /\ MaxCrash = 0 => (Spec => []ConsentBehindEveryJob)
<1> SUFFICES ASSUME "overlap" \notin Env, MaxCrash = 0
             PROVE  Spec => []ConsentBehindEveryJob
  OBVIOUS
<1>1. Init => SoleInv /\ ConsentBehindEveryJob
  <2>1. Init => ConsentBehindEveryJob
    BY DEF Init, ConsentBehindEveryJob, Exists, NoIot
  <2> QED
    BY <2>1, SoleInit
<1>2. (SoleInv /\ ConsentBehindEveryJob) /\ [Next]_vars => (SoleInv /\ ConsentBehindEveryJob)'
  BY SoleNext, BehindNext
<1> QED
  BY <1>1, <1>2, PTL DEF Spec

----------------------------------------------------------------------------
(* What is offered to the owners                                           *)

HasPending(id) == \E c \in ConsentIds : IsPending(c) /\ consents[c].deployment = id

Offered ==
    /\ \A c \in ConsentIds : IsPending(c) =>
          /\ consents[c].deployment \in JobIds
          /\ jobs[consents[c].deployment].status = "AWAITING_CONSENT"
    /\ \A id \in JobIds : Exists(id) => jobs[id].status # "AWAITING_CONSENT"

(* A deployment that is being written still waits, one that is being       *)
(* aborted has no offer but those the handler holds, and the rows that the *)
(* other handlers cancel are rows of jobs.                                 *)
Standing(i) ==
    /\ i.pc = "deployConsent" => jobs[i.job].status = "AWAITING_CONSENT"
    /\ i.pc \in {"abortCancel", "abortMark"} => ~HasPending(i.job)
    /\ i.pc = "abortConsent" =>
          \A c \in ConsentIds : IsPending(c) /\ consents[c].deployment = i.job => c \in i.conss
    /\ i.pc \in {"recallWrite", "staleCancel", "staleWrite"} => Exists(i.job)
    /\ i.pc \in {"recallCancel", "recallWrite"} \cup StalePcs =>
          \A id \in i.ids : Exists(id)

OfferInv == SoleInv /\ Offered /\ \A w \in Workers : Standing(inv[w])

(* Most steps make no offer and no job, and write the rows of jobs only.   *)
OffersKept ==
    /\ \A id \in JobIds : Exists(id)' <=> Exists(id)
    /\ \A c \in ConsentIds : IsPending(c)' => consents'[c] = consents[c]
    /\ \A id \in JobIds : \/ jobs'[id].status = jobs[id].status
                          \/ Exists(id) /\ jobs'[id].status # "AWAITING_CONSENT"

LEMMA OffersStand ==
    ASSUME OfferInv, OffersKept
    PROVE  /\ Offered'
           /\ \A i \in Invocation : HandlerTyped(i) /\ Standing(i) => Standing(i)'
<1>1. \A c \in ConsentIds : IsPending(c)' =>
         IsPending(c) /\ consents'[c].deployment = consents[c].deployment
  BY DEF OffersKept, IsPending
<1>2. Offered'
  BY <1>1 DEF OfferInv, Offered, OffersKept
<1>3. ASSUME NEW i \in Invocation, HandlerTyped(i), Standing(i) PROVE Standing(i)'
  <2>1. i.pc = "deployConsent" => jobs'[i.job].status = "AWAITING_CONSENT"
    BY <1>3 DEF HandlerTyped, Standing, OffersKept, OfferInv, Offered
  <2>2. i.pc \in {"abortCancel", "abortMark"} => ~HasPending(i.job)'
    BY <1>1, <1>3 DEF Standing, HasPending
  <2>3. i.pc = "abortConsent" =>
          \A c \in ConsentIds : IsPending(c)' /\ consents'[c].deployment = i.job => c \in i.conss
    BY <1>1, <1>3 DEF Standing
  <2>4. i.pc \in {"recallWrite", "staleCancel", "staleWrite"} => Exists(i.job)'
    BY <1>3 DEF HandlerTyped, Standing, OffersKept
  <2>5. i.pc \in {"recallCancel", "recallWrite"} \cup StalePcs => \A id \in i.ids : Exists(id)'
    BY <1>3 DEF Invocation, Standing, OffersKept
  <2> QED
    BY <2>1, <2>2, <2>3, <2>4, <2>5 DEF Standing
<1> QED
  BY <1>2, <1>3

(* One handler moves.                                                      *)
LEMMA OfferMove ==
    ASSUME OfferInv, OffersKept, SoleInv', NEW w \in Workers, Others(w), Standing(inv[w])'
    PROVE  OfferInv'
<1>1. Offered'
  BY OffersStand
<1>2. ASSUME NEW u \in Workers \ {w} PROVE Standing(inv[u])'
  <2>1. PICK i \in Invocation : i = inv[u] /\ i = inv'[u] /\ HandlerTyped(i) /\ Standing(i)
    BY Moving DEF OfferInv, SoleInv, Others
  <2>2. Standing(i)'
    BY <2>1, OffersStand
  <2> QED
    BY <2>1, <2>2 DEF Standing
<1> QED
  BY <1>1, <1>2 DEF OfferInv

(* A handler that changes the offers is the only request there is: the     *)
(* others hold jobs only, and a job stays.                                 *)
LEMMA OfferChange ==
    ASSUME OfferInv, SoleInv', NEW w \in Workers, Others(w), inv[w].pc \in RequestPcs,
           Offered', Standing(inv[w])', JobsKept
    PROVE  OfferInv'
<1>1. ASSUME NEW u \in Workers \ {w} PROVE Standing(inv[u])'
  <2>1. PICK i \in Invocation : i = inv[u] /\ i = inv'[u] /\ HandlerTyped(i) /\ Standing(i)
    BY Moving DEF OfferInv, SoleInv, Others
  <2>2. i.pc \notin RequestPcs
    BY <2>1 DEF OfferInv, SoleInv, Alone
  <2>3. /\ i.pc \in {"staleCancel", "staleWrite"} => Exists(i.job)'
        /\ i.pc \in StalePcs => \A id \in i.ids : Exists(id)'
    BY <2>1 DEF HandlerTyped, Standing, JobsKept, Invocation, StalePcs
  <2>4. Standing(i)'
    BY <2>2, <2>3 DEF Standing, RequestPcs, DeployPcs, RecallPcs
  <2> QED
    BY <2>1, <2>4 DEF Standing
<1> QED
  BY <1>1 DEF OfferInv

LEMMA DeployOffer ==
    ASSUME OfferInv, SoleInv', "sameSecond" \notin Env, NEW w \in Workers, DeployCall(w)
    PROVE  OfferInv'
<1>0. Backed /\ consents \in [ConsentIds -> Consent] /\ jobs \in [JobIds -> JobRow]
  BY DEF OfferInv, SoleInv, Backed, TypeOK
<1>1. PICK i \in Invocation : i = inv[w] /\ HandlerTyped(i) /\ Standing(i)
  BY <1>0, Moving DEF OfferInv
<1>2. Others(w) /\ inv[w].pc \in RequestPcs
  BY <1>0, DeployTurn DEF RequestPcs
<1>3. UNCHANGED iot /\ JobsKept
  BY DEF DeployCall, DeployPut, DeployConsent, DeployConsentFails, awsVars, JobsKept, Exists
<1>4. CASE DeployPut(w)
  <2>1. PICK id \in JobIds : id = NewId(i.ver)
    BY <1>0, <1>1, <1>4, NewIdTyped DEF DeployPut, At, HandlerTyped
  <2>2. ~Exists(id) /\ UNCHANGED consents
    BY <1>1, <1>4, <2>1 DEF DeployPut, Usable, Fresh, Exists
  <2>3. PICK row : row.status = "AWAITING_CONSENT" /\ jobs' = [jobs EXCEPT ![id] = row]
    <3>1. [NoRow EXCEPT !.status = "AWAITING_CONSENT", !.type = i.type,
                        !.targets = i.devs].status = "AWAITING_CONSENT"
      BY DEF NoRow
    <3> QED
      BY <1>1, <1>4, <2>1, <3>1 DEF DeployPut
  <2>4. /\ jobs'[id].status = "AWAITING_CONSENT"
        /\ \A j \in JobIds : j # id => jobs'[j] = jobs[j]
    BY <1>0, <2>3
  <2>5. Offered'
    BY <1>3, <2>2, <2>4 DEF OfferInv, Offered, Exists, IsPending
  <2>6. inv'[w].pc \in {"idle", "deployConsent"} /\
        (inv'[w].pc = "deployConsent" => inv'[w].job = id)
    BY <1>0, <1>1, <1>4, <2>1, DeployTurn DEF DeployCall
  <2>7. Standing(inv[w])'
    BY <2>4, <2>6 DEF Standing, StalePcs
  <2> QED
    BY <1>2, <1>3, <2>5, <2>7, OfferChange
<1>5. CASE DeployConsent(w) \/ DeployConsentFails(w)
  <2>1. i.pc = "deployConsent" /\ i.job \in JobIds /\ UNCHANGED jobs
        /\ jobs[i.job].status = "AWAITING_CONSENT"
    BY <1>1, <1>5 DEF DeployConsent, DeployConsentFails, At, HandlerTyped, Standing, tables
  <2>2. \A c \in ConsentIds : \/ consents'[c] = consents[c]
                              \/ consents'[c].deployment = i.job
    BY <1>0, <1>1, <1>5 DEF DeployConsent, DeployConsentFails, UnusedConsents, tables
  <2>3. Offered'
    BY <1>3, <2>1, <2>2 DEF OfferInv, Offered, Exists, IsPending
  <2>4. ~DeployPut(w)
    BY <1>1, <2>1 DEF DeployPut, At
  <2>5. inv'[w].pc \in {"idle", "deployConsent"} /\
        (inv'[w].pc = "deployConsent" => inv'[w].job = i.job)
    BY <1>0, <1>1, <1>5, <2>4, DeployTurn DEF DeployCall
  <2>6. Standing(inv[w])'
    BY <2>1, <2>5 DEF Standing, StalePcs
  <2> QED
    BY <1>2, <1>3, <2>3, <2>6, OfferChange
<1> QED
  BY <1>4, <1>5 DEF DeployCall

LEMMA AbortOffer ==
    ASSUME OfferInv, SoleInv', NEW w \in Workers, AbortCall(w)
    PROVE  OfferInv'
<1>0. Backed /\ consents \in [ConsentIds -> Consent] /\ jobs \in [JobIds -> JobRow]
  BY DEF OfferInv, SoleInv, Backed, TypeOK
<1>1. PICK i \in Invocation : i = inv[w] /\ HandlerTyped(i) /\ Standing(i) /\ i.pc \in AbortPcs
                              /\ i.job \in JobIds /\ i.conss \subseteq ConsentIds
  BY <1>0, Moving, AbortTurn DEF OfferInv, HandlerTyped, Invocation
<1>2. Others(w) /\ inv[w].pc \in RequestPcs
  BY <1>0, AbortTurn DEF RequestPcs
<1>3. RequestWrites(w)
  BY <1>0, RequestCallWrites DEF RequestCall
<1>4. \A id \in JobIds : Exists(id)' <=> Exists(id)
  BY <1>1, <1>3 DEF RequestWrites, CreateIot, At
<1>5. \A c \in ConsentIds : IsPending(c)' => consents'[c] = consents[c]
  <2>1. CASE AbortConsent(w)
    <3>1. PICK c \in ConsentIds : consents' = [consents EXCEPT ![c].status = "CANCELLED"]
      BY <1>1, <2>1 DEF AbortConsent
    <3> QED
      BY <1>0, <3>1 DEF IsPending, Consent
  <2> QED
    BY <2>1 DEF AbortCall, AbortQuery, AbortCancel, AbortMark, AbortClear, tables
<1>6. Standing(inv[w])'
  <2>1. inv'[w].pc \notin {"abortConsent", "abortMark"} => Standing(inv[w])'
    BY <1>0, AbortTurn DEF Standing, StalePcs
  <2>2. ASSUME AbortQuery(w), inv'[w].pc \in {"abortConsent", "abortMark"}
        PROVE  Standing(inv[w])'
    <3>1. UNCHANGED consents /\ inv'[w].job = i.job
      BY <1>0, <1>1, <2>2, AbortTurn DEF AbortQuery, tables
    <3>2. ~AbortConsent(w)
      BY <2>2 DEF AbortQuery, AbortConsent, At
    <3>3. CASE inv'[w].pc = "abortConsent"
      <4>1. inv'[w].conss = {c \in ConsentIds : /\ consents[c].status = "PENDING"
                                                /\ consents[c].deployment = i.job}
        BY <1>0, <1>1, <3>2, <3>3, AbortTurn
      <4> QED
        BY <3>1, <3>3, <4>1 DEF Standing, IsPending, StalePcs
    <3>4. CASE inv'[w].pc = "abortMark"
      <4>1. {c \in ConsentIds : /\ consents[c].status = "PENDING"
                                /\ consents[c].deployment = i.job} = {}
        BY <1>0, <1>1, <2>2, <3>4, AbortTurn
      <4> QED
        BY <3>1, <3>4, <4>1 DEF Standing, HasPending, IsPending, StalePcs
    <3> QED
      BY <2>2, <3>3, <3>4
  <2>3. ASSUME AbortConsent(w), inv'[w].pc \in {"abortConsent", "abortMark"}
        PROVE  Standing(inv[w])'
    <3>1. i.pc = "abortConsent" /\ inv'[w].job = i.job
      BY <1>0, <1>1, <2>3, AbortTurn DEF AbortConsent, At
    <3>2. ~AbortQuery(w)
      BY <2>3 DEF AbortQuery, AbortConsent, At
    <3>3. \A c \in ConsentIds : IsPending(c)' /\ consents'[c].deployment = i.job
             => IsPending(c) /\ c \in i.conss
      BY <1>1, <1>5, <3>1 DEF Standing, IsPending
    <3>4. ASSUME NEW c, consents' = [consents EXCEPT ![c].status = "CANCELLED"],
                 NEW k \in ConsentIds, IsPending(k)'
          PROVE  k # c
      BY <1>0, <3>4 DEF IsPending, Consent
    <3>5. CASE inv'[w].pc = "abortConsent"
      <4>1. PICK c : /\ consents' = [consents EXCEPT ![c].status = "CANCELLED"]
                     /\ inv'[w].conss = i.conss \ {c}
        BY <1>0, <1>1, <3>2, <3>5, AbortTurn
      <4> QED
        BY <3>1, <3>3, <3>4, <3>5, <4>1 DEF Standing, StalePcs
    <3>6. CASE inv'[w].pc = "abortMark"
      <4>1. PICK c : /\ consents' = [consents EXCEPT ![c].status = "CANCELLED"]
                     /\ i.conss = {c}
        BY <1>0, <1>1, <2>3, <3>6, AbortTurn
      <4> QED
        BY <3>1, <3>3, <3>4, <3>6, <4>1 DEF Standing, HasPending, StalePcs
    <3> QED
      BY <2>3, <3>5, <3>6
  <2>4. ASSUME ~AbortQuery(w), ~AbortConsent(w), inv'[w].pc \in {"abortConsent", "abortMark"}
        PROVE  Standing(inv[w])'
    <3>1. inv'[w].pc = "abortMark" /\ i.pc = "abortCancel" /\ inv'[w].job = i.job
      BY <1>0, <1>1, <2>4, AbortTurn
    <3> QED
      BY <1>1, <1>5, <3>1 DEF Standing, HasPending, IsPending, StalePcs
  <2> QED
    BY <2>1, <2>2, <2>3, <2>4
<1>7. CASE ~AbortMark(w)
  <2>1. UNCHANGED jobs
    BY <1>7 DEF AbortCall, AbortQuery, AbortConsent, AbortCancel, AbortClear, tables
  <2> QED
    BY <1>2, <1>4, <1>5, <1>6, <2>1, OfferMove DEF OffersKept
<1>8. CASE AbortMark(w)
  <2>1. i.pc = "abortMark" /\ UNCHANGED <<consents, iot>>
    BY <1>1, <1>8 DEF AbortMark, At, awsVars
  <2>2. \A j \in JobIds : jobs'[j].status = IF j = i.job THEN "CANCELLED" ELSE jobs[j].status
    BY <1>0, <1>1, <1>8, RowSet DEF AbortMark
  <2>3. Offered'
    BY <1>1, <2>1, <2>2 DEF OfferInv, Offered, Standing, HasPending, IsPending, Exists
  <2> QED
    BY <1>2, <1>3, <1>6, <2>3, OfferChange DEF RequestWrites
<1> QED
  BY <1>7, <1>8

LEMMA ConsentOffer ==
    ASSUME OfferInv, SoleInv', "sameSecond" \notin Env, NEW w \in Workers, ConsentCall(w)
    PROVE  OfferInv'
<1>0. Backed /\ consents \in [ConsentIds -> Consent] /\ jobs \in [JobIds -> JobRow]
      /\ iot \in [JobIds -> IotJob]
  BY DEF OfferInv, SoleInv, Backed, TypeOK
<1>1. PICK i \in Invocation : i = inv[w] /\ HandlerTyped(i) /\ HandlerBacked(i)
  BY <1>0, Moving
<1>2. Others(w) /\ inv[w].pc \in RequestPcs /\ inv'[w].pc \in Answering \cup {"idle"}
  BY <1>0, ConsentTurn DEF RequestPcs
<1>3. Standing(inv[w])'
  BY <1>2 DEF Standing, Answering, StalePcs
<1>4. RequestWrites(w)
  BY <1>0, RequestCallWrites DEF RequestCall
<1>5. CASE CreateIot(w)
  <2>1. UNCHANGED <<jobs, consents>>
    BY <1>5 DEF CreateIot, tables
  <2>2. PICK id \in JobIds :
          /\ id = NewId(i.ver)
          /\ \/ UNCHANGED iot
             \/ iot' = [iot EXCEPT ![id] = [status |-> "IN_PROGRESS", dev |-> i.dev,
                                            exec |-> "QUEUED"]]
    BY <1>0, <1>1, <1>5, CreateTurn
  <2>3. jobs[id].status = "NONE" \/ UNCHANGED iot
    BY <1>1, <1>5, <2>2 DEF CreateIot, Usable, Fresh
  <2>4. \A j \in JobIds : Exists(j)' => Exists(j) \/ jobs[j].status = "NONE"
    BY <1>0, <2>2, <2>3 DEF Exists
  <2>5. Offered'
    BY <2>1, <2>4 DEF OfferInv, Offered, IsPending
  <2> QED
    BY <1>2, <1>3, <1>4, <2>5, OfferChange DEF RequestWrites
<1>6. CASE ~CreateIot(w)
  <2>1. \A id \in JobIds : Exists(id)' <=> Exists(id)
    BY <1>4, <1>6 DEF RequestWrites
  <2>2. \A c \in ConsentIds : IsPending(c)' => consents'[c] = consents[c]
    <3>1. CASE Decline(w)
      BY <1>0, <3>1 DEF Decline, IsPending, Consent
    <3>2. CASE WriteConsent(w)
      <4>1. \/ consents' = [consents EXCEPT ![i.cons] =
                               [@ EXCEPT !.status = "ACCEPTED", !.job = i.job]]
            \/ \E c \in ConsentIds :
                  consents' = [consents EXCEPT ![c] =
                    [status |-> "ACCEPTED", dev |-> i.dev, ver |-> i.ver,
                     deployment |-> NoJob, job |-> i.job]]
        BY <1>1, <3>2 DEF WriteConsent
      <4>2. ASSUME NEW c \in ConsentIds, NEW k,
                   consents' = [consents EXCEPT ![k] =
                                  [@ EXCEPT !.status = "ACCEPTED", !.job = i.job]]
            PROVE  consents'[c] = consents[c] \/ consents'[c].status = "ACCEPTED"
        <5>1. consents[c] \in Consent
          BY <1>0
        <5> QED
          BY <1>0, <4>2, <5>1 DEF Consent
      <4>3. ASSUME NEW c \in ConsentIds, NEW k,
                   consents' = [consents EXCEPT ![k] =
                    [status |-> "ACCEPTED", dev |-> i.dev, ver |-> i.ver,
                     deployment |-> NoJob, job |-> i.job]]
            PROVE  consents'[c] = consents[c] \/ consents'[c].status = "ACCEPTED"
        BY <1>0, <4>3
      <4>4. \A c \in ConsentIds : consents'[c] = consents[c] \/ consents'[c].status = "ACCEPTED"
        BY <4>1, <4>2, <4>3
      <4> QED
        BY <4>4 DEF IsPending
    <3> QED
      BY <1>6, <3>1, <3>2
      DEF ConsentCall, FindConsent, ReadPackage, CheckPending, ClearStale, PutJob,
          SetPending, tables
  <2>3. \A id \in JobIds : \/ jobs'[id].status = jobs[id].status
                           \/ Exists(id) /\ jobs'[id].status # "AWAITING_CONSENT"
    <3>1. CASE PutJob(w)
      <4>1. i.job \in JobIds /\ iot[i.job].dev \in Devices
        BY <1>1, <3>1 DEF PutJob, At, HandlerTyped, HandlerBacked
      <4>2. Exists(i.job)
        BY <1>0, <4>1 DEF Backed, IotConsistent
      <4>3. [NoRow EXCEPT !.status = "QUEUED", !.targets = {i.dev}].status = "QUEUED"
        BY DEF NoRow
      <4> QED
        BY <1>0, <1>1, <3>1, <4>1, <4>2, <4>3 DEF PutJob
    <3> QED
      BY <1>6, <3>1
      DEF ConsentCall, FindConsent, Decline, ReadPackage, CheckPending, ClearStale,
          WriteConsent, SetPending, tables
  <2>4. OffersKept
    BY <2>1, <2>2, <2>3 DEF OffersKept
  <2> QED
    BY <1>2, <1>3, <2>4, OfferMove
<1> QED
  BY <1>5, <1>6

LEMMA RecallOffer ==
    ASSUME OfferInv, SoleInv', NEW w \in Workers, RecallCall(w)
    PROVE  OfferInv'
<1>0. Backed /\ jobs \in [JobIds -> JobRow]
  BY DEF OfferInv, SoleInv, Backed, TypeOK
<1>1. PICK i \in Invocation : i = inv[w] /\ HandlerTyped(i) /\ Standing(i)
  BY <1>0, Moving DEF OfferInv
<1>2. Others(w) /\ inv[w].pc \in RequestPcs
  BY <1>0, RecallTurn DEF RequestPcs
<1>3. RequestWrites(w)
  BY <1>0, RequestCallWrites DEF RequestCall
<1>4. \A id \in JobIds : Exists(id)' <=> Exists(id)
  BY <1>1, <1>3 DEF RequestWrites, RecallCall, RecallMark, RecallScan, RecallCancel,
     RecallWrite, CreateIot, At
<1>5. UNCHANGED consents
  BY DEF RecallCall, RecallMark, RecallScan, RecallCancel, RecallWrite, tables
<1>6. \A id \in JobIds : \/ jobs'[id].status = jobs[id].status
                         \/ Exists(id) /\ jobs'[id].status # "AWAITING_CONSENT"
  <2>1. CASE RecallWrite(w)
    <3>1. Exists(i.job)
      BY <1>1, <2>1 DEF RecallWrite, At, Standing
    <3>2. CASE SetRowStatus(i.job, "CANCELLED")
      BY <1>0, <3>1, <3>2, RowSet
    <3> QED
      BY <1>1, <2>1, <3>2 DEF RecallWrite
  <2> QED
    BY <2>1 DEF RecallCall, RecallMark, RecallScan, RecallCancel, tables
<1>7. OffersKept
  BY <1>4, <1>5, <1>6 DEF OffersKept, IsPending
<1>8. \A id \in JobIds : jobs[id].status = "QUEUED" => Exists(id)
  BY <1>0 DEF Backed, RowHasJob
<1>9. Standing(inv[w])'
  <2>1. /\ inv'[w].pc \in {"idle", "recallScan", "recallCancel", "recallWrite"}
        /\ inv'[w].pc \in {"recallCancel", "recallWrite"} =>
              \A id \in inv'[w].ids : id \in JobIds /\ Exists(id)
        /\ inv'[w].pc = "recallWrite" => inv'[w].job \in inv'[w].ids
    <3>1. CASE RecallMark(w)
      BY <1>0, <3>1, RecallTurn
    <3>2. CASE RecallScan(w)
      <4>1. \A id \in QueuedRows(inv[w].ver) : id \in JobIds /\ Exists(id)
        BY <1>8 DEF QueuedRows
      <4> QED
        BY <1>0, <3>2, <4>1, RecallTurn
    <3>3. i.pc \in {"recallCancel", "recallWrite"} =>
             \A id \in i.ids : id \in JobIds /\ Exists(id)
      BY <1>1 DEF Standing, Invocation
    <3>4. CASE RecallCancel(w)
      <4>1. i.pc = "recallCancel"
        BY <1>1, <3>4 DEF RecallCancel, At
      <4> QED
        BY <1>0, <1>1, <3>3, <3>4, <4>1, RecallTurn
    <3>5. CASE RecallWrite(w)
      <4>1. i.pc = "recallWrite"
        BY <1>1, <3>5 DEF RecallWrite, At
      <4> QED
        BY <1>0, <1>1, <3>3, <3>5, <4>1, RecallTurn
    <3> QED
      BY <3>1, <3>2, <3>4, <3>5 DEF RecallCall
  <2> QED
    BY <1>4, <2>1 DEF Standing, StalePcs
<1> QED
  BY <1>2, <1>7, <1>9, OfferMove

LEMMA StartOffer ==
    ASSUME OfferInv, SoleInv', NEW w \in Workers, Request(w)
    PROVE  OfferInv'
<1>0. Backed
  BY DEF OfferInv, SoleInv
<1>1. /\ UNCHANGED <<tables, awsVars>> /\ Others(w)
      /\ inv'[w].pc \in {"deployPut", "findConsent", "abortQuery", "abortCancel",
                         "recallMark"}
      /\ inv'[w].pc = "abortCancel" =>
            jobs[inv'[w].job].status # "AWAITING_CONSENT" /\ inv'[w].job \in JobIds
  BY <1>0, RequestStarts
<1>2. OffersKept
  BY <1>1 DEF OffersKept, tables, awsVars, Exists, IsPending
<1>3. Standing(inv[w])'
  BY <1>1 DEF OfferInv, Offered, Standing, HasPending, IsPending, tables, StalePcs
<1> QED
  BY <1>1, <1>2, <1>3, OfferMove

LEMMA PcAfterReport ==
    ASSUME Backed, NEW w \in Workers,
           DeliverMessage(w) \/ DeliverEvent(w) \/ Crash(w) \/ StatusCall(w) \/ SyncCall(w)
    PROVE  inv'[w].pc \notin StalePcs
<1>1. PICK i \in Invocation : i = inv[w]
  BY Moving
<1>2. Return(w) => inv'[w].pc \notin StalePcs
  BY GoesHome DEF StalePcs
<1>3. ASSUME NEW p \in {"clearDevice", "markTerminal"}, Goto(w, p)
      PROVE  inv'[w].pc \notin StalePcs
  BY <1>3, GoesTo DEF StalePcs
<1>4. ASSUME NEW r, Become(w, r), r.pc \notin StalePcs PROVE inv'[w].pc \notin StalePcs
  BY <1>4, BecomesAt
<1>5. ASSUME NEW m \in msgs, StatusReceive(w, m) PROVE inv'[w].pc \notin StalePcs
  <2>1. [Idle EXCEPT !.pc = "aggregate", !.job = m.job, !.stat = m.status,
                     !.dev = iot[m.job].dev].pc \notin StalePcs
    BY DEF Idle, StalePcs
  <2> QED
    BY <1>4, <1>5, <2>1 DEF StatusReceive
<1>6. ASSUME NEW e \in events, LifecycleReceive(w, e) PROVE inv'[w].pc \notin StalePcs
  <2>1. [Idle EXCEPT !.pc = "syncWrite", !.job = e.job, !.stat = "CANCELLED"].pc \notin StalePcs
    BY DEF Idle, StalePcs
  <2>2. [Idle EXCEPT !.pc = "describeCounts", !.job = e.job].pc \notin StalePcs
    BY DEF Idle, StalePcs
  <2> QED
    BY <1>2, <1>4, <1>6, <2>1, <2>2 DEF LifecycleReceive
<1>7. CASE ReadAggregate(w)
  <2>1. \A a : [i EXCEPT !.pc = "updateRow", !.agg = a].pc \notin StalePcs
    BY DEF Invocation, StalePcs
  <2> QED
    BY <1>1, <1>4, <1>7, <2>1 DEF ReadAggregate
<1>8. CASE DescribeCounts(w)
  <2>1. \A s : [i EXCEPT !.pc = "syncWrite", !.stat = s].pc \notin StalePcs
    BY DEF Invocation, StalePcs
  <2> QED
    BY <1>1, <1>2, <1>4, <1>8, <2>1 DEF DescribeCounts
<1> QED
  BY <1>2, <1>3, <1>5, <1>6, <1>7, <1>8
  DEF DeliverMessage, DeliverEvent, Crash, StatusCall, SyncCall, UpdateRow, ClearDevice,
      MarkTerminal, SyncWrite

LEMMA FollowUpOffer ==
    ASSUME OfferInv, SoleInv', NEW w \in Workers, FollowUp(w)
    PROVE  OfferInv'
<1>0. Backed /\ jobs \in [JobIds -> JobRow]
  BY DEF OfferInv, SoleInv, Backed, TypeOK
<1>1. PICK i \in Invocation : i = inv[w] /\ HandlerTyped(i) /\ HandlerBacked(i) /\ Standing(i)
  BY <1>0, Moving DEF OfferInv
<1>2. FollowUpWrites(w)
  BY <1>0, FollowUpTurn
<1>3. \A id \in JobIds : Exists(id)' <=> Exists(id)
  BY <1>0, FollowUpJobs
<1>4. i.pc \in WritingPcs => Exists(i.job)
  BY <1>0, <1>1 DEF WritingPcs, HandlerTyped, HandlerBacked, Standing, Backed, IotConsistent
<1>5. OffersKept
  BY <1>1, <1>2, <1>3, <1>4 DEF OffersKept, FollowUpWrites, IsPending, Waiting
<1>6. Standing(inv[w])'
  <2>1. CASE StaleCheck(w) \/ StaleCall(w)
    <3>1. \A id \in StaleRows : id \in JobIds /\ Exists(id)
      BY <1>0 DEF Backed, RowHasJob, TypeOK, StaleRows, LiveStatus
    <3>2. i.pc \in StalePcs => \A id \in i.ids : id \in JobIds /\ Exists(id)
      BY <1>1 DEF Standing, Invocation
    <3>3. i.pc = "staleCancel" => i.job \in JobIds /\ Exists(i.job)
      BY <1>1 DEF Standing, HandlerTyped
    <3>4. /\ inv'[w].pc \in StalePcs \cup {"idle"}
          /\ inv'[w].pc \in StalePcs => \A id \in inv'[w].ids : id \in JobIds /\ Exists(id)
          /\ inv'[w].pc \in {"staleCancel", "staleWrite"} =>
                inv'[w].job \in JobIds /\ Exists(inv'[w].job)
      BY <1>0, <1>1, <2>1, <3>1, <3>2, <3>3, StaleTurn DEF StalePcs
    <3> QED
      BY <1>3, <3>4 DEF Standing, StalePcs
  <2>2. CASE ~(StaleCheck(w) \/ StaleCall(w))
    <3>1. inv'[w].pc \in StatusPcs \cup SyncPcs \cup {"idle"}
      BY <1>0, <1>2, <2>2, PcAfterReport DEF FollowUp, FollowUpWrites
    <3> QED
      BY <3>1 DEF Standing, StalePcs
  <2> QED
    BY <2>1, <2>2
<1> QED
  BY <1>2, <1>5, <1>6, OfferMove DEF FollowUpWrites

LEMMA OutsideOffer ==
    ASSUME OfferInv, SoleInv', Device \/ Aws \/ Tick \/ WeekPasses \/ UNCHANGED vars
    PROVE  OfferInv'
<1>0. Backed
  BY DEF OfferInv, SoleInv
<1>1. UNCHANGED <<inv, consents, jobs>>
  BY InvStill
<1>2. OffersKept
  BY <1>0, <1>1, OutsideJobs DEF OffersKept, IsPending
<1>3. Offered'
  BY <1>2, OffersStand
<1>4. ASSUME NEW w \in Workers PROVE Standing(inv[w])'
  <2>1. PICK i \in Invocation : i = inv[w] /\ i = inv'[w] /\ HandlerTyped(i) /\ Standing(i)
    BY <1>0, <1>1, Moving DEF OfferInv
  <2>2. Standing(i)'
    BY <1>2, <2>1, OffersStand
  <2> QED
    BY <2>1, <2>2 DEF Standing
<1> QED
  BY <1>3, <1>4 DEF OfferInv

LEMMA OfferNext ==
    ASSUME OfferInv, "overlap" \notin Env, "sameSecond" \notin Env, [Next]_vars
    PROVE  OfferInv'
<1>0. Backed /\ SoleInv'
  BY SoleNext DEF OfferInv, SoleInv
<1>1. ASSUME NEW w \in Workers, RequestCall(w) PROVE OfferInv'
  BY <1>0, <1>1, DeployOffer, AbortOffer, ConsentOffer, RecallOffer DEF RequestCall
<1> QED
  BY <1>0, <1>1, StartOffer, FollowUpOffer, OutsideOffer, Steps

LEMMA OfferInit ==
    ASSUME Init
    PROVE  OfferInv
<1>1. \A w \in Workers : inv[w].pc = "idle"
  BY DEF Init, Idle
<1>2. \A w \in Workers : Standing(inv[w])
  BY <1>1 DEF Standing, StalePcs
<1>3. Offered
  BY DEF Init, Offered, IsPending, NoConsent, NoRow, Exists
<1> QED
  BY <1>2, <1>3, SoleInit DEF OfferInv

(* While requests do not overlap and no second gives out two ids of a      *)
(* version, an aborted deployment offers nothing: a record stays PENDING   *)
(* only while its deployment waits for consent, even when the abort, or    *)
(* the deployment itself, died half-way.                                   *)
THEOREM AbortTakesOffersBack ==
    "overlap" \notin Env /\ "sameSecond" \notin Env => (Spec => []AbortedOffersNothing)
<1> SUFFICES ASSUME "overlap" \notin Env, "sameSecond" \notin Env
             PROVE  Spec => []AbortedOffersNothing
  OBVIOUS
<1>1. OfferInv => AbortedOffersNothing
  BY DEF OfferInv, Offered, IsPending, AbortedOffersNothing
<1> QED
  BY <1>1, OfferInit, OfferNext, PTL DEF Spec

----------------------------------------------------------------------------
(* What a recall leaves in the queue                                       *)

(* The running recall has still to come to the job id.                     *)
Recalling(i, id) == \/ i.pc = "recallScan" /\ i.ver = id[1]
                    \/ i.pc \in {"recallCancel", "recallWrite"} /\ id \in i.ids

(* From the read of the package to the row, an acceptance knows that its   *)
(* version is offered.                                                     *)
StillOffered(i) ==
    /\ i.pc \in {"checkPending", "clearStale", "createIot", "writeConsent", "putJob"}
          => package[i.ver] = "ACTIVE"
    /\ i.pc \in {"writeConsent", "putJob"} => i.job[1] = i.ver

RecallHeld ==
    \A id \in JobIds : package[id[1]] = "RECALLED" /\ jobs[id].status = "QUEUED"
        => \E w \in Workers : Recalling(inv[w], id)

RecallInv == SoleInv /\ RecallHeld /\ \A w \in Workers : StillOffered(inv[w])

(* Only an acceptance puts a row into the queue.                           *)
LEMMA QueuedByPut ==
    ASSUME Backed, NEW w \in Workers, RequestCall(w), ~PutJob(w),
           NEW id \in JobIds, jobs'[id].status = "QUEUED"
    PROVE  jobs[id].status = "QUEUED"
<1>1. jobs \in [JobIds -> JobRow]
  BY DEF Backed, TypeOK
<1>2. PICK i : i = inv[w]
  OBVIOUS
<1>3. CASE DeployPut(w)
  <2>1. [NoRow EXCEPT !.status = "AWAITING_CONSENT", !.type = i.type,
                      !.targets = i.devs].status = "AWAITING_CONSENT"
    BY DEF NoRow
  <2> QED
    BY <1>1, <1>2, <1>3, <2>1 DEF DeployPut
<1>4. ASSUME NEW k, SetRowStatus(k, "CANCELLED") PROVE jobs[id].status = "QUEUED"
  BY <1>4, RowSet
<1>5. CASE AbortMark(w)
  BY <1>4, <1>5 DEF AbortMark
<1>6. CASE RecallWrite(w)
  BY <1>4, <1>6 DEF RecallWrite
<1> QED
  BY <1>3, <1>5, <1>6
  DEF RequestCall, DeployCall, AbortCall, ConsentCall, RecallCall, DeployConsent,
      DeployConsentFails, AbortQuery, AbortConsent, AbortCancel, AbortClear, FindConsent,
      Decline, ReadPackage, CheckPending, ClearStale, CreateIot, WriteConsent, SetPending,
      RecallMark, RecallScan, RecallCancel, tables

(* The only request there is: the others hold nothing the invariant needs. *)
LEMMA OthersOffered ==
    ASSUME RecallInv, NEW w \in Workers, Others(w), inv[w].pc \in RequestPcs
    PROVE  /\ \A u \in Workers \ {w} : StillOffered(inv[u])'
           /\ \A u \in Workers \ {w}, id \in JobIds : ~Recalling(inv[u], id)
<1>1. \A u \in Workers \ {w} : inv[u].pc \notin RequestPcs /\ inv'[u].pc = inv[u].pc
  BY DEF RecallInv, SoleInv, Alone, Others
<1> QED
  BY <1>1 DEF StillOffered, Recalling, RequestPcs, RecallPcs

LEMMA ConsentRecall ==
    ASSUME RecallInv, SoleInv', NEW w \in Workers, ConsentCall(w)
    PROVE  RecallInv'
<1>0. Backed /\ jobs \in [JobIds -> JobRow]
  BY DEF RecallInv, SoleInv, Backed, TypeOK
<1>1. PICK i \in Invocation : i = inv[w] /\ HandlerTyped(i) /\ StillOffered(i)
  BY <1>0, Moving DEF RecallInv
<1>2. Others(w) /\ i.pc \in ConsentPcs /\ inv[w].pc \in RequestPcs
  BY <1>0, <1>1, ConsentTurn DEF RequestPcs
<1>3. UNCHANGED package
  BY DEF ConsentCall, FindConsent, Decline, ReadPackage, CheckPending, ClearStale,
     CreateIot, WriteConsent, PutJob, SetPending, tables
<1>4. ASSUME NEW id \in JobIds, package[id[1]] = "RECALLED" PROVE jobs[id].status # "QUEUED"
  <2>1. \A u \in Workers : ~Recalling(inv[u], id)
    BY <1>1, <1>2, OthersOffered DEF Recalling
  <2> QED
    BY <1>4, <2>1 DEF RecallInv, RecallHeld
<1>5. ASSUME NEW id \in JobIds, package[id[1]] = "RECALLED" PROVE jobs'[id].status # "QUEUED"
  <2>1. CASE PutJob(w)
    <3>1. package[i.job[1]] = "ACTIVE"
      BY <1>1, <2>1 DEF PutJob, At, StillOffered
    <3>2. id # i.job
      BY <1>5, <3>1
    <3>3. jobs'[id] = jobs[id]
      BY <1>0, <1>1, <2>1, <3>2 DEF PutJob
    <3> QED
      BY <1>4, <1>5, <3>3
  <2>2. CASE ~PutJob(w)
    BY <1>0, <1>4, <1>5, <2>2, QueuedByPut DEF RequestCall
  <2> QED
    BY <2>1, <2>2
<1>6. RecallHeld'
  BY <1>3, <1>5 DEF RecallHeld
<1>7. StillOffered(inv[w])'
  <2>1. CASE inv'[w].pc \in {"checkPending", "clearStale", "createIot", "writeConsent", "putJob"}
    <3>1. inv'[w].pc \in Answering /\ inv'[w].ver = i.ver
      BY <1>0, <1>1, <2>1, ConsentTurn DEF Answering, Same
    <3>2. package[i.ver] = "ACTIVE"
      <4>1. CASE inv'[w].pc \in {"checkPending", "createIot"}
        BY <1>0, <1>1, <4>1, ConsentTurn DEF StillOffered
      <4>2. CASE inv'[w].pc = "clearStale"
        BY <1>0, <1>1, <4>2, ConsentTurn DEF StillOffered
      <4>3. CASE inv'[w].pc = "writeConsent"
        BY <1>0, <1>1, <4>3, ConsentTurn DEF StillOffered, CreateIot, At
      <4>4. CASE inv'[w].pc = "putJob"
        BY <1>0, <1>1, <4>4, ConsentTurn DEF StillOffered, WriteConsent, At
      <4> QED
        BY <2>1, <4>1, <4>2, <4>3, <4>4
    <3>3. inv'[w].pc = "writeConsent" => inv'[w].job[1] = i.ver
      <4>1. inv'[w].pc = "writeConsent" => inv'[w].job = NewId(i.ver)
        BY <1>0, <1>1, ConsentTurn
      <4>2. NewId(i.ver)[1] = i.ver
        BY DEF NewId
      <4> QED
        BY <4>1, <4>2
    <3>4. inv'[w].pc = "putJob" => inv'[w].job[1] = i.ver
      <4>1. inv'[w].pc = "putJob" => /\ WriteConsent(w)
                                     /\ inv'[w].job = i.job
        BY <1>0, <1>1, <3>1, ConsentTurn
      <4> QED
        BY <1>1, <4>1 DEF WriteConsent, At, StillOffered
    <3> QED
      BY <1>3, <3>1, <3>2, <3>3, <3>4 DEF StillOffered
  <2>2. CASE inv'[w].pc \notin {"checkPending", "clearStale", "createIot", "writeConsent", "putJob"}
    BY <2>2 DEF StillOffered
  <2> QED
    BY <2>1, <2>2
<1> QED
  BY <1>2, <1>6, <1>7, OthersOffered DEF RecallInv

(* A deployment or an abort.                                               *)
LEMMA AdminRecall ==
    ASSUME RecallInv, SoleInv', NEW w \in Workers, DeployCall(w) \/ AbortCall(w)
    PROVE  RecallInv'
<1>0. Backed
  BY DEF RecallInv, SoleInv
<1>1. /\ Others(w) /\ inv[w].pc \in RequestPcs \ RecallPcs
      /\ inv'[w].pc \in AbortPcs \cup {"deployConsent", "idle"}
  BY <1>0, DeployTurn, AbortTurn DEF RequestPcs, DeployPcs, RecallPcs
<1>2. UNCHANGED package /\ ~PutJob(w)
  BY <1>1 DEF DeployCall, AbortCall, DeployPut, DeployConsent, DeployConsentFails, AbortQuery,
     AbortConsent, AbortCancel, AbortMark, AbortClear, tables, PutJob, At
<1>3. \A u \in Workers, id \in JobIds : ~Recalling(inv[u], id)
  BY <1>1, OthersOffered DEF Recalling, RecallPcs
<1>4. RecallHeld'
  BY <1>0, <1>2, <1>3, QueuedByPut DEF RecallInv, RecallHeld, RequestCall
<1>5. StillOffered(inv[w])'
  BY <1>1 DEF StillOffered
<1> QED
  BY <1>1, <1>4, <1>5, OthersOffered DEF RecallInv

LEMMA RecallRecall ==
    ASSUME RecallInv, SoleInv', MaxCrash = 0, NEW w \in Workers, RecallCall(w)
    PROVE  RecallInv'
<1>0. Backed /\ package \in [Versions -> PackageStatus]
  BY DEF RecallInv, SoleInv, Backed, TypeOK
<1>1. PICK i \in Invocation : i = inv[w]
  BY <1>0, Moving
<1>2. /\ Others(w) /\ inv[w].pc \in RequestPcs
      /\ inv'[w].pc \in RecallPcs \cup {"idle"}
  BY <1>0, RecallTurn DEF RequestPcs
<1>3. StillOffered(inv[w])'
  BY <1>2 DEF StillOffered, RecallPcs
<1>4. ~PutJob(w)
  BY DEF RecallCall, RecallMark, RecallScan, RecallCancel, RecallWrite, PutJob, At
<1>5. \A id \in JobIds : jobs'[id].status = "QUEUED" => jobs[id].status = "QUEUED"
  BY <1>0, <1>4, QueuedByPut DEF RequestCall
<1>6. \A id \in JobIds : package[id[1]] = "RECALLED" /\ jobs[id].status = "QUEUED"
         => Recalling(i, id)
  BY <1>1, <1>2, OthersOffered DEF RecallInv, RecallHeld
<1>7. ASSUME NEW id \in JobIds, package'[id[1]] = "RECALLED", jobs'[id].status = "QUEUED"
      PROVE  Recalling(inv[w], id)'
  <2>1. CASE RecallMark(w)
    <3>1. i.pc = "recallMark" /\ package' = [package EXCEPT ![i.ver] = "RECALLED"]
      BY <1>1, <2>1 DEF RecallMark, At
    <3>2. package[id[1]] # "RECALLED"
      BY <1>5, <1>6, <1>7, <3>1 DEF Recalling
    <3>3. id[1] = i.ver
      BY <1>0, <1>7, <3>1, <3>2
    <3>4. inv'[w].pc = "recallScan" /\ inv'[w].ver = i.ver
      BY <1>0, <1>1, <2>1, GoesTo DEF RecallMark, Same
    <3> QED
      BY <3>3, <3>4 DEF Recalling
  <2>2. ~RecallMark(w) => UNCHANGED package
    BY DEF RecallCall, RecallScan, RecallCancel, RecallWrite, tables
  <2>3. CASE RecallScan(w)
    <3>1. i.pc = "recallScan" /\ UNCHANGED package
      BY <1>1, <2>2, <2>3 DEF RecallScan, RecallMark, At
    <3>2. id \in QueuedRows(i.ver)
      BY <1>5, <1>6, <1>7, <3>1 DEF Recalling, QueuedRows
    <3>3. inv'[w].pc = "recallCancel" /\ inv'[w].ids = QueuedRows(i.ver)
      BY <1>0, <1>1, <2>3, <3>2, RecallTurn
    <3> QED
      BY <3>2, <3>3 DEF Recalling
  <2>4. CASE RecallCancel(w)
    <3>1. i.pc = "recallCancel" /\ UNCHANGED package
      BY <1>1, <2>2, <2>4 DEF RecallCancel, RecallMark, At
    <3>2. id \in i.ids
      BY <1>5, <1>6, <1>7, <3>1 DEF Recalling
    <3>3. inv'[w].pc = "recallWrite" /\ inv'[w].ids = i.ids
      BY <1>0, <1>1, <2>4, RecallTurn
    <3> QED
      BY <3>2, <3>3 DEF Recalling
  <2>5. CASE RecallWrite(w)
    <3>1. i.pc = "recallWrite" /\ UNCHANGED package
      BY <1>1, <2>2, <2>5 DEF RecallWrite, RecallMark, At
    <3>2. id \in i.ids
      BY <1>5, <1>6, <1>7, <3>1 DEF Recalling
    <3>3. SetRowStatus(i.job, "CANCELLED")
      BY <1>0, <1>1, <2>5, NoCrash DEF RecallWrite
    <3>4. id # i.job
      BY <1>0, <1>7, <3>3, RowSet
    <3>5. inv'[w].pc = "recallCancel" /\ inv'[w].ids = i.ids \ {i.job}
      BY <1>0, <1>1, <2>5, <3>2, <3>4, RecallTurn
    <3> QED
      BY <3>2, <3>4, <3>5 DEF Recalling
  <2> QED
    BY <2>1, <2>3, <2>4, <2>5 DEF RecallCall
<1>8. RecallHeld'
  BY <1>7 DEF RecallHeld
<1> QED
  BY <1>2, <1>3, <1>8, OthersOffered DEF RecallInv

(* What no request does leaves the queue and the recalls as they were.     *)
LEMMA ElseRecall ==
    ASSUME RecallInv, SoleInv', UNCHANGED package,
           \A id \in JobIds : jobs'[id].status = "QUEUED" => jobs[id].status = "QUEUED",
           \A w \in Workers : \/ inv'[w] = inv[w]
                              \/ /\ inv[w].pc \notin RequestPcs
                                 /\ inv'[w].pc \notin Answering
    PROVE  RecallInv'
<1>1. ASSUME NEW w \in Workers, NEW id \in JobIds, Recalling(inv[w], id)
      PROVE  Recalling(inv[w], id)'
  BY <1>1 DEF Recalling, RequestPcs, RecallPcs
<1>2. RecallHeld'
  BY <1>1 DEF RecallInv, RecallHeld
<1>3. ASSUME NEW w \in Workers PROVE StillOffered(inv[w])'
  BY DEF RecallInv, StillOffered, Answering
<1> QED
  BY <1>2, <1>3 DEF RecallInv

LEMMA RecallNext ==
    ASSUME RecallInv, "overlap" \notin Env, MaxCrash = 0, [Next]_vars
    PROVE  RecallInv'
<1>0. Backed /\ SoleInv'
  BY SoleNext DEF RecallInv, SoleInv
<1>1. ASSUME NEW w \in Workers, RequestCall(w) PROVE RecallInv'
  BY <1>0, <1>1, ConsentRecall, AdminRecall, RecallRecall DEF RequestCall
<1>2. ASSUME NEW w \in Workers, Request(w) PROVE RecallInv'
  <2>1. /\ UNCHANGED <<package, jobs>> /\ Others(w) /\ inv[w].pc = "idle"
        /\ inv'[w].pc \notin Answering
    BY <1>0, <1>2, RequestStarts DEF tables, At, Answering
  <2> QED
    BY <1>0, <2>1, PcsApart, ElseRecall DEF Others
<1>3. ASSUME NEW w \in Workers, FollowUp(w) PROVE RecallInv'
  <2>1. FollowUpWrites(w) /\ ~Crash(w)
    BY <1>0, <1>3, FollowUpTurn, NoCrash
  <2>2. \A id \in JobIds : jobs'[id].status = "QUEUED" => jobs[id].status = "QUEUED"
    BY <2>1 DEF FollowUpWrites, Waiting
  <2>3. inv'[w].pc \notin Answering
    BY <2>1 DEF FollowUpWrites, Answering, StalePcs
  <2>4. inv[w].pc \notin RequestPcs
    BY <1>3, <2>1, PcsApart
    DEF FollowUp, StaleCheck, DeliverMessage, DeliverEvent, StatusCall, SyncCall, StaleCall,
        StaleStart, StatusReceive, LifecycleReceive, ReadAggregate, UpdateRow, ClearDevice,
        MarkTerminal, DescribeCounts, SyncWrite, StaleDescribe, StaleCancel, StaleWrite, At,
        StalePcs
  <2> QED
    BY <1>0, <2>1, <2>2, <2>3, <2>4, ElseRecall DEF FollowUpWrites, Others
<1>4. CASE Device \/ Aws \/ Tick \/ WeekPasses \/ UNCHANGED vars
  <2>1. UNCHANGED <<inv, jobs, package>>
    BY <1>4, InvStill
  <2> QED
    BY <1>0, <2>1, ElseRecall
<1> QED
  BY <1>1, <1>2, <1>3, <1>4, Steps

LEMMA RecallInit ==
    ASSUME Init
    PROVE  RecallInv
<1>1. \A w \in Workers : inv[w].pc = "idle"
  BY DEF Init, Idle
<1>2. \A w \in Workers : StillOffered(inv[w])
  BY <1>1 DEF StillOffered
<1>3. RecallHeld
  BY DEF Init, RecallHeld, NoRow
<1> QED
  BY <1>2, <1>3, SoleInit DEF RecallInv

(* While requests do not overlap and no handler dies, a recall leaves no   *)
(* queued job of the version, and no acceptance puts one there afterwards. *)
THEOREM RecallEmptiesQueue ==
    "overlap" \notin Env /\ MaxCrash = 0 => (Spec => []RecalledNotQueued)
<1> SUFFICES ASSUME "overlap" \notin Env, MaxCrash = 0
             PROVE  Spec => []RecalledNotQueued
  OBVIOUS
<1>1. RecallInv => RecalledNotQueued
  <2>1. ASSUME NEW w \in Workers, At(w, "idle"), NEW id \in JobIds
        PROVE  ~Recalling(inv[w], id)
    BY <2>1 DEF At, Recalling
  <2> QED
    BY <2>1 DEF RecallInv, RecallHeld, RecalledNotQueued, Settled, Backed, TypeOK
<1> QED
  BY <1>1, RecallInit, RecallNext, PTL DEF Spec
=============================================================================
