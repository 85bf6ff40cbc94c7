------------------------------ MODULE OtaAgent ------------------------------
(***************************************************************************)
(* The OTA agent of the controller: a thread for every job message, its    *)
(* report, and the agent that dies and is started again.                   *)
(***************************************************************************)
EXTENDS Downloader, UpdateHandlers, PeripheralHandlers

Init ==
    /\ kind = [j \in Jobs |-> "firmware"]   \* chosen when the job is made
    /\ silent = {} /\ missed = {} /\ agent = "up"
    /\ listener = NoThread /\ z2m = {}
    /\ tree = [k \in Kinds |-> First]
    /\ backups = [k \in Kinds |-> <<>>]
    /\ taken = [k \in Kinds |-> 0]
    /\ bad = [k \in Kinds |-> 0]
    /\ tmp = [j \in Jobs |-> NoFile]
    /\ dest = [j \in Jobs |-> NoFile]
    /\ svc = TRUE
    /\ saved = [k \in Kinds |-> 0]
    /\ versions = saved
    /\ told = [j \in Jobs |-> "NONE"]
    /\ alarms = {}
    /\ notices = [j \in Jobs |-> 0]
    /\ th = [t \in Threads |-> Idle]
    /\ crashes = 0

Ended(j) == told[j] \in Results
AtRest   == \A t \in Threads : At(t, "idle")

(* The next pending job of the thing, the message that AWS IoT sends when  *)
(* it changes, and its answer to $next/get.                                *)
Pending(status) == {j \in Jobs : status[j] \in {"QUEUED", "IN_PROGRESS"}}
IsNext(status, j) == j \in Pending(status) /\ \A i \in Pending(status) : j <= i

Send(js) ==
    /\ notices' = [j \in Jobs |-> IF j \in js /\ notices[j] < MaxNotices THEN notices[j] + 1
                                 ELSE notices[j]]
    /\ missed' = missed \ js
NotifyNext(status) == Send({j \in Jobs : IsNext(status, j) /\ ~IsNext(told, j)})
RequestNext == Send({j \in Jobs : IsNext(told, j)})

(* The backend creates one job at a time for a device; the thread of the   *)
(* one before may still be running.  The configKey may have no file yet.   *)
Create(j) ==
    /\ told[j] = "NONE"
    /\ \A i \in Jobs : i < j => Ended(i)
    /\ told' = [told EXCEPT ![j] = "QUEUED"]
    /\ NotifyNext(told')
    /\ \E k \in IF j \in Firmware THEN {"firmware"} ELSE Kinds :
          /\ kind' = [kind EXCEPT ![j] = k]
          /\ silent' \in {silent, silent \cup {j}}
          /\ tree' \in {tree} \cup IF k = "config" THEN {[tree EXCEPT ![k] = Gone]} ELSE {}
    /\ UNCHANGED <<backups, taken, bad, tmp, dest, svc, saved, versions, alarms, th, crashes,
                   agent, listener, z2m>>

(* A message that no job is started for; nobody sends it again.            *)
Unheard(j) ==
    /\ notices[j] > 0
    /\ notices' = [notices EXCEPT ![j] = @ - 1]
    /\ missed' = IF notices[j] = 1 THEN missed \cup {j} ELSE missed
    /\ UNCHANGED <<disk, tmp, dest, svc, saved, versions, said, th, crashes, kind, silent, agent,
                   listener, z2m>>

(* The session is clean: what is published while the client is not         *)
(* connected is not kept for it, and _on_connect only subscribes.          *)
Lose(j) == Drops /\ Unheard(j)

Listening == agent = "up" /\ listener = NoThread

(* A document without an operation is logged, and not answered.            *)
Ignore(j) == Listening /\ j \in silent /\ Unheard(j)

(* The Zigbee handler's on_message has no use for it.                      *)
Overhear(j) == agent = "up" /\ listener # NoThread /\ Unheard(j)

(* Every message starts a thread, whatever the others are doing.           *)
Receive(t, j) ==
    /\ At(t, "idle") /\ Listening /\ notices[j] > 0 /\ j \notin silent
    /\ notices' = [notices EXCEPT ![j] = @ - 1]
    /\ told' = [told EXCEPT ![j] = IF Ended(j) THEN @ ELSE "IN_PROGRESS"]
    /\ Become(t, [Idle EXCEPT !.pc = "unlink", !.job = j, !.tries = 1, !.was = tree[Kind(j)]])
    /\ UNCHANGED <<disk, tmp, dest, svc, saved, versions, alarms, crashes, routing>>

(* The document lacks the artefact, or its operation is not known.         *)
Refuse(t, j) ==
    /\ At(t, "idle") /\ Listening /\ notices[j] > 0 /\ j \notin silent
    /\ told' = [told EXCEPT ![j] = IF Ended(j) THEN @ ELSE "REFUSED"]
    /\ notices' = [notices EXCEPT ![j] = @ - 1]
    /\ UNCHANGED <<disk, tmp, dest, svc, saved, versions, alarms, th, crashes, routing>>

(* The file is written whole, or the error reported as any other.          *)
SaveVersions(t) ==
    /\ At(t, "save")
    /\ versions' = [versions EXCEPT ![K(t)] = th[t].job]
    /\ \/ /\ saved' = versions'
          /\ th' = [th EXCEPT ![t].pc = "report", ![t].out = "SUCCEEDED"]
       \/ Raise(t) /\ UNCHANGED saved
    /\ UNCHANGED <<disk, tmp, dest, svc, said, notices, crashes, routing>>

(* Mutant: a status that AWS IoT does not know.                            *)
ReportRejected(t) ==
    /\ At(t, "report")
    /\ told' = [told EXCEPT ![th[t].job] = "REJECTED"]
    /\ Goto(t, "cleanup")
    /\ UNCHANGED <<disk, tmp, dest, svc, saved, versions, alarms, notices, crashes, routing>>

(* AWS IoT rejects the report of a job that has ended; TOPIC_OTA_STATUS    *)
(* carries it nevertheless.  An agent that stops has disconnected.         *)
Report(t) ==
    LET j == th[t].job IN
    /\ At(t, "report")
    /\ \/ /\ told' = [told EXCEPT ![j] = IF Ended(j) THEN @ ELSE th[t].out]
          /\ alarms' = IF th[t].out = "NEEDS_RECOVERY" THEN alarms \cup {j} ELSE alarms
          /\ NotifyNext(told')
       \/ agent = "stopping" /\ UNCHANGED <<said, notices, missed>>
    /\ Goto(t, "cleanup")
    /\ UNCHANGED <<disk, tmp, dest, svc, saved, versions, crashes, kind, silent, agent,
                   listener, z2m>>

Cleanup(t) ==
    /\ At(t, "cleanup")
    /\ dest' = [dest EXCEPT ![th[t].job] = NoFile]
    /\ Goto(t, "next")
    /\ UNCHANGED <<disk, tmp, svc, saved, versions, said, notices, crashes, routing>>

NextJob(t) ==
    /\ At(t, "next")
    /\ RequestNext
    /\ Become(t, Idle)
    /\ UNCHANGED <<disk, tmp, dest, svc, saved, versions, said, crashes, kind, silent, agent,
                   listener, z2m>>

(* The process ends, and its threads with it.                              *)
Dies ==
    /\ th' = [t \in Threads |-> Idle]
    /\ tmp' = [j \in Jobs |-> [tmp[j] EXCEPT !.by = NoThread]]
    /\ dest' = [j \in Jobs |-> [dest[j] EXCEPT !.by = NoThread]]
    /\ listener' = NoThread

(* SIGTERM, then the controller's stop: the exit is a clean one, after     *)
(* which systemd starts neither again.                                     *)
Shutdown ==
    /\ agent = "stopping" /\ agent' = "stopped"
    /\ svc' \in {FALSE, svc}
    /\ Dies
    /\ UNCHANGED <<disk, saved, versions, said, notices, crashes, kind, silent, missed, z2m>>

(* The unit's start: it Requires= the controller's, After= it, and fails   *)
(* with it; by itself it may reach the limit of starts.                    *)
Started == svc' \in BOOLEAN /\ agent' \in {"up", "stopped"} /\ (agent' = "up" => svc')

(* Mutant: start() waits for a notification.                               *)
CrashThenWait ==
    /\ crashes < MaxCrashes
    /\ crashes' = crashes + 1
    /\ Dies /\ Started
    /\ versions' = saved
    /\ notices' = [j \in Jobs |-> 0] /\ missed' = {}
    /\ UNCHANGED <<disk, saved, said, kind, silent, z2m>>

(* The agent dies, by the watchdog or an error, and Restart=on-failure     *)
(* starts it; or the controller boots.  start() asks for the next job.     *)
Crash ==
    /\ crashes < MaxCrashes
    /\ crashes' = crashes + 1
    /\ Dies /\ Started
    /\ versions' = saved
    /\ notices' = [j \in Jobs |-> IF IsNext(told, j) THEN 1 ELSE 0] /\ missed' = {}
    /\ UNCHANGED <<disk, saved, said, kind, silent, z2m>>

Step(t) ==
    \/ UnlinkTmp(t) \/ OpenTmp(t) \/ StreamDone(t) \/ StreamFails(t) \/ Verify(t) \/ MoveTmp(t)
    \/ BackupStart(t) \/ BackupDone(t) \/ BackupFails(t)
    \/ StopService(t) \/ ClearDriver(t) \/ InstallStart(t) \/ InstallDone(t)
    \/ StartService(t) \/ HealthCheck(t)
    \/ Rollback(t) \/ RestoreStart(t) \/ RestoreDone(t) \/ RestartService(t)
    \/ BackupFileStart(t) \/ BackupFileDone(t) \/ ApplyConfig(t)
    \/ RestoreFileStart(t) \/ RestoreFileDone(t)
    \/ StageZigbee(t) \/ Listen(t) \/ RequestZigbee(t)
    \/ Answered(t) \/ ZigbeeTimeout(t) \/ Unlisten(t)
    \/ SaveVersions(t) \/ Report(t) \/ Cleanup(t) \/ NextJob(t)

Next ==
    \/ \E j \in Jobs : Create(j) \/ Lose(j) \/ Ignore(j) \/ Overhear(j) \/ AnswerZigbee(j)
    \/ \E t \in Threads : Step(t) \/ \E j \in Jobs : Receive(t, j) \/ Refuse(t, j)
    \/ Shutdown \/ Crash

Spec == Init /\ [][Next]_vars

(* The threads run, a stop of the agent ends, and paho hands over what has *)
(* reached the client.  Nothing is promised of what is published while it  *)
(* is not connected, nor that a stopped agent is started.                  *)
FairSpec ==
    /\ Spec
    /\ \A t \in Threads : WF_vars(Step(t) \/ \E j \in Jobs : Receive(t, j) \/ Refuse(t, j))
    /\ WF_vars(\E j \in Jobs : Ignore(j) \/ Overhear(j))
    /\ WF_vars(Shutdown)

----------------------------------------------------------------------------
(* Invariants                                                              *)

TypeOK ==
    /\ kind \in [Jobs -> Kinds] /\ silent \subseteq Jobs
    /\ listener \in Threads \cup {NoThread} /\ z2m \subseteq Jobs
    /\ agent \in {"up", "stopping", "stopped"} /\ missed \subseteq Jobs
    /\ tree \in [Kinds -> Tree]
    /\ backups \in [Kinds -> Seq(Backup)]
    /\ taken \in [Kinds -> Nat] /\ bad \in [Kinds -> Nat]
    /\ tmp \in [Jobs -> Download] /\ dest \in [Jobs -> Download]
    /\ svc \in BOOLEAN
    /\ saved \in [Kinds -> 0 .. MaxJobs] /\ versions \in [Kinds -> 0 .. MaxJobs]
    /\ told \in [Jobs -> Statuses] /\ alarms \subseteq Jobs
    /\ notices \in [Jobs -> 0 .. MaxNotices]
    /\ th \in [Threads -> Thread]
    /\ crashes \in 0 .. MaxCrashes

(* However often an installation dies half-way and is started again, a     *)
(* sound copy of what the controller runs is left somewhere, until         *)
(* MAX_BACKUPS backups in a row were taken of something broken; a sound    *)
(* copy of the configuration is always left.                               *)
SoundCopySurvives ==
    \A k \in Kinds : (k = "config" \/ bad[k] < MaxBackups) =>
        \/ Sound(k, tree[k].files)
        \/ \E i \in DOMAIN backups[k] : Sound(k, backups[k][i].files)

(* When an agent that is up has nothing left to do, the controller runs,   *)
(* unless the agent has published that somebody has to repair it: whatever *)
(* fails, wherever the agent died before, and whichever threads run one    *)
(* job twice.  An agent that was stopped with the controller leaves it     *)
(* stopped: NotLeftStopped.                                                *)
ServiceBack == AtRest /\ alarms = {} /\ agent = "up" => svc

(* The handler's two outcomes are all there are: the controller runs, or   *)
(* the cloud was told that it needs help.                                  *)
NotLeftStopped == AtRest /\ alarms = {} => svc

(* The Zigbee handler takes over on_message for a while only.              *)
ListensAgain == AtRest => listener = NoThread

----------------------------------------------------------------------------
(* Action properties and liveness                                          *)

Tells(t, result) ==
    /\ At(t, "report") /\ th[t].out = result
    /\ told'[th[t].job] # told[th[t].job]

(* SUCCEEDED is reported of an artefact that is there, all of it, and that *)
(* the versions file names; of a Zigbee device it is what zigbee2mqtt said *)
(* last, which may be of the job before.                                   *)
SucceededIsInstalled ==
    [][\A t \in Threads : Tells(t, "SUCCEEDED") /\ K(t) # "zigbee" =>
          tree[K(t)].files[th[t].job] = "whole" /\ saved[K(t)] = th[t].job]_vars

(* A rollback that is reported as one has put back, file by file, what     *)
(* the thread found when it began.                                         *)
RolledBackIsTrue ==
    [][\A t \in Threads : Tells(t, "RESTORED") /\ th[t].rolled => tree[K(t)] = th[t].was]_vars

(* Whatever is reported as the previous version restored is what the       *)
(* thread found when it began, also where no rollback was carried out, or  *)
(* half of one.                                                            *)
RestoredIsTrue ==
    [][\A t \in Threads : Tells(t, "RESTORED") => tree[K(t)] = th[t].was]_vars

(* A truncated file is never installed: what install puts in place, with   *)
(* no error, is the artefact that was verified.                            *)
NeverInstallsPartial ==
    [][\A t \in Threads : At(t, "copying") /\ th'[t].pc \in {"start", "save"} =>
          tree'[K(t)].files[th[t].job] = "whole"]_vars

(* A job ends and the cloud hears how, whatever fails and however often    *)
(* the agent dies on the way, unless the agent stays stopped, or the last  *)
(* message of the job was published to a client that was not connected,    *)
(* was for the Zigbee handler, or had a document without an operation.     *)
JobsEnd ==
    \A j \in Jobs : told[j] = "QUEUED" ~> (Ended(j) \/ [](agent = "stopped" \/ j \in missed))

(* A job with an operation is taken up by an agent that is up: what was    *)
(* published while it was not connected reaches it when it is again.       *)
QueuedIsTaken == \A j \in Jobs : told[j] = "QUEUED" /\ j \notin silent ~> told[j] # "QUEUED"

(* The agent takes up, or refuses, every job that a document reaches it    *)
(* of.                                                                     *)
QueuedIsAnswered == \A j \in Jobs : told[j] = "QUEUED" ~> told[j] # "QUEUED"

----------------------------------------------------------------------------
(* What the proofs need                                                    *)

Directories == {"firmware", "driver"}
Repair      == {"install", "copying", "start", "rollback", "restore", "restoring", "restart"}

(* A thread has a job that was made, and jobs are made one after another.  *)
JobsKnown ==
    /\ \A t \in Threads : ~At(t, "idle") => th[t].job \in Jobs /\ told[th[t].job] # "NONE"
    /\ \A j \in Jobs : notices[j] > 0 => told[j] # "NONE"
    /\ \A i, j \in Jobs : i < j /\ told[j] # "NONE" => Ended(i)

(* Every step belongs to the handler of the job's operation.               *)
Fits(pc, k) ==
    /\ pc \in {"stop", "start", "health"} => k = "firmware"
    /\ pc = "clear" => k = "driver"
    /\ pc \in {"backup", "copytree"} \cup Repair => k \in Directories
    /\ pc \in {"backupFile", "copyFile", "apply", "restoreFile", "restoringFile"} => k = "config"
    /\ pc \in {"stage", "listen", "request", "await", "unlisten"} => k = "zigbee"
RightHandler == \A t \in Threads : Fits(th[t].pc, K(t))

(* Who stopped the service will start it, or ask for help.                 *)
Repairs(t) ==
    /\ th[t].pc \in Repair \/ (At(t, "report") /\ th[t].out = "NEEDS_RECOVERY")
    /\ K(t) = "firmware"
ServiceKept == svc \/ agent # "up" \/ alarms # {} \/ \E t \in Threads : Repairs(t)

AgentInv == TypeOK /\ JobsKnown /\ RightHandler /\ ServiceKept

(* The rest is about an agent that handles one message at a time.          *)
OneThread == \E t : Threads = {t}

(* What a thread of a job that has not ended has verified, and installed.  *)
Verified(t) ==
    LET j == th[t].job IN
    /\ At(t, "move") => tmp[j].content = "whole"
    /\ th[t].pc \in {"backup", "copytree", "stop", "clear", "install",
                     "backupFile", "copyFile", "apply"} => dest[j].content = "whole"
    /\ At(t, "copying") => th[t].src = "whole"
Installed(t) ==
    LET j == th[t].job IN
    /\ th[t].pc \in {"start", "health", "save"} => tree[K(t)].files[j] = "whole"
    /\ At(t, "report") /\ th[t].out = "SUCCEEDED" =>
          tree[K(t)].files[j] = "whole" /\ saved[K(t)] = j
GenuineOf(t) ==
    Verified(t) /\ (~At(t, "idle") /\ K(t) # "zigbee" /\ ~Ended(th[t].job) => Installed(t))
Genuine == \A t \in Threads : GenuineOf(t)

(* The backup that a thread has made is of what it found.                  *)
Numbered ==
    \A k \in Kinds : \A i \in DOMAIN backups[k] : backups[k][i].n \in 1 .. taken[k]
Before == {"unlink", "open", "stream", "verify", "move", "backup", "copytree", "stop", "clear",
           "backupFile", "copyFile", "apply"}
Found(t) ==
    LET w == th[t].was
        k == K(t) IN
    /\ th[t].pc \in Before => tree[k] = w
    /\ th[t].pc \in {"copytree", "copyFile"} \/
          (th[t].pc \in {"apply", "restoreFile", "restoringFile"} /\ th[t].bak # 0) =>
          w.there /\ th[t].snap = w.files
    /\ th[t].pc \in {"stop", "clear", "health"} \cup Repair =>
          \A i \in DOMAIN backups[k] : backups[k][i].n = th[t].bak =>
              w.there /\ backups[k][i].files = w.files
    /\ At(t, "restore") => tree[k] = Gone
    /\ At(t, "restoring") =>
          \A f \in 0 .. MaxJobs : w.files[f] = "absent" => tree[k].files[f] = "absent"
    /\ At(t, "restart") \/ (At(t, "report") /\ th[t].rolled) => tree[k] = w
RememberedOf(t) ==
    /\ th[t].pc \in {"unlink", "open", "stream", "verify", "move", "backup", "backupFile"} =>
          th[t].bak = 0
    /\ th[t].pc \in {"restoreFile", "restoringFile"} => th[t].bak # 0
    /\ th[t].rolled => th[t].pc \in {"report", "cleanup", "next"} /\ K(t) # "zigbee"
    /\ ~At(t, "idle") /\ K(t) # "zigbee" /\ ~Ended(th[t].job) => Found(t)
Remembered == Numbered /\ \A t \in Threads : RememberedOf(t)

(* A sound copy among backups s other than backup n: of the last b none    *)
(* is one, and the prunings leave it.                                      *)
SafeIn(k, s, b, n) ==
    \/ k # "config" /\ b >= MaxBackups
    \/ \E i \in DOMAIN s : /\ s[i].n # n /\ Sound(k, s[i].files)
                           /\ k = "config" \/ Len(s) <= i + b
SomewhereSound ==
    \A k \in Kinds : /\ tree[k].there \/ tree[k] = Gone
                     /\ Sound(k, tree[k].files) \/ SafeIn(k, backups[k], bad[k], 0)
Copying(t) == th[t].pc \in {"copytree", "copyFile"}
Backed(t) ==
    \/ th[t].pc \in {"stop", "clear", "health"} \cup Repair
    \/ th[t].pc \in {"apply", "restoreFile", "restoringFile"} /\ th[t].bak # 0
KeptBy(t) ==
    LET k == K(t)
        s == backups[k] IN
    /\ Copying(t) =>
          /\ th[t].bak = taken[k] /\ s # <<>> /\ s[Len(s)].n = th[t].bak
          /\ Sound(k, th[t].snap) \/ SafeIn(k, s, bad[k], th[t].bak)
    /\ Backed(t) => SafeIn(k, s, bad[k], 0)
CopiesKept == SomewhereSound /\ \A t \in Threads : KeptBy(t)

SoloInv == Genuine /\ Remembered /\ CopiesKept
=============================================================================
