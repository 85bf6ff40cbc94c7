----------------------------- MODULE AgentDisk -----------------------------
(***************************************************************************)
(* The controller: the directories that updates go to, their backups, the  *)
(* files of a download, the digilux-controller service, and the threads of *)
(* the OTA agent with their local variables.                               *)
(***************************************************************************)
EXTENDS Naturals, FiniteSets, Sequences

CONSTANTS
    Threads,      \* bound: threads of JobsClient._on_message alive at a time
    MaxJobs,      \* bound: jobs that the backend creates for the device
    Firmware,     \* the jobs of CONTROLLER_FIRMWARE; the others are of any operation
    MaxBackups,   \* config.MAX_BACKUPS
    MaxTries,     \* downloader.MAX_DOWNLOAD_RETRIES
    MaxCrashes,   \* bound: times that the agent dies
    MaxNotices,   \* bound: messages on their way to the agent that name one job
    Drops,        \* the connection may be down when AWS IoT publishes
    NoThread

Jobs  == 1 .. MaxJobs
Kinds == {"firmware", "driver", "config", "zigbee"}

ASSUME AgentAssumption ==
    /\ MaxJobs \in Nat /\ Firmware \subseteq Jobs
    /\ MaxBackups \in Nat \ {0} /\ MaxTries \in Nat \ {0}
    /\ MaxCrashes \in Nat /\ MaxNotices \in Nat \ {0} /\ Drops \in BOOLEAN
    /\ NoThread \notin Threads

VARIABLES
    kind,     \* the operation of each job
    silent,   \* the jobs whose document has no operation
    tree,     \* APP_INSTALL_DIR, the driver's directory, the configuration's file, and
              \* the firmware of the Zigbee device
    backups,  \* BACKUP_DIR/{label}: oldest first
    taken,    \* backups made so far; stands for their timestamps
    bad,      \* of those, how many in a row hold no sound copy
    tmp,      \* DOWNLOAD_DIR/{job}_{package}_{version}.tmp
    dest,     \* DOWNLOAD_DIR/{job}_{package}_{version}
    svc,      \* digilux-controller is active
    agent,    \* digilux-ota-agent is active
    saved,    \* VERSIONS_FILE: the last job of each kind
    versions, \* OTAAgent._installed_versions
    told,     \* AWS IoT's record of each job: what the agent reported last
    alarms,   \* the jobs of which the agent has published NEEDS_RECOVERY on TOPIC_OTA_STATUS
    notices,  \* notify-next and $next/get/accepted messages on their way, by job
    missed,   \* the jobs of which the agent has not heard the last of them
    listener, \* whose on_message the MQTT client calls: a thread's, or that of JobsClient
    z2m,      \* the jobs that zigbee2mqtt was asked to install and has not answered for
    th,       \* the threads
    crashes

disk   == <<tree, backups, taken, bad>>
routing == <<kind, silent, agent, missed, listener, z2m>>
said   == <<told, alarms>>
shared == <<tree, backups, taken, bad, tmp, dest, svc, saved, versions, told, alarms, notices,
            crashes, routing>>
vars   == <<shared, th>>

----------------------------------------------------------------------------
(* Files.  0 is what was on the controller, j what job j installs.  A file *)
(* whose content is not the artefact's, all of it, is torn.                *)

Content == {"absent", "torn", "whole"}
Files == [0 .. MaxJobs -> Content]
Empty == [f \in 0 .. MaxJobs |-> "absent"]
Tree  == [there : BOOLEAN, files : Files]
Gone  == [there |-> FALSE, files |-> Empty]
First == [there |-> TRUE, files |-> [Empty EXCEPT ![0] = "whole"]]

(* copytree onto a directory: what the source lacks stays.                 *)
Over(from, onto) ==
    [f \in 0 .. MaxJobs |-> IF from[f] = "absent" THEN onto[f] ELSE from[f]]
Half(from) == [f \in 0 .. MaxJobs |-> IF from[f] = "absent" THEN "absent" ELSE "torn"]

Sound(k, files) ==
    /\ \A f \in 0 .. MaxJobs : files[f] # "torn"
    /\ k = "firmware" => files[0] = "whole"
    /\ k = "driver" => files # Empty

Backup == [n : Nat, files : Files]
Download == [by : Threads \cup {NoThread}, content : Content]   \* by: who writes to it
NoFile == [by |-> NoThread, content |-> "absent"]

(* What thread t writes to, under either name, once t is done with it.     *)
Closed(file, t, content) ==
    [j \in Jobs |-> IF file[j].by = t THEN [by |-> NoThread, content |-> content] ELSE file[j]]

----------------------------------------------------------------------------
(* Threads                                                                 *)

Pc == {"idle", "unlink", "open", "stream", "verify", "move", "backup", "copytree", "stop",
       "clear", "install", "copying", "start", "health", "save",
       "rollback", "restore", "restoring", "restart", "report", "cleanup", "next",
       "backupFile", "copyFile", "apply", "restoreFile", "restoringFile",
       "stage", "listen", "request", "await", "unlisten"}
Results == {"SUCCEEDED", "RESTORED", "NEEDS_RECOVERY",   \* RESTORED: "previous version restored"
            "REFUSED"}                                   \* FAILED before anything was done
Statuses == {"NONE", "QUEUED", "IN_PROGRESS"} \cup Results

Thread == [pc : Pc, job : 0 .. MaxJobs, tries : 0 .. MaxTries, bak : Nat, snap : Files,
           src : Content, out : Results, rolled : BOOLEAN, was : Tree,
           orig : Threads \cup {NoThread}, heard : {"none", "ok", "error"}]
Idle == [pc |-> "idle", job |-> 0, tries |-> 0, bak |-> 0, snap |-> Empty,
         src |-> "absent", out |-> "RESTORED", rolled |-> FALSE, was |-> Gone,
         orig |-> NoThread, heard |-> "none"]

Kind(j) == kind[j]
K(t)    == kind[th[t].job]

At(t, pc)    == th[t].pc = pc
Become(t, r) == th' = [th EXCEPT ![t] = r]
Goto(t, pc)  == th' = [th EXCEPT ![t].pc = pc]

(* The exception that _handle_job reports.                                 *)
Raise(t)     == th' = [th EXCEPT ![t].pc = "report", ![t].out = "RESTORED"]
Recovery(t)  == th' = [th EXCEPT ![t].pc = "report", ![t].out = "NEEDS_RECOVERY"]

SetFiles(k, files) == tree' = [tree EXCEPT ![k] = [there |-> TRUE, files |-> files]]
=============================================================================
