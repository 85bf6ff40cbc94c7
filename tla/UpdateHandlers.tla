--------------------------- MODULE UpdateHandlers ---------------------------
(***************************************************************************)
(* firmware_handler and driver_handler with the backup manager: backup,    *)
(* install, health check, rollback.                                        *)
(***************************************************************************)
EXTENDS AgentDisk

(* copytree makes the backup's directory and fills it.  Without a source   *)
(* there is no backup; a second one within one second raises.              *)
BackupStart(t) ==
    LET k == K(t)
        n == taken[k] + 1
        into == IF k = "driver" THEN "clear" ELSE "stop" IN
    /\ At(t, "backup")
    /\ \/ /\ ~tree[k].there
          /\ Goto(t, into) /\ UNCHANGED <<backups, taken, bad>>
       \/ /\ tree[k].there
          /\ taken' = [taken EXCEPT ![k] = n]
          /\ bad' = [bad EXCEPT ![k] = @ + 1]
          /\ backups' = [backups EXCEPT ![k] = Append(@, [n |-> n, files |-> Half(tree[k].files)])]
          /\ Become(t, [th[t] EXCEPT !.pc = "copytree", !.bak = n, !.snap = tree[k].files])
       \/ tree[k].there /\ backups[k] # <<>> /\ Raise(t) /\ UNCHANGED <<backups, taken, bad>>
    /\ UNCHANGED <<tree, tmp, dest, svc, saved, versions, said, notices, crashes, routing>>

Newest(s, n) == SubSeq(s, IF Len(s) > n THEN Len(s) - n + 1 ELSE 1, Len(s))

Filled(k, n, files) ==
    [i \in DOMAIN backups[k] |->
        IF backups[k][i].n = n THEN [n |-> n, files |-> files] ELSE backups[k][i]]

(* Mutant: the limit counts the backup just made twice.                    *)
BackupDoneOneLess(t) ==
    LET k == K(t) IN
    /\ At(t, "copytree")
    /\ backups' = [backups EXCEPT ![k] = Newest(Filled(k, th[t].bak, th[t].snap), MaxBackups - 1)]
    /\ bad' = [bad EXCEPT ![k] = IF Sound(k, th[t].snap) THEN 0 ELSE @]
    /\ Goto(t, IF k = "driver" THEN "clear" ELSE "stop")
    /\ UNCHANGED <<tree, taken, tmp, dest, svc, saved, versions, said, notices, crashes, routing>>

BackupDone(t) ==
    LET k == K(t) IN
    /\ At(t, "copytree")
    /\ backups' = [backups EXCEPT ![k] = Newest(Filled(k, th[t].bak, th[t].snap), MaxBackups)]
    /\ bad' = [bad EXCEPT ![k] = IF Sound(k, th[t].snap) THEN 0 ELSE @]
    /\ Goto(t, IF k = "driver" THEN "clear" ELSE "stop")
    /\ UNCHANGED <<tree, taken, tmp, dest, svc, saved, versions, said, notices, crashes, routing>>

(* The disk is full: before the try block, nothing is rolled back.         *)
BackupFails(t) ==
    /\ At(t, "copytree")
    /\ Raise(t)
    /\ UNCHANGED shared

(* A service that cannot be stopped is logged; systemctl may time out.     *)
(* Stopping it stops the agent too, whose unit Requires= it; the thread    *)
(* goes on until the agent has ended.                                      *)
StopService(t) ==
    /\ At(t, "stop")
    /\ svc' \in {FALSE, svc} /\ agent' \in {agent, "stopping"}
    /\ Goto(t, "install") \/ Goto(t, "rollback")
    /\ UNCHANGED <<disk, tmp, dest, saved, versions, said, notices, crashes, kind, silent,
                   missed, listener, z2m>>

(* A driver's directory is emptied first.                                  *)
ClearDriver(t) ==
    /\ At(t, "clear")
    /\ SetFiles("driver", Empty)
    /\ Goto(t, "install")
    /\ UNCHANGED <<backups, taken, bad, tmp, dest, svc, saved, versions, said, notices, crashes, routing>>

(* The artefact has no suffix, and is copied under its own name; a file    *)
(* that is still being written may be whole when the copy gets there.      *)
InstallStart(t) ==
    LET j == th[t].job IN
    /\ At(t, "install")
    /\ IF dest[j] = NoFile
       THEN Goto(t, "rollback") /\ UNCHANGED tree
       ELSE /\ SetFiles(K(t), [tree[K(t)].files EXCEPT ![j] = "torn"])
            /\ th' = [th EXCEPT ![t].pc = "copying", ![t].src = dest[j].content]
    /\ UNCHANGED <<backups, taken, bad, tmp, dest, svc, saved, versions, said, notices, crashes, routing>>

InstallDone(t) ==
    LET j == th[t].job IN
    /\ At(t, "copying")
    /\ \/ /\ \E c \in IF th[t].src = "whole" THEN {"whole"}
                     ELSE {"torn", dest[j].content} \ {"absent"} :
               SetFiles(K(t), [tree[K(t)].files EXCEPT ![j] = c])
          /\ Goto(t, IF K(t) = "driver" THEN "save" ELSE "start")
       \/ Goto(t, "rollback") /\ UNCHANGED tree
    /\ UNCHANGED <<backups, taken, bad, tmp, dest, svc, saved, versions, said, notices, crashes, routing>>

StartService(t) ==
    /\ At(t, "start")
    /\ \/ svc' = TRUE /\ Goto(t, "health")
       \/ svc' \in {TRUE, svc} /\ Goto(t, "rollback")
    /\ UNCHANGED <<disk, tmp, dest, saved, versions, said, notices, crashes, routing>>

(* The services are active, or not in time.                                *)
HealthCheck(t) ==
    /\ At(t, "health")
    /\ \/ svc /\ Goto(t, "save")
       \/ Goto(t, "rollback")
    /\ UNCHANGED shared

----------------------------------------------------------------------------
(* Rollback                                                                *)

(* firmware_handler reports a rollback that fails, driver_handler logs it. *)
RollbackFails(t) == IF K(t) = "driver" THEN Raise(t) ELSE Recovery(t)

HasBackup(k, n) == \E i \in DOMAIN backups[k] : backups[k][i].n = n

(* Mutant: the directory is not removed first.                             *)
RollbackOver(t) ==
    /\ At(t, "rollback")
    /\ IF HasBackup(K(t), th[t].bak) THEN Goto(t, "restore") ELSE RollbackFails(t)
    /\ UNCHANGED shared

Rollback(t) ==
    /\ At(t, "rollback")
    /\ IF HasBackup(K(t), th[t].bak)
       THEN tree' = [tree EXCEPT ![K(t)] = Gone] /\ Goto(t, "restore")
       ELSE RollbackFails(t) /\ UNCHANGED tree
    /\ UNCHANGED <<backups, taken, bad, tmp, dest, svc, saved, versions, said, notices, crashes, routing>>

BackupFiles(k, n) == backups[k][CHOOSE i \in DOMAIN backups[k] : backups[k][i].n = n].files

RestoreStart(t) ==
    /\ At(t, "restore")
    /\ IF HasBackup(K(t), th[t].bak)
       THEN /\ SetFiles(K(t), Over(Half(BackupFiles(K(t), th[t].bak)), tree[K(t)].files))
            /\ Goto(t, "restoring")
       ELSE RollbackFails(t) /\ UNCHANGED tree
    /\ UNCHANGED <<backups, taken, bad, tmp, dest, svc, saved, versions, said, notices, crashes, routing>>

RestoreDone(t) ==
    /\ At(t, "restoring")
    /\ \/ /\ HasBackup(K(t), th[t].bak)
          /\ SetFiles(K(t), Over(BackupFiles(K(t), th[t].bak), tree[K(t)].files))
          /\ Goto(t, "restart")
       \/ RollbackFails(t) /\ UNCHANGED tree
    /\ UNCHANGED <<backups, taken, bad, tmp, dest, svc, saved, versions, said, notices, crashes, routing>>

(* Mutant: the service is left as it is.                                   *)
RestartForgotten(t) ==
    /\ At(t, "restart")
    /\ th' = [th EXCEPT ![t].pc = "report", ![t].out = "RESTORED", ![t].rolled = TRUE]
    /\ UNCHANGED shared

RestartService(t) ==
    /\ At(t, "restart")
    /\ \/ /\ svc' = (K(t) = "firmware" \/ svc)
          /\ th' = [th EXCEPT ![t].pc = "report", ![t].out = "RESTORED", ![t].rolled = TRUE]
       \/ K(t) = "firmware" /\ svc' \in {TRUE, svc} /\ Recovery(t)
    /\ UNCHANGED <<disk, tmp, dest, saved, versions, said, notices, crashes, routing>>
=============================================================================
