------------------------- MODULE PeripheralHandlers -------------------------
(***************************************************************************)
(* config_handler, for CONFIG and RULES: one JSON file, replaced at once   *)
(* and backed up without a limit.  zigbee_ota_handler: the update is       *)
(* zigbee2mqtt's, and the handler takes over the MQTT client's on_message  *)
(* until zigbee2mqtt has answered.                                         *)
(***************************************************************************)
EXTENDS AgentDisk

(* The file as job j writes it.                                            *)
Written(j) == [Empty EXCEPT ![j] = "whole"]

(* The document may lack packageType, which raises.                        *)
BackupFileStart(t) ==
    LET files == tree["config"].files
        n == taken["config"] + 1 IN
    /\ At(t, "backupFile")
    /\ \/ /\ tree["config"].there
          /\ taken' = [taken EXCEPT !["config"] = n]
          /\ backups' = [backups EXCEPT !["config"] = Append(@, [n |-> n, files |-> Half(files)])]
          /\ Become(t, [th[t] EXCEPT !.pc = "copyFile", !.bak = n, !.snap = files])
       \/ ~tree["config"].there /\ Goto(t, "apply") /\ UNCHANGED <<taken, backups>>
       \/ Raise(t) /\ UNCHANGED <<taken, backups>>
    /\ UNCHANGED <<tree, bad, tmp, dest, svc, saved, versions, said, notices, crashes, routing>>

BackupFileDone(t) ==
    /\ At(t, "copyFile")
    /\ \/ /\ backups' = [backups EXCEPT !["config"] =
                [i \in DOMAIN @ |-> IF @[i].n = th[t].bak THEN [n |-> @[i].n, files |-> th[t].snap]
                                    ELSE @[i]]]
          /\ Goto(t, "apply")
       \/ Raise(t) /\ UNCHANGED backups
    /\ UNCHANGED <<tree, taken, bad, tmp, dest, svc, saved, versions, said, notices, crashes, routing>>

(* The artefact parses and os.replace puts it in place, or nothing is      *)
(* changed.  The SIGHUP is sent and its failure logged.                    *)
ApplyConfig(t) ==
    /\ At(t, "apply")
    /\ \/ /\ dest[th[t].job].content = "whole"
          /\ SetFiles("config", Written(th[t].job))
          /\ Goto(t, "save")
       \/ UNCHANGED tree /\ IF th[t].bak = 0 THEN Raise(t) ELSE Goto(t, "restoreFile")
    /\ UNCHANGED <<backups, taken, bad, tmp, dest, svc, saved, versions, said, notices, crashes, routing>>

(* copy2 over the file: truncated, and then written.                       *)
RestoreFileStart(t) ==
    /\ At(t, "restoreFile")
    /\ SetFiles("config", Half(th[t].snap))
    /\ Goto(t, "restoringFile")
    /\ UNCHANGED <<backups, taken, bad, tmp, dest, svc, saved, versions, said, notices, crashes, routing>>

RestoreFileDone(t) ==
    /\ At(t, "restoringFile")
    /\ \/ /\ SetFiles("config", th[t].snap)
          /\ th' = [th EXCEPT ![t].pc = "report", ![t].out = "RESTORED", ![t].rolled = TRUE]
       \/ Raise(t) /\ UNCHANGED tree
    /\ UNCHANGED <<backups, taken, bad, tmp, dest, svc, saved, versions, said, notices, crashes, routing>>

----------------------------------------------------------------------------
(* Zigbee                                                                  *)

StageZigbee(t) ==
    /\ At(t, "stage")
    /\ \/ dest[th[t].job] # NoFile /\ Goto(t, "listen")
       \/ Raise(t)
    /\ UNCHANGED shared

(* subscribe, which raises for a friendlyName that is no topic, is outside *)
(* the try.                                                                *)
Listen(t) ==
    /\ At(t, "listen")
    /\ listener' = t
    /\ \/ Become(t, [th[t] EXCEPT !.pc = "request", !.orig = listener])
       \/ Raise(t)
    /\ UNCHANGED <<disk, tmp, dest, svc, saved, versions, said, notices, crashes, kind, silent,
                   agent, missed, z2m>>

RequestZigbee(t) ==
    /\ At(t, "request")
    /\ z2m' = z2m \cup {th[t].job}
    /\ Goto(t, "await")
    /\ UNCHANGED <<disk, tmp, dest, svc, saved, versions, said, notices, crashes, kind, silent,
                   agent, missed, listener>>

(* zigbee2mqtt has updated the device, or not.  Its answer names the       *)
(* device and not the job, and is for whoever listens.                     *)
AnswerZigbee(j) ==
    /\ j \in z2m
    /\ z2m' = z2m \ {j}
    /\ \E answer \in {"ok", "error"} :
          /\ tree' = IF answer = "error" THEN tree
                     ELSE [tree EXCEPT !["zigbee"] = [there |-> TRUE, files |-> Written(j)]]
          /\ th' = [t \in Threads |->
                      IF t = listener /\ th[t].pc \in {"request", "await"}
                      THEN [th[t] EXCEPT !.heard = answer] ELSE th[t]]
    /\ UNCHANGED <<backups, taken, bad, tmp, dest, svc, saved, versions, said, notices, crashes,
                   kind, silent, agent, missed, listener>>

(* Answered, or ten minutes have passed.                                   *)
Answered(t) ==
    /\ At(t, "await") /\ th[t].heard # "none"
    /\ Goto(t, "unlisten")
    /\ UNCHANGED shared

ZigbeeTimeout(t) ==
    /\ At(t, "await") /\ th[t].heard = "none"
    /\ Become(t, [th[t] EXCEPT !.pc = "unlisten", !.heard = "error"])
    /\ UNCHANGED shared

(* finally: on_message is what it was when this handler began.             *)
Unlisten(t) ==
    /\ At(t, "unlisten")
    /\ listener' = th[t].orig
    /\ IF th[t].heard = "ok" THEN Goto(t, "save") ELSE Raise(t)
    /\ UNCHANGED <<disk, tmp, dest, svc, saved, versions, said, notices, crashes, kind, silent,
                   agent, missed, z2m>>
=============================================================================
