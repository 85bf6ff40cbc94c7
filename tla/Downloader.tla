----------------------------- MODULE Downloader -----------------------------
(***************************************************************************)
(* download_and_verify: a stream into a .tmp file, its checks and its move *)
(* to the final name.  The names depend on the job only, so that threads   *)
(* of one job share both files.                                            *)
(***************************************************************************)
EXTENDS AgentDisk

UnlinkTmp(t) ==
    /\ At(t, "unlink")
    /\ tmp' = [tmp EXCEPT ![th[t].job] = NoFile]
    /\ Goto(t, "open")
    /\ UNCHANGED <<disk, dest, svc, saved, versions, said, notices, crashes, routing>>

(* open(dest, "wb") truncates the file that another thread has made since. *)
OpenTmp(t) ==
    /\ At(t, "open")
    /\ tmp' = [tmp EXCEPT ![th[t].job] = [by |-> t, content |-> "torn"]]
    /\ Goto(t, "stream")
    /\ UNCHANGED <<disk, dest, svc, saved, versions, said, notices, crashes, routing>>

(* What arrives may differ from what was signed.                           *)
StreamDone(t) ==
    /\ At(t, "stream")
    /\ \E c \in {"whole", "torn"} : tmp' = Closed(tmp, t, c) /\ dest' = Closed(dest, t, c)
    /\ Goto(t, "verify")
    /\ UNCHANGED <<disk, svc, saved, versions, said, notices, crashes, routing>>

(* A network error is retried from the start, any other ends the download. *)
StreamFails(t) ==
    /\ At(t, "stream")
    /\ tmp' = [Closed(tmp, t, "torn") EXCEPT ![th[t].job] = NoFile]
    /\ dest' = Closed(dest, t, "torn")
    /\ \/ /\ th[t].tries < MaxTries
          /\ th' = [th EXCEPT ![t].pc = "unlink", ![t].tries = @ + 1]
       \/ Raise(t)
    /\ UNCHANGED <<disk, svc, saved, versions, said, notices, crashes, routing>>

(* Mutant: nothing is compared.                                            *)
VerifyNothing(t) ==
    /\ At(t, "verify")
    /\ Goto(t, "move")
    /\ UNCHANGED shared

Verify(t) ==
    /\ At(t, "verify")
    /\ IF tmp[th[t].job].content = "whole"
       THEN Goto(t, "move") /\ UNCHANGED tmp
       ELSE Raise(t) /\ tmp' = [tmp EXCEPT ![th[t].job] = NoFile]
    /\ UNCHANGED <<disk, dest, svc, saved, versions, said, notices, crashes, routing>>

(* _run_handler calls the handler of the operation.                        *)
Handler(k) == CASE k = "config" -> "backupFile" [] k = "zigbee" -> "stage" [] OTHER -> "backup"

(* os.replace moves whatever has the name by now.                          *)
MoveTmp(t) ==
    LET j == th[t].job IN
    /\ At(t, "move")
    /\ IF tmp[j] = NoFile
       THEN Raise(t) /\ UNCHANGED <<tmp, dest>>
       ELSE /\ dest' = [dest EXCEPT ![j] = tmp[j]]
            /\ tmp' = [tmp EXCEPT ![j] = NoFile]
            /\ th' = [th EXCEPT ![t].pc = Handler(K(t)), ![t].tries = 0]
    /\ UNCHANGED <<disk, svc, saved, versions, said, notices, crashes, routing>>
=============================================================================
