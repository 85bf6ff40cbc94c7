------------------------ MODULE OtaAgentSolo_proofs ------------------------
(***************************************************************************)
(* Proofs about an OTA agent that handles one message at a time: its       *)
(* reports are true, and a sound copy of what it runs is left.             *)
(***************************************************************************)
EXTENDS OtaAgent_proofs

(* A job is made when those before it have ended, so the job of a thread   *)
(* that is still busy has ended as well.                                   *)
LEMMA BusyEnded ==
    ASSUME Ruled, NEW j \in Jobs, Create(j), NEW t \in Threads, ~At(t, "idle")
    PROVE  Ended(th[t].job) /\ Ended(th[t].job)' /\ th' = th
<1> DEFINE i == th[t].job
<1>1. i \in Jobs /\ told[i] # "NONE" /\ told[j] = "NONE"
  BY DEF Ruled, JobsKnown, Create
<1>2. CASE i < j
  BY <1>1, <1>2, CreateTyped DEF Create, Ended
<1>3. CASE j < i
  BY <1>1, <1>3 DEF Ruled, JobsKnown, Ended, Results
<1> QED
  BY <1>1, <1>2, <1>3 DEF Jobs

LEMMA BackupBegun ==
    ASSUME Ruled, NEW t \in Threads, BackupStart(t)
    PROVE  LET k == K(t)
               n == taken[k] + 1 IN
           \/ /\ ~tree[k].there /\ UNCHANGED <<backups, taken, bad>> /\ Keeps(t)
              /\ Went(t, {IF k = "driver" THEN "clear" ELSE "stop"})
           \/ /\ tree[k].there
              /\ taken' = [taken EXCEPT ![k] = n]
              /\ bad' = [bad EXCEPT ![k] = bad[k] + 1]
              /\ backups' = [backups EXCEPT ![k] =
                               Append(backups[k], [n |-> n, files |-> Half(tree[k].files)])]
              /\ Went(t, {"copytree"}) /\ th'[t].bak = n /\ th'[t].snap = tree[k].files
              /\ th'[t].rolled = th[t].rolled /\ th'[t].was = th[t].was
           \/ Raise(t) /\ UNCHANGED <<backups, taken, bad>>
<1> DEFINE k == K(t)
           n == taken[k] + 1
           into == IF k = "driver" THEN "clear" ELSE "stop"
<1>1. TypeOK /\ k \in Kinds /\ n \in Nat /\ tree[k].files \in Files
  BY JobOf, HalfBacked DEF Ruled, BackupStart, At
<1>2. CASE ~tree[k].there /\ Goto(t, into) /\ UNCHANGED <<backups, taken, bad>>
  BY <1>1, <1>2, GoesOn DEF Pc
<1>3. CASE /\ tree[k].there
           /\ taken' = [taken EXCEPT ![k] = n]
           /\ bad' = [bad EXCEPT ![k] = @ + 1]
           /\ backups' = [backups EXCEPT ![k] = Append(@, [n |-> n, files |-> Half(tree[k].files)])]
           /\ Become(t, [th[t] EXCEPT !.pc = "copytree", !.bak = n, !.snap = tree[k].files])
  <2>2. /\ Went(t, {"copytree"}) /\ th'[t].bak = n /\ th'[t].snap = tree[k].files
        /\ th'[t].rolled = th[t].rolled /\ th'[t].was = th[t].was
    <3> DEFINE files == tree[k].files
    <3>1. TypeOK /\ n \in Nat /\ files \in Files /\ "copytree" \in Pc
      BY <1>1 DEF Pc
    <3>2. Become(t, [th[t] EXCEPT !.pc = "copytree", !.bak = n, !.snap = files])
      BY <1>3
    <3> HIDE DEF n, files
    <3>3. PICK m \in Nat, g \in Files : m = n /\ g = files
      BY <3>1
    <3>4. Become(t, [th[t] EXCEPT !.pc = "copytree", !.bak = m, !.snap = g])
      BY <3>2, <3>3
    <3>5. Went(t, {"copytree"}) /\ th'[t].bak = m /\ th'[t].snap = g
          /\ th'[t].rolled = th[t].rolled /\ th'[t].was = th[t].was
      BY <3>1, <3>4, Copies
    <3> QED
      BY <3>3, <3>5 DEF files
  <2>3. /\ bad' = [bad EXCEPT ![k] = bad[k] + 1]
        /\ backups' = [backups EXCEPT ![k] =
                        Append(backups[k], [n |-> n, files |-> Half(tree[k].files)])]
    BY <1>1, <1>3 DEF TypeOK
  <2> QED
    BY <1>3, <2>2, <2>3
<1>4. CASE Raise(t) /\ UNCHANGED <<backups, taken, bad>>
  BY <1>4
<1> QED
  BY <1>2, <1>3, <1>4 DEF BackupStart

LEMMA FileBegun ==
    ASSUME Ruled, NEW t \in Threads, BackupFileStart(t)
    PROVE  LET k == "config"
               n == taken[k] + 1 IN
           /\ K(t) = k
           /\ \/ /\ ~tree[k].there /\ UNCHANGED <<backups, taken>> /\ Keeps(t)
                 /\ Went(t, {"apply"})
              \/ /\ tree[k].there
                 /\ taken' = [taken EXCEPT ![k] = n]
                 /\ backups' = [backups EXCEPT ![k] =
                                  Append(backups[k], [n |-> n, files |-> Half(tree[k].files)])]
                 /\ Went(t, {"copyFile"}) /\ th'[t].bak = n /\ th'[t].snap = tree[k].files
                 /\ th'[t].rolled = th[t].rolled /\ th'[t].was = th[t].was
              \/ Raise(t) /\ UNCHANGED <<backups, taken>>
<1> DEFINE k == "config"
           n == taken[k] + 1
<1>1. TypeOK /\ k \in Kinds /\ n \in Nat /\ tree[k].files \in Files /\ K(t) = k
  BY JobOf, HalfBacked DEF Ruled, BackupFileStart, At, Kinds, Fits
<1>2. CASE ~tree[k].there /\ Goto(t, "apply") /\ UNCHANGED <<taken, backups>>
  BY <1>1, <1>2, GoesOn DEF Pc
<1>3. CASE /\ tree[k].there
           /\ taken' = [taken EXCEPT ![k] = n]
           /\ backups' = [backups EXCEPT ![k] = Append(@, [n |-> n, files |-> Half(tree[k].files)])]
           /\ Become(t, [th[t] EXCEPT !.pc = "copyFile", !.bak = n, !.snap = tree[k].files])
  <2>2. /\ Went(t, {"copyFile"}) /\ th'[t].bak = n /\ th'[t].snap = tree[k].files
        /\ th'[t].rolled = th[t].rolled /\ th'[t].was = th[t].was
    <3> DEFINE files == tree[k].files
    <3>1. TypeOK /\ n \in Nat /\ files \in Files /\ "copyFile" \in Pc
      BY <1>1 DEF Pc
    <3>2. Become(t, [th[t] EXCEPT !.pc = "copyFile", !.bak = n, !.snap = files])
      BY <1>3
    <3> HIDE DEF n, files
    <3>3. PICK m \in Nat, g \in Files : m = n /\ g = files
      BY <3>1
    <3>4. Become(t, [th[t] EXCEPT !.pc = "copyFile", !.bak = m, !.snap = g])
      BY <3>2, <3>3
    <3>5. Went(t, {"copyFile"}) /\ th'[t].bak = m /\ th'[t].snap = g
          /\ th'[t].rolled = th[t].rolled /\ th'[t].was = th[t].was
      BY <3>1, <3>4, Copies
    <3> QED
      BY <3>3, <3>5 DEF files
  <2>3. backups' = [backups EXCEPT ![k] =
                        Append(backups[k], [n |-> n, files |-> Half(tree[k].files)])]
    BY <1>1, <1>3 DEF TypeOK
  <2> QED
    BY <1>1, <1>3, <2>2, <2>3
<1>4. CASE Raise(t) /\ UNCHANGED <<taken, backups>>
  BY <1>1, <1>4
<1> QED
  BY <1>2, <1>3, <1>4 DEF BackupFileStart

(* What install leaves of an artefact that was whole.                      *)
LEMMA InstalledWhole ==
    ASSUME Ruled, NEW t \in Threads, InstallDone(t), th[t].src = "whole"
    PROVE  \/ tree'[K(t)].files[th[t].job] = "whole"
           \/ Went(t, {"rollback"}) /\ UNCHANGED tree
<1> DEFINE j == th[t].job
           files == [tree[K(t)].files EXCEPT ![j] = "whole"]
<1>1. TypeOK /\ K(t) \in Kinds /\ j \in Jobs /\ tree[K(t)].files \in Files
  BY JobOf DEF Ruled, InstallDone, At
<1>2. files \in Files /\ files[j] = "whole"
  <2> DEFINE before == tree[K(t)].files
  <2>1. j \in Jobs /\ j \in 0 .. MaxJobs /\ before \in Files /\ "whole" \in Content
    BY <1>1 DEF Jobs, Content
  <2> HIDE DEF before, j
  <2>2. [before EXCEPT ![j] = "whole"] \in Files /\ [before EXCEPT ![j] = "whole"][j] = "whole"
    BY <2>1, FilesTyped DEF Files
  <2> QED
    BY <2>2 DEF before, j
<1>3. CASE SetFiles(K(t), files)
  BY <1>1, <1>2, <1>3, Puts
<1>4. CASE Goto(t, "rollback") /\ UNCHANGED tree
  BY <1>1, <1>4, GoesOn DEF Pc
<1> QED
  BY <1>3, <1>4 DEF InstallDone

LEMMA ConfigApplied ==
    ASSUME Ruled, NEW t \in Threads, ApplyConfig(t)
    PROVE  /\ K(t) = "config"
           /\ \/ /\ dest[th[t].job].content = "whole" /\ Went(t, {"save"}) /\ Keeps(t)
                 /\ tree'["config"].files = Written(th[t].job)
                 /\ tree'["config"].files[th[t].job] = "whole"
                 /\ \A k \in Kinds \ {"config"} : tree'[k] = tree[k]
              \/ th[t].bak = 0 /\ Raise(t) /\ UNCHANGED tree
              \/ th[t].bak # 0 /\ Went(t, {"restoreFile"}) /\ Keeps(t) /\ UNCHANGED tree
<1> DEFINE j == th[t].job
<1>1. TypeOK /\ K(t) = "config" /\ "config" \in Kinds /\ j \in Jobs
  BY JobOf DEF Ruled, ApplyConfig, At, Fits, Kinds
<1>2. Written(j) \in Files /\ Written(j)[j] = "whole"
  BY <1>1, FilesTyped DEF Written, Empty, Jobs
<1>3. CASE dest[j].content = "whole" /\ SetFiles("config", Written(j)) /\ Goto(t, "save")
  BY <1>1, <1>2, <1>3, Puts, GoesOn DEF Pc
<1>4. CASE UNCHANGED tree /\ IF th[t].bak = 0 THEN Raise(t) ELSE Goto(t, "restoreFile")
  BY <1>1, <1>4, GoesOn DEF Pc
<1> QED
  BY <1>3, <1>4 DEF ApplyConfig

LEMMA VersionSaved ==
    ASSUME Ruled, NEW t \in Threads, SaveVersions(t)
    PROVE  \/ saved'[K(t)] = th[t].job
           \/ Raise(t)
<1>1. K(t) \in Kinds /\ versions \in [Kinds -> 0 .. MaxJobs]
  BY JobOf DEF SaveVersions, At, Ruled, TypeOK
<1> QED
  BY <1>1 DEF SaveVersions

----------------------------------------------------------------------------
(* What is reported as installed is                                        *)

LEMMA StepGenuine ==
    ASSUME OneThread, Ruled, Genuine, NEW t \in Threads, Step(t)
    PROVE  Genuine'
<1>0. TypeOK /\ \A s \in Threads : s = t
  BY DEF Ruled, OneThread
<1>a. SUFFICES GenuineOf(t)'
  BY <1>0 DEF Genuine, GenuineOf
<1>b. GenuineOf(t)
  BY DEF Genuine, GenuineOf
<1>g. \A pc \in Pc : Goto(t, pc) => th'[t].pc = pc
  BY <1>0, GoesOn DEF Went
<1>r. Raise(t) \/ Recovery(t) => th'[t].pc = "report" /\ th'[t].out # "SUCCEEDED"
  BY <1>0, GoesOn DEF Went
<1>1. CASE UnlinkTmp(t)
  <2>1. Verified(t)'
    BY <1>0, <1>b, <1>1, UnlinkTmpTyped, JobOf, <1>g, <1>r DEF UnlinkTmp, GenuineOf, Verified, Pc, At, Went, routing, shared
  <2>2. K(t)' # "zigbee" /\ ~Ended(th[t].job)' => Installed(t)'
    BY <1>0, <1>b, <1>1, UnlinkTmpTyped, <1>g, <1>r, JobOf DEF UnlinkTmp, GenuineOf, Installed, At, Went, routing, shared, K, Kind, disk, said, Ended, Pc, RollbackFails
  <2> QED
    BY <2>1, <2>2 DEF GenuineOf
<1>2. CASE OpenTmp(t)
  <2>1. Verified(t)'
    BY <1>0, <1>b, <1>2, OpenTmpTyped, JobOf, <1>g, <1>r DEF OpenTmp, GenuineOf, Verified, Pc, At, Went, routing, shared
  <2>2. K(t)' # "zigbee" /\ ~Ended(th[t].job)' => Installed(t)'
    BY <1>0, <1>b, <1>2, OpenTmpTyped, <1>g, <1>r, JobOf DEF OpenTmp, GenuineOf, Installed, At, Went, routing, shared, K, Kind, disk, said, Ended, Pc, RollbackFails
  <2> QED
    BY <2>1, <2>2 DEF GenuineOf
<1>3. CASE StreamDone(t)
  <2>1. Verified(t)'
    BY <1>0, <1>b, <1>3, StreamDoneTyped, JobOf, <1>g, <1>r DEF StreamDone, GenuineOf, Verified, Pc, At, Went, routing, shared
  <2>2. K(t)' # "zigbee" /\ ~Ended(th[t].job)' => Installed(t)'
    BY <1>0, <1>b, <1>3, StreamDoneTyped, <1>g, <1>r, JobOf DEF StreamDone, GenuineOf, Installed, At, Went, routing, shared, K, Kind, disk, said, Ended, Pc, RollbackFails
  <2> QED
    BY <2>1, <2>2 DEF GenuineOf
<1>4. CASE StreamFails(t)
  <2>1. Verified(t)'
    BY <1>0, <1>b, <1>4, StreamFailsTyped, JobOf, <1>g, <1>r, Retries DEF StreamFails, GenuineOf, Verified, Pc, At, Went, routing, shared
  <2>2. K(t)' # "zigbee" /\ ~Ended(th[t].job)' => Installed(t)'
    BY <1>0, <1>b, <1>4, StreamFailsTyped, <1>g, <1>r, JobOf, Retries DEF StreamFails, GenuineOf, Installed, At, Went, routing, shared, K, Kind, disk, said, Ended, Pc, RollbackFails
  <2> QED
    BY <2>1, <2>2 DEF GenuineOf
<1>5. CASE Verify(t)
  <2>1. Verified(t)'
    BY <1>0, <1>b, <1>5, VerifyTyped, JobOf, <1>g, <1>r DEF Verify, GenuineOf, Verified, Pc, At, Went, routing, shared
  <2>2. K(t)' # "zigbee" /\ ~Ended(th[t].job)' => Installed(t)'
    BY <1>0, <1>b, <1>5, VerifyTyped, <1>g, <1>r, JobOf DEF Verify, GenuineOf, Installed, At, Went, routing, shared, K, Kind, disk, said, Ended, Pc, RollbackFails
  <2> QED
    BY <2>1, <2>2 DEF GenuineOf
<1>6. CASE MoveTmp(t)
  <2>1. Verified(t)'
    <3> DEFINE j == th[t].job
    <3>1. tmp[j].content = "whole" /\ j \in Jobs /\ dest \in [Jobs -> Download]
      BY <1>0, <1>b, <1>6, JobOf DEF MoveTmp, GenuineOf, Verified, At, TypeOK
    <3>2. CASE Raise(t)
      BY <1>r, <3>2 DEF Verified, At
    <3>3. CASE /\ dest' = [dest EXCEPT ![j] = tmp[j]]
               /\ th' = [th EXCEPT ![t].pc = Handler(K(t)), ![t].tries = 0]
      <4>1. dest'[j].content = "whole"
        BY <3>1, <3>3
      <4>2. th'[t].job = j /\ th'[t].pc = Handler(K(t))
        <5>1. Handler(K(t)) \in Pc /\ TypeOK
          BY HandlerPc DEF Pc, Ruled
        <5> QED
          BY <3>3, <5>1, Downloaded DEF Went
      <4> QED
        BY <4>1, <4>2, HandlerPc DEF Verified, At
    <3> QED
      BY <1>6, <3>2, <3>3 DEF MoveTmp
  <2>2. Installed(t)'
    <3>1. CASE Raise(t)
      BY <1>r, <3>1 DEF Installed, At
    <3>2. CASE th' = [th EXCEPT ![t].pc = Handler(K(t)), ![t].tries = 0]
      <4>1. th'[t].pc \in {"backup", "backupFile", "stage"}
        <5>1. Handler(K(t)) \in Pc /\ TypeOK
          BY HandlerPc DEF Pc, Ruled
        <5>2. th'[t].pc = Handler(K(t))
          BY <3>2, <5>1, Downloaded DEF Went
        <5> QED
          BY <5>2, HandlerPc
      <4> QED
        BY <4>1 DEF Installed, At
    <3> QED
      BY <1>6, <3>1, <3>2 DEF MoveTmp
  <2> QED
    BY <2>1, <2>2 DEF GenuineOf
<1>7. CASE BackupStart(t)
  <2>1. Verified(t)'
    BY <1>0, <1>b, <1>7, BackupStartTyped, JobOf, <1>g, <1>r DEF BackupStart, GenuineOf, Verified, Pc, At, Went, routing, shared
  <2>2. K(t)' # "zigbee" /\ ~Ended(th[t].job)' => Installed(t)'
    BY <1>0, <1>b, <1>7, BackupStartTyped, <1>r, JobOf, BackupBegun DEF BackupStart, Installed, At, Went, K, Kind, routing
  <2> QED
    BY <2>1, <2>2 DEF GenuineOf
<1>8. CASE BackupDone(t)
  <2>1. Verified(t)'
    BY <1>0, <1>b, <1>8, BackupDoneTyped, JobOf, <1>g, <1>r DEF BackupDone, GenuineOf, Verified, Pc, At, Went, routing, shared
  <2>2. K(t)' # "zigbee" /\ ~Ended(th[t].job)' => Installed(t)'
    BY <1>0, <1>b, <1>8, BackupDoneTyped, <1>g, <1>r, JobOf DEF BackupDone, GenuineOf, Installed, At, Went, routing, shared, K, Kind, disk, said, Ended, Pc, RollbackFails
  <2> QED
    BY <2>1, <2>2 DEF GenuineOf
<1>9. CASE BackupFails(t)
  <2>1. Verified(t)'
    BY <1>0, <1>b, <1>9, BackupFailsTyped, JobOf, <1>g, <1>r DEF BackupFails, GenuineOf, Verified, Pc, At, Went, routing, shared
  <2>2. K(t)' # "zigbee" /\ ~Ended(th[t].job)' => Installed(t)'
    BY <1>0, <1>b, <1>9, BackupFailsTyped, <1>g, <1>r, JobOf DEF BackupFails, GenuineOf, Installed, At, Went, routing, shared, K, Kind, disk, said, Ended, Pc, RollbackFails
  <2> QED
    BY <2>1, <2>2 DEF GenuineOf
<1>10. CASE StopService(t)
  <2>1. Verified(t)'
    BY <1>0, <1>b, <1>10, StopServiceTyped, JobOf, <1>g, <1>r DEF StopService, GenuineOf, Verified, Pc, At, Went, routing, shared
  <2>2. K(t)' # "zigbee" /\ ~Ended(th[t].job)' => Installed(t)'
    BY <1>0, <1>b, <1>10, StopServiceTyped, <1>g, <1>r, JobOf DEF StopService, GenuineOf, Installed, At, Went, routing, shared, K, Kind, disk, said, Ended, Pc, RollbackFails
  <2> QED
    BY <2>1, <2>2 DEF GenuineOf
<1>11. CASE ClearDriver(t)
  <2>1. Verified(t)'
    BY <1>0, <1>b, <1>11, ClearDriverTyped, JobOf, <1>g, <1>r DEF ClearDriver, GenuineOf, Verified, Pc, At, Went, routing, shared
  <2>2. K(t)' # "zigbee" /\ ~Ended(th[t].job)' => Installed(t)'
    BY <1>0, <1>b, <1>11, ClearDriverTyped, <1>g, <1>r, JobOf DEF ClearDriver, GenuineOf, Installed, At, Went, routing, shared, K, Kind, disk, said, Ended, Pc, RollbackFails
  <2> QED
    BY <2>1, <2>2 DEF GenuineOf
<1>12. CASE InstallStart(t)
  <2>1. Verified(t)'
    BY <1>0, <1>b, <1>12, InstallStartTyped, JobOf, <1>g, <1>r, Reads DEF InstallStart, GenuineOf, Verified, Pc, At, Went, routing, shared
  <2>2. K(t)' # "zigbee" /\ ~Ended(th[t].job)' => Installed(t)'
    BY <1>0, <1>b, <1>12, InstallStartTyped, <1>g, <1>r, JobOf, Reads DEF InstallStart, GenuineOf, Installed, At, Went, routing, shared, K, Kind, disk, said, Ended, Pc, RollbackFails
  <2> QED
    BY <2>1, <2>2 DEF GenuineOf
<1>13. CASE InstallDone(t)
  <2>1. Verified(t)'
    BY <1>0, <1>b, <1>13, InstallDoneTyped, JobOf, <1>g, <1>r DEF InstallDone, GenuineOf, Verified, Pc, At, Went, routing, shared
  <2>2. ~At(t, "idle") /\ th[t].src = "whole"
    BY <1>0, <1>b, <1>13 DEF InstallDone, GenuineOf, Verified, At
  <2>3. K(t)' # "zigbee" /\ ~Ended(th[t].job)' => Installed(t)'
    BY <1>0, <1>13, <2>2, InstallDoneTyped, InstalledWhole DEF InstallDone, Installed, At, Went, K, Kind, routing
  <2> QED
    BY <2>1, <2>2, <2>3 DEF GenuineOf
<1>14. CASE StartService(t)
  <2>1. Verified(t)'
    BY <1>0, <1>b, <1>14, StartServiceTyped, JobOf, <1>g, <1>r DEF StartService, GenuineOf, Verified, Pc, At, Went, routing, shared
  <2>2. K(t)' # "zigbee" /\ ~Ended(th[t].job)' => Installed(t)'
    BY <1>0, <1>b, <1>14, StartServiceTyped, <1>g, <1>r, JobOf DEF StartService, GenuineOf, Installed, At, Went, routing, shared, K, Kind, disk, said, Ended, Pc, RollbackFails
  <2> QED
    BY <2>1, <2>2 DEF GenuineOf
<1>15. CASE HealthCheck(t)
  <2>1. Verified(t)'
    BY <1>0, <1>b, <1>15, HealthCheckTyped, JobOf, <1>g, <1>r DEF HealthCheck, GenuineOf, Verified, Pc, At, Went, routing, shared
  <2>2. K(t)' # "zigbee" /\ ~Ended(th[t].job)' => Installed(t)'
    BY <1>0, <1>b, <1>15, HealthCheckTyped, <1>g, <1>r, JobOf DEF HealthCheck, GenuineOf, Installed, At, Went, routing, shared, K, Kind, disk, said, Ended, Pc, RollbackFails
  <2> QED
    BY <2>1, <2>2 DEF GenuineOf
<1>16. CASE Rollback(t)
  <2>1. Verified(t)'
    BY <1>0, <1>b, <1>16, RollbackTyped, JobOf, <1>g, <1>r DEF Rollback, GenuineOf, Verified, Pc, At, Went, routing, shared
  <2>2. K(t)' # "zigbee" /\ ~Ended(th[t].job)' => Installed(t)'
    BY <1>0, <1>b, <1>16, RollbackTyped, <1>g, <1>r, JobOf DEF Rollback, GenuineOf, Installed, At, Went, routing, shared, K, Kind, disk, said, Ended, Pc, RollbackFails
  <2> QED
    BY <2>1, <2>2 DEF GenuineOf
<1>17. CASE RestoreStart(t)
  <2>1. Verified(t)'
    BY <1>0, <1>b, <1>17, RestoreStartTyped, JobOf, <1>g, <1>r DEF RestoreStart, GenuineOf, Verified, Pc, At, Went, routing, shared
  <2>2. K(t)' # "zigbee" /\ ~Ended(th[t].job)' => Installed(t)'
    BY <1>0, <1>b, <1>17, RestoreStartTyped, <1>g, <1>r, JobOf DEF RestoreStart, GenuineOf, Installed, At, Went, routing, shared, K, Kind, disk, said, Ended, Pc, RollbackFails
  <2> QED
    BY <2>1, <2>2 DEF GenuineOf
<1>18. CASE RestoreDone(t)
  <2>1. Verified(t)'
    BY <1>0, <1>b, <1>18, RestoreDoneTyped, JobOf, <1>g, <1>r DEF RestoreDone, GenuineOf, Verified, Pc, At, Went, routing, shared
  <2>2. K(t)' # "zigbee" /\ ~Ended(th[t].job)' => Installed(t)'
    BY <1>0, <1>b, <1>18, RestoreDoneTyped, <1>g, <1>r, JobOf DEF RestoreDone, GenuineOf, Installed, At, Went, routing, shared, K, Kind, disk, said, Ended, Pc, RollbackFails
  <2> QED
    BY <2>1, <2>2 DEF GenuineOf
<1>19. CASE RestartService(t)
  <2>1. Verified(t)'
    BY <1>0, <1>b, <1>19, RestartServiceTyped, JobOf, <1>g, <1>r, Rolls DEF RestartService, GenuineOf, Verified, Pc, At, Went, routing, shared
  <2>2. K(t)' # "zigbee" /\ ~Ended(th[t].job)' => Installed(t)'
    BY <1>0, <1>b, <1>19, RestartServiceTyped, <1>g, <1>r, JobOf, Rolls DEF RestartService, GenuineOf, Installed, At, Went, routing, shared, K, Kind, disk, said, Ended, Pc, RollbackFails
  <2> QED
    BY <2>1, <2>2 DEF GenuineOf
<1>20. CASE BackupFileStart(t)
  <2>1. Verified(t)'
    BY <1>0, <1>b, <1>20, BackupFileStartTyped, JobOf, <1>g, <1>r DEF BackupFileStart, GenuineOf, Verified, Pc, At, Went, routing, shared
  <2>2. K(t)' # "zigbee" /\ ~Ended(th[t].job)' => Installed(t)'
    BY <1>0, <1>b, <1>20, BackupFileStartTyped, <1>r, JobOf, FileBegun DEF BackupFileStart, Installed, At, Went, K, Kind, routing
  <2> QED
    BY <2>1, <2>2 DEF GenuineOf
<1>21. CASE BackupFileDone(t)
  <2>1. Verified(t)'
    BY <1>0, <1>b, <1>21, BackupFileDoneTyped, JobOf, <1>g, <1>r DEF BackupFileDone, GenuineOf, Verified, Pc, At, Went, routing, shared
  <2>2. K(t)' # "zigbee" /\ ~Ended(th[t].job)' => Installed(t)'
    BY <1>0, <1>b, <1>21, BackupFileDoneTyped, <1>g, <1>r, JobOf DEF BackupFileDone, GenuineOf, Installed, At, Went, routing, shared, K, Kind, disk, said, Ended, Pc, RollbackFails
  <2> QED
    BY <2>1, <2>2 DEF GenuineOf
<1>22. CASE ApplyConfig(t)
  <2>1. Verified(t)'
    BY <1>0, <1>b, <1>22, ApplyConfigTyped, JobOf, <1>g, <1>r DEF ApplyConfig, GenuineOf, Verified, Pc, At, Went, routing, shared
  <2>2. K(t)' # "zigbee" /\ ~Ended(th[t].job)' => Installed(t)'
    BY <1>0, <1>b, <1>22, ApplyConfigTyped, <1>r, JobOf, ConfigApplied DEF ApplyConfig, Installed, At, Went, K, Kind, routing
  <2> QED
    BY <2>1, <2>2 DEF GenuineOf
<1>23. CASE RestoreFileStart(t)
  <2>1. Verified(t)'
    BY <1>0, <1>b, <1>23, RestoreFileStartTyped, JobOf, <1>g, <1>r DEF RestoreFileStart, GenuineOf, Verified, Pc, At, Went, routing, shared
  <2>2. K(t)' # "zigbee" /\ ~Ended(th[t].job)' => Installed(t)'
    BY <1>0, <1>b, <1>23, RestoreFileStartTyped, <1>g, <1>r, JobOf DEF RestoreFileStart, GenuineOf, Installed, At, Went, routing, shared, K, Kind, disk, said, Ended, Pc, RollbackFails
  <2> QED
    BY <2>1, <2>2 DEF GenuineOf
<1>24. CASE RestoreFileDone(t)
  <2>1. Verified(t)'
    BY <1>0, <1>b, <1>24, RestoreFileDoneTyped, JobOf, <1>g, <1>r, Rolls DEF RestoreFileDone, GenuineOf, Verified, Pc, At, Went, routing, shared
  <2>2. K(t)' # "zigbee" /\ ~Ended(th[t].job)' => Installed(t)'
    BY <1>0, <1>b, <1>24, RestoreFileDoneTyped, <1>g, <1>r, JobOf, Rolls DEF RestoreFileDone, GenuineOf, Installed, At, Went, routing, shared, K, Kind, disk, said, Ended, Pc, RollbackFails
  <2> QED
    BY <2>1, <2>2 DEF GenuineOf
<1>25. CASE StageZigbee(t)
  <2>1. Verified(t)'
    BY <1>0, <1>b, <1>25, StageZigbeeTyped, JobOf, <1>g, <1>r DEF StageZigbee, GenuineOf, Verified, Pc, At, Went, routing, shared
  <2>2. K(t)' # "zigbee" /\ ~Ended(th[t].job)' => Installed(t)'
    BY <1>0, <1>b, <1>25, StageZigbeeTyped, <1>g, <1>r, JobOf DEF StageZigbee, GenuineOf, Installed, At, Went, routing, shared, K, Kind, disk, said, Ended, Pc, RollbackFails
  <2> QED
    BY <2>1, <2>2 DEF GenuineOf
<1>26. CASE Listen(t)
  <2>1. Verified(t)'
    BY <1>0, <1>b, <1>26, ListenTyped, JobOf, <1>g, <1>r DEF Listen, GenuineOf, Verified, Pc, At, Went, routing, shared
  <2>2. K(t)' # "zigbee" /\ ~Ended(th[t].job)' => Installed(t)'
    BY <1>0, <1>b, <1>26, Listens, <1>r DEF Listen, Installed, At, Went
  <2> QED
    BY <2>1, <2>2 DEF GenuineOf
<1>27. CASE RequestZigbee(t)
  <2>1. Verified(t)'
    BY <1>0, <1>b, <1>27, RequestZigbeeTyped, JobOf, <1>g, <1>r DEF RequestZigbee, GenuineOf, Verified, Pc, At, Went, routing, shared
  <2>2. K(t)' # "zigbee" /\ ~Ended(th[t].job)' => Installed(t)'
    BY <1>0, <1>b, <1>27, RequestZigbeeTyped, <1>g, <1>r, JobOf DEF RequestZigbee, GenuineOf, Installed, At, Went, routing, shared, K, Kind, disk, said, Ended, Pc, RollbackFails
  <2> QED
    BY <2>1, <2>2 DEF GenuineOf
<1>28. CASE Answered(t)
  <2>1. Verified(t)'
    BY <1>0, <1>b, <1>28, AnsweredTyped, JobOf, <1>g, <1>r DEF Answered, GenuineOf, Verified, Pc, At, Went, routing, shared
  <2>2. K(t)' # "zigbee" /\ ~Ended(th[t].job)' => Installed(t)'
    BY <1>0, <1>b, <1>28, AnsweredTyped, <1>g, <1>r, JobOf DEF Answered, GenuineOf, Installed, At, Went, routing, shared, K, Kind, disk, said, Ended, Pc, RollbackFails
  <2> QED
    BY <2>1, <2>2 DEF GenuineOf
<1>29. CASE ZigbeeTimeout(t)
  <2>1. Verified(t)'
    BY <1>0, <1>b, <1>29, ZigbeeTimeoutTyped, JobOf, <1>g, <1>r DEF ZigbeeTimeout, GenuineOf, Verified, Pc, At, Went, routing, shared
  <2>2. K(t)' # "zigbee" /\ ~Ended(th[t].job)' => Installed(t)'
    BY <1>0, <1>b, <1>29, ZigbeeTimeoutTyped, <1>g, <1>r, JobOf DEF ZigbeeTimeout, GenuineOf, Installed, At, Went, routing, shared, K, Kind, disk, said, Ended, Pc, RollbackFails
  <2> QED
    BY <2>1, <2>2 DEF GenuineOf
<1>30. CASE Unlisten(t)
  <2>1. Verified(t)'
    BY <1>0, <1>b, <1>30, UnlistenTyped, JobOf, <1>g, <1>r DEF Unlisten, GenuineOf, Verified, Pc, At, Went, routing, shared
  <2>2. K(t)' = "zigbee"
    BY <1>0, <1>b, <1>30, UnlistenTyped, JobOf DEF Unlisten, At, Went, K, Kind, Fits
  <2> QED
    BY <2>1, <2>2 DEF GenuineOf
<1>31. CASE SaveVersions(t)
  <2>1. Verified(t)'
    BY <1>0, <1>b, <1>31, SaveVersionsTyped, JobOf, <1>g, <1>r, VersionSaved DEF SaveVersions, GenuineOf, Verified, Pc, At, Went, routing, shared
  <2>2. K(t)' # "zigbee" /\ ~Ended(th[t].job)' => Installed(t)'
    BY <1>0, <1>b, <1>31, SaveVersionsTyped, <1>g, <1>r, JobOf, VersionSaved DEF SaveVersions, GenuineOf, Installed, At, Went, routing, shared, K, Kind, disk, said, Ended, Pc, RollbackFails
  <2> QED
    BY <2>1, <2>2 DEF GenuineOf
<1>32. CASE Report(t)
  <2>1. Verified(t)'
    BY <1>0, <1>b, <1>32, ReportTyped, JobOf, <1>g, <1>r DEF Report, GenuineOf, Verified, Pc, At, Went, routing, shared
  <2>2. K(t)' # "zigbee" /\ ~Ended(th[t].job)' => Installed(t)'
    BY <1>0, <1>b, <1>32, ReportTyped, <1>g, <1>r, JobOf DEF Report, GenuineOf, Installed, At, Went, routing, shared, K, Kind, disk, said, Ended, Pc, RollbackFails
  <2> QED
    BY <2>1, <2>2 DEF GenuineOf
<1>33. CASE Cleanup(t)
  <2>1. Verified(t)'
    BY <1>0, <1>b, <1>33, CleanupTyped, JobOf, <1>g, <1>r DEF Cleanup, GenuineOf, Verified, Pc, At, Went, routing, shared
  <2>2. K(t)' # "zigbee" /\ ~Ended(th[t].job)' => Installed(t)'
    BY <1>0, <1>b, <1>33, CleanupTyped, <1>g, <1>r, JobOf DEF Cleanup, GenuineOf, Installed, At, Went, routing, shared, K, Kind, disk, said, Ended, Pc, RollbackFails
  <2> QED
    BY <2>1, <2>2 DEF GenuineOf
<1>34. CASE NextJob(t)
  BY <1>34, NextJobTyped, IdleTyped DEF GenuineOf, Verified, At
<1> QED
  BY <1>1, <1>2, <1>3, <1>4, <1>5, <1>6, <1>7, <1>8, <1>9, <1>10, <1>11, <1>12, <1>13, <1>14, <1>15, <1>16, <1>17, <1>18, <1>19, <1>20, <1>21, <1>22, <1>23, <1>24, <1>25, <1>26, <1>27, <1>28, <1>29, <1>30, <1>31, <1>32, <1>33, <1>34 DEF Step

LEMMA NextGenuine ==
    ASSUME OneThread, Ruled, Genuine, [Next]_vars
    PROVE  Genuine'
<1>0. \A t \in Threads : GenuineOf(t)
  BY DEF Genuine, GenuineOf
<1>s. SUFFICES ASSUME NEW t \in Threads
              PROVE  GenuineOf(t)'
  BY DEF Genuine, GenuineOf
<1>1. CASE UNCHANGED vars
  BY <1>0, <1>1 DEF GenuineOf, Verified, Installed, At, K, Kind, Ended, vars, shared, routing
<1>2. ASSUME NEW j \in Jobs, Create(j)
      PROVE  GenuineOf(t)'
  <2>1. UNCHANGED <<th, tmp, dest>>
    BY <1>2 DEF Create
  <2>2. CASE At(t, "idle")
    BY <2>1, <2>2 DEF GenuineOf, Verified, At
  <2>3. CASE ~At(t, "idle")
    BY <1>0, <1>2, <2>1, <2>3, BusyEnded DEF GenuineOf, Verified, At
  <2> QED
    BY <2>2, <2>3
<1>3. ASSUME NEW j \in Jobs, Unheard(j)
      PROVE  GenuineOf(t)'
  BY <1>0, <1>3
     DEF GenuineOf, Verified, Installed, Unheard, At, K, Kind, Ended, said, disk
<1>4. ASSUME NEW j \in Jobs, AnswerZigbee(j)
      PROVE  GenuineOf(t)'
  <2>1. Verified(t)'
    BY <1>0, <1>4, AnswerTyped DEF GenuineOf, Verified, AnswerZigbee, At
  <2>2. K(t)' = K(t) /\ (At(t, "idle")' <=> At(t, "idle")) /\ Ended(th[t].job)' = Ended(th[t].job)
    BY <1>4, AnswerTyped DEF AnswerZigbee, K, Kind, At, Ended, said
  <2>3. CASE At(t, "idle") \/ K(t) = "zigbee"
    BY <2>1, <2>2, <2>3 DEF GenuineOf
  <2>4. CASE ~At(t, "idle") /\ K(t) # "zigbee"
    <3>1. K(t) \in Kinds \ {"zigbee"}
      BY <2>4, JobOf
    <3>2. Installed(t) => Installed(t)'
      BY <1>4, <2>2, <3>1, AnswerTyped DEF AnswerZigbee, Installed, At
    <3> QED
      BY <1>0, <2>1, <2>2, <3>2 DEF GenuineOf
  <2> QED
    BY <2>3, <2>4
<1>5. ASSUME NEW s \in Threads, Step(s)
      PROVE  GenuineOf(t)'
  BY <1>5, StepGenuine DEF Genuine, GenuineOf
<1>6. ASSUME NEW s \in Threads, NEW j \in Jobs, Receive(s, j)
      PROVE  GenuineOf(t)'
  <2>1. th'[t].pc = "unlink"
    BY <1>6, ReceiveTyped DEF OneThread
  <2> QED
    BY <2>1 DEF GenuineOf, Verified, Installed, At
<1>7. ASSUME NEW s \in Threads, NEW j \in Jobs, Refuse(s, j)
      PROVE  GenuineOf(t)'
  <2>1. th' = th /\ th[t].pc = "idle"
    BY <1>7 DEF Refuse, OneThread, At
  <2> QED
    BY <2>1 DEF GenuineOf, Verified, At
<1>8. CASE Shutdown \/ Crash
  <2>1. th'[t].pc = "idle"
    BY <1>8, ShutdownTyped, CrashTyped, IdleTyped
  <2> QED
    BY <2>1 DEF GenuineOf, Verified, At
<1> QED
  BY <1>1, <1>2, <1>3, <1>4, <1>5, <1>6, <1>7, <1>8 DEF Next, Lose, Ignore, Overhear

(* AWS IoT keeps the status of a job that has ended.                       *)
LEMMA EndedStays ==
    ASSUME Ruled, [Next]_vars, NEW i \in Jobs, Ended(i)
    PROVE  told'[i] = told[i]
<1>0. told[i] # "NONE"
  BY DEF Ended, Results
<1>1. CASE UNCHANGED vars
  BY <1>1 DEF vars, shared, routing
<1>2. ASSUME NEW j \in Jobs, Create(j)
      PROVE  told'[i] = told[i]
  BY <1>0, <1>2, CreateTyped
<1>3. ASSUME NEW t \in Threads, NEW j \in Jobs, Receive(t, j)
      PROVE  told'[i] = told[i]
  BY <1>3 DEF Receive, Ruled, TypeOK, Ended
<1>4. ASSUME NEW t \in Threads, NEW j \in Jobs, Refuse(t, j)
      PROVE  told'[i] = told[i]
  BY <1>4, RefuseTyped
<1>5. ASSUME NEW t \in Threads, Report(t)
      PROVE  told'[i] = told[i]
  BY <1>5 DEF Report, Ruled, TypeOK, Ended, said
<1>6. ASSUME NEW t \in Threads, Step(t), ~Report(t)
      PROVE  told' = told
  BY <1>6 DEF Step, UnlinkTmp, OpenTmp, StreamDone, StreamFails, Verify, MoveTmp,
       BackupStart, BackupDone, BackupFails, StopService, ClearDriver, InstallStart, InstallDone,
       StartService, HealthCheck, Rollback, RestoreStart, RestoreDone, RestartService,
       BackupFileStart, BackupFileDone, ApplyConfig, RestoreFileStart, RestoreFileDone,
       StageZigbee, Listen, RequestZigbee, Answered, ZigbeeTimeout, Unlisten,
       SaveVersions, Cleanup, NextJob, said, shared
<1>7. ASSUME NEW j \in Jobs, Unheard(j) \/ AnswerZigbee(j)
      PROVE  told' = told
  BY <1>7 DEF Unheard, AnswerZigbee, said
<1>8. CASE Shutdown \/ Crash
  BY <1>8 DEF Shutdown, Crash, said
<1> QED
  BY <1>1, <1>2, <1>3, <1>4, <1>5, <1>6, <1>7, <1>8 DEF Next, Lose, Ignore, Overhear

LEMMA GenuineAlways == OneThread => (Spec => []Genuine)
<1> SUFFICES ASSUME OneThread
             PROVE  Spec => []Genuine
  OBVIOUS
<1>1. Init => Genuine
  BY IdleTyped DEF Init, Genuine, GenuineOf, Verified, At
<1>2. Ruled /\ Genuine /\ [Next]_vars => Genuine'
  BY NextGenuine
<1> QED
  BY <1>1, <1>2, RuledAlways, PTL DEF Spec

(* An agent that handles one message at a time reports SUCCEEDED only of   *)
(* an artefact that is in place, all of it, and that the versions file     *)
(* names: nothing comes between the installation, the file and the report, *)
(* not even an agent that dies (ota_agent._handle_job, _run_handler).      *)
THEOREM SuccessIsInstalled == OneThread => (Spec => SucceededIsInstalled)
<1> SUFFICES ASSUME OneThread
             PROVE  Spec => SucceededIsInstalled
  OBVIOUS
<1> DEFINE Tale ==
        \A t \in Threads : Tells(t, "SUCCEEDED") /\ K(t) # "zigbee" =>
            tree[K(t)].files[th[t].job] = "whole" /\ saved[K(t)] = th[t].job
<1>1. Ruled /\ Genuine /\ [Next]_vars => [Tale]_vars
  <2> SUFFICES ASSUME Ruled, Genuine, [Next]_vars,
                      NEW t \in Threads, Tells(t, "SUCCEEDED"), K(t) # "zigbee"
               PROVE  tree[K(t)].files[th[t].job] = "whole" /\ saved[K(t)] = th[t].job
    OBVIOUS
  <2>1. ~At(t, "idle") /\ th[t].job \in Jobs
    BY DEF Tells, At, Ruled, JobsKnown
  <2>2. ~Ended(th[t].job)
    BY <2>1, EndedStays DEF Tells
  <2> QED
    BY <2>1, <2>2 DEF Genuine, GenuineOf, Installed, Tells
<1> QED
  BY <1>1, GenuineAlways, RuledAlways, PTL DEF Spec, SucceededIsInstalled

(* An agent that handles one message at a time never leaves part of an     *)
(* artefact where install put it without an error: what it copies was      *)
(* verified under the name that it has since the move                      *)
(* (downloader.download_and_verify, the handlers' install).                *)
THEOREM NeverPartial == OneThread => (Spec => NeverInstallsPartial)
<1> SUFFICES ASSUME OneThread
             PROVE  Spec => NeverInstallsPartial
  OBVIOUS
<1> DEFINE Tale ==
        \A t \in Threads : At(t, "copying") /\ th'[t].pc \in {"start", "save"} =>
            tree'[K(t)].files[th[t].job] = "whole"
<1>1. Ruled /\ Genuine /\ [Next]_vars => [Tale]_vars
  <2> SUFFICES ASSUME Ruled, Genuine, Next,
                      NEW t \in Threads, At(t, "copying"), th'[t].pc \in {"start", "save"}
               PROVE  tree'[K(t)].files[th[t].job] = "whole"
    BY DEF vars
  <2>1. th'[t].pc # th[t].pc /\ th[t].pc # "idle" /\ \A s \in Threads : s = t
    BY DEF At, OneThread
  <2>2. Step(t)
    <3>1. ASSUME NEW j \in Jobs
          PROVE  ~Create(j) /\ ~Unheard(j) /\ ~AnswerZigbee(j) /\ ~Receive(t, j) /\ ~Refuse(t, j)
      BY <2>1, AnswerTyped DEF Create, Unheard, Receive, Refuse, At
    <3>2. ~Shutdown /\ ~Crash
      BY ShutdownTyped, CrashTyped, IdleTyped
    <3> QED
      BY <2>1, <3>1, <3>2 DEF Next, Lose, Ignore, Overhear
  <2>3. InstallDone(t)
    BY <2>2 DEF Step, At, UnlinkTmp, OpenTmp, StreamDone, StreamFails, Verify, MoveTmp,
       BackupStart, BackupDone, BackupFails, StopService, ClearDriver, InstallStart,
       StartService, HealthCheck, Rollback, RestoreStart, RestoreDone, RestartService,
       BackupFileStart, BackupFileDone, ApplyConfig, RestoreFileStart, RestoreFileDone,
       StageZigbee, Listen, RequestZigbee, Answered, ZigbeeTimeout, Unlisten,
       SaveVersions, Report, Cleanup, NextJob
  <2>4. th[t].src = "whole"
    BY DEF Genuine, GenuineOf, Verified
  <2>5. ~Went(t, {"rollback"})
    BY DEF Went
  <2> QED
    BY <2>3, <2>4, <2>5, InstalledWhole
<1> QED
  BY <1>1, GenuineAlways, RuledAlways, PTL DEF Spec, NeverInstallsPartial

----------------------------------------------------------------------------
(* What is reported as rolled back is                                      *)

(* A report of an error, and the end of a job, need no memory.             *)
LEMMA NothingRolled ==
    ASSUME TypeOK, NEW t \in Threads, RememberedOf(t), ~th[t].rolled,
           Raise(t) \/ Recovery(t)
    PROVE  RememberedOf(t)'
<1>1. th'[t].pc = "report" /\ ~th'[t].rolled
  BY GoesOn DEF Went
<1> QED
  BY <1>1 DEF RememberedOf, Found, Before, Repair, At

(* Between its backup and the rollback a thread keeps that backup.         *)
LEMMA Repairing ==
    ASSUME TypeOK, NEW t \in Threads, RememberedOf(t), UNCHANGED <<kind, told, backups>>,
           th[t].pc \in ({"stop", "clear", "health"} \cup Repair) \ {"restore", "restoring", "restart"},
           th'[t].pc \in {"install", "copying", "start", "health", "save", "rollback"},
           th'[t].job = th[t].job, th'[t].bak = th[t].bak, th'[t].was = th[t].was,
           th'[t].rolled = th[t].rolled
    PROVE  RememberedOf(t)'
<1>1. K(t)' = K(t) /\ Ended(th[t].job)' = Ended(th[t].job) /\ ~At(t, "idle") /\ ~th'[t].rolled
  BY DEF K, Kind, Ended, At, RememberedOf, Repair
<1>2. K(t) # "zigbee" /\ ~Ended(th[t].job) => Found(t)'
  BY <1>1 DEF RememberedOf, Found, Before, Repair, At
<1> QED
  BY <1>1, <1>2 DEF RememberedOf

LEMMA FilledFields ==
    ASSUME TypeOK, NEW k \in Kinds, NEW n \in Nat, NEW files \in Files
    PROVE  /\ DOMAIN Filled(k, n, files) = DOMAIN backups[k]
           /\ \A i \in DOMAIN backups[k] :
                 /\ Filled(k, n, files)[i].n = backups[k][i].n
                 /\ backups[k][i].n = n => Filled(k, n, files)[i].files = files
                 /\ backups[k][i].n # n => Filled(k, n, files)[i] = backups[k][i]
<1>1. DOMAIN Filled(k, n, files) = DOMAIN backups[k]
  BY DEF Filled
<1>2. ASSUME NEW i \in DOMAIN backups[k]
      PROVE  /\ Filled(k, n, files)[i].n = backups[k][i].n
             /\ backups[k][i].n = n => Filled(k, n, files)[i].files = files
             /\ backups[k][i].n # n => Filled(k, n, files)[i] = backups[k][i]
  <2>1. Filled(k, n, files)[i] = IF backups[k][i].n = n THEN [n |-> n, files |-> files]
                                 ELSE backups[k][i]
    BY <1>2 DEF Filled
  <2> QED
    BY <2>1
<1> QED
  BY <1>1, <1>2

LEMMA NumberedAlways == Spec => []Numbered
<1>1. Init => Numbered
  BY DEF Init, Numbered
<1>2. Ruled /\ Numbered /\ [Next]_vars => Numbered'
  <2> SUFFICES ASSUME Ruled, Numbered, [Next]_vars
               PROVE  Numbered'
    OBVIOUS
  <2> DEFINE Counted(s, n) == \A i \in DOMAIN s : s[i].n \in 1 .. n
  <2>0. /\ TypeOK /\ backups \in [Kinds -> Seq(Backup)] /\ taken \in [Kinds -> Nat]
        /\ \A k \in Kinds : Counted(backups[k], taken[k])
    BY DEF Ruled, TypeOK, Numbered
  <2>s. SUFFICES \A k \in Kinds : Counted(backups'[k], taken'[k])
    BY DEF Numbered
  <2> HIDE DEF Counted
  <2>1. CASE UNCHANGED <<backups, taken>>
    BY <2>0, <2>1
  <2>2. ASSUME NEW k \in Kinds, NEW files \in Files,
               taken' = [taken EXCEPT ![k] = taken[k] + 1],
               backups' = [backups EXCEPT ![k] =
                            Append(backups[k], [n |-> taken[k] + 1, files |-> files])]
        PROVE  \A l \in Kinds : Counted(backups'[l], taken'[l])
    <3> DEFINE b == [n |-> taken[k] + 1, files |-> files]
               s == backups[k]
    <3>1. s \in Seq(Backup) /\ b.n = taken[k] + 1 /\ taken[k] \in Nat /\ b \in Backup
      <4>1. s \in Seq(Backup) /\ taken[k] \in Nat
        BY <2>0
      <4>2. taken[k] + 1 \in Nat
        BY <4>1
      <4>3. b \in Backup
        BY <4>2 DEF Backup
      <4> QED
        BY <4>1, <4>3
    <3>2. \A i \in DOMAIN s : s[i].n \in 1 .. taken[k]
      BY <2>0 DEF Counted
    <3> HIDE DEF b, s
    <3>3. \A i \in DOMAIN Append(s, b) : Append(s, b)[i].n \in 1 .. taken[k] + 1
      BY <3>1, <3>2
    <3>4. backups'[k] = Append(s, b) /\ taken'[k] = taken[k] + 1
      BY <2>0, <2>2 DEF s, b
    <3>5. Counted(backups'[k], taken'[k])
      BY <3>3, <3>4 DEF Counted
    <3>6. \A l \in Kinds \ {k} : backups'[l] = backups[l] /\ taken'[l] = taken[l]
      BY <2>0, <2>2
    <3> QED
      BY <2>0, <3>5, <3>6
  <2>3. ASSUME NEW k \in Kinds, NEW n \in Nat, NEW files \in Files,
               UNCHANGED taken,
               \/ backups' = [backups EXCEPT ![k] = Filled(k, n, files)]
               \/ backups' = [backups EXCEPT ![k] = Newest(Filled(k, n, files), MaxBackups)]
        PROVE  \A l \in Kinds : Counted(backups'[l], taken'[l])
    <3> DEFINE s == Filled(k, n, files)
    <3>1. s \in Seq(Backup) /\ Counted(s, taken[k])
      <4>1. backups[k] \in Seq(Backup) /\ \A i \in DOMAIN backups[k] : backups[k][i].n \in 1 .. taken[k]
        BY <2>0 DEF Counted
      <4>2. s \in Seq(Backup) /\ Len(s) = Len(backups[k])
        BY <2>0, FilledTyped
      <4>3. DOMAIN s = DOMAIN backups[k]
        BY <4>1, <4>2
      <4>4. \A i \in DOMAIN backups[k] : s[i].n = backups[k][i].n
        BY <2>0, FilledFields
      <4> QED
        BY <4>1, <4>2, <4>3, <4>4 DEF Counted
    <3> HIDE DEF s
    <3>2. Counted(Newest(s, MaxBackups), taken[k])
      <4> DEFINE r == Newest(s, MaxBackups)
      <4>1. r \in Seq(Backup) /\ \A i \in 1 .. Len(r) : \E j \in 1 .. Len(s) : r[i] = s[j]
        BY <3>1, NewestTyped, AgentAssumption
      <4> HIDE DEF r
      <4>2. \A i \in DOMAIN r : r[i].n \in 1 .. taken[k]
        BY <3>1, <4>1 DEF Counted
      <4> QED
        BY <4>2 DEF r, Counted
    <3>3. backups'[k] \in {s, Newest(s, MaxBackups)}
      BY <2>0, <2>3 DEF s
    <3>4. \A l \in Kinds \ {k} : backups'[l] = backups[l]
      BY <2>0, <2>3
    <3> QED
      BY <2>0, <2>3, <3>1, <3>2, <3>3, <3>4
  <2>4. ASSUME NEW t \in Threads, BackupStart(t)
        PROVE  \A k \in Kinds : Counted(backups'[k], taken'[k])
    <3>1. K(t) \in Kinds /\ Half(tree[K(t)].files) \in Files
      BY <2>4, JobOf, FilesTyped DEF BackupStart, At
    <3> QED
      BY <2>1, <2>2, <2>4, <3>1, BackupBegun
  <2>5. ASSUME NEW t \in Threads, BackupFileStart(t)
        PROVE  \A k \in Kinds : Counted(backups'[k], taken'[k])
    <3>1. "config" \in Kinds /\ Half(tree["config"].files) \in Files
      BY <2>0, FilesTyped DEF Kinds, TypeOK, Tree
    <3> QED
      BY <2>1, <2>2, <2>5, <3>1, FileBegun
  <2>6. ASSUME NEW t \in Threads, BackupDone(t)
        PROVE  \A k \in Kinds : Counted(backups'[k], taken'[k])
    <3>1. K(t) \in Kinds /\ th[t].bak \in Nat /\ th[t].snap \in Files
      BY <2>0, <2>6, JobOf, ThreadFields DEF BackupDone, At
    <3> QED
      BY <2>3, <2>6, <3>1 DEF BackupDone
  <2>7. ASSUME NEW t \in Threads, BackupFileDone(t)
        PROVE  \A k \in Kinds : Counted(backups'[k], taken'[k])
    <3>1. "config" \in Kinds /\ th[t].bak \in Nat /\ th[t].snap \in Files /\ taken' = taken
      BY <2>0, <2>7, ThreadFields DEF Kinds, BackupFileDone
    <3> QED
      BY <2>1, <2>3, <2>7, <3>1, BackupFileDoneTyped
  <2>8. ASSUME NEW t \in Threads, Step(t),
               ~BackupStart(t), ~BackupFileStart(t), ~BackupDone(t), ~BackupFileDone(t)
        PROVE  UNCHANGED <<backups, taken>>
    BY <2>8 DEF Step, UnlinkTmp, OpenTmp, StreamDone, StreamFails, Verify, MoveTmp,
       BackupFails, StopService, ClearDriver, InstallStart, InstallDone,
       StartService, HealthCheck, Rollback, RestoreStart, RestoreDone, RestartService,
       ApplyConfig, RestoreFileStart, RestoreFileDone,
       StageZigbee, Listen, RequestZigbee, Answered, ZigbeeTimeout, Unlisten,
       SaveVersions, Report, Cleanup, NextJob, disk, shared
  <2>9. ASSUME \/ \E j \in Jobs : Create(j) \/ Unheard(j) \/ AnswerZigbee(j)
               \/ \E t \in Threads, j \in Jobs : Receive(t, j) \/ Refuse(t, j)
               \/ Shutdown \/ Crash \/ UNCHANGED vars
        PROVE  UNCHANGED <<backups, taken>>
    BY <2>9 DEF Create, Unheard, AnswerZigbee, Receive, Refuse, Shutdown, Crash, vars, disk, shared
  <2> QED
    BY <2>1, <2>4, <2>5, <2>6, <2>7, <2>8, <2>9 DEF Next, Lose, Ignore, Overhear
<1> QED
  BY <1>1, <1>2, RuledAlways, PTL DEF Spec

LEMMA StepRemembered ==
    ASSUME OneThread, Ruled, Numbered, NEW t \in Threads, RememberedOf(t), Step(t)
    PROVE  RememberedOf(t)'
<1>0. TypeOK /\ th[t].bak \in Nat
  BY ThreadFields DEF Ruled
<1>g. \A pc \in Pc : Goto(t, pc) =>
          /\ th'[t].pc = pc /\ th'[t].bak = th[t].bak /\ th'[t].snap = th[t].snap
          /\ th'[t].rolled = th[t].rolled /\ th'[t].was = th[t].was
  BY <1>0, GoesOn DEF Went, Keeps
<1>r. ~th[t].rolled /\ (Raise(t) \/ Recovery(t)) => RememberedOf(t)'
  BY <1>0, NothingRolled
<1>1. CASE UnlinkTmp(t)
  <2>1. ~th[t].rolled \/ th[t].pc \in {"report", "cleanup", "next"}
    BY DEF RememberedOf
  <2> QED
    BY <1>0, <1>g, <1>r, <1>1, <2>1, UnlinkTmpTyped, JobOf DEF UnlinkTmp, RememberedOf, Found, Before, Repair, Pc, At, Went, routing, shared, K, Kind, disk, said, Ended
<1>2. CASE OpenTmp(t)
  <2>1. ~th[t].rolled \/ th[t].pc \in {"report", "cleanup", "next"}
    BY DEF RememberedOf
  <2> QED
    BY <1>0, <1>g, <1>r, <1>2, <2>1, OpenTmpTyped, JobOf DEF OpenTmp, RememberedOf, Found, Before, Repair, Pc, At, Went, routing, shared, K, Kind, disk, said, Ended
<1>3. CASE StreamDone(t)
  <2>1. ~th[t].rolled \/ th[t].pc \in {"report", "cleanup", "next"}
    BY DEF RememberedOf
  <2> QED
    BY <1>0, <1>g, <1>r, <1>3, <2>1, StreamDoneTyped, JobOf DEF StreamDone, RememberedOf, Found, Before, Repair, Pc, At, Went, routing, shared, K, Kind, disk, said, Ended
<1>4. CASE StreamFails(t)
  <2>1. ~th[t].rolled \/ th[t].pc \in {"report", "cleanup", "next"}
    BY DEF RememberedOf
  <2> QED
    BY <1>0, <1>g, <1>r, <1>4, <2>1, StreamFailsTyped, JobOf, Retries DEF StreamFails, RememberedOf, Found, Before, Repair, Pc, At, Went, routing, shared, K, Kind, disk, said, Ended
<1>5. CASE Verify(t)
  <2>1. ~th[t].rolled \/ th[t].pc \in {"report", "cleanup", "next"}
    BY DEF RememberedOf
  <2> QED
    BY <1>0, <1>g, <1>r, <1>5, <2>1, VerifyTyped, JobOf DEF Verify, RememberedOf, Found, Before, Repair, Pc, At, Went, routing, shared, K, Kind, disk, said, Ended
<1>6. CASE MoveTmp(t)
  <2>1. ~th[t].rolled \/ th[t].pc \in {"report", "cleanup", "next"}
    BY DEF RememberedOf
  <2> QED
    <3>1. CASE Raise(t)
      BY <1>r, <1>6, <2>1, <3>1 DEF MoveTmp, At
    <3>2. CASE th' = [th EXCEPT ![t].pc = Handler(K(t)), ![t].tries = 0]
      <4>1. /\ th'[t].pc \in {"backup", "backupFile", "stage"} /\ th'[t].bak = th[t].bak
            /\ th'[t].rolled = th[t].rolled /\ th'[t].was = th[t].was /\ th'[t].job = th[t].job
        BY <1>0, <3>2, Downloaded, HandlerPc DEF Went, Pc
      <4>2. K(t)' = K(t) /\ Ended(th[t].job)' = Ended(th[t].job) /\ tree' = tree
        BY <1>6, <4>1 DEF MoveTmp, K, Kind, Ended, said, routing, disk
      <4> QED
        BY <1>6, <2>1, <4>1, <4>2 DEF MoveTmp, RememberedOf, Found, Before, Repair, At
    <3> QED
      BY <1>6, <3>1, <3>2 DEF MoveTmp
<1>7. CASE BackupStart(t)
  <2> DEFINE k == K(t)
             n == taken[k] + 1
  <2>1. /\ k \in Kinds /\ taken[k] \in Nat /\ th[t].bak = 0 /\ ~th[t].rolled /\ ~At(t, "idle")
        /\ tree' = tree /\ K(t)' = k /\ th'[t].job = th[t].job /\ told' = told
        /\ k # "zigbee" /\ ~Ended(th[t].job) => tree[k] = th[t].was
    BY <1>0, <1>7, BackupStartTyped, JobOf
       DEF BackupStart, RememberedOf, At, Went, K, Kind, routing, said, Found, Before
  <2>2. CASE /\ ~tree[k].there /\ UNCHANGED <<backups, taken, bad>> /\ Keeps(t)
             /\ Went(t, {IF k = "driver" THEN "clear" ELSE "stop"})
    <3>1. \A i \in DOMAIN backups[k] : backups[k][i].n # 0
      BY <2>1 DEF Numbered
    <3>2. th'[t].pc \in {"clear", "stop"} /\ th'[t].bak = 0 /\ ~th'[t].rolled /\ th'[t].was = th[t].was
      BY <2>1, <2>2 DEF Went, Keeps
    <3>3. K(t)' # "zigbee" /\ ~Ended(th[t].job)' => Found(t)'
      BY <2>1, <2>2, <3>1, <3>2 DEF Found, Before, Repair, Ended, At
    <3> QED
      BY <3>2, <3>3 DEF RememberedOf
  <2>3. CASE /\ tree[k].there
             /\ Went(t, {"copytree"}) /\ th'[t].bak = n /\ th'[t].snap = tree[k].files
             /\ th'[t].rolled = th[t].rolled /\ th'[t].was = th[t].was
    <3>1. th'[t].pc = "copytree" /\ ~th'[t].rolled
      BY <2>1, <2>3 DEF Went
    <3>2. K(t)' # "zigbee" /\ ~Ended(th[t].job)' => Found(t)'
      BY <2>1, <2>3, <3>1 DEF Found, Before, Repair, Ended, At
    <3> QED
      BY <3>1, <3>2 DEF RememberedOf
  <2>4. CASE Raise(t)
    BY <1>r, <2>1, <2>4
  <2> QED
    BY <1>7, <2>2, <2>3, <2>4, BackupBegun
<1>8. CASE BackupDone(t)
  <2> DEFINE k == K(t)
             s == Filled(k, th[t].bak, th[t].snap)
  <2>1. /\ k \in Kinds /\ th[t].snap \in Files /\ ~th[t].rolled /\ ~At(t, "idle")
        /\ tree' = tree /\ K(t)' = k /\ th'[t].job = th[t].job /\ told' = told
        /\ Goto(t, "clear") \/ Goto(t, "stop")
        /\ k # "zigbee" /\ ~Ended(th[t].job) =>
              tree[k] = th[t].was /\ th[t].was.there /\ th[t].snap = th[t].was.files
    BY <1>0, <1>8, BackupDoneTyped, JobOf, ThreadFields
       DEF BackupDone, RememberedOf, At, Went, K, Kind, routing, said, Found, Before
  <2>2. th'[t].pc \in {"clear", "stop"} /\ th'[t].bak = th[t].bak /\ ~th'[t].rolled /\ th'[t].was = th[t].was
    BY <1>g, <2>1 DEF Pc
  <2>3. s \in Seq(Backup) /\ \A i \in 1 .. Len(s) : s[i].n = th[t].bak => s[i].files = th[t].snap
    <3>0. PICK l \in Kinds, m \in Nat, g \in Files : l = k /\ m = th[t].bak /\ g = th[t].snap
      BY <1>0, <2>1
    <3>1. Filled(l, m, g) \in Seq(Backup) /\ DOMAIN Filled(l, m, g) = DOMAIN backups[l]
      <4>1. Filled(l, m, g) \in Seq(Backup)
        BY <1>0, FilledTyped
      <4>2. DOMAIN Filled(l, m, g) = DOMAIN backups[l]
        BY <1>0, FilledFields
      <4> QED
        BY <4>1, <4>2
    <3>2. \A i \in DOMAIN backups[l] : Filled(l, m, g)[i].n = m => Filled(l, m, g)[i].files = g
      BY <1>0, FilledFields
    <3>3. s = Filled(l, m, g)
      BY <3>0
    <3> HIDE DEF s
    <3>4. DOMAIN s = 1 .. Len(s)
      BY <3>1, <3>3
    <3> QED
      BY <3>0, <3>1, <3>2, <3>3, <3>4
  <2>4. backups'[k] = Newest(s, MaxBackups)
    BY <1>0, <1>8, <2>1 DEF BackupDone, TypeOK
  <2> HIDE DEF s
  <2>5. \A i \in DOMAIN backups'[k] : backups'[k][i].n = th[t].bak => backups'[k][i].files = th[t].snap
    <3> DEFINE r == Newest(s, MaxBackups)
    <3>1. r \in Seq(Backup) /\ \A i \in 1 .. Len(r) : \E j \in 1 .. Len(s) : r[i] = s[j]
      BY <2>3, NewestTyped, AgentAssumption
    <3> HIDE DEF r
    <3>2. \A i \in DOMAIN r : r[i].n = th[t].bak => r[i].files = th[t].snap
      BY <2>3, <3>1
    <3> QED
      BY <2>4, <3>2 DEF r
  <2>6. k # "zigbee" /\ ~Ended(th[t].job)' => Found(t)'
    BY <2>1, <2>2, <2>5 DEF Found, Before, Repair, Ended, At
  <2> QED
    BY <2>1, <2>2, <2>6 DEF RememberedOf
<1>9. CASE BackupFails(t)
  <2>1. ~th[t].rolled \/ th[t].pc \in {"report", "cleanup", "next"}
    BY DEF RememberedOf
  <2> QED
    BY <1>0, <1>g, <1>r, <1>9, <2>1, BackupFailsTyped, JobOf DEF BackupFails, RememberedOf, Found, Before, Repair, Pc, At, Went, routing, shared, K, Kind, disk, said, Ended
<1>10. CASE StopService(t)
  <2>1. /\ th'[t].pc \in {"install", "copying", "start", "health", "save", "rollback"}
        /\ th'[t].job = th[t].job /\ th'[t].bak = th[t].bak /\ th'[t].was = th[t].was
        /\ th'[t].rolled = th[t].rolled
    BY <1>0, <1>g, <1>10, StopServiceTyped, JobOf DEF StopService, Went, Pc
  <2> QED
    BY <1>0, <1>10, <2>1, Repairing DEF StopService, At, Repair, routing, said, shared, disk
<1>11. CASE ClearDriver(t)
  <2>1. /\ th'[t].pc \in {"install", "copying", "start", "health", "save", "rollback"}
        /\ th'[t].job = th[t].job /\ th'[t].bak = th[t].bak /\ th'[t].was = th[t].was
        /\ th'[t].rolled = th[t].rolled
    BY <1>0, <1>g, <1>11, ClearDriverTyped, JobOf DEF ClearDriver, Went, Pc
  <2> QED
    BY <1>0, <1>11, <2>1, Repairing DEF ClearDriver, At, Repair, routing, said, shared, disk
<1>12. CASE InstallStart(t)
  <2> DEFINE c == dest[th[t].job].content
  <2>1. CASE Goto(t, "rollback")
    BY <1>0, <1>g, <1>12, <2>1, InstallStartTyped, Repairing
       DEF InstallStart, At, Repair, routing, said, Went, Pc
  <2>2. CASE th' = [th EXCEPT ![t].pc = "copying", ![t].src = c]
    <3>1. c \in Content
      BY <1>12, JobOf DEF InstallStart, At
    <3> HIDE DEF c
    <3>2. /\ th'[t].pc = "copying" /\ th'[t].job = th[t].job /\ th'[t].bak = th[t].bak
          /\ th'[t].was = th[t].was /\ th'[t].rolled = th[t].rolled
      BY <1>0, <2>2, <3>1, Reads DEF Went
    <3> QED
      BY <1>0, <1>12, <3>2, Repairing DEF InstallStart, At, Repair, routing, said
  <2> QED
    BY <1>12, <2>1, <2>2 DEF InstallStart
<1>13. CASE InstallDone(t)
  <2>1. /\ th'[t].pc \in {"install", "copying", "start", "health", "save", "rollback"}
        /\ th'[t].job = th[t].job /\ th'[t].bak = th[t].bak /\ th'[t].was = th[t].was
        /\ th'[t].rolled = th[t].rolled
    BY <1>0, <1>g, <1>13, InstallDoneTyped, JobOf DEF InstallDone, Went, Pc
  <2> QED
    BY <1>0, <1>13, <2>1, Repairing DEF InstallDone, At, Repair, routing, said, shared, disk
<1>14. CASE StartService(t)
  <2>1. /\ th'[t].pc \in {"install", "copying", "start", "health", "save", "rollback"}
        /\ th'[t].job = th[t].job /\ th'[t].bak = th[t].bak /\ th'[t].was = th[t].was
        /\ th'[t].rolled = th[t].rolled
    BY <1>0, <1>g, <1>14, StartServiceTyped, JobOf DEF StartService, Went, Pc
  <2> QED
    BY <1>0, <1>14, <2>1, Repairing DEF StartService, At, Repair, routing, said, shared, disk
<1>15. CASE HealthCheck(t)
  <2>1. /\ th'[t].pc \in {"install", "copying", "start", "health", "save", "rollback"}
        /\ th'[t].job = th[t].job /\ th'[t].bak = th[t].bak /\ th'[t].was = th[t].was
        /\ th'[t].rolled = th[t].rolled
    BY <1>0, <1>g, <1>15, HealthCheckTyped, JobOf DEF HealthCheck, Went, Pc
  <2> QED
    BY <1>0, <1>15, <2>1, Repairing DEF HealthCheck, At, Repair, routing, said, shared, disk
<1>16. CASE Rollback(t)
  <2> DEFINE k == K(t)
  <2>1. /\ k \in Kinds /\ ~th[t].rolled /\ ~At(t, "idle") /\ tree \in [Kinds -> Tree]
        /\ K(t)' = k /\ th'[t].job = th[t].job /\ told' = told /\ backups' = backups
        /\ k # "zigbee" /\ ~Ended(th[t].job) =>
              \A i \in DOMAIN backups[k] : backups[k][i].n = th[t].bak =>
                  th[t].was.there /\ backups[k][i].files = th[t].was.files
    BY <1>0, <1>16, RollbackTyped, JobOf
       DEF Rollback, RememberedOf, At, Went, K, Kind, routing, said, Found, Repair, TypeOK
  <2>2. CASE tree' = [tree EXCEPT ![k] = Gone] /\ Goto(t, "restore")
    <3>1. th'[t].pc = "restore" /\ th'[t].bak = th[t].bak /\ th'[t].was = th[t].was /\ ~th'[t].rolled
      BY <1>g, <2>1, <2>2 DEF Pc
    <3>2. tree'[k] = Gone
      BY <2>1, <2>2
    <3>3. k # "zigbee" /\ ~Ended(th[t].job)' => Found(t)'
      BY <2>1, <3>1, <3>2 DEF Found, Before, Repair, Ended, At
    <3> QED
      BY <2>1, <3>1, <3>3 DEF RememberedOf
  <2>3. CASE RollbackFails(t)
    BY <1>r, <2>1, <2>3 DEF RollbackFails
  <2> QED
    BY <1>16, <2>2, <2>3 DEF Rollback
<1>17. CASE RestoreStart(t)
  <2> DEFINE k == K(t)
             f == BackupFiles(k, th[t].bak)
             w == th[t].was
  <2>1. /\ k \in Kinds /\ tree[k] \in Tree /\ ~th[t].rolled /\ ~At(t, "idle")
        /\ K(t)' = k /\ th'[t].job = th[t].job /\ told' = told /\ backups' = backups
        /\ k # "zigbee" /\ ~Ended(th[t].job) =>
              /\ tree[k] = Gone
              /\ \A i \in DOMAIN backups[k] : backups[k][i].n = th[t].bak =>
                    w.there /\ backups[k][i].files = w.files
    BY <1>0, <1>17, RestoreStartTyped, JobOf
       DEF RestoreStart, RememberedOf, At, Went, K, Kind, routing, said, Found, Repair
  <2>2. CASE HasBackup(k, th[t].bak)
    <3>1. /\ SetFiles(k, Over(Half(f), tree[k].files)) /\ Goto(t, "restoring")
          /\ f \in Files /\ \E i \in DOMAIN backups[k] : backups[k][i].n = th[t].bak /\ f = backups[k][i].files
      BY <1>17, <2>1, <2>2, FilesOfBackup DEF RestoreStart
    <3>2. /\ th'[t].pc = "restoring" /\ th'[t].bak = th[t].bak /\ th'[t].was = w /\ ~th'[t].rolled
      BY <1>g, <2>1, <3>1 DEF Pc
    <3>3. tree'[k].files = Over(Half(f), tree[k].files)
      <4>1. Over(Half(f), tree[k].files) \in Files
        BY <2>1, <3>1, FilesTyped DEF Tree
      <4> QED
        BY <1>0, <2>1, <3>1, <4>1, Puts
    <3>4. k # "zigbee" /\ ~Ended(th[t].job) =>
              \A g \in 0 .. MaxJobs : w.files[g] = "absent" => tree'[k].files[g] = "absent"
      <4> SUFFICES ASSUME k # "zigbee", ~Ended(th[t].job), NEW g \in 0 .. MaxJobs,
                          w.files[g] = "absent"
                   PROVE  tree'[k].files[g] = "absent"
        OBVIOUS
      <4>0. f = w.files /\ tree[k] = Gone
        BY <2>1, <3>1
      <4>1. f[g] = "absent" /\ tree[k].files[g] = "absent"
        BY <4>0 DEF Gone, Empty
      <4>2. Half(f)[g] = "absent"
        BY <4>1 DEF Half
      <4> QED
        BY <3>3, <4>1, <4>2 DEF Over
    <3>5. k # "zigbee" /\ ~Ended(th[t].job)' => Found(t)'
      BY <2>1, <3>2, <3>4 DEF Found, Before, Repair, Ended, At
    <3> QED
      BY <2>1, <3>2, <3>5 DEF RememberedOf
  <2>3. CASE RollbackFails(t)
    BY <1>r, <2>1, <2>3 DEF RollbackFails
  <2> QED
    BY <1>17, <2>2, <2>3 DEF RestoreStart
<1>18. CASE RestoreDone(t)
  <2> DEFINE k == K(t)
             f == BackupFiles(k, th[t].bak)
             w == th[t].was
  <2>1. /\ k \in Kinds /\ tree[k] \in Tree /\ ~th[t].rolled /\ ~At(t, "idle") /\ w \in Tree
        /\ K(t)' = k /\ th'[t].job = th[t].job /\ told' = told /\ backups' = backups
        /\ k # "zigbee" /\ ~Ended(th[t].job) =>
              /\ \A g \in 0 .. MaxJobs : w.files[g] = "absent" => tree[k].files[g] = "absent"
              /\ \A i \in DOMAIN backups[k] : backups[k][i].n = th[t].bak =>
                    w.there /\ backups[k][i].files = w.files
    BY <1>0, <1>18, RestoreDoneTyped, JobOf, ThreadFields
       DEF RestoreDone, RememberedOf, At, Went, K, Kind, routing, said, Found, Repair
  <2>2. CASE /\ HasBackup(k, th[t].bak)
             /\ SetFiles(k, Over(f, tree[k].files)) /\ Goto(t, "restart")
    <3>1. f \in Files /\ \E i \in DOMAIN backups[k] : backups[k][i].n = th[t].bak /\ f = backups[k][i].files
      BY <2>1, <2>2, FilesOfBackup
    <3>2. /\ th'[t].pc = "restart" /\ th'[t].bak = th[t].bak /\ th'[t].was = w /\ ~th'[t].rolled
      BY <1>g, <2>1, <2>2 DEF Pc
    <3>3. Over(f, tree[k].files) \in Files /\ tree[k].files \in Files
      BY <2>1, <3>1, FilesTyped DEF Tree
    <3>4. tree'[k] \in Tree /\ tree'[k].there /\ tree'[k].files = Over(f, tree[k].files)
      BY <1>0, <2>1, <2>2, <3>3, Puts
    <3>5. k # "zigbee" /\ ~Ended(th[t].job) => tree'[k] = w
      <4> SUFFICES ASSUME k # "zigbee", ~Ended(th[t].job)
                   PROVE  tree'[k] = w
        OBVIOUS
      <4>1. w.there /\ f = w.files
        BY <2>1, <3>1
      <4>2. \A g \in 0 .. MaxJobs : f[g] = "absent" => tree[k].files[g] = "absent"
        BY <2>1, <4>1
      <4>3. Over(f, tree[k].files) = f
        BY <3>1, <4>2 DEF Over, Files
      <4> QED
        BY <2>1, <3>4, <4>1, <4>3 DEF Tree
    <3>6. k # "zigbee" /\ ~Ended(th[t].job)' => Found(t)'
      BY <2>1, <3>2, <3>5 DEF Found, Before, Repair, Ended, At
    <3> QED
      BY <2>1, <3>2, <3>6 DEF RememberedOf
  <2>3. CASE RollbackFails(t)
    BY <1>r, <2>1, <2>3 DEF RollbackFails
  <2> QED
    BY <1>18, <2>2, <2>3 DEF RestoreDone
<1>19. CASE RestartService(t)
  <2>1. ~th[t].rolled \/ th[t].pc \in {"report", "cleanup", "next"}
    BY DEF RememberedOf
  <2> QED
    BY <1>0, <1>g, <1>r, <1>19, <2>1, RestartServiceTyped, JobOf, Rolls DEF RestartService, RememberedOf, Found, Before, Repair, Pc, At, Went, routing, shared, K, Kind, disk, said, Ended, Fits, Directories
<1>20. CASE BackupFileStart(t)
  <2> DEFINE n == taken["config"] + 1
  <2>1. /\ taken["config"] \in Nat /\ th[t].bak = 0 /\ ~th[t].rolled /\ ~At(t, "idle")
        /\ tree' = tree /\ K(t) = "config" /\ K(t)' = K(t) /\ th'[t].job = th[t].job /\ told' = told
        /\ ~Ended(th[t].job) => tree["config"] = th[t].was
    BY <1>0, <1>20, BackupFileStartTyped, FileBegun, JobOf
       DEF BackupFileStart, RememberedOf, At, Went, K, Kind, routing, said, Found, Before
  <2>2. CASE ~tree["config"].there /\ Keeps(t) /\ Went(t, {"apply"})
    <3>1. th'[t].pc = "apply" /\ th'[t].bak = 0 /\ ~th'[t].rolled /\ th'[t].was = th[t].was
      BY <2>1, <2>2 DEF Went, Keeps
    <3>2. ~Ended(th[t].job)' => Found(t)'
      BY <2>1, <3>1 DEF Found, Before, Repair, Ended, At
    <3> QED
      BY <3>1, <3>2 DEF RememberedOf
  <2>3. CASE /\ tree["config"].there
             /\ Went(t, {"copyFile"}) /\ th'[t].bak = n /\ th'[t].snap = tree["config"].files
             /\ th'[t].rolled = th[t].rolled /\ th'[t].was = th[t].was
    <3>1. th'[t].pc = "copyFile" /\ ~th'[t].rolled
      BY <2>1, <2>3 DEF Went
    <3>2. ~Ended(th[t].job)' => Found(t)'
      BY <2>1, <2>3, <3>1 DEF Found, Before, Repair, Ended, At
    <3> QED
      BY <3>1, <3>2 DEF RememberedOf
  <2>4. CASE Raise(t)
    BY <1>r, <2>1, <2>4
  <2> QED
    BY <1>20, <2>2, <2>3, <2>4, FileBegun
<1>21. CASE BackupFileDone(t)
  <2> DEFINE w == th[t].was
  <2>1. /\ K(t) = "config" /\ ~th[t].rolled /\ tree' = tree
        /\ K(t)' = K(t) /\ th'[t].job = th[t].job /\ told' = told /\ ~At(t, "idle")
        /\ ~Ended(th[t].job) => tree["config"] = w /\ w.there /\ th[t].snap = w.files
    BY <1>0, <1>21, BackupFileDoneTyped, JobOf
       DEF BackupFileDone, RememberedOf, At, Went, K, Kind, routing, said, Found, Fits, Before
  <2>2. CASE Goto(t, "apply")
    <3>1. /\ th'[t].pc = "apply" /\ th'[t].was = w /\ th'[t].snap = th[t].snap /\ ~th'[t].rolled
          /\ th'[t].bak = th[t].bak
      BY <1>g, <2>1, <2>2 DEF Pc
    <3>2. ~Ended(th[t].job)' => Found(t)'
      BY <2>1, <3>1 DEF Found, Before, Repair, Ended, At
    <3> QED
      BY <3>1, <3>2 DEF RememberedOf
  <2>3. CASE Raise(t)
    BY <1>r, <2>1, <2>3
  <2> QED
    BY <1>21, <2>2, <2>3 DEF BackupFileDone
<1>22. CASE ApplyConfig(t)
  <2>1. ~th[t].rolled \/ th[t].pc \in {"report", "cleanup", "next"}
    BY DEF RememberedOf
  <2> QED
    BY <1>0, <1>g, <1>r, <1>22, <2>1, ApplyConfigTyped, JobOf DEF ApplyConfig, RememberedOf, Found, Before, Repair, Pc, At, Went, routing, shared, K, Kind, disk, said, Ended
<1>23. CASE RestoreFileStart(t)
  <2>1. ~th[t].rolled \/ th[t].pc \in {"report", "cleanup", "next"}
    BY DEF RememberedOf
  <2> QED
    BY <1>0, <1>g, <1>r, <1>23, <2>1, RestoreFileStartTyped, JobOf DEF RestoreFileStart, RememberedOf, Found, Before, Repair, Pc, At, Went, routing, shared, K, Kind, disk, said, Ended
<1>24. CASE RestoreFileDone(t)
  <2> DEFINE w == th[t].was
  <2>1. /\ K(t) = "config" /\ "config" \in Kinds /\ th[t].snap \in Files /\ ~th[t].rolled /\ w \in Tree
        /\ K(t)' = K(t) /\ th'[t].job = th[t].job /\ told' = told /\ ~At(t, "idle")
        /\ ~Ended(th[t].job) => w.there /\ th[t].snap = w.files
    BY <1>0, <1>24, RestoreFileDoneTyped, JobOf, ThreadFields
       DEF RestoreFileDone, RememberedOf, At, Went, K, Kind, routing, said, Found, Fits, Kinds
  <2>2. CASE /\ SetFiles("config", th[t].snap)
             /\ th' = [th EXCEPT ![t].pc = "report", ![t].out = "RESTORED", ![t].rolled = TRUE]
    <3>1. th'[t].pc = "report" /\ th'[t].was = w
      BY <1>0, <2>2, Rolls DEF Went
    <3>2. tree'["config"] \in Tree /\ tree'["config"].there /\ tree'["config"].files = th[t].snap
      BY <1>0, <2>1, <2>2, Puts
    <3>3. ~Ended(th[t].job) => tree'["config"] = w
      BY <2>1, <3>2 DEF Tree
    <3>4. ~Ended(th[t].job)' => Found(t)'
      BY <2>1, <3>1, <3>3 DEF Found, Before, Repair, Ended, At
    <3> QED
      BY <2>1, <3>1, <3>4 DEF RememberedOf
  <2>3. CASE Raise(t)
    BY <1>r, <2>1, <2>3
  <2> QED
    BY <1>24, <2>2, <2>3 DEF RestoreFileDone
<1>25. CASE StageZigbee(t)
  <2>1. ~th[t].rolled \/ th[t].pc \in {"report", "cleanup", "next"}
    BY DEF RememberedOf
  <2> QED
    BY <1>0, <1>g, <1>r, <1>25, <2>1, StageZigbeeTyped, JobOf DEF StageZigbee, RememberedOf, Found, Before, Repair, Pc, At, Went, routing, shared, K, Kind, disk, said, Ended, Fits, Directories
<1>26. CASE Listen(t)
  <2>1. ~th[t].rolled \/ th[t].pc \in {"report", "cleanup", "next"}
    BY DEF RememberedOf
  <2> QED
    BY <1>0, <1>g, <1>r, <1>26, <2>1, ListenTyped, JobOf, Listens DEF Listen, RememberedOf, Found, Before, Repair, Pc, At, Went, routing, shared, K, Kind, disk, said, Ended, Fits, Directories
<1>27. CASE RequestZigbee(t)
  <2>1. ~th[t].rolled \/ th[t].pc \in {"report", "cleanup", "next"}
    BY DEF RememberedOf
  <2> QED
    BY <1>0, <1>g, <1>r, <1>27, <2>1, RequestZigbeeTyped, JobOf DEF RequestZigbee, RememberedOf, Found, Before, Repair, Pc, At, Went, routing, shared, K, Kind, disk, said, Ended, Fits, Directories
<1>28. CASE Answered(t)
  <2>1. ~th[t].rolled \/ th[t].pc \in {"report", "cleanup", "next"}
    BY DEF RememberedOf
  <2> QED
    BY <1>0, <1>g, <1>r, <1>28, <2>1, AnsweredTyped, JobOf DEF Answered, RememberedOf, Found, Before, Repair, Pc, At, Went, routing, shared, K, Kind, disk, said, Ended, Fits, Directories
<1>29. CASE ZigbeeTimeout(t)
  <2>1. ~th[t].rolled \/ th[t].pc \in {"report", "cleanup", "next"}
    BY DEF RememberedOf
  <2> QED
    BY <1>0, <1>g, <1>r, <1>29, <2>1, ZigbeeTimeoutTyped, JobOf, Hears DEF ZigbeeTimeout, RememberedOf, Found, Before, Repair, Pc, At, Went, routing, shared, K, Kind, disk, said, Ended, Fits, Directories
<1>30. CASE Unlisten(t)
  <2>1. ~th[t].rolled \/ th[t].pc \in {"report", "cleanup", "next"}
    BY DEF RememberedOf
  <2> QED
    BY <1>0, <1>g, <1>r, <1>30, <2>1, UnlistenTyped, JobOf DEF Unlisten, RememberedOf, Found, Before, Repair, Pc, At, Went, routing, shared, K, Kind, disk, said, Ended, Fits, Directories
<1>31. CASE SaveVersions(t)
  <2>1. ~th[t].rolled
    BY <1>31 DEF RememberedOf, SaveVersions, At
  <2>2. CASE th' = [th EXCEPT ![t].pc = "report", ![t].out = "SUCCEEDED"]
    <3>1. th'[t].pc = "report" /\ ~th'[t].rolled
      BY <1>0, <2>1, <2>2, Raises DEF Results
    <3> QED
      BY <3>1 DEF RememberedOf, Found, Before, Repair, At
  <2>3. CASE Raise(t)
    BY <1>r, <2>1, <2>3
  <2> QED
    BY <1>31, <2>2, <2>3 DEF SaveVersions
<1>32. CASE Report(t)
  <2>1. ~th[t].rolled \/ th[t].pc \in {"report", "cleanup", "next"}
    BY DEF RememberedOf
  <2> QED
    BY <1>0, <1>g, <1>r, <1>32, <2>1, ReportTyped, JobOf DEF Report, RememberedOf, Found, Before, Repair, Pc, At, Went, routing, shared, K, Kind, disk, said, Ended
<1>33. CASE Cleanup(t)
  <2>1. ~th[t].rolled \/ th[t].pc \in {"report", "cleanup", "next"}
    BY DEF RememberedOf
  <2> QED
    BY <1>0, <1>g, <1>r, <1>33, <2>1, CleanupTyped, JobOf DEF Cleanup, RememberedOf, Found, Before, Repair, Pc, At, Went, routing, shared, K, Kind, disk, said, Ended
<1>34. CASE NextJob(t)
  BY <1>34, NextJobTyped, IdleTyped DEF RememberedOf, At, Idle
<1> QED
  BY <1>1, <1>2, <1>3, <1>4, <1>5, <1>6, <1>7, <1>8, <1>9, <1>10, <1>11, <1>12, <1>13, <1>14, <1>15, <1>16, <1>17, <1>18, <1>19, <1>20, <1>21, <1>22, <1>23, <1>24, <1>25, <1>26, <1>27, <1>28, <1>29, <1>30, <1>31, <1>32, <1>33, <1>34 DEF Step

LEMMA NextRemembered ==
    ASSUME OneThread, Ruled, Numbered, NEW t \in Threads, RememberedOf(t), [Next]_vars
    PROVE  RememberedOf(t)'
<1>1. CASE UNCHANGED vars
  BY <1>1 DEF RememberedOf, Found, At, K, Kind, Ended, vars, shared, routing
<1>2. ASSUME NEW j \in Jobs, Create(j)
      PROVE  RememberedOf(t)'
  <2>1. UNCHANGED th
    BY <1>2 DEF Create
  <2>2. CASE At(t, "idle")
    BY <2>1, <2>2 DEF RememberedOf, At
  <2>3. CASE ~At(t, "idle")
    BY <1>2, <2>1, <2>3, BusyEnded, CreateTyped DEF RememberedOf, At
  <2> QED
    BY <2>2, <2>3
<1>3. ASSUME NEW j \in Jobs, Unheard(j)
      PROVE  RememberedOf(t)'
  BY <1>3 DEF RememberedOf, Found, Unheard, At, K, Kind, Ended, routing, said, disk
<1>4. ASSUME NEW j \in Jobs, AnswerZigbee(j)
      PROVE  RememberedOf(t)'
  <2>1. /\ th'[t].pc = th[t].pc /\ th'[t].bak = th[t].bak /\ th'[t].rolled = th[t].rolled
        /\ K(t)' = K(t) /\ Ended(th[t].job)' = Ended(th[t].job)
    BY <1>4, AnswerTyped DEF AnswerZigbee, K, Kind, Ended, said
  <2>2. CASE At(t, "idle") \/ K(t) = "zigbee"
    BY <2>1, <2>2 DEF RememberedOf, At
  <2>3. CASE ~At(t, "idle") /\ K(t) # "zigbee"
    <3>1. tree'[K(t)] = tree[K(t)] /\ backups' = backups
      BY <1>4, <2>3, JobOf, AnswerTyped DEF AnswerZigbee
    <3>2. th'[t].snap = th[t].snap /\ th'[t].was = th[t].was
      BY <1>4, AnswerTyped
    <3>3. Found(t) => Found(t)'
      BY <2>1, <3>1, <3>2 DEF Found, At
    <3> QED
      BY <2>1, <3>3 DEF RememberedOf, At
  <2> QED
    BY <2>2, <2>3
<1>5. ASSUME NEW s \in Threads, Step(s)
      PROVE  RememberedOf(t)'
  <2>1. s = t
    BY DEF OneThread
  <2> QED
    BY <1>5, <2>1, StepRemembered
<1>6. ASSUME NEW s \in Threads, NEW j \in Jobs, Receive(s, j)
      PROVE  RememberedOf(t)'
  <2>1. /\ th'[t].pc = "unlink" /\ th'[t].job = j /\ th'[t].was = tree[kind[j]]
        /\ th'[t].bak = 0 /\ ~th'[t].rolled
    BY <1>6, ReceiveTyped DEF OneThread
  <2>2. tree'[K(t)'] = th'[t].was
    BY <1>6, <2>1 DEF Receive, K, Kind, disk, routing
  <2> QED
    BY <2>1, <2>2 DEF RememberedOf, Found, Before, Repair, At
<1>7. ASSUME NEW s \in Threads, NEW j \in Jobs, Refuse(s, j)
      PROVE  RememberedOf(t)'
  <2>1. th' = th /\ th[t].pc = "idle"
    BY <1>7 DEF Refuse, OneThread, At
  <2> QED
    BY <2>1 DEF RememberedOf, At
<1>8. CASE Shutdown \/ Crash
  <2>1. th'[t].pc = "idle" /\ ~th'[t].rolled
    BY <1>8, ShutdownTyped, CrashTyped DEF Idle
  <2> QED
    BY <2>1 DEF RememberedOf, At
<1> QED
  BY <1>1, <1>2, <1>3, <1>4, <1>5, <1>6, <1>7, <1>8 DEF Next, Lose, Ignore, Overhear

LEMMA RememberedAlways == OneThread => (Spec => []Remembered)
<1> SUFFICES ASSUME OneThread
             PROVE  Spec => []Remembered
  OBVIOUS
<1>1. Init => Remembered
  BY DEF Init, Remembered, RememberedOf, Numbered, Idle, At
<1>2. Ruled /\ Remembered /\ [Next]_vars /\ Numbered' => Remembered'
  <2> SUFFICES ASSUME Ruled, Remembered, [Next]_vars, Numbered'
               PROVE  Remembered'
    OBVIOUS
  <2>1. Numbered /\ \A t \in Threads : RememberedOf(t)
    BY DEF Remembered, RememberedOf
  <2>2. \A t \in Threads : RememberedOf(t)'
    BY <2>1, NextRemembered
  <2> QED
    BY <2>2 DEF Remembered, RememberedOf
<1> QED
  BY <1>1, <1>2, RuledAlways, NumberedAlways, PTL DEF Spec

(* A rollback that an agent with one message at a time reports as one has  *)
(* put back, file by file, what was there when the message came: the       *)
(* backup it restores is its own, whichever were pruned since, and what    *)
(* the installation left is gone before it is copied back                  *)
(* (firmware_handler._rollback, driver_handler._rollback, config_handler,  *)
(* backup_manager).                                                        *)
THEOREM RollbackIsTrue == OneThread => (Spec => RolledBackIsTrue)
<1> SUFFICES ASSUME OneThread
             PROVE  Spec => RolledBackIsTrue
  OBVIOUS
<1> DEFINE Tale ==
        \A t \in Threads : Tells(t, "RESTORED") /\ th[t].rolled => tree[K(t)] = th[t].was
<1>1. Ruled /\ Remembered /\ [Next]_vars => [Tale]_vars
  <2> SUFFICES ASSUME Ruled, Remembered, [Next]_vars,
                      NEW t \in Threads, Tells(t, "RESTORED"), th[t].rolled
               PROVE  tree[K(t)] = th[t].was
    OBVIOUS
  <2>1. ~At(t, "idle") /\ th[t].job \in Jobs /\ K(t) # "zigbee"
    BY DEF Tells, At, Ruled, JobsKnown, Remembered, RememberedOf
  <2>2. ~Ended(th[t].job)
    BY <2>1, EndedStays DEF Tells
  <2> QED
    BY <2>1, <2>2 DEF Remembered, RememberedOf, Found, Tells
<1> QED
  BY <1>1, RememberedAlways, RuledAlways, PTL DEF Spec, RolledBackIsTrue

----------------------------------------------------------------------------
(* A sound copy is left                                                    *)

LEMMA AppendLast ==
    ASSUME NEW s \in Seq(Backup), NEW e \in Backup
    PROVE  Append(s, e) # <<>> /\ Append(s, e)[Len(Append(s, e))] = e
<1>1. Len(s) \in Nat /\ Len(Append(s, e)) = Len(s) + 1
  OBVIOUS
<1> QED
  BY <1>1

LEMMA SafeAppend ==
    ASSUME NEW k, NEW s \in Seq(Backup), NEW b \in Nat, NEW c \in Nat, c = b + 1 \/ k = "config",
           NEW e \in Backup, \A i \in DOMAIN s : s[i].n < e.n, SafeIn(k, s, b, 0)
    PROVE  SafeIn(k, Append(s, e), c, 0) /\ SafeIn(k, Append(s, e), c, e.n)
<1>1. CASE k # "config" /\ b >= MaxBackups
  BY <1>1, AgentAssumption DEF SafeIn
<1>2. CASE \E i \in DOMAIN s : /\ s[i].n # 0 /\ Sound(k, s[i].files)
                               /\ k = "config" \/ Len(s) <= i + b
  <2>1. PICK i \in DOMAIN s : /\ s[i].n # 0 /\ Sound(k, s[i].files)
                              /\ k = "config" \/ Len(s) <= i + b
    BY <1>2
  <2>2. i \in 1 .. Len(s) /\ Len(s) \in Nat /\ s[i].n < e.n /\ s[i].n \in Nat /\ e.n \in Nat
    <3>1. i \in 1 .. Len(s) /\ Len(s) \in Nat /\ s[i] \in Backup /\ s[i].n < e.n
      BY <2>1
    <3> QED
      BY <3>1 DEF Backup
  <2>3. /\ i \in DOMAIN Append(s, e) /\ Append(s, e)[i] = s[i]
        /\ Len(Append(s, e)) = Len(s) + 1
    BY <2>2
  <2>4. k = "config" \/ Len(Append(s, e)) <= i + c
    BY <2>1, <2>2, <2>3
  <2>5. s[i].n # e.n
    BY <2>2
  <2> HIDE DEF SafeIn
  <2> QED
    BY <2>1, <2>3, <2>4, <2>5 DEF SafeIn
<1> QED
  BY <1>1, <1>2 DEF SafeIn

LEMMA SafePrune ==
    ASSUME NEW k, k # "config", NEW s \in Seq(Backup), NEW b \in Nat, SafeIn(k, s, b, 0)
    PROVE  SafeIn(k, Newest(s, MaxBackups), b, 0)
<1> DEFINE r == Newest(s, MaxBackups)
           d == IF Len(s) > MaxBackups THEN Len(s) - MaxBackups ELSE 0
<1>1. CASE b >= MaxBackups
  BY <1>1 DEF SafeIn
<1>2. CASE ~(b >= MaxBackups)
  <2>1. PICK i \in DOMAIN s : s[i].n # 0 /\ Sound(k, s[i].files) /\ Len(s) <= i + b
    BY <1>2 DEF SafeIn
  <2>2. i \in 1 .. Len(s) /\ Len(s) \in Nat /\ MaxBackups \in Nat \ {0}
    BY <2>1, AgentAssumption
  <2>3. d \in Nat /\ i - d \in 1 .. Len(s) - d /\ Len(s) - d <= (i - d) + b
    BY <1>2, <2>1, <2>2
  <2>4. /\ r \in Seq(Backup) /\ Len(r) = Len(s) - d
        /\ \A j \in 1 .. Len(s) - d : r[j] = s[j + d]
    BY <2>2, NewestTyped
  <2>5. (i - d) + d = i
    BY <2>2, <2>3
  <2> HIDE DEF r, d
  <2>6. r[i - d] = s[i] /\ i - d \in DOMAIN r /\ Len(r) <= (i - d) + b
    BY <2>3, <2>4, <2>5
  <2> QED
    BY <2>1, <2>6 DEF SafeIn, r
<1> QED
  BY <1>1, <1>2

(* The backup being made is the last one; it is filled with the files.     *)
LEMMA SafeFilled ==
    ASSUME TypeOK, NEW k \in Kinds, NEW n \in Nat, NEW files \in Files, NEW b \in Nat,
           backups[k] # <<>>, backups[k][Len(backups[k])].n = n,
           \A i \in DOMAIN backups[k] : backups[k][i].n # 0,
           Sound(k, files) \/ SafeIn(k, backups[k], b, n)
    PROVE  SafeIn(k, Filled(k, n, files), IF Sound(k, files) THEN 0 ELSE b, 0)
<1> DEFINE s == backups[k]
           r == Filled(k, n, files)
<1>1. s \in Seq(Backup) /\ Len(s) \in Nat /\ DOMAIN s = 1 .. Len(s)
  BY DEF TypeOK
<1>2. r \in Seq(Backup) /\ Len(r) = Len(s)
  BY FilledTyped
<1>3. /\ DOMAIN r = DOMAIN s
      /\ \A i \in DOMAIN s : /\ r[i].n = s[i].n
                             /\ s[i].n = n => r[i].files = files
                             /\ s[i].n # n => r[i] = s[i]
  BY FilledFields
<1>4. CASE Sound(k, files)
  <2>1. Len(s) \in DOMAIN s
    BY <1>1
  <2>2. r[Len(s)].n # 0 /\ r[Len(s)].files = files /\ Len(s) \in DOMAIN r
    BY <1>3, <2>1
  <2>3. Len(r) <= Len(s) + 0
    BY <1>1, <1>2
  <2> HIDE DEF r, s
  <2> QED
    BY <1>4, <2>2, <2>3 DEF SafeIn, r
<1>5. CASE ~Sound(k, files) /\ k # "config" /\ b >= MaxBackups
  BY <1>5 DEF SafeIn
<1>6. CASE /\ ~Sound(k, files)
           /\ \E i \in DOMAIN s : /\ s[i].n # n /\ Sound(k, s[i].files)
                                  /\ k = "config" \/ Len(s) <= i + b
  <2>1. PICK i \in DOMAIN s : /\ s[i].n # n /\ Sound(k, s[i].files)
                              /\ k = "config" \/ Len(s) <= i + b
    BY <1>6
  <2>2. i \in DOMAIN r /\ r[i] = s[i] /\ s[i].n # 0
    BY <1>3, <2>1
  <2> HIDE DEF r, s
  <2> QED
    BY <1>2, <1>6, <2>1, <2>2 DEF SafeIn, r
<1> QED
  BY <1>4, <1>5, <1>6 DEF SafeIn

(* No backup is touched: nor is a directory of which there is none.        *)
LEMMA CarriesOn ==
    ASSUME SomewhereSound, NEW t \in Threads, KeptBy(t), UNCHANGED <<backups, taken, bad>>,
           Copying(t)' => /\ Copying(t) /\ K(t)' = K(t)
                          /\ th'[t].bak = th[t].bak /\ th'[t].snap = th[t].snap,
           Backed(t)' => Backed(t) /\ K(t)' = K(t),
           \A k \in Kinds :
              \/ tree'[k] = tree[k]
              \/ /\ tree'[k].there \/ tree'[k] = Gone
                 /\ Sound(k, tree'[k].files) \/ (Backed(t) /\ K(t) = k)
    PROVE  SomewhereSound' /\ KeptBy(t)'
<1>1. KeptBy(t)'
  BY DEF KeptBy
<1>2. SomewhereSound'
  BY DEF SomewhereSound, KeptBy
<1> QED
  BY <1>1, <1>2

LEMMA PlainlySound ==
    /\ Sound("config", Empty) /\ \A j \in Jobs : Sound("config", Written(j)) /\ Sound("zigbee", Written(j))
    /\ \A k \in Directories : ~Sound(k, Empty)
<1>1. \A f \in 0 .. MaxJobs : Empty[f] = "absent"
  BY DEF Empty
<1>2. 0 \in 0 .. MaxJobs
  BY AgentAssumption
<1>3. \A j \in Jobs, f \in 0 .. MaxJobs : Written(j)[f] # "torn"
  BY DEF Written, Empty, Jobs
<1> QED
  BY <1>1, <1>2, <1>3 DEF Sound, Directories

LEMMA StepKept ==
    ASSUME OneThread, Ruled, Numbered, SomewhereSound, NEW t \in Threads, RememberedOf(t),
           KeptBy(t), Step(t)
    PROVE  SomewhereSound' /\ KeptBy(t)'
<1>0. TypeOK /\ th[t].bak \in Nat /\ th[t].snap \in Files
  BY ThreadFields DEF Ruled
<1>g. \A pc \in Pc : Goto(t, pc) => th'[t].pc = pc /\ th'[t].bak = th[t].bak
  BY <1>0, GoesOn DEF Went, Keeps
<1>r. Raise(t) \/ Recovery(t) => th'[t].pc = "report"
  BY <1>0, GoesOn DEF Went
<1>1. CASE UnlinkTmp(t)
  <2>1. ~Copying(t)' /\ (Backed(t)' => Backed(t) /\ K(t)' = K(t))
    BY <1>0, <1>g, <1>r, <1>1, UnlinkTmpTyped, JobOf
       DEF UnlinkTmp, Copying, Backed, Repair, Pc, At, Went, routing, shared, K, Kind, RollbackFails, RememberedOf, Keeps
  <2>2. UNCHANGED <<tree, backups, taken, bad>>
    BY <1>1 DEF UnlinkTmp, disk, shared
  <2> QED
    BY <2>1, <2>2, CarriesOn
<1>2. CASE OpenTmp(t)
  <2>1. ~Copying(t)' /\ (Backed(t)' => Backed(t) /\ K(t)' = K(t))
    BY <1>0, <1>g, <1>r, <1>2, OpenTmpTyped, JobOf
       DEF OpenTmp, Copying, Backed, Repair, Pc, At, Went, routing, shared, K, Kind, RollbackFails, RememberedOf, Keeps
  <2>2. UNCHANGED <<tree, backups, taken, bad>>
    BY <1>2 DEF OpenTmp, disk, shared
  <2> QED
    BY <2>1, <2>2, CarriesOn
<1>3. CASE StreamDone(t)
  <2>1. ~Copying(t)' /\ (Backed(t)' => Backed(t) /\ K(t)' = K(t))
    BY <1>0, <1>g, <1>r, <1>3, StreamDoneTyped, JobOf
       DEF StreamDone, Copying, Backed, Repair, Pc, At, Went, routing, shared, K, Kind, RollbackFails, RememberedOf, Keeps
  <2>2. UNCHANGED <<tree, backups, taken, bad>>
    BY <1>3 DEF StreamDone, disk, shared
  <2> QED
    BY <2>1, <2>2, CarriesOn
<1>4. CASE StreamFails(t)
  <2>1. ~Copying(t)' /\ (Backed(t)' => Backed(t) /\ K(t)' = K(t))
    BY <1>0, <1>g, <1>r, <1>4, StreamFailsTyped, JobOf, Retries
       DEF StreamFails, Copying, Backed, Repair, Pc, At, Went, routing, shared, K, Kind, RollbackFails, RememberedOf, Keeps
  <2>2. UNCHANGED <<tree, backups, taken, bad>>
    BY <1>4 DEF StreamFails, disk, shared
  <2> QED
    BY <2>1, <2>2, CarriesOn
<1>5. CASE Verify(t)
  <2>1. ~Copying(t)' /\ (Backed(t)' => Backed(t) /\ K(t)' = K(t))
    BY <1>0, <1>g, <1>r, <1>5, VerifyTyped, JobOf
       DEF Verify, Copying, Backed, Repair, Pc, At, Went, routing, shared, K, Kind, RollbackFails, RememberedOf, Keeps
  <2>2. UNCHANGED <<tree, backups, taken, bad>>
    BY <1>5 DEF Verify, disk, shared
  <2> QED
    BY <2>1, <2>2, CarriesOn
<1>6. CASE MoveTmp(t)
  <2>1. ~Copying(t)' /\ (Backed(t)' => Backed(t) /\ K(t)' = K(t))
    BY <1>0, <1>g, <1>r, <1>6, MoveTmpTyped, JobOf, HandlerPc
       DEF MoveTmp, Copying, Backed, Repair, Pc, At, Went, routing, shared, K, Kind, RollbackFails, RememberedOf, Keeps
  <2>2. UNCHANGED <<tree, backups, taken, bad>>
    BY <1>6 DEF MoveTmp, disk, shared
  <2> QED
    BY <2>1, <2>2, CarriesOn
<1>7. CASE BackupStart(t)
  <2> DEFINE k == K(t)
             n == taken[k] + 1
             s == backups[k]
             e == [n |-> n, files |-> Half(tree[k].files)]
  <2>1. /\ k \in Directories /\ k \in Kinds /\ taken[k] \in Nat /\ bad[k] \in Nat /\ s \in Seq(Backup)
        /\ tree' = tree /\ K(t)' = k /\ tree[k].files \in Files
        /\ taken \in [Kinds -> Nat] /\ bad \in [Kinds -> Nat] /\ backups \in [Kinds -> Seq(Backup)]
    BY <1>0, <1>7, BackupStartTyped, JobOf DEF BackupStart, At, Went, K, Kind, routing, Fits, TypeOK
  <2>2. CASE /\ ~tree[k].there /\ UNCHANGED <<backups, taken, bad>>
             /\ Went(t, {IF k = "driver" THEN "clear" ELSE "stop"})
    <3>1. SafeIn(k, s, bad[k], 0)
      BY <2>1, <2>2, PlainlySound DEF SomewhereSound, Gone
    <3>2. SafeIn(k, backups'[k], bad'[k], 0)
      BY <2>1, <2>2, <3>1
    <3>3. ~Copying(t)'
      BY <2>2 DEF Went, Copying
    <3>4. KeptBy(t)'
      BY <2>1, <3>2, <3>3 DEF KeptBy
    <3>5. SomewhereSound'
      BY <2>1, <2>2 DEF SomewhereSound
    <3> QED
      BY <3>4, <3>5
  <2>3. CASE /\ tree[k].there
             /\ taken' = [taken EXCEPT ![k] = n]
             /\ bad' = [bad EXCEPT ![k] = bad[k] + 1]
             /\ backups' = [backups EXCEPT ![k] = Append(s, e)]
             /\ Went(t, {"copytree"}) /\ th'[t].bak = n /\ th'[t].snap = tree[k].files
    <3>0. n \in Nat /\ bad[k] + 1 \in Nat
      BY <2>1
    <3>1. e \in Backup /\ e.n = n
      BY <2>1, <3>0, FilesTyped DEF Backup
    <3>2. \A i \in DOMAIN s : s[i].n < n
      BY <2>1 DEF Numbered
    <3>3. backups'[k] = Append(s, e) /\ bad'[k] = bad[k] + 1 /\ taken'[k] = n
      BY <2>1, <2>3
    <3>4. \A l \in Kinds \ {k} : backups'[l] = backups[l] /\ bad'[l] = bad[l]
      BY <2>1, <2>3
    <3>5. Append(s, e) # <<>> /\ Append(s, e)[Len(Append(s, e))].n = n
      <4> HIDE DEF s, e, n
      <4> QED
        BY <2>1, <3>1, AppendLast
    <3>6. SafeIn(k, s, bad[k], 0) =>
              SafeIn(k, backups'[k], bad'[k], 0) /\ SafeIn(k, backups'[k], bad'[k], n)
      <4> HIDE DEF s, e, n
      <4>1. SafeIn(k, s, bad[k], 0) =>
                SafeIn(k, Append(s, e), bad[k] + 1, 0) /\ SafeIn(k, Append(s, e), bad[k] + 1, n)
        BY <2>1, <3>0, <3>1, <3>2, SafeAppend
      <4> QED
        BY <2>1, <3>3, <4>1
    <3>7. \A l \in Kinds : SafeIn(l, backups[l], bad[l], 0) => SafeIn(l, backups'[l], bad'[l], 0)
      BY <3>4, <3>6
    <3>8. SomewhereSound'
      BY <2>1, <3>7 DEF SomewhereSound
    <3>9. Sound(k, th'[t].snap) \/ SafeIn(k, backups'[k], bad'[k], n)
      BY <2>1, <2>3, <3>6 DEF SomewhereSound
    <3>10. th'[t].pc = "copytree" /\ ~Backed(t)'
      BY <2>3 DEF Went, Backed, Repair
    <3>11. KeptBy(t)'
      <4> HIDE DEF s, e, n
      <4> QED
        BY <2>1, <2>3, <3>3, <3>5, <3>9, <3>10 DEF KeptBy
    <3> QED
      BY <3>8, <3>11
  <2>4. CASE Raise(t) /\ UNCHANGED <<backups, taken, bad>>
    BY <1>r, <2>1, <2>4, CarriesOn DEF Copying, Backed, Repair
  <2> QED
    BY <1>7, <2>2, <2>3, <2>4, BackupBegun
<1>8. CASE BackupDone(t)
  <2> DEFINE k == K(t)
             n == th[t].bak
             files == th[t].snap
             b == IF Sound(k, files) THEN 0 ELSE bad[k]
  <2>1. /\ k \in Directories /\ k \in Kinds /\ bad[k] \in Nat /\ tree' = tree /\ K(t)' = k
        /\ th'[t].pc \in {"clear", "stop"}
        /\ bad \in [Kinds -> Nat] /\ backups \in [Kinds -> Seq(Backup)]
    BY <1>0, <1>8, BackupDoneTyped, JobOf DEF BackupDone, At, Went, K, Kind, routing, Fits, TypeOK
  <2>2. backups' = [backups EXCEPT ![k] = Newest(Filled(k, n, files), MaxBackups)]
        /\ bad' = [bad EXCEPT ![k] = b]
    BY <1>8, <2>1 DEF BackupDone
  <2>3. backups'[k] = Newest(Filled(k, n, files), MaxBackups) /\ bad'[k] = b
    BY <2>1, <2>2
  <2>4. \A l \in Kinds \ {k} : backups'[l] = backups[l] /\ bad'[l] = bad[l]
    BY <2>1, <2>2
  <2>5. /\ backups[k] # <<>> /\ backups[k][Len(backups[k])].n = n
        /\ Sound(k, files) \/ SafeIn(k, backups[k], bad[k], n)
    BY <1>8 DEF KeptBy, Copying, BackupDone, At
  <2>6. \A i \in DOMAIN backups[k] : backups[k][i].n # 0
    BY <2>1 DEF Numbered
  <2>7. SafeIn(k, backups'[k], b, 0)
    <3>0. k # "config" /\ b \in Nat
      BY <2>1 DEF Directories
    <3>1. PICK l \in Kinds, m \in Nat, g \in Files, c \in Nat, d \in Nat :
              l = k /\ m = n /\ g = files /\ c = bad[k] /\ d = b
      BY <1>0, <2>1, <3>0
    <3> HIDE DEF k, n, files, b
    <3>2. d = IF Sound(l, g) THEN 0 ELSE c
      BY <3>1 DEF b
    <3>3. SafeIn(l, Filled(l, m, g), d, 0)
      BY <1>0, <2>5, <2>6, <3>1, <3>2, SafeFilled
    <3>4. Filled(l, m, g) \in Seq(Backup)
      BY <1>0, FilledTyped
    <3>5. SafeIn(l, Newest(Filled(l, m, g), MaxBackups), d, 0)
      BY <3>0, <3>1, <3>3, <3>4, SafePrune
    <3> QED
      BY <2>3, <3>1, <3>5
  <2>8. SafeIn(k, backups'[k], bad'[k], 0)
    BY <2>3, <2>7
  <2>9. \A l \in Kinds : SafeIn(l, backups[l], bad[l], 0) => SafeIn(l, backups'[l], bad'[l], 0)
    BY <2>4, <2>8
  <2>10. KeptBy(t)'
    <3>1. ~Copying(t)'
      BY <2>1 DEF Copying
    <3> QED
      BY <2>1, <2>8, <3>1 DEF KeptBy
  <2>11. SomewhereSound'
    BY <2>1, <2>9 DEF SomewhereSound
  <2> QED
    BY <2>10, <2>11
<1>9. CASE BackupFails(t)
  <2>1. ~Copying(t)' /\ (Backed(t)' => Backed(t) /\ K(t)' = K(t))
    BY <1>0, <1>g, <1>r, <1>9, BackupFailsTyped, JobOf
       DEF BackupFails, Copying, Backed, Repair, Pc, At, Went, routing, shared, K, Kind, RollbackFails, RememberedOf, Keeps
  <2>2. UNCHANGED <<tree, backups, taken, bad>>
    BY <1>9 DEF BackupFails, disk, shared
  <2> QED
    BY <2>1, <2>2, CarriesOn
<1>10. CASE StopService(t)
  <2>1. ~Copying(t)' /\ (Backed(t)' => Backed(t) /\ K(t)' = K(t))
    BY <1>0, <1>g, <1>r, <1>10, StopServiceTyped, JobOf
       DEF StopService, Copying, Backed, Repair, Pc, At, Went, routing, shared, K, Kind, RollbackFails, RememberedOf, Keeps
  <2>2. UNCHANGED <<tree, backups, taken, bad>>
    BY <1>10 DEF StopService, disk, shared
  <2> QED
    BY <2>1, <2>2, CarriesOn
<1>11. CASE ClearDriver(t)
  <2>1. ~Copying(t)' /\ (Backed(t)' => Backed(t) /\ K(t)' = K(t))
    BY <1>0, <1>g, <1>r, <1>11, ClearDriverTyped, JobOf
       DEF ClearDriver, Copying, Backed, Repair, Pc, At, Went, routing, shared, K, Kind, RollbackFails, RememberedOf, Keeps
  <2>2. /\ UNCHANGED <<backups, taken, bad>> /\ Backed(t)
        /\ \A k \in Kinds : \/ tree'[k] = tree[k]
                            \/ (tree'[k].there \/ tree'[k] = Gone) /\ K(t) = k
    BY <1>0, <1>11, JobOf, FilesTyped, Puts DEF ClearDriver, Backed, Repair, At, TypeOK, SetFiles, RememberedOf, Fits
  <2> QED
    BY <2>1, <2>2, CarriesOn
<1>12. CASE InstallStart(t)
  <2>1. ~Copying(t)' /\ (Backed(t)' => Backed(t) /\ K(t)' = K(t))
    BY <1>0, <1>g, <1>r, <1>12, InstallStartTyped, JobOf, Reads
       DEF InstallStart, Copying, Backed, Repair, Pc, At, Went, routing, shared, K, Kind, RollbackFails, RememberedOf, Keeps
  <2>2. /\ UNCHANGED <<backups, taken, bad>> /\ Backed(t)
        /\ \A k \in Kinds : \/ tree'[k] = tree[k]
                            \/ (tree'[k].there \/ tree'[k] = Gone) /\ K(t) = k
    BY <1>0, <1>12, JobOf, FilesTyped, Puts DEF InstallStart, Backed, Repair, At, TypeOK, SetFiles, RememberedOf, Fits
  <2> QED
    BY <2>1, <2>2, CarriesOn
<1>13. CASE InstallDone(t)
  <2>1. ~Copying(t)' /\ (Backed(t)' => Backed(t) /\ K(t)' = K(t))
    BY <1>0, <1>g, <1>r, <1>13, InstallDoneTyped, JobOf
       DEF InstallDone, Copying, Backed, Repair, Pc, At, Went, routing, shared, K, Kind, RollbackFails, RememberedOf, Keeps
  <2>2. /\ UNCHANGED <<backups, taken, bad>> /\ Backed(t)
        /\ \A k \in Kinds : \/ tree'[k] = tree[k]
                            \/ (tree'[k].there \/ tree'[k] = Gone) /\ K(t) = k
    BY <1>0, <1>13, JobOf, FilesTyped, Puts DEF InstallDone, Backed, Repair, At, TypeOK, SetFiles, RememberedOf, Fits
  <2> QED
    BY <2>1, <2>2, CarriesOn
<1>14. CASE StartService(t)
  <2>1. ~Copying(t)' /\ (Backed(t)' => Backed(t) /\ K(t)' = K(t))
    BY <1>0, <1>g, <1>r, <1>14, StartServiceTyped, JobOf
       DEF StartService, Copying, Backed, Repair, Pc, At, Went, routing, shared, K, Kind, RollbackFails, RememberedOf, Keeps
  <2>2. UNCHANGED <<tree, backups, taken, bad>>
    BY <1>14 DEF StartService, disk, shared
  <2> QED
    BY <2>1, <2>2, CarriesOn
<1>15. CASE HealthCheck(t)
  <2>1. ~Copying(t)' /\ (Backed(t)' => Backed(t) /\ K(t)' = K(t))
    BY <1>0, <1>g, <1>r, <1>15, HealthCheckTyped, JobOf
       DEF HealthCheck, Copying, Backed, Repair, Pc, At, Went, routing, shared, K, Kind, RollbackFails, RememberedOf, Keeps
  <2>2. UNCHANGED <<tree, backups, taken, bad>>
    BY <1>15 DEF HealthCheck, disk, shared
  <2> QED
    BY <2>1, <2>2, CarriesOn
<1>16. CASE Rollback(t)
  <2>1. ~Copying(t)' /\ (Backed(t)' => Backed(t) /\ K(t)' = K(t))
    BY <1>0, <1>g, <1>r, <1>16, RollbackTyped, JobOf
       DEF Rollback, Copying, Backed, Repair, Pc, At, Went, routing, shared, K, Kind, RollbackFails, RememberedOf, Keeps
  <2>2. /\ UNCHANGED <<backups, taken, bad>> /\ Backed(t)
        /\ \A k \in Kinds : \/ tree'[k] = tree[k]
                            \/ (tree'[k].there \/ tree'[k] = Gone) /\ K(t) = k
    BY <1>0, <1>16, JobOf, FilesTyped DEF Rollback, Backed, Repair, At, TypeOK, SetFiles, RememberedOf, Fits
  <2> QED
    BY <2>1, <2>2, CarriesOn
<1>17. CASE RestoreStart(t)
  <2>1. ~Copying(t)' /\ (Backed(t)' => Backed(t) /\ K(t)' = K(t))
    BY <1>0, <1>g, <1>r, <1>17, RestoreStartTyped, JobOf
       DEF RestoreStart, Copying, Backed, Repair, Pc, At, Went, routing, shared, K, Kind, RollbackFails, RememberedOf, Keeps
  <2>2. /\ UNCHANGED <<backups, taken, bad>> /\ Backed(t)
        /\ \A k \in Kinds : \/ tree'[k] = tree[k]
                            \/ (tree'[k].there \/ tree'[k] = Gone) /\ K(t) = k
    BY <1>0, <1>17, JobOf, FilesTyped, Puts, FilesOfBackup DEF RestoreStart, Backed, Repair, At, TypeOK, SetFiles, RememberedOf, Fits
  <2> QED
    BY <2>1, <2>2, CarriesOn
<1>18. CASE RestoreDone(t)
  <2>1. ~Copying(t)' /\ (Backed(t)' => Backed(t) /\ K(t)' = K(t))
    BY <1>0, <1>g, <1>r, <1>18, RestoreDoneTyped, JobOf
       DEF RestoreDone, Copying, Backed, Repair, Pc, At, Went, routing, shared, K, Kind, RollbackFails, RememberedOf, Keeps
  <2>2. /\ UNCHANGED <<backups, taken, bad>> /\ Backed(t)
        /\ \A k \in Kinds : \/ tree'[k] = tree[k]
                            \/ (tree'[k].there \/ tree'[k] = Gone) /\ K(t) = k
    BY <1>0, <1>18, JobOf, FilesTyped, Puts, FilesOfBackup DEF RestoreDone, Backed, Repair, At, TypeOK, SetFiles, RememberedOf, Fits
  <2> QED
    BY <2>1, <2>2, CarriesOn
<1>19. CASE RestartService(t)
  <2>1. ~Copying(t)' /\ (Backed(t)' => Backed(t) /\ K(t)' = K(t))
    BY <1>0, <1>g, <1>r, <1>19, RestartServiceTyped, JobOf, Rolls
       DEF RestartService, Copying, Backed, Repair, Pc, At, Went, routing, shared, K, Kind, RollbackFails, RememberedOf, Keeps
  <2>2. UNCHANGED <<tree, backups, taken, bad>>
    BY <1>19 DEF RestartService, disk, shared
  <2> QED
    BY <2>1, <2>2, CarriesOn
<1>20. CASE BackupFileStart(t)
  <2> DEFINE k == "config"
             n == taken[k] + 1
             s == backups[k]
             e == [n |-> n, files |-> Half(tree[k].files)]
  <2>1. /\ k \in Kinds /\ taken[k] \in Nat /\ bad[k] \in Nat /\ s \in Seq(Backup) /\ th[t].bak = 0
        /\ tree' = tree /\ bad' = bad /\ K(t) = k /\ K(t)' = k /\ tree[k].files \in Files
        /\ taken \in [Kinds -> Nat] /\ backups \in [Kinds -> Seq(Backup)]
    BY <1>0, <1>20, BackupFileStartTyped, JobOf, FileBegun
       DEF BackupFileStart, At, Went, K, Kind, routing, TypeOK, RememberedOf
  <2>2. CASE UNCHANGED <<backups, taken>> /\ Keeps(t) /\ Went(t, {"apply"})
    BY <2>1, <2>2, CarriesOn DEF Copying, Backed, Repair, Went, Keeps
  <2>3. CASE /\ taken' = [taken EXCEPT ![k] = n]
             /\ backups' = [backups EXCEPT ![k] = Append(s, e)]
             /\ Went(t, {"copyFile"}) /\ th'[t].bak = n /\ th'[t].snap = tree[k].files
    <3>0. n \in Nat
      BY <2>1
    <3>1. e \in Backup /\ e.n = n
      BY <2>1, <3>0, FilesTyped DEF Backup
    <3>2. \A i \in DOMAIN s : s[i].n < n
      BY <2>1 DEF Numbered
    <3>3. backups'[k] = Append(s, e) /\ taken'[k] = n
      BY <2>1, <2>3
    <3>4. \A l \in Kinds \ {k} : backups'[l] = backups[l]
      BY <2>1, <2>3
    <3>5. Append(s, e) # <<>> /\ Append(s, e)[Len(Append(s, e))].n = n
      <4> HIDE DEF s, e, n
      <4> QED
        BY <2>1, <3>1, AppendLast
    <3>6. SafeIn(k, s, bad[k], 0) =>
              SafeIn(k, backups'[k], bad'[k], 0) /\ SafeIn(k, backups'[k], bad'[k], n)
      <4> HIDE DEF s, e, n
      <4>1. SafeIn(k, s, bad[k], 0) =>
                SafeIn(k, Append(s, e), bad[k], 0) /\ SafeIn(k, Append(s, e), bad[k], n)
        BY <2>1, <3>0, <3>1, <3>2, SafeAppend
      <4> QED
        BY <2>1, <3>3, <4>1
    <3>7. \A l \in Kinds : SafeIn(l, backups[l], bad[l], 0) => SafeIn(l, backups'[l], bad'[l], 0)
      BY <2>1, <3>4, <3>6
    <3>8. SomewhereSound'
      BY <2>1, <3>7 DEF SomewhereSound
    <3>9. Sound(k, th'[t].snap) \/ SafeIn(k, backups'[k], bad'[k], n)
      BY <2>1, <2>3, <3>6 DEF SomewhereSound
    <3>10. th'[t].pc = "copyFile" /\ ~Backed(t)'
      BY <2>3 DEF Went, Backed, Repair
    <3>11. KeptBy(t)'
      <4> HIDE DEF s, e, n
      <4> QED
        BY <2>1, <2>3, <3>3, <3>5, <3>9, <3>10 DEF KeptBy
    <3> QED
      BY <3>8, <3>11
  <2>4. CASE Raise(t) /\ UNCHANGED <<backups, taken>>
    BY <1>r, <2>1, <2>4, CarriesOn DEF Copying, Backed, Repair
  <2> QED
    BY <1>20, <2>2, <2>3, <2>4, FileBegun
<1>21. CASE BackupFileDone(t)
  <2> DEFINE k == "config"
             n == th[t].bak
             files == th[t].snap
  <2>1. /\ k \in Kinds /\ bad[k] \in Nat /\ tree' = tree /\ K(t) = k /\ K(t)' = k
        /\ taken' = taken /\ bad' = bad /\ backups \in [Kinds -> Seq(Backup)]
    BY <1>0, <1>21, BackupFileDoneTyped, JobOf
       DEF BackupFileDone, At, Went, K, Kind, routing, Fits, TypeOK, Kinds
  <2>2. CASE backups' = [backups EXCEPT ![k] = Filled(k, n, files)] /\ th'[t].pc = "apply"
    <3>3. backups'[k] = Filled(k, n, files)
      BY <2>1, <2>2
    <3>4. \A l \in Kinds \ {k} : backups'[l] = backups[l]
      BY <2>1, <2>2
    <3>5. /\ backups[k] # <<>> /\ backups[k][Len(backups[k])].n = n
          /\ Sound(k, files) \/ SafeIn(k, backups[k], bad[k], n)
      BY <1>21, <2>1 DEF KeptBy, Copying, BackupFileDone, At
    <3>6. \A i \in DOMAIN backups[k] : backups[k][i].n # 0
      BY <2>1 DEF Numbered
    <3>7. SafeIn(k, backups'[k], IF Sound(k, files) THEN 0 ELSE bad[k], 0)
      <4>1. PICK m \in Nat, g \in Files, c \in Nat : m = n /\ g = files /\ c = bad[k]
        BY <1>0, <2>1
      <4> HIDE DEF n, files
      <4>2. SafeIn("config", Filled("config", m, g), IF Sound("config", g) THEN 0 ELSE c, 0)
        BY <1>0, <2>1, <3>5, <3>6, <4>1, SafeFilled
      <4> QED
        BY <3>3, <4>1, <4>2
    <3>8. SafeIn(k, backups'[k], bad'[k], 0)
      BY <2>1, <3>7 DEF SafeIn
    <3>9. \A l \in Kinds : SafeIn(l, backups[l], bad[l], 0) => SafeIn(l, backups'[l], bad'[l], 0)
      BY <2>1, <3>4, <3>8
    <3>10. KeptBy(t)'
      BY <2>1, <2>2, <3>8 DEF KeptBy, Copying
    <3>11. SomewhereSound'
      BY <2>1, <3>9 DEF SomewhereSound
    <3> QED
      BY <3>10, <3>11
  <2>3. CASE UNCHANGED backups /\ Raise(t)
    BY <1>r, <2>1, <2>3, CarriesOn DEF Copying, Backed, Repair
  <2>4. ASSUME ~(UNCHANGED backups /\ Raise(t))
        PROVE  th'[t].pc = "apply" /\ backups' = [backups EXCEPT ![k] = Filled(k, n, files)]
    BY <1>g, <1>21, <2>4, BackupFileDoneTyped DEF BackupFileDone, Pc
  <2> QED
    BY <2>2, <2>3, <2>4
<1>22. CASE ApplyConfig(t)
  <2>1. ~Copying(t)' /\ (Backed(t)' => Backed(t) /\ K(t)' = K(t))
    BY <1>0, <1>g, <1>r, <1>22, ApplyConfigTyped, JobOf, ConfigApplied
       DEF ApplyConfig, Copying, Backed, Repair, Pc, At, Went, routing, shared, K, Kind, RollbackFails, RememberedOf, Keeps
  <2>2. /\ UNCHANGED <<backups, taken, bad>>
        /\ \A k \in Kinds : \/ tree'[k] = tree[k]
                            \/ /\ tree'[k].there
                               /\ Sound(k, tree'[k].files)
    <3>1. th[t].job \in Jobs
      BY <1>22, JobOf DEF ApplyConfig, At
    <3>2. CASE UNCHANGED tree
      BY <1>22, <3>2 DEF ApplyConfig
    <3>3. CASE SetFiles("config", Written(th[t].job))
      <4>1. Written(th[t].job) \in Files /\ "config" \in Kinds
        BY <3>1, FilesTyped DEF Kinds
      <4>2. /\ tree'["config"].there /\ tree'["config"].files = Written(th[t].job)
            /\ \A l \in Kinds \ {"config"} : tree'[l] = tree[l]
        BY <1>0, <3>3, <4>1, Puts
      <4> QED
        BY <1>22, <3>1, <4>2, PlainlySound DEF ApplyConfig
    <3> QED
      BY <1>22, <3>2, <3>3 DEF ApplyConfig
  <2> QED
    BY <2>1, <2>2, CarriesOn
<1>23. CASE RestoreFileStart(t)
  <2>1. ~Copying(t)' /\ (Backed(t)' => Backed(t) /\ K(t)' = K(t))
    BY <1>0, <1>g, <1>r, <1>23, RestoreFileStartTyped, JobOf
       DEF RestoreFileStart, Copying, Backed, Repair, Pc, At, Went, routing, shared, K, Kind, RollbackFails, RememberedOf, Keeps
  <2>2. /\ UNCHANGED <<backups, taken, bad>> /\ Backed(t)
        /\ \A k \in Kinds : \/ tree'[k] = tree[k]
                            \/ (tree'[k].there \/ tree'[k] = Gone) /\ K(t) = k
    BY <1>0, <1>23, JobOf, FilesTyped, Puts DEF RestoreFileStart, Backed, Repair, At, TypeOK, SetFiles, RememberedOf, Fits
  <2> QED
    BY <2>1, <2>2, CarriesOn
<1>24. CASE RestoreFileDone(t)
  <2>1. ~Copying(t)' /\ (Backed(t)' => Backed(t) /\ K(t)' = K(t))
    BY <1>0, <1>g, <1>r, <1>24, RestoreFileDoneTyped, JobOf, Rolls
       DEF RestoreFileDone, Copying, Backed, Repair, Pc, At, Went, routing, shared, K, Kind, RollbackFails, RememberedOf, Keeps
  <2>2. /\ UNCHANGED <<backups, taken, bad>> /\ Backed(t)
        /\ \A k \in Kinds : \/ tree'[k] = tree[k]
                            \/ (tree'[k].there \/ tree'[k] = Gone) /\ K(t) = k
    BY <1>0, <1>24, JobOf, FilesTyped, Puts DEF RestoreFileDone, Backed, Repair, At, TypeOK, SetFiles, RememberedOf, Fits
  <2> QED
    BY <2>1, <2>2, CarriesOn
<1>25. CASE StageZigbee(t)
  <2>1. ~Copying(t)' /\ (Backed(t)' => Backed(t) /\ K(t)' = K(t))
    BY <1>0, <1>g, <1>r, <1>25, StageZigbeeTyped, JobOf
       DEF StageZigbee, Copying, Backed, Repair, Pc, At, Went, routing, shared, K, Kind, RollbackFails, RememberedOf, Keeps
  <2>2. UNCHANGED <<tree, backups, taken, bad>>
    BY <1>25 DEF StageZigbee, disk, shared
  <2> QED
    BY <2>1, <2>2, CarriesOn
<1>26. CASE Listen(t)
  <2>1. ~Copying(t)' /\ (Backed(t)' => Backed(t) /\ K(t)' = K(t))
    BY <1>0, <1>g, <1>r, <1>26, ListenTyped, JobOf, Listens
       DEF Listen, Copying, Backed, Repair, Pc, At, Went, routing, shared, K, Kind, RollbackFails, RememberedOf, Keeps
  <2>2. UNCHANGED <<tree, backups, taken, bad>>
    BY <1>26 DEF Listen, disk, shared
  <2> QED
    BY <2>1, <2>2, CarriesOn
<1>27. CASE RequestZigbee(t)
  <2>1. ~Copying(t)' /\ (Backed(t)' => Backed(t) /\ K(t)' = K(t))
    BY <1>0, <1>g, <1>r, <1>27, RequestZigbeeTyped, JobOf
       DEF RequestZigbee, Copying, Backed, Repair, Pc, At, Went, routing, shared, K, Kind, RollbackFails, RememberedOf, Keeps
  <2>2. UNCHANGED <<tree, backups, taken, bad>>
    BY <1>27 DEF RequestZigbee, disk, shared
  <2> QED
    BY <2>1, <2>2, CarriesOn
<1>28. CASE Answered(t)
  <2>1. ~Copying(t)' /\ (Backed(t)' => Backed(t) /\ K(t)' = K(t))
    BY <1>0, <1>g, <1>r, <1>28, AnsweredTyped, JobOf
       DEF Answered, Copying, Backed, Repair, Pc, At, Went, routing, shared, K, Kind, RollbackFails, RememberedOf, Keeps
  <2>2. UNCHANGED <<tree, backups, taken, bad>>
    BY <1>28 DEF Answered, disk, shared
  <2> QED
    BY <2>1, <2>2, CarriesOn
<1>29. CASE ZigbeeTimeout(t)
  <2>1. ~Copying(t)' /\ (Backed(t)' => Backed(t) /\ K(t)' = K(t))
    BY <1>0, <1>g, <1>r, <1>29, ZigbeeTimeoutTyped, JobOf, Hears
       DEF ZigbeeTimeout, Copying, Backed, Repair, Pc, At, Went, routing, shared, K, Kind, RollbackFails, RememberedOf, Keeps
  <2>2. UNCHANGED <<tree, backups, taken, bad>>
    BY <1>29 DEF ZigbeeTimeout, disk, shared
  <2> QED
    BY <2>1, <2>2, CarriesOn
<1>30. CASE Unlisten(t)
  <2>1. ~Copying(t)' /\ (Backed(t)' => Backed(t) /\ K(t)' = K(t))
    BY <1>0, <1>g, <1>r, <1>30, UnlistenTyped, JobOf
       DEF Unlisten, Copying, Backed, Repair, Pc, At, Went, routing, shared, K, Kind, RollbackFails, RememberedOf, Keeps
  <2>2. UNCHANGED <<tree, backups, taken, bad>>
    BY <1>30 DEF Unlisten, disk, shared
  <2> QED
    BY <2>1, <2>2, CarriesOn
<1>31. CASE SaveVersions(t)
  <2>1. ~Copying(t)' /\ (Backed(t)' => Backed(t) /\ K(t)' = K(t))
    BY <1>0, <1>g, <1>r, <1>31, SaveVersionsTyped, JobOf
       DEF SaveVersions, Copying, Backed, Repair, Pc, At, Went, routing, shared, K, Kind, RollbackFails, RememberedOf, Keeps
  <2>2. UNCHANGED <<tree, backups, taken, bad>>
    BY <1>31 DEF SaveVersions, disk, shared
  <2> QED
    BY <2>1, <2>2, CarriesOn
<1>32. CASE Report(t)
  <2>1. ~Copying(t)' /\ (Backed(t)' => Backed(t) /\ K(t)' = K(t))
    BY <1>0, <1>g, <1>r, <1>32, ReportTyped, JobOf
       DEF Report, Copying, Backed, Repair, Pc, At, Went, routing, shared, K, Kind, RollbackFails, RememberedOf, Keeps
  <2>2. UNCHANGED <<tree, backups, taken, bad>>
    BY <1>32 DEF Report, disk, shared
  <2> QED
    BY <2>1, <2>2, CarriesOn
<1>33. CASE Cleanup(t)
  <2>1. ~Copying(t)' /\ (Backed(t)' => Backed(t) /\ K(t)' = K(t))
    BY <1>0, <1>g, <1>r, <1>33, CleanupTyped, JobOf
       DEF Cleanup, Copying, Backed, Repair, Pc, At, Went, routing, shared, K, Kind, RollbackFails, RememberedOf, Keeps
  <2>2. UNCHANGED <<tree, backups, taken, bad>>
    BY <1>33 DEF Cleanup, disk, shared
  <2> QED
    BY <2>1, <2>2, CarriesOn
<1>34. CASE NextJob(t)
  BY <1>34, NextJobTyped, IdleTyped, CarriesOn DEF NextJob, Copying, Backed, Repair, disk
<1> QED
  BY <1>1, <1>2, <1>3, <1>4, <1>5, <1>6, <1>7, <1>8, <1>9, <1>10, <1>11, <1>12, <1>13, <1>14, <1>15, <1>16, <1>17, <1>18, <1>19, <1>20, <1>21, <1>22, <1>23, <1>24, <1>25, <1>26, <1>27, <1>28, <1>29, <1>30, <1>31, <1>32, <1>33, <1>34 DEF Step

LEMMA NextKept ==
    ASSUME OneThread, Ruled, Numbered, SomewhereSound, NEW t \in Threads, RememberedOf(t),
           KeptBy(t), [Next]_vars
    PROVE  SomewhereSound' /\ KeptBy(t)'
<1>1. CASE UNCHANGED vars
  BY <1>1, CarriesOn DEF Copying, Backed, K, Kind, vars, shared, routing
<1>2. ASSUME NEW j \in Jobs, Create(j)
      PROVE  SomewhereSound' /\ KeptBy(t)'
  <2>1. UNCHANGED <<th, backups, taken, bad>>
    BY <1>2 DEF Create
  <2>2. Copying(t)' \/ Backed(t)' => K(t)' = K(t)
    BY <1>2, <2>1, CreateTyped DEF Copying, Backed, At, Repair
  <2>3. \A k \in Kinds : tree'[k] = tree[k] \/ (k = "config" /\ tree'[k] = Gone)
    BY <1>2, CreateTyped DEF Ruled, TypeOK
  <2>4. Sound("config", Gone.files)
    BY PlainlySound DEF Gone
  <2> QED
    BY <2>1, <2>2, <2>3, <2>4, CarriesOn DEF Copying, Backed
<1>3. ASSUME NEW j \in Jobs, Unheard(j)
      PROVE  SomewhereSound' /\ KeptBy(t)'
  BY <1>3, CarriesOn DEF Unheard, Copying, Backed, K, Kind, routing, disk
<1>4. ASSUME NEW j \in Jobs, AnswerZigbee(j)
      PROVE  SomewhereSound' /\ KeptBy(t)'
  <2>1. UNCHANGED <<kind, backups, taken, bad>>
    BY <1>4 DEF AnswerZigbee
  <2>2. /\ th'[t].pc = th[t].pc /\ th'[t].bak = th[t].bak /\ th'[t].snap = th[t].snap
        /\ K(t)' = K(t)
    BY <1>4, <2>1, AnswerTyped DEF K, Kind
  <2>3. \A k \in Kinds : \/ tree'[k] = tree[k]
                         \/ tree'[k].there /\ Sound(k, tree'[k].files)
    <3>1. tree' \in {tree, [tree EXCEPT !["zigbee"] = [there |-> TRUE, files |-> Written(j)]]}
      BY <1>4 DEF AnswerZigbee
    <3>2. tree \in [Kinds -> Tree]
      BY DEF Ruled, TypeOK
    <3> QED
      BY <3>1, <3>2, PlainlySound
  <2> QED
    BY <2>1, <2>2, <2>3, CarriesOn DEF Copying, Backed
<1>5. ASSUME NEW s \in Threads, Step(s)
      PROVE  SomewhereSound' /\ KeptBy(t)'
  <2>1. s = t
    BY DEF OneThread
  <2> QED
    BY <1>5, <2>1, StepKept
<1>6. ASSUME NEW s \in Threads, NEW j \in Jobs, Receive(s, j)
      PROVE  SomewhereSound' /\ KeptBy(t)'
  <2>1. th'[t].pc = "unlink" /\ UNCHANGED disk
    <3>1. s = t
      BY DEF OneThread
    <3> QED
      BY <1>6, <3>1, ReceiveTyped DEF Receive
  <2> QED
    BY <2>1, CarriesOn DEF Copying, Backed, Repair, disk
<1>7. ASSUME NEW s \in Threads, NEW j \in Jobs, Refuse(s, j)
      PROVE  SomewhereSound' /\ KeptBy(t)'
  <2>1. th' = th /\ th[t].pc = "idle" /\ UNCHANGED disk
    BY <1>7 DEF Refuse, OneThread, At
  <2> QED
    BY <2>1, CarriesOn DEF Copying, Backed, Repair, disk
<1>8. CASE Shutdown \/ Crash
  <2>1. th'[t].pc = "idle" /\ UNCHANGED disk
    <3>1. UNCHANGED disk
      BY <1>8 DEF Shutdown, Crash
    <3>2. th'[t] = Idle
      BY <1>8, ShutdownTyped, CrashTyped
    <3> QED
      BY <3>1, <3>2, IdleTyped
  <2> QED
    BY <2>1, CarriesOn DEF Copying, Backed, Repair, disk
<1> QED
  BY <1>1, <1>2, <1>3, <1>4, <1>5, <1>6, <1>7, <1>8 DEF Next, Lose, Ignore, Overhear

(* Whatever dies half-way, and however often, an agent that handles one    *)
(* message at a time has a sound copy of each directory: where it is       *)
(* installed, or in a backup that the prunings to come leave until         *)
(* MAX_BACKUPS backups in a row were of something broken; of the           *)
(* configuration always (backup_manager.create_backup, _prune_old_backups, *)
(* the handlers' rollbacks).                                               *)
THEOREM CopySurvives == OneThread => (Spec => []SoundCopySurvives)
<1> SUFFICES ASSUME OneThread
             PROVE  Spec => []SoundCopySurvives
  OBVIOUS
<1> DEFINE Inv == SomewhereSound /\ \A t \in Threads : KeptBy(t)
<1>1. Init => Inv
  <2> SUFFICES ASSUME Init
               PROVE  Inv
    OBVIOUS
  <2>1. \A t \in Threads : th[t] = Idle
    BY DEF Init
  <2>2. \A t \in Threads : KeptBy(t)
    BY <2>1, IdleTyped DEF KeptBy, Copying, Backed, Repair
  <2>3. \A k \in Kinds : Sound(k, First.files)
    <3>1. 0 \in 0 .. MaxJobs
      BY AgentAssumption
    <3>2. First.files[0] = "whole" /\ \A f \in 0 .. MaxJobs : First.files[f] # "torn"
      BY <3>1 DEF First, Empty
    <3>3. First.files # Empty
      BY <3>1, <3>2 DEF Empty
    <3> QED
      BY <3>2, <3>3 DEF Sound
  <2>4. SomewhereSound
    BY <2>3 DEF Init, SomewhereSound, First
  <2> QED
    BY <2>2, <2>4
<1>2. Ruled /\ Remembered /\ Inv /\ [Next]_vars => Inv'
  <2> SUFFICES ASSUME Ruled, Remembered, Inv, [Next]_vars
               PROVE  Inv'
    OBVIOUS
  <2>1. Numbered /\ \A t \in Threads : RememberedOf(t)
    BY DEF Remembered, RememberedOf
  <2>2. \A t \in Threads : SomewhereSound' /\ KeptBy(t)'
    BY <2>1, NextKept
  <2>3. PICK t \in Threads : TRUE
    BY DEF OneThread
  <2> QED
    BY <2>2, <2>3
<1>3. TypeOK /\ Inv => SoundCopySurvives
  <2> SUFFICES ASSUME TypeOK, Inv, NEW k \in Kinds, k = "config" \/ bad[k] < MaxBackups
               PROVE  \/ Sound(k, tree[k].files)
                      \/ \E i \in DOMAIN backups[k] : Sound(k, backups[k][i].files)
    BY DEF SoundCopySurvives
  <2>1. ~(k # "config" /\ bad[k] >= MaxBackups)
    BY AgentAssumption DEF TypeOK
  <2> QED
    BY <2>1 DEF SomewhereSound, SafeIn
<1> QED
  BY <1>1, <1>2, <1>3, RuledAlways, RememberedAlways, AgentTyped, PTL DEF Spec
=============================================================================
