-------------------------- MODULE OtaAgent_proofs --------------------------
(***************************************************************************)
(* Proofs about the OTA agent, for every number of threads, of jobs, of    *)
(* backups, of attempts, of messages and of crashes.                       *)
(***************************************************************************)
EXTENDS OtaAgent, TLAPS

----------------------------------------------------------------------------
(* A thread and its fields                                                 *)

Typed == TypeOK /\ JobsKnown

LEMMA IdleTyped == Idle \in Thread /\ Idle.pc = "idle" /\ Idle.out = "RESTORED"
  BY AgentAssumption DEF Idle, Thread, Pc, Files, Empty, Content, Results, Tree, Gone

LEMMA ThreadFields ==
    ASSUME TypeOK, NEW t \in Threads
    PROVE  /\ th[t] \in Thread
           /\ th[t].pc \in Pc /\ th[t].job \in 0 .. MaxJobs /\ th[t].tries \in 0 .. MaxTries
           /\ th[t].bak \in Nat /\ th[t].snap \in Files /\ th[t].src \in Content
           /\ th[t].out \in Results /\ th[t].rolled \in BOOLEAN /\ th[t].was \in Tree
           /\ th[t].orig \in Threads \cup {NoThread} /\ th[t].heard \in {"none", "ok", "error"}
<1>1. th[t] \in Thread
  BY DEF TypeOK
<1> QED
  BY <1>1 DEF Thread

LEMMA Moves ==
    ASSUME TypeOK, NEW t \in Threads, NEW r \in Thread, Become(t, r)
    PROVE  /\ th' \in [Threads -> Thread]
           /\ th'[t] = r
           /\ \A s \in Threads \ {t} : th'[s] = th[s]
  BY DEF TypeOK, Become

(* Goto changes the step and nothing else.                                 *)
Keeps(t) ==
    /\ th'[t].job = th[t].job /\ th'[t].tries = th[t].tries /\ th'[t].bak = th[t].bak
    /\ th'[t].snap = th[t].snap /\ th'[t].src = th[t].src /\ th'[t].out = th[t].out
    /\ th'[t].rolled = th[t].rolled /\ th'[t].was = th[t].was /\ th'[t].orig = th[t].orig
    /\ th'[t].heard = th[t].heard

LEMMA Goes ==
    ASSUME TypeOK, NEW t \in Threads, NEW pc \in Pc, Goto(t, pc)
    PROVE  /\ th' \in [Threads -> Thread] /\ Keeps(t) /\ th'[t].pc = pc
           /\ \A s \in Threads \ {t} : th'[s] = th[s]
  BY ThreadFields DEF TypeOK, Goto, Thread, Keeps

LEMMA Raises ==
    ASSUME TypeOK, NEW t \in Threads, NEW out \in Results,
           th' = [th EXCEPT ![t].pc = "report", ![t].out = out]
    PROVE  /\ th' \in [Threads -> Thread]
           /\ th'[t].pc = "report" /\ th'[t].out = out /\ th'[t].job = th[t].job
           /\ th'[t].rolled = th[t].rolled /\ th'[t].was = th[t].was
           /\ \A s \in Threads \ {t} : th'[s] = th[s]
<1> DEFINE r == [th[t] EXCEPT !.pc = "report", !.out = out]
           p == [th[t] EXCEPT !.pc = "report"]
<1>0. p \in Thread
  BY ThreadFields DEF Thread, Pc
<1>1. r \in Thread
  <2>1. r = [p EXCEPT !.out = out]
    OBVIOUS
  <2> HIDE DEF p, r
  <2> QED
    BY <1>0, <2>1 DEF Thread
<1>2. th' = [th EXCEPT ![t] = r]
  BY DEF TypeOK
<1>3. p.pc = "report" /\ p.job = th[t].job /\ p.rolled = th[t].rolled /\ p.was = th[t].was
  BY ThreadFields DEF Thread
<1>4. /\ r.pc = "report" /\ r.out = out /\ r.job = th[t].job
      /\ r.rolled = th[t].rolled /\ r.was = th[t].was
  <2>1. r = [p EXCEPT !.out = out]
    OBVIOUS
  <2> HIDE DEF p, r
  <2> QED
    BY <1>0, <1>3, <2>1 DEF Thread
<1> HIDE DEF r
<1> QED
  BY <1>1, <1>2, <1>4, Moves DEF Become
(* Thread t takes a step to one of pcs, for the job it has.                *)
Went(t, pcs) ==
    /\ th' \in [Threads -> Thread]
    /\ th'[t].job = th[t].job /\ th'[t].pc \in pcs
    /\ \A s \in Threads \ {t} : th'[s] = th[s]

LEMMA GoesOn ==
    ASSUME TypeOK, NEW t \in Threads
    PROVE  /\ \A pc \in Pc : Goto(t, pc) => Went(t, {pc}) /\ Keeps(t)
           /\ Raise(t) => Went(t, {"report"}) /\ th'[t].out = "RESTORED"
                             /\ th'[t].rolled = th[t].rolled /\ th'[t].was = th[t].was
           /\ Recovery(t) => Went(t, {"report"}) /\ th'[t].out = "NEEDS_RECOVERY"
                             /\ th'[t].rolled = th[t].rolled /\ th'[t].was = th[t].was
<1>1. ASSUME NEW pc \in Pc, Goto(t, pc)
      PROVE  Went(t, {pc}) /\ Keeps(t)
  BY <1>1, Goes DEF Went, Keeps
<1>2. ASSUME NEW out \in Results, th' = [th EXCEPT ![t].pc = "report", ![t].out = out]
      PROVE  /\ Went(t, {"report"}) /\ th'[t].out = out
             /\ th'[t].rolled = th[t].rolled /\ th'[t].was = th[t].was
  BY <1>2, Raises DEF Went
<1> QED
  BY <1>1, <1>2 DEF Raise, Recovery, Results

(* Steps that set more than the program counter.                           *)
LEMMA Retries ==
    ASSUME TypeOK, NEW t \in Threads, th[t].tries < MaxTries,
           th' = [th EXCEPT ![t].pc = "unlink", ![t].tries = @ + 1]
    PROVE  Went(t, {"unlink"}) /\ th'[t].rolled = th[t].rolled /\ th'[t].was = th[t].was
                               /\ th'[t].bak = th[t].bak /\ th'[t].out = th[t].out
<1> DEFINE p == [th[t] EXCEPT !.pc = "unlink"]
           r == [p EXCEPT !.tries = th[t].tries + 1]
<1>1. p \in Thread
  BY ThreadFields DEF Thread, Pc
<1>2. th[t].tries + 1 \in 0 .. MaxTries
  BY ThreadFields, AgentAssumption
<1>3. r \in Thread
  BY <1>1, <1>2 DEF Thread
<1>4. Become(t, r)
  BY DEF TypeOK, Become
<1>5. /\ p.pc = "unlink" /\ p.job = th[t].job /\ p.rolled = th[t].rolled /\ p.was = th[t].was
      /\ p.bak = th[t].bak /\ p.out = th[t].out
  BY ThreadFields DEF Thread
<1>6. /\ r.pc = "unlink" /\ r.job = th[t].job /\ r.rolled = th[t].rolled /\ r.was = th[t].was
      /\ r.bak = th[t].bak /\ r.out = th[t].out
  <2> HIDE DEF p
  <2> QED
    BY <1>1, <1>5 DEF Thread
<1> HIDE DEF r
<1> QED
  BY <1>3, <1>4, <1>6, Moves DEF Went

LEMMA Downloaded ==
    ASSUME TypeOK, NEW t \in Threads, NEW pc \in Pc,
           th' = [th EXCEPT ![t].pc = pc, ![t].tries = 0]
    PROVE  /\ Went(t, {pc}) /\ th'[t].rolled = th[t].rolled /\ th'[t].was = th[t].was
           /\ th'[t].bak = th[t].bak /\ th'[t].out = th[t].out
<1> DEFINE p == [th[t] EXCEPT !.pc = pc]
           r == [p EXCEPT !.tries = 0]
<1>1. p \in Thread
  BY ThreadFields DEF Thread
<1>2. r \in Thread
  <2>1. 0 \in 0 .. MaxTries
    BY AgentAssumption
  <2> HIDE DEF p
  <2> QED
    BY <1>1, <2>1 DEF Thread
<1>3. Become(t, r)
  BY DEF TypeOK, Become
<1>4. /\ p.pc = pc /\ p.job = th[t].job /\ p.rolled = th[t].rolled /\ p.was = th[t].was
      /\ p.bak = th[t].bak /\ p.out = th[t].out
  BY ThreadFields DEF Thread
<1>5. /\ r.pc = pc /\ r.job = th[t].job /\ r.rolled = th[t].rolled /\ r.was = th[t].was
      /\ r.bak = th[t].bak /\ r.out = th[t].out
  <2> HIDE DEF p
  <2> QED
    BY <1>1, <1>4 DEF Thread
<1> HIDE DEF r
<1> QED
  BY <1>2, <1>3, <1>5, Moves DEF Went

LEMMA Copies ==
    ASSUME TypeOK, NEW t \in Threads, NEW pc \in Pc, NEW n \in Nat, NEW files \in Files,
           Become(t, [th[t] EXCEPT !.pc = pc, !.bak = n, !.snap = files])
    PROVE  Went(t, {pc}) /\ th'[t].bak = n /\ th'[t].snap = files
                         /\ th'[t].rolled = th[t].rolled /\ th'[t].was = th[t].was
<1> DEFINE p == [th[t] EXCEPT !.pc = pc]
           q == [p EXCEPT !.bak = n]
           r == [q EXCEPT !.snap = files]
<1>1. p \in Thread
  BY ThreadFields DEF Thread
<1>2. q \in Thread
  BY <1>1 DEF Thread
<1>3. r \in Thread
  BY <1>2 DEF Thread
<1>4. Become(t, r)
  OBVIOUS
<1>5. p.pc = pc /\ p.job = th[t].job /\ p.rolled = th[t].rolled /\ p.was = th[t].was
  BY ThreadFields DEF Thread
<1> HIDE DEF p
<1>6. /\ q.pc = pc /\ q.job = th[t].job /\ q.rolled = th[t].rolled /\ q.was = th[t].was
      /\ q.bak = n
  BY <1>1, <1>5 DEF Thread
<1> HIDE DEF q
<1>7. /\ r.pc = pc /\ r.job = th[t].job /\ r.rolled = th[t].rolled /\ r.was = th[t].was
      /\ r.bak = n /\ r.snap = files
  BY <1>2, <1>6 DEF Thread
<1> HIDE DEF r
<1> QED
  BY <1>3, <1>4, <1>7, Moves DEF Went

LEMMA Rolls ==
    ASSUME TypeOK, NEW t \in Threads,
           th' = [th EXCEPT ![t].pc = "report", ![t].out = "RESTORED", ![t].rolled = TRUE]
    PROVE  Went(t, {"report"}) /\ th'[t].out = "RESTORED" /\ th'[t].rolled /\ th'[t].was = th[t].was
<1> DEFINE p == [th[t] EXCEPT !.pc = "report"]
           q == [p EXCEPT !.out = "RESTORED"]
           r == [q EXCEPT !.rolled = TRUE]
<1>1. p \in Thread
  BY ThreadFields DEF Thread, Pc
<1>2. q \in Thread
  BY <1>1 DEF Thread, Results
<1>3. r \in Thread
  BY <1>2 DEF Thread
<1>4. Become(t, r)
  BY DEF TypeOK, Become
<1> QED
  BY <1>3, <1>4, Moves, ThreadFields DEF Went, Thread

LEMMA Reads ==
    ASSUME TypeOK, NEW t \in Threads, NEW c \in Content,
           th' = [th EXCEPT ![t].pc = "copying", ![t].src = c]
    PROVE  Went(t, {"copying"}) /\ th'[t].src = c /\ th'[t].bak = th[t].bak
                /\ th'[t].rolled = th[t].rolled /\ th'[t].was = th[t].was
<1> DEFINE p == [th[t] EXCEPT !.pc = "copying"]
           r == [p EXCEPT !.src = c]
<1>1. p \in Thread
  BY ThreadFields DEF Thread, Pc
<1>2. r \in Thread
  BY <1>1 DEF Thread
<1>3. Become(t, r)
  BY DEF TypeOK, Become
<1> QED
  BY <1>2, <1>3, Moves, ThreadFields DEF Went, Thread

LEMMA Hears ==
    ASSUME TypeOK, NEW t \in Threads,
           Become(t, [th[t] EXCEPT !.pc = "unlisten", !.heard = "error"])
    PROVE  Went(t, {"unlisten"}) /\ th'[t].rolled = th[t].rolled
<1> DEFINE p == [th[t] EXCEPT !.pc = "unlisten"]
           r == [p EXCEPT !.heard = "error"]
<1>1. p \in Thread
  BY ThreadFields DEF Thread, Pc
<1>2. r \in Thread
  BY <1>1 DEF Thread
<1>3. Become(t, r)
  OBVIOUS
<1>4. p.pc = "unlisten" /\ p.job = th[t].job /\ p.rolled = th[t].rolled
  BY ThreadFields DEF Thread
<1> HIDE DEF p
<1>5. r.pc = "unlisten" /\ r.job = th[t].job /\ r.rolled = th[t].rolled
  BY <1>1, <1>4 DEF Thread
<1> HIDE DEF r
<1> QED
  BY <1>2, <1>3, <1>5, Moves DEF Went

LEMMA Listens ==
    ASSUME TypeOK, NEW t \in Threads,
           Become(t, [th[t] EXCEPT !.pc = "request", !.orig = listener])
    PROVE  Went(t, {"request"}) /\ th'[t].rolled = th[t].rolled
<1> DEFINE p == [th[t] EXCEPT !.pc = "request"]
           r == [p EXCEPT !.orig = listener]
<1>1. p \in Thread
  BY ThreadFields DEF Thread, Pc
<1>2. r \in Thread
  BY <1>1 DEF Thread, TypeOK
<1>3. Become(t, r)
  OBVIOUS
<1>4. p.pc = "request" /\ p.job = th[t].job /\ p.rolled = th[t].rolled
  BY ThreadFields DEF Thread
<1> HIDE DEF p
<1>5. r.pc = "request" /\ r.job = th[t].job /\ r.rolled = th[t].rolled
  BY <1>1, <1>4 DEF Thread
<1> HIDE DEF r
<1> QED
  BY <1>2, <1>3, <1>5, Moves DEF Went
----------------------------------------------------------------------------
(* Types, jobs and handlers                                                *)

Ruled == TypeOK /\ JobsKnown /\ RightHandler

LEMMA Goal ==
    ASSUME Ruled, NEW t \in Threads, ~At(t, "idle"), NEW pcs, Went(t, pcs),
           UNCHANGED <<kind, told>>,
           \A j \in Jobs : notices'[j] > 0 => notices[j] > 0,
           \A pc \in pcs : Fits(pc, K(t))
    PROVE  JobsKnown' /\ RightHandler'
<1>1. \A s \in Threads : th'[s].job = th[s].job /\ (~At(s, "idle")' => ~At(s, "idle"))
  BY DEF Went, At
<1>2. JobsKnown'
  BY <1>1 DEF Ruled, JobsKnown, Ended
<1>3. RightHandler'
  <2>1. \A s \in Threads \ {t} : Fits(th[s].pc, K(s))'
    BY DEF Ruled, RightHandler, Fits, K, Kind, Went
  <2>2. Fits(th[t].pc, K(t))'
    BY DEF Fits, K, Kind, Went
  <2> QED
    BY <2>1, <2>2 DEF RightHandler
<1> QED
  BY <1>2, <1>3

LEMMA JobOf ==
    ASSUME Ruled, NEW t \in Threads, ~At(t, "idle")
    PROVE  /\ th[t].job \in Jobs /\ K(t) \in Kinds
           /\ tree[K(t)] \in Tree /\ tree[K(t)].files \in Files
           /\ taken[K(t)] \in Nat /\ bad[K(t)] \in Nat /\ backups[K(t)] \in Seq(Backup)
           /\ tmp[th[t].job] \in Download /\ dest[th[t].job] \in Download
           /\ dest[th[t].job].content \in Content /\ Fits(th[t].pc, K(t))
  BY DEF Ruled, TypeOK, JobsKnown, RightHandler, K, Kind, Tree, Download

LEMMA FilesTyped ==
    /\ Empty \in Files /\ Gone \in Tree /\ First \in Tree /\ NoFile \in Download
    /\ \A j \in Jobs : Written(j) \in Files
    /\ \A f \in Files : Half(f) \in Files /\ \A g \in Files : Over(f, g) \in Files
    /\ \A f \in Files, j \in Jobs, c \in Content : [f EXCEPT ![j] = c] \in Files
<1>1. Empty \in Files /\ "absent" \in Content /\ "torn" \in Content /\ "whole" \in Content
  BY DEF Empty, Files, Content
<1>2. [Empty EXCEPT ![0] = "whole"] \in Files
  BY <1>1 DEF Files
<1>3. Gone \in Tree /\ First \in Tree
  BY <1>1, <1>2 DEF Gone, First, Tree
<1>4. NoFile \in Download
  BY <1>1 DEF NoFile, Download
<1>5. \A f \in Files, j \in Jobs, c \in Content : [f EXCEPT ![j] = c] \in Files
  BY DEF Files
<1>6. \A j \in Jobs : Written(j) \in Files
  BY <1>1, <1>5 DEF Written
<1>7. \A f \in Files : Half(f) \in Files
  BY <1>1 DEF Files, Half
<1>8. \A f, g \in Files : Over(f, g) \in Files
  BY DEF Files, Over
<1> QED
  BY <1>1, <1>3, <1>4, <1>5, <1>6, <1>7, <1>8

LEMMA Puts ==
    ASSUME TypeOK, NEW k \in Kinds, NEW files \in Files, SetFiles(k, files)
    PROVE  /\ tree' \in [Kinds -> Tree]
           /\ tree'[k].there /\ tree'[k].files = files
           /\ \A l \in Kinds \ {k} : tree'[l] = tree[l]
<1>1. [there |-> TRUE, files |-> files] \in Tree
  BY DEF Tree
<1> QED
  BY <1>1 DEF TypeOK, SetFiles
----------------------------------------------------------------------------
(* Thread steps: types.                                                    *)

LEMMA ClosedTyped ==
    ASSUME TypeOK, NEW t \in Threads, NEW c \in Content
    PROVE  Closed(tmp, t, c) \in [Jobs -> Download] /\ Closed(dest, t, c) \in [Jobs -> Download]
  BY DEF TypeOK, Closed, Download

LEMMA FilesOfBackup ==
    ASSUME Ruled, NEW t \in Threads, ~At(t, "idle"), HasBackup(K(t), th[t].bak)
    PROVE  /\ BackupFiles(K(t), th[t].bak) \in Files
           /\ \E i \in DOMAIN backups[K(t)] :
                 /\ backups[K(t)][i].n = th[t].bak
                 /\ BackupFiles(K(t), th[t].bak) = backups[K(t)][i].files
<1> DEFINE s == backups[K(t)]
           i == CHOOSE i \in DOMAIN s : s[i].n = th[t].bak
<1>1. i \in DOMAIN s /\ s[i].n = th[t].bak
  BY DEF HasBackup
<1>2. s \in Seq(Backup)
  BY JobOf
<1>3. s[i] \in Backup
  <2> HIDE DEF s, i
  <2> QED
    BY <1>1, <1>2
<1> QED
  BY <1>1, <1>3 DEF BackupFiles, Backup

LEMMA HalfBacked ==
    ASSUME TypeOK, NEW k \in Kinds
    PROVE  /\ tree[k].files \in Files /\ taken[k] + 1 \in Nat
           /\ Append(backups[k], [n |-> taken[k] + 1, files |-> Half(tree[k].files)]) \in Seq(Backup)
<1>1. tree[k].files \in Files /\ taken[k] \in Nat /\ backups[k] \in Seq(Backup)
  BY DEF TypeOK, Tree
<1>2. [n |-> taken[k] + 1, files |-> Half(tree[k].files)] \in Backup
  BY <1>1, FilesTyped DEF Backup
<1> QED
  BY <1>1, <1>2

LEMMA FilledTyped ==
    ASSUME TypeOK, NEW k \in Kinds, NEW n \in Nat, NEW files \in Files
    PROVE  /\ Filled(k, n, files) \in Seq(Backup)
           /\ Len(Filled(k, n, files)) = Len(backups[k])
           /\ \A i \in DOMAIN backups[k] :
                 Filled(k, n, files)[i] = IF backups[k][i].n = n THEN [n |-> n, files |-> files]
                                          ELSE backups[k][i]
<1>1. backups[k] \in Seq(Backup)
  BY DEF TypeOK
<1>2. [n |-> n, files |-> files] \in Backup
  BY DEF Backup
<1>3. DOMAIN backups[k] = 1 .. Len(backups[k]) /\ Len(backups[k]) \in Nat
  BY <1>1
<1>4. Filled(k, n, files) \in [1 .. Len(backups[k]) -> Backup]
  BY <1>1, <1>2, <1>3 DEF Filled
<1> QED
  BY <1>3, <1>4 DEF Filled

LEMMA NewestTyped ==
    ASSUME NEW s \in Seq(Backup), NEW n \in Nat \ {0}
    PROVE  LET d == IF Len(s) > n THEN Len(s) - n ELSE 0 IN
           /\ Newest(s, n) \in Seq(Backup)
           /\ d \in Nat /\ Len(Newest(s, n)) = Len(s) - d
           /\ \A i \in 1 .. Len(s) - d : Newest(s, n)[i] = s[i + d] /\ i + d \in 1 .. Len(s)
<1> DEFINE d == IF Len(s) > n THEN Len(s) - n ELSE 0
<1>1. d \in Nat /\ Len(s) \in Nat /\ d <= Len(s)
  OBVIOUS
<1>2. Newest(s, n) = SubSeq(s, d + 1, Len(s))
  BY <1>1 DEF Newest
<1> HIDE DEF d
<1>3. SubSeq(s, d + 1, Len(s)) \in Seq(Backup) /\ Len(SubSeq(s, d + 1, Len(s))) = Len(s) - d
  BY <1>1
<1>4. ASSUME NEW i \in 1 .. Len(s) - d
      PROVE  SubSeq(s, d + 1, Len(s))[i] = s[i + d] /\ i + d \in 1 .. Len(s)
  BY <1>1, <1>4
<1> QED
  BY <1>1, <1>2, <1>3, <1>4 DEF d

LEMMA HandlerPc == \A k : Handler(k) \in {"backup", "backupFile", "stage"}
  BY DEF Handler

LEMMA UnlinkTmpTyped ==
    ASSUME Ruled, NEW t \in Threads, UnlinkTmp(t)
    PROVE  TypeOK' /\ JobsKnown' /\ RightHandler' /\ Went(t, {"open"})
<1>1. ~At(t, "idle") /\ TypeOK
  BY DEF UnlinkTmp, At, Ruled
<1>2. Went(t, {"open"})
  BY <1>1, GoesOn, JobOf, ThreadFields DEF UnlinkTmp, Went, Pc
<1>3. TypeOK'
  BY <1>1, <1>2, JobOf, AgentAssumption, FilesTyped DEF TypeOK, UnlinkTmp, Went, disk, said, routing, shared
<1>4. \A pc \in {"open"} : Fits(pc, K(t))
  BY <1>1, JobOf DEF Fits, UnlinkTmp, At, Repair, Directories, Kinds
<1>5. UNCHANGED <<kind, told, notices>>
  BY DEF UnlinkTmp, disk, said, routing, shared
<1> QED
  BY <1>1, <1>2, <1>3, <1>4, <1>5, Goal

LEMMA OpenTmpTyped ==
    ASSUME Ruled, NEW t \in Threads, OpenTmp(t)
    PROVE  TypeOK' /\ JobsKnown' /\ RightHandler' /\ Went(t, {"stream"})
<1>1. ~At(t, "idle") /\ TypeOK
  BY DEF OpenTmp, At, Ruled
<1>2. Went(t, {"stream"})
  BY <1>1, GoesOn, JobOf, ThreadFields DEF OpenTmp, Went, Pc
<1>3. TypeOK'
  BY <1>1, <1>2, JobOf, AgentAssumption, FilesTyped DEF TypeOK, OpenTmp, Went, disk, said, routing, shared, Download, Content
<1>4. \A pc \in {"stream"} : Fits(pc, K(t))
  BY <1>1, JobOf DEF Fits, OpenTmp, At, Repair, Directories, Kinds
<1>5. UNCHANGED <<kind, told, notices>>
  BY DEF OpenTmp, disk, said, routing, shared
<1> QED
  BY <1>1, <1>2, <1>3, <1>4, <1>5, Goal

LEMMA StreamDoneTyped ==
    ASSUME Ruled, NEW t \in Threads, StreamDone(t)
    PROVE  TypeOK' /\ JobsKnown' /\ RightHandler' /\ Went(t, {"verify"})
<1>1. ~At(t, "idle") /\ TypeOK
  BY DEF StreamDone, At, Ruled
<1>2. Went(t, {"verify"})
  BY <1>1, GoesOn, ThreadFields DEF StreamDone, Pc
<1>3. tmp' \in [Jobs -> Download] /\ dest' \in [Jobs -> Download]
  <2>1. PICK c \in {"whole", "torn"} : tmp' = Closed(tmp, t, c) /\ dest' = Closed(dest, t, c)
    BY DEF StreamDone
  <2> QED
    BY <1>1, <2>1, ClosedTyped DEF Content
<1>4. TypeOK'
  BY <1>1, <1>2, <1>3 DEF TypeOK, StreamDone, Went, disk, said, routing
<1>5. \A pc \in {"verify"} : Fits(pc, K(t))
  BY DEF Fits, Repair
<1>6. UNCHANGED <<kind, told, notices>>
  BY DEF StreamDone, said, routing
<1> QED
  BY <1>1, <1>2, <1>4, <1>5, <1>6, Goal

LEMMA StreamFailsTyped ==
    ASSUME Ruled, NEW t \in Threads, StreamFails(t)
    PROVE  TypeOK' /\ JobsKnown' /\ RightHandler' /\ Went(t, {"unlink", "report"})
<1>1. ~At(t, "idle") /\ TypeOK
  BY DEF StreamFails, At, Ruled
<1>2. Went(t, {"unlink", "report"})
  BY <1>1, GoesOn, JobOf, ThreadFields, Retries DEF StreamFails, Went, Pc
<1>3. TypeOK'
  BY <1>1, <1>2, JobOf, AgentAssumption, ClosedTyped, FilesTyped DEF TypeOK, StreamFails, Went, disk, said, routing, shared, Content
<1>4. \A pc \in {"unlink", "report"} : Fits(pc, K(t))
  BY <1>1, JobOf DEF Fits, StreamFails, At, Repair, Directories, Kinds
<1>5. UNCHANGED <<kind, told, notices>>
  BY DEF StreamFails, disk, said, routing, shared
<1> QED
  BY <1>1, <1>2, <1>3, <1>4, <1>5, Goal

LEMMA VerifyTyped ==
    ASSUME Ruled, NEW t \in Threads, Verify(t)
    PROVE  TypeOK' /\ JobsKnown' /\ RightHandler' /\ Went(t, {"move", "report"})
<1>1. ~At(t, "idle") /\ TypeOK
  BY DEF Verify, At, Ruled
<1>2. Went(t, {"move", "report"})
  BY <1>1, GoesOn, JobOf, ThreadFields DEF Verify, Went, Pc
<1>3. TypeOK'
  BY <1>1, <1>2, JobOf, AgentAssumption, FilesTyped DEF TypeOK, Verify, Went, disk, said, routing, shared
<1>4. \A pc \in {"move", "report"} : Fits(pc, K(t))
  BY <1>1, JobOf DEF Fits, Verify, At, Repair, Directories, Kinds
<1>5. UNCHANGED <<kind, told, notices>>
  BY DEF Verify, disk, said, routing, shared
<1> QED
  BY <1>1, <1>2, <1>3, <1>4, <1>5, Goal

LEMMA MoveTmpTyped ==
    ASSUME Ruled, NEW t \in Threads, MoveTmp(t)
    PROVE  TypeOK' /\ JobsKnown' /\ RightHandler' /\ Went(t, {Handler(K(t)), "report"})
<1>1. ~At(t, "idle") /\ TypeOK
  BY DEF MoveTmp, At, Ruled
<1>2. Went(t, {Handler(K(t)), "report"})
  <2>1. Handler(K(t)) \in Pc
    BY HandlerPc DEF Pc
  <2>2. CASE Raise(t)
    BY <1>1, <2>2, GoesOn DEF Went
  <2>3. CASE th' = [th EXCEPT ![t].pc = Handler(K(t)), ![t].tries = 0]
    BY <1>1, <2>1, <2>3, Downloaded DEF Went
  <2> QED
    BY <2>2, <2>3 DEF MoveTmp
<1>3. TypeOK'
  BY <1>1, <1>2, JobOf, AgentAssumption, FilesTyped DEF TypeOK, MoveTmp, Went, disk, said, routing, shared
<1>4. \A pc \in {Handler(K(t)), "report"} : Fits(pc, K(t))
  BY <1>1, JobOf DEF Fits, MoveTmp, At, Repair, Directories, Kinds, Handler
<1>5. UNCHANGED <<kind, told, notices>>
  BY DEF MoveTmp, disk, said, routing, shared
<1> QED
  BY <1>1, <1>2, <1>3, <1>4, <1>5, Goal

LEMMA BackupFailsTyped ==
    ASSUME Ruled, NEW t \in Threads, BackupFails(t)
    PROVE  TypeOK' /\ JobsKnown' /\ RightHandler' /\ Went(t, {"report"})
<1>1. ~At(t, "idle") /\ TypeOK
  BY DEF BackupFails, At, Ruled
<1>2. Went(t, {"report"})
  BY <1>1, GoesOn, JobOf, ThreadFields DEF BackupFails, Went, Pc
<1>3. TypeOK'
  BY <1>1, <1>2, JobOf, AgentAssumption DEF TypeOK, BackupFails, Went, disk, said, routing, shared
<1>4. \A pc \in {"report"} : Fits(pc, K(t))
  BY <1>1, JobOf DEF Fits, BackupFails, At, Repair, Directories, Kinds
<1>5. UNCHANGED <<kind, told, notices>>
  BY DEF BackupFails, disk, said, routing, shared
<1> QED
  BY <1>1, <1>2, <1>3, <1>4, <1>5, Goal

LEMMA StopServiceTyped ==
    ASSUME Ruled, NEW t \in Threads, StopService(t)
    PROVE  TypeOK' /\ JobsKnown' /\ RightHandler' /\ Went(t, {"install", "rollback"})
<1>1. ~At(t, "idle") /\ TypeOK
  BY DEF StopService, At, Ruled
<1>2. Went(t, {"install", "rollback"})
  BY <1>1, GoesOn, JobOf, ThreadFields DEF StopService, Went, Pc
<1>3. TypeOK'
  BY <1>1, <1>2, JobOf, AgentAssumption DEF TypeOK, StopService, Went, disk, said, routing, shared
<1>4. \A pc \in {"install", "rollback"} : Fits(pc, K(t))
  BY <1>1, JobOf DEF Fits, StopService, At, Repair, Directories, Kinds
<1>5. UNCHANGED <<kind, told, notices>>
  BY DEF StopService, disk, said, routing, shared
<1> QED
  BY <1>1, <1>2, <1>3, <1>4, <1>5, Goal

LEMMA ClearDriverTyped ==
    ASSUME Ruled, NEW t \in Threads, ClearDriver(t)
    PROVE  TypeOK' /\ JobsKnown' /\ RightHandler' /\ Went(t, {"install"})
<1>1. ~At(t, "idle") /\ TypeOK
  BY DEF ClearDriver, At, Ruled
<1>2. Went(t, {"install"})
  BY <1>1, GoesOn, JobOf, ThreadFields DEF ClearDriver, Went, Pc
<1>3. TypeOK'
  BY <1>1, <1>2, JobOf, AgentAssumption, Puts, FilesTyped DEF TypeOK, ClearDriver, Went, disk, said, routing, shared, Kinds
<1>4. \A pc \in {"install"} : Fits(pc, K(t))
  BY <1>1, JobOf DEF Fits, ClearDriver, At, Repair, Directories, Kinds
<1>5. UNCHANGED <<kind, told, notices>>
  BY DEF ClearDriver, disk, said, routing, shared
<1> QED
  BY <1>1, <1>2, <1>3, <1>4, <1>5, Goal

LEMMA StartServiceTyped ==
    ASSUME Ruled, NEW t \in Threads, StartService(t)
    PROVE  TypeOK' /\ JobsKnown' /\ RightHandler' /\ Went(t, {"health", "rollback"})
<1>1. ~At(t, "idle") /\ TypeOK
  BY DEF StartService, At, Ruled
<1>2. Went(t, {"health", "rollback"})
  BY <1>1, GoesOn, JobOf, ThreadFields DEF StartService, Went, Pc
<1>3. TypeOK'
  BY <1>1, <1>2, JobOf, AgentAssumption DEF TypeOK, StartService, Went, disk, said, routing, shared
<1>4. \A pc \in {"health", "rollback"} : Fits(pc, K(t))
  BY <1>1, JobOf DEF Fits, StartService, At, Repair, Directories, Kinds
<1>5. UNCHANGED <<kind, told, notices>>
  BY DEF StartService, disk, said, routing, shared
<1> QED
  BY <1>1, <1>2, <1>3, <1>4, <1>5, Goal

LEMMA HealthCheckTyped ==
    ASSUME Ruled, NEW t \in Threads, HealthCheck(t)
    PROVE  TypeOK' /\ JobsKnown' /\ RightHandler' /\ Went(t, {"save", "rollback"})
<1>1. ~At(t, "idle") /\ TypeOK
  BY DEF HealthCheck, At, Ruled
<1>2. Went(t, {"save", "rollback"})
  BY <1>1, GoesOn, JobOf, ThreadFields DEF HealthCheck, Went, Pc
<1>3. TypeOK'
  BY <1>1, <1>2, JobOf, AgentAssumption DEF TypeOK, HealthCheck, Went, disk, said, routing, shared
<1>4. \A pc \in {"save", "rollback"} : Fits(pc, K(t))
  BY <1>1, JobOf DEF Fits, HealthCheck, At, Repair, Directories, Kinds
<1>5. UNCHANGED <<kind, told, notices>>
  BY DEF HealthCheck, disk, said, routing, shared
<1> QED
  BY <1>1, <1>2, <1>3, <1>4, <1>5, Goal

LEMMA RestartServiceTyped ==
    ASSUME Ruled, NEW t \in Threads, RestartService(t)
    PROVE  TypeOK' /\ JobsKnown' /\ RightHandler' /\ Went(t, {"report"})
<1>1. ~At(t, "idle") /\ TypeOK
  BY DEF RestartService, At, Ruled
<1>2. Went(t, {"report"})
  BY <1>1, GoesOn, JobOf, ThreadFields, Rolls DEF RestartService, Went, Pc
<1>3. TypeOK'
  BY <1>1, <1>2, JobOf, AgentAssumption DEF TypeOK, RestartService, Went, disk, said, routing, shared
<1>4. \A pc \in {"report"} : Fits(pc, K(t))
  BY <1>1, JobOf DEF Fits, RestartService, At, Repair, Directories, Kinds
<1>5. UNCHANGED <<kind, told, notices>>
  BY DEF RestartService, disk, said, routing, shared
<1> QED
  BY <1>1, <1>2, <1>3, <1>4, <1>5, Goal

LEMMA StageZigbeeTyped ==
    ASSUME Ruled, NEW t \in Threads, StageZigbee(t)
    PROVE  TypeOK' /\ JobsKnown' /\ RightHandler' /\ Went(t, {"listen", "report"})
<1>1. ~At(t, "idle") /\ TypeOK
  BY DEF StageZigbee, At, Ruled
<1>2. Went(t, {"listen", "report"})
  BY <1>1, GoesOn, JobOf, ThreadFields DEF StageZigbee, Went, Pc
<1>3. TypeOK'
  BY <1>1, <1>2, JobOf, AgentAssumption DEF TypeOK, StageZigbee, Went, disk, said, routing, shared
<1>4. \A pc \in {"listen", "report"} : Fits(pc, K(t))
  BY <1>1, JobOf DEF Fits, StageZigbee, At, Repair, Directories, Kinds
<1>5. UNCHANGED <<kind, told, notices>>
  BY DEF StageZigbee, disk, said, routing, shared
<1> QED
  BY <1>1, <1>2, <1>3, <1>4, <1>5, Goal

LEMMA ListenTyped ==
    ASSUME Ruled, NEW t \in Threads, Listen(t)
    PROVE  TypeOK' /\ JobsKnown' /\ RightHandler' /\ Went(t, {"request", "report"})
<1>1. ~At(t, "idle") /\ TypeOK
  BY DEF Listen, At, Ruled
<1>2. Went(t, {"request", "report"})
  BY <1>1, GoesOn, JobOf, ThreadFields, Listens DEF Listen, Went, Pc
<1>3. TypeOK'
  BY <1>1, <1>2, JobOf, AgentAssumption DEF TypeOK, Listen, Went, disk, said, routing, shared
<1>4. \A pc \in {"request", "report"} : Fits(pc, K(t))
  BY <1>1, JobOf DEF Fits, Listen, At, Repair, Directories, Kinds
<1>5. UNCHANGED <<kind, told, notices>>
  BY DEF Listen, disk, said, routing, shared
<1> QED
  BY <1>1, <1>2, <1>3, <1>4, <1>5, Goal

LEMMA RequestZigbeeTyped ==
    ASSUME Ruled, NEW t \in Threads, RequestZigbee(t)
    PROVE  TypeOK' /\ JobsKnown' /\ RightHandler' /\ Went(t, {"await"})
<1>1. ~At(t, "idle") /\ TypeOK
  BY DEF RequestZigbee, At, Ruled
<1>2. Went(t, {"await"})
  BY <1>1, GoesOn, JobOf, ThreadFields DEF RequestZigbee, Went, Pc
<1>3. TypeOK'
  BY <1>1, <1>2, JobOf, AgentAssumption DEF TypeOK, RequestZigbee, Went, disk, said, routing, shared
<1>4. \A pc \in {"await"} : Fits(pc, K(t))
  BY <1>1, JobOf DEF Fits, RequestZigbee, At, Repair, Directories, Kinds
<1>5. UNCHANGED <<kind, told, notices>>
  BY DEF RequestZigbee, disk, said, routing, shared
<1> QED
  BY <1>1, <1>2, <1>3, <1>4, <1>5, Goal

LEMMA AnsweredTyped ==
    ASSUME Ruled, NEW t \in Threads, Answered(t)
    PROVE  TypeOK' /\ JobsKnown' /\ RightHandler' /\ Went(t, {"unlisten"})
<1>1. ~At(t, "idle") /\ TypeOK
  BY DEF Answered, At, Ruled
<1>2. Went(t, {"unlisten"})
  BY <1>1, GoesOn, JobOf, ThreadFields DEF Answered, Went, Pc
<1>3. TypeOK'
  BY <1>1, <1>2, JobOf, AgentAssumption DEF TypeOK, Answered, Went, disk, said, routing, shared
<1>4. \A pc \in {"unlisten"} : Fits(pc, K(t))
  BY <1>1, JobOf DEF Fits, Answered, At, Repair, Directories, Kinds
<1>5. UNCHANGED <<kind, told, notices>>
  BY DEF Answered, disk, said, routing, shared
<1> QED
  BY <1>1, <1>2, <1>3, <1>4, <1>5, Goal

LEMMA ZigbeeTimeoutTyped ==
    ASSUME Ruled, NEW t \in Threads, ZigbeeTimeout(t)
    PROVE  TypeOK' /\ JobsKnown' /\ RightHandler' /\ Went(t, {"unlisten"})
<1>1. ~At(t, "idle") /\ TypeOK
  BY DEF ZigbeeTimeout, At, Ruled
<1>2. Went(t, {"unlisten"})
  BY <1>1, GoesOn, JobOf, ThreadFields, Hears DEF ZigbeeTimeout, Went, Pc
<1>3. TypeOK'
  BY <1>1, <1>2, JobOf, AgentAssumption DEF TypeOK, ZigbeeTimeout, Went, disk, said, routing, shared
<1>4. \A pc \in {"unlisten"} : Fits(pc, K(t))
  BY <1>1, JobOf DEF Fits, ZigbeeTimeout, At, Repair, Directories, Kinds
<1>5. UNCHANGED <<kind, told, notices>>
  BY DEF ZigbeeTimeout, disk, said, routing, shared
<1> QED
  BY <1>1, <1>2, <1>3, <1>4, <1>5, Goal

LEMMA UnlistenTyped ==
    ASSUME Ruled, NEW t \in Threads, Unlisten(t)
    PROVE  TypeOK' /\ JobsKnown' /\ RightHandler' /\ Went(t, {"save", "report"})
<1>1. ~At(t, "idle") /\ TypeOK
  BY DEF Unlisten, At, Ruled
<1>2. Went(t, {"save", "report"})
  BY <1>1, GoesOn, JobOf, ThreadFields DEF Unlisten, Went, Pc
<1>3. TypeOK'
  BY <1>1, <1>2, JobOf, AgentAssumption, ThreadFields DEF TypeOK, Unlisten, Went, disk, said, routing, shared
<1>4. \A pc \in {"save", "report"} : Fits(pc, K(t))
  BY <1>1, JobOf DEF Fits, Unlisten, At, Repair, Directories, Kinds
<1>5. UNCHANGED <<kind, told, notices>>
  BY DEF Unlisten, disk, said, routing, shared
<1> QED
  BY <1>1, <1>2, <1>3, <1>4, <1>5, Goal

LEMMA SaveVersionsTyped ==
    ASSUME Ruled, NEW t \in Threads, SaveVersions(t)
    PROVE  TypeOK' /\ JobsKnown' /\ RightHandler' /\ Went(t, {"report"})
<1>1. ~At(t, "idle") /\ TypeOK
  BY DEF SaveVersions, At, Ruled
<1>2. Went(t, {"report"})
  BY <1>1, GoesOn, Raises DEF SaveVersions, Went, Results
<1>3. versions' \in [Kinds -> 0 .. MaxJobs] /\ saved' \in {saved, versions'}
  <2>1. th[t].job \in 0 .. MaxJobs /\ K(t) \in Kinds /\ versions \in [Kinds -> 0 .. MaxJobs]
    BY <1>1, JobOf, ThreadFields DEF TypeOK
  <2> QED
    BY <2>1 DEF SaveVersions
<1>4. TypeOK'
  BY <1>1, <1>2, <1>3 DEF TypeOK, SaveVersions, Went, disk, said, routing
<1>5. \A pc \in {"report"} : Fits(pc, K(t))
  BY DEF Fits, Repair
<1>6. UNCHANGED <<kind, told, notices>>
  BY DEF SaveVersions, said, routing
<1> QED
  BY <1>1, <1>2, <1>4, <1>5, <1>6, Goal

LEMMA RestoreStartTyped ==
    ASSUME Ruled, NEW t \in Threads, RestoreStart(t)
    PROVE  TypeOK' /\ JobsKnown' /\ RightHandler' /\ Went(t, {"restoring", "report"})
<1>1. ~At(t, "idle") /\ TypeOK
  BY DEF RestoreStart, At, Ruled
<1>2. Went(t, {"restoring", "report"})
  BY <1>1, GoesOn, JobOf, ThreadFields DEF RestoreStart, Went, Pc, RollbackFails
<1>3. TypeOK'
  BY <1>1, <1>2, JobOf, AgentAssumption, Puts, FilesTyped, FilesOfBackup DEF TypeOK, RestoreStart, Went, disk, said, routing, shared
<1>4. \A pc \in {"restoring", "report"} : Fits(pc, K(t))
  BY <1>1, JobOf DEF Fits, RestoreStart, At, Repair, Directories, Kinds
<1>5. UNCHANGED <<kind, told, notices>>
  BY DEF RestoreStart, disk, said, routing, shared
<1> QED
  BY <1>1, <1>2, <1>3, <1>4, <1>5, Goal

LEMMA RestoreDoneTyped ==
    ASSUME Ruled, NEW t \in Threads, RestoreDone(t)
    PROVE  TypeOK' /\ JobsKnown' /\ RightHandler' /\ Went(t, {"restart", "report"})
<1>1. ~At(t, "idle") /\ TypeOK
  BY DEF RestoreDone, At, Ruled
<1>2. Went(t, {"restart", "report"})
  BY <1>1, GoesOn, JobOf, ThreadFields DEF RestoreDone, Went, Pc, RollbackFails
<1>3. TypeOK'
  BY <1>1, <1>2, JobOf, AgentAssumption, Puts, FilesTyped, FilesOfBackup DEF TypeOK, RestoreDone, Went, disk, said, routing, shared
<1>4. \A pc \in {"restart", "report"} : Fits(pc, K(t))
  BY <1>1, JobOf DEF Fits, RestoreDone, At, Repair, Directories, Kinds
<1>5. UNCHANGED <<kind, told, notices>>
  BY DEF RestoreDone, disk, said, routing, shared
<1> QED
  BY <1>1, <1>2, <1>3, <1>4, <1>5, Goal

LEMMA RollbackTyped ==
    ASSUME Ruled, NEW t \in Threads, Rollback(t)
    PROVE  TypeOK' /\ JobsKnown' /\ RightHandler' /\ Went(t, {"restore", "report"})
<1>1. ~At(t, "idle") /\ TypeOK
  BY DEF Rollback, At, Ruled
<1>2. Went(t, {"restore", "report"})
  BY <1>1, GoesOn, JobOf, ThreadFields DEF Rollback, Went, Pc, RollbackFails
<1>3. TypeOK'
  BY <1>1, <1>2, JobOf, AgentAssumption, FilesTyped DEF TypeOK, Rollback, Went, disk, said, routing, shared, HasBackup
<1>4. \A pc \in {"restore", "report"} : Fits(pc, K(t))
  BY <1>1, JobOf DEF Fits, Rollback, At, Repair, Directories, Kinds
<1>5. UNCHANGED <<kind, told, notices>>
  BY DEF Rollback, disk, said, routing, shared
<1> QED
  BY <1>1, <1>2, <1>3, <1>4, <1>5, Goal

LEMMA InstallStartTyped ==
    ASSUME Ruled, NEW t \in Threads, InstallStart(t)
    PROVE  TypeOK' /\ JobsKnown' /\ RightHandler' /\ Went(t, {"copying", "rollback"})
<1>1. ~At(t, "idle") /\ TypeOK
  BY DEF InstallStart, At, Ruled
<1>2. Went(t, {"copying", "rollback"})
  BY <1>1, GoesOn, JobOf, ThreadFields, Reads DEF InstallStart, Went, Pc
<1>3. TypeOK'
  BY <1>1, <1>2, JobOf, AgentAssumption, Puts, FilesTyped DEF TypeOK, InstallStart, Went, disk, said, routing, shared, Content
<1>4. \A pc \in {"copying", "rollback"} : Fits(pc, K(t))
  BY <1>1, JobOf DEF Fits, InstallStart, At, Repair, Directories, Kinds
<1>5. UNCHANGED <<kind, told, notices>>
  BY DEF InstallStart, disk, said, routing, shared
<1> QED
  BY <1>1, <1>2, <1>3, <1>4, <1>5, Goal

LEMMA InstallDoneTyped ==
    ASSUME Ruled, NEW t \in Threads, InstallDone(t)
    PROVE  TypeOK' /\ JobsKnown' /\ RightHandler' /\ Went(t, {IF K(t) = "driver" THEN "save" ELSE "start", "rollback"})
<1>1. ~At(t, "idle") /\ TypeOK
  BY DEF InstallDone, At, Ruled
<1>2. Went(t, {IF K(t) = "driver" THEN "save" ELSE "start", "rollback"})
  BY <1>1, GoesOn, JobOf, ThreadFields DEF InstallDone, Went, Pc
<1>3. TypeOK'
  BY <1>1, <1>2, JobOf, AgentAssumption, Puts, FilesTyped DEF TypeOK, InstallDone, Went, disk, said, routing, shared, Content
<1>4. \A pc \in {IF K(t) = "driver" THEN "save" ELSE "start", "rollback"} : Fits(pc, K(t))
  BY <1>1, JobOf DEF Fits, InstallDone, At, Repair, Directories, Kinds
<1>5. UNCHANGED <<kind, told, notices>>
  BY DEF InstallDone, disk, said, routing, shared
<1> QED
  BY <1>1, <1>2, <1>3, <1>4, <1>5, Goal

LEMMA ApplyConfigTyped ==
    ASSUME Ruled, NEW t \in Threads, ApplyConfig(t)
    PROVE  TypeOK' /\ JobsKnown' /\ RightHandler' /\ Went(t, {"save", "report", "restoreFile"})
<1>1. ~At(t, "idle") /\ TypeOK
  BY DEF ApplyConfig, At, Ruled
<1>2. Went(t, {"save", "report", "restoreFile"})
  BY <1>1, GoesOn, JobOf, ThreadFields DEF ApplyConfig, Went, Pc
<1>3. TypeOK'
  BY <1>1, <1>2, JobOf, AgentAssumption, Puts, FilesTyped DEF TypeOK, ApplyConfig, Went, disk, said, routing, shared, Kinds
<1>4. \A pc \in {"save", "report", "restoreFile"} : Fits(pc, K(t))
  BY <1>1, JobOf DEF Fits, ApplyConfig, At, Repair, Directories, Kinds
<1>5. UNCHANGED <<kind, told, notices>>
  BY DEF ApplyConfig, disk, said, routing, shared
<1> QED
  BY <1>1, <1>2, <1>3, <1>4, <1>5, Goal

LEMMA RestoreFileStartTyped ==
    ASSUME Ruled, NEW t \in Threads, RestoreFileStart(t)
    PROVE  TypeOK' /\ JobsKnown' /\ RightHandler' /\ Went(t, {"restoringFile"})
<1>1. ~At(t, "idle") /\ TypeOK
  BY DEF RestoreFileStart, At, Ruled
<1>2. Went(t, {"restoringFile"})
  BY <1>1, GoesOn, JobOf, ThreadFields DEF RestoreFileStart, Went, Pc
<1>3. TypeOK'
  BY <1>1, <1>2, JobOf, AgentAssumption, Puts, FilesTyped, ThreadFields DEF TypeOK, RestoreFileStart, Went, disk, said, routing, shared, Kinds
<1>4. \A pc \in {"restoringFile"} : Fits(pc, K(t))
  BY <1>1, JobOf DEF Fits, RestoreFileStart, At, Repair, Directories, Kinds
<1>5. UNCHANGED <<kind, told, notices>>
  BY DEF RestoreFileStart, disk, said, routing, shared
<1> QED
  BY <1>1, <1>2, <1>3, <1>4, <1>5, Goal

LEMMA RestoreFileDoneTyped ==
    ASSUME Ruled, NEW t \in Threads, RestoreFileDone(t)
    PROVE  TypeOK' /\ JobsKnown' /\ RightHandler' /\ Went(t, {"report"})
<1>1. ~At(t, "idle") /\ TypeOK
  BY DEF RestoreFileDone, At, Ruled
<1>2. Went(t, {"report"})
  BY <1>1, GoesOn, JobOf, ThreadFields, Rolls DEF RestoreFileDone, Went, Pc
<1>3. TypeOK'
  BY <1>1, <1>2, JobOf, AgentAssumption, Puts, FilesTyped, ThreadFields DEF TypeOK, RestoreFileDone, Went, disk, said, routing, shared, Kinds
<1>4. \A pc \in {"report"} : Fits(pc, K(t))
  BY <1>1, JobOf DEF Fits, RestoreFileDone, At, Repair, Directories, Kinds
<1>5. UNCHANGED <<kind, told, notices>>
  BY DEF RestoreFileDone, disk, said, routing, shared
<1> QED
  BY <1>1, <1>2, <1>3, <1>4, <1>5, Goal

LEMMA BackupStartTyped ==
    ASSUME Ruled, NEW t \in Threads, BackupStart(t)
    PROVE  TypeOK' /\ JobsKnown' /\ RightHandler'
           /\ Went(t, {IF K(t) = "driver" THEN "clear" ELSE "stop", "copytree", "report"})
<1> DEFINE k == K(t)
           n == taken[k] + 1
<1>1. ~At(t, "idle") /\ TypeOK /\ k \in Kinds
  BY JobOf DEF BackupStart, At, Ruled
<1>2. Went(t, {IF k = "driver" THEN "clear" ELSE "stop", "copytree", "report"})
  <2>1. CASE Goto(t, IF k = "driver" THEN "clear" ELSE "stop")
    BY <1>1, <2>1, GoesOn DEF Went, Pc
  <2>2. CASE Become(t, [th[t] EXCEPT !.pc = "copytree", !.bak = n, !.snap = tree[k].files])
    <3>1. n \in Nat /\ tree[k].files \in Files /\ "copytree" \in Pc
      BY <1>1, HalfBacked DEF Pc
    <3> QED
      BY <1>1, <2>2, <3>1, Copies DEF Went
  <2>3. CASE Raise(t)
    BY <1>1, <2>3, GoesOn DEF Went
  <2> QED
    BY <2>1, <2>2, <2>3 DEF BackupStart
<1>3. taken' \in [Kinds -> Nat] /\ bad' \in [Kinds -> Nat] /\ backups' \in [Kinds -> Seq(Backup)]
  <2>1. bad[k] + 1 \in Nat
    BY <1>1 DEF TypeOK
  <2> DEFINE s == Append(backups[k], [n |-> n, files |-> Half(tree[k].files)])
  <2>2. n \in Nat /\ s \in Seq(Backup)
    BY <1>1, HalfBacked
  <2>3. /\ taken' \in {taken, [taken EXCEPT ![k] = n]}
        /\ bad' \in {bad, [bad EXCEPT ![k] = bad[k] + 1]}
        /\ backups' \in {backups, [backups EXCEPT ![k] = s]}
    BY <1>1 DEF BackupStart, TypeOK
  <2>4. taken \in [Kinds -> Nat] /\ bad \in [Kinds -> Nat] /\ backups \in [Kinds -> Seq(Backup)]
    BY <1>1 DEF TypeOK
  <2>5. k \in Kinds
    BY <1>1
  <2> HIDE DEF k, n, s
  <2>6. taken' \in [Kinds -> Nat]
    BY <2>2, <2>3, <2>4, <2>5
  <2>7. bad' \in [Kinds -> Nat]
    BY <2>1, <2>3, <2>4, <2>5
  <2>8. backups' \in [Kinds -> Seq(Backup)]
    BY <2>2, <2>3, <2>4, <2>5
  <2> QED
    BY <2>6, <2>7, <2>8
<1>4. TypeOK'
  BY <1>1, <1>2, <1>3 DEF TypeOK, BackupStart, Went, disk, said, routing
<1>5. \A pc \in {IF k = "driver" THEN "clear" ELSE "stop", "copytree", "report"} : Fits(pc, k)
  BY <1>1, JobOf DEF Fits, BackupStart, At, Repair, Directories
<1>6. UNCHANGED <<kind, told, notices>>
  BY DEF BackupStart, said, routing
<1> QED
  BY <1>1, <1>2, <1>4, <1>5, <1>6, Goal

LEMMA BackupDoneTyped ==
    ASSUME Ruled, NEW t \in Threads, BackupDone(t)
    PROVE  TypeOK' /\ JobsKnown' /\ RightHandler' /\ Went(t, {IF K(t) = "driver" THEN "clear" ELSE "stop"})
<1>1. ~At(t, "idle") /\ TypeOK
  BY DEF BackupDone, At, Ruled
<1>2. Went(t, {IF K(t) = "driver" THEN "clear" ELSE "stop"})
  BY <1>1, GoesOn, JobOf, ThreadFields DEF BackupDone, Went, Pc
<1>3. TypeOK'
  BY <1>1, <1>2, JobOf, AgentAssumption, FilledTyped, NewestTyped, ThreadFields DEF TypeOK, BackupDone, Went, disk, said, routing, shared
<1>4. \A pc \in {IF K(t) = "driver" THEN "clear" ELSE "stop"} : Fits(pc, K(t))
  BY <1>1, JobOf DEF Fits, BackupDone, At, Repair, Directories, Kinds
<1>5. UNCHANGED <<kind, told, notices>>
  BY DEF BackupDone, disk, said, routing, shared
<1> QED
  BY <1>1, <1>2, <1>3, <1>4, <1>5, Goal

LEMMA BackupFileStartTyped ==
    ASSUME Ruled, NEW t \in Threads, BackupFileStart(t)
    PROVE  TypeOK' /\ JobsKnown' /\ RightHandler' /\ Went(t, {"apply", "copyFile", "report"})
<1> DEFINE n == taken["config"] + 1
           files == tree["config"].files
<1>1. ~At(t, "idle") /\ TypeOK /\ "config" \in Kinds
  BY JobOf DEF BackupFileStart, At, Ruled, Kinds
<1>2. Went(t, {"apply", "copyFile", "report"})
  <2>1. CASE Goto(t, "apply")
    BY <1>1, <2>1, GoesOn DEF Went, Pc
  <2>2. CASE Become(t, [th[t] EXCEPT !.pc = "copyFile", !.bak = n, !.snap = files])
    <3>1. n \in Nat /\ files \in Files /\ "copyFile" \in Pc
      BY <1>1, HalfBacked DEF Pc
    <3> QED
      BY <1>1, <2>2, <3>1, Copies DEF Went
  <2>3. CASE Raise(t)
    BY <1>1, <2>3, GoesOn DEF Went
  <2> QED
    BY <2>1, <2>2, <2>3 DEF BackupFileStart
<1>3. taken' \in [Kinds -> Nat] /\ backups' \in [Kinds -> Seq(Backup)]
  <2> DEFINE s == Append(backups["config"], [n |-> n, files |-> Half(files)])
  <2>1. n \in Nat /\ s \in Seq(Backup)
    BY <1>1, HalfBacked
  <2>2. /\ taken' \in {taken, [taken EXCEPT !["config"] = n]}
        /\ backups' \in {backups, [backups EXCEPT !["config"] = s]}
    BY <1>1 DEF BackupFileStart, TypeOK
  <2>3. taken \in [Kinds -> Nat] /\ backups \in [Kinds -> Seq(Backup)]
    BY <1>1 DEF TypeOK
  <2> HIDE DEF n, files, s
  <2>4. taken' \in [Kinds -> Nat]
    BY <1>1, <2>1, <2>2, <2>3
  <2>5. backups' \in [Kinds -> Seq(Backup)]
    BY <1>1, <2>1, <2>2, <2>3
  <2> QED
    BY <2>4, <2>5
<1>4. TypeOK'
  BY <1>1, <1>2, <1>3 DEF TypeOK, BackupFileStart, Went, disk, said, routing
<1>5. \A pc \in {"apply", "copyFile", "report"} : Fits(pc, K(t))
  BY <1>1, JobOf DEF Fits, BackupFileStart, At, Repair, Directories
<1>6. UNCHANGED <<kind, told, notices>>
  BY DEF BackupFileStart, said, routing
<1> QED
  BY <1>1, <1>2, <1>4, <1>5, <1>6, Goal

LEMMA BackupFileDoneTyped ==
    ASSUME Ruled, NEW t \in Threads, BackupFileDone(t)
    PROVE  TypeOK' /\ JobsKnown' /\ RightHandler' /\ Went(t, {"apply", "report"})
           /\ \/ backups' = [backups EXCEPT !["config"] = Filled("config", th[t].bak, th[t].snap)]
              \/ UNCHANGED backups /\ Raise(t)
<1>1. ~At(t, "idle") /\ TypeOK /\ "config" \in Kinds
  BY DEF BackupFileDone, At, Ruled, Kinds
<1>2. Went(t, {"apply", "report"})
  BY <1>1, GoesOn DEF BackupFileDone, Went, Pc
<1>3. \/ backups' = [backups EXCEPT !["config"] = Filled("config", th[t].bak, th[t].snap)]
      \/ UNCHANGED backups /\ Raise(t)
  <2>1. CASE UNCHANGED backups /\ Raise(t)
    BY <2>1
  <2>2. CASE backups' = [backups EXCEPT !["config"] =
                [i \in DOMAIN @ |-> IF @[i].n = th[t].bak THEN [n |-> @[i].n, files |-> th[t].snap]
                                    ELSE @[i]]]
    <3> DEFINE s == backups["config"]
               f == [i \in DOMAIN s |->
                       IF s[i].n = th[t].bak THEN [n |-> s[i].n, files |-> th[t].snap] ELSE s[i]]
               g == [i \in DOMAIN s |->
                       IF s[i].n = th[t].bak THEN [n |-> th[t].bak, files |-> th[t].snap] ELSE s[i]]
    <3>1. f = g
      OBVIOUS
    <3>2. backups' = [backups EXCEPT !["config"] = f]
      BY <1>1, <2>2 DEF TypeOK
    <3> QED
      BY <3>1, <3>2 DEF Filled
  <2> QED
    BY <2>1, <2>2 DEF BackupFileDone
<1>4. backups' \in [Kinds -> Seq(Backup)]
  <2>1. Filled("config", th[t].bak, th[t].snap) \in Seq(Backup)
    BY <1>1, FilledTyped, ThreadFields
  <2> QED
    BY <1>1, <1>3, <2>1 DEF TypeOK
<1>5. TypeOK'
  BY <1>1, <1>2, <1>4 DEF TypeOK, BackupFileDone, Went, disk, said, routing
<1>6. \A pc \in {"apply", "report"} : Fits(pc, K(t))
  BY <1>1, JobOf DEF Fits, BackupFileDone, At, Repair, Directories
<1>7. UNCHANGED <<kind, told, notices>>
  BY DEF BackupFileDone, said, routing
<1>8. JobsKnown' /\ RightHandler'
  BY <1>1, <1>2, <1>6, <1>7, Goal
<1> QED
  BY <1>2, <1>3, <1>5, <1>8

----------------------------------------------------------------------------
(* Reports and messages                                                    *)

LEMMA SentTyped ==
    ASSUME TypeOK, NEW js, Send(js)
    PROVE  /\ notices' \in [Jobs -> 0 .. MaxNotices] /\ missed' \subseteq Jobs
           /\ \A j \in Jobs : notices'[j] > 0 => j \in js \/ notices[j] > 0
<1>1. \A j \in Jobs : notices[j] \in 0 .. MaxNotices
  BY DEF TypeOK
<1>2. missed \subseteq Jobs
  BY DEF TypeOK
<1> QED
  BY <1>1, <1>2, AgentAssumption DEF Send

LEMMA ReportTyped ==
    ASSUME Ruled, NEW t \in Threads, Report(t)
    PROVE  TypeOK' /\ JobsKnown' /\ RightHandler' /\ Went(t, {"cleanup"}) /\ Keeps(t)
<1> DEFINE j == th[t].job
           v == IF Ended(j) THEN told[j] ELSE th[t].out
           next == {i \in Jobs : IsNext(told', i) /\ ~IsNext(told, i)}
<1>1. ~At(t, "idle") /\ TypeOK /\ j \in Jobs
  BY JobOf DEF Report, At, Ruled
<1>2. Went(t, {"cleanup"}) /\ Keeps(t)
  BY <1>1, GoesOn DEF Report, Pc
<1>3. /\ v \in Results /\ told \in [Jobs -> Statuses]
      /\ \/ told' = [told EXCEPT ![j] = v] /\ Send(next)
         \/ UNCHANGED <<told, notices, missed>>
  BY <1>1, ThreadFields DEF Report, NotifyNext, Ended, TypeOK, said
<1>4. \A i \in Jobs : (Ended(i) => told'[i] \in Results) /\ (told[i] # "NONE" => told'[i] # "NONE")
                     /\ (i # j => told'[i] = told[i])
  BY <1>1, <1>3 DEF Ended, Results
<1>5. /\ notices' \in [Jobs -> 0 .. MaxNotices] /\ missed' \subseteq Jobs
      /\ \A i \in Jobs : notices'[i] > 0 => i \in next \/ notices[i] > 0
  <2>1. CASE Send(next)
    <3> HIDE DEF next
    <3> QED
      BY <1>1, <2>1, SentTyped
  <2>2. CASE UNCHANGED <<told, notices, missed>>
    BY <2>2, <1>1 DEF TypeOK
  <2> QED
    BY <1>3, <2>1, <2>2
<1>6. \A i \in next : told'[i] # "NONE"
  BY DEF IsNext, Pending
<1>7. TypeOK'
  <2>1. told' \in [Jobs -> Statuses]
    BY <1>1, <1>3 DEF Statuses
  <2>2. alarms' \subseteq Jobs
    BY <1>1 DEF Report, TypeOK, said
  <2> QED
    BY <1>1, <1>2, <1>5, <2>1, <2>2 DEF TypeOK, Report, Went, disk
<1>8. JobsKnown'
  <2>1. \A i \in Jobs : notices'[i] > 0 => told'[i] # "NONE"
    BY <1>4, <1>5, <1>6 DEF Ruled, JobsKnown
  <2>2. \A s \in Threads : ~At(s, "idle")' => th'[s].job \in Jobs /\ told'[th'[s].job] # "NONE"
    BY <1>1, <1>2, <1>4 DEF Ruled, JobsKnown, Went, At
  <2>3. \A i, k \in Jobs : i < k /\ told'[k] # "NONE" => told'[i] \in Results
    <3> SUFFICES ASSUME NEW i \in Jobs, NEW k \in Jobs, i < k, told'[k] # "NONE"
                 PROVE  told'[i] \in Results
      OBVIOUS
    <3>1. told[k] # "NONE"
      BY <1>1, <1>4 DEF Ruled, JobsKnown
    <3> QED
      BY <1>4, <3>1 DEF Ruled, JobsKnown
  <2> QED
    BY <2>1, <2>2, <2>3 DEF JobsKnown, Ended
<1>9. RightHandler'
  <2>1. \A s \in Threads \ {t} : Fits(th[s].pc, K(s))'
    BY <1>2 DEF Ruled, RightHandler, Fits, K, Kind, Went, Report, routing
  <2>2. Fits(th[t].pc, K(t))'
    BY <1>2 DEF Fits, Went, Repair
  <2> QED
    BY <2>1, <2>2 DEF RightHandler
<1> QED
  BY <1>2, <1>7, <1>8, <1>9

LEMMA CleanupTyped ==
    ASSUME Ruled, NEW t \in Threads, Cleanup(t)
    PROVE  TypeOK' /\ JobsKnown' /\ RightHandler' /\ Went(t, {"next"})
<1>1. ~At(t, "idle") /\ TypeOK
  BY DEF Cleanup, At, Ruled
<1>2. Went(t, {"next"})
  BY <1>1, GoesOn DEF Cleanup, Pc
<1>3. TypeOK'
  BY <1>1, <1>2, FilesTyped DEF TypeOK, Cleanup, Went, disk, said, routing
<1>4. \A pc \in {"next"} : Fits(pc, K(t))
  BY DEF Fits, Repair
<1>5. UNCHANGED <<kind, told, notices>>
  BY DEF Cleanup, said, routing
<1> QED
  BY <1>1, <1>2, <1>3, <1>4, <1>5, Goal

LEMMA NextJobTyped ==
    ASSUME Ruled, NEW t \in Threads, NextJob(t)
    PROVE  TypeOK' /\ JobsKnown' /\ RightHandler'
           /\ th' \in [Threads -> Thread] /\ th'[t] = Idle
           /\ \A s \in Threads \ {t} : th'[s] = th[s]
<1>1. TypeOK
  BY DEF Ruled
<1>2. th' \in [Threads -> Thread] /\ th'[t] = Idle /\ \A s \in Threads \ {t} : th'[s] = th[s]
  BY <1>1, IdleTyped, Moves DEF NextJob
<1>3. /\ notices' \in [Jobs -> 0 .. MaxNotices] /\ missed' \subseteq Jobs
      /\ \A j \in Jobs : notices'[j] > 0 => IsNext(told, j) \/ notices[j] > 0
  <2> DEFINE next == {j \in Jobs : IsNext(told, j)}
  <2>1. Send(next)
    BY DEF NextJob, RequestNext
  <2>2. \A j \in next : IsNext(told, j)
    OBVIOUS
  <2> HIDE DEF next
  <2> QED
    BY <1>1, <2>1, <2>2, SentTyped
<1>4. TypeOK'
  BY <1>1, <1>2, <1>3 DEF TypeOK, NextJob, disk, said
<1>5. JobsKnown'
  <2>1. told' = told
    BY DEF NextJob, said
  <2>2. \A j \in Jobs : IsNext(told, j) => told[j] # "NONE"
    BY DEF IsNext, Pending
  <2>3. \A j \in Jobs : notices'[j] > 0 => told[j] # "NONE"
    BY <1>3, <2>2 DEF Ruled, JobsKnown
  <2>4. \A s \in Threads : ~At(s, "idle")' => th'[s] = th[s] /\ ~At(s, "idle")
    BY <1>2, IdleTyped DEF At
  <2> QED
    BY <2>1, <2>3, <2>4 DEF Ruled, JobsKnown, Ended
<1>6. RightHandler'
  <2>1. \A s \in Threads \ {t} : Fits(th[s].pc, K(s))'
    BY <1>2 DEF Ruled, RightHandler, Fits, K, Kind, NextJob, routing
  <2>2. Fits(th[t].pc, K(t))'
    BY <1>2, IdleTyped DEF Fits, Repair
  <2> QED
    BY <2>1, <2>2 DEF RightHandler
<1> QED
  BY <1>2, <1>4, <1>5, <1>6

LEMMA ReceiveTyped ==
    ASSUME Ruled, NEW t \in Threads, NEW j \in Jobs, Receive(t, j)
    PROVE  /\ TypeOK' /\ JobsKnown' /\ RightHandler'
           /\ th' \in [Threads -> Thread]
           /\ th'[t].pc = "unlink" /\ th'[t].job = j /\ th'[t].was = tree[kind[j]]
           /\ th'[t].bak = 0 /\ ~th'[t].rolled
           /\ \A s \in Threads \ {t} : th'[s] = th[s]
           /\ \A i \in Jobs : told'[i] \in Results <=> Ended(i)
<1> DEFINE p == [Idle EXCEPT !.pc = "unlink"]
           q == [p EXCEPT !.job = j]
           u == [q EXCEPT !.tries = 1]
           r == [u EXCEPT !.was = tree[Kind(j)]]
<1>1. TypeOK /\ kind[j] \in Kinds /\ tree[kind[j]] \in Tree /\ notices[j] > 0 /\ told[j] # "NONE"
  BY DEF Ruled, TypeOK, JobsKnown, Receive
<1>2. p \in Thread /\ p.pc = "unlink" /\ p.bak = 0 /\ ~p.rolled
  BY IdleTyped DEF Thread, Idle, Pc
<1> HIDE DEF p
<1>3. q \in Thread /\ q.pc = "unlink" /\ q.bak = 0 /\ ~q.rolled /\ q.job = j
  BY <1>2, AgentAssumption DEF Thread, Jobs
<1> HIDE DEF q
<1>4. u \in Thread /\ u.pc = "unlink" /\ u.bak = 0 /\ ~u.rolled /\ u.job = j
  BY <1>3, AgentAssumption DEF Thread
<1> HIDE DEF u
<1>5. r \in Thread /\ r.pc = "unlink" /\ r.bak = 0 /\ ~r.rolled /\ r.job = j /\ r.was = tree[kind[j]]
  BY <1>1, <1>4 DEF Thread, Kind
<1>6. Become(t, r)
  BY DEF Receive, p, q, u
<1> HIDE DEF r
<1>7. th' \in [Threads -> Thread] /\ th'[t] = r /\ \A s \in Threads \ {t} : th'[s] = th[s]
  BY <1>1, <1>5, <1>6, Moves
<1>8. /\ told' \in [Jobs -> Statuses]
      /\ \A i \in Jobs : (told'[i] \in Results <=> Ended(i)) /\ (told[i] # "NONE" => told'[i] # "NONE")
                        /\ (told[i] = "NONE" => told'[i] = "NONE")
  BY <1>1 DEF Receive, TypeOK, Statuses, Ended, Results
<1>9. notices' \in [Jobs -> 0 .. MaxNotices] /\ \A i \in Jobs : notices'[i] > 0 => notices[i] > 0
  <2>1. notices[j] \in 0 .. MaxNotices /\ notices \in [Jobs -> 0 .. MaxNotices]
    BY <1>1 DEF TypeOK
  <2>2. notices' = [notices EXCEPT ![j] = notices[j] - 1]
    BY DEF Receive
  <2> QED
    BY <1>1, <2>1, <2>2, AgentAssumption
<1>10. TypeOK'
  BY <1>1, <1>7, <1>8, <1>9 DEF TypeOK, Receive, disk, routing
<1>11. JobsKnown'
  <2>1. \A s \in Threads : ~At(s, "idle")' => th'[s].job \in Jobs /\ told'[th'[s].job] # "NONE"
    BY <1>1, <1>5, <1>7, <1>8 DEF Ruled, JobsKnown, At
  <2> QED
    BY <1>8, <1>9, <2>1 DEF Ruled, JobsKnown, Ended
<1>12. RightHandler'
  <2>1. \A s \in Threads \ {t} : Fits(th[s].pc, K(s))'
    BY <1>7 DEF Ruled, RightHandler, Fits, K, Kind, Receive, routing
  <2>2. Fits(th[t].pc, K(t))'
    BY <1>5, <1>7 DEF Fits, Repair
  <2> QED
    BY <2>1, <2>2 DEF RightHandler
<1> QED
  BY <1>5, <1>7, <1>8, <1>10, <1>11, <1>12

(* No thread moves; reports are kept, and a message names a known job.     *)
LEMMA Waits ==
    ASSUME Ruled, UNCHANGED <<kind, th>>,
           \A i \in Jobs : /\ Ended(i) => told'[i] \in Results
                           /\ told[i] # "NONE" <=> told'[i] # "NONE",
           \A i \in Jobs : notices'[i] > 0 => notices[i] > 0
    PROVE  JobsKnown' /\ RightHandler'
<1>1. JobsKnown'
  BY DEF Ruled, JobsKnown, Ended, At
<1>2. RightHandler'
  BY DEF Ruled, RightHandler, Fits, K, Kind
<1> QED
  BY <1>1, <1>2

LEMMA OneLess ==
    ASSUME TypeOK, NEW j \in Jobs, notices[j] > 0, notices' = [notices EXCEPT ![j] = @ - 1]
    PROVE  /\ notices' \in [Jobs -> 0 .. MaxNotices]
           /\ \A i \in Jobs : notices'[i] > 0 => notices[i] > 0
<1>1. notices \in [Jobs -> 0 .. MaxNotices]
  BY DEF TypeOK
<1> QED
  BY <1>1, AgentAssumption

LEMMA UnheardTyped ==
    ASSUME Ruled, NEW j \in Jobs, Unheard(j)
    PROVE  TypeOK' /\ JobsKnown' /\ RightHandler'
<1>1. /\ notices' \in [Jobs -> 0 .. MaxNotices]
      /\ \A i \in Jobs : notices'[i] > 0 => notices[i] > 0
  BY OneLess DEF Unheard, Ruled
<1>2. TypeOK'
  BY <1>1 DEF Unheard, Ruled, TypeOK, disk, said
<1> QED
  BY <1>1, <1>2, Waits DEF Unheard, said, Ended

LEMMA RefuseTyped ==
    ASSUME Ruled, NEW t \in Threads, NEW j \in Jobs, Refuse(t, j)
    PROVE  /\ TypeOK' /\ JobsKnown' /\ RightHandler'
           /\ \A i \in Jobs : Ended(i) => told'[i] = told[i]
<1>1. /\ notices' \in [Jobs -> 0 .. MaxNotices]
      /\ \A i \in Jobs : notices'[i] > 0 => notices[i] > 0
  BY OneLess DEF Refuse, Ruled
<1>2. told[j] # "NONE"
  BY DEF Refuse, Ruled, JobsKnown
<1>3. /\ told' \in [Jobs -> Statuses]
      /\ \A i \in Jobs : /\ Ended(i) => told'[i] \in Results /\ told'[i] = told[i]
                         /\ told[i] # "NONE" <=> told'[i] # "NONE"
  BY <1>2 DEF Refuse, Ruled, TypeOK, Statuses, Results, Ended
<1>4. TypeOK'
  BY <1>1, <1>3 DEF Refuse, Ruled, TypeOK, disk, routing
<1> QED
  BY <1>1, <1>3, <1>4, Waits DEF Refuse, routing

LEMMA CreateTyped ==
    ASSUME Ruled, NEW j \in Jobs, Create(j)
    PROVE  /\ TypeOK' /\ JobsKnown' /\ RightHandler'
           /\ \A i \in Jobs : told[i] # "NONE" => i # j /\ kind'[i] = kind[i] /\ told'[i] = told[i]
           /\ \A s \in Threads : ~At(s, "idle") => K(s)' = K(s)
           /\ tree' \in {tree, [tree EXCEPT !["config"] = Gone]}
<1>1. TypeOK /\ told[j] = "NONE" /\ told' = [told EXCEPT ![j] = "QUEUED"] /\ th' = th
  BY DEF Create, Ruled
<1>2. PICK k \in Kinds : /\ kind' = [kind EXCEPT ![j] = k]
                         /\ tree' \in {tree, [tree EXCEPT !["config"] = Gone]}
  <2>1. PICK k \in IF j \in Firmware THEN {"firmware"} ELSE Kinds :
            /\ kind' = [kind EXCEPT ![j] = k]
            /\ tree' \in {tree} \cup IF k = "config" THEN {[tree EXCEPT ![k] = Gone]} ELSE {}
    BY DEF Create
  <2> QED
    BY <2>1 DEF Kinds
<1>3. \A i \in Jobs : told[i] # "NONE" => i # j /\ kind'[i] = kind[i] /\ told'[i] = told[i]
  BY <1>1, <1>2 DEF TypeOK
<1>4. told'[j] = "QUEUED"
  BY <1>1 DEF TypeOK
<1>5. \A i \in Jobs : told'[i] # "NONE" => i = j \/ told[i] # "NONE"
  BY <1>1 DEF TypeOK
<1>6. \A s \in Threads : ~At(s, "idle") => th[s].job \in Jobs /\ told[th[s].job] # "NONE"
  BY DEF Ruled, JobsKnown
<1>7. \A s \in Threads : ~At(s, "idle") => K(s)' = K(s)
  BY <1>1, <1>3, <1>6 DEF K, Kind
<1>8. TypeOK'
  <2>1. notices' \in [Jobs -> 0 .. MaxNotices] /\ missed' \subseteq Jobs
    BY <1>1, SentTyped DEF Create, NotifyNext
  <2>2. told' \in [Jobs -> Statuses]
    BY <1>1 DEF TypeOK, Statuses
  <2>3. tree' \in [Kinds -> Tree]
    BY <1>1, <1>2, FilesTyped DEF TypeOK
  <2>4. kind' \in [Jobs -> Kinds]
    BY <1>1, <1>2 DEF TypeOK
  <2>5. silent' \subseteq Jobs
    BY <1>1 DEF TypeOK, Create
  <2> QED
    BY <1>1, <2>1, <2>2, <2>3, <2>4, <2>5 DEF TypeOK, Create
<1>9. JobsKnown'
  <2>1. \A s \in Threads : ~At(s, "idle")' => th'[s].job \in Jobs /\ told'[th'[s].job] # "NONE"
    BY <1>1, <1>3, <1>6 DEF At
  <2>2. \A i \in Jobs : notices'[i] > 0 => told'[i] # "NONE"
    <3> DEFINE next == {i \in Jobs : IsNext(told', i) /\ ~IsNext(told, i)}
    <3>1. Send(next)
      BY DEF Create, NotifyNext
    <3>2. \A i \in next : told'[i] # "NONE"
      BY DEF IsNext, Pending
    <3>3. \A i \in Jobs : notices[i] > 0 => told[i] # "NONE"
      BY DEF Ruled, JobsKnown
    <3> HIDE DEF next
    <3> QED
      BY <1>1, <1>3, <3>1, <3>2, <3>3, SentTyped
  <2>3. \A i, m \in Jobs : i < m /\ told'[m] # "NONE" => told'[i] \in Results
    <3> SUFFICES ASSUME NEW i \in Jobs, NEW m \in Jobs, i < m, told'[m] # "NONE"
                 PROVE  told'[i] \in Results
      OBVIOUS
    <3>1. Ended(i)
      BY <1>5 DEF Ruled, JobsKnown, Create
    <3> QED
      BY <1>3, <3>1 DEF Ended, Results
  <2> QED
    BY <2>1, <2>2, <2>3 DEF JobsKnown, Ended
<1>10. RightHandler'
  <2>1. ASSUME NEW s \in Threads
        PROVE  Fits(th[s].pc, K(s))'
    <3>1. CASE At(s, "idle")
      BY <1>1, <3>1 DEF Fits, At, Repair
    <3>2. CASE ~At(s, "idle")
      BY <1>1, <1>7, <3>2 DEF Ruled, RightHandler, Fits
    <3> QED
      BY <3>1, <3>2
  <2> QED
    BY <2>1 DEF RightHandler
<1> QED
  BY <1>2, <1>3, <1>7, <1>8, <1>9, <1>10

LEMMA AnswerTyped ==
    ASSUME Ruled, NEW j \in Jobs, AnswerZigbee(j)
    PROVE  /\ TypeOK' /\ JobsKnown' /\ RightHandler'
           /\ \A s \in Threads :
                 /\ th'[s].pc = th[s].pc /\ th'[s].job = th[s].job /\ th'[s].out = th[s].out
                 /\ th'[s].bak = th[s].bak /\ th'[s].snap = th[s].snap /\ th'[s].src = th[s].src
                 /\ th'[s].rolled = th[s].rolled /\ th'[s].was = th[s].was
           /\ \A k \in Kinds \ {"zigbee"} : tree'[k] = tree[k]
           /\ tree'["zigbee"].files \in {tree["zigbee"].files, Written(j)}
<1>1. PICK answer \in {"ok", "error"} :
          /\ tree' = IF answer = "error" THEN tree
                     ELSE [tree EXCEPT !["zigbee"] = [there |-> TRUE, files |-> Written(j)]]
          /\ th' = [t \in Threads |->
                      IF t = listener /\ th[t].pc \in {"request", "await"}
                      THEN [th[t] EXCEPT !.heard = answer] ELSE th[t]]
  BY DEF AnswerZigbee
<1>2. TypeOK /\ [there |-> TRUE, files |-> Written(j)] \in Tree /\ "zigbee" \in Kinds
  BY FilesTyped DEF Ruled, Tree, Kinds
<1>3. \A s \in Threads :
         LET r == [th[s] EXCEPT !.heard = answer] IN
         /\ r \in Thread
         /\ r.pc = th[s].pc /\ r.job = th[s].job /\ r.out = th[s].out
         /\ r.bak = th[s].bak /\ r.snap = th[s].snap /\ r.src = th[s].src
         /\ r.rolled = th[s].rolled /\ r.was = th[s].was
  BY <1>2, ThreadFields DEF Thread
<1>4. /\ th' \in [Threads -> Thread]
      /\ \A s \in Threads :
            /\ th'[s].pc = th[s].pc /\ th'[s].job = th[s].job /\ th'[s].out = th[s].out
            /\ th'[s].bak = th[s].bak /\ th'[s].snap = th[s].snap /\ th'[s].src = th[s].src
            /\ th'[s].rolled = th[s].rolled /\ th'[s].was = th[s].was
  BY <1>1, <1>2, <1>3 DEF TypeOK
<1>5. /\ tree' \in [Kinds -> Tree] /\ \A k \in Kinds \ {"zigbee"} : tree'[k] = tree[k]
      /\ tree'["zigbee"].files \in {tree["zigbee"].files, Written(j)}
  BY <1>1, <1>2 DEF TypeOK
<1>6. TypeOK'
  BY <1>2, <1>4, <1>5 DEF TypeOK, AnswerZigbee, said
<1>7. JobsKnown'
  BY <1>4 DEF Ruled, JobsKnown, AnswerZigbee, said, At, Ended
<1>8. RightHandler'
  BY <1>4 DEF Ruled, RightHandler, Fits, K, Kind, AnswerZigbee
<1> QED
  BY <1>4, <1>5, <1>6, <1>7, <1>8

LEMMA DiesTyped ==
    ASSUME Ruled, Dies
    PROVE  /\ th' \in [Threads -> Thread] /\ \A s \in Threads : th'[s] = Idle
           /\ tmp' \in [Jobs -> Download] /\ dest' \in [Jobs -> Download]
           /\ listener' = NoThread /\ RightHandler'
<1>1. \A s \in Threads : th'[s] = Idle /\ th'[s].pc = "idle"
  BY IdleTyped DEF Dies
<1>2. th' \in [Threads -> Thread]
  BY IdleTyped DEF Dies
<1>3. tmp' \in [Jobs -> Download] /\ dest' \in [Jobs -> Download]
  BY DEF Dies, Ruled, TypeOK, Download
<1>4. RightHandler'
  BY <1>1 DEF RightHandler, Fits, Repair
<1> QED
  BY <1>1, <1>2, <1>3, <1>4 DEF Dies

LEMMA ShutdownTyped ==
    ASSUME Ruled, Shutdown
    PROVE  TypeOK' /\ JobsKnown' /\ RightHandler' /\ \A s \in Threads : th'[s] = Idle
<1>1. Dies
  BY DEF Shutdown
<1>2. TypeOK'
  BY <1>1, DiesTyped DEF Ruled, TypeOK, Shutdown, disk, said
<1>3. JobsKnown'
  BY <1>1, DiesTyped, IdleTyped DEF Ruled, JobsKnown, Shutdown, said, At, Ended
<1> QED
  BY <1>1, <1>2, <1>3, DiesTyped

LEMMA CrashTyped ==
    ASSUME Ruled, Crash
    PROVE  TypeOK' /\ JobsKnown' /\ RightHandler' /\ \A s \in Threads : th'[s] = Idle
<1>1. TypeOK /\ Dies
  BY DEF Ruled, Crash
<1>2. TypeOK'
  <2>1. notices' \in [Jobs -> 0 .. MaxNotices] /\ missed' \subseteq Jobs
    BY AgentAssumption DEF Crash
  <2>2. crashes' \in 0 .. MaxCrashes
    BY <1>1, AgentAssumption DEF Crash, TypeOK
  <2> QED
    BY <1>1, <2>1, <2>2, DiesTyped DEF Crash, Started, TypeOK, disk, said
<1>3. JobsKnown'
  <2>1. \A j \in Jobs : notices'[j] > 0 => told[j] # "NONE"
    BY DEF Crash, IsNext, Pending
  <2> QED
    BY <1>1, <2>1, DiesTyped, IdleTyped DEF Ruled, JobsKnown, Crash, said, At, Ended
<1> QED
  BY <1>1, <1>2, <1>3, DiesTyped

LEMMA StepTyped ==
    ASSUME Ruled, NEW t \in Threads, Step(t)
    PROVE  Ruled'
<1>1. CASE UnlinkTmp(t)
  BY <1>1, UnlinkTmpTyped DEF Ruled
<1>2. CASE OpenTmp(t)
  BY <1>2, OpenTmpTyped DEF Ruled
<1>3. CASE StreamDone(t)
  BY <1>3, StreamDoneTyped DEF Ruled
<1>4. CASE StreamFails(t)
  BY <1>4, StreamFailsTyped DEF Ruled
<1>5. CASE Verify(t)
  BY <1>5, VerifyTyped DEF Ruled
<1>6. CASE MoveTmp(t)
  BY <1>6, MoveTmpTyped DEF Ruled
<1>7. CASE BackupStart(t)
  BY <1>7, BackupStartTyped DEF Ruled
<1>8. CASE BackupDone(t)
  BY <1>8, BackupDoneTyped DEF Ruled
<1>9. CASE BackupFails(t)
  BY <1>9, BackupFailsTyped DEF Ruled
<1>10. CASE StopService(t)
  BY <1>10, StopServiceTyped DEF Ruled
<1>11. CASE ClearDriver(t)
  BY <1>11, ClearDriverTyped DEF Ruled
<1>12. CASE InstallStart(t)
  BY <1>12, InstallStartTyped DEF Ruled
<1>13. CASE InstallDone(t)
  BY <1>13, InstallDoneTyped DEF Ruled
<1>14. CASE StartService(t)
  BY <1>14, StartServiceTyped DEF Ruled
<1>15. CASE HealthCheck(t)
  BY <1>15, HealthCheckTyped DEF Ruled
<1>16. CASE Rollback(t)
  BY <1>16, RollbackTyped DEF Ruled
<1>17. CASE RestoreStart(t)
  BY <1>17, RestoreStartTyped DEF Ruled
<1>18. CASE RestoreDone(t)
  BY <1>18, RestoreDoneTyped DEF Ruled
<1>19. CASE RestartService(t)
  BY <1>19, RestartServiceTyped DEF Ruled
<1>20. CASE BackupFileStart(t)
  BY <1>20, BackupFileStartTyped DEF Ruled
<1>21. CASE BackupFileDone(t)
  BY <1>21, BackupFileDoneTyped DEF Ruled
<1>22. CASE ApplyConfig(t)
  BY <1>22, ApplyConfigTyped DEF Ruled
<1>23. CASE RestoreFileStart(t)
  BY <1>23, RestoreFileStartTyped DEF Ruled
<1>24. CASE RestoreFileDone(t)
  BY <1>24, RestoreFileDoneTyped DEF Ruled
<1>25. CASE StageZigbee(t)
  BY <1>25, StageZigbeeTyped DEF Ruled
<1>26. CASE Listen(t)
  BY <1>26, ListenTyped DEF Ruled
<1>27. CASE RequestZigbee(t)
  BY <1>27, RequestZigbeeTyped DEF Ruled
<1>28. CASE Answered(t)
  BY <1>28, AnsweredTyped DEF Ruled
<1>29. CASE ZigbeeTimeout(t)
  BY <1>29, ZigbeeTimeoutTyped DEF Ruled
<1>30. CASE Unlisten(t)
  BY <1>30, UnlistenTyped DEF Ruled
<1>31. CASE SaveVersions(t)
  BY <1>31, SaveVersionsTyped DEF Ruled
<1>32. CASE Report(t)
  BY <1>32, ReportTyped DEF Ruled
<1>33. CASE Cleanup(t)
  BY <1>33, CleanupTyped DEF Ruled
<1>34. CASE NextJob(t)
  BY <1>34, NextJobTyped DEF Ruled
<1> QED
  BY <1>1, <1>2, <1>3, <1>4, <1>5, <1>6, <1>7, <1>8, <1>9, <1>10, <1>11, <1>12, <1>13, <1>14, <1>15, <1>16, <1>17, <1>18, <1>19, <1>20, <1>21, <1>22, <1>23, <1>24, <1>25, <1>26, <1>27, <1>28, <1>29, <1>30, <1>31, <1>32, <1>33, <1>34 DEF Step

LEMMA InitTyped == Init => Ruled
<1> SUFFICES ASSUME Init PROVE Ruled
  OBVIOUS
<1>1. TypeOK
  <2>1. "NONE" \in Statuses /\ "firmware" \in Kinds
    BY DEF Statuses, Kinds
  <2>2. <<>> \in Seq(Backup)
    OBVIOUS
  <2> QED
    BY <2>1, <2>2, IdleTyped, FilesTyped, AgentAssumption DEF Init, TypeOK
<1>2. \A t \in Threads : th[t].pc = "idle"
  BY IdleTyped DEF Init
<1>3. JobsKnown
  BY <1>2 DEF Init, JobsKnown, At
<1>4. RightHandler
  BY <1>2 DEF RightHandler, Fits, Repair
<1> QED
  BY <1>1, <1>3, <1>4 DEF Ruled

LEMMA NextTyped ==
    ASSUME Ruled, [Next]_vars
    PROVE  Ruled'
<1>1. CASE UNCHANGED vars
  BY <1>1 DEF Ruled, TypeOK, JobsKnown, RightHandler, vars, shared, routing, At, K, Kind, Ended
<1>2. ASSUME NEW j \in Jobs, Create(j) \/ Unheard(j) \/ AnswerZigbee(j)
      PROVE  Ruled'
  BY <1>2, CreateTyped, UnheardTyped, AnswerTyped DEF Ruled
<1>3. ASSUME NEW t \in Threads, Step(t)
      PROVE  Ruled'
  BY <1>3, StepTyped
<1>4. ASSUME NEW t \in Threads, NEW j \in Jobs, Receive(t, j) \/ Refuse(t, j)
      PROVE  Ruled'
  BY <1>4, ReceiveTyped, RefuseTyped DEF Ruled
<1>5. CASE Shutdown \/ Crash
  BY <1>5, ShutdownTyped, CrashTyped DEF Ruled
<1> QED
  BY <1>1, <1>2, <1>3, <1>4, <1>5 DEF Next, Lose, Ignore, Overhear

LEMMA RuledAlways == Spec => []Ruled
<1>1. Init => Ruled
  BY InitTyped
<1>2. Ruled /\ [Next]_vars => Ruled'
  BY NextTyped
<1> QED
  BY <1>1, <1>2, PTL DEF Spec

(* The agent's variables keep their types: every step finds the job, the   *)
(* backup and the file that it works on (ota_agent.py, handlers/).         *)
THEOREM AgentTyped == Spec => []TypeOK
  BY RuledAlways, PTL DEF Ruled

----------------------------------------------------------------------------
(* The service comes back                                                  *)

LEMMA ServiceFrame ==
    ASSUME ServiceKept, NEW t \in Threads, UNCHANGED <<kind, alarms>>,
           agent' \in {agent, "stopping"},
           \A s \in Threads \ {t} : th'[s] = th[s],
           Repairs(t) => svc' \/ Repairs(t)', svc => svc' \/ Repairs(t)'
    PROVE  ServiceKept'
<1>1. CASE svc \/ agent # "up" \/ alarms # {}
  BY <1>1 DEF ServiceKept
<1>2. CASE Repairs(t)
  BY <1>2 DEF ServiceKept
<1>3. ASSUME NEW s \in Threads \ {t}, Repairs(s)
      PROVE  ServiceKept'
  BY <1>3 DEF ServiceKept, Repairs, At, K, Kind
<1> QED
  BY <1>1, <1>2, <1>3 DEF ServiceKept

LEMMA StepService ==
    ASSUME Ruled, ServiceKept, NEW t \in Threads, Step(t)
    PROVE  ServiceKept'
<1> DEFINE Left == Repairs(t) => svc' \/ Repairs(t)'
           Stopped == svc => svc' \/ Repairs(t)'
<1>0. TypeOK
  BY DEF Ruled
<1>1. CASE UnlinkTmp(t)
  <2>1. Left
    BY <1>1 DEF UnlinkTmp, Repairs, Repair, At
  <2>2. Stopped
    BY <1>1 DEF UnlinkTmp, shared
  <2> QED
    BY <1>1, <2>1, <2>2, UnlinkTmpTyped, ServiceFrame DEF UnlinkTmp, Went, shared, routing, said
<1>2. CASE OpenTmp(t)
  <2>1. Left
    BY <1>2 DEF OpenTmp, Repairs, Repair, At
  <2>2. Stopped
    BY <1>2 DEF OpenTmp, shared
  <2> QED
    BY <1>2, <2>1, <2>2, OpenTmpTyped, ServiceFrame DEF OpenTmp, Went, shared, routing, said
<1>3. CASE StreamDone(t)
  <2>1. Left
    BY <1>3 DEF StreamDone, Repairs, Repair, At
  <2>2. Stopped
    BY <1>3 DEF StreamDone, shared
  <2> QED
    BY <1>3, <2>1, <2>2, StreamDoneTyped, ServiceFrame DEF StreamDone, Went, shared, routing, said
<1>4. CASE StreamFails(t)
  <2>1. Left
    BY <1>4 DEF StreamFails, Repairs, Repair, At
  <2>2. Stopped
    BY <1>4 DEF StreamFails, shared
  <2> QED
    BY <1>4, <2>1, <2>2, StreamFailsTyped, ServiceFrame DEF StreamFails, Went, shared, routing, said
<1>5. CASE Verify(t)
  <2>1. Left
    BY <1>5 DEF Verify, Repairs, Repair, At
  <2>2. Stopped
    BY <1>5 DEF Verify, shared
  <2> QED
    BY <1>5, <2>1, <2>2, VerifyTyped, ServiceFrame DEF Verify, Went, shared, routing, said
<1>6. CASE MoveTmp(t)
  <2>1. Left
    BY <1>6 DEF MoveTmp, Repairs, Repair, At
  <2>2. Stopped
    BY <1>6 DEF MoveTmp, shared
  <2> QED
    BY <1>6, <2>1, <2>2, MoveTmpTyped, ServiceFrame DEF MoveTmp, Went, shared, routing, said
<1>7. CASE BackupStart(t)
  <2>1. Left
    BY <1>7 DEF BackupStart, Repairs, Repair, At
  <2>2. Stopped
    BY <1>7 DEF BackupStart, shared
  <2> QED
    BY <1>7, <2>1, <2>2, BackupStartTyped, ServiceFrame DEF BackupStart, Went, shared, routing, said
<1>8. CASE BackupDone(t)
  <2>1. Left
    BY <1>8 DEF BackupDone, Repairs, Repair, At
  <2>2. Stopped
    BY <1>8 DEF BackupDone, shared
  <2> QED
    BY <1>8, <2>1, <2>2, BackupDoneTyped, ServiceFrame DEF BackupDone, Went, shared, routing, said
<1>9. CASE BackupFails(t)
  <2>1. Left
    BY <1>9 DEF BackupFails, Repairs, Repair, At
  <2>2. Stopped
    BY <1>9 DEF BackupFails, shared
  <2> QED
    BY <1>9, <2>1, <2>2, BackupFailsTyped, ServiceFrame DEF BackupFails, Went, shared, routing, said
<1>10. CASE StopService(t)
  <2>1. Left
    BY <1>10, StopServiceTyped, JobOf DEF StopService, Repairs, Repair, At, Went, K, Kind, routing
  <2>2. Stopped
    BY <1>10, StopServiceTyped, JobOf DEF StopService, Repairs, Repair, At, Went, K, Kind, Fits, routing
  <2> QED
    BY <1>10, <2>1, <2>2, StopServiceTyped, ServiceFrame DEF StopService, Went, shared, routing, said
<1>11. CASE ClearDriver(t)
  <2>1. Left
    BY <1>11 DEF ClearDriver, Repairs, Repair, At
  <2>2. Stopped
    BY <1>11 DEF ClearDriver, shared
  <2> QED
    BY <1>11, <2>1, <2>2, ClearDriverTyped, ServiceFrame DEF ClearDriver, Went, shared, routing, said
<1>12. CASE InstallStart(t)
  <2>1. Left
    BY <1>12, InstallStartTyped, JobOf DEF InstallStart, Repairs, Repair, At, Went, K, Kind, routing
  <2>2. Stopped
    BY <1>12, InstallStartTyped, JobOf DEF InstallStart, Repairs, Repair, At, Went, K, Kind, Fits, routing
  <2> QED
    BY <1>12, <2>1, <2>2, InstallStartTyped, ServiceFrame DEF InstallStart, Went, shared, routing, said
<1>13. CASE InstallDone(t)
  <2>1. Left
    BY <1>13, InstallDoneTyped, JobOf DEF InstallDone, Repairs, Repair, At, Went, K, Kind, routing
  <2>2. Stopped
    BY <1>13, InstallDoneTyped, JobOf DEF InstallDone, Repairs, Repair, At, Went, K, Kind, Fits, routing
  <2> QED
    BY <1>13, <2>1, <2>2, InstallDoneTyped, ServiceFrame DEF InstallDone, Went, shared, routing, said
<1>14. CASE StartService(t)
  <2>1. Left
    <3>1. ASSUME Goto(t, "rollback"), K(t) = "firmware"
          PROVE  Repairs(t)'
      BY <1>0, <1>14, <3>1, GoesOn DEF StartService, Repairs, Repair, Went, K, Kind, routing, Pc
    <3> QED
      BY <1>14, <3>1 DEF StartService, Repairs
  <2>2. Stopped
    BY <1>14, StartServiceTyped, JobOf DEF StartService, Repairs, Repair, At, Went, K, Kind, Fits, routing
  <2> QED
    BY <1>14, <2>1, <2>2, StartServiceTyped, ServiceFrame DEF StartService, Went, shared, routing, said
<1>15. CASE HealthCheck(t)
  <2>1. Left
    BY <1>15 DEF HealthCheck, Repairs, Repair, At
  <2>2. Stopped
    BY <1>15 DEF HealthCheck, shared
  <2> QED
    BY <1>15, <2>1, <2>2, HealthCheckTyped, ServiceFrame DEF HealthCheck, Went, shared, routing, said
<1>16. CASE Rollback(t)
  <2>1. Left
    <3>1. ASSUME RollbackFails(t), K(t) = "firmware"
          PROVE  Repairs(t)'
      <4>1. Recovery(t)
        BY <3>1 DEF RollbackFails
      <4> QED
        BY <1>0, <1>16, <3>1, <4>1, GoesOn, ThreadFields DEF Repairs, Went, At, K, Kind, Rollback, routing
    <3>2. ASSUME Went(t, Repair), K(t) = "firmware"
          PROVE  Repairs(t)'
      BY <1>16, <3>2 DEF Repairs, Went, K, Kind, Rollback, routing
    <3>3. RollbackFails(t) \/ Went(t, Repair)
      BY <1>0, <1>16, GoesOn DEF Rollback, Repair, Pc, Went
    <3> QED
      BY <3>1, <3>2, <3>3 DEF Repairs
  <2>2. Stopped
    BY <1>16 DEF Rollback
  <2> QED
    BY <1>16, <2>1, <2>2, RollbackTyped, ServiceFrame DEF Rollback, Went, shared, routing, said
<1>17. CASE RestoreStart(t)
  <2>1. Left
    <3>1. ASSUME RollbackFails(t), K(t) = "firmware"
          PROVE  Repairs(t)'
      <4>1. Recovery(t)
        BY <3>1 DEF RollbackFails
      <4> QED
        BY <1>0, <1>17, <3>1, <4>1, GoesOn, ThreadFields DEF Repairs, Went, At, K, Kind, RestoreStart, routing
    <3>2. ASSUME Went(t, Repair), K(t) = "firmware"
          PROVE  Repairs(t)'
      BY <1>17, <3>2 DEF Repairs, Went, K, Kind, RestoreStart, routing
    <3>3. RollbackFails(t) \/ Went(t, Repair)
      BY <1>0, <1>17, GoesOn DEF RestoreStart, Repair, Pc, Went
    <3> QED
      BY <3>1, <3>2, <3>3 DEF Repairs
  <2>2. Stopped
    BY <1>17 DEF RestoreStart
  <2> QED
    BY <1>17, <2>1, <2>2, RestoreStartTyped, ServiceFrame DEF RestoreStart, Went, shared, routing, said
<1>18. CASE RestoreDone(t)
  <2>1. Left
    <3>1. ASSUME RollbackFails(t), K(t) = "firmware"
          PROVE  Repairs(t)'
      <4>1. Recovery(t)
        BY <3>1 DEF RollbackFails
      <4> QED
        BY <1>0, <1>18, <3>1, <4>1, GoesOn, ThreadFields DEF Repairs, Went, At, K, Kind, RestoreDone, routing
    <3>2. ASSUME Went(t, Repair), K(t) = "firmware"
          PROVE  Repairs(t)'
      BY <1>18, <3>2 DEF Repairs, Went, K, Kind, RestoreDone, routing
    <3>3. RollbackFails(t) \/ Went(t, Repair)
      BY <1>0, <1>18, GoesOn DEF RestoreDone, Repair, Pc, Went
    <3> QED
      BY <3>1, <3>2, <3>3 DEF Repairs
  <2>2. Stopped
    BY <1>18 DEF RestoreDone
  <2> QED
    BY <1>18, <2>1, <2>2, RestoreDoneTyped, ServiceFrame DEF RestoreDone, Went, shared, routing, said
<1>19. CASE RestartService(t)
  <2>1. Left
    <3>1. ASSUME Recovery(t), K(t) = "firmware"
          PROVE  Repairs(t)'
      BY <1>0, <1>19, <3>1, GoesOn DEF Repairs, Went, At, K, Kind, RestartService, routing
    <3> QED
      BY <1>19, <3>1 DEF RestartService, Repairs
  <2>2. Stopped
    <3>1. ASSUME Recovery(t), K(t) = "firmware"
          PROVE  Repairs(t)'
      BY <1>0, <1>19, <3>1, GoesOn DEF Repairs, Went, At, K, Kind, RestartService, routing
    <3> QED
      BY <1>19, <3>1 DEF RestartService
  <2> QED
    BY <1>19, <2>1, <2>2, RestartServiceTyped, ServiceFrame DEF RestartService, Went, shared, routing, said
<1>20. CASE BackupFileStart(t)
  <2>1. Left
    BY <1>20 DEF BackupFileStart, Repairs, Repair, At
  <2>2. Stopped
    BY <1>20 DEF BackupFileStart, shared
  <2> QED
    BY <1>20, <2>1, <2>2, BackupFileStartTyped, ServiceFrame DEF BackupFileStart, Went, shared, routing, said
<1>21. CASE BackupFileDone(t)
  <2>1. Left
    BY <1>21 DEF BackupFileDone, Repairs, Repair, At
  <2>2. Stopped
    BY <1>21 DEF BackupFileDone, shared
  <2> QED
    BY <1>21, <2>1, <2>2, BackupFileDoneTyped, ServiceFrame DEF BackupFileDone, Went, shared, routing, said
<1>22. CASE ApplyConfig(t)
  <2>1. Left
    BY <1>22 DEF ApplyConfig, Repairs, Repair, At
  <2>2. Stopped
    BY <1>22 DEF ApplyConfig, shared
  <2> QED
    BY <1>22, <2>1, <2>2, ApplyConfigTyped, ServiceFrame DEF ApplyConfig, Went, shared, routing, said
<1>23. CASE RestoreFileStart(t)
  <2>1. Left
    BY <1>23 DEF RestoreFileStart, Repairs, Repair, At
  <2>2. Stopped
    BY <1>23 DEF RestoreFileStart, shared
  <2> QED
    BY <1>23, <2>1, <2>2, RestoreFileStartTyped, ServiceFrame DEF RestoreFileStart, Went, shared, routing, said
<1>24. CASE RestoreFileDone(t)
  <2>1. Left
    BY <1>24 DEF RestoreFileDone, Repairs, Repair, At
  <2>2. Stopped
    BY <1>24 DEF RestoreFileDone, shared
  <2> QED
    BY <1>24, <2>1, <2>2, RestoreFileDoneTyped, ServiceFrame DEF RestoreFileDone, Went, shared, routing, said
<1>25. CASE StageZigbee(t)
  <2>1. Left
    BY <1>25 DEF StageZigbee, Repairs, Repair, At
  <2>2. Stopped
    BY <1>25 DEF StageZigbee, shared
  <2> QED
    BY <1>25, <2>1, <2>2, StageZigbeeTyped, ServiceFrame DEF StageZigbee, Went, shared, routing, said
<1>26. CASE Listen(t)
  <2>1. Left
    BY <1>26 DEF Listen, Repairs, Repair, At
  <2>2. Stopped
    BY <1>26 DEF Listen, shared
  <2> QED
    BY <1>26, <2>1, <2>2, ListenTyped, ServiceFrame DEF Listen, Went, shared, routing, said
<1>27. CASE RequestZigbee(t)
  <2>1. Left
    BY <1>27 DEF RequestZigbee, Repairs, Repair, At
  <2>2. Stopped
    BY <1>27 DEF RequestZigbee, shared
  <2> QED
    BY <1>27, <2>1, <2>2, RequestZigbeeTyped, ServiceFrame DEF RequestZigbee, Went, shared, routing, said
<1>28. CASE Answered(t)
  <2>1. Left
    BY <1>28 DEF Answered, Repairs, Repair, At
  <2>2. Stopped
    BY <1>28 DEF Answered, shared
  <2> QED
    BY <1>28, <2>1, <2>2, AnsweredTyped, ServiceFrame DEF Answered, Went, shared, routing, said
<1>29. CASE ZigbeeTimeout(t)
  <2>1. Left
    BY <1>29 DEF ZigbeeTimeout, Repairs, Repair, At
  <2>2. Stopped
    BY <1>29 DEF ZigbeeTimeout, shared
  <2> QED
    BY <1>29, <2>1, <2>2, ZigbeeTimeoutTyped, ServiceFrame DEF ZigbeeTimeout, Went, shared, routing, said
<1>30. CASE Unlisten(t)
  <2>1. Left
    BY <1>30 DEF Unlisten, Repairs, Repair, At
  <2>2. Stopped
    BY <1>30 DEF Unlisten, shared
  <2> QED
    BY <1>30, <2>1, <2>2, UnlistenTyped, ServiceFrame DEF Unlisten, Went, shared, routing, said
<1>31. CASE SaveVersions(t)
  <2>1. Left
    BY <1>31 DEF SaveVersions, Repairs, Repair, At
  <2>2. Stopped
    BY <1>31 DEF SaveVersions, shared
  <2> QED
    BY <1>31, <2>1, <2>2, SaveVersionsTyped, ServiceFrame DEF SaveVersions, Went, shared, routing, said
<1>32. CASE Report(t)
  <2>1. CASE th[t].out = "NEEDS_RECOVERY"
    <3>1. alarms' # {} \/ (agent' = agent /\ agent # "up")
      BY <1>32, <2>1 DEF Report
    <3> QED
      BY <3>1 DEF ServiceKept
  <2>2. CASE th[t].out # "NEEDS_RECOVERY"
    <3>1. ~Repairs(t)
      BY <1>32, <2>2 DEF Repairs, Report, At, Repair
    <3> QED
      BY <1>32, <2>2, <3>1, ReportTyped, ServiceFrame DEF Report, Went, said
  <2> QED
    BY <2>1, <2>2
<1>33. CASE Cleanup(t)
  <2>1. Left
    BY <1>33 DEF Cleanup, Repairs, Repair, At
  <2>2. Stopped
    BY <1>33 DEF Cleanup, shared
  <2> QED
    BY <1>33, <2>1, <2>2, CleanupTyped, ServiceFrame DEF Cleanup, Went, shared, routing, said
<1>34. CASE NextJob(t)
  <2>1. Left
    BY <1>34 DEF NextJob, Repairs, Repair, At
  <2>2. Stopped
    BY <1>34 DEF NextJob, shared
  <2> QED
    BY <1>34, <2>1, <2>2, NextJobTyped, ServiceFrame DEF NextJob, shared, routing, said
<1> QED
  BY <1>1, <1>2, <1>3, <1>4, <1>5, <1>6, <1>7, <1>8, <1>9, <1>10, <1>11, <1>12, <1>13, <1>14, <1>15, <1>16, <1>17, <1>18, <1>19, <1>20, <1>21, <1>22, <1>23, <1>24, <1>25, <1>26, <1>27, <1>28, <1>29, <1>30, <1>31, <1>32, <1>33, <1>34 DEF Step

LEMMA NextService ==
    ASSUME Ruled, ServiceKept, [Next]_vars
    PROVE  ServiceKept'
<1>1. CASE UNCHANGED vars
  BY <1>1 DEF ServiceKept, Repairs, At, K, Kind, vars, shared, routing
<1>2. ASSUME NEW j \in Jobs, Create(j) \/ Unheard(j) \/ AnswerZigbee(j)
      PROVE  ServiceKept'
  <2>1. UNCHANGED <<svc, alarms, agent>>
    BY <1>2 DEF Create, Unheard, AnswerZigbee, said
  <2>2. ASSUME NEW s \in Threads, Repairs(s)
        PROVE  Repairs(s)'
    <3>1. ~At(s, "idle")
      BY <2>2 DEF Repairs, Repair, At
    <3>2. CASE Create(j)
      BY <2>2, <3>1, <3>2, CreateTyped DEF Repairs, Create, At
    <3>3. CASE Unheard(j)
      BY <2>2, <3>3 DEF Repairs, Unheard, At, K, Kind
    <3>4. CASE AnswerZigbee(j)
      BY <2>2, <3>4, AnswerTyped DEF Repairs, AnswerZigbee, At, K, Kind
    <3> QED
      BY <1>2, <3>2, <3>3, <3>4
  <2> QED
    BY <2>1, <2>2 DEF ServiceKept
<1>3. ASSUME NEW t \in Threads, Step(t)
      PROVE  ServiceKept'
  BY <1>3, StepService
<1>4. ASSUME NEW t \in Threads, NEW j \in Jobs, Receive(t, j)
      PROVE  ServiceKept'
  <2>1. ~Repairs(t) /\ svc' = svc /\ UNCHANGED <<kind, alarms, agent>>
    BY <1>4 DEF Repairs, Receive, At, Repair, routing
  <2> QED
    BY <1>4, <2>1, ReceiveTyped, ServiceFrame
<1>5. ASSUME NEW t \in Threads, NEW j \in Jobs, Refuse(t, j)
      PROVE  ServiceKept'
  BY <1>5 DEF Refuse, ServiceKept, Repairs, At, K, Kind, routing
<1>6. CASE Shutdown \/ Crash
  BY <1>6 DEF Shutdown, Crash, Started, ServiceKept
<1> QED
  BY <1>1, <1>2, <1>3, <1>4, <1>5, <1>6 DEF Next, Lose, Ignore, Overhear

(* When an agent that is up has nothing left to do, the controller runs,   *)
(* unless the agent has published that somebody has to repair it: whatever *)
(* fails, however many threads stop and start the service at a time, and   *)
(* whenever the agent died before (firmware_handler.handle, _rollback,     *)
(* ota_agent._handle_job).  It says nothing of an agent that systemd has   *)
(* stopped with the controller, or could not start: those stay down.       *)
THEOREM ServiceComesBack == Spec => []ServiceBack
<1>1. Init => ServiceKept
  BY DEF Init, ServiceKept
<1>2. Ruled /\ ServiceKept /\ [Next]_vars => ServiceKept'
  BY NextService
<1>3. ServiceKept => ServiceBack
  BY DEF ServiceKept, ServiceBack, AtRest, Repairs, At, Repair
<1> QED
  BY <1>1, <1>2, <1>3, RuledAlways, PTL DEF Spec
=============================================================================
