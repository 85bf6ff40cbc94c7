----------------------- MODULE PackageCatalog_proofs -----------------------
(***************************************************************************)
(* Proofs about PackageCatalog, for every number of versions, of           *)
(* artefacts, of concurrent invocations and of uploads.                    *)
(***************************************************************************)
EXTENDS PackageCatalog, TLAPS

LEMMA IdleTyped == Idle \in Invocation /\ Idle.pc = "idle" /\ Idle.op = "event"
  BY DEF Idle, Invocation, Pc

LEMMA EmptyTyped ==
    /\ NoRow \in Package /\ NoRow.status = "NONE" /\ NoRow.token = 0
    /\ NoObject \in Object /\ NoObject.token = 0 /\ NoObject.data = NoData
  BY DEF NoRow, Package, Status, NoObject, Object

(* Worker w goes on as r, and no other moves.                              *)
LEMMA Moves ==
    ASSUME TypeOK, NEW w \in Workers, NEW r \in Invocation, Become(w, r)
    PROVE  /\ inv' \in [Workers -> Invocation]
           /\ inv'[w] = r
           /\ \A x \in Workers \ {w} : inv'[x] = inv[x]
  BY DEF TypeOK, Become

----------------------------------------------------------------------------
(* Types                                                                   *)

NamedRow(row) == row.status = "PENDING" => row.token # 0
NamedWorker(i) ==
    /\ i.pc # "idle" => i.ver \in Versions
    /\ i.pc \in {"putRow", "complete"} => i.token # 0

(* An invocation as a handler may leave it.                                *)
Handlers == {i \in Invocation : NamedWorker(i)}
Rows == {row \in Package : NamedRow(row)}

LEMMA IdleHandler == Idle \in Handlers
  BY IdleTyped DEF Handlers, NamedWorker

LEMMA EmptyRow == NoRow \in Rows
  BY EmptyTyped DEF Rows, NamedRow

(* TypeOK, and what it leaves out and every step needs: a row that is      *)
(* PENDING has a token, a handler names a version, and an upload its token.*)
Typed ==
    /\ TypeOK
    /\ pkgs \in [Versions -> Rows]
    /\ inv \in [Workers -> Handlers]
    /\ \A t \in Tokens : grants[t].state # "none" => grants[t].ver \in Versions

(* A handler that is running, and one that starts.                         *)
LEMMA Running ==
    ASSUME Typed, NEW w \in Workers, ~At(w, "idle")
    PROVE  inv[w] \in Invocation /\ inv[w].ver \in Versions
  BY DEF Typed, Handlers, NamedWorker, At

(* A step that changes nothing but the row of one version, objects,        *)
(* the order and what one worker does keeps the types.                     *)
LEMMA TypedStep ==
    ASSUME Typed, NEW w \in Workers, NEW r \in Handlers, Become(w, r),
           pkgs' \in [Versions -> Rows], raw' \in [Versions -> Object],
           events' \in [Versions -> 0 .. MaxEvents],
           order' \subseteq Versions \X Versions, failed' \in BOOLEAN,
           UNCHANGED <<grants, issued>>
    PROVE  Typed'
<1>1. inv' \in [Workers -> Handlers]
  BY DEF Typed, TypeOK, Become
<1>2. /\ grants' \in [Tokens -> Grant] /\ issued' \in 0 .. MaxUploads
      /\ \A t \in Tokens : grants'[t].state # "none" => grants'[t].ver \in Versions
  BY DEF Typed, TypeOK
<1>3. pkgs' \in [Versions -> Package] /\ inv' \in [Workers -> Invocation]
  BY <1>1 DEF Rows, Handlers
<1> QED
  BY <1>1, <1>2, <1>3 DEF Typed, TypeOK

(* A running handler that goes on at another call.                         *)
LEMMA TypedGoto ==
    ASSUME Typed, NEW w \in Workers, ~At(w, "idle"),
           NEW pc \in Pc \ {"putRow", "complete"}
    PROVE  [inv[w] EXCEPT !.pc = pc] \in Handlers
<1>1. inv[w] \in Invocation /\ inv[w].ver \in Versions
  BY Running
<1>2. [inv[w] EXCEPT !.pc = pc] \in Invocation
  BY <1>1 DEF Invocation
<1>3. /\ [inv[w] EXCEPT !.pc = pc].pc = pc
      /\ [inv[w] EXCEPT !.pc = pc].ver = inv[w].ver
  BY <1>1 DEF Invocation
<1> QED
  BY <1>1, <1>2, <1>3 DEF Handlers, NamedWorker

(* A write of the row of one version.                                      *)
LEMMA TypedRow ==
    ASSUME Typed, NEW v \in Versions, NEW row \in Rows,
           pkgs' = [pkgs EXCEPT ![v] = row]
    PROVE  pkgs' \in [Versions -> Rows]
  BY DEF Typed

LEMMA TypedStatus ==
    ASSUME Typed, NEW v \in Versions, NEW s \in Status \ {"PENDING"}, SetStatus(v, s)
    PROVE  pkgs' \in [Versions -> Rows]
<1>1. pkgs[v] \in Rows
  BY DEF Typed
<1>2. [pkgs[v] EXCEPT !.status = s] \in Rows
  BY <1>1 DEF Rows, Package, NamedRow
<1> QED
  BY <1>2 DEF SetStatus, Typed

LEMMA TypedDelete ==
    ASSUME Typed, NEW v \in Versions, DeleteRaw(v)
    PROVE  raw' \in [Versions -> Object] /\ failed' \in BOOLEAN
  BY EmptyTyped DEF Typed, TypeOK, DeleteRaw, Fails

LEMMA TypedOrder ==
    ASSUME Typed, NEW v \in Versions, Activated(v)
    PROVE  order' \subseteq Versions \X Versions
  BY DEF Typed, TypeOK, Activated

LEMMA TypedSupersede ==
    ASSUME Typed, NEW u \in Versions, SupersedeOne(u)
    PROVE  pkgs' \in [Versions -> Rows] /\ failed' \in BOOLEAN
<1>1. "SUPERSEDED" \in Status \ {"PENDING"}
  BY DEF Status
<1> QED
  BY <1>1, TypedStatus DEF SupersedeOne, Fails, Typed, TypeOK

LEMMA InitTyped == ASSUME Init PROVE Typed
<1>1. NoGrant \in Grant
  BY DEF NoGrant, Grant
<1>2. TypeOK
  <2>1. 0 \in 0 .. MaxUploads /\ 0 \in 0 .. MaxEvents
    BY CatalogAssumption
  <2>2. order \subseteq Versions \X Versions
    BY DEF Init
  <2> QED
    BY <1>1, <2>1, <2>2, IdleTyped, EmptyTyped DEF Init, TypeOK
<1> QED
  BY <1>2, IdleHandler, EmptyRow DEF Init, Typed, NoGrant
(* The requests that read a row and begin.                                 *)
LEMMA TypedStart ==
    ASSUME Typed, NEW w \in Workers, NEW v \in Versions,
           \/ \E c \in Channels, sum \in Data, multi \in BOOLEAN : UploadStart(w, v, c, sum, multi)
           \/ CompleteStart(w, v) \/ ProcessStart(w, v)
           \/ RecallStart(w, v) \/ PromoteStart(w, v) \/ RestoreStart(w, v)
           \/ ToggleStart(w, v) \/ DeleteStart(w, v)
    PROVE  Typed'
<1>1. pkgs[v] \in Rows /\ pkgs[v] \in Package
  BY DEF Typed, TypeOK
<1>2. CASE \E c \in Channels, sum \in Data, multi \in BOOLEAN : UploadStart(w, v, c, sum, multi)
  <2> PICK c \in Channels, sum \in Data, multi \in BOOLEAN : UploadStart(w, v, c, sum, multi)
    BY <1>2
  <2> DEFINE op == IF multi THEN "multipart" ELSE "upload"
             r == [Idle EXCEPT !.pc = "putRow", !.ver = v, !.channel = c, !.op = op,
                               !.sum = sum, !.multi = multi, !.token = issued + 1]
  <2>1. issued + 1 \in Tokens /\ issued' \in 0 .. MaxUploads
    <3>1. issued < MaxUploads /\ issued' = issued + 1
      BY DEF UploadStart
    <3>2. issued \in 0 .. MaxUploads
      BY DEF Typed, TypeOK
    <3> QED
      BY <3>1, <3>2, CatalogAssumption DEF Tokens
  <2>2. r \in Invocation /\ r.ver = v /\ r.token = issued + 1
    <3>1. v \in Nat /\ op \in OpNames /\ c \in ReleaseTypes
      BY CatalogAssumption DEF OpNames
    <3> QED
      BY <2>1, <3>1 DEF Idle, Invocation, Pc
  <2>3. r \in Handlers
    <3>1. r.token # 0
      BY <2>1, <2>2 DEF Tokens
    <3> HIDE DEF r
    <3> QED
      BY <2>2, <3>1 DEF Handlers, NamedWorker
  <2>4. inv' \in [Workers -> Handlers]
    BY <2>3 DEF Typed, UploadStart, Become
  <2>5. inv' \in [Workers -> Invocation]
    BY <2>4 DEF Handlers
  <2> QED
    BY <2>1, <2>4, <2>5 DEF Typed, TypeOK, UploadStart
<1>3. CASE CompleteStart(w, v)
  <2> DEFINE r == [Idle EXCEPT !.pc = "complete", !.op = "multipart", !.ver = v,
                               !.token = pkgs[v].token]
  <2>1. r \in Handlers
    BY <1>1, <1>3, CatalogAssumption
    DEF CompleteStart, Idle, Invocation, Pc, OpNames, Handlers, NamedWorker, Package, Rows, NamedRow
  <2> QED
    BY <1>3, <2>1, TypedStep DEF CompleteStart, catalog, Typed, TypeOK
<1>4. CASE ProcessStart(w, v)
  <2> DEFINE r(pc) == [Idle EXCEPT !.pc = pc, !.ver = v, !.token = pkgs[v].token,
                                   !.sum = pkgs[v].sum, !.channel = pkgs[v].channel]
  <2>1. \A pc \in {"orphan", "get", "head"} : r(pc) \in Handlers
    BY <1>1, CatalogAssumption DEF Idle, Invocation, Pc, Handlers, NamedWorker, Package
  <2>2. events' \in [Versions -> 0 .. MaxEvents]
    BY <1>4, CatalogAssumption DEF ProcessStart, Typed, TypeOK
  <2>3. PICK q \in Handlers : Become(w, q)
    BY <1>4, <2>1, IdleHandler DEF ProcessStart, Return
  <2> QED
    BY <1>4, <2>2, <2>3, TypedStep DEF ProcessStart, Typed, TypeOK
<1>5. ASSUME NEW op \in OpNames, NEW pc \in Pc \ {"putRow", "complete"}, Begin(w, op, v, pc)
      PROVE  Typed'
  <2> DEFINE r == [Idle EXCEPT !.pc = pc, !.op = op, !.ver = v,
                              !.channel = pkgs[v].channel,
                              !.soft = pkgs[v].status = "RECALLED"]
  <2>1. r \in Handlers
    BY <1>1, CatalogAssumption DEF Idle, Invocation, Handlers, NamedWorker, Package
  <2> QED
    BY <1>5, <2>1, TypedStep DEF Begin, catalog, Typed, TypeOK
<1>6. {"recall", "promote", "restore", "toggle", "delete"} \subseteq OpNames
  BY DEF OpNames
<1>7. {"recallSet", "promoteSet", "restoreQuery", "toggleSet", "deleteRaw"}
         \subseteq Pc \ {"putRow", "complete"}
  BY DEF Pc
<1> QED
  BY <1>2, <1>3, <1>4, <1>5, <1>6, <1>7
  DEF RecallStart, PromoteStart, RestoreStart, ToggleStart, DeleteStart

(* digilux_ota_upload_url, the client, and S3.                             *)
LEMMA TypedUpload ==
    ASSUME Typed,
           \/ \E w \in Workers : UploadPut(w) \/ \E d \in Data : CompleteFinish(w, d)
           \/ Client \/ \E v \in Versions : Duplicate(v)
    PROVE  Typed'
<1>1. ASSUME NEW w \in Workers, UploadPut(w) PROVE Typed'
  <2> DEFINE i == inv[w]
             row == [NoRow EXCEPT !.status = "PENDING", !.channel = i.channel,
                       !.token = i.token, !.sum = i.sum, !.multi = i.multi]
             g == [state |-> "open", ver |-> i.ver, multi |-> i.multi, sum |-> i.sum]
  <2>1. i \in Invocation /\ i.ver \in Versions /\ i.token # 0
    BY <1>1, Running DEF UploadPut, At, Typed, Handlers, NamedWorker
  <2>2. row \in Rows
    BY <2>1 DEF NoRow, Rows, Package, Status, NamedRow, Invocation
  <2>3. g \in Grant /\ g.ver \in Versions
    BY <2>1 DEF Grant, Invocation
  <2>4. pkgs' \in [Versions -> Rows] /\ pkgs' \in [Versions -> Package]
    BY <1>1, <2>1, <2>2 DEF UploadPut, Typed, TypeOK, Rows
  <2>5. /\ grants' \in [Tokens -> Grant]
        /\ \A t \in Tokens : grants'[t].state # "none" => grants'[t].ver \in Versions
    BY <1>1, <2>3 DEF UploadPut, Typed, TypeOK
  <2>6. inv' \in [Workers -> Handlers] /\ inv' \in [Workers -> Invocation]
    BY <1>1, IdleHandler DEF UploadPut, Return, Become, Typed, Handlers
  <2> QED
    BY <1>1, <2>4, <2>5, <2>6 DEF UploadPut, Typed, TypeOK
<1>2. ASSUME NEW t \in Tokens, NEW d \in Data, Valid(t), Created(t, d)
      PROVE  /\ raw' \in [Versions -> Object] /\ grants' \in [Tokens -> Grant]
             /\ events' \in [Versions -> 0 .. MaxEvents]
             /\ \A s \in Tokens : grants'[s].state # "none" => grants'[s].ver \in Versions
  <2>1. grants[t].ver \in Versions
    BY <1>2 DEF Valid, Typed
  <2>2. [token |-> t, data |-> d] \in Object
    BY DEF Object
  <2>3. \A st \in {"put", "used"} : [grants[t] EXCEPT !.state = st] \in Grant
    BY DEF Typed, TypeOK, Grant
  <2>4. events' \in [Versions -> 0 .. MaxEvents]
    BY <1>2, <2>1, CatalogAssumption DEF Created, Typed, TypeOK
  <2>5. \A s \in Tokens : grants[s] \in Grant
    BY DEF Typed, TypeOK
  <2> QED
    BY <1>2, <2>1, <2>2, <2>3, <2>4, <2>5 DEF Created, Typed, TypeOK, Grant
<1>3. ASSUME NEW w \in Workers, NEW d \in Data, CompleteFinish(w, d) PROVE Typed'
  <2>1. inv[w].token \in Tokens
    BY <1>3 DEF CompleteFinish, At, Typed, TypeOK, Handlers, NamedWorker, Invocation
  <2>2. /\ raw' \in [Versions -> Object] /\ grants' \in [Tokens -> Grant]
        /\ events' \in [Versions -> 0 .. MaxEvents]
        /\ \A s \in Tokens : grants'[s].state # "none" => grants'[s].ver \in Versions
    BY <1>2, <1>3, <2>1 DEF CompleteFinish, Valid, Typed, TypeOK
  <2>3. inv' \in [Workers -> Handlers] /\ inv' \in [Workers -> Invocation]
    BY <1>3, IdleHandler DEF CompleteFinish, Return, Become, Typed, Handlers
  <2> QED
    BY <1>3, <2>2, <2>3 DEF CompleteFinish, Typed, TypeOK
<1>4. ASSUME NEW t \in Tokens, NEW d \in Data, ClientPut(t, d) PROVE Typed'
  BY <1>2, <1>4 DEF ClientPut, Typed, TypeOK
<1>5. ASSUME NEW t \in Tokens, Expire(t) PROVE Typed'
  <2>1. [grants[t] EXCEPT !.state = "used"] \in Grant
    BY DEF Typed, TypeOK, Grant
  <2>2. \A s \in Tokens : grants[s] \in Grant
    BY DEF Typed, TypeOK
  <2>3. /\ grants' \in [Tokens -> Grant]
        /\ \A s \in Tokens : grants'[s].state # "none" => grants'[s].ver \in Versions
    BY <1>5, <2>1, <2>2 DEF Expire, Valid, Typed, TypeOK, Grant
  <2> QED
    BY <1>5, <2>3 DEF Expire, Typed, TypeOK
<1>6. ASSUME NEW v \in Versions, Duplicate(v) PROVE Typed'
  <2>1. events' \in [Versions -> 0 .. MaxEvents]
    BY <1>6, CatalogAssumption DEF Duplicate, Typed, TypeOK
  <2> QED
    BY <1>6, <2>1 DEF Duplicate, Typed, TypeOK
<1> QED
  BY <1>1, <1>3, <1>4, <1>5, <1>6 DEF Client
(* Every other call of a running handler.                                  *)
LEMMA TypedProcess ==
    ASSUME Typed, NEW w \in Workers,
           \/ DeleteOrphan(w) \/ CheckToken(w) \/ ReadArtifact(w) \/ DeletePlain(w)
           \/ MakeActive(w) \/ QueryOlder(w) \/ SupersedeOlder(w)
           \/ QuarantineDelete(w) \/ QuarantineMark(w) \/ Die(w)
    PROVE  Typed'
<1> DEFINE v == inv[w].ver
<1>1. ~At(w, "idle")
  BY DEF At, DeleteOrphan, CheckToken, ReadArtifact, DeletePlain, MakeActive, QueryOlder,
         SupersedeOlder, QuarantineDelete, QuarantineMark, Die
<1>2. inv[w] \in Invocation /\ v \in Versions
  BY <1>1, Running
<1>3. \A pc \in {"get", "quarDelete", "promote", "query", "quarMark"} :
         [inv[w] EXCEPT !.pc = pc] \in Handlers
  BY <1>1, TypedGoto DEF Pc
<1>4. /\ pkgs \in [Versions -> Rows] /\ pkgs \in [Versions -> Package]
      /\ raw \in [Versions -> Object] /\ failed \in BOOLEAN
      /\ events \in [Versions -> 0 .. MaxEvents] /\ order \subseteq Versions \X Versions
  BY DEF Typed, TypeOK
<1> HIDE DEF v
<1>5. ASSUME NEW S \in SUBSET Versions, NEW pc \in {"supersede"}
      PROVE  [inv[w] EXCEPT !.pc = pc, !.old = S] \in Handlers
  BY <1>2 DEF v, Invocation, Handlers, NamedWorker, Pc
<1>6. CASE DeleteOrphan(w)
  BY <1>2, <1>4, <1>6, IdleHandler, TypedDelete, TypedStep DEF v, DeleteOrphan, Return
<1>7. CASE CheckToken(w)
  <2>1. failed' \in BOOLEAN
    BY <1>4, <1>7 DEF CheckToken, Fails
  <2> QED
    BY <1>3, <1>4, <1>7, <2>1, TypedStep DEF CheckToken, Goto
<1>8. CASE ReadArtifact(w)
  <2> DEFINE d == raw[v].data
             r == [inv[w] EXCEPT !.pc = "delRaw", !.data = d]
  <2>1. d \in Data \cup {NoData}
    BY <1>2, <1>4 DEF Object
  <2>2. r \in Handlers
    BY <1>2, <2>1 DEF v, Invocation, Handlers, NamedWorker, Pc
  <2>3. PICK q \in Handlers : Become(w, q)
    BY <1>3, <1>8, <2>2, IdleHandler DEF v, ReadArtifact, Return, Goto
  <2> QED
    BY <1>4, <1>8, <2>3, TypedStep DEF ReadArtifact, catalog
<1>9. CASE DeletePlain(w)
  BY <1>2, <1>3, <1>4, <1>9, TypedDelete, TypedStep DEF v, DeletePlain, Goto
<1>10. CASE MakeActive(w)
  <2> DEFINE row == [pkgs[v] EXCEPT !.status = "ACTIVE", !.enc = inv[w].data,
                                    !.token = 0, !.sum = NoData]
  <2>1. row \in Rows
    <3>1. pkgs[v] \in Package /\ inv[w].data \in Data \cup {NoData}
      BY <1>2, <1>4 DEF Invocation
    <3>2. row \in Package /\ row.status = "ACTIVE"
      BY <3>1 DEF Package, Status
    <3> QED
      BY <3>2 DEF Rows, NamedRow
  <2>2. PICK q \in Handlers : Become(w, q)
    BY <1>3, <1>10, IdleHandler DEF MakeActive, Return, Goto
  <2>3. failed' \in BOOLEAN
    BY <1>4, <1>10 DEF MakeActive, Fails
  <2>4. pkgs' = pkgs \/ pkgs' = [pkgs EXCEPT ![v] = row]
    BY <1>10 DEF v, MakeActive
  <2>5. pkgs' \in [Versions -> Rows]
    BY <1>2, <1>4, <2>1, <2>4
  <2>6. order' \subseteq Versions \X Versions
    BY <1>2, <1>4, <1>10, TypedOrder DEF v, MakeActive
  <2> QED
    BY <1>4, <1>10, <2>2, <2>3, <2>5, <2>6, TypedStep DEF MakeActive
<1>11. CASE QueryOlder(w)
  <2>1. ActiveOthers(inv[w].ver, inv[w].channel) \subseteq Versions
    BY DEF ActiveOthers
  <2>2. PICK q \in Handlers : Become(w, q)
    BY <1>5, <1>11, <2>1, IdleHandler DEF QueryOlder, Return
  <2> QED
    BY <1>4, <1>11, <2>2, TypedStep DEF QueryOlder, catalog
<1>12. CASE SupersedeOlder(w)
  <2>1. inv[w].old \subseteq Versions
    BY <1>2 DEF Invocation
  <2>2. PICK u \in inv[w].old :
            /\ SupersedeOne(u)
            /\ IF inv[w].old = {u} THEN Return(w)
               ELSE Become(w, [inv[w] EXCEPT !.old = @ \ {u}])
    BY <1>12 DEF SupersedeOlder
  <2>3. [inv[w] EXCEPT !.old = @ \ {u}] \in Handlers
    BY <1>2, <2>1 DEF Invocation, Handlers, NamedWorker, v, Typed
  <2>4. PICK q \in Handlers : Become(w, q)
    BY <2>2, <2>3, IdleHandler DEF Return
  <2> QED
    BY <1>4, <1>12, <2>1, <2>2, <2>4, TypedSupersede, TypedStep DEF SupersedeOlder
<1>13. CASE QuarantineDelete(w)
  BY <1>2, <1>3, <1>4, <1>13, TypedDelete, TypedStep DEF v, QuarantineDelete, Goto
<1>14. CASE QuarantineMark(w)
  <2>1. "CORRUPTED" \in Status \ {"PENDING"}
    BY DEF Status
  <2>2. pkgs' \in [Versions -> Rows] /\ failed' \in BOOLEAN
    BY <1>2, <1>4, <1>14, <2>1, TypedStatus DEF v, QuarantineMark, Fails
  <2> QED
    BY <1>4, <1>14, <2>2, IdleHandler, TypedStep DEF QuarantineMark, Return
<1>15. CASE Die(w)
  BY <1>4, <1>15, IdleHandler, TypedStep DEF Die, Return
<1> QED
  BY <1>6, <1>7, <1>8, <1>9, <1>10, <1>11, <1>12, <1>13, <1>14, <1>15

LEMMA TypedAdministrator ==
    ASSUME Typed, NEW w \in Workers,
           \/ RecallSet(w) \/ PromoteSet(w) \/ ToggleSet(w)
           \/ RestoreQuery(w) \/ RestoreSupersede(w) \/ RestoreSet(w)
           \/ DeleteObject(w) \/ DeleteRow(w)
    PROVE  Typed'
<1> DEFINE v == inv[w].ver
<1>1. ~At(w, "idle")
  BY DEF At, RecallSet, PromoteSet, ToggleSet, RestoreQuery, RestoreSupersede, RestoreSet,
         DeleteObject, DeleteRow
<1>2. inv[w] \in Invocation /\ v \in Versions
  BY <1>1, Running
<1>3. /\ pkgs \in [Versions -> Rows] /\ pkgs[v] \in Package /\ pkgs[v] \in Rows
      /\ raw \in [Versions -> Object] /\ failed \in BOOLEAN
      /\ events \in [Versions -> 0 .. MaxEvents] /\ order \subseteq Versions \X Versions
  BY <1>2 DEF Typed, TypeOK
<1>4. ASSUME NEW row \in Rows, Write(w, row) PROVE pkgs' \in [Versions -> Rows]
  BY <1>2, <1>4, TypedRow DEF v, Write
<1>5. Upserted(pkgs[v]) \in Rows /\ Upserted(pkgs[v]) \in Package
  BY <1>3 DEF Upserted, Rows, NamedRow, Package, Status
<1> HIDE DEF v
<1>6. CASE RecallSet(w)
  <2>1. [pkgs[v] EXCEPT !.status = "RECALLED", !.activated = FALSE] \in Rows
    BY <1>3 DEF Rows, NamedRow, Package, Status
  <2>2. pkgs' \in [Versions -> Rows]
    BY <1>4, <1>6, <2>1 DEF RecallSet, v
  <2> QED
    BY <1>3, <1>6, <2>2, IdleHandler, TypedStep DEF RecallSet, Return
<1>7. CASE PromoteSet(w)
  <2>1. [Upserted(pkgs[v]) EXCEPT !.channel = "PROD"] \in Rows
    BY <1>5 DEF Rows, NamedRow, Package, ReleaseTypes
  <2>2. pkgs' \in [Versions -> Rows]
    BY <1>4, <1>7, <2>1 DEF PromoteSet, v
  <2>3. [inv[w] EXCEPT !.pc = "query", !.channel = "PROD"] \in Handlers
    BY <1>2 DEF Invocation, Handlers, NamedWorker, Pc, ReleaseTypes, v
  <2>4. order' \subseteq Versions \X Versions
    BY <1>2, <1>7, TypedOrder DEF PromoteSet, v
  <2> QED
    BY <1>3, <1>7, <2>2, <2>3, <2>4, TypedStep DEF PromoteSet
<1>8. CASE ToggleSet(w)
  <2>1. \A shown \in BOOLEAN : [Upserted(pkgs[v]) EXCEPT !.activated = shown] \in Rows
    BY <1>5 DEF Rows, NamedRow, Package
  <2>2. pkgs' \in [Versions -> Rows]
    BY <1>4, <1>8, <2>1 DEF ToggleSet, v
  <2> QED
    BY <1>3, <1>8, <2>2, IdleHandler, TypedStep DEF ToggleSet, Return
<1>9. CASE RestoreQuery(w)
  <2>1. ActiveOthers(inv[w].ver, inv[w].channel) \subseteq Versions
    BY DEF ActiveOthers
  <2>2. \A S \in SUBSET Versions, pc \in {"restoreSet", "restoreSupersede"} :
            [inv[w] EXCEPT !.old = S, !.pc = pc] \in Handlers
    BY <1>2 DEF Invocation, Handlers, NamedWorker, Pc, v
  <2>3. PICK q \in Handlers : Become(w, q)
    BY <1>9, <2>1, <2>2 DEF RestoreQuery
  <2> QED
    BY <1>3, <1>9, <2>3, TypedStep DEF RestoreQuery, catalog
<1>10. CASE RestoreSupersede(w)
  <2>1. inv[w].old \subseteq Versions
    BY <1>2 DEF Invocation
  <2>2. PICK u \in inv[w].old :
            /\ SupersedeOne(u)
            /\ Become(w, [inv[w] EXCEPT !.old = @ \ {u},
                             !.pc = IF inv[w].old = {u} THEN "restoreSet" ELSE @])
    BY <1>10 DEF RestoreSupersede
  <2>3. [inv[w] EXCEPT !.old = @ \ {u},
                       !.pc = IF inv[w].old = {u} THEN "restoreSet" ELSE @] \in Handlers
    BY <1>2, <1>10, <2>1
    DEF Invocation, Handlers, NamedWorker, Pc, v, RestoreSupersede, At
  <2> QED
    BY <1>3, <1>10, <2>1, <2>2, <2>3, TypedSupersede, TypedStep DEF RestoreSupersede
<1>11. CASE RestoreSet(w)
  <2>1. [pkgs[v] EXCEPT !.status = "ACTIVE"] \in Rows
    BY <1>3 DEF Rows, NamedRow, Package, Status
  <2>2. pkgs' \in [Versions -> Rows]
    BY <1>4, <1>11, <2>1 DEF RestoreSet, v
  <2>3. order' \subseteq Versions \X Versions
    BY <1>2, <1>11, TypedOrder DEF RestoreSet, v
  <2> QED
    BY <1>3, <1>11, <2>2, <2>3, IdleHandler, TypedStep DEF RestoreSet, Return
<1>12. CASE DeleteObject(w)
  <2>1. [inv[w] EXCEPT !.pc = "deleteRow"] \in Handlers
    BY <1>1, TypedGoto DEF Pc
  <2> QED
    BY <1>2, <1>3, <1>12, <2>1, TypedDelete, TypedStep DEF v, DeleteObject, Goto
<1>13. CASE DeleteRow(w)
  <2>1. [pkgs[v] EXCEPT !.status = "DELETED"] \in Rows
    BY <1>3 DEF Rows, NamedRow, Package, Status
  <2>2. pkgs' \in [Versions -> Rows]
    BY <1>4, <1>13, <2>1, EmptyRow DEF DeleteRow, v
  <2> QED
    BY <1>3, <1>13, <2>2, IdleHandler, TypedStep DEF DeleteRow, Return
<1> QED
  BY <1>6, <1>7, <1>8, <1>9, <1>10, <1>11, <1>12, <1>13

LEMMA NextTyped == ASSUME Typed, [Next]_vars PROVE Typed'
<1>1. CASE UNCHANGED vars
  BY <1>1 DEF vars, Typed, TypeOK
<1>2. ASSUME NEW w \in Workers, Administrator(w) PROVE Typed'
  BY <1>2, TypedStart DEF Administrator
<1>3. ASSUME NEW w \in Workers, Continue(w) PROVE Typed'
  BY <1>3, TypedUpload, TypedProcess, TypedAdministrator DEF Continue
<1>4. ASSUME NEW w \in Workers, Die(w) \/ \E v \in Versions : ProcessStart(w, v) PROVE Typed'
  BY <1>4, TypedStart, TypedProcess
<1>5. CASE Client \/ \E v \in Versions : Duplicate(v)
  BY <1>5, TypedUpload
<1> QED
  BY <1>1, <1>2, <1>3, <1>4, <1>5 DEF Next

(* Every variable stays in its type, whatever is asked for at once, however*)
(* often S3 repeats an event and wherever an invocation ends: no handler   *)
(* acts on a version or a token that was not given out.                    *)
THEOREM CatalogTyped == Spec => []TypeOK
<1>1. Init => Typed
  BY InitTyped
<1>2. Typed /\ [Next]_vars => Typed'
  BY NextTyped
<1>3. Typed => TypeOK
  BY DEF Typed
<1> QED
  BY <1>1, <1>2, <1>3, PTL DEF Spec

----------------------------------------------------------------------------
(* What is served is what was announced                                    *)

Granted(t) == grants[t].state # "none"

(* No token is granted or taken back; an open one may be used.             *)
GrantsKept ==
    \A t \in Tokens : /\ Granted(t)' <=> Granted(t)
                      /\ grants'[t].ver = grants[t].ver /\ grants'[t].sum = grants[t].sum

LEMMA LastKept ==
    ASSUME GrantsKept, NEW v
    PROVE  /\ \A t : LastGrant(v, t)' <=> LastGrant(v, t)
           /\ \A d : Announced(v, d)' <=> Announced(v, d)
<1>1. \A t : LastGrant(v, t)' <=> LastGrant(v, t)
  BY DEF GrantsKept, Granted, LastGrant
<1> QED
  BY <1>1 DEF GrantsKept, Announced, LastGrant

LEMMA LastUnique ==
    ASSUME NEW v, NEW s, NEW t, LastGrant(v, s), LastGrant(v, t)
    PROVE  s = t
<1>1. s \in Nat /\ t \in Nat /\ s <= t /\ t <= s
  BY CatalogAssumption DEF LastGrant, Tokens
<1> QED
  BY <1>1

LEMMA CleanKept ==
    ASSUME GrantsKept, NEW v, Clean(v), raw'[v] \in {raw[v], NoObject}
    PROVE  Clean(v)'
<1>1. CASE raw'[v] = NoObject
  BY <1>1 DEF Clean
<1>2. CASE raw'[v] = raw[v] /\ raw[v] # NoObject
  <2> DEFINE t == raw[v].token
  <2>1. LastGrant(v, t) /\ t \in Tokens
    BY <1>2 DEF Clean, LastGrant
  <2>2. \A s : LastGrant(v, s)' <=> LastGrant(v, s)
    BY LastKept
  <2>3. \A s \in Tokens : grants'[s].sum = grants[s].sum
    BY DEF GrantsKept
  <2>4. LastGrant(v, raw[v].token)'
    BY <1>2, <2>1, <2>2
  <2> QED
    BY <1>2, <2>1, <2>3, <2>4 DEF Clean
<1> QED
  BY <1>1, <1>2

(* No grant becomes valid again, and no request is about to record one.    *)
LEMMA ValidKept ==
    ASSUME ValidIsLast, GrantsKept,
           \A t \in Tokens : Valid(t)' => Valid(t),
           \A w \in Workers : inv'[w].pc = "putRow" => inv'[w] = inv[w]
    PROVE  ValidIsLast'
<1> SUFFICES ASSUME NEW t \in Tokens, Valid(t)'
             PROVE  /\ LastGrant(grants[t].ver, t)'
                    /\ \A w \in Workers : inv'[w].pc = "putRow" => inv'[w].ver # grants'[t].ver
  BY DEF ValidIsLast, At
<1>1. Valid(t) /\ grants'[t].ver = grants[t].ver
  BY DEF GrantsKept
<1>2. \A v : LastGrant(v, t)' <=> LastGrant(v, t)
  BY LastKept
<1>3. \A v : v = grants[t].ver => LastGrant(v, t)'
  BY <1>1, <1>2 DEF ValidIsLast
<1>4. LastGrant(grants[t].ver, t)'
  BY <1>1, <1>3
<1> QED
  BY <1>1, <1>4 DEF ValidIsLast, At

(* A grant whose state is what it was is as valid as it was.               *)
LEMMA ValidSame ==
    ASSUME NEW t \in Tokens, grants'[t].state = grants[t].state
    PROVE  Valid(t)' <=> Valid(t)
  BY DEF Valid

(* The rows keep their tokens, checksums and artefacts, none appears,      *)
(* disappears, comes into service or is asked for, and no object is made.  *)
Calm ==
    \A v \in Versions :
        /\ pkgs'[v].token = pkgs[v].token /\ pkgs'[v].sum = pkgs[v].sum
        /\ pkgs'[v].enc = pkgs[v].enc
        /\ pkgs'[v].status = "NONE" <=> pkgs[v].status = "NONE"
        /\ pkgs'[v].status \in {"ACTIVE", "SUPERSEDED"} =>
              pkgs[v].status \in {"ACTIVE", "SUPERSEDED"}
        /\ pkgs'[v].status = "PENDING" => pkgs[v].status = "PENDING"
        /\ raw'[v] \in {raw[v], NoObject}

(* None of them becomes ACTIVE either.                                     *)
Calmer == \A v \in Versions : pkgs'[v].status = "ACTIVE" => pkgs[v].status = "ACTIVE"

LEMMA CalmRows ==
    ASSUME RowsInOrder, Calm, GrantsKept
    PROVE  RowsInOrder'
<1> SUFFICES ASSUME NEW v \in Versions
             PROVE  /\ pkgs'[v].token # 0 =>
                          /\ pkgs'[v].status # "NONE" /\ LastGrant(v, pkgs[v].token)'
                          /\ pkgs'[v].sum = grants'[pkgs'[v].token].sum
                    /\ pkgs'[v].token = 0 /\ pkgs'[v].status # "NONE" =>
                          pkgs'[v].sum = NoData /\ Clean(v)'
  BY DEF RowsInOrder
<1>1. CASE pkgs[v].token # 0
  <2>1. LastGrant(v, pkgs[v].token) /\ pkgs[v].token \in Tokens
    BY <1>1 DEF RowsInOrder, LastGrant
  <2>2. \A t : LastGrant(v, t)' <=> LastGrant(v, t)
    BY LastKept
  <2>3. pkgs'[v].token = pkgs[v].token
    BY DEF Calm
  <2>4. LastGrant(v, pkgs[v].token)'
    BY <2>1, <2>2, <2>3
  <2> QED
    BY <1>1, <2>1, <2>3, <2>4 DEF RowsInOrder, Calm, GrantsKept
<1>2. CASE pkgs[v].token = 0
  BY <1>2, CleanKept DEF RowsInOrder, Calm
<1> QED
  BY <1>1, <1>2

LEMMA CalmServes ==
    ASSUME ServesWhatWasAnnounced, Calm, GrantsKept
    PROVE  ServesWhatWasAnnounced'
<1> SUFFICES ASSUME NEW v \in Versions, pkgs'[v].status \in {"ACTIVE", "SUPERSEDED"}
             PROVE  pkgs'[v].enc \in Data \ BadTars /\ Announced(v, pkgs[v].enc)'
  BY DEF ServesWhatWasAnnounced
<1>1. pkgs[v].enc \in Data \ BadTars /\ Announced(v, pkgs[v].enc) /\ pkgs'[v].enc = pkgs[v].enc
  BY DEF Calm, ServesWhatWasAnnounced
<1>2. \A d : Announced(v, d)' <=> Announced(v, d)
  BY LastKept
<1> QED
  BY <1>1, <1>2
----------------------------------------------------------------------------
(* What the handlers know                                                  *)

(* What a handler that restores nothing has read holds as long as the row  *)
(* is there, the grants are kept and no object is made.                    *)
LEMMA CurrentKept ==
    ASSUME GrantsKept, NEW i \in Invocation, i.ver \in Versions, i.op # "restore", Current(i),
           raw'[i.ver] \in {raw[i.ver], NoObject} \/ i.pc \notin Working,
           pkgs[i.ver].status # "NONE" => pkgs'[i.ver].status # "NONE"
    PROVE  Current(i)'
<1>1. \A t : LastGrant(i.ver, t)' <=> LastGrant(i.ver, t)
  BY LastKept
<1>2. \A d : Announced(i.ver, d)' <=> Announced(i.ver, d)
  BY LastKept
<1>3. \A t : LastGrant(i.ver, t) => t \in Tokens /\ grants'[t].sum = grants[t].sum
  BY DEF LastGrant, GrantsKept
<1>4. Clean(i.ver) /\ i.pc \in Working => Clean(i.ver)'
  BY CleanKept
<1>5. i.pc = "head" => LastGrant(i.ver, i.token)' /\ i.sum = grants'[i.token].sum
  BY <1>1, <1>3 DEF Current
<1>6. i.pc = "get" =>
        \/ i.token = 0 /\ i.sum = NoData /\ Clean(i.ver)'
        \/ /\ LastGrant(i.ver, i.token)' /\ i.sum = grants'[i.token].sum
           /\ raw'[i.ver] = NoObject \/ raw'[i.ver].token = i.token
  BY <1>1, <1>3, <1>4 DEF Current, Working
<1>7. i.pc \in {"delRaw", "promote"} =>
        /\ i.data \in Data \ BadTars /\ Clean(i.ver)'
        /\ UsedOnce \/ i.token # 0 => Announced(i.ver, i.data)'
  BY <1>2, <1>4 DEF Current, Working
<1>8. i.pc \notin {"restoreQuery", "restoreSupersede", "restoreSet"}
  BY DEF Current
<1>9. /\ i.pc \in {"recallSet", "promoteSet", "toggleSet"} => pkgs'[i.ver].status # "NONE"
      /\ i.pc \in {"deleteRaw", "deleteRow"} =>
            i.op = "delete" /\ pkgs'[i.ver].status # "NONE"
  BY DEF Current
<1> QED
  BY <1>5, <1>6, <1>7, <1>8, <1>9 DEF Current

(* While a handler runs, no other one restores or deletes.                 *)
LEMMA OthersPlain ==
    ASSUME Typed, Alone, NEW w \in Workers, ~At(w, "idle")
    PROVE  \A x \in Workers \ {w} : ~At(x, "idle") => inv[x].op \notin {"restore", "delete"}
  BY DEF Alone

(* So what they have read still holds.                                     *)
LEMMA OthersCurrent ==
    ASSUME Typed, Alone, GrantsKept, NEW w \in Workers, NEW r \in Invocation, Become(w, r),
           ~At(w, "idle"), \A x \in Workers : Current(inv[x]),
           \A v \in Versions :
              /\ pkgs[v].status # "NONE" => pkgs'[v].status # "NONE"
              /\ \/ raw'[v] \in {raw[v], NoObject}
                 \/ \A x \in Workers : inv[x].ver = v => inv[x].pc \notin Working
    PROVE  \A x \in Workers \ {w} : Current(inv[x])'
<1> SUFFICES ASSUME NEW x \in Workers \ {w} PROVE Current(inv[x])'
  OBVIOUS
<1>1. inv'[x] = inv[x]
  BY Moves DEF Typed
<1>2. CASE At(x, "idle")
  <2>1. inv'[x].pc = "idle"
    BY <1>1, <1>2 DEF At
  <2> QED
    BY <2>1 DEF Current
<1>3. CASE ~At(x, "idle")
  <2>1. inv[x] \in Invocation /\ inv[x].ver \in Versions
    BY <1>3, Running
  <2>2. inv[x].op # "restore"
    BY <1>3, OthersPlain
  <2> DEFINE i == inv[x]
  <2>3. \A j : j = i => Current(j)'
    BY <2>1, <2>2, CurrentKept
  <2> QED
    BY <1>1, <2>3
<1> QED
  BY <1>2, <1>3

(* A running handler goes on as r, or ends, and the rest is calm.          *)
Follows(w, r) ==
    /\ ~At(w, "idle") /\ Become(w, r)
    /\ r.pc # "putRow"
    /\ r.op \in {"restore", "delete"} => r.op = inv[w].op
    /\ r.pc # "idle" => r.ver = inv[w].ver /\ inv[w].pc \notin {"complete", "putRow"}
    /\ r.pc \in Working => inv[w].pc \in Working /\ r.token = inv[w].token

LEMMA FollowsAlone ==
    ASSUME Typed, Alone, NEW w \in Workers, NEW r \in Invocation, Follows(w, r)
    PROVE  Alone'
<1>1. inv'[w] = r /\ \A x \in Workers \ {w} : inv'[x] = inv[x]
  BY Moves DEF Typed, Follows
<1> QED
  BY <1>1 DEF Alone, Follows, At

LEMMA CalmStep ==
    ASSUME Typed, CatalogInv, NEW w \in Workers, NEW r \in Invocation, Follows(w, r),
           Calm, Calmer \/ inv[w].op = "restore", Current(inv[w])',
           UNCHANGED <<grants, issued, events>>
    PROVE  CatalogInv'
<1>1. inv'[w] = r /\ \A x \in Workers \ {w} : inv'[x] = inv[x]
  BY Moves DEF Typed, Follows
<1>2. GrantsKept
  BY DEF GrantsKept, Granted
<1>3. Alone'
  BY FollowsAlone DEF CatalogInv
<1>4. RowsInOrder' /\ (UsedOnce => ServesWhatWasAnnounced')
  BY <1>2, CalmRows, CalmServes DEF CatalogInv
<1>5. \A x \in Workers : Current(inv[x])'
  BY <1>2, OthersCurrent DEF CatalogInv, Follows, Calm
<1>6. \A v, t : LastGrant(v, t)' <=> LastGrant(v, t)
  BY <1>2, LastKept
<1>7. GrantsInOrder'
  <2> SUFFICES ASSUME NEW t \in Tokens, grants[t].state # "none"
               PROVE  LET v == grants[t].ver IN
                      /\ t <= issued /\ grants[t].sum \in Data
                      /\ grants[t].state = "open" =>
                            /\ LastGrant(grants[t].ver, t)' /\ events[v] = 0
                            /\ pkgs'[v].status = "NONE" \/ pkgs'[v].token = t
                            /\ \A x \in Workers : inv'[x].ver = v => inv'[x].pc \notin Working
    BY DEF GrantsInOrder
  <2> DEFINE v == grants[t].ver
  <2>1. v \in Versions
    BY DEF Typed
  <2>2. /\ t <= issued /\ grants[t].sum \in Data
        /\ grants[t].state = "open" =>
              /\ LastGrant(v, t) /\ events[v] = 0
              /\ pkgs[v].status = "NONE" \/ pkgs[v].token = t
              /\ \A x \in Workers : inv[x].ver = v => inv[x].pc \notin Working
    BY DEF CatalogInv, GrantsInOrder
  <2>3. grants[t].state = "open" => LastGrant(v, t)'
    BY <1>6, <2>2
  <2>4. ASSUME grants[t].state = "open", NEW x \in Workers, inv'[x].ver = v
        PROVE  inv'[x].pc \notin Working
    BY <1>1, <2>1, <2>2, <2>4 DEF Follows, Working
  <2> QED
    BY <2>1, <2>2, <2>3, <2>4 DEF Calm
<1>8. Uploads'
  <2> SUFFICES ASSUME NEW u \in Workers, inv'[u].pc = "putRow"
               PROVE  LET i == inv'[u] IN
                      /\ i.token <= issued /\ grants[i.token].state = "none" /\ i.sum \in Data
                      /\ \A t \in Tokens :
                            grants[t].state # "none" /\ grants[t].ver = i.ver => t < i.token
                      /\ events[i.ver] = 0 /\ pkgs'[i.ver].status # "ACTIVE"
                      /\ \A x \in Workers \ {u} :
                            /\ inv'[x].ver = i.ver => inv'[x].pc \in {"idle", "complete"}
                            /\ inv'[x].pc = "putRow" => inv'[x].token # i.token
    BY DEF Uploads, At
  <2>1. u # w /\ inv'[u] = inv[u] /\ At(u, "putRow")
    BY <1>1 DEF Follows, At
  <2>2. inv[u].ver \in Versions
    BY <2>1, Running DEF At
  <2>3. Calmer
    BY <2>1 DEF CatalogInv, Alone, At, Follows
  <2>4. \A x \in Workers \ {u} :
          /\ inv'[x].ver = inv[u].ver => inv'[x].pc \in {"idle", "complete"}
          /\ inv'[x].pc = "putRow" => inv'[x].token # inv[u].token
    BY <1>1, <2>1 DEF CatalogInv, Uploads, Follows, At
  <2> QED
    BY <2>1, <2>2, <2>3, <2>4 DEF CatalogInv, Uploads, Calmer
<1>9. ValidIsLast'
  <2>1. \A x \in Workers : inv'[x].pc = "putRow" => inv'[x] = inv[x]
    BY <1>1 DEF Follows
  <2> QED
    BY <1>2, <2>1, ValidKept, ValidSame DEF CatalogInv
<1>10. NoneAwaited'
  <2> SUFFICES ASSUME NEW x \in Workers, inv'[x].pc \in Working \ {"putRow"}, inv'[x].token = 0
               PROVE  pkgs'[inv'[x].ver].status # "PENDING"
    BY DEF NoneAwaited
  <2>1. /\ inv[x].pc \in Working \ {"putRow"} /\ inv[x].token = 0
        /\ inv'[x].ver = inv[x].ver
    BY <1>1 DEF Follows, Working
  <2>2. inv[x].ver \in Versions
    BY <2>1, Running DEF At, Working
  <2> QED
    BY <2>1, <2>2 DEF CatalogInv, NoneAwaited, Calm
<1> QED
  BY <1>3, <1>4, <1>5, <1>7, <1>8, <1>9, <1>10 DEF CatalogInv
----------------------------------------------------------------------------
(* Requests and events                                                     *)

LEMMA StartsAlone ==
    ASSUME Typed, Alone, OrderlyUse, NEW w \in Workers, NEW op, NEW r \in Invocation,
           Start(w, op), Become(w, r), r.op \in {op, "event"}
    PROVE  Alone'
<1>1. inv'[w] = r /\ \A x \in Workers \ {w} : inv'[x] = inv[x]
  BY Moves DEF Typed
<1>2. \A x \in Workers : ~At(x, "idle") => inv[x].op \notin {"restore", "delete"}
  BY DEF OrderlyUse, Start
<1>3. op \in {"restore", "delete"} => \A x \in Workers : At(x, "idle")
  BY DEF OrderlyUse, Start
<1> QED
  BY <1>1, <1>2, <1>3 DEF Alone, At

(* An invocation that begins as r, whose row has been read.                *)
LEMMA StartStep ==
    ASSUME Typed, CatalogInv, OrderlyUse, NEW w \in Workers, NEW op, NEW r \in Invocation,
           Start(w, op), Become(w, r), r.op \in {op, "event"}, r.pc # "putRow",
           r.pc \in Working => /\ events[r.ver] > 0
                               /\ r.token = 0 => pkgs[r.ver].status # "PENDING",
           r.pc \in {"idle", "complete"} \/ \A x \in Workers : At(x, "putRow") => inv[x].ver # r.ver,
           \A v \in Versions : events[v] = 0 => events'[v] = 0,
           Current(r), UNCHANGED <<pkgs, raw, grants, issued>>
    PROVE  CatalogInv'
<1>1. inv'[w] = r /\ \A x \in Workers \ {w} : inv'[x] = inv[x]
  BY Moves DEF Typed
<1>2. GrantsKept /\ Calm
  BY DEF GrantsKept, Granted, Calm
<1>3. Alone'
  BY StartsAlone DEF CatalogInv
<1>4. RowsInOrder' /\ (UsedOnce => ServesWhatWasAnnounced')
  BY <1>2, CalmRows, CalmServes DEF CatalogInv
<1>5. \A x \in Workers : Current(inv[x])'
  <2>1. \A i : Current(i)' <=> Current(i)
    BY DEF Current, Clean, LastGrant, Announced
  <2>2. \A x \in Workers : Current(inv'[x])
    BY <1>1 DEF CatalogInv
  <2> QED
    BY <2>1, <2>2
<1>6. \A v, t : LastGrant(v, t)' <=> LastGrant(v, t)
  BY <1>2, LastKept
<1>7. GrantsInOrder'
  <2> SUFFICES ASSUME NEW t \in Tokens, grants[t].state # "none"
               PROVE  LET v == grants[t].ver IN
                      /\ t <= issued /\ grants[t].sum \in Data
                      /\ grants[t].state = "open" =>
                            /\ LastGrant(grants[t].ver, t)' /\ events'[v] = 0
                            /\ pkgs[v].status = "NONE" \/ pkgs[v].token = t
                            /\ \A x \in Workers : inv'[x].ver = v => inv'[x].pc \notin Working
    BY DEF GrantsInOrder
  <2> DEFINE v == grants[t].ver
  <2>1. v \in Versions
    BY DEF Typed
  <2>2. /\ t <= issued /\ grants[t].sum \in Data
        /\ grants[t].state = "open" =>
              /\ LastGrant(v, t) /\ events[v] = 0
              /\ pkgs[v].status = "NONE" \/ pkgs[v].token = t
              /\ \A x \in Workers : inv[x].ver = v => inv[x].pc \notin Working
    BY DEF CatalogInv, GrantsInOrder
  <2>3. grants[t].state = "open" => LastGrant(v, t)'
    BY <1>6, <2>2
  <2>4. ASSUME grants[t].state = "open", NEW x \in Workers, inv'[x].ver = v
        PROVE  inv'[x].pc \notin Working
    BY <1>1, <2>2, <2>4
  <2> QED
    BY <2>1, <2>2, <2>3, <2>4
<1>8. Uploads'
  <2> SUFFICES ASSUME NEW u \in Workers, inv'[u].pc = "putRow"
               PROVE  LET i == inv'[u] IN
                      /\ i.token <= issued /\ grants[i.token].state = "none" /\ i.sum \in Data
                      /\ \A t \in Tokens :
                            grants[t].state # "none" /\ grants[t].ver = i.ver => t < i.token
                      /\ events'[i.ver] = 0 /\ pkgs[i.ver].status # "ACTIVE"
                      /\ \A x \in Workers \ {u} :
                            /\ inv'[x].ver = i.ver => inv'[x].pc \in {"idle", "complete"}
                            /\ inv'[x].pc = "putRow" => inv'[x].token # i.token
    BY DEF Uploads, At
  <2>1. u # w /\ inv'[u] = inv[u] /\ At(u, "putRow")
    BY <1>1 DEF At
  <2>2. inv[u].ver \in Versions
    BY <2>1, Running DEF At
  <2>3. \A x \in Workers \ {u} :
          /\ inv'[x].ver = inv[u].ver => inv'[x].pc \in {"idle", "complete"}
          /\ inv'[x].pc = "putRow" => inv'[x].token # inv[u].token
    BY <1>1, <2>1 DEF CatalogInv, Uploads, At
  <2> QED
    BY <2>1, <2>2, <2>3 DEF CatalogInv, Uploads
<1>9. ValidIsLast'
  BY <1>1, <1>2, ValidKept, ValidSame DEF CatalogInv
<1>10. NoneAwaited'
  BY <1>1 DEF CatalogInv, NoneAwaited
<1> QED
  BY <1>3, <1>4, <1>5, <1>7, <1>8, <1>9, <1>10 DEF CatalogInv

(* What the requests of administrators and S3 events begin with.           *)
LEMMA Starts ==
    ASSUME Typed, CatalogInv, OrderlyUse, NEW w \in Workers, NEW v \in Versions,
           \/ CompleteStart(w, v) \/ ProcessStart(w, v)
           \/ RecallStart(w, v) \/ PromoteStart(w, v) \/ RestoreStart(w, v)
           \/ ToggleStart(w, v) \/ DeleteStart(w, v)
    PROVE  CatalogInv'
<1>1. pkgs[v] \in Package /\ events[v] \in 0 .. MaxEvents /\ v # 0
  BY CatalogAssumption DEF Typed, TypeOK
<1>2. \A x \in Workers : At(x, "putRow") =>
         inv[x].ver # v \/ (events[v] = 0 /\ pkgs[v].status # "ACTIVE")
  BY DEF CatalogInv, Uploads
<1>3. CASE CompleteStart(w, v)
  <2> DEFINE r == [Idle EXCEPT !.pc = "complete", !.op = "multipart", !.ver = v,
                               !.token = pkgs[v].token]
  <2>1. r \in Invocation /\ r.pc = "complete" /\ r.op = "multipart"
    BY <1>1, CatalogAssumption DEF Idle, Invocation, Pc, OpNames, Package
  <2>2. Start(w, "multipart") /\ Become(w, r) /\ UNCHANGED catalog
    BY <1>3 DEF CompleteStart, Request
  <2> HIDE DEF r
  <2>3. Current(r)
    BY <2>1 DEF Current
  <2> QED
    BY <2>1, <2>2, <2>3, StartStep DEF catalog, Working
<1>4. CASE ProcessStart(w, v)
  <2> DEFINE r(pc) == [Idle EXCEPT !.pc = pc, !.ver = v, !.token = pkgs[v].token,
                                   !.sum = pkgs[v].sum, !.channel = pkgs[v].channel]
  <2>1. /\ Start(w, "event") /\ events[v] > 0
        /\ events' = [events EXCEPT ![v] = @ - 1] /\ UNCHANGED <<pkgs, raw, grants, issued>>
    BY <1>4 DEF ProcessStart
  <2>2. \A u \in Versions : events[u] = 0 => events'[u] = 0
    BY <2>1 DEF Typed, TypeOK
  <2>3. \A x \in Workers : At(x, "putRow") => inv[x].ver # v
    BY <1>2, <2>1
  <2>4. PICK q \in Invocation :
           /\ Become(w, q) /\ q.op = "event"
           /\ \/ q.pc = "idle"
              \/ q.pc = "orphan" /\ q.ver = v
              \/ /\ q.pc = IF pkgs[v].token = 0 THEN "get" ELSE "head"
                 /\ q.ver = v /\ q.token = pkgs[v].token /\ q.sum = pkgs[v].sum
                 /\ pkgs[v].status # "NONE"
    <3>1. ASSUME NEW pc \in {"orphan", "get", "head"}
          PROVE  /\ r(pc) \in Invocation /\ r(pc).op = "event" /\ r(pc).pc = pc /\ r(pc).ver = v
                 /\ r(pc).token = pkgs[v].token /\ r(pc).sum = pkgs[v].sum
      BY <1>1, CatalogAssumption DEF Idle, Invocation, Pc, Package
    <3>2. CASE pkgs[v].status = "ACTIVE" /\ Return(w)
      BY <3>2, IdleTyped DEF Return
    <3>3. CASE pkgs[v].status \in {"NONE", "CORRUPTED"} /\ Become(w, r("orphan"))
      <4>1. r("orphan") \in Invocation /\ r("orphan").op = "event" /\ r("orphan").pc = "orphan"
            /\ r("orphan").ver = v
        BY <3>1
      <4> HIDE DEF r
      <4> QED
        BY <3>3, <4>1
    <3>4. CASE /\ pkgs[v].status \notin {"NONE", "CORRUPTED", "ACTIVE"}
               /\ Become(w, r(IF pkgs[v].token = 0 THEN "get" ELSE "head"))
      <4> DEFINE pc == IF pkgs[v].token = 0 THEN "get" ELSE "head"
      <4>1. pc \in {"orphan", "get", "head"}
        OBVIOUS
      <4> HIDE DEF pc
      <4>2. /\ r(pc) \in Invocation /\ r(pc).op = "event" /\ r(pc).pc = pc /\ r(pc).ver = v
            /\ r(pc).token = pkgs[v].token /\ r(pc).sum = pkgs[v].sum
        BY <3>1, <4>1
      <4> HIDE DEF r
      <4> QED
        BY <3>4, <4>2 DEF pc
    <3>5. \/ pkgs[v].status = "ACTIVE" /\ Return(w)
          \/ pkgs[v].status \in {"NONE", "CORRUPTED"} /\ Become(w, r("orphan"))
          \/ /\ pkgs[v].status \notin {"NONE", "CORRUPTED", "ACTIVE"}
             /\ Become(w, r(IF pkgs[v].token = 0 THEN "get" ELSE "head"))
      BY <1>4 DEF ProcessStart
    <3> HIDE DEF r
    <3> QED
      BY <3>2, <3>3, <3>4, <3>5
  <2>5. Current(q)
    <3>1. /\ pkgs[v].token # 0 => LastGrant(v, pkgs[v].token) /\ pkgs[v].sum = grants[pkgs[v].token].sum
          /\ pkgs[v].token = 0 /\ pkgs[v].status # "NONE" => pkgs[v].sum = NoData /\ Clean(v)
      BY DEF CatalogInv, RowsInOrder
    <3> QED
      BY <2>4, <3>1 DEF Current
  <2>6. /\ q.pc # "putRow"
        /\ q.pc \in Working => /\ events[q.ver] > 0
                               /\ q.token = 0 => pkgs[q.ver].status # "PENDING"
        /\ q.pc = "idle" \/ \A x \in Workers : At(x, "putRow") => inv[x].ver # q.ver
    BY <2>1, <2>3, <2>4 DEF Working, Typed, Rows, NamedRow
  <2> HIDE DEF r
  <2> QED
    BY <2>1, <2>2, <2>4, <2>5, <2>6, StartStep
<1>5. ASSUME NEW op \in OpNames, NEW pc \in Pc \ Working, Begin(w, op, v, pc),
             \A i \in Invocation : i.pc = pc /\ i.op = op /\ i.ver = v => Current(i),
             pkgs[v].status = "ACTIVE" \/ op \in {"restore", "delete"}
      PROVE  CatalogInv'
  <2> DEFINE r == [Idle EXCEPT !.pc = pc, !.op = op, !.ver = v,
                              !.channel = pkgs[v].channel,
                              !.soft = pkgs[v].status = "RECALLED"]
  <2>1. r \in Invocation /\ r.pc = pc /\ r.op = op /\ r.ver = v
    BY <1>1, CatalogAssumption DEF Idle, Invocation, Package
  <2>2. Start(w, op) /\ Become(w, r) /\ UNCHANGED catalog
    BY <1>5 DEF Begin, Request
  <2> HIDE DEF r
  <2>3. \A x \in Workers : At(x, "putRow") => inv[x].ver # r.ver
    BY <1>2, <1>5, <2>1, <2>2 DEF OrderlyUse, Start, At
  <2> QED
    BY <1>5, <2>1, <2>2, <2>3, StartStep DEF catalog, Working
<1>6. CASE RecallStart(w, v)
  <2>1. "recallSet" \in Pc \ Working /\ "recall" \in OpNames
    BY DEF Pc, Working, OpNames
  <2> QED
    BY <1>5, <1>6, <2>1 DEF RecallStart, Current
<1>7. CASE PromoteStart(w, v)
  <2>1. "promoteSet" \in Pc \ Working /\ "promote" \in OpNames
    BY DEF Pc, Working, OpNames
  <2> QED
    BY <1>5, <1>7, <2>1 DEF PromoteStart, Current
<1>8. CASE RestoreStart(w, v)
  <2>1. "restoreQuery" \in Pc \ Working /\ "restore" \in OpNames
    BY DEF Pc, Working, OpNames
  <2> QED
    BY <1>5, <1>8, <2>1 DEF RestoreStart, Current
<1>9. CASE ToggleStart(w, v)
  <2>1. "toggleSet" \in Pc \ Working /\ "toggle" \in OpNames
    BY DEF Pc, Working, OpNames
  <2> QED
    BY <1>5, <1>9, <2>1 DEF ToggleStart, Current
<1>10. CASE DeleteStart(w, v)
  <2>1. "deleteRaw" \in Pc \ Working /\ "delete" \in OpNames
    BY DEF Pc, Working, OpNames
  <2> QED
    BY <1>5, <1>10, <2>1 DEF DeleteStart, Current
<1> QED
  BY <1>3, <1>4, <1>6, <1>7, <1>8, <1>9, <1>10
----------------------------------------------------------------------------
(* Uploads                                                                 *)

(* A version is asked for: nothing of it is under way.                     *)
LEMMA Asked ==
    ASSUME Typed, Typed', CatalogInv, OrderlyUse, NEW w \in Workers, NEW v \in Versions,
           NEW c \in Channels, NEW sum \in Data, NEW multi \in BOOLEAN,
           UploadStart(w, v, c, sum, multi)
    PROVE  CatalogInv'
<1> DEFINE op == IF multi THEN "multipart" ELSE "upload"
           r == [Idle EXCEPT !.pc = "putRow", !.ver = v, !.channel = c, !.op = op,
                             !.sum = sum, !.multi = multi, !.token = issued + 1]
<1>1. /\ Start(w, op) /\ Undisturbed(v) /\ pkgs[v].status # "ACTIVE"
      /\ issued < MaxUploads /\ issued' = issued + 1 /\ Become(w, r)
      /\ UNCHANGED <<pkgs, raw, grants, events>>
  BY DEF UploadStart, Request, OrderlyUse
<1>2. issued \in Nat /\ issued + 1 \in Tokens
  BY <1>1, CatalogAssumption DEF Typed, TypeOK, Tokens
<1>3. /\ r \in Invocation /\ r.pc = "putRow" /\ r.ver = v /\ r.op = op /\ r.sum = sum
      /\ r.token = issued + 1
  <2>1. v \in Nat /\ op \in OpNames /\ c \in ReleaseTypes
    BY CatalogAssumption DEF OpNames
  <2> QED
    BY <1>2, <2>1 DEF Idle, Invocation, Pc
<1>4. op \notin {"restore", "delete"}
  OBVIOUS
<1> HIDE DEF r, op
<1>5. inv'[w] = r /\ \A x \in Workers \ {w} : inv'[x] = inv[x]
  BY <1>1, <1>3, Moves DEF Typed
<1>6. GrantsKept /\ Calm
  BY <1>1 DEF GrantsKept, Granted, Calm
<1>7. Alone'
  BY <1>1, <1>3, StartsAlone DEF CatalogInv
<1>8. RowsInOrder' /\ (UsedOnce => ServesWhatWasAnnounced')
  BY <1>6, CalmRows, CalmServes DEF CatalogInv
<1>9. \A x \in Workers : Current(inv[x])'
  <2>1. \A i : Current(i)' <=> Current(i)
    BY <1>1 DEF Current, Clean, LastGrant, Announced
  <2>2. Current(r)
    BY <1>3 DEF Current
  <2>3. \A x \in Workers : Current(inv'[x])
    BY <1>5, <2>2 DEF CatalogInv
  <2> QED
    BY <2>1, <2>3
<1>10. \A t \in Tokens : grants[t].state # "none" =>
          t <= issued /\ (grants[t].state = "open" => grants[t].ver # v)
  BY <1>1 DEF CatalogInv, GrantsInOrder, Undisturbed, Valid
<1>11. \A u, t : LastGrant(u, t)' <=> LastGrant(u, t)
  BY <1>6, LastKept
<1>12. GrantsInOrder'
  <2> SUFFICES ASSUME NEW t \in Tokens, grants[t].state # "none"
               PROVE  LET u == grants[t].ver IN
                      /\ t <= issued' /\ grants[t].sum \in Data
                      /\ grants[t].state = "open" =>
                            /\ LastGrant(grants[t].ver, t)' /\ events[u] = 0
                            /\ pkgs[u].status = "NONE" \/ pkgs[u].token = t
                            /\ \A x \in Workers : inv'[x].ver = u => inv'[x].pc \notin Working
    BY <1>1 DEF GrantsInOrder
  <2> DEFINE u == grants[t].ver
  <2>1. /\ t <= issued /\ grants[t].sum \in Data
        /\ grants[t].state = "open" =>
              /\ LastGrant(u, t) /\ events[u] = 0
              /\ pkgs[u].status = "NONE" \/ pkgs[u].token = t
              /\ \A x \in Workers : inv[x].ver = u => inv[x].pc \notin Working
    BY DEF CatalogInv, GrantsInOrder
  <2>2. grants[t].state = "open" => LastGrant(u, t)' /\ u # v
    BY <1>1, <1>10, <1>11, <2>1
  <2>3. t <= issued'
    BY <1>1, <1>2, <2>1 DEF Tokens
  <2> QED
    BY <1>3, <1>5, <2>1, <2>2, <2>3
<1>13. Uploads'
  <2> SUFFICES ASSUME NEW u \in Workers, inv'[u].pc = "putRow"
               PROVE  LET i == inv'[u] IN
                      /\ i.token <= issued' /\ grants[i.token].state = "none" /\ i.sum \in Data
                      /\ \A t \in Tokens :
                            grants[t].state # "none" /\ grants[t].ver = i.ver => t < i.token
                      /\ events[i.ver] = 0 /\ pkgs[i.ver].status # "ACTIVE"
                      /\ \A x \in Workers \ {u} :
                            /\ inv'[x].ver = i.ver => inv'[x].pc \in {"idle", "complete"}
                            /\ inv'[x].pc = "putRow" => inv'[x].token # i.token
    BY <1>1 DEF Uploads, At
  <2>1. ASSUME NEW x \in Workers, At(x, "putRow")
        PROVE  inv[x].ver # v /\ inv[x].token \in Tokens /\ inv[x].token <= issued
    BY <1>1, <2>1
    DEF Undisturbed, At, CatalogInv, Uploads, Typed, TypeOK, Handlers, NamedWorker, Invocation
  <2>2. CASE u = w
    <3>1. grants[issued + 1].state = "none"
      BY <1>2, <1>10
    <3>2. \A t \in Tokens : grants[t].state # "none" => t < issued + 1
      BY <1>2, <1>10 DEF Tokens
    <3>3. ASSUME NEW x \in Workers \ {w}
          PROVE  /\ inv[x].ver = v => inv[x].pc = "idle"
                 /\ inv[x].pc = "putRow" => inv[x].token # issued + 1
      BY <1>1, <1>2, <2>1 DEF Undisturbed, At, Tokens
    <3> QED
      BY <1>1, <1>2, <1>3, <1>5, <2>2, <3>1, <3>2, <3>3 DEF Undisturbed
  <2>3. CASE u # w
    <3>1. inv'[u] = inv[u] /\ At(u, "putRow")
      BY <1>5, <2>3 DEF At
    <3>2. inv[u].ver # v /\ inv[u].token \in Tokens /\ inv[u].token <= issued
      BY <2>1, <3>1
    <3>3. inv[u].token <= issued' /\ inv[u].token # issued + 1
      BY <1>1, <1>2, <3>2 DEF Tokens
    <3>4. ASSUME NEW x \in Workers \ {u}
          PROVE  /\ inv'[x].ver = inv[u].ver => inv'[x].pc \in {"idle", "complete"}
                 /\ inv'[x].pc = "putRow" => inv'[x].token # inv[u].token
      BY <1>3, <1>5, <3>1, <3>2, <3>3 DEF CatalogInv, Uploads, At
    <3> QED
      BY <3>1, <3>3, <3>4 DEF CatalogInv, Uploads
  <2> QED
    BY <2>2, <2>3
<1>14. ValidIsLast'
  <2> SUFFICES ASSUME NEW t \in Tokens, Valid(t)
               PROVE  /\ LastGrant(grants[t].ver, t)'
                      /\ \A x \in Workers : inv'[x].pc = "putRow" => inv'[x].ver # grants[t].ver
    BY <1>1 DEF ValidIsLast, Valid, At
  <2>1. /\ LastGrant(grants[t].ver, t) /\ grants[t].ver # v
        /\ \A x \in Workers : At(x, "putRow") => inv[x].ver # grants[t].ver
    BY <1>1 DEF CatalogInv, ValidIsLast, Undisturbed
  <2>2. LastGrant(grants[t].ver, t)'
    BY <1>1, <2>1 DEF LastGrant
  <2> QED
    BY <1>3, <1>5, <2>1, <2>2 DEF At
<1>15. NoneAwaited'
  BY <1>1, <1>3, <1>5 DEF CatalogInv, NoneAwaited
<1> QED
  BY <1>7, <1>8, <1>9, <1>12, <1>13, <1>14, <1>15 DEF CatalogInv

(* The object of a valid grant arrives, and worker w, if it is one that    *)
(* completes a multipart upload, is done.                                  *)
LEMMA Arrived ==
    ASSUME Typed, CatalogInv, NEW t \in Tokens, NEW d, Valid(t), Created(t, d),
           UNCHANGED <<pkgs, issued>>,
           inv' = inv \/ \E w \in Workers : At(w, "complete") /\ Return(w)
    PROVE  CatalogInv'
<1> DEFINE v == grants[t].ver
<1>1. /\ v \in Versions /\ LastGrant(v, t)
      /\ \A x \in Workers : At(x, "putRow") => inv[x].ver # v
      /\ UsedOnce => /\ pkgs[v].status = "NONE" \/ pkgs[v].token = t
                     /\ \A x \in Workers : inv[x].ver = v => inv[x].pc \notin Working
  BY DEF Valid, UsedOnce, Typed, CatalogInv, ValidIsLast, GrantsInOrder
<1>2. /\ raw' = [raw EXCEPT ![v] = [token |-> t, data |-> d]]
      /\ events' = [events EXCEPT ![v] = @ + 1]
      /\ \E st \in {"put", "used"} : grants' = [grants EXCEPT ![t].state = st]
  BY DEF Created
<1> HIDE DEF v
<1>3. GrantsKept
  BY <1>2 DEF Valid, GrantsKept, Granted, Typed, TypeOK, Grant
<1>4. \A x \in Workers : inv'[x] = inv[x] \/ (inv'[x].pc = "idle" /\ inv'[x].op = "event" /\ inv'[x].ver = 0)
  BY IdleTyped DEF Return, Become, Typed, TypeOK, Idle
<1>5. Alone'
  <2>1. \A x \in Workers : /\ ~At(x, "idle")' => inv'[x] = inv[x]
                           /\ At(x, "idle") => At(x, "idle")'
    BY <1>4 DEF At
  <2> QED
    BY <1>4, <2>1 DEF CatalogInv, Alone, At
<1>6. \A u, s : LastGrant(u, s)' <=> LastGrant(u, s)
  BY <1>3, LastKept
<1>7. \A u \in Versions \ {v} : raw'[u] = raw[u] /\ events'[u] = events[u]
  BY <1>1, <1>2 DEF Typed, TypeOK
<1>8. t # 0
  BY CatalogAssumption DEF Tokens
<1>14. raw'[v].token = t /\ \A u : u = v /\ ~UsedOnce => Clean(u)'
  <2>1. raw'[v] = [token |-> t, data |-> d]
    BY <1>1, <1>2 DEF Typed, TypeOK
  <2>2. \A u, s : u = v /\ s = t => LastGrant(u, s)'
    BY <1>1, <1>6
  <2>3. ASSUME NEW u, u = v PROVE LastGrant(u, raw[u].token)'
    BY <2>1, <2>2, <2>3
  <2> QED
    BY <2>1, <2>3 DEF Clean, UsedOnce
<1>9. RowsInOrder'
  <2> SUFFICES ASSUME NEW u \in Versions
               PROVE  /\ pkgs[u].token # 0 =>
                            /\ pkgs[u].status # "NONE" /\ LastGrant(u, pkgs[u].token)'
                            /\ pkgs[u].sum = grants'[pkgs[u].token].sum
                      /\ pkgs[u].token = 0 /\ pkgs[u].status # "NONE" =>
                            pkgs[u].sum = NoData /\ Clean(u)'
    BY DEF RowsInOrder
  <2>1. ASSUME pkgs[u].token # 0
        PROVE  /\ pkgs[u].status # "NONE" /\ LastGrant(u, pkgs[u].token)'
               /\ pkgs[u].sum = grants'[pkgs[u].token].sum
    <3>1. LastGrant(u, pkgs[u].token) /\ pkgs[u].token \in Tokens /\ pkgs'[u].token = pkgs[u].token
      BY <2>1 DEF CatalogInv, RowsInOrder, LastGrant
    <3> QED
      BY <1>3, <1>6, <2>1, <3>1 DEF CatalogInv, RowsInOrder, GrantsKept
  <2>2. ASSUME pkgs[u].token = 0, pkgs[u].status # "NONE"
        PROVE  pkgs[u].sum = NoData /\ Clean(u)'
    <3>1. pkgs[u].sum = NoData /\ Clean(u)
      BY <2>2 DEF CatalogInv, RowsInOrder
    <3>2. CASE u # v
      BY <1>3, <1>7, <3>1, <3>2, CleanKept
    <3>3. CASE u = v
      BY <1>1, <1>8, <1>14, <2>2, <3>1, <3>3
    <3> QED
      BY <3>1, <3>2, <3>3
  <2> QED
    BY <2>1, <2>2
<1>10. \A x \in Workers : Current(inv[x])'
  <2> SUFFICES ASSUME NEW x \in Workers PROVE Current(inv[x])'
    OBVIOUS
  <2>1. CASE inv'[x].pc = "idle"
    BY <2>1 DEF Current
  <2>2. CASE inv'[x].pc # "idle"
    <3>1. inv'[x] = inv[x] /\ ~At(x, "idle")
      BY <1>4, <2>2 DEF At
    <3>2. inv[x] \in Invocation /\ inv[x].ver \in Versions
      BY <3>1, Running
    <3> DEFINE i == inv[x]
    <3>3. ASSUME NEW j, j = i PROVE Current(j)'
      <4>1. Current(j)
        BY <3>3 DEF CatalogInv
      <4>2. j.pc \in Working => raw'[j.ver] = raw[j.ver] \/ (j.ver = v /\ ~UsedOnce)
        BY <1>1, <1>7, <3>2, <3>3
      <4>3. \A s : LastGrant(j.ver, s)' <=> LastGrant(j.ver, s)
        BY <1>6
      <4>4. \A s : LastGrant(j.ver, s) => s \in Tokens /\ grants'[s].sum = grants[s].sum
        BY <1>3 DEF LastGrant, GrantsKept
      <4>5. \A e : Announced(j.ver, e)' <=> Announced(j.ver, e)
        BY <1>3, LastKept
      <4>6. j.pc \in Working /\ Clean(j.ver) => Clean(j.ver)'
        BY <1>3, <1>14, <4>2, CleanKept
      <4>7. j.pc = "head" => LastGrant(j.ver, j.token)' /\ j.sum = grants'[j.token].sum
        BY <4>1, <4>3, <4>4 DEF Current
      <4>8. j.pc = "get" =>
              \/ j.token = 0 /\ j.sum = NoData /\ Clean(j.ver)'
              \/ /\ LastGrant(j.ver, j.token)' /\ j.sum = grants'[j.token].sum
                 /\ raw'[j.ver] = NoObject \/ raw'[j.ver].token = j.token
        <5>1. j.ver = v /\ LastGrant(j.ver, j.token) => j.token = t
          BY <1>1, LastUnique
        <5> QED
          BY <1>14, <4>1, <4>2, <4>3, <4>4, <4>6, <5>1 DEF Current, Working
      <4>9. j.pc \in {"delRaw", "promote"} =>
              /\ j.data \in Data \ BadTars /\ Clean(j.ver)'
              /\ UsedOnce \/ j.token # 0 => Announced(j.ver, j.data)'
        BY <4>1, <4>5, <4>6 DEF Current, Working
      <4>10. /\ j.pc \in {"recallSet", "promoteSet", "toggleSet"} => pkgs'[j.ver].status # "NONE"
             /\ j.pc \in {"restoreQuery", "restoreSupersede", "restoreSet"} =>
                   j.op = "restore" /\ pkgs'[j.ver].status = "SUPERSEDED"
             /\ j.pc \in {"deleteRaw", "deleteRow"} =>
                   j.op = "delete" /\ pkgs'[j.ver].status # "NONE"
        BY <4>1 DEF Current
      <4> QED
        BY <4>7, <4>8, <4>9, <4>10 DEF Current
    <3> QED
      BY <3>1, <3>3
  <2> QED
    BY <2>1, <2>2
<1>11. UsedOnce => ServesWhatWasAnnounced'
  <2>1. \A u, e : Announced(u, e)' <=> Announced(u, e)
    BY <1>3, LastKept
  <2>2. \A u \in Versions : pkgs'[u] = pkgs[u]
    OBVIOUS
  <2> SUFFICES ASSUME UsedOnce, NEW u \in Versions, pkgs[u].status \in {"ACTIVE", "SUPERSEDED"}
               PROVE  pkgs[u].enc \in Data \ BadTars /\ Announced(u, pkgs[u].enc)'
    BY DEF ServesWhatWasAnnounced
  <2> QED
    BY <2>1, <2>2 DEF CatalogInv, ServesWhatWasAnnounced
<1>12. GrantsInOrder'
  <2> SUFFICES ASSUME NEW s \in Tokens, grants'[s].state # "none"
               PROVE  LET u == grants'[s].ver IN
                      /\ s <= issued /\ grants'[s].sum \in Data
                      /\ grants'[s].state = "open" =>
                            /\ LastGrant(grants[s].ver, s)' /\ events'[u] = 0
                            /\ pkgs[u].status = "NONE" \/ pkgs[u].token = s
                            /\ \A x \in Workers : inv'[x].ver = u => inv'[x].pc \notin Working
    BY DEF GrantsInOrder
  <2> DEFINE u == grants[s].ver
  <2>1. /\ grants[s].state # "none" /\ u \in Versions
        /\ grants'[s].ver = u /\ grants'[s].sum = grants[s].sum
    BY <1>3 DEF GrantsKept, Granted, Typed
  <2>2. /\ s <= issued /\ grants[s].sum \in Data
        /\ grants[s].state = "open" =>
              /\ LastGrant(u, s) /\ events[u] = 0
              /\ pkgs[u].status = "NONE" \/ pkgs[u].token = s
              /\ \A x \in Workers : inv[x].ver = u => inv[x].pc \notin Working
    BY <2>1 DEF CatalogInv, GrantsInOrder
  <2>3. grants'[s].state = "open" => s # t /\ grants[s].state = "open"
    BY <1>2 DEF Typed, TypeOK, Grant
  <2>4. grants'[s].state = "open" => u # v
    <3>1. ASSUME grants'[s].state = "open", u = v PROVE LastGrant(v, s)
      BY <2>2, <2>3, <3>1
    <3>2. LastGrant(v, s) => s = t
      BY <1>1, LastUnique
    <3> HIDE DEF u
    <3> QED
      BY <2>3, <3>1, <3>2
  <2>5. grants'[s].state = "open" => LastGrant(u, s)'
    BY <1>6, <2>1, <2>2, <2>3
  <2>6. ASSUME grants'[s].state = "open", NEW x \in Workers, inv'[x].ver = u
        PROVE  inv'[x].pc \notin Working
    BY <1>4, <2>2, <2>3, <2>6 DEF Working
  <2> QED
    BY <1>7, <2>1, <2>2, <2>3, <2>4, <2>5, <2>6
<1>13. Uploads'
  <2> SUFFICES ASSUME NEW u \in Workers, inv'[u].pc = "putRow"
               PROVE  LET i == inv'[u] IN
                      /\ i.token <= issued /\ grants'[i.token].state = "none" /\ i.sum \in Data
                      /\ \A s \in Tokens :
                            grants'[s].state # "none" /\ grants'[s].ver = i.ver => s < i.token
                      /\ events'[i.ver] = 0 /\ pkgs[i.ver].status # "ACTIVE"
                      /\ \A x \in Workers \ {u} :
                            /\ inv'[x].ver = i.ver => inv'[x].pc \in {"idle", "complete"}
                            /\ inv'[x].pc = "putRow" => inv'[x].token # i.token
    BY DEF Uploads, At
  <2>1. inv'[u] = inv[u] /\ At(u, "putRow") /\ ~At(u, "idle")
    BY <1>4 DEF At
  <2>2. inv[u].ver \in Versions \ {v} /\ inv[u].token \in Tokens
    BY <1>1, <2>1, Running DEF At, Typed, TypeOK, Handlers, NamedWorker, Invocation
  <2>3. /\ grants'[inv[u].token].state = "none"
        /\ \A s \in Tokens : grants'[s].state # "none" /\ grants'[s].ver = inv[u].ver => s < inv[u].token
    BY <1>3, <2>1, <2>2 DEF GrantsKept, Granted, CatalogInv, Uploads
  <2>4. ASSUME NEW x \in Workers \ {u}
        PROVE  /\ inv'[x].ver = inv[u].ver => inv'[x].pc \in {"idle", "complete"}
               /\ inv'[x].pc = "putRow" => inv'[x].token # inv[u].token
    BY <1>4, <2>1 DEF CatalogInv, Uploads, At
  <2> QED
    BY <1>7, <2>1, <2>2, <2>3, <2>4 DEF CatalogInv, Uploads
<1>15. ValidIsLast'
  <2>1. \A s \in Tokens : Valid(s)' => Valid(s)
    <3>1. \A s \in Tokens \ {t} : grants'[s] = grants[s]
      BY <1>2 DEF Typed, TypeOK
    <3> QED
      BY <3>1 DEF Valid
  <2>2. \A x \in Workers : inv'[x].pc = "putRow" => inv'[x] = inv[x]
    BY <1>4
  <2> QED
    BY <1>3, <2>1, <2>2, ValidKept DEF CatalogInv
<1>16. NoneAwaited'
  BY <1>4 DEF CatalogInv, NoneAwaited, Working
<1> QED
  BY <1>5, <1>9, <1>10, <1>11, <1>12, <1>13, <1>15, <1>16 DEF CatalogInv
(* A handler that ends leaves nothing to say about it.                     *)
LEMMA Ends ==
    ASSUME Typed, NEW w \in Workers, ~At(w, "idle"), Return(w)
    PROVE  Idle \in Invocation /\ Follows(w, Idle) /\ Current(inv[w])'
<1>1. inv'[w] = Idle
  BY DEF Return, Become, Typed, TypeOK
<1> QED
  BY <1>1, IdleTyped DEF Follows, Return, Working, Current

LEMMA Finished ==
    ASSUME Typed, CatalogInv, NEW w \in Workers, NEW d \in Data, CompleteFinish(w, d)
    PROVE  CatalogInv'
<1>1. At(w, "complete") /\ ~At(w, "idle") /\ Return(w) /\ UNCHANGED <<pkgs, issued>>
  BY DEF CompleteFinish, At
<1>2. inv[w].token \in Tokens
  BY <1>1 DEF At, Typed, TypeOK, Handlers, NamedWorker, Invocation
<1>3. CASE grants[inv[w].token].state = "open"
  BY <1>1, <1>2, <1>3, Arrived DEF CompleteFinish, Valid
<1>4. CASE grants[inv[w].token].state # "open"
  <2>1. UNCHANGED <<raw, events, grants>>
    BY <1>4 DEF CompleteFinish
  <2>2. Calm /\ Calmer
    BY <1>1, <2>1 DEF Calm, Calmer
  <2> QED
    BY <1>1, <2>1, <2>2, Ends, CalmStep
<1> QED
  BY <1>3, <1>4

LEMMA Sent ==
    ASSUME Typed, CatalogInv, NEW t \in Tokens, NEW d \in Data, ClientPut(t, d)
    PROVE  CatalogInv'
  BY Arrived DEF ClientPut

(* Nothing but the grants, which are kept, and the events has changed: a   *)
(* grant is still open only if it was, and then no event of its version or *)
(* of an upload about to be recorded has come.                             *)
LEMMA Aside ==
    ASSUME Typed, CatalogInv, GrantsKept, UNCHANGED <<pkgs, raw, issued, inv>>,
           \A t \in Tokens :
              /\ Valid(t)' => Valid(t)
              /\ grants'[t].state = "open" =>
                    grants[t].state = "open" /\ events'[grants[t].ver] = events[grants[t].ver],
           \A w \in Workers : At(w, "putRow") => events'[inv[w].ver] = events[inv[w].ver]
    PROVE  CatalogInv'
<1>1. Calm
  BY DEF Calm
<1>2. Alone' /\ RowsInOrder' /\ NoneAwaited' /\ (UsedOnce => ServesWhatWasAnnounced')
  BY <1>1, CalmRows, CalmServes DEF CatalogInv, Alone, NoneAwaited, At
<1>7. ValidIsLast'
  BY ValidKept DEF CatalogInv
<1>3. \A v, t : LastGrant(v, t)' <=> LastGrant(v, t)
  BY LastKept
<1>4. \A w \in Workers : Current(inv[w])'
  <2>1. \A v, d : Announced(v, d)' <=> Announced(v, d)
    BY LastKept
  <2>2. \A v : Clean(v) => Clean(v)'
    BY CleanKept
  <2>3. \A v, t : LastGrant(v, t) => t \in Tokens /\ grants'[t].sum = grants[t].sum
    BY DEF LastGrant, GrantsKept
  <2>4. ASSUME NEW i, Current(i) PROVE Current(i)'
    BY <1>3, <2>1, <2>2, <2>3, <2>4 DEF Current
  <2> QED
    BY <2>4 DEF CatalogInv
<1>5. GrantsInOrder'
  <2> SUFFICES ASSUME NEW t \in Tokens, grants'[t].state # "none"
               PROVE  LET v == grants[t].ver IN
                      /\ grants'[t].ver = v
                      /\ t <= issued /\ grants'[t].sum \in Data
                      /\ grants'[t].state = "open" =>
                            /\ LastGrant(grants[t].ver, t)' /\ events'[v] = 0
                            /\ pkgs[v].status = "NONE" \/ pkgs[v].token = t
                            /\ \A x \in Workers : inv[x].ver = v => inv[x].pc \notin Working
    BY DEF GrantsInOrder
  <2> DEFINE v == grants[t].ver
  <2>1. /\ grants[t].state # "none" /\ grants'[t].ver = v /\ grants'[t].sum = grants[t].sum
    BY DEF GrantsKept, Granted
  <2>2. /\ t <= issued /\ grants[t].sum \in Data
        /\ grants[t].state = "open" =>
              /\ LastGrant(v, t) /\ events[v] = 0
              /\ pkgs[v].status = "NONE" \/ pkgs[v].token = t
              /\ \A x \in Workers : inv[x].ver = v => inv[x].pc \notin Working
    BY <2>1 DEF CatalogInv, GrantsInOrder
  <2>3. grants'[t].state = "open" => LastGrant(v, t)'
    BY <1>3, <2>1, <2>2
  <2> QED
    BY <2>1, <2>2, <2>3
<1>6. Uploads'
  <2>1. ASSUME NEW w \in Workers, At(w, "putRow")
        PROVE  /\ inv[w].token \in Tokens /\ grants'[inv[w].token].state = "none"
               /\ events'[inv[w].ver] = 0
    BY <2>1 DEF CatalogInv, Uploads, GrantsKept, Granted, At, Typed, TypeOK, Handlers,
                NamedWorker, Invocation
  <2>2. \A t \in Tokens : grants'[t].state # "none" <=> grants[t].state # "none"
    BY DEF GrantsKept, Granted
  <2>3. \A t \in Tokens : grants'[t].ver = grants[t].ver
    BY DEF GrantsKept
  <2> QED
    BY <2>1, <2>2, <2>3 DEF CatalogInv, Uploads, At
<1> QED
  BY <1>2, <1>4, <1>5, <1>6, <1>7 DEF CatalogInv

LEMMA Expired ==
    ASSUME Typed, CatalogInv, NEW t \in Tokens, Expire(t)
    PROVE  CatalogInv'
<1>1. Valid(t) /\ grants' = [grants EXCEPT ![t].state = "used"]
      /\ UNCHANGED <<pkgs, raw, issued, events, inv>>
  BY DEF Expire
<1>2. \A s \in Tokens : grants[s] \in Grant
  BY DEF Typed, TypeOK
<1>3. GrantsKept /\ \A s \in Tokens : grants'[s].state = "open" => grants[s].state = "open"
  BY <1>1, <1>2 DEF GrantsKept, Granted, Valid, Typed, TypeOK, Grant
<1>4. \A s \in Tokens : Valid(s)' => Valid(s)
  <2>1. \A s \in Tokens \ {t} : grants'[s] = grants[s]
    BY <1>1 DEF Typed, TypeOK
  <2> QED
    BY <1>1, <2>1 DEF Valid
<1> QED
  BY <1>1, <1>3, <1>4, Aside

LEMMA Duplicated ==
    ASSUME Typed, CatalogInv, OrderlyUse, NEW v \in Versions, Duplicate(v)
    PROVE  CatalogInv'
<1>1. PICK t \in Tokens : grants[t].state # "open" /\ LastGrant(v, t)
  BY DEF Duplicate, OrderlyUse
<1>2. /\ \A w \in Workers : inv[w].ver = v => ~At(w, "putRow")
      /\ events' = [events EXCEPT ![v] = @ + 1]
      /\ UNCHANGED <<pkgs, raw, grants, issued, inv>>
  BY DEF Duplicate, OrderlyUse
<1>3. GrantsKept
  BY <1>2 DEF GrantsKept, Granted
<1>4. \A u \in Versions \ {v} : events'[u] = events[u]
  BY <1>2 DEF Typed, TypeOK
<1>5. \A s \in Tokens : grants[s].state = "open" => grants[s].ver \in Versions \ {v}
  <2> SUFFICES ASSUME NEW s \in Tokens, grants[s].state = "open"
               PROVE  grants[s].ver \in Versions \ {v}
    OBVIOUS
  <2>1. grants[s].ver \in Versions /\ LastGrant(grants[s].ver, s)
    BY DEF Typed, CatalogInv, GrantsInOrder
  <2>2. LastGrant(v, s) => s = t
    BY <1>1, LastUnique
  <2> QED
    BY <1>1, <2>1, <2>2
<1>6. \A w \in Workers : At(w, "putRow") => inv[w].ver \in Versions \ {v}
  BY <1>2, Running DEF At
<1>7. \A s \in Tokens : Valid(s)' => Valid(s)
  BY <1>2, ValidSame
<1> QED
  BY <1>2, <1>3, <1>4, <1>5, <1>6, <1>7, Aside

(* put_item writes the row and hands out the grant.                        *)
LEMMA Recorded ==
    ASSUME Typed, CatalogInv, NEW w \in Workers, UploadPut(w)
    PROVE  CatalogInv'
<1> DEFINE i == inv[w]
           v == i.ver
           t == i.token
<1>1. At(w, "putRow") /\ ~At(w, "idle") /\ Return(w) /\ UNCHANGED <<raw, issued, events>>
  BY DEF UploadPut, At
<1>2. v \in Versions /\ t \in Tokens /\ i \in Invocation /\ t # 0
  BY <1>1, CatalogAssumption
  DEF At, Typed, TypeOK, Handlers, NamedWorker, Invocation, Tokens
<1>3. /\ t <= issued /\ grants[t].state = "none" /\ i.sum \in Data
      /\ \A s \in Tokens : grants[s].state # "none" /\ grants[s].ver = v => s < t
      /\ events[v] = 0 /\ pkgs[v].status # "ACTIVE"
      /\ \A x \in Workers \ {w} :
            /\ inv[x].ver = v => inv[x].pc \in {"idle", "complete"}
            /\ At(x, "putRow") => inv[x].token # t
  BY <1>1 DEF CatalogInv, Uploads
<1>4. /\ pkgs'[v].status = "PENDING" /\ pkgs'[v].token = t /\ pkgs'[v].sum = i.sum
      /\ \A u \in Versions \ {v} : pkgs'[u] = pkgs[u]
  BY <1>2 DEF UploadPut, NoRow, Typed, TypeOK
<1>5. /\ grants'[t].state = "open" /\ grants'[t].ver = v /\ grants'[t].sum = i.sum
      /\ \A s \in Tokens \ {t} : grants'[s] = grants[s]
  BY <1>2 DEF UploadPut, Typed, TypeOK
<1>6. inv'[w] = Idle /\ \A x \in Workers \ {w} : inv'[x] = inv[x]
  BY <1>1, Moves, IdleTyped DEF Return, Typed
<1>7. \A x \in Workers : inv'[x] = inv[x] \/ (inv'[x].pc = "idle" /\ inv'[x].op = "event" /\ inv'[x].ver = 0)
  BY <1>6 DEF Idle
<1> HIDE DEF v, t, i
<1>8. \A u, s : u # v => (LastGrant(u, s)' <=> LastGrant(u, s))
  BY <1>2, <1>3, <1>5 DEF LastGrant
<1>9. \A u, s : u = v /\ s = t => LastGrant(u, s)'
  BY <1>2, <1>3, <1>5, CatalogAssumption DEF LastGrant, Tokens
<1>10. ASSUME NEW u, NEW s, u # v, LastGrant(u, s)
       PROVE  s \in Tokens \ {t} /\ grants'[s] = grants[s]
  BY <1>3, <1>5, <1>10 DEF LastGrant
<1>11. \A u, d : u # v => (Announced(u, d) => Announced(u, d)')
  BY <1>8, <1>10 DEF Announced
<1>12. ASSUME NEW u, u # v, Clean(u) PROVE Clean(u)'
  <2>1. CASE raw[u] = NoObject
    BY <1>1, <2>1 DEF Clean
  <2>2. CASE raw[u] # NoObject
    <3>1. LastGrant(u, raw[u].token) /\ raw'[u] = raw[u]
      BY <1>1, <1>12, <2>2 DEF Clean
    <3>2. LastGrant(u, raw[u].token)' /\ grants'[raw[u].token] = grants[raw[u].token]
      BY <1>8, <1>10, <1>12, <3>1
    <3> QED
      BY <1>12, <2>2, <3>1, <3>2 DEF Clean
  <2> QED
    BY <2>1, <2>2
<1>13. Alone'
  <2>1. \A x \in Workers : /\ ~At(x, "idle")' => inv'[x] = inv[x]
                           /\ At(x, "idle") => At(x, "idle")'
    BY <1>7 DEF At
  <2> QED
    BY <1>7, <2>1 DEF CatalogInv, Alone, At
<1>14. RowsInOrder'
  <2> SUFFICES ASSUME NEW u \in Versions
               PROVE  /\ pkgs'[u].token # 0 =>
                            /\ pkgs'[u].status # "NONE" /\ LastGrant(u, pkgs[u].token)'
                            /\ pkgs'[u].sum = grants'[pkgs'[u].token].sum
                      /\ pkgs'[u].token = 0 /\ pkgs'[u].status # "NONE" =>
                            pkgs'[u].sum = NoData /\ Clean(u)'
    BY DEF RowsInOrder
  <2>1. CASE u = v
    <3>1. \A s : s = t => LastGrant(u, s)'
      BY <1>9, <2>1
    <3> QED
      BY <1>2, <1>4, <1>5, <2>1, <3>1
  <2>2. CASE u # v
    <3>1. pkgs'[u] = pkgs[u]
      BY <1>4, <2>2
    <3>2. /\ pkgs[u].token # 0 =>
                /\ pkgs[u].status # "NONE" /\ LastGrant(u, pkgs[u].token)
                /\ pkgs[u].sum = grants[pkgs[u].token].sum
          /\ pkgs[u].token = 0 /\ pkgs[u].status # "NONE" => pkgs[u].sum = NoData /\ Clean(u)
      BY DEF CatalogInv, RowsInOrder
    <3>3. LastGrant(u, pkgs[u].token) =>
            LastGrant(u, pkgs[u].token)' /\ grants'[pkgs[u].token] = grants[pkgs[u].token]
      BY <1>8, <1>10, <2>2, <3>1
    <3> QED
      BY <1>12, <2>2, <3>1, <3>2, <3>3
  <2> QED
    BY <2>1, <2>2
<1>15. UsedOnce => ServesWhatWasAnnounced'
  <2> SUFFICES ASSUME UsedOnce, NEW u \in Versions, pkgs'[u].status \in {"ACTIVE", "SUPERSEDED"}
               PROVE  pkgs'[u].enc \in Data \ BadTars /\ Announced(u, pkgs[u].enc)'
    BY DEF ServesWhatWasAnnounced
  <2>1. u # v /\ pkgs'[u] = pkgs[u]
    BY <1>4
  <2>2. pkgs[u].enc \in Data \ BadTars /\ Announced(u, pkgs[u].enc)
    BY <2>1 DEF CatalogInv, ServesWhatWasAnnounced
  <2> QED
    BY <1>11, <2>1, <2>2
<1>16. \A x \in Workers : Current(inv[x])'
  <2> SUFFICES ASSUME NEW x \in Workers PROVE Current(inv[x])'
    OBVIOUS
  <2>1. CASE inv'[x].pc \in {"idle", "complete"}
    BY <2>1 DEF Current
  <2>2. CASE inv'[x].pc \notin {"idle", "complete"}
    <3>1. inv'[x] = inv[x] /\ x # w /\ inv[x].ver # v
      BY <1>3, <1>6, <1>7, <2>2 DEF Idle
    <3>2. inv[x].ver \in Versions /\ inv[x] \in Invocation
      BY <2>2, <3>1, Running DEF At
    <3>3. ASSUME NEW j, j = inv[x] PROVE Current(j)'
      <4>1. Current(j) /\ j.ver # v /\ pkgs'[j.ver] = pkgs[j.ver] /\ raw'[j.ver] = raw[j.ver]
        BY <1>1, <1>4, <3>1, <3>2, <3>3 DEF CatalogInv
      <4>2. \A s : LastGrant(j.ver, s)' <=> LastGrant(j.ver, s)
        BY <1>8, <4>1
      <4>3. \A s : LastGrant(j.ver, s) => grants'[s] = grants[s]
        BY <1>10, <4>1
      <4>4. \A d : Announced(j.ver, d) => Announced(j.ver, d)'
        BY <1>11, <4>1
      <4>5. Clean(j.ver) => Clean(j.ver)'
        BY <1>12, <4>1
      <4> QED
        BY <4>1, <4>2, <4>3, <4>4, <4>5 DEF Current
    <3> QED
      BY <3>1, <3>3
  <2> QED
    BY <2>1, <2>2
<1>17. GrantsInOrder'
  <2> SUFFICES ASSUME NEW s \in Tokens, grants'[s].state # "none"
               PROVE  /\ s <= issued /\ grants'[s].sum \in Data
                      /\ grants'[s].state = "open" =>
                            /\ LastGrant(grants[s].ver, s)' /\ events[grants'[s].ver] = 0
                            /\ \/ pkgs'[grants'[s].ver].status = "NONE"
                               \/ pkgs'[grants'[s].ver].token = s
                            /\ \A x \in Workers : inv'[x].ver = grants'[s].ver => inv'[x].pc \notin Working
    BY <1>1 DEF GrantsInOrder
  <2>1. CASE s = t
    <3>1. \A u : u = v => LastGrant(u, s)'
      BY <1>9, <2>1
    <3>2. LastGrant(grants[s].ver, s)'
      BY <1>5, <2>1, <3>1
    <3>3. ASSUME NEW x \in Workers, inv'[x].ver = v PROVE inv'[x].pc \notin Working
      BY <1>3, <1>6, <3>3, IdleTyped DEF Working
    <3> QED
      BY <1>3, <1>4, <1>5, <2>1, <3>2, <3>3
  <2>2. CASE s # t
    <3> DEFINE u == grants[s].ver
    <3>1. grants'[s] = grants[s] /\ u \in Versions
      BY <1>5, <2>2 DEF Typed
    <3>2. /\ s <= issued /\ grants[s].sum \in Data
          /\ grants[s].state = "open" =>
                /\ LastGrant(u, s) /\ events[u] = 0
                /\ pkgs[u].status = "NONE" \/ pkgs[u].token = s
                /\ \A x \in Workers : inv[x].ver = u => inv[x].pc \notin Working
      BY <3>1 DEF CatalogInv, GrantsInOrder
    <3>3. grants[s].state = "open" => u # v
      BY <1>1, <3>2 DEF At, Working, v, i
    <3>4. grants[s].state = "open" => LastGrant(u, s)'
      BY <1>8, <3>1, <3>2, <3>3
    <3>5. ASSUME grants[s].state = "open", NEW x \in Workers, inv'[x].ver = u
          PROVE  inv'[x].pc \notin Working
      BY <1>7, <3>2, <3>5 DEF Working
    <3> QED
      BY <1>4, <3>1, <3>2, <3>3, <3>4, <3>5
  <2> QED
    BY <2>1, <2>2
<1>18. Uploads'
  <2> SUFFICES ASSUME NEW u \in Workers, inv'[u].pc = "putRow"
               PROVE  LET j == inv'[u] IN
                      /\ j.token <= issued /\ grants'[j.token].state = "none" /\ j.sum \in Data
                      /\ \A s \in Tokens :
                            grants'[s].state # "none" /\ grants'[s].ver = j.ver => s < j.token
                      /\ events[j.ver] = 0 /\ pkgs'[j.ver].status # "ACTIVE"
                      /\ \A x \in Workers \ {u} :
                            /\ inv'[x].ver = j.ver => inv'[x].pc \in {"idle", "complete"}
                            /\ inv'[x].pc = "putRow" => inv'[x].token # j.token
    BY <1>1 DEF Uploads, At
  <2>1. inv'[u] = inv[u] /\ At(u, "putRow") /\ ~At(u, "idle") /\ u # w
    BY <1>6, <1>7, IdleTyped DEF At
  <2>2. inv[u].ver \in Versions \ {v} /\ inv[u].token \in Tokens \ {t}
    BY <1>3, <2>1, Running DEF At, Typed, TypeOK, Handlers, NamedWorker, Invocation
  <2>3. /\ grants'[inv[u].token].state = "none"
        /\ \A s \in Tokens : grants'[s].state # "none" /\ grants'[s].ver = inv[u].ver => s < inv[u].token
    BY <1>5, <2>1, <2>2 DEF CatalogInv, Uploads
  <2>4. ASSUME NEW x \in Workers \ {u}
        PROVE  /\ inv'[x].ver = inv[u].ver => inv'[x].pc \in {"idle", "complete"}
               /\ inv'[x].pc = "putRow" => inv'[x].token # inv[u].token
    BY <1>7, <2>1 DEF CatalogInv, Uploads, At
  <2> QED
    BY <1>4, <2>1, <2>2, <2>3, <2>4 DEF CatalogInv, Uploads
<1>19. ValidIsLast'
  <2> SUFFICES ASSUME NEW s \in Tokens, Valid(s)'
               PROVE  /\ LastGrant(grants[s].ver, s)'
                      /\ \A x \in Workers : inv'[x].pc = "putRow" => inv'[x].ver # grants'[s].ver
    BY DEF ValidIsLast, At
  <2>1. \A x \in Workers : inv'[x].pc = "putRow" =>
           x # w /\ inv'[x] = inv[x] /\ At(x, "putRow") /\ inv[x].ver # v
    BY <1>3, <1>6, IdleTyped DEF At
  <2>2. CASE s = t
    <3>1. \A u : u = v => LastGrant(u, s)'
      BY <1>9, <2>2
    <3>2. LastGrant(grants[s].ver, s)'
      BY <1>5, <2>2, <3>1
    <3> QED
      BY <1>5, <2>1, <2>2, <3>2
  <2>3. CASE s # t
    <3> DEFINE u == grants[s].ver
    <3>1. Valid(s) /\ grants'[s] = grants[s]
      BY <1>5, <2>3 DEF Valid
    <3>2. /\ LastGrant(u, s)
          /\ \A x \in Workers : At(x, "putRow") => inv[x].ver # u
      BY <3>1 DEF CatalogInv, ValidIsLast
    <3>3. u # v
      BY <1>1, <3>2 DEF v, i
    <3>4. LastGrant(u, s)'
      BY <1>8, <3>1, <3>2, <3>3
    <3> QED
      BY <2>1, <3>1, <3>2, <3>4
  <2> QED
    BY <2>2, <2>3
<1>20. NoneAwaited'
  <2> SUFFICES ASSUME NEW x \in Workers, inv'[x].pc \in Working \ {"putRow"}, inv'[x].token = 0
               PROVE  pkgs'[inv'[x].ver].status # "PENDING"
    BY DEF NoneAwaited
  <2>1. inv'[x] = inv[x] /\ inv[x].ver # v /\ ~At(x, "idle")
    BY <1>3, <1>6, <1>7, IdleTyped DEF Working, At
  <2>2. inv[x].ver \in Versions
    BY <2>1, Running
  <2> QED
    BY <1>4, <2>1, <2>2 DEF CatalogInv, NoneAwaited
<1> QED
  BY <1>13, <1>14, <1>15, <1>16, <1>17, <1>18, <1>19, <1>20 DEF CatalogInv
----------------------------------------------------------------------------
(* Processing and administration                                           *)

(* A running handler goes on at another call.                              *)
LEMMA GoesOn ==
    ASSUME Typed, NEW w \in Workers, ~At(w, "idle"), ~At(w, "complete"), ~At(w, "putRow"),
           NEW pc \in Pc \ {"idle", "putRow", "complete"}, Goto(w, pc),
           pc \in Working => inv[w].pc \in Working
    PROVE  LET r == [inv[w] EXCEPT !.pc = pc] IN
           /\ r \in Invocation /\ Follows(w, r) /\ inv'[w] = r
           /\ r.pc = pc /\ r.ver = inv[w].ver /\ r.op = inv[w].op
           /\ r.token = inv[w].token /\ r.sum = inv[w].sum /\ r.data = inv[w].data
<1> DEFINE r == [inv[w] EXCEPT !.pc = pc]
<1>1. inv[w] \in Invocation
  BY Running
<1>2. /\ r \in Invocation /\ r.pc = pc /\ r.ver = inv[w].ver /\ r.op = inv[w].op
      /\ r.token = inv[w].token /\ r.sum = inv[w].sum /\ r.data = inv[w].data
  BY <1>1 DEF Invocation
<1>3. Become(w, r)
  BY DEF Goto
<1> HIDE DEF r
<1>4. inv'[w] = r
  BY <1>2, <1>3, Moves DEF Typed
<1>5. Follows(w, r)
  BY <1>2, <1>3 DEF Follows, At
<1> QED
  BY <1>2, <1>4, <1>5 DEF r

LEMMA DeleteCalm ==
    ASSUME Typed, NEW v \in Versions, DeleteRaw(v), UNCHANGED pkgs
    PROVE  Calm /\ Calmer
  BY DEF DeleteRaw, Calm, Calmer, Typed, TypeOK

LEMMA SupersedeCalm ==
    ASSUME Typed, NEW u \in Versions, SupersedeOne(u), UNCHANGED raw
    PROVE  Calm /\ Calmer
<1>1. \A v \in Versions : pkgs[v] \in Package
  BY DEF Typed, TypeOK
<1>2. \/ pkgs' = pkgs
      \/ /\ pkgs[u].status = "ACTIVE" /\ pkgs'[u] = [pkgs[u] EXCEPT !.status = "SUPERSEDED"]
         /\ \A v \in Versions \ {u} : pkgs'[v] = pkgs[v]
  BY DEF SupersedeOne, SetStatus, Typed, TypeOK
<1> QED
  BY <1>1, <1>2 DEF Calm, Calmer, Package

(* The calls that neither make a version ACTIVE nor remove it.             *)
LEMMA Processed ==
    ASSUME Typed, CatalogInv, NEW w \in Workers,
           \/ DeleteOrphan(w) \/ CheckToken(w) \/ ReadArtifact(w) \/ DeletePlain(w)
           \/ QueryOlder(w) \/ SupersedeOlder(w)
           \/ QuarantineDelete(w) \/ QuarantineMark(w) \/ Die(w)
    PROVE  CatalogInv'
<1> DEFINE v == inv[w].ver
<1>1. ~At(w, "idle")
  BY DEF At, DeleteOrphan, CheckToken, ReadArtifact, DeletePlain, QueryOlder,
         SupersedeOlder, QuarantineDelete, QuarantineMark, Die
<1>2. inv[w] \in Invocation /\ v \in Versions
  BY <1>1, Running
<1>3. Current(inv[w])
  BY DEF CatalogInv
<1>4. ASSUME Return(w), Calm, Calmer, UNCHANGED <<grants, issued, events>> PROVE CatalogInv'
  BY <1>1, <1>4, Ends, CalmStep
<1>5. ASSUME UNCHANGED <<pkgs, raw>> PROVE Calm /\ Calmer
  BY <1>5 DEF Calm, Calmer
<1>6. CASE DeleteOrphan(w)
  BY <1>2, <1>4, <1>6, DeleteCalm DEF DeleteOrphan
<1>7. ASSUME NEW pc \in {"quarDelete", "quarMark"}, Goto(w, pc),
             ~At(w, "complete"), ~At(w, "putRow"), Calm, Calmer,
             UNCHANGED <<grants, issued, events>>
      PROVE  CatalogInv'
  <2> DEFINE r == [inv[w] EXCEPT !.pc = pc]
  <2>1. /\ r \in Invocation /\ Follows(w, r) /\ inv'[w] = r /\ r.pc = pc
    BY <1>1, <1>7, GoesOn DEF Pc, Working
  <2> HIDE DEF r
  <2>2. Current(inv[w])'
    BY <2>1 DEF Current
  <2> QED
    BY <1>7, <2>1, <2>2, CalmStep
<1>8. CASE CheckToken(w)
  <2>1. /\ At(w, "head") /\ ~At(w, "complete") /\ ~At(w, "putRow") /\ Calm /\ Calmer
        /\ UNCHANGED <<pkgs, raw, grants, issued, events>>
    BY <1>5, <1>8 DEF CheckToken, At
  <2>2. CASE raw[v].token = inv[w].token /\ Goto(w, "get")
    <3> DEFINE r == [inv[w] EXCEPT !.pc = "get"]
    <3>1. /\ r \in Invocation /\ Follows(w, r) /\ inv'[w] = r /\ r.pc = "get" /\ r.ver = v
          /\ r.token = inv[w].token /\ r.sum = inv[w].sum
      BY <1>1, <2>1, <2>2, GoesOn DEF Pc, Working, At
    <3> HIDE DEF r
    <3>2. LastGrant(v, inv[w].token) /\ inv[w].sum = grants[inv[w].token].sum
      BY <1>3, <2>1 DEF Current, At
    <3>3. \A s, u : LastGrant(u, s)' <=> LastGrant(u, s)
      BY <2>1 DEF LastGrant
    <3>4. LastGrant(r.ver, r.token) /\ r.sum = grants[r.token].sum /\ raw[r.ver].token = r.token
      BY <2>2, <3>1, <3>2
    <3>5. LastGrant(inv[w].ver, inv[w].token)'
      BY <3>1, <3>3, <3>4
    <3>6. Current(inv[w])'
      BY <2>1, <3>1, <3>4, <3>5 DEF Current
    <3> QED
      BY <2>1, <3>1, <3>6, CalmStep
  <2>3. CASE Goto(w, "quarDelete")
    BY <1>7, <2>1, <2>3
  <2> QED
    BY <1>8, <2>2, <2>3 DEF CheckToken
<1>9. CASE ReadArtifact(w)
  <2> DEFINE d == raw[v].data
             r == [inv[w] EXCEPT !.pc = "delRaw", !.data = d]
  <2>1. /\ At(w, "get") /\ ~At(w, "complete") /\ ~At(w, "putRow") /\ Calm /\ Calmer
        /\ UNCHANGED <<pkgs, raw, grants, issued, events>>
    BY <1>5, <1>9 DEF ReadArtifact, At, catalog
  <2>2. CASE Return(w)
    BY <1>4, <2>1, <2>2
  <2>3. CASE Goto(w, "quarDelete")
    BY <1>7, <2>1, <2>3
  <2>4. CASE d # NoData /\ ~Refused(d, inv[w].sum) /\ Become(w, r)
    <3>1. d \in Data \ BadTars /\ (inv[w].sum # NoData => d = inv[w].sum)
      BY <1>2, <2>4 DEF Refused, Typed, TypeOK, Object
    <3>2. /\ r \in Invocation /\ r.pc = "delRaw" /\ r.ver = v /\ r.op = inv[w].op
          /\ r.data = d /\ r.token = inv[w].token
      BY <1>2, <3>1 DEF Invocation, Pc
    <3> HIDE DEF r
    <3>3. raw[v] # NoObject
      BY <2>4, EmptyTyped
    <3>4. Clean(v)
      <4>1. CASE inv[w].sum = NoData /\ Clean(v)
        BY <4>1
      <4>2. CASE /\ LastGrant(v, inv[w].token) /\ inv[w].sum = grants[inv[w].token].sum
                 /\ raw[v].token = inv[w].token
        <5>1. inv[w].sum \in Data
          BY <4>2 DEF LastGrant, CatalogInv, GrantsInOrder
        <5>2. d = inv[w].sum
          BY <3>1, <5>1, CatalogAssumption
        <5> QED
          BY <3>1, <4>2, <5>2 DEF Clean
      <4> QED
        BY <1>3, <2>1, <3>3, <4>1, <4>2 DEF Current, At
    <3>5. UsedOnce \/ inv[w].token # 0 => Announced(v, d)
      <4>1. CASE UsedOnce
        BY <3>3, <3>4, <4>1 DEF Clean, Announced, LastGrant
      <4>2. CASE inv[w].token # 0
        <5>1. LastGrant(v, inv[w].token) /\ inv[w].sum = grants[inv[w].token].sum
          BY <1>3, <2>1, <4>2 DEF Current, At
        <5>2. inv[w].sum \in Data /\ inv[w].token \in Tokens
          BY <5>1 DEF LastGrant, CatalogInv, GrantsInOrder
        <5>3. d = grants[inv[w].token].sum
          BY <3>1, <5>1, <5>2, CatalogAssumption
        <5> QED
          BY <5>1, <5>2, <5>3 DEF Announced
      <4> QED
        BY <4>1, <4>2
    <3>6. inv'[w] = r /\ Follows(w, r)
      BY <1>1, <2>1, <2>4, <3>2, Moves DEF Typed, Follows, At, Working
    <3>7. \A i : i = r => (UsedOnce \/ i.token # 0 => Announced(i.ver, i.data)) /\ Clean(i.ver)
      BY <3>2, <3>4, <3>5
    <3>8. ASSUME NEW i, i = r PROVE Current(i)'
      <4>1. (UsedOnce \/ i.token # 0 => Announced(i.ver, i.data)') /\ Clean(i.ver)'
        BY <2>1, <3>7, <3>8 DEF Announced, Clean, LastGrant
      <4> QED
        BY <3>1, <3>2, <3>8, <4>1 DEF Current
    <3>9. Current(inv[w])'
      BY <3>6, <3>8
    <3> QED
      BY <2>1, <3>2, <3>6, <3>9, CalmStep
  <2> QED
    BY <1>9, <2>2, <2>3, <2>4 DEF ReadArtifact
<1>10. CASE DeletePlain(w)
  <2>1. /\ At(w, "delRaw") /\ ~At(w, "complete") /\ ~At(w, "putRow") /\ Goto(w, "promote")
        /\ UNCHANGED <<pkgs, grants, issued, events>> /\ Calm /\ Calmer
    BY <1>2, <1>10, DeleteCalm DEF DeletePlain, At
  <2> DEFINE r == [inv[w] EXCEPT !.pc = "promote"]
  <2>2. /\ r \in Invocation /\ Follows(w, r) /\ inv'[w] = r
        /\ r.pc = "promote" /\ r.ver = v /\ r.data = inv[w].data /\ r.token = inv[w].token
    BY <1>1, <2>1, GoesOn DEF Pc, Working, At
  <2> HIDE DEF r
  <2>3. /\ inv[w].data \in Data \ BadTars /\ Clean(v)
        /\ UsedOnce \/ inv[w].token # 0 => Announced(v, inv[w].data)
    BY <1>3, <2>1 DEF Current, At
  <2>4. GrantsKept
    BY <2>1 DEF GrantsKept, Granted
  <2>5. ASSUME NEW i, i = r PROVE Current(i)'
    <3>1. i.ver = v /\ i.data = inv[w].data /\ i.pc = "promote" /\ i.token = inv[w].token
      BY <2>2, <2>5
    <3>2. /\ UsedOnce \/ i.token # 0 => Announced(i.ver, i.data)
          /\ Clean(i.ver) /\ raw'[i.ver] \in {raw[i.ver], NoObject}
      BY <1>2, <2>1, <2>3, <3>1 DEF Calm
    <3>3. (UsedOnce \/ i.token # 0 => Announced(i.ver, i.data)') /\ Clean(i.ver)'
      BY <2>4, <3>2, LastKept, CleanKept
    <3> QED
      BY <2>3, <3>1, <3>3 DEF Current
  <2>6. Current(inv[w])'
    BY <2>2, <2>5
  <2> QED
    BY <2>1, <2>2, <2>6, CalmStep
<1>11. CASE QueryOlder(w)
  <2> DEFINE found == {u \in ActiveOthers(inv[w].ver, inv[w].channel) : u < inv[w].ver}
             r == [inv[w] EXCEPT !.pc = "supersede", !.old = found]
  <2>1. /\ At(w, "query") /\ UNCHANGED <<pkgs, raw, grants, issued, events>> /\ Calm /\ Calmer
    BY <1>5, <1>11 DEF QueryOlder, catalog
  <2>2. CASE Become(w, r)
    <3>1. r \in Invocation /\ r.pc = "supersede" /\ r.ver = v /\ r.op = inv[w].op
      BY <1>2 DEF Invocation, Pc, ActiveOthers
    <3> HIDE DEF r
    <3>2. inv'[w] = r /\ Follows(w, r)
      BY <1>1, <2>1, <2>2, <3>1, Moves DEF Typed, Follows, At, Working
    <3>3. Current(inv[w])'
      BY <3>1, <3>2 DEF Current
    <3> QED
      BY <2>1, <3>1, <3>2, <3>3, CalmStep
  <2> QED
    BY <1>4, <1>11, <2>1, <2>2 DEF QueryOlder
<1>12. CASE SupersedeOlder(w)
  <2>1. PICK u \in inv[w].old :
            /\ SupersedeOne(u)
            /\ IF inv[w].old = {u} THEN Return(w)
               ELSE Become(w, [inv[w] EXCEPT !.old = @ \ {u}])
    BY <1>12 DEF SupersedeOlder
  <2> DEFINE r == [inv[w] EXCEPT !.old = @ \ {u}]
  <2>2. u \in Versions
    BY <1>2 DEF Invocation
  <2>3. At(w, "supersede") /\ UNCHANGED <<raw, grants, issued, events>> /\ Calm /\ Calmer
    BY <1>12, <2>1, <2>2, SupersedeCalm DEF SupersedeOlder
  <2>4. CASE Become(w, r)
    <3>1. r \in Invocation /\ r.pc = "supersede" /\ r.ver = v /\ r.op = inv[w].op
      BY <1>2, <2>3 DEF Invocation, At
    <3> HIDE DEF r
    <3>2. inv'[w] = r /\ Follows(w, r)
      BY <1>1, <2>3, <2>4, <3>1, Moves DEF Typed, Follows, At, Working
    <3>3. Current(inv[w])'
      BY <3>1, <3>2 DEF Current
    <3> QED
      BY <2>3, <3>1, <3>2, <3>3, CalmStep
  <2> QED
    BY <1>4, <2>1, <2>3, <2>4
<1>13. CASE QuarantineDelete(w)
  BY <1>2, <1>7, <1>13, DeleteCalm DEF QuarantineDelete, At
<1>14. CASE QuarantineMark(w)
  <2>1. Calm /\ Calmer
    BY <1>2, <1>14 DEF QuarantineMark, SetStatus, Calm, Calmer, Typed, TypeOK, Package
  <2> QED
    BY <1>4, <1>14, <2>1 DEF QuarantineMark
<1>15. CASE Die(w)
  BY <1>4, <1>5, <1>15 DEF Die
<1> QED
  BY <1>6, <1>8, <1>9, <1>10, <1>11, <1>12, <1>13, <1>14, <1>15
(* The version whose artefact was read becomes ACTIVE.                     *)
LEMMA MadeActive ==
    ASSUME Typed, CatalogInv, NEW w \in Workers, MakeActive(w)
    PROVE  CatalogInv'
<1> DEFINE v == inv[w].ver
           d == inv[w].data
<1>1. At(w, "promote") /\ ~At(w, "idle") /\ UNCHANGED <<raw, grants, issued, events>>
  BY DEF MakeActive, At
<1>2. inv[w] \in Invocation /\ v \in Versions
  BY <1>1, Running
<1>3. d \in Data \ BadTars /\ (UsedOnce => Announced(v, d)) /\ Clean(v)
  BY <1>1 DEF CatalogInv, Current, At
<1> HIDE DEF v, d
<1>4. CASE Return(w) /\ UNCHANGED pkgs
  <2>1. Calm /\ Calmer
    BY <1>1, <1>4 DEF Calm, Calmer
  <2> QED
    BY <1>1, <1>4, <2>1, Ends, CalmStep
<1>5. CASE /\ pkgs[v].status # "NONE"
           /\ pkgs' = [pkgs EXCEPT ![v].status = "ACTIVE", ![v].enc = d,
                                   ![v].token = 0, ![v].sum = NoData]
           /\ IF inv[w].channel = NoChannel THEN Return(w) ELSE Goto(w, "query")
  <2>1. /\ pkgs'[v].status = "ACTIVE" /\ pkgs'[v].enc = d
        /\ pkgs'[v].token = 0 /\ pkgs'[v].sum = NoData
        /\ \A u \in Versions \ {v} : pkgs'[u] = pkgs[u]
    BY <1>2, <1>5 DEF Typed, TypeOK, Package
  <2>2. PICK r \in Invocation : Follows(w, r) /\ r.pc \in {"idle", "query"}
    <3>1. CASE Return(w)
      BY <1>1, <3>1, Ends, IdleTyped
    <3>2. CASE Goto(w, "query")
      <4> DEFINE q == [inv[w] EXCEPT !.pc = "query"]
      <4>1. q \in Invocation /\ Follows(w, q) /\ q.pc = "query"
        BY <1>1, <3>2, GoesOn DEF At, Pc, Working
      <4> HIDE DEF q
      <4> QED
        BY <4>1
    <3> QED
      BY <1>5, <3>1, <3>2
  <2>3. inv'[w] = r /\ \A x \in Workers \ {w} : inv'[x] = inv[x]
    BY <2>2, Moves DEF Typed, Follows
  <2>4. GrantsKept
    BY <1>1 DEF GrantsKept, Granted
  <2>5. Alone'
    BY <2>2, FollowsAlone DEF CatalogInv
  <2>6. \A x \in Workers : Current(inv[x])'
    <3>1. Current(inv[w])'
      BY <2>2, <2>3 DEF Current
    <3>2. \A u \in Versions : /\ pkgs[u].status # "NONE" => pkgs'[u].status # "NONE"
                              /\ raw'[u] \in {raw[u], NoObject}
      BY <1>1, <2>1
    <3> QED
      BY <1>1, <2>2, <2>4, <3>1, <3>2, OthersCurrent DEF CatalogInv, Follows
  <2>7. \A u, t : LastGrant(u, t)' <=> LastGrant(u, t)
    BY <2>4, LastKept
  <2>8. RowsInOrder'
    <3> SUFFICES ASSUME NEW u \in Versions
                 PROVE  /\ pkgs'[u].token # 0 =>
                              /\ pkgs'[u].status # "NONE" /\ LastGrant(u, pkgs[u].token)'
                              /\ pkgs'[u].sum = grants[pkgs'[u].token].sum
                        /\ pkgs'[u].token = 0 /\ pkgs'[u].status # "NONE" =>
                              pkgs'[u].sum = NoData /\ Clean(u)'
      BY <1>1 DEF RowsInOrder
    <3>1. \A s : Clean(s) => Clean(s)'
      BY <1>1, <2>4, CleanKept
    <3>2. CASE u = v
      BY <1>3, <2>1, <3>1, <3>2
    <3>3. CASE u # v
      <4>1. pkgs'[u] = pkgs[u]
        BY <2>1, <3>3
      <4>2. LastGrant(u, pkgs[u].token) => LastGrant(u, pkgs[u].token)'
        BY <2>7, <4>1
      <4> QED
        BY <3>1, <4>1, <4>2 DEF CatalogInv, RowsInOrder
    <3> QED
      BY <3>2, <3>3
  <2>9. UsedOnce => ServesWhatWasAnnounced'
    <3> SUFFICES ASSUME UsedOnce, NEW u \in Versions, pkgs'[u].status \in {"ACTIVE", "SUPERSEDED"}
                 PROVE  pkgs'[u].enc \in Data \ BadTars /\ Announced(u, pkgs[u].enc)'
      BY DEF ServesWhatWasAnnounced
    <3>1. pkgs'[u].enc \in Data \ BadTars /\ Announced(u, pkgs'[u].enc)
      BY <1>3, <2>1 DEF CatalogInv, ServesWhatWasAnnounced
    <3>2. \A s, e : Announced(s, e)' <=> Announced(s, e)
      BY <2>4, LastKept
    <3> QED
      BY <3>1, <3>2
  <2>10. GrantsInOrder'
    <3> SUFFICES ASSUME NEW t \in Tokens, grants[t].state # "none"
                 PROVE  LET u == grants[t].ver IN
                        /\ t <= issued /\ grants[t].sum \in Data
                        /\ grants[t].state = "open" =>
                              /\ LastGrant(grants[t].ver, t)' /\ events[u] = 0
                              /\ pkgs'[u].status = "NONE" \/ pkgs'[u].token = t
                              /\ \A x \in Workers : inv'[x].ver = u => inv'[x].pc \notin Working
      BY <1>1 DEF GrantsInOrder
    <3> DEFINE u == grants[t].ver
    <3>1. /\ t <= issued /\ grants[t].sum \in Data /\ u \in Versions
          /\ grants[t].state = "open" =>
                /\ LastGrant(u, t) /\ events[u] = 0
                /\ pkgs[u].status = "NONE" \/ pkgs[u].token = t
                /\ \A x \in Workers : inv[x].ver = u => inv[x].pc \notin Working
      BY DEF Typed, CatalogInv, GrantsInOrder
    <3>2. grants[t].state = "open" => u # v
      BY <1>1, <3>1 DEF At, Working, v
    <3>3. grants[t].state = "open" => LastGrant(u, t)'
      BY <1>1, <2>7, <3>1
    <3>4. ASSUME grants[t].state = "open", NEW x \in Workers, inv'[x].ver = u
          PROVE  inv'[x].pc \notin Working
      BY <2>2, <2>3, <3>1, <3>4 DEF Working
    <3> QED
      BY <2>1, <3>1, <3>2, <3>3, <3>4
  <2>11. Uploads'
    <3> SUFFICES ASSUME NEW u \in Workers, inv'[u].pc = "putRow"
                 PROVE  LET i == inv'[u] IN
                        /\ i.token <= issued /\ grants[i.token].state = "none" /\ i.sum \in Data
                        /\ \A t \in Tokens :
                              grants[t].state # "none" /\ grants[t].ver = i.ver => t < i.token
                        /\ events[i.ver] = 0 /\ pkgs'[i.ver].status # "ACTIVE"
                        /\ \A x \in Workers \ {u} :
                              /\ inv'[x].ver = i.ver => inv'[x].pc \in {"idle", "complete"}
                              /\ inv'[x].pc = "putRow" => inv'[x].token # i.token
      BY <1>1 DEF Uploads, At
    <3>1. u # w /\ inv'[u] = inv[u] /\ At(u, "putRow")
      BY <2>2, <2>3 DEF At
    <3>2. inv[u].ver \in Versions \ {v}
      BY <1>1, <3>1, Running DEF At, CatalogInv, Uploads, v
    <3>3. ASSUME NEW x \in Workers \ {u}
          PROVE  /\ inv'[x].ver = inv[u].ver => inv'[x].pc \in {"idle", "complete"}
                 /\ inv'[x].pc = "putRow" => inv'[x].token # inv[u].token
      <4>1. CASE x = w
        BY <2>2, <2>3, <3>2, <4>1 DEF Follows, v
      <4>2. CASE x # w
        BY <2>3, <3>1, <4>2 DEF CatalogInv, Uploads, At
      <4> QED
        BY <4>1, <4>2
    <3> QED
      BY <2>1, <3>1, <3>2, <3>3 DEF CatalogInv, Uploads
  <2>12. ValidIsLast'
    <3>1. \A x \in Workers : inv'[x].pc = "putRow" => inv'[x] = inv[x]
      BY <2>2, <2>3
    <3> QED
      BY <1>1, <2>4, <3>1, ValidKept, ValidSame DEF CatalogInv
  <2>13. NoneAwaited'
    <3> SUFFICES ASSUME NEW x \in Workers, inv'[x].pc \in Working \ {"putRow"}, inv'[x].token = 0
                 PROVE  pkgs'[inv'[x].ver].status # "PENDING"
      BY DEF NoneAwaited
    <3>1. inv'[x] = inv[x] /\ ~At(x, "idle")
      BY <2>2, <2>3 DEF Working, At
    <3>2. inv[x].ver \in Versions
      BY <3>1, Running
    <3> QED
      BY <2>1, <3>1, <3>2 DEF CatalogInv, NoneAwaited
  <2> QED
    BY <2>5, <2>6, <2>8, <2>9, <2>10, <2>11, <2>12, <2>13 DEF CatalogInv
<1> QED
  BY <1>4, <1>5 DEF MakeActive, v, d

(* A handler that has the catalogue to itself removes its row.             *)
LEMMA Removed ==
    ASSUME Typed, CatalogInv, NEW w \in Workers, DeleteRow(w), ~inv[w].soft
    PROVE  CatalogInv'
<1> DEFINE v == inv[w].ver
<1>1. /\ At(w, "deleteRow") /\ ~At(w, "idle") /\ Return(w)
      /\ pkgs' = [pkgs EXCEPT ![v] = NoRow] /\ UNCHANGED <<raw, grants, issued, events>>
  BY DEF DeleteRow, Write, At
<1>2. v \in Versions
  BY <1>1, Running
<1>3. inv[w].op = "delete"
  BY <1>1 DEF CatalogInv, Current, At
<1>4. \A x \in Workers : inv'[x].pc = "idle"
  <2>1. inv'[w] = Idle /\ \A x \in Workers \ {w} : inv'[x] = inv[x]
    BY <1>1, IdleTyped, Moves DEF Return, Typed
  <2>2. \A x \in Workers \ {w} : At(x, "idle")
    BY <1>1, <1>3 DEF CatalogInv, Alone
  <2> QED
    BY <2>1, <2>2, IdleTyped DEF At
<1>5. /\ pkgs'[v] = NoRow /\ \A u \in Versions \ {v} : pkgs'[u] = pkgs[u]
  BY <1>1, <1>2 DEF Typed, TypeOK
<1>6. GrantsKept
  BY <1>1 DEF GrantsKept, Granted
<1> HIDE DEF v
<1>7. Alone' /\ Uploads' /\ \A x \in Workers : Current(inv[x])'
  <2>1. \A x \in Workers : Current(inv[x])'
    BY <1>4 DEF Current
  <2> QED
    BY <1>4, <2>1 DEF Alone, Uploads, At
<1>8. \A u, t : LastGrant(u, t)' <=> LastGrant(u, t)
  BY <1>6, LastKept
<1>9. RowsInOrder'
  <2> SUFFICES ASSUME NEW u \in Versions
               PROVE  /\ pkgs'[u].token # 0 =>
                            /\ pkgs'[u].status # "NONE" /\ LastGrant(u, pkgs[u].token)'
                            /\ pkgs'[u].sum = grants[pkgs'[u].token].sum
                      /\ pkgs'[u].token = 0 /\ pkgs'[u].status # "NONE" =>
                            pkgs'[u].sum = NoData /\ Clean(u)'
    BY <1>1 DEF RowsInOrder
  <2>1. CASE u = v
    BY <1>5, <2>1, EmptyTyped
  <2>2. CASE u # v
    <3>1. pkgs'[u] = pkgs[u] /\ (Clean(u) => Clean(u)')
      BY <1>1, <1>5, <1>6, <2>2, CleanKept
    <3>2. LastGrant(u, pkgs[u].token) => LastGrant(u, pkgs[u].token)'
      BY <1>8, <3>1
    <3> QED
      BY <3>1, <3>2 DEF CatalogInv, RowsInOrder
  <2> QED
    BY <2>1, <2>2
<1>10. UsedOnce => ServesWhatWasAnnounced'
  <2> SUFFICES ASSUME UsedOnce, NEW u \in Versions, pkgs'[u].status \in {"ACTIVE", "SUPERSEDED"}
               PROVE  pkgs'[u].enc \in Data \ BadTars /\ Announced(u, pkgs[u].enc)'
    BY DEF ServesWhatWasAnnounced
  <2>1. pkgs'[u] = pkgs[u]
    BY <1>5, EmptyTyped
  <2>2. \A s, e : Announced(s, e)' <=> Announced(s, e)
    BY <1>6, LastKept
  <2> QED
    BY <2>1, <2>2 DEF CatalogInv, ServesWhatWasAnnounced
<1>11. GrantsInOrder'
  <2> SUFFICES ASSUME NEW t \in Tokens, grants[t].state # "none"
               PROVE  LET u == grants[t].ver IN
                      /\ t <= issued /\ grants[t].sum \in Data
                      /\ grants[t].state = "open" =>
                            /\ LastGrant(grants[t].ver, t)' /\ events[u] = 0
                            /\ pkgs'[u].status = "NONE" \/ pkgs'[u].token = t
    BY <1>1, <1>4 DEF GrantsInOrder, Working
  <2> DEFINE u == grants[t].ver
  <2>1. /\ t <= issued /\ grants[t].sum \in Data /\ u \in Versions
        /\ grants[t].state = "open" =>
              /\ LastGrant(u, t) /\ events[u] = 0
              /\ pkgs[u].status = "NONE" \/ pkgs[u].token = t
    BY DEF Typed, CatalogInv, GrantsInOrder
  <2>2. grants[t].state = "open" => LastGrant(u, t)'
    BY <1>1, <1>8, <2>1
  <2> QED
    BY <1>5, <2>1, <2>2, EmptyTyped
<1>12. ValidIsLast' /\ NoneAwaited'
  <2>1. ValidIsLast'
    BY <1>1, <1>4, <1>6, ValidKept, ValidSame DEF CatalogInv
  <2> QED
    BY <1>4, <2>1 DEF NoneAwaited, Working
<1> QED
  BY <1>7, <1>9, <1>10, <1>11, <1>12 DEF CatalogInv

(* Every other write of an administrator.                                  *)
LEMMA Administered ==
    ASSUME Typed, CatalogInv, NEW w \in Workers,
           \/ RecallSet(w) \/ PromoteSet(w) \/ ToggleSet(w)
           \/ RestoreQuery(w) \/ RestoreSupersede(w) \/ RestoreSet(w)
           \/ DeleteObject(w) \/ DeleteRow(w)
    PROVE  CatalogInv'
<1> DEFINE v == inv[w].ver
<1>1. ~At(w, "idle")
  BY DEF At, RecallSet, PromoteSet, ToggleSet, RestoreQuery, RestoreSupersede, RestoreSet,
         DeleteObject, DeleteRow
<1>2. inv[w] \in Invocation /\ v \in Versions /\ pkgs[v] \in Package
  BY <1>1, Running DEF Typed, TypeOK
<1>3. Current(inv[w])
  BY DEF CatalogInv
<1>4. ASSUME Return(w), Calm, Calmer \/ inv[w].op = "restore", UNCHANGED <<grants, issued, events>>
      PROVE  CatalogInv'
  BY <1>1, <1>4, Ends, CalmStep
<1>5. ASSUME NEW row \in Package, pkgs' = [pkgs EXCEPT ![v] = row], UNCHANGED raw,
             pkgs[v].status # "NONE", row.status # "NONE",
             row.token = pkgs[v].token, row.sum = pkgs[v].sum, row.enc = pkgs[v].enc,
             row.status \in {"ACTIVE", "SUPERSEDED"} => pkgs[v].status \in {"ACTIVE", "SUPERSEDED"},
             row.status = "PENDING" => pkgs[v].status = "PENDING"
      PROVE  Calm /\ ((row.status = "ACTIVE" /\ pkgs[v].status # "ACTIVE") \/ Calmer)
  <2>1. pkgs'[v] = row /\ \A u \in Versions \ {v} : pkgs'[u] = pkgs[u]
    BY <1>2, <1>5 DEF Typed, TypeOK
  <2> HIDE DEF v
  <2>2. Calm
    BY <1>5, <2>1 DEF Calm
  <2>3. (row.status = "ACTIVE" /\ pkgs[v].status # "ACTIVE") \/ Calmer
    BY <1>5, <2>1 DEF Calmer
  <2> QED
    BY <2>2, <2>3
<1>6. ASSUME NEW r \in Invocation, Become(w, r), inv[w].pc \notin {"complete", "putRow"},
             r.ver = v, r.op = inv[w].op, r.pc \notin Working, Calm,
             Calmer, UNCHANGED <<grants, issued, events>>,
             \A i : i = r => Current(i)'
      PROVE  CatalogInv'
  <2>1. inv'[w] = r
    BY <1>6, Moves DEF Typed
  <2>2. Follows(w, r) /\ Current(inv[w])'
    BY <1>1, <1>6, <2>1 DEF Follows, Working
  <2> QED
    BY <1>6, <2>2, CalmStep
<1> HIDE DEF v
<1>7. CASE RecallSet(w)
  <2> DEFINE row == [pkgs[v] EXCEPT !.status = "RECALLED", !.activated = FALSE]
  <2>1. /\ row \in Package /\ row.status = "RECALLED"
        /\ row.token = pkgs[v].token /\ row.sum = pkgs[v].sum /\ row.enc = pkgs[v].enc
    BY <1>2 DEF Package, Status
  <2>2. pkgs[v].status # "NONE"
    BY <1>3, <1>7 DEF RecallSet, At, Current, v
  <2>3. pkgs' = [pkgs EXCEPT ![v] = row] /\ Return(w) /\ UNCHANGED <<raw, grants, issued, events>>
    BY <1>7 DEF RecallSet, Write, v
  <2> HIDE DEF row
  <2> QED
    BY <1>4, <1>5, <2>1, <2>2, <2>3
<1>8. CASE PromoteSet(w)
  <2> DEFINE row == [Upserted(pkgs[v]) EXCEPT !.channel = "PROD"]
             r == [inv[w] EXCEPT !.pc = "query", !.channel = "PROD"]
  <2>1. At(w, "promoteSet") /\ pkgs[v].status # "NONE" /\ Upserted(pkgs[v]) = pkgs[v]
    BY <1>3, <1>8 DEF PromoteSet, At, Current, Upserted, v
  <2>2. /\ row \in Package /\ row.status = pkgs[v].status
        /\ row.token = pkgs[v].token /\ row.sum = pkgs[v].sum /\ row.enc = pkgs[v].enc
    BY <1>2, <2>1 DEF Package, ReleaseTypes
  <2>3. r \in Invocation /\ r.pc = "query" /\ r.ver = v /\ r.op = inv[w].op
    BY <1>2 DEF Invocation, Pc, ReleaseTypes, v
  <2>4. /\ pkgs' = [pkgs EXCEPT ![v] = row] /\ Become(w, r)
        /\ UNCHANGED <<raw, grants, issued, events>>
    BY <1>8 DEF PromoteSet, Write, v
  <2> HIDE DEF row, r
  <2>5. Calm /\ Calmer
    BY <1>5, <2>1, <2>2, <2>4
  <2>6. \A i : i = r => Current(i)'
    BY <2>3 DEF Current
  <2> QED
    BY <1>6, <2>1, <2>3, <2>4, <2>5, <2>6 DEF At, Working
<1>9. CASE ToggleSet(w)
  <2>1. PICK shown \in BOOLEAN : Write(w, [Upserted(pkgs[v]) EXCEPT !.activated = shown])
    BY <1>9 DEF ToggleSet, v
  <2> DEFINE row == [Upserted(pkgs[v]) EXCEPT !.activated = shown]
  <2>2. pkgs[v].status # "NONE" /\ Upserted(pkgs[v]) = pkgs[v]
    BY <1>3, <1>9 DEF ToggleSet, At, Current, Upserted, v
  <2>3. /\ row \in Package /\ row.status = pkgs[v].status
        /\ row.token = pkgs[v].token /\ row.sum = pkgs[v].sum /\ row.enc = pkgs[v].enc
    BY <1>2, <2>2 DEF Package
  <2>4. pkgs' = [pkgs EXCEPT ![v] = row] /\ Return(w) /\ UNCHANGED <<raw, grants, issued, events>>
    BY <1>9, <2>1 DEF ToggleSet, Write, v
  <2> HIDE DEF row
  <2> QED
    BY <1>4, <1>5, <2>2, <2>3, <2>4
<1>10. CASE RestoreQuery(w)
  <2> DEFINE found == ActiveOthers(inv[w].ver, inv[w].channel)
             r == [inv[w] EXCEPT !.old = found,
                     !.pc = IF found = {} THEN "restoreSet" ELSE "restoreSupersede"]
  <2>1. /\ At(w, "restoreQuery") /\ Become(w, r) /\ UNCHANGED <<pkgs, raw, grants, issued, events>>
    BY <1>10 DEF RestoreQuery, catalog
  <2>2. /\ r \in Invocation /\ r.pc \in {"restoreSet", "restoreSupersede"}
        /\ r.ver = v /\ r.op = inv[w].op
    BY <1>2 DEF Invocation, Pc, ActiveOthers, v
  <2> HIDE DEF r
  <2>3. inv[w].op = "restore" /\ pkgs[v].status = "SUPERSEDED"
    BY <1>3, <2>1 DEF Current, At, v
  <2>4. Calm /\ Calmer
    BY <2>1 DEF Calm, Calmer
  <2>5. \A i : i = r => Current(i)'
    BY <2>1, <2>2, <2>3 DEF Current
  <2> QED
    BY <1>6, <2>1, <2>2, <2>4, <2>5 DEF At, Working
<1>11. CASE RestoreSupersede(w)
  <2>1. PICK u \in inv[w].old :
            /\ SupersedeOne(u)
            /\ Become(w, [inv[w] EXCEPT !.old = @ \ {u},
                             !.pc = IF inv[w].old = {u} THEN "restoreSet" ELSE @])
    BY <1>11 DEF RestoreSupersede
  <2> DEFINE r == [inv[w] EXCEPT !.old = @ \ {u},
                      !.pc = IF inv[w].old = {u} THEN "restoreSet" ELSE @]
  <2>2. At(w, "restoreSupersede") /\ UNCHANGED <<raw, grants, issued, events>> /\ u \in Versions
    BY <1>2, <1>11 DEF RestoreSupersede, Invocation
  <2>3. /\ r \in Invocation /\ r.pc \in {"restoreSet", "restoreSupersede"}
        /\ r.ver = v /\ r.op = inv[w].op /\ Become(w, r)
    BY <1>2, <2>1, <2>2 DEF Invocation, Pc, At, v
  <2> HIDE DEF r
  <2>4. inv[w].op = "restore" /\ pkgs[v].status = "SUPERSEDED"
    BY <1>3, <2>2 DEF Current, At, v
  <2>5. pkgs'[v].status = "SUPERSEDED"
    BY <1>2, <2>1, <2>4 DEF SupersedeOne, SetStatus, Typed, TypeOK, Package
  <2>6. \A i : i = r => Current(i)'
    BY <2>3, <2>4, <2>5 DEF Current
  <2>7. Calm /\ Calmer
    BY <2>1, <2>2, SupersedeCalm
  <2> QED
    BY <1>6, <2>2, <2>3, <2>6, <2>7 DEF At, Working
<1>12. CASE RestoreSet(w)
  <2> DEFINE row == [pkgs[v] EXCEPT !.status = "ACTIVE"]
  <2>1. inv[w].op = "restore" /\ pkgs[v].status = "SUPERSEDED"
    BY <1>3, <1>12 DEF RestoreSet, At, Current, v
  <2>2. /\ row \in Package /\ row.status = "ACTIVE"
        /\ row.token = pkgs[v].token /\ row.sum = pkgs[v].sum /\ row.enc = pkgs[v].enc
    BY <1>2 DEF Package, Status
  <2>3. pkgs' = [pkgs EXCEPT ![v] = row] /\ Return(w) /\ UNCHANGED <<raw, grants, issued, events>>
    BY <1>12 DEF RestoreSet, Write, v
  <2> HIDE DEF row
  <2> QED
    BY <1>4, <1>5, <2>1, <2>2, <2>3
<1>13. CASE DeleteObject(w)
  <2> DEFINE r == [inv[w] EXCEPT !.pc = "deleteRow"]
  <2>1. /\ At(w, "deleteRaw") /\ Goto(w, "deleteRow") /\ UNCHANGED <<pkgs, grants, issued, events>>
        /\ Calm /\ Calmer
    BY <1>2, <1>13, DeleteCalm DEF DeleteObject, v
  <2>2. r \in Invocation /\ r.pc = "deleteRow" /\ r.ver = v /\ r.op = inv[w].op /\ Become(w, r)
    BY <1>2, <2>1 DEF Invocation, Pc, Goto, v
  <2> HIDE DEF r
  <2>3. inv[w].op = "delete" /\ pkgs[v].status # "NONE"
    BY <1>3, <2>1 DEF Current, At, v
  <2>4. \A i : i = r => Current(i)'
    BY <2>1, <2>2, <2>3 DEF Current
  <2> QED
    BY <1>6, <2>1, <2>2, <2>4 DEF At, Working
<1>14. CASE DeleteRow(w) /\ inv[w].soft
  <2> DEFINE row == [pkgs[v] EXCEPT !.status = "DELETED"]
  <2>1. pkgs[v].status # "NONE"
    BY <1>3, <1>14 DEF DeleteRow, At, Current, v
  <2>2. /\ row \in Package /\ row.status = "DELETED"
        /\ row.token = pkgs[v].token /\ row.sum = pkgs[v].sum /\ row.enc = pkgs[v].enc
    BY <1>2 DEF Package, Status
  <2>3. pkgs' = [pkgs EXCEPT ![v] = row] /\ Return(w) /\ UNCHANGED <<raw, grants, issued, events>>
    BY <1>14 DEF DeleteRow, Write, v
  <2> HIDE DEF row
  <2> QED
    BY <1>4, <1>5, <2>1, <2>2, <2>3
<1>15. CASE DeleteRow(w) /\ ~inv[w].soft
  BY <1>15, Removed
<1> QED
  BY <1>7, <1>8, <1>9, <1>10, <1>11, <1>12, <1>13, <1>14, <1>15

----------------------------------------------------------------------------
(* The theorem                                                             *)

LEMMA InitInOrder == ASSUME Init PROVE CatalogInv
<1>1. /\ \A w \in Workers : inv[w] = Idle
      /\ \A t \in Tokens : grants[t].state = "none"
      /\ \A v \in Versions : pkgs[v] = NoRow
  BY DEF Init, NoGrant
<1>2. \A w \in Workers : Current(inv[w])
  BY <1>1, IdleTyped DEF Current
<1> QED
  BY <1>1, <1>2, IdleTyped, EmptyTyped
  DEF CatalogInv, Alone, Valid, ValidIsLast, GrantsInOrder, RowsInOrder, Uploads, NoneAwaited,
      Working, ServesWhatWasAnnounced, At

LEMMA NextInOrder ==
    ASSUME Typed, CatalogInv, OrderlyUse, [Next]_vars
    PROVE  CatalogInv'
<1>1. Typed'
  BY NextTyped
<1>2. CASE UNCHANGED vars
  BY <1>2, Aside DEF vars, GrantsKept, Granted, Valid
<1>3. ASSUME NEW w \in Workers, Administrator(w) PROVE CatalogInv'
  BY <1>1, <1>3, Asked, Starts DEF Administrator
<1>4. ASSUME NEW w \in Workers, Continue(w) PROVE CatalogInv'
  BY <1>4, Recorded, Finished, Processed, MadeActive, Administered DEF Continue
<1>5. ASSUME NEW w \in Workers, Die(w) \/ \E v \in Versions : ProcessStart(w, v)
      PROVE  CatalogInv'
  BY <1>5, Processed, Starts
<1>6. CASE Client \/ \E v \in Versions : Duplicate(v)
  BY <1>6, Sent, Expired, Duplicated DEF Client
<1> QED
  BY <1>2, <1>3, <1>4, <1>5, <1>6 DEF Next

LEMMA InOrder == OrderlyUse => (Spec => [](Typed /\ CatalogInv))
<1> SUFFICES ASSUME OrderlyUse PROVE Spec => [](Typed /\ CatalogInv)
  OBVIOUS
<1>1. Init => Typed /\ CatalogInv
  BY InitTyped, InitInOrder
<1>2. Typed /\ CatalogInv /\ [Next]_vars => (Typed /\ CatalogInv)'
  BY NextTyped, NextInOrder
<1> QED
  BY <1>1, <1>2, PTL DEF Spec

(* Where a version is asked for again only when nothing of it is under way,*)
(* restores and deletes have the catalogue to themselves and the client    *)
(* PUTs once to a URL, a version that is served, or could be restored, is  *)
(* an archive in order whose checksum came with the last upload request    *)
(* for it: however often S3 repeats an event, whichever calls fail and     *)
(* wherever a handler ends.                                                *)
THEOREM ServedAsAnnounced == OrderlyUse /\ UsedOnce => (Spec => []ServesWhatWasAnnounced)
<1> SUFFICES ASSUME OrderlyUse, UsedOnce PROVE Spec => []ServesWhatWasAnnounced
  OBVIOUS
<1>1. Typed /\ CatalogInv => ServesWhatWasAnnounced
  BY DEF CatalogInv
<1> QED
  BY <1>1, InOrder, PTL

(* An upload that was asked for can only become ACTIVE by being processed. *)
LEMMA Processing ==
    ASSUME Typed, CatalogInv, Next, NEW v \in Versions,
           pkgs[v].status = "PENDING", pkgs'[v].status = "ACTIVE"
    PROVE  \E w \in Workers : MakeActive(w) /\ inv[w].ver = v
<1>1. PICK w \in Workers : Continue(w)
  <2>1. pkgs' # pkgs
    OBVIOUS
  <2>2. ASSUME NEW w \in Workers PROVE ~Administrator(w) /\ ~Die(w)
    BY <2>1 DEF Administrator, Die, UploadStart, CompleteStart, RecallStart, PromoteStart,
                RestoreStart, ToggleStart, DeleteStart, Begin, catalog
  <2>3. ASSUME NEW w \in Workers, NEW u \in Versions PROVE ~ProcessStart(w, u)
    BY <2>1 DEF ProcessStart
  <2>4. ~Client /\ \A u \in Versions : ~Duplicate(u)
    BY <2>1 DEF Client, ClientPut, Expire, Duplicate
  <2> QED
    BY <2>2, <2>3, <2>4 DEF Next
<1>2. pkgs \in [Versions -> Package] /\ pkgs[v] \in Package
  BY DEF Typed, TypeOK
<1>3. Current(inv[w])
  BY DEF CatalogInv
<1>4. ~UploadPut(w)
  <2> DEFINE row == [NoRow EXCEPT !.status = "PENDING", !.channel = inv[w].channel,
                       !.token = inv[w].token, !.sum = inv[w].sum, !.multi = inv[w].multi]
  <2>1. row.status = "PENDING"
    BY DEF NoRow
  <2>2. UploadPut(w) => pkgs'[v] \in {pkgs[v], row}
    BY <1>2 DEF UploadPut
  <2> QED
    BY <2>1, <2>2
<1>5. ~SupersedeOlder(w) /\ ~RestoreSupersede(w) /\ ~QuarantineMark(w)
  BY <1>2 DEF SupersedeOlder, RestoreSupersede, QuarantineMark, SupersedeOne, SetStatus, Package
<1>6. ~RecallSet(w) /\ ~PromoteSet(w) /\ ~ToggleSet(w) /\ ~DeleteRow(w)
  <2>1. ~RecallSet(w)
    BY <1>2 DEF RecallSet, Write, Package
  <2>2. ~PromoteSet(w) /\ ~ToggleSet(w)
    <3>1. Upserted(pkgs[v]) = pkgs[v]
      BY DEF Upserted
    <3>2. ASSUME NEW row, Write(w, row) PROVE pkgs'[v] = IF v = inv[w].ver THEN row ELSE pkgs[v]
      BY <1>2, <3>2 DEF Write
    <3>3. /\ PromoteSet(w) => pkgs'[v] \in {pkgs[v], [pkgs[v] EXCEPT !.channel = "PROD"]}
          /\ ToggleSet(w) => \E shown \in BOOLEAN :
                pkgs'[v] \in {pkgs[v], [pkgs[v] EXCEPT !.activated = shown]}
      BY <3>1, <3>2 DEF PromoteSet, ToggleSet
    <3> QED
      BY <1>2, <3>3 DEF Package
  <2>3. ~DeleteRow(w)
    BY <1>2, EmptyTyped DEF DeleteRow, Write, Package
  <2> QED
    BY <2>1, <2>2, <2>3
<1>7. ~RestoreSet(w)
  BY <1>2, <1>3 DEF RestoreSet, Write, Current, At
<1>8. MakeActive(w)
  BY <1>1, <1>4, <1>5, <1>6, <1>7
  DEF Continue, CompleteFinish, DeleteOrphan, CheckToken, ReadArtifact, DeletePlain, QueryOlder,
      QuarantineDelete, RestoreQuery, DeleteObject, catalog
<1>9. inv[w].ver = v
  BY <1>2, <1>8 DEF MakeActive
<1> QED
  BY <1>8, <1>9

(* Where a version is asked for again only when nothing of it is under way *)
(* and restores and deletes have the catalogue to themselves, an upload    *)
(* that was asked for becomes ACTIVE only as it was announced: however     *)
(* often the client PUTs to the URL, even between the check and the        *)
(* activation, however often S3 repeats an event, whichever calls fail and *)
(* wherever a handler ends.                                                *)
THEOREM AwaitedAnnounced == OrderlyUse => (Spec => AwaitedIsAnnounced)
<1> SUFFICES ASSUME OrderlyUse PROVE Spec => AwaitedIsAnnounced
  OBVIOUS
<1>1. ASSUME Typed, CatalogInv, [Next]_vars, NEW v \in Versions,
             pkgs[v].status = "PENDING", pkgs'[v].status = "ACTIVE"
      PROVE  pkgs'[v].enc \in Data \ BadTars /\ Announced(v, pkgs'[v].enc)
  <2>1. PICK w \in Workers : MakeActive(w) /\ inv[w].ver = v
    BY <1>1, Processing DEF vars
  <2>2. /\ At(w, "promote") /\ pkgs'[v].enc = inv[w].data
    BY <1>1, <2>1 DEF MakeActive, Typed, TypeOK, Package
  <2>3. inv[w].token # 0
    BY <1>1, <2>1, <2>2 DEF CatalogInv, NoneAwaited, Working, At
  <2>4. inv[w].data \in Data \ BadTars /\ Announced(v, inv[w].data)
    BY <1>1, <2>1, <2>2, <2>3 DEF CatalogInv, Current, At
  <2> QED
    BY <2>2, <2>4
<1>2. Typed /\ CatalogInv /\ [Next]_vars =>
        [\A v \in Versions : pkgs[v].status = "PENDING" /\ pkgs'[v].status = "ACTIVE" =>
            pkgs'[v].enc \in Data \ BadTars /\ Announced(v, pkgs'[v].enc)]_vars
  BY <1>1
<1> QED
  BY <1>2, InOrder, PTL DEF Spec, AwaitedIsAnnounced
=============================================================================
