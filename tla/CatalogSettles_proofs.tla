----------------------- MODULE CatalogSettles_proofs -----------------------
(***************************************************************************)
(* What becomes of the versions, of the plain objects and of a recall, for *)
(* every number of versions, artefacts, invocations and uploads.           *)
(***************************************************************************)
EXTENDS PackageCatalog_proofs

(* The calls of a running handler that neither grant nor use an upload.    *)
Processes(w) ==
    \/ DeleteOrphan(w) \/ CheckToken(w) \/ ReadArtifact(w) \/ DeletePlain(w) \/ MakeActive(w)
    \/ QueryOlder(w) \/ SupersedeOlder(w)
    \/ QuarantineDelete(w) \/ QuarantineMark(w) \/ Die(w)
Decides(w) ==
    \/ RecallSet(w) \/ PromoteSet(w) \/ ToggleSet(w)
    \/ RestoreQuery(w) \/ RestoreSupersede(w) \/ RestoreSet(w)
    \/ DeleteObject(w) \/ DeleteRow(w)

(* Where w is after its step, and that no other invocation moved.          *)
After(w, pc) ==
    /\ inv'[w].pc = pc
    /\ pc # "idle" =>
          /\ inv'[w].ver = inv[w].ver /\ inv'[w].soft = inv[w].soft
          /\ inv'[w].channel = IF At(w, "promoteSet") THEN "PROD" ELSE inv[w].channel
    /\ \A x \in Workers \ {w} : inv'[x] = inv[x]

(* Where each call leads: w at p, then at q.                               *)
Leads(w, p, q) == At(w, p) /\ After(w, q)
Route(w) ==
    \/ After(w, "idle")
    \/ Leads(w, "head", "get") \/ Leads(w, "head", "quarDelete")
    \/ Leads(w, "get", "quarDelete") \/ Leads(w, "get", "delRaw")
    \/ Leads(w, "delRaw", "promote") \/ Leads(w, "promote", "query")
    \/ Leads(w, "query", "supersede") \/ Leads(w, "supersede", "supersede")
    \/ Leads(w, "quarDelete", "quarMark")
    \/ Leads(w, "promoteSet", "query")
    \/ Leads(w, "restoreQuery", "restoreSet") \/ Leads(w, "restoreQuery", "restoreSupersede")
    \/ Leads(w, "restoreSupersede", "restoreSet")
    \/ Leads(w, "restoreSupersede", "restoreSupersede")
    \/ Leads(w, "deleteRaw", "deleteRow")

LEMMA AfterBecome ==
    ASSUME Typed, NEW w \in Workers, ~At(w, "idle"), NEW pc,
           \/ ~At(w, "promoteSet") /\
                 \/ Goto(w, pc)
                 \/ \E S : Become(w, [inv[w] EXCEPT !.pc = pc, !.old = S])
                 \/ \E S : Become(w, [inv[w] EXCEPT !.old = S, !.pc = pc])
                 \/ \E d : Become(w, [inv[w] EXCEPT !.pc = pc, !.data = d])
           \/ At(w, "promoteSet") /\ Become(w, [inv[w] EXCEPT !.pc = pc, !.channel = "PROD"])
    PROVE  After(w, pc)
<1>1. inv[w] \in Invocation /\ inv \in [Workers -> Invocation]
  BY Running DEF Typed, TypeOK
<1>2. CASE ~At(w, "promoteSet") /\ Goto(w, pc)
  BY <1>1, <1>2 DEF Goto, Become, After, Invocation
<1>3. ASSUME ~At(w, "promoteSet"), NEW S, Become(w, [inv[w] EXCEPT !.pc = pc, !.old = S])
      PROVE  After(w, pc)
  BY <1>1, <1>3 DEF Become, After, Invocation
<1>4. ASSUME ~At(w, "promoteSet"), NEW S, Become(w, [inv[w] EXCEPT !.old = S, !.pc = pc])
      PROVE  After(w, pc)
  BY <1>1, <1>4 DEF Become, After, Invocation
<1>5. ASSUME ~At(w, "promoteSet"), NEW d, Become(w, [inv[w] EXCEPT !.pc = pc, !.data = d])
      PROVE  After(w, pc)
  BY <1>1, <1>5 DEF Become, After, Invocation
<1>6. CASE At(w, "promoteSet") /\ Become(w, [inv[w] EXCEPT !.pc = pc, !.channel = "PROD"])
  BY <1>1, <1>6 DEF Become, After, Invocation
<1> QED
  BY <1>2, <1>3, <1>4, <1>5, <1>6

LEMMA AfterReturn ==
    ASSUME Typed, NEW w \in Workers, Return(w)
    PROVE  After(w, "idle")
  BY IdleTyped DEF Typed, TypeOK, Return, Become, After

LEMMA FailedStays ==
    ASSUME NEW v, SupersedeOne(v) \/ DeleteRaw(v)
    PROVE  failed => failed'
  BY DEF SupersedeOne, DeleteRaw, Fails

LEMMA ProcessLeads ==
    ASSUME Typed, NEW w \in Workers, Processes(w)
    PROVE  /\ ~At(w, "idle") /\ Route(w)
           /\ UNCHANGED <<grants, issued, events>> /\ (failed => failed')
<1>1. ~At(w, "idle")
  BY DEF Processes, At, DeleteOrphan, CheckToken, ReadArtifact, DeletePlain, MakeActive,
         QueryOlder, SupersedeOlder, QuarantineDelete, QuarantineMark, Die
<1>2. UNCHANGED <<grants, issued, events>>
  BY DEF Processes, DeleteOrphan, CheckToken, ReadArtifact, DeletePlain, MakeActive,
         QueryOlder, SupersedeOlder, QuarantineDelete, QuarantineMark, Die, catalog
<1>12. failed => failed'
  BY FailedStays DEF Processes, DeleteOrphan, CheckToken, ReadArtifact, DeletePlain, MakeActive,
         QueryOlder, SupersedeOlder, QuarantineDelete, QuarantineMark, Die, catalog, Fails
<1>3. {"get", "quarDelete", "delRaw", "promote", "query", "supersede", "quarMark"} \subseteq Pc
  BY DEF Pc
<1>4. inv[w] \in Invocation
  BY <1>1, Running
<1> SUFFICES Route(w)
  BY <1>1, <1>2, <1>12
<1>5. CASE DeleteOrphan(w) \/ QuarantineMark(w) \/ Die(w)
  BY <1>5, AfterReturn DEF DeleteOrphan, QuarantineMark, Die, Route
<1>6. CASE CheckToken(w)
  BY <1>1, <1>3, <1>6, AfterBecome DEF CheckToken, Route, Leads, At
<1>7. CASE ReadArtifact(w)
  BY <1>1, <1>3, <1>7, AfterBecome, AfterReturn DEF ReadArtifact, Route, Leads, At
<1>8. CASE DeletePlain(w) \/ QuarantineDelete(w)
  BY <1>1, <1>3, <1>8, AfterBecome DEF DeletePlain, QuarantineDelete, Route, Leads, At
<1>9. CASE MakeActive(w)
  BY <1>1, <1>3, <1>9, AfterBecome, AfterReturn DEF MakeActive, Route, Leads, At
<1>10. CASE QueryOlder(w)
  <2>1. ActiveOthers(inv[w].ver, inv[w].channel) \subseteq Versions
    BY DEF ActiveOthers
  <2> QED
    BY <1>1, <1>3, <1>10, <2>1, AfterBecome, AfterReturn DEF QueryOlder, Route, Leads, At
<1>11. CASE SupersedeOlder(w)
  <2>1. PICK u \in inv[w].old :
           IF inv[w].old = {u} THEN Return(w)
           ELSE Become(w, [inv[w] EXCEPT !.old = @ \ {u}])
    BY <1>11 DEF SupersedeOlder
  <2>2. [inv[w] EXCEPT !.old = @ \ {u}] = [inv[w] EXCEPT !.pc = "supersede", !.old = inv[w].old \ {u}]
    BY <1>4, <1>11 DEF SupersedeOlder, At, Invocation
  <2>3. inv[w].old \ {u} \subseteq Versions
    BY <1>4 DEF Invocation
  <2> QED
    BY <1>1, <1>3, <1>11, <2>1, <2>2, <2>3, AfterBecome, AfterReturn
    DEF SupersedeOlder, Route, Leads, At
<1> QED
  BY <1>1, <1>2, <1>5, <1>6, <1>7, <1>8, <1>9, <1>10, <1>11 DEF Processes

LEMMA DecisionLeads ==
    ASSUME Typed, NEW w \in Workers, Decides(w)
    PROVE  /\ ~At(w, "idle") /\ Route(w)
           /\ UNCHANGED <<grants, issued, events>> /\ (failed => failed')
<1>1. ~At(w, "idle")
  BY DEF Decides, At, RecallSet, PromoteSet, ToggleSet, RestoreQuery, RestoreSupersede,
         RestoreSet, DeleteObject, DeleteRow
<1>2. UNCHANGED <<grants, issued, events>>
  BY DEF Decides, RecallSet, PromoteSet, ToggleSet, RestoreQuery, RestoreSupersede,
         RestoreSet, DeleteObject, DeleteRow, catalog
<1>12. failed => failed'
  BY FailedStays DEF Decides, RecallSet, PromoteSet, ToggleSet, RestoreQuery, RestoreSupersede,
         RestoreSet, DeleteObject, DeleteRow, catalog
<1>3. {"query", "restoreSet", "restoreSupersede", "deleteRow"} \subseteq Pc
  BY DEF Pc
<1>4. inv[w] \in Invocation
  BY <1>1, Running
<1> SUFFICES Route(w)
  BY <1>1, <1>2, <1>12
<1>5. CASE RecallSet(w) \/ ToggleSet(w) \/ RestoreSet(w) \/ DeleteRow(w)
  BY <1>5, AfterReturn DEF RecallSet, ToggleSet, RestoreSet, DeleteRow, Route
<1>6. CASE PromoteSet(w)
  BY <1>1, <1>3, <1>6, AfterBecome DEF PromoteSet, Route, Leads, At
<1>7. CASE RestoreQuery(w)
  <2> DEFINE found == ActiveOthers(inv[w].ver, inv[w].channel)
             pc == IF found = {} THEN "restoreSet" ELSE "restoreSupersede"
  <2>1. found \subseteq Versions
    BY DEF ActiveOthers
  <2>2. pc \in Pc /\ Become(w, [inv[w] EXCEPT !.old = found, !.pc = pc])
    BY <1>3, <1>7 DEF RestoreQuery
  <2>3. At(w, "restoreQuery") /\ ~At(w, "promoteSet")
    BY <1>7 DEF RestoreQuery, At
  <2> HIDE DEF found
  <2>4. After(w, pc)
    BY <1>1, <2>1, <2>2, <2>3, AfterBecome
  <2> QED
    BY <2>3, <2>4 DEF Route, Leads
<1>8. CASE RestoreSupersede(w)
  <2>1. PICK u \in inv[w].old :
           Become(w, [inv[w] EXCEPT !.old = @ \ {u},
                         !.pc = IF inv[w].old = {u} THEN "restoreSet" ELSE @])
    BY <1>8 DEF RestoreSupersede
  <2> DEFINE pc == IF inv[w].old = {u} THEN "restoreSet" ELSE "restoreSupersede"
  <2>2. [inv[w] EXCEPT !.old = @ \ {u}, !.pc = IF inv[w].old = {u} THEN "restoreSet" ELSE @]
          = [inv[w] EXCEPT !.old = inv[w].old \ {u}, !.pc = pc]
    BY <1>4, <1>8 DEF RestoreSupersede, At, Invocation
  <2>3. inv[w].old \ {u} \subseteq Versions /\ pc \in Pc
    BY <1>3, <1>4 DEF Invocation
  <2>4. At(w, "restoreSupersede") /\ ~At(w, "promoteSet")
    BY <1>8 DEF RestoreSupersede, At
  <2>5. After(w, pc)
    BY <1>1, <2>1, <2>2, <2>3, <2>4, AfterBecome
  <2> QED
    BY <2>4, <2>5 DEF Route, Leads
<1>9. CASE DeleteObject(w)
  BY <1>1, <1>3, <1>9, AfterBecome DEF DeleteObject, Route, Leads, At
<1> QED
  BY <1>1, <1>2, <1>5, <1>6, <1>7, <1>8, <1>9 DEF Decides
----------------------------------------------------------------------------
(* What becomes of the rows                                                *)

(* w writes the row of its own version, or supersedes others.              *)
Writes(w) ==
    LET v == inv[w].ver IN
    /\ \A u \in Versions \ {v} :
          \/ pkgs'[u] = pkgs[u]
          \/ /\ pkgs[u].status = "ACTIVE" /\ pkgs'[u].status = "SUPERSEDED"
             /\ pkgs'[u].channel = pkgs[u].channel
    /\ \/ pkgs' = pkgs
       \/ /\ inv[w].pc \in {"promote", "supersede", "quarMark", "recallSet", "toggleSet",
                            "restoreSupersede", "restoreSet"}
          /\ pkgs'[v].channel = pkgs[v].channel
       \/ At(w, "promoteSet") /\ pkgs'[v].channel = "PROD"
       \/ /\ At(w, "deleteRow")
          /\ \/ inv[w].soft /\ pkgs'[v].status = "DELETED"
             \/ ~inv[w].soft /\ pkgs'[v].status = "NONE"
    /\ pkgs'[v].status = "PENDING" => pkgs[v].status = "PENDING"
    /\ pkgs'[v].status = "ACTIVE" /\ inv[w].pc \notin {"promote", "restoreSet"} =>
          pkgs[v].status = "ACTIVE"

LEMMA RowWritten ==
    ASSUME Typed, NEW w \in Workers, inv[w].ver \in Versions, NEW row,
           pkgs' = [pkgs EXCEPT ![inv[w].ver] = row],
           row.status = "PENDING" => pkgs[inv[w].ver].status = "PENDING",
           row.status = "ACTIVE" /\ inv[w].pc \notin {"promote", "restoreSet"} =>
              pkgs[inv[w].ver].status = "ACTIVE",
           \/ /\ inv[w].pc \in {"promote", "quarMark", "recallSet", "toggleSet", "restoreSet"}
              /\ row.channel = pkgs[inv[w].ver].channel
           \/ At(w, "promoteSet") /\ row.channel = "PROD"
           \/ /\ At(w, "deleteRow")
              /\ \/ inv[w].soft /\ row.status = "DELETED"
                 \/ ~inv[w].soft /\ row.status = "NONE"
    PROVE  Writes(w)
<1>1. pkgs'[inv[w].ver] = row /\ \A u \in Versions \ {inv[w].ver} : pkgs'[u] = pkgs[u]
  BY DEF Typed
<1> QED
  BY <1>1 DEF Writes

LEMMA RowSuperseded ==
    ASSUME Typed, NEW w \in Workers, inv[w].ver \in Versions,
           inv[w].pc \in {"supersede", "restoreSupersede"},
           NEW u \in Versions, SupersedeOne(u)
    PROVE  Writes(w)
<1>1. CASE pkgs' = pkgs
  BY <1>1 DEF Writes
<1>2. CASE pkgs[u].status = "ACTIVE" /\ SetStatus(u, "SUPERSEDED")
  <2>1. pkgs \in [Versions -> Package]
    BY DEF Typed, TypeOK
  <2>2. /\ pkgs'[u].status = "SUPERSEDED" /\ pkgs'[u].channel = pkgs[u].channel
        /\ \A x \in Versions \ {u} : pkgs'[x] = pkgs[x]
    BY <1>2, <2>1 DEF SetStatus, Package
  <2> QED
    BY <1>2, <2>2 DEF Writes
<1> QED
  BY <1>1, <1>2 DEF SupersedeOne

LEMMA ProcessWrites ==
    ASSUME Typed, NEW w \in Workers, Processes(w)
    PROVE  Writes(w)
<1> DEFINE v == inv[w].ver
<1>1. inv[w] \in Invocation /\ v \in Versions
  BY ProcessLeads, Running
<1>2. pkgs[v] \in Package
  BY <1>1 DEF Typed, TypeOK
<1>3. ASSUME pkgs' = pkgs PROVE Writes(w)
  BY <1>3 DEF Writes
<1>4. CASE MakeActive(w)
  <2> DEFINE row == [pkgs[v] EXCEPT !.status = "ACTIVE", !.enc = inv[w].data,
                                    !.token = 0, !.sum = NoData]
  <2>1. pkgs' = pkgs \/ pkgs' = [pkgs EXCEPT ![v] = row]
    BY <1>4 DEF MakeActive
  <2>2. row.status = "ACTIVE" /\ row.channel = pkgs[v].channel /\ At(w, "promote")
    BY <1>2, <1>4 DEF Package, MakeActive
  <2> HIDE DEF row
  <2> QED
    BY <1>1, <1>3, <2>1, <2>2, RowWritten DEF At
<1>5. CASE SupersedeOlder(w)
  <2>1. PICK u \in inv[w].old : SupersedeOne(u)
    BY <1>5 DEF SupersedeOlder
  <2>2. u \in Versions /\ At(w, "supersede")
    BY <1>1, <1>5 DEF Invocation, SupersedeOlder
  <2> QED
    BY <1>1, <2>1, <2>2, RowSuperseded DEF At
<1>6. CASE QuarantineMark(w)
  <2> DEFINE row == [pkgs[v] EXCEPT !.status = "CORRUPTED"]
  <2>1. pkgs' = pkgs \/ pkgs' = [pkgs EXCEPT ![v] = row]
    BY <1>6 DEF QuarantineMark, SetStatus
  <2>2. row.status = "CORRUPTED" /\ row.channel = pkgs[v].channel /\ At(w, "quarMark")
    BY <1>2, <1>6 DEF Package, QuarantineMark
  <2> HIDE DEF row
  <2> QED
    BY <1>1, <1>3, <2>1, <2>2, RowWritten DEF At
<1>7. CASE DeleteOrphan(w) \/ CheckToken(w) \/ ReadArtifact(w) \/ DeletePlain(w)
           \/ QueryOlder(w) \/ QuarantineDelete(w) \/ Die(w)
  BY <1>3, <1>7 DEF DeleteOrphan, CheckToken, ReadArtifact, DeletePlain, QueryOlder,
                    QuarantineDelete, Die, catalog
<1> QED
  BY <1>4, <1>5, <1>6, <1>7 DEF Processes

LEMMA DecisionWrites ==
    ASSUME Typed, NEW w \in Workers, Decides(w)
    PROVE  Writes(w)
<1> DEFINE v == inv[w].ver
<1>1. inv[w] \in Invocation /\ v \in Versions
  BY DecisionLeads, Running
<1>2. pkgs[v] \in Package
  BY <1>1 DEF Typed, TypeOK
<1>3. ASSUME pkgs' = pkgs PROVE Writes(w)
  BY <1>3 DEF Writes
<1>4. /\ Upserted(pkgs[v]) \in Package /\ Upserted(pkgs[v]).channel = pkgs[v].channel
      /\ \A s \in {"PENDING", "ACTIVE"} : Upserted(pkgs[v]).status = s => pkgs[v].status = s
  BY <1>2 DEF Upserted, Package, Status
<1>5. CASE RecallSet(w)
  <2> DEFINE row == [pkgs[v] EXCEPT !.status = "RECALLED", !.activated = FALSE]
  <2>1. pkgs' = [pkgs EXCEPT ![v] = row] /\ At(w, "recallSet")
    BY <1>5 DEF RecallSet, Write
  <2>2. row.status = "RECALLED" /\ row.channel = pkgs[v].channel
    BY <1>2 DEF Package
  <2> HIDE DEF row
  <2> QED
    BY <1>1, <2>1, <2>2, RowWritten DEF At
<1>6. CASE PromoteSet(w)
  <2> DEFINE row == [Upserted(pkgs[v]) EXCEPT !.channel = "PROD"]
  <2>1. pkgs' = [pkgs EXCEPT ![v] = row] /\ At(w, "promoteSet")
    BY <1>6 DEF PromoteSet, Write
  <2>2. /\ \A s \in {"PENDING", "ACTIVE"} : row.status = s => pkgs[v].status = s
        /\ row.channel = "PROD"
    BY <1>4 DEF Package
  <2> HIDE DEF row
  <2> QED
    BY <1>1, <2>1, <2>2, RowWritten
<1>7. CASE ToggleSet(w)
  <2>1. PICK shown \in BOOLEAN : Write(w, [Upserted(pkgs[inv[w].ver]) EXCEPT !.activated = shown])
    BY <1>7 DEF ToggleSet
  <2> DEFINE row == [Upserted(pkgs[v]) EXCEPT !.activated = shown]
  <2>2. pkgs' = [pkgs EXCEPT ![v] = row] /\ At(w, "toggleSet")
    BY <1>7, <2>1 DEF ToggleSet, Write
  <2>3. /\ \A s \in {"PENDING", "ACTIVE"} : row.status = s => pkgs[v].status = s
        /\ row.channel = pkgs[v].channel
    BY <1>4 DEF Package
  <2> HIDE DEF row
  <2> QED
    BY <1>1, <2>2, <2>3, RowWritten DEF At
<1>8. CASE RestoreSupersede(w)
  <2>1. PICK u \in inv[w].old : SupersedeOne(u)
    BY <1>8 DEF RestoreSupersede
  <2>2. u \in Versions /\ At(w, "restoreSupersede")
    BY <1>1, <1>8 DEF Invocation, RestoreSupersede
  <2> QED
    BY <1>1, <2>1, <2>2, RowSuperseded DEF At
<1>9. CASE RestoreSet(w)
  <2> DEFINE row == [pkgs[v] EXCEPT !.status = "ACTIVE"]
  <2>1. pkgs' = [pkgs EXCEPT ![v] = row] /\ At(w, "restoreSet")
    BY <1>9 DEF RestoreSet, Write
  <2>2. row.status = "ACTIVE" /\ row.channel = pkgs[v].channel
    BY <1>2 DEF Package
  <2> HIDE DEF row
  <2> QED
    BY <1>1, <2>1, <2>2, RowWritten DEF At
<1>10. CASE DeleteRow(w)
  <2> DEFINE row == IF inv[w].soft THEN [pkgs[v] EXCEPT !.status = "DELETED"] ELSE NoRow
  <2>1. pkgs' = [pkgs EXCEPT ![v] = row] /\ At(w, "deleteRow")
    BY <1>10 DEF DeleteRow, Write
  <2>2. row.status = IF inv[w].soft THEN "DELETED" ELSE "NONE"
    BY <1>2, EmptyTyped DEF Package
  <2>3. inv[w].soft \in BOOLEAN
    BY <1>1 DEF Invocation
  <2> HIDE DEF row
  <2> QED
    BY <1>1, <2>1, <2>2, <2>3, RowWritten
<1>11. CASE RestoreQuery(w) \/ DeleteObject(w)
  BY <1>3, <1>11 DEF RestoreQuery, DeleteObject, catalog
<1> QED
  BY <1>5, <1>6, <1>7, <1>8, <1>9, <1>10, <1>11 DEF Decides
----------------------------------------------------------------------------
(* One upload of a version is under way, and its row waits for it          *)

InHand(v) == OneHandler(v) /\ Waiting(v)

LEMMA NothingComes ==
    ASSUME NEW v \in Versions, InHand(v), events'[v] \in Nat,
           \/ ~UnderWay(v)'
           \/ /\ Open(v)' => Open(v)
              /\ events'[v] = events[v]
              /\ \A x \in Workers : Handles(x, v)' => Handles(x, v)
              /\ UnderWay(v) => pkgs'[v].status \in {"PENDING", "NONE"}
              /\ \A x \in Workers : inv'[x].ver = v /\ inv'[x].pc \in Administers =>
                    inv[x].ver = v /\ inv[x].pc \in Administers
    PROVE  InHand(v)'
<1>1. CASE ~UnderWay(v)'
  BY <1>1 DEF InHand, OneHandler, Waiting, UnderWay
<1>2. CASE /\ Open(v)' => Open(v)
           /\ events'[v] = events[v]
           /\ \A x \in Workers : Handles(x, v)' => Handles(x, v)
           /\ UnderWay(v) => pkgs'[v].status \in {"PENDING", "NONE"}
           /\ \A x \in Workers : inv'[x].ver = v /\ inv'[x].pc \in Administers =>
                 inv[x].ver = v /\ inv[x].pc \in Administers
  <2>1. OneHandler(v)'
    BY <1>2 DEF InHand, OneHandler
  <2>2. UnderWay(v)' => UnderWay(v)
    BY <1>2 DEF UnderWay
  <2> QED
    BY <1>2, <2>1, <2>2 DEF InHand, Waiting
<1> QED
  BY <1>1, <1>2

LEMMA HandledCalls ==
    ASSUME Typed, Typed', \A u \in Versions : InHand(u), NEW w \in Workers, SameChannel(inv[w]),
           Processes(w) \/ Decides(w)
    PROVE  \A u \in Versions : InHand(u)'
<1>0. PICK v \in Versions : v = inv[w].ver
  BY ProcessLeads, DecisionLeads, Running
<1>1. /\ ~At(w, "idle") /\ Route(w) /\ Writes(w) /\ inv[w].ver \in Versions
      /\ UNCHANGED <<grants, issued, events>>
  BY ProcessLeads, DecisionLeads, ProcessWrites, DecisionWrites, Running
<1>2. \A x \in Workers \ {w} : inv'[x] = inv[x]
  BY <1>0, <1>1 DEF Route, Leads, After
<1>3. \A u \in Versions : (Open(u)' <=> Open(u)) /\ events'[u] = events[u] /\ events'[u] \in Nat
  BY <1>0, <1>1, CatalogAssumption DEF Open, Typed, TypeOK
<1>4. /\ inv'[w].pc # "idle" => inv'[w].ver = inv[w].ver
      /\ inv'[w].pc \in Handling => inv[w].pc \in Handling /\ pkgs' = pkgs
      /\ inv'[w].pc \in Administers =>
            \/ inv[w].pc \in Administers
            \/ At(w, "promote")
      /\ inv'[w].pc = "deleteRow" => pkgs' = pkgs
  BY <1>0, <1>1 DEF Route, Leads, After, At, Handling, Administers, Writes
<1>5. ASSUME NEW u \in Versions \ {v} PROVE InHand(u)'
  <2>1. \A x \in Workers : Handles(x, u)' => Handles(x, u)
    BY <1>0, <1>2, <1>4, <1>5 DEF Handles, Handling
  <2>2. \A x \in Workers : inv'[x].ver = u /\ inv'[x].pc \in Administers =>
           inv[x].ver = u /\ inv[x].pc \in Administers
    BY <1>0, <1>2, <1>4 DEF Administers
  <2>3. UnderWay(u) => pkgs'[u].status \in {"PENDING", "NONE"}
    BY <1>0, <1>1, <1>5 DEF Writes, InHand, Waiting
  <2> QED
    BY <1>0, <1>3, <2>1, <2>2, <2>3, NothingComes
<1>6. InHand(v)'
  <2>1. \A x \in Workers : Handles(x, v)' => Handles(x, v)
    BY <1>0, <1>2, <1>4 DEF Handles, Handling
  <2>2. CASE Handles(w, v) /\ ~Handles(w, v)'
    <3>1. \A x \in Workers : ~Handles(x, v)'
      BY <1>0, <1>1, <1>2, <2>1, <2>2 DEF InHand, OneHandler
    <3>2. ~UnderWay(v)'
      BY <1>0, <1>1, <1>3, <2>2, <3>1 DEF UnderWay, InHand, OneHandler
    <3> QED
      BY <1>0, <1>1, <1>3, <3>2, NothingComes
  <2>3. CASE inv[w].pc \in Administers
    <3>1. ~UnderWay(v)
      BY <1>0, <1>1, <2>3 DEF InHand, Waiting
    <3>2. ~UnderWay(v)'
      BY <1>0, <1>3, <2>1, <3>1, <1>1 DEF UnderWay
    <3> QED
      BY <1>0, <1>1, <1>3, <3>2, NothingComes
  <2>4. CASE inv[w].pc \notin Administers /\ (Handles(w, v) => Handles(w, v)')
    <3>1. At(w, "promote") => Handles(w, v)
      BY <1>0 DEF At, Handles, Handling
    <3>2. inv'[w].pc \notin Administers
      BY <1>0, <1>4, <2>4, <3>1 DEF Handles, Handling, Administers
    <3>3. \A x \in Workers : inv'[x].ver = v /\ inv'[x].pc \in Administers =>
             inv[x].ver = v /\ inv[x].pc \in Administers
      BY <1>0, <1>2, <3>2
    <3>4. UnderWay(v) => pkgs'[v].status \in {"PENDING", "NONE"}
      <4>1. CASE pkgs' = pkgs
        BY <1>0, <1>1, <4>1 DEF InHand, Waiting
      <4>2. CASE Handles(w, v)
        BY <1>0, <1>1, <1>4, <2>4, <4>1, <4>2 DEF Handles
      <4>3. CASE pkgs' # pkgs /\ ~Handles(w, v)
        <5>1. At(w, "deleteRow") /\ (~inv[w].soft => pkgs'[v].status = "NONE")
          BY <1>0, <1>1, <2>4, <4>3 DEF Writes, Handles, Handling, Administers, At
        <5>2. UnderWay(v) => pkgs[v].status # "RECALLED"
          BY <1>0, <1>1 DEF InHand, Waiting
        <5>3. UnderWay(v) => ~inv[w].soft
          BY <1>0, <5>1, <5>2 DEF SameChannel, At
        <5> QED
          BY <5>1, <5>3
      <4> QED
        BY <4>1, <4>2, <4>3
    <3> QED
      BY <1>0, <1>1, <1>3, <2>1, <3>3, <3>4, NothingComes
  <2> QED
    BY <2>2, <2>3, <2>4
<1> QED
  BY <1>0, <1>5, <1>6
----------------------------------------------------------------------------
(* Release types, objects and the order of activations                     *)

LEMMA ChannelCalls ==
    ASSUME Typed, CatalogInv, \A u \in Versions : InHand(u), NEW w \in Workers,
           \A x \in Workers : SameChannel(inv[x]), Processes(w) \/ Decides(w)
    PROVE  \A x \in Workers : SameChannel(inv[x])'
<1>1. /\ ~At(w, "idle") /\ Route(w) /\ Writes(w)
  BY ProcessLeads, DecisionLeads, ProcessWrites, DecisionWrites
<1>2. ASSUME NEW x \in Workers \ {w} PROVE SameChannel(inv[x])'
  <2>1. inv'[x] = inv[x] /\ SameChannel(inv[x]) /\ Current(inv[x])
    BY <1>1 DEF Route, Leads, After, CatalogInv
  <2>2. inv[x].pc \notin {"restoreQuery", "restoreSupersede", "restoreSet", "deleteRaw", "deleteRow"}
    BY <1>1, <2>1 DEF CatalogInv, Alone, Current, At
  <2>3. ASSUME inv[x].pc \in Handling, pkgs'[inv[x].ver].status = "PENDING"
        PROVE  inv[x].channel = pkgs'[inv[x].ver].channel
    <3>1. PICK u \in Versions : u = inv[x].ver
      BY <2>3, Running DEF At, Handling
    <3>2. CASE u # inv[w].ver
      <4>1. pkgs'[u] = pkgs[u]
        BY <1>1, <2>3, <3>1, <3>2 DEF Writes
      <4> QED
        BY <2>1, <2>3, <3>1, <4>1 DEF SameChannel
    <3>3. CASE u = inv[w].ver
      <4>1. Handles(x, u)
        BY <2>3, <3>1 DEF Handles
      <4>2. inv[w].pc \notin Administers
        BY <3>3, <4>1 DEF InHand, Waiting, UnderWay
      <4>3. pkgs[u].status = "PENDING" /\ pkgs'[u].channel = pkgs[u].channel
        BY <1>1, <2>3, <3>1, <3>3, <4>2 DEF Writes, Administers, At
      <4> QED
        BY <2>1, <2>3, <3>1, <4>3 DEF SameChannel
    <3> QED
      BY <3>2, <3>3
  <2> QED
    BY <2>1, <2>2, <2>3 DEF SameChannel
<1>3. SameChannel(inv[w])'
  <2>1. SameChannel(inv[w])
    OBVIOUS
  <2>2. CASE inv'[w].pc \in Handling \cup {"deleteRow"}
    <3>1. /\ pkgs' = pkgs /\ inv[w].pc \in Handling \cup {"deleteRaw"}
          /\ inv'[w].pc = "deleteRow" <=> inv[w].pc = "deleteRaw"
          /\ inv'[w].ver = inv[w].ver /\ inv'[w].channel = inv[w].channel
          /\ inv'[w].soft = inv[w].soft
      BY <1>1, <2>2 DEF Route, Leads, After, At, Handling, Writes
    <3> QED
      BY <2>1, <2>2, <3>1 DEF SameChannel, Handling
  <2>3. CASE inv'[w].pc \in {"restoreSupersede", "restoreSet"}
    <3>1. /\ inv[w].pc \in {"restoreQuery", "restoreSupersede"}
          /\ pkgs'[inv[w].ver].channel = pkgs[inv[w].ver].channel
          /\ inv'[w].ver = inv[w].ver /\ inv'[w].channel = inv[w].channel
      BY <1>1, <2>3 DEF Route, Leads, After, At, Writes
    <3> QED
      BY <2>1, <2>3, <3>1 DEF SameChannel, Handling
  <2>4. inv'[w].pc \in Handling \cup {"deleteRow", "restoreSupersede", "restoreSet"}
        \/ inv'[w].pc \in {"idle", "query", "supersede"}
    BY <1>1 DEF Route, Leads, After, Handling
  <2>5. CASE inv'[w].pc \in {"idle", "query", "supersede"}
    BY <2>5 DEF SameChannel, Handling
  <2> QED
    BY <2>2, <2>3, <2>4, <2>5
<1> QED
  BY <1>2, <1>3

(* A row that waits has the release type of its request, no object is      *)
(* made, and no version comes after itself.                                *)
LEMMA PlainCalls ==
    ASSUME Typed, NEW w \in Workers, Processes(w) \/ Decides(w), NEW v \in Versions,
           pkgs[v].status = "PENDING" => pkgs[v].channel # NoChannel,
           raw[v].data = NoData => raw[v] = NoObject, <<v, v>> \notin order
    PROVE  /\ pkgs'[v].status = "PENDING" => pkgs'[v].channel # NoChannel
           /\ raw'[v] \in {raw[v], NoObject}
           /\ raw'[v].data = NoData => raw'[v] = NoObject
           /\ <<v, v>> \notin order'
<1>1. /\ Writes(w) /\ inv[w].ver \in Versions
  BY ProcessWrites, DecisionWrites, ProcessLeads, DecisionLeads, Running
<1>2. "PROD" # NoChannel
  BY CatalogAssumption DEF ReleaseTypes
<1>3. pkgs'[v].status = "PENDING" => pkgs'[v].channel # NoChannel
  <2>1. CASE v # inv[w].ver
    BY <1>1, <2>1 DEF Writes
  <2>2. CASE v = inv[w].ver
    BY <1>1, <1>2, <2>2 DEF Writes
  <2> QED
    BY <2>1, <2>2
<1>4. ASSUME NEW u, DeleteRaw(u) PROVE raw'[v] \in {raw[v], NoObject}
  BY <1>4 DEF DeleteRaw, Typed, TypeOK
<1>5. raw'[v] \in {raw[v], NoObject}
  <2>1. CASE Processes(w)
    BY <1>4, <2>1 DEF Processes, DeleteOrphan, CheckToken, ReadArtifact, DeletePlain, MakeActive,
         QueryOlder, SupersedeOlder, QuarantineDelete, QuarantineMark, Die, catalog
  <2>2. CASE Decides(w)
    BY <1>4, <2>2 DEF Decides, RecallSet, PromoteSet, ToggleSet, RestoreQuery, RestoreSupersede,
         RestoreSet, DeleteObject, DeleteRow, catalog
  <2> QED
    BY <2>1, <2>2
<1>6. ASSUME NEW u, Activated(u) PROVE <<v, v>> \notin order'
  BY <1>6 DEF Activated
<1>7. <<v, v>> \notin order'
  <2>1. CASE Processes(w)
    BY <1>6, <2>1 DEF Processes, DeleteOrphan, CheckToken, ReadArtifact, DeletePlain, MakeActive,
         QueryOlder, SupersedeOlder, QuarantineDelete, QuarantineMark, Die, catalog
  <2>2. CASE Decides(w)
    BY <1>6, <2>2 DEF Decides, RecallSet, PromoteSet, ToggleSet, RestoreQuery, RestoreSupersede,
         RestoreSet, DeleteObject, DeleteRow, catalog
  <2> QED
    BY <2>1, <2>2
<1> QED
  BY <1>3, <1>5, <1>7
----------------------------------------------------------------------------
(* As long as no call failed: restores, supersessions, plain objects       *)

LEMMA RestoringCalls ==
    ASSUME Typed, CatalogInv, NEW w \in Workers, Processes(w) \/ Decides(w), ~failed',
           SameChannel(inv[w]), Restoring(inv[w])
    PROVE  \A x \in Workers : Restoring(inv[x])'
<1>1. /\ ~At(w, "idle") /\ Route(w) /\ inv[w] \in Invocation
  BY ProcessLeads, DecisionLeads, Running
<1>2. ASSUME NEW x \in Workers \ {w} PROVE Restoring(inv[x])'
  <2>1. inv'[x] = inv[x] /\ Current(inv[x])
    BY <1>1 DEF Route, Leads, After, CatalogInv
  <2>2. inv[x].pc \notin {"restoreSupersede", "restoreSet"}
    BY <1>1, <2>1 DEF CatalogInv, Alone, Current, At
  <2> QED
    BY <2>1, <2>2 DEF Restoring
<1>3. Restoring(inv[w])'
  <2>1. CASE RestoreQuery(w)
    <3> DEFINE found == ActiveOthers(inv[w].ver, inv[w].channel)
               pc == IF found = {} THEN "restoreSet" ELSE "restoreSupersede"
    <3>1. Become(w, [inv[w] EXCEPT !.old = found, !.pc = pc]) /\ UNCHANGED pkgs
      BY <2>1 DEF RestoreQuery, catalog
    <3>2. /\ inv'[w].pc = pc /\ inv'[w].old = found
          /\ inv'[w].ver = inv[w].ver /\ inv'[w].channel = inv[w].channel
      BY <1>1, <3>1 DEF Become, Typed, TypeOK, Invocation
    <3>3. ActiveOthers(inv[w].ver, inv[w].channel)' = found
      BY <3>1, <3>2 DEF ActiveOthers
    <3> HIDE DEF found
    <3> QED
      BY <3>2, <3>3 DEF Restoring
  <2>2. CASE RestoreSupersede(w)
    <3>1. PICK u \in inv[w].old :
             /\ SupersedeOne(u)
             /\ Become(w, [inv[w] EXCEPT !.old = @ \ {u},
                              !.pc = IF inv[w].old = {u} THEN "restoreSet" ELSE @])
      BY <2>2 DEF RestoreSupersede
    <3> DEFINE pc == IF inv[w].old = {u} THEN "restoreSet" ELSE "restoreSupersede"
    <3>2. /\ inv'[w].pc = pc /\ inv'[w].old = inv[w].old \ {u}
          /\ inv'[w].ver = inv[w].ver /\ inv'[w].channel = inv[w].channel
      BY <1>1, <2>2, <3>1 DEF Become, Typed, TypeOK, Invocation, RestoreSupersede, At
    <3>3. /\ pkgs'[u].status # "ACTIVE"
          /\ \A y \in Versions : pkgs'[y].status = "ACTIVE" =>
                pkgs[y].status = "ACTIVE" /\ pkgs'[y].channel = pkgs[y].channel
      <4>1. u \in Versions /\ pkgs \in [Versions -> Package]
        BY <1>1 DEF Invocation, Typed, TypeOK
      <4> QED
        BY <3>1, <4>1 DEF SupersedeOne, SetStatus, Fails, Package
    <3>4. ActiveOthers(inv[w].ver, inv[w].channel) \subseteq inv[w].old
      BY <2>2 DEF Restoring, RestoreSupersede, At
    <3>5. ActiveOthers(inv[w].ver, inv[w].channel)' \subseteq inv[w].old \ {u}
      BY <3>2, <3>3, <3>4 DEF ActiveOthers
    <3> QED
      BY <3>2, <3>5 DEF Restoring
  <2>3. CASE ~RestoreQuery(w) /\ ~RestoreSupersede(w)
    <3>1. inv[w].pc \notin {"restoreQuery", "restoreSupersede"} \/ Die(w)
      BY <2>3 DEF At, Processes, Decides, DeleteOrphan, CheckToken, ReadArtifact, DeletePlain,
         MakeActive, QueryOlder, SupersedeOlder, QuarantineDelete, QuarantineMark,
         RecallSet, PromoteSet, ToggleSet, RestoreSet, DeleteObject, DeleteRow
    <3>2. ~Die(w)
      BY DEF Die
    <3> QED
      BY <1>1, <3>1, <3>2 DEF Restoring, Route, Leads, After, At
  <2> QED
    BY <2>1, <2>2, <2>3
<1> QED
  BY <1>2, <1>3

LEMMA ActivatedOrder ==
    ASSUME NEW a, Activated(a), NEW u, NEW v, <<u, v>> \in order'
    PROVE  v # a /\ (u = a \/ <<u, v>> \in order)
  BY DEF Activated

LEMMA OrderKept ==
    ASSUME NEW w \in Workers, Processes(w) \/ Decides(w),
           inv[w].pc \notin {"promote", "promoteSet", "restoreSet"}
    PROVE  order' = order
<1>1. CASE Processes(w)
  BY <1>1 DEF At, Processes, DeleteOrphan, CheckToken, ReadArtifact, DeletePlain, MakeActive,
       QueryOlder, SupersedeOlder, QuarantineDelete, QuarantineMark, Die, catalog
<1>2. CASE Decides(w)
  BY <1>2 DEF At, Decides, RecallSet, PromoteSet, ToggleSet, RestoreQuery, RestoreSupersede,
       RestoreSet, DeleteObject, DeleteRow, catalog
<1> QED
  BY <1>1, <1>2

(* Nothing comes into service or after another, and whoever has to         *)
(* supersede v goes on.                                                    *)
LEMMA OvertakenKept ==
    ASSUME NEW u \in Versions, NEW v \in Versions, Overtaken(u, v),
           \A y \in {u, v} : pkgs'[y].status = "ACTIVE" =>
              pkgs[y].status = "ACTIVE" /\ pkgs'[y].channel = pkgs[y].channel,
           <<u, v>> \in order' => <<u, v>> \in order,
           \A x \in Workers :
              /\ WillSupersede(x, u, v) /\ u # v /\ ~(u < v)
              /\ pkgs'[u].status = "ACTIVE" /\ pkgs'[v].status = "ACTIVE"
              /\ pkgs'[u].channel = pkgs'[v].channel
              => \E y \in Workers : WillSupersede(y, u, v)'
    PROVE  Overtaken(u, v)'
  BY DEF Overtaken

LEMMA WillKept ==
    ASSUME NEW x \in Workers, NEW u \in Versions, NEW v \in Versions, WillSupersede(x, u, v),
           inv'[x] = inv[x], pkgs'[u].channel = pkgs[u].channel
    PROVE  WillSupersede(x, u, v)'
  BY DEF WillSupersede, At
(* A version comes into service: w has superseded what is older, or will.  *)
LEMMA Activation ==
    ASSUME Typed, NEW w \in Workers, NEW a \in Versions, Activated(a),
           \A x \in Workers \ {w} : inv'[x] = inv[x],
           \A u \in Versions \ {a} : pkgs'[u] = pkgs[u],
           ~At(w, "query"), ~At(w, "supersede"),
           \A v \in Versions \ {a} :
              pkgs'[v].status = "ACTIVE" /\ pkgs'[a].channel = pkgs'[v].channel =>
                 WillSupersede(w, a, v)',
           \A u, v \in Versions : Overtaken(u, v)
    PROVE  \A u, v \in Versions : Overtaken(u, v)'
<1> SUFFICES ASSUME NEW u \in Versions, NEW v \in Versions PROVE Overtaken(u, v)'
  OBVIOUS
<1>1. <<u, v>> \in order' => v # a /\ (u = a \/ <<u, v>> \in order)
  BY ActivatedOrder
<1>2. CASE v = a \/ <<u, v>> \notin order'
  BY <1>1, <1>2 DEF Overtaken
<1>3. CASE u = a /\ v # a
  BY <1>3 DEF Overtaken
<1>4. CASE u # a /\ v # a /\ <<u, v>> \in order'
  <2>1. \A x \in Workers : WillSupersede(x, u, v) => x # w
    BY DEF WillSupersede
  <2>2. \A x \in Workers : WillSupersede(x, u, v) => WillSupersede(x, u, v)'
    BY <1>4, <2>1, WillKept
  <2> QED
    BY <1>1, <1>4, <2>2, OvertakenKept
<1> QED
  BY <1>2, <1>3, <1>4

LEMMA OvertakenCalls ==
    ASSUME Typed, CatalogInv, \A u \in Versions : InHand(u), NEW w \in Workers,
           \A u \in Versions : pkgs[u].status = "PENDING" => pkgs[u].channel # NoChannel,
           \A u \in Versions : <<u, u>> \notin order,
           SameChannel(inv[w]), Restoring(inv[w]), \A u, v \in Versions : Overtaken(u, v),
           Processes(w) \/ Decides(w), ~failed'
    PROVE  \A u, v \in Versions : Overtaken(u, v)'
<1>0. PICK a \in Versions : a = inv[w].ver
  BY ProcessLeads, DecisionLeads, Running
<1>1. /\ ~At(w, "idle") /\ Route(w) /\ Writes(w) /\ inv[w] \in Invocation
      /\ \A x \in Workers \ {w} : inv'[x] = inv[x]
  <2>1. ~At(w, "idle") /\ Route(w) /\ Writes(w)
    BY ProcessLeads, DecisionLeads, ProcessWrites, DecisionWrites
  <2> QED
    BY <2>1, Running DEF Route, Leads, After
<1>2. ~Die(w) /\ pkgs \in [Versions -> Package] /\ pkgs[a] \in Package
  BY DEF Die, Typed, TypeOK
<1>3. CASE MakeActive(w) /\ pkgs' # pkgs
  <2> DEFINE row == [pkgs[a] EXCEPT !.status = "ACTIVE", !.enc = inv[w].data,
                                    !.token = 0, !.sum = NoData]
  <2>1. /\ pkgs[a].status # "NONE" /\ At(w, "promote") /\ Activated(a)
        /\ pkgs' = [pkgs EXCEPT ![a] = row]
        /\ IF inv[w].channel = NoChannel THEN Return(w) ELSE Goto(w, "query")
    BY <1>0, <1>3 DEF MakeActive
  <2>2. pkgs'[a].channel = pkgs[a].channel /\ \A u \in Versions \ {a} : pkgs'[u] = pkgs[u]
    BY <1>2, <2>1 DEF Package
  <2>3. pkgs[a].status = "PENDING"
    <3>1. Handles(w, a)
      BY <1>0, <2>1 DEF Handles, Handling, At
    <3> QED
      BY <2>1, <3>1 DEF InHand, Waiting, UnderWay
  <2>4. inv[w].channel = pkgs[a].channel /\ inv[w].channel # NoChannel
    BY <1>0, <2>1, <2>3 DEF SameChannel, Handling, At
  <2>5. After(w, "query")
    BY <1>1, <2>1, <2>4, AfterBecome DEF At
  <2>6. \A v : WillSupersede(w, a, v)'
    BY <1>0, <2>1, <2>2, <2>4, <2>5 DEF WillSupersede, After, At
  <2> QED
    BY <1>1, <2>1, <2>2, <2>6, Activation DEF At
<1>4. CASE PromoteSet(w)
  <2>1. /\ At(w, "promoteSet") /\ Activated(a)
        /\ pkgs' = [pkgs EXCEPT ![a] = [Upserted(pkgs[a]) EXCEPT !.channel = "PROD"]]
        /\ Become(w, [inv[w] EXCEPT !.pc = "query", !.channel = "PROD"])
    BY <1>0, <1>4 DEF PromoteSet, Write
  <2>2. pkgs'[a].channel = "PROD" /\ \A u \in Versions \ {a} : pkgs'[u] = pkgs[u]
    BY <1>2, <2>1 DEF Package, Upserted
  <2>3. After(w, "query")
    BY <1>1, <2>1, AfterBecome
  <2>4. \A v : WillSupersede(w, a, v)'
    BY <1>0, <2>1, <2>2, <2>3 DEF WillSupersede, After, At
  <2> QED
    BY <1>1, <2>1, <2>2, <2>4, Activation DEF At
<1>5. CASE RestoreSet(w)
  <2>1. /\ At(w, "restoreSet") /\ Activated(a)
        /\ pkgs' = [pkgs EXCEPT ![a] = [pkgs[a] EXCEPT !.status = "ACTIVE"]]
    BY <1>0, <1>5 DEF RestoreSet, Write
  <2>2. pkgs'[a].channel = pkgs[a].channel /\ \A u \in Versions \ {a} : pkgs'[u] = pkgs[u]
    BY <1>2, <2>1 DEF Package
  <2>3. ActiveOthers(a, pkgs[a].channel) = {}
    BY <1>0, <2>1 DEF Restoring, SameChannel, At
  <2>4. \A v \in Versions \ {a} :
           ~(pkgs'[v].status = "ACTIVE" /\ pkgs'[a].channel = pkgs'[v].channel)
    BY <2>2, <2>3 DEF ActiveOthers
  <2> QED
    BY <1>1, <2>1, <2>2, <2>4, Activation DEF At
<1>6. CASE pkgs' = pkgs /\ order' = order /\ ~At(w, "query") /\ ~At(w, "supersede")
  <2> SUFFICES ASSUME NEW u \in Versions, NEW v \in Versions PROVE Overtaken(u, v)'
    OBVIOUS
  <2>1. \A x \in Workers : WillSupersede(x, u, v) => WillSupersede(x, u, v)'
    BY <1>1, <1>6, WillKept DEF WillSupersede
  <2> QED
    BY <1>6, <2>1, OvertakenKept
<1>7. CASE inv[w].pc \notin {"promote", "promoteSet", "restoreSet", "query", "supersede"}
  <2> SUFFICES ASSUME NEW u \in Versions, NEW v \in Versions PROVE Overtaken(u, v)'
    OBVIOUS
  <2>1. order' = order
    BY <1>7, OrderKept
  <2>2. \A y \in Versions : pkgs'[y].status = "ACTIVE" =>
           pkgs[y].status = "ACTIVE" /\ pkgs'[y].channel = pkgs[y].channel
    BY <1>1, <1>7 DEF Writes, At
  <2>3. \A x \in Workers : WillSupersede(x, u, v) => x # w
    BY <1>7 DEF WillSupersede, At
  <2>4. \A x \in Workers : WillSupersede(x, u, v) /\ pkgs'[u].status = "ACTIVE" =>
           WillSupersede(x, u, v)'
    BY <1>1, <2>2, <2>3, WillKept
  <2> QED
    BY <2>1, <2>2, <2>4, OvertakenKept
<1>8. CASE QueryOlder(w)
  <2> SUFFICES ASSUME NEW u \in Versions, NEW v \in Versions PROVE Overtaken(u, v)'
    OBVIOUS
  <2> DEFINE found == {y \in ActiveOthers(inv[w].ver, inv[w].channel) : y < inv[w].ver}
  <2>1. /\ pkgs' = pkgs /\ order' = order /\ At(w, "query")
        /\ IF found = {} THEN Return(w)
           ELSE Become(w, [inv[w] EXCEPT !.pc = "supersede", !.old = found])
    BY <1>8 DEF QueryOlder, catalog
  <2>2. ASSUME WillSupersede(w, u, v), u # v, ~(u < v),
               pkgs[u].status = "ACTIVE", pkgs[v].status = "ACTIVE",
               pkgs[u].channel = pkgs[v].channel
        PROVE  WillSupersede(w, u, v)'
    <3>1. u = inv[w].ver /\ inv[w].channel = pkgs[u].channel /\ u \in Nat /\ v \in Nat
      BY <2>2, CatalogAssumption DEF WillSupersede
    <3>2. v \in found
      BY <2>2, <3>1 DEF ActiveOthers
    <3>3. Become(w, [inv[w] EXCEPT !.pc = "supersede", !.old = found])
      BY <2>1, <3>2
    <3> HIDE DEF found
    <3>4. inv'[w].pc = "supersede" /\ inv'[w].old = found /\ inv'[w].ver = inv[w].ver
          /\ inv'[w].channel = inv[w].channel
      BY <1>1, <3>3 DEF Become, Typed, TypeOK, Invocation
    <3> QED
      BY <2>1, <3>1, <3>2, <3>4 DEF WillSupersede, At
  <2>3. \A x \in Workers \ {w} : WillSupersede(x, u, v) => WillSupersede(x, u, v)'
    BY <1>1, <2>1, WillKept
  <2> HIDE DEF found
  <2> QED
    BY <2>1, <2>2, <2>3, OvertakenKept
<1>9. CASE SupersedeOlder(w)
  <2> SUFFICES ASSUME NEW u \in Versions, NEW v \in Versions PROVE Overtaken(u, v)'
    OBVIOUS
  <2>1. PICK y \in inv[w].old :
           /\ SupersedeOne(y)
           /\ IF inv[w].old = {y} THEN Return(w)
              ELSE Become(w, [inv[w] EXCEPT !.old = @ \ {y}])
    BY <1>9 DEF SupersedeOlder
  <2>2. y \in Versions /\ At(w, "supersede") /\ order' = order
    BY <1>1, <1>9 DEF Invocation, SupersedeOlder
  <2>3. /\ pkgs'[y].status # "ACTIVE"
        /\ \A z \in Versions : pkgs'[z].channel = pkgs[z].channel
                              /\ (pkgs'[z].status = "ACTIVE" => pkgs[z].status = "ACTIVE")
    BY <1>2, <2>1, <2>2 DEF SupersedeOne, SetStatus, Fails, Package
  <2>4. ASSUME WillSupersede(w, u, v), pkgs'[v].status = "ACTIVE"
        PROVE  WillSupersede(w, u, v)'
    <3>1. /\ u = inv[w].ver /\ inv[w].channel = pkgs[u].channel
          /\ v \in inv[w].old \ {y}
      BY <2>2, <2>3, <2>4 DEF WillSupersede, At
    <3>2. Become(w, [inv[w] EXCEPT !.old = @ \ {y}])
      BY <2>1, <3>1
    <3>3. inv'[w].pc = "supersede" /\ inv'[w].old = inv[w].old \ {y}
          /\ inv'[w].ver = inv[w].ver /\ inv'[w].channel = inv[w].channel
      BY <1>1, <2>2, <3>2 DEF Become, Typed, TypeOK, Invocation, At
    <3> QED
      BY <2>3, <3>1, <3>3 DEF WillSupersede, At
  <2>5. \A x \in Workers \ {w} : WillSupersede(x, u, v) => WillSupersede(x, u, v)'
    BY <1>1, <2>3, WillKept
  <2> QED
    BY <2>2, <2>3, <2>4, <2>5, OvertakenKept
<1>10. QED
  <2>1. CASE At(w, "promote") /\ ~(pkgs' = pkgs /\ order' = order)
    <3>1. MakeActive(w) /\ pkgs' # pkgs
      <4>1. MakeActive(w)
        BY <1>2, <2>1 DEF At, Processes, Decides, DeleteOrphan, CheckToken, ReadArtifact,
           DeletePlain, QueryOlder, SupersedeOlder, QuarantineDelete, QuarantineMark,
           RecallSet, PromoteSet, ToggleSet, RestoreQuery, RestoreSupersede, RestoreSet,
           DeleteObject, DeleteRow
      <4>2. pkgs' # pkgs
        <5> SUFFICES ASSUME pkgs' = pkgs PROVE FALSE
          OBVIOUS
        <5>1. /\ pkgs[a].status # "NONE"
              /\ pkgs' = [pkgs EXCEPT ![a] = [pkgs[a] EXCEPT !.status = "ACTIVE",
                            !.enc = inv[w].data, !.token = 0, !.sum = NoData]]
          BY <1>0, <2>1, <4>1 DEF MakeActive
        <5>2. pkgs'[a].status = "ACTIVE"
          BY <1>2, <5>1 DEF Package
        <5>3. Handles(w, a)
          BY <1>0, <2>1 DEF Handles, Handling, At
        <5> QED
          BY <5>2, <5>3 DEF InHand, Waiting, UnderWay
      <4> QED
        BY <4>1, <4>2
    <3> QED
      BY <1>3, <3>1
  <2>2. CASE At(w, "promote") /\ pkgs' = pkgs /\ order' = order
    BY <1>6, <2>2 DEF At
  <2>3. CASE At(w, "promoteSet") \/ At(w, "restoreSet") \/ At(w, "query") \/ At(w, "supersede")
    <3>1. PromoteSet(w) \/ RestoreSet(w) \/ QueryOlder(w) \/ SupersedeOlder(w)
      BY <1>2, <2>3 DEF At, Processes, Decides, DeleteOrphan, CheckToken, ReadArtifact,
           DeletePlain, MakeActive, QuarantineDelete, QuarantineMark,
           RecallSet, ToggleSet, RestoreQuery, RestoreSupersede, DeleteObject, DeleteRow
    <3> QED
      BY <1>4, <1>5, <1>8, <1>9, <3>1
  <2> QED
    BY <1>7, <2>1, <2>2, <2>3 DEF At

LEMMA ClearedCalls ==
    ASSUME Typed, NEW w \in Workers, Processes(w) \/ Decides(w), ~failed',
           NEW v \in Versions, Cleared(v), raw[v].data = NoData => raw[v] = NoObject,
           raw'[v] \in {raw[v], NoObject}
    PROVE  Cleared(v)'
<1>1. /\ ~At(w, "idle") /\ Route(w) /\ UNCHANGED events
      /\ \A x \in Workers \ {w} : inv'[x] = inv[x]
  <2>1. ~At(w, "idle") /\ Route(w) /\ UNCHANGED events
    BY ProcessLeads, DecisionLeads
  <2> QED
    BY <2>1 DEF Route, Leads, After
<1> SUFFICES ASSUME raw[v] # NoObject, raw'[v] = raw[v], inv[w].ver = v, inv[w].pc \in Deletes
             PROVE  inv'[w].ver = v /\ inv'[w].pc \in Deletes
  BY <1>1 DEF Cleared
<1>2. ~Die(w) /\ raw \in [Versions -> Object]
  BY DEF Die, Typed, TypeOK
<1>3. DeleteRaw(v) => raw'[v] = NoObject
  BY <1>2 DEF DeleteRaw, Fails
<1>4. DeleteOrphan(w) \/ CheckToken(w) \/ ReadArtifact(w) \/ DeletePlain(w) \/ QuarantineDelete(w)
  BY <1>2 DEF Deletes, At, Processes, Decides, MakeActive, QueryOlder, SupersedeOlder,
     QuarantineMark, RecallSet, PromoteSet, ToggleSet, RestoreQuery, RestoreSupersede,
     RestoreSet, DeleteObject, DeleteRow
<1>5. CheckToken(w) \/ ReadArtifact(w)
  BY <1>3, <1>4 DEF DeleteOrphan, DeletePlain, QuarantineDelete
<1>6. CASE CheckToken(w)
  <2>1. Goto(w, "get") \/ Goto(w, "quarDelete")
    BY <1>6 DEF CheckToken
  <2>2. ~At(w, "promoteSet")
    BY <1>6 DEF CheckToken, At
  <2>3. After(w, "get") \/ After(w, "quarDelete")
    BY <1>1, <2>1, <2>2, AfterBecome
  <2> QED
    BY <2>3 DEF After, Deletes
<1>7. CASE ReadArtifact(w)
  <2>0. raw[v].data # NoData
    OBVIOUS
  <2>1. Goto(w, "quarDelete") \/ \E d : Become(w, [inv[w] EXCEPT !.pc = "delRaw", !.data = d])
    BY <1>7, <2>0 DEF ReadArtifact
  <2>2. ~At(w, "promoteSet")
    BY <1>7 DEF ReadArtifact, At
  <2>3. After(w, "delRaw") \/ After(w, "quarDelete")
    BY <1>1, <2>1, <2>2, AfterBecome
  <2> QED
    BY <2>3 DEF After, Deletes
<1> QED
  BY <1>5, <1>6, <1>7
----------------------------------------------------------------------------
(* The invariant of every step                                             *)

LEMMA SettledCalls ==
    ASSUME Typed, Typed', CatalogInv, SettledInv, NEW w \in Workers, Processes(w) \/ Decides(w)
    PROVE  SettledInv'
<1>1. \A v \in Versions : InHand(v)
  BY DEF SettledInv, InHand
<1>2. \A v \in Versions : InHand(v)'
  BY <1>1, HandledCalls DEF SettledInv
<1>3. \A v \in Versions :
        /\ pkgs'[v].status = "PENDING" => pkgs'[v].channel # NoChannel
        /\ raw'[v] \in {raw[v], NoObject}
        /\ raw'[v].data = NoData => raw'[v] = NoObject
        /\ <<v, v>> \notin order'
  BY PlainCalls DEF SettledInv
<1>4. \A x \in Workers : SameChannel(inv[x])'
  BY <1>1, ChannelCalls DEF SettledInv
<1>5. ASSUME ~failed'
      PROVE  /\ \A x \in Workers : Restoring(inv[x])'
             /\ \A u, v \in Versions : Overtaken(u, v)'
             /\ \A v \in Versions : Cleared(v)'
  <2>1. ~failed
    BY <1>5, ProcessLeads, DecisionLeads
  <2>2. \A x \in Workers : Restoring(inv[x])'
    BY <1>5, <2>1, RestoringCalls DEF SettledInv
  <2>3. \A u, v \in Versions : Overtaken(u, v)'
    BY <1>1, <1>5, <2>1, OvertakenCalls DEF SettledInv
  <2>4. \A v \in Versions : Cleared(v)'
    BY <1>3, <1>5, <2>1, ClearedCalls DEF SettledInv
  <2> QED
    BY <2>2, <2>3, <2>4
<1> QED
  BY <1>2, <1>3, <1>4, <1>5 DEF SettledInv, InHand

(* An invocation begins, or ends without having done anything.             *)
LEMMA SettledStart ==
    ASSUME Typed, Typed', SettledInv, NEW w \in Workers, NEW r, Become(w, r),
           UNCHANGED <<pkgs, raw, grants, events, order, failed>>,
           At(w, "idle") \/ At(w, "complete"),
           r.pc \notin Handling \cup {"query", "supersede", "restoreSupersede", "restoreSet"},
           r.pc \in Administers => pkgs[r.ver].status \in {"ACTIVE", "SUPERSEDED"},
           SameChannel(r)
    PROVE  SettledInv'
<1>1. inv'[w] = r /\ \A x \in Workers \ {w} : inv'[x] = inv[x]
  BY DEF Become, Typed, TypeOK
<1>2. ASSUME NEW v \in Versions PROVE InHand(v)'
  <2>0. events'[v] \in Nat
    BY CatalogAssumption DEF Typed, TypeOK
  <2>1. InHand(v) /\ (Open(v)' <=> Open(v)) /\ events'[v] = events[v] /\ events'[v] \in Nat
    BY <2>0 DEF SettledInv, InHand, Open
  <2>2. \A x \in Workers : Handles(x, v)' => Handles(x, v)
    BY <1>1 DEF Handles
  <2>3. CASE r.ver = v /\ r.pc \in Administers
    <3>1. ~UnderWay(v)
      BY <2>1, <2>3 DEF InHand, Waiting
    <3>2. ~UnderWay(v)'
      BY <2>1, <2>2, <3>1 DEF UnderWay
    <3> QED
      BY <2>1, <3>2, NothingComes
  <2>4. CASE ~(r.ver = v /\ r.pc \in Administers)
    <3>1. UnderWay(v) => pkgs'[v].status \in {"PENDING", "NONE"}
      BY <2>1 DEF InHand, Waiting
    <3>2. \A x \in Workers : inv'[x].ver = v /\ inv'[x].pc \in Administers =>
             inv[x].ver = v /\ inv[x].pc \in Administers
      BY <1>1, <2>4
    <3> QED
      BY <2>1, <2>2, <3>1, <3>2, NothingComes
  <2> QED
    BY <2>3, <2>4
<1>3. \A x \in Workers : SameChannel(inv[x])'
  BY <1>1 DEF SettledInv, SameChannel
<1>4. ASSUME ~failed
      PROVE  /\ \A x \in Workers : Restoring(inv[x])'
             /\ \A u, v \in Versions : Overtaken(u, v)'
             /\ \A v \in Versions : Cleared(v)'
  <2>1. \A x \in Workers : Restoring(inv[x])'
    BY <1>1, <1>4 DEF SettledInv, Restoring, ActiveOthers
  <2>2. ASSUME NEW u \in Versions, NEW v \in Versions PROVE Overtaken(u, v)'
    <3>1. \A x \in Workers : WillSupersede(x, u, v) => WillSupersede(x, u, v)'
      BY <1>1 DEF WillSupersede, At
    <3> QED
      BY <1>4, <3>1, OvertakenKept DEF SettledInv
  <2>3. \A v \in Versions : Cleared(v)'
    <3>1. \A x \in Workers, v \in Versions :
             inv[x].ver = v /\ inv[x].pc \in Deletes => inv'[x].ver = v /\ inv'[x].pc \in Deletes
      BY <1>1 DEF Deletes, At
    <3> QED
      BY <1>4, <3>1 DEF SettledInv, Cleared
  <2> QED
    BY <2>1, <2>2, <2>3
<1> QED
  BY <1>2, <1>3, <1>4 DEF SettledInv, InHand

LEMMA SettledAsked ==
    ASSUME Typed, Typed', SettledInv, NEW w \in Workers, Administrator(w)
    PROVE  SettledInv'
<1> PICK v \in Versions :
         \/ \E c \in Channels, sum \in Data, multi \in BOOLEAN : UploadStart(w, v, c, sum, multi)
         \/ CompleteStart(w, v)
         \/ RecallStart(w, v) \/ PromoteStart(w, v) \/ RestoreStart(w, v)
         \/ ToggleStart(w, v) \/ DeleteStart(w, v)
  BY DEF Administrator
<1>1. ASSUME NEW c \in Channels, NEW sum \in Data, NEW multi \in BOOLEAN,
             UploadStart(w, v, c, sum, multi)
      PROVE  SettledInv'
  <2> DEFINE r == [Idle EXCEPT !.pc = "putRow", !.ver = v, !.channel = c,
                     !.op = IF multi THEN "multipart" ELSE "upload",
                     !.sum = sum, !.multi = multi, !.token = issued + 1]
  <2>1. r.pc = "putRow" /\ r.channel # NoChannel
    BY CatalogAssumption DEF Idle
  <2>2. Become(w, r) /\ At(w, "idle") /\ UNCHANGED <<pkgs, raw, grants, events, order, failed>>
    BY <1>1 DEF UploadStart, Request, Start
  <2> HIDE DEF r
  <2>3. SameChannel(r)
    BY <2>1 DEF SameChannel, Handling
  <2> QED
    BY <2>1, <2>2, <2>3, SettledStart DEF Handling, Administers
<1>2. CASE CompleteStart(w, v)
  <2> DEFINE r == [Idle EXCEPT !.pc = "complete", !.op = "multipart", !.ver = v,
                               !.token = pkgs[v].token]
  <2>1. r.pc = "complete"
    BY DEF Idle
  <2>2. Become(w, r) /\ At(w, "idle") /\ UNCHANGED <<pkgs, raw, grants, events, order, failed>>
    BY <1>2 DEF CompleteStart, Request, Start, catalog
  <2> HIDE DEF r
  <2>3. SameChannel(r)
    BY <2>1 DEF SameChannel, Handling
  <2> QED
    BY <2>1, <2>2, <2>3, SettledStart DEF Handling, Administers
<1>3. ASSUME NEW op, NEW pc \in {"recallSet", "promoteSet", "restoreQuery", "toggleSet", "deleteRaw"},
             Begin(w, op, v, pc),
             pc # "deleteRaw" => pkgs[v].status \in {"ACTIVE", "SUPERSEDED"}
      PROVE  SettledInv'
  <2> DEFINE r == [Idle EXCEPT !.pc = pc, !.op = op, !.ver = v,
                              !.channel = pkgs[v].channel,
                              !.soft = pkgs[v].status = "RECALLED"]
  <2>1. /\ r.pc = pc /\ r.ver = v /\ r.channel = pkgs[v].channel
        /\ r.soft = (pkgs[v].status = "RECALLED")
    BY DEF Idle
  <2>2. Become(w, r) /\ At(w, "idle") /\ UNCHANGED <<pkgs, raw, grants, events, order, failed>>
    BY <1>3 DEF Begin, Request, Start, catalog
  <2> HIDE DEF r
  <2>3. SameChannel(r)
    BY <2>1 DEF SameChannel, Handling
  <2> QED
    BY <1>3, <2>1, <2>2, <2>3, SettledStart DEF Handling, Administers
<1> QED
  BY <1>1, <1>2, <1>3 DEF RecallStart, PromoteStart, RestoreStart, ToggleStart, DeleteStart

(* S3 delivers the event of an object.                                     *)
LEMMA SettledEvent ==
    ASSUME Typed, Typed', SettledInv, NEW w \in Workers, NEW v \in Versions, ProcessStart(w, v)
    PROVE  SettledInv'
<1> DEFINE row == pkgs[v]
           i(pc) == [Idle EXCEPT !.pc = pc, !.ver = v, !.token = row.token,
                                 !.sum = row.sum, !.channel = row.channel]
<1>1. /\ At(w, "idle") /\ events[v] > 0 /\ events' = [events EXCEPT ![v] = @ - 1]
      /\ UNCHANGED <<pkgs, raw, grants, issued, order, failed>>
  BY DEF ProcessStart, Start
<1>2. /\ events[v] = 1 /\ events'[v] = 0 /\ \A u \in Versions \ {v} : events'[u] = events[u]
      /\ \A u \in Versions : events'[u] \in Nat
  <2>1. events \in [Versions -> 0 .. MaxEvents] /\ events' \in [Versions -> 0 .. MaxEvents]
    BY DEF Typed, TypeOK
  <2>2. events[v] \in Nat /\ events[v] <= 1
    <3>1. events[v] <= 1
      BY DEF SettledInv, OneHandler
    <3> QED
      BY <2>1, <3>1, CatalogAssumption
  <2> QED
    BY <1>1, <2>1, <2>2, CatalogAssumption
<1>3. /\ row.status \in {"PENDING", "NONE"} /\ ~Open(v)
      /\ \A x \in Workers : ~Handles(x, v)
      /\ \A x \in Workers : inv[x].ver = v => inv[x].pc \notin Administers
  <2>0. UnderWay(v)
    BY <1>2 DEF UnderWay
  <2>1. OneHandler(v) /\ Waiting(v) /\ UnderWay(v)
    BY <2>0 DEF SettledInv
  <2>2. ~Open(v) /\ \A x \in Workers : ~Handles(x, v)
    BY <1>2, <2>1 DEF OneHandler
  <2> QED
    BY <2>1, <2>2 DEF Waiting
<1>4. PICK pc \in {"orphan", "get", "head"} : Become(w, i(pc))
  BY <1>3 DEF ProcessStart
<1>5. /\ i(pc).pc = pc /\ i(pc).ver = v /\ i(pc).channel = row.channel
  BY DEF Idle
<1>6. PICK r : Become(w, r) /\ r.pc = pc /\ r.ver = v /\ r.channel = row.channel
  BY <1>4, <1>5
<1> HIDE DEF i
<1>7. inv'[w] = r /\ \A x \in Workers \ {w} : inv'[x] = inv[x]
  BY <1>6 DEF Become, Typed, TypeOK
<1>8. ASSUME NEW u \in Versions \ {v} PROVE InHand(u)'
  <2>1. InHand(u) /\ (Open(u)' <=> Open(u)) /\ events'[u] = events[u] /\ events'[u] \in Nat
    BY <1>1, <1>2 DEF SettledInv, InHand, Open
  <2>2. \A x \in Workers : Handles(x, u)' => Handles(x, u)
    BY <1>6, <1>7 DEF Handles
  <2>3. UnderWay(u) => pkgs'[u].status \in {"PENDING", "NONE"}
    BY <1>1, <2>1 DEF InHand, Waiting
  <2>4. \A x \in Workers : inv'[x].ver = u /\ inv'[x].pc \in Administers =>
           inv[x].ver = u /\ inv[x].pc \in Administers
    BY <1>6, <1>7 DEF Administers
  <2> QED
    BY <2>1, <2>2, <2>3, <2>4, NothingComes
<1>9. InHand(v)'
  <2>1. ~Open(v)'
    BY <1>1, <1>3 DEF Open
  <2>2. \A x \in Workers : Handles(x, v)' => x = w
    BY <1>3, <1>7 DEF Handles
  <2>3. OneHandler(v)'
    BY <1>2, <2>1, <2>2 DEF OneHandler
  <2>4. Waiting(v)'
    BY <1>1, <1>3, <1>6, <1>7 DEF Waiting, Administers
  <2> QED
    BY <2>3, <2>4 DEF InHand
<1>10. \A x \in Workers : SameChannel(inv[x])'
  <2>1. \A x \in Workers \ {w} : SameChannel(inv[x])'
    BY <1>1, <1>7 DEF SettledInv, SameChannel
  <2>2. SameChannel(inv[w])'
    BY <1>1, <1>6, <1>7 DEF SameChannel, Handling
  <2> QED
    BY <2>1, <2>2
<1>11. ASSUME ~failed
       PROVE  /\ \A x \in Workers : Restoring(inv[x])'
              /\ \A a, b \in Versions : Overtaken(a, b)'
              /\ \A u \in Versions : Cleared(u)'
  <2>1. \A x \in Workers : Restoring(inv[x])'
    BY <1>1, <1>6, <1>7, <1>11 DEF SettledInv, Restoring, ActiveOthers
  <2>2. ASSUME NEW a \in Versions, NEW b \in Versions PROVE Overtaken(a, b)'
    <3>1. \A x \in Workers : WillSupersede(x, a, b) => WillSupersede(x, a, b)'
      BY <1>1, <1>7 DEF WillSupersede, At
    <3> QED
      BY <1>1, <1>11, <3>1, OvertakenKept DEF SettledInv
  <2>3. ASSUME NEW u \in Versions PROVE Cleared(u)'
    <3>1. \A x \in Workers :
             inv[x].ver = u /\ inv[x].pc \in Deletes => inv'[x].ver = u /\ inv'[x].pc \in Deletes
      BY <1>1, <1>7 DEF Deletes, At
    <3>2. inv'[w].ver = v /\ inv'[w].pc \in Deletes
      BY <1>6, <1>7 DEF Deletes
    <3> QED
      BY <1>1, <1>2, <1>11, <3>1, <3>2 DEF SettledInv, Cleared
  <2> QED
    BY <2>1, <2>2, <2>3
<1> QED
  BY <1>1, <1>8, <1>9, <1>10, <1>11 DEF SettledInv, InHand

(* A version is requested: its row is replaced, and the upload is open.    *)
LEMMA SettledPut ==
    ASSUME Typed, Typed', CatalogInv, SettledInv, NEW w \in Workers, UploadPut(w)
    PROVE  SettledInv'
<1>0. PICK v \in Versions : v = inv[w].ver
  BY Running DEF UploadPut, At
<1> DEFINE i == inv[w]
<1>1. /\ At(w, "putRow") /\ i \in Invocation /\ i.token \in Tokens /\ i.channel # NoChannel
  BY Running DEF UploadPut, At, Typed, Handlers, NamedWorker, SettledInv, SameChannel, Invocation
<1>2. /\ pkgs'[v].status = "PENDING" /\ pkgs'[v].channel = i.channel
      /\ \A u \in Versions \ {v} : pkgs'[u] = pkgs[u]
      /\ \A t \in Tokens \ {i.token} : grants'[t] = grants[t]
      /\ grants'[i.token].ver = v
      /\ UNCHANGED <<raw, issued, events, order, failed>>
  BY <1>0, <1>1 DEF UploadPut, Typed, TypeOK, NoRow
<1>3. inv'[w] = Idle /\ \A x \in Workers \ {w} : inv'[x] = inv[x]
  BY DEF UploadPut, Return, Become, Typed, TypeOK
<1>4. /\ events[v] = 0 /\ pkgs[v].status # "ACTIVE"
      /\ \A x \in Workers \ {w} : inv[x].ver = v => inv[x].pc \in {"idle", "complete"}
  BY <1>0, <1>1 DEF CatalogInv, Uploads
<1>5. \A x \in Workers : ~Handles(x, v)'
  BY <1>3, <1>4, IdleTyped DEF Handles, Handling
<1>6. ASSUME NEW u \in Versions \ {v} PROVE InHand(u)'
  <2>1. InHand(u) /\ events'[u] = events[u]
    BY <1>2 DEF SettledInv, InHand
  <2>2. Open(u)' => Open(u)
    BY <1>1, <1>2, <1>6 DEF Open
  <2>3. \A x \in Workers : Handles(x, u)' => Handles(x, u)
    BY <1>3, IdleTyped DEF Handles, Handling
  <2>4. UnderWay(u) => pkgs'[u].status \in {"PENDING", "NONE"}
    BY <1>2, <2>1 DEF InHand, Waiting
  <2>5. \A x \in Workers : inv'[x].ver = u /\ inv'[x].pc \in Administers =>
           inv[x].ver = u /\ inv[x].pc \in Administers
    BY <1>3, IdleTyped DEF Administers
  <2>6. events'[u] \in Nat
    BY CatalogAssumption DEF Typed, TypeOK
  <2> QED
    BY <2>1, <2>2, <2>3, <2>4, <2>5, <2>6, NothingComes
<1>7. InHand(v)'
  <2>1. OneHandler(v)'
    BY <1>2, <1>4, <1>5 DEF OneHandler
  <2>2. Waiting(v)'
    BY <1>2, <1>3, <1>4, IdleTyped DEF Waiting, Administers
  <2> QED
    BY <2>1, <2>2 DEF InHand
<1>8. \A x \in Workers : SameChannel(inv[x])'
  <2>1. SameChannel(inv[w])'
    BY <1>3, IdleTyped DEF SameChannel, Handling
  <2>2. ASSUME NEW x \in Workers \ {w} PROVE SameChannel(inv[x])'
    <3>1. inv[x].pc \notin {"restoreQuery", "restoreSupersede", "restoreSet", "deleteRaw", "deleteRow"}
      BY <1>1 DEF CatalogInv, Alone, Current, At
    <3>2. inv[x].pc \in Handling => inv[x].ver \in Versions \ {v}
      BY <1>4, Running DEF Handling, At
    <3> QED
      BY <1>2, <1>3, <3>1, <3>2 DEF SettledInv, SameChannel
  <2> QED
    BY <2>1, <2>2
<1>9. ASSUME ~failed
      PROVE  /\ \A x \in Workers : Restoring(inv[x])'
             /\ \A a, b \in Versions : Overtaken(a, b)'
             /\ \A u \in Versions : Cleared(u)'
  <2>1. ASSUME NEW x \in Workers PROVE Restoring(inv[x])'
    <3>1. inv'[x].pc \notin {"restoreSupersede", "restoreSet"}
      BY <1>1, <1>3, IdleTyped DEF CatalogInv, Alone, Current, At
    <3> QED
      BY <3>1 DEF Restoring
  <2>2. ASSUME NEW a \in Versions, NEW b \in Versions PROVE Overtaken(a, b)'
    <3>1. \A x \in Workers : WillSupersede(x, a, b) /\ a # v => WillSupersede(x, a, b)'
      BY <1>1, <1>2, <1>3 DEF WillSupersede, At
    <3>2. \A y \in {a, b} : pkgs'[y].status = "ACTIVE" => y # v /\ pkgs'[y] = pkgs[y]
      BY <1>2
    <3> QED
      BY <1>2, <1>9, <3>1, <3>2, OvertakenKept DEF SettledInv
  <2>3. ASSUME NEW u \in Versions PROVE Cleared(u)'
    <3>1. \A x \in Workers :
             inv[x].ver = u /\ inv[x].pc \in Deletes => inv'[x].ver = u /\ inv'[x].pc \in Deletes
      BY <1>1, <1>3 DEF Deletes, At
    <3> QED
      BY <1>2, <1>9, <3>1 DEF SettledInv, Cleared
  <2> QED
    BY <2>1, <2>2, <2>3
<1> QED
  BY <1>0, <1>1, <1>2, <1>6, <1>7, <1>8, <1>9 DEF SettledInv, InHand

(* The client uploads with an open grant: an object, and its event.        *)
LEMMA SettledObject ==
    ASSUME Typed, Typed', CatalogInv, SettledInv,
           NEW t \in Tokens, NEW d \in Data, grants[t].state = "open", Created(t, d),
           UNCHANGED <<pkgs, order, failed>>,
           \A x \in Workers : inv'[x] = inv[x] \/ (inv[x].pc = "complete" /\ inv'[x] = Idle)
    PROVE  SettledInv'
<1>0. PICK v \in Versions : v = grants[t].ver
  BY DEF Typed
<1>1. /\ raw'[v] = [token |-> t, data |-> d] /\ events'[v] = events[v] + 1
      /\ \A u \in Versions \ {v} : raw'[u] = raw[u] /\ events'[u] = events[u]
      /\ \E st \in {"put", "used"} : grants' = [grants EXCEPT ![t].state = st]
  BY <1>0 DEF Created, Typed, TypeOK
<1>2. grants \in [Tokens -> Grant] /\ \A u \in Versions : events'[u] \in Nat
  BY CatalogAssumption DEF Typed, TypeOK
<1>3. \A s \in Tokens : /\ grants'[s].ver = grants[s].ver
                        /\ grants'[s].state = "open" => s # t /\ grants[s].state = "open"
  BY <1>1, <1>2 DEF Grant
<1>4. Open(v) /\ UnderWay(v) /\ InHand(v)
  BY <1>0 DEF Open, UnderWay, SettledInv, InHand
<1>5. \A x \in Workers : /\ inv'[x].pc \in Handling \cup Administers \cup Deletes
                              \cup {"restoreSupersede", "restoreSet", "putRow", "deleteRaw", "deleteRow"}
                            => inv'[x] = inv[x]
                         /\ inv[x].pc # "complete" => inv'[x] = inv[x]
  BY IdleTyped DEF Handling, Administers, Deletes
<1>6. ASSUME NEW u \in Versions \ {v} PROVE InHand(u)'
  <2>1. InHand(u) /\ events'[u] = events[u] /\ events'[u] \in Nat
    BY <1>1, <1>2 DEF SettledInv, InHand
  <2>2. Open(u)' => Open(u)
    BY <1>3 DEF Open
  <2>3. \A x \in Workers : Handles(x, u)' => Handles(x, u)
    BY <1>5 DEF Handles
  <2>4. UnderWay(u) => pkgs'[u].status \in {"PENDING", "NONE"}
    BY <2>1 DEF InHand, Waiting
  <2>5. \A x \in Workers : inv'[x].ver = u /\ inv'[x].pc \in Administers =>
           inv[x].ver = u /\ inv[x].pc \in Administers
    BY <1>5
  <2> QED
    BY <2>1, <2>2, <2>3, <2>4, <2>5, NothingComes
<1>7. InHand(v)'
  <2>1. events[v] = 0 /\ \A x \in Workers : ~Handles(x, v)
    BY <1>4 DEF InHand, OneHandler
  <2>2. events'[v] = 1
    BY <1>1, <2>1
  <2>3. \A x \in Workers : ~Handles(x, v)'
    BY <1>5, <2>1 DEF Handles
  <2>5. ~Open(v)'
    <3>1. \A s \in Tokens : grants[s].state = "open" /\ grants[s].ver = v => LastGrant(v, s)
      BY DEF CatalogInv, GrantsInOrder
    <3>2. \A s \in Tokens : grants[s].state = "open" /\ grants[s].ver = v => s = t
      BY <1>0, <3>1, LastUnique
    <3> QED
      BY <1>3, <3>2 DEF Open
  <2>6. OneHandler(v)'
    BY <2>2, <2>3, <2>5 DEF OneHandler
  <2>7. Waiting(v)'
    BY <1>4, <1>5 DEF InHand, Waiting
  <2> QED
    BY <2>6, <2>7 DEF InHand
<1>8. ASSUME NEW x \in Workers PROVE SameChannel(inv[x])'
  <2>1. CASE inv'[x] = inv[x]
    BY <2>1 DEF SettledInv, SameChannel
  <2>2. CASE inv'[x] = Idle
    BY <2>2, IdleTyped DEF SameChannel, Handling
  <2> QED
    BY <2>1, <2>2
<1>9. ASSUME ~failed
      PROVE  /\ \A x \in Workers : Restoring(inv[x])'
             /\ \A a, b \in Versions : Overtaken(a, b)'
             /\ \A u \in Versions : Cleared(u)'
  <2>1. \A x \in Workers : Restoring(inv[x])'
    BY <1>5, <1>9 DEF SettledInv, Restoring, ActiveOthers
  <2>2. ASSUME NEW a \in Versions, NEW b \in Versions PROVE Overtaken(a, b)'
    <3>1. \A x \in Workers : WillSupersede(x, a, b) => WillSupersede(x, a, b)'
      BY <1>5 DEF WillSupersede, At
    <3> QED
      BY <1>9, <3>1, OvertakenKept DEF SettledInv
  <2>3. ASSUME NEW u \in Versions PROVE Cleared(u)'
    <3>1. \A x \in Workers :
             inv[x].ver = u /\ inv[x].pc \in Deletes => inv'[x].ver = u /\ inv'[x].pc \in Deletes
      BY <1>5 DEF Deletes
    <3>2. events'[v] > 0
      BY <1>1, <1>2, CatalogAssumption DEF Typed, TypeOK
    <3> QED
      BY <1>1, <1>9, <3>1, <3>2 DEF SettledInv, Cleared
  <2> QED
    BY <2>1, <2>2, <2>3
<1>10. raw'[v].data # NoData
  BY <1>1, CatalogAssumption
<1> QED
  BY <1>1, <1>6, <1>7, <1>8, <1>9, <1>10 DEF SettledInv, InHand

LEMMA SettledExpire ==
    ASSUME Typed, Typed', SettledInv, NEW t \in Tokens, Expire(t)
    PROVE  SettledInv'
<1>1. UNCHANGED <<pkgs, raw, issued, events, inv, order, failed>>
  BY DEF Expire
<1>2. \A s \in Tokens : /\ grants'[s].ver = grants[s].ver
                        /\ grants'[s].state = "open" => grants[s].state = "open"
  BY DEF Expire, Typed, TypeOK, Grant
<1>3. ASSUME NEW u \in Versions PROVE InHand(u)'
  <2>0. events'[u] \in Nat
    BY CatalogAssumption DEF Typed, TypeOK
  <2>1. InHand(u) /\ (Open(u)' => Open(u))
    BY <1>2 DEF SettledInv, InHand, Open
  <2>2. \A x \in Workers : Handles(x, u)' => Handles(x, u)
    BY <1>1 DEF Handles
  <2>3. UnderWay(u) => pkgs'[u].status \in {"PENDING", "NONE"}
    BY <1>1, <2>1 DEF InHand, Waiting
  <2> QED
    BY <1>1, <2>0, <2>1, <2>2, <2>3, NothingComes
<1>4. \A x \in Workers : SameChannel(inv[x])' /\ (Restoring(inv[x]) => Restoring(inv[x])')
  BY <1>1 DEF SettledInv, SameChannel, Restoring, ActiveOthers
<1>5. \A u, v \in Versions : Overtaken(u, v) => Overtaken(u, v)'
  BY <1>1 DEF Overtaken, WillSupersede, At
<1>6. \A v \in Versions : Cleared(v) => Cleared(v)'
  BY <1>1 DEF Cleared
<1> QED
  BY <1>1, <1>3, <1>4, <1>5, <1>6 DEF SettledInv, InHand

LEMMA InitSettled == ASSUME Init PROVE SettledInv
<1>1. /\ \A w \in Workers : inv[w] = Idle
      /\ \A t \in Tokens : grants[t].state = "none"
      /\ \A v \in Versions : /\ pkgs[v] = NoRow /\ raw[v] = NoObject /\ events[v] = 0
                             /\ <<v, v>> \notin order
  BY DEF Init, NoGrant
<1>2. \A w \in Workers : inv[w].pc = "idle"
  BY <1>1, IdleTyped
<1>3. ASSUME NEW v \in Versions PROVE OneHandler(v) /\ Waiting(v)
  <2>1. ~Open(v) /\ events[v] = 0 /\ \A w \in Workers : ~Handles(w, v)
    BY <1>1, <1>2 DEF Open, Handles, Handling
  <2> QED
    BY <2>1 DEF OneHandler, Waiting, UnderWay
<1>4. \A w \in Workers : SameChannel(inv[w]) /\ Restoring(inv[w])
  BY <1>2 DEF SameChannel, Restoring, Handling
<1>5. \A u, v \in Versions : Overtaken(u, v)
  BY <1>1, EmptyTyped DEF Overtaken
<1>6. \A v \in Versions : Cleared(v)
  BY <1>1 DEF Cleared
<1> QED
  BY <1>1, <1>3, <1>4, <1>5, <1>6, EmptyTyped DEF SettledInv

LEMMA NextSettled ==
    ASSUME Typed, CatalogInv, SettledInv, DeliveredOnce, [Next]_vars
    PROVE  SettledInv'
<1>1. Typed'
  BY NextTyped
<1>2. CASE UNCHANGED vars
  <2>1. UNCHANGED <<pkgs, raw, grants, issued, events, inv, order, failed>>
    BY <1>2 DEF vars
  <2>2. \A v \in Versions : OneHandler(v)' /\ Waiting(v)'
    BY <2>1 DEF SettledInv, OneHandler, Waiting, UnderWay, Open, Handles
  <2>3. \A w \in Workers : SameChannel(inv[w])' /\ (Restoring(inv[w]) => Restoring(inv[w])')
    BY <2>1 DEF SettledInv, SameChannel, Restoring, ActiveOthers
  <2>4. \A u, v \in Versions : Overtaken(u, v) => Overtaken(u, v)'
    BY <2>1 DEF Overtaken, WillSupersede, At
  <2>5. \A v \in Versions : Cleared(v) => Cleared(v)'
    BY <2>1 DEF Cleared
  <2> QED
    BY <2>1, <2>2, <2>3, <2>4, <2>5 DEF SettledInv
<1>3. ASSUME NEW w \in Workers, Administrator(w) \/ \E v \in Versions : ProcessStart(w, v)
      PROVE  SettledInv'
  BY <1>1, <1>3, SettledAsked, SettledEvent
<1>4. ASSUME NEW w \in Workers, NEW d \in Data, CompleteFinish(w, d) PROVE SettledInv'
  <2>1. /\ inv[w].token \in Tokens /\ At(w, "complete")
        /\ inv'[w] = Idle /\ \A x \in Workers \ {w} : inv'[x] = inv[x]
    BY <1>4 DEF CompleteFinish, At, Return, Become, Typed, TypeOK, Handlers, NamedWorker, Invocation
  <2>2. CASE grants[inv[w].token].state = "open"
    <3>1. PICK t \in Tokens : t = inv[w].token
      BY <2>1
    <3>2. grants[t].state = "open" /\ Created(t, d) /\ UNCHANGED <<pkgs, order, failed>>
      BY <1>4, <2>2, <3>1 DEF CompleteFinish
    <3>3. \A x \in Workers : inv'[x] = inv[x] \/ (inv[x].pc = "complete" /\ inv'[x] = Idle)
      BY <2>1 DEF At
    <3> QED
      BY <1>1, <3>2, <3>3, SettledObject
  <2>3. CASE grants[inv[w].token].state # "open"
    <3>1. /\ UNCHANGED <<pkgs, raw, grants, events, order, failed>> /\ Become(w, Idle)
      BY <1>4, <2>3 DEF CompleteFinish, Return
    <3>2. SameChannel(Idle)
      BY IdleTyped DEF SameChannel, Handling
    <3> QED
      BY <1>1, <2>1, <3>1, <3>2, IdleTyped, SettledStart DEF Handling, Administers
  <2> QED
    BY <2>2, <2>3
<1>5. ASSUME NEW t \in Tokens, NEW d \in Data, ClientPut(t, d) PROVE SettledInv'
  BY <1>1, <1>5, SettledObject DEF ClientPut, Valid, DeliveredOnce, UsedOnce
<1>6. ASSUME NEW w \in Workers, Continue(w) \/ Die(w) PROVE SettledInv'
  BY <1>1, <1>4, <1>6, SettledPut, SettledCalls DEF Continue, Processes, Decides
<1>7. CASE Client
  BY <1>1, <1>5, <1>7, SettledExpire DEF Client
<1>8. CASE \E v \in Versions : Duplicate(v)
  BY <1>8 DEF Duplicate, DeliveredOnce
<1> QED
  BY <1>2, <1>3, <1>6, <1>7, <1>8 DEF Next

LEMMA SettledAlways == DeliveredOnce => (Spec => [](Typed /\ CatalogInv /\ SettledInv))
<1> SUFFICES ASSUME DeliveredOnce PROVE Spec => [](Typed /\ CatalogInv /\ SettledInv)
  OBVIOUS
<1>1. Init => Typed /\ CatalogInv /\ SettledInv
  BY InitTyped, InitInOrder, InitSettled
<1>2. OrderlyUse
  BY DEF DeliveredOnce
<1>3. Typed /\ CatalogInv /\ SettledInv /\ [Next]_vars => (Typed /\ CatalogInv /\ SettledInv)'
  BY <1>2, NextTyped, NextInOrder, NextSettled
<1> QED
  BY <1>1, <1>3, PTL DEF Spec

----------------------------------------------------------------------------
(* The life of a version                                                   *)

(* What may become of a version whose status is s.                         *)
Life(s, t) ==
    \/ t = s \/ t = "RECALLED" \/ t = "PENDING"
    \/ s = "PENDING" /\ t \in {"ACTIVE", "CORRUPTED"}
    \/ s = "ACTIVE" /\ t = "SUPERSEDED"
    \/ s = "SUPERSEDED" /\ t = "ACTIVE"
    \/ s = "RECALLED" /\ t = "DELETED"
    \/ s # "RECALLED" /\ t = "NONE"

LEMMA LifeCalls ==
    ASSUME Typed, CatalogInv, SettledInv, NEW w \in Workers, Processes(w) \/ Decides(w)
    PROVE  \A v \in Versions : Life(pkgs[v].status, pkgs'[v].status)
<1>0. PICK a \in Versions : a = inv[w].ver
  BY ProcessLeads, DecisionLeads, Running
<1>1. /\ Writes(w) /\ inv[w] \in Invocation /\ Current(inv[w]) /\ SameChannel(inv[w])
      /\ pkgs \in [Versions -> Package]
  BY ProcessLeads, DecisionLeads, ProcessWrites, DecisionWrites, Running
  DEF CatalogInv, SettledInv, Typed, TypeOK
<1>2. ASSUME NEW v \in Versions \ {a} PROVE Life(pkgs[v].status, pkgs'[v].status)
  BY <1>0, <1>1 DEF Writes, Life
<1>3. CASE pkgs' = pkgs
  BY <1>3 DEF Life
<1>4. ASSUME NEW u \in inv[w].old, SupersedeOne(u)
      PROVE  Life(pkgs[a].status, pkgs'[a].status)
  <2>1. u \in Versions
    BY <1>1 DEF Invocation
  <2> QED
    BY <1>1, <1>4, <2>1 DEF SupersedeOne, SetStatus, Life, Package
<1>5. CASE MakeActive(w) \/ QuarantineMark(w)
  <2>1. Handles(w, a)
    BY <1>0, <1>5 DEF Handles, Handling, MakeActive, QuarantineMark, At
  <2>2. pkgs[a].status \in {"PENDING", "NONE"}
    BY <2>1 DEF SettledInv, Waiting, UnderWay
  <2>3. /\ pkgs' = pkgs \/ pkgs'[a].status \in {"ACTIVE", "CORRUPTED"}
        /\ pkgs[a].status = "NONE" => pkgs' = pkgs
    BY <1>0, <1>1, <1>5 DEF MakeActive, QuarantineMark, SetStatus, Package
  <2> QED
    BY <1>3, <2>2, <2>3, <1>2 DEF Life
<1>6. CASE SupersedeOlder(w) \/ RestoreSupersede(w)
  BY <1>2, <1>4, <1>6 DEF SupersedeOlder, RestoreSupersede
<1>7. CASE RecallSet(w)
  <2>1. pkgs'[a].status = "RECALLED"
    BY <1>0, <1>1, <1>7 DEF RecallSet, Write, Package
  <2> QED
    BY <1>2, <2>1 DEF Life
<1>8. CASE PromoteSet(w) \/ ToggleSet(w)
  <2>1. pkgs[a].status # "NONE"
    BY <1>0, <1>1, <1>8 DEF Current, PromoteSet, ToggleSet, At
  <2>2. pkgs'[a].status = pkgs[a].status
    BY <1>0, <1>1, <1>8, <2>1 DEF PromoteSet, ToggleSet, Write, Upserted, Package
  <2> QED
    BY <1>2, <2>2 DEF Life
<1>9. CASE RestoreSet(w)
  <2>1. pkgs[a].status = "SUPERSEDED"
    BY <1>0, <1>1, <1>9 DEF Current, RestoreSet, At
  <2>2. pkgs'[a].status = "ACTIVE"
    BY <1>0, <1>1, <1>9 DEF RestoreSet, Write, Package
  <2> QED
    BY <1>2, <2>1, <2>2 DEF Life
<1>10. CASE DeleteRow(w)
  <2>1. inv[w].soft = (pkgs[a].status = "RECALLED")
    BY <1>0, <1>1, <1>10 DEF SameChannel, DeleteRow, At
  <2>2. pkgs'[a].status = IF inv[w].soft THEN "DELETED" ELSE "NONE"
    BY <1>0, <1>1, <1>10, EmptyTyped DEF DeleteRow, Write, Package
  <2> QED
    BY <1>2, <2>1, <2>2 DEF Life
<1>11. CASE \/ DeleteOrphan(w) \/ CheckToken(w) \/ ReadArtifact(w) \/ DeletePlain(w) \/ QueryOlder(w)
            \/ QuarantineDelete(w) \/ Die(w) \/ RestoreQuery(w) \/ DeleteObject(w)
  BY <1>3, <1>11 DEF DeleteOrphan, CheckToken, ReadArtifact, DeletePlain, QueryOlder,
     QuarantineDelete, Die, RestoreQuery, DeleteObject, catalog
<1> QED
  BY <1>5, <1>6, <1>7, <1>8, <1>9, <1>10, <1>11 DEF Processes, Decides

LEMMA NextLife ==
    ASSUME Typed, CatalogInv, SettledInv, DeliveredOnce, [Next]_vars
    PROVE  \A v \in Versions : Life(pkgs[v].status, pkgs'[v].status)
<1>1. ASSUME pkgs' = pkgs PROVE \A v \in Versions : Life(pkgs[v].status, pkgs'[v].status)
  BY <1>1 DEF Life
<1>2. ASSUME NEW w \in Workers, UploadPut(w)
      PROVE  \A v \in Versions : Life(pkgs[v].status, pkgs'[v].status)
  BY <1>2 DEF UploadPut, Typed, TypeOK, NoRow, Life
<1>3. ASSUME NEW w \in Workers, Continue(w) \/ Die(w)
      PROVE  \A v \in Versions : Life(pkgs[v].status, pkgs'[v].status)
  <2>1. CASE Processes(w) \/ Decides(w)
    BY <2>1, LifeCalls
  <2>2. CASE UploadPut(w) \/ \E d \in Data : CompleteFinish(w, d)
    BY <1>1, <1>2, <2>2 DEF CompleteFinish
  <2> QED
    BY <1>3, <2>1, <2>2 DEF Continue, Processes, Decides
<1>4. ASSUME NEW w \in Workers, Administrator(w)
      PROVE  \A v \in Versions : Life(pkgs[v].status, pkgs'[v].status)
  BY <1>1, <1>4 DEF Administrator, UploadStart, CompleteStart, RecallStart, PromoteStart,
     RestoreStart, ToggleStart, DeleteStart, Begin, catalog
<1>5. ASSUME NEW w \in Workers, NEW u \in Versions, ProcessStart(w, u)
      PROVE  \A v \in Versions : Life(pkgs[v].status, pkgs'[v].status)
  BY <1>1, <1>5 DEF ProcessStart
<1>6. CASE Client
  BY <1>1, <1>6 DEF Client, ClientPut, Expire
<1>7. CASE \E v \in Versions : Duplicate(v)
  BY <1>1, <1>7 DEF Duplicate
<1>8. CASE UNCHANGED vars
  BY <1>1, <1>8 DEF vars
<1> QED
  BY <1>3, <1>4, <1>5, <1>6, <1>7, <1>8 DEF Next

----------------------------------------------------------------------------
(* The theorems.  They are about a catalogue that is used in order, a      *)
(* client that PUTs once to each URL it is given, and an S3 that delivers  *)
(* an event once: a second event of one upload, or a second object of one  *)
(* URL, handled beside the first, can quarantine what the first made       *)
(* ACTIVE (DuplicateEvent), and a second object of one URL stays in the    *)
(* bucket or revives a recalled version.                                   *)

(* Where no call failed and nothing runs, of two versions of one release   *)
(* type that are ACTIVE the one that came later is the older one: a version*)
(* that comes into service supersedes every older one, however many        *)
(* uploads, promotions and recalls overlap.                                *)
THEOREM OlderSuperseded == DeliveredOnce => (Spec => []NoOlderSurvives)
<1> SUFFICES ASSUME DeliveredOnce PROVE Spec => []NoOlderSurvives
  OBVIOUS
<1>1. SettledInv => NoOlderSurvives
  <2> SUFFICES ASSUME SettledInv, Settled, ~failed, NEW u \in Versions, NEW v \in Versions,
                      pkgs[u].status = "ACTIVE", pkgs[v].status = "ACTIVE",
                      pkgs[u].channel = pkgs[v].channel, <<u, v>> \in order
               PROVE  u < v
    BY DEF NoOlderSurvives
  <2>1. Overtaken(u, v)
    BY DEF SettledInv
  <2>2. \A w \in Workers : ~WillSupersede(w, u, v)
    BY DEF WillSupersede, Settled, At
  <2> QED
    BY <2>1, <2>2 DEF Overtaken
<1> QED
  BY <1>1, SettledAlways, PTL

(* Where no call failed and nothing runs, a plain object lies in the bucket*)
(* only as long as its event is still to come: whether the upload becomes  *)
(* ACTIVE, is quarantined, or belongs to no row, it is deleted.  Each URL  *)
(* is used once.                                                           *)
THEOREM PlainGone == DeliveredOnce => (Spec => []PlainDeleted)
<1> SUFFICES ASSUME DeliveredOnce PROVE Spec => []PlainDeleted
  OBVIOUS
<1>1. Typed /\ SettledInv => PlainDeleted
  <2> SUFFICES ASSUME Typed, SettledInv, Settled, ~failed, NEW v \in Versions, events[v] = 0
               PROVE  raw[v] = NoObject
    BY DEF PlainDeleted
  <2>1. Cleared(v)
    BY DEF SettledInv
  <2>2. \A w \in Workers : inv[w].pc \notin Deletes
    BY DEF Settled, At, Deletes
  <2> QED
    BY <2>1, <2>2 DEF Cleared
<1> QED
  BY <1>1, SettledAlways, PTL

(* A recalled version returns only through a new request to upload it:     *)
(* neither a restore nor the processing of an upload that was under way    *)
(* brings it back, where each URL is used once.                            *)
THEOREM RecallFinal == DeliveredOnce => (Spec => RecalledStays)
<1> SUFFICES ASSUME DeliveredOnce PROVE Spec => RecalledStays
  OBVIOUS
<1>1. Typed /\ CatalogInv /\ SettledInv /\ [Next]_vars =>
        [\A v \in Versions : pkgs[v].status = "RECALLED" =>
             pkgs'[v].status \in {"RECALLED", "DELETED", "PENDING"}]_vars
  BY NextLife DEF Life
<1> QED
  BY <1>1, SettledAlways, PTL DEF Spec, RecalledStays

(* Processing an upload marks as CORRUPTED only the row that waits for it, *)
(* never one that is serving, where each URL is used and each event        *)
(* delivered once.                                                         *)
THEOREM ServingKept == DeliveredOnce => (Spec => ActiveNotQuarantined)
<1> SUFFICES ASSUME DeliveredOnce PROVE Spec => ActiveNotQuarantined
  OBVIOUS
<1>1. Typed /\ CatalogInv /\ SettledInv /\ [Next]_vars =>
        [\A v \in Versions : pkgs[v].status = "ACTIVE" => pkgs'[v].status # "CORRUPTED"]_vars
  BY NextLife DEF Life
<1> QED
  BY <1>1, SettledAlways, PTL DEF Spec, ActiveNotQuarantined

(* When a restore brings its version back, no other version of the release *)
(* type is ACTIVE, unless a call failed.                                   *)
THEOREM RestoreAlone == DeliveredOnce => (Spec => RestoredAlone)
<1> SUFFICES ASSUME DeliveredOnce PROVE Spec => RestoredAlone
  OBVIOUS
<1>1. SettledInv =>
        \A w \in Workers : At(w, "restoreSet") =>
            failed \/ ActiveOthers(inv[w].ver, pkgs[inv[w].ver].channel) = {}
  BY DEF SettledInv, Restoring, SameChannel, At
<1>2. SettledInv /\ [Next]_vars =>
        [\A w \in Workers :
            At(w, "restoreSet") /\ order' # order =>
                failed \/ ActiveOthers(inv[w].ver, pkgs[inv[w].ver].channel) = {}]_vars
  BY <1>1
<1> QED
  BY <1>2, SettledAlways, PTL DEF Spec, RestoredAlone
=============================================================================
