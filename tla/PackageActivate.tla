-------------------------- MODULE PackageActivate --------------------------
(***************************************************************************)
(* digilux_ota_package_activate: what administrators do to a version after *)
(* it was uploaded.  Each reads the row, checks it, and then writes it     *)
(* without a condition.  PackageRecall has the jobs that a recall cancels. *)
(***************************************************************************)
EXTENDS ArtifactProcessor

(* The row is read and found in order.                                     *)
Begin(w, op, v, pc) ==
    /\ Request(w, op)
    /\ Become(w, [Idle EXCEPT !.pc = pc, !.op = op, !.ver = v,
                              !.channel = pkgs[v].channel,
                              !.soft = pkgs[v].status = "RECALLED"])
    /\ UNCHANGED catalog

RecallStart(w, v) == pkgs[v].status = "ACTIVE" /\ Begin(w, "recall", v, "recallSet")

PromoteStart(w, v) ==
    /\ pkgs[v].channel = "BETA" /\ pkgs[v].status = "ACTIVE"
    /\ Begin(w, "promote", v, "promoteSet")

(* Mutant: a recalled version can be restored.                             *)
RestoreStartAny(w, v) ==
    /\ pkgs[v].status \in {"SUPERSEDED", "RECALLED"} /\ pkgs[v].channel \in {"PROD", "BETA"}
    /\ Begin(w, "restore", v, "restoreQuery")

RestoreStart(w, v) ==
    /\ pkgs[v].status = "SUPERSEDED" /\ pkgs[v].channel \in {"PROD", "BETA"}
    /\ Begin(w, "restore", v, "restoreQuery")

ToggleStart(w, v) == pkgs[v].status = "ACTIVE" /\ Begin(w, "toggle", v, "toggleSet")

(* Refused, besides, while jobs of the version are live and for a week     *)
(* after it was superseded unless forced: the request may not be made.     *)
DeleteStart(w, v) ==
    /\ pkgs[v].status \notin {"NONE", "ACTIVE"}
    /\ Begin(w, "delete", v, "deleteRaw")

----------------------------------------------------------------------------

(* Write the row of inv[w]; update_item makes it if it is gone.            *)
Write(w, row) == pkgs' = [pkgs EXCEPT ![inv[w].ver] = row]

RecallSet(w) ==
    /\ At(w, "recallSet")
    /\ Write(w, [pkgs[inv[w].ver] EXCEPT !.status = "RECALLED", !.activated = FALSE])
    /\ Return(w)
    /\ UNCHANGED <<raw, grants, issued, events, order, failed>>

(* The supersession that follows is that of the PROD versions.             *)
PromoteSet(w) ==
    /\ At(w, "promoteSet")
    /\ Write(w, [Upserted(pkgs[inv[w].ver]) EXCEPT !.channel = "PROD"])
    /\ Activated(inv[w].ver)
    /\ Become(w, [inv[w] EXCEPT !.pc = "query", !.channel = "PROD"])
    /\ UNCHANGED <<raw, grants, issued, events, failed>>

ToggleSet(w) ==
    /\ At(w, "toggleSet")
    /\ \E shown \in BOOLEAN :
         Write(w, [Upserted(pkgs[inv[w].ver]) EXCEPT !.activated = shown])
    /\ Return(w)
    /\ UNCHANGED <<raw, grants, issued, events, order, failed>>

----------------------------------------------------------------------------
(* Restore                                                                 *)

(* Mutant: only what is older, as everywhere else.                         *)
RestoreQueryOlder(w) ==
    LET found == {u \in ActiveOthers(inv[w].ver, inv[w].channel) : u < inv[w].ver} IN
    /\ At(w, "restoreQuery")
    /\ Become(w, [inv[w] EXCEPT !.old = found,
                     !.pc = IF found = {} THEN "restoreSet" ELSE "restoreSupersede"])
    /\ UNCHANGED catalog

(* _supersede_active_for_restore: every other one, older or newer.         *)
RestoreQuery(w) ==
    LET found == ActiveOthers(inv[w].ver, inv[w].channel) IN
    /\ At(w, "restoreQuery")
    /\ Become(w, [inv[w] EXCEPT !.old = found,
                     !.pc = IF found = {} THEN "restoreSet" ELSE "restoreSupersede"])
    /\ UNCHANGED catalog

RestoreSupersede(w) ==
    /\ At(w, "restoreSupersede")
    /\ \E u \in inv[w].old :
         /\ SupersedeOne(u)
         /\ Become(w, [inv[w] EXCEPT !.old = @ \ {u},
                          !.pc = IF inv[w].old = {u} THEN "restoreSet" ELSE @])
    /\ UNCHANGED <<raw, grants, issued, events, order>>

RestoreSet(w) ==
    /\ At(w, "restoreSet")
    /\ Write(w, [pkgs[inv[w].ver] EXCEPT !.status = "ACTIVE"])
    /\ Activated(inv[w].ver)
    /\ Return(w)
    /\ UNCHANGED <<raw, grants, issued, events, failed>>

----------------------------------------------------------------------------
(* Delete: the object at s3Key, which is the plain upload; the encrypted   *)
(* artefact stays in the bucket.  Then the row goes, or is kept as DELETED.*)

DeleteObject(w) ==
    /\ At(w, "deleteRaw")
    /\ DeleteRaw(inv[w].ver)
    /\ Goto(w, "deleteRow")
    /\ UNCHANGED <<pkgs, grants, issued, events, order>>

DeleteRow(w) ==
    /\ At(w, "deleteRow")
    /\ Write(w, IF inv[w].soft THEN [pkgs[inv[w].ver] EXCEPT !.status = "DELETED"] ELSE NoRow)
    /\ Return(w)
    /\ UNCHANGED <<raw, grants, issued, events, order, failed>>
=============================================================================
