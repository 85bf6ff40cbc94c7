------------------------- MODULE ArtifactProcessor -------------------------
(***************************************************************************)
(* digilux_ota_artifact_processor: verifies what was uploaded, encrypts it *)
(* under a key of its own, makes the version ACTIVE and supersedes the     *)
(* older ones.  Invoked by S3 for every object that is created.            *)
(***************************************************************************)
EXTENDS CatalogTables

(* Reads the row once; token, checksum and release type are used from this *)
(* copy until the end.                                                     *)
ProcessStart(w, v) ==
    LET row == pkgs[v]
        with(pc) == Become(w, [Idle EXCEPT !.pc = pc, !.ver = v, !.token = row.token,
                                           !.sum = row.sum, !.channel = row.channel]) IN
    /\ Start(w, "event") /\ events[v] > 0
    /\ events' = [events EXCEPT ![v] = @ - 1]
    /\ \/ row.status = "ACTIVE" /\ Return(w)
       \/ row.status \in {"NONE", "CORRUPTED"} /\ with("orphan")
       \/ /\ row.status \notin {"NONE", "CORRUPTED", "ACTIVE"}
          /\ with(IF row.token = 0 THEN "get" ELSE "head")
    /\ UNCHANGED <<pkgs, raw, grants, issued, order, failed>>

(* Mutant: the object is left where it is.                                 *)
DeleteOrphanKeeps(w) ==
    /\ At(w, "orphan")
    /\ Return(w)
    /\ UNCHANGED catalog

DeleteOrphan(w) ==
    /\ At(w, "orphan")
    /\ DeleteRaw(inv[w].ver)
    /\ Return(w)
    /\ UNCHANGED <<pkgs, grants, issued, events, order>>

(* head_object: no object and a failed call both give the empty token.     *)
CheckToken(w) ==
    /\ At(w, "head")
    /\ \/ raw[inv[w].ver].token = inv[w].token /\ Goto(w, "get") /\ UNCHANGED failed
       \/ raw[inv[w].ver].token # inv[w].token /\ Goto(w, "quarDelete") /\ UNCHANGED failed
       \/ Fails /\ Goto(w, "quarDelete")
    /\ UNCHANGED <<pkgs, raw, grants, issued, events, order>>

(* Mutant: the checksum is not compared.                                   *)
RefusedTarOnly(d, sum) == d \in BadTars

Refused(d, sum) == d \in BadTars \/ (sum # NoData /\ d # sum)

(* get_object raises without an object.  The artefact that passes is then  *)
(* signed, encrypted and put at a fresh enc/ key, where nothing else       *)
(* looks before the row names it.                                          *)
ReadArtifact(w) ==
    LET d == raw[inv[w].ver].data IN
    /\ At(w, "get")
    /\ \/ d = NoData /\ Return(w)
       \/ d # NoData /\ Refused(d, inv[w].sum) /\ Goto(w, "quarDelete")
       \/ /\ d # NoData /\ ~Refused(d, inv[w].sum)
          /\ Become(w, [inv[w] EXCEPT !.pc = "delRaw", !.data = d])
    /\ UNCHANGED catalog

(* Mutant: the artefact is downloaded once more to be encrypted.           *)
DeletePlainReadAgain(w) ==
    LET v == inv[w].ver IN
    /\ At(w, "delRaw")
    /\ DeleteRaw(v)
    /\ Become(w, [inv[w] EXCEPT !.pc = "promote",
                     !.data = IF raw[v] = NoObject THEN @ ELSE raw[v].data])
    /\ UNCHANGED <<pkgs, grants, issued, events, order>>

DeletePlain(w) ==
    /\ At(w, "delRaw")
    /\ DeleteRaw(inv[w].ver)
    /\ Goto(w, "promote")
    /\ UNCHANGED <<pkgs, grants, issued, events, order>>

(* The only condition is that the row exists.                              *)
MakeActive(w) ==
    LET v == inv[w].ver IN
    /\ At(w, "promote")
    /\ \/ /\ pkgs[v].status # "NONE"
          /\ pkgs' = [pkgs EXCEPT ![v].status = "ACTIVE", ![v].enc = inv[w].data,
                                  ![v].token = 0, ![v].sum = NoData]
          /\ Activated(v)
          /\ IF inv[w].channel = NoChannel THEN Return(w) ELSE Goto(w, "query")
          /\ UNCHANGED failed
       \/ /\ Return(w) /\ UNCHANGED <<pkgs, order>>
          /\ (pkgs[v].status = "NONE" /\ UNCHANGED failed) \/ Fails
    /\ UNCHANGED <<raw, grants, issued, events>>

----------------------------------------------------------------------------
(* _supersede_previous_versions; package_activate has a copy of it.        *)

(* Mutant: versions are compared the wrong way round.                      *)
QueryNewer(w) ==
    LET found == {u \in ActiveOthers(inv[w].ver, inv[w].channel) : u > inv[w].ver} IN
    /\ At(w, "query")
    /\ IF found = {} THEN Return(w)
       ELSE Become(w, [inv[w] EXCEPT !.pc = "supersede", !.old = found])
    /\ UNCHANGED catalog

QueryOlder(w) ==
    LET found == {u \in ActiveOthers(inv[w].ver, inv[w].channel) : u < inv[w].ver} IN
    /\ At(w, "query")
    /\ IF found = {} THEN Return(w)
       ELSE Become(w, [inv[w] EXCEPT !.pc = "supersede", !.old = found])
    /\ UNCHANGED catalog

(* Conditional on the status, and on nothing else.                         *)
SupersedeOne(u) ==
    \/ pkgs[u].status = "ACTIVE" /\ SetStatus(u, "SUPERSEDED") /\ UNCHANGED failed
    \/ pkgs[u].status # "ACTIVE" /\ UNCHANGED <<pkgs, failed>>
    \/ Fails /\ UNCHANGED pkgs

SupersedeOlder(w) ==
    /\ At(w, "supersede")
    /\ \E u \in inv[w].old :
         /\ SupersedeOne(u)
         /\ IF inv[w].old = {u} THEN Return(w)
            ELSE Become(w, [inv[w] EXCEPT !.old = @ \ {u}])
    /\ UNCHANGED <<raw, grants, issued, events, order>>

----------------------------------------------------------------------------
(* _quarantine                                                             *)

QuarantineDelete(w) ==
    /\ At(w, "quarDelete")
    /\ DeleteRaw(inv[w].ver)
    /\ Goto(w, "quarMark")
    /\ UNCHANGED <<pkgs, grants, issued, events, order>>

(* Mutant: the status is spelled as in the audit record.                   *)
QuarantineMarkMisspelt(w) ==
    /\ At(w, "quarMark")
    /\ SetStatus(inv[w].ver, "QUARANTINED")
    /\ Return(w)
    /\ UNCHANGED <<raw, grants, issued, events, order, failed>>

QuarantineMark(w) ==
    /\ At(w, "quarMark")
    /\ LET v == inv[w].ver IN
       \/ pkgs[v].status # "NONE" /\ SetStatus(v, "CORRUPTED") /\ UNCHANGED failed
       \/ pkgs[v].status = "NONE" /\ UNCHANGED <<pkgs, failed>>
       \/ Fails /\ UNCHANGED pkgs
    /\ Return(w)
    /\ UNCHANGED <<raw, grants, issued, events, order>>
=============================================================================
