--------------------------- MODULE PackageUpload ---------------------------
(***************************************************************************)
(* digilux_ota_upload_url and digilux_ota_upload_complete, and the client  *)
(* that uploads with what they hand out.                                   *)
(***************************************************************************)
EXTENDS CatalogTables

(* An object can be made with grant t: nothing was so far, or its URL is   *)
(* still valid and the client uses it again.                               *)
Valid(t) == grants[t].state = "open" \/ ("reput" \in Env /\ grants[t].state = "put")

(* Nothing of v is under way: no invocation, no event, no valid grant.     *)
Undisturbed(v) ==
    /\ \A w \in Workers : ~At(w, "idle") => inv[w].ver # v
    /\ events[v] = 0
    /\ \A t \in Tokens : Valid(t) => grants[t].ver # v

(* Reads the row; a version that is ACTIVE is refused, any other may be    *)
(* requested again.                                                        *)
UploadStart(w, v, c, sum, multi) ==
    /\ Request(w, IF multi THEN "multipart" ELSE "upload")
    /\ "overlap" \in Env \/ Undisturbed(v)
    /\ pkgs[v].status # "ACTIVE"
    /\ issued < MaxUploads
    /\ issued' = issued + 1
    /\ Become(w, [Idle EXCEPT !.pc = "putRow", !.ver = v, !.channel = c,
                              !.op = IF multi THEN "multipart" ELSE "upload",
                              !.sum = sum, !.multi = multi, !.token = issued + 1])
    /\ UNCHANGED <<pkgs, raw, grants, events, order, failed>>

(* put_item replaces the whole row, and the answer carries the grant.      *)
UploadPut(w) ==
    /\ At(w, "putRow")
    /\ LET i == inv[w] IN
         /\ pkgs' = [pkgs EXCEPT ![i.ver] =
              [NoRow EXCEPT !.status = "PENDING", !.channel = i.channel, !.token = i.token,
                            !.sum = i.sum, !.multi = i.multi]]
         /\ grants' = [grants EXCEPT ![i.token] =
              [state |-> "open", ver |-> i.ver, multi |-> i.multi, sum |-> i.sum]]
    /\ Return(w)
    /\ UNCHANGED <<raw, issued, events, order, failed>>

(* The object of grant t is created with the token in its metadata.  A     *)
(* multipart upload is completed once; a presigned URL stays what it is.   *)
Created(t, d) ==
    LET v == grants[t].ver IN
    /\ events[v] < MaxEvents
    /\ raw' = [raw EXCEPT ![v] = [token |-> t, data |-> d]]
    /\ events' = [events EXCEPT ![v] = @ + 1]
    /\ grants' = [grants EXCEPT ![t].state = IF grants[t].multi THEN "used" ELSE "put"]

(* The client PUTs an artefact to the presigned URL, which S3 accepts as   *)
(* often as it comes before UPLOAD_EXPIRY.                                 *)
ClientPut(t, d) ==
    /\ Valid(t) /\ ~grants[t].multi
    /\ Created(t, d)
    /\ UNCHANGED <<pkgs, issued, inv, order, failed>>

(* The URL expires, or the multipart upload is given up.                   *)
Expire(t) ==
    /\ Valid(t)
    /\ grants' = [grants EXCEPT ![t].state = "used"]
    /\ UNCHANGED <<pkgs, raw, issued, events, inv, order, failed>>

(* upload_complete takes the upload id from the row.                       *)
CompleteStart(w, v) ==
    /\ Request(w, "multipart")
    /\ pkgs[v].status = "PENDING" /\ pkgs[v].multi
    /\ Become(w, [Idle EXCEPT !.pc = "complete", !.op = "multipart", !.ver = v,
                              !.token = pkgs[v].token])
    /\ UNCHANGED catalog

CompleteFinish(w, d) ==
    /\ At(w, "complete")
    /\ IF grants[inv[w].token].state = "open"
       THEN Created(inv[w].token, d)
       ELSE UNCHANGED <<raw, events, grants>>   \* NoSuchUpload
    /\ Return(w)
    /\ UNCHANGED <<pkgs, issued, order, failed>>
=============================================================================
