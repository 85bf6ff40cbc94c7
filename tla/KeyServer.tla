----------------------------- MODULE KeyServer -----------------------------
(***************************************************************************)
(* digilux_ota_key_server and its two callers: artifact_processor has a    *)
(* data key wrapped under the master key, user_consent has it unwrapped    *)
(* into the job document.  AES-GCM is modelled by what it does: what was   *)
(* wrapped under one master key opens under that one alone.                *)
(***************************************************************************)
EXTENDS DeliveryTables

(* _get_master_key: read from Secrets Manager once in the life of an       *)
(* instance, which a rotation of the secret does not reach.                *)
MasterOf(i) == IF cache[i] # 0 THEN cache[i] ELSE secret
Load(i) == cache' = [cache EXCEPT ![i] = MasterOf(i)] /\ UNCHANGED secret

WrapKey(k, i) == [key |-> k, master |-> MasterOf(i)]
Opens(wrapped, i) == wrapped.master = MasterOf(i)

Rotate == /\ secret < MaxMaster
          /\ secret' = secret + 1
          /\ UNCHANGED <<fleet, cache, catalog, docs, inv>>

(* AWS retires a warm instance; the next call starts a cold one.           *)
Recycle(i) == /\ cache[i] # 0
              /\ cache' = [cache EXCEPT ![i] = 0]
              /\ UNCHANGED <<fleet, secret, catalog, docs, inv>>

----------------------------------------------------------------------------
(* artifact_processor                                                      *)

(* upload_url refuses an ACTIVE version, and then writes the row anew.     *)
UploadStart(w) ==
    /\ At(w, "idle") /\ pkg.status # "ACTIVE"
    /\ Become(w, [Idle EXCEPT !.pc = "put"])
    /\ UNCHANGED <<fleet, keys, catalog, docs>>

UploadPut(w) ==
    /\ At(w, "put")
    /\ pkg' = Pending
    /\ Return(w)
    /\ UNCHANGED <<fleet, keys, made, docs>>

(* The row is not ACTIVE when the handler looks; the artefact is encrypted *)
(* under a new data key.                                                   *)
ProcessStart(w) ==
    /\ At(w, "idle") /\ pkg.status # "ACTIVE" /\ made < MaxKeys
    /\ made' = made + 1
    /\ Become(w, [Idle EXCEPT !.pc = "wrap", !.enc = made + 1])
    /\ UNCHANGED <<fleet, keys, pkg, docs>>

Wrap(w, i) ==
    /\ At(w, "wrap")
    /\ Load(i)
    /\ Become(w, [inv[w] EXCEPT !.pc = "activate", !.wrapped = WrapKey(inv[w].enc, i)])
    /\ UNCHANGED <<fleet, catalog, docs>>

(* Mutant: encS3Key is kept when a row has one, the wrapped key is not.    *)
ActivateKeeps(w) ==
    /\ At(w, "activate")
    /\ pkg' = [status |-> "ACTIVE", wrapped |-> inv[w].wrapped,
               enc |-> IF pkg.enc = 0 THEN inv[w].enc ELSE pkg.enc]
    /\ Return(w)
    /\ UNCHANGED <<fleet, keys, made, docs>>

(* One update names the object, its wrapped key and the status.            *)
Activate(w) ==
    /\ At(w, "activate")
    /\ pkg' = [status |-> "ACTIVE", enc |-> inv[w].enc, wrapped |-> inv[w].wrapped]
    /\ Return(w)
    /\ UNCHANGED <<fleet, keys, made, docs>>

(* A later version is activated; an administrator restores this one, which *)
(* changes the status of whatever row is there by then (package_activate). *)
Supersede ==
    /\ pkg.status = "ACTIVE"
    /\ pkg' = [pkg EXCEPT !.status = "SUPERSEDED"]
    /\ UNCHANGED <<fleet, keys, made, docs, inv>>

RestoreStart(w) ==
    /\ At(w, "idle") /\ pkg.status = "SUPERSEDED"
    /\ Become(w, [Idle EXCEPT !.pc = "restore"])
    /\ UNCHANGED <<fleet, keys, catalog, docs>>

(* Mutant: the flag's name is taken for the status.                        *)
RestoreSetActivated(w) ==
    /\ At(w, "restore")
    /\ pkg' = [pkg EXCEPT !.status = "ACTIVATED"]
    /\ Return(w)
    /\ UNCHANGED <<fleet, keys, made, docs>>

RestoreSet(w) ==
    /\ At(w, "restore")
    /\ pkg' = [pkg EXCEPT !.status = "ACTIVE"]
    /\ Return(w)
    /\ UNCHANGED <<fleet, keys, made, docs>>

----------------------------------------------------------------------------
(* user_consent: the calls between the owner's answer and create_job       *)

(* An owner accepts for a device that has registered: its row has a        *)
(* thingName, or the answer is 409.                                        *)
ConsentStart(w) ==
    /\ At(w, "idle") /\ thing # {}
    /\ Become(w, [Idle EXCEPT !.pc = "read"])
    /\ UNCHANGED <<fleet, keys, catalog, docs>>

(* A row that is not ACTIVE is refused; one that was uploaded anew has no   *)
(* sha256, which fails the handler although a restoration made it ACTIVE.  *)
ReadPackage(w) ==
    /\ At(w, "read")
    /\ IF pkg.status # "ACTIVE" \/ pkg.enc = 0 THEN Return(w)
       ELSE Become(w, [inv[w] EXCEPT !.pc = "unwrap", !.enc = pkg.enc,
                                     !.wrapped = pkg.wrapped])
    /\ UNCHANGED <<fleet, keys, catalog, docs>>

(* Another master key: 400 from the key server, 500 to the owner, no job.  *)
Unwrap(w, i) ==
    /\ At(w, "unwrap")
    /\ Load(i)
    /\ IF Opens(inv[w].wrapped, i)
       THEN Become(w, [inv[w] EXCEPT !.pc = "create", !.key = inv[w].wrapped.key])
       ELSE Return(w)
    /\ UNCHANGED <<fleet, catalog, docs>>

CreateJob(w) ==
    /\ At(w, "create")
    /\ docs' = docs \cup {[enc |-> inv[w].enc, key |-> inv[w].key]}
    /\ Return(w)
    /\ UNCHANGED <<fleet, keys, catalog>>
=============================================================================
