--------------------------- MODULE CatalogTables ---------------------------
(***************************************************************************)
(* The package catalogue: the rows of digilux_ota_packages for one package,*)
(* the plain artefacts in the S3 bucket, the uploads that were granted, the*)
(* S3 events under way and the invocations that are running.  As in        *)
(* OtaTables, a step is one DynamoDB or S3 call of one invocation.         *)
(***************************************************************************)
EXTENDS Naturals, FiniteSets

CONSTANTS
    Versions,     \* versions of the package, ordered as _semver_tuple does
    Workers,      \* concurrently running Lambda invocations
    Data,         \* artefacts a client may upload; a checksum is the artefact's own
    BadTars,      \* those whose archive or manifest _enrich_tar_manifest refuses
    Channels,     \* the release types that an upload may name
    MaxUploads,   \* bound: upload tokens that uuid4 hands out, 1..MaxUploads
    MaxEvents,    \* bound: S3 events under way for one version
    Ops,          \* requests issued in this instance
    Exclusive,    \* requests that run only while nothing else runs
    Env,          \* what the environment may do in this instance
    NoData, NoChannel

OpNames  == {"upload", "multipart", "recall", "promote", "restore", "toggle", "delete"}
EnvNames == {"dup",      \* S3 delivers an event more than once
             "reput",    \* the client PUTs again to a URL that has not expired
             "overlap",  \* a version is requested again while an upload of it is open
             "fail",     \* a call whose error the handler catches fails
             "die"}      \* an invocation ends half-way

ReleaseTypes == {"UAT", "PROD", "BETA", "CUSTOM"}
Tokens == 1 .. MaxUploads   \* 0 is the empty token of an object without metadata

ASSUME CatalogAssumption ==
    /\ Versions \subseteq Nat \ {0}
    /\ BadTars \subseteq Data
    /\ Channels \subseteq ReleaseTypes
    /\ MaxUploads \in Nat /\ MaxEvents \in Nat
    /\ Ops \subseteq OpNames /\ Exclusive \subseteq OpNames /\ Env \subseteq EnvNames
    /\ NoData \notin Data /\ NoChannel \notin ReleaseTypes

VARIABLES
    pkgs,    \* digilux_ota_packages: [Versions -> Package]
    raw,     \* S3: the object at the s3Key of each version
    grants,  \* presigned URLs and multipart uploads, by upload token
    issued,  \* tokens drawn so far
    events,  \* ObjectCreated events to deliver, by version
    inv,     \* the running invocations
    order,   \* processedAt, promotedAt, restoredAt: <<u, v>> when u's is the later
    failed   \* a call failed or an invocation died

catalog == <<pkgs, raw, grants, issued, events, order, failed>>
vars == <<pkgs, raw, grants, issued, events, inv, order, failed>>

----------------------------------------------------------------------------
(* Types                                                                   *)

Status == {"NONE", "PENDING", "ACTIVE", "CORRUPTED", "SUPERSEDED", "RECALLED", "DELETED",
           "UNSET"}   \* UNSET: an update_item made a row that has no status

Package == [status : Status, channel : ReleaseTypes \cup {NoChannel},
            token : Tokens \cup {0}, sum : Data \cup {NoData},   \* uploadToken, expectedChecksum
            multi : BOOLEAN,                                     \* uploadType, uploadId
            activated : BOOLEAN,                                 \* shown to end users
            enc : Data \cup {NoData}]                            \* what encS3Key decrypts to
NoRow == [status |-> "NONE", channel |-> NoChannel, token |-> 0, sum |-> NoData,
          multi |-> FALSE, activated |-> FALSE, enc |-> NoData]

Object == [token : Tokens \cup {0}, data : Data \cup {NoData}]
NoObject == [token |-> 0, data |-> NoData]

Grant == [state : {"none", "open", "put", "used"}, ver : Nat, multi : BOOLEAN,
          sum : Data \cup {NoData}]
NoGrant == [state |-> "none", ver |-> 0, multi |-> FALSE, sum |-> NoData]

(* An invocation: the call it makes next, and its local variables.         *)
Pc == {"idle", "putRow", "complete", "orphan", "head", "get", "delRaw", "promote",
       "query", "supersede", "quarDelete", "quarMark",
       "recallSet", "promoteSet", "restoreQuery", "restoreSupersede", "restoreSet", "toggleSet",
       "deleteRaw", "deleteRow"}
Invocation == [pc : Pc, ver : Nat, token : Tokens \cup {0}, sum : Data \cup {NoData},
               channel : ReleaseTypes \cup {NoChannel}, data : Data \cup {NoData},
               multi : BOOLEAN, soft : BOOLEAN, old : SUBSET Versions, op : OpNames \cup {"event"}]
Idle == [pc |-> "idle", ver |-> 0, token |-> 0, sum |-> NoData, channel |-> NoChannel,
         data |-> NoData, multi |-> FALSE, soft |-> FALSE, old |-> {}, op |-> "event"]

----------------------------------------------------------------------------
(* Steps of an invocation                                                  *)

At(w, pc)    == inv[w].pc = pc
Become(w, i) == inv' = [inv EXCEPT ![w] = i]
Goto(w, pc)  == Become(w, [inv[w] EXCEPT !.pc = pc])
Return(w)    == Become(w, Idle)

(* An invocation starts: of an administrator's request, or of an S3 event. *)
Start(w, op) ==
    /\ At(w, "idle")
    /\ \A x \in Workers : ~At(x, "idle") => {op, inv[x].op} \cap Exclusive = {}
Request(w, op) == op \in Ops /\ Start(w, op)

(* v is ACTIVE on its channel from now on.                                 *)
Activated(v) == order' = {p \in order : p[2] # v} \cup ({v} \X (Versions \ {v}))

SetStatus(v, s) == pkgs' = [pkgs EXCEPT ![v].status = s]

Fails == "fail" \in Env /\ failed' = TRUE

(* Delete the object of v; a ClientError is logged and the handler goes on.*)
DeleteRaw(v) ==
    \/ raw' = [raw EXCEPT ![v] = NoObject] /\ UNCHANGED failed
    \/ Fails /\ UNCHANGED raw

(* An update_item without condition makes the row if it is not there.      *)
Upserted(row) == IF row.status = "NONE" THEN [row EXCEPT !.status = "UNSET"] ELSE row

(* The ACTIVE versions of a channel other than v.                          *)
ActiveOthers(v, c) ==
    {u \in Versions \ {v} : pkgs[u].status = "ACTIVE" /\ pkgs[u].channel = c}
=============================================================================
