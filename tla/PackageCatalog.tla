--------------------------- MODULE PackageCatalog ---------------------------
(***************************************************************************)
(* The catalogue's Lambdas at work on one package: uploads, S3 events and  *)
(* administrators, several invocations at a time.                          *)
(***************************************************************************)
EXTENDS PackageUpload, PackageActivate

Init ==
    /\ pkgs = [v \in Versions |-> NoRow]
    /\ raw = [v \in Versions |-> NoObject]
    /\ grants = [t \in Tokens |-> NoGrant]
    /\ issued = 0
    /\ events = [v \in Versions |-> 0]
    /\ inv = [w \in Workers |-> Idle]
    /\ order = {}
    /\ failed = FALSE

(* The event of an object arrives once more; without "overlap", before the *)
(* version is requested again.                                             *)
LastGrant(v, t) ==
    /\ t \in Tokens /\ grants[t].state # "none" /\ grants[t].ver = v
    /\ \A s \in Tokens : grants[s].state # "none" /\ grants[s].ver = v => s <= t

Duplicate(v) ==
    /\ "dup" \in Env
    /\ \E t \in Tokens : /\ grants[t].state \in {"put", "used"}
                        /\ IF "overlap" \in Env THEN grants[t].ver = v ELSE LastGrant(v, t)
    /\ "overlap" \in Env \/ \A w \in Workers : inv[w].ver = v => ~At(w, "putRow")
    /\ events[v] < MaxEvents
    /\ events' = [events EXCEPT ![v] = @ + 1]
    /\ UNCHANGED <<pkgs, raw, grants, issued, inv, order, failed>>

(* An uncaught error or a timeout: the key server or a call fails.  The    *)
(* handler catches what _process_artifact raises, so S3 is not asked again.*)
Die(w) ==
    /\ "die" \in Env /\ ~At(w, "idle")
    /\ failed' = TRUE
    /\ Return(w)
    /\ UNCHANGED <<pkgs, raw, grants, issued, events, order>>

Administrator(w) ==
    \/ \E v \in Versions :
         \/ \E c \in Channels, sum \in Data, multi \in BOOLEAN : UploadStart(w, v, c, sum, multi)
         \/ CompleteStart(w, v)
         \/ RecallStart(w, v) \/ PromoteStart(w, v) \/ RestoreStart(w, v)
         \/ ToggleStart(w, v) \/ DeleteStart(w, v)

Continue(w) ==
    \/ UploadPut(w) \/ \E d \in Data : CompleteFinish(w, d)
    \/ DeleteOrphan(w) \/ CheckToken(w) \/ ReadArtifact(w) \/ DeletePlain(w) \/ MakeActive(w)
    \/ QueryOlder(w) \/ SupersedeOlder(w)
    \/ QuarantineDelete(w) \/ QuarantineMark(w)
    \/ RecallSet(w) \/ PromoteSet(w) \/ ToggleSet(w)
    \/ RestoreQuery(w) \/ RestoreSupersede(w) \/ RestoreSet(w)
    \/ DeleteObject(w) \/ DeleteRow(w)

Client ==
    \E t \in Tokens : (\E d \in Data : ClientPut(t, d)) \/ Expire(t)

Next ==
    \/ \E w \in Workers : \/ Administrator(w) \/ Continue(w) \/ Die(w)
                          \/ \E v \in Versions : ProcessStart(w, v)
    \/ Client
    \/ \E v \in Versions : Duplicate(v)

Spec == Init /\ [][Next]_vars

----------------------------------------------------------------------------
(* Invariants                                                              *)

TypeOK ==
    /\ pkgs \in [Versions -> Package]
    /\ raw \in [Versions -> Object]
    /\ grants \in [Tokens -> Grant]
    /\ issued \in 0 .. MaxUploads
    /\ events \in [Versions -> 0 .. MaxEvents]
    /\ inv \in [Workers -> Invocation]
    /\ order \subseteq Versions \X Versions
    /\ failed \in BOOLEAN

(* The last upload request for v gave d as its checksum.                   *)
Announced(v, d) == \E t \in Tokens : LastGrant(v, t) /\ grants[t].sum = d

(* What is ACTIVE, or can be restored to ACTIVE, has an encrypted artefact *)
(* of an archive in order, and it is the one whose checksum came with the  *)
(* last upload request for the version.  A URL that is PUT to once more    *)
(* after the activation brings an artefact that nothing checks: here the   *)
(* client uses each URL once.                                              *)
ServesWhatWasAnnounced ==
    \A v \in Versions : pkgs[v].status \in {"ACTIVE", "SUPERSEDED"} =>
        pkgs[v].enc \in Data \ BadTars /\ Announced(v, pkgs[v].enc)

(* Two ACTIVE versions of one release type coexist only because the older  *)
(* one came after the newer: whenever a version was activated, whatever    *)
(* was older and ACTIVE was superseded, however the invocations overlapped.*)
Settled == \A w \in Workers : At(w, "idle")

NoOlderSurvives ==
    Settled /\ ~failed =>
        \A u, v \in Versions :
            /\ pkgs[u].status = "ACTIVE" /\ pkgs[v].status = "ACTIVE"
            /\ pkgs[u].channel = pkgs[v].channel /\ <<u, v>> \in order
            => u < v

(* The plain archive does not stay in the bucket: when its event has been  *)
(* handled, whatever came of it, only the encrypted copy remains.  So it is*)
(* as long as the client uses each URL once.                               *)
PlainDeleted ==
    Settled /\ ~failed => \A v \in Versions : events[v] = 0 => raw[v] = NoObject

----------------------------------------------------------------------------
(* Action properties                                                       *)

(* An upload that was asked for becomes ACTIVE only as it was announced,   *)
(* and in order: however often the client PUTs while it is processed,      *)
(* whatever S3 repeats and wherever an invocation fails.                   *)
AwaitedIsAnnounced ==
    [][\A v \in Versions : pkgs[v].status = "PENDING" /\ pkgs'[v].status = "ACTIVE" =>
          pkgs'[v].enc \in Data \ BadTars /\ Announced(v, pkgs'[v].enc)]_vars

(* A recalled version comes back only by a new request to upload it, as    *)
(* long as the client uses each URL once.                                  *)
RecalledStays ==
    [][\A v \in Versions : pkgs[v].status = "RECALLED" =>
          pkgs'[v].status \in {"RECALLED", "DELETED", "PENDING"}]_vars

(* A restore takes every other version of the release type, newer ones     *)
(* too, out of service before it brings its own back.                      *)
RestoredAlone ==
    [][\A w \in Workers :
          At(w, "restoreSet") /\ order' # order =>
              failed \/ ActiveOthers(inv[w].ver, pkgs[inv[w].ver].channel) = {}]_vars

(* Processing an upload never takes a version out of service that was      *)
(* serving: a further event for it is skipped.                             *)
ActiveNotQuarantined ==
    [][\A v \in Versions : pkgs[v].status = "ACTIVE" => pkgs'[v].status # "CORRUPTED"]_vars
----------------------------------------------------------------------------
(* What AwaitedIsAnnounced rests on, wherever a version is asked for again *)
(* only when nothing of it is under way, and restores and deletes have the *)
(* catalogue to themselves; and ServesWhatWasAnnounced, where moreover the *)
(* client PUTs once to a URL.                                              *)

OrderlyUse == "overlap" \notin Env /\ {"restore", "delete"} \subseteq Exclusive
UsedOnce   == "reput" \notin Env

(* A request that needs the catalogue to itself has it.                    *)
Alone ==
    \A w, x \in Workers :
        w # x /\ ~At(w, "idle") /\ inv[w].op \in {"restore", "delete"} => At(x, "idle")

Working == {"putRow", "head", "get", "delRaw", "promote"}

(* A valid grant is the last one of its version, and no other is recorded. *)
ValidIsLast ==
    \A t \in Tokens : Valid(t) =>
        /\ LastGrant(grants[t].ver, t)
        /\ \A w \in Workers : At(w, "putRow") => inv[w].ver # grants[t].ver

(* Nothing has come of an open grant.                                      *)
GrantsInOrder ==
    \A t \in Tokens : grants[t].state # "none" =>
        LET v == grants[t].ver IN
        /\ t <= issued /\ grants[t].sum \in Data
        /\ grants[t].state = "open" =>
              /\ LastGrant(v, t) /\ events[v] = 0
              /\ pkgs[v].status = "NONE" \/ pkgs[v].token = t
              /\ \A w \in Workers : inv[w].ver = v => inv[w].pc \notin Working

(* The object of v came with the last grant, if it is there, and is the    *)
(* one that was announced.                                                 *)
Clean(v) ==
    raw[v] # NoObject =>
        /\ LastGrant(v, raw[v].token)
        /\ UsedOnce =>
              raw[v].data = grants[raw[v].token].sum /\ raw[v].data \notin BadTars

(* A row with a token has the token and the checksum of the last grant;    *)
(* without one, the plain object was handled before.                       *)
RowsInOrder ==
    \A v \in Versions :
        /\ pkgs[v].token # 0 =>
              /\ pkgs[v].status # "NONE" /\ LastGrant(v, pkgs[v].token)
              /\ pkgs[v].sum = grants[pkgs[v].token].sum
        /\ pkgs[v].token = 0 /\ pkgs[v].status # "NONE" =>
              pkgs[v].sum = NoData /\ Clean(v)

(* A request that put its row has drawn a token above every other of its   *)
(* version, and nothing of the version is under way.                       *)
Uploads ==
    \A w \in Workers : At(w, "putRow") =>
        LET i == inv[w] IN
        /\ i.token <= issued /\ grants[i.token].state = "none" /\ i.sum \in Data
        /\ \A t \in Tokens :
              grants[t].state # "none" /\ grants[t].ver = i.ver => t < i.token
        /\ events[i.ver] = 0 /\ pkgs[i.ver].status # "ACTIVE"
        /\ \A x \in Workers \ {w} :
              /\ inv[x].ver = i.ver => inv[x].pc \in {"idle", "complete"}
              /\ At(x, "putRow") => inv[x].token # i.token

(* What an invocation has read still holds when it acts on it.             *)
Current(i) ==
    /\ i.pc = "head" => LastGrant(i.ver, i.token) /\ i.sum = grants[i.token].sum
    /\ i.pc = "get" =>
          \/ i.token = 0 /\ i.sum = NoData /\ Clean(i.ver)
          \/ /\ LastGrant(i.ver, i.token) /\ i.sum = grants[i.token].sum
             /\ raw[i.ver] = NoObject \/ raw[i.ver].token = i.token
    /\ i.pc \in {"delRaw", "promote"} =>
          /\ i.data \in Data \ BadTars /\ Clean(i.ver)
          /\ UsedOnce \/ i.token # 0 => Announced(i.ver, i.data)
    /\ i.pc \in {"recallSet", "promoteSet", "toggleSet"} => pkgs[i.ver].status # "NONE"
    /\ i.pc \in {"restoreQuery", "restoreSupersede", "restoreSet"} =>
          i.op = "restore" /\ pkgs[i.ver].status = "SUPERSEDED"
    /\ i.pc \in {"deleteRaw", "deleteRow"} =>
          i.op = "delete" /\ pkgs[i.ver].status # "NONE"

(* An invocation that has no token to ask for handles an upload that was   *)
(* handled before, and is not asked for again.                             *)
NoneAwaited ==
    \A w \in Workers : inv[w].pc \in Working \ {"putRow"} /\ inv[w].token = 0 =>
        pkgs[inv[w].ver].status # "PENDING"

CatalogInv ==
    /\ Alone /\ ValidIsLast /\ GrantsInOrder /\ RowsInOrder /\ Uploads /\ NoneAwaited
    /\ \A w \in Workers : Current(inv[w])
    /\ UsedOnce => ServesWhatWasAnnounced
----------------------------------------------------------------------------
(* What the other properties rest on, where moreover S3 delivers an event  *)
(* once and each URL is used once.                                         *)

DeliveredOnce == OrderlyUse /\ UsedOnce /\ "dup" \notin Env

Open(v) == \E t \in Tokens : grants[t].state = "open" /\ grants[t].ver = v

Handling == {"orphan", "head", "get", "delRaw", "promote", "quarDelete", "quarMark"}
Handles(w, v) == inv[w].ver = v /\ inv[w].pc \in Handling
UnderWay(v) == Open(v) \/ events[v] > 0 \/ \E w \in Workers : Handles(w, v)

(* An upload of v is open, or has its event to come, or is being handled,  *)
(* and by one invocation.                                                  *)
OneHandler(v) ==
    /\ events[v] <= 1
    /\ Open(v) => events[v] = 0
    /\ \A w \in Workers : Handles(w, v) =>
          /\ ~Open(v) /\ events[v] = 0
          /\ \A x \in Workers : Handles(x, v) => x = w

(* Meanwhile its row waits, unless it was deleted, and no administrator    *)
(* is at it but to delete it.                                              *)
Administers == {"recallSet", "promoteSet", "toggleSet", "query", "supersede",
                "restoreQuery", "restoreSupersede", "restoreSet"}
Waiting(v) ==
    UnderWay(v) =>
        /\ pkgs[v].status \in {"PENDING", "NONE"}
        /\ \A w \in Workers : inv[w].ver = v => inv[w].pc \notin Administers

(* The release type that was read is that of the row.                      *)
SameChannel(i) ==
    /\ i.pc = "putRow" => i.channel # NoChannel
    /\ i.pc \in Handling /\ pkgs[i.ver].status = "PENDING" => i.channel = pkgs[i.ver].channel
    /\ i.pc \in {"restoreQuery", "restoreSupersede", "restoreSet"} =>
          i.channel = pkgs[i.ver].channel
    /\ i.pc \in {"deleteRaw", "deleteRow"} => i.soft = (pkgs[i.ver].status = "RECALLED")

(* Whoever restores has superseded all but those it still has to.          *)
Restoring(i) ==
    /\ i.pc = "restoreSupersede" => ActiveOthers(i.ver, i.channel) \subseteq i.old
    /\ i.pc = "restoreSet" => ActiveOthers(i.ver, i.channel) = {}

(* u, the later and the newer, has still to supersede v.                   *)
WillSupersede(w, u, v) ==
    /\ inv[w].ver = u /\ inv[w].channel = pkgs[u].channel
    /\ At(w, "query") \/ (At(w, "supersede") /\ v \in inv[w].old)

Overtaken(u, v) ==
    /\ pkgs[u].status = "ACTIVE" /\ pkgs[v].status = "ACTIVE"
    /\ pkgs[u].channel = pkgs[v].channel /\ <<u, v>> \in order
    => u # v /\ (u < v \/ \E w \in Workers : WillSupersede(w, u, v))

(* A plain object has its event to come, or somebody is about to delete it.*)
Deletes == {"orphan", "head", "get", "delRaw", "quarDelete"}
Cleared(v) ==
    raw[v] # NoObject =>
        events[v] > 0 \/ \E w \in Workers : inv[w].ver = v /\ inv[w].pc \in Deletes

SettledInv ==
    /\ \A v \in Versions :
          /\ OneHandler(v) /\ Waiting(v)
          /\ pkgs[v].status = "PENDING" => pkgs[v].channel # NoChannel
          /\ raw[v].data = NoData => raw[v] = NoObject
          /\ <<v, v>> \notin order
    /\ \A w \in Workers : SameChannel(inv[w])
    /\ ~failed =>
          /\ \A w \in Workers : Restoring(inv[w])
          /\ \A u, v \in Versions : Overtaken(u, v)
          /\ \A v \in Versions : Cleared(v)
=============================================================================
