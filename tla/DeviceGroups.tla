---------------------------- MODULE DeviceGroups ---------------------------
(***************************************************************************)
(* digilux_ota_device_register, with the assignment of a new device to a   *)
(* thing group.  OtaJobs has the same handler with what it writes there.   *)
(***************************************************************************)
EXTENDS DeliveryTables

(* Mutant: every start of the agent is taken for its first registration.   *)
RegisterStartEvery(w, d) ==
    /\ At(w, "idle")
    /\ Become(w, [Idle EXCEPT !.pc = "update", !.dev = d, !.first = TRUE])
    /\ twice' = IF \E x \in Workers : inv[x].pc \in RegisterPcs /\ inv[x].dev = d
                THEN twice \cup {d} ELSE twice
    /\ UNCHANGED <<thing, canary, production, keys, catalog, docs>>

(* The message of a starting agent; whether this is the first time is read *)
(* here and used until the end.                                            *)
RegisterStart(w, d) ==
    /\ At(w, "idle")
    /\ Become(w, [Idle EXCEPT !.pc = "update", !.dev = d, !.first = d \notin thing])
    /\ twice' = IF \E x \in Workers : inv[x].pc \in RegisterPcs /\ inv[x].dev = d
                THEN twice \cup {d} ELSE twice
    /\ UNCHANGED <<thing, canary, production, keys, catalog, docs>>

RegisterUpdate(w) ==
    /\ At(w, "update")
    /\ thing' = thing \cup {inv[w].dev}
    /\ IF inv[w].first THEN Become(w, [inv[w] EXCEPT !.pc = "count"]) ELSE Return(w)
    /\ UNCHANGED <<canary, production, twice, keys, catalog, docs>>

(* Mutant: the group may be one over the limit when a device joins.        *)
CountUpTo(w) ==
    /\ At(w, "count")
    /\ Become(w, [inv[w] EXCEPT !.pc = "join", !.group =
                    IF Cardinality(canary) <= CanaryMax THEN "canary" ELSE "production"])
    /\ UNCHANGED <<fleet, keys, catalog, docs>>

CountCanary(w) ==
    /\ At(w, "count")
    /\ Become(w, [inv[w] EXCEPT !.pc = "join", !.group =
                    IF Cardinality(canary) < CanaryMax THEN "canary" ELSE "production"])
    /\ UNCHANGED <<fleet, keys, catalog, docs>>

JoinGroup(w) ==
    /\ At(w, "join")
    /\ canary' = IF inv[w].group = "canary" THEN canary \cup {inv[w].dev} ELSE canary
    /\ production' = IF inv[w].group = "production" THEN production \cup {inv[w].dev}
                     ELSE production
    /\ Return(w)
    /\ UNCHANGED <<thing, twice, keys, catalog, docs>>
=============================================================================
