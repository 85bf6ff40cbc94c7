-------------------------- MODULE DeviceRegister ---------------------------
(***************************************************************************)
(* digilux_ota_device_register: the agent announces itself when it starts. *)
(***************************************************************************)
EXTENDS OtaTables

(* if_not_exists keeps pendingJobId.  globalInstalledVersion is what the   *)
(* message says of it: the version the device runs, the factory's being 0, *)
(* or "" (0 as well) where the message has installedVersions instead, as   *)
(* that of the repository's agent (jobs_client.register_device).           *)
Register(d) ==
    /\ "restart" \in Env
    /\ inventory' = [inventory EXCEPT ![d] =
          [@ EXCEPT !.thing = TRUE, !.ver = IF d \in Telling THEN fw[d] ELSE 0]]
    /\ UNCHANGED <<jobs, consents, pending, package, inv, now, crashes, old, awsVars>>

=============================================================================
