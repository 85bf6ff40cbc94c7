----------------------------- MODULE UpdateLock ----------------------------
(***************************************************************************)
(* What "an update is already in progress on this device" promises: an     *)
(* update is granted to a device only while it has none.                   *)
(***************************************************************************)
CONSTANTS Device, Update
VARIABLE live      \* the updates each device has been given and not finished

Init == live = [d \in Device |-> {}]

Grant(d, u) == /\ live[d] = {}
               /\ live' = [live EXCEPT ![d] = {u}]

Release(d) == live' = [live EXCEPT ![d] = {}]

Next == \E d \in Device : Release(d) \/ \E u \in Update : Grant(d, u)

Spec == Init /\ [][Next]_live

=============================================================================
