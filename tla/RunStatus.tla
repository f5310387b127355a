----------------------------- MODULE RunStatus ------------------------------
(***************************************************************************)
(* What the run lifecycle promises: the status of each run, and the one    *)
(* run, if any, that is being driven.  Only the driven run's status moves, *)
(* it settles only from "running", and settling lets go of the drive.      *)
(***************************************************************************)
CONSTANTS Runs, NoRun

VARIABLES record, driver

vars == <<record, driver>>

Init == record = [r \in Runs |-> "none"] /\ driver = NoRun

\* A new run is recorded, and driven unless it could not be set up.
Create(r) ==
    /\ driver = NoRun
    /\ record[r] = "none"
    /\ record' = [record EXCEPT ![r] = "pending"]
    /\ driver' \in {r, NoRun}

\* An existing run is driven again; its status is still the old one.
Resume(r) ==
    /\ driver = NoRun
    /\ record[r] # "none"
    /\ driver' = r
    /\ UNCHANGED record

Start(r) ==
    /\ driver = r
    /\ record' = [record EXCEPT ![r] = "running"]
    /\ UNCHANGED driver

Settle(r) ==
    /\ driver = r
    /\ record[r] = "running"
    /\ \E s \in {"interrupted", "completed"} :
         record' = [record EXCEPT ![r] = s]
    /\ driver' = NoRun

Fail(r) ==
    /\ driver = r
    /\ record' = [record EXCEPT ![r] = "failed"]
    /\ driver' = NoRun

\* The driver is lost (a crash, a write that failed): the status stays.
Lose ==
    /\ driver # NoRun
    /\ driver' = NoRun
    /\ UNCHANGED record

Next ==
    \/ \E r \in Runs : Create(r) \/ Resume(r) \/ Start(r) \/ Settle(r) \/ Fail(r)
    \/ Lose

Spec == Init /\ [][Next]_vars
=============================================================================
