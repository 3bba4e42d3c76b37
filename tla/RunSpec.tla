------------------------------- MODULE RunSpec -------------------------------
(***************************************************************************)
(* What app/runs promises its clients about a run, as if every request     *)
(* were one step: an uploaded run is ready; it is started, at most once at *)
(* a time; its attempt ends in one step, completed with a result or failed *)
(* without one, and tells its readers which; a failed run can be started   *)
(* again; a run that is not running can be deleted, alone or with the rest *)
(* of its owner's history.                                                 *)
(***************************************************************************)
CONSTANT Runs

VARIABLES
    phase,    \* the lifecycle state a client sees
    result,   \* there is a result to read
    told      \* the terminal event in the log: "none", "completed", "failed"

spec == <<phase, result, told>>

Init ==
    /\ phase = [r \in Runs |-> "absent"]
    /\ result = [r \in Runs |-> FALSE]
    /\ told = [r \in Runs |-> "none"]

Create(r) ==
    /\ phase[r] = "absent"
    /\ phase' = [phase EXCEPT ![r] = "ready"]
    /\ UNCHANGED <<result, told>>

Start(r) ==
    /\ phase[r] \in {"ready", "failed"}
    /\ phase' = [phase EXCEPT ![r] = "running"]
    /\ told' = [told EXCEPT ![r] = "none"]
    /\ UNCHANGED result

Close(r, end) ==
    /\ phase[r] = "running"
    /\ phase' = [phase EXCEPT ![r] = end]
    /\ result' = [result EXCEPT ![r] = (end = "completed")]
    /\ told' = [told EXCEPT ![r] = end]

Erase(rs) ==
    /\ \A r \in rs : phase[r] \in {"ready", "completed", "failed"}
    /\ phase' = [r \in Runs |-> IF r \in rs THEN "deleted" ELSE phase[r]]
    /\ result' = [r \in Runs |-> IF r \in rs THEN FALSE ELSE result[r]]
    /\ told' = [r \in Runs |-> IF r \in rs THEN "none" ELSE told[r]]

Next ==
    \/ \E r \in Runs : Create(r) \/ Start(r)
    \/ \E r \in Runs, end \in {"completed", "failed"} : Close(r, end)
    \/ \E rs \in SUBSET Runs : Erase(rs)

Spec == Init /\ [][Next]_spec
=============================================================================
