------------------------------ MODULE JobQueue ------------------------------
(***************************************************************************)
(* What the understanding queue promises, whoever implements it: a job is  *)
(* handed to at most one worker, at most once, and a job that was handed   *)
(* out or withdrawn never waits again.                                     *)
(***************************************************************************)
CONSTANTS Jobs, Holders

VARIABLES
    phase,    \* [Jobs -> "none", "waiting", "held", "settled"]
    holder    \* [Jobs -> SUBSET Holders]

vars == <<phase, holder>>

Init ==
    /\ phase = [j \in Jobs |-> "none"]
    /\ holder = [j \in Jobs |-> {}]

\* A job is put into the queue.
Submit(j) ==
    /\ phase[j] = "none"
    /\ phase' = [phase EXCEPT ![j] = "waiting"]
    /\ UNCHANGED holder

\* Jobs are withdrawn before anyone took them; in the same step one worker may
\* take another waiting job.
Withdraw(js) ==
    /\ \A j \in js : phase[j] = "waiting"
    /\ phase' = [j \in Jobs |-> IF j \in js THEN "settled" ELSE phase[j]]
    /\ UNCHANGED holder

Take(h, j, js) ==
    /\ j \notin js
    /\ \A i \in js \cup {j} : phase[i] = "waiting"
    /\ phase' = [i \in Jobs |-> IF i = j THEN "held"
                                ELSE IF i \in js THEN "settled" ELSE phase[i]]
    /\ holder' = [holder EXCEPT ![j] = {h}]

\* The holder is done with the job, or is gone.
Release(j) ==
    /\ phase[j] = "held"
    /\ phase' = [phase EXCEPT ![j] = "settled"]
    /\ holder' = [holder EXCEPT ![j] = {}]

Next ==
    \/ \E j \in Jobs : Submit(j) \/ Release(j)
    \/ \E js \in SUBSET Jobs : Withdraw(js)
    \/ \E h \in Holders, j \in Jobs, js \in SUBSET Jobs : Take(h, j, js)

Spec == Init /\ [][Next]_vars

=============================================================================
