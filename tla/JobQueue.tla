------------------------------ MODULE JobQueue ------------------------------
(***************************************************************************)
(* The durable job queue of packages/database/src/jobs.ts and the retry    *)
(* rule of services/worker/src/runner.ts, as operators on the jobs table:  *)
(* a function from job identifiers to rows, NoJob where there is no row.   *)
(***************************************************************************)
EXTENDS Integers, FiniteSets

CONSTANTS
    MaxAttempts,   \* attempts a job gets, 5 or 3
    BaseBackoff,   \* first delay of a retry
    MaxBackoff     \* longest delay of a retry

ASSUME QueueAssumption ==
    /\ MaxAttempts \in Nat \ {0}
    /\ BaseBackoff \in Nat \ {0} /\ MaxBackoff \in Nat \ {0}

NoJob == [status |-> "NONE", attempts |-> 0, wait |-> 0]
Statuses == {"NONE", "PENDING", "RUNNING", "DONE", "DEAD"}

(* Slip: work that was done once is never done again (ON CONFLICT DO NOTHING). *)
ArmedOnce(row) == row.status = "NONE"

(* The identifier names the work, so a row that is DONE is armed again for  *)
(* new work of the same name; one that waits, runs or is dead is left.      *)
Armed(row) == row.status \in {"NONE", "DONE"}
Enqueue(jobs, ids) ==
    [id \in DOMAIN jobs |-> IF id \in ids /\ Armed(jobs[id])
                            THEN [status |-> "PENDING", attempts |-> 0, wait |-> 0]
                            ELSE jobs[id]]

(* Slip: a job is claimed without regard to who runs it. *)
DueOrRunning(row) == row.status \in {"PENDING", "RUNNING"} /\ row.wait = 0 /\ row.attempts < MaxAttempts

(* run_after is kept as the time that is left until then.  The queue hands  *)
(* out the earliest due job that no other claim has locked; any of those    *)
(* due may be that one.                                                     *)
Due(row) == row.status = "PENDING" /\ row.wait = 0 /\ row.attempts < MaxAttempts

Claim(jobs, id) == [jobs EXCEPT ![id].status = "RUNNING", ![id].attempts = @ + 1]

(* Neither of the two looks at the status the row has by now.  Nobody reads *)
(* the attempts of a row that is DONE or DEAD.                              *)
Complete(jobs, id) == [jobs EXCEPT ![id] = [NoJob EXCEPT !.status = "DONE"]]
Fail(jobs, id, decision) ==
    [jobs EXCEPT ![id] =
        IF decision.status = "DEAD" THEN [NoJob EXCEPT !.status = "DEAD"]
        ELSE [@ EXCEPT !.status = "PENDING", !.wait = decision.wait]]

Backoff(attempt) ==
    LET delay == BaseBackoff * 2 ^ (IF attempt > 1 THEN attempt - 1 ELSE 0)
    IN  IF delay < MaxBackoff THEN delay ELSE MaxBackoff


(* attempts counts those used, as the claim has counted this one already. *)
RetryDecision(attempts) ==
    IF attempts >= MaxAttempts THEN [status |-> "DEAD", wait |-> 0]
    ELSE [status |-> "PENDING", wait |-> Backoff(attempts)]

Waiting(jobs) == \E id \in DOMAIN jobs : jobs[id].wait > 0
Elapse(jobs) ==
    [id \in DOMAIN jobs |-> IF jobs[id].wait > 0 THEN [jobs[id] EXCEPT !.wait = @ - 1] ELSE jobs[id]]
=============================================================================
