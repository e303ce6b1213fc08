-------------------------- MODULE PublishingLedger --------------------------
(***************************************************************************)
(* What the publishing queue promises to the clients of the API, without   *)
(* workers, polls, locks or transactions: a job is posted only while it is *)
(* QUEUED; outcomes are recorded for a set of QUEUED jobs in one step;     *)
(* SUCCEEDED stands for a post that was made; attempts are counted up to   *)
(* the budget.  What it does not promise shows as well: a job may be       *)
(* posted and stay QUEUED (the record of the post is lost), it may be left *)
(* RUNNING, and a cancel may hit a job that has an outcome already.        *)
(***************************************************************************)
EXTENDS Naturals

CONSTANTS
  Jobs,         (* idempotency keys                                           *)
  MaxAttempts   (* PUBLISH_RETRY_MAX_ATTEMPTS                                 *)

VARIABLES
  row,          (* each job's committed state and attempts                    *)
  posts         (* posts on Instagram made for each job                       *)

vars == <<row, posts>>

Init ==
  /\ row = [j \in Jobs |-> [state |-> "ABSENT", attempts |-> 0]]
  /\ posts = [j \in Jobs |-> 0]

\* POST /publishing/jobs
Enqueue(j) ==
  /\ row[j].state = "ABSENT"
  /\ row' = [row EXCEPT ![j].state = "QUEUED"]
  /\ UNCHANGED posts

\* POST /publishing/jobs/{id}/cancel takes effect, perhaps late.
Cancel(j) ==
  /\ row[j].state # "ABSENT"
  /\ row' = [row EXCEPT ![j].state = "CANCELLED"]
  /\ UNCHANGED posts

\* A post is made on Instagram.
Post(j) ==
  /\ row[j].state = "QUEUED"
  /\ posts' = [posts EXCEPT ![j] = @ + 1]
  /\ UNCHANGED row

\* The versions that an execution may make of a QUEUED row r.
Outcomes(r) ==
  LET n == r.attempts + 1
  IN  {[state |-> s, attempts |-> r.attempts] : s \in {"QUEUED", "RUNNING", "FAILED"}}
        \cup {[state |-> "SUCCEEDED", attempts |-> n],
              [state |-> IF n = MaxAttempts THEN "DEAD" ELSE "QUEUED",
               attempts |-> n]}

\* Executions of the jobs in J end, and their outcomes are committed together.
Settle(J) ==
  /\ \A j \in J : row[j].state = "QUEUED"
  /\ \E out \in [J -> UNION {Outcomes(row[j]) : j \in J}] :
       /\ \A j \in J : /\ out[j] \in Outcomes(row[j])
                       /\ out[j].state = "SUCCEEDED" => posts[j] > 0
       /\ row' = [j \in Jobs |-> IF j \in J THEN out[j] ELSE row[j]]
  /\ UNCHANGED posts

Next ==
  \/ \E j \in Jobs : Enqueue(j) \/ Cancel(j) \/ Post(j)
  \/ \E J \in SUBSET Jobs : Settle(J)

Spec == Init /\ [][Next]_vars

=============================================================================
