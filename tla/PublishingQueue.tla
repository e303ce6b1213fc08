-------------------------- MODULE PublishingQueue --------------------------
(***************************************************************************)
(* The publishing queue: the API requests that enqueue and cancel jobs and *)
(* the Celery task process_due_jobs that claims due jobs, calls Instagram  *)
(* and records the outcome.                                                *)
(*                                                                         *)
(* One run of the task is one database transaction (worker/tasks.py,       *)
(* _run): whatever it writes becomes visible when the whole batch commits, *)
(* and is rolled back when the process dies, while a post made on          *)
(* Instagram stays.  The database is PostgreSQL at READ COMMITTED: a       *)
(* statement sees committed rows and the transaction's own writes; an      *)
(* UPDATE of a row that another open transaction has written waits for     *)
(* that transaction to end and then evaluates its WHERE on the new row.    *)
(*                                                                         *)
(* A job is identified with its idempotency key.  Times are abstracted to  *)
(* what the poll query tells apart: which jobs are due, and their order.   *)
(***************************************************************************)
EXTENDS Naturals, FiniteSets

CONSTANTS
  Jobs,           (* idempotency keys, hence the rows of publishing_jobs      *)
  Workers,        (* concurrent executions of process_due_jobs                *)
  Workspaces,     (* the tenants                                              *)
  WorkspaceOf,    (* the workspace_id of each job                             *)
  NoWorker,       (* the owner of a row nobody has locked                     *)
  NoJob,          (* the current job of a worker between two jobs             *)
  MaxAttempts,    (* PUBLISH_RETRY_MAX_ATTEMPTS                               *)
  ClaimLimit,     (* jobs claimed per workspace and poll (5)                  *)
  WorkspaceLimit, (* workspaces visited per poll (20)                         *)
  LostReplies,    (* whether Instagram may act on a call that it answers with *)
                  (* an error                                                 *)
  MaxCrashes,     (* bound: worker processes that die                         *)
  MaxPosts        (* bound: posts of one job on Instagram                     *)

ASSUME QueueAssumption ==
  /\ WorkspaceOf \in [Jobs -> Workspaces]
  /\ NoWorker \notin Workers
  /\ NoJob \notin Jobs
  /\ MaxAttempts \in Nat \ {0}
  /\ ClaimLimit \in Nat \ {0}
  /\ WorkspaceLimit \in Nat \ {0}
  /\ LostReplies \in BOOLEAN
  /\ MaxCrashes \in Nat
  /\ MaxPosts \in Nat

VARIABLES
  (* The committed database. *)
  row,        (* each job's committed state and attempts                      *)
  due,        (* QUEUED jobs whose scheduled_for has passed                   *)
  earlier,    (* pairs of due jobs in the order of scheduled_for              *)
  cleared,    (* jobs the approval gate lets through: requires_approval is    *)
              (* false, or the latest content_approvals row is APPROVED       *)
  (* Open transactions. *)
  lock,       (* the worker whose transaction has written the row             *)
  draft,      (* the row as that transaction sees it                          *)
  cancelling, (* cancel requests that have read QUEUED and not yet written    *)
  (* The worker processes. *)
  pc,         (* where the task stands                                        *)
  visit,      (* workspaces still to be visited by this run of the task       *)
  todo,       (* job ids selected by claim_next, not yet reached by its UPDATE*)
  batch,      (* claimed jobs that have not been processed                    *)
  current,    (* the job whose Instagram calls are in progress                *)
  (* Observations of the outside world, read by no action. *)
  posts,      (* posts on Instagram made for each job                         *)
  lost,       (* of these, the ones the database will never know of           *)
  crashes     (* worker processes that have died                              *)

dbVars     == <<row, due, earlier>>
workerVars == <<pc, visit, todo, batch, current>>
vars == <<row, due, earlier, cleared, lock, draft, cancelling,
          pc, visit, todo, batch, current, posts, lost, crashes>>

JobStates == {"ABSENT", "QUEUED", "RUNNING", "SUCCEEDED", "FAILED", "DEAD",
              "CANCELLED"}
Row == [state : JobStates, attempts : 0..MaxAttempts]
Phases == {"idle", "visiting", "claiming", "running", "publishing"}

TypeOK ==
  /\ row \in [Jobs -> Row]
  /\ due \in SUBSET Jobs
  /\ earlier \in SUBSET (Jobs \X Jobs)
  /\ cleared \in SUBSET Jobs
  /\ lock \in [Jobs -> Workers \cup {NoWorker}]
  /\ draft \in [Jobs -> Row]
  /\ cancelling \in SUBSET Jobs
  /\ pc \in [Workers -> Phases]
  /\ visit \in [Workers -> SUBSET Workspaces]
  /\ todo \in [Workers -> SUBSET Jobs]
  /\ batch \in [Workers -> SUBSET Jobs]
  /\ current \in [Workers -> Jobs \cup {NoJob}]
  /\ posts \in [Jobs -> Nat]
  /\ lost \in [Jobs -> Nat]
  /\ crashes \in Nat

Init ==
  /\ row = [j \in Jobs |-> [state |-> "ABSENT", attempts |-> 0]]
  /\ due = {}
  /\ earlier = {}
  /\ cleared \in SUBSET Jobs
  /\ lock = [j \in Jobs |-> NoWorker]
  /\ draft = row
  /\ cancelling = {}
  /\ pc = [w \in Workers |-> "idle"]
  /\ visit = [w \in Workers |-> {}]
  /\ todo = [w \in Workers |-> {}]
  /\ batch = [w \in Workers |-> {}]
  /\ current = [w \in Workers |-> NoJob]
  /\ posts = [j \in Jobs |-> 0]
  /\ lost = [j \in Jobs |-> 0]
  /\ crashes = 0

-----------------------------------------------------------------------------
(* The schedule. *)

\* The jobs that the poll query of claim_next finds in workspace ws.
DueIn(ws) == {j \in due : WorkspaceOf[j] = ws}

\* ORDER BY scheduled_for LIMIT ClaimLimit.
Candidates(ws) ==
  {j \in DueIn(ws) :
     Cardinality({k \in DueIn(ws) : <<k, j>> \in earlier}) < ClaimLimit}

DueWorkspaces == {WorkspaceOf[j] : j \in due}

\* The jobs in J leave the schedule: they are not QUEUED any more, or their
\* scheduled_for now lies in the future.
Unschedule(J) ==
  /\ due' = due \ J
  /\ earlier' = {p \in earlier : p[1] \notin J /\ p[2] \notin J}

\* Job j takes its place in the schedule behind the jobs in A.
ScheduleBehind(j, A) ==
  /\ due' = due \cup {j}
  /\ earlier' = earlier \cup (A \X {j}) \cup ({j} \X (due \ A))

-----------------------------------------------------------------------------
(* Requests to the API, each a short transaction. *)

\* A committed write of one row by a request: there is no other writer of it,
\* so the workers' view of the row follows.
WriteRow(j, r) ==
  /\ lock[j] = NoWorker
  /\ row' = [row EXCEPT ![j] = r]
  /\ draft' = [draft EXCEPT ![j] = r]

\* POST /publishing/jobs with a new key.  (With a known key the row exists and
\* is returned: nothing changes.)  scheduled_for defaults to now, and a client
\* may name any past or future time.
Enqueue(j) ==
  /\ row[j].state = "ABSENT"
  /\ WriteRow(j, [state |-> "QUEUED", attempts |-> 0])
  /\ \/ \E A \in SUBSET due :
          /\ \A i \in due, k \in A : <<i, k>> \in earlier => i \in A
          /\ ScheduleBehind(j, A)
     \/ UNCHANGED <<due, earlier>>
  /\ UNCHANGED <<cleared, lock, cancelling, workerVars, posts, lost, crashes>>

\* The clock passes the job's scheduled_for.
BecomeDue(j) ==
  /\ row[j].state = "QUEUED"
  /\ j \notin due
  /\ ScheduleBehind(j, due)
  /\ UNCHANGED <<row, cleared, lock, draft, cancelling, workerVars,
                 posts, lost, crashes>>

\* A reviewer decides, or the author submits again, which makes the latest
\* content_approvals row PENDING.
ReviewContent(j) ==
  /\ cleared' = IF j \in cleared THEN cleared \ {j} ELSE cleared \cup {j}
  /\ UNCHANGED <<dbVars, lock, draft, cancelling, workerVars,
                 posts, lost, crashes>>

\* POST /publishing/jobs/{id}/cancel reads the committed row...
CancelRead(j) ==
  /\ row[j].state = "QUEUED"
  /\ j \notin cancelling
  /\ cancelling' = cancelling \cup {j}
  /\ UNCHANGED <<dbVars, cleared, lock, draft, workerVars,
                 posts, lost, crashes>>

\* ...and then writes it: UPDATE ... SET state WHERE id, which waits for the
\* row's lock and does not look at the state again.
CancelWrite(j) ==
  /\ j \in cancelling
  /\ cancelling' = cancelling \ {j}
  /\ WriteRow(j, [row[j] EXCEPT !.state = "CANCELLED"])
  /\ Unschedule({j})
  /\ UNCHANGED <<cleared, lock, workerVars, posts, lost, crashes>>

-----------------------------------------------------------------------------
(* process_due_jobs: finding and claiming work. *)

\* The task starts: SELECT DISTINCT workspace_id ... LIMIT, in no order.
Poll(w) ==
  /\ pc[w] = "idle"
  /\ due # {}
  /\ \E V \in SUBSET DueWorkspaces :
       /\ \/ V = DueWorkspaces /\ Cardinality(V) <= WorkspaceLimit
          \/ Cardinality(V) = WorkspaceLimit
       /\ visit' = [visit EXCEPT ![w] = V]
  /\ pc' = [pc EXCEPT ![w] = "visiting"]
  /\ UNCHANGED <<dbVars, cleared, lock, draft, cancelling, todo, batch,
                 current, posts, lost, crashes>>

\* claim_next, first statement: select the oldest due jobs of a workspace.
SelectJobs(w) ==
  /\ pc[w] = "visiting"
  /\ \E ws \in visit[w] :
       /\ visit' = [visit EXCEPT ![w] = @ \ {ws}]
       /\ todo' = [todo EXCEPT ![w] = Candidates(ws)]
       /\ pc' = [pc EXCEPT ![w] = IF Candidates(ws) = {} THEN @ ELSE "claiming"]
  /\ UNCHANGED <<dbVars, cleared, lock, draft, cancelling, batch, current,
                 posts, lost, crashes>>

\* Mutant of Claim: rows are reached without waiting for their lock.
ClaimWithoutLock(w, j) ==
  /\ pc[w] = "claiming"
  /\ j \in todo[w]
  /\ todo' = [todo EXCEPT ![w] = @ \ {j}]
  /\ \/ /\ row[j].state = "QUEUED"
        /\ lock' = [lock EXCEPT ![j] = w]
        /\ draft' = [draft EXCEPT ![j].state = "RUNNING"]
        /\ batch' = [batch EXCEPT ![w] = @ \cup {j}]
     \/ /\ row[j].state # "QUEUED"
        /\ UNCHANGED <<lock, draft, batch>>
  /\ UNCHANGED <<dbVars, cleared, cancelling, pc, visit, current,
                 posts, lost, crashes>>

\* Mutant of Claim: the UPDATE does not repeat the condition on the state.
ClaimUnchecked(w, j) ==
  /\ pc[w] = "claiming"
  /\ j \in todo[w]
  /\ lock[j] = NoWorker
  /\ todo' = [todo EXCEPT ![w] = @ \ {j}]
  /\ lock' = [lock EXCEPT ![j] = w]
  /\ draft' = [draft EXCEPT ![j].state = "RUNNING"]
  /\ batch' = [batch EXCEPT ![w] = @ \cup {j}]
  /\ UNCHANGED <<dbVars, cleared, cancelling, pc, visit, current,
                 posts, lost, crashes>>

\* claim_next, second statement: UPDATE ... WHERE id IN (...) AND
\* state = 'QUEUED' reaches the rows one after another and waits for a row
\* that another task has written.  scheduled_for is not looked at again.
Claim(w, j) ==
  /\ pc[w] = "claiming"
  /\ j \in todo[w]
  /\ lock[j] = NoWorker
  /\ todo' = [todo EXCEPT ![w] = @ \ {j}]
  /\ \/ /\ row[j].state = "QUEUED"
        /\ lock' = [lock EXCEPT ![j] = w]
        /\ draft' = [draft EXCEPT ![j].state = "RUNNING"]
        /\ batch' = [batch EXCEPT ![w] = @ \cup {j}]
     \/ /\ row[j].state # "QUEUED"
        /\ UNCHANGED <<lock, draft, batch>>
  /\ UNCHANGED <<dbVars, cleared, cancelling, pc, visit, current,
                 posts, lost, crashes>>

\* The UPDATE has reached every selected row.
ClaimDone(w) ==
  /\ pc[w] = "claiming"
  /\ todo[w] = {}
  /\ pc' = [pc EXCEPT ![w] = "running"]
  /\ UNCHANGED <<dbVars, cleared, lock, draft, cancelling, visit, todo, batch,
                 current, posts, lost, crashes>>

-----------------------------------------------------------------------------
(* process_job: one claimed job. *)

\* Worker w is through with job j, whose row it leaves as r.
Leave(w, j, r) ==
  /\ draft' = [draft EXCEPT ![j] = r]
  /\ pc' = [pc EXCEPT ![w] = "running"]
  /\ batch' = [batch EXCEPT ![w] = @ \ {j}]
  /\ current' = [current EXCEPT ![w] = NoJob]
  /\ UNCHANGED <<dbVars, cleared, lock, cancelling, visit, todo, crashes>>

\* The approval gate is closed: back to QUEUED, scheduled_for unchanged.
AwaitApproval(w, j) ==
  /\ pc[w] = "running"
  /\ j \in batch[w] \ cleared
  /\ Leave(w, j, [draft[j] EXCEPT !.state = "QUEUED"])
  /\ UNCHANGED <<posts, lost>>

\* Mutant of FailPreflight: the job goes back to the queue.
FailPreflightRequeued(w, j) ==
  /\ pc[w] = "running"
  /\ j \in batch[w]
  /\ Leave(w, j, [draft[j] EXCEPT !.state = "QUEUED"])
  /\ UNCHANGED <<posts, lost>>

\* The content or account is gone, the daily quota is used up, validation
\* fails or there is no usable token: an exception outside the try statement,
\* swallowed by the batch loop.  The row stays RUNNING.
FailPreflight(w, j) ==
  /\ pc[w] = "running"
  /\ j \in batch[w]
  /\ Leave(w, j, draft[j])
  /\ UNCHANGED <<posts, lost>>

\* All checks passed: the Instagram calls begin.
StartPublish(w, j) ==
  /\ pc[w] = "running"
  /\ j \in batch[w] \cap cleared
  /\ posts[j] < MaxPosts
  /\ pc' = [pc EXCEPT ![w] = "publishing"]
  /\ batch' = [batch EXCEPT ![w] = @ \ {j}]
  /\ current' = [current EXCEPT ![w] = j]
  /\ UNCHANGED <<dbVars, cleared, lock, draft, cancelling, visit, todo,
                 posts, lost, crashes>>

\* A post of job j is made and its id does not reach the job.
PostUnreported(j) ==
  /\ posts' = [posts EXCEPT ![j] = @ + 1]
  /\ lost' = [lost EXCEPT ![j] = @ + 1]

\* What Instagram did about a call that it answered with an error: nothing, or
\* it made the post all the same.
Unanswered(j) ==
  \/ UNCHANGED <<posts, lost>>
  \/ LostReplies /\ PostUnreported(j)

\* Mutant of PublishSucceeds: a failed look-up of the permalink, after the post
\* is made, is taken for a failed publish and retried.
PublishSucceedsRetried(w, j) ==
  /\ pc[w] = "publishing"
  /\ j = current[w]
  /\ posts' = [posts EXCEPT ![j] = @ + 1]
  /\ LET n == draft[j].attempts + 1
     IN  Leave(w, j, [state |-> IF n >= MaxAttempts THEN "DEAD" ELSE "QUEUED",
                      attempts |-> n])
  /\ UNCHANGED lost

\* The post is made and its id received.  (That the look-up of the permalink is
\* answered with an error changes nothing.)
PublishSucceeds(w, j) ==
  /\ pc[w] = "publishing"
  /\ j = current[w]
  /\ posts' = [posts EXCEPT ![j] = @ + 1]
  /\ Leave(w, j, [state |-> "SUCCEEDED", attempts |-> draft[j].attempts + 1])
  /\ UNCHANGED lost

\* Mutant of PublishIsRetried: one attempt too many.
PublishIsRetriedOnceMore(w, j) ==
  /\ pc[w] = "publishing"
  /\ j = current[w]
  /\ LET n == draft[j].attempts + 1
     IN  Leave(w, j, [state |-> IF n > MaxAttempts THEN "DEAD" ELSE "QUEUED",
                      attempts |-> n])
  /\ Unanswered(j)

\* Mutant of PublishIsRetried: the batch tries again at once and does not count.
PublishIsRetriedInPlace(w, j) ==
  /\ pc[w] = "publishing"
  /\ j = current[w]
  /\ pc' = [pc EXCEPT ![w] = "running"]
  /\ batch' = [batch EXCEPT ![w] = @ \cup {j}]
  /\ current' = [current EXCEPT ![w] = NoJob]
  /\ UNCHANGED <<dbVars, draft, cleared, lock, cancelling, visit, todo, crashes>>
  /\ Unanswered(j)

\* A transient Meta error: _schedule_retry, or _mark_dead at the last attempt.
PublishIsRetried(w, j) ==
  /\ pc[w] = "publishing"
  /\ j = current[w]
  /\ LET n == draft[j].attempts + 1
     IN  Leave(w, j, [state |-> IF n >= MaxAttempts THEN "DEAD" ELSE "QUEUED",
                      attempts |-> n])
  /\ Unanswered(j)

\* A permanent Meta error, or a validation error while publishing: _fail.
PublishFails(w, j) ==
  /\ pc[w] = "publishing"
  /\ j = current[w]
  /\ Leave(w, j, [draft[j] EXCEPT !.state = "FAILED"])
  /\ Unanswered(j)

\* Any other exception (a network timeout, the soft time limit, an answer
\* without an id): no handler, the row stays RUNNING.  The exception may come
\* after the post is made, from a time-out of the look-up of the permalink.
PublishIsInterrupted(w, j) ==
  /\ pc[w] = "publishing"
  /\ j = current[w]
  /\ Leave(w, j, draft[j])
  /\ UNCHANGED <<posts, lost>> \/ PostUnreported(j)

\* The batch of this workspace is processed.
BatchDone(w) ==
  /\ pc[w] = "running"
  /\ batch[w] = {}
  /\ pc' = [pc EXCEPT ![w] = "visiting"]
  /\ UNCHANGED <<dbVars, cleared, lock, draft, cancelling, visit, todo, batch,
                 current, posts, lost, crashes>>

-----------------------------------------------------------------------------
(* The end of the task's transaction. *)

Locked(w) == {j \in Jobs : lock[j] = w}

\* Jobs of the transaction that a later poll finds again where they were: sent
\* back by the approval gate.  A retry moves scheduled_for into the future.
KeepsPlace(j) == draft[j].state = "QUEUED" /\ draft[j].attempts = row[j].attempts

EndTransaction(w) ==
  /\ lock' = [j \in Jobs |-> IF lock[j] = w THEN NoWorker ELSE lock[j]]
  /\ pc' = [pc EXCEPT ![w] = "idle"]
  /\ visit' = [visit EXCEPT ![w] = {}]
  /\ todo' = [todo EXCEPT ![w] = {}]
  /\ batch' = [batch EXCEPT ![w] = {}]
  /\ current' = [current EXCEPT ![w] = NoJob]
  /\ UNCHANGED <<cleared, cancelling>>

Commit(w) ==
  /\ pc[w] = "visiting"
  /\ visit[w] = {}
  /\ row' = [j \in Jobs |-> IF lock[j] = w THEN draft[j] ELSE row[j]]
  /\ Unschedule({j \in Locked(w) : ~KeepsPlace(j)})
  /\ EndTransaction(w)
  /\ UNCHANGED <<draft, posts, lost, crashes>>

\* Everything the task wrote is undone.  A post it had recorded is forgotten,
\* and so is one that Instagram makes for the call in flight (made).
Rollback(w, made) ==
  /\ draft' = [j \in Jobs |-> IF lock[j] = w THEN row[j] ELSE draft[j]]
  /\ posts' = [j \in Jobs |-> IF j \in made THEN posts[j] + 1 ELSE posts[j]]
  /\ lost' = [j \in Jobs |->
       IF j \in made \/ (lock[j] = w /\ draft[j].state = "SUCCEEDED")
       THEN lost[j] + 1 ELSE lost[j]]
  /\ EndTransaction(w)
  /\ UNCHANGED dbVars

\* The worker process is killed, or its session breaks, before the commit.
Crash(w) ==
  /\ pc[w] # "idle"
  /\ crashes < MaxCrashes
  /\ crashes' = crashes + 1
  /\ \E made \in SUBSET ({current[w]} \ {NoJob}) : Rollback(w, made)

\* Worker w has reached a row that worker v has written, and waits.
WaitsFor(w, v) ==
  /\ pc[w] = "claiming"
  /\ \E j \in todo[w] : lock[j] = v

\* Tasks wait for each other in a circle: PostgreSQL ends one of them with an
\* error, which nothing in the task handles.
DeadlockVictim(w) ==
  /\ \E C \in SUBSET Workers :
       /\ w \in C
       /\ \A u \in C : \E v \in C : WaitsFor(u, v)
  /\ Rollback(w, {})
  /\ UNCHANGED crashes

-----------------------------------------------------------------------------
ProcessJob(w) ==
  \E j \in Jobs :
    \/ AwaitApproval(w, j)
    \/ FailPreflight(w, j)
    \/ StartPublish(w, j)
    \/ PublishSucceeds(w, j)
    \/ PublishIsRetried(w, j)
    \/ PublishFails(w, j)
    \/ PublishIsInterrupted(w, j)

WorkerStep(w) ==
  \/ Poll(w)
  \/ SelectJobs(w)
  \/ \E j \in Jobs : Claim(w, j)
  \/ ClaimDone(w)
  \/ ProcessJob(w)
  \/ BatchDone(w)
  \/ Commit(w)
  \/ DeadlockVictim(w)

Request(j) ==
  \/ Enqueue(j)
  \/ ReviewContent(j)
  \/ CancelRead(j)
  \/ CancelWrite(j)

Next ==
  \/ \E w \in Workers : WorkerStep(w) \/ Crash(w)
  \/ \E j \in Jobs : Request(j) \/ BecomeDue(j)

Spec == Init /\ [][Next]_vars

(***************************************************************************)
(* Celery beat starts process_due_jobs every minute for ever, a running    *)
(* task goes on unless it waits for a row lock, PostgreSQL resolves a      *)
(* circle of waits, and time passes.  A row lock that is released goes to  *)
(* a transaction that waits for it before one that asks later, hence the   *)
(* strong fairness of Claim.  Nothing forces a request to be made, a       *)
(* reviewer to decide, or a worker to crash.                               *)
(***************************************************************************)
Fairness ==
  /\ \A w \in Workers :
       /\ WF_vars(WorkerStep(w))
       /\ \A j \in Jobs : SF_vars(Claim(w, j))
  /\ \A j \in Jobs : WF_vars(BecomeDue(j))

FairSpec == Spec /\ Fairness

-----------------------------------------------------------------------------
(* Safety. *)

\* The jobs that worker w will still touch in its transaction.
InHand(w) == batch[w] \cup ({current[w]} \ {NoJob})

\* Single execution (service.py, "Guarantees"): at no time do two workers have
\* the same job claimed or in publication, whatever the interleaving of their
\* polls, their waits for row locks, retries, cancels and crashes.
SingleExecution ==
  \A v, w \in Workers : v # w => InHand(v) \cap InHand(w) = {}

\* A worker publishes only a job that is committed as QUEUED: no job that was
\* already published, failed for good or cancelled is taken up again, even by
\* a worker that selected it before.
PublishesQueuedOnly ==
  \A w \in Workers : \A j \in InHand(w) : row[j].state = "QUEUED"

\* The record is honest about Instagram: a job recorded as SUCCEEDED has one
\* post beyond those whose report was lost, and a job recorded in any state
\* that may still lead to a publish has none.  Hence no job is ever posted a
\* second time unless a report of the first post was lost.
HonestRecord ==
  \A j \in Jobs :
    /\ draft[j].state = "SUCCEEDED" => posts[j] = lost[j] + 1
    /\ draft[j].state \in {"ABSENT", "QUEUED", "RUNNING", "FAILED", "DEAD"}
         => posts[j] = lost[j]
    /\ posts[j] <= lost[j] + 1

\* The retry budget: a job that may run again has attempts left, a DEAD one
\* has used all of them, and neither a crash nor a stale claim exceeds it.
AttemptBudget ==
  \A j \in Jobs :
    /\ row[j].state \in {"QUEUED", "RUNNING"} => row[j].attempts < MaxAttempts
    /\ row[j].state = "DEAD" => row[j].attempts = MaxAttempts

\* A committed outcome is final, except that a cancel request that read the
\* job while it was QUEUED may still overwrite it; a job committed as RUNNING
\* never leaves that state; attempts never decrease.
OutcomesAreFinal ==
  [][\A j \in Jobs :
       /\ row[j].state \in {"SUCCEEDED", "FAILED", "DEAD", "RUNNING"} =>
            \/ row'[j].state = row[j].state
            \/ j \in cancelling /\ row'[j].state = "CANCELLED"
       /\ row[j].state = "CANCELLED" => row'[j].state = "CANCELLED"
       /\ row[j].attempts <= row'[j].attempts]_vars

\* "A retried HTTP request or a duplicate Celery delivery cannot publish twice"
\* (models.py): no job is posted a second time.  A worker that dies between the
\* post and the commit of its batch leaves the job QUEUED.
PostedOnce == \A j \in Jobs : posts[j] <= 1

\* "CANCELLED (only while QUEUED)" (architecture.md): a job that becomes
\* CANCELLED was QUEUED up to then.  cancel reads the state in one statement
\* and writes it in another, without looking again.
CancelledOnlyWhileQueued ==
  [][\A j \in Jobs :
       row'[j].state = "CANCELLED" =>
         row[j].state \in {"QUEUED", "CANCELLED"}]_vars

-----------------------------------------------------------------------------
(* The queue implements what it promises to the clients of the API, who see   *)
(* committed rows and posts on Instagram only.                                *)

Ledger == INSTANCE PublishingLedger WITH Jobs <- Jobs, MaxAttempts <- MaxAttempts,
                                        row <- row, posts <- posts

\* Every behaviour of requests, workers, row locks, transactions and crashes
\* looks from outside like atomic executions of sets of QUEUED jobs: posts are
\* made only for jobs that are committed as QUEUED, and each commit gives each
\* job of the batch one of the outcomes that its committed version allows.
ImplementsLedger == Ledger!Spec

-----------------------------------------------------------------------------
(* Liveness. *)

Colleagues(j) == {k \in Jobs \ {j} : WorkspaceOf[k] = WorkspaceOf[j]}

\* A job that stays approved is taken up: it leaves QUEUED for good, through
\* retries and crashes of workers, as long as fewer than ClaimLimit jobs of
\* its workspace (the set H) are sent back for lack of an approval for ever:
\* these keep their place at the head of the schedule, and ClaimLimit of them
\* would fill every poll.
ApprovedJobsAreTakenUp ==
  \A j \in Jobs :
    \A H \in {H \in SUBSET Colleagues(j) : Cardinality(H) < ClaimLimit} :
      <>[]({j} \cup (Colleagues(j) \ H) \subseteq cleared)
        => (row[j].state = "QUEUED" ~> row[j].state # "QUEUED")

\* A poll always comes to an end: a task that waits for rows written by another
\* one is released by that task's commit, its crash, or the resolution of a
\* circle of waits.
PollsEnd == \A w \in Workers : pc[w] # "idle" ~> pc[w] = "idle"

\* The state machine of service.py and architecture.md leads from RUNNING to
\* SUCCEEDED, QUEUED, FAILED or DEAD: a job that is RUNNING gets an outcome.
\* A check that fails before the Instagram calls, or an exception that is not a
\* Meta error, leaves it RUNNING for good: nothing reads the lease.
RunningJobsGetAnOutcome ==
  \A j \in Jobs : row[j].state = "RUNNING" ~> row[j].state # "RUNNING"

=============================================================================
