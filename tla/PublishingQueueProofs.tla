----------------------- MODULE PublishingQueueProofs -----------------------
(***************************************************************************)
(* Type correctness and the safety properties of PublishingQueue, for any  *)
(* number of jobs, workers and workspaces, any retry budget, and whether   *)
(* or not Instagram acts on calls that it answers with an error.           *)
(*                                                                         *)
(* None of the properties is inductive.  The argument is that a worker has *)
(* a job in hand only while its transaction holds the row's lock and sees  *)
(* the row as RUNNING (Owned), that rows nobody has locked look the same   *)
(* in every transaction (Shared), and that a locked row is committed as    *)
(* QUEUED and holds, in the transaction that owns it, one of the states    *)
(* that process_job writes (Pending).                                      *)
(***************************************************************************)
EXTENDS PublishingQueue, TLAPS

Owned ==
  \A w \in Workers :
    /\ \A j \in InHand(w) : lock[j] = w /\ draft[j].state = "RUNNING"
    /\ current[w] \notin batch[w]
    /\ current[w] # NoJob <=> pc[w] = "publishing"

Shared == \A j \in Jobs : lock[j] = NoWorker => draft[j] = row[j]

\* The attempts of a version r of a row that an execution makes of a version
\* with a attempts.
Counted(r, a) ==
  /\ r.state \in {"RUNNING", "FAILED"} => r.attempts = a
  /\ r.state \in {"SUCCEEDED", "DEAD"} => r.attempts = a + 1
  /\ r.state = "QUEUED" => r.attempts \in {a, a + 1}

Pending ==
  \A j \in Jobs : lock[j] # NoWorker =>
    /\ row[j].state = "QUEUED"
    /\ draft[j].state \in {"QUEUED", "RUNNING", "SUCCEEDED", "FAILED", "DEAD"}
    /\ Counted(draft[j], row[j].attempts)

\* The retry budget of one version of a row.
Budget(r) ==
  /\ r.state = "ABSENT" => r.attempts = 0
  /\ r.state \in {"QUEUED", "RUNNING"} => r.attempts < MaxAttempts
  /\ r.state = "DEAD" => r.attempts = MaxAttempts

Budgets == \A j \in Jobs : Budget(row[j]) /\ Budget(draft[j])

\* One version of a row agrees with what Instagram has done.
Honest(r, p, l) ==
  /\ r.state = "SUCCEEDED" => p = l + 1
  /\ r.state \in {"ABSENT", "QUEUED", "RUNNING", "FAILED", "DEAD"} => p = l
  /\ p <= l + 1

IInv ==
  /\ TypeOK
  /\ Owned
  /\ Shared
  /\ Pending
  /\ Budgets
  /\ HonestRecord

-----------------------------------------------------------------------------
(* Type correctness of a step. *)

USE DEF Row, JobStates, Phases

LEMMA TypeRequest ==
  ASSUME TypeOK, NEW j \in Jobs, Request(j) \/ BecomeDue(j)
  PROVE  TypeOK'
<1>1. CASE Enqueue(j)
  <2>1. [state |-> "QUEUED", attempts |-> 0] \in Row
    BY QueueAssumption
  <2>2. due' \in SUBSET Jobs /\ earlier' \in SUBSET (Jobs \X Jobs)
    BY <1>1 DEF Enqueue, ScheduleBehind, TypeOK
  <2> QED  BY <1>1, <2>1, <2>2 DEF Enqueue, WriteRow, workerVars, TypeOK
<1>2. CASE ReviewContent(j)
  BY <1>2 DEF ReviewContent, dbVars, workerVars, TypeOK
<1>3. CASE CancelRead(j)
  BY <1>3 DEF CancelRead, dbVars, workerVars, TypeOK
<1>4. CASE CancelWrite(j)
  BY <1>4 DEF CancelWrite, WriteRow, Unschedule, workerVars, TypeOK
<1>5. CASE BecomeDue(j)
  BY <1>5 DEF BecomeDue, ScheduleBehind, workerVars, TypeOK
<1> QED  BY <1>1, <1>2, <1>3, <1>4, <1>5 DEF Request

LEMMA TypeClaiming ==
  ASSUME TypeOK, NEW w \in Workers,
         \/ Poll(w)
         \/ SelectJobs(w)
         \/ \E j \in Jobs : Claim(w, j)
         \/ ClaimDone(w)
         \/ BatchDone(w)
  PROVE  TypeOK'
<1>1. CASE Poll(w)
  <2>1. DueWorkspaces \subseteq Workspaces
    BY QueueAssumption DEF DueWorkspaces, TypeOK
  <2> QED  BY <1>1, <2>1 DEF Poll, dbVars, TypeOK
<1>2. CASE SelectJobs(w)
  <2>1. \A ws \in visit[w] : Candidates(ws) \subseteq Jobs
    BY DEF Candidates, DueIn, TypeOK
  <2> QED  BY <1>2, <2>1 DEF SelectJobs, dbVars, TypeOK
<1>3. CASE \E j \in Jobs : Claim(w, j)
  <2>1. PICK j \in Jobs : Claim(w, j)
    BY <1>3
  <2>2. [draft EXCEPT ![j].state = "RUNNING"] \in [Jobs -> Row]
    <3>1. [draft[j] EXCEPT !.state = "RUNNING"] \in Row
      BY DEF TypeOK
    <3> QED  BY <3>1 DEF TypeOK
  <2>3. \/ /\ draft' = [draft EXCEPT ![j].state = "RUNNING"]
           /\ lock' = [lock EXCEPT ![j] = w]
           /\ batch' = [batch EXCEPT ![w] = @ \cup {j}]
        \/ UNCHANGED <<draft, lock, batch>>
    BY <2>1 DEF Claim
  <2>4. /\ draft' \in [Jobs -> Row]
        /\ lock' \in [Jobs -> Workers \cup {NoWorker}]
        /\ batch' \in [Workers -> SUBSET Jobs]
    <3>1. CASE UNCHANGED <<draft, lock, batch>>
      BY <3>1 DEF TypeOK
    <3>2. CASE /\ draft' = [draft EXCEPT ![j].state = "RUNNING"]
               /\ lock' = [lock EXCEPT ![j] = w]
               /\ batch' = [batch EXCEPT ![w] = @ \cup {j}]
      <4>1. lock' \in [Jobs -> Workers \cup {NoWorker}]
        BY <3>2 DEF TypeOK
      <4>2. batch' \in [Workers -> SUBSET Jobs]
        BY <3>2 DEF TypeOK
      <4> QED  BY <2>2, <3>2, <4>1, <4>2
    <3> QED  BY <2>3, <3>1, <3>2
  <2>5. /\ todo' = [todo EXCEPT ![w] = @ \ {j}]
        /\ UNCHANGED <<row, due, earlier, cleared, cancelling, pc, visit,
                       current, posts, lost, crashes>>
    BY <2>1 DEF Claim, dbVars
  <2> QED  BY <2>4, <2>5 DEF TypeOK
<1>4. CASE ClaimDone(w)
  BY <1>4 DEF ClaimDone, dbVars, TypeOK
<1>5. CASE BatchDone(w)
  BY <1>5 DEF BatchDone, dbVars, TypeOK
<1> QED  BY <1>1, <1>2, <1>3, <1>4, <1>5

LEMMA TypeLeave ==
  ASSUME TypeOK, NEW w \in Workers, NEW j \in Jobs, NEW r \in Row,
         Leave(w, j, r), posts' \in [Jobs -> Nat], lost' \in [Jobs -> Nat]
  PROVE  TypeOK'
BY DEF Leave, dbVars, TypeOK

LEMMA TypeRollback ==
  ASSUME TypeOK, NEW w \in Workers, NEW made, Rollback(w, made),
         crashes' \in Nat
  PROVE  TypeOK'
BY DEF Rollback, EndTransaction, dbVars, TypeOK

LEMMA TypeCommit ==
  ASSUME TypeOK, NEW w \in Workers, Commit(w)
  PROVE  TypeOK'
BY DEF Commit, EndTransaction, Unschedule, TypeOK

-----------------------------------------------------------------------------
(* The invariant. *)

LEMMA InitEstablishes == Init => IInv
BY QueueAssumption
   DEF Init, IInv, TypeOK, Owned, InHand, Shared, Pending, Budgets, Budget,
       HonestRecord, Counted

\* A step that leaves every row, lock, batch and publication alone.
LEMMA Quiet ==
  ASSUME IInv, TypeOK',
         UNCHANGED <<row, draft, lock, batch, current, posts, lost>>,
         \A w \in Workers : pc'[w] = "publishing" <=> pc[w] = "publishing"
  PROVE  IInv'
<1>1. Owned'
  BY DEF IInv, Owned, InHand
<1>2. Shared' /\ Pending' /\ Budgets' /\ HonestRecord'
  BY DEF IInv, Shared, Pending, Counted, Budgets, Budget, HonestRecord
<1> QED  BY <1>1, <1>2 DEF IInv

\* A request that writes one row, which no worker has locked.
LEMMA Written ==
  ASSUME IInv, TypeOK', NEW j \in Jobs, NEW r \in Row, WriteRow(j, r),
         Budget(r),
         r.state \in {"QUEUED", "CANCELLED"},
         r.state = "QUEUED" => draft[j].state = "ABSENT",
         UNCHANGED <<lock, pc, batch, current, posts, lost>>
  PROVE  IInv'
<1>1. \A w \in Workers : j \notin InHand(w)
  BY QueueAssumption DEF IInv, Owned, WriteRow
<1>2. Owned'
  BY <1>1 DEF IInv, TypeOK, Owned, InHand, WriteRow
<1>3. Shared' /\ Pending'
  BY DEF IInv, TypeOK, Shared, Pending, Counted, WriteRow
<1>4. Budgets'
  BY DEF IInv, TypeOK, Budgets, Budget, WriteRow
<1>5. HonestRecord'
  BY DEF IInv, TypeOK, HonestRecord, WriteRow
<1> QED  BY <1>2, <1>3, <1>4, <1>5 DEF IInv

LEMMA RequestKeeps ==
  ASSUME IInv, NEW j \in Jobs, Request(j) \/ BecomeDue(j)
  PROVE  IInv'
<1> TypeOK'
  BY TypeRequest DEF IInv
<1>1. CASE Enqueue(j)
  <2> DEFINE r == [state |-> "QUEUED", attempts |-> 0]
  <2>1. r \in Row /\ Budget(r)
    BY QueueAssumption DEF Budget
  <2>2. draft[j].state = "ABSENT"
    BY <1>1 DEF Enqueue, WriteRow, IInv, Shared
  <2> QED  BY <1>1, <2>1, <2>2, Written DEF Enqueue, workerVars
<1>2. CASE CancelWrite(j)
  <2> DEFINE r == [row[j] EXCEPT !.state = "CANCELLED"]
  <2>1. row[j] \in Row
    BY DEF IInv, TypeOK
  <2>2. r \in Row /\ r.state = "CANCELLED"
    BY <2>1
  <2>3. Budget(r)
    BY <2>2 DEF Budget
  <2>4. WriteRow(j, r) /\ UNCHANGED <<lock, pc, batch, current, posts, lost>>
    BY <1>2 DEF CancelWrite, workerVars
  <2> HIDE DEF r
  <2> QED  BY <2>2, <2>3, <2>4, Written
<1>3. CASE ReviewContent(j) \/ CancelRead(j) \/ BecomeDue(j)
  BY <1>3, Quiet DEF ReviewContent, CancelRead, BecomeDue, dbVars, workerVars
<1> QED  BY <1>1, <1>2, <1>3 DEF Request

LEMMA ClaimKeeps ==
  ASSUME IInv, NEW w \in Workers, NEW j \in Jobs, Claim(w, j)
  PROVE  IInv'
<1> TypeOK'
  BY TypeClaiming DEF IInv
<1>1. CASE row[j].state # "QUEUED"
  <2>1. UNCHANGED <<row, draft, lock, batch, current, posts, lost, pc>>
    BY <1>1 DEF Claim, dbVars
  <2> QED  BY <2>1, Quiet
<1>2. CASE row[j].state = "QUEUED"
  <2>1. /\ lock[j] = NoWorker
        /\ lock' = [lock EXCEPT ![j] = w]
        /\ draft' = [draft EXCEPT ![j].state = "RUNNING"]
        /\ batch' = [batch EXCEPT ![w] = @ \cup {j}]
        /\ UNCHANGED <<row, pc, current, posts, lost>>
    BY <1>2 DEF Claim, dbVars
  <2>2. draft[j] = row[j]
    BY <2>1 DEF IInv, Shared
  <2>3. \A v \in Workers : j \notin InHand(v)
    BY <2>1, QueueAssumption DEF IInv, Owned
  <2>4. \A k \in Jobs \ {j} : draft'[k] = draft[k] /\ lock'[k] = lock[k]
    BY <2>1 DEF IInv, TypeOK
  <2>5. /\ draft'[j].state = "RUNNING"
        /\ draft'[j].attempts = row[j].attempts
        /\ lock'[j] = w
    <3>1. draft[j] \in Row
      BY DEF IInv, TypeOK
    <3>2. draft'[j] = [draft[j] EXCEPT !.state = "RUNNING"]
      BY <2>1 DEF IInv, TypeOK
    <3> QED  BY <2>1, <2>2, <3>1, <3>2 DEF IInv, TypeOK
  <2>6. Owned'
    <3>1. \A v \in Workers :
            /\ InHand(v)' \subseteq InHand(v) \cup {j}
            /\ v # w => InHand(v)' = InHand(v)
      BY <2>1 DEF IInv, TypeOK, InHand
    <3>2. \A v \in Workers : \A k \in InHand(v)' :
            lock'[k] = v /\ draft'[k].state = "RUNNING"
      <4> SUFFICES ASSUME NEW v \in Workers, NEW k \in InHand(v)'
                   PROVE  lock'[k] = v /\ draft'[k].state = "RUNNING"
        OBVIOUS
      <4>1. k \in Jobs
        BY <2>1 DEF IInv, TypeOK, InHand
      <4>2. CASE k = j
        BY <4>2, <2>3, <2>5, <3>1
      <4>3. CASE k # j
        BY <4>1, <4>3, <2>4, <3>1 DEF IInv, Owned
      <4> QED  BY <4>2, <4>3
    <3>3. \A v \in Workers : current'[v] \notin batch'[v]
      BY <2>1, <2>3, QueueAssumption DEF IInv, TypeOK, Owned, InHand
    <3> QED  BY <2>1, <3>2, <3>3 DEF IInv, Owned
  <2>7. Shared'
    BY <2>1, <2>4, <2>5, QueueAssumption DEF IInv, Shared
  <2>8. Pending'
    <3>1. row[j].attempts \in Nat
      BY QueueAssumption DEF IInv, TypeOK
    <3> QED  BY <1>2, <2>1, <2>4, <2>5, <3>1 DEF IInv, Pending, Counted
  <2>9. Budgets'
    BY <1>2, <2>1, <2>4, <2>5 DEF IInv, Budgets, Budget
  <2>10. HonestRecord'
    BY <1>2, <2>1, <2>2, <2>4, <2>5 DEF IInv, HonestRecord
  <2> QED  BY <2>6, <2>7, <2>8, <2>9, <2>10 DEF IInv
<1> QED  BY <1>1, <1>2

\* A worker leaves a job that it has in hand: the facts of the other jobs stay,
\* and those of this job are the caller's business.
LEMMA LeaveKeeps ==
  ASSUME IInv, NEW w \in Workers, NEW j \in InHand(w), NEW r \in Row,
         Leave(w, j, r), pc[w] = "running" \/ current[w] = j,
         Counted(r, draft[j].attempts),
         r.state \in {"QUEUED", "RUNNING", "SUCCEEDED", "FAILED", "DEAD"},
         Budget(r),
         posts' \in [Jobs -> Nat], lost' \in [Jobs -> Nat],
         \A k \in Jobs \ {j} : posts'[k] = posts[k] /\ lost'[k] = lost[k],
         Honest(r, posts'[j], lost'[j])
  PROVE  IInv'
<1> j \in Jobs
  BY DEF IInv, TypeOK, InHand
<1> TypeOK'
  BY TypeLeave DEF IInv
<1>1. /\ draft' = [draft EXCEPT ![j] = r]
      /\ pc' = [pc EXCEPT ![w] = "running"]
      /\ batch' = [batch EXCEPT ![w] = @ \ {j}]
      /\ current' = [current EXCEPT ![w] = NoJob]
      /\ UNCHANGED <<row, lock>>
  BY DEF Leave, dbVars
<1>2. /\ draft'[j] = r
      /\ \A k \in Jobs \ {j} : draft'[k] = draft[k]
  BY <1>1 DEF IInv, TypeOK
<1>3. lock[j] = w /\ w # NoWorker
  BY QueueAssumption DEF IInv, Owned
<1>4. \A v \in Workers : InHand(v)' = InHand(v) \ {j}
  <2> TAKE v \in Workers
  <2>1. CASE v = w
    BY <2>1, <1>1 DEF IInv, TypeOK, Owned, InHand
  <2>2. CASE v # w
    BY <2>2, <1>1, <1>3 DEF IInv, TypeOK, Owned, InHand
  <2> QED  BY <2>1, <2>2
<1>5. Owned'
  <2>1. \A v \in Workers : \A k \in InHand(v)' :
          lock'[k] = v /\ draft'[k].state = "RUNNING"
    BY <1>1, <1>2, <1>4 DEF IInv, TypeOK, Owned, InHand
  <2>2. \A v \in Workers : /\ current'[v] \notin batch'[v]
                           /\ current'[v] # NoJob <=> pc'[v] = "publishing"
    BY <1>1, QueueAssumption DEF IInv, TypeOK, Owned
  <2> QED  BY <2>1, <2>2 DEF Owned
<1>6. Shared' /\ Pending'
  <2>1. draft[j].attempts = row[j].attempts
    BY <1>3 DEF IInv, Owned, Pending, Counted
  <2> QED  BY <1>1, <1>2, <1>3, <2>1 DEF IInv, Shared, Pending, Counted
<1>7. Budgets'
  BY <1>1, <1>2 DEF IInv, Budgets
<1>8. HonestRecord'
  BY <1>2 DEF IInv, HonestRecord, Honest
<1> QED  BY <1>5, <1>6, <1>7, <1>8 DEF IInv

LEMMA ProcessJobKeeps ==
  ASSUME IInv, NEW w \in Workers, NEW j \in Jobs,
         \/ AwaitApproval(w, j)
         \/ FailPreflight(w, j)
         \/ PublishSucceeds(w, j)
         \/ PublishIsRetried(w, j)
         \/ PublishFails(w, j)
         \/ PublishIsInterrupted(w, j)
  PROVE  IInv'
<1> DEFINE n == draft[j].attempts + 1
<1>1. /\ j \in InHand(w)
      /\ pc[w] = "running" \/ current[w] = j
  BY QueueAssumption
     DEF InHand, AwaitApproval, FailPreflight, PublishSucceeds,
         PublishIsRetried, PublishFails, PublishIsInterrupted
<1>2. /\ draft[j] \in Row
      /\ draft[j].state = "RUNNING"
      /\ draft[j].attempts \in Nat
      /\ draft[j].attempts < MaxAttempts
      /\ posts \in [Jobs -> Nat] /\ lost \in [Jobs -> Nat]
      /\ posts[j] = lost[j]
  BY <1>1 DEF IInv, TypeOK, Owned, Budgets, Budget, HonestRecord
<1>3. n \in 0..MaxAttempts /\ n = draft[j].attempts + 1
  BY <1>2, QueueAssumption
<1>4. /\ \A s \in JobStates : [draft[j] EXCEPT !.state = s] \in Row
      /\ \A s \in JobStates :
           /\ [draft[j] EXCEPT !.state = s].state = s
           /\ [draft[j] EXCEPT !.state = s].attempts = draft[j].attempts
  BY <1>2
<1>5. \A s \in JobStates : [state |-> s, attempts |-> n] \in Row
  BY <1>3
<1>6. /\ UNCHANGED <<posts, lost>> \/ PostUnreported(j)
         => /\ posts' \in [Jobs -> Nat] /\ lost' \in [Jobs -> Nat]
            /\ \A k \in Jobs \ {j} : posts'[k] = posts[k] /\ lost'[k] = lost[k]
            /\ posts'[j] = lost'[j] /\ lost'[j] \in Nat
  BY <1>2 DEF PostUnreported
<1>7. Unanswered(j) => UNCHANGED <<posts, lost>> \/ PostUnreported(j)
  BY DEF Unanswered
<1> HIDE DEF n
<1>8. CASE AwaitApproval(w, j)
  <2> DEFINE r == [draft[j] EXCEPT !.state = "QUEUED"]
  <2>1. /\ r \in Row /\ r.state = "QUEUED" /\ r.attempts < MaxAttempts
        /\ r.attempts = draft[j].attempts
    BY <1>2, <1>4
  <2>2. Leave(w, j, r) /\ UNCHANGED <<posts, lost>>
    BY <1>8 DEF AwaitApproval
  <2> HIDE DEF r
  <2> QED  BY <1>1, <1>2, <1>6, <2>1, <2>2, <1>3, LeaveKeeps DEF Budget, Honest, Counted
<1>9. CASE FailPreflight(w, j)
  BY <1>1, <1>2, <1>6, <1>9, LeaveKeeps DEF FailPreflight, Budget, Honest, Counted
<1>10. CASE PublishSucceeds(w, j)
  <2> DEFINE r == [state |-> "SUCCEEDED", attempts |-> n]
  <2>1. r \in Row /\ r.state = "SUCCEEDED" /\ r.attempts = n
    BY <1>5
  <2>2. /\ Leave(w, j, r)
        /\ posts' = [posts EXCEPT ![j] = @ + 1]
        /\ UNCHANGED lost
    BY <1>10 DEF PublishSucceeds, n
  <2>3. /\ posts' \in [Jobs -> Nat] /\ lost' \in [Jobs -> Nat]
        /\ \A k \in Jobs \ {j} : posts'[k] = posts[k] /\ lost'[k] = lost[k]
        /\ posts'[j] = lost'[j] + 1
    BY <1>2, <2>2
  <2> HIDE DEF r
  <2> QED  BY <1>1, <2>1, <2>2, <2>3, <1>3, LeaveKeeps DEF Budget, Honest, Counted
<1>11. CASE PublishIsRetried(w, j)
  <2> DEFINE r == [state |-> IF n >= MaxAttempts THEN "DEAD" ELSE "QUEUED",
                   attempts |-> n]
  <2>1. /\ r \in Row /\ r.state \in {"DEAD", "QUEUED"} /\ Budget(r)
        /\ r.attempts = n
    BY <1>3, <1>5, QueueAssumption DEF Budget
  <2>2. Leave(w, j, r) /\ Unanswered(j)
    BY <1>11 DEF PublishIsRetried, n
  <2> HIDE DEF r
  <2> QED  BY <1>1, <1>2, <1>6, <1>7, <2>1, <2>2, <1>3, LeaveKeeps DEF Honest, Counted
<1>12. CASE PublishFails(w, j)
  <2> DEFINE r == [draft[j] EXCEPT !.state = "FAILED"]
  <2>1. r \in Row /\ r.state = "FAILED" /\ r.attempts = draft[j].attempts
    BY <1>2, <1>4
  <2>2. Leave(w, j, r) /\ Unanswered(j)
    BY <1>12 DEF PublishFails
  <2> HIDE DEF r
  <2> QED  BY <1>1, <1>2, <1>6, <1>7, <2>1, <2>2, <1>3, LeaveKeeps DEF Budget, Honest, Counted
<1>13. CASE PublishIsInterrupted(w, j)
  BY <1>1, <1>2, <1>6, <1>13, LeaveKeeps
     DEF PublishIsInterrupted, Budget, Honest, Counted
<1> QED  BY <1>8, <1>9, <1>10, <1>11, <1>12, <1>13

LEMMA StartPublishKeeps ==
  ASSUME IInv, NEW w \in Workers, NEW j \in Jobs, StartPublish(w, j)
  PROVE  IInv'
<1>1. /\ pc' = [pc EXCEPT ![w] = "publishing"]
      /\ batch' = [batch EXCEPT ![w] = @ \ {j}]
      /\ current' = [current EXCEPT ![w] = j]
      /\ UNCHANGED <<row, due, earlier, cleared, lock, draft, cancelling,
                     visit, todo, posts, lost, crashes>>
      /\ pc[w] = "running" /\ j \in batch[w]
  BY DEF StartPublish, dbVars
<1>2. TypeOK'
  BY <1>1 DEF IInv, TypeOK
<1>3. current[w] = NoJob
  BY <1>1 DEF IInv, TypeOK, Owned
<1>4. \A v \in Workers : InHand(v)' = InHand(v)
  <2> TAKE v \in Workers
  <2>1. CASE v = w
    BY <2>1, <1>1, <1>3, QueueAssumption DEF IInv, TypeOK, InHand
  <2>2. CASE v # w
    BY <2>2, <1>1 DEF IInv, TypeOK, InHand
  <2> QED  BY <2>1, <2>2
<1>5. Owned'
  <2>1. \A v \in Workers : /\ current'[v] \notin batch'[v]
                           /\ current'[v] # NoJob <=> pc'[v] = "publishing"
    BY <1>1, QueueAssumption DEF IInv, TypeOK, Owned
  <2> QED  BY <1>1, <1>4, <2>1 DEF IInv, Owned
<1>6. Shared' /\ Pending' /\ Budgets' /\ HonestRecord'
  BY <1>1 DEF IInv, Shared, Pending, Counted, Budgets, Budget, HonestRecord
<1> QED  BY <1>2, <1>5, <1>6 DEF IInv

LEMMA CommitKeeps ==
  ASSUME IInv, NEW w \in Workers, Commit(w)
  PROVE  IInv'
<1> TypeOK'
  BY TypeCommit DEF IInv
<1>1. /\ pc[w] = "visiting"
      /\ row' = [j \in Jobs |-> IF lock[j] = w THEN draft[j] ELSE row[j]]
      /\ lock' = [j \in Jobs |-> IF lock[j] = w THEN NoWorker ELSE lock[j]]
      /\ pc' = [pc EXCEPT ![w] = "idle"]
      /\ batch' = [batch EXCEPT ![w] = {}]
      /\ current' = [current EXCEPT ![w] = NoJob]
      /\ UNCHANGED <<draft, posts, lost>>
  BY DEF Commit, EndTransaction
<1>2. w # NoWorker
  BY QueueAssumption
<1>3. Owned'
  <2>1. \A v \in Workers \ {w} : \A j \in InHand(v)' :
          lock'[j] = v /\ draft'[j].state = "RUNNING"
    BY <1>1 DEF IInv, TypeOK, Owned, InHand
  <2>2. InHand(w)' = {}
    BY <1>1 DEF IInv, TypeOK, InHand
  <2>3. \A v \in Workers : /\ current'[v] \notin batch'[v]
                           /\ current'[v] # NoJob <=> pc'[v] = "publishing"
    BY <1>1 DEF IInv, TypeOK, Owned
  <2> QED  BY <2>1, <2>2, <2>3 DEF Owned
<1>4. Shared' /\ Pending'
  BY <1>1, <1>2 DEF IInv, Shared, Pending, Counted
<1>5. Budgets'
  BY <1>1 DEF IInv, Budgets, Budget
<1>6. HonestRecord'
  BY <1>1 DEF IInv, HonestRecord
<1> QED  BY <1>3, <1>4, <1>5, <1>6 DEF IInv

LEMMA RollbackKeeps ==
  ASSUME IInv, NEW w \in Workers, NEW made \in SUBSET ({current[w]} \ {NoJob}),
         Rollback(w, made), crashes' \in Nat
  PROVE  IInv'
<1> TypeOK'
  BY TypeRollback DEF IInv
<1>1. /\ draft' = [j \in Jobs |-> IF lock[j] = w THEN row[j] ELSE draft[j]]
      /\ lock' = [j \in Jobs |-> IF lock[j] = w THEN NoWorker ELSE lock[j]]
      /\ pc' = [pc EXCEPT ![w] = "idle"]
      /\ batch' = [batch EXCEPT ![w] = {}]
      /\ current' = [current EXCEPT ![w] = NoJob]
      /\ UNCHANGED row
  BY DEF Rollback, EndTransaction, dbVars
<1>2. w # NoWorker
  BY QueueAssumption
<1>3. Owned'
  <2>1. \A v \in Workers \ {w} : \A j \in InHand(v)' :
          lock'[j] = v /\ draft'[j].state = "RUNNING"
    BY <1>1 DEF IInv, TypeOK, Owned, InHand
  <2>2. InHand(w)' = {}
    BY <1>1 DEF IInv, TypeOK, InHand
  <2>3. \A v \in Workers : /\ current'[v] \notin batch'[v]
                           /\ current'[v] # NoJob <=> pc'[v] = "publishing"
    BY <1>1 DEF IInv, TypeOK, Owned
  <2> QED  BY <2>1, <2>2, <2>3 DEF Owned
<1>4. Shared' /\ Pending'
  BY <1>1, <1>2 DEF IInv, Shared, Pending, Counted
<1>5. Budgets'
  BY <1>1 DEF IInv, Budgets, Budget
<1>6. HonestRecord'
  <2> SUFFICES ASSUME NEW j \in Jobs
               PROVE  /\ draft'[j].state = "SUCCEEDED" => posts'[j] = lost'[j] + 1
                      /\ draft'[j].state \in {"ABSENT", "QUEUED", "RUNNING",
                                              "FAILED", "DEAD"}
                           => posts'[j] = lost'[j]
                      /\ posts'[j] <= lost'[j] + 1
    BY DEF HonestRecord
  <2>1. /\ posts'[j] = IF j \in made THEN posts[j] + 1 ELSE posts[j]
        /\ lost'[j] = IF j \in made \/ (lock[j] = w /\ draft[j].state = "SUCCEEDED")
                      THEN lost[j] + 1 ELSE lost[j]
    BY DEF Rollback
  <2>2. posts[j] \in Nat /\ lost[j] \in Nat
    BY DEF IInv, TypeOK
  <2>3. j \in made => lock[j] = w /\ draft[j].state = "RUNNING"
    BY DEF IInv, Owned, InHand
  <2>4. CASE lock[j] = w
    <3>1. /\ row[j].state = "QUEUED"
          /\ draft[j].state \in {"QUEUED", "RUNNING", "SUCCEEDED", "FAILED", "DEAD"}
      BY <1>2, <2>4 DEF IInv, Pending
    <3>2. draft'[j] = row[j]
      BY <1>1, <2>4
    <3> QED  BY <2>1, <2>2, <2>3, <2>4, <3>1, <3>2 DEF IInv, HonestRecord
  <2>5. CASE lock[j] # w
    BY <1>1, <2>1, <2>2, <2>3, <2>5 DEF IInv, HonestRecord
  <2> QED  BY <2>4, <2>5
<1> QED  BY <1>3, <1>4, <1>5, <1>6 DEF IInv

-----------------------------------------------------------------------------
(* The theorems. *)

LEMMA StepKeeps == IInv /\ [Next]_vars => IInv'
<1> SUFFICES ASSUME IInv, [Next]_vars
             PROVE  IInv'
  OBVIOUS
<1>1. CASE UNCHANGED vars
  <2>1. TypeOK'
    BY <1>1 DEF IInv, TypeOK, vars
  <2> QED  BY <1>1, <2>1, Quiet DEF vars
<1>2. ASSUME NEW j \in Jobs, Request(j) \/ BecomeDue(j)
      PROVE  IInv'
  BY <1>2, RequestKeeps
<1>3. ASSUME NEW w \in Workers, WorkerStep(w)
      PROVE  IInv'
  <2>1. CASE Poll(w) \/ SelectJobs(w) \/ ClaimDone(w) \/ BatchDone(w)
    <3>1. TypeOK'
      BY <2>1, TypeClaiming DEF IInv
    <3>2. UNCHANGED <<row, draft, lock, batch, current, posts, lost>>
      BY <2>1 DEF Poll, SelectJobs, ClaimDone, BatchDone, dbVars
    <3>3. \A v \in Workers : pc'[v] = "publishing" <=> pc[v] = "publishing"
      BY <2>1 DEF Poll, SelectJobs, ClaimDone, BatchDone, IInv, TypeOK
    <3> QED  BY <3>1, <3>2, <3>3, Quiet
  <2>2. CASE \E j \in Jobs : Claim(w, j)
    BY <2>2, ClaimKeeps
  <2>3. CASE ProcessJob(w)
    BY <2>3, ProcessJobKeeps, StartPublishKeeps DEF ProcessJob
  <2>4. CASE Commit(w)
    BY <2>4, CommitKeeps
  <2>5. CASE DeadlockVictim(w)
    <3>1. Rollback(w, {}) /\ crashes' \in Nat
      BY <2>5 DEF DeadlockVictim, IInv, TypeOK
    <3> QED  BY <3>1, RollbackKeeps
  <2> QED  BY <1>3, <2>1, <2>2, <2>3, <2>4, <2>5 DEF WorkerStep
<1>4. ASSUME NEW w \in Workers, Crash(w)
      PROVE  IInv'
  <2>1. crashes' \in Nat
    BY <1>4 DEF Crash, IInv, TypeOK
  <2>2. PICK made \in SUBSET ({current[w]} \ {NoJob}) : Rollback(w, made)
    BY <1>4 DEF Crash
  <2> QED  BY <2>1, <2>2, RollbackKeeps
<1> QED  BY <1>1, <1>2, <1>3, <1>4 DEF Next

LEMMA Invariance == Spec => []IInv
BY InitEstablishes, StepKeeps, PTL DEF Spec

\* The variables of the queue always hold values of their types; in particular
\* the attempts of a job never pass PUBLISH_RETRY_MAX_ATTEMPTS.
THEOREM TypeCorrect == Spec => []TypeOK
BY Invariance, PTL DEF IInv

\* Two executions of process_due_jobs never have the same job in hand.
THEOREM ExecutionIsSingle == Spec => []SingleExecution
<1>1. IInv => SingleExecution
  BY DEF IInv, Owned, SingleExecution
<1> QED  BY <1>1, Invariance, PTL

\* A job in hand is committed as QUEUED until its worker's transaction ends.
THEOREM OnlyQueuedIsPublished == Spec => []PublishesQueuedOnly
<1>1. IInv => PublishesQueuedOnly
  <2> SUFFICES ASSUME IInv, NEW w \in Workers, NEW j \in InHand(w)
               PROVE  row[j].state = "QUEUED"
    BY DEF PublishesQueuedOnly
  <2>1. j \in Jobs
    BY DEF IInv, TypeOK, InHand
  <2>2. lock[j] = w /\ w # NoWorker
    BY QueueAssumption DEF IInv, Owned
  <2> QED  BY <2>1, <2>2 DEF IInv, Pending
<1> QED  BY <1>1, Invariance, PTL

\* SUCCEEDED means one recorded post, and every state from which a job may be
\* published again means none, but for the posts whose report was lost.
THEOREM RecordIsHonest == Spec => []HonestRecord
BY Invariance, PTL DEF IInv

\* A job that may still run has attempts left, and a DEAD one has none.
THEOREM BudgetIsKept == Spec => []AttemptBudget
<1>1. IInv => AttemptBudget
  BY DEF IInv, Budgets, Budget, AttemptBudget
<1> QED  BY <1>1, Invariance, PTL

\* A committed outcome changes only by a cancel that read the job as QUEUED,
\* and attempts never decrease.
THEOREM FinalOutcomes == Spec => OutcomesAreFinal
<1> DEFINE Final ==
      \A j \in Jobs :
        /\ row[j].state \in {"SUCCEEDED", "FAILED", "DEAD", "RUNNING"} =>
             \/ row'[j].state = row[j].state
             \/ j \in cancelling /\ row'[j].state = "CANCELLED"
        /\ row[j].state = "CANCELLED" => row'[j].state = "CANCELLED"
        /\ row[j].attempts <= row'[j].attempts
<1>1. IInv /\ [Next]_vars => [Final]_vars
  <2> SUFFICES ASSUME IInv, Next
               PROVE  Final
    OBVIOUS
  <2> DEFINE Kept == \A j \in Jobs : row'[j] = row[j]
  <2>1. Kept => Final
    BY DEF IInv, TypeOK
  <2>2. ASSUME NEW j \in Jobs, Request(j) \/ BecomeDue(j)
        PROVE  Final
    <3>1. CASE Enqueue(j)
      BY <3>1, QueueAssumption
         DEF Enqueue, WriteRow, IInv, TypeOK, Budgets, Budget
    <3>2. CASE CancelWrite(j)
      BY <3>2, QueueAssumption DEF CancelWrite, WriteRow, IInv, TypeOK
    <3>3. CASE ReviewContent(j) \/ CancelRead(j) \/ BecomeDue(j)
      BY <2>1, <3>3 DEF ReviewContent, CancelRead, BecomeDue, dbVars
    <3> QED  BY <2>2, <3>1, <3>2, <3>3 DEF Request
  <2>3. ASSUME NEW w \in Workers, Commit(w)
        PROVE  Final
    <3>1. \A j \in Jobs : row[j].attempts \in Nat
      BY QueueAssumption DEF IInv, TypeOK
    <3>2. /\ \A j \in Jobs : lock[j] = w => row'[j] = draft[j]
          /\ \A j \in Jobs : lock[j] # w => row'[j] = row[j]
      BY <2>3 DEF Commit
    <3>3. \A j \in Jobs : lock[j] = w => row[j].state = "QUEUED"
                         /\ draft[j].state \in {"QUEUED", "RUNNING", "SUCCEEDED",
                                                "FAILED", "DEAD"}
                         /\ row[j].attempts <= draft[j].attempts
      BY <3>1, QueueAssumption DEF IInv, Pending, Counted
    <3> QED  BY <3>1, <3>2, <3>3
  <2>4. ASSUME NEW w \in Workers, WorkerStep(w) \/ Crash(w), ~Commit(w)
        PROVE  Final
    <3>1. UNCHANGED row
      BY <2>4
         DEF WorkerStep, Poll, SelectJobs, Claim, ClaimDone, BatchDone,
             ProcessJob, AwaitApproval, FailPreflight, StartPublish,
             PublishSucceeds, PublishIsRetried, PublishFails,
             PublishIsInterrupted, Leave, DeadlockVictim, Crash, Rollback,
             dbVars
    <3> QED  BY <2>1, <3>1
  <2> QED  BY <2>2, <2>3, <2>4 DEF Next
<1> QED  BY <1>1, Invariance, PTL DEF Spec, OutcomesAreFinal
-----------------------------------------------------------------------------
(* The queue implements the ledger. *)

\* What a worker leaves in a row it has locked is one of the outcomes that the
\* ledger allows.
LEMMA DraftIsOutcome ==
  ASSUME IInv, NEW j \in Jobs, lock[j] # NoWorker
  PROVE  /\ row[j].state = "QUEUED"
         /\ draft[j] \in Ledger!Outcomes(row[j])
         /\ draft[j].state = "SUCCEEDED" => posts[j] > 0
<1>1. /\ row[j].state = "QUEUED"
      /\ draft[j].state \in {"QUEUED", "RUNNING", "SUCCEEDED", "FAILED", "DEAD"}
      /\ Counted(draft[j], row[j].attempts)
      /\ Budget(draft[j])
  BY DEF IInv, Pending, Budgets
<1>2. /\ row[j] \in Row /\ draft[j] \in Row
      /\ posts[j] \in Nat /\ lost[j] \in Nat
  BY DEF IInv, TypeOK
<1>3. row[j].attempts \in Nat /\ MaxAttempts \in Nat
  BY <1>2, QueueAssumption
<1>4. draft[j] = [state |-> draft[j].state, attempts |-> draft[j].attempts]
  BY <1>2
<1>5. draft[j] \in Ledger!Outcomes(row[j])
  <2>1. CASE draft[j].attempts = row[j].attempts
    <3>1. draft[j].state \in {"QUEUED", "RUNNING", "FAILED"}
      BY <1>1, <1>3, <2>1 DEF Counted
    <3> QED  BY <1>4, <2>1, <3>1 DEF Ledger!Outcomes
  <2>2. CASE draft[j].attempts = row[j].attempts + 1
    <3>1. \/ draft[j].state = "SUCCEEDED"
          \/ draft[j].state = IF row[j].attempts + 1 = MaxAttempts
                              THEN "DEAD" ELSE "QUEUED"
      BY <1>1, <1>3, <2>2 DEF Counted, Budget
    <3> QED  BY <1>4, <2>2, <3>1 DEF Ledger!Outcomes
  <2> QED  BY <1>1, <2>1, <2>2 DEF Counted
<1>6. draft[j].state = "SUCCEEDED" => posts[j] > 0
  BY <1>2 DEF IInv, HonestRecord
<1> QED  BY <1>1, <1>5, <1>6

LEMMA CommitSettles ==
  ASSUME IInv, NEW w \in Workers, Commit(w)
  PROVE  \E J \in SUBSET Jobs : Ledger!Settle(J)
<1> DEFINE J == Locked(w)
           out == [j \in J |-> draft[j]]
<1>1. \A j \in J : /\ j \in Jobs /\ lock[j] # NoWorker /\ lock[j] = w
  BY QueueAssumption DEF Locked
<1>2. out \in [J -> UNION {Ledger!Outcomes(row[j]) : j \in J}]
  <2>1. \A j \in J : draft[j] \in Ledger!Outcomes(row[j])
    BY <1>1, DraftIsOutcome
  <2> HIDE DEF J
  <2>2. \A j \in J : draft[j] \in UNION {Ledger!Outcomes(row[i]) : i \in J}
    BY <2>1
  <2> QED  BY <2>2
<1>3. \A j \in J : /\ row[j].state = "QUEUED"
                   /\ out[j] \in Ledger!Outcomes(row[j])
                   /\ out[j].state = "SUCCEEDED" => posts[j] > 0
  BY <1>1, DraftIsOutcome
<1>4. row' = [j \in Jobs |-> IF j \in J THEN out[j] ELSE row[j]]
  BY DEF Commit, Locked
<1>5. UNCHANGED posts
  BY DEF Commit
<1>6. J \in SUBSET Jobs
  BY DEF Locked
<1> HIDE DEF J, out
<1>7. Ledger!Settle(J)
  BY <1>2, <1>3, <1>4, <1>5 DEF Ledger!Settle
<1> QED  BY <1>6, <1>7

\* A cancel request in progress is about a job that exists.
Known == \A j \in cancelling : j \in Jobs /\ row[j].state # "ABSENT"

LEMMA KnownKeeps == IInv /\ Known /\ [Next]_vars => Known'
<1> SUFFICES ASSUME IInv, Known, [Next]_vars
             PROVE  Known'
  OBVIOUS
<1>1. CASE UNCHANGED <<row, cancelling>>
  BY <1>1 DEF Known
<1>2. ASSUME NEW j \in Jobs, Request(j) \/ BecomeDue(j)
      PROVE  Known'
  <2>1. CASE Enqueue(j)
    BY <2>1 DEF Enqueue, WriteRow, Known, IInv, TypeOK
  <2>2. CASE CancelRead(j)
    BY <2>2 DEF CancelRead, dbVars, Known
  <2>3. CASE CancelWrite(j)
    <3>1. /\ row' = [row EXCEPT ![j] = [row[j] EXCEPT !.state = "CANCELLED"]]
          /\ cancelling' = cancelling \ {j}
      BY <2>3 DEF CancelWrite, WriteRow
    <3> QED  BY <3>1 DEF Known
  <2>4. CASE ReviewContent(j) \/ BecomeDue(j)
    BY <1>1, <2>4 DEF ReviewContent, BecomeDue, dbVars
  <2> QED  BY <1>2, <2>1, <2>2, <2>3, <2>4 DEF Request
<1>3. ASSUME NEW w \in Workers, Commit(w)
      PROVE  Known'
  <2>1. \A j \in Jobs : row'[j] = IF lock[j] = w THEN draft[j] ELSE row[j]
    BY <1>3 DEF Commit
  <2>2. \A j \in Jobs : lock[j] = w => draft[j].state # "ABSENT"
    BY QueueAssumption DEF IInv, Pending
  <2>3. UNCHANGED cancelling
    BY <1>3 DEF Commit, EndTransaction
  <2> QED  BY <2>1, <2>2, <2>3 DEF Known
<1>4. ASSUME NEW w \in Workers, WorkerStep(w) \/ Crash(w), ~Commit(w)
      PROVE  Known'
  <2>1. UNCHANGED <<row, cancelling>>
    BY <1>4
       DEF WorkerStep, Poll, SelectJobs, Claim, ClaimDone, BatchDone,
           ProcessJob, AwaitApproval, FailPreflight, StartPublish,
           PublishSucceeds, PublishIsRetried, PublishFails,
           PublishIsInterrupted, Leave, DeadlockVictim, Crash, Rollback,
           EndTransaction, dbVars
  <2> QED  BY <1>1, <2>1
<1> QED  BY <1>1, <1>2, <1>3, <1>4 DEF Next, vars

\* A step that makes at most one post of one job in hand, or of none, and
\* commits nothing.
LEMMA PostingStep ==
  ASSUME IInv, NEW w \in Workers, NEW j \in InHand(w), UNCHANGED row,
         posts' = posts \/ posts' = [posts EXCEPT ![j] = @ + 1]
  PROVE  [Ledger!Next]_(Ledger!vars)
<1>1. j \in Jobs /\ row[j].state = "QUEUED"
  <2>1. j \in Jobs /\ lock[j] # NoWorker
    BY QueueAssumption DEF IInv, TypeOK, Owned, InHand
  <2> QED  BY <2>1 DEF IInv, Pending
<1>2. CASE posts' = posts
  BY <1>2 DEF Ledger!vars
<1>3. CASE posts' = [posts EXCEPT ![j] = @ + 1]
  <2>1. Ledger!Post(j)
    BY <1>1, <1>3 DEF Ledger!Post
  <2> QED  BY <1>1, <2>1 DEF Ledger!Next
<1> QED  BY <1>2, <1>3

LEMMA StepImplements == IInv /\ Known /\ [Next]_vars => [Ledger!Next]_(Ledger!vars)
<1> SUFFICES ASSUME IInv, Known, [Next]_vars
             PROVE  [Ledger!Next]_(Ledger!vars)
  OBVIOUS
<1>1. CASE UNCHANGED <<row, posts>>
  BY <1>1 DEF Ledger!vars
<1>2. CASE UNCHANGED vars
  BY <1>1, <1>2 DEF vars
<1>3. ASSUME NEW j \in Jobs, Request(j) \/ BecomeDue(j)
      PROVE  [Ledger!Next]_(Ledger!vars)
  <2>1. CASE Enqueue(j)
    <3>1. /\ row[j].state = "ABSENT" /\ row[j] \in Row /\ row[j].attempts = 0
          /\ row' = [row EXCEPT ![j] = [state |-> "QUEUED", attempts |-> 0]]
          /\ UNCHANGED posts
      BY <2>1 DEF Enqueue, WriteRow, IInv, TypeOK, Budgets, Budget
    <3>2. [row[j] EXCEPT !.state = "QUEUED"] = [state |-> "QUEUED", attempts |-> 0]
      BY <3>1
    <3>3. row' = [row EXCEPT ![j].state = "QUEUED"]
      BY <3>1, <3>2
    <3>4. Ledger!Enqueue(j)
      BY <3>1, <3>3 DEF Ledger!Enqueue
    <3> QED  BY <3>4 DEF Ledger!Next
  <2>2. CASE CancelWrite(j)
    <3>1. Ledger!Cancel(j)
      BY <2>2 DEF CancelWrite, WriteRow, Ledger!Cancel, Known
    <3> QED  BY <3>1 DEF Ledger!Next
  <2>3. CASE ReviewContent(j) \/ CancelRead(j) \/ BecomeDue(j)
    BY <1>1, <2>3 DEF ReviewContent, CancelRead, BecomeDue, dbVars
  <2> QED  BY <1>3, <2>1, <2>2, <2>3 DEF Request
<1>4. ASSUME NEW w \in Workers, WorkerStep(w)
      PROVE  [Ledger!Next]_(Ledger!vars)
  <2>1. CASE Commit(w)
    BY <2>1, CommitSettles DEF Ledger!Next
  <2>2. ASSUME NEW j \in Jobs, PublishSucceeds(w, j) \/ PublishIsRetried(w, j)
                 \/ PublishFails(w, j) \/ PublishIsInterrupted(w, j)
        PROVE  [Ledger!Next]_(Ledger!vars)
    <3>1. j \in InHand(w)
      BY <2>2, QueueAssumption
         DEF InHand, PublishSucceeds, PublishIsRetried, PublishFails,
             PublishIsInterrupted
    <3>2. UNCHANGED row
      BY <2>2
         DEF PublishSucceeds, PublishIsRetried, PublishFails,
             PublishIsInterrupted, Leave, dbVars
    <3>3. posts' = posts \/ posts' = [posts EXCEPT ![j] = @ + 1]
      BY <2>2
         DEF PublishSucceeds, PublishIsRetried, PublishFails,
             PublishIsInterrupted, Unanswered, PostUnreported
    <3> QED  BY <3>1, <3>2, <3>3, PostingStep
  <2>3. CASE Poll(w) \/ SelectJobs(w) \/ ClaimDone(w) \/ BatchDone(w)
    BY <1>1, <2>3 DEF Poll, SelectJobs, ClaimDone, BatchDone, dbVars
  <2>4. CASE \E j \in Jobs : \/ Claim(w, j) \/ AwaitApproval(w, j)
                             \/ FailPreflight(w, j) \/ StartPublish(w, j)
    BY <1>1, <2>4
       DEF Claim, AwaitApproval, FailPreflight, StartPublish, Leave, dbVars
  <2>5. CASE DeadlockVictim(w)
    <3>1. UNCHANGED row /\ posts' = [j \in Jobs |-> posts[j]]
      BY <2>5 DEF DeadlockVictim, Rollback, dbVars
    <3>2. posts' = posts
      BY <3>1 DEF IInv, TypeOK
    <3> QED  BY <1>1, <3>1, <3>2
  <2> QED  BY <1>4, <2>1, <2>2, <2>3, <2>4, <2>5 DEF WorkerStep, ProcessJob
<1>5. ASSUME NEW w \in Workers, Crash(w)
      PROVE  [Ledger!Next]_(Ledger!vars)
  <2>1. PICK made \in SUBSET ({current[w]} \ {NoJob}) : Rollback(w, made)
    BY <1>5 DEF Crash
  <2>2. /\ UNCHANGED row
        /\ posts' = [j \in Jobs |-> IF j \in made THEN posts[j] + 1 ELSE posts[j]]
    BY <2>1 DEF Rollback, dbVars
  <2>3. CASE made = {}
    <3>1. posts' = posts
      BY <2>2, <2>3 DEF IInv, TypeOK
    <3> QED  BY <1>1, <2>2, <3>1
  <2>4. CASE made # {}
    <3>1. made = {current[w]} /\ current[w] # NoJob
      BY <2>4
    <3>2. current[w] \in InHand(w)
      BY <3>1 DEF InHand
    <3>3. posts' = [posts EXCEPT ![current[w]] = @ + 1]
      BY <2>2, <3>1 DEF IInv, TypeOK
    <3> QED  BY <2>2, <3>2, <3>3, PostingStep
  <2> QED  BY <2>3, <2>4
<1> QED  BY <1>2, <1>3, <1>4, <1>5 DEF Next

\* Whatever the workers do, clients see atomic executions of QUEUED jobs with
\* the outcomes that the ledger allows.
THEOREM QueueImplementsLedger == Spec => ImplementsLedger
<1>1. Init => Ledger!Init
  BY DEF Init, Ledger!Init
<1>2. Init => Known
  BY DEF Init, Known
<1> QED  BY <1>1, <1>2, StepImplements, KnownKeeps, Invariance, PTL
         DEF Spec, ImplementsLedger, Ledger!Spec
=============================================================================
