-------------------------- MODULE ContentWorkflow --------------------------
(***************************************************************************)
(* One content of the studio: the requests that create, edit, submit,      *)
(* decide and delete it (api/routes/content.py), the AI service that       *)
(* writes a caption into it, and the jobs of the publishing engine that    *)
(* post it and write its status.                                           *)
(*                                                                         *)
(* Each request, and each execution of a job, is a transaction at READ     *)
(* COMMITTED.  It reads the content once and works on that copy; at its    *)
(* end SQLAlchemy writes the columns that differ from the copy, by primary *)
(* key and without a condition.  So transactions that overlap mix their    *)
(* columns.  A transaction that raises, or whose process dies, leaves the  *)
(* tables as they were; a post on Instagram stays.                         *)
(*                                                                         *)
(* The body of a content is what ContentVersion keeps of it: caption,      *)
(* media and the other fields in _snapshot, except the status.             *)
(***************************************************************************)
EXTENDS Naturals, Sequences, FiniteSets

CONSTANTS
  Transactions, (* concurrent requests and executions of jobs                 *)
  Bodies,       (* what users and the AI service can write                    *)
  NoBody,       (* the body of a content that has not been created            *)
  MaxHistory,   (* bound: rows of content_versions                            *)
  MaxReviews,   (* bound: rows of content_approvals                           *)
  MaxPosts      (* bound: posts let through by different approvals            *)

ASSUME ContentAssumption ==
  /\ NoBody \notin Bodies
  /\ MaxHistory \in Nat
  /\ MaxReviews \in Nat
  /\ MaxPosts \in Nat

VARIABLES
  content,   (* the committed row of contents                                 *)
  history,   (* committed content_versions, in the order of the commits       *)
  approvals, (* content_approvals in the order of created_at; INSERTED is a   *)
             (* row of a transaction that has not committed, or never will    *)
  call,      (* what each transaction does, the content as it has read it,    *)
             (* and the position of the approval that it is about             *)
  shown,     (* observation: the bodies that the committed content has had    *)
  posts      (* observation: for each post on Instagram the position of the   *)
             (* approval that let it through, 0 for a job that needs none     *)

vars == <<content, history, approvals, call, shown, posts>>

Statuses == {"DRAFT", "IN_REVIEW", "APPROVED", "SCHEDULED", "PUBLISHING",
             "PUBLISHED", "FAILED", "CANCELLED", "ARCHIVED"}

ALLOWED_TRANSITIONS ==
  [DRAFT      |-> {"IN_REVIEW", "SCHEDULED", "ARCHIVED", "CANCELLED"},
   IN_REVIEW  |-> {"APPROVED", "DRAFT", "CANCELLED"},
   APPROVED   |-> {"SCHEDULED", "DRAFT", "CANCELLED"},
   SCHEDULED  |-> {"PUBLISHING", "DRAFT", "CANCELLED"},
   PUBLISHING |-> {"PUBLISHED", "FAILED"},
   PUBLISHED  |-> {"ARCHIVED"},
   FAILED     |-> {"DRAFT", "SCHEDULED", "ARCHIVED"},
   CANCELLED  |-> {"DRAFT", "ARCHIVED"},
   ARCHIVED   |-> {"DRAFT"}]

\* The values of "status" that the schema of a PATCH accepts.
Requestable == Statuses \ {"PUBLISHING", "PUBLISHED", "FAILED"}

\* REJECTED and CHANGES_REQUESTED differ in nothing but their name.
Decisions == {"APPROVED", "REJECTED"}

\* generated: ai_generated
Row == [status : Statuses \cup {"ABSENT"}, version : Nat,
        body : Bodies \cup {NoBody}, generated : BOOLEAN, deleted : BOOLEAN]
Version == [version : Nat, body : Bodies \cup {NoBody}]
Ops == {"idle", "update", "delete", "submit", "inserted", "approve", "decide",
        "publish", "cleared", "posted"}
Call == [op : Ops, row : Row, slot : Nat]

Absent == [status |-> "ABSENT", version |-> 0, body |-> NoBody,
           generated |-> FALSE, deleted |-> FALSE]
Idle == [op |-> "idle", row |-> Absent, slot |-> 0]

TypeOK ==
  /\ content \in Row
  /\ history \in Seq(Version)
  /\ approvals \in Seq({"INSERTED", "PENDING"} \cup Decisions)
  /\ call \in [Transactions -> Call]
  /\ shown \in SUBSET Bodies
  /\ posts \in SUBSET Nat

Init ==
  /\ content = Absent
  /\ history = << >>
  /\ approvals = << >>
  /\ call = [c \in Transactions |-> Idle]
  /\ shown = {}
  /\ posts = {}

-----------------------------------------------------------------------------
\* TenantScope.get_one: the content exists and is not deleted.
Found == content.status # "ABSENT" /\ ~content.deleted

\* Transaction c reads the content.
Read(c, op) ==
  /\ call[c] = Idle
  /\ Found
  /\ call' = [call EXCEPT ![c] = [op |-> op, row |-> content, slot |-> 0]]
  /\ UNCHANGED <<content, history, approvals, shown, posts>>

Goto(c, op, slot) ==
  call' = [call EXCEPT ![c] = [op |-> op, row |-> call[c].row, slot |-> slot]]

End(c) == call' = [call EXCEPT ![c] = Idle]

\* What an UPDATE leaves in a column: SQLAlchemy omits it if the new value is
\* the one that the transaction has read.
Column(read, new, current) == IF new = read THEN current ELSE new

\* Transaction c writes the status s.
WriteStatus(c, s) ==
  content' = [content EXCEPT !.status = Column(call[c].row.status, s, @)]

-----------------------------------------------------------------------------
\* POST /contents, with or without scheduled_at.
Create(s, b) ==
  /\ content.status = "ABSENT"
  /\ content' = [status |-> s, version |-> 1, body |-> b,
                 generated |-> FALSE, deleted |-> FALSE]
  /\ history' = <<[version |-> 1, body |-> b]>>
  /\ shown' = {b}
  /\ UNCHANGED <<approvals, call, posts>>

-----------------------------------------------------------------------------
(* PATCH /contents/{id} and DELETE /contents/{id}. *)

ReadToUpdate(c) == Read(c, "update")

\* A PATCH without a status, or with one that the transition table allows.
Reachable(s) == {s} \cup (ALLOWED_TRANSITIONS[s] \cap Requestable)

\* The row that c writes: new body and status, and the version that it has read
\* plus one.
Updated(c, b, s) ==
  LET read == call[c].row
  IN  [status  |-> Column(read.status, s, content.status),
       version |-> read.version + 1,
       body    |-> Column(read.body, b, content.body),
       generated |-> content.generated,
       deleted |-> content.deleted]

\* Mutant of Update: no snapshot when the body stays.
UpdateSkipsSnapshot(c, b, s) ==
  /\ call[c].op = "update"
  /\ s \in Reachable(call[c].row.status)
  /\ Len(history) < MaxHistory
  /\ content' = Updated(c, b, s)
  /\ history' = IF b = call[c].row.body THEN history
                ELSE Append(history, [version |-> call[c].row.version,
                                      body    |-> call[c].row.body])
  /\ shown' = shown \cup {content'.body}
  /\ End(c)
  /\ UNCHANGED <<approvals, posts>>

\* Mutant of Update: the number of the snapshot, unlike the snapshot, is taken
\* from the database at the end.
UpdateNumbersLate(c, b, s) ==
  /\ call[c].op = "update"
  /\ s \in Reachable(call[c].row.status)
  /\ Len(history) < MaxHistory
  /\ content' = [Updated(c, b, s) EXCEPT !.version = content.version + 1]
  /\ history' = Append(history, [version |-> content.version,
                                 body    |-> call[c].row.body])
  /\ shown' = shown \cup {content'.body}
  /\ End(c)
  /\ UNCHANGED <<approvals, posts>>

\* The snapshot is of the row as c has read it.
Update(c, b, s) ==
  /\ call[c].op = "update"
  /\ s \in Reachable(call[c].row.status)
  /\ Len(history) < MaxHistory
  /\ content' = Updated(c, b, s)
  /\ history' = Append(history, [version |-> call[c].row.version,
                                 body    |-> call[c].row.body])
  /\ shown' = shown \cup {content'.body}
  /\ End(c)
  /\ UNCHANGED <<approvals, posts>>

ReadToDelete(c) ==
  /\ content.status \notin {"PUBLISHING", "PUBLISHED"}
  /\ Read(c, "delete")

Delete(c) ==
  /\ call[c].op = "delete"
  /\ content' = [content EXCEPT !.deleted = TRUE]
  /\ End(c)
  /\ UNCHANGED <<history, approvals, shown, posts>>

-----------------------------------------------------------------------------
(* generate_caption of the AI service, for this content. *)

\* The caption is written in any status, without a snapshot or a new version.
\* What the request has read of the content does not matter for what it writes;
\* the content may have been deleted since.
Generate(b) ==
  /\ content.status # "ABSENT"
  /\ content' = [content EXCEPT !.body = b, !.generated = TRUE]
  /\ shown' = shown \cup {b}
  /\ UNCHANGED <<history, approvals, call, posts>>

-----------------------------------------------------------------------------
(* POST /contents/{id}/submit and /approve. *)

ReadToSubmit(c) ==
  /\ content.status = "DRAFT"
  /\ Read(c, "submit")

\* created_at is taken here; another transaction may come in before the commit.
InsertApproval(c) ==
  /\ call[c].op = "submit"
  /\ Len(approvals) < MaxReviews
  /\ approvals' = Append(approvals, "INSERTED")
  /\ Goto(c, "inserted", Len(approvals) + 1)
  /\ UNCHANGED <<content, history, shown, posts>>

Submit(c) ==
  /\ call[c].op = "inserted"
  /\ approvals' = [approvals EXCEPT ![call[c].slot] = "PENDING"]
  /\ WriteStatus(c, "IN_REVIEW")
  /\ End(c)
  /\ UNCHANGED <<history, shown, posts>>

ReadToApprove(c) == Read(c, "approve")

Pending == {i \in DOMAIN approvals : approvals[i] = "PENDING"}
Committed == {i \in DOMAIN approvals : approvals[i] # "INSERTED"}

\* ORDER BY created_at DESC LIMIT 1.
IsLatest(i, S) == i \in S /\ \A k \in S : k <= i

\* The second SELECT: the latest pending review.
PickApproval(c, i) ==
  /\ call[c].op = "approve"
  /\ IsLatest(i, Pending)
  /\ Goto(c, "decide", i)
  /\ UNCHANGED <<content, history, approvals, shown, posts>>

\* Mutant of StatusAfter: the content takes the status of the review.
StatusOfReview(d) == IF d = "APPROVED" THEN "APPROVED" ELSE "REJECTED"

StatusAfter(d) == IF d = "APPROVED" THEN "APPROVED" ELSE "DRAFT"

\* Neither the status of the content nor, by now, that of the review is
\* looked at.
Approve(c, d) ==
  /\ call[c].op = "decide"
  /\ approvals' = [approvals EXCEPT ![call[c].slot] = d]
  /\ WriteStatus(c, StatusAfter(d))
  /\ End(c)
  /\ UNCHANGED <<history, shown, posts>>

-----------------------------------------------------------------------------
(* process_job of the publishing engine.  Jobs may exist for a content in any *)
(* status.                                                                    *)

ReadToPublish(c) == Read(c, "publish")

\* Mutant of PassGate: anything but a rejection is taken for an approval.
PassGateUnlessRejected(c, i) ==
  /\ call[c].op = "publish"
  /\ IsLatest(i, Committed)
  /\ approvals[i] # "REJECTED"
  /\ Goto(c, "cleared", i)
  /\ UNCHANGED <<content, history, approvals, shown, posts>>

\* _is_approved: the latest review is an approval.
PassGate(c, i) ==
  /\ call[c].op = "publish"
  /\ IsLatest(i, Committed)
  /\ approvals[i] = "APPROVED"
  /\ Goto(c, "cleared", i)
  /\ UNCHANGED <<content, history, approvals, shown, posts>>

\* The job does not require an approval.
SkipGate(c) ==
  /\ call[c].op = "publish"
  /\ Goto(c, "cleared", 0)
  /\ UNCHANGED <<content, history, approvals, shown, posts>>

Post(c) ==
  /\ call[c].op = "cleared"
  /\ Cardinality(posts) < MaxPosts
  /\ posts' = posts \cup {call[c].slot}
  /\ Goto(c, "posted", call[c].slot)
  /\ UNCHANGED <<content, history, approvals, shown>>

\* Mutant of Publish: the status is written before the calls to Instagram.
PublishEarly(c) ==
  /\ call[c].op \in {"cleared", "posted"}
  /\ WriteStatus(c, "PUBLISHED")
  /\ End(c)
  /\ UNCHANGED <<history, approvals, shown, posts>>

Publish(c) ==
  /\ call[c].op = "posted"
  /\ WriteStatus(c, "PUBLISHED")
  /\ End(c)
  /\ UNCHANGED <<history, approvals, shown, posts>>

\* A permanent error, an exhausted budget or a failed validation, possibly in
\* answer to a call that Instagram has carried out.
PublishFails(c) ==
  /\ call[c].op \in {"cleared", "posted"}
  /\ WriteStatus(c, "FAILED")
  /\ End(c)
  /\ UNCHANGED <<history, approvals, shown, posts>>

\* A transaction ends and writes nothing to these tables: a check of the
\* handler fails, the gate is closed, the publish is to be retried, the content
\* has been deleted when it fails, or the process dies.
Abandon(c) ==
  /\ call[c].op # "idle"
  /\ End(c)
  /\ UNCHANGED <<content, history, approvals, shown, posts>>

-----------------------------------------------------------------------------
Edit(c) ==
  \/ ReadToUpdate(c)
  \/ \E b \in Bodies, s \in Statuses : Update(c, b, s)
  \/ ReadToDelete(c)
  \/ Delete(c)

Review(c) ==
  \/ ReadToSubmit(c)
  \/ InsertApproval(c)
  \/ Submit(c)
  \/ ReadToApprove(c)
  \/ \E i \in DOMAIN approvals : PickApproval(c, i)
  \/ \E d \in Decisions : Approve(c, d)

Execute(c) ==
  \/ ReadToPublish(c)
  \/ \E i \in DOMAIN approvals : PassGate(c, i)
  \/ SkipGate(c)
  \/ Post(c)
  \/ Publish(c)
  \/ PublishFails(c)

Next ==
  \/ \E s \in {"DRAFT", "SCHEDULED"}, b \in Bodies : Create(s, b)
  \/ \E b \in Bodies : Generate(b)
  \/ \E c \in Transactions : Edit(c) \/ Review(c) \/ Execute(c) \/ Abandon(c)

Spec == Init /\ [][Next]_vars

-----------------------------------------------------------------------------
(* Correctness. *)

\* The rows that updates have written follow the row of the creation.
Updates == 2 .. Len(history)

\* Change history (product-requirements.md): for each number below the version
\* of the content there is a snapshot, although overlapping updates write
\* numbers and versions that they have read before, and the version may even
\* decrease.
HistoryHasNoGaps ==
  \A k \in 1 .. (content.version - 1) :
    \E i \in Updates : history[i].version = k

\* Overlapping updates lose each other's text: the snapshot is of the row that
\* the update has read, not of the one that it overwrites.  But a loss leaves a
\* mark.  As long as no two updates have saved the same number, every body that
\* the content has ever had is in the content or in its history; unless the AI
\* service has written to it, which saves nothing and marks it as generated.
LossesAreVisible ==
  ~content.generated
  /\ (\A i, k \in Updates : history[i].version = history[k].version => i = k)
    => \A b \in shown :
         content.body = b \/ \E i \in DOMAIN history : history[i].body = b

\* Whatever requests overlap, the content is PUBLISHED only if a post of it
\* exists on Instagram.
PublishedMeansPosted == content.status = "PUBLISHED" => posts # {}

\* The approval gate (architecture.md): a post of a job that requires approval
\* is owed to a submission on which a reviewer has decided, and on which the
\* decision stands, although another reviewer may have replaced it.
NothingUnreviewedIsPosted ==
  \A i \in posts : i # 0 => i \in DOMAIN approvals /\ approvals[i] \in Decisions

=============================================================================
