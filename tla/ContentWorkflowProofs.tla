----------------------- MODULE ContentWorkflowProofs -----------------------
(***************************************************************************)
(* Proofs about ContentWorkflow, for any number of overlapping             *)
(* transactions, texts, versions and reviews: the types, the numbers of    *)
(* the history, that lost texts leave a mark in it, and the two facts      *)
(* about posts.                                                            *)
(***************************************************************************)
EXTENDS ContentWorkflow, TLAPS

Active(c) == call[c].op # "idle"

\* Before the creation there is nothing to read; after it there is a text, and
\* the row of the creation heads the history.
Created ==
  IF content.status = "ABSENT"
  THEN /\ history = << >>
       /\ \A c \in Transactions : call[c] = Idle
       /\ content.version = 0
       /\ shown = {}
  ELSE /\ Len(history) >= 1
       /\ content.version >= 1
       /\ content.body \in Bodies

\* The history has a row of an update for each number below v.
Covers(v) == \A k \in 1 .. (v - 1) : \E i \in Updates : history[i].version = k

\* What a transaction has read was a state of the content, so the history covers
\* the numbers below it.
Copies ==
  \A c \in Transactions : Active(c) =>
    call[c].row.version >= 1 /\ Covers(call[c].row.version)

\* No two updates have saved the same number.
Distinct ==
  \A i, k \in Updates : history[i].version = history[k].version => i = k

\* Without a repeated number and a generated text the updates have been made one
\* after the other, and a copy with the current version has the current text.
InOrder ==
  ~content.generated /\ Distinct =>
    /\ content.version = Len(history)
    /\ \A i \in Updates : history[i].version = i - 1
    /\ \A c \in Transactions : Active(c) =>
         /\ call[c].row.version <= content.version
         /\ call[c].row.version = content.version => call[c].row.body = content.body

\* What the position of an approval tells about it, and who owns a row that is
\* not committed.
Slots ==
  /\ \A c \in Transactions :
       /\ call[c].op = "inserted" =>
            /\ call[c].slot \in DOMAIN approvals
            /\ approvals[call[c].slot] = "INSERTED"
       /\ call[c].op = "decide" =>
            /\ call[c].slot \in DOMAIN approvals
            /\ approvals[call[c].slot] # "INSERTED"
       /\ call[c].op \in {"cleared", "posted"} /\ call[c].slot # 0 =>
            /\ call[c].slot \in DOMAIN approvals
            /\ approvals[call[c].slot] \in Decisions
  /\ \A c, d \in Transactions :
       call[c].op = "inserted" /\ call[d].op = "inserted"
       /\ call[c].slot = call[d].slot => c = d

\* A transaction that has posted is seen in the posts.
Posted == \A c \in Transactions : call[c].op = "posted" => posts # {}

\* The inductive invariant.
IInv ==
  /\ TypeOK
  /\ Created
  /\ Copies
  /\ HistoryHasNoGaps
  /\ InOrder
  /\ LossesAreVisible
  /\ Slots
  /\ Posted
  /\ PublishedMeansPosted
  /\ NothingUnreviewedIsPosted

-----------------------------------------------------------------------------
(* The types. *)

\* The row that an update writes.
LEMMA UpdatedRow ==
  ASSUME TypeOK, NEW c \in Transactions, NEW b \in Bodies, NEW s \in Statuses
  PROVE  /\ Updated(c, b, s) \in Row
         /\ Updated(c, b, s).version = call[c].row.version + 1
         /\ Updated(c, b, s).body \in {b, content.body}
         /\ Updated(c, b, s).status \in {s, content.status}
         /\ Updated(c, b, s).generated = content.generated
         /\ Updated(c, b, s).deleted = content.deleted
<1>1. call[c].row \in Row /\ content \in Row
  BY DEF TypeOK, Call
<1> QED
  BY <1>1 DEF Updated, Column, Row

\* A write of the status leaves the other columns alone.
LEMMA StatusRow ==
  ASSUME TypeOK, NEW c \in Transactions, NEW s \in Statuses, WriteStatus(c, s)
  PROVE  /\ content' \in Row
         /\ content'.version = content.version
         /\ content'.body = content.body
         /\ content'.generated = content.generated
         /\ content'.status \in {s, content.status}
BY DEF TypeOK, Row, WriteStatus, Column

LEMMA CallTypes ==
  ASSUME TypeOK, NEW c \in Transactions
  PROVE  /\ Idle \in Call
         /\ \A op \in Ops : [op |-> op, row |-> content, slot |-> 0] \in Call
         /\ \A op \in Ops, i \in Nat :
              [op |-> op, row |-> call[c].row, slot |-> i] \in Call
BY DEF TypeOK, Call, Ops, Idle, Absent, Row

LEMMA InitTypes == Init => TypeOK
BY DEF Init, TypeOK, Absent, Idle, Row, Call, Ops, Version

\* There is a transaction only if there is a content.
LEMMA Begun ==
  ASSUME TypeOK, Created, NEW c \in Transactions, Active(c)
  PROVE  /\ content.status # "ABSENT"
         /\ content.body \in Bodies
         /\ content.version >= 1
         /\ Len(history) >= 1
BY DEF Created, Active, Idle

LEMMA StepTypes ==
  ASSUME TypeOK, Created, Slots, [Next]_vars
  PROVE  TypeOK'
<1> USE DEF TypeOK
<1>1. ASSUME NEW s \in {"DRAFT", "SCHEDULED"}, NEW b \in Bodies, Create(s, b)
      PROVE  TypeOK'
  <2>1. content' \in Row /\ [version |-> 1, body |-> b] \in Version
    BY <1>1 DEF Create, Row, Statuses, Version
  <2> QED
    BY <1>1, <2>1 DEF Create
<1>2. ASSUME NEW c \in Transactions, NEW op \in Ops, Read(c, op)
      PROVE  TypeOK'
  BY <1>2, CallTypes DEF Read
<1>3. ASSUME NEW c \in Transactions, NEW b \in Bodies, NEW s \in Statuses, Update(c, b, s)
      PROVE  TypeOK'
  <2>1. content' \in Row /\ content'.body \in {b, content.body}
    BY <1>3, UpdatedRow DEF Update
  <2>2. [version |-> call[c].row.version, body |-> call[c].row.body] \in Version
    BY DEF Call, Row, Version
  <2>3. content'.body \in Bodies
    BY <1>3, <2>1, Begun DEF Update, Active
  <2> QED
    BY <1>3, <2>1, <2>2, <2>3, CallTypes DEF Update, End
<1>4. ASSUME NEW c \in Transactions, Delete(c)
      PROVE  TypeOK'
  <2>1. content' \in Row
    BY <1>4 DEF Delete, Row
  <2> QED
    BY <1>4, <2>1, CallTypes DEF Delete, End
<1>5. ASSUME NEW c \in Transactions, InsertApproval(c)
      PROVE  TypeOK'
  <2>1. Len(approvals) + 1 \in Nat /\ "inserted" \in Ops
    BY DEF Ops
  <2> QED
    BY <1>5, <2>1, CallTypes DEF InsertApproval, Goto
<1>6. ASSUME NEW c \in Transactions, Submit(c)
      PROVE  TypeOK'
  <2>1. content' \in Row
    BY <1>6, StatusRow DEF Submit, Statuses
  <2>2. call[c].slot \in DOMAIN approvals
    BY <1>6 DEF Submit, Slots
  <2> QED
    BY <1>6, <2>1, <2>2, CallTypes DEF Submit, End
<1>7. ASSUME NEW c \in Transactions, NEW i \in DOMAIN approvals, NEW op \in Ops,
             Goto(c, op, i), UNCHANGED <<content, history, approvals, shown, posts>>
      PROVE  TypeOK'
  BY <1>7, CallTypes DEF Goto
<1>8. ASSUME NEW c \in Transactions, NEW d \in Decisions, Approve(c, d)
      PROVE  TypeOK'
  <2>1. content' \in Row
    BY <1>8, StatusRow DEF Approve, StatusAfter, Statuses
  <2>2. call[c].slot \in DOMAIN approvals
    BY <1>8 DEF Approve, Slots
  <2> QED
    BY <1>8, <2>1, <2>2, CallTypes DEF Approve, End
<1>9. ASSUME NEW c \in Transactions, SkipGate(c)
      PROVE  TypeOK'
  BY <1>9, CallTypes DEF SkipGate, Goto, Ops
<1>10. ASSUME NEW c \in Transactions, Post(c)
       PROVE  TypeOK'
  <2>1. call[c].slot \in Nat /\ "posted" \in Ops
    BY DEF Call, Ops
  <2> QED
    BY <1>10, <2>1, CallTypes DEF Post, Goto
<1>11. ASSUME NEW c \in Transactions, Publish(c) \/ PublishFails(c)
       PROVE  TypeOK'
  <2>1. content' \in Row
    BY <1>11, StatusRow DEF Publish, PublishFails, Statuses
  <2> QED
    BY <1>11, <2>1, CallTypes DEF Publish, PublishFails, End
<1>12. ASSUME NEW c \in Transactions, Abandon(c)
       PROVE  TypeOK'
  BY <1>12, CallTypes DEF Abandon, End
<1>13. ASSUME NEW c \in Transactions, Edit(c)
       PROVE  TypeOK'
  BY <1>13, <1>2, <1>3, <1>4 DEF Edit, ReadToUpdate, ReadToDelete, Ops
<1>14. ASSUME NEW c \in Transactions, Review(c)
       PROVE  TypeOK'
  BY <1>14, <1>2, <1>5, <1>6, <1>7, <1>8
  DEF Review, ReadToSubmit, ReadToApprove, PickApproval, Ops
<1>15. ASSUME NEW c \in Transactions, Execute(c)
       PROVE  TypeOK'
  BY <1>15, <1>2, <1>7, <1>9, <1>10, <1>11 DEF Execute, ReadToPublish, PassGate, Ops
<1>16. CASE UNCHANGED vars
  BY <1>16 DEF vars
<1>17. ASSUME NEW b \in Bodies, Generate(b)
       PROVE  TypeOK'
  <2>1. content' \in Row
    BY <1>17 DEF Generate, Row
  <2> QED
    BY <1>17, <2>1 DEF Generate
<1> QED
  BY <1>1, <1>12, <1>13, <1>14, <1>15, <1>16, <1>17 DEF Next

-----------------------------------------------------------------------------
(* The history. *)

\* What every step but the creation and the update leaves alone: versions and
\* history, and the texts if they are not generated; a transaction works on the
\* copy that it has, or has just taken one.
Quiet ==
  /\ history' = history
  /\ content'.version = content.version
  /\ content'.body \in Bodies \cup {content.body}
  /\ content'.status = "ABSENT" <=> content.status = "ABSENT"
  /\ content.status = "ABSENT" => UNCHANGED <<content, call, shown>>
  /\ ~content'.generated =>
       ~content.generated /\ content'.body = content.body /\ shown' = shown
  /\ \A d \in Transactions : Active(d)' =>
       \/ Active(d) /\ call'[d].row = call[d].row
       \/ content.status # "ABSENT" /\ call'[d].row = content

LEMMA ReadIsQuiet ==
  ASSUME TypeOK, NEW c \in Transactions, NEW op \in Ops, Read(c, op)
  PROVE  Quiet
BY DEF TypeOK, Read, Found, Quiet, Active

\* A step of a transaction that goes on or ends without a word about the text.
LEMMA WorkIsQuiet ==
  ASSUME TypeOK, Created, NEW c \in Transactions, Active(c),
         UNCHANGED <<history, shown>>,
         content'.version = content.version,
         content'.body = content.body,
         content'.generated = content.generated,
         content'.status # "ABSENT",
         \/ End(c)
         \/ \E op \in Ops, i \in Nat : Goto(c, op, i)
  PROVE  Quiet
<1>1. content.status # "ABSENT"
  BY Begun
<1>2. \A d \in Transactions : Active(d)' => Active(d) /\ call'[d].row = call[d].row
  BY DEF TypeOK, End, Goto, Active, Idle
<1> QED
  BY <1>1, <1>2 DEF Quiet

LEMMA StepIsQuiet ==
  ASSUME TypeOK, Created, Slots, [Next]_vars
  PROVE  \/ Quiet
         \/ \E s \in {"DRAFT", "SCHEDULED"}, b \in Bodies : Create(s, b)
         \/ \E c \in Transactions, b \in Bodies, s \in Statuses : Update(c, b, s)
<1>1. ASSUME NEW c \in Transactions, Edit(c)
      PROVE  Quiet \/ \E b \in Bodies, s \in Statuses : Update(c, b, s)
  <2>1. CASE Delete(c)
    <3>1. Active(c) /\ content.status # "ABSENT"
      BY <2>1, Begun DEF Delete, Active
    <3>2. /\ content'.version = content.version
          /\ content'.body = content.body
          /\ content'.generated = content.generated
          /\ content'.status = content.status
      BY <2>1 DEF Delete, TypeOK, Row
    <3> QED
      BY <2>1, <3>1, <3>2, WorkIsQuiet DEF Delete
  <2> QED
    BY <1>1, <2>1, ReadIsQuiet DEF Edit, ReadToUpdate, ReadToDelete, Ops
<1>2. ASSUME NEW c \in Transactions, NEW s \in Statuses, Active(c), WriteStatus(c, s),
             End(c), UNCHANGED <<history, shown>>
      PROVE  Quiet
  <2>1. content.status # "ABSENT" /\ s # "ABSENT"
    BY <1>2, Begun DEF Statuses
  <2> QED
    BY <1>2, <2>1, StatusRow, WorkIsQuiet
<1>3. ASSUME NEW c \in Transactions, NEW op \in Ops, NEW i \in Nat, Active(c),
             Goto(c, op, i), UNCHANGED <<content, history, shown>>
      PROVE  Quiet
  <2>1. content.status # "ABSENT"
    BY <1>3, Begun
  <2> QED
    BY <1>3, <2>1, WorkIsQuiet
<1>4. ASSUME NEW c \in Transactions, Review(c)
      PROVE  Quiet
  <2>1. CASE ReadToSubmit(c) \/ ReadToApprove(c)
    BY <2>1, ReadIsQuiet DEF ReadToSubmit, ReadToApprove, Ops
  <2>2. CASE InsertApproval(c)
    <3>1. Len(approvals) + 1 \in Nat
      BY DEF TypeOK
    <3> QED
      BY <2>2, <3>1, <1>3 DEF InsertApproval, Active, Ops
  <2>3. CASE Submit(c)
    BY <2>3, <1>2 DEF Submit, Active, Statuses
  <2>4. CASE \E i \in DOMAIN approvals : PickApproval(c, i)
    BY <2>4, <1>3 DEF PickApproval, Active, Ops, TypeOK
  <2>5. CASE \E d \in Decisions : Approve(c, d)
    BY <2>5, <1>2 DEF Approve, Active, StatusAfter, Statuses
  <2> QED
    BY <1>4, <2>1, <2>2, <2>3, <2>4, <2>5 DEF Review
<1>5. ASSUME NEW c \in Transactions, Execute(c)
      PROVE  Quiet
  <2>1. CASE ReadToPublish(c)
    BY <2>1, ReadIsQuiet DEF ReadToPublish, Ops
  <2>2. CASE \E i \in DOMAIN approvals : PassGate(c, i)
    BY <2>2, <1>3 DEF PassGate, Active, Ops, TypeOK
  <2>3. CASE SkipGate(c)
    BY <2>3, <1>3 DEF SkipGate, Active, Ops
  <2>4. CASE Post(c)
    <3>1. call[c].slot \in Nat
      BY DEF TypeOK, Call
    <3> QED
      BY <2>4, <3>1, <1>3 DEF Post, Active, Ops
  <2>5. CASE Publish(c) \/ PublishFails(c)
    BY <2>5, <1>2 DEF Publish, PublishFails, Active, Statuses
  <2> QED
    BY <1>5, <2>1, <2>2, <2>3, <2>4, <2>5 DEF Execute
<1>6. ASSUME NEW c \in Transactions, Abandon(c)
      PROVE  Quiet
  <2>1. content.status # "ABSENT"
    BY <1>6, Begun DEF Abandon, Active
  <2> QED
    BY <1>6, <2>1, WorkIsQuiet DEF Abandon, Active
<1>7. CASE UNCHANGED vars
  BY <1>7 DEF vars, Quiet, Active
<1>8. ASSUME NEW b \in Bodies, Generate(b)
      PROVE  Quiet
  <2>1. /\ content'.body = b /\ content'.generated /\ content'.version = content.version
        /\ content'.status = content.status /\ content.status # "ABSENT"
    BY <1>8 DEF Generate, TypeOK, Row
  <2> QED
    BY <1>8, <2>1 DEF Generate, Quiet, Active
<1> QED
  BY <1>1, <1>4, <1>5, <1>6, <1>7, <1>8 DEF Next

HistoryInv == Created /\ Copies /\ HistoryHasNoGaps /\ InOrder /\ LossesAreVisible

LEMMA InitHistory == Init => HistoryInv
BY DEF Init, HistoryInv, Created, Copies, HistoryHasNoGaps, InOrder,
       LossesAreVisible, Active, Absent, Idle, Updates

LEMMA QuietHistory ==
  ASSUME TypeOK, TypeOK', HistoryInv, Quiet
  PROVE  HistoryInv'
<1> USE DEF HistoryInv
<1>1. Updates' = Updates /\ (Distinct' <=> Distinct)
  BY DEF Quiet, Updates, Distinct
<1>2. \A v \in Nat : Covers(v) => Covers(v)'
  BY <1>1 DEF Quiet, Covers
<1>3. content.version \in Nat /\ (HistoryHasNoGaps <=> Covers(content.version))
  BY DEF TypeOK, Row, HistoryHasNoGaps, Covers
<1>4. Created'
  BY DEF Created, Quiet
<1>5. Copies'
  <2> SUFFICES ASSUME NEW d \in Transactions, Active(d)'
               PROVE  call'[d].row.version >= 1 /\ Covers(call[d].row.version)'
    BY DEF Copies
  <2>1. CASE Active(d) /\ call'[d].row = call[d].row
    <3>1. call[d].row.version \in Nat
      BY DEF TypeOK, Call, Row
    <3>2. call[d].row.version >= 1 /\ Covers(call[d].row.version)
      BY <2>1 DEF Copies
    <3> QED
      BY <2>1, <3>1, <3>2, <1>1 DEF Covers, Quiet
  <2>2. CASE content.status # "ABSENT" /\ call'[d].row = content
    <3>1. content.version >= 1
      BY <2>2 DEF Created
    <3> QED
      BY <2>2, <3>1, <1>1, <1>3 DEF Covers, Quiet
  <2> QED
    BY <2>1, <2>2 DEF Quiet
<1>6. HistoryHasNoGaps'
  BY <1>1 DEF Quiet, HistoryHasNoGaps
<1>7. InOrder'
  <2> SUFFICES ASSUME Distinct, ~content'.generated
               PROVE  /\ content'.version = Len(history')
                      /\ \A i \in Updates' : history'[i].version = i - 1
                      /\ \A d \in Transactions : Active(d)' =>
                           /\ call'[d].row.version <= content'.version
                           /\ call'[d].row.version = content'.version =>
                                call'[d].row.body = content'.body
    BY <1>1 DEF InOrder
  <2>1. content'.version = Len(history') /\ \A i \in Updates' : history'[i].version = i - 1
    BY <1>1 DEF Quiet, InOrder
  <2>2. ASSUME NEW d \in Transactions, Active(d)'
        PROVE  /\ call'[d].row.version <= content'.version
               /\ call'[d].row.version = content'.version =>
                    call'[d].row.body = content'.body
    <3>1. CASE Active(d) /\ call'[d].row = call[d].row
      BY <3>1 DEF InOrder, Quiet
    <3>2. CASE call'[d].row = content
      BY <3>2, <1>3 DEF Quiet
    <3> QED
      BY <2>2, <3>1, <3>2 DEF Quiet
  <2> QED
    BY <2>1, <2>2
<1>8. LossesAreVisible'
  BY <1>1 DEF Quiet, LossesAreVisible
<1> QED
  BY <1>4, <1>5, <1>6, <1>7, <1>8

LEMMA CreateHistory ==
  ASSUME TypeOK, TypeOK', HistoryInv,
         NEW s \in {"DRAFT", "SCHEDULED"}, NEW b \in Bodies, Create(s, b)
  PROVE  HistoryInv'
<1> USE DEF HistoryInv
<1>1. /\ Len(history') = 1
      /\ history'[1] = [version |-> 1, body |-> b]
      /\ DOMAIN history' = {1}
      /\ Updates' = {}
  BY DEF Create, Updates
<1>2. /\ content' = [status |-> s, version |-> 1, body |-> b,
                    generated |-> FALSE, deleted |-> FALSE]
      /\ shown' = {b}
      /\ s # "ABSENT"
  BY DEF Create
<1>3. \A c \in Transactions : ~Active(c)'
  BY DEF Create, Created, Active, Idle
<1> QED
  BY <1>1, <1>2, <1>3
  DEF Created, Copies, HistoryHasNoGaps, InOrder, LossesAreVisible

\* What an update does to the history.
LEMMA UpdateFacts ==
  ASSUME TypeOK, HistoryInv,
         NEW c \in Transactions, NEW b \in Bodies, NEW s \in Statuses, Update(c, b, s)
  PROVE  /\ Active(c)
         /\ Len(history) \in Nat /\ Len(history) >= 1
         /\ Len(history') = Len(history) + 1
         /\ \A i \in DOMAIN history : i \in DOMAIN history' /\ history'[i] = history[i]
         /\ Len(history) + 1 \in DOMAIN history'
         /\ history'[Len(history) + 1].version = call[c].row.version
         /\ history'[Len(history) + 1].body = call[c].row.body
         /\ Updates' = Updates \cup {Len(history) + 1}
         /\ Updates \subseteq DOMAIN history
         /\ call[c].row.version \in Nat
         /\ content'.version = call[c].row.version + 1
         /\ content'.generated = content.generated
         /\ shown' = shown \cup {content'.body}
         /\ \A d \in Transactions : Active(d)' => Active(d) /\ call'[d] = call[d]
<1>1. Active(c)
  BY DEF Update, Active
<1>2. Len(history) \in Nat /\ Len(history) >= 1
  BY <1>1, Begun DEF HistoryInv, TypeOK
<1>3. history' = Append(history, [version |-> call[c].row.version,
                                  body    |-> call[c].row.body])
  BY DEF Update
<1>4. /\ Len(history') = Len(history) + 1
      /\ DOMAIN history' = 1 .. (Len(history) + 1)
      /\ DOMAIN history = 1 .. Len(history)
      /\ \A i \in 1 .. Len(history) : history'[i] = history[i]
      /\ history'[Len(history) + 1] = [version |-> call[c].row.version,
                                       body    |-> call[c].row.body]
  BY <1>2, <1>3 DEF TypeOK
<1>5. Updates' = Updates \cup {Len(history) + 1} /\ Updates \subseteq DOMAIN history
  BY <1>2, <1>4 DEF Updates
<1>6. call[c].row.version \in Nat
  BY DEF TypeOK, Call, Row
<1>7. /\ content'.version = call[c].row.version + 1
      /\ content'.generated = content.generated
      /\ shown' = shown \cup {content'.body}
  BY UpdatedRow DEF Update
<1>8. \A d \in Transactions : Active(d)' => Active(d) /\ call'[d] = call[d]
  BY DEF Update, End, Active, TypeOK, Idle
<1> QED
  BY <1>1, <1>2, <1>4, <1>5, <1>6, <1>7, <1>8

LEMMA UpdateHistory ==
  ASSUME TypeOK, TypeOK', HistoryInv,
         NEW c \in Transactions, NEW b \in Bodies, NEW s \in Statuses, Update(c, b, s)
  PROVE  HistoryInv'
<1> USE DEF HistoryInv
<1> DEFINE n == Len(history)
           r == call[c].row
<1>1. /\ Active(c)
      /\ n \in Nat /\ n >= 1
      /\ Len(history') = n + 1
      /\ \A i \in DOMAIN history : i \in DOMAIN history' /\ history'[i] = history[i]
      /\ n + 1 \in DOMAIN history'
      /\ history'[n + 1].version = r.version
      /\ history'[n + 1].body = r.body
      /\ Updates' = Updates \cup {n + 1}
      /\ Updates \subseteq DOMAIN history
      /\ r.version \in Nat
      /\ content'.version = r.version + 1
      /\ content'.generated = content.generated
      /\ shown' = shown \cup {content'.body}
      /\ \A d \in Transactions : Active(d)' => Active(d) /\ call'[d] = call[d]
  BY UpdateFacts
<1>2. r.version >= 1 /\ Covers(r.version)
  BY <1>1 DEF Copies
<1>3. \A v \in Nat : Covers(v) =>
        \A k \in 1 .. (v - 1) : \E i \in Updates' : history'[i].version = k
  BY <1>1 DEF Covers
<1>4. content.status # "ABSENT"
  BY <1>1, Begun
<1>5. Created'
  <2>1. content'.status # "ABSENT"
    BY <1>4, UpdatedRow DEF Update, Statuses
  <2>2. content'.body \in Bodies
    BY <1>1, Begun, UpdatedRow DEF Update
  <2> QED
    BY <1>1, <1>2, <2>1, <2>2 DEF Created
<1>6. Copies'
  <2> SUFFICES ASSUME NEW d \in Transactions, Active(d)'
               PROVE  call'[d].row.version >= 1 /\ Covers(call[d].row.version)'
    BY DEF Copies
  <2>1. Active(d) /\ call'[d] = call[d] /\ call[d].row.version \in Nat
    BY <1>1 DEF TypeOK, Call, Row
  <2> QED
    BY <2>1, <1>3 DEF Copies, Covers
<1>7. HistoryHasNoGaps'
  <2> SUFFICES ASSUME NEW k \in 1 .. r.version
               PROVE  \E i \in Updates' : history'[i].version = k
    <3>1. HistoryHasNoGaps' <=>
            \A k \in 1 .. (content'.version - 1) : \E i \in Updates' : history'[i].version = k
      BY DEF HistoryHasNoGaps
    <3>2. content'.version - 1 = r.version
      BY <1>1
    <3> QED
      BY <3>1, <3>2
  <2>1. CASE k = r.version
    BY <2>1, <1>1
  <2>2. CASE k \in 1 .. (r.version - 1)
    BY <2>2, <1>1, <1>2, <1>3
  <2> QED
    BY <1>1, <2>1, <2>2
<1>8. ASSUME Distinct', ~content.generated
      PROVE  /\ Distinct
             /\ content.version = n
             /\ \A i \in Updates : history[i].version = i - 1
             /\ r.version = n
             /\ r.body = content.body
  <2>1. Distinct
    BY <1>1, <1>8 DEF Distinct
  <2>2. /\ content.version = n
        /\ \A i \in Updates : history[i].version = i - 1
        /\ r.version <= n
        /\ r.version = n => r.body = content.body
    BY <1>1, <1>8, <2>1 DEF InOrder
  <2>3. r.version = n
    <3>1. ASSUME r.version < n
          PROVE  FALSE
      <4>1. r.version + 1 \in Updates
        BY <1>1, <1>2, <3>1 DEF Updates
      <4>2. /\ r.version + 1 \in Updates'
            /\ n + 1 \in Updates'
            /\ history'[r.version + 1].version = history'[n + 1].version
        BY <1>1, <2>2, <4>1
      <4>3. r.version + 1 = n + 1
        BY <1>8, <4>2 DEF Distinct
      <4> QED
        BY <1>1, <3>1, <4>3
    <3> QED
      BY <1>1, <2>2, <3>1
  <2> QED
    BY <2>1, <2>2, <2>3
<1>9. InOrder'
  <2> SUFFICES ASSUME Distinct', ~content.generated
               PROVE  /\ content'.version = Len(history')
                      /\ \A i \in Updates' : history'[i].version = i - 1
                      /\ \A d \in Transactions : Active(d)' =>
                           /\ call'[d].row.version <= content'.version
                           /\ call'[d].row.version = content'.version =>
                                call'[d].row.body = content'.body
    BY <1>1 DEF InOrder
  <2>1. content'.version = Len(history') /\ \A i \in Updates' : history'[i].version = i - 1
    BY <1>1, <1>8
  <2>2. ASSUME NEW d \in Transactions, Active(d)'
        PROVE  call'[d].row.version < content'.version
    <3>1. Active(d) /\ call'[d] = call[d] /\ call[d].row.version \in Nat
      BY <2>2, <1>1 DEF TypeOK, Call, Row
    <3>2. call[d].row.version <= n
      BY <3>1, <1>8 DEF InOrder
    <3> QED
      BY <1>1, <1>8, <3>1, <3>2
  <2>3. \A d \in Transactions : Active(d)' =>
          call'[d].row.version \in Nat /\ content'.version \in Nat
    BY DEF TypeOK, Call, Row
  <2> QED
    BY <2>1, <2>2, <2>3
<1>10. LossesAreVisible'
  <2> SUFFICES ASSUME Distinct', ~content.generated, NEW x \in shown'
               PROVE  \/ content'.body = x
                      \/ \E i \in DOMAIN history' : history'[i].body = x
    BY <1>1 DEF LossesAreVisible, Distinct
  <2>1. CASE x \in shown
    <3>1. content.body = x \/ \E i \in DOMAIN history : history[i].body = x
      BY <1>8, <2>1 DEF LossesAreVisible, Distinct
    <3> QED
      BY <1>1, <1>8, <3>1
  <2>2. CASE x = content'.body
    BY <2>2
  <2> QED
    BY <1>1, <2>1, <2>2
<1> QED
  BY <1>5, <1>6, <1>7, <1>9, <1>10

-----------------------------------------------------------------------------
(* Reviews and posts. *)

PostInv == Slots /\ Posted /\ PublishedMeansPosted /\ NothingUnreviewedIsPosted

LEMMA InitPosts == Init => PostInv
BY DEF Init, PostInv, Slots, Posted, PublishedMeansPosted,
       NothingUnreviewedIsPosted, Absent, Idle

\* A step that touches neither approvals nor posts, after which each transaction
\* is where it was, or in a place that says nothing about them.
LEMMA BystanderPosts ==
  ASSUME PostInv, UNCHANGED <<approvals, posts>>,
         content'.status = "PUBLISHED" => content.status = "PUBLISHED" \/ posts # {},
         \A d \in Transactions :
           call'[d] = call[d] \/ call'[d].op \in {"idle", "update", "delete", "submit",
                                                   "approve", "publish"}
  PROVE  PostInv'
BY DEF PostInv, Slots, Posted, PublishedMeansPosted, NothingUnreviewedIsPosted

LEMMA ReadPosts ==
  ASSUME TypeOK, PostInv, NEW c \in Transactions,
         NEW op \in {"update", "delete", "submit", "approve", "publish"}, Read(c, op)
  PROVE  PostInv'
<1>1. \A d \in Transactions : call'[d] = call[d] \/ call'[d].op = op
  BY DEF TypeOK, Read
<1> QED
  BY <1>1, BystanderPosts DEF Read

\* The end of a transaction that may have written the status.
LEMMA EndPosts ==
  ASSUME TypeOK, PostInv, NEW c \in Transactions, End(c),
         UNCHANGED <<approvals, posts>>,
         content'.status = "PUBLISHED" => content.status = "PUBLISHED" \/ posts # {}
  PROVE  PostInv'
<1>1. \A d \in Transactions : call'[d] = call[d] \/ call'[d].op = "idle"
  BY DEF TypeOK, End, Idle
<1> QED
  BY <1>1, BystanderPosts

LEMMA EditPosts ==
  ASSUME TypeOK, PostInv, NEW c \in Transactions, Edit(c)
  PROVE  PostInv'
<1>1. CASE \E b \in Bodies, s \in Statuses : Update(c, b, s)
  <2>1. PICK b \in Bodies, s \in Statuses : Update(c, b, s)
    BY <1>1
  <2>2. s = call[c].row.status \/ s \in Requestable
    BY <2>1 DEF Update, Reachable
  <2>3. content'.status = "PUBLISHED" => content.status = "PUBLISHED"
    BY <2>1, <2>2 DEF Update, Updated, Column, Requestable
  <2> QED
    BY <2>1, <2>3, EndPosts DEF Update
<1>2. CASE Delete(c)
  <2>1. content'.status = content.status
    BY <1>2 DEF Delete, TypeOK, Row
  <2> QED
    BY <1>2, <2>1, EndPosts DEF Delete
<1> QED
  BY <1>1, <1>2, ReadPosts DEF Edit, ReadToUpdate, ReadToDelete

\* A row of approvals is written by a transaction that owns it, and what is known
\* of the others' rows stays.
LEMMA ReviewPosts ==
  ASSUME TypeOK, PostInv, NEW c \in Transactions, Review(c)
  PROVE  PostInv'
<1> USE DEF PostInv
<1>1. CASE ReadToSubmit(c) \/ ReadToApprove(c)
  BY <1>1, ReadPosts DEF ReadToSubmit, ReadToApprove
<1>2. CASE InsertApproval(c)
  <2>1. /\ Len(approvals) \in Nat
        /\ DOMAIN approvals = 1 .. Len(approvals)
        /\ DOMAIN approvals' = 1 .. (Len(approvals) + 1)
        /\ \A i \in DOMAIN approvals : approvals'[i] = approvals[i]
        /\ approvals'[Len(approvals) + 1] = "INSERTED"
    BY <1>2 DEF InsertApproval, TypeOK
  <2>2. /\ call'[c].op = "inserted" /\ call'[c].slot = Len(approvals) + 1
        /\ \A d \in Transactions \ {c} : call'[d] = call[d]
        /\ UNCHANGED <<content, posts>>
    BY <1>2 DEF InsertApproval, Goto, TypeOK
  <2>3. Slots'
    BY <2>1, <2>2 DEF Slots
  <2>4. Posted' /\ PublishedMeansPosted'
    BY <2>2 DEF Posted, PublishedMeansPosted
  <2>5. NothingUnreviewedIsPosted'
    BY <2>1, <2>2 DEF NothingUnreviewedIsPosted
  <2> QED
    BY <2>3, <2>4, <2>5
<1>3. CASE Submit(c)
  <2>1. /\ call[c].op = "inserted"
        /\ call[c].slot \in DOMAIN approvals
        /\ approvals[call[c].slot] = "INSERTED"
    BY <1>3 DEF Submit, Slots
  <2>2. /\ DOMAIN approvals' = DOMAIN approvals
        /\ approvals'[call[c].slot] = "PENDING"
        /\ \A i \in DOMAIN approvals \ {call[c].slot} : approvals'[i] = approvals[i]
    BY <1>3, <2>1 DEF Submit, TypeOK
  <2>3. /\ call'[c].op = "idle"
        /\ \A d \in Transactions \ {c} : call'[d] = call[d]
        /\ posts' = posts
    BY <1>3 DEF Submit, End, TypeOK, Idle
  <2>4. content'.status \in {"IN_REVIEW", content.status}
    BY <1>3, StatusRow DEF Submit, Statuses
  <2>5. Slots'
    BY <2>1, <2>2, <2>3 DEF Slots, Decisions
  <2>6. Posted' /\ PublishedMeansPosted'
    BY <2>3, <2>4 DEF Posted, PublishedMeansPosted
  <2>7. NothingUnreviewedIsPosted'
    BY <2>1, <2>2, <2>3 DEF NothingUnreviewedIsPosted, Decisions
  <2> QED
    BY <2>5, <2>6, <2>7
<1>4. ASSUME NEW i \in DOMAIN approvals, PickApproval(c, i)
      PROVE  PostInv'
  <2>1. /\ i \in DOMAIN approvals /\ approvals[i] = "PENDING"
        /\ call'[c].op = "decide" /\ call'[c].slot = i
        /\ \A d \in Transactions \ {c} : call'[d] = call[d]
        /\ UNCHANGED <<content, approvals, posts>>
    BY <1>4 DEF PickApproval, IsLatest, Pending, Goto, TypeOK
  <2>2. Slots'
    BY <2>1 DEF Slots
  <2> QED
    BY <2>1, <2>2 DEF Posted, PublishedMeansPosted, NothingUnreviewedIsPosted
<1>5. ASSUME NEW d \in Decisions, Approve(c, d)
      PROVE  PostInv'
  <2>1. /\ call[c].op = "decide"
        /\ call[c].slot \in DOMAIN approvals
        /\ approvals[call[c].slot] # "INSERTED"
    BY <1>5 DEF Approve, Slots
  <2>2. /\ DOMAIN approvals' = DOMAIN approvals
        /\ approvals'[call[c].slot] = d
        /\ \A i \in DOMAIN approvals \ {call[c].slot} : approvals'[i] = approvals[i]
    BY <1>5, <2>1 DEF Approve, TypeOK
  <2>3. /\ call'[c].op = "idle"
        /\ \A e \in Transactions \ {c} : call'[e] = call[e]
        /\ posts' = posts
    BY <1>5 DEF Approve, End, TypeOK, Idle
  <2>4. content'.status \in {"APPROVED", "DRAFT", content.status}
    BY <1>5, StatusRow DEF Approve, StatusAfter, Statuses
  <2>5. Slots'
    BY <2>1, <2>2, <2>3 DEF Slots, Decisions
  <2>6. Posted' /\ PublishedMeansPosted'
    BY <2>3, <2>4 DEF Posted, PublishedMeansPosted
  <2>7. NothingUnreviewedIsPosted'
    BY <2>1, <2>2, <2>3 DEF NothingUnreviewedIsPosted
  <2> QED
    BY <2>5, <2>6, <2>7
<1> QED
  BY <1>1, <1>2, <1>3, <1>4, <1>5 DEF Review

LEMMA ExecutePosts ==
  ASSUME TypeOK, PostInv, NEW c \in Transactions, Execute(c)
  PROVE  PostInv'
<1> USE DEF PostInv
<1>1. ASSUME NEW i \in Nat, Goto(c, "cleared", i), UNCHANGED <<content, approvals, posts>>,
             i # 0 => i \in DOMAIN approvals /\ approvals[i] \in Decisions
      PROVE  PostInv'
  <2>1. /\ call'[c].op = "cleared" /\ call'[c].slot = i
        /\ \A d \in Transactions \ {c} : call'[d] = call[d]
    BY <1>1 DEF Goto, TypeOK
  <2>2. Slots'
    BY <1>1, <2>1 DEF Slots
  <2> QED
    BY <1>1, <2>1, <2>2 DEF Posted, PublishedMeansPosted, NothingUnreviewedIsPosted
<1>2. CASE \E i \in DOMAIN approvals : PassGate(c, i)
  BY <1>2, <1>1 DEF PassGate, TypeOK, Decisions
<1>3. CASE SkipGate(c)
  BY <1>3, <1>1 DEF SkipGate
<1>4. CASE Post(c)
  <2>1. /\ call[c].op = "cleared"
        /\ call'[c].op = "posted" /\ call'[c].slot = call[c].slot
        /\ \A d \in Transactions \ {c} : call'[d] = call[d]
        /\ posts' = posts \cup {call[c].slot}
        /\ UNCHANGED <<content, approvals>>
    BY <1>4 DEF Post, Goto, TypeOK
  <2>2. Slots'
    BY <2>1 DEF Slots
  <2>3. NothingUnreviewedIsPosted'
    BY <2>1 DEF Slots, NothingUnreviewedIsPosted
  <2> QED
    BY <2>1, <2>2, <2>3 DEF Posted, PublishedMeansPosted
<1>5. CASE Publish(c)
  <2>1. posts # {}
    BY <1>5 DEF Publish, Posted
  <2> QED
    BY <1>5, <2>1, EndPosts DEF Publish
<1>6. CASE PublishFails(c)
  <2>1. content'.status \in {"FAILED", content.status}
    BY <1>6, StatusRow DEF PublishFails, Statuses
  <2> QED
    BY <1>6, <2>1, EndPosts DEF PublishFails
<1> QED
  BY <1>2, <1>3, <1>4, <1>5, <1>6, ReadPosts DEF Execute, ReadToPublish

LEMMA StepPosts ==
  ASSUME TypeOK, PostInv, [Next]_vars
  PROVE  PostInv'
<1>1. ASSUME NEW s \in {"DRAFT", "SCHEDULED"}, NEW b \in Bodies, Create(s, b)
      PROVE  PostInv'
  <2>1. content'.status = s
    BY <1>1 DEF Create
  <2> QED
    BY <1>1, <2>1, BystanderPosts DEF Create
<1>2. ASSUME NEW c \in Transactions, Abandon(c)
      PROVE  PostInv'
  BY <1>2, EndPosts DEF Abandon
<1>3. CASE UNCHANGED vars
  BY <1>3, BystanderPosts DEF vars
<1>4. ASSUME NEW b \in Bodies, Generate(b)
      PROVE  PostInv'
  <2>1. content'.status = content.status
    BY <1>4 DEF Generate, TypeOK, Row
  <2> QED
    BY <1>4, <2>1, BystanderPosts DEF Generate
<1> QED
  BY <1>1, <1>2, <1>3, <1>4, EditPosts, ReviewPosts, ExecutePosts DEF Next

-----------------------------------------------------------------------------
(* The theorems. *)

LEMMA StepHistory ==
  ASSUME TypeOK, TypeOK', HistoryInv, Slots, [Next]_vars
  PROVE  HistoryInv'
BY StepIsQuiet, QuietHistory, CreateHistory, UpdateHistory DEF HistoryInv

THEOREM Inductive == Spec => []IInv
<1>1. IInv <=> TypeOK /\ HistoryInv /\ PostInv
  BY DEF IInv, HistoryInv, PostInv
<1>2. Init => IInv
  BY <1>1, InitTypes, InitHistory, InitPosts
<1>3. IInv /\ [Next]_vars => IInv'
  <2> SUFFICES ASSUME TypeOK, HistoryInv, PostInv, [Next]_vars
               PROVE  TypeOK' /\ HistoryInv' /\ PostInv'
    BY DEF IInv, HistoryInv, PostInv
  <2>1. TypeOK'
    BY StepTypes DEF HistoryInv, PostInv
  <2>2. HistoryInv'
    BY <2>1, StepHistory DEF PostInv
  <2> QED
    BY <2>1, <2>2, StepPosts
<1> QED
  BY <1>2, <1>3, PTL DEF Spec

\* The content, its history, its reviews and the copies of the transactions keep
\* their types.
THEOREM ContentTypes == Spec => []TypeOK
<1>1. IInv => TypeOK
  BY DEF IInv
<1> QED
  BY <1>1, Inductive, PTL

\* For each number below the version of the content there is a snapshot.
THEOREM HistoryIsContiguous == Spec => []HistoryHasNoGaps
<1>1. IInv => HistoryHasNoGaps
  BY DEF IInv
<1> QED
  BY <1>1, Inductive, PTL

\* A text can be lost only if two snapshots carry the same number.
THEOREM LossesLeaveAMark == Spec => []LossesAreVisible
<1>1. IInv => LossesAreVisible
  BY DEF IInv
<1> QED
  BY <1>1, Inductive, PTL

\* A content that is PUBLISHED has been posted.
THEOREM PublishedIsPosted == Spec => []PublishedMeansPosted
<1>1. IInv => PublishedMeansPosted
  BY DEF IInv
<1> QED
  BY <1>1, Inductive, PTL

\* Behind each post of a job that requires an approval stands a decided review.
THEOREM PostsAreReviewed == Spec => []NothingUnreviewedIsPosted
<1>1. IInv => NothingUnreviewedIsPosted
  BY DEF IInv
<1> QED
  BY <1>1, Inductive, PTL

=============================================================================
