----------------------------- MODULE QuotaWindow -----------------------------
(***************************************************************************)
(* The daily publishing limit of one account (modules/publishing/          *)
(* service.py, _check_daily_quota and _increment_quota): a row of          *)
(* publishing_quota for each hour in which something was published.        *)
(*                                                                         *)
(* A worker handles the jobs of one poll in one transaction.  For each job *)
(* it sums the rows it can see, posts, reads the row of the hour, and      *)
(* writes it: the INSERT or UPDATE waits while another transaction has     *)
(* written that row, and an UPDATE stores the number that was computed     *)
(* from the row as it was read.                                            *)
(***************************************************************************)
EXTENDS Naturals, FiniteSets, Totals

CONSTANTS
  Pollers,      (* workers that execute jobs of the account                    *)
  Batch,        (* jobs that one poll claims                                   *)
  Guard,        (* min(PUBLISH_DAILY_GUARD_LIMIT, 100)                         *)
  Hour,         (* instants in an hour                                         *)
  DayHours,     (* hours in the window: 24                                     *)
  LastInstant,  (* bound on time                                               *)
  MaxPosts      (* bound on posts                                              *)

ASSUME QuotaAssumption ==
  /\ {Batch, Guard, Hour, DayHours} \subseteq Nat \ {0}
  /\ {LastInstant, MaxPosts} \subseteq Nat
  /\ IsFiniteSet(Pollers) /\ Pollers # {}

VARIABLES
  instant,      (* the time                                                    *)
  posted,       (* history: the posts made at each instant                     *)
  used,         (* committed rows of publishing_quota, by hour; 0: no row      *)
  poll,         (* the transaction of each worker                              *)
  stale,        (* history: workers whose reads precede another one's commit   *)
  raced,        (* history: such a worker has committed                        *)
  lost          (* history: posts of polls rolled back, or not reported        *)

quotaVars == <<instant, posted, used, poll, stale, raced, lost>>

-----------------------------------------------------------------------------

Instants == 0 .. LastInstant
HourOf(i) == i \div Hour
Hours == 0 .. HourOf(LastInstant)

\* made: its posts; own: the rows it has written; hour, read: the row it is
\* about to write and what it has read there
PollState == [step : {"ready", "checked", "posted", "counting"}, made : 0 .. Batch,
         own : [Hours -> Nat], hour : Hours, read : Nat]

NoPoll == [step |-> "ready", made |-> 0, own |-> [h \in Hours |-> 0],
           hour |-> 0, read |-> 0]

QuotaTypeOK ==
  /\ instant \in Instants
  /\ posted \in [Instants -> Nat]
  /\ used \in [Hours -> Nat]
  /\ poll \in [Pollers -> PollState]
  /\ stale \in SUBSET Pollers
  /\ raced \in BOOLEAN
  /\ lost \in Nat

QuotaInit ==
  /\ instant = 0
  /\ posted = [i \in Instants |-> 0]
  /\ used = [h \in Hours |-> 0]
  /\ poll = [w \in Pollers |-> NoPoll]
  /\ stale = {}
  /\ raced = FALSE
  /\ lost = 0

\* The row of hour h as worker w sees it, and all of them.
Visible(w, h) == IF poll[w].own[h] # 0 THEN poll[w].own[h] ELSE used[h]
VisibleRows(w) == [h \in Hours |-> Visible(w, h)]

\* window_start >= now - 24 h: the row of an hour leaves the sum DayHours after
\* that hour began, before its last posts are DayHours old.
Counted(i) == {h \in Hours : h * Hour + DayHours * Hour >= i}

SumUsed(w) == Total(VisibleRows(w), Counted(instant))
AllPosts == Total(posted, Instants)

\* Workers that another one's commit may overtake.
Polling == {w \in Pollers : poll[w] # NoPoll}

-----------------------------------------------------------------------------

QuotaTick ==
  /\ instant < LastInstant
  /\ instant' = instant + 1
  /\ UNCHANGED <<posted, used, poll, stale, raced, lost>>

\* Mutant of CheckQuota: the boundary is off by one.
CheckQuotaInclusive(w) ==
  /\ poll[w].step = "ready" /\ poll[w].made < Batch
  /\ SumUsed(w) <= Guard
  /\ poll' = [poll EXCEPT ![w].step = "checked"]
  /\ UNCHANGED <<instant, posted, used, stale, raced, lost>>

\* _check_daily_quota lets the job pass; otherwise the job is not executed.
CheckQuota(w) ==
  /\ poll[w].step = "ready" /\ poll[w].made < Batch
  /\ SumUsed(w) < Guard
  /\ poll' = [poll EXCEPT ![w].step = "checked"]
  /\ UNCHANGED <<instant, posted, used, stale, raced, lost>>

\* Instagram has published.
PostOnce(w) ==
  /\ poll[w].step = "checked"
  /\ AllPosts < MaxPosts
  /\ posted' = [posted EXCEPT ![instant] = @ + 1]
  /\ poll' = [poll EXCEPT ![w].step = "posted", ![w].made = @ + 1]
  /\ UNCHANGED <<instant, used, stale, raced, lost>>

\* Instagram has published and answered with an error: not counted.
PostUnreported(w) ==
  /\ poll[w].step = "checked"
  /\ AllPosts < MaxPosts
  /\ posted' = [posted EXCEPT ![instant] = @ + 1]
  /\ poll' = [poll EXCEPT ![w].step = "ready"]
  /\ lost' = lost + 1
  /\ UNCHANGED <<instant, used, stale, raced>>

\* Instagram has not published.
PostRefused(w) ==
  /\ poll[w].step = "checked"
  /\ poll' = [poll EXCEPT ![w].step = "ready"]
  /\ UNCHANGED <<instant, posted, used, stale, raced, lost>>

\* _increment_quota: the row of this hour ...
ReadRow(w) ==
  /\ poll[w].step = "posted"
  /\ poll' = [poll EXCEPT ![w].step = "counting",
                          ![w].hour = HourOf(instant),
                          ![w].read = Visible(w, HourOf(instant))]
  /\ UNCHANGED <<instant, posted, used, stale, raced, lost>>

\* No other transaction has written the row that w is about to write.
RowIsFree(w) == \A v \in Pollers \ {w} : poll[v].own[poll[w].hour] = 0

\* Mutant of WriteRow: the number that was read is written back.
WriteRowUnchanged(w) ==
  LET p == poll[w] IN
  /\ p.step = "counting" /\ RowIsFree(w)
  /\ p.read = 0 => used[p.hour] = 0
  /\ poll' = [poll EXCEPT ![w].step = "ready",
                          ![w].own[p.hour] = IF p.read = 0 THEN 1 ELSE p.read,
                          ![w].hour = 0, ![w].read = 0]
  /\ UNCHANGED <<instant, posted, used, stale, raced, lost>>

\* ... is inserted with 1, or gets the number that was read, plus 1.
WriteRow(w) ==
  LET p == poll[w] IN
  /\ p.step = "counting" /\ RowIsFree(w)
  /\ p.read = 0 => used[p.hour] = 0
  /\ poll' = [poll EXCEPT ![w].step = "ready",
                          ![w].own[p.hour] = p.read + 1,
                          ![w].hour = 0, ![w].read = 0]
  /\ UNCHANGED <<instant, posted, used, stale, raced, lost>>

\* Another worker has inserted the row meanwhile: the unique constraint aborts
\* the transaction, and every later job of the poll finds it aborted.
RowInsertedMeanwhile(w) ==
  /\ poll[w].step = "counting" /\ RowIsFree(w)
  /\ poll[w].read = 0 /\ used[poll[w].hour] # 0
  /\ poll' = [poll EXCEPT ![w] = NoPoll]
  /\ stale' = stale \ {w}
  /\ lost' = lost + poll[w].made
  /\ UNCHANGED <<instant, posted, used, raced>>

\* The poll ends.
CommitPoll(w) ==
  /\ poll[w].step = "ready" /\ poll[w].made > 0
  /\ used' = VisibleRows(w)
  /\ poll' = [poll EXCEPT ![w] = NoPoll]
  /\ stale' = Polling \ {w}
  /\ raced' = (raced \/ w \in stale)
  /\ UNCHANGED <<instant, posted, lost>>

\* The worker dies, or a claim of the poll fails: the transaction is rolled back.
LosePoll(w) ==
  /\ poll[w] # NoPoll
  /\ poll' = [poll EXCEPT ![w] = NoPoll]
  /\ stale' = stale \ {w}
  /\ lost' = lost + poll[w].made
  /\ UNCHANGED <<instant, posted, used, raced>>

QuotaNext ==
  \/ QuotaTick
  \/ \E w \in Pollers :
       \/ CheckQuota(w) \/ PostOnce(w) \/ PostUnreported(w) \/ PostRefused(w)
       \/ ReadRow(w) \/ WriteRow(w) \/ RowInsertedMeanwhile(w)
       \/ CommitPoll(w) \/ LosePoll(w)

QuotaSpec == QuotaInit /\ [][QuotaNext]_quotaVars

-----------------------------------------------------------------------------
(* Properties. *)

\* Posts that were made, are in no committed row, and belong to no open poll.
Missed ==
  AllPosts - (Total(used, Hours) + Total([w \in Pollers |-> poll[w].made], Pollers))

Span(first, length) ==
  Total(posted, Instants \cap (first .. first + length - 1))

\* "So a tenant cannot silently hit Meta's wall": unless a poll commits after
\* another one that it did not see, in any DayHours - 1 hours no more is posted
\* than the guard, one batch for each other worker that checks at the same time,
\* and the posts that were lost.  The last hour of a day is not covered: the row
\* of an hour leaves the sum before its last posts are a day old.
QuotaOvershootIsBounded ==
  ~raced => \A i \in Instants :
    Span(i, (DayHours - 1) * Hour)
      <= Guard + (Cardinality(Pollers) - 1) * Batch + lost

\* Unless a poll commits after another one that it did not see, the rows hold
\* every post but those of polls that were rolled back and those that Instagram
\* did not report.
SerialCountsAreExact == ~raced => Missed = lost

=============================================================================
