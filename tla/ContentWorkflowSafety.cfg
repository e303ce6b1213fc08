\* Two overlapping transactions, three texts, the creation and two updates, two
\* submissions.
SPECIFICATION Spec
CONSTANTS
  Transactions = {c1, c2}
  Bodies = {b1, b2, b3}
  NoBody = NoBody
  MaxHistory = 3
  MaxReviews = 2
  MaxPosts = 1
SYMMETRY Symmetry
VIEW View
INVARIANTS
  TypeOK
  HistoryHasNoGaps
  LossesAreVisible
  PublishedMeansPosted
  NothingUnreviewedIsPosted
\* Nobody finds a deleted content: all requests may have ended.
CHECK_DEADLOCK FALSE
