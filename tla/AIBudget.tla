------------------------------ MODULE AIBudget ------------------------------
(***************************************************************************)
(* The monthly AI budget of one workspace (modules/ai/service.py): a       *)
(* request for a caption or a plan checks what was spent, asks the         *)
(* provider, and adds the cost to the usage row of the month.              *)
(*                                                                         *)
(* Each request is one transaction.  It reads the usage row after the      *)
(* provider has answered and writes the sum that it has computed: the      *)
(* INSERT or UPDATE waits while another request has written the row.  The  *)
(* rows of the two metrics are written together and stand for one here.    *)
(* What the provider has written (caption, plan or rubbish that does not   *)
(* parse) makes no difference: it is stored and charged.                   *)
(***************************************************************************)
EXTENDS Integers, FiniteSets

CONSTANTS
  Generators,   (* requests to /ai                                             *)
  Budget,       (* monthly_budget_cents; 0 or less: no budget                  *)
  MaxCost,      (* bound on the cost of one completion, in cents               *)
  LastMonth,    (* bound on time                                               *)
  MaxStored     (* bound on what is stored in a month                          *)

ASSUME BudgetAssumption ==
  /\ Budget \in Int
  /\ {MaxCost, LastMonth, MaxStored} \subseteq Nat
  /\ IsFiniteSet(Generators)

VARIABLES
  month,        (* the current month                                           *)
  usage,        (* the rows of usage_records, by period_start                  *)
  generated,    (* cost_cents of the rows of ai_generations, by month          *)
  request,      (* the transaction of each request                             *)
  outrun,       (* history: requests whose reads precede another one's commit  *)
  drifted       (* history: such a request has committed                       *)

aiVars == <<month, usage, generated, request, outrun, drifted>>

-----------------------------------------------------------------------------

Months == 0 .. LastMonth
Costs == 0 .. MaxCost

UsageRow == [there : BOOLEAN, quantity : Nat]
NoUsage == [there |-> FALSE, quantity |-> 0]

Generation == [step : {"idle", "calling", "recording", "written"},
               cost : Costs, month : Months, read : UsageRow]
NoGeneration == [step |-> "idle", cost |-> 0, month |-> 0, read |-> NoUsage]

AITypeOK ==
  /\ month \in Months
  /\ usage \in [Months -> UsageRow]
  /\ generated \in [Months -> Nat]
  /\ request \in [Generators -> Generation]
  /\ outrun \in SUBSET Generators
  /\ drifted \in BOOLEAN

AIInit ==
  /\ month = 0
  /\ usage = [m \in Months |-> NoUsage]
  /\ generated = [m \in Months |-> 0]
  /\ request = [c \in Generators |-> NoGeneration]
  /\ outrun = {}
  /\ drifted = FALSE

-----------------------------------------------------------------------------

MonthEnds ==
  /\ month < LastMonth
  /\ month' = month + 1
  /\ UNCHANGED <<usage, generated, request, outrun, drifted>>

\* Mutant of EnforceBudget: what is left is not looked at once it is overdrawn.
EnforceBudgetExactly(c) ==
  /\ request[c].step = "idle"
  /\ Budget <= 0 \/ usage[month].quantity # Budget
  /\ generated[month] + MaxCost <= MaxStored
  /\ request' = [request EXCEPT ![c].step = "calling"]
  /\ UNCHANGED <<month, usage, generated, outrun, drifted>>

\* _enforce_budget: spent_this_month sums the rows of the month.
EnforceBudget(c) ==
  /\ request[c].step = "idle"
  /\ Budget <= 0 \/ usage[month].quantity < Budget
  /\ generated[month] + MaxCost <= MaxStored
  /\ request' = [request EXCEPT ![c].step = "calling"]
  /\ UNCHANGED <<month, usage, generated, outrun, drifted>>

\* The provider has answered; _record_usage reads the row of the month that has
\* come by now.
Completion(c, cost) ==
  /\ request[c].step = "calling"
  /\ request' = [request EXCEPT ![c] =
       [step |-> "recording", cost |-> cost, month |-> month,
        read |-> usage[month]]]
  /\ UNCHANGED <<month, usage, generated, outrun, drifted>>

\* No other request has written the row and not committed.
UsageIsFree(c) ==
  \A d \in Generators \ {c} :
    request[d].step = "written" => request[d].month # request[c].month

\* The row is inserted, or gets the sum.
WriteUsage(c) ==
  /\ request[c].step = "recording" /\ UsageIsFree(c)
  /\ request[c].read.there \/ ~usage[request[c].month].there
  /\ request' = [request EXCEPT ![c].step = "written"]
  /\ UNCHANGED <<month, usage, generated, outrun, drifted>>

\* Requests that have read the row that c has written.
Outruns(c) == {d \in Generators : /\ request[d].step = "recording"
                                  /\ request[d].month = request[c].month}

\* Mutant of CommitGeneration: the row gets the cost alone.
CommitGenerationAlone(c) ==
  LET r == request[c] IN
  /\ r.step = "written"
  /\ usage' = [usage EXCEPT ![r.month] = [there |-> TRUE, quantity |-> r.cost]]
  /\ generated' = [generated EXCEPT ![r.month] = @ + r.cost]
  /\ request' = [request EXCEPT ![c] = NoGeneration]
  /\ outrun' = (outrun \cup Outruns(c)) \ {c}
  /\ drifted' = (drifted \/ c \in outrun)
  /\ UNCHANGED month

\* The generation, the usage and the audit entry are committed.
CommitGeneration(c) ==
  LET r == request[c] IN
  /\ r.step = "written"
  /\ usage' = [usage EXCEPT ![r.month] =
                 [there |-> TRUE, quantity |-> r.read.quantity + r.cost]]
  /\ generated' = [generated EXCEPT ![r.month] = @ + r.cost]
  /\ request' = [request EXCEPT ![c] = NoGeneration]
  /\ outrun' = (outrun \cup Outruns(c)) \ {c}
  /\ drifted' = (drifted \/ c \in outrun)
  /\ UNCHANGED month

\* The first two requests of a month both insert the row: the unique constraint
\* rolls the later one back, with its generation.
UsageInsertedMeanwhile(c) ==
  /\ request[c].step = "recording" /\ UsageIsFree(c)
  /\ ~request[c].read.there /\ usage[request[c].month].there
  /\ request' = [request EXCEPT ![c] = NoGeneration]
  /\ outrun' = outrun \ {c}
  /\ UNCHANGED <<month, usage, generated, drifted>>

\* The provider refuses, is down or answers in another shape, or the process
\* dies: rolled back, and nothing is stored.
GenerationFails(c) ==
  /\ request[c].step # "idle"
  /\ request' = [request EXCEPT ![c] = NoGeneration]
  /\ outrun' = outrun \ {c}
  /\ UNCHANGED <<month, usage, generated, drifted>>

AINext ==
  \/ MonthEnds
  \/ \E c \in Generators :
       \/ EnforceBudget(c) \/ WriteUsage(c) \/ CommitGeneration(c)
       \/ UsageInsertedMeanwhile(c) \/ GenerationFails(c)
       \/ \E cost \in Costs : Completion(c, cost)

AISpec == AIInit /\ [][AINext]_aiVars

-----------------------------------------------------------------------------
(* Properties. *)

\* "A workspace cannot spend past its monthly AI budget": unless a request
\* commits after another one that it did not see, the generations of a month
\* pass the budget by no more than the completions that were under way at once,
\* those that were asked for in the month before included.
SpendingIsBounded ==
  Budget > 0 /\ ~drifted =>
    \A m \in Months :
      generated[m] <= Budget - 1 + Cardinality(Generators) * MaxCost

\* "Counters never drift" (UsageRecord): unless a request commits after another
\* one that it did not see, the usage of a month is the cost of the generations
\* that are stored for it, failed ones included.
UsageMatchesHistory ==
  ~drifted => \A m \in Months : usage[m].quantity = generated[m]

=============================================================================
