----------------------------- MODULE RateLimiter -----------------------------
(***************************************************************************)
(* The rate limiter for one key (core/rate_limit.py): MemoryLimiter and    *)
(* RedisLimiter get the same hits here, each with its own counter.         *)
(*                                                                         *)
(* A hit is one step in both: MemoryLimiter.hit awaits nothing, and the    *)
(* script runs atomically in Redis.  Time is counted in instants, several  *)
(* to a second, because Retry-After is cut to whole seconds.  An instant   *)
(* of Redis is a millisecond: its keys live through the instant at which   *)
(* they expire, and are gone after it.                                     *)
(***************************************************************************)
EXTENDS Naturals, Totals

CONSTANTS
  Limit,        (* hits that a window admits: RATE_LIMIT_AUTH_PER_MINUTE       *)
  Second,       (* instants in a second                                        *)
  WindowSecs,   (* window_seconds                                              *)
  LastTick,     (* bound on time                                               *)
  MaxHits       (* bound on the hits that a window counts                      *)

ASSUME LimiterAssumption ==
  {Limit, Second, WindowSecs, LastTick, MaxHits} \subseteq Nat \ {0}

Backends == {"memory", "redis"}

VARIABLES
  tick,         (* the time                                                    *)
  counter,      (* of each backend: the count, and the start of its window     *)
  answer,       (* what each backend has answered to the latest hit            *)
  recent,       (* history: hits that each has admitted in each instant of the *)
                (* last window                                                 *)
  told,         (* history: what the first hit that each refused was told, as  *)
                (* an instant; 0 when it has admitted a hit since              *)
  refusedAt     (* history: when each refused the latest hit                   *)

limiterVars == <<tick, counter, answer, recent, told, refusedAt>>

-----------------------------------------------------------------------------

Window == WindowSecs * Second
Ticks == 0 .. LastTick
Ages == 0 .. Window - 1

\* An entry of _buckets, or a key of Redis, which expires at since + Window.
Counter == [count : 0 .. MaxHits, since : Ticks]

\* allowed and reset_after_seconds
Answer == [allowed : BOOLEAN, reset : 0 .. Window]

LimiterTypeOK ==
  /\ tick \in Ticks
  /\ counter \in [Backends -> Counter]
  /\ answer \in [Backends -> Answer]
  /\ recent \in [Backends -> [Ages -> Nat]]
  /\ told \in [Backends -> Nat]
  /\ refusedAt \in [Backends -> Ticks]

LimiterInit ==
  /\ tick = 0
  /\ counter = [b \in Backends |-> [count |-> 0, since |-> 0]]
  /\ answer = [b \in Backends |-> [allowed |-> TRUE, reset |-> Window]]
  /\ recent = [b \in Backends |-> [a \in Ages |-> 0]]
  /\ told = [b \in Backends |-> 0]
  /\ refusedAt = [b \in Backends |-> 0]

-----------------------------------------------------------------------------

Age(b) == tick - counter[b].since

\* The first hit of a window, or one hit more in this one.
CountFrom(b, isNew) ==
  IF isNew THEN [count |-> 1, since |-> tick]
  ELSE [count |-> counter[b].count + 1, since |-> counter[b].since]

\* Mutant of CountInRedis: every hit sets the expiry again.
CountInRedisSliding ==
  IF counter["redis"].count = 0 \/ Age("redis") > Window
  THEN [count |-> 1, since |-> tick]
  ELSE [count |-> counter["redis"].count + 1, since |-> tick]

\* MemoryLimiter.hit: the window is over when its time is up.
CountInMemory ==
  CountFrom("memory", counter["memory"].count = 0 \/ Age("memory") >= Window)

\* INCR, and PEXPIRE for a new key: Redis has dropped the old one when its time
\* is over, but not yet at its last instant.
CountInRedis ==
  CountFrom("redis", counter["redis"].count = 0 \/ Age("redis") > Window)

Count(b) == IF b = "memory" THEN CountInMemory ELSE CountInRedis

\* reset_after_seconds; a PTTL of 0 is taken for a whole window.
ResetAfter(b) ==
  LET left == Window - (tick - Count(b).since) IN
  IF b = "redis" /\ left = 0 THEN Window ELSE left

\* Mutant of MayPass: one hit too many.
MayPassOnceMore(count) == count <= Limit + 1

MayPass(count) == count <= Limit

\* Retry-After: whole seconds, and at least one.
RetryAfter(reset) == IF reset < Second THEN 1 ELSE reset \div Second

Passes(b) == MayPass(Count(b).count)

\* A hit, and what the caller is told by either backend.
Hit ==
  /\ \A b \in Backends : Count(b).count <= MaxHits
  /\ counter' = [b \in Backends |-> Count(b)]
  /\ answer' = [b \in Backends |-> [allowed |-> Passes(b), reset |-> ResetAfter(b)]]
  /\ recent' = [b \in Backends |->
       IF Passes(b) THEN [recent[b] EXCEPT ![0] = @ + 1] ELSE recent[b]]
  /\ told' = [b \in Backends |->
       IF Passes(b) THEN 0
       ELSE IF told[b] = 0 THEN tick + RetryAfter(ResetAfter(b)) * Second
       ELSE told[b]]
  /\ refusedAt' = [b \in Backends |-> IF Passes(b) THEN refusedAt[b] ELSE tick]
  /\ UNCHANGED tick

LimiterTick ==
  /\ tick < LastTick
  /\ tick' = tick + 1
  /\ recent' = [b \in Backends |->
       [a \in Ages |-> IF a = 0 THEN 0 ELSE recent[b][a - 1]]]
  /\ UNCHANGED <<counter, answer, told, refusedAt>>

LimiterNext == Hit \/ LimiterTick

LimiterSpec == LimiterInit /\ [][LimiterNext]_limiterVars

-----------------------------------------------------------------------------
(* Properties. *)

\* A fixed window starts with its first hit, so twice the limit, less that hit,
\* is the most that passes in any period as long as a window, in either backend.
AdmissionsAreBounded ==
  \A b \in Backends : Total(recent[b], Ages) <= 2 * Limit - 1

\* Knocking on does not prolong the wait: from one second after the Retry-After
\* of the first refusal on (it is cut to whole seconds), no hit is refused
\* unless another one was admitted meanwhile, in either backend.
RefusalsEnd ==
  \A b \in Backends : told[b] # 0 => refusedAt[b] < told[b] + Second

=============================================================================
