----------------------------- MODULE RateLimit -----------------------------
(***************************************************************************)
(* Rate limiting.  api.checkRateLimits (lib/api.js) and ipc.checkLimiter   *)
(* (lib/ipc.js) ask a queue client for a token.  With the local client     *)
(* (ipc_local.js) a worker asks the master, which keeps every bucket as a  *)
(* string in its LRU cache and computes with metrics.TokenBucket; an       *)
(* answer that does not come in time counts as a grant.  With the Redis    *)
(* client (ipc_redisq.js) a script inside Redis computes, with the time    *)
(* that the caller read before it sent the script.                         *)
(*                                                                         *)
(* One bucket (one key, so one ip, path, login or account), and the calls  *)
(* that use it.  The unit of count is 1/Interval of a token, which makes   *)
(* the refill of a unit of time the integer Rate.  The arithmetic is exact *)
(* where the program's is that of doubles, whose sums may miss a whole     *)
(* token by a rounding; but their conversion is modelled: a remainder that *)
(* should be 0 and is 4.4e-16, and every other count below a millionth, is *)
(* written with an exponent, which lib.toNumber reads with parseInt, as 4  *)
(* tokens.                                                                 *)
(***************************************************************************)
EXTENDS Integers, FiniteSets

CONSTANTS
  Callers,       \* calls of the limiter in the workers
  Patient,       \* those of checkLimiter, which wait and try again
  Rate, Max, Interval,  \* tokens per interval, at most, length of the interval
  Timeout,       \* lib.deferTimeout
  Remotes,       \* where buckets may be: TRUE for Redis, FALSE for the master
  None,          \* no bucket
  Precision,     \* counts below 1/Precision of a token are written with an exponent
  Residues,      \* first digits of such counts
  MaxClock,      \* bound: time
  MaxRequests,   \* bound: requests that are sent
  MaxDisturbances  \* bound: evictions and steps of the clock

ASSUME CallersAssumption == Patient \subseteq Callers
ASSUME RateAssumption == Rate \in Nat \ {0} /\ Max \in Nat \ {0} /\ Interval \in Nat \ {0}
ASSUME ModeAssumption == Timeout \in Nat /\ Remotes \subseteq BOOLEAN /\ None \notin Int
ASSUME NumberAssumption == Precision \in Nat \ {0} /\ Residues \subseteq 1..9
ASSUME LimitBoundAssumption == MaxClock \in Nat /\ MaxRequests \in Nat /\ MaxDisturbances \in Nat

VARIABLES
  remote,        \* is the bucket in Redis?
  clock,         \* true time
  slow,          \* by how much Date.now() is behind it
  count, time,   \* the bucket: _count and _time, count and mtime; count is None
                 \* when there is none
  pc,            \* where each caller is
  wire,          \* callers whose request has not been worked on
  stamp,         \* Date.now() when the request was sent
  due,           \* when the timer of a waiting caller ends
  delay,         \* the delay in the answer, 0 is a grant
  quiet,         \* history: since the caller was refused no token was taken, nor was
                 \* the bucket changed by a fault
  granted, refused, disturbances  \* history, as in TokenBucket

caller == <<pc, wire, stamp, due, delay>>
history == <<granted, refused, disturbances>>
limitVars == <<remote, clock, slow, count, time, caller, quiet, history>>

Token == Interval
Capacity == Max * Interval
Now == clock - slow

LimitInit ==
    /\ remote \in Remotes
    /\ clock = 1 /\ slow = 0 /\ count = None /\ time = 0
    /\ pc = [c \in Callers |-> "idle"]
    /\ wire = {}
    /\ stamp = [c \in Callers |-> 0]
    /\ due = [c \in Callers |-> 0]
    /\ delay = [c \in Callers |-> 0]
    /\ quiet = [c \in Callers |-> FALSE]
    /\ granted = 0 /\ refused = 0 /\ disturbances = 0
-----------------------------------------------------------------------------
(* The bucket *)

\* A clock that is behind the bucket counts as one whole interval.
Elapsed(now) == IF now < time THEN Interval ELSE now - time

Capped(n) == IF n <= Capacity THEN n ELSE Capacity

\* Mutant: without the maximum.
ContentUncapped(now) == IF count = None THEN Capacity ELSE count + Rate * Elapsed(now)

\* What the bucket holds for a request with this time; a new one is full.
Content(now) == IF count = None THEN Capacity
                ELSE IF count < Capacity THEN Capped(count + Rate * Elapsed(now))
                ELSE count

\* Mutant: a millisecond less.
WaitShort(now) == Interval - Elapsed(now) - 1

\* The answer to a request that is refused.
Wait(now) == Interval - (IF count = None \/ (Max = 1 /\ ~remote) THEN 0 ELSE Elapsed(now))

\* What is read from a count that was written with an exponent.
Misread == {d * Token : d \in Residues}

\* What is read from the token that was stored with this count.  A small count may also
\* be the remainder of a subtraction that should give 0.
Stored(n, granting) ==
  IF remote THEN {n}
  ELSE IF 0 < n /\ n * Precision < Token THEN Misread
  ELSE IF n = 0 /\ granting THEN {0} \cup Misread
  ELSE {n}

(* Sending the request, for an API request and for each try of checkLimiter. *)
Send(c) == /\ granted + refused + Cardinality(wire) < MaxRequests
           /\ c \notin wire
           /\ wire' = wire \cup {c}
           /\ pc' = [pc EXCEPT ![c] = "sent"]
           /\ stamp' = [stamp EXCEPT ![c] = IF remote THEN Now ELSE 0]
           /\ due' = [due EXCEPT ![c] = IF remote THEN 0 ELSE clock + Timeout]
           /\ quiet' = [quiet EXCEPT ![c] = FALSE]
           /\ UNCHANGED <<remote, clock, slow, count, time, delay, history>>

Call(c) == pc[c] = "idle" /\ Send(c)

Retry(c) == pc[c] = "waiting" /\ clock >= due[c] /\ Send(c)

(* The master handles ipc:limiter, or Redis runs the script. *)
Consume(c, now) ==
  LET ok == Content(now) >= Token
      left == Content(now) - (IF ok THEN Token ELSE 0)
  IN /\ count' \in Stored(left, ok)
     /\ time' = now
     /\ delay' = [delay EXCEPT ![c] = IF ok \/ pc[c] # "sent" THEN 0 ELSE Wait(now)]
     /\ granted' = granted + (IF ok THEN 1 ELSE 0)
     /\ refused' = refused + (IF ok THEN 0 ELSE 1)
     /\ disturbances' = disturbances +
          (IF count' # left \/ (count # None /\ now < time) THEN 1 ELSE 0)
     /\ quiet' = [d \in Callers |-> IF d = c THEN ~ok /\ count' = left
                                    ELSE quiet[d] /\ ~ok /\ disturbances' = disturbances]

\* The reply to a caller whose timer has ended finds no callback.
Decide(c) == /\ c \in wire
             /\ wire' = wire \ {c}
             /\ Consume(c, IF remote THEN stamp[c] ELSE Now)
             /\ pc' = [pc EXCEPT ![c] = IF @ = "sent" THEN "answered" ELSE @]
             /\ stamp' = [stamp EXCEPT ![c] = 0]
             /\ UNCHANGED <<remote, clock, slow, due>>

(* The callback of the caller: proceed, wait, or the status 429. *)
Receive(c) == /\ pc[c] = "answered"
              /\ pc' = [pc EXCEPT ![c] = IF delay[c] = 0 THEN "passed"
                                         ELSE IF c \in Patient THEN "waiting"
                                         ELSE "limited"]
              /\ due' = [due EXCEPT ![c] = IF c \in Patient /\ delay[c] # 0 THEN clock + delay[c] ELSE 0]
              /\ delay' = [delay EXCEPT ![c] = 0]
              /\ UNCHANGED <<remote, clock, slow, count, time, wire, stamp, quiet, history>>

\* The timer hands the message back as it was sent: no delay in it, so proceed.
NoAnswer(c) == /\ ~remote
               /\ pc[c] \in {"sent", "answered"}
               /\ clock >= due[c]
               /\ pc' = [pc EXCEPT ![c] = "passed"]
               /\ due' = [due EXCEPT ![c] = 0]
               /\ delay' = [delay EXCEPT ![c] = 0]
               /\ UNCHANGED <<remote, clock, slow, count, time, wire, stamp, quiet, history>>

\* An error of Redis is logged, and toNumber makes it the delay 0.
ScriptFails(c) == /\ remote
                  /\ disturbances < MaxDisturbances
                  /\ c \in wire
                  /\ wire' = wire \ {c}
                  /\ pc' = [pc EXCEPT ![c] = "passed"]
                  /\ disturbances' = disturbances + 1
                  /\ UNCHANGED <<remote, clock, slow, count, time, stamp, due, delay, quiet, granted, refused>>

Done(c) == /\ pc[c] \in {"passed", "limited"}
           /\ pc' = [pc EXCEPT ![c] = "idle"]
           /\ UNCHANGED <<remote, clock, slow, count, time, wire, stamp, due, delay, quiet, history>>
-----------------------------------------------------------------------------
(* Time and faults.  After a step back of the clock the content depends on *)
(* whether anybody asks before the clock is where it was.                  *)

TimePasses ==
    /\ clock < MaxClock
    /\ clock' = clock + 1
    /\ disturbances' = disturbances + (IF count # None /\ Now < time THEN 1 ELSE 0)
    /\ quiet' = [c \in Callers |-> quiet[c] /\ disturbances' = disturbances]
    /\ UNCHANGED <<remote, slow, count, time, caller, granted, refused>>

Disturb == /\ disturbances < MaxDisturbances
           /\ disturbances' = disturbances + 1
           /\ quiet' = [c \in Callers |-> FALSE]
           /\ UNCHANGED <<remote, clock, caller, granted, refused>>

StepBack == Disturb /\ slow' = slow + 1 /\ UNCHANGED <<count, time>>

Evict == Disturb /\ count' = None /\ time' = 0 /\ UNCHANGED slow

LimitNext ==
    \/ \E c \in Callers : \/ Call(c) \/ Retry(c) \/ Decide(c) \/ Receive(c)
                          \/ NoAnswer(c) \/ ScriptFails(c) \/ Done(c)
    \/ TimePasses \/ StepBack \/ Evict

LimitSpec == LimitInit /\ [][LimitNext]_limitVars
-----------------------------------------------------------------------------
(* Properties *)

LimitTypeOK ==
    /\ remote \in BOOLEAN
    /\ clock \in Nat /\ slow \in Nat /\ time \in Int
    /\ count \in Nat \cup {None}
    /\ pc \in [Callers -> {"idle", "sent", "answered", "waiting", "passed", "limited"}]
    /\ wire \subseteq Callers
    /\ stamp \in [Callers -> Int]
    /\ due \in [Callers -> Nat]
    /\ delay \in [Callers -> Nat]
    /\ quiet \in [Callers -> BOOLEAN]
    /\ granted \in Nat /\ refused \in Nat /\ disturbances \in Nat

\* TokenBucket.consume computes lazily, on the next request, from the time of
\* the last one: for the master's buckets the answers are those of a bucket
\* that fills continuously, neither too many grants nor a refusal while there
\* is a token, if the arithmetic is exact.  Only an eviction, a clock that goes
\* back and the conversion of a small count (with an interval of more than
\* 10^6 ms also one that a refusal stores) change the contents otherwise, and
\* each of them is counted.
Bucket == INSTANCE TokenBucket WITH
            Refill <- Rate,
            level <- IF remote THEN Capacity ELSE Content(Now),
            granted <- IF remote THEN 0 ELSE granted,
            refused <- IF remote THEN 0 ELSE refused,
            disturbances <- IF remote THEN 0 ELSE disturbances
ImplementsBucket == Bucket!Spec

\* checkLimiter sleeps for the delay of the refusal (TokenBucket.delay, the
\* script of ipc_redisq.js): if nobody else took a token in the meantime there
\* is one when it tries again, so no caller spins.  The delay is counted from
\* the elapsed time of a refused request, which itself moved the bucket's time.
RetrySucceeds == \A c \in Callers :
  pc[c] = "waiting" /\ quiet[c] /\ clock >= due[c] => Content(Now) >= Token
=============================================================================
