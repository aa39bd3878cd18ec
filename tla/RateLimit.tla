------------------------------ MODULE RateLimit ------------------------------
(***************************************************************************)
(* The fixed-window rate limiter of the API (rate_limit.py) and the client *)
(* that is refused, sleeps as long as the answer says and asks again       *)
(* (desktop_app/utils/api_client_core/base_client.py).  Time is counted in *)
(* half seconds, of which the server's Retry-After sees whole seconds.     *)
(***************************************************************************)
EXTENDS Integers

CONSTANTS ApiClients,      \* clients, each with an API key or an address of its own
          Limit,        \* requests per window
          Window,       \* window_seconds
          MaxSleep,     \* MAX_RATE_LIMIT_SLEEP_SECONDS
          MaxRetries,   \* DEFAULT_RATE_LIMIT_RETRIES
          MaxHalves     \* bound: half seconds of the run

\* The client's limit on its sleep is longer than a window (65 and 60 seconds).
ASSUME RateLimitAssumption ==
  /\ Limit \in Nat \ {0} /\ Window \in Nat \ {0} /\ MaxSleep \in Nat /\ MaxSleep >= Window
  /\ MaxRetries \in Nat /\ MaxHalves \in Nat

VARIABLES now,       \* half seconds
          counts,    \* _counts: per caller and window; no entry is 0
          calls      \* what each caller is doing

rateVars == <<now, counts, calls>>

Windows == 0 .. MaxHalves \div (2 * Window)
Second(t) == t \div 2
WindowOf(t) == Second(t) \div Window
ResetAt(t) == (WindowOf(t) + 1) * Window          \* in seconds

NoCall == [at |-> "idle", attempts |-> 0, wake |-> 0, refused |-> -1]
RateInit ==
  /\ now = 0 /\ calls = [c \in ApiClients |-> NoCall]
  /\ counts = [c \in ApiClients |-> [w \in Windows |-> 0]]

HalfSecond == now < MaxHalves /\ now' = now + 1 /\ UNCHANGED <<counts, calls>>

\* _purge_old_windows.
Purged(cs, w) == [c \in ApiClients |-> [v \in Windows |-> IF v < w THEN 0 ELSE cs[c][v]]]

\* Mutant: the seconds left are counted from the next full second.
MutRetryAfter(t) == ResetAt(t) - (Second(t) + 1)

RetryAfter(t) == ResetAt(t) - Second(t)

\* _rate_limit_retry_delay, _clamp_retry_delay, in half seconds.
Delay(t) == 2 * (IF RetryAfter(t) < MaxSleep THEN RetryAfter(t) ELSE MaxSleep)

\* check, then the request itself or a 429; only some requests are sent again.
Check(c, retries) ==
  LET w == WindowOf(now)  pruned == Purged(counts, w)  attempts == calls[c].attempts IN
  IF pruned[c][w] >= Limit
  THEN /\ counts' = pruned
       /\ calls' = [calls EXCEPT ![c] =
            IF retries /\ attempts < MaxRetries
            THEN [at |-> "asleep", attempts |-> attempts + 1, wake |-> now + Delay(now),
                  refused |-> w]
            ELSE NoCall]
  ELSE /\ counts' = [pruned EXCEPT ![c][w] = @ + 1]
       /\ calls' = [calls EXCEPT ![c] = NoCall]

Request(c) ==
  /\ calls[c].at = "idle" /\ \E retries \in BOOLEAN : Check(c, retries)
  /\ UNCHANGED now

\* The thread sleeps at least as long as it asked to.
Retry(c) ==
  /\ calls[c].at = "asleep" /\ now >= calls[c].wake /\ Check(c, TRUE)
  /\ UNCHANGED now

RateNext == HalfSecond \/ \E c \in ApiClients : Request(c) \/ Retry(c)

RateSpec == RateInit /\ [][RateNext]_rateVars

-----------------------------------------------------------------------------
\* The variables have their types.
RateTypeOK ==
  /\ now \in 0 .. MaxHalves
  /\ \A c \in ApiClients : /\ calls[c].attempts \in 0 .. MaxRetries
                        /\ \A w \in Windows : counts[c][w] \in 0 .. Limit

\* A caller that was refused asks again in a later window only: the rounding of
\* Retry-After and the limit on the sleep never waste an attempt on the window that
\* refused it (rate_limit.py, dispatch; base_client.py, _clamp_retry_delay).
RetryMeetsFreshWindow ==
  \A c \in ApiClients : calls[c].at = "asleep" => WindowOf(calls[c].wake) > calls[c].refused
=============================================================================
