----------------------------- MODULE RetryPolicy -----------------------------
(***************************************************************************)
(* The decisions of the retry loop as operators (src/retry.go and the      *)
(* helpers of src/transport.go): what an attempt ended in, which outcomes  *)
(* are retried, how long to wait, and the deadline of a whole call.        *)
(* Durations are small numbers in one unit; the package's defaults are     *)
(* constants in that unit.                                                 *)
(***************************************************************************)
EXTENDS Integers

CONSTANTS
    DefaultTimeout,     \* defaultPerAttemptTimeout
    DefaultInitial,     \* defaultInitialBackoff
    DefaultMaxBackoff   \* defaultMaxBackoff

ASSUME DefaultsAssumption ==
    /\ DefaultTimeout \in Nat \ {0}
    /\ DefaultInitial \in Nat \ {0}
    /\ DefaultMaxBackoff \in Nat \ {0}

\* A duration longer than any other: no deadline.
Never == 1000000

Least(a, b) == IF b < a THEN b ELSE a

-----------------------------------------------------------------------------
(* What an attempt ends in: a response, with its status and its Retry-After *)
(* if it has one, or an error.                                              *)

Response(status, retryAfter) ==
    [status |-> status, retryAfter |-> retryAfter, err |-> "none"]
Error(err) == [status |-> 0, retryAfter |-> {}, err |-> err]
\* A nil response and a nil error.
Nothing == Error("none")

HasResponse(o) == o.status # 0
IsSuccess(o) == HasResponse(o) /\ o.status < 400

isRetryableError(err) == err \in {"deadline", "timeout", "connection"}

isTimeoutError(err) == err \in {"deadline", "timeout"}

retryReason(o) ==
    CASE isTimeoutError(o.err) -> "timeout"
      [] o.err # "none" /\ ~isTimeoutError(o.err) -> "transport_error"
      [] o = Nothing -> "unknown"
      [] o.status = 429 -> "429"
      [] o.status >= 500 -> "5xx"
      [] o.status = 408 -> "timeout"
      [] OTHER -> "status"

-----------------------------------------------------------------------------
(* A policy: [retries, timeout, elapsed, initial, maxBackoff : Int,         *)
(* statuses : a set of at most one set of statuses, empty for a nil map,    *)
(* on429 : BOOLEAN].                                                        *)

defaultRetryStatusSet == {408, 429, 500, 502, 503, 504}

OrDefault(d, default) == IF d <= 0 THEN default ELSE d

normalizeRetryPolicy(p) ==
    [p EXCEPT !.retries    = IF @ < 0 THEN 0 ELSE @,
              !.timeout    = OrDefault(@, DefaultTimeout),
              !.initial    = OrDefault(@, DefaultInitial),
              !.maxBackoff = OrDefault(@, DefaultMaxBackoff),
              !.statuses   = IF @ = {} THEN {defaultRetryStatusSet} ELSE @]

\* The statuses a policy retries; a nil map retries none.
RetryStatuses(p) == UNION p.statuses

\* The outcome of an attempt calls for a retry.
RetryableOutcome(p, o) ==
    \/ o.err # "none" /\ isRetryableError(o.err)
    \/ /\ o.err = "none"
       /\ o.status \in RetryStatuses(p)
       /\ o.status = 429 => p.on429

\* The base of the backoff, doubled at each attempt up to the maximum; a base
\* that would pass the maximum by doubling becomes the maximum.
Base(p) ==
    LET base[n \in Nat] ==
            IF n = 0 THEN p.initial
            ELSE IF base[n - 1] >= p.maxBackoff \/ base[n - 1] > p.maxBackoff - base[n - 1]
                 THEN p.maxBackoff
                 ELSE 2 * base[n - 1]
    IN  base

\* The waits retryDelay may choose before the retry that follows attempt n: the
\* Retry-After of the response if it has one, else the backoff plus a jitter
\* below its base, never more than the maximum.
retryDelay(p, n, o) ==
    LET base == Base(p)[n]
    IN  IF o.retryAfter # {} THEN o.retryAfter
        ELSE IF base <= 0 THEN {0}
        ELSE IF base >= p.maxBackoff THEN {p.maxBackoff}
        ELSE {Least(base + jitter, p.maxBackoff) : jitter \in 0 .. base - 1}

\* The time a call has: the earliest of the header's deadline, the context's
\* and the policy's maximum, Never for one that is absent.
resolveOverallDeadline(header, context, p) ==
    Least(Least(header, context), IF p.elapsed > 0 THEN p.elapsed ELSE Never)
=============================================================================
