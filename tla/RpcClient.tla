------------------------------- MODULE RpcClient -------------------------------
(***************************************************************************)
(* EthereumJsonRpcClient._request: the calls one client instance makes,    *)
(* one after the other. A call is a loop of attempts; each attempt waits   *)
(* for the rate limiter, sends one POST and either returns the result,     *)
(* raises, or sleeps and tries again.                                      *)
(*                                                                         *)
(* Time is an integer clock that an action moves by the time it takes: a   *)
(* sleep lasts at least as long as asked, an answer arrives within the     *)
(* HTTP timeout. The provider's answer is one of the outcomes _request_once*)
(* tells apart; the text of a JSON-RPC error is the set of the marker      *)
(* words _classify_rpc_error looks for.                                    *)
(***************************************************************************)
EXTENDS Integers, Sequences

CONSTANTS
  MinInterval,    \* 1 / requests_per_second
  MaxRetries,     \* max_retries
  Backoff,        \* retry_backoff_seconds
  Jitter,         \* retry_jitter_seconds
  MaxLatency,     \* timeout_seconds: a POST takes at most this long
  MaxPause,       \* bound: time between two calls, and oversleep of a sleep
  MaxCalls,       \* bound: calls made by one client
  None            \* _last_request_at before the first request

ASSUME RpcClientAssumption ==
  /\ MinInterval \in Nat \ {0} /\ MaxRetries \in Nat /\ Backoff \in Nat /\ Jitter \in Nat
  /\ MaxLatency \in Nat /\ MaxPause \in Nat /\ MaxCalls \in Nat
  /\ None \notin Int

VARIABLES
  now,            \* time.monotonic()
  lastRequestAt,  \* _last_request_at, None before the first request
  phase, attempt,
  errors,         \* history: the errors of the current call's attempts
  erroredAt,      \* history: when the last of them was raised
  firstAt, posts, \* history: time of the client's first POST, number of POSTs
  calls

history == <<firstAt, posts>>
vars    == <<now, lastRequestAt, phase, attempt, errors, erroredAt, history, calls>>

-------------------------------------------------------------------------------
(* The error a response is turned into. *)

\* Each marker stands for its group: "limit" for large, limit and exceed, "rate
\* limit" for rate limit, rate-limit, throttle and compute unit.
Markers  == {"too many", "range", "limit", "timeout", "rate limit"}
Messages == SUBSET Markers

RpcErrorBodies == [kind : {"error"}, message : Messages, busyCode : BOOLEAN]
OtherResponses ==
  [kind : {"timeout", "transport", "http429", "http5xx", "http4xx", "badBody", "badResult"},
   message : {{}}, busyCode : {FALSE}]
Failures == RpcErrorBodies \cup OtherResponses

\* _classify_rpc_error: the first group of markers that matches decides.
ClassifyRpcError(r) ==
  IF "too many" \in r.message                        THEN "RpcTooManyResultsError"
  ELSE IF {"range", "limit"} \subseteq r.message      THEN "RpcRangeTooLargeError"
  ELSE IF "timeout" \in r.message                    THEN "RpcTimeoutError"
  ELSE IF "rate limit" \in r.message                 THEN "RpcRateLimitError"
  ELSE IF r.busyCode THEN "RetryableRpcError" ELSE "NonRetryableRpcError"

ErrorOf(r) ==
  CASE r.kind = "error"                          -> ClassifyRpcError(r)
    [] r.kind = "timeout"                        -> "RpcTimeoutError"
    [] r.kind = "http429"                        -> "RpcRateLimitError"
    [] r.kind \in {"transport", "http5xx", "badBody"} -> "RetryableRpcError"
    [] r.kind \in {"http4xx", "badResult"}       -> "NonRetryableRpcError"

MustSplit == {"RpcRangeTooLargeError", "RpcTooManyResultsError"}
Transient == {"RpcTimeoutError", "RpcRateLimitError", "RetryableRpcError"}
ErrorClasses == MustSplit \cup Transient \cup {"NonRetryableRpcError"}

\* The provider said it is throttling the client.
Throttled(r) == r.kind = "http429" \/ "rate limit" \in r.message

-------------------------------------------------------------------------------
Init ==
  /\ now = 0
  /\ lastRequestAt = None
  /\ phase = "idle"
  /\ attempt = 0
  /\ errors = <<>>
  /\ erroredAt = 0
  /\ firstAt = 0 /\ posts = 0
  /\ calls = 0

Call ==
  /\ phase \in {"idle", "returned", "raised"}
  /\ calls < MaxCalls
  /\ now' \in now..(now + MaxPause)
  /\ calls' = calls + 1
  /\ attempt' = 0
  /\ errors' = <<>>
  /\ phase' = "limit"
  /\ UNCHANGED <<lastRequestAt, erroredAt, history>>

\* Mutant: the limiter is skipped on a retry.
DueFirstOnly ==
  IF lastRequestAt = None \/ attempt > 0 THEN now ELSE lastRequestAt + MinInterval

\* The time the next POST may go out.
Due == IF lastRequestAt = None THEN now ELSE lastRequestAt + MinInterval

\* _rate_limit sleeps until Due if that is ahead, reads the clock again, and the
\* POST follows at once.
SendPost ==
  /\ phase = "limit"
  /\ IF Due > now THEN now' \in Due..(Due + MaxPause) ELSE now' = now
  /\ lastRequestAt' = now'
  /\ firstAt' = IF posts = 0 THEN now' ELSE firstAt
  /\ posts' = posts + 1
  /\ phase' = "posted"
  /\ UNCHANGED <<attempt, errors, erroredAt, calls>>

Answered ==
  /\ phase = "posted"
  /\ now' \in now..(now + MaxLatency)
  /\ phase' = "returned"
  /\ UNCHANGED <<lastRequestAt, attempt, errors, erroredAt, history, calls>>

\* Mutants: one attempt too many; every error is retried.
GivesUpLate(e) == e \notin Transient \/ attempt > MaxRetries
GivesUpAtEndOnly(e) == attempt >= MaxRetries

\* The errors _request gives up on at once, and the ones it retries.
GivesUpOn(e) == e \notin Transient \/ attempt >= MaxRetries

Failed ==
  /\ phase = "posted"
  /\ now' \in now..(now + MaxLatency)
  /\ \E r \in Failures :
       /\ errors' = Append(errors, [class |-> ErrorOf(r), throttled |-> Throttled(r)])
       /\ phase' = IF GivesUpOn(ErrorOf(r)) THEN "raised" ELSE "backoff"
  /\ erroredAt' = now'
  /\ UNCHANGED <<lastRequestAt, attempt, history, calls>>

BackoffDelay(n) == Backoff * 2^n

\* Mutants: a delay that grows linearly from zero; a sleep that never ends.
SleepLinear ==
  /\ phase = "backoff"
  /\ now' \in (now + Backoff * attempt)..(now + Backoff * attempt + Jitter + MaxPause)
  /\ attempt' = attempt + 1
  /\ phase' = "limit"
  /\ UNCHANGED <<lastRequestAt, errors, erroredAt, history, calls>>

SleepForever ==
  /\ phase = "backoff"
  /\ UNCHANGED vars

SleepBeforeRetry ==
  /\ phase = "backoff"
  /\ now' \in (now + BackoffDelay(attempt))..(now + BackoffDelay(attempt) + Jitter + MaxPause)
  /\ attempt' = attempt + 1
  /\ phase' = "limit"
  /\ UNCHANGED <<lastRequestAt, errors, erroredAt, history, calls>>

Finished ==
  /\ phase \in {"returned", "raised"} /\ calls = MaxCalls
  /\ UNCHANGED vars

Request == SendPost \/ Answered \/ Failed \/ SleepBeforeRetry
Next == Call \/ Request \/ Finished

Spec     == Init /\ [][Next]_vars
FairSpec == Spec /\ WF_vars(Request)

-------------------------------------------------------------------------------
TypeOK ==
  /\ now \in Int
  /\ lastRequestAt \in Int \cup {None}
  /\ phase \in {"idle", "limit", "posted", "backoff", "returned", "raised"}
  /\ attempt \in 0..MaxRetries
  /\ errors \in Seq([class : ErrorClasses, throttled : BOOLEAN])
  /\ erroredAt \in Int /\ firstAt \in Int /\ posts \in Nat /\ calls \in 0..MaxCalls

\* The provider's quota: over the life of a client, retries included, its POSTs
\* are on average at least MinInterval apart, counted from the first one.
RateBounded == posts > 0 => (posts - 1) * MinInterval <= lastRequestAt - firstAt

\* A call repeats an attempt only after an error another attempt may cure, never
\* more than MaxRetries times, and gives up on such an error only after that.
RetryPolicy ==
  /\ Len(errors) <= MaxRetries + 1
  /\ \A i \in 1..(Len(errors) - 1) : errors[i].class \in Transient
  /\ phase = "raised" /\ errors[Len(errors)].class \in Transient => Len(errors) = MaxRetries + 1

\* Each retry goes out no earlier than its exponential delay after the error.
BackoffHonoured ==
  phase = "posted" /\ attempt > 0 => lastRequestAt >= erroredAt + BackoffDelay(attempt - 1)

\* docs/04, "Rate limit": a rate limit, whether an HTTP 429 or a provider message,
\* is retryable and raised only after the bounded retries.
RateLimitIsRetried ==
  phase = "raised" /\ errors[Len(errors)].throttled => Len(errors) = MaxRetries + 1

\* The inductive invariant behind RateBounded and RetryPolicy.
IInv ==
  /\ TypeOK
  /\ posts = 0 <=> lastRequestAt = None
  /\ posts > 0 => (posts - 1) * MinInterval <= lastRequestAt - firstAt
  /\ phase # "idle" => Len(errors) <= attempt + 1
  /\ phase \in {"limit", "posted"} => Len(errors) = attempt
  /\ phase = "backoff" => Len(errors) = attempt + 1 /\ attempt < MaxRetries
  /\ phase \in {"limit", "posted", "backoff", "returned"} =>
       \A i \in 1..Len(errors) : errors[i].class \in Transient
  /\ RetryPolicy

\* A call always returns or raises.
CallsEnd == phase \in {"limit", "posted", "backoff"} ~> phase \in {"returned", "raised"}

===============================================================================
