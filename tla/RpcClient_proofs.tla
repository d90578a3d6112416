--------------------------- MODULE RpcClient_proofs ---------------------------
(***************************************************************************)
(* For every rate, every retry limit and every sequence of answers: the    *)
(* client keeps the provider's average rate, repeats an attempt only       *)
(* after a transient error and at most MaxRetries times, and never before  *)
(* the exponential delay is over.                                          *)
(***************************************************************************)
EXTENDS RpcClient, SequenceTheorems, FiniteSetTheorems, TLAPS

ErrorRecords == [class : ErrorClasses, throttled : BOOLEAN]

(* Every response is classified as one of the client's exceptions. *)
LEMMA EveryFailureHasAClass ==
  ASSUME NEW r \in Failures
  PROVE  ErrorOf(r) \in ErrorClasses /\ Throttled(r) \in BOOLEAN
<1>1. r.kind \in {"error", "timeout", "transport", "http429", "http5xx", "http4xx",
                  "badBody", "badResult"}
  BY DEF Failures, RpcErrorBodies, OtherResponses
<1>2. ClassifyRpcError(r) \in ErrorClasses
  BY DEF ClassifyRpcError, ErrorClasses, MustSplit, Transient
<1>3. CASE r.kind = "error"
  BY <1>2, <1>3 DEF ErrorOf, Throttled
<1>4. CASE r.kind # "error"
  BY <1>1, <1>4 DEF ErrorOf, Throttled, ErrorClasses, MustSplit, Transient
<1> QED
  BY <1>3, <1>4

LEMMA InitInvariant == Init => IInv
<1> SUFFICES ASSUME Init PROVE IInv
  OBVIOUS
<1>1. errors \in Seq(ErrorRecords) /\ Len(errors) = 0
  BY DEF Init
<1>2. TypeOK
  BY <1>1, RpcClientAssumption DEF Init, TypeOK, ErrorRecords
<1>3. RetryPolicy
  BY <1>1, RpcClientAssumption DEF Init, RetryPolicy
<1> QED
  BY <1>1, <1>2, <1>3 DEF Init, IInv

(* The integers of a state. *)
LEMMA StateFacts ==
  ASSUME IInv
  PROVE  /\ now \in Int /\ (posts > 0 => lastRequestAt \in Int) /\ firstAt \in Int /\ posts \in Nat
         /\ attempt \in Nat /\ attempt <= MaxRetries /\ MaxRetries \in Nat
         /\ MinInterval \in Nat /\ MinInterval > 0
         /\ Len(errors) \in Nat /\ errors \in Seq(ErrorRecords)
<1>1. errors \in Seq(ErrorRecords)
  BY DEF IInv, TypeOK, ErrorRecords
<1> QED
  BY <1>1, LenProperties, RpcClientAssumption DEF IInv, TypeOK

LEMMA CallKeepsInvariant ==
  ASSUME IInv, Call
  PROVE  IInv'
<1> USE DEF history
<1>1. errors' \in Seq(ErrorRecords) /\ Len(errors') = 0
  BY DEF Call
<1>2. now' \in Int /\ calls' \in 0..MaxCalls
  BY RpcClientAssumption DEF Call, IInv, TypeOK
<1>3. TypeOK'
  BY <1>1, <1>2, RpcClientAssumption DEF Call, IInv, TypeOK, ErrorRecords
<1>4. RetryPolicy'
  BY <1>1, RpcClientAssumption DEF Call, RetryPolicy
<1> QED
  BY <1>1, <1>3, <1>4 DEF Call, IInv

(* The rate limiter: one more POST, at least MinInterval after the last. *)
LEMMA SendPostKeepsInvariant ==
  ASSUME IInv, SendPost
  PROVE  IInv'
<1> USE DEF history
<1>1. now' \in Int /\ now' >= Due /\ lastRequestAt' = now'
  <2>1. Due \in Int
    BY StateFacts, RpcClientAssumption DEF Due, IInv, TypeOK
  <2> QED
    BY <2>1, StateFacts, RpcClientAssumption DEF SendPost
<1>2. TypeOK'
  BY <1>1, StateFacts DEF SendPost, IInv, TypeOK
<1>3. posts' > 0 => (posts' - 1) * MinInterval <= lastRequestAt' - firstAt'
  <2>1. CASE posts = 0
    BY <1>1, <2>1, StateFacts DEF SendPost
  <2>2. CASE posts > 0
    <3>1. lastRequestAt # None /\ now' >= lastRequestAt + MinInterval
      BY <1>1, <2>2, StateFacts DEF IInv, Due
    <3>2. (posts - 1) * MinInterval <= lastRequestAt - firstAt
      BY <2>2 DEF IInv
    <3>3. posts * MinInterval = (posts - 1) * MinInterval + MinInterval
      BY StateFacts
    <3>4. (posts - 1) * MinInterval \in Int /\ posts * MinInterval \in Int
      BY StateFacts
    <3> DEFINE a == (posts - 1) * MinInterval
               b == posts * MinInterval
    <3>5. b <= now' - firstAt
      <4>1. a \in Int /\ b \in Int /\ b = a + MinInterval /\ a <= lastRequestAt - firstAt
        BY <3>2, <3>3, <3>4
      <4> HIDE DEF a, b
      <4> QED
        BY <1>1, <2>2, <3>1, <4>1, StateFacts
    <3> QED
      BY <1>1, <2>2, <3>5, StateFacts DEF SendPost
  <2> QED
    BY <2>1, <2>2, StateFacts
<1>4. posts' # 0 /\ lastRequestAt' # None
  <2>1. posts' # 0
    BY StateFacts DEF SendPost
  <2> QED
    BY <1>1, <2>1, RpcClientAssumption
<1>5. RetryPolicy'
  BY DEF SendPost, IInv, RetryPolicy
<1> QED
  BY <1>2, <1>3, <1>4, <1>5 DEF SendPost, IInv

LEMMA AnsweredKeepsInvariant ==
  ASSUME IInv, Answered
  PROVE  IInv'
<1> USE DEF history
<1>1. now' \in Int
  BY StateFacts, RpcClientAssumption DEF Answered
<1>2. TypeOK'
  BY <1>1 DEF Answered, IInv, TypeOK
<1> QED
  BY <1>2 DEF Answered, IInv, RetryPolicy

(* An error is appended; the call goes on only if it is transient and attempts  *)
(* are left.                                                                    *)
LEMMA FailedKeepsInvariant ==
  ASSUME IInv, Failed
  PROVE  IInv'
<1> USE DEF history
<1>1. PICK r \in Failures :
        /\ errors' = Append(errors, [class |-> ErrorOf(r), throttled |-> Throttled(r)])
        /\ phase' = IF GivesUpOn(ErrorOf(r)) THEN "raised" ELSE "backoff"
  BY DEF Failed
<1> DEFINE e == [class |-> ErrorOf(r), throttled |-> Throttled(r)]
<1>2. e \in ErrorRecords /\ e.class = ErrorOf(r)
  BY EveryFailureHasAClass DEF ErrorRecords
<1>3. phase = "posted" /\ Len(errors) = attempt /\ \A i \in 1..attempt : errors[i].class \in Transient
  BY DEF Failed, IInv
<1> HIDE DEF e
<1>4. /\ errors' \in Seq(ErrorRecords) /\ Len(errors') = attempt + 1
      /\ \A i \in 1..attempt : errors'[i] = errors[i]
      /\ errors'[attempt + 1] = e
  BY <1>1, <1>2, <1>3, StateFacts, AppendProperties DEF e
<1>5. now' \in Int
  BY StateFacts, RpcClientAssumption DEF Failed
<1>6. TypeOK'
  BY <1>1, <1>4, <1>5 DEF Failed, IInv, TypeOK, ErrorRecords
<1>7. RetryPolicy'
  <2>1. Len(errors') <= MaxRetries + 1
    BY <1>4, StateFacts
  <2>2. \A i \in 1..(Len(errors') - 1) : errors'[i].class \in Transient
    BY <1>3, <1>4, StateFacts
  <2>3. phase' = "raised" /\ errors'[Len(errors')].class \in Transient => Len(errors') = MaxRetries + 1
    <3>1. errors'[Len(errors')].class = ErrorOf(r)
      BY <1>2, <1>4
    <3>2. phase' = "raised" => GivesUpOn(ErrorOf(r))
      BY <1>1
    <3> QED
      BY <1>4, <3>1, <3>2, StateFacts DEF GivesUpOn
  <2> QED
    BY <2>1, <2>2, <2>3 DEF RetryPolicy
<1>8. phase' = "backoff" => attempt' < MaxRetries /\ ErrorOf(r) \in Transient
  BY <1>1, StateFacts DEF GivesUpOn, Failed
<1>9. phase' \in {"backoff", "raised"} /\ attempt' = attempt
  BY <1>1 DEF Failed
<1>10. phase' = "backoff" => \A i \in 1..Len(errors') : errors'[i].class \in Transient
  BY <1>2, <1>3, <1>4, <1>8, StateFacts
<1>11. posts' = posts /\ lastRequestAt' = lastRequestAt /\ firstAt' = firstAt
  BY DEF Failed
<1> QED
  BY <1>4, <1>6, <1>7, <1>8, <1>9, <1>10, <1>11, StateFacts DEF IInv

LEMMA SleepKeepsInvariant ==
  ASSUME IInv, SleepBeforeRetry
  PROVE  IInv'
<1> USE DEF history
<1>1. now' \in Int
  BY DEF SleepBeforeRetry
<1>2. TypeOK'
  BY <1>1, StateFacts DEF SleepBeforeRetry, IInv, TypeOK
<1> QED
  BY <1>2, StateFacts DEF SleepBeforeRetry, IInv, RetryPolicy

LEMMA NextKeepsInvariant ==
  ASSUME IInv, [Next]_vars
  PROVE  IInv'
<1>1. CASE UNCHANGED vars
  BY <1>1 DEF vars, history, IInv, TypeOK, RetryPolicy
<1> QED
  BY <1>1, CallKeepsInvariant, SendPostKeepsInvariant, AnsweredKeepsInvariant,
     FailedKeepsInvariant, SleepKeepsInvariant DEF Next, Request, Finished

(* However often calls fail and are retried, a client's POSTs stay on average   *)
(* MinInterval apart.                                                           *)
THEOREM RateHolds == Spec => []RateBounded
<1>1. IInv => RateBounded
  BY DEF IInv, RateBounded
<1> QED
  BY InitInvariant, NextKeepsInvariant, <1>1, PTL DEF Spec

(* Only transient errors are retried, exactly until MaxRetries is used up.      *)
THEOREM RetryPolicyHolds == Spec => []RetryPolicy
<1>1. IInv => RetryPolicy
  BY DEF IInv
<1> QED
  BY InitInvariant, NextKeepsInvariant, <1>1, PTL DEF Spec

(* The variables keep their types. *)
THEOREM TypeCorrect == Spec => []TypeOK
<1>1. IInv => TypeOK
  BY DEF IInv
<1> QED
  BY InitInvariant, NextKeepsInvariant, <1>1, PTL DEF Spec

-------------------------------------------------------------------------------
(* The delay after attempt n is a number: 2^n counts the subsets of 1..n. *)
LEMMA BackoffDelayIsNat ==
  ASSUME NEW n \in Nat
  PROVE  BackoffDelay(n) \in Nat
<1>1. IsFiniteSet(1..n) /\ Cardinality(1..n) = n
  BY FS_Interval
<1>2. IsFiniteSet(SUBSET (1..n)) /\ Cardinality(SUBSET (1..n)) = 2^n
  BY <1>1, FS_SUBSET
<1>3. 2^n \in Nat
  BY <1>2, FS_CardinalityType
<1> QED
  BY <1>3, RpcClientAssumption DEF BackoffDelay

(* The clock has not gone back behind the last error, and is past the delay   *)
(* once the sleep is over.                                                    *)
DelayInv ==
  /\ erroredAt \in Int
  /\ phase = "backoff" => erroredAt <= now
  /\ phase = "limit" /\ attempt > 0 => now >= erroredAt + BackoffDelay(attempt - 1)
  /\ BackoffHonoured

LEMMA NextKeepsDelay ==
  ASSUME IInv, DelayInv, [Next]_vars
  PROVE  DelayInv'
<1> USE DEF history
<1>1. CASE UNCHANGED vars \/ Finished
  BY <1>1 DEF vars, Finished, DelayInv, BackoffHonoured
<1>2. CASE Call
  BY <1>2 DEF Call, DelayInv, BackoffHonoured
<1>3. CASE SendPost
  <2>1. now' >= now /\ now' \in Int
    <3>1. Due \in Int
      BY StateFacts, RpcClientAssumption DEF Due, IInv, TypeOK
    <3> QED
      BY <1>3, <3>1, StateFacts, RpcClientAssumption DEF SendPost
  <2>2. attempt > 0 => now >= erroredAt + BackoffDelay(attempt - 1) /\ BackoffDelay(attempt - 1) \in Nat
    <3>1. attempt > 0 => attempt - 1 \in Nat
      BY StateFacts
    <3>2. attempt > 0 => BackoffDelay(attempt - 1) \in Nat
      BY <3>1, BackoffDelayIsNat
    <3> QED
      BY <1>3, <3>2 DEF SendPost, DelayInv
  <2>3. /\ phase' = "posted" /\ lastRequestAt' = now'
        /\ attempt' = attempt /\ erroredAt' = erroredAt
    BY <1>3 DEF SendPost
  <2>4. attempt > 0 => now' >= erroredAt + BackoffDelay(attempt - 1)
    BY <2>1, <2>2, StateFacts DEF DelayInv
  <2> QED
    BY <2>3, <2>4 DEF DelayInv, BackoffHonoured
<1>4. CASE Answered
  BY <1>4 DEF Answered, DelayInv, BackoffHonoured
<1>5. CASE Failed
  <2>1. now' \in Int /\ erroredAt' = now' /\ phase' \in {"raised", "backoff"}
    BY <1>5, StateFacts, RpcClientAssumption DEF Failed
  <2> QED
    BY <2>1 DEF DelayInv, BackoffHonoured
<1>6. CASE SleepBeforeRetry
  <2>1. BackoffDelay(attempt) \in Nat
    BY StateFacts, BackoffDelayIsNat
  <2>2. /\ now' >= now + BackoffDelay(attempt) /\ now' \in Int
        /\ erroredAt <= now /\ phase' = "limit"
        /\ erroredAt' = erroredAt /\ attempt' = attempt + 1
    BY <1>6, <2>1, StateFacts, RpcClientAssumption DEF SleepBeforeRetry, DelayInv
  <2>3. now' >= erroredAt + BackoffDelay(attempt)
    BY <2>1, <2>2, StateFacts DEF DelayInv
  <2>4. attempt' - 1 = attempt
    BY <2>2, StateFacts
  <2> QED
    BY <2>2, <2>3, <2>4 DEF DelayInv, BackoffHonoured
<1> QED
  BY <1>1, <1>2, <1>3, <1>4, <1>5, <1>6 DEF Next, Request

(* No retry goes out before its exponential delay is over, whatever the        *)
(* jitter, the limiter and the provider's answers add to it.                  *)
THEOREM BackoffHolds == Spec => []BackoffHonoured
<1>1. Init => DelayInv
  BY DEF Init, DelayInv, BackoffHonoured
<1>2. DelayInv => BackoffHonoured
  BY DEF DelayInv
<1> QED
  BY InitInvariant, NextKeepsInvariant, NextKeepsDelay, <1>1, <1>2, PTL DEF Spec

===============================================================================
