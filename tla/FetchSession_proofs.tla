-------------------------- MODULE FetchSession_proofs --------------------------
(***************************************************************************)
(* For every rate, retry limit, back-off, range and chunk size, and every  *)
(* sequence of answers: what a whole session, of one client or of two, may *)
(* ask of the provider in a given time and in all, when it gives up on a   *)
(* block, and that it has the whole range when it is done.                 *)
(* RpcClient_proofs speaks of one client whose calls never mean anything;  *)
(* here a client is replaced by another, and its errors decide what the    *)
(* collector does. What LogCollector does alone, for every range, every    *)
(* chunk size and every pattern of failures, is proved here too (Init,     *)
(* Next, Spec and IInv are LogCollector's), since the session is a         *)
(* collection with calls between its steps.                                *)
(***************************************************************************)
EXTENDS FetchSession, SequenceTheorems, FiniteSetTheorems, WellFoundedInduction, TLAPS

ErrorRecords == [class : Client!ErrorClasses, throttled : BOOLEAN]

-------------------------------------------------------------------------------
(* The steps, told apart by what they do to the client. *)

(* Every step that is none of the client's leaves it alone. *)
LEMMA ClientSteps ==
  ASSUME [SessionNext]_fetchVars
  PROVE  \/ UNCHANGED clientVars
         \/ StartCall \/ CallGoesOn \/ RecentHeadRead
<1> USE DEF clientVars
<1>1. CASE UNCHANGED fetchVars
  BY <1>1 DEF fetchVars
<1>2. CASE Session
  BY <1>2 DEF Session, ChainIdRead, RecentHeadRefused, HeadRead, SampleLogsRead, LookedUp,
       LookupForbidden, CallRaises, CollectorMoves, LogsAnswered, LogsFailed, LogsRefused,
       LogsCollected, TimestampRead, Close
<1>3. CASE Ended
  BY <1>3 DEF Ended, fetchVars
<1> QED
  BY <1>1, <1>2, <1>3 DEF SessionNext

(* Every response is classified as one of the client's exceptions. *)
LEMMA EveryFailureHasAClass ==
  ASSUME NEW r \in Client!Failures
  PROVE  /\ Client!ErrorOf(r) \in Client!ErrorClasses
         /\ Client!Throttled(r) \in BOOLEAN
<1>1. r.kind \in {"error", "timeout", "transport", "http429", "http5xx", "http4xx",
                  "badBody", "badResult"}
  BY DEF Client!Failures, Client!RpcErrorBodies, Client!OtherResponses
<1>2. Client!ClassifyRpcError(r) \in Client!ErrorClasses
  BY DEF Client!ClassifyRpcError, Client!ErrorClasses, Client!MustSplit, Client!Transient
<1> QED
  BY <1>1, <1>2 DEF Client!ErrorOf, Client!Throttled, Client!ErrorClasses, Client!MustSplit,
                    Client!Transient

-------------------------------------------------------------------------------
(* What a call that raised has behind it. *)

CallInv ==
  /\ attempt \in Nat
  /\ errors \in Seq(ErrorRecords)
  /\ phase \in {"limit", "posted"} => Len(errors) = attempt
  /\ phase = "backoff" => Len(errors) = attempt + 1
  /\ attempt <= MaxRetries /\ (phase = "backoff" => attempt < MaxRetries)
  /\ phase = "raised" =>
       /\ Len(errors) > 0
       /\ Raised \in Client!Transient => Len(errors) = MaxRetries + 1

LEMMA CallInvInit == SessionInit => CallInv
<1> SUFFICES ASSUME SessionInit PROVE CallInv
  OBVIOUS
<1>1. errors \in Seq(ErrorRecords) /\ Len(errors) = 0 /\ attempt = 0 /\ phase = "idle"
  BY DEF SessionInit, Client!Init
<1> QED
  BY <1>1, FetchSessionAssumption DEF CallInv

LEMMA RequestKeepsCallInv ==
  ASSUME CallInv, Client!Request
  PROVE  CallInv'
<1>1. CASE Client!SendPost
  BY <1>1 DEF Client!SendPost, CallInv, Raised
<1>2. CASE Client!Answered
  BY <1>2 DEF Client!Answered, CallInv, Raised
<1>3. CASE Client!Failed
  <2>1. PICK r \in Client!Failures :
          /\ errors' = Append(errors, [class     |-> Client!ErrorOf(r),
                                       throttled |-> Client!Throttled(r)])
          /\ phase' = IF Client!GivesUpOn(Client!ErrorOf(r)) THEN "raised" ELSE "backoff"
    BY <1>3 DEF Client!Failed
  <2> DEFINE e == [class |-> Client!ErrorOf(r), throttled |-> Client!Throttled(r)]
  <2>2. e \in ErrorRecords /\ e.class = Client!ErrorOf(r)
    BY EveryFailureHasAClass DEF ErrorRecords
  <2>3. Len(errors) = attempt /\ attempt' = attempt
    BY <1>3 DEF Client!Failed, CallInv
  <2> HIDE DEF e
  <2>4. /\ errors' \in Seq(ErrorRecords) /\ Len(errors') = attempt + 1
        /\ errors'[attempt + 1] = e
    BY <2>1, <2>2, <2>3, AppendProperties DEF e, CallInv
  <2>5. Raised' = Client!ErrorOf(r)
    BY <2>2, <2>4 DEF Raised
  <2>6. phase' = "raised" /\ Client!ErrorOf(r) \in Client!Transient => attempt = MaxRetries
    BY <2>1, FetchSessionAssumption DEF Client!GivesUpOn, CallInv
  <2>7. phase' = "backoff" => attempt < MaxRetries
    BY <2>1, FetchSessionAssumption DEF Client!GivesUpOn, CallInv
  <2>8. phase' \in {"raised", "backoff"}
    BY <2>1
  <2> QED
    BY <2>3, <2>4, <2>5, <2>6, <2>7, <2>8, FetchSessionAssumption DEF CallInv
<1>4. CASE Client!SleepBeforeRetry
  BY <1>4, FetchSessionAssumption DEF Client!SleepBeforeRetry, CallInv, Raised
<1> QED
  BY <1>1, <1>2, <1>3, <1>4 DEF Client!Request

LEMMA NextKeepsCallInv ==
  ASSUME CallInv, [SessionNext]_fetchVars
  PROVE  CallInv'
<1>1. CASE UNCHANGED clientVars
  BY <1>1 DEF clientVars, CallInv, Raised
<1>2. CASE StartCall \/ RecentHeadRead
  <2>1. errors' = <<>> /\ attempt' = 0 /\ phase' \in {"limit", "idle"}
    BY <1>2 DEF StartCall, Client!Call, RecentHeadRead
  <2>2. errors' \in Seq(ErrorRecords) /\ Len(errors') = 0
    BY <2>1
  <2> QED
    BY <2>1, <2>2, FetchSessionAssumption DEF CallInv
<1>3. CASE CallGoesOn
  BY <1>3, RequestKeepsCallInv DEF CallGoesOn
<1> QED
  BY <1>1, <1>2, <1>3, ClientSteps

(* The class of what was raised. *)
LEMMA RaisedIsAClass ==
  ASSUME CallInv, phase = "raised"
  PROVE  Raised \in Client!ErrorClasses
<1>1. Len(errors) \in 1..Len(errors) /\ errors[Len(errors)] \in ErrorRecords
  BY LenProperties, ElementOfSeq DEF CallInv
<1> QED
  BY <1>1 DEF Raised, ErrorRecords

-------------------------------------------------------------------------------
(* A collection, and the session as one: whatever requests fail, and over   *)
(* whatever range, what LogCollector returns is the whole range, once and   *)
(* in order, within a bounded number of requests, each of a size the node   *)
(* accepts.                                                                 *)

LEMMA RangeFacts ==
  ASSUME NEW r \in Ranges
  PROVE  /\ r.from \in Int /\ r.to \in Int /\ Size(r) \in Int
         /\ Size(r) = r.to - r.from + 1
  BY DEF Ranges, Size

(* A non-empty range of n blocks contributes n blocks, in order. *)
LEMMA BlocksOfRange ==
  ASSUME NEW r \in Ranges, Size(r) >= 1
  PROVE  /\ BlocksOf(r) \in Seq(Int)
         /\ Len(BlocksOf(r)) = Size(r)
         /\ \A i \in 1..Size(r) : BlocksOf(r)[i] = r.from + i - 1
<1>1. Size(r) \in Nat /\ r.from \in Int
  BY RangeFacts
<1>2. BlocksOf(r) \in [1..Size(r) -> Int]
  BY <1>1 DEF BlocksOf
<1>3. BlocksOf(r) \in Seq(Int)
  BY <1>1, <1>2, SeqDef
<1>4. Len(BlocksOf(r)) = Size(r)
  <2>1. DOMAIN BlocksOf(r) = 1..Size(r)
    BY DEF BlocksOf
  <2>2. DOMAIN BlocksOf(r) = 1..Len(BlocksOf(r))
        /\ Len(BlocksOf(r)) \in Nat
    BY <1>3, LenProperties
  <2> QED
    BY <1>1, <2>1, <2>2
<1> QED
  BY <1>3, <1>4 DEF BlocksOf

(* Halving a range of at least two blocks gives two adjacent, smaller ranges. *)
LEMMA HalvesTile ==
  ASSUME NEW r \in Ranges, Size(r) > 1
  PROVE  /\ Halves(r) \in Seq(Ranges) /\ Len(Halves(r)) = 2
         /\ Halves(r)[1].from = r.from /\ Halves(r)[2].to = r.to
         /\ Halves(r)[1].to + 1 = Halves(r)[2].from
         /\ \A i \in 1..2 : /\ Size(Halves(r)[i]) \in 1..(Size(r) - 1)
                            /\ r.from <= Halves(r)[i].from
                            /\ Halves(r)[i].to <= r.to
<1> DEFINE mid == (r.from + r.to) \div 2
<1>1. r.from \in Int /\ r.to \in Int /\ r.from < r.to
  BY DEF Ranges, Size
<1>2. mid \in Int /\ r.from <= mid /\ mid < r.to
  BY <1>1
<1> DEFINE lo == [from |-> r.from, to |-> mid]
           hi == [from |-> mid + 1, to |-> r.to]
<1>3. Halves(r) = <<lo, hi>>
  BY DEF Halves
<1>4. lo \in Ranges /\ hi \in Ranges
  BY <1>1, <1>2 DEF Ranges
<1>5. /\ Size(lo) \in 1..(Size(r) - 1)
      /\ Size(hi) \in 1..(Size(r) - 1)
      /\ lo.from = r.from /\ lo.to = mid /\ hi.from = mid + 1 /\ hi.to = r.to
  BY <1>1, <1>2 DEF Size
<1> HIDE DEF lo, hi, mid
<1>6. <<lo, hi>>[1] = lo /\ <<lo, hi>>[2] = hi
  OBVIOUS
<1>7. \A i \in 1..2 : /\ Size(Halves(r)[i]) \in 1..(Size(r) - 1)
                      /\ r.from <= Halves(r)[i].from /\ Halves(r)[i].to <= r.to
  <2> TAKE i \in 1..2
  <2>1. i = 1 \/ i = 2
    OBVIOUS
  <2>2. mid + 1 \in Int /\ r.from <= mid + 1 /\ mid <= r.to
    BY <1>1, <1>2
  <2> QED
    BY <1>1, <1>3, <1>5, <1>6, <2>1, <2>2
<1> QED
  BY <1>3, <1>4, <1>5, <1>6, <1>7

LEMMA CollectionInit == Init => IInv
<1> SUFFICES ASSUME Init PROVE IInv
  OBVIOUS
<1>1. Len(pending) = 0 /\ Len(collected) = 0
  BY DEF Init
<1>2. fromBlock \in Nat /\ toBlock \in Nat /\ maxBlocks \in Nat
  BY LogCollectorAssumption DEF Init, Blocks
<1>3. TypeOK
  BY <1>2 DEF Init, TypeOK
<1>4. ValidArguments => chunkStart <= toBlock + 1
  BY <1>2 DEF Init, ValidArguments
<1>5. PendingTiles /\ Charged /\ CollectedInOrder
      /\ RequestsAcceptable
  BY <1>1, <1>2 DEF Init, PendingTiles, Charged,
     CollectedInOrder, RequestsAcceptable, Frontier
<1> QED
  BY <1>3, <1>4, <1>5 DEF Init, IInv

(* The head of a non-empty pending sequence, and what its tail inherits. *)
LEMMA HeadOfPending ==
  ASSUME IInv, pending # <<>>
  PROVE  /\ Head(pending) \in Ranges /\ Tail(pending) \in Seq(Ranges)
         /\ Head(pending) = pending[1]
         /\ Len(pending) \in Nat \ {0} /\ Len(Tail(pending)) = Len(pending) - 1
         /\ \A i \in 1..Len(pending) : pending[i] \in Ranges
         /\ \A i \in 1..Len(Tail(pending)) : Tail(pending)[i] = pending[i + 1]
         /\ Size(Head(pending)) \in 1..MaxBlocksPerLogRequest
         /\ Head(pending).from = Frontier /\ Head(pending).to <= toBlock
         /\ Head(pending).from >= fromBlock
         /\ ValidArguments
<1>1. pending \in Seq(Ranges)
  BY DEF IInv, TypeOK
<1>2. /\ Head(pending) \in Ranges /\ Tail(pending) \in Seq(Ranges)
      /\ Len(pending) \in Nat \ {0} /\ Len(Tail(pending)) = Len(pending) - 1
      /\ \A i \in 1..Len(Tail(pending)) : Tail(pending)[i] = pending[i + 1]
  BY <1>1, HeadTailProperties, EmptySeq
<1>3. \A i \in 1..Len(pending) : pending[i] \in Ranges
  BY <1>1, ElementOfSeq
<1>4. Head(pending) = pending[1]
  BY <1>1
<1>5. 1 \in 1..Len(pending)
  BY <1>2
<1>6. /\ Size(pending[1]) \in 1..MaxBlocksPerLogRequest
      /\ pending[1].from = Frontier /\ pending[1].to <= toBlock
      /\ fromBlock <= pending[1].from
  BY <1>5 DEF IInv, RequestsAcceptable, PendingTiles
<1>7. pending[1].from \in Int /\ fromBlock \in Int
  BY <1>3, <1>5 DEF Ranges, IInv, TypeOK
<1>8. ValidArguments
  BY DEF IInv
<1> QED
  BY <1>2, <1>3, <1>4, <1>6, <1>7, <1>8

(* The integers of a state, by name. *)
LEMMA CollectionFacts ==
  ASSUME IInv
  PROVE  /\ fromBlock \in Nat /\ toBlock \in Nat /\ maxBlocks \in Nat /\ chunkStart \in Nat
         /\ requests \in Nat /\ chunks \in Nat
         /\ Len(collected) \in Nat /\ Len(pending) \in Nat /\ Frontier \in Int
         /\ collected \in Seq(Int) /\ pending \in Seq(Ranges)
<1>1. TypeOK
  BY DEF IInv
<1>2. Len(collected) \in Nat /\ Len(pending) \in Nat
  BY <1>1, LenProperties DEF TypeOK
<1> QED
  BY <1>1, <1>2 DEF TypeOK, Frontier

(* What Charged says of a collection that has not failed.               *)
LEMMA ChargedMeaning ==
  ASSUME IInv, status # "failed"
  PROVE  requests <= 2 * Len(collected) + Len(pending) - chunks
<1>1. Charged
  BY DEF IInv
<1>2. (IF status = "failed" THEN 1 ELSE 0) = 0
  OBVIOUS
<1>3. Len(collected) \in Nat /\ Len(pending) \in Nat /\ requests \in Nat /\ chunks \in Nat
  BY CollectionFacts
<1> QED
  BY <1>1, <1>2, <1>3 DEF Charged

(* Two runs of consecutive numbers, the second where the first ends. *)
LEMMA Consecutive ==
  ASSUME NEW s \in Seq(Int), NEW t \in Seq(Int), NEW f \in Int,
         \A i \in 1..Len(s) : s[i] = f + i - 1,
         \A i \in 1..Len(t) : t[i] = f + Len(s) + i - 1
  PROVE  /\ s \o t \in Seq(Int) /\ Len(s \o t) = Len(s) + Len(t)
         /\ \A i \in 1..(Len(s) + Len(t)) : (s \o t)[i] = f + i - 1
<1>1. /\ s \o t \in Seq(Int) /\ Len(s \o t) = Len(s) + Len(t)
      /\ \A i \in 1..(Len(s) + Len(t)) : (s \o t)[i] = IF i <= Len(s) THEN s[i] ELSE t[i - Len(s)]
  BY ConcatProperties
<1>2. Len(s) \in Nat /\ Len(t) \in Nat
  BY LenProperties
<1>3. ASSUME NEW i \in 1..(Len(s) + Len(t)) PROVE (s \o t)[i] = f + i - 1
  <2>1. CASE i <= Len(s)
    <3>1. i \in 1..Len(s) /\ (s \o t)[i] = s[i]
      BY <1>1, <1>2, <2>1
    <3> QED
      BY <3>1
  <2>2. CASE ~(i <= Len(s))
    <3>1. i - Len(s) \in 1..Len(t) /\ (s \o t)[i] = t[i - Len(s)]
      BY <1>1, <1>2, <2>2
    <3>2. t[i - Len(s)] = f + Len(s) + (i - Len(s)) - 1
      BY <3>1
    <3> QED
      BY <1>2, <3>1, <3>2
  <2> QED
    BY <2>1, <2>2
<1> QED
  BY <1>1, <1>3

LEMMA ChunkKeepsCollection ==
  ASSUME IInv, StartChunk
  PROVE  IInv'
<1> DEFINE c == [from |-> chunkStart, to |-> ChunkEnd]
<1>0. /\ status = "running" /\ pending = <<>> /\ chunkStart <= toBlock
      /\ pending' = <<c>> /\ chunkStart' = ChunkEnd + 1 /\ chunks' = chunks + 1
      /\ fromBlock' = fromBlock /\ toBlock' = toBlock /\ maxBlocks' = maxBlocks
      /\ collected' = collected /\ status' = status /\ error' = error /\ requests' = requests
  BY DEF StartChunk, args
<1>1. ValidArguments /\ maxBlocks \in Int /\ 1 <= maxBlocks
      /\ maxBlocks <= MaxBlocksPerLogRequest
      /\ MaxBlocksPerLogRequest \in Nat
  BY <1>0, CollectionFacts, LogCollectorAssumption DEF IInv, ValidArguments
<1>2. /\ ChunkEnd \in Nat /\ chunkStart <= ChunkEnd
      /\ ChunkEnd <= toBlock
      /\ ChunkEnd - chunkStart + 1 <= maxBlocks
  <2>1. chunkStart \in Nat /\ toBlock \in Nat /\ maxBlocks \in Nat /\ chunkStart <= toBlock
    BY <1>0, CollectionFacts
  <2>2. CASE chunkStart + maxBlocks - 1 < toBlock
    <3>1. ChunkEnd = chunkStart + maxBlocks - 1
      BY <2>2 DEF ChunkEnd
    <3> QED
      BY <1>1, <2>1, <2>2, <3>1
  <2>3. CASE ~(chunkStart + maxBlocks - 1 < toBlock)
    <3>1. ChunkEnd = toBlock
      BY <2>3 DEF ChunkEnd
    <3> QED
      BY <1>1, <2>1, <2>3, <3>1
  <2> QED
    BY <2>2, <2>3
<1>3. chunkStart = Frontier /\ Len(pending) = 0
  BY <1>0 DEF IInv, PendingTiles
<1>4. c \in Ranges /\ c.from = chunkStart /\ c.to = ChunkEnd
      /\ Size(c) \in 1..MaxBlocksPerLogRequest
  BY <1>1, <1>2, CollectionFacts DEF Ranges, Size
<1>5. fromBlock <= chunkStart
  BY <1>3, CollectionFacts DEF Frontier
<1> HIDE DEF c
<1>6. pending' \in Seq(Ranges) /\ Len(pending') = 1 /\ pending'[1] = c /\ pending' # <<>>
  BY <1>0, <1>4
<1>7. TypeOK'
  BY <1>0, <1>2, <1>6, CollectionFacts DEF TypeOK, IInv
<1>8. CollectedInOrder'
  BY <1>0 DEF CollectedInOrder, IInv
<1>9. RequestsAcceptable'
  BY <1>0, <1>2, <1>4, <1>5, <1>6 DEF RequestsAcceptable, Size
<1>10. PendingTiles'
  <2>1. /\ pending'[1].from = chunkStart /\ pending'[1].to = ChunkEnd
        /\ chunkStart' - 1 = ChunkEnd /\ ChunkEnd \in Nat
    BY <1>0, <1>2, <1>4, <1>6
  <2>2. Frontier' = chunkStart
    BY <1>0, <1>3 DEF Frontier
  <2>3. \A i \in 1..(Len(pending') - 1) : pending'[i].to + 1 = pending'[i + 1].from
    BY <1>6
  <2>4. \A i \in 1..Len(pending') : pending'[i].to + (Len(pending') - i) <= chunkStart' - 1
    <3> TAKE i \in 1..Len(pending')
    <3>1. i = 1 /\ Len(pending') - i = 0
      BY <1>6
    <3>2. pending'[i].to = ChunkEnd
      BY <2>1, <3>1
    <3>3. ChunkEnd + 0 <= chunkStart' - 1
      BY <2>1
    <3> QED
      BY <3>1, <3>2, <3>3
  <2> QED
    BY <1>6, <2>1, <2>2, <2>3, <2>4 DEF PendingTiles
<1>11. Charged'
  BY <1>0, <1>3, <1>6, CollectionFacts DEF Charged, IInv
<1>12. ValidArguments' /\ chunkStart' <= toBlock' + 1
  BY <1>0, <1>1, <1>2, CollectionFacts DEF ValidArguments
<1> QED
  BY <1>0, <1>7, <1>8, <1>9, <1>10, <1>11, <1>12 DEF IInv

LEMMA AnswerKeepsCollection ==
  ASSUME IInv, RequestAnswered
  PROVE  IInv'
<1> DEFINE h == Head(pending)
<1>0. /\ status = "running" /\ pending # <<>> /\ chunkStart' = chunkStart /\ chunks' = chunks
      /\ collected' = collected \o BlocksOf(h) /\ pending' = Tail(pending)
      /\ fromBlock' = fromBlock /\ toBlock' = toBlock /\ maxBlocks' = maxBlocks
      /\ status' = status /\ error' = error /\ requests' = requests + 1
  BY DEF RequestAnswered, Asking, args
<1>1. /\ h \in Ranges /\ h = pending[1] /\ Size(h) \in Nat \ {0}
      /\ h.from = Frontier /\ h.to <= toBlock
      /\ h.from \in Int /\ h.to \in Int /\ Size(h) = h.to - h.from + 1
  BY <1>0, HeadOfPending, RangeFacts, LogCollectorAssumption
<1> DEFINE n == Len(collected)
           m == Size(h)
<1> HIDE DEF h
<1>a. BlocksOf(h) \in Seq(Int) /\ Len(BlocksOf(h)) = m
      /\ \A i \in 1..m : BlocksOf(h)[i] = h.from + i - 1
  BY <1>1, BlocksOfRange
<1>b. collected \in Seq(Int)
  BY CollectionFacts
<1>c. n \in Nat /\ m \in Nat \ {0} /\ h.from = fromBlock + n /\ h.from \in Int
      /\ fromBlock' = fromBlock /\ fromBlock \in Nat
  BY <1>0, <1>1, CollectionFacts DEF Frontier
<1>d. \A i \in 1..n : collected[i] = fromBlock + i - 1
  BY DEF IInv, CollectedInOrder
<1>e. fromBlock \in Int
      /\ \A i \in 1..Len(BlocksOf(h)) :
           BlocksOf(h)[i] = fromBlock + Len(collected) + i - 1
  BY <1>a, <1>c
<1>2. /\ collected' \in Seq(Int) /\ Len(collected') = n + m
      /\ \A i \in 1..(n + m) : collected'[i] = fromBlock + i - 1
  BY <1>0, <1>a, <1>b, <1>d, <1>e, Consecutive
<1>s. m = h.to - h.from + 1 /\ h.to \in Int
  BY <1>1
<1> HIDE DEF n, m
<1>3. \A i \in 1..Len(collected') : collected'[i] = fromBlock' + i - 1
  BY <1>2, <1>c
<1>4. Frontier' = h.to + 1 /\ Frontier' \in Int
  <2>1. Frontier' = fromBlock + (n + m)
    BY <1>2, <1>c DEF Frontier
  <2>2. fromBlock + (n + m) = h.to + 1
    BY <1>c, <1>s
  <2> QED
    BY <1>s, <2>1, <2>2
<1>5. /\ pending' \in Seq(Ranges) /\ Len(pending') = Len(pending) - 1
      /\ Len(pending) \in Nat \ {0}
      /\ \A i \in 1..Len(pending') : i + 1 \in 1..Len(pending) /\ pending'[i] = pending[i + 1]
  BY <1>0, HeadOfPending
<1>6. TypeOK'
  BY <1>0, <1>2, <1>5, CollectionFacts DEF TypeOK, IInv
<1>7. RequestsAcceptable'
  BY <1>0, <1>5 DEF RequestsAcceptable, IInv, Size
<1>8. PendingTiles'
  <2>1. CASE pending' = <<>>
    <3>1. Len(pending) = 1
      BY <1>5, <2>1
    <3>2. h.to = chunkStart - 1
      BY <1>0, <1>1, <3>1 DEF PendingTiles, IInv
    <3>3. chunkStart = h.to + 1
      BY <1>1, <3>2, CollectionFacts
    <3>4. chunkStart' = Frontier'
      BY <1>0, <1>4, <3>3
    <3> QED
      BY <2>1, <3>4 DEF PendingTiles
  <2>2. CASE pending' # <<>>
    <3>1. Len(pending') >= 1
      BY <1>5, <2>2, EmptySeq
    <3>2. pending'[1].from = Frontier'
      BY <1>0, <1>1, <1>4, <1>5, <3>1 DEF PendingTiles, IInv
    <3>3. pending'[Len(pending')].to = chunkStart' - 1
      BY <1>0, <1>5, <3>1 DEF PendingTiles, IInv
    <3>4. \A i \in 1..(Len(pending') - 1) : pending'[i].to + 1 = pending'[i + 1].from
      BY <1>0, <1>5, <3>1 DEF PendingTiles, IInv
    <3>5. \A i \in 1..Len(pending') : pending'[i].to + (Len(pending') - i) <= chunkStart' - 1
      <4> TAKE i \in 1..Len(pending')
      <4>1. pending[i + 1].to + (Len(pending) - (i + 1)) <= chunkStart - 1
        BY <1>0, <1>5 DEF PendingTiles, IInv
      <4> QED
        BY <1>0, <1>5, <4>1
    <3> QED
      BY <2>2, <3>2, <3>3, <3>4, <3>5 DEF PendingTiles
  <2> QED
    BY <2>1, <2>2
<1>9. Charged'
  <2>1. requests <= 2 * n + Len(pending) - chunks
    BY <1>0, ChargedMeaning DEF n
  <2>2. requests + 1 <= 2 * (n + m) + (Len(pending) - 1) - chunks
    BY <1>c, <2>1, CollectionFacts
  <2>3. Len(collected') = n + m /\ Len(pending') = Len(pending) - 1
    BY <1>2, <1>5
  <2>4. status' # "failed" /\ requests' = requests + 1 /\ chunks' = chunks
    BY <1>0
  <2> QED
    BY <1>c, <2>2, <2>3, <2>4, CollectionFacts DEF Charged
<1> QED
  BY <1>0, <1>3, <1>6, <1>7, <1>8, <1>9 DEF IInv, CollectedInOrder,
     ValidArguments

(* Putting two ranges before a sequence moves its elements two places up. *)
LEMMA TwoInFront ==
  ASSUME NEW S, NEW u \in Seq(S), NEW v \in Seq(S), NEW n \in Nat, Len(u) = 2, Len(v) = n
  PROVE  /\ u \o v \in Seq(S) /\ Len(u \o v) = n + 2
         /\ (u \o v)[1] = u[1] /\ (u \o v)[2] = u[2]
         /\ \A i \in 3..(n + 2) : (u \o v)[i] = v[i - 2]
<1>1. /\ u \o v \in Seq(S) /\ Len(u \o v) = Len(u) + Len(v)
      /\ \A i \in 1..(Len(u) + Len(v)) :
           (u \o v)[i] = IF i <= Len(u) THEN u[i] ELSE v[i - Len(u)]
  BY ConcatProperties, Zenon
<1> QED
  BY <1>1

LEMMA SplitKeepsCollection ==
  ASSUME IInv, Split
  PROVE  IInv'
<1> DEFINE h  == Head(pending)
           hv == Halves(h)
           t  == Tail(pending)
           p  == Len(pending)
<1>0. /\ status = "running" /\ pending # <<>> /\ chunkStart' = chunkStart /\ chunks' = chunks
      /\ Size(h) > 1 /\ pending' = hv \o t /\ collected' = collected
      /\ fromBlock' = fromBlock /\ toBlock' = toBlock /\ maxBlocks' = maxBlocks
      /\ status' = status /\ error' = error /\ requests' = requests + 1
  BY DEF Split, Asking, args
<1>1. /\ h \in Ranges /\ h = pending[1] /\ t \in Seq(Ranges)
      /\ p \in Nat \ {0} /\ Len(t) = p - 1
      /\ \A i \in 1..(p - 1) : t[i] = pending[i + 1] /\ pending[i + 1] \in Ranges
      /\ Size(h) <= MaxBlocksPerLogRequest /\ h.from = Frontier
      /\ h.from \in Int /\ h.to \in Int /\ h.to <= toBlock /\ fromBlock <= h.from
      /\ MaxBlocksPerLogRequest \in Int /\ Size(h) \in Int /\ ValidArguments
  BY <1>0, HeadOfPending, RangeFacts, LogCollectorAssumption
<1>2. /\ hv \in Seq(Ranges) /\ Len(hv) = 2
      /\ hv[1].from = h.from /\ hv[2].to = h.to /\ hv[1].to + 1 = hv[2].from
      /\ \A i \in 1..2 : /\ Size(hv[i]) \in 1..(Size(h) - 1)
                         /\ h.from <= hv[i].from /\ hv[i].to <= h.to
  BY <1>0, <1>1, HalvesTile
<1>3. hv[1] \in Ranges /\ hv[2] \in Ranges
  BY <1>2, ElementOfSeq
<1>4. /\ hv[1].to \in Int /\ hv[1].from \in Int /\ hv[2].to \in Int /\ hv[2].from \in Int
      /\ hv[2].from <= hv[2].to
  <2>1. Size(hv[2]) >= 1
    BY <1>1, <1>2
  <2> QED
    BY <1>3, <2>1, RangeFacts
<1>q. p \in Nat /\ p >= 1
  BY <1>1
<1>r. /\ h.from \in Int /\ h.to \in Int /\ h.to <= toBlock /\ fromBlock <= h.from
      /\ Size(h) \in Int /\ Size(h) <= MaxBlocksPerLogRequest
      /\ MaxBlocksPerLogRequest \in Int
  BY <1>1
<1> HIDE DEF h, hv, t, p
<1>p. /\ hv \o t \in Seq(Ranges) /\ Len(hv \o t) = p + 1
      /\ (hv \o t)[1] = hv[1] /\ (hv \o t)[2] = hv[2]
      /\ \A i \in 3..(p + 1) : (hv \o t)[i] = t[i - 2]
  <2>1. p - 1 \in Nat /\ (p - 1) + 2 = p + 1
    BY <1>q
  <2>2. t \in Seq(Ranges) /\ Len(t) = p - 1 /\ hv \in Seq(Ranges) /\ Len(hv) = 2
    BY <1>1, <1>2
  <2> QED
    BY <2>1, <2>2, TwoInFront
<1>5. /\ pending' \in Seq(Ranges) /\ Len(pending') = p + 1 /\ p = Len(pending)
      /\ pending'[1] = hv[1] /\ pending'[2] = hv[2]
      /\ \A i \in 3..(p + 1) : i - 1 \in 1..p /\ pending'[i] = pending[i - 1]
  <2>1. \A i \in 3..(p + 1) : i - 2 \in 1..(p - 1) /\ t[i - 2] = pending[(i - 2) + 1]
    BY <1>1
  <2>2. pending' = hv \o t /\ p = Len(pending)
    BY <1>0 DEF p
  <2>3. \A i \in 3..(p + 1) : i - 1 \in 1..p /\ (i - 2) + 1 = i - 1
    BY <1>q
  <2> QED
    BY <1>p, <2>1, <2>2, <2>3
<1>6. TypeOK'
  BY <1>0, <1>5, CollectionFacts DEF TypeOK, IInv
<1>7. RequestsAcceptable'
  <2> SUFFICES ASSUME NEW i \in 1..(p + 1)
               PROVE  /\ Size(pending'[i]) \in 1..MaxBlocksPerLogRequest
                      /\ fromBlock <= pending'[i].from /\ pending'[i].to <= toBlock
    BY <1>0, <1>5 DEF RequestsAcceptable, Size
  <2>1. CASE i = 1 \/ i = 2
    <3>1. i \in 1..2 /\ pending'[i] = hv[i]
      BY <1>5, <2>1
    <3>2. hv[i].from \in Int /\ hv[i].to \in Int /\ Size(hv[i]) \in Int
      BY <1>1, <1>2, <1>4, <2>1
    <3>3. Size(hv[i]) \in 1..(Size(h) - 1) /\ h.from <= hv[i].from
          /\ hv[i].to <= h.to
      BY <1>2, <3>1
    <3>4. fromBlock \in Int /\ toBlock \in Int
      BY CollectionFacts
    <3>5. /\ Size(hv[i]) \in 1..MaxBlocksPerLogRequest
          /\ fromBlock <= hv[i].from /\ hv[i].to <= toBlock
      BY <1>r, <3>2, <3>3, <3>4
    <3> QED
      BY <3>1, <3>5
  <2>2. CASE i > 2
    <3>1. i - 1 \in 1..p /\ pending'[i] = pending[i - 1] /\ p = Len(pending)
      BY <1>5, <1>q, <2>2
    <3> QED
      BY <3>1 DEF RequestsAcceptable, IInv
  <2> QED
    BY <1>1, <2>1, <2>2
<1>8. PendingTiles'
  <2>1. /\ pending[1].from = Frontier /\ pending[p].to = chunkStart - 1
        /\ \A i \in 1..(p - 1) : pending[i].to + 1 = pending[i + 1].from
        /\ \A i \in 1..p : pending[i].to + (p - i) <= chunkStart - 1
    BY <1>0, <1>5 DEF PendingTiles, IInv
  <2>2. pending' # <<>>
    BY <1>1, <1>5, EmptySeq
  <2>3. pending'[1].from = Frontier'
    BY <1>0, <1>1, <1>2, <1>5 DEF Frontier
  <2>4. pending'[p + 1].to = chunkStart' - 1
    <3>1. CASE p = 1
      <4>1. p + 1 = 2 /\ pending[p] = h
        BY <1>1, <3>1
      <4> QED
        BY <1>0, <1>2, <1>5, <2>1, <4>1
    <3>2. CASE p > 1
      <4>1. p + 1 \in 3..(p + 1) /\ (p + 1) - 1 = p
        BY <1>q, <3>2
      <4> QED
        BY <1>0, <1>5, <2>1, <4>1
    <3> QED
      BY <1>q, <3>1, <3>2
  <2>5. \A i \in 1..p : pending'[i].to + 1 = pending'[i + 1].from
    <3> TAKE i \in 1..p
    <3>1. CASE i = 1
      BY <1>2, <1>5, <3>1
    <3>2. CASE i = 2
      <4>1. 3 \in 3..(p + 1) /\ 1 \in 1..(p - 1)
        BY <1>q, <3>2
      <4>2. pending'[2] = hv[2] /\ pending'[3] = pending[2]
        BY <1>5, <4>1
      <4>3. hv[2].to = pending[1].to /\ pending[1].to + 1 = pending[2].from
        BY <1>1, <1>2, <2>1, <4>1
      <4> QED
        BY <3>2, <4>2, <4>3
    <3>3. CASE i > 2
      <4>1. i \in 3..(p + 1) /\ i + 1 \in 3..(p + 1) /\ i - 1 \in 1..(p - 1)
        BY <1>1, <3>3
      <4>2. pending'[i] = pending[i - 1] /\ pending'[i + 1] = pending[(i - 1) + 1]
        BY <1>5, <4>1
      <4> QED
        BY <2>1, <4>1, <4>2
    <3> QED
      BY <1>1, <3>1, <3>2, <3>3
  <2>6. \A i \in 1..(p + 1) : pending'[i].to + ((p + 1) - i) <= chunkStart' - 1
    <3> TAKE i \in 1..(p + 1)
    <3>0. h.to + (p - 1) <= chunkStart - 1 /\ chunkStart \in Int
      BY <1>1, <2>1, CollectionFacts
    <3>1. CASE i = 1
      <4>1. hv[1].to + 1 <= h.to
        BY <1>1, <1>2, <1>4
      <4>2. hv[1].to + ((p + 1) - 1) <= chunkStart - 1
        BY <1>r, <1>4, <1>q, <3>0, <4>1
      <4> QED
        BY <1>0, <1>5, <3>1, <4>2
    <3>2. CASE i = 2
      BY <1>0, <1>1, <1>2, <1>5, <3>0, <3>2
    <3>3. CASE i > 2
      <4>1. i \in 3..(p + 1) /\ i - 1 \in 1..p /\ (p + 1) - i = p - (i - 1)
        BY <1>1, <3>3
      <4>2. pending'[i] = pending[i - 1]
        BY <1>5, <4>1
      <4>3. pending[i - 1].to + (p - (i - 1)) <= chunkStart - 1
        BY <2>1, <4>1
      <4> QED
        BY <1>0, <4>1, <4>2, <4>3
    <3> QED
      BY <1>1, <3>1, <3>2, <3>3
  <2>7. (p + 1) - 1 = p
    BY <1>1
  <2> QED
    BY <1>5, <2>2, <2>3, <2>4, <2>5, <2>6, <2>7 DEF PendingTiles
<1>9. Charged'
  <2>1. requests <= 2 * Len(collected) + p - chunks
    BY <1>0, ChargedMeaning DEF p
  <2>2. requests + 1 <= 2 * Len(collected) + (p + 1) - chunks
    BY <1>q, <2>1, CollectionFacts
  <2>3. status' # "failed" /\ requests' = requests + 1 /\ chunks' = chunks /\ collected' = collected
    BY <1>0
  <2>4. requests' <= 2 * Len(collected') + Len(pending') - chunks'
    BY <1>5, <2>2, <2>3
  <2>5. (IF status' = "failed" THEN 1 ELSE 0) = 0
    BY <2>3
  <2>6. 2 * Len(collected') + Len(pending') - chunks' \in Int
    BY <1>5, <1>q, <2>3, CollectionFacts
  <2> QED
    BY <2>4, <2>5, <2>6 DEF Charged
<1> QED
  BY <1>0, <1>6, <1>7, <1>8, <1>9 DEF IInv, CollectedInOrder,
     ValidArguments

LEMMA NextKeepsCollection ==
  ASSUME IInv, [Next]_vars
  PROVE  IInv'
<1> USE DEF CollectedInOrder, RequestsAcceptable, PendingTiles,
   Frontier, ValidArguments, Size
<1>0. TypeOK /\ Charged /\ PendingTiles
  BY DEF IInv
<1>1. CASE CheckArguments
  <2>1. TypeOK'
    BY <1>0, <1>1 DEF CheckArguments, Raise, TypeOK, args
  <2>2. Charged'
    BY <1>0, <1>1, CollectionFacts DEF CheckArguments, Raise,
       Charged, args
  <2> QED
    BY <1>0, <1>1, <2>1, <2>2 DEF CheckArguments, Raise, IInv,
       args
<1>2. CASE StartChunk
  BY <1>2, ChunkKeepsCollection
<1>3. CASE RequestAnswered
  BY <1>3, AnswerKeepsCollection
<1>4. CASE Split
  BY <1>4, SplitKeepsCollection
<1>5. ASSUME GiveUp \/ RequestRaises
      PROVE  IInv'
  <2>1. /\ Asking /\ status' = "failed"
        /\ error' \in {"LogCollectionError", "NonRetryableRpcError"}
        /\ requests' = requests + 1
        /\ UNCHANGED <<args, chunkStart, pending, collected, chunks>>
    BY <1>5 DEF GiveUp, RequestRaises, Raise
  <2>2. TypeOK'
    BY <1>0, <2>1, CollectionFacts DEF TypeOK, args
  <2>3. Charged'
    BY <1>0, <2>1, CollectionFacts DEF Charged, Asking
  <2>4. ValidArguments
    BY <2>1 DEF IInv, Asking
  <2>5. CollectedInOrder' /\ RequestsAcceptable'
    BY <2>1 DEF IInv, Asking, args
  <2>6. PendingTiles'
    BY <1>0, <2>1 DEF args
  <2> QED
    BY <2>1, <2>2, <2>3, <2>4, <2>5, <2>6 DEF IInv, Asking, args
<1>6. CASE Return
  <2>1. Len(collected) = toBlock - fromBlock + 1
    <3>1. chunkStart > toBlock /\ chunkStart <= toBlock + 1 /\ chunkStart = Frontier
      BY <1>0, <1>6 DEF Return, IInv
    <3> QED
      BY <3>1, CollectionFacts
  <2>2. TypeOK' /\ Charged'
    BY <1>0, <1>6 DEF Return, TypeOK, Charged, args
  <2> QED
    BY <1>0, <1>6, <2>1, <2>2 DEF Return, IInv, args
<1>7. CASE UNCHANGED vars
  BY <1>7 DEF vars, args, IInv, TypeOK, Charged
<1> QED
  BY <1>1, <1>2, <1>3, <1>4, <1>5, <1>6, <1>7 DEF Next, Collect,
     Finished

(* The pending ranges hold at least one block each, so they are no more than    *)
(* the blocks still to collect.                                                 *)
LEMMA PendingArePaidFor ==
  ASSUME IInv, pending # <<>>
  PROVE  Len(collected) + Len(pending) <= toBlock - fromBlock + 1 /\ Len(pending) >= 1
<1> DEFINE p == Len(pending)
           n == Len(collected)
<1>1. /\ p \in Nat /\ n \in Nat /\ fromBlock \in Nat /\ toBlock \in Nat /\ chunkStart \in Nat
      /\ ValidArguments /\ chunkStart <= toBlock + 1
  BY CollectionFacts, HeadOfPending DEF IInv
<1>2. /\ 1 \in 1..p /\ pending[1].from = fromBlock + n /\ pending[1] \in Ranges
      /\ Size(pending[1]) \in 1..MaxBlocksPerLogRequest
  BY HeadOfPending DEF Frontier
<1>3. pending[1].to + (p - 1) <= chunkStart - 1
  BY <1>2 DEF IInv, PendingTiles
<1>4. pending[1].to \in Int /\ pending[1].to >= fromBlock + n
  BY <1>1, <1>2, RangeFacts, LogCollectorAssumption
<1> QED
  BY <1>1, <1>2, <1>3, <1>4

(* The next request is within the budget too. *)
LEMMA AskingIsPaidFor ==
  ASSUME IInv, Asking
  PROVE  requests + 1 <= 2 * (toBlock - fromBlock + 1) - chunks
<1>1. requests <= 2 * Len(collected) + Len(pending) - chunks
  BY ChargedMeaning DEF Asking
<1>2. Len(collected) + Len(pending) <= toBlock - fromBlock + 1 /\ Len(pending) >= 1
  BY PendingArePaidFor DEF Asking
<1> DEFINE n == Len(collected)
           p == Len(pending)
<1>3. /\ n \in Nat /\ p \in Nat /\ requests \in Nat /\ chunks \in Nat
      /\ fromBlock \in Nat /\ toBlock \in Nat
  BY CollectionFacts
<1>4. requests <= 2 * n + p - chunks /\ n + p <= toBlock - fromBlock + 1 /\ p >= 1
  BY <1>1, <1>2
<1> HIDE DEF n, p
<1> QED
  BY <1>3, <1>4

(* A chunk is started for blocks not collected yet, which pay for it. *)
LEMMA ChunkIsPaidFor ==
  ASSUME IInv, StartChunk
  PROVE  requests <= 2 * (toBlock - fromBlock + 1) - chunks' /\ chunks' = chunks + 1
<1>1. /\ status # "failed" /\ pending = <<>> /\ chunkStart <= toBlock /\ chunks' = chunks + 1
  BY DEF StartChunk
<1>2. chunkStart = fromBlock + Len(collected) /\ Len(pending) = 0
  BY <1>1 DEF IInv, PendingTiles, Frontier
<1> DEFINE n == Len(collected)
<1>3. /\ n \in Nat /\ requests \in Nat /\ chunks \in Nat
      /\ fromBlock \in Nat /\ toBlock \in Nat
  BY CollectionFacts
<1>4. requests <= 2 * n - chunks
  BY <1>1, <1>2, <1>3, ChargedMeaning
<1>5. chunkStart = fromBlock + n
  BY <1>2
<1> HIDE DEF n
<1> QED
  BY <1>1, <1>3, <1>4, <1>5

(* So the charged requests stay below the budget. *)
LEMMA CollectionBudget == IInv => RequestBudget
<1> SUFFICES ASSUME IInv, ValidArguments
             PROVE  requests <= 2 * (toBlock - fromBlock + 1) - chunks
  BY DEF RequestBudget
<1>1. requests <= 2 * Len(collected) + Len(pending) - chunks + (IF status = "failed" THEN 1 ELSE 0)
  BY DEF IInv, Charged
<1>2. CASE pending = <<>>
  <2>1. Len(pending) = 0 /\ chunkStart = fromBlock + Len(collected) /\ chunkStart <= toBlock + 1
    BY <1>2 DEF IInv, PendingTiles, Frontier
  <2>2. requests <= 2 * Len(collected) + Len(pending) - chunks
    BY <1>2, ChargedMeaning DEF IInv
  <2> DEFINE n == Len(collected)
  <2>3. /\ n \in Nat /\ requests \in Nat /\ chunks \in Nat
        /\ fromBlock \in Nat /\ toBlock \in Nat
    BY CollectionFacts
  <2>4. requests <= 2 * n - chunks /\ fromBlock + n <= toBlock + 1
    BY <2>1, <2>2, <2>3
  <2> HIDE DEF n
  <2> QED
    BY <2>3, <2>4
<1>3. CASE pending # <<>>
  <2>1. requests <= 2 * Len(collected) + Len(pending) - chunks + 1
    BY <1>1, CollectionFacts
  <2>2. Len(collected) + Len(pending) <= toBlock - fromBlock + 1 /\ Len(pending) >= 1
    BY <1>3, PendingArePaidFor
  <2> DEFINE n == Len(collected)
             p == Len(pending)
  <2>3. /\ n \in Nat /\ p \in Nat /\ requests \in Nat /\ chunks \in Nat
        /\ fromBlock \in Nat /\ toBlock \in Nat
    BY CollectionFacts
  <2> HIDE DEF n, p
  <2> QED
    BY <2>1, <2>2, <2>3 DEF n, p
<1> QED
  BY <1>2, <1>3

(* Every state of a collection is well typed.                                   *)
THEOREM CollectionTypes == Spec => []TypeOK
<1>1. IInv => TypeOK
  BY DEF IInv
<1> QED
  BY CollectionInit, NextKeepsCollection, <1>1, PTL DEF Spec

(* Whatever requests fail and however they are split, the collected blocks are  *)
(* the beginning of the range, each once and in order, and all of it at return. *)
THEOREM CollectionComplete == Spec => []CollectedInOrder
<1>1. IInv => CollectedInOrder
  BY DEF IInv
<1> QED
  BY CollectionInit, NextKeepsCollection, <1>1, PTL DEF Spec

(* No request exceeds the node's block limit or leaves the requested range.     *)
THEOREM RequestsCorrect == Spec => []RequestsAcceptable
<1>1. IInv => RequestsAcceptable
  BY DEF IInv
<1> QED
  BY CollectionInit, NextKeepsCollection, <1>1, PTL DEF Spec

(* n blocks in c chunks never cost more than 2n - c requests.                   *)
THEOREM CollectionBudgetHolds == Spec => []RequestBudget
  BY CollectionInit, NextKeepsCollection, CollectionBudget, PTL DEF Spec

-------------------------------------------------------------------------------
(* The session as a collection, and as calls. *)

(* Every step is one of the collector, or leaves all that is the collector's.   *)
LEMMA CollectorSteps ==
  ASSUME [SessionNext]_fetchVars
  PROVE  [Next]_vars
<1> USE DEF collectorVars
<1>0. UNCHANGED collectorVars => UNCHANGED vars
  BY DEF vars, args
<1>1. CASE UNCHANGED fetchVars
  BY <1>0, <1>1 DEF fetchVars
<1>2. CASE Session
  BY <1>0, <1>2 DEF Session, StartCall, CallGoesOn, ChainIdRead, RecentHeadRead, RecentHeadRefused,
    HeadRead, SampleLogsRead, LookedUp, LookupForbidden, CallRaises, CollectorMoves, LogsAnswered,
    LogsFailed, LogsRefused, LogsCollected, TimestampRead, Close, Next, Collect
<1>3. CASE Ended
  BY <1>0, <1>3 DEF Ended, fetchVars
<1> QED
  BY <1>0, <1>1, <1>2, <1>3 DEF SessionNext

(* Composed with the client, whose errors decide which ranges fail, the         *)
(* collector does nothing it does not do alone.                                 *)
THEOREM SessionCollects == SessionSpec => ImplementsLogCollector
<1>1. SessionInit => Init
  BY DEF SessionInit
<1> QED
  BY <1>1, CollectorSteps, PTL DEF SessionSpec, ImplementsLogCollector, Spec

(* So whatever the provider answers, a session asks for ranges the node accepts,*)
(* within the budget, and has the beginning of the range, or all of it.         *)
THEOREM SessionCollectsInOrder ==
  SessionSpec => [](CollectedInOrder /\ RequestsAcceptable /\ RequestBudget)
  BY SessionCollects, CollectionComplete, RequestsCorrect, CollectionBudgetHolds, PTL
     DEF ImplementsLogCollector

\* The client of a recent_finalized run is closed, and another one made.
NewClient ==
  /\ lastRequestAt' = None /\ phase' = "idle" /\ attempt' = 0
  /\ errors' = <<>> /\ erroredAt' = 0
  /\ firstAt' = 0 /\ posts' = 0 /\ calls' = 0
  /\ now' = now

(* Whatever the session does with what a call returns or raises, its calls are  *)
(* RpcClient's, of a client that is new when it begins and may be replaced.     *)
THEOREM SessionCalls == SessionSpec => Client!Init /\ [][Client!Next \/ NewClient]_clientVars
<1>1. SessionInit => Client!Init
  BY DEF SessionInit
<1>2. [SessionNext]_fetchVars => [Client!Next \/ NewClient]_clientVars
  BY ClientSteps DEF StartCall, CallGoesOn, RecentHeadRead, Client!Next, NewClient
<1> QED
  BY <1>1, <1>2, PTL DEF SessionSpec

(* LogCollector's inductive invariant is one of the session.                    *)
LEMMA CollectorInvInit == SessionInit => IInv
  BY CollectionInit DEF SessionInit

LEMMA NextKeepsCollectorInv ==
  ASSUME IInv, [SessionNext]_fetchVars
  PROVE  IInv'
BY CollectorSteps, NextKeepsCollection

-------------------------------------------------------------------------------
(* LogCollectionError leaves the session with the call behind it as it was. *)

GaveUp ==
  /\ pending # <<>>
  /\ Size(Head(pending)) = 1
  /\ phase = "raised"
  /\ Raised # "NonRetryableRpcError"

GiveUpInv ==
  /\ stage = "failed" => ~inFlight
  /\ failure = "LogCollectionError" => stage = "failed" /\ GaveUp

LEMMA NextKeepsGiveUpInv ==
  ASSUME CallInv, GiveUpInv, [SessionNext]_fetchVars
  PROVE  GiveUpInv'
<1>1. CASE UNCHANGED fetchVars \/ Ended
  BY <1>1 DEF Ended, fetchVars, clientVars, collectorVars, GiveUpInv, GaveUp, Raised, Size
<1>2. CASE Session
  <2>1. failure # "LogCollectionError"
    BY <1>2 DEF Session, GiveUpInv, StartCall, Wanted, CallStages, CallGoesOn, ChainIdRead,
      RecentHeadRead, RecentHeadRefused, HeadRead, SampleLogsRead, LookedUp, LookupForbidden,
      CallRaises, CollectorMoves, LogsAnswered, LogsFailed, LogsRefused, LogsCollected,
      TimestampRead, Close
  <2>2. stage' = "failed" => ~inFlight'
    BY <1>2 DEF Session, GiveUpInv, StartCall, Wanted, CallStages, CallGoesOn, ChainIdRead,
      RecentHeadRead, RecentHeadRefused, HeadRead, SampleLogsRead, LookedUp, LookupForbidden,
      CallRaises, CollectorMoves, LogsAnswered, LogsFailed, LogsRefused, LogsCollected,
      TimestampRead, Close, Returned, Raises, GoesOn, Fails
  <2>3. CASE LogsFailed
    <3>1. failure' = "LogCollectionError" => GiveUp /\ stage' = "failed"
      BY <2>1, <2>3 DEF LogsFailed, Fails
    <3>2. UNCHANGED <<phase, errors>> /\ phase = "raised" /\ Raised # "NonRetryableRpcError"
      BY <2>3 DEF LogsFailed, Raises, clientVars
    <3>3. GiveUp => /\ pending # <<>> /\ pending' = pending
                              /\ Size(Head(pending)) = 1
      BY DEF GiveUp, Asking
    <3> QED
      BY <2>2, <3>1, <3>2, <3>3 DEF GiveUpInv, GaveUp, Raised, Size
  <2>4. CASE CallRaises
    <3>1. failure' = Raised /\ Raised # "LogCollectionError"
      BY <2>4, RaisedIsAClass DEF CallRaises, Raises, Fails, Client!ErrorClasses,
         Client!MustSplit, Client!Transient
    <3> QED
      BY <2>2, <3>1 DEF GiveUpInv
  <2>5. CASE ~LogsFailed /\ ~CallRaises
    <3>1. failure' # "LogCollectionError"
      BY <1>2, <2>1, <2>5 DEF Session, StartCall, CallGoesOn, ChainIdRead, RecentHeadRead,
        RecentHeadRefused, HeadRead, SampleLogsRead, LookedUp, LookupForbidden, CollectorMoves,
        LogsAnswered, LogsRefused, LogsCollected, TimestampRead, Close, BadBlock,
        sessionVars, GoesOn, Fails
    <3> QED
      BY <2>2, <3>1 DEF GiveUpInv
  <2> QED
    BY <2>3, <2>4, <2>5
<1> QED
  BY <1>1, <1>2 DEF SessionNext

(* However many ranges fail and are halved, and whichever errors their calls    *)
(* meet: a session gives up only on a single block, and only after its retries  *)
(* are used up on it or the provider has called even that block too large.      *)
THEOREM GiveUpJustified == SessionSpec => []GiveUpIsJustified
<1>1. SessionInit => CallInv /\ IInv /\ GiveUpInv
  BY CallInvInit, CollectorInvInit DEF SessionInit, GiveUpInv
<1>2. CallInv /\ IInv /\ GiveUpInv /\ [SessionNext]_fetchVars
        => (CallInv /\ IInv /\ GiveUpInv)'
  BY NextKeepsCallInv, NextKeepsCollectorInv, NextKeepsGiveUpInv
<1>3. CallInv /\ IInv /\ GiveUpInv => GiveUpIsJustified
  <2> SUFFICES ASSUME CallInv, IInv, GaveUp
               PROVE  /\ Head(pending).from = Head(pending).to
                      /\ Len(errors) = MaxRetries + 1 \/ Raised \in Client!MustSplit
    BY DEF GiveUpInv, GiveUpIsJustified
  <2>1. Head(pending) \in Ranges
    BY HeadOfPending DEF GaveUp
  <2>2. Head(pending).from = Head(pending).to
    BY <2>1 DEF GaveUp, Size, Ranges
  <2>3. Raised \in Client!Transient \cup Client!MustSplit
    BY RaisedIsAClass DEF GaveUp, Client!ErrorClasses
  <2> QED
    BY <2>2, <2>3 DEF GaveUp, CallInv
<1> QED
  BY <1>1, <1>2, <1>3, PTL DEF SessionSpec

-------------------------------------------------------------------------------
(* The rate over a whole session. *)

(* The delay after attempt n is a number: 2^n counts the subsets of 1..n. *)
LEMMA BackoffDelayIsNat ==
  ASSUME NEW n \in Nat
  PROVE  Client!BackoffDelay(n) \in Nat
<1>1. IsFiniteSet(1..n) /\ Cardinality(1..n) = n
  BY FS_Interval
<1>2. IsFiniteSet(SUBSET (1..n)) /\ Cardinality(SUBSET (1..n)) = 2^n
  BY <1>1, FS_SUBSET
<1>3. 2^n \in Nat
  BY <1>2, FS_CardinalityType
<1> QED
  BY <1>3, FetchSessionAssumption DEF Client!BackoffDelay

ClockInv ==
  /\ now \in Int /\ firstAt \in Int /\ posts \in Nat
  /\ posts = 0 <=> lastRequestAt = None
  /\ posts > 0 => lastRequestAt \in Int /\ lastRequestAt <= now

LEMMA NextKeepsClockInv ==
  ASSUME ClockInv, CallInv, [SessionNext]_fetchVars
  PROVE  ClockInv' /\ now' >= now
<1> USE DEF Client!history
<1>1. CASE UNCHANGED clientVars
  BY <1>1 DEF clientVars, ClockInv
<1>2. CASE StartCall
  <2>1. now' \in now..(now + MaxPause) /\ UNCHANGED <<lastRequestAt, firstAt, posts>>
    BY <1>2 DEF StartCall, Client!Call
  <2> QED
    BY <2>1, FetchSessionAssumption DEF ClockInv
<1>3. CASE RecentHeadRead
  BY <1>3 DEF RecentHeadRead, ClockInv
<1>4. CASE CallGoesOn
  <2>1. CASE Client!SendPost
    <3>1. Client!Due \in Int
      BY FetchSessionAssumption DEF Client!Due, ClockInv
    <3>2. now' \in Int /\ now' >= now /\ lastRequestAt' = now'
      BY <2>1, <3>1, FetchSessionAssumption DEF Client!SendPost, ClockInv
    <3>3. posts' = posts + 1 /\ firstAt' \in {firstAt, now'}
      BY <2>1 DEF Client!SendPost
    <3> QED
      BY <3>2, <3>3, FetchSessionAssumption DEF ClockInv
  <2>2. CASE Client!Answered \/ Client!Failed
    <3>1. now' \in now..(now + MaxLatency) /\ UNCHANGED <<lastRequestAt, firstAt, posts>>
      BY <2>2 DEF Client!Answered, Client!Failed
    <3> QED
      BY <3>1, FetchSessionAssumption DEF ClockInv
  <2>3. CASE Client!SleepBeforeRetry
    <3>1. Client!BackoffDelay(attempt) \in Nat
      BY BackoffDelayIsNat DEF CallInv
    <3>2. now' \in Int /\ now' >= now
      BY <2>3, <3>1, FetchSessionAssumption DEF Client!SleepBeforeRetry, ClockInv
    <3>3. UNCHANGED <<lastRequestAt, firstAt, posts>>
      BY <2>3 DEF Client!SleepBeforeRetry
    <3> QED
      BY <3>2, <3>3 DEF ClockInv
  <2> QED
    BY <1>4, <2>1, <2>2, <2>3 DEF CallGoesOn, Client!Request
<1> QED
  BY <1>1, <1>2, <1>3, <1>4, ClientSteps

\* Which sessions make which calls.
StageInv ==
  /\ stage \in {"recentChainId", "recentHead"} => mode = "recent"
  /\ stage = "head" => mode \in {"smoke", "notebook01", "notebook02"}

LEMMA NextKeepsStageInv ==
  ASSUME StageInv, [SessionNext]_fetchVars
  PROVE  StageInv'
<1>1. mode' = mode
  BY DEF SessionNext, Session, Ended, fetchVars, sessionVars, StartCall, CallGoesOn, ChainIdRead,
    RecentHeadRead, RecentHeadRefused, HeadRead, SampleLogsRead, LookedUp, LookupForbidden,
    CallRaises, CollectorMoves, LogsAnswered, LogsFailed, LogsRefused, LogsCollected,
    TimestampRead, Close
<1>2. CASE ChainIdRead
  <2>1. CASE stage = "recentChainId"
    <3>1. stage' \in {"failed", "recentHead"}
      BY <1>2, <2>1 DEF ChainIdRead, GoesOn, Fails, StageInv
    <3> QED
      BY <1>1, <2>1, <3>1 DEF StageInv
  <2>2. CASE stage # "recentChainId"
    <3>1. \/ stage' \in {"failed", "resolve"}
          \/ stage' = "head" /\ mode \in {"smoke", "notebook01"}
      BY <1>2, <2>2 DEF ChainIdRead, GoesOn, Fails
    <3> QED
      BY <1>1, <3>1 DEF StageInv
  <2> QED
    BY <2>1, <2>2
<1>3. CASE HeadRead
  <2>1. stage' \in {"failed", "resolve", "done", "sampleLogs"}
    BY <1>3 DEF HeadRead, GoesOn, Fails, StageInv
  <2> QED
    BY <2>1 DEF StageInv
<1>4. CASE ~ChainIdRead /\ ~HeadRead
  <2>1. stage' = stage \/ stage' \notin {"recentChainId", "recentHead", "head"}
    BY <1>4 DEF SessionNext, Session, Ended, fetchVars, StartCall, CallGoesOn, RecentHeadRead,
      RecentHeadRefused, SampleLogsRead, LookedUp, LookupForbidden, CallRaises, CollectorMoves,
      LogsAnswered, LogsFailed, LogsRefused, LogsCollected, TimestampRead, Close, GoesOn, Fails
  <2> QED
    BY <1>1, <2>1 DEF StageInv
<1> QED
  BY <1>2, <1>3, <1>4

\* The second of two clients sends its first POST after the last of the first one.
RateInv ==
  /\ earlierPosts \in Nat /\ earlierFirst \in Int
  /\ mode # "recent" => earlierPosts = 0
  /\ posts > 0 => (posts - 1) * MinInterval <= lastRequestAt - firstAt
  /\ earlierPosts > 0 =>
       (earlierPosts - 1) * MinInterval <= (IF posts = 0 THEN now ELSE firstAt) - earlierFirst

(* One POST more, one interval later. *)
LEMMA OneMore ==
  ASSUME NEW n \in Nat, n > 0, NEW first \in Int, NEW last \in Int, NEW next \in Int,
         (n - 1) * MinInterval <= last - first, next >= last + MinInterval
  PROVE  n * MinInterval <= next - first
<1>1. MinInterval \in Nat
  BY FetchSessionAssumption
<1> DEFINE a == (n - 1) * MinInterval
           b == n * MinInterval
<1>2. a \in Int /\ b \in Int /\ b = a + MinInterval
  BY <1>1
<1>3. a <= last - first
  OBVIOUS
<1> HIDE DEF a, b
<1>4. b <= next - first
  BY <1>1, <1>2, <1>3
<1> QED
  BY <1>4 DEF b

(* What has been kept so far is kept as time passes. *)
LEMMA Later ==
  ASSUME NEW a \in Int, NEW first \in Int, NEW t \in Int, NEW u \in Int,
         a <= t - first, t <= u
  PROVE  a <= u - first
OBVIOUS

LEMMA NextKeepsRateInv ==
  ASSUME StageInv, ClockInv, ClockInv', now' >= now, RateInv, [SessionNext]_fetchVars
  PROVE  RateInv'
<1> USE DEF Client!history
<1>1. CASE ~RecentHeadRead
  <2>1. UNCHANGED <<mode, earlierPosts, earlierFirst>>
    BY <1>1 DEF SessionNext, Session, Ended, fetchVars, sessionVars, StartCall, CallGoesOn,
      ChainIdRead, RecentHeadRefused, HeadRead, SampleLogsRead, LookedUp,
      LookupForbidden, CallRaises, CollectorMoves, LogsAnswered, LogsFailed, LogsRefused,
      LogsCollected, TimestampRead, Close
  <2>2. CASE UNCHANGED <<lastRequestAt, firstAt, posts>>
    <3>1. earlierPosts > 0 =>
            (earlierPosts - 1) * MinInterval
              <= (IF posts = 0 THEN now' ELSE firstAt) - earlierFirst
      <4>1. (earlierPosts - 1) * MinInterval \in Int
        BY FetchSessionAssumption DEF RateInv
      <4>2. CASE posts = 0
        <5>1. earlierPosts > 0 => (earlierPosts - 1) * MinInterval <= now - earlierFirst
          BY <4>2 DEF RateInv
        <5> QED
          BY <4>1, <4>2, <5>1, Later DEF ClockInv, RateInv
      <4>3. CASE posts # 0
        BY <4>3 DEF RateInv
      <4> QED
        BY <4>2, <4>3
    <3> QED
      BY <2>1, <2>2, <3>1 DEF RateInv
  <2>3. CASE Client!SendPost
    <3>1. posts' = posts + 1 /\ lastRequestAt' = now'
          /\ firstAt' = IF posts = 0 THEN now' ELSE firstAt
      BY <2>3 DEF Client!SendPost
    <3>2. CASE posts = 0
      <4>1. firstAt' = now' /\ posts' = 1 /\ now' = now
        BY <2>3, <3>1, <3>2 DEF Client!SendPost, Client!Due, ClockInv
      <4>2. (posts' - 1) * MinInterval = 0
        BY <4>1, FetchSessionAssumption
      <4> QED
        BY <2>1, <3>1, <3>2, <4>1, <4>2 DEF RateInv, ClockInv
    <3>3. CASE posts > 0
      <4>1. now' >= lastRequestAt + MinInterval
        BY <2>3, <3>3, FetchSessionAssumption DEF Client!SendPost, Client!Due, ClockInv
      <4>2. posts * MinInterval <= now' - firstAt
        BY <3>3, <4>1, OneMore DEF RateInv, ClockInv
      <4>3. posts' - 1 = posts /\ posts' # 0 /\ firstAt' = firstAt
        BY <3>1, <3>3 DEF ClockInv
      <4> QED
        BY <2>1, <3>1, <3>3, <4>2, <4>3 DEF RateInv, ClockInv
    <3> QED
      BY <3>2, <3>3 DEF ClockInv
  <2>4. \/ UNCHANGED <<lastRequestAt, firstAt, posts>>
        \/ Client!SendPost
    BY <1>1, ClientSteps DEF clientVars, StartCall, Client!Call, CallGoesOn, Client!Request,
       Client!Answered, Client!Failed, Client!SleepBeforeRetry
  <2> QED
    BY <2>2, <2>3, <2>4
<1>2. CASE RecentHeadRead
  <2>1. /\ earlierPosts' = posts /\ earlierFirst' = firstAt /\ posts' = 0
        /\ mode' = mode /\ now' = now /\ mode = "recent"
    BY <1>2 DEF RecentHeadRead, StageInv
  <2>2. posts > 0 => (posts - 1) * MinInterval <= now - firstAt
    <3>1. (posts - 1) * MinInterval \in Int
      BY FetchSessionAssumption DEF ClockInv
    <3>2. posts > 0 => (posts - 1) * MinInterval <= lastRequestAt - firstAt
      BY DEF RateInv
    <3> QED
      BY <3>1, <3>2, Later DEF ClockInv
  <2> QED
    BY <2>1, <2>2 DEF RateInv, ClockInv
<1> QED
  BY <1>1, <1>2

(* Whatever fails and however the session goes on, its POSTs keep the average   *)
(* rate from its first one on, up to one POST for each of its clients.          *)
THEOREM RateHolds == SessionSpec => []RateBounded
<1>1. SessionInit => CallInv /\ StageInv /\ ClockInv /\ RateInv
  <2> SUFFICES ASSUME SessionInit PROVE StageInv /\ ClockInv /\ RateInv
    BY CallInvInit
  <2>1. now = 0 /\ lastRequestAt = None /\ firstAt = 0 /\ posts = 0
    BY DEF SessionInit, Client!Init
  <2>2. StageInv
    BY DEF SessionInit, StageInv
  <2> QED
    BY <2>1, <2>2 DEF SessionInit, ClockInv, RateInv
<1>2. CallInv /\ StageInv /\ ClockInv /\ RateInv /\ [SessionNext]_fetchVars
      => (CallInv /\ StageInv /\ ClockInv /\ RateInv)'
  BY NextKeepsCallInv, NextKeepsStageInv, NextKeepsClockInv, NextKeepsRateInv
<1>3. ClockInv /\ RateInv => RateBounded
  <2> SUFFICES ASSUME ClockInv, RateInv, posts > 0
               PROVE  (Posts - Clients) * MinInterval <= lastRequestAt - First
    BY DEF RateBounded
  <2> DEFINE a == (posts - 1) * MinInterval
             b == (earlierPosts - 1) * MinInterval
             c == (Posts - Clients) * MinInterval
  <2>1. MinInterval \in Nat /\ posts \in Nat /\ earlierPosts \in Nat
    BY FetchSessionAssumption DEF ClockInv, RateInv
  <2>2. a \in Int /\ b \in Int /\ c \in Int /\ a >= 0
    BY <2>1 DEF Posts, Clients
  <2>3. a <= lastRequestAt - firstAt
    BY DEF RateInv
  <2>4. CASE earlierPosts = 0
    <3>1. c <= a
      BY <2>1, <2>4 DEF Posts, Clients
    <3> HIDE DEF a, c
    <3>2. c <= lastRequestAt - First
      BY <2>2, <2>3, <2>4, <3>1 DEF First, ClockInv
    <3> QED
      BY <3>2 DEF c
  <2>5. CASE earlierPosts > 0
    <3>1. Clients = 2
      BY <2>5 DEF RateInv, Clients
    <3>2. c = a + b
      BY <2>1, <3>1 DEF Posts
    <3>3. b <= firstAt - earlierFirst
      BY <2>5 DEF RateInv
    <3> HIDE DEF a, b, c
    <3>4. c <= lastRequestAt - First
      BY <2>2, <2>3, <2>5, <3>2, <3>3 DEF First, ClockInv, RateInv
    <3> QED
      BY <3>4 DEF c
  <2> QED
    BY <2>1, <2>4, <2>5
<1> QED
  BY <1>1, <1>2, <1>3, PTL DEF SessionSpec

-------------------------------------------------------------------------------
(* How far a session is, and what it has got. *)

Collecting == mode \in {"interval", "recent", "smoke"}

ProgressInv ==
  /\ mode \in {"interval", "recent", "smoke", "notebook01", "notebook02"}
  /\ stage \in CallStages \cup {"done", "failed"}
  /\ stage = "chainId" => mode # "notebook02"
  /\ stage = "sampleLogs" => mode = "notebook02"
  /\ stage \in {"resolve", "logs", "timestamps"} => Collecting
  /\ lookups \in 0..MaxLookups
  /\ stage = "resolve" => lookups < MaxLookups
  /\ stage \in CallStages \ {"resolve", "logs", "timestamps"} => lookups = 0
  /\ stage \in CallStages \ {"logs", "timestamps"} => requests = 0 /\ logBlocks = {}
  /\ stage \in CallStages \ {"timestamps"} => timed = {}
  /\ logBlocks \subseteq fromBlock..toBlock /\ timed \subseteq logBlocks
  /\ stage = "timestamps" => status = "done" /\ (inFlight => Untimed # {})
  /\ stage = "done" /\ Collecting => status = "done" /\ logBlocks \subseteq timed

LEMMA ProgressInvInit == SessionInit => ProgressInv
<1> SUFFICES ASSUME SessionInit PROVE ProgressInv
  OBVIOUS
<1>1. mode \in {"interval", "recent", "smoke", "notebook01", "notebook02"}
  BY FetchSessionAssumption DEF SessionInit
<1>2. stage \in {"recentChainId", "chainId", "head"}
      /\ (stage = "chainId" => mode # "notebook02")
  BY <1>1 DEF SessionInit
<1> QED
  BY <1>1, <1>2, FetchSessionAssumption DEF SessionInit, Init, ProgressInv, CallStages

(* An answer of the collector is of blocks of the range. *)
LEMMA AskedInside ==
  ASSUME IInv, pending # <<>>
  PROVE  Head(pending).from..Head(pending).to \subseteq fromBlock..toBlock
<1>1. /\ Head(pending) \in Ranges /\ Head(pending).to <= toBlock
      /\ Head(pending).from >= fromBlock
  BY HeadOfPending, LogCollectorAssumption
<1>2. fromBlock \in Nat /\ toBlock \in Nat
  BY CollectionFacts, LogCollectorAssumption
<1> QED
  BY <1>1, <1>2 DEF Ranges

(* The block whose timestamp is asked for next. *)
LEMMA LeastUntimed ==
  ASSUME ProgressInv, IInv, Untimed # {}
  PROVE  Min(Untimed) \in Untimed
<1>1. Untimed \subseteq Nat
  BY CollectionFacts, LogCollectorAssumption DEF ProgressInv, Untimed
<1>2. PICK n \in Untimed : \A m \in Untimed : ~(<<m, n>> \in OpToRel(<, Nat))
  BY <1>1, NatLessThanWellFounded, WFMin
<1>3. \A m \in Untimed : m \in Nat /\ n \in Nat
  BY <1>1
<1>4. \A m \in Untimed : ~(m < n)
  BY <1>2, <1>3 DEF OpToRel
<1>5. \A m \in Untimed : n <= m
  BY <1>3, <1>4
<1> HIDE DEF Untimed
<1> QED
  BY <1>5 DEF Min

(* The steps of the resolution, and the notebooks' and the script's. *)
LEMMA CallsKeepProgress ==
  ASSUME ProgressInv, StageInv,
         \/ ChainIdRead \/ RecentHeadRead \/ RecentHeadRefused \/ HeadRead \/ SampleLogsRead
         \/ LookedUp \/ LookupForbidden \/ CallRaises
  PROVE  ProgressInv'
<1> USE DEF sessionVars, collectorVars, GoesOn, Fails, Collecting, CallStages
<1>1. UNCHANGED <<fromBlock, toBlock, requests, status, mode, logBlocks, timed>>
  BY DEF ChainIdRead, RecentHeadRead, RecentHeadRefused, HeadRead, SampleLogsRead, LookedUp,
    LookupForbidden, CallRaises
<1>2. CASE ChainIdRead
  <2>1. lookups' = lookups /\ stage' \in {"recentHead", "head", "resolve", "failed"}
    BY <1>2 DEF ChainIdRead
  <2>2. stage' = "resolve" => Collecting
    BY <1>2 DEF ChainIdRead, ProgressInv
  <2>3. stage \in {"recentChainId", "chainId"}
    BY <1>2 DEF ChainIdRead
  <2> QED
    BY <1>1, <2>1, <2>2, <2>3, FetchSessionAssumption DEF ProgressInv
<1>3. CASE RecentHeadRead
  <2>1. lookups' = lookups /\ stage = "recentHead" /\ stage' = "chainId" /\ mode = "recent"
    BY <1>3 DEF RecentHeadRead, StageInv
  <2> QED
    BY <1>1, <2>1 DEF ProgressInv
<1>4. CASE RecentHeadRefused
  BY <1>1, <1>4 DEF RecentHeadRefused, ProgressInv
<1>5. CASE HeadRead
  <2>1. lookups' = lookups /\ stage = "head" /\ mode \in {"smoke", "notebook01", "notebook02"}
    BY <1>5 DEF HeadRead, StageInv
  <2>2. \/ stage' = "failed"
        \/ mode = "smoke" /\ stage' = "resolve"
        \/ mode = "notebook01" /\ stage' = "done"
        \/ mode = "notebook02" /\ stage' = "sampleLogs"
    BY <1>5, <2>1 DEF HeadRead
  <2> QED
    BY <1>1, <2>1, <2>2, FetchSessionAssumption DEF ProgressInv
<1>6. CASE SampleLogsRead
  <2>1. lookups' = lookups /\ stage = "sampleLogs" /\ stage' \in {"done", "failed"}
    BY <1>6 DEF SampleLogsRead
  <2> QED
    BY <1>1, <2>1 DEF ProgressInv
<1>7. CASE LookedUp \/ LookupForbidden
  <2>1. /\ lookups' = lookups + 1 /\ stage = "resolve" /\ stage' \in {"resolve", "logs", "failed"}
        /\ stage' = "resolve" => lookups' < MaxLookups
    BY <1>7 DEF LookedUp, LookupForbidden
  <2>2. lookups' \in 0..MaxLookups
    BY <2>1, FetchSessionAssumption DEF ProgressInv
  <2> QED
    BY <1>1, <2>1, <2>2 DEF ProgressInv
<1>8. CASE CallRaises
  BY <1>1, <1>8 DEF CallRaises, ProgressInv
<1> QED
  BY <1>2, <1>3, <1>4, <1>5, <1>6, <1>7, <1>8

(* The steps of the collection, and of the timestamps. *)
LEMMA CollectionKeepsProgress ==
  ASSUME ProgressInv, IInv,
         \/ CollectorMoves \/ LogsAnswered \/ LogsFailed \/ LogsRefused \/ LogsCollected
         \/ TimestampRead \/ Close
  PROVE  ProgressInv'
<1> USE DEF GoesOn, Fails, Collecting, CallStages
<1>1. UNCHANGED <<fromBlock, toBlock, mode, lookups>> /\ mode \in {"interval", "recent", "smoke"}
  BY DEF CollectorMoves, LogsAnswered, LogsFailed, LogsRefused, LogsCollected, TimestampRead, Close,
    sessionVars, collectorVars, CheckArguments, StartChunk,
    RequestAnswered, Split, GiveUp, RequestRaises,
    Return, args, ProgressInv
<1>2. CASE CollectorMoves \/ LogsFailed \/ LogsRefused
  <2>1. /\ UNCHANGED <<logBlocks, timed>> /\ stage = "logs"
        /\ stage' \in {"logs", "failed"}
    BY <1>2 DEF CollectorMoves, LogsFailed, LogsRefused, sessionVars
  <2> QED
    BY <1>1, <2>1 DEF ProgressInv
<1>3. CASE LogsAnswered
  <2>1. PICK bs \in SUBSET (Head(pending).from..Head(pending).to) : logBlocks' = logBlocks \cup bs
    BY <1>3 DEF LogsAnswered
  <2>2. pending # <<>>
    BY <1>3 DEF LogsAnswered, RequestAnswered, Asking
  <2>3. logBlocks' \subseteq fromBlock..toBlock
    BY <2>1, <2>2, AskedInside DEF ProgressInv
  <2>4. timed' = timed /\ stage = "logs" /\ stage' = "logs"
    BY <1>3 DEF LogsAnswered
  <2> QED
    BY <1>1, <2>1, <2>3, <2>4 DEF ProgressInv
<1>4. CASE LogsCollected
  <2>1. /\ UNCHANGED <<logBlocks, timed>> /\ stage' \in {"timestamps", "failed"}
        /\ status' = "done" /\ ~inFlight'
    BY <1>4 DEF LogsCollected, sessionVars, Return
  <2> QED
    BY <1>1, <2>1 DEF ProgressInv
<1>5. CASE TimestampRead
  <2>1. UNCHANGED <<status, requests, logBlocks>> /\ stage = "timestamps" /\ Untimed # {}
    BY <1>5 DEF TimestampRead, collectorVars, Returned, ProgressInv
  <2>2. \/ timed' = timed \cup {Min(Untimed)} /\ stage' = "timestamps"
        \/ timed' = timed /\ stage' = "failed"
    BY <1>5 DEF TimestampRead
  <2>3. Min(Untimed) \in Untimed /\ inFlight' = FALSE
    BY <1>5, <2>1, LeastUntimed DEF TimestampRead, Returned
  <2>4. timed' \subseteq logBlocks'
    BY <2>1, <2>2, <2>3 DEF ProgressInv, Untimed
  <2> QED
    BY <1>1, <2>1, <2>2, <2>3, <2>4 DEF ProgressInv
<1>6. CASE Close
  <2>1. /\ UNCHANGED <<status, requests, logBlocks, timed>>
        /\ stage = "timestamps" /\ stage' = "done" /\ Untimed = {}
    BY <1>6 DEF Close, collectorVars, sessionVars
  <2> QED
    BY <1>1, <2>1 DEF ProgressInv, Untimed
<1> QED
  BY <1>2, <1>3, <1>4, <1>5, <1>6

LEMMA NextKeepsProgress ==
  ASSUME ProgressInv, StageInv, IInv, [SessionNext]_fetchVars
  PROVE  ProgressInv'
<1>1. CASE UNCHANGED fetchVars \/ Ended
  <2>1. UNCHANGED <<collectorVars, sessionVars, stage, inFlight>>
    BY <1>1 DEF Ended, fetchVars
  <2> QED
    BY <2>1 DEF sessionVars, collectorVars, ProgressInv, Collecting, Untimed
<1>2. CASE StartCall \/ CallGoesOn
  <2>1. UNCHANGED <<collectorVars, sessionVars, stage>>
    BY <1>2 DEF StartCall, CallGoesOn
  <2>2. stage = "timestamps" /\ inFlight' => Untimed # {}
    BY <1>2 DEF StartCall, CallGoesOn, Wanted, ProgressInv
  <2> QED
    BY <2>1, <2>2 DEF collectorVars, sessionVars, ProgressInv, Collecting, Untimed
<1> QED
  BY <1>1, <1>2, CallsKeepProgress, CollectionKeepsProgress DEF SessionNext, Session

(* What a session that is done has, by the collector's invariant. *)
THEOREM DoneCompletes == SessionSpec => []DoneIsComplete
<1>1. SessionInit => ProgressInv /\ StageInv /\ IInv
  BY ProgressInvInit, CollectorInvInit DEF SessionInit, StageInv
<1>2. ProgressInv /\ StageInv /\ IInv /\ [SessionNext]_fetchVars
        => (ProgressInv /\ StageInv /\ IInv)'
  BY NextKeepsProgress, NextKeepsStageInv, NextKeepsCollectorInv
<1>3. ProgressInv /\ IInv => DoneIsComplete
  <2> SUFFICES ASSUME ProgressInv, IInv, stage = "done",
                      mode \notin {"notebook01", "notebook02"}
               PROVE  /\ collected = BlocksOf([from |-> fromBlock, to |-> toBlock])
                      /\ logBlocks \subseteq timed
    BY DEF DoneIsComplete
  <2>1. status = "done" /\ logBlocks \subseteq timed
    BY DEF ProgressInv, Collecting
  <2>2. /\ Len(collected) = toBlock - fromBlock + 1
        /\ \A i \in 1..Len(collected) : collected[i] = fromBlock + i - 1
    BY <2>1 DEF IInv, CollectedInOrder
  <2>3. collected \in Seq(Int)
    BY CollectionFacts, LogCollectorAssumption
  <2>4. collected = [i \in 1..(toBlock - fromBlock + 1) |-> fromBlock + i - 1]
    BY <2>2, <2>3
  <2> QED
    BY <2>1, <2>4 DEF BlocksOf, Size
<1> QED
  BY <1>1, <1>2, <1>3, PTL DEF SessionSpec

-------------------------------------------------------------------------------
(* What a session costs. *)

\* The calls that are over, of the client there is now.
Over == IF inFlight THEN calls - 1 ELSE calls

\* The chain id, and for the script the head, come before the resolution.
Lead == IF mode = "smoke" THEN 2 ELSE 1

\* The calls the client may make; the closed one of a recent_finalized run made two.
Limit == IF Collecting THEN Lead + MaxLookups + (2 * BlockCount - chunks) + BlockCount ELSE 2

CountInv ==
  /\ fromBlock <= toBlock /\ maxBlocks = MaxBlocksPerLogRequest
  /\ calls \in Nat /\ calls <= Limit
  /\ stage \in {"recentChainId", "chainId"} => Over = 0
  /\ stage \in {"recentHead", "sampleLogs"} => Over = 1
  /\ stage = "head" => Over = IF mode = "notebook02" THEN 0 ELSE 1
  /\ stage = "resolve" => Over = Lead + lookups
  /\ stage = "logs" => Over = Lead + lookups + requests
  /\ stage = "timestamps" => Over = Lead + lookups + requests + Cardinality(timed)

(* The parts of the limit. *)
LEMMA LimitFacts ==
  ASSUME ProgressInv, IInv, fromBlock <= toBlock, maxBlocks = MaxBlocksPerLogRequest
  PROVE  /\ BlockCount \in Nat \ {0} /\ chunks \in Nat /\ requests \in Nat
         /\ requests <= 2 * BlockCount - chunks
         /\ Lead \in {1, 2} /\ lookups \in 0..MaxLookups /\ MaxLookups \in Nat \ {0}
         /\ IsFiniteSet(timed) /\ Cardinality(timed) \in Nat /\ Cardinality(timed) <= BlockCount
         /\ Untimed # {} => Cardinality(timed) < BlockCount
         /\ Limit \in Nat /\ Limit >= 2
<1>1. fromBlock \in Nat /\ toBlock \in Nat /\ chunks \in Nat /\ requests \in Nat
  BY CollectionFacts, LogCollectorAssumption
<1>2. BlockCount \in Nat \ {0}
  BY <1>1 DEF BlockCount
<1>3. requests <= 2 * BlockCount - chunks
  <2>1. ValidArguments
    BY LogCollectorAssumption DEF ValidArguments
  <2> QED
    BY <2>1, CollectionBudget, LogCollectorAssumption
    DEF RequestBudget, BlockCount
<1>4. IsFiniteSet(fromBlock..toBlock) /\ Cardinality(fromBlock..toBlock) = BlockCount
  BY <1>1, FS_Interval DEF BlockCount
<1>5. /\ IsFiniteSet(timed) /\ Cardinality(timed) <= BlockCount
      /\ Cardinality(timed) = BlockCount => timed = fromBlock..toBlock
  <2>1. timed \in SUBSET (fromBlock..toBlock)
    BY DEF ProgressInv
  <2> QED
    BY <1>4, <2>1, FS_Subset
<1>6. Cardinality(timed) \in Nat
  BY <1>5, FS_CardinalityType
<1>7. Untimed # {} => timed # fromBlock..toBlock
  BY DEF Untimed, ProgressInv
<1>8. Lead \in {1, 2} /\ lookups \in 0..MaxLookups /\ MaxLookups \in Nat \ {0}
  BY FetchSessionAssumption DEF Lead, ProgressInv
<1>9. Limit \in Nat /\ Limit >= 2
  <2>1. 2 * BlockCount - chunks \in Nat
    BY <1>1, <1>2, <1>3
  <2> QED
    BY <1>2, <1>8, <2>1 DEF Limit
<1> QED
  BY <1>1, <1>2, <1>3, <1>5, <1>6, <1>7, <1>8, <1>9

(* A call is made only if the limit has room for it. *)
LEMMA NextCallFits ==
  ASSUME ProgressInv, StageInv, IInv, CountInv, ~inFlight, Wanted
  PROVE  calls + 1 <= Limit
<1> USE DEF CountInv
<1>1. calls = Over
  BY DEF Over
<1>2. /\ BlockCount \in Nat \ {0} /\ chunks \in Nat /\ requests \in Nat
      /\ requests <= 2 * BlockCount - chunks
      /\ Lead \in {1, 2} /\ lookups \in 0..MaxLookups /\ MaxLookups \in Nat \ {0}
      /\ Cardinality(timed) \in Nat
      /\ Untimed # {} => Cardinality(timed) < BlockCount
      /\ Limit \in Nat /\ Limit >= 2
  BY LimitFacts
<1>3. stage \in CallStages
  BY DEF Wanted, CallStages
<1>4. CASE stage \in {"recentChainId", "recentHead", "chainId", "head", "sampleLogs"}
  BY <1>1, <1>2, <1>4
<1>5. CASE stage = "resolve"
  <2>1. calls = Lead + lookups /\ lookups < MaxLookups /\ Collecting
    BY <1>1, <1>5 DEF ProgressInv
  <2> QED
    BY <1>2, <2>1 DEF Limit
<1>6. CASE stage = "logs"
  <2>1. calls = Lead + lookups + requests /\ Collecting
    BY <1>1, <1>6 DEF ProgressInv
  <2>2. Asking
    BY <1>6 DEF Wanted
  <2>3. requests + 1 <= 2 * BlockCount - chunks
    BY <2>2, AskingIsPaidFor, LogCollectorAssumption DEF BlockCount
  <2> QED
    BY <1>2, <2>1, <2>3 DEF Limit
<1>7. CASE stage = "timestamps"
  <2>1. calls = Lead + lookups + requests + Cardinality(timed) /\ Collecting /\ Untimed # {}
    BY <1>1, <1>7 DEF ProgressInv, Wanted
  <2> QED
    BY <1>2, <2>1 DEF Limit
<1> QED
  BY <1>3, <1>4, <1>5, <1>6, <1>7 DEF CallStages

LEMMA CountInvInit == SessionInit => CountInv
<1> SUFFICES ASSUME SessionInit PROVE CountInv
  OBVIOUS
<1>1. /\ fromBlock <= toBlock /\ maxBlocks = MaxBlocksPerLogRequest /\ calls = 0 /\ ~inFlight
      /\ stage = IF mode = "recent" THEN "recentChainId"
                 ELSE IF mode = "notebook02" THEN "head" ELSE "chainId"
  BY DEF SessionInit, Client!Init
<1>2. Over = 0
  BY <1>1 DEF Over
<1>3. Limit \in Nat /\ 0 <= Limit
  BY <1>1, LimitFacts, ProgressInvInit, CollectorInvInit
<1> QED
  BY <1>1, <1>2, <1>3 DEF CountInv

(* Making a call, and going on with it. *)
LEMMA ClientKeepsCount ==
  ASSUME ProgressInv, StageInv, IInv, CountInv, StartCall \/ CallGoesOn
  PROVE  CountInv'
<1>1. UNCHANGED <<collectorVars, sessionVars, stage>>
  BY DEF StartCall, CallGoesOn
<1>2. Over' = Over /\ calls' \in Nat /\ calls' <= Limit
  <2>1. CASE StartCall
    <3>1. calls' = calls + 1 /\ inFlight' /\ ~inFlight
      BY <2>1 DEF StartCall, Client!Call
    <3>2. calls + 1 <= Limit
      BY <2>1, NextCallFits DEF StartCall
    <3> QED
      BY <3>1, <3>2 DEF CountInv, Over
  <2>2. CASE CallGoesOn
    BY <2>2 DEF CallGoesOn, Client!Request, Client!SendPost, Client!Answered, Client!Failed,
      Client!SleepBeforeRetry, CountInv, Over
  <2> QED
    BY <2>1, <2>2
<1>3. UNCHANGED <<Limit, Lead>>
  BY <1>1 DEF collectorVars, sessionVars, Limit, Lead, BlockCount, Collecting
<1> QED
  BY <1>1, <1>2, <1>3 DEF collectorVars, sessionVars, CountInv

(* Outside the collection: the call is over, and counted by the next stage. *)
LEMMA CallsKeepCount ==
  ASSUME ProgressInv, StageInv, IInv, CountInv,
         \/ ChainIdRead \/ RecentHeadRead \/ RecentHeadRefused \/ HeadRead \/ SampleLogsRead
         \/ LookedUp \/ LookupForbidden \/ CallRaises
  PROVE  CountInv'
<1> USE DEF GoesOn, Fails
<1>1. /\ UNCHANGED <<collectorVars, mode, timed>> /\ ~inFlight'
  BY DEF ChainIdRead, RecentHeadRead, RecentHeadRefused, HeadRead, SampleLogsRead, LookedUp,
    LookupForbidden, CallRaises, sessionVars, collectorVars, Returned, Raises
<1>2. UNCHANGED <<fromBlock, toBlock, maxBlocks, requests, Limit, Lead>>
  BY <1>1 DEF collectorVars, Limit, Lead, BlockCount, Collecting
<1>3. CASE RecentHeadRead
  <2>1. calls' = 0 /\ stage' = "chainId"
    BY <1>3 DEF RecentHeadRead
  <2>2. Limit \in Nat /\ 0 <= Limit
    BY LimitFacts DEF CountInv
  <2>3. Over' = 0
    BY <1>1, <2>1 DEF Over
  <2> QED
    BY <1>2, <2>1, <2>2, <2>3 DEF CountInv
<1>4. CASE ~RecentHeadRead
  <2>1. calls' = calls /\ inFlight
    BY <1>4 DEF ChainIdRead, RecentHeadRefused, HeadRead, SampleLogsRead, LookedUp,
      LookupForbidden, CallRaises, clientVars, Returned, Raises
  <2>2. Over' = Over + 1 /\ calls \in Nat
    BY <1>1, <2>1 DEF Over, CountInv
  <2>3. CASE ChainIdRead
    <3>1. lookups' = lookups /\ stage \in {"recentChainId", "chainId"}
      BY <2>3 DEF ChainIdRead, sessionVars
    <3>2. \/ stage' = "failed" \/ stage' = "recentHead"
          \/ stage' = "head" /\ mode \in {"smoke", "notebook01"}
          \/ stage' = "resolve" /\ mode # "smoke"
      BY <2>3 DEF ChainIdRead
    <3>3. lookups = 0
      BY <3>1 DEF ProgressInv, CallStages
    <3> QED
      BY <1>1, <1>2, <2>1, <2>2, <3>1, <3>2, <3>3 DEF CountInv, Lead
  <2>4. CASE HeadRead
    <3>1. lookups' = lookups /\ stage = "head" /\ lookups = 0
      BY <2>4 DEF HeadRead, sessionVars, ProgressInv, CallStages
    <3>2. \/ stage' \in {"failed", "done"}
          \/ stage' = "resolve" /\ mode = "smoke"
          \/ stage' = "sampleLogs" /\ mode = "notebook02"
      BY <2>4, <3>1 DEF HeadRead, StageInv
    <3> QED
      BY <1>1, <1>2, <2>1, <2>2, <3>1, <3>2 DEF CountInv, Lead
  <2>5. CASE LookedUp \/ LookupForbidden
    <3>1. /\ lookups' = lookups + 1 /\ stage = "resolve" /\ stage' \in {"resolve", "logs", "failed"}
          /\ requests = 0
      BY <2>5 DEF LookedUp, LookupForbidden, ProgressInv, CallStages
    <3>2. lookups \in Nat /\ Lead \in Nat
      BY LimitFacts DEF CountInv
    <3>3. Over' = Lead' + lookups' /\ Over' = Lead' + lookups' + requests'
      BY <1>2, <2>2, <3>1, <3>2 DEF CountInv
    <3> QED
      BY <1>2, <2>1, <3>1, <3>3 DEF CountInv
  <2>6. CASE RecentHeadRefused \/ SampleLogsRead \/ CallRaises
    <3>1. stage' \in {"failed", "done"}
      BY <2>6 DEF RecentHeadRefused, SampleLogsRead, CallRaises
    <3> QED
      BY <1>2, <2>1, <3>1 DEF CountInv
  <2> QED
    BY <1>4, <2>3, <2>4, <2>5, <2>6
<1> QED
  BY <1>3, <1>4

(* The collection, whose requests are calls, and the timestamps. *)
LEMMA CollectionKeepsCount ==
  ASSUME ProgressInv, StageInv, IInv, CountInv,
         \/ CollectorMoves \/ LogsAnswered \/ LogsFailed \/ LogsRefused \/ LogsCollected
         \/ TimestampRead \/ Close
  PROVE  CountInv'
<1> USE DEF GoesOn, Fails
<1>1. /\ UNCHANGED <<fromBlock, toBlock, maxBlocks, mode, lookups, calls>> /\ ~inFlight'
      /\ stage \in {"logs", "timestamps"}
  <2>1. /\ UNCHANGED <<mode, lookups, calls>> /\ ~inFlight'
        /\ stage \in {"logs", "timestamps"}
    BY DEF CollectorMoves, LogsAnswered, LogsFailed, LogsRefused, LogsCollected, TimestampRead,
      Close, sessionVars, clientVars, Returned, Raises
  <2>2. UNCHANGED <<fromBlock, toBlock, maxBlocks>>
    BY DEF CollectorMoves, LogsAnswered, LogsFailed, LogsRefused, LogsCollected, TimestampRead,
      Close, collectorVars, CheckArguments, StartChunk,
      RequestAnswered, Split, GiveUp, RequestRaises,
      Return, args
  <2> QED
    BY <2>1, <2>2
<1>2. UNCHANGED <<Lead, BlockCount>> /\ Collecting /\ Collecting'
  BY <1>1 DEF Lead, BlockCount, Collecting, ProgressInv
<1>3. /\ lookups \in Nat /\ Lead \in Nat /\ requests \in Nat /\ Cardinality(timed) \in Nat
      /\ IsFiniteSet(timed)
  BY LimitFacts DEF CountInv
<1>4. /\ BlockCount \in Nat /\ chunks \in Nat /\ lookups \in 0..MaxLookups /\ MaxLookups \in Nat
      /\ Limit \in Nat
  BY LimitFacts DEF CountInv
<1>5. Over' = calls
  BY <1>1 DEF Over, CountInv
<1>6. CASE CollectorMoves
  <2>1. stage' = "logs" /\ requests' = requests /\ calls = Lead + lookups + requests
    <3>1. stage = "logs" /\ stage' = stage /\ ~inFlight
      BY <1>6 DEF CollectorMoves
    <3> QED
      BY <1>6, <3>1 DEF CollectorMoves, CheckArguments, StartChunk, CountInv, Over
  <2>2. calls <= Limit'
    <3>1. CASE CheckArguments
      <4>1. UNCHANGED chunks
        BY <3>1 DEF CheckArguments
      <4> QED
        BY <1>1, <1>2, <4>1 DEF Limit, CountInv
    <3>2. CASE StartChunk
      <4>2. requests <= 2 * BlockCount - chunks' /\ chunks' \in Nat
        BY <1>4, <3>2, ChunkIsPaidFor, LogCollectorAssumption DEF BlockCount
      <4>3. Limit' = Lead + MaxLookups + (2 * BlockCount - chunks') + BlockCount
        BY <1>2 DEF Limit
      <4> DEFINE room == 2 * BlockCount - chunks'
      <4>4. room \in Int /\ requests <= room /\ Limit' = Lead + MaxLookups + room + BlockCount
        BY <1>4, <4>2, <4>3
      <4> HIDE DEF room
      <4> QED
        BY <1>3, <1>4, <2>1, <4>4
    <3> QED
      BY <1>6, <3>1, <3>2 DEF CollectorMoves
  <2> QED
    BY <1>1, <1>2, <1>5, <2>1, <2>2 DEF CountInv
<1>7. CASE LogsAnswered \/ LogsFailed \/ LogsRefused
  <2>0. /\ stage = "logs" /\ inFlight /\ stage' \in {"logs", "failed"}
        /\ requests' = requests + 1 /\ chunks' = chunks
    BY <1>7 DEF LogsAnswered, LogsFailed, LogsRefused, RequestAnswered,
       Split, GiveUp, RequestRaises, Returned, Raises
  <2>1. calls = Lead + lookups + requests + 1
    BY <1>3, <2>0 DEF CountInv, Over
  <2>2. calls <= Limit' /\ calls = Lead' + lookups' + requests'
    BY <1>1, <1>2, <1>3, <2>0, <2>1 DEF Limit, CountInv
  <2> QED
    BY <1>1, <1>5, <2>0, <2>2 DEF CountInv
<1>8. CASE LogsCollected
  <2>1. /\ stage' \in {"timestamps", "failed"} /\ UNCHANGED <<requests, chunks>> /\ timed' = {}
        /\ calls = Lead + lookups + requests
    BY <1>8 DEF LogsCollected, Return, sessionVars, ProgressInv, CallStages, CountInv, Over
  <2>2. Cardinality(timed') = 0
    BY <2>1, FS_EmptySet
  <2>3. calls <= Limit' /\ calls = Lead' + lookups' + requests' + Cardinality(timed')
    BY <1>1, <1>2, <1>3, <2>1, <2>2 DEF Limit, CountInv
  <2> QED
    BY <1>1, <1>5, <2>1, <2>3 DEF CountInv
<1>9. CASE TimestampRead
  <2>1. /\ UNCHANGED <<requests, chunks>> /\ stage = "timestamps" /\ Untimed # {}
        /\ calls = Lead + lookups + requests + Cardinality(timed) + 1
    BY <1>3, <1>9 DEF TimestampRead, Returned, collectorVars, ProgressInv, CountInv, Over
  <2>2. \/ stage' = "failed"
        \/ timed' = timed \cup {Min(Untimed)} /\ stage' = "timestamps"
    BY <1>9 DEF TimestampRead
  <2>3. Min(Untimed) \notin timed
    BY <2>1, LeastUntimed DEF Untimed
  <2>4. Cardinality(timed \cup {Min(Untimed)}) = Cardinality(timed) + 1
    BY <1>3, <2>3, FS_AddElement
  <2>5. calls <= Limit'
    BY <1>1, <1>2, <2>1 DEF Limit, CountInv
  <2>6. ASSUME stage' = "timestamps"
        PROVE  calls = Lead' + lookups' + requests' + Cardinality(timed')
    <3>1. timed' = timed \cup {Min(Untimed)}
      BY <2>2, <2>6
    <3>2. Cardinality(timed') = Cardinality(timed) + 1 /\ Cardinality(timed) \in Int
      BY <1>3, <2>4, <3>1
    <3>3. Lead' = Lead /\ lookups' = lookups /\ requests' = requests
      BY <1>1, <1>2, <2>1
    <3>4. Lead \in Int /\ lookups \in Int /\ requests \in Int
      BY <1>3
    <3> QED
      BY <2>1, <3>2, <3>3, <3>4
  <2> QED
    BY <1>1, <1>5, <2>2, <2>5, <2>6 DEF CountInv
<1>10. CASE Close
  <2>1. stage' = "done" /\ chunks' = chunks
    BY <1>10 DEF Close, collectorVars
  <2>2. calls <= Limit'
    BY <1>1, <1>2, <2>1 DEF Limit, CountInv
  <2> QED
    BY <1>1, <2>1, <2>2 DEF CountInv
<1> QED
  BY <1>6, <1>7, <1>8, <1>9, <1>10

LEMMA NextKeepsCount ==
  ASSUME ProgressInv, StageInv, IInv, CountInv, [SessionNext]_fetchVars
  PROVE  CountInv'
<1>1. CASE UNCHANGED fetchVars \/ Ended
  <2>1. UNCHANGED <<calls, collectorVars, sessionVars, stage, inFlight>>
    BY <1>1 DEF Ended, fetchVars, clientVars
  <2> QED
    BY <2>1 DEF sessionVars, collectorVars, CountInv, Over, Limit, Lead, BlockCount, Collecting
<1> QED
  BY <1>1, ClientKeepsCount, CallsKeepCount, CollectionKeepsCount DEF SessionNext, Session

(* The POSTs that many calls may take. *)
Spent(c) == (MaxRetries + 1) * c

LEMMA SpentFacts ==
  ASSUME NEW c \in Int, NEW d \in Int
  PROVE  /\ Spent(c) \in Int
         /\ Spent(c + d) = Spent(c) + Spent(d)
         /\ Spent(c + 1) = Spent(c) + MaxRetries + 1
         /\ c <= d => Spent(c) <= Spent(d)
<1>1. MaxRetries \in Nat
  BY FetchSessionAssumption
<1> QED
  BY <1>1 DEF Spent

\* What is left of the current call's attempts is paid for.
CostInv ==
  /\ phase \in {"idle", "limit", "posted", "backoff", "returned", "raised"}
  /\ phase = "idle" => posts = 0
  /\ phase = "limit" => posts + (MaxRetries + 1 - attempt) <= Spent(calls)
  /\ phase \in {"posted", "backoff", "returned", "raised"} =>
       posts + (MaxRetries - attempt) <= Spent(calls)
  /\ earlierPosts <= Spent(2)

(* Whatever the phase, no call has used more than its attempts. *)
LEMMA CallsPayForPosts ==
  ASSUME CallInv, ClockInv, CountInv, CostInv
  PROVE  posts <= Spent(calls)
<1>1. /\ calls \in Int /\ calls >= 0 /\ posts \in Int /\ Spent(calls) \in Int /\ Spent(0) = 0
      /\ Spent(0) <= Spent(calls)
      /\ attempt \in Nat /\ attempt <= MaxRetries /\ MaxRetries \in Nat
  <2>1. calls \in Int /\ calls >= 0 /\ 0 \in Int
    BY DEF CountInv
  <2>2. Spent(0) = 0
    BY FetchSessionAssumption DEF Spent
  <2>3. Spent(calls) \in Int /\ Spent(0) <= Spent(calls)
    BY <2>1, SpentFacts
  <2> QED
    BY <2>1, <2>2, <2>3, FetchSessionAssumption DEF ClockInv, CallInv
<1> QED
  BY <1>1 DEF CostInv

LEMMA CostInvInit == SessionInit => CostInv
<1> SUFFICES ASSUME SessionInit PROVE CostInv
  OBVIOUS
<1>1. phase = "idle" /\ posts = 0 /\ earlierPosts = 0
  BY DEF SessionInit, Client!Init
<1>2. 0 <= Spent(2)
  BY FetchSessionAssumption DEF Spent
<1> QED
  BY <1>1, <1>2 DEF CostInv

LEMMA NextKeepsCost ==
  ASSUME CallInv, ClockInv, CountInv, CostInv, ProgressInv, [SessionNext]_fetchVars
  PROVE  CostInv'
<1> USE DEF Client!history
<1>1. /\ calls \in Int /\ posts \in Int /\ attempt \in Nat /\ attempt <= MaxRetries
      /\ MaxRetries \in Nat /\ Spent(calls) \in Int
      /\ Spent(calls + 1) = Spent(calls) + MaxRetries + 1
  <2>1. calls \in Int
    BY DEF CountInv
  <2>2. Spent(calls) \in Int /\ Spent(calls + 1) = Spent(calls) + MaxRetries + 1
    BY <2>1, SpentFacts
  <2> QED
    BY <2>1, <2>2, FetchSessionAssumption DEF ClockInv, CallInv
<1>2. CASE RecentHeadRead
  <2>1. phase' = "idle" /\ posts' = 0 /\ earlierPosts' = posts
    BY <1>2 DEF RecentHeadRead
  <2>2. calls = 2
    <3>1. stage = "recentHead" /\ inFlight
      BY <1>2 DEF RecentHeadRead, Returned
    <3> QED
      BY <1>1, <3>1 DEF CountInv, Over
  <2> QED
    BY <2>1, <2>2, CallsPayForPosts DEF CostInv
<1>3. CASE ~RecentHeadRead
  <2>1. earlierPosts' = earlierPosts
    BY <1>3 DEF SessionNext, Session, Ended, fetchVars, sessionVars, StartCall, CallGoesOn,
      ChainIdRead, RecentHeadRefused, HeadRead, SampleLogsRead, LookedUp,
      LookupForbidden, CallRaises, CollectorMoves, LogsAnswered, LogsFailed, LogsRefused,
      LogsCollected, TimestampRead, Close
  <2>2. CASE UNCHANGED clientVars
    BY <2>1, <2>2 DEF clientVars, CostInv, Spent
  <2>3. CASE StartCall
    <3>1. phase' = "limit" /\ attempt' = 0 /\ posts' = posts /\ calls' = calls + 1
      BY <2>3 DEF StartCall, Client!Call
    <3>2. Spent(calls') = Spent(calls) + MaxRetries + 1 /\ posts <= Spent(calls)
      BY <1>1, <3>1, CallsPayForPosts
    <3>3. posts' + (MaxRetries + 1 - attempt') <= Spent(calls')
      BY <1>1, <3>1, <3>2
    <3> QED
      BY <2>1, <3>1, <3>3 DEF CostInv, Spent
  <2>4. CASE CallGoesOn
    <3>0. calls' = calls /\ Spent(calls') = Spent(calls)
      BY <2>4 DEF CallGoesOn, Client!Request, Client!SendPost, Client!Answered, Client!Failed,
        Client!SleepBeforeRetry, Spent
    <3>1. CASE Client!SendPost
      <4>1. phase = "limit" /\ phase' = "posted" /\ posts' = posts + 1 /\ attempt' = attempt
        BY <3>1 DEF Client!SendPost
      <4>2. posts' + (MaxRetries - attempt') <= Spent(calls')
        BY <1>1, <3>0, <4>1 DEF CostInv
      <4> QED
        BY <2>1, <4>1, <4>2 DEF CostInv, Spent
    <3>2. CASE Client!Answered \/ Client!Failed
      <4>1. /\ phase = "posted" /\ phase' \in {"returned", "raised", "backoff"}
            /\ UNCHANGED <<posts, attempt>>
        BY <3>2 DEF Client!Answered, Client!Failed
      <4>2. posts' + (MaxRetries - attempt') <= Spent(calls')
        BY <3>0, <4>1 DEF CostInv
      <4> QED
        BY <2>1, <4>1, <4>2 DEF CostInv, Spent
    <3>3. CASE Client!SleepBeforeRetry
      <4>1. /\ phase = "backoff" /\ phase' = "limit" /\ posts' = posts
            /\ attempt' = attempt + 1
        BY <3>3 DEF Client!SleepBeforeRetry
      <4>2. posts' + (MaxRetries + 1 - attempt') <= Spent(calls')
        BY <1>1, <3>0, <4>1 DEF CostInv
      <4> QED
        BY <2>1, <4>1, <4>2 DEF CostInv, Spent
    <3> QED
      BY <2>4, <3>1, <3>2, <3>3 DEF CallGoesOn, Client!Request
  <2> QED
    BY <1>3, <2>2, <2>3, <2>4, ClientSteps
<1> QED
  BY <1>2, <1>3

-------------------------------------------------------------------------------
(* The types, and the invariant as a whole. *)

\* What a session can fail with.
Exceptions ==
  Client!ErrorClasses \cup
  {"none", "ValueError", "BlockRangeError", "LogCollectionError", "RetryableIntervalNotFinalized"}

RestInv ==
  /\ mode \in Modes /\ inFlight \in BOOLEAN
  /\ toBlock <= MaxBlock
  /\ erroredAt \in Int /\ calls \in 0..MaxCalls
  /\ failure \in Exceptions

LEMMA RestInvInit == SessionInit => RestInv
<1> SUFFICES ASSUME SessionInit PROVE RestInv
  OBVIOUS
<1>1. calls = 0 /\ erroredAt = 0
  BY DEF SessionInit, Client!Init
<1>2. mode \in Modes /\ inFlight \in BOOLEAN /\ failure \in Exceptions
  BY DEF SessionInit, Exceptions
<1>3. toBlock <= MaxBlock
  BY LogCollectorAssumption DEF SessionInit, Init, Blocks
<1>4. MaxCalls \in Nat
  BY FetchSessionAssumption, LogCollectorAssumption DEF MaxCalls
<1> QED
  BY <1>1, <1>2, <1>3, <1>4 DEF RestInv

(* What leaves the session is an exception of the client's or one of the caller's. *)
LEMMA FailsWithAnException ==
  ASSUME CallInv, RestInv, [SessionNext]_fetchVars
  PROVE  failure' \in Exceptions
<1> USE DEF RestInv, Fails, GoesOn, Exceptions
<1>1. CASE UNCHANGED failure
  BY <1>1
<1>2. CASE CallRaises
  BY <1>2, RaisedIsAClass DEF CallRaises, Raises
<1>3. CASE ~CallRaises /\ failure' # failure
  BY <1>3 DEF SessionNext, Session, Ended, fetchVars, StartCall, CallGoesOn, ChainIdRead,
    RecentHeadRead, RecentHeadRefused, HeadRead, SampleLogsRead, LookedUp, LookupForbidden,
    CollectorMoves, LogsAnswered, LogsFailed, LogsRefused, LogsCollected, TimestampRead, Close,
    BadBlock, Client!ErrorClasses, Client!Transient
<1> QED
  BY <1>1, <1>2, <1>3

LEMMA NextKeepsRest ==
  ASSUME CallInv, ClockInv, RestInv, [SessionNext]_fetchVars
  PROVE  RestInv'
<1> USE DEF Client!history
<1>1. mode' \in Modes /\ inFlight' \in BOOLEAN
  BY DEF RestInv, SessionNext, Session, Ended, fetchVars, sessionVars, StartCall, CallGoesOn,
    ChainIdRead, RecentHeadRead, RecentHeadRefused, HeadRead, SampleLogsRead, LookedUp,
    LookupForbidden, CallRaises, CollectorMoves, LogsAnswered, LogsFailed, LogsRefused,
    LogsCollected, TimestampRead, Close, Returned, Raises
<1>2. toBlock' = toBlock
  BY CollectorSteps DEF Next, Collect, Finished, CheckArguments, StartChunk, RequestAnswered,
    Split, GiveUp, RequestRaises, Return, vars, args
<1>3. erroredAt' \in Int /\ calls' \in 0..MaxCalls
  <2>1. now' \in Int /\ MaxCalls \in Nat
    BY NextKeepsClockInv, FetchSessionAssumption, LogCollectorAssumption DEF ClockInv, MaxCalls
  <2>2. CASE UNCHANGED clientVars
    BY <2>2 DEF clientVars, RestInv
  <2>3. CASE StartCall
    <3>1. calls' = calls + 1 /\ calls < MaxCalls /\ erroredAt' = erroredAt
      BY <2>3 DEF StartCall, Client!Call
    <3> QED
      BY <2>1, <3>1 DEF RestInv
  <2>4. CASE RecentHeadRead
    BY <2>1, <2>4 DEF RecentHeadRead
  <2>5. CASE CallGoesOn
    <3>1. calls' = calls /\ erroredAt' \in {erroredAt, now'}
      BY <2>5 DEF CallGoesOn, Client!Request, Client!SendPost, Client!Answered, Client!Failed,
        Client!SleepBeforeRetry
    <3> QED
      BY <2>1, <3>1 DEF RestInv
  <2> QED
    BY <2>2, <2>3, <2>4, <2>5, ClientSteps
<1> QED
  BY <1>1, <1>2, <1>3, FailsWithAnException DEF RestInv

SessionInv ==
  /\ CallInv /\ GiveUpInv /\ StageInv /\ ClockInv /\ RateInv /\ IInv
  /\ ProgressInv /\ CountInv /\ CostInv /\ RestInv

(* The parts that hold of a session before its first call.                       *)
LEMMA SessionInvInit == SessionInit => SessionInv
<1> SUFFICES ASSUME SessionInit PROVE GiveUpInv /\ StageInv /\ ClockInv /\ RateInv
  BY CallInvInit, CollectorInvInit, ProgressInvInit, CountInvInit, CostInvInit, RestInvInit
     DEF SessionInv
<1>1. now = 0 /\ lastRequestAt = None /\ firstAt = 0 /\ posts = 0
  BY DEF SessionInit, Client!Init
<1>2. StageInv /\ GiveUpInv
  BY DEF SessionInit, StageInv, GiveUpInv
<1> QED
  BY <1>1, <1>2 DEF SessionInit, ClockInv, RateInv

(* The invariant of a session, of which the parts above are what each needs.     *)
THEOREM SessionInvariant == SessionSpec => []SessionInv
<1>1. SessionInv /\ [SessionNext]_fetchVars => SessionInv'
  BY NextKeepsCallInv, NextKeepsGiveUpInv, NextKeepsStageInv, NextKeepsClockInv, NextKeepsRateInv,
     NextKeepsCollectorInv, NextKeepsProgress, NextKeepsCount, NextKeepsCost, NextKeepsRest
     DEF SessionInv
<1> QED
  BY SessionInvInit, <1>1, PTL DEF SessionSpec

(* Every state of a session is well typed: its client, its collection, and the   *)
(* exception that left it.                                                       *)
THEOREM SessionTypes == SessionSpec => []SessionTypeOK
<1>1. SessionInv => SessionTypeOK
  <2> SUFFICES ASSUME SessionInv PROVE SessionTypeOK
    OBVIOUS
  <2>1. Client!TypeOK
    BY FetchSessionAssumption
    DEF SessionInv, CallInv, ClockInv, CostInv, RestInv, Client!TypeOK, ErrorRecords
  <2>2. TypeOK /\ fromBlock \in Nat
    BY DEF SessionInv, IInv, TypeOK
  <2>3. logBlocks \subseteq Nat /\ timed \subseteq logBlocks
    BY <2>2, CollectionFacts DEF SessionInv, ProgressInv
  <2> QED
    BY <2>1, <2>2, <2>3
    DEF SessionInv, ProgressInv, RateInv, RestInv, Exceptions, SessionTypeOK
<1> QED
  BY <1>1, SessionInvariant, PTL

(* The bound on the calls of a client keeps no session from a call: a call that  *)
(* is to be made is always one of fewer than MaxCalls.                           *)
THEOREM EveryCallFits == SessionSpec => [](~inFlight /\ Wanted => calls < MaxCalls)
<1>1. SessionInv /\ ~inFlight /\ Wanted => calls < MaxCalls
  <2> SUFFICES ASSUME SessionInv, ~inFlight, Wanted PROVE calls < MaxCalls
    OBVIOUS
  <2>1. calls + 1 <= Limit /\ calls \in Nat
    BY NextCallFits DEF SessionInv, CountInv
  <2>2. /\ BlockCount \in Nat \ {0} /\ chunks \in Nat /\ Lead \in {1, 2}
        /\ MaxLookups \in Nat \ {0}
    BY LimitFacts DEF SessionInv, CountInv
  <2>3. BlockCount <= MaxBlock + 1 /\ MaxBlock \in Nat
    BY CollectionFacts, LogCollectorAssumption DEF SessionInv, RestInv, BlockCount
  <2>4. Limit <= MaxCalls /\ Limit \in Int /\ MaxCalls \in Int
    BY <2>2, <2>3 DEF Limit, MaxCalls
  <2> QED
    BY <2>1, <2>4
<1> QED
  BY <1>1, SessionInvariant, PTL

(* Three retry layers multiply, the client's attempts, the collector's halving  *)
(* and the calls of a session, and still: whatever fails, for every range and   *)
(* every retry limit, a session sends no more POSTs than its budget.            *)
THEOREM PostsBounded == SessionSpec => []PostBudget
<1>1. SessionInv => PostBudget
  <2> SUFFICES ASSUME SessionInv PROVE PostBudget
    OBVIOUS
  <2>0. /\ CallInv /\ ClockInv /\ RateInv /\ IInv /\ ProgressInv /\ CountInv /\ CostInv
    BY DEF SessionInv
  <2>1. /\ BlockCount \in Nat \ {0} /\ chunks \in Nat /\ MaxLookups \in Nat /\ Limit \in Nat
        /\ calls \in Nat /\ calls <= Limit
    BY <2>0, LimitFacts DEF CountInv
  <2>2. posts <= Spent(calls) /\ earlierPosts <= Spent(2)
    BY <2>0, CallsPayForPosts DEF CostInv
  <2>3. /\ Spent(calls) <= Spent(Limit) /\ Spent(Limit) \in Int /\ Spent(calls) \in Int
        /\ Spent(2) \in Int /\ Spent(Limit + 2) = Spent(Limit) + Spent(2)
    BY <2>1, SpentFacts
  <2>4. posts \in Nat /\ earlierPosts \in Nat /\ (mode # "recent" => earlierPosts = 0)
    BY <2>0 DEF ClockInv, RateInv
  <2>5. CallBudget = IF mode = "recent" THEN Limit + 2 ELSE Limit
    BY <2>0, <2>1 DEF CallBudget, Limit, Lead, Collecting, ProgressInv
  <2>6. Posts <= Spent(CallBudget)
    <3>1. CASE mode = "recent"
      BY <2>2, <2>3, <2>4, <2>5, <3>1 DEF Posts
    <3>2. CASE mode # "recent"
      BY <2>2, <2>3, <2>4, <2>5, <3>2 DEF Posts
    <3> QED
      BY <3>1, <3>2
  <2> QED
    BY <2>6 DEF PostBudget, Spent
<1> QED
  BY <1>1, SessionInvariant, PTL

===============================================================================
