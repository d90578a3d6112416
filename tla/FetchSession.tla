----------------------------- MODULE FetchSession -----------------------------
(***************************************************************************)
(* The RPC session of one attempt: run_interval until its client is closed *)
(* (pipeline.py:57-94), or run_recent_finalized_interval, which asks for   *)
(* the finalized head with a client of its own first. Or the session of    *)
(* run_rpc_smoke_validation.py, which asks for the head with the same      *)
(* client, and those of notebooks 01 and 02, which do no more than that    *)
(* and, in 02, one eth_getLogs. It extends LogCollector (whose Init, Next  *)
(* and Spec keep their names) with calls of an RpcClient, one after the    *)
(* other: the requests of the collection are such calls.                   *)
(*                                                                         *)
(* The stage is the call the session makes next, inFlight says that it is  *)
(* running. How many blocks the resolution looks up, and which range it    *)
(* finds, is BlockRange's matter: here it is any number up to MaxLookups   *)
(* and the range LogCollector starts with.                                 *)
(***************************************************************************)
EXTENDS LogCollector, FiniteSets, FiniteSetsExt

CONSTANTS MinInterval, MaxRetries, Backoff, Jitter, MaxLatency, MaxPause, None,
          MaxLookups,     \* bound: block lookups of one resolution
          Modes           \* which entry points are used

ASSUME FetchSessionAssumption ==
  /\ MinInterval \in Nat \ {0} /\ MaxRetries \in Nat /\ Backoff \in Nat /\ Jitter \in Nat
  /\ MaxLatency \in Nat /\ MaxPause \in Nat /\ None \notin Int
  /\ MaxLookups \in Nat \ {0}
  /\ Modes \subseteq {"interval", "recent", "smoke", "notebook01", "notebook02"}

\* One chain id, the head, the lookups, the log requests, the block timestamps.
MaxCalls == 2 + MaxLookups + 3 * (MaxBlock + 1)

VARIABLES
  now, lastRequestAt, phase, attempt, errors, erroredAt,      \* RpcClient
  firstAt, posts, calls,
  mode, stage, inFlight,
  lookups,                  \* blocks looked up by the resolution
  logBlocks, timed,         \* blocks of the logs collected; block_timestamps
  failure,                  \* class of the exception that left the session
  earlierPosts, earlierFirst  \* history: POSTs of the closed client, its first

Client == INSTANCE RpcClient

clientVars    == <<now, lastRequestAt, phase, attempt, errors, erroredAt, firstAt, posts, calls>>
collectorVars == <<fromBlock, toBlock, maxBlocks, chunkStart, pending, collected, status, error,
                   requests, chunks>>
sessionVars   == <<mode, lookups, logBlocks, timed, earlierPosts, earlierFirst>>
fetchVars     == <<clientVars, collectorVars, sessionVars, stage, inFlight, failure>>

CallStages ==
  {"recentChainId", "recentHead", "chainId", "head", "resolve", "logs", "sampleLogs", "timestamps"}

-------------------------------------------------------------------------------
SessionInit ==
  /\ Client!Init
  /\ Init /\ fromBlock <= toBlock /\ maxBlocks = MaxBlocksPerLogRequest
  /\ mode \in Modes
  /\ stage = CASE mode = "recent"     -> "recentChainId"
               [] mode = "notebook02" -> "head"
               [] OTHER               -> "chainId"
  /\ inFlight = FALSE
  /\ lookups = 0 /\ logBlocks = {} /\ timed = {}
  /\ failure = "none"
  /\ earlierPosts = 0 /\ earlierFirst = 0

Fails(e) == stage' = "failed" /\ failure' = e
GoesOn(s) == stage' = s /\ UNCHANGED failure

\* The class of the exception _request raised.
Raised == errors[Len(errors)].class

-------------------------------------------------------------------------------
(* Making a call. *)

Untimed == logBlocks \ timed

Wanted ==
  CASE stage = "logs"       -> Asking
    [] stage = "timestamps" -> Untimed # {}
    [] OTHER                -> stage \in CallStages

StartCall ==
  /\ ~inFlight
  /\ Wanted
  /\ Client!Call
  /\ inFlight' = TRUE
  /\ UNCHANGED <<collectorVars, sessionVars, stage, failure>>

CallGoesOn ==
  /\ inFlight
  /\ Client!Request
  /\ UNCHANGED <<collectorVars, sessionVars, stage, inFlight, failure>>

Returned == inFlight /\ phase = "returned" /\ inFlight' = FALSE
Raises   == inFlight /\ phase = "raised" /\ inFlight' = FALSE

-------------------------------------------------------------------------------
(* Using what it returned. *)

\* eth_chainId: digits that are not hex are a ValueError, another chain is not
\* worth a retry, and nothing to the script and the notebook.
ChainIdRead ==
  /\ stage \in {"recentChainId", "chainId"}
  /\ Returned
  /\ \/ GoesOn(CASE stage = "recentChainId" -> "recentHead"
               [] mode \in {"smoke", "notebook01"} -> "head"
               [] OTHER -> "resolve")
     \/ Fails("ValueError")
     \/ mode \in {"interval", "recent"} /\ Fails("NonRetryableRpcError")
  /\ UNCHANGED <<clientVars, collectorVars, sessionVars>>

\* What a block payload without a usable number or timestamp raises.
BadBlock == {"NonRetryableRpcError", "BlockRangeError", "ValueError"}

\* The first client is closed, and run_interval makes a new one.
RecentHeadRead ==
  /\ stage = "recentHead"
  /\ Returned
  /\ GoesOn("chainId")
  /\ earlierPosts' = posts /\ earlierFirst' = firstAt
  /\ lastRequestAt' = None /\ phase' = "idle" /\ attempt' = 0
  /\ errors' = <<>> /\ erroredAt' = 0
  /\ firstAt' = 0 /\ posts' = 0 /\ calls' = 0
  /\ UNCHANGED <<now, collectorVars, mode, lookups, logBlocks, timed>>

RecentHeadRefused ==
  /\ stage = "recentHead"
  /\ Returned
  /\ \E e \in BadBlock : Fails(e)
  /\ UNCHANGED <<clientVars, collectorVars, sessionVars>>

\* The head as the script and the notebooks ask for it.
HeadRead ==
  /\ stage = "head"
  /\ Returned
  /\ \/ GoesOn(CASE mode = "smoke"      -> "resolve"
               [] mode = "notebook01" -> "done"
               [] mode = "notebook02" -> "sampleLogs")
     \/ \E e \in BadBlock : Fails(e)
  /\ UNCHANGED <<clientVars, collectorVars, sessionVars>>

\* Notebook 02 asks for its blocks at once; nothing halves them.
SampleLogsRead ==
  /\ stage = "sampleLogs"
  /\ Returned
  /\ GoesOn("done") \/ Fails("NonRetryableRpcError")
  /\ UNCHANGED <<clientVars, collectorVars, sessionVars>>

\* Mutant: the limiter starts anew with every lookup.
LookedUpAlone ==
  /\ stage = "resolve"
  /\ Returned
  /\ lookups' = lookups + 1
  /\ IF lookups' < MaxLookups THEN GoesOn("resolve") ELSE GoesOn("logs")
  /\ lastRequestAt' = now - MinInterval
  /\ UNCHANGED <<now, phase, attempt, errors, erroredAt, firstAt, posts, calls>>
  /\ UNCHANGED <<collectorVars, mode, logBlocks, timed, earlierPosts, earlierFirst>>

\* A lookup of the resolution answered: it looks further, finds the range, or
\* finds that there is none.
LookedUp ==
  /\ stage = "resolve"
  /\ Returned
  /\ lookups' = lookups + 1
  /\ \/ lookups' < MaxLookups /\ GoesOn("resolve")
     \/ GoesOn("logs")
     \/ \E e \in BadBlock \cup {"RetryableIntervalNotFinalized"} : Fails(e)
  /\ UNCHANGED <<clientVars, collectorVars, mode, logBlocks, timed, earlierPosts, earlierFirst>>

\* An HTTP 403 tells find_search_low_block where the provider's window begins; what
\* is left to look up may be in its cache already.
LookupForbidden ==
  /\ stage = "resolve"
  /\ Raises
  /\ Raised = "NonRetryableRpcError"
  /\ lookups > 0
  /\ lookups' = lookups + 1
  /\ \/ lookups' < MaxLookups /\ GoesOn("resolve")
     \/ GoesOn("logs")
     \/ Fails("BlockRangeError")
  /\ UNCHANGED <<clientVars, collectorVars, mode, logBlocks, timed, earlierPosts, earlierFirst>>

\* Any other exception of a call outside the collector leaves the session.
CallRaises ==
  /\ stage \in CallStages \ {"logs"}
  /\ Raises
  /\ Fails(Raised)
  /\ UNCHANGED <<clientVars, collectorVars, sessionVars>>

-------------------------------------------------------------------------------
(* collect_raw_logs *)

CollectorMoves ==
  /\ stage = "logs"
  /\ ~inFlight
  /\ CheckArguments \/ StartChunk
  /\ UNCHANGED <<clientVars, sessionVars, stage, inFlight, failure>>

\* The answer of a range is a list of logs, from any of its blocks.
LogsAnswered ==
  /\ stage = "logs"
  /\ Returned
  /\ RequestAnswered
  /\ \E bs \in SUBSET (Head(pending).from..Head(pending).to) : logBlocks' = logBlocks \cup bs
  /\ UNCHANGED <<clientVars, mode, stage, failure, lookups, timed, earlierPosts, earlierFirst>>

\* Mutant: a range that fails is left out.
LogsSkipped ==
  /\ stage = "logs"
  /\ Raises
  /\ Raised # "NonRetryableRpcError"
  /\ pending' = Tail(pending)
  /\ requests' = requests + 1
  /\ UNCHANGED <<fromBlock, toBlock, maxBlocks, chunkStart, collected, status, error, chunks>>
  /\ UNCHANGED <<clientVars, sessionVars, stage, failure>>

\* Mutant: whatever was raised, a single block is given up on, other ranges halved.
LogsFailedOnAny ==
  /\ stage = "logs"
  /\ Raises
  /\ \/ Split /\ UNCHANGED <<stage, failure>>
     \/ GiveUp /\ Fails("LogCollectionError")
  /\ UNCHANGED <<clientVars, sessionVars>>

\* RetryableRpcError, whichever of its classes: halve the range, or give up.
LogsFailed ==
  /\ stage = "logs"
  /\ Raises
  /\ Raised # "NonRetryableRpcError"
  /\ \/ Split /\ UNCHANGED <<stage, failure>>
     \/ GiveUp /\ Fails("LogCollectionError")
  /\ UNCHANGED <<clientVars, sessionVars>>

\* The request was rejected, or answered with something that is no list.
LogsRefused ==
  /\ stage = "logs"
  /\ Returned \/ (Raises /\ Raised = "NonRetryableRpcError")
  /\ RequestRaises
  /\ Fails("NonRetryableRpcError")
  /\ UNCHANGED <<clientVars, sessionVars>>

\* _load_block_timestamps collects the block numbers first: one that is no hex
\* number is a ValueError before any block is asked for.
LogsCollected ==
  /\ stage = "logs"
  /\ ~inFlight
  /\ Return
  /\ \/ GoesOn("timestamps")
     \/ Fails("ValueError")
  /\ UNCHANGED <<clientVars, sessionVars, inFlight>>

-------------------------------------------------------------------------------
(* _load_block_timestamps: the blocks in ascending order, each once. *)

TimestampRead ==
  /\ stage = "timestamps"
  /\ Returned
  /\ \/ timed' = timed \cup {Min(Untimed)} /\ UNCHANGED <<stage, failure>>
     \/ \E e \in BadBlock : Fails(e) /\ UNCHANGED timed
  /\ UNCHANGED <<clientVars, collectorVars, mode, lookups, logBlocks, earlierPosts, earlierFirst>>

\* All timestamps known: the client is closed.
Close ==
  /\ stage = "timestamps"
  /\ ~inFlight
  /\ Untimed = {}
  /\ GoesOn("done")
  /\ UNCHANGED <<clientVars, collectorVars, sessionVars, inFlight>>

-------------------------------------------------------------------------------
Session ==
  \/ StartCall \/ CallGoesOn
  \/ ChainIdRead \/ RecentHeadRead \/ RecentHeadRefused \/ HeadRead \/ SampleLogsRead
  \/ LookedUp \/ LookupForbidden \/ CallRaises
  \/ CollectorMoves \/ LogsAnswered \/ LogsFailed \/ LogsRefused \/ LogsCollected
  \/ TimestampRead \/ Close

Ended == stage \in {"done", "failed"} /\ UNCHANGED fetchVars

SessionNext == Session \/ Ended

SessionSpec == SessionInit /\ [][SessionNext]_fetchVars

-------------------------------------------------------------------------------
SessionTypeOK ==
  /\ Client!TypeOK
  /\ TypeOK
  /\ mode \in Modes
  /\ stage \in CallStages \cup {"done", "failed"}
  /\ inFlight \in BOOLEAN
  /\ lookups \in 0..MaxLookups
  /\ logBlocks \subseteq Nat /\ timed \subseteq logBlocks
  /\ failure \in Client!ErrorClasses
       \cup {"none", "ValueError", "BlockRangeError", "LogCollectionError",
             "RetryableIntervalNotFinalized"}
  /\ earlierPosts \in Nat /\ earlierFirst \in Int

Posts == earlierPosts + posts
Clients == IF mode = "recent" THEN 2 ELSE 1
BlockCount == toBlock - fromBlock + 1

\* Three layers multiply: each call may be tried MaxRetries + 1 times, a range may
\* be halved down to single blocks, and every block with a log costs a call for
\* its timestamp. Whatever fails, a session sends no more POSTs than this.
CallBudget ==
  CASE mode \in {"notebook01", "notebook02"} -> 2
    [] mode = "recent"   -> 3 + MaxLookups + (2 * BlockCount - chunks) + BlockCount
    [] mode = "smoke"    -> 2 + MaxLookups + (2 * BlockCount - chunks) + BlockCount
    [] mode = "interval" -> 1 + MaxLookups + (2 * BlockCount - chunks) + BlockCount
PostBudget == Posts <= (MaxRetries + 1) * CallBudget

\* Over the whole session its POSTs keep the rate, up to one per client: the
\* limiter of a client does not know of the client before it, so that the two
\* clients of a recent_finalized run may send two POSTs at once.
First == IF earlierPosts > 0 THEN earlierFirst ELSE firstAt
RateBounded == posts > 0 => (Posts - Clients) * MinInterval <= lastRequestAt - First

\* Nothing is lost on the way: a session that collects and is done has the logs of every block
\* of the range, in order, and a timestamp for every block one of them is from.
DoneIsComplete ==
  stage = "done" /\ mode \notin {"notebook01", "notebook02"} =>
    /\ collected = BlocksOf([from |-> fromBlock, to |-> toBlock])
    /\ logBlocks \subseteq timed

\* LogCollectionError, which ends the DAG run for good, is raised only for a single
\* block, and only after the client has used up its retries on it or the provider
\* has called even that block too large.
GiveUpIsJustified ==
  failure = "LogCollectionError" =>
    /\ Head(pending).from = Head(pending).to
    /\ \/ Len(errors) = MaxRetries + 1
       \/ Raised \in Client!MustSplit

\* The collector inside the session, its requests made by the client, does what
\* LogCollector says of it alone: no range is left out, asked for twice after an
\* answer, or halved in another order because of what a call raised.
ImplementsLogCollector == Spec

===============================================================================
