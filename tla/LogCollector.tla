----------------------------- MODULE LogCollector -----------------------------
(***************************************************************************)
(* collect_raw_logs: the inclusive range [fromBlock, toBlock] is cut into  *)
(* chunks of at most maxBlocks, each chunk is asked for with eth_getLogs,  *)
(* and a chunk that keeps failing is halved and both halves are collected, *)
(* the left one first (_collect_chunk calls itself).                       *)
(*                                                                         *)
(* The recursion is the sequence pending: its head is the range asked for  *)
(* next, its tail the right halves the callers still have to collect. A    *)
(* block stands for the logs of that block in the order the node returned  *)
(* them. One request is one call of eth_get_logs, after the client's own   *)
(* retries (module RpcClient): it answers, it raises RetryableRpcError, or *)
(* it raises something collect_raw_logs does not catch.                    *)
(***************************************************************************)
EXTENDS Integers, Sequences

CONSTANTS MaxBlock,                  \* largest block number
          MaxBlocksPerLogRequest     \* MAX_BLOCKS_PER_LOG_REQUEST (10)

ASSUME LogCollectorAssumption ==
  MaxBlock \in Nat /\ MaxBlocksPerLogRequest \in Nat \ {0}

Blocks == 0..MaxBlock
Ranges == [from : Int, to : Int]

VARIABLES
  fromBlock, toBlock, maxBlocks,     \* the arguments
  chunkStart,                        \* start of the chunk not yet generated
  pending,                           \* ranges of the current chunk still to collect
  collected,                         \* blocks collected so far, in order
  status, error,
  requests, chunks                   \* calls of eth_get_logs, chunks started

args == <<fromBlock, toBlock, maxBlocks>>
vars == <<args, chunkStart, pending, collected, status, error, requests, chunks>>

Size(r) == r.to - r.from + 1
BlocksOf(r) == [i \in 1..Size(r) |-> r.from + i - 1]
\* Mutant: the right half comes first.
HalvesSwapped(r) ==
  LET mid == (r.from + r.to) \div 2
  IN  <<[from |-> mid + 1, to |-> r.to], [from |-> r.from, to |-> mid]>>

Halves(r) ==
  LET mid == (r.from + r.to) \div 2
  IN  <<[from |-> r.from, to |-> mid], [from |-> mid + 1, to |-> r.to]>>

\* Mutant: a chunk of one block too many.
ChunkEndOffByOne ==
  IF chunkStart + maxBlocks < toBlock THEN chunkStart + maxBlocks ELSE toBlock

\* iter_block_chunks: the next chunk ends after maxBlocks blocks or with the range.
ChunkEnd ==
  IF chunkStart + maxBlocks - 1 < toBlock THEN chunkStart + maxBlocks - 1 ELSE toBlock

ValidArguments == fromBlock <= toBlock /\ maxBlocks \in 1..MaxBlocksPerLogRequest

-------------------------------------------------------------------------------
\* Mutant: generation starts a block too early.
InitOffByOne ==
  /\ fromBlock \in Blocks
  /\ toBlock \in Blocks
  /\ maxBlocks \in 0..(MaxBlocksPerLogRequest + 1)
  /\ chunkStart = fromBlock - 1
  /\ pending = <<>>
  /\ collected = <<>>
  /\ status = "new"
  /\ error = "none"
  /\ requests = 0
  /\ chunks = 0

Init ==
  /\ fromBlock \in Blocks
  /\ toBlock \in Blocks
  /\ maxBlocks \in 0..(MaxBlocksPerLogRequest + 1)
  /\ chunkStart = fromBlock
  /\ pending = <<>>
  /\ collected = <<>>
  /\ status = "new"
  /\ error = "none"
  /\ requests = 0
  /\ chunks = 0

Raise(e) == status' = "failed" /\ error' = e

\* iter_block_chunks checks its arguments before the first request is sent.
CheckArguments ==
  /\ status = "new"
  /\ IF ValidArguments
       THEN status' = "running" /\ error' = error
       ELSE Raise("BlockRangeError")
  /\ UNCHANGED <<args, chunkStart, pending, collected, requests, chunks>>

StartChunk ==
  /\ status = "running"
  /\ pending = <<>>
  /\ chunkStart <= toBlock
  /\ pending' = <<[from |-> chunkStart, to |-> ChunkEnd]>>
  /\ chunkStart' = ChunkEnd + 1
  /\ chunks' = chunks + 1
  /\ UNCHANGED <<args, collected, status, error, requests>>

Asking == status = "running" /\ pending # <<>>

RequestAnswered ==
  /\ Asking
  /\ collected' = collected \o BlocksOf(Head(pending))
  /\ pending' = Tail(pending)
  /\ requests' = requests + 1
  /\ UNCHANGED <<args, chunkStart, status, error, chunks>>

\* Mutant: the failed range is asked for again as it is.
AskAgain ==
  /\ Asking
  /\ Size(Head(pending)) > 1
  /\ requests' = requests + 1
  /\ UNCHANGED <<args, chunkStart, pending, collected, status, error, chunks>>

\* RetryableRpcError on more than one block: halve the range.
Split ==
  /\ Asking
  /\ Size(Head(pending)) > 1
  /\ pending' = Halves(Head(pending)) \o Tail(pending)
  /\ requests' = requests + 1
  /\ UNCHANGED <<args, chunkStart, collected, status, error, chunks>>

\* RetryableRpcError on a single block.
GiveUp ==
  /\ Asking
  /\ Size(Head(pending)) = 1
  /\ Raise("LogCollectionError")
  /\ requests' = requests + 1
  /\ UNCHANGED <<args, chunkStart, pending, collected, chunks>>

\* NonRetryableRpcError, or any other exception: not caught.
RequestRaises ==
  /\ Asking
  /\ Raise("NonRetryableRpcError")
  /\ requests' = requests + 1
  /\ UNCHANGED <<args, chunkStart, pending, collected, chunks>>

\* Mutant: the loop over the chunks does not end.
LoopOn ==
  /\ status = "running"
  /\ pending = <<>>
  /\ chunkStart > toBlock
  /\ UNCHANGED vars

Return ==
  /\ status = "running"
  /\ pending = <<>>
  /\ chunkStart > toBlock
  /\ status' = "done"
  /\ UNCHANGED <<args, chunkStart, pending, collected, error, requests, chunks>>

Collect == CheckArguments \/ StartChunk \/ RequestAnswered \/ Split \/ GiveUp
           \/ RequestRaises \/ Return

Finished == status \in {"done", "failed"} /\ UNCHANGED vars

Next == Collect \/ Finished

Spec     == Init /\ [][Next]_vars
FairSpec == Spec /\ WF_vars(Collect)

-------------------------------------------------------------------------------
TypeOK ==
  /\ fromBlock \in Nat /\ toBlock \in Nat /\ maxBlocks \in Nat
  /\ chunkStart \in Nat
  /\ pending \in Seq(Ranges)
  /\ collected \in Seq(Int)
  /\ status \in {"new", "running", "done", "failed"}
  /\ error \in {"none", "BlockRangeError", "LogCollectionError", "NonRetryableRpcError"}
  /\ requests \in Nat /\ chunks \in Nat

\* However requests fail and chunks are halved, what has been collected is the
\* beginning of the range, block by block, each block once and in order; a call
\* that returns has collected all of it.
CollectedInOrder ==
  /\ \A i \in 1..Len(collected) : collected[i] = fromBlock + i - 1
  /\ status = "done" => Len(collected) = toBlock - fromBlock + 1

\* Every range asked for, now or later, is one eth_get_logs accepts (1 to 10
\* blocks) and lies inside the requested range.
RequestsAcceptable ==
  \A i \in 1..Len(pending) :
    /\ Size(pending[i]) \in 1..MaxBlocksPerLogRequest
    /\ fromBlock <= pending[i].from /\ pending[i].to <= toBlock

\* Splitting is bounded: a chunk of n blocks costs at most 2n - 1 requests, so a
\* call sends fewer than twice its blocks, however many of them fail.
RequestBudget ==
  ValidArguments => requests <= 2 * (toBlock - fromBlock + 1) - chunks

(* The inductive invariant behind them. *)

\* The pending ranges are adjacent and reach from the first block not collected
\* to the last block of the chunks generated so far.
Frontier == fromBlock + Len(collected)

PendingTiles ==
  IF pending = <<>>
    THEN chunkStart = Frontier
    ELSE /\ pending[1].from = Frontier
         /\ pending[Len(pending)].to = chunkStart - 1
         /\ \A i \in 1..(Len(pending) - 1) : pending[i].to + 1 = pending[i + 1].from
         /\ \A i \in 1..Len(pending) : pending[i].to + (Len(pending) - i) <= chunkStart - 1

\* An answer pays for two requests with each of its blocks, a pending range for
\* one; starting a chunk adds a pending range that is paid for.
Charged ==
  requests <= 2 * Len(collected) + Len(pending) - chunks + (IF status = "failed" THEN 1 ELSE 0)

IInv ==
  /\ TypeOK
  /\ CollectedInOrder
  /\ RequestsAcceptable
  /\ PendingTiles
  /\ Charged
  /\ status \in {"running", "done"} => ValidArguments
  /\ status = "new" => pending = <<>>
  /\ status = "failed" => ~ValidArguments \/ pending # <<>>
  /\ ValidArguments => chunkStart <= toBlock + 1
  /\ ~ValidArguments => pending = <<>> /\ requests = 0 /\ chunks = 0

\* Every call returns or raises.
Terminates == <>(status \in {"done", "failed"})

===============================================================================
