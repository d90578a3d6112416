------------------------------ MODULE BlockRange ------------------------------
(***************************************************************************)
(* resolve_interval_block_range: the UTC interval [start, end) becomes the *)
(* inclusive block range [fromBlock, toBlock] by asking the node for block *)
(* timestamps, one lookup at a time.                                       *)
(*                                                                         *)
(*   "finality"  fetch the finalized head and compare it with end          *)
(*   "expand"    1, 2, 4, ... blocks back from the head, until a block not *)
(*               later than start (or block 0) is found                    *)
(*   "oldest"    after an HTTP 403: binary search for the oldest block the *)
(*               provider still serves                                     *)
(*   "first"     binary search for the first block at or after goal, which *)
(*               is start in the first search and end in the second        *)
(*                                                                         *)
(* The timestamps of the chain never change below the finalized head, so   *)
(* the per-run cache is the set of the blocks whose timestamp is known.    *)
(* The provider answers lookups of the blocks from "oldest" on and refuses *)
(* older ones with HTTP 403; its window slides forward while the search is *)
(* running. Any lookup may also fail for good after the client's retries.  *)
(***************************************************************************)
EXTENDS Integers, FiniteSets

CONSTANTS MaxBlock,     \* number of the newest block of the chain
          MaxTime       \* largest timestamp

ASSUME BlockRangeAssumption == MaxBlock \in Nat /\ MaxTime \in Nat

Blocks == 0..MaxBlock
Times  == 0..MaxTime

\* Ethereum block timestamps are strictly increasing.
Chains == {c \in [Blocks -> Times] : \A b1, b2 \in Blocks : b1 < b2 => c[b1] < c[b2]}

VARIABLES
  chain, finalized,          \* the chain and its finalized head (external)
  oldest,                    \* oldest block the provider serves by number
  start, end,                \* the requested interval
  pc, error,                 \* control state; the exception raised, if any
  cache,                     \* timestamp_cache: blocks with a known timestamp
  step, newestOk,            \* locals of find_search_low_block
  left, right, found,        \* locals of the binary searches
  goal,                      \* "start" or "end": which search of the two
  fromBlock, endExclusive    \* the results

world  == <<chain, finalized, start, end>>
search == <<left, right, found>>
answer == <<fromBlock, endExclusive>>
vars   == <<world, oldest, pc, error, cache, step, newestOk, search, goal, answer>>

Phases == {"finality", "expand", "oldest", "first", "done", "failed"}
Errors == {"none", "BadInterval", "NotFinalized", "WindowTooShort", "EmptyInterval",
           "RetryableRpcError", "NonRetryableRpcError", "BadPayload"}

Goal(g) == IF g = "start" THEN start ELSE end

-------------------------------------------------------------------------------
(* The block each phase looks up next. *)
Candidate == IF step > finalized THEN 0 ELSE finalized - step
Middle    == (left + right) \div 2
Wanted    == IF pc = "expand" THEN Candidate ELSE Middle

Searching == pc \in {"oldest", "first"} /\ left <= right
Asking    == pc = "expand" \/ Searching

\* The two answers of _block_timestamp that are not failures.
Answered(b)  == b \in cache \/ b >= oldest
Forbidden(b) == b \notin cache /\ b < oldest

Raise(e) == /\ pc' = "failed"
            /\ error' = e

-------------------------------------------------------------------------------
Init ==
  /\ chain \in Chains
  /\ finalized \in Blocks
  /\ oldest \in 0..finalized
  /\ start \in Times
  /\ end \in Times
  /\ pc = "finality"
  /\ error = "none"
  /\ cache = {}
  /\ step = 1 /\ newestOk = 0
  /\ left = 0 /\ right = 0 /\ found = 0
  /\ goal = "start"
  /\ fromBlock = 0 /\ endExclusive = 0

RejectBounds ==
  /\ pc = "finality"
  /\ start >= end
  /\ Raise("BadInterval")
  /\ UNCHANGED <<world, oldest, cache, step, newestOk, search, goal, answer>>

RejectUnfinalized ==
  /\ pc = "finality"
  /\ start < end
  /\ chain[finalized] < end
  /\ Raise("NotFinalized")
  /\ UNCHANGED <<world, oldest, cache, step, newestOk, search, goal, answer>>

\* Mutant: finality is compared with the start of the interval.
AcceptTooEarly ==
  /\ pc = "finality"
  /\ start < end
  /\ chain[finalized] >= start
  /\ cache' = {finalized}
  /\ newestOk' = finalized
  /\ step' = 1
  /\ pc' = "expand"
  /\ UNCHANGED <<world, oldest, error, search, goal, answer>>

\* The head's own timestamp enters the cache. find_search_low_block returns at
\* once when the head is not later than start: start < end <= chain[finalized]
\* rules that out here.
AcceptFinalized ==
  /\ pc = "finality"
  /\ start < end
  /\ chain[finalized] >= end
  /\ cache' = {finalized}
  /\ newestOk' = finalized
  /\ step' = 1
  /\ pc' = "expand"
  /\ UNCHANGED <<world, oldest, error, search, goal, answer>>

\* Mutant: the search range is taken as half-open.
StartSearchPastHead(g, low) ==
  /\ goal' = g
  /\ left' = low
  /\ right' = finalized + 1
  /\ found' = finalized + 1
  /\ pc' = "first"

\* Start find_first_block_at_or_after for goal g from block low.
StartSearch(g, low) ==
  /\ goal' = g
  /\ left' = low
  /\ right' = finalized
  /\ found' = finalized + 1
  /\ pc' = "first"

ExpandStops ==
  /\ pc = "expand"
  /\ Answered(Candidate)
  /\ chain[Candidate] <= start \/ Candidate = 0
  /\ cache' = cache \cup {Candidate}
  /\ newestOk' = Candidate
  /\ StartSearch("start", Candidate)
  /\ UNCHANGED <<world, oldest, error, step, answer>>

\* Mutant: the step is not doubled.
ExpandStandsStill ==
  /\ pc = "expand"
  /\ Answered(Candidate)
  /\ chain[Candidate] > start /\ Candidate # 0
  /\ cache' = cache \cup {Candidate}
  /\ newestOk' = Candidate
  /\ UNCHANGED <<world, oldest, pc, error, step, search, goal, answer>>

ExpandGoesOn ==
  /\ pc = "expand"
  /\ Answered(Candidate)
  /\ chain[Candidate] > start /\ Candidate # 0
  /\ cache' = cache \cup {Candidate}
  /\ newestOk' = Candidate
  /\ step' = 2 * step
  /\ UNCHANGED <<world, oldest, pc, error, search, goal, answer>>

\* HTTP 403: go on to _find_oldest_accessible_block.
ExpandForbidden ==
  /\ pc = "expand"
  /\ Forbidden(Candidate)
  /\ left' = Candidate + 1
  /\ right' = newestOk
  /\ found' = newestOk
  /\ pc' = "oldest"
  /\ UNCHANGED <<world, oldest, error, cache, step, newestOk, goal, answer>>

OldestServed ==
  /\ pc = "oldest" /\ left <= right
  /\ Answered(Middle)
  /\ cache' = cache \cup {Middle}
  /\ found' = Middle
  /\ right' = Middle - 1
  /\ UNCHANGED <<world, oldest, pc, error, step, newestOk, left, goal, answer>>

OldestForbidden ==
  /\ pc = "oldest" /\ left <= right
  /\ Forbidden(Middle)
  /\ left' = Middle + 1
  /\ UNCHANGED <<world, oldest, pc, error, cache, step, newestOk, right, found, goal, answer>>

\* Mutant: an oldest block exactly at the start is called too recent.
OldestAtStartRefused ==
  /\ pc = "oldest" /\ left > right
  /\ chain[found] >= start
  /\ Raise("WindowTooShort")
  /\ UNCHANGED <<world, oldest, cache, step, newestOk, search, goal, answer>>

OldestTooRecent ==
  /\ pc = "oldest" /\ left > right
  /\ chain[found] > start
  /\ Raise("WindowTooShort")
  /\ UNCHANGED <<world, oldest, cache, step, newestOk, search, goal, answer>>

OldestReachesStart ==
  /\ pc = "oldest" /\ left > right
  /\ chain[found] <= start
  /\ StartSearch("start", found)
  /\ UNCHANGED <<world, oldest, error, cache, step, newestOk, answer>>

ProbeAtOrAfter ==
  /\ pc = "first" /\ left <= right
  /\ Answered(Middle)
  /\ chain[Middle] >= Goal(goal)
  /\ cache' = cache \cup {Middle}
  /\ found' = Middle
  /\ right' = Middle - 1
  /\ UNCHANGED <<world, oldest, pc, error, step, newestOk, left, goal, answer>>

ProbeBefore ==
  /\ pc = "first" /\ left <= right
  /\ Answered(Middle)
  /\ chain[Middle] < Goal(goal)
  /\ cache' = cache \cup {Middle}
  /\ left' = Middle + 1
  /\ UNCHANGED <<world, oldest, pc, error, step, newestOk, right, found, goal, answer>>

FromFound ==
  /\ pc = "first" /\ goal = "start" /\ left > right
  /\ fromBlock' = found
  /\ StartSearch("end", found)
  /\ UNCHANGED <<world, oldest, error, cache, step, newestOk, endExclusive>>

EndFound ==
  /\ pc = "first" /\ goal = "end" /\ left > right
  /\ endExclusive' = found
  /\ IF fromBlock > found - 1
       THEN Raise("EmptyInterval")
       ELSE pc' = "done" /\ error' = error
  /\ UNCHANGED <<world, oldest, cache, step, newestOk, search, goal, fromBlock>>

\* A lookup that has to go to the node fails after the client's own retries, or
\* with a payload that is no block. A 403 outside "expand" and "oldest" is not
\* caught and ends the run the same way.
LookupFails ==
  /\ \/ pc = "finality" /\ start < end
     \/ Asking /\ Wanted \notin cache
  /\ \E e \in {"RetryableRpcError", "NonRetryableRpcError", "BadPayload"} : Raise(e)
  /\ UNCHANGED <<world, oldest, cache, step, newestOk, search, goal, answer>>

\* External: the provider's history window moves forward with the chain.
WindowSlides ==
  /\ pc \notin {"done", "failed"}
  /\ oldest' \in (oldest + 1)..finalized
  /\ UNCHANGED <<world, pc, error, cache, step, newestOk, search, goal, answer>>

Resolve ==
  \/ RejectBounds \/ RejectUnfinalized \/ AcceptFinalized
  \/ ExpandStops \/ ExpandGoesOn \/ ExpandForbidden
  \/ OldestServed \/ OldestForbidden \/ OldestTooRecent \/ OldestReachesStart
  \/ ProbeAtOrAfter \/ ProbeBefore \/ FromFound \/ EndFound
  \/ LookupFails

Finished == pc \in {"done", "failed"} /\ UNCHANGED vars

Next == Resolve \/ WindowSlides \/ Finished

Spec     == Init /\ [][Next]_vars
FairSpec == Spec /\ WF_vars(Resolve)

-------------------------------------------------------------------------------
ToBlock == endExclusive - 1

\* Blocks f..t of chain c are exactly the blocks with a timestamp in [s, e).
Holds(c, f, t, s, e) == \A b \in Blocks : b \in f..t <=> s <= c[b] /\ c[b] < e

TypeOK ==
  /\ chain \in Chains
  /\ finalized \in Blocks
  /\ oldest \in 0..finalized
  /\ start \in Times /\ end \in Times
  /\ pc \in Phases
  /\ error \in Errors
  /\ cache \subseteq 0..finalized
  /\ step \in Nat \ {0}
  /\ newestOk \in 0..finalized
  /\ left \in 0..(finalized + 1)
  /\ right \in -1..finalized
  /\ found \in 0..(finalized + 1)
  /\ goal \in {"start", "end"}
  /\ fromBlock \in 0..(finalized + 1)
  /\ endExclusive \in 0..(finalized + 1)

\* A resolved range holds exactly the blocks of the interval: of the whole chain,
\* the blocks above the finalized head included, so that nothing is collected
\* before its hour is complete and nothing is left to a neighbouring hour.
RangeIsInterval == pc = "done" => Holds(chain, fromBlock, ToBlock, start, end)

\* No refusal is spurious: an interval is called unfinalized, empty or out of the
\* provider's reach only when it is, whatever the window did during the search.
RefusalsAreJustified ==
  /\ error = "NotFinalized" => chain[finalized] < end
  /\ error = "EmptyInterval" => Holds(chain, 1, 0, start, end)
  /\ error = "WindowTooShort" => chain[oldest] > start

(* The inductive invariant behind the two properties above. *)

\* Every block below b is earlier than t, and every block from b on is not.
SplitAt(b, t) == \A n \in Blocks : IF n < b THEN chain[n] < t ELSE chain[n] >= t

ExpandInv == pc = "expand" => newestOk \in cache /\ newestOk >= finalized - step

OldestInv ==
  pc = "oldest" => /\ found \in cache
                   /\ left <= found /\ right \in {found - 1, found}
                   /\ left <= oldest        \* all blocks below left are refused

FirstInv ==
  pc = "first" => /\ left <= right + 1 /\ found = right + 1
                  /\ \A n \in Blocks : /\ n < left => chain[n] < Goal(goal)
                                       /\ n > right => chain[n] >= Goal(goal)
                  /\ goal = "end" => SplitAt(fromBlock, start)

DoneInv ==
  pc = "done" => SplitAt(fromBlock, start) /\ SplitAt(endExclusive, end)

IInv ==
  /\ TypeOK
  /\ pc \in {"expand", "oldest", "first"} => start < end /\ end <= chain[finalized]
  /\ pc # "failed" => error = "none"
  /\ ExpandInv /\ OldestInv /\ FirstInv /\ DoneInv
  /\ RefusalsAreJustified

\* The search always ends, with a range or with an exception: the exponential
\* step reaches block 0 or a refusal, and both binary searches shrink.
Terminates == <>(pc \in {"done", "failed"})

===============================================================================
