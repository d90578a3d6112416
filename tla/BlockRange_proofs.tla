--------------------------- MODULE BlockRange_proofs ---------------------------
(***************************************************************************)
(* For every chain, every finalized head, every provider window and every  *)
(* interval: the range BlockRange resolves is exactly the interval, and    *)
(* its refusals are justified.                                             *)
(***************************************************************************)
EXTENDS BlockRange, TLAPS

(* A binary search's probe lies between its bounds. *)
LEMMA MiddleBetween ==
  ASSUME NEW l \in Int, NEW r \in Int, l <= r
  PROVE  /\ (l + r) \div 2 \in Int
         /\ l <= (l + r) \div 2 /\ (l + r) \div 2 <= r
  OBVIOUS

(* Timestamps are integers and grow with the block number. *)
LEMMA ChainFacts ==
  ASSUME NEW c \in Chains
  PROVE  /\ \A b \in Blocks : c[b] \in Int
         /\ \A b1, b2 \in Blocks : b1 < b2 => c[b1] < c[b2]
  BY BlockRangeAssumption DEF Chains, Times, Blocks

LEMMA BlocksAreIntegers ==
  /\ Blocks \subseteq Int /\ Times \subseteq Int
  /\ \A f \in Blocks : \A b \in 0..f : b \in Blocks
  BY BlockRangeAssumption DEF Blocks, Times

LEMMA InitInvariant == Init => IInv
<1> SUFFICES ASSUME Init PROVE IInv
  OBVIOUS
<1>1. TypeOK
  BY BlocksAreIntegers DEF Init, TypeOK, Phases, Errors, Blocks
<1>2. RefusalsAreJustified
  BY DEF Init, RefusalsAreJustified
<1> QED
  BY <1>1, <1>2 DEF Init, IInv, ExpandInv, OldestInv, FirstInv, DoneInv

(* What every step needs of the invariant: integers, and a chain that grows. *)
LEMMA StateFacts ==
  ASSUME IInv
  PROVE  /\ finalized \in Blocks /\ finalized \in Int /\ 0 <= finalized
         /\ oldest \in Int /\ start \in Int /\ end \in Int /\ step \in Int /\ step > 0
         /\ left \in Int /\ right \in Int /\ found \in Int /\ newestOk \in Int
         /\ \A b \in Blocks : b \in Int /\ chain[b] \in Int
         /\ \A b1, b2 \in Blocks : b1 < b2 => chain[b1] < chain[b2]
         /\ \A b \in 0..finalized : b \in Blocks
         /\ Candidate \in 0..finalized /\ Candidate <= finalized
         /\ Goal(goal) \in Int
<1>1. TypeOK
  BY DEF IInv
<1>2. /\ finalized \in Blocks /\ finalized \in Int /\ 0 <= finalized
      /\ oldest \in Int /\ start \in Int /\ end \in Int /\ step \in Int /\ step > 0
      /\ left \in Int /\ right \in Int /\ found \in Int /\ newestOk \in Int
  BY <1>1, BlocksAreIntegers DEF TypeOK, Blocks
<1>3. /\ \A b \in Blocks : b \in Int /\ chain[b] \in Int
      /\ \A b1, b2 \in Blocks : b1 < b2 => chain[b1] < chain[b2]
  BY <1>1, ChainFacts, BlocksAreIntegers DEF TypeOK
<1>4. \A b \in 0..finalized : b \in Blocks
  BY <1>2, BlocksAreIntegers
<1>5. Candidate \in 0..finalized /\ Candidate <= finalized
  BY <1>2 DEF Candidate
<1>6. Goal(goal) \in Int
  BY <1>2 DEF Goal
<1> QED
  BY <1>2, <1>3, <1>4, <1>5, <1>6

(* A search for t may start at block low when low is not later than t. *)
LEMMA LowEndOfSearch ==
  ASSUME IInv, NEW low \in 0..finalized, NEW t \in Int,
         chain[low] <= t \/ low = 0
  PROVE  \A n \in Blocks : n < low => chain[n] < t
<1> SUFFICES ASSUME NEW n \in Blocks, n < low PROVE chain[n] < t
  OBVIOUS
<1>1. low \in Blocks /\ low # 0 /\ low \in Int
  BY StateFacts, BlocksAreIntegers DEF Blocks
<1>2. chain[n] < chain[low] /\ chain[n] \in Int /\ chain[low] \in Int
  BY <1>1, StateFacts
<1> QED
  BY <1>1, <1>2

(* No block above the finalized head is earlier than the end of the interval. *)
LEMMA HighEndOfSearch ==
  ASSUME IInv, start < end, end <= chain[finalized]
  PROVE  \A n \in Blocks : n > finalized => chain[n] >= start /\ chain[n] >= end
<1> SUFFICES ASSUME NEW n \in Blocks, n > finalized
             PROVE  chain[n] >= start /\ chain[n] >= end
  OBVIOUS
<1>1. chain[finalized] < chain[n] /\ chain[n] \in Int /\ chain[finalized] \in Int
  BY StateFacts
<1> QED
  BY <1>1, StateFacts

(* The two ways find_search_low_block hands over to the first binary search. *)
LEMMA SearchStarts ==
  ASSUME IInv, start < end, end <= chain[finalized],
         NEW g \in {"start", "end"}, NEW low \in 0..finalized,
         \A n \in Blocks : n < low => chain[n] < Goal(g),
         StartSearch(g, low), world' = world, fromBlock' \in Int,
         g = "end" => SplitAt(fromBlock', start)
  PROVE  FirstInv'
<1>1. /\ goal' = g /\ left' = low /\ right' = finalized /\ found' = finalized + 1
      /\ chain' = chain /\ finalized' = finalized /\ start' = start /\ end' = end
  BY DEF StartSearch, world
<1>2. Goal(goal)' = Goal(g)
  BY <1>1 DEF Goal
<1>3. \A n \in Blocks : n > right' => chain'[n] >= Goal(goal)'
  BY <1>1, <1>2, HighEndOfSearch, StateFacts DEF Goal
<1>4. \A n \in Blocks : n < left' => chain'[n] < Goal(goal)'
  BY <1>1, <1>2
<1>5. left' <= right' + 1 /\ found' = right' + 1
  BY <1>1, StateFacts
<1>6. goal' = "end" => SplitAt(fromBlock, start)'
  BY <1>1 DEF SplitAt
<1> QED
  BY <1>3, <1>4, <1>5, <1>6 DEF FirstInv

LEMMA ResolveKeepsInvariant ==
  ASSUME IInv, Resolve
  PROVE  IInv'
<1> USE DEF Phases, Errors, world, search, answer
<1>0. TypeOK /\ RefusalsAreJustified /\ (pc # "failed" => error = "none")
  BY DEF IInv
<1>00. pc \in {"expand", "oldest", "first"} => start < end /\ end <= chain[finalized]
  BY DEF IInv
<1>1. CASE RejectBounds
  BY <1>1, <1>0 DEF RejectBounds, Raise, IInv, TypeOK, ExpandInv, OldestInv, FirstInv,
                    DoneInv, RefusalsAreJustified
<1>2. CASE RejectUnfinalized
  BY <1>2, <1>0 DEF RejectUnfinalized, Raise, IInv, TypeOK, ExpandInv, OldestInv, FirstInv,
                    DoneInv, RefusalsAreJustified
<1>3. CASE LookupFails
  BY <1>3, <1>0 DEF LookupFails, Raise, IInv, TypeOK, ExpandInv, OldestInv, FirstInv,
                    DoneInv, RefusalsAreJustified
<1>4. CASE AcceptFinalized
  <2>1. TypeOK'
    BY <1>4, <1>0, StateFacts DEF AcceptFinalized, TypeOK
  <2>2. start' < end' /\ end' <= chain'[finalized']
    BY <1>4, StateFacts DEF AcceptFinalized
  <2>3. ExpandInv'
    BY <1>4, StateFacts DEF AcceptFinalized, ExpandInv
  <2> QED
    BY <1>4, <1>0, <2>1, <2>2, <2>3 DEF AcceptFinalized, IInv, OldestInv, FirstInv, DoneInv,
       RefusalsAreJustified
<1>5. CASE ExpandStops
  <2>1. TypeOK'
    <3>1. cache' \subseteq 0..finalized
      BY <1>5, <1>0, StateFacts DEF ExpandStops, TypeOK
    <3>2. left' \in 0..(finalized + 1) /\ right' \in -1..finalized /\ found' \in 0..(finalized + 1)
      BY <1>5, StateFacts DEF ExpandStops, StartSearch
    <3> QED
      BY <1>5, <1>0, <3>1, <3>2, StateFacts DEF ExpandStops, StartSearch, TypeOK
  <2>2. \A n \in Blocks : n < Candidate => chain[n] < start
    BY <1>5, LowEndOfSearch, StateFacts DEF ExpandStops
  <2>3. FirstInv'
    <3>1. fromBlock' \in Int
      BY <1>5, <1>0, StateFacts DEF ExpandStops, TypeOK
    <3> QED
      BY <1>5, <1>00, <2>2, <3>1, StateFacts, SearchStarts DEF ExpandStops, Goal
  <2> QED
    BY <1>5, <1>0, <1>00, <2>1, <2>3 DEF ExpandStops, StartSearch, IInv, ExpandInv, OldestInv,
       DoneInv, RefusalsAreJustified
<1>6. CASE ExpandGoesOn
  <2>1. TypeOK'
    <3>1. cache' \subseteq 0..finalized
      BY <1>6, <1>0, StateFacts DEF ExpandGoesOn, TypeOK
    <3>2. step' \in Nat \ {0} /\ newestOk' \in 0..finalized
      BY <1>6, StateFacts DEF ExpandGoesOn
    <3> QED
      BY <1>6, <1>0, <3>1, <3>2 DEF ExpandGoesOn, TypeOK
  <2>2. ExpandInv'
    BY <1>6, <1>0, StateFacts DEF ExpandGoesOn, ExpandInv, Candidate
  <2> QED
    BY <1>6, <1>0, <1>00, <2>1, <2>2 DEF ExpandGoesOn, IInv, OldestInv, FirstInv, DoneInv,
       RefusalsAreJustified
<1>7. CASE ExpandForbidden
  <2>1. newestOk \in cache /\ Candidate <= newestOk
    BY <1>7, <1>0, StateFacts DEF ExpandForbidden, IInv, ExpandInv, Candidate, TypeOK
  <2>2. Candidate # newestOk /\ Candidate < oldest
    BY <1>7, <2>1 DEF ExpandForbidden, Forbidden
  <2>3. TypeOK'
    BY <1>7, <1>0, StateFacts DEF ExpandForbidden, TypeOK
  <2>4. OldestInv'
    BY <1>7, <2>1, <2>2, StateFacts DEF ExpandForbidden, OldestInv
  <2> QED
    BY <1>7, <1>0, <1>00, <2>3, <2>4 DEF ExpandForbidden, IInv, ExpandInv, FirstInv, DoneInv,
       RefusalsAreJustified
<1>8. CASE OldestServed
  <2>1. Middle \in Int /\ left <= Middle /\ Middle <= right
    BY <1>8, StateFacts, MiddleBetween DEF OldestServed, Middle
  <2>2. TypeOK'
    BY <1>8, <1>0, <2>1, StateFacts DEF OldestServed, TypeOK
  <2>3. OldestInv'
    BY <1>8, <2>1, StateFacts DEF OldestServed, OldestInv, IInv
  <2> QED
    BY <1>8, <1>0, <1>00, <2>2, <2>3 DEF OldestServed, IInv, ExpandInv, FirstInv, DoneInv,
       RefusalsAreJustified
<1>9. CASE OldestForbidden
  <2>1. Middle \in Int /\ left <= Middle /\ Middle <= right
    BY <1>9, StateFacts, MiddleBetween DEF OldestForbidden, Middle
  <2>2. Middle # found /\ Middle < oldest
    BY <1>9 DEF OldestForbidden, Forbidden, IInv, OldestInv
  <2>3. TypeOK'
    BY <1>9, <1>0, <2>1, StateFacts DEF OldestForbidden, TypeOK
  <2>4. OldestInv'
    BY <1>9, <2>1, <2>2, StateFacts DEF OldestForbidden, OldestInv, IInv
  <2> QED
    BY <1>9, <1>0, <1>00, <2>3, <2>4 DEF OldestForbidden, IInv, ExpandInv, FirstInv, DoneInv,
       RefusalsAreJustified
<1>10. CASE OldestTooRecent
  <2>1. found <= oldest /\ found \in cache
    BY <1>10, StateFacts DEF OldestTooRecent, IInv, OldestInv
  <2>2. found \in Blocks /\ oldest \in Blocks
    BY <1>0, <2>1, StateFacts DEF TypeOK
  <2>3. chain[found] <= chain[oldest]
    BY <2>1, <2>2, StateFacts
  <2>4. chain[oldest] > start
    BY <1>10, <2>2, <2>3, StateFacts DEF OldestTooRecent
  <2>5. TypeOK'
    BY <1>10, <1>0 DEF OldestTooRecent, Raise, TypeOK
  <2> QED
    BY <1>10, <1>0, <2>4, <2>5 DEF OldestTooRecent, Raise, IInv, ExpandInv, OldestInv, FirstInv,
       DoneInv, RefusalsAreJustified
<1>11. CASE OldestReachesStart
  <2>1. found \in 0..finalized
    BY <1>11, <1>0 DEF OldestReachesStart, IInv, OldestInv, TypeOK
  <2>2. \A n \in Blocks : n < found => chain[n] < start
    BY <1>11, <2>1, LowEndOfSearch, StateFacts DEF OldestReachesStart
  <2>3. TypeOK'
    BY <1>11, <1>0, <2>1, StateFacts DEF OldestReachesStart, StartSearch, TypeOK
  <2>4. FirstInv'
    <3>1. fromBlock' \in Int
      BY <1>11, <1>0, StateFacts DEF OldestReachesStart, TypeOK
    <3> QED
      BY <1>11, <1>00, <2>1, <2>2, <3>1, StateFacts, SearchStarts DEF OldestReachesStart, Goal
  <2> QED
    BY <1>11, <1>0, <1>00, <2>3, <2>4 DEF OldestReachesStart, StartSearch, IInv, ExpandInv,
       OldestInv, DoneInv, RefusalsAreJustified
<1>12. CASE ProbeAtOrAfter
  <2>1. Middle \in Int /\ left <= Middle /\ Middle <= right /\ Middle \in Blocks
    BY <1>12, <1>0, StateFacts, MiddleBetween DEF ProbeAtOrAfter, Middle, TypeOK
  <2>2. TypeOK'
    BY <1>12, <1>0, <2>1, StateFacts DEF ProbeAtOrAfter, TypeOK
  <2>3. \A n \in Blocks : n > Middle - 1 => chain[n] >= Goal(goal)
    BY <1>12, <2>1, StateFacts DEF ProbeAtOrAfter
  <2>4. FirstInv'
    BY <1>12, <2>1, <2>3, StateFacts DEF ProbeAtOrAfter, FirstInv, IInv, Goal, SplitAt
  <2> QED
    BY <1>12, <1>0, <1>00, <2>2, <2>4 DEF ProbeAtOrAfter, IInv, ExpandInv, OldestInv, DoneInv,
       RefusalsAreJustified
<1>13. CASE ProbeBefore
  <2>1. Middle \in Int /\ left <= Middle /\ Middle <= right /\ Middle \in Blocks
    BY <1>13, <1>0, StateFacts, MiddleBetween DEF ProbeBefore, Middle, TypeOK
  <2>2. TypeOK'
    BY <1>13, <1>0, <2>1, StateFacts DEF ProbeBefore, TypeOK
  <2>3. \A n \in Blocks : n < Middle + 1 => chain[n] < Goal(goal)
    BY <1>13, <2>1, StateFacts DEF ProbeBefore
  <2>4. FirstInv'
    BY <1>13, <2>1, <2>3, StateFacts DEF ProbeBefore, FirstInv, IInv, Goal, SplitAt
  <2> QED
    BY <1>13, <1>0, <1>00, <2>2, <2>4 DEF ProbeBefore, IInv, ExpandInv, OldestInv, DoneInv,
       RefusalsAreJustified
<1>14. CASE FromFound
  <2>1. SplitAt(found, start) /\ left = found
    BY <1>14, StateFacts DEF FromFound, IInv, FirstInv, SplitAt, Goal
  <2>2. found \in 0..finalized
    BY <1>00, <1>14, <2>1, <1>0, StateFacts DEF FromFound, SplitAt, TypeOK
  <2>3. \A n \in Blocks : n < found => chain[n] < end
    BY <1>00, <1>14, <2>1, StateFacts DEF FromFound, SplitAt
  <2>4. TypeOK'
    BY <1>14, <1>0, <2>2, StateFacts DEF FromFound, StartSearch, TypeOK
  <2>5. FirstInv'
    BY <1>00, <1>14, <2>1, <2>2, <2>3, StateFacts, SearchStarts DEF FromFound, Goal
  <2> QED
    BY <1>14, <1>0, <1>00, <2>4, <2>5 DEF FromFound, StartSearch, IInv, ExpandInv, OldestInv,
       DoneInv, RefusalsAreJustified
<1>15. CASE EndFound
  <2>1. SplitAt(found, end) /\ SplitAt(fromBlock, start)
    BY <1>15, StateFacts DEF EndFound, IInv, FirstInv, SplitAt, Goal
  <2>2. TypeOK'
    BY <1>15, <1>0, StateFacts DEF EndFound, Raise, TypeOK
  <2>3. DoneInv'
    BY <1>15, <2>1 DEF EndFound, Raise, DoneInv, SplitAt
  <2>4. RefusalsAreJustified'
    <3>1. CASE fromBlock > found - 1
      <4>1. Holds(chain, 1, 0, start, end)
        BY <2>1, <3>1, <1>0, StateFacts DEF Holds, SplitAt, TypeOK
      <4> QED
        BY <1>15, <3>1, <4>1 DEF EndFound, Raise, RefusalsAreJustified, Holds
    <3>2. CASE ~(fromBlock > found - 1)
      BY <1>15, <3>2, <1>0 DEF EndFound, RefusalsAreJustified
    <3> QED
      BY <3>1, <3>2
  <2> QED
    BY <1>15, <1>0, <2>2, <2>3, <2>4 DEF EndFound, Raise, IInv, ExpandInv, OldestInv, FirstInv
<1> QED
  BY <1>1, <1>2, <1>3, <1>4, <1>5, <1>6, <1>7, <1>8, <1>9, <1>10, <1>11, <1>12, <1>13, <1>14,
     <1>15 DEF Resolve

LEMMA NextKeepsInvariant ==
  ASSUME IInv, [Next]_vars
  PROVE  IInv'
<1> USE DEF IInv, TypeOK, ExpandInv, OldestInv, FirstInv, DoneInv, RefusalsAreJustified,
            world, search, answer
<1>1. CASE Resolve
  BY <1>1, ResolveKeepsInvariant
<1>2. CASE WindowSlides
  <2>1. oldest' \in (oldest + 1)..finalized
    BY <1>2 DEF WindowSlides
  <2>2. oldest' \in 0..finalized /\ oldest <= oldest' /\ left \in Int /\ oldest \in Int
    BY <2>1, StateFacts
  <2>3. error = "none" /\ error' = "none"
    BY <1>2 DEF WindowSlides
  <2>4. TypeOK'
    BY <1>2, <2>2 DEF WindowSlides
  <2>5. OldestInv'
    BY <1>2, <2>2 DEF WindowSlides
  <2>6. FirstInv' /\ ExpandInv' /\ DoneInv'
    BY <1>2 DEF WindowSlides, Goal, SplitAt
  <2> QED
    BY <1>2, <2>3, <2>4, <2>5, <2>6 DEF WindowSlides
<1>3. CASE UNCHANGED vars
  BY <1>3 DEF vars, Goal, SplitAt, Holds, Candidate
<1> QED
  BY <1>1, <1>2, <1>3 DEF Next, Finished

(* The invariant settles what a resolved range holds. *)
LEMMA InvariantGivesRange == IInv => RangeIsInterval
<1> SUFFICES ASSUME IInv, pc = "done", NEW b \in Blocks
             PROVE  b \in fromBlock..ToBlock <=> start <= chain[b] /\ chain[b] < end
  BY DEF RangeIsInterval, Holds
<1>1. SplitAt(fromBlock, start) /\ SplitAt(endExclusive, end)
  BY DEF IInv, DoneInv
<1>2. fromBlock \in Int /\ endExclusive \in Int /\ b \in Int /\ chain[b] \in Int
  BY StateFacts DEF IInv, TypeOK
<1> QED
  BY <1>1, <1>2, StateFacts DEF SplitAt, ToBlock

(* Every state of the resolver is well typed: block numbers stay between 0 and  *)
(* one past the finalized head, for every chain and every provider window.      *)
THEOREM TypeCorrect == Spec => []TypeOK
<1>1. IInv => TypeOK
  BY DEF IInv
<1> QED
  BY InitInvariant, NextKeepsInvariant, <1>1, PTL DEF Spec

(* A resolved range is the interval: no block of the hour is left out and none  *)
(* of a neighbouring hour is taken in.                                          *)
THEOREM RangeCorrect == Spec => []RangeIsInterval
  BY InitInvariant, NextKeepsInvariant, InvariantGivesRange, PTL DEF Spec

(* "Not finalized", "empty" and "window too short" are raised only when true.   *)
THEOREM RefusalsCorrect == Spec => []RefusalsAreJustified
<1>1. IInv => RefusalsAreJustified
  BY DEF IInv
<1> QED
  BY InitInvariant, NextKeepsInvariant, <1>1, PTL DEF Spec

(* Hours tile: the ranges of [s, m) and [m, e) on one chain share no block and  *)
(* leave none out between them, whatever runs resolved them.                    *)
THEOREM AdjacentIntervalsTile ==
  ASSUME NEW c \in Chains, NEW s \in Times, NEW m \in Times, NEW e \in Times,
         NEW f1 \in Blocks, NEW t1 \in Int, NEW f2 \in Blocks, NEW t2 \in Int,
         s < m, m < e, Holds(c, f1, t1, s, m), Holds(c, f2, t2, m, e),
         f1 <= t1, t1 <= MaxBlock, f2 <= t2, t2 <= MaxBlock
  PROVE  f2 = t1 + 1
<1>1. /\ f1 \in Int /\ f2 \in Int /\ s \in Int /\ m \in Int /\ e \in Int
      /\ f1 >= 0 /\ f2 >= 0 /\ MaxBlock \in Nat
      /\ \A b \in Int : 0 <= b /\ b <= MaxBlock => b \in Blocks
  BY BlocksAreIntegers, BlockRangeAssumption DEF Blocks
<1>2. \A b \in Blocks : b \in Int /\ c[b] \in Int
  BY ChainFacts, BlocksAreIntegers
<1>3. t1 \in Blocks /\ c[t1] < m /\ s <= c[t1]
  BY <1>1 DEF Holds
<1>4. c[f2] >= m /\ c[f2] < e
  BY <1>1 DEF Holds
<1>5. t1 < f2
  <2> SUFFICES ASSUME f2 <= t1 PROVE FALSE
    BY <1>1
  <2>1. f2 = t1 \/ c[f2] < c[t1]
    BY <1>1, <1>3, ChainFacts
  <2> QED
    BY <2>1, <1>1, <1>2, <1>3, <1>4
<1>6. f2 <= t1 + 1
  <2> SUFFICES ASSUME t1 + 1 < f2 PROVE FALSE
    BY <1>1
  <2>1. t1 + 1 \in Blocks
    BY <1>1, <1>3
  <2>2. c[t1] < c[t1 + 1] /\ c[t1 + 1] < c[f2]
    BY <1>1, <1>3, <2>1, ChainFacts
  <2>3. c[t1 + 1] < m
    BY <1>1, <1>2, <1>3, <1>4, <2>1, <2>2 DEF Holds
  <2> QED
    BY <1>1, <1>2, <1>3, <2>1, <2>2, <2>3 DEF Holds
<1> QED
  BY <1>1, <1>5, <1>6
===============================================================================
