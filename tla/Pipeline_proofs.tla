---------------------------- MODULE Pipeline_proofs ----------------------------
(***************************************************************************)
(* For every number of hours, retries and runs, and every way an attempt   *)
(* can fail. For windows of every kind: a window that succeeded is stored  *)
(* in the raw table and in silver, and the raw table is an insert-only     *)
(* log. For windows on the hour: gold never shows a part of an hour, a     *)
(* window that succeeded stays published, and a build replaces its own     *)
(* window only.                                                            *)
(***************************************************************************)
EXTENDS Pipeline, WellFoundedInduction, TLAPS

-------------------------------------------------------------------------------
(* The inductive invariant: what each stage of the attempt has established. *)

FromCollect     == {"collect", "write", "silver", "silverTests", "gold", "goldTests"}
FromSilver      == {"silver", "silverTests", "gold", "goldTests"}
FromSilverTests == {"silverTests", "gold", "goldTests"}
FromGold        == {"gold", "goldTests"}

\* The tables hold events of the chain only, and silver only what raw holds.
TablesAreEvents ==
  /\ silver \subseteq KeysOf(raw)
  /\ \A s \in KeysOf(raw) : content[s] # "none"

WindowFinalized == stage \in FromCollect => window.to <= finalized
InRaw    == stage \in FromSilver =>
              \A s \in Within(window) : content[s] # "none" => s \in KeysOf(raw)
InSilver == stage \in FromSilverTests =>
              \A s \in Within(window) : content[s] # "none" => s \in silver
Tested   == stage \in FromGold => \A s \in silver : content[s] # "wide"

IInv ==
  /\ TypeOK
  /\ TablesAreEvents
  /\ WindowFinalized /\ InRaw /\ InSilver /\ Tested
  /\ SucceededIsStored /\ WideNeverPasses

(* What windows on the hour add. *)

HourWindows == {HourWindow(h) : h \in Hours}

OnTheHour ==
  /\ stage # "idle" => kind # "recent" /\ window \in HourWindows
  /\ \A r \in raw : r.payload = 2 * HourOf(r.key)
  /\ \A h \in Hours : gold[h] # None => gold[h].source = 2 * h

Published ==
  stage = "goldTests" =>
    \A s \in Within(window) : content[s] = "flow" => gold[HourOf(s)] # None

HourInv == IInv /\ OnTheHour /\ Published /\ NoPartialHour /\ SucceededIsPublished

-------------------------------------------------------------------------------
(* Type correctness. *)

(* Hours and slots are integers, and an hour's window is a window. *)
LEMMA WindowFacts ==
  /\ \A h \in Hours : h \in Int /\ 0 <= h /\ h < NumHours /\ HourWindow(h) \in Windows
  /\ \A s \in Slots : s \in Int /\ 0 <= s /\ s < 2 * NumHours /\ HourOf(s) \in Hours
  /\ NumHours \in Int
<1>1. NumHours \in Nat
  BY PipelineAssumption
<1>2. \A s \in Slots : s \in Int /\ 0 <= s /\ s < 2 * NumHours
  BY <1>1 DEF Slots
<1>3. ASSUME NEW s \in Slots PROVE HourOf(s) \in Hours
  <2>1. s \div 2 \in Int /\ 0 <= s \div 2 /\ s \div 2 < NumHours
    BY <1>1, <1>2
  <2> QED
    BY <1>1, <2>1 DEF HourOf, Hours
<1>4. \A h \in Hours : h \in Int /\ 0 <= h /\ h < NumHours
  BY <1>1 DEF Hours
<1>5. ASSUME NEW h \in Hours PROVE HourWindow(h) \in Windows
  BY <1>1, <1>4 DEF HourWindow, Windows
<1> QED
  BY <1>1, <1>2, <1>3, <1>4, <1>5

(* The least element of a set of naturals exists and is the one Min chooses. *)
LEMMA MinOfNaturals ==
  ASSUME NEW S \in SUBSET Nat, S # {}
  PROVE  Min(S) \in S /\ \A x \in S : Min(S) <= x
<1>1. PICK m \in S : \A y \in S : ~(<<y, m>> \in OpToRel(<, Nat))
  BY NatLessThanWellFounded, WFMin
<1>2. \A y \in S : y \in Nat /\ m \in Nat
  OBVIOUS
<1>3. \A y \in S : ~(y < m)
  BY <1>1, <1>2 DEF OpToRel
<1>4. \A y \in S : m <= y
  BY <1>2, <1>3
<1> QED
  BY <1>4 DEF Min

(* An attempt that fails waits for its next try or ends the run. *)
LEMMA FailsFacts ==
  ASSUME TypeOK, NEW e, Fails(e)
  PROVE  /\ stage' \in {"idle", "waiting"}
         /\ attempt' \in 0..Retries
<1>1. Retries \in Nat /\ attempt \in Int /\ 0 <= attempt /\ attempt <= Retries
  BY PipelineAssumption DEF TypeOK
<1>2. CASE e \in TerminalErrors \/ attempt >= Retries
  BY <1>1, <1>2 DEF Fails, TypeOK
<1>3. CASE ~(e \in TerminalErrors \/ attempt >= Retries)
  <2>1. attempt + 1 <= Retries
    BY <1>1, <1>3
  <2> QED
    BY <1>1, <1>3, <2>1 DEF Fails, TypeOK
<1> QED
  BY <1>2, <1>3

(* The row of an hour with events: it comes from an interval of a raw row. *)
LEMMA FlowRowFacts ==
  ASSUME TypeOK, NEW c \in SUBSET Slots, c # {}, c \subseteq KeysOf(raw)
  PROVE  /\ FlowRow(c) \in GoldRows /\ FlowRow(c) # None
         /\ FlowRow(c).counted = c
         /\ \E r \in raw : r.key \in c /\ FlowRow(c).source = r.payload
<1> DEFINE P == {r.payload : r \in {r \in raw : r.key \in c}}
<1>1. PICK k \in c : TRUE
  OBVIOUS
<1>2. k \in KeysOf(raw)
  BY <1>1
<1>3. PICK r \in raw : r.key = k
  BY <1>2 DEF KeysOf
<1>4. P # {} /\ P \subseteq Nat
  <2>1. r.payload \in P
    BY <1>1, <1>3
  <2>2. \A q \in raw : q.payload \in Nat
    BY PipelineAssumption DEF TypeOK
  <2> QED
    BY <2>1, <2>2
<1>5. Min(P) \in P
  BY <1>4, MinOfNaturals
<1>6. PICK q \in raw : q.key \in c /\ Min(P) = q.payload
  BY <1>5
<1>7. FlowRow(c) = [counted |-> c, source |-> Min(P)]
  BY DEF FlowRow
<1>8. Min(P) \in Int
  BY <1>4, <1>5
<1>9. FlowRow(c) \in GoldRows
  BY <1>7, <1>8 DEF GoldRows
<1>10. FlowRow(c) # None
  BY <1>9, NoneAssumption
<1>11. FlowRow(c).counted = c /\ FlowRow(c).source = q.payload
  BY <1>6, <1>7
<1> QED
  BY <1>6, <1>9, <1>10, <1>11

(* The rows of a window: one for each of its events. *)
LEMMA RowsFacts ==
  ASSUME TypeOK
  PROVE  /\ Rows \subseteq [key : Slots, payload : 0..(2 * NumHours)]
         /\ \A r \in Rows : r.key \in Fetched /\ r.payload = window.from
         /\ \A s \in Fetched : \E r \in Rows : r.key = s
         /\ Fetched \subseteq Within(window) /\ \A s \in Fetched : content[s] # "none"
<1>1. window.from \in 0..(2 * NumHours)
  BY DEF TypeOK, Windows
<1>2. /\ Fetched \subseteq Slots /\ Fetched \subseteq Within(window)
      /\ \A s \in Fetched : content[s] # "none"
  BY DEF Fetched, Within
<1>3. \A s \in Fetched : [key |-> s, payload |-> window.from] \in Rows
  BY DEF Rows
<1>4. ASSUME NEW r \in Rows
      PROVE  /\ r.key \in Fetched /\ r.payload = window.from
             /\ r \in [key : Slots, payload : 0..(2 * NumHours)]
  <2>1. PICK s \in Fetched : r = [key |-> s, payload |-> window.from]
    BY DEF Rows
  <2> QED
    BY <1>1, <1>2, <2>1
<1>5. \A s \in Fetched : \E r \in Rows : r.key = s
  BY <1>3
<1> QED
  BY <1>2, <1>4, <1>5

LEMMA InitType == Init => TypeOK
BY PipelineAssumption, WindowFacts DEF Init, TypeOK, Stages, Windows, KeysOf

(* Each action keeps the types; building gold does because silver holds only  *)
(* what raw holds.                                                            *)
LEMMA TypeStep == TypeOK /\ silver \subseteq KeysOf(raw) /\ [Next]_vars => TypeOK'
<1> SUFFICES ASSUME TypeOK, silver \subseteq KeysOf(raw), [Next]_vars PROVE TypeOK'
  OBVIOUS
<1> USE DEF chain, tables, trigger
<1>0. /\ NumHours \in Int /\ clock \in Int /\ finalized \in Int
      /\ 0 <= finalized /\ finalized <= clock /\ clock <= 2 * NumHours
  BY WindowFacts DEF TypeOK
<1>1. CASE TimePasses
  BY <1>0, <1>1 DEF TimePasses, TypeOK
<1>2. CASE HeadFinalizes
  BY <1>0, <1>2 DEF HeadFinalizes, TypeOK
<1>3. ASSUME NEW k \in {"hour", "conf", "recent"}, NEW w \in Windows,
             StartRun(k, w), lastHour' \in Hours \cup {-1}
      PROVE  TypeOK'
  <2>1. runs' \in 0..MaxRuns
    BY <1>3, PipelineAssumption DEF StartRun, TypeOK
  <2>2. attempt' \in 0..Retries
    BY <1>3, PipelineAssumption DEF StartRun
  <2> QED
    BY <1>3, <2>1, <2>2 DEF StartRun, TypeOK, Stages
<1>4. CASE Schedule
  <2>1. LatestHour \in Hours
    <3>1. clock \div 2 \in Int /\ clock \div 2 <= NumHours
      BY <1>0
    <3>2. lastHour \in Int /\ -1 <= lastHour /\ LatestHour > lastHour
      BY <1>4, WindowFacts DEF Schedule, TypeOK
    <3> QED
      BY <1>0, <3>1, <3>2 DEF LatestHour, Hours
  <2>2. HourWindow(LatestHour) \in Windows /\ StartRun("hour", HourWindow(LatestHour))
    BY <1>4, <2>1, WindowFacts DEF Schedule
  <2> QED
    BY <1>3, <1>4, <2>1, <2>2 DEF Schedule
<1>5. CASE TriggerConf
  <2>1. PICK s \in Slots : s + 2 <= 2 * NumHours /\ StartRun("conf", [from |-> s, to |-> s + 2])
    BY <1>5 DEF TriggerConf
  <2>2. [from |-> s, to |-> s + 2] \in Windows
    BY <1>0, <2>1, WindowFacts DEF Windows
  <2> QED
    BY <1>3, <1>5, <2>1, <2>2 DEF TriggerConf, TypeOK
<1>6. CASE TriggerRecent
  BY <1>3, <1>6 DEF TriggerRecent, TypeOK
<1>7. CASE StartAttempt
  <2>1. window' \in Windows
    BY <1>0, <1>7 DEF StartAttempt, TypeOK, Windows
  <2> QED
    BY <1>7, <2>1 DEF StartAttempt, TypeOK, Stages
<1>8. CASE Resolve \/ Collect
  BY <1>8 DEF Resolve, Collect, TypeOK, Stages
<1>9. ASSUME NEW e, Fails(e), UNCHANGED <<chain, tables, trigger, succeeded>>
      PROVE  TypeOK'
  BY <1>9, FailsFacts DEF TypeOK, Stages
<1>10. CASE NotFinalized
  BY <1>9, <1>10 DEF NotFinalized
<1>11. CASE Write
  BY <1>11, RowsFacts DEF Write, Insert, TypeOK, Stages
<1>12. CASE BuildSilver
  BY <1>12 DEF BuildSilver, TypeOK, Stages, Within
<1>13. CASE TestSilver
  <2>1. CASE SilverTestsHold
    BY <1>13, <2>1 DEF TestSilver, TypeOK, Stages
  <2>2. CASE ~SilverTestsHold
    BY <1>0, <1>9, <1>13, <2>2 DEF TestSilver
  <2> QED
    BY <2>1, <2>2
<1>14. CASE BuildGold
  <2>1. \A h \in Hours : CountedIn(h) \in SUBSET Slots /\ CountedIn(h) \subseteq KeysOf(raw)
    BY DEF CountedIn, TypeOK
  <2>2. \A h \in Hours : CountedIn(h) # {} => FlowRow(CountedIn(h)) \in GoldRows
    BY <2>1, FlowRowFacts
  <2>3. gold' \in [Hours -> GoldRows \cup {None}]
    BY <1>14, <2>2 DEF BuildGold, TypeOK
  <2> QED
    BY <1>14, <2>3 DEF BuildGold, TypeOK, Stages
<1>15. CASE Succeed
  BY <1>15 DEF Succeed, TypeOK, Stages
<1>16. CASE ResolveRaises
  BY <1>0, <1>9, <1>16 DEF ResolveRaises
<1>17. CASE CollectRaises
  BY <1>0, <1>9, <1>17 DEF CollectRaises
<1>18. CASE WriteRaises
  <2>1. raw' \subseteq [key : Slots, payload : 0..(2 * NumHours)]
    BY <1>18, RowsFacts DEF WriteRaises, Insert, TypeOK
  <2>2. Fails("DeltaWriteError")
    BY <1>18 DEF WriteRaises
  <2> QED
    BY <1>0, <1>18, <2>1, <2>2, FailsFacts DEF WriteRaises, TypeOK, Stages
<1>19. CASE DbtRaises \/ AttemptBreaks
  BY <1>0, <1>9, <1>19 DEF DbtRaises, AttemptBreaks
<1>20. CASE UNCHANGED vars
  BY <1>20 DEF vars, TypeOK
<1> QED
  BY <1>1, <1>2, <1>4, <1>5, <1>6, <1>7, <1>8, <1>10, <1>11, <1>12, <1>13, <1>14, <1>15,
     <1>16, <1>17, <1>18, <1>19, <1>20 DEF Next, Attempt, Finished

(* The two halves of the invariance proof. *)
LEMMA InitInvariant == Init => IInv
BY InitType
   DEF Init, IInv, TablesAreEvents, KeysOf, WindowFinalized, InRaw, InSilver, Tested,
       FromCollect, FromSilver, FromSilverTests, FromGold, SucceededIsStored, WideNeverPasses

(* Inserting adds the keys of the window's events and takes none away. *)
LEMMA InsertFacts ==
  ASSUME TypeOK, Insert
  PROVE  KeysOf(raw') = KeysOf(raw) \cup Fetched
<1>1. KeysOf(raw') \subseteq KeysOf(raw) \cup Fetched
  BY RowsFacts DEF Insert, KeysOf
<1>2. KeysOf(raw) \subseteq KeysOf(raw')
  BY DEF Insert, KeysOf
<1>3. ASSUME NEW s \in Fetched, s \notin KeysOf(raw) PROVE s \in KeysOf(raw')
  <2>1. PICK r \in Rows : r.key = s
    BY RowsFacts
  <2>2. r \in raw'
    BY <1>3, <2>1 DEF Insert
  <2> QED
    BY <2>1, <2>2 DEF KeysOf
<1> QED
  BY <1>1, <1>2, <1>3

(* A step that begins or ends an attempt leaves the tables alone, or has      *)
(* inserted the window's rows.                                                *)
LEMMA BetweenAttempts ==
  ASSUME IInv, TypeOK', UNCHANGED <<content, silver, succeeded>>,
         UNCHANGED raw \/ Insert, stage' \in {"idle", "waiting", "resolve"}
  PROVE  IInv'
<1>1. /\ KeysOf(raw) \subseteq KeysOf(raw')
      /\ \A s \in KeysOf(raw') : content[s] # "none"
  <2>1. CASE UNCHANGED raw
    BY <2>1 DEF IInv, TablesAreEvents
  <2>2. CASE Insert
    BY <2>2, InsertFacts, RowsFacts DEF IInv, TablesAreEvents
  <2> QED
    BY <2>1, <2>2
<1>2. TablesAreEvents'
  BY <1>1 DEF IInv, TablesAreEvents
<1>3. (WindowFinalized /\ InRaw /\ InSilver /\ Tested)'
  BY DEF WindowFinalized, InRaw, InSilver, Tested, FromCollect, FromSilver, FromSilverTests, FromGold
<1>4. SucceededIsStored' /\ WideNeverPasses'
  BY <1>1 DEF IInv, SucceededIsStored, WideNeverPasses, Within
<1> QED
  BY <1>2, <1>3, <1>4 DEF IInv

LEMMA StepInvariant == IInv /\ [Next]_vars => IInv'
<1> SUFFICES ASSUME IInv, [Next]_vars PROVE IInv'
  OBVIOUS
<1> USE DEF chain, tables, trigger
<1>0. TypeOK /\ TypeOK'
  BY TypeStep DEF IInv, TablesAreEvents
<1>1. CASE TimePasses \/ HeadFinalizes
  <2>1. finalized <= finalized' /\ finalized \in Int /\ finalized' \in Int
    BY <1>0, <1>1 DEF TimePasses, HeadFinalizes, TypeOK
  <2>2. UNCHANGED <<content, tables, stage, window, succeeded>>
    BY <1>1 DEF TimePasses, HeadFinalizes
  <2>3. WindowFinalized'
    <3>1. window.to \in Int
      BY <1>0, WindowFacts DEF TypeOK, Windows
    <3> QED
      BY <2>1, <2>2, <3>1 DEF IInv, WindowFinalized
  <2> QED
    BY <1>0, <2>2, <2>3 DEF IInv, TablesAreEvents, KeysOf, InRaw, InSilver, Tested,
                          SucceededIsStored, WideNeverPasses, Within
<1>2. ASSUME NEW k, NEW w, StartRun(k, w) PROVE IInv'
  BY <1>0, <1>2, BetweenAttempts DEF StartRun
<1>3. CASE Schedule \/ TriggerConf \/ TriggerRecent
  BY <1>2, <1>3 DEF Schedule, TriggerConf, TriggerRecent
<1>4. ASSUME NEW e, Fails(e),
             UNCHANGED <<content, silver, succeeded>>, UNCHANGED raw \/ Insert
      PROVE  IInv'
  BY <1>0, <1>4, FailsFacts, BetweenAttempts
<1>5. CASE StartAttempt
  BY <1>0, <1>5, BetweenAttempts DEF StartAttempt
<1>7. CASE NotFinalized \/ ResolveRaises \/ CollectRaises \/ WriteRaises \/ DbtRaises \/ AttemptBreaks
  BY <1>4, <1>7
     DEF NotFinalized, ResolveRaises, CollectRaises, WriteRaises, DbtRaises, AttemptBreaks
<1>8. CASE Resolve \/ Collect
  <2>1. window'.to <= finalized'
    BY <1>8 DEF Resolve, Collect, IInv, WindowFinalized, FromCollect
  <2> QED
    BY <1>0, <1>8, <2>1
       DEF Resolve, Collect, IInv, TablesAreEvents, KeysOf, WindowFinalized, InRaw, InSilver, Tested,
           FromSilver, FromSilverTests, FromGold, SucceededIsStored, WideNeverPasses, Within
<1>9. CASE Write
  <2>1. stage = "write" /\ stage' = "silver" /\ Insert
        /\ UNCHANGED <<content, finalized, silver, window, succeeded>>
    BY <1>9 DEF Write
  <2>2. KeysOf(raw') = KeysOf(raw) \cup Fetched
    BY <1>0, <2>1, InsertFacts
  <2>3. \A s \in Within(window) : content[s] # "none" => s \in Fetched
    <3>1. window.to <= finalized
      BY <2>1 DEF IInv, WindowFinalized, FromCollect
    <3>2. \A s \in Within(window) : s \in Int /\ s < window.to
      BY WindowFacts DEF Within
    <3>3. window.to \in Int /\ finalized \in Int
      BY <1>0, WindowFacts DEF TypeOK, Windows
    <3> QED
      BY <3>1, <3>2, <3>3 DEF Fetched
  <2>4. TablesAreEvents'
    BY <1>0, <2>1, <2>2, RowsFacts DEF IInv, TablesAreEvents
  <2>5. WindowFinalized' /\ InSilver' /\ Tested'
    BY <2>1 DEF IInv, WindowFinalized, InSilver, Tested, FromCollect, FromSilverTests, FromGold
  <2>6. InRaw'
    BY <2>1, <2>2, <2>3 DEF InRaw, Within
  <2>7. SucceededIsStored' /\ WideNeverPasses'
    BY <2>1, <2>2 DEF IInv, SucceededIsStored, WideNeverPasses, Within
  <2> QED
    BY <1>0, <2>4, <2>5, <2>6, <2>7 DEF IInv
<1>10. CASE BuildSilver
  <2>1. stage = "silver" /\ stage' = "silverTests"
        /\ silver' = silver \cup (KeysOf(raw) \cap Within(window))
        /\ UNCHANGED <<content, finalized, raw, window, succeeded>>
    BY <1>10 DEF BuildSilver
  <2>2. TablesAreEvents'
    BY <2>1 DEF IInv, TablesAreEvents, KeysOf
  <2>3. WindowFinalized' /\ InRaw' /\ Tested'
    BY <2>1 DEF IInv, WindowFinalized, InRaw, Tested, FromCollect, FromSilver, FromGold, KeysOf, Within
  <2>4. InSilver'
    <3>1. \A s \in Within(window) : content[s] # "none" => s \in KeysOf(raw)
      BY <2>1 DEF IInv, InRaw, FromSilver
    <3> QED
      BY <2>1, <3>1 DEF InSilver, Within
  <2>5. SucceededIsStored' /\ WideNeverPasses'
    BY <2>1 DEF IInv, SucceededIsStored, WideNeverPasses, Within, KeysOf
  <2> QED
    BY <1>0, <2>2, <2>3, <2>4, <2>5 DEF IInv
<1>11. CASE TestSilver
  <2>1. CASE SilverTestsHold
    <3>1. stage = "silverTests" /\ stage' = "gold"
          /\ UNCHANGED <<content, finalized, raw, silver, window, succeeded>>
      BY <1>11, <2>1 DEF TestSilver
    <3>2. WindowFinalized' /\ InRaw' /\ InSilver'
      BY <3>1 DEF IInv, WindowFinalized, InRaw, InSilver, FromCollect, FromSilver,
                  FromSilverTests, KeysOf, Within
    <3>3. Tested'
      BY <2>1, <3>1 DEF Tested, SilverTestsHold
    <3> QED
      BY <1>0, <3>1, <3>2, <3>3 DEF IInv, TablesAreEvents, KeysOf, SucceededIsStored, WideNeverPasses, Within
  <2>2. CASE ~SilverTestsHold
    BY <1>4, <1>11, <2>2 DEF TestSilver
  <2> QED
    BY <2>1, <2>2
<1>12. CASE BuildGold
  <2>1. stage = "gold" /\ stage' = "goldTests"
        /\ UNCHANGED <<content, finalized, raw, silver, window, succeeded>>
    BY <1>12 DEF BuildGold
  <2>2. WindowFinalized' /\ InRaw' /\ InSilver' /\ Tested'
    BY <2>1 DEF IInv, WindowFinalized, InRaw, InSilver, Tested, FromCollect, FromSilver,
                FromSilverTests, FromGold, KeysOf, Within
  <2> QED
    BY <1>0, <2>1, <2>2 DEF IInv, TablesAreEvents, KeysOf, SucceededIsStored, WideNeverPasses, Within
<1>13. CASE Succeed
  <2>1. stage = "goldTests" /\ stage' = "idle" /\ succeeded' = succeeded \cup {window}
        /\ UNCHANGED <<content, raw, silver>>
    BY <1>13 DEF Succeed
  <2>2. \A s \in Within(window) : content[s] # "none" => s \in KeysOf(raw) /\ s \in silver
    BY <2>1 DEF IInv, InRaw, InSilver, FromSilver, FromSilverTests
  <2>3. \A s \in Within(window) : content[s] # "wide"
    BY <2>1, <2>2 DEF IInv, Tested, FromGold
  <2>4. SucceededIsStored' /\ WideNeverPasses'
    BY <2>1, <2>2, <2>3 DEF IInv, SucceededIsStored, WideNeverPasses, Within, KeysOf
  <2>5. (WindowFinalized /\ InRaw /\ InSilver /\ Tested)'
    BY <2>1 DEF WindowFinalized, InRaw, InSilver, Tested, FromCollect, FromSilver, FromSilverTests, FromGold
  <2> QED
    BY <1>0, <2>1, <2>4, <2>5 DEF IInv, TablesAreEvents, KeysOf
<1>14. CASE UNCHANGED vars
  BY <1>0, <1>14 DEF vars, IInv, TablesAreEvents, KeysOf, WindowFinalized, InRaw, InSilver, Tested,
                     SucceededIsStored, WideNeverPasses, Within
<1> QED
  BY <1>1, <1>3, <1>5, <1>7, <1>8, <1>9, <1>10, <1>11, <1>12, <1>13, <1>14
     DEF Next, Attempt, Finished

(* Every stage finds what the stages before it have established, and successful *)
(* windows stay stored.                                                         *)
THEOREM InvariantHolds == Spec => []IInv
BY InitInvariant, StepInvariant, PTL DEF Spec

-------------------------------------------------------------------------------
(* What holds for windows of every kind. *)

(* The variables keep their types, for every bound on hours, retries and runs. *)
THEOREM TypeCorrect == Spec => []TypeOK
<1>1. IInv => TypeOK
  BY DEF IInv
<1> QED
  BY <1>1, InvariantHolds, PTL

(* run_interval: once a window has succeeded, all its events are in the raw   *)
(* table and in silver and stay there, whatever fails or overlaps afterwards. *)
THEOREM StoredHolds == Spec => []SucceededIsStored
<1>1. IInv => SucceededIsStored
  BY DEF IInv
<1> QED
  BY <1>1, InvariantHolds, PTL

(* usdt_amount_numeric_not_null: no window with a USDT transfer that has no   *)
(* numeric amount ever succeeds.                                              *)
THEOREM WideStops == Spec => []WideNeverPasses
<1>1. IInv => WideNeverPasses
  BY DEF IInv
<1> QED
  BY <1>1, InvariantHolds, PTL

(* write_ethereum_logs_insert_only, as the pipeline uses it: whatever is      *)
(* retried, replayed or overlaps, the raw table is the insert-only log.       *)
THEOREM RawLog == Spec => RawIsInsertOnly
<1>1. Init => Raw!Init
  BY DEF Init, Raw!Init
<1>2. IInv /\ [Next]_vars => [Raw!Insert]_raw
  <2> SUFFICES ASSUME IInv, [Next]_vars PROVE [Raw!Insert]_raw
    OBVIOUS
  <2> USE DEF chain, tables, trigger
  <2>1. ASSUME Insert PROVE Raw!Insert
    <3> DEFINE new == {r \in Rows : r.key \notin KeysOf(raw)}
    <3>1. TypeOK
      BY DEF IInv
    <3>2. new \subseteq Raw!Entries
      BY <3>1, RowsFacts DEF Raw!Entries
    <3>3. \A r \in new, old \in raw : r.key # old.key
      BY DEF KeysOf
    <3>4. Raw!OnePerKey(new)
      BY DEF Rows, Raw!OnePerKey
    <3>5. raw' = raw \cup new
      BY <2>1 DEF Insert
    <3> QED
      BY <3>2, <3>3, <3>4, <3>5 DEF Raw!Insert
  <2>2. CASE Write \/ WriteRaises
    BY <2>1, <2>2 DEF Write, WriteRaises
  <2>3. ASSUME ~(Write \/ WriteRaises) PROVE UNCHANGED raw
    BY <2>3 DEF Next, Attempt, Finished, vars, TimePasses, HeadFinalizes, Schedule, TriggerConf,
                TriggerRecent, StartRun, StartAttempt, Resolve, NotFinalized, Collect, BuildSilver,
                TestSilver, BuildGold, Succeed, ResolveRaises, CollectRaises, DbtRaises, AttemptBreaks
  <2> QED
    BY <2>2, <2>3
<1> QED
  BY <1>1, <1>2, InvariantHolds, PTL DEF Spec, RawIsInsertOnly, Raw!Spec

-------------------------------------------------------------------------------
(* What holds when every window is on the hour: the schedule, and conf windows *)
(* that start on the hour, but no recent_finalized run.                        *)

OnlyHours == ManualKinds \subseteq {"hour"}

(* The window of an hour holds the slots of that hour and no others. *)
LEMMA HourWindowFacts ==
  ASSUME NEW h \in Hours
  PROVE  \A s \in Slots : s \in Within(HourWindow(h)) <=> HourOf(s) = h
<1> SUFFICES ASSUME NEW s \in Slots PROVE s \in Within(HourWindow(h)) <=> HourOf(s) = h
  OBVIOUS
<1>1. s \in Int /\ h \in Int
  BY WindowFacts
<1>2. (2 * h <= s /\ s < 2 * h + 2) <=> s \div 2 = h
  BY <1>1
<1> QED
  BY <1>2 DEF Within, HourWindow, HourOf

(* An even slot starts the window of its hour. *)
LEMMA EvenSlot ==
  ASSUME NEW s \in Slots, s % 2 = 0
  PROVE  [from |-> s, to |-> s + 2] \in HourWindows
<1>1. s \in Int /\ HourOf(s) \in Hours
  BY WindowFacts
<1>2. 2 * (s \div 2) = s
  BY <1>1
<1>3. [from |-> s, to |-> s + 2] = HourWindow(HourOf(s))
  BY <1>2 DEF HourOf, HourWindow
<1> QED
  BY <1>1, <1>3 DEF HourWindows

LEMMA HourInit == Init => HourInv
BY InitInvariant DEF Init, HourInv, OnTheHour, Published, NoPartialHour, SucceededIsPublished

(* A run keeps its window on the hour. *)
LEMMA WindowStep ==
  ASSUME OnlyHours, HourInv, [Next]_vars
  PROVE  stage' # "idle" => kind' # "recent" /\ window' \in HourWindows
<1> USE DEF chain, tables, trigger
<1>0. TypeOK /\ (stage # "idle" => kind # "recent" /\ window \in HourWindows)
  BY DEF HourInv, IInv, OnTheHour
<1>1. CASE Schedule
  <2>1. /\ clock \in Int /\ clock <= 2 * NumHours /\ NumHours \in Int
        /\ lastHour \in Int /\ -1 <= lastHour
    BY <1>0, WindowFacts DEF TypeOK
  <2>2. clock \div 2 \in Int /\ clock \div 2 <= NumHours
    BY <2>1
  <2>3. LatestHour \in Hours
    BY <1>1, <2>1, <2>2 DEF Schedule, LatestHour, Hours
  <2> QED
    BY <1>1, <2>3 DEF Schedule, StartRun, HourWindows
<1>2. CASE TriggerConf
  <2>1. PICK s \in Slots : /\ (IF s % 2 = 0 THEN "hour" ELSE "shifted") \in ManualKinds
                           /\ StartRun("conf", [from |-> s, to |-> s + 2])
    BY <1>2 DEF TriggerConf
  <2>2. s % 2 = 0
    BY <2>1 DEF OnlyHours
  <2> QED
    BY <2>1, <2>2, EvenSlot DEF StartRun
<1>3. CASE TriggerRecent
  BY <1>3 DEF TriggerRecent, OnlyHours
<1>4. CASE StartAttempt
  BY <1>0, <1>4 DEF StartAttempt
<1>5. CASE TimePasses \/ HeadFinalizes \/ UNCHANGED vars
  BY <1>0, <1>5 DEF TimePasses, HeadFinalizes, vars
<1>6. CASE Attempt /\ ~StartAttempt
  <2>1. stage # "idle" /\ UNCHANGED <<kind, window>>
    BY <1>6 DEF Attempt, Resolve, NotFinalized, Collect, Write, BuildSilver, TestSilver, BuildGold,
                Succeed, ResolveRaises, CollectRaises, WriteRaises, DbtRaises, AttemptBreaks
  <2> QED
    BY <1>0, <2>1
<1> QED
  BY <1>1, <1>2, <1>3, <1>4, <1>5, <1>6 DEF Next, Finished

(* A row of the raw table comes from the window of its own hour. *)
LEMMA PayloadStep ==
  ASSUME HourInv, [Next]_vars
  PROVE  \A r \in raw' : r.payload = 2 * HourOf(r.key)
<1> USE DEF chain, tables, trigger
<1>0. TypeOK /\ \A r \in raw : r.payload = 2 * HourOf(r.key)
  BY DEF HourInv, IInv, OnTheHour
<1>1. ASSUME stage = "write", Insert, NEW r \in Rows PROVE r.payload = 2 * HourOf(r.key)
  <2>1. PICK h \in Hours : window = HourWindow(h)
    BY <1>1 DEF HourInv, OnTheHour, HourWindows
  <2>2. r.key \in Within(window) /\ r.payload = window.from
    BY <1>0, RowsFacts
  <2>3. HourOf(r.key) = h
    BY <2>1, <2>2, HourWindowFacts DEF Within
  <2> QED
    BY <2>1, <2>2, <2>3 DEF HourWindow
<1>2. CASE stage = "write" /\ Insert
  BY <1>0, <1>1, <1>2 DEF Insert
<1>3. CASE ~(stage = "write" /\ Insert)
  <2>1. UNCHANGED raw
    BY <1>3 DEF Next, Attempt, Finished, vars, TimePasses, HeadFinalizes, Schedule, TriggerConf,
                TriggerRecent, StartRun, StartAttempt, Resolve, NotFinalized, Collect, Write,
                BuildSilver, TestSilver, BuildGold, Succeed, ResolveRaises, CollectRaises,
                WriteRaises, DbtRaises, AttemptBreaks
  <2> QED
    BY <1>0, <2>1
<1> QED
  BY <1>2, <1>3

(* What building gold does: it writes the row of the window's hour, with every *)
(* treasury transfer of that hour, or nothing if there is none.                *)
LEMMA GoldFacts ==
  ASSUME HourInv, BuildGold
  PROVE  \E h0 \in Hours :
           /\ window = HourWindow(h0)
           /\ \A h \in Hours : h # h0 => gold'[h] = gold[h]
           /\ Flows(h0) = {} => gold'[h0] = gold[h0]
           /\ Flows(h0) # {} => /\ gold'[h0] # None /\ gold'[h0].counted = Flows(h0)
                                /\ gold'[h0].source = 2 * h0
<1>0. TypeOK /\ silver \subseteq KeysOf(raw) /\ silver \subseteq Slots
  BY DEF HourInv, IInv, TablesAreEvents, TypeOK
<1>1. PICK h0 \in Hours : window = HourWindow(h0)
  BY DEF BuildGold, HourInv, OnTheHour, HourWindows
<1>2. \A s \in Slots : s \in Within(window) <=> HourOf(s) = h0
  BY <1>1, HourWindowFacts
<1>3. \A s \in Within(window) : content[s] # "none" => s \in silver
  BY DEF BuildGold, HourInv, IInv, InSilver, FromSilverTests
<1>4. CountedIn(h0) = Flows(h0)
  BY <1>0, <1>2, <1>3 DEF CountedIn, Flows
<1>5. \A h \in Hours : h # h0 => CountedIn(h) = {}
  BY <1>0, <1>2 DEF CountedIn
<1>6. /\ CountedIn(h0) \in SUBSET Slots /\ CountedIn(h0) \subseteq KeysOf(raw)
      /\ \A s \in CountedIn(h0) : HourOf(s) = h0
  BY <1>0 DEF CountedIn
<1>7. \A h \in Hours : gold'[h] = IF CountedIn(h) = {} THEN gold[h] ELSE FlowRow(CountedIn(h))
  BY DEF BuildGold
<1>8. ASSUME Flows(h0) # {}
      PROVE  /\ gold'[h0] # None /\ gold'[h0].counted = Flows(h0) /\ gold'[h0].source = 2 * h0
  <2>1. gold'[h0] = FlowRow(CountedIn(h0))
    BY <1>4, <1>7, <1>8
  <2>2. /\ FlowRow(CountedIn(h0)) # None /\ FlowRow(CountedIn(h0)).counted = CountedIn(h0)
        /\ \E r \in raw : r.key \in CountedIn(h0) /\ FlowRow(CountedIn(h0)).source = r.payload
    BY <1>0, <1>4, <1>6, <1>8, FlowRowFacts
  <2>3. \A r \in raw : r.payload = 2 * HourOf(r.key)
    BY DEF HourInv, OnTheHour
  <2> QED
    BY <1>4, <1>6, <2>1, <2>2, <2>3
<1> QED
  BY <1>1, <1>4, <1>5, <1>7, <1>8

(* With windows on the hour every step keeps published hours whole. *)
LEMMA HourStep == OnlyHours /\ HourInv /\ [Next]_vars => HourInv'
<1> SUFFICES ASSUME OnlyHours, HourInv, [Next]_vars PROVE HourInv'
  OBVIOUS
<1> USE DEF chain, tables, trigger
<1>0. IInv' /\ TypeOK
  BY StepInvariant DEF HourInv, IInv
<1>1. CASE BuildGold
  <2>1. PICK h0 \in Hours :
          /\ window = HourWindow(h0)
          /\ \A h \in Hours : h # h0 => gold'[h] = gold[h]
          /\ Flows(h0) = {} => gold'[h0] = gold[h0]
          /\ Flows(h0) # {} => /\ gold'[h0] # None /\ gold'[h0].counted = Flows(h0)
                               /\ gold'[h0].source = 2 * h0
    BY <1>1, GoldFacts
  <2>2. UNCHANGED <<content, window, succeeded>> /\ stage' = "goldTests"
    BY <1>1 DEF BuildGold
  <2>3. \A h \in Hours : gold'[h] # None => gold'[h].counted = Flows(h) /\ gold'[h].source = 2 * h
    <3>1. \A h \in Hours : gold[h] # None => gold[h].counted = Flows(h) /\ gold[h].source = 2 * h
      BY DEF HourInv, OnTheHour, NoPartialHour
    <3> QED
      BY <2>1, <3>1
  <2>4. NoPartialHour'
    BY <2>2, <2>3 DEF NoPartialHour, Flows
  <2>5. OnTheHour'
    BY <2>3, WindowStep, PayloadStep DEF OnTheHour
  <2>6. Published'
    <3> SUFFICES ASSUME NEW s \in Within(window), content[s] = "flow" PROVE gold'[HourOf(s)] # None
      BY <2>2 DEF Published, Within
    <3>1. s \in Slots /\ HourOf(s) = h0
      BY <2>1, HourWindowFacts DEF Within
    <3>2. s \in Flows(h0)
      BY <3>1 DEF Flows
    <3> QED
      BY <2>1, <3>1, <3>2
  <2>7. SucceededIsPublished'
    <3> SUFFICES ASSUME NEW w \in succeeded, NEW s \in Within(w), content[s] = "flow"
                 PROVE  gold'[HourOf(s)] # None /\ s \in gold'[HourOf(s)].counted
      BY <2>2 DEF SucceededIsPublished, Within
    <3>1. gold[HourOf(s)] # None
      BY DEF HourInv, SucceededIsPublished
    <3>2. s \in Slots /\ HourOf(s) \in Hours
      BY WindowFacts DEF Within
    <3>3. s \in Flows(HourOf(s))
      BY <3>2 DEF Flows
    <3>4. gold'[HourOf(s)] # None
      BY <2>1, <3>1, <3>2
    <3> QED
      BY <2>3, <3>2, <3>3, <3>4
  <2> QED
    BY <1>0, <2>4, <2>5, <2>6, <2>7 DEF HourInv
<1>2. CASE ~BuildGold
  <2>1. UNCHANGED <<content, gold>>
    BY <1>2 DEF Next, Attempt, Finished, vars, TimePasses, HeadFinalizes, Schedule, TriggerConf,
                TriggerRecent, StartRun, StartAttempt, Resolve, NotFinalized, Collect, Write,
                BuildSilver, TestSilver, Succeed, ResolveRaises, CollectRaises, WriteRaises,
                DbtRaises, AttemptBreaks
  <2>2. NoPartialHour'
    BY <2>1 DEF HourInv, NoPartialHour, Flows
  <2>3. OnTheHour'
    BY <2>1, WindowStep, PayloadStep DEF HourInv, OnTheHour
  <2>4. stage' = "goldTests" => UNCHANGED <<stage, window>>
    BY <1>0, <1>2, FailsFacts
       DEF Next, Attempt, Finished, vars, TimePasses, HeadFinalizes, Schedule, TriggerConf,
           TriggerRecent, StartRun, StartAttempt, Resolve, NotFinalized, Collect, Write, BuildSilver,
           TestSilver, Succeed, ResolveRaises, CollectRaises, WriteRaises, DbtRaises, AttemptBreaks, Fails
  <2>5. Published'
    BY <2>1, <2>4 DEF HourInv, Published, Within
  <2>6. SucceededIsPublished'
    <3>1. \A w \in succeeded : \A s \in Within(w) :
            content[s] = "flow" => gold[HourOf(s)] # None /\ s \in gold[HourOf(s)].counted
      BY DEF HourInv, SucceededIsPublished
    <3>2. CASE Succeed
      <4>1. succeeded' = succeeded \cup {window} /\ stage = "goldTests"
        BY <3>2 DEF Succeed
      <4>2. ASSUME NEW s \in Within(window), content[s] = "flow"
            PROVE  gold[HourOf(s)] # None /\ s \in gold[HourOf(s)].counted
        <5>1. gold[HourOf(s)] # None
          BY <4>1, <4>2 DEF HourInv, Published
        <5>2. s \in Slots /\ HourOf(s) \in Hours
          BY WindowFacts DEF Within
        <5>3. s \in Flows(HourOf(s))
          BY <4>2, <5>2 DEF Flows
        <5> QED
          BY <5>1, <5>2, <5>3 DEF HourInv, NoPartialHour
      <4> QED
        BY <2>1, <3>1, <4>1, <4>2 DEF SucceededIsPublished, Within
    <3>3. CASE ~Succeed
      <4>1. UNCHANGED succeeded
        BY <1>2, <3>3
           DEF Next, Attempt, Finished, vars, TimePasses, HeadFinalizes, Schedule, TriggerConf,
               TriggerRecent, StartRun, StartAttempt, Resolve, NotFinalized, Collect, Write, BuildSilver,
               TestSilver, ResolveRaises, CollectRaises, WriteRaises, DbtRaises, AttemptBreaks
      <4> QED
        BY <2>1, <3>1, <4>1 DEF SucceededIsPublished, Within
    <3> QED
      BY <3>2, <3>3
  <2> QED
    BY <1>0, <2>2, <2>3, <2>5, <2>6 DEF HourInv
<1> QED
  BY <1>1, <1>2

(* The invariant of a pipeline whose windows are all on the hour. *)
THEOREM HourInvariant == ASSUME OnlyHours PROVE Spec => []HourInv
<1>1. HourInv /\ [Next]_vars => HourInv'
  BY HourStep
<1> QED
  BY <1>1, HourInit, PTL DEF Spec

(* tether_treasury_flow: with windows on the hour, a gold row counts every     *)
(* treasury transfer of its hour, whatever failed or was run again before.     *)
THEOREM NoHourIsPartial == ASSUME OnlyHours PROVE Spec => []NoPartialHour
<1>1. HourInv => NoPartialHour
  BY DEF HourInv
<1> QED
  BY <1>1, HourInvariant, PTL

(* run_interval and tether_treasury_flow: with windows on the hour, what a     *)
(* successful run published is never taken back.                               *)
THEOREM PublishedForGood == ASSUME OnlyHours PROVE Spec => []SucceededIsPublished
<1>1. HourInv => SucceededIsPublished
  BY DEF HourInv
<1> QED
  BY <1>1, HourInvariant, PTL

(* tether_treasury_flow_quality_summary: with windows on the hour, the summary *)
(* shows the gold rows of the window just built.                               *)
THEOREM SummaryIsRight == ASSUME OnlyHours PROVE Spec => []SummaryShowsWindow
<1>1. HourInv => SummaryShowsWindow
  <2> SUFFICES ASSUME HourInv, stage = "goldTests", NEW s \in Within(window), content[s] = "flow"
               PROVE  window.from <= gold[HourOf(s)].source /\ gold[HourOf(s)].source < window.to
    BY DEF SummaryShowsWindow
  <2>1. PICK h \in Hours : window = HourWindow(h)
    BY DEF HourInv, OnTheHour, HourWindows
  <2>2. s \in Slots /\ HourOf(s) = h /\ h \in Int
    BY <2>1, HourWindowFacts, WindowFacts DEF Within
  <2>3. gold[h].source = 2 * h
    BY <2>2 DEF HourInv, OnTheHour, Published
  <2> QED
    BY <2>1, <2>2, <2>3 DEF HourWindow
<1> QED
  BY <1>1, HourInvariant, PTL

(* tether_treasury_flow: with windows on the hour, a build replaces the        *)
(* results of its own window and of no other.                                  *)
THEOREM ReplacesItsWindow == ASSUME OnlyHours PROVE Spec => OnlyTheWindowIsReplaced
<1>1. HourInv /\ [Next]_vars =>
        [\A h \in Hours : Counted(gold, h) \ Within(window) \subseteq Counted(gold', h)]_vars
  <2> SUFFICES ASSUME HourInv, [Next]_vars, NEW h \in Hours
               PROVE  Counted(gold, h) \ Within(window) \subseteq Counted(gold', h)
    OBVIOUS
  <2>1. CASE BuildGold
    <3>1. PICK h0 \in Hours : /\ window = HourWindow(h0)
                              /\ \A k \in Hours : k # h0 => gold'[k] = gold[k]
      BY <2>1, GoldFacts
    <3>2. CASE h # h0
      BY <3>1, <3>2 DEF Counted
    <3>3. CASE h = h0
      <4>1. Counted(gold, h) \subseteq Flows(h)
        BY DEF Counted, HourInv, NoPartialHour
      <4>2. Flows(h) \subseteq Within(window)
        BY <3>1, <3>3, HourWindowFacts DEF Flows
      <4> QED
        BY <4>1, <4>2
    <3> QED
      BY <3>2, <3>3
  <2>2. CASE ~BuildGold
    <3>1. UNCHANGED gold
      BY <2>2 DEF Next, Attempt, Finished, vars, chain, tables, trigger, TimePasses, HeadFinalizes,
                  Schedule, TriggerConf, TriggerRecent, StartRun, StartAttempt, Resolve, NotFinalized,
                  Collect, Write, BuildSilver, TestSilver, Succeed, ResolveRaises, CollectRaises,
                  WriteRaises, DbtRaises, AttemptBreaks
    <3> QED
      BY <3>1 DEF Counted
  <2> QED
    BY <2>1, <2>2
<1> QED
  BY <1>1, HourInvariant, PTL DEF Spec, OnlyTheWindowIsReplaced

===============================================================================
