----------------------------- MODULE InsertOnlyLog -----------------------------
(***************************************************************************)
(* What the raw table promises, whoever writes to it: a log that only      *)
(* grows, with one row for each natural key. The first row of a key stays; *)
(* a batch appears in one step or not at all.                              *)
(***************************************************************************)
CONSTANTS Keys, Payloads

VARIABLE log

Entries == [key : Keys, payload : Payloads]

OnePerKey(s) == \A e1, e2 \in s : e1.key = e2.key => e1 = e2

Init == log = {}

Insert ==
  \E new \in SUBSET Entries :
    /\ \A e \in new, old \in log : e.key # old.key
    /\ OnePerKey(new)
    /\ log' = log \cup new

Spec == Init /\ [][Insert]_log

===============================================================================
