------------------------------ MODULE MCEvidence ------------------------------
(* The chains, the windows and the leftover pairs that TLC takes for Evidence.   *)
EXTENDS Evidence, TLC

Chain(logs) == [s \in Slots |-> logs[s + 1]]

MCContents ==
  {Chain(<<"flow", "none", "token", "none", "other", "none">>),
   Chain(<<"token", "none", "none", "none", "flow", "none">>)}

Window(a, b) == [from |-> a, to |-> b]

\* Two whole hours, a window of a run's conf off the hour and a recent one.
MCTriggered == {Window(2, 4), Window(4, 6), Window(1, 3), Window(0, 1)}

\* n rows of each key, labelled with the start of its hour.
Copied(keys, n) == {[key |-> k, label |-> 2 * HourOf(k), copy |-> c] : k \in keys, c \in 0..(n - 1)}

Pair(s, rows, si, go) ==
  [there |-> TRUE, schema |-> s, raw |-> rows, silver |-> si, gold |-> go,
   windows |-> {Window(l, l + 2) : l \in Labels(rows)}]

MCLeftovers ==
  {Missing,
   Pair("extra", Copied({0, 4}, 1), {0, 4}, {0}),
   Pair("legacy", Copied({0}, 2), {0}, {0}),
   Pair("text", Copied({0}, 1), {0}, {}),
   Pair("unreadable", {}, {}, {})}

MCBatches == {{}, Copied({2}, 2), Copied({2, 4}, 1)}
===============================================================================
