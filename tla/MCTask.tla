-------------------------------- MODULE MCTask --------------------------------
(* Environments for Task, an ordinary one and those that differ from it in one  *)
(* or two variables, and triggers: scheduled, manual, and with a conf whose     *)
(* bounds are present or not, times or not, an hour apart or not; the data      *)
(* interval is Airflow's hour, or one that was given with the run.              *)
EXTENDS Task

Pair(p, f) == [primary |-> p, fallback |-> f]
Neither == Pair(Unset, Unset)

Ordinary ==
  [chain |-> Neither, endpoint |-> Pair(Text("url"), Unset), auth |-> Neither, credentials |-> {},
   maxBlocks |-> Unset, timeout |-> Neither, retries |-> Unset, rate |-> Unset, concurrency |-> Unset,
   delta |-> Unset, duckdb |-> Unset, scopeMode |-> Unset, addressFilter |-> Unset, topic0 |-> Unset,
   token |-> Unset, treasury |-> Unset, decimals |-> Unset,
   manualMode |-> Unset, recentWindow |-> Unset, recentLag |-> Unset]

Blanks  == {Text("empty"), Text("spaces")}
Odd     == Blanks \cup {Text("word"), Text("nan")}
Pairs(S) == {Pair(p, f) : p \in {Unset} \cup Blanks, f \in S}

Refusable ==
  {[Ordinary EXCEPT !.chain = v] : v \in Pairs({Number(1), Number(5), Text("word")})}
  \cup {[Ordinary EXCEPT !.endpoint = v] : v \in Pairs({Text("url"), Text("placeholder")})}
  \cup {[Ordinary EXCEPT !.auth = v, !.credentials = c] :
          v \in {Pair(Text(a), Unset) : a \in {"basic", "bearer", "word"}},
          c \in {{}, {"username", "password"}, {"username", "token"}}}
  \cup {[Ordinary EXCEPT !.maxBlocks = v] : v \in Odd \cup {Number(9), Number(10), Number(11)}}
  \cup {[Ordinary EXCEPT !.timeout = v] : v \in Pairs({Number(0), Text("nan")})}
  \cup {[Ordinary EXCEPT !.retries = v] : v \in Odd \cup {Number(-1), Number(0)}}
  \cup {[Ordinary EXCEPT !.rate = v] : v \in Odd \cup {Number(0), Number(1), Number(40), Number(41)}}
  \cup {[Ordinary EXCEPT !.concurrency = v] : v \in Odd \cup {Number(1), Number(2)}}
  \cup {[Ordinary EXCEPT !.scopeMode = v] : v \in Blanks \cup {Text("transfer"), Text("word")}}
  \cup {[Ordinary EXCEPT !.addressFilter = v] : v \in Blanks \cup {Text("word")}}
  \cup {[Ordinary EXCEPT !.topic0 = v] : v \in Blanks \cup {Text("transfer"), Text("word")}}

Paths     == {Unset, Text("spaces"), [form |-> "path", value |-> 2]}
AddressTexts == {Unset, Text("empty"), Text("notHex"), [form |-> "hex", value |-> 2]}

TwoReaders ==
  {[Ordinary EXCEPT !.delta = d, !.duckdb = u] :
     d \in Paths, u \in {Unset, [form |-> "path", value |-> 3]}}
  \cup {[Ordinary EXCEPT !.token = t, !.treasury = r] :
          t \in AddressTexts, r \in {Unset, Text("notHex")}}
  \cup {[Ordinary EXCEPT !.decimals = v] : v \in Odd \cup {Number(-1), Number(2)}}

Modes ==
  {[Ordinary EXCEPT !.manualMode = v] :
     v \in Blanks \cup {Text("word"), Text("data_interval")}}
  \cup {[Ordinary EXCEPT !.manualMode = Text("recent_finalized"), !.recentWindow = w, !.recentLag = l] :
          w \in {Unset, Text("word"), Number(0)}, l \in {Unset, Number(-1)}}

MCEnvironments == Refusable \cup TwoReaders \cup Modes

Conf(start, end) == [manual |-> TRUE, interval |-> Window(0, 2), start |-> start, end |-> end]

MCTriggers ==
  {[Conf(Unset, Unset) EXCEPT !.manual = FALSE], Conf(Unset, Unset),
   [Conf(Unset, Unset) EXCEPT !.interval = Window(0, 1)],
   Conf(Number(1), Number(3)), Conf(Number(0), Number(1)), Conf(Number(2), Number(0)),
   Conf(Number(0), Unset), Conf(Unset, Number(2)),
   Conf(Text("word"), Text("naive")), Conf(Number(0), Text("naive"))}

===============================================================================
