-------------------------------- MODULE RowPath --------------------------------
(***************************************************************************)
(* What becomes of one log between the provider's answer and a total in    *)
(* the gold model: the client drops what is no object, block timestamps    *)
(* are looked up by block number, the normalizer turns logs into rows, the *)
(* writer checks them, silver picks the ERC-20 transfers and types their   *)
(* amounts, tests run on it, gold adds up, tests run on that.              *)
(*                                                                         *)
(* Each run has a window of its own; replays and overlaps are Pipeline's   *)
(* and DeltaWriter's. Between runs the operator may change the token, the  *)
(* treasury or the decimals (docker-compose, .env): rows stored before the *)
(* change stay as they were built, and the tests look at all of them.      *)
(* Scripts and notebooks decode transfers of an answer for themselves.     *)
(***************************************************************************)
EXTENDS Normalizer, FiniteSets

CONSTANTS TETHER_TREASURY_ADDRESS,
          Tokens, Addresses, Values, Decimals,  \* what a log or the settings may hold
          MaxRuns, MaxLogs,                     \* bounds: runs; elements of all answers
  Null                                  \* SQL null

Configs == [token : Tokens, treasury : Addresses, decimals : Decimals]

ASSUME RowPathAssumption ==
  /\ Decimals \subseteq 0..Digits /\ Values \subseteq Nat
  /\ MaxRuns \in Nat /\ MaxLogs \in Nat /\ Null \notin Int
  /\ TETHER_TREASURY_ADDRESS \in Addresses
  /\ Tokens # {} /\ Values # {} /\ Addresses # {TETHER_TREASURY_ADDRESS}

VARIABLES
  config,               \* the settings of the next run
  stage,
  received, configs,    \* history: each run's answer, and its settings
  rows,                 \* the run's normalized rows
  raw, silver, gold,    \* the tables
  sample,               \* what a script made of the latest answer
  failure               \* class of the exception the latest run ended with

history == <<received, configs, sample>>
tables  == <<raw, silver, gold>>
vars    == <<config, stage, history, rows, tables, failure>>

Window == Len(received)
Settings == configs[Window]

-------------------------------------------------------------------------------
(* The elements of an answer. *)

Transfer(t, f, o, v) ==
  [key |-> 0, window |-> 0, isObject |-> TRUE, blockNumber |-> "hex", fields |-> "hex",
   topics |-> "transfer", data |-> [form |-> "word", value |-> v], removed |-> FALSE,
   token |-> t, from |-> f, to |-> o]

Transfers == {Transfer(t, f, o, v) : t \in Tokens, f \in Addresses, o \in Addresses, v \in Values}

\* One thing is wrong, or different, with an otherwise ordinary transfer.
Odd(x) ==
  {[x EXCEPT !.isObject = FALSE], [x EXCEPT !.fields = "bad"], [x EXCEPT !.removed = TRUE]}
  \cup {[x EXCEPT !.blockNumber = b] : b \in BlockNumbers}
  \cup {[x EXCEPT !.topics = t] : t \in TopicForms}
  \cup {[x EXCEPT !.data.form = d] : d \in DataForms}

Elements == Transfers \cup Odd(CHOOSE x \in Transfers : x.from # x.to)

\* Natural keys are given in the order of arrival; window says which run's block range
\* the block number is in.
Used == Cardinality(UNION Range(received))
Answer(f) == {[f[k] EXCEPT !.key = k, !.window = Window + 1] : k \in DOMAIN f}

-------------------------------------------------------------------------------
Init ==
  /\ config \in Configs
  /\ stage = "idle"
  /\ received = <<>> /\ configs = <<>> /\ sample = Null
  /\ rows = {}
  /\ raw = {} /\ silver = {} /\ gold = {}
  /\ failure = "none"

GoesOn(s) == stage' = s /\ UNCHANGED failure
Fails(e)  == stage' = "idle" /\ failure' = e

ChangeConfig ==
  /\ stage = "idle" /\ Window \in 1..(MaxRuns - 1)
  /\ config' \in Configs \ {config}
  /\ UNCHANGED <<stage, history, rows, tables, failure>>

Receive ==
  /\ stage = "idle" /\ Window < MaxRuns
  /\ \E n \in 0..(MaxLogs - Used) : \E f \in [Used + 1..Used + n -> Elements] :
       received' = Append(received, Answer(f))
  /\ configs' = Append(configs, config)
  /\ stage' = "timestamps" /\ failure' = "none" /\ sample' = Null
  /\ UNCHANGED <<config, rows, tables>>

\* eth_get_logs keeps the objects.
Logs(w) == {e \in received[w] : e.isObject}

\* _load_block_timestamps: a string that is no number is a ValueError; one without
\* the prefix is looked up like the others.
LoadTimestamps ==
  /\ stage = "timestamps"
  /\ IF \E log \in Logs(Window) : log.blockNumber = "notHex"
       THEN Fails("ValueError") ELSE GoesOn("normalize")
  /\ UNCHANGED <<config, history, rows, tables>>

Normalize ==
  /\ stage = "normalize"
  /\ LET result == normalize_logs(Logs(Window))
     IN  /\ rows' = result.rows
         /\ IF result.invalid # {} THEN Fails("NormalizationError") ELSE GoesOn("write")
  /\ UNCHANGED <<config, history, tables>>

Write ==
  /\ stage = "write"
  /\ IF \A row \in rows : uint256_contract(row)
       THEN raw' = raw \cup rows /\ GoesOn("silver")
       ELSE Fails("DeltaWriteError") /\ UNCHANGED raw
  /\ UNCHANGED <<config, history, rows, silver, gold>>

-------------------------------------------------------------------------------
(* Silver: erc20_transfers *)

Zeros(n) == [i \in 1..n |-> 0]

\* Mutant: the zeros are padded on the right.
ShiftPadded(text, d) ==
  IF Len(text) <= d
    THEN [whole |-> <<0>>, frac |-> text \o Zeros(d - Len(text))]
    ELSE [whole |-> SubSeq(text, 1, Len(text) - d), frac |-> SubSeq(text, Len(text) - d + 1, Len(text))]

\* The decimal point moves d digits to the left.
Shift(text, d) ==
  IF Len(text) <= d
    THEN [whole |-> <<0>>, frac |-> Zeros(d - Len(text)) \o text]
    ELSE [whole |-> SubSeq(text, 1, Len(text) - d), frac |-> SubSeq(text, Len(text) - d + 1, Len(text))]

\* try_cast to DECIMAL(38, d), in units of the last of the d places.
Cast(amount, d) ==
  IF Len(amount.whole) > Digits - d /\ amount.whole # <<0>> THEN Null
  ELSE Denoted(amount.whole) * TenTo[d] + Denoted(amount.frac) * TenTo[d - Len(amount.frac)]

IsTransfer(row) ==
  /\ row.topics = "transfer"       \* topic1 and topic2 decode to addresses, topic3 is null
  /\ row.status # "NOT_UINT256_WORD"
  /\ ~row.removed

\* Mutant: the amount is typed whatever token it is of.
TypedForAll(row) ==
  [key |-> row.key, window |-> row.window, token |-> row.token, from |-> row.from, to |-> row.to,
   clean |-> row.data.form = "word", text |-> row.text, status |-> row.status,
   raw_amount_decimal |-> IF row.status = "DECIMAL38_AVAILABLE" THEN Denoted(row.text) ELSE Null,
   amount_usdt |->
     IF row.status = "DECIMAL38_AVAILABLE"
       THEN Cast(Shift(row.text, Settings.decimals), Settings.decimals) ELSE Null]

Typed(row) ==
  [key |-> row.key, window |-> row.window, token |-> row.token, from |-> row.from, to |-> row.to,
   clean |-> row.data.form = "word", text |-> row.text, status |-> row.status,
   raw_amount_decimal |-> IF row.status = "DECIMAL38_AVAILABLE" THEN Denoted(row.text) ELSE Null,
   amount_usdt |->
     IF row.status = "DECIMAL38_AVAILABLE" /\ row.token = Settings.token
       THEN Cast(Shift(row.text, Settings.decimals), Settings.decimals) ELSE Null]

BuildSilver ==
  /\ stage = "silver"
  /\ silver' = silver \cup {Typed(row) : row \in {r \in raw : r.window = Window /\ IsTransfer(r)}}
  /\ GoesOn("silverTests")
  /\ UNCHANGED <<config, history, rows, raw, gold>>

-------------------------------------------------------------------------------
(* The tests on raw and silver; each looks at the whole table. *)

ethereum_logs_uint256_contract ==
  \A r \in raw :
    IF r.status = "NOT_UINT256_WORD" THEN r.text = <<>>
    ELSE canonical(r.text) /\ (Len(r.text) <= Digits) = (r.status = "DECIMAL38_AVAILABLE")

erc20_transfer_integrity == \A r \in silver : r.clean /\ canonical(r.text)

erc20_amount_numeric_status_integrity ==
  \A r \in silver :
    /\ (r.status = "DECIMAL38_AVAILABLE") = (r.raw_amount_decimal # Null)
    /\ (r.status = "DECIMAL38_AVAILABLE") = (Len(r.text) <= Digits)

usdt_amount_numeric_not_null ==
  \A r \in silver :
    r.token = Settings.token => r.raw_amount_decimal # Null /\ r.amount_usdt # Null

non_usdt_amount_usdt_null == \A r \in silver : r.token # Settings.token => r.amount_usdt = Null

SilverTestsHold ==
  /\ ethereum_logs_uint256_contract
  /\ erc20_transfer_integrity /\ erc20_amount_numeric_status_integrity
  /\ usdt_amount_numeric_not_null /\ non_usdt_amount_usdt_null

TestSilver ==
  /\ stage = "silverTests"
  /\ IF SilverTestsHold THEN GoesOn("gold") ELSE Fails("DbtBuildError")
  /\ UNCHANGED <<config, history, rows, tables>>

-------------------------------------------------------------------------------
(* Gold: tether_treasury_flow *)

TreasuryTransfers ==
  {r \in silver :
     /\ r.window = Window
     /\ r.token = Settings.token
     /\ r.status = "DECIMAL38_AVAILABLE" /\ r.raw_amount_decimal # Null /\ r.amount_usdt # Null
     /\ Settings.treasury \in {r.from, r.to} /\ r.from # r.to}

Direction(r) == IF r.to = Settings.treasury THEN "INFLOW" ELSE "OUTFLOW"

Flow(dir) ==
  LET rs == {r \in TreasuryTransfers : Direction(r) = dir}
  IN  [window |-> Window, token |-> Settings.token, treasury |-> Settings.treasury,
       direction |-> dir, transfer_count |-> Cardinality(rs),
       total_amount_raw |-> SumFunction([r \in rs |-> r.raw_amount_decimal]),
       total_amount_usdt |-> SumFunction([r \in rs |-> r.amount_usdt])]

\* Mutant: a direction that adds up to nothing is left out.
PositiveFlows == {f \in {Flow(dir) : dir \in {"INFLOW", "OUTFLOW"}} : f.total_amount_raw > 0}

Flows == {f \in {Flow(dir) : dir \in {"INFLOW", "OUTFLOW"}} : f.transfer_count > 0}

\* A total that DECIMAL(38, 0) cannot hold: DuckDB fails the query, or holds it in
\* the wider integer it adds up in.
BuildGold ==
  /\ stage = "gold"
  /\ \/ gold' = gold \cup Flows /\ GoesOn("goldTests")
     \/ /\ \E f \in Flows : f.total_amount_raw > DECIMAL38_MAX
        /\ Fails("DbtBuildError") /\ UNCHANGED gold
  /\ UNCHANGED <<config, history, rows, raw, silver>>

treasury_flow_integrity ==
  \A f \in gold :
    /\ f.token = Settings.token /\ f.treasury = Settings.treasury
    /\ f.transfer_count > 0 /\ f.total_amount_raw >= 0 /\ f.total_amount_usdt >= 0

TestGold ==
  /\ stage = "goldTests"
  /\ IF treasury_flow_integrity THEN stage' = "idle" /\ failure' = "none"
     ELSE Fails("DbtBuildError")
  /\ UNCHANGED <<config, history, rows, tables>>

-------------------------------------------------------------------------------
(* The smoke script decodes the first transfer and counts those of the treasury, *)
(* notebook 02 decodes the transfers of one token, notebook 03 those it has       *)
(* normalized. What they cannot decode ends them.                                 *)

TransferLogs == {e \in Logs(Window) : e.topics \in {"transfer", "withTokenId", "few"}}

\* _decode_transfer_sample, the cells of the notebooks.
smoke_sample      == {e \in TransferLogs : \A other \in TransferLogs : e.key <= other.key}
notebook02(token) == {e \in TransferLogs : e.token = token}
notebook03        == {e \in TransferLogs : ~malformed(e)}

\* Mutant: a transfer from the treasury is not counted.
CountReceived ==
  Cardinality({e \in TransferLogs : e.topics # "few" /\ e.to = TETHER_TREASURY_ADDRESS})

count_treasury_samples ==
  Cardinality({e \in TransferLogs : e.topics # "few" /\ TETHER_TREASURY_ADDRESS \in {e.from, e.to}})

decodable(logs) == \A e \in logs : is_uint256_word(e.data)

Amounts(logs) ==
  {[key |-> e.key, raw |-> e.data.value, amount |-> amount_with_decimals(e.data.value)] : e \in logs}

Nothing == [treasury |-> Null, amounts |-> {}]

SmokeSample ==
  \/ /\ decodable(smoke_sample)
     /\ \A e \in Logs(Window) : e.blockNumber \in {"hex", "noPrefix"}
     /\ sample' = [treasury |-> count_treasury_samples,
                   amounts  |-> {[a EXCEPT !.amount = Null] : a \in Amounts(smoke_sample)}]
  \/ (~decodable(smoke_sample) \/ \E e \in Logs(Window) : malformed(e)) /\ sample' = Nothing

Notebook02Sample ==
  \E token \in Tokens :
    \/ /\ decodable(notebook02(token))
       /\ \A e \in notebook02(token) : e.topics # "few" /\ e.blockNumber # "notHex"
       /\ sample' = [Nothing EXCEPT !.amounts = Amounts(notebook02(token))]
    \/ /\ \/ ~decodable(notebook02(token))
          \/ \E e \in Logs(Window) : malformed(e) \/ e.topics = "few"
       /\ sample' = Nothing

Notebook03Sample ==
  sample' = IF decodable(notebook03) THEN [Nothing EXCEPT !.amounts = Amounts(notebook03)] ELSE Nothing

TakeSample ==
  /\ stage = "idle" /\ Window > 0 /\ sample = Null
  /\ SmokeSample \/ Notebook02Sample \/ Notebook03Sample
  /\ UNCHANGED <<config, stage, received, configs, rows, tables, failure>>

-------------------------------------------------------------------------------
Finished == stage = "idle" /\ Window = MaxRuns /\ UNCHANGED vars

Next ==
  \/ ChangeConfig \/ Receive \/ LoadTimestamps \/ Normalize \/ Write
  \/ BuildSilver \/ TestSilver \/ BuildGold \/ TestGold
  \/ TakeSample
  \/ Finished

Spec == Init /\ [][Next]_vars

-------------------------------------------------------------------------------
\* What the provider's answer says, told apart without the pipeline's own decoding.
WellFormed(e) == e.isObject /\ ~malformed(e)
IsAmount(e) == e.topics = "transfer" /\ e.data.form \in {"word", "lenient"} /\ ~e.removed

\* From the answer to the gold row: a window that reached gold holds, per direction,
\* the number and the exact sum of the treasury's transfers of the configured token
\* in the provider's answer, and no row for a direction without one.
Counted(w, dir) ==
  {e \in received[w] :
     /\ WellFormed(e) /\ IsAmount(e)
     /\ e.token = configs[w].token /\ e.from # e.to
     /\ IF dir = "INFLOW" THEN e.to = configs[w].treasury ELSE e.from = configs[w].treasury}

GoldIsExact ==
  \A f \in gold :
    LET es == Counted(f.window, f.direction)
        sum == SumFunction([e \in es |-> e.data.value])
    IN  /\ f.transfer_count = Cardinality(es)
        /\ f.total_amount_raw = sum /\ f.total_amount_usdt = sum

\* A window that ended without a failure lacks nothing the provider sent as an
\* object: every transfer of the treasury is in a gold row.
SucceededIsCounted ==
  stage = "idle" /\ Window > 0 /\ failure = "none" =>
    \A dir \in {"INFLOW", "OUTFLOW"} :
      Counted(Window, dir) # {} => \E f \in gold : f.window = Window /\ f.direction = dir

\* All or nothing: an answer with a malformed log stores none of its logs, so that
\* what is stored of a window is every object of its answer.
StoredIsWhole ==
  \A w \in 1..Window :
    LET keys == {r.key : r \in {r \in raw : r.window = w}}
    IN  keys # {} => keys = {e.key : e \in Logs(w)} /\ \A e \in Logs(w) : ~malformed(e)

\* The docstring of run_interval: if anything in an answer is not valid by the source
\* schema, nothing goes on to Delta and dbt. It does not hold: eth_get_logs drops what
\* is no object, and only what it returns is counted.
InvalidStoresNothing ==
  \A w \in 1..Window : (\E e \in received[w] : ~WellFormed(e)) => \A r \in raw : r.window # w

\* The tests stop a build only for something the tables hold: an amount of the
\* configured token beyond the SQL type, data only Python takes for hex, a total
\* beyond the type, or rows built before the settings changed.
DbtFailsForCause ==
  failure = "DbtBuildError" =>
    \/ \E r \in raw : r.token = Settings.token /\ IsTransfer(r) /\ r.data.value > DECIMAL38_MAX
    \/ \E r \in raw : r.data.form = "lenient"
    \/ \E f \in Flows : f.total_amount_raw > DECIMAL38_MAX
    \/ \E w \in 1..Window : configs[w] # Settings

\* Two decoders of one answer: an amount a script has decoded is the amount in silver,
\* up to the digits a Python division keeps, and the treasury transfers counted in gold
\* are among those the smoke script counted, unless another treasury is configured.
SamplesAgree ==
  sample # Null =>
    /\ \A a \in sample.amounts, r \in silver :
         r.key = a.key /\ r.raw_amount_decimal # Null =>
           /\ a.raw = r.raw_amount_decimal
           /\ Null \notin {a.amount, r.amount_usdt} /\ Len(r.text) <= Precision =>
                a.amount = r.amount_usdt
    /\ sample.treasury # Null /\ TETHER_TREASURY_ADDRESS = Settings.treasury =>
         SumFunction([f \in {f \in gold : f.window = Window} |-> f.transfer_count]) <= sample.treasury

===============================================================================
