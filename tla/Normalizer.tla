------------------------------ MODULE Normalizer ------------------------------
(***************************************************************************)
(* log_normalizer.py and what checks its rows again: the uint256 contract  *)
(* of the Delta writer. An element of an eth_getLogs answer is a record of *)
(* the distinctions these functions make: what int(..., 16) and the prefix *)
(* test say of its hex strings, which topics it has, and what the data is. *)
(* A number is its value, a decimal text the sequence of its digits.       *)
(*                                                                         *)
(* Python's int() takes more than hex digits: "0x1_0" is a number to it.   *)
(* Such data of 66 characters ("lenient") is decoded as a uint256 word.    *)
(***************************************************************************)
EXTENDS Integers, Sequences, SequencesExt

CONSTANTS Digits,      \* digits of the SQL numeric type (38)
          Precision    \* digits a Python Decimal keeps in a division (28)

ASSUME NormalizerAssumption == Digits \in Nat \ {0} /\ Precision \in Nat \ {0}

\* 10^n; written out, because a proof can unfold it.
TenTo[n \in Nat] == IF n = 0 THEN 1 ELSE 10 * TenTo[n - 1]

DECIMAL38_MAX == TenTo[Digits] - 1

BlockNumbers == {"hex", "noPrefix", "notHex", "notString"}
DataForms    == {"word", "lenient", "otherLength", "notHex"}
TopicForms   == {"transfer", "withTokenId", "few", "notHex"}

\* str() of a non-negative int.
DecimalText[n \in Nat] ==
  IF n < 10 THEN <<n>> ELSE Append(DecimalText[n \div 10], n % 10)

\* The number a decimal text denotes: the reference for everything done to texts.
Denoted(text) == FoldLeft(LAMBDA n, d : 10 * n + d, 0, text)

required_hex(form) == form # "notHex"
is_uint256_word(data) == data.form \in {"word", "lenient"}

decode_uint256_data_raw(data) ==
  IF ~is_uint256_word(data)
    THEN [text |-> <<>>, status |-> "NOT_UINT256_WORD"]
    ELSE [text   |-> DecimalText[data.value],
          status |-> IF data.value <= DECIMAL38_MAX THEN "DECIMAL38_AVAILABLE"
                     ELSE "OUTSIDE_DECIMAL38_RANGE"]

\* amount_with_decimals, in units of the last decimal place: the division rounds half
\* to even.
amount_with_decimals(n) ==
  LET unit == TenTo[IF Len(DecimalText[n]) > Precision THEN Len(DecimalText[n]) - Precision ELSE 0]
      up   == (2 * (n % unit)) + ((n \div unit) % 2) > unit
  IN  unit * ((n \div unit) + (IF up THEN 1 ELSE 0))

\* What normalize_log raises on; topics or data that are missing are no error.
malformed(log) ==
  \/ log.blockNumber # "hex"
  \/ ~required_hex(log.topics)
  \/ ~required_hex(log.data.form)
  \/ log.fields = "bad"

\* removed is kept when it is a bool, else it is null, which SQL takes for false.
normalize_log(log) ==
  [key |-> log.key, window |-> log.window, token |-> log.token, from |-> log.from, to |-> log.to,
   topics |-> log.topics, data |-> log.data, removed |-> log.removed = TRUE,
   text |-> decode_uint256_data_raw(log.data).text,
   status |-> decode_uint256_data_raw(log.data).status]

\* Mutant: a malformed log is skipped and not counted.
NormalizeSkipping(logs) ==
  [rows |-> {normalize_log(log) : log \in {l \in logs : ~malformed(l)}}, invalid |-> {}]

normalize_logs(logs) ==
  [rows    |-> {normalize_log(log) : log \in {l \in logs : ~malformed(l)}},
   invalid |-> {l \in logs : malformed(l)}]

\* _is_canonical_non_negative_decimal_text
canonical(text) == text # <<>> /\ (Head(text) # 0 \/ Len(text) = 1)

\* _validate_uint256_contract: the writer decodes data_raw again.
uint256_contract(row) ==
  /\ decode_uint256_data_raw(row.data) = [text |-> row.text, status |-> row.status]
  /\ row.status # "NOT_UINT256_WORD" =>
       /\ canonical(row.text)
       /\ (Denoted(row.text) <= DECIMAL38_MAX) = (row.status = "DECIMAL38_AVAILABLE")

===============================================================================
