------------------------------- MODULE Settings -------------------------------
(***************************************************************************)
(* config.py and provider.py, and the variables ethereum_hourly_logs.py    *)
(* and dbt_project.yml read for themselves: what each reader makes of one  *)
(* and the same environment.                                               *)
(*                                                                         *)
(* A variable is a record: its form is what the readers tell apart, its    *)
(* value the number, path or address it stands for. Floats are counted in  *)
(* tenths. "word" is a text no reader accepts.                             *)
(***************************************************************************)
EXTENDS Integers

Text(form)    == [form |-> form, value |-> 0]
Number(n)     == [form |-> "number", value |-> n]
Unset         == Text("unset")
blank(v)      == v.form \in {"unset", "empty", "spaces"}

\* The built-in path and address.
DefaultPath    == 1
DefaultAddress == 1
Default        == [form |-> "hex", value |-> DefaultAddress]

\* _read_int_with_fallback asks whether the primary is "", _first_non_empty
\* whether it is blank: a primary of spaces hides the fallback of the former.
with_fallback(v)   == IF v.primary.form \in {"unset", "empty"} THEN v.fallback ELSE v.primary
first_non_empty(v) == IF blank(v.primary) THEN v.fallback ELSE v.primary

read(v, default) == IF blank(v) THEN Number(default) ELSE v
ReadsInt(v, default, minimum) ==
  read(v, default).form = "number" /\ read(v, default).value >= minimum

\* float() reads "nan", and no comparison with NaN is true.
below(v, minimum) == v.form = "number" /\ v.value < minimum
ReadsFloat(v, default, minimum) ==
  read(v, default).form \in {"number", "nan"} /\ ~below(read(v, default), minimum)

read_path(v) == IF blank(v) THEN DefaultPath ELSE v.value

\* Mutant: a blank address is read like a blank number.
AddressOrDefault(v) == IF blank(v) THEN Default ELSE v

Address(v) == IF v.form = "unset" THEN Default ELSE v

auth_mode(env) == IF blank(first_non_empty(env.auth)) THEN "none" ELSE first_non_empty(env.auth).form

\* ProviderConfig.from_env; the credentials are those that are not blank.
ProviderAccepted(env) ==
  /\ first_non_empty(env.endpoint).form = "url"        \* neither missing nor the placeholder
  /\ auth_mode(env) \in {"none", "basic", "bearer"}
  /\ auth_mode(env) = "basic" => {"username", "password"} \subseteq env.credentials
  /\ auth_mode(env) = "bearer" => "token" \in env.credentials

\* The scope of eth_getLogs; from and to addresses cannot be configured.
CollectionScope(env) ==
  [chain_id       |-> read(with_fallback(env.chain), 1),
   address_filter |-> IF blank(env.addressFilter) THEN Unset ELSE env.addressFilter,
   topic0         |-> IF env.topic0 = Unset THEN Text("transfer") ELSE env.topic0]

ScopeValid(scope) ==
  scope.chain_id = Number(1) /\ scope.address_filter = Unset /\ scope.topic0 = Text("transfer")

\* _read_collection_scope; a blank mode is no mode, a blank topic0 is another topic.
ScopeAccepted(env) ==
  (blank(env.scopeMode) \/ env.scopeMode.form = "transfer") /\ ScopeValid(CollectionScope(env))

from_env(env) ==
  [chain_id    |-> read(with_fallback(env.chain), 1),
   max_blocks  |-> read(env.maxBlocks, 10),
   timeout     |-> read(with_fallback(env.timeout), 200),
   max_retries |-> read(env.retries, 3),
   rate        |-> read(env.rate, 40),
   delta       |-> read_path(env.delta),
   duckdb      |-> read_path(env.duckdb),
   token       |-> Address(env.token),
   treasury    |-> Address(env.treasury),
   decimals    |-> read(env.decimals, 6)]

SettingsRead(env) ==
  /\ ReadsInt(with_fallback(env.chain), 1, 1)
  /\ ProviderAccepted(env)
  /\ ReadsInt(env.maxBlocks, 10, 1)
  /\ ReadsFloat(with_fallback(env.timeout), 200, 1)
  /\ ReadsInt(env.retries, 3, 0)
  /\ ReadsFloat(env.rate, 40, 1)
  /\ ReadsInt(env.concurrency, 1, 1)
  /\ ScopeAccepted(env)
  /\ ReadsInt(env.decimals, 6, 0)

SettingsValid(env) ==
  /\ from_env(env).max_blocks = Number(10)
  /\ ~(from_env(env).rate.form = "number" /\ from_env(env).rate.value > 40)
  /\ read(env.concurrency, 1) = Number(1)

\* _validate_address: the length and the prefix first, a ConfigError; then int(),
\* whose ValueError nothing turns into one.
AddressError(a) ==
  CASE a.form = "hex"    -> "none"
    [] a.form = "notHex" -> "ValueError"
    [] OTHER             -> "ConfigError"

\* What PipelineSettings.from_env raises.
SettingsError(env) ==
  IF ~SettingsRead(env) \/ ~SettingsValid(env) THEN "ConfigError"
  ELSE IF AddressError(Address(env.token)) # "none" THEN AddressError(Address(env.token))
  ELSE AddressError(Address(env.treasury))

env_var(v, default) == IF v.form = "unset" THEN default ELSE v

\* Mutant: run_dbt_build hands its own environment on.
BuildEnvInherited(env) ==
  [delta    |-> env_var(env.delta, Number(DefaultPath)).value,
   duckdb   |-> env_var(env.duckdb, Number(DefaultPath)).value,
   token    |-> env_var(env.token, Default),
   treasury |-> env_var(env.treasury, Default),
   decimals |-> env_var(env.decimals, Number(6)).value]

\* What the dbt process works with: the two paths come from the settings, the rest
\* dbt_project.yml reads from the environment, where only an unset variable has a
\* default and the int filter makes 0 of a text that is no number.
BuildEnv(env) ==
  [delta    |-> from_env(env).delta,
   duckdb   |-> from_env(env).duckdb,
   token    |-> env_var(env.token, Default),
   treasury |-> env_var(env.treasury, Default),
   decimals |-> env_var(env.decimals, Number(6)).value]

===============================================================================
