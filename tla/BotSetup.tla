------------------------------- MODULE BotSetup -------------------------------
(* What a create_bot command comes to: the credentials and the environment     *)
(* StartBot works out for the bot (internal/process/manager.go,                *)
(* internal/crypto/aes.go), and what the runner (sdk/clawquant/runner.py)      *)
(* reads from that environment.  Nothing here has state of its own; BotManager *)
(* has the protocol around it, in which StartBot fails or goes on.             *)
(*                                                                             *)
(* A function that may fail returns the set of its results, with one element   *)
(* or none.                                                                    *)
EXTENDS Sequences

CONSTANTS
    Words,        \* what texts consist of, with no white space around them
    Nothing,      \* the word of a blank text
    sdkDir, botDir,
    Inherited,    \* environments the agent may have; os.Environ names none twice
    CreateBots    \* the commands the platform sends

ASSUME NothingAssumption == Nothing \notin Words

(* A text, and whether there is white space around it.                         *)
Text == [word : Words \cup {Nothing}, padded : BOOLEAN]
Empty == [word |-> Nothing, padded |-> FALSE]
TrimSpace(t) == [word |-> t.word, padded |-> FALSE]
IsBlank(t) == TrimSpace(t) = Empty

(* Encrypted fields; "broken" is what is not base64, too short or tampered with.*)
Ciphertext == [form : {"blank", "broken", "sealed"}, plain : Text, password : Text]

Exchange == [type : Text, apiKey : Text, secret : Text, encryptedAPIKey : Ciphertext,
             encryptedSecret : Ciphertext, tradingPair : Text, testnet : BOOLEAN]

(* "value": JSON, but not an object.                                           *)
Params == {"blank", "empty object", "object", "value", "not JSON"}
CreateBot == [botID : Text, strategyCode : Text, params : Params,
              encryptionKey : Text, exchange : Exchange]

ASSUME CreateBotsAssumption == CreateBots \subseteq CreateBot
ASSUME InheritedAssumption ==
    \A env \in Inherited : DOMAIN env \subseteq STRING /\ \A k \in DOMAIN env : env[k] \in Text

-------------------------------------------------------------------------------
(* Credentials                                                                 *)

(* AES-GCM opens what was sealed with the same password, and nothing else.     *)
Decrypt(c, password) ==
    IF ~IsBlank(password) /\ c.form = "sealed" /\ c.password = password
    THEN {c.plain} ELSE {}

resolveEncryptionKey(commandKey, envKey) ==
    IF ~IsBlank(commandKey) THEN {commandKey}
    ELSE {k \in {TrimSpace(envKey)} : k # Empty}

(* Seeded fault: half a plain pair does not keep from decrypting the other.    *)
PlainWhole(x) == ~IsBlank(x.apiKey) /\ ~IsBlank(x.secret)
PlainGiven(x) == ~IsBlank(x.apiKey) \/ ~IsBlank(x.secret)

resolveExchangeCredentials(x, commandKey, envKey) ==
    IF PlainGiven(x)
    THEN {pair \in {<<TrimSpace(x.apiKey), TrimSpace(x.secret)>>} :
             pair[1] # Empty /\ pair[2] # Empty}
    ELSE UNION {Decrypt(x.encryptedAPIKey, k) \X Decrypt(x.encryptedSecret, k) :
                    k \in resolveEncryptionKey(commandKey, envKey)}

-------------------------------------------------------------------------------
(* The environment                                                             *)

normalizeParams(p) == IF p = "blank" THEN "empty object" ELSE p
boolToFlag(b) == IF b THEN "1" ELSE "0"

OwnVariables ==
    {"PYTHONPATH", "CLAWQUANT_BOT_ID", "CLAWQUANT_EXCHANGE_TYPE", "CLAWQUANT_API_KEY",
     "CLAWQUANT_SECRET", "CLAWQUANT_TRADING_PAIR", "CLAWQUANT_PARAMS",
     "CLAWQUANT_DATA_DIR", "CLAWQUANT_TESTNET"}

PythonPath(env) ==
    IF "PYTHONPATH" \in DOMAIN env /\ ~IsBlank(env["PYTHONPATH"])
    THEN <<sdkDir, TrimSpace(env["PYTHONPATH"])>> ELSE <<sdkDir>>

Own(cmd, credentials) ==
    [CLAWQUANT_BOT_ID |-> cmd.botID,
     CLAWQUANT_EXCHANGE_TYPE |-> cmd.exchange.type,
     CLAWQUANT_API_KEY |-> credentials[1],
     CLAWQUANT_SECRET |-> credentials[2],
     CLAWQUANT_TRADING_PAIR |-> cmd.exchange.tradingPair,
     CLAWQUANT_PARAMS |-> normalizeParams(cmd.params),
     CLAWQUANT_DATA_DIR |-> botDir,
     CLAWQUANT_TESTNET |-> boolToFlag(cmd.exchange.testnet)]

(* Seeded fault: what the agent's environment has already is kept.             *)
OwnUnlessInherited(k, env) == k \in OwnVariables /\ k \notin DOMAIN env
IsOwn(k, env) == k \in OwnVariables

buildPythonEnv(env, cmd, credentials) ==
    [k \in DOMAIN env \cup OwnVariables |->
        CASE k = "PYTHONPATH" -> PythonPath(env)
          [] k # "PYTHONPATH" /\ IsOwn(k, env) -> Own(cmd, credentials)[k]
          [] OTHER -> env[k]]

(* StartBot up to buildPythonEnv.                                              *)
Accepts(cmd) ==
    ~IsBlank(cmd.botID) /\ ~IsBlank(cmd.strategyCode)
    /\ normalizeParams(cmd.params) # "not JSON"

(* The key in the agent's environment.                                         *)
EnvKey(env) ==
    IF "CLAWQUANT_ENCRYPTION_KEY" \in DOMAIN env THEN env["CLAWQUANT_ENCRYPTION_KEY"]
    ELSE Empty

Credentials(cmd, base) ==
    resolveExchangeCredentials(cmd.exchange, cmd.encryptionKey, EnvKey(base))

Prepared(cmd, base) ==
    IF Accepts(cmd) THEN {buildPythonEnv(base, cmd, c) : c \in Credentials(cmd, base)} ELSE {}

-------------------------------------------------------------------------------
(* The runner                                                                  *)

require_env(env, k) == {t \in {TrimSpace(env[k])} : t # Empty}
load_params(env) == {env["CLAWQUANT_PARAMS"]} \cap {"empty object", "object"}
is_truthy(flag) == flag = "1"

(* What run() has read when it loads the strategy; it fails without a bot, an  *)
(* exchange or a pair, and if the parameters are not an object.                *)
run(env) ==
    {[botID |-> id, type |-> type, tradingPair |-> pair, params |-> p,
      apiKey |-> env["CLAWQUANT_API_KEY"], secret |-> env["CLAWQUANT_SECRET"],
      dataDir |-> env["CLAWQUANT_DATA_DIR"],
      testnet |-> is_truthy(env["CLAWQUANT_TESTNET"])] :
         id \in require_env(env, "CLAWQUANT_BOT_ID"),
         type \in require_env(env, "CLAWQUANT_EXCHANGE_TYPE"),
         pair \in require_env(env, "CLAWQUANT_TRADING_PAIR"),
         p \in load_params(env)}

-------------------------------------------------------------------------------
(* Properties                                                                  *)

(* A bot trades with both credentials of one source: the plain pair of the     *)
(* command, or the encrypted one, opened with one key (manager.go:456-484).    *)
(* Half a plain pair is never completed with what is encrypted.                *)
OfOneSource(cmd, base, c) ==
    LET x == cmd.exchange IN
    \/ c = <<TrimSpace(x.apiKey), TrimSpace(x.secret)>> /\ ~IsBlank(x.apiKey)
       /\ ~IsBlank(x.secret)
    \/ /\ IsBlank(x.apiKey) /\ IsBlank(x.secret)
       /\ c = <<x.encryptedAPIKey.plain, x.encryptedSecret.plain>>
       /\ x.encryptedAPIKey.password = x.encryptedSecret.password
       /\ x.encryptedAPIKey.password \in {cmd.encryptionKey, TrimSpace(EnvKey(base))}

CredentialsOfOneSource(commands) ==
    \A cmd \in commands, base \in Inherited :
        \A c \in Credentials(cmd, base) : OfOneSource(cmd, base, c)

(* Whatever the agent's own environment holds, CLAWQUANT_* variables included, *)
(* a runner that comes up trades as its command says: for the bot, with the    *)
(* keys, the pair, the parameters and on the exchange, test net or not, that   *)
(* the platform named (manager.go:486-524, runner.py:20-35).                   *)
SeesItsCommand(cmd, base, r) ==
    /\ r.botID = TrimSpace(cmd.botID)
    /\ r.type = TrimSpace(cmd.exchange.type)
    /\ r.tradingPair = TrimSpace(cmd.exchange.tradingPair)
    /\ r.testnet = cmd.exchange.testnet
    /\ r.params = normalizeParams(cmd.params)
    /\ r.dataDir = botDir
    /\ <<r.apiKey, r.secret>> \in Credentials(cmd, base)

RunnerSeesItsCommand(commands) ==
    \A cmd \in commands, base \in Inherited :
        \A env \in Prepared(cmd, base) : \A r \in run(env) : SeesItsCommand(cmd, base, r)
===============================================================================
