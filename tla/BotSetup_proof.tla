---------------------------- MODULE BotSetup_proof ----------------------------
(* What a bot is started with, for any commands and any environment.           *)
EXTENDS BotSetup, TLAPS

(* What resolveExchangeCredentials returns comes from one place.               *)
LEMMA CredentialsAreOfOneSource ==
    ASSUME NEW cmd, NEW base, NEW c \in Credentials(cmd, base)
    PROVE  OfOneSource(cmd, base, c)
  <1> DEFINE x == cmd.exchange
  <1>1. CASE PlainGiven(x)
    <2>1. /\ c = <<TrimSpace(x.apiKey), TrimSpace(x.secret)>>
          /\ c[1] # Empty /\ c[2] # Empty
      BY <1>1 DEF Credentials, resolveExchangeCredentials
    <2> QED
      BY <2>1 DEF OfOneSource, IsBlank
  <1>2. CASE ~PlainGiven(x)
    <2>1. PICK k \in resolveEncryptionKey(cmd.encryptionKey, EnvKey(base)) :
             c \in Decrypt(x.encryptedAPIKey, k) \X Decrypt(x.encryptedSecret, k)
      BY <1>2 DEF Credentials, resolveExchangeCredentials
    <2>2. k \in {cmd.encryptionKey, TrimSpace(EnvKey(base))}
      BY DEF resolveEncryptionKey
    <2>3. /\ x.encryptedAPIKey.password = k /\ x.encryptedSecret.password = k
          /\ c = <<x.encryptedAPIKey.plain, x.encryptedSecret.plain>>
      BY <2>1 DEF Decrypt
    <2> QED
      BY <1>2, <2>2, <2>3 DEF OfOneSource, PlainGiven
  <1> QED
    BY <1>1, <1>2

(* A bot trades with both credentials of one source.                           *)
THEOREM OneSourceOnly == CredentialsOfOneSource(CreateBots)
  BY CredentialsAreOfOneSource DEF CredentialsOfOneSource

(* The bot's own variables are the command's, whatever is inherited.           *)
LEMMA OwnVariablesWin ==
    ASSUME NEW base, NEW cmd, NEW c, NEW k \in OwnVariables \ {"PYTHONPATH"}
    PROVE  buildPythonEnv(base, cmd, c)[k] = Own(cmd, c)[k]
  BY DEF buildPythonEnv, IsOwn

(* A runner that comes up trades as its command says.                          *)
THEOREM RunnerSeesItsOwn == RunnerSeesItsCommand(CreateBots)
  <1> SUFFICES ASSUME NEW cmd \in CreateBots, NEW base \in Inherited,
                      NEW env \in Prepared(cmd, base), NEW r \in run(env)
               PROVE  SeesItsCommand(cmd, base, r)
    BY DEF RunnerSeesItsCommand
  <1>1. PICK c \in Credentials(cmd, base) : env = buildPythonEnv(base, cmd, c)
    BY DEF Prepared
  <1>2. cmd.exchange.testnet \in BOOLEAN
    BY CreateBotsAssumption DEF CreateBot, Exchange
  <1>3. /\ env["CLAWQUANT_BOT_ID"] = cmd.botID
        /\ env["CLAWQUANT_EXCHANGE_TYPE"] = cmd.exchange.type
        /\ env["CLAWQUANT_TRADING_PAIR"] = cmd.exchange.tradingPair
        /\ env["CLAWQUANT_PARAMS"] = normalizeParams(cmd.params)
        /\ env["CLAWQUANT_API_KEY"] = c[1] /\ env["CLAWQUANT_SECRET"] = c[2]
        /\ env["CLAWQUANT_DATA_DIR"] = botDir
        /\ env["CLAWQUANT_TESTNET"] = boolToFlag(cmd.exchange.testnet)
    <2>1. \A k \in OwnVariables \ {"PYTHONPATH"} : env[k] = Own(cmd, c)[k]
      BY <1>1, OwnVariablesWin
    <2> QED
      BY <2>1 DEF OwnVariables, Own
  <1>4. c = <<c[1], c[2]>>
    <2>1. OfOneSource(cmd, base, c)
      BY CredentialsAreOfOneSource
    <2> QED
      BY <2>1 DEF OfOneSource
  <1>5. /\ r.botID = TrimSpace(cmd.botID)
        /\ r.type = TrimSpace(cmd.exchange.type)
        /\ r.tradingPair = TrimSpace(cmd.exchange.tradingPair)
        /\ r.params = normalizeParams(cmd.params)
        /\ r.dataDir = botDir
        /\ r.apiKey = c[1] /\ r.secret = c[2]
        /\ r.testnet = is_truthy(boolToFlag(cmd.exchange.testnet))
    <2>1. PICK id \in require_env(env, "CLAWQUANT_BOT_ID"),
               type \in require_env(env, "CLAWQUANT_EXCHANGE_TYPE"),
               pair \in require_env(env, "CLAWQUANT_TRADING_PAIR"),
               p \in load_params(env) :
             r = [botID |-> id, type |-> type, tradingPair |-> pair, params |-> p,
                  apiKey |-> env["CLAWQUANT_API_KEY"], secret |-> env["CLAWQUANT_SECRET"],
                  dataDir |-> env["CLAWQUANT_DATA_DIR"],
                  testnet |-> is_truthy(env["CLAWQUANT_TESTNET"])]
      BY DEF run
    <2>2. /\ id = TrimSpace(cmd.botID) /\ type = TrimSpace(cmd.exchange.type)
          /\ pair = TrimSpace(cmd.exchange.tradingPair) /\ p = normalizeParams(cmd.params)
      BY <1>3 DEF require_env, load_params
    <2> QED
      BY <1>3, <2>1, <2>2
  <1>6. is_truthy(boolToFlag(cmd.exchange.testnet)) = cmd.exchange.testnet
    BY <1>2 DEF is_truthy, boolToFlag
  <1> QED
    BY <1>4, <1>5, <1>6 DEF SeesItsCommand
===============================================================================
