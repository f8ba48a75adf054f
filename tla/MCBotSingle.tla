----------------------------- MODULE MCBotSingle ------------------------------
(* BotManager with one read pump, with the content of its commands (BotSetup)  *)
(* and of its output (BotOutput).                                              *)
EXTENDS MCBotManager, BotSingle

MCWords == {"w1", "w2"}
MCNothing == ""
Blank == [word |-> "", padded |-> TRUE]
Plain == [word |-> "w1", padded |-> FALSE]
Padded == [word |-> "w2", padded |-> TRUE]
MCTexts == {Blank, Plain, Padded}

MCCiphertexts ==
    [form : {"sealed"}, plain : {Plain, Padded}, password : {Plain, TrimSpace(Padded)}]
        \cup [form : {"blank", "broken"}, plain : {Blank}, password : {Plain}]

(* Every combination of credentials, and every one of the other fields.        *)
ACreateBot(type, key, secret, encKey, encSecret, pair, testnet, id, strategy, p, ek) ==
    [botID |-> id, strategyCode |-> strategy, params |-> p, encryptionKey |-> ek,
     exchange |-> [type |-> type, apiKey |-> key, secret |-> secret,
                   encryptedAPIKey |-> encKey, encryptedSecret |-> encSecret,
                   tradingPair |-> pair, testnet |-> testnet]]

ABroken == CHOOSE c \in MCCiphertexts : c.form = "broken"

MCCreateBots ==
    {ACreateBot(Plain, k, s, ek, es, Plain, TRUE, Plain, Plain, "object", key) :
        k \in MCTexts, s \in MCTexts, ek \in MCCiphertexts, es \in MCCiphertexts,
        key \in MCTexts}
    \cup
    {ACreateBot(t, Plain, Padded, ABroken, ABroken, pair, n, id, strategy, p, Blank) :
        t \in MCTexts, pair \in MCTexts, n \in BOOLEAN, id \in MCTexts,
        strategy \in {Plain, Blank}, p \in Params}

(* Environments the agent may inherit, with and without each of the variables. *)
MCVariables == {"PATH", "PYTHONPATH", "CLAWQUANT_ENCRYPTION_KEY", "CLAWQUANT_SECRET"}
MCInherited ==
    UNION {[names -> {Blank, Padded}] : names \in SUBSET MCVariables}
===============================================================================
