------------------------------ MODULE BotOutput -------------------------------
(* What a call of the strategy SDK (sdk/clawquant/logger.py) comes to in the   *)
(* agent's database: the line it writes, handleStdoutLine and emitLog          *)
(* (internal/process/manager.go), marshalLogData and encodeStoredLog           *)
(* (internal/connection/manager.go).  LogPipeline has the way of the rows from *)
(* there on, BotManager what an exit message does.                             *)
EXTENDS Naturals

CONSTANTS
    Messages,   \* texts that are not blank
    BlankText,
    maxExact    \* 2^53: integers up to it have a float64 of their own

(* The texts the agent uses itself are not blank.                              *)
ASSUME BlankTextAssumption ==
    BlankText \notin Messages \cup {"info", "warn", "error", "status", "profit update"}
ASSUME maxExactAssumption == maxExact \in Nat

(* Data: none, an object with an integer in it, or one with a float that JSON  *)
(* has no word for (NaN, Infinity).  The integers are bounded.                 *)
Integers == 0..2 * maxExact
Data == [form : {"none", "object", "nan"}, n : Integers]
NoData == [form |-> "none", n |-> 0]

(* log_profit is given a number, a NaN, or something json.dumps makes a string *)
(* of (default=str), such as a Decimal.                                        *)
Profits == {"number", "nan", "string"}

Calls == [call : {"log", "log_warn", "log_error", "log_status", "log_profit"},
          message : Messages \cup {BlankText}, data : Data, value : Profits]

-------------------------------------------------------------------------------
(* logger.py: the fields of the line it writes, and whether that is JSON.      *)

Level(call) ==
    CASE call = "log" -> "info" [] call = "log_warn" -> "warn" [] OTHER -> "error"

Sent(c) ==
    CASE c.call = "log_status" ->
            [type |-> "status", message |-> c.message, json |-> TRUE]
      [] c.call = "log_profit" ->
            [type |-> "profit", value |-> c.value, json |-> c.value # "nan"]
      [] OTHER ->
            [type |-> "log", level |-> Level(c.call), message |-> c.message, data |-> c.data,
             json |-> c.data.form # "nan"]

-------------------------------------------------------------------------------
(* handleStdoutLine                                                            *)

(* The nearest float64, of two the even one.                                   *)
Float64(n) ==
    IF n <= maxExact \/ n % 2 = 0 THEN n
    ELSE IF (n \div 2) % 2 = 0 THEN n - 1 ELSE n + 1

(* rawDataToAny and marshalLogData: every number passes through a float64.     *)
Remarshalled(d) == [form |-> d.form, n |-> Float64(d.n)]

(* json.Unmarshal into stdoutEnvelope, whose value is a number.                *)
Unmarshals(line) == line.json /\ (line.type = "profit" => line.value = "number")

Log(level, message, data) == [level |-> level, message |-> message, data |-> data]

(* A line that is not understood is logged as it is.                           *)
RawLine == "the line itself"

(* emitLog puts the level for a message that is blank.                         *)
(* Seeded fault: it drops such a log.                                          *)
DropsBlank(log) == {l \in {log} : l.message # BlankText}
NamesBlank(log) ==
    {Log(log.level, IF log.message = BlankText THEN log.level ELSE log.message, log.data)}

Emitted(line) ==
    CASE line.type = "log" -> Log(line.level, line.message, Remarshalled(line.data))
      [] line.type = "profit" -> Log("profit", "profit update", [form |-> "object", n |-> 0])
      [] OTHER -> Log("status", line.message, NoData)

handleStdoutLine(line) ==
    NamesBlank(IF Unmarshals(line) THEN Emitted(line) ELSE Log("info", RawLine, NoData))

(* encodeStoredLog fails for data that is not JSON.                            *)
Encodable(log) == log.data.form # "nan"

-------------------------------------------------------------------------------
(* Properties                                                                  *)

(* What the strategy logs arrives once, as what it was logged as, and whole:   *)
(* a blank message or missing data costs no log its level, and integers of up  *)
(* to 2^53, the identifiers of orders among them, stay what they are           *)
(* (manager.go:363-422, 552-567).                                              *)
Representable(c) ==
    /\ c.data.form # "nan" /\ c.data.n <= maxExact
    /\ c.call = "log_profit" => c.value = "number"

Expected(c) ==
    LET named(level) == IF c.message = BlankText THEN level ELSE c.message IN
    CASE c.call = "log_status" -> Log("status", named("status"), NoData)
      [] c.call = "log_profit" -> Log("profit", "profit update", [form |-> "object", n |-> 0])
      [] OTHER -> Log(Level(c.call), named(Level(c.call)), c.data)

LogsArriveWhole ==
    \A c \in Calls : Representable(c) => handleStdoutLine(Sent(c)) = {Expected(c)}

(* No call of the SDK puts a row into the table that the sync would have to    *)
(* skip, and none is lost, not even one whose line is no JSON                  *)
(* (connection/manager.go:605-610).                                            *)
RowsAreEncodable ==
    \A c \in Calls : \E log \in handleStdoutLine(Sent(c)) :
        handleStdoutLine(Sent(c)) = {log} /\ Encodable(log)
===============================================================================
