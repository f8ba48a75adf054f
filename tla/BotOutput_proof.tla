---------------------------- MODULE BotOutput_proof ---------------------------
(* What becomes of what a strategy logs, for any texts and any precision.      *)
EXTENDS BotOutput, TLAPS

LEMMA SmallIntegersAreExact ==
    ASSUME NEW d \in Data, d.n <= maxExact PROVE Remarshalled(d) = d
  BY maxExactAssumption DEF Remarshalled, Float64, Data, Integers

(* What the strategy logs arrives once, at its level, and whole.               *)
THEOREM LogsArrive == LogsArriveWhole
  <1> SUFFICES ASSUME NEW c \in Calls, Representable(c)
               PROVE  handleStdoutLine(Sent(c)) = {Expected(c)}
    BY DEF LogsArriveWhole
  <1> USE DEF Calls, Representable
  <1>1. Unmarshals(Sent(c))
    BY DEF Unmarshals, Sent
  <1>2. Remarshalled(c.data) = c.data
    BY SmallIntegersAreExact
  <1>3. CASE c.call = "log_status"
    BY <1>1, <1>3, BlankTextAssumption
       DEF handleStdoutLine, Sent, Emitted, NamesBlank, Log, Expected
  <1>4. CASE c.call = "log_profit"
    <2>1. Sent(c).type = "profit"
      BY <1>4 DEF Sent
    <2>2. handleStdoutLine(Sent(c)) =
             NamesBlank(Log("profit", "profit update", [form |-> "object", n |-> 0]))
      BY <1>1, <2>1 DEF handleStdoutLine, Emitted
    <2> QED
      BY <1>4, <2>2, BlankTextAssumption DEF NamesBlank, Log, Expected
  <1>5. CASE c.call \in {"log", "log_warn", "log_error"}
    <2>1. /\ Sent(c).type = "log" /\ Sent(c).level = Level(c.call)
          /\ Sent(c).message = c.message /\ Sent(c).data = c.data
      BY <1>5 DEF Sent
    <2>2. handleStdoutLine(Sent(c)) = NamesBlank(Log(Level(c.call), c.message, c.data))
      BY <1>1, <1>2, <2>1 DEF handleStdoutLine, Emitted
    <2> QED
      BY <1>5, <2>2 DEF NamesBlank, Log, Expected
  <1> QED
    BY <1>3, <1>4, <1>5

(* No call of the SDK is lost, or puts a row into the table the sync skips.    *)
THEOREM RowsCanBeEncoded == RowsAreEncodable
  <1> SUFFICES ASSUME NEW c \in Calls
               PROVE  \E log \in handleStdoutLine(Sent(c)) :
                          handleStdoutLine(Sent(c)) = {log} /\ Encodable(log)
    BY DEF RowsAreEncodable
  <1>1. \A log : \E l \in NamesBlank(log) : NamesBlank(log) = {l} /\ l.data = log.data
    BY DEF NamesBlank, Log
  <1>2. CASE ~Unmarshals(Sent(c))
    <2>1. handleStdoutLine(Sent(c)) = NamesBlank(Log("info", RawLine, NoData))
      BY <1>2 DEF handleStdoutLine
    <2> QED
      BY <1>1, <2>1 DEF Encodable, Log, NoData
  <1>3. CASE Unmarshals(Sent(c))
    <2>1. handleStdoutLine(Sent(c)) = NamesBlank(Emitted(Sent(c)))
      BY <1>3 DEF handleStdoutLine
    <2>2. Emitted(Sent(c)).data.form # "nan"
      BY <1>3 DEF Emitted, Sent, Unmarshals, Log, NoData, Remarshalled
    <2> QED
      BY <1>1, <2>1, <2>2 DEF Encodable
  <1> QED
    BY <1>2, <1>3
===============================================================================
