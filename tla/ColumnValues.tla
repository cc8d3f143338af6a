----------------------------- MODULE ColumnValues -----------------------------
(***************************************************************************)
(* The values insert_values.go generates for a column.  Of a value only    *)
(* its form matters: null, or a text of some length (for strings) between  *)
(* some number of quotes on each side.                                     *)
(***************************************************************************)
EXTENDS Integers, Sequences

\* A column: its type, nullProbability, the number of prepared values, whether a
\* valuesGenerator is given and how many values it makes, minStrLen, maxStrLen.
Temporal == {"time", "date", "datetime"}
Types == {"int", "string", "decimal", "float"} \union Temporal \union {"other"}
ColInfo == [tp : Types, nullProbability : Int, values : Nat, generator : BOOLEAN,
            generated : Nat, minStrLen : Int, maxStrLen : Int]

\* The loop of validateInsertSettings.
ValidCol(col) ==
  /\ col.tp # "other"
  /\ col.nullProbability \in -1..100
  /\ (col.tp = "string" /\ col.values = 0) =>
       col.minStrLen >= 0 /\ col.maxStrLen >= col.minStrLen

\* A generator replaces the values of its column.
InitializeInsertColInfo(col) ==
  IF col.generator THEN [col EXCEPT !.values = col.generated] ELSE col

NullValue == [null |-> TRUE, quotes |-> 0, len |-> 0]
Quoted(n, l) == [null |-> FALSE, quotes |-> n, len |-> l]

\* The length generateRandomString draws: negative limits count as 0, and the
\* limits may come in either order.
StringLengths(minLen, maxLen) ==
  LET a == IF minLen < 0 THEN 0 ELSE minLen
      b == IF maxLen < 0 THEN 0 ELSE maxLen
  IN IF a <= b THEN a..b ELSE b..a

\* What the generators return: time, date and datetime come with their quotes.
Generated(col) ==
  CASE col.tp = "string" -> {Quoted(0, l) : l \in StringLengths(col.minStrLen, col.maxStrLen)}
    [] col.tp \in Temporal -> {Quoted(1, 0)}
    [] OTHER -> {Quoted(0, 0)}

\* The deferred function puts quotes around every value that is not null.
Quote(v) == [v EXCEPT !.quotes = @ + 1]

\* rand.Intn(100) < col.nullProbability, and a wrong variant that includes it.
DrawsNullInclusive(col, draw) == draw <= col.nullProbability
DrawsNull(col, draw) == col.nullProbability > 0 /\ draw < col.nullProbability

\* The possible results of generateOneColValue; prepared values carry no quotes.
OneColValue(col) ==
  UNION {IF DrawsNull(col, draw) THEN {NullValue}
         ELSE {Quote(v) : v \in IF col.values > 0 THEN {Quoted(0, 0)} ELSE Generated(col)} :
           draw \in 0..99}

\* The possible results of generateOneRow.
OneRow(cols) ==
  {row \in [DOMAIN cols -> UNION {OneColValue(cols[i]) : i \in DOMAIN cols}] :
     \A i \in DOMAIN cols : row[i] \in OneColValue(cols[i])}

\* No value of the row is quoted twice.
WellFormed(row) == \A i \in DOMAIN row : row[i].quotes <= 1
=============================================================================
