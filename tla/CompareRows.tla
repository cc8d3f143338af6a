----------------------------- MODULE CompareRows -----------------------------
(***************************************************************************)
(* How dbHelper/compare_results.go decides whether two result sets agree:  *)
(* comparePreparedResultRows sorts both sides by a key built from the      *)
(* normalised cells (unless sorting is off) and compares row by row.  In   *)
(* file mode the rows are the lines of two files, otherwise those of two   *)
(* queries.  Texts are sequences of code points, as in module ResultFile.  *)
(***************************************************************************)
EXTENDS ResultFile

CONSTANTS ResultSets,  \* results of queries: sequences of rows
          FilePairs,   \* the contents of two files
          FoldCycles   \* the cycles of unicode.SimpleFold with two or more
                       \* code points

ReplacementChar == 65533

Cells == [isNull : BOOLEAN, value : Seq(Symbols)]

ASSUME RowsAssumption ==
  /\ ResultSets \subseteq Seq(Seq(Cells))
  /\ FilePairs \subseteq Seq(Symbols) \X Seq(Symbols)
  /\ FoldCycles \subseteq SUBSET (0..(FirstInvalid - 1))
  /\ \A f, g \in FoldCycles : f # g => f \intersect g = {}

VARIABLES sortRows, caseSensitive,     \* compareResultSortRows, ...CaseSensitive
          files,                       \* file mode: the two files
          expected, actual,            \* the two result sets
          prepared,                    \* the two result sets as returned
          verdict                      \* the error returned, "" before
compareVars == <<sortRows, caseSensitive, files, expected, actual, prepared, verdict>>

Null == [isNull |-> TRUE, value |-> <<>>]
TextCell(t) == [isNull |-> FALSE, value |-> t]

\* The code points a range loop yields for one element of a text.
Rune(r) == IF r >= FirstInvalid THEN ReplacementChar ELSE r

FoldCycle(r) == {r} \union UNION {f \in FoldCycles : r \in f}

\* The smallest code point of the cycle.
Canonical(r) == Min(FoldCycle(r))

\* normalizeCompareText
NormalizeCompareText(t) ==
  IF caseSensitive THEN t ELSE [i \in 1..Len(t) |-> Canonical(Rune(t[i]))]

\* len(value), in bytes of UTF-8.
Width(r) == CASE r >= FirstInvalid -> 1 [] r < 128 -> 1
              [] r < 2048 -> 2 [] r < 65536 -> 3 [] OTHER -> 4
ByteLen(t) == SumFunction([i \in 1..Len(t) |-> Width(t[i])])

\* strconv.Itoa of a length.
Itoa[n \in Nat] ==
  IF n < 10 THEN <<48 + n>> ELSE Append(Itoa[n \div 10], 48 + (n % 10))

\* Wrong variant: the key does not tell how long a value is.
CellKeyWithoutLength(cell) ==
  IF cell.isNull THEN <<78, 59>>
  ELSE <<86, 58>> \o NormalizeCompareText(cell.value) \o <<59>>

\* "N;" for NULL, "V<len>:<value>;" for a value.
CellKey(cell) ==
  IF cell.isNull THEN <<78, 59>>
  ELSE LET value == NormalizeCompareText(cell.value)
       IN <<86>> \o Itoa[ByteLen(value)] \o <<58>> \o value \o <<59>>

\* compareRowKey
CompareRowKey(row) == FlattenSeq([i \in 1..Len(row) |-> CellKey(row[i])])

\* Go's < on strings.
Less(s, t) ==
  \/ IsStrictPrefix(s, t)
  \/ \E i \in 1..Min({Len(s), Len(t)}) :
       s[i] < t[i] /\ SubSeq(s, 1, i - 1) = SubSeq(t, 1, i - 1)

\* sortedResultRows: the stable sort by compareRowKey.  Rows come in the order of
\* their keys, rows with the same key in the order they had.
SortedResultRows(rows) ==
  LET key == [i \in 1..Len(rows) |-> CompareRowKey(rows[i])]
      before == {p \in (1..Len(rows)) \X (1..Len(rows)) :
                   \/ Less(key[p[1]], key[p[2]])
                   \/ key[p[1]] = key[p[2]] /\ p[1] < p[2]}
      order == Enumerate(1..Len(rows), before)
  IN [p \in 1..Len(rows) |-> rows[order[p]]]

\* prepareCompareResultRows
Prepare(rows) == IF sortRows THEN SortedResultRows(rows) ELSE rows

\* compareRowsEqual
CompareRowsEqual(e, a) ==
  /\ Len(e) = Len(a)
  /\ \A i \in 1..Len(e) :
       /\ e[i].isNull = a[i].isNull
       /\ \/ e[i].isNull
          \/ NormalizeCompareText(e[i].value) = NormalizeCompareText(a[i].value)

\* compareConfiguredFiles up to the comparison: one cell per line; a file may
\* be missing, and must be UTF-8.
RowsOfFile(s) == [k \in 1..Len(Lines(NormalizeLineEnds(s))) |->
                    <<TextCell(Lines(NormalizeLineEnds(s))[k])>>]

ReadFiles ==
  /\ verdict = "unread"
  /\ \/ verdict' = "read" /\ UNCHANGED <<expected, actual>>
     \/ /\ \E k \in 1..2 : ~ValidUTF8(files[k])
        /\ verdict' = "utf8" /\ UNCHANGED <<expected, actual>>
     \/ /\ \A k \in 1..2 : ValidUTF8(files[k])
        /\ verdict' = ""
        /\ expected' = RowsOfFile(files[1]) /\ actual' = RowsOfFile(files[2])
  /\ UNCHANGED <<sortRows, caseSensitive, files, prepared>>

\* comparePreparedResultRows
ComparePreparedResultRows ==
  /\ verdict = ""
  /\ prepared' = <<Prepare(expected), Prepare(actual)>>
  /\ verdict' = IF Len(expected) # Len(actual) THEN "length"
                ELSE IF \E i \in 1..Len(prepared'[1]) :
                          ~CompareRowsEqual(prepared'[1][i], prepared'[2][i])
                THEN "row" ELSE "nil"
  /\ UNCHANGED <<sortRows, caseSensitive, files, expected, actual>>

CompareInit ==
  /\ sortRows \in BOOLEAN /\ caseSensitive \in BOOLEAN
  /\ prepared = <<>>
  /\ \/ /\ expected \in ResultSets /\ actual \in ResultSets
        /\ files = <<>> /\ verdict = ""
     \/ /\ expected = <<>> /\ actual = <<>>
        /\ files \in FilePairs /\ verdict = "unread"

Compared == verdict \notin {"", "unread", "read", "utf8"}
CompareDone == verdict \notin {"", "unread"} /\ UNCHANGED compareVars

CompareNext == ReadFiles \/ ComparePreparedResultRows \/ CompareDone

CompareSpec == CompareInit /\ [][CompareNext]_compareVars

-----------------------------------------------------------------------------
\* Two texts that mean the same: equal, or, when case does not matter, equal up
\* to the case of their letters.
SameText(s, t) ==
  IF caseSensitive THEN s = t
  ELSE Len(s) = Len(t) /\ \A i \in 1..Len(s) : t[i] \in FoldCycle(s[i])
SameCell(c, d) == c.isNull = d.isNull /\ (c.isNull \/ SameText(c.value, d.value))
SameRow(e, a) == Len(e) = Len(a) /\ \A i \in 1..Len(e) : SameCell(e[i], a[i])

Matchings(m, n) == {p \in [1..m -> 1..n] : \A i, j \in 1..m : p[i] = p[j] => i = j}

\* The two result sets agree: some pairing of their rows, the given order when
\* rows are not sorted, pairs only rows that mean the same.
Agree ==
  /\ Len(expected) = Len(actual)
  /\ \E p \in Matchings(Len(expected), Len(actual)) :
       /\ sortRows \/ \A i \in 1..Len(expected) : p[i] = i
       /\ \A i \in 1..Len(expected) : SameRow(expected[i], actual[p[i]])

\* Case folding replaces every byte that is not UTF-8 by the same rune.
AllUTF8 == \A rows \in {expected, actual} : \A i \in 1..Len(rows) :
             \A j \in 1..Len(rows[i]) :
               rows[i][j].isNull \/ ValidUTF8(rows[i][j].value)

\* compareResultRows succeeds exactly when the two result sets agree, as
\* multisets when rows are sorted: sorting by the key pairs equal rows, whatever
\* the cells contain and however often a row occurs.  Binary values are compared
\* as faithfully only when case matters.  The rows left for the failure files are
\* those received, with their original text, each as often as it was received.
VerdictIsAgreement ==
  Compared => /\ (caseSensitive \/ AllUTF8) => (verdict = "nil" <=> Agree)
              /\ ToBag(prepared[1]) = ToBag(expected)
              /\ ToBag(prepared[2]) = ToBag(actual)

\* In file mode the rows have "the same row boundaries as Python's text-mode
\* readlines: line endings are retained and CRLF/CR are normalized to LF"
\* (compare_results.go:824-825).
SameAsReadlines ==
  files # <<>> /\ verdict \in {"", "nil", "length", "row"} =>
    /\ Readlines(files[1]) = [k \in 1..Len(expected) |-> expected[k][1].value]
    /\ Readlines(files[2]) = [k \in 1..Len(actual) |-> actual[k][1].value]
=============================================================================
