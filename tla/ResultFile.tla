------------------------------ MODULE ResultFile ------------------------------
(***************************************************************************)
(* How readResultFile of dbHelper/compare_results.go cuts the content of a *)
(* result file into lines.  A text is a sequence of code points; a byte    *)
(* that is not valid UTF-8 is the number FirstInvalid plus its value.  It  *)
(* sorts after every code point; in Go's order of strings the byte comes   *)
(* before some of them, which moves rows that have it and changes no       *)
(* verdict.                                                                *)
(***************************************************************************)
EXTENDS Integers, Sequences, FiniteSets, SequencesExt, FiniteSetsExt

CR == 13
LF == 10
FirstInvalid == 1114112
Symbols == 0..(FirstInvalid + 255)

ValidUTF8(s) == \A i \in 1..Len(s) : s[i] < FirstInvalid

\* The elements of S from the first to the last in the order R, a set of pairs.
Enumerate(S, R) ==
  [k \in 1..Cardinality(S) |->
     CHOOSE i \in S : Cardinality({j \in S : <<j, i>> \in R}) = k - 1]

\* A set of places, from left to right.
Ascending(S) == Enumerate(S, {p \in S \X S : p[1] < p[2]})

\* Wrong variant: a single CR is not a line end.
NormalizeCRLFOnly(s) ==
  LET crlf(i) == s[i] = CR /\ i < Len(s) /\ s[i + 1] = LF
      kept == Ascending({i \in 1..Len(s) : ~crlf(i)})
  IN [k \in 1..Len(kept) |-> s[kept[k]]]

\* ReplaceAll "\r\n" by "\n", then ReplaceAll "\r" by "\n".
NormalizeLineEnds(s) ==
  LET crlf(i) == s[i] = CR /\ i < Len(s) /\ s[i + 1] = LF
      kept == Ascending({i \in 1..Len(s) : ~crlf(i)})
  IN [k \in 1..Len(kept) |-> IF s[kept[k]] = CR THEN LF ELSE s[kept[k]]]

\* strings.SplitAfter(s, "\n"): one piece more than there are LFs.
SplitAfter(s) ==
  LET ends == Ascending({i \in 1..Len(s) : s[i] = LF})
      cuts == <<0>> \o ends \o <<Len(s)>>
  IN [k \in 1..(Len(cuts) - 1) |-> SubSeq(s, cuts[k] + 1, cuts[k + 1])]

\* The lines of a normalised content, without an empty last piece.
Lines(s) ==
  LET pieces == SplitAfter(s)
  IN IF s = <<>> THEN <<>>
     ELSE IF Last(pieces) = <<>> THEN Front(pieces) ELSE pieces

-----------------------------------------------------------------------------
(* The reference: universal newlines of Python's text mode.                *)

\* A line of s ends at i: at a LF, or at a CR that no LF follows.
EndsAt(s, i) == s[i] = LF \/ (s[i] = CR /\ ~(i < Len(s) /\ s[i + 1] = LF))

\* Line k holds what follows the previous line end, and one LF for its own.
Readlines(s) ==
  LET ends  == Ascending({i \in 1..Len(s) : EndsAt(s, i)})
      open  == Len(s) > 0 /\ ~EndsAt(s, Len(s))
      first(k) == IF k = 1 THEN 1 ELSE ends[k - 1] + 1
      text(k, last) ==
        LET kept == Ascending({i \in first(k)..last : s[i] \notin {CR, LF}})
        IN [j \in 1..Len(kept) |-> s[kept[j]]]
  IN [k \in 1..(Len(ends) + (IF open THEN 1 ELSE 0)) |->
        IF k <= Len(ends) THEN Append(text(k, ends[k]), LF) ELSE text(k, Len(s))]
=============================================================================
