---------------------------- MODULE MCCompareRows ----------------------------
EXTENDS CompareRows

\* A/a and the three sigmas.
MCFoldCycles == {{65, 97}, {931, 962, 963}}

\* Result sets of up to n rows, all with the cells of one of the row sets.
Upto(n, rows) == BoundedSeq(rows, n)

OneColumn == {<<Null>>, <<TextCell(<<97>>)>>, <<TextCell(<<65>>)>>, <<TextCell(<<78, 59>>)>>,
              <<TextCell(<<962>>)>>, <<TextCell(<<963>>)>>}
\* Values that look like the border between two cells of a key.
TwoColumns == {<<TextCell(<<97, 59, 86, 58, 97>>), TextCell(<<65>>)>>,
               <<TextCell(<<97>>), TextCell(<<97, 59, 86, 58, 65>>)>>,
               <<Null, TextCell(<<>>)>>}
\* Two different bytes that are not UTF-8, as in a BLOB column.
Binary == {<<TextCell(<<FirstInvalid + 254>>)>>, <<TextCell(<<FirstInvalid + 255>>)>>}
MCResultSets == Upto(2, OneColumn) \union Upto(3, TwoColumns) \union Upto(2, Binary)

\* Any short file against an empty one, one with two lines, and one that is
\* not UTF-8.
MCFilePairs ==
  {<<f, g>> : f \in BoundedSeq({97, CR, LF}, 5),
              g \in {<<>>, <<65, CR, LF, 98>>, <<FirstInvalid + 255>>}}
=============================================================================
