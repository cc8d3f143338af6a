---------------------------- MODULE MCInsertValues ----------------------------
EXTENDS InsertValues

Column(t, p, v, g, n, lo, hi) ==
  [tp |-> t, nullProbability |-> p, values |-> v, generator |-> g,
   generated |-> n, minStrLen |-> lo, maxStrLen |-> hi]
Setting(n, b, cols) == [total |-> n, batchSize |-> b, columns |-> cols]

\* Every type, with and without prepared values; lengths in and out of order;
\* null probabilities at their limits and beyond.
MCColumns ==
  {Column(t, p, v, FALSE, 0, 0, 0) :
     t \in {"int", "decimal", "other"}, p \in {-2, -1, 0, 60, 100, 101}, v \in {0, 2}}
  \union {Column("string", 60, v, g, 3, b[1], b[2]) : v \in {0, 2}, g \in BOOLEAN,
            b \in {<<0, 0>>, <<1, 3>>, <<3, 1>>, <<-1, 2>>}}
  \union {Column(t, 1, 0, g, 3, 0, 0) : t \in Temporal, g \in BOOLEAN}
\* The columns insert_values.go is configured with.
MCConfigured == <<Column("int", -1, 0, FALSE, 0, 0, 0),
                  Column("int", 1, 0, TRUE, 3, 0, 0),
                  Column("decimal", 1, 0, TRUE, 3, 0, 0),
                  Column("string", 1, 0, TRUE, 3, 0, 0),
                  Column("datetime", 1, 0, TRUE, 3, 0, 0)>>

\* Totals that divide and do not divide by tasks and batches, with one column; and
\* one row of every column.
MCSettings ==
  {Setting(n, b, <<Column("int", -1, 0, FALSE, 0, 0, 0)>>) : n \in {0, 2, 4, 5}, b \in 0..2}
  \union {Setting(1, 1, <<c>>) : c \in MCColumns}
  \union {Setting(1, 1, MCConfigured), Setting(1, 1, <<>>),
          Setting(4, 2, <<Column("date", 1, 0, FALSE, 0, 0, 0)>>)}
=============================================================================
