----------------------------- MODULE MCCommands ------------------------------
EXTENDS Commands

Num(n) == [is |-> "number", n |-> n]

Text == [is |-> "text", n |-> 0]

Word(v) == [form |-> "word", name |-> "", inline |-> None, value |-> v]

Opt(name) == [form |-> "long", name |-> name, inline |-> None, value |-> Text]

OptIs(name, v) == [Opt(name) EXCEPT !.inline = v]

Short(name) == [Opt(name) EXCEPT !.form = "short"]

\* A vector that starts with a minus sign.
Negative(n) == [form |-> "negative", name |-> "1", inline |-> None,
                value |-> [is |-> "vector", n |-> n]]

\* The database's path is a text.
Line(name, argv) == [name |-> name, argv |-> <<Word(Text)>> \o argv]

Line0(name, argv) == [name |-> name, argv |-> argv]

CommandLineSet ==
    {Line("create", <<Short("d"), Word(Num(4))>>),
     Line("create", <<Opt("dimensions"), Word(Num(4))>>),
     Line("insert", <<Opt("vector"), Word(Num(1)), Opt("id"), Word(Num(1))>>),
     Line("insert", <<Opt("vector"), Word(Num(2))>>),
     Line("insert", <<Opt("vector"), Negative(2), Opt("id")>>),
     Line("insert", <<Opt("vector"), Word(Num(3))>>),
     Line("insert", <<Opt("vector"), Word(Num(1)), Opt("ids"), Word(Num(1))>>),
     Line("delete", <<Word(Num(1))>>),
     Line("delete", <<Word([is |-> "prefix", n |-> 0])>>),
     Line("delete", <<Opt("quiet"), Word(Num(1))>>),
     Line0("delete", <<Opt("quiet"), Word(Text), Word(Num(1))>>),
     Line("import", <<OptIs("input", Num(1))>>),
     Line("import", <<Short("i"), Word(Num(2)), Opt("csv"), OptIs("start-id", Num(1))>>),
     Line("import", <<Short("i"), Word(Num(2)), Opt("csv"), OptIs("start-id", Num(0))>>),
     Line("import", <<OptIs("input", Num(2)), Opt("csv")>>),
     Line("import", <<Opt("csv-ids"), OptIs("input", Num(3)), Opt("csv")>>),
     Line("import", <<OptIs("input", Num(3)), Opt("csv")>>),
     Line("import", <<Opt("csv-ids"), OptIs("input", Num(4)), Opt("csv")>>),
     Line("import", <<OptIs("input", Num(5))>>),
     Line("import", <<OptIs("input", Num(6))>>),
     Line("batch", <<Opt("queries"), Word(Num(2))>>),
     Line("rebuild", <<>>),
     Line("compact", <<>>),
     Line("get", <<Word(Num(1))>>),
     Line("search", <<Opt("query"), Word(Num(1)), Opt("k"), Word(Num(0))>>),
     Line("check", <<Opt("log-level"), Word(Num(1))>>),
     Line("info", <<>>),
     Line0("check", <<Opt("deep"), Word(Text)>>),
     Line0("generate", <<OptIs("output", Text)>>),
     Line0("none", <<>>)}

\* The second line of the first file is refused: its vector is not finite.
\* The second has a line of commas between its vectors, the fourth a line with
\* an id alone, the fifth no vectors and the last those of another dimension.
Inputs ==
    <<[form |-> "matrix", ids |-> TRUE,
       lines |-> <<[id |-> 1, vec |-> 1], [id |-> 0, vec |-> 9]>>],
      [form |-> "csv", ids |-> FALSE,
       lines |-> <<[id |-> 0, vec |-> 1], [id |-> 0, vec |-> 0], [id |-> 0, vec |-> 2]>>],
      [form |-> "csv", ids |-> TRUE,
       lines |-> <<[id |-> 1, vec |-> 2], [id |-> 0, vec |-> 1]>>],
      [form |-> "csv", ids |-> TRUE,
       lines |-> <<[id |-> 1, vec |-> 0], [id |-> 0, vec |-> 1]>>],
      [form |-> "matrix", ids |-> TRUE, lines |-> <<>>],
      [form |-> "narrow", ids |-> FALSE, lines |-> <<[id |-> 0, vec |-> 1]>>]>>
=============================================================================
