-------------------------------- MODULE MCTurn ------------------------------
(* An instance of Turn for TLC.                                                *)
EXTENDS Turn

Pins(values) == [loop : values, channel : values, loopEnv : values, env : values]

\* Every combination of pins for the model beside two of the effort, and the other
\* way round.
MCConfigs ==
    LET models == Pins({Absent, "opus", "opus[1m]", "gpt"})
        efforts == Pins({Absent, "low", "most"})
        flags == {"true", "maybe"}
        someModels == {[NoPins EXCEPT !.env = "sonnet"],
                       [NoPins EXCEPT !.channel = Mistyped, !.env = "sonnet"]}
        someEfforts == {[NoPins EXCEPT !.channel = "low"],
                        [NoPins EXCEPT !.channel = "most"],
                        [NoPins EXCEPT !.channel = Mistyped]}
    IN  [isTick : BOOLEAN, allow1M : flags, model : models, effort : someEfforts]
        \cup [isTick : BOOLEAN, allow1M : flags, model : someModels, effort : efforts]

It(what, code, text) == [what |-> what, code |-> code, text |-> text]
Word == It("word", FALSE, "plain")
Link == It("link", FALSE, "plain")

\* Links in prose, marked or not, links only, and code beside text.
MCProse ==
    {Line("text", <<It("word", FALSE, "marked"), It("url", FALSE, "marked"),
                    It("word", TRUE, "spaced")>>),
     Line("text", <<It("md link", FALSE, "plain"), It("md link", TRUE, "marked"),
                    It("md link", FALSE, "marked")>>),
     Line("text", <<Link>>),
     Line("text", <<It("link", TRUE, "plain"), It("word", FALSE, "spaced")>>),
     Line("heading", <<It("word", TRUE, "marked"), It("url", FALSE, "plain")>>)}
MCLines ==
    MCProse \cup
    {Line("narration", <<Word>>), [Line("narration", <<Word>>) EXCEPT !.long = TRUE],
     Line("blank", << >>), Line("open card", << >>), Line("fence", << >>)}
    \cup {[Line("card", <<Word>>) EXCEPT !.blocks = n] : n \in {0, 1, 4}}

\* For the runs of one answer.
MCOneConfig == {CHOOSE c \in MCConfigs : TRUE}
MCFewTexts == UNION {[1..n -> MCProse] : n \in 0..2}

MCTexts == UNION {[1..n -> MCLines] : n \in 0..4}

MCTrim == [raw \in {"k", " k", "j", " "} |-> CASE raw = " " -> ""
                                              [] raw = " k" -> "k"
                                              [] OTHER -> raw]

=============================================================================
