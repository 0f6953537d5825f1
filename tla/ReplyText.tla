------------------------------ MODULE ReplyText -----------------------------
(* From an agent's final text to what Slack is sent: the gate for leaked       *)
(* narration (silentnarration), the translation to mrkdwn (slackmrkdwn) and    *)
(* the card or the buttons (blockkit).  A text is a sequence of lines, a line  *)
(* a kind and a sequence of items: words, bare URLs and links in CommonMark or *)
(* in mrkdwn, each as inline code or not.                                      *)
EXTENDS Integers, Sequences, FiniteSets, SequencesExt

CONSTANTS
    MaxBlocks, ButtonsPerActionsBlock, TotalButtonsCap

\* In the code 50, 5 and 25: a section and all rows of buttons fit in a message.
ASSUME ReplyAssumption ==
    /\ MaxBlocks \in Nat /\ TotalButtonsCap \in Nat /\ ButtonsPerActionsBlock \in Nat \ {0}
    /\ 1 + (TotalButtonsCap + ButtonsPerActionsBlock - 1) \div ButtonsPerActionsBlock
          <= MaxBlocks

\* Kinds: "narration" matches the catalog; "open card" and "fence" open and close
\* fences; "card" is JSON of so many blocks, 0 if it is bad; "bold line" was a heading.
Kinds == {"text", "heading", "narration", "blank", "open card", "fence", "card", "bold line"}
\* The text of an item, for a link that of its URL, is "marked" if a pair of ** or __
\* is in it (https://a/__init__.py), "bold" if they are single asterisks and
\* "stripped" if they are gone; "spaced" if runs of blanks are in it, or begin its
\* line, and "collapsed" if they have become one; "cut" if it is not there any more.
Texture == {"plain", "marked", "bold", "stripped", "spaced", "collapsed", "cut"}
Item == [what : {"word", "url", "md link", "link"}, code : BOOLEAN, text : Texture]
LineType ==
    {l \in [kind : Kinds, items : Seq(Item), long : BOOLEAN, blocks : Nat] :
        l.kind = "blank" => ~l.long}
Line(kind, items) == [kind |-> kind, items |-> items, long |-> FALSE, blocks |-> 0]

\* What may go into a post, as the lines the code itself writes.
RichMessage == Line("text", <<[what |-> "word", code |-> FALSE, text |-> "plain"]>>)

Lines(text) == ToSet(text)

(* ------------------------------ narration -------------------------------- *)

\* LooksLike: every line that is not blank is short and in the catalog.
LooksLike(text) ==
    LET said == {l \in Lines(text) : l.kind # "blank"}
    IN  said # {} /\ \A l \in said : l.kind = "narration" /\ ~l.long

(* ------------------------------- mrkdwn ---------------------------------- *)

Fences == {"open card", "fence"}

\* A line is code if an odd number of fence lines comes before it.
InFence(text, i) ==
    Cardinality({j \in 1..(i - 1) : text[j].kind \in Fences}) % 2 = 1

\* applyOutsideInlineCode.
Outside(item) == ~item.code

\* The bold markers of the whole segment, then its links, which by then may have a
\* URL of another text.
Translated(item) ==
    [item EXCEPT !.text = IF @ = "marked" THEN "bold" ELSE @,
                 !.what = IF @ = "md link" THEN "link" ELSE @]

\* An item of a heading, code or not.
InHeading(item) ==
    [item EXCEPT !.text = IF @ = "marked" THEN "stripped" ELSE @,
                 !.what = IF @ = "md link" THEN "link" ELSE @]

\* translateLine: a heading becomes a bold line.
TranslateLine(line) ==
    IF line.kind = "heading"
    THEN [line EXCEPT !.kind = "bold line",
                      !.items = [i \in DOMAIN @ |-> InHeading(@[i])]]
    ELSE [line EXCEPT !.items =
            [i \in DOMAIN @ |-> IF Outside(@[i]) THEN Translated(@[i]) ELSE @[i]]]

\* ToSlack.
ToSlack(text) ==
    [i \in DOMAIN text |->
        IF text[i].kind \in Fences \/ InFence(text, i) THEN text[i]
        ELSE TranslateLine(text[i])]

(* --------------------------- cards and buttons --------------------------- *)

\* ExtractBlockKit: the first line that opens a card and the first fence after it
\* with something in between.
CardFences(text) ==
    {p \in (DOMAIN text) \X (DOMAIN text) :
        /\ p[2] > p[1] + 1 /\ text[p[1]].kind = "open card" /\ text[p[2]].kind = "fence"
        /\ \A q \in (p[1] + 2)..(p[2] - 1) : text[q].kind # "fence"
        /\ \A o \in 1..(p[1] - 1) : text[o].kind # "open card"}

Payload(text) ==
    LET p == CHOOSE c \in CardFences(text) : TRUE
    IN  SelectSeq(SubSeq(text, p[1] + 1, p[2] - 1), LAMBDA l : l.kind # "blank")
Prose(text) == LET p == CHOOSE c \in CardFences(text) : TRUE
               IN  SubSeq(text, 1, p[1] - 1) \o SubSeq(text, p[2] + 1, Len(text))

IsBlank(text) == \A l \in Lines(text) : l.kind = "blank"

\* renderBlockKit: how many blocks, 0 if the payload will not do.
RenderBlockKit(payload) ==
    IF Len(payload) = 1 /\ payload[1].kind = "card" /\ payload[1].blocks <= MaxBlocks
    THEN payload[1].blocks ELSE 0

LinksOf(line) == Cardinality({j \in DOMAIN line.items : line.items[j].what = "link"})
LinkCount(text) == FoldLeft(LAMBDA n, l : n + LinksOf(l), 0, text)

\* convertLinksToButtons: a section of what is left, and rows of buttons.
Buttons(text) ==
    IF LinkCount(text) \in 1..TotalButtonsCap THEN LinkCount(text) ELSE 0
Rows(n) == (n + ButtonsPerActionsBlock - 1) \div ButtonsPerActionsBlock
\* The links are cut out, of code too, and runs of blanks collapsed throughout.
Stripped(item) ==
    [item EXCEPT !.text = IF item.what = "link" THEN "cut"
                          ELSE IF @ = "spaced" THEN "collapsed" ELSE @]
WithoutLinks(text) ==
    [i \in DOMAIN text |->
        [text[i] EXCEPT !.items = [j \in DOMAIN @ |-> Stripped(@[j])]]]

\* A line of links only; a link in code leaves its backticks behind.
IsGone(line) ==
    /\ line.kind \in {"text", "blank"}
    /\ \A j \in DOMAIN line.items : line.items[j].what = "link" /\ ~line.items[j].code
Section(text) ==
    IF \A l \in Lines(text) : IsGone(l) THEN << >> ELSE WithoutLinks(text)

\* A post: its text, the blocks beside it, how many links are buttons, and the lines
\* Slack shows, which are the text if there are no blocks.
Plain(text) == [text |-> text, blocks |-> 0, buttons |-> 0, shown |-> text]
Card(text, n) == [text |-> text, blocks |-> n, buttons |-> 0, shown |-> << >>]
Promoted(text, section, n) ==
    [text |-> text, blocks |-> (IF section = << >> THEN 0 ELSE 1) + Rows(n),
     buttons |-> n, shown |-> section]

Fallback(text) == IF IsBlank(Prose(text)) THEN <<RichMessage>> ELSE ToSlack(Prose(text))

\* Mutant: a card that does not render is sent as it came.
BuildReplyOpts_Raw(text) ==
    LET n == IF CardFences(text) = {} THEN 0 ELSE RenderBlockKit(Payload(text))
    IN  IF n > 0 THEN Card(Fallback(text), n) ELSE Plain(ToSlack(text))

\* Mutant: the fallback is what the buttons leave of the prose.
BuildReplyOpts_StrippedFallback(text) ==
    LET converted == ToSlack(text)
        n == Buttons(converted)
    IN  IF CardFences(text) # {} THEN Card(Fallback(text), RenderBlockKit(Payload(text)))
        ELSE IF n = 0 THEN Plain(converted)
        ELSE Promoted(WithoutLinks(converted), Section(converted), n)

\* BuildReplyOpts: a card, or a text with its links as buttons or as they are.
BuildReplyOpts(text) ==
    IF CardFences(text) # {}
    THEN LET n == RenderBlockKit(Payload(text))
             notice == IF n = 0 \/ IsBlank(Prose(text)) THEN <<RichMessage>> ELSE << >>
             prose == IF IsBlank(Prose(text)) THEN << >> ELSE ToSlack(Prose(text))
         IN  IF n = 0 THEN Plain(prose \o notice) ELSE Card(prose \o notice, n)
    ELSE LET converted == ToSlack(text)
             n == Buttons(converted)
         IN  IF n = 0 THEN Plain(converted)
             ELSE Promoted(converted, Section(converted), n)

\* What becomes of an answer: nothing, or one post.
Nothing == Plain(<< >>)
Reply(text) == IF IsBlank(text) \/ LooksLike(text) THEN Nothing ELSE BuildReplyOpts(text)

(* ----------------------------- properties -------------------------------- *)

\* An answer with a line of content is posted, however much narration is beside it
\* (silentnarration.go:107-117).
ContentIsPosted(text) ==
    (\E l \in Lines(text) : l.kind \in {"text", "heading"} \/ l.long)
        => Reply(text).text # << >>

\* The fence and the JSON of a card never reach the channel as text, whether it
\* renders or not (blockkit.go:84-95).
NoJSONWall(text) ==
    /\ CardFences(text) # {}
    /\ Cardinality({i \in DOMAIN text : text[i].kind = "open card"}) = 1
    /\ \A i \in DOMAIN text, p \in CardFences(text) :
          text[i].kind = "card" => i \in p[1]..p[2]
    => \A l \in Lines(Reply(text).text) : l.kind \notin {"open card", "card"}

\* Code, as the answer has it: inline, but not in a heading, or between two fences.
IsCode(text, i, j) ==
    \/ text[i].items[j].code /\ text[i].kind # "heading"
    \/ text[i].kind \notin Fences /\ InFence(text, i)

\* A bare URL, a link written for Slack, or one in CommonMark that is not code.
IsLink(text, i, j) ==
    LET item == text[i].items[j]
    IN  \/ item.what \in {"url", "link"}
        \/ /\ item.what = "md link" /\ ~item.code
           /\ text[i].kind \notin Fences /\ ~InFence(text, i)

\* No card: the lines of the answer are those of the post.
LineByLine(text) == Reply(text) # Nothing /\ CardFences(text) = {}

\* Every link is in the text that notifications and old clients show, buttons or
\* not, in Slack's syntax, with its URL as it was written, unless bold markers are in
\* it (blockkit.go:98-111, mrkdwn.go:13-19).
LinksReachText(text) ==
    LineByLine(text) =>
        \A i \in DOMAIN text : \A j \in DOMAIN text[i].items :
            IsLink(text, i, j) =>
                LET item == text[i].items[j]
                    sent == Reply(text).text[i].items[j]
                IN  /\ sent.what = IF item.what = "url" THEN "url" ELSE "link"
                    /\ sent.text = item.text \/ (item.text = "marked" /\ ~IsCode(text, i, j))

\* A message never has more blocks than Slack takes (blockkit.go:17-20).
WithinCeiling(text) == Reply(text).blocks <= MaxBlocks

\* Code that is not in a heading is sent as it was written, and so does Slack show
\* it, but for links and runs of blanks in it when links are made buttons
\* (mrkdwn.go:18-19, 74-77).
CodeUntouched(text) ==
    LineByLine(text) =>
        \A i \in DOMAIN text : \A j \in DOMAIN text[i].items :
            IsCode(text, i, j) =>
                LET item == text[i].items[j]
                IN  /\ Reply(text).text[i].items[j] = item
                    /\ \/ Reply(text).shown[i].items[j] = item
                       \/ /\ Reply(text).buttons > 0
                          /\ item.what = "link" \/ item.text = "spaced"

\* What the comments say of links in CommonMark: [text](url) becomes <url|text>
\* (mrkdwn.go:13-16).
LinksAsWritten(text) ==
    LineByLine(text) =>
        \A i \in DOMAIN text : \A j \in DOMAIN text[i].items :
            IsLink(text, i, j) /\ text[i].items[j].what = "md link" =>
                Reply(text).text[i].items[j].text = text[i].items[j].text

\* What the comments say of code: fenced and inline, it is left untouched
\* (mrkdwn.go:18-19).
CodeAsWritten(text) ==
    LineByLine(text) =>
        \A i \in DOMAIN text : \A j \in DOMAIN text[i].items :
            IsCode(text, i, j) => Reply(text).shown[i].items[j] = text[i].items[j]

=============================================================================
