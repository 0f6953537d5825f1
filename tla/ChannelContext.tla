---------------------------- MODULE ChannelContext --------------------------
(* The preamble of a spawn (channelcontext): the channel's last messages, then *)
(* the current thread, by two calls to Slack between which others may post.    *)
(* Slack is external; a message is its number.                                 *)
EXTENDS Integers, Sequences, FiniteSets, SequencesExt

CONSTANTS
    HistoryLimit,
    RepliesPage,    \* how many messages one page of replies holds
    MaxMessages,    \* bound: messages in channel and thread
    Failed          \* the answer of a call that failed

ASSUME ContextAssumption ==
    /\ {HistoryLimit, MaxMessages} \subseteq Nat /\ RepliesPage \in Nat \ {0}

VARIABLES
    roots,      \* the channel's root messages, oldest first
    replies,    \* the replies of the current thread, oldest first
    threadTS,   \* its root
    trigger,    \* the message that the spawn answers
    wordless,   \* whether it is a file without a text
    hist,       \* what the first call returned
    fetched,    \* how far Fetch is: 0, 1 or 2 calls
    context     \* the preamble: [root, thread]

contextVars == <<roots, replies, threadTS, trigger, wordless, hist, fetched, context>>

NoContext == [root |-> << >>, thread |-> << >>]
Messages == Len(roots) + Len(replies)

ContextTypeOK ==
    /\ IsInjective(roots \o replies) /\ threadTS \in ToSet(roots)
    /\ trigger \in ToSet(roots \o replies) /\ wordless \in BOOLEAN
    /\ fetched \in 0..2
    /\ \A i \in DOMAIN context.root : context.root[i].id \in ToSet(roots)
    /\ ToSet(context.thread) \subseteq ToSet(<<threadTS>> \o replies)

\* Somebody posts, at the root or in the thread.
PostRoot ==
    /\ fetched < 2 /\ Messages < MaxMessages
    /\ roots' = Append(roots, Messages + 1)
    /\ UNCHANGED <<replies, threadTS, trigger, wordless, hist, fetched, context>>

PostReply ==
    /\ fetched < 2 /\ Messages < MaxMessages
    /\ replies' = Append(replies, Messages + 1)
    /\ UNCHANGED <<roots, threadTS, trigger, wordless, hist, fetched, context>>

\* Slack's history: the newest messages, each with its count of replies.
History ==
    LET n == IF Len(roots) < HistoryLimit THEN Len(roots) ELSE HistoryLimit
    IN  [i \in 1..n |-> LET id == roots[Len(roots) + 1 - i]
                        IN  [id |-> id, count |-> IF id = threadTS THEN Len(replies) ELSE 0]]

\* Slack's replies: the root and the oldest replies, one page.
Replies ==
    LET all == <<threadTS>> \o replies
    IN  SubSeq(all, 1, IF Len(all) < RepliesPage THEN Len(all) ELSE RepliesPage)

\* Whether anything is left of the text of a message that CompactText has trimmed.
HasText(id) == id # trigger \/ ~wordless

\* formatThreadLine: a message without text has no line; only the trigger may be
\* without.
ThreadLines(thread) ==
    IF \A i \in DOMAIN thread : HasText(thread[i]) THEN thread
    ELSE RemoveAt(thread, CHOOSE i \in DOMAIN thread : ~HasText(thread[i]))

\* replyMetadata: how many replies Slack counted.
ReplyMetadata(m) == m.count

\* formatRootLine: a file has a line, with a mark on the current thread.
RootLines(root) ==
    [i \in DOMAIN root |-> [id |-> root[i].id, count |-> ReplyMetadata(root[i]),
                            here |-> root[i].id = threadTS]]

Format(root, thread) == [root |-> RootLines(root), thread |-> ThreadLines(thread)]

FetchHistory ==
    /\ fetched = 0
    /\ \/ hist' = History /\ fetched' = 1
       \/ hist' = Failed /\ fetched' = 2
    /\ UNCHANGED <<roots, replies, threadTS, trigger, wordless, context>>

\* Mutant: the thread is cut to the replies the first call knew of.
FetchReplies_AsCounted ==
    /\ fetched = 1
    /\ fetched' = 2
    /\ LET n == IF hist = << >> THEN 0 ELSE hist[1].count
       IN  context' = Format(hist, SubSeq(Replies, 1, n))
    /\ UNCHANGED <<roots, replies, threadTS, trigger, wordless, hist>>

\* Replies may fail by themselves: only the thread section is dropped.
FetchReplies ==
    /\ fetched = 1
    /\ fetched' = 2
    /\ \E thread \in {Replies, << >>} : context' = Format(hist, thread)
    /\ UNCHANGED <<roots, replies, threadTS, trigger, wordless, hist>>

\* Nothing is fetched.
ContextInit ==
    /\ roots = <<1>> /\ replies = << >> /\ threadTS = 1 /\ trigger = 1
    /\ wordless = FALSE /\ hist = << >> /\ fetched = 2 /\ context = NoContext

\* A channel in which the trigger is the last message of its thread; a top-level
\* message is the root of its own.
BeginContext ==
    /\ \E n \in 1..MaxMessages, k \in 0..(MaxMessages - 1) :
         /\ n + k <= MaxMessages
         /\ roots' = [i \in 1..n |-> i] /\ replies' = [i \in 1..k |-> n + i]
         /\ threadTS' \in 1..n
         /\ trigger' = IF k = 0 THEN threadTS' ELSE n + k
    /\ wordless' \in BOOLEAN
    /\ fetched' = 0
    /\ UNCHANGED <<hist, context>>

EndContext ==
    /\ roots' = <<1>> /\ replies' = << >> /\ threadTS' = 1 /\ trigger' = 1
    /\ wordless' = FALSE /\ hist' = << >> /\ context' = NoContext
    /\ UNCHANGED fetched

ContextStep == PostRoot \/ PostReply \/ FetchHistory \/ FetchReplies

(* ----------------------------- properties -------------------------------- *)

\* What the agent is asked to answer is in its preamble, however many messages came
\* after it, and the thread section has every reply that the root line counts,
\* though others post between the two calls; if the thread was fetched and fits a
\* page (channelcontext.go:83-86, 97-111, 134-137, 186-191).
PreambleIsWhole ==
    context.thread # << >> /\ ~wordless /\ Len(replies) < RepliesPage =>
        /\ trigger \in ToSet(context.thread)
        /\ \A i \in DOMAIN context.root :
              context.root[i].here => Len(context.thread) > context.root[i].count

=============================================================================
