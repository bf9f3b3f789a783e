------------------------------ MODULE Reviews ------------------------------
(***************************************************************************)
(* Guest reviews: ReviewService.create_review of app/services/review.py,   *)
(* which commits and publishes twice, and the keyword sentiment of         *)
(* app/services/sentiment.py.                                              *)
(*                                                                         *)
(* A comment is the number of its positive and of its negative words.      *)
(***************************************************************************)
EXTENDS Integers, Sequences

CONSTANTS
  Clients,     \* concurrent HTTP requests, one at a time per client
  ReviewIds,   \* ids the database may hand out
  Hits         \* how many words of one list a comment may have

VARIABLES
  comment,     \* table reviews, by id: the words of the comment
  sentiment,   \* and the column sentiment, "none" while it is null
  req,         \* what each client's request is about to do
  events,      \* topic review.events: the events of every review, in order
  connected,   \* KafkaEventPublisher._producer is not None
  broken       \* history: reviews a request died over

vars == <<comment, sentiment, req, events, connected, broken>>

Labels == {"NEGATIVE", "NEUTRAL", "POSITIVE"}

Comment == [pos : Hits, neg : Hits]

Event == {[kind |-> "ReviewCreated", sentiment |-> "none"]}
           \cup [kind : {"SentimentCalculated"}, sentiment : Labels]

Idle == [pc |-> "idle"]

\* `sent`: the broker has the event of the present step already.
Request ==
  {Idle} \cup [pc : {"created", "score", "announce"}, review : ReviewIds, sent : BOOLEAN]

WorksOn(c, r) == req[c] # Idle /\ req[c].review = r

\* Mutation: the thresholds are tested in the wrong order of magnitude.
LabelSwapped(words) ==
  LET margin == 20 * (words.pos - words.neg)  hits == words.pos + words.neg IN
  CASE margin > 3 * hits -> "POSITIVE"
    [] margin > -3 * hits /\ margin <= 3 * hits -> "NEGATIVE"
    [] OTHER -> "NEUTRAL"

\* score_sentiment: (pos - neg) / (pos + neg) against 0.15 and -0.15; a comment
\* without a word of the lists is NEUTRAL.
Label(words) ==
  LET margin == 20 * (words.pos - words.neg)  hits == words.pos + words.neg IN
  CASE margin > 3 * hits -> "POSITIVE"
    [] margin < -3 * hits -> "NEGATIVE"
    [] OTHER -> "NEUTRAL"
-----------------------------------------------------------------------------

Continue(c, pc, r) == req' = [req EXCEPT ![c] = [pc |-> pc, review |-> r, sent |-> FALSE]]

Created == [kind |-> "ReviewCreated", sentiment |-> "none"]

Scored(label) == [kind |-> "SentimentCalculated", sentiment |-> label]

\* Without a producer the event is dropped and the request goes on.
Publish(r, event) ==
  events' = IF connected THEN [events EXCEPT ![r] = Append(@, event)] ELSE events

\* The producer is not idempotent (kafka_producer.py): the broker appends the
\* event, its answer is lost, and the client will send the event again (bound:
\* once a publish).
PublishUnanswered(c) ==
  /\ req[c].pc \in {"created", "announce"}
  /\ connected /\ ~req[c].sent
  /\ LET r == req[c].review IN
     Publish(r, IF req[c].pc = "created" THEN Created ELSE Scored(Label(comment[r])))
  /\ req' = [req EXCEPT ![c].sent = TRUE]
  /\ UNCHANGED <<comment, sentiment, connected, broken>>

Create(c, r, words) ==
  /\ req[c] = Idle
  /\ r \notin DOMAIN comment
  /\ comment' = [x \in DOMAIN comment \cup {r} |-> IF x = r THEN words ELSE comment[x]]
  /\ Continue(c, "created", r)
  /\ UNCHANGED <<sentiment, events, connected, broken>>

PublishCreated(c) ==
  /\ req[c].pc = "created"
  /\ Publish(req[c].review, Created)
  /\ Continue(c, "score", req[c].review)
  /\ UNCHANGED <<comment, sentiment, connected, broken>>

\* Mutation: the label is announced before it is committed.
WriteSentimentLate(c) ==
  /\ req[c].pc = "score"
  /\ Continue(c, "announce", req[c].review)
  /\ Publish(req[c].review, Scored(Label(comment[req[c].review])))
  /\ UNCHANGED <<comment, sentiment, connected, broken>>

WriteSentiment(c) ==
  /\ req[c].pc = "score"
  /\ LET r == req[c].review IN
     /\ sentiment' = [sentiment EXCEPT ![r] = Label(comment[r])]
     /\ Continue(c, "announce", r)
  /\ UNCHANGED <<comment, events, connected, broken>>

PublishSentiment(c) ==
  /\ req[c].pc = "announce"
  /\ LET r == req[c].review IN Publish(r, Scored(Label(comment[r])))
  /\ req' = [req EXCEPT ![c] = Idle]
  /\ UNCHANGED <<comment, sentiment, connected, broken>>

\* An awaited call raises or the process dies: what is committed stays.
Fail(c) ==
  /\ req[c] # Idle
  /\ broken' = broken \cup {req[c].review}
  /\ req' = [req EXCEPT ![c] = Idle]
  /\ UNCHANGED <<comment, sentiment, events, connected>>

Init ==
  /\ comment = [r \in {} |-> {}]
  /\ sentiment = [r \in ReviewIds |-> "none"]
  /\ req = [c \in Clients |-> Idle]
  /\ events = [r \in ReviewIds |-> <<>>]
  /\ connected \in BOOLEAN
  /\ broken = {}

Next ==
  \E c \in Clients :
    \/ \E r \in ReviewIds, words \in Comment : Create(c, r, words)
    \/ PublishUnanswered(c)
    \/ PublishCreated(c)
    \/ WriteSentiment(c)
    \/ PublishSentiment(c)
    \/ Fail(c)

Spec == Init /\ [][Next]_vars
-----------------------------------------------------------------------------

\* Every row, request and event is of its kind.
TypeOK ==
  /\ \E ids \in SUBSET ReviewIds : comment \in [ids -> Comment]
  /\ sentiment \in [ReviewIds -> Labels \cup {"none"}]
  /\ req \in [Clients -> Request]
  /\ \A c \in Clients : req[c] # Idle => req[c].review \in DOMAIN comment
  /\ events \in [ReviewIds -> Seq(Event)]
  /\ connected \in BOOLEAN
  /\ broken \subseteq DOMAIN comment

\* Whatever fails in between or is sent again, the topic tells of a review
\* before it tells of its sentiment, never of the review after that, and of no
\* other sentiment than the table holds; a review nobody works on any more is
\* told of in full unless its request died or there is no producer, and one
\* without a sentiment is one whose request died.
ToldAsStored ==
  \A r \in DOMAIN comment :
    /\ \A n \in DOMAIN events[r] : events[r][n] \in {Created, Scored(sentiment[r])}
    /\ \A n \in DOMAIN events[r] : events[r][n] # Created =>
         /\ \E m \in 1..(n - 1) : events[r][m] = Created
         /\ \A m \in DOMAIN events[r] : m > n => events[r][m] # Created
    /\ (\A c \in Clients : ~WorksOn(c, r)) /\ r \notin broken =>
         /\ sentiment[r] # "none"
         /\ connected => \E n \in DOMAIN events[r] : events[r][n] # Created

\* A comment with more positive words and no more negative ones than another is
\* never labelled worse, and swapping the two kinds of words swaps the labels:
\* the strict thresholds and the empty comment leave no gap and no overlap.
LabelFollowsWords ==
  \A r, s \in DOMAIN comment : sentiment[r] # "none" /\ sentiment[s] # "none" =>
    /\ comment[r].pos >= comment[s].pos /\ comment[r].neg <= comment[s].neg
         /\ sentiment[s] # "NEGATIVE" => sentiment[r] \in {sentiment[s], "POSITIVE"}
    /\ comment[r].pos = comment[s].neg /\ comment[r].neg = comment[s].pos
         => (sentiment[r] = "POSITIVE" <=> sentiment[s] = "NEGATIVE")
=============================================================================
