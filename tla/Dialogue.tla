------------------------------ MODULE Dialogue ------------------------------
(***************************************************************************)
(* What the interviewer remembers of the talk and what it may not say      *)
(* again: InterviewMemoryService, the questions InterviewCaseStateBuilder  *)
(* counts as recent, and NativeInterviewQualityValidator.  A message is    *)
(* [id, topic, plain, acknowledges, closes]: plain when it asks for the    *)
(* bare fact of its topic, acknowledges when it refers to what was said.   *)
(* A user turn's reply is [topic, told, complains].                        *)
(***************************************************************************)
EXTENDS Naturals, SequencesExt

CONSTANTS None,
          Recent      \* assistant turns whose questions count as recent

Asked(turns) == SelectSeq(turns, LAMBDA t : t.role = "assistant")

\* _recent_assistant_questions: the latest, whoever wrote them.
RecentQuestions(turns) ==
    LET asked == Asked(turns)
    IN  {asked[i].message : i \in {i \in DOMAIN asked : i + Recent > Len(asked)}}

LastQuestion(turns) ==
    LET asked == Asked(turns) IN IF asked = <<>> THEN None ELSE asked[Len(asked)].message

\* annotate_user_answer: the topic is that of the question before, or else
\* the answer's own.
TopicOfAnswer(turns, i) ==
    LET question == LastQuestion(SubSeq(turns, 1, i - 1)) IN
    IF question # None /\ question.topic # None THEN question.topic ELSE turns[i].reply.topic

\* build_memory: a topic once answered stays answered.
AnsweredTopics(turns) ==
    {TopicOfAnswer(turns, i) : i \in {i \in DOMAIN turns : turns[i].role = "user"
                                                         /\ turns[i].reply.told}} \ {None}

\* validate: the message repeats a recent question, stays where the applicant
\* has just complained of a repetition, or asks again for a plan that was told.
Objectionable(message, turns, reply) ==
    \/ message.id \in {q.id : q \in RecentQuestions(turns)}
    \/ /\ reply.complains /\ LastQuestion(turns) # None
       /\ message.topic = LastQuestion(turns).topic /\ ~ message.acknowledges
    \/ /\ message.plain /\ message.topic = "post_study_plan"
       /\ "post_study_plan" \in AnsweredTopics(turns)
=============================================================================
