------------------------------ MODULE Livechat ------------------------------
(***************************************************************************)
(* The live-chat agent: discuss.channel's message_post, which answers a    *)
(* comment by asking the language model and posting, as the bot, in the    *)
(* same channel and transaction, and so re-enters itself.                  *)
(***************************************************************************)
EXTENDS Naturals, Sequences

CONSTANTS
  Visitors,     \* requests that post, of visitors and human operators
  MaxChatTries, \* service.model.retrying: runs of one request
  MaxDepth      \* bound: nested posts

ASSUME ChatIsBounded == MaxChatTries \in Nat \ {0} /\ MaxDepth \in Nat

VARIABLES
  bot,      \* whether the bot's user exists
  agent,    \* whether its ai.agent record exists
  posting,  \* [Visitors -> the request]
  talk      \* the exchanges committed: a message and the answers below it

chatVars == <<bot, agent, posting, talk>>

Quiet == [phase |-> "quiet"]
Kinds == [livechat : BOOLEAN, comment : BOOLEAN]

LivechatTypeOK ==
  /\ bot \in BOOLEAN /\ agent \in BOOLEAN
  /\ \A v \in Visitors : posting[v] = Quiet \/
       /\ posting[v].phase \in {"saved", "asking", "broken", "done", "over"}
       /\ posting[v].try \in 1..MaxChatTries
       /\ posting[v].answers \in 0..MaxDepth
       /\ posting[v].author \in {"human", "bot"}
  /\ \A i \in DOMAIN talk : talk[i].message \in Kinds /\ talk[i].answers \in 0..MaxDepth
-----------------------------------------------------------------------------
LivechatInit ==
  /\ bot \in BOOLEAN /\ agent \in BOOLEAN
  /\ posting = [v \in Visitors |-> Quiet]
  /\ talk = <<>>

\* The person's message is saved; author is whose post is being handled.  The
\* transaction sees the users and agents of its start.
Saved(message, try) ==
  [phase |-> "saved", message |-> message, author |-> "human", answers |-> 0,
   bot |-> bot, agent |-> agent, try |-> try]

Post(v) ==
  /\ posting[v] = Quiet
  /\ \E message \in Kinds : posting' = [posting EXCEPT ![v] = Saved(message, 1)]
  /\ UNCHANGED <<bot, agent, talk>>

Triggers_AnyAuthor(p) == p.message.livechat /\ p.bot /\ p.message.comment

\* What of a post makes the agent answer; its own posts are comments too.
Triggers(p) ==
  /\ p.message.livechat
  /\ p.bot
  /\ p.author # "bot"
  /\ p.message.comment

\* The guards of message_post, for the message or for the bot's answer.
Consider(v) ==
  /\ posting[v].phase = "saved"
  /\ posting' = [posting EXCEPT ![v].phase = IF Triggers(posting[v]) /\ posting[v].agent THEN "asking" ELSE "done"]
  /\ UNCHANGED <<bot, agent, talk>>

\* _get_ai_response.  Every exception is logged and swallowed: one of the
\* model's service leaves no answer, one of the database a broken
\* transaction.
Respond(v) ==
  /\ posting[v].phase = "asking"
  /\ \/ /\ posting[v].answers < MaxDepth
        /\ posting' = [posting EXCEPT ![v].phase = "saved", ![v].author = "bot", ![v].answers = @ + 1]
     \/ \E outcome \in {"done", "broken"} : posting' = [posting EXCEPT ![v].phase = outcome]
  /\ UNCHANGED <<bot, agent, talk>>

\* A broken transaction cannot commit, and its error is not one to retry.
Fail(v) ==
  /\ posting[v].phase = "broken"
  /\ posting' = [posting EXCEPT ![v] = Quiet]
  /\ UNCHANGED <<bot, agent, talk>>

CommitPost(v) ==
  /\ posting[v].phase = "done"
  /\ posting' = [posting EXCEPT ![v].phase = "over"]
  /\ talk' = Append(talk, [message |-> posting[v].message, answers |-> posting[v].answers])
  /\ UNCHANGED <<bot, agent>>

\* A serialization failure at the commit: the model is asked again.
RetryPost(v) ==
  /\ posting[v].phase = "done"
  /\ posting' = [posting EXCEPT ![v] =
                   IF posting[v].try < MaxChatTries
                   THEN Saved(posting[v].message, posting[v].try + 1) ELSE Quiet]
  /\ UNCHANGED <<bot, agent, talk>>

\* An administrator adds or removes the bot's user or the agent's record.
SetUp ==
  /\ bot' \in BOOLEAN /\ agent' \in BOOLEAN
  /\ UNCHANGED <<posting, talk>>

LivechatNext ==
  \/ \E v \in Visitors :
       Post(v) \/ Consider(v) \/ Respond(v) \/ Fail(v) \/ CommitPost(v) \/ RetryPost(v)
  \/ SetUp

LivechatSpec == LivechatInit /\ [][LivechatNext]_chatVars
-----------------------------------------------------------------------------
\* "Prevent infinite AI loops": a message that stays in the channel has at
\* most one answer below it, however often its request ran, and none unless
\* it is a person's comment in a live chat.
OneAnswerPerComment ==
  \A i \in DOMAIN talk :
    talk[i].answers <= (IF talk[i].message.livechat /\ talk[i].message.comment THEN 1 ELSE 0)
=============================================================================
