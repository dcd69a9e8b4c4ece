---------------------------- MODULE AddonsProofs ----------------------------
(***************************************************************************)
(* Proofs about the live chat, the payslip, the log's retention, the       *)
(* client portal and the tools, each for any values of its constants, and  *)
(* about all of them side by side.                                         *)
(***************************************************************************)
EXTENDS Addons, FiniteSetTheorems, SequenceTheorems, TLAPS

-----------------------------------------------------------------------------
(***************************************************************************)
(* The live chat.                                                          *)
(***************************************************************************)
PostPhases == {"saved", "asking", "broken", "done", "over"}

PostingType == [phase : PostPhases, message : Kinds, author : {"human", "bot"},
                answers : {0, 1}, bot : BOOLEAN, agent : BOOLEAN, try : Nat]

Exchanges == [message : Kinds, answers : {0, 1}]

Answerable(message) == message.livechat /\ message.comment

\* A post is handled in the bot's name exactly when the agent has answered,
\* the agent is asked only before that, and only about a person's comment.
PostingInv(p) ==
  p = Quiet \/
    /\ p \in PostingType
    /\ p.author = "bot" <=> p.answers = 1
    /\ p.phase = "asking" => p.answers = 0
    /\ p.phase = "asking" \/ p.answers = 1 => Answerable(p.message)

LivechatInv ==
  /\ posting \in [Visitors -> {Quiet} \cup PostingType]
  /\ \A v \in Visitors : PostingInv(posting[v])
  /\ talk \in Seq(Exchanges)
  /\ \A i \in DOMAIN talk : talk[i].answers = 1 => Answerable(talk[i].message)
  /\ bot \in BOOLEAN /\ agent \in BOOLEAN

\* One post moves on and no exchange is committed.
LEMMA PostMoves ==
  ASSUME LivechatInv, NEW v \in Visitors, NEW p, posting' = [posting EXCEPT ![v] = p],
         PostingInv(p), talk' = talk, bot' = bot, agent' = agent
  PROVE  LivechatInv'
<1>1. p \in {Quiet} \cup PostingType
  BY DEF PostingInv
<1> QED BY <1>1 DEF LivechatInv

\* A run of a post starts with the person's message, unanswered.
LEMMA SavedIsPosting ==
  ASSUME LivechatInv, NEW message \in Kinds, NEW try \in Nat
  PROVE  PostingInv(Saved(message, try))
<1> DEFINE p == Saved(message, try)
<1>1. p \in PostingType
  BY DEF LivechatInv, Saved, PostingType, PostPhases
<1>2. p.author = "human" /\ p.answers = 0 /\ p.phase = "saved"
  BY DEF Saved
<1> HIDE DEF p
<1>3. PostingInv(p)
  BY <1>1, <1>2 DEF PostingInv
<1> QED BY <1>3 DEF p

\* A post that is not quiet.
LEMMA PostingOf ==
  ASSUME LivechatInv, NEW v \in Visitors, posting[v].phase # "quiet"
  PROVE  PostingInv(posting[v]) /\ posting[v] \in PostingType /\ posting[v] # Quiet
BY DEF LivechatInv, PostingInv, Quiet

\* Every step of the live chat keeps its invariant.
LEMMA LivechatStep ==
  ASSUME LivechatInv, [LivechatNext]_chatVars
  PROVE  LivechatInv'
<1>1. ASSUME NEW v \in Visitors, Post(v) PROVE LivechatInv'
  <2>1. PICK message \in Kinds : posting' = [posting EXCEPT ![v] = Saved(message, 1)]
    BY <1>1 DEF Post
  <2>2. 1 \in Nat
    OBVIOUS
  <2>3. PostingInv(Saved(message, 1))
    BY <2>2, SavedIsPosting
  <2> QED BY <1>1, <2>1, <2>3, PostMoves DEF Post
<1>2. ASSUME NEW v \in Visitors, Consider(v) PROVE LivechatInv'
  <2> DEFINE p == posting[v]
             q == [p EXCEPT !.phase = IF Triggers(p) /\ p.agent THEN "asking" ELSE "done"]
  <2>1. /\ p.phase = "saved" /\ posting' = [posting EXCEPT ![v] = q]
        /\ bot' = bot /\ agent' = agent /\ talk' = talk
    BY <1>2 DEF Consider
  <2>2. PostingInv(p) /\ p \in PostingType /\ p # Quiet
    BY <2>1, PostingOf
  <2>3. Triggers(p) => p.author # "bot" /\ Answerable(p.message)
    BY DEF Triggers, Answerable
  <2> HIDE DEF p
  <2>4. /\ q \in PostingType /\ q.author = p.author /\ q.answers = p.answers
        /\ q.message = p.message
        /\ q.phase = "asking" => Triggers(p)
    BY <2>2 DEF PostingType, PostPhases
  <2>5. p.answers \in {0, 1}
    BY <2>2 DEF PostingType
  <2> HIDE DEF q
  <2>6. PostingInv(q)
    BY <2>2, <2>3, <2>4, <2>5 DEF PostingInv
  <2> QED BY <2>1, <2>6, PostMoves
<1>3. ASSUME NEW v \in Visitors, Respond(v) PROVE LivechatInv'
  <2> DEFINE p == posting[v]
  <2>1. p.phase = "asking" /\ bot' = bot /\ agent' = agent /\ talk' = talk
    BY <1>3 DEF Respond
  <2>2. PostingInv(p) /\ p \in PostingType /\ p # Quiet
    BY <2>1, PostingOf
  <2>3. p.answers = 0 /\ Answerable(p.message)
    BY <2>1, <2>2 DEF PostingInv
  <2>4. CASE posting' = [posting EXCEPT ![v].phase = "saved", ![v].author = "bot", ![v].answers = @ + 1]
    <3> DEFINE q == [p EXCEPT !.phase = "saved", !.author = "bot", !.answers = p.answers + 1]
    <3>1. posting' = [posting EXCEPT ![v] = q]
      BY <2>4
    <3> HIDE DEF p
    <3>2. /\ q \in PostingType /\ q.author = "bot" /\ q.answers = 1
          /\ q.message = p.message /\ q.phase = "saved"
      <4> DEFINE a == [p EXCEPT !.phase = "saved"]  b == [a EXCEPT !.author = "bot"]
                 c == [b EXCEPT !.answers = 1]
      <4>1. a \in PostingType /\ a.message = p.message /\ a.phase = "saved"
        BY <2>2 DEF PostingType, PostPhases
      <4>2. q = c
        BY <2>3
      <4> HIDE DEF a
      <4>3. /\ b \in PostingType /\ b.message = p.message /\ b.phase = "saved"
            /\ b.author = "bot"
        BY <4>1 DEF PostingType
      <4> HIDE DEF b
      <4>4. /\ c \in PostingType /\ c.message = p.message /\ c.phase = "saved"
            /\ c.author = "bot" /\ c.answers = 1
        BY <4>3 DEF PostingType
      <4> HIDE DEF c, q
      <4> QED BY <4>2, <4>4
    <3> HIDE DEF q
    <3>3. PostingInv(q)
      BY <2>3, <3>2 DEF PostingInv
    <3> QED BY <2>1, <3>1, <3>3, PostMoves
  <2>5. ASSUME NEW outcome \in {"done", "broken"}, posting' = [posting EXCEPT ![v].phase = outcome]
        PROVE  LivechatInv'
    <3> DEFINE q == [p EXCEPT !.phase = outcome]
    <3>1. posting' = [posting EXCEPT ![v] = q]
      BY <2>5
    <3> HIDE DEF p
    <3>2. /\ q \in PostingType /\ q.author = p.author /\ q.answers = p.answers
          /\ q.message = p.message /\ q.phase # "asking"
      BY <2>2 DEF PostingType, PostPhases
    <3> HIDE DEF q
    <3>3. PostingInv(q)
      BY <2>2, <3>2 DEF PostingInv
    <3> QED BY <2>1, <3>1, <3>3, PostMoves
  <2> QED BY <1>3, <2>4, <2>5 DEF Respond
<1>4. ASSUME NEW v \in Visitors, Fail(v) PROVE LivechatInv'
  BY <1>4, PostMoves DEF Fail, PostingInv
<1>5. ASSUME NEW v \in Visitors, CommitPost(v) PROVE LivechatInv'
  <2> DEFINE p == posting[v]  q == [p EXCEPT !.phase = "over"]
             e == [message |-> p.message, answers |-> p.answers]
  <2>1. /\ p.phase = "done" /\ posting' = [posting EXCEPT ![v] = q]
        /\ talk' = Append(talk, e) /\ bot' = bot /\ agent' = agent
    BY <1>5 DEF CommitPost
  <2>2. PostingInv(p) /\ p \in PostingType /\ p # Quiet
    BY <2>1, PostingOf
  <2> HIDE DEF p
  <2>3. /\ q \in PostingType /\ q.author = p.author /\ q.answers = p.answers
        /\ q.message = p.message /\ q.phase = "over"
    BY <2>2 DEF PostingType, PostPhases
  <2>4. e \in Exchanges /\ (e.answers = 1 => Answerable(e.message))
    BY <2>2 DEF PostingType, Exchanges, PostingInv
  <2> HIDE DEF q, e
  <2>5. PostingInv(q)
    BY <2>2, <2>3 DEF PostingInv
  <2>6. /\ talk' \in Seq(Exchanges)
        /\ \A i \in DOMAIN talk' : talk'[i].answers = 1 => Answerable(talk'[i].message)
    <3>1. talk \in Seq(Exchanges) /\ \A i \in DOMAIN talk : talk[i].answers = 1 => Answerable(talk[i].message)
      BY DEF LivechatInv
    <3>2. /\ talk' \in Seq(Exchanges) /\ DOMAIN talk' = 1..(Len(talk) + 1)
          /\ talk'[Len(talk) + 1] = e
          /\ \A i \in 1..Len(talk) : talk'[i] = talk[i]
      BY <2>1, <2>4, <3>1, AppendProperties
    <3> QED BY <2>4, <3>1, <3>2
  <2>7. posting' \in [Visitors -> {Quiet} \cup PostingType]
    BY <2>1, <2>3 DEF LivechatInv
  <2>8. \A u \in Visitors : PostingInv(posting'[u])
    BY <2>1, <2>5 DEF LivechatInv
  <2> QED BY <2>1, <2>6, <2>7, <2>8 DEF LivechatInv
<1>6. ASSUME NEW v \in Visitors, RetryPost(v) PROVE LivechatInv'
  <2> DEFINE p == posting[v]
             q == IF p.try < MaxChatTries THEN Saved(p.message, p.try + 1) ELSE Quiet
  <2>1. /\ p.phase = "done" /\ posting' = [posting EXCEPT ![v] = q]
        /\ talk' = talk /\ bot' = bot /\ agent' = agent
    BY <1>6 DEF RetryPost
  <2>2. p.message \in Kinds /\ p.try \in Nat
    BY <2>1, PostingOf DEF PostingType
  <2>3. p.try + 1 \in Nat
    BY <2>2
  <2>4. PostingInv(Saved(p.message, p.try + 1)) /\ PostingInv(Quiet)
    BY <2>2, <2>3, SavedIsPosting DEF PostingInv
  <2>5. PostingInv(q)
    BY <2>4
  <2> HIDE DEF q
  <2> QED BY <2>1, <2>5, PostMoves
<1>7. CASE SetUp
  BY <1>7 DEF SetUp, LivechatInv
<1>8. CASE UNCHANGED chatVars
  BY <1>8 DEF chatVars, LivechatInv
<1> QED BY <1>1, <1>2, <1>3, <1>4, <1>5, <1>6, <1>7, <1>8 DEF LivechatNext

\* The agent never answers itself nor anything but a person's comment, and
\* answers that once, however often the post's transaction is run again.
THEOREM ChatsDoNotLoop == LivechatSpec => []OneAnswerPerComment
<1>1. LivechatInit => LivechatInv
  BY DEF LivechatInit, LivechatInv, PostingInv
<1>2. ASSUME LivechatInv PROVE OneAnswerPerComment
  <2>1. ASSUME NEW i \in DOMAIN talk
        PROVE  /\ talk[i].answers \in {0, 1}
               /\ talk[i].answers = 1 => Answerable(talk[i].message)
    <3>1. talk[i] \in Exchanges /\ (talk[i].answers = 1 => Answerable(talk[i].message))
      BY <1>2 DEF LivechatInv
    <3> QED BY <3>1 DEF Exchanges
  <2> QED BY <2>1 DEF OneAnswerPerComment, Answerable
<1> QED BY <1>1, <1>2, LivechatStep, PTL DEF LivechatSpec

-----------------------------------------------------------------------------
(***************************************************************************)
(* The payslip.                                                            *)
(***************************************************************************)
Slips == [state : {"draft", "validated"}, amounts : Seq(Nat), summed : Nat, tweaked : BOOLEAN]

\* What a slip's lines say when they were not changed by hand.
SlipInv(s) ==
  s.tweaked = FALSE => s.amounts = IF s.summed = 0 THEN <<>> ELSE <<s.summed>>

PayslipInv ==
  /\ logged \subseteq Sheets /\ validated \subseteq logged
  /\ validatedOnly \in BOOLEAN /\ inputType \in BOOLEAN
  /\ slip \in Slips /\ SlipInv(slip)

\* The hours of the timesheets there are can be summed.
LEMMA SumHoursIsNat ==
  ASSUME PayslipInv
  PROVE  SumHours \in Nat
<1>1. (IF validatedOnly THEN validated ELSE logged) \in SUBSET Sheets
  BY DEF PayslipInv
<1> QED BY <1>1, HoursAddUp DEF SumHours

\* Every step of the payslip keeps its invariant.
LEMMA PayslipStep ==
  ASSUME PayslipInv, [PayslipNext]_payslipVars
  PROVE  PayslipInv'
<1>1. slip \in Slips /\ SlipInv(slip)
  BY DEF PayslipInv
<1>2. CASE ComputeSheet
  <2>1. slip' \in Slips /\ SlipInv(slip')
    <3>1. CASE slip.state # "draft"
      BY <1>1, <1>2, <3>1 DEF ComputeSheet
    <3>2. CASE slip.state = "draft"
      <4> DEFINE n == SumHours  lines == IF n = 0 THEN <<>> ELSE <<n>>
                 a == [slip EXCEPT !.amounts = lines]
                 b == [a EXCEPT !.summed = n]
                 c == [b EXCEPT !.tweaked = FALSE]
      <4>1. n \in Nat
        BY SumHoursIsNat
      <4>2. Synced(slip.amounts, n) = lines
        <5> HIDE DEF n
        <5>1. Append(<<>>, n) = <<n>> /\ (n > 0 <=> n # 0)
          BY <4>1
        <5> QED BY <5>1 DEF Synced, Remaining
      <4>3. slip' = c
        BY <1>2, <3>2, <4>2 DEF ComputeSheet
      <4> HIDE DEF n
      <4>4. lines \in Seq(Nat)
        BY <4>1
      <4> HIDE DEF lines
      <4>5. a \in Slips /\ a.amounts = lines
        BY <1>1, <4>4 DEF Slips
      <4> HIDE DEF a
      <4>6. b \in Slips /\ b.amounts = lines /\ b.summed = n
        BY <4>1, <4>5 DEF Slips
      <4> HIDE DEF b
      <4>7. c \in Slips /\ c.amounts = lines /\ c.summed = n
        BY <4>6 DEF Slips
      <4> HIDE DEF c
      <4> QED BY <4>3, <4>7 DEF SlipInv, lines
    <3> QED BY <3>1, <3>2
  <2> QED BY <1>2, <2>1 DEF ComputeSheet, PayslipInv
<1>3. CASE Tweak
  <2>1. PICK amount \in Tweaks : slip' = [slip EXCEPT !.amounts[1] = amount, !.tweaked = TRUE]
    BY <1>3 DEF Tweak
  <2> DEFINE as == slip.amounts
             lines == [as EXCEPT ![1] = amount]
             a == [slip EXCEPT !.amounts = lines]
             b == [a EXCEPT !.tweaked = TRUE]
  <2>2. slip' = b
    BY <2>1
  <2>3. as \in Seq(Nat) /\ as # <<>> /\ amount \in Nat
    BY <1>1, <1>3, TweaksAreAmounts DEF Slips, Tweak
  <2> HIDE DEF as
  <2>4. lines \in Seq(Nat)
    <3> DEFINE last == Len(as)  i == 1
    <3>1. last \in Nat /\ last # 0
      BY <2>3, EmptySeq, LenProperties
    <3> HIDE DEF last
    <3>2. i \in 1..last /\ lines = [as EXCEPT ![i] = amount]
      BY <3>1
    <3>3. i \in 1..Len(as)
      BY <3>2 DEF last
    <3> HIDE DEF i, lines
    <3>4. [as EXCEPT ![i] = amount] \in Seq(Nat)
      BY <2>3, <3>3, ExceptSeq
    <3> QED BY <3>2, <3>4
  <2> HIDE DEF lines
  <2>5. a \in Slips
    BY <1>1, <2>4 DEF Slips
  <2> HIDE DEF a
  <2>6. b \in Slips /\ b.tweaked = TRUE
    BY <2>5 DEF Slips
  <2> HIDE DEF b
  <2>7. slip' \in Slips /\ SlipInv(slip')
    BY <2>2, <2>6 DEF SlipInv
  <2> QED BY <1>3, <2>7 DEF Tweak, PayslipInv
<1>4. CASE SetState
  <2>1. PICK state \in {"draft", "validated"} : slip' = [slip EXCEPT !.state = state]
    BY <1>4 DEF SetState
  <2>2. slip' \in Slips /\ SlipInv(slip')
    BY <1>1, <2>1 DEF Slips, SlipInv
  <2> QED BY <1>4, <2>2 DEF SetState, PayslipInv
<1>5. CASE Timesheet
  BY <1>5 DEF Timesheet, PayslipInv
<1>6. CASE SetOption
  BY <1>6 DEF SetOption, PayslipInv
<1>7. CASE UNCHANGED payslipVars
  BY <1>7 DEF payslipVars, PayslipInv
<1> QED BY <1>2, <1>3, <1>4, <1>5, <1>6, <1>7 DEF PayslipNext

\* The payslip's invariant holds throughout.
LEMMA PayslipInvariant == PayslipSpec => []PayslipInv
<1>1. ASSUME PayslipInit PROVE PayslipInv
  <2>1. <<>> \in Seq(Nat) /\ 0 \in Nat
    OBVIOUS
  <2>2. slip \in Slips /\ SlipInv(slip)
    BY <1>1, <2>1 DEF PayslipInit, Slips, SlipInv
  <2> QED BY <1>1, <2>2 DEF PayslipInit, PayslipInv
<1> QED BY <1>1, PayslipStep, PTL DEF PayslipSpec

\* A draft that is computed again and again, while timesheets come, go and are
\* validated, never has two lines, a stale one or a line of zero hours.
THEOREM SlipsStaySheets == PayslipSpec => []HoursAreSheets
<1>1. ASSUME PayslipInv PROVE HoursAreSheets
  BY <1>1 DEF PayslipInv, Slips, SlipInv, HoursAreSheets
<1> QED BY <1>1, PayslipInvariant, PTL

-----------------------------------------------------------------------------
(***************************************************************************)
(* The log's retention.                                                    *)
(***************************************************************************)
Sweeps == [phase : {"batches", "commit"}, cutoff : Int, seen : SUBSET LogRows,
           gone : SUBSET LogRows]

\* A cleanup sees rows that stay there beside it and has unlinked expired ones
\* only; when it is about to commit, it has unlinked every one.
SweepInv(s, ages, today) ==
  s = NoSweep \/
    /\ s \in Sweeps /\ s.cutoff < today + 1
    /\ \A r \in s.seen : ages[r] >= 0
    /\ s.gone \subseteq {r \in s.seen : ages[r] < s.cutoff}
    /\ s.phase = "commit" => {r \in s.seen : ages[r] < s.cutoff} \subseteq s.gone

RetentionInv ==
  /\ day \in 0..MaxDay
  /\ born \in [LogRows -> {Never, Gone} \cup 0..MaxDay]
  /\ logging \in BOOLEAN /\ keep \in Retentions
  /\ job \in [Jobs -> {"none", "active", "archived"}]
  /\ booting \subseteq Workers
  /\ SweepInv(sweep, born, day)

\* A cleanup that is running.
LEMMA SweepOf ==
  ASSUME RetentionInv, sweep.phase # "none"
  PROVE  /\ sweep \in Sweeps /\ sweep # NoSweep /\ sweep.cutoff < day + 1
         /\ \A r \in sweep.seen : born[r] >= 0
         /\ sweep.gone \subseteq {r \in sweep.seen : born[r] < sweep.cutoff}
         /\ sweep.phase = "commit" =>
              {r \in sweep.seen : born[r] < sweep.cutoff} \subseteq sweep.gone
BY DEF RetentionInv, SweepInv, NoSweep

\* What is logged beside a cleanup is none of the rows it sees.
LEMMA LogEventStep ==
  ASSUME RetentionInv, LogEvent
  PROVE  RetentionInv'
<1>1. PICK r \in LogRows : born[r] = Never /\ born' = [born EXCEPT ![r] = day]
  BY DEF LogEvent
<1>2. /\ day \in 0..MaxDay /\ born \in [LogRows -> {Never, Gone} \cup 0..MaxDay]
      /\ day' = day /\ sweep' = sweep
  BY DEF RetentionInv, LogEvent
<1>3. born' \in [LogRows -> {Never, Gone} \cup 0..MaxDay]
  BY <1>1, <1>2
<1>4. SweepInv(sweep, born', day)
  <2>1. CASE sweep = NoSweep
    BY <2>1 DEF SweepInv
  <2>2. CASE sweep # NoSweep
    <3>1. /\ sweep \in Sweeps /\ sweep.cutoff < day + 1
          /\ \A q \in sweep.seen : born[q] >= 0
          /\ sweep.gone \subseteq {q \in sweep.seen : born[q] < sweep.cutoff}
          /\ sweep.phase = "commit" =>
               {q \in sweep.seen : born[q] < sweep.cutoff} \subseteq sweep.gone
      BY <2>2 DEF RetentionInv, SweepInv
    <3>2. sweep.seen \in SUBSET LogRows
      BY <3>1 DEF Sweeps
    <3>3. r \notin sweep.seen
      BY <1>1, <3>1 DEF Never
    <3>4. \A q \in sweep.seen : born'[q] = born[q]
      BY <1>1, <1>2, <3>2, <3>3
    <3> QED BY <3>1, <3>4 DEF SweepInv
  <2> QED BY <2>1, <2>2
<1> QED BY <1>2, <1>3, <1>4 DEF RetentionInv, LogEvent

\* A cleanup reads the clock and the rows.
LEMMA StartSweepStep ==
  ASSUME RetentionInv, StartSweep
  PROVE  RetentionInv'
<1> DEFINE s == [phase |-> "batches", cutoff |-> day - keep, seen |-> Kept(born), gone |-> {}]
<1>1. sweep' = s /\ keep > 0 /\ day' = day /\ born' = born
  BY DEF StartSweep
<1>2. day \in Int /\ keep \in Int
  BY DaysAreNumbered DEF RetentionInv
<1>3. Kept(born) \in SUBSET LogRows /\ \A r \in Kept(born) : born[r] >= 0
  BY DEF Kept
<1>4. s \in Sweeps /\ s.cutoff < day + 1 /\ s.seen = Kept(born) /\ s.gone = {} /\ s.phase = "batches"
  BY <1>1, <1>2, <1>3 DEF Sweeps
<1> HIDE DEF s
<1>5. SweepInv(s, born, day)
  BY <1>3, <1>4 DEF SweepInv
<1> QED BY <1>1, <1>5 DEF RetentionInv, StartSweep

\* A batch is unlinked, or none is left.
LEMMA SweepBatchStep ==
  ASSUME RetentionInv, SweepBatch
  PROVE  RetentionInv'
<1>1. /\ sweep.phase = "batches" /\ sweep \in Sweeps /\ sweep.cutoff < day + 1
      /\ \A r \in sweep.seen : born[r] >= 0
      /\ sweep.gone \subseteq {r \in sweep.seen : born[r] < sweep.cutoff}
      /\ day' = day /\ born' = born
  BY SweepOf DEF SweepBatch
<1>2. CASE Ends
  <2> DEFINE s == [sweep EXCEPT !.phase = "commit"]
  <2>1. sweep' = s
    BY <1>2 DEF SweepBatch
  <2>2. s \in Sweeps /\ s.cutoff = sweep.cutoff /\ s.seen = sweep.seen /\ s.gone = sweep.gone
    BY <1>1 DEF Sweeps
  <2>3. {r \in sweep.seen : born[r] < sweep.cutoff} \subseteq sweep.gone
    BY <1>2 DEF Ends, Expired
  <2> HIDE DEF s
  <2>4. SweepInv(s, born, day)
    BY <1>1, <2>2, <2>3 DEF SweepInv
  <2> QED BY <1>1, <2>1, <2>4 DEF RetentionInv, SweepBatch
<1>3. CASE ~Ends
  <2>1. PICK batch \in Batches(Expired) : sweep' = [sweep EXCEPT !.gone = @ \cup batch]
    BY <1>3 DEF SweepBatch
  <2> DEFINE gone == sweep.gone \cup batch  s == [sweep EXCEPT !.gone = gone]
  <2>2. sweep' = s
    BY <2>1
  <2>3. batch \subseteq Expired
    BY <2>1 DEF Batches
  <2>4. gone \subseteq {r \in sweep.seen : born[r] < sweep.cutoff}
    BY <1>1, <2>3 DEF Expired
  <2>5. gone \in SUBSET LogRows
    BY <1>1, <2>4 DEF Sweeps
  <2> HIDE DEF gone
  <2>6. /\ s \in Sweeps /\ s.cutoff = sweep.cutoff /\ s.seen = sweep.seen /\ s.gone = gone
        /\ s.phase = "batches"
    BY <1>1, <2>5 DEF Sweeps
  <2> HIDE DEF s
  <2>7. SweepInv(s, born, day)
    BY <1>1, <2>4, <2>6 DEF SweepInv
  <2> QED BY <1>1, <2>2, <2>7 DEF RetentionInv, SweepBatch
<1> QED BY <1>2, <1>3

\* Every step keeps the invariant.
LEMMA RetentionStep ==
  ASSUME RetentionInv, [RetentionNext]_retentionVars
  PROVE  RetentionInv'
<1>1. CASE NextDay
  <2>1. day' \in 0..MaxDay /\ day' = day + 1 /\ day \in Nat
    BY <1>1, DaysAreNumbered DEF NextDay, RetentionInv
  <2>2. SweepInv(sweep, born, day')
    <3>1. CASE sweep = NoSweep
      BY <3>1 DEF SweepInv
    <3>2. CASE sweep # NoSweep
      <4>1. sweep \in Sweeps /\ sweep.cutoff < day + 1
        BY <3>2 DEF RetentionInv, SweepInv
      <4>2. sweep.cutoff < day' + 1
        BY <2>1, <4>1 DEF Sweeps
      <4> QED BY <3>2, <4>1, <4>2 DEF RetentionInv, SweepInv
    <3> QED BY <3>1, <3>2
  <2> QED BY <1>1, <2>1, <2>2 DEF NextDay, RetentionInv
<1>2. CASE CommitSweep
  <2>1. born' \in [LogRows -> {Never, Gone} \cup 0..MaxDay]
    BY <1>2 DEF CommitSweep, RetentionInv
  <2> QED BY <1>2, <2>1 DEF CommitSweep, RetentionInv, SweepInv
<1>3. CASE AbortSweep
  BY <1>3 DEF AbortSweep, RetentionInv, SweepInv
<1>4. ASSUME NEW w \in Workers, BootChecks(w) PROVE RetentionInv'
  BY <1>4 DEF BootChecks, RetentionInv
<1>5. ASSUME NEW w \in Workers, BootCreates(w) PROVE RetentionInv'
  BY <1>5 DEF BootCreates, RetentionInv
<1>6. CASE Configure
  BY <1>6 DEF Configure, RetentionInv
<1>7. CASE UNCHANGED retentionVars
  BY <1>7 DEF retentionVars, RetentionInv
<1> QED
  BY <1>1, <1>2, <1>3, <1>4, <1>5, <1>6, <1>7, LogEventStep, StartSweepStep, SweepBatchStep
  DEF RetentionNext

\* The invariant of the log's retention holds throughout.
LEMMA RetentionInvariant == RetentionSpec => []RetentionInv
<1>1. ASSUME RetentionInit PROVE RetentionInv
  <2>1. 0 \in 0..MaxDay
    BY DaysAreNumbered
  <2> QED BY <1>1, <2>1 DEF RetentionInit, RetentionInv, SweepInv
<1> QED BY <1>1, RetentionStep, PTL DEF RetentionSpec

\* Whatever is logged or configured beside it, a cleanup that commits takes
\* every row it saw that is older than its cutoff and no other, and no row is
\* lost in any other way.
THEOREM CleanupsAreExact == RetentionSpec => CleanupIsExact
<1> DEFINE lost == Kept(born) \ Kept(born')
<1>1. ASSUME RetentionInv, [RetentionNext]_retentionVars, born' # born
      PROVE  \/ lost = {}
             \/ /\ sweep.phase = "commit"
                /\ lost = {r \in sweep.seen : born[r] < sweep.cutoff}
  <2>1. CASE LogEvent
    <3>1. PICK r \in LogRows : born[r] = Never /\ born' = [born EXCEPT ![r] = day]
      BY <2>1 DEF LogEvent
    <3>2. \A q \in LogRows : born'[q] = born[q] \/ born'[q] >= 0
      BY <1>1, <3>1 DEF RetentionInv
    <3> QED BY <3>2 DEF Kept
  <2>2. CASE CommitSweep
    <3>1. /\ sweep.phase = "commit"
          /\ born' = [r \in LogRows |-> IF r \in sweep.gone THEN Gone ELSE born[r]]
      BY <2>2 DEF CommitSweep
    <3>2. /\ sweep \in Sweeps /\ \A r \in sweep.seen : born[r] >= 0
          /\ sweep.gone \subseteq {r \in sweep.seen : born[r] < sweep.cutoff}
          /\ {r \in sweep.seen : born[r] < sweep.cutoff} \subseteq sweep.gone
      BY <1>1, <3>1, SweepOf
    <3>3. sweep.gone = {r \in sweep.seen : born[r] < sweep.cutoff}
      BY <3>2
    <3>4. sweep.gone \in SUBSET LogRows
      BY <3>2 DEF Sweeps
    <3>5. lost = sweep.gone
      BY <3>1, <3>2, <3>4 DEF Kept, Gone
    <3> QED BY <3>1, <3>3, <3>5
  <2> QED
    BY <1>1, <2>1, <2>2
    DEF RetentionNext, retentionVars, NextDay, StartSweep, SweepBatch, AbortSweep, BootChecks,
        BootCreates, Configure
<1>2. ASSUME RetentionInv, [RetentionNext]_retentionVars
      PROVE  [born' # born =>
                \/ lost = {}
                \/ /\ sweep.phase = "commit"
                   /\ lost = {r \in sweep.seen : born[r] < sweep.cutoff}]_retentionVars
  BY <1>1, <1>2
<1> QED BY <1>2, RetentionInvariant, PTL DEF CleanupIsExact, RetentionSpec

-----------------------------------------------------------------------------
(***************************************************************************)
(* The client portal.                                                      *)
(***************************************************************************)
PortalRows ==
  [version : Nat, stage : Stages, text : Nat, type : {"blank", "client", "ai"}, note : Nat,
   acks : Nat, approvals : Nat, quotes : Nat]

Goals == {"text", "fields", "submitted", "approved"} \cup Drags

Tasks ==
  [phase : {"check", "write", "triage", "late", "commit", "broken"}, order : Orders, to : Goals,
   owner : BOOLEAN, snap : PortalRows, new : PortalRows, asked : BOOLEAN, run : Nat]

\* What an order does to the row it read, triage included.
Follows(order, row, new) ==
  /\ new.version = row.version
  /\ order \in {"edit", "submit"} => ClientStatus(row.stage) = "draft"
  /\ new.text # row.text => order = "edit"
  /\ new.acks # row.acks => order = "submit"
  /\ order = "submit" => new.acks = row.acks + 1 /\ new.stage = "submitted"
  /\ new.note # row.note => order = "submit" /\ new.note = row.text
  /\ row.type = "client" => new.type = "client"

\* A desk's transaction x: it read the committed row, or one that another has
\* replaced since, holds the row only while it is still the one it read, and
\* commits nothing else.
TaskInv(d, x, row, holder) ==
  (x = Away /\ holder # d) \/
    /\ x \in Tasks
    /\ x.order = "move" => x.to \in Drags
    /\ row \in PortalRows /\ x.snap.version <= row.version
    /\ x.snap.version = row.version => x.snap = row
    /\ holder = d => x.phase \in {"triage", "commit"} /\ x.snap = row
    /\ x.phase = "commit" => holder = d
    /\ x.phase = "triage" => x.order = "submit"
    /\ x.phase \in {"write", "triage", "late", "commit"} => Follows(x.order, x.snap, x.new)

PortalInv ==
  /\ request \in {NoRequest} \cup PortalRows
  /\ request \in PortalRows => request.version >= 1
  /\ desk \in [Desks -> {Away} \cup Tasks]
  /\ lock \in Desks \cup {NoDesk}
  /\ \A d \in Desks : TaskInv(d, desk[d], request, lock)

\* One desk's transaction moves on, and nobody commits.
LEMMA DeskMoves ==
  ASSUME PortalInv, NEW d \in Desks, NEW x, desk' = [desk EXCEPT ![d] = x], request' = request,
         lock' \in Desks \cup {NoDesk}, \A e \in Desks : e # d => (lock' = e <=> lock = e),
         TaskInv(d, x, request, lock')
  PROVE  PortalInv'
<1>1. x \in {Away} \cup Tasks
  BY DEF TaskInv
<1>2. desk' \in [Desks -> {Away} \cup Tasks]
  BY <1>1 DEF PortalInv
<1>3. ASSUME NEW e \in Desks PROVE TaskInv(e, desk'[e], request', lock')
  <2>1. CASE e = d
    BY <2>1 DEF PortalInv
  <2>2. CASE e # d
    BY <2>2 DEF PortalInv, TaskInv
  <2> QED BY <2>1, <2>2
<1> QED BY <1>2, <1>3 DEF PortalInv

\* What the invariant says of a desk that is at work.
LEMMA TaskOf ==
  ASSUME PortalInv, NEW d \in Desks, desk[d].phase # "away"
  PROVE  /\ desk[d] \in Tasks /\ TaskInv(d, desk[d], request, lock) /\ desk[d] # Away
         /\ request \in PortalRows
BY DEF PortalInv, TaskInv, Away

\* A transaction begins, or begins again: it reads the row as committed.
LEMMA RunStep ==
  ASSUME PortalInv, NEW d \in Desks, request \in PortalRows, NEW order \in Orders,
         NEW to \in Goals, order = "move" => to \in Drags, NEW owner \in BOOLEAN, NEW run \in Nat,
         Run(d, order, to, owner, run), lock # d, UNCHANGED <<request, lock>>
  PROVE  PortalInv'
<1> DEFINE x == [phase |-> "check", order |-> order, to |-> to, owner |-> owner,
                 snap |-> request, new |-> request, asked |-> FALSE, run |-> run]
<1>1. desk' = [desk EXCEPT ![d] = x]
  BY DEF Run
<1>2. x \in Tasks
  BY DEF Tasks
<1>3. x.phase = "check" /\ x.order = order /\ x.to = to /\ x.snap = request
  OBVIOUS
<1>4. request.version <= request.version
  BY DEF PortalRows
<1> HIDE DEF x
<1>5. TaskInv(d, x, request, lock)
  BY <1>2, <1>3, <1>4 DEF TaskInv
<1>6. lock \in Desks \cup {NoDesk}
  BY DEF PortalInv
<1> QED BY <1>1, <1>5, <1>6, DeskMoves

\* A desk is done, or gives up.
LEMMA TurnAwayStep ==
  ASSUME PortalInv, NEW d \in Desks, TurnAway(d), request' = request,
         lock' = IF lock = d THEN NoDesk ELSE lock
  PROVE  PortalInv'
<1>1. /\ lock' \in Desks \cup {NoDesk} /\ \A e \in Desks : e # d => (lock' = e <=> lock = e)
      /\ lock' # d
  BY DesksAreSomebody DEF PortalInv
<1>2. TaskInv(d, Away, request, lock')
  BY <1>1 DEF TaskInv
<1> QED BY <1>1, <1>2, DeskMoves DEF TurnAway

\* The rows that orders make.
LEMMA MadeFollows ==
  ASSUME NEW order \in Orders, NEW to \in Goals, NEW owner \in BOOLEAN, NEW row \in PortalRows,
         order = "move" => to \in Drags, Allowed(order, owner, row)
  PROVE  Made(order, to, row) \in PortalRows /\ Follows(order, row, Made(order, to, row))
<1> DEFINE new == Made(order, to, row)
<1>1. order \in {"edit", "submit"} => ClientStatus(row.stage) = "draft"
  BY DEF Allowed, IsClientEditable
<1>2. /\ row.version \in Nat /\ row.version + 1 \in Nat /\ row.acks \in Nat /\ row.acks + 1 \in Nat
      /\ row.approvals + 1 \in Nat /\ row.quotes \in Nat /\ row.quotes + 1 \in Nat
      /\ row.type \in {"blank", "client", "ai"}
  BY DEF PortalRows
<1>3. {"submitted", "approved", "in_progress"} \subseteq Stages /\ Drags \subseteq Stages
  BY StagesAreThere DEF Known
<1>4. CASE order = "edit"
  <2> DEFINE a == [row EXCEPT !.text = row.version + 1]
             type == IF to = "fields" THEN "client" ELSE row.type
             b == [a EXCEPT !.type = type]
  <2>1. new = b
    BY <1>4 DEF Made
  <2>2. /\ a \in PortalRows /\ a.version = row.version /\ a.acks = row.acks /\ a.note = row.note
        /\ a.type = row.type
    BY <1>2 DEF PortalRows
  <2>3. type \in {"blank", "client", "ai"} /\ (row.type = "client" => type = "client")
    BY <1>2
  <2> HIDE DEF a, type
  <2>4. /\ b \in PortalRows /\ b.version = row.version /\ b.acks = row.acks /\ b.note = row.note
        /\ b.type = type
    BY <2>2, <2>3 DEF PortalRows
  <2> HIDE DEF b
  <2>5. Follows(order, row, b)
    BY <1>1, <1>4, <2>3, <2>4 DEF Follows
  <2> QED BY <2>1, <2>4, <2>5
<1>5. CASE order = "submit"
  <2> DEFINE a == [row EXCEPT !.stage = "submitted"]  b == [a EXCEPT !.acks = row.acks + 1]
  <2>1. new = b
    BY <1>5 DEF Made
  <2>2. /\ a \in PortalRows /\ a.version = row.version /\ a.text = row.text /\ a.note = row.note
        /\ a.type = row.type /\ a.stage = "submitted"
    BY <1>3 DEF PortalRows
  <2> HIDE DEF a
  <2>3. /\ b \in PortalRows /\ b.version = row.version /\ b.text = row.text /\ b.note = row.note
        /\ b.type = row.type /\ b.stage = "submitted" /\ b.acks = row.acks + 1
    BY <1>2, <2>2 DEF PortalRows
  <2> HIDE DEF b
  <2>4. Follows(order, row, b)
    BY <1>1, <1>5, <2>3 DEF Follows
  <2> QED BY <2>1, <2>3, <2>4
<1>6. CASE order = "approve"
  <2> DEFINE stage == IF Billing THEN "approved" ELSE "in_progress"
             quotes == IF Billing THEN row.quotes + 1 ELSE row.quotes
             a == [row EXCEPT !.stage = stage]
             b == [a EXCEPT !.approvals = row.approvals + 1]
             c == [b EXCEPT !.quotes = quotes]
  <2>1. new = c
    BY <1>6 DEF Made, Approved
  <2>2. stage \in Stages /\ quotes \in Nat
    BY <1>2, <1>3
  <2> HIDE DEF stage, quotes
  <2>3. /\ a \in PortalRows /\ a.version = row.version /\ a.text = row.text /\ a.note = row.note
        /\ a.type = row.type /\ a.acks = row.acks
    BY <2>2 DEF PortalRows
  <2> HIDE DEF a
  <2>4. /\ b \in PortalRows /\ b.version = row.version /\ b.text = row.text /\ b.note = row.note
        /\ b.type = row.type /\ b.acks = row.acks
    BY <1>2, <2>3 DEF PortalRows
  <2> HIDE DEF b
  <2>5. /\ c \in PortalRows /\ c.version = row.version /\ c.text = row.text /\ c.note = row.note
        /\ c.type = row.type /\ c.acks = row.acks
    BY <2>2, <2>4 DEF PortalRows
  <2> HIDE DEF c
  <2>6. Follows(order, row, c)
    BY <1>6, <2>5 DEF Follows
  <2> QED BY <2>1, <2>5, <2>6
<1>7. CASE order = "move"
  <2> DEFINE a == [row EXCEPT !.stage = to]
  <2>1. new = a
    BY <1>7 DEF Made
  <2>2. /\ a \in PortalRows /\ a.version = row.version /\ a.text = row.text /\ a.note = row.note
        /\ a.type = row.type /\ a.acks = row.acks
    BY <1>3, <1>7 DEF PortalRows
  <2> HIDE DEF a
  <2>3. Follows(order, row, a)
    BY <1>7, <2>2 DEF Follows
  <2> QED BY <2>1, <2>2, <2>3
<1> QED BY <1>4, <1>5, <1>6, <1>7 DEF Orders

\* An order is looked at: refused, or made to its snapshot.
LEMMA CheckStep ==
  ASSUME PortalInv, NEW d \in Desks, Check(d)
  PROVE  PortalInv'
<1> DEFINE t == desk[d]  made == Made(t.order, t.to, t.snap)
<1>1. t.phase = "check" /\ request' = request /\ lock' = lock
  BY DEF Check
<1>2. t \in Tasks /\ TaskInv(d, t, request, lock) /\ t # Away
  BY <1>1, TaskOf
<1>3. lock # d /\ lock \in Desks \cup {NoDesk}
  BY <1>1, <1>2 DEF TaskInv, PortalInv
<1>4. CASE ~Allowed(t.order, t.owner, t.snap)
  <2>1. TurnAway(d)
    BY <1>4 DEF Check
  <2> QED BY <1>1, <1>3, <2>1, TurnAwayStep
<1>5. CASE Allowed(t.order, t.owner, t.snap)
  <2>1. PICK next \in IF t.order = "submit" THEN {"write", "triage"} ELSE {"write"} :
          desk' = [desk EXCEPT ![d].phase = next, ![d].new = made]
    BY <1>5 DEF Check
  <2>2. /\ t.order \in Orders /\ t.to \in Goals /\ t.owner \in BOOLEAN /\ t.snap \in PortalRows
        /\ t.order = "move" => t.to \in Drags
    BY <1>2 DEF Tasks, TaskInv
  <2>3. made \in PortalRows /\ Follows(t.order, t.snap, made)
    BY <1>5, <2>2, MadeFollows
  <2>4. next \in {"write", "triage"} /\ (next = "triage" => t.order = "submit")
    BY <2>1
  <2> DEFINE a == [t EXCEPT !.phase = next]  x == [a EXCEPT !.new = made]
  <2>5. desk' = [desk EXCEPT ![d] = x]
    BY <2>1
  <2> HIDE DEF t, made
  <2>6. a \in Tasks /\ a.phase = next /\ a.order = t.order /\ a.to = t.to /\ a.snap = t.snap
    BY <1>2, <2>4 DEF Tasks
  <2> HIDE DEF a
  <2>7. /\ x \in Tasks /\ x.phase = next /\ x.order = t.order /\ x.to = t.to
        /\ x.snap = t.snap /\ x.new = made
    BY <2>3, <2>6 DEF Tasks
  <2> HIDE DEF x
  <2>8. TaskInv(d, x, request, lock)
    BY <1>2, <1>3, <2>3, <2>4, <2>7 DEF TaskInv
  <2> QED BY <1>1, <1>3, <2>5, <2>8, DeskMoves
<1> QED BY <1>4, <1>5

\* A desk's transaction gets a new phase and, perhaps, the row.
LEMMA PhaseStep ==
  ASSUME PortalInv, NEW d \in Desks, desk[d].phase # "away",
         NEW phase \in {"triage", "commit", "broken"}, desk' = [desk EXCEPT ![d].phase = phase],
         request' = request, lock' \in {lock, d}, lock \in {NoDesk, d},
         lock' = d => phase \in {"triage", "commit"} /\ desk[d].snap = request,
         phase = "commit" => lock' = d,
         phase = "triage" => desk[d].order = "submit",
         phase # "broken" => Follows(desk[d].order, desk[d].snap, desk[d].new)
  PROVE  PortalInv'
<1> DEFINE t == desk[d]  x == [t EXCEPT !.phase = phase]
<1>1. t \in Tasks /\ TaskInv(d, t, request, lock) /\ t # Away
  BY TaskOf
<1>2. desk' = [desk EXCEPT ![d] = x]
  OBVIOUS
<1>3. /\ lock' \in Desks \cup {NoDesk}
      /\ \A e \in Desks : e # d => (lock' = e <=> lock = e)
  BY DesksAreSomebody DEF PortalInv
<1>4. /\ lock' = d => phase \in {"triage", "commit"} /\ t.snap = request
      /\ phase = "commit" => lock' = d
      /\ phase = "triage" => t.order = "submit"
      /\ phase # "broken" => Follows(t.order, t.snap, t.new)
  OBVIOUS
<1> HIDE DEF t
<1>5. /\ x \in Tasks /\ x.phase = phase /\ x.order = t.order /\ x.to = t.to
      /\ x.snap = t.snap /\ x.new = t.new
  BY <1>1 DEF Tasks
<1> HIDE DEF x
<1>6. TaskInv(d, x, request, lock')
  BY <1>1, <1>4, <1>5 DEF TaskInv
<1> QED BY <1>2, <1>3, <1>6, DeskMoves

\* The first write to the row: an outdated one runs again or breaks.
LEMMA WriteRowStep ==
  ASSUME PortalInv, NEW d \in Desks, WriteRow(d)
  PROVE  PortalInv'
<1> DEFINE t == desk[d]
<1>1. t.phase \in {"write", "late"} /\ lock = NoDesk /\ lock # d /\ request' = request
  BY DesksAreSomebody DEF WriteRow
<1>2. t \in Tasks /\ TaskInv(d, t, request, lock) /\ t # Away /\ request \in PortalRows
  BY <1>1, TaskOf
<1>3. CASE Outdated(d)
  <2>1. lock' = lock
    BY <1>3 DEF WriteRow
  <2>2. CASE RunAgain(d)
    <3>1. CASE t.run < MaxRuns
      <4>1. /\ t.order \in Orders /\ t.to \in Goals /\ t.owner \in BOOLEAN /\ t.run + 1 \in Nat
            /\ t.order = "move" => t.to \in Drags
        BY <1>2 DEF Tasks, TaskInv
      <4>2. Run(d, t.order, t.to, t.owner, t.run + 1)
        BY <2>2, <3>1 DEF RunAgain
      <4> HIDE DEF t
      <4> QED BY <1>1, <1>2, <2>1, <4>1, <4>2, RunStep
    <3>2. CASE ~(t.run < MaxRuns)
      <4>1. TurnAway(d)
        BY <2>2, <3>2 DEF RunAgain
      <4> QED BY <1>1, <2>1, <4>1, TurnAwayStep
    <3> QED BY <3>1, <3>2
  <2>3. CASE desk' = [desk EXCEPT ![d].phase = "broken"]
    <3> DEFINE phase == "broken"
    <3>1. /\ phase \in {"triage", "commit", "broken"} /\ phase = "broken"
          /\ desk' = [desk EXCEPT ![d].phase = phase] /\ t.phase # "away"
      BY <1>1, <2>3
    <3> HIDE DEF phase
    <3> QED BY <1>1, <2>1, <3>1, PhaseStep
  <2> QED BY <1>3, <2>2, <2>3 DEF WriteRow
<1>4. CASE ~Outdated(d)
  <2> DEFINE phase == IF t.order = "submit" /\ ~t.asked THEN "triage" ELSE "commit"
  <2>1. desk' = [desk EXCEPT ![d].phase = phase] /\ lock' = d
    BY <1>4 DEF WriteRow
  <2>2. t.snap = request
    BY <1>2, <1>4 DEF Outdated, TaskInv
  <2>3. Follows(t.order, t.snap, t.new)
    BY <1>1, <1>2 DEF TaskInv
  <2>4. /\ phase \in {"triage", "commit", "broken"} /\ phase \in {"triage", "commit"}
        /\ phase = "triage" => t.order = "submit"
    OBVIOUS
  <2>5. t.phase # "away"
    BY <1>1
  <2> HIDE DEF phase
  <2> QED BY <1>1, <2>1, <2>2, <2>3, <2>4, <2>5, PhaseStep
<1> QED BY <1>3, <1>4

\* Triage leaves the submission what it is.
LEMMA TriagedFollows ==
  ASSUME NEW row \in PortalRows, NEW new \in PortalRows, Follows("submit", row, new)
  PROVE  Triaged(new, row.text) \in PortalRows /\ Follows("submit", row, Triaged(new, row.text))
<1> DEFINE type == FillEmpty(new)
           a == [new EXCEPT !.note = row.text]  b == [a EXCEPT !.type = type]
<1>1. Triaged(new, row.text) = b
  BY DEF Triaged
<1>2. type \in {"blank", "client", "ai"} /\ (new.type = "client" => type = "client")
  BY DEF FillEmpty, PortalRows
<1> HIDE DEF type
<1>3. /\ a \in PortalRows /\ a.version = new.version /\ a.text = new.text /\ a.acks = new.acks
      /\ a.stage = new.stage /\ a.note = row.text
  BY DEF PortalRows
<1> HIDE DEF a
<1>4. /\ b \in PortalRows /\ b.version = new.version /\ b.text = new.text /\ b.acks = new.acks
      /\ b.stage = new.stage /\ b.note = row.text /\ b.type = type
  BY <1>2, <1>3 DEF PortalRows
<1> HIDE DEF b
<1>5. Follows("submit", row, b)
  BY <1>2, <1>4 DEF Follows
<1> QED BY <1>1, <1>4, <1>5

\* The language model is asked.
LEMMA TriageStep ==
  ASSUME PortalInv, NEW d \in Desks, Triage(d)
  PROVE  PortalInv'
<1> DEFINE t == desk[d]  next == IF lock = d THEN "commit" ELSE "late"
<1>1. t.phase = "triage" /\ request' = request /\ lock' = lock
  BY DEF Triage
<1>2. t \in Tasks /\ TaskInv(d, t, request, lock) /\ t # Away
  BY <1>1, TaskOf
<1>3. /\ t.order = "submit" /\ Follows("submit", t.snap, t.new)
      /\ t.snap \in PortalRows /\ t.new \in PortalRows
  BY <1>1, <1>2 DEF TaskInv, Tasks
<1>4. PICK new \in {t.new, Triaged(t.new, t.snap.text)} :
        desk' = [desk EXCEPT ![d].phase = next, ![d].asked = TRUE, ![d].new = new]
  BY DEF Triage
<1>5. new \in PortalRows /\ Follows("submit", t.snap, new)
  BY <1>3, <1>4, TriagedFollows
<1> DEFINE a == [t EXCEPT !.phase = next]  b == [a EXCEPT !.asked = TRUE]
           x == [b EXCEPT !.new = new]
<1>6. desk' = [desk EXCEPT ![d] = x]
  BY <1>4
<1>7. next \in {"commit", "late"} /\ (next = "commit" <=> lock = d)
  OBVIOUS
<1> HIDE DEF t, next
<1>8. a \in Tasks /\ a.phase = next /\ a.order = t.order /\ a.to = t.to /\ a.snap = t.snap
  BY <1>2, <1>7 DEF Tasks
<1> HIDE DEF a
<1>9. b \in Tasks /\ b.phase = next /\ b.order = t.order /\ b.to = t.to /\ b.snap = t.snap
  BY <1>8 DEF Tasks
<1> HIDE DEF b
<1>10. /\ x \in Tasks /\ x.phase = next /\ x.order = t.order /\ x.to = t.to
       /\ x.snap = t.snap /\ x.new = new
  BY <1>5, <1>9 DEF Tasks
<1> HIDE DEF x
<1>11. TaskInv(d, x, request, lock)
  BY <1>2, <1>3, <1>5, <1>7, <1>10 DEF TaskInv
<1>12. lock \in Desks \cup {NoDesk}
  BY DEF PortalInv
<1> QED BY <1>1, <1>6, <1>11, <1>12, DeskMoves

\* What a commit does: the row is the one the transaction read.
LEMMA Committed ==
  ASSUME PortalInv, NEW d \in Desks, CommitRow(d)
  PROVE  /\ desk[d] \in Tasks /\ desk[d].snap = request /\ lock = d /\ request \in PortalRows
         /\ Follows(desk[d].order, request, desk[d].new)
         /\ request' \in PortalRows /\ request'.version = request.version + 1
         /\ request'.text = desk[d].new.text /\ request'.note = desk[d].new.note
         /\ request'.acks = desk[d].new.acks /\ request'.stage = desk[d].new.stage
         /\ request'.type = desk[d].new.type
<1> DEFINE t == desk[d]  new == t.new
<1>1. t.phase = "commit" /\ request' = [new EXCEPT !.version = @ + 1]
  BY DEF CommitRow
<1>2. t \in Tasks /\ TaskInv(d, t, request, lock) /\ t # Away /\ request \in PortalRows
  BY <1>1, TaskOf
<1>3. lock = d /\ t.snap = request /\ Follows(t.order, request, new)
  BY <1>1, <1>2 DEF TaskInv
<1>4. new \in PortalRows /\ new.version = request.version
  BY <1>2, <1>3 DEF Tasks, Follows
<1> HIDE DEF new
<1>5. /\ request' \in PortalRows /\ request'.version = new.version + 1
      /\ request'.text = new.text /\ request'.note = new.note
      /\ request'.acks = new.acks /\ request'.stage = new.stage /\ request'.type = new.type
  BY <1>1, <1>4 DEF PortalRows
<1> QED BY <1>2, <1>3, <1>4, <1>5 DEF new

\* A commit: whoever else is at work has read an older row, and holds nothing.
LEMMA CommitRowStep ==
  ASSUME PortalInv, NEW d \in Desks, CommitRow(d)
  PROVE  PortalInv'
<1>1. /\ lock = d /\ request \in PortalRows /\ request' \in PortalRows
      /\ request'.version = request.version + 1
  BY Committed
<1>2. desk' = [desk EXCEPT ![d] = Away] /\ lock' = NoDesk
  BY DEF CommitRow
<1>3. request.version \in Nat /\ request'.version \in Nat
  BY <1>1 DEF PortalRows
<1>4. \A e \in Desks : desk'[e] = IF e = d THEN Away ELSE desk[e]
  BY <1>2 DEF PortalInv
<1>5. ASSUME NEW e \in Desks PROVE TaskInv(e, desk'[e], request', lock')
  <2>1. lock' # e
    BY <1>2, DesksAreSomebody
  <2>2. CASE desk'[e] = Away
    BY <2>1, <2>2 DEF TaskInv
  <2>3. CASE desk'[e] # Away
    <3>1. e # d /\ desk'[e] = desk[e]
      BY <1>4, <2>3
    <3> DEFINE x == desk[e]
    <3>2. TaskInv(e, x, request, lock) /\ x # Away /\ x \in Tasks
      BY <2>3, <3>1 DEF PortalInv, TaskInv
    <3> HIDE DEF x
    <3>3. x.snap.version \in Nat /\ x.snap.version <= request.version
      BY <3>2 DEF TaskInv, Tasks, PortalRows
    <3>4. x.snap.version <= request'.version /\ x.snap.version # request'.version
      BY <1>1, <1>3, <3>3
    <3>5. x.phase # "commit"
      BY <1>1, <3>1, <3>2 DEF TaskInv
    <3>6. TaskInv(e, x, request', lock')
      BY <1>1, <2>1, <3>2, <3>4, <3>5 DEF TaskInv
    <3> QED BY <3>1, <3>6 DEF x
  <2> QED BY <2>2, <2>3
<1>6. desk' \in [Desks -> {Away} \cup Tasks]
  BY <1>2 DEF PortalInv
<1> QED BY <1>1, <1>2, <1>3, <1>5, <1>6 DEF PortalInv

\* No request is no row, so nobody is at work before there is one.
LEMMA NobodyBefore ==
  ASSUME PortalInv, request = NoRequest
  PROVE  request \notin PortalRows /\ \A d \in Desks : desk[d] = Away /\ lock # d
<1>1. request \notin PortalRows
  BY DEF PortalInv, NoRequest
<1> QED BY <1>1 DEF PortalInv, TaskInv

\* The client creates the request.
LEMMA NewRequestStep ==
  ASSUME PortalInv, NewRequest
  PROVE  PortalInv'
<1>1. PICK type \in {"blank", "client"} :
        request' = [version |-> 1, stage |-> "draft", text |-> 1, type |-> type, note |-> 0,
                    acks |-> 0, approvals |-> 0, quotes |-> 0]
  BY DEF NewRequest
<1>2. "draft" \in Stages
  BY StagesAreThere DEF Known
<1>3. request' \in PortalRows /\ request'.version >= 1
  BY <1>1, <1>2 DEF PortalRows
<1>4. desk' = desk /\ lock' = lock /\ \A d \in Desks : desk[d] = Away /\ lock # d
  BY NobodyBefore DEF NewRequest
<1>5. \A d \in Desks : TaskInv(d, desk'[d], request', lock')
  BY <1>4 DEF TaskInv
<1> QED BY <1>3, <1>4, <1>5 DEF PortalInv

\* Every step of the portal keeps the invariant.
LEMMA PortalStep ==
  ASSUME PortalInv, [PortalNext]_portalVars
  PROVE  PortalInv'
<1>1. ASSUME NEW d \in Desks, Ask(d) \/ Work(d) PROVE PortalInv'
  <2>1. /\ request \in PortalRows /\ desk[d] = Away /\ UNCHANGED <<request, lock>>
    BY <1>1 DEF Ask, Work, PortalInv
  <2>2. lock # d
    BY <2>1 DEF PortalInv, TaskInv, Tasks, Away
  <2> DEFINE one == 1
  <2>3. one \in Nat
    OBVIOUS
  <2>4. CASE Ask(d)
    <3>1. PICK owner \in BOOLEAN :
            \/ \E what \in {"text", "fields"} : Run(d, "edit", what, owner, one)
            \/ Run(d, "submit", "submitted", owner, one)
      BY <2>4 DEF Ask
    <3> HIDE DEF one
    <3>2. ASSUME NEW what \in {"text", "fields"}, Run(d, "edit", what, owner, one)
          PROVE  PortalInv'
      <4> DEFINE order == "edit"
      <4>1. order \in Orders /\ order # "move" /\ what \in Goals /\ Run(d, order, what, owner, one)
        BY <3>2 DEF Orders, Goals
      <4> HIDE DEF order
      <4> QED BY <2>1, <2>2, <2>3, <4>1, RunStep
    <3>3. CASE Run(d, "submit", "submitted", owner, one)
      <4> DEFINE order == "submit"  to == "submitted"
      <4>1. order \in Orders /\ order # "move" /\ to \in Goals /\ Run(d, order, to, owner, one)
        BY <3>3 DEF Orders, Goals
      <4> HIDE DEF order, to
      <4> QED BY <2>1, <2>2, <2>3, <4>1, RunStep
    <3> QED BY <3>1, <3>2, <3>3
  <2>5. CASE Work(d)
    <3> DEFINE owner == TRUE
    <3>1. owner \in BOOLEAN
      OBVIOUS
    <3>2. \/ Run(d, "approve", "approved", owner, one)
          \/ \E stage \in Drags : Run(d, "move", stage, owner, one)
      BY <2>5 DEF Work
    <3> HIDE DEF one, owner
    <3>3. ASSUME NEW stage \in Drags, Run(d, "move", stage, owner, one) PROVE PortalInv'
      <4> DEFINE order == "move"
      <4>1. order \in Orders /\ stage \in Goals /\ Run(d, order, stage, owner, one)
        BY <3>3 DEF Orders, Goals
      <4> HIDE DEF order
      <4> QED BY <2>1, <2>2, <2>3, <3>1, <4>1, RunStep
    <3>4. CASE Run(d, "approve", "approved", owner, one)
      <4> DEFINE order == "approve"  to == "approved"
      <4>1. order \in Orders /\ order # "move" /\ to \in Goals /\ Run(d, order, to, owner, one)
        BY <3>4 DEF Orders, Goals
      <4> HIDE DEF order, to
      <4> QED BY <2>1, <2>2, <2>3, <3>1, <4>1, RunStep
    <3> QED BY <3>2, <3>3, <3>4
  <2> QED BY <1>1, <2>4, <2>5
<1>2. ASSUME NEW d \in Desks, Lose(d) PROVE PortalInv'
  <2>1. TurnAway(d) /\ request' = request /\ lock' = IF lock = d THEN NoDesk ELSE lock
    BY <1>2 DEF Lose, TurnAway
  <2> QED BY <2>1, TurnAwayStep
<1>3. ASSUME NEW d \in Desks, Check(d) \/ WriteRow(d) \/ Triage(d) \/ CommitRow(d)
      PROVE  PortalInv'
  BY <1>3, CheckStep, WriteRowStep, TriageStep, CommitRowStep
<1>4. CASE UNCHANGED portalVars
  BY <1>4 DEF portalVars, PortalInv
<1> QED BY <1>1, <1>2, <1>3, <1>4, NewRequestStep DEF PortalNext

\* The portal's invariant holds throughout.
LEMMA PortalInvariant == PortalSpec => []PortalInv
<1>1. ASSUME PortalInit PROVE PortalInv
  <2>1. /\ request = NoRequest /\ desk = [d \in Desks |-> Away] /\ lock = NoDesk
    BY <1>1 DEF PortalInit
  <2>2. NoRequest \notin PortalRows
    <3>1. SUFFICES ASSUME NoRequest \in PortalRows PROVE FALSE
      OBVIOUS
    <3>2. DOMAIN NoRequest = {"version"} /\ "stage" \in DOMAIN NoRequest
      BY <3>1 DEF NoRequest, PortalRows
    <3> QED BY <3>2
  <2>3. \A d \in Desks : TaskInv(d, desk[d], request, lock)
    BY <2>1, DesksAreSomebody DEF TaskInv
  <2> QED BY <2>1, <2>2, <2>3 DEF PortalInv
<1> QED BY <1>1, PortalStep, PTL DEF PortalSpec

\* The committed row changes by a commit only.
LEMMA OnlyCommitsChange ==
  ASSUME PortalInv, [PortalNext]_portalVars, request # NoRequest, request' # request
  PROVE  \E d \in Desks : CommitRow(d)
BY DEF PortalNext, portalVars, NewRequest, Ask, Work, Check, WriteRow, Triage, Lose

\* The client's text never changes under a reviewer: whoever races with an
\* edit, it is committed only while the committed request is a draft.
THEOREM SubmittedTextIsFrozen == PortalSpec => ClientContentFrozen
<1>1. ASSUME PortalInv, [PortalNext]_portalVars, request # NoRequest,
             request'.text # request.text
      PROVE  ClientStatus(request.stage) = "draft"
  <2>1. PICK d \in Desks : CommitRow(d)
    BY <1>1, OnlyCommitsChange
  <2>2. request'.text = desk[d].new.text /\ Follows(desk[d].order, request, desk[d].new)
    BY <1>1, <2>1, Committed
  <2> QED BY <1>1, <2>2 DEF Follows
<1>2. ASSUME PortalInv, [PortalNext]_portalVars
      PROVE  [request # NoRequest /\ request'.text # request.text =>
                ClientStatus(request.stage) = "draft"]_portalVars
  BY <1>1, <1>2
<1> QED BY <1>2, PortalInvariant, PTL DEF ClientContentFrozen, PortalSpec

\* A request is submitted once, from a draft, with one acknowledgement, a note
\* about the text that was submitted, and the client's own fields.
THEOREM SubmissionsHappenOnce == PortalSpec => OncePerSubmission
<1> DEFINE once == /\ request'.acks # request.acks =>
                        /\ request'.acks = request.acks + 1
                        /\ ClientStatus(request.stage) = "draft" /\ request'.stage = "submitted"
                   /\ request'.note # request.note =>
                        request'.note = request'.text /\ request'.acks # request.acks
                   /\ request.type = "client" => request'.type = "client"
<1>1. ASSUME PortalInv, [PortalNext]_portalVars, request # NoRequest, request' # request
      PROVE  once
  <2>1. PICK d \in Desks : CommitRow(d)
    BY <1>1, OnlyCommitsChange
  <2> DEFINE t == desk[d]  new == t.new
  <2>2. /\ request \in PortalRows /\ Follows(t.order, request, new)
        /\ request'.text = new.text /\ request'.note = new.note /\ request'.acks = new.acks
        /\ request'.stage = new.stage /\ request'.type = new.type
    BY <1>1, <2>1, Committed
  <2>3. request.acks \in Nat
    BY <2>2 DEF PortalRows
  <2> HIDE DEF t, new
  <2>4. /\ request'.acks # request.acks =>
             /\ request'.acks = request.acks + 1
             /\ ClientStatus(request.stage) = "draft" /\ request'.stage = "submitted"
    BY <2>2 DEF Follows
  <2>5. request'.note # request.note =>
          request'.note = request'.text /\ request'.acks # request.acks
    BY <2>2, <2>3 DEF Follows
  <2>6. request.type = "client" => request'.type = "client"
    BY <2>2 DEF Follows
  <2> QED BY <2>4, <2>5, <2>6
<1>2. ASSUME PortalInv, [PortalNext]_portalVars
      PROVE  [request # NoRequest /\ request' # request => once]_portalVars
  BY <1>1, <1>2
<1> QED BY <1>2, PortalInvariant, PTL DEF OncePerSubmission, PortalSpec

-----------------------------------------------------------------------------
(***************************************************************************)
(* The tools: records in order, and pages of them.                         *)
(***************************************************************************)

\* How many of S come before x, and the first n of S.
Rank(x, S) == Cardinality({y \in S : y < x})
First(S, n) == {x \in S : Rank(x, S) < n}

\* A rank counts something.
LEMMA RankIsNat ==
  ASSUME NEW S \in SUBSET Nat, IsFiniteSet(S), NEW x
  PROVE  IsFiniteSet({y \in S : y < x}) /\ Rank(x, S) \in Nat
<1>1. {y \in S : y < x} \in SUBSET S
  OBVIOUS
<1>2. IsFiniteSet({y \in S : y < x})
  BY <1>1, FS_Subset
<1> QED BY <1>2, FS_CardinalityType DEF Rank

\* Ranks are in the order of what they rank.
LEMMA RankIsMonotone ==
  ASSUME NEW S \in SUBSET Nat, IsFiniteSet(S), NEW x \in S, NEW y \in S, x < y
  PROVE  Rank(x, S) < Rank(y, S)
<1> DEFINE A == {z \in S : z < x}  B == {z \in S : z < y}
<1>1. IsFiniteSet(A) /\ IsFiniteSet(B) /\ Rank(x, S) \in Nat /\ Rank(y, S) \in Nat
  BY RankIsNat
<1>2. Rank(x, S) = Cardinality(A) /\ Rank(y, S) = Cardinality(B)
  BY DEF Rank
<1>3. x \in Nat /\ y \in Nat /\ \A z \in S : z \in Nat
  OBVIOUS
<1>4. A \in SUBSET B
  <2>1. SUFFICES ASSUME NEW z \in S, z < x PROVE z < y
    OBVIOUS
  <2>2. z \in Nat /\ x \in Nat /\ y \in Nat /\ z < x /\ x < y
    BY <1>3, <2>1
  <2> QED BY <2>2
<1>5. x \in B /\ x \notin A
  BY <1>3
<1> HIDE DEF A, B
<1>6. Cardinality(A) <= Cardinality(B) /\ Cardinality(B) # Cardinality(A)
  BY <1>1, <1>4, <1>5, FS_Subset
<1> QED BY <1>1, <1>2, <1>6

\* Nothing is ranked past the end.
LEMMA RankIsBounded ==
  ASSUME NEW S \in SUBSET Nat, IsFiniteSet(S), NEW x \in S
  PROVE  Rank(x, S) < Cardinality(S) /\ Cardinality(S) \in Nat
<1> DEFINE A == {z \in S : z < x}
<1>1. IsFiniteSet(A) /\ Rank(x, S) \in Nat /\ Rank(x, S) = Cardinality(A)
  BY RankIsNat DEF Rank
<1>2. A \in SUBSET S /\ A # S
  OBVIOUS
<1>3. Cardinality(S) \in Nat
  BY FS_CardinalityType
<1> HIDE DEF A
<1>4. Cardinality(A) <= Cardinality(S) /\ Cardinality(S) # Cardinality(A)
  BY <1>2, FS_Subset
<1> QED BY <1>1, <1>3, <1>4

\* Two that have one rank are one.
LEMMA RankIsUnique ==
  ASSUME NEW S \in SUBSET Nat, IsFiniteSet(S), NEW x \in S, NEW y \in S, Rank(x, S) = Rank(y, S)
  PROVE  x = y
<1>1. Rank(x, S) \in Nat /\ x \in Nat /\ y \in Nat
  BY RankIsNat
<1>2. ~(x < y) /\ ~(y < x)
  BY <1>1, RankIsMonotone
<1> QED BY <1>1, <1>2

\* The numbers below n.
LEMMA Below ==
  ASSUME NEW n \in Nat
  PROVE  IsFiniteSet(0..(n - 1)) /\ Cardinality(0..(n - 1)) = n
<1> DEFINE a == 0  b == n - 1
<1>1. a \in Int /\ b \in Int /\ (IF a > b THEN 0 ELSE b - a + 1) = n
  OBVIOUS
<1> HIDE DEF a, b
<1>2. IsFiniteSet(a..b) /\ Cardinality(a..b) = n
  BY <1>1, FS_Interval
<1> QED BY <1>2 DEF a, b

\* Every place is taken.
LEMMA RankIsOnto ==
  ASSUME NEW S \in SUBSET Nat, IsFiniteSet(S), NEW i \in 0..(Cardinality(S) - 1)
  PROVE  \E x \in S : Rank(x, S) = i
<1> DEFINE n == Cardinality(S)  T == 0..(n - 1)  f == [x \in S |-> Rank(x, S)]
<1>1. n \in Nat
  BY FS_CardinalityType
<1>2. IsFiniteSet(T) /\ Cardinality(T) = n
  BY <1>1, Below
<1>3. \A x \in S : Rank(x, S) \in T
  <2>1. SUFFICES ASSUME NEW x \in S PROVE Rank(x, S) \in T
    OBVIOUS
  <2>2. Rank(x, S) \in Nat /\ Rank(x, S) < n
    BY RankIsNat, RankIsBounded
  <2> HIDE DEF n
  <2> QED BY <1>1, <2>2
<1>4. f \in [S -> T]
  BY <1>3
<1>5. \A x, y \in S : f[x] = f[y] => x = y
  BY RankIsUnique
<1> HIDE DEF T
<1>6. f \in Injection(S, T)
  BY <1>4, <1>5 DEF Injection, IsInjective
<1> HIDE DEF f
<1>7. f \in Surjection(S, T)
  BY <1>2, <1>6, FS_Injection
<1>8. \E x \in S : f[x] = i
  BY <1>7 DEF Surjection, T
<1> QED BY <1>8 DEF f

\* The first n are n, unless they are all.
LEMMA FirstIsCounted ==
  ASSUME NEW S \in SUBSET Nat, IsFiniteSet(S), NEW n \in Nat
  PROVE  /\ First(S, n) \in SUBSET S /\ IsFiniteSet(First(S, n))
         /\ Cardinality(First(S, n)) \in Nat /\ Cardinality(First(S, n)) <= n
         /\ First(S, n) # S => Cardinality(First(S, n)) = n
         /\ Cardinality(S) <= n => First(S, n) = S
         /\ n = 0 => First(S, n) = {}
<1> DEFINE A == First(S, n)  T == 0..(n - 1)  f == [x \in A |-> Rank(x, S)]
<1>1. A \in SUBSET S /\ \A x \in S : x \in A <=> Rank(x, S) < n
  BY DEF First
<1>2. IsFiniteSet(A) /\ Cardinality(A) \in Nat
  BY <1>1, FS_Subset, FS_CardinalityType
<1>3. IsFiniteSet(T) /\ Cardinality(T) = n
  BY Below
<1>4. \A x \in S : Rank(x, S) \in Nat /\ Rank(x, S) < Cardinality(S)
  BY RankIsNat, RankIsBounded
<1>5. Cardinality(S) \in Nat
  BY FS_CardinalityType
<1> HIDE DEF A
<1>6. \A x \in A : Rank(x, S) \in T
  BY <1>1, <1>4
<1>7. f \in [A -> T]
  BY <1>6
<1>8. \A x, y \in A : f[x] = f[y] => x = y
  BY <1>1, RankIsUnique
<1>9. f \in Injection(A, T)
  <2> HIDE DEF T
  <2> QED BY <1>7, <1>8 DEF Injection, IsInjective
<1>10. Cardinality(A) <= n /\ (Cardinality(A) = n <=> f \in Surjection(A, T))
  <2> HIDE DEF f, T
  <2> QED BY <1>3, <1>9, FS_Injection
<1>11. ASSUME A # S PROVE Cardinality(A) = n
  <2>1. PICK c \in S : c \notin A
    BY <1>1, <1>11
  <2>2. n < Cardinality(S)
    BY <1>1, <1>4, <1>5, <2>1
  <2>3. \A i \in T : \E x \in A : f[x] = i
    <3>1. SUFFICES ASSUME NEW i \in T PROVE \E x \in A : Rank(x, S) = i
      OBVIOUS
    <3>2. i \in 0..(Cardinality(S) - 1) /\ i < n
      BY <1>5, <2>2
    <3>3. PICK x \in S : Rank(x, S) = i
      BY <3>2, RankIsOnto
    <3> QED BY <1>1, <3>2, <3>3
  <2>4. f \in Surjection(A, T)
    <3> HIDE DEF T, f
    <3> QED BY <1>7, <2>3 DEF Surjection, f
  <2> QED BY <1>10, <2>4
<1>12. ASSUME Cardinality(S) <= n PROVE A = S
  <2>1. ASSUME NEW x \in S PROVE x \in A
    <3>1. Rank(x, S) \in Nat /\ Rank(x, S) < Cardinality(S)
      BY <1>4
    <3>2. Rank(x, S) < n
      BY <1>5, <1>12, <3>1
    <3> QED BY <1>1, <3>2
  <2> QED BY <1>1, <2>1
<1>13. n = 0 => A = {}
  BY <1>1, <1>4
<1> QED BY <1>1, <1>2, <1>10, <1>11, <1>12, <1>13 DEF A

\* Whatever comes before one of the first n is one of them.
LEMMA FirstIsInitial ==
  ASSUME NEW S \in SUBSET Nat, IsFiniteSet(S), NEW n \in Nat, NEW x \in First(S, n),
         NEW y \in S, y < x
  PROVE  y \in First(S, n)
<1>1. x \in S /\ Rank(x, S) < n
  BY DEF First
<1>2. Rank(y, S) < Rank(x, S) /\ Rank(x, S) \in Nat /\ Rank(y, S) \in Nat
  BY <1>1, RankIsMonotone, RankIsNat
<1> QED BY <1>1, <1>2 DEF First

\* When S becomes T, no more of the first n are pushed out of them than new
\* ones come among them.
LEMMA Crossing ==
  ASSUME NEW S \in SUBSET Nat, IsFiniteSet(S), NEW T \in SUBSET Nat, IsFiniteSet(T),
         NEW n \in Nat
  PROVE  /\ Cardinality((First(S, n) \cap T) \ First(T, n)) <= Cardinality(First(T, n) \ S)
         /\ Cardinality((First(S, n) \cap T) \ First(T, n)) \in Nat
         /\ Cardinality(First(T, n) \ S) \in Nat
<1> DEFINE A == First(S, n)  B == First(T, n)  C == (A \cap T) \ B
<1>1. /\ A \in SUBSET S /\ IsFiniteSet(A) /\ Cardinality(A) \in Nat /\ Cardinality(A) <= n
      /\ B \in SUBSET T /\ IsFiniteSet(B) /\ Cardinality(B) \in Nat
      /\ B # T => Cardinality(B) = n
  BY FirstIsCounted
<1>2. \A x \in B, y \in T : y < x => y \in B
  BY FirstIsInitial
<1>3. \A x \in A, y \in S : y < x => y \in A
  BY FirstIsInitial
<1> HIDE DEF A, B
<1>4. /\ IsFiniteSet(C) /\ Cardinality(C) \in Nat
      /\ IsFiniteSet(B \ S) /\ Cardinality(B \ S) \in Nat
      /\ IsFiniteSet(B \cap S) /\ Cardinality(B \cap S) \in Nat
  <2>1. C \in SUBSET A /\ B \ S \in SUBSET B /\ B \cap S \in SUBSET B
    OBVIOUS
  <2>2. IsFiniteSet(C) /\ IsFiniteSet(B \ S) /\ IsFiniteSet(B \cap S)
    BY <1>1, <2>1, FS_Subset
  <2> QED BY <2>2, FS_CardinalityType
<1>5. CASE C = {}
  <2>1. Cardinality(C) = 0
    BY <1>5, FS_EmptySet
  <2> QED BY <1>4, <2>1 DEF A, B
<1>6. CASE C # {}
  <2>1. PICK c : c \in C
    BY <1>6
  <2>2. c \in A /\ c \in T /\ c \notin B
    BY <2>1
  <2>3. Cardinality(B) = n
    BY <1>1, <2>2
  <2>4. B \cap S \in SUBSET A
    <3>1. SUFFICES ASSUME NEW p \in B, p \in S PROVE p \in A
      OBVIOUS
    <3>2. p \in Nat /\ c \in Nat /\ p # c
      BY <1>1, <2>2, <3>1
    <3>3. ~(c < p)
      BY <1>2, <2>2
    <3>4. p < c
      BY <3>2, <3>3
    <3> QED BY <1>3, <2>2, <3>1, <3>4
  <2>5. C \cup (B \cap S) \in SUBSET A /\ C \cap (B \cap S) = {}
    BY <2>4
  <2>6. Cardinality(C \cup (B \cap S)) <= Cardinality(A)
    BY <1>1, <2>5, FS_Subset
  <2>7. Cardinality(C \cup (B \cap S)) = Cardinality(C) + Cardinality(B \cap S)
    <3> HIDE DEF C
    <3>1. Cardinality({}) = 0
      BY FS_EmptySet
    <3>2. Cardinality(C \cup (B \cap S)) =
            Cardinality(C) + Cardinality(B \cap S) - Cardinality(C \cap (B \cap S))
      BY <1>4, FS_Union
    <3>3. Cardinality(C \cap (B \cap S)) = 0
      BY <2>5, <3>1
    <3> DEFINE both == Cardinality(C \cap (B \cap S))  c1 == Cardinality(C)
               c2 == Cardinality(B \cap S)  all == Cardinality(C \cup (B \cap S))
    <3>4. all = c1 + c2 - both /\ both = 0 /\ c1 \in Nat /\ c2 \in Nat
      BY <1>4, <3>2, <3>3
    <3>5. all = c1 + c2
      <4> HIDE DEF both, c1, c2, all
      <4> QED BY <3>4
    <3> QED BY <3>5
  <2>8. Cardinality(B \ S) = Cardinality(B) - Cardinality(B \cap S)
    BY <1>1, FS_Difference
  <2> HIDE DEF C
  <2>9. Cardinality(C) <= Cardinality(B \ S)
    BY <1>1, <1>4, <2>3, <2>6, <2>7, <2>8
  <2> QED BY <1>4, <2>9 DEF A, B, C
<1> QED BY <1>5, <1>6

\* What Ordered lists, and where.
LEMMA OrderedItems ==
  ASSUME NEW S \in SUBSET Nat, IsFiniteSet(S)
  PROVE  /\ Ordered(S) \in Seq(S) /\ Len(Ordered(S)) = Cardinality(S)
         /\ Cardinality(S) \in Nat
         /\ \A i \in 1..Cardinality(S) : Ordered(S)[i] \in S /\ Rank(Ordered(S)[i], S) = i - 1
         /\ \A x \in S : Rank(x, S) + 1 \in 1..Cardinality(S) /\ Ordered(S)[Rank(x, S) + 1] = x
<1> DEFINE n == Cardinality(S)  list == Ordered(S)
<1>1. n \in Nat
  BY FS_CardinalityType
<1>2. list = [i \in 1..n |-> CHOOSE item \in S : Rank(item, S) = i - 1]
  BY DEF Ordered, Rank
<1>3. ASSUME NEW i \in 1..n PROVE list[i] \in S /\ Rank(list[i], S) = i - 1
  <2>1. i - 1 \in 0..(n - 1)
    BY <1>1
  <2>2. \E item \in S : Rank(item, S) = i - 1
    BY <2>1, RankIsOnto
  <2>3. list[i] = CHOOSE item \in S : Rank(item, S) = i - 1
    BY <1>2
  <2> HIDE DEF list
  <2> QED BY <2>2, <2>3
<1>4. list \in [1..n -> S]
  <2>1. list = [i \in 1..n |-> list[i]]
    BY <1>2
  <2> HIDE DEF list
  <2> QED BY <1>3, <2>1
<1>5. list \in Seq(S) /\ Len(list) = n
  <2>1. list \in Seq(S)
    BY <1>1, <1>4, SeqDef
  <2>2. DOMAIN list = 1..n
    BY <1>4
  <2> HIDE DEF list, n
  <2> QED BY <1>1, <2>1, <2>2, LenProperties
<1>6. ASSUME NEW x \in S PROVE Rank(x, S) + 1 \in 1..n /\ list[Rank(x, S) + 1] = x
  <2> DEFINE r == Rank(x, S)
  <2>1. r \in Nat /\ r < n
    BY RankIsNat, RankIsBounded
  <2> HIDE DEF list, n
  <2> DEFINE i == r + 1
  <2>2. i \in 1..n /\ i - 1 = r
    <3> HIDE DEF r
    <3> QED BY <1>1, <2>1
  <2> HIDE DEF i
  <2>3. list[i] \in S /\ Rank(list[i], S) = i - 1
    BY <1>3, <2>2
  <2>4. list[i] = x
    BY <2>2, <2>3, RankIsUnique
  <2> QED BY <2>2, <2>4 DEF i
<1> QED BY <1>1, <1>3, <1>5, <1>6

\* A slice has the items of the ranks from o on, l of them if there are.
LEMMA SliceItems ==
  ASSUME NEW S \in SUBSET Nat, IsFiniteSet(S), NEW o \in Nat, NEW l \in Nat
  PROVE  LET m == Least(o + l, Cardinality(S))
             s == Slice(Ordered(S), o, l)
         IN /\ m \in Nat /\ s \in Seq(S) /\ Len(s) = (IF o <= m THEN m - o ELSE 0)
            /\ \A i \in 1..Len(s) : o + i \in 1..Cardinality(S) /\ s[i] = Ordered(S)[o + i]
<1> DEFINE n == Cardinality(S)  m == Least(o + l, n)  list == Ordered(S)
           s == Slice(list, o, l)  from == o + 1
<1>1. /\ n \in Nat /\ Len(list) = n /\ \A i \in 1..n : list[i] \in S
  BY OrderedItems
<1> HIDE DEF n, list
<1>2. m \in Nat /\ m <= n /\ m <= o + l
  BY <1>1 DEF Least
<1>3. s = SubSeq(list, from, m)
  BY <1>1 DEF Slice
<1>4. /\ from \in Int /\ m \in Int /\ (\A i \in from..m : i \in 1..n)
      /\ (IF from <= m THEN m - from + 1 ELSE 0) = (IF o <= m THEN m - o ELSE 0)
  <2> HIDE DEF m
  <2> QED BY <1>1, <1>2
<1> HIDE DEF m, from
<1>5. \A i \in from..m : list[i] \in S
  BY <1>1, <1>4
<1>6. /\ SubSeq(list, from, m) \in Seq(S)
      /\ Len(SubSeq(list, from, m)) = IF from <= m THEN m - from + 1 ELSE 0
      /\ \A i \in 1..(m - from + 1) : SubSeq(list, from, m)[i] = list[from + i - 1]
  BY <1>4, <1>5, SubSeqProperties
<1>7. s \in Seq(S) /\ Len(s) = IF o <= m THEN m - o ELSE 0
  BY <1>3, <1>4, <1>6
<1>8. ASSUME NEW i \in 1..Len(s) PROVE o + i \in 1..n /\ s[i] = list[o + i]
  <2> HIDE DEF s
  <2>1. i \in Int /\ 1 <= i /\ o < m /\ i <= m - o
    BY <1>2, <1>7, <1>8
  <2>2. o + i \in 1..n /\ i \in 1..(m - from + 1) /\ from + i - 1 = o + i
    BY <1>1, <1>2, <2>1 DEF from
  <2> QED BY <1>3, <1>6, <2>2 DEF s
<1> QED BY <1>2, <1>7, <1>8 DEF n, m, list

\* A page shows the items of the ranks it asks for and hints at a next one
\* exactly when there are more, whether records are counted or groups peeked.
LEMMA PageItems ==
  ASSUME NEW S \in SUBSET Nat, IsFiniteSet(S), NEW o \in Nat, NEW l \in Nat \ {0}, NEW of
  PROVE  LET got == PageOf(of, Ordered(S), o, l)
         IN /\ ToSet(got.page) = First(S, o + l) \ First(S, o)
            /\ got.more <=> o + l < Cardinality(S)
<1> DEFINE n == Cardinality(S)  list == Ordered(S)  got == PageOf(of, list, o, l)
           m == Least(o + l, n)
<1>1. /\ n \in Nat /\ list \in Seq(S) /\ Len(list) = n
      /\ \A i \in 1..n : list[i] \in S /\ Rank(list[i], S) = i - 1
      /\ \A x \in S : Rank(x, S) + 1 \in 1..n /\ list[Rank(x, S) + 1] = x
  BY OrderedItems
<1>2. \A x \in S : Rank(x, S) \in Nat
  BY RankIsNat
<1>3. m \in Nat /\ m <= n /\ m <= o + l /\ (m = n \/ m = o + l)
  BY <1>1 DEF Least
\* A sequence that lists the ranks from o on lists the page.
<1>4. ASSUME NEW s, DOMAIN s = 1..(IF o <= m THEN m - o ELSE 0),
             \A i \in DOMAIN s : s[i] = list[o + i]
      PROVE  ToSet(s) = First(S, o + l) \ First(S, o)
  <2> HIDE DEF n, list, m
  <2>1. ASSUME NEW i \in DOMAIN s PROVE s[i] \in First(S, o + l) \ First(S, o)
    <3>1. i \in Int /\ 1 <= i /\ o + i <= m
      BY <1>3, <1>4, <2>1
    <3>2. o + i \in 1..n /\ o + i - 1 < o + l /\ ~(o + i - 1 < o)
      BY <1>1, <1>3, <3>1
    <3>3. s[i] \in S /\ Rank(s[i], S) = o + i - 1
      BY <1>1, <1>4, <3>2
    <3> QED BY <3>2, <3>3 DEF First
  <2>2. ASSUME NEW x \in First(S, o + l) \ First(S, o) PROVE \E i \in DOMAIN s : x = s[i]
    <3> DEFINE r == Rank(x, S)  i == r + 1 - o
    <3>1. x \in S /\ r \in Nat /\ r < o + l /\ ~(r < o) /\ r + 1 \in 1..n /\ list[r + 1] = x
      BY <1>1, <1>2, <2>2 DEF First
    <3> HIDE DEF r
    <3>2. r + 1 <= m /\ o <= m
      BY <1>1, <1>3, <3>1
    <3>3. i \in 1..(m - o) /\ o + i = r + 1
      BY <1>3, <3>1, <3>2
    <3> HIDE DEF i
    <3>4. i \in DOMAIN s /\ s[i] = list[o + i]
      BY <1>4, <3>2, <3>3
    <3> QED BY <3>1, <3>3, <3>4
  <2> QED BY <2>1, <2>2 DEF ToSet
<1>5. CASE of # "groups"
  <2> DEFINE page == Slice(list, o, l)
             total == IF o = 0 /\ Len(page) < l THEN Len(page) ELSE Len(list)
  <2>1. got = [page |-> page, more |-> o + Len(page) < total]
    BY <1>5 DEF PageOf, SearchPage
  <2>2. /\ page \in Seq(S) /\ Len(page) = (IF o <= m THEN m - o ELSE 0)
        /\ \A i \in 1..Len(page) : page[i] = list[o + i]
    BY SliceItems
  <2> HIDE DEF n, list, m, page
  <2>3. DOMAIN page = 1..Len(page) /\ Len(page) \in Nat
    BY <2>2, LenProperties
  <2>4. ToSet(page) = First(S, o + l) \ First(S, o)
    BY <1>4, <2>2, <2>3
  <2>5. o + Len(page) < total <=> o + l < n
    <3> DEFINE k == Len(page)
    <3>1. k \in Nat /\ k = (IF o <= m THEN m - o ELSE 0) /\ total = IF o = 0 /\ k < l THEN k ELSE n
      BY <1>1, <2>2, <2>3
    <3> HIDE DEF k, total
    <3>2. o + k < total <=> o + l < n
      BY <1>1, <1>3, <3>1
    <3> QED BY <3>2 DEF k
  <2> HIDE DEF got, total
  <2>6. ToSet(got.page) = First(S, o + l) \ First(S, o) /\ (got.more <=> o + l < n)
    BY <2>1, <2>4, <2>5
  <2> QED BY <2>6 DEF got, n, list
<1>6. CASE of = "groups"
  <2> DEFINE peek == Slice(list, o, l + 1)  page == Slice(peek, 0, l)  p == Least(o + (l + 1), n)
             k == Len(peek)  last == Least(l, k)  one == 1
  <2>1. got = [page |-> page, more |-> k > l]
    BY <1>6 DEF PageOf, GroupsPage
  <2>2. /\ p \in Nat /\ peek \in Seq(S) /\ k = (IF o <= p THEN p - o ELSE 0)
        /\ \A i \in 1..k : peek[i] = list[o + i]
    <3>1. l + 1 \in Nat
      OBVIOUS
    <3> QED BY <3>1, SliceItems
  <2>3. p <= n /\ p <= o + l + 1 /\ (p = n \/ p = o + l + 1)
    BY <1>1 DEF Least
  <2> HIDE DEF n, list, m, peek, p
  <2>4. k \in Nat /\ \A i \in 1..k : peek[i] \in S
    BY <2>2, LenProperties, ElementOfSeq
  <2>5. page = SubSeq(peek, one, last)
    <3>1. 0 + 1 = one /\ 0 + l = l
      OBVIOUS
    <3> QED BY <3>1 DEF Slice
  <2> HIDE DEF k, page
  <2>6. /\ last \in Int /\ last = (IF o <= m THEN m - o ELSE 0) /\ last <= k
        /\ k > l <=> o + l < n
    BY <1>1, <1>3, <2>2, <2>3, <2>4 DEF Least
  <2>7. /\ one \in Int /\ one = 1 /\ last - one + 1 = last
        /\ (IF one <= last THEN last - one + 1 ELSE 0) = last
        /\ \A i \in one..last : peek[i] \in S
    BY <1>3, <2>4, <2>6
  <2>8. last \in Nat
    BY <1>3, <2>6
  <2> HIDE DEF last, one
  <2>9. /\ page \in Seq(S) /\ Len(page) = last
        /\ \A i \in 1..last : page[i] = peek[one + i - 1]
    <3>1. /\ SubSeq(peek, one, last) \in Seq(S)
          /\ Len(SubSeq(peek, one, last)) = IF one <= last THEN last - one + 1 ELSE 0
          /\ \A i \in 1..(last - one + 1) : SubSeq(peek, one, last)[i] = peek[one + i - 1]
      BY <2>6, <2>7, SubSeqProperties
    <3> QED BY <2>5, <2>7, <3>1
  <2>10. DOMAIN page = 1..last /\ \A i \in 1..last : page[i] = list[o + i]
    <3>1. DOMAIN page = 1..last
      BY <2>9, LenProperties
    <3>2. ASSUME NEW i \in 1..last PROVE page[i] = list[o + i]
      <4>1. i \in 1..k /\ one + i - 1 = i
        BY <2>4, <2>6, <2>7, <2>8
      <4> QED BY <2>2, <2>9, <4>1
    <3> QED BY <3>1, <3>2
  <2>11. ToSet(page) = First(S, o + l) \ First(S, o)
    BY <1>4, <2>6, <2>10
  <2> HIDE DEF got
  <2>12. ToSet(got.page) = First(S, o + l) \ First(S, o) /\ (got.more <=> o + l < n)
    BY <2>1, <2>6, <2>11
  <2> QED BY <2>12 DEF got, n, list
<1> QED BY <1>5, <1>6

\* What is covered by two finite sets is no more than they are together.
LEMMA Cover ==
  ASSUME NEW A, NEW B, IsFiniteSet(A), IsFiniteSet(B), NEW X \in SUBSET (A \cup B)
  PROVE  /\ IsFiniteSet(X) /\ Cardinality(X) \in Nat
         /\ Cardinality(A) \in Nat /\ Cardinality(B) \in Nat
         /\ Cardinality(X) <= Cardinality(A) + Cardinality(B)
         /\ A \cap B = {} => Cardinality(A \cup B) = Cardinality(A) + Cardinality(B)
<1>1. IsFiniteSet(A \cup B) /\ IsFiniteSet(A \cap B)
  <2>1. IsFiniteSet(A \cup B)
    BY FS_Union
  <2>2. A \cap B \in SUBSET A
    OBVIOUS
  <2> QED BY <2>1, <2>2, FS_Subset
<1>2. IsFiniteSet(X) /\ Cardinality(X) <= Cardinality(A \cup B)
  BY <1>1, FS_Subset
<1>3. Cardinality(A \cup B) = Cardinality(A) + Cardinality(B) - Cardinality(A \cap B)
  BY FS_Union
<1>4. A \cap B = {} => Cardinality(A \cap B) = 0
  BY FS_EmptySet
<1> DEFINE a == Cardinality(A)  b == Cardinality(B)  x == Cardinality(X)
           both == Cardinality(A \cap B)  all == Cardinality(A \cup B)
<1>5. a \in Nat /\ b \in Nat /\ x \in Nat /\ both \in Nat /\ all \in Nat
  BY <1>1, <1>2, FS_CardinalityType
<1>6. x <= a + b /\ (both = 0 => all = a + b)
  <2>1. x <= all /\ all = a + b - both
    BY <1>2, <1>3
  <2> HIDE DEF a, b, x, both, all
  <2> QED BY <1>5, <2>1
<1> QED BY <1>2, <1>4, <1>5, <1>6

\* When the items become M, the unseen ones before a place in the list are no
\* more than were before, and those that left.
LEMMA MoveKeepsLeft ==
  ASSUME NEW L \in SUBSET Nat, IsFiniteSet(L), NEW M \in SUBSET Nat, IsFiniteSet(M),
         NEW n \in Nat, NEW whole \in SUBSET L, NEW seen, NEW left \in Nat,
         Cardinality((whole \ seen) \cap First(L, n)) <= left
  PROVE  Cardinality(((whole \cap M) \ seen) \cap First(M, n)) <= left + Cardinality(L \ M)
<1> DEFINE F == First(L, n)  G == First(M, n)
           X == ((whole \cap M) \ seen) \cap G  A == (whole \ seen) \cap F
           B == (G \cap L) \ F  D == F \ M  E == L \ M
<1>1. F \in SUBSET L /\ G \in SUBSET M
  BY FirstIsCounted
<1>2. Cardinality(B) <= Cardinality(D)
  BY Crossing
<1> HIDE DEF F, G
<1>3. A \in SUBSET L /\ B \in SUBSET L /\ D \in SUBSET E /\ E \in SUBSET L
  BY <1>1
<1>4. IsFiniteSet(A) /\ IsFiniteSet(B) /\ IsFiniteSet(E)
  BY <1>3, FS_Subset
<1>5. X \in SUBSET (A \cup B)
  BY <1>1
<1>6. Cardinality(D) <= Cardinality(E) /\ IsFiniteSet(D)
  BY <1>3, <1>4, FS_Subset
<1>7. Cardinality(D) \in Nat /\ Cardinality(E) \in Nat
  BY <1>4, <1>6, FS_CardinalityType
<1>8. Cardinality(A) <= left
  BY DEF F
<1> HIDE DEF X, A, B, D, E
<1>9. /\ Cardinality(X) \in Nat /\ Cardinality(A) \in Nat /\ Cardinality(B) \in Nat
      /\ Cardinality(X) <= Cardinality(A) + Cardinality(B)
  BY <1>4, <1>5, Cover
<1>10. Cardinality(X) <= left + Cardinality(E)
  BY <1>2, <1>6, <1>7, <1>8, <1>9
<1> QED BY <1>10 DEF X, E, G

\* And the seen ones after it no more than were, and those that came.
LEMMA MoveKeepsRepeats ==
  ASSUME NEW L \in SUBSET Nat, IsFiniteSet(L), NEW M \in SUBSET Nat, IsFiniteSet(M),
         NEW n \in Nat, NEW seen, NEW repeats \in Nat, NEW came \in Nat,
         Cardinality((seen \cap L) \ First(L, n)) + repeats <= came
  PROVE  Cardinality((seen \cap M) \ First(M, n)) + repeats <= came + Cardinality(M \ L)
<1> DEFINE F == First(L, n)  G == First(M, n)
           X == (seen \cap M) \ G  A == (seen \cap L) \ F
           B == (F \cap M) \ G  C == (M \ L) \ G  D == G \ L  E == M \ L
<1>1. F \in SUBSET L /\ G \in SUBSET M
  BY FirstIsCounted
<1>2. Cardinality(B) <= Cardinality(D)
  BY Crossing
<1> HIDE DEF F, G
<1>3. /\ A \in SUBSET L /\ B \in SUBSET M /\ C \in SUBSET M /\ D \in SUBSET M
      /\ D \cup C = E /\ D \cap C = {} /\ B \cup C \in SUBSET (B \cup C)
      /\ X \in SUBSET (A \cup (B \cup C)) /\ B \cup C \in SUBSET M
      /\ D \cup C \in SUBSET (D \cup C)
  BY <1>1
<1>4. /\ IsFiniteSet(A) /\ IsFiniteSet(B) /\ IsFiniteSet(C) /\ IsFiniteSet(D)
      /\ IsFiniteSet(B \cup C)
  BY <1>3, FS_Subset
<1>5. Cardinality(A) + repeats <= came
  BY DEF F
<1> HIDE DEF X, A, B, C, D, E
<1> DEFINE x == Cardinality(X)  a == Cardinality(A)  b == Cardinality(B)
           c == Cardinality(C)  d == Cardinality(D)  e == Cardinality(E)
           bc == Cardinality(B \cup C)
<1>6. x <= a + bc /\ x \in Nat /\ a \in Nat /\ bc \in Nat
  BY <1>3, <1>4, Cover
<1>7. bc <= b + c /\ b \in Nat /\ c \in Nat
  BY <1>3, <1>4, Cover
<1>8. e = d + c /\ d \in Nat
  BY <1>3, <1>4, Cover
<1>9. x + repeats <= came + e
  <2>1. b <= d /\ a + repeats <= came
    BY <1>2, <1>5
  <2> HIDE DEF x, a, b, c, d, e, bc
  <2> QED BY <1>6, <1>7, <1>8, <2>1
<1> QED BY <1>9 DEF x, e, X, E, G

\* A page that is not past the place asked for leaves nothing unseen before
\* the place it ends at that was not unseen before the place asked for.
LEMMA PageKeepsLeft ==
  ASSUME NEW L \in SUBSET Nat, IsFiniteSet(L), NEW n \in Nat, NEW o \in Nat, o <= n,
         NEW l \in Nat, NEW items, items = First(L, o + l) \ First(L, o),
         NEW whole, NEW seen
  PROVE  Cardinality((whole \ (seen \cup items)) \cap First(L, o + l))
           <= Cardinality((whole \ seen) \cap First(L, n))
<1> DEFINE F == First(L, o + l)  G == First(L, n)
           X == (whole \ (seen \cup items)) \cap F  A == (whole \ seen) \cap G
<1>1. First(L, o) \in SUBSET G
  <2>1. SUFFICES ASSUME NEW x \in L, Rank(x, L) < o PROVE Rank(x, L) < n
    BY DEF First
  <2>2. Rank(x, L) \in Nat
    BY RankIsNat
  <2> QED BY <2>1, <2>2
<1>2. G \in SUBSET L
  BY FirstIsCounted
<1> HIDE DEF F, G
<1>3. A \in SUBSET L /\ X \in SUBSET A
  BY <1>1, <1>2 DEF F
<1>4. IsFiniteSet(A)
  BY <1>3, FS_Subset
<1> HIDE DEF X, A
<1>5. Cardinality(X) <= Cardinality(A)
  BY <1>3, <1>4, FS_Subset
<1> QED BY <1>5 DEF X, A, F, G

\* A page at the place asked for repeats what was seen after that place, and
\* moves the place past it.
LEMMA PageKeepsRepeats ==
  ASSUME NEW L \in SUBSET Nat, IsFiniteSet(L), NEW o \in Nat, NEW l \in Nat,
         NEW items, items = First(L, o + l) \ First(L, o),
         NEW seen, NEW repeats \in Nat, NEW came \in Nat,
         Cardinality((seen \cap L) \ First(L, o)) + repeats <= came
  PROVE  /\ Cardinality(((seen \cup items) \cap L) \ First(L, o + l))
              + (repeats + Cardinality(seen \cap items)) <= came
         /\ Cardinality(seen \cap items) \in Nat
         /\ Cardinality(((seen \cup items) \cap L) \ First(L, o + l)) \in Nat
<1> DEFINE F == First(L, o + l)  G == First(L, o)
           X == ((seen \cup items) \cap L) \ F  Y == seen \cap items
           A == (seen \cap L) \ G
<1>1. F \in SUBSET L /\ G \in SUBSET F
  <2>1. o + l \in Nat
    OBVIOUS
  <2>2. F \in SUBSET L
    BY <2>1, FirstIsCounted
  <2>3. SUFFICES ASSUME NEW x \in L, Rank(x, L) < o PROVE Rank(x, L) < o + l
    BY <2>2 DEF First
  <2>4. Rank(x, L) \in Nat
    BY RankIsNat
  <2> QED BY <2>3, <2>4
<1>2. items = F \ G
  OBVIOUS
<1> HIDE DEF F, G
<1>3. /\ X \cup Y \in SUBSET A /\ X \cap Y = {} /\ A \in SUBSET L
      /\ X \in SUBSET A /\ Y \in SUBSET A /\ X \cup Y \in SUBSET (X \cup Y)
  BY <1>1, <1>2
<1>4. Cardinality(A) + repeats <= came
  BY DEF G
<1>5. IsFiniteSet(A)
  BY <1>3, FS_Subset
<1> HIDE DEF X, Y, A
<1>6. IsFiniteSet(X) /\ IsFiniteSet(Y) /\ Cardinality(X \cup Y) <= Cardinality(A)
  BY <1>3, <1>5, FS_Subset
<1> DEFINE x == Cardinality(X)  y == Cardinality(Y)  a == Cardinality(A)
           xy == Cardinality(X \cup Y)
<1>7. x \in Nat /\ y \in Nat /\ xy = x + y
  BY <1>3, <1>6, Cover
<1>8. a \in Nat /\ xy <= a /\ a + repeats <= came
  BY <1>4, <1>5, <1>6, FS_CardinalityType
<1>9. x + (repeats + y) <= came
  <2> HIDE DEF x, y, a, xy
  <2> QED BY <1>7, <1>8
<1> QED BY <1>7, <1>9 DEF x, y, X, Y, F

-----------------------------------------------------------------------------
(***************************************************************************)
(* The tools: a walk.                                                      *)
(***************************************************************************)
Hints == [offset : Nat, limit : Nat]

Walks == [of : {"rows", "groups"}, pages : Nat, next : {NoHint} \cup Hints,
          seen : SUBSET Nat, whole : SUBSET Nat,
          repeats : Nat, left : Nat, came : Nat, capped : BOOLEAN]

\* Of what was there all the time, no more is unseen before the place the walk
\* has come to than left, and, of what is behind it, no more has been seen,
\* with what was seen twice, than came.
Accounted(w, n, L) ==
  /\ Cardinality((w.whole \ w.seen) \cap First(L, n)) <= w.left
  /\ w.capped = FALSE => Cardinality((w.seen \cap L) \ First(L, n)) + w.repeats <= w.came

Ended(w) ==
  /\ Cardinality(w.whole \ w.seen) <= w.left
  /\ w.capped = FALSE => w.repeats <= w.came

WalkInv(w, L) ==
  /\ w.whole \subseteq L
  /\ w.next = NoHint => Ended(w)
  /\ w.next # NoHint => Accounted(w, w.next.offset, L)

\* A walk over L after the items became M, and after a page.
Moved(w, L, M) ==
  [w EXCEPT !.left = @ + Cardinality(L \ M), !.came = @ + Cardinality(M \ L),
            !.whole = @ \cap M]

Paged(w, n, o, l, items, more) ==
  [w EXCEPT !.pages = @ + 1,
            !.next = IF more THEN [offset |-> o + l, limit |-> l] ELSE NoHint,
            !.seen = @ \cup items,
            !.repeats = @ + Cardinality(w.seen \cap items),
            !.capped = @ \/ o < n]

\* No hint is the hint that there is none.
LEMMA HintsAreHints == \A hint \in Hints : hint # NoHint
BY DEF Hints, NoHint

\* Insertions and deletions are accounted for.
LEMMA MoveKeepsWalk ==
  ASSUME NEW w \in Walks, NEW L \in SUBSET Nat, IsFiniteSet(L), NEW M \in SUBSET Nat,
         IsFiniteSet(M), WalkInv(w, L)
  PROVE  LET v == Moved(w, L, M)
         IN v \in Walks /\ WalkInv(v, M) /\ v.next = w.next /\ v.of = w.of
<1> DEFINE v == Moved(w, L, M)  gone == Cardinality(L \ M)  new == Cardinality(M \ L)
<1>1. gone \in Nat /\ new \in Nat
  <2>1. L \ M \in SUBSET L /\ M \ L \in SUBSET M
    OBVIOUS
  <2>2. IsFiniteSet(L \ M) /\ IsFiniteSet(M \ L)
    BY <2>1, FS_Subset
  <2> QED BY <2>2, FS_CardinalityType
<1>2. v = [w EXCEPT !.left = w.left + gone, !.came = w.came + new, !.whole = w.whole \cap M]
  BY DEF Walks, Moved
<1> SUFFICES v \in Walks /\ WalkInv(v, M) /\ v.next = w.next /\ v.of = w.of
  OBVIOUS
<1> HIDE DEF v
<1>3. /\ w.left \in Nat /\ w.came \in Nat /\ w.repeats \in Nat /\ w.capped \in BOOLEAN
      /\ w.whole \in SUBSET Nat /\ w.next \in {NoHint} \cup Hints
  BY DEF Walks
<1> HIDE DEF gone, new
<1>4. /\ v.of = w.of /\ v.next = w.next /\ v.seen = w.seen /\ v.repeats = w.repeats
      /\ v.capped = w.capped /\ v.left = w.left + gone /\ v.came = w.came + new
      /\ v.whole = w.whole \cap M
  BY <1>2 DEF Walks
<1>5. v \in Walks
  <2> DEFINE gLeft == w.left + gone  gCame == w.came + new  gWhole == w.whole \cap M
  <2>1. gLeft \in Nat /\ gCame \in Nat /\ gWhole \in SUBSET Nat
    BY <1>1, <1>3
  <2>2. v = [w EXCEPT !.left = gLeft, !.came = gCame, !.whole = gWhole]
    BY <1>2
  <2> HIDE DEF gLeft, gCame, gWhole
  <2> QED BY <2>1, <2>2 DEF Walks
<1>6. w.whole \in SUBSET L
  BY DEF WalkInv
<1>7. CASE w.next = NoHint
  <2>1. Cardinality(w.whole \ w.seen) <= w.left /\ (w.capped = FALSE => w.repeats <= w.came)
    BY <1>7 DEF WalkInv, Ended
  <2>2. w.whole \ w.seen \in SUBSET L /\ v.whole \ v.seen \in SUBSET (w.whole \ w.seen)
    BY <1>4, <1>6
  <2> DEFINE a == w.whole \ w.seen  b == v.whole \ v.seen
  <2> HIDE DEF a, b
  <2>3. IsFiniteSet(a) /\ IsFiniteSet(b) /\ Cardinality(b) <= Cardinality(a)
    <3>1. a \in SUBSET L /\ b \in SUBSET a
      BY <2>2 DEF a, b
    <3> QED BY <3>1, FS_Subset
  <2>4. Cardinality(a) \in Nat /\ Cardinality(b) \in Nat
    BY <2>3, FS_CardinalityType
  <2>5. Cardinality(a) <= w.left
    BY <2>1 DEF a
  <2>6. Cardinality(b) <= v.left /\ (v.capped = FALSE => v.repeats <= v.came)
    BY <1>1, <1>3, <1>4, <2>1, <2>3, <2>4, <2>5
  <2> QED BY <1>4, <1>5, <1>7, <2>6 DEF WalkInv, Ended, b
<1>8. CASE w.next # NoHint
  <2> DEFINE n == w.next.offset  whole == w.whole  seen == w.seen  left == w.left
             repeats == w.repeats  came == w.came
  <2>1. n \in Nat
    BY <1>3, <1>8 DEF Hints
  <2>2. Accounted(w, n, L)
    BY <1>8 DEF WalkInv
  <2>3. Cardinality((whole \ seen) \cap First(L, n)) <= left
    BY <2>2 DEF Accounted
  <2>4. whole \in SUBSET L /\ left \in Nat /\ repeats \in Nat /\ came \in Nat
    BY <1>3, <1>6
  <2>5. Cardinality(((whole \cap M) \ seen) \cap First(M, n)) <= left + Cardinality(L \ M)
    <3> HIDE DEF n, whole, seen, left
    <3> QED BY <2>1, <2>3, <2>4, MoveKeepsLeft
  <2>6. ASSUME w.capped = FALSE
        PROVE  Cardinality((seen \cap M) \ First(M, n)) + repeats <= came + Cardinality(M \ L)
    <3>1. Cardinality((seen \cap L) \ First(L, n)) + repeats <= came
      BY <2>2, <2>6 DEF Accounted
    <3> HIDE DEF n, seen, repeats, came
    <3> QED BY <2>1, <2>4, <3>1, MoveKeepsRepeats
  <2>7. Accounted(v, n, M)
    BY <1>4, <2>5, <2>6 DEF Accounted, gone, new
  <2> QED BY <1>4, <1>5, <1>8, <2>7 DEF WalkInv
<1> QED BY <1>7, <1>8

\* So is a page, from the place it was asked from or, capped, before it; and
\* it hints at a next one only where there are items.
LEMMA PageKeepsWalk ==
  ASSUME NEW w \in Walks, NEW L \in SUBSET Nat, IsFiniteSet(L),
         NEW n \in Nat, NEW o \in Nat, o <= n, NEW l \in Nat,
         w.whole \subseteq L, Accounted(w, n, L),
         NEW items, items = First(L, o + l) \ First(L, o),
         NEW more, more <=> o + l < Cardinality(L)
  PROVE  LET v == Paged(w, n, o, l, items, more)
         IN /\ v \in Walks /\ WalkInv(v, L) /\ v.of = w.of
            /\ v.next # NoHint => v.next.offset < Cardinality(L)
<1> DEFINE v == Paged(w, n, o, l, items, more)
           m == o + l  hint == [offset |-> m, limit |-> l]  again == Cardinality(w.seen \cap items)
           next == IF more THEN hint ELSE NoHint  seen == w.seen \cup items
           repeats == w.repeats + again  capped == w.capped \/ o < n  pages == w.pages + 1
<1>1. /\ w.left \in Nat /\ w.came \in Nat /\ w.repeats \in Nat /\ w.capped \in BOOLEAN
      /\ w.whole \in SUBSET L /\ w.seen \in SUBSET Nat /\ w.pages \in Nat
  BY DEF Walks
<1>2. m \in Nat /\ pages \in Nat
  BY <1>1
<1>3. First(L, m) \in SUBSET L
  BY <1>2, FirstIsCounted
<1>4. items \in SUBSET L /\ w.seen \cap items \in SUBSET L
  BY <1>3
<1>5. again \in Nat
  <2>1. IsFiniteSet(w.seen \cap items)
    BY <1>4, FS_Subset
  <2> QED BY <2>1, FS_CardinalityType
<1>6. v = [w EXCEPT !.pages = pages, !.next = next, !.seen = seen, !.repeats = repeats,
                    !.capped = capped]
  BY DEF Walks, Paged
<1> SUFFICES /\ v \in Walks /\ WalkInv(v, L) /\ v.of = w.of
             /\ v.next # NoHint => v.next.offset < Cardinality(L)
  OBVIOUS
<1> HIDE DEF v
<1>7. hint \in Hints
  BY <1>2 DEF Hints
<1>8. /\ next \in {NoHint} \cup Hints /\ seen \in SUBSET Nat /\ repeats \in Nat
      /\ capped \in BOOLEAN
  <2>1. seen \in SUBSET Nat
    BY <1>1, <1>4
  <2>2. repeats \in Nat
    <3> HIDE DEF again
    <3> QED BY <1>1, <1>5
  <2>3. next \in {NoHint} \cup Hints
    <3> HIDE DEF hint
    <3> QED BY <1>7
  <2> QED BY <2>1, <2>2, <2>3
<1> HIDE DEF next, seen, repeats, capped, pages, again, m
<1>9. v \in Walks
  BY <1>2, <1>6, <1>8 DEF Walks
<1>10. /\ v.of = w.of /\ v.next = next /\ v.seen = seen /\ v.repeats = repeats
       /\ v.capped = capped /\ v.left = w.left /\ v.came = w.came /\ v.whole = w.whole
  BY <1>6 DEF Walks
<1>11. Cardinality((w.whole \ seen) \cap First(L, m)) <= w.left
  <2> DEFINE whole == w.whole  old == w.seen
             X == (whole \ (old \cup items)) \cap First(L, o + l)
             Y == (whole \ old) \cap First(L, n)
  <2>1. Cardinality(X) <= Cardinality(Y)
    <3> HIDE DEF whole, old
    <3> QED BY PageKeepsLeft
  <2>2. Cardinality(Y) <= w.left
    BY DEF Accounted
  <2>3. X \in SUBSET L /\ Y \in SUBSET L
    BY <1>1
  <2> HIDE DEF X, Y
  <2>4. IsFiniteSet(X) /\ IsFiniteSet(Y)
    BY <2>3, FS_Subset
  <2>5. Cardinality(X) \in Nat /\ Cardinality(Y) \in Nat
    BY <2>4, FS_CardinalityType
  <2>6. Cardinality(X) <= w.left
    BY <1>1, <2>1, <2>2, <2>5
  <2> QED BY <2>6 DEF X, seen, m
<1>12. ASSUME v.capped = FALSE
       PROVE  /\ Cardinality((seen \cap L) \ First(L, m)) + repeats <= w.came
              /\ Cardinality((seen \cap L) \ First(L, m)) \in Nat
  <2> DEFINE old == w.seen  count == w.repeats  came == w.came
  <2>1. w.capped = FALSE /\ ~(o < n)
    <3>1. capped = FALSE
      BY <1>10, <1>12
    <3>2. ~(w.capped \/ o < n)
      BY <3>1 DEF capped
    <3>3. ~(o < n) /\ ~w.capped
      BY <3>2
    <3> QED BY <1>1, <3>3
  <2>2. o = n
    BY <2>1
  <2>3. Cardinality((old \cap L) \ First(L, o)) + count <= came
    BY <2>1, <2>2 DEF Accounted
  <2>4. count \in Nat /\ came \in Nat
    BY <1>1
  <2>5. /\ Cardinality(((old \cup items) \cap L) \ First(L, o + l))
             + (count + Cardinality(old \cap items)) <= came
        /\ Cardinality(((old \cup items) \cap L) \ First(L, o + l)) \in Nat
    <3> HIDE DEF old, count, came
    <3> QED BY <2>3, <2>4, PageKeepsRepeats
  <2> QED BY <2>5 DEF seen, m, repeats, again
<1>13. CASE more
  <2>1. v.next = hint /\ v.next.offset = m /\ hint # NoHint
    BY <1>7, <1>10, <1>13, HintsAreHints DEF next
  <2>2. Accounted(v, m, L)
    BY <1>10, <1>11, <1>12 DEF Accounted
  <2>3. m < Cardinality(L)
    BY <1>13 DEF m
  <2> QED BY <1>1, <1>9, <1>10, <2>1, <2>2, <2>3 DEF WalkInv
<1>14. CASE ~more
  <2>1. v.next = NoHint
    BY <1>10, <1>14 DEF next
  <2>2. First(L, m) = L
    <3>1. Cardinality(L) \in Nat
      BY FS_CardinalityType
    <3>2. Cardinality(L) <= m
      BY <1>2, <1>14, <3>1 DEF m
    <3> QED BY <1>2, <3>2, FirstIsCounted
  <2>3. (w.whole \ seen) \cap First(L, m) = v.whole \ v.seen
    BY <1>1, <1>10, <2>2
  <2>4. Cardinality(v.whole \ v.seen) <= v.left
    BY <1>10, <1>11, <2>3
  <2>5. ASSUME v.capped = FALSE PROVE v.repeats <= v.came
    <3> DEFINE x == Cardinality((seen \cap L) \ First(L, m))
    <3>1. x + repeats <= w.came /\ x \in Nat
      BY <1>12, <2>5
    <3> HIDE DEF x
    <3>2. repeats <= w.came
      BY <1>1, <1>8, <3>1
    <3> QED BY <1>10, <3>2
  <2> QED BY <1>1, <1>9, <1>10, <2>1, <2>4, <2>5 DEF WalkInv, Ended
<1> QED BY <1>13, <1>14

\* Limits are positive whatever is configured and asked for, and an offset is
\* never raised.
LEMMA LimitsAreSound ==
  ASSUME LimitsArePositive, limits \in [default : Int, max : Int]
  PROVE  /\ \A asked \in Int : EffectiveLimit(asked) \in Nat \ {0}
         /\ \A asked \in Nat : EffectiveOffset(asked) \in Nat /\ EffectiveOffset(asked) <= asked
<1> DEFINE d == IF limits.default <= 0 THEN DEFAULT_LIMIT ELSE limits.default
           m == IF limits.max <= 0 THEN MAX_LIMIT ELSE limits.max
           far == m * MAX_OFFSET_PAGES
<1>1. /\ limits.default \in Int /\ limits.max \in Int
      /\ DEFAULT_LIMIT \in Nat \ {0} /\ MAX_LIMIT \in Nat \ {0} /\ MAX_OFFSET_PAGES \in Nat \ {0}
  BY DEF LimitsArePositive
<1>2. d \in Nat \ {0} /\ m \in Nat \ {0}
  BY <1>1
<1> HIDE DEF d, m
<1>3. far \in Nat
  BY <1>1, <1>2
<1> HIDE DEF far
<1>4. Bounds.default = Least(d, m) /\ Bounds.max = m
  BY DEF Bounds, d, m
<1>5. ASSUME NEW asked \in Int PROVE EffectiveLimit(asked) \in Nat \ {0}
  BY <1>2, <1>4 DEF EffectiveLimit, Least
<1>6. ASSUME NEW asked \in Nat
      PROVE  EffectiveOffset(asked) \in Nat /\ EffectiveOffset(asked) <= asked
  <2>1. EffectiveOffset(asked) = Least(asked, far)
    BY <1>4 DEF EffectiveOffset, far
  <2> QED BY <1>3, <2>1 DEF Least
<1> QED BY <1>5, <1>6

\* What is walked over is finite and numbered.
LEMMA ListedIsNumbered ==
  ASSUME RecordsAreNumbered, NEW rs \in SUBSET Ids, NEW of
  PROVE  Listed(of, rs) \in SUBSET Nat /\ IsFiniteSet(Listed(of, rs))
<1>1. rs \in SUBSET Nat /\ IsFiniteSet(rs)
  BY FS_Subset DEF RecordsAreNumbered
<1>2. CASE of = "groups"
  <2> DEFINE T == {GroupOf[r] : r \in rs}  f == [r \in rs |-> GroupOf[r]]
  <2>1. T \in SUBSET Nat
    BY DEF RecordsAreNumbered
  <2>2. f \in Surjection(rs, T)
    BY DEF Surjection
  <2> HIDE DEF f
  <2>3. Listed(of, rs) = T
    BY <1>2 DEF Listed
  <2> HIDE DEF T
  <2>4. IsFiniteSet(T)
    BY <1>1, <2>2, FS_Surjection
  <2> QED BY <2>1, <2>3, <2>4
<1>3. CASE of # "groups"
  BY <1>1, <1>3 DEF Listed
<1> QED BY <1>2, <1>3

\* The walk is accounted for over the records there are.
ToolsInv ==
  /\ rows \in SUBSET Ids
  /\ limits \in [default : Int, max : Int]
  /\ custom \in [state : {"code", "other"}, may : BOOLEAN, active : BOOLEAN]
  /\ uris \in SUBSET ({"field", "attachment"} \X WithFile)
  /\ walk # Ready => walk \in Walks /\ WalkInv(walk, Listed(walk.of, rows))

\* What a step leaves of the walk.
Walked ==
  /\ walk' # Ready => walk' \in Walks /\ WalkInv(walk', Listed(walk'.of, rows'))
  /\ walk' # Ready /\ walk'.next # NoHint /\ walk'.next # walk.next =>
       walk'.next.offset < Cardinality(Listed(walk'.of, rows))

\* Standing still is no step of a walk.
LEMMA StillWalks ==
  ASSUME ToolsInv, rows' = rows, walk' = walk
  PROVE  Walked
BY DEF ToolsInv, Walked

\* The records may become any others.
LEMMA MoveWalks ==
  ASSUME RecordsAreNumbered, ToolsInv, NEW rs \in SUBSET Ids, Move(rs)
  PROVE  Walked /\ rows' \in SUBSET Ids
<1> DEFINE L == Listed(walk.of, rows)  M == Listed(walk.of, rs)
<1>1. rows' = rs /\ rows \in SUBSET Ids
  BY DEF Move, ToolsInv
<1>2. CASE walk = Ready
  <2>1. walk' = Ready
    BY <1>2 DEF Move
  <2> QED BY <1>1, <2>1 DEF Walked
<1>3. CASE walk # Ready
  <2>1. walk \in Walks /\ WalkInv(walk, L)
    BY <1>3 DEF ToolsInv
  <2>2. /\ L \in SUBSET Nat /\ IsFiniteSet(L) /\ M \in SUBSET Nat /\ IsFiniteSet(M)
    BY <1>1, ListedIsNumbered
  <2>3. walk' = Moved(walk, L, M)
    BY <1>3 DEF Move, Moved
  <2>4. M = Listed(walk.of, rows')
    BY <1>1
  <2> HIDE DEF L, M
  <2> DEFINE w == walk  v == walk'
  <2>5. v = Moved(w, L, M)
    BY <2>3
  <2>6. w \in Walks /\ WalkInv(w, L)
    BY <2>1
  <2> HIDE DEF w, v
  <2>7. v \in Walks /\ WalkInv(v, M) /\ v.next = w.next /\ v.of = w.of
    BY <2>2, <2>5, <2>6, MoveKeepsWalk
  <2> QED BY <1>1, <2>4, <2>7 DEF Walked, v, w
<1> QED BY <1>2, <1>3

\* Where a new walk starts, or the walk there is goes on.
Continues(of, offset, fresh) ==
  /\ fresh = TRUE => offset = 0
  /\ fresh = FALSE => walk # Ready /\ walk.of = of /\ walk.next # NoHint
                       /\ walk.next.offset = offset

\* A page of a new walk, or the next one of the walk there is.
LEMMA FetchWalks ==
  ASSUME RecordsAreNumbered, LimitsArePositive, ToolsInv,
         NEW of \in {"rows", "groups"}, NEW offset \in Nat, NEW limit \in Int,
         NEW fresh \in BOOLEAN, Continues(of, offset, fresh),
         Fetch(of, offset, limit, fresh)
  PROVE  Walked /\ rows' = rows /\ uris' \in SUBSET ({"field", "attachment"} \X WithFile)
<1> DEFINE l == EffectiveLimit(limit)
           o == EffectiveOffset(offset)
           L == Listed(of, rows)
           got == PageOf(of, Ordered(L), o, l)
           items == ToSet(got.page)
           new == [of |-> of, pages |-> 0, next |-> NoHint, seen |-> {}, whole |-> ToSet(Ordered(L)),
                   repeats |-> 0, left |-> 0, came |-> 0, capped |-> FALSE]
           start == IF fresh THEN new ELSE walk
<1>1. l \in Nat \ {0} /\ o \in Nat /\ o <= offset
  BY LimitsAreSound DEF ToolsInv
<1>2. L \in SUBSET Nat /\ IsFiniteSet(L)
  BY ListedIsNumbered DEF ToolsInv
<1>3. CASE ~Gate("record", "read")
  <2>1. Refused
    BY <1>3 DEF Fetch
  <2>2. rows' = rows /\ walk' = walk /\ uris' = uris
    BY <2>1 DEF Refused, Still
  <2> QED BY <2>2, StillWalks DEF ToolsInv
<1>4. CASE Gate("record", "read")
  <2>1. /\ walk' = Paged(start, offset, o, l, items, got.more)
        /\ rows' = rows
        /\ uris' = IF of = "rows" THEN uris \cup Files(items) ELSE uris
    BY <1>4 DEF Fetch, Paged
  <2>2. uris' \in SUBSET ({"field", "attachment"} \X WithFile)
    BY <2>1 DEF Files, ToolsInv
  <2> DEFINE more == got.more  n == offset
  <2>3. items = First(L, o + l) \ First(L, o) /\ (more <=> o + l < Cardinality(L))
    <3> HIDE DEF o, l, L
    <3> QED BY <1>1, <1>2, PageItems
  <2>5. start \in Walks /\ start.of = of /\ start.whole \subseteq L /\ Accounted(start, n, L)
    <3>1. CASE fresh = TRUE
      <4>1. ToSet(Ordered(L)) \in SUBSET L
        <5> HIDE DEF L
        <5>1. /\ Len(Ordered(L)) = Cardinality(L) /\ Ordered(L) \in Seq(L)
              /\ \A i \in 1..Cardinality(L) : Ordered(L)[i] \in L
          BY <1>2, OrderedItems
        <5>2. \A i \in DOMAIN Ordered(L) : Ordered(L)[i] \in L
          BY <5>1, LenProperties
        <5> QED BY <5>2 DEF ToSet
      <4> DEFINE all == ToSet(Ordered(L))
      <4> HIDE DEF all
      <4>2. start = [of |-> of, pages |-> 0, next |-> NoHint, seen |-> {}, whole |-> all,
                     repeats |-> 0, left |-> 0, came |-> 0, capped |-> FALSE]
        BY <3>1 DEF all
      <4>3. all \in SUBSET Nat /\ all \in SUBSET L
        BY <1>2, <4>1 DEF all
      <4> HIDE DEF start
      <4>4. start \in Walks
        BY <4>2, <4>3 DEF Walks
      <4>5. /\ start.of = of /\ start.whole = all /\ start.seen = {} /\ start.repeats = 0
            /\ start.left = 0 /\ start.came = 0
        BY <4>2
      <4> HIDE DEF L
      <4>6. n = 0 /\ First(L, n) = {} /\ Cardinality({}) = 0
        <5>1. n = 0 /\ n \in Nat
          BY <3>1 DEF Continues
        <5> HIDE DEF n
        <5> QED BY <1>2, <5>1, FirstIsCounted, FS_EmptySet
      <4>7. (start.whole \ start.seen) \cap First(L, n) = {}
            /\ (start.seen \cap L) \ First(L, n) = {}
        BY <4>5, <4>6
      <4>8. Accounted(start, n, L)
        <5> HIDE DEF n
        <5>1. /\ Cardinality((start.whole \ start.seen) \cap First(L, n)) = 0
              /\ Cardinality((start.seen \cap L) \ First(L, n)) = 0
          BY <4>6, <4>7
        <5> QED BY <4>5, <5>1 DEF Accounted
      <4> QED BY <4>3, <4>4, <4>5, <4>8
    <3>2. CASE fresh = FALSE
      <4>1. start = walk /\ walk \in Walks /\ WalkInv(walk, Listed(walk.of, rows))
        BY <3>2 DEF ToolsInv, Continues
      <4>2. walk.of = of /\ walk.next # NoHint /\ walk.next.offset = offset
        BY <3>2 DEF Continues
      <4> HIDE DEF start
      <4> QED BY <4>1, <4>2 DEF WalkInv
    <3> QED BY <3>1, <3>2
  <2> DEFINE w == start  v == walk'
  <2>6. v = Paged(w, n, o, l, items, more)
    BY <2>1
  <2>7. /\ v \in Walks /\ WalkInv(v, L) /\ v.of = w.of
        /\ v.next # NoHint => v.next.offset < Cardinality(L)
    <3>1. w \in Walks /\ w.whole \subseteq L /\ Accounted(w, n, L) /\ n \in Nat /\ o <= n /\ l \in Nat
      BY <1>1, <2>5
    <3> HIDE DEF w, v, L, n, o, l, items, more, start
    <3>2. items = First(L, o + l) \ First(L, o)
      BY <2>3
    <3>3. more <=> o + l < Cardinality(L)
      BY <2>3
    <3> QED BY <1>1, <1>2, <2>6, <3>1, <3>2, <3>3, PageKeepsWalk
  <2>8. v.of = of
    BY <2>5, <2>7
  <2> HIDE DEF v, w
  <2>9. Walked
    BY <2>1, <2>7, <2>8 DEF Walked, v
  <2> QED BY <2>1, <2>2, <2>9
<1> QED BY <1>3, <1>4

\* What the tools do to the rest.
ToolsStep ==
  /\ Walked
  /\ rows' \in SUBSET Ids
  /\ limits' \in [default : Int, max : Int]
  /\ custom' \in [state : {"code", "other"}, may : BOOLEAN, active : BOOLEAN]
  /\ uris' \in SUBSET ({"field", "attachment"} \X WithFile)

\* A refused call leaves everything.
LEMMA RefusedSteps ==
  ASSUME ToolsInv, Refused, Environment
  PROVE  ToolsStep
<1>1. rows' = rows /\ walk' = walk /\ uris' = uris /\ limits' = limits /\ custom' = custom
  BY DEF Refused, Still, Environment
<1> QED BY <1>1, StillWalks DEF ToolsInv, ToolsStep

\* So does an answered one, but for the URIs it may hand out.
LEMMA AnsweredSteps ==
  ASSUME ToolsInv, Still, Environment,
         uris' \in SUBSET ({"field", "attachment"} \X WithFile)
  PROVE  ToolsStep
<1>1. rows' = rows /\ walk' = walk /\ limits' = limits /\ custom' = custom
  BY DEF Still, Environment
<1> QED BY <1>1, StillWalks DEF ToolsInv, ToolsStep

\* Or but for the records it makes or deletes.
LEMMA MovedSteps ==
  ASSUME RecordsAreNumbered, ToolsInv, NEW rs \in SUBSET Ids, Move(rs), uris' = uris,
         limits' = limits, custom' = custom
  PROVE  ToolsStep
<1>1. Walked /\ rows' \in SUBSET Ids
  BY MoveWalks
<1> QED BY <1>1 DEF ToolsInv, ToolsStep

\* Every step of the client, of others or of the administrator is such a step.
LEMMA ToolsSteps ==
  ASSUME RecordsAreNumbered, LimitsArePositive, SettingsAreNumbers, ToolsInv,
         [ToolsNext]_toolsVars
  PROVE  ToolsStep
<1> DEFINE UriSets == SUBSET ({"field", "attachment"} \X WithFile)
<1>1. uris \in UriSets /\ rows \in SUBSET Ids
  BY DEF ToolsInv
<1>2. CASE StartWalk
  <2>1. PICK of \in {"rows", "groups"}, limit \in Asks : Fetch(of, 0, limit, TRUE)
    BY <1>2 DEF StartWalk
  <2>2. limit \in Int /\ limits' = limits /\ custom' = custom
    BY <1>2 DEF StartWalk, Environment, SettingsAreNumbers
  <2> DEFINE zero == 0  fresh == TRUE
  <2>3. zero \in Nat /\ fresh \in BOOLEAN /\ Fetch(of, zero, limit, fresh)
    BY <2>1
  <2>5. Continues(of, zero, fresh)
    BY DEF Continues
  <2> HIDE DEF zero, fresh
  <2>4. Walked /\ rows' = rows /\ uris' \in UriSets
    BY <2>2, <2>3, <2>5, FetchWalks
  <2> QED BY <1>1, <2>2, <2>4 DEF ToolsStep, ToolsInv
<1>3. CASE FollowHint
  <2> DEFINE of == walk.of  offset == walk.next.offset  limit == walk.next.limit  fresh == FALSE
  <2>1. /\ walk.next # NoHint /\ Fetch(of, offset, limit, fresh)
        /\ limits' = limits /\ custom' = custom
    BY <1>3 DEF FollowHint, Environment
  <2>2. walk # Ready
    BY <2>1 DEF Ready
  <2>3. of \in {"rows", "groups"} /\ offset \in Nat /\ limit \in Int
    BY <2>1, <2>2 DEF ToolsInv, Walks, Hints
  <2>4. Continues(of, offset, fresh) /\ fresh \in BOOLEAN
    BY <2>1, <2>2 DEF Continues
  <2> HIDE DEF of, offset, limit, fresh
  <2>5. Walked /\ rows' = rows /\ uris' \in UriSets
    BY <2>1, <2>2, <2>3, <2>4, FetchWalks
  <2> QED BY <1>1, <2>1, <2>5 DEF ToolsStep, ToolsInv
<1>4. CASE GetRecord
  <2> HIDE DEF UriSets
  <2>1. Environment /\ (Refused \/ (Still /\ \E id \in Ids : uris' = uris \cup Files({id})))
    <3>1. PICK id \in Ids, selection \in {"bulk", "named"} :
            IF Gate("record", "read") /\ Exists(id)
            THEN /\ Answers(Fields(selection) \cup Preview(id))
                 /\ uris' = uris \cup Files({id})
                 /\ Still
            ELSE Refused
      BY <1>4 DEF GetRecord
    <3> QED BY <1>4, <3>1 DEF GetRecord
  <2>2. CASE Refused
    BY <2>1, <2>2, RefusedSteps
  <2>3. CASE Still /\ \E id \in Ids : uris' = uris \cup Files({id})
    <3>1. PICK id \in Ids : uris' = uris \cup Files({id})
      BY <2>3
    <3>2. Files({id}) \in UriSets
      BY DEF Files, UriSets
    <3>3. uris' \in UriSets
      BY <1>1, <3>1, <3>2 DEF UriSets
    <3> QED BY <2>1, <2>3, <3>3, AnsweredSteps DEF UriSets
  <2> QED BY <2>1, <2>2, <2>3
<1>5. CASE Describe \/ GetFields \/ ReadResource \/ WriteRecord \/ RunTool
  <2> HIDE DEF UriSets
  <2>1. Environment
    BY <1>5 DEF Describe, GetFields, ReadResource, WriteRecord, RunTool
  <2>2. Refused \/ (Still /\ uris' = uris)
    <3>1. CASE Describe \/ GetFields \/ RunTool
      BY <3>1 DEF Describe, GetFields, RunTool
    <3>2. CASE ReadResource
      <4>1. PICK uri \in uris \cup ({"attachment"} \X WithFile) :
              \/ Answers({<<uri[1], "read">>}) /\ Still /\ UNCHANGED uris
              \/ Refused
        BY <3>2 DEF ReadResource
      <4> QED BY <4>1
    <3>3. CASE WriteRecord
      <4>1. PICK id \in Ids :
              \/ Answers({<<"record", "write">>}) /\ Still /\ UNCHANGED uris
              \/ Refused
        BY <3>3 DEF WriteRecord
      <4> QED BY <4>1
    <3> QED BY <1>5, <3>1, <3>2, <3>3
  <2> QED BY <1>1, <2>1, <2>2, RefusedSteps, AnsweredSteps DEF UriSets
<1>6. CASE CreateRecord
  <2>1. Environment
    BY <1>6 DEF CreateRecord
  <2>2. CASE Refused
    BY <2>1, <2>2, RefusedSteps
  <2>3. CASE ~Refused
    <3>1. PICK id \in Ids \ rows : Move(rows \cup {id}) /\ UNCHANGED uris
      BY <1>6, <2>3 DEF CreateRecord
    <3>2. rows \cup {id} \in SUBSET Ids
      BY <1>1
    <3> QED BY <2>1, <3>1, <3>2, MovedSteps DEF Environment
  <2> QED BY <2>2, <2>3
<1>7. CASE DeleteRecord
  <2>1. Environment
    BY <1>7 DEF DeleteRecord
  <2>2. CASE Refused
    BY <2>1, <2>2, RefusedSteps
  <2>3. CASE ~Refused
    <3>1. PICK id \in Ids : Move(rows \ {id}) /\ UNCHANGED uris
      BY <1>7, <2>3 DEF DeleteRecord
    <3>2. rows \ {id} \in SUBSET Ids
      BY <1>1
    <3> QED BY <2>1, <3>1, <3>2, MovedSteps DEF Environment
  <2> QED BY <2>2, <2>3
<1>8. CASE CallModelMethod
  <2>1. Environment
    BY <1>8 DEF CallModelMethod
  <2>2. CASE Refused
    BY <2>1, <2>2, RefusedSteps
  <2>3. CASE ~Refused
    <3>1. PICK method \in Methods, ids \in SUBSET Ids :
            UNCHANGED uris /\ (Still \/ Move(rows \ ids))
      BY <1>8, <2>3 DEF CallModelMethod
    <3>2. rows \ ids \in SUBSET Ids
      BY <1>1
    <3>3. CASE Still
      BY <1>1, <2>1, <3>1, <3>3, AnsweredSteps
    <3>4. CASE Move(rows \ ids)
      BY <2>1, <3>1, <3>2, <3>4, MovedSteps DEF Environment
    <3> QED BY <3>1, <3>3, <3>4
  <2> QED BY <2>2, <2>3
<1>9. CASE Others
  <2>1. /\ uris' = uris /\ limits' = limits /\ custom' = custom
        /\ \/ \E id \in Ids \ rows : Move(rows \cup {id})
           \/ \E id \in rows : Move(rows \ {id})
    BY <1>9 DEF Others
  <2>2. PICK rs \in SUBSET Ids : Move(rs)
    BY <1>1, <2>1
  <2> QED BY <2>1, <2>2, MovedSteps
<1>10. CASE SaveTool \/ EditAction
  <2>1. rows' = rows /\ walk' = walk /\ uris' = uris /\ limits' = limits
    BY <1>10 DEF SaveTool, EditAction, Edit
  <2>2. custom' \in [state : {"code", "other"}, may : BOOLEAN, active : BOOLEAN]
    BY <1>10 DEF SaveTool, EditAction, ToolsInv
  <2> QED BY <1>1, <2>1, <2>2, StillWalks DEF ToolsStep, ToolsInv
<1>11. CASE SetLimits
  <2>1. rows' = rows /\ walk' = walk /\ uris' = uris /\ custom' = custom
    BY <1>11 DEF SetLimits, Edit
  <2>2. limits' \in [default : Int, max : Int]
    BY <1>11 DEF SetLimits, SettingsAreNumbers
  <2> QED BY <1>1, <2>1, <2>2, StillWalks DEF ToolsStep, ToolsInv
<1>12. CASE SetPermission \/ Read \/ UNCHANGED toolsVars
  <2>1. /\ rows' = rows /\ walk' = walk /\ uris' = uris /\ custom' = custom
        /\ limits' = limits
    BY <1>12 DEF SetPermission, Edit, Read, toolsVars
  <2> QED BY <1>1, <2>1, StillWalks DEF ToolsStep, ToolsInv
<1> QED BY <1>2, <1>3, <1>4, <1>5, <1>6, <1>7, <1>8, <1>9, <1>10, <1>11, <1>12
        DEF ToolsNext, WalkNext, CallNext

\* The walk is accounted for, whatever is inserted, deleted or reconfigured
\* between its pages.
THEOREM ToolsInvariant == ToolsSpec => []ToolsInv
<1>1. ASSUME ToolsInit PROVE ToolsInv
  <2>1. rows \in SUBSET Ids
    BY <1>1, RecordsAreNumbered DEF ToolsInit, RecordsAreNumbered
  <2>2. limits \in [default : Int, max : Int]
    BY <1>1, LimitsArePositive DEF ToolsInit, LimitsArePositive
  <2> QED BY <1>1, <2>1, <2>2 DEF ToolsInit, ToolsInv
<1>2. ASSUME ToolsInv, [ToolsNext]_toolsVars PROVE ToolsInv'
  <2>1. ToolsStep
    BY <1>2, ToolsSteps, RecordsAreNumbered, LimitsArePositive, SettingsAreNumbers
  <2> QED BY <2>1 DEF ToolsStep, Walked, ToolsInv
<1> QED BY <1>1, <1>2, PTL DEF ToolsSpec

\* A walk along the next-page hints misses at most as many items that were
\* there all the time as left, and repeats at most as many as came.
THEOREM WalksAreAccounted == ToolsSpec => []WalkIsAccounted
<1>1. ASSUME ToolsInv PROVE WalkIsAccounted
  <2>1. SUFFICES ASSUME walk # Ready
        PROVE  /\ walk.next = NoHint => Cardinality(walk.whole \ walk.seen) <= walk.left
               /\ ~walk.capped => walk.repeats <= walk.came
    BY DEF WalkIsAccounted
  <2> DEFINE L == Listed(walk.of, rows)
  <2>2. walk \in Walks /\ WalkInv(walk, L)
    BY <1>1, <2>1 DEF ToolsInv
  <2>3. L \in SUBSET Nat /\ IsFiniteSet(L)
    BY <1>1, ListedIsNumbered, RecordsAreNumbered DEF ToolsInv
  <2> HIDE DEF L
  <2>4. walk.next = NoHint => Ended(walk)
    BY <2>2 DEF WalkInv
  <2>5. ASSUME walk.capped = FALSE, walk.next # NoHint PROVE walk.repeats <= walk.came
    <3> DEFINE X == (walk.seen \cap L) \ First(L, walk.next.offset)
    <3>1. Cardinality(X) + walk.repeats <= walk.came
      BY <2>2, <2>5 DEF WalkInv, Accounted
    <3>2. X \in SUBSET L
      OBVIOUS
    <3> HIDE DEF X
    <3>3. IsFiniteSet(X)
      BY <2>3, <3>2, FS_Subset
    <3>4. Cardinality(X) \in Nat
      BY <3>3, FS_CardinalityType
    <3>5. walk.repeats \in Nat /\ walk.came \in Nat
      BY <2>2 DEF Walks
    <3> QED BY <3>1, <3>4, <3>5
  <2>6. walk.capped \in BOOLEAN
    BY <2>2 DEF Walks
  <2>7. walk.next = NoHint => Cardinality(walk.whole \ walk.seen) <= walk.left
    BY <2>4 DEF Ended
  <2>8. walk.capped = FALSE => walk.repeats <= walk.came
    BY <2>4, <2>5 DEF Ended
  <2> QED BY <2>6, <2>7, <2>8
<1> QED BY <1>1, ToolsInvariant, PTL

\* A next-page hint leads to items, unless some left since.
THEOREM HintsLeadSomewhere == ToolsSpec => HintsLeadToRows
<1>1. ASSUME ToolsInv, [ToolsNext]_toolsVars
      PROVE  walk' # Ready /\ walk'.next # NoHint /\ walk'.next # walk.next =>
               walk'.next.offset < Cardinality(Listed(walk'.of, rows))
  <2>1. ToolsStep
    BY <1>1, ToolsSteps, RecordsAreNumbered, LimitsArePositive, SettingsAreNumbers
  <2> QED BY <2>1 DEF ToolsStep, Walked
<1>2. ASSUME ToolsInv, [ToolsNext]_toolsVars
      PROVE  [walk' # Ready /\ walk'.next # NoHint /\ walk'.next # walk.next =>
                walk'.next.offset < Cardinality(Listed(walk'.of, rows))]_toolsVars
  BY <1>1, <1>2
<1> QED BY <1>2, ToolsInvariant, PTL DEF HintsLeadToRows, ToolsSpec

-----------------------------------------------------------------------------
(***************************************************************************)
(* The tools: what calls show and do.                                      *)
(***************************************************************************)
Changes == {<<"record", "create">>, <<"record", "unlink">>, <<"record", "methods">>}

\* A call shows and does what is permitted, the whole of it, and changes the
\* records only by what it says it did.
EffectStep ==
  reply' # NoReply =>
    /\ \A effect \in reply'.effects : Permits(effect)
    /\ rows' # rows => reply'.effects \cap Changes # {}
    /\ reply'.done = reply'.asked /\ reply'.asked \subseteq rows
    /\ ~reply'.ok => rows' = rows

\* A refused call shows and does nothing.
LEMMA RefusedEffects ==
  ASSUME Refused
  PROVE  EffectStep
<1>1. /\ reply' = [ok |-> FALSE, effects |-> {}, asked |-> {}, done |-> {}]
      /\ rows' = rows
  BY DEF Refused, Still
<1>2. reply'.effects = {} /\ reply'.asked = {} /\ reply'.done = {}
  BY <1>1
<1> QED BY <1>1, <1>2 DEF EffectStep

\* An answered one has the effects it tells, done to all it names.
LEMMA AnsweredEffects ==
  ASSUME NEW E, NEW asked \in SUBSET rows, Batch(E, asked, asked),
         \A effect \in E : Permits(effect), rows' = rows \/ E \cap Changes # {}
  PROVE  EffectStep
<1>1. reply' = [ok |-> TRUE, effects |-> E, asked |-> asked, done |-> asked]
  BY DEF Batch
<1>2. /\ reply'.effects = E /\ reply'.asked = asked /\ reply'.done = asked
      /\ reply'.ok = TRUE
  BY <1>1
<1> QED BY <1>2 DEF EffectStep

\* A call that names no records.
LEMMA PlainEffects ==
  ASSUME NEW E, Answers(E), \A effect \in E : Permits(effect),
         rows' = rows \/ E \cap Changes # {}
  PROVE  EffectStep
<1> DEFINE none == {}
<1>1. Batch(E, none, none) /\ none \in SUBSET rows
  BY DEF Answers
<1> HIDE DEF none
<1> QED BY <1>1, AnsweredEffects

\* What the operations' permissions permit.
LEMMA GatesPermit ==
  /\ \A op \in Operations : Gate("record", op) => Permits(<<"record", op>>)
  /\ Gate("record", "read") =>
       /\ \A selection : \A effect \in Fields(selection) : Permits(effect)
       /\ \A id : \A effect \in Preview(id) : Permits(effect)
<1>1. ASSUME NEW op \in Operations, Gate("record", op) PROVE Permits(<<"record", op>>)
  <2> DEFINE e == <<"record", op>>
  <2>1. e[1] = "record" /\ e[2] = op /\ op # "secret" /\ op \in open["record"]
    BY <1>1 DEF Gate, Operations
  <2> HIDE DEF e
  <2>2. Permits(e)
    BY <2>1 DEF Permits
  <2> QED BY <2>2 DEF e
<1>2. ASSUME Gate("record", "read"), NEW selection, NEW effect \in Fields(selection)
      PROVE  Permits(effect)
  <2>1. "read" \in open["record"]
    BY <1>2 DEF Gate
  <2>2. effect[1] = "record" /\ effect[2] \in {"read", "secret"}
    BY <1>2 DEF Fields
  <2> QED BY <2>1, <2>2 DEF Permits
<1>3. ASSUME Gate("record", "read"), NEW id, NEW effect \in Preview(id)
      PROVE  Permits(effect)
  <2>1. "read" \in open["record"]
    BY <1>3 DEF Gate
  <2>2. effect[1] = "line" /\ "read" \in open["line"]
    BY <1>3 DEF Preview, Gate
  <2> QED BY <2>1, <2>2 DEF Permits
<1> QED BY <1>1, <1>2, <1>3

\* Every step of the client, of others or of the administrator.
LEMMA EffectSteps ==
  ASSUME MethodsAreKnown, ToolsInv, ToolsNext
  PROVE  EffectStep
<1>1. ASSUME NEW of, NEW offset, NEW limit, NEW fresh, Fetch(of, offset, limit, fresh)
      PROVE  EffectStep
  <2>1. CASE Gate("record", "read")
    <3>1. rows' = rows /\ \E selection \in {"bulk", "named"} : Answers(Fields(selection))
      BY <1>1, <2>1 DEF Fetch
    <3>2. PICK selection \in {"bulk", "named"} : Answers(Fields(selection))
      BY <3>1
    <3>3. \A effect \in Fields(selection) : Permits(effect)
      BY <2>1, GatesPermit
    <3> QED BY <3>1, <3>2, <3>3, PlainEffects
  <2>2. CASE ~Gate("record", "read")
    BY <1>1, <2>2, RefusedEffects DEF Fetch
  <2> QED BY <2>1, <2>2
<1>2. CASE StartWalk
  BY <1>1, <1>2 DEF StartWalk
<1>3. CASE FollowHint
  BY <1>1, <1>3 DEF FollowHint
<1>4. CASE GetRecord
  <2>1. PICK id \in Ids, selection \in {"bulk", "named"} :
          IF Gate("record", "read") /\ Exists(id)
          THEN Answers(Fields(selection) \cup Preview(id)) /\ Still
          ELSE Refused
    BY <1>4 DEF GetRecord
  <2>2. CASE Gate("record", "read") /\ Exists(id)
    <3> DEFINE E == Fields(selection) \cup Preview(id)
    <3>1. \A effect \in E : Permits(effect)
      BY <2>2, GatesPermit
    <3>2. Answers(E) /\ rows' = rows
      BY <2>1, <2>2 DEF Still
    <3> HIDE DEF E
    <3> QED BY <3>1, <3>2, PlainEffects
  <2> QED BY <2>1, <2>2, RefusedEffects
<1>5. CASE Describe
  <2> DEFINE none == {}
  <2>1. Answers(none) /\ rows' = rows /\ \A effect \in none : Permits(effect)
    BY <1>5 DEF Describe, Still
  <2> HIDE DEF none
  <2> QED BY <2>1, PlainEffects
<1>6. ASSUME NEW op \in Operations, Gate("record", op), Answers({<<"record", op>>}),
             rows' = rows \/ <<"record", op>> \in Changes
      PROVE  EffectStep
  <2> DEFINE E == {<<"record", op>>}
  <2>1. \A effect \in E : Permits(effect)
    BY <1>6, GatesPermit
  <2>2. Answers(E) /\ (rows' = rows \/ E \cap Changes # {})
    BY <1>6
  <2> HIDE DEF E
  <2> QED BY <2>1, <2>2, PlainEffects
<1>7. CASE GetFields
  <2>1. CASE Gate("record", "read")
    <3>1. Answers({<<"record", "read">>}) /\ rows' = rows /\ "read" \in Operations
      BY <1>7, <2>1 DEF GetFields, Still, Operations
    <3> QED BY <1>6, <2>1, <3>1
  <2> QED BY <1>7, <2>1, RefusedEffects DEF GetFields
<1>8. CASE ReadResource
  <2>1. PICK uri \in uris \cup ({"attachment"} \X WithFile) :
          IF /\ Exists(uri[2])
             /\ IF uri[1] = "field" THEN Gate("record", "read") ELSE AttachmentAllowed
          THEN Answers({<<uri[1], "read">>}) /\ Still
          ELSE Refused
    BY <1>8 DEF ReadResource
  <2>2. uri[1] \in {"field", "attachment"}
    BY DEF ToolsInv
  <2>3. CASE ~Refused
    <3> DEFINE e == <<uri[1], "read">>  E == {e}
    <3>1. Answers(E) /\ rows' = rows
      BY <2>1, <2>3 DEF Still
    <3>2. IF uri[1] = "field" THEN Gate("record", "read") ELSE AttachmentAllowed
      BY <2>1, <2>3
    <3>3. e[1] = uri[1] /\ e[2] = "read"
      OBVIOUS
    <3> HIDE DEF e
    <3>4. Permits(e)
      BY <2>2, <3>2, <3>3 DEF Permits, Gate, AttachmentAllowed
    <3>5. \A effect \in E : Permits(effect)
      BY <3>4
    <3> HIDE DEF E
    <3> QED BY <3>1, <3>5, PlainEffects
  <2> QED BY <2>3, RefusedEffects
<1>9. CASE CreateRecord
  <2>1. CASE ~Refused
    <3>1. /\ Gate("record", "create") /\ Answers({<<"record", "create">>})
          /\ "create" \in Operations /\ <<"record", "create">> \in Changes
      BY <1>9, <2>1 DEF CreateRecord, Operations, Changes
    <3> QED BY <1>6, <3>1
  <2> QED BY <2>1, RefusedEffects
<1>10. CASE WriteRecord
  <2>1. CASE ~Refused
    <3>1. PICK id \in Ids : IF Gate("record", "write") /\ Exists(id)
                            THEN Answers({<<"record", "write">>}) /\ Still
                            ELSE Refused
      BY <1>10 DEF WriteRecord
    <3>2. /\ Gate("record", "write") /\ Answers({<<"record", "write">>}) /\ rows' = rows
          /\ "write" \in Operations
      BY <2>1, <3>1 DEF Still, Operations
    <3> QED BY <1>6, <3>2
  <2> QED BY <2>1, RefusedEffects
<1>11. CASE DeleteRecord
  <2>1. CASE ~Refused
    <3>1. PICK id \in Ids : IF Gate("record", "unlink") /\ Exists(id)
                            THEN Answers({<<"record", "unlink">>})
                            ELSE Refused
      BY <1>11 DEF DeleteRecord
    <3>2. /\ Gate("record", "unlink") /\ Answers({<<"record", "unlink">>})
          /\ "unlink" \in Operations /\ <<"record", "unlink">> \in Changes
      BY <2>1, <3>1 DEF Operations, Changes
    <3> QED BY <1>6, <3>2
  <2> QED BY <2>1, RefusedEffects
<1>12. CASE CallModelMethod
  <2>1. CASE ~Refused
    <3>1. PICK method \in Methods, ids \in SUBSET Ids :
            /\ MethodAllowed(method)
            /\ ids # {} => Cardinality(ids) <= BatchMax /\ Targets(ids) = ids
            /\ Batch({<<"record", "methods">>}
                       \cup (IF method = "business" THEN {} ELSE {<<"record", method>>}),
                     ids, Targets(ids))
      BY <1>12, <2>1 DEF CallModelMethod
    <3> DEFINE E == {<<"record", "methods">>}
                      \cup (IF method = "business" THEN {} ELSE {<<"record", method>>})
    <3>2. Targets(ids) = ids /\ ids \in SUBSET rows
      BY <3>1 DEF Targets
    <3>3. \A effect \in E : Permits(effect)
      <4>1. Gate("record", "methods") /\ (method # "business" => Gate("record", method))
        BY <3>1 DEF MethodAllowed
      <4>2. "methods" \in Operations /\ (method # "business" => method \in Operations)
        BY <3>1 DEF MethodAllowed, MethodsAreKnown, Operations
      <4>3. Permits(<<"record", "methods">>)
        BY <4>1, <4>2, GatesPermit
      <4>4. method # "business" => Permits(<<"record", method>>)
        BY <4>1, <4>2, GatesPermit
      <4> QED BY <4>3, <4>4
    <3>4. E \cap Changes # {}
      BY DEF Changes
    <3> HIDE DEF E
    <3>5. Batch(E, ids, ids)
      BY <3>1, <3>2 DEF E
    <3> QED BY <3>2, <3>3, <3>4, <3>5, AnsweredEffects
  <2> QED BY <2>1, RefusedEffects
<1>13. CASE RunTool
  <2>1. CASE ~Refused
    <3> DEFINE e == <<"custom", "ran">>  E == {e}
    <3>1. Answers(E) /\ rows' = rows
      BY <1>13, <2>1 DEF RunTool, Still
    <3>2. custom = [state |-> "code", may |-> TRUE, active |-> TRUE]
      <4>1. custom.active /\ custom.may /\ custom.state = "code"
        BY <1>13, <2>1 DEF RunTool, UserCanRun
      <4> QED BY <4>1 DEF ToolsInv
    <3>3. e[1] = "custom" /\ e[2] = "ran"
      OBVIOUS
    <3> HIDE DEF e
    <3>4. Permits(e)
      BY <3>2, <3>3 DEF Permits
    <3>5. \A effect \in E : Permits(effect)
      BY <3>4
    <3> HIDE DEF E
    <3> QED BY <3>1, <3>5, PlainEffects
  <2> QED BY <2>1, RefusedEffects
<1>14. CASE SaveTool \/ EditAction \/ SetLimits \/ SetPermission \/ Others \/ Read
  <2>1. reply' = NoReply
    BY <1>14 DEF SaveTool, EditAction, SetLimits, SetPermission, Edit, Others, Read
  <2> QED BY <2>1 DEF EffectStep
<1> QED BY <1>2, <1>3, <1>4, <1>5, <1>7, <1>8, <1>9, <1>10, <1>11, <1>12, <1>13, <1>14
        DEF ToolsNext, WalkNext, CallNext

\* Nothing is shown or done but what the permissions of the moment allow,
\* however long ago its URI or its name was learnt.
THEOREM EffectsAreGated == ToolsSpec => NoEffectWithoutItsGate
<1>1. ASSUME ToolsInv, ToolsNext
      PROVE  reply' # NoReply =>
               /\ \A effect \in reply'.effects : Permits(effect)
               /\ rows' # rows => reply'.effects \cap {<<"record", "create">>, <<"record", "unlink">>,
                                                        <<"record", "methods">>} # {}
  BY <1>1, EffectSteps, MethodsAreKnown DEF EffectStep, Changes
<1>2. ASSUME ToolsInv, [ToolsNext]_toolsVars
      PROVE  [reply' # NoReply =>
                /\ \A effect \in reply'.effects : Permits(effect)
                /\ rows' # rows => reply'.effects \cap {<<"record", "create">>, <<"record", "unlink">>,
                                                         <<"record", "methods">>} # {}]_toolsVars
  BY <1>1, <1>2
<1> QED BY <1>2, ToolsInvariant, PTL DEF NoEffectWithoutItsGate, ToolsSpec

\* A call on several records is done on every one it names, all of them there,
\* or refused with nothing changed.
THEOREM BatchesAreWhole == ToolsSpec => BatchIsWhole
<1>1. ASSUME ToolsInv, ToolsNext
      PROVE  reply' # NoReply =>
               /\ reply'.done = reply'.asked /\ reply'.asked \subseteq rows
               /\ ~reply'.ok => rows' = rows
  BY <1>1, EffectSteps, MethodsAreKnown DEF EffectStep
<1>2. ASSUME ToolsInv, [ToolsNext]_toolsVars
      PROVE  [reply' # NoReply =>
                /\ reply'.done = reply'.asked /\ reply'.asked \subseteq rows
                /\ ~reply'.ok => rows' = rows]_toolsVars
  BY <1>1, <1>2
<1> QED BY <1>2, ToolsInvariant, PTL DEF BatchIsWhole, ToolsSpec

-----------------------------------------------------------------------------
(***************************************************************************)
(* The bounds, and the types they give.                                    *)
(***************************************************************************)

\* The payslip's variables stay of their types.
THEOREM PayslipTypes == PayslipSpec => []PayslipTypeOK
<1>1. ASSUME PayslipInv PROVE PayslipTypeOK
  BY <1>1 DEF PayslipInv, Slips, PayslipTypeOK
<1> QED BY <1>1, PayslipInvariant, PTL

\* So do the log's, and a cleanup's cutoff is no later than its day.
THEOREM RetentionTypes == RetentionSpec => []RetentionTypeOK
<1>1. ASSUME RetentionInv PROVE RetentionTypeOK
  BY <1>1 DEF RetentionInv, SweepInv, Sweeps, RetentionTypeOK
<1> QED BY <1>1, RetentionInvariant, PTL

\* A run of a post is one of those its request is given.
ChatBounds ==
  /\ \A v \in Visitors : posting[v] # Quiet =>
       posting[v].try \in 1..MaxChatTries /\ posting[v].answers <= MaxDepth
  /\ \A i \in DOMAIN talk : talk[i].answers <= MaxDepth

\* One post moves on within the bounds and no exchange is committed.
LEMMA PostInBounds ==
  ASSUME LivechatInv, ChatBounds, NEW v \in Visitors, NEW p, posting' = [posting EXCEPT ![v] = p],
         p # Quiet => p.try \in 1..MaxChatTries /\ p.answers <= MaxDepth, talk' = talk
  PROVE  ChatBounds'
<1>1. \A u \in Visitors : posting'[u] = IF u = v THEN p ELSE posting[u]
  BY DEF LivechatInv
<1> QED BY <1>1 DEF ChatBounds

\* Every step of the live chat stays within them.
LEMMA ChatBoundsStep ==
  ASSUME ChatIsBounded, LivechatInv, ChatBounds, [LivechatNext]_chatVars
  PROVE  ChatBounds'
<1>1. ASSUME NEW v \in Visitors, Post(v) PROVE ChatBounds'
  <2>1. PICK message \in Kinds : posting' = [posting EXCEPT ![v] = Saved(message, 1)]
    BY <1>1 DEF Post
  <2>2. Saved(message, 1).try \in 1..MaxChatTries /\ Saved(message, 1).answers <= MaxDepth
    BY DEF Saved, ChatIsBounded
  <2> QED BY <1>1, <2>1, <2>2, PostInBounds DEF Post
<1>2. ASSUME NEW v \in Visitors, NEW q, posting' = [posting EXCEPT ![v] = q], talk' = talk,
             posting[v].phase # "quiet", q.try = posting[v].try,
             q.answers = posting[v].answers \/ q.answers <= MaxDepth
      PROVE  ChatBounds'
  <2>1. posting[v] # Quiet
    BY <1>2, PostingOf
  <2> QED BY <1>2, <2>1, PostInBounds DEF ChatBounds
<1>3. ASSUME NEW v \in Visitors, NEW phase, posting' = [posting EXCEPT ![v].phase = phase],
             talk' = talk, posting[v].phase # "quiet"
      PROVE  ChatBounds'
  <2> DEFINE p == posting[v]  q == [p EXCEPT !.phase = phase]
  <2>1. posting' = [posting EXCEPT ![v] = q] /\ p \in PostingType
    BY <1>3, PostingOf
  <2> HIDE DEF p
  <2>2. q.try = p.try /\ q.answers = p.answers
    BY <2>1 DEF PostingType
  <2> HIDE DEF q
  <2> QED BY <1>2, <1>3, <2>1, <2>2 DEF p
<1>4. ASSUME NEW v \in Visitors, Consider(v) PROVE ChatBounds'
  <2> DEFINE phase == IF Triggers(posting[v]) /\ posting[v].agent THEN "asking" ELSE "done"
  <2>1. /\ posting' = [posting EXCEPT ![v].phase = phase] /\ talk' = talk
        /\ posting[v].phase # "quiet"
    BY <1>4 DEF Consider
  <2> HIDE DEF phase
  <2> QED BY <1>3, <2>1
<1>5. ASSUME NEW v \in Visitors, Respond(v) PROVE ChatBounds'
  <2> DEFINE p == posting[v]
  <2>1. p.phase = "asking" /\ talk' = talk
    BY <1>5 DEF Respond
  <2>2. PostingInv(p) /\ p \in PostingType /\ p # Quiet
    BY <2>1, PostingOf
  <2>3. CASE /\ p.answers < MaxDepth
             /\ posting' = [posting EXCEPT ![v].phase = "saved", ![v].author = "bot",
                                           ![v].answers = @ + 1]
    <3> DEFINE q == [p EXCEPT !.phase = "saved", !.author = "bot", !.answers = p.answers + 1]
    <3>1. posting' = [posting EXCEPT ![v] = q]
      BY <2>3
    <3>2. p.answers = 0
      BY <2>1, <2>2 DEF PostingInv, PostingType
    <3> HIDE DEF p
    <3>3. q.try = p.try /\ q.answers = p.answers + 1
      BY <2>2 DEF PostingType
    <3> HIDE DEF q
    <3>4. q.answers <= MaxDepth
      BY <2>3, <3>2, <3>3, ChatIsBounded DEF ChatIsBounded
    <3>5. posting[v].phase # "quiet" /\ q.try = posting[v].try
      BY <2>1, <3>3 DEF p
    <3> QED BY <1>2, <2>1, <3>1, <3>4, <3>5
  <2>4. ASSUME NEW outcome \in {"done", "broken"}, posting' = [posting EXCEPT ![v].phase = outcome]
        PROVE  ChatBounds'
    BY <1>3, <2>1, <2>4
  <2> QED BY <1>5, <2>3, <2>4 DEF Respond
<1>6. ASSUME NEW v \in Visitors, Fail(v) PROVE ChatBounds'
  BY <1>6, PostInBounds DEF Fail
<1>7. ASSUME NEW v \in Visitors, CommitPost(v) PROVE ChatBounds'
  <2> DEFINE p == posting[v]  e == [message |-> p.message, answers |-> p.answers]
             q == [p EXCEPT !.phase = "over"]
  <2>1. /\ p.phase = "done" /\ posting' = [posting EXCEPT ![v] = q] /\ talk' = Append(talk, e)
    BY <1>7 DEF CommitPost
  <2>2. p \in PostingType /\ p # Quiet
    BY <2>1, PostingOf
  <2>3. p.try \in 1..MaxChatTries /\ p.answers <= MaxDepth
    BY <2>2 DEF ChatBounds
  <2> HIDE DEF p
  <2>4. q.try = p.try /\ q.answers = p.answers /\ e.answers = p.answers /\ e \in Exchanges
    BY <2>2 DEF PostingType, Exchanges
  <2> HIDE DEF q, e
  <2>5. \A u \in Visitors : posting'[u] = IF u = v THEN q ELSE posting[u]
    BY <2>1 DEF LivechatInv
  <2>6. \A i \in DOMAIN talk' : talk'[i].answers <= MaxDepth
    <3>1. talk \in Seq(Exchanges)
      BY DEF LivechatInv
    <3>2. /\ DOMAIN talk' = 1..(Len(talk) + 1) /\ talk'[Len(talk) + 1] = e
          /\ \A i \in 1..Len(talk) : talk'[i] = talk[i]
      BY <2>1, <2>4, <3>1, AppendProperties
    <3>3. \A i \in 1..Len(talk) : talk[i].answers <= MaxDepth
      BY <3>1, LenProperties DEF ChatBounds
    <3>4. e.answers <= MaxDepth
      BY <2>3, <2>4
    <3>5. Len(talk) \in Nat
      BY <3>1, LenProperties
    <3> QED BY <3>2, <3>3, <3>4, <3>5
  <2> QED BY <2>3, <2>4, <2>5, <2>6 DEF ChatBounds
<1>8. ASSUME NEW v \in Visitors, RetryPost(v) PROVE ChatBounds'
  <2> DEFINE p == posting[v]
             q == IF p.try < MaxChatTries THEN Saved(p.message, p.try + 1) ELSE Quiet
  <2>1. p.phase = "done" /\ posting' = [posting EXCEPT ![v] = q] /\ talk' = talk
    BY <1>8 DEF RetryPost
  <2>2. p.try \in 1..MaxChatTries
    BY <2>1, PostingOf DEF ChatBounds
  <2>3. q # Quiet => q.try \in 1..MaxChatTries /\ q.answers <= MaxDepth
    <3>1. CASE p.try < MaxChatTries
      <4> HIDE DEF p
      <4>1. Saved(p.message, p.try + 1).try = p.try + 1 /\ Saved(p.message, p.try + 1).answers = 0
        BY DEF Saved
      <4> QED BY <2>2, <3>1, <4>1, ChatIsBounded DEF ChatIsBounded
    <3>2. CASE ~(p.try < MaxChatTries)
      BY <3>2
    <3> QED BY <3>1, <3>2
  <2> HIDE DEF q
  <2> QED BY <2>1, <2>3, PostInBounds
<1>9. CASE SetUp \/ UNCHANGED chatVars
  BY <1>9 DEF SetUp, chatVars, ChatBounds
<1> QED BY <1>1, <1>4, <1>5, <1>6, <1>7, <1>8, <1>9 DEF LivechatNext

\* The live chat's variables stay of their types: a request is not run more
\* often than it may be.
THEOREM LivechatTypes == LivechatSpec => []LivechatTypeOK
<1>1. ASSUME LivechatInit PROVE LivechatInv /\ ChatBounds
  BY <1>1 DEF LivechatInit, LivechatInv, PostingInv, ChatBounds
<1>2. ASSUME LivechatInv, ChatBounds, [LivechatNext]_chatVars PROVE (LivechatInv /\ ChatBounds)'
  BY <1>2, LivechatStep, ChatBoundsStep, ChatIsBounded
<1>3. ASSUME LivechatInv, ChatBounds PROVE LivechatTypeOK
  <2>1. ASSUME NEW v \in Visitors, posting[v] # Quiet
        PROVE  /\ posting[v].phase \in {"saved", "asking", "broken", "done", "over"}
               /\ posting[v].try \in 1..MaxChatTries
               /\ posting[v].answers \in 0..MaxDepth
               /\ posting[v].author \in {"human", "bot"}
    <3> DEFINE p == posting[v]
    <3>1. p \in PostingType /\ p.try \in 1..MaxChatTries /\ p.answers <= MaxDepth
      BY <1>3, <2>1 DEF LivechatInv, PostingInv, ChatBounds
    <3> HIDE DEF p
    <3>2. p.answers \in {0, 1} /\ p.phase \in PostPhases /\ p.author \in {"human", "bot"}
      BY <3>1 DEF PostingType
    <3>3. p.answers \in 0..MaxDepth
      BY <3>1, <3>2, ChatIsBounded DEF ChatIsBounded
    <3> QED BY <3>1, <3>2, <3>3 DEF p, PostPhases
  <2>2. ASSUME NEW i \in DOMAIN talk
        PROVE  talk[i].message \in Kinds /\ talk[i].answers \in 0..MaxDepth
    <3> DEFINE e == talk[i]
    <3>1. e \in Exchanges /\ e.answers <= MaxDepth
      BY <1>3 DEF LivechatInv, ChatBounds
    <3> HIDE DEF e
    <3>2. e.answers \in {0, 1} /\ e.message \in Kinds
      BY <3>1 DEF Exchanges
    <3>3. e.answers \in 0..MaxDepth
      BY <3>1, <3>2, ChatIsBounded DEF ChatIsBounded
    <3> QED BY <3>2, <3>3 DEF e
  <2>3. bot \in BOOLEAN /\ agent \in BOOLEAN
    BY <1>3 DEF LivechatInv
  <2> QED BY <2>1, <2>2, <2>3 DEF LivechatTypeOK
<1> QED BY <1>1, <1>2, <1>3, PTL DEF LivechatSpec
-----------------------------------------------------------------------------
\* A row's text and its note are of versions no later than its own.
InVersions(row) ==
  /\ row.version \in 1..MaxVersions
  /\ row.text \in 1..row.version /\ row.note \in 0..row.version

\* What a transaction has made of such a row: it becomes the next version.
NextVersion(new, row) ==
  new.text \in 1..(row.version + 1) /\ new.note \in 0..(row.version + 1)

\* The committed row and those the desks have read are of such versions, and
\* a transaction is one of those its request is given.
PortalBounds ==
  /\ request # NoRequest => InVersions(request)
  /\ \A d \in Desks : desk[d] # Away =>
       /\ desk[d].run \in 1..MaxRuns
       /\ InVersions(desk[d].snap) /\ NextVersion(desk[d].new, desk[d].snap)

\* One desk's transaction moves on within the bounds, and nobody commits.
LEMMA DeskInBounds ==
  ASSUME PortalInv, PortalBounds, NEW d \in Desks, NEW x, desk' = [desk EXCEPT ![d] = x],
         request' = request,
         x # Away => /\ x.run \in 1..MaxRuns
                     /\ InVersions(x.snap) /\ NextVersion(x.new, x.snap)
  PROVE  PortalBounds'
<1>1. \A e \in Desks : desk'[e] = IF e = d THEN x ELSE desk[e]
  BY DEF PortalInv
<1> QED BY <1>1 DEF PortalBounds, InVersions, NextVersion

\* A desk is done, or gives up.
LEMMA TurnedAwayInBounds ==
  ASSUME PortalInv, PortalBounds, NEW d \in Desks, TurnAway(d), request' = request
  PROVE  PortalBounds'
BY DeskInBounds DEF TurnAway

\* A row is the next version of itself.
LEMMA SameVersion ==
  ASSUME NEW row, InVersions(row), PortalIsBounded
  PROVE  NextVersion(row, row)
BY DEF InVersions, NextVersion, PortalIsBounded

\* A transaction begins, or begins again.
LEMMA RunInBounds ==
  ASSUME PortalIsBounded, PortalInv, PortalBounds, NEW d \in Desks, request # NoRequest,
         NEW order, NEW to, NEW owner, NEW run \in 1..MaxRuns, Run(d, order, to, owner, run),
         request' = request
  PROVE  PortalBounds'
<1> DEFINE x == [phase |-> "check", order |-> order, to |-> to, owner |-> owner,
                 snap |-> request, new |-> request, asked |-> FALSE, run |-> run]
<1>1. desk' = [desk EXCEPT ![d] = x]
  BY DEF Run
<1>2. x.run = run /\ x.snap = request /\ x.new = request
  OBVIOUS
<1> HIDE DEF x
<1>3. InVersions(request)
  BY DEF PortalBounds
<1> QED BY <1>1, <1>2, <1>3, SameVersion, DeskInBounds

\* What an order makes of a row is the next version of it.
LEMMA MadeInBounds ==
  ASSUME PortalIsBounded, NEW order \in Orders, NEW to \in Goals, NEW row \in PortalRows,
         InVersions(row)
  PROVE  NextVersion(Made(order, to, row), row)
<1> DEFINE made == Made(order, to, row)
<1>1. /\ row.version \in Nat /\ row.version >= 1 /\ row.text \in 1..row.version
      /\ row.note \in 0..row.version
  BY DEF InVersions, PortalRows
<1>2. made.note = row.note /\ made.text \in {row.text, row.version + 1}
  <2>1. CASE order = "edit"
    <3> DEFINE type == IF to = "fields" THEN "client" ELSE row.type
    <3>1. made = [row EXCEPT !.text = row.version + 1, !.type = type]
      BY <2>1 DEF Made
    <3> HIDE DEF made, type
    <3> QED BY <3>1 DEF PortalRows
  <2>2. CASE order = "submit"
    <3>1. made = [row EXCEPT !.stage = "submitted", !.acks = @ + 1]
      BY <2>2 DEF Made
    <3> HIDE DEF made
    <3> QED BY <3>1 DEF PortalRows
  <2>3. CASE order = "approve"
    <3>1. made = Approved(row)
      BY <2>3 DEF Made
    <3> HIDE DEF made
    <3> QED BY <3>1 DEF Approved, PortalRows
  <2>4. CASE order = "move"
    <3>1. made = [row EXCEPT !.stage = to]
      BY <2>4 DEF Made
    <3> HIDE DEF made
    <3> QED BY <3>1 DEF PortalRows
  <2> QED BY <2>1, <2>2, <2>3, <2>4 DEF Orders
<1> HIDE DEF made
<1>3. NextVersion(made, row)
  BY <1>1, <1>2 DEF NextVersion
<1> QED BY <1>3 DEF made

\* What the bounds say of a desk that is at work.
LEMMA TaskInBounds ==
  ASSUME PortalInv, PortalBounds, NEW d \in Desks, desk[d].phase # "away"
  PROVE  /\ desk[d].run \in 1..MaxRuns
         /\ InVersions(desk[d].snap) /\ NextVersion(desk[d].new, desk[d].snap)
BY TaskOf DEF PortalBounds

\* A desk's transaction gets a new phase, and its snapshot, what it makes of
\* it and its run are what they were.
LEMMA PhaseInBounds ==
  ASSUME PortalInv, PortalBounds, NEW d \in Desks, desk[d].phase # "away", NEW phase,
         desk' = [desk EXCEPT ![d].phase = phase], request' = request
  PROVE  PortalBounds'
<1> DEFINE t == desk[d]  x == [t EXCEPT !.phase = phase]
<1>1. desk' = [desk EXCEPT ![d] = x] /\ t \in Tasks
  BY TaskOf
<1>2. t.run \in 1..MaxRuns /\ InVersions(t.snap) /\ NextVersion(t.new, t.snap)
  BY TaskInBounds
<1> HIDE DEF t
<1>3. x.run = t.run /\ x.snap = t.snap /\ x.new = t.new
  BY <1>1 DEF Tasks
<1> HIDE DEF x
<1> QED BY <1>1, <1>2, <1>3, DeskInBounds

\* Every step of the portal stays within the bounds.
LEMMA PortalBoundsStep ==
  ASSUME PortalIsBounded, PortalInv, PortalBounds, [PortalNext]_portalVars
  PROVE  PortalBounds'
<1>1. CASE NewRequest
  <2>1. PICK type \in {"blank", "client"} :
          request' = [version |-> 1, stage |-> "draft", text |-> 1, type |-> type, note |-> 0,
                      acks |-> 0, approvals |-> 0, quotes |-> 0]
    BY <1>1 DEF NewRequest
  <2>2. InVersions(request')
    BY <2>1 DEF InVersions, PortalIsBounded
  <2>3. \A d \in Desks : desk'[d] = Away
    BY <1>1, NobodyBefore DEF NewRequest
  <2> QED BY <2>2, <2>3 DEF PortalBounds, InVersions
<1>2. ASSUME NEW d \in Desks, Ask(d) \/ Work(d) PROVE PortalBounds'
  <2>1. request # NoRequest /\ request' = request
    BY <1>2 DEF Ask, Work
  <2> DEFINE one == 1
  <2>2. \E order, to, owner : Run(d, order, to, owner, one)
    BY <1>2 DEF Ask, Work
  <2>3. one \in 1..MaxRuns
    BY DEF PortalIsBounded
  <2> HIDE DEF one
  <2> QED BY <2>1, <2>2, <2>3, RunInBounds
<1>3. ASSUME NEW d \in Desks, Check(d) PROVE PortalBounds'
  <2> DEFINE t == desk[d]  made == Made(t.order, t.to, t.snap)
  <2>1. t.phase = "check" /\ request' = request
    BY <1>3 DEF Check
  <2>2. t \in Tasks
    BY <2>1, TaskOf
  <2>3. t.run \in 1..MaxRuns /\ InVersions(t.snap)
    BY <2>1, TaskInBounds
  <2>4. CASE TurnAway(d)
    BY <2>1, <2>4, TurnedAwayInBounds
  <2>5. ASSUME NEW next, desk' = [desk EXCEPT ![d].phase = next, ![d].new = made]
        PROVE  PortalBounds'
    <3> DEFINE x == [t EXCEPT !.phase = next, !.new = made]
    <3>1. desk' = [desk EXCEPT ![d] = x]
      BY <2>5
    <3>2. NextVersion(made, t.snap)
      <4> HIDE DEF t
      <4>1. t.order \in Orders /\ t.to \in Goals /\ t.snap \in PortalRows
        BY <2>2 DEF Tasks
      <4> QED BY <2>3, <4>1, MadeInBounds
    <3> HIDE DEF t, made
    <3>3. x.run = t.run /\ x.snap = t.snap /\ x.new = made
      BY <2>2 DEF Tasks
    <3> HIDE DEF x
    <3> QED BY <2>1, <2>3, <3>1, <3>2, <3>3, DeskInBounds
  <2> QED BY <1>3, <2>4, <2>5 DEF Check
<1>4. ASSUME NEW d \in Desks, WriteRow(d) PROVE PortalBounds'
  <2> DEFINE t == desk[d]
  <2>1. t.phase \in {"write", "late"} /\ request' = request
    BY <1>4 DEF WriteRow
  <2>2. t.phase # "away" /\ request # NoRequest
    BY <2>1, TaskOf, NobodyBefore
  <2>3. t.run \in 1..MaxRuns
    BY <2>2, TaskInBounds
  <2>4. CASE RunAgain(d)
    <3>1. CASE t.run < MaxRuns
      <4>1. Run(d, t.order, t.to, t.owner, t.run + 1)
        BY <2>4, <3>1 DEF RunAgain
      <4> HIDE DEF t
      <4>2. t.run + 1 \in 1..MaxRuns
        BY <2>3, <3>1, PortalIsBounded DEF PortalIsBounded
      <4> QED BY <2>1, <2>2, <4>1, <4>2, RunInBounds
    <3>2. CASE ~(t.run < MaxRuns)
      <4>1. TurnAway(d)
        BY <2>4, <3>2 DEF RunAgain
      <4> QED BY <2>1, <4>1, TurnedAwayInBounds
    <3> QED BY <3>1, <3>2
  <2>5. CASE \E phase : desk' = [desk EXCEPT ![d].phase = phase]
    BY <2>1, <2>2, <2>5, PhaseInBounds
  <2> QED BY <1>4, <2>4, <2>5 DEF WriteRow
<1>5. ASSUME NEW d \in Desks, Triage(d) PROVE PortalBounds'
  <2> DEFINE t == desk[d]  next == IF lock = d THEN "commit" ELSE "late"
  <2>1. t.phase = "triage" /\ request' = request
    BY <1>5 DEF Triage
  <2>2. t \in Tasks
    BY <2>1, TaskOf
  <2>3. t.run \in 1..MaxRuns /\ InVersions(t.snap) /\ NextVersion(t.new, t.snap)
    BY <2>1, TaskInBounds
  <2>4. PICK new \in {t.new, Triaged(t.new, t.snap.text)} :
          desk' = [desk EXCEPT ![d].phase = next, ![d].asked = TRUE, ![d].new = new]
    BY <1>5 DEF Triage
  <2> DEFINE x == [t EXCEPT !.phase = next, !.asked = TRUE, !.new = new]
  <2>5. desk' = [desk EXCEPT ![d] = x]
    BY <2>4
  <2>6. t.snap \in PortalRows /\ t.new \in PortalRows
    BY <2>2 DEF Tasks
  <2> HIDE DEF t, next
  <2>7. NextVersion(new, t.snap)
    <3> DEFINE row == t.snap  made == t.new
    <3>1. row \in PortalRows /\ made \in PortalRows /\ InVersions(row) /\ NextVersion(made, row)
      BY <2>3, <2>6
    <3> HIDE DEF row, made
    <3>2. Triaged(made, row.text).note = row.text /\ Triaged(made, row.text).text = made.text
      BY <3>1 DEF Triaged, PortalRows
    <3>3. NextVersion(Triaged(made, row.text), row)
      BY <3>1, <3>2 DEF NextVersion, InVersions, PortalRows
    <3> QED BY <2>4, <3>1, <3>3 DEF row, made
  <2>8. x.run = t.run /\ x.snap = t.snap /\ x.new = new
    BY <2>2 DEF Tasks
  <2> HIDE DEF x
  <2> QED BY <2>1, <2>3, <2>5, <2>7, <2>8, DeskInBounds
<1>6. ASSUME NEW d \in Desks, CommitRow(d) PROVE PortalBounds'
  <2> DEFINE new == desk[d].new
  <2>1. /\ desk[d].phase = "commit" /\ desk' = [desk EXCEPT ![d] = Away]
        /\ request.version < MaxVersions
    BY <1>6 DEF CommitRow
  <2>2. /\ desk[d].snap = request /\ request \in PortalRows /\ request' \in PortalRows
        /\ request'.version = request.version + 1
        /\ request'.text = new.text /\ request'.note = new.note
    BY <1>6, Committed
  <2>3. InVersions(request) /\ NextVersion(new, request)
    BY <2>1, <2>2, TaskInBounds
  <2> HIDE DEF new
  <2>4. request.version \in Nat /\ MaxVersions \in Nat
    BY <2>2 DEF PortalRows, PortalIsBounded
  <2>5. InVersions(request')
    BY <2>1, <2>2, <2>3, <2>4 DEF InVersions, NextVersion
  <2>6. \A e \in Desks : desk'[e] = IF e = d THEN Away ELSE desk[e]
    BY <2>1 DEF PortalInv
  <2> QED BY <2>5, <2>6 DEF PortalBounds, InVersions, NextVersion
<1>7. ASSUME NEW d \in Desks, Lose(d) PROVE PortalBounds'
  BY <1>7, TurnedAwayInBounds DEF Lose, TurnAway
<1>8. CASE UNCHANGED portalVars
  BY <1>8 DEF portalVars, PortalBounds, InVersions, NextVersion
<1> QED BY <1>1, <1>2, <1>3, <1>4, <1>5, <1>6, <1>7, <1>8 DEF PortalNext

\* The portal's variables stay of their types: the text and the note of a row
\* are of versions that were committed, and a commit is made by the desk that
\* holds the row.
THEOREM PortalTypes == PortalSpec => []PortalTypeOK
<1>1. ASSUME PortalInit PROVE PortalBounds
  BY <1>1 DEF PortalInit, PortalBounds
<1>2. ASSUME PortalInv, PortalBounds, [PortalNext]_portalVars PROVE PortalBounds'
  BY <1>2, PortalBoundsStep, PortalIsBounded
<1>3. ASSUME PortalInv, PortalBounds PROVE PortalTypeOK
  <2>1. ASSUME NEW row \in PortalRows, InVersions(row) PROVE row \in RowType
    <3>1. row.text \in 1..MaxVersions /\ row.note \in 0..MaxVersions /\ row.version \in 1..MaxVersions
      BY <2>1, PortalIsBounded DEF InVersions, PortalRows, PortalIsBounded
    <3> QED BY <2>1, <3>1 DEF PortalRows, RowType
  <2>2. request \in {NoRequest} \cup RowType
    BY <1>3, <2>1 DEF PortalInv, PortalBounds
  <2>3. ASSUME NEW d \in Desks, desk[d] # Away
        PROVE  /\ desk[d].phase \in {"check", "write", "triage", "late", "commit", "broken"}
               /\ desk[d].order \in Orders
               /\ desk[d].snap \in RowType /\ desk[d].run \in 1..MaxRuns
               /\ desk[d].phase = "commit" => lock = d
    <3> DEFINE t == desk[d]
    <3>1. /\ t \in Tasks /\ (t.phase = "commit" => lock = d)
          /\ t.run \in 1..MaxRuns /\ InVersions(t.snap)
      BY <1>3, <2>3 DEF PortalInv, TaskInv, PortalBounds
    <3> HIDE DEF t
    <3>2. /\ t.snap \in PortalRows /\ t.order \in Orders
          /\ t.phase \in {"check", "write", "triage", "late", "commit", "broken"}
      BY <3>1 DEF Tasks
    <3> QED BY <2>1, <3>1, <3>2 DEF t
  <2>4. lock \in Desks \cup {NoDesk}
    BY <1>3 DEF PortalInv
  <2> QED BY <2>2, <2>3, <2>4 DEF PortalTypeOK
<1> QED BY <1>1, <1>2, <1>3, PortalInvariant, PTL DEF PortalSpec
-----------------------------------------------------------------------------
\* A walk has as many pages as it may, and a hint is never of the first page
\* nor of an empty one.
WalkInBounds(w) ==
  /\ w.pages \in 1..MaxPages
  /\ w.next \in {NoHint} \cup [offset : Nat \ {0}, limit : Nat \ {0}]

ToolsBounds ==
  /\ open \in [Models -> SUBSET Operations]
  /\ limits \in [default : Settings \cup {DEFAULT_LIMIT}, max : Settings \cup {MAX_LIMIT}]
  /\ walk # Ready => WalkInBounds(walk)
  /\ moves \in 0..MaxMoves /\ configs \in 0..MaxConfigs

\* A page counts as one, and hints at what is behind it.
LEMMA PagedInBounds ==
  ASSUME ToolsAreBounded, NEW w \in Walks, w.pages < MaxPages, NEW n, NEW o \in Nat,
         NEW l \in Nat \ {0}, NEW items, NEW more
  PROVE  WalkInBounds(Paged(w, n, o, l, items, more))
<1> DEFINE v == Paged(w, n, o, l, items, more)  m == o + l  hint == [offset |-> m, limit |-> l]
           next == IF more THEN hint ELSE NoHint  pages == w.pages + 1
           seen == w.seen \cup items  repeats == w.repeats + Cardinality(w.seen \cap items)
           capped == w.capped \/ o < n
<1>1. w.pages \in Nat
  BY DEF Walks
<1>2. pages \in 1..MaxPages
  BY <1>1 DEF ToolsAreBounded
<1>3. m \in Nat \ {0}
  OBVIOUS
<1>4. v = [w EXCEPT !.pages = pages, !.next = next, !.seen = seen, !.repeats = repeats,
                    !.capped = capped]
  BY DEF Paged
<1> HIDE DEF m, v, pages, seen, repeats, capped
<1>5. next \in {NoHint} \cup [offset : Nat \ {0}, limit : Nat \ {0}]
  BY <1>3
<1> HIDE DEF next
<1>6. v.pages = pages /\ v.next = next
  BY <1>4 DEF Walks
<1>7. WalkInBounds(v)
  BY <1>2, <1>5, <1>6 DEF WalkInBounds
<1> QED BY <1>7 DEF v

\* A page of a new walk, or of one that may have another.
LEMMA FetchInBounds ==
  ASSUME ToolsAreBounded, LimitsArePositive, ToolsInv, ToolsBounds,
         NEW of \in {"rows", "groups"}, NEW offset \in Nat, NEW limit \in Int,
         NEW fresh \in BOOLEAN, fresh = FALSE => walk # Ready /\ walk.pages < MaxPages,
         Fetch(of, offset, limit, fresh)
  PROVE  walk' # Ready => WalkInBounds(walk')
<1> DEFINE l == EffectiveLimit(limit)
           o == EffectiveOffset(offset)
           L == Listed(of, rows)
           got == PageOf(of, Ordered(L), o, l)
           items == ToSet(got.page)
           all == ToSet(Ordered(L))
           new == [of |-> of, pages |-> 0, next |-> NoHint, seen |-> {}, whole |-> all,
                   repeats |-> 0, left |-> 0, came |-> 0, capped |-> FALSE]
           start == IF fresh THEN new ELSE walk
<1>1. l \in Nat \ {0} /\ o \in Nat
  BY LimitsAreSound DEF ToolsInv
<1>2. CASE ~Gate("record", "read")
  <2>1. walk' = walk
    BY <1>2 DEF Fetch, Refused, Still
  <2> QED BY <2>1 DEF ToolsBounds
<1>3. CASE Gate("record", "read")
  <2>1. walk' = Paged(start, offset, o, l, items, got.more)
    BY <1>3 DEF Fetch, Paged
  <2> DEFINE more == got.more
  <2>2. start \in Walks /\ start.pages < MaxPages
    <3>1. CASE fresh = TRUE
      <4>1. all \in SUBSET Nat
        <5>1. L \in SUBSET Nat /\ IsFiniteSet(L)
          BY ListedIsNumbered, RecordsAreNumbered DEF ToolsInv
        <5> HIDE DEF L
        <5>2. /\ Len(Ordered(L)) = Cardinality(L) /\ Ordered(L) \in Seq(L)
              /\ \A i \in 1..Cardinality(L) : Ordered(L)[i] \in L
          BY <5>1, OrderedItems
        <5>3. \A i \in DOMAIN Ordered(L) : Ordered(L)[i] \in L
          BY <5>2, LenProperties
        <5> QED BY <5>1, <5>3 DEF ToSet
      <4>2. start = new
        BY <3>1
      <4> HIDE DEF all, start
      <4>3. new \in Walks /\ new.pages = 0
        BY <4>1 DEF Walks
      <4> HIDE DEF new
      <4> QED BY <4>2, <4>3, ToolsAreBounded DEF ToolsAreBounded
    <3>2. CASE fresh = FALSE
      BY <3>2 DEF ToolsInv
    <3> QED BY <3>1, <3>2
  <2>3. walk' = Paged(start, offset, o, l, items, more)
    BY <2>1
  <2> HIDE DEF start, o, l, items, more
  <2> QED BY <1>1, <2>2, <2>3, PagedInBounds
<1> QED BY <1>2, <1>3

\* Insertions and deletions turn no page.
LEMMA MoveInBounds ==
  ASSUME ToolsInv, ToolsBounds, ToolsAreBounded, NEW rs, Move(rs)
  PROVE  (walk' # Ready => WalkInBounds(walk')) /\ moves' \in 0..MaxMoves
<1>1. moves' \in 0..MaxMoves
  BY DEF Move, ToolsBounds, ToolsAreBounded
<1>2. CASE walk = Ready
  BY <1>1, <1>2 DEF Move
<1>3. CASE walk # Ready
  <2> DEFINE w == walk  L == Listed(walk.of, rows)  M == Listed(walk.of, rs)
  <2>1. w \in Walks /\ WalkInBounds(w)
    BY <1>3 DEF ToolsInv, ToolsBounds
  <2>2. walk' = Moved(w, L, M)
    BY <1>3 DEF Move, Moved
  <2> HIDE DEF w, L, M
  <2>3. Moved(w, L, M).pages = w.pages /\ Moved(w, L, M).next = w.next
    BY <2>1 DEF Moved, Walks
  <2> QED BY <1>1, <2>1, <2>2, <2>3 DEF WalkInBounds
<1> QED BY <1>2, <1>3

\* Every step of the client, of others or of the administrator stays within
\* the bounds.
LEMMA ToolsBoundsStep ==
  ASSUME ToolsAreBounded, LimitsArePositive, SettingsAreNumbers, ToolsInv, ToolsBounds,
         [ToolsNext]_toolsVars
  PROVE  ToolsBounds'
<1>1. ASSUME UNCHANGED <<open, limits, configs>>,
             \/ walk' = walk /\ moves' = moves
             \/ \E rs : Move(rs)
             \/ (walk' # Ready => WalkInBounds(walk')) /\ moves' = moves
      PROVE  ToolsBounds'
  <2>1. (walk' # Ready => WalkInBounds(walk')) /\ moves' \in 0..MaxMoves
    BY <1>1, MoveInBounds DEF ToolsBounds
  <2> QED BY <1>1, <2>1 DEF ToolsBounds, WalkInBounds
<1>2. CASE StartWalk
  <2>1. PICK of \in {"rows", "groups"}, limit \in Asks : Fetch(of, 0, limit, TRUE)
    BY <1>2 DEF StartWalk
  <2> DEFINE zero == 0  fresh == TRUE
  <2>2. /\ zero \in Nat /\ fresh \in BOOLEAN /\ fresh # FALSE /\ Fetch(of, zero, limit, fresh)
        /\ limit \in Int
    BY <2>1 DEF SettingsAreNumbers
  <2> HIDE DEF zero, fresh
  <2>3. walk' # Ready => WalkInBounds(walk')
    BY <2>2, FetchInBounds
  <2>4. UNCHANGED <<open, limits, configs, moves>>
    BY <1>2, <2>2 DEF StartWalk, Environment, Fetch, Refused, Still
  <2> QED BY <1>1, <2>3, <2>4
<1>3. CASE FollowHint
  <2> DEFINE of == walk.of  offset == walk.next.offset  limit == walk.next.limit  fresh == FALSE
  <2>1. walk.next # NoHint /\ walk.pages < MaxPages /\ Fetch(of, offset, limit, fresh)
    BY <1>3 DEF FollowHint
  <2>2. walk # Ready
    BY <2>1 DEF Ready
  <2>3. of \in {"rows", "groups"} /\ offset \in Nat /\ limit \in Int /\ fresh \in BOOLEAN
    BY <2>1, <2>2 DEF ToolsInv, Walks, Hints
  <2> HIDE DEF of, offset, limit, fresh
  <2>4. walk' # Ready => WalkInBounds(walk')
    BY <2>1, <2>2, <2>3, FetchInBounds
  <2>5. UNCHANGED <<open, limits, configs, moves>>
    BY <1>3, <2>1 DEF FollowHint, Environment, Fetch, Refused, Still
  <2> QED BY <1>1, <2>4, <2>5
<1>4. CASE GetRecord \/ Describe \/ GetFields \/ ReadResource \/ WriteRecord \/ RunTool
  <2>1. UNCHANGED <<open, limits, configs>>
    BY <1>4 DEF GetRecord, Describe, GetFields, ReadResource, WriteRecord, RunTool, Environment
  <2>2. walk' = walk /\ moves' = moves
    <3>1. ASSUME GetRecord PROVE walk' = walk /\ moves' = moves
      BY <3>1 DEF GetRecord, Refused, Still
    <3>2. ASSUME ReadResource PROVE walk' = walk /\ moves' = moves
      <4>1. PICK uri \in uris \cup ({"attachment"} \X WithFile) : Still \/ Refused
        BY <3>2 DEF ReadResource
      <4> QED BY <4>1 DEF Refused, Still
    <3>3. ASSUME WriteRecord PROVE walk' = walk /\ moves' = moves
      BY <3>3 DEF WriteRecord, Refused, Still
    <3> QED BY <1>4, <3>1, <3>2, <3>3 DEF Describe, GetFields, RunTool, Refused, Still
  <2> QED BY <1>1, <2>1, <2>2
<1>5. CASE CreateRecord \/ DeleteRecord
  <2>1. UNCHANGED <<open, limits, configs>>
    BY <1>5 DEF CreateRecord, DeleteRecord, Environment
  <2>2. (walk' = walk /\ moves' = moves) \/ \E rs : Move(rs)
    BY <1>5 DEF CreateRecord, DeleteRecord, Refused, Still
  <2> QED BY <1>1, <2>1, <2>2
<1>6. CASE CallModelMethod
  <2>1. UNCHANGED <<open, limits, configs>>
    BY <1>6 DEF CallModelMethod, Environment
  <2>2. (walk' = walk /\ moves' = moves) \/ \E rs : Move(rs)
    <3>1. PICK method \in Methods, ids \in SUBSET Ids : Refused \/ Still \/ Move(rows \ ids)
      BY <1>6 DEF CallModelMethod
    <3> QED BY <3>1 DEF Refused, Still
  <2> QED BY <1>1, <2>1, <2>2
<1>7. CASE Others
  <2>1. UNCHANGED <<open, limits, configs>> /\ \E rs : Move(rs)
    BY <1>7 DEF Others
  <2> QED BY <1>1, <2>1
<1>8. CASE SaveTool \/ EditAction \/ SetLimits \/ SetPermission
  <2>1. walk' = walk /\ moves' = moves /\ configs' \in 0..MaxConfigs
    <3>1. Edit
      BY <1>8 DEF SaveTool, EditAction, SetLimits, SetPermission
    <3>2. walk' = walk /\ moves' = moves /\ configs' = configs + 1 /\ configs < MaxConfigs
      BY <3>1 DEF Edit
    <3> QED BY <3>2 DEF ToolsBounds, ToolsAreBounded
  <2>2. limits' \in [default : Settings \cup {DEFAULT_LIMIT}, max : Settings \cup {MAX_LIMIT}]
    BY <1>8 DEF SaveTool, EditAction, SetLimits, SetPermission, ToolsBounds
  <2>3. open' \in [Models -> SUBSET Operations]
    <3>1. CASE SetPermission
      <4>1. PICK model \in Models, op \in Operations :
              open' = [open EXCEPT ![model] = IF op \in @ THEN @ \ {op} ELSE @ \cup {op}]
        BY <3>1 DEF SetPermission, Operations
      <4> QED BY <4>1 DEF ToolsBounds
    <3> QED BY <1>8, <3>1 DEF SaveTool, EditAction, SetLimits, ToolsBounds
  <2> QED BY <2>1, <2>2, <2>3 DEF ToolsBounds, WalkInBounds
<1>9. CASE Read \/ UNCHANGED toolsVars
  BY <1>9, <1>1 DEF Read, toolsVars
<1> QED BY <1>2, <1>3, <1>4, <1>5, <1>6, <1>7, <1>8, <1>9 DEF ToolsNext, WalkNext, CallNext

\* The tools' variables stay of their types.
THEOREM ToolsTypes == ToolsSpec => []ToolsTypeOK
<1>1. ASSUME ToolsInit PROVE ToolsBounds
  <2>1. PICK record \in {{}, {"read"}, Operations}, line \in {{}, {"read"}},
             attachment \in {{}, {"read"}} :
          open = [model \in Models |-> CASE model = "record" -> record
                                         [] model = "line" -> line
                                         [] OTHER -> attachment]
    BY <1>1 DEF ToolsInit
  <2>2. record \in SUBSET Operations /\ line \in SUBSET Operations /\ attachment \in SUBSET Operations
    BY DEF Operations
  <2>3. open \in [Models -> SUBSET Operations]
    BY <2>1, <2>2
  <2> QED BY <1>1, <2>3, ToolsAreBounded DEF ToolsInit, ToolsBounds, ToolsAreBounded
<1>2. ASSUME ToolsInv, ToolsBounds, [ToolsNext]_toolsVars PROVE ToolsBounds'
  BY <1>2, ToolsBoundsStep, ToolsAreBounded, LimitsArePositive, SettingsAreNumbers
<1>3. ASSUME ToolsInv, ToolsBounds PROVE ToolsTypeOK
  <2>1. ASSUME walk # Ready
        PROVE  /\ walk.next \in {NoHint} \cup [offset : Nat \ {0}, limit : Nat \ {0}]
               /\ walk.pages \in 1..MaxPages
               /\ walk.seen \subseteq Nat /\ walk.whole \subseteq Nat
               /\ walk.repeats \in Nat /\ walk.left \in Nat /\ walk.came \in Nat
    <3>1. walk \in Walks /\ WalkInBounds(walk)
      BY <1>3, <2>1 DEF ToolsInv, ToolsBounds
    <3> QED BY <3>1 DEF Walks, WalkInBounds
  <2>2. moves <= MaxMoves /\ configs <= MaxConfigs
    BY <1>3 DEF ToolsBounds
  <2> QED BY <1>3, <2>1, <2>2 DEF ToolsInv, ToolsBounds, ToolsTypeOK
<1> QED BY <1>1, <1>2, <1>3, ToolsInvariant, PTL DEF ToolsSpec

-----------------------------------------------------------------------------
(***************************************************************************)
(* Side by side.                                                           *)
(***************************************************************************)
\* A behaviour of the add-ons is one of each of them: what holds of each alone
\* holds of all.
THEOREM EachAsIfAlone ==
  Spec => ToolsSpec /\ RetentionSpec /\ PortalSpec /\ LivechatSpec /\ PayslipSpec
<1>1. Init => ToolsInit /\ RetentionInit /\ PortalInit /\ LivechatInit /\ PayslipInit
  BY DEF Init
<1>2. [Next]_vars => [ToolsNext]_toolsVars
  BY DEF Next, vars, ToolsNext
<1>3. [Next]_vars => [RetentionNext]_retentionVars
  BY DEF Next, vars
<1>4. [Next]_vars => [PortalNext]_portalVars
  BY DEF Next, vars
<1>5. [Next]_vars => [LivechatNext]_chatVars
  BY DEF Next, vars
<1>6. [Next]_vars => [PayslipNext]_payslipVars
  BY DEF Next, vars
<1> QED BY <1>1, <1>2, <1>3, <1>4, <1>5, <1>6, PTL
        DEF Spec, ToolsSpec, RetentionSpec, PortalSpec, LivechatSpec, PayslipSpec

\* The variables of all of them stay of their types.
THEOREM AddonsTypes == Spec => []TypeOK
<1>1. ToolsTypeOK /\ RetentionTypeOK /\ PortalTypeOK /\ LivechatTypeOK /\ PayslipTypeOK <=> TypeOK
  BY DEF TypeOK
<1> QED BY <1>1, EachAsIfAlone, ToolsTypes, RetentionTypes, PortalTypes, LivechatTypes,
           PayslipTypes, PTL

\* And what the add-ons promise, they promise together.
THEOREM AddonsKeepTheirWord ==
  Spec => /\ [](WalkIsAccounted /\ OneAnswerPerComment /\ HoursAreSheets)
          /\ HintsLeadToRows /\ NoEffectWithoutItsGate /\ BatchIsWhole
          /\ CleanupIsExact /\ ClientContentFrozen /\ OncePerSubmission
BY EachAsIfAlone, WalksAreAccounted, ChatsDoNotLoop, SlipsStaySheets, HintsLeadSomewhere,
   EffectsAreGated, BatchesAreWhole, CleanupsAreExact, SubmittedTextIsFrozen,
   SubmissionsHappenOnce, PTL
=============================================================================
