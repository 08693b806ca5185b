---------------------------------- MODULE Quiz ----------------------------------
(***************************************************************************)
(* The quiz tool (agent_extensions/0023-quiz.ts).  The model issues a quiz *)
(* and its turn ends; once the agent is settled the form opens, the user   *)
(* answers, pauses or resumes it, and the answers go back as a message     *)
(* that starts a turn or waits for the end of the running one.  What is    *)
(* pending is kept in memory, for the session and not for the branch: it   *)
(* stays when the user moves to another branch of the session's tree.      *)
(* After a restart it is read from the branch.                             *)
(*                                                                         *)
(* A quiz is a number; options are chosen at once instead of moving the    *)
(* cursor to them; a note is there or not.                                 *)
(***************************************************************************)
EXTENDS Integers, Sequences, FiniteSets

CONSTANTS
    Questions,   \* 1..n: the questions of a quiz, in order
    Options,
    MaxQuizzes, MaxEpisodes, MaxAnswers,     \* bounds
    None

VARIABLES
    log,         \* the branch: quizzes issued and answered
    tree,        \* the branches that were left
    pendingQuiz, \* the pending quiz of the session
    form,        \* the open form
    followUps,   \* answers that wait for the running turn
    agent,       \* "idle" or "running"
    issued,      \* quizzes so far
    episodes,    \* turns, moves in the tree and restarts so far
    overlapped,  \* quizzes issued while a form was open
    inGap,       \* quizzes resumed while answers waited
    strayed      \* quizzes taken to a branch that does not end with them

branches == <<log, tree>>
counters == <<issued, episodes, overlapped, inGap, strayed>>
vars == <<branches, pendingQuiz, form, followUps, agent, counters>>

Review == Cardinality(Questions) + 1
NoNotes == [q \in Questions |-> FALSE]
NoAnswers == [q \in Questions |-> None]
NoProgress == [answers |-> NoAnswers, notes |-> NoNotes, index |-> 1]
Pending(quiz, auto, presenting) ==
    [quiz |-> quiz, progress |-> NoProgress, auto |-> auto, presenting |-> presenting,
     timer |-> FALSE]

Issue(quiz) == [kind |-> "issued", quiz |-> quiz]
Answered(quiz) == [kind |-> "answered", quiz |-> quiz]

Init ==
    /\ log = <<>> /\ tree = {} /\ pendingQuiz = None /\ form = None /\ followUps = <<>>
    /\ agent = "idle"
    /\ issued = 0 /\ episodes = 0
    /\ overlapped = {} /\ inGap = {} /\ strayed = {}

(* recoverIssuedQuiz: the newest quiz, unless the latest entry answers.    *)
RecoverIssuedQuiz_Newest(branch) ==
    IF branch = <<>> THEN None ELSE branch[Len(branch)].quiz
RecoverIssuedQuiz(branch) ==
    IF branch = <<>> \/ branch[Len(branch)].kind = "answered" THEN None
    ELSE branch[Len(branch)].quiz

-----------------------------------------------------------------------------
(* The agent.                                                              *)

Episode == episodes < MaxEpisodes /\ episodes' = episodes + 1

(* A prompt of the user or another extension's message starts a turn.      *)
StartTurn ==
    /\ agent = "idle" /\ Episode
    /\ agent' = "running"
    /\ UNCHANGED <<branches, pendingQuiz, form, followUps, issued, overlapped, inGap, strayed>>

(* The tool: the new quiz replaces the pending one and its timer; the      *)
(* result ends the turn.                                                   *)
Execute ==
    /\ agent = "running" /\ issued < MaxQuizzes
    /\ issued' = issued + 1
    /\ pendingQuiz' = Pending(issued', TRUE, pendingQuiz # None /\ pendingQuiz.presenting)
    /\ log' = Append(log, Issue(issued'))
    /\ overlapped' = IF form # None \/ followUps # <<>> THEN overlapped \cup {issued'} ELSE overlapped
    /\ UNCHANGED <<tree, form, followUps, agent, episodes, inGap, strayed>>

(* agent_settled: the form of a new quiz opens by a timer; a paused quiz   *)
(* is only mentioned.  Answers that wait keep the agent running.           *)
Opens_Never(pending) == FALSE
Opens(pending) == pending # None /\ ~pending.presenting /\ pending.auto
Settle ==
    /\ agent = "running"
    /\ IF followUps # <<>>
       THEN /\ log' = Append(log, Answered(followUps[1]))
            /\ followUps' = Tail(followUps)
            /\ UNCHANGED <<agent, pendingQuiz>>
       ELSE /\ agent' = "idle"
            /\ pendingQuiz' = IF Opens(pendingQuiz)
                              THEN [pendingQuiz EXCEPT !.auto = FALSE, !.timer = TRUE]
                              ELSE pendingQuiz
            /\ UNCHANGED <<log, followUps>>
    /\ UNCHANGED <<tree, form, counters>>

-----------------------------------------------------------------------------
(* The form.                                                               *)

Form(pending) ==
    [quiz |-> pending.quiz, answers |-> pending.progress.answers, notes |-> pending.progress.notes,
     index |-> pending.progress.index, noteMode |-> FALSE]

(* presentPendingQuiz.                                                     *)
Present(pending) ==
    /\ pendingQuiz' = [pending EXCEPT !.presenting = TRUE]
    /\ form' = Form(pending)

Timer ==
    /\ pendingQuiz # None /\ pendingQuiz.timer
    /\ LET fired == [pendingQuiz EXCEPT !.timer = FALSE]
       IN  IF fired.presenting THEN pendingQuiz' = fired /\ UNCHANGED form ELSE Present(fired)
    /\ UNCHANGED <<branches, followUps, agent, counters>>

(* /quiz, also while the agent runs; without a form the user can type it.  *)
Command ==
    /\ form = None
    /\ IF pendingQuiz # None THEN ~pendingQuiz.presenting /\ Present(pendingQuiz) /\ UNCHANGED inGap
       ELSE /\ RecoverIssuedQuiz(log) # None
            /\ Present(Pending(RecoverIssuedQuiz(log), FALSE, FALSE))
            /\ inGap' = IF followUps # <<>> THEN inGap \cup {RecoverIssuedQuiz(log)} ELSE inGap
    /\ UNCHANGED <<branches, followUps, agent, issued, episodes, overlapped, strayed>>

(* An answer carries the note of its question.                             *)
Answer(option, note) == [option |-> option, note |-> note]
Select ==
    /\ form # None /\ ~form.noteMode /\ form.index # Review
    /\ \E option \in Options :
          form' = [form EXCEPT !.answers[form.index] = Answer(option, form.notes[form.index]),
                               !.index = @ + 1]
    /\ UNCHANGED <<branches, pendingQuiz, followUps, agent, counters>>
Move ==
    /\ form # None /\ ~form.noteMode
    /\ \E index \in {form.index - 1, form.index + 1} \cap 1..Review :
          form' = [form EXCEPT !.index = index]
    /\ UNCHANGED <<branches, pendingQuiz, followUps, agent, counters>>

(* Tab opens the note, Enter saves it, Esc discards the edit.              *)
EnterNote ==
    /\ form # None /\ ~form.noteMode /\ form.index # Review
    /\ form' = [form EXCEPT !.noteMode = TRUE]
    /\ UNCHANGED <<branches, pendingQuiz, followUps, agent, counters>>
WithNote_NotesOnly(f, note) == [f EXCEPT !.notes[f.index] = note]
WithNote(f, note) ==
    [f EXCEPT !.notes[f.index] = note,
              !.answers[f.index] = IF @ = None THEN None ELSE [@ EXCEPT !.note = note]]
LeaveNote ==
    /\ form # None /\ form.noteMode
    /\ \/ form' = [form EXCEPT !.noteMode = FALSE]
       \/ \E note \in BOOLEAN : form' = [WithNote(form, note) EXCEPT !.noteMode = FALSE]
    /\ UNCHANGED <<branches, pendingQuiz, followUps, agent, counters>>

(* Esc pauses: the progress goes to the quiz that the form was opened for, *)
(* and whatever is pending now is no longer presented.                     *)
Cancel ==
    /\ form # None /\ ~form.noteMode
    /\ form' = None
    /\ pendingQuiz' =
         IF pendingQuiz = None THEN None
         ELSE IF pendingQuiz.quiz # form.quiz THEN [pendingQuiz EXCEPT !.presenting = FALSE]
         ELSE [pendingQuiz EXCEPT !.presenting = FALSE, !.auto = FALSE,
                  !.progress = [answers |-> form.answers, notes |-> form.notes, index |-> form.index]]
    /\ UNCHANGED <<branches, followUps, agent, counters>>

(* Enter on the review: nothing is pending any more, and the answers start *)
(* a turn or wait for the end of the running one.  MaxAnswers bounds the   *)
(* submissions of a branch, waiting ones included: a quiz resumed while    *)
(* its answers wait can be submitted again.                                *)
Submissions == Cardinality({i \in DOMAIN log : log[i].kind = "answered"}) + Len(followUps)
Submit ==
    /\ Submissions < MaxAnswers
    /\ form # None /\ ~form.noteMode /\ form.index = Review
    /\ \A q \in Questions : form.answers[q] # None
    /\ form' = None
    /\ pendingQuiz' = None
    /\ agent' = "running"
    /\ IF agent = "idle" THEN log' = Append(log, Answered(form.quiz)) /\ UNCHANGED followUps
       ELSE followUps' = Append(followUps, form.quiz) /\ UNCHANGED log
    /\ UNCHANGED <<tree, counters>>

(* /tree, external to the extension, which has no handler for it: the user *)
(* moves to an entry of this branch or of one that was left before; what   *)
(* is pending comes along.                                                 *)
EndsWith(branch, quiz) == branch # <<>> /\ branch[Len(branch)] = Issue(quiz)
Prefixes(bs) == UNION {{SubSeq(b, 1, n) : n \in 0..Len(b)} : b \in bs}
MoveInTree ==
    /\ agent = "idle" /\ form = None
    /\ log' \in Prefixes(tree \cup {log}) \ {log}
    /\ Episode
    /\ tree' = IF log \in Prefixes(tree) THEN tree ELSE tree \cup {log}
    /\ strayed' = IF pendingQuiz # None /\ ~EndsWith(log', pendingQuiz.quiz)
                  THEN strayed \cup {pendingQuiz.quiz} ELSE strayed
    /\ UNCHANGED <<pendingQuiz, form, followUps, agent, issued, overlapped, inGap>>

(* The session ends and is opened again.                                   *)
Restart ==
    /\ Episode
    /\ pendingQuiz' = None /\ form' = None /\ followUps' = <<>>
    /\ agent' = "idle"
    /\ UNCHANGED <<branches, issued, overlapped, inGap, strayed>>

Next ==
    \/ StartTurn \/ Execute \/ Settle \/ Timer \/ Command
    \/ Select \/ Move \/ EnterNote \/ LeaveNote \/ Cancel \/ Submit
    \/ MoveInTree \/ Restart

Spec == Init /\ [][Next]_vars

(* A turn ends and a timer fires; the user owes nothing.                   *)
FairSpec == Spec /\ WF_vars(Settle) /\ WF_vars(Timer)

-----------------------------------------------------------------------------
(* On a branch, answers come directly after the quiz that they answer,     *)
(* once.  The exceptions are a quiz issued while the form or the answers   *)
(* of another are about, one resumed while answers wait, and one that was  *)
(* pending when the user moved to a branch that does not end with it.  The *)
(* form's answers carry the notes that it shows.                           *)
Excepted(quiz) == quiz \in inGap \cup strayed
AnswersFitTheirQuiz ==
    /\ \A i \in DOMAIN log :
          log[i].kind = "answered" /\ overlapped = {} /\ ~Excepted(log[i].quiz) =>
              i > 1 /\ log[i - 1] = Issue(log[i].quiz)
    /\ form # None =>
          \A q \in Questions : form.answers[q] # None => form.answers[q].note = form.notes[q]

(* What is pending is the newest quiz of the branch, not answered yet;     *)
(* with the same exceptions.                                               *)
PendingIsNewest ==
    pendingQuiz # None /\ overlapped = {} /\ ~Excepted(pendingQuiz.quiz) =>
        RecoverIssuedQuiz(log) = pendingQuiz.quiz

(* A quiz opens on its own once the agent is settled; one that was issued  *)
(* while the form of another was open can miss the only settle there is.   *)
QuizOpens ==
    pendingQuiz # None /\ pendingQuiz.auto /\ pendingQuiz.quiz \notin overlapped
        ~> form # None \/ pendingQuiz = None
=============================================================================
