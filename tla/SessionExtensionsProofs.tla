------------------------ MODULE SessionExtensionsProofs ------------------------
(***************************************************************************)
(* What two of a session's extensions guarantee, for every number of       *)
(* tasks, boundaries, questions, quizzes and restarts.                     *)
(*                                                                         *)
(* Mid-turn compaction continues what it stopped, once, and only the task  *)
(* that it stopped.  LeaseInv says that a boundary that waits is the       *)
(* newest one with a lease nobody used, and that of the present task.      *)
(*                                                                         *)
(* The answers that reach the model follow their quiz on the branch.       *)
(* PlaceInv says that, without an overlap, a quiz that is pending or shown *)
(* and the answers that wait are of the quiz that the branch ends with,    *)
(* unless it was resumed while answers waited or taken to another branch.  *)
(***************************************************************************)
EXTENDS SessionExtensions, TLAPS

-----------------------------------------------------------------------------
(* Mid-turn compaction.                                                    *)

Boundaries ==
    [phase : {"idle", "awaiting-settlement", "awaiting-compact-callback"},
     lease : Nat, task : Nat,
     reason : {"none", "token-pressure", "learned-request-size"}, observed : BOOLEAN]
Resumptions == [lease : Nat, for : Nat, of : Nat, during : Nat]

LeaseTypes ==
    /\ task \in Nat /\ boundaries \in Nat
    /\ boundary \in Boundaries /\ resumed \subseteq Resumptions

LeaseInv ==
    /\ LeaseTypes
    /\ M!OnlyItsOwnTask
    /\ \A r \in resumed : r.lease <= boundaries
    /\ boundary.phase # "idle" =>
          /\ boundary.lease <= boundaries /\ boundary.task = task
          /\ \A r \in resumed : r.lease # boundary.lease

-----------------------------------------------------------------------------
(* The quiz.                                                               *)

Entries == [kind : {"issued", "answered"}, quiz : Nat]
Answers == [Questions -> {None} \cup [option : Options, note : BOOLEAN]]
Notes == [Questions -> BOOLEAN]
Progresses == [answers : Answers, notes : Notes, index : Int]
Pendings ==
    [quiz : Nat, progress : Progresses, auto : BOOLEAN, presenting : BOOLEAN, timer : BOOLEAN]
Forms == [quiz : Nat, answers : Answers, notes : Notes, index : Int, noteMode : BOOLEAN]

NotesFit(answers, notes) == \A q \in Questions : answers[q] # None => answers[q].note = notes[q]

FormInv ==
    /\ pendingQuiz # None =>
          pendingQuiz \in Pendings /\ NotesFit(pendingQuiz.progress.answers, pendingQuiz.progress.notes)
    /\ form # None => form \in Forms /\ NotesFit(form.answers, form.notes)

LogTypes ==
    log \in Seq(Entries) /\ tree \subseteq Seq(Entries) /\ followUps \in Seq(Nat) /\ issued \in Nat

AnswersFollow(branch) ==
    \A i \in 1..Len(branch) :
        branch[i].kind = "answered" /\ ~Q!Excepted(branch[i].quiz) =>
            i > 1 /\ branch[i - 1] = Q!Issue(branch[i].quiz)

(* A quiz that is no exception is pending or shown, and its answers wait,  *)
(* only while the branch ends with it; answers wait for a running turn.    *)
InPlace ==
    /\ AnswersFollow(log) /\ \A branch \in tree : AnswersFollow(branch)
    /\ pendingQuiz # None /\ ~Q!Excepted(pendingQuiz.quiz) =>
          Q!EndsWith(log, pendingQuiz.quiz) /\ followUps = <<>>
    /\ form # None /\ ~Q!Excepted(form.quiz) => Q!EndsWith(log, form.quiz) /\ followUps = <<>>
    /\ \A i \in 1..Len(followUps) :
          ~Q!Excepted(followUps[i]) => i = 1 /\ Q!EndsWith(log, followUps[1])

PlaceInv ==
    /\ LogTypes
    /\ followUps # <<>> => agent = "running"
    /\ overlapped = {} => InPlace

-----------------------------------------------------------------------------
(* Mid-turn compaction, step by step.                                      *)

(* What a step does to the boundary and its task.                          *)
Rests == UNCHANGED <<boundary, boundaries, resumed, task>>
Drops ==
    /\ boundary' = M!IdleBoundary /\ task' \in {task, task + 1}
    /\ UNCHANGED <<boundaries, resumed>>
Waits ==
    /\ boundary.phase # "idle"
    /\ boundary' \in {[boundary EXCEPT !.observed = TRUE],
                      [boundary EXCEPT !.phase = "awaiting-compact-callback"]}
    /\ UNCHANGED <<boundaries, resumed, task>>
Stops ==
    /\ boundaries' = boundaries + 1
    /\ \E reason \in {"token-pressure", "learned-request-size"} :
          boundary' = [phase |-> "awaiting-settlement", lease |-> boundaries', task |-> task,
                       reason |-> reason, observed |-> FALSE]
    /\ UNCHANGED <<resumed, task>>
Resumes ==
    /\ boundary.phase # "idle" /\ boundary' = M!IdleBoundary
    /\ resumed' = resumed \cup {[lease |-> boundary.lease, for |-> boundary.lease,
                                 of |-> boundary.task, during |-> task]}
    /\ UNCHANGED <<boundaries, task>>

(* A lease continues the boundary that it was made for, or nothing.        *)
LEMMA ResumeTaskResumes ==
    ASSUME NEW lease, M!ResumeTask(lease), UNCHANGED <<boundaries, task>>
    PROVE  Rests \/ Resumes
<1>1. CASE M!Owns(lease)
  BY <1>1 DEF M!ResumeTask, M!Owns, Resumes
<1>2. CASE ~M!Owns(lease)
  BY <1>2 DEF M!ResumeTask, Rests
<1> QED BY <1>1, <1>2

(* Every step does one of the five.                                        *)
LEMMA MidTurnSteps ==
    ASSUME [M!Next]_(M!vars)
    PROVE  Rests \/ Drops \/ Waits \/ Stops \/ Resumes
<1>1. CASE M!Starts
  BY <1>1 DEF M!Starts, Rests, Drops
<1>2. CASE M!TurnStart
  BY <1>2 DEF M!TurnStart, M!StartMidTurnBoundary, Rests, Stops
<1>3. ASSUME NEW n \in 1..2, M!ProviderRequest(n)
      PROVE  Rests \/ Stops
  BY <1>3 DEF M!ProviderRequest, M!StartMidTurnBoundary, Rests, Stops
<1>4. CASE M!UsesTools \/ M!Stops \/ M!Fails
  BY <1>4 DEF M!UsesTools, M!Stops, M!Fails, Rests
<1>5. ASSUME NEW ok \in BOOLEAN, M!PiCompacted(ok)
      PROVE  Rests \/ Waits
  BY <1>5 DEF M!PiCompacted, Rests, Waits
<1>6. CASE M!Settles
  <2>1. CASE boundary.phase # "awaiting-settlement"
    BY <1>6, <2>1 DEF M!Settles, M!CompactAfterSettlement, Rests
  <2>2. CASE boundary.phase = "awaiting-settlement" /\ M!RequiresManualCompact
    BY <1>6, <2>2 DEF M!Settles, M!CompactAfterSettlement, Waits
  <2>3. CASE boundary.phase = "awaiting-settlement" /\ ~M!RequiresManualCompact
    <3>1. M!ResumeTask(boundary.lease) /\ UNCHANGED <<boundaries, task>>
      BY <1>6, <2>3 DEF M!Settles, M!CompactAfterSettlement
    <3> QED BY <3>1, ResumeTaskResumes
  <2> QED BY <2>1, <2>2, <2>3
<1>7. CASE M!CompactCallback
  <2>1. UNCHANGED <<boundaries, task>> /\ (M!ResumeTask(manual.lease) \/ UNCHANGED <<boundary, resumed>>)
    BY <1>7 DEF M!CompactCallback
  <2> QED BY <2>1, ResumeTaskResumes DEF Rests
<1>8. ASSUME NEW ok \in BOOLEAN, M!Compacted(ok)
      PROVE  Rests
  BY <1>8 DEF M!Compacted, M!extension, Rests
<1>9. CASE M!CompactStarts \/ M!PiCompacts
  BY <1>9 DEF M!CompactStarts, M!PiCompacts, M!extension, Rests
<1>10. CASE M!UserInput \/ M!SessionTree
  BY <1>10 DEF M!UserInput, M!SessionTree, Drops
<1>11. CASE M!SetEnabled \/ M!GraceIsOver
  BY <1>11 DEF M!SetEnabled, M!GraceIsOver, M!session, M!extension, Rests
<1>12. CASE M!PromptResolves \/ M!GoesOn \/ M!Kill
  BY <1>12 DEF M!PromptResolves, M!GoesOn, M!Kill, M!extension, Rests
<1>13. CASE UNCHANGED M!vars
  BY <1>13 DEF M!vars, M!session, M!extension, Rests
<1> QED BY <1>1, <1>2, <1>3, <1>4, <1>5, <1>6, <1>7, <1>8, <1>9, <1>10, <1>11, <1>12, <1>13
        DEF M!Next, M!Works, M!Provider

(* Each of the five preserves the invariant.                               *)
LEMMA LeaseStep ==
    ASSUME LeaseInv, [M!Next]_(M!vars)
    PROVE  LeaseInv'
<1>1. CASE Rests
  BY <1>1 DEF Rests, LeaseInv, LeaseTypes, M!OnlyItsOwnTask
<1>2. CASE Drops
  <2>1. boundary' \in Boundaries /\ boundary'.phase = "idle"
    BY <1>2 DEF Drops, M!IdleBoundary, Boundaries
  <2>2. task' \in Nat
    BY <1>2 DEF Drops, LeaseInv, LeaseTypes
  <2> QED BY <1>2, <2>1, <2>2 DEF Drops, LeaseInv, LeaseTypes, M!OnlyItsOwnTask
<1>3. CASE Waits
  <2>1. boundary' \in Boundaries /\ boundary'.lease = boundary.lease /\ boundary'.task = boundary.task
    BY <1>3 DEF Waits, LeaseInv, LeaseTypes, Boundaries
  <2> QED BY <1>3, <2>1 DEF Waits, LeaseInv, LeaseTypes, M!OnlyItsOwnTask
<1>4. CASE Stops
  <2>1. /\ boundaries' = boundaries + 1 /\ boundaries \in Nat /\ task \in Nat
        /\ resumed' = resumed /\ task' = task /\ resumed \subseteq Resumptions
    BY <1>4 DEF Stops, LeaseInv, LeaseTypes
  <2>2. boundary' \in Boundaries /\ boundary'.lease = boundaries' /\ boundary'.task = task
    BY <1>4, <2>1 DEF Stops, Boundaries
  <2>3. \A r \in resumed : r.lease \in Nat /\ r.lease <= boundaries
    BY <2>1 DEF LeaseInv, Resumptions
  <2>4. \A r \in resumed : r.lease <= boundaries' /\ r.lease # boundaries'
    BY <2>1, <2>3
  <2> QED BY <2>1, <2>2, <2>4 DEF LeaseInv, LeaseTypes, M!OnlyItsOwnTask
<1>5. CASE Resumes
  <2> DEFINE new == [lease |-> boundary.lease, for |-> boundary.lease,
                     of |-> boundary.task, during |-> task]
  <2>1. /\ resumed' = resumed \cup {new} /\ boundaries' = boundaries /\ task' = task
        /\ boundary' = M!IdleBoundary
    BY <1>5 DEF Resumes
  <2>2. /\ boundary.lease \in Nat /\ boundary.lease <= boundaries /\ boundary.task = task
        /\ task \in Nat /\ \A r \in resumed : r.lease # boundary.lease
    BY <1>5 DEF Resumes, LeaseInv, LeaseTypes, Boundaries
  <2>3. /\ new \in Resumptions /\ new.lease = boundary.lease
        /\ new.for = new.lease /\ new.of = new.during
    BY <2>2 DEF Resumptions
  <2>4. boundary' \in Boundaries /\ boundary'.phase = "idle"
    BY <2>1 DEF M!IdleBoundary, Boundaries
  <2> HIDE DEF new
  <2>5. LeaseTypes'
    BY <2>1, <2>3, <2>4 DEF LeaseInv, LeaseTypes
  <2>6. M!OnlyItsOwnTask'
    BY <2>1, <2>2, <2>3 DEF LeaseInv, M!OnlyItsOwnTask
  <2> QED BY <2>1, <2>2, <2>3, <2>4, <2>5, <2>6 DEF LeaseInv
<1> QED BY <1>1, <1>2, <1>3, <1>4, <1>5, MidTurnSteps

(* A session starts without a boundary.                                    *)
LEMMA LeaseInit == M!Init => LeaseInv
<1> SUFFICES ASSUME M!Init PROVE LeaseInv
  OBVIOUS
<1>1. boundary \in Boundaries /\ boundary.phase = "idle"
  BY DEF M!Init, M!IdleBoundary, Boundaries
<1> QED BY <1>1 DEF M!Init, LeaseInv, LeaseTypes, M!OnlyItsOwnTask

-----------------------------------------------------------------------------
(* The quiz: the form.                                                     *)

(* A pending quiz that is presented shows what is kept of it.              *)
LEMMA FormFits ==
    ASSUME NEW p \in Pendings, NotesFit(p.progress.answers, p.progress.notes), Q!Present(p)
    PROVE  /\ pendingQuiz' \in Pendings /\ pendingQuiz'.quiz = p.quiz
           /\ NotesFit(pendingQuiz'.progress.answers, pendingQuiz'.progress.notes)
           /\ form' \in Forms /\ form'.quiz = p.quiz /\ NotesFit(form'.answers, form'.notes)
<1>1. /\ p.quiz \in Nat /\ p.progress \in Progresses /\ p.auto \in BOOLEAN
      /\ pendingQuiz' = [p EXCEPT !.presenting = TRUE]
  BY DEF Q!Present, Pendings
<1>2. /\ pendingQuiz' \in Pendings /\ pendingQuiz'.quiz = p.quiz
      /\ pendingQuiz'.progress = p.progress
  BY <1>1 DEF Pendings
<1>3. p.progress.answers \in Answers /\ p.progress.notes \in Notes /\ p.progress.index \in Int
  BY <1>1 DEF Progresses
<1>4. form' = [quiz |-> p.quiz, answers |-> p.progress.answers, notes |-> p.progress.notes,
               index |-> p.progress.index, noteMode |-> FALSE]
  BY DEF Q!Present, Q!Form
<1> HIDE DEF Answers, Notes
<1>5. form' \in Forms /\ form'.quiz = p.quiz
      /\ form'.answers = p.progress.answers /\ form'.notes = p.progress.notes
  BY <1>1, <1>3, <1>4 DEF Forms
<1> QED BY <1>2, <1>5

(* A quiz that was just made has no progress.                              *)
LEMMA FreshFits ==
    ASSUME NEW q \in Nat, NEW auto \in BOOLEAN, NEW presenting \in BOOLEAN
    PROVE  LET p == Q!Pending(q, auto, presenting)
           IN  p \in Pendings /\ p.quiz = q /\ NotesFit(p.progress.answers, p.progress.notes)
<1>1. Q!NoAnswers \in Answers /\ Q!NoNotes \in Notes /\ NotesFit(Q!NoAnswers, Q!NoNotes)
  BY DEF Q!NoAnswers, Q!NoNotes, Answers, Notes, NotesFit
<1> HIDE DEF Answers, Notes
<1>2. /\ Q!NoProgress \in Progresses
      /\ Q!NoProgress.answers = Q!NoAnswers /\ Q!NoProgress.notes = Q!NoNotes
  BY <1>1 DEF Q!NoProgress, Progresses
<1> QED BY <1>1, <1>2 DEF Q!Pending, Pendings

(* An option that is chosen carries the note of its question.              *)
LEMMA SelectFits ==
    ASSUME form \in Forms, NotesFit(form.answers, form.notes), Q!Select
    PROVE  form' \in Forms /\ form'.quiz = form.quiz /\ NotesFit(form'.answers, form'.notes)
<1>1. PICK option \in Options :
        form' = [form EXCEPT !.answers[form.index] = Q!Answer(option, form.notes[form.index]),
                             !.index = @ + 1]
  BY DEF Q!Select
<1> DEFINE answers == [form.answers EXCEPT ![form.index] = Q!Answer(option, form.notes[form.index])]
<1>2. /\ form.quiz \in Nat /\ form.answers \in Answers /\ form.notes \in Notes
      /\ form.index \in Int /\ form.noteMode \in BOOLEAN
  BY DEF Forms
<1>3. answers \in Answers /\ NotesFit(answers, form.notes)
  <2>1. CASE form.index \in Questions
    <3> DEFINE answer == Q!Answer(option, form.notes[form.index])
    <3>1. /\ answer \in [option : Options, note : BOOLEAN]
          /\ answer.note = form.notes[form.index]
      BY <1>2, <2>1 DEF Notes, Q!Answer
    <3>2. answers = [form.answers EXCEPT ![form.index] = answer]
      OBVIOUS
    <3> HIDE DEF answer, answers
    <3> QED BY <1>2, <2>1, <3>1, <3>2 DEF Answers, NotesFit
  <2>2. CASE form.index \notin Questions
    <3>1. answers = form.answers
      BY <1>2, <2>2 DEF Answers
    <3> QED BY <1>2, <3>1
  <2> QED BY <2>1, <2>2
<1>4. form' = [form EXCEPT !.answers = answers, !.index = @ + 1]
  BY <1>1
<1> HIDE DEF answers, Answers, Notes
<1>5. /\ form' = [quiz |-> form.quiz, answers |-> answers, notes |-> form.notes,
                  index |-> form.index + 1, noteMode |-> form.noteMode]
  BY <1>4 DEF Forms
<1> QED BY <1>2, <1>3, <1>5 DEF Forms

(* A note that is saved goes to the answer as well.                        *)
LEMMA NoteFits ==
    ASSUME form \in Forms, NotesFit(form.answers, form.notes), Q!LeaveNote
    PROVE  form' \in Forms /\ form'.quiz = form.quiz /\ NotesFit(form'.answers, form'.notes)
<1>2. /\ form.quiz \in Nat /\ form.answers \in Answers /\ form.notes \in Notes
      /\ form.index \in Int /\ form.noteMode \in BOOLEAN
  BY DEF Forms
<1>3. CASE form' = [form EXCEPT !.noteMode = FALSE]
  <2> HIDE DEF Answers, Notes
  <2> QED BY <1>2, <1>3 DEF Forms
<1>4. ASSUME NEW note \in BOOLEAN, form' = [Q!WithNote(form, note) EXCEPT !.noteMode = FALSE]
      PROVE  form' \in Forms /\ form'.quiz = form.quiz /\ NotesFit(form'.answers, form'.notes)
  <2> DEFINE old == form.answers[form.index]
             answer == IF old = None THEN None ELSE [old EXCEPT !.note = note]
             answers == [form.answers EXCEPT ![form.index] = answer]
             notes == [form.notes EXCEPT ![form.index] = note]
  <2>1. answers \in Answers /\ notes \in Notes /\ NotesFit(answers, notes)
    <3>1. CASE form.index \in Questions
      <4>1. old \in {None} \cup [option : Options, note : BOOLEAN]
        BY <1>2, <3>1 DEF Answers
      <4>2. answer \in {None} \cup [option : Options, note : BOOLEAN] /\ (answer # None => answer.note = note)
        BY <4>1
      <4> HIDE DEF answer, old
      <4>3. answers \in Answers
        BY <1>2, <3>1, <4>2 DEF Answers
      <4>4. notes \in Notes
        BY <1>2, <3>1 DEF Notes
      <4> QED BY <1>2, <3>1, <4>2, <4>3, <4>4 DEF NotesFit, Answers, Notes
    <3>2. CASE form.index \notin Questions
      <4>1. answers = form.answers /\ notes = form.notes
        BY <1>2, <3>2 DEF Answers, Notes
      <4> QED BY <1>2, <4>1
    <3> QED BY <3>1, <3>2
  <2>2. form' = [form EXCEPT !.notes = notes, !.answers = answers, !.noteMode = FALSE]
    BY <1>4 DEF Q!WithNote, Forms
  <2> HIDE DEF answers, notes, Answers, Notes
  <2>3. form' = [quiz |-> form.quiz, answers |-> answers, notes |-> notes, index |-> form.index,
                 noteMode |-> FALSE]
    BY <2>2 DEF Forms
  <2> QED BY <1>2, <2>1, <2>3 DEF Forms
<1> QED BY <1>3, <1>4 DEF Q!LeaveNote

(* The other keys of the form change neither answers nor notes.            *)
LEMMA KeysFit ==
    ASSUME form \in Forms, NotesFit(form.answers, form.notes), Q!Move \/ Q!EnterNote
    PROVE  form' \in Forms /\ form'.quiz = form.quiz /\ NotesFit(form'.answers, form'.notes)
<1>1. /\ form.quiz \in Nat /\ form.answers \in Answers /\ form.notes \in Notes
      /\ form.index \in Int /\ form.noteMode \in BOOLEAN
  BY DEF Forms
<1> HIDE DEF Answers, Notes
<1>2. \/ \E index \in Int : form' = [form EXCEPT !.index = index]
      \/ form' = [form EXCEPT !.noteMode = TRUE]
  BY <1>1 DEF Q!Move, Q!EnterNote
<1> QED BY <1>1, <1>2 DEF Forms

(* Every step of the quiz leaves a form whose answers carry their notes.   *)
LEMMA FormStep ==
    ASSUME FormInv, LogTypes, [Q!Next]_(Q!vars)
    PROVE  FormInv'
<1> DEFINE PendingFits ==
               pendingQuiz # None =>
                   /\ pendingQuiz \in Pendings
                   /\ NotesFit(pendingQuiz.progress.answers, pendingQuiz.progress.notes)
           ShownFits == form # None => form \in Forms /\ NotesFit(form.answers, form.notes)
<1>1. FormInv <=> PendingFits /\ ShownFits
  BY DEF FormInv
<1>2. FormInv' <=> PendingFits' /\ ShownFits'
  BY DEF FormInv
<1>3. PendingFits /\ ShownFits
  BY <1>1
<1>4. ASSUME UNCHANGED <<pendingQuiz, form>> PROVE FormInv'
  BY <1>4 DEF FormInv, NotesFit
<1>5. ASSUME form' = form PROVE ShownFits'
  BY <1>3, <1>5 DEF NotesFit
<1>6. ASSUME pendingQuiz' = pendingQuiz PROVE PendingFits'
  BY <1>3, <1>6 DEF NotesFit
<1>7. ASSUME Q!Execute PROVE FormInv'
  <2> DEFINE presenting == pendingQuiz # None /\ pendingQuiz.presenting
  <2>1. presenting \in BOOLEAN
    BY <1>3 DEF Pendings
  <2>2. pendingQuiz' = Q!Pending(issued + 1, TRUE, presenting) /\ issued + 1 \in Nat /\ form' = form
    BY <1>7 DEF Q!Execute, LogTypes
  <2> HIDE DEF presenting
  <2>3. PendingFits'
    BY <2>1, <2>2, FreshFits
  <2> QED BY <1>2, <1>5, <2>2, <2>3
<1>8. ASSUME Q!Settle PROVE FormInv'
  <2>1. form' = form /\ (\/ pendingQuiz' = pendingQuiz
                         \/ /\ pendingQuiz # None
                            /\ pendingQuiz' = [pendingQuiz EXCEPT !.auto = FALSE, !.timer = TRUE])
    BY <1>8 DEF Q!Settle, Q!Opens
  <2>2. ASSUME pendingQuiz # None,
               pendingQuiz' = [pendingQuiz EXCEPT !.auto = FALSE, !.timer = TRUE]
        PROVE  PendingFits'
    <3>1. pendingQuiz' \in Pendings /\ pendingQuiz'.progress = pendingQuiz.progress
      BY <1>3, <2>2 DEF Pendings
    <3> QED BY <1>3, <2>2, <3>1
  <2> QED BY <1>2, <1>5, <1>6, <2>1, <2>2
<1>9. ASSUME Q!Timer PROVE FormInv'
  <2> DEFINE fired == [pendingQuiz EXCEPT !.timer = FALSE]
  <2>1. fired \in Pendings /\ fired.progress = pendingQuiz.progress /\ pendingQuiz # None
    BY <1>3, <1>9 DEF Q!Timer, Pendings
  <2>2. \/ pendingQuiz' = fired /\ form' = form
        \/ Q!Present(fired)
    BY <1>9 DEF Q!Timer
  <2> HIDE DEF fired
  <2>3. CASE pendingQuiz' = fired /\ form' = form
    BY <1>2, <1>3, <1>5, <2>1, <2>3
  <2>4. CASE Q!Present(fired)
    BY <1>2, <1>3, <2>1, <2>4, FormFits
  <2> QED BY <2>2, <2>3, <2>4
<1>10. ASSUME Q!Command PROVE FormInv'
  <2>1. CASE pendingQuiz # None
    <3>1. Q!Present(pendingQuiz)
      BY <1>10, <2>1 DEF Q!Command
    <3> QED BY <1>2, <1>3, <2>1, <3>1, FormFits
  <2>2. CASE pendingQuiz = None
    <3>1. /\ Q!RecoverIssuedQuiz(log) # None
          /\ Q!Present(Q!Pending(Q!RecoverIssuedQuiz(log), FALSE, FALSE))
      BY <1>10, <2>2 DEF Q!Command
    <3>2. Q!RecoverIssuedQuiz(log) \in Nat
      <4>1. log # <<>> /\ Q!RecoverIssuedQuiz(log) = log[Len(log)].quiz
        BY <3>1 DEF Q!RecoverIssuedQuiz
      <4>2. log \in Seq(Entries)
        BY DEF LogTypes
      <4>3. Len(log) \in 1..Len(log) /\ log[Len(log)] \in Entries
        BY <4>1, <4>2
      <4> QED BY <4>1, <4>3 DEF Entries
    <3>3. Q!Pending(Q!RecoverIssuedQuiz(log), FALSE, FALSE) \in Pendings
      BY <3>2, FreshFits
    <3>4. NotesFit(Q!Pending(Q!RecoverIssuedQuiz(log), FALSE, FALSE).progress.answers,
                   Q!Pending(Q!RecoverIssuedQuiz(log), FALSE, FALSE).progress.notes)
      BY <3>2, FreshFits
    <3> QED BY <1>2, <3>1, <3>3, <3>4, FormFits
  <2> QED BY <2>1, <2>2
<1>11. ASSUME Q!Select \/ Q!Move \/ Q!EnterNote \/ Q!LeaveNote PROVE FormInv'
  <2>1. form # None /\ pendingQuiz' = pendingQuiz
    BY <1>11 DEF Q!Select, Q!Move, Q!EnterNote, Q!LeaveNote
  <2>2. form' \in Forms /\ NotesFit(form'.answers, form'.notes)
    BY <1>3, <1>11, <2>1, SelectFits, NoteFits, KeysFit
  <2> QED BY <1>2, <1>6, <2>1, <2>2
<1>12. ASSUME Q!Cancel PROVE FormInv'
  <2>1. form # None /\ form' = None
    BY <1>12 DEF Q!Cancel
  <2>2. CASE pendingQuiz = None
    BY <1>2, <1>12, <2>1, <2>2 DEF Q!Cancel
  <2>3. CASE pendingQuiz # None /\ pendingQuiz.quiz # form.quiz
    <3>1. pendingQuiz' = [pendingQuiz EXCEPT !.presenting = FALSE]
      BY <1>12, <2>3 DEF Q!Cancel
    <3>2. pendingQuiz' \in Pendings /\ pendingQuiz'.progress = pendingQuiz.progress
      BY <1>3, <2>3, <3>1 DEF Pendings
    <3> QED BY <1>2, <1>3, <2>1, <2>3, <3>2
  <2>4. CASE pendingQuiz # None /\ pendingQuiz.quiz = form.quiz
    <3> DEFINE progress == [answers |-> form.answers, notes |-> form.notes, index |-> form.index]
    <3>1. progress \in Progresses /\ NotesFit(progress.answers, progress.notes)
      <4>1. form.answers \in Answers /\ form.notes \in Notes /\ form.index \in Int
        BY <1>3, <2>1 DEF Forms
      <4> HIDE DEF Answers, Notes
      <4> QED BY <1>3, <2>1, <4>1 DEF Progresses
    <3>2. pendingQuiz' = [pendingQuiz EXCEPT !.presenting = FALSE, !.auto = FALSE,
                                             !.progress = progress]
      BY <1>12, <2>4 DEF Q!Cancel
    <3> HIDE DEF progress
    <3>3. pendingQuiz' \in Pendings /\ pendingQuiz'.progress = progress
      BY <1>3, <2>4, <3>1, <3>2 DEF Pendings
    <3> QED BY <1>2, <2>1, <3>1, <3>3
  <2> QED BY <2>2, <2>3, <2>4
<1>13. ASSUME Q!Submit \/ Q!Restart PROVE FormInv'
  <2>1. form' = None /\ pendingQuiz' = None
    BY <1>13 DEF Q!Submit, Q!Restart
  <2> QED BY <1>2, <2>1
<1>14. ASSUME Q!StartTurn \/ Q!MoveInTree \/ UNCHANGED Q!vars PROVE FormInv'
  BY <1>4, <1>14 DEF Q!StartTurn, Q!MoveInTree, Q!vars
<1> QED BY <1>7, <1>8, <1>9, <1>10, <1>11, <1>12, <1>13, <1>14 DEF Q!Next

-----------------------------------------------------------------------------
(* The quiz: where it is pending, shown or answered.                       *)

(* What a step does to the branches, the waiting answers, and to what is   *)
(* pending or shown.                                                       *)
Issues ==
    /\ issued' = issued + 1 /\ log' = Append(log, Q!Issue(issued + 1))
    /\ pendingQuiz'.quiz = issued + 1
    /\ UNCHANGED <<tree, form, followUps, agent, inGap, strayed>>
    /\ overlapped' = {} => overlapped = {} /\ form = None /\ followUps = <<>>
Delivers ==
    /\ followUps # <<>> /\ followUps' = Tail(followUps)
    /\ log' = Append(log, Q!Answered(followUps[1]))
    /\ UNCHANGED <<tree, pendingQuiz, form, agent, issued, overlapped, inGap, strayed>>
Recovers ==
    /\ Q!RecoverIssuedQuiz(log) # None
    /\ pendingQuiz'.quiz = Q!RecoverIssuedQuiz(log) /\ form'.quiz = Q!RecoverIssuedQuiz(log)
    /\ inGap' = IF followUps # <<>> THEN inGap \cup {Q!RecoverIssuedQuiz(log)} ELSE inGap
    /\ UNCHANGED <<log, tree, followUps, agent, issued, overlapped, strayed>>
Submits ==
    /\ form # None /\ form' = None /\ pendingQuiz' = None /\ agent' = "running"
    /\ \/ agent = "idle" /\ log' = Append(log, Q!Answered(form.quiz)) /\ followUps' = followUps
       \/ followUps' = Append(followUps, form.quiz) /\ log' = log
    /\ UNCHANGED <<tree, issued, overlapped, inGap, strayed>>
Moves ==
    /\ agent = "idle" /\ form = None
    /\ log' \in Q!Prefixes(tree \cup {log}) /\ tree' \subseteq tree \cup {log}
    /\ strayed \subseteq strayed'
    /\ pendingQuiz # None /\ pendingQuiz.quiz \notin strayed' => Q!EndsWith(log', pendingQuiz.quiz)
    /\ UNCHANGED <<pendingQuiz, form, followUps, agent, issued, overlapped, inGap>>
(* The rest moves a quiz between pending and shown, or forgets it.         *)
Handles ==
    /\ pendingQuiz' # None => pendingQuiz # None /\ pendingQuiz'.quiz = pendingQuiz.quiz
    /\ form' # None =>
          \/ form # None /\ form'.quiz = form.quiz
          \/ pendingQuiz # None /\ form'.quiz = pendingQuiz.quiz
    /\ \/ followUps' = <<>>
       \/ followUps' = followUps /\ (agent = "running" => agent' = "running")
    /\ UNCHANGED <<log, tree, issued, overlapped, inGap, strayed>>

(* Every step of the quiz does one of the six.                             *)
LEMMA QuizSteps ==
    ASSUME FormInv, [Q!Next]_(Q!vars)
    PROVE  Issues \/ Delivers \/ Recovers \/ Submits \/ Moves \/ Handles
<1>1. ASSUME Q!Execute PROVE Issues
  <2>1. pendingQuiz'.quiz = issued + 1
    BY <1>1 DEF Q!Execute, Q!Pending
  <2>2. overlapped' = {} => overlapped = {} /\ form = None /\ followUps = <<>>
    BY <1>1 DEF Q!Execute
  <2> QED BY <1>1, <2>1, <2>2 DEF Q!Execute, Issues
<1>2. ASSUME Q!Settle PROVE Delivers \/ Handles
  <2>1. CASE followUps # <<>>
    BY <1>2, <2>1 DEF Q!Settle, Q!counters, Delivers
  <2>2. CASE followUps = <<>>
    <3>1. pendingQuiz' # None => pendingQuiz # None /\ pendingQuiz'.quiz = pendingQuiz.quiz
      <4>1. \/ pendingQuiz' = pendingQuiz
            \/ /\ pendingQuiz # None
               /\ pendingQuiz' = [pendingQuiz EXCEPT !.auto = FALSE, !.timer = TRUE]
        BY <1>2, <2>2 DEF Q!Settle, Q!Opens
      <4>2. pendingQuiz # None => pendingQuiz \in Pendings
        BY DEF FormInv
      <4>3. ASSUME pendingQuiz # None,
                   pendingQuiz' = [pendingQuiz EXCEPT !.auto = FALSE, !.timer = TRUE]
            PROVE  pendingQuiz'.quiz = pendingQuiz.quiz
        BY <4>2, <4>3 DEF Pendings
      <4> QED BY <4>1, <4>3
    <3> QED BY <1>2, <2>2, <3>1 DEF Q!Settle, Q!counters, Handles
  <2> QED BY <2>1, <2>2
<1>3. ASSUME Q!Timer PROVE Handles
  <2> DEFINE fired == [pendingQuiz EXCEPT !.timer = FALSE]
  <2>1. /\ pendingQuiz # None /\ fired \in Pendings /\ fired.quiz = pendingQuiz.quiz
        /\ NotesFit(fired.progress.answers, fired.progress.notes)
    BY <1>3 DEF Q!Timer, FormInv, Pendings
  <2>2. \/ pendingQuiz' = fired /\ form' = form
        \/ Q!Present(fired)
    BY <1>3 DEF Q!Timer
  <2> HIDE DEF fired
  <2>3. pendingQuiz'.quiz = pendingQuiz.quiz /\ (form' = form \/ form'.quiz = pendingQuiz.quiz)
    BY <2>1, <2>2, FormFits
  <2> QED BY <1>3, <2>1, <2>3 DEF Q!Timer, Q!branches, Q!counters, Handles
<1>4. ASSUME Q!Command PROVE Handles \/ Recovers
  <2>1. CASE pendingQuiz # None
    <3>1. Q!Present(pendingQuiz)
      BY <1>4, <2>1 DEF Q!Command
    <3>2. pendingQuiz'.quiz = pendingQuiz.quiz /\ form'.quiz = pendingQuiz.quiz
      BY <2>1, <3>1, FormFits DEF FormInv
    <3> QED BY <1>4, <2>1, <3>2 DEF Q!Command, Q!branches, Handles
  <2>2. CASE pendingQuiz = None
    <3>1. Q!Present(Q!Pending(Q!RecoverIssuedQuiz(log), FALSE, FALSE))
      BY <1>4, <2>2 DEF Q!Command
    <3>2. /\ pendingQuiz'.quiz = Q!RecoverIssuedQuiz(log)
          /\ form'.quiz = Q!RecoverIssuedQuiz(log)
      BY <3>1 DEF Q!Present, Q!Form, Q!Pending
    <3> QED BY <1>4, <2>2, <3>2 DEF Q!Command, Q!branches, Recovers
  <2> QED BY <2>1, <2>2
<1>5. ASSUME Q!Select \/ Q!Move \/ Q!EnterNote \/ Q!LeaveNote PROVE Handles
  <2>1. form # None /\ form \in Forms /\ NotesFit(form.answers, form.notes)
    BY <1>5 DEF Q!Select, Q!Move, Q!EnterNote, Q!LeaveNote, FormInv
  <2>2. form'.quiz = form.quiz
    BY <1>5, <2>1, SelectFits, NoteFits, KeysFit
  <2>3. UNCHANGED <<pendingQuiz, followUps, agent, log, tree, issued, overlapped, inGap, strayed>>
    BY <1>5 DEF Q!Select, Q!Move, Q!EnterNote, Q!LeaveNote, Q!branches, Q!counters
  <2> QED BY <2>1, <2>2, <2>3 DEF Handles
<1>6. ASSUME Q!Cancel PROVE Handles
  <2>1. pendingQuiz' # None => pendingQuiz # None /\ pendingQuiz'.quiz = pendingQuiz.quiz
    <3>1. CASE pendingQuiz # None
      <4>1. pendingQuiz \in Pendings
        BY <3>1 DEF FormInv
      <4>2. \/ pendingQuiz' = [pendingQuiz EXCEPT !.presenting = FALSE]
            \/ \E p : pendingQuiz' = [pendingQuiz EXCEPT !.presenting = FALSE, !.auto = FALSE,
                                                         !.progress = p]
        BY <1>6, <3>1 DEF Q!Cancel
      <4> QED BY <3>1, <4>1, <4>2 DEF Pendings
    <3>2. CASE pendingQuiz = None
      BY <1>6, <3>2 DEF Q!Cancel
    <3> QED BY <3>1, <3>2
  <2> QED BY <1>6, <2>1 DEF Q!Cancel, Q!branches, Q!counters, Handles
<1>7. ASSUME Q!Submit PROVE Submits
  BY <1>7 DEF Q!Submit, Q!counters, Submits
<1>8. ASSUME Q!Restart PROVE Handles
  BY <1>8 DEF Q!Restart, Q!branches, Handles
<1>9. ASSUME Q!StartTurn \/ UNCHANGED Q!vars PROVE Handles
  BY <1>9 DEF Q!StartTurn, Q!branches, Q!counters, Q!vars, Handles
<1>10. ASSUME Q!MoveInTree PROVE Moves
  <2>1. log' \in Q!Prefixes(tree \cup {log}) /\ tree' \subseteq tree \cup {log}
    BY <1>10 DEF Q!MoveInTree
  <2>2. /\ strayed \subseteq strayed'
        /\ pendingQuiz # None /\ pendingQuiz.quiz \notin strayed' => Q!EndsWith(log', pendingQuiz.quiz)
    BY <1>10 DEF Q!MoveInTree
  <2>3. /\ agent = "idle" /\ form = None
        /\ UNCHANGED <<pendingQuiz, form, followUps, agent, issued, overlapped, inGap>>
    BY <1>10 DEF Q!MoveInTree
  <2> QED BY <2>1, <2>2, <2>3 DEF Moves
<1> QED BY <1>1, <1>2, <1>3, <1>4, <1>5, <1>6, <1>7, <1>8, <1>9, <1>10 DEF Q!Next

(* The end of a log that grows by an entry.                                *)
LEMMA GrownLog ==
    ASSUME LogTypes, NEW e \in Entries, log' = Append(log, e)
    PROVE  /\ log' \in Seq(Entries) /\ log' # <<>> /\ log'[Len(log')] = e
           /\ Len(log) \in Nat /\ Len(log') = Len(log) + 1
           /\ \A i \in 1..Len(log) : log'[i] = log[i]
BY DEF LogTypes

(* What is recovered is the quiz that the branch ends with.                *)
LEMMA RecoveredEnds ==
    ASSUME LogTypes, Q!RecoverIssuedQuiz(log) # None
    PROVE  Q!EndsWith(log, Q!RecoverIssuedQuiz(log))
<1>1. /\ log # <<>> /\ log[Len(log)].kind # "answered"
      /\ Q!RecoverIssuedQuiz(log) = log[Len(log)].quiz
  BY DEF Q!RecoverIssuedQuiz
<1>2. log[Len(log)] \in Entries
  BY <1>1 DEF LogTypes
<1> QED BY <1>1, <1>2 DEF Entries, Q!Issue, Q!EndsWith

(* Exceptions stay, so what held for the answers of a branch still holds.  *)
LEMMA StillFollow ==
    ASSUME inGap \subseteq inGap', strayed \subseteq strayed', NEW branch, AnswersFollow(branch)
    PROVE  AnswersFollow(branch)'
BY DEF AnswersFollow, Q!Excepted, Q!Issue

(* So do the branches when none is added but the one that was left.        *)
LEMMA TreeFollows ==
    ASSUME InPlace, inGap \subseteq inGap', strayed \subseteq strayed', tree' \subseteq tree \cup {log}
    PROVE  \A branch \in tree' : AnswersFollow(branch)'
<1> SUFFICES ASSUME NEW branch \in tree' PROVE AnswersFollow(branch)'
  OBVIOUS
<1>1. AnswersFollow(branch)
  BY DEF InPlace
<1> QED BY <1>1, StillFollow

(* A prefix of a branch: its answers are answers of the branch.            *)
LEMMA PrefixFollows ==
    ASSUME NEW branch \in Seq(Entries), NEW n \in 0..Len(branch), AnswersFollow(branch)
    PROVE  SubSeq(branch, 1, n) \in Seq(Entries) /\ AnswersFollow(SubSeq(branch, 1, n))
<1> DEFINE prefix == SubSeq(branch, 1, n)
<1>1. /\ prefix \in Seq(Entries) /\ Len(prefix) = n /\ Len(branch) \in Nat
      /\ \A i \in 1..n : prefix[i] = branch[i]
  OBVIOUS
<1> HIDE DEF prefix
<1>2. AnswersFollow(prefix)
  <2> SUFFICES ASSUME NEW i \in 1..Len(prefix), prefix[i].kind = "answered", ~Q!Excepted(prefix[i].quiz)
               PROVE  i > 1 /\ prefix[i - 1] = Q!Issue(prefix[i].quiz)
    BY DEF AnswersFollow
  <2>1. i \in 1..Len(branch) /\ prefix[i] = branch[i]
    BY <1>1
  <2>2. i > 1 /\ branch[i - 1] = Q!Issue(branch[i].quiz)
    BY <2>1 DEF AnswersFollow
  <2>3. i - 1 \in 1..n
    BY <1>1, <2>2
  <2> QED BY <1>1, <2>1, <2>2, <2>3
<1> QED BY <1>1, <1>2 DEF prefix

(* An entry joins the log: an issue, an answer behind its quiz, or the     *)
(* answer of an exception.                                                 *)
LEMMA EntryFollows ==
    ASSUME LogTypes, AnswersFollow(log), NEW e \in Entries, log' = Append(log, e),
           UNCHANGED <<inGap, strayed>>,
           e.kind = "answered" /\ ~Q!Excepted(e.quiz) => Q!EndsWith(log, e.quiz)
    PROVE  AnswersFollow(log)'
<1>1. /\ Len(log) \in Nat /\ Len(log') = Len(log) + 1 /\ log'[Len(log')] = e
      /\ \A i \in 1..Len(log) : log'[i] = log[i]
  BY GrownLog
<1>2. log # <<>> => Len(log) > 0
  BY DEF LogTypes
<1>3. \A q : Q!Excepted(q)' = Q!Excepted(q)
  BY DEF Q!Excepted
<1> SUFFICES ASSUME NEW i \in 1..Len(log'), log'[i].kind = "answered", ~Q!Excepted(log'[i].quiz)
             PROVE  i > 1 /\ log'[i - 1] = Q!Issue(log'[i].quiz)
  BY <1>3 DEF AnswersFollow, Q!Issue
<1>4. CASE i = Len(log')
  <2>1. Len(log) > 0 /\ log[Len(log)] = Q!Issue(e.quiz)
    BY <1>1, <1>2, <1>4 DEF Q!EndsWith
  <2>2. i - 1 = Len(log) /\ i > 1 /\ Len(log) \in 1..Len(log)
    BY <1>1, <1>4, <2>1
  <2> QED BY <1>1, <1>4, <2>1, <2>2
<1>5. CASE i # Len(log')
  <2>1. i \in 1..Len(log) /\ log'[i] = log[i]
    BY <1>1, <1>5
  <2>2. i > 1 /\ log[i - 1] = Q!Issue(log[i].quiz)
    BY <2>1 DEF AnswersFollow
  <2>3. i - 1 \in 1..Len(log)
    BY <1>1, <2>1, <2>2
  <2> QED BY <1>1, <2>1, <2>2, <2>3
<1> QED BY <1>4, <1>5

(* A new quiz is what the branch ends with, and nothing waits.             *)
LEMMA IssuesInPlace ==
    ASSUME PlaceInv, Issues
    PROVE  PlaceInv'
<1> DEFINE e == Q!Issue(issued + 1)
<1>1. /\ LogTypes /\ issued \in Nat /\ log' = Append(log, e) /\ issued' = issued + 1
      /\ pendingQuiz'.quiz = issued + 1
      /\ UNCHANGED <<tree, form, followUps, agent, inGap, strayed>>
  BY DEF PlaceInv, LogTypes, Issues
<1>2. e \in Entries /\ e.kind = "issued"
  BY <1>1 DEF Q!Issue, Entries
<1>3. log' \in Seq(Entries) /\ Q!EndsWith(log', issued + 1)
  BY <1>1, <1>2, GrownLog DEF Q!EndsWith, Q!Issue
<1>4. LogTypes' /\ (followUps' # <<>> => agent' = "running")
  BY <1>1, <1>3 DEF PlaceInv, LogTypes
<1> HIDE DEF e
<1>5. ASSUME overlapped' = {} PROVE InPlace'
  <2>1. InPlace /\ form' = None /\ followUps' = <<>> /\ Len(followUps') = 0
    BY <1>1, <1>5 DEF PlaceInv, Issues
  <2>2. AnswersFollow(log)'
    BY <1>1, <1>2, <2>1, EntryFollows DEF InPlace
  <2>3. \A branch \in tree' : AnswersFollow(branch)'
    BY <1>1, <2>1, TreeFollows
  <2>4. Q!EndsWith(log, pendingQuiz.quiz)'
    BY <1>1, <1>3 DEF Q!EndsWith, Q!Issue
  <2> QED BY <2>1, <2>2, <2>3, <2>4 DEF InPlace
<1> QED BY <1>4, <1>5 DEF PlaceInv

(* Answers that waited join the branch behind their quiz.                  *)
LEMMA DeliversInPlace ==
    ASSUME PlaceInv, Delivers
    PROVE  PlaceInv'
<1> DEFINE q == followUps[1]
           e == Q!Answered(q)
<1>1. /\ LogTypes /\ followUps \in Seq(Nat) /\ followUps # <<>> /\ agent = "running"
      /\ followUps' = Tail(followUps) /\ log' = Append(log, e)
      /\ UNCHANGED <<tree, pendingQuiz, form, agent, issued, overlapped, inGap, strayed>>
  BY DEF PlaceInv, LogTypes, Delivers
<1>2. /\ q \in Nat /\ followUps' \in Seq(Nat) /\ 1 \in 1..Len(followUps)
      /\ Len(followUps) \in Nat /\ Len(followUps') = Len(followUps) - 1
      /\ \A i \in 1..Len(followUps') : i + 1 \in 1..Len(followUps) /\ followUps'[i] = followUps[i + 1]
  BY <1>1
<1>3. e \in Entries /\ e.quiz = q
  BY <1>2 DEF Q!Answered, Entries
<1>4. LogTypes' /\ agent' = "running"
  BY <1>1, <1>2, <1>3, GrownLog DEF LogTypes
<1>5. \A z : Q!Excepted(z)' = Q!Excepted(z)
  BY <1>1 DEF Q!Excepted
<1> HIDE DEF e, q
<1>6. ASSUME overlapped = {} PROVE InPlace'
  <2>1. InPlace
    BY <1>6 DEF PlaceInv
  <2>2. ~Q!Excepted(q) => Q!EndsWith(log, q)
    BY <1>2, <2>1 DEF InPlace, q
  <2>3. AnswersFollow(log)'
    BY <1>1, <1>3, <2>1, <2>2, EntryFollows DEF InPlace
  <2>4. \A branch \in tree' : AnswersFollow(branch)'
    BY <1>1, <2>1, TreeFollows
  <2>5. /\ pendingQuiz # None => Q!Excepted(pendingQuiz.quiz)
        /\ form # None => Q!Excepted(form.quiz)
    BY <1>1, <2>1 DEF InPlace
  <2>6. \A i \in 1..Len(followUps') : Q!Excepted(followUps'[i])
    <3> SUFFICES ASSUME NEW i \in 1..Len(followUps') PROVE Q!Excepted(followUps'[i])
      OBVIOUS
    <3>1. i + 1 \in 1..Len(followUps) /\ i + 1 # 1 /\ followUps'[i] = followUps[i + 1]
      BY <1>2
    <3> QED BY <2>1, <3>1 DEF InPlace
  <2> QED BY <1>1, <1>5, <2>3, <2>4, <2>5, <2>6 DEF InPlace
<1> QED BY <1>1, <1>4, <1>6 DEF PlaceInv

(* What is recovered is in place, or an exception when answers wait.       *)
LEMMA RecoversInPlace ==
    ASSUME PlaceInv, Recovers
    PROVE  PlaceInv'
<1> DEFINE q == Q!RecoverIssuedQuiz(log)
<1>1. /\ LogTypes /\ q # None /\ pendingQuiz'.quiz = q /\ form'.quiz = q
      /\ inGap' = IF followUps # <<>> THEN inGap \cup {q} ELSE inGap
      /\ UNCHANGED <<log, tree, followUps, agent, issued, overlapped, strayed>>
  BY DEF PlaceInv, Recovers
<1>2. Q!EndsWith(log, q) /\ q' = q
  BY <1>1, RecoveredEnds DEF Q!RecoverIssuedQuiz
<1> HIDE DEF q
<1>3. LogTypes' /\ (followUps' # <<>> => agent' = "running")
  BY <1>1 DEF PlaceInv, LogTypes
<1>4. /\ \A z : Q!Excepted(z) => Q!Excepted(z)'
      /\ followUps # <<>> => Q!Excepted(q)'
  BY <1>1, <1>2 DEF Q!Excepted
<1>5. \A z : Q!EndsWith(log, z) => Q!EndsWith(log, z)'
  BY <1>1 DEF Q!EndsWith, Q!Issue
<1>6. ASSUME overlapped = {} PROVE InPlace'
  <2>1. InPlace
    BY <1>6 DEF PlaceInv
  <2>2. AnswersFollow(log)'
    BY <1>1, <2>1, StillFollow DEF InPlace
  <2>3. \A branch \in tree' : AnswersFollow(branch)'
    BY <1>1, <2>1, TreeFollows
  <2>4. ~Q!Excepted(q)' => Q!EndsWith(log, q)' /\ followUps' = <<>>
    <3>1. Q!EndsWith(log, q)'
      BY <1>2, <1>5
    <3> QED BY <1>1, <1>4, <3>1
  <2>5. \A i \in 1..Len(followUps') :
            ~Q!Excepted(followUps[i])' => i = 1 /\ Q!EndsWith(log, followUps[1])'
    <3> SUFFICES ASSUME NEW i \in 1..Len(followUps), ~Q!Excepted(followUps[i])'
                 PROVE  i = 1 /\ Q!EndsWith(log, followUps[1])'
      BY <1>1
    <3>1. ~Q!Excepted(followUps[i])
      BY <1>1 DEF Q!Excepted
    <3>2. i = 1 /\ Q!EndsWith(log, followUps[1])
      BY <2>1, <3>1 DEF InPlace
    <3> QED BY <1>1, <3>2 DEF Q!EndsWith, Q!Issue
  <2>6. /\ ~Q!Excepted(pendingQuiz.quiz)' => Q!EndsWith(log, pendingQuiz.quiz)' /\ followUps' = <<>>
        /\ ~Q!Excepted(form.quiz)' => Q!EndsWith(log, form.quiz)' /\ followUps' = <<>>
    BY <1>1, <1>2, <2>4 DEF Q!Excepted, Q!EndsWith, Q!Issue
  <2> QED BY <1>1, <2>2, <2>3, <2>5, <2>6 DEF InPlace
<1> QED BY <1>1, <1>3, <1>6 DEF PlaceInv

(* What is submitted is in place, and nothing waits before it.             *)
LEMMA SubmitsInPlace ==
    ASSUME PlaceInv, FormInv, Submits
    PROVE  PlaceInv'
<1> DEFINE q == form.quiz
           e == Q!Answered(q)
<1>1. /\ LogTypes /\ followUps \in Seq(Nat) /\ q \in Nat
      /\ form # None /\ form' = None /\ pendingQuiz' = None /\ agent' = "running"
      /\ UNCHANGED <<tree, issued, overlapped, inGap, strayed>>
  BY DEF PlaceInv, LogTypes, FormInv, Forms, Submits
<1>2. ASSUME overlapped = {}
      PROVE  /\ InPlace /\ (~Q!Excepted(q) => Q!EndsWith(log, q) /\ followUps = <<>>)
             /\ \A branch \in tree' : AnswersFollow(branch)'
  BY <1>1, <1>2, TreeFollows DEF PlaceInv, InPlace
<1>3. e \in Entries /\ e.quiz = q
  BY <1>1 DEF Q!Answered, Entries
<1>4. \A z : Q!Excepted(z)' = Q!Excepted(z)
  BY <1>1 DEF Q!Excepted
<1>5. \/ agent = "idle" /\ log' = Append(log, e) /\ followUps' = followUps
      \/ followUps' = Append(followUps, q) /\ log' = log
  BY DEF Submits
<1> HIDE DEF q, e
<1>6. CASE agent = "idle" /\ log' = Append(log, e) /\ followUps' = followUps
  <2>1. followUps' = <<>> /\ Len(followUps') = 0
    BY <1>6 DEF PlaceInv
  <2>2. LogTypes'
    BY <1>1, <1>3, <1>6, GrownLog DEF LogTypes
  <2>3. ASSUME overlapped = {} PROVE AnswersFollow(log)'
    BY <1>1, <1>2, <1>3, <1>6, <2>3, EntryFollows DEF InPlace
  <2> QED BY <1>1, <1>2, <2>1, <2>2, <2>3 DEF PlaceInv, InPlace
<1>7. CASE followUps' = Append(followUps, q) /\ log' = log
  <2>1. /\ followUps' \in Seq(Nat) /\ Len(followUps) \in Nat
        /\ Len(followUps') = Len(followUps) + 1
        /\ followUps'[Len(followUps) + 1] = q
        /\ \A i \in 1..Len(followUps) : followUps'[i] = followUps[i]
    BY <1>1, <1>7
  <2>2. LogTypes'
    BY <1>1, <1>7, <2>1 DEF LogTypes
  <2>3. ASSUME overlapped = {} PROVE InPlace'
    <3>1. AnswersFollow(log)'
      BY <1>1, <1>2, <1>7, <2>3, StillFollow DEF InPlace
    <3>2. \A i \in 1..Len(followUps') :
              ~Q!Excepted(followUps'[i]) => i = 1 /\ Q!EndsWith(log, followUps'[1])
      <4> SUFFICES ASSUME NEW i \in 1..Len(followUps'), ~Q!Excepted(followUps'[i])
                   PROVE  i = 1 /\ Q!EndsWith(log, followUps'[1])
        OBVIOUS
      <4>1. CASE i \in 1..Len(followUps)
        <5>1. i = 1 /\ Q!EndsWith(log, followUps[1]) /\ followUps'[1] = followUps[1]
          BY <1>2, <2>1, <2>3, <4>1 DEF InPlace
        <5> QED BY <5>1
      <4>2. CASE i = Len(followUps) + 1
        <5>1. Q!EndsWith(log, q) /\ followUps = <<>>
          BY <1>2, <2>1, <2>3, <4>2
        <5>2. Len(followUps) = 0
          BY <5>1
        <5> QED BY <2>1, <4>2, <5>1, <5>2
      <4> QED BY <2>1, <4>1, <4>2
    <3>3. \A z : Q!EndsWith(log, z)' = Q!EndsWith(log, z)
      BY <1>7 DEF Q!EndsWith, Q!Issue
    <3> QED BY <1>1, <1>2, <1>4, <2>3, <3>1, <3>2, <3>3 DEF InPlace
  <2> QED BY <1>1, <2>2, <2>3 DEF PlaceInv
<1> QED BY <1>5, <1>6, <1>7

(* A move in the tree: nothing waits or is shown, and a pending quiz that  *)
(* the other branch does not end with is an exception from now on.         *)
LEMMA MovesInPlace ==
    ASSUME PlaceInv, Moves
    PROVE  PlaceInv'
<1>1. /\ LogTypes /\ agent = "idle" /\ form' = None /\ followUps' = <<>> /\ Len(followUps') = 0
      /\ log' \in Q!Prefixes(tree \cup {log}) /\ tree' \subseteq tree \cup {log}
      /\ strayed \subseteq strayed' /\ inGap' = inGap
      /\ UNCHANGED <<pendingQuiz, followUps, agent, issued, overlapped>>
  BY DEF PlaceInv, Moves
<1>2. PICK branch \in tree \cup {log} : \E n \in 0..Len(branch) : log' = SubSeq(branch, 1, n)
  BY <1>1 DEF Q!Prefixes
<1>3. PICK n \in 0..Len(branch) : log' = SubSeq(branch, 1, n)
  BY <1>2
<1>4. branch \in Seq(Entries)
  BY <1>1 DEF LogTypes
<1>5. log' \in Seq(Entries)
  BY <1>3, <1>4
<1>6. LogTypes'
  BY <1>1, <1>5 DEF LogTypes
<1>7. ASSUME overlapped = {} PROVE InPlace'
  <2>1. InPlace
    BY <1>7 DEF PlaceInv
  <2>2. AnswersFollow(log')
    BY <1>3, <1>4, <2>1, PrefixFollows DEF InPlace
  <2>3. AnswersFollow(log)'
    BY <1>1, <2>2 DEF AnswersFollow, Q!Excepted, Q!Issue
  <2>4. \A b \in tree' : AnswersFollow(b)'
    BY <1>1, <2>1, TreeFollows
  <2>5. pendingQuiz' # None /\ ~Q!Excepted(pendingQuiz.quiz)' => Q!EndsWith(log, pendingQuiz.quiz)'
    BY <1>1 DEF Moves, Q!Excepted, Q!EndsWith, Q!Issue
  <2> QED BY <1>1, <2>3, <2>4, <2>5 DEF InPlace
<1> QED BY <1>1, <1>6, <1>7 DEF PlaceInv

(* The rest keeps to the quizzes that there are.                           *)
LEMMA HandlesInPlace ==
    ASSUME PlaceInv, Handles
    PROVE  PlaceInv'
<1>1. /\ LogTypes /\ UNCHANGED <<log, tree, issued, overlapped, inGap, strayed>>
      /\ \/ followUps' = <<>>
         \/ followUps' = followUps /\ (agent = "running" => agent' = "running")
  BY DEF PlaceInv, Handles
<1>2. LogTypes'
  <2>1. followUps \in Seq(Nat) /\ <<>> \in Seq(Nat)
    BY <1>1 DEF LogTypes
  <2> QED BY <1>1, <2>1 DEF LogTypes
<1>3. followUps' # <<>> => agent' = "running"
  BY <1>1 DEF PlaceInv
<1>4. /\ \A z : Q!Excepted(z)' = Q!Excepted(z)
      /\ \A z : Q!EndsWith(log, z)' = Q!EndsWith(log, z)
  BY <1>1 DEF Q!Excepted, Q!EndsWith, Q!Issue
<1>5. ASSUME overlapped = {} PROVE InPlace'
  <2>1. InPlace
    BY <1>5 DEF PlaceInv
  <2>2. AnswersFollow(log)'
    BY <1>1, <2>1, StillFollow DEF InPlace
  <2>3. \A branch \in tree' : AnswersFollow(branch)'
    BY <1>1, <2>1, TreeFollows
  <2>4. pendingQuiz' # None /\ ~Q!Excepted(pendingQuiz'.quiz) =>
            Q!EndsWith(log, pendingQuiz'.quiz) /\ followUps' = <<>>
    BY <1>1, <2>1 DEF Handles, InPlace
  <2>5. form' # None /\ ~Q!Excepted(form'.quiz) => Q!EndsWith(log, form'.quiz) /\ followUps' = <<>>
    BY <1>1, <2>1 DEF Handles, InPlace
  <2>6. \A i \in 1..Len(followUps') :
            ~Q!Excepted(followUps'[i]) => i = 1 /\ Q!EndsWith(log, followUps'[1])
    <3>1. CASE followUps' = <<>>
      BY <3>1
    <3>2. CASE followUps' = followUps
      BY <2>1, <3>2 DEF InPlace
    <3> QED BY <1>1, <3>1, <3>2
  <2> QED BY <1>4, <2>2, <2>3, <2>4, <2>5, <2>6 DEF InPlace
<1> QED BY <1>1, <1>2, <1>3, <1>5 DEF PlaceInv

(* Every step of the quiz preserves both invariants.                       *)
LEMMA QuizStep ==
    ASSUME FormInv, PlaceInv, [Q!Next]_(Q!vars)
    PROVE  FormInv' /\ PlaceInv'
<1>1. FormInv'
  BY FormStep DEF PlaceInv
<1>2. PlaceInv'
  BY QuizSteps, IssuesInPlace, DeliversInPlace, RecoversInPlace, SubmitsInPlace, MovesInPlace,
     HandlesInPlace
<1> QED BY <1>1, <1>2

(* A session starts without a quiz.                                        *)
LEMMA QuizInit == Q!Init => FormInv /\ PlaceInv
<1> SUFFICES ASSUME Q!Init PROVE FormInv /\ PlaceInv
  OBVIOUS
<1>1. /\ log = <<>> /\ tree = {} /\ pendingQuiz = None /\ form = None /\ followUps = <<>>
      /\ issued = 0 /\ Len(log) = 0 /\ Len(followUps) = 0
  BY DEF Q!Init
<1>2. LogTypes
  BY <1>1 DEF LogTypes
<1> QED BY <1>1, <1>2 DEF FormInv, PlaceInv, InPlace, AnswersFollow

-----------------------------------------------------------------------------
(* The extensions side by side: each step is one of each, or rests it.     *)
LEMMA StepsOfBoth ==
    ASSUME [Next]_vars
    PROVE  [M!Next]_(M!vars) /\ [Q!Next]_(Q!vars)
<1>1. UNCHANGED midTurn => UNCHANGED M!vars
  BY DEF midTurn, M!vars, M!session, M!extension
<1>2. UNCHANGED quiz => UNCHANGED Q!vars
  BY DEF quiz, Q!vars, Q!branches, Q!counters
<1> QED BY <1>1, <1>2 DEF Next, vars

(* The boundary of mid-turn compaction is always the present task's, with  *)
(* a lease that nobody used (StartMidTurnBoundary, resumeTask).            *)
THEOREM LeaseInvariant == Spec => []LeaseInv
<1>1. Init => LeaseInv
  BY LeaseInit DEF Init
<1>2. LeaseInv /\ [Next]_vars => LeaseInv'
  BY LeaseStep, StepsOfBoth
<1> QED BY <1>1, <1>2, PTL DEF Spec

(* resumeTask continues a task that the extension stopped, once, and never *)
(* one that the user gave meanwhile or another branch.                     *)
THEOREM ContinuesItsOwnTask == Spec => []OnlyItsOwnTask
<1>1. LeaseInv => OnlyItsOwnTask
  BY DEF LeaseInv, OnlyItsOwnTask
<1> QED BY <1>1, LeaseInvariant, PTL

(* A quiz that is no exception is pending or shown, and its answers wait,  *)
(* only while the branch ends with it, and the answers of every branch     *)
(* follow their quiz (pendingBySession, presentPendingQuiz).               *)
THEOREM QuizInvariant == Spec => [](FormInv /\ PlaceInv)
<1>1. Init => FormInv /\ PlaceInv
  BY QuizInit DEF Init
<1>2. FormInv /\ PlaceInv /\ [Next]_vars => (FormInv /\ PlaceInv)'
  BY QuizStep, StepsOfBoth
<1> QED BY <1>1, <1>2, PTL DEF Spec

(* The answers that reach the model follow their quiz directly on the      *)
(* branch, wherever the user moved in the session's tree, and what is      *)
(* pending is the newest quiz of the branch, unless it is one of the named *)
(* exceptions; the form's answers carry the notes it shows.                *)
THEOREM AnswersAreOfTheirQuiz == Spec => []AnswersFitTheirQuiz
<1>1. FormInv /\ PlaceInv => AnswersFitTheirQuiz
  <2> SUFFICES ASSUME FormInv, PlaceInv PROVE Q!AnswersFitTheirQuiz /\ Q!PendingIsNewest
    BY DEF AnswersFitTheirQuiz
  <2>1. LogTypes /\ log \in Seq(Entries) /\ DOMAIN log = 1..Len(log)
    BY DEF PlaceInv, LogTypes
  <2>2. Q!AnswersFitTheirQuiz
    <3>1. form # None => \A q \in Questions : form.answers[q] # None => form.answers[q].note = form.notes[q]
      BY DEF FormInv, NotesFit
    <3>2. overlapped = {} => AnswersFollow(log)
      BY DEF PlaceInv, InPlace
    <3> QED BY <2>1, <3>1, <3>2 DEF Q!AnswersFitTheirQuiz, AnswersFollow
  <2>3. Q!PendingIsNewest
    <3> SUFFICES ASSUME pendingQuiz # None, overlapped = {}, ~Q!Excepted(pendingQuiz.quiz)
                 PROVE  Q!RecoverIssuedQuiz(log) = pendingQuiz.quiz
      BY DEF Q!PendingIsNewest
    <3>1. Q!EndsWith(log, pendingQuiz.quiz)
      BY DEF PlaceInv, InPlace
    <3> QED BY <3>1 DEF Q!EndsWith, Q!Issue, Q!RecoverIssuedQuiz
  <2> QED BY <2>2, <2>3
<1> QED BY <1>1, QuizInvariant, PTL
=============================================================================
