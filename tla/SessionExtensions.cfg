\* Each component on an instance of its own; the bounds are explained in the README.
SPECIFICATION Spec
CONSTANTS
    MAX_MID_TURN_BOUNDARIES = 8
    MaxBoundaries = 2
    MaxTasks = 2
    MidTurns = 3
    AutoCompaction = FALSE
    Tasks = {a, b}
    Names = {P, Q}
    MaxTodoEntries = 3
    Lists = {one, two}
    MaxOpens = 2
    MaxRows = 10
    Limits = {4, 5, 7}
    MaxCopies = 6
    Turns = {t1, t2}
    Views = {v, w}
    Questions = {1}
    Options = {o}
    MaxQuizzes = 2
    MaxEpisodes = 3
    MaxAnswers = 2
    None = None
INVARIANTS
    OnlyItsOwnTask
    ScreenIsTrue
    AnswersFitTheirQuiz
PROPERTIES
    StoppedTaskGoesOn
    QuizOpens
CHECK_DEADLOCK FALSE
