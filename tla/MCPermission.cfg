SPECIFICATION FairSpec
CONSTANTS
    Requests = {q1, q2}
    Answers = {a1, a2}
    NoAnswer = NoAnswer
    Cancel = Cancel
INVARIANTS EndedRunHasNoPending RowsShowAcceptedAnswers RowShowsTheDecisionTaken
PROPERTIES EveryAnswerReturns
CHECK_DEADLOCK FALSE
