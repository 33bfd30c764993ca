SPECIFICATION Spec
CONSTANTS
  Chars <- Written
  Requests <- Texts
  Replies <- Answers
  Fresh = {"1", "2"}
INVARIANT AnswerMatches
