SPECIFICATION Spec
CONSTANTS
  Chars <- Written
  Requests <- Texts
  Replies <- Answers
  Fresh = {"1", "2"}
INVARIANTS RoundTrip InjectedRoundTrip KeyIsInText InjectionAddsOne SentIsSeparated
