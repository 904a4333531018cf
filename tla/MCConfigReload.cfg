\* Two requests, signals and, if the flag is set, the timer, while the file is
\* rewritten at any time and earlier contents are put back.
CONSTANTS
  MaxWrites = 2
  Versions <- Contents
  Malformed <- Misspelt
  Unreadable <- Missing
  Requests = {r1, r2}
  Nothing = Nothing
SPECIFICATION ReloadFairSpec
INVARIANTS ReloadTypeOK
PROPERTIES AnswersTruthful GaugeTruthful SignalObeyed RequestAnswered FileFollowed
CHECK_DEADLOCK FALSE
