\* All kinds of rules, of transports and of answers.
CONSTANTS
  Addresses = {"four", "six"}
  FamilyOf <- Families
  NoIP = NoIP
  Modules <- TheModules
  Targets <- TheTargets
  Records = {"a", "b", "soa1"}
  SOA = {"soa1"}
  Responses <- TheResponses
  Rcodes = {"noerror", "servfail"}
  NoError = "noerror"
  Unknown = "typo"
  None = None
SPECIFICATION Spec
INVARIANTS TypeOK AnswerJudged
CHECK_DEADLOCK FALSE
