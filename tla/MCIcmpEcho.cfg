\* Two probes at a time, two in all, two sequence numbers.
CONSTANTS
  Slots = {r1, r2}
  Addresses <- AllAddresses
  FamilyOf <- Families
  NoIP = NoIP
  Asks <- SomeAsks
  Local = {"me4"}
  AnswersFrom <- From
  Foreign <- Others
  IDs = {1, 2}
  KernelIDs = {1, 3}
  SeqSpace = 2
  MaxProbes = 2
SPECIFICATION Spec
INVARIANTS TypeOK OwnReply NotOverlooked
CHECK_DEADLOCK FALSE
