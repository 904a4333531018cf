\* Lists without expect_bytes behind expect, six servers, a scanner of four bytes.
CONSTANTS
  Alphabet <- MCAlphabet
  Scripts <- Separable
  Streams <- Greetings
  Newline = "nl"
  Hello = "hello"
  MaxToken = 4
  None = None
SPECIFICATION FairSpec
INVARIANTS TypeOK SuccessMeansMatched SentAsAgreed GaugesTruthful
PROPERTIES EveryProbeEnds
CHECK_DEADLOCK FALSE
