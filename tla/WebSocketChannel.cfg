SPECIFICATION FairSpec
CONSTANTS
  MaxWrites = 3
  MaxReads = 2
  MaxCloses = 1
INVARIANTS SentInOrder AnswersAreTrue
PROPERTIES OpenIsAnswered CancelEndsIo
CHECK_DEADLOCK FALSE
