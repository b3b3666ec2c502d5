\* Requests on one connection, several in a record, to a file that may change or be
\* a directory, over a small send buffer; the largest file has the size FilesFit allows.
CONSTANTS
  MaxChunks = 3
  Int32Chunks = 3
  SndCap = 1
  ReqCap = 3
  MaxIn = 5
  MaxEdits = 1
SPECIFICATION FairSpec
INVARIANTS
  TypeOK
  BodyInOrder
  RightInterest
PROPERTIES
  AnswersInTurn
  RequestsAnswered
CHECK_DEADLOCK FALSE
