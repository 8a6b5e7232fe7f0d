SPECIFICATION MCSpec
CONSTANTS
  Models <- MCModels
  Claude <- MCClaude
  Specific <- MCSpecific
  Kin <- MCKin
  GoOrder <- MCGoOrder
  Requests = {1, 2, 3, 4, 5}
  Senders = {1, 2, 3, 4, 5}
  Clients = {"c1", "c2"}
  ClientOf <- MCClientOf
  UpConns = {"u1", "u2"}
  MaxQueued = 2
  Heads <- MCHeads
  Postures <- MCPostures
  Answers <- MCAnswers
  Cap = 1
  Unmask = FALSE
  Keep = FALSE
INVARIANTS LaidAsSent GatewayGetsItsOwn AnswerNamesWhatWasAsked NoSecretAtRest RecordsTellTheEnd
CHECK_DEADLOCK FALSE
