SPECIFICATION Spec
CONSTANTS
  tuner = tuner
  player = player
  Clients <- TwoClients
  Own <- MCOwn
  Senders <- Tuner
  Receivers <- Player
  SentFrames <- MCFrames
  MaxEvents = 2
  NoFrame = NoFrame
  HalAnswers <- MCAnswers
  AddErrors <- MCAddErrors
  Logicals <- MCLogicals
  Physical = "1.0.0.0"
INVARIANT TypeOK OutcomeAgrees InitiatorKept DaemonFollowsLast PublishedIsReady
INVARIANT ReceiveFaultsOnlyAtEdges ListedWasAccepted
CHECK_DEADLOCK FALSE
