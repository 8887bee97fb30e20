\* Results and ordinary messages for one chat, and every disturbance.
SPECIFICATION FairSpec
CONSTANTS
  a = a
  b = b
  n1 = n1
  n2 = n2
  Chats = {a}
  Channels = {n1}
  ChannelOf <- OneChat
  NoChat = NoChat
  MaxMessages = 2
  Slots = 2
  Sends = 1
  MaxPending = 2
  MaxAttempts = 2
  MaxErrors = 1
  Disturbances = {"crash", "shutdown", "stop", "pause", "replace"}
  MaxDisturbances = 1
INVARIANTS StatusTruthful QuietInMaintenance
PROPERTIES PlainInOrder EveryResultSettles ImplementsMailbox
CHECK_DEADLOCK FALSE
