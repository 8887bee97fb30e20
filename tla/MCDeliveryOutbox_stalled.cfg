\* A storage error while a result for a disabled channel is closed.
SPECIFICATION FairSpec
CONSTANTS
  a = a
  b = b
  n1 = n1
  n2 = n2
  Chats = {a}
  Channels = {n1}
  ChannelOf <- OneChat
  NoChat = NoChat
  MaxMessages = 1
  Slots = 2
  Sends = 1
  MaxPending = 2
  MaxAttempts = 2
  MaxErrors = 1
  Disturbances = {"stop"}
  MaxDisturbances = 1
PROPERTIES PendingIsRetried
CHECK_DEADLOCK FALSE
