SPECIFICATION FairSpec
CONSTANTS
  w1 = w1
  MaxConn = 2
  Clients = {w1}
  MaxSends = 2
  QueueLimit = 1
  Overlap = FALSE
  Faults = {"expiry", "closed_sender", "admin_delete", "recent_start"}
INVARIANTS
  EmptyWhenAllGone
  DeliveredOnce
  ChannelOrder
PROPERTIES
  DeadSenderGone
CHECK_DEADLOCK FALSE
