SPECIFICATION Spec
CONSTANTS
  a = a
  b = b
  ann = ann
  s1 = s1
  Clients = {a, b}
  User <- MCUser
  Senders = {s1}
  Buffer = 1
  Pending = 2
  MayStop = FALSE
  MaxSends = 1
  MaxBroadcasts = 1
INVARIANT NoSendOnClosed
CHECK_DEADLOCK FALSE
