\* Logging out while the socket is being opened, and in again.
CONSTANTS
  Sockets = {w1, w2}
  MaxFailures = 0
SPECIFICATION SocketSpec
INVARIANT KeepsTrying
