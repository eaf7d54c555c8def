\* A page over a network that fails a few times, with logouts.
CONSTANTS
  Sockets = {w1, w2, w3}
  MaxFailures = 2
SPECIFICATION FairSocketSpec
INVARIANTS NeverStranded OnlineIsTrue
PROPERTY ComesBack
