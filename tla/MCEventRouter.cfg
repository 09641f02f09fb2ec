\* Server mode: two servers and a stranger, signed and legacy packets, and
\* the debug source: two sources call Send at once.
CONSTANTS
  Servers <- TwoServers
  SecretKey = "logsecret"
  ServerMode = TRUE
  ClientAddress = ""
  Debug = TRUE
  Stranger = 9
  EventTypes = {"any"}
  AppBuffer = 1
  Cancellable = FALSE
  MaxLines = 2
SPECIFICATION Spec
INVARIANTS TypeOK NoCrossTalk OwnerIsOffered
PROPERTIES ImplementsLossyFeed
