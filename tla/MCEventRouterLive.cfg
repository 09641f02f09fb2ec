\* Liveness in client mode: console.log and the debug source, a context that
\* may be cancelled, listeners that need not run.
CONSTANTS
  Servers <- OneServer
  SecretKey = "logsecret"
  ServerMode = FALSE
  ClientAddress = ""
  Debug = TRUE
  Stranger = 9
  EventTypes = {"any"}
  AppBuffer = 1
  Cancellable = TRUE
  MaxLines = 2
SPECIFICATION FairSpec
PROPERTIES AppGetsRegistered SourcesStop
CHECK_DEADLOCK FALSE
