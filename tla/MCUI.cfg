\* Two inputs of the form; all tabs, in server mode; two servers, two players
\* and two clicks or keys of the user, at any moment.
CONSTANTS
  DoSetup = FALSE
  NumFields = 2
  ViewKeys = {"q", "h", "E", "esc", "enter", "k", "down", "x", "l"}
  MaxCommands = 1
  InServerMode = TRUE
  TabKeys = {"tab", "o", "b", "c", "t", "enter", "x"}
  MaxTabCommands = 2
  Hosts = {h1, h2}
  NoHost = NoHost
  SIDs = {p1, p2}
  NoSID = NoSID
  MaxInputs = 2
  MaxAtTick = 0
SPECIFICATION FairSpec
INVARIANTS PanelOfTab QuietModelsAgree
PROPERTIES StatusClears FormCanBeLeft SelectionSettles ListsCatchUp
CHECK_DEADLOCK FALSE
