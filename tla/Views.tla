------------------------------- MODULE Views --------------------------------
(***************************************************************************)
(* internal/ui: which view is shown, the help, the config form and the     *)
(* line of the status bar.                                                 *)
(*                                                                         *)
(* bubbletea hands one message at a time to rootModel.Update, which        *)
(* handles it and passes it on to every model; each Update returns         *)
(* commands, and each command runs in a goroutine of its own and makes one *)
(* message: the messages of pending commands arrive in any order.          *)
(*                                                                         *)
(* A key is handled by every model, whether it is shown or not.  Of the    *)
(* form's inputs the model keeps whether the text is valid and whether the *)
(* input says it is not; an input checks its text when it is edited.       *)
(***************************************************************************)
EXTENDS Naturals, Bags

CONSTANTS DoSetup,      \* newRootModel's doSetup
          NumFields,    \* inputs of the form: 3 in the code
          ViewKeys,     \* the keys that are pressed
          MaxCommands   \* bound: commands pending when a key is pressed

ASSUME ViewsAssumption ==
  /\ DoSetup \in BOOLEAN
  /\ NumFields \in Nat \ {0}
  /\ MaxCommands \in Nat

VARIABLES
  root,      \* rootModel: ready (isInitialized), current and previous view
  form,      \* configModel and its inputs
  helpView,  \* helpModel.view
  bar,       \* statusBarModel.statusMsg
  commands,  \* a bag: the messages of the commands that run
  quit       \* tea.Quit: the program is over

viewVars == <<root, form, helpView, bar, commands, quit>>

ContentViews == {"viewMain", "viewConfig", "viewHelp"}
StatusTexts  == {"saved", "error"}
Fields       == 0 .. NumFields - 1
FieldSave    == NumFields  \* the button below them; as a focus: no input

(* defaultKeyMap, as far as these models match it.  "h" is bound twice:    *)
(* rootModel.Update tries help before left.                                *)
DefaultKeyMap ==
  [quit  |-> {"q", "ctrl+c"}, help   |-> {"h", "H"},  config |-> {"E"},
   back  |-> {"esc"},         accept |-> {"enter"},
   up    |-> {"up", "k"},     down   |-> {"down", "j"},
   left  |-> {"left", "h"},   right  |-> {"right", "l"}]

Printing == {"q", "h", "H", "E", "k", "j", "x"}

Msg(kind, val) == [kind |-> kind, val |-> val]

(* What the commands of these models make.                                 *)
ViewMsgs == [kind : {"view"}, val : ContentViews] \cup [kind : {"status"}, val : StatusTexts]
              \cup {Msg("clear", "")}

Matches(msg, binding) == msg.kind = "key" /\ msg.val \in DefaultKeyMap[binding]

-----------------------------------------------------------------------------
(* rootModel.Update.                                                       *)

(* help and config: to the view, and from it to the one before.            *)
Toggle(view) ==
  IF root.current = view
  THEN [root EXCEPT !.current = root.previous]
  ELSE [root EXCEPT !.previous = root.current, !.current = view]

(* Mutated form of RootUpdate: a view that is set is not shown.            *)
RootUpdateKeepsView(msg) ==
  CASE msg.kind = "size"      -> [root EXCEPT !.ready = TRUE]
    [] Matches(msg, "help")   -> Toggle("viewHelp")
    [] Matches(msg, "config") -> Toggle("viewConfig")
    [] OTHER                  -> root

RootUpdate(msg) ==
  CASE msg.kind = "size"      -> [root EXCEPT !.ready = TRUE]
    [] msg.kind = "view"      -> [root EXCEPT !.current = msg.val]
    [] Matches(msg, "help")   -> Toggle("viewHelp")
    [] Matches(msg, "config") -> Toggle("viewConfig")
    [] OTHER                  -> root

(* Quit is only for the main view.                                         *)
Quits(msg) == Matches(msg, "quit") /\ root.current = "viewMain"

(* Of these, the other models get to know nothing.                         *)
Withheld(msg) ==
  \/ msg.kind = "size" \/ Quits(msg)
  \/ (Matches(msg, "left") \/ Matches(msg, "right")) /\ ~Matches(msg, "help")

-----------------------------------------------------------------------------
(* configModel.Update.                                                     *)

(* The inputs come first: the one with the focus takes what is printable   *)
(* and checks its text, which may be valid now.                            *)
Typed(msg, valid) ==
  IF msg.kind = "key" /\ msg.val \in Printing /\ form.focus \in Fields
  THEN [form EXCEPT !.text[form.focus] = IF valid THEN "valid" ELSE "invalid"]
  ELSE form

ChangeInput(f, index) == [f EXCEPT !.focusIndex = index, !.focus = index]

(* Keys are for the form while it thinks that it is shown.                 *)
FormKey(msg, binding) == Matches(msg, binding) /\ form.view = "viewConfig"

FormUpdate(msg, valid) ==
  LET f == Typed(msg, valid) IN
  CASE msg.kind = "view" ->
         [f EXCEPT !.view = msg.val, !.focus = IF msg.val = "viewConfig" THEN 0 ELSE @]
    [] FormKey(msg, "back") -> [f EXCEPT !.view = "viewMain"]
    [] FormKey(msg, "up") /\ f.focusIndex > 0 -> ChangeInput(f, f.focusIndex - 1)
    [] (FormKey(msg, "down") \/ FormKey(msg, "accept")) /\ f.focusIndex < FieldSave ->
         ChangeInput(f, f.focusIndex + 1)
    [] OTHER -> f

OnSave(msg) == FormKey(msg, "accept") /\ form.focusIndex = FieldSave

(* field.input.Err: an input that was never edited has none, newText-      *)
(* InputModel sets its text before it has its validator.                   *)
InputErrors == {f \in Fields : form.text[f] = "invalid"}

Saves(msg, wrote) == OnSave(msg) /\ InputErrors = {} /\ wrote

FormCommands(msg, wrote) ==
  CASE FormKey(msg, "back") -> {Msg("view", "viewMain")}
    [] Saves(msg, wrote)    -> {Msg("status", "saved"), Msg("view", "viewMain")}
    [] OnSave(msg) /\ ~Saves(msg, wrote) -> {Msg("status", "error")}
    [] OTHER -> {}

-----------------------------------------------------------------------------
(* helpModel.Update and statusBarModel.Update.                             *)

HelpUpdate(msg) ==
  CASE msg.kind = "view" -> msg.val
    [] Matches(msg, "back") /\ helpView = "viewHelp" -> "viewMain"
    [] OTHER -> helpView

HelpCommands(msg) ==
  IF Matches(msg, "back") /\ helpView = "viewHelp" THEN {Msg("view", "viewMain")} ELSE {}

BarUpdate(msg) ==
  CASE msg.kind = "status" -> msg.val
    [] msg.kind = "clear"  -> ""
    [] OTHER -> bar

(* Mutated form of BarCommands: only an error is cleared.                  *)
BarCommandsErrors(msg) ==
  IF msg.kind = "status" /\ msg.val = "error" THEN {Msg("clear", "")} ELSE {}

(* clearErrorAfter.                                                        *)
BarCommands(msg) == IF msg.kind = "status" THEN {Msg("clear", "")} ELSE {}

-----------------------------------------------------------------------------
(* One turn of the program; ok is the answer of the world outside: whether *)
(* what was typed makes a valid text, whether the file could be written.   *)

Commands(msg, ok) == FormCommands(msg, ok) \cup HelpCommands(msg) \cup BarCommands(msg)

Propagate(msg, ok) ==
  /\ form' = FormUpdate(msg, ok)
  /\ helpView' = HelpUpdate(msg)
  /\ bar' = BarUpdate(msg)
  /\ commands' = (commands (-) SetToBag({msg})) (+) SetToBag(Commands(msg, ok))

ViewUpdate(msg, ok) ==
  /\ ~quit
  /\ root.ready \/ msg.kind = "size"
  /\ root' = RootUpdate(msg)
  /\ quit' = Quits(msg)
  /\ \/ Withheld(msg) /\ UNCHANGED <<form, helpView, bar, commands>>
     \/ ~Withheld(msg) /\ Propagate(msg, ok)

(* The terminal tells its size, at the start and whenever it changes.      *)
Resize == ViewUpdate(Msg("size", ""), TRUE)

Press(key) ==
  /\ BagCardinality(commands) <= MaxCommands
  /\ \E ok \in BOOLEAN : ViewUpdate(Msg("key", key), ok)

(* The message of a command.                                               *)
Arrive(msg) == msg \in BagToSet(commands) /\ ViewUpdate(msg, TRUE)

(* newRootModel, newConfigModal.                                           *)
ViewsInit ==
  /\ root = [ready |-> FALSE, previous |-> "viewMain",
             current |-> IF DoSetup THEN "viewConfig" ELSE "viewMain"]
  /\ form \in [view : {"viewConfig"}, focusIndex : {0}, focus : {FieldSave},
               text : [Fields -> {"unedited"}]]
  /\ helpView = "viewMain"
  /\ bar = ""
  /\ commands = EmptyBag
  /\ quit = FALSE

ViewsNext == Resize \/ (\E msg \in BagToSet(commands) : Arrive(msg)) \/ \E key \in ViewKeys : Press(key)

ViewsSpec == ViewsInit /\ [][ViewsNext]_viewVars

-----------------------------------------------------------------------------
(* Properties.                                                             *)

(* Each message in the status bar brings a timer, and the timer of an      *)
(* older one may end it early: but there is none without a timer.          *)
ClearIsComing == bar # "" => Msg("clear", "") \in BagToSet(commands)

(* So a message goes away, however many timers run.                        *)
StatusClears == bar # "" ~> bar = "" \/ quit

(* Back leaves the form, also if it was opened before the form was ever    *)
(* told of a view, and whatever else is pressed.                           *)
FormCanBeLeft ==
  root.current = "viewConfig" /\ form.view = "viewConfig" ~> root.current = "viewMain" \/ quit

=============================================================================
