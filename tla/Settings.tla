------------------------------- MODULE Settings -----------------------------
(***************************************************************************)
(* What a save in the config form writes, and what is read from it: the    *)
(* validators of the inputs, configModel's save, Loader.Write and Read.    *)
(*                                                                         *)
(* App models when configs are read and who gets them; here they have      *)
(* contents, and each crossing changes their form: texts of inputs to a    *)
(* Config, the Config to YAML and back.  What viper keeps of a Write is    *)
(* the matter of App.                                                      *)
(* SteamID is one of SteamIDs or the zero value, which prints as "0".      *)
(* Loader.Read finds log secrets under "logsecret"; in YAML a field of a   *)
(* Go struct has its name in lower case, which is that.                    *)
(***************************************************************************)
EXTENDS Naturals

CONSTANT SteamIDs  \* texts that are SteamIDs

NoText == ""
Zero == "0"

ASSUME SettingsAssumption == SteamIDs \cap {NoText, Zero} = {}

VARIABLES
  yaml,    \* the config file
  program, \* "off" or "on"
  formCfg, \* configModel.config
  inputs,  \* the texts of its inputs
  errs,    \* its inputs with an Err
  writer   \* history: who wrote the file, "user" or "form"

setVars == <<yaml, program, formCfg, inputs, errs, writer>>

Yamls ==
  [steam_id : {NoText, "junk"} \cup SteamIDs, console_log_path : {NoText, "file"},
   api_base_url : {"url"}, servers : [key : {"logsecret", "log_secret"}, secret : {1}]]

-----------------------------------------------------------------------------
(* steamid.New, and config.SteamID.Valid.                                  *)

NewSteamID(text) == IF text \in SteamIDs THEN text ELSE Zero

Valid(sid) == sid # Zero

(* The validators.                                                         *)
Validates(field, text) ==
  CASE field = "steam_id"         -> Valid(NewSteamID(text))
    [] field = "console_log_path" -> text = "file"
    [] field = "api_base_url"     -> text \notin {NoText, "no url"}

TextsOf(field) ==
  CASE field = "steam_id"         -> {NoText, "junk"} \cup SteamIDs
    [] field = "console_log_path" -> {NoText, "file", "no file"}
    [] field = "api_base_url"     -> {NoText, "url", "no url"}

InputFields == {"steam_id", "console_log_path", "api_base_url"}

(* newConfigModal: the texts, none of which is validated.                  *)
InputsOf(cfg) ==
  [f \in InputFields |->
     CASE f = "steam_id" -> cfg.SteamID
       [] f = "console_log_path" -> IF cfg.ConsoleLogPath = NoText THEN "no file" ELSE cfg.ConsoleLogPath
       [] f = "api_base_url" -> cfg.APIBaseURL]

-----------------------------------------------------------------------------
(* Loader.                                                                 *)

SecretIn(server) == IF server.key = "logsecret" THEN server.secret ELSE 0

(* Read: a SteamID that is none is an error, no SteamID is not.            *)
Loadable(settings) == settings.steam_id = NoText \/ Valid(NewSteamID(settings.steam_id))

LoaderRead(settings) ==
  [SteamID |-> NewSteamID(settings.steam_id), ConsoleLogPath |-> settings.console_log_path,
   APIBaseURL |-> settings.api_base_url, LogSecret |-> SecretIn(settings.servers)]

(* Mutated form of LoaderWrite: the SteamID as it prints.                  *)
LoaderWriteAsPrinted(cfg) ==
  [steam_id |-> cfg.SteamID, console_log_path |-> cfg.ConsoleLogPath,
   api_base_url |-> cfg.APIBaseURL, servers |-> [key |-> "logsecret", secret |-> cfg.LogSecret]]

(* What Write Sets.  WriteConfig writes it to the file.                    *)
LoaderWrite(cfg) ==
  [steam_id |-> IF Valid(cfg.SteamID) THEN cfg.SteamID ELSE NoText,
   console_log_path |-> cfg.ConsoleLogPath,
   api_base_url |-> cfg.APIBaseURL, servers |-> [key |-> "logsecret", secret |-> cfg.LogSecret]]

-----------------------------------------------------------------------------

EditFile ==
  /\ yaml' \in Yamls /\ writer' = "user"
  /\ UNCHANGED <<program, formCfg, inputs, errs>>

StartProgram ==
  /\ program = "off" /\ Loadable(yaml)
  /\ program' = "on"
  /\ formCfg' = LoaderRead(yaml)
  /\ inputs' = InputsOf(formCfg')
  /\ errs' = {}
  /\ UNCHANGED <<yaml, writer>>

EndProgram ==
  /\ program = "on"
  /\ program' = "off"
  /\ UNCHANGED <<yaml, formCfg, inputs, errs, writer>>

(* An input that is edited validates its text.                             *)
EditInput ==
  /\ program = "on"
  /\ \E f \in InputFields : \E text \in TextsOf(f) :
       /\ inputs' = [inputs EXCEPT ![f] = text]
       /\ errs' = IF Validates(f, text) THEN errs \ {f} ELSE errs \cup {f}
  /\ UNCHANGED <<yaml, program, formCfg, writer>>

(* accept on fieldSave.  m.config is the config of the start or of the     *)
(* last save, and what it says of the servers goes back into the file.  A  *)
(* file that cannot be written leaves all of this as it is.                *)
SaveForm ==
  LET cfg == [formCfg EXCEPT !.SteamID = NewSteamID(inputs["steam_id"]),
                             !.ConsoleLogPath = inputs["console_log_path"],
                             !.APIBaseURL = inputs["api_base_url"]]
  IN  /\ program = "on" /\ errs = {}
      /\ yaml' = LoaderWrite(cfg) /\ writer' = "form"
      /\ formCfg' = cfg
      /\ UNCHANGED <<program, inputs, errs>>

SettingsInit ==
  /\ yaml \in Yamls
  /\ program = "off"
  /\ formCfg = LoaderRead(yaml)
  /\ inputs = InputsOf(formCfg)
  /\ errs = {}
  /\ writer = "user"

SettingsNext ==
  EditFile \/ StartProgram \/ EndProgram \/ EditInput \/ SaveForm

SettingsSpec == SettingsInit /\ [][SettingsNext]_setVars

-----------------------------------------------------------------------------

(* Loader.Write and Read: the file that a save leaves can be read at the   *)
(* next start, and gives back the config that was saved, SteamID and log   *)
(* secret included, whatever the form began with and whatever was typed,   *)
(* rejected and corrected meanwhile.                                       *)
SavedFileLoads ==
  writer = "form" => Loadable(yaml) /\ (program = "on" => LoaderRead(yaml) = formCfg)

=============================================================================
