------------------------------- MODULE Settings -------------------------------
(***************************************************************************)
(* The configuration, in memory (ConfigState) and on disk (AppConfig), and *)
(* the settings page with the microphone it opens for its level meter.     *)
(*                                                                         *)
(* Everything here runs on the application's thread.  A behaviour is one   *)
(* run of the application: it begins with whatever file the last run left. *)
(***************************************************************************)
EXTENDS AudioDevices

CONSTANTS
    Values,         \* of all settings but the two devices
    Default,        \* the configuration of AppConfig::default()
    Torn            \* a config.toml that is not there, or that a write has
                    \* emptied and not filled: it does not parse

Configs == [input : InputDevices, output : OutputDevices, other : Values]
ASSUME SettingsAssumption == Default \in Configs /\ Torn \notin Configs

Views == {"Login", "Room", "Settings"}

VARIABLES
    app,            \* what the application's thread is doing
    config,         \* the ArcSwap<AppConfig> that all parts share
    config_dirty,
    file,           \* config.toml
    current_view,
    meter           \* the device of SettingsPage.input_stream, NoDevice for None

settingsVars == <<app, config, config_dirty, file, current_view, meter>>

AppStates == {"starting", "running", "closed", "panicked"}
Alive == app = "running"

SettingsInit(onDisk) ==
    /\ app = "starting" /\ config = Default /\ config_dirty = FALSE
    /\ file = onDisk
    /\ current_view = "Login" /\ meter = NoDevice

-----------------------------------------------------------------------------
(* AppConfig::load(), with create_default_and_save() for a file that does   *)
(* not parse.  An error, in reading or in saving the default, is unwrapped. *)

LoadConfig ==
    /\ app = "starting"
    /\ \/ app' = "running" /\ file # Torn /\ config' = file /\ UNCHANGED file
       \/ app' = "running" /\ file = Torn /\ config' = Default /\ file' = Default
       \/ app' = "panicked" /\ UNCHANGED <<config, file>>
    /\ UNCHANGED <<config_dirty, current_view, meter>>

-----------------------------------------------------------------------------
(* ConfigState.                                                             *)

\* write_config(): marked only if something has changed.
WriteConfig(new) ==
    /\ config' = new
    /\ config_dirty' = (config_dirty \/ new # config)

\* save_config_if_dirty() takes the mark away before it writes, and gives it
\* back if that fails: before fs::write() has emptied the file, or after.
\* Mutant: it does not come back.
MarkLost == config_dirty' = FALSE
MarkBack == config_dirty' = TRUE
SaveIfDirty ==
    \/ config_dirty /\ config_dirty' = FALSE /\ file' = config
    \/ config_dirty /\ MarkBack /\ file' \in {file, Torn}
    \/ ~config_dirty /\ UNCHANGED <<config_dirty, file>>

PeriodicConfigSave ==
    /\ app = "running"
    /\ SaveIfDirty
    /\ UNCHANGED <<app, config, current_view, meter>>
WindowCloseRequested ==
    /\ app = "running" /\ app' = "closed"
    /\ SaveIfDirty
    /\ UNCHANGED <<config, current_view, meter>>

-----------------------------------------------------------------------------
(* The settings page.  opened is what create_input_stream() comes to: the   *)
(* configured device, or NoDevice.                                          *)

SwitchView(view, opened) ==
    /\ view = "Settings" => current_view = "Room"
    /\ current_view' = view
    /\ meter' = IF view = "Settings" THEN opened ELSE NoDevice

\* stop_input_stream(), start_input_stream().
MeterRestarts(opened) == meter' = opened

-----------------------------------------------------------------------------
(* Properties.                                                              *)

SettingsTypeOK ==
    /\ app \in AppStates /\ config \in Configs /\ config_dirty \in BOOLEAN
    /\ file \in Configs \cup {Torn}
    /\ current_view \in Views /\ meter \in InputDevices \cup {NoDevice}

\* Whatever saves fail: what the user has set and the disk does not have is
\* marked, so that the next period saves it.
NothingUnsaved == Alive /\ file # config => config_dirty
=============================================================================
