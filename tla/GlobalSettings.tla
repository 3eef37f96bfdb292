--------------------------- MODULE GlobalSettings ---------------------------
(***************************************************************************)
(* gui/global_settings_binding.py over GlobalSettingsStore: the settings   *)
(* page, the file behind it and what the runtime was told of it.           *)
(*                                                                         *)
(* A document is the hex2000 path and the auto-ping switch; the command    *)
(* times and the log path are handled as the path is, but reach nobody.    *)
(* The actions are guarded and composed by Sessions.                       *)
(***************************************************************************)
EXTENDS Integers, Sequences, FiniteSets

CONSTANT Tools   \* hex2000 paths

ASSUME ToolsAssumption == "" \in Tools

VARIABLE settings

SettingsDocuments == [tool : Tools, ping : BOOLEAN]

DefaultSettings == [tool |-> "", ping |-> TRUE]

\* What may be on disk: no file, one that cannot be read or parsed, one of
\* schema 1 or 2, which know no auto-ping, and one of schema 3.
SettingsFiles ==
  [version : {"absent", "corrupt", "legacy", "current"}, document : SettingsDocuments]

\* GlobalSettingsStore.load with the fallback of _load.
LoadedSettings(file) ==
  CASE file.version \in {"absent", "corrupt"} -> DefaultSettings
    [] file.version = "legacy" -> [file.document EXCEPT !.ping = TRUE]
    [] file.version = "current" -> file.document

-----------------------------------------------------------------------------
\* _load with its _apply_document and _apply_backend.
Applied(file) ==
  [file |-> file,
   baseline |-> LoadedSettings(file),
   candidate |-> LoadedSettings(file),
   migrated |-> file.version = "legacy",
   tool |-> LoadedSettings(file).tool,
   pinging |-> LoadedSettings(file).ping]

\* _apply_gate: the save buttons are enabled.
SettingsDirty(s) == s.candidate # s.baseline \/ s.migrated

\* _edited and _auto_ping_edited, one field at a time: only the switch takes effect at once.
EditSettings ==
  \E document \in SettingsDocuments \ {settings.candidate} :
    /\ document.tool = settings.candidate.tool \/ document.ping = settings.candidate.ping
    /\ settings' = [settings EXCEPT !.candidate = document, !.pinging = document.ping]

\* save: the file is replaced, or the write fails and nothing changes.
SavedSettings(s, written) ==
  IF written
  THEN [s EXCEPT !.file = [version |-> "current", document |-> s.candidate],
                 !.baseline = s.candidate,
                 !.migrated = FALSE,
                 !.tool = s.candidate.tool]
  ELSE s

SaveSettings(written) ==
  /\ SettingsDirty(settings)
  /\ settings' = SavedSettings(settings, written)

ReloadSettings == settings' = Applied(settings.file)

=============================================================================
