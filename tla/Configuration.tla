---------------------------- MODULE Configuration ----------------------------
(* The configuration: its file and the copies of it (Settings), and the two *)
(* fields that write back into themselves (SettingsForm).                   *)
EXTENDS Settings, SettingsForm

\* What is chosen in Settings, or by a command, is what the file says and what
\* the form shows when the messages about it have been handled (config.py,
\* screens/settings.py).
SettingsAreHonest == SettingsAreKept /\ FormTellsTheConfig
=============================================================================
