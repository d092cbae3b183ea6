----------------------------- MODULE Application ----------------------------
(***************************************************************************)
(* The interactive program around its screens (app.py, screens/__init__.py *)
(* and the part of __main__.py that starts and ends it): the stack of      *)
(* screens, who must be drawn again when a theme or a glyph set changes,   *)
(* and what must not be running when the process is over.                  *)
(*                                                                         *)
(* Of the toolkit: a screen is suspended when another is put on it or in   *)
(* its place and resumed when it is on top again, and both have been       *)
(* handled when the next key is read.                                      *)
(***************************************************************************)
EXTENDS Naturals, Sequences, FiniteSets, TLC

CONSTANTS
  Modes_,     \* the mode screens of the stack that are told apart
  MaxScreens, \* bounds: how high the stack, how often the look is changed
  MaxLooks

ASSUME ShellAssumption ==
  /\ "explorer" \in Modes_
  /\ Modes_ \cap {"welcome", "settings", "keymap", "confirm"} = {}
  /\ MaxLooks \in Nat /\ MaxScreens \in Nat

VARIABLES
  stack,     \* the screens, the top one last
  epoch,     \* how often the look has been changed
  drawn,     \* the look each mode screen's lines have
  seen,      \* the look a screen was suspended or resumed under
  entry,     \* the look under which Settings was last resumed
  installed, \* the mode screens exist
  cleanup,   \* the Cleanup mode is switched on
  built,     \* services that exist: they are made on first touch
  busy,      \* a scan of the explorer; a monitor session
  life       \* "running", "leaving", "closed"

appVars == <<stack, epoch, drawn, seen, entry, installed, cleanup, built, busy, life>>

Never == MaxLooks + 1
Screens == Modes_ \cup {"welcome", "settings", "keymap", "confirm"}
TopScreen == stack[Len(stack)]

AppTypeOK ==
  /\ stack \in Seq(Screens) /\ epoch \in 0..MaxLooks
  /\ drawn \in [Modes_ -> 0..Never] /\ seen \in [Modes_ -> 0..Never]
  /\ built \subseteq {"scan", "monitor"} /\ busy \subseteq {"scan", "session"}
  /\ life \in {"running", "leaving", "closed"}

\* on_mount: the welcome screen, or a path that was given
AppInit ==
  /\ epoch = 0 /\ entry = 0 /\ seen = [m \in Modes_ |-> Never]
  /\ cleanup \in BOOLEAN
  /\ \/ /\ stack = <<"welcome">> /\ installed = FALSE
        /\ drawn = [m \in Modes_ |-> Never] /\ busy = {} /\ built = {}
     \/ /\ stack = <<"explorer">> /\ installed = TRUE
        /\ drawn = [m \in Modes_ |-> IF m = "explorer" THEN 0 ELSE Never]
        /\ busy = {"scan"} /\ built = {"scan", "monitor"}
  /\ life = "running"

\* RenderEpochRefreshMixin.on_screen_suspend
Suspended(s) == IF s \in Modes_ THEN [seen EXCEPT ![s] = epoch] ELSE seen

\* mutant: a screen that comes back is as it was
ResumedAsItWas(s, before) ==
  /\ seen' = IF s \in Modes_ THEN [before EXCEPT ![s] = epoch] ELSE before
  /\ drawn' = IF s \in Modes_ /\ drawn[s] = Never THEN [drawn EXCEPT ![s] = epoch] ELSE drawn
  /\ entry' = IF s = "settings" THEN epoch ELSE entry

\* on_screen_resume: drawn again if the look has changed since; a screen that
\* comes for the first time is drawn as it comes
Resumed(s, before) ==
  /\ seen' = IF s \in Modes_ THEN [before EXCEPT ![s] = epoch] ELSE before
  /\ drawn' = IF s \in Modes_ /\ (drawn[s] = Never \/ before[s] \notin {Never, epoch})
              THEN [drawn EXCEPT ![s] = epoch] ELSE drawn
  /\ entry' = IF s = "settings" THEN epoch ELSE entry

Push(s) ==
  /\ Len(stack) < MaxScreens
  /\ stack' = Append(stack, s)
  /\ Resumed(s, Suspended(TopScreen))

Up == stack[Len(stack) - 1]
Pop ==
  /\ Len(stack) > 1
  /\ stack' = SubSeq(stack, 1, Len(stack) - 1)
  /\ Resumed(Up, Suspended(TopScreen))

Alive == life = "running"

-----------------------------------------------------------------------------
\* _on_welcome_result, _launch_explorer
WelcomeResult ==
  /\ Alive /\ TopScreen = "welcome"
  /\ stack' = <<"explorer">> /\ installed' = TRUE
  /\ Resumed("explorer", seen)
  /\ built' = built \cup {"scan", "monitor"} /\ busy' = busy \cup {"scan"}
  /\ UNCHANGED <<epoch, cleanup, life>>

WelcomeQuit ==
  /\ Alive /\ TopScreen = "welcome" /\ life' = "leaving"
  /\ UNCHANGED <<stack, epoch, drawn, seen, entry, installed, cleanup, built, busy>>

\* 1, 2, 3, 4: in the place of the top screen
SwitchMode(m) ==
  /\ Alive /\ installed
  /\ TopScreen \notin {"keymap", "confirm", m}
  /\ m = "cleanup" => cleanup
  /\ stack' = [stack EXCEPT ![Len(stack)] = m]
  /\ Resumed(m, Suspended(TopScreen))
  /\ UNCHANGED <<epoch, installed, cleanup, built, busy, life>>

\* check_action refuses it while there are no modes
PushSettings ==
  /\ Alive /\ installed
  /\ TopScreen \notin {"keymap", "confirm"}
  /\ Push("settings")
  /\ UNCHANGED <<epoch, installed, cleanup, built, busy, life>>

ShowKeymap ==
  /\ Alive /\ TopScreen # "confirm"
  /\ IF TopScreen = "keymap" THEN Pop ELSE Push("keymap")
  /\ UNCHANGED <<epoch, installed, cleanup, built, busy, life>>

\* the look that changed while Settings was open is drawn on what it reveals
DismissSettings_ ==
  /\ Alive /\ TopScreen = "settings" /\ Len(stack) > 1
  /\ stack' = SubSeq(stack, 1, Len(stack) - 1)
  /\ seen' = IF Up \in Modes_ THEN [seen EXCEPT ![Up] = epoch] ELSE seen
  /\ drawn' = IF Up \in Modes_ /\ (epoch # entry \/ seen[Up] \notin {Never, epoch})
              THEN [drawn EXCEPT ![Up] = epoch] ELSE drawn
  /\ entry' = IF Up = "settings" THEN epoch ELSE entry
  /\ UNCHANGED <<epoch, installed, cleanup, built, busy, life>>

\* a theme, ASCII glyphs, the shape of a cell
ChangeLook ==
  /\ Alive /\ TopScreen = "settings" /\ epoch < MaxLooks
  /\ epoch' = epoch + 1
  /\ UNCHANGED <<stack, drawn, seen, entry, installed, cleanup, built, busy, life>>

ShowCleanup ==
  /\ Alive /\ TopScreen = "settings" /\ cleanup' = ~cleanup
  /\ UNCHANGED <<stack, epoch, drawn, seen, entry, installed, built, busy, life>>

\* g in the explorer repaints it; a resize may bring the terminal's pixels,
\* and each chart that is shown lays itself out again
LookFromTop ==
  /\ Alive /\ epoch < MaxLooks
  /\ epoch' = epoch + 1
  /\ drawn' = IF TopScreen \in Modes_ THEN [drawn EXCEPT ![TopScreen] = epoch'] ELSE drawn
  /\ UNCHANGED <<stack, seen, entry, installed, cleanup, built, busy, life>>

\* a rescan, the end of a scan; a monitor session
Works ==
  /\ Alive /\ installed
  /\ \/ busy' = busy \cup {"scan"} \/ busy' = busy \ {"scan"} \/ busy' = busy \cup {"session"}
  /\ UNCHANGED <<stack, epoch, drawn, seen, entry, installed, cleanup, built, life>>

-----------------------------------------------------------------------------
ActionQuit ==
  /\ Alive /\ TopScreen # "confirm" /\ TopScreen # "keymap"
  /\ Push("confirm")
  /\ UNCHANGED <<epoch, installed, cleanup, built, busy, life>>

CloseModal ==
  /\ Alive /\ TopScreen \in {"keymap", "confirm"} /\ Pop
  /\ UNCHANGED <<epoch, installed, cleanup, built, busy, life>>

\* a service that does not exist is not made to be stopped
PerformQuit_ ==
  /\ Alive /\ TopScreen = "confirm"
  /\ life' = "leaving"
  /\ busy' = (IF "monitor" \in built THEN busy \ {"session"} ELSE busy)
             \ (IF installed \/ "scan" \in built THEN {"scan"} ELSE {})
  /\ UNCHANGED <<stack, epoch, drawn, seen, entry, installed, cleanup, built>>

\* whatever takes the toolkit down
Crashes ==
  /\ Alive /\ life' = "leaving"
  /\ UNCHANGED <<stack, epoch, drawn, seen, entry, installed, cleanup, built, busy>>

\* the finally of _launch_tui; to ask for a service makes it
ForceTeardown ==
  /\ life = "leaving" /\ life' = "closed"
  /\ built' = {"scan", "monitor"} /\ busy' = {}
  /\ UNCHANGED <<stack, epoch, drawn, seen, entry, installed, cleanup>>

AppNext ==
  \/ WelcomeResult \/ WelcomeQuit \/ PushSettings \/ ShowKeymap \/ DismissSettings_
  \/ (\E m \in Modes_ : SwitchMode(m))
  \/ ChangeLook \/ ShowCleanup \/ LookFromTop \/ Works
  \/ ActionQuit \/ CloseModal \/ PerformQuit_ \/ Crashes \/ ForceTeardown

-----------------------------------------------------------------------------
\* A mode screen on top is drawn in the look of now, by whatever way it came
\* there: what Settings remembers of its own entry is lost when the key map
\* has been opened over it, and a screen may come back long after the change
\* (RenderEpochRefreshMixin, action_dismiss_settings).
TopIsFresh == life # "closed" /\ TopScreen \in Modes_ => drawn[TopScreen] = epoch

\* The screens that need a path are only there when there is one, a question
\* is asked once, and a process that is over has stopped its scan and its
\* session (check_action, action_quit, _force_teardown).
ScreensAreThere ==
  /\ ~installed => \A n \in DOMAIN stack : stack[n] \notin Modes_ \cup {"settings"}
  /\ Cardinality({n \in DOMAIN stack : stack[n] = "confirm"}) <= 1
  /\ Cardinality({n \in DOMAIN stack : stack[n] = "keymap"}) <= 1
  /\ life = "closed" => busy = {}

ShellIsSound == TopIsFresh /\ ScreensAreThere
=============================================================================
