------------------------- MODULE MonitorDefinitions -------------------------
(***************************************************************************)
(* The definition of one monitor, edited, paused and archived by several   *)
(* clients while a host runs it: services/monitor.py over the table        *)
(* monitor_definitions of storage/database.py.  The scope of a definition  *)
(* is its root, its metric and its policy; what changes it takes a new     *)
(* revision, and every snapshot names the revision it was taken under.        *)
(*                                                                         *)
(* Clients are processes with a connection each, so a row that was read    *)
(* may be another one when it is written.  The command line edits what it  *)
(* has just read; the Monitor Center edits a copy from its dashboard and   *)
(* expects the revision its dashboard shows when the editor is closed.     *)
(* Labels, intervals and retention, which take no revision, are left out.  *)
(***************************************************************************)
EXTENDS Naturals

CONSTANTS Editors,     \* the clients
          Boards,      \* those with a dashboard that goes on under the editor
          Scopes,      \* what a definition may measure
          MaxVersions, \* bound: on revisions
          MaxCommands  \* bound: on commands

ASSUME DefinitionAssumption ==
  Boards \subseteq Editors /\ MaxVersions \in Nat \ {0} /\ MaxCommands \in Nat

VARIABLES
  row_,      \* the row of the definition
  ruled,     \* whether its alert rules are on
  desk,      \* what each client is doing
  runner,    \* the run under way, if any
  measured,  \* the revision and scope of each snapshot
  commands   \* how many commands there were

definitionVars == <<row_, ruled, desk, runner, measured, commands>>

States_ == {"enabled", "paused", "archived"}
Versions == 1..MaxVersions
DefinitionRows == [revision : Versions, scope : Scopes, desired : States_]
Scoped == [revision : Versions, scope : Scopes]
NoRunner == [at |-> "idle"]

DefinitionTypeOK ==
  /\ row_ \in DefinitionRows /\ ruled \in BOOLEAN
  /\ \A c \in Editors :
       /\ desk[c].at \in {"idle", "editing", "writing", "stating", "silencing",
                            "archiving"}
       /\ desk[c].board \in DefinitionRows
       /\ desk[c].at \in {"editing", "writing"} => desk[c].item \in DefinitionRows
  /\ runner = NoRunner \/ runner.run \in Scoped
  /\ measured \subseteq Scoped
  /\ commands \in 0..MaxCommands

DefinitionInit ==
  /\ \E s \in Scopes : row_ = [revision |-> 1, scope |-> s, desired |-> "enabled"]
  /\ ruled = TRUE
  /\ desk = [c \in Editors |-> [at |-> "idle", board |-> row_]]
  /\ runner = NoRunner /\ measured = {} /\ commands = 0

-----------------------------------------------------------------------------
AtDesk(c) == [at |-> "idle", board |-> desk[c].board]
ClientIs(c, state) == desk' = [desk EXCEPT ![c] = state]

\* a command is given; archive_monitor is one, too
Commanded(c) ==
  /\ desk[c].at = "idle" /\ commands < MaxCommands
  /\ commands' = commands + 1

\* get_monitor, or the reload of a dashboard
Look(c) ==
  /\ desk[c].at = "idle" \/ c \in Boards
  /\ desk' = [desk EXCEPT ![c].board = row_]
  /\ UNCHANGED <<row_, ruled, runner, measured, commands>>

\* the editor opens with what the client has, and the scope is changed in it
OpenEditor(c, scope) ==
  /\ Commanded(c)
  /\ ClientIs(c, [at |-> "editing", board |-> desk[c].board,
                  item |-> [desk[c].board EXCEPT !.scope = scope]])
  /\ UNCHANGED <<row_, ruled, runner, measured>>

\* the revision that a definition gets which replaces the row
NextRevision(item) ==
  IF item.scope = row_.scope THEN row_.revision ELSE row_.revision + 1

\* update_monitor, up to the comparison with the row as it is
CheckRevision(c) ==
  /\ desk[c].at = "editing"
  /\ LET item == desk[c].item
         expected == desk[c].board.revision
     IN  IF row_.revision # expected THEN ClientIs(c, AtDesk(c))
         ELSE /\ NextRevision(item) \in Versions
              /\ ClientIs(c, [at |-> "writing", board |-> desk[c].board,
                              expected |-> expected,
                              item |-> [item EXCEPT !.revision = NextRevision(item)]])
  /\ UNCHANGED <<row_, ruled, runner, measured, commands>>

\* mutant: the row is written whatever its revision
WrittenAnyway(c) == TRUE

\* the condition of the UPDATE
StillExpected(c) == row_.revision = desk[c].expected

\* update_monitor's UPDATE, which replaces the whole row or loses the race
WriteRow(c) ==
  /\ desk[c].at = "writing"
  /\ row_' = IF StillExpected(c) THEN desk[c].item ELSE row_
  /\ ClientIs(c, AtDesk(c))
  /\ UNCHANGED <<ruled, runner, measured, commands>>

\* pause_monitor and resume_monitor: an archived monitor is refused
BeginState(c, desired) ==
  /\ Commanded(c) /\ desired # "archived"
  /\ row_.desired # "archived"
  /\ ClientIs(c, [at |-> "stating", board |-> desk[c].board, desired |-> desired])
  /\ UNCHANGED <<row_, ruled, runner, measured>>

\* archive_monitor: the rules are switched off first
BeginArchive(c) ==
  /\ Commanded(c)
  /\ ClientIs(c, [at |-> "silencing", board |-> desk[c].board])
  /\ UNCHANGED <<row_, ruled, runner, measured>>

Silence(c) ==
  /\ desk[c].at = "silencing"
  /\ ruled' = FALSE
  /\ ClientIs(c, [at |-> "stating", board |-> desk[c].board, desired |-> "archived"])
  /\ UNCHANGED <<row_, runner, measured, commands>>

\* set_monitor_desired_state
SetDesired(c) ==
  /\ desk[c].at = "stating"
  /\ row_' = [row_ EXCEPT !.desired = desk[c].desired]
  /\ ClientIs(c, AtDesk(c))
  /\ UNCHANGED <<ruled, runner, measured, commands>>

\* set_alert_rule_enabled
EnableRules(c) ==
  /\ Commanded(c) /\ ruled' = TRUE
  /\ UNCHANGED <<row_, desk, runner, measured>>

-----------------------------------------------------------------------------
\* the session loop lists what is enabled, and executes what it has listed
RunBegins ==
  /\ runner = NoRunner /\ row_.desired = "enabled"
  /\ runner' = [at |-> "running",
              run |-> [revision |-> row_.revision, scope |-> row_.scope]]
  /\ UNCHANGED <<row_, ruled, desk, measured, commands>>

\* save_run with the revision of the definition that was executed
RunEnds ==
  /\ runner # NoRunner
  /\ \E saved \in BOOLEAN :
       measured' = IF saved THEN measured \cup {runner.run} ELSE measured
  /\ runner' = NoRunner
  /\ UNCHANGED <<row_, ruled, desk, commands>>

DefinitionNext ==
  \/ \E c \in Editors :
       \/ Look(c) \/ CheckRevision(c) \/ WriteRow(c)
       \/ BeginArchive(c) \/ Silence(c) \/ SetDesired(c) \/ EnableRules(c)
       \/ \E scope \in Scopes : OpenEditor(c, scope)
       \/ \E desired \in States_ : BeginState(c, desired)
  \/ RunBegins \/ RunEnds

-----------------------------------------------------------------------------
(* Whoever edits the definition, and however stale what they edit: two     *)
(* snapshots of one revision measured the same, and so did the definition  *)
(* that has it now.  Comparison and retention trust that a revision stands *)
(* for one scope (update_monitor, storage/database.py:2212).                *)
RevisionNamesScope ==
  \A s, t \in measured \cup {[revision |-> row_.revision, scope |-> row_.scope]} :
    s.revision = t.revision => s.scope = t.scope
=============================================================================
