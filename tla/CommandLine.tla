---------------------------- MODULE CommandLine ----------------------------
(***************************************************************************)
(* One command of disktide, from its arguments to its exit status          *)
(* (__main__.py).  A command is what is left of its steps; each may go     *)
(* well or raise, and Ctrl-C may come at any of them, also while what was  *)
(* opened is being closed.  What scripts rely on is the exit status and    *)
(* the one JSON document on standard output.                               *)
(*                                                                         *)
(* What a step does inside (a scan, a plan, a migration) is in the module  *)
(* of its part.  Left out: the wording of reports, and commands that only  *)
(* differ in what they print from one that is modelled.                    *)
(***************************************************************************)
EXTENDS Naturals, Sequences, FiniteSets

CONSTANT MaxPresses \* bound: how often Ctrl-C is pressed

VARIABLES
  command,  \* its name and options, and whether the database can be written
  steps,    \* what it has still to do
  stage,    \* "body", "finally" or "over"
  exitStatus, \* the exit status so far
  opened,   \* the repository is open; the monitor host runs
  output,   \* what went to standard output
  done,     \* what it has changed
  presses,  \* history: how often Ctrl-C was pressed
  asides    \* history: what else came between

lineVars == <<command, steps, stage, exitStatus, opened, output, done, presses, asides>>

Do(kind) == [kind |-> kind, what |-> "-"]
On(kind, what) == [kind |-> kind, what |-> what]
Has(option) == option \in command.options
Asides == {"declined", "no targets", "scan cancelled", "prompt aborted", "left open"}

-----------------------------------------------------------------------------
(* The commands.  An option that is not listed changes nothing but numbers. *)

Options(name) ==
  CASE name = "scan"           -> {"json", "snapshot"}
    [] name = "monitor add"    -> {"capture"}
    [] name = "monitor remove" -> {"yes"}
    [] name = "monitor retention" -> {"apply"}
    [] name = "watch"          -> {"saved"}
    [] name = "cleanup plan"   -> {"json", "stored", "apply", "permanent", "confirm"}
    [] name = "cleanup purge"  -> {"json", "confirm"}
    [] name \in {"monitor list", "monitor status", "alerts list", "alerts check",
                 "cleanup history", "cleanup undo", "cleanup rules list",
                 "cleanup rules validate", "cleanup quarantine audit", "doctor"} -> {"json"}
    [] OTHER                   -> {}

Commands == {"open", "scan", "compare", "doctor", "watch",
             "monitor list", "monitor status", "monitor add", "monitor edit",
             "monitor state", "monitor run", "monitor reconcile", "monitor remove",
             "monitor pin", "monitor retention",
             "alerts list", "alerts add", "alerts edit", "alerts state", "alerts remove",
             "alerts check",
             "cleanup plan", "cleanup history", "cleanup undo", "cleanup purge",
             "cleanup rules list", "cleanup rules validate", "cleanup rules state",
             "cleanup quarantine audit", "cleanup quarantine rebuild"}

Given(options, option, some) == IF option \in options THEN some ELSE <<>>
Unless(options, option, some) == IF option \in options THEN <<>> ELSE some
Told(options) == IF "json" \in options THEN Do("document") ELSE Do("say")

\* the configuration is read before anything is opened
Service == <<Do("config"), Do("open")>>
Catalog == <<Do("config")>>
CleanupSession == <<Do("open")>>

\* the path is remembered if it can be, and the database is opened before the
\* screen is taken
LaunchTui ==
  <<Do("look"), Do("config"), On("try", "last visited"), Do("open"), Do("screen")>>
OpenExplorer == <<Do("usage")>> \o LaunchTui

\* every probe that fails is a line of the report
BuildDoctorReport ==
  <<On("probe", "config"), On("probe", "database"), On("probe", "safety"),
    On("probe", "catalog"), On("probe", "platform")>>
Doctor(options) == BuildDoctorReport \o <<Told(options)>>

\* a snapshot is saved before the document, and after a report for people; one
\* that was not saved spoils the exit status and not the report
ScanReport(options) ==
  LET save == Given(options, "snapshot", <<On("try", "snapshot")>>)
      tell == <<Told(options)>>
  IN (IF "json" \in options THEN save \o tell ELSE tell \o save)
     \o Given(options, "snapshot", <<On("require", "snapshot")>>)
Scan(options) == <<Do("usage"), Do("scan")>> \o ScanReport(options)

Compare ==
  <<Do("usage"), Do("open"), Do("usage"), Do("look"), Do("close"), Do("say"), Do("verdict")>>

MonitorList(options) == Service \o <<Told(options)>>
MonitorStatusOf(options) == Service \o <<Do("look"), Told(options)>>
MonitorAdd(options) ==
  Service \o <<Do("usage"), Do("look"), On("write", "monitor"), Do("say")>>
  \o Given(options, "capture", <<Do("scan"), On("try", "snapshot"), On("require", "snapshot"),
                                 Do("say")>>)
MonitorEdit == Service \o <<Do("look"), Do("usage"), On("write", "monitor"), Do("say")>>
MonitorState == Service \o <<On("write", "monitor"), Do("say")>>
\* a snapshot that was not saved is a warning
MonitorRun == Service \o <<Do("look"), Do("scan"), On("try", "snapshot"), Do("say")>>
MonitorReconcile == Service \o <<Do("look"), Do("scan"), On("try", "snapshot"), Do("say")>>
MonitorRemove(options) ==
  Service \o <<Do("look")>> \o Unless(options, "yes", <<Do("ask")>>)
  \o <<On("write", "monitor"), Do("say")>>
MonitorPin == Service \o <<Do("look"), On("write", "monitor"), Do("say")>>
MonitorRetention(options) ==
  Service \o Given(options, "apply", <<On("write", "monitor")>>)
  \o Unless(options, "apply", <<Do("look")>>) \o <<Do("say")>>

AlertsList(options) == Service \o <<Do("look"), Told(options)>>
AlertsAdd == Service \o <<Do("look"), Do("usage"), On("write", "rule"), Do("say")>>
AlertsEdit == Service \o <<Do("look"), Do("usage"), On("write", "rule"), Do("say")>>
AlertsState == Service \o <<On("write", "rule"), Do("say")>>
AlertsRemove == Service \o <<On("write", "rule"), Do("say")>>
AlertsCheck(options) == Service \o <<Do("look"), Told(options), Do("verdict")>>

\* the duration is read when the repository is open and before the try
Watch(options) ==
  <<Do("usage")>> \o Service \o <<Do("usage early"), Do("look")>>
  \o (IF "saved" \in options
      THEN <<Do("host"), Do("wait")>>
      ELSE <<Do("usage"), Do("rounds"), Do("say")>>)

CleanupPlan(options) ==
  <<Do("usage")>> \o Catalog \o CleanupSession
  \o (IF "stored" \in options THEN <<Do("look"), Do("usage")>>
      ELSE <<Do("usage"), Do("scan"), Do("targets"), On("write", "plan")>>)
  \o (IF options \cap {"apply", "permanent"} = {} THEN <<Told(options)>>
      ELSE Unless(options, "json", <<Do("say")>>)
           \o Given(options, "permanent", Unless(options, "confirm", <<Do("prompt")>>))
           \o <<On("try", "moved"), Told(options)>>)
CleanupHistory(options) == Catalog \o CleanupSession \o <<Told(options)>>
\* mutant: what was restored is not asked for
CleanupUndoUnasked(options) ==
  Catalog \o CleanupSession \o <<On("try", "restored"), Told(options)>>
CleanupUndo(options) ==
  Catalog \o CleanupSession
  \o <<On("try", "restored"), Told(options), On("require", "restored")>>
CleanupPurge(options) ==
  Catalog \o CleanupSession \o <<Do("look")>>
  \o Unless(options, "confirm", <<Do("prompt")>>)
  \o <<On("try", "purged"), Told(options), On("require", "purged")>>
RulesList(options) == Catalog \o <<Told(options)>>
RulesValidate(options) == <<Do("look"), Told(options)>>
RulesState == Catalog \o <<Do("look"), On("save", "config"), Do("say")>>
QuarantineAudit(options) == Catalog \o <<Do("look"), Told(options)>>
QuarantineRebuild == Catalog \o <<On("save", "ledger"), Do("say")>>

Steps(name, options) ==
  CASE name = "open"              -> OpenExplorer
    [] name = "scan"              -> Scan(options)
    [] name = "compare"           -> Compare
    [] name = "doctor"            -> Doctor(options)
    [] name = "watch"             -> Watch(options)
    [] name = "monitor list"      -> MonitorList(options)
    [] name = "monitor status"    -> MonitorStatusOf(options)
    [] name = "monitor add"       -> MonitorAdd(options)
    [] name = "monitor edit"      -> MonitorEdit
    [] name = "monitor state"     -> MonitorState
    [] name = "monitor run"       -> MonitorRun
    [] name = "monitor reconcile" -> MonitorReconcile
    [] name = "monitor remove"    -> MonitorRemove(options)
    [] name = "monitor pin"       -> MonitorPin
    [] name = "monitor retention" -> MonitorRetention(options)
    [] name = "alerts list"       -> AlertsList(options)
    [] name = "alerts add"        -> AlertsAdd
    [] name = "alerts edit"       -> AlertsEdit
    [] name = "alerts state"      -> AlertsState
    [] name = "alerts remove"     -> AlertsRemove
    [] name = "alerts check"      -> AlertsCheck(options)
    [] name = "cleanup plan"      -> CleanupPlan(options)
    [] name = "cleanup history"   -> CleanupHistory(options)
    [] name = "cleanup undo"      -> CleanupUndo(options)
    [] name = "cleanup purge"     -> CleanupPurge(options)
    [] name = "cleanup rules list"     -> RulesList(options)
    [] name = "cleanup rules validate" -> RulesValidate(options)
    [] name = "cleanup rules state"    -> RulesState
    [] name = "cleanup quarantine audit"   -> QuarantineAudit(options)
    [] name = "cleanup quarantine rebuild" -> QuarantineRebuild

-----------------------------------------------------------------------------
LineTypeOK ==
  /\ command.name \in Commands /\ command.options \subseteq Options(command.name)
  /\ stage \in {"body", "finally", "over"} /\ exitStatus \in {0, 1, 2, 3, 130}
  /\ opened \subseteq {"repository", "host"} /\ asides \subseteq Asides
  /\ presses \in 0..MaxPresses

LineInit ==
  /\ \E name \in Commands : \E options \in SUBSET Options(name) : \E w \in BOOLEAN :
       /\ {"apply", "permanent"} \subseteq options => FALSE
       /\ command = [name |-> name, options |-> options, writable |-> w]
       /\ steps = Steps(name, options)
  /\ stage = "body" /\ exitStatus = 0 /\ opened = {} /\ output = <<>> /\ done = {}
  /\ presses = 0 /\ asides = {}

At_(kind) == stage = "body" /\ steps # <<>> /\ steps[1].kind = kind
What == steps[1].what

Onward == steps' = Tail(steps) /\ UNCHANGED <<stage, exitStatus>>
\* the try block is left with an exception
Raises(code) == steps' = <<>> /\ stage' = "finally" /\ exitStatus' = code
\* return, or ctx.exit at the end of what is left
Leaves_(rest, code) == steps' = rest /\ exitStatus' = code /\ UNCHANGED stage

\* arguments, the configuration file, what a selector names
Checks ==
  /\ \/ \E kind \in {"usage", "config"} : At_(kind) /\ (Onward \/ Raises(2))
     \/ At_("look") /\ (Onward \/ Raises(1))
     \/ At_("usage early") /\ Onward
     \/ At_("screen") /\ (Onward \/ Raises(1))
     \/ At_("wait") /\ Onward
     \/ At_("rounds") /\ Onward
     \/ At_("probe") /\ Onward
  /\ UNCHANGED <<command, opened, output, done, presses, asides>>

\* --max-time is refused before the try that would close everything
RefusedEarly ==
  /\ At_("usage early")
  /\ steps' = <<>> /\ stage' = "over" /\ exitStatus' = 2
  /\ asides' = asides \cup {"left open"}
  /\ UNCHANGED <<command, opened, output, done, presses>>

Opens ==
  /\ \/ At_("open") /\ opened' = opened \cup {"repository"} /\ Onward
     \/ At_("close") /\ opened' = {} /\ Onward
     \/ At_("host") /\ command.writable /\ opened' = opened \cup {"host"} /\ Onward
     \/ At_("host") /\ UNCHANGED opened /\ Raises(1)
  /\ UNCHANGED <<command, output, done, presses, asides>>

\* a change that must succeed, in the repository or in a file
Writes ==
  /\ At_("write") \/ At_("save")
  /\ \/ /\ command.writable \/ At_("save")
        /\ done' = done \cup {What} /\ Onward
     \/ UNCHANGED done /\ Raises(1)
  /\ UNCHANGED <<command, opened, output, presses, asides>>

\* a change whose failure is told; a cleanup may be refused altogether
Tries ==
  /\ At_("try")
  /\ \/ command.writable /\ done' = done \cup {What} /\ Onward
     \/ UNCHANGED done /\ Onward
     \/ What \in {"moved", "restored", "purged"} /\ UNCHANGED done /\ Raises(1)
  /\ UNCHANGED <<command, opened, output, presses, asides>>

\* and is judged after the report
Requires ==
  /\ At_("require")
  /\ IF What \in done THEN Onward ELSE Raises(1)
  /\ UNCHANGED <<command, opened, output, done, presses, asides>>

\* what follows a scan that did not end well
AfterScan(code) ==
  IF command.name = "scan" THEN Leaves_(Given(command.options, "json", <<Do("document")>>), code)
  ELSE Raises(1)

Scans ==
  /\ At_("scan")
  /\ Onward \/ AfterScan(1)
  /\ UNCHANGED <<command, opened, output, done, presses, asides>>

Targets_ ==
  /\ At_("targets")
  /\ \/ Onward /\ UNCHANGED asides
     \/ Leaves_(<<Told(command.options)>>, 0) /\ asides' = asides \cup {"no targets"}
  /\ UNCHANGED <<command, opened, output, done, presses>>

Says ==
  /\ \E kind \in {"say", "document", "prompt"} :
       At_(kind) /\ output' = Append(output, kind)
  /\ Onward
  /\ UNCHANGED <<command, opened, done, presses, asides>>

Asks ==
  /\ At_("ask")
  /\ \/ Onward /\ UNCHANGED asides
     \/ Leaves_(<<>>, 0) /\ asides' = asides \cup {"declined"}
  /\ UNCHANGED <<command, opened, output, done, presses>>

\* a comparison that is not comparable; an alert, or only a suppressed one
Verdict ==
  /\ At_("verdict")
  /\ Onward \/ Raises(2) \/ (command.name = "alerts check" /\ Raises(3))
  /\ UNCHANGED <<command, opened, output, done, presses, asides>>

\* the finally block: the host first, then the repository
BodyEnds ==
  /\ stage = "body" /\ steps = <<>>
  /\ stage' = "finally"
  /\ UNCHANGED <<command, steps, exitStatus, opened, output, done, presses, asides>>
ClosesUp ==
  /\ stage = "finally"
  /\ \/ "host" \in opened /\ opened' = opened \ {"host"} /\ UNCHANGED stage
     \/ "host" \notin opened /\ opened' = {} /\ stage' = "over"
  /\ UNCHANGED <<command, steps, exitStatus, output, done, presses, asides>>

(* Ctrl-C.  A scan ends it itself and is a cancelled run; click ends a      *)
(* prompt; the screen reads it as a key; everywhere else it unwinds to      *)
(* _DiskTideGroup.invoke.                                                   *)
Interrupt_ ==
  /\ presses < MaxPresses /\ presses' = presses + 1
  /\ \/ /\ At_("scan") /\ AfterScan(130)
        /\ asides' = asides \cup {"scan cancelled"} /\ UNCHANGED opened
     \/ /\ At_("rounds") /\ UNCHANGED <<steps, stage, exitStatus, opened>>
        /\ asides' = asides \cup {"scan cancelled"}
     \/ /\ At_("ask") \/ At_("prompt")
        /\ Raises(1) /\ UNCHANGED opened
        /\ asides' = asides \cup {"prompt aborted"}
     \/ /\ stage = "body" /\ steps # <<>>
        /\ steps[1].kind \notin {"scan", "ask", "prompt", "screen", "usage early"}
        /\ Raises(130) /\ UNCHANGED <<opened, asides>>
     \/ /\ stage = "finally" \/ At_("usage early")
        /\ stage' = "over" /\ exitStatus' = 130 /\ steps' = <<>>
        /\ asides' = asides \cup {"left open"} /\ UNCHANGED opened
  /\ UNCHANGED <<command, output, done>>

LineNext ==
  \/ Checks \/ RefusedEarly \/ Opens \/ Writes \/ Tries \/ Requires \/ Scans
  \/ Targets_ \/ Says \/ Asks \/ Verdict \/ BodyEnds \/ ClosesUp \/ Interrupt_

-----------------------------------------------------------------------------
Wanted ==
  CASE command.name = "scan" /\ Has("snapshot")       -> {"snapshot"}
    [] command.name = "monitor add" /\ Has("capture") -> {"monitor", "snapshot"}
    [] command.name = "monitor retention" /\ Has("apply") -> {"monitor"}
    [] command.name \in {"monitor add", "monitor edit", "monitor state", "monitor pin",
                         "monitor remove"} -> {"monitor"}
    [] command.name \in {"alerts add", "alerts edit", "alerts state", "alerts remove"} -> {"rule"}
    [] command.name = "cleanup plan" /\ ~Has("stored") -> {"plan"}
    [] command.name = "cleanup undo"                  -> {"restored"}
    [] command.name = "cleanup purge"                 -> {"purged"}
    [] command.name = "cleanup rules state"           -> {"config"}
    [] command.name = "cleanup quarantine rebuild"    -> {"ledger"}
    [] OTHER -> {}

\* A command that ends with 0 did what it was asked for, unless it was told
\* not to or there was nothing to do; a usage error has changed nothing; and
\* 130 is Ctrl-C and Ctrl-C is 130, but where a scan or a prompt took it
\* (_DiskTideGroup.invoke, _fail_if_nothing_happened, scan --snapshot).
StatusTellsTheTruth ==
  stage = "over" =>
    /\ exitStatus = 0 => Wanted \subseteq done \/ asides \cap {"declined", "no targets"} # {}
    /\ exitStatus = 2 => done = {}
    /\ exitStatus = 130 => presses > 0
    /\ presses > 0 /\ exitStatus # 130 => asides \cap {"scan cancelled", "prompt aborted"} # {}

\* With --json, standard output is one document and nothing else, a prompt
\* apart, and there is one whenever the command ends with 0; and a command
\* that ends leaves nothing open unless it was interrupted while it closed.
OutputStandsAlone ==
  stage = "over" =>
    /\ Has("json") =>
         LET documents == {n \in DOMAIN output : output[n] = "document"} IN
         /\ \A n \in DOMAIN output : output[n] # "say"
         /\ Cardinality(documents) = 1 \/ (documents = {} /\ exitStatus # 0)
    /\ opened # {} => "left open" \in asides

CommandsAreHonest == StatusTellsTheTruth /\ OutputStandsAlone
=============================================================================
