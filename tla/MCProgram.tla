----------------------------- MODULE MCProgram -----------------------------
(* The program around its records, part by part, as in MCRecords: in an      *)
(* initial state one part is awake, and only that part moves.                *)
EXTENDS GcPause, ScanEvents, CommandLine, Configuration, Application,
        Pictures, History, TLC

VARIABLE part \* the part that is awake

MCHosts == [u \in {"u", "v"} |-> IF u = "u" THEN "here" ELSE "there"]

\* two files in the root, two in a directory of it
MCFiles == [d \in {"/", "d"} |-> IF d = "/" THEN {"e", "z"} ELSE {"x", "y"}]
MCMayMeasure == [f \in {"e", "x", "y", "z"} |->
                   CASE f = "x" -> {-1, 0, 2}
                     [] f = "y" -> {-1, 1}
                     [] OTHER   -> {1}]
MCByName == <<"/", "d", "x", "y", "z", "e">>

\* a place in the queue and a frame, or two reports, which may merge
EventScene ==
  <<MaxPositions - positions, MaxFrames - frames, MaxReports - reports>>
     \in IF part = "events" THEN {<<1, 1, 0>>, <<0, 0, 2>>}
        ELSE {<<0, 0, 0>>}

\* two acts and a failure of the disk, or one and an edit by hand
SettingScene ==
  <<spare.acts, spare.spoils, spare.byHand>>
     \in IF part = "settings" THEN {<<2, 1, 0>>, <<1, 0, 1>>} ELSE {<<0, 0, 0>>}

\* three looks of fitting snapshots, or two and a deletion; or, with one
\* snapshot that does not fit or a clock that was set back, one look and a
\* deletion or one comparison and a deletion
HistoryScene ==
  LET plain == (\A i \in Ids : kinds[i] = "plain") /\ \A i \in Ids : taken[i] = i IN
  /\ Cardinality({i \in Ids : kinds[i] # "plain"}) <= 1
  /\ <<MaxLooksBack - upset.looks, MaxCompared - upset.compared, MaxDeleted - upset.deleted>>
       \in {<<1, 0, 1>>, <<0, 1, 1>>} \cup (IF plain THEN {<<3, 0, 0>>, <<2, 0, 1>>} ELSE {})
  /\ part # "history" => plain /\ upset.compared = 0

ProgramInit ==
  /\ part \in {"gc", "events", "line", "settings", "form", "app",
               "pictures", "history"}
  /\ Init /\ (part # "gc" => initial.gcOn /\ ~initial.frozen)
  /\ EventsInit /\ EventScene
  /\ LineInit /\ (part # "line" => command = [name |-> "open", options |-> {}, writable |-> TRUE])
  /\ SettingInit /\ SettingScene
  /\ FormInit /\ (part # "form" => chosen = Automatic)
  /\ AppInit /\ (part # "app" => cleanup /\ installed)
  /\ PictureInit
  /\ HistoryInit /\ HistoryScene

ProgramNext ==
  /\ UNCHANGED part
  /\ \/ part = "gc" /\ Next
        /\ UNCHANGED <<eventVars, lineVars, settingVars, formVars, appVars,
                       points, historyVars>>
     \/ part = "events" /\ EventsNext
        /\ UNCHANGED <<vars, lineVars, settingVars, formVars, appVars,
                       points, historyVars>>
     \/ part = "line" /\ LineNext
        /\ UNCHANGED <<vars, eventVars, settingVars, formVars, appVars,
                       points, historyVars>>
     \/ part = "settings" /\ SettingNext
        /\ UNCHANGED <<vars, eventVars, lineVars, formVars, appVars, points,
                       historyVars>>
     \/ part = "form" /\ FormNext
        /\ UNCHANGED <<vars, eventVars, lineVars, settingVars, appVars,
                       points, historyVars>>
     \/ part = "app" /\ AppNext
        /\ UNCHANGED <<vars, eventVars, lineVars, settingVars, formVars,
                       points, historyVars>>
     \/ part = "pictures" /\ PictureNext
        /\ UNCHANGED <<vars, eventVars, lineVars, settingVars, formVars,
                       appVars, historyVars>>
     \/ part = "history" /\ HistoryNext
        /\ UNCHANGED <<vars, eventVars, lineVars, settingVars, formVars,
                       appVars, points>>

\* The threads of a run and of its dispatcher are scheduled.
ProgramFairness ==
  /\ WF_eventVars(part = "events" /\ RunStep)
  /\ WF_eventVars(part = "events" /\ DispatchStep)

ProgramSpec ==
  ProgramInit /\ [][ProgramNext]_
  <<part, vars, eventVars, lineVars, settingVars, formVars, appVars, points,
    historyVars>>
  /\ ProgramFairness

-----------------------------------------------------------------------------
\* What is drawn of a monitor's history is whole, true and of snapshots that
\* can be compared, and is drawn from rows that are still those of the store
\* (storage/database.py, services/visualization.py, domain/visualization.py).
PicturesAreHonest == PicturesAreTrue /\ ViewsAreHonest
=============================================================================
