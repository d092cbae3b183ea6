------------------------------ MODULE Settings ------------------------------
(***************************************************************************)
(* The configuration file and everybody who has a copy of it (config.py,   *)
(* app.py, screens/settings.py, __main__.py).  A process loads the file    *)
(* once, changes its copy, and writes the whole of it back: on quitting,   *)
(* on leaving Settings, when a path is remembered, when a key or a command *)
(* changes one setting.  Writing empties the file first.                   *)
(*                                                                         *)
(* Two settings stand for all: "strict", of which a value of the wrong     *)
(* type is refused (workers, depths, switches), and "lenient", of which a  *)
(* strange value reads as the default (theme, ring shape, event mode).     *)
(***************************************************************************)
EXTENDS Naturals, FiniteSets

CONSTANTS
  Users,       \* processes
  HostOf,      \* the machine each runs on
  Spots,       \* directories
  MaxActs,     \* bounds: what people do in a session, launches, crashes or
  MaxLaunches, \* full disks, edits by hand
  MaxSpoils,
  MaxByHand

ASSUME SettingAssumption ==
  /\ "nobody" \notin Users /\ "none" \notin Spots
  /\ \A u \in Users : HostOf[u] # "_default"

VARIABLES
  file,     \* what is on disk
  held,     \* what each process has loaded and changed; "none" if it is not running
  writing,  \* who has emptied the file and not yet written it
  wanted,   \* history: the value last chosen on purpose and saved
  visited,  \* history: what was explored on each machine
  lost,     \* history: settings overwritten by a copy older than they are
  spare     \* how much of each bound is left

settingVars == <<file, held, writing, wanted, visited, lost, spare>>

Keys == {"strict", "lenient"}
Hosts_ == {HostOf[u] : u \in Users}
Slots_ == Hosts_ \cup {"_default"}
\* "default" is a key that is not written
Meant == {"default", "chosen"}
Raw == Meant \cup {"strange", "wrong"}
NoPaths == [saved |-> "none", last |-> "none"]

Blank == [of     |-> [k \in Keys |-> "default"],
          aware  |-> TRUE,
          legacy |-> "none",
          paths  |-> [s \in {} |-> NoPaths]]

\* an empty file is a file with nothing set
Contents(c, empty) == [config |-> c, empty |-> empty]
Emptied == Contents(Blank, TRUE)

-----------------------------------------------------------------------------
(* Reading and writing the file. *)

Refused(f) == f.config.of["strict"] = "wrong"

LoadConfig(f) ==
  [f.config EXCEPT !.of = [k \in Keys |->
     IF f.config.of[k] \in Meant THEN f.config.of[k] ELSE "default"]]

\* mutant: the option of this launch goes into the copy
CopyOverridden(f, option) ==
  [on |-> TRUE,
   config |-> IF option = "none" THEN LoadConfig(f)
              ELSE [LoadConfig(f) EXCEPT !.of["strict"] = option],
   mine |-> {}, stale |-> IF f.empty THEN Keys ELSE {}, option |-> option, leaving |-> FALSE]
\* of a copy, "mine" has been chosen and not yet saved, and "stale" has been
\* saved by others since it was loaded; an option of this launch is kept
\* beside it
Copy(f, option) ==
  [on |-> TRUE, config |-> LoadConfig(f), mine |-> {},
   stale |-> IF f.empty THEN Keys ELSE {}, option |-> option, leaving |-> FALSE]
Gone == [Copy(Emptied, "none") EXCEPT !.on = FALSE]
Staler(copies, keys) ==
  [u \in Users |-> IF copies[u].on THEN [copies[u] EXCEPT !.stale = @ \cup keys] ELSE copies[u]]
Spend(what) == spare[what] > 0 /\ spare' = [spare EXCEPT ![what] = @ - 1]

PathKey(u, c) == IF c.aware THEN HostOf[u] ELSE "_default"
Entry(u, c) == IF PathKey(u, c) \in DOMAIN c.paths THEN c.paths[PathKey(u, c)] ELSE NoPaths

\* the default of before there were hosts is everybody's who has none
EffectivePaths(u, c) ==
  LET e == Entry(u, c) IN
  IF e.saved = "none" THEN [e EXCEPT !.saved = c.legacy] ELSE e

SetEffectivePaths(u, c, p) ==
  LET key == PathKey(u, c) IN
  [c EXCEPT !.paths = [s \in DOMAIN c.paths \cup {key} |-> IF s = key THEN p ELSE c.paths[s]],
            !.legacy = p.saved]

Remembering(u, c, place, asDefault) ==
  LET e == EffectivePaths(u, c)
      p == [saved |-> IF asDefault THEN place ELSE e.saved, last |-> place]
  IN IF p = e THEN c ELSE SetEffectivePaths(u, c, p)

-----------------------------------------------------------------------------
SettingTypeOK ==
  /\ file.config.of \in [Keys -> Raw]
  /\ \A u \in Users : held[u].config.of \in [Keys -> Meant]
  /\ writing \in Users \cup {"nobody"}
  /\ wanted \in [Keys -> Raw]
  /\ lost \subseteq Keys

SettingInit ==
  /\ file = Contents(Blank, FALSE) /\ held = [u \in Users |-> Gone] /\ writing = "nobody"
  /\ wanted = [k \in Keys |-> "default"]
  /\ visited = [h \in Hosts_ |-> {}] /\ lost = {}
  /\ spare \in [launches : {MaxLaunches}, acts : 0..MaxActs,
                spoils : 0..MaxSpoils, byHand : 0..MaxByHand]

Running(u) == held[u].on /\ ~held[u].leaving /\ writing # u

(* Writing back.  The file is opened, which empties it, and written; a     *)
(* full disk or a crash in between leaves it empty.                        *)
SaveConfig(u, copy) ==
  /\ writing = "nobody" /\ writing' = u
  /\ file' = Emptied
  /\ lost' = lost \cup (copy.stale \ copy.mine)
  /\ held' = [held EXCEPT ![u] = copy]

Leave(copies, u) == IF copies[u].leaving THEN [copies EXCEPT ![u] = Gone]
                    ELSE [copies EXCEPT ![u].mine = {}]

Written(u) ==
  /\ writing = u /\ writing' = "nobody"
  /\ LET mine == held[u].mine IN
     /\ file' = Contents(held[u].config, FALSE)
     /\ wanted' = [k \in Keys |-> IF k \in mine THEN held[u].config.of[k] ELSE wanted[k]]
     /\ lost' = lost \ mine
     /\ held' = Leave([Staler(held, mine) EXCEPT ![u] = held[u]], u)
  /\ UNCHANGED <<visited, spare>>

\* OSError: the session goes on with what it has
DiskFull(u) ==
  /\ writing = u /\ writing' = "nobody" /\ Spend("spoils")
  /\ lost' = Keys
  /\ held' = IF held[u].leaving THEN [held EXCEPT ![u] = Gone] ELSE held
  /\ UNCHANGED <<file, wanted, visited>>

Killed(u) ==
  /\ held[u].on /\ Spend("spoils")
  /\ held' = [held EXCEPT ![u] = Gone]
  /\ IF writing = u THEN writing' = "nobody" /\ lost' = Keys ELSE UNCHANGED <<writing, lost>>
  /\ UNCHANGED <<file, wanted, visited>>

(* disktide, with or without a directory and an option for this launch. *)
Launch(u) ==
  /\ ~held[u].on /\ Spend("launches")
  /\ ~Refused(file)
  /\ \E option \in {"none", "chosen"} : held' = [held EXCEPT ![u] = Copy(file, option)]
  /\ UNCHANGED <<file, writing, wanted, visited, lost>>

\* a path on the command line, or on the welcome screen, where it may be made
\* the default
RememberLastVisited(u) ==
  /\ Running(u) /\ Spend("acts")
  /\ \E place \in Spots, asDefault \in BOOLEAN :
       LET c == Remembering(u, held[u].config, place, asDefault) IN
       /\ visited' = [visited EXCEPT ![HostOf[u]] = @ \cup {place}]
       /\ IF c = held[u].config THEN UNCHANGED <<writing, file, lost, held>>
          ELSE SaveConfig(u, [held[u] EXCEPT !.config = c])
  /\ UNCHANGED wanted

(* Settings.  What is chosen is saved with everything else when the screen *)
(* is left, or with the next save.                                         *)
OnChange(u) ==
  /\ Running(u) /\ Spend("acts")
  /\ \/ \E k \in Keys : \E v \in Meant \ {held[u].config.of[k]} :
          held' = [held EXCEPT ![u].config.of[k] = v, ![u].mine = @ \cup {k}]
     \/ held' = [held EXCEPT ![u].config.aware = ~@]
  /\ UNCHANGED <<file, writing, wanted, visited, lost>>

DismissSettings(u) ==
  /\ Running(u) /\ held[u].mine # {} /\ SaveConfig(u, held[u])
  /\ UNCHANGED <<wanted, visited, spare>>

\* q, confirmed
PerformQuit(u) ==
  /\ Running(u) /\ SaveConfig(u, [held[u] EXCEPT !.leaving = TRUE])
  /\ UNCHANGED <<wanted, visited, spare>>

(* cleanup rules enable and disable: load, change one setting, save. *)
ToggleRulePack(u) ==
  /\ ~held[u].on /\ Spend("acts")
  /\ ~Refused(file)
  /\ LET v == IF LoadConfig(file).of["lenient"] = "chosen" THEN "default" ELSE "chosen" IN
     SaveConfig(u, [Copy(file, "none") EXCEPT !.config.of["lenient"] = v,
                                              !.mine = {"lenient"}, !.leaving = TRUE])
  /\ UNCHANGED <<wanted, visited>>

\* an editor, or a newer release
ByHand ==
  /\ writing = "nobody" /\ Spend("byHand")
  /\ \E k \in Keys, v \in {"strange", "wrong"} :
       /\ file' = Contents([file.config EXCEPT !.of[k] = v], FALSE)
       /\ wanted' = [wanted EXCEPT ![k] = v]
       /\ lost' = lost \ {k}
       /\ held' = Staler(held, {k})
  /\ UNCHANGED <<writing, visited>>

SettingNext ==
  \/ \E u \in Users :
       Written(u) \/ DiskFull(u) \/ Killed(u) \/ Launch(u) \/ RememberLastVisited(u)
       \/ OnChange(u) \/ DismissSettings(u) \/ PerformQuit(u) \/ ToggleRulePack(u)
  \/ ByHand

-----------------------------------------------------------------------------
\* What was last chosen on purpose is what the file says, unless a copy
\* loaded before it was written over it, or the disk was full or the process
\* killed while the file was empty; a strange value of a newer release
\* becomes the default, one of the wrong type is left for its owner to mend.
\* An option of one launch is never what the file says (ScanOverrides), and
\* what a session has loaded is always something this release can show
\* (load_config, VIZ_CHOICES).
ChoicesSurvive ==
  /\ writing = "nobody" =>
       \A k \in Keys \ lost :
         \/ file.config.of[k] = wanted[k]
         \/ /\ wanted[k] \in {"strange", "wrong"} /\ file.config.of[k] = "default"
            /\ k = "strict" => wanted[k] = "strange"
  /\ \A u \in Users : held[u].config.of \in [Keys -> Meant]

\* With paths by host, the directory offered as last visited was explored on
\* this machine (get_effective_paths, set_effective_paths).
LastVisitedHere ==
  \A u \in Users : held[u].on /\ held[u].config.aware =>
    EffectivePaths(u, held[u].config).last \in visited[HostOf[u]] \cup {"none"}

SettingsAreKept == ChoicesSurvive /\ LastVisitedHere
=============================================================================
