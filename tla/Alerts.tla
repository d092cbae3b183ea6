------------------------------- MODULE Alerts -------------------------------
(***************************************************************************)
(* A rule about the size or the growth of one path, judged each time a run *)
(* of its monitor has saved a snapshot (services/alerts.py, from the run   *)
(* in services/monitor.py).  The baseline of a growth is a snapshot that   *)
(* retention, or somebody, may have deleted, and the rule may be edited,   *)
(* switched off or removed while it is being judged: a run lists the rules *)
(* first and looks at this one again before it stores what it found.       *)
(*                                                                         *)
(* At most one snapshot is taken and judged at an instant, so instants name *)
(* snapshots and events.                                                   *)
(***************************************************************************)
EXTENDS Naturals, Sequences, FiniteSets

CONSTANTS Measures,   \* what a scan may find at the rule's path
          Threshold,  \* of the rule
          Windows,    \* windows a rule may have; 0 is none
          Cooldowns,  \* cooldowns it may have; 0 is none
          MaxInstant, MaxEdits, MaxDeletions  \* bounds

ASSUME AlertAssumption ==
  /\ Measures \subseteq Nat /\ Threshold \in Nat \ {0}
  /\ Windows \subseteq Nat /\ Cooldowns \subseteq Nat

VARIABLES
  instant,  \* the present
  used,    \* how many edits and deletions there were
  rule,     \* the row of the rule
  series,   \* the monitor's snapshots
  judging,  \* the run under way
  alerts,   \* alert_events of the rule
  verdicts  \* history: for each judged snapshot, what was there to be seen

alertVars == <<instant, used, rule, series, judging, alerts, verdicts>>

Idle_ == [at |-> "idle"]
Rules == [kind : {"size", "growth"}, window : Windows, cooldown : Cooldowns,
          enabled : BOOLEAN, there : BOOLEAN]
Points == [value : Measures, partial : BOOLEAN]

AlertTypeOK ==
  /\ instant \in 0..MaxInstant
  /\ used \in [edits : 0..MaxEdits, deletions : 0..MaxDeletions]
  /\ rule \in Rules
  /\ DOMAIN series \subseteq 1..MaxInstant /\ \A i \in DOMAIN series : series[i] \in Points
  /\ judging.at \in {"idle", "saved", "found"}
  /\ \A n \in DOMAIN alerts :
       alerts[n] \in [told : BOOLEAN, partial : BOOLEAN, cooldown : Cooldowns \cup {0}]
  /\ \A i \in DOMAIN verdicts : verdicts[i] \in {"seen by all", "seen by some", "seen by none"}

\* what the bounds allow may be spent already
AlertInit ==
  /\ instant = 0
  /\ used \in [edits : 0..MaxEdits, deletions : 0..MaxDeletions]
  /\ \E kind \in {"size", "growth"}, w \in Windows, c \in Cooldowns :
       rule = [kind |-> kind, window |-> w, cooldown |-> c,
               enabled |-> TRUE, there |-> TRUE]
  /\ series = <<>> /\ judging = Idle_ /\ alerts = <<>> /\ verdicts = <<>>

-----------------------------------------------------------------------------
Newest(ids) == CHOOSE i \in ids : \A j \in ids : j <= i
NewestOr0(ids) == IF ids = {} THEN 0 ELSE Newest(ids)

\* the snapshots that are older than a window
Before_(i, window) == {j \in DOMAIN series \ {i} : j + window <= i}

\* mutant: the last snapshot there is, window or not
LastOne(i, window, previous) == NewestOr0(DOMAIN series \ {i})

\* _baseline_for_rule; 0 is none
Baseline(i, window, previous) ==
  IF window = 0 THEN previous ELSE NewestOr0(Before_(i, window))

Grown(i, j) == series[i].value >= series[j].value + Threshold

\* _evaluate_rule
Triggers(r, i, previous) ==
  IF r.kind = "size" THEN series[i].value >= Threshold
  ELSE LET j == Baseline(i, r.window, previous)
       IN  j \in DOMAIN series /\ Grown(i, j)

\* history: what the snapshots that could be compared with say
Verdict(r, i, previous) ==
  LET others == IF r.window = 0 THEN {previous} \cap DOMAIN series
                ELSE Before_(i, r.window)
      seen == {j \in others : Grown(i, j)}
  IN  IF r.kind = "size"
      THEN IF series[i].value >= Threshold THEN "seen by all" ELSE "seen by none"
      ELSE IF seen = {} THEN "seen by none"
      ELSE IF seen = others THEN "seen by all" ELSE "seen by some"

-----------------------------------------------------------------------------
\* _run_once saves a snapshot; the one before it was looked up first
RunSaves(value, partial) ==
  /\ judging = Idle_ /\ instant < MaxInstant
  /\ \E now \in instant + 1 .. MaxInstant :
       /\ instant' = now
       /\ series' = [i \in DOMAIN series \cup {now} |->
                       IF i = now THEN [value |-> value, partial |-> partial] ELSE series[i]]
  /\ judging' = [at |-> "saved", previous |-> NewestOr0(DOMAIN series)]
  /\ UNCHANGED <<used, rule, alerts, verdicts>>

\* evaluate_monitor, up to the event; a rule that is off is not looked at, and
\* an error is noted with the run, which goes on
RunJudges(fails) ==
  /\ judging.at = "saved"
  /\ LET looks == rule.there /\ rule.enabled /\ ~fails
         verdict == IF looks THEN Verdict(rule, instant, judging.previous)
                    ELSE "seen by some"
     IN  /\ verdicts' = [i \in DOMAIN verdicts \cup {instant} |->
                           IF i = instant THEN verdict ELSE verdicts[i]]
         /\ judging' = IF looks /\ Triggers(rule, instant, judging.previous)
                       THEN [at |-> "found"] ELSE Idle_
  /\ UNCHANGED <<instant, used, rule, series, alerts>>

\* mutant: an event that was not announced is one to wait for, too
LatestStored == DOMAIN alerts

\* latest_alert_event: of those that were announced
LatestTold == {i \in DOMAIN alerts : alerts[i].told}

\* _apply_confidence_and_cooldown; the partial comes before the cooldown
Cooling(cooldown) ==
  cooldown > 0 /\ LatestTold # {} /\ instant < Newest(LatestTold) + cooldown

RunAlerts ==
  /\ judging.at = "found"
  /\ LET cooldown == IF rule.there THEN rule.cooldown ELSE 0
         partial == series[instant].partial
         event == [told |-> ~partial /\ ~Cooling(cooldown), partial |-> partial,
                   cooldown |-> cooldown]
     IN  alerts' = [i \in DOMAIN alerts \cup {instant} |->
                      IF i = instant THEN event ELSE alerts[i]]
  /\ judging' = Idle_
  /\ UNCHANGED <<instant, used, rule, series, verdicts>>

-----------------------------------------------------------------------------
\* delete_retention_snapshots, which never takes the newest
Deleted(i) ==
  /\ i # Newest(DOMAIN series) /\ used.deletions < MaxDeletions
  /\ used' = [used EXCEPT !.deletions = @ + 1]
  /\ series' = [j \in DOMAIN series \ {i} |-> series[j]]
  /\ UNCHANGED <<instant, rule, judging, alerts, verdicts>>

\* update_alert_rule, set_alert_rule_enabled and delete_alert_rule
EditRule ==
  /\ used.edits < MaxEdits /\ rule.there
  /\ used' = [used EXCEPT !.edits = @ + 1]
  /\ \E w \in Windows, c \in Cooldowns, enabled, there \in BOOLEAN :
       rule' = [rule EXCEPT !.window = w, !.cooldown = c,
                            !.enabled = enabled /\ there, !.there = there]
  /\ UNCHANGED <<instant, series, judging, alerts, verdicts>>

AlertNext ==
  \/ \E value \in Measures, partial \in BOOLEAN : RunSaves(value, partial)
  \/ \E fails \in BOOLEAN : RunJudges(fails)
  \/ RunAlerts
  \/ \E i \in DOMAIN series : Deleted(i)
  \/ EditRule

-----------------------------------------------------------------------------
(* Properties.                                                             *)

(* Two announcements are a cooldown apart, and what is silenced is silenced *)
(* by a real announcement, less than a cooldown ago: what was held back     *)
(* itself, for a partial snapshot or for the cooldown, silences nothing.    *)
Spaced ==
  \A n \in DOMAIN alerts :
    LET near == {m \in DOMAIN alerts : alerts[m].told /\ m < n /\ n < m + alerts[n].cooldown}
    IN  alerts[n].told <=> near = {} /\ ~alerts[n].partial

(* Whatever retention has left, growth that shows against every snapshot of *)
(* before the window is stored as an event, and an event shows in one.      *)
Noticed ==
  \A i \in DOMAIN verdicts :
    LET stored == i \in DOMAIN alerts \/ (judging.at = "found" /\ i = instant)
    IN  /\ verdicts[i] = "seen by all" => stored
        /\ verdicts[i] = "seen by none" => ~stored

(* An alert is raised for what the kept snapshots show, and announced once  *)
(* in a cooldown (services/alerts.py:381).                                   *)
AlertsAreHonest == Spaced /\ Noticed
=============================================================================
