---------------------------- MODULE MonitorProofs ----------------------------
(***************************************************************************)
(* Proofs about what is recorded of a monitor: that a revision of its      *)
(* definition stands for one scope, however many clients edit it; that an  *)
(* alert is raised for what the kept snapshots show and announced once in  *)
(* a cooldown; and that a snapshot reads back as it was saved, whatever    *)
(* becomes of the others in its chain.                                     *)
(***************************************************************************)
EXTENDS MonitorDefinitions, Alerts, SnapshotStore, WellFoundedInduction, TLAPS

-----------------------------------------------------------------------------
(* MonitorDefinitions.  A revision is taken by one definition only: what   *)
(* is being written either is the row as far as the run is concerned, or   *)
(* has the next revision, or will lose the race.                           *)

DefinitionSpec == DefinitionInit /\ [][DefinitionNext]_definitionVars

InForce == [revision |-> row_.revision, scope |-> row_.scope]
Standing == measured \cup {InForce} \cup
              (IF runner = NoRunner THEN {} ELSE {runner.run})

OneScope ==
  /\ \A s, t \in Standing : s.revision = t.revision => s.scope = t.scope
  /\ \A s \in Standing : s.revision <= row_.revision

WritesFit ==
  \A c \in Editors : desk[c].at = "writing" =>
    /\ desk[c].expected \in Nat /\ desk[c].expected <= row_.revision
    /\ desk[c].expected = row_.revision =>
         \/ desk[c].item.revision = row_.revision /\ desk[c].item.scope = row_.scope
         \/ desk[c].item.revision = row_.revision + 1

Desks ==
  /\ row_ \in DefinitionRows /\ measured \subseteq Scoped
  /\ runner = NoRunner \/ runner.run \in Scoped
  /\ DOMAIN desk = Editors /\ desk = [c \in Editors |-> desk[c]]
  /\ \A c \in Editors :
       /\ desk[c].board \in DefinitionRows
       /\ desk[c].at \in {"editing", "writing"} => desk[c].item \in DefinitionRows
       /\ desk[c].at = "stating" => desk[c].desired \in States_

DefinitionInv == Desks /\ OneScope /\ WritesFit

LEMMA VersionsAreCounted == 1 \in Versions /\ Versions \subseteq Nat
BY DefinitionAssumption DEF Versions

LEMMA DefinitionStarts == DefinitionInit => DefinitionInv
<1> SUFFICES ASSUME DefinitionInit PROVE DefinitionInv
  OBVIOUS
<1>1. PICK s \in Scopes : row_ = [revision |-> 1, scope |-> s, desired |-> "enabled"]
  BY DEF DefinitionInit
<1>2. row_ \in DefinitionRows
  BY <1>1, VersionsAreCounted DEF DefinitionRows, States_
<1>3. Desks
  BY <1>2 DEF DefinitionInit, Desks
<1>4. Standing = {InForce} /\ InForce.revision = row_.revision /\ row_.revision = 1
  BY <1>1 DEF DefinitionInit, Standing, InForce
<1> QED BY <1>3, <1>4 DEF DefinitionInv, OneScope, WritesFit, DefinitionInit

\* A step that leaves the row's scope and revision and no new snapshot.
LEMMA DefinitionKept ==
  ASSUME OneScope, InForce' = InForce, row_'.revision = row_.revision, Standing' \subseteq Standing
  PROVE  OneScope'
BY DEF OneScope

LEMMA ClientMoves ==
  ASSUME Desks, NEW c \in Editors, NEW state, ClientIs(c, state)
  PROVE  /\ desk' = [d \in Editors |-> IF d = c THEN state ELSE desk[d]]
         /\ desk'[c] = state
         /\ \A d \in Editors : d # c => desk'[d] = desk[d]
BY DEF Desks, ClientIs

LEMMA Standings ==
  ASSUME Desks PROVE Standing \subseteq Scoped /\ InForce \in Scoped
BY DEF Desks, Standing, InForce, Scoped, DefinitionRows

LEMMA DefinitionStep == DefinitionInv /\ [DefinitionNext]_definitionVars => DefinitionInv'
<1> SUFFICES ASSUME DefinitionInv, [DefinitionNext]_definitionVars PROVE DefinitionInv'
  OBVIOUS
<1> USE DEF DefinitionInv
<1>0. /\ row_ \in DefinitionRows /\ row_.revision \in Nat
      /\ row_.revision \in Versions /\ row_.scope \in Scopes /\ row_.desired \in States_
  BY VersionsAreCounted DEF Desks, DefinitionRows
<1>1. CASE UNCHANGED definitionVars
  BY <1>1 DEF definitionVars, Desks, OneScope, WritesFit, Standing, InForce
<1>2. ASSUME NEW c \in Editors, Look(c) PROVE DefinitionInv'
  <2>1. /\ desk' = [desk EXCEPT ![c].board = row_]
        /\ UNCHANGED <<row_, measured, runner>>
    BY <1>2 DEF Look
  <2>2. OneScope'
    BY <2>1 DEF OneScope, Standing, InForce
  <2>3. \A d \in Editors :
          /\ desk'[d].board \in DefinitionRows
          /\ desk'[d].at = desk[d].at
          /\ desk'[d].at \in {"editing", "writing"} => desk'[d].item = desk[d].item
          /\ desk'[d].at = "writing" => desk'[d].expected = desk[d].expected
          /\ desk'[d].at = "stating" => desk'[d].desired = desk[d].desired
    BY <1>0, <2>1 DEF Desks
  <2> QED BY <2>1, <2>2, <2>3 DEF Desks, WritesFit
<1>3. ASSUME NEW c \in Editors, NEW scope \in Scopes, OpenEditor(c, scope)
      PROVE  DefinitionInv'
  <2> DEFINE state == [at |-> "editing", board |-> desk[c].board,
                       item |-> [desk[c].board EXCEPT !.scope = scope]]
  <2>1. ClientIs(c, state) /\ UNCHANGED <<row_, measured, runner>>
    BY <1>3 DEF OpenEditor
  <2>2. state.at = "editing" /\ state.board \in DefinitionRows /\ state.item \in DefinitionRows
    BY DEF Desks, DefinitionRows
  <2> HIDE DEF state
  <2>3. OneScope'
    BY <2>1 DEF OneScope, Standing, InForce
  <2> QED BY <2>1, <2>2, <2>3, ClientMoves DEF Desks, WritesFit
<1>4. ASSUME NEW c \in Editors, CheckRevision(c) PROVE DefinitionInv'
  <2> DEFINE item == desk[c].item
             state == [at |-> "writing", board |-> desk[c].board,
                       expected |-> desk[c].board.revision,
                       item |-> [item EXCEPT !.revision = NextRevision(item)]]
  <2>1. /\ desk[c].at = "editing" /\ UNCHANGED <<row_, measured, runner>>
        /\ \/ ClientIs(c, AtDesk(c))
           \/ /\ row_.revision = desk[c].board.revision
              /\ NextRevision(item) \in Versions /\ ClientIs(c, state)
    BY <1>4 DEF CheckRevision
  <2>2. OneScope'
    BY <2>1 DEF OneScope, Standing, InForce
  <2>3. CASE ClientIs(c, AtDesk(c))
    <3>1. AtDesk(c).at = "idle" /\ AtDesk(c).board \in DefinitionRows
      BY DEF AtDesk, Desks
    <3> QED BY <2>1, <2>2, <2>3, <3>1, ClientMoves DEF Desks, WritesFit
  <2>4. CASE /\ row_.revision = desk[c].board.revision
             /\ NextRevision(item) \in Versions /\ ClientIs(c, state)
    <3>1. item \in DefinitionRows /\ desk[c].board \in DefinitionRows
      BY <2>1 DEF Desks
    <3>2. /\ state.at = "writing" /\ state.board \in DefinitionRows
          /\ state.item \in DefinitionRows /\ state.expected = row_.revision
          /\ state.item.revision = NextRevision(item) /\ state.item.scope = item.scope
      BY <2>4, <3>1 DEF DefinitionRows
    <3>3. \/ state.item.revision = row_.revision /\ state.item.scope = row_.scope
          \/ state.item.revision = row_.revision + 1
      BY <3>2 DEF NextRevision
    <3> HIDE DEF state
    <3>4. Desks'
      BY <2>1, <2>4, <3>2, ClientMoves DEF Desks
    <3>5. WritesFit'
      BY <1>0, <2>1, <2>4, <3>2, <3>3, ClientMoves DEF WritesFit
    <3> QED BY <2>2, <3>4, <3>5
  <2> QED BY <2>1, <2>3, <2>4
<1>5. ASSUME NEW c \in Editors, WriteRow(c) PROVE DefinitionInv'
  <2> DEFINE item == desk[c].item
  <2>1. /\ desk[c].at = "writing" /\ ClientIs(c, AtDesk(c)) /\ UNCHANGED <<measured, runner>>
        /\ row_' = IF StillExpected(c) THEN item ELSE row_
    BY <1>5 DEF WriteRow
  <2>2. item \in DefinitionRows /\ row_' \in DefinitionRows
    BY <1>0, <2>1 DEF Desks
  <2>3. AtDesk(c).at = "idle" /\ AtDesk(c).board \in DefinitionRows
    BY DEF AtDesk, Desks
  <2>4. Desks'
    BY <2>1, <2>2, <2>3, ClientMoves DEF Desks
  <2>5. \/ InForce' = InForce /\ row_'.revision = row_.revision
        \/ row_'.revision = row_.revision + 1
    BY <2>1, <2>2 DEF WritesFit, StillExpected, InForce
  <2>6. OneScope'
    <3>1. CASE InForce' = InForce /\ row_'.revision = row_.revision
      BY <2>1, <3>1, DefinitionKept DEF Standing
    <3>2. CASE row_'.revision = row_.revision + 1
      <4>1. /\ Standing' \subseteq Standing \cup {InForce'}
            /\ InForce'.revision = row_.revision + 1
        BY <2>1, <3>2 DEF Standing, InForce
      <4>2. \A s \in Standing : s.revision \in Nat /\ s.revision <= row_.revision
        BY Standings, VersionsAreCounted DEF OneScope, Scoped
      <4> QED BY <1>0, <3>2, <4>1, <4>2 DEF OneScope
    <3> QED BY <2>5, <3>1, <3>2
  <2>7. WritesFit'
    <3> SUFFICES ASSUME NEW d \in Editors, desk'[d].at = "writing"
                 PROVE  /\ desk'[d].expected \in Nat /\ desk'[d].expected <= row_'.revision
                        /\ desk'[d].expected = row_'.revision =>
                             \/ desk'[d].item.revision = row_'.revision
                                  /\ desk'[d].item.scope = row_'.scope
                             \/ desk'[d].item.revision = row_'.revision + 1
      BY DEF WritesFit
    <3>1. d # c /\ desk'[d] = desk[d]
      BY <2>1, <2>3, ClientMoves
    <3>2. /\ desk[d].expected \in Nat /\ desk[d].expected <= row_.revision
          /\ desk[d].expected = row_.revision =>
               \/ desk[d].item.revision = row_.revision /\ desk[d].item.scope = row_.scope
               \/ desk[d].item.revision = row_.revision + 1
      BY <3>1 DEF WritesFit
    <3>3. CASE InForce' = InForce /\ row_'.revision = row_.revision
      BY <3>1, <3>2, <3>3 DEF InForce
    <3>4. CASE row_'.revision = row_.revision + 1
      BY <1>0, <3>1, <3>2, <3>4
    <3> QED BY <2>5, <3>3, <3>4
  <2> QED BY <2>4, <2>6, <2>7
<1>6. ASSUME NEW c \in Editors, NEW state,
             ClientIs(c, state), state.at \in {"stating", "silencing"},
             state.at = "stating" => state.desired \in States_,
             state.board = desk[c].board, UNCHANGED <<row_, measured, runner>>
      PROVE  DefinitionInv'
  <2>1. OneScope'
    BY <1>6 DEF OneScope, Standing, InForce
  <2> QED BY <1>6, <2>1, ClientMoves DEF Desks, WritesFit
<1>7. ASSUME NEW c \in Editors, NEW desired \in States_, BeginState(c, desired)
      PROVE  DefinitionInv'
  <2> DEFINE state == [at |-> "stating", board |-> desk[c].board, desired |-> desired]
  <2>1. ClientIs(c, state) /\ UNCHANGED <<row_, measured, runner>>
    BY <1>7 DEF BeginState
  <2> QED BY <1>6, <2>1
<1>8. ASSUME NEW c \in Editors, BeginArchive(c) \/ Silence(c) PROVE DefinitionInv'
  <2>1. CASE BeginArchive(c)
    <3> DEFINE state == [at |-> "silencing", board |-> desk[c].board]
    <3>1. ClientIs(c, state) /\ UNCHANGED <<row_, measured, runner>>
      BY <2>1 DEF BeginArchive
    <3> QED BY <1>6, <3>1
  <2>2. CASE Silence(c)
    <3> DEFINE state == [at |-> "stating", board |-> desk[c].board, desired |-> "archived"]
    <3>1. ClientIs(c, state) /\ UNCHANGED <<row_, measured, runner>>
      BY <2>2 DEF Silence
    <3> QED BY <1>6, <3>1 DEF States_
  <2> QED BY <1>8, <2>1, <2>2
<1>9. ASSUME NEW c \in Editors, SetDesired(c) PROVE DefinitionInv'
  <2>1. /\ ClientIs(c, AtDesk(c)) /\ UNCHANGED <<measured, runner>>
        /\ row_' = [row_ EXCEPT !.desired = desk[c].desired] /\ desk[c].desired \in States_
    BY <1>9 DEF SetDesired, Desks
  <2>2. /\ row_' \in DefinitionRows /\ InForce' = InForce
        /\ row_'.revision = row_.revision /\ row_'.scope = row_.scope
    BY <2>1 DEF Desks, DefinitionRows, InForce
  <2>3. AtDesk(c).at = "idle" /\ AtDesk(c).board \in DefinitionRows
    BY DEF AtDesk, Desks
  <2>4. OneScope'
    BY <2>1, <2>2, DefinitionKept DEF Standing
  <2>5. Desks'
    BY <2>1, <2>2, <2>3, ClientMoves DEF Desks
  <2>6. WritesFit'
    BY <2>1, <2>2, <2>3, ClientMoves DEF WritesFit
  <2> QED BY <2>4, <2>5, <2>6
<1>10. ASSUME NEW c \in Editors, EnableRules(c) PROVE DefinitionInv'
  BY <1>10 DEF EnableRules, Desks, OneScope, WritesFit, Standing, InForce
<1>11. CASE RunBegins \/ RunEnds
  <2>1. UNCHANGED <<row_, desk>>
    BY <1>11 DEF RunBegins, RunEnds
  <2>2. InForce' = InForce /\ InForce \in Scoped
    BY <2>1, Standings DEF InForce
  <2>3. /\ Standing' \subseteq Standing /\ measured' \subseteq Scoped
        /\ (runner' = NoRunner \/ runner'.run \in Scoped)
    <3>1. CASE RunBegins
      <4>1. runner'.run = InForce /\ runner = NoRunner /\ UNCHANGED measured
        BY <3>1 DEF RunBegins, InForce
      <4> QED BY <2>2, <4>1 DEF Standing, Desks
    <3>2. CASE RunEnds
      BY <2>2, <3>2 DEF RunEnds, Standing, Desks
    <3> QED BY <1>11, <3>1, <3>2
  <2>4. OneScope'
    BY <2>1, <2>2, <2>3, DefinitionKept
  <2> QED BY <2>1, <2>3, <2>4 DEF Desks, WritesFit
<1> QED BY <1>1, <1>2, <1>3, <1>4, <1>5, <1>7, <1>8, <1>9, <1>10, <1>11
        DEF DefinitionNext

\* However many clients edit a definition, and however stale what they edit:
\* two snapshots of one revision measured the same scope.
THEOREM RevisionsNameScopes == DefinitionSpec => []RevisionNamesScope
<1>1. DefinitionSpec => []DefinitionInv
  BY DefinitionStarts, DefinitionStep, PTL DEF DefinitionSpec
<1>2. DefinitionInv => RevisionNamesScope
  BY DEF DefinitionInv, OneScope, RevisionNamesScope, Standing, InForce
<1> QED BY <1>1, <1>2, PTL

-----------------------------------------------------------------------------
(* Alerts.  The instant that is judged is the last there was, and nothing  *)
(* was stored for it before.                                               *)

AlertSpec == AlertInit /\ [][AlertNext]_alertVars

\* A nonempty set of numbers up to n has a greatest one.
Less == {pair \in Nat \X Nat : pair[1] < pair[2]}

LEMMA LessIsWellFounded == IsWellFoundedOn(Less, Nat)
BY NatLessThanWellFounded, Zenon DEF OpToRel, Less

LEMMA NewestIsLast ==
  ASSUME NEW n \in Nat, NEW S \in SUBSET (1..n), S # {}
  PROVE  Newest(S) \in S /\ \A y \in S : y <= Newest(S)
<1> DEFINE T == {n - y : y \in S}
<1>1. T \subseteq Nat
  OBVIOUS
<1>2. T # {}
  OBVIOUS
<1> HIDE DEF T
<1>3. PICK m \in T : \A y \in T : ~ (<<y, m>> \in Less)
  BY <1>1, <1>2, LessIsWellFounded, WFMin
<1>4. \A y \in T : m <= y
  <2> TAKE y \in T
  <2>1. <<y, m>> \notin Less
    BY <1>3
  <2> QED BY <1>1, <2>1 DEF Less
<1>5. PICK x \in S : m = n - x
  BY DEF T
<1>6. \A y \in S : x >= y
  <2> TAKE y \in S
  <2>1. m <= n - y
    BY <1>4 DEF T
  <2> QED BY <2>1, <1>5
<1> QED BY <1>6 DEF Newest

LEMMA AlertNumbers ==
  /\ Threshold \in Nat /\ Windows \subseteq Nat /\ Cooldowns \subseteq Nat
BY AlertAssumption

Timely ==
  /\ instant \in Nat
  /\ DOMAIN series \subseteq 1..instant
  /\ DOMAIN alerts \subseteq 1..instant
  /\ DOMAIN verdicts \subseteq 1..instant
  /\ \A n \in DOMAIN alerts : alerts[n].cooldown \in Nat
  /\ rule \in Rules
  /\ judging.at \in {"saved", "found"} => instant >= 1 /\ instant \notin DOMAIN alerts
  /\ judging.at = "saved" => instant \notin DOMAIN verdicts

AlertInv == Timely /\ AlertsAreHonest

LEMMA AlertStarts == AlertInit => AlertInv
<1> SUFFICES ASSUME AlertInit PROVE AlertInv
  OBVIOUS
<1>1. DOMAIN <<>> = {}
  OBVIOUS
<1>2. DOMAIN series = {} /\ DOMAIN alerts = {} /\ DOMAIN verdicts = {}
  BY <1>1 DEF AlertInit
<1>3. rule \in Rules
  BY DEF AlertInit, Rules
<1>4. judging.at = "idle" /\ instant = 0
  BY DEF AlertInit, Idle_
<1> QED BY <1>2, <1>3, <1>4 DEF AlertInv, Timely, AlertsAreHonest, Spaced, Noticed

LEMMA NewestIn ==
  ASSUME instant \in Nat, NEW S, S \subseteq 1..instant
  PROVE  /\ S # {} => NewestOr0(S) \in S /\ \A j \in S : j <= NewestOr0(S)
         /\ S = {} => NewestOr0(S) = 0
BY NewestIsLast DEF NewestOr0

\* What is judged to show growth against every snapshot of before the window
\* triggers the rule, and what shows it against none does not.
LEMMA VerdictsTrigger ==
  ASSUME Timely, NEW previous
  PROVE  /\ Verdict(rule, instant, previous) = "seen by all" => Triggers(rule, instant, previous)
         /\ Verdict(rule, instant, previous) = "seen by none" => ~Triggers(rule, instant, previous)
<1>1. CASE rule.kind = "size"
  BY <1>1 DEF Verdict, Triggers
<1>2. CASE rule.kind # "size"
  <2> DEFINE j == Baseline(instant, rule.window, previous)
             others == IF rule.window = 0 THEN {previous} \cap DOMAIN series
                       ELSE Before_(instant, rule.window)
             seen == {k \in others : Grown(instant, k)}
  <2>1. others \subseteq DOMAIN series /\ Before_(instant, rule.window) \subseteq 1..instant
    BY DEF Before_, Timely
  <2>2. others # {} => j \in others
    BY <2>1, NewestIn DEF Baseline, Timely
  <2>3. j \in DOMAIN series => j \in others
    <3>1. 0 \notin DOMAIN series
      BY DEF Timely
    <3> QED BY <2>1, <3>1, NewestIn DEF Baseline, Timely
  <2>4. Triggers(rule, instant, previous) <=> j \in DOMAIN series /\ Grown(instant, j)
    BY <1>2 DEF Triggers
  <2>5. Verdict(rule, instant, previous) =
          IF seen = {} THEN "seen by none"
          ELSE IF seen = others THEN "seen by all" ELSE "seen by some"
    BY <1>2 DEF Verdict
  <2> HIDE DEF others, j
  <2>6. seen = others /\ others # {} => Triggers(rule, instant, previous)
    BY <2>1, <2>2, <2>4
  <2>7. seen = {} => ~Triggers(rule, instant, previous)
    BY <2>3, <2>4
  <2> QED BY <2>5, <2>6, <2>7
<1> QED BY <1>1, <1>2

\* Something silences this event exactly when an announcement is near.
LEMMA CoolingIsNear ==
  ASSUME Timely, instant \notin DOMAIN alerts, NEW cooldown \in Nat
  PROVE  Cooling(cooldown) <=>
           {m \in DOMAIN alerts : alerts[m].told /\ m < instant /\ instant < m + cooldown} # {}
<1> DEFINE last == Newest(LatestTold)
<1>1. LatestTold \subseteq 1..instant /\ LatestTold \subseteq DOMAIN alerts /\ instant \in Nat
  BY DEF LatestTold, Timely
<1>2. LatestTold # {} => last \in LatestTold /\ \A m \in LatestTold : m <= last
  BY <1>1, NewestIsLast
<1> HIDE DEF last
<1>3. ASSUME Cooling(cooldown)
      PROVE  last \in {m \in DOMAIN alerts : alerts[m].told /\ m < instant /\ instant < m + cooldown}
  <2>1. last \in LatestTold /\ instant < last + cooldown
    BY <1>2, <1>3 DEF Cooling, last
  <2>2. last < instant
    BY <1>1, <2>1
  <2> QED BY <2>1, <2>2 DEF LatestTold
<1>4. ASSUME NEW m \in DOMAIN alerts, alerts[m].told, m < instant, instant < m + cooldown
      PROVE  Cooling(cooldown)
  <2>1. m \in LatestTold /\ m \in Nat
    BY <1>1, <1>4 DEF LatestTold
  <2>2. last \in Nat /\ m <= last
    <3>1. LatestTold # {}
      BY <2>1
    <3>2. last \in 1..instant /\ m <= last
      BY <1>1, <1>2, <2>1, <3>1
    <3> QED BY <1>1, <3>2
  <2>3. instant < last + cooldown /\ cooldown > 0
    BY <1>1, <1>4, <2>1, <2>2
  <2> QED BY <2>1, <2>3 DEF Cooling, last
<1> QED BY <1>3, <1>4

LEMMA AlertStep == AlertInv /\ [AlertNext]_alertVars => AlertInv'
<1> SUFFICES ASSUME AlertInv, [AlertNext]_alertVars PROVE AlertInv'
  OBVIOUS
<1> USE DEF AlertInv
<1>0. instant \in Nat
  BY DEF Timely
<1>1. CASE UNCHANGED alertVars
  BY <1>1 DEF alertVars, Timely, AlertsAreHonest, Spaced, Noticed
<1>2. ASSUME NEW value \in Measures, NEW partial \in BOOLEAN, RunSaves(value, partial)
      PROVE  AlertInv'
  <2>1. PICK now \in instant + 1 .. MaxInstant :
          /\ instant' = now /\ DOMAIN series' = DOMAIN series \cup {now}
    BY <1>2 DEF RunSaves
  <2>2. /\ UNCHANGED <<rule, alerts, verdicts>> /\ judging.at = "idle" /\ judging'.at = "saved"
    BY <1>2 DEF RunSaves, Idle_
  <2>3. now \in Nat /\ now > instant /\ instant' = now
    BY <1>0, <2>1
  <2>4. Timely'
    BY <2>1, <2>2, <2>3 DEF Timely
  <2>5. AlertsAreHonest'
    BY <2>2 DEF AlertsAreHonest, Spaced, Noticed
  <2> QED BY <2>4, <2>5
<1>3. ASSUME NEW fails \in BOOLEAN, RunJudges(fails) PROVE AlertInv'
  <2> DEFINE looks == rule.there /\ rule.enabled /\ ~fails
             verdict == IF looks THEN Verdict(rule, instant, judging.previous)
                        ELSE "seen by some"
             finds == looks /\ Triggers(rule, instant, judging.previous)
  <2>1. /\ judging.at = "saved" /\ UNCHANGED <<instant, rule, series, alerts>>
        /\ verdicts' = [i \in DOMAIN verdicts \cup {instant} |->
                          IF i = instant THEN verdict ELSE verdicts[i]]
        /\ judging' = IF finds THEN [at |-> "found"] ELSE Idle_
    BY <1>3 DEF RunJudges
  <2>2. (verdict = "seen by all" => finds) /\ (verdict = "seen by none" => ~finds)
    BY VerdictsTrigger
  <2> HIDE DEF verdict, finds
  <2>3. judging'.at = IF finds THEN "found" ELSE "idle"
    BY <2>1 DEF Idle_
  <2>4. Timely'
    BY <1>0, <2>1, <2>3 DEF Timely
  <2>5. Spaced'
    BY <2>1 DEF AlertsAreHonest, Spaced
  <2>6. Noticed'
    <3> SUFFICES ASSUME NEW i \in DOMAIN verdicts'
                 PROVE  LET stored == i \in DOMAIN alerts' \/ (judging'.at = "found" /\ i = instant')
                        IN  /\ verdicts'[i] = "seen by all" => stored
                            /\ verdicts'[i] = "seen by none" => ~stored
      BY DEF Noticed
    <3>1. CASE i = instant
      <4>1. i \notin DOMAIN alerts' /\ verdicts'[i] = verdict
        BY <2>1, <3>1 DEF Timely
      <4> QED BY <2>1, <2>2, <2>3, <3>1, <4>1
    <3>2. CASE i # instant
      <4>1. i \in DOMAIN verdicts /\ verdicts'[i] = verdicts[i]
        BY <2>1, <3>2
      <4> QED BY <2>1, <3>2, <4>1 DEF AlertsAreHonest, Noticed
    <3> QED BY <3>1, <3>2
  <2> QED BY <2>4, <2>5, <2>6 DEF AlertsAreHonest
<1>4. CASE RunAlerts
  <2> DEFINE cooldown == IF rule.there THEN rule.cooldown ELSE 0
             partial == series[instant].partial
             event == [told |-> ~partial /\ ~Cooling(cooldown), partial |-> partial,
                       cooldown |-> cooldown]
  <2>1. /\ judging.at = "found" /\ judging'.at = "idle"
        /\ UNCHANGED <<instant, rule, series, verdicts>>
        /\ alerts' = [i \in DOMAIN alerts \cup {instant} |->
                        IF i = instant THEN event ELSE alerts[i]]
    BY <1>4 DEF RunAlerts, Idle_
  <2>2. instant \notin DOMAIN alerts /\ instant >= 1 /\ DOMAIN alerts \subseteq 1..instant
    BY <2>1 DEF Timely
  <2>3. cooldown \in Nat
    BY AlertNumbers DEF Timely, Rules
  <2>4. /\ event.cooldown = cooldown /\ event.partial = partial
        /\ event.told <=> ~partial /\ ~Cooling(cooldown)
    OBVIOUS
  <2> HIDE DEF event, cooldown, partial
  <2>5. /\ DOMAIN alerts' = DOMAIN alerts \cup {instant} /\ alerts'[instant] = event
        /\ \A n \in DOMAIN alerts : alerts'[n] = alerts[n]
    BY <2>1, <2>2
  <2>6. Timely'
    BY <1>0, <2>1, <2>2, <2>3, <2>4, <2>5 DEF Timely
  <2>7. Spaced'
    <3> SUFFICES ASSUME NEW n \in DOMAIN alerts'
                 PROVE  alerts'[n].told <=>
                          /\ {m \in DOMAIN alerts' : alerts'[m].told /\ m < n
                                                     /\ n < m + alerts'[n].cooldown} = {}
                          /\ ~alerts'[n].partial
      BY DEF Spaced
    <3>1. \A m \in DOMAIN alerts' : m < n => m \in DOMAIN alerts
      BY <1>0, <2>2, <2>5
    <3>2. {m \in DOMAIN alerts' : alerts'[m].told /\ m < n /\ n < m + alerts'[n].cooldown}
            = {m \in DOMAIN alerts : alerts[m].told /\ m < n /\ n < m + alerts'[n].cooldown}
      BY <2>5, <3>1
    <3>3. CASE n = instant
      <4>1. alerts'[n] = event
        BY <2>5, <3>3
      <4> QED BY <2>2, <2>3, <2>4, <3>2, <3>3, <4>1, CoolingIsNear
    <3>4. CASE n # instant
      BY <2>5, <3>2, <3>4 DEF AlertsAreHonest, Spaced
    <3> QED BY <3>3, <3>4
  <2>8. Noticed'
    BY <2>1, <2>5 DEF AlertsAreHonest, Noticed
  <2> QED BY <2>6, <2>7, <2>8 DEF AlertsAreHonest
<1>5. ASSUME NEW i \in DOMAIN series, Deleted(i) PROVE AlertInv'
  <2>1. /\ UNCHANGED <<instant, rule, judging, alerts, verdicts>>
        /\ DOMAIN series' \subseteq DOMAIN series
    BY <1>5 DEF Deleted
  <2> QED BY <2>1 DEF Timely, AlertsAreHonest, Spaced, Noticed
<1>6. CASE EditRule
  <2>1. PICK w \in Windows, c \in Cooldowns, enabled \in BOOLEAN, there \in BOOLEAN :
          rule' = [rule EXCEPT !.window = w, !.cooldown = c,
                               !.enabled = enabled /\ there, !.there = there]
    BY <1>6 DEF EditRule
  <2>2. rule' \in Rules
    BY <2>1 DEF Timely, Rules
  <2>3. UNCHANGED <<instant, series, judging, alerts, verdicts>>
    BY <1>6 DEF EditRule
  <2> QED BY <2>2, <2>3 DEF Timely, AlertsAreHonest, Spaced, Noticed
<1> QED BY <1>1, <1>2, <1>3, <1>4, <1>5, <1>6 DEF AlertNext

\* Whatever is deleted or edited while a run judges its rules: alerts tell of
\* what the kept snapshots show, and announcements are a cooldown apart.
THEOREM AlertsHonest == AlertSpec => []AlertsAreHonest
<1>1. AlertSpec => []AlertInv
  BY AlertStarts, AlertStep, PTL DEF AlertSpec
<1>2. AlertInv => AlertsAreHonest
  BY DEF AlertInv
<1> QED BY <1>1, <1>2, PTL

-----------------------------------------------------------------------------
(* SnapshotStore.  While stamps rise with ids, a delta is replayed after   *)
(* all that have lower ids: its rows are of the tree that was saved, and   *)
(* where there are none nothing has changed.                               *)

StoreSpec == StoreInit /\ [][StoreNext]_storeVars

IsSnapshot(r) ==
  \E t, b, n, w : r = [stamp |-> t, base |-> b, nodes |-> n, rows |-> w]
IsRead(r) ==
  \E a, n, i, b, s : r = [at |-> a, reads |-> n, id |-> i, base |-> b, state |-> s]

\* one number after another, stamps with them, and what replays them too
InOrder(s) ==
  \A i, j \in DOMAIN s : i < j => s[i].stamp <= s[j].stamp /\ s[i].base <= s[j].base

\* who is replayed from what
Based(s) ==
  \A i \in DOMAIN s :
    /\ IsSnapshot(s[i]) /\ s[i].stamp \in Nat
    /\ s[i].base \in DOMAIN s /\ s[s[i].base].base = s[i].base /\ s[i].base <= i

Stores(s, trees) == \A i \in DOMAIN s : s[i].base = i => s[i].nodes = trees[i]

\* a row of a delta is what was saved
Tells(s, trees) ==
  \A i \in DOMAIN s : s[i].base # i =>
    \A p \in DOMAIN s[i].rows : p \in Paths /\ s[i].rows[p] = trees[i][p]

\* where no delta after j up to i has a row, nothing has changed
Quiet(s, j, i, p) ==
  \A k \in DOMAIN s : s[k].base = s[i].base /\ j < k /\ k <= i => p \notin DOMAIN s[k].rows
Silent(s, trees) ==
  \A j, i \in DOMAIN s, p \in Paths :
    j <= i /\ s[j].base = s[i].base /\ Quiet(s, j, i, p) => trees[j][p] = trees[i][p]

Sound(s, trees) ==
  InOrder(s) /\ Based(s) /\ Stores(s, trees) /\ Tells(s, trees) /\ Silent(s, trees)

\* either no stamp has fallen as ids rose, or everything there has met one that has
TablesInv ==
  /\ saved \in Seq(Trees) /\ lastId = Len(saved)
  /\ DOMAIN snaps \subseteq 1..lastId /\ skewed \subseteq 1..lastId
  /\ \/ skewed \cap DOMAIN snaps = {} /\ Sound(snaps, saved)
     \/ DOMAIN snaps \subseteq skewed

\* what a read of a snapshot that is still there is at
Reads(r) ==
  /\ r.base \in 1..lastId /\ r.base <= snaps[r.id].base
  /\ r.base = snaps[r.id].base =>
       /\ r.at = "deltas" => r.base # r.id /\ r.state = saved[r.base]
       /\ r.at = "done" => r.state = saved[r.id]
ReadInv ==
  /\ reading.at \in {"idle", "nodes", "deltas", "done"}
  /\ reading.at # "idle" =>
       /\ IsRead(reading) /\ reading.id \in 1..lastId
       /\ reading.id \in DOMAIN snaps \ skewed => Reads(reading)

StoreInv == TablesInv /\ ReadInv

LEMMA LeastOf ==
  ASSUME NEW S \in SUBSET Nat, S # {}
  PROVE  \E x \in S : \A y \in S : x <= y
<1>1. PICK x \in S : \A y \in S : ~ (<<y, x>> \in Less)
  BY LessIsWellFounded, WFMin
<1>2. \A y \in S : x <= y
  <2> TAKE y \in S
  <2>1. <<y, x>> \notin Less
    BY <1>1
  <2> QED BY <2>1 DEF Less
<1> QED BY <1>2

\* In order, what is read later is what has the higher id.
LEMMA BeforeIsLess ==
  ASSUME NEW s, NEW n \in Nat, DOMAIN s \subseteq 1..n, InOrder(s), Based(s),
         NEW i \in DOMAIN s, NEW j \in DOMAIN s
  PROVE  Before(s, i, j) <=> i < j
<1>1. i \in Nat /\ j \in Nat /\ s[i].stamp \in Nat /\ s[j].stamp \in Nat
  BY DEF Based
<1>2. (i < j => s[i].stamp <= s[j].stamp) /\ (j < i => s[j].stamp <= s[i].stamp)
  BY DEF InOrder
<1> QED BY <1>1, <1>2 DEF Before

LEMMA LatestIsLast ==
  ASSUME NEW s, NEW n \in Nat, DOMAIN s \subseteq 1..n, InOrder(s), Based(s),
         NEW ids \in SUBSET DOMAIN s, ids # {}
  PROVE  Latest(s, ids) \in ids /\ \A j \in ids : j <= Latest(s, ids)
<1>1. Newest(ids) \in ids /\ \A j \in ids : j <= Newest(ids)
  BY NewestIsLast
<1>2. \E i \in ids : \A j \in ids \ {i} : Before(s, j, i)
  <2>1. \A j \in ids \ {Newest(ids)} : j < Newest(ids)
    BY <1>1
  <2> QED BY <1>1, <2>1, BeforeIsLess
<1>3. Latest(s, ids) \in ids /\ \A j \in ids \ {Latest(s, ids)} : Before(s, j, Latest(s, ids))
  BY <1>2 DEF Latest
<1>4. \A j \in ids \ {Latest(s, ids)} : j < Latest(s, ids)
  BY <1>3, BeforeIsLess
<1>5. ids \subseteq Nat
  OBVIOUS
<1> QED BY <1>3, <1>4, <1>5

LEMMA FirstIsLeast ==
  ASSUME NEW s, NEW n \in Nat, DOMAIN s \subseteq 1..n, InOrder(s), Based(s),
         NEW ids \in SUBSET DOMAIN s, ids # {}
  PROVE  First(s, ids) \in ids /\ \A j \in ids : First(s, ids) <= j
<1>0. ids \subseteq Nat
  OBVIOUS
<1>1. PICK x \in ids : \A j \in ids : x <= j
  BY <1>0, LeastOf
<1>2. \E i \in ids : \A j \in ids \ {i} : Before(s, i, j)
  <2>1. \A j \in ids \ {x} : x < j
    BY <1>0, <1>1
  <2> QED BY <1>1, <2>1, BeforeIsLess
<1>3. First(s, ids) \in ids /\ \A j \in ids \ {First(s, ids)} : Before(s, First(s, ids), j)
  BY <1>2 DEF First
<1>4. \A j \in ids \ {First(s, ids)} : First(s, ids) < j
  BY <1>3, BeforeIsLess
<1> QED BY <1>0, <1>3, <1>4

\* What a chain says of a path is what was saved.
Replaying(s, trees, n, i, b, state, ids) ==
  /\ n \in Nat /\ DOMAIN s \subseteq 1..n /\ Sound(s, trees)
  /\ i \in DOMAIN s /\ b = s[i].base /\ state = trees[b]
  /\ ids = {j \in Chain(s, b) : j <= i}
LEMMA Replays ==
  ASSUME NEW s, NEW trees, NEW n, NEW i, NEW b, NEW state, NEW ids,
         Replaying(s, trees, n, i, b, state, ids), NEW p \in Paths
  PROVE  Overlaid(s, state, ids)[p] = trees[i][p]
<1> USE DEF Replaying
<1>1. InOrder(s) /\ Based(s) /\ Tells(s, trees) /\ Silent(s, trees)
  BY DEF Sound
<1>2. b \in DOMAIN s /\ s[b].base = b /\ b <= i
  BY <1>1 DEF Based
<1> DEFINE told == {j \in ids : p \in DOMAIN s[j].rows}
<1>3. Overlaid(s, state, ids)[p] = IF told = {} THEN state[p] ELSE s[Latest(s, told)].rows[p]
  BY DEF Overlaid
<1>4. told \subseteq DOMAIN s /\ \A j \in told : j <= i /\ s[j].base = b /\ j # b /\ p \in DOMAIN s[j].rows
  BY DEF Chain
<1>5. \A k \in DOMAIN s : s[k].base = b /\ b < k /\ k <= i /\ p \in DOMAIN s[k].rows => k \in told
  <2> TAKE k \in DOMAIN s
  <2>1. b < k => k # b
    BY <1>2
  <2> QED BY <2>1 DEF Chain
<1> HIDE DEF told
<1>6. CASE told = {}
  <2>1. Quiet(s, b, i, p)
    BY <1>5, <1>6 DEF Quiet
  <2>2. trees[b][p] = trees[i][p]
    BY <1>1, <1>2, <2>1 DEF Silent
  <2> QED BY <1>3, <1>6, <2>2
<1>7. CASE told # {}
  <2>1. PICK m : m = Latest(s, told)
    OBVIOUS
  <2>2. m \in told /\ \A j \in told : j <= m
    BY <1>1, <1>4, <1>7, <2>1, LatestIsLast
  <2>3. m \in DOMAIN s /\ s[m].base = b /\ m # b /\ m <= i /\ p \in DOMAIN s[m].rows
    BY <1>4, <2>2
  <2>4. s[m].rows[p] = trees[m][p]
    BY <1>1, <2>3 DEF Tells
  <2>5. Quiet(s, m, i, p)
    <3> SUFFICES ASSUME NEW k \in DOMAIN s, s[k].base = s[i].base, m < k, k <= i,
                        p \in DOMAIN s[k].rows
                 PROVE  FALSE
      BY DEF Quiet
    <3>1. b <= m
      BY <1>1, <2>3 DEF Based
    <3>2. b < k
      BY <1>2, <2>3, <3>1
    <3>3. k \in told
      BY <1>5, <3>2
    <3>4. k <= m
      BY <2>2, <3>3
    <3> QED BY <2>3, <3>4
  <2>6. trees[m][p] = trees[i][p]
    BY <1>1, <2>3, <2>5 DEF Silent
  <2> QED BY <1>3, <1>7, <2>1, <2>4, <2>6
<1> QED BY <1>6, <1>7

LEMMA ReadsBack ==
  ASSUME NEW s, NEW trees \in Seq(Trees), NEW n \in Nat, DOMAIN s \subseteq 1..n,
         n = Len(trees), Sound(s, trees), NEW i \in DOMAIN s
  PROVE  /\ Resolve(s, i) = trees[i] /\ Series(s, i) = trees[i]
         /\ Overlaid(s, trees[s[i].base], {j \in Chain(s, s[i].base) : j <= i}) = trees[i]
<1>1. InOrder(s) /\ Based(s) /\ Stores(s, trees)
  BY DEF Sound
<1>2. PICK b : b = s[i].base
  OBVIOUS
<1>3. b \in DOMAIN s /\ s[b].base = b /\ b <= i /\ b # 0
  BY <1>1, <1>2 DEF Based
<1>4. PICK ids : ids = {j \in Chain(s, b) : j <= i}
  OBVIOUS
<1>5. s[b].nodes = trees[b]
  BY <1>1, <1>3 DEF Stores
<1>6. trees[i] = [p \in Paths |-> trees[i][p]]
  BY StoreAssumption
<1>7. Overlaid(s, trees[b], ids) = trees[i]
  <2>1. ASSUME NEW p \in Paths PROVE Overlaid(s, trees[b], ids)[p] = trees[i][p]
    <3>1. PICK state : state = trees[b]
      OBVIOUS
    <3>2. Replaying(s, trees, n, i, b, state, ids)
      BY <1>2, <1>4, <3>1 DEF Replaying
    <3>3. Overlaid(s, state, ids)[p] = trees[i][p]
      BY <3>2, Replays
    <3> QED BY <3>1, <3>3
  <2>2. PICK f : f = Overlaid(s, trees[b], ids)
    OBVIOUS
  <2>3. f = [p \in Paths |-> f[p]]
    BY <2>2 DEF Overlaid
  <2> QED BY <1>6, <2>1, <2>2, <2>3
<1>8. Resolve(s, i) = trees[i]
  BY <1>2, <1>3, <1>4, <1>5, <1>7 DEF Resolve, Replayed
<1>9. {j \in Chain(s, b) : i # b /\ ~Before(s, i, j)} = ids
  <2>1. \A j \in Chain(s, b) : j \in DOMAIN s /\ j # b /\ b <= j
    BY <1>1 DEF Chain, Based
  <2>2. \A j \in Chain(s, b) : (i # b /\ ~Before(s, i, j)) <=> j <= i
    BY <1>1, <1>3, <2>1, BeforeIsLess
  <2> QED BY <1>4, <2>2
<1>10. Series(s, i) = trees[i]
  BY <1>2, <1>3, <1>5, <1>7, <1>9 DEF Series, Replayed
<1> QED BY <1>2, <1>4, <1>7, <1>8, <1>10

\* A new snapshot that is after all others.
Saving(s, trees, n, stamp, found, i, new, s2, trees2) ==
  /\ trees \in Seq(Trees) /\ n = Len(trees) /\ DOMAIN s \subseteq 1..n /\ Sound(s, trees)
  /\ stamp \in Nat /\ found \in Trees /\ i = n + 1
  /\ s2 = Add(s, i, new) /\ trees2 = Append(trees, found) /\ ~Disordered(s2)
NewBase(stamp, found, i) == [stamp |-> stamp, base |-> i, nodes |-> found, rows |-> <<>>]
NewDelta(s, stamp, found) ==
  [stamp |-> stamp, base |-> Latest(s, Baselines(s)), nodes |-> <<>>,
   rows |-> Differences(Resolve(s, Latest(s, DOMAIN s)), found)]

AddsOne(s, trees, n, stamp, found, i, new, s2, trees2) ==
  /\ n \in Nat /\ trees2 \in Seq(Trees) /\ Len(trees2) = i
  /\ DOMAIN s2 = DOMAIN s \cup {i} /\ DOMAIN s2 \subseteq 1..i /\ s2[i] = new
  /\ \A j \in DOMAIN s : j \in Nat /\ j < i /\ s2[j] = s[j] /\ trees2[j] = trees[j]
                         /\ s[j].stamp <= stamp
  /\ trees2[i] = found

LEMMA Added ==
  ASSUME NEW s, NEW trees, NEW n, NEW stamp, NEW found, NEW i, NEW new, NEW s2, NEW trees2,
         Saving(s, trees, n, stamp, found, i, new, s2, trees2), new.stamp = stamp
  PROVE  AddsOne(s, trees, n, stamp, found, i, new, s2, trees2)
<1> USE DEF Saving, AddsOne
<1>1. n \in Nat /\ trees2 \in Seq(Trees) /\ Len(trees2) = i /\ trees2[i] = found
  OBVIOUS
<1>2. DOMAIN s2 = DOMAIN s \cup {i} /\ s2[i] = new /\ \A j \in DOMAIN s : j # i => s2[j] = s[j]
  BY DEF Add
<1>3. \A j \in DOMAIN s : j \in 1..n
  OBVIOUS
<1>4. DOMAIN s2 \subseteq 1..i
  BY <1>1, <1>2, <1>3
<1>5. ASSUME NEW j \in DOMAIN s
      PROVE  j \in Nat /\ j < i /\ s2[j] = s[j] /\ trees2[j] = trees[j] /\ s[j].stamp <= stamp
  <2>1. j \in 1..n /\ j < i
    BY <1>1, <1>3
  <2>2. s2[j] = s[j] /\ s2[i].stamp = stamp
    BY <1>2, <2>1
  <2>3. ~(s2[j].stamp > s2[i].stamp)
    BY <1>2, <2>1 DEF Disordered
  <2>4. s[j].stamp \in Nat
    BY DEF Sound, Based
  <2>5. trees2[j] = trees[j]
    BY <2>1
  <2> QED BY <2>1, <2>2, <2>3, <2>4, <2>5
<1> QED BY <1>1, <1>2, <1>4, <1>5

\* What was said of the old ones is still said.
LEMMA QuietBefore ==
  ASSUME NEW s, NEW s2, DOMAIN s \subseteq DOMAIN s2, \A j \in DOMAIN s : s2[j] = s[j],
         NEW j, NEW i \in DOMAIN s, NEW p, Quiet(s2, j, i, p)
  PROVE  Quiet(s, j, i, p)
BY DEF Quiet

LEMMA SavesBaseline ==
  ASSUME NEW s, NEW trees, NEW n, NEW stamp, NEW found, NEW i, NEW new, NEW s2, NEW trees2,
         Saving(s, trees, n, stamp, found, i, new, s2, trees2), new = NewBase(stamp, found, i)
  PROVE  Sound(s2, trees2)
<1>1. new.stamp = stamp /\ new.base = i /\ new.nodes = found /\ IsSnapshot(new)
  BY DEF NewBase, IsSnapshot
<1>2. /\ n \in Nat /\ i = n + 1 /\ stamp \in Nat
      /\ DOMAIN s2 = DOMAIN s \cup {i} /\ s2[i] = new /\ trees2[i] = found
      /\ \A j \in DOMAIN s : j \in Nat /\ j < i /\ s2[j] = s[j] /\ trees2[j] = trees[j]
                             /\ s[j].stamp <= stamp
  <2>1. i = n + 1 /\ stamp \in Nat
    BY DEF Saving
  <2>2. /\ n \in Nat /\ DOMAIN s2 = DOMAIN s \cup {i} /\ s2[i] = new /\ trees2[i] = found
        /\ \A j \in DOMAIN s : j \in Nat /\ j < i /\ s2[j] = s[j] /\ trees2[j] = trees[j]
                               /\ s[j].stamp <= stamp
    <3>1. AddsOne(s, trees, n, stamp, found, i, new, s2, trees2)
      BY <1>1, Added
    <3> QED BY <3>1 DEF AddsOne
  <2> QED BY <2>1, <2>2
<1>3. InOrder(s) /\ Based(s) /\ Stores(s, trees) /\ Tells(s, trees) /\ Silent(s, trees)
  BY DEF Saving, Sound
<1>4. \A j \in DOMAIN s : s[j].base \in DOMAIN s /\ s[j].base <= j /\ s[j].base < i
  <2> TAKE j \in DOMAIN s
  <2>1. s[j].base \in DOMAIN s /\ s[j].base <= j
    BY <1>3 DEF Based
  <2> QED BY <1>2, <2>1
<1>5. InOrder(s2)
  <2> SUFFICES ASSUME NEW j \in DOMAIN s2, NEW k \in DOMAIN s2, j < k
               PROVE  s2[j].stamp <= s2[k].stamp /\ s2[j].base <= s2[k].base
    BY DEF InOrder
  <2>1. j \in DOMAIN s
    BY <1>2
  <2>2. CASE k = i
    BY <1>1, <1>2, <1>4, <2>1, <2>2
  <2>3. CASE k # i
    BY <1>2, <1>3, <2>1, <2>3 DEF InOrder
  <2> QED BY <2>2, <2>3
<1>6. Based(s2)
  <2> SUFFICES ASSUME NEW j \in DOMAIN s2
               PROVE  /\ IsSnapshot(s2[j]) /\ s2[j].stamp \in Nat
                      /\ s2[j].base \in DOMAIN s2 /\ s2[s2[j].base].base = s2[j].base
                      /\ s2[j].base <= j
    BY DEF Based
  <2>1. CASE j = i
    BY <1>1, <1>2, <2>1
  <2>2. CASE j # i
    BY <1>2, <1>3, <2>2 DEF Based
  <2> QED BY <2>1, <2>2
<1>7. Stores(s2, trees2)
  BY <1>1, <1>2, <1>3 DEF Stores
<1>8. Tells(s2, trees2)
  BY <1>1, <1>2, <1>3 DEF Tells
<1>9. Silent(s2, trees2)
  <2> SUFFICES ASSUME NEW j \in DOMAIN s2, NEW k \in DOMAIN s2, NEW p \in Paths,
                      j <= k, s2[j].base = s2[k].base, Quiet(s2, j, k, p)
               PROVE  trees2[j][p] = trees2[k][p]
    BY DEF Silent
  <2>1. CASE j = k
    BY <2>1
  <2>2. CASE j # k
    <3>1. j \in DOMAIN s /\ s2[j].base # i
      BY <1>2, <1>4, <2>2
    <3>2. k \in DOMAIN s
      BY <1>1, <1>2, <3>1
    <3>3. Quiet(s, j, k, p)
      BY <1>2, <3>2, QuietBefore
    <3>4. s[j].base = s[k].base
      BY <1>2, <3>1, <3>2
    <3>5. trees[j][p] = trees[k][p]
      BY <1>3, <3>1, <3>2, <3>3, <3>4 DEF Silent
    <3> QED BY <1>2, <3>1, <3>2, <3>5
  <2> QED BY <2>1, <2>2
<1> QED BY <1>5, <1>6, <1>7, <1>8, <1>9 DEF Sound

LEMMA SavesDelta ==
  ASSUME NEW s, NEW trees, NEW n, NEW stamp, NEW found, NEW i, NEW new, NEW s2, NEW trees2,
         Saving(s, trees, n, stamp, found, i, new, s2, trees2), new = NewDelta(s, stamp, found),
         Baselines(s) # {}
  PROVE  Sound(s2, trees2)
<1>0. PICK m, b : m = Latest(s, DOMAIN s) /\ b = Latest(s, Baselines(s))
  OBVIOUS
<1>1. new.stamp = stamp /\ new.base = b /\ IsSnapshot(new)
      /\ new.rows = Differences(Resolve(s, m), found)
  BY <1>0 DEF NewDelta, IsSnapshot
<1>2. /\ n \in Nat /\ i = n + 1 /\ stamp \in Nat /\ trees \in Seq(Trees) /\ n = Len(trees)
      /\ DOMAIN s \subseteq 1..n
      /\ DOMAIN s2 = DOMAIN s \cup {i} /\ s2[i] = new /\ trees2[i] = found
      /\ \A j \in DOMAIN s : j \in Nat /\ j < i /\ s2[j] = s[j] /\ trees2[j] = trees[j]
                             /\ s[j].stamp <= stamp
  <2>1. /\ i = n + 1 /\ stamp \in Nat /\ trees \in Seq(Trees) /\ n = Len(trees)
        /\ DOMAIN s \subseteq 1..n
    BY DEF Saving
  <2>2. /\ n \in Nat /\ DOMAIN s2 = DOMAIN s \cup {i} /\ s2[i] = new /\ trees2[i] = found
        /\ \A j \in DOMAIN s : j \in Nat /\ j < i /\ s2[j] = s[j] /\ trees2[j] = trees[j]
                               /\ s[j].stamp <= stamp
    <3>1. AddsOne(s, trees, n, stamp, found, i, new, s2, trees2)
      BY <1>1, Added
    <3> QED BY <3>1 DEF AddsOne
  <2> QED BY <2>1, <2>2
<1>3. /\ InOrder(s) /\ Based(s) /\ Stores(s, trees) /\ Tells(s, trees) /\ Silent(s, trees)
      /\ Sound(s, trees)
  BY DEF Saving, Sound
<1>4. b \in DOMAIN s /\ s[b].base = b /\ \A j \in DOMAIN s : s[j].base = j => j <= b
  <2>1. Baselines(s) \subseteq DOMAIN s
    BY DEF Baselines
  <2>2. b \in Baselines(s) /\ \A j \in Baselines(s) : j <= b
    BY <1>0, <1>2, <1>3, <2>1, LatestIsLast
  <2> QED BY <2>2 DEF Baselines
<1>5. m \in DOMAIN s /\ \A j \in DOMAIN s : j <= m
  BY <1>0, <1>2, <1>3, <1>4, LatestIsLast
<1>6. s[m].base = b
  <2>1. s[m].base \in DOMAIN s /\ s[s[m].base].base = s[m].base
    BY <1>3, <1>5 DEF Based
  <2>2. s[m].base <= b
    BY <1>4, <2>1
  <2>3. b <= s[m].base
    <3>1. CASE b = m
      BY <1>4, <1>2, <3>1
    <3>2. CASE b # m
      <4>1. b < m
        BY <1>2, <1>4, <1>5, <3>2
      <4> QED BY <1>3, <1>4, <1>5, <4>1 DEF InOrder
    <3> QED BY <3>1, <3>2
  <2> QED BY <1>2, <1>4, <2>1, <2>2, <2>3
<1>7. Resolve(s, m) = trees[m]
  BY <1>2, <1>3, <1>5, ReadsBack
<1>8. /\ \A p \in DOMAIN new.rows : p \in Paths /\ new.rows[p] = found[p]
      /\ \A p \in Paths : p \notin DOMAIN new.rows => trees[m][p] = found[p]
  BY <1>1, <1>7 DEF Differences
<1>9. \A j \in DOMAIN s : s[j].base \in DOMAIN s /\ s[j].base <= j /\ s[j].base <= b
  <2> TAKE j \in DOMAIN s
  <2>1. s[j].base \in DOMAIN s /\ s[j].base <= j /\ s[s[j].base].base = s[j].base
    BY <1>3 DEF Based
  <2> QED BY <1>4, <2>1
<1>10. InOrder(s2)
  <2> SUFFICES ASSUME NEW j \in DOMAIN s2, NEW k \in DOMAIN s2, j < k
               PROVE  s2[j].stamp <= s2[k].stamp /\ s2[j].base <= s2[k].base
    BY DEF InOrder
  <2>1. j \in DOMAIN s
    BY <1>2
  <2>2. CASE k = i
    BY <1>1, <1>2, <1>9, <2>1, <2>2
  <2>3. CASE k # i
    BY <1>2, <1>3, <2>1, <2>3 DEF InOrder
  <2> QED BY <2>2, <2>3
<1>11. Based(s2)
  <2> SUFFICES ASSUME NEW j \in DOMAIN s2
               PROVE  /\ IsSnapshot(s2[j]) /\ s2[j].stamp \in Nat
                      /\ s2[j].base \in DOMAIN s2 /\ s2[s2[j].base].base = s2[j].base
                      /\ s2[j].base <= j
    BY DEF Based
  <2>1. CASE j = i
    BY <1>1, <1>2, <1>4, <2>1
  <2>2. CASE j # i
    BY <1>2, <1>3, <2>2 DEF Based
  <2> QED BY <2>1, <2>2
<1>12. Stores(s2, trees2)
  BY <1>1, <1>2, <1>3, <1>4 DEF Stores
<1>13. Tells(s2, trees2)
  BY <1>1, <1>2, <1>3, <1>8 DEF Tells
<1>14. Silent(s2, trees2)
  <2> SUFFICES ASSUME NEW j \in DOMAIN s2, NEW k \in DOMAIN s2, NEW p \in Paths,
                      j <= k, s2[j].base = s2[k].base, Quiet(s2, j, k, p)
               PROVE  trees2[j][p] = trees2[k][p]
    BY DEF Silent
  <2>1. CASE j = k
    BY <2>1
  <2>2. CASE j # k /\ k \in DOMAIN s
    <3>1. j \in DOMAIN s
      BY <1>2, <2>2
    <3>2. Quiet(s, j, k, p)
      BY <1>2, <2>2, QuietBefore
    <3>3. s[j].base = s[k].base
      BY <1>2, <2>2, <3>1
    <3>4. trees[j][p] = trees[k][p]
      BY <1>3, <2>2, <3>1, <3>2, <3>3 DEF Silent
    <3> QED BY <1>2, <2>2, <3>1, <3>4
  <2>3. CASE j # k /\ k = i
    <3>1. j \in DOMAIN s /\ j <= m /\ s[j].base = b
      BY <1>1, <1>2, <1>5, <2>3
    <3>2. p \notin DOMAIN new.rows
      <4>1. i \in DOMAIN s2 /\ s2[i].base = s2[k].base /\ j < i /\ i <= k
        BY <1>2, <2>3, <3>1
      <4>2. p \notin DOMAIN s2[i].rows
        BY <4>1 DEF Quiet
      <4> QED BY <1>2, <4>2
    <3>3. Quiet(s, j, m, p)
      <4> SUFFICES ASSUME NEW l \in DOMAIN s, s[l].base = s[m].base, j < l, l <= m
                   PROVE  p \notin DOMAIN s[l].rows
        BY DEF Quiet
      <4>1. s2[l] = s[l] /\ l \in DOMAIN s2 /\ l <= k /\ s2[l].base = s2[k].base
        BY <1>1, <1>2, <1>6, <2>3
      <4> QED BY <4>1 DEF Quiet
    <3>4. trees[j][p] = trees[m][p]
      BY <1>3, <1>5, <1>6, <3>1, <3>3 DEF Silent
    <3> QED BY <1>2, <1>8, <2>3, <3>1, <3>2, <3>4
  <2> QED BY <1>2, <2>1, <2>2, <2>3
<1> QED BY <1>10, <1>11, <1>12, <1>13, <1>14 DEF Sound

\* New baselines in some chains: what comes after one is replayed from it.
Follows(s, h, i) == s[h].base = s[i].base /\ h <= i
Moves(s, trees, H, s2) ==
  /\ DOMAIN s \subseteq Nat /\ Sound(s, trees)
  /\ H \subseteq DOMAIN s /\ \A h \in H : s[h].base # h
  /\ \A g, h \in H : s[g].base = s[h].base => g = h
  /\ DOMAIN s2 = DOMAIN s
  /\ \A i \in DOMAIN s : (\A h \in H : ~Follows(s, h, i)) => s2[i] = s[i]
  /\ \A i \in DOMAIN s, h \in H : Follows(s, h, i) =>
       /\ IsSnapshot(s2[i]) /\ s2[i].stamp = s[i].stamp /\ s2[i].base = h
       /\ i = h => s2[i].nodes = trees[h]
       /\ i # h => s2[i].rows = s[i].rows

LEMMA Moving ==
  ASSUME NEW s, NEW trees, NEW H, NEW s2, Moves(s, trees, H, s2)
  PROVE  Sound(s2, trees)
<1> DEFINE Moved(i) == \E h \in H : Follows(s, h, i)
<1>1. /\ InOrder(s) /\ Based(s) /\ Stores(s, trees) /\ Tells(s, trees) /\ Silent(s, trees)
      /\ DOMAIN s2 = DOMAIN s /\ H \subseteq DOMAIN s /\ DOMAIN s \subseteq Nat
      /\ \A g, h \in H : s[g].base = s[h].base => g = h
      /\ \A h \in H : s[h].base # h
  BY DEF Moves, Sound
<1>2. \A i \in DOMAIN s : ~Moved(i) => s2[i] = s[i]
  BY DEF Moves
<1>3. \A i \in DOMAIN s, h \in H : Follows(s, h, i) =>
        /\ IsSnapshot(s2[i]) /\ s2[i].stamp = s[i].stamp /\ s2[i].base = h
        /\ i = h => s2[i].nodes = trees[h]
        /\ i # h => s2[i].rows = s[i].rows
  BY DEF Moves
<1>4. \A i \in DOMAIN s : /\ s[i].base \in DOMAIN s /\ s[s[i].base].base = s[i].base
                          /\ s[i].base \in Nat /\ i \in Nat /\ s[i].base <= i
  BY <1>1 DEF Based
<1>5. \A i, j \in DOMAIN s : s[i].base < s[j].base => i < j
  <2> SUFFICES ASSUME NEW i \in DOMAIN s, NEW j \in DOMAIN s, s[i].base < s[j].base, ~(i < j)
               PROVE  FALSE
    OBVIOUS
  <2>1. i # j /\ i \in Nat /\ j \in Nat /\ s[i].base \in Nat /\ s[j].base \in Nat
    BY <1>4
  <2>2. j < i
    BY <2>1
  <2>3. s[j].base <= s[i].base
    BY <1>1, <2>2 DEF InOrder
  <2> QED BY <2>1, <2>3
<1>6. \A h \in H : Follows(s, h, h) /\ s[h].base < h
  BY <1>1, <1>4 DEF Follows
\* a baseline stays one
<1>7. \A i \in DOMAIN s : s[i].base = i => ~Moved(i)
  <2> SUFFICES ASSUME NEW i \in DOMAIN s, s[i].base = i, NEW h \in H, Follows(s, h, i)
               PROVE  FALSE
    OBVIOUS
  <2>1. s[h].base = i /\ h <= i /\ s[h].base < h
    BY <1>6 DEF Follows
  <2> QED BY <1>1, <1>4, <2>1
<1>8. \A i \in DOMAIN s : s2[i].stamp = s[i].stamp
  BY <1>2, <1>3
<1>9. \A i \in DOMAIN s : s[i].base <= s2[i].base /\ s2[i].base <= i /\ s2[i].base \in DOMAIN s
  <2> TAKE i \in DOMAIN s
  <2>1. CASE ~Moved(i)
    BY <1>2, <1>4, <2>1
  <2>2. ASSUME NEW h \in H, Follows(s, h, i)
        PROVE  s[i].base <= s2[i].base /\ s2[i].base <= i /\ s2[i].base \in DOMAIN s
    BY <1>1, <1>3, <1>4, <2>2 DEF Follows
  <2> QED BY <2>1, <2>2
<1> HIDE DEF Moved
<1>10. \A i \in DOMAIN s : Moved(i) => \E h \in H : Follows(s, h, i) /\ s2[i].base = h
  BY <1>3 DEF Moved
<1>11. InOrder(s2)
  <2> SUFFICES ASSUME NEW j \in DOMAIN s, NEW k \in DOMAIN s, j < k
               PROVE  s2[j].base <= s2[k].base
    BY <1>1, <1>8 DEF InOrder
  <2>1. s[j].base <= s[k].base
    BY <1>1 DEF InOrder
  <2>2. CASE ~Moved(j)
    <3>1. s2[j].base = s[j].base
      BY <1>2, <2>2
    <3>2. s[k].base <= s2[k].base
      BY <1>9
    <3> QED BY <1>4, <1>9, <2>1, <3>1, <3>2
  <2>3. ASSUME NEW g \in H, Follows(s, g, j), s2[j].base = g, s[j].base = s[k].base
        PROVE  s2[j].base <= s2[k].base
    <3>1. Follows(s, g, k)
      BY <1>1, <1>4, <2>3 DEF Follows
    <3>2. s2[k].base = g
      BY <1>3, <3>1
    <3> QED BY <1>1, <2>3, <3>2
  <2>4. ASSUME NEW g \in H, Follows(s, g, j), s2[j].base = g, s[j].base # s[k].base
        PROVE  s2[j].base <= s2[k].base
    <3>1. s[g].base < s[k].base
      BY <1>4, <2>1, <2>4 DEF Follows
    <3>2. CASE ~Moved(k)
      <4>1. s[g].base < s[s[k].base].base /\ s[k].base \in DOMAIN s
        BY <1>4, <3>1
      <4>2. g < s[k].base
        BY <1>1, <1>5, <4>1
      <4> QED BY <1>1, <1>2, <1>4, <2>4, <3>2, <4>2
    <3>3. ASSUME NEW h \in H, Follows(s, h, k), s2[k].base = h PROVE s2[j].base <= s2[k].base
      <4>1. s[g].base < s[h].base
        BY <3>1, <3>3 DEF Follows
      <4>2. g < h
        BY <1>1, <1>5, <4>1
      <4> QED BY <1>1, <2>4, <3>3, <4>2
    <3> QED BY <1>10, <3>2, <3>3
  <2> QED BY <1>10, <2>2, <2>3, <2>4
<1>12. Based(s2)
  <2> SUFFICES ASSUME NEW i \in DOMAIN s
               PROVE  IsSnapshot(s2[i]) /\ s2[i].stamp \in Nat /\ s2[s2[i].base].base = s2[i].base
    BY <1>1, <1>9 DEF Based
  <2>1. s2[i].stamp \in Nat
    BY <1>1, <1>8 DEF Based
  <2>2. CASE ~Moved(i)
    <3>1. s2[i] = s[i] /\ IsSnapshot(s[i])
      BY <1>1, <1>2, <2>2 DEF Based
    <3>2. s2[s[i].base] = s[s[i].base]
      BY <1>2, <1>4, <1>7
    <3> QED BY <1>4, <2>1, <3>1, <3>2
  <2>3. ASSUME NEW h \in H, Follows(s, h, i) PROVE s2[s2[i].base].base = s2[i].base /\ IsSnapshot(s2[i])
    <3>1. s2[i].base = h /\ IsSnapshot(s2[i])
      BY <1>3, <2>3
    <3>2. s2[h].base = h
      BY <1>1, <1>3, <1>6
    <3> QED BY <3>1, <3>2
  <2> QED BY <1>10, <2>1, <2>2, <2>3
<1>13. Stores(s2, trees)
  <2> SUFFICES ASSUME NEW i \in DOMAIN s, s2[i].base = i PROVE s2[i].nodes = trees[i]
    BY <1>1 DEF Stores
  <2>1. CASE ~Moved(i)
    BY <1>1, <1>2, <2>1 DEF Stores
  <2>2. CASE Moved(i)
    BY <1>3, <1>10, <2>2
  <2> QED BY <2>1, <2>2
<1>14. Tells(s2, trees)
  <2> SUFFICES ASSUME NEW i \in DOMAIN s, s2[i].base # i, NEW p \in DOMAIN s2[i].rows
               PROVE  p \in Paths /\ s2[i].rows[p] = trees[i][p]
    BY <1>1 DEF Tells
  <2>1. CASE ~Moved(i)
    BY <1>1, <1>2, <2>1 DEF Tells
  <2>2. ASSUME NEW h \in H, Follows(s, h, i), s2[i].base = h
        PROVE  p \in Paths /\ s2[i].rows[p] = trees[i][p]
    <3>1. s2[i].rows = s[i].rows
      BY <1>3, <2>2
    <3>2. s[i].base # i
      BY <1>1, <1>4, <1>6, <2>2 DEF Follows
    <3> QED BY <1>1, <3>1, <3>2 DEF Tells
  <2> QED BY <1>10, <2>1, <2>2
<1>15. Silent(s2, trees)
  <2> SUFFICES ASSUME NEW j \in DOMAIN s, NEW i \in DOMAIN s, NEW p \in Paths,
                      j <= i, s2[j].base = s2[i].base, Quiet(s2, j, i, p)
               PROVE  s[j].base = s[i].base /\ Quiet(s, j, i, p)
    BY <1>1 DEF Silent
  <2>1. ASSUME NEW h \in H, Follows(s, h, i), s2[i].base = h
        PROVE  s[j].base = s[i].base /\ Quiet(s, j, i, p)
    <3>1. Follows(s, h, j)
      <4>1. CASE ~Moved(j)
        <5>1. s[j].base = h
          BY <1>2, <2>1, <4>1
        <5>2. s[h].base = h
          BY <1>4, <5>1
        <5> QED BY <1>1, <5>2
      <4>2. CASE Moved(j)
        BY <1>10, <2>1, <4>2
      <4> QED BY <4>1, <4>2
    <3>2. s[j].base = s[i].base
      BY <2>1, <3>1 DEF Follows
    <3>3. ASSUME NEW k \in DOMAIN s, s[k].base = s[i].base, j < k, k <= i
          PROVE  p \notin DOMAIN s[k].rows
      <4>0. h <= j /\ s[h].base = s[i].base /\ h \in Nat /\ j \in Nat /\ k \in Nat
        BY <1>1, <2>1, <3>1 DEF Follows
      <4>1. Follows(s, h, k) /\ k # h
        BY <3>3, <4>0 DEF Follows
      <4>2. s2[k].base = s2[i].base /\ s2[k].rows = s[k].rows
        BY <1>3, <2>1, <4>1
      <4> QED BY <1>1, <3>3, <4>2 DEF Quiet
    <3> QED BY <3>2, <3>3 DEF Quiet
  <2>2. ASSUME ~Moved(i) PROVE s[j].base = s[i].base /\ Quiet(s, j, i, p)
    <3>1. s2[i] = s[i]
      BY <1>2, <2>2
    <3>2. ~Moved(j)
      <4> SUFFICES ASSUME NEW g \in H, s2[j].base = g PROVE FALSE
        BY <1>10
      <4>1. s[i].base = g
        BY <3>1
      <4>2. s[g].base = g
        BY <1>4, <4>1
      <4> QED BY <1>1, <4>2
    <3>3. s[j].base = s[i].base
      BY <1>2, <3>1, <3>2
    <3>4. ASSUME NEW k \in DOMAIN s, s[k].base = s[i].base, j < k, k <= i
          PROVE  p \notin DOMAIN s[k].rows
      <4>1. ~Moved(k)
        <5> SUFFICES ASSUME NEW h \in H, Follows(s, h, k) PROVE FALSE
          BY <1>10
        <5>1. Follows(s, h, i)
          BY <1>1, <1>4, <3>4 DEF Follows
        <5> QED BY <2>2, <5>1 DEF Moved
      <4>2. s2[k] = s[k]
        BY <1>2, <4>1
      <4> QED BY <1>1, <3>1, <3>4, <4>2 DEF Quiet
    <3> QED BY <3>3, <3>4 DEF Quiet
  <2> QED BY <1>10, <2>1, <2>2
<1> QED BY <1>11, <1>12, <1>13, <1>14, <1>15 DEF Sound

\* A row copied from the delta before changes nothing that is read.
Merged(s, victim, next) ==
  [p \in DOMAIN s[next].rows \cup DOMAIN s[victim].rows |->
     IF p \in DOMAIN s[next].rows THEN s[next].rows[p] ELSE s[victim].rows[p]]
FoldsInto(s, victim, next, s2) == s2 = [s EXCEPT ![next].rows = Merged(s, victim, next)]
Folds(s, trees, v, u, s2) ==
  /\ DOMAIN s \subseteq Nat /\ Sound(s, trees)
  /\ v \in DOMAIN s /\ u \in DOMAIN s /\ s[u].base = s[v].base /\ s[v].base # v /\ v < u
  /\ \A k \in DOMAIN s : s[k].base = s[v].base /\ v < k => u <= k
  /\ FoldsInto(s, v, u, s2)

LEMMA RowsWritten ==
  ASSUME NEW r, IsSnapshot(r), NEW w, NEW r2, r2 = [r EXCEPT !.rows = w]
  PROVE  /\ IsSnapshot(r2) /\ r2.stamp = r.stamp /\ r2.base = r.base
         /\ r2.nodes = r.nodes /\ r2.rows = w
<1>1. PICK t, b0, n0, w0 : r = [stamp |-> t, base |-> b0, nodes |-> n0, rows |-> w0]
  BY DEF IsSnapshot
<1>2. r2 = [stamp |-> t, base |-> b0, nodes |-> n0, rows |-> w]
  BY <1>1
<1> QED BY <1>1, <1>2 DEF IsSnapshot

LEMMA BaseWritten ==
  ASSUME NEW r, IsSnapshot(r), NEW b, NEW r2, r2 = [r EXCEPT !.base = b]
  PROVE  /\ IsSnapshot(r2) /\ r2.stamp = r.stamp /\ r2.base = b
         /\ r2.nodes = r.nodes /\ r2.rows = r.rows
<1>1. PICK t, b0, n0, w0 : r = [stamp |-> t, base |-> b0, nodes |-> n0, rows |-> w0]
  BY DEF IsSnapshot
<1>2. r2 = [stamp |-> t, base |-> b, nodes |-> n0, rows |-> w0]
  BY <1>1
<1> QED BY <1>1, <1>2 DEF IsSnapshot

LEMMA Folding ==
  ASSUME NEW s, NEW trees, NEW v, NEW u, NEW s2, Folds(s, trees, v, u, s2)
  PROVE  /\ Sound(s2, trees) /\ DOMAIN s2 = DOMAIN s
         /\ \A i \in DOMAIN s : s2[i].base = s[i].base /\ s2[i].stamp = s[i].stamp
         /\ DOMAIN s2[v].rows \subseteq DOMAIN s2[u].rows
<1>1. /\ InOrder(s) /\ Based(s) /\ Stores(s, trees) /\ Tells(s, trees) /\ Silent(s, trees)
      /\ DOMAIN s \subseteq Nat
      /\ v \in DOMAIN s /\ u \in DOMAIN s /\ s[u].base = s[v].base /\ s[v].base # v /\ v < u
      /\ \A k \in DOMAIN s : s[k].base = s[v].base /\ v < k => u <= k
  BY DEF Folds, Sound
<1>2. /\ DOMAIN s2 = DOMAIN s /\ s2[u] = [s[u] EXCEPT !.rows = Merged(s, v, u)]
      /\ \A i \in DOMAIN s : i # u => s2[i] = s[i]
  BY <1>1 DEF Folds, FoldsInto
<1>3. IsSnapshot(s[u])
  BY <1>1 DEF Based
<1>4. /\ IsSnapshot(s2[u]) /\ s2[u].stamp = s[u].stamp /\ s2[u].base = s[u].base
      /\ s2[u].nodes = s[u].nodes /\ s2[u].rows = Merged(s, v, u)
  <2>1. PICK m : m = Merged(s, v, u)
    OBVIOUS
  <2>2. PICK r, r2 : r = s[u] /\ r2 = s2[u]
    OBVIOUS
  <2>3. r2 = [r EXCEPT !.rows = m]
    BY <1>2, <2>1, <2>2
  <2>4. IsSnapshot(r)
    BY <1>3, <2>2
  <2>5. /\ IsSnapshot(r2) /\ r2.stamp = r.stamp /\ r2.base = r.base
        /\ r2.nodes = r.nodes /\ r2.rows = m
    BY <2>3, <2>4, RowsWritten
  <2> QED BY <2>1, <2>2, <2>5
<1>5. \A i \in DOMAIN s : /\ s2[i].base = s[i].base /\ s2[i].stamp = s[i].stamp
                          /\ s2[i].nodes = s[i].nodes
                          /\ IsSnapshot(s[i]) => IsSnapshot(s2[i])
                          /\ DOMAIN s[i].rows \subseteq DOMAIN s2[i].rows
  <2>1. DOMAIN s[u].rows \subseteq DOMAIN s2[u].rows
    BY <1>4 DEF Merged
  <2> QED BY <1>2, <1>4, <2>1
<1>6. s[u].base # u
  <2>1. s[u].base <= v
    BY <1>1 DEF Based
  <2>2. s[u].base \in Nat /\ u \in Nat /\ v \in Nat
    BY <1>1 DEF Based
  <2> QED BY <1>1, <2>1, <2>2
<1>7. InOrder(s2)
  BY <1>1, <1>2, <1>5 DEF InOrder
<1>8. Based(s2)
  BY <1>1, <1>2, <1>5 DEF Based
<1>9. Stores(s2, trees)
  BY <1>1, <1>2, <1>5 DEF Stores
<1>10. \A p \in DOMAIN Merged(s, v, u) : p \in Paths /\ Merged(s, v, u)[p] = trees[u][p]
  <2> SUFFICES ASSUME NEW p \in DOMAIN s[u].rows \cup DOMAIN s[v].rows
               PROVE  p \in Paths /\ Merged(s, v, u)[p] = trees[u][p]
    BY DEF Merged
  <2>1. CASE p \in DOMAIN s[u].rows
    BY <1>1, <1>6, <2>1 DEF Tells, Merged
  <2>2. CASE p \notin DOMAIN s[u].rows
    <3>1. p \in Paths /\ s[v].rows[p] = trees[v][p]
      BY <1>1, <2>2 DEF Tells
    <3>2. Quiet(s, v, u, p)
      <4> SUFFICES ASSUME NEW k \in DOMAIN s, s[k].base = s[u].base, v < k, k <= u,
                          p \in DOMAIN s[k].rows
                   PROVE  FALSE
        BY DEF Quiet
      <4>1. u <= k /\ u \in Nat /\ k \in Nat
        BY <1>1
      <4>2. k = u
        BY <4>1
      <4> QED BY <2>2, <4>2
    <3>3. v <= u
      BY <1>1
    <3>4. trees[v][p] = trees[u][p]
      BY <1>1, <3>1, <3>2, <3>3 DEF Silent
    <3> QED BY <2>2, <3>1, <3>4 DEF Merged
  <2> QED BY <2>1, <2>2
<1>11. Tells(s2, trees)
  <2> SUFFICES ASSUME NEW i \in DOMAIN s, s2[i].base # i, NEW p \in DOMAIN s2[i].rows
               PROVE  p \in Paths /\ s2[i].rows[p] = trees[i][p]
    BY <1>2 DEF Tells
  <2>1. CASE i = u
    <3>1. s2[i].rows = Merged(s, v, u)
      BY <1>4, <2>1
    <3>2. p \in DOMAIN Merged(s, v, u)
      BY <3>1
    <3> QED BY <1>10, <2>1, <3>1, <3>2
  <2>2. CASE i # u
    <3>1. s2[i] = s[i]
      BY <1>2, <2>2
    <3> QED BY <1>1, <3>1 DEF Tells
  <2> QED BY <2>1, <2>2
<1>12. Silent(s2, trees)
  <2>1. \A j, i \in DOMAIN s, p \in Paths : Quiet(s2, j, i, p) => Quiet(s, j, i, p)
    BY <1>2, <1>5 DEF Quiet
  <2> QED BY <1>1, <1>2, <1>5, <2>1 DEF Silent
<1>13. DOMAIN s2[v].rows \subseteq DOMAIN s2[u].rows
  <2>1. v # u
    BY <1>1
  <2>2. s2[v] = s[v]
    BY <1>1, <1>2, <2>1
  <2> QED BY <1>4, <2>2 DEF Merged
<1> QED BY <1>2, <1>5, <1>7, <1>8, <1>9, <1>11, <1>12, <1>13 DEF Sound

\* What rewriting the survivors and what goes leave: no base falls.
Rewrites(s, trees, s2) ==
  /\ Sound(s2, trees) /\ DOMAIN s2 \subseteq DOMAIN s
  /\ \A i \in DOMAIN s2 : s[i].base <= s2[i].base

\* What goes is nobody's baseline, and what it told a later one tells as well.
Drops(s, trees, ids, s2) ==
  /\ DOMAIN s \subseteq Nat /\ Sound(s, trees)
  /\ \A i \in DOMAIN s \ ids : s[i].base \notin ids
  /\ \A j, i \in DOMAIN s \ ids, k \in DOMAIN s \cap ids :
       j < k /\ k < i /\ s[j].base = s[i].base /\ s[k].base = s[i].base =>
         \E l \in DOMAIN s \ ids : /\ j < l /\ l <= i /\ s[l].base = s[i].base
                                   /\ DOMAIN s[k].rows \subseteq DOMAIN s[l].rows
  /\ s2 = Without(s, ids)

LEMMA Dropping ==
  ASSUME NEW s, NEW trees, NEW ids, NEW s2, Drops(s, trees, ids, s2)
  PROVE  Rewrites(s, trees, s2)
<1>1. /\ InOrder(s) /\ Based(s) /\ Stores(s, trees) /\ Tells(s, trees) /\ Silent(s, trees)
      /\ DOMAIN s \subseteq Nat /\ \A i \in DOMAIN s \ ids : s[i].base \notin ids
  BY DEF Drops, Sound
<1>2. DOMAIN s2 = DOMAIN s \ ids /\ \A i \in DOMAIN s2 : s2[i] = s[i]
  BY <1>1 DEF Drops, Without
<1>3. InOrder(s2)
  BY <1>1, <1>2 DEF InOrder
<1>4. Based(s2)
  BY <1>1, <1>2 DEF Based
<1>5. Stores(s2, trees) /\ Tells(s2, trees)
  BY <1>1, <1>2 DEF Stores, Tells
<1>6. Silent(s2, trees)
  <2> SUFFICES ASSUME NEW j \in DOMAIN s2, NEW i \in DOMAIN s2, NEW p \in Paths,
                      j <= i, s2[j].base = s2[i].base, Quiet(s2, j, i, p)
               PROVE  trees[j][p] = trees[i][p]
    BY DEF Silent
  <2>1. j \in DOMAIN s \ ids /\ i \in DOMAIN s \ ids /\ s[j].base = s[i].base
    BY <1>2
  <2>2. Quiet(s, j, i, p)
    <3> SUFFICES ASSUME NEW k \in DOMAIN s, s[k].base = s[i].base, j < k, k <= i
                 PROVE  p \notin DOMAIN s[k].rows
      BY DEF Quiet
    <3>1. \A l \in DOMAIN s \ ids : s[l].base = s[i].base /\ j < l /\ l <= i
                                      => p \notin DOMAIN s[l].rows
      BY <1>2 DEF Quiet
    <3>2. CASE k \notin ids
      BY <3>1, <3>2
    <3>3. CASE k \in ids
      <4>1. k < i
        BY <1>1, <2>1, <3>3
      <4>2. \E l \in DOMAIN s \ ids : /\ j < l /\ l <= i /\ s[l].base = s[i].base
                                      /\ DOMAIN s[k].rows \subseteq DOMAIN s[l].rows
        BY <2>1, <3>3, <4>1 DEF Drops
      <4> QED BY <3>1, <4>2
    <3> QED BY <3>2, <3>3
  <2> QED BY <1>1, <2>1, <2>2 DEF Silent
<1>7. \A i \in DOMAIN s2 : s[i].base <= s2[i].base
  BY <1>1, <1>2, <1>4 DEF Based
<1> QED BY <1>2, <1>3, <1>4, <1>5, <1>6, <1>7 DEF Sound, Rewrites

\* Promotion is such a move, of one chain or of several.
Promoting(s, trees, n, h) ==
  /\ trees \in Seq(Trees) /\ n = Len(trees) /\ DOMAIN s \subseteq 1..n /\ Sound(s, trees)
  /\ h \in DOMAIN s /\ s[h].base # h
MovedBy(s, trees, h, i, r) ==
  /\ IsSnapshot(r) /\ r.stamp = s[i].stamp /\ r.base = h
  /\ i = h => r.nodes = trees[h]
  /\ i # h => r.rows = s[i].rows

LEMMA PromotesOne ==
  ASSUME NEW s, NEW trees, NEW n, NEW h, Promoting(s, trees, n, h), NEW i \in DOMAIN s,
         NEW r, r = Promoted(s, h)[i]
  PROVE  /\ Follows(s, h, i) => MovedBy(s, trees, h, i, r) /\ r # s[i]
         /\ ~Follows(s, h, i) => r = s[i]
<1>1. /\ trees \in Seq(Trees) /\ n = Len(trees) /\ n \in Nat /\ DOMAIN s \subseteq 1..n
      /\ Sound(s, trees) /\ h \in DOMAIN s /\ s[h].base # h
  BY DEF Promoting
<1>2. IsSnapshot(s[i]) /\ s[h].base \in DOMAIN s /\ s[h].base # 0 /\ i \in Nat /\ h \in Nat
  BY <1>1 DEF Sound, Based
<1>3. PICK tree : tree = Resolve(s, h)
  OBVIOUS
<1>4. tree = trees[h]
  <2>1. Resolve(s, h) = trees[h]
    BY <1>1, ReadsBack
  <2> QED BY <1>3, <2>1
<1>5. PICK old : old = s[i]
  OBVIOUS
<1>6. r = IF i = h THEN [old EXCEPT !.base = h, !.nodes = tree, !.rows = <<>>]
          ELSE IF i > h /\ old.base = s[h].base THEN [old EXCEPT !.base = h]
          ELSE old
  BY <1>2, <1>3, <1>5 DEF Promoted
<1>7. IsSnapshot(old)
  BY <1>2, <1>5
<1>8. CASE i = h
  <2>0. PICK none : none = <<>>
    OBVIOUS
  <2>1. r = [old EXCEPT !.base = h, !.nodes = tree, !.rows = none]
    BY <1>6, <1>8, <2>0
  <2>2. IsSnapshot(r) /\ r.stamp = old.stamp /\ r.base = h /\ r.nodes = tree
    <3>1. PICK t, b0, n0, w0 : old = [stamp |-> t, base |-> b0, nodes |-> n0, rows |-> w0]
      BY <1>7 DEF IsSnapshot
    <3>2. r = [stamp |-> t, base |-> h, nodes |-> tree, rows |-> none]
      BY <2>1, <3>1
    <3>3. IsSnapshot(r)
      BY <3>2 DEF IsSnapshot
    <3>4. r.stamp = old.stamp
      BY <3>1, <3>2
    <3>5. r.base = h /\ r.nodes = tree
      BY <3>2
    <3> QED BY <3>3, <3>4, <3>5
  <2>3. Follows(s, h, i) /\ r # s[i]
    BY <1>1, <1>2, <1>8, <2>2 DEF Follows
  <2> QED BY <1>4, <1>5, <1>8, <2>2, <2>3 DEF MovedBy
<1>9. CASE i > h /\ old.base = s[h].base
  <2>1. i # h
    BY <1>2, <1>9
  <2>2. r = [old EXCEPT !.base = h]
    BY <1>6, <1>9, <2>1
  <2>3. IsSnapshot(r) /\ r.stamp = old.stamp /\ r.base = h /\ r.rows = old.rows
    BY <1>7, <2>2, BaseWritten
  <2>4. Follows(s, h, i) /\ r # s[i]
    BY <1>1, <1>2, <1>5, <1>9, <2>3 DEF Follows
  <2> QED BY <1>5, <2>1, <2>3, <2>4 DEF MovedBy
<1>10. CASE i # h /\ ~(i > h /\ old.base = s[h].base)
  <2>1. ~Follows(s, h, i)
    BY <1>2, <1>5, <1>10 DEF Follows
  <2>2. r = old
    BY <1>6, <1>10
  <2> QED BY <1>5, <2>1, <2>2
<1> QED BY <1>8, <1>9, <1>10

LEMMA KeepsDomains ==
  ASSUME NEW s, NEW h, NEW H, NEW ids
  PROVE  /\ DOMAIN Promoted(s, h) = DOMAIN s /\ DOMAIN AllPromoted(s, H) = DOMAIN s
         /\ DOMAIN Folded(s, h) = DOMAIN s /\ DOMAIN Prepared(s, h) = DOMAIN s
         /\ DOMAIN Without(s, ids) = DOMAIN s \ ids
<1>1. \A i : DOMAIN Promoted(s, i) = DOMAIN s
  BY DEF Promoted
<1>2. \A i : DOMAIN Folded(s, i) = DOMAIN s
  BY <1>1 DEF Folded
<1>3. DOMAIN Prepared(s, h) = DOMAIN s
  BY <1>1, <1>2 DEF Prepared
<1>4. DOMAIN AllPromoted(s, H) = DOMAIN s
  BY DEF AllPromoted
<1>5. DOMAIN Without(s, ids) = DOMAIN s \ ids
  BY DEF Without
<1> QED BY <1>1, <1>2, <1>3, <1>4, <1>5

LEMMA PromotionMoves ==
  ASSUME NEW s, NEW trees, NEW n, NEW h, Promoting(s, trees, n, h),
         NEW s2, s2 = Promoted(s, h)
  PROVE  Moves(s, trees, {h}, s2)
<1>1. Sound(s, trees) /\ h \in DOMAIN s /\ s[h].base # h /\ DOMAIN s \subseteq Nat
  BY DEF Promoting
<1>2. DOMAIN s2 = DOMAIN s
  BY KeepsDomains
<1>3. ASSUME NEW i \in DOMAIN s
      PROVE  /\ Follows(s, h, i) => MovedBy(s, trees, h, i, s2[i])
             /\ ~Follows(s, h, i) => s2[i] = s[i]
  BY PromotesOne
<1> QED BY <1>1, <1>2, <1>3 DEF Moves, MovedBy

LEMMA PromotionsMove ==
  ASSUME NEW s, NEW trees, NEW n, NEW H \in SUBSET DOMAIN s,
         \A h \in H : Promoting(s, trees, n, h),
         \A g, h \in H : s[g].base = s[h].base => g = h,
         DOMAIN s \subseteq Nat, Sound(s, trees),
         NEW s2, s2 = AllPromoted(s, H)
  PROVE  Moves(s, trees, H, s2)
<1>1. \A h \in H : s[h].base # h
  BY DEF Promoting
<1>2. DOMAIN s2 = DOMAIN s
  BY KeepsDomains
<1>3. ASSUME NEW i \in DOMAIN s
      PROVE  /\ (\A h \in H : ~Follows(s, h, i)) => s2[i] = s[i]
             /\ \A h \in H : Follows(s, h, i) => MovedBy(s, trees, h, i, s2[i])
  <2> DEFINE own == {h \in H : Promoted(s, h)[i] # s[i]}
  <2>1. s2[i] = IF own = {} THEN s[i] ELSE Promoted(s, CHOOSE h \in own : TRUE)[i]
    BY DEF AllPromoted
  <2>2. \A h \in H : /\ Follows(s, h, i) => MovedBy(s, trees, h, i, Promoted(s, h)[i])
                                            /\ Promoted(s, h)[i] # s[i]
                     /\ ~Follows(s, h, i) => Promoted(s, h)[i] = s[i]
    BY PromotesOne
  <2>3. own = {h \in H : Follows(s, h, i)}
    BY <2>2
  <2> HIDE DEF own
  <2>4. \A g, h \in own : g = h
    BY <2>3 DEF Follows
  <2>5. CASE own = {}
    BY <2>1, <2>3, <2>5
  <2>6. ASSUME NEW h \in own
        PROVE  s2[i] = Promoted(s, h)[i]
    <3>1. (CHOOSE g \in own : TRUE) = h
      BY <2>4, <2>6
    <3> QED BY <2>1, <2>6, <3>1
  <2>7. \A h \in H : Follows(s, h, i) => MovedBy(s, trees, h, i, s2[i])
    BY <2>2, <2>3, <2>6
  <2> QED BY <2>3, <2>5, <2>7, <2>1
<1> QED BY <1>1, <1>2, <1>3 DEF Moves, MovedBy

LEMMA MoveRewrites ==
  ASSUME NEW s, NEW trees, NEW H, NEW s2, Moves(s, trees, H, s2)
  PROVE  /\ Rewrites(s, trees, s2) /\ DOMAIN s2 = DOMAIN s
         /\ \A i \in DOMAIN s : s2[i].stamp = s[i].stamp
         /\ \A i \in DOMAIN s, h \in H : Follows(s, h, i) => s2[i].base = h
         /\ \A i \in DOMAIN s : (\A h \in H : ~Follows(s, h, i)) => s2[i].base = s[i].base
<1>1. Sound(s2, trees)
  BY Moving
<1>2. /\ DOMAIN s2 = DOMAIN s /\ H \subseteq DOMAIN s /\ DOMAIN s \subseteq Nat /\ Based(s)
  BY DEF Moves, Sound
<1>3. \A i \in DOMAIN s, h \in H : Follows(s, h, i) => s2[i].base = h /\ s2[i].stamp = s[i].stamp
  BY DEF Moves
<1>4. \A i \in DOMAIN s : (\A h \in H : ~Follows(s, h, i)) => s2[i] = s[i]
  BY DEF Moves
<1>5. \A i \in DOMAIN s : s[i].base <= s2[i].base
  <2> TAKE i \in DOMAIN s
  <2>1. ASSUME NEW h \in H, Follows(s, h, i) PROVE s[i].base <= s2[i].base
    <3>1. s[h].base <= h /\ s[h].base = s[i].base
      BY <1>2, <2>1 DEF Follows, Based
    <3> QED BY <1>3, <2>1, <3>1
  <2>2. CASE \A h \in H : ~Follows(s, h, i)
    <3>1. s2[i].base = s[i].base /\ s[i].base \in Nat
      BY <1>2, <1>4, <2>2 DEF Based
    <3> QED BY <3>1
  <2> QED BY <2>1, <2>2
<1> QED BY <1>1, <1>2, <1>3, <1>4, <1>5 DEF Rewrites

LEMMA RewrittenTwice ==
  ASSUME NEW s, NEW trees, NEW s2, NEW s3, DOMAIN s \subseteq Nat, Based(s),
         Rewrites(s, trees, s2), Rewrites(s2, trees, s3)
  PROVE  Rewrites(s, trees, s3)
<1>1. Sound(s3, trees) /\ DOMAIN s3 \subseteq DOMAIN s /\ Based(s2) /\ Based(s3)
      /\ DOMAIN s2 \subseteq DOMAIN s
  BY DEF Rewrites, Sound
<1>2. ASSUME NEW i \in DOMAIN s3 PROVE s[i].base <= s3[i].base
  <2>1. i \in DOMAIN s2 /\ i \in DOMAIN s
    BY <1>2 DEF Rewrites
  <2>2. s[i].base <= s2[i].base /\ s2[i].base <= s3[i].base
    BY <2>1 DEF Rewrites
  <2>3. s[i].base \in Nat /\ s2[i].base \in Nat /\ s3[i].base \in Nat
    BY <1>1, <2>1 DEF Based
  <2> QED BY <2>2, <2>3
<1> QED BY <1>1, <1>2 DEF Rewrites

\* What delete_snapshot does before the row goes, and that it can go then.
Going(s, trees, n, v) ==
  /\ trees \in Seq(Trees) /\ n = Len(trees) /\ DOMAIN s \subseteq 1..n /\ Sound(s, trees)
  /\ v \in DOMAIN s
LEMMA PreparesBaseline ==
  ASSUME NEW s, NEW trees, NEW n, NEW v, Going(s, trees, n, v), s[v].base = v,
         NEW s2, s2 = Prepared(s, v), NEW s3, s3 = Without(s2, {v})
  PROVE  Rewrites(s, trees, s2) /\ Drops(s2, trees, {v}, s3)
<1>1. /\ n \in Nat /\ DOMAIN s \subseteq 1..n /\ DOMAIN s \subseteq Nat /\ Sound(s, trees)
      /\ InOrder(s) /\ Based(s) /\ v \in DOMAIN s /\ DOMAIN s2 = DOMAIN s
  <2>1. n \in Nat /\ DOMAIN s \subseteq 1..n /\ Sound(s, trees) /\ v \in DOMAIN s
    BY DEF Going
  <2>2. InOrder(s) /\ Based(s)
    BY <2>1 DEF Sound
  <2>3. DOMAIN s2 = DOMAIN s
    BY KeepsDomains
  <2> QED BY <2>1, <2>2, <2>3
<1>2. \A i \in DOMAIN s : s[i].base \in Nat /\ i \in Nat
  BY <1>1 DEF Based
<1>3. s2 = IF Chain(s, v) = {} THEN s ELSE Promoted(s, First(s, Chain(s, v)))
  BY DEF Prepared
<1>4. Rewrites(s, trees, s2) /\ \A i \in DOMAIN s2 \ {v} : s2[i].base # v
  <2>1. CASE Chain(s, v) = {}
    <3>1. \A i \in DOMAIN s \ {v} : s[i].base # v
      BY <2>1 DEF Chain
    <3> QED BY <1>1, <1>2, <1>3, <2>1, <3>1 DEF Rewrites
  <2>2. CASE Chain(s, v) # {}
    <3>1. PICK h, ids : h = First(s, ids) /\ ids = Chain(s, v)
      OBVIOUS
    <3>2. ids \subseteq DOMAIN s
      BY <3>1 DEF Chain
    <3>3. h \in ids /\ \A j \in ids : h <= j
      BY <1>1, <2>2, <3>1, <3>2, FirstIsLeast
    <3>4. h \in DOMAIN s /\ h # v /\ s[h].base = v
      BY <3>1, <3>3 DEF Chain
    <3>5. s2 = Promoted(s, h)
      BY <1>3, <2>2, <3>1
    <3>6. Promoting(s, trees, n, h)
      BY <3>4 DEF Going, Promoting
    <3>7. Moves(s, trees, {h}, s2)
      BY <3>5, <3>6, PromotionMoves
    <3>8. /\ Rewrites(s, trees, s2)
          /\ \A i \in DOMAIN s, g \in {h} : Follows(s, g, i) => s2[i].base = g
          /\ \A i \in DOMAIN s : (\A g \in {h} : ~Follows(s, g, i)) => s2[i].base = s[i].base
      BY <3>7, MoveRewrites
    <3>9. ASSUME NEW i \in DOMAIN s \ {v} PROVE s2[i].base # v
      <4>1. CASE s[i].base = v
        <5>1. Follows(s, h, i)
          BY <3>1, <3>3, <3>4, <4>1 DEF Follows, Chain
        <5> QED BY <3>4, <3>8, <5>1
      <4>2. CASE s[i].base # v
        <5>1. ~Follows(s, h, i)
          BY <3>4, <4>2 DEF Follows
        <5> QED BY <3>8, <4>2, <5>1
      <4> QED BY <4>1, <4>2
    <3> QED BY <1>1, <3>8, <3>9
  <2> QED BY <2>1, <2>2
<1>5. Sound(s2, trees) /\ DOMAIN s2 \subseteq Nat
  BY <1>1, <1>4 DEF Rewrites
\* nothing is replayed over it
<1>6. s2[v].base = v
  <2>1. s[v].base <= s2[v].base
    BY <1>1, <1>4 DEF Rewrites
  <2>2. s2[v].base <= v /\ s2[v].base \in Nat
    BY <1>1, <1>5 DEF Sound, Based
  <2> QED BY <1>2, <1>1, <2>1, <2>2
<1>7. \A j, i \in DOMAIN s2 \ {v}, k \in DOMAIN s2 \cap {v} :
        ~(s2[j].base = s2[i].base /\ s2[k].base = s2[i].base)
  BY <1>4, <1>6
<1>8. Drops(s2, trees, {v}, s3)
  BY <1>4, <1>5, <1>7 DEF Drops
<1> QED BY <1>4, <1>8

LEMMA FoldedIs ==
  ASSUME NEW s, NEW v, NEW after, after = {j \in Chain(s, s[v].base) : j > v},
         NEW u, u = CHOOSE j \in after : \A k \in after : j <= k,
         after # {}, ReplayedNext(s, v, u)
  PROVE  FoldsInto(s, v, u, Folded(s, v))
<1> DEFINE chain == {j \in Chain(s, s[v].base) : j > v}
           next == CHOOSE j \in chain : \A k \in chain : j <= k
<1>1. Folded(s, v) = IF chain = {} THEN s
                     ELSE IF ~ReplayedNext(s, v, next) THEN Promoted(s, next)
                     ELSE [s EXCEPT ![next].rows = Merged(s, v, next)]
  BY DEF Folded, Merged
<1>2. chain = after /\ next = u
  OBVIOUS
<1> HIDE DEF chain, next
<1> QED BY <1>1, <1>2 DEF FoldsInto

LEMMA PreparesDelta ==
  ASSUME NEW s, NEW trees, NEW n, NEW v, Going(s, trees, n, v), s[v].base # v,
         NEW s2, s2 = Prepared(s, v), NEW s3, s3 = Without(s2, {v})
  PROVE  Rewrites(s, trees, s2) /\ Drops(s2, trees, {v}, s3)
<1>1. /\ n \in Nat /\ DOMAIN s \subseteq 1..n /\ DOMAIN s \subseteq Nat /\ Sound(s, trees)
      /\ InOrder(s) /\ Based(s) /\ v \in DOMAIN s /\ DOMAIN s2 = DOMAIN s
  <2>1. n \in Nat /\ DOMAIN s \subseteq 1..n /\ Sound(s, trees) /\ v \in DOMAIN s
    BY DEF Going
  <2>2. InOrder(s) /\ Based(s)
    BY <2>1 DEF Sound
  <2>3. DOMAIN s2 = DOMAIN s
    BY KeepsDomains
  <2> QED BY <2>1, <2>2, <2>3
<1>2. \A i \in DOMAIN s : s[i].base \in Nat /\ i \in Nat
  BY <1>1 DEF Based
<1>3. PICK b : b = s[v].base
  OBVIOUS
<1>4. b \in DOMAIN s /\ b \in Nat /\ b # 0 /\ b <= v /\ b # v /\ s[b].base = b
  BY <1>1, <1>3 DEF Based
<1>5. PICK after : after = {j \in Chain(s, b) : j > v}
  OBVIOUS
<1>6. after \subseteq DOMAIN s /\ \A j \in DOMAIN s : j \in after <=> s[j].base = b /\ v < j
  BY <1>1, <1>4, <1>5 DEF Chain
<1>7. s2 = Folded(s, v)
  BY <1>3, <1>4 DEF Prepared
<1>8. CASE after = {}
  <2>1. s2 = s
    BY <1>3, <1>5, <1>7, <1>8 DEF Folded
  <2>2. Rewrites(s, trees, s2)
    BY <1>1, <1>2, <2>1 DEF Rewrites
  <2>3. \A i \in DOMAIN s \ {v} : s[i].base \notin {v}
    BY <1>1, <1>4, <1>3 DEF Based
  <2>4. \A j, i \in DOMAIN s \ {v}, k \in DOMAIN s \cap {v} :
          ~(k < i /\ s[k].base = s[i].base)
    BY <1>3, <1>6, <1>8
  <2>5. Drops(s2, trees, {v}, s3)
    BY <1>1, <2>1, <2>3, <2>4 DEF Drops
  <2> QED BY <2>2, <2>5
<1>9. CASE after # {}
  <2>1. PICK u : u = CHOOSE j \in after : \A k \in after : j <= k
    OBVIOUS
  <2>2. u \in after /\ \A k \in after : u <= k
    <3>1. after \in SUBSET Nat
      BY <1>1, <1>6
    <3>2. \E j \in after : \A k \in after : j <= k
      BY <1>9, <3>1, LeastOf
    <3> QED BY <2>1, <3>2
  <2>3. u \in DOMAIN s /\ s[u].base = b /\ v < u
    BY <1>6, <2>2
  <2>4. ReplayedNext(s, v, u)
    <3>1. Before(s, v, u)
      BY <1>1, <2>3, BeforeIsLess
    <3>2. ASSUME NEW k \in Chain(s, b), Before(s, v, k), Before(s, k, u) PROVE FALSE
      <4>1. k \in DOMAIN s /\ s[k].base = b
        BY <3>2 DEF Chain
      <4>2. v < k /\ k < u
        BY <1>1, <2>3, <3>2, <4>1, BeforeIsLess
      <4>3. u <= k
        BY <1>6, <2>2, <4>1, <4>2
      <4> QED BY <1>2, <2>3, <4>1, <4>2, <4>3
    <3> QED BY <1>3, <3>1, <3>2 DEF ReplayedNext
  <2>5. FoldsInto(s, v, u, s2)
    <3>1. after = {j \in Chain(s, s[v].base) : j > v}
      BY <1>3, <1>5
    <3>2. FoldsInto(s, v, u, Folded(s, v))
      BY <1>9, <2>1, <2>4, <3>1, FoldedIs
    <3> QED BY <1>7, <3>2
  <2>6. \A k \in DOMAIN s : s[k].base = s[v].base /\ v < k => u <= k
    BY <1>3, <1>6, <2>2
  <2>7. Folds(s, trees, v, u, s2)
    BY <1>1, <1>3, <1>4, <2>3, <2>5, <2>6 DEF Folds
  <2>8. /\ Sound(s2, trees) /\ DOMAIN s2 = DOMAIN s
        /\ \A i \in DOMAIN s : s2[i].base = s[i].base /\ s2[i].stamp = s[i].stamp
        /\ DOMAIN s2[v].rows \subseteq DOMAIN s2[u].rows
    BY <2>7, Folding
  <2>9. Rewrites(s, trees, s2)
    BY <1>2, <2>8 DEF Rewrites
  <2>10. \A i \in DOMAIN s2 \ {v} : s2[i].base \notin {v}
    BY <1>1, <1>3, <1>4, <2>8 DEF Based
  <2>11. ASSUME NEW j \in DOMAIN s2 \ {v}, NEW i \in DOMAIN s2 \ {v}, NEW k \in DOMAIN s2 \cap {v},
                j < k, k < i, s2[j].base = s2[i].base, s2[k].base = s2[i].base
         PROVE  \E l \in DOMAIN s2 \ {v} : /\ j < l /\ l <= i /\ s2[l].base = s2[i].base
                                           /\ DOMAIN s2[k].rows \subseteq DOMAIN s2[l].rows
    <3>1. k = v /\ i \in DOMAIN s /\ j \in DOMAIN s
      BY <2>8, <2>11
    <3>2. s[i].base = b
      BY <1>1, <1>3, <2>8, <2>11, <3>1
    <3>3. u <= i
      BY <1>6, <2>2, <2>11, <3>1, <3>2
    <3>4. j < u /\ u # v
      BY <1>1, <1>2, <2>3, <2>11, <3>1
    <3>5. s2[u].base = s2[i].base
      BY <2>3, <2>8, <3>1, <3>2
    <3> QED BY <2>3, <2>8, <3>1, <3>3, <3>4, <3>5
  <2>12. Drops(s2, trees, {v}, s3)
    <3>1. DOMAIN s2 \subseteq Nat
      BY <1>1
    <3> QED BY <2>8, <2>10, <2>11, <3>1 DEF Drops
  <2> QED BY <2>9, <2>12
<1> QED BY <1>8, <1>9

LEMMA Deletes ==
  ASSUME NEW s, NEW trees, NEW n, NEW v, Going(s, trees, n, v),
         NEW s2, s2 = Prepared(s, v), NEW s3, s3 = Without(s2, {v})
  PROVE  Rewrites(s, trees, s2) /\ Rewrites(s, trees, s3)
<1>1. Rewrites(s, trees, s2) /\ Drops(s2, trees, {v}, s3)
  BY PreparesBaseline, PreparesDelta
<1>2. Rewrites(s2, trees, s3)
  BY <1>1, Dropping
<1>3. DOMAIN s \subseteq Nat /\ Based(s)
  BY DEF Going, Sound
<1> QED BY <1>1, <1>2, <1>3, RewrittenTwice

\* Pruning: what is old is what has low numbers, and each chain that is cut
\* has one heir, the first that stays.
InTables(n) ==
  /\ saved \in Seq(Trees) /\ n = Len(saved) /\ DOMAIN snaps \subseteq 1..n /\ Sound(snaps, saved)
IsHeir(doomed, b, h) ==
  /\ b \in doomed /\ h \in DOMAIN snaps \ doomed /\ snaps[h].base = b /\ h # b
  /\ \A j \in DOMAIN snaps \ doomed : snaps[j].base = b => h <= j

LEMMA HeirIsFirst ==
  ASSUME NEW n, InTables(n), NEW doomed \in SUBSET DOMAIN snaps, NEW b \in doomed,
         NEW ids, ids = Chain(snaps, b) \ doomed, ids # {},
         NEW h, h = First(snaps, ids)
  PROVE  IsHeir(doomed, b, h)
<1>1. n \in Nat /\ DOMAIN snaps \subseteq 1..n /\ InOrder(snaps) /\ Based(snaps)
  BY DEF InTables, Sound
<1>2. ids \subseteq DOMAIN snaps
  BY DEF Chain
<1>3. h \in ids /\ \A j \in ids : h <= j
  BY <1>1, <1>2, FirstIsLeast
<1>4. \A j \in DOMAIN snaps \ doomed : snaps[j].base = b => j \in ids
  BY DEF Chain
<1>5. h \in DOMAIN snaps \ doomed /\ snaps[h].base = b /\ h # b
  BY <1>3 DEF Chain
<1> QED BY <1>3, <1>4, <1>5 DEF IsHeir

LEMMA HeirsAre ==
  ASSUME NEW n, InTables(n), NEW doomed \in SUBSET DOMAIN snaps
  PROVE  /\ \A h \in Heirs(doomed) : \E b \in doomed : IsHeir(doomed, b, h)
         /\ \A i \in DOMAIN snaps \ doomed : snaps[i].base \in doomed =>
              \E h \in Heirs(doomed) : IsHeir(doomed, snaps[i].base, h)
<1>1. ASSUME NEW h \in Heirs(doomed) PROVE \E b \in doomed : IsHeir(doomed, b, h)
  <2>1. PICK b \in Baselines(snaps) \cap doomed :
          Chain(snaps, b) \ doomed # {} /\ h = First(snaps, Chain(snaps, b) \ doomed)
    BY DEF Heirs
  <2> QED BY <2>1, HeirIsFirst
<1>2. ASSUME NEW i \in DOMAIN snaps \ doomed, snaps[i].base \in doomed
      PROVE  \E h \in Heirs(doomed) : IsHeir(doomed, snaps[i].base, h)
  <2>1. PICK b : b = snaps[i].base
    OBVIOUS
  <2>2. b \in Baselines(snaps) \cap doomed /\ i # b
    BY <1>2, <2>1 DEF InTables, Sound, Based, Baselines
  <2>3. PICK ids, h : ids = Chain(snaps, b) \ doomed /\ h = First(snaps, ids)
    OBVIOUS
  <2>4. i \in ids
    BY <2>1, <2>2, <2>3 DEF Chain
  <2>5. h \in Heirs(doomed)
    BY <2>2, <2>3, <2>4 DEF Heirs
  <2>6. IsHeir(doomed, b, h)
    BY <2>2, <2>3, <2>4, HeirIsFirst
  <2> QED BY <2>1, <2>5, <2>6
<1> QED BY <1>1, <1>2

LEMMA Prunes ==
  ASSUME NEW n, InTables(n), NEW cutoff \in Stamps, NEW doomed, doomed = Old(cutoff),
         NEW H \in SUBSET Heirs(doomed), NEW s2, s2 = AllPromoted(snaps, H),
         NEW s3, s3 = Without(s2, doomed)
  PROVE  /\ Rewrites(snaps, saved, s2)
         /\ H = Heirs(doomed) => Rewrites(snaps, saved, s3)
<1>1. /\ saved \in Seq(Trees) /\ n = Len(saved) /\ n \in Nat
      /\ DOMAIN snaps \subseteq 1..n /\ DOMAIN snaps \subseteq Nat
      /\ Sound(snaps, saved) /\ InOrder(snaps) /\ Based(snaps)
  <2>1. saved \in Seq(Trees) /\ n = Len(saved) /\ DOMAIN snaps \subseteq 1..n /\ Sound(snaps, saved)
    BY DEF InTables
  <2> QED BY <2>1 DEF Sound
<1>2. doomed \in SUBSET DOMAIN snaps
  BY DEF Old
<1>3. \A i, j \in DOMAIN snaps : j < i /\ i \in doomed => j \in doomed
  <2> SUFFICES ASSUME NEW i \in DOMAIN snaps, NEW j \in DOMAIN snaps, j < i, i \in doomed
               PROVE  j \in doomed
    OBVIOUS
  <2>1. snaps[i].stamp < cutoff /\ snaps[j].stamp <= snaps[i].stamp
    BY <1>1 DEF Old, InOrder
  <2>2. snaps[i].stamp \in Nat /\ snaps[j].stamp \in Nat /\ cutoff \in Nat
    BY <1>1, StoreAssumption DEF Based
  <2>3. snaps[j].stamp < cutoff
    BY <2>1, <2>2
  <2> QED BY <2>3 DEF Old
<1>4. \A h \in H : \E b \in doomed : IsHeir(doomed, b, h)
  BY <1>2, HeirsAre
<1>5. H \subseteq DOMAIN snaps /\ \A h \in H : h \notin doomed /\ Promoting(snaps, saved, n, h)
  BY <1>1, <1>4 DEF IsHeir, Promoting
<1>6. \A g, h \in H : snaps[g].base = snaps[h].base => g = h
  <2> SUFFICES ASSUME NEW g \in H, NEW h \in H, snaps[g].base = snaps[h].base PROVE g = h
    OBVIOUS
  <2>1. PICK b \in doomed : IsHeir(doomed, b, g)
    BY <1>4
  <2>2. PICK c \in doomed : IsHeir(doomed, c, h)
    BY <1>4
  <2>3. g <= h /\ h <= g
    BY <2>1, <2>2 DEF IsHeir
  <2> QED BY <1>1, <1>5, <2>3
<1>7. Moves(snaps, saved, H, s2)
  BY <1>1, <1>5, <1>6, PromotionsMove
<1>8. /\ Rewrites(snaps, saved, s2) /\ DOMAIN s2 = DOMAIN snaps
      /\ \A i \in DOMAIN snaps, h \in H : Follows(snaps, h, i) => s2[i].base = h
      /\ \A i \in DOMAIN snaps : (\A h \in H : ~Follows(snaps, h, i)) => s2[i].base = snaps[i].base
  BY <1>7, MoveRewrites
<1>9. ASSUME H = Heirs(doomed) PROVE Rewrites(snaps, saved, s3)
  <2>1. ASSUME NEW i \in DOMAIN s2 \ doomed PROVE s2[i].base \notin doomed
    <3>1. ASSUME NEW h \in H, Follows(snaps, h, i) PROVE s2[i].base \notin doomed
      BY <1>5, <1>8, <2>1, <3>1
    <3>2. CASE \A h \in H : ~Follows(snaps, h, i)
      <4>1. s2[i].base = snaps[i].base
        BY <1>8, <2>1, <3>2
      <4>2. CASE snaps[i].base \in doomed
        <5>1. PICK h \in H : IsHeir(doomed, snaps[i].base, h)
          BY <1>2, <1>8, <1>9, <2>1, <4>2, HeirsAre
        <5>2. Follows(snaps, h, i)
          BY <1>8, <2>1, <5>1 DEF IsHeir, Follows
        <5> QED BY <3>2, <5>2
      <4> QED BY <4>1, <4>2
    <3> QED BY <3>1, <3>2
  <2>2. \A j \in DOMAIN s2 \ doomed, k \in DOMAIN s2 \cap doomed : ~(j < k)
    BY <1>3, <1>8
  <2>3. Sound(s2, saved)
    BY <1>8 DEF Rewrites
  <2>4. Drops(s2, saved, doomed, s3)
    BY <1>1, <1>8, <2>1, <2>2, <2>3 DEF Drops
  <2>5. Rewrites(s2, saved, s3)
    BY <2>4, Dropping
  <2> QED BY <1>1, <1>8, <2>5, RewrittenTwice
<1> QED BY <1>8, <1>9

\* What any step of the tables keeps for a read that is under way.
Onward ==
  /\ TablesInv' /\ lastId <= lastId' /\ reading' = reading
  /\ DOMAIN snaps' \cap (1..lastId) \subseteq DOMAIN snaps /\ skewed \subseteq skewed'
  /\ \A i \in 1..lastId : saved'[i] = saved[i]
  /\ \A i \in DOMAIN snaps' \ skewed' : i \in 1..lastId => snaps[i].base <= snaps'[i].base

LEMMA InSight ==
  ASSUME TablesInv
  PROVE  /\ lastId \in Nat /\ lastId = Len(saved) /\ saved \in Seq(Trees)
         /\ DOMAIN snaps \subseteq 1..lastId
         /\ \A i \in DOMAIN snaps \ skewed : /\ Sound(snaps, saved) /\ InTables(lastId)
                                             /\ i \in 1..lastId /\ snaps[i].base \in 1..lastId
BY DEF TablesInv, InTables, Sound, Based

LEMMA ReadsOnward ==
  ASSUME StoreInv, Onward
  PROVE  ReadInv'
<1>1. TablesInv /\ TablesInv' /\ lastId <= lastId' /\ reading' = reading
  BY DEF StoreInv, Onward
<1>2. lastId \in Nat /\ lastId' \in Nat /\ lastId' = Len(saved')
  BY <1>1 DEF TablesInv
<1>3. /\ reading.at \in {"idle", "nodes", "deltas", "done"}
      /\ reading.at # "idle" => IsRead(reading) /\ reading.id \in 1..lastId
  BY DEF StoreInv, ReadInv
<1>4. 1..lastId \subseteq 1..lastId'
  BY <1>1, <1>2
<1>5. ASSUME reading.at # "idle", reading.id \in DOMAIN snaps' \ skewed' PROVE Reads(reading)'
  <2>1. PICK i, b : i = reading.id /\ b = reading.base
    OBVIOUS
  <2>2. i \in 1..lastId /\ i \in DOMAIN snaps \ skewed /\ i \in DOMAIN snaps' \ skewed'
    BY <1>3, <1>5, <2>1 DEF Onward
  <2>3. /\ b \in 1..lastId /\ b <= snaps[i].base
        /\ b = snaps[i].base => /\ reading.at = "deltas" => b # i /\ reading.state = saved[b]
                                /\ reading.at = "done" => reading.state = saved[i]
    BY <1>5, <2>1, <2>2 DEF StoreInv, ReadInv, Reads
  <2>4. snaps[i].base <= snaps'[i].base
    BY <2>2 DEF Onward
  <2>5. snaps[i].base \in Nat
    BY <1>1, <2>2, InSight
  <2>6. snaps'[i].base \in Nat
    <3>1. Sound(snaps', saved')
      BY <1>1, <2>2 DEF TablesInv
    <3> QED BY <1>1, <1>4, <2>2, <3>1 DEF Sound, Based, TablesInv
  <2>7. b <= snaps'[i].base /\ (b = snaps'[i].base => b = snaps[i].base)
    BY <1>2, <2>3, <2>4, <2>5, <2>6
  <2>8. saved'[i] = saved[i] /\ saved'[b] = saved[b]
    BY <2>2, <2>3 DEF Onward
  <2> QED BY <1>1, <1>4, <2>1, <2>3, <2>7, <2>8 DEF Reads
<1> QED BY <1>1, <1>3, <1>4, <1>5 DEF ReadInv

LEMMA RewritesOnward ==
  ASSUME TablesInv, UNCHANGED <<lastId, saved, skewed, reading>>,
         DOMAIN snaps' \subseteq DOMAIN snaps,
         InTables(lastId) => Rewrites(snaps, saved, snaps')
  PROVE  Onward
<1>1. /\ lastId' = lastId /\ saved' = saved /\ skewed' = skewed /\ reading' = reading
      /\ lastId \in Nat
  BY InSight
<1>2. TablesInv'
  <2>1. CASE skewed \cap DOMAIN snaps = {} /\ Sound(snaps, saved)
    <3>1. Sound(snaps', saved)
      BY <2>1, InSight DEF InTables, Rewrites
    <3> QED BY <1>1, <2>1, <3>1 DEF TablesInv
  <2>2. CASE DOMAIN snaps \subseteq skewed
    BY <1>1, <2>2 DEF TablesInv
  <2> QED BY <2>1, <2>2 DEF TablesInv
<1>3. ASSUME NEW i \in DOMAIN snaps' \ skewed' PROVE snaps[i].base <= snaps'[i].base
  <2>1. InTables(lastId)
    BY <1>1, <1>3, InSight
  <2> QED BY <1>3, <2>1 DEF Rewrites
<1> QED BY <1>1, <1>2, <1>3 DEF Onward

LEMMA SaveOnward ==
  ASSUME TablesInv, NEW stamp \in Stamps, NEW found \in Trees, save_snapshot(stamp, found)
  PROVE  Onward
<1>1. PICK i : i = lastId + 1
  OBVIOUS
<1>2. PICK new :
        new = IF NeedsBaseline(snaps) THEN NewBase(stamp, found, i)
              ELSE [stamp |-> stamp, base |-> Latest(snaps, Baselines(snaps)), nodes |-> <<>>,
                    rows |-> Differences(Resolve(snaps, IF snaps = <<>> THEN i
                                                        ELSE Latest(snaps, DOMAIN snaps)), found)]
  OBVIOUS
<1>3. /\ snaps' = Add(snaps, i, new) /\ lastId' = i /\ saved' = Append(saved, found)
      /\ skewed' = IF Disordered(snaps') \/ skewed \cap DOMAIN snaps # {}
                   THEN skewed \cup DOMAIN snaps' ELSE skewed
      /\ reading' = reading
  BY <1>1, <1>2 DEF save_snapshot, NewBase
<1>4. /\ lastId \in Nat /\ lastId = Len(saved) /\ saved \in Seq(Trees) /\ i \in Nat
      /\ DOMAIN snaps \subseteq 1..lastId /\ skewed \subseteq 1..lastId
  BY <1>1 DEF TablesInv
<1>5. /\ DOMAIN snaps' = DOMAIN snaps \cup {i} /\ \A j \in DOMAIN snaps : snaps'[j] = snaps[j]
  BY <1>1, <1>3, <1>4 DEF Add
<1>6. /\ saved' \in Seq(Trees) /\ Len(saved') = i /\ \A j \in 1..lastId : saved'[j] = saved[j]
  BY <1>1, <1>3, <1>4
<1>7. DOMAIN snaps' \subseteq 1..i /\ skewed \subseteq 1..i /\ i \notin skewed
  BY <1>1, <1>4, <1>5
<1>8. stamp \in Nat
  BY StoreAssumption
<1>9. ASSUME ~Disordered(snaps'), skewed \cap DOMAIN snaps = {} PROVE TablesInv'
  <2>1. Sound(snaps, saved)
    <3>1. CASE DOMAIN snaps = {}
      BY <3>1 DEF Sound, InOrder, Based, Stores, Tells, Silent
    <3> QED BY <1>9, <3>1 DEF TablesInv
  <2>2. Saving(snaps, saved, lastId, stamp, found, i, new, snaps', saved')
    BY <1>1, <1>3, <1>4, <1>8, <1>9, <2>1 DEF Saving
  <2>3. Sound(snaps', saved')
    <3>1. CASE NeedsBaseline(snaps)
      BY <1>2, <2>2, <3>1, SavesBaseline
    <3>2. CASE ~NeedsBaseline(snaps)
      <4>1. Baselines(snaps) # {}
        BY <3>2 DEF NeedsBaseline
      <4>2. snaps # <<>>
        BY <4>1 DEF Baselines
      <4>3. new = NewDelta(snaps, stamp, found)
        BY <1>2, <3>2, <4>2 DEF NewDelta
      <4> QED BY <2>2, <4>1, <4>3, SavesDelta
    <3> QED BY <3>1, <3>2
  <2>4. skewed' = skewed /\ skewed' \cap DOMAIN snaps' = {}
    BY <1>3, <1>5, <1>7, <1>9
  <2> QED BY <1>3, <1>6, <1>7, <2>3, <2>4 DEF TablesInv
<1>10. ASSUME Disordered(snaps') \/ skewed \cap DOMAIN snaps # {} PROVE TablesInv'
  <2>1. skewed' = skewed \cup DOMAIN snaps'
    BY <1>3, <1>10
  <2> QED BY <1>3, <1>6, <1>7, <2>1 DEF TablesInv
<1>11. TablesInv'
  BY <1>9, <1>10
<1>12. lastId <= lastId' /\ DOMAIN snaps' \cap (1..lastId) \subseteq DOMAIN snaps
  BY <1>1, <1>3, <1>4, <1>5
<1>13. skewed \subseteq skewed'
  BY <1>3
<1>14. ASSUME NEW j \in DOMAIN snaps' \ skewed', j \in 1..lastId
       PROVE  snaps[j].base <= snaps'[j].base
  <2>1. j \in DOMAIN snaps \ skewed
    BY <1>12, <1>13, <1>14
  <2>2. snaps[j].base \in 1..lastId
    BY <2>1, InSight
  <2> QED BY <1>5, <2>1, <2>2
<1> QED BY <1>3, <1>6, <1>11, <1>12, <1>13, <1>14 DEF Onward

LEMMA DeleteOnward ==
  ASSUME TablesInv, NEW i \in DOMAIN snaps, delete_snapshot(i) \/ DeleteInterrupted(i)
  PROVE  Onward
<1>1. PICK s2, s3 : s2 = Prepared(snaps, i) /\ s3 = Without(s2, {i})
  OBVIOUS
<1>2. (snaps' = s2 \/ snaps' = s3) /\ UNCHANGED <<lastId, saved, skewed, reading>>
  BY <1>1 DEF delete_snapshot, DeleteInterrupted
<1>3. DOMAIN s2 = DOMAIN snaps /\ DOMAIN s3 = DOMAIN s2 \ {i}
  BY <1>1, KeepsDomains
<1>4. ASSUME InTables(lastId) PROVE Rewrites(snaps, saved, s2) /\ Rewrites(snaps, saved, s3)
  <2>1. Going(snaps, saved, lastId, i)
    BY <1>4 DEF InTables, Going
  <2> QED BY <1>1, <2>1, Deletes
<1>5. DOMAIN snaps' \subseteq DOMAIN snaps
  BY <1>2, <1>3
<1>6. InTables(lastId) => Rewrites(snaps, saved, snaps')
  BY <1>2, <1>4
<1> QED BY <1>2, <1>5, <1>6, RewritesOnward

LEMMA PruneOnward ==
  ASSUME TablesInv, NEW cutoff \in Stamps, prune_snapshots(cutoff) \/ PruneInterrupted(cutoff)
  PROVE  Onward
<1>1. PICK doomed : doomed = Old(cutoff)
  OBVIOUS
<1>2. PICK H \in SUBSET Heirs(doomed) :
        \/ snaps' = AllPromoted(snaps, H)
        \/ H = Heirs(doomed) /\ snaps' = Without(AllPromoted(snaps, H), doomed)
  BY <1>1 DEF prune_snapshots, PruneInterrupted
<1>3. UNCHANGED <<lastId, saved, skewed, reading>>
  BY DEF prune_snapshots, PruneInterrupted
<1>4. PICK s2, s3 : s2 = AllPromoted(snaps, H) /\ s3 = Without(s2, doomed)
  OBVIOUS
<1>5. DOMAIN s2 = DOMAIN snaps /\ DOMAIN s3 = DOMAIN s2 \ doomed
  BY <1>4, KeepsDomains
<1>6. snaps' = s2 \/ (H = Heirs(doomed) /\ snaps' = s3)
  BY <1>2, <1>4
<1>7. DOMAIN snaps' \subseteq DOMAIN snaps
  BY <1>5, <1>6
<1>8. ASSUME InTables(lastId) PROVE Rewrites(snaps, saved, snaps')
  <2>1. /\ Rewrites(snaps, saved, s2)
        /\ H = Heirs(doomed) => Rewrites(snaps, saved, s3)
    BY <1>1, <1>4, <1>8, Prunes
  <2> QED BY <1>6, <2>1
<1> QED BY <1>3, <1>7, <1>8, RewritesOnward

\* The statements of a read.
LEMMA ReadRowKeeps ==
  ASSUME StoreInv, NEW i \in DOMAIN snaps, ReadRow(i)
  PROVE  ReadInv'
<1>1. PICK b, a, r : /\ b = snaps[i].base /\ a = (IF b = 0 THEN "done" ELSE "nodes")
                     /\ r = reading.reads + 1
  OBVIOUS
<1>2. reading' = [at |-> a, reads |-> r, id |-> i, base |-> b, state |-> Nothing]
  BY <1>1 DEF ReadRow
<1>3. UNCHANGED <<snaps, lastId, saved, skewed>>
  BY DEF ReadRow
<1>4. IsRead(reading')
  BY <1>2 DEF IsRead
<1>5. reading'.at = a /\ reading'.id = i /\ reading'.base = b
  BY <1>2
<1>6. TablesInv /\ i \in 1..lastId
  BY InSight DEF StoreInv
<1>7. ASSUME i \in DOMAIN snaps \ skewed PROVE Reads(reading)'
  <2>1. b \in 1..lastId
    BY <1>1, <1>6, <1>7, InSight
  <2>2. a = "nodes" /\ b <= b
    BY <1>1, <2>1
  <2> QED BY <1>1, <1>3, <1>5, <2>1, <2>2 DEF Reads
<1> QED BY <1>1, <1>3, <1>4, <1>5, <1>6, <1>7 DEF ReadInv

LEMMA ReadNodesKeeps ==
  ASSUME StoreInv, ReadNodes
  PROVE  ReadInv'
<1>1. UNCHANGED <<snaps, lastId, saved, skewed>> /\ reading.at = "nodes"
  BY DEF ReadNodes
<1>2. TablesInv /\ IsRead(reading) /\ reading.id \in 1..lastId
      /\ (reading.id \in DOMAIN snaps \ skewed => Reads(reading))
  BY <1>1 DEF StoreInv, ReadInv
<1>3. PICK a0, r, i, b, s0 :
        reading = [at |-> a0, reads |-> r, id |-> i, base |-> b, state |-> s0]
  BY <1>2 DEF IsRead
<1>4. reading.id = i /\ reading.base = b
  BY <1>3
<1>5. PICK a, tree : /\ a = (IF b = i THEN "done" ELSE "deltas")
                     /\ tree = (IF b \in Baselines(snaps) THEN snaps[b].nodes ELSE Nothing)
  OBVIOUS
<1>6. reading' = [reading EXCEPT !.at = a, !.state = tree]
  BY <1>4, <1>5 DEF ReadNodes
<1>7. reading' = [at |-> a, reads |-> r, id |-> i, base |-> b, state |-> tree]
  BY <1>3, <1>6
<1>8. reading'.at = a /\ reading'.id = i /\ reading'.base = b /\ reading'.state = tree
  BY <1>7
<1>9. IsRead(reading')
  BY <1>7 DEF IsRead
<1>10. ASSUME i \in DOMAIN snaps \ skewed PROVE Reads(reading)'
  <2>1. b \in 1..lastId /\ b <= snaps[i].base
    BY <1>2, <1>4, <1>10 DEF Reads
  <2>2. ASSUME b = snaps[i].base PROVE tree = saved[b]
    <3>1. Sound(snaps, saved)
      BY <1>2, <1>10, InSight
    <3>2. b \in DOMAIN snaps /\ snaps[b].base = b
      BY <1>10, <2>2, <3>1 DEF Sound, Based
    <3>3. snaps[b].nodes = saved[b]
      BY <3>1, <3>2 DEF Sound, Stores
    <3> QED BY <1>5, <3>2, <3>3 DEF Baselines
  <2>3. (a = "deltas" => b # i) /\ (a = "done" => b = i)
    BY <1>5
  <2> QED BY <1>1, <1>8, <2>1, <2>2, <2>3 DEF Reads
<1> QED BY <1>1, <1>2, <1>4, <1>5, <1>8, <1>9, <1>10 DEF ReadInv

LEMMA ReadDeltasKeeps ==
  ASSUME StoreInv, ReadDeltas
  PROVE  ReadInv'
<1>1. UNCHANGED <<snaps, lastId, saved, skewed>> /\ reading.at = "deltas"
  BY DEF ReadDeltas
<1>2. TablesInv /\ IsRead(reading) /\ reading.id \in 1..lastId
      /\ (reading.id \in DOMAIN snaps \ skewed => Reads(reading))
  BY <1>1 DEF StoreInv, ReadInv
<1>3. PICK a0, r, i, b, s0 :
        reading = [at |-> a0, reads |-> r, id |-> i, base |-> b, state |-> s0]
  BY <1>2 DEF IsRead
<1>4. reading.id = i /\ reading.base = b /\ reading.state = s0
  BY <1>3
<1>5. PICK tree : tree = Overlaid(snaps, s0, {j \in Chain(snaps, b) : j <= i})
  OBVIOUS
<1>6. reading' = [reading EXCEPT !.at = "done", !.state = tree]
  BY <1>4, <1>5 DEF ReadDeltas
<1>7. reading' = [at |-> "done", reads |-> r, id |-> i, base |-> b, state |-> tree]
  BY <1>3, <1>6
<1>8. reading'.at = "done" /\ reading'.id = i /\ reading'.base = b /\ reading'.state = tree
  BY <1>7
<1>9. IsRead(reading')
  BY <1>7 DEF IsRead
<1>10. ASSUME i \in DOMAIN snaps \ skewed PROVE Reads(reading)'
  <2>1. b \in 1..lastId /\ b <= snaps[i].base
    BY <1>2, <1>4, <1>10 DEF Reads
  <2>2. ASSUME b = snaps[i].base PROVE tree = saved[i]
    <3>1. s0 = saved[b]
      BY <1>1, <1>2, <1>4, <1>10, <2>2 DEF Reads
    <3>2. /\ Sound(snaps, saved) /\ lastId \in Nat /\ lastId = Len(saved)
          /\ saved \in Seq(Trees) /\ DOMAIN snaps \subseteq 1..lastId
      BY <1>2, <1>10, InSight
    <3>3. Overlaid(snaps, saved[snaps[i].base], {j \in Chain(snaps, snaps[i].base) : j <= i})
            = saved[i]
      BY <1>10, <3>2, ReadsBack
    <3> QED BY <1>5, <2>2, <3>1, <3>3
  <2> QED BY <1>1, <1>8, <2>1, <2>2 DEF Reads
<1> QED BY <1>1, <1>2, <1>4, <1>8, <1>9, <1>10 DEF ReadInv

LEMMA ReadDoneKeeps ==
  ASSUME StoreInv, ReadDone
  PROVE  ReadInv'
<1>1. reading' = [at |-> "idle", reads |-> reading.reads]
  BY DEF ReadDone
<1>2. reading'.at = "idle"
  BY <1>1
<1> QED BY <1>2 DEF ReadInv

LEMMA StoreStarts == StoreInit => StoreInv
<1> SUFFICES ASSUME StoreInit PROVE StoreInv
  OBVIOUS
<1>1. snaps = <<>> /\ skewed = {} /\ lastId = Len(saved) /\ reading.at = "idle"
  BY DEF StoreInit
<1>2. saved \in Seq(Trees)
  <2>1. PICK n \in Nat : saved \in [1..n -> Trees]
    BY StoreAssumption DEF StoreInit
  <2> QED BY <2>1
<1>3. DOMAIN snaps = {}
  BY <1>1
<1>4. Sound(snaps, saved)
  BY <1>3 DEF Sound, InOrder, Based, Stores, Tells, Silent
<1>5. TablesInv
  BY <1>1, <1>2, <1>3, <1>4 DEF TablesInv
<1> QED BY <1>1, <1>5 DEF StoreInv, ReadInv

LEMMA StoreStays == StoreInv /\ [StoreNext]_storeVars => StoreInv'
<1> SUFFICES ASSUME StoreInv, [StoreNext]_storeVars PROVE StoreInv'
  OBVIOUS
<1>1. TablesInv
  BY DEF StoreInv
<1>2. ASSUME Onward PROVE StoreInv'
  <2>1. TablesInv'
    BY <1>2 DEF Onward
  <2> QED BY <1>2, <2>1, ReadsOnward DEF StoreInv
<1>3. ASSUME UNCHANGED <<snaps, lastId, saved, skewed>>, ReadInv' PROVE StoreInv'
  BY <1>1, <1>3 DEF StoreInv, TablesInv
<1>4. ASSUME NEW t \in Stamps, NEW found \in Trees, save_snapshot(t, found) PROVE StoreInv'
  BY <1>1, <1>2, <1>4, SaveOnward
<1>5. ASSUME NEW i \in DOMAIN snaps, delete_snapshot(i) \/ DeleteInterrupted(i) PROVE StoreInv'
  BY <1>1, <1>2, <1>5, DeleteOnward
<1>6. ASSUME NEW t \in Stamps, prune_snapshots(t) \/ PruneInterrupted(t) PROVE StoreInv'
  BY <1>1, <1>2, <1>6, PruneOnward
<1>7. ASSUME NEW i \in DOMAIN snaps, ReadRow(i) PROVE StoreInv'
  BY <1>3, <1>7, ReadRowKeeps DEF ReadRow
<1>8. CASE ReadNodes
  BY <1>3, <1>8, ReadNodesKeeps DEF ReadNodes
<1>9. CASE ReadDeltas
  BY <1>3, <1>9, ReadDeltasKeeps DEF ReadDeltas
<1>10. CASE ReadDone
  BY <1>3, <1>10, ReadDoneKeeps DEF ReadDone
<1>11. CASE UNCHANGED storeVars
  BY <1>11 DEF storeVars, StoreInv, TablesInv, ReadInv, Reads
<1> QED BY <1>4, <1>5, <1>6, <1>7, <1>8, <1>9, <1>10, <1>11 DEF StoreNext

LEMMA InvReadsBack == StoreInv => ReadsBackAsSaved
<1> SUFFICES ASSUME StoreInv PROVE ReadsBackAsSaved
  OBVIOUS
<1>1. TablesInv /\ ReadInv
  BY DEF StoreInv
<1>2. ASSUME NEW i \in DOMAIN snaps \ skewed
      PROVE  Resolve(snaps, i) = saved[i] /\ Series(snaps, i) = saved[i]
  <2>1. /\ Sound(snaps, saved) /\ lastId \in Nat /\ lastId = Len(saved)
        /\ saved \in Seq(Trees) /\ DOMAIN snaps \subseteq 1..lastId
    BY <1>1, InSight
  <2> QED BY <2>1, ReadsBack
<1>3. ASSUME reading.at = "done", Undisturbed(reading.id, reading.base)
      PROVE  reading.state = IF reading.base = 0 THEN Nothing ELSE saved[reading.id]
  <2>1. reading.id \in DOMAIN snaps \ skewed /\ snaps[reading.id].base = reading.base
    BY <1>3 DEF Undisturbed
  <2>2. Reads(reading)
    BY <1>1, <1>3, <2>1 DEF ReadInv
  <2>3. reading.base \in 1..lastId /\ lastId \in Nat
    BY <1>1, <2>2, InSight DEF Reads
  <2>4. reading.base # 0
    BY <2>3
  <2>5. reading.state = saved[reading.id]
    BY <1>3, <2>1, <2>2 DEF Reads
  <2> QED BY <2>4, <2>5
<1> QED BY <1>2, <1>3 DEF ReadsBackAsSaved, StoredAsSaved, ReadAsSaved

(* Chains of baselines and deltas of any length, saved, deleted, pruned and *)
(* interrupted in any order: a snapshot whose stamps rose with the ids      *)
(* reads back as the tree that was saved, by both readers and by one whose  *)
(* statements the others' writes fall between (storage/database.py:         *)
(* save_snapshot, delete_snapshot, prune_snapshots, _resolve_flat).         *)
THEOREM SnapshotsReadBack == StoreSpec => []ReadsBackAsSaved
<1>1. StoreInit => StoreInv
  BY StoreStarts
<1>2. StoreInv /\ [StoreNext]_storeVars => StoreInv'
  BY StoreStays
<1>3. StoreInv => ReadsBackAsSaved
  BY InvReadsBack
<1> QED BY <1>1, <1>2, <1>3, PTL DEF StoreSpec
=============================================================================
