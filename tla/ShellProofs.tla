----------------------------- MODULE ShellProofs ----------------------------
(***************************************************************************)
(* Proofs about the interactive program: the stack of its screens, the     *)
(* screen that scans and shows, and the configuration, for any mode        *)
(* screens, any users and hosts, any number of scans and changes:          *)
(* Application, Explorer, SettingsForm, Settings.                          *)
(***************************************************************************)
EXTENDS Application, Explorer, Configuration, FiniteSetTheorems, TLAPS

AppSpec == AppInit /\ [][AppNext]_appVars
FormSpec == FormInit /\ [][FormNext]_formVars
SettingSpec == SettingInit /\ [][SettingNext]_settingVars

-----------------------------------------------------------------------------
(* The stack of screens.                                                   *)

Stacks == Seq(Screens) \ {<<>>}

LEMMA Pushed ==
  ASSUME NEW st \in Stacks, NEW s \in Screens
  PROVE  /\ Append(st, s) \in Stacks /\ Len(Append(st, s)) = Len(st) + 1
         /\ Append(st, s)[Len(st) + 1] = s
         /\ \A n \in DOMAIN Append(st, s) :
              n = Len(st) + 1 \/ (n \in DOMAIN st /\ Append(st, s)[n] = st[n])
BY DEF Stacks

LEMMA Popped ==
  ASSUME NEW st \in Stacks, Len(st) > 1
  PROVE  LET below == SubSeq(st, 1, Len(st) - 1) IN
         /\ below \in Stacks /\ Len(below) = Len(st) - 1
         /\ below[Len(below)] = st[Len(st) - 1]
         /\ \A n \in DOMAIN below : n \in DOMAIN st /\ n # Len(st) /\ below[n] = st[n]
BY DEF Stacks

LEMMA Switched ==
  ASSUME NEW st \in Stacks, NEW s \in Screens
  PROVE  LET other == [st EXCEPT ![Len(st)] = s] IN
         /\ other \in Stacks /\ Len(other) = Len(st) /\ other[Len(st)] = s
         /\ \A n \in DOMAIN other : n \in DOMAIN st /\ (n = Len(st) \/ other[n] = st[n])
BY DEF Stacks

LEMMA TopIsThere ==
  ASSUME NEW st \in Stacks
  PROVE  Len(st) \in DOMAIN st /\ st[Len(st)] \in Screens /\ Len(st) \in Nat \ {0}
BY DEF Stacks

LEMMA OneScreen ==
  ASSUME NEW s \in Screens
  PROVE  <<s>> \in Stacks /\ Len(<<s>>) = 1 /\ DOMAIN <<s>> = {1} /\ <<s>>[1] = s
BY DEF Stacks

\* What is drawn and what was last seen of it; a mode screen is drawn before
\* it is in the stack, and one that has never been suspended or resumed since
\* is on top.
LookInv ==
  /\ \A m \in Modes_ : drawn[m] \in 0..epoch \cup {Never} /\ seen[m] \in 0..epoch \cup {Never}
  /\ \A m \in Modes_ : seen[m] = epoch => drawn[m] = epoch
  /\ \A m \in Modes_ : seen[m] = Never /\ drawn[m] # Never => m = TopScreen
  /\ \A n \in DOMAIN stack : stack[n] \in Modes_ => drawn[stack[n]] # Never
  /\ TopScreen \in Modes_ => drawn[TopScreen] = epoch

\* A question or the key map is on top or nowhere.
StackInv ==
  /\ \A n \in DOMAIN stack : stack[n] \in {"confirm", "keymap"} => n = Len(stack)
  /\ ~installed => \A n \in DOMAIN stack : stack[n] \notin Modes_ \cup {"settings"}
  /\ life = "closed" => busy = {}

AppInv == AppTypeOK /\ stack # <<>> /\ LookInv /\ StackInv

LEMMA ModeScreens ==
  /\ Modes_ \subseteq Screens /\ "explorer" \in Modes_
  /\ {"welcome", "settings", "keymap", "confirm"} \subseteq Screens
  /\ \A m \in Modes_ : m \notin {"welcome", "settings", "keymap", "confirm"}
  /\ Never = MaxLooks + 1 /\ MaxLooks \in Nat
BY ShellAssumption DEF Screens, Never

\* A screen that comes on top is drawn in the look of now, and whatever was on
\* top is known to have been.
LEMMA ResumedFresh ==
  ASSUME AppInv, NEW s \in Screens, NEW before,
         before = Suspended(TopScreen) \/ (before = seen /\ TopScreen \notin Modes_),
         Resumed(s, before), epoch' = epoch
  PROVE  /\ drawn' \in [Modes_ -> 0..Never] /\ seen' \in [Modes_ -> 0..Never]
         /\ \A m \in Modes_ :
              /\ drawn'[m] \in 0..epoch \cup {Never} /\ seen'[m] \in 0..epoch \cup {Never}
              /\ seen'[m] = epoch => drawn'[m] = epoch
              /\ ~(seen'[m] = Never /\ drawn'[m] # Never)
              /\ drawn[m] # Never => drawn'[m] # Never
         /\ s \in Modes_ => drawn'[s] = epoch
<1>1. /\ epoch \in 0..MaxLooks /\ drawn \in [Modes_ -> 0..Never] /\ seen \in [Modes_ -> 0..Never]
      /\ Never = MaxLooks + 1 /\ MaxLooks \in Nat
      /\ LookInv
  BY ModeScreens DEF AppInv, AppTypeOK
<1>2. epoch # Never /\ epoch \in 0..Never /\ epoch \in 0..epoch
  BY <1>1
<1>3. before \in [Modes_ -> 0..Never]
  BY <1>1, <1>2 DEF Suspended
<1>4. \A m \in Modes_ : before[m] = IF m = TopScreen THEN epoch ELSE seen[m]
  BY <1>1 DEF Suspended
<1>5. \A m \in Modes_ : before[m] = epoch => drawn[m] = epoch
  BY <1>1, <1>4 DEF LookInv
<1>6. \A m \in Modes_ : before[m] = Never => drawn[m] = Never
  BY <1>1, <1>2, <1>4 DEF LookInv
<1>7. \A m \in Modes_ : /\ drawn[m] \in 0..epoch \cup {Never}
                        /\ before[m] \in 0..epoch \cup {Never}
  BY <1>1, <1>2, <1>4 DEF LookInv
<1>8. CASE s \notin Modes_
  BY <1>1, <1>2, <1>3, <1>5, <1>6, <1>7, <1>8 DEF Resumed
<1>9. CASE s \in Modes_
  <2>1. seen' = [before EXCEPT ![s] = epoch]
    BY <1>9 DEF Resumed
  <2>2. drawn' = [drawn EXCEPT ![s] = epoch]
    <3>1. drawn[s] = Never \/ before[s] \notin {Never, epoch}
            \/ (drawn[s] = epoch /\ drawn = [drawn EXCEPT ![s] = epoch])
      BY <1>1, <1>5, <1>6, <1>9
    <3> QED BY <1>9, <3>1 DEF Resumed
  <2> QED BY <1>1, <1>2, <1>3, <1>5, <1>6, <1>7, <1>9, <2>1, <2>2
<1> QED BY <1>8, <1>9

\* The screen that comes on top of a stack whose others were there before.
LEMMA Arrives ==
  ASSUME AppInv, NEW s \in Screens, NEW before,
         before = Suspended(TopScreen) \/ (before = seen /\ TopScreen \notin Modes_),
         Resumed(s, before), epoch' = epoch,
         stack' \in Stacks, TopScreen' = s,
         \A n \in DOMAIN stack' : stack'[n] = s
                                  \/ \E i \in DOMAIN stack : stack'[n] = stack[i]
  PROVE  LookInv' /\ drawn' \in [Modes_ -> 0..Never] /\ seen' \in [Modes_ -> 0..Never]
<1>1. epoch \in 0..MaxLooks /\ epoch # Never /\ LookInv
  BY ModeScreens DEF AppInv, AppTypeOK
<1>2. /\ drawn' \in [Modes_ -> 0..Never] /\ seen' \in [Modes_ -> 0..Never]
      /\ \A m \in Modes_ :
           /\ drawn'[m] \in 0..epoch \cup {Never} /\ seen'[m] \in 0..epoch \cup {Never}
           /\ seen'[m] = epoch => drawn'[m] = epoch
           /\ ~(seen'[m] = Never /\ drawn'[m] # Never)
           /\ drawn[m] # Never => drawn'[m] # Never
      /\ s \in Modes_ => drawn'[s] = epoch
  BY ResumedFresh
<1>3. \A n \in DOMAIN stack' : stack'[n] \in Modes_ => drawn'[stack'[n]] # Never
  BY <1>1, <1>2 DEF LookInv
<1>4. Never' = Never
  BY DEF Never
<1> QED BY <1>2, <1>3, <1>4 DEF LookInv

\* A step that leaves the stack and its look alone.
LEMMA SameLook ==
  ASSUME AppInv, UNCHANGED <<stack, epoch, drawn, seen>>
  PROVE  LookInv' /\ stack' \in Stacks /\ TopScreen' = TopScreen
BY DEF AppInv, AppTypeOK, LookInv, TopScreen, Stacks, Never

LEMMA AppInitially == AppInit => AppInv
<1> SUFFICES ASSUME AppInit PROVE AppInv
  OBVIOUS
<1>1. MaxLooks \in Nat /\ Never = MaxLooks + 1 /\ 0 # Never /\ 0 \in 0..Never
      /\ 0 \in 0..0 /\ 0 \in 0..MaxLooks
  BY ModeScreens
<1>2. epoch = 0 /\ seen = [m \in Modes_ |-> Never] /\ life = "running"
  BY DEF AppInit
<1>3. CASE stack = <<"welcome">> /\ installed = FALSE
           /\ drawn = [m \in Modes_ |-> Never] /\ busy = {} /\ built = {}
  <2>1. "welcome" \in Screens /\ "welcome" \notin Modes_
    BY ModeScreens
  <2>2. stack \in Stacks /\ Len(stack) = 1 /\ DOMAIN stack = {1} /\ stack[1] = "welcome"
    BY <1>3, <2>1, OneScreen
  <2>3. LookInv
    BY <1>1, <1>2, <1>3, <2>1, <2>2 DEF LookInv, TopScreen
  <2>4. StackInv
    BY <1>2, <1>3, <2>1, <2>2 DEF StackInv
  <2>5. AppTypeOK /\ stack # <<>>
    BY <1>1, <1>2, <1>3, <2>2 DEF AppTypeOK, Stacks
  <2> QED BY <2>3, <2>4, <2>5 DEF AppInv
<1>4. CASE stack = <<"explorer">> /\ installed = TRUE
           /\ drawn = [m \in Modes_ |-> IF m = "explorer" THEN 0 ELSE Never]
           /\ busy = {"scan"} /\ built = {"scan", "monitor"}
  <2>1. "explorer" \in Screens /\ "explorer" \in Modes_
    BY ModeScreens
  <2>2. stack \in Stacks /\ Len(stack) = 1 /\ DOMAIN stack = {1} /\ stack[1] = "explorer"
    BY <1>4, <2>1, OneScreen
  <2>3. LookInv
    BY <1>1, <1>2, <1>4, <2>1, <2>2 DEF LookInv, TopScreen
  <2>4. StackInv
    BY <1>2, <1>4, <2>2 DEF StackInv
  <2>5. AppTypeOK /\ stack # <<>>
    BY <1>1, <1>2, <1>4, <2>2 DEF AppTypeOK, Stacks
  <2> QED BY <2>3, <2>4, <2>5 DEF AppInv
<1> QED BY <1>2, <1>3, <1>4 DEF AppInit

\* What every action does to the types that the look does not say.
LEMMA AppTypes ==
  ASSUME AppInv, AppNext
  PROVE  /\ built' \subseteq {"scan", "monitor"} /\ busy' \subseteq {"scan", "session"}
         /\ life' \in {"running", "leaving", "closed"}
         /\ life' = "closed" => busy' = {}
<1>1. /\ built \subseteq {"scan", "monitor"} /\ busy \subseteq {"scan", "session"}
      /\ life \in {"running", "leaving", "closed"} /\ (life = "closed" => busy = {})
  BY DEF AppInv, AppTypeOK, StackInv
<1>2. CASE WelcomeResult
  BY <1>1, <1>2 DEF WelcomeResult, Alive
<1>3. CASE WelcomeQuit
  BY <1>1, <1>3 DEF WelcomeQuit
<1>4. CASE UNCHANGED <<built, busy, life>>
  BY <1>1, <1>4
<1>5. CASE Works
  BY <1>1, <1>5 DEF Works, Alive
<1>6. CASE PerformQuit_
  BY <1>1, <1>6 DEF PerformQuit_
<1>7. CASE Crashes
  BY <1>1, <1>7 DEF Crashes
<1>8. CASE ForceTeardown
  BY <1>1, <1>8 DEF ForceTeardown
<1>9. CASE PushSettings \/ ShowKeymap \/ DismissSettings_ \/ ChangeLook \/ ShowCleanup
           \/ LookFromTop \/ ActionQuit \/ CloseModal \/ \E m \in Modes_ : SwitchMode(m)
  BY <1>4, <1>9 DEF PushSettings, ShowKeymap, DismissSettings_, ChangeLook, ShowCleanup,
                    LookFromTop, ActionQuit, CloseModal, SwitchMode
<1> QED BY <1>2, <1>3, <1>5, <1>6, <1>7, <1>8, <1>9 DEF AppNext

\* A screen on the stack: over a question or the key map nothing is put.
LEMMA PushKeeps ==
  ASSUME AppInv, NEW s \in Screens, Push(s), epoch' = epoch, installed' = installed,
         TopScreen \notin {"keymap", "confirm"},
         s \in Modes_ \cup {"settings"} => installed, life' = "closed" => busy' = {}
  PROVE  /\ LookInv' /\ StackInv' /\ stack' \in Stacks
         /\ drawn' \in [Modes_ -> 0..Never] /\ seen' \in [Modes_ -> 0..Never]
<1>1. stack \in Stacks
  BY DEF AppInv, AppTypeOK, Stacks
<1>2. stack' = Append(stack, s) /\ Resumed(s, Suspended(TopScreen))
  BY DEF Push
<1>3. /\ stack' \in Stacks /\ Len(stack') = Len(stack) + 1 /\ TopScreen' = s
      /\ stack'[Len(stack')] = s
      /\ \A n \in DOMAIN stack' :
           n = Len(stack') \/ (n \in DOMAIN stack /\ stack'[n] = stack[n])
  BY <1>1, <1>2, Pushed DEF TopScreen
<1>4. LookInv' /\ drawn' \in [Modes_ -> 0..Never] /\ seen' \in [Modes_ -> 0..Never]
  BY <1>2, <1>3, Arrives
<1>5. \A n \in DOMAIN stack : stack[n] \notin {"confirm", "keymap"}
  BY DEF AppInv, StackInv, TopScreen
<1>6. ~installed => \A n \in DOMAIN stack : stack[n] \notin Modes_ \cup {"settings"}
  BY DEF AppInv, StackInv
<1>7. StackInv'
  BY <1>3, <1>5, <1>6 DEF StackInv
<1> QED BY <1>3, <1>4, <1>7

\* A screen gone from the stack.
LEMMA BelowKeeps ==
  ASSUME AppInv, Len(stack) > 1, stack' = SubSeq(stack, 1, Len(stack) - 1),
         installed' = installed, life' = "closed" => busy' = {}
  PROVE  /\ StackInv' /\ stack' \in Stacks /\ TopScreen' = Up /\ Up \in Screens
         /\ \A n \in DOMAIN stack' : \E i \in DOMAIN stack : stack'[n] = stack[i]
         /\ Up \notin {"confirm", "keymap"}
         /\ \E i \in DOMAIN stack : Up = stack[i]
<1>1. stack \in Stacks
  BY DEF AppInv, AppTypeOK, Stacks
<1>2. /\ stack' \in Stacks /\ Len(stack') = Len(stack) - 1 /\ stack'[Len(stack')] = Up
      /\ \A n \in DOMAIN stack' : n \in DOMAIN stack /\ n # Len(stack) /\ stack'[n] = stack[n]
  BY <1>1, Popped DEF Up
<1>3. Len(stack') \in DOMAIN stack' /\ Up \in Screens
  BY <1>2, TopIsThere
<1>4. \A n \in DOMAIN stack : n # Len(stack) => stack[n] \notin {"confirm", "keymap"}
  BY DEF AppInv, StackInv
<1>5. Up \notin {"confirm", "keymap"} /\ \E i \in DOMAIN stack : Up = stack[i]
  BY <1>2, <1>3, <1>4
<1>6. StackInv'
  BY <1>2, <1>4 DEF AppInv, StackInv
<1> QED BY <1>2, <1>3, <1>5, <1>6 DEF TopScreen

LEMMA PopKeeps ==
  ASSUME AppInv, Pop, epoch' = epoch, installed' = installed, life' = "closed" => busy' = {}
  PROVE  /\ LookInv' /\ StackInv' /\ stack' \in Stacks
         /\ drawn' \in [Modes_ -> 0..Never] /\ seen' \in [Modes_ -> 0..Never]
<1>1. Len(stack) > 1 /\ stack' = SubSeq(stack, 1, Len(stack) - 1)
      /\ Resumed(Up, Suspended(TopScreen))
  BY DEF Pop
<1>2. /\ StackInv' /\ stack' \in Stacks /\ TopScreen' = Up /\ Up \in Screens
      /\ \A n \in DOMAIN stack' : \E i \in DOMAIN stack : stack'[n] = stack[i]
  BY <1>1, BelowKeeps
<1> QED BY <1>1, <1>2, Arrives

\* Another mode in the place of the one on top.
LEMMA SwitchKeeps ==
  ASSUME AppInv, NEW m \in Modes_, SwitchMode(m), life' = "closed" => busy' = {}
  PROVE  /\ LookInv' /\ StackInv' /\ stack' \in Stacks
         /\ drawn' \in [Modes_ -> 0..Never] /\ seen' \in [Modes_ -> 0..Never]
<1>1. stack \in Stacks /\ m \in Screens /\ m \notin {"confirm", "keymap"}
  BY ModeScreens DEF AppInv, AppTypeOK, Stacks
<1>2. /\ stack' = [stack EXCEPT ![Len(stack)] = m] /\ Resumed(m, Suspended(TopScreen))
      /\ epoch' = epoch /\ installed /\ installed' = installed
  BY DEF SwitchMode
<1>3. /\ stack' \in Stacks /\ Len(stack') = Len(stack) /\ stack'[Len(stack')] = m
      /\ \A n \in DOMAIN stack' :
           n \in DOMAIN stack /\ (n = Len(stack) \/ stack'[n] = stack[n])
  BY <1>1, <1>2, Switched
<1>4. \A n \in DOMAIN stack' : stack'[n] = m \/ \E i \in DOMAIN stack : stack'[n] = stack[i]
  BY <1>3
<1>5. LookInv' /\ drawn' \in [Modes_ -> 0..Never] /\ seen' \in [Modes_ -> 0..Never]
  BY <1>1, <1>2, <1>3, <1>4, Arrives DEF TopScreen
<1>6. StackInv'
  BY <1>1, <1>2, <1>3 DEF AppInv, StackInv
<1> QED BY <1>3, <1>5, <1>6

\* Settings left: the look that changed meanwhile is drawn on what it reveals.
LEMMA DismissKeeps ==
  ASSUME AppInv, DismissSettings_, life' = "closed" => busy' = {}
  PROVE  /\ LookInv' /\ StackInv' /\ stack' \in Stacks
         /\ drawn' \in [Modes_ -> 0..Never] /\ seen' \in [Modes_ -> 0..Never]
<1>1. /\ Len(stack) > 1 /\ stack' = SubSeq(stack, 1, Len(stack) - 1)
      /\ epoch' = epoch /\ installed' = installed /\ TopScreen = "settings"
      /\ seen' = IF Up \in Modes_ THEN [seen EXCEPT ![Up] = epoch] ELSE seen
      /\ drawn' = IF Up \in Modes_ /\ (epoch # entry \/ seen[Up] \notin {Never, epoch})
                  THEN [drawn EXCEPT ![Up] = epoch] ELSE drawn
  BY DEF DismissSettings_
<1>2. /\ StackInv' /\ stack' \in Stacks /\ TopScreen' = Up /\ Up \in Screens
      /\ \A n \in DOMAIN stack' : \E i \in DOMAIN stack : stack'[n] = stack[i]
      /\ \E i \in DOMAIN stack : Up = stack[i]
  BY <1>1, BelowKeeps
<1>3. /\ epoch \in 0..MaxLooks /\ drawn \in [Modes_ -> 0..Never] /\ seen \in [Modes_ -> 0..Never]
      /\ Never = MaxLooks + 1 /\ MaxLooks \in Nat /\ Never' = Never
      /\ LookInv
  BY ModeScreens DEF AppInv, AppTypeOK, Never
<1>4. epoch # Never /\ epoch \in 0..Never /\ epoch \in 0..epoch
  BY <1>3
\* what it reveals has been seen: only the top screen may not have been
<1>5. /\ \A m \in Modes_ : seen[m] = Never => drawn[m] = Never
      /\ Up \in Modes_ => drawn[Up] # Never /\ seen[Up] # Never
  BY <1>1, <1>2, <1>3, ModeScreens DEF LookInv
<1>6. Up \in Modes_ => drawn' = [drawn EXCEPT ![Up] = epoch]
  <2>1. ASSUME Up \in Modes_, seen[Up] = epoch
        PROVE  drawn = [drawn EXCEPT ![Up] = epoch]
    BY <1>3, <2>1 DEF LookInv
  <2> QED BY <1>1, <1>5, <2>1
<1>7. /\ drawn' \in [Modes_ -> 0..Never] /\ seen' \in [Modes_ -> 0..Never]
      /\ \A m \in Modes_ :
           /\ drawn'[m] = IF m = Up THEN epoch ELSE drawn[m]
           /\ seen'[m] = IF m = Up THEN epoch ELSE seen[m]
  <2>1. CASE Up \in Modes_
    BY <1>1, <1>3, <1>4, <1>6, <2>1
  <2>2. CASE Up \notin Modes_
    BY <1>1, <1>3, <2>2
  <2> QED BY <2>1, <2>2
<1>8. \A n \in DOMAIN stack' : stack'[n] \in Modes_ => drawn'[stack'[n]] # Never
  BY <1>2, <1>3, <1>4, <1>7 DEF LookInv
<1>9. /\ \A m \in Modes_ : drawn'[m] \in 0..epoch \cup {Never} /\ seen'[m] \in 0..epoch \cup {Never}
      /\ \A m \in Modes_ : seen'[m] = epoch => drawn'[m] = epoch
      /\ \A m \in Modes_ : seen'[m] = Never /\ drawn'[m] # Never => m = Up
      /\ Up \in Modes_ => drawn'[Up] = epoch
  BY <1>3, <1>4, <1>5, <1>7 DEF LookInv
<1>10. LookInv'
  BY <1>1, <1>2, <1>3, <1>8, <1>9 DEF LookInv
<1> QED BY <1>2, <1>7, <1>10

\* The look changed: nothing has been seen under the new one.
LEMMA ChangeKeeps ==
  ASSUME AppInv, ChangeLook \/ LookFromTop
  PROVE  /\ LookInv' /\ stack' = stack /\ epoch' \in 0..MaxLooks
         /\ drawn' \in [Modes_ -> 0..Never] /\ seen' \in [Modes_ -> 0..Never]
<1>1. /\ epoch \in 0..MaxLooks /\ drawn \in [Modes_ -> 0..Never] /\ seen \in [Modes_ -> 0..Never]
      /\ Never = MaxLooks + 1 /\ MaxLooks \in Nat /\ Never' = Never
      /\ LookInv
  BY ModeScreens DEF AppInv, AppTypeOK, Never
<1>2. epoch' = epoch + 1 /\ epoch < MaxLooks /\ stack' = stack /\ seen' = seen
  BY DEF ChangeLook, LookFromTop
<1>3. /\ epoch' \in 0..MaxLooks /\ epoch' # Never /\ epoch' \in 0..Never /\ epoch' \in 0..epoch'
      /\ \A x \in 0..epoch : x \in 0..epoch' /\ x # epoch'
  BY <1>1, <1>2
<1>4. TopScreen' = TopScreen
  BY <1>2 DEF TopScreen
<1>5. CASE TopScreen \notin Modes_ /\ drawn' = drawn
  BY <1>1, <1>2, <1>3, <1>4, <1>5 DEF LookInv
<1>6. CASE TopScreen \in Modes_ /\ drawn' = [drawn EXCEPT ![TopScreen] = epoch']
  BY <1>1, <1>2, <1>3, <1>4, <1>6 DEF LookInv
<1>7. "settings" \notin Modes_
  BY ModeScreens
<1> QED BY <1>2, <1>3, <1>5, <1>6, <1>7 DEF ChangeLook, LookFromTop

LEMMA AppStep == AppInv /\ [AppNext]_appVars => AppInv'
<1> SUFFICES ASSUME AppInv, [AppNext]_appVars PROVE AppInv'
  OBVIOUS
<1>1. CASE UNCHANGED appVars
  BY <1>1, SameLook DEF appVars, AppInv, AppTypeOK, StackInv, Never
<1>2. CASE AppNext
  <2>1. /\ built' \subseteq {"scan", "monitor"} /\ busy' \subseteq {"scan", "session"}
        /\ life' \in {"running", "leaving", "closed"}
        /\ life' = "closed" => busy' = {}
    BY <1>2, AppTypes
  <2>2. /\ epoch \in 0..MaxLooks /\ drawn \in [Modes_ -> 0..Never]
        /\ seen \in [Modes_ -> 0..Never] /\ Never' = Never /\ stack \in Stacks
    BY DEF AppInv, AppTypeOK, Never, Stacks
  <2>3. SUFFICES /\ LookInv' /\ StackInv' /\ stack' \in Stacks /\ epoch' \in 0..MaxLooks
                 /\ drawn' \in [Modes_ -> 0..Never] /\ seen' \in [Modes_ -> 0..Never]
    BY <2>1, <2>2 DEF AppInv, AppTypeOK, Stacks
  <2>4. CASE WelcomeResult
    <3>1. /\ stack' = <<"explorer">> /\ installed' = TRUE /\ epoch' = epoch
          /\ TopScreen = "welcome" /\ Resumed("explorer", seen)
      BY <2>4 DEF WelcomeResult
    <3>2. "explorer" \in Screens /\ "welcome" \notin Modes_ /\ "explorer" \in Modes_
          /\ "explorer" \notin {"confirm", "keymap"}
      BY ModeScreens
    <3>3. stack' \in Stacks /\ Len(stack') = 1 /\ DOMAIN stack' = {1} /\ stack'[1] = "explorer"
      BY <3>1, <3>2, OneScreen
    <3>4. LookInv' /\ drawn' \in [Modes_ -> 0..Never] /\ seen' \in [Modes_ -> 0..Never]
      BY <3>1, <3>2, <3>3, Arrives DEF TopScreen
    <3>5. StackInv'
      BY <2>1, <3>1, <3>2, <3>3 DEF StackInv
    <3> QED BY <2>2, <3>1, <3>3, <3>4, <3>5
  <2>5. CASE WelcomeQuit \/ ShowCleanup \/ Works \/ PerformQuit_ \/ Crashes \/ ForceTeardown
    <3>1. UNCHANGED <<stack, epoch, drawn, seen, installed>>
      BY <2>5 DEF WelcomeQuit, ShowCleanup, Works, PerformQuit_, Crashes, ForceTeardown
    <3>2. LookInv' /\ stack' \in Stacks
      BY <3>1, SameLook
    <3>3. StackInv'
      BY <2>1, <3>1 DEF AppInv, StackInv
    <3> QED BY <2>2, <3>1, <3>2, <3>3
  <2>6. CASE \E m \in Modes_ : SwitchMode(m)
    <3>1. PICK m \in Modes_ : SwitchMode(m)
      BY <2>6
    <3>2. epoch' = epoch
      BY <3>1 DEF SwitchMode
    <3> QED BY <2>1, <2>2, <3>1, <3>2, SwitchKeeps
  <2>7. CASE PushSettings
    BY <2>1, <2>2, <2>7, ModeScreens, PushKeeps DEF PushSettings
  <2>8. CASE ShowKeymap
    <3>1. CASE TopScreen = "keymap"
      BY <2>1, <2>2, <2>8, <3>1, PopKeeps DEF ShowKeymap
    <3>2. CASE TopScreen # "keymap"
      <4>1. "keymap" \in Screens /\ "keymap" \notin Modes_ \cup {"settings"}
        BY ModeScreens
      <4> QED BY <2>1, <2>2, <2>8, <3>2, <4>1, PushKeeps DEF ShowKeymap
    <3> QED BY <3>1, <3>2
  <2>9. CASE DismissSettings_
    BY <2>1, <2>2, <2>9, DismissKeeps DEF DismissSettings_
  <2>10. CASE ChangeLook \/ LookFromTop
    <3>1. UNCHANGED <<stack, installed>>
      BY <2>10 DEF ChangeLook, LookFromTop
    <3>2. StackInv'
      BY <2>1, <3>1 DEF AppInv, StackInv
    <3> QED BY <2>2, <2>10, <3>2, ChangeKeeps
  <2>11. CASE ActionQuit
    <3>1. "confirm" \in Screens /\ "confirm" \notin Modes_ \cup {"settings"}
      BY ModeScreens
    <3> QED BY <2>1, <2>2, <2>11, <3>1, PushKeeps DEF ActionQuit
  <2>12. CASE CloseModal
    BY <2>1, <2>2, <2>12, PopKeeps DEF CloseModal
  <2> QED BY <1>2, <2>4, <2>5, <2>6, <2>7, <2>8, <2>9, <2>10, <2>11, <2>12 DEF AppNext
<1> QED BY <1>1, <1>2

LEMMA ShellFollows == AppInv => ShellIsSound
<1> SUFFICES ASSUME AppInv PROVE ShellIsSound
  OBVIOUS
<1>1. TopIsFresh
  BY DEF AppInv, LookInv, TopIsFresh
<1>2. ASSUME NEW s \in {"confirm", "keymap"}
      PROVE  Cardinality({n \in DOMAIN stack : stack[n] = s}) <= 1
  <2>1. {n \in DOMAIN stack : stack[n] = s} \subseteq {Len(stack)}
    BY DEF AppInv, StackInv
  <2>2. IsFiniteSet({Len(stack)}) /\ Cardinality({Len(stack)}) = 1
    BY FS_Singleton
  <2> QED BY <2>1, <2>2, FS_Subset
<1>3. ScreensAreThere
  BY <1>2 DEF AppInv, StackInv, ScreensAreThere
<1> QED BY <1>1, <1>3 DEF ShellIsSound

\* A mode screen on top is drawn in the look of now however it came there, the
\* screens that need a path are there only when there is one, and a process
\* that is over has stopped its scan and its session (RenderEpochRefreshMixin,
\* action_dismiss_settings, check_action, _force_teardown), for any modes and
\* any number of changes.
THEOREM ShellSound == AppSpec => []ShellIsSound
<1>1. AppInit => AppInv
  BY AppInitially
<1>2. AppInv /\ [AppNext]_appVars => AppInv'
  BY AppStep
<1>3. AppInv => ShellIsSound
  BY ShellFollows
<1> QED BY <1>1, <1>2, <1>3, PTL DEF AppSpec

-----------------------------------------------------------------------------
(* The two fields that write back into themselves.                         *)

LEMMA TailKeepsLast ==
  ASSUME NEW S, NEW s \in Seq(S), s # <<>>
  PROVE  /\ Tail(s) \in Seq(S) /\ Head(s) \in S
         /\ Tail(s) # <<>> => Tail(s)[Len(Tail(s))] = s[Len(s)]
         /\ Tail(s) = <<>> => Head(s) = s[Len(s)]
<1>1. Len(s) \in Nat \ {0} /\ DOMAIN s = 1..Len(s) /\ \A i \in 1..Len(s) : s[i] \in S
  OBVIOUS
<1>2. /\ Tail(s) \in Seq(S) /\ Len(Tail(s)) = Len(s) - 1
      /\ \A i \in 1..Len(s) - 1 : Tail(s)[i] = s[i + 1]
  BY <1>1
<1>3. Head(s) = s[1] /\ s[1] \in S
  BY <1>1
<1>4. Tail(s) # <<>> => Len(Tail(s)) \in Nat \ {0}
  BY <1>2
<1>5. Tail(s) # <<>> => Tail(s)[Len(Tail(s))] = s[Len(s)]
  BY <1>1, <1>2, <1>4
<1>6. Tail(s) = <<>> => Len(s) = 1
  <2>1. ASSUME Tail(s) = <<>> PROVE Len(Tail(s)) = 0
    <3>1. Len(<<>>) = 0
      OBVIOUS
    <3> QED BY <2>1, <3>1
  <2> QED BY <1>1, <1>2, <2>1
<1> QED BY <1>2, <1>3, <1>5, <1>6

LEMMA AppendHasLast ==
  ASSUME NEW S, NEW s \in Seq(S), NEW x \in S
  PROVE  /\ Append(s, x) \in Seq(S) /\ Append(s, x) # <<>>
         /\ Append(s, x)[Len(Append(s, x))] = x
OBVIOUS

Typeable == Nat \cup {Empty}
Meaning(text) == IF text = Empty THEN Automatic ELSE text

\* The last message of a field is about what it shows; a correction that is
\* awaited is on its way and already in the configuration.
BoxInv ==
  /\ box \in [text : Typeable, echo : {Empty - 1, Empty, Ceiling}]
  /\ chosen \in Nat /\ posted \in Seq(Typeable)
  /\ posted # <<>> => posted[Len(posted)] = box.text
  /\ box.echo # Empty - 1 => posted # <<>> /\ chosen = Meaning(box.echo)
  /\ posted = <<>> => chosen = Meaning(box.text) /\ chosen <= Ceiling

PickerInv ==
  /\ picker \in [shown : Modes, config : Modes, service : Modes]
  /\ told \in Seq(Modes)
  /\ told # <<>> => told[Len(told)] = picker.shown
  /\ told = <<>> => picker.shown = picker.config
  /\ picker.config = picker.service

LEMMA FormInitially == FormInit => BoxInv /\ PickerInv
<1> SUFFICES ASSUME FormInit PROVE BoxInv /\ PickerInv
  OBVIOUS
<1>1. Ceiling \in Nat \ {0}
  BY FormAssumption
<1>2. PickerInv
  BY DEF FormInit, PickerInv, Modes
<1>3. CASE chosen = Automatic
  <2>1. chosen = 0 /\ posted = <<>> /\ box = [text |-> Empty, echo |-> Empty - 1]
    BY <1>3 DEF FormInit, Automatic
  <2>2. posted \in Seq(Typeable) /\ Empty \in Typeable /\ 0 \in Nat /\ 0 <= Ceiling
    BY <1>1, <2>1 DEF Typeable
  <2>3. chosen = Meaning(box.text) /\ chosen <= Ceiling
    BY <2>1, <2>2 DEF Meaning, Automatic
  <2>4. box.text \in Typeable /\ box \in [text : Typeable, echo : {Empty - 1, Empty, Ceiling}]
        /\ box.echo = Empty - 1
    BY <2>1, <2>2
  <2>5. BoxInv
    BY <2>1, <2>2, <2>3, <2>4 DEF BoxInv
  <2> QED BY <1>2, <2>5
<1>4. CASE chosen # Automatic
  <2>1. chosen \in Nat /\ chosen # Empty /\ posted = <<chosen>>
        /\ box = [text |-> chosen, echo |-> Empty - 1]
    BY <1>1, <1>4 DEF FormInit, Automatic, Empty
  <2>2. /\ posted \in Seq(Typeable) /\ Len(posted) = 1 /\ posted[1] = chosen /\ posted # <<>>
        /\ chosen \in Typeable
    BY <2>1 DEF Typeable
  <2>3. box \in [text : Typeable, echo : {Empty - 1, Empty, Ceiling}]
        /\ box.echo = Empty - 1 /\ box.text = chosen
    BY <2>1, <2>2
  <2>4. BoxInv
    BY <2>1, <2>2, <2>3 DEF BoxInv
  <2> QED BY <1>2, <2>4
<1> QED BY <1>2, <1>3, <1>4

LEMMA TypesKeepBox == BoxInv /\ Types => BoxInv'
<1> SUFFICES ASSUME BoxInv, Types PROVE BoxInv'
  OBVIOUS
<1>1. PICK text \in {IF box.text = Empty THEN d ELSE 10 * box.text + d : d \in Digits}
                    \cup {IF box.text < 10 THEN Empty ELSE box.text \div 10} :
        /\ box' = [box EXCEPT !.text = text] /\ posted' = Append(posted, text)
  BY DEF Types
<1>2. box.text \in Typeable /\ posted \in Seq(Typeable) /\ chosen' = chosen
  BY DEF BoxInv, Types
<1>3. text \in Typeable
  <2>1. CASE text = IF box.text < 10 THEN Empty ELSE box.text \div 10
    BY <1>2, <2>1 DEF Typeable, Empty
  <2>2. CASE \E d \in Digits : text = IF box.text = Empty THEN d ELSE 10 * box.text + d
    BY <1>2, <2>2, FormAssumption DEF Typeable, Empty
  <2> QED BY <1>1, <2>1, <2>2
<1>4. posted' \in Seq(Typeable) /\ posted' # <<>> /\ posted'[Len(posted')] = text
  BY <1>1, <1>2, <1>3, AppendHasLast
<1> QED BY <1>1, <1>2, <1>3, <1>4 DEF BoxInv

LEMMA HandledKeepsBox == BoxInv /\ OnInputChanged => BoxInv'
<1> SUFFICES ASSUME BoxInv, OnInputChanged PROVE BoxInv'
  OBVIOUS
<1> DEFINE value == Head(posted)
           rest == Tail(posted)
<1>1. posted # <<>>
  BY DEF OnInputChanged
<1>2. /\ rest \in Seq(Typeable) /\ value \in Typeable
      /\ rest # <<>> => rest[Len(rest)] = box.text
      /\ rest = <<>> => value = box.text
  BY <1>1, TailKeepsLast DEF BoxInv
<1>3. /\ Ceiling \in Nat \ {0} /\ box \in [text : Typeable, echo : {Empty - 1, Empty, Ceiling}]
      /\ chosen \in Nat /\ box.text \in Typeable
      /\ box.echo # Empty - 1 => chosen = Meaning(box.echo)
  BY FormAssumption DEF BoxInv
\* nothing that is typed looks like no correction
<1>4. value # Empty - 1 /\ Empty # Empty - 1 /\ Ceiling # Empty - 1 /\ Ceiling # Empty
      /\ 0 # Empty
  BY <1>2, <1>3 DEF Typeable, Empty
<1>5. CASE box' = [box EXCEPT !.echo = Empty - 1] /\ posted' = rest
           /\ chosen' \in Nat
           /\ (value = box.text => chosen' = Meaning(box.text) /\ chosen' <= Ceiling)
  BY <1>2, <1>3, <1>5 DEF BoxInv
<1>6. ASSUME NEW v \in {Empty, Ceiling}, value # v, Rewrites(v), chosen' = Meaning(v)
      PROVE  BoxInv'
  <2>1. v \in Typeable /\ chosen' \in Nat /\ box' = [text |-> v, echo |-> v] /\ v # Empty - 1
    BY <1>3, <1>4, <1>6 DEF Rewrites, Typeable, Meaning, Automatic
  <2>2. CASE box.text = v
    <3>1. posted' = rest /\ rest # <<>>
      BY <1>2, <1>6, <2>2 DEF Rewrites
    <3> QED BY <1>2, <1>6, <2>1, <2>2, <3>1 DEF BoxInv
  <2>3. CASE box.text # v
    <3>1. posted' = Append(rest, v)
      BY <1>6, <2>3 DEF Rewrites
    <3>2. posted' \in Seq(Typeable) /\ posted' # <<>> /\ posted'[Len(posted')] = v
      BY <1>2, <2>1, <3>1, AppendHasLast
    <3> QED BY <1>6, <2>1, <3>2 DEF BoxInv
  <2> QED BY <2>2, <2>3
<1>7. CASE value = box.echo /\ box' = [box EXCEPT !.echo = Empty - 1] /\ posted' = rest
           /\ chosen' = chosen
  <2>1. chosen = Meaning(value) /\ value \in {Empty, Ceiling}
    BY <1>3, <1>4, <1>7
  <2>2. Meaning(value) <= Ceiling
    BY <1>3, <1>4, <2>1 DEF Meaning, Automatic
  <2> QED BY <1>3, <1>5, <1>7, <2>1, <2>2
<1>8. CASE value = Empty /\ box' = [box EXCEPT !.echo = Empty - 1] /\ posted' = rest
           /\ chosen' = Automatic
  <2>1. chosen' \in Nat /\ Meaning(value) = Automatic /\ Automatic <= Ceiling
    BY <1>3, <1>8 DEF Meaning, Automatic
  <2> QED BY <1>5, <1>8, <2>1
<1>9. CASE value = 0 /\ Rewrites(Empty) /\ chosen' = Automatic
  BY <1>4, <1>6, <1>9 DEF Meaning
<1>10. CASE value > Ceiling /\ Rewrites(Ceiling) /\ chosen' = Ceiling
  <2>1. value # Ceiling
    BY <1>2, <1>3, <1>10 DEF Typeable, Empty
  <2> QED BY <1>4, <1>6, <1>10, <2>1 DEF Meaning
<1>11. CASE value \in 1..Ceiling /\ box' = [box EXCEPT !.echo = Empty - 1] /\ posted' = rest
            /\ chosen' = value
  <2>1. chosen' \in Nat /\ Meaning(value) = value /\ value <= Ceiling
    BY <1>3, <1>11 DEF Meaning, Empty
  <2> QED BY <1>5, <1>11, <2>1
<1> QED BY <1>7, <1>8, <1>9, <1>10, <1>11 DEF OnInputChanged

LEMMA PickerStep == PickerInv /\ (Picks \/ OnSelectChanged) => PickerInv'
<1> SUFFICES ASSUME PickerInv, Picks \/ OnSelectChanged PROVE PickerInv'
  OBVIOUS
<1>1. CASE Picks
  <2>1. PICK m \in Modes : picker' = [picker EXCEPT !.shown = m] /\ told' = Append(told, m)
    BY <1>1 DEF Picks
  <2>2. told' \in Seq(Modes) /\ told' # <<>> /\ told'[Len(told')] = m
    BY <2>1, AppendHasLast DEF PickerInv
  <2> QED BY <2>1, <2>2 DEF PickerInv
<1>2. CASE OnSelectChanged
  <2>1. told # <<>> /\ told \in Seq(Modes)
    BY <1>2 DEF OnSelectChanged, PickerInv
  <2>2. /\ Tail(told) \in Seq(Modes) /\ Head(told) \in Modes
        /\ Tail(told) # <<>> => Tail(told)[Len(Tail(told))] = picker.shown
        /\ Tail(told) = <<>> => Head(told) = picker.shown
    BY <2>1, TailKeepsLast DEF PickerInv
  <2>3. CASE /\ picker' = [picker EXCEPT !.config = Head(told), !.service = Head(told)]
             /\ told' = Tail(told)
    BY <2>2, <2>3 DEF PickerInv
  <2>4. CASE /\ picker' = [picker EXCEPT !.shown = picker.config]
             /\ told' = IF picker.shown = picker.config THEN Tail(told)
                        ELSE Append(Tail(told), picker.config)
    <3>1. picker.config \in Modes
      BY DEF PickerInv
    <3>2. /\ Append(Tail(told), picker.config) \in Seq(Modes)
          /\ Append(Tail(told), picker.config) # <<>>
          /\ Append(Tail(told), picker.config)[Len(Append(Tail(told), picker.config))]
               = picker.config
      BY <2>2, <3>1, AppendHasLast
    <3>3. CASE picker.shown = picker.config
      BY <2>2, <2>4, <3>3 DEF PickerInv
    <3>4. CASE picker.shown # picker.config
      BY <2>4, <3>1, <3>2, <3>4 DEF PickerInv
    <3> QED BY <3>3, <3>4
  <2> QED BY <1>2, <2>3, <2>4 DEF OnSelectChanged
<1> QED BY <1>1, <1>2

\* When every message has been handled the box shows the number a rescan will
\* use, the picker the mode the monitors work in, and no correction is awaited
\* (on_input_changed, on_select_changed), whatever was typed or picked
\* meanwhile and however often.
THEOREM FormTruthful == FormSpec => []FormTellsTheConfig
<1>1. FormInit => BoxInv /\ PickerInv
  BY FormInitially
<1>2. BoxInv /\ PickerInv /\ [FormNext]_formVars => BoxInv' /\ PickerInv'
  <2> SUFFICES ASSUME BoxInv, PickerInv, [FormNext]_formVars PROVE BoxInv' /\ PickerInv'
    OBVIOUS
  <2>1. ASSUME UNCHANGED <<box, posted, chosen>> PROVE BoxInv'
    BY <2>1 DEF BoxInv, Meaning
  <2>2. ASSUME UNCHANGED <<picker, told>> PROVE PickerInv'
    BY <2>2 DEF PickerInv
  <2>3. CASE Types \/ OnInputChanged
    BY <2>2, <2>3, TypesKeepBox, HandledKeepsBox DEF Types, OnInputChanged
  <2>4. CASE Picks \/ OnSelectChanged
    BY <2>1, <2>4, PickerStep DEF Picks, OnSelectChanged
  <2> QED BY <2>1, <2>2, <2>3, <2>4 DEF FormNext, formVars
<1>3. BoxInv /\ PickerInv => FormTellsTheConfig
  BY DEF BoxInv, PickerInv, FormTellsTheConfig, Meaning
<1> QED BY <1>1, <1>2, <1>3, PTL DEF FormSpec

-----------------------------------------------------------------------------
(* The configuration file and everybody who has a copy of it.              *)

Places == Spots \cup {"none"}
PathMaps == UNION {[S -> [saved : Places, last : Places]] : S \in SUBSET Slots_}
Configs == [of : [Keys -> Raw], aware : BOOLEAN, legacy : Places, paths : PathMaps]
Files == [config : Configs, empty : BOOLEAN]
Copies == [on : BOOLEAN, config : Configs, mine : SUBSET Keys, stale : SUBSET Keys,
           option : {"none", "chosen"}, leaving : BOOLEAN]

\* A value as it was meant, or what this release makes of one it does not know.
Tells(k, value, meant) ==
  \/ value = meant
  \/ meant \in {"strange", "wrong"} /\ value = "default" /\ (k = "strict" => meant = "strange")

OwnPlaces(config, vis) ==
  \A h \in DOMAIN config.paths :
    h # "_default" => config.paths[h].last \in vis[h] \cup {"none"}

\* A copy says what is wanted, but for what has been changed in it, saved by
\* others since, or lost.
GoodCopy(copy, meant, gone, vis) ==
  /\ copy \in Copies /\ copy.config.of \in [Keys -> Meant] /\ OwnPlaces(copy.config, vis)
  /\ copy.on => \A k \in Keys : k \notin copy.stale \cup copy.mine \cup gone =>
                                  Tells(k, copy.config.of[k], meant[k])

\* Who writes has emptied the file, and what it is about to overwrite is known.
FileInv ==
  /\ file \in Files /\ OwnPlaces(file.config, visited)
  /\ writing = "nobody" =>
       \A k \in Keys : k \notin lost => Tells(k, file.config.of[k], wanted[k])
  /\ writing # "nobody" =>
       /\ file.empty /\ held[writing].on
       /\ held[writing].stale \ held[writing].mine \subseteq lost

SettingInv ==
  /\ held \in [Users -> Copies] /\ writing \in Users \cup {"nobody"}
  /\ wanted \in [Keys -> Raw] /\ lost \subseteq Keys
  /\ visited \in [Hosts_ -> SUBSET Spots]
  /\ \A u \in Users : GoodCopy(held[u], wanted, lost, visited)
  /\ FileInv

LEMMA BlankIsEmpty ==
  /\ Blank \in Configs /\ DOMAIN Blank.paths = {} /\ Blank.of = [k \in Keys |-> "default"]
  /\ Emptied \in Files /\ Emptied.empty = TRUE /\ Emptied.config = Blank
  /\ \A vis : OwnPlaces(Blank, vis)
<1>1. /\ Blank.of = [k \in Keys |-> "default"] /\ Blank.of \in [Keys -> Raw]
      /\ Blank.aware \in BOOLEAN /\ Blank.legacy \in Places
  BY DEF Blank, Raw, Meant, Places
<1>2. DOMAIN Blank.paths = {}
  BY DEF Blank
<1>3. Blank.paths \in PathMaps
  <2>1. Blank.paths \in [{} -> [saved : Places, last : Places]]
    BY DEF Blank
  <2>2. {} \in SUBSET Slots_
    OBVIOUS
  <2> QED BY <2>1, <2>2 DEF PathMaps
<1>4. Blank \in Configs
  BY <1>1, <1>3 DEF Blank, Configs
<1>5. Emptied \in Files /\ Emptied.empty = TRUE /\ Emptied.config = Blank
  BY <1>4 DEF Emptied, Contents, Files
<1> QED BY <1>1, <1>2, <1>4, <1>5 DEF OwnPlaces

LEMMA Loaded ==
  ASSUME NEW f \in Files
  PROVE  /\ LoadConfig(f) \in Configs /\ LoadConfig(f).paths = f.config.paths
         /\ LoadConfig(f).of =
              [k \in Keys |-> IF f.config.of[k] \in Meant THEN f.config.of[k] ELSE "default"]
         /\ LoadConfig(f).of \in [Keys -> Meant]
BY DEF LoadConfig, Files, Configs, Meant, Raw

LEMMA GoodLoaded ==
  ASSUME NEW f \in Files, ~Refused(f), NEW option \in {"none", "chosen"},
         NEW meant, NEW gone, NEW vis, OwnPlaces(f.config, vis),
         f.empty \/ \A k \in Keys : k \notin gone => Tells(k, f.config.of[k], meant[k])
  PROVE  /\ GoodCopy(Copy(f, option), meant, gone, vis)
         /\ Copy(f, option).config = LoadConfig(f) /\ Copy(f, option).mine = {}
         /\ Copy(f, option).on = TRUE
<1> DEFINE copy == Copy(f, option)
           config == LoadConfig(f)
<1>1. /\ config \in Configs /\ config.paths = f.config.paths /\ config.of \in [Keys -> Meant]
      /\ \A k \in Keys :
           config.of[k] = IF f.config.of[k] \in Meant THEN f.config.of[k] ELSE "default"
  <2>1. /\ config \in Configs /\ config.paths = f.config.paths /\ config.of \in [Keys -> Meant]
        /\ config.of =
             [k \in Keys |-> IF f.config.of[k] \in Meant THEN f.config.of[k] ELSE "default"]
    BY Loaded
  <2> HIDE DEF config
  <2> QED BY <2>1
<1>2. /\ copy = [on |-> TRUE, config |-> config, mine |-> {},
                 stale |-> IF f.empty THEN Keys ELSE {}, option |-> option, leaving |-> FALSE]
  BY DEF Copy
<1>3. /\ copy \in Copies /\ copy.config = config /\ copy.mine = {} /\ copy.on = TRUE
      /\ f.empty => copy.stale = Keys
  BY <1>1, <1>2 DEF Copies
<1>4. OwnPlaces(config, vis)
  BY <1>1 DEF OwnPlaces
<1>5. ASSUME NEW k \in Keys, k \notin copy.stale \cup copy.mine \cup gone
      PROVE  Tells(k, config.of[k], meant[k])
  <2>1. Tells(k, f.config.of[k], meant[k])
    BY <1>3, <1>5
  <2>2. f.config.of[k] \in Raw
    BY DEF Files, Configs
  <2>3. CASE f.config.of[k] \in Meant
    BY <1>1, <2>1, <2>3
  <2>4. CASE f.config.of[k] \notin Meant
    <3>1. f.config.of[k] = meant[k] /\ meant[k] \in {"strange", "wrong"}
      BY <2>1, <2>2, <2>4 DEF Tells, Raw, Meant
    <3>2. k = "strict" => meant[k] # "wrong"
      BY <3>1 DEF Refused
    <3> QED BY <1>1, <2>4, <3>1, <3>2 DEF Tells
  <2> QED BY <2>3, <2>4
<1> QED BY <1>1, <1>3, <1>4, <1>5 DEF GoodCopy

LEMMA GoodGone ==
  ASSUME NEW meant, NEW gone, NEW vis
  PROVE  GoodCopy(Gone, meant, gone, vis) /\ Gone \in Copies /\ Gone.on = FALSE
<1>1. Emptied \in Files /\ Emptied.config = Blank /\ Blank.of = [k \in Keys |-> "default"]
      /\ \A x : OwnPlaces(Blank, x) /\ Emptied.empty
  BY BlankIsEmpty
<1>2. "strict" \in Keys /\ ~Refused(Emptied)
  BY <1>1 DEF Keys, Refused
<1>3. GoodCopy(Copy(Emptied, "none"), meant, gone, vis)
  BY <1>1, <1>2, GoodLoaded
<1>4. Gone \in Copies /\ Gone.on = FALSE /\ Gone.config = Copy(Emptied, "none").config
  BY <1>3 DEF Gone, GoodCopy, Copies
<1> QED BY <1>3, <1>4 DEF GoodCopy

\* More lost, more visited: a good copy stays one.
LEMMA GoodLater ==
  ASSUME NEW copy, NEW meant, NEW gone, NEW more, NEW vis, NEW later,
         GoodCopy(copy, meant, gone, vis), gone \subseteq more,
         \A h \in DOMAIN copy.config.paths : h # "_default" => vis[h] \subseteq later[h]
  PROVE  GoodCopy(copy, meant, more, later)
BY DEF GoodCopy, OwnPlaces

LEMMA PathHosts ==
  ASSUME NEW config \in Configs
  PROVE  /\ DOMAIN config.paths \subseteq Slots_
         /\ \A h \in DOMAIN config.paths : config.paths[h] \in [saved : Places, last : Places]
<1>1. PICK S \in SUBSET Slots_ : config.paths \in [S -> [saved : Places, last : Places]]
  BY DEF Configs, PathMaps
<1> QED BY <1>1

\* A directory is remembered for the host it was explored on, or for all.
LEMMA Remembered ==
  ASSUME NEW config \in Configs, NEW u \in Users, NEW place \in Spots,
         NEW asDefault \in BOOLEAN, NEW vis, OwnPlaces(config, vis),
         place \in vis[HostOf[u]]
  PROVE  LET next == Remembering(u, config, place, asDefault) IN
         next \in Configs /\ next.of = config.of /\ OwnPlaces(next, vis)
<1> DEFINE e == EffectivePaths(u, config)
           p == [saved |-> IF asDefault THEN place ELSE e.saved, last |-> place]
           key == PathKey(u, config)
           next == Remembering(u, config, place, asDefault)
<1>1. /\ DOMAIN config.paths \subseteq Slots_
      /\ \A h \in DOMAIN config.paths : config.paths[h] \in [saved : Places, last : Places]
  BY PathHosts
<1>2. NoPaths \in [saved : Places, last : Places]
  BY DEF NoPaths, Places
<1>3. e \in [saved : Places, last : Places]
  <2>1. Entry(u, config) \in [saved : Places, last : Places] /\ config.legacy \in Places
    BY <1>1, <1>2 DEF Entry, Configs
  <2> HIDE DEF e
  <2> QED BY <2>1 DEF e, EffectivePaths
<1>4. p \in [saved : Places, last : Places] /\ p.last = place
  BY <1>3 DEF Places
<1>5. key \in Slots_ /\ key \in {HostOf[u], "_default"}
  BY DEF PathKey, Slots_, Hosts_
<1> HIDE DEF e, p, key
<1>6. CASE next = config
  BY <1>6
<1>7. CASE next # config
  <2> DEFINE paths == [h \in DOMAIN config.paths \cup {key} |->
                         IF h = key THEN p ELSE config.paths[h]]
  <2>1. next = [config EXCEPT !.paths = paths, !.legacy = p.saved]
    BY <1>7 DEF Remembering, SetEffectivePaths, e, p, key
  <2>2. /\ DOMAIN paths = {key} \cup DOMAIN config.paths
        /\ paths = [h \in DOMAIN paths |-> paths[h]]
        /\ \A h \in DOMAIN paths : paths[h] = IF h = key THEN p ELSE config.paths[h]
    OBVIOUS
  <2> HIDE DEF paths
  <2>3. paths \in PathMaps
    <3>1. DOMAIN paths \in SUBSET Slots_
      BY <1>1, <1>5, <2>2
    <3>2. paths \in [DOMAIN paths -> [saved : Places, last : Places]]
      BY <1>1, <1>4, <2>2
    <3> QED BY <3>1, <3>2 DEF PathMaps
  <2>4. next \in Configs /\ next.of = config.of /\ next.paths = paths
    BY <1>4, <2>1, <2>3 DEF Configs, paths
  <2>5. OwnPlaces(next, vis)
    BY <1>4, <1>5, <2>2, <2>4 DEF OwnPlaces
  <2> QED BY <2>4, <2>5
<1> QED BY <1>6, <1>7

LEMMA SettingTypes ==
  ASSUME SettingInv
  PROVE  /\ held \in [Users -> Copies] /\ writing \in Users \cup {"nobody"}
         /\ wanted \in [Keys -> Raw] /\ lost \subseteq Keys
         /\ visited \in [Hosts_ -> SUBSET Spots] /\ file \in Files
         /\ OwnPlaces(file.config, visited)
         /\ \A u \in Users : /\ held[u] \in Copies /\ held[u].config \in Configs
                             /\ held[u].config.of \in [Keys -> Meant]
                             /\ OwnPlaces(held[u].config, visited)
BY DEF SettingInv, FileInv, GoodCopy, Copies

\* To explore a directory makes no place a stranger.
LEMMA Explored ==
  ASSUME SettingInv, NEW u \in Users, NEW place \in Spots,
         visited' = [visited EXCEPT ![HostOf[u]] = @ \cup {place}]
  PROVE  /\ visited' \in [Hosts_ -> SUBSET Spots]
         /\ \A h \in Hosts_ : visited[h] \subseteq visited'[h]
         /\ place \in visited'[HostOf[u]]
BY SettingTypes DEF Hosts_

LEMMA OwnLater ==
  ASSUME SettingInv, NEW config \in Configs, OwnPlaces(config, visited),
         \A h \in Hosts_ : visited[h] \subseteq visited'[h]
  PROVE  OwnPlaces(config, visited')
<1>1. \A h \in DOMAIN config.paths : h # "_default" => h \in Hosts_
  BY PathHosts DEF Slots_
<1> QED BY <1>1 DEF OwnPlaces

\* Opening the file to write it.
LEMMA SaveKeeps ==
  ASSUME SettingInv, NEW u \in Users, NEW copy, SaveConfig(u, copy), copy.on,
         GoodCopy(copy, wanted, lost, visited'), wanted' = wanted,
         visited' \in [Hosts_ -> SUBSET Spots],
         \A h \in Hosts_ : visited[h] \subseteq visited'[h]
  PROVE  SettingInv'
<1>1. /\ writing = "nobody" /\ writing' = u /\ u # "nobody" /\ file' = Emptied
      /\ lost' = lost \cup (copy.stale \ copy.mine) /\ held' = [held EXCEPT ![u] = copy]
  BY SettingAssumption DEF SaveConfig
<1>2. copy \in Copies /\ copy.stale \subseteq Keys
  BY DEF GoodCopy, Copies
<1>3. /\ held' \in [Users -> Copies] /\ writing' \in Users \cup {"nobody"}
      /\ wanted' \in [Keys -> Raw] /\ lost' \subseteq Keys /\ held'[u] = copy
      /\ \A v \in Users : v # u => held'[v] = held[v]
  BY <1>1, <1>2, SettingTypes
<1>4. ASSUME NEW v \in Users PROVE GoodCopy(held'[v], wanted', lost', visited')
  <2>1. CASE v = u
    BY <1>1, <1>3, <2>1 DEF GoodCopy
  <2>2. CASE v # u
    <3>1. OwnPlaces(held[v].config, visited')
      BY SettingTypes, OwnLater
    <3>2. GoodCopy(held[v], wanted, lost, visited)
      BY DEF SettingInv
    <3> QED BY <1>1, <1>3, <2>2, <3>1, <3>2 DEF GoodCopy
  <2> QED BY <2>1, <2>2
<1>5. FileInv'
  BY <1>1, <1>3, BlankIsEmpty DEF FileInv
<1> QED BY <1>3, <1>4, <1>5 DEF SettingInv

\* One copy replaced, the file and what is said of it left alone.
LEMMA CopyKeeps ==
  ASSUME SettingInv, NEW u \in Users, NEW copy, held' = [held EXCEPT ![u] = copy],
         GoodCopy(copy, wanted, lost, visited'), writing # u,
         UNCHANGED <<file, writing, wanted, lost>>,
         visited' \in [Hosts_ -> SUBSET Spots],
         \A h \in Hosts_ : visited[h] \subseteq visited'[h]
  PROVE  SettingInv'
<1>1. copy \in Copies
  BY DEF GoodCopy
<1>2. /\ held' \in [Users -> Copies] /\ held'[u] = copy
      /\ \A v \in Users : v # u => held'[v] = held[v]
  BY <1>1, SettingTypes
<1>3. ASSUME NEW v \in Users PROVE GoodCopy(held'[v], wanted', lost', visited')
  <2>1. CASE v = u
    BY <1>2, <2>1
  <2>2. CASE v # u
    <3>1. OwnPlaces(held[v].config, visited')
      BY SettingTypes, OwnLater
    <3>2. GoodCopy(held[v], wanted, lost, visited)
      BY DEF SettingInv
    <3> QED BY <1>2, <2>2, <3>1, <3>2 DEF GoodCopy
  <2> QED BY <2>1, <2>2
<1>4. OwnPlaces(file.config, visited')
  <2>1. file.config \in Configs
    BY SettingTypes DEF Files
  <2> QED BY <2>1, SettingTypes, OwnLater
<1>5. writing # "nobody" => held'[writing] = held[writing]
  BY <1>2, SettingTypes
<1>6. FileInv'
  BY <1>4, <1>5 DEF FileInv, SettingInv
<1> QED BY <1>2, <1>3, <1>6, SettingTypes DEF SettingInv

LEMMA SameVisited ==
  ASSUME SettingInv, visited' = visited
  PROVE  visited' \in [Hosts_ -> SUBSET Spots] /\ \A h \in Hosts_ : visited[h] \subseteq visited'[h]
BY SettingTypes

LEMMA LaunchKeeps ==
  ASSUME SettingInv, NEW u \in Users, Launch(u)
  PROVE  SettingInv'
<1>1. PICK option \in {"none", "chosen"} : held' = [held EXCEPT ![u] = Copy(file, option)]
  BY DEF Launch
<1>2. ~held[u].on /\ ~Refused(file) /\ UNCHANGED <<file, writing, wanted, visited, lost>>
  BY DEF Launch
<1>3. writing # u
  BY <1>2, SettingAssumption DEF SettingInv, FileInv
<1>4. file.empty \/ \A k \in Keys : k \notin lost => Tells(k, file.config.of[k], wanted[k])
  BY DEF SettingInv, FileInv
<1>5. GoodCopy(Copy(file, option), wanted, lost, visited)
  BY <1>2, <1>4, SettingTypes, GoodLoaded
<1> QED BY <1>1, <1>2, <1>3, <1>5, SameVisited, CopyKeeps

LEMMA RememberKeeps ==
  ASSUME SettingInv, NEW u \in Users, RememberLastVisited(u)
  PROVE  SettingInv'
<1>1. PICK place \in Spots, asDefault \in BOOLEAN :
        LET c == Remembering(u, held[u].config, place, asDefault) IN
        /\ visited' = [visited EXCEPT ![HostOf[u]] = @ \cup {place}]
        /\ IF c = held[u].config THEN UNCHANGED <<writing, file, lost, held>>
           ELSE SaveConfig(u, [held[u] EXCEPT !.config = c])
  BY DEF RememberLastVisited
<1> DEFINE c == Remembering(u, held[u].config, place, asDefault)
           copy == [held[u] EXCEPT !.config = c]
<1>2. /\ visited' \in [Hosts_ -> SUBSET Spots] /\ place \in visited'[HostOf[u]]
      /\ \A h \in Hosts_ : visited[h] \subseteq visited'[h]
      /\ wanted' = wanted /\ held[u].on /\ writing # u
  BY <1>1, Explored DEF RememberLastVisited, Running
<1>3. held[u] \in Copies /\ held[u].config \in Configs /\ OwnPlaces(held[u].config, visited')
  BY <1>2, SettingTypes, OwnLater
<1>4. c \in Configs /\ c.of = held[u].config.of /\ OwnPlaces(c, visited')
  BY <1>2, <1>3, Remembered
<1> HIDE DEF c
<1>5. GoodCopy(copy, wanted, lost, visited') /\ copy.on
  <2>1. /\ copy \in Copies /\ copy.config = c /\ copy.on = held[u].on
        /\ copy.stale = held[u].stale /\ copy.mine = held[u].mine
    BY <1>3, <1>4 DEF Copies
  <2>2. GoodCopy(held[u], wanted, lost, visited)
    BY DEF SettingInv
  <2> QED BY <1>2, <1>4, <2>1, <2>2 DEF GoodCopy
<1>6. CASE c = held[u].config
  <2>1. held' = [held EXCEPT ![u] = copy] /\ UNCHANGED <<writing, file, lost>>
    <3>1. copy = held[u]
      BY <1>3, <1>6 DEF Copies
    <3>2. UNCHANGED <<writing, file, lost, held>>
      BY <1>1, <1>6 DEF c
    <3> HIDE DEF copy
    <3> QED BY <3>1, <3>2, SettingTypes
  <2> HIDE DEF copy
  <2> QED BY <1>2, <1>5, <2>1, CopyKeeps
<1>7. CASE c # held[u].config
  <2>1. SaveConfig(u, copy)
    BY <1>1, <1>7 DEF c
  <2> HIDE DEF copy
  <2> QED BY <1>2, <1>5, <2>1, SaveKeeps
<1> QED BY <1>6, <1>7

LEMMA ChangeKeepsCopy ==
  ASSUME SettingInv, NEW u \in Users, OnChange(u)
  PROVE  SettingInv'
<1>1. /\ held[u].on /\ writing # u /\ UNCHANGED <<file, writing, wanted, visited, lost>>
  BY DEF OnChange, Running
<1>2. /\ held[u] \in Copies /\ held[u].config \in Configs
      /\ held[u].config.of \in [Keys -> Meant] /\ held \in [Users -> Copies]
      /\ GoodCopy(held[u], wanted, lost, visited)
  BY SettingTypes DEF SettingInv
<1>3. ASSUME NEW k \in Keys, NEW v \in Meant,
             held' = [held EXCEPT ![u].config.of[k] = v, ![u].mine = @ \cup {k}]
      PROVE  SettingInv'
  <2> DEFINE of == [held[u].config.of EXCEPT ![k] = v]
             config == [held[u].config EXCEPT !.of = of]
             copy == [held[u] EXCEPT !.config = config, !.mine = @ \cup {k}]
  <2>1. held' = [held EXCEPT ![u] = copy]
    BY <1>2, <1>3 DEF Copies, Configs
  <2>2. of \in [Keys -> Meant] /\ of \in [Keys -> Raw]
        /\ \A j \in Keys : j # k => of[j] = held[u].config.of[j]
    BY <1>2 DEF Raw
  <2>3. config \in Configs /\ config.of = of /\ config.paths = held[u].config.paths
    <3> HIDE DEF of
    <3> QED BY <1>2, <2>2 DEF Configs
  <2>4. /\ copy \in Copies /\ copy.config = config /\ copy.mine = held[u].mine \cup {k}
        /\ copy.stale = held[u].stale /\ copy.on = held[u].on
    <3> HIDE DEF config
    <3> QED BY <1>2, <2>3 DEF Copies
  <2> HIDE DEF copy, config, of
  <2>5. GoodCopy(copy, wanted, lost, visited)
    BY <1>2, <2>2, <2>3, <2>4 DEF GoodCopy, OwnPlaces
  <2> QED BY <1>1, <2>1, <2>5, SameVisited, CopyKeeps
<1>4. ASSUME held' = [held EXCEPT ![u].config.aware = ~@]
      PROVE  SettingInv'
  <2> DEFINE config == [held[u].config EXCEPT !.aware = ~@]
             copy == [held[u] EXCEPT !.config = config]
  <2>1. held' = [held EXCEPT ![u] = copy]
    BY <1>2, <1>4 DEF Copies, Configs
  <2>2. /\ config \in Configs /\ config.of = held[u].config.of
        /\ config.paths = held[u].config.paths
    BY <1>2 DEF Configs
  <2>3. /\ copy \in Copies /\ copy.config = config /\ copy.mine = held[u].mine
        /\ copy.stale = held[u].stale /\ copy.on = held[u].on
    <3> HIDE DEF config
    <3> QED BY <1>2, <2>2 DEF Copies
  <2> HIDE DEF copy, config
  <2>4. GoodCopy(copy, wanted, lost, visited)
    BY <1>2, <2>2, <2>3 DEF GoodCopy, OwnPlaces
  <2> QED BY <1>1, <2>1, <2>4, SameVisited, CopyKeeps
<1> QED BY <1>3, <1>4 DEF OnChange

LEMMA DismissOrQuitKeeps ==
  ASSUME SettingInv, NEW u \in Users, DismissSettings(u) \/ PerformQuit(u)
  PROVE  SettingInv'
<1>1. /\ GoodCopy(held[u], wanted, lost, visited) /\ held[u].on /\ held[u] \in Copies
      /\ wanted' = wanted /\ visited' = visited
  BY SettingTypes DEF SettingInv, DismissSettings, PerformQuit, Running
<1>2. CASE DismissSettings(u)
  BY <1>1, <1>2, SameVisited, SaveKeeps DEF DismissSettings
<1>3. CASE PerformQuit(u)
  <2> DEFINE copy == [held[u] EXCEPT !.leaving = TRUE]
  <2>1. /\ copy \in Copies /\ copy.on = held[u].on /\ copy.config = held[u].config
        /\ copy.mine = held[u].mine /\ copy.stale = held[u].stale
    BY <1>1 DEF Copies
  <2>2. SaveConfig(u, copy)
    BY <1>3 DEF PerformQuit
  <2> HIDE DEF copy
  <2>3. GoodCopy(copy, wanted, lost, visited)
    BY <1>1, <2>1 DEF GoodCopy
  <2> QED BY <1>1, <2>1, <2>2, <2>3, SameVisited, SaveKeeps
<1> QED BY <1>2, <1>3

LEMMA ToggleKeeps ==
  ASSUME SettingInv, NEW u \in Users, ToggleRulePack(u)
  PROVE  SettingInv'
<1>1. /\ ~Refused(file) /\ UNCHANGED <<wanted, visited>>
  BY DEF ToggleRulePack
<1> DEFINE v == IF LoadConfig(file).of["lenient"] = "chosen" THEN "default" ELSE "chosen"
           base == Copy(file, "none")
           copy == [base EXCEPT !.config.of["lenient"] = v, !.mine = {"lenient"}, !.leaving = TRUE]
<1>2. SaveConfig(u, copy)
  BY DEF ToggleRulePack
<1>3. v \in Meant /\ "lenient" \in Keys
  BY DEF Meant, Keys
<1>4. file.empty \/ \A k \in Keys : k \notin lost => Tells(k, file.config.of[k], wanted[k])
  <2>1. writing = "nobody"
    BY <1>2 DEF SaveConfig
  <2> QED BY <2>1 DEF SettingInv, FileInv
<1>5. GoodCopy(base, wanted, lost, visited) /\ base.on = TRUE /\ base.mine = {}
  BY <1>1, <1>4, SettingTypes, GoodLoaded
<1>6. base \in Copies /\ base.config \in Configs /\ base.config.of \in [Keys -> Meant]
  BY <1>5 DEF GoodCopy, Copies
<1> HIDE DEF v, base
<1> DEFINE of == [base.config.of EXCEPT !["lenient"] = v]
           config == [base.config EXCEPT !.of = of]
<1>7. copy = [base EXCEPT !.config = config, !.mine = {"lenient"}, !.leaving = TRUE]
  BY <1>6 DEF Copies, Configs
<1>8. of \in [Keys -> Meant] /\ of \in [Keys -> Raw]
      /\ \A j \in Keys : j # "lenient" => of[j] = base.config.of[j]
  BY <1>3, <1>6 DEF Raw
<1>9. config \in Configs /\ config.of = of /\ config.paths = base.config.paths
  <2> HIDE DEF of
  <2> QED BY <1>6, <1>8 DEF Configs
<1>10. /\ copy \in Copies /\ copy.config = config /\ copy.mine = {"lenient"}
       /\ copy.stale = base.stale /\ copy.on = base.on
  <2> HIDE DEF config, copy
  <2> QED BY <1>3, <1>6, <1>7, <1>9 DEF Copies
<1> HIDE DEF copy, config, of
<1>11. GoodCopy(copy, wanted, lost, visited)
  BY <1>5, <1>8, <1>9, <1>10 DEF GoodCopy, OwnPlaces
<1> QED BY <1>1, <1>2, <1>5, <1>10, <1>11, SameVisited, SaveKeeps

\* Those who have a copy learn of what has been saved beside it.
LEMMA StalerCopies ==
  ASSUME NEW copies \in [Users -> Copies], NEW keys \in SUBSET Keys
  PROVE  /\ Staler(copies, keys) \in [Users -> Copies]
         /\ \A u \in Users :
              /\ ~copies[u].on => Staler(copies, keys)[u] = copies[u]
              /\ copies[u].on =>
                   /\ Staler(copies, keys)[u].on = copies[u].on
                   /\ Staler(copies, keys)[u].config = copies[u].config
                   /\ Staler(copies, keys)[u].mine = copies[u].mine
                   /\ Staler(copies, keys)[u].leaving = copies[u].leaving
                   /\ Staler(copies, keys)[u].stale = copies[u].stale \cup keys
<1>1. ASSUME NEW u \in Users
      PROVE  /\ Staler(copies, keys)[u] \in Copies
             /\ ~copies[u].on => Staler(copies, keys)[u] = copies[u]
             /\ copies[u].on =>
                  Staler(copies, keys)[u] = [copies[u] EXCEPT !.stale = @ \cup keys]
  <2>1. copies[u] \in Copies
    OBVIOUS
  <2>2. [copies[u] EXCEPT !.stale = @ \cup keys] \in Copies
    BY <2>1 DEF Copies
  <2> QED BY <2>1, <2>2 DEF Staler
<1>2. Staler(copies, keys) \in [Users -> Copies]
  BY <1>1 DEF Staler
<1>3. \A u \in Users : copies[u] \in Copies
  OBVIOUS
<1> QED BY <1>1, <1>2, <1>3 DEF Copies

LEMMA WrittenKeeps ==
  ASSUME SettingInv, NEW u \in Users, Written(u)
  PROVE  SettingInv'
<1> DEFINE mine == held[u].mine
           others == Staler(held, mine)
           set == [others EXCEPT ![u] = held[u]]
<1>1. /\ writing = u /\ writing' = "nobody" /\ u # "nobody" /\ visited' = visited
      /\ file' = Contents(held[u].config, FALSE)
      /\ wanted' = [k \in Keys |-> IF k \in mine THEN held[u].config.of[k] ELSE wanted[k]]
      /\ lost' = lost \ mine
      /\ held' = Leave(set, u)
  BY SettingAssumption DEF Written
<1>2. /\ held[u].on /\ held[u].stale \ mine \subseteq lost
      /\ GoodCopy(held[u], wanted, lost, visited) /\ held[u] \in Copies
      /\ held \in [Users -> Copies] /\ mine \in SUBSET Keys
  BY <1>1, SettingTypes DEF SettingInv, FileInv, Copies
<1>3. /\ others \in [Users -> Copies] /\ set \in [Users -> Copies] /\ set[u] = held[u]
      /\ \A v \in Users : v # u => set[v] = others[v]
  BY <1>2, StalerCopies
\* what is written is what is wanted, where nothing is lost
<1>4. ASSUME NEW k \in Keys, k \notin lost' PROVE Tells(k, held[u].config.of[k], wanted'[k])
  <2>1. CASE k \in mine
    BY <1>1, <2>1 DEF Tells
  <2>2. CASE k \notin mine
    BY <1>1, <1>2, <1>4, <2>2 DEF GoodCopy
  <2> QED BY <2>1, <2>2
<1>5. ASSUME NEW v \in Users, v # u
      PROVE  GoodCopy(set[v], wanted', lost', visited')
  <2>1. GoodCopy(held[v], wanted, lost, visited) /\ set[v] = others[v] /\ set[v] \in Copies
    BY <1>3, <1>5 DEF SettingInv
  <2>2. CASE held[v].on
    <3>1. set[v].config = held[v].config /\ set[v].mine = held[v].mine
          /\ set[v].stale = held[v].stale \cup mine /\ set[v].on
      BY <1>2, <2>1, <2>2, StalerCopies
    <3>2. \A k \in Keys : k \notin set[v].stale \cup set[v].mine \cup lost' =>
            k \notin held[v].stale \cup held[v].mine \cup lost /\ wanted'[k] = wanted[k]
      BY <1>1, <3>1
    <3> QED BY <1>1, <2>1, <2>2, <3>1, <3>2 DEF GoodCopy
  <2>3. CASE ~held[v].on
    BY <1>1, <1>2, <2>1, <2>3, StalerCopies DEF GoodCopy
  <2> QED BY <2>2, <2>3
<1>6. /\ held' \in [Users -> Copies] /\ GoodCopy(held'[u], wanted', lost', visited')
      /\ \A v \in Users : v # u => held'[v] = set[v]
  <2>1. CASE held[u].leaving
    <3>1. held' = [set EXCEPT ![u] = Gone]
      BY <1>1, <1>3, <2>1 DEF Leave
    <3> HIDE DEF set
    <3> QED BY <1>3, <3>1, GoodGone
  <2>2. CASE ~held[u].leaving
    <3> DEFINE copy == [held[u] EXCEPT !.mine = {}]
    <3>1. held' = [set EXCEPT ![u] = copy]
      <4>1. held' = [set EXCEPT ![u].mine = {}]
        BY <1>1, <1>3, <2>2 DEF Leave
      <4> HIDE DEF set
      <4> QED BY <1>3, <4>1
    <3>2. /\ copy \in Copies /\ copy.config = held[u].config /\ copy.mine = {}
          /\ copy.stale = held[u].stale /\ copy.on = held[u].on
      BY <1>2 DEF Copies
    <3> HIDE DEF copy, set
    <3>3. GoodCopy(copy, wanted', lost', visited')
      BY <1>1, <1>2, <1>4, <3>2 DEF GoodCopy
    <3> QED BY <1>3, <3>1, <3>2, <3>3
  <2> QED BY <2>1, <2>2
<1>7. \A v \in Users : GoodCopy(held'[v], wanted', lost', visited')
  BY <1>5, <1>6
<1>8. FileInv'
  <2>1. held[u].config \in Configs /\ OwnPlaces(held[u].config, visited)
    BY SettingTypes
  <2>2. file' \in Files /\ file'.config = held[u].config
    BY <1>1, <2>1 DEF Contents, Files
  <2> QED BY <1>1, <1>4, <2>1, <2>2 DEF FileInv
<1>9. wanted' \in [Keys -> Raw] /\ lost' \subseteq Keys
  BY <1>1, <1>2, SettingTypes DEF GoodCopy, Raw
<1>10. /\ writing' \in Users \cup {"nobody"} /\ visited' \in [Hosts_ -> SUBSET Spots]
  BY <1>1, SettingTypes
<1> QED BY <1>6, <1>7, <1>8, <1>9, <1>10 DEF SettingInv

LEMMA SpoiltKeeps ==
  ASSUME SettingInv, NEW u \in Users, DiskFull(u) \/ Killed(u)
  PROVE  SettingInv'
<1>1. /\ UNCHANGED <<file, wanted, visited>> /\ held \in [Users -> Copies]
      /\ held' = [held EXCEPT ![u] = Gone] \/ held' = held
      /\ \/ writing' = "nobody" /\ lost' = Keys
         \/ UNCHANGED <<writing, lost>> /\ writing # u
  BY SettingTypes DEF DiskFull, Killed
<1>2. /\ held' \in [Users -> Copies]
      /\ \A v \in Users : held'[v] = held[v] \/ held'[v] = Gone
      /\ \A v \in Users : v # u => held'[v] = held[v]
  BY <1>1, GoodGone
<1>3. lost \subseteq lost' /\ lost' \subseteq Keys
  BY <1>1, SettingTypes
<1>4. ASSUME NEW v \in Users PROVE GoodCopy(held'[v], wanted', lost', visited')
  <2>1. CASE held'[v] = held[v]
    BY <1>1, <1>3, <2>1 DEF SettingInv, GoodCopy
  <2>2. CASE held'[v] = Gone
    BY <2>2, GoodGone
  <2> QED BY <1>2, <2>1, <2>2
<1>5. FileInv'
  <2>1. CASE writing' = "nobody" /\ lost' = Keys
    BY <1>1, <2>1 DEF FileInv, SettingInv
  <2>2. CASE UNCHANGED <<writing, lost>> /\ writing # u
    <3>1. writing # "nobody" => held'[writing] = held[writing]
      BY <1>2, <2>2, SettingTypes
    <3> QED BY <1>1, <2>2, <3>1 DEF FileInv, SettingInv
  <2> QED BY <1>1, <2>1, <2>2
<1> QED BY <1>1, <1>2, <1>3, <1>4, <1>5, SettingTypes DEF SettingInv

LEMMA ByHandKeeps ==
  ASSUME SettingInv, ByHand
  PROVE  SettingInv'
<1>1. PICK k \in Keys, v \in {"strange", "wrong"} :
        /\ file' = Contents([file.config EXCEPT !.of[k] = v], FALSE)
        /\ wanted' = [wanted EXCEPT ![k] = v]
        /\ lost' = lost \ {k}
        /\ held' = Staler(held, {k})
  BY DEF ByHand
<1>2. writing = "nobody" /\ UNCHANGED <<writing, visited>>
  BY DEF ByHand
<1>3. /\ file \in Files /\ file.config \in Configs /\ held \in [Users -> Copies]
      /\ wanted \in [Keys -> Raw] /\ v \in Raw
  BY SettingTypes DEF Files, Raw
<1> DEFINE of == [file.config.of EXCEPT ![k] = v]
           config == [file.config EXCEPT !.of = of]
<1>4. of \in [Keys -> Raw] /\ of[k] = v /\ \A j \in Keys : j # k => of[j] = file.config.of[j]
  BY <1>3 DEF Configs
<1>5. config \in Configs /\ config.of = of /\ config.paths = file.config.paths
  <2> HIDE DEF of
  <2> QED BY <1>3, <1>4 DEF Configs
<1>6. file' \in Files /\ file'.config = config
  <2>1. file' = Contents(config, FALSE)
    BY <1>1, <1>3 DEF Configs
  <2> HIDE DEF config
  <2> QED BY <1>5, <2>1 DEF Contents, Files
<1> HIDE DEF config, of
<1>7. /\ wanted' \in [Keys -> Raw] /\ wanted'[k] = v
      /\ \A j \in Keys : j # k => wanted'[j] = wanted[j]
  BY <1>1, <1>3
<1>8. FileInv'
  <2>1. OwnPlaces(config, visited)
    BY <1>5, SettingTypes DEF OwnPlaces
  <2>2. ASSUME NEW j \in Keys, j \notin lost' PROVE Tells(j, of[j], wanted'[j])
    <3>1. CASE j = k
      BY <1>4, <1>7, <3>1 DEF Tells
    <3>2. CASE j # k
      BY <1>1, <1>2, <1>4, <1>7, <2>2, <3>2 DEF SettingInv, FileInv
    <3> QED BY <3>1, <3>2
  <2> QED BY <1>2, <1>5, <1>6, <2>1, <2>2 DEF FileInv
<1>9. ASSUME NEW u \in Users PROVE GoodCopy(held'[u], wanted', lost', visited')
  <2>1. /\ GoodCopy(held[u], wanted, lost, visited) /\ held'[u] \in Copies
        /\ ~held[u].on => held'[u] = held[u]
        /\ held[u].on => /\ held'[u].on /\ held'[u].config = held[u].config
                         /\ held'[u].mine = held[u].mine
                         /\ held'[u].stale = held[u].stale \cup {k}
    BY <1>1, <1>3, StalerCopies DEF SettingInv
  <2>2. CASE ~held[u].on
    BY <1>2, <2>1, <2>2 DEF GoodCopy
  <2>3. CASE held[u].on
    <3>1. \A j \in Keys : j \notin held'[u].stale \cup held'[u].mine \cup lost' =>
            j # k /\ j \notin held[u].stale \cup held[u].mine \cup lost
      BY <1>1, <2>1, <2>3
    <3> QED BY <1>2, <1>7, <2>1, <2>3, <3>1 DEF GoodCopy
  <2> QED BY <2>2, <2>3
<1>10. held' \in [Users -> Copies]
  BY <1>1, <1>3, StalerCopies
<1> QED BY <1>1, <1>2, <1>7, <1>8, <1>9, <1>10, SettingTypes DEF SettingInv

LEMMA SettingInitially == SettingInit => SettingInv
<1> SUFFICES ASSUME SettingInit PROVE SettingInv
  OBVIOUS
<1>1. /\ file = Contents(Blank, FALSE) /\ held = [u \in Users |-> Gone] /\ writing = "nobody"
      /\ wanted = [k \in Keys |-> "default"] /\ visited = [h \in Hosts_ |-> {}] /\ lost = {}
  BY DEF SettingInit
<1>2. /\ held \in [Users -> Copies]
      /\ \A u \in Users : GoodCopy(held[u], wanted, lost, visited)
  BY <1>1, GoodGone
<1>3. file \in Files /\ file.config = Blank
  BY <1>1, BlankIsEmpty DEF Contents, Files
<1>4. FileInv
  BY <1>1, <1>3, BlankIsEmpty DEF FileInv, Tells
<1> QED BY <1>1, <1>2, <1>4 DEF SettingInv, Raw, Meant

LEMMA SettingStep == SettingInv /\ [SettingNext]_settingVars => SettingInv'
<1> SUFFICES ASSUME SettingInv, [SettingNext]_settingVars PROVE SettingInv'
  OBVIOUS
<1>1. CASE UNCHANGED settingVars
  BY <1>1 DEF settingVars, SettingInv, FileInv
<1>2. CASE ByHand
  BY <1>2, ByHandKeeps
<1>3. ASSUME NEW u \in Users,
             Written(u) \/ DiskFull(u) \/ Killed(u) \/ Launch(u) \/ RememberLastVisited(u)
             \/ OnChange(u) \/ DismissSettings(u) \/ PerformQuit(u) \/ ToggleRulePack(u)
      PROVE  SettingInv'
  BY <1>3, WrittenKeeps, SpoiltKeeps, LaunchKeeps, RememberKeeps, ChangeKeepsCopy,
     DismissOrQuitKeeps, ToggleKeeps
<1> QED BY <1>1, <1>2, <1>3 DEF SettingNext

LEMMA SettingsFollow == SettingInv => SettingsAreKept
<1> SUFFICES ASSUME SettingInv PROVE SettingsAreKept
  OBVIOUS
<1>1. ChoicesSurvive
  BY SettingTypes DEF SettingInv, FileInv, Tells, ChoicesSurvive
<1>2. ASSUME NEW u \in Users, held[u].config.aware
      PROVE  EffectivePaths(u, held[u].config).last \in visited[HostOf[u]] \cup {"none"}
  <2> DEFINE config == held[u].config
  <2>1. PathKey(u, config) = HostOf[u] /\ HostOf[u] # "_default"
    BY <1>2, SettingAssumption DEF PathKey
  <2>2. config \in Configs /\ OwnPlaces(config, visited)
    BY SettingTypes
  <2>3. /\ Entry(u, config) \in [saved : Places, last : Places]
        /\ Entry(u, config).last \in visited[HostOf[u]] \cup {"none"}
    <3>1. NoPaths \in [saved : Places, last : Places] /\ NoPaths.last = "none"
      BY DEF NoPaths, Places
    <3> QED BY <2>1, <2>2, <3>1, PathHosts DEF Entry, OwnPlaces
  <2>4. EffectivePaths(u, config).last = Entry(u, config).last
    BY <2>3 DEF EffectivePaths
  <2> QED BY <2>3, <2>4
<1>3. LastVisitedHere
  BY <1>2 DEF LastVisitedHere
<1> QED BY <1>1, <1>3 DEF SettingsAreKept

\* What was last chosen on purpose is what the file says and what a session
\* loads, but for what an older copy or a full disk is known to have taken; a
\* directory offered as last visited was explored on this machine; and the
\* fields of Settings show what the configuration says (config.py,
\* screens/settings.py), for any users, hosts and directories.
THEOREM SettingsHonest == SettingSpec /\ FormSpec => []SettingsAreHonest
<1>1. SettingInit => SettingInv
  BY SettingInitially
<1>2. SettingInv /\ [SettingNext]_settingVars => SettingInv'
  BY SettingStep
<1>3. SettingInv => SettingsAreKept
  BY SettingsFollow
<1>4. SettingSpec => []SettingsAreKept
  BY <1>1, <1>2, <1>3, PTL DEF SettingSpec
<1>5. SettingsAreKept /\ FormTellsTheConfig => SettingsAreHonest
  BY DEF SettingsAreHonest
<1> QED BY <1>4, <1>5, FormTruthful, PTL

-----------------------------------------------------------------------------
(* The screen that scans and shows.                                        *)

ScreenStates == [root : Trees_, current : Trees_, active : 0..MaxScans,
                 retiring : 0..MaxScans, busy : BOOLEAN, render : BOOLEAN,
                 live : Trees_, timer : BOOLEAN, diff : BOOLEAN,
                 context : BOOLEAN]
Walks == [no : 0..MaxScans, on : BOOLEAN, frames : 0..MaxFrames, raises :
          0..MaxRaises]
Pictured == [tree : Trees_, chart : Trees_, tint : Trees_]
Passes == [at : {"reading", "read"}, tree : Trees_ \ {NoTree}]
Rollups == [running : BOOLEAN, next : Trees_, passes : SUBSET Passes]
Errands == [requests : 0..MaxRequests, asked : 0..MaxRequests,
            loads : SUBSET (1..MaxLoads), loaded : 0..MaxLoads]

WidgetsTyped == screen \in ScreenStates /\ shown \in Pictured /\ rollup \in
    Rollups
ThreadsTyped ==
  /\ walk \in Walks /\ screen.active = walk.no
  /\ kept \subseteq 1..MaxScans
  /\ errands \in Errands /\ errands.requests <= errands.asked
  /\ settled \in {"new", "fresh", "failed", "torn"}

(* While a scan is in progress its run goes on, and nothing of the one      *)
(* before is at hand; when none is, no frame waits.                         *)
InOneScan ==
  /\ screen.busy = walk.on
  /\ screen.busy => /\ screen.active \in 1..MaxScans
                    /\ screen.retiring # screen.active
                    /\ ~screen.diff /\ ~screen.context
  /\ ~screen.busy => screen.live = NoTree /\ ~screen.timer
  /\ screen.live \in {NoTree} \cup Frames(screen.active)

HeldByOne == kept \subseteq {IF screen.busy THEN screen.retiring ELSE
    screen.active}

(* After a scan or a reading of the monitor, the tints of the tree shown    *)
(* are there, or a pass that will find them is.                             *)
TintOnItsWay ==
  settled = "fresh" /\ ~screen.busy =>
    /\ screen.root # NoTree
    /\ \/ rollup.next = screen.root
       \/ \E p \in rollup.passes : p.tree = screen.root
       \/ shown.tint = screen.root

ScreenInv == WidgetsTyped /\ ThreadsTyped /\ InOneScan /\ HeldByOne /\
    TintOnItsWay /\ OnlyItsFrames

LEMMA TreesAreTrees ==
  /\ NoTree \in Trees_ /\ ChangeView \in Trees_
  /\ \A n \in 1..MaxScans : Final(n) \in Trees_ \ {NoTree}
  /\ \A j \in 1..MaxLoads : Projection(j) \in Trees_ \ {NoTree}
  /\ \A n \in 1..MaxScans : Frames(n) \subseteq Trees_ \ {NoTree}
<1>1. \A n : Final(n) # NoTree /\ Projection(n) # NoTree
  BY DEF Final, Projection, NoTree
<1>2. \A n, k : Frame(n, k) # NoTree
  BY DEF Frame, NoTree
<1>3. \A n : Frames(n) \subseteq UNION {Frames(n)} /\ NoTree \notin Frames(n)
  BY <1>2 DEF Frames
<1>4. \A n \in 1..MaxScans : Frames(n) \subseteq Trees_
  BY DEF Trees_
<1> QED BY <1>1, <1>3, <1>4 DEF Trees_

LEMMA ScreenStarts == ASSUME ExplorerInit PROVE ScreenInv
<1>1. PICK raises \in 0..MaxRaises, frames \in 0..MaxFrames :
        walk = [no |-> 0, on |-> FALSE, frames |-> frames, raises |-> raises]
  BY DEF ExplorerInit
<1>2. PICK asked \in 0..MaxRequests, loaded \in 0..MaxLoads :
        errands = [requests |-> 0, asked |-> asked, loads |-> {}, loaded |->
                   loaded]
  BY DEF ExplorerInit
<1>3. screen = [root |-> NoTree, current |-> NoTree, active |-> 0, retiring |->
                0,
                busy |-> FALSE, render |-> FALSE, live |-> NoTree, timer |->
                    FALSE,
                diff |-> FALSE, context |-> FALSE]
      /\ shown = [tree |-> NoTree, chart |-> NoTree, tint |-> NoTree]
      /\ kept = {} /\ rollup = [running |-> FALSE, next |-> NoTree, passes |->
                                {}]
      /\ settled = "new"
  BY DEF ExplorerInit
<1>4. WidgetsTyped /\ ThreadsTyped
  BY <1>1, <1>2, <1>3, TreesAreTrees, ScreenAssumption
  DEF WidgetsTyped, ScreenStates, Pictured, Rollups, ThreadsTyped, Walks,
      Errands
<1> QED BY <1>1, <1>3, <1>4 DEF ScreenInv, InOneScan, HeldByOne, TintOnItsWay,
                                OnlyItsFrames

LEMMA ScreenAtBegin ==
  ASSUME ScreenInv, NEW render \in BOOLEAN, ScanBegins(render)
  PROVE  ScreenInv'
<1> USE DEF ScreenInv
<1>0. walk.no \in Nat /\ walk.no + 1 \in 1..MaxScans /\ walk.no + 1 \in
    0..MaxScans /\ walk.no \in 0..MaxScans
  BY ScreenAssumption DEF WidgetsTyped, ScreenStates, Pictured, Rollups,
      ThreadsTyped, Walks, Errands, ScanBegins
<1>1e. screen' = [root |-> screen.root, current |-> screen.current, active |->
                  walk.no + 1, retiring |-> screen.active, busy |-> TRUE,
                  render |-> render, live |-> NoTree, timer |-> FALSE, diff |->
                  FALSE, context |-> FALSE]
  BY <1>0, TreesAreTrees
  DEF WidgetsTyped, ScreenStates, Pictured, Rollups, ScanBegins
<1>1a. screen' \in ScreenStates
  BY <1>1e, <1>0, TreesAreTrees DEF WidgetsTyped, ScreenStates
<1>1b. shown' \in Pictured
  BY <1>0, TreesAreTrees
  DEF WidgetsTyped, ScreenStates, Pictured, Rollups, ScanBegins
<1>1c. rollup' \in Rollups
  BY <1>0, TreesAreTrees
  DEF WidgetsTyped, ScreenStates, Pictured, Rollups, Passes, ScanBegins
<1>1d. ThreadsTyped'
  BY <1>0, TreesAreTrees
  DEF ThreadsTyped, Walks, Errands, ScreenStates, WidgetsTyped, ScanBegins
<1>1. WidgetsTyped' /\ ThreadsTyped'
  BY <1>1a, <1>1b, <1>1c, <1>1d DEF WidgetsTyped
<1>2. InOneScan'
  BY <1>0 DEF WidgetsTyped, ScreenStates, Pictured, Rollups, ThreadsTyped,
      Walks, Errands, ScanBegins, InOneScan
<1>3. HeldByOne'
  BY DEF WidgetsTyped, ScreenStates, Pictured, Rollups, ThreadsTyped, Walks,
      Errands, ScanBegins, HeldByOne
<1>4. TintOnItsWay' /\ OnlyItsFrames'
  BY DEF WidgetsTyped, ScreenStates, Pictured, Rollups, ThreadsTyped, Walks,
      Errands, ScanBegins, TintOnItsWay, OnlyItsFrames
<1> QED BY <1>1, <1>2, <1>3, <1>4

LEMMA ScreenAtEnd ==
  ASSUME ScreenInv, ScanRefused \/ ScanEnds
  PROVE  ScreenInv'
<1> USE DEF ScreenInv
<1>1. CASE ScanRefused
  <2>1e. screen' = [root |-> screen.root, current |-> screen.current, active
                    |-> screen.active, retiring |-> 0, busy |-> FALSE, render
                    |-> screen.render, live |-> NoTree, timer |-> FALSE, diff
                    |-> FALSE, context |-> FALSE]
    BY <1>1, TreesAreTrees, ScreenAssumption
    DEF WidgetsTyped, ScreenStates, Pictured, Rollups, ScanRefused, Settled_,
        Quieted, AfterFailure
  <2>1a. screen' \in ScreenStates
    BY <2>1e, <1>1, TreesAreTrees, ScreenAssumption DEF WidgetsTyped,
        ScreenStates
  <2>1b. shown' \in Pictured
    BY <1>1, TreesAreTrees, ScreenAssumption
    DEF WidgetsTyped, ScreenStates, Pictured, Rollups, ScanRefused, Settled_,
        Quieted, AfterFailure
  <2>1c. rollup' \in Rollups
    BY <1>1, TreesAreTrees, ScreenAssumption
    DEF WidgetsTyped, ScreenStates, Pictured, Rollups, Passes, ScanRefused,
        Settled_, Quieted, AfterFailure
  <2>1d. ThreadsTyped'
    BY <1>1, TreesAreTrees, ScreenAssumption
    DEF ThreadsTyped, Walks, Errands, ScreenStates, WidgetsTyped, ScanRefused,
        Settled_, Quieted, AfterFailure
  <2>1. WidgetsTyped' /\ ThreadsTyped'
    BY <2>1a, <2>1b, <2>1c, <2>1d DEF WidgetsTyped
  <2>2. InOneScan' /\ HeldByOne' /\ TintOnItsWay' /\ OnlyItsFrames'
    BY <1>1 DEF WidgetsTyped, ScreenStates, Pictured, Rollups, ThreadsTyped,
        Walks, Errands, ScanRefused, Settled_, Quieted,
                InOneScan, HeldByOne, TintOnItsWay, OnlyItsFrames
  <2> QED BY <2>1, <2>2
<1>2. CASE ScanCompletes
  <2>0. walk.no \in 1..MaxScans /\ Final(walk.no) \in Trees_ \ {NoTree}
        /\ screen.retiring # screen.active /\ walk.no = screen.active
        /\ kept \subseteq {screen.retiring} /\ errands.asked + 1 \in
            0..MaxRequests
        /\ errands.requests + 1 \in 0..MaxRequests
        /\ errands.requests + 1 <= errands.asked + 1
    BY <1>2, TreesAreTrees, ScreenAssumption
    DEF ScanCompletes, WidgetsTyped, ScreenStates, Pictured, Rollups,
        ThreadsTyped, Walks, Errands, InOneScan, HeldByOne
  <2>1e. screen' = [root |-> Final(walk.no), current |-> Final(walk.no), active
                    |-> screen.active, retiring |-> 0, busy |-> FALSE, render
                    |-> screen.render, live |-> NoTree, timer |-> FALSE, diff
                    |-> screen.diff, context |-> screen.context]
    BY <1>2, <2>0, TreesAreTrees, ScreenAssumption
    DEF WidgetsTyped, ScreenStates, Pictured, Rollups, ScanCompletes, Settled_,
        Quieted, Released, Rollup, Requested_
  <2>1a. screen' \in ScreenStates
    BY <2>1e, <1>2, <2>0, TreesAreTrees, ScreenAssumption DEF WidgetsTyped,
        ScreenStates
  <2>1b. shown' \in Pictured
    BY <1>2, <2>0, TreesAreTrees, ScreenAssumption
    DEF WidgetsTyped, ScreenStates, Pictured, Rollups, ScanCompletes, Settled_,
        Quieted, Released, Rollup, Requested_
  <2>1c. rollup' \in Rollups
    BY <1>2, <2>0, TreesAreTrees, ScreenAssumption
    DEF WidgetsTyped, ScreenStates, Pictured, Rollups, Passes, ScanCompletes,
        Settled_, Quieted, Released, Rollup, Requested_
  <2>1d. ThreadsTyped'
    BY <1>2, <2>0, TreesAreTrees, ScreenAssumption
    DEF ThreadsTyped, Walks, Errands, ScreenStates, WidgetsTyped,
        ScanCompletes, Settled_, Quieted, Released, Rollup, Requested_
  <2>1. WidgetsTyped' /\ ThreadsTyped'
    BY <2>1a, <2>1b, <2>1c, <2>1d DEF WidgetsTyped
  <2>2. InOneScan' /\ HeldByOne' /\ TintOnItsWay' /\ OnlyItsFrames'
    BY <1>2, <2>0 DEF WidgetsTyped, ScreenStates, Pictured, Rollups,
        ThreadsTyped, Walks, Errands, ScanCompletes, Settled_, Quieted,
                Released, Rollup,
                InOneScan, HeldByOne, TintOnItsWay, OnlyItsFrames
  <2> QED BY <2>1, <2>2
<1>3. CASE ScanFails
  <2>0. screen.retiring # screen.active /\ kept \subseteq {screen.retiring}
    BY <1>3 DEF ScanFails, InOneScan, HeldByOne
  <2>1e. screen' = [root |-> screen.root, current |-> screen.current, active
                    |-> screen.active, retiring |-> 0, busy |-> FALSE, render
                    |-> screen.render, live |-> NoTree, timer |-> FALSE, diff
                    |-> screen.diff, context |-> screen.context]
    BY <1>3, <2>0, TreesAreTrees, ScreenAssumption
    DEF WidgetsTyped, ScreenStates, Pictured, Rollups, ScanFails, Settled_,
        Quieted, Released, AfterFailure
  <2>1a. screen' \in ScreenStates
    BY <2>1e, <1>3, <2>0, TreesAreTrees, ScreenAssumption DEF WidgetsTyped,
        ScreenStates
  <2>1b. shown' \in Pictured
    BY <1>3, <2>0, TreesAreTrees, ScreenAssumption
    DEF WidgetsTyped, ScreenStates, Pictured, Rollups, ScanFails, Settled_,
        Quieted, Released, AfterFailure
  <2>1c. rollup' \in Rollups
    BY <1>3, <2>0, TreesAreTrees, ScreenAssumption
    DEF WidgetsTyped, ScreenStates, Pictured, Rollups, Passes, ScanFails,
        Settled_, Quieted, Released, AfterFailure
  <2>1d. ThreadsTyped'
    BY <1>3, <2>0, TreesAreTrees, ScreenAssumption
    DEF ThreadsTyped, Walks, Errands, ScreenStates, WidgetsTyped, ScanFails,
        Settled_, Quieted, Released, AfterFailure
  <2>1. WidgetsTyped' /\ ThreadsTyped'
    BY <2>1a, <2>1b, <2>1c, <2>1d DEF WidgetsTyped
  <2>2. InOneScan' /\ HeldByOne' /\ TintOnItsWay' /\ OnlyItsFrames'
    BY <1>3, <2>0 DEF WidgetsTyped, ScreenStates, Pictured, Rollups,
        ThreadsTyped, Walks, Errands, ScanFails, Settled_, Quieted,
                Released, InOneScan, HeldByOne, TintOnItsWay, OnlyItsFrames
  <2> QED BY <2>1, <2>2
<1>4. CASE \E hasTree \in BOOLEAN : CompletionRaises(hasTree)
  <2> PICK hasTree \in BOOLEAN : CompletionRaises(hasTree)
    BY <1>4
  <2>0. walk.no \in 1..MaxScans /\ Final(walk.no) \in Trees_ \ {NoTree}
        /\ screen.retiring # screen.active /\ walk.no = screen.active
        /\ kept \subseteq {screen.retiring} /\ walk.raises + 1 \in 0..MaxRaises
    BY TreesAreTrees, ScreenAssumption
    DEF CompletionRaises, Raises, WidgetsTyped, ScreenStates, Pictured,
        Rollups, ThreadsTyped, Walks, Errands, InOneScan, HeldByOne
  <2>1e. screen' = [root |-> screen.root, current |-> screen.current, active
                    |-> screen.active, retiring |-> 0, busy |-> FALSE, render
                    |-> screen.render, live |-> NoTree, timer |-> FALSE, diff
                    |-> screen.diff, context |-> screen.context]
           \/ screen' = [root |-> Final(walk.no), current |-> Final(walk.no),
                         active |-> screen.active, retiring |-> 0, busy |->
                         FALSE, render |-> screen.render, live |-> NoTree,
                         timer |-> FALSE, diff |-> screen.diff, context |->
                         screen.context]
    BY <2>0, TreesAreTrees, ScreenAssumption
    DEF WidgetsTyped, ScreenStates, Pictured, Rollups, CompletionRaises,
        Settled_, Quieted, Released
  <2>1a. screen' \in ScreenStates
    <3>1. 0 \in 0..MaxScans
      BY ScreenAssumption
    <3>2. screen' = [root |-> screen.root, current |-> screen.current, active
                     |-> screen.active, retiring |-> 0, busy |-> FALSE, render
                     |-> screen.render, live |-> NoTree, timer |-> FALSE, diff
                     |-> screen.diff, context |-> screen.context] => screen'
                     \in ScreenStates
      BY <3>1, TreesAreTrees DEF WidgetsTyped, ScreenStates
    <3>3. screen' = [root |-> Final(walk.no), current |-> Final(walk.no),
                     active |-> screen.active, retiring |-> 0, busy |-> FALSE,
                     render |-> screen.render, live |-> NoTree, timer |->
                     FALSE, diff |-> screen.diff, context |-> screen.context]
                     => screen' \in ScreenStates
      BY <3>1, <2>0, TreesAreTrees DEF WidgetsTyped, ScreenStates
    <3> QED BY <2>1e, <3>2, <3>3
  <2>1b. shown' \in Pictured
    BY <2>0, TreesAreTrees, ScreenAssumption
    DEF WidgetsTyped, ScreenStates, Pictured, Rollups, CompletionRaises,
        Settled_, Quieted, Released
  <2>1c. rollup' \in Rollups
    BY <2>0, TreesAreTrees, ScreenAssumption
    DEF WidgetsTyped, ScreenStates, Pictured, Rollups, Passes,
        CompletionRaises, Settled_, Quieted, Released
  <2>1d. ThreadsTyped'
    BY <2>0, TreesAreTrees, ScreenAssumption
    DEF ThreadsTyped, Walks, Errands, ScreenStates, WidgetsTyped,
        CompletionRaises, Settled_, Quieted, Released
  <2>1. WidgetsTyped' /\ ThreadsTyped'
    BY <2>1a, <2>1b, <2>1c, <2>1d DEF WidgetsTyped
  <2>2. InOneScan' /\ HeldByOne' /\ TintOnItsWay' /\ OnlyItsFrames'
    BY <2>0 DEF WidgetsTyped, ScreenStates, Pictured, Rollups, ThreadsTyped,
        Walks, Errands, CompletionRaises, Settled_, Quieted,
                Released, InOneScan, HeldByOne, TintOnItsWay, OnlyItsFrames
  <2> QED BY <2>1, <2>2
<1> QED BY <1>1, <1>2, <1>3, <1>4 DEF ScanEnds
LEMMA ScreenAtFrame ==
  ASSUME ScreenInv, NEW draws \in BOOLEAN, NEW tints \in BOOLEAN,
         FrameComes(draws, tints)
  PROVE  ScreenInv'
<1> USE DEF ScreenInv
<1> DEFINE frame == Frame(walk.no, walk.frames + 1)
<1>0. /\ walk.no = screen.active /\ walk.no \in 1..MaxScans /\ screen.busy
      /\ walk.frames + 1 \in 0..MaxFrames
      /\ frame \in Frames(walk.no) /\ frame \in Trees_ \ {NoTree}
  <2>1. walk.no = screen.active /\ walk.no \in 1..MaxScans /\ screen.busy
        /\ walk.frames + 1 \in 1..MaxFrames
    BY ScreenAssumption DEF FrameComes, WidgetsTyped, ScreenStates, Pictured,
        Rollups, ThreadsTyped, Walks, Errands, InOneScan
  <2> QED BY <2>1, TreesAreTrees, ScreenAssumption DEF Frames
<1>f. /\ screen' = [screen EXCEPT !.live = frame, !.timer = ~draws]
      /\ rollup' = IF tints THEN Rollup(frame) ELSE rollup
      /\ \/ shown' = [shown EXCEPT !.tree = frame, !.chart = frame]
         \/ shown' = shown
      /\ walk' = [walk EXCEPT !.frames = @ + 1]
      /\ UNCHANGED <<kept, errands, settled>>
  BY <1>0 DEF FrameComes, Draw, WidgetsTyped, ScreenStates, Pictured, Rollups
<1> HIDE DEF frame
<1>1. screen' \in ScreenStates
  BY <1>0, <1>f, TreesAreTrees, ScreenAssumption DEF WidgetsTyped,
      ScreenStates, Pictured, Rollups, Rollup
<1>2. shown' \in Pictured
  BY <1>0, <1>f, <1>1, TreesAreTrees DEF WidgetsTyped, ScreenStates, Pictured,
      Rollups, Rollup
<1>3. rollup' \in Rollups
  BY <1>0, <1>f, TreesAreTrees DEF WidgetsTyped, ScreenStates, Pictured,
      Rollups, Passes, Rollup
<1>4. ThreadsTyped'
  BY <1>0, <1>f, ScreenAssumption DEF ThreadsTyped, Walks, Errands,
      ScreenStates, WidgetsTyped, Rollup
<1>5. InOneScan' /\ HeldByOne'
  BY <1>0, <1>f DEF WidgetsTyped, ScreenStates, Pictured, Rollups,
      ThreadsTyped, Walks, Errands, InOneScan, HeldByOne, Rollup
<1>6. TintOnItsWay'
  BY <1>0, <1>f DEF WidgetsTyped, ScreenStates, Pictured, Rollups,
      ThreadsTyped, Walks, Errands, InOneScan, TintOnItsWay, Rollup
<1>7. OnlyItsFrames'
  BY <1>0, <1>f DEF WidgetsTyped, ScreenStates, Pictured, Rollups,
      ThreadsTyped, Walks, Errands, InOneScan, OnlyItsFrames, Rollup
<1> QED BY <1>1, <1>2, <1>3, <1>4, <1>5, <1>6, <1>7 DEF WidgetsTyped

LEMMA ScreenAtLostFrame ==
  ASSUME ScreenInv, FrameLost \/ Flush
  PROVE  ScreenInv'
<1> USE DEF ScreenInv
<1>1. screen' \in ScreenStates
  BY TreesAreTrees, ScreenAssumption DEF WidgetsTyped, ScreenStates, Pictured,
      Rollups, FrameLost, Raises, Flush, Draw
<1>2. shown' \in Pictured
  BY <1>1, TreesAreTrees DEF WidgetsTyped, ScreenStates, Pictured, Rollups,
      FrameLost, Raises, Flush, Draw
<1>3. rollup' \in Rollups
  BY TreesAreTrees DEF WidgetsTyped, ScreenStates, Pictured, Rollups, Passes,
      FrameLost, Raises, Flush, Draw
<1>4. ThreadsTyped'
  BY ScreenAssumption DEF ThreadsTyped, Walks, Errands, ScreenStates,
      WidgetsTyped, FrameLost, Raises, Flush, Draw
<1>5. InOneScan' /\ HeldByOne'
  BY DEF WidgetsTyped, ScreenStates, Pictured, Rollups, ThreadsTyped, Walks,
      Errands, InOneScan, HeldByOne, FrameLost, Raises, Flush, Draw
<1>6. TintOnItsWay'
  BY DEF WidgetsTyped, ScreenStates, Pictured, Rollups, ThreadsTyped, Walks,
      Errands, InOneScan, TintOnItsWay, FrameLost, Raises, Flush, Draw
<1>7. OnlyItsFrames'
  BY DEF WidgetsTyped, ScreenStates, Pictured, Rollups, ThreadsTyped, Walks,
      Errands, InOneScan, OnlyItsFrames, FrameLost, Raises, Flush, Draw
<1> QED BY <1>1, <1>2, <1>3, <1>4, <1>5, <1>6, <1>7 DEF WidgetsTyped

LEMMA ScreenAtPassBegins ==
  ASSUME ScreenInv, PassBegins
  PROVE  ScreenInv'
<1> USE DEF ScreenInv
<1>1. screen' \in ScreenStates
  BY TreesAreTrees, ScreenAssumption DEF WidgetsTyped, ScreenStates, Pictured,
      Rollups, PassBegins
<1>2. shown' \in Pictured
  BY <1>1, TreesAreTrees DEF WidgetsTyped, ScreenStates, Pictured, Rollups,
      PassBegins
<1>a. rollup' = [running |-> rollup.running, next |-> NoTree,
                passes |-> rollup.passes \cup {[at |-> "reading", tree |->
                                                rollup.next]}]
  BY DEF PassBegins, WidgetsTyped, Rollups
<1>b. [at |-> "reading", tree |-> rollup.next] \in Passes
  BY DEF PassBegins, WidgetsTyped, Rollups, Passes
<1>3. rollup' \in Rollups
  BY <1>a, <1>b, TreesAreTrees DEF WidgetsTyped, Rollups
<1>4. ThreadsTyped'
  BY ScreenAssumption DEF ThreadsTyped, Walks, Errands, ScreenStates,
      WidgetsTyped, PassBegins
<1>5. InOneScan' /\ HeldByOne'
  BY DEF WidgetsTyped, ScreenStates, Pictured, Rollups, ThreadsTyped, Walks,
      Errands, InOneScan, HeldByOne, PassBegins
<1>6. TintOnItsWay'
  <2> SUFFICES ASSUME settled = "fresh", ~screen.busy
               PROVE  /\ screen.root # NoTree
                      /\ \/ \E p \in rollup'.passes : p.tree = screen.root
                         \/ shown.tint = screen.root
    BY DEF TintOnItsWay, PassBegins
  <2>1. CASE rollup.next = screen.root
    <3> DEFINE begun == [at |-> "reading", tree |-> rollup.next]
    <3>1. begun \in rollup'.passes /\ begun.tree = screen.root
      BY <1>a, <2>1
    <3> QED BY <3>1 DEF TintOnItsWay
  <2> QED BY <1>a, <2>1 DEF TintOnItsWay
<1>7. OnlyItsFrames'
  BY DEF WidgetsTyped, ScreenStates, Pictured, Rollups, ThreadsTyped, Walks,
      Errands, InOneScan, OnlyItsFrames, PassBegins
<1> QED BY <1>1, <1>2, <1>3, <1>4, <1>5, <1>6, <1>7 DEF WidgetsTyped

LEMMA ScreenAtPassSettles ==
  ASSUME ScreenInv, PassSettles
  PROVE  ScreenInv'
<1> USE DEF ScreenInv
<1>1. screen' \in ScreenStates
  BY TreesAreTrees, ScreenAssumption DEF WidgetsTyped, ScreenStates, Pictured,
      Rollups, PassSettles
<1>2. shown' \in Pictured
  BY <1>1, TreesAreTrees DEF WidgetsTyped, ScreenStates, Pictured, Rollups,
      PassSettles
<1>p. PICK p \in rollup.passes :
        rollup' = [rollup EXCEPT !.running = FALSE,
                     !.passes = (@ \ {p}) \cup {[p EXCEPT !.at = "read"]}]
  BY DEF PassSettles
<1>q. [p EXCEPT !.at = "read"] = [at |-> "read", tree |-> p.tree]
  BY DEF WidgetsTyped, Rollups, Passes
<1>a. rollup' = [running |-> FALSE, next |-> rollup.next,
                 passes |-> (rollup.passes \ {p}) \cup {[at |-> "read", tree
                                                         |-> p.tree]}]
  BY <1>p, <1>q DEF WidgetsTyped, Rollups
<1>b. [at |-> "read", tree |-> p.tree] \in Passes
  BY DEF WidgetsTyped, Rollups, Passes
<1>3. rollup' \in Rollups
  BY <1>a, <1>b DEF WidgetsTyped, Rollups
<1>4. ThreadsTyped'
  BY ScreenAssumption DEF ThreadsTyped, Walks, Errands, ScreenStates,
      WidgetsTyped, PassSettles
<1>5. InOneScan' /\ HeldByOne'
  BY DEF WidgetsTyped, ScreenStates, Pictured, Rollups, ThreadsTyped, Walks,
      Errands, InOneScan, HeldByOne, PassSettles
<1>6. TintOnItsWay'
  <2> SUFFICES ASSUME settled = "fresh", ~screen.busy,
                      NEW q \in rollup.passes, q.tree = screen.root
               PROVE  \E r \in rollup'.passes : r.tree = screen.root
    BY <1>a DEF TintOnItsWay, PassSettles
  <2>1. CASE q = p
    <3> DEFINE done == [at |-> "read", tree |-> p.tree]
    <3>1. done \in rollup'.passes /\ done.tree = screen.root
      BY <1>a, <2>1
    <3> QED BY <3>1
  <2>2. CASE q # p
    BY <1>a, <2>2
  <2> QED BY <2>1, <2>2
<1>7. OnlyItsFrames'
  BY DEF WidgetsTyped, ScreenStates, Pictured, Rollups, ThreadsTyped, Walks,
      Errands, InOneScan, OnlyItsFrames, PassSettles
<1> QED BY <1>1, <1>2, <1>3, <1>4, <1>5, <1>6, <1>7 DEF WidgetsTyped

LEMMA ScreenAtPassApplies ==
  ASSUME ScreenInv, PassApplies
  PROVE  ScreenInv'
<1> USE DEF ScreenInv
<1>1. screen' \in ScreenStates
  BY TreesAreTrees, ScreenAssumption DEF WidgetsTyped, ScreenStates, Pictured,
      Rollups, PassApplies, Tinted
<1>2. shown' \in Pictured
  BY <1>1, TreesAreTrees DEF WidgetsTyped, ScreenStates, Pictured, Rollups,
      PassApplies, Tinted
<1>3. rollup' \in Rollups
  BY TreesAreTrees DEF WidgetsTyped, ScreenStates, Pictured, Rollups, Passes,
      PassApplies, Tinted
<1>4. ThreadsTyped'
  BY ScreenAssumption DEF ThreadsTyped, Walks, Errands, ScreenStates,
      WidgetsTyped, PassApplies, Tinted
<1>5. InOneScan' /\ HeldByOne'
  BY DEF WidgetsTyped, ScreenStates, Pictured, Rollups, ThreadsTyped, Walks,
      Errands, InOneScan, HeldByOne, PassApplies, Tinted
<1>6. TintOnItsWay'
  <2>1. PICK p \in rollup.passes :
          /\ rollup' = [running |-> rollup.running, next |-> rollup.next,
                        passes |-> rollup.passes \ {p}]
          /\ shown'.tint = Tinted(p.tree)
          /\ UNCHANGED <<screen, settled>>
    BY DEF PassApplies, WidgetsTyped, Rollups, Pictured
  <2>2. p.tree # NoTree
    BY DEF WidgetsTyped, Rollups, Passes
  <2> SUFFICES ASSUME settled = "fresh", ~screen.busy, rollup.next #
      screen.root
               PROVE  \/ \E r \in rollup'.passes : r.tree = screen.root
                      \/ shown'.tint = screen.root
    BY <2>1 DEF TintOnItsWay
  <2>3. CASE p.tree = screen.root
    BY <2>1, <2>3 DEF Tinted
  <2>4. CASE p.tree # screen.root
    <3>1. shown'.tint = shown.tint
      BY <2>1, <2>2, <2>4 DEF Tinted, InOneScan
    <3> QED BY <2>1, <2>4, <3>1 DEF TintOnItsWay
  <2> QED BY <2>3, <2>4
<1>7. OnlyItsFrames'
  BY DEF WidgetsTyped, ScreenStates, Pictured, Rollups, ThreadsTyped, Walks,
      Errands, InOneScan, OnlyItsFrames, PassApplies, Tinted
<1> QED BY <1>1, <1>2, <1>3, <1>4, <1>5, <1>6, <1>7 DEF WidgetsTyped

LEMMA ScreenAtContext ==
  ASSUME ScreenInv, NEW found \in BOOLEAN, ContextLands(found)
  PROVE  ScreenInv'
<1> USE DEF ScreenInv
<1>1. screen' \in ScreenStates
  BY TreesAreTrees, ScreenAssumption DEF WidgetsTyped, ScreenStates, Pictured,
      Rollups, ContextLands, Dropped, Drawn
<1>2. shown' \in Pictured
  BY <1>1, TreesAreTrees DEF WidgetsTyped, ScreenStates, Pictured, Rollups,
      ContextLands, Dropped, Drawn
<1>3. rollup' \in Rollups
  BY TreesAreTrees DEF WidgetsTyped, ScreenStates, Pictured, Rollups, Passes,
      ContextLands, Dropped, Drawn
<1>a. errands.requests - 1 \in 0..MaxRequests /\ errands.requests - 1 <=
    errands.asked
  BY ScreenAssumption DEF ThreadsTyped, Errands, ContextLands, Dropped, Drawn
<1>4. ThreadsTyped'
  BY <1>a DEF ThreadsTyped, Walks, Errands, ScreenStates, WidgetsTyped,
      ContextLands, Dropped, Drawn
<1>5. InOneScan' /\ HeldByOne'
  BY DEF WidgetsTyped, ScreenStates, Pictured, Rollups, ThreadsTyped, Walks,
      Errands, InOneScan, HeldByOne, ContextLands, Dropped, Drawn
<1>6. TintOnItsWay'
  BY DEF WidgetsTyped, ScreenStates, Pictured, Rollups, ThreadsTyped, Walks,
      Errands, InOneScan, TintOnItsWay, ContextLands, Dropped, Drawn
<1>7. OnlyItsFrames'
  BY DEF WidgetsTyped, ScreenStates, Pictured, Rollups, ThreadsTyped, Walks,
      Errands, InOneScan, OnlyItsFrames, ContextLands, Dropped, Drawn
<1> QED BY <1>1, <1>2, <1>3, <1>4, <1>5, <1>6, <1>7 DEF WidgetsTyped

LEMMA ScreenAtToggle ==
  ASSUME ScreenInv, NEW has \in BOOLEAN, ToggleDiff(has)
  PROVE  ScreenInv'
<1> USE DEF ScreenInv
<1>1. screen' \in ScreenStates
  BY TreesAreTrees, ScreenAssumption DEF WidgetsTyped, ScreenStates, Pictured,
      Rollups, ToggleDiff, Requested_, Drawn
<1>2. shown' \in Pictured
  BY <1>1, TreesAreTrees DEF WidgetsTyped, ScreenStates, Pictured, Rollups,
      ToggleDiff, Requested_, Drawn
<1>3. rollup' \in Rollups
  BY TreesAreTrees DEF WidgetsTyped, ScreenStates, Pictured, Rollups, Passes,
      ToggleDiff, Requested_, Drawn
<1>a. errands' # errands =>
         /\ errands.requests + 1 \in 0..MaxRequests
         /\ errands.asked + 1 \in 0..MaxRequests
         /\ errands.requests + 1 <= errands.asked + 1
  BY ScreenAssumption DEF ThreadsTyped, Errands, ToggleDiff, Requested_, Drawn
<1>4. ThreadsTyped'
  BY <1>a DEF ThreadsTyped, Walks, Errands, ScreenStates, WidgetsTyped,
      ToggleDiff, Requested_, Drawn
<1>5. InOneScan' /\ HeldByOne'
  BY DEF WidgetsTyped, ScreenStates, Pictured, Rollups, ThreadsTyped, Walks,
      Errands, InOneScan, HeldByOne, ToggleDiff, Requested_, Drawn
<1>6. TintOnItsWay'
  BY DEF WidgetsTyped, ScreenStates, Pictured, Rollups, ThreadsTyped, Walks,
      Errands, InOneScan, TintOnItsWay, ToggleDiff, Requested_, Drawn
<1>7. OnlyItsFrames'
  BY DEF WidgetsTyped, ScreenStates, Pictured, Rollups, ThreadsTyped, Walks,
      Errands, InOneScan, OnlyItsFrames, ToggleDiff, Requested_, Drawn
<1> QED BY <1>1, <1>2, <1>3, <1>4, <1>5, <1>6, <1>7 DEF WidgetsTyped

LEMMA ScreenAtBrowse ==
  ASSUME ScreenInv, BrowsePair
  PROVE  ScreenInv'
<1> USE DEF ScreenInv
<1>1. screen' \in ScreenStates
  BY TreesAreTrees, ScreenAssumption DEF WidgetsTyped, ScreenStates, Pictured,
      Rollups, BrowsePair, Requested_
<1>2. shown' \in Pictured
  BY <1>1, TreesAreTrees DEF WidgetsTyped, ScreenStates, Pictured, Rollups,
      BrowsePair, Requested_
<1>3. rollup' \in Rollups
  BY TreesAreTrees DEF WidgetsTyped, ScreenStates, Pictured, Rollups, Passes,
      BrowsePair, Requested_
<1>a. /\ errands.requests + 1 \in 0..MaxRequests
      /\ errands.asked + 1 \in 0..MaxRequests
      /\ errands.requests + 1 <= errands.asked + 1
  BY ScreenAssumption DEF ThreadsTyped, Errands, BrowsePair, Requested_
<1>4. ThreadsTyped'
  BY <1>a DEF ThreadsTyped, Walks, Errands, ScreenStates, WidgetsTyped,
      BrowsePair, Requested_
<1>5. InOneScan' /\ HeldByOne'
  BY DEF WidgetsTyped, ScreenStates, Pictured, Rollups, ThreadsTyped, Walks,
      Errands, InOneScan, HeldByOne, BrowsePair, Requested_
<1>6. TintOnItsWay'
  BY DEF WidgetsTyped, ScreenStates, Pictured, Rollups, ThreadsTyped, Walks,
      Errands, InOneScan, TintOnItsWay, BrowsePair, Requested_
<1>7. OnlyItsFrames'
  BY DEF WidgetsTyped, ScreenStates, Pictured, Rollups, ThreadsTyped, Walks,
      Errands, InOneScan, OnlyItsFrames, BrowsePair, Requested_
<1> QED BY <1>1, <1>2, <1>3, <1>4, <1>5, <1>6, <1>7 DEF WidgetsTyped

LEMMA ScreenAtGoInto ==
  ASSUME ScreenInv, GoInto
  PROVE  ScreenInv'
<1> USE DEF ScreenInv
<1>1. screen' \in ScreenStates
  BY TreesAreTrees, ScreenAssumption DEF WidgetsTyped, ScreenStates, Pictured,
      Rollups, GoInto, Drawn
<1>2. shown' \in Pictured
  BY <1>1, TreesAreTrees DEF WidgetsTyped, ScreenStates, Pictured, Rollups,
      GoInto, Drawn
<1>3. rollup' \in Rollups
  BY TreesAreTrees DEF WidgetsTyped, ScreenStates, Pictured, Rollups, Passes,
      GoInto, Drawn
<1>4. ThreadsTyped'
  BY ScreenAssumption DEF ThreadsTyped, Walks, Errands, ScreenStates,
      WidgetsTyped, GoInto, Drawn
<1>5. InOneScan' /\ HeldByOne'
  BY DEF WidgetsTyped, ScreenStates, Pictured, Rollups, ThreadsTyped, Walks,
      Errands, InOneScan, HeldByOne, GoInto, Drawn
<1>6. TintOnItsWay'
  BY DEF WidgetsTyped, ScreenStates, Pictured, Rollups, ThreadsTyped, Walks,
      Errands, InOneScan, TintOnItsWay, GoInto, Drawn
<1>7. OnlyItsFrames'
  BY DEF WidgetsTyped, ScreenStates, Pictured, Rollups, ThreadsTyped, Walks,
      Errands, InOneScan, OnlyItsFrames, GoInto, Drawn
<1> QED BY <1>1, <1>2, <1>3, <1>4, <1>5, <1>6, <1>7 DEF WidgetsTyped

LEMMA ScreenAtTab ==
  ASSUME ScreenInv, SwitchTab
  PROVE  ScreenInv'
<1> USE DEF ScreenInv
<1>1. screen' \in ScreenStates
  BY TreesAreTrees, ScreenAssumption DEF WidgetsTyped, ScreenStates, Pictured,
      Rollups, SwitchTab, Drawn
<1>2. shown' \in Pictured
  BY <1>1, TreesAreTrees DEF WidgetsTyped, ScreenStates, Pictured, Rollups,
      SwitchTab, Drawn
<1>3. rollup' \in Rollups
  BY TreesAreTrees DEF WidgetsTyped, ScreenStates, Pictured, Rollups, Passes,
      SwitchTab, Drawn
<1>4. ThreadsTyped'
  BY ScreenAssumption DEF ThreadsTyped, Walks, Errands, ScreenStates,
      WidgetsTyped, SwitchTab, Drawn
<1>5. InOneScan' /\ HeldByOne'
  BY DEF WidgetsTyped, ScreenStates, Pictured, Rollups, ThreadsTyped, Walks,
      Errands, InOneScan, HeldByOne, SwitchTab, Drawn
<1>6. TintOnItsWay'
  BY DEF WidgetsTyped, ScreenStates, Pictured, Rollups, ThreadsTyped, Walks,
      Errands, InOneScan, TintOnItsWay, SwitchTab, Drawn
<1>7. OnlyItsFrames'
  BY DEF WidgetsTyped, ScreenStates, Pictured, Rollups, ThreadsTyped, Walks,
      Errands, InOneScan, OnlyItsFrames, SwitchTab, Drawn
<1> QED BY <1>1, <1>2, <1>3, <1>4, <1>5, <1>6, <1>7 DEF WidgetsTyped

LEMMA ScreenAtMonitor ==
  ASSUME ScreenInv, MonitorTells
  PROVE  ScreenInv'
<1> USE DEF ScreenInv
<1>1. screen' \in ScreenStates
  BY TreesAreTrees, ScreenAssumption DEF WidgetsTyped, ScreenStates, Pictured,
      Rollups, MonitorTells
<1>2. shown' \in Pictured
  BY <1>1, TreesAreTrees DEF WidgetsTyped, ScreenStates, Pictured, Rollups,
      MonitorTells
<1>3. rollup' \in Rollups
  BY TreesAreTrees DEF WidgetsTyped, ScreenStates, Pictured, Rollups, Passes,
      MonitorTells
<1>a. errands.loaded + 1 \in 0..MaxLoads /\ errands.loaded + 1 \in 1..MaxLoads
  BY ScreenAssumption DEF ThreadsTyped, Errands, MonitorTells
<1>4. ThreadsTyped'
  BY <1>a DEF ThreadsTyped, Walks, Errands, ScreenStates, WidgetsTyped,
      MonitorTells
<1>5. InOneScan' /\ HeldByOne'
  BY DEF WidgetsTyped, ScreenStates, Pictured, Rollups, ThreadsTyped, Walks,
      Errands, InOneScan, HeldByOne, MonitorTells
<1>6. TintOnItsWay'
  BY DEF WidgetsTyped, ScreenStates, Pictured, Rollups, ThreadsTyped, Walks,
      Errands, InOneScan, TintOnItsWay, MonitorTells
<1>7. OnlyItsFrames'
  BY DEF WidgetsTyped, ScreenStates, Pictured, Rollups, ThreadsTyped, Walks,
      Errands, InOneScan, OnlyItsFrames, MonitorTells
<1> QED BY <1>1, <1>2, <1>3, <1>4, <1>5, <1>6, <1>7 DEF WidgetsTyped

LEMMA ScreenAtLoad ==
  ASSUME ScreenInv, NEW j \in 1..MaxLoads, LoadLands(j)
  PROVE  ScreenInv'
<1> USE DEF ScreenInv
<1>a. screen.busy =>
        screen' = screen /\ shown' = shown /\ rollup' = rollup /\ settled' =
            settled
  BY DEF LoadLands
<1>b. ~screen.busy =>
        /\ screen' = [screen EXCEPT !.root = Projection(j), !.current =
                      Projection(j)]
        /\ rollup' = [running |-> TRUE, next |-> Projection(j), passes |->
                      rollup.passes]
        /\ settled' = "fresh"
  BY DEF LoadLands, Rollup, WidgetsTyped, Rollups
<1>c. Projection(j) \in Trees_ \ {NoTree}
  BY TreesAreTrees
<1>1. screen' \in ScreenStates
  BY <1>a, <1>b, <1>c DEF WidgetsTyped, ScreenStates
<1>2. shown' \in Pictured
  BY TreesAreTrees, <1>c DEF WidgetsTyped, ScreenStates, Pictured, Drawn,
      LoadLands
<1>3. rollup' \in Rollups
  <2>1. CASE screen.busy
    BY <2>1, <1>a DEF WidgetsTyped
  <2>2. CASE ~screen.busy
    <3>1. rollup' = [running |-> TRUE, next |-> Projection(j), passes |->
                     rollup.passes]
      BY <2>2, <1>b
    <3>2. rollup.passes \subseteq Passes
      BY DEF WidgetsTyped, Rollups
    <3> QED BY <3>1, <3>2, <1>c DEF Rollups
  <2> QED BY <2>1, <2>2
<1>4. ThreadsTyped'
  BY ScreenAssumption DEF ThreadsTyped, Walks, Errands, ScreenStates,
      WidgetsTyped, LoadLands, Drawn, Rollup
<1>5. InOneScan' /\ HeldByOne'
  BY DEF WidgetsTyped, ScreenStates, Pictured, Rollups, ThreadsTyped, Walks,
      Errands, InOneScan, HeldByOne, LoadLands, Drawn, Rollup
<1>6. TintOnItsWay'
  <2>1. ~screen.busy => screen'.root = Projection(j)
    BY <1>b DEF WidgetsTyped, ScreenStates
  <2>3. ~screen.busy => rollup'.next = Projection(j)
    BY <1>b
  <2>2. screen.busy => screen'.busy
    BY <1>a
  <2> QED BY <1>c, <2>1, <2>2, <2>3 DEF TintOnItsWay
<1>7. OnlyItsFrames'
  BY DEF WidgetsTyped, ScreenStates, Pictured, Rollups, ThreadsTyped, Walks,
      Errands, InOneScan, OnlyItsFrames, LoadLands, Drawn, Rollup
<1> QED BY <1>1, <1>2, <1>3, <1>4, <1>5, <1>6, <1>7 DEF WidgetsTyped
ScreenSpec == ExplorerInit /\ [][ExplorerNext]_explorerVars

(* The screen is of one scan, whatever lands late from whichever thread     *)
(* and whichever handler raises (screens/explorer.py:556, 684, 888, 1077).  *)
THEOREM ScreenOfOneScan == ScreenSpec => []ScreenIsOfOneScan
<1>1. ExplorerInit => ScreenInv
  BY ScreenStarts
<1>2. ScreenInv /\ [ExplorerNext]_explorerVars => ScreenInv'
  <2> SUFFICES ASSUME ScreenInv, [ExplorerNext]_explorerVars PROVE ScreenInv'
    OBVIOUS
  <2>1. CASE UNCHANGED explorerVars
    BY <2>1 DEF explorerVars, ScreenInv, WidgetsTyped, ThreadsTyped, InOneScan,
                HeldByOne, TintOnItsWay, OnlyItsFrames
  <2>2. CASE \E render \in BOOLEAN : ScanBegins(render)
    BY <2>2, ScreenAtBegin
  <2>3. CASE ScanRefused \/ ScanEnds
    BY <2>3, ScreenAtEnd
  <2>4. CASE \E draws, tints \in BOOLEAN : FrameComes(draws, tints)
    BY <2>4, ScreenAtFrame
  <2>5. CASE FrameLost \/ Flush
    BY <2>5, ScreenAtLostFrame
  <2>6. CASE PassBegins \/ PassSettles \/ PassApplies
    BY <2>6, ScreenAtPassBegins, ScreenAtPassSettles, ScreenAtPassApplies
  <2>7. CASE \E found \in BOOLEAN : ContextLands(found)
    BY <2>7, ScreenAtContext
  <2>8. CASE \E has \in BOOLEAN : ToggleDiff(has)
    BY <2>8, ScreenAtToggle
  <2>9. CASE BrowsePair \/ GoInto \/ SwitchTab \/ MonitorTells
    BY <2>9, ScreenAtBrowse, ScreenAtGoInto, ScreenAtTab, ScreenAtMonitor
  <2>10. CASE \E j \in 1..MaxLoads : LoadLands(j)
    BY <2>10, ScreenAtLoad
  <2> QED BY <2>1, <2>2, <2>3, <2>4, <2>5, <2>6, <2>7, <2>8, <2>9, <2>10
          DEF ExplorerNext
<1>3. ScreenInv => ScreenIsOfOneScan
  <2> SUFFICES ASSUME ScreenInv PROVE ScreenIsOfOneScan
    OBVIOUS
  <2>1. TintsFollow
    BY DEF ScreenInv, TintOnItsWay, TintsFollow
  <2>2. RetiredLetGo /\ BusyWithTheRun
    BY DEF ScreenInv, HeldByOne, InOneScan, RetiredLetGo, BusyWithTheRun
  <2> QED BY <2>1, <2>2 DEF ScreenInv, ScreenIsOfOneScan
<1> QED BY <1>1, <1>2, <1>3, PTL DEF ScreenSpec
=============================================================================
