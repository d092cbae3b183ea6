---------------------------- MODULE SettingsForm ----------------------------
(***************************************************************************)
(* The two fields of Settings that write back into themselves              *)
(* (screens/settings.py): the number of workers, which is cut down to what *)
(* the machine takes, and the event mode, which goes back to what it was   *)
(* when the service refuses it.  A change of a field is told by a message  *)
(* that arrives later, the field's own corrections too, so a handler may   *)
(* look at a field that has moved on.                                      *)
(***************************************************************************)
EXTENDS Integers, Sequences

CONSTANTS
  Ceiling,   \* the most workers the machine takes
  Digits,    \* keys
  MaxTyped   \* bound: keys pressed and modes picked

ASSUME FormAssumption == Ceiling \in Nat \ {0} /\ Digits \subseteq 0..9

VARIABLES
  box,     \* the workers field: its text, and what it was last corrected to
  posted,  \* Changed messages of the box not yet handled
  chosen,  \* the configuration's number of workers
  picker,  \* the mode shown, what the configuration says, what the service does
  told,    \* Changed messages of the picker not yet handled
  typed    \* how often somebody touched either

formVars == <<box, posted, chosen, picker, told, typed>>

Automatic == 0  \* no number in the configuration
Empty == -1 \* nothing in the box, or no correction
Modes == {"auto", "events", "periodic"}

FormTypeOK ==
  /\ box \in [text : Int, echo : Int] /\ chosen \in Nat
  /\ picker \in [shown : Modes, config : Modes, service : Modes]

\* on_mount puts the number into the box
FormInit ==
  /\ chosen \in {Automatic, Ceiling, Ceiling + 1}
  /\ box = [text |-> IF chosen = Automatic THEN Empty ELSE chosen, echo |-> Empty - 1]
  /\ posted = (IF chosen = Automatic THEN <<>> ELSE <<chosen>>)
  /\ picker = [shown |-> "auto", config |-> "auto", service |-> "auto"]
  /\ told = <<>> /\ typed = 0

Types ==
  /\ typed < MaxTyped /\ typed' = typed + 1
  /\ \E text \in {IF box.text = Empty THEN d ELSE 10 * box.text + d : d \in Digits}
                 \cup {IF box.text < 10 THEN Empty ELSE box.text \div 10} :
       /\ text # box.text
       /\ box' = [box EXCEPT !.text = text] /\ posted' = Append(posted, text)
  /\ UNCHANGED <<chosen, picker, told>>

\* a field set to what it shows says nothing
Rewrites(value) ==
  /\ box' = [text |-> value, echo |-> value]
  /\ posted' = IF box.text = value THEN Tail(posted) ELSE Append(Tail(posted), value)

OnInputChanged ==
  /\ posted # <<>>
  /\ LET value == Head(posted)
         plain == /\ box' = [box EXCEPT !.echo = Empty - 1]
                  /\ posted' = Tail(posted)
     IN
     \/ value = box.echo /\ plain /\ UNCHANGED chosen
     \/ value # box.echo /\ value = Empty /\ plain /\ chosen' = Automatic
     \/ value # box.echo /\ value = 0 /\ Rewrites(Empty) /\ chosen' = Automatic
     \/ value # box.echo /\ value > Ceiling /\ Rewrites(Ceiling) /\ chosen' = Ceiling
     \/ value # box.echo /\ value \in 1..Ceiling /\ plain /\ chosen' = value
  /\ UNCHANGED <<picker, told, typed>>

Picks ==
  /\ typed < MaxTyped /\ typed' = typed + 1
  /\ \E m \in Modes \ {picker.shown} :
       picker' = [picker EXCEPT !.shown = m] /\ told' = Append(told, m)
  /\ UNCHANGED <<box, posted, chosen>>

OnSelectChanged ==
  /\ told # <<>>
  /\ \/ /\ picker' = [picker EXCEPT !.config = Head(told), !.service = Head(told)]
        /\ told' = Tail(told)
     \* there is no backend
     \/ /\ Head(told) = "events"
        /\ picker' = [picker EXCEPT !.shown = picker.config]
        /\ told' = IF picker.shown = picker.config THEN Tail(told)
                   ELSE Append(Tail(told), picker.config)
  /\ UNCHANGED <<box, posted, chosen, typed>>

FormNext == Types \/ OnInputChanged \/ Picks \/ OnSelectChanged

\* When every message has been handled, the box shows the number a rescan
\* will use and the picker the mode the monitors work in, whatever was typed
\* while a correction was on its way; and no correction is left waiting, which
\* would swallow the next thing typed (on_input_changed, on_select_changed).
FormTellsTheConfig ==
  /\ posted = <<>> =>
       /\ chosen = (IF box.text = Empty THEN Automatic ELSE box.text)
       /\ chosen <= Ceiling
       /\ box.echo = Empty - 1
  /\ told = <<>> => picker.shown = picker.config /\ picker.config = picker.service
=============================================================================
