------------------------------ MODULE Cleanup ------------------------------
(***************************************************************************)
(* Carrying out, undoing and purging a cleanup plan (services/cleanup.py)  *)
(* by renaming its targets into the Trash or a quarantine directory beside *)
(* them (cleanup/actions.py).                                              *)
(*                                                                         *)
(* Three records must agree on where a target is: the action's row in the  *)
(* database, which offers the undo; the manifest of its move; and the      *)
(* ledger, which holds the quarantine to its capacity.  No transaction     *)
(* spans them and the rename.  Several clients (the screen, the command    *)
(* line) share them; only the ledger has a lock.  A step ends where a      *)
(* process may die, a write may fail or another client may come between.   *)
(***************************************************************************)
EXTENDS Naturals, Sequences, FiniteSets, Functions

CONSTANTS Actions,   \* the actions of one plan, in one directory
          Bytes,     \* estimated_reclaimable_bytes of each
          Capacity,  \* max_bytes
          Clients,
          MaxMoves,  \* bound: moves ever made
          MaxFailures, MaxTouches, MaxCalls \* bounds: failures, changes by others, operations

ASSUME CleanupAssumption ==
  /\ IsFiniteSet(Actions) /\ Bytes \in [Actions -> Nat] /\ Capacity \in Nat
  /\ {MaxMoves, MaxFailures, MaxTouches, MaxCalls} \subseteq Nat

VARIABLES
  target, \* where the object planned for is, in what state, and whether
          \* something else has taken its path
  moves,  \* the manifest or .trashinfo of every move made
  ledger, \* .ledger.json
  rows,   \* cleanup_actions
  client, \* what each client is doing, with its copy of the rows
  lost,   \* history: actions whose undo was lost, see UndoKept
  spare   \* failures and changes still to come

cleanupVars == <<target, moves, ledger, rows, client, lost, spare>>

Home == 0
BytesOf(as) == FoldFunctionOnSet(LAMBDA x, y : x + y, 0, Bytes, as)
Idle == [op |-> "none", how |-> "", at |-> "", action |-> "", todo |-> {},
         move |-> 0, copy |-> <<>>, result |-> <<>>]

Statuses == {"planned", "succeeded", "failed", "skipped", "undone", "purged"}
CleanupTypeOK ==
  /\ target \in [Actions -> [at : 0..MaxMoves, is : {"same", "changed", "gone"},
                             taken : BOOLEAN]]
  /\ Len(moves) <= MaxMoves
  /\ \A n \in DOMAIN moves :
       moves[n] \in [action : Actions, by : {"trash", "quarantine"},
                     state : {"bare", "prepared", "aborted", "isolated", "restoring",
                              "restored", "purging", "purged"}]
  /\ ledger.bytes \in Nat /\ ledger.pending \subseteq Actions
  /\ rows \in [Actions -> [status : Statuses, undo : 0..MaxMoves]]
  /\ \A a \in Actions : rows[a].undo # Home => moves[rows[a].undo].action = a
  /\ \A c, d \in Clients : {c, d} \subseteq {e \in Clients : client[e].at \in
       {"prepare", "rename", "isolate", "commit", "return", "delete", "settle",
        "debit"}} => c = d
  /\ lost \subseteq Actions

\* a new plan, in which the actions out have been refused or are covered by
\* others; or one of which the actions of order are in the quarantine already
BeginsWith(n, out, order) ==
  LET done == Range(order)
      place == [a \in done |-> CHOOSE i \in 1..n : order[i] = a]
  IN  /\ IsInjective(order) /\ BytesOf(done) <= Capacity
      /\ target = [a \in Actions |-> [at |-> IF a \in done THEN place[a] ELSE Home,
                                      is |-> "same", taken |-> FALSE]]
      /\ moves = [i \in 1..n |-> [action |-> order[i], by |-> "quarantine",
                                   state |-> "isolated"]]
      /\ ledger = [bytes |-> BytesOf(done), pending |-> {}]
      /\ rows = [a \in Actions |-> IF a \in done
                                   THEN [status |-> "succeeded", undo |-> place[a]]
                                   ELSE [status |-> IF a \in out THEN "skipped" ELSE "planned",
                                         undo |-> Home]]
      /\ client = [c \in Clients |-> Idle]
      /\ lost = {}
      /\ spare \in [faults : 0..MaxFailures, touches : 0..MaxTouches, calls : {MaxCalls}]

CleanupInit ==
  \E n \in 0..MaxMoves, out \in SUBSET Actions : \E order \in [1..n -> Actions \ out] :
    BeginsWith(n, out, order)

Failing == spare.faults > 0 /\ spare' = [spare EXCEPT !.faults = @ - 1]
Works == UNCHANGED spare

-----------------------------------------------------------------------------
(* The ledger of the quarantine.                                           *)

Locking == {"prepare", "rename", "isolate", "commit", "return", "delete",
            "settle", "debit"}
Unlocked == \A c \in Clients : client[c].at \notin Locking

Quarantined == {n \in DOMAIN moves : moves[n].by = "quarantine"}
Object(n) == target[moves[n].action]
IsThere(n) == Object(n).at = n /\ Object(n).is = "same"
IsHome(n) == Object(n).at = Home /\ Object(n).is = "same"

\* _audit_locked, of one manifest: the state it settles to, "" for an issue
Settled(n) ==
  CASE moves[n].state = "prepared" ->
         IF IsThere(n) THEN "isolated" ELSE IF IsHome(n) THEN "aborted" ELSE ""
    [] moves[n].state = "restoring" ->
         IF IsHome(n) THEN "restored" ELSE IF IsThere(n) THEN "isolated" ELSE ""
    [] moves[n].state = "purging" ->
         IF IsThere(n) THEN "isolated"
         ELSE IF Object(n).at # n \/ Object(n).is = "gone" THEN "purged" ELSE ""
    [] moves[n].state = "isolated" -> IF IsThere(n) THEN "isolated" ELSE ""
    [] OTHER -> moves[n].state
Issues == \E n \in Quarantined : Settled(n) = ""
AuditedMoves ==
  [n \in DOMAIN moves |->
     IF n \in Quarantined /\ Settled(n) # "" THEN [moves[n] EXCEPT !.state = Settled(n)]
     ELSE moves[n]]
AuditedLedger ==
  [bytes |-> BytesOf({moves[n].action : n \in {m \in Quarantined :
                                      Settled(m) = "isolated" /\ IsThere(m)}}),
   pending |-> {}]

\* mutant: reservations left behind by a dead process are merely dropped
LoadedCarelessly == [ledger EXCEPT !.pending = {}]

\* _load_ledger_for_move: a reservation left behind calls for an audit
LoadedMoves == IF ledger.pending = {} THEN moves ELSE AuditedMoves
LoadedLedger == IF ledger.pending = {} THEN ledger ELSE AuditedLedger
Refused == ledger.pending # {} /\ Issues

\* audit(rebuild=True), from the command line; or dying within it
audit ==
  /\ Unlocked
  /\ \/ moves' = AuditedMoves /\ ledger' = AuditedLedger /\ Works
     \/ /\ Failing /\ UNCHANGED ledger
        /\ \E done \in SUBSET Quarantined :
             moves' = [n \in DOMAIN moves |->
                         IF n \in done THEN AuditedMoves[n] ELSE moves[n]]
  /\ UNCHANGED <<target, rows, client, lost>>

-----------------------------------------------------------------------------
(* A client's steps.                                                       *)

Action(c) == client[c].action
Move(c) == client[c].copy[Action(c)].undo
At(c, op, here) == client[c].op = op /\ client[c].at = here
Goes(c, there) == client' = [client EXCEPT ![c].at = there]
GoesWith(c, there, n) == client' = [client EXCEPT ![c].at = there, ![c].move = n]
Returns(c) == client' = [client EXCEPT ![c] = Idle]

\* the result of the action in hand, to be recorded
Ends(c, result) ==
  client' = [client EXCEPT ![c].at = "record", ![c].result = result]
Fails(c) == Ends(c, [client[c].copy[client[c].action] EXCEPT !.status = "failed"])
\* undo and purge leave the status alone
Errs(c) == Ends(c, client[c].copy[client[c].action])
Succeeds(c, n) == Ends(c, [status |-> "succeeded", undo |-> n])

\* rows that others have changed since the client read or wrote them
Outdated(c, as) == {a \in as : rows[a] # client[c].copy[a]}

\* the plan is read; when it is applied, a confirmation may be asked between
get_plan(c, op) ==
  /\ client[c].op = "none" /\ spare.calls > 0
  /\ spare' = [spare EXCEPT !.calls = @ - 1]
  /\ client' = [client EXCEPT ![c] =
       [Idle EXCEPT !.op = op, !.copy = rows,
          !.at = IF op = "apply" THEN "asked" ELSE "items",
          !.todo = CASE op = "undo" -> {a \in Actions : rows[a].status = "succeeded"
                                                        /\ rows[a].undo # Home}
                     [] op = "purge" -> {a \in Actions :
                          /\ rows[a].status = "succeeded" /\ rows[a].undo # Home
                          /\ moves[rows[a].undo].by = "quarantine"}
                     [] OTHER -> {}]]
  /\ UNCHANGED <<target, moves, ledger, rows, lost>>

\* mutant: an action already carried out is tried again
StillToDoAll(copy) == {a \in Actions : copy[a].status # "skipped"}

\* the actions execute() does not skip
StillToDo(copy) ==
  {a \in Actions : copy[a].status \notin {"skipped", "succeeded", "purged"}}

\* execute: every row is written from the copy
execute(c, how) ==
  /\ At(c, "apply", "asked")
  /\ rows' = client[c].copy
  /\ lost' = lost \cup Outdated(c, Actions)
  /\ client' = [client EXCEPT ![c].how = how, ![c].at = "items",
                              ![c].todo = StillToDo(client[c].copy)]
  /\ UNCHANGED <<target, moves, ledger, spare>>

FirstStep(how) ==
  CASE how = "trash" -> "trash" [] how = "quarantine" -> "lock" [] OTHER -> "unlink"

\* prepare_mutation, the row and the audit entries before the mutation
Prepare(c, a) ==
  /\ At(c, "apply", "items") /\ a \in client[c].todo
  /\ lost' = lost \cup Outdated(c, {a})
  /\ LET valid == target[a].at = Home /\ target[a].is = "same"
         new == [client[c].copy[a] EXCEPT !.status = IF valid THEN @ ELSE "skipped"]
         blamed == [new EXCEPT !.status = "failed"]
     IN  \/ /\ Works
            /\ rows' = [rows EXCEPT ![a] = new]
            /\ client' = [client EXCEPT ![c].copy[a] = new, ![c].action = a,
                 ![c].todo = @ \ {a},
                 ![c].at = IF valid THEN FirstStep(client[c].how) ELSE "items"]
         \/ /\ Failing \* the audit entry cannot be written
            /\ rows' = [rows EXCEPT ![a] = blamed]
            /\ client' = [client EXCEPT ![c].copy[a] = blamed, ![c].at = "unaudited"]
  /\ UNCHANGED <<target, moves, ledger>>

\* the same for undo and purge: the target must be where the undo says; an
\* audit entry that cannot be written ends the operation
Identify(c, a) ==
  /\ client[c].op \in {"undo", "purge"} /\ client[c].at = "items"
  /\ a \in client[c].todo
  /\ \/ /\ Works
        /\ client' = [client EXCEPT ![c].action = a, ![c].todo = @ \ {a},
             ![c].result = client[c].copy[a],
             ![c].at = IF target[a].at = client[c].copy[a].undo /\ target[a].is = "same"
                       THEN "held" ELSE "record"]
     \/ Failing /\ Returns(c)
  /\ UNCHANGED <<target, moves, ledger, rows, lost>>

\* the row and the audit entry after; without the entry execute() stops, and
\* undo() and purge() are left
Recorded(c) ==
  /\ client[c].at = "record"
  /\ LET a == client[c].action
     IN  /\ rows' = [rows EXCEPT ![a] = client[c].result]
         /\ lost' = lost \cup Outdated(c, {a})
         /\ \/ Works /\ client' = [client EXCEPT ![c] = [Idle EXCEPT
                  !.op = client[c].op, !.how = client[c].how, !.at = "items",
                  !.todo = client[c].todo,
                  !.copy = [client[c].copy EXCEPT ![a] = client[c].result]]]
            \/ /\ Failing
               /\ IF client[c].op # "apply" THEN Returns(c)
                  ELSE client' = [client EXCEPT ![c].at = "unaudited",
                                                ![c].copy[a] = client[c].result]
  /\ UNCHANGED <<target, moves, ledger>>

\* the rest is skipped, and every row written from the copy
Unaudited(c) ==
  /\ client[c].at = "unaudited"
  /\ rows' = [a \in Actions |->
       [client[c].copy[a] EXCEPT !.status = IF @ = "planned" THEN "skipped" ELSE @]]
  /\ lost' = lost \cup Outdated(c, Actions)
  /\ Returns(c)
  /\ UNCHANGED <<target, moves, ledger, spare>>

Finish(c) ==
  /\ client[c].at = "items" /\ client[c].todo = {}
  /\ Returns(c)
  /\ UNCHANGED <<target, moves, ledger, rows, lost, spare>>

-----------------------------------------------------------------------------
(* XDGTrashAdapter.move, permanent_delete.                                 *)

Movable(a) == target[a].at = Home /\ target[a].is = "same"
MovedTo(a, n) == target' = [target EXCEPT ![a].at = n]

\* renamed; or the Trash is of no use, and the quarantine is tried
Trash(c) ==
  /\ At(c, "apply", "trash") /\ Len(moves) < MaxMoves
  /\ LET a == Action(c)
     IN  \/ /\ Movable(a) /\ Works
            /\ moves' = Append(moves, [action |-> a, by |-> "trash", state |-> "bare"])
            /\ MovedTo(a, Len(moves) + 1)
            /\ GoesWith(c, "info", Len(moves) + 1)
         \/ /\ (Works /\ Goes(c, "lock")) \/ (Failing /\ Fails(c))
            /\ UNCHANGED <<target, moves>>
  /\ UNCHANGED <<ledger, rows, lost>>

\* .trashinfo; without it the target is moved back, if it can be
TrashInfo(c) ==
  /\ At(c, "apply", "info")
  /\ LET a == Action(c)
         n == client[c].move
         back == target[a].is = "same" /\ ~target[a].taken
     IN  \/ /\ Works
            /\ moves' = [moves EXCEPT ![n].state = "isolated"]
            /\ Succeeds(c, n)
            /\ UNCHANGED <<target, lost>>
         \/ /\ Failing
            /\ IF back THEN MovedTo(a, Home) ELSE UNCHANGED target
            /\ moves' = [moves EXCEPT ![n].state = IF back THEN "aborted" ELSE @]
            /\ lost' = IF back THEN lost ELSE lost \cup {a}
            /\ Goes(c, "lock")
  /\ UNCHANGED <<ledger, rows>>

\* of a file; a directory is refused
Unlink(c) ==
  /\ At(c, "apply", "unlink")
  /\ \/ /\ Movable(Action(c)) /\ Works
        /\ target' = [target EXCEPT ![Action(c)].is = "gone"]
        /\ Succeeds(c, Move(c))
     \/ Works /\ Fails(c) /\ UNCHANGED target
  /\ UNCHANGED <<moves, ledger, rows, lost>>

-----------------------------------------------------------------------------
(* QuarantineExecutor.move.                                                *)

\* the lock, the ledger, the capacity, the reservation
Reserve(c) ==
  /\ At(c, "apply", "lock") /\ Unlocked /\ Len(moves) < MaxMoves
  /\ moves' = LoadedMoves
  /\ LET l == LoadedLedger
         granted == ~Refused /\ l.bytes + BytesOf(l.pending \cup {Action(c)}) <= Capacity
     IN  \/ /\ granted /\ Works
            /\ ledger' = [l EXCEPT !.pending = @ \cup {Action(c)}]
            /\ Goes(c, "prepare")
         \/ /\ IF granted THEN Failing ELSE Works
            /\ ledger' = l
            /\ Fails(c)
  /\ UNCHANGED <<target, rows, lost>>

Freed(c) == [ledger EXCEPT !.pending = @ \ {Action(c)}]

\* the manifest; without it the reservation is given up
PrepareManifest(c) ==
  /\ At(c, "apply", "prepare") /\ Len(moves) < MaxMoves
  /\ \/ /\ Works
        /\ moves' = Append(moves, [action |-> Action(c), by |-> "quarantine",
                                   state |-> "prepared"])
        /\ GoesWith(c, "rename", Len(moves) + 1) /\ UNCHANGED ledger
     \/ /\ Failing
        /\ ledger' \in {ledger, Freed(c)}
        /\ Fails(c) /\ UNCHANGED moves
  /\ UNCHANGED <<target, rows, lost>>

\* renamed; or the target is no longer what was planned for and stays
Rename(c) ==
  /\ At(c, "apply", "rename")
  /\ IF Movable(Action(c))
     THEN /\ MovedTo(Action(c), client[c].move)
          /\ Goes(c, "isolate") /\ UNCHANGED <<moves, ledger>>
     ELSE /\ moves' = [moves EXCEPT ![client[c].move].state = "aborted"]
          /\ ledger' = Freed(c)
          /\ Fails(c) /\ UNCHANGED target
  /\ UNCHANGED <<rows, lost, spare>>

\* the manifest again: a failure to write it is not a failure to move
Isolate(c) ==
  /\ At(c, "apply", "isolate")
  /\ \/ /\ Works
        /\ moves' = [moves EXCEPT ![client[c].move].state = "isolated"]
        /\ Goes(c, "commit") /\ UNCHANGED lost
     \/ /\ Failing
        /\ lost' = lost \cup {Action(c)}
        /\ Fails(c) /\ UNCHANGED moves
  /\ UNCHANGED <<target, ledger, rows>>

\* the ledger again
Commit(c) ==
  /\ At(c, "apply", "commit")
  /\ \/ /\ Works
        /\ ledger' = [Freed(c) EXCEPT !.bytes = @ + Bytes[Action(c)]]
        /\ Succeeds(c, client[c].move) /\ UNCHANGED lost
     \/ /\ Failing
        /\ lost' = lost \cup {Action(c)}
        /\ Fails(c) /\ UNCHANGED ledger
  /\ UNCHANGED <<target, moves, rows>>

-----------------------------------------------------------------------------
(* restore, of both executors, and QuarantineExecutor.purge.               *)

Writes(c, state) == moves' = [moves EXCEPT ![Move(c)].state = state]
MovesBack(c) ==
  target' = [target EXCEPT ![Action(c)].at = Home]

\* from the Trash, in one rename
Untrash(c) ==
  /\ client[c].at = "held" /\ moves[Move(c)].by = "trash" /\ Works
  /\ IF IsThere(Move(c)) /\ ~Object(Move(c)).taken
     THEN MovesBack(c) /\ Writes(c, "restored") /\ Ends(c, [status |-> "undone", undo |-> Move(c)])
     ELSE Errs(c) /\ UNCHANGED <<target, moves>>
  /\ UNCHANGED <<ledger, rows, lost>>

\* the lock, the ledger, and what is about to be done, in the manifest
Announce(c) ==
  /\ client[c].at = "held" /\ moves[Move(c)].by = "quarantine" /\ Unlocked
  /\ ledger' = LoadedLedger
  /\ LET n == Move(c)
         restoring == client[c].op = "undo"
         may == ~Refused /\ (IF restoring THEN ~Object(n).taken /\ Object(n).at # Home
                                          ELSE IsThere(n))
     IN  \/ /\ may /\ Works
            /\ moves' = [LoadedMoves EXCEPT ![n].state =
                           IF restoring THEN "restoring" ELSE "purging"]
            /\ Goes(c, IF restoring THEN "return" ELSE "delete")
         \/ /\ IF may THEN Failing ELSE Works
            /\ moves' = LoadedMoves
            /\ Errs(c)
  /\ UNCHANGED <<target, rows, lost>>

\* renamed back, or found to be something else by now
Return(c) ==
  /\ client[c].at = "return" /\ Works
  /\ IF IsThere(Move(c)) /\ ~Object(Move(c)).taken
     THEN MovesBack(c) /\ Goes(c, "settle") /\ UNCHANGED moves
     ELSE Writes(c, "isolated") /\ Errs(c) /\ UNCHANGED target
  /\ UNCHANGED <<ledger, rows, lost>>

\* deleted, or only in part
Delete(c) ==
  /\ client[c].at = "delete"
  /\ \/ /\ IsThere(Move(c)) /\ Works
        /\ target' = [target EXCEPT ![Action(c)].is = "gone"]
        /\ Goes(c, "settle") /\ UNCHANGED moves
     \/ /\ IF IsThere(Move(c)) THEN Failing ELSE Works
        /\ target' = [target EXCEPT ![Action(c)].is = IF @ = "same" THEN "changed" ELSE @]
        /\ Writes(c, "isolated") /\ Errs(c)
  /\ UNCHANGED <<ledger, rows, lost>>

\* the manifest, then the ledger
Settle(c) ==
  /\ client[c].at = "settle"
  /\ \/ /\ Works
        /\ Writes(c, IF client[c].op = "undo" THEN "restored" ELSE "purged")
        /\ Goes(c, "debit")
     \/ Failing /\ Errs(c) /\ UNCHANGED moves
  /\ UNCHANGED <<target, ledger, rows, lost>>

Short(x, y) == IF x < y THEN 0 ELSE x - y

Debit(c) ==
  /\ client[c].at = "debit"
  /\ \/ /\ Works
        /\ ledger' = [ledger EXCEPT !.bytes = Short(@, Bytes[Action(c)])]
        /\ IF client[c].op = "undo" THEN Ends(c, [status |-> "undone", undo |-> Move(c)])
                                    ELSE Ends(c, [status |-> "purged", undo |-> 0])
     \/ Failing /\ Errs(c) /\ UNCHANGED ledger
  /\ UNCHANGED <<target, moves, rows, lost>>

-----------------------------------------------------------------------------
(* Faults.                                                                 *)

\* a process dies; what it had in hand has moved but may not be recorded
Dies(c) ==
  /\ client[c].op # "none" /\ Failing
  /\ Returns(c)
  /\ lost' = lost \cup (IF client[c].op = "apply"
                           /\ client[c].at \in {"info", "isolate", "commit", "record"}
                        THEN {Action(c)} ELSE {})
  /\ target' = IF client[c].at = "delete" /\ IsThere(Move(c))
               THEN [target EXCEPT ![Action(c)].is = "changed"] ELSE target
  /\ UNCHANGED <<moves, ledger, rows>>

\* others change the object, or take its path
Touched(a) ==
  /\ spare.touches > 0 /\ spare' = [spare EXCEPT !.touches = @ - 1]
  /\ \/ target[a].is = "same" /\ target' = [target EXCEPT ![a].is = "changed"]
     \/ target[a].at # Home /\ target' = [target EXCEPT ![a].taken = TRUE]
  /\ UNCHANGED <<moves, ledger, rows, client, lost>>

CleanupNext ==
  \/ audit
  \/ \E a \in Actions : Touched(a)
  \/ \E c \in Clients :
       \/ \E op \in {"apply", "undo", "purge"} : get_plan(c, op)
       \/ \E how \in {"trash", "quarantine", "permanent"} : execute(c, how)
       \/ \E a \in Actions : Prepare(c, a) \/ Identify(c, a)
       \/ Recorded(c) \/ Unaudited(c) \/ Finish(c)
       \/ Trash(c) \/ TrashInfo(c) \/ Unlink(c)
       \/ Reserve(c) \/ PrepareManifest(c) \/ Rename(c) \/ Isolate(c) \/ Commit(c)
       \/ Untrash(c) \/ Announce(c) \/ Return(c) \/ Delete(c) \/ Settle(c) \/ Debit(c)
       \/ Dies(c)

-----------------------------------------------------------------------------
(* Properties.                                                             *)

(* The objects in the quarantine stay within its capacity, and the ledger, *)
(* reservations included, never counts less than is there: whichever of    *)
(* its processes died or failed to write, and however they took turns.     *)
QuarantineWithinCapacity ==
  LET there == {moves[n].action : n \in {m \in Quarantined : IsThere(m)}}
  IN  /\ BytesOf(there) <= Capacity
      /\ BytesOf(there) <= ledger.bytes + BytesOf(ledger.pending)

(* Whatever was moved and is still there can be undone: the row says so    *)
(* and says where.  An undo is lost only where a process died or failed to *)
(* write between the rename and the row, or where a client wrote rows back *)
(* that another had changed since it read them.                            *)
UndoKept ==
  \A a \in Actions :
     \/ target[a].at = Home \/ target[a].is # "same"
     \/ rows[a].status = "succeeded" /\ rows[a].undo = target[a].at
     \/ a \in lost
     \/ \E c \in Clients : client[c].action = a /\ client[c].at \notin {"", "asked", "items"}
=============================================================================
