---------------------------- MODULE NativeEvents ----------------------------
(***************************************************************************)
(* The inotify backend (collectors/events/native.py): one watch per        *)
(* directory, by which the reader's thread follows a tree that other       *)
(* processes change, while a full scan registers the directories it reads. *)
(*                                                                         *)
(* The kernel's half is modelled from how the adapter uses it: a watch is  *)
(* of a directory and not of its path, events queue up with the name they  *)
(* happened under, and both threads see the tree as it is now, not as it   *)
(* was when the event they handle was queued.  A path is the sequence of   *)
(* names below the root.  Policies, depth and descriptor limits, files and *)
(* what is passed on to the monitor are left out.                          *)
(***************************************************************************)
EXTENDS Naturals, SequencesExt, TLC

CONSTANTS Names,      \* of directories
          MaxDepth,   \* bound: of the tree
          MaxQueue,   \* max_queued_events
          MaxDirs,    \* bound: directories ever there, below the root
          MaxRenames,   \* bound: renames
          MaxRemovals, \* bound: removals and moves out of the tree
          MaxWatches  \* bound: watches ever made

ASSUME NativeAssumption ==
  /\ {MaxDepth, MaxQueue, MaxDirs, MaxRenames, MaxRemovals, MaxWatches} \subseteq Nat
  /\ "" \notin Names

VARIABLES
  disk,    \* the tree: path -> directory
  wds,     \* the kernel's watches: descriptor -> directory
  queue,   \* its event queue
  known,   \* _watches_by_wd: descriptor -> path
  byPath,  \* _wd_by_path
  unpaired, \* _pending_moves: cookie -> path
  reader,  \* the subtree the reader is adding watches for
  scan,    \* the full scan that registers directories
  owed,    \* whether a full scan is required, or running
  slipped, \* history: directories missed in one of the ways that the property names
  spent    \* directories, renames, removals and watches so far

nativeVars == <<disk, wds, queue, known, byPath, unpaired, reader, scan, owed,
                slipped, spent>>

TheRoot == <<>>
AllPaths == UNION {[1..n -> Names] : n \in 0..MaxDepth}
Within(p, q) == IsPrefix(q, p)  \* p is q or below it
Children(p) == {q \in DOMAIN disk : q # TheRoot /\ Front(q) = p}

\* f with y for x
Entered(f, x, y) == [z \in DOMAIN f \cup {x} |-> IF z = x THEN y ELSE f[z]]

\* paths still to visit, and the one that has a watch and is not listed yet
NoWalk == [todo |-> {}, open |-> {}]
Walk(p) == [todo |-> {p}, open |-> {}]

NativeTypeOK ==
  /\ DOMAIN disk \subseteq AllPaths /\ TheRoot \in DOMAIN disk
  /\ \A p \in DOMAIN disk \ {TheRoot} : Front(p) \in DOMAIN disk
  /\ IsInjective(disk) /\ IsInjective(wds)
  /\ DOMAIN wds \cup DOMAIN known \subseteq 1..spent.watches
  /\ Range(known) \subseteq AllPaths /\ Range(byPath) \subseteq 1..spent.watches
  /\ Len(queue) <= MaxQueue + 1
  /\ owed \in {"no", "yes", "running"}
  /\ Cardinality(reader.open) <= 1 /\ Cardinality(scan.open) <= 1

\* a tree that is there when the monitor starts: the root is watched and the
\* rest is registered by the scan
NativeInit ==
  \E paths \in SUBSET (AllPaths \ {TheRoot}) :
    /\ \A p \in paths : Front(p) \in paths \cup {TheRoot}
    /\ IsFiniteSet(paths) /\ Cardinality(paths) <= 2 /\ Cardinality(paths) <= MaxDirs
    /\ \E number \in Bijection(paths, 1..Cardinality(paths)) :
         /\ disk = [p \in paths \cup {TheRoot} |-> IF p = TheRoot THEN 0 ELSE number[p]]
         /\ \A p, q \in paths : Len(p) < Len(q) => number[p] < number[q]
    /\ spent \in [dirs : {Cardinality(paths)}, moves : 0..MaxRenames,
                  removals : 0..MaxRemovals, watches : {1}]
    /\ wds = <<0>> /\ known = <<TheRoot>> /\ byPath = [p \in {TheRoot} |-> 1]
    /\ queue = <<>> /\ unpaired = <<>>
    /\ reader = NoWalk /\ scan = NoWalk
    /\ owed = "yes" /\ slipped = {}

-----------------------------------------------------------------------------
(* The kernel.                                                             *)

Raw(wd, kind, name, cookie) == [wd |-> wd, kind |-> kind, name |-> name, cookie |-> cookie]

\* an event of directory d, if it is watched
Told(d, kind, name, cookie) ==
  IF d \in Range(wds) THEN <<Raw(Inverse(wds, DOMAIN wds, Range(wds))[d], kind, name, cookie)>>
  ELSE <<>>

Overflowed == Raw(0, "overflow", "", 0)

\* what does not fit is dropped, and says so once
Queued(old, events) ==
  IF Len(old) + Len(events) <= MaxQueue THEN old \o events
  ELSE LET kept == SubSeq(old \o events, 1, IF Len(old) > MaxQueue THEN Len(old) ELSE MaxQueue)
       IN  IF Contains(kept, Overflowed) THEN kept ELSE Append(kept, Overflowed)

Happens(events) == queue' = Queued(queue, events)

\* is lost, and the overflow that will be read is an earlier one
Unheard(events) ==
  events # <<>> /\ Len(queue) >= MaxQueue /\ Contains(queue, Overflowed)

UntouchedBackend == UNCHANGED <<known, byPath, unpaired, reader, scan, owed, slipped>>

\* a directory is made, or moved in from elsewhere
Appear(p, kind) ==
  /\ p \notin DOMAIN disk /\ Front(p) \in DOMAIN disk /\ spent.dirs < MaxDirs
  /\ disk' = Entered(disk, p, spent.dirs + 1)
  /\ spent' = [spent EXCEPT !.dirs = @ + 1]
  /\ LET news == Told(disk[Front(p)], kind, Last(p), 0)
     IN Happens(news) /\ slipped' = IF Unheard(news) THEN slipped \cup {spent.dirs + 1} ELSE slipped
  /\ UNCHANGED <<wds, known, byPath, unpaired, reader, scan, owed>>

\* an empty directory is removed, and its watch with it
Rmdir(p) ==
  LET d == disk[p] IN
  /\ p # TheRoot /\ Children(p) = {} /\ spent.removals < MaxRemovals
  /\ disk' = Restrict(disk, DOMAIN disk \ {p})
  /\ wds' = RestrictValues(wds, LAMBDA e : e # d)
  /\ spent' = [spent EXCEPT !.removals = @ + 1]
  /\ Happens(Told(d, "delete_self", "", 0) \o Told(d, "ignored", "", 0)
             \o Told(disk[Front(p)], "delete", Last(p), 0))
  /\ UntouchedBackend

\* a directory is moved out of the tree; what it holds stays watched
MoveOut(p) ==
  /\ p # TheRoot /\ spent.removals < MaxRemovals
  /\ disk' = Restrict(disk, {q \in DOMAIN disk : ~Within(q, p)})
  /\ spent' = [spent EXCEPT !.removals = @ + 1]
  /\ Happens(Told(disk[Front(p)], "from", Last(p), MaxRenames + spent.removals + 1)
             \o Told(disk[p], "move_self", "", 0))
  /\ UNCHANGED wds /\ UntouchedBackend

\* q \o what p has below p'
Rebased(p, from, to) == to \o SubSeq(p, Len(from) + 1, Len(p))

MoveWithin(p, q) ==
  LET cookie == spent.moves + 1
      home(r) == IF Within(r, q) THEN Rebased(r, q, p) ELSE r
  IN
  /\ p # TheRoot /\ spent.moves < MaxRenames
  /\ q \notin DOMAIN disk /\ Front(q) \in DOMAIN disk /\ ~Within(q, p)
  /\ \A r \in DOMAIN disk : Within(r, p) => Rebased(r, p, q) \in AllPaths
  /\ disk' = [r \in {IF Within(r, p) THEN Rebased(r, p, q) ELSE r : r \in DOMAIN disk}
                |-> disk[home(r)]]
  /\ spent' = [spent EXCEPT !.moves = @ + 1]
  /\ Happens(Told(disk[Front(p)], "from", Last(p), cookie)
             \o Told(disk[Front(q)], "to", Last(q), cookie)
             \o Told(disk[p], "move_self", "", 0))
  /\ slipped' = slipped \cup {disk[r] : r \in {r \in DOMAIN disk : Within(r, p)}}
  /\ UNCHANGED <<wds, known, byPath, unpaired, reader, scan, owed>>

-----------------------------------------------------------------------------
(* Adding watches.                                                         *)

Followed ==
  {p \in DOMAIN disk \cap DOMAIN byPath :
     byPath[p] \in DOMAIN wds \cap DOMAIN known /\ known[byPath[p]] = p /\ wds[byPath[p]] = disk[p]}

\* _add_one; the kernel knows a directory it watches already
_add_one(p) ==
  IF p \in DOMAIN byPath \/ p \notin DOMAIN disk
  THEN /\ slipped' = slipped \cup {disk[q] : q \in ({p} \cap DOMAIN disk) \ Followed}
       /\ UNCHANGED <<wds, known, byPath, spent>>
  ELSE LET d   == disk[p]
           old == {wd \in DOMAIN wds : wds[wd] = d}
           wd  == IF old = {} THEN spent.watches + 1 ELSE CHOOSE w \in old : TRUE
       IN  /\ wd <= MaxWatches
           /\ wds' = Entered(wds, wd, d)
           /\ known' = Entered(known, wd, p)
           /\ byPath' = Entered(byPath, p, wd)
           /\ slipped' = IF queue = <<>> /\ unpaired = <<>> THEN slipped \ {d} ELSE slipped
           /\ spent' = [spent EXCEPT !.watches = IF wd > @ THEN wd ELSE @]

\* mutant: a new directory is watched and not looked into
OpenedUnlisted(walk, p) == [todo |-> walk.todo \ {p}, open |-> {}]

\* a directory gets its watch before it is listed
Opened(walk, p) == [todo |-> walk.todo \ {p}, open |-> {p} \cap DOMAIN disk]

Listed(walk) == [todo |-> walk.todo \cup UNION {Children(p) : p \in walk.open}, open |-> {}]

\* _add_watch_tree
ReaderAdds(p) ==
  /\ p \in reader.todo /\ reader.open = {}
  /\ _add_one(p) /\ reader' = Opened(reader, p)
  /\ UNCHANGED <<disk, queue, unpaired, scan, owed>>
ReaderLists ==
  /\ reader.open # {} /\ reader' = Listed(reader)
  /\ UNCHANGED <<disk, wds, queue, known, byPath, unpaired, scan, owed, slipped, spent>>

\* a full scan: register_directory as each directory is read
ScanStarts ==
  /\ owed = "yes" /\ scan = NoWalk
  /\ owed' = "running" /\ scan' = Walk(TheRoot)
  /\ UNCHANGED <<disk, wds, queue, known, byPath, unpaired, reader, slipped, spent>>
ScanGoesOn(walk) ==
  /\ scan' = walk
  /\ owed' = IF walk = NoWalk /\ owed = "running" THEN "no" ELSE owed
register_directory(p) ==
  /\ p \in scan.todo /\ scan.open = {}
  /\ _add_one(p) /\ ScanGoesOn(Opened(scan, p))
  /\ UNCHANGED <<disk, queue, unpaired, reader>>
ScanLists ==
  /\ scan.open # {} /\ ScanGoesOn(Listed(scan))
  /\ UNCHANGED <<disk, wds, queue, known, byPath, unpaired, reader, slipped, spent>>

-----------------------------------------------------------------------------
(* Forgetting watches.                                                     *)

\* _forget_watch, of several; the kernel says that it has
Forget(those, rest) ==
  /\ known' = Restrict(known, DOMAIN known \ those)
  /\ byPath' = Restrict(byPath, DOMAIN byPath \ {known[wd] : wd \in those})
  /\ wds' = Restrict(wds, DOMAIN wds \ those)
  /\ queue' = Queued(rest, [n \in 1..Cardinality(those \cap DOMAIN wds) |->
                 Raw(SetToSeq(those \cap DOMAIN wds)[n], "ignored", "", 0)])

Beneath(p) == {wd \in DOMAIN known : Within(known[wd], p)}

\* the directories among them that are still in the tree
Alive(those) == {wds[wd] : wd \in those \cap DOMAIN wds} \cap Range(disk)

-----------------------------------------------------------------------------
(* _handle_raw_event.                                                      *)

Reads == reader = NoWalk /\ queue # <<>>
Now == Head(queue)
IsKnown == Now # Overflowed /\ Now.wd \in DOMAIN known
Place == IF Now.name = "" THEN known[Now.wd] ELSE Append(known[Now.wd], Now.name)

HandleOverflow ==
  /\ Reads /\ Now = Overflowed
  /\ owed' = "yes" /\ queue' = Tail(queue)
  /\ UNCHANGED <<disk, wds, known, byPath, unpaired, reader, scan, slipped, spent>>

HandleStranger ==
  /\ Reads /\ Now # Overflowed /\ ~IsKnown
  /\ queue' = Tail(queue)
  /\ UNCHANGED <<disk, wds, known, byPath, unpaired, reader, scan, owed, slipped, spent>>

\* a directory went, or moved: what is watched under its path is forgotten
HandleGone ==
  /\ Reads /\ IsKnown /\ Now.kind \in {"ignored", "delete_self", "move_self", "delete"}
  /\ Forget(IF Now.kind = "ignored" THEN {Now.wd} ELSE Beneath(Place), Tail(queue))
  /\ UNCHANGED <<disk, unpaired, reader, scan, owed, slipped, spent>>

HandleMovedFrom ==
  /\ Reads /\ IsKnown /\ Now.kind = "from"
  /\ unpaired' = Entered(unpaired, Now.cookie, Place)
  /\ queue' = Tail(queue)
  /\ UNCHANGED <<disk, wds, known, byPath, reader, scan, owed, slipped, spent>>

\* _add_new_directory: one that is gone already counts as a failure
AddNew(p) ==
  IF p \in DOMAIN disk THEN reader' = Walk(p) /\ UNCHANGED owed
  ELSE owed' = "yes" /\ UNCHANGED reader

HandleNew ==
  /\ Reads /\ IsKnown
  /\ Now.kind = "create" \/ (Now.kind = "to" /\ Now.cookie \notin DOMAIN unpaired)
  /\ AddNew(Place) /\ queue' = Tail(queue)
  /\ UNCHANGED <<disk, wds, known, byPath, unpaired, scan, slipped, spent>>

\* _remap_directory
HandleMoved ==
  LET source == unpaired[Now.cookie]
      moved == Beneath(source)
      new(wd) == Rebased(known[wd], source, Place)
  IN
  /\ Reads /\ IsKnown /\ Now.kind = "to" /\ Now.cookie \in DOMAIN unpaired
  /\ known' = [wd \in DOMAIN known |-> IF wd \in moved THEN new(wd) ELSE known[wd]]
  /\ byPath' = [p \in (DOMAIN byPath \ {known[wd] : wd \in moved}) \cup {new(wd) : wd \in moved} |->
                 IF \E wd \in moved : new(wd) = p THEN CHOOSE wd \in moved : new(wd) = p
                 ELSE byPath[p]]
  /\ unpaired' = Restrict(unpaired, DOMAIN unpaired \ {Now.cookie})
  /\ queue' = Tail(queue)
  /\ UNCHANGED <<disk, wds, reader, scan, owed, slipped, spent>>

\* _flush_unpaired_moves, of one that has waited too long
FlushMove(cookie) ==
  /\ reader = NoWalk
  /\ unpaired' = Restrict(unpaired, DOMAIN unpaired \ {cookie})
  /\ Forget(Beneath(unpaired[cookie]), queue)
  /\ slipped' = slipped \cup Alive(Beneath(unpaired[cookie]))
  /\ UNCHANGED <<disk, reader, scan, owed, spent>>

NativeNext ==
  \/ \E p \in AllPaths \ DOMAIN disk : Appear(p, "create") \/ Appear(p, "to")
  \/ \E p \in DOMAIN disk : Rmdir(p) \/ MoveOut(p) \/ \E q \in AllPaths : MoveWithin(p, q)
  \/ \E p \in AllPaths : ReaderAdds(p) \/ register_directory(p)
  \/ ReaderLists \/ ScanStarts \/ ScanLists
  \/ HandleOverflow \/ HandleStranger \/ HandleGone
  \/ HandleMovedFrom \/ HandleNew \/ HandleMoved
  \/ \E cookie \in DOMAIN unpaired : FlushMove(cookie)

-----------------------------------------------------------------------------
(* Properties.                                                             *)

CaughtUp == queue = <<>> /\ reader = NoWalk /\ unpaired = <<>> /\ owed = "no"

(* Once the reader has caught up and no full scan is owed, every directory *)
(* in a watched directory is watched, under the path it has: whatever was  *)
(* made, removed or lost in the queue meanwhile.  The exceptions are what  *)
(* the adapter gets wrong: a directory that was renamed within the tree,   *)
(* until a scan registers it with nothing left in the queue (MOVE_SELF     *)
(* undoes _remap_directory); one under a name that a move out of the tree  *)
(* left behind, when the unpaired move is flushed; one whose name has      *)
(* a watch of another directory still, when _add_one returns early; and    *)
(* one that came with the queue full behind an overflow not read yet: a    *)
(* removal before it is handled after the scan that found it.              *)
WatchesFollowTheTree ==
  CaughtUp =>
    /\ TheRoot \in Followed
    /\ \A p \in DOMAIN disk \ {TheRoot} :
         Front(p) \in Followed => p \in Followed \/ disk[p] \in slipped
=============================================================================
