------------------------------ MODULE Pictures ------------------------------
(***************************************************************************)
(* What is drawn of a monitor's history: the map of what changed between   *)
(* two snapshots, drawn from a few rows of each with the rest summed up    *)
(* (storage/database.py, services/visualization.py), and the heatmap of    *)
(* growth over all of them (domain/visualization.py).                      *)
(*                                                                         *)
(* A measurement is one number and whether the directory was refused.      *)
(* Left out: the other metrics, weights and colours, the order of rows.    *)
(***************************************************************************)
EXTENDS Integers, Sequences, FiniteSetsExt

CONSTANTS
  FilesOf,      \* the files of each directory; "/" is the root, which has the others
  MayMeasure,   \* the sizes each file may have
  ByName,       \* every path, in order of its name
  Cap,          \* how many rows are read of each kind
  Reach,        \* how deep the largest are looked for
  MaxIntervals, \* how many intervals the heatmap has
  MaxPoints,    \* bounds: snapshots, refusals and incompatible ones
  MaxMarks

VARIABLE points \* the snapshots: their rows, refused directories, whether it fits the monitor

Missing == -1
Folders_ == DOMAIN FilesOf
AllFiles == UNION {FilesOf[d] : d \in Folders_}
AllPaths == Folders_ \cup AllFiles
InFolder(p) == IF p \in AllFiles THEN CHOOSE d \in Folders_ : p \in FilesOf[d] ELSE "/"
Depth(p) == IF p = "/" THEN 0 ELSE IF InFolder(p) = "/" THEN 1 ELSE 2
Upward(p) == {p, InFolder(p), "/"}
Nth(p) == CHOOSE n \in DOMAIN ByName : ByName[n] = p

PictureTypeOK ==
  \A n \in DOMAIN points :
    /\ \A f \in AllFiles : points[n].row[f] \in MayMeasure[f]
    /\ points[n].refused \subseteq Folders_ /\ points[n].fits \in BOOLEAN

Or0(value) == IF value = Missing THEN 0 ELSE value
Total(sizes, files) == MapThenSumSet(LAMBDA f : Or0(sizes[f]), files)

\* the rows of a snapshot; a directory whose files are all gone is gone, unless
\* it is known to be there
RowsOf(sizes, refused) ==
  [p \in AllPaths |->
     IF p \in AllFiles THEN sizes[p]
     ELSE IF p = "/" THEN Total(sizes, AllFiles)
     ELSE IF p \notin refused /\ \A f \in FilesOf[p] : sizes[f] = Missing THEN Missing
     ELSE Total(sizes, FilesOf[p])]

PictureInit == points = <<>>

\* retention and identity are left to others: here a snapshot is saved
SavePoint ==
  /\ Len(points) < MaxPoints
  /\ \E s \in [AllFiles -> UNION {MayMeasure[f] : f \in AllFiles}],
        refused \in {{}} \cup {{d} : d \in Folders_}, fits \in BOOLEAN :
       /\ \A f \in AllFiles : s[f] \in MayMeasure[f]
       /\ points' = Append(points, [row |-> RowsOf(s, refused), refused |-> refused, fits |-> fits])
       \* bound: after the second, one file changes at a time
       /\ Len(points) >= 2 =>
            Cardinality({f \in AllFiles : s[f] # points[Len(points)].row[f]}) <= 1
  /\ Cardinality({n \in DOMAIN points' : points'[n].refused # {}})
       + Cardinality({n \in DOMAIN points' : ~points'[n].fits}) <= MaxMarks

PictureNext == SavePoint
PictureSpec == PictureInit /\ [][PictureNext]_points

-----------------------------------------------------------------------------
(* What is read of the store. *)

MeasureOf(n, p) == points[n].row[p]
Refusal(n, p) == p \in points[n].refused

Away(i) == IF i < 0 THEN -i ELSE i
Change(b, t, p) == Away(Or0(MeasureOf(t, p)) - Or0(MeasureOf(b, p)))

\* the k of the candidates with the largest score, by name among equals
Largest(k, candidates, Score(_)) ==
  {p \in candidates :
     k > Cardinality({q \in candidates :
            Score(q) > Score(p) \/ (Score(q) = Score(p) /\ Nth(q) < Nth(p))})}

RankSnapshotPaths(t) ==
  LET there == {p \in AllPaths \ {"/"} : MeasureOf(t, p) # Missing /\ Depth(p) <= Reach} IN
  Largest(Cap, there, LAMBDA p : MeasureOf(t, p)) \cup {"/"}

RankChangedPair(b, t) ==
  LET changed == {p \in AllPaths : \/ MeasureOf(b, p) # MeasureOf(t, p)
                                   \/ Refusal(b, p) # Refusal(t, p)} IN
  Largest(Cap, changed, LAMBDA p : Change(b, t, p))

\* what is read: the largest and the most changed, those that are asked for,
\* and the directories above them
CandidatePaths(b, t) ==
  LET largest == RankSnapshotPaths(t)
      changed == RankChangedPair(b, t)
      score(p) == LET size == IF p \in largest /\ p # "/" THEN MeasureOf(t, p) ELSE 0
                      change == IF p \in changed THEN Change(b, t, p) ELSE 0
                  IN IF size > change THEN size ELSE change
  IN Largest(2 * Cap, largest \cup changed, score)
PathMetadata(requested) == UNION {Upward(p) : p \in requested}
Projected(b, t, selected) ==
  PathMetadata(CandidatePaths(b, t) \cup {"/"} \cup selected)

\* the tree of the rows; a node <<d, "rest">> is what is in d and not in it
NodesOf(n, chosen) == {p \in chosen : MeasureOf(n, p) # Missing}
ChildrenIn(d, nodes) == {p \in nodes : p # "/" /\ InFolder(p) = d}
Remainder(n, d, nodes) ==
  LET rest == MeasureOf(n, d) - MapThenSumSet(LAMBDA p : MeasureOf(n, p), ChildrenIn(d, nodes))
  IN IF rest < 0 THEN 0 ELSE rest
ProjectionTree(n, chosen) ==
  LET nodes == NodesOf(n, chosen) IN
  [p \in {<<p, "it">> : p \in nodes}
         \cup {<<d, "rest">> : d \in {d \in nodes \cap Folders_ : Remainder(n, d, nodes) > 0}} |->
     IF p[2] = "it" THEN MeasureOf(n, p[1]) ELSE Remainder(n, p[1], nodes)]

-----------------------------------------------------------------------------
(* The map of what changed. *)

ClassifyDelta(old, new, isNew, isRemoved, unreadable) ==
  CASE unreadable -> "partial"
    [] ~unreadable /\ isNew -> "new"
    [] ~unreadable /\ isRemoved -> "removed"
    [] ~unreadable /\ ~isNew /\ ~isRemoved ->
         IF new > old THEN "growth" ELSE IF new < old THEN "shrink" ELSE "unchanged"

\* what a refused directory hides is everything in it
UnreadablePaths(n, tree) ==
  {p \in DOMAIN tree :
     \E q \in Upward(p[1]) : <<q, "it">> \in DOMAIN tree /\ Refusal(n, q)}

DeltaVisuals(b, t, old, new) ==
  LET hidden == UnreadablePaths(b, old) \cup UnreadablePaths(t, new)
      at(tree, p) == IF p \in DOMAIN tree THEN tree[p] ELSE 0
  IN [p \in DOMAIN old \cup DOMAIN new |->
        ClassifyDelta(at(old, p), at(new, p), p \notin DOMAIN old, p \notin DOMAIN new,
                      p \in hidden)]

Over(p) == IF p[2] = "rest" THEN <<p[1], "it">> ELSE <<InFolder(p[1]), "it">>
Above_(p) == {<<q, "it">> : q \in Upward(p[1])} \ {p}

RemovedRootsAll(removed) == removed  \* mutant

\* what is gone hangs where it was, each with what was in it: only the
\* topmost are hung
RemovedRoots(removed) == {p \in removed : ~\E q \in Above_(p) : q \in removed}

\* how often a path is drawn
TimesDrawn(old, new, p) ==
  LET roots == RemovedRoots(DOMAIN old \ DOMAIN new) IN
  IF p \in DOMAIN new THEN 1 ELSE Cardinality({r \in roots : r = p \/ r \in Above_(p)})

-----------------------------------------------------------------------------
(* The heatmap: its intervals are those of the last snapshots, its rows the *)
(* paths that changed in one of them.                                       *)

Usable == IF Len(points) <= MaxIntervals + 1 THEN 1 .. Len(points)
          ELSE (Len(points) - MaxIntervals) .. Len(points)
Intervals == {n \in Usable : n + 1 \in Usable}
Incompatible(n) == ~points[n].fits \/ ~points[n + 1].fits

NoVisual == "none"
\* of an interval and a path: the change, or nothing to say
HistoryVisual(n, p) ==
  LET old == MeasureOf(n, p)
      new == MeasureOf(n + 1, p)
      state == ClassifyDelta(Or0(old), Or0(new), old = Missing, new = Missing,
                             Refusal(n, p) \/ Refusal(n + 1, p))
  IN IF Incompatible(n) \/ (old = Missing /\ new = Missing)
        \/ (state = "unchanged" /\ points[n].refused \cup points[n + 1].refused = {})
     THEN NoVisual ELSE state

ListChangedPaths == UNION {RankChangedPair(n, n + 1) : n \in Intervals} \ {"/"}
HeatRows ==
  {p \in ListChangedPaths :
     \E n \in Intervals : HistoryVisual(n, p) \notin {NoVisual, "unchanged"}}

\* whether the path is thought to exist before the interval n
Appears(n, p) ==
  \/ HistoryVisual(n, p) = "new"
  \/ HistoryVisual(n, p) # NoVisual /\ Or0(MeasureOf(n, p)) = 0 /\ Or0(MeasureOf(n + 1, p)) > 0
Vanishes(n, p) ==
  \/ HistoryVisual(n, p) = "removed"
  \/ HistoryVisual(n, p) # NoVisual /\ Or0(MeasureOf(n, p)) > 0 /\ Or0(MeasureOf(n + 1, p)) = 0
ThoughtToExist(n, p) ==
  LET told == {m \in Intervals : m < n /\ (Appears(m, p) \/ Vanishes(m, p))}
      first == {m \in Intervals : HistoryVisual(m, p) # NoVisual}
  IN IF told # {} THEN Appears(Max(told), p) ELSE ~Appears(Min(first), p)

HeatCell(n, p) ==
  IF Incompatible(n) THEN "incompatible"
  ELSE IF HistoryVisual(n, p) # NoVisual THEN HistoryVisual(n, p)
  ELSE IF ThoughtToExist(n, p) THEN "unchanged" ELSE "missing"

-----------------------------------------------------------------------------
\* The map of the last two snapshots is whole: every row that was read is in
\* it once, a directory is what is drawn in it, what changed most is there,
\* what is asked for is there, and what was found in a refused directory is
\* not said to have grown or shrunk (load_visualization_projection,
\* build_diff_frame).
WholeWith(b, t, selected) ==
  LET chosen == Projected(b, t, selected)
      old == ProjectionTree(b, chosen)
      new == ProjectionTree(t, chosen)
      visuals == DeltaVisuals(b, t, old, new)
  IN /\ \A p \in DOMAIN visuals : TimesDrawn(old, new, p) = 1
     /\ \A p \in DOMAIN new : p[2] = "it" /\ p[1] \in Folders_ =>
          new[p] = MapThenSumSet(LAMBDA q : new[q], {q \in DOMAIN new \ {p} : Over(q) = p})
     /\ \A p \in selected : MeasureOf(t, p) # Missing \/ MeasureOf(b, p) # Missing
          => <<p, "it">> \in DOMAIN visuals
     /\ \A p \in Largest(Cap, {q \in AllPaths : Change(b, t, q) > 0},
                         LAMBDA q : Change(b, t, q)) : <<p, "it">> \in DOMAIN visuals
     /\ \A p \in DOMAIN visuals :
          visuals[p] = "partial" <=> \E q \in Upward(p[1]) :
                                      \/ p \in DOMAIN old /\ Refusal(b, q)
                                      \/ p \in DOMAIN new /\ Refusal(t, q)
DiffMapIsWhole ==
  Len(points) >= 2 =>
    \A selected \in {{}, {ByName[Len(ByName)]}} : WholeWith(Len(points) - 1, Len(points), selected)

\* What the comments of build_diff_frame say of refusals: a directory that was
\* readable in one snapshot and refused in the other is unmeasured either way,
\* and so is what is in it.
RefusedHasNoDirection ==
  Len(points) >= 2 =>
    LET t == Len(points)
        b == t - 1
        chosen == Projected(b, t, {})
        visuals == DeltaVisuals(b, t, ProjectionTree(b, chosen), ProjectionTree(t, chosen))
    IN \A p \in DOMAIN visuals :
         (\E q \in Upward(p[1]) : Refusal(b, q) \/ Refusal(t, q)) => visuals[p] = "partial"

\* A cell of the heatmap says that a path was not there only if there was
\* nothing of it before and after, and that it did not change only if it was
\* there and did not, unless snapshots that cannot be compared came in between
\* or it was refused when it came; and the most changed path of each interval
\* has a row (build_growth_heatmap).
HeatmapIsTrue ==
  \A n \in Intervals :
    /\ \A p \in HeatRows :
         LET old == MeasureOf(n, p)
             new == MeasureOf(n + 1, p)
             cell == HeatCell(n, p)
         IN (\A m \in Intervals : ~Incompatible(m)) =>
              /\ cell \in {"unchanged", "missing"} => Or0(old) = Or0(new)
              /\ cell = "missing" => Or0(old) = 0
              /\ cell = "unchanged" =>
                   {old, new} \cap {Missing} = {} \/ \E m \in Usable : Refusal(m, p)
    /\ \A p \in Largest(1, {q \in AllPaths \ {"/"} : Change(n, n + 1, q) > 0},
                        LAMBDA q : Change(n, n + 1, q)) :
         ~Incompatible(n) => p \in HeatRows

PicturesAreTrue == DiffMapIsWhole /\ HeatmapIsTrue
=============================================================================
