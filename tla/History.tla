------------------------------- MODULE History -------------------------------
(***************************************************************************)
(* Looking back at snapshots: the views of the interactive program, which  *)
(* threads build from the store and keep (services/visualization.py), and  *)
(* the compare command, a process of its own (services/compare.py), while  *)
(* snapshots are saved and deleted.                                        *)
(*                                                                         *)
(* Each call into the store is atomic for the threads of a process, and a  *)
(* change made in the process raises the generation with it; another       *)
(* process may delete between the statements of a read and raises nothing. *)
(* What a picture shows of the rows it read is in Pictures.                *)
(***************************************************************************)
EXTENDS Integers, Sequences, FiniteSetsExt, SequencesExt

CONSTANTS
  Viewers,      \* threads of the interactive program
  MaxSaved,     \* bounds: snapshots ever saved, deletions, looks, comparisons
  MaxDeleted,
  MaxLooksBack,
  MaxCompared,
  SeriesKept,   \* how many series are kept, and of how many snapshots in all
  SeriesBudget

VARIABLES
  kinds,      \* what each snapshot is: it fits the others, or why it does not
  taken,      \* when each was taken; the clock may have been set back
  kept,       \* the snapshots there are
  generation, \* how often this process has changed them
  series,     \* the series that are kept, the oldest first
  counted,    \* how many snapshots they are thought to have
  viewer,     \* where each thread is
  shown,      \* what was shown last, by any of them
  compared,   \* what the compare command is about, or has said
  upset       \* history: reads another process disturbed, reads made twice over

historyVars == <<kinds, taken, kept, generation, series, counted, viewer, shown, compared, upset>>

Ids == 1 .. MaxSaved
Kinds_ == {"plain", "policy", "legacy", "elsewhere"}
AtRest == [at |-> "idle", key |-> <<>>, got |-> {}, pair |-> <<>>]
NoView == [pair |-> <<>>, of |-> {}, broken |-> FALSE]
NotCompared == [at |-> "none", pair |-> <<>>, raw |-> FALSE, trusted |-> FALSE,
                whole |-> TRUE, asked |-> "-"]

HistoryTypeOK ==
  /\ kept \subseteq Ids /\ generation \in Nat /\ counted \in Int
  /\ shown.of \subseteq Ids
  /\ compared.at \in {"none", "chosen", "told", "blocked"}

HistoryInit ==
  /\ kinds \in [Ids -> Kinds_] /\ kinds[1] = "plain"
  /\ taken \in {[i \in Ids |-> i], [i \in Ids |-> IF i = MaxSaved THEN 1 ELSE i + 1]}
  /\ kept = {1, 2} /\ generation = 0
  /\ series = <<>> /\ counted = 0
  /\ viewer = [t \in Viewers |-> AtRest] /\ shown = NoView
  /\ compared = NotCompared
  /\ upset \in [torn : {{}}, twice : {FALSE}, deleted : 0 .. MaxDeleted, looks : 0 .. MaxLooksBack,
               compared : 0 .. MaxCompared]

-----------------------------------------------------------------------------
(* The store. *)

\* ORDER BY timestamp DESC, id DESC
NewerFirst(ids) ==
  SetToSortSeq(ids, LAMBDA i, j : taken[i] > taken[j] \/ (taken[i] = taken[j] /\ i > j))
ListSnapshots(elsewhere) ==
  NewerFirst({i \in kept : elsewhere \/ kinds[i] # "elsewhere"})

SaveSnapshot ==
  /\ \E i \in Ids : i \notin kept /\ (\A j \in Ids : j < i => j \in kept \/ upset.deleted > 0)
                    /\ i > Max(kept \cup {2}) /\ kept' = kept \cup {i}
  /\ generation' = generation + 1
  /\ UNCHANGED <<kinds, taken, series, counted, viewer, shown, compared, upset>>

DeleteHere ==
  /\ upset.deleted < MaxDeleted /\ upset' = [upset EXCEPT !.deleted = @ + 1]
  /\ \E i \in kept : kept' = kept \ {i}
  /\ generation' = generation + 1
  /\ UNCHANGED <<kinds, taken, series, counted, viewer, shown, compared>>

\* a command that prunes; what is being read is read half before and half after
DeleteElsewhere ==
  /\ upset.deleted < MaxDeleted
  /\ upset' = [upset EXCEPT !.deleted = @ + 1,
                            !.torn = @ \cup {t \in Viewers : viewer[t].at = "loading"}]
  /\ \E i \in kept : kept' = kept \ {i}
  /\ compared' = [compared EXCEPT !.whole = compared.at \in {"told", "blocked"} /\ compared.whole]
  /\ UNCHANGED <<kinds, taken, generation, series, counted, viewer, shown>>

-----------------------------------------------------------------------------
(* Which snapshots can be compared.  Warnings (partial scans, errors, other *)
(* versions) do not stop it.                                                *)

CompareRootIdentity(b, t) == (kinds[b] = "elsewhere") = (kinds[t] = "elsewhere")
ComparePolicy(b, t) == (kinds[b] = "policy") = (kinds[t] = "policy")
AssessCompatibility(b, t) ==
  /\ b # t
  /\ CompareRootIdentity(b, t)
  /\ "legacy" \notin {kinds[b], kinds[t]}
  /\ ComparePolicy(b, t)

-----------------------------------------------------------------------------
(* A view of a monitor: the pair, then the series of its heatmap. *)

InOrder(b, t) == IF taken[b] > taken[t] THEN <<t, b>> ELSE <<b, t>>
\* the two that were asked for, or the last two that fit
SelectPair(ids, asked) ==
  LET fitting == {i \in ids : kinds[i] = "plain"}
      last == NewerFirst(fitting)
  IN IF asked # {} THEN InOrder(Min(asked), Max(asked))
     ELSE IF Len(last) < 2 THEN <<>> ELSE <<last[2], last[1]>>

\* the history is read first: which snapshots there are
LooksBack(t) ==
  /\ viewer[t].at = "idle" /\ upset.looks < MaxLooksBack
  /\ upset' = [upset EXCEPT !.looks = @ + 1, !.torn = @ \ {t}]
  /\ LET ids == {i \in kept : kinds[i] # "elsewhere"} IN
     \E asked \in {{}} \cup {{i, j} : i, j \in ids} :
       /\ Cardinality(asked) # 1
       /\ viewer' = [viewer EXCEPT ![t] =
            [at |-> "pair", key |-> <<>>, got |-> ids, pair |-> SelectPair(ids, asked)]]
  /\ UNCHANGED <<kinds, taken, kept, generation, series, counted, shown, compared>>

\* a pair that has gone or cannot be compared is an error in the view
DiffOf(t) ==
  /\ viewer[t].at = "pair"
  /\ LET pair == viewer[t].pair
         drawn == pair # <<>> /\ Range(pair) \subseteq kept /\ AssessCompatibility(pair[1], pair[2])
     IN viewer' = [viewer EXCEPT ![t].at = "series",
                                 ![t].pair = IF drawn THEN pair ELSE <<>>]
  /\ UNCHANGED <<kinds, taken, kept, generation, series, counted, shown, compared, upset>>

SeriesKey(ids) == <<generation, ids>>
Found(key) == {n \in DOMAIN series : series[n].key = key}

CachedSeries(t) ==
  /\ viewer[t].at = "series"
  /\ LET key == SeriesKey(viewer[t].got)
         hit == Found(key) # {}
     IN /\ viewer' = [viewer EXCEPT ![t].at = IF hit THEN "show" ELSE "loading", ![t].key = key,
                                    ![t].got = IF hit THEN series[Max(Found(key))].of ELSE @]
        /\ series' = IF hit THEN Append(RemoveAt(series, Max(Found(key))), series[Max(Found(key))])
                     ELSE series
        /\ upset' = [upset EXCEPT !.twice =
             @ \/ (~hit /\ \E u \in Viewers \ {t} : viewer[u].at \in {"loading", "keep"}
                                                     /\ viewer[u].key = key)]
  /\ UNCHANGED <<kinds, taken, kept, generation, counted, shown, compared>>

LoadSeries(t) ==
  /\ viewer[t].at = "loading"
  /\ viewer' = [viewer EXCEPT ![t] = [@ EXCEPT !.at = "keep", !.got = @ \cap kept]]
  /\ UNCHANGED <<kinds, taken, kept, generation, series, counted, shown, compared, upset>>

PointsOf(some) == MapThenSumSet(LAMBDA n : Cardinality(some[n].key[2]), DOMAIN some)
\* how many of the oldest go; with a count that is too high, more than there are
Evictions(some, count) ==
  {n \in 0 .. Len(some) : /\ Len(some) - n <= SeriesKept
                          /\ count - PointsOf(SubSeq(some, 1, n)) <= SeriesBudget}

KeepSeriesUnder(t, key) ==
  /\ viewer[t].at = "keep"
  /\ LET entry == [key |-> key, of |-> viewer[t].got, torn |-> t \in upset.torn]
         size == Cardinality(viewer[t].key[2])
         others == SelectSeq(series, LAMBDA e : e.key # key)
         grown == Append(others, entry)
         gone == Evictions(grown, counted + size)
     IN IF size > SeriesBudget
        THEN viewer' = [viewer EXCEPT ![t].at = "show"] /\ UNCHANGED <<series, counted, shown>>
        ELSE IF gone # {}
        THEN /\ viewer' = [viewer EXCEPT ![t].at = "show"]
             /\ series' = SubSeq(grown, Min(gone) + 1, Len(grown))
             /\ counted' = counted + size - PointsOf(SubSeq(grown, 1, Min(gone)))
             /\ UNCHANGED shown
        ELSE \* KeyError of an empty cache
             /\ viewer' = [viewer EXCEPT ![t] = AtRest]
             /\ series' = <<>> /\ counted' = counted + size - PointsOf(grown)
             /\ shown' = [NoView EXCEPT !.broken = TRUE]
  /\ UNCHANGED <<kinds, taken, kept, generation, compared, upset>>
\* mutant: under the generation it has when it has been read
KeepSeriesLate(t) == KeepSeriesUnder(t, <<generation, viewer[t].key[2]>>)
KeepSeries(t) == KeepSeriesUnder(t, viewer[t].key)

Shows(t) ==
  /\ viewer[t].at = "show"
  /\ shown' = [pair |-> viewer[t].pair, of |-> viewer[t].got, broken |-> FALSE]
  /\ viewer' = [viewer EXCEPT ![t] = AtRest]
  /\ UNCHANGED <<kinds, taken, kept, generation, series, counted, compared, upset>>

-----------------------------------------------------------------------------
(* disktide compare TARGET BASELINE [PATH] *)

ResolveSelector(selector, list) ==
  CASE selector = "latest"   -> IF list = <<>> THEN {} ELSE {list[1]}
    [] selector = "previous" -> IF Len(list) < 2 THEN {} ELSE {list[2]}
    [] selector = "oldest"   -> IF list = <<>> THEN {} ELSE {list[Len(list)]}
    [] OTHER                 -> {selector} \cap kept

Chosen_(b, t, raw, asked) ==
  compared' = [at |-> IF AssessCompatibility(b, t) \/ raw THEN "chosen" ELSE "blocked",
               pair |-> <<b, t>>, raw |-> raw, trusted |-> AssessCompatibility(b, t),
               whole |-> TRUE, asked |-> asked]

StartsCompare == compared.at # "chosen" /\ upset.compared < MaxCompared
                 /\ upset' = [upset EXCEPT !.compared = @ + 1]

CompareSelectors ==
  /\ StartsCompare
  /\ \E elsewhere, raw \in BOOLEAN, one, other \in {"latest", "previous", "oldest"} :
       LET list == ListSnapshots(elsewhere) IN
       \E t \in ResolveSelector(one, list), b \in ResolveSelector(other, list) :
         Chosen_(b, t, raw, IF <<one, other>> = <<"latest", "previous">> THEN "latest" ELSE "-")
  /\ UNCHANGED <<kinds, taken, kept, generation, series, counted, viewer, shown>>

CompareIds ==
  /\ StartsCompare
  /\ \E raw \in BOOLEAN, t, b \in kept : Chosen_(b, t, raw, "-")
  /\ UNCHANGED <<kinds, taken, kept, generation, series, counted, viewer, shown>>

\* the newest that is old enough
CompareSince ==
  /\ StartsCompare
  /\ \E raw \in BOOLEAN, since \in 1 .. MaxSaved :
       LET list == ListSnapshots(FALSE)
           old == {n \in 2 .. Len(list) : taken[list[n]] <= taken[list[1]] - since}
       IN list # <<>> /\ old # {} /\ Chosen_(list[Min(old)], list[1], raw, "since")
  /\ UNCHANGED <<kinds, taken, kept, generation, series, counted, viewer, shown>>

\* two reads; of a snapshot that has gone, nothing is read
CompareReads ==
  /\ compared.at = "chosen"
  /\ compared' = [compared EXCEPT !.at = "told",
                                  !.whole = @ /\ Range(compared.pair) \subseteq kept]
  /\ UNCHANGED <<kinds, taken, kept, generation, series, counted, viewer, shown, upset>>

HistoryNext ==
  \/ SaveSnapshot \/ DeleteHere \/ DeleteElsewhere
  \/ (\E t \in Viewers : LooksBack(t) \/ DiffOf(t) \/ CachedSeries(t) \/ LoadSeries(t)
                         \/ KeepSeries(t) \/ Shows(t))
  \/ CompareSelectors \/ CompareIds \/ CompareSince \/ CompareReads

-----------------------------------------------------------------------------
\* A series that would be used now is what would be read now, unless another
\* process deleted while it was read or since; and what the cache thinks it
\* holds is what it holds, so that it can always make room, unless two threads
\* read the same series at once (_load_measurement_series).
CacheIsTrue ==
  /\ \A n \in DOMAIN series :
       LET e == series[n] IN
       e.key[1] = generation /\ ~e.torn => (e.key[2] \cap kept) \subseteq e.of
  /\ ~upset.twice => counted = PointsOf(series) /\ ~shown.broken
  /\ counted >= PointsOf(series)
  /\ Len(series) <= SeriesKept /\ PointsOf(series) <= SeriesBudget

\* A picture or a report is never made of two snapshots that cannot be
\* compared, but for --raw; a picture goes forward in time; latest and
\* previous and --since go back in it; and a report is of whole snapshots
\* unless another process deleted one meanwhile (assess_compatibility).
NeverAcrossPolicies ==
  /\ shown.pair # <<>> =>
       /\ AssessCompatibility(shown.pair[1], shown.pair[2])
       /\ taken[shown.pair[1]] <= taken[shown.pair[2]]
  /\ compared.at = "told" =>
       /\ compared.trusted \/ compared.raw
       /\ compared.asked # "-" => taken[compared.pair[1]] <= taken[compared.pair[2]]
       /\ compared.asked = "since" => taken[compared.pair[1]] < taken[compared.pair[2]]
       /\ compared.whole \/ upset.deleted > 0

ViewsAreHonest == CacheIsTrue /\ NeverAcrossPolicies
=============================================================================
