------------------------------- MODULE OkrRead -------------------------------
(***************************************************************************)
(* What a live read of the user's OKRs covers: the topology of cycles,     *)
(* objectives and key results that is read once for both OKR tools, the    *)
(* targets whose progress is then read, and what the progress summary says *)
(* it left out.  All limits are parameters; an item without a usable id    *)
(* has id "".                                                              *)
(***************************************************************************)
EXTENDS Naturals, SequencesExt, Sublists, SummaryText

CONSTANTS
    CycleExpandLimit,       \* CYCLE_EXPAND_LIMIT, MY_OKR_CYCLE_DETAIL_LIMIT
    SummaryPageSize, ProgressPageSize,
    SummaryKeyResultLimit,  \* SUMMARY_OBJECTIVE_KEY_RESULT_LIMIT
    ProgressKeyResultLimit, \* PROGRESS_OBJECTIVE_KEY_RESULT_LIMIT
    ObjectiveDetailLimit,   \* MY_OKR_OBJECTIVE_DETAIL_LIMIT
    ObjectiveDiscoveryLimit, KeyResultDiscoveryLimit, ProgressTargetLimit,
    ProgressRecordPageSize

(* The code's constants: whoever is discovered has had its key results     *)
(* listed, and a page holds as many cycles as are expanded.                *)
ASSUME OkrLimits ==
    /\ {CycleExpandLimit, SummaryPageSize, ProgressPageSize, SummaryKeyResultLimit,
        ProgressKeyResultLimit, ObjectiveDetailLimit, ObjectiveDiscoveryLimit,
        KeyResultDiscoveryLimit, ProgressTargetLimit, ProgressRecordPageSize} \subseteq Nat
    /\ ProgressKeyResultLimit >= ObjectiveDiscoveryLimit
    /\ SummaryPageSize >= ProgressPageSize /\ ProgressPageSize >= CycleExpandLimit
    /\ SummaryKeyResultLimit >= ObjectiveDetailLimit

(* What Feishu holds.                                                      *)
HeldKeyResult == [id : STRING, records : Nat]
HeldObjective == [id : STRING, hollow : BOOLEAN, krs : Seq(HeldKeyResult), records : Nat]
HeldCycle == [id : STRING, hollow : BOOLEAN, objectives : Seq(HeldObjective)]

(* A mutant: both tools together read as many key results as the summary.  *)
OptionsOfTheSummary(summary, progress) ==
    [page |-> IF summary THEN SummaryPageSize ELSE ProgressPageSize,
     krs |-> IF summary THEN SummaryKeyResultLimit ELSE ProgressKeyResultLimit]

OptionsForRequestedTools(summary, progress) ==
    [page |-> IF summary THEN SummaryPageSize ELSE ProgressPageSize,
     krs |-> IF progress THEN ProgressKeyResultLimit ELSE SummaryKeyResultLimit]

(* An objective's key results are asked for if it is one of the first and  *)
(* has an id; Feishu may answer any list with no data at all (hollow).     *)
ReadObjective(objective, asked, page) ==
    LET listed == asked /\ objective.id # "" /\ ~objective.hollow
    IN  [id |-> objective.id, listed |-> listed,
         krs |-> IF listed THEN Take(objective.krs, page) ELSE <<>>,
         more |-> listed /\ Len(objective.krs) > page,
         records |-> objective.records]

ReadCycle(cycle, expand, options) ==
    LET objectives == Take(cycle.objectives, options.page)
        listed == expand /\ cycle.id # "" /\ ~cycle.hollow
    IN  [id |-> cycle.id, listed |-> listed,
         more |-> listed /\ Len(cycle.objectives) > options.page,
         objectives |-> IF ~listed THEN <<>>
                        ELSE [i \in DOMAIN objectives |->
                                ReadObjective(objectives[i], i <= options.krs, options.page)]]

ReadMyOkrTopology(cycles, options) ==
    LET page == Take(cycles, options.page)
    IN  [cycles |-> [i \in DOMAIN page |-> ReadCycle(page[i], i <= CycleExpandLimit, options)],
         more |-> Len(cycles) > options.page]

(* The cycles looked into: the first, as far as they have ids.             *)
Expanded(cycles) == {i \in DOMAIN cycles : i <= CycleExpandLimit /\ cycles[i].id # ""}

(* The OKR summary: objectives per expanded cycle, and the key results of  *)
(* the first of them.                                                      *)
BuildMyOkrSummaryFromTopology(topology) ==
    LET shown == Kept(topology.cycles, Expanded(topology.cycles))
        KeyResults(c) == FoldLeft(LAMBDA n, o : n + Len(o.krs), 0,
                                  Take(c.objectives, ObjectiveDetailLimit))
    IN  [i \in DOMAIN shown |-> [objectives |-> Len(shown[i].objectives),
                                 krs |-> KeyResults(shown[i])]]

-----------------------------------------------------------------------------
(* Places in a topology, in reading order: <<i, j, 0>> is objective j of   *)
(* cycle i and <<i, j, k>> its key result k.                               *)
ObjectivePlaces(cycles) ==
    UNION {{<<i, j, 0>> : j \in DOMAIN cycles[i].objectives} : i \in Expanded(cycles)}
ObjectiveAt(cycles, p) == cycles[p[1]].objectives[p[2]]
KeyResultPlaces(cycles, objectives) ==
    UNION {{<<p[1], p[2], k>> : k \in DOMAIN ObjectiveAt(cycles, p).krs} : p \in objectives}

Before(p, q) ==
    \/ p[1] < q[1]
    \/ p[1] = q[1] /\ p[2] < q[2]
    \/ p[1] = q[1] /\ p[2] = q[2] /\ p[3] < q[3]
FirstPlaces(places, n) == {p \in places : Cardinality({q \in places : Before(q, p)}) < n}

(* A progress target <<"o" or "kr", id>>, with the number of its records.  *)
TargetAt(cycles, p) ==
    LET o == ObjectiveAt(cycles, p)
    IN  IF p[3] = 0 THEN [key |-> <<"o", o.id>>, records |-> o.records]
        ELSE [key |-> <<"kr", o.krs[p[3]].id>>, records |-> o.krs[p[3]].records]

Identified(cycles, places) == {p \in places : TargetAt(cycles, p).key[2] # ""}
DistinctTargets(cycles, places) ==
    {p \in places : \A q \in places :
        TargetAt(cycles, q).key = TargetAt(cycles, p).key => ~Before(q, p)}

(* Objectives and key results are discovered in reading order, each kind up *)
(* to its limit, an objective without id taking its key results with it;   *)
(* the first distinct targets are read.                                    *)
DiscoverProgressTargets(topology) ==
    LET cycles == topology.cycles
        objectives == ObjectivePlaces(cycles)
        found == FirstPlaces(objectives, ObjectiveDiscoveryLimit)
        named == Identified(cycles, found)
        krs == KeyResultPlaces(cycles, named)
        within == FirstPlaces(krs, KeyResultDiscoveryLimit)
        distinct == DistinctTargets(cycles, named \cup Identified(cycles, within))
        targets == FirstPlaces(distinct, ProgressTargetLimit)
        Note(when, text) == IF when THEN {text} ELSE {}
    IN  [targets |-> {TargetAt(cycles, p) : p \in targets},
         skipped |->
            Note(found # objectives, "objectives")
            \cup Note(within # krs, "key_results")
            \cup Note(targets # distinct, "targets")
            \cup Note(\/ \E i \in DOMAIN cycles : i <= CycleExpandLimit /\ cycles[i].id = ""
                      \/ named # found
                      \/ Identified(cycles, within) # within, "missing_ids")
            \cup Note(\/ \E i \in Expanded(cycles) : cycles[i].more
                      \/ \E p \in named : ObjectiveAt(cycles, p).more, "list_pages")]

(* Everything that makes the progress summary note that it was skipped.    *)
SkipSuffix(topology) ==
    LET found == DiscoverProgressTargets(topology)
        Note(when, text) == IF when THEN {text} ELSE {}
    IN  found.skipped
        \cup Note(Len(topology.cycles) > CycleExpandLimit, "cycles")
        \cup Note(topology.more, "list_pages")
        \cup Note(\E t \in found.targets : t.records > ProgressRecordPageSize, "progress_pages")

(* The progress summary: the targets read and what its text says; the note *)
(* of what was skipped stands before the examples.                         *)
ReadMyOkrProgressSummaryFromTopology(topology, words) ==
    LET targets == DiscoverProgressTargets(topology).targets
        read == <<Part("read", words.counts)>>
        note == IF SkipSuffix(topology) = {} THEN <<>> ELSE <<Part("skipped", words.note)>>
        text == CASE topology.cycles = <<>> -> NothingFound
                  [] topology.cycles # <<>> /\ targets = {} -> FinalizeSummary(read \o note)
                  [] OTHER -> FinalizeSummary(read \o note \o <<Part("examples", words.examples)>>)
    IN  [read |-> {t.key : t \in targets}, said |-> text.said, cut |-> text.cut]

(* Every target that Feishu holds and answers for.                         *)
TargetsHeld(cycles) ==
    UNION {UNION {{<<"o", o.id>>} \cup
                  (IF o.hollow THEN {} ELSE {<<"kr", k.id>> : k \in ToSet(o.krs)})
                  : o \in ToSet(c.objectives)}
           : c \in {d \in ToSet(cycles) : ~d.hollow}}

=============================================================================
