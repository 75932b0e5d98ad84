------------------------------- MODULE Routing -------------------------------
(***************************************************************************)
(* Lanes, the capabilities of a group, and the plans frozen from them.     *)
(*                                                                         *)
(* An administrator defines lanes (an operation of a provider) and gives a *)
(* group a choice of them, with defaults and presets.  A client reads the  *)
(* capabilities of its group and asks for a lane, several lanes, a preset  *)
(* or the default; buildPlan freezes what was asked for, with the          *)
(* configurations of that moment.  Both readings decide on their own what  *)
(* is available.  One group; its lanes are composed with ProviderConfigs.  *)
(***************************************************************************)
EXTENDS ProviderConfigs

CONSTANTS
  Lane,       \* ids of lanes
  MaxLanes,   \* the most lanes of a group and of a preset, 64 in the code
  MaxItems    \* LIMITS.maxItems, 64 in the code

ASSUME RoutingAssumption ==
  /\ IsFiniteSet(Lane)
  /\ {MaxLanes, MaxItems} \subseteq Nat \ {0}
  /\ MaxLanes <= MaxItems

VARIABLES
  lanes,      \* the table lanes
  group       \* group_lanes, the defaults and the preset of the group

routingVars == <<providers, configs, plans, uses, lanes, group>>

Operation == {"search", "contents", "research"}

(* SUPPORTED_OPERATIONS: what the deployment lets a provider do.           *)
Operations(kind) ==
  CASE kind = "exa"              -> {"search", "contents"}
    [] kind = "grok-multi-agent" -> {"research"}
    [] kind = "script"           -> {"search"}

KindOf(op)    == IF op = "contents" THEN "fetch" ELSE "search"
ChannelOf(op) == IF op = "research" THEN "typed" ELSE "results"

LaneRow  == [provider : Provider, operation : Operation, status : Status]
GroupRow == [lanes : SUBSET Lane, search : Lane \cup {None},
             fetch : Lane \cup {None}, preset : SUBSET Lane]

RoutingInit ==
  /\ ConfigsInit
  /\ lanes = [l \in Lane |-> Missing]
  /\ group = [lanes |-> {}, search |-> None, fetch |-> None, preset |-> {}]

(* POST and PATCH /lanes.                                                  *)
CreateLane(l, p, op) ==
  /\ LiveProvider(p)
  /\ op \in Operations(providers[p].kind)
  /\ lanes[l] = Missing
  /\ lanes' = [lanes EXCEPT ![l] = [provider |-> p, operation |-> op, status |-> "active"]]
  /\ UNCHANGED <<configVars, group>>

PatchLane(l, status) ==
  /\ lanes[l] # Missing
  /\ lanes' = [lanes EXCEPT ![l].status = status]
  /\ UNCHANGED <<configVars, group>>

(* Fault variant: the lanes of a preset need not return results.           *)
AcceptableChoiceOfAnyChannel(row) ==
  /\ Cardinality(row.lanes) <= MaxLanes /\ Cardinality(row.preset) <= MaxLanes
  /\ \A l \in row.lanes : lanes[l] # Missing /\ LiveProvider(lanes[l].provider)
  /\ row.search # None => row.search \in row.lanes /\ KindOf(lanes[row.search].operation) = "search"
  /\ row.fetch # None => row.fetch \in row.lanes /\ KindOf(lanes[row.fetch].operation) = "fetch"
  /\ \A l \in row.preset : l \in row.lanes /\ KindOf(lanes[l].operation) = "search"

(* What PUT /groups/:id/capabilities and the schema of its body check.  An empty preset stands for   *)
(* none: each has at least one lane.                                       *)
AcceptableChoice(row) ==
  /\ Cardinality(row.lanes) <= MaxLanes /\ Cardinality(row.preset) <= MaxLanes
  /\ \A l \in row.lanes : lanes[l] # Missing /\ LiveProvider(lanes[l].provider)
  /\ row.search # None => row.search \in row.lanes /\ KindOf(lanes[row.search].operation) = "search"
  /\ row.fetch # None => row.fetch \in row.lanes /\ KindOf(lanes[row.fetch].operation) = "fetch"
  /\ \A l \in row.preset : /\ l \in row.lanes
                           /\ KindOf(lanes[l].operation) = "search"
                           /\ ChannelOf(lanes[l].operation) = "results"

ReplaceCapabilities(row) ==
  /\ AcceptableChoice(row)
  /\ group' = row
  /\ UNCHANGED <<configVars, lanes>>
-----------------------------------------------------------------------------
(* groupLanes: the join leaves out lanes whose provider has no current     *)
(* configuration, which is so once it was deleted for long.                *)
GroupLanes ==
  {l \in group.lanes : lanes[l] # Missing /\ providers[lanes[l].provider].current # None}

(* LaneReady: of its conditions the one on the credential can change.      *)
LaneReady(l) ==
  LET p == providers[lanes[l].provider] IN
  configs[p.current].secret # 0 \/ p.kind = "script"

ProviderAvailable(l) ==
  LET p == lanes[l].provider IN
  providers[p].status = "active" /\ LiveProvider(p) /\ LaneReady(l)

Available(l) == lanes[l].status = "active" /\ ProviderAvailable(l)

SearchLanes == {l \in GroupLanes : KindOf(lanes[l].operation) = "search"}
FetchLanes  == GroupLanes \ SearchLanes

(* capabilities, as the selections it calls ready or offers as a default.  *)
Selection == [kind : {"search", "fetch"}, source : {"lane", "lanes", "preset", "default"},
              lanes : SUBSET Lane]

Capabilities ==
  [lanes   |-> {l \in SearchLanes : Available(l)},
   fetch   |-> {l \in FetchLanes : Available(l)},
   default |-> IF group.search \in SearchLanes THEN {group.search} ELSE {},
   chain   |-> IF group.fetch \in FetchLanes THEN {group.fetch} ELSE {},
   preset  |-> IF group.preset # {} /\ group.preset \subseteq SearchLanes
                    /\ \A l \in group.preset : Available(l)
               THEN group.preset ELSE {}]

(* The lanes a request names, or those its preset or default stands for;   *)
(* none if there is no such preset or default.                             *)
Selected(kind, source, named) ==
  CASE source = "preset"  -> IF kind = "search" THEN group.preset ELSE {}
    [] source = "default" -> (IF kind = "search" THEN {group.search} ELSE {group.fetch}) \ {None}
    [] OTHER              -> named

(* Whether buildPlan accepts a selection for a number of queries.          *)
PlanAccepted(kind, source, selected, queries) ==
  /\ selected # {}
  /\ \A l \in selected : l \in GroupLanes /\ KindOf(lanes[l].operation) = kind
  /\ \A l \in selected : Available(l)
  /\ kind = "search" /\ (\E l \in selected : ChannelOf(lanes[l].operation) = "typed") =>
       Cardinality(selected) = 1 /\ source \in {"lane", "default"}
  /\ queries * Cardinality(selected) <= MaxItems

PlanConfigs(selected) == {providers[lanes[l].provider].current : l \in selected}

(* The admission of a request: the plan and its references are written in  *)
(* one transaction (JobStore's Admit; quota and limits are there).         *)
AdmitPlan(j, kind, source, named, queries) ==
  LET selected == Selected(kind, source, named) IN
  /\ kind = "fetch" => queries = 1 /\ source \in {"lane", "default"}
  /\ CASE source = "lane"  -> Cardinality(named) = 1
       [] source = "lanes" -> named # {}
       [] OTHER            -> named = {}
  /\ PlanAccepted(kind, source, selected, queries)
  /\ AdmitWith(j, PlanConfigs(selected))
  /\ UNCHANGED <<lanes, group>>

RoutingNext ==
  \/ ConfigsNext /\ UNCHANGED <<lanes, group>>
  \/ \E l \in Lane, p \in Provider, op \in Operation : CreateLane(l, p, op)
  \/ \E l \in Lane, status \in Status : PatchLane(l, status)
  \/ \E row \in GroupRow : ReplaceCapabilities(row)
  \/ \E j \in Job, kind \in {"search", "fetch"}, source \in {"lane", "lanes", "preset", "default"},
        named \in SUBSET Lane, queries \in 1..MaxItems :
       AdmitPlan(j, kind, source, named, queries)

RoutingSpec == RoutingInit /\ [][RoutingNext]_routingVars
-----------------------------------------------------------------------------
(* What the capabilities call ready is accepted when it is asked for, one  *)
(* query at a time: a lane or a pipeline by its name, a preset, and a      *)
(* default that is one of the lanes shown as ready.  The two sides decide  *)
(* apart (capabilities.ts:14-28, plans.ts:34-60), after any history of     *)
(* lanes and groups edited, providers disabled, deleted and collected.     *)
WhatIsReadyIsAccepted ==
  /\ \A l \in Capabilities.lanes : PlanAccepted("search", "lane", {l}, 1)
  /\ \A l \in Capabilities.fetch : PlanAccepted("fetch", "lane", {l}, 1)
  /\ Capabilities.default \subseteq Capabilities.lanes =>
       \A l \in Capabilities.default : PlanAccepted("search", "default", {l}, 1)
  /\ Capabilities.chain \subseteq Capabilities.fetch =>
       \A l \in Capabilities.chain : PlanAccepted("fetch", "default", {l}, 1)
  /\ Capabilities.preset # {} => PlanAccepted("search", "preset", Capabilities.preset, 1)
=============================================================================
