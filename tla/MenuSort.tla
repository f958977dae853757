------------------------------- MODULE MenuSort -------------------------------
(***************************************************************************)
(* How Menu.buildFromTemplate orders a template: menu-utils.ts splits it   *)
(* at the separators into groups, merges groups whose items refer to each  *)
(* other, sorts the items of each group and the groups by what they say    *)
(* about each other, and joins them again; menu.ts drops the separators    *)
(* that are too many.                                                      *)
(***************************************************************************)
EXTENDS Naturals, Sequences, SequencesExt

CONSTANTS
  MenuIds,
  TemplateItems,  \* what a template is made of: see IsTemplateItem
  MaxTemplate     \* bound: the length of a template

(* An item has an id, may be a separator or invisible, and may want to be  *)
(* before or after one id, itself or with its group.  (A list names one id *)
(* at most here, and no two items have the same one.)                      *)
IsTemplateItem(x) ==
  /\ {x.id, x.before, x.after, x.beforeGroup, x.afterGroup} \subseteq MenuIds \cup {"none"}
  /\ x.sep \in BOOLEAN /\ x.visible \in BOOLEAN

ASSUME SortAssumption ==
  /\ "none" \notin MenuIds /\ MaxTemplate \in Nat
  /\ \A x \in TemplateItems : IsTemplateItem(x)

VARIABLE template

SortInit == template = <<>>
AddToTemplate(x) ==
  /\ Len(template) < MaxTemplate
  /\ x.id # "none" => \A y \in ToSet(template) : y.id # x.id
  /\ template' = Append(template, x)
SortNext == \E x \in TemplateItems : AddToTemplate(x)
SortSpec == SortInit /\ [][SortNext]_template
-----------------------------------------------------------------------------
IsSeparator(x) ==
  x.sep /\ {x.before, x.after, x.beforeGroup, x.afterGroup} = {"none"}
Separator == [id |-> "none", sep |-> TRUE, visible |-> TRUE, before |-> "none",
              after |-> "none", beforeGroup |-> "none", afterGroup |-> "none"]

(* The least of a set of places, 0 if it is empty.                         *)
FirstOf(places) ==
  IF places = {} THEN 0 ELSE CHOOSE k \in places : \A l \in places : k <= l

(* arr.filter: what stands at one of the places.                           *)
Filter(s, places) ==
  LET kept[n \in 0..Len(s)] ==
        IF n = 0 THEN <<>>
        ELSE IF n \in places THEN Append(kept[n - 1], s[n]) ELSE kept[n - 1]
  IN  kept[Len(s)]

(* splitArray: the maximal runs without a separator.                       *)
SplitAt(multi, x) ==
  IF ~IsSeparator(x) THEN [multi EXCEPT ![Len(multi)] = Append(@, x)]
  ELSE IF Last(multi) # <<>> THEN Append(multi, <<>>) ELSE multi
SplitArray(s) ==
  LET multi[n \in 0..Len(s)] == IF n = 0 THEN << <<>> >> ELSE SplitAt(multi[n - 1], s[n])
      result == multi[Len(s)]
  IN  IF Last(result) = <<>> THEN Front(result) ELSE result

(* indexOfGroupContainingID, 0 where there is none.                        *)
GroupWith(groups, id, ignored) ==
  FirstOf({k \in DOMAIN groups \ {ignored} :
             id # "none" /\ \E x \in ToSet(groups[k]) : x.id = id})

FaultyMergeGroups(groups) == groups  \* items that refer to each other stay apart

(* The group that item n of group k asks for.                              *)
MergeTarget(groups, k, n) ==
  LET before == GroupWith(groups, groups[k][n].before, k) IN
  IF before # 0 THEN before ELSE GroupWith(groups, groups[k][n].after, k)

AttemptToMergeAGroup(groups) ==
  LET asking(k) == {n \in DOMAIN groups[k] : MergeTarget(groups, k, n) # 0}
      i == FirstOf({k \in DOMAIN groups : asking(k) # {}})
      target == MergeTarget(groups, i, FirstOf(asking(i)))
  IN  IF i = 0 THEN groups
      ELSE RemoveAt([groups EXCEPT ![target] = @ \o groups[i]], i)

(* As long as it merges one, which leaves one less.                        *)
MergeGroups(groups) ==
  LET merged[n \in 0..Len(groups)] ==
        IF n = 0 THEN groups ELSE AttemptToMergeAGroup(merged[n - 1])
  IN  merged[Len(groups)]

(* sortTopologically: depth first, in the original order; edges[k] are the *)
(* places that come before k.  The agenda holds the calls of visit that    *)
(* are to come, and where each of those in progress puts its place.  A     *)
(* place is visited once: the steps do not exceed the bound.               *)
Visits(ks) == [n \in DOMAIN ks |-> [mark |-> ks[n], push |-> FALSE]]
VisitNext(edges, d) ==
  LET next == Head(d.agenda)
      later == Tail(d.agenda)
  IN  CASE d.agenda = <<>> -> d
        [] d.agenda # <<>> /\ next.push ->
             [d EXCEPT !.agenda = later, !.sorted = Append(@, next.mark)]
        [] d.agenda # <<>> /\ ~next.push /\ next.mark \in d.marked ->
             [d EXCEPT !.agenda = later]
        [] OTHER ->
             [d EXCEPT !.marked = @ \cup {next.mark},
                !.agenda = Visits(edges[next.mark])
                             \o <<[mark |-> next.mark, push |-> TRUE]>> \o later]
SortTopologically(n, edges) ==
  LET bound == n * (2 * n + 1) + n
      visited[i \in 0..bound] ==
        IF i = 0 THEN [agenda |-> Visits([k \in 1..n |-> k]), marked |-> {}, sorted |-> <<>>]
        ELSE VisitNext(edges, visited[i - 1])
  IN  visited[bound].sorted

IndexOf(s, id) == FirstOf({k \in DOMAIN s : id # "none" /\ s[k].id = id})

\* What item i of a group adds to the edges of place k.
ItemEdges(group, k, i) ==
  (IF IndexOf(group, group[i].before) = k THEN <<i>> ELSE <<>>)
    \o (IF i = k /\ IndexOf(group, group[i].after) # 0
        THEN <<IndexOf(group, group[i].after)>> ELSE <<>>)
SortItemsInGroup(group) ==
  LET edges == [k \in DOMAIN group |-> FlattenSeq([i \in DOMAIN group |-> ItemEdges(group, k, i)])]
      order == SortTopologically(Len(group), edges)
  IN  [k \in DOMAIN order |-> group[order[k]]]

(* findEdgesInGroup: the first item of a group that names another group    *)
(* decides; beforeGroupContaining is looked at first.                      *)
EdgeOfItem(groups, i, n) ==
  LET b == GroupWith(groups, groups[i][n].beforeGroup, i)
      a == GroupWith(groups, groups[i][n].afterGroup, i)
  IN  IF b # 0 THEN <<b, i>> ELSE IF a # 0 THEN <<i, a>> ELSE <<0, 0>>
GroupEdge(groups, i) ==
  LET n == FirstOf({m \in DOMAIN groups[i] : EdgeOfItem(groups, i, m) # <<0, 0>>})
  IN  IF n = 0 THEN <<0, 0>> ELSE EdgeOfItem(groups, i, n)

SortGroups(groups) ==
  LET asks(k, i) == IF GroupEdge(groups, i)[1] = k THEN <<GroupEdge(groups, i)[2]>> ELSE <<>>
      edges == [k \in DOMAIN groups |-> FlattenSeq([i \in DOMAIN groups |-> asks(k, i)])]
      order == SortTopologically(Len(groups), edges)
  IN  [k \in DOMAIN order |-> groups[order[k]]]

(* joinArrays: with the template's own separators, as far as they go.      *)
JoinArrays(groups, seps) ==
  LET joint(k) == IF k <= Len(seps) THEN seps[k] ELSE Separator
  IN  FlattenSeq([k \in DOMAIN groups |->
                    IF k = 1 THEN groups[k] ELSE <<joint(k - 1)>> \o groups[k]])

SortMenuItems(s) ==
  LET merged == MergeGroups(SplitArray(s))
      sorted == SortGroups([k \in DOMAIN merged |-> SortItemsInGroup(merged[k])])
  IN  JoinArrays(sorted, Filter(s, {k \in DOMAIN s : IsSeparator(s[k])}))

(* A separator after a separator, then those at the start and at the end.  *)
RemoveExtraSeparators(s) ==
  LET stays(t) == {k \in DOMAIN t : ~t[k].visible \/ ~t[k].sep}
      ret == Filter(s, stays(s) \cup {k \in DOMAIN s : k = 1 \/ ~s[k - 1].sep})
  IN  Filter(ret, stays(ret) \cup (DOMAIN ret \ {1, Len(ret)}))
-----------------------------------------------------------------------------
Entries(s) == {k \in DOMAIN s : ~IsSeparator(s[k])}
SameSegment(s, k, l) ==
  \A j \in DOMAIN s : (k < j /\ j < l) \/ (l < j /\ j < k) => ~IsSeparator(s[j])

(* What the items of s ask of the places: pairs, the first one before.     *)
AskedOrder(s) ==
  {p \in Entries(s) \X Entries(s) :
     \/ s[p[2]].id # "none" /\ s[p[1]].before = s[p[2]].id
     \/ s[p[1]].id # "none" /\ s[p[2]].after = s[p[1]].id}

(* The same of the groups: the first item of a segment that names an item  *)
(* of another one decides, by the group it wants to be before, if any.     *)
Named(s, k, id) ==
  {l \in Entries(s) : id # "none" /\ s[l].id = id /\ ~SameSegment(s, k, l)}
AskedByItem(s, k) ==
  IF Named(s, k, s[k].beforeGroup) # {} THEN {k} \X Named(s, k, s[k].beforeGroup)
  ELSE Named(s, k, s[k].afterGroup) \X {k}
AskedGroups(s) ==
  UNION {AskedByItem(s, k) : k \in {n \in Entries(s) :
           \A m \in Entries(s) : m < n /\ SameSegment(s, m, n) => AskedByItem(s, m) = {}}}

(* The places can be had all at once; by whole segments, if whole is TRUE. *)
Possible(s, asked, whole) ==
  \E place \in [Entries(s) -> DOMAIN s] :
    /\ \A p \in asked : place[p[1]] < place[p[2]]
    /\ whole => \A k, l \in Entries(s) : SameSegment(s, k, l) => place[k] = place[l]

(* menu-utils.ts: whatever the items of a template ask for, none of them   *)
(* is lost or doubled; two that stood between the same separators still    *)
(* do, and others only if a chain of requests leads from one to the other: *)
(* no set of items that the requests do not leave is joined to the rest.   *)
SortKeepsItems(s) ==
  \E place \in Bijection(Entries(template), Entries(s)) :
    /\ \A k \in Entries(template) : s[place[k]] = template[k]
    /\ \A k, l \in Entries(template) :
         SameSegment(template, k, l) => SameSegment(s, place[k], place[l])
    /\ \A C \in SUBSET Entries(template) :
         (\A k \in C, l \in Entries(template) \ C :
            ~SameSegment(template, k, l) /\ {<<k, l>>, <<l, k>>} \cap AskedOrder(template) = {}) =>
           \A k \in C, l \in Entries(template) \ C : ~SameSegment(s, place[k], place[l])

(* When all that the items ask for can be met at once, it all is; and what *)
(* they name is between the same separators in any case.                   *)
ItemsObey(s) ==
  LET asked == AskedOrder(s) IN
  /\ \A p \in asked : SameSegment(s, p[1], p[2])
  /\ Possible(s, asked, FALSE) => \A p \in asked : p[1] < p[2]

(* The same of the requests of the groups.                                 *)
GroupsObey(s) ==
  LET asked == AskedGroups(s) IN Possible(s, asked, TRUE) => \A p \in asked : p[1] < p[2]

(* removeExtraSeparators: where every item is visible, no separator of a   *)
(* menu is at its start or end, or beside another.                         *)
NoExtraSeparators(s) ==
  (\A k \in DOMAIN template : template[k].visible) =>
    LET menu == RemoveExtraSeparators(s) IN
    \A k \in DOMAIN menu : menu[k].sep => /\ k \notin {1, Len(menu)}
                                         /\ ~menu[k - 1].sep /\ ~menu[k + 1].sep

(* A sorted template is a permutation that obeys what its items ask for.   *)
SortIsRight ==
  LET s == SortMenuItems(template) IN
  SortKeepsItems(s) /\ ItemsObey(s) /\ GroupsObey(s) /\ NoExtraSeparators(s)
=============================================================================
