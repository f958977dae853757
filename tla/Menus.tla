-------------------------------- MODULE Menus --------------------------------
(***************************************************************************)
(* Menus as menu.ts and menu-item.ts keep them: each menu has its items, a *)
(* map of its commands and a map of its radio groups in JavaScript, and    *)
(* the rows of a native model, which asks the commands what a row shows.   *)
(* Items are made before they are inserted, or by a template one after the *)
(* other.  A call that throws half way leaves what it has done.            *)
(***************************************************************************)
EXTENDS Naturals, Sequences, SequencesExt

CONSTANTS
  MenuObjects,
  MenuOptions,   \* what items are made from: see IsOption
  MaxMenuItems,  \* bound: items made
  MaxMenuRows,   \* bound: rows of a menu, and items of a group
  MenuHost       \* "darwin" or another platform

(* children: the constructor makes further items, for a submenu.           *)
IsOption(o) ==
  /\ o.type \in {"normal", "checkbox", "radio", "separator", "submenu"}
  /\ o.checked \in BOOLEAN /\ o.enabled \in BOOLEAN /\ o.children \in BOOLEAN
  /\ o.role \in {"none", "quit", "close", "copy"}

ASSUME MenuAssumption ==
  /\ \A o \in MenuOptions : IsOption(o)
  /\ MaxMenuItems \in Nat /\ MaxMenuRows \in Nat
  /\ "nowhere" \notin MenuObjects

VARIABLES
  made,       \* the options of the items made, in order
  latest,     \* the item whose functions are the prototype's, 0: a child
  groupId,    \* of each item, 0: undefined
  checked,    \* of each item
  owner,      \* of each item, the menu it was last inserted into: its setter's
  entries,    \* each menu's items
  rows,       \* the command ids of the rows of its native model
  groups,     \* groupsMap: each menu's group ids to their items
  commands,   \* commandsMap
  nextGroup,  \* groupIdIndex
  menuCalls,  \* the calls so far: "template"; "edited", "mixed" or "again": something else
  ran         \* what the last call was, where it matters: shown, or clicked

menuVars == <<made, latest, groupId, checked, owner, entries, rows, groups, commands,
              nextGroup, menuCalls, ran>>
menuTables == <<owner, entries, rows, groups, commands, nextGroup>>

MenuItemIds == DOMAIN made
Type(i) == made[i].type

MenusInit ==
  /\ made = <<>> /\ latest = 0 /\ groupId = <<>> /\ checked = <<>> /\ owner = <<>>
  /\ entries = [m \in MenuObjects |-> <<>>] /\ rows = entries
  /\ groups = [m \in MenuObjects |-> <<>>]
  /\ commands = [m \in MenuObjects |-> {}]
  /\ nextGroup = 0 /\ menuCalls = {"template"} /\ ran = <<"none", 0>>

(* What the properties ask of the calls so far: once an item was inserted  *)
(* again, nothing else.                                                    *)
Remembers(these) ==
  menuCalls' = IF "again" \in menuCalls \cup these THEN {"again"} ELSE menuCalls \cup these
-----------------------------------------------------------------------------
(* new MenuItem: the constructor puts functions that are bound to this     *)
(* item on the prototype, and then builds its submenu, whose items do the  *)
(* same.                                                                   *)
MakeItem(o) ==
  /\ Len(made) < MaxMenuItems
  /\ made' = Append(made, o)
  /\ latest' = IF o.children THEN 0 ELSE Len(made) + 1
  /\ groupId' = Append(groupId, 0)
  /\ checked' = Append(checked, o.checked)
  /\ owner' = Append(owner, "nowhere")
  /\ ran' = <<"none", 0>>
  /\ UNCHANGED <<entries, rows, groups, commands, nextGroup, menuCalls>>

(* generateGroupId: backwards to a radio item or a separator, at the start *)
(* forwards.  There are more rows than items after a removal: then the     *)
(* item before the end does not exist.                                     *)
Nearest(s, from, down) ==
  LET ks == {k \in DOMAIN s : /\ IF down THEN k <= from ELSE k >= from
                             /\ Type(s[k]) \in {"radio", "separator"}}
  IN  IF ks = {} THEN 0
      ELSE s[CHOOSE k \in ks : \A l \in ks : IF down THEN l <= k ELSE k <= l]

GenerateGroupId(s, pos) ==
  LET near == Nearest(s, IF pos > 0 THEN pos ELSE 1, pos > 0)
  IN  IF near # 0 /\ Type(near) = "radio" THEN groupId[near] ELSE nextGroup + 1

InsertThrows(m, pos, i) ==
  Type(i) = "radio" /\ (pos > Len(entries[m]) \/ groupId'[i] = 0)

(* insertItemByType of a radio item.  The group id goes to the item whose  *)
(* function is on the prototype, and only if it has none yet.              *)
TakeGroup(m, pos, i) ==
  IF Type(i) # "radio" \/ pos > Len(entries[m])
  THEN UNCHANGED <<groupId, groups, nextGroup>>
  ELSE LET g == GenerateGroupId(entries[m], pos) IN
       /\ nextGroup' = IF g > nextGroup THEN g ELSE nextGroup
       /\ groupId' = IF latest # 0 /\ groupId[latest] = 0
                     THEN [groupId EXCEPT ![latest] = g] ELSE groupId
       /\ LET mine == groupId'[i]
              old == IF mine \in DOMAIN groups[m] THEN groups[m][mine] ELSE <<>>
          IN  groups' = [groups EXCEPT ![m] =
                           [h \in DOMAIN @ \cup {mine} |->
                              IF h = mine THEN Append(old, i) ELSE @[h]]]

(* The native row of a separator has no command id, here 0.               *)
RowOf(i) == IF Type(i) = "separator" THEN 0 ELSE i

(* insert, and append at the number of native rows, of any item: also of   *)
(* one that is in a menu, or was.                                          *)
Insert(m, pos, i) ==
  /\ Len(rows[m]) < MaxMenuRows /\ \A g \in DOMAIN groups[m] : Len(groups[m][g]) < MaxMenuRows
  /\ pos \in 0..Len(rows[m])
  /\ TakeGroup(m, pos, i)
  /\ owner' = IF Type(i) = "radio" /\ pos > Len(entries[m]) THEN owner
              ELSE [owner EXCEPT ![i] = m]
  /\ IF InsertThrows(m, pos, i) THEN UNCHANGED <<entries, rows, commands>>
     ELSE /\ rows' = [rows EXCEPT ![m] = InsertAt(@, pos + 1, RowOf(i))]
          /\ entries' = [entries EXCEPT ![m] =
               InsertAt(@, (IF pos > Len(@) THEN Len(@) ELSE pos) + 1, i)]
          /\ commands' = [commands EXCEPT ![m] = @ \cup {i}]
  /\ LET removed == Len(entries[m]) # Len(rows[m])
         last == i = latest /\ pos = Len(rows[m]) /\ ~removed /\ ~InsertThrows(m, pos, i)
     IN  Remembers((IF last THEN {} ELSE {"edited"})
                   \cup (IF removed /\ pos < Len(rows[m]) THEN {"mixed"} ELSE {})
                   \cup (IF owner[i] # "nowhere" THEN {"again"} ELSE {}))
  /\ ran' = <<"none", 0>>
  /\ UNCHANGED <<made, latest, checked>>

(* removeItem: the position is checked against the native rows, which      *)
(* stay; what has no command any more is not visible.                      *)
RemoveItem(m, pos) ==
  /\ pos \in 0..(Len(rows[m]) - 1)
  /\ Remembers({"edited"})
  /\ IF pos >= Len(entries[m]) THEN UNCHANGED <<entries, groups, commands>>
     ELSE LET i == entries[m][pos + 1]
              grouped == Type(i) = "radio" /\ groupId[i] \in DOMAIN groups[m]
              left == IF grouped THEN RemoveFirst(groups[m][groupId[i]], i) ELSE <<>>
          IN  /\ entries' = [entries EXCEPT ![m] = RemoveAt(@, pos + 1)]
              /\ commands' = [commands EXCEPT ![m] = @ \ {i}]
              /\ groups' = IF ~grouped THEN groups
                           ELSE [groups EXCEPT ![m] =
                                   [h \in {g \in DOMAIN @ : g # groupId[i] \/ left # <<>>} |->
                                      IF h = groupId[i] THEN left ELSE @[h]]]
  /\ ran' = <<"none", 0>>
  /\ UNCHANGED <<made, latest, groupId, checked, owner, rows, nextGroup>>
-----------------------------------------------------------------------------
FaultyCheckRadio(i) == [checked EXCEPT ![i] = TRUE]  \* the others keep their mark

(* The setter of checked, whatever value is assigned: it was defined when  *)
(* the item was last inserted, and throws if the group is gone.            *)
HasGroup(i) == owner[i] # "nowhere" /\ groupId[i] \in DOMAIN groups[owner[i]]
CheckRadio(i) ==
  [x \in MenuItemIds |->
     IF x \in ToSet(groups[owner[i]][groupId[i]]) \cup {i} THEN x = i ELSE checked[x]]

(* By the application, also for an item that was removed.                  *)
SetChecked(i) ==
  /\ Type(i) = "radio" /\ HasGroup(i)
  /\ checked' = CheckRadio(i) /\ ran' = <<"none", 0>>
  /\ UNCHANGED <<made, latest, groupId, menuTables, menuCalls>>

(* _menuWillShow: a group without a checked item gets its first one.  What *)
(* could not be inserted is in the group "undefined", which is no number.  *)
MenuWillShow(m) ==
  LET without == {g \in DOMAIN groups[m] \ {0} :
                    groups[m][g] # <<>> /\ \A x \in ToSet(groups[m][g]) : ~checked[x]}
  IN  /\ checked' = [x \in MenuItemIds |->
                       checked[x] \/ \E g \in without : x = Head(groups[m][g])]
      /\ ran' = <<"shown", m>>
      /\ UNCHANGED <<made, latest, groupId, menuTables, menuCalls>>

(* menu-item-roles.ts: what a role does, if JavaScript executes it.        *)
RoleMethod == [none |-> "none", quit |-> "app", close |-> "window", copy |-> "none"]
Execute(role, focused) ==
  /\ MenuHost # "darwin"
  /\ RoleMethod[role] = "app" \/ (RoleMethod[role] = "window" /\ focused # "none")

(* _isCommandIdEnabled: a window that can be closed enables its role, one  *)
(* that cannot does not disable it.                                        *)
IsCommandIdEnabled(i, focused) ==
  \/ made[i].role = "close" /\ focused = "closable"
  \/ made[i].enabled

(* The native menu activates a visible, enabled row.                       *)
Click(m, i, focused) ==
  /\ i \in ToSet(rows[m]) \cap commands[m] /\ Type(i) \in {"normal", "checkbox", "radio"}
  /\ IsCommandIdEnabled(i, focused) /\ (Type(i) = "radio" => HasGroup(i))
  /\ checked' = CASE Type(i) = "radio" -> CheckRadio(i)
                  [] Type(i) = "checkbox" -> [checked EXCEPT ![i] = ~@]
                  [] OTHER -> checked
  /\ ran' = <<IF Execute(made[i].role, focused) THEN "role" ELSE "click", i>>
  /\ UNCHANGED <<made, latest, groupId, menuTables, menuCalls>>

MenusNext ==
  \/ \E o \in MenuOptions : MakeItem(o)
  \/ \E i \in MenuItemIds : SetChecked(i)
  \/ \E m \in MenuObjects :
       \/ \E i \in MenuItemIds, pos \in 0..MaxMenuRows : Insert(m, pos, i)
       \/ \E pos \in 0..MaxMenuRows : RemoveItem(m, pos)
       \/ MenuWillShow(m)
       \/ \E i \in MenuItemIds, f \in {"none", "closable", "fixed"} : Click(m, i, f)

MenusSpec == MenusInit /\ [][MenusNext]_menuVars
-----------------------------------------------------------------------------
Radios(m) == {i \in ToSet(entries[m]) : Type(i) = "radio"}

(* menu.ts: whatever was inserted once, removed, clicked and shown, two     *)
(* items of a radio group are only checked if one of them came checked; and *)
(* when a menu is shown each of its groups has a checked item.              *)
OneChecked ==
  "again" \notin menuCalls =>
    \A m \in MenuObjects : \A i \in Radios(m) :
      LET on == {j \in Radios(m) : groupId[j] = groupId[i] /\ checked[j]}
      IN  /\ \A j, k \in on : j = k \/ made[j].checked \/ made[k].checked
          /\ ran = <<"shown", m>> => on # {}

(* A menu that is made by a template: the radio items between two          *)
(* separators are one group, and on the two sides of one they are two.     *)
SegmentsAreGroups ==
  menuCalls = {"template"} =>
    \A m \in MenuObjects : \A k, l \in DOMAIN entries[m] :
      LET a == entries[m][k]  b == entries[m][l] IN
      k < l /\ Type(a) = "radio" /\ Type(b) = "radio" =>
        ((groupId[a] = groupId[b]) <=> \A x \in k..l : Type(entries[m][x]) # "separator")

(* A menu from which nothing was removed has its items' rows, one for one;  *)
(* and what a menu does not have any more is never shown.  As long as no    *)
(* item was inserted a second time, the rows that are shown are the menu's  *)
(* items, each once, besides the separators, whose rows stay; and they are  *)
(* in the items' order, unless something was removed and something else     *)
(* later inserted before the end.                                           *)
RowsAreItems ==
  \A m \in MenuObjects :
    LET shown == ToSet(rows[m]) \cap commands[m] IN
    /\ Len(entries[m]) = Len(rows[m]) => \A k \in DOMAIN rows[m] : rows[m][k] = RowOf(entries[m][k])
    /\ shown \subseteq ToSet(entries[m])
    /\ "again" \notin menuCalls =>
         /\ shown = {i \in ToSet(entries[m]) : Type(i) # "separator"}
         /\ IsInjective(entries[m])
         /\ \A q, r \in DOMAIN rows[m] : q # r /\ rows[m][q] = rows[m][r] => rows[m][q] = 0
         /\ "mixed" \notin menuCalls =>
              \A k, l \in DOMAIN entries[m] : \A q, r \in DOMAIN rows[m] :
                k < l /\ rows[m][q] = entries[m][k] /\ rows[m][r] = entries[m][l] => q < r

(* IsCommandIdEnabled and execute ask the same of the focused window: the  *)
(* click handler of an item that the application disabled never runs.      *)
DisabledIsNotRun ==
  \A i \in MenuItemIds : ran = <<"click", i>> => made[i].enabled

(* The rows, groups and checks of a menu keep together through any edits.  *)
MenusAgree == OneChecked /\ SegmentsAreGroups /\ RowsAreItems /\ DisabledIsNotRun
=============================================================================
