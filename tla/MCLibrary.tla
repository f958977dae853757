------------------------------ MODULE MCLibrary ------------------------------
(* What an application's JavaScript calls: the library in src/lib, and     *)
(* app.requestSingleInstanceLock.  The parts share no state, so one of     *)
(* them, the focus, takes steps in a behaviour.  (AsarFs, on which all the *)
(* others' files are read, has a run of its own.)                          *)
EXTENDS Menus, MenuSort, Bridge, Fetch, Dialogs, ContextBridge, Startup, ProcessSingleton

VARIABLE focus

libraryVars == <<focus, menuVars, template, bridgeVars, fetchVars, dialogVars,
                 contextVars, startupVars, singletonVars>>

Parts ==
  {"menus", "sort", "bridge", "fetch", "dialogs", "context", "startup", "singleton"}
OthersRest(part) ==
  /\ part # "menus" => UNCHANGED menuVars
  /\ part # "sort" => UNCHANGED template
  /\ part # "bridge" => UNCHANGED bridgeVars
  /\ part # "fetch" => UNCHANGED fetchVars
  /\ part # "dialogs" => UNCHANGED dialogVars
  /\ part # "context" => UNCHANGED contextVars
  /\ part # "startup" => UNCHANGED startupVars
  /\ part # "singleton" => UNCHANGED singletonVars

LibraryInit ==
  /\ focus \in Parts
  /\ MenusInit /\ SortInit /\ BridgeInit /\ FetchInit /\ DialogsInit /\ ContextInit
  /\ StartupInit /\ SingletonInit
  /\ focus # "startup" => /\ place = [k \in 1..SearchPaths |-> "none"]
                          /\ onlyAsar /\ ~handles /\ main = [esm |-> FALSE, does |-> "returns"]
  /\ focus # "singleton" => /\ {lockLink, socketLink, cookieLink} = {NoProcess}
                            /\ isChrome = CHOOSE c \in ChromeNames : TRUE

(* The part in focus takes a step, which is one of action.                 *)
In(part, action) == focus = part /\ UNCHANGED focus /\ OthersRest(part) /\ action

LibraryNext ==
  \/ In("menus", MenusNext) \/ In("sort", SortNext) \/ In("bridge", BridgeNext)
  \/ In("fetch", FetchNext) \/ In("dialogs", DialogsNext) \/ In("context", ContextNext)
  \/ In("startup", StartupNext) \/ In("singleton", SingletonNext)

(* The fairness of the parts: see FetchSpec, DialogsSpec, ContextSpec and  *)
(* StartupSpec.                                                            *)
LibrarySpec ==
  /\ LibraryInit /\ [][LibraryNext]_libraryVars
  /\ WF_libraryVars(In("fetch", FetchStep))
  /\ \A b \in 1..MaxBoxes :
       WF_libraryVars(In("dialogs", b \in DOMAIN boxes /\ (TaskDialogCreated(b) \/ Closes(b) \/ Done(b))))
  /\ WF_libraryVars(In("context", RunPreload)) /\ WF_libraryVars(In("context", Imported))
  /\ WF_libraryVars(In("startup", StartupNext))

(* The liveness properties, of the behaviours in which their part steps.   *)
ScriptsAllRun == focus = "context" => AllPreloadsRun
ProcessStarts == focus = "startup" => StartupEnds
(* Whatever the library begins comes to its end.                           *)
WhatBeginsEnds == EveryFetchEnds /\ AbortedBoxEnds /\ ScriptsAllRun /\ ProcessStarts

-----------------------------------------------------------------------------
Option(t, c, r, e, k) == [type |-> t, checked |-> c, role |-> r, enabled |-> e, children |-> k]
MCMenuOptions ==
  {Option("radio", FALSE, "none", TRUE, FALSE), Option("separator", FALSE, "none", TRUE, FALSE),
   Option("normal", FALSE, "close", FALSE, TRUE)}

(* Items that ask for one place, for all of the ids; others that ask for   *)
(* what can contradict it or complete it, or for two places; one without   *)
(* an id, of which there may be several.                                   *)
MCMenuIds == {"a", "b", "c"}
Asks == [before |-> "none", after |-> "none", beforeGroup |-> "none", afterGroup |-> "none"]
Item(i, s, w) == [id |-> i, sep |-> s, visible |-> TRUE] @@ w
MCTemplateItems ==
  LET ask(field, x) == [Asks EXCEPT ![field] = x] IN
  {Item("a", FALSE, w) : w \in {Asks, ask("before", "b"), ask("before", "c"), ask("after", "b"),
                                 ask("beforeGroup", "c"), ask("afterGroup", "c")}} \cup
  {Item("b", FALSE, w) : w \in {Asks, ask("before", "c"), ask("after", "c")}} \cup
  {Item("c", FALSE, Asks), Item("c", FALSE, ask("afterGroup", "a")), Item("c", TRUE, ask("after", "a")),
   Item("b", FALSE, [ask("before", "c") EXCEPT !.after = "a"]),
   Item("c", FALSE, [ask("beforeGroup", "b") EXCEPT !.afterGroup = "a"]),
   Item("none", FALSE, ask("after", "a")), Item("none", TRUE, Asks)}

BoxOption(b, d, c, n, w) ==
  [buttons |-> b, defaultId |-> d, cancelId |-> c, noLink |-> n, wrong |-> w]
MCBoxOptions ==
  {BoxOption(<<"ok", "cancel">>, 0, 0, FALSE, FALSE),
   BoxOption(<<"other", "no">>, -1, -1, TRUE, FALSE), BoxOption(<<>>, 0, -1, FALSE, TRUE)}

Exposed(k, x) == [kind |-> k, of |-> x]
MCShapes ==
  {<<>>, [a |-> Exposed("plain", "p")], [b |-> Exposed("function", "q")],
   [a |-> Exposed("promise", "p"), b |-> Exposed("object", "inner")]}
Script(e, t, o, s) == [esm |-> e, throws |-> t, object |-> o, shape |-> s]
MCPreloads ==
  <<Script(TRUE, TRUE, "api", [a |-> Exposed("promise", "p"), b |-> Exposed("object", "inner")]),
    Script(FALSE, TRUE, "inner", [b |-> Exposed("function", "q")]),
    Script(TRUE, FALSE, "api", [a |-> Exposed("plain", "p")])>>
=============================================================================
