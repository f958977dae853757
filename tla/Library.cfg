\* Menus, the bridge, fetches, dialogs, preloads, the start of the application
\* and its single instance.
SPECIFICATION LibrarySpec
CONSTANTS
  MenuObjects = {m1}
  MenuOptions <- MCMenuOptions
  MaxMenuItems = 3
  MaxMenuRows = 3
  MenuHost = "win32"
  MenuIds <- MCMenuIds
  TemplateItems <- MCTemplateItems
  MaxTemplate = 5
  Channels = {ch}
  MaxCalls = 2
  MaxRegistrations = 2
  QueueSize = 10
  Origins = {"here", "there"}
  Methods = {"HEAD", "POST"}
  MaxBytes = 1
  RedirectLimit = 2
  Signals = {"s", "t"}
  BoxOptions <- MCBoxOptions
  MaxBoxes = 2
  Objects = {"api", "inner"}
  Shapes <- MCShapes
  Preloads <- MCPreloads
  Promises = {"p", "q"}
  MaxExposures = 3
  SearchPaths = 3
  Process = {p0, p1, p2}
  Crashed = p0
  NoProcess = none
  MaxRetries = 1
  ChromeNames = {TRUE, FALSE}
CHECK_DEADLOCK FALSE
INVARIANTS MenusAgree SortIsRight CallsAreAnswered FetchIsSound AbortsCancel
  ContextsAgree ReadyAfterCode SomeoneLeads
PROPERTIES WhatBeginsEnds
