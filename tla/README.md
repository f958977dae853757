# Lynxtron: formal models, model checking and proofs

Lynxtron is an application framework in the manner of Electron: a JavaScript
application runs in Node.js on the UI thread of a native process, opens native
windows, and shows in them views that the Lynx engine renders. It is a C++
shell, a JavaScript library inside it, and npm packages that install and build
it. This directory holds TLA+ models of the parts that are hardest to get right,
the TLC runs that check them on small instances, and proofs that hold for every
value of the parameters.

All paths below are relative to the root of the repository; `shell/`, `lib/` and
`packages/` stand for `src/shell/`, `src/lib/` and `src/packages/`, and the
`.d.ts` files are the API documentation in `src/packages/lynxtron/apis/api/`.

1. [The system](#1-the-system)
2. [The modules](#2-the-modules)
3. [AppLifecycle](#3-applifecycle)
4. [NodeLoop](#4-nodeloop)
5. [NativeFullscreen](#5-nativefullscreen)
6. [AsarFs](#6-asarfs)
7. [The library](#7-the-library)
8. [The packages](#8-the-packages)
9. [The runs](#9-the-runs)
10. [Where code and documentation
   disagree](#10-where-code-and-documentation-disagree)
11. [The proofs](#11-the-proofs)
12. [The plan](#12-the-plan)
13. [Not modelled](#13-not-modelled)

## 1. The system

### Threads and the ways they meet

- The **UI thread** runs a Chromium message loop. Everything the application's
  JavaScript calls, and every event it receives, happens here.
- The **embed thread** of `NodeBindings` polls the backend of Node's libuv loop
  and posts a task to the UI thread when there is something to run.
- The **Lynx threads**, created by the engine, run the JavaScript of the views;
  native modules carry calls and callbacks between them and the UI thread.
- **Dialog threads** show the message boxes of Windows.
- The **IO thread** and the **signal detector thread** serve file descriptors.
- Several **processes** meet in two places: instances of one application in the
  process singleton, and the installers of the npm packages in the directory
  they install into.

Two kinds of interleaving follow. Between threads and processes it is the usual
one. On the UI thread itself it is nesting and turns: C++ code that emits an
event calls the JavaScript listener in the middle of its own work, and the
listener may call the same C++ again, or open a nested message loop; and an
asynchronous function reads state in one turn and uses it in a later one.

### Components

| Component | State it keeps | Operations, and who calls it | What is hard | What makes it correct |
|---|---|---|---|---|
| Application and window lifecycle (`shell/app/application.cc`, `window_list.cc`, `native_window.cc`, `shell/api/api_base_window.cc`) | flags `is_ready_`, `is_quitting_`, `is_exiting_`, `is_shutdown_`; the list of windows; whether each window and its JavaScript object is open, closed, destroyed, freed | `app.quit`, `app.exit`, `new`, `close`, `destroy`, the user, the system | listeners that veto, close, destroy, quit or open windows inside one another; objects freed while a call on them is suspended | `quit` and `closed` once; no quit left half way; nothing freed is used; vetoes are asked |
| Node and Chromium loops (`shell/common/node_bindings*.cc`, `shell/app/main_parts.cc`) | the semaphore, the posted task, the stage of start and teardown, libuv's timers and wake-ups | the embed thread, the posted task, nested message loops, the destructor | two threads on one libuv loop without a lock; wake-ups; re-entry through a dialog; joining a blocked thread | one user at a time, in turns; no wake-up lost; the destructor returns |
| macOS fullscreen (`shell/api/native_window_mac.mm`, `shell/api/ui/mac/`) | the transition state, the queue of requests, the deferred close | `setFullScreen`, `setSimpleFullScreen`, the green button, AppKit's delegate calls | AppKit answers later; listeners run between the end of a transition and the queue | one transition at a time; the last request wins; a deferred close happens |
| asar file system (`lib/node/asar-fs-wrapper.ts`, `shell/common/asar/`) | the archives opened so far, `process.noAsar`, what was copied out | every patched function of `fs`, the module loader and `child_process` | functions that decide and look up in different turns, while `noAsar` is switched and an update replaces the archive | an answer is one a synchronous call could have given; verified bytes only; all views of a path agree |
| Menus (`lib/browser/api/menu*.ts`) | items, radio groups, checks, commands; the native rows | `append`, `insert`, `removeItem`, clicks, templates | groups made from neighbours; places asked for in cycles | one checked item a group; rows are the items; sorting loses nothing and ends |
| Bridge (`lib/browser/lynx-bridge-impl.ts`, `shell/api/lynx_view/module/`) | handlers, events with their callback, the queue of replies | `bridge.call` of the page; `handle`, `handleOnce`, `removeHandler`; windows that go | handlers replaced while calls are pending; replies from a handler, a rejection or the collector | a reply for each call, the handler's first; once handlers run once |
| HTTP client and resource fetcher (`lib/browser/api/lynx-http-client.ts`, `lynx-resource-fetcher.ts`) | a request for each hop, its timer, the size read, one promise | redirects, data, errors, timeout | they race to settle one promise | settled, once, with a whole body; one reply |
| Dialogs (`lib/browser/api/dialog.ts`, `shell/api/ui/message_box_win.cc`) | open boxes by id, listeners of abort signals | `showMessageBox`, abort, the user | a box on a thread of its own is aborted before, while and after it is shown | an abort cancels the boxes of its signal, and they settle |
| Preload and context bridge (`lib/lynxbts/`) | what was exposed, promises in two contexts | the preload scripts, the page's start | order of scripts and page; two queues of microtasks | the page sees the last value; its promises settle |
| Start of the main script (`lib/browser/init.ts`, `JoinAppCode`) | the places searched, the script's load | the process's start | scripts that throw, exit or wait inside their own load | ready after the code; the start ends |
| Process singleton (`shell/common/process_singleton/`) | lock link, cookie, socket | `app.requestSingleInstanceLock` of several processes | processes and crashes between file operations | one of them leads; never two |
| Installers (`packages/lynxtron`, `packages/cef-webview`, `packages/lynxtron-rebuild`) | directories, archives, a lock | npm's postinstall, the commands | kills and failures at every step, two at a time | present means whole |
| AutoLink and builder (`packages/lynxtron-dev-plugins`, `packages/lynxtron-builder`) | manifests, the generated entry, the staged directories; one temporary configuration | the bundler's hooks; one build for each architecture | the same files resolved at three moments by two implementations | what is staged is packaged and loads; each package has its own runtime |
| LynxWindow (`shell/api/api_lynx_window.cc`) | the lazily created view, the cached render state, the FPS monitor | `loadFile`, `show`, `hide`, view events | delayed tasks that outlive the setting that started them; a cached state | render state follows visibility |
| Native windows, termination signals, app module, global threads, relauncher, tray, notifications, system modules, value conversion, scaffolding, toolkit and vendored code | | | | |

`PROJECT.json` lists every component with its sources and status, and under
`hazards` every place found in this code where a mistake would hardly be met by
a test, at its line, with the properties that watch it.

### How the modelled parts interact

The system or JavaScript calls `Application::Quit`; it asks the `before-quit`
listeners, walks the `WindowList`, and calls `NativeWindow::Close` on each
window; this asks the `close` listeners of the `BaseWindow` (through the
observer list), then `NotifyWindowClosed` emits `closed` and takes the window
off the list; the list tells the `Application` that it is empty; it emits
`will-quit`, then `quit`, and runs the closure that ends the message loop. On
macOS `CloseImmediately` consults the fullscreen transition first. All of this
is one nest of synchronous calls (AppLifecycle). The message loop that ends is
the one NodeLoop drives libuv from; its teardown joins the embed thread.

Before that loop, `init.ts` loads the main script (Startup), reading its files
through the patched `fs` (AsarFs), and the application may ask whether it is the
only instance (ProcessSingleton). A page's preload scripts meet the page in
ContextBridge, the page's calls reach the application through Bridge, its
resources through Fetch. RuntimeInstall, CefInstall and NativeRebuild put on
disk what AutoLink and Builder then package.

## 2. The modules

| Module | Models | Code it stands for |
|---|---|---|
| `AppLifecycle` | Application, WindowList, NativeWindow, BaseWindow: quit, exit, close, destroy and their events | `application.cc`, `window_list.cc`, `native_window*.{cc,mm}`, `api_base_window.cc`, `destroyable.cc`, `main_parts.cc`, `main_runner.cc` |
| `ApplicationLife` | abstract specification: what an application may count on in its own life | the promise of `Application`, `NativeWindow` and `BaseWindow` |
| `NodeLoop` | the embed thread, the UI thread's message loops, `uv_run`, start and teardown | `node_bindings.cc` and the `PollEvents` of each platform, `main_parts.cc`, `main_runner.cc` |
| `PollTurns` | abstract specification: the users of the libuv loop take turns | the promise of `UvRunOnce`, `EmbedThreadRunner` and the destructor |
| `NativeFullscreen` | requests, transitions and the deferred close of a window on macOS | `native_window_mac.mm`, `lynx_ns_window_delegate.mm`, `lynx_ns_window.mm` |
| `AsarFs` | the functions the asar wrapper replaces, in three forms each | `asar-fs-wrapper.ts`, `archive.cc`, `asar_util.cc`, `api_asar.cc` |
| `Menus`, `MenuSort` | menus and their native rows; the order of a template | `menu.ts`, `menu-item.ts`, `menu-item-roles.ts`; `menu-utils.ts` |
| `Bridge` | calls of a page, handlers and replies | `lynx-bridge-impl.ts`, `lynx-window.ts`, `lynx_emit_event.cc`, `lynx_native_module.cc` |
| `Fetch` | the HTTP client under the resource fetcher | `lynx-http-client.ts`, `lynx-resource-fetcher.ts` |
| `Dialogs` | message boxes with abort signals, file dialogs | `dialog.ts`, `message_box_win.cc` |
| `ContextBridge` | preload scripts and what they expose | `lynxbts/init.ts`, `preload-runner.ts`, `context-bridge.ts` |
| `Startup` | the search for and load of the main script | `lib/browser/init.ts`, `node_bindings.cc` |
| `ProcessSingleton` | `requestSingleInstanceLock` on macOS and Linux | `process_singleton_posix.cc` |
| `RuntimeInstall` | `ensureRuntime` in several processes | `runtime-manager.js`, `download.js`, `runtime-package.js`, `install.js` |
| `Installed` | abstract specification: a thing that appears as a whole and stays | the promise of the installers |
| `CefInstall`, `NativeRebuild` | the webview's installer; the rebuild of native modules | `cef-webview/scripts/install.js`; `lynxtron-rebuild/lib/index.js` |
| `AutoLink` | resolution, staging, the generated entry, the packager | `autolink.ts`, `autolink-rspack.ts`, `autolink-packaging.js` |
| `Builder` | architectures, runtimes and configurations of a build | `lynxtron-builder/cli.js`, `runtime-config.js` |
| `MCAsarFs`, `MCLibrary`, `MCPackages` | instances for TLC; the last two put the library's and the packages' modules side by side | |
| `..._proofs` | theorems and proofs | |

`map` in `PROJECT.json` names the lines of every definition. Definitions whose
name begins with `Faulty` are not part of any specification: each is the
definition it is named after with one plausible mistake, and shows that a
property tells the two apart. Where a property is a conjunction (`MenusAgree`,
`StagingAgrees` and others), its parts are named and have comments of their own.

Every specification has its bounds as constants. They appear only in guards that
spend them, so the proofs cover any value.

## 3. AppLifecycle

**State.** The flags of `Application`; `windows`, the `WindowList`; per window
`native` (the `NativeWindow`: open, closed, freed), `api` (the `BaseWindow`:
live, *marked* destroyed, *deleting* inside its destructor, freed), `closable`,
`transition`, `deferred_close`; `tasks`, the tasks posted to the UI thread;
`loop`, where the main function is; and `stack`.

**The stack.** A JavaScript listener may call back into the C++ that emits to
it, so the calls in progress are state. `stack` holds the suspended activations,
innermost first: a listener (named by its event), a walk over the windows with
the copy of the list it still has to visit, or a `BaseWindow` destructor. One
step of the model is the C++ between two JavaScript calls. An operator such as
`Close(w, k)` is a C++ call that returns to the activations `k`.

**Correspondence.** `Shutdown`, `NotifyAndShutdown`, `Quit`,
`OnWindowAllClosed`, `NotifyWindowClosed`, `CloseImmediately` and `Close` are
the functions of those names; `JsQuit`, `JsExit`, `JsNew`, `JsClose`,
`JsDestroy` what a listener may call; `ReturnFrom...` what the C++ does when the
listener of an event returns, with `prevented` its call of `preventDefault`;
`IterateWindows` a step of `CloseAllWindows` or `DestroyAllWindows`;
`FinishDestructor` the rest of `~BaseWindow`; `RunTask` the deferred deletions.

**Choices of the model.**

- `WindowList` is only appended to and erased from, so windows are numbered as
  they are created and the list is a set.
- A call through an observer that was freed while registered (a `CHECK` in
  Chromium's observer list), and the use of the delegate's cleared `shell_`, end
  the process: `loop = "aborted"`.
- `DidFinishLaunching` comes before the message loop on Windows and Linux and
  inside it on macOS. `app.exit()` before the loop exists ends the process at
  once (`exited`).
- The three `NativeWindow` implementations differ in `Close`: macOS asks the
  `close` listeners, Windows only looks at `closable`, a windowless window does
  neither. `Platform` chooses.
- Left out: parent and child windows, modal sheets (the branch of
  `NativeWindowMac::Close` for them), events other than `close`, `closed` and
  the fullscreen ones, nested message loops (they are in NodeLoop), and the
  process singleton's cleanup in `OnQuit` (ProcessSingleton has it).

**Properties.**

- `LifeImplements` (refinement): the life the application sees is one that
  `ApplicationLife` allows. Its events happen in an order and as often as they
  may: each window is opened once and stays closed, a quit is vetoed only before
  its end, an exit never, `quit` is told once, with no window open, and the
  process goes on until then.
- `ClosedEmittedOnce`: `closed` comes exactly once, though five paths lead to it.
- `StopsAreDecided` is `QuitIsDecided` and `ExitIsDecided`.
- `QuitIsDecided`: back in the message loop, a quit has shut down or has been
  cancelled. `is_quitting_` left set by a veto would make every later
  `app.quit()` return at once.
- `ExitIsDecided`, `ExitCompletes`: an exit closes every window and shuts down.
- `WillQuitProperly` (action): `will-quit` comes with no window left, not on the
  way of an exit, and before `quit`.
- `CloseAsksFirst` (action): a window closes only after its listeners were
  asked, unless it is destroyed or the application exits.
- `DestroyEmitsClosed`: no `BaseWindow` is deleted without `closed`.
- `NoFreedWindowInUse`: the list and the suspended calls refer to no freed
  window; no `BaseWindow` is deleted under its `closed` listener.
- `NoAbort`: no event reaches an object that is gone.
- `ShutdownEnds` (liveness): once shut down, the message loop ends.

**Refinement.** `ApplicationLife` knows no stack, no list of windows, no
`BaseWindow` and no tasks. `Seen` maps a window to *open* from its creation
until `closed` is emitted, and to *closed* from then on; `Asked` says that the
`before-quit` listener is on the stack; `Stage` is *stopping* while
`is_quitting_` or `is_exiting_` is set, *last call* while the `will-quit`
listener runs, *down* when `is_shutdown_` is set and *gone* when the process has
ended or left its message loop. `Late` is
`LateWindows`, `Crashes` is `Fullscreen`: only a close that was put off by a
transition ends the process before `quit` (section 10).

**Fairness.** The UI thread keeps running: listeners and loops return, launching
and tasks proceed, the loop ends when told to, a transition finishes. Nothing is
assumed of the user, of the system, or of what listeners call.

**Bounds.** Two windows and six or seven API calls or system events. Two windows
are enough for a walk to be disturbed by the close of the other window, and for
the last window to differ from the first; seven calls allow both windows to be
opened, a quit, its veto, a second quit and a nested destroy or exit in one
behaviour, and every faulty version in the module is told apart within them.
Deadlock is not checked, as the process ends.

## 4. NodeLoop

**State.** `phase` (start, running, teardown), `ui` (the stack of the UI thread:
ordinary tasks, the poll and timer parts of a `uv_run`, nested message loops),
`sem` (`embed_sem_`), `embed` and `wait` (the embed thread and the timeout it
polls with), `posted` (`UvRunOnce` tasks in the queue), and of libuv what
decides how long a poll blocks: `timer`, `ready` (the kernel holds an event) and
`interrupted` (the backend holds a wake-up).

**Correspondence.** `UvRunOnce` and `UvRunReturns` are the two ends of
`NodeBindings::UvRunOnce`; `EmbedWaits`, the two `EmbedChecks`,
`ReadBackendTimeout`, `PollReturns` and `WakeupMainThread` are the lines of
`EmbedThreadRunner` and `PollEvents`; `CloseEmbed`, `SignalEmbed`,
`WakeupEmbedThread` and `JoinEmbedThread` those of the destructor, each a step
because the embed thread runs between them; `JsStarts` and `Interrupt` are
`uv_timer_start` and the interrupt that `InitEventLoop` configures
(`UV_LOOP_INTERRUPT_ON_IO_CHANGE`). libuv and Chromium's task queue are external
and modelled as far as the code depends on them.

**Choices of the model.**

- `embed_closed_` is a plain `bool` that two threads use: until the embed thread
  has taken the semaphore posted after the write it may read either value.
- The timer heap is read without a lock: a read that meets an insertion may miss
  it (`ReadBackendTimeout` while `starting`).
- On Windows (`Iocp`) the poll takes the packet it returns for: the code posts
  an event's packet back, a wake-up may be swallowed.
- A nested message loop may run any task, `UvRunOnce` included; whether a
  particular dialog's does depends on the platform.
- While the environment is freed the embed thread may be polling the loop: the
  loop's data are then arbitrary.
- `UvRunOnce`'s early return when the environment is gone cannot be reached: no
  task runs after the run loop has ended.
- Not modelled: how the isolate and the environment are made, microtask
  checkpoints, and the two `base::RunLoop().QuitWhenIdle()` of
  `node_bindings.cc:651` and `:676`, which act on a `RunLoop` that nobody runs.

**Properties.**

- `OneUserAtATime` is `UvRunNotReentered` and `PollExcludesUvRun`.
- `UvRunNotReentered`: libuv forbids it; a dialog opened in a libuv callback
  runs the queue where the next `UvRunOnce` would be.
- `PollExcludesUvRun`: the embed thread never polls during a `uv_run` while the
  application runs.
- `NoLostWakeup`: a poll that would block for ever although a timer is armed has
  been interrupted or is about to be.
- `TakesTurns`: NodeLoop implements `PollTurns`, with `turn` defined from the
  phase, the semaphore, the queue and the stack.
- `WorkIsDone` (liveness): an event or timer that is due is handled, unless a
  nested message loop stays open or the application stops. The exception is the
  code's: while a dialog opened in a libuv callback is open, Node does not run.
- `DestructorReturns` (liveness): wherever it finds the embed thread.
- Deadlock is checked; the only final state is the end of the process.

**Fairness.** Weak for the embed thread, the clock, and the steps of start and
teardown. Strong for JavaScript that returns and for the posted task: both can
be disabled again and again by nested loops that open and close, and the queue
is served in order. Nothing closes a modal loop, and nothing makes the
application quit.

**Bounds.** `MaxDepth`, the nesting of the UI thread, is 3: a task or a
`uv_run`, a dialog in it, and a task in the dialog. The run is of Windows, whose
poll has the most behaviours: what it may do includes what the others do. The
proofs cover any depth. The counters need no bound: the invariant shows that
there is one token.

## 5. NativeFullscreen

**State.** `state` (`fullscreen_transition_state_`), `pending`
(`pending_transitions_`), `deferred_close`, `simple`; of AppKit `toggles` (the
`toggleFullScreen:` calls scheduled for a later turn of its run loop),
`animating` and `fullscreen`; `listening`, while the listeners of a transition's
end run; and `last`, what was asked for last.

**Correspondence.** `Request` is `NativeWindowMac::SetFullScreen`,
`HandlePendingFullscreenTransitions` and `CloseImmediately` the functions of
those names, `Toggle` the scheduled call with the delegate's `windowWill...`,
`TransitionEnds` and `ListenersReturn` the two halves of `windowDidEnter...` and
`windowDidExitFullScreen`, before and after the listeners.

**Choices of the model.** AppKit ignores a toggle during a transition, and
finishes the transitions it starts; the user's button works when AppKit is idle
and the window is not in simple fullscreen. `always_simple_fullscreen_` is
folded into `simple`. A listener that closes its own window is left to
AppLifecycle. Three constants say which requests are made: `Repeats` (a request
equal to the one before it), `InListeners`, `Simple`.

**Properties.** `OneTransition` (action): AppKit is never asked for a transition
while one is scheduled or under way, which is what the state is kept for
(`native_window_mac.mm:734-737`). `LastRequestWins`: when all has settled the
window is as asked last. `CloseHappens`, `Settles` (liveness): a deferred close
happens, and no transition is recorded for ever.

The first two hold only without requests in listeners and without simple
fullscreen, and the second only if requests alternate: section 10 says why.

**Fairness.** AppKit makes the calls it was asked for and ends its animations,
listeners return. **Bounds.** Six calls or clicks: the two requests of a queue,
a close, and three transitions more. Deadlock is not checked: calls are bounded
and the window may close.

## 6. AsarFs

**State.** `disk`, what is at each archive's path (a version, an invalid file,
nothing); `handle`, the archive the wrapper's cache holds for a path, with the
bytes behind it, which a file written over in place changes and a replaced file
does not; `noAsar`; and `call`, the asynchronous calls in flight, each with the
turn it waits for, the names its directory was listed with (`names`) and what an
observer has seen since it began: the values of `noAsar` (`modes`), what the
directory had (`lists`) and the answers a synchronous call could have given
(`seen`).

**Correspondence.** `Sync(op, ...)` is what a replaced function answers in its
synchronous form, and `CallSync` such a call. `CallAsync` is a call of a
callback or promise form, with `Begin` saying how much of it is decided at once;
`Restat`, `RealpathDone`, `ReadDone`, `ReadFailed`, `WalkListed`, `WalkDone`,
`NativeDone` and `Decided` are its later turns, and `Return` the callback. A
recursive listing of a directory has two: `WalkListed` is the native listing on a
thread of libuv, `WalkDone` its completion, in which the archives among the names
are opened. Between the two the disk and `noAsar` may change. `GetOrCreateArchive`
is the cache, which keeps what was opened and forgets what could not be;
`ValidateBufferIntegrity` compares the hash and ends the process if it differs
(`exited`). `Replace` and `Rewrite` are an updater, `SetNoAsar` the application.

**Choices of the model.** A path is an archive and an entry, the split itself
(`splitPath`) is the pair. Contents are versions. Options and encodings are left
out. What Node's own `fs` does on other paths is external. The directory is flat,
with archives only; the operating system's listing of it is one step of the disk,
and so is what one synchronous function or one turn does.

**Properties.** `AnswersLinearize`, `OnlyVerifiedBytes`, `ViewsAgree`,
`ArchiveStays` (action), `EveryCallAnswered` (liveness), each explained where it
is defined. `AnswersLinearize` takes for a recursive listing of a directory what
the synchronous form would have answered with the names of one moment since the
call and the archives of another: it is the one function that belongs to two
(section 10). What it lists inside an archive can still be asked for.
`KnownDifference` lists the answers in which the forms of one function are known
to differ; section 10 says which they are.

**Fairness.** libuv and the microtask queue deliver what is due. **Bounds.** One
archive in a directory, in two versions that differ in every kind of entry (a
link becomes a directory, an empty file a link that leads nowhere); one call in
flight, since calls share only the cache, which the environment may fill, and
two changes (a replaced archive and a switch of `noAsar`, or two of either)
during it.

## 7. The library

What an application's JavaScript calls. The modules share no variable;
`MCLibrary` puts them side by side, and a constant choice of the initial state,
the `focus`, says which one takes the steps of a behaviour. Nothing is lost by
that, as parts without common state only interleave; one run serves all.

- **Menus.** `entries` (the items), `commands`, `groups`, `groupId`, and the
  command ids of the native `rows`, in which a separator has none (the code's -1,
  here 0). `Insert`, `RemoveItem`, the clicks and roles. `Insert` asks for nothing
  but a position among the rows, as `menu.ts` does: an item may be inserted into a
  menu that has it, into a second one, or again after it was removed, and its row
  of before is then shown again. `MenusAgree`: in any case what is shown is in the
  menu, and a menu nothing was removed from has its items' rows. As long as no
  item was inserted a second time, one item of a group is checked at most, unless
  the application made two so; a template's segments are its groups; and the rows
  shown are the items, each once and in order, besides separators, whose rows
  stay. A disabled item does not run, also by its accelerator. `menuCalls`
  remembers which of these premises still hold. Items of a menu in a menu are not
  followed further. Bounds: a menu, three items of three kinds, three rows:
  enough to remove an item and put it back next to its own old row.
- **MenuSort.** The sort is a pure algorithm; `SortIsRight` compares its result
  with what a template asks for, which it defines without groups or graphs:
  `SortKeepsItems` (nothing is lost or doubled, what stood between the same
  separators still does, and other items come together only where requests lead
  from one to the other), `ItemsObey` and `GroupsObey` (if there is an order that
  meets every request of the items, or of the groups, the result is one) and
  `NoExtraSeparators`. All sequences of up to five of sixteen template items are
  enumerated, without repeated ids (44,301); proved for any template. A list of
  ids has one at most. The recursion of `sortTopologically` is an agenda of
  visits whose steps are bounded; `mergeGroups` tries as often as there are groups,
  and the proofs show that this is often enough.
- **Bridge.** `calls` (each with its event, the handler that took it, the queue
  to the page and what the page's callback got), `registered` and `invoked`.
  `CallsAreAnswered`: no call is lost; `handleOnce` runs once; the first answer
  is the handler's. The collector is modelled as it can act: at any time after
  JavaScript dropped the event. Bounds: a channel, two calls, two handlers;
  proved for any number.
- **Fetch.** A hop is a record; the server may answer, redirect, send, stop,
  end, break or say nothing, and each hop's timer may fire. `FetchIsSound`:
  redirects drop the credentials, the body and its headers as they must and are
  counted; a promise that is resolved has a whole body; one reply.
  `EveryFetchEnds`: the timers, which run, end it. Bounds: two servers, two
  redirects, a body of one unit beyond which it is too large.
- **Dialogs.** `boxes` with what their thread does; `aborted` signals and their
  listeners, which the code never removes. `AbortsCancel`, `AbortedBoxEnds`.
  Bounds: two boxes, two signals.
- **ContextBridge.** The preload scripts in order, the page's start, the objects
  that scripts make and change (`content`), the wrappers that were made of them
  (`objectCache`: the names that each has), the exposed values, and promises with
  a state in each context. A wrapper reads its object, so values are always the
  present ones, but it has the names that the object had when it was first
  wrapped; `Change` adds and removes names afterwards. `ContextsAgree`: of every
  name of the wrapper the page sees the value exposed last; names come and go
  only with objects that are new to the page. The page looks into what was exposed
  and into the objects there, no deeper; arrays and instances of classes are
  objects like the others. `AllPreloadsRun`. Bounds: three scripts (ES modules
  and CommonJS, one throws in either), two objects, one of which is inside the
  other, later exposures until there are three, two promises.
- **Startup.** The places searched, the kind and behaviour of the script, and
  that it quits (`is_shutdown`) or exits while it is loaded, a CommonJS script in
  its own load, an ES module in any turn of `JoinAppCode`'s loop. There are no
  windows and no message loop then: an exit ends the process, a quit that no
  listener stops only sets `is_shutdown_`. `ReadyAfterCode`: ready comes after
  the code of the first valid place, unless the script waits for nothing or the
  application was quit meanwhile. `StartupEnds`. Bounds: three places.
- **ProcessSingleton.** The three links, and for each process where it is in
  `NotifyOtherProcessWithTimeoutOrCreate` and what it has read. Each file
  operation is a step; processes are killed and quit between them; a process
  that crashed before may have left any links. `SomeoneLeads`: a crash's
  leftovers and the races of those who clean them up never make all newcomers
  refuse. A late answer and no answer are one. Bounds: two newcomers beside the
  crashed one, one retry (the code has twenty; a retry changes nothing but what
  was read). With three newcomers the property holds as well (4,404,758 states).

**Fairness.** Only what the code's scheduling gives: timers fire, dialog threads
and posted tasks proceed, imports finish, a libuv loop with something to do
turns. Users, servers and applications owe nothing.

## 8. The packages

`MCPackages` puts these side by side in the same way.

- **RuntimeInstall.** Any number of processes install one runtime: look, lock,
  look again, download to a file, extract into a temporary directory, verify,
  remove the old one, rename, clean up. Every step that touches network or disk
  may fail, a process may be killed at any step, and a killed holder's lock
  becomes stale. `RuntimeImplements`: it implements `Installed` with the
  refinement mapping "whole if all files are there". `EveryInstallEnds`: waiting
  for the lock is bounded; only a body the server never finishes keeps a
  process.
- **CefInstall.** `CefFinishedIsWhole`, `CefKept` (a run that is not forced
  never takes anything away). **NativeRebuild.** Whether what is published has its
  files in `node_headers` is part of the initial state (`published`); if not, the
  rename is skipped and the rebuild goes on, as in the code. `HeadersWhole`:
  headers are whole wherever a rebuild may use them, or there never are any.
  Together they are `InstalledIsWhole`.
- **AutoLink.** `nodeModules` (what each package has: its manifest with its
  entries and `flaws`, its files, the `name` in its own `package.json`),
  `aliases`, `bundle` and `staged`, the results of the three resolutions, and
  the `compiler`. Dependencies are edited at any time. The two readers of a
  manifest have checks of their own: `Refused` is the plugin's, which drops a
  target that is no object, turns backslashes and strips a leading `./`;
  `PackagingRefuses` is the packager's, which throws on such a target and on a
  package without a name, resolves a path as it is spelled (`Understood`) and
  looks for the files. `StagingAgrees`: what was staged the packager accepts,
  except for the differences that `StagedIsPackaged` names; entry, aliases and
  output fit unless an edit came between; what the builder leaves out of
  `node_modules` the entry loads, where packages are depended on by their own
  names.
- **Builder.** The plan of architectures, one runtime and one build each, with
  failures. Targets are objects with architectures or texts, which only
  electron-builder reads, and the section has `defaultArch` and the field `arch`,
  which only the builder reads. The universal merge ends with a run of its own on
  the configuration as it was read (`MergeRun`). `BuiltAsAsked`: each package has
  the runtime of its architecture except where electron-builder is not told which
  (`Untold`), and every architecture that was asked for is made.

**Fairness.** A process that lives executes its next statement; a server need
not finish a body. **Bounds.** Two processes with two starts each and a runtime
of two files, the executable and another: enough for a half-written runtime with
and without the executable, for a kill in the holder and in the one that waits,
and for a second start to meet what the first left. Two items and three starts
of the webview's installer; two header files, two native modules and three
rebuilds; two AutoLink packages with five contents (each flaw, each spelling, a
name of its own, another's and none), two targets, three edits, on a host where a
backslash is part of a name; the builder's configurations are all sets of five
targets, two of them texts, with four defaults, and of three targets with the
field `arch`.
`Forcing = {}`: a forced download removes a whole runtime, as it is meant to,
and so takes away what other processes were told of.

## 9. The runs

| Run | Module, configuration | Checks | Distinct states |
|---|---|---|---|
| `app_mac` | AppLifecycle, macOS, 2 windows, 7 calls | `NoAbort`, `DestroyEmitsClosed`, `StopsAreDecided`, `CloseAsksFirst`, `WillQuitProperly`, `LifeImplements`: without transitions and late windows the promises of close, destroy, quit and exit are kept | 395,638 |
| `app_win` | AppLifecycle, Windows, 2 windows, 7 calls, late windows, fair | `ExitCompletes`, `NoFreedWindowInUse`, `ShutdownEnds` | 114,994 |
| `app_fullscreen` | AppLifecycle_proofs, macOS, transitions, late windows | the inductive invariant `IInv`, `ClosedEmittedOnce` | 310,118 |
| `node` | NodeLoop_proofs, completion ports, depth 3, fair | the inductive invariant `IInv`, `OneUserAtATime`, `NoLostWakeup`, `TakesTurns`, `WorkIsDone`, `DestructorReturns`, no deadlock | 4,230 |
| `fs_alternating` | NativeFullscreen_proofs, alternating requests | `LastRequestWins`, `OneTransition` | 253 |
| `fs_any` | NativeFullscreen, every request, fair | `CloseHappens`, `Settles` | 1,387 |
| `asar` | MCAsarFs, integrity, fair | section 6 | 84,773 |
| `library` | MCLibrary, fair | section 7, and `WhatBeginsEnds`, its liveness | 385,688 |
| `packages` | MCPackages, fair | section 8 | 509,073 |
| `fs_lost`, `never_sent`, `two_copies` | NativeFullscreen, Bridge, ProcessSingleton | each one property that TLC finds violated: section 10 | |

The windowless platform has no run of its own: its `Close` is one of the
branches of Windows, and the theorems cover it.

To repeat a run: `tlc -config AppLifecycle_mac.cfg AppLifecycle`; to check a
proof: `tlapm AppLifecycle_proofs.tla`.

## 10. Where code and documentation disagree

Three have a run whose counterexample shows them.

- `fs_lost`. A queued request equal to the mode the window has when it is popped
  returns at `native_window_mac.mm:753` and leaves the rest of the queue: press
  the green button, and while it animates call `setFullScreen(true)` and
  `setFullScreen(false)`: the window stays in fullscreen.
- `never_sent`. `SendReply` calls `std::move(callback_)` on a `std::function`
  (`lynx_emit_event.cc:62`), which does not empty it. The destructor of an
  answered event therefore sends "reply was never sent" as well.
- `two_copies`. `IsChromeProcess` (`process_singleton_posix.cc:376`) compares
  the executable's name with Chrome's. A process that has linked its lock but
  does not listen yet is taken for an orphan, and both become the only instance,
  which `process_singleton.h:44-46` excludes.

The following are found by the same models with other constants.

- `close` on Windows (AppLifecycle, `Platform = "win"`, `MaxWindows = 1`,
  `MaxCalls = 4`, `CloseAsksFirst`): `NativeWindowWin::Close`
  (`native_window_win.cc:187`) closes at once; `base-window.d.ts:366` says that
  `close` is emitted and can be prevented.
- Late windows (`LateWindows = TRUE`, `ExitIsDecided`): `exit()` walks a copy of
  the list, so a window opened by a `closed` listener survives it
  (`window_list.cc:98`) and the application stays up.
- `destroy()` during a transition (`Fullscreen = TRUE`, `DestroyEmitsClosed`):
  the close is put off (`native_window_mac.mm:405`), the destructor goes on, and
  `closed`, which `base-window.d.ts:1001-1004` guarantees, is not emitted.
- A fullscreen listener that starts another transition (NativeFullscreen,
  `InListeners = TRUE`, `OneTransition`): the empty queue then resets the state
  (`native_window_mac.mm:775`), and the next request starts a second transition
  during the first.
- An interrupted installation of the webview (CefInstall alone, `Items = {fw,
  dll}`, `Framework = fw`, `Darwin = FALSE`, `MaxCefRuns = 3`,
  `CefPresentIsWhole`): the directory is made before anything is in it, and the
  next run takes it for an installation (`install.js:30`).
- A forced download (RuntimeInstall, `Forcing # {}`, `RuntimeImplements`) takes
  away a runtime that other processes were told of.
- Headers (NativeRebuild, `published = FALSE`): the rename is skipped where the
  zip has no `node_headers` (`lynxtron-rebuild/lib/index.js:69-72`), the zip is
  removed and the modules are built without headers; on Windows `:125-131` then
  makes `v<version>`, so that `:54` skips the download ever after.

Others were met while the models were written. The models follow the code in
each of them, and the properties are stated so that they do not depend on it.

- `Application::Quit` assigns `is_quitting_` after the `before-quit` listeners
  return (`application.cc:118`). A listener that destroys the last window gets
  `window-all-closed` after `app.quit()`, and an `exit()` inside a listener that
  then prevents the quit is forgotten by `is_quitting_`, so that a later quit
  emits `before-quit` after `exit()`. `app.d.ts:1233-1236` and `:1261-1262` say
  otherwise.
- Leaving simple fullscreen with `setFullScreen` resets the transition state and
  empties the queue (`native_window_mac.mm:727`) even during a native
  transition.
- A listener of a transition's end that destroys its own window clears the
  delegate's `shell_` before the delegate uses it
  (`lynx_ns_window_delegate.mm:324`): `ReturnFromFullscreenChanged` ends the
  process there, and `NoAbort` is checked without transitions.
- The forms of one `fs` function differ for an archive that cannot be opened:
  the callback of `exists` gets an error, which it takes for TRUE; a recursive
  `readdir` of an entry reports an error in its callback form and an empty list
  in the others; its promise form with types rejects where the others stop. With
  the integrity fuse a failed read ends the process, as the buffer is validated
  before the error is looked at. `access` of a directory answers `ENOENT`
  although `existsSync` is TRUE. `internalModuleStat` returns -34, which the
  comments at `asar-fs-wrapper.ts:1138` and `:1142` call `-ENOENT`.
- The constructor of a `MenuItem` puts functions bound to itself on the
  prototype (`menu-item.ts:42`), so the group id of an inserted radio item goes
  to the item made last (`menu.ts:335`): an item that was made earlier gets
  none, and its insertion throws.
- `showMessageBox` with a signal that is already aborted resolves to an object
  without `response` (`dialog.ts:264`), also in the synchronous form, which then
  returns a promise; `dialog.d.ts:35` says that the box behaves as if it was
  cancelled.
- The timeout of the runtime's download ends with the headers
  (`utils/download.js`): a body that never ends is waited for for ever, which is
  what `EveryInstallEnds` excepts.
- A hop of a redirected request keeps its timer: when it fires, it rejects the
  whole fetch. A body whose last chunk passes the limit may be resolved
  truncated (`OnlyWholeBodies` says so).
- What a function exposed by a preload script returns is not wrapped, so a
  promise inside a returned object is one of the Node context.
- A recursive asynchronous listing of a directory gets the names in one turn
  (`asar-fs-wrapper.ts:947`, `:1181`) and opens the archives among them in another
  (`:876-887`, `:1195-1255`): one that is removed or replaced in between is listed
  by its name and with what it has then, or by its name alone, which no
  synchronous call could have answered at any one moment.
- An object that a preload script exposes again keeps the names it had when it was
  first wrapped (`lynxbts/init.ts:91-93`): one added since is never seen by the
  page, one removed reads `undefined`.
- `ready` after a quit: `app.quit()` before the main script is loaded makes
  `JoinAppCode` return (`node_bindings.cc:648`), and `main_parts.cc:212-215` tells
  the application that it is ready, its code perhaps not loaded.
- The native row of a separator has the command id -1
  (`lynxtron_menu_model.cc:139`), for which `commandsMap` has nothing: on Windows
  it counts as invisible and is never shown (`menu.ts:65-67`,
  `api_menu.cc:677-686`), on macOS it is shown also after its removal
  (`lynxtron_menu_controller.mm:255-268`).
- Nothing in `menu.ts:188-216` asks whether an item is in a menu already. One that
  is removed and inserted again is shown twice, as its old row has a command
  again; one that is in two menus may leave two marks.
- AutoLink: an artifact that is a directory called `build` is declared and never
  staged; the aliases are those of the moment the plugin was applied; a staged
  directory that an earlier build left makes the packager leave a package out
  that the entry does not load; a universal build needs the artifacts of both
  targets.
- The packager does not read manifests as the plugin does: a path with
  backslashes is staged (`autolink.ts:714-728`) and on macOS and Linux refused as
  missing (`autolink-packaging.js:281-291`); a name that begins with two dots is
  staged and refused as leading out of the package (`:339-344`); `null` among the
  targets is dropped (`autolink.ts:614-628`) and throws (`:102-111`); a package
  without a name is staged and throws (`:93-95`); a path `./` is refused by the
  plugin only. A package that is depended on by another name (an npm alias) is
  staged by that one and left out of `node_modules` by its own (`:34-40`).
- The builder does not read configurations as electron-builder does: an
  architecture in a text, `zip:x64`, is not seen (`runtime-config.js:40-50`), so
  that target gets the runtime of whichever architecture is built; the field `arch`
  is seen by the builder only. The run that packages the merged application is
  given the configuration as it was (`cli.js:174-184`,
  `runtime-config.js:162-167`), so that targets for other architectures are made
  again, out of the universal application.
- A `node.lib` whose copy was cut short exists, and is not copied again
  (`lynxtron-rebuild/lib/index.js:128`).
- Two builders that run at the same time write one temporary configuration file.
- `KillProcessByLockPath` (`process_singleton_posix.cc:1237`) uses a pid that
  was never assigned when the lock has gone, kills whoever holds the lock by
  then, and `Cleanup` unlinks links that another process may have made.

## 11. The proofs

Every safety invariant and action property of the runs is a theorem, but for
those that section 10 shows violated. A theorem is about
the specification of its component and holds for every value of its constants.
Where a property is false for some values, the theorem has a hypothesis:

| Hypothesis | Theorems | What fails without it (section 10) |
|---|---|---|
| `~Fullscreen` | `NothingAborts`, `DestroyIsClosed`, `StopsDecided` | a destroy during a transition puts the close off |
| `~LateWindows` | `StopsDecided` | an exit walks a copy of the window list |
| `Platform = "mac"` | `CloseAsks` | Windows closes at once |
| `Outside`, alternating requests | `OneAtATime`, `LastWins` | a listener starts another transition; `fs_lost` |
| `Forcing = {}` | `RuntimeIsWhole`, `RuntimeRefines` | a forced download removes a whole runtime |
| `MenuHost # "darwin"` | `MenusKeepTogether` | the model's clicks run what the system runs there |

The runs have instances that satisfy each of them. The proofs assume nothing
else but the named assumptions on the constants, which TLC evaluates.

Each module of proofs follows one outline: `Init => IInv`, `IInv /\
[Next]_vars => IInv'` with one lemma or step for each action, `IInv => Inv`, and
the temporal rule. None of the properties is inductive alone; what follows says
what each invariant adds, and why.

**AppLifecycle_proofs.** For any number of windows, calls and every platform:
`TypeCorrect`, `QuitOnce`, `ClosedOnce`, `ExitComplete`, `NoUseAfterFree`,
`WillQuitIsProper`, `CloseAsks`, `NothingAborts`, `DestroyIsClosed`,
`StopsDecided`, `LivesAsPromised`. What is missing from the properties is the tie between the
windows, the stack and the queue, which `IInv` states:

- a window that is closed and still in the list has its `closed` listener on the
  stack, and a suspended activation's window is not freed;
- a `BaseWindow` is *marked* exactly while it waits to be deleted by a task, and
  *deleting* while its destructor is on the stack;
- a destructor waits below the `closed` listener of its window, never above it,
  so that when it ends no listener of the window is left (`DestructorBelow`);
- a task that deletes a native window finds its `BaseWindow` freed.

A call changes these only through the few activations it adds: `Continues(k,
old)` and `Hosts(k, w, base)` say which stacks a call may return to, each C++
operator has a lemma in these terms, and each action is the lemma of the
operator it uses. The first section supplies the elements of stacks and queues.

`WillQuitIsProper` and `CloseAsks` are action properties. Whether a step emitted
`will-quit` is read off the stack, so the proof first shows which calls leave
its listener on top (`NoWillQuit`: none that emits another event or goes on with
a loop), and is left with the two returns that find the list empty.

`NothingAborts` and `DestroyIsClosed` add `CalmInv`: no transition, hence no
close that is put off, hence no destructor that meets an open window.
`StopsDecided` adds who decides. `QuitCarried`: while `is_quitting_` is set and
nothing has shut down, the `will-quit` listener is on the stack, or some window
is left and every open one is ahead of a suspended walk or under its `close`
listener. `ExitCarried`: every open window is ahead of the walk of an exit. With
an empty stack nothing can carry either, which is the property; each return must
show that it hands over what it carried, and a veto that it drops the quit.

`LivesAsPromised` (`Spec => LifeImplements`) has no hypothesis: with transitions
the mapped specification allows for a crash, without them the proof shows that
there is none. It adds `LifeInv`: an open window is in the list, so that an
empty list means that none is open; while the `will-quit` listener runs no
window is open, unless windows are opened late; and whatever ends the message
loop comes after the shutdown. Each action is then a step of `ApplicationLife`
or changes nothing it shows (`SilentStep`), by a lemma for each C++ call on what
it does to the windows (`WindowEffect`).

**NodeLoop_proofs.** For any nesting and every platform: `TypeCorrect`,
`NotReentered`, `OneUser` and both together (`LoopHasOneUser`), `WakeupsArrive`
and `Refinement` (`Spec => TakesTurns`). The invariant counts a single token:
from `StartPolling` on, `sem + posted +` (the embed thread has its turn) `+` (a
`uv_run` is on the stack) is one. A posted task therefore excludes a running
`uv_run`, which is why a nested message loop cannot re-enter it. During teardown
the count is given up, as the destructor posts the semaphore on its own, and the
stack is empty instead.

**NativeFullscreen_proofs.** For any number of calls, under the assumption
`Outside` (no requests in listeners, no simple fullscreen): `OneAtATime`; and
with alternating requests `LastWins`. The invariant: a transition scheduled or
under way is recorded as the one it is, and the queue alternates, leading from
the mode the window is under way to, to the last request. Each popped request is
then a change, so the early return of `fs_lost` is not met.

**AsarFs_proofs.** For any archives, versions, entries and calls in flight:
`TypeCorrect`, `AnswersLinear`, `BytesVerified`, `OpenArchiveStays`,
`ViewsAgreed`. The invariant says of a call in flight that it has seen the
present answer in every mode of `noAsar` it has lived through, for each content
its directory had (`Witnessed`), and of each stage what was established before
the wait (`Waits`): whoever waits to read bytes was told by this archive that
there is a packed file, and a listing that is completed has names that the
directory had. What a listing found in an archive is in one that is open
(`LookedUp`). An archive that
is open stays open and keeps its header, so what was established is true when
the call goes on. With the fuse, the copies outside the archive have the content
of the header (`CopiesVerified`). `ViewsAgreed` compares the functions by the
kind of entry, in the three layers of the wrapper: archive, cache and `fs`.

**MCPackages_proofs.** `RuntimeIsWhole` and `RuntimeRefines` (`RuntimeSpec =>
RuntimeImplements`), for any number of processes, files and starts. `RuntimeInv`:
whoever is between taking the lock and giving it back holds it (`LockHeld`);
from its second look at the directory until it renames, the holder finds no
executable there, and what it renames is the whole archive (`AboutToInstall`); a
directory with the executable is whole, and it is there when a process has said
so (`WholeOrUnusable`). `InstalledWhole`, for any items, header files, modules
and numbers of starts, is an action property of the specification that TLC
checks: the webview's items are split between their place and the temporary
directory while they are moved, so that the last move leaves all of them in
place; headers are only renamed when they are what the zip has in `node_headers`
(`RebuildInv`), all of them or, where there are none, not at all.
`StagedFitsTogether`, for any packages, contents and edits: each result carries
the number of edits it was made at, and two of the same number were made from
one state of the packages (`FromOneState`). `RefusedForItsOwnReason` compares the
checks of the two readers: what the packager refuses of a library that the plugin
did not, is one of the differences that the property names.
`BuildsWhatWasAsked`, for any architectures, configurations and failures: what
the plan no longer holds is packaged or being packaged (`Packaged`), and what a
run makes is a lemma for each kind of run: of one architecture (`RunMakesOne`), of
those of the command line (`RunMakesNamed`), of the configured ones
(`RunMakesConfigured`) and of the merge (`MergeMakes`).

**Bridge_proofs.** For any calls, channels, handlers and any queue:
`BridgeKeeps`, the invariant that says for each call what its event, its handler
and its answers are together, and from it the three parts of `CallsAreAnswered`
and `CallsAreAnsweredTheorem`.

**Library_proofs.** The other parts of the library, each with an invariant of
its own.

- `FetchSound`, for any servers, methods, redirect limit and size. `FetchInv`
  says which hop may still settle the promise: every hop but the last has handed
  it on, and what resolved it was the last. `HopIsOver` and `KeepsPromise` treat
  the events that race; `RedirectStep` is the long one, as it extends the chain
  of which the rules speak.
- `AbortOnlyCancels`, for any boxes and signals. The abort listeners are never
  removed, so `DialogsInv` says that a listener whose id is still in the map
  leads to a box of its own signal (`IdsLeadToTheirBox`), and of each box how
  far its thread can have come.
- `ContextsAlwaysAgree`, for any scripts, objects and promises: a wrapper that
  there is stays (`CacheKeeps`), so an exposure only changes the names of its own
  wrapper (`ExposureIsSeen`); and no continuation of a settled promise is left in
  a queue once its handler has drained it.
- `ReadyIsAfterCode`, for any number of places, with a quit or an exit at any
  moment of the load.
- `SomeoneAlwaysLeads`, for any number of processes and retries. Whoever is
  refused has met a link, and the owner of a link, or a process that overtook
  it, is further ahead (`OwnersAreAhead`, `Overtaken`); from the cookie on
  nothing fails; what the crashed process left has been cleared by then
  (`CrashedIsCleared`).
- `TablesKeepTogether` and `MenusKeepTogether`, for any menus, items and edits.
  `MenuInv` has two parts. `MenuAlways` holds whatever is inserted how often: only
  items of a menu have a command in it, and a menu nothing was removed from has
  their rows. `OnceInv` holds until an item is inserted again: an item is in one
  menu at most (`AtHome`), which is why a click in one leaves the marks of
  another; the groups of a menu are exactly its radio items with their ids
  (`GroupsHold`), also after an insertion that threw when it had already joined
  the group "undefined"; each item but a separator has one row (`RowsHold`), in
  order unless something was inserted before the end after a removal
  (`RowsInOrder`); an item in no menu is checked as it was made (`NewAsMade`),
  which is why a new neighbour adds no second mark; and while a template is built
  the prototype's functions belong to the item that is inserted next
  (`TemplateHolds`). The group of the new item is found by looking
  backwards: `NearestBefore` and `TemplateKeepsSegments` show that this is the
  group of the segment. The lemmas on `InsertAt`, `RemoveAt` and `RemoveFirst`
  say what a sequence holds after them, and in which order.

**MenuSort_proofs.** `SortIsAlwaysRight`, for templates of any length and any
items. The proof follows the sort from part to part:

| Part | What its lemmas say |
|---|---|
| `SplitArray`, `MergeGroups` | each item but the separators stands in one group, at one place of it (`IsArranged`); groups hold whole segments, and two segments only if requests lead from one to the other. Each merge leaves one group less, so after as many steps as there are groups no item asks for another group (`MergedOut`) |
| `SortTopologically` | the agenda is spent within the bound (`VisitSpends`); every place is put on the list once (`VisitKeeps`); if the edges can be ranked, each place is put after those of its edges (`VisitKeepsOrder`) |
| `SortItemsInGroup`, `SortGroups` | the edges are the requests, so an order that meets the requests ranks them |
| `JoinArrays` | each group is a segment of the result, in the order of the groups (`JoinedInRow`) |
| `RemoveExtraSeparators` | what stands next to each other after a filter (`FilteredNext`) |

The bijection that `SortKeepsItems` asks for is the composition of the places
in the parts (`SortedPlaces`), and a place that meets all requests in the result
gives the ranks with which the topological sort is known to succeed. `ItemsObey` and
`GroupsObey` read the requests off the result, so the last lemmas show that
`AskedOrder` and `AskedGroups` are carried along by that bijection.

The provers know of a recursive function only that it is chosen among those
that satisfy its equation. `Recursion` shows that there is one, for any first
value and any steps, given as data and not as an operator; `OneRecursion`, that
the chosen one follows them. `Upwards` is then induction over a set of numbers.
`LeastNumber` and `GreatestNumber`, from the well-foundedness of the naturals,
stand in for it elsewhere: a least counterexample is picked and refuted.

For the sake of these proofs some definitions have another form than they would
have for TLC alone: `RemoveItem` uses `RemoveFirst` (`indexOf` and `splice` in
the code), `RowsAreItems` is stated by positions instead of as an equation of
sequences, the recursions of MenuSort are functions on numbers, with a bound on
their steps, and the constants of AsarFs, AutoLink and Builder have assumptions
that say what their instances always were.

The inductive invariants of AppLifecycle and NodeLoop are also checked by runs
(`app_fullscreen`, `node`); those of the other modules and the type invariants
are proved only.

**Only model-checked**: liveness (`ShutdownEnds`, `WorkIsDone`,
`DestructorReturns`, `CloseHappens`, `Settles`, `InstallersEnd`,
`EveryCallAnswered`, `WhatBeginsEnds`), which is out of the prover's reach. The
compositions `MCLibrary` and `MCAsarFs` have no theorems: the parts of the first
share no variable and each has its own, and the second only gives values.

## 12. The plan

Done, in this order: AppLifecycle, NodeLoop with PollTurns, NativeFullscreen,
Bridge, Fetch, ProcessSingleton, AsarFs, the installers with Installed, AutoLink
and Builder, Menus and MenuSort, Dialogs, ContextBridge, Startup; then the
theorems of section 11, of which the last are the refinement of ApplicationLife
and the sort of the menus.

To come:

1. `LastWins` for every sequence of requests whose queue does not meet the early
   return of `fs_lost`.
2. The composition of NativeFullscreen with AppLifecycle, where a listener of a
   transition closes its own window; parent and child windows, whose close the
   parent's triggers.
3. `LynxWindow`: visibility, the cached render state and the FPS monitor, whose
   delayed tasks outlive the setting that started them.
4. Termination signals and the global threads.

## 13. Not modelled

- Rendering, layout and the Lynx engine: a prebuilt library. The render state of
  `LynxWindow` is mostly a state of the engine's view.
- Tray, notifications, clipboard, screen, power monitor, shell and the native
  halves of menus and dialogs: calls into the desktop's toolkits.
- Value conversion, colour and size parsing, the parser of asar headers:
  sequential code on data, with unit tests.
- The relauncher: a short sequence of system calls.
- The toolkit under `shell/ui`, `gin`, `third_party`: not the program's own,
  except `HWNDMessageHandler`'s path of `WM_CLOSE`, which AppLifecycle follows.
- Scaffolding (`create-lynxtron`), demonstration applications and the tools of
  the repository's own build, one of which is a vendored copy of a package
  manager.
- A failed transition: AppKit may report that a window could not enter or leave
  fullscreen, and the delegate has no handler for it. Nothing in the repository
  says what should happen then, so the model lets every transition finish.
