---------------------------- MODULE ContextBridge ----------------------------
(***************************************************************************)
(* What preload scripts expose to a page (lynxbts/init.ts).  The scripts   *)
(* run in a Node context, the page in a Lynx context of the same thread,   *)
(* each with its own queue of microtasks.  CommonJS preloads run before    *)
(* the page, ES modules after one another while it already runs.           *)
(***************************************************************************)
EXTENDS Naturals, Sequences, SequencesExt

CONSTANTS
  Objects,      \* the objects that the scripts expose, or hold in others
  Shapes,       \* what an object can be made of: functions from names to values
  Preloads,     \* the preload scripts, a sequence: see IsPreload
  Promises,     \* the promises of the Node context
  MaxExposures  \* bound: what the scripts expose later

Values == [kind : {"plain", "function", "promise"}, of : Promises] \cup
          [kind : {"object"}, of : Objects]
Undefined == [kind |-> "undefined"]

(* A script makes an object of some values, exposes it, and may throw      *)
(* after that.                                                             *)
IsPreload(s) ==
  s.esm \in BOOLEAN /\ s.throws \in BOOLEAN /\ s.object \in Objects /\ s.shape \in Shapes

ASSUME PreloadAssumption ==
  /\ MaxExposures \in Nat /\ <<>> \in Shapes
  /\ \A k \in DOMAIN Preloads : IsPreload(Preloads[k])
  /\ \A s \in Shapes : \A n \in DOMAIN s : s[n] \in Values

VARIABLES
  started,     \* the preloads that were started, in order
  awaiting,    \* an ES module is being imported
  content,     \* what the scripts' objects are made of
  objectCache, \* the wrappers of objects: the names that they have
  apis,        \* what exposeInLynxBTS has merged, in the Node context
  bridgeData,  \* and what the page sees; before the setup there is nothing
  nodeState,   \* the promises of the Node context
  wrapped,     \* the Lynx promises that stand for them
  lynxState,   \* and their states
  heard,       \* the continuations of the page that have run
  exposures    \* what was exposed, in order

contextVars == <<started, awaiting, content, objectCache, apis, bridgeData, nodeState,
                 wrapped, lynxState, heard, exposures>>
exposedVars == <<content, objectCache, apis, bridgeData, exposures>>

ContextInit ==
  /\ started = <<>> /\ awaiting = 0 /\ exposures = <<>>
  /\ content = [o \in Objects |-> <<>>] /\ objectCache = <<>>
  /\ apis = <<>> /\ bridgeData = <<>>
  /\ nodeState = [p \in Promises |-> "pending"] /\ lynxState = nodeState
  /\ wrapped = {} /\ heard = {}
-----------------------------------------------------------------------------
MergeInPlace(target, source) ==
  [n \in DOMAIN target \cup DOMAIN source |->
     IF n \in DOMAIN source THEN source[n] ELSE target[n]]

(* wrap, of objects: the wrapper has a getter for each name that the       *)
(* object has when it is wrapped first, and keeps them.                    *)
Cached(objects) ==
  [o \in DOMAIN objectCache \cup objects |->
     IF o \in DOMAIN objectCache THEN objectCache[o] ELSE DOMAIN content'[o]]
(* What the getters of an object give now.                                 *)
ReadOf(o) ==
  [n \in Cached({o})[o] |-> IF n \in DOMAIN content'[o] THEN content'[o][n] ELSE Undefined]
Inside(kind, values) == {v.of : v \in {x \in values : x.kind = kind}}

FaultyExposeInLynxBTS(o) ==  \* only what is exposed before the page runs
  LET read == ReadOf(o)
      values == {read[n] : n \in DOMAIN read}
  IN  /\ exposures' = Append(exposures, [object |-> o, shape |-> content'[o],
                                         again |-> o \in DOMAIN objectCache])
      /\ objectCache' = Cached({o} \cup Inside("object", values))
      /\ apis' = MergeInPlace(apis, read)
      /\ bridgeData' = IF awaiting = 0 THEN MergeInPlace(bridgeData, read) ELSE bridgeData
      /\ wrapped' = wrapped \cup Inside("promise", values)

(* exposeInLynxBTS wraps the object and merges the wrapper, which reads    *)
(* it: a promise or an object in it is wrapped now, what a function        *)
(* returns when the page calls it.                                         *)
ExposeInLynxBTS(o) ==
  LET read == ReadOf(o)
      values == {read[n] : n \in DOMAIN read}
  IN  /\ exposures' = Append(exposures, [object |-> o, shape |-> content'[o],
                                         again |-> o \in DOMAIN objectCache])
      /\ objectCache' = Cached({o} \cup Inside("object", values))
      /\ apis' = MergeInPlace(apis, read)
      /\ bridgeData' = MergeInPlace(bridgeData, read)
      /\ wrapped' = wrapped \cup Inside("promise", values)

(* A script makes its object of s, and exposes it.                         *)
Expose(o, s) == content' = [content EXCEPT ![o] = s] /\ ExposeInLynxBTS(o)

(* runPreloadScripts: first the CommonJS scripts, then the ES modules; a   *)
(* script that throws is reported and the next one runs.                   *)
RunOrder ==
  LET esm(b) == SelectSeq([k \in DOMAIN Preloads |-> k], LAMBDA k : Preloads[k].esm = b)
  IN  esm(FALSE) \o esm(TRUE)
NextPreload == RunOrder[Len(started) + 1]

RunPreload ==
  /\ Len(started) < Len(Preloads) /\ awaiting = 0
  /\ started' = Append(started, NextPreload)
  /\ awaiting' = IF Preloads[NextPreload].esm THEN NextPreload ELSE 0
  /\ IF Preloads[NextPreload].esm THEN UNCHANGED <<exposedVars, wrapped>>
     ELSE Expose(Preloads[NextPreload].object, Preloads[NextPreload].shape)
  /\ UNCHANGED <<nodeState, lynxState, heard>>

Imported ==
  /\ awaiting # 0 /\ awaiting' = 0
  /\ Expose(Preloads[awaiting].object, Preloads[awaiting].shape)
  /\ UNCHANGED <<started, nodeState, lynxState, heard>>

(* In a callback of its own a script changes an object, and exposes one,   *)
(* which may be the same.                                                  *)
Change(o, s) ==
  /\ started # <<>> /\ Len(exposures) < MaxExposures /\ content' = [content EXCEPT ![o] = s]
  /\ UNCHANGED <<started, awaiting, objectCache, apis, bridgeData, nodeState, wrapped,
                 lynxState, heard, exposures>>
ExposeLater(o) ==
  /\ started # <<>> /\ Len(exposures) < MaxExposures
  /\ UNCHANGED content /\ ExposeInLynxBTS(o)
  /\ UNCHANGED <<started, awaiting, nodeState, lynxState, heard>>
-----------------------------------------------------------------------------
(* What is queued in the Lynx context runs: the continuations of settled   *)
(* Lynx promises.                                                          *)
Checkpoint(states) == {p \in Promises : states[p] # "pending"}

(* linkNodePromise: the handlers settle the Lynx promise and drain the     *)
(* microtasks of the Lynx context.                                         *)
Link(p, how) ==
  /\ lynxState' = [lynxState EXCEPT ![p] = how]
  /\ heard' = heard \cup Checkpoint(lynxState')

(* The page takes a promise, also as the answer of an exposed function, or *)
(* an object, whose wrapper is made now.  It looks into what was exposed   *)
(* and into the objects there, no deeper.                                  *)
PageTakes(v) ==
  /\ \/ v.kind \in {"function", "promise"} /\ wrapped' = wrapped \cup {v.of} /\ UNCHANGED objectCache
     \/ v.kind = "object" /\ objectCache' = Cached({v.of}) /\ UNCHANGED wrapped
  /\ UNCHANGED <<started, awaiting, content, apis, bridgeData, nodeState, lynxState, heard, exposures>>
PageCalls(name) ==
  /\ name \in DOMAIN bridgeData /\ bridgeData[name].kind = "function"
  /\ PageTakes(bridgeData[name])
PageReads(name, n) ==
  /\ name \in DOMAIN bridgeData /\ bridgeData[name].kind = "object"
  /\ LET o == bridgeData[name].of
     IN  n \in objectCache[o] \cap DOMAIN content[o] /\ PageTakes(content[o][n])

(* A promise settles, and with it the one that stands for it.              *)
NodeSettles(p, how) ==
  /\ nodeState[p] = "pending" /\ nodeState' = [nodeState EXCEPT ![p] = how]
  /\ IF p \in wrapped THEN Link(p, how) ELSE UNCHANGED <<lynxState, heard>>
  /\ UNCHANGED <<started, awaiting, exposedVars, wrapped>>

(* The handlers of a promise that had settled before it was wrapped run in *)
(* a microtask of the Node context.                                        *)
LateHandler(p) ==
  /\ p \in wrapped /\ nodeState[p] # "pending" /\ lynxState[p] = "pending"
  /\ Link(p, nodeState[p])
  /\ UNCHANGED <<started, awaiting, exposedVars, nodeState, wrapped>>

ContextNext ==
  \/ RunPreload \/ Imported
  \/ \E o \in Objects : ExposeLater(o) \/ \E s \in Shapes : Change(o, s)
  \/ \E n \in DOMAIN bridgeData : PageCalls(n)
  \/ \E n, m \in UNION {DOMAIN s : s \in Shapes} : PageReads(n, m)
  \/ \E p \in Promises : LateHandler(p) \/ \E how \in {"fulfilled", "rejected"} : NodeSettles(p, how)

ContextSpec ==
  /\ ContextInit /\ [][ContextNext]_contextVars
  /\ WF_contextVars(RunPreload) /\ WF_contextVars(Imported)
-----------------------------------------------------------------------------
(* lynxbts/init.ts:116: whenever a script exposes something, before the    *)
(* page was started or while it runs, the page sees of every name the last *)
(* value that was exposed.  Names come and go only with objects that the   *)
(* page had not been given before: what is added to one that it had is     *)
(* never seen.                                                             *)
Carries(k, n) == n \in objectCache[exposures[k].object]
PageSeesTheLast ==
  /\ \A n \in DOMAIN bridgeData : \E k \in DOMAIN exposures : Carries(k, n)
  /\ \A k \in DOMAIN exposures :
       LET x == exposures[k] IN
       /\ x.object \in DOMAIN objectCache /\ objectCache[x.object] \subseteq DOMAIN bridgeData
       /\ ~x.again => objectCache[x.object] = DOMAIN x.shape
       /\ \A n \in objectCache[x.object] :
            (\A l \in DOMAIN exposures : l > k => ~Carries(l, n)) =>
              bridgeData[n] = IF n \in DOMAIN x.shape THEN x.shape[n] ELSE Undefined

(* lynxbts/init.ts:55: no continuation of a promise that the page was      *)
(* given stays in a queue that nobody drains: it has run when the handlers *)
(* that settle it have.                                                    *)
SettledIsHeard == \A p \in Promises : lynxState[p] # "pending" => p \in heard

(* The page sees what the preload scripts gave it, and its promises settle *)
(* with theirs.                                                            *)
ContextsAgree == PageSeesTheLast /\ SettledIsHeard

(* A preload that throws, of either kind, does not keep the others from    *)
(* running.                                                                *)
AllPreloadsRun == <>(Len(started) = Len(Preloads) /\ awaiting = 0)
=============================================================================
