-------------------------- MODULE ProcessSingleton --------------------------
(***************************************************************************)
(* app.requestSingleInstanceLock on macOS and Linux                        *)
(* (process_singleton_posix.cc): the processes of one application find     *)
(* each other by three links in its data directory.  A lock names a        *)
(* process, a socket link leads to the directory in which one listens, and *)
(* a cookie link must name what is in that directory.  Every file          *)
(* operation is a step, between which the others run or are killed.  A     *)
(* process that crashed before them has left any of the links behind.      *)
(*                                                                         *)
(* The processes are of one host and none is another's parent.  A process  *)
(* requests once.  That an answer is late (a UI thread that is busy, or    *)
(* that does not watch its socket yet) and that it never comes are one:    *)
(* NoAck.  Left out are locks of other hosts or of older versions, and the *)
(* URL events that macOS forwards.                                         *)
(***************************************************************************)
EXTENDS Naturals, FiniteSets

CONSTANTS
  Process,      \* processes of the application
  Crashed,      \* the one of them that is dead from the start
  NoProcess,    \* what a link that is not there names
  MaxRetries,   \* kRetryAttempts
  ChromeNames   \* whether the executable's name can be the one IsChromeProcess wants

ASSUME SingletonAssumption ==
  /\ NoProcess \notin Process /\ Crashed \in Process
  /\ MaxRetries \in Nat /\ ChromeNames \subseteq BOOLEAN

VARIABLES
  isChrome,               \* the executable has the name
  lockLink, socketLink, cookieLink,  \* SingletonLock, SingletonSocket, SingletonCookie
  socketDir,              \* process |-> what is in its temporary directory
  proc                    \* process |-> where it is, and the locals of its request

linkVars == <<lockLink, socketLink, cookieLink>>
singletonVars == <<isChrome, linkVars, socketDir, proc>>

SingletonInit ==
  /\ isChrome \in ChromeNames
  /\ lockLink \in {NoProcess, Crashed} /\ socketLink \in {NoProcess, Crashed}
  /\ cookieLink \in {NoProcess, Crashed}
  /\ socketDir = [p \in Process |-> IF p = Crashed THEN {"cookie", "socket"} ELSE {}]
  /\ proc = [p \in Process |->
       [at |-> IF p = Crashed THEN "dead" ELSE "idle", seen |-> NoProcess,
        retries |-> 0, round |-> 1, reply |-> "none"]]

At(p, place) == proc[p].at = place
Goes(p, place) == proc' = [proc EXCEPT ![p].at = place]
Alive(p) == proc[p].at \notin {"idle", "dead"}

IsChromeProcess(p) == isChrome /\ Alive(p)

(* NotifyOtherProcessWithTimeout returns PROCESS_NONE: the first time the  *)
(* lock is created, the second time that is LOCK_ERROR.                    *)
Nobody(p) == IF proc[p].round = 1 THEN "lock" ELSE "refused"
(* kill_unresponsive is only true the first time.                          *)
Unresponsive(p) == IF proc[p].round = 1 THEN "find" ELSE "refused"
-----------------------------------------------------------------------------
RequestSingleInstanceLock(p) ==
  /\ At(p, "idle") /\ Goes(p, "connect")
  /\ UNCHANGED <<isChrome, linkVars, socketDir>>

(* ConnectSocket: the link is read, then the cookies and the socket.       *)
ReadSocketLink(p) ==
  /\ At(p, "connect")
  /\ IF socketLink = NoProcess THEN Goes(p, "parse")
     ELSE proc' = [proc EXCEPT ![p].at = "dial", ![p].seen = socketLink]
  /\ UNCHANGED <<isChrome, linkVars, socketDir>>

Listens(q) == Alive(q) /\ "socket" \in socketDir[q]

Dial(p) ==
  /\ At(p, "dial")
  /\ LET q == proc[p].seen IN
     Goes(p, IF cookieLink = q /\ "cookie" \in socketDir[q] /\ Listens(q)
             THEN "await" ELSE "parse")
  /\ UNCHANGED <<isChrome, linkVars, socketDir>>

(* No connection: who has the lock?                                        *)
ParseProcessSingletonLock(p) ==
  /\ At(p, "parse")
  /\ \/ lockLink = NoProcess /\ Goes(p, Nobody(p))
     \/ /\ lockLink # NoProcess /\ (~IsChromeProcess(lockLink) \/ lockLink = p)
        /\ Goes(p, "unlink")
     \/ /\ lockLink \notin {NoProcess, p} /\ IsChromeProcess(lockLink)
        /\ IF proc[p].retries = MaxRetries THEN Goes(p, Unresponsive(p))
           ELSE proc' = [proc EXCEPT ![p].at = "connect", ![p].retries = @ + 1]
  /\ UNCHANGED <<isChrome, linkVars, socketDir>>

FaultyUnlinkOrphanedLock(p) ==  \* what is orphaned is left where it is
  /\ At(p, "unlink") /\ Goes(p, Nobody(p))
  /\ UNCHANGED <<isChrome, linkVars, socketDir>>

UnlinkOrphanedLock(p) ==
  /\ At(p, "unlink") /\ Goes(p, Nobody(p))
  /\ lockLink' = NoProcess
  /\ UNCHANGED <<isChrome, socketLink, cookieLink, socketDir>>

(* KillProcessByLockPath reads the lock again, unlinks it and kills.       *)
(* Without a lock its pid is not initialized.                              *)
FindVictim(p) ==
  /\ At(p, "find")
  /\ \E q \in IF lockLink = NoProcess THEN Process \cup {NoProcess} ELSE {lockLink} :
       proc' = [proc EXCEPT ![p].at = "take", ![p].seen = q]
  /\ UNCHANGED <<isChrome, linkVars, socketDir>>

TakeLock(p) ==
  /\ At(p, "take") /\ Goes(p, "kill")
  /\ lockLink' = NoProcess
  /\ UNCHANGED <<isChrome, socketLink, cookieLink, socketDir>>

KillProcess(p) ==
  /\ At(p, "kill")
  /\ LET q == proc[p].seen IN
     proc' = [r \in Process |->
                IF r = p THEN [proc[p] EXCEPT !.at = "lock"]
                ELSE IF r = q /\ Alive(q) THEN [proc[q] EXCEPT !.at = "dead"] ELSE proc[r]]
  /\ UNCHANGED <<isChrome, linkVars, socketDir>>

(* The message is sent.  HandleMessage answers it: the arguments are       *)
(* taken, unless the application is shutting down or has no singleton any  *)
(* more.                                                                   *)
HandleMessage(q, p) ==
  /\ At(p, "await") /\ proc[p].seen = q /\ proc[p].reply = "none"
  /\ \/ At(q, "primary") /\ proc' = [proc EXCEPT ![p].reply = "ACK"]
     \/ proc[q].at \in {"quitting", "released"} /\ proc' = [proc EXCEPT ![p].reply = "SHUTDOWN"]
  /\ UNCHANGED <<isChrome, linkVars, socketDir>>

ReadReply(p) ==
  /\ At(p, "await") /\ proc[p].reply # "none"
  /\ proc' = [proc EXCEPT ![p].at = IF proc[p].reply = "ACK" THEN "refused" ELSE Nobody(p),
                          ![p].reply = "none"]
  /\ UNCHANGED <<isChrome, linkVars, socketDir>>

(* The write fails, the other end is closed or 20 seconds pass.            *)
NoAck(p) ==
  /\ At(p, "await") /\ proc[p].reply = "none" /\ Goes(p, Unresponsive(p))
  /\ UNCHANGED <<isChrome, linkVars, socketDir>>
-----------------------------------------------------------------------------
(* Create fails; the request notifies once more, and kills nothing.        *)
NotifyAgain(p) ==
  proc' = [proc EXCEPT ![p].at = "connect", ![p].round = 2, ![p].retries = 0]

LinkLock(p) ==
  /\ At(p, "lock")
  /\ IF lockLink \in {NoProcess, p} THEN lockLink' = p /\ Goes(p, "clear socket")
     ELSE NotifyAgain(p) /\ UNCHANGED lockLink
  /\ UNCHANGED <<isChrome, socketLink, cookieLink, socketDir>>

UnlinkSocket(p) ==
  /\ At(p, "clear socket") /\ Goes(p, "clear cookie")
  /\ socketLink' = NoProcess
  /\ UNCHANGED <<isChrome, lockLink, cookieLink, socketDir>>

UnlinkCookie(p) ==
  /\ At(p, "clear cookie") /\ Goes(p, "link socket")
  /\ cookieLink' = NoProcess
  /\ UNCHANGED <<isChrome, lockLink, socketLink, socketDir>>

LinkSocket(p) ==
  /\ At(p, "link socket")
  /\ IF socketLink = NoProcess THEN socketLink' = p /\ Goes(p, "link cookie")
     ELSE NotifyAgain(p) /\ UNCHANGED socketLink
  /\ UNCHANGED <<isChrome, lockLink, cookieLink, socketDir>>

LinkCookie(p) ==
  /\ At(p, "link cookie")
  /\ IF cookieLink = NoProcess THEN cookieLink' = p /\ Goes(p, "listen")
     ELSE NotifyAgain(p) /\ UNCHANGED cookieLink
  /\ UNCHANGED <<isChrome, lockLink, socketLink, socketDir>>

(* The cookie in its own directory, bind and listen.                       *)
Listen(p) ==
  /\ At(p, "listen") /\ Goes(p, "primary")
  /\ socketDir' = [socketDir EXCEPT ![p] = {"cookie", "socket"}]
  /\ UNCHANGED <<isChrome, linkVars>>
-----------------------------------------------------------------------------
(* quit() shuts the application down, app.releaseSingleInstanceLock does   *)
(* not; both end in Cleanup, which unlinks whatever the links are, and the *)
(* destructor, which deletes the directory.                                *)
BeginsToQuit(p) ==
  /\ At(p, "primary") /\ Goes(p, "quitting")
  /\ UNCHANGED <<isChrome, linkVars, socketDir>>

CleanupSocket(p) ==
  /\ proc[p].at \in {"primary", "quitting"} /\ Goes(p, "drop cookie")
  /\ socketLink' = NoProcess
  /\ UNCHANGED <<isChrome, lockLink, cookieLink, socketDir>>

CleanupCookie(p) ==
  /\ At(p, "drop cookie") /\ Goes(p, "drop lock")
  /\ cookieLink' = NoProcess
  /\ UNCHANGED <<isChrome, lockLink, socketLink, socketDir>>

CleanupLock(p) ==
  /\ At(p, "drop lock") /\ Goes(p, "drop dir")
  /\ lockLink' = NoProcess
  /\ UNCHANGED <<isChrome, socketLink, cookieLink, socketDir>>

DeleteSocketDir(p) ==
  /\ At(p, "drop dir") /\ Goes(p, "released")
  /\ socketDir' = [socketDir EXCEPT ![p] = {}]
  /\ UNCHANGED <<isChrome, linkVars>>

SingletonNext ==
  \E p \in Process :
    \/ RequestSingleInstanceLock(p) \/ ReadSocketLink(p) \/ Dial(p)
    \/ ParseProcessSingletonLock(p) \/ UnlinkOrphanedLock(p)
    \/ FindVictim(p) \/ TakeLock(p) \/ KillProcess(p)
    \/ \E q \in Process : HandleMessage(q, p)
    \/ ReadReply(p) \/ NoAck(p)
    \/ LinkLock(p) \/ UnlinkSocket(p) \/ UnlinkCookie(p) \/ LinkSocket(p) \/ LinkCookie(p)
    \/ Listen(p)
    \/ BeginsToQuit(p) \/ CleanupSocket(p) \/ CleanupCookie(p) \/ CleanupLock(p)
    \/ DeleteSocketDir(p)

SingletonSpec == SingletonInit /\ [][SingletonNext]_singletonVars
-----------------------------------------------------------------------------
(* process_singleton.h:44 "we can be sure that no more than one copy of    *)
(* the application can be running at once with a given data directory".    *)
OneCopy == Cardinality({p \in Process : At(p, "primary")}) <= 1

(* The processes that start together, after one has crashed, never all     *)
(* refuse: when every request has ended and none was killed or quit, one   *)
(* has become the primary, however their locks and links crossed.          *)
Newcomers == Process \ {Crashed}
SomeoneLeads ==
  (\A p \in Newcomers : proc[p].at \in {"idle", "refused"}) =>
    \A p \in Newcomers : At(p, "idle")
=============================================================================
