-------------------------------- MODULE Fetch --------------------------------
(***************************************************************************)
(* How a window gets a resource: lynx-resource-fetcher.ts reads a file or  *)
(* asks lynx-http-client.ts, whose request follows redirects with a        *)
(* request of its own for each hop.  The answer of the server, its end, a  *)
(* lost connection, the limit of the body and each hop's timer race to     *)
(* settle one promise; what it settles to becomes the reply.               *)
(***************************************************************************)
EXTENDS Naturals, Sequences

CONSTANTS
  Origins,        \* the servers
  Methods,        \* of the requests made: "GET", "HEAD", "POST"
  MaxBytes,       \* bound of the body, in chunks; 10 MB in the code
  RedirectLimit   \* 5 in the code

ASSUME FetchAssumption ==
  /\ MaxBytes \in Nat /\ RedirectLimit \in Nat
  /\ Origins \cap {"file", "other", "bad"} = {}

(* A URL: of a server, of a file, of another protocol, or not one at all.  *)
Urls == {"file", "other", "bad"} \cup Origins
HeaderKinds == {"host", "credential", "content"}  \* the ones prepareRedirect may delete

VARIABLES
  caller,    \* "fetch": onResourceFetcher, "request": another user
  hops,      \* the requests, the last one being the one that is followed
  promise,   \* what the promise of the first hop has settled to
  replies,   \* the status codes of the calls of sendReply that returned
  step       \* of onResourceFetcher: "idle", "file", "waits", "catch", "over"

fetchVars == <<caller, hops, promise, replies, step>>

Pending == [state |-> "pending", status |-> 0, bytes |-> 0, whole |-> FALSE]
Rejected == [Pending EXCEPT !.state = "rejected"]
Settled(p) == IF promise = Pending THEN p ELSE promise

FetchInit ==
  caller = "fetch" /\ hops = <<>> /\ promise = Pending /\ replies = <<>> /\ step = "idle"
-----------------------------------------------------------------------------
(* A request to url; response is where its response stands, bytes what the *)
(* listener has kept, more that the server has sent more than that.        *)
Hop(url, method, headers, body) ==
  [url |-> url, method |-> method, headers |-> headers, body |-> body,
   response |-> "none", status |-> 0, bytes |-> 0, more |-> FALSE]

(* requestHttpBuffer, for any user of it.                                  *)
RequestHttpBuffer(url, method, headers, body) ==
  /\ step = "idle" /\ step' = "waits" /\ caller' = "request"
  /\ IF url \in Origins
     THEN hops' = <<Hop(url, method, headers, body)>> /\ promise' = Pending
     ELSE hops' = <<>> /\ promise' = Rejected
  /\ UNCHANGED replies

(* onResourceFetcher: what cannot be parsed goes to the catch clause.      *)
OnResourceFetcher(url) ==
  /\ step = "idle" /\ caller' = "fetch"
  /\ step' = CASE url \in Origins -> "waits" [] url = "file" -> "file"
               [] url = "other" -> "waits" [] OTHER -> "catch"
  /\ hops' = IF url \in Origins THEN <<Hop(url, "GET", {}, FALSE)>> ELSE <<>>
  /\ promise' = IF url = "other" THEN [Pending EXCEPT !.state = "resolved", !.status = 1]
                ELSE Pending
  /\ UNCHANGED replies

ReadFile(found) ==
  /\ step = "file"
  /\ IF found THEN step' = "waits" /\ promise' = [Pending EXCEPT !.state = "resolved"]
     ELSE step' = "catch" /\ UNCHANGED promise
  /\ UNCHANGED <<caller, hops, replies>>
-----------------------------------------------------------------------------
(* prepareRedirect: which method, headers and body the next hop has.       *)
PrepareRedirect(status, hop, url) ==
  LET get == \/ status = 303 /\ hop.method # "HEAD"
             \/ status \in {301, 302} /\ hop.method = "POST"
      lost == {"host"} \cup (IF get THEN {"content"} ELSE {})
                \cup (IF url # hop.url THEN {"credential"} ELSE {})
  IN  Hop(url, IF get THEN "GET" ELSE hop.method, hop.headers \ lost, hop.body /\ ~get)

LastHop == Len(hops)
Open(h) == hops[h].response \in {"none", "reading", "redirect"}

(* The response is a redirect.  Its own body is still read, unheard; the   *)
(* promise of this hop follows that of the next one.                       *)
Redirect(status, url) ==
  /\ hops # <<>> /\ hops[LastHop].response = "none"
  /\ LET redirected == [hops EXCEPT ![LastHop].response = "redirect"] IN
     IF LastHop > RedirectLimit \/ url \notin Origins
     THEN hops' = redirected /\ promise' = Settled(Rejected)
     ELSE /\ hops' = Append(redirected, PrepareRedirect(status, hops[LastHop], url))
          /\ UNCHANGED promise
  /\ UNCHANGED <<caller, replies, step>>

Respond(status) ==
  /\ hops # <<>> /\ hops[LastHop].response = "none"
  /\ hops' = [hops EXCEPT ![LastHop].response = "reading", ![LastHop].status = status]
  /\ UNCHANGED <<caller, promise, replies, step>>

(* A chunk: the one that passes the limit destroys the request.            *)
Data ==
  /\ hops # <<>> /\ hops[LastHop].response = "reading"
  /\ hops' = IF hops[LastHop].bytes + 1 > MaxBytes
             THEN [hops EXCEPT ![LastHop].response = "destroyed", ![LastHop].more = TRUE]
             ELSE [hops EXCEPT ![LastHop].bytes = @ + 1]
  /\ UNCHANGED <<caller, promise, replies, step>>

(* The response ends.  If the chunk that passed the limit was its last one *)
(* the stream may say so before the request reports its error.             *)
End(h) ==
  /\ hops[h].response \in {"reading", "redirect", "destroyed"}
  /\ hops' = [hops EXCEPT ![h].response = "over"]
  /\ promise' = IF hops[h].response = "redirect" THEN promise
                ELSE Settled([state |-> "resolved", status |-> hops[h].status,
                              bytes |-> hops[h].bytes, whole |-> ~hops[h].more])
  /\ UNCHANGED <<caller, replies, step>>

FaultyLost(h) ==  \* nothing listens to the errors of a response
  /\ Open(h)
  /\ hops' = [hops EXCEPT ![h].response = "over"]
  /\ promise' = IF hops[h].response = "none" THEN Settled(Rejected) ELSE promise
  /\ UNCHANGED <<caller, replies, step>>

FaultyLostEnds(h) ==  \* the end of the connection is taken for that of the response
  /\ Open(h)
  /\ hops' = [hops EXCEPT ![h].response = "over"]
  /\ promise' = CASE hops[h].response = "none" -> Settled(Rejected)
                  [] hops[h].response = "redirect" -> promise
                  [] OTHER -> Settled([state |-> "resolved", status |-> hops[h].status,
                                       bytes |-> hops[h].bytes, whole |-> FALSE])
  /\ UNCHANGED <<caller, replies, step>>

(* The connection is lost: the request fails, or the response that is      *)
(* read; nobody listens to the response of a redirect.                     *)
Lost(h) ==
  /\ Open(h)
  /\ hops' = [hops EXCEPT ![h].response = "over"]
  /\ promise' = IF hops[h].response = "redirect" THEN promise ELSE Settled(Rejected)
  /\ UNCHANGED <<caller, replies, step>>

(* A hop's timer runs out, or its request was destroyed before: the error  *)
(* of the request rejects, also if it is the request of a redirect whose   *)
(* own body has not ended.                                                 *)
Timeout(h) ==
  /\ Open(h) \/ hops[h].response = "destroyed"
  /\ hops' = [hops EXCEPT ![h].response = "over"]
  /\ promise' = Settled(Rejected)
  /\ UNCHANGED <<caller, replies, step>>
-----------------------------------------------------------------------------
StatusCode(p) == IF p.status = 200 THEN 0 ELSE p.status

(* onResourceFetcher replies; a rejection, or a call of sendReply that     *)
(* throws, goes to the catch clause.                                       *)
Reply(throws) ==
  /\ caller = "fetch" /\ step = "waits" /\ promise # Pending
  /\ IF promise.state = "rejected" \/ throws
     THEN step' = "catch" /\ UNCHANGED replies
     ELSE step' = "over" /\ replies' = Append(replies, StatusCode(promise))
  /\ UNCHANGED <<caller, hops, promise>>

ReplyError(throws) ==
  /\ step = "catch" /\ step' = "over"
  /\ replies' = IF throws THEN replies ELSE Append(replies, 1)
  /\ UNCHANGED <<caller, hops, promise>>

HopEvent(h) == End(h) \/ Lost(h) \/ Timeout(h)
Answers == Data \/ \E status \in {200, 404} : Respond(status)

FetchNext ==
  \/ \E url \in Urls : OnResourceFetcher(url)
  \/ \E url \in Urls, m \in Methods, hs \in SUBSET HeaderKinds, b \in BOOLEAN :
       RequestHttpBuffer(url, m, hs, b)
  \/ \E found \in BOOLEAN : ReadFile(found)
  \/ \E status \in {301, 303, 307}, url \in Urls : Redirect(status, url)
  \/ Answers
  \/ \E h \in DOMAIN hops : HopEvent(h)
  \/ \E throws \in BOOLEAN : Reply(throws) \/ ReplyError(throws)

(* What the loop owes a fetch that has begun: the file is read, the last   *)
(* hop answers, fails or runs into its timer, and continuations run.       *)
FetchStep ==
  \/ \E found \in BOOLEAN : ReadFile(found)
  \/ hops # <<>> /\ (Answers \/ HopEvent(LastHop) \/
                     \E status \in {301, 303, 307}, url \in Urls : Redirect(status, url))
  \/ \E throws \in BOOLEAN : Reply(throws) \/ ReplyError(throws)

FetchSpec == FetchInit /\ [][FetchNext]_fetchVars /\ WF_fetchVars(FetchStep)
-----------------------------------------------------------------------------
(* prepareRedirect: along any chain of redirects, a credential is only     *)
(* sent while every hop so far was to the same server, and the headers of  *)
(* a body only while the method has not become GET; the chain is never     *)
(* longer than the limit.                                                  *)
RedirectsKeepToTheRules ==
  /\ Len(hops) <= RedirectLimit + 1
  /\ \A h \in DOMAIN hops :
       /\ "credential" \in hops[h].headers => \A g \in 1..h : hops[g].url = hops[h].url
       /\ hops[h].method # hops[1].method => "content" \notin hops[h].headers /\ ~hops[h].body
       /\ h > 1 => "host" \notin hops[h].headers

(* lynx-http-client.ts:180: whatever ends a response, and whichever event  *)
(* comes first, a promise that is resolved has the whole body of the last  *)
(* hop, unless the body was over the limit.                                *)
OnlyWholeBodies ==
  promise.state = "resolved" /\ hops # <<>> =>
    /\ promise.bytes <= MaxBytes
    /\ promise.status = hops[LastHop].status
    /\ promise.whole \/ promise.bytes = MaxBytes

(* lynx-resource-fetcher.ts:47: the catch clause is there for the replies  *)
(* that failed; no fetch is replied to twice.                              *)
OneReply == Len(replies) <= 1

(* A fetch follows only the redirects it may, and hands out one reply with *)
(* a body that is whole.                                                   *)
FetchIsSound == RedirectsKeepToTheRules /\ OnlyWholeBodies /\ OneReply

(* Whatever the server does or fails to do, a fetch comes to its end, for  *)
(* the page that waits for the resource.                                   *)
EveryFetchEnds == step # "idle" /\ caller = "fetch" ~> step = "over"
=============================================================================
