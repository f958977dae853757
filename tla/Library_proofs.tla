---------------------------- MODULE Library_proofs ---------------------------
(***************************************************************************)
(* Proofs about the parts of the library that stand alone: the fetch, the  *)
(* dialogs, the context bridge, the startup, the process singleton and the *)
(* menus, each for any values of its constants, by an inductive invariant  *)
(* of its own.                                                             *)
(***************************************************************************)
EXTENDS Fetch, Dialogs, ContextBridge, Startup, ProcessSingleton, Menus, MenuSort_proofs,
        SequenceTheorems, TLAPS
-----------------------------------------------------------------------------
(***************************************************************************)
(* Proof that a fetch is sound for any servers, methods, limit of the body *)
(* and limit of redirects.  FetchInv says, beyond the property, which hop  *)
(* may still settle the promise: the hops before the last one have handed  *)
(* it on, and a promise that is resolved was resolved by the last one.     *)
(***************************************************************************)
Responses == {"none", "reading", "redirect", "destroyed", "over"}
HopRecord ==
  [url : Urls, method : Methods \cup {"GET"}, headers : SUBSET HeaderKinds, body : BOOLEAN,
   response : Responses, status : Nat, bytes : 0..MaxBytes, more : BOOLEAN]
PromiseRecord ==
  [state : {"pending", "resolved", "rejected"}, status : Nat, bytes : Nat, whole : BOOLEAN]

FetchTypeOK ==
  /\ caller \in {"fetch", "request"}
  /\ hops \in Seq(HopRecord)
  /\ promise \in PromiseRecord
  /\ replies \in Seq(Nat)
  /\ step \in {"idle", "file", "waits", "catch", "over"}
  /\ step \in {"idle", "file"} => hops = <<>>

(* Only the last hop has a response of its own to hand out; what passed    *)
(* the limit left a full buffer.                                           *)
OlderAreRedirects ==
  \A h \in DOMAIN hops :
    /\ h < LastHop => hops[h].response \in {"redirect", "over"}
    /\ hops[h].more => hops[h].bytes = MaxBytes

(* A promise is resolved by the last hop, which is over then.              *)
LastResolves ==
  promise.state = "resolved" /\ hops # <<>> => hops[LastHop].response = "over"

(* A reply that returned ends the fetch.                                   *)
RepliesEnd == step # "over" => replies = <<>>

FetchInv ==
  FetchTypeOK /\ OlderAreRedirects /\ LastResolves /\ RepliesEnd /\ FetchIsSound
-----------------------------------------------------------------------------
(* The record of a hop that is put in the place of another.                *)
LEMMA PutHop ==
  ASSUME NEW s \in Seq(HopRecord), NEW h \in DOMAIN s, NEW r \in HopRecord
  PROVE  LET t == [s EXCEPT ![h] = r] IN
         /\ t \in Seq(HopRecord) /\ Len(t) = Len(s) /\ DOMAIN t = DOMAIN s
         /\ t[h] = r /\ \A g \in DOMAIN s : g # h => t[g] = s[g]
  OBVIOUS

(* What a hop has asked for does not change any more: the rules of the     *)
(* redirects are kept by a step that touches only responses.               *)
LEMMA SameRequests ==
  ASSUME RedirectsKeepToTheRules, hops \in Seq(HopRecord),
         hops' \in Seq(HopRecord), Len(hops') = Len(hops),
         \A h \in DOMAIN hops :
           /\ hops'[h].url = hops[h].url /\ hops'[h].method = hops[h].method
           /\ hops'[h].headers = hops[h].headers /\ hops'[h].body = hops[h].body
  PROVE  RedirectsKeepToTheRules'
  <1>1. DOMAIN hops' = DOMAIN hops /\ DOMAIN hops = 1..Len(hops)
    OBVIOUS
  <1>2. Len(hops') <= RedirectLimit + 1
    BY DEF RedirectsKeepToTheRules
  <1> SUFFICES ASSUME NEW h \in DOMAIN hops
      PROVE  /\ "credential" \in hops'[h].headers => \A g \in 1..h : hops'[g].url = hops'[h].url
             /\ hops'[h].method # hops'[1].method => "content" \notin hops'[h].headers /\ ~hops'[h].body
             /\ h > 1 => "host" \notin hops'[h].headers
    BY <1>1, <1>2 DEF RedirectsKeepToTheRules
  <1>3. 1 \in DOMAIN hops /\ \A g \in 1..h : g \in DOMAIN hops
    BY <1>1
  <1> QED BY <1>3 DEF RedirectsKeepToTheRules
-----------------------------------------------------------------------------
\* Before the first request there is nothing to settle.
LEMMA FetchInitInv == ASSUME FetchInit PROVE FetchInv
  BY FetchAssumption DEF FetchInit, FetchInv, FetchTypeOK, OlderAreRedirects, LastResolves,
     RepliesEnd, FetchIsSound, RedirectsKeepToTheRules, OnlyWholeBodies, OneReply, Pending,
     PromiseRecord

(* A request of one hop keeps to the rules.                                *)
LEMMA FirstHop ==
  ASSUME NEW url \in Origins, NEW m \in Methods \cup {"GET"}, NEW hs \in SUBSET HeaderKinds,
         NEW b \in BOOLEAN, hops' = <<Hop(url, m, hs, b)>>
  PROVE  hops' \in Seq(HopRecord) /\ OlderAreRedirects' /\ RedirectsKeepToTheRules'
  <1>1. Hop(url, m, hs, b) \in HopRecord
    BY FetchAssumption DEF Hop, HopRecord, Urls, Responses
  <1>2. /\ hops' \in Seq(HopRecord) /\ Len(hops') = 1 /\ DOMAIN hops' = {1}
        /\ hops'[1] = Hop(url, m, hs, b)
    BY <1>1
  <1>3. OlderAreRedirects'
    BY <1>2 DEF OlderAreRedirects, LastHop, Hop
  <1>4. RedirectsKeepToTheRules'
    BY <1>2, FetchAssumption DEF RedirectsKeepToTheRules, Hop
  <1> QED BY <1>2, <1>3, <1>4

\* Without a request there is none to break a rule.
LEMMA NoHop ==
  ASSUME hops' = <<>>
  PROVE  hops' \in Seq(HopRecord) /\ OlderAreRedirects' /\ RedirectsKeepToTheRules'
  BY FetchAssumption DEF OlderAreRedirects, RedirectsKeepToTheRules

\* What a promise may become.
LEMMA PromiseFacts ==
  /\ Pending \in PromiseRecord /\ Pending.state = "pending"
  /\ Rejected \in PromiseRecord /\ Rejected.state = "rejected"
  /\ \A n \in Nat :
       [Pending EXCEPT !.state = "resolved", !.status = n] \in PromiseRecord
  /\ [Pending EXCEPT !.state = "resolved"] \in PromiseRecord
  BY DEF Pending, Rejected, PromiseRecord

\* requestHttpBuffer begins a chain of one request or rejects its address.
LEMMA RequestStep ==
  ASSUME FetchInv, NEW url \in Urls, NEW m \in Methods, NEW hs \in SUBSET HeaderKinds,
         NEW b \in BOOLEAN, RequestHttpBuffer(url, m, hs, b)
  PROVE  FetchInv'
  <1> USE DEF RequestHttpBuffer, FetchInv
  <1>1. hops' \in Seq(HopRecord) /\ OlderAreRedirects' /\ RedirectsKeepToTheRules'
    BY FirstHop, NoHop
  <1>2. promise' \in PromiseRecord /\ promise'.state # "resolved"
    BY PromiseFacts
  <1>3. FetchTypeOK'
    BY <1>1, <1>2 DEF FetchTypeOK
  <1> QED
    BY <1>1, <1>2, <1>3 DEF LastResolves, RepliesEnd, FetchIsSound, OnlyWholeBodies, OneReply

\* The resource fetcher begins one too, or reads a file of the application.
LEMMA FetcherStep ==
  ASSUME FetchInv, NEW url \in Urls, OnResourceFetcher(url)
  PROVE  FetchInv'
  <1> USE DEF OnResourceFetcher, FetchInv
  <1>1. hops' \in Seq(HopRecord) /\ OlderAreRedirects' /\ RedirectsKeepToTheRules'
    BY FirstHop, NoHop
  <1>2. promise' \in PromiseRecord
    BY PromiseFacts
  <1>3. CASE url \in Origins
    <2>1. step' = "waits" /\ promise' = Pending
      BY <1>3, FetchAssumption
    <2> QED
      BY <1>1, <1>2, <2>1, PromiseFacts DEF FetchTypeOK, LastResolves, RepliesEnd, FetchIsSound,
         OnlyWholeBodies, OneReply
  <1>4. CASE url \notin Origins
    <2>1. hops' = <<>> /\ step' \in {"file", "waits", "catch"}
      BY <1>4
    <2> QED
      BY <1>1, <1>2, <2>1 DEF FetchTypeOK, LastResolves, RepliesEnd, FetchIsSound,
         OnlyWholeBodies, OneReply
  <1> QED BY <1>3, <1>4

\* A file is read or not.
LEMMA ReadFileStep ==
  ASSUME FetchInv, NEW found \in BOOLEAN, ReadFile(found)
  PROVE  FetchInv'
  <1>1. hops = <<>> /\ hops' = hops /\ step' \in {"waits", "catch"} /\ promise' \in PromiseRecord
    BY PromiseFacts DEF ReadFile, FetchInv, FetchTypeOK
  <1> QED
    BY <1>1, NoHop DEF ReadFile, FetchInv, FetchTypeOK, LastResolves, RepliesEnd, FetchIsSound,
       OnlyWholeBodies, OneReply
-----------------------------------------------------------------------------
(* A hop whose response goes on, is destroyed or is over, its request the  *)
(* same: what the invariant says of hops is kept, and so is the promise's  *)
(* part, if the promise is not resolved or the last hop is not touched.    *)
LEMMA PutResponse ==
  ASSUME FetchInv, NEW h \in DOMAIN hops, NEW r \in HopRecord,
         hops' = [hops EXCEPT ![h] = r],
         r.url = hops[h].url, r.method = hops[h].method, r.headers = hops[h].headers,
         r.body = hops[h].body,
         h < LastHop => r.response \in {"redirect", "over"},
         r.more => r.bytes = MaxBytes
  PROVE  /\ hops' \in Seq(HopRecord) /\ OlderAreRedirects' /\ RedirectsKeepToTheRules'
         /\ Len(hops') = Len(hops) /\ LastHop' = LastHop /\ hops' # <<>> /\ hops # <<>>
         /\ hops'[h] = r /\ \A g \in DOMAIN hops : g # h => hops'[g] = hops[g]
         /\ LastHop \in DOMAIN hops
  <1>1. hops \in Seq(HopRecord) /\ OlderAreRedirects /\ RedirectsKeepToTheRules
    BY DEF FetchInv, FetchTypeOK, FetchIsSound
  <1>2. /\ hops' \in Seq(HopRecord) /\ Len(hops') = Len(hops) /\ DOMAIN hops' = DOMAIN hops
        /\ hops'[h] = r /\ \A g \in DOMAIN hops : g # h => hops'[g] = hops[g]
    BY <1>1, PutHop
  <1>3. RedirectsKeepToTheRules'
    BY <1>1, <1>2, SameRequests
  <1>4. LastHop' = LastHop
    BY <1>2 DEF LastHop
  <1>5. OlderAreRedirects'
    BY <1>1, <1>2, <1>4 DEF OlderAreRedirects
  <1>6. hops # <<>> /\ hops' # <<>> /\ LastHop \in DOMAIN hops
    BY <1>1, <1>2 DEF LastHop
  <1> QED BY <1>2, <1>3, <1>4, <1>5, <1>6

(* The steps in which nothing settles the promise or the last hop rejects  *)
(* it: no more is asked of it then.                                        *)
LEMMA KeepsPromise ==
  ASSUME FetchInv, hops' \in Seq(HopRecord), OlderAreRedirects', RedirectsKeepToTheRules',
         hops # <<>>, UNCHANGED <<caller, replies, step>>,
         promise' \in {promise, Settled(Rejected)},
         promise.state = "resolved" =>
           /\ Len(hops') = Len(hops)
           /\ hops'[LastHop].response = hops[LastHop].response
           /\ hops'[LastHop].status = hops[LastHop].status
  PROVE  FetchInv'
  <1>1. /\ promise' \in PromiseRecord
        /\ promise'.state = "resolved" => promise' = promise
    BY PromiseFacts DEF Settled, FetchInv, FetchTypeOK
  <1>2. FetchTypeOK'
    BY <1>1 DEF FetchInv, FetchTypeOK
  <1>3. promise'.state = "resolved" =>
          /\ LastHop' = LastHop /\ hops'[LastHop].response = "over"
          /\ promise'.bytes <= MaxBytes /\ promise'.status = hops'[LastHop].status
          /\ promise'.whole \/ promise'.bytes = MaxBytes
    BY <1>1 DEF FetchInv, LastResolves, FetchIsSound, OnlyWholeBodies, LastHop
  <1>4. LastResolves' /\ OnlyWholeBodies'
    BY <1>3 DEF LastResolves, OnlyWholeBodies
  <1>5. RepliesEnd' /\ OneReply'
    BY DEF FetchInv, RepliesEnd, FetchIsSound, OneReply
  <1> QED BY <1>2, <1>4, <1>5 DEF FetchInv, FetchIsSound

\* The last hop of a chain is one of its requests.
LEMMA LastHopIsAHop ==
  ASSUME FetchInv, hops # <<>>
  PROVE  LastHop \in DOMAIN hops /\ hops[LastHop] \in HopRecord
  BY DEF FetchInv, FetchTypeOK, LastHop

\* The headers of the response arrive.
LEMMA RespondStep ==
  ASSUME FetchInv, NEW status \in {200, 404}, Respond(status)
  PROVE  FetchInv'
  <1> DEFINE r == [[hops[LastHop] EXCEPT !.response = "reading"] EXCEPT !.status = status]
  <1>1. LastHop \in DOMAIN hops /\ hops[LastHop] \in HopRecord /\ hops # <<>>
    BY LastHopIsAHop DEF Respond
  <1>2. r \in HopRecord
    <2>1. status \in Nat /\ "reading" \in Responses
      BY DEF Responses
    <2> DEFINE x == hops[LastHop]
    <2>2. x \in HopRecord
      BY <1>1
    <2>3. r = [[x EXCEPT !.response = "reading"] EXCEPT !.status = status]
      OBVIOUS
    <2> HIDE DEF x, r
    <2> QED BY <2>1, <2>2, <2>3 DEF HopRecord
  <1>3. /\ r.url = hops[LastHop].url /\ r.method = hops[LastHop].method
        /\ r.headers = hops[LastHop].headers /\ r.body = hops[LastHop].body
        /\ r.more = hops[LastHop].more /\ r.bytes = hops[LastHop].bytes
    BY <1>1 DEF HopRecord
  <1>4. hops' = [hops EXCEPT ![LastHop] = r]
    BY <1>1 DEF Respond
  <1>5. r.more => r.bytes = MaxBytes
    BY <1>1, <1>3 DEF FetchInv, OlderAreRedirects
  <1>6. ~(LastHop < LastHop)
    BY DEF LastHop, FetchInv, FetchTypeOK
  <1> HIDE DEF r
  <1>7. /\ hops' \in Seq(HopRecord) /\ OlderAreRedirects' /\ RedirectsKeepToTheRules'
    BY <1>1, <1>2, <1>3, <1>4, <1>5, <1>6, PutResponse
  <1>8. promise.state # "resolved"
    BY <1>1 DEF Respond, FetchInv, LastResolves
  <1>9. UNCHANGED <<caller, replies, step>> /\ promise' = promise
    BY DEF Respond
  <1> QED
    BY <1>1, <1>7, <1>8, <1>9, KeepsPromise

\* A chunk arrives, and the body may be too large with it.
LEMMA DataStep ==
  ASSUME FetchInv, Data
  PROVE  FetchInv'
  <1> DEFINE full == hops[LastHop].bytes + 1 > MaxBytes
             r == IF full THEN [hops[LastHop] EXCEPT !.response = "destroyed", !.more = TRUE]
                  ELSE [hops[LastHop] EXCEPT !.bytes = @ + 1]
  <1>1. /\ LastHop \in DOMAIN hops /\ hops[LastHop] \in HopRecord /\ hops # <<>>
        /\ hops[LastHop].bytes \in 0..MaxBytes
    BY LastHopIsAHop DEF Data, HopRecord
  <1>2. r \in HopRecord
    <2>1. CASE full
      BY <2>1, <1>1 DEF HopRecord, Responses
    <2>2. CASE ~full
      <3>1. hops[LastHop].bytes + 1 \in 0..MaxBytes
        BY <2>2, <1>1, FetchAssumption
      <3> QED BY <2>2, <3>1, <1>1 DEF HopRecord
    <2> QED BY <2>1, <2>2
  <1>3. /\ r.url = hops[LastHop].url /\ r.method = hops[LastHop].method
        /\ r.headers = hops[LastHop].headers /\ r.body = hops[LastHop].body
    BY <1>1 DEF HopRecord
  <1>4. hops' = [hops EXCEPT ![LastHop] = r]
    BY DEF Data
  <1>5. r.more => r.bytes = MaxBytes
    <2>1. hops[LastHop].more => hops[LastHop].bytes = MaxBytes
      BY <1>1 DEF FetchInv, OlderAreRedirects
    <2>2. CASE full
      BY <2>2, <1>1, FetchAssumption DEF HopRecord
    <2>3. CASE ~full
      BY <2>1, <2>3, <1>1, FetchAssumption DEF HopRecord
    <2> QED BY <2>2, <2>3
  <1>6. ~(LastHop < LastHop)
    BY DEF LastHop, FetchInv, FetchTypeOK
  <1> HIDE DEF r
  <1>7. /\ hops' \in Seq(HopRecord) /\ OlderAreRedirects' /\ RedirectsKeepToTheRules'
    BY <1>1, <1>2, <1>3, <1>4, <1>5, <1>6, PutResponse
  <1>8. promise.state # "resolved"
    BY <1>1 DEF Data, FetchInv, LastResolves
  <1>9. UNCHANGED <<caller, replies, step>> /\ promise' = promise
    BY DEF Data
  <1> QED
    BY <1>1, <1>7, <1>8, <1>9, KeepsPromise

(* A hop that is over: what ends it, an end, an error or its timer.        *)
LEMMA HopIsOver ==
  ASSUME FetchInv, NEW h \in DOMAIN hops, hops' = [hops EXCEPT ![h].response = "over"]
  PROVE  /\ hops' \in Seq(HopRecord) /\ OlderAreRedirects' /\ RedirectsKeepToTheRules'
         /\ Len(hops') = Len(hops) /\ hops # <<>> /\ hops' # <<>> /\ LastHop' = LastHop
         /\ LastHop \in DOMAIN hops
         /\ hops'[h].response = "over" /\ hops'[h].status = hops[h].status
         /\ hops'[h].bytes = hops[h].bytes
         /\ \A g \in DOMAIN hops : g # h => hops'[g] = hops[g]
  <1> DEFINE r == [hops[h] EXCEPT !.response = "over"]
  <1>1. hops[h] \in HopRecord
    BY DEF FetchInv, FetchTypeOK
  <1>2. r \in HopRecord
    BY <1>1 DEF HopRecord, Responses
  <1>3. /\ r.url = hops[h].url /\ r.method = hops[h].method /\ r.response = "over"
        /\ r.headers = hops[h].headers /\ r.body = hops[h].body /\ r.status = hops[h].status
        /\ r.more = hops[h].more /\ r.bytes = hops[h].bytes
    BY <1>1 DEF HopRecord
  <1>4. r.more => r.bytes = MaxBytes
    BY <1>3 DEF FetchInv, OlderAreRedirects
  <1>5. hops' = [hops EXCEPT ![h] = r]
    OBVIOUS
  <1> HIDE DEF r
  <1> QED
    BY <1>2, <1>3, <1>4, <1>5, PutResponse

(* Lost and Timeout: the promise is as before, or rejected if it was not   *)
(* settled.                                                                *)
LEMMA FailureStep ==
  ASSUME FetchInv, NEW h \in DOMAIN hops, Lost(h) \/ Timeout(h)
  PROVE  FetchInv'
  <1>1. /\ hops' = [hops EXCEPT ![h].response = "over"]
        /\ promise' \in {promise, Settled(Rejected)}
        /\ UNCHANGED <<caller, replies, step>>
    BY DEF Lost, Timeout
  <1>2. promise.state = "resolved" /\ hops # <<>> => hops[LastHop].response = "over"
    BY DEF FetchInv, LastResolves
  <1>3. /\ hops'[LastHop].status = hops[LastHop].status
        /\ hops[LastHop].response = "over" => hops'[LastHop].response = "over"
    BY <1>1, HopIsOver
  <1> QED
    BY <1>1, <1>2, <1>3, HopIsOver, KeepsPromise

(* The end of a response resolves the promise when it is that of the last  *)
(* hop, for the older ones were redirects.                                 *)
LEMMA EndStep ==
  ASSUME FetchInv, NEW h \in DOMAIN hops, End(h)
  PROVE  FetchInv'
  <1>1. hops[h] \in HopRecord /\ UNCHANGED <<caller, replies, step>>
    BY DEF End, FetchInv, FetchTypeOK
  <1>2. hops' = [hops EXCEPT ![h].response = "over"]
    BY DEF End
  <1>3. /\ hops' \in Seq(HopRecord) /\ OlderAreRedirects' /\ RedirectsKeepToTheRules'
        /\ Len(hops') = Len(hops) /\ hops # <<>> /\ LastHop' = LastHop
    BY <1>2, HopIsOver
  <1>4. CASE promise' \in {promise, Settled(Rejected)}
    <2>1. promise.state = "resolved" => hops[LastHop].response = "over"
      BY <1>3 DEF FetchInv, LastResolves
    <2>2. /\ hops'[LastHop].status = hops[LastHop].status
          /\ hops[LastHop].response = "over" => hops'[LastHop].response = "over"
      BY <1>2, HopIsOver
    <2> QED BY <1>1, <1>3, <1>4, <2>1, <2>2, KeepsPromise
  <1>5. CASE promise' \notin {promise, Settled(Rejected)}
    <2> DEFINE done == [state |-> "resolved", status |-> hops[h].status,
                        bytes |-> hops[h].bytes, whole |-> ~hops[h].more]
    <2>1. promise' = done /\ hops[h].response # "redirect" /\ hops[h].response # "over"
      BY <1>5 DEF End, Settled
    <2>2. h = LastHop
      <3>1. ~(h < LastHop)
        BY <2>1 DEF FetchInv, OlderAreRedirects
      <3>2. h \in 1..LastHop /\ LastHop \in Nat
        BY DEF FetchInv, FetchTypeOK, LastHop
      <3> QED BY <3>1, <3>2
    <2>3. done \in PromiseRecord
      BY <1>1, FetchAssumption DEF HopRecord, PromiseRecord
    <2>4. FetchTypeOK'
      BY <1>1, <1>3, <2>1, <2>3 DEF FetchTypeOK, FetchInv
    <2>5. LastResolves'
      BY <1>2, <1>3, <2>2, HopIsOver DEF LastResolves
    <2>6. OnlyWholeBodies'
      <3>1. hops'[LastHop].status = hops[h].status
        BY <1>2, <2>2, HopIsOver
      <3>2. hops[h].bytes <= MaxBytes /\ hops[h].bytes \in Nat /\ hops[h].more \in BOOLEAN
        BY <1>1, FetchAssumption DEF HopRecord
      <3>3. hops[h].more => hops[h].bytes = MaxBytes
        BY DEF FetchInv, OlderAreRedirects
      <3> QED BY <1>3, <2>1, <3>1, <3>2, <3>3 DEF OnlyWholeBodies
    <2> QED
      BY <1>1, <1>3, <2>4, <2>5, <2>6 DEF FetchInv, RepliesEnd, FetchIsSound, OneReply
  <1> QED BY <1>4, <1>5

(* A redirect that is not followed rejects; the hop of one that is keeps   *)
(* to the rules because the hop before it does.                            *)
LEMMA RedirectStep ==
  ASSUME FetchInv, NEW status \in {301, 303, 307}, NEW url \in Urls, Redirect(status, url)
  PROVE  FetchInv'
  <1> DEFINE r == [hops[LastHop] EXCEPT !.response = "redirect"]
             redirected == [hops EXCEPT ![LastHop] = r]
             next == PrepareRedirect(status, hops[LastHop], url)
  <1>1. /\ LastHop \in DOMAIN hops /\ hops[LastHop] \in HopRecord /\ hops # <<>>
        /\ LastHop = Len(hops) /\ hops \in Seq(HopRecord)
        /\ hops[LastHop].response = "none"
    BY LastHopIsAHop DEF Redirect, LastHop, FetchInv, FetchTypeOK
  <1>2. r \in HopRecord
    BY <1>1 DEF HopRecord, Responses
  <1>3. /\ r.url = hops[LastHop].url /\ r.method = hops[LastHop].method
        /\ r.headers = hops[LastHop].headers /\ r.body = hops[LastHop].body
        /\ r.more = hops[LastHop].more /\ r.bytes = hops[LastHop].bytes
        /\ r.response = "redirect"
    BY <1>1 DEF HopRecord
  <1>4. r.more => r.bytes = MaxBytes
    BY <1>1, <1>3 DEF FetchInv, OlderAreRedirects
  <1>5. promise.state # "resolved"
    BY <1>1 DEF FetchInv, LastResolves
  <1>6. UNCHANGED <<caller, replies, step>>
    BY DEF Redirect
  <1>7. CASE hops' = redirected /\ promise' = Settled(Rejected)
    <2>1. hops' = [hops EXCEPT ![LastHop] = r]
      BY <1>7
    <2> HIDE DEF r
    <2>2. hops' \in Seq(HopRecord) /\ OlderAreRedirects' /\ RedirectsKeepToTheRules'
      BY <1>1, <1>2, <1>3, <1>4, <2>1, PutResponse
    <2> QED BY <1>1, <1>5, <1>6, <1>7, <2>2, KeepsPromise
  <1>8. CASE /\ LastHop <= RedirectLimit /\ url \in Origins
             /\ hops' = Append(redirected, next) /\ promise' = promise
    <2> DEFINE old == hops[LastHop]
    <2>1. /\ next \in HopRecord /\ next.url = url /\ ~next.more
          /\ next.headers \subseteq old.headers \ {"host"}
          /\ "credential" \in next.headers => url = old.url
          /\ next.body => old.body
          /\ next.method = old.method \/ ("content" \notin next.headers /\ ~next.body)
      <3> DEFINE get == \/ status = 303 /\ old.method # "HEAD"
                        \/ status \in {301, 302} /\ old.method = "POST"
                 kept == old.headers \ ({"host"} \cup (IF get THEN {"content"} ELSE {})
                            \cup (IF url # old.url THEN {"credential"} ELSE {}))
      <3>1. next = Hop(url, IF get THEN "GET" ELSE old.method, kept, old.body /\ ~get)
        BY DEF PrepareRedirect
      <3>2. /\ old.headers \subseteq HeaderKinds /\ old.body \in BOOLEAN
            /\ old.method \in Methods \cup {"GET"} /\ url \in Urls
        BY <1>1 DEF HopRecord
      <3>3. /\ kept \subseteq old.headers \ {"host"}
            /\ "credential" \in kept => url = old.url
            /\ get => "content" \notin kept
        OBVIOUS
      <3> HIDE DEF get, kept, old
      <3>4. /\ next.url = url /\ next.headers = kept /\ next.body = (old.body /\ ~get)
            /\ next.method = (IF get THEN "GET" ELSE old.method) /\ next.more = FALSE
        BY <3>1 DEF Hop
      <3>5. next \in HopRecord
        BY <3>1, <3>2, <3>3, FetchAssumption DEF Hop, HopRecord, Responses
      <3> HIDE DEF next
      <3> QED BY <3>2, <3>3, <3>4, <3>5, ZenonT(40)
    <2>2. /\ redirected \in Seq(HopRecord) /\ Len(redirected) = LastHop
          /\ redirected[LastHop] = r
          /\ \A g \in DOMAIN hops : g # LastHop => redirected[g] = hops[g]
      <3> HIDE DEF r
      <3> QED BY <1>1, <1>2, PutHop
    <2> HIDE DEF r, redirected, next
    <2>3. /\ hops' \in Seq(HopRecord) /\ Len(hops') = LastHop + 1 /\ LastHop \in Nat
          /\ hops'[LastHop + 1] = next /\ hops'[LastHop] = r
          /\ \A g \in 1..(LastHop - 1) : hops'[g] = hops[g]
          /\ DOMAIN hops' = 1..(LastHop + 1) /\ DOMAIN hops = 1..LastHop
      BY <1>1, <1>8, <2>1, <2>2
    <2>4. OlderAreRedirects'
      BY <1>3, <1>4, <2>1, <2>3 DEF FetchInv, OlderAreRedirects, LastHop
    <2>5. \A g \in 1..LastHop :
            /\ hops'[g].url = hops[g].url /\ hops'[g].method = hops[g].method
            /\ hops'[g].headers = hops[g].headers /\ hops'[g].body = hops[g].body
      BY <1>3, <2>3
    <2>6. RedirectsKeepToTheRules'
      <3>1. RedirectsKeepToTheRules
        BY DEF FetchInv, FetchIsSound
      <3>2. Len(hops') <= RedirectLimit + 1
        BY <1>8, <2>3, FetchAssumption
      <3>3. ASSUME NEW h \in 1..LastHop
            PROVE  /\ "credential" \in hops'[h].headers => \A g \in 1..h : hops'[g].url = hops'[h].url
                   /\ hops'[h].method # hops'[1].method => "content" \notin hops'[h].headers /\ ~hops'[h].body
                   /\ h > 1 => "host" \notin hops'[h].headers
        <4>1. 1 \in 1..LastHop /\ \A g \in 1..h : g \in 1..LastHop
          BY <2>3
        <4> QED BY <2>3, <2>5, <3>1, <4>1 DEF RedirectsKeepToTheRules
      <3>4. /\ "credential" \in next.headers => \A g \in 1..(LastHop + 1) : hops'[g].url = url
            /\ next.method # hops'[1].method => "content" \notin next.headers /\ ~next.body
            /\ "host" \notin next.headers
        <4>1. LastHop \in 1..LastHop /\ 1 \in 1..LastHop
          BY <1>1, <2>3
        <4>2. "credential" \in old.headers => \A g \in 1..LastHop : hops[g].url = old.url
          BY <2>3, <3>1, <4>1 DEF RedirectsKeepToTheRules
        <4>3. old.method # hops[1].method => "content" \notin old.headers /\ ~old.body
          BY <2>3, <3>1, <4>1 DEF RedirectsKeepToTheRules
        <4>4. hops'[1].method = hops[1].method
          BY <2>5, <4>1
        <4>5. "credential" \in next.headers => \A g \in 1..(LastHop + 1) : hops'[g].url = url
          <5> SUFFICES ASSUME "credential" \in next.headers, NEW g \in 1..(LastHop + 1)
              PROVE  hops'[g].url = url
            OBVIOUS
          <5>1. CASE g = LastHop + 1
            BY <5>1, <2>1, <2>3
          <5>2. CASE g \in 1..LastHop
            BY <5>2, <2>1, <2>5, <4>2
          <5> QED BY <5>1, <5>2, <2>3
        <4> QED BY <2>1, <4>3, <4>4, <4>5
      <3>5. ASSUME NEW h \in DOMAIN hops', h \notin 1..LastHop
            PROVE  h = LastHop + 1
        BY <2>3, <3>5
      <3> QED BY <2>1, <2>3, <3>2, <3>3, <3>4, <3>5 DEF RedirectsKeepToTheRules
    <2> QED BY <1>1, <1>5, <1>6, <1>8, <2>3, <2>4, <2>6, KeepsPromise
  <1>9. \/ hops' = redirected /\ promise' = Settled(Rejected)
        \/ /\ LastHop <= RedirectLimit /\ url \in Origins
           /\ hops' = Append(redirected, next) /\ promise' = promise
    BY <1>1, FetchAssumption DEF Redirect
  <1> QED BY <1>7, <1>8, <1>9
-----------------------------------------------------------------------------
(* The answers to the page: the fetch is over with the one that returned.  *)
LEMMA ReplyStep ==
  ASSUME FetchInv, NEW throws \in BOOLEAN, Reply(throws) \/ ReplyError(throws)
  PROVE  FetchInv'
  <1>1. UNCHANGED <<caller, hops, promise>> /\ replies = <<>>
    BY DEF Reply, ReplyError, FetchInv, RepliesEnd
  <1>2. StatusCode(promise) \in Nat
    BY DEF StatusCode, FetchInv, FetchTypeOK, PromiseRecord
  <1>3. /\ step' \in {"catch", "over"}
        /\ replies' = <<>> \/ (step' = "over" /\ \E n \in Nat : replies' = Append(<<>>, n))
    BY <1>1, <1>2 DEF Reply, ReplyError
  <1>4. replies' \in Seq(Nat) /\ Len(replies') <= 1
    <2>1. CASE replies' = <<>>
      BY <2>1
    <2>2. CASE \E n \in Nat : replies' = Append(<<>>, n)
      <3>1. PICK n \in Nat : replies' = Append(<<>>, n)
        BY <2>2
      <3> QED BY <3>1
    <2> QED BY <1>3, <2>1, <2>2
  <1>5. FetchTypeOK' /\ OlderAreRedirects' /\ LastResolves' /\ RedirectsKeepToTheRules' /\ OnlyWholeBodies'
    BY <1>1, <1>3, <1>4 DEF FetchInv, FetchTypeOK, OlderAreRedirects, LastResolves, FetchIsSound,
       RedirectsKeepToTheRules, OnlyWholeBodies, LastHop
  <1> QED BY <1>3, <1>4, <1>5 DEF FetchInv, RepliesEnd, FetchIsSound, OneReply

\* Every step keeps the invariant.
LEMMA FetchNextInv == ASSUME FetchInv, [FetchNext]_fetchVars PROVE FetchInv'
  <1>1. CASE UNCHANGED fetchVars
    BY <1>1 DEF fetchVars, FetchInv, FetchTypeOK, OlderAreRedirects, LastResolves, RepliesEnd,
       FetchIsSound, RedirectsKeepToTheRules, OnlyWholeBodies, OneReply, LastHop
  <1>2. CASE \E url \in Urls : OnResourceFetcher(url)
    BY <1>2, FetcherStep
  <1>3. CASE \E url \in Urls, m \in Methods, hs \in SUBSET HeaderKinds, b \in BOOLEAN :
               RequestHttpBuffer(url, m, hs, b)
    BY <1>3, RequestStep
  <1>4. CASE \E found \in BOOLEAN : ReadFile(found)
    BY <1>4, ReadFileStep
  <1>5. CASE \E status \in {301, 303, 307}, url \in Urls : Redirect(status, url)
    BY <1>5, RedirectStep
  <1>6. CASE Answers
    BY <1>6, DataStep, RespondStep DEF Answers
  <1>7. CASE \E h \in DOMAIN hops : HopEvent(h)
    BY <1>7, EndStep, FailureStep DEF HopEvent
  <1>8. CASE \E throws \in BOOLEAN : Reply(throws) \/ ReplyError(throws)
    BY <1>8, ReplyStep
  <1> QED BY <1>1, <1>2, <1>3, <1>4, <1>5, <1>6, <1>7, <1>8 DEF FetchNext

(* However many hops, servers and answers: a fetch follows its redirects   *)
(* by the rules, resolves with a whole body only, and replies once         *)
(* (lynx-http-client.ts, lynx-resource-fetcher.ts).                        *)
THEOREM FetchSound == FetchSpec => []FetchIsSound
  <1>1. FetchInit => FetchInv
    BY FetchInitInv
  <1>2. FetchInv /\ [FetchNext]_fetchVars => FetchInv'
    BY FetchNextInv
  <1>3. FetchInv => FetchIsSound
    BY DEF FetchInv
  <1> QED BY <1>1, <1>2, <1>3, PTL DEF FetchSpec
-----------------------------------------------------------------------------
(***************************************************************************)
(* Dialogs, for any signals, options and number of boxes: an abort closes  *)
(* the boxes of its signal only, as if they were cancelled.                *)
(*                                                                         *)
(* DialogsInv says that the id in a listener leads, while its box is shown *)
(* on the native side, to a box of the listener's signal; ids are not used *)
(* twice, so what a listener keeps of an earlier box leads nowhere.        *)
(***************************************************************************)
BoxFields ==
  {"kind", "buttons", "noLink", "cancelId", "signal", "id", "thread", "hwnd", "closing",
   "byUser", "answer", "settled"}

\* A box is only told to close by its signal; one that the user did not answer was cancelled.
BoxOK(x, gone) ==
  /\ DOMAIN x = BoxFields
  /\ x.closing \/ x.hwnd = "cancel" => x.signal \in gone
  /\ x.settled => x.thread \in {"over", "never"}
  /\ x.thread \in {"answered", "over"} /\ ~x.byUser =>
       x.answer = Cancelled(x) /\ x.signal \in gone

IdsLeadToTheirBox ==
  /\ nextId \in Nat
  /\ \A i \in DOMAIN dialogsMap : i \in 1..nextId /\ dialogsMap[i] \in DOMAIN boxes
  /\ \A l \in listeners :
       /\ l[2] \in 1..nextId
       /\ l[2] \in DOMAIN dialogsMap => boxes[dialogsMap[l[2]]].signal = l[1]

DialogsInv ==
  /\ \E S : boxes \in Seq(S)
  /\ \A b \in DOMAIN boxes : BoxOK(boxes[b], aborted)
  /\ IdsLeadToTheirBox
  /\ ~misused

\* A new dialog comes after the others.
LEMMA AppendedBox ==
  ASSUME DialogsInv, NEW x, boxes' = Append(boxes, x)
  PROVE  /\ \E S : boxes' \in Seq(S)
         /\ Len(boxes) + 1 \notin DOMAIN boxes
         /\ DOMAIN boxes' = DOMAIN boxes \cup {Len(boxes) + 1}
         /\ boxes'[Len(boxes) + 1] = x
         /\ \A b \in DOMAIN boxes : boxes'[b] = boxes[b]
<1>1. PICK S : boxes \in Seq(S)
  BY DEF DialogsInv
<1>2. boxes \in Seq(S \cup {x})
  BY <1>1, SeqMonotonic
<1>. DEFINE n == Len(boxes)
<1>3. /\ boxes' \in Seq(S \cup {x}) /\ n \in Nat /\ DOMAIN boxes = 1..n
      /\ DOMAIN boxes' = 1..(n + 1) /\ boxes'[n + 1] = x
      /\ \A b \in 1..n : boxes'[b] = boxes[b]
  BY <1>2
<1>. HIDE DEF n
<1>4. 1..(n + 1) = 1..n \cup {n + 1} /\ n + 1 \notin 1..n
  BY <1>3
<1>. QED  BY <1>3, <1>4 DEF n

\* A step of one dialog.
LEMMA ChangedBox ==
  ASSUME DialogsInv, NEW b \in DOMAIN boxes, NEW x, boxes' = [boxes EXCEPT ![b] = x]
  PROVE  /\ \E S : boxes' \in Seq(S)
         /\ DOMAIN boxes' = DOMAIN boxes
         /\ boxes'[b] = x
         /\ \A c \in DOMAIN boxes \ {b} : boxes'[c] = boxes[c]
<1>1. PICK S : boxes \in Seq(S)
  BY DEF DialogsInv
<1>2. boxes \in Seq(S \cup {x}) /\ x \in S \cup {x}
  BY <1>1, SeqMonotonic
<1>3. boxes' \in Seq(S \cup {x})
  BY <1>2, ExceptSeq
<1>. QED  BY <1>3

\* Every dialog starts open and unanswered.
LEMMA NewBox ==
  ASSUME NEW o, NEW signal, NEW id, NEW x, x = Box(o, signal, id)
  PROVE  /\ DOMAIN x = BoxFields /\ x.signal = signal /\ x.hwnd = "reserved"
         /\ x.closing = FALSE /\ x.thread = "starts" /\ x.settled = FALSE
  BY DEF Box, BoxFields

\* A box that is added keeps the others right.
LEMMA AddedBox ==
  ASSUME DialogsInv, NEW x, boxes' = Append(boxes, x), BoxOK(x, aborted),
         UNCHANGED <<aborted, misused>>, IdsLeadToTheirBox'
  PROVE  DialogsInv'
<1>1. \A b \in DOMAIN boxes' : BoxOK(boxes'[b], aborted)
  BY AppendedBox DEF DialogsInv
<1>2. \A b \in DOMAIN boxes' : BoxOK(boxes'[b], aborted')
  BY <1>1
<1>3. \E S : boxes' \in Seq(S)
  BY AppendedBox
<1>. QED  BY <1>2, <1>3 DEF DialogsInv

LEMMA FileDialogKeeps ==
  ASSUME DialogsInv, NEW kind, FileDialog(kind)
  PROVE  DialogsInv'
<1>. DEFINE o == [buttons |-> <<>>, defaultId |-> -1, cancelId |-> -1, noLink |-> FALSE]
            y == Box(o, NoSignal, 0)
            x == [y EXCEPT !.kind = kind]
<1>1. boxes' = Append(boxes, x) /\ UNCHANGED <<aborted, nextId, listeners, dialogsMap, misused>>
  BY DEF FileDialog
<1>2. /\ DOMAIN y = BoxFields /\ y.hwnd = "reserved" /\ y.closing = FALSE
      /\ y.thread = "starts" /\ y.settled = FALSE
  <2>. HIDE DEF o
  <2>. QED  BY DEF Box, BoxFields
<1>. HIDE DEF y
<1>3. BoxOK(x, aborted)
  BY <1>2 DEF BoxOK, BoxFields
<1>. HIDE DEF x
<1>4. IdsLeadToTheirBox'
  BY <1>1, AppendedBox DEF DialogsInv, IdsLeadToTheirBox
<1>. QED  BY <1>1, <1>3, <1>4, AddedBox

LEMMA MessageBoxKeeps ==
  ASSUME DialogsInv, NEW o, NEW signal, MessageBox(o, signal)
  PROVE  DialogsInv'
<1>. DEFINE id == IF signal = NoSignal THEN 0 ELSE nextId + 1
            x == Box(o, signal, id)
            y == [x EXCEPT !.thread = "never", !.settled = TRUE]
<1>1. /\ DOMAIN x = BoxFields /\ x.signal = signal /\ x.hwnd = "reserved" /\ x.closing = FALSE
      /\ x.thread = "starts" /\ x.settled = FALSE
  <2>. HIDE DEF id
  <2>. QED  BY DEF Box, BoxFields
<1>2. /\ UNCHANGED <<aborted, misused>>
      /\ nextId' = IF id = 0 THEN nextId ELSE id
      /\ nextId \in Nat /\ nextId' \in Nat
      /\ id # 0 => id = nextId + 1
  BY DEF MessageBox, DialogsInv, IdsLeadToTheirBox
<1>3. /\ \A i \in 1..nextId : i \in 1..nextId' /\ i # id
      /\ id # 0 => id \in 1..nextId'
  BY <1>2
<1>4. CASE signal \in aborted
  <2>1. boxes' = Append(boxes, y) /\ UNCHANGED <<listeners, dialogsMap>>
    BY <1>4 DEF MessageBox
  <2>. HIDE DEF x, id
  <2>2. BoxOK(y, aborted)
    BY <1>1, <1>4 DEF BoxFields, BoxOK
  <2>. HIDE DEF y
  <2>3. IdsLeadToTheirBox'
    BY <1>2, <1>3, <2>1, AppendedBox DEF DialogsInv, IdsLeadToTheirBox
  <2>. QED  BY <1>2, <2>1, <2>2, <2>3, AddedBox
<1>5. CASE signal \notin aborted
  <2>1. /\ boxes' = Append(boxes, x)
        /\ listeners' = IF id = 0 THEN listeners ELSE listeners \cup {<<signal, id>>}
        /\ dialogsMap' = IF id = 0 THEN dialogsMap
                         ELSE [i \in DOMAIN dialogsMap \cup {id} |->
                                 IF i = id THEN Len(boxes) + 1 ELSE dialogsMap[i]]
    BY <1>5 DEF MessageBox
  <2>. HIDE DEF x, y, id
  <2>2. BoxOK(x, aborted)
    BY <1>1 DEF BoxOK
  <2>3. IdsLeadToTheirBox'
    <3>1. /\ DOMAIN boxes' = DOMAIN boxes \cup {Len(boxes) + 1}
          /\ boxes'[Len(boxes) + 1].signal = signal
          /\ \A b \in DOMAIN boxes : boxes'[b] = boxes[b]
          /\ Len(boxes) + 1 \notin DOMAIN boxes
      BY <1>1, <2>1, AppendedBox
    <3>2. CASE id = 0
      BY <1>2, <2>1, <3>1, <3>2 DEF DialogsInv, IdsLeadToTheirBox
    <3>3. CASE id # 0
      <4>1. /\ DOMAIN dialogsMap' = DOMAIN dialogsMap \cup {id}
            /\ dialogsMap'[id] = Len(boxes) + 1
            /\ \A i \in DOMAIN dialogsMap : i # id => dialogsMap'[i] = dialogsMap[i]
            /\ listeners' = listeners \cup {<<signal, id>>}
        BY <2>1, <3>3
      <4>2. \A i \in DOMAIN dialogsMap' : i \in 1..nextId' /\ dialogsMap'[i] \in DOMAIN boxes'
        BY <1>3, <3>1, <3>3, <4>1 DEF DialogsInv, IdsLeadToTheirBox
      <4>3. ASSUME NEW l \in listeners
            PROVE  /\ l[2] \in 1..nextId'
                   /\ l[2] \in DOMAIN dialogsMap' => boxes'[dialogsMap'[l[2]]].signal = l[1]
        BY <1>3, <3>1, <4>1 DEF DialogsInv, IdsLeadToTheirBox
      <4>4. /\ <<signal, id>>[1] = signal /\ <<signal, id>>[2] = id
        OBVIOUS
      <4>5. \A l \in listeners' :
              /\ l[2] \in 1..nextId'
              /\ l[2] \in DOMAIN dialogsMap' => boxes'[dialogsMap'[l[2]]].signal = l[1]
        BY <1>3, <3>1, <3>3, <4>1, <4>3, <4>4
      <4>. QED  BY <1>2, <4>2, <4>5 DEF IdsLeadToTheirBox
    <3>. QED  BY <3>2, <3>3
  <2>. QED  BY <1>2, <2>1, <2>2, <2>3, AddedBox
<1>. QED  BY <1>4, <1>5

\* Only boxes of the signal are closed, and those were not closed before.
LEMMA AbortKeeps ==
  ASSUME DialogsInv, NEW signal, Abort(signal)
  PROVE  DialogsInv'
<1>. DEFINE closed == {dialogsMap[l[2]] : l \in {x \in listeners :
                         x[1] = signal /\ x[2] \in DOMAIN dialogsMap}}
<1>1. /\ signal \notin aborted /\ aborted' = aborted \cup {signal}
      /\ misused' = (misused \/ \E b \in closed : boxes[b].hwnd = "cancel")
      /\ boxes' = [b \in DOMAIN boxes |->
                     IF b \in closed THEN CloseMessageBox(boxes[b]) ELSE boxes[b]]
      /\ UNCHANGED <<nextId, listeners, dialogsMap>>
  BY DEF Abort
<1>2. \A b \in closed : b \in DOMAIN boxes /\ boxes[b].signal = signal
  BY DEF DialogsInv, IdsLeadToTheirBox
<1>. HIDE DEF closed
<1>3. ~misused'
  BY <1>1, <1>2 DEF DialogsInv, BoxOK
<1>4. ASSUME NEW b \in DOMAIN boxes
      PROVE  boxes'[b].signal = boxes[b].signal /\ BoxOK(boxes'[b], aborted')
  <2>1. BoxOK(boxes[b], aborted)
    BY DEF DialogsInv
  <2>2. CASE b \notin closed
    BY <1>1, <2>1, <2>2 DEF BoxOK
  <2>3. CASE b \in closed
    <3>1. boxes'[b] = CloseMessageBox(boxes[b]) /\ boxes[b].signal \in aborted'
      BY <1>1, <1>2, <2>3
    <3>2. LET x == boxes[b]  y == CloseMessageBox(boxes[b])
          IN  /\ DOMAIN y = BoxFields /\ y.signal = x.signal /\ y.thread = x.thread
              /\ y.settled = x.settled /\ y.byUser = x.byUser /\ y.answer = x.answer
              /\ Cancelled(y) = Cancelled(x)
      BY <2>1 DEF CloseMessageBox, BoxOK, BoxFields, Cancelled
    <3>. QED  BY <1>1, <2>1, <3>1, <3>2 DEF BoxOK
  <2>. QED  BY <2>2, <2>3
<1>5. \E S : boxes' \in Seq(S)
  <2>1. PICK S : boxes \in Seq(S)
    BY DEF DialogsInv
  <2>2. DOMAIN boxes = 1..Len(boxes) /\ Len(boxes) \in Nat
    BY <2>1
  <2>3. boxes' \in [1..Len(boxes) -> {boxes'[b] : b \in 1..Len(boxes)}]
    BY <1>1, <2>2
  <2>. QED  BY <2>2, <2>3, SeqDef
<1>. QED  BY <1>1, <1>2, <1>3, <1>4, <1>5 DEF DialogsInv, IdsLeadToTheirBox

\* A step of one box keeps its signal and what cancelling it answers.
LEMMA BoxStepKeeps ==
  ASSUME DialogsInv, NEW b \in DOMAIN boxes, NEW x, boxes' = [boxes EXCEPT ![b] = x],
         BoxOK(x, aborted), x.signal = boxes[b].signal,
         UNCHANGED <<aborted, nextId, listeners, misused>>,
         DOMAIN dialogsMap' \subseteq DOMAIN dialogsMap,
         \A i \in DOMAIN dialogsMap' : dialogsMap'[i] = dialogsMap[i]
  PROVE  DialogsInv'
<1>1. \A c \in DOMAIN boxes' : BoxOK(boxes'[c], aborted)
  BY ChangedBox DEF DialogsInv
<1>2. \A c \in DOMAIN boxes' : BoxOK(boxes'[c], aborted')
  BY <1>1
<1>3. \A c \in DOMAIN boxes : c \in DOMAIN boxes' /\ boxes'[c].signal = boxes[c].signal
  BY ChangedBox
<1>4. IdsLeadToTheirBox'
  BY <1>3 DEF DialogsInv, IdsLeadToTheirBox
<1>5. \E S : boxes' \in Seq(S)
  BY ChangedBox
<1>. QED  BY <1>2, <1>4, <1>5 DEF DialogsInv

LEMMA CreatedKeeps ==
  ASSUME DialogsInv, NEW b \in DOMAIN boxes, TaskDialogCreated(b)
  PROVE  DialogsInv'
<1>1. BoxOK(boxes[b], aborted) /\ boxes[b].thread = "starts"
  BY DEF DialogsInv, TaskDialogCreated
<1>. DEFINE w == boxes[b]
            x == [w EXCEPT !.thread = "shown", !.hwnd = IF @ = "reserved" THEN "window" ELSE @,
                           !.closing = @ \/ w.hwnd = "cancel"]
<1>2. boxes' = [boxes EXCEPT ![b] = x]
  BY DEF TaskDialogCreated
<1>3. UNCHANGED <<aborted, nextId, listeners, dialogsMap, misused>>
  BY DEF TaskDialogCreated
<1>. HIDE DEF w
<1>4. BoxOK(w, aborted) /\ w.thread = "starts"
  BY <1>1 DEF w
<1>5. BoxOK(x, aborted) /\ x.signal = w.signal
  BY <1>4 DEF BoxOK, BoxFields
<1>. HIDE DEF x
<1>. QED  BY <1>2, <1>3, <1>5, BoxStepKeeps DEF w

LEMMA AnsweredKeeps ==
  ASSUME DialogsInv, NEW b \in DOMAIN boxes, NEW answer, NEW byUser, Answered(b, answer, byUser),
         \/ byUser = TRUE
         \/ byUser = FALSE /\ boxes[b].closing /\ answer = Cancelled(boxes[b])
  PROVE  DialogsInv'
<1>. DEFINE w == boxes[b]
            x == [w EXCEPT !.thread = "answered", !.answer = answer, !.byUser = byUser]
<1>1. /\ boxes' = [boxes EXCEPT ![b] = x]
      /\ UNCHANGED <<aborted, nextId, listeners, dialogsMap, misused>>
  BY DEF Answered
<1>2. BoxOK(w, aborted) /\ w.thread = "shown"
  BY DEF DialogsInv, Answered
<1>3. \/ byUser = TRUE
      \/ byUser = FALSE /\ w.closing /\ answer = Cancelled(w)
  OBVIOUS
<1>. HIDE DEF w
<1>4. /\ DOMAIN x = BoxFields /\ x.thread = "answered" /\ x.answer = answer /\ x.byUser = byUser
      /\ x.signal = w.signal /\ x.closing = w.closing /\ x.hwnd = w.hwnd /\ x.settled = w.settled
      /\ x.buttons = w.buttons /\ x.noLink = w.noLink /\ x.cancelId = w.cancelId
  BY <1>2 DEF BoxOK, BoxFields
<1>. HIDE DEF x
<1>5. Cancelled(x) = Cancelled(w)
  BY <1>4 DEF Cancelled
<1>6. BoxOK(x, aborted)
  BY <1>2, <1>3, <1>4, <1>5 DEF BoxOK
<1>. QED  BY <1>1, <1>4, <1>6, BoxStepKeeps DEF w

LEMMA DoneKeeps ==
  ASSUME DialogsInv, NEW b \in DOMAIN boxes, Done(b)
  PROVE  DialogsInv'
<1>. DEFINE w == boxes[b]
            x == [w EXCEPT !.thread = "over", !.settled = TRUE]
<1>1. /\ boxes' = [boxes EXCEPT ![b] = x]
      /\ UNCHANGED <<aborted, nextId, listeners, misused>>
      /\ DOMAIN dialogsMap' \subseteq DOMAIN dialogsMap
      /\ \A i \in DOMAIN dialogsMap' : dialogsMap'[i] = dialogsMap[i]
  BY DEF Done
<1>2. BoxOK(w, aborted) /\ w.thread = "answered"
  BY DEF DialogsInv, Done
<1>. HIDE DEF w
<1>3. /\ DOMAIN x = BoxFields /\ x.thread = "over" /\ x.answer = w.answer /\ x.byUser = w.byUser
      /\ x.signal = w.signal /\ x.closing = w.closing /\ x.hwnd = w.hwnd
      /\ x.buttons = w.buttons /\ x.noLink = w.noLink /\ x.cancelId = w.cancelId
  BY <1>2 DEF BoxOK, BoxFields
<1>. HIDE DEF x
<1>4. Cancelled(x) = Cancelled(w)
  BY <1>3 DEF Cancelled
<1>5. BoxOK(x, aborted)
  BY <1>2, <1>3, <1>4 DEF BoxOK
<1>. QED  BY <1>1, <1>3, <1>5, BoxStepKeeps DEF w

LEMMA DialogsStep == DialogsInv /\ [DialogsNext]_dialogVars => DialogsInv'
<1>. SUFFICES ASSUME DialogsInv, [DialogsNext]_dialogVars
              PROVE  DialogsInv'
  OBVIOUS
<1>1. CASE BecomeReady
  BY <1>1 DEF BecomeReady, DialogsInv, IdsLeadToTheirBox
<1>2. ASSUME NEW kind \in {"open", "save"}, FileDialog(kind)  PROVE DialogsInv'
  BY <1>2, FileDialogKeeps
<1>3. ASSUME NEW o \in BoxOptions, NEW signal \in Signals \cup {NoSignal}, MessageBox(o, signal)
      PROVE  DialogsInv'
  BY <1>3, MessageBoxKeeps
<1>4. ASSUME NEW signal \in Signals, Abort(signal)  PROVE DialogsInv'
  BY <1>4, AbortKeeps
<1>5. ASSUME NEW b \in DOMAIN boxes, TaskDialogCreated(b)  PROVE DialogsInv'
  BY <1>5, CreatedKeeps
<1>6. ASSUME NEW b \in DOMAIN boxes, UserAnswers(b)  PROVE DialogsInv'
  BY <1>6, AnsweredKeeps DEF UserAnswers
<1>7. ASSUME NEW b \in DOMAIN boxes, Closes(b)  PROVE DialogsInv'
  BY <1>7, AnsweredKeeps DEF Closes
<1>8. ASSUME NEW b \in DOMAIN boxes, Done(b)  PROVE DialogsInv'
  BY <1>8, DoneKeeps
<1>9. CASE UNCHANGED dialogVars
  BY <1>9 DEF dialogVars, DialogsInv, IdsLeadToTheirBox
<1>. QED  BY <1>1, <1>2, <1>3, <1>4, <1>5, <1>6, <1>7, <1>8, <1>9 DEF DialogsNext

(* An abort closes the boxes of its signal, once, and no others, and a box *)
(* that it closed answers what cancelling it would have answered, wherever *)
(* the abort meets the dialog thread (dialog.ts, message_box_win.cc).      *)
THEOREM AbortOnlyCancels == DialogsSpec => []AbortsCancel
<1>1. DialogsInit => DialogsInv
  <2>1. <<>> \in Seq({}) /\ DOMAIN <<>> = {}
    OBVIOUS
  <2>. QED  BY <2>1 DEF DialogsInit, DialogsInv, IdsLeadToTheirBox
<1>2. DialogsInv => AbortsCancel
  BY DEF DialogsInv, BoxOK, AbortsCancel, ClosesItsOwn, AbortIsCancel
<1>. QED  BY <1>1, <1>2, DialogsStep, PTL DEF DialogsSpec
-----------------------------------------------------------------------------
(***************************************************************************)
(* ContextBridge, for any preload scripts, objects, promises and later     *)
(* exposures: the page sees the last value of every name, and no           *)
(* continuation of a settled promise is left in a queue.                   *)
(***************************************************************************)
ContextInv ==
  /\ \E S : exposures \in Seq(S)
  /\ DOMAIN lynxState = Promises /\ heard \subseteq Promises
  /\ PageSeesTheLast /\ SettledIsHeard

\* A wrapper that there is stays as it is.
LEMMA CacheKeeps ==
  ASSUME NEW T
  PROVE  /\ T \subseteq DOMAIN Cached(T)
         /\ \A x \in DOMAIN objectCache : x \in DOMAIN Cached(T) /\ Cached(T)[x] = objectCache[x]
         /\ \A x \in T : x \notin DOMAIN objectCache => Cached(T)[x] = DOMAIN content'[x]
  BY DEF Cached

\* What is exposed last is what the page sees; the values of the other names stay.
LEMMA ExposureIsSeen ==
  ASSUME ContextInv, NEW o, ExposeInLynxBTS(o)
  PROVE  (\E S : exposures' \in Seq(S)) /\ PageSeesTheLast'
<1>. DEFINE s == content'[o]
            e == [object |-> o, shape |-> s, again |-> o \in DOMAIN objectCache]
            read == ReadOf(o)
            T == {o} \cup Inside("object", {read[n] : n \in DOMAIN read})
            K == objectCache'[o]
<1>1. /\ exposures' = Append(exposures, e) /\ objectCache' = Cached(T)
      /\ bridgeData' = MergeInPlace(bridgeData, read)
  BY DEF ExposeInLynxBTS
<1>2. /\ o \in DOMAIN objectCache' /\ K = Cached({o})[o]
      /\ \A x \in DOMAIN objectCache : x \in DOMAIN objectCache' /\ objectCache'[x] = objectCache[x]
      /\ o \notin DOMAIN objectCache => K = DOMAIN s
  <2>1. o \in T
    OBVIOUS
  <2>. HIDE DEF T
  <2>2. /\ o \in DOMAIN Cached(T)
        /\ \A x \in DOMAIN objectCache : x \in DOMAIN Cached(T) /\ Cached(T)[x] = objectCache[x]
        /\ o \notin DOMAIN objectCache => Cached(T)[o] = DOMAIN s
    BY <2>1, CacheKeeps
  <2>3. o \in DOMAIN objectCache => Cached(T)[o] = Cached({o})[o]
    BY <2>1, CacheKeeps
  <2>4. o \notin DOMAIN objectCache => Cached(T)[o] = Cached({o})[o]
    BY <2>1, CacheKeeps
  <2>. QED  BY <1>1, <2>2, <2>3, <2>4
<1>3. /\ DOMAIN bridgeData' = DOMAIN bridgeData \cup K
      /\ \A x \in K : bridgeData'[x] = IF x \in DOMAIN s THEN s[x] ELSE Undefined
      /\ \A x \in DOMAIN bridgeData \ K : bridgeData'[x] = bridgeData[x]
  <2>1. DOMAIN read = K /\ \A x \in K : read[x] = IF x \in DOMAIN s THEN s[x] ELSE Undefined
    BY <1>2 DEF ReadOf
  <2>. HIDE DEF read, K, s
  <2>. QED  BY <1>1, <2>1 DEF MergeInPlace
<1>4. e.object = o /\ e.shape = s /\ (~e.again <=> o \notin DOMAIN objectCache)
  OBVIOUS
<1>5. PICK S : exposures \in Seq(S)
  BY DEF ContextInv
<1>. HIDE DEF e, s, K, read, T
<1>6. exposures \in Seq(S \cup {e})
  BY <1>5, SeqMonotonic
<1>7. PICK N \in Nat :
        /\ exposures' \in Seq(S \cup {e}) /\ DOMAIN exposures = 1..N
        /\ DOMAIN exposures' = 1..(N + 1) /\ exposures'[N + 1] = e
        /\ \A k \in 1..N : exposures'[k] = exposures[k]
  <2>1. Len(exposures) \in Nat
    BY <1>6
  <2>. QED  BY <1>1, <1>6, <2>1
<1>8. 1..(N + 1) = 1..N \cup {N + 1} /\ N + 1 \notin 1..N /\ \A k \in 1..N : N + 1 > k
  BY <1>7
<1>9. /\ \A k \in 1..N : /\ exposures[k].object \in DOMAIN objectCache
                         /\ objectCache[exposures[k].object] \subseteq DOMAIN bridgeData
      /\ \A x \in DOMAIN bridgeData : \E k \in 1..N : x \in objectCache[exposures[k].object]
  BY <1>7 DEF ContextInv, PageSeesTheLast, Carries
<1>10. \A x : Carries(N + 1, x)' <=> x \in K
  BY <1>4, <1>7 DEF Carries, K
<1>11. \A k \in 1..N : \A x : Carries(k, x)' <=> Carries(k, x)
  BY <1>2, <1>7, <1>9 DEF Carries
<1>12. \A x \in DOMAIN bridgeData' : \E k \in 1..(N + 1) : Carries(k, x)'
  <2>. SUFFICES ASSUME NEW x \in DOMAIN bridgeData'  PROVE \E k \in 1..(N + 1) : Carries(k, x)'
    OBVIOUS
  <2>1. CASE x \in K
    BY <1>8, <1>10, <2>1
  <2>2. CASE x \in DOMAIN bridgeData
    BY <1>8, <1>9, <1>11, <2>2 DEF Carries
  <2>. QED  BY <1>3, <2>1, <2>2
<1>13. ASSUME NEW k \in 1..(N + 1)
       PROVE  LET x == exposures'[k] IN
              /\ x.object \in DOMAIN objectCache' /\ objectCache'[x.object] \subseteq DOMAIN bridgeData'
              /\ ~x.again => objectCache'[x.object] = DOMAIN x.shape
              /\ \A n \in objectCache'[x.object] :
                   (\A l \in 1..(N + 1) : l > k => ~Carries(l, n)') =>
                     bridgeData'[n] = IF n \in DOMAIN x.shape THEN x.shape[n] ELSE Undefined
  <2>1. CASE k = N + 1
    BY <1>2, <1>3, <1>4, <1>7, <2>1 DEF K
  <2>2. CASE k \in 1..N
    <3>. DEFINE x == exposures[k]
    <3>1. /\ exposures'[k] = x /\ x.object \in DOMAIN objectCache
          /\ objectCache'[x.object] = objectCache[x.object] /\ x.object \in DOMAIN objectCache'
          /\ objectCache[x.object] \subseteq DOMAIN bridgeData
      BY <1>2, <1>7, <1>9, <2>2
    <3>2. ~x.again => objectCache[x.object] = DOMAIN x.shape
      BY <1>7, <2>2 DEF ContextInv, PageSeesTheLast
    <3>3. ASSUME NEW n \in objectCache[x.object], \A l \in 1..(N + 1) : l > k => ~Carries(l, n)'
          PROVE  bridgeData'[n] = IF n \in DOMAIN x.shape THEN x.shape[n] ELSE Undefined
      <4>1. n \notin K /\ n \in DOMAIN bridgeData
        BY <1>8, <1>10, <2>2, <3>1, <3>3
      <4>2. \A l \in 1..N : l > k => ~Carries(l, n)
        BY <1>8, <1>11, <3>3
      <4>3. bridgeData[n] = IF n \in DOMAIN x.shape THEN x.shape[n] ELSE Undefined
        BY <1>7, <2>2, <3>3, <4>2 DEF ContextInv, PageSeesTheLast
      <4>. QED  BY <1>3, <4>1, <4>3
    <3>. QED  BY <1>3, <3>1, <3>2, <3>3
  <2>. QED  BY <1>8, <2>1, <2>2
<1>. QED  BY <1>7, <1>12, <1>13 DEF PageSeesTheLast

\* What the page does with what it sees changes nothing of it.
LEMMA ReadingKeeps ==
  ASSUME ContextInv, NEW T, objectCache' \in {objectCache, Cached(T)}, UNCHANGED <<bridgeData, exposures>>
  PROVE  PageSeesTheLast'
<1>1. \A x \in DOMAIN objectCache : x \in DOMAIN objectCache' /\ objectCache'[x] = objectCache[x]
  BY CacheKeeps
<1>2. \A k \in DOMAIN exposures : exposures[k].object \in DOMAIN objectCache
  BY DEF ContextInv, PageSeesTheLast
<1>3. \A k \in DOMAIN exposures : \A n : Carries(k, n)' <=> Carries(k, n)
  BY <1>1, <1>2 DEF Carries
<1>. QED  BY <1>1, <1>2, <1>3 DEF ContextInv, PageSeesTheLast

\* The handlers that settle a promise of the page drain its queue.
LEMMA LinkIsHeard ==
  ASSUME ContextInv, NEW p \in Promises, NEW how, Link(p, how)
  PROVE  DOMAIN lynxState' = Promises /\ heard' \subseteq Promises /\ SettledIsHeard'
  BY DEF ContextInv, Link, Checkpoint, SettledIsHeard

\* lynxbts/init.ts: whenever a script exposes something, the page sees the last value of every
\* name, and what it waits for is heard (ContextsAgree of the run library).
THEOREM ContextsAlwaysAgree == ContextSpec => []ContextsAgree
<1>1. ContextInit => ContextInv
  <2>1. ASSUME ContextInit  PROVE exposures \in Seq({}) /\ DOMAIN exposures = {} /\ DOMAIN bridgeData = {}
    BY <2>1 DEF ContextInit
  <2>. QED
    BY <2>1 DEF ContextInit, ContextInv, PageSeesTheLast, SettledIsHeard
<1>2. ASSUME ContextInv, [ContextNext]_contextVars
      PROVE  ContextInv'
  <2>1. ASSUME NEW o, ExposeInLynxBTS(o), UNCHANGED <<lynxState, heard>>
        PROVE ContextInv'
    BY <1>2, <2>1, ExposureIsSeen DEF ContextInv, SettledIsHeard
  <2>2. ASSUME NEW T, objectCache' \in {objectCache, Cached(T)},
               UNCHANGED <<bridgeData, exposures, lynxState, heard>>
        PROVE  ContextInv'
    BY <1>2, <2>2, ReadingKeeps DEF ContextInv, SettledIsHeard
  <2>3. ASSUME NEW p \in Promises, NEW how, Link(p, how), UNCHANGED exposedVars
        PROVE  ContextInv'
    <3>1. PageSeesTheLast'
      BY <1>2, <2>3, ReadingKeeps DEF exposedVars
    <3>. QED  BY <1>2, <2>3, <3>1, LinkIsHeard DEF ContextInv, exposedVars
  <2>4. CASE RunPreload
    BY <2>1, <2>2, <2>4 DEF RunPreload, Expose, exposedVars
  <2>5. CASE Imported
    BY <2>1, <2>5 DEF Imported, Expose
  <2>6. ASSUME NEW o, ExposeLater(o)  PROVE ContextInv'
    BY <2>1, <2>6 DEF ExposeLater
  <2>7. ASSUME NEW o, NEW s, Change(o, s)  PROVE ContextInv'
    BY <2>2, <2>7 DEF Change
  <2>8. ASSUME NEW v, PageTakes(v)  PROVE ContextInv'
    BY <2>2, <2>8 DEF PageTakes
  <2>9. ASSUME NEW n, NEW m, PageCalls(n) \/ PageReads(n, m)  PROVE ContextInv'
    BY <2>8, <2>9 DEF PageCalls, PageReads
  <2>10. ASSUME NEW p \in Promises, LateHandler(p)  PROVE ContextInv'
    BY <2>3, <2>10 DEF LateHandler
  <2>11. ASSUME NEW p \in Promises, NEW how, NodeSettles(p, how)  PROVE ContextInv'
    BY <2>2, <2>3, <2>11 DEF NodeSettles, exposedVars
  <2>12. CASE UNCHANGED contextVars
    BY <2>2, <2>12 DEF contextVars
  <2>. QED
    BY <1>2, <2>4, <2>5, <2>6, <2>7, <2>9, <2>10, <2>11, <2>12 DEF ContextNext
<1>3. ContextInv => ContextsAgree
  BY DEF ContextInv, ContextsAgree
<1>. QED  BY <1>1, <1>2, <1>3, PTL DEF ContextSpec
-----------------------------------------------------------------------------
(***************************************************************************)
(* Startup, for any number of places that are searched: the application    *)
(* does not become ready before the code that listens for it is loaded.    *)
(* StartupInv says what is known at each phase of the application that was *)
(* found, and whether its script was counted.                              *)
(***************************************************************************)
Found == looked \in 1..SearchPaths /\ Loadable(looked) /\ \A k \in 1..(looked - 1) : ~Loadable(k)

StartupInv ==
  /\ looked \in 0..SearchPaths
  /\ phase \in {"search", "load", "join", "running", "exited"}
  /\ ~main.esm => main.does # "waits"
  /\ phase = "search" =>
       loaded = 0 /\ ~exitTick /\ \A k \in 1..looked : ~Loadable(k)
  /\ phase = "load" => loaded = 0 /\ ~exitTick /\ Found
  /\ phase = "join" /\ ~exitTick =>
       Found /\ (loaded = 1 \/ (main.esm /\ loaded = 0))
  /\ phase = "running" =>
       Found /\ (loaded = 1 \/ (main.esm /\ loaded = 0 /\ (is_shutdown \/ (main.does = "waits" /\ ~handles))))

\* init.ts and node_bindings.cc: when the main loop starts, so that the application becomes
\* ready, the first valid application is loaded, once, unless its script waits for nothing
\* or the application was quit meanwhile (ReadyAfterCode of the run library).
THEOREM ReadyIsAfterCode == StartupSpec => []ReadyAfterCode
<1>1. StartupInit => StartupInv
  BY StartupAssumption DEF StartupInit, StartupInv
<1>2. ASSUME StartupInv, [StartupNext]_startupVars
      PROVE  StartupInv'
  <2>. USE StartupAssumption DEF StartupInv, startupVars, startupGiven
  <2>1. UNCHANGED startupGiven /\ \A k : Loadable(k)' = Loadable(k)
    BY <1>2 DEF StartupNext, Search, LoadMain, ScriptQuits, ScriptExits, ImportSettles,
         ExitTick, JoinAppCode, Loadable
  <2>2. CASE Search
    <3>1. CASE looked = SearchPaths
      BY <1>2, <2>1, <2>2, <3>1 DEF Search
    <3>2. CASE looked # SearchPaths
      <4>1. looked' = looked + 1 /\ looked + 1 \in 1..SearchPaths /\ looked' - 1 = looked
        BY <1>2, <2>2, <3>2 DEF Search
      <4>2. CASE Loadable(looked + 1)
        BY <1>2, <2>1, <2>2, <3>2, <4>1, <4>2 DEF Search, Found
      <4>3. CASE ~Loadable(looked + 1)
        <5>1. \A k \in 1..(looked + 1) : k \in 1..looked \/ k = looked + 1
          BY <4>1
        <5>. QED  BY <1>2, <2>1, <2>2, <3>2, <4>1, <4>3, <5>1 DEF Search
      <4>. QED  BY <4>2, <4>3
    <3>. QED  BY <3>1, <3>2
  <2>3. CASE LoadMain
    BY <1>2, <2>1, <2>3 DEF LoadMain, Found
  <2>4. CASE ImportSettles
    BY <1>2, <2>1, <2>4 DEF ImportSettles, Importing, Found
  <2>5. CASE ExitTick
    BY <1>2, <2>1, <2>5 DEF ExitTick
  <2>6. CASE JoinAppCode
    <3>1. loaded = 1 \/ (main.esm /\ loaded = 0 /\ (is_shutdown \/ (main.does = "waits" /\ ~handles)))
      <4>1. /\ looked > 0 /\ (loaded = 1 \/ (main.esm /\ loaded = 0))
            /\ (loaded > 0 \/ is_shutdown \/ UvIsEmpty) /\ ~exitTick
        BY <1>2, <2>6 DEF JoinAppCode, Found
      <4>2. CASE loaded = 1
        BY <4>2
      <4>3. CASE main.esm /\ loaded = 0
        <5>1. is_shutdown \/ UvIsEmpty
          BY <4>1, <4>3
        <5>. QED  BY <4>1, <4>3, <5>1 DEF UvIsEmpty, Importing
      <4>. QED  BY <4>1, <4>2, <4>3
    <3>. QED  BY <1>2, <2>1, <2>6, <3>1 DEF JoinAppCode, Found
  <2>7. CASE ScriptQuits
    BY <1>2, <2>1, <2>7 DEF ScriptQuits, Found
  <2>8. CASE ScriptExits
    BY <1>2, <2>1, <2>8 DEF ScriptExits
  <2>9. CASE UNCHANGED startupVars
    BY <1>2, <2>1, <2>9 DEF Found
  <2>. QED  BY <1>2, <2>2, <2>3, <2>4, <2>5, <2>6, <2>7, <2>8, <2>9 DEF StartupNext
<1>3. StartupInv => ReadyAfterCode
  BY DEF StartupInv, Found, ReadyAfterCode
<1>. QED  BY <1>1, <1>2, <1>3, PTL DEF StartupSpec
-----------------------------------------------------------------------------
(***************************************************************************)
(* ProcessSingleton, for any number of processes and of retries: those     *)
(* that start together never all refuse.                                   *)
(*                                                                         *)
(* SingletonInv is inductive: whoever fails to create one of the links has *)
(* been overtaken by a process that is further ahead, and from the cookie  *)
(* on nothing fails; what the crashed process left has been cleared by     *)
(* then, so it is never why a link cannot be created.                      *)
(***************************************************************************)
Leading == {"primary", "quitting", "drop cookie", "drop lock", "drop dir", "released", "dead"}
Linked == Leading \cup {"listen"}
Ahead == Linked \cup {"link cookie"}
Locked == Ahead \cup {"clear socket", "clear cookie", "link socket"}
Places ==
  Locked \cup {"idle", "connect", "dial", "parse", "unlink", "find", "take", "kill", "await",
               "lock", "refused"}

Reaches(S) == \E q \in Newcomers : proc[q].at \in S

Requests ==
  [at : Places, seen : Process \cup {NoProcess}, retries : Nat, round : 1..2,
   reply : {"none", "ACK", "SHUTDOWN"}]

SingletonTypeOK ==
  /\ lockLink \in Process \cup {NoProcess}
  /\ socketLink \in Process \cup {NoProcess}
  /\ cookieLink \in Process \cup {NoProcess}
  /\ socketDir \in [Process -> SUBSET {"cookie", "socket"}]
  /\ proc \in [Process -> Requests]
  /\ At(Crashed, "dead")

\* The links of the crashed process are gone where others create theirs.
CrashedIsCleared ==
  /\ (\E p \in Newcomers : proc[p].at \in Locked \cup {"lock", "kill"} \/ proc[p].round = 2) =>
       lockLink # Crashed
  /\ \A p \in Newcomers :
       /\ proc[p].at \in {"clear cookie", "link socket"} => socketLink # Crashed
       /\ proc[p].at \in {"link socket", "link cookie"} => cookieLink # Crashed

\* A link that a newcomer created: it or another one is further ahead.
OwnersAreAhead ==
  /\ lockLink \in Newcomers => Reaches(Locked)
  /\ socketLink \in Newcomers => proc[socketLink].at \in Ahead \/ Reaches(Linked)
  /\ cookieLink \in Newcomers => proc[cookieLink].at \in Linked

\* Who listens, and whom one waits for, is or was the primary.
LeadersAnswer ==
  \A p \in Newcomers :
    /\ "socket" \in socketDir[p] => proc[p].at \in Leading
    /\ At(p, "dial") => proc[p].seen \in Process
    /\ At(p, "await") => proc[p].seen \in Newcomers /\ proc[proc[p].seen].at \in Leading

\* Who is refused, or tries a second time, was overtaken.
Overtaken ==
  (\E p \in Newcomers : proc[p].at = "refused" \/ proc[p].round = 2) => Reaches(Locked)

SingletonInv ==
  SingletonTypeOK /\ CrashedIsCleared /\ OwnersAreAhead /\ LeadersAnswer /\ Overtaken

LEMMA SingletonInitInv ==
  ASSUME SingletonInit
  PROVE  SingletonInv
<1>1. SingletonTypeOK
  BY SingletonAssumption DEF SingletonInit, SingletonTypeOK, Requests, Places, Locked, Ahead,
     Linked, Leading, At
<1>2. \A p \in Newcomers : proc[p].at = "idle" /\ proc[p].round = 1 /\ socketDir[p] = {}
  BY DEF SingletonInit, Newcomers
<1>3. lockLink \notin Newcomers /\ socketLink \notin Newcomers /\ cookieLink \notin Newcomers
  BY SingletonAssumption DEF SingletonInit, Newcomers
<1>4. CrashedIsCleared
  <2>1. \A p \in Newcomers : proc[p].at \notin Locked \cup {"lock", "kill"} /\ proc[p].round # 2
    <3>1. {"idle"} \cap (Locked \cup {"lock", "kill"}) = {} /\ 1 # 2
      BY DEF Locked, Ahead, Linked, Leading
    <3>. QED  BY <1>2, <3>1
  <2>. QED  BY <1>2, <2>1 DEF CrashedIsCleared
<1>5. OwnersAreAhead
  BY <1>3 DEF OwnersAreAhead
<1>6. LeadersAnswer
  BY <1>2 DEF LeadersAnswer, At
<1>7. Overtaken
  BY <1>2 DEF Overtaken
<1>. QED
  BY <1>1, <1>4, <1>5, <1>6, <1>7 DEF SingletonInv

\* One process changes its place, and perhaps what it has seen, its round and the answer.
Moves(p, a) ==
  /\ \A r \in Process \ {p} : proc'[r] = proc[r]
  /\ proc' \in [Process -> Requests] /\ proc'[p].at = a

LEMMA GoesMoves ==
  ASSUME SingletonTypeOK, NEW p \in Process, NEW a \in Places, Goes(p, a)
  PROVE  Moves(p, a) /\ proc'[p].seen = proc[p].seen /\ proc'[p].round = proc[p].round
         /\ proc'[p].reply = proc[p].reply
  BY DEF SingletonTypeOK, Goes, Moves, Requests

\* The same, of a step that changes more than the place.
LEMMA BecomesMoves ==
  ASSUME SingletonTypeOK, NEW p \in Process, NEW r \in Requests, proc' = [proc EXCEPT ![p] = r]
  PROVE  Moves(p, r.at) /\ proc'[p] = r
  BY DEF SingletonTypeOK, Moves

LEMMA NotifyMoves ==
  ASSUME SingletonTypeOK, NEW p \in Process, NotifyAgain(p)
  PROVE  Moves(p, "connect") /\ proc'[p].round = 2
<1>1. proc[p] \in Requests /\ "connect" \in Places /\ 2 \in 1..2 /\ 0 \in Nat
  BY DEF SingletonTypeOK, Places
<1>2. PICK r : r = [proc[p] EXCEPT !.at = "connect", !.round = 2, !.retries = 0]
  OBVIOUS
<1>3. r \in Requests /\ r.at = "connect" /\ r.round = 2
  BY <1>1, <1>2 DEF Requests
<1>4. proc' = [proc EXCEPT ![p] = r]
  BY <1>2 DEF NotifyAgain, SingletonTypeOK
<1>5. Moves(p, r.at) /\ proc'[p] = r
  BY <1>3, <1>4, BecomesMoves
<1>. QED  BY <1>3, <1>5

LEMMA SeesMoves ==
  ASSUME SingletonTypeOK, NEW p \in Process, NEW a \in Places, NEW s \in Process \cup {NoProcess},
         proc' = [proc EXCEPT ![p].at = a, ![p].seen = s]
  PROVE  Moves(p, a) /\ proc'[p].seen = s /\ proc'[p].round = proc[p].round
<1>1. proc[p] \in Requests
  BY DEF SingletonTypeOK, Places
<1>2. PICK r : r = [proc[p] EXCEPT !.at = a, !.seen = s]
  OBVIOUS
<1>3. r \in Requests /\ r.at = a /\ r.seen = s /\ r.round = proc[p].round
  BY <1>1, <1>2 DEF Requests
<1>4. proc' = [proc EXCEPT ![p] = r]
  BY <1>2 DEF SingletonTypeOK
<1>5. Moves(p, r.at) /\ proc'[p] = r
  BY <1>3, <1>4, BecomesMoves
<1>. QED  BY <1>3, <1>5

LEMMA RetryMoves ==
  ASSUME SingletonTypeOK, NEW p \in Process, NEW a \in Places,
         proc' = [proc EXCEPT ![p].at = a, ![p].retries = @ + 1]
  PROVE  Moves(p, a) /\ proc'[p].round = proc[p].round
<1>1. proc[p] \in Requests /\ proc[p].retries + 1 \in Nat
  BY DEF SingletonTypeOK, Requests
<1>2. PICK r : r = [proc[p] EXCEPT !.at = a, !.retries = @ + 1]
  OBVIOUS
<1>3. r \in Requests /\ r.at = a /\ r.round = proc[p].round
  BY <1>1, <1>2 DEF Requests
<1>4. proc' = [proc EXCEPT ![p] = r]
  BY <1>2 DEF SingletonTypeOK
<1>5. Moves(p, r.at) /\ proc'[p] = r
  BY <1>3, <1>4, BecomesMoves
<1>. QED  BY <1>3, <1>5

LEMMA ReplyMoves ==
  ASSUME SingletonTypeOK, NEW p \in Process, NEW a \in Places,
         proc' = [proc EXCEPT ![p].at = a, ![p].reply = "none"]
  PROVE  Moves(p, a) /\ proc'[p].round = proc[p].round
<1>1. proc[p] \in Requests
  BY DEF SingletonTypeOK, Places
<1>2. PICK r : r = [proc[p] EXCEPT !.at = a, !.reply = "none"]
  OBVIOUS
<1>3. r \in Requests /\ r.at = a /\ r.round = proc[p].round
  BY <1>1, <1>2 DEF Requests
<1>4. proc' = [proc EXCEPT ![p] = r]
  BY <1>2 DEF SingletonTypeOK
<1>5. Moves(p, r.at) /\ proc'[p] = r
  BY <1>3, <1>4, BecomesMoves
<1>. QED  BY <1>3, <1>5

\* A process that has not created its lock moves to a place before it, or gives up.
MovesBehind(p, a) ==
  /\ Moves(p, a) /\ a \in Places \ Locked /\ proc[p].at \notin Locked
  /\ lockLink' \in {lockLink, NoProcess} /\ UNCHANGED <<socketLink, cookieLink, socketDir>>
  /\ a \in {"lock", "kill"} \/ proc'[p].round = 2 => lockLink' # Crashed
  /\ a = "refused" \/ proc'[p].round = 2 => Reaches(Locked)
  /\ a = "dial" => proc'[p].seen \in Process
  /\ a = "await" => proc'[p].seen \in Newcomers /\ proc[proc'[p].seen].at \in Leading

LEMMA BehindKeeps ==
  ASSUME SingletonInv, NEW p \in Newcomers, NEW a, MovesBehind(p, a)
  PROVE  SingletonInv'
<1>. USE DEF SingletonInv, MovesBehind
<1>1. /\ p \in Process /\ p # Crashed /\ Newcomers \subseteq Process /\ Crashed \notin Newcomers
      /\ NoProcess \notin Process /\ Crashed \in Process
  BY SingletonAssumption DEF Newcomers
<1>2. SingletonTypeOK'
  BY <1>1 DEF SingletonTypeOK, Moves, At
<1>3. \A q \in Newcomers : proc[q].at \in Locked => proc'[q] = proc[q]
  BY <1>1 DEF Moves
<1>4. /\ Reaches(Locked) => Reaches(Locked)'
      /\ Reaches(Linked) => Reaches(Linked)'
  BY <1>3 DEF Reaches, Locked, Ahead
<1>5. CrashedIsCleared'
  <2>1. \A q \in Newcomers \ {p} : proc'[q] = proc[q]
    BY <1>1 DEF Moves
  <2>2. proc'[p].at = a
    BY DEF Moves
  <2>3. lockLink # Crashed => lockLink' # Crashed
    BY <1>1
  <2>. QED  BY <2>1, <2>2, <2>3 DEF CrashedIsCleared, Locked, Ahead
<1>6. OwnersAreAhead'
  <2>1. lockLink' \in Newcomers => lockLink \in Newcomers
    BY <1>1
  <2>. QED  BY <1>3, <1>4, <2>1 DEF OwnersAreAhead, Locked, Ahead
<1>7. LeadersAnswer'
  BY <1>1, <1>3, ZenonT(40) DEF LeadersAnswer, Moves, At, Locked, Ahead, Linked
<1>8. Overtaken'
  BY <1>1, <1>4 DEF Overtaken, Moves
<1>. QED  BY <1>2, <1>5, <1>6, <1>7, <1>8

\* Whom a step is of: the crashed process takes none.
LEMMA NewcomersStep ==
  ASSUME SingletonInv, NEW p \in Process, proc[p].at # "dead"
  PROVE  p \in Newcomers
  BY DEF SingletonInv, SingletonTypeOK, At, Newcomers

\* What a newcomer that tries again, or is at or before the lock, knows.
LEMMA Knows ==
  ASSUME SingletonInv, NEW p \in Newcomers
  PROVE  /\ proc[p].round = 2 => lockLink # Crashed /\ Reaches(Locked)
         /\ proc[p].at \in {"lock", "kill"} => lockLink # Crashed
         /\ At(p, "dial") => proc[p].seen \in Process
         /\ At(p, "await") => /\ proc[p].seen \in Newcomers /\ proc[proc[p].seen].at \in Leading
                              /\ Reaches(Locked) /\ lockLink # Crashed
  BY DEF SingletonInv, CrashedIsCleared, Overtaken, LeadersAnswer, Reaches, Locked, Ahead, Linked

\* The steps of the search for another process, and the request's end.
LEMMA SearchKeeps ==
  ASSUME SingletonInv, NEW p \in Process,
         RequestSingleInstanceLock(p) \/ ReadSocketLink(p) \/ Dial(p)
  PROVE  SingletonInv'
<1>. USE DEF linkVars
<1>1. p \in Newcomers
  BY NewcomersStep DEF RequestSingleInstanceLock, ReadSocketLink, Dial, At
<1>. USE Knows, GoesMoves DEF SingletonInv, MovesBehind, Places, Locked, Ahead, Linked, Leading, At
<1>2. CASE RequestSingleInstanceLock(p)
  <2>1. MovesBehind(p, "connect")
    BY <1>1, <1>2 DEF RequestSingleInstanceLock
  <2>. QED  BY <1>1, <2>1, BehindKeeps
<1>3. CASE ReadSocketLink(p)
  <2>1. CASE socketLink = NoProcess
    <3>1. MovesBehind(p, "parse")
      BY <1>1, <1>3, <2>1 DEF ReadSocketLink
    <3>. QED  BY <1>1, <3>1, BehindKeeps
  <2>2. CASE socketLink # NoProcess
    <3>1. socketLink \in Process /\ p \in Process /\ "dial" \in Places
      BY <2>2 DEF SingletonTypeOK
    <3>2. Moves(p, "dial") /\ proc'[p].seen = socketLink /\ proc'[p].round = proc[p].round
      BY <1>3, <2>2, <3>1, SeesMoves DEF ReadSocketLink
    <3>3. MovesBehind(p, "dial")
      BY <1>1, <1>3, <3>1, <3>2 DEF ReadSocketLink
    <3>. QED  BY <1>1, <3>3, BehindKeeps
  <2>. QED  BY <2>1, <2>2
<1>4. CASE Dial(p)
  <2>. DEFINE q == proc[p].seen
              calls == cookieLink = q /\ "cookie" \in socketDir[q] /\ Listens(q)
  <2>1. CASE calls
    <3>1. q \in Newcomers /\ proc[q].at \in Leading
      <4>1. q \in Process /\ proc[q].at # "dead" /\ "socket" \in socketDir[q]
        BY <1>1, <1>4, <2>1 DEF Dial, Listens, Alive
      <4>. QED  BY <4>1, NewcomersStep DEF LeadersAnswer
    <3>2. MovesBehind(p, "await")
      BY <1>1, <1>4, <2>1, <3>1 DEF Dial
    <3>. QED  BY <1>1, <3>2, BehindKeeps
  <2>2. CASE ~calls
    <3>1. MovesBehind(p, "parse")
      BY <1>1, <1>4, <2>2 DEF Dial
    <3>. QED  BY <1>1, <3>1, BehindKeeps
  <2>. QED  BY <2>1, <2>2
<1>. QED  BY <1>2, <1>3, <1>4

\* Nobody(p) and Unresponsive(p): the lock, the kill, or a refusal the second time.
LEMMA OutcomeOfRound ==
  ASSUME SingletonTypeOK, NEW p \in Process
  PROVE  /\ Nobody(p) = IF proc[p].round = 1 THEN "lock" ELSE "refused"
         /\ Unresponsive(p) = IF proc[p].round = 1 THEN "find" ELSE "refused"
         /\ proc[p].round = 1 \/ proc[p].round = 2
  BY DEF Nobody, Unresponsive, SingletonTypeOK, Requests

LEMMA NobodyKeeps ==
  ASSUME SingletonInv, NEW p \in Newcomers, NEW a, a = Nobody(p) \/ a = Unresponsive(p),
         Moves(p, a), proc'[p].round = proc[p].round, proc[p].at \notin Locked,
         lockLink' \in {lockLink, NoProcess},
         UNCHANGED <<socketLink, cookieLink, socketDir>>, lockLink' # Crashed \/ a = Unresponsive(p)
  PROVE  SingletonInv'
<1>1. p \in Process
  BY DEF Newcomers
<1>2. /\ a \in {"lock", "find", "refused"}
      /\ a = "refused" => proc[p].round = 2
      /\ a = "lock" => lockLink' # Crashed
  BY <1>1, OutcomeOfRound DEF SingletonInv
<1>3. lockLink # Crashed => lockLink' # Crashed
  BY SingletonAssumption
<1>4. {"lock", "find", "refused"} \subseteq Places \ Locked
  BY DEF Places, Locked, Ahead, Linked, Leading
<1>5. a \in Places \ Locked /\ a \notin {"kill", "dial", "await"}
  <2>1. \A x \in {"lock", "find", "refused"} : x \in Places \ Locked
    BY <1>4
  <2>2. a = "lock" \/ a = "find" \/ a = "refused"
    BY <1>2
  <2>. QED  BY <2>1, <2>2
<1>6. proc[p].round = 2 => lockLink' # Crashed /\ Reaches(Locked)
  BY <1>3, Knows
<1>7. MovesBehind(p, a)
  BY <1>2, <1>5, <1>6 DEF MovesBehind
<1>. QED  BY <1>7, BehindKeeps

LEMMA ParseKeeps ==
  ASSUME SingletonInv, NEW p \in Process, ParseProcessSingletonLock(p)
  PROVE  SingletonInv'
<1>. USE DEF linkVars, At
<1>1. p \in Newcomers /\ proc[p].at \notin Locked
  BY NewcomersStep DEF ParseProcessSingletonLock, Locked, Ahead, Linked, Leading
<1>2. UNCHANGED <<isChrome, lockLink, socketLink, cookieLink, socketDir>>
  BY DEF ParseProcessSingletonLock
<1>3. SingletonTypeOK /\ {"lock", "find", "refused", "unlink", "connect"} \subseteq Places
      /\ {"unlink", "connect"} \cap (Locked \cup {"lock", "kill", "refused", "dial", "await"}) = {}
  BY DEF SingletonInv, Places, Locked, Ahead, Linked, Leading
<1>4. ASSUME lockLink = NoProcess, Goes(p, Nobody(p))  PROVE SingletonInv'
  <2>1. Moves(p, Nobody(p)) /\ proc'[p].round = proc[p].round
    BY <1>3, <1>4, OutcomeOfRound, GoesMoves
  <2>. QED  BY <1>1, <1>2, <1>4, <2>1, NobodyKeeps, SingletonAssumption
<1>5. ASSUME Goes(p, "unlink")  PROVE SingletonInv'
  <2>1. Moves(p, "unlink") /\ proc'[p].round = proc[p].round
    BY <1>3, <1>5, GoesMoves
  <2>2. MovesBehind(p, "unlink")
    BY <1>1, <1>2, <1>3, <2>1, Knows DEF MovesBehind
  <2>. QED  BY <1>1, <2>2, BehindKeeps
<1>6. ASSUME Goes(p, Unresponsive(p))  PROVE SingletonInv'
  <2>1. Moves(p, Unresponsive(p)) /\ proc'[p].round = proc[p].round
    BY <1>3, <1>6, OutcomeOfRound, GoesMoves
  <2>. QED  BY <1>1, <1>2, <2>1, NobodyKeeps
<1>7. ASSUME proc' = [proc EXCEPT ![p].at = "connect", ![p].retries = @ + 1]  PROVE SingletonInv'
  <2>1. Moves(p, "connect") /\ proc'[p].round = proc[p].round
    BY <1>3, <1>7, RetryMoves
  <2>2. MovesBehind(p, "connect")
    BY <1>1, <1>2, <1>3, <2>1, Knows DEF MovesBehind
  <2>. QED  BY <1>1, <2>2, BehindKeeps
<1>. QED  BY <1>4, <1>5, <1>6, <1>7 DEF ParseProcessSingletonLock

LEMMA UnlinkKeeps ==
  ASSUME SingletonInv, NEW p \in Process, UnlinkOrphanedLock(p)
  PROVE  SingletonInv'
<1>1. p \in Newcomers /\ proc[p].at \notin Locked
  BY NewcomersStep DEF UnlinkOrphanedLock, At, Locked, Ahead, Linked, Leading
<1>2. SingletonTypeOK /\ {"lock", "refused"} \subseteq Places
  BY DEF SingletonInv, Places
<1>3. Moves(p, Nobody(p)) /\ proc'[p].round = proc[p].round
  BY <1>2, OutcomeOfRound, GoesMoves DEF UnlinkOrphanedLock
<1>. QED  BY <1>1, <1>3, NobodyKeeps, SingletonAssumption DEF UnlinkOrphanedLock

LEMMA FindKeeps ==
  ASSUME SingletonInv, NEW p \in Process, FindVictim(p) \/ TakeLock(p)
  PROVE  SingletonInv'
<1>1. p \in Newcomers /\ proc[p].at \notin Locked
  BY NewcomersStep DEF FindVictim, TakeLock, At, Locked, Ahead, Linked, Leading
<1>2. SingletonTypeOK /\ {"take", "kill"} \subseteq Places \ Locked /\ NoProcess # Crashed
  BY SingletonAssumption DEF SingletonInv, Places, Locked, Ahead, Linked, Leading
<1>3. CASE FindVictim(p)
  <2>1. PICK q \in Process \cup {NoProcess} :
               proc' = [proc EXCEPT ![p].at = "take", ![p].seen = q]
    BY <1>2, <1>3 DEF FindVictim, SingletonTypeOK
  <2>2. Moves(p, "take") /\ proc'[p].round = proc[p].round
    BY <1>2, <2>1, SeesMoves
  <2>3. MovesBehind(p, "take")
    BY <1>1, <1>2, <1>3, <2>2, Knows DEF FindVictim, MovesBehind, linkVars
  <2>. QED  BY <1>1, <2>3, BehindKeeps
<1>4. CASE TakeLock(p)
  <2>1. Moves(p, "kill") /\ proc'[p].round = proc[p].round
    BY <1>2, <1>4, GoesMoves DEF TakeLock
  <2>2. MovesBehind(p, "kill")
    BY <1>1, <1>2, <1>4, <2>1, Knows DEF TakeLock, MovesBehind
  <2>. QED  BY <1>1, <2>2, BehindKeeps
<1>. QED  BY <1>3, <1>4

LEMMA AnswerKeeps ==
  ASSUME SingletonInv, NEW p \in Process,
         (\E q \in Process : HandleMessage(q, p)) \/ ReadReply(p) \/ NoAck(p)
  PROVE  SingletonInv'
<1>. USE DEF linkVars, At
<1>1. p \in Newcomers /\ proc[p].at = "await" /\ proc[p].at \notin Locked
  BY NewcomersStep DEF HandleMessage, ReadReply, NoAck, Locked, Ahead, Linked, Leading
<1>2. UNCHANGED <<isChrome, lockLink, socketLink, cookieLink, socketDir>>
  BY DEF HandleMessage, ReadReply, NoAck
<1>3. /\ SingletonTypeOK /\ {"lock", "find", "refused", "await"} \subseteq Places \ Locked
      /\ {"refused", "await"} \cap {"kill", "lock"} = {}
  BY DEF SingletonInv, Places, Locked, Ahead, Linked, Leading
<1>4. /\ proc[p].seen \in Newcomers /\ proc[proc[p].seen].at \in Leading
      /\ Reaches(Locked) /\ lockLink # Crashed
  BY <1>1, Knows
<1>5. ASSUME NEW answer \in {"ACK", "SHUTDOWN"}, proc' = [proc EXCEPT ![p].reply = answer]
      PROVE  SingletonInv'
  <2>1. PICK r : r = [proc[p] EXCEPT !.reply = answer]
    OBVIOUS
  <2>2. r \in Requests /\ r.at = "await" /\ r.seen = proc[p].seen /\ r.round = proc[p].round
    BY <1>1, <1>3, <2>1 DEF SingletonTypeOK, Requests
  <2>3. proc' = [proc EXCEPT ![p] = r]
    BY <1>3, <1>5, <2>1 DEF SingletonTypeOK
  <2>4. Moves(p, r.at) /\ proc'[p] = r
    BY <1>3, <2>2, <2>3, BecomesMoves
  <2>5. MovesBehind(p, "await")
    <3>1. Moves(p, "await")
      BY <2>2, <2>4
    <3>. QED  BY <1>1, <1>2, <1>3, <1>4, <2>2, <2>4, <3>1 DEF MovesBehind
  <2>. QED  BY <1>1, <2>5, BehindKeeps
<1>6. CASE ReadReply(p)
  <2>1. CASE proc[p].reply = "ACK"
    <3>1. Moves(p, "refused") /\ proc'[p].round = proc[p].round
      BY <1>3, <1>6, <2>1, ReplyMoves DEF ReadReply
    <3>2. MovesBehind(p, "refused")
      BY <1>1, <1>2, <1>3, <1>4, <3>1 DEF MovesBehind
    <3>. QED  BY <1>1, <3>2, BehindKeeps
  <2>2. CASE proc[p].reply # "ACK"
    <3>1. Nobody(p) \in Places
      BY <1>3, OutcomeOfRound
    <3>2. Moves(p, Nobody(p)) /\ proc'[p].round = proc[p].round
      BY <1>3, <1>6, <2>2, <3>1, ReplyMoves DEF ReadReply
    <3>. QED  BY <1>1, <1>2, <1>4, <3>2, NobodyKeeps
  <2>. QED  BY <2>1, <2>2
<1>7. CASE NoAck(p)
  <2>1. Moves(p, Unresponsive(p)) /\ proc'[p].round = proc[p].round
    BY <1>3, <1>7, OutcomeOfRound, GoesMoves DEF NoAck
  <2>. QED  BY <1>1, <1>2, <2>1, NobodyKeeps
<1>. QED  BY <1>5, <1>6, <1>7 DEF HandleMessage

-----------------------------------------------------------------------------
\* From the lock on: a process moves forward, creates, deletes or empties what it may.
MovesAhead(p, a) ==
  /\ Moves(p, a) /\ a \in Locked /\ proc'[p].round = proc[p].round
  /\ \/ proc[p].at = "lock"
     \/ /\ proc[p].at \in Locked
        /\ proc[p].at \in Ahead => a \in Ahead
        /\ proc[p].at \in Linked => a \in Linked
        /\ proc[p].at \in Leading => a \in Leading
  /\ lockLink' \in {lockLink, NoProcess, p}
  /\ socketLink' \in {socketLink, NoProcess} \/ (socketLink' = p /\ a \in Ahead)
  /\ cookieLink' \in {cookieLink, NoProcess} \/ (cookieLink' = p /\ a \in Linked)
  /\ a \in {"clear cookie", "link socket"} => socketLink' # Crashed
  /\ a \in {"link socket", "link cookie"} => cookieLink' # Crashed
  /\ socketDir' \in [Process -> SUBSET {"cookie", "socket"}]
  /\ \A q \in Process \ {p} : socketDir'[q] = socketDir[q]
  /\ "socket" \in socketDir'[p] => a \in Leading

LEMMA AheadKeeps ==
  ASSUME SingletonInv, NEW p \in Newcomers, NEW a, MovesAhead(p, a)
  PROVE  SingletonInv'
<1>. USE DEF SingletonInv
<1>1. /\ p \in Process /\ p # Crashed /\ Newcomers \subseteq Process /\ Crashed \notin Newcomers
      /\ NoProcess \notin Process /\ Crashed \in Process
  BY SingletonAssumption DEF Newcomers
<1>2. /\ \A q \in Process \ {p} : proc'[q] = proc[q]
      /\ proc' \in [Process -> Requests] /\ proc'[p].at = a
  BY DEF MovesAhead, Moves
<1>3. SingletonTypeOK'
  BY <1>1, <1>2 DEF SingletonTypeOK, MovesAhead, At
<1>4. /\ Leading \subseteq Linked /\ Linked \subseteq Ahead /\ Ahead \subseteq Locked
      /\ "lock" \notin Locked /\ {"dial", "await", "refused"} \cap Locked = {}
  BY DEF Locked, Ahead, Linked, Leading
<1>5. Reaches(Locked)'
  BY <1>1, <1>2 DEF Reaches, MovesAhead
<1>6. Reaches(Linked) => Reaches(Linked)'
  BY <1>1, <1>2, <1>4 DEF Reaches, MovesAhead
<1>7. lockLink' # Crashed
  <2>1. lockLink # Crashed
    BY <1>4 DEF CrashedIsCleared, MovesAhead
  <2>. QED  BY <1>1, <2>1 DEF MovesAhead
<1>8. CrashedIsCleared'
  BY <1>1, <1>2, <1>7 DEF CrashedIsCleared, MovesAhead
<1>9. OwnersAreAhead'
  <2>1. socketLink' \in Newcomers => proc'[socketLink'].at \in Ahead \/ Reaches(Linked)'
    BY <1>1, <1>2, <1>4, <1>6 DEF OwnersAreAhead, MovesAhead
  <2>2. cookieLink' \in Newcomers => proc'[cookieLink'].at \in Linked
    BY <1>1, <1>2, <1>4, ZenonT(40) DEF OwnersAreAhead, MovesAhead
  <2>. QED  BY <1>5, <2>1, <2>2 DEF OwnersAreAhead
<1>10. LeadersAnswer'
  <2>1. \A q \in Newcomers : proc[q].at \in Leading => proc'[q].at \in Leading
    BY <1>1, <1>2, <1>4 DEF MovesAhead
  <2>2. a \notin {"dial", "await"}
    BY <1>4 DEF MovesAhead
  <2>. QED  BY <1>1, <1>2, <2>1, <2>2 DEF LeadersAnswer, MovesAhead, At
<1>. QED  BY <1>3, <1>5, <1>8, <1>9, <1>10 DEF Overtaken

\* A process that finds a link of another one there tries a second time.
LEMMA FallsBehindKeeps ==
  ASSUME SingletonInv, NEW p \in Newcomers, proc[p].at \in {"link socket", "link cookie"},
         NotifyAgain(p), UNCHANGED <<lockLink, socketLink, cookieLink, socketDir>>,
         IF proc[p].at = "link socket" THEN socketLink # NoProcess ELSE cookieLink # NoProcess
  PROVE  SingletonInv'
<1>. USE DEF SingletonInv
<1>1. /\ p \in Process /\ p # Crashed /\ Newcomers \subseteq Process /\ Crashed \notin Newcomers
      /\ NoProcess \notin Process /\ Crashed \in Process
  BY SingletonAssumption DEF Newcomers
<1>2. /\ \A q \in Process \ {p} : proc'[q] = proc[q]
      /\ proc' \in [Process -> Requests] /\ proc'[p].at = "connect"
  BY <1>1, NotifyMoves DEF Moves
<1>3. /\ Leading \subseteq Linked /\ Linked \subseteq Ahead /\ Ahead \subseteq Locked
      /\ "connect" \notin Locked /\ proc[p].at \in Locked
      /\ {"link socket", "link cookie"} \cap Linked = {}
      /\ "link socket" \notin Ahead
  BY DEF Locked, Ahead, Linked, Leading
<1>4. SingletonTypeOK'
  BY <1>1, <1>2 DEF SingletonTypeOK, At
<1>5. \A q \in Newcomers : proc[q].at \in Linked => q # p /\ proc'[q] = proc[q]
  BY <1>1, <1>2, <1>3
<1>6. Reaches(Linked) => Reaches(Linked)'
  BY <1>5 DEF Reaches
<1>7. Reaches(Locked)'
  <2>1. CASE proc[p].at = "link socket"
    <3>1. socketLink \in Newcomers
      BY <1>1, <2>1 DEF SingletonTypeOK, CrashedIsCleared, Newcomers
    <3>2. CASE proc[socketLink].at \in Ahead
      BY <1>1, <1>2, <1>3, <2>1, <3>1, <3>2 DEF Reaches
    <3>3. CASE Reaches(Linked)
      BY <1>3, <1>6, <3>3 DEF Reaches
    <3>. QED  BY <3>1, <3>2, <3>3 DEF OwnersAreAhead
  <2>2. CASE proc[p].at = "link cookie"
    <3>1. cookieLink \in Newcomers
      BY <1>1, <2>2 DEF SingletonTypeOK, CrashedIsCleared, Newcomers
    <3>. QED  BY <1>3, <1>5, <3>1 DEF OwnersAreAhead, Reaches
  <2>. QED  BY <2>1, <2>2
<1>8. CrashedIsCleared'
  BY <1>1, <1>2, <1>3 DEF CrashedIsCleared
<1>9. OwnersAreAhead'
  <2>1. socketLink \in Newcomers => proc'[socketLink].at \in Ahead \/ Reaches(Linked)'
    <3>1. CASE socketLink = p
      <4>1. CASE proc[p].at = "link cookie"
        <5>1. cookieLink \in Newcomers
          BY <1>1, <4>1 DEF SingletonTypeOK, CrashedIsCleared, Newcomers
        <5>. QED  BY <1>5, <5>1 DEF OwnersAreAhead, Reaches
      <4>. QED  BY <1>3, <1>6, <3>1, <4>1 DEF OwnersAreAhead
    <3>. QED  BY <1>1, <1>2, <1>6, <3>1 DEF OwnersAreAhead
  <2>2. cookieLink \in Newcomers => proc'[cookieLink].at \in Linked
    BY <1>5 DEF OwnersAreAhead
  <2>. QED  BY <1>7, <2>1, <2>2 DEF OwnersAreAhead
<1>10. LeadersAnswer'
  BY <1>1, <1>2, <1>3, <1>5, ZenonT(40) DEF LeadersAnswer, At
<1>. QED  BY <1>4, <1>7, <1>8, <1>9, <1>10 DEF Overtaken

LEMMA CreateKeeps ==
  ASSUME SingletonInv, NEW p \in Process,
         \/ LinkLock(p) \/ UnlinkSocket(p) \/ UnlinkCookie(p) \/ LinkSocket(p) \/ LinkCookie(p)
         \/ Listen(p)
  PROVE  SingletonInv'
<1>. USE DEF At
<1>1. p \in Newcomers
  BY NewcomersStep DEF LinkLock, UnlinkSocket, UnlinkCookie, LinkSocket, LinkCookie, Listen
<1>2. /\ SingletonTypeOK /\ Locked \cup {"lock", "connect"} \subseteq Places
      /\ p # Crashed /\ NoProcess # Crashed /\ Crashed \in Process
      /\ \A q \in Newcomers : "socket" \in socketDir[q] => proc[q].at \in Leading
      /\ proc[p].at \in {"clear cookie", "link socket"} => socketLink # Crashed
      /\ proc[p].at \in {"link socket", "link cookie"} => cookieLink # Crashed
      /\ socketDir \in [Process -> SUBSET {"cookie", "socket"}]
  BY <1>1, SingletonAssumption
  DEF SingletonInv, SingletonTypeOK, CrashedIsCleared, LeadersAnswer, Newcomers, Places
<1>3. CASE LinkLock(p)
  <2>1. CASE lockLink \in {NoProcess, p}
    <3>1. Moves(p, "clear socket") /\ proc'[p].round = proc[p].round
      BY <1>2, <1>3, <2>1, GoesMoves DEF LinkLock, Locked
    <3>2. MovesAhead(p, "clear socket")
      BY <1>1, <1>2, <1>3, <2>1, <3>1 DEF LinkLock, MovesAhead, Locked, Ahead, Linked, Leading
    <3>. QED  BY <1>1, <3>2, AheadKeeps
  <2>2. CASE lockLink \notin {NoProcess, p}
    <3>1. Moves(p, "connect") /\ UNCHANGED <<lockLink, socketLink, cookieLink, socketDir>>
      BY <1>2, <1>3, <2>2, NotifyMoves DEF LinkLock
    <3>2. lockLink # Crashed
      BY <1>1, <1>3, Knows DEF LinkLock
    <3>3. Reaches(Locked)
      BY <2>2, <3>2 DEF SingletonInv, OwnersAreAhead, SingletonTypeOK, Newcomers
    <3>4. MovesBehind(p, "connect")
      BY <1>2, <1>3, <3>1, <3>2, <3>3
      DEF LinkLock, MovesBehind, Places, Locked, Ahead, Linked, Leading
    <3>. QED  BY <1>1, <3>4, BehindKeeps
  <2>. QED  BY <2>1, <2>2
<1>4. CASE UnlinkSocket(p)
  <2>1. Moves(p, "clear cookie") /\ proc'[p].round = proc[p].round
    BY <1>2, <1>4, GoesMoves DEF UnlinkSocket, Locked
  <2>2. MovesAhead(p, "clear cookie")
    BY <1>1, <1>2, <1>4, <2>1 DEF UnlinkSocket, MovesAhead, Locked, Ahead, Linked, Leading
  <2>. QED  BY <1>1, <2>2, AheadKeeps
<1>5. CASE UnlinkCookie(p)
  <2>1. Moves(p, "link socket") /\ proc'[p].round = proc[p].round
    BY <1>2, <1>5, GoesMoves DEF UnlinkCookie, Locked
  <2>2. MovesAhead(p, "link socket")
    BY <1>1, <1>2, <1>5, <2>1 DEF UnlinkCookie, MovesAhead, Locked, Ahead, Linked, Leading
  <2>. QED  BY <1>1, <2>2, AheadKeeps
<1>6. CASE LinkSocket(p)
  <2>1. CASE socketLink = NoProcess
    <3>1. Moves(p, "link cookie") /\ proc'[p].round = proc[p].round
      BY <1>2, <1>6, <2>1, GoesMoves DEF LinkSocket, Locked, Ahead
    <3>2. MovesAhead(p, "link cookie")
      BY <1>1, <1>2, <1>6, <2>1, <3>1 DEF LinkSocket, MovesAhead, Locked, Ahead, Linked, Leading
    <3>. QED  BY <1>1, <3>2, AheadKeeps
  <2>2. CASE socketLink # NoProcess
    BY <1>1, <1>6, <2>2, FallsBehindKeeps DEF LinkSocket
  <2>. QED  BY <2>1, <2>2
<1>7. CASE LinkCookie(p)
  <2>1. CASE cookieLink = NoProcess
    <3>1. Moves(p, "listen") /\ proc'[p].round = proc[p].round
      BY <1>2, <1>7, <2>1, GoesMoves DEF LinkCookie, Locked, Ahead, Linked
    <3>2. MovesAhead(p, "listen")
      BY <1>1, <1>2, <1>7, <2>1, <3>1 DEF LinkCookie, MovesAhead, Locked, Ahead, Linked, Leading
    <3>. QED  BY <1>1, <3>2, AheadKeeps
  <2>2. CASE cookieLink # NoProcess
    BY <1>1, <1>7, <2>2, FallsBehindKeeps DEF LinkCookie
  <2>. QED  BY <2>1, <2>2
<1>8. CASE Listen(p)
  <2>1. Moves(p, "primary") /\ proc'[p].round = proc[p].round
    BY <1>2, <1>8, GoesMoves DEF Listen, Locked, Ahead, Linked, Leading
  <2>2. MovesAhead(p, "primary")
    BY <1>1, <1>2, <1>8, <2>1 DEF Listen, MovesAhead, linkVars, Locked, Ahead, Linked, Leading
  <2>. QED  BY <1>1, <2>2, AheadKeeps
<1>. QED  BY <1>3, <1>4, <1>5, <1>6, <1>7, <1>8

\* The primary and its end.
LEMMA ReleaseKeeps ==
  ASSUME SingletonInv, NEW p \in Process,
         BeginsToQuit(p) \/ CleanupSocket(p) \/ CleanupCookie(p) \/ CleanupLock(p) \/ DeleteSocketDir(p)
  PROVE  SingletonInv'
<1>. USE DEF At
<1>1. p \in Newcomers
  BY NewcomersStep DEF BeginsToQuit, CleanupSocket, CleanupCookie, CleanupLock, DeleteSocketDir
<1>2. PICK a \in {"quitting", "drop cookie", "drop lock", "drop dir", "released"} :
         /\ Goes(p, a)
         /\ proc[p].at \in {"primary", "quitting", "drop cookie", "drop lock", "drop dir"}
  BY DEF BeginsToQuit, CleanupSocket, CleanupCookie, CleanupLock, DeleteSocketDir
<1>3. /\ SingletonTypeOK /\ a \in Places /\ a \in Leading
      /\ proc[p].at \in Leading /\ Leading \subseteq Linked /\ Linked \subseteq Ahead
      /\ Ahead \subseteq Locked /\ a \notin {"clear cookie", "link socket", "link cookie"}
  BY <1>2 DEF SingletonInv, Places, Locked, Ahead, Linked, Leading
<1>4. Moves(p, a) /\ proc'[p].round = proc[p].round
  BY <1>2, <1>3, GoesMoves
<1>5. /\ lockLink' \in {lockLink, NoProcess} /\ socketLink' \in {socketLink, NoProcess}
      /\ cookieLink' \in {cookieLink, NoProcess}
      /\ socketDir' = socketDir \/ socketDir' = [socketDir EXCEPT ![p] = {}]
  BY DEF BeginsToQuit, CleanupSocket, CleanupCookie, CleanupLock, DeleteSocketDir, linkVars
<1>6. MovesAhead(p, a)
  BY <1>1, <1>3, <1>4, <1>5 DEF MovesAhead, SingletonTypeOK
<1>. QED  BY <1>1, <1>6, AheadKeeps

\* The kill: of a process that then counts as one that was ahead.
LEMMA KillKeeps ==
  ASSUME SingletonInv, NEW p \in Process, KillProcess(p)
  PROVE  SingletonInv'
<1>. USE DEF SingletonInv, At
<1>. DEFINE q == proc[p].seen
            killed(r) == r # p /\ r = q /\ Alive(r)
<1>1. /\ p \in Newcomers /\ proc[p].at = "kill" /\ lockLink # Crashed
      /\ Newcomers \subseteq Process /\ Crashed \notin Newcomers /\ Crashed \in Process
  BY NewcomersStep, Knows, SingletonAssumption DEF KillProcess, Newcomers
<1>2. /\ \A r \in Process : proc[r] \in Requests
      /\ "lock" \in Places /\ "dead" \in Places /\ "dead" \in Leading
      /\ Leading \subseteq Linked /\ Linked \subseteq Ahead /\ Ahead \subseteq Locked
      /\ {"lock", "kill"} \cap Locked = {}
  BY DEF SingletonTypeOK, Places, Locked, Ahead, Linked, Leading
<1>3. UNCHANGED <<lockLink, socketLink, cookieLink, socketDir>>
  BY DEF KillProcess, linkVars
<1>4. proc' = [r \in Process |->
                 IF r = p THEN [proc[p] EXCEPT !.at = "lock"]
                 ELSE IF killed(r) THEN [proc[r] EXCEPT !.at = "dead"] ELSE proc[r]]
  BY DEF KillProcess
<1>5. /\ proc' \in [Process -> Requests] /\ proc'[p].at = "lock"
      /\ \A r \in Process \ {p} : proc'[r].at = proc[r].at \/ proc'[r].at = "dead"
      /\ \A r \in Process : proc'[r].round = proc[r].round /\ proc'[r].seen = proc[r].seen
  <2>1. \A r \in Process, x \in {"lock", "dead"} :
           /\ [proc[r] EXCEPT !.at = x] \in Requests /\ [proc[r] EXCEPT !.at = x].at = x
           /\ [proc[r] EXCEPT !.at = x].round = proc[r].round
           /\ [proc[r] EXCEPT !.at = x].seen = proc[r].seen
    BY <1>2 DEF Requests
  <2>. HIDE DEF killed
  <2>. QED  BY <1>1, <1>2, <1>4, <2>1
<1>6. \A r \in Process, S \in {Leading, Linked, Ahead, Locked} :
         proc[r].at \in S => proc'[r].at \in S
  BY <1>1, <1>2, <1>5
<1>7. SingletonTypeOK'
  BY <1>1, <1>3, <1>5 DEF SingletonTypeOK
<1>8. Reaches(Locked) => Reaches(Locked)'
  BY <1>1, <1>6 DEF Reaches
<1>9. Reaches(Linked) => Reaches(Linked)'
  BY <1>1, <1>6 DEF Reaches
<1>10. CrashedIsCleared'
  <2>1. {"clear cookie", "link socket", "link cookie"} \cap {"lock", "dead"} = {}
    OBVIOUS
  <2>. QED  BY <1>1, <1>3, <1>5, <2>1 DEF CrashedIsCleared
<1>11. OwnersAreAhead'
  BY <1>1, <1>3, <1>6, <1>8, <1>9 DEF OwnersAreAhead
<1>12. LeadersAnswer'
  BY <1>1, <1>3, <1>5, <1>6 DEF LeadersAnswer
<1>13. Overtaken'
  BY <1>1, <1>5, <1>8 DEF Overtaken
<1>. QED  BY <1>7, <1>10, <1>11, <1>12, <1>13

LEMMA SingletonStep ==
  ASSUME SingletonInv, [SingletonNext]_singletonVars
  PROVE  SingletonInv'
<1>1. CASE UNCHANGED singletonVars
  BY <1>1 DEF singletonVars, linkVars, SingletonInv, SingletonTypeOK, CrashedIsCleared,
     OwnersAreAhead, LeadersAnswer, Overtaken, Reaches, At
<1>. QED
  BY <1>1, SearchKeeps, ParseKeeps, UnlinkKeeps, FindKeeps, KillKeeps, AnswerKeeps, CreateKeeps,
     ReleaseKeeps DEF SingletonNext

\* process_singleton_posix.cc: the processes that start together, after one has crashed, never
\* all refuse, however their locks and links crossed (SomeoneLeads of the run library).
THEOREM SomeoneAlwaysLeads == SingletonSpec => []SomeoneLeads
<1>1. SingletonInit => SingletonInv
  BY SingletonInitInv
<1>2. SingletonInv /\ [SingletonNext]_singletonVars => SingletonInv'
  BY SingletonStep
<1>3. SingletonInv => SomeoneLeads
  <2>. SUFFICES ASSUME SingletonInv, \A p \in Newcomers : proc[p].at \in {"idle", "refused"},
                       NEW p \in Newcomers, proc[p].at # "idle"
                PROVE  FALSE
    BY DEF SomeoneLeads, At
  <2>1. Reaches(Locked)
    BY DEF SingletonInv, Overtaken
  <2>2. {"idle", "refused"} \cap Locked = {}
    BY DEF Locked, Ahead, Linked, Leading
  <2>. QED  BY <2>1, <2>2 DEF Reaches
<1>. QED  BY <1>1, <1>2, <1>3, PTL DEF SingletonSpec
-----------------------------------------------------------------------------
(***************************************************************************)
(* Menus.  First what a sequence holds after an insertion and a removal,   *)
(* then the invariant: at any time a menu's rows mirror its items from     *)
(* which nothing was removed; and until an item is inserted again, its     *)
(* rows hold its items and its commands, an item is in the menu that has   *)
(* its setter, the groups are the radio items with their ids, an item that *)
(* was never inserted is checked as it was made, and what a template       *)
(* builds ends with the item whose functions the prototype has.  Then one  *)
(* action after the other.                                                 *)
(***************************************************************************)
\* t is s with x after its first p elements.
IsInsertion(t, s, p, x) ==
  /\ Len(t) = Len(s) + 1 /\ t[p + 1] = x
  /\ \A k \in 1..p : t[k] = s[k]
  /\ \A k \in (p + 1)..Len(s) : t[k + 1] = s[k]

\* What is where after an insertion,
LEMMA InsertedAt ==
  ASSUME NEW S, NEW s \in Seq(S), NEW p \in 0..Len(s), NEW x \in S
  PROVE  InsertAt(s, p + 1, x) \in Seq(S) /\ IsInsertion(InsertAt(s, p + 1, x), s, p, x)
<1>. DEFINE a == SubSeq(s, 1, p)  b == SubSeq(s, p + 1, Len(s))
            t == InsertAt(s, p + 1, x)
<1>1. t = a \o <<x>> \o b
  <2>1. (p + 1) - 1 = p
    OBVIOUS
  <2>. QED  BY <2>1, Zenon DEF InsertAt
<1>2. a \in Seq(S) /\ Len(a) = p /\ \A k \in 1..p : a[k] = s[k]
  OBVIOUS
<1>3. /\ b \in Seq(S) /\ Len(b) = Len(s) - p
      /\ \A k \in 1..(Len(s) - p) : b[k] = s[p + k]
  OBVIOUS
<1>. HIDE DEF a, b, t
<1>. DEFINE c == a \o <<x>>
<1>4. c \in Seq(S) /\ Len(c) = p + 1 /\ c[p + 1] = x /\ \A k \in 1..p : c[k] = s[k]
  BY <1>2
<1>5. t = c \o b
  BY <1>1
<1>. HIDE DEF c
<1>6. /\ t \in Seq(S) /\ Len(t) = Len(s) + 1 /\ t[p + 1] = x
      /\ \A k \in 1..p : t[k] = s[k]
  <2>1. t \in Seq(S) /\ Len(t) = Len(s) + 1
    BY <1>3, <1>4, <1>5
  <2>2. \A k \in 1..(p + 1) : t[k] = c[k]
    BY <1>3, <1>4, <1>5
  <2>. QED  BY <1>4, <2>1, <2>2
<1>7. ASSUME NEW k \in (p + 1)..Len(s)  PROVE t[k + 1] = s[k]
  <2>1. k - p \in 1..(Len(s) - p) /\ k + 1 = Len(c) + (k - p) /\ p + (k - p) = k
    <3>1. Len(s) \in Nat /\ p \in Nat /\ k \in Nat /\ p + 1 <= k /\ k <= Len(s)
      OBVIOUS
    <3>2. Len(c) = p + 1
      BY <1>4
    <3>. QED  BY <3>1, <3>2, SMTT(30)
  <2>2. \A j \in 1..Len(b) : t[Len(c) + j] = b[j]
    BY <1>3, <1>4, <1>5
  <2>3. t[Len(c) + (k - p)] = b[k - p] /\ b[k - p] = s[p + (k - p)]
    BY <1>3, <2>1, <2>2
  <2>. QED  BY <2>1, <2>3
<1>8. t \in Seq(S) /\ IsInsertion(t, s, p, x)
  BY <1>6, <1>7 DEF IsInsertion
<1>. QED  BY <1>8 DEF t

\* Only elements of Z are in s more than once.
OnceOutside(s, Z) == \A k, l \in DOMAIN s : s[k] = s[l] => k = l \/ s[k] \in Z

\* An element that is new is put among the others; the others keep their order.
Gains(t, s, x) == Len(t) = Len(s) + 1 /\ ToSet(t) = ToSet(s) \cup {x}

LEMMA InsertedElements ==
  ASSUME NEW S, NEW s \in Seq(S), NEW p \in 0..Len(s), NEW x \in S
  PROVE  /\ InsertAt(s, p + 1, x) \in Seq(S)
         /\ Gains(InsertAt(s, p + 1, x), s, x)
         /\ \A Z : OnceOutside(s, Z) /\ (x \notin ToSet(s) \/ x \in Z) =>
                    OnceOutside(InsertAt(s, p + 1, x), Z)
<1>. DEFINE t == InsertAt(s, p + 1, x)
<1>1. t \in Seq(S) /\ IsInsertion(t, s, p, x)
  BY InsertedAt
<1>. HIDE DEF t
<1>2. \A k \in 1..Len(t) :
        \/ k \in 1..p /\ t[k] = s[k]
        \/ k = p + 1
        \/ k - 1 \in (p + 1)..Len(s) /\ t[k] = s[k - 1]
  BY <1>1, SMTT(30) DEF IsInsertion
<1>3. \A k \in 1..Len(s) : k \in 1..p \/ (k \in (p + 1)..Len(s) /\ k + 1 \in 1..Len(t))
  BY <1>1, SMTT(30) DEF IsInsertion
<1>4. /\ DOMAIN s = 1..Len(s) /\ DOMAIN t = 1..Len(t)
      /\ p + 1 \in 1..Len(t) /\ 1..p \subseteq 1..Len(t)
  BY <1>1 DEF IsInsertion
<1>5. ToSet(t) \subseteq ToSet(s) \cup {x}
  <2>1. \A k \in 1..Len(t) : t[k] = x \/ \E l \in 1..Len(s) : t[k] = s[l]
    BY <1>1, <1>2 DEF IsInsertion
  <2>. QED  BY <1>4, <2>1 DEF ToSet
<1>6. ToSet(s) \cup {x} \subseteq ToSet(t)
  <2>1. \A k \in 1..Len(s) : \E l \in 1..Len(t) : t[l] = s[k]
    BY <1>1, <1>3, <1>4 DEF IsInsertion
  <2>2. \E l \in 1..Len(t) : t[l] = x
    BY <1>1, <1>4 DEF IsInsertion
  <2>. QED  BY <1>4, <2>1, <2>2 DEF ToSet
<1>7. ASSUME NEW Z, OnceOutside(s, Z), x \notin ToSet(s) \/ x \in Z
      PROVE  OnceOutside(t, Z)
  <2>1. \A k, l \in 1..Len(s) : s[k] = s[l] => k = l \/ s[k] \in Z
    BY <1>4, <1>7 DEF OnceOutside
  <2>2. \A k \in 1..Len(s) : s[k] = x => x \in Z
    BY <1>4, <1>7 DEF ToSet
  <2>3. \A k, l \in 1..Len(t) : t[k] = t[l] => k = l \/ t[k] \in Z
    <3>. SUFFICES ASSUME NEW k \in 1..Len(t), NEW l \in 1..Len(t), t[k] = t[l], t[k] \notin Z
                  PROVE  k = l
      OBVIOUS
    <3>. DEFINE from(i) == IF i <= p THEN i ELSE i - 1
    <3>1. \A i \in 1..Len(t) : i # p + 1 => from(i) \in 1..Len(s) /\ t[i] = s[from(i)]
      BY <1>1, <1>2 DEF IsInsertion
    <3>2. k = p + 1 <=> l = p + 1
      <4>1. t[p + 1] = x
        BY <1>1 DEF IsInsertion
      <4>. HIDE DEF from
      <4>. QED  BY <4>1, <2>2, <3>1
    <3>3. k # p + 1 => from(k) = from(l)
      <4>. HIDE DEF from
      <4>. QED  BY <2>1, <3>1, <3>2
    <3>. QED  BY <3>2, <3>3
  <2>. QED  BY <1>4, <2>3 DEF OnceOutside
<1>8. Len(t) = Len(s) + 1
  BY <1>1 DEF IsInsertion
<1>9. Gains(t, s, x)
  BY <1>5, <1>6, <1>8 DEF Gains
<1>. QED  BY <1>1, <1>7, <1>9, Zenon DEF t

LEMMA RemovedElements ==
  ASSUME NEW S, NEW s \in Seq(S), NEW p \in 1..Len(s), NEW t, t = RemoveAt(s, p), IsInjective(s)
  PROVE  /\ t \in Seq(S) /\ Len(t) = Len(s) - 1
         /\ ToSet(t) = ToSet(s) \ {s[p]}
         /\ IsInjective(t)
<1>1. /\ t \in Seq(S) /\ Len(t) = Len(s) - 1
      /\ \A k \in 1..(p - 1) : t[k] = s[k]
      /\ \A k \in p..(Len(s) - 1) : t[k] = s[k + 1]
  BY RemovedAt, SMTT(30)
<1>2. /\ DOMAIN s = 1..Len(s) /\ DOMAIN t = 1..(Len(s) - 1)
      /\ \A k, l \in 1..Len(s) : s[k] = s[l] => k = l
  BY <1>1, SMTT(30) DEF IsInjective
<1>3. \A k \in 1..(Len(s) - 1) :
        \/ k \in 1..(p - 1) /\ k \in 1..Len(s) /\ k # p /\ t[k] = s[k]
        \/ k \in p..(Len(s) - 1) /\ k + 1 \in 1..Len(s) /\ k + 1 # p /\ t[k] = s[k + 1]
  BY <1>1
<1>4. \A k \in 1..Len(s) :
        \/ k = p
        \/ k \in 1..(p - 1) /\ k \in 1..(Len(s) - 1) /\ t[k] = s[k]
        \/ k - 1 \in p..(Len(s) - 1) /\ k - 1 \in 1..(Len(s) - 1) /\ t[k - 1] = s[k]
  BY <1>1
<1>5. ToSet(t) \subseteq ToSet(s) \ {s[p]}
  BY <1>2, <1>3 DEF ToSet
<1>6. ToSet(s) \ {s[p]} \subseteq ToSet(t)
  BY <1>2, <1>4 DEF ToSet
<1>7. IsInjective(t)
  BY <1>2, <1>3 DEF IsInjective
<1>. QED  BY <1>1, <1>5, <1>6, <1>7

\* Of any sequence: what is in it more than once may be left.
LEMMA RemovedSome ==
  ASSUME NEW S, NEW s \in Seq(S), NEW p \in 1..Len(s), NEW t, t = RemoveAt(s, p)
  PROVE  /\ t \in Seq(S) /\ Len(t) = Len(s) - 1
         /\ ToSet(s) \ {s[p]} \subseteq ToSet(t) /\ ToSet(t) \subseteq ToSet(s)
<1>1. /\ t \in Seq(S) /\ Len(t) = Len(s) - 1
      /\ \A k \in 1..(p - 1) : t[k] = s[k]
      /\ \A k \in p..(Len(s) - 1) : t[k] = s[k + 1]
  BY RemovedAt, SMTT(30)
<1>2. DOMAIN s = 1..Len(s) /\ DOMAIN t = 1..(Len(s) - 1)
  BY <1>1, SMTT(30)
<1>3. \A k \in 1..(Len(s) - 1) :
        \/ k \in 1..(p - 1) /\ k \in 1..Len(s) /\ t[k] = s[k]
        \/ k \in p..(Len(s) - 1) /\ k + 1 \in 1..Len(s) /\ t[k] = s[k + 1]
  BY <1>1
<1>4. \A k \in 1..Len(s) :
        \/ k = p
        \/ k \in 1..(p - 1) /\ k \in 1..(Len(s) - 1) /\ t[k] = s[k]
        \/ k - 1 \in p..(Len(s) - 1) /\ k - 1 \in 1..(Len(s) - 1) /\ t[k - 1] = s[k]
  BY <1>1
<1>5. ToSet(t) \subseteq ToSet(s)
  BY <1>2, <1>3 DEF ToSet
<1>6. ToSet(s) \ {s[p]} \subseteq ToSet(t)
  BY <1>2, <1>4 DEF ToSet
<1>. QED  BY <1>1, <1>5, <1>6

LEMMA RemovedFirst ==
  ASSUME NEW S, NEW s \in Seq(S), NEW x \in ToSet(s), NEW t, t = RemoveFirst(s, x), IsInjective(s)
  PROVE  t \in Seq(S) /\ ToSet(t) = ToSet(s) \ {x} /\ IsInjective(t)
<1>1. PICK p \in 1..Len(s) : s[p] = x
  BY DEF ToSet
<1>2. {k \in 1..Len(s) : s[k] = x} = {p}
  BY <1>1 DEF IsInjective
<1>3. Min({p}) = p
  BY <1>1 DEF Min
<1>4. t = RemoveAt(s, p)
  BY <1>1, <1>2, <1>3 DEF RemoveFirst, SelectInSeq
<1>. QED  BY <1>1, <1>4, RemovedElements

\* A set of numbers that is not empty and bounded has a greatest one.
LEMMA GreatestNumber ==
  ASSUME NEW n \in Nat, NEW T \in SUBSET (0..n), T # {}
  PROVE  \E x \in T : \A y \in T : y <= x
<1>. DEFINE U == {k \in 0..n : n - k \in T}
<1>1. U \in SUBSET Nat /\ U # {}
  <2>1. PICK y \in T : TRUE
    OBVIOUS
  <2>2. n - y \in 0..n /\ n - (n - y) = y
    BY <2>1
  <2>3. n - y \in U
    BY <2>1, <2>2
  <2>4. U \subseteq Nat
    OBVIOUS
  <2>. HIDE DEF U
  <2>. QED  BY <2>3, <2>4
<1>2. PICK k \in U : \A l \in U : k <= l
  BY <1>1, LeastNumber
<1>3. \A y \in T : n - y \in U
  OBVIOUS
<1>. QED  BY <1>2, <1>3

ItemIds == 1..Len(made)

\* At any time.
MenuTypeOK ==
  /\ made \in Seq(MenuOptions)
  /\ entries \in [MenuObjects -> Seq(Nat)] /\ rows \in [MenuObjects -> Seq(Nat)]
  /\ DOMAIN commands = MenuObjects

Mirrored ==
  \A m \in MenuObjects :
    /\ Len(entries[m]) <= Len(rows[m])
    /\ Len(entries[m]) = Len(rows[m]) =>
         \A k \in DOMAIN rows[m] : rows[m][k] = RowOf(entries[m][k])
    /\ commands[m] \subseteq ToSet(entries[m]) /\ ToSet(entries[m]) \subseteq ItemIds

\* Where JavaScript runs the roles.
NotRunIfRoles == MenuHost # "darwin" => DisabledIsNotRun

MenuAlways == MenuTypeOK /\ Mirrored /\ NotRunIfRoles

\* Until an item is inserted again.
TablesTypeOK ==
  /\ latest \in 0..Len(made)
  /\ groupId \in [ItemIds -> Nat] /\ checked \in [ItemIds -> BOOLEAN]
  /\ owner \in [ItemIds -> MenuObjects \cup {"nowhere"}]
  /\ nextGroup \in Nat /\ \A i \in ItemIds : groupId[i] <= nextGroup
  /\ DOMAIN groups = MenuObjects
  /\ \A m \in MenuObjects : \A g \in DOMAIN groups[m] : groups[m][g] \in Seq(Nat)
  /\ "template" \in menuCalls /\ "again" \notin menuCalls

\* A menu's items have their commands, and those that are not separators rows.
RowsHold ==
  \A m \in MenuObjects :
    /\ \A i \in ToSet(rows[m]) : i # 0 => i \in ItemIds /\ Type(i) # "separator"
    /\ ToSet(entries[m]) = commands[m]
    /\ \A i \in ToSet(entries[m]) : Type(i) # "separator" => i \in ToSet(rows[m])
    /\ OnceOutside(entries[m], {}) /\ OnceOutside(rows[m], {0})

\* What a menu has was inserted into it last.
AtHome ==
  \A m \in MenuObjects :
    /\ \A i \in ToSet(entries[m]) : owner[i] = m
    /\ \A i \in ToSet(rows[m]) : i # 0 => owner[i] = m
    /\ \A g \in DOMAIN groups[m] : \A i \in ToSet(groups[m][g]) : owner[i] = m

Ordered(s, t) ==
  \A k, l \in DOMAIN s : \A q, r \in DOMAIN t :
    k < l /\ t[q] = s[k] /\ t[r] = s[l] => q < r
RowsInOrder == "mixed" \notin menuCalls => \A m \in MenuObjects : Ordered(entries[m], rows[m])

\* The radio groups of a menu are its radio items with their ids; in the group
\* of the items without an id is what could not be inserted.
GroupsHold ==
  \A m \in MenuObjects :
    /\ \A i \in Radios(m) : groupId[i] # 0 /\ groupId[i] \in DOMAIN groups[m]
    /\ \A g \in DOMAIN groups[m] :
         /\ IsInjective(groups[m][g]) /\ ToSet(groups[m][g]) \subseteq ItemIds
         /\ g # 0 => ToSet(groups[m][g]) = {i \in Radios(m) : groupId[i] = g}
         /\ g = 0 => \A n \in MenuObjects : ToSet(groups[m][g]) \cap ToSet(entries[n]) = {}

NewAsMade == \A i \in ItemIds : owner[i] = "nowhere" => checked[i] = made[i].checked

\* Two radio items of a group are checked only if one of them came checked.
OneMark ==
  \A m \in MenuObjects : \A i, j \in Radios(m) :
    groupId[i] = groupId[j] /\ checked[i] /\ checked[j] =>
      i = j \/ made[i].checked \/ made[j].checked

ShownIsMarked ==
  \A m \in MenuObjects : \A i \in Radios(m) :
    ran = <<"shown", m>> => \E j \in Radios(m) : groupId[j] = groupId[i] /\ checked[j]

\* While a template is built, each item is inserted last and finds its group then.
TemplateHolds ==
  menuCalls = {"template"} =>
    /\ \A m \in MenuObjects : Len(entries[m]) = Len(rows[m])
    /\ latest # 0 /\ owner[latest] = "nowhere" => groupId[latest] = 0

OnceInv ==
  /\ TablesTypeOK /\ RowsHold /\ AtHome /\ RowsInOrder /\ GroupsHold /\ NewAsMade
  /\ OneMark /\ ShownIsMarked /\ TemplateHolds /\ SegmentsAreGroups

MenuInv == MenuAlways /\ ("again" \notin menuCalls => OnceInv)

LEMMA MenuInvImplies ==
  MenuInv => OneChecked /\ SegmentsAreGroups /\ RowsAreItems /\ NotRunIfRoles
<1>. SUFFICES ASSUME MenuInv PROVE OneChecked /\ SegmentsAreGroups /\ RowsAreItems
  BY DEF MenuInv, MenuAlways
<1>1. OneChecked
  <2>. SUFFICES ASSUME OnceInv PROVE OneChecked
    BY DEF MenuInv, OneChecked
  <2>1. ASSUME NEW m \in MenuObjects, NEW i \in Radios(m), ran = <<"shown", m>>
        PROVE  {j \in Radios(m) : groupId[j] = groupId[i] /\ checked[j]} # {}
    BY <2>1 DEF OnceInv, ShownIsMarked
  <2>2. ASSUME NEW m \in MenuObjects, NEW i \in Radios(m), NEW j \in Radios(m), NEW k \in Radios(m),
               groupId[j] = groupId[i], checked[j], groupId[k] = groupId[i], checked[k]
        PROVE  j = k \/ made[j].checked \/ made[k].checked
    BY <2>2 DEF OnceInv, OneMark
  <2>. QED  BY <2>1, <2>2 DEF OneChecked
<1>2. SegmentsAreGroups
  <2>1. menuCalls = {"template"} => "again" \notin menuCalls
    OBVIOUS
  <2>. QED  BY <2>1 DEF MenuInv, OnceInv, SegmentsAreGroups
<1>3. ASSUME NEW m \in MenuObjects
      PROVE  /\ Len(entries[m]) = Len(rows[m]) =>
                   \A k \in DOMAIN rows[m] : rows[m][k] = RowOf(entries[m][k])
             /\ ToSet(rows[m]) \cap commands[m] \subseteq ToSet(entries[m])
  BY DEF MenuInv, MenuAlways, Mirrored
<1>4. ASSUME "again" \notin menuCalls, NEW m \in MenuObjects
      PROVE  /\ ToSet(rows[m]) \cap commands[m] = {i \in ToSet(entries[m]) : Type(i) # "separator"}
             /\ IsInjective(entries[m])
             /\ \A q, r \in DOMAIN rows[m] : q # r /\ rows[m][q] = rows[m][r] => rows[m][q] = 0
             /\ "mixed" \notin menuCalls => Ordered(entries[m], rows[m])
  <2>1. RowsHold /\ RowsInOrder /\ ToSet(entries[m]) \subseteq ItemIds
    BY <1>4 DEF MenuInv, OnceInv, MenuAlways, Mirrored
  <2>2. ToSet(rows[m]) \cap commands[m] = {i \in ToSet(entries[m]) : Type(i) # "separator"}
    <3>1. 0 \notin ItemIds
      BY DEF ItemIds
    <3>. QED  BY <2>1, <3>1 DEF RowsHold
  <2>3. IsInjective(entries[m])
    BY <2>1 DEF RowsHold, OnceOutside, IsInjective
  <2>4. \A q, r \in DOMAIN rows[m] : q # r /\ rows[m][q] = rows[m][r] => rows[m][q] = 0
    BY <2>1 DEF RowsHold, OnceOutside
  <2>. QED  BY <2>1, <2>2, <2>3, <2>4 DEF RowsInOrder
<1>5. RowsAreItems
  BY <1>3, <1>4, Zenon DEF RowsAreItems, Ordered
<1>. QED  BY <1>1, <1>2, <1>5

LEMMA MenuInitHolds == MenusInit => MenuInv
<1>. SUFFICES ASSUME MenusInit PROVE MenuInv
  OBVIOUS
<1>1. /\ Len(<<>>) = 0 /\ \A S : <<>> \in Seq(S)
      /\ DOMAIN <<>> = {} /\ ToSet(<<>>) = {} /\ 1..0 = {}
  BY DEF ToSet
<1>2. /\ ItemIds = {} /\ \A m \in MenuObjects : /\ Radios(m) = {}
                                                  /\ entries[m] = <<>> /\ rows[m] = <<>>
      /\ \A m \in MenuObjects : DOMAIN groups[m] = {} /\ commands[m] = {}
  BY <1>1 DEF MenusInit, ItemIds, Radios
<1>3. MenuAlways
  <2>1. MenuTypeOK /\ NotRunIfRoles
    BY <1>1, <1>2 DEF MenusInit, MenuTypeOK, NotRunIfRoles, DisabledIsNotRun, MenuItemIds
  <2>2. Mirrored
    BY <1>1, <1>2 DEF Mirrored
  <2>. QED  BY <2>1, <2>2 DEF MenuAlways
<1>4. TablesTypeOK
  <2>1. \A S : <<>> \in [{} -> S]
    OBVIOUS
  <2>. QED  BY <1>1, <1>2, <2>1 DEF MenusInit, TablesTypeOK
<1>5. RowsHold /\ AtHome /\ RowsInOrder /\ GroupsHold /\ NewAsMade /\ OneMark /\ ShownIsMarked
  <2>1. \A m \in MenuObjects : ToSet(entries[m]) = {} /\ ToSet(rows[m]) = {}
    BY <1>1, <1>2
  <2>2. RowsHold /\ AtHome
    BY <1>1, <1>2, <2>1 DEF RowsHold, AtHome, OnceOutside
  <2>3. RowsInOrder
    BY <1>1, <1>2 DEF RowsInOrder, Ordered
  <2>4. GroupsHold /\ NewAsMade /\ OneMark /\ ShownIsMarked
    BY <1>2 DEF GroupsHold, NewAsMade, OneMark, ShownIsMarked
  <2>. QED  BY <2>2, <2>3, <2>4
<1>6. TemplateHolds /\ SegmentsAreGroups
  BY <1>1, <1>2 DEF MenusInit, TemplateHolds, SegmentsAreGroups
<1>. QED  BY <1>3, <1>4, <1>5, <1>6 DEF MenuInv, OnceInv

\* The entries of a menu are items.
LEMMA TheyAreItems ==
  ASSUME MenuAlways, NEW m \in MenuObjects
  PROVE  /\ entries[m] \in Seq(Nat) /\ rows[m] \in Seq(Nat)
         /\ Len(entries[m]) \in Nat /\ Len(rows[m]) \in Nat
         /\ DOMAIN entries[m] = 1..Len(entries[m]) /\ DOMAIN rows[m] = 1..Len(rows[m])
         /\ \A k \in DOMAIN entries[m] : entries[m][k] \in ItemIds /\ entries[m][k] \in ToSet(entries[m])
         /\ ToSet(entries[m]) \subseteq ItemIds /\ Len(entries[m]) <= Len(rows[m])
         /\ Radios(m) \subseteq ToSet(entries[m])
<1>1. /\ entries[m] \in Seq(Nat) /\ rows[m] \in Seq(Nat)
      /\ Len(entries[m]) \in Nat /\ Len(rows[m]) \in Nat
      /\ DOMAIN entries[m] = 1..Len(entries[m]) /\ DOMAIN rows[m] = 1..Len(rows[m])
  BY DEF MenuAlways, MenuTypeOK
<1>2. ToSet(entries[m]) \subseteq ItemIds /\ Len(entries[m]) <= Len(rows[m])
  BY DEF MenuAlways, Mirrored
<1>3. \A k \in DOMAIN entries[m] : entries[m][k] \in ToSet(entries[m])
  BY DEF ToSet
<1>4. Radios(m) \subseteq ToSet(entries[m])
  BY DEF Radios
<1>. QED  BY <1>1, <1>2, <1>3, <1>4, Zenon

Segmented(s, items, ids) ==
  \A k, l \in DOMAIN s :
    k < l /\ items[s[k]].type = "radio" /\ items[s[l]].type = "radio" =>
      ((ids[s[k]] = ids[s[l]]) <=> \A x \in k..l : items[s[x]].type # "separator")

LEMMA SegmentsBefore ==
  SegmentsAreGroups <=>
    (menuCalls = {"template"} => \A m \in MenuObjects : Segmented(entries[m], made, groupId))
  BY DEF SegmentsAreGroups, Segmented, Type

LEMMA SegmentsAfter ==
  SegmentsAreGroups' <=>
    (menuCalls' = {"template"} => \A m \in MenuObjects : Segmented(entries'[m], made', groupId'))
  BY DEF SegmentsAreGroups, Segmented, Type

\* Only the items of the menu count.
LEMMA SegmentedSame ==
  ASSUME NEW s, NEW items, NEW ids, NEW items2, NEW ids2, Segmented(s, items, ids),
         \A k, l \in DOMAIN s : k..l \subseteq DOMAIN s,
         \A k \in DOMAIN s : items2[s[k]] = items[s[k]] /\ ids2[s[k]] = ids[s[k]]
  PROVE  Segmented(s, items2, ids2)
<1>. SUFFICES ASSUME NEW k \in DOMAIN s, NEW l \in DOMAIN s, k < l,
                     items2[s[k]].type = "radio", items2[s[l]].type = "radio"
              PROVE  (ids2[s[k]] = ids2[s[l]]) <=> \A x \in k..l : items2[s[x]].type # "separator"
  BY DEF Segmented
<1>1. \A x \in k..l : items2[s[x]] = items[s[x]]
  OBVIOUS
<1>2. (ids[s[k]] = ids[s[l]]) <=> \A x \in k..l : items[s[x]].type # "separator"
  BY DEF Segmented
<1>. QED  BY <1>1, <1>2

\* A step that leaves the items and rows keeps what always holds of them.
LEMMA RowsRest ==
  ASSUME MenuAlways, UNCHANGED <<made, entries, rows, commands>>, NotRunIfRoles'
  PROVE  MenuAlways'
<1>1. MenuTypeOK'
  BY DEF MenuAlways, MenuTypeOK
<1>2. Mirrored'
  BY DEF MenuAlways, Mirrored, RowOf, Type, ItemIds
<1>. QED  BY <1>1, <1>2 DEF MenuAlways

LEMMA MakeItemAlways ==
  ASSUME MenuAlways, NEW o \in MenuOptions, MakeItem(o)
  PROVE  MenuAlways'
<1>1. made' = Append(made, o) /\ ran' = <<"none", 0>> /\ UNCHANGED <<entries, rows, commands>>
  BY DEF MakeItem
<1>2. /\ made \in Seq(MenuOptions) /\ made' \in Seq(MenuOptions) /\ ItemIds \subseteq ItemIds'
      /\ \A i \in ItemIds : made'[i] = made[i]
  BY <1>1 DEF MenuAlways, MenuTypeOK, ItemIds
<1>3. Mirrored'
  <2>. SUFFICES ASSUME NEW m \in MenuObjects
                PROVE  /\ Len(entries[m]) <= Len(rows[m])
                       /\ Len(entries[m]) = Len(rows[m]) =>
                            \A k \in DOMAIN rows[m] : rows[m][k] = RowOf(entries[m][k])'
                       /\ commands[m] \subseteq ToSet(entries[m]) /\ ToSet(entries[m]) \subseteq ItemIds'
    BY <1>1 DEF Mirrored, RowOf, Type
  <2>1. \A i \in ItemIds : RowOf(i)' = RowOf(i)
    BY <1>2 DEF RowOf, Type
  <2>2. /\ Len(entries[m]) <= Len(rows[m])
        /\ commands[m] \subseteq ToSet(entries[m]) /\ ToSet(entries[m]) \subseteq ItemIds'
    BY <1>2 DEF MenuAlways, Mirrored
  <2>3. ASSUME Len(entries[m]) = Len(rows[m]), NEW k \in DOMAIN rows[m]
        PROVE  rows[m][k] = RowOf(entries[m][k])'
    <3>1. entries[m][k] \in ItemIds /\ rows[m][k] = RowOf(entries[m][k])
      BY <2>3, TheyAreItems DEF MenuAlways, Mirrored
    <3>2. RowOf(entries[m][k])' = RowOf(entries[m][k])
      BY <1>1, <1>2, <3>1 DEF RowOf, Type
    <3>. QED  BY <3>1, <3>2
  <2>. QED  BY <2>2, <2>3
<1>4. MenuTypeOK' /\ NotRunIfRoles'
  BY <1>1, <1>2 DEF MenuAlways, MenuTypeOK, NotRunIfRoles, DisabledIsNotRun
<1>. QED  BY <1>3, <1>4 DEF MenuAlways

LEMMA MakeItemOnce ==
  ASSUME MenuAlways, OnceInv, NEW o \in MenuOptions, MakeItem(o)
  PROVE  OnceInv'
<1>. DEFINE n == Len(made) + 1
<1>1. /\ made' = Append(made, o) /\ groupId' = Append(groupId, 0)
      /\ checked' = Append(checked, o.checked) /\ owner' = Append(owner, "nowhere")
      /\ latest' \in {0, n} /\ ran' = <<"none", 0>>
      /\ UNCHANGED <<entries, rows, groups, commands, nextGroup, menuCalls>>
  BY DEF MakeItem
<1>2. /\ made \in Seq(MenuOptions) /\ Len(made) \in Nat /\ n \in Nat
      /\ groupId \in [1..Len(made) -> Nat] /\ checked \in [1..Len(made) -> BOOLEAN]
      /\ owner \in [1..Len(made) -> MenuObjects \cup {"nowhere"}]
      /\ o.checked \in BOOLEAN
  BY MenuAssumption DEF MenuAlways, OnceInv, MenuTypeOK, TablesTypeOK, ItemIds, IsOption
<1>3. /\ Len(made') = n /\ made'[n] = o
      /\ \A i \in 1..Len(made) : made'[i] = made[i]
  BY <1>1, <1>2
<1>4. /\ groupId' \in [1..n -> Nat] /\ groupId'[n] = 0
      /\ \A i \in 1..Len(made) : groupId'[i] = groupId[i]
  <2>1. groupId \in Seq(Nat) /\ Len(groupId) = Len(made)
    BY <1>2, LenProperties
  <2>2. groupId' \in Seq(Nat) /\ Len(groupId') = n
    BY <1>1, <1>2, <2>1, AppendProperties
  <2>3. groupId' \in [1..n -> Nat]
    BY <2>2, LenProperties
  <2>4. \A i \in 1..Len(groupId) : groupId'[i] = groupId[i]
    BY <1>1, <1>2, <2>1, AppendProperties
  <2>5. groupId'[Len(groupId) + 1] = 0
    BY <1>1, <1>2, <2>1, AppendProperties
  <2>. QED  BY <2>1, <2>3, <2>4, <2>5
<1>5. /\ checked' \in [1..n -> BOOLEAN] /\ checked'[n] = o.checked
      /\ \A i \in 1..Len(made) : checked'[i] = checked[i]
  <2>1. checked \in Seq(BOOLEAN) /\ Len(checked) = Len(made)
    BY <1>2, LenProperties
  <2>2. checked' \in Seq(BOOLEAN) /\ Len(checked') = n
    BY <1>1, <1>2, <2>1, AppendProperties
  <2>3. checked' \in [1..n -> BOOLEAN]
    BY <2>2, LenProperties
  <2>4. \A i \in 1..Len(checked) : checked'[i] = checked[i]
    BY <1>1, <1>2, <2>1, AppendProperties
  <2>5. checked'[Len(checked) + 1] = o.checked
    BY <1>1, <1>2, <2>1, AppendProperties
  <2>. QED  BY <2>1, <2>3, <2>4, <2>5
<1>6. /\ owner' \in [1..n -> MenuObjects \cup {"nowhere"}] /\ owner'[n] = "nowhere"
      /\ \A i \in 1..Len(made) : owner'[i] = owner[i]
  <2>1. owner \in Seq(MenuObjects \cup {"nowhere"}) /\ Len(owner) = Len(made)
    BY <1>2, LenProperties
  <2>2. owner' \in Seq(MenuObjects \cup {"nowhere"}) /\ Len(owner') = n
    BY <1>1, <1>2, <2>1, AppendProperties
  <2>3. owner' \in [1..n -> MenuObjects \cup {"nowhere"}]
    BY <2>2, LenProperties
  <2>4. \A i \in 1..Len(owner) : owner'[i] = owner[i]
    BY <1>1, <1>2, <2>1, AppendProperties
  <2>5. owner'[Len(owner) + 1] = "nowhere"
    BY <1>1, <1>2, <2>1, AppendProperties
  <2>. QED  BY <2>1, <2>3, <2>4, <2>5
<1>7. ItemIds' = ItemIds \cup {n} /\ n \notin ItemIds /\ ItemIds' = 1..n /\ n # 0
  BY <1>2, <1>3 DEF ItemIds
<1>8. \A i \in ItemIds : /\ made'[i] = made[i] /\ groupId'[i] = groupId[i]
                         /\ checked'[i] = checked[i] /\ owner'[i] = owner[i]
  BY <1>3, <1>4, <1>5, <1>6 DEF ItemIds
<1>. HIDE DEF n
<1>9. TablesTypeOK'
  BY <1>1, <1>2, <1>3, <1>4, <1>5, <1>6, <1>7, <1>8 DEF OnceInv, TablesTypeOK
<1>10. RowsHold'
  <2>1. \A i \in ItemIds : Type(i)' = Type(i)
    BY <1>8 DEF Type
  <2>2. ASSUME NEW m \in MenuObjects
        PROVE  /\ \A i \in ToSet(rows[m]) : i # 0 => i \in ItemIds' /\ made'[i].type # "separator"
               /\ \A i \in ToSet(entries[m]) : made'[i].type # "separator" => i \in ToSet(rows[m])
    BY <1>7, <1>8, TheyAreItems DEF OnceInv, RowsHold, Type
  <2>. QED  BY <1>1, <2>2 DEF OnceInv, RowsHold, Type
<1>11. AtHome'
  <2>1. ASSUME NEW m \in MenuObjects
        PROVE  /\ \A i \in ToSet(entries[m]) : owner'[i] = m
               /\ \A i \in ToSet(rows[m]) : i # 0 => owner'[i] = m
               /\ \A g \in DOMAIN groups[m] : \A i \in ToSet(groups[m][g]) : owner'[i] = m
    BY <1>8, TheyAreItems DEF OnceInv, AtHome, RowsHold, GroupsHold
  <2>. QED  BY <1>1, <2>1 DEF AtHome
<1>12. RowsInOrder'
  BY <1>1 DEF OnceInv, RowsInOrder
<1>13. \A m \in MenuObjects : Radios(m)' = Radios(m) /\ Radios(m) \subseteq ItemIds
  BY <1>1, <1>8, TheyAreItems DEF Radios, Type
<1>14. GroupsHold'
  <2>. SUFFICES ASSUME NEW m \in MenuObjects
                PROVE  /\ \A i \in Radios(m) : groupId'[i] # 0 /\ groupId'[i] \in DOMAIN groups[m]
                       /\ \A g \in DOMAIN groups[m] :
                            /\ IsInjective(groups[m][g]) /\ ToSet(groups[m][g]) \subseteq ItemIds'
                            /\ g # 0 => ToSet(groups[m][g]) = {i \in Radios(m) : groupId'[i] = g}
                            /\ g = 0 => \A k \in MenuObjects : ToSet(groups[m][g]) \cap ToSet(entries[k]) = {}
    BY <1>1, <1>13 DEF GroupsHold
  <2>1. \A i \in Radios(m) : groupId'[i] = groupId[i]
    BY <1>8, <1>13
  <2>2. \A g : {i \in Radios(m) : groupId'[i] = g} = {i \in Radios(m) : groupId[i] = g}
    BY <2>1
  <2>3. \A i \in Radios(m) : groupId'[i] # 0 /\ groupId'[i] \in DOMAIN groups[m]
    BY <2>1 DEF OnceInv, GroupsHold
  <2>4. ASSUME NEW g \in DOMAIN groups[m]
        PROVE  /\ IsInjective(groups[m][g]) /\ ToSet(groups[m][g]) \subseteq ItemIds'
               /\ g # 0 => ToSet(groups[m][g]) = {i \in Radios(m) : groupId'[i] = g}
               /\ g = 0 => \A k \in MenuObjects : ToSet(groups[m][g]) \cap ToSet(entries[k]) = {}
    <3>1. /\ IsInjective(groups[m][g]) /\ ToSet(groups[m][g]) \subseteq ItemIds
          /\ g # 0 => ToSet(groups[m][g]) = {i \in Radios(m) : groupId[i] = g}
          /\ g = 0 => \A k \in MenuObjects : ToSet(groups[m][g]) \cap ToSet(entries[k]) = {}
      BY DEF OnceInv, GroupsHold
    <3>. QED  BY <1>7, <2>2, <3>1
  <2>. QED  BY <2>3, <2>4
<1>15. NewAsMade'
  BY <1>3, <1>5, <1>7, <1>8 DEF OnceInv, NewAsMade
<1>16. OneMark' /\ ShownIsMarked'
  <2>1. \A m \in MenuObjects : \A i \in Radios(m) :
          groupId'[i] = groupId[i] /\ checked'[i] = checked[i] /\ made'[i] = made[i]
    BY <1>8, <1>13
  <2>2. OneMark'
    BY <1>13, <2>1 DEF OnceInv, OneMark
  <2>3. ShownIsMarked'
    BY <1>1 DEF ShownIsMarked
  <2>. QED  BY <2>2, <2>3
<1>17. TemplateHolds'
  BY <1>1, <1>4 DEF OnceInv, TemplateHolds
<1>18. SegmentsAreGroups'
  <2>1. ASSUME NEW m \in MenuObjects, Segmented(entries[m], made, groupId)
        PROVE  Segmented(entries'[m], made', groupId')
    <3>1. /\ \A k \in DOMAIN entries[m] : entries[m][k] \in ItemIds
          /\ \A k, l \in DOMAIN entries[m] : k..l \subseteq DOMAIN entries[m]
      BY TheyAreItems
    <3>2. \A k \in DOMAIN entries[m] :
             /\ made'[entries[m][k]] = made[entries[m][k]]
             /\ groupId'[entries[m][k]] = groupId[entries[m][k]]
      BY <1>8, <3>1
    <3>. QED  BY <1>1, <2>1, <3>1, <3>2, SegmentedSame, ZenonT(40)
  <2>. QED  BY <1>1, <2>1, SegmentsBefore, SegmentsAfter DEF OnceInv
<1>. QED  BY <1>9, <1>10, <1>11, <1>12, <1>14, <1>15, <1>16, <1>17, <1>18 DEF OnceInv

\* A radio item's group is the radio items of the menu with its id,
LEMMA RadioGroup ==
  ASSUME OnceInv, NEW m \in MenuObjects, NEW i \in Radios(m)
  PROVE  /\ groupId[i] # 0 /\ groupId[i] \in DOMAIN groups[m]
         /\ ToSet(groups[m][groupId[i]]) = {j \in Radios(m) : groupId[j] = groupId[i]}
  BY DEF OnceInv, GroupsHold

\* and no radio item is in two menus.
LEMMA RadioAtHome ==
  ASSUME MenuAlways, OnceInv, NEW m \in MenuObjects, NEW i \in Radios(m)
  PROVE  owner[i] = m /\ i \in ItemIds
  BY TheyAreItems DEF OnceInv, AtHome

\* What only checks items, or shows what it checked, keeps the tables right.
LEMMA ChecksKeep ==
  ASSUME MenuAlways, OnceInv, UNCHANGED <<made, latest, groupId, menuTables, menuCalls>>,
         checked' \in [ItemIds -> BOOLEAN], NewAsMade', OneMark', ShownIsMarked'
  PROVE  OnceInv'
<1>1. /\ UNCHANGED <<made, latest, groupId, owner, entries, rows, groups, commands>>
      /\ UNCHANGED <<nextGroup, menuCalls>>
  BY DEF menuTables
<1>2. ItemIds' = ItemIds /\ \A m : Radios(m)' = Radios(m)
  BY <1>1 DEF ItemIds, Radios, Type
<1>3. TablesTypeOK'
  BY <1>1, <1>2 DEF OnceInv, TablesTypeOK
<1>4. RowsHold'
  BY <1>1, <1>2 DEF OnceInv, RowsHold, Type
<1>5. AtHome' /\ RowsInOrder'
  BY <1>1 DEF OnceInv, AtHome, RowsInOrder
<1>6. GroupsHold'
  BY <1>1, <1>2 DEF OnceInv, GroupsHold
<1>7. TemplateHolds'
  BY <1>1 DEF OnceInv, TemplateHolds
<1>8. SegmentsAreGroups'
  BY <1>1, SegmentsBefore, SegmentsAfter DEF OnceInv
<1>. QED  BY <1>3, <1>4, <1>5, <1>6, <1>7, <1>8 DEF OnceInv

\* What the setter of a radio item leaves checked, wherever the item is.
LEMMA CheckRadioMarks ==
  ASSUME MenuAlways, OnceInv, NEW i \in ItemIds, HasGroup(i),
         checked' = CheckRadio(i), UNCHANGED <<made, groupId, menuTables>>
  PROVE  checked' \in [ItemIds -> BOOLEAN] /\ OneMark' /\ NewAsMade'
<1>. DEFINE m == owner[i]
            g == groupId[i]
            G == ToSet(groups[m][g]) \cup {i}
<1>1. m \in MenuObjects /\ g \in DOMAIN groups[m]
  BY DEF HasGroup, OnceInv, TablesTypeOK
<1>2. /\ checked' = [x \in ItemIds |-> IF x \in G THEN x = i ELSE checked[x]]
      /\ checked \in [ItemIds -> BOOLEAN]
  <2>1. DOMAIN made = ItemIds /\ checked \in [ItemIds -> BOOLEAN]
    BY DEF MenuAlways, OnceInv, MenuTypeOK, TablesTypeOK, ItemIds
  <2>. QED  BY <2>1, Zenon DEF CheckRadio, MenuItemIds
<1>3. UNCHANGED <<made, groupId, owner, entries, rows, groups, commands, nextGroup>>
  BY DEF menuTables
<1>4. \A n \in MenuObjects : Radios(n)' = Radios(n)
  BY <1>3 DEF Radios, Type
<1>5. \A x \in G : owner[x] = m
  BY <1>1 DEF OnceInv, AtHome
<1>6. ASSUME NEW j \in Radios(m), groupId[j] = g
      PROVE  j \in G
  BY <1>1, <1>6, RadioGroup
<1>. HIDE DEF G
<1>7. OneMark'
  <2>. SUFFICES ASSUME NEW n \in MenuObjects, NEW j \in Radios(n), NEW k \in Radios(n),
                       groupId[j] = groupId[k], checked'[j], checked'[k]
                PROVE  j = k \/ made[j].checked \/ made[k].checked
    BY <1>3, <1>4 DEF OneMark
  <2>1. j \in ItemIds /\ k \in ItemIds /\ owner[j] = n /\ owner[k] = n
    BY RadioAtHome
  <2>2. /\ j \in G => j = i
        /\ k \in G => k = i
    BY <1>2, <2>1
  <2>3. j = i => k \in G
    BY <1>6, <2>1
  <2>4. k = i => j \in G
    BY <1>6, <2>1
  <2>5. CASE j \notin G /\ k \notin G
    <3>1. checked[j] /\ checked[k]
      BY <1>2, <2>1, <2>5
    <3>. QED  BY <3>1 DEF OnceInv, OneMark
  <2>. QED  BY <2>2, <2>3, <2>4, <2>5
<1>8. NewAsMade'
  <2>1. \A x \in G : owner[x] # "nowhere"
    BY <1>1, <1>5, MenuAssumption
  <2>. QED  BY <1>2, <1>3, <2>1 DEF OnceInv, NewAsMade, ItemIds
<1>9. checked' \in [ItemIds -> BOOLEAN]
  BY <1>2
<1>. QED  BY <1>7, <1>8, <1>9

LEMMA SetCheckedKeeps ==
  ASSUME MenuAlways, NEW i \in ItemIds, SetChecked(i)
  PROVE  MenuAlways' /\ (OnceInv => OnceInv')
<1>1. /\ HasGroup(i) /\ checked' = CheckRadio(i) /\ ran' = <<"none", 0>>
      /\ UNCHANGED <<made, latest, groupId, menuTables, menuCalls>>
  BY DEF SetChecked
<1>2. MenuAlways'
  <2>1. NotRunIfRoles' /\ UNCHANGED <<made, entries, rows, commands>>
    BY <1>1 DEF NotRunIfRoles, DisabledIsNotRun, menuTables
  <2>. QED  BY <2>1, RowsRest
<1>3. ASSUME OnceInv  PROVE OnceInv'
  <2>1. checked' \in [ItemIds -> BOOLEAN] /\ OneMark' /\ NewAsMade'
    BY <1>1, <1>3, CheckRadioMarks
  <2>2. ShownIsMarked'
    BY <1>1 DEF ShownIsMarked
  <2>. QED  BY <1>1, <1>3, <2>1, <2>2, ChecksKeep
<1>. QED  BY <1>2, <1>3

\* A group without a mark gets one, on the first of its items.
LEMMA MenuWillShowKeeps ==
  ASSUME MenuAlways, NEW m \in MenuObjects, MenuWillShow(m)
  PROVE  MenuAlways' /\ (OnceInv => OnceInv')
<1>1. MenuAlways'
  <2>1. NotRunIfRoles' /\ UNCHANGED <<made, entries, rows, commands>>
    BY DEF MenuWillShow, NotRunIfRoles, DisabledIsNotRun, menuTables
  <2>. QED  BY <2>1, RowsRest
<1>. SUFFICES ASSUME OnceInv PROVE OnceInv'
  BY <1>1
<1>. DEFINE without == {g \in DOMAIN groups[m] \ {0} :
                          groups[m][g] # <<>> /\ \A x \in ToSet(groups[m][g]) : ~checked[x]}
            heads == {Head(groups[m][g]) : g \in without}
<1>2. /\ checked' = [x \in ItemIds |-> checked[x] \/ x \in heads]
      /\ ran' = <<"shown", m>>
      /\ UNCHANGED <<made, latest, groupId, menuTables, menuCalls>>
  <2>1. DOMAIN made = ItemIds
    BY DEF MenuAlways, MenuTypeOK, ItemIds
  <2>. QED  BY <2>1 DEF MenuWillShow, MenuItemIds
<1>3. UNCHANGED <<made, groupId, owner, entries, rows, groups, commands, nextGroup>>
  BY <1>2 DEF menuTables
<1>4. \A n \in MenuObjects : Radios(n)' = Radios(n)
  BY <1>3 DEF Radios, Type
<1>5. checked \in [ItemIds -> BOOLEAN]
  BY DEF OnceInv, TablesTypeOK
<1>6. ASSUME NEW g \in without
      PROVE  /\ Head(groups[m][g]) \in ToSet(groups[m][g])
             /\ \A x \in ToSet(groups[m][g]) : ~checked[x]
             /\ ToSet(groups[m][g]) = {j \in Radios(m) : groupId[j] = g}
  <2>1. groups[m][g] \in Seq(Nat) /\ groups[m][g] # <<>>
    BY DEF OnceInv, TablesTypeOK
  <2>2. Head(groups[m][g]) = groups[m][g][1] /\ 1 \in DOMAIN groups[m][g]
    BY <2>1
  <2>3. ToSet(groups[m][g]) = {j \in Radios(m) : groupId[j] = g}
    BY DEF OnceInv, GroupsHold
  <2>. QED  BY <2>2, <2>3 DEF ToSet
<1>7. ASSUME NEW g \in without
      PROVE  /\ Head(groups[m][g]) \in Radios(m) /\ groupId[Head(groups[m][g])] = g
             /\ owner[Head(groups[m][g])] = m
  <2>. HIDE DEF without
  <2>1. Head(groups[m][g]) \in Radios(m) /\ groupId[Head(groups[m][g])] = g
    BY <1>6
  <2>. QED  BY <2>1, RadioAtHome
<1>. HIDE DEF without
<1>8. OneMark'
  <2>. SUFFICES ASSUME NEW n \in MenuObjects, NEW j \in Radios(n), NEW k \in Radios(n),
                       groupId[j] = groupId[k], checked'[j], checked'[k]
                PROVE  j = k \/ made[j].checked \/ made[k].checked
    BY <1>3, <1>4 DEF OneMark
  <2>1. j \in ItemIds /\ k \in ItemIds
    BY RadioAtHome
  <2>2. ASSUME NEW y \in Radios(n), NEW z \in Radios(n), groupId[y] = groupId[z],
               y \in heads, checked'[z]
        PROVE  y = z
    <3>1. PICK g \in without : y = Head(groups[m][g])
      BY <2>2
    <3>2. n = m /\ groupId[y] = g
      BY <1>7, <3>1, RadioAtHome
    <3>3. z \in ToSet(groups[m][g]) /\ z \in ItemIds
      BY <1>6, <2>2, <3>2, RadioAtHome
    <3>4. z \in heads
      BY <1>2, <1>6, <2>2, <3>3
    <3>5. PICK h \in without : z = Head(groups[m][h])
      BY <3>4
    <3>6. groupId[z] = h
      BY <1>7, <3>5
    <3>. QED  BY <2>2, <3>1, <3>2, <3>5, <3>6
  <2>3. CASE j \in heads
    BY <2>2, <2>3
  <2>4. CASE k \in heads
    BY <2>2, <2>4
  <2>5. CASE j \notin heads /\ k \notin heads
    BY <1>2, <2>1, <2>5 DEF OnceInv, OneMark
  <2>. QED  BY <2>3, <2>4, <2>5
<1>9. NewAsMade'
  <2>1. \A x \in heads : owner[x] # "nowhere"
    BY <1>7, MenuAssumption
  <2>. HIDE DEF heads
  <2>2. \A x \in ItemIds : owner[x] = "nowhere" => checked'[x] = checked[x]
    BY <1>2, <1>5, <2>1
  <2>. QED  BY <1>3, <2>2 DEF OnceInv, NewAsMade, ItemIds
<1>10. ShownIsMarked'
  <2>. SUFFICES ASSUME NEW i \in Radios(m)
                PROVE  \E j \in Radios(m) : groupId[j] = groupId[i] /\ checked'[j]
    BY <1>2, <1>3, <1>4 DEF ShownIsMarked
  <2>. DEFINE g == groupId[i]
  <2>1. g # 0 /\ g \in DOMAIN groups[m] /\ ToSet(groups[m][g]) = {j \in Radios(m) : groupId[j] = g}
    BY RadioGroup
  <2>2. \A j \in Radios(m) : j \in ItemIds
    BY RadioAtHome
  <2>. HIDE DEF g
  <2>3. CASE \E j \in ToSet(groups[m][g]) : checked[j]
    BY <1>2, <2>1, <2>2, <2>3 DEF g
  <2>4. CASE \A j \in ToSet(groups[m][g]) : ~checked[j]
    <3>1. i \in ToSet(groups[m][g])
      BY <2>1 DEF g
    <3>2. groups[m][g] # <<>>
      BY <3>1 DEF ToSet
    <3>3. g \in without
      BY <2>1, <2>4, <3>2 DEF without
    <3>4. Head(groups[m][g]) \in heads /\ Head(groups[m][g]) \in ToSet(groups[m][g])
      BY <1>6, <3>3
    <3>. QED  BY <1>2, <2>1, <2>2, <3>4 DEF g
  <2>. QED  BY <2>3, <2>4
<1>11. checked' \in [ItemIds -> BOOLEAN]
  BY <1>2, <1>5
<1>. QED  BY <1>2, <1>8, <1>9, <1>10, <1>11, ChecksKeep

\* A click changes what is checked as the setter does, and does not reach the
\* click handler of an item that the application disabled.
LEMMA ClickKeeps ==
  ASSUME MenuAlways, NEW m \in MenuObjects, NEW i \in ItemIds, NEW f, Click(m, i, f)
  PROVE  MenuAlways' /\ (OnceInv => OnceInv')
<1>1. /\ i \in commands[m] /\ i \in ToSet(rows[m])
      /\ Type(i) \in {"normal", "checkbox", "radio"} /\ IsCommandIdEnabled(i, f)
      /\ Type(i) = "radio" => HasGroup(i)
      /\ ran' = <<IF Execute(made[i].role, f) THEN "role" ELSE "click", i>>
      /\ UNCHANGED <<made, latest, groupId, menuTables, menuCalls>>
  BY DEF Click
<1>2. checked' = CASE Type(i) = "radio" -> CheckRadio(i)
                   [] Type(i) = "checkbox" -> [checked EXCEPT ![i] = ~@]
                   [] OTHER -> checked
  BY DEF Click
<1>3. UNCHANGED <<made, groupId, owner, entries, rows, groups, commands, nextGroup>>
  BY <1>1 DEF menuTables
<1>4. MenuAlways'
  <2>1. ASSUME MenuHost # "darwin", ~Execute(made[i].role, f)  PROVE made[i].enabled
    BY <1>1, <2>1 DEF IsCommandIdEnabled, Execute, RoleMethod
  <2>2. NotRunIfRoles'
    BY <1>1, <2>1 DEF NotRunIfRoles, DisabledIsNotRun
  <2>. QED  BY <1>3, <2>2, RowsRest
<1>. SUFFICES ASSUME OnceInv PROVE OnceInv'
  BY <1>4
<1>5. checked \in [ItemIds -> BOOLEAN]
  BY DEF OnceInv, TablesTypeOK
<1>6. checked' \in [ItemIds -> BOOLEAN] /\ OneMark' /\ NewAsMade'
  <2>1. CASE Type(i) = "radio"
    <3>1. checked' = CheckRadio(i)
      BY <1>2, <2>1
    <3>. QED  BY <1>1, <2>1, <3>1, CheckRadioMarks
  <2>2. CASE Type(i) # "radio"
    <3>1. checked' \in [ItemIds -> BOOLEAN] /\ \A x \in ItemIds : x # i => checked'[x] = checked[x]
      <4>1. CASE Type(i) = "checkbox"
        BY <1>2, <1>5, <4>1
      <4>2. CASE Type(i) # "checkbox"
        BY <1>2, <1>5, <2>2, <4>2
      <4>. QED  BY <4>1, <4>2
    <3>2. \A n \in MenuObjects : Radios(n)' = Radios(n) /\ i \notin Radios(n) /\ Radios(n) \subseteq ItemIds
      BY <1>3, <2>2, TheyAreItems DEF Radios, Type
    <3>3. OneMark'
      BY <1>3, <3>1, <3>2 DEF OnceInv, OneMark
    <3>4. owner[i] # "nowhere"
      BY <1>1, MenuAssumption DEF OnceInv, RowsHold, AtHome
    <3>5. NewAsMade'
      BY <1>3, <3>1, <3>4 DEF OnceInv, NewAsMade, ItemIds
    <3>. QED  BY <3>1, <3>3, <3>5
  <2>. QED  BY <2>1, <2>2
<1>7. ShownIsMarked'
  BY <1>1 DEF ShownIsMarked
<1>. QED  BY <1>1, <1>6, <1>7, ChecksKeep

\* What stays of the entries stays in their order.
LEMMA RemovalKeepsOrder ==
  ASSUME NEW S, NEW s \in Seq(S), NEW p \in 1..Len(s), NEW t, Ordered(s, t)
  PROVE  Ordered(RemoveAt(s, p), t)
<1>. DEFINE u == RemoveAt(s, p)
            from(k) == IF k < p THEN k ELSE k + 1
<1>1. /\ u \in Seq(S) /\ Len(u) = Len(s) - 1
      /\ \A k \in 1..(p - 1) : u[k] = s[k]
      /\ \A k \in p..(Len(s) - 1) : u[k] = s[k + 1]
  BY RemovedAt
<1>. HIDE DEF u
<1>2. \A k \in DOMAIN u : from(k) \in DOMAIN s /\ u[k] = s[from(k)]
  <2>1. DOMAIN u = 1..(Len(s) - 1) /\ DOMAIN s = 1..Len(s) /\ Len(s) \in Nat
    BY <1>1
  <2>2. ASSUME NEW k \in DOMAIN u  PROVE from(k) \in DOMAIN s /\ u[k] = s[from(k)]
    <3>1. CASE k < p
      BY <1>1, <2>1, <3>1
    <3>2. CASE ~(k < p)
      BY <1>1, <2>1, <3>2
    <3>. QED  BY <3>1, <3>2
  <2>. QED  BY <2>2
<1>3. \A k, l \in DOMAIN u : k < l => from(k) < from(l)
  BY <1>1
<1>. HIDE DEF from
<1>4. Ordered(u, t)
  BY <1>2, <1>3 DEF Ordered
<1>. QED  BY <1>4 DEF u

\* A call that throws before it does anything.
LEMMA OnlyThrows ==
  ASSUME MenuAlways, OnceInv, UNCHANGED <<made, latest, groupId, checked, menuTables>>,
         menuCalls' = menuCalls \cup {"edited"}, ran' = <<"none", 0>>
  PROVE  OnceInv'
<1>1. UNCHANGED <<made, latest, groupId, checked, owner, entries, rows, groups, commands, nextGroup>>
  BY DEF menuTables
<1>2. ItemIds' = ItemIds /\ \A m : Radios(m)' = Radios(m)
  BY <1>1 DEF ItemIds, Radios, Type
<1>3. /\ "mixed" \notin menuCalls' => "mixed" \notin menuCalls
      /\ menuCalls' # {"template"}
  OBVIOUS
<1>4. TablesTypeOK'
  BY <1>1, <1>2 DEF OnceInv, TablesTypeOK
<1>5. RowsHold'
  BY <1>1, <1>2 DEF OnceInv, RowsHold, Type
<1>6. AtHome' /\ RowsInOrder'
  BY <1>1, <1>3 DEF OnceInv, AtHome, RowsInOrder
<1>7. GroupsHold'
  BY <1>1, <1>2 DEF OnceInv, GroupsHold
<1>8. NewAsMade' /\ OneMark'
  BY <1>1, <1>2 DEF OnceInv, NewAsMade, OneMark
<1>9. ShownIsMarked' /\ TemplateHolds' /\ SegmentsAreGroups'
  BY <1>3 DEF ShownIsMarked, TemplateHolds, SegmentsAreGroups
<1>. QED  BY <1>4, <1>5, <1>6, <1>7, <1>8, <1>9 DEF OnceInv

LeavesGroup(m, i) ==
  LET left == IF Type(i) = "radio" THEN RemoveFirst(groups[m][groupId[i]], i) ELSE <<>>
  IN  groups' = IF Type(i) # "radio" THEN groups
                ELSE [groups EXCEPT ![m] =
                        [h \in {g \in DOMAIN @ : g # groupId[i] \/ left # <<>>} |->
                           IF h = groupId[i] THEN left ELSE @[h]]]

\* What is removed leaves its group, and the group goes with its last item.
LEMMA RemovedFromGroup ==
  ASSUME MenuAlways, OnceInv, NEW m \in MenuObjects, NEW i \in ToSet(entries[m]),
         UNCHANGED <<made, groupId>>, Radios(m)' = Radios(m) \ {i},
         \A n \in MenuObjects \ {m} : Radios(n)' = Radios(n),
         \A n \in MenuObjects : ToSet(entries'[n]) \subseteq ToSet(entries[n]),
         LeavesGroup(m, i)
  PROVE  /\ GroupsHold' /\ DOMAIN groups' = MenuObjects
         /\ \A n \in MenuObjects : \A g \in DOMAIN groups'[n] :
              /\ groups'[n][g] \in Seq(Nat)
              /\ g \in DOMAIN groups[n]
              /\ ToSet(groups'[n][g]) = ToSet(groups[n][g]) \ {i}
<1>. DEFINE left == IF Type(i) = "radio" THEN RemoveFirst(groups[m][groupId[i]], i) ELSE <<>>
<1>1. groups' = IF Type(i) # "radio" THEN groups
                ELSE [groups EXCEPT ![m] =
                        [h \in {g \in DOMAIN @ : g # groupId[i] \/ left # <<>>} |->
                           IF h = groupId[i] THEN left ELSE @[h]]]
  BY DEF LeavesGroup
<1>2. /\ DOMAIN groups = MenuObjects /\ ItemIds' = ItemIds
      /\ \A n \in MenuObjects : \A g \in DOMAIN groups[n] : groups[n][g] \in Seq(Nat)
  BY DEF OnceInv, TablesTypeOK, ItemIds
<1>3. owner[i] = m
  BY DEF OnceInv, AtHome
<1>4. ASSUME NEW n \in MenuObjects, NEW g \in DOMAIN groups[n], i \in ToSet(groups[n][g])
      PROVE  n = m /\ Type(i) = "radio" /\ g = groupId[i]
  <2>1. g # 0
    <3>1. g = 0 => ToSet(groups[n][g]) \cap ToSet(entries[m]) = {}
      BY DEF OnceInv, GroupsHold
    <3>. QED  BY <1>4, <3>1
  <2>2. i \in Radios(n) /\ groupId[i] = g
    BY <1>4, <2>1 DEF OnceInv, GroupsHold
  <2>. QED  BY <1>3, <2>2, RadioAtHome DEF Radios
<1>5. ASSUME NEW n \in MenuObjects, NEW g \in DOMAIN groups'[n]
      PROVE  /\ g \in DOMAIN groups[n] /\ groups'[n][g] \in Seq(Nat)
             /\ IsInjective(groups'[n][g])
             /\ ToSet(groups'[n][g]) = ToSet(groups[n][g]) \ {i}
  <2>1. CASE n = m /\ Type(i) = "radio" /\ g = groupId[i]
    <3>1. /\ g \in DOMAIN groups[n] /\ groups'[n][g] = left /\ left = RemoveFirst(groups[n][g], i)
          /\ i \in ToSet(groups[n][g])
      BY <1>1, <1>2, <2>1, RadioGroup DEF Radios
    <3>2. groups[n][g] \in Seq(Nat) /\ IsInjective(groups[n][g])
      BY <1>2, <3>1 DEF OnceInv, GroupsHold
    <3>. QED  BY <3>1, <3>2, RemovedFirst
  <2>2. CASE ~(n = m /\ Type(i) = "radio" /\ g = groupId[i])
    <3>1. g \in DOMAIN groups[n] /\ groups'[n][g] = groups[n][g]
      BY <1>1, <1>2, <2>2
    <3>. QED  BY <1>2, <1>4, <2>2, <3>1 DEF OnceInv, GroupsHold
  <2>. QED  BY <2>1, <2>2
<1>6. ASSUME NEW n \in MenuObjects, NEW j \in Radios(n), j # i
      PROVE  groupId[j] \in DOMAIN groups'[n]
  <2>1. groupId[j] \in DOMAIN groups[n] /\ j \in ToSet(groups[n][groupId[j]])
    BY RadioGroup
  <2>2. CASE n = m /\ Type(i) = "radio" /\ groupId[j] = groupId[i]
    <3>1. groups[n][groupId[i]] \in Seq(Nat) /\ IsInjective(groups[n][groupId[i]])
      BY <1>2, <2>1, <2>2 DEF OnceInv, GroupsHold
    <3>2. i \in ToSet(groups[n][groupId[i]]) /\ left = RemoveFirst(groups[n][groupId[i]], i)
      BY <2>2, RadioGroup DEF Radios
    <3>3. j \in ToSet(left)
      BY <1>6, <2>1, <2>2, <3>1, <3>2, RemovedFirst
    <3>4. left # <<>>
      BY <3>3 DEF ToSet
    <3>. QED  BY <1>1, <1>2, <2>1, <2>2, <3>4
  <2>3. CASE ~(n = m /\ Type(i) = "radio" /\ groupId[j] = groupId[i])
    BY <1>1, <1>2, <2>1, <2>3
  <2>. QED  BY <2>2, <2>3
<1>7. \A n \in MenuObjects : Radios(n)' = Radios(n) \ {i}
  <2>1. \A n \in MenuObjects \ {m} : i \notin Radios(n)
    BY <1>3, RadioAtHome
  <2>. QED  BY <2>1
<1>8. GroupsHold'
  <2>1. ASSUME NEW n \in MenuObjects
        PROVE  /\ \A j \in Radios(n)' : groupId'[j] # 0 /\ groupId'[j] \in DOMAIN groups'[n]
               /\ \A g \in DOMAIN groups'[n] :
                    /\ IsInjective(groups'[n][g]) /\ ToSet(groups'[n][g]) \subseteq ItemIds'
                    /\ g # 0 => ToSet(groups'[n][g]) = {j \in Radios(n)' : groupId'[j] = g}
                    /\ g = 0 => \A k \in MenuObjects : ToSet(groups'[n][g]) \cap ToSet(entries'[k]) = {}
    <3>1. \A j \in Radios(n)' : groupId'[j] # 0 /\ groupId'[j] \in DOMAIN groups'[n]
      BY <1>6, <1>7, RadioGroup
    <3>2. ASSUME NEW g \in DOMAIN groups'[n]
          PROVE  /\ IsInjective(groups'[n][g]) /\ ToSet(groups'[n][g]) \subseteq ItemIds'
                 /\ g # 0 => ToSet(groups'[n][g]) = {j \in Radios(n)' : groupId'[j] = g}
                 /\ g = 0 => \A k \in MenuObjects : ToSet(groups'[n][g]) \cap ToSet(entries'[k]) = {}
      <4>1. /\ g \in DOMAIN groups[n] /\ IsInjective(groups'[n][g]) 
            /\ ToSet(groups'[n][g]) = ToSet(groups[n][g]) \ {i}
        BY <1>5
      <4>2. /\ ToSet(groups[n][g]) \subseteq ItemIds
            /\ g # 0 => ToSet(groups[n][g]) = {j \in Radios(n) : groupId[j] = g}
            /\ g = 0 => \A k \in MenuObjects : ToSet(groups[n][g]) \cap ToSet(entries[k]) = {}
        BY <4>1 DEF OnceInv, GroupsHold
      <4>3. g # 0 => ToSet(groups'[n][g]) = {j \in Radios(n)' : groupId'[j] = g}
        BY <1>7, <4>1, <4>2
      <4>4. g = 0 => \A k \in MenuObjects : ToSet(groups'[n][g]) \cap ToSet(entries'[k]) = {}
        BY <4>1, <4>2
      <4>. QED  BY <1>2, <4>1, <4>2, <4>3, <4>4
    <3>. QED  BY <3>1, <3>2
  <2>. QED  BY <2>1 DEF GroupsHold
<1>9. DOMAIN groups' = MenuObjects
  BY <1>1, <1>2
<1>. QED  BY <1>5, <1>8, <1>9

\* Before an item is inserted again, all that was asked is remembered.
LEMMA CallsAdd ==
  ASSUME NEW these, Remembers(these), "again" \notin menuCalls'
  PROVE  menuCalls' = menuCalls \cup these /\ "again" \notin menuCalls
<1>1. "again" \notin menuCalls \cup these
  BY DEF Remembers
<1>2. menuCalls' = menuCalls \cup these
  BY <1>1 DEF Remembers
<1>. QED  BY <1>1, <1>2

LEMMA RemoveItemAlways ==
  ASSUME MenuAlways, NEW m \in MenuObjects, NEW pos \in Nat, RemoveItem(m, pos)
  PROVE  MenuAlways'
<1>1. NotRunIfRoles' /\ UNCHANGED <<made, rows>> /\ ItemIds' = ItemIds
  BY DEF RemoveItem, NotRunIfRoles, DisabledIsNotRun, ItemIds
<1>2. CASE pos >= Len(entries[m])
  <2>1. UNCHANGED <<entries, commands>>
    BY <1>2 DEF RemoveItem
  <2>. QED  BY <1>1, <2>1, RowsRest
<1>3. CASE ~(pos >= Len(entries[m]))
  <2>1. /\ entries' = [entries EXCEPT ![m] = RemoveAt(@, pos + 1)]
        /\ commands' = [commands EXCEPT ![m] = @ \ {entries[m][pos + 1]}]
    BY <1>3, Zenon DEF RemoveItem
  <2>2. /\ entries \in [MenuObjects -> Seq(Nat)] /\ DOMAIN commands = MenuObjects
        /\ pos + 1 \in 1..Len(entries[m])
    BY <1>3, TheyAreItems DEF MenuAlways, MenuTypeOK
  <2>3. /\ entries'[m] = RemoveAt(entries[m], pos + 1)
        /\ commands'[m] = commands[m] \ {entries[m][pos + 1]}
        /\ \A n \in MenuObjects \ {m} : entries'[n] = entries[n] /\ commands'[n] = commands[n]
    BY <2>1, <2>2
  <2>4. /\ entries'[m] \in Seq(Nat) /\ Len(entries'[m]) = Len(entries[m]) - 1
        /\ ToSet(entries[m]) \ {entries[m][pos + 1]} \subseteq ToSet(entries'[m])
        /\ ToSet(entries'[m]) \subseteq ToSet(entries[m])
    BY <2>2, <2>3, RemovedSome
  <2>5. ASSUME NEW n \in MenuObjects
        PROVE  /\ Len(entries'[n]) <= Len(rows[n])
               /\ Len(entries'[n]) = Len(rows[n]) =>
                    \A k \in DOMAIN rows[n] : rows[n][k] = RowOf(entries'[n][k])
               /\ commands'[n] \subseteq ToSet(entries'[n]) /\ ToSet(entries'[n]) \subseteq ItemIds
    <3>1. CASE n = m
      <4>1. Len(entries'[m]) < Len(rows[m])
        BY <2>4, TheyAreItems
      <4>2. commands'[m] \subseteq ToSet(entries'[m]) /\ ToSet(entries'[m]) \subseteq ItemIds
        BY <2>3, <2>4 DEF MenuAlways, Mirrored
      <4>. QED  BY <2>4, <3>1, <4>1, <4>2, TheyAreItems
    <3>2. CASE n # m
      BY <2>3, <3>2 DEF MenuAlways, Mirrored
    <3>. QED  BY <3>1, <3>2
  <2>6. Mirrored'
    BY <1>1, <2>5 DEF Mirrored, RowOf, Type
  <2>7. MenuTypeOK'
    BY <1>1, <2>1, <2>2, <2>3, <2>4 DEF MenuAlways, MenuTypeOK
  <2>. QED  BY <1>1, <2>6, <2>7 DEF MenuAlways
<1>. QED  BY <1>2, <1>3

LEMMA RemoveItemOnce ==
  ASSUME MenuAlways, OnceInv, NEW m \in MenuObjects, NEW pos \in Nat, RemoveItem(m, pos),
         "again" \notin menuCalls'
  PROVE  OnceInv'
<1>1. menuCalls' = menuCalls \cup {"edited"} /\ ran' = <<"none", 0>>
  <2>1. Remembers({"edited"}) /\ ran' = <<"none", 0>>
    BY DEF RemoveItem
  <2>. QED  BY <2>1, CallsAdd
<1>2. CASE pos >= Len(entries[m])
  <2>1. UNCHANGED <<made, latest, groupId, checked, menuTables>>
    BY <1>2 DEF RemoveItem, menuTables
  <2>. QED  BY <1>1, <2>1, OnlyThrows
<1>3. CASE ~(pos >= Len(entries[m]))
  <2>. DEFINE i == entries[m][pos + 1]
              grouped == Type(i) = "radio" /\ groupId[i] \in DOMAIN groups[m]
              left == IF grouped THEN RemoveFirst(groups[m][groupId[i]], i) ELSE <<>>
  <2>1. /\ entries' = [entries EXCEPT ![m] = RemoveAt(@, pos + 1)]
        /\ commands' = [commands EXCEPT ![m] = @ \ {i}]
        /\ groups' = IF ~grouped THEN groups
                     ELSE [groups EXCEPT ![m] =
                             [h \in {g \in DOMAIN @ : g # groupId[i] \/ left # <<>>} |->
                                IF h = groupId[i] THEN left ELSE @[h]]]
        /\ UNCHANGED <<made, latest, groupId, checked, owner, rows, nextGroup>>
    BY <1>3, Zenon DEF RemoveItem
  <2>2. /\ pos + 1 \in 1..Len(entries[m]) /\ entries[m] \in Seq(Nat) /\ IsInjective(entries[m])
        /\ i \in ToSet(entries[m]) /\ i \in ItemIds /\ ItemIds' = ItemIds
    <3>1. pos + 1 \in 1..Len(entries[m]) /\ pos + 1 \in DOMAIN entries[m]
      BY <1>3, TheyAreItems, SMTT(30)
    <3>2. IsInjective(entries[m])
      BY DEF OnceInv, RowsHold, OnceOutside, IsInjective
    <3>. QED  BY <2>1, <3>1, <3>2, TheyAreItems DEF ItemIds
  <2>. HIDE DEF left
  <2>3. entries \in [MenuObjects -> Seq(Nat)] /\ DOMAIN commands = MenuObjects
    BY DEF MenuAlways, MenuTypeOK
  <2>4. /\ ToSet(entries'[m]) = ToSet(entries[m]) \ {i} /\ IsInjective(entries'[m])
        /\ entries'[m] = RemoveAt(entries[m], pos + 1)
    <3>1. entries'[m] = RemoveAt(entries[m], pos + 1)
      BY <2>1, <2>3
    <3>. QED  BY <2>2, <3>1, RemovedElements
  <2>5. \A n \in MenuObjects \ {m} : entries'[n] = entries[n] /\ commands'[n] = commands[n]
    BY <2>1, <2>3
  <2>6. commands'[m] = commands[m] \ {i}
    BY <2>1, <2>3
  <2>7. /\ Radios(m)' = Radios(m) \ {i}
        /\ \A n \in MenuObjects \ {m} : Radios(n)' = Radios(n)
    BY <2>1, <2>4, <2>5 DEF Radios, Type
  <2>8. \A n \in MenuObjects : ToSet(entries'[n]) \subseteq ToSet(entries[n])
    BY <2>4, <2>5
  <2>9. /\ GroupsHold' /\ DOMAIN groups' = MenuObjects
        /\ \A n \in MenuObjects : \A g \in DOMAIN groups'[n] :
             /\ groups'[n][g] \in Seq(Nat) /\ g \in DOMAIN groups[n]
             /\ ToSet(groups'[n][g]) = ToSet(groups[n][g]) \ {i}
    <3>1. grouped <=> Type(i) = "radio"
      BY <2>2, RadioGroup DEF Radios
    <3>. HIDE DEF i, grouped
    <3>2. LeavesGroup(m, i)
      BY <2>1, <3>1, Zenon DEF LeavesGroup, left
    <3>. QED  BY <2>1, <2>2, <2>7, <2>8, <3>2, RemovedFromGroup, ZenonT(40)
  <2>. HIDE DEF i, grouped
  <2>10. TablesTypeOK'
    BY <1>1, <2>1, <2>2, <2>9 DEF OnceInv, TablesTypeOK
  <2>11. RowsHold'
    <3>1. ASSUME NEW n \in MenuObjects
          PROVE  /\ ToSet(entries'[n]) = commands'[n]
                 /\ \A j \in ToSet(entries'[n]) : Type(j) # "separator" => j \in ToSet(rows[n])
                 /\ OnceOutside(entries'[n], {})
      <4>1. CASE n = m
        <5>1. OnceOutside(entries'[n], {})
          BY <2>4, <4>1 DEF OnceOutside, IsInjective
        <5>. QED  BY <2>4, <2>6, <4>1, <5>1 DEF OnceInv, RowsHold
      <4>2. CASE n # m
        BY <2>5, <4>2 DEF OnceInv, RowsHold
      <4>. QED  BY <4>1, <4>2
    <3>. QED  BY <2>1, <2>2, <3>1 DEF OnceInv, RowsHold, Type
  <2>12. AtHome'
    <3>1. ASSUME NEW n \in MenuObjects
          PROVE  /\ \A j \in ToSet(entries'[n]) : owner[j] = n
                 /\ \A g \in DOMAIN groups'[n] : \A j \in ToSet(groups'[n][g]) : owner[j] = n
      <4>1. \A j \in ToSet(entries'[n]) : owner[j] = n
        BY <2>8 DEF OnceInv, AtHome
      <4>2. ASSUME NEW g \in DOMAIN groups'[n], NEW j \in ToSet(groups'[n][g])
            PROVE  owner[j] = n
        <5>1. g \in DOMAIN groups[n] /\ j \in ToSet(groups[n][g])
          BY <2>9
        <5>. QED  BY <5>1 DEF OnceInv, AtHome
      <4>. QED  BY <4>1, <4>2
    <3>2. \A n \in MenuObjects : \A j \in ToSet(rows[n]) : j # 0 => owner[j] = n
      BY DEF OnceInv, AtHome
    <3>3. UNCHANGED <<owner, rows>>
      BY <2>1
    <3>. QED  BY <3>1, <3>2, <3>3 DEF AtHome
  <2>13. RowsInOrder'
    <3>. SUFFICES ASSUME "mixed" \notin menuCalls', NEW n \in MenuObjects
                  PROVE  Ordered(entries'[n], rows[n])
      BY <2>1 DEF RowsInOrder
    <3>1. Ordered(entries[n], rows[n])
      BY <1>1 DEF OnceInv, RowsInOrder
    <3>2. CASE n = m
      BY <2>2, <2>4, <3>1, <3>2, RemovalKeepsOrder
    <3>3. CASE n # m
      BY <2>5, <3>1, <3>3
    <3>. QED  BY <3>2, <3>3
  <2>14. NewAsMade'
    BY <2>1, <2>2 DEF OnceInv, NewAsMade
  <2>15. OneMark'
    <3>1. \A n \in MenuObjects : Radios(n)' \subseteq Radios(n)
      BY <2>7
    <3>. QED  BY <2>1, <3>1 DEF OnceInv, OneMark
  <2>16. ShownIsMarked' /\ TemplateHolds' /\ SegmentsAreGroups'
    <3>1. "edited" \in menuCalls' /\ "edited" \notin {"template"}
      BY <1>1
    <3>. QED  BY <1>1, <3>1 DEF ShownIsMarked, TemplateHolds, SegmentsAreGroups
  <2>. QED  BY <2>9, <2>10, <2>11, <2>12, <2>13, <2>14, <2>15, <2>16 DEF OnceInv
<1>. QED  BY <1>2, <1>3

\* What is inserted last in both is last in both,
LEMMA LastKeepsOrder ==
  ASSUME NEW S, NEW s \in Seq(S), NEW t \in Seq(S), NEW x \in S, NEW y \in S, Ordered(s, t),
         x \notin ToSet(s), x \notin ToSet(t), y \notin ToSet(s)
  PROVE  Ordered(InsertAt(s, Len(s) + 1, x), InsertAt(t, Len(t) + 1, y))
<1>. DEFINE u == InsertAt(s, Len(s) + 1, x)  v == InsertAt(t, Len(t) + 1, y)
<1>1. Len(s) \in 0..Len(s) /\ Len(t) \in 0..Len(t)
  OBVIOUS
<1>2. u \in Seq(S) /\ IsInsertion(u, s, Len(s), x) /\ v \in Seq(S) /\ IsInsertion(v, t, Len(t), y)
  BY <1>1, InsertedAt
<1>. HIDE DEF u, v
<1>3. /\ DOMAIN u = 1..(Len(s) + 1) /\ u[Len(s) + 1] = x /\ \A k \in 1..Len(s) : u[k] = s[k]
      /\ DOMAIN v = 1..(Len(t) + 1) /\ v[Len(t) + 1] = y /\ \A k \in 1..Len(t) : v[k] = t[k]
      /\ DOMAIN s = 1..Len(s) /\ DOMAIN t = 1..Len(t) /\ Len(s) \in Nat /\ Len(t) \in Nat
  BY <1>2 DEF IsInsertion
<1>4. \A k \in 1..Len(s) : s[k] # x /\ s[k] # y
  BY <1>3 DEF ToSet
<1>5. \A k \in 1..Len(t) : t[k] # x
  BY <1>3 DEF ToSet
<1>6. ASSUME NEW k \in DOMAIN u, NEW l \in DOMAIN u, NEW q \in DOMAIN v, NEW r \in DOMAIN v,
             k < l, v[q] = u[k], v[r] = u[l]
      PROVE  q < r
  <2>1. k \in 1..Len(s) /\ u[k] = s[k]
    BY <1>3, <1>6
  <2>2. q \in 1..Len(t) /\ v[q] = t[q]
    BY <1>3, <1>4, <1>6, <2>1
  <2>3. CASE r = Len(t) + 1
    BY <1>3, <2>2, <2>3
  <2>4. CASE r # Len(t) + 1
    <3>1. r \in 1..Len(t) /\ v[r] = t[r]
      BY <1>3, <2>4
    <3>2. l \in 1..Len(s) /\ u[l] = s[l]
      <4>1. l = Len(s) + 1 \/ l \in 1..Len(s)
        BY <1>3
      <4>2. u[l] # x
        BY <1>5, <1>6, <3>1
      <4>. QED  BY <1>3, <4>1, <4>2
    <3>. QED  BY <1>3, <1>6, <2>1, <2>2, <3>1, <3>2 DEF Ordered
  <2>. QED  BY <2>3, <2>4
<1>7. Ordered(u, v)
  BY <1>6 DEF Ordered
<1>. QED  BY <1>7 DEF u, v

\* and the rows that mirror the items are in the same order.
LEMMA MirrorIsOrdered ==
  ASSUME NEW s \in Seq(Nat), NEW t \in Seq(Nat), Len(s) = Len(t), OnceOutside(s, {}),
         \A k \in DOMAIN t : t[k] = RowOf(s[k]), 0 \notin ToSet(s)
  PROVE  Ordered(s, t)
<1>1. DOMAIN s = DOMAIN t /\ \A k \in DOMAIN s : s[k] # 0
  BY DEF ToSet
<1>2. \A k, q \in DOMAIN s : t[q] = s[k] => q = k
  BY <1>1 DEF RowOf, OnceOutside
<1>. QED  BY <1>1, <1>2 DEF Ordered

\* generateGroupId finds the nearest item before a position, if there is one,
IsNearest(near, s, from) ==
  \/ /\ near = 0
     /\ \A k \in DOMAIN s : k <= from => Type(s[k]) \notin {"radio", "separator"}
  \/ \E k \in DOMAIN s :
       /\ k <= from /\ near = s[k] /\ Type(s[k]) \in {"radio", "separator"}
       /\ \A l \in DOMAIN s : l <= from /\ Type(s[l]) \in {"radio", "separator"} => l <= k

LEMMA NearestBefore ==
  ASSUME NEW S, NEW s \in Seq(S), NEW from \in Nat
  PROVE  IsNearest(Nearest(s, from, TRUE), s, from)
<1>. DEFINE ks == {k \in DOMAIN s : k <= from /\ Type(s[k]) \in {"radio", "separator"}}
            last == CHOOSE k \in ks : \A l \in ks : l <= k
<1>1. Nearest(s, from, TRUE) = IF ks = {} THEN 0 ELSE s[last]
  BY DEF Nearest
<1>2. CASE ks = {}
  BY <1>1, <1>2 DEF IsNearest
<1>3. CASE ks # {}
  <2>1. ks \in SUBSET (0..from)
    OBVIOUS
  <2>2. \E k \in ks : \A l \in ks : l <= k
    BY <1>3, <2>1, GreatestNumber
  <2>3. last \in ks /\ \A l \in ks : l <= last
    BY <2>2
  <2>. QED  BY <1>1, <1>3, <2>3 DEF IsNearest
<1>. QED  BY <1>2, <1>3

\* and one of the menu's items in any case.
LEMMA NearestIsEntry ==
  ASSUME NEW S, NEW s \in Seq(S), NEW from \in Nat, NEW down \in BOOLEAN
  PROVE  Nearest(s, from, down) = 0 \/ Nearest(s, from, down) \in ToSet(s)
<1>1. CASE down = TRUE
  BY <1>1, NearestBefore DEF IsNearest, ToSet
<1>2. CASE down = FALSE
  <2>. DEFINE ks == {k \in DOMAIN s : k >= from /\ Type(s[k]) \in {"radio", "separator"}}
              first == CHOOSE k \in ks : \A l \in ks : k <= l
  <2>1. Nearest(s, from, down) = IF ks = {} THEN 0 ELSE s[first]
    BY <1>2 DEF Nearest
  <2>2. CASE ks # {}
    <3>1. ks \in SUBSET Nat
      OBVIOUS
    <3>2. \E k \in ks : \A l \in ks : k <= l
      BY <2>2, <3>1, LeastNumber
    <3>3. first \in ks
      BY <3>2
    <3>. QED  BY <2>1, <2>2, <3>3 DEF ToSet
  <2>. QED  BY <2>1, <2>2
<1>. QED  BY <1>1, <1>2

\* A radio item that is inserted where there are items goes into a group: what
\* changes of the group ids, and of the groups.
JoinsGroup(m, pos, i) == Type(i) = "radio" /\ pos <= Len(entries[m])
OldGroup(m, g) == IF g \in DOMAIN groups[m] THEN groups[m][g] ELSE <<>>

LEMMA IdsTaken ==
  ASSUME MenuAlways, OnceInv, NEW m \in MenuObjects, NEW pos \in Nat, NEW i \in ItemIds, TakeGroup(m, pos, i)
  PROVE  /\ groupId' \in [ItemIds -> Nat] /\ nextGroup' \in Nat
         /\ \A j \in ItemIds : groupId'[j] <= nextGroup'
         /\ \A n \in MenuObjects : \A j \in Radios(n) : groupId'[j] = groupId[j]
         /\ ~JoinsGroup(m, pos, i) => UNCHANGED <<groupId, groups, nextGroup>>
<1>1. /\ groupId \in [ItemIds -> Nat] /\ nextGroup \in Nat /\ latest \in 0..Len(made)
      /\ \A j \in ItemIds : groupId[j] <= nextGroup
  BY DEF OnceInv, TablesTypeOK
<1>2. CASE ~JoinsGroup(m, pos, i)
  <2>1. Type(i) # "radio" \/ pos > Len(entries[m])
    BY <1>2, TheyAreItems DEF JoinsGroup
  <2>2. UNCHANGED <<groupId, groups, nextGroup>>
    BY <2>1 DEF TakeGroup
  <2>. QED  BY <1>1, <2>2
<1>3. CASE JoinsGroup(m, pos, i)
  <2>. DEFINE g == GenerateGroupId(entries[m], pos)
  <2>1. ~(Type(i) # "radio" \/ pos > Len(entries[m]))
    BY <1>3, TheyAreItems DEF JoinsGroup
  <2>2. /\ nextGroup' = IF g > nextGroup THEN g ELSE nextGroup
        /\ groupId' = IF latest # 0 /\ groupId[latest] = 0
                      THEN [groupId EXCEPT ![latest] = g] ELSE groupId
    BY <2>1 DEF TakeGroup
  <2>3. g \in Nat
    <3>. DEFINE near == Nearest(entries[m], IF pos > 0 THEN pos ELSE 1, pos > 0)
    <3>1. near = 0 \/ near \in ToSet(entries[m])
      <4>1. (IF pos > 0 THEN pos ELSE 1) \in Nat /\ (pos > 0) \in BOOLEAN
        OBVIOUS
      <4>. QED  BY <4>1, TheyAreItems, NearestIsEntry
    <3>2. g = IF near # 0 /\ Type(near) = "radio" THEN groupId[near] ELSE nextGroup + 1
      BY DEF GenerateGroupId
    <3>. HIDE DEF near
    <3>3. near = 0 \/ near \in ItemIds
      BY <3>1, TheyAreItems
    <3>. QED  BY <1>1, <3>2, <3>3
  <2>. HIDE DEF g
  <2>4. latest # 0 => latest \in ItemIds
    BY <1>1 DEF ItemIds, OnceInv, TablesTypeOK
  <2>5. /\ groupId' \in [ItemIds -> Nat] /\ nextGroup' \in Nat
        /\ g <= nextGroup' /\ nextGroup <= nextGroup'
    <3>1. nextGroup' \in Nat /\ g <= nextGroup' /\ nextGroup <= nextGroup'
      BY <1>1, <2>2, <2>3
    <3>2. groupId' \in [ItemIds -> Nat]
      BY <1>1, <2>2, <2>3
    <3>. QED  BY <3>1, <3>2
  <2>6. \A j \in ItemIds : groupId'[j] = groupId[j] \/ groupId'[j] = g
    BY <1>1, <2>2, <2>4
  <2>7. \A j \in ItemIds : groupId'[j] <= nextGroup'
    BY <1>1, <2>3, <2>5, <2>6
  <2>8. ASSUME NEW n \in MenuObjects, NEW j \in Radios(n)
        PROVE  groupId'[j] = groupId[j]
    BY <1>1, <2>2, RadioGroup
  <2>. QED  BY <1>3, <2>5, <2>7, <2>8
<1>. QED  BY <1>2, <1>3

GroupJoined(m, i, mine) ==
  /\ DOMAIN groups' = MenuObjects
  /\ \A n \in MenuObjects \ {m} : groups'[n] = groups[n]
  /\ DOMAIN groups'[m] = DOMAIN groups[m] \cup {mine}
  /\ groups'[m][mine] = Append(OldGroup(m, mine), i)
  /\ \A g \in DOMAIN groups[m] : g # mine => groups'[m][g] = groups[m][g]
  /\ OldGroup(m, mine) \in Seq(Nat) /\ IsInjective(OldGroup(m, mine))

LEMMA GroupsTaken ==
  ASSUME MenuAlways, OnceInv, NEW m \in MenuObjects, NEW pos \in Nat, NEW i \in ItemIds, TakeGroup(m, pos, i),
         JoinsGroup(m, pos, i)
  PROVE  GroupJoined(m, i, groupId'[i])
<1>. DEFINE mine == groupId'[i]
<1>1. ~(Type(i) # "radio" \/ pos > Len(entries[m]))
  BY TheyAreItems DEF JoinsGroup
<1>2. groups' = [groups EXCEPT ![m] =
                   [h \in DOMAIN @ \cup {mine} |->
                      IF h = mine THEN Append(OldGroup(m, mine), i) ELSE @[h]]]
  BY <1>1 DEF TakeGroup, OldGroup
<1>3. DOMAIN groups = MenuObjects
  BY DEF OnceInv, TablesTypeOK
<1>4. OldGroup(m, mine) \in Seq(Nat) /\ IsInjective(OldGroup(m, mine))
  <2>1. <<>> \in Seq(Nat) /\ DOMAIN <<>> = {}
    OBVIOUS
  <2>. QED  BY <2>1 DEF OldGroup, OnceInv, TablesTypeOK, GroupsHold, IsInjective
<1>. HIDE DEF mine
<1>5. GroupJoined(m, i, mine)
  BY <1>2, <1>3, <1>4 DEF GroupJoined
<1>. QED  BY <1>5 DEF mine

LEMMA InsertAlways ==
  ASSUME MenuAlways, NEW m \in MenuObjects, NEW pos \in Nat, NEW i \in ItemIds, Insert(m, pos, i)
  PROVE  MenuAlways'
<1>1. /\ NotRunIfRoles' /\ UNCHANGED made /\ ItemIds' = ItemIds
      /\ pos \in 0..Len(rows[m])
  BY DEF Insert, NotRunIfRoles, DisabledIsNotRun, ItemIds
<1>2. CASE InsertThrows(m, pos, i)
  <2>1. UNCHANGED <<entries, rows, commands>>
    BY <1>2 DEF Insert
  <2>. QED  BY <1>1, <2>1, RowsRest
<1>3. CASE ~InsertThrows(m, pos, i)
  <2>. DEFINE at == IF pos > Len(entries[m]) THEN Len(entries[m]) ELSE pos
  <2>1. /\ rows' = [rows EXCEPT ![m] = InsertAt(@, pos + 1, RowOf(i))]
        /\ entries' = [entries EXCEPT ![m] =
             InsertAt(@, (IF pos > Len(@) THEN Len(@) ELSE pos) + 1, i)]
        /\ commands' = [commands EXCEPT ![m] = @ \cup {i}]
    BY <1>3 DEF Insert
  <2>2. /\ entries \in [MenuObjects -> Seq(Nat)] /\ rows \in [MenuObjects -> Seq(Nat)]
        /\ DOMAIN commands = MenuObjects /\ i \in Nat /\ RowOf(i) \in Nat
    BY DEF MenuAlways, MenuTypeOK, ItemIds, RowOf
  <2>3. /\ rows'[m] = InsertAt(rows[m], pos + 1, RowOf(i))
        /\ entries'[m] = InsertAt(entries[m], at + 1, i)
        /\ commands'[m] = commands[m] \cup {i}
        /\ \A n \in MenuObjects \ {m} :
             entries'[n] = entries[n] /\ rows'[n] = rows[n] /\ commands'[n] = commands[n]
    BY <2>1, <2>2
  <2>4. at \in 0..Len(entries[m]) /\ entries[m] \in Seq(Nat) /\ rows[m] \in Seq(Nat)
    BY TheyAreItems
  <2>. HIDE DEF at
  <2>5. /\ rows'[m] \in Seq(Nat) /\ IsInsertion(rows'[m], rows[m], pos, RowOf(i))
        /\ entries'[m] \in Seq(Nat) /\ IsInsertion(entries'[m], entries[m], at, i)
    <3>1. \A s \in Seq(Nat) : \A p \in 0..Len(s) : \A x \in Nat :
            InsertAt(s, p + 1, x) \in Seq(Nat) /\ IsInsertion(InsertAt(s, p + 1, x), s, p, x)
      BY InsertedAt
    <3>2. InsertAt(rows[m], pos + 1, RowOf(i)) \in Seq(Nat)
          /\ IsInsertion(InsertAt(rows[m], pos + 1, RowOf(i)), rows[m], pos, RowOf(i))
      BY <1>1, <2>2, <2>4, <3>1, ZenonT(40)
    <3>3. InsertAt(entries[m], at + 1, i) \in Seq(Nat)
          /\ IsInsertion(InsertAt(entries[m], at + 1, i), entries[m], at, i)
      BY <2>2, <2>4, <3>1, ZenonT(40)
    <3>. QED  BY <2>3, <3>2, <3>3, Zenon
  <2>6. ToSet(entries'[m]) = ToSet(entries[m]) \cup {i}
    <3>1. \A s \in Seq(Nat) : \A p \in 0..Len(s) : \A x \in Nat :
            Gains(InsertAt(s, p + 1, x), s, x)
      BY InsertedElements
    <3>2. Gains(InsertAt(entries[m], at + 1, i), entries[m], i)
      BY <2>2, <2>4, <3>1, ZenonT(40)
    <3>. QED  BY <2>3, <3>2, Zenon DEF Gains
  <2>7. ASSUME NEW n \in MenuObjects
        PROVE  /\ Len(entries'[n]) <= Len(rows'[n])
               /\ Len(entries'[n]) = Len(rows'[n]) =>
                    \A k \in DOMAIN rows'[n] : rows'[n][k] = RowOf(entries'[n][k])
               /\ commands'[n] \subseteq ToSet(entries'[n]) /\ ToSet(entries'[n]) \subseteq ItemIds
    <3>1. CASE n # m
      BY <2>3, <3>1 DEF MenuAlways, Mirrored
    <3>2. CASE n = m
      <4>1. Len(entries'[m]) = Len(entries[m]) + 1 /\ Len(rows'[m]) = Len(rows[m]) + 1
        BY <2>5 DEF IsInsertion
      <4>2. Len(entries'[m]) <= Len(rows'[m])
        BY <4>1, TheyAreItems
      <4>3. commands'[m] \subseteq ToSet(entries'[m]) /\ ToSet(entries'[m]) \subseteq ItemIds
        BY <2>3, <2>6 DEF MenuAlways, Mirrored
      <4>4. ASSUME Len(entries'[m]) = Len(rows'[m]), NEW k \in DOMAIN rows'[m]
            PROVE  rows'[m][k] = RowOf(entries'[m][k])
        <5>1. Len(entries[m]) = Len(rows[m])
          BY <4>1, <4>4, TheyAreItems
        <5>2. at = pos
          BY <1>1, <5>1 DEF at
        <5>3. \A j \in 1..Len(rows[m]) : rows[m][j] = RowOf(entries[m][j])
          BY <5>1, TheyAreItems DEF MenuAlways, Mirrored
        <5>4. k \in 1..(Len(rows[m]) + 1) /\ Len(rows[m]) \in Nat
          BY <2>5, <4>1, TheyAreItems
        <5>5. CASE k = pos + 1
          BY <2>5, <5>2, <5>5 DEF IsInsertion
        <5>6. CASE k \in 1..pos
          <6>1. rows'[m][k] = rows[m][k] /\ entries'[m][k] = entries[m][k] /\ k \in 1..Len(rows[m])
            BY <1>1, <2>5, <5>2, <5>4, <5>6 DEF IsInsertion
          <6>. QED  BY <5>3, <6>1
        <5>7. CASE k > pos + 1
          <6>1. k - 1 \in (pos + 1)..Len(rows[m]) /\ (k - 1) + 1 = k
            BY <5>4, <5>7
          <6>2. rows'[m][(k - 1) + 1] = rows[m][k - 1] /\ entries'[m][(k - 1) + 1] = entries[m][k - 1]
            BY <2>5, <5>1, <5>2, <6>1 DEF IsInsertion
          <6>3. k - 1 \in 1..Len(rows[m])
            BY <6>1
          <6>. QED  BY <5>3, <6>1, <6>2, <6>3
        <5>. QED  BY <5>4, <5>5, <5>6, <5>7
      <4>. QED  BY <3>2, <4>2, <4>3, <4>4
    <3>. QED  BY <3>1, <3>2
  <2>8. Mirrored'
    BY <1>1, <2>7 DEF Mirrored, RowOf, Type
  <2>9. MenuTypeOK'
    BY <1>1, <2>1, <2>2, <2>3, <2>5 DEF MenuAlways, MenuTypeOK
  <2>. QED  BY <1>1, <2>8, <2>9 DEF MenuAlways
<1>. QED  BY <1>2, <1>3

\* What the insertion of a new item does, and what is remembered of it.
InsertsNew(m, pos, i) == Insert(m, pos, i) /\ "again" \notin menuCalls'

LEMMA InsertDoes ==
  ASSUME MenuAlways, OnceInv, NEW m \in MenuObjects, NEW pos \in Nat, NEW i \in ItemIds,
         InsertsNew(m, pos, i)
  PROVE  /\ pos \in 0..Len(rows[m]) /\ TakeGroup(m, pos, i)
         /\ UNCHANGED <<made, latest, checked>> /\ ran' = <<"none", 0>>
         /\ owner' = IF Type(i) = "radio" /\ pos > Len(entries[m]) THEN owner
                     ELSE [owner EXCEPT ![i] = m]
         /\ menuCalls \subseteq menuCalls' /\ "again" \notin menuCalls'
         /\ Len(entries[m]) # Len(rows[m]) /\ pos < Len(rows[m]) => "mixed" \in menuCalls'
         /\ ~(i = latest /\ pos = Len(rows[m]) /\ Len(entries[m]) = Len(rows[m]) /\ ~InsertThrows(m, pos, i))
              => menuCalls' # {"template"}
         /\ InsertThrows(m, pos, i) => UNCHANGED <<entries, rows, commands>>
<1>1. /\ pos \in 0..Len(rows[m]) /\ TakeGroup(m, pos, i)
      /\ UNCHANGED <<made, latest, checked>> /\ ran' = <<"none", 0>>
      /\ owner' = IF Type(i) = "radio" /\ pos > Len(entries[m]) THEN owner
                  ELSE [owner EXCEPT ![i] = m]
      /\ InsertThrows(m, pos, i) => UNCHANGED <<entries, rows, commands>>
  BY DEF InsertsNew, Insert
<1>. DEFINE removed == Len(entries[m]) # Len(rows[m])
            last == i = latest /\ pos = Len(rows[m]) /\ ~removed /\ ~InsertThrows(m, pos, i)
            mixes == removed /\ pos < Len(rows[m])
            these == (IF last THEN {} ELSE {"edited"}) \cup (IF mixes THEN {"mixed"} ELSE {})
                     \cup (IF owner[i] # "nowhere" THEN {"again"} ELSE {})
<1>2. menuCalls' = menuCalls \cup these
  <2>1. Remembers(these)
    BY DEF InsertsNew, Insert
  <2>. HIDE DEF these
  <2>. QED  BY <2>1, CallsAdd DEF InsertsNew
<1>. HIDE DEF last, mixes
<1>3. /\ menuCalls \subseteq menuCalls' /\ "again" \notin menuCalls'
      /\ mixes => "mixed" \in menuCalls'
      /\ ~last => menuCalls' # {"template"}
  <2>1. menuCalls \subseteq menuCalls' /\ "again" \notin menuCalls'
    BY <1>2 DEF InsertsNew
  <2>2. mixes => "mixed" \in menuCalls'
    BY <1>2
  <2>3. ~last => "edited" \in menuCalls'
    BY <1>2
  <2>4. "edited" \notin {"template"}
    OBVIOUS
  <2>. QED  BY <2>1, <2>2, <2>3, <2>4
<1>. QED  BY <1>1, <1>3 DEF last, mixes, removed

\* An item that was never inserted is nowhere.
LEMMA NewIsNowhere ==
  ASSUME MenuAlways, OnceInv, NEW m \in MenuObjects, NEW pos \in Nat, NEW i \in ItemIds,
         InsertsNew(m, pos, i)
  PROVE  /\ owner[i] = "nowhere" /\ i # 0
         /\ \A n \in MenuObjects : /\ i \notin ToSet(rows[n]) /\ i \notin ToSet(entries[n])
                                   /\ i \notin Radios(n)
                                   /\ \A g \in DOMAIN groups[n] : i \notin ToSet(groups[n][g])
<1>1. owner[i] = "nowhere"
  <2>. DEFINE removed == Len(entries[m]) # Len(rows[m])
              last == i = latest /\ pos = Len(rows[m]) /\ ~removed /\ ~InsertThrows(m, pos, i)
              these == (IF last THEN {} ELSE {"edited"})
                       \cup (IF removed /\ pos < Len(rows[m]) THEN {"mixed"} ELSE {})
                       \cup (IF owner[i] # "nowhere" THEN {"again"} ELSE {})
  <2>1. Remembers(these)
    BY DEF InsertsNew, Insert
  <2>2. "again" \notin these
    <3>. HIDE DEF these
    <3>. QED  BY <2>1, CallsAdd DEF InsertsNew
  <2>. QED  BY <2>2
<1>2. i # 0
  BY DEF ItemIds
<1>3. ASSUME NEW n \in MenuObjects
      PROVE  owner[i] # n
  BY <1>1, MenuAssumption
<1>. QED  BY <1>1, <1>2, <1>3 DEF OnceInv, AtHome, Radios

Place(m, pos) == IF pos > Len(entries[m]) THEN Len(entries[m]) ELSE pos

\* What is where after the insertion.
RowIsPlaced(m, pos, i) ==
  /\ rows'[m] = InsertAt(rows[m], pos + 1, RowOf(i))
  /\ entries'[m] = InsertAt(entries[m], Place(m, pos) + 1, i)
  /\ Place(m, pos) \in 0..Len(entries[m])
  /\ rows'[m] \in Seq(Nat) /\ entries'[m] \in Seq(Nat)
  /\ Len(rows'[m]) = Len(rows[m]) + 1 /\ Len(entries'[m]) = Len(entries[m]) + 1
  /\ ToSet(rows'[m]) = ToSet(rows[m]) \cup {RowOf(i)}
  /\ ToSet(entries'[m]) = ToSet(entries[m]) \cup {i}
  /\ OnceOutside(rows'[m], {0}) /\ OnceOutside(entries'[m], {})
  /\ commands'[m] = commands[m] \cup {i}
  /\ \A n \in MenuObjects \ {m} :
       entries'[n] = entries[n] /\ rows'[n] = rows[n] /\ commands'[n] = commands[n]
  /\ owner' = [owner EXCEPT ![i] = m]

LEMMA InsertPlaces ==
  ASSUME MenuAlways, OnceInv, NEW m \in MenuObjects, NEW pos \in Nat, NEW i \in ItemIds,
         InsertsNew(m, pos, i), ~InsertThrows(m, pos, i)
  PROVE  RowIsPlaced(m, pos, i)
<1>1. /\ rows' = [rows EXCEPT ![m] = InsertAt(@, pos + 1, RowOf(i))]
      /\ entries' = [entries EXCEPT ![m] =
           InsertAt(@, (IF pos > Len(@) THEN Len(@) ELSE pos) + 1, i)]
      /\ commands' = [commands EXCEPT ![m] = @ \cup {i}]
      /\ owner' = [owner EXCEPT ![i] = m]
  BY DEF InsertsNew, Insert, InsertThrows
<1>2. /\ entries \in [MenuObjects -> Seq(Nat)] /\ rows \in [MenuObjects -> Seq(Nat)]
      /\ DOMAIN commands = MenuObjects
  BY DEF MenuAlways, MenuTypeOK
<1>3. /\ pos \in 0..Len(rows[m]) /\ i \notin ToSet(entries[m]) /\ i \in Nat /\ RowOf(i) \in Nat
      /\ RowOf(i) \notin ToSet(rows[m]) \/ RowOf(i) \in {0}
  BY InsertDoes, NewIsNowhere DEF ItemIds, RowOf
<1>4. /\ rows'[m] = InsertAt(rows[m], pos + 1, RowOf(i))
      /\ entries'[m] = InsertAt(entries[m], Place(m, pos) + 1, i)
  BY <1>1, <1>2 DEF Place
<1>5. Place(m, pos) \in 0..Len(entries[m])
  BY TheyAreItems DEF Place
<1>6. OnceOutside(rows[m], {0}) /\ OnceOutside(entries[m], {})
  BY DEF OnceInv, RowsHold
<1>7. /\ rows'[m] \in Seq(Nat) /\ Len(rows'[m]) = Len(rows[m]) + 1
      /\ ToSet(rows'[m]) = ToSet(rows[m]) \cup {RowOf(i)} /\ OnceOutside(rows'[m], {0})
  <2>1. rows[m] \in Seq(Nat) /\ pos \in 0..Len(rows[m])
    BY <1>2, <1>3
  <2>2. /\ Gains(rows'[m], rows[m], RowOf(i)) /\ rows'[m] \in Seq(Nat)
        /\ \A Z : OnceOutside(rows[m], Z) /\ (RowOf(i) \notin ToSet(rows[m]) \/ RowOf(i) \in Z) =>
                    OnceOutside(rows'[m], Z)
    <3>1. \A s \in Seq(Nat) : \A p \in 0..Len(s) : \A x \in Nat :
            /\ Gains(InsertAt(s, p + 1, x), s, x) /\ InsertAt(s, p + 1, x) \in Seq(Nat)
            /\ \A Z : OnceOutside(s, Z) /\ (x \notin ToSet(s) \/ x \in Z) =>
                        OnceOutside(InsertAt(s, p + 1, x), Z)
      BY InsertedElements
    <3>. QED  BY <1>3, <1>4, <2>1, <3>1, Zenon
  <2>3. OnceOutside(rows'[m], {0})
    BY <1>3, <1>6, <2>2, Zenon
  <2>. QED  BY <2>2, <2>3 DEF Gains
<1>8. /\ entries'[m] \in Seq(Nat) /\ Len(entries'[m]) = Len(entries[m]) + 1
      /\ ToSet(entries'[m]) = ToSet(entries[m]) \cup {i} /\ OnceOutside(entries'[m], {})
  <2>1. entries[m] \in Seq(Nat) /\ Place(m, pos) \in 0..Len(entries[m])
    BY <1>2, <1>5
  <2>2. /\ Gains(entries'[m], entries[m], i) /\ entries'[m] \in Seq(Nat)
        /\ \A Z : OnceOutside(entries[m], Z) /\ (i \notin ToSet(entries[m]) \/ i \in Z) =>
                    OnceOutside(entries'[m], Z)
    BY <1>3, <1>4, <2>1, InsertedElements
  <2>3. OnceOutside(entries'[m], {})
    BY <1>3, <1>6, <2>2, Zenon
  <2>. QED  BY <2>2, <2>3 DEF Gains
<1>9. \A n \in MenuObjects \ {m} :
        entries'[n] = entries[n] /\ rows'[n] = rows[n] /\ commands'[n] = commands[n]
  BY <1>1, <1>2
<1>10. commands'[m] = commands[m] \cup {i}
  BY <1>1, <1>2
<1>. QED  BY <1>1, <1>4, <1>5, <1>7, <1>8, <1>9, <1>10, Zenon DEF RowIsPlaced

LEMMA InsertKeepsRows ==
  ASSUME MenuAlways, OnceInv, NEW m \in MenuObjects, NEW pos \in Nat, NEW i \in ItemIds,
         InsertsNew(m, pos, i), ~InsertThrows(m, pos, i)
  PROVE  RowsHold' /\ RowsInOrder'
<1>0. RowIsPlaced(m, pos, i)
  BY InsertPlaces
<1>1. /\ ItemIds' = ItemIds /\ UNCHANGED made /\ RowOf(i) \in Nat /\ i \in Nat
      /\ i \notin ToSet(rows[m]) /\ i \notin ToSet(entries[m])
  BY InsertDoes, NewIsNowhere DEF ItemIds, RowOf
<1>2. RowsHold'
  <2>1. ASSUME NEW n \in MenuObjects
        PROVE  /\ \A j \in ToSet(rows'[n]) : j # 0 => j \in ItemIds /\ Type(j) # "separator"
               /\ ToSet(entries'[n]) = commands'[n]
               /\ \A j \in ToSet(entries'[n]) : Type(j) # "separator" => j \in ToSet(rows'[n])
               /\ OnceOutside(entries'[n], {}) /\ OnceOutside(rows'[n], {0})
    <3>1. /\ \A j \in ToSet(rows[n]) : j # 0 => j \in ItemIds /\ Type(j) # "separator"
          /\ ToSet(entries[n]) = commands[n]
          /\ \A j \in ToSet(entries[n]) : Type(j) # "separator" => j \in ToSet(rows[n])
          /\ OnceOutside(entries[n], {}) /\ OnceOutside(rows[n], {0})
      BY DEF OnceInv, RowsHold
    <3>2. CASE n = m
      <4>1. /\ ToSet(rows'[m]) = ToSet(rows[m]) \cup {RowOf(i)}
            /\ ToSet(entries'[m]) = ToSet(entries[m]) \cup {i}
            /\ OnceOutside(rows'[m], {0}) /\ OnceOutside(entries'[m], {})
            /\ commands'[m] = commands[m] \cup {i}
        BY <1>0 DEF RowIsPlaced
      <4>2. /\ RowOf(i) # 0 => RowOf(i) = i /\ Type(i) # "separator"
            /\ Type(i) # "separator" => RowOf(i) = i
        BY DEF RowOf
      <4>. QED  BY <3>1, <3>2, <4>1, <4>2
    <3>3. CASE n # m
      <4>1. entries'[n] = entries[n] /\ rows'[n] = rows[n] /\ commands'[n] = commands[n]
        BY <1>0, <3>3 DEF RowIsPlaced
      <4>. QED  BY <3>1, <4>1
    <3>. QED  BY <3>2, <3>3
  <2>. QED  BY <1>1, <2>1 DEF RowsHold, Type
<1>3. RowsInOrder'
  <2>. SUFFICES ASSUME "mixed" \notin menuCalls', NEW n \in MenuObjects
                PROVE  Ordered(entries'[n], rows'[n])
    BY DEF RowsInOrder
  <2>1. Ordered(entries[n], rows[n])
    BY InsertDoes DEF OnceInv, RowsInOrder
  <2>2. CASE n # m
    <3>1. entries'[n] = entries[n] /\ rows'[n] = rows[n]
      BY <1>0, <2>2 DEF RowIsPlaced
    <3>. QED  BY <2>1, <3>1
  <2>3. /\ rows'[m] \in Seq(Nat) /\ entries'[m] \in Seq(Nat)
        /\ Len(rows'[m]) = Len(rows[m]) + 1 /\ Len(entries'[m]) = Len(entries[m]) + 1
        /\ ToSet(entries'[m]) = ToSet(entries[m]) \cup {i} /\ OnceOutside(entries'[m], {})
        /\ rows'[m] = InsertAt(rows[m], pos + 1, RowOf(i))
        /\ entries'[m] = InsertAt(entries[m], Place(m, pos) + 1, i)
    BY <1>0 DEF RowIsPlaced
  <2>4. 0 \notin ToSet(entries[m]) /\ 0 \notin ToSet(entries'[m])
    <3>1. ToSet(entries[m]) \subseteq ItemIds /\ 0 \notin ItemIds
      BY DEF MenuAlways, Mirrored, ItemIds
    <3>. QED  BY <2>3, <3>1
  <2>5. CASE n = m /\ Len(entries[m]) = Len(rows[m])
    <3>1. MenuAlways'
      BY InsertAlways DEF InsertsNew
    <3>2. \A k \in DOMAIN rows'[m] : rows'[m][k] = RowOf(entries'[m][k])
      BY <1>1, <2>3, <2>5, <3>1 DEF MenuAlways, Mirrored, RowOf, Type
    <3>3. Len(entries'[m]) = Len(rows'[m])
      BY <2>3, <2>5
    <3>4. Ordered(entries'[m], rows'[m])
      BY <2>3, <2>4, <3>2, <3>3, MirrorIsOrdered
    <3>. QED  BY <2>5, <3>4
  <2>6. CASE n = m /\ Len(entries[m]) # Len(rows[m])
    <3>1. pos = Len(rows[m]) /\ Len(entries[m]) <= Len(rows[m])
      BY <2>6, InsertDoes, TheyAreItems
    <3>2. Place(m, pos) = Len(entries[m])
      BY <3>1, TheyAreItems DEF Place
    <3>3. /\ entries'[m] = InsertAt(entries[m], Len(entries[m]) + 1, i)
          /\ rows'[m] = InsertAt(rows[m], Len(rows[m]) + 1, RowOf(i))
      BY <2>3, <3>1, <3>2
    <3>4. entries[m] \in Seq(Nat) /\ rows[m] \in Seq(Nat) /\ RowOf(i) \notin ToSet(entries[m])
      BY <1>1, <2>4, TheyAreItems DEF RowOf
    <3>5. Ordered(entries'[m], rows'[m])
      BY <1>1, <2>1, <2>6, <3>3, <3>4, LastKeepsOrder
    <3>. QED  BY <2>6, <3>5
  <2>. QED  BY <2>2, <2>5, <2>6
<1>. QED  BY <1>2, <1>3

\* What an element is appended to gains it.
LEMMA AppendedElements ==
  ASSUME NEW S, NEW s \in Seq(S), NEW x \in S, IsInjective(s), x \notin ToSet(s)
  PROVE  /\ Append(s, x) \in Seq(S) /\ ToSet(Append(s, x)) = ToSet(s) \cup {x}
         /\ IsInjective(Append(s, x))
<1>. DEFINE t == Append(s, x)
<1>1. /\ t \in Seq(S) /\ DOMAIN t = 1..(Len(s) + 1) /\ t[Len(s) + 1] = x /\ Len(s) \in Nat
      /\ DOMAIN s = 1..Len(s) /\ \A k \in 1..Len(s) : t[k] = s[k]
  OBVIOUS
<1>. HIDE DEF t
<1>2. \A k \in 1..(Len(s) + 1) : k = Len(s) + 1 \/ k \in 1..Len(s)
  BY <1>1
<1>3. Len(s) + 1 \in DOMAIN t /\ 1..Len(s) \subseteq DOMAIN t
  BY <1>1
<1>4. ToSet(t) = ToSet(s) \cup {x}
  BY <1>1, <1>2, <1>3 DEF ToSet
<1>5. \A k \in 1..Len(s) : s[k] # x
  BY <1>1 DEF ToSet
<1>6. IsInjective(t)
  BY <1>1, <1>2, <1>5 DEF IsInjective
<1>. QED  BY <1>1, <1>4, <1>6 DEF t

\* The radio items and groups after an insertion.
LEMMA InsertKeepsGroups ==
  ASSUME MenuAlways, OnceInv, NEW m \in MenuObjects, NEW pos \in Nat, NEW i \in ItemIds,
         InsertsNew(m, pos, i)
  PROVE  /\ GroupsHold' /\ DOMAIN groups' = MenuObjects
         /\ \A n \in MenuObjects : \A g \in DOMAIN groups'[n] : groups'[n][g] \in Seq(Nat)
         /\ \A n \in MenuObjects : \A g \in DOMAIN groups'[n] :
              \A j \in ToSet(groups'[n][g]) : owner'[j] = n
         /\ \A n \in MenuObjects : \A j \in Radios(n)' : j \in Radios(n) \/ (n = m /\ j = i)
<1>. DEFINE mine == groupId'[i]
            joins == JoinsGroup(m, pos, i)
<1>1. /\ TakeGroup(m, pos, i) /\ UNCHANGED made /\ ItemIds' = ItemIds
      /\ \A n \in MenuObjects : i \notin ToSet(entries[n])
      /\ \A n \in MenuObjects : \A g \in DOMAIN groups[n] : i \notin ToSet(groups[n][g])
  BY InsertDoes, NewIsNowhere DEF ItemIds
<1>2. /\ \A n \in MenuObjects : \A j \in Radios(n) : groupId'[j] = groupId[j]
      /\ mine \in Nat
      /\ ~joins => UNCHANGED <<groupId, groups, nextGroup>>
  BY <1>1, IdsTaken
<1>3. InsertThrows(m, pos, i) <=> Type(i) = "radio" /\ (~joins \/ mine = 0)
  BY TheyAreItems DEF InsertThrows, JoinsGroup
<1>4. /\ DOMAIN groups = MenuObjects
      /\ \A n \in MenuObjects : \A g \in DOMAIN groups[n] : groups[n][g] \in Seq(Nat)
  BY DEF OnceInv, TablesTypeOK
<1>5. /\ \A n \in MenuObjects \ {m} : Radios(n)' = Radios(n)
      /\ Radios(m)' = Radios(m) \cup {j \in {i} : joins /\ mine # 0}
  <2>1. CASE InsertThrows(m, pos, i)
    <3>1. UNCHANGED <<entries, made>>
      BY <2>1, InsertDoes
    <3>2. \A n \in MenuObjects : Radios(n)' = Radios(n)
      BY <3>1 DEF Radios, Type
    <3>3. ~(joins /\ mine # 0)
      BY <1>3, <2>1
    <3>. QED  BY <3>2, <3>3
  <2>2. CASE ~InsertThrows(m, pos, i)
    <3>1. /\ ToSet(entries'[m]) = ToSet(entries[m]) \cup {i}
          /\ \A n \in MenuObjects \ {m} : entries'[n] = entries[n]
      <4>1. RowIsPlaced(m, pos, i)
        BY <2>2, InsertPlaces
      <4>. QED  BY <4>1 DEF RowIsPlaced
    <3>2. Type(i) = "radio" <=> joins /\ mine # 0
      BY <1>3, <2>2 DEF JoinsGroup
    <3>3. \A n \in MenuObjects : Radios(n)' = {j \in ToSet(entries'[n]) : Type(j) = "radio"}
      BY <1>1 DEF Radios, Type
    <3>. HIDE DEF joins, mine
    <3>. QED  BY <3>1, <3>2, <3>3 DEF Radios
  <2>. QED  BY <2>1, <2>2
<1>6. /\ \A n \in MenuObjects : ToSet(entries'[n]) \subseteq ToSet(entries[n]) \cup {i}
      /\ InsertThrows(m, pos, i) => \A n \in MenuObjects : entries'[n] = entries[n]
      /\ \A j \in ItemIds : j # i => owner'[j] = owner[j]
      /\ joins => owner'[i] = m
  <2>1. /\ InsertThrows(m, pos, i) => \A n \in MenuObjects : entries'[n] = entries[n]
        /\ owner' = IF Type(i) = "radio" /\ pos > Len(entries[m]) THEN owner
                    ELSE [owner EXCEPT ![i] = m]
    BY InsertDoes
  <2>2. owner \in [ItemIds -> MenuObjects \cup {"nowhere"}]
    BY DEF OnceInv, TablesTypeOK
  <2>3. joins => ~(Type(i) = "radio" /\ pos > Len(entries[m]))
    BY TheyAreItems DEF JoinsGroup
  <2>4. ASSUME ~InsertThrows(m, pos, i), NEW n \in MenuObjects
        PROVE  ToSet(entries'[n]) \subseteq ToSet(entries[n]) \cup {i}
    <3>1. RowIsPlaced(m, pos, i)
      BY <2>4, InsertPlaces
    <3>. QED  BY <3>1 DEF RowIsPlaced
  <2>. QED  BY <2>1, <2>2, <2>3, <2>4
<1>7. joins => GroupJoined(m, i, mine)
  BY <1>1, GroupsTaken
<1>8. /\ joins => OldGroup(m, mine) \in Seq(Nat) /\ IsInjective(OldGroup(m, mine))
      /\ ToSet(OldGroup(m, mine)) \subseteq ItemIds /\ i \notin ToSet(OldGroup(m, mine))
      /\ mine # 0 => ToSet(OldGroup(m, mine)) = {j \in Radios(m) : groupId[j] = mine}
      /\ mine = 0 => \A k \in MenuObjects : ToSet(OldGroup(m, mine)) \cap ToSet(entries[k]) = {}
      /\ \A j \in ToSet(OldGroup(m, mine)) : owner[j] = m
  <2>. HIDE DEF mine, joins
  <2>1. CASE mine \in DOMAIN groups[m]
    BY <1>1, <1>7, <2>1 DEF OldGroup, GroupJoined, OnceInv, GroupsHold, AtHome
  <2>2. CASE mine \notin DOMAIN groups[m]
    <3>1. OldGroup(m, mine) = <<>> /\ ToSet(<<>>) = {}
      BY <2>2 DEF OldGroup, ToSet
    <3>2. {j \in Radios(m) : groupId[j] = mine} = {}
      BY <2>2, RadioGroup
    <3>. QED  BY <1>7, <3>1, <3>2 DEF GroupJoined
  <2>. QED  BY <2>1, <2>2
<1>. HIDE DEF joins, mine
<1>9. DOMAIN groups' = MenuObjects
  BY <1>2, <1>4, <1>7 DEF GroupJoined
<1>10. ASSUME NEW n \in MenuObjects, NEW g \in DOMAIN groups'[n]
       PROVE  \/ /\ g \in DOMAIN groups[n] /\ groups'[n][g] = groups[n][g]
                 /\ ~(joins /\ n = m /\ g = mine)
              \/ /\ joins /\ n = m /\ g = mine /\ groups'[n][g] \in Seq(Nat)
                 /\ IsInjective(groups'[n][g])
                 /\ ToSet(groups'[n][g]) = ToSet(OldGroup(m, mine)) \cup {i}
  <2>1. CASE joins /\ n = m /\ g = mine
    <3>1. groups'[n][g] = Append(OldGroup(m, mine), i) /\ i \in Nat
      BY <1>7, <2>1 DEF GroupJoined, ItemIds
    <3>. QED  BY <1>8, <2>1, <3>1, AppendedElements
  <2>2. CASE ~(joins /\ n = m /\ g = mine)
    BY <1>2, <1>4, <1>7, <2>2 DEF GroupJoined
  <2>. QED  BY <2>1, <2>2
<1>11. ASSUME NEW n \in MenuObjects, NEW g \in DOMAIN groups'[n]
       PROVE  /\ groups'[n][g] \in Seq(Nat) /\ IsInjective(groups'[n][g])
              /\ ToSet(groups'[n][g]) \subseteq ItemIds'
              /\ g # 0 => ToSet(groups'[n][g]) = {j \in Radios(n)' : groupId'[j] = g}
              /\ g = 0 => \A k \in MenuObjects : ToSet(groups'[n][g]) \cap ToSet(entries'[k]) = {}
  <2>1. CASE joins /\ n = m /\ g = mine
    <3>1. /\ groups'[n][g] \in Seq(Nat) /\ IsInjective(groups'[n][g])
          /\ ToSet(groups'[n][g]) = ToSet(OldGroup(m, mine)) \cup {i}
      BY <1>10, <2>1
    <3>2. CASE mine # 0
      <4>1. {j \in Radios(m)' : groupId'[j] = mine} = {j \in Radios(m) : groupId[j] = mine} \cup {i}
        BY <1>2, <1>5, <2>1, <3>2 DEF mine
      <4>. QED  BY <1>1, <1>8, <2>1, <3>1, <3>2, <4>1
    <3>3. CASE mine = 0
      <4>1. \A k \in MenuObjects : entries'[k] = entries[k]
        <5>1. InsertThrows(m, pos, i)
          BY <1>3, <2>1, <3>3 DEF joins, JoinsGroup
        <5>. QED  BY <1>6, <5>1
      <4>. QED  BY <1>1, <1>8, <2>1, <3>1, <3>3, <4>1
    <3>. QED  BY <3>2, <3>3
  <2>2. CASE ~(joins /\ n = m /\ g = mine)
    <3>1. g \in DOMAIN groups[n] /\ groups'[n][g] = groups[n][g]
      BY <1>10, <2>2
    <3>2. /\ groups[n][g] \in Seq(Nat) /\ IsInjective(groups[n][g])
          /\ ToSet(groups[n][g]) \subseteq ItemIds /\ i \notin ToSet(groups[n][g])
          /\ g # 0 => ToSet(groups[n][g]) = {j \in Radios(n) : groupId[j] = g}
          /\ g = 0 => \A k \in MenuObjects : ToSet(groups[n][g]) \cap ToSet(entries[k]) = {}
      BY <1>1, <1>4, <3>1 DEF OnceInv, GroupsHold
    <3>3. {j \in Radios(n)' : groupId'[j] = g} = {j \in Radios(n) : groupId[j] = g}
      <4>1. CASE n = m
        BY <1>2, <1>5, <2>2, <4>1 DEF mine
      <4>2. CASE n # m
        BY <1>2, <1>5, <4>2
      <4>. QED  BY <4>1, <4>2
    <3>4. g = 0 => \A k \in MenuObjects : ToSet(groups[n][g]) \cap ToSet(entries'[k]) = {}
      BY <1>6, <3>2
    <3>. QED  BY <1>1, <3>1, <3>2, <3>3, <3>4
  <2>. QED  BY <2>1, <2>2
<1>12. ASSUME NEW n \in MenuObjects, NEW g \in DOMAIN groups'[n], NEW j \in ToSet(groups'[n][g])
       PROVE  owner'[j] = n
  <2>1. CASE joins /\ n = m /\ g = mine
    <3>1. j = i \/ (j \in ToSet(OldGroup(m, mine)) /\ j # i)
      BY <1>10, <2>1
    <3>2. j # i => owner[j] = m /\ j \in ItemIds
      BY <1>8, <2>1, <3>1
    <3>. QED  BY <1>6, <2>1, <3>1, <3>2
  <2>2. CASE ~(joins /\ n = m /\ g = mine)
    <3>1. g \in DOMAIN groups[n] /\ j \in ToSet(groups[n][g])
      BY <1>10, <2>2
    <3>2. j # i /\ j \in ItemIds /\ owner[j] = n
      BY <1>1, <3>1 DEF OnceInv, GroupsHold, AtHome
    <3>. QED  BY <1>6, <3>2
  <2>. QED  BY <2>1, <2>2
<1>13. ASSUME NEW n \in MenuObjects, NEW j \in Radios(n)'
       PROVE  groupId'[j] # 0 /\ groupId'[j] \in DOMAIN groups'[n]
  <2>1. CASE j \in Radios(n)
    <3>1. j \in Radios(n) /\ groupId'[j] = groupId[j]
      BY <1>2, <2>1
    <3>2. groupId[j] # 0 /\ groupId[j] \in DOMAIN groups[n]
      BY <3>1, RadioGroup
    <3>3. DOMAIN groups[n] \subseteq DOMAIN groups'[n]
      BY <1>2, <1>4, <1>7 DEF GroupJoined
    <3>. QED  BY <3>1, <3>2, <3>3
  <2>2. CASE j \notin Radios(n)
    <3>1. n = m /\ j = i /\ joins /\ mine # 0
      BY <1>5, <2>2
    <3>. QED  BY <1>7, <3>1 DEF GroupJoined, mine
  <2>. QED  BY <2>1, <2>2
<1>14. GroupsHold'
  BY <1>11, <1>13 DEF GroupsHold
<1>15. ASSUME NEW n \in MenuObjects, NEW j \in Radios(n)'
       PROVE  j \in Radios(n) \/ (n = m /\ j = i)
  BY <1>5
<1>16. \A n \in MenuObjects : \A g \in DOMAIN groups'[n] : groups'[n][g] \in Seq(Nat)
  BY <1>11
<1>. QED  BY <1>9, <1>12, <1>14, <1>15, <1>16

\* The item that a template adds is in the group of the radio item before it, if
\* no separator is between them, and else in a new group.
LEMMA TemplateKeepsSegments ==
  ASSUME MenuAlways, OnceInv, NEW m \in MenuObjects, NEW pos \in Nat, NEW i \in ItemIds,
         InsertsNew(m, pos, i), menuCalls' = {"template"}
  PROVE  /\ \A n \in MenuObjects : Len(entries'[n]) = Len(rows'[n])
         /\ owner'[latest'] # "nowhere"
         /\ \A n \in MenuObjects : Segmented(entries'[n], made', groupId')
<1>1. /\ i = latest /\ pos = Len(rows[m]) /\ Len(entries[m]) = Len(rows[m])
      /\ ~InsertThrows(m, pos, i) /\ menuCalls = {"template"} /\ owner[i] = "nowhere"
      /\ TakeGroup(m, pos, i) /\ UNCHANGED <<made, latest>>
  <2>1. /\ TakeGroup(m, pos, i) /\ UNCHANGED <<made, latest>> /\ menuCalls \subseteq menuCalls'
        /\ i = latest /\ pos = Len(rows[m]) /\ Len(entries[m]) = Len(rows[m])
        /\ ~InsertThrows(m, pos, i)
    BY InsertDoes
  <2>2. "template" \in menuCalls
    BY DEF OnceInv, TablesTypeOK
  <2>3. menuCalls = {"template"}
    BY <2>1, <2>2
  <2>4. owner[i] = "nowhere"
    BY NewIsNowhere
  <2>. QED  BY <2>1, <2>3, <2>4
<1>. DEFINE s == entries[m]
            t == entries'[m]
<1>2. s \in Seq(Nat) /\ Len(s) = pos /\ DOMAIN s = 1..pos /\ \A k \in 1..pos : s[k] \in ItemIds
  BY <1>1, TheyAreItems
<1>3. Place(m, pos) = Len(s)
  BY <1>1, <1>2 DEF Place
<1>4. /\ t \in Seq(Nat) /\ t = InsertAt(s, Len(s) + 1, i) /\ owner' = [owner EXCEPT ![i] = m]
      /\ Len(t) = Len(rows'[m])
      /\ \A n \in MenuObjects \ {m} : entries'[n] = entries[n] /\ rows'[n] = rows[n]
  <2>1. RowIsPlaced(m, pos, i)
    BY <1>1, InsertPlaces
  <2>. QED  BY <1>1, <1>3, <2>1 DEF RowIsPlaced
<1>5. /\ DOMAIN t = 1..(pos + 1) /\ t[pos + 1] = i /\ \A k \in 1..pos : t[k] = s[k]
  <2>1. Len(s) \in 0..Len(s) /\ i \in Nat
    BY <1>2 DEF ItemIds
  <2>2. IsInsertion(t, s, Len(s), i)
    BY <1>2, <1>4, <2>1, InsertedAt
  <2>3. pos \in Nat /\ Len(s) = pos /\ t \in Seq(Nat)
    BY <1>2, <1>4
  <2>. HIDE DEF s, t
  <2>4. /\ Len(t) = pos + 1 /\ t[pos + 1] = i
        /\ \A k \in 1..pos : t[k] = s[k]
    BY <2>2, <2>3 DEF IsInsertion
  <2>5. DOMAIN t = 1..Len(t)
    BY <2>3
  <2>. QED  BY <2>4, <2>5
<1>6. \A n \in MenuObjects :
        Len(entries[n]) = Len(rows[n]) /\ Segmented(entries[n], made, groupId)
  BY <1>1, SegmentsBefore DEF OnceInv, TemplateHolds
<1>7. /\ \A n \in MenuObjects : \A j \in Radios(n) : groupId'[j] = groupId[j]
      /\ ~JoinsGroup(m, pos, i) => groupId' = groupId
  BY <1>1, IdsTaken
<1>8. \A n \in MenuObjects : \A k \in DOMAIN entries[n] :
        made[entries[n][k]].type = "radio" => groupId'[entries[n][k]] = groupId[entries[n][k]]
  BY <1>7, TheyAreItems DEF Radios, Type
<1>9. ASSUME NEW n \in MenuObjects
      PROVE  Segmented(entries[n], made', groupId')
  BY <1>1, <1>6, <1>8 DEF Segmented
<1>10. Segmented(t, made', groupId')
  <2>. SUFFICES ASSUME NEW k \in 1..(pos + 1), NEW l \in 1..(pos + 1), k < l,
                       made[t[k]].type = "radio", made[t[l]].type = "radio"
                PROVE  (groupId'[t[k]] = groupId'[t[l]]) 
                         <=> \A x \in k..l : made[t[x]].type # "separator"
    <3>1. \A k, l \in DOMAIN t :
            k < l /\ made[t[k]].type = "radio" /\ made[t[l]].type = "radio" =>
              ((groupId'[t[k]] = groupId'[t[l]]) <=> \A x \in k..l : made[t[x]].type # "separator")
      BY <1>5, SMTT(30)
    <3>. HIDE DEF t
    <3>. QED  BY <1>1, <3>1, Zenon DEF Segmented
  <2>1. CASE l # pos + 1
    <3>1. /\ k \in DOMAIN s /\ l \in DOMAIN s /\ t[k] = s[k] /\ t[l] = s[l]
          /\ \A x \in k..l : t[x] = s[x]
      BY <1>2, <1>5, <2>1
    <3>2. (groupId'[s[k]] = groupId'[s[l]]) <=> \A x \in k..l : made[s[x]].type # "separator"
      BY <1>1, <1>9, <3>1, SMTT(30) DEF Segmented
    <3>. QED  BY <3>1, <3>2
  <2>2. CASE l = pos + 1
    <3>1. /\ k \in 1..pos /\ t[k] = s[k] /\ t[l] = i /\ pos > 0 /\ \A x \in k..pos : t[x] = s[x]
          /\ k..l = k..pos \cup {pos + 1}
      BY <1>2, <1>5, <2>2
    <3>. DEFINE near == Nearest(s, pos, TRUE)
                g == GenerateGroupId(s, pos)
    <3>2. /\ g = IF near # 0 /\ Type(near) = "radio" THEN groupId[near] ELSE nextGroup + 1
          /\ groupId'[i] = g
      <4>1. (IF pos > 0 THEN pos ELSE 1) = pos /\ (pos > 0) = TRUE
        BY <3>1
      <4>2. g = IF near # 0 /\ Type(near) = "radio" THEN groupId[near] ELSE nextGroup + 1
        BY <4>1, Zenon DEF GenerateGroupId
      <4>3. ~(Type(i) # "radio" \/ pos > Len(s)) /\ latest # 0 /\ groupId[latest] = 0
        BY <1>1, <1>2, <2>2, <3>1 DEF Type, OnceInv, TemplateHolds, ItemIds
      <4>4. groupId' = [groupId EXCEPT ![latest] = g]
        BY <1>1, <4>3 DEF TakeGroup
      <4>5. groupId \in [ItemIds -> Nat]
        BY DEF OnceInv, TablesTypeOK
      <4>. QED  BY <1>1, <4>2, <4>4, <4>5
    <3>3. IsNearest(near, s, pos)
      BY <1>2, NearestBefore
    <3>. HIDE DEF near, g
    <3>4. PICK b \in DOMAIN s :
            /\ near = s[b] /\ Type(s[b]) \in {"radio", "separator"}
            /\ \A x \in DOMAIN s : Type(s[x]) \in {"radio", "separator"} => x <= b
      <4>1. k \in DOMAIN s /\ k <= pos /\ Type(s[k]) = "radio"
        BY <1>2, <3>1 DEF Type
      <4>. QED  BY <1>2, <3>3, <4>1 DEF IsNearest
    <3>5. b \in 1..pos /\ k <= b /\ near # 0 /\ near \in ItemIds
      <4>1. b \in 1..pos /\ s[b] \in ItemIds
        BY <1>2
      <4>2. k \in DOMAIN s /\ Type(s[k]) = "radio"
        BY <1>2, <3>1 DEF Type
      <4>3. near \in ItemIds /\ near # 0
        BY <3>4, <4>1 DEF ItemIds
      <4>. QED  BY <3>4, <4>1, <4>2, <4>3
    <3>6. \A x \in (b + 1)..(pos + 1) : made[t[x]].type # "separator"
      <4>1. \A x \in (b + 1)..pos : x \in DOMAIN s /\ ~(x <= b) /\ t[x] = s[x]
        BY <1>2, <1>5, <3>5
      <4>2. \A x \in (b + 1)..pos : made[t[x]].type # "separator"
        BY <3>4, <4>1 DEF Type
      <4>3. \A x \in (b + 1)..(pos + 1) : x = pos + 1 \/ x \in (b + 1)..pos
        BY <1>2, <3>5
      <4>. QED  BY <2>2, <4>2, <4>3
    <3>7. CASE Type(near) = "radio"
      <4>1. groupId'[t[l]] = groupId[s[b]] /\ groupId'[t[k]] = groupId[s[k]]
        BY <1>2, <1>8, <3>1, <3>2, <3>4, <3>5, <3>7
      <4>2. (groupId[s[k]] = groupId[s[b]]) <=> \A x \in k..b : made[s[x]].type # "separator"
        <5>1. CASE k = b
          BY <3>4, <3>5, <3>7, <5>1 DEF Type
        <5>2. CASE k # b
          <6>1. k < b /\ made[s[k]].type = "radio" /\ made[s[b]].type = "radio"
            BY <3>1, <3>4, <3>5, <3>7, <5>2 DEF Type
          <6>2. Segmented(s, made, groupId)
            BY <1>6
          <6>3. k \in DOMAIN s /\ b \in DOMAIN s
            BY <1>2, <3>1, <3>4
          <6>. HIDE DEF s
          <6>. QED  BY <6>1, <6>2, <6>3, ZenonT(40) DEF Segmented
        <5>. QED  BY <5>1, <5>2
      <4>3. (\A x \in k..b : made[s[x]].type # "separator")
              <=> \A x \in k..l : made[t[x]].type # "separator"
        <5>1. \A x \in k..b : x \in k..l /\ t[x] = s[x]
          BY <1>5, <2>2, <3>1, <3>5
        <5>2. \A x \in k..l : x \in k..b \/ x \in (b + 1)..(pos + 1)
          BY <2>2, <3>1, <3>5
        <5>. QED  BY <3>6, <5>1, <5>2
      <4>. QED  BY <4>1, <4>2, <4>3
    <3>8. CASE Type(near) = "separator"
      <4>1. groupId'[t[l]] = nextGroup + 1
        BY <3>1, <3>2, <3>8
      <4>2. groupId'[t[k]] \in Nat /\ groupId'[t[k]] <= nextGroup /\ nextGroup \in Nat
        <5>1. s[k] \in ItemIds /\ k \in DOMAIN s
          BY <1>2, <3>1
        <5>2. /\ groupId \in [ItemIds -> Nat] /\ nextGroup \in Nat
              /\ \A j \in ItemIds : groupId[j] <= nextGroup
          BY DEF OnceInv, TablesTypeOK
        <5>3. groupId'[s[k]] = groupId[s[k]] /\ t[k] = s[k]
          BY <1>8, <3>1, <5>1
        <5>. QED  BY <5>1, <5>2, <5>3
      <4>3. b \in k..l /\ made[t[b]].type = "separator"
        BY <1>5, <2>2, <3>1, <3>4, <3>5, <3>8 DEF Type
      <4>. QED  BY <4>1, <4>2, <4>3
    <3>. QED  BY <3>4, <3>7, <3>8
  <2>. QED  BY <2>1, <2>2
<1>11. ASSUME NEW n \in MenuObjects
       PROVE  Len(entries'[n]) = Len(rows'[n]) /\ Segmented(entries'[n], made', groupId')
  <2>1. CASE n = m
    BY <1>4, <1>10, <2>1
  <2>2. CASE n # m
    BY <1>4, <1>6, <1>9, <2>2
  <2>. QED  BY <2>1, <2>2
<1>12. owner'[latest'] # "nowhere"
  <2>1. i \in DOMAIN owner
    BY DEF OnceInv, TablesTypeOK
  <2>. QED  BY <1>1, <1>4, <2>1, MenuAssumption
<1>. QED  BY <1>11, <1>12

LEMMA InsertOnce ==
  ASSUME MenuAlways, OnceInv, NEW m \in MenuObjects, NEW pos \in Nat, NEW i \in ItemIds,
         InsertsNew(m, pos, i)
  PROVE  OnceInv'
<1>. DEFINE throws == InsertThrows(m, pos, i)
            past == Type(i) = "radio" /\ pos > Len(entries[m])
<1>1. /\ TakeGroup(m, pos, i) /\ UNCHANGED <<made, latest, checked>>
      /\ ran' = <<"none", 0>> /\ menuCalls \subseteq menuCalls' /\ "again" \notin menuCalls'
      /\ throws => UNCHANGED <<entries, rows, commands>>
      /\ owner' = IF past THEN owner ELSE [owner EXCEPT ![i] = m]
      /\ past => throws
  BY InsertDoes DEF InsertThrows
<1>2. /\ TablesTypeOK /\ RowsHold /\ AtHome /\ RowsInOrder /\ NewAsMade /\ OneMark
      /\ ItemIds' = ItemIds
  BY <1>1 DEF OnceInv, ItemIds
<1>3. /\ owner[i] = "nowhere" /\ i # 0
      /\ \A n \in MenuObjects : i \notin ToSet(rows[n]) /\ i \notin ToSet(entries[n])
  BY NewIsNowhere
<1>4. /\ GroupsHold' /\ DOMAIN groups' = MenuObjects
      /\ \A n \in MenuObjects : \A g \in DOMAIN groups'[n] : groups'[n][g] \in Seq(Nat)
      /\ \A n \in MenuObjects : \A g \in DOMAIN groups'[n] :
           \A j \in ToSet(groups'[n][g]) : owner'[j] = n
      /\ \A n \in MenuObjects : \A j \in Radios(n)' : j \in Radios(n) \/ (n = m /\ j = i)
  BY InsertKeepsGroups
<1>5. /\ groupId' \in [ItemIds -> Nat] /\ nextGroup' \in Nat
      /\ \A j \in ItemIds : groupId'[j] <= nextGroup'
      /\ \A n \in MenuObjects : \A j \in Radios(n) : groupId'[j] = groupId[j]
  BY <1>1, IdsTaken
<1>6. ~throws => RowIsPlaced(m, pos, i)
  BY InsertPlaces
<1>. HIDE DEF throws, past
<1>7. RowsHold' /\ RowsInOrder'
  <2>1. CASE throws
    <3>1. UNCHANGED <<made, entries, rows, commands>>
      BY <1>1, <2>1
    <3>2. RowsHold'
      BY <1>2, <3>1 DEF RowsHold, Type
    <3>3. RowsInOrder'
      BY <1>1, <1>2, <3>1 DEF RowsInOrder, Ordered
    <3>. QED  BY <3>2, <3>3
  <2>2. CASE ~throws
    BY <2>2, InsertKeepsRows DEF throws
  <2>. QED  BY <2>1, <2>2
<1>8. /\ owner' \in [ItemIds -> MenuObjects \cup {"nowhere"}]
      /\ \A j \in ItemIds : j # i => owner'[j] = owner[j]
      /\ ~throws => owner'[i] = m
  BY <1>1, <1>2 DEF TablesTypeOK
<1>9. AtHome'
  <2>1. ASSUME NEW n \in MenuObjects
        PROVE  /\ \A j \in ToSet(entries'[n]) : (j = i /\ n = m /\ ~throws) \/ j \in ToSet(entries[n])
               /\ \A j \in ToSet(rows'[n]) :
                    j # 0 => (j = i /\ n = m /\ ~throws) \/ j \in ToSet(rows[n])
    <3>1. CASE throws
      BY <1>1, <3>1
    <3>2. CASE ~throws
      <4>1. CASE n = m
        <5>1. ToSet(entries'[m]) = ToSet(entries[m]) \cup {i} /\ ToSet(rows'[m]) = ToSet(rows[m]) \cup {RowOf(i)}
          BY <1>6, <3>2 DEF RowIsPlaced
        <5>2. RowOf(i) # 0 => RowOf(i) = i
          BY DEF RowOf
        <5>. QED  BY <3>2, <4>1, <5>1, <5>2
      <4>2. CASE n # m
        <5>1. entries'[n] = entries[n] /\ rows'[n] = rows[n]
          BY <1>6, <3>2, <4>2 DEF RowIsPlaced
        <5>. QED  BY <5>1
      <4>. QED  BY <4>1, <4>2
    <3>. QED  BY <3>1, <3>2
  <2>2. ASSUME NEW n \in MenuObjects, NEW j,
               j \in ToSet(entries[n]) \/ (j \in ToSet(rows[n]) /\ j # 0)
        PROVE  owner'[j] = n
    <3>1. j \in ItemIds /\ j # i /\ owner[j] = n
      BY <1>2, <1>3, <2>2 DEF RowsHold, AtHome, MenuAlways, Mirrored
    <3>. QED  BY <1>8, <3>1
  <2>3. ASSUME NEW n \in MenuObjects
        PROVE  /\ \A j \in ToSet(entries'[n]) : owner'[j] = n
               /\ \A j \in ToSet(rows'[n]) : j # 0 => owner'[j] = n
    BY <1>8, <2>1, <2>2
  <2>. QED  BY <1>4, <2>3 DEF AtHome
<1>10. TablesTypeOK'
  <2>1. latest' \in 0..Len(made') /\ checked' \in [ItemIds -> BOOLEAN] /\ "template" \in menuCalls'
    BY <1>1, <1>2 DEF TablesTypeOK
  <2>. QED  BY <1>1, <1>2, <1>4, <1>5, <1>8, <2>1 DEF TablesTypeOK
<1>11. NewAsMade'
  <2>. SUFFICES ASSUME NEW j \in ItemIds, owner'[j] = "nowhere"
                PROVE  checked'[j] = made'[j].checked
    BY <1>2 DEF NewAsMade
  <2>1. owner[j] = "nowhere"
    BY <1>3, <1>8
  <2>. QED  BY <1>1, <1>2, <2>1 DEF NewAsMade
<1>12. OneMark'
  <2>. SUFFICES ASSUME NEW n \in MenuObjects, NEW j \in Radios(n)', NEW k \in Radios(n)',
                       groupId'[j] = groupId'[k], checked'[j], checked'[k]
                PROVE  j = k \/ made'[j].checked \/ made'[k].checked
    BY DEF OneMark
  <2>1. checked'[i] => made'[i].checked
    BY <1>1, <1>2, <1>3 DEF NewAsMade
  <2>2. CASE j = i \/ k = i
    BY <2>1, <2>2
  <2>3. CASE j # i /\ k # i
    <3>1. j \in Radios(n) /\ k \in Radios(n)
      BY <1>4, <2>3
    <3>2. groupId[j] = groupId[k]
      BY <1>5, <3>1
    <3>. QED  BY <1>1, <1>2, <3>1, <3>2 DEF OneMark
  <2>. QED  BY <2>2, <2>3
<1>13. ShownIsMarked'
  BY <1>1 DEF ShownIsMarked
<1>14. TemplateHolds' /\ SegmentsAreGroups'
  <2>1. CASE menuCalls' # {"template"}
    BY <2>1, SegmentsAfter DEF TemplateHolds
  <2>2. CASE menuCalls' = {"template"}
    <3>1. /\ \A n \in MenuObjects : Len(entries'[n]) = Len(rows'[n])
          /\ owner'[latest'] # "nowhere"
          /\ \A n \in MenuObjects : Segmented(entries'[n], made', groupId')
      BY <2>2, TemplateKeepsSegments
    <3>2. TemplateHolds'
      BY <3>1 DEF TemplateHolds
    <3>. QED  BY <3>1, <3>2, SegmentsAfter
  <2>. QED  BY <2>1, <2>2
<1>. QED  BY <1>4, <1>7, <1>9, <1>10, <1>11, <1>12, <1>13, <1>14 DEF OnceInv

\* What was inserted again is not forgotten.
LEMMA MenusStep ==
  MenuInv /\ [MenusNext]_menuVars => MenuInv'
<1>. SUFFICES ASSUME MenuInv, [MenusNext]_menuVars
              PROVE  MenuInv'
  OBVIOUS
<1>1. /\ MenuItemIds = ItemIds /\ 0..MaxMenuRows \subseteq Nat
      /\ MenuAlways /\ ("again" \notin menuCalls => OnceInv)
  BY MenuAssumption DEF MenuItemIds, ItemIds, MenuInv, MenuAlways, MenuTypeOK
<1>2. ASSUME NEW o \in MenuOptions, MakeItem(o)
      PROVE  MenuInv'
  <2>1. UNCHANGED menuCalls
    BY <1>2 DEF MakeItem
  <2>. QED  BY <1>1, <1>2, <2>1, MakeItemAlways, MakeItemOnce DEF MenuInv
<1>3. ASSUME NEW m \in MenuObjects, NEW i \in MenuItemIds, NEW pos \in 0..MaxMenuRows,
             Insert(m, pos, i)
      PROVE  MenuInv'
  <2>1. i \in ItemIds /\ pos \in Nat
    BY <1>1
  <2>2. MenuAlways'
    BY <1>1, <1>3, <2>1, InsertAlways
  <2>3. ASSUME "again" \notin menuCalls'
        PROVE  OnceInv'
    <3>1. PICK these : Remembers(these)
      BY <1>3 DEF Insert
    <3>2. "again" \notin menuCalls
      BY <2>3, <3>1, CallsAdd
    <3>3. InsertsNew(m, pos, i)
      BY <1>3, <2>3 DEF InsertsNew
    <3>. QED  BY <1>1, <2>1, <3>2, <3>3, InsertOnce
  <2>. QED  BY <2>2, <2>3 DEF MenuInv
<1>4. ASSUME NEW m \in MenuObjects, NEW pos \in 0..MaxMenuRows, RemoveItem(m, pos)
      PROVE  MenuInv'
  <2>1. pos \in Nat
    BY <1>1
  <2>2. MenuAlways'
    BY <1>1, <1>4, <2>1, RemoveItemAlways
  <2>3. ASSUME "again" \notin menuCalls'
        PROVE  OnceInv'
    <3>1. Remembers({"edited"})
      BY <1>4 DEF RemoveItem
    <3>2. "again" \notin menuCalls
      BY <2>3, <3>1, CallsAdd
    <3>. QED  BY <1>1, <1>4, <2>1, <2>3, <3>2, RemoveItemOnce
  <2>. QED  BY <2>2, <2>3 DEF MenuInv
<1>5. ASSUME NEW i \in MenuItemIds, SetChecked(i)
      PROVE  MenuInv'
  <2>1. UNCHANGED menuCalls
    BY <1>5 DEF SetChecked
  <2>. QED  BY <1>1, <1>5, <2>1, SetCheckedKeeps DEF MenuInv
<1>6. ASSUME NEW m \in MenuObjects, MenuWillShow(m)
      PROVE  MenuInv'
  <2>1. UNCHANGED menuCalls
    BY <1>6 DEF MenuWillShow
  <2>. QED  BY <1>1, <1>6, <2>1, MenuWillShowKeeps DEF MenuInv
<1>7. ASSUME NEW m \in MenuObjects, NEW i \in MenuItemIds,
             NEW f \in {"none", "closable", "fixed"}, Click(m, i, f)
      PROVE  MenuInv'
  <2>1. UNCHANGED menuCalls
    BY <1>7 DEF Click
  <2>. QED  BY <1>1, <1>7, <2>1, ClickKeeps DEF MenuInv
<1>8. CASE UNCHANGED menuVars
  <2>1. /\ UNCHANGED <<made, latest, groupId, checked, owner, entries, rows, groups, commands>>
        /\ UNCHANGED <<nextGroup, menuCalls, ran>>
    BY <1>8 DEF menuVars
  <2>2. MenuAlways'
    <3>1. NotRunIfRoles'
      BY <1>1, <2>1 DEF MenuAlways, NotRunIfRoles, DisabledIsNotRun, MenuItemIds
    <3>. QED  BY <1>1, <2>1, <3>1, RowsRest
  <2>3. ASSUME OnceInv
        PROVE  OnceInv'
    <3>1. TablesTypeOK'
      BY <2>1, <2>3 DEF OnceInv, TablesTypeOK, ItemIds
    <3>2. RowsHold'
      BY <2>1, <2>3 DEF OnceInv, RowsHold, ItemIds, Type
    <3>3. AtHome'
      BY <2>1, <2>3 DEF OnceInv, AtHome
    <3>4. RowsInOrder'
      BY <2>1, <2>3 DEF OnceInv, RowsInOrder, Ordered
    <3>5. \A m \in MenuObjects : Radios(m)' = Radios(m)
      BY <2>1 DEF Radios, Type
    <3>6. GroupsHold'
      <4>1. GroupsHold /\ ItemIds' = ItemIds
        BY <2>1, <2>3 DEF OnceInv, ItemIds
      <4>2. UNCHANGED <<groupId, groups, entries>>
        BY <2>1
      <4>. QED  BY <3>5, <4>1, <4>2 DEF GroupsHold
    <3>7. NewAsMade'
      BY <2>1, <2>3 DEF OnceInv, NewAsMade, ItemIds
    <3>8. OneMark'
      BY <2>1, <2>3, <3>5 DEF OnceInv, OneMark
    <3>9. ShownIsMarked'
      <4>1. UNCHANGED ran
        BY <2>1
      <4>. QED  BY <2>1, <2>3, <3>5, <4>1 DEF OnceInv, ShownIsMarked
    <3>10. TemplateHolds' /\ SegmentsAreGroups'
      BY <2>1, <2>3 DEF OnceInv, TemplateHolds, SegmentsAreGroups, Type
    <3>. QED  BY <3>1, <3>2, <3>3, <3>4, <3>6, <3>7, <3>8, <3>9, <3>10 DEF OnceInv
  <2>. QED  BY <1>1, <2>1, <2>2, <2>3 DEF MenuInv
<1>. QED  BY <1>2, <1>3, <1>4, <1>5, <1>6, <1>7, <1>8 DEF MenusNext

LEMMA MenusInvariant == MenusSpec => []MenuInv
  BY MenuInitHolds, MenusStep, PTL DEF MenusSpec

\* menu.ts, menu-item.ts: whatever is made, inserted, removed, checked, shown and
\* clicked, and also after the calls that throw half way, the rows of a menu from
\* which nothing was removed are its items', and no row of a removed item is shown;
\* and until an item is inserted a second time, the rows shown are the items, a
\* group has one mark, and a template's segments are its groups.
THEOREM TablesKeepTogether ==
  MenusSpec => [](OneChecked /\ SegmentsAreGroups /\ RowsAreItems)
<1>1. MenuInv => OneChecked /\ SegmentsAreGroups /\ RowsAreItems
  BY MenuInvImplies
<1>. QED  BY <1>1, MenusInvariant, PTL

\* And where JavaScript runs the roles, no handler of a disabled item runs, however
\* often it was inserted.  On macOS the system runs the role of a row, and
\* IsCommandIdEnabled is about it.
THEOREM MenusKeepTogether ==
  ASSUME MenuHost # "darwin"
  PROVE  MenusSpec => []MenusAgree
<1>1. MenuInv => MenusAgree
  BY MenuInvImplies DEF MenusAgree, NotRunIfRoles
<1>. QED  BY <1>1, MenusInvariant, PTL
=============================================================================
