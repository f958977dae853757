--------------------------- MODULE AsarFs_proofs ---------------------------
(***************************************************************************)
(* Theorems about AsarFs, for any archives, contents, fuse and number of   *)
(* asynchronous calls and changes.                                         *)
(*                                                                         *)
(* IInv is inductive: it ties every call in flight to the archive object   *)
(* it began with (an archive that is open keeps its header, and what is    *)
(* known of a file depends on the header alone), and says that the         *)
(* observer has seen the synchronous answers of this moment in every mode  *)
(* the call met.  The answer that comes later is then one of them.         *)
(***************************************************************************)
EXTENDS AsarFs, TLAPS

\* The archive objects H over the files D: what TypeOK says of handle and disk;
Sound(D, H) ==
  /\ D \in [Paths -> Contents \cup {"absent"}]
  /\ H \in [Paths -> Handle]
  /\ \A a \in Paths : /\ H[a].live => H[a].bytes = D[a]
                      /\ IF Closed(H[a]) THEN H[a] = NoHandle ELSE H[a].bytes \in Contents
\* an archive that is open stays open, with its header;
Stays(H, G) == \A a \in Paths : ~Closed(H[a]) => G[a].header = H[a].header
\* what was copied out is what the header vouches for.
CopiesVerified(H) == \A a \in Paths : \A x \in H[a].copies : x[2] = H[a].header
-----------------------------------------------------------------------------
\* The cache opens an archive once, and an archive just opened has no copies.
LEMMA OpenFacts ==
  ASSUME NEW D, NEW H, Sound(D, H), NEW a \in Paths
  PROVE  LET h == GetOrCreateArchive(H[a], D[a])
         IN  /\ h \in Handle
             /\ h.live => h.bytes = D[a]
             /\ IF Closed(h) THEN h = NoHandle ELSE h.bytes \in Contents
             /\ ~Closed(H[a]) => h = H[a]
             /\ GetOrCreateArchive(h, D[a]) = h
             /\ \/ h.header = H[a].header /\ h.copies = H[a].copies
                \/ h.copies = {}
             /\ D[a] = "absent" => h = H[a]
  BY ContentAssumption DEF Sound, GetOrCreateArchive, Handle, Closed, NoHandle, Contents

\* An archive object is its four fields.
LEMMA HandleFields ==
  ASSUME NEW h \in Handle
  PROVE  h = [header |-> h.header, bytes |-> h.bytes, live |-> h.live, copies |-> h.copies]
  BY DEF Handle

\* Only files of an open archive are read.
LEMMA FileFacts ==
  ASSUME NEW h \in Handle, NEW e \in Entries, FileInfo(h, e) # "none"
  PROVE  ~Closed(h) /\ KindOf(h, e) # "none"
  BY ContentAssumption DEF FileInfo, KindOf, Resolve, Handle, Closed, Kinds

\* A copy that is handed out has the content the archive had when it was made;
\* with the fuse, that of its header.
LEMMA CopyFacts ==
  ASSUME NEW h \in Handle, ~Closed(h) => h.bytes \in Contents, NEW e \in Entries,
         FileInfo(h, e) = "packed", CopyFileOut(h, e)[1] = "ok"
  PROVE  /\ CopyFileOut(h, e)[2] \in Contents
         /\ Integrity /\ (\A x \in h.copies : x[2] = h.header) => CopyFileOut(h, e)[2] = h.header
<1>1. CASE \E v \in Contents : <<e, v>> \in h.copies
  <2>1. CopyFileOut(h, e) = Ok(CHOOSE v \in Contents : <<e, v>> \in h.copies)
    BY <1>1 DEF CopyFileOut
  <2>2. PICK v \in Contents : v = (CHOOSE u \in Contents : <<e, u>> \in h.copies) /\ <<e, v>> \in h.copies
    BY <1>1
  <2> QED BY <2>1, <2>2 DEF Ok
<1>2. CASE ~\E v \in Contents : <<e, v>> \in h.copies
  <2>1. CopyFileOut(h, e) = ValidateBufferIntegrity(h)
    BY <1>2 DEF CopyFileOut
  <2> QED BY <2>1, FileFacts DEF ValidateBufferIntegrity, Ok, Died
<1> QED BY <1>1, <1>2

\* What a call leaves of the archive objects.
LEMMA TouchedByFacts ==
  ASSUME NEW D, NEW H, Sound(D, H), NEW a \in Paths, NEW e \in Entries, NEW op, NEW n, NEW is
  PROVE  LET G == TouchedBy(op, a, e, D, H, n, is)
         IN  /\ Sound(D, G) /\ Stays(H, G)
             /\ Integrity /\ CopiesVerified(H) => CopiesVerified(G)
             /\ ~n /\ op \notin Walks \cup {"exec", "mkdir"} => GetOrCreateArchive(G[a], D[a]) = G[a]
<1> DEFINE G == TouchedBy(op, a, e, D, H, n, is)
           h == GetOrCreateArchive(H[a], D[a])
<1>1. CASE n \/ op \in {"exec", "mkdir"}
  BY <1>1 DEF TouchedBy, Stays
<1>2. CASE ~(n \/ op \in {"exec", "mkdir"}) /\ op \in Walks
  <2>1. /\ DOMAIN G = Paths /\ \A b \in Paths : G[b] = H[b] \/ G[b] = GetOrCreateArchive(H[b], D[b])
        /\ G = [b \in Paths |-> G[b]]
    BY <1>2 DEF TouchedBy, Opened
  <2> HIDE DEF G
  <2>2. Sound(D, G)
    BY <2>1, OpenFacts DEF Sound
  <2>3. Stays(H, G)
    BY <2>1, OpenFacts DEF Stays
  <2>4. Integrity /\ CopiesVerified(H) => CopiesVerified(G)
    BY <2>1, OpenFacts DEF CopiesVerified
  <2>5. ~(~n /\ op \notin Walks \cup {"exec", "mkdir"})
    BY <1>2
  <2> HIDE DEF h
  <2> QED BY <2>2, <2>3, <2>4, <2>5 DEF G
<1>3. CASE ~(n \/ op \in {"exec", "mkdir"}) /\ op \notin Walks
  <2> DEFINE copied == op = "open" /\ FileInfo(h, e) = "packed" /\ CopyFileOut(h, e)[1] = "ok"
             g == IF copied THEN [h EXCEPT !.copies = @ \cup {<<e, CopyFileOut(h, e)[2]>>}] ELSE h
  <2>1. G = [H EXCEPT ![a] = g]
    BY <1>3 DEF TouchedBy
  <2>2. h \in Handle /\ (IF Closed(h) THEN h = NoHandle ELSE h.bytes \in Contents)
    BY OpenFacts
  <2>3. g \in Handle /\ g.header = h.header /\ g.bytes = h.bytes /\ g.live = h.live
    BY <2>2, CopyFacts DEF Handle
  <2>4. copied => ~Closed(h)
    BY <2>2, FileFacts
  <2>5. \A x \in g.copies : x \in h.copies \/ (copied /\ x[2] = CopyFileOut(h, e)[2])
    BY <2>2 DEF Handle
  <2>6. GetOrCreateArchive(g, D[a]) = g
    BY <2>2, <2>4, OpenFacts DEF GetOrCreateArchive, Closed, Handle
  <2>7. Sound(D, G)
    BY <2>1, <2>2, <2>3, <2>4, OpenFacts DEF Sound, Closed
  <2>8. Stays(H, G)
    BY <2>1, <2>3, OpenFacts DEF Stays, Sound
  <2>9. ASSUME Integrity, CopiesVerified(H) PROVE CopiesVerified(G)
    <3>1. \A x \in h.copies : x[2] = h.header
      BY <2>9, OpenFacts DEF CopiesVerified
    <3>2. \A x \in g.copies : x[2] = g.header
      BY <2>2, <2>3, <2>5, <2>9, <3>1, CopyFacts
    <3> QED BY <2>1, <2>9, <3>2 DEF CopiesVerified, Sound
  <2> QED BY <2>1, <2>6, <2>7, <2>8, <2>9 DEF Sound
<1> QED BY <1>1, <1>2, <1>3
LEMMA TouchedFacts ==
  ASSUME NEW D, NEW H, Sound(D, H), NEW a \in Paths, NEW e \in Entries, NEW op, NEW n
  PROVE  LET G == Touched(op, a, e, D, H, n)
         IN  /\ Sound(D, G) /\ Stays(H, G)
             /\ Integrity /\ CopiesVerified(H) => CopiesVerified(G)
             /\ ~n /\ op \notin Walks \cup {"exec", "mkdir"} => GetOrCreateArchive(G[a], D[a]) = G[a]
  BY TouchedByFacts DEF Touched
-----------------------------------------------------------------------------
\* A call waits; its answer is fixed; the answer is one that was seen, or may differ.
InFlight(x) == x.stage \notin {"idle", "done"}
Acceptable(x) == x.ans \in x.seen \/ KnownDifference(x.op, x.ans)
Fixed(x) == x.stage \in {"decided", "done"}

\* What the directory of a call has.
Has(op, D) == IF op \in Walks THEN Present(D) ELSE {}

\* A call in flight has seen the answers of this moment, in every mode it has met
\* and for all that its directory had.
Witnessed(c) ==
  InFlight(call[c]) =>
    /\ noAsar \in call[c].modes /\ Has(call[c].op, disk) \in call[c].lists
    /\ \A m \in call[c].modes, is \in call[c].lists :
         SyncOf(call[c].op, call[c].a, call[c].e, disk, handle, m, is) \in call[c].seen

\* What a listing has below its archives is in archives that are open.
LookedUp(ans, H) ==
  \A x \in ans[3] :
    x[1] \in Paths /\ (x[2] # Root => ~Closed(H[x[1]]) /\ KindOf(H[x[1]], x[2]) # "none")

\* What a call that waits, or has its answer, was told when it began.
Waits(c) ==
  LET x == call[c]
      h == handle[x.a]
  IN  /\ x.stage = "restat" => x.op = "stat"
      /\ x.stage = "realpath" =>
           x.op = "realpath" /\ FALSE \in x.modes /\ KindOf(h, x.e) # "none"
      /\ x.stage = "read" =>
           x.op = "readFile" /\ FALSE \in x.modes /\ FileInfo(h, x.e) = "packed"
      /\ x.stage = "native" => x.op \notin Walks /\ (x.op = "exec" \/ TRUE \in x.modes)
      /\ x.stage = "walk" => x.op \in Walks
      /\ x.stage = "walked" => x.op \in Walks /\ x.names \in x.lists
      /\ x.stage = "decided" => x.op \notin Walks
      /\ x.stage = "done" /\ x.op \in Walks => LookedUp(x.ans, handle)
      /\ Fixed(x) => exited \/ Acceptable(x)

\* Bytes that a call has or will hand out are those the header vouches for.
Verified(c) ==
  LET x == call[c] IN
  /\ Fixed(x) /\ x.op \in {"readFile", "open"} /\ x.ans[1] = "ok" /\ x.ans[2] \in Versions
  => exited \/ (~Closed(handle[x.a]) /\ x.ans[2] = handle[x.a].header)

\* The inductive invariant.
IInv ==
  /\ TypeOK
  /\ Integrity => CopiesVerified(handle)
  /\ \A c \in Calls : Witnessed(c) /\ Waits(c) /\ (Integrity => Verified(c))
-----------------------------------------------------------------------------
\* The observer changes nothing of a call but what it has seen, and lets a call in
\* flight see the present.
LEMMA WatchedFacts ==
  ASSUME NEW cs, NEW D, NEW H, NEW n, NEW c \in Calls, DOMAIN cs[c] = DOMAIN Idle
  PROVE  LET x == cs[c]
             y == Watched(cs, D, H, n)[c]
         IN  /\ DOMAIN y = DOMAIN Idle
             /\ y.stage = x.stage /\ y.op = x.op /\ y.a = x.a /\ y.e = x.e /\ y.ans = x.ans
             /\ y.names = x.names
             /\ x.modes \subseteq y.modes /\ x.lists \subseteq y.lists /\ x.seen \subseteq y.seen
             /\ InFlight(x) =>
                  /\ n \in y.modes /\ Has(x.op, D) \in y.lists
                  /\ \A m \in y.modes, is \in y.lists : SyncOf(x.op, x.a, x.e, D, H, m, is) \in y.seen
  BY DEF Watched, Observed, Idle, InFlight, Has

\* What is known of a file depends on the header alone.
LEMMA HeaderFacts ==
  ASSUME NEW g, NEW h, g.header = h.header, NEW e
  PROVE  /\ Closed(g) <=> Closed(h)
         /\ KindOf(g, e) = KindOf(h, e) /\ Resolve(g, e) = Resolve(h, e)
         /\ FileInfo(g, e) = FileInfo(h, e) /\ IsDir(g, e) = IsDir(h, e)
         /\ Listing(g) = Listing(h)
  BY DEF Closed, KindOf, Resolve, FileInfo, IsDir, Listing

\* A call that another step leaves alone keeps what it knows.
LEMMA OthersKeep ==
  ASSUME IInv, ~exited, Sound(disk', handle'), Stays(handle, handle'),
         NEW cs, call' = Watched(cs, disk', handle', noAsar'), NEW c \in Calls, cs[c] = call[c]
  PROVE  (Witnessed(c) /\ Waits(c) /\ (Integrity => Verified(c)))'
<1> DEFINE x == call[c]
           y == call'[c]
           h == handle[x.a]
           g == handle'[x.a]
<1>1. DOMAIN x = DOMAIN Idle /\ x.a \in Paths /\ x.e \in Entries
  BY DEF IInv, TypeOK
<1>2. /\ y.stage = x.stage /\ y.op = x.op /\ y.a = x.a /\ y.e = x.e /\ y.ans = x.ans
      /\ y.names = x.names
      /\ x.modes \subseteq y.modes /\ x.lists \subseteq y.lists /\ x.seen \subseteq y.seen
      /\ InFlight(x) => noAsar' \in y.modes /\ Has(x.op, disk') \in y.lists
      /\ InFlight(x) => \A m \in y.modes, is \in y.lists :
                          SyncOf(x.op, x.a, x.e, disk', handle', m, is) \in y.seen
  BY <1>1, WatchedFacts
<1>3. ~Closed(h) => /\ g.header = h.header
                    /\ KindOf(g, x.e) = KindOf(h, x.e) /\ FileInfo(g, x.e) = FileInfo(h, x.e)
  BY <1>1, HeaderFacts DEF Stays
<1>4. KindOf(h, x.e) # "none" \/ FileInfo(h, x.e) = "packed" => ~Closed(h)
  BY DEF KindOf, FileInfo
<1>5. Waits(c) /\ Witnessed(c) /\ (Integrity => Verified(c))
  BY DEF IInv
<1>A. LookedUp(x.ans, handle) => LookedUp(x.ans, handle')
  BY HeaderFacts DEF LookedUp, Stays
<1> HIDE DEF x, y, h, g
<1>6. Witnessed(c)'
  BY <1>2 DEF Witnessed, InFlight, x, y
<1>7. Fixed(y) => Acceptable(y)
  <2>1. Fixed(x) => Acceptable(x)
    BY <1>5 DEF Waits, x
  <2> QED BY <1>2, <2>1 DEF Fixed, Acceptable
<1>8. Waits(c)'
  BY <1>2, <1>3, <1>4, <1>5, <1>7, <1>A DEF Waits, x, y, h, g
<1>9. Integrity => Verified(c)'
  BY <1>2, <1>3, <1>5 DEF Verified, Fixed, Closed, x, y, h, g
<1> QED BY <1>6, <1>8, <1>9
-----------------------------------------------------------------------------
\* The kinds of a file.
LEMMA FileKinds ==
  ASSUME NEW h \in Handle, NEW e \in Entries
  PROVE  FileInfo(h, e) \in {"none", "packed", "empty", "unpacked"}
  BY ContentAssumption DEF FileInfo, KindOf, Resolve, Handle, Closed, Kinds

\* The synchronous answers, outside and inside an archive.
LEMMA SyncFacts ==
  ASSUME NEW op \in AsyncOps \ Walks, NEW a, NEW e, NEW D, NEW H, NEW m
  PROVE  /\ Has(op, D) = {}
         /\ m \/ op = "exec" => SyncOf(op, a, e, D, H, m, {}) = Native(op, e, D[a])
         /\ ~(m \/ op = "exec") =>
              SyncOf(op, a, e, D, H, m, {}) = InArchive(op, GetOrCreateArchive(H[a], D[a]), e, D[a])
  BY DEF SyncOf, Walks, AsyncOps, Has

\* Where an asynchronous call waits depends on its function; what is decided at once
\* is the synchronous answer or a known difference.
LEMMA BeginFacts ==
  ASSUME NEW op \in AsyncOps \ (Walks \cup {"exec"}), NEW a, NEW e, NEW h
  PROVE  LET b == Begin(op, a, e, h)
         IN  /\ b[1] \in {"restat", "realpath", "read", "decided"}
             /\ b[1] = "restat" => op = "stat"
             /\ b[1] = "realpath" => op = "realpath" /\ KindOf(h, e) # "none"
             /\ b[1] = "read" => op = "readFile" /\ FileInfo(h, e) = "packed"
             /\ op = "readFile" /\ b[1] = "decided" => FileInfo(h, e) # "packed"
             /\ op = "stat" <=> b[1] = "restat"
             /\ b[1] = "decided" => b[2] = InArchive(op, h, e, disk[a]) \/ KnownDifference(op, b[2])
             /\ b[1] = "decided" /\ op \in {"readFile", "open"} => b[2] = InArchive(op, h, e, disk[a])
<1> DEFINE b == Begin(op, a, e, h)
<1>1. CASE op = "stat"
  BY <1>1 DEF Begin
<1>2. CASE op = "realpath"
  BY <1>2 DEF Begin
<1>3. CASE op \in {"exists", "existsPromise"}
  <2>1. CASE Closed(h)
    <3>1. b = <<"decided", Err("INVALID")>>
      BY <1>3, <2>1 DEF Begin, Missing
    <3> QED BY <1>3, <3>1 DEF KnownDifference
  <2>2. CASE ~Closed(h)
    BY <1>3, <2>2 DEF Begin
  <2> QED BY <2>1, <2>2
<1>4. CASE op = "readFile"
  BY <1>4 DEF Begin
<1>5. CASE op \in {"readdirRecursive", "readdirRecursivePromise"}
  <2>1. InArchive(op, h, e, disk[a]) = ReaddirSyncRecursive(h, e)
    BY <1>5 DEF InArchive
  <2>2. b[1] = "decided" /\ b[2] = (IF op = "readdirRecursive" THEN ReaddirSync(h, e)
                                    ELSE ReaddirSyncRecursive(h, e))
    BY <1>5 DEF Begin, ReaddirRecursive, ReaddirRecursivePromises
  <2> QED BY <1>5, <2>1, <2>2 DEF ReaddirSyncRecursive, KnownDifference
<1>6. CASE op \notin {"stat", "realpath", "exists", "existsPromise", "readFile",
                      "readdirRecursive", "readdirRecursivePromise"}
  BY <1>6 DEF Begin
<1> QED BY <1>1, <1>2, <1>3, <1>4, <1>5, <1>6

\* The readers hand out bytes of no version but that of the header.
LEMMA ReadersVerify ==
  ASSUME Integrity, NEW h \in Handle, ~Closed(h) => h.bytes \in Contents,
         \A x \in h.copies : x[2] = h.header, NEW e \in Entries, NEW d,
         NEW op \in {"readFile", "open"}, op = "readFile" => FileInfo(h, e) # "packed",
         InArchive(op, h, e, d)[1] = "ok", InArchive(op, h, e, d)[2] \in Versions
  PROVE  ~Closed(h) /\ InArchive(op, h, e, d)[2] = h.header
<1> DEFINE ans == InArchive(op, h, e, d)
<1>0. ans = IF op = "open" THEN CopyFileOut(h, e) ELSE ReadFileSync(h, e)
  BY DEF InArchive
<1> HIDE DEF ans
<1>1. CASE FileInfo(h, e) = "none"
  <2>1. ans = Missing(h)
    <3>1. CopyFileOut(h, e) = Missing(h)
      BY <1>1 DEF CopyFileOut
    <3>2. ReadFileSync(h, e) = Missing(h)
      BY <1>1 DEF ReadFileSync
    <3> QED BY <1>0, <3>1, <3>2
  <2> QED BY <2>1 DEF Missing, Err, ans
<1>2. CASE FileInfo(h, e) \in {"empty", "unpacked"}
  <2>1. ans \in {Ok("empty"), Ok("plain")}
    <3>1. CopyFileOut(h, e) \in {Ok("empty"), Ok("plain")}
      BY <1>2 DEF CopyFileOut
    <3>2. ReadFileSync(h, e) \in {Ok("empty"), Ok("plain")}
      BY <1>2 DEF ReadFileSync
    <3> QED BY <1>0, <3>1, <3>2
  <2> QED BY <2>1, ContentAssumption DEF Ok, ans
<1>3. CASE FileInfo(h, e) = "packed"
  <2>1. op = "open" /\ ans = CopyFileOut(h, e)
    BY <1>0, <1>3
  <2> QED BY <1>3, <2>1, CopyFacts, FileFacts DEF ans
<1> QED BY <1>1, <1>2, <1>3, FileKinds DEF ans
-----------------------------------------------------------------------------
\* A new call is told where it waits, or its answer.
LEMMA CallAsyncKeeps ==
  ASSUME IInv, NEW c \in Calls, NEW op \in AsyncOps, NEW a \in Paths, NEW e \in Entries,
         CallAsync(c, op, a, e)
  PROVE  IInv'
<1> DEFINE H == Touched(op, a, e, disk, handle, noAsar)
           begun == IF op \in Walks THEN <<"walk", Idle.ans>>
                    ELSE IF noAsar \/ op = "exec" THEN <<"native", Idle.ans>> ELSE Begin(op, a, e, H[a])
           begins == [stage |-> begun[1], op |-> op, a |-> a, e |-> e, ans |-> begun[2],
                      names |-> {}, modes |-> {}, lists |-> {}, seen |-> {}]
           cs == [call EXCEPT ![c] = begins]
           y == call'[c]
<1>1. TypeOK /\ Sound(disk, handle) /\ DOMAIN call = Calls /\ ~exited
      /\ (Integrity => CopiesVerified(handle))
  BY DEF IInv, TypeOK, Sound, CallAsync
<1>2. /\ handle' = IF op \in Walks \cup {"stat"} THEN handle ELSE H
      /\ exited' = (begun[2] = Died)
      /\ call' = Watched(cs, disk, handle', noAsar)
      /\ UNCHANGED <<disk, noAsar, changes>>
  BY DEF CallAsync
<1>3. /\ Sound(disk', handle') /\ Stays(handle, handle')
      /\ Integrity => CopiesVerified(handle')
      /\ ~noAsar /\ op \notin Walks \cup {"exec", "mkdir", "stat"} =>
           handle'[a] = H[a] /\ GetOrCreateArchive(handle'[a], disk[a]) = handle'[a]
  BY <1>1, <1>2, TouchedFacts DEF Stays
<1>4. /\ cs[c].stage = begun[1] /\ cs[c].op = op /\ cs[c].a = a /\ cs[c].e = e /\ cs[c].ans = begun[2]
      /\ cs[c].names = {}
      /\ DOMAIN cs[c] = DOMAIN Idle /\ \A d \in Calls \ {c} : cs[d] = call[d]
  <2>1. cs[c] = begins /\ \A d \in Calls \ {c} : cs[d] = call[d]
    BY <1>1
  <2> QED BY <2>1 DEF Idle
<1> HIDE DEF begins, begun, cs
<1>5. /\ DOMAIN y = DOMAIN Idle
      /\ y.stage = begun[1] /\ y.op = op /\ y.a = a /\ y.e = e /\ y.ans = begun[2] /\ y.names = {}
      /\ begun[1] \notin {"idle", "done"} =>
           /\ noAsar \in y.modes /\ Has(op, disk) \in y.lists
           /\ \A m \in y.modes, is \in y.lists : SyncOf(op, a, e, disk, handle', m, is) \in y.seen
  BY <1>2, <1>4, WatchedFacts DEF InFlight
<1> HIDE DEF y, H
<1>6. /\ begun[1] \in {"walk", "native", "restat", "realpath", "read", "decided"}
      /\ begun[1] = "walk" <=> op \in Walks
      /\ begun[1] = "native" => op \notin Walks /\ (op = "exec" \/ noAsar)
      /\ begun[1] \notin {"walk", "native"} =>
           op \notin Walks \cup {"exec"} /\ ~noAsar /\ begun = Begin(op, a, e, H[a])
  BY BeginFacts DEF begun
<1>B. /\ begun[1] = "restat" => op = "stat"
      /\ begun[1] = "realpath" => op = "realpath" /\ KindOf(H[a], e) # "none"
      /\ begun[1] = "read" => op = "readFile" /\ FileInfo(H[a], e) = "packed"
  BY <1>6, BeginFacts
<1>7. TypeOK'
  <2>1. \A d \in Calls : DOMAIN call'[d] = DOMAIN Idle /\ call'[d].stage \in Stages
                          /\ call'[d].op \in AsyncOps /\ call'[d].a \in Paths /\ call'[d].e \in Entries
                          /\ call'[d].names \subseteq DOMAIN Archives
    <3> TAKE d \in Calls
    <3>1. CASE d = c
      BY <1>5, <1>6, <3>1 DEF y, Stages
    <3>2. CASE d # c
      BY <1>1, <1>2, <1>4, <3>2, WatchedFacts DEF TypeOK
    <3> QED BY <3>1, <3>2
  <2>2. DOMAIN call' = Calls
    BY <1>2 DEF Watched
  <2> QED BY <1>1, <1>2, <1>3, <2>1, <2>2 DEF TypeOK, Sound
<1>8. Witnessed(c)'
  BY <1>2, <1>5 DEF Witnessed, InFlight, y
<1>9. begun[1] = "decided" => Acceptable(y)
  <2> SUFFICES ASSUME begun[1] = "decided", ~KnownDifference(op, begun[2])
               PROVE  begun[2] \in y.seen
    BY <1>5 DEF Acceptable
  <2>1. /\ op \in AsyncOps \ (Walks \cup {"exec"}) /\ op # "stat" /\ ~noAsar
        /\ begun[2] = InArchive(op, H[a], e, disk[a])
    BY <1>6, BeginFacts
  <2>2. /\ SyncOf(op, a, e, disk, handle', noAsar, {}) =
               InArchive(op, GetOrCreateArchive(handle'[a], disk[a]), e, disk[a])
        /\ Has(op, disk) = {}
    BY <2>1, SyncFacts
  <2>3. CASE op # "mkdir"
    BY <1>3, <1>5, <2>1, <2>2, <2>3
  <2>4. CASE op = "mkdir"
    BY <1>5, <2>1, <2>2, <2>4 DEF InArchive
  <2> QED BY <2>3, <2>4
<1>10. Waits(c)'
  <2>1. CASE begun[1] \in {"restat", "walk"}
    BY <1>5, <1>6, <1>B, <2>1 DEF Waits, Fixed, y
  <2>2. CASE begun[1] = "native"
    BY <1>1, <1>5, <1>6, <2>2 DEF Waits, Fixed, y, TypeOK
  <2>3. CASE begun[1] \in {"realpath", "read"}
    <3>1. ~noAsar /\ op \notin Walks \cup {"exec", "mkdir", "stat"} /\ handle'[a] = H[a]
      BY <1>3, <1>6, <2>3, BeginFacts DEF Walks
    <3>2. FALSE \in y.modes
      BY <1>1, <1>5, <2>3, <3>1 DEF TypeOK
    <3> QED BY <1>5, <1>B, <2>3, <3>1, <3>2 DEF Waits, Fixed, y
  <2>4. CASE begun[1] = "decided"
    BY <1>5, <1>6, <1>9, <2>4 DEF Waits, Fixed, y
  <2> QED BY <1>6, <2>1, <2>2, <2>3, <2>4
<1>11. Integrity => Verified(c)'
  <2> SUFFICES ASSUME Integrity, begun[1] = "decided", op \in {"readFile", "open"},
                      begun[2][1] = "ok", begun[2][2] \in Versions
               PROVE  ~Closed(handle'[a]) /\ begun[2][2] = handle'[a].header
    BY <1>5, <1>6 DEF Verified, Fixed, y
  <2>1. /\ handle'[a] = H[a] /\ begun[2] = InArchive(op, H[a], e, disk[a])
        /\ op = "readFile" => FileInfo(H[a], e) # "packed"
    BY <1>3, <1>6, BeginFacts DEF Walks
  <2>2. /\ H[a] \in Handle /\ (~Closed(H[a]) => H[a].bytes \in Contents)
        /\ \A x \in H[a].copies : x[2] = H[a].header
    BY <1>3, <2>1 DEF Sound, CopiesVerified
  <2> QED BY <2>1, <2>2, ReadersVerify
<1>12. ASSUME NEW d \in Calls \ {c} PROVE (Witnessed(d) /\ Waits(d) /\ (Integrity => Verified(d)))'
  BY <1>1, <1>2, <1>3, <1>4, OthersKeep
<1> QED BY <1>3, <1>7, <1>8, <1>10, <1>11, <1>12 DEF IInv

\* The calls that a step leaves alone, for steps that leave all of them alone.
LEMMA QuietStep ==
  ASSUME IInv, ~exited, Sound(disk', handle'), Stays(handle, handle'),
         Integrity /\ CopiesVerified(handle) => CopiesVerified(handle'),
         call' = Watched(call, disk', handle', noAsar'),
         noAsar' \in BOOLEAN, exited' \in BOOLEAN, changes' \in 0 .. MaxChanges
  PROVE  IInv'
<1>1. DOMAIN call' = Calls
  BY DEF Watched
<1>2. \A d \in Calls : DOMAIN call'[d] = DOMAIN Idle /\ call'[d].stage \in Stages
                        /\ call'[d].op \in AsyncOps /\ call'[d].a \in Paths /\ call'[d].e \in Entries
                          /\ call'[d].names \subseteq DOMAIN Archives
  BY WatchedFacts DEF IInv, TypeOK
<1>3. TypeOK'
  BY <1>1, <1>2 DEF TypeOK, Sound
<1>4. \A d \in Calls : (Witnessed(d) /\ Waits(d) /\ (Integrity => Verified(d)))'
  BY OthersKeep
<1> QED BY <1>3, <1>4 DEF IInv

\* A synchronous call opens archives and copies files out.
LEMMA CallSyncKeeps ==
  ASSUME IInv, NEW op, NEW a \in Paths, NEW e \in Entries, CallSync(op, a, e)
  PROVE  IInv'
<1>1. Sound(disk, handle) /\ ~exited
  BY DEF IInv, TypeOK, Sound, CallSync
<1>2. /\ handle' = Touched(op, a, e, disk, handle, noAsar) /\ exited' \in BOOLEAN
      /\ call' = Watched(call, disk, handle', noAsar)
      /\ UNCHANGED <<disk, noAsar, changes>>
  BY DEF CallSync
<1>3. /\ Sound(disk', handle') /\ Stays(handle, handle')
      /\ Integrity /\ CopiesVerified(handle) => CopiesVerified(handle')
  BY <1>1, <1>2, TouchedFacts
<1> QED BY <1>1, <1>2, <1>3, QuietStep DEF IInv, TypeOK

\* An update, a write over the archive and a change of process.noAsar leave every
\* open archive its header.
LEMMA ChangeKeeps ==
  ASSUME IInv,
         \/ \E a \in Paths, d \in Contents \cup {"absent"} : Replace(a, d)
         \/ \E a \in Paths, d \in Contents : Rewrite(a, d)
         \/ SetNoAsar
  PROVE  IInv'
<1>1. /\ ~exited /\ call' = Watched(call, disk', handle', noAsar')
      /\ noAsar' \in BOOLEAN /\ exited' \in BOOLEAN /\ changes' \in 0 .. MaxChanges
  <2>1. ASSUME NEW D, NEW G, NEW n \in BOOLEAN, Change(D, G, n)
        PROVE  /\ ~exited /\ call' = Watched(call, disk', handle', noAsar')
               /\ noAsar' \in BOOLEAN /\ exited' = exited /\ changes' \in 0 .. MaxChanges
    BY <2>1, ContentAssumption DEF Change, IInv, TypeOK
  <2>2. noAsar \in BOOLEAN /\ (~noAsar) \in BOOLEAN /\ exited \in BOOLEAN
    BY DEF IInv, TypeOK
  <2>3. ASSUME NEW a \in Paths, NEW d \in Contents \cup {"absent"}, Replace(a, d)
        PROVE  \E D, G : Change(D, G, noAsar)
    BY <2>3 DEF Replace
  <2>4. ASSUME NEW a \in Paths, NEW d \in Contents, Rewrite(a, d)
        PROVE  \E D, G : Change(D, G, noAsar)
    BY <2>4 DEF Rewrite
  <2>5. CASE SetNoAsar
    BY <2>5, <2>1, <2>2 DEF SetNoAsar
  <2> QED BY <2>1, <2>2, <2>3, <2>4, <2>5
<1>2. /\ Sound(disk', handle')
      /\ \A b \in Paths : handle'[b].header = handle[b].header /\ handle'[b].copies = handle[b].copies
  <2>1. ASSUME NEW a \in Paths, NEW d \in Contents \cup {"absent"}, Replace(a, d)
        PROVE  /\ Sound(disk', handle')
               /\ \A b \in Paths : handle'[b].header = handle[b].header /\ handle'[b].copies = handle[b].copies
    <3>1. disk' = [disk EXCEPT ![a] = d] /\ handle' = [handle EXCEPT ![a].live = FALSE]
      BY <2>1 DEF Replace, Change
    <3>2. /\ handle[a] \in Handle /\ handle' \in [Paths -> Handle]
          /\ handle'[a].header = handle[a].header /\ handle'[a].bytes = handle[a].bytes
          /\ handle'[a].live = FALSE /\ handle'[a].copies = handle[a].copies
          /\ \A b \in Paths \ {a} : handle'[b] = handle[b] /\ disk'[b] = disk[b]
          /\ disk' \in [Paths -> Contents \cup {"absent"}]
      BY <3>1, ZenonT(40) DEF IInv, TypeOK, Handle
    <3>3. Closed(handle[a]) => handle'[a] = NoHandle
      BY <3>2, HandleFields DEF IInv, TypeOK, NoHandle
    <3>4. Sound(disk', handle')
      BY <3>2, <3>3 DEF IInv, TypeOK, Sound, Closed
    <3> QED BY <3>2, <3>4
  <2>2. ASSUME NEW a \in Paths, NEW d \in Contents, Rewrite(a, d)
        PROVE  /\ Sound(disk', handle')
               /\ \A b \in Paths : handle'[b].header = handle[b].header /\ handle'[b].copies = handle[b].copies
    <3>1. disk' = [disk EXCEPT ![a] = d]
          /\ handle' = [handle EXCEPT ![a].bytes = IF handle[a].live THEN d ELSE @]
      BY <2>2 DEF Rewrite, Change
    <3>2. /\ handle[a] \in Handle /\ handle' \in [Paths -> Handle]
          /\ handle'[a].header = handle[a].header /\ handle'[a].live = handle[a].live
          /\ handle'[a].bytes = (IF handle[a].live THEN d ELSE handle[a].bytes)
          /\ handle'[a].copies = handle[a].copies
          /\ \A b \in Paths \ {a} : handle'[b] = handle[b] /\ disk'[b] = disk[b]
          /\ disk'[a] = d /\ disk' \in [Paths -> Contents \cup {"absent"}]
      BY <3>1 DEF IInv, TypeOK, Handle
    <3>3. Closed(handle[a]) => handle'[a] = NoHandle
      BY <3>2, HandleFields DEF IInv, TypeOK, NoHandle
    <3>4. Sound(disk', handle')
      BY <3>2, <3>3 DEF IInv, TypeOK, Sound, Closed
    <3> QED BY <3>2, <3>4
  <2>3. CASE SetNoAsar
    BY <2>3 DEF SetNoAsar, Change, IInv, TypeOK, Sound
  <2> QED BY <2>1, <2>2, <2>3
<1>3. Stays(handle, handle') /\ (CopiesVerified(handle) => CopiesVerified(handle'))
  BY <1>2 DEF Stays, CopiesVerified
<1> QED BY <1>1, <1>2, <1>3, QuietStep

\* What a step of call c writes before the observer looks.
Moved(cs, c, stage, ans) ==
  /\ DOMAIN cs[c] = DOMAIN Idle
  /\ cs[c].stage = stage /\ cs[c].op = call[c].op /\ cs[c].a = call[c].a /\ cs[c].e = call[c].e
  /\ cs[c].ans = ans /\ cs[c].names = call[c].names
  /\ \A d \in Calls \ {c} : cs[d] = call[d]

\* Writing a stage and an answer, or a stage alone, is such a step.
LEMMA MovedFacts ==
  ASSUME IInv, NEW c \in Calls, NEW stage, NEW ans
  PROVE  /\ Moved([call EXCEPT ![c] = [@ EXCEPT !.stage = stage, !.ans = ans]], c, stage, ans)
         /\ Moved([call EXCEPT ![c] = [@ EXCEPT !.stage = stage]], c, stage, call[c].ans)
<1>1. DOMAIN call = Calls /\ DOMAIN call[c] = DOMAIN Idle
  BY DEF IInv, TypeOK
<1>2. ASSUME NEW cs, cs = [call EXCEPT ![c] = [call[c] EXCEPT !.stage = stage, !.ans = ans]]
      PROVE  Moved(cs, c, stage, ans)
  <2>1. cs[c] = [call[c] EXCEPT !.stage = stage, !.ans = ans] /\ \A d \in Calls \ {c} : cs[d] = call[d]
    BY <1>1, <1>2
  <2> QED BY <1>1, <2>1 DEF Idle, Moved
<1>3. ASSUME NEW cs, cs = [call EXCEPT ![c] = [call[c] EXCEPT !.stage = stage]]
      PROVE  Moved(cs, c, stage, call[c].ans)
  <2>1. cs[c] = [call[c] EXCEPT !.stage = stage] /\ \A d \in Calls \ {c} : cs[d] = call[d]
    BY <1>1, <1>3
  <2> QED BY <1>1, <2>1 DEF Idle, Moved
<1> QED BY <1>2, <1>3

\* The step of a call that changes its stage and its answer.
LEMMA CallStep ==
  ASSUME IInv, ~exited, NEW c \in Calls, NEW stage \in {"native", "decided", "done"}, NEW ans,
         Sound(disk, handle'), Stays(handle, handle'),
         Integrity /\ CopiesVerified(handle) => CopiesVerified(handle'),
         NEW cs, Moved(cs, c, stage, ans), call' = Watched(cs, disk, handle', noAsar),
         exited' \in BOOLEAN, UNCHANGED <<disk, noAsar, changes>>,
         stage = "native" => noAsar /\ call[c].op \notin Walks,
         stage \in {"decided", "done"} =>
           exited' \/ ans \in call'[c].seen \/ KnownDifference(call[c].op, ans),
         stage = "decided" => call[c].op \notin Walks,
         stage = "done" /\ call[c].op \in Walks => LookedUp(ans, handle'),
         Integrity /\ stage \in {"decided", "done"} /\ call[c].op \in {"readFile", "open"}
           /\ ans[1] = "ok" /\ ans[2] \in Versions =>
             exited' \/ (~Closed(handle'[call[c].a]) /\ ans[2] = handle'[call[c].a].header)
  PROVE  IInv'
<1> DEFINE x == call[c]
           y == call'[c]
<1>1. /\ DOMAIN call = Calls
      /\ DOMAIN x = DOMAIN Idle /\ x.op \in AsyncOps /\ x.a \in Paths /\ x.e \in Entries
      /\ x.names \subseteq DOMAIN Archives
  BY DEF IInv, TypeOK
<1>2. /\ DOMAIN y = DOMAIN Idle
      /\ y.stage = stage /\ y.op = x.op /\ y.a = x.a /\ y.e = x.e /\ y.ans = ans /\ y.names = x.names
      /\ stage \notin {"idle", "done"} =>
           /\ noAsar \in y.modes /\ Has(x.op, disk) \in y.lists
           /\ \A m \in y.modes, is \in y.lists : SyncOf(x.op, x.a, x.e, disk, handle', m, is) \in y.seen
  BY WatchedFacts DEF Moved, InFlight
<1>4. \A d \in Calls : DOMAIN call'[d] = DOMAIN Idle /\ call'[d].stage \in Stages
                        /\ call'[d].op \in AsyncOps /\ call'[d].a \in Paths /\ call'[d].e \in Entries
                          /\ call'[d].names \subseteq DOMAIN Archives
  <2> TAKE d \in Calls
  <2>1. CASE d = c
    BY <1>1, <1>2, <2>1 DEF Stages
  <2>2. CASE d # c
    <3>1. DOMAIN cs[d] = DOMAIN Idle /\ cs[d].stage \in Stages /\ cs[d].op \in AsyncOps
          /\ cs[d].a \in Paths /\ cs[d].e \in Entries /\ cs[d].names \subseteq DOMAIN Archives
      BY <2>2 DEF IInv, TypeOK, Moved
    <3> QED BY <3>1, WatchedFacts
  <2> QED BY <2>1, <2>2
<1>5. TypeOK'
  <2>1. DOMAIN call' = Calls
    BY DEF Watched
  <2> QED BY <1>4, <2>1 DEF IInv, TypeOK, Sound
<1> HIDE DEF x, y
<1>6. Witnessed(c)'
  BY <1>2 DEF Witnessed, InFlight, x, y
<1>7. Waits(c)'
  BY <1>2 DEF Waits, Fixed, Acceptable, IInv, TypeOK, x, y
<1>8. Integrity => Verified(c)'
  BY <1>2 DEF Verified, Fixed, x, y
<1>9. ASSUME NEW d \in Calls \ {c} PROVE (Witnessed(d) /\ Waits(d) /\ (Integrity => Verified(d)))'
  BY OthersKeep DEF Moved
<1> QED BY <1>5, <1>6, <1>7, <1>8, <1>9 DEF IInv

\* fs.stat asks fs.lstat, which answers or leaves the path to Node.
LEMMA RestatKeeps ==
  ASSUME IInv, NEW c \in Calls, Restat(c) PROVE IInv'
<1> DEFINE a == call[c].a
           e == call[c].e
           H == Touched("lstat", a, e, disk, handle, noAsar)
<1>1. /\ ~exited /\ call[c].stage = "restat" /\ handle' = H
      /\ UNCHANGED <<disk, noAsar, exited, changes>>
  BY DEF Restat
<1>2. call[c].op = "stat" /\ a \in Paths /\ e \in Entries /\ noAsar \in BOOLEAN /\ exited \in BOOLEAN
  BY <1>1 DEF IInv, Waits, TypeOK
<1>3. /\ Sound(disk, handle') /\ Stays(handle, handle')
      /\ Integrity /\ CopiesVerified(handle) => CopiesVerified(handle')
      /\ ~noAsar => GetOrCreateArchive(H[a], disk[a]) = H[a]
  <2>1. Sound(disk, handle)
    BY DEF IInv, TypeOK, Sound
  <2> QED BY <1>1, <1>2, <2>1, TouchedFacts DEF Walks
<1> HIDE DEF H
<1>4. CASE noAsar
  <2>1. call' = Watched([call EXCEPT ![c] = [@ EXCEPT !.stage = "native"]], disk, handle', noAsar)
    BY <1>1, <1>4 DEF Restat, H
  <2>2. PICK cs : Moved(cs, c, "native", call[c].ans) /\ call' = Watched(cs, disk, handle', noAsar)
    BY <2>1, MovedFacts
  <2>3. call[c].op \notin Walks
    BY <1>2 DEF Walks
  <2> QED BY <1>1, <1>2, <1>3, <1>4, <2>2, <2>3, CallStep
<1>5. CASE ~noAsar
  <2> DEFINE ans == LstatSync(H[a], e)
  <2>1. call' = Watched([call EXCEPT ![c] = [@ EXCEPT !.stage = "decided", !.ans = ans]], disk, handle', noAsar)
    BY <1>1, <1>5 DEF Restat, H
  <2>2. PICK cs : Moved(cs, c, "decided", ans) /\ call' = Watched(cs, disk, handle', noAsar)
    BY <2>1, MovedFacts
  <2>3. noAsar \in call'[c].modes /\ SyncOf("stat", a, e, disk, handle', noAsar, {}) \in call'[c].seen
    <3>1. Has("stat", disk) = {}
      BY DEF Has, Walks
    <3>2. /\ DOMAIN cs[c] = DOMAIN Idle /\ InFlight(cs[c])
          /\ cs[c].op = "stat" /\ cs[c].a = a /\ cs[c].e = e
      BY <1>2, <2>2 DEF Moved, InFlight
    <3> HIDE DEF a, e, ans
    <3>3. /\ noAsar \in call'[c].modes /\ {} \in call'[c].lists
          /\ \A m \in call'[c].modes, is \in call'[c].lists :
               SyncOf("stat", a, e, disk, handle', m, is) \in call'[c].seen
      BY <2>2, <3>1, <3>2, WatchedFacts
    <3> QED BY <3>3
  <2>4. SyncOf("stat", a, e, disk, handle', noAsar, {}) = ans
    <3>1. SyncOf("stat", a, e, disk, handle', noAsar, {}) = InArchive("stat", H[a], e, disk[a])
      <4>1. "stat" \in AsyncOps \ Walks /\ "stat" # "exec"
        BY DEF AsyncOps, Walks
      <4> HIDE DEF a, e, ans
      <4>2. SyncOf("stat", a, e, disk, handle', noAsar, {}) =
              InArchive("stat", GetOrCreateArchive(handle'[a], disk[a]), e, disk[a])
        BY <1>5, <4>1, SyncFacts
      <4> QED BY <1>1, <1>3, <1>5, <4>2
    <3> QED BY <3>1 DEF InArchive
  <2>5. call[c].op \notin Walks
    BY <1>2 DEF Walks
  <2> QED BY <1>1, <1>2, <1>3, <1>5, <2>2, <2>3, <2>4, <2>5, CallStep
<1> QED BY <1>4, <1>5

\* A call answers with what it has seen, or with a known difference, or not at all.
LEMMA AnswerKeeps ==
  ASSUME IInv, NEW c \in Calls, NEW stage, NEW ans, NEW H, Answer(c, stage, ans, H),
         Sound(disk, H), Stays(handle, H), Integrity /\ CopiesVerified(handle) => CopiesVerified(H),
         ans = Died \/ ans \in call[c].seen \/ KnownDifference(call[c].op, ans),
         call[c].op \in Walks => LookedUp(ans, H),
         Integrity /\ call[c].op \in {"readFile", "open"} /\ ans[1] = "ok" /\ ans[2] \in Versions =>
           ~Closed(H[call[c].a]) /\ ans[2] = H[call[c].a].header
  PROVE  IInv'
<1>1. /\ ~exited /\ handle' = H /\ exited' = (ans = Died)
      /\ UNCHANGED <<disk, noAsar, changes>>
      /\ call' = Watched([call EXCEPT ![c] = [@ EXCEPT !.stage = "done", !.ans = ans]], disk, handle', noAsar)
  BY DEF Answer
<1>2. PICK cs : /\ Moved(cs, c, "done", ans) /\ call' = Watched(cs, disk, handle', noAsar)
                /\ cs[c].seen = call[c].seen
  <2> DEFINE cs == [call EXCEPT ![c] = [@ EXCEPT !.stage = "done", !.ans = ans]]
  <2>1. cs[c].seen = call[c].seen
    BY DEF IInv, TypeOK, Idle
  <2> QED BY <1>1, <2>1, MovedFacts
<1>3. call[c].seen \subseteq call'[c].seen
  BY <1>2, WatchedFacts DEF Moved
<1> QED BY <1>1, <1>2, <1>3, CallStep

\* The native listing of a directory.
LEMMA WalkListedKeeps ==
  ASSUME IInv, NEW c \in Calls, WalkListed(c) PROVE IInv'
<1> DEFINE cs == [call EXCEPT ![c] = [@ EXCEPT !.stage = "walked", !.names = Present(disk)]]
           x == call[c]
           y == call'[c]
<1>1. /\ ~exited /\ x.stage = "walk" /\ call' = Watched(cs, disk, handle', noAsar)
      /\ UNCHANGED <<disk, handle, noAsar, exited, changes>>
  BY DEF WalkListed
<1>2. /\ DOMAIN call = Calls /\ DOMAIN x = DOMAIN Idle
      /\ x.op \in AsyncOps /\ x.a \in Paths /\ x.e \in Entries
  BY DEF IInv, TypeOK
<1>3. x.op \in Walks
  BY <1>1 DEF IInv, Waits
<1>4. /\ DOMAIN cs[c] = DOMAIN Idle /\ cs[c].stage = "walked" /\ cs[c].op = x.op
      /\ cs[c].a = x.a /\ cs[c].e = x.e /\ cs[c].names = Present(disk)
      /\ \A d \in Calls \ {c} : cs[d] = call[d]
  <2>1. /\ cs[c] = [x EXCEPT !.stage = "walked", !.names = Present(disk)]
        /\ \A d \in Calls \ {c} : cs[d] = call[d]
    BY <1>2
  <2> QED BY <1>2, <2>1 DEF Idle
<1> HIDE DEF cs
<1>5. /\ DOMAIN y = DOMAIN Idle /\ y.stage = "walked" /\ y.op = x.op /\ y.a = x.a /\ y.e = x.e
      /\ y.names = Present(disk) /\ noAsar \in y.modes /\ Has(x.op, disk) \in y.lists
      /\ \A m \in y.modes, is \in y.lists : SyncOf(x.op, x.a, x.e, disk, handle', m, is) \in y.seen
  BY <1>1, <1>4, WatchedFacts DEF InFlight
<1>6. Sound(disk', handle') /\ Stays(handle, handle')
  BY <1>1 DEF IInv, TypeOK, Sound, Stays
<1>7. ASSUME NEW d \in Calls \ {c} PROVE (Witnessed(d) /\ Waits(d) /\ (Integrity => Verified(d)))'
  BY <1>1, <1>4, <1>6, OthersKeep
<1>8. TypeOK'
  <2>1. \A d \in Calls : /\ DOMAIN call'[d] = DOMAIN Idle /\ call'[d].stage \in Stages
                          /\ call'[d].op \in AsyncOps /\ call'[d].a \in Paths /\ call'[d].e \in Entries
                          /\ call'[d].names \subseteq DOMAIN Archives
    <3> TAKE d \in Calls
    <3>1. CASE d = c
      BY <1>2, <1>5, <3>1 DEF Stages, Present, y
    <3>2. CASE d # c
      BY <1>1, <1>4, <3>2, WatchedFacts DEF IInv, TypeOK
    <3> QED BY <3>1, <3>2
  <2>2. DOMAIN call' = Calls
    BY <1>1 DEF Watched
  <2> QED BY <1>1, <2>1, <2>2 DEF IInv, TypeOK
<1> HIDE DEF x, y
<1>9. Witnessed(c)'
  BY <1>1, <1>5 DEF Witnessed, InFlight, y
<1>10. Waits(c)'
  BY <1>3, <1>5 DEF Waits, Fixed, Has, y
<1>11. Integrity => Verified(c)'
  BY <1>5 DEF Verified, Fixed, y
<1> QED BY <1>1, <1>7, <1>8, <1>9, <1>10, <1>11 DEF IInv

\* What a listing makes of the archives, in the three forms.
WalkAnswer(op, is) ==
  CASE op = "walk" -> Walk(disk, handle, noAsar, is)
    [] op = "walkTypes" -> WalkTypes(disk, handle, noAsar, is)
    [] OTHER -> WalkTypesPromise(disk, handle, noAsar, is)

\* It is what the synchronous form makes of the same names, or a known difference.
LEMMA WalkAnswers ==
  ASSUME NEW op \in Walks, NEW a, NEW e, NEW is
  PROVE  \/ WalkAnswer(op, is) = SyncOf(op, a, e, disk, handle, noAsar, is)
         \/ KnownDifference(op, WalkAnswer(op, is))
<1>1. CASE op \in {"walk", "walkTypes"}
  BY <1>1 DEF SyncOf, Walks, WalkAnswer
<1>2. CASE op = "walkTypesPromise"
  <2>1. WalkAnswer(op, is) = WalkTypesPromise(disk, handle, noAsar, is)
    BY <1>2 DEF WalkAnswer
  <2>2. SyncOf(op, a, e, disk, handle, noAsar, is) = WalkTypes(disk, handle, noAsar, is)
    BY <1>2 DEF SyncOf, Walks
  <2>3. CASE ~noAsar /\ Broken(disk, handle, is) # {}
    BY <1>2, <2>1, <2>3 DEF WalkTypesPromise, KnownDifference
  <2>4. CASE noAsar
    BY <2>1, <2>2, <2>4 DEF WalkTypesPromise, WalkTypes
  <2>5. CASE ~noAsar /\ Broken(disk, handle, is) = {}
    <3>1. BeforeBroken(disk, handle, is) = is
      BY <2>5 DEF BeforeBroken
    <3> QED BY <2>1, <2>2, <2>5, <3>1 DEF WalkTypesPromise, WalkTypes
  <2> QED BY <2>3, <2>4, <2>5
<1> QED BY <1>1, <1>2 DEF Walks

\* And all it has below an archive is in one that it leaves open.
LEMMA WalkLooks ==
  ASSUME NEW op \in Walks, NEW is \in SUBSET DOMAIN Archives, NEW a, NEW e
  PROVE  LookedUp(WalkAnswer(op, is), TouchedBy(op, a, e, disk, handle, noAsar, is))
<1> DEFINE H == TouchedBy(op, a, e, disk, handle, noAsar, is)
           looked == IF noAsar THEN {} ELSE IF op = "walkTypes" THEN BeforeBroken(disk, handle, is) ELSE is
           ans == WalkAnswer(op, is)
<1>1. looked \subseteq is /\ \A i \in is : Archives[i] \in Paths
  BY DEF BeforeBroken, Paths
<1>2. \A i \in looked : H[Archives[i]] = Opened(disk, handle)[Archives[i]]
  BY <1>1 DEF TouchedBy, Walks
<1>3. \/ ans[3] = {}
      \/ \A p \in ans[3] : \/ \E i \in is : p = <<Archives[i], Root>>
                           \/ \E i \in looked : \E x \in Listing(Opened(disk, handle)[Archives[i]]) :
                                p = <<Archives[i], x>>
  <2>1. ASSUME NEW js \in SUBSET is, noAsar \/ js = looked
        PROVE  \A p \in Walk(disk, handle, noAsar, js)[3] :
                 \/ \E i \in is : p = <<Archives[i], Root>>
                 \/ \E i \in looked : \E x \in Listing(Opened(disk, handle)[Archives[i]]) :
                      p = <<Archives[i], x>>
    <3>1. Walk(disk, handle, noAsar, js)[3] = Found(disk, handle, noAsar, js)
      BY DEF Walk, Names
    <3>2. (IF noAsar THEN {} ELSE js) \subseteq looked
      BY <2>1
    <3> HIDE DEF looked
    <3> QED BY <3>1, <3>2 DEF Found
  <2>2. CASE op = "walk"
    <3>1. ans = Walk(disk, handle, noAsar, is)
      BY <2>2 DEF WalkAnswer
    <3>2. noAsar \/ is = looked
      BY <2>2
    <3> HIDE DEF ans, looked
    <3> QED BY <2>1, <3>1, <3>2
  <2>3. CASE op = "walkTypes"
    <3> DEFINE js == IF noAsar THEN is ELSE BeforeBroken(disk, handle, is)
    <3>1. ans = Walk(disk, handle, noAsar, js)
      BY <2>3 DEF WalkAnswer, WalkTypes
    <3>2. js \in SUBSET is /\ (noAsar \/ js = looked)
      BY <2>3 DEF BeforeBroken
    <3> HIDE DEF ans, looked, js
    <3> QED BY <2>1, <3>1, <3>2
  <2>4. CASE op = "walkTypesPromise"
    <3>1. ans[3] = {} \/ ans = Walk(disk, handle, noAsar, is)
      BY <2>4 DEF WalkAnswer, WalkTypesPromise, Err
    <3>2. noAsar \/ is = looked
      BY <2>4
    <3> HIDE DEF ans, looked
    <3> QED BY <2>1, <3>1, <3>2
  <2> QED BY <2>2, <2>3, <2>4 DEF Walks
<1>4. \A h, x : x \in Listing(h) => KindOf(h, x) # "none" /\ ~Closed(h)
  BY DEF Listing, KindOf
<1> HIDE DEF H, looked, ans
<1>5. ASSUME NEW p \in ans[3]
      PROVE  p[1] \in Paths /\ (p[2] # Root => ~Closed(H[p[1]]) /\ KindOf(H[p[1]], p[2]) # "none")
  <2>1. CASE \E i \in is : p = <<Archives[i], Root>>
    BY <1>1, <2>1
  <2>2. CASE \E i \in looked : \E x \in Listing(Opened(disk, handle)[Archives[i]]) : p = <<Archives[i], x>>
    <3>1. PICK i \in looked : \E x \in Listing(Opened(disk, handle)[Archives[i]]) : p = <<Archives[i], x>>
      BY <2>2
    <3>2. PICK x \in Listing(Opened(disk, handle)[Archives[i]]) : p = <<Archives[i], x>>
      BY <3>1
    <3>3. p[1] = Archives[i] /\ p[2] = x /\ Archives[i] \in Paths
      BY <1>1, <3>2
    <3>4. x \in Listing(H[Archives[i]])
      BY <1>2, <3>2
    <3> QED BY <1>4, <3>3, <3>4
  <2> QED BY <1>3, <1>5, <2>1, <2>2
<1>6. LookedUp(ans, H)
  BY <1>5 DEF LookedUp
<1> QED BY <1>6 DEF ans, H

\* A call waits for its answer in the mode it began in, and the answers it waits for
\* are those its synchronous form gives at the moment they come.
LEMMA StepKeeps ==
  ASSUME IInv, NEW c \in Calls, Step(c) PROVE IInv'
<1> DEFINE x == call[c]
           h == handle[x.a]
<1>1. /\ x.op \in AsyncOps /\ x.a \in Paths /\ x.e \in Entries /\ noAsar \in BOOLEAN
      /\ Sound(disk, handle) /\ Stays(handle, handle) /\ (Integrity => CopiesVerified(handle))
      /\ Waits(c) /\ Witnessed(c) /\ (Integrity => Verified(c))
      /\ h \in Handle /\ (~Closed(h) => h.bytes \in Contents /\ GetOrCreateArchive(h, disk[x.a]) = h)
  BY DEF IInv, TypeOK, Sound, Stays, GetOrCreateArchive
<1>2. CASE Restat(c)
  BY <1>2, RestatKeeps
<1>3. CASE Decided(c)
  <2>1. Answer(c, "decided", x.ans, handle) /\ x.stage = "decided" /\ ~exited
    BY <1>3 DEF Decided, Answer
  <2>2. x.op \notin Walks /\ (x.ans \in x.seen \/ KnownDifference(x.op, x.ans))
    BY <1>1, <2>1 DEF Waits, Fixed, Acceptable
  <2>3. Integrity /\ x.op \in {"readFile", "open"} /\ x.ans[1] = "ok" /\ x.ans[2] \in Versions =>
          ~Closed(h) /\ x.ans[2] = h.header
    BY <1>1, <2>1 DEF Verified, Fixed
  <2> QED BY <1>1, <2>1, <2>2, <2>3, AnswerKeeps
<1>4. CASE NativeDone(c)
  <2> DEFINE ans == Native(x.op, x.e, disk[x.a])
  <2>1. Answer(c, "native", ans, handle) /\ x.stage = "native"
    BY <1>4 DEF NativeDone, Answer
  <2>2. x.op \notin Walks /\ (x.op = "exec" \/ TRUE \in x.modes)
    BY <1>1, <2>1 DEF Waits
  <2>3. ans \in x.seen
    <3>1. PICK m \in x.modes : m \/ x.op = "exec"
      BY <1>1, <2>1, <2>2 DEF Witnessed, InFlight
    <3>2. SyncOf(x.op, x.a, x.e, disk, handle, m, {}) = ans /\ Has(x.op, disk) = {}
      BY <1>1, <2>2, <3>1, SyncFacts
    <3> QED BY <1>1, <2>1, <3>2 DEF Witnessed, InFlight
  <2>4. x.op \in {"readFile", "open"} /\ ans[1] = "ok" => ans[2] \notin Versions
    <3>1. x.op \in {"readFile", "open"} => ans \in {Ok("native"), Err("ENOENT"), Err("ENOTDIR")}
      BY DEF Native
    <3> QED BY <3>1, ContentAssumption DEF Ok, Err
  <2> QED BY <1>1, <2>1, <2>2, <2>3, <2>4, AnswerKeeps
<1>5. CASE RealpathDone(c)
  <2> DEFINE ans == RealpathSync(h, x.e, disk[x.a])
  <2>1. Answer(c, "realpath", ans, handle) /\ x.stage = "realpath"
    BY <1>5 DEF RealpathDone, Answer
  <2>2. x.op = "realpath" /\ FALSE \in x.modes /\ ~Closed(h)
    BY <1>1, <2>1 DEF Waits, KindOf
  <2>3. /\ SyncOf(x.op, x.a, x.e, disk, handle, FALSE, {}) = ans
        /\ x.op \notin Walks /\ Has(x.op, disk) = {}
    <3>1. SyncOf("realpath", x.a, x.e, disk, handle, FALSE, {}) = InArchive("realpath", h, x.e, disk[x.a])
      <4>1. "realpath" \notin Walks
        BY DEF Walks
      <4>2. GetOrCreateArchive(handle[x.a], disk[x.a]) = h
        BY <1>1, <2>2
      <4> QED BY <4>1, <4>2 DEF SyncOf
    <3> QED BY <2>2, <3>1 DEF InArchive, Has, Walks
  <2>4. ans \in x.seen
    BY <1>1, <2>1, <2>2, <2>3 DEF Witnessed, InFlight
  <2> QED BY <1>1, <2>1, <2>2, <2>3, <2>4, AnswerKeeps
<1>6. CASE ReadDone(c)
  <2> DEFINE ans == ValidateBufferIntegrity(h)
  <2>1. Answer(c, "read", ans, handle) /\ x.stage = "read"
    BY <1>6 DEF ReadDone, Answer
  <2>2. x.op = "readFile" /\ FALSE \in x.modes /\ FileInfo(h, x.e) = "packed" /\ ~Closed(h)
    BY <1>1, <2>1, FileFacts DEF Waits
  <2>3. /\ SyncOf(x.op, x.a, x.e, disk, handle, FALSE, {}) = ReadFileSync(h, x.e)
        /\ x.op \notin Walks /\ Has(x.op, disk) = {}
    <3>1. SyncOf("readFile", x.a, x.e, disk, handle, FALSE, {}) = InArchive("readFile", h, x.e, disk[x.a])
      <4>1. "readFile" \notin Walks
        BY DEF Walks
      <4>2. GetOrCreateArchive(handle[x.a], disk[x.a]) = h
        BY <1>1, <2>2
      <4> QED BY <4>1, <4>2 DEF SyncOf
    <3> QED BY <2>2, <3>1 DEF InArchive, Has, Walks
  <2>4. ReadFileSync(h, x.e) = ans
    BY <2>2 DEF ReadFileSync
  <2>5. ans \in x.seen
    BY <1>1, <2>1, <2>2, <2>3, <2>4 DEF Witnessed, InFlight
  <2>6. Integrity /\ ans[1] = "ok" => ans[2] = h.header
    BY DEF ValidateBufferIntegrity, Ok, Died
  <2> QED BY <1>1, <2>1, <2>2, <2>3, <2>5, <2>6, AnswerKeeps
<1>7. CASE ReadFailed(c)
  <2> DEFINE ans == IF Integrity THEN Died ELSE Err("EIO")
  <2>1. Answer(c, "read", ans, handle) /\ x.stage = "read"
    BY <1>7 DEF ReadFailed, Answer
  <2>2. x.op = "readFile"
    BY <1>1, <2>1 DEF Waits
  <2>3. ans = Died \/ KnownDifference(x.op, ans)
    BY <2>2 DEF KnownDifference
  <2>4. ans[1] # "ok" /\ x.op \notin Walks
    BY <2>2 DEF Died, Err, Walks
  <2> QED BY <1>1, <2>1, <2>3, <2>4, AnswerKeeps
<1>8. CASE WalkListed(c)
  BY <1>8, WalkListedKeeps
<1>9. CASE WalkDone(c)
  <2> DEFINE is == x.names
             ans == WalkAnswer(x.op, is)
             H == TouchedBy(x.op, Archives[1], Root, disk, handle, noAsar, is)
  <2>1. Answer(c, "walked", ans, H) /\ x.stage = "walked"
    BY <1>9 DEF WalkDone, Answer, WalkAnswer
  <2>2. x.op \in Walks /\ is \in x.lists /\ is \subseteq DOMAIN Archives
    BY <1>1, <2>1 DEF Waits, IInv, TypeOK
  <2>3. /\ Sound(disk, H) /\ Stays(handle, H)
        /\ Integrity /\ CopiesVerified(handle) => CopiesVerified(H)
    <3>1. Archives[1] \in Paths /\ Root \in Entries
      BY ContentAssumption DEF Paths
    <3> QED BY <1>1, <3>1, TouchedByFacts
  <2>4. SyncOf(x.op, x.a, x.e, disk, handle, noAsar, is) \in x.seen
    BY <1>1, <2>1, <2>2 DEF Witnessed, InFlight
  <2>5. ans = SyncOf(x.op, x.a, x.e, disk, handle, noAsar, is) \/ KnownDifference(x.op, ans)
    BY <2>2, WalkAnswers
  <2>6. LookedUp(ans, H)
    BY <2>2, WalkLooks
  <2>7. x.op \notin {"readFile", "open"}
    BY <2>2 DEF Walks
  <2> QED BY <1>1, <2>1, <2>3, <2>4, <2>5, <2>6, <2>7, AnswerKeeps
<1> QED BY <1>2, <1>3, <1>4, <1>5, <1>6, <1>7, <1>8, <1>9 DEF Step

\* A call that has called back is forgotten.
LEMMA ReturnKeeps ==
  ASSUME IInv, NEW c \in Calls, Return(c) PROVE IInv'
<1>1. /\ DOMAIN call' = Calls /\ call'[c] = Idle /\ \A d \in Calls \ {c} : call'[d] = call[d]
      /\ UNCHANGED <<disk, handle, noAsar, exited, changes>>
  BY DEF Return, IInv, TypeOK
<1>2. /\ Idle.stage = "idle" /\ Idle.op = "exec" /\ Idle.a \in Paths /\ Idle.e \in Entries
      /\ Idle.names = {}
  BY ContentAssumption DEF Idle, Paths
<1>3. TypeOK'
  BY <1>1, <1>2 DEF IInv, TypeOK, Stages, AsyncOps
<1>4. ASSUME NEW d \in Calls PROVE (Witnessed(d) /\ Waits(d) /\ (Integrity => Verified(d)))'
  <2>1. CASE d = c
    BY <1>1, <1>2, <2>1 DEF Witnessed, Waits, Verified, InFlight, Fixed
  <2>2. CASE d # c
    BY <1>1, <2>2 DEF IInv, Witnessed, Waits, Verified
  <2> QED BY <2>1, <2>2
<1> QED BY <1>1, <1>3, <1>4 DEF IInv
-----------------------------------------------------------------------------
\* At first no archive is open and no call in flight.
LEMMA InitInv == ASSUME Init PROVE IInv
<1>1. /\ DOMAIN call = Calls /\ \A c \in Calls : call[c] = Idle
      /\ \A a \in Paths : handle[a] = NoHandle
      /\ handle = [a \in Paths |-> NoHandle]
  BY DEF Init
<1>2. /\ Idle.stage = "idle" /\ Idle.op = "exec" /\ Idle.a \in Paths /\ Idle.e \in Entries
      /\ Idle.names = {}
  BY ContentAssumption DEF Idle, Paths
<1>3. NoHandle \in Handle /\ NoHandle.live = FALSE /\ Closed(NoHandle) /\ NoHandle.copies = {}
  BY DEF NoHandle, Handle, Closed
<1>4. TypeOK
  <2>1. disk \in [Paths -> Contents \cup {"absent"}] /\ 0 \in 0 .. MaxChanges
    BY ContentAssumption DEF Init, Contents
  <2>2. handle \in [Paths -> Handle] /\ \A a \in Paths : ~handle[a].live /\ Closed(handle[a])
    BY <1>1, <1>3
  <2>3. \A c \in Calls : /\ DOMAIN call[c] = DOMAIN Idle
                         /\ call[c].stage \in Stages /\ call[c].op \in AsyncOps
                         /\ call[c].a \in Paths /\ call[c].e \in Entries
                         /\ call[c].names \subseteq DOMAIN Archives
    BY <1>1, <1>2 DEF Stages, AsyncOps
  <2> QED BY <1>1, <2>1, <2>2, <2>3 DEF Init, TypeOK
<1>5. CopiesVerified(handle)
  BY <1>1, <1>3 DEF CopiesVerified
<1>6. \A c \in Calls : Witnessed(c) /\ Waits(c) /\ Verified(c)
  BY <1>1, <1>2 DEF Witnessed, Waits, Verified, InFlight, Fixed
<1> QED BY <1>4, <1>5, <1>6 DEF IInv

\* Every step keeps the invariant.
LEMMA NextInv == ASSUME IInv, [Next]_vars PROVE IInv'
<1>1. Archives[1] \in Paths /\ Root \in Entries
  BY ContentAssumption DEF Paths
<1>2. CASE UNCHANGED vars
  BY <1>2, ZenonT(40) DEF vars, IInv, TypeOK, CopiesVerified, Witnessed, Waits, Verified
<1>3. ASSUME NEW a \in Paths, NEW e \in Entries, NEW op, CallSync(op, a, e) PROVE IInv'
  BY <1>3, CallSyncKeeps
<1>4. ASSUME NEW a \in Paths, NEW e \in Entries, NEW op \in AsyncOps, NEW c \in Calls, CallAsync(c, op, a, e)
      PROVE  IInv'
  BY <1>4, CallAsyncKeeps
<1>5. ASSUME NEW c \in Calls, Step(c) \/ Return(c) PROVE IInv'
  BY <1>5, StepKeeps, ReturnKeeps
<1> QED BY <1>1, <1>2, <1>3, <1>4, <1>5, ChangeKeeps DEF Next, AsyncOps

\* IInv is an invariant: no order of calls, completions, updates and changes of
\* process.noAsar breaks the ties between the archive objects and the calls.
THEOREM Invariance == Spec => []IInv
<1>1. Init => IInv
  BY InitInv
<1>2. IInv /\ [Next]_vars => IInv'
  BY NextInv
<1> QED BY <1>1, <1>2, PTL DEF Spec

\* Every variable keeps its type, and the open file has the content of its path until
\* another file is put there.
THEOREM TypeCorrect == Spec => []TypeOK
<1>1. IInv => TypeOK
  BY DEF IInv
<1> QED BY <1>1, Invariance, PTL

\* What a callback or a promise gets is what the synchronous function would have
\* returned at some moment since the call, the known differences aside; a recursive
\* listing of a directory is what it would have made, at such a moment, of the names
\* that were there at an earlier one, and what it has below an archive stays there.
THEOREM AnswersLinear == Spec => []AnswersLinearize
<1>1. ASSUME NEW x, ~Closed(handle[x[1]]), KindOf(handle[x[1]], x[2]) # "none"
      PROVE  Sync("exists", x[1], x[2], disk, handle, FALSE) = Ok("true")
  <2>1. Sync("exists", x[1], x[2], disk, handle, FALSE) = ExistsSync(handle[x[1]], x[2])
    BY <1>1 DEF Sync, SyncOf, Walks, InArchive, GetOrCreateArchive
  <2> QED BY <1>1, <2>1 DEF ExistsSync, YesNo
<1>2. IInv => AnswersLinearize
  BY <1>1 DEF IInv, Waits, Fixed, Acceptable, LookedUp, AnswersLinearize
<1> QED BY <1>2, Invariance, PTL

\* With the integrity fuse the asynchronous readers and the copies outside the archive
\* never hand out bytes of a packed file that differ from the header.
THEOREM BytesVerified == Spec => []OnlyVerifiedBytes
<1>1. IInv => OnlyVerifiedBytes
  BY DEF IInv, Verified, Fixed, OnlyVerifiedBytes
<1> QED BY <1>1, Invariance, PTL
-----------------------------------------------------------------------------
\* No step closes an archive or changes its header.
LEMMA HeadersStay == ASSUME IInv, [Next]_vars PROVE Stays(handle, handle')
<1>1. Sound(disk, handle) /\ Archives[1] \in Paths /\ Root \in Entries
  BY ContentAssumption DEF Paths, IInv, TypeOK, Sound
<1>2. UNCHANGED handle => Stays(handle, handle')
  BY DEF Stays
<1>3. ASSUME NEW a \in Paths, NEW e \in Entries, NEW op, NEW c,
             CallSync(op, a, e) \/ CallAsync(c, op, a, e) PROVE Stays(handle, handle')
  <2>1. UNCHANGED handle \/ handle' = Touched(op, a, e, disk, handle, noAsar)
    BY <1>3 DEF CallSync, CallAsync
  <2> QED BY <1>1, <1>2, <2>1, TouchedFacts
<1>4. ASSUME NEW c \in Calls, Step(c) PROVE Stays(handle, handle')
  <2>1. call[c].a \in Paths /\ call[c].e \in Entries
    BY DEF IInv, TypeOK
  <2>2. CASE Restat(c)
    <3>1. handle' = Touched("lstat", call[c].a, call[c].e, disk, handle, noAsar)
      BY <2>2 DEF Restat
    <3> QED BY <1>1, <2>1, <3>1, TouchedFacts
  <2>3. CASE WalkDone(c)
    <3>1. handle' = TouchedBy(call[c].op, Archives[1], Root, disk, handle, noAsar, call[c].names)
      BY <2>3 DEF WalkDone, Answer
    <3> QED BY <1>1, <3>1, TouchedByFacts
  <2>4. CASE Decided(c) \/ NativeDone(c) \/ RealpathDone(c) \/ ReadDone(c) \/ ReadFailed(c) \/ WalkListed(c)
    BY <1>2, <2>4 DEF Decided, NativeDone, RealpathDone, ReadDone, ReadFailed, WalkListed, Answer
  <2> QED BY <1>4, <2>2, <2>3, <2>4 DEF Step
<1>5. ASSUME NEW a \in Paths, NEW d, Replace(a, d) \/ Rewrite(a, d) PROVE Stays(handle, handle')
  <2>1. handle' = [handle EXCEPT ![a].live = FALSE]
        \/ handle' = [handle EXCEPT ![a].bytes = IF handle[a].live THEN d ELSE @]
    BY <1>5 DEF Replace, Rewrite, Change
  <2>2. \A b \in Paths : handle[b] \in Handle
    BY DEF IInv, TypeOK
  <2>3. \A b \in Paths : handle'[b].header = handle[b].header
    BY <2>1, <2>2 DEF IInv, TypeOK, Handle
  <2> QED BY <2>3 DEF Stays
<1>6. CASE (\E c \in Calls : Return(c)) \/ SetNoAsar \/ UNCHANGED vars
  BY <1>2, <1>6 DEF Return, SetNoAsar, Change, vars
<1> QED BY <1>1, <1>3, <1>4, <1>5, <1>6 DEF Next

\* A running application sees the entries of an open archive unchanged, whatever
\* becomes of the file.
THEOREM OpenArchiveStays == Spec => ArchiveStays
<1>1. ASSUME IInv, [Next]_vars, NEW a \in Paths, NEW e \in Entries, NEW op \in {"lstat", "readdir", "moduleStat"},
             ~Closed(handle[a])
      PROVE  Sync(op, a, e, disk, handle, FALSE) = Sync(op, a, e, disk', handle', FALSE)
  <2> DEFINE h == handle[a]
             g == handle'[a]
  <2>1. g.header = h.header /\ ~Closed(g)
    BY <1>1, HeadersStay DEF Stays, Closed
  <2>2. /\ Sync(op, a, e, disk, handle, FALSE) = InArchive(op, h, e, disk[a])
        /\ Sync(op, a, e, disk', handle', FALSE) = InArchive(op, g, e, disk'[a])
    <3>1. GetOrCreateArchive(h, disk[a]) = h /\ GetOrCreateArchive(g, disk'[a]) = g
      BY <1>1, <2>1 DEF GetOrCreateArchive
    <3>2. op \notin Walks /\ op # "exec"
      BY DEF Walks
    <3> QED BY <3>1, <3>2 DEF Sync, SyncOf
  <2> HIDE DEF g, h
  <2>3. \A x : LstatSync(g, x) = LstatSync(h, x) /\ KindOf(g, x) = KindOf(h, x)
    BY <2>1, HeaderFacts DEF LstatSync, Missing
  <2>4. ReaddirSync(g, e) = ReaddirSync(h, e)
    <3>1. IsDir(g, e) = IsDir(h, e) /\ Listing(g) = Listing(h) /\ Resolve(g, e) = Resolve(h, e)
          /\ Missing(g) = Missing(h)
      BY <2>1, HeaderFacts DEF Missing
    <3> QED BY <2>3, <3>1 DEF ReaddirSync
  <2>5. InternalModuleStat(g, e) = InternalModuleStat(h, e)
    BY <2>3 DEF InternalModuleStat
  <2> QED BY <2>2, <2>3, <2>4, <2>5 DEF InArchive
<1>2. IInv /\ [Next]_vars =>
        [\/ UNCHANGED <<disk, handle>>
         \/ \A a \in Paths, e \in Entries, op \in {"lstat", "readdir", "moduleStat"} :
              ~Closed(handle[a]) =>
                Sync(op, a, e, disk, handle, FALSE) = Sync(op, a, e, disk', handle', FALSE)]_vars
  BY <1>1
<1> QED BY <1>2, Invariance, PTL DEF Spec, ArchiveStays
-----------------------------------------------------------------------------
\* The functions that look at one entry of an archive object agree about it.
LEMMA EntryAgrees ==
  ASSUME NEW h \in Handle, NEW e \in Entries, NEW d, ~Closed(h) => h.bytes \in Contents
  PROVE  LET S(op) == InArchive(op, h, e, d)
             exists == S("exists") = Ok("true")
         IN  /\ exists <=> KindOf(h, e) # "none"
             /\ exists <=> ~Failed(S("lstat"))
             /\ exists <=> S("moduleStat") # Ok("missing")
             /\ S("moduleStat") = Ok("directory") => ~Failed(S("readdir"))
             /\ ~Failed(S("readdir")) => S("readdir")[3] \subseteq {<<x>> : x \in Listing(h)}
             /\ Failed(S("access")) <=> FileInfo(h, e) = "none"
             /\ Failed(S("open")) <=> FileInfo(h, e) = "none"
             /\ Failed(S("readFile")) <=> FileInfo(h, e) = "none"
             /\ Failed(S("readFile")) <=> S("packageJson") = Ok("false")
<1>1. /\ InArchive("exists", h, e, d) = ExistsSync(h, e) /\ InArchive("lstat", h, e, d) = LstatSync(h, e)
      /\ InArchive("moduleStat", h, e, d) = InternalModuleStat(h, e)
      /\ InArchive("readdir", h, e, d) = ReaddirSync(h, e)
      /\ InArchive("access", h, e, d) = AccessSync(h, e, FALSE)
      /\ InArchive("open", h, e, d) = CopyFileOut(h, e)
      /\ InArchive("readFile", h, e, d) = ReadFileSync(h, e)
      /\ InArchive("packageJson", h, e, d) = OverrideReadFileSync(h, e)
  BY DEF InArchive
<1>2. Failed(Missing(h)) /\ \A x : ~Failed(Ok(x)) /\ ~Failed(Names(x))
  BY DEF Missing, Err, Failed, Ok, Names
<1>3. ExistsSync(h, e) = Ok("true") <=> KindOf(h, e) # "none"
  BY DEF ExistsSync, YesNo, Ok
<1>4. ~Failed(LstatSync(h, e)) <=> KindOf(h, e) # "none"
  BY <1>2 DEF LstatSync
<1>5. InternalModuleStat(h, e) # Ok("missing") <=> KindOf(h, e) # "none"
  BY DEF InternalModuleStat, Ok
<1>6. \A x \in Listing(h) : ~Failed(LstatSync(h, x))
  BY <1>2 DEF LstatSync, Listing
<1>7. /\ IsDir(h, e) => ~Failed(ReaddirSync(h, e))
      /\ ~Failed(ReaddirSync(h, e)) => ReaddirSync(h, e)[3] \subseteq {<<x>> : x \in Listing(h)}
  <2>1. CASE IsDir(h, e)
    <3>1. ReaddirSync(h, e) = Names({<<x>> : x \in IF Resolve(h, e) = Root THEN Listing(h) ELSE {}})
      BY <1>6, <2>1 DEF ReaddirSync
    <3> QED BY <1>2, <2>1, <3>1 DEF Names
  <2>2. CASE ~IsDir(h, e)
    BY <1>2, <2>2 DEF ReaddirSync
  <2> QED BY <2>1, <2>2
<1>8. InternalModuleStat(h, e) = Ok("directory") => IsDir(h, e)
  BY DEF InternalModuleStat, Ok, IsDir, Resolve
<1>9. ValidateBufferIntegrity(h) = Died \/ (~Closed(h) => ValidateBufferIntegrity(h) = Ok(h.bytes))
  BY DEF ValidateBufferIntegrity
<1>10. FileInfo(h, e) = "packed" => /\ ~Failed(ValidateBufferIntegrity(h))
                                   /\ ValidateBufferIntegrity(h) # Ok("false")
  BY <1>9, FileFacts, ContentAssumption DEF Died, Failed, Ok, Contents
<1>11. Failed(AccessSync(h, e, FALSE)) <=> FileInfo(h, e) = "none"
  BY <1>2 DEF AccessSync
<1>12. Failed(ReadFileSync(h, e)) <=> FileInfo(h, e) = "none"
  BY <1>2, <1>10, FileKinds DEF ReadFileSync
<1>13. Failed(CopyFileOut(h, e)) <=> FileInfo(h, e) = "none"
  <2>1. CASE FileInfo(h, e) \in {"none", "empty", "unpacked"}
    BY <1>2, <2>1 DEF CopyFileOut
  <2>2. CASE FileInfo(h, e) = "packed" /\ \E v \in Contents : <<e, v>> \in h.copies
    BY <1>2, <2>2 DEF CopyFileOut
  <2>3. CASE FileInfo(h, e) = "packed" /\ ~\E v \in Contents : <<e, v>> \in h.copies
    BY <1>10, <2>3 DEF CopyFileOut
  <2> QED BY <2>1, <2>2, <2>3, FileKinds
<1>14. Failed(ReadFileSync(h, e)) <=> OverrideReadFileSync(h, e) = Ok("false")
  <2>1. FileInfo(h, e) # "none" => ReadFileSync(h, e) # Ok("false")
    BY <1>10, FileKinds DEF ReadFileSync, Ok
  <2> QED BY <1>12, <2>1 DEF OverrideReadFileSync
<1> QED BY <1>1, <1>3, <1>4, <1>5, <1>7, <1>8, <1>11, <1>12, <1>13, <1>14

\* A recursive listing of the directory has the archive and its entries.
LEMMA WalkedFacts ==
  ASSUME NEW a \in Paths, NEW e \in Entries, disk[a] # "absent"
  PROVE  <<a, e>> \in Sync("walk", Archives[1], Root, disk, handle, FALSE)[3] <=>
           e = Root \/ e \in Listing(GetOrCreateArchive(handle[a], disk[a]))
<1> DEFINE is == Present(disk)
           L(b) == Listing(GetOrCreateArchive(handle[b], disk[b]))
           listed(i) == {<<Archives[i], x>> : x \in Listing(Opened(disk, handle)[Archives[i]])}
<1>1. Sync("walk", Archives[1], Root, disk, handle, FALSE)[3] = {<<Archives[i], Root>> : i \in is} \cup UNION {listed(i) : i \in is}
  BY DEF Sync, SyncOf, Walk, Found, Names, Walks
<1>2. PICK j \in DOMAIN Archives : a = Archives[j]
  BY DEF Paths
<1>3. j \in is
  BY <1>2 DEF Present
<1>4. \A i \in is : Archives[i] \in Paths
  BY DEF Present, Paths
<1> HIDE DEF is
<1>5. \A i \in is : listed(i) = {<<Archives[i], x>> : x \in Listing(GetOrCreateArchive(handle[Archives[i]], disk[Archives[i]]))}
  BY <1>4 DEF Opened
<1>6. <<a, e>> \in UNION {listed(i) : i \in is} <=> \E i \in is : <<a, e>> \in listed(i)
  OBVIOUS
<1>7. \A i \in is : <<a, e>> \in listed(i) <=> a = Archives[i] /\ e \in L(a)
  <2> TAKE i \in is
  <2>1. listed(i) = {<<Archives[i], x>> : x \in L(Archives[i])}
    BY <1>5 DEF L
  <2> HIDE DEF listed, L
  <2> QED BY <2>1
<1>8. <<a, e>> \in {<<Archives[i], Root>> : i \in is} <=> e = Root
  BY <1>2, <1>3
<1> QED BY <1>1, <1>2, <1>3, <1>6, <1>7, <1>8

\* The functions of fs, the module loader and child_process agree about every path in
\* every state.
THEOREM ViewsAgreed == Spec => []ViewsAgree
<1>1. ASSUME TypeOK, NEW a \in Paths, NEW e \in Entries
      PROVE  LET S(op) == Sync(op, a, e, disk, handle, FALSE)
                 exists == S("exists") = Ok("true")
             IN  /\ exists <=> ~Failed(S("lstat"))
                 /\ exists <=> S("moduleStat") # Ok("missing")
                 /\ S("moduleStat") = Ok("directory") => ~Failed(S("readdir"))
                 /\ ~Failed(S("readdir")) =>
                      \A x \in S("readdir")[3] : Sync("exists", a, x[1], disk, handle, FALSE) = Ok("true")
                 /\ ~Failed(S("access")) => exists
                 /\ Failed(S("access")) <=> Failed(S("open"))
                 /\ Failed(S("access")) <=> Failed(S("readFile"))
                 /\ Failed(S("readFile")) <=> S("packageJson") = Ok("false")
                 /\ disk[a] # "absent" =>
                      (e = Root \/ exists <=> <<a, e>> \in Sync("walk", Archives[1], Root, disk, handle, FALSE)[3])
  <2> DEFINE h == GetOrCreateArchive(handle[a], disk[a])
             S(op) == Sync(op, a, e, disk, handle, FALSE)
             exists == S("exists") = Ok("true")
  <2>1. h \in Handle /\ (~Closed(h) => h.bytes \in Contents)
    <3>1. Sound(disk, handle)
      BY <1>1 DEF TypeOK, Sound
    <3> QED BY <3>1, OpenFacts
  <2>2. \A x : Sync("exists", a, x, disk, handle, FALSE) = InArchive("exists", h, x, disk[a])
    BY DEF Sync, SyncOf, Walks
  <2>3. /\ S("exists") = InArchive("exists", h, e, disk[a]) /\ S("lstat") = InArchive("lstat", h, e, disk[a])
        /\ S("moduleStat") = InArchive("moduleStat", h, e, disk[a])
        /\ S("readdir") = InArchive("readdir", h, e, disk[a])
        /\ S("access") = InArchive("access", h, e, disk[a])
        /\ S("open") = InArchive("open", h, e, disk[a])
        /\ S("readFile") = InArchive("readFile", h, e, disk[a])
        /\ S("packageJson") = InArchive("packageJson", h, e, disk[a])
    BY DEF Sync, SyncOf, Walks
  <2> HIDE DEF h, S
  <2>4. /\ exists <=> KindOf(h, e) # "none"
        /\ exists <=> ~Failed(S("lstat"))
        /\ exists <=> S("moduleStat") # Ok("missing")
        /\ S("moduleStat") = Ok("directory") => ~Failed(S("readdir"))
        /\ ~Failed(S("readdir")) => S("readdir")[3] \subseteq {<<x>> : x \in Listing(h)}
        /\ Failed(S("access")) <=> FileInfo(h, e) = "none"
        /\ Failed(S("open")) <=> FileInfo(h, e) = "none"
        /\ Failed(S("readFile")) <=> FileInfo(h, e) = "none"
        /\ Failed(S("readFile")) <=> S("packageJson") = Ok("false")
    BY <2>1, <2>3, EntryAgrees
  <2>5. \A x \in Listing(h) : Sync("exists", a, x, disk, handle, FALSE) = Ok("true")
    <3> TAKE x \in Listing(h)
    <3>1. x \in Entries /\ KindOf(h, x) # "none"
      BY DEF Listing
    <3> QED BY <2>1, <2>2, <3>1, EntryAgrees
  <2>6. ~Failed(S("access")) => exists
    BY <2>1, <2>4, FileFacts
  <2>7. disk[a] # "absent" => (e = Root \/ exists <=> <<a, e>> \in Sync("walk", Archives[1], Root, disk, handle, FALSE)[3])
    BY <2>4, WalkedFacts DEF Listing, h
  <2>8. ~Failed(S("readdir")) =>
          \A x \in S("readdir")[3] : Sync("exists", a, x[1], disk, handle, FALSE) = Ok("true")
    <3> SUFFICES ASSUME ~Failed(S("readdir")), NEW x \in S("readdir")[3]
                 PROVE  Sync("exists", a, x[1], disk, handle, FALSE) = Ok("true")
      OBVIOUS
    <3>1. PICK y \in Listing(h) : x = <<y>>
      BY <2>4
    <3> QED BY <2>5, <3>1
  <2> QED BY <2>4, <2>6, <2>7, <2>8 DEF S
<1>2. TypeOK => ViewsAgree
  BY <1>1 DEF ViewsAgree
<1> QED BY <1>2, TypeCorrect, PTL
=============================================================================
