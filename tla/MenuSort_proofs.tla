--------------------------- MODULE MenuSort_proofs ---------------------------
(***************************************************************************)
(* SortIsRight of every template, whatever its items are and ask for, and  *)
(* however long it is.  Each part of the sort is shown to do what it is    *)
(* for; the last sections put them together.                               *)
(***************************************************************************)
EXTENDS Integers, MenuSort, SequenceTheorems, FiniteSetTheorems, WellFoundedInduction, TLAPS
-----------------------------------------------------------------------------
(* Numbers and sequences.                                                  *)
\* A sequence without the element at a place.
LEMMA RemovedAt ==
  ASSUME NEW S, NEW s \in Seq(S), NEW p \in 1..Len(s), NEW t, t = RemoveAt(s, p)
  PROVE  /\ t \in Seq(S) /\ Len(t) = Len(s) - 1
         /\ \A k \in 1..(p - 1) : t[k] = s[k]
         /\ \A k \in p..(Len(s) - 1) : t[k] = s[k + 1]
<1>. DEFINE a == SubSeq(s, 1, p - 1)  b == SubSeq(s, p + 1, Len(s))
<1>1. t = a \o b
  BY DEF RemoveAt
<1>2. a \in Seq(S) /\ Len(a) = p - 1 /\ \A k \in 1..(p - 1) : a[k] = s[k]
  OBVIOUS
<1>3. /\ b \in Seq(S) /\ Len(b) = Len(s) - p
      /\ \A k \in 1..(Len(s) - p) : b[k] = s[p + k]
  OBVIOUS
<1>. HIDE DEF a, b
<1>4. /\ t \in Seq(S) /\ Len(t) = Len(s) - 1
      /\ \A k \in 1..(p - 1) : t[k] = s[k]
  BY <1>1, <1>2, <1>3, SMTT(30)
<1>5. ASSUME NEW k \in p..(Len(s) - 1)  PROVE t[k] = s[k + 1]
  <2>1. /\ k - p + 1 \in 1..(Len(s) - p) /\ k = Len(a) + (k - p + 1)
        /\ p + (k - p + 1) = k + 1
    BY <1>2
  <2>2. t[Len(a) + (k - p + 1)] = b[k - p + 1]
    BY <1>1, <1>2, <1>3, <2>1
  <2>. QED  BY <1>3, <2>1, <2>2
<1>. QED  BY <1>4, <1>5

\* A set of numbers that is not empty has a least one.
LEMMA LeastNumber ==
  ASSUME NEW T \in SUBSET Nat, T # {}
  PROVE  \E x \in T : \A y \in T : x <= y
<1>1. PICK x \in T : \A y \in T : ~(<<y, x>> \in OpToRel(<, Nat))
  BY WFMin, NatLessThanWellFounded, Zenon
<1>2. \A y \in T : ~(y < x)
  BY <1>1 DEF OpToRel
<1>. QED  BY <1>2

(***************************************************************************)
(* The recursive functions of the sort.  The provers know of such a        *)
(* function only that it is chosen among those that satisfy its equation:  *)
(* Recursion shows that there is one.                                      *)
(***************************************************************************)
CanRecur(S, N, first, step) == N \in Nat /\ first \in S /\ step \in [1..N -> [S -> S]]
Recurs(f, S, N, first, step) ==
  f \in [0..N -> S] /\ f[0] = first /\ \A n \in 1..N : f[n] = step[n][f[n - 1]]

\* There is a function that follows a recursion,
LEMMA Recursion ==
  ASSUME NEW S, NEW N, NEW first, NEW step, CanRecur(S, N, first, step)
  PROVE  \E f : Recurs(f, S, N, first, step)
<1>. DEFINE Upto(m) == {f \in [0..m -> S] : f[0] = first /\ \A n \in 1..m : f[n] = step[n][f[n - 1]]}
            Without == {m \in 0..N : Upto(m) = {}}
<1>. N \in Nat /\ first \in S /\ step \in [1..N -> [S -> S]]
  BY DEF CanRecur
<1>1. Without = {}
  <2>1. SUFFICES ASSUME Without # {}  PROVE FALSE
    OBVIOUS
  <2>2. Without \in SUBSET Nat
    OBVIOUS
  <2>3. PICK m \in Without : \A l \in Without : m <= l
    <3>. HIDE DEF Without
    <3>. QED  BY <2>1, <2>2, LeastNumber
  <2>4. m \in 0..N /\ Upto(m) = {} /\ \A l \in 0..N : Upto(l) = {} => m <= l
    BY <2>3
  <2>5. CASE m = 0
    <3>1. [n \in 0..0 |-> first] \in Upto(0)
      OBVIOUS
    <3>. QED  BY <2>4, <2>5, <3>1
  <2>6. CASE m # 0
    <3>1. m - 1 \in 0..N /\ m \in 1..N /\ ~(m <= m - 1)
      BY <2>4, <2>6
    <3>2. PICK f \in Upto(m - 1) : TRUE
      <4>. HIDE DEF Upto
      <4>. QED  BY <2>4, <3>1
    <3>3. /\ f \in [0..(m - 1) -> S] /\ f[0] = first
          /\ \A n \in 1..(m - 1) : f[n] = step[n][f[n - 1]]
      BY <3>2
    <3>. DEFINE g == [n \in 0..m |-> IF n = m THEN step[m][f[m - 1]] ELSE f[n]]
    <3>4. step[m][f[m - 1]] \in S
      BY <3>1, <3>3
    <3>5. g \in [0..m -> S] /\ g[0] = first
      BY <3>1, <3>3, <3>4
    <3>6. ASSUME NEW n \in 1..m  PROVE g[n] = step[n][g[n - 1]]
      <4>1. n - 1 \in 0..(m - 1) /\ g[n - 1] = f[n - 1]
        BY <3>1
      <4>2. CASE n = m
        BY <4>1, <4>2
      <4>3. CASE n # m
        BY <3>1, <3>3, <4>1, <4>3
      <4>. QED  BY <4>2, <4>3
    <3>7. g \in Upto(m)
      BY <3>5, <3>6
    <3>. QED  BY <2>4, <3>7
  <2>. QED  BY <2>5, <2>6
<1>2. Upto(N) # {}
  <2>1. N \in 0..N
    OBVIOUS
  <2>. HIDE DEF Upto
  <2>. QED  BY <1>1, <2>1
<1>. QED  BY <1>2 DEF Recurs

\* And there is no other, of those whose values are not known to be in S.
Follows(g, S, N, first, step) ==
  /\ g = [n \in 0..N |-> g[n]] /\ g[0] = first
  /\ \A n \in 1..N : g[n - 1] \in S => g[n] = step[n][g[n - 1]]

LEMMA OneRecursion ==
  ASSUME NEW S, NEW N, NEW first, NEW step, NEW f, NEW g, CanRecur(S, N, first, step),
         Recurs(f, S, N, first, step), Follows(g, S, N, first, step)
  PROVE  g = f
<1>0. /\ N \in Nat /\ f \in [0..N -> S] /\ g[0] = f[0]
      /\ \A n \in 1..N : g[n - 1] = f[n - 1] => g[n] = f[n]
  <2>1. N \in Nat /\ \A n \in 1..N : n - 1 \in 0..N
    BY DEF CanRecur
  <2>. QED  BY <2>1 DEF Recurs, Follows
<1>. DEFINE Other == {n \in 0..N : g[n] # f[n]}
<1>1. Other = {}
  <2>1. SUFFICES ASSUME Other # {}  PROVE FALSE
    OBVIOUS
  <2>2. PICK n \in Other : \A m \in Other : n <= m
    <3>1. Other \in SUBSET Nat
      OBVIOUS
    <3>. HIDE DEF Other
    <3>. QED  BY <2>1, <3>1, LeastNumber
  <2>3. n \in 1..N /\ n - 1 \in 0..N /\ n - 1 \notin Other
    BY <1>0, <2>2
  <2>. QED  BY <1>0, <2>2, <2>3
<1>2. \A n \in 0..N : g[n] = f[n]
  BY <1>1
<1>. QED  BY <1>0, <1>2 DEF Follows

\* arr.filter keeps what stands at the places, in its order: t[n] is from place from[n].
IsFiltered(t, s, places, from) ==
  /\ from \in [1..Len(t) -> DOMAIN s]
  /\ \A n \in 1..Len(t) : from[n] \in places /\ t[n] = s[from[n]]
  /\ \A m, n \in 1..Len(t) : m < n => from[m] < from[n]
  /\ \A k \in DOMAIN s : k \in places => \E n \in 1..Len(t) : from[n] = k

\* The recursion of Filter.
FilterSteps(kept, T, s, places) ==
  /\ kept \in [0..Len(s) -> Seq(T)] /\ kept[0] = <<>>
  /\ \A n \in 1..Len(s) :
       kept[n] = IF n \in places THEN Append(kept[n - 1], s[n]) ELSE kept[n - 1]

\* Filter computes what its recursion says.
LEMMA FilterRuns ==
  ASSUME NEW T, NEW s \in Seq(T), NEW places
  PROVE  \E kept : FilterSteps(kept, T, s, places) /\ Filter(s, places) = kept[Len(s)]
<1>. DEFINE Runs(f) == [n \in 0..Len(s) |-> IF n = 0 THEN <<>>
                          ELSE IF n \in places THEN Append(f[n - 1], s[n]) ELSE f[n - 1]]
            kept == CHOOSE f : f = Runs(f)
            step == [n \in 1..Len(s) |->
                       [q \in Seq(T) |-> IF n \in places THEN Append(q, s[n]) ELSE q]]
<1>0. /\ Len(s) \in Nat /\ \A n \in 1..Len(s) : n - 1 \in 0..Len(s) /\ n \in 0..Len(s) /\ n # 0
      /\ 0 \in 0..Len(s) /\ \A n \in 0..Len(s) : n = 0 \/ n \in 1..Len(s)
  OBVIOUS
<1>1. CanRecur(Seq(T), Len(s), <<>>, step)
  <2>1. <<>> \in Seq(T) /\ step \in [1..Len(s) -> [Seq(T) -> Seq(T)]]
    OBVIOUS
  <2>. QED  BY <1>0, <2>1 DEF CanRecur
<1>2. \A n \in 1..Len(s), q \in Seq(T) :
        step[n][q] = IF n \in places THEN Append(q, s[n]) ELSE q
  OBVIOUS
<1>3. Filter(s, places) = kept[Len(s)]
  BY DEF Filter
<1>. HIDE DEF step, kept, Runs
<1>4. PICK f : Recurs(f, Seq(T), Len(s), <<>>, step)
  BY <1>1, Recursion
<1>5. /\ f \in [0..Len(s) -> Seq(T)] /\ f[0] = <<>>
      /\ \A n \in 1..Len(s) : f[n] = step[n][f[n - 1]]
  BY <1>4 DEF Recurs
<1>6. f = Runs(f)
  <2>1. \A n \in 1..Len(s) : f[n - 1] \in Seq(T)
    BY <1>0, <1>5
  <2>2. \A n \in 0..Len(s) : f[n] = Runs(f)[n]
    BY <1>0, <1>2, <1>5, <2>1 DEF Runs
  <2>3. f = [n \in 0..Len(s) |-> f[n]] /\ Runs(f) = [n \in 0..Len(s) |-> Runs(f)[n]]
    BY <1>5 DEF Runs
  <2>. QED  BY <2>2, <2>3
<1>7. kept = Runs(kept)
  BY <1>6 DEF kept
<1>8. /\ kept[0] = <<>> /\ kept = [n \in 0..Len(s) |-> kept[n]]
      /\ \A n \in 1..Len(s) :
           kept[n] = IF n \in places THEN Append(kept[n - 1], s[n]) ELSE kept[n - 1]
  BY <1>0, <1>7 DEF Runs
<1>9. kept = f
  <2>1. \A n \in 1..Len(s) : kept[n - 1] \in Seq(T) => kept[n] = step[n][kept[n - 1]]
    BY <1>2, <1>8
  <2>2. Follows(kept, Seq(T), Len(s), <<>>, step)
    BY <1>8, <2>1 DEF Follows
  <2>. QED  BY <1>1, <1>4, <2>2, OneRecursion
<1>. QED  BY <1>3, <1>5, <1>8, <1>9 DEF FilterSteps

\* Induction, for the members of a set.
LEMMA Upwards ==
  ASSUME NEW N \in Nat, NEW Good, 0 \in Good, \A n \in 1..N : n - 1 \in Good => n \in Good
  PROVE  \A n \in 0..N : n \in Good
<1>. DEFINE Bad == {n \in 0..N : n \notin Good}
<1>1. Bad = {}
  <2>1. SUFFICES ASSUME Bad # {}  PROVE FALSE
    OBVIOUS
  <2>2. PICK n \in Bad : \A m \in Bad : n <= m
    <3>1. Bad \in SUBSET Nat
      OBVIOUS
    <3>. HIDE DEF Bad
    <3>. QED  BY <2>1, <3>1, LeastNumber
  <2>3. n \in 1..N /\ n - 1 \in 0..N /\ n - 1 \notin Bad
    BY <2>2
  <2>. QED  BY <2>2, <2>3
<1>. QED  BY <1>1

\* A filtered sequence has what stands at the places, in its order.
LEMMA Filtered ==
  ASSUME NEW T, NEW s \in Seq(T), NEW places
  PROVE  /\ Filter(s, places) \in Seq(T)
         /\ \E from : IsFiltered(Filter(s, places), s, places, from)
<1>0. PICK kept : FilterSteps(kept, T, s, places) /\ Filter(s, places) = kept[Len(s)]
  BY FilterRuns
<1>1. /\ kept \in [0..Len(s) -> Seq(T)] /\ kept[0] = <<>>
      /\ \A n \in 1..Len(s) :
           kept[n] = IF n \in places THEN Append(kept[n - 1], s[n]) ELSE kept[n - 1]
      /\ Filter(s, places) = kept[Len(s)]
  BY <1>0 DEF FilterSteps
<1>. DEFINE Good == {n \in 0..Len(s) : \E from : IsFiltered(kept[n], s, places \cap 1..n, from)}
<1>2. 0 \in Good
  <2>1. IsFiltered(<<>>, s, places \cap 1..0, <<>>)
    BY DEF IsFiltered
  <2>. QED  BY <1>1, <2>1
<1>3. ASSUME NEW n \in 1..Len(s), n - 1 \in Good  PROVE n \in Good
  <2>. DEFINE t == kept[n - 1]
  <2>1. PICK from : IsFiltered(t, s, places \cap 1..(n - 1), from)
    BY <1>3
  <2>2. t \in Seq(T) /\ n - 1 \in 0..Len(s) /\ n \in 0..Len(s) /\ n \in DOMAIN s /\ Len(t) \in Nat
    BY <1>1
  <2>. HIDE DEF t
  <2>3. CASE n \notin places
    <3>1. places \cap 1..n = places \cap 1..(n - 1)
      BY <2>2, <2>3
    <3>. QED  BY <1>1, <2>1, <2>2, <2>3, <3>1 DEF t
  <2>4. CASE n \in places
    <3>. DEFINE u == Append(t, s[n])
                to == [k \in 1..(Len(t) + 1) |-> IF k = Len(t) + 1 THEN n ELSE from[k]]
    <3>1. /\ u \in Seq(T) /\ Len(u) = Len(t) + 1 /\ u[Len(t) + 1] = s[n]
          /\ \A k \in 1..Len(t) : u[k] = t[k]
      BY <2>2
    <3>2. /\ \A k \in 1..Len(t) : to[k] = from[k] /\ to[k] \in DOMAIN s /\ to[k] \in places
          /\ \A k \in 1..Len(t) : to[k] \in 1..(n - 1)
          /\ to[Len(t) + 1] = n
      BY <2>1, <2>2 DEF IsFiltered
    <3>3. \A k \in 1..Len(u) : k = Len(t) + 1 \/ k \in 1..Len(t)
      BY <2>2, <3>1
    <3>. HIDE DEF u
    <3>4. to \in [1..Len(u) -> DOMAIN s]
      BY <2>2, <3>1, <3>2, <3>3
    <3>. HIDE DEF to
    <3>5. \A k \in 1..Len(u) : to[k] \in places \cap 1..n /\ u[k] = s[to[k]]
      <4>1. \A k \in 1..Len(t) : t[k] = s[from[k]]
        BY <2>1 DEF IsFiltered
      <4>2. n \in places \cap 1..n /\ 1..(n - 1) \subseteq 1..n
        BY <2>4
      <4>. QED  BY <3>1, <3>2, <3>3, <4>1, <4>2
    <3>6. ASSUME NEW k \in 1..Len(u), NEW m \in 1..Len(u), k < m  PROVE to[k] < to[m]
      <4>1. k \in 1..Len(t)
        BY <2>2, <3>1, <3>6
      <4>2. CASE m = Len(t) + 1
        <5>1. to[k] \in 1..(n - 1) /\ to[m] = n /\ n \in Nat
          BY <3>2, <4>1, <4>2
        <5>. QED  BY <5>1
      <4>3. CASE m \in 1..Len(t)
        <5>1. from[k] < from[m]
          BY <2>1, <3>6, <4>1, <4>3 DEF IsFiltered
        <5>. QED  BY <3>2, <4>1, <4>3, <5>1
      <4>. QED  BY <3>3, <4>2, <4>3
    <3>7. ASSUME NEW k \in DOMAIN s, k \in places \cap 1..n  PROVE \E m \in 1..Len(u) : to[m] = k
      <4>1. CASE k = n
        <5>1. Len(t) + 1 \in 1..Len(u)
          BY <2>2, <3>1
        <5>. QED  BY <3>2, <4>1, <5>1
      <4>2. CASE k # n
        <5>1. k \in places \cap 1..(n - 1)
          BY <3>7, <4>2
        <5>2. PICK m \in 1..Len(t) : from[m] = k
          BY <2>1, <5>1 DEF IsFiltered
        <5>3. m \in 1..Len(u)
          BY <2>2, <3>1
        <5>. QED  BY <3>2, <5>2, <5>3
      <4>. QED  BY <4>1, <4>2
    <3>8. IsFiltered(u, s, places \cap 1..n, to)
      BY <3>4, <3>5, <3>6, <3>7 DEF IsFiltered
    <3>9. kept[n] = u
      BY <1>1, <2>4 DEF u, t
    <3>. QED  BY <2>2, <3>8, <3>9
  <2>. QED  BY <2>3, <2>4
<1>4. Len(s) \in Good
  <2>1. Len(s) \in Nat /\ Len(s) \in 0..Len(s)
    OBVIOUS
  <2>. HIDE DEF Good
  <2>. QED  BY <1>2, <1>3, <2>1, Upwards
<1>5. PICK from : IsFiltered(Filter(s, places), s, places \cap 1..Len(s), from)
  BY <1>1, <1>4
<1>6. IsFiltered(Filter(s, places), s, places, from)
  <2>1. DOMAIN s = 1..Len(s)
    OBVIOUS
  <2>. QED  BY <1>5, <2>1 DEF IsFiltered
<1>7. Len(s) \in 0..Len(s)
  OBVIOUS
<1>. QED  BY <1>1, <1>6, <1>7

-----------------------------------------------------------------------------
(* FlattenSeq.                                                             *)
\* Two sequences, one after the other.
IsJoined(c, a, b) ==
  /\ Len(c) = Len(a) + Len(b)
  /\ \A k \in 1..Len(a) : c[k] = a[k]
  /\ \A k \in 1..Len(b) : c[Len(a) + k] = b[k]

\* Where the elements of a \o b are,
LEMMA Joined ==
  ASSUME NEW T, NEW a \in Seq(T), NEW b \in Seq(T), NEW c, c = a \o b
  PROVE  c \in Seq(T) /\ IsJoined(c, a, b)
  BY DEF IsJoined

\* The recursion of FlattenSeq.
FlattenSteps(f, T, ss) ==
  /\ f \in [0..Len(ss) -> Seq(T)] /\ f[0] = <<>>
  /\ \A n \in 1..Len(ss) : f[n] = f[n - 1] \o ss[n]

\* FlattenSeq joins one sequence after the other.
LEMMA FlattenRuns ==
  ASSUME NEW T, NEW ss \in Seq(Seq(T))
  PROVE  \E f : FlattenSteps(f, T, ss) /\ FlattenSeq(ss) = f[Len(ss)]
<1>. DEFINE Runs(f) == [i \in 1..Len(ss) |-> IF i = 1 THEN ss[i] ELSE f[i - 1] \o ss[i]]
            flatten == CHOOSE f : f = Runs(f)
            step == [n \in 1..Len(ss) |-> [q \in Seq(T) |-> q \o ss[n]]]
<1>0. /\ Len(ss) \in Nat /\ 0 \in 0..Len(ss) /\ Len(ss) \in 0..Len(ss)
      /\ \A n \in 1..Len(ss) : n - 1 \in 0..Len(ss) /\ n \in 0..Len(ss) /\ n # 0 /\ ss[n] \in Seq(T)
      /\ \A n \in 1..Len(ss) : n # 1 => n - 1 \in 1..Len(ss)
      /\ \A n \in 0..Len(ss) : n = 0 \/ n \in 1..Len(ss)
  OBVIOUS
<1>1. CanRecur(Seq(T), Len(ss), <<>>, step)
  <2>1. <<>> \in Seq(T) /\ step \in [1..Len(ss) -> [Seq(T) -> Seq(T)]]
    OBVIOUS
  <2>. QED  BY <1>0, <2>1 DEF CanRecur
<1>2. \A n \in 1..Len(ss), q \in Seq(T) : step[n][q] = q \o ss[n]
  OBVIOUS
<1>3. ss # <<>> => FlattenSeq(ss) = flatten[Len(ss)]
  <2>1. ss # <<>> => Len(ss) # 0
    OBVIOUS
  <2>. QED  BY <2>1 DEF FlattenSeq
<1>. HIDE DEF step, flatten, Runs
<1>4. PICK f : Recurs(f, Seq(T), Len(ss), <<>>, step)
  BY <1>1, Recursion
<1>5. /\ f \in [0..Len(ss) -> Seq(T)] /\ f[0] = <<>>
      /\ \A n \in 1..Len(ss) : f[n] = f[n - 1] \o ss[n]
  <2>1. /\ f \in [0..Len(ss) -> Seq(T)] /\ f[0] = <<>>
        /\ \A n \in 1..Len(ss) : f[n] = step[n][f[n - 1]]
    BY <1>4 DEF Recurs
  <2>. QED  BY <1>0, <1>2, <2>1
<1>. DEFINE h == [n \in 1..Len(ss) |-> f[n]]
<1>6. h = Runs(h)
  <2>1. \A n \in 1..Len(ss) : h[n] = Runs(h)[n]
    <3>. SUFFICES ASSUME NEW n \in 1..Len(ss)  PROVE h[n] = Runs(h)[n]
      OBVIOUS
    <3>1. CASE n = 1
      <4>1. f[n] = f[n - 1] \o ss[n] /\ f[n - 1] = <<>> /\ ss[n] \in Seq(T)
        <5>1. n - 1 = 0
          BY <3>1
        <5>. QED  BY <1>0, <1>5, <5>1
      <4>2. f[n] = ss[n]
        BY <4>1
      <4>. QED  BY <3>1, <4>2 DEF Runs
    <3>2. CASE n # 1
      <4>1. n - 1 \in 1..Len(ss) /\ h[n - 1] = f[n - 1]
        BY <1>0, <3>2
      <4>. QED  BY <1>5, <3>2, <4>1 DEF Runs
    <3>. QED  BY <3>1, <3>2
  <2>2. Runs(h) = [n \in 1..Len(ss) |-> Runs(h)[n]]
    BY DEF Runs
  <2>. QED  BY <2>1, <2>2
<1>. HIDE DEF h
<1>7. flatten = Runs(flatten)
  BY <1>6 DEF flatten
<1>. DEFINE g == [n \in 0..Len(ss) |-> IF n = 0 THEN <<>> ELSE flatten[n]]
<1>8. /\ g[0] = <<>> /\ g = [n \in 0..Len(ss) |-> g[n]]
      /\ \A n \in 1..Len(ss) : g[n] = flatten[n]
  BY <1>0
<1>9. \A n \in 1..Len(ss) : g[n - 1] \in Seq(T) => g[n] = step[n][g[n - 1]]
  <2>. SUFFICES ASSUME NEW n \in 1..Len(ss), g[n - 1] \in Seq(T)  PROVE g[n] = g[n - 1] \o ss[n]
    BY <1>2
  <2>1. CASE n = 1
    <3>1. g[1] = ss[1] /\ ss[1] \in Seq(T)
      BY <1>0, <1>7, <1>8, <2>1 DEF Runs
    <3>2. g[n - 1] = <<>>
      BY <1>8, <2>1
    <3>. HIDE DEF g
    <3>. QED  BY <2>1, <3>1, <3>2
  <2>2. CASE n # 1
    <3>1. n - 1 \in 1..Len(ss)
      BY <1>0, <2>2
    <3>2. flatten[n] = flatten[n - 1] \o ss[n]
      BY <1>7, <2>2 DEF Runs
    <3>. HIDE DEF g
    <3>. QED  BY <1>8, <3>1, <3>2
  <2>. QED  BY <2>1, <2>2
<1>. HIDE DEF g
<1>10. g = f
  <2>1. Follows(g, Seq(T), Len(ss), <<>>, step)
    BY <1>8, <1>9 DEF Follows
  <2>. QED  BY <1>1, <1>4, <2>1, OneRecursion
<1>11. FlattenSeq(ss) = f[Len(ss)]
  <2>1. CASE ss = <<>>
    BY <1>5, <2>1 DEF FlattenSeq
  <2>2. CASE ss # <<>>
    <3>1. Len(ss) \in 1..Len(ss)
      BY <2>2
    <3>. QED  BY <1>3, <1>8, <1>10, <2>2, <3>1
  <2>. QED  BY <2>1, <2>2
<1>. QED  BY <1>5, <1>11 DEF FlattenSteps

\* Sequence g of ss stands in t after its first off[g] elements.
IsFlat(t, ss, off) ==
  /\ off \in [1..(Len(ss) + 1) -> Nat] /\ off[1] = 0 /\ Len(t) = off[Len(ss) + 1]
  /\ \A g \in 1..Len(ss) : off[g + 1] = off[g] + Len(ss[g])
  /\ \A g \in 1..Len(ss) : \A n \in 1..Len(ss[g]) : t[off[g] + n] = ss[g][n]

\* Where the elements of each sequence are when they are all joined,
LEMMA Flattened ==
  ASSUME NEW T, NEW ss \in Seq(Seq(T))
  PROVE  FlattenSeq(ss) \in Seq(T) /\ \E off : IsFlat(FlattenSeq(ss), ss, off)
<1>1. PICK f : FlattenSteps(f, T, ss) /\ FlattenSeq(ss) = f[Len(ss)]
  BY FlattenRuns
<1>2. /\ f \in [0..Len(ss) -> Seq(T)] /\ f[0] = <<>>
      /\ \A n \in 1..Len(ss) : f[n] = f[n - 1] \o ss[n]
  BY <1>1 DEF FlattenSteps
<1>0. /\ Len(ss) \in Nat /\ Len(ss) \in 0..Len(ss)
      /\ \A n \in 1..Len(ss) : n - 1 \in 0..Len(ss) /\ n \in 0..Len(ss) /\ ss[n] \in Seq(T)
  OBVIOUS
<1>3. \A n \in 1..Len(ss) :
        /\ f[n - 1] \in Seq(T) /\ f[n] \in Seq(T) /\ Len(f[n]) = Len(f[n - 1]) + Len(ss[n])
        /\ \A k \in 1..Len(f[n - 1]) : f[n][k] = f[n - 1][k]
        /\ \A k \in 1..Len(ss[n]) : f[n][Len(f[n - 1]) + k] = ss[n][k]
  <2>. SUFFICES ASSUME NEW n \in 1..Len(ss)
                PROVE  f[n - 1] \in Seq(T) /\ f[n] \in Seq(T) /\ IsJoined(f[n], f[n - 1], ss[n])
    BY DEF IsJoined
  <2>1. f[n - 1] \in Seq(T) /\ f[n] \in Seq(T) /\ f[n] = f[n - 1] \o ss[n] /\ ss[n] \in Seq(T)
    BY <1>0, <1>2
  <2>. QED  BY <2>1, Joined
<1>. DEFINE a(n) == Len(f[n])
            b(n) == Len(ss[n])
<1>A. /\ \A n \in 0..Len(ss) : a(n) \in Nat
      /\ \A n \in 1..Len(ss) : b(n) \in Nat /\ a(n) = a(n - 1) + b(n)
  <2>1. \A n \in 0..Len(ss) : a(n) \in Nat
    BY <1>2
  <2>2. \A n \in 1..Len(ss) : b(n) \in Nat
    BY <1>0
  <2>. QED  BY <1>3, <2>1, <2>2
<1>B. \A n \in 1..Len(ss) :
        /\ \A k \in 1..a(n - 1) : f[n][k] = f[n - 1][k]
        /\ \A k \in 1..b(n) : f[n][a(n - 1) + k] = ss[n][k]
  BY <1>3
<1>C. a(0) = 0
  BY <1>2
<1>. HIDE DEF a, b
<1>. DEFINE At(m, g) == /\ a(g - 1) + b(g) <= a(m)
                        /\ \A k \in 1..b(g) : f[m][a(g - 1) + k] = ss[g][k]
            Good == {m \in 0..Len(ss) : \A g \in 1..m : At(m, g)}
<1>4. 0 \in Good
  <2>. HIDE DEF At
  <2>. QED  BY <1>0
<1>5. ASSUME NEW m \in 1..Len(ss), m - 1 \in Good  PROVE m \in Good
  <2>1. ASSUME NEW g \in 1..m  PROVE At(m, g)
    <3>1. CASE g = m
      <4>1. a(m) \in Nat /\ a(m) = a(m - 1) + b(m)
        BY <1>0, <1>A
      <4>. QED  BY <1>B, <3>1, <4>1
    <3>2. CASE g # m
      <4>1. g \in 1..(m - 1) /\ g \in 1..Len(ss)
        BY <1>0, <3>2
      <4>2. At(m - 1, g)
        <5>. HIDE DEF At
        <5>. QED  BY <1>5, <4>1
      <4>3. /\ a(g - 1) \in Nat /\ b(g) \in Nat /\ a(m) \in Nat /\ a(m - 1) \in Nat
            /\ a(m - 1) <= a(m)
        <5>1. a(m) \in Nat /\ a(m - 1) \in Nat /\ b(m) \in Nat /\ a(m) = a(m - 1) + b(m)
          BY <1>0, <1>A
        <5>2. a(g - 1) \in Nat /\ b(g) \in Nat
          BY <1>0, <1>A, <4>1
        <5>. QED  BY <5>1, <5>2
      <4>4. ASSUME NEW k \in 1..b(g)  PROVE f[m][a(g - 1) + k] = ss[g][k]
        <5>1. a(g - 1) + k \in 1..a(m - 1)
          BY <4>2, <4>3
        <5>2. f[m][a(g - 1) + k] = f[m - 1][a(g - 1) + k]
          BY <1>B, <5>1
        <5>. QED  BY <4>2, <5>2
      <4>5. a(g - 1) + b(g) <= a(m)
        BY <4>2, <4>3
      <4>. QED  BY <4>4, <4>5
    <3>. QED  BY <3>1, <3>2
  <2>. HIDE DEF At
  <2>. QED  BY <1>0, <2>1
<1>6. Len(ss) \in Good
  <2>. HIDE DEF Good
  <2>. QED  BY <1>0, <1>4, <1>5, Upwards
<1>. DEFINE off == [g \in 1..(Len(ss) + 1) |-> a(g - 1)]
<1>7. off \in [1..(Len(ss) + 1) -> Nat]
  <2>1. \A g \in 1..(Len(ss) + 1) : g - 1 \in 0..Len(ss)
    BY <1>0
  <2>. QED  BY <1>A, <2>1
<1>8. off[1] = 0 /\ off[Len(ss) + 1] = Len(f[Len(ss)])
  <2>1. off[1] = a(0) /\ off[Len(ss) + 1] = a(Len(ss))
    BY <1>0
  <2>. QED  BY <1>C, <2>1 DEF a
<1>9. \A g \in 1..Len(ss) : off[g] = a(g - 1) /\ off[g + 1] = a(g)
  BY <1>0
<1>. HIDE DEF off
<1>10. \A g \in 1..Len(ss) : off[g + 1] = off[g] + Len(ss[g])
  BY <1>9, <1>A DEF b
<1>11. \A g \in 1..Len(ss) : \A n \in 1..Len(ss[g]) : f[Len(ss)][off[g] + n] = ss[g][n]
  <2>1. \A g \in 1..Len(ss) : At(Len(ss), g)
    <3>. HIDE DEF At
    <3>. QED  BY <1>0, <1>6
  <2>. QED  BY <1>9, <2>1 DEF b
<1>12. IsFlat(FlattenSeq(ss), ss, off)
  BY <1>1, <1>7, <1>8, <1>10, <1>11 DEF IsFlat
<1>. QED  BY <1>0, <1>1, <1>2, <1>12

\* The sequences stand in it in their order, and it is made of nothing else.
LEMMA FlatOrder ==
  ASSUME NEW T, NEW ss \in Seq(Seq(T)), NEW t, NEW off, IsFlat(t, ss, off)
  PROVE  /\ \A g, h \in 1..(Len(ss) + 1) : g < h => off[g + 1] <= off[h]
         /\ \A g, h \in 1..(Len(ss) + 1) : g <= h => off[g] <= off[h]
<1>0. /\ Len(ss) \in Nat /\ \A g \in 1..Len(ss) : Len(ss[g]) \in Nat
      /\ off \in [1..(Len(ss) + 1) -> Nat]
      /\ \A g \in 1..Len(ss) : off[g + 1] = off[g] + Len(ss[g])
  BY DEF IsFlat
<1>1. ASSUME NEW g \in 1..(Len(ss) + 1)
      PROVE  \A h \in 1..(Len(ss) + 1) : g <= h => off[g] <= off[h]
  <2>. DEFINE N == Len(ss) + 1 - g
              Good == {d \in 0..N : off[g] <= off[g + d]}
  <2>0. N \in Nat /\ \A d \in 0..N : g + d \in 1..(Len(ss) + 1)
    BY <1>0
  <2>1. 0 \in Good
    BY <1>0, <2>0, SMTT(30)
  <2>2. ASSUME NEW d \in 1..N, d - 1 \in Good  PROVE d \in Good
    <3>1. /\ g + (d - 1) \in 1..Len(ss) /\ g + d = (g + (d - 1)) + 1
          /\ g + d \in 1..(Len(ss) + 1) /\ g + (d - 1) \in 1..(Len(ss) + 1)
      BY <1>0, <2>0
    <3>2. off[g + d] = off[g + (d - 1)] + Len(ss[g + (d - 1)]) /\ Len(ss[g + (d - 1)]) \in Nat
      BY <1>0, <3>1
    <3>3. off[g] \in Nat /\ off[g + d] \in Nat /\ off[g + (d - 1)] \in Nat /\ off[g] <= off[g + (d - 1)]
      BY <1>0, <2>2, <3>1
    <3>4. off[g] <= off[g + d]
      BY <3>2, <3>3, SMTT(30)
    <3>. QED  BY <3>4
  <2>3. \A d \in 0..N : off[g] <= off[g + d]
    <3>1. \A d \in 0..N : d \in Good
      <4>. HIDE DEF Good, N
      <4>. QED  BY <2>0, <2>1, <2>2, Upwards
    <3>. QED  BY <3>1
  <2>4. ASSUME NEW h \in 1..(Len(ss) + 1), g <= h  PROVE off[g] <= off[h]
    <3>1. h - g \in 0..N /\ g + (h - g) = h
      BY <1>0, <2>4
    <3>. HIDE DEF N
    <3>2. off[g] <= off[g + (h - g)]
      BY <2>3, <3>1
    <3>. QED  BY <3>1, <3>2
  <2>. QED  BY <2>4
<1>2. \A g, h \in 1..(Len(ss) + 1) : g < h => g + 1 \in 1..(Len(ss) + 1) /\ g + 1 <= h
  BY <1>0
<1>. QED  BY <1>1, <1>2

\* Place p of t is a place of one of the sequences.
StandsIn(p, t, ss, off) ==
  \E g \in 1..Len(ss) : \E n \in 1..Len(ss[g]) : p = off[g] + n /\ t[p] = ss[g][n]

\* and there are no others.
LEMMA FlatPlaces ==
  ASSUME NEW T, NEW ss \in Seq(Seq(T)), NEW t \in Seq(T), NEW off, IsFlat(t, ss, off),
         NEW p \in 1..Len(t)
  PROVE  StandsIn(p, t, ss, off)
<1>0. /\ Len(ss) \in Nat /\ \A g \in 1..Len(ss) : Len(ss[g]) \in Nat
      /\ off \in [1..(Len(ss) + 1) -> Nat] /\ off[1] = 0 /\ Len(t) = off[Len(ss) + 1]
      /\ \A g \in 1..Len(ss) : off[g + 1] = off[g] + Len(ss[g])
      /\ \A g \in 1..Len(ss) : \A n \in 1..Len(ss[g]) : t[off[g] + n] = ss[g][n]
  BY DEF IsFlat
<1>. DEFINE Past == {g \in 1..(Len(ss) + 1) : p <= off[g]}
<1>1. PICK g \in Past : \A h \in Past : g <= h
  <2>1. Len(ss) + 1 \in Past /\ Past \in SUBSET Nat
    BY <1>0
  <2>. HIDE DEF Past
  <2>. QED  BY <2>1, LeastNumber
<1>2. g \in 1..(Len(ss) + 1) /\ p <= off[g] /\ g # 1
  BY <1>0, <1>1
<1>. DEFINE k == g - 1
<1>3. k \in 1..Len(ss) /\ k + 1 = g /\ k \in 1..(Len(ss) + 1) /\ ~(g <= k)
  BY <1>0, <1>2
<1>. HIDE DEF k
<1>4. off[k] < p
  <2>1. k \notin Past
    <3>. HIDE DEF Past
    <3>. QED  BY <1>1, <1>3
  <2>2. k \in 1..(Len(ss) + 1) /\ ~(p <= off[k])
    BY <1>3, <2>1
  <2>3. Len(t) \in Nat
    OBVIOUS
  <2>4. off[k] \in Nat
    BY <1>0, <1>3
  <2>5. p \in Nat
    BY <2>3
  <2>. QED  BY <2>2, <2>4, <2>5
<1>5. off[g] = off[k] + Len(ss[k]) /\ off[k] \in Nat /\ Len(ss[k]) \in Nat
  BY <1>0, <1>3
<1>6. p - off[k] \in 1..Len(ss[k]) /\ p = off[k] + (p - off[k])
  BY <1>2, <1>4, <1>5
<1>7. t[off[k] + (p - off[k])] = ss[k][p - off[k]]
  BY <1>0, <1>3, <1>6
<1>. QED  BY <1>3, <1>6, <1>7 DEF StandsIn

\* Its elements are those of the sequences.
LEMMA FlatElements ==
  ASSUME NEW T, NEW ss \in Seq(Seq(T))
  PROVE  /\ FlattenSeq(ss) \in Seq(T)
         /\ \A x : x \in ToSet(FlattenSeq(ss)) <=> \E g \in DOMAIN ss : x \in ToSet(ss[g])
<1>1. FlattenSeq(ss) \in Seq(T)
  BY Flattened
<1>2. PICK off : IsFlat(FlattenSeq(ss), ss, off)
  BY Flattened
<1>. DEFINE t == FlattenSeq(ss)
<1>3. /\ DOMAIN ss = 1..Len(ss) /\ DOMAIN t = 1..Len(t)
      /\ \A g \in 1..Len(ss) : ss[g] \in Seq(T) /\ DOMAIN ss[g] = 1..Len(ss[g])
  BY <1>1
<1>. HIDE DEF t
<1>4. ASSUME NEW p \in 1..Len(t)  PROVE \E g \in DOMAIN ss : t[p] \in ToSet(ss[g])
  <2>0. StandsIn(p, t, ss, off)
    BY <1>1, <1>2, FlatPlaces DEF t
  <2>1. PICK g \in 1..Len(ss) : \E n \in 1..Len(ss[g]) : p = off[g] + n /\ t[p] = ss[g][n]
    BY <2>0 DEF StandsIn
  <2>. QED  BY <1>3, <2>1 DEF ToSet
<1>5. ASSUME NEW g \in 1..Len(ss), NEW n \in 1..Len(ss[g])  PROVE ss[g][n] \in ToSet(t)
  <2>1. /\ Len(t) = off[Len(ss) + 1] /\ t[off[g] + n] = ss[g][n]
        /\ off[g + 1] = off[g] + Len(ss[g]) /\ off \in [1..(Len(ss) + 1) -> Nat]
    BY <1>2 DEF IsFlat, t
  <2>2. /\ Len(ss) \in Nat /\ g \in 1..(Len(ss) + 1) /\ g + 1 \in 1..(Len(ss) + 1)
        /\ Len(ss) + 1 \in 1..(Len(ss) + 1) /\ g + 1 <= Len(ss) + 1 /\ Len(ss[g]) \in Nat
    BY <1>3
  <2>3. off[g + 1] <= off[Len(ss) + 1]
    BY <1>2, <2>2, FlatOrder
  <2>4. off[g] + n \in 1..Len(t)
    <3>1. off[g] \in Nat /\ off[g + 1] \in Nat /\ off[Len(ss) + 1] \in Nat
      BY <2>1, <2>2
    <3>2. n \in Nat /\ 1 <= n /\ n <= Len(ss[g])
      BY <2>2
    <3>3. off[g] + n <= off[g + 1]
      BY <2>1, <2>2, <3>1, <3>2
    <3>. QED  BY <2>1, <2>3, <3>1, <3>2, <3>3, SMTT(30)
  <2>. QED  BY <1>3, <2>1, <2>4 DEF ToSet
<1>6. ASSUME NEW x, x \in ToSet(t)  PROVE \E g \in DOMAIN ss : x \in ToSet(ss[g])
  <2>1. PICK p \in 1..Len(t) : x = t[p]
    BY <1>3, <1>6 DEF ToSet
  <2>. QED  BY <1>4, <2>1
<1>7. ASSUME NEW x, NEW g \in DOMAIN ss, x \in ToSet(ss[g])  PROVE x \in ToSet(t)
  <2>1. PICK n \in 1..Len(ss[g]) : x = ss[g][n]
    BY <1>3, <1>7 DEF ToSet
  <2>. QED  BY <1>3, <1>5, <2>1
<1>8. \A x : x \in ToSet(t) <=> \E g \in DOMAIN ss : x \in ToSet(ss[g])
  BY <1>6, <1>7
<1>. QED  BY <1>1, <1>8 DEF t

-----------------------------------------------------------------------------
(* splitArray.                                                             *)
\* splitArray works on a list of groups that is never empty.
SomeGroups(T) == {q \in Seq(Seq(T)) : q # <<>>}
\* The recursion of SplitArray.
SplitSteps(multi, T, s) ==
  /\ multi \in [0..Len(s) -> SomeGroups(T)] /\ multi[0] = << <<>> >>
  /\ \A n \in 1..Len(s) : multi[n] = SplitAt(multi[n - 1], s[n])

\* What splitArray does with the next item.
LEMMA SplitAtKinds ==
  ASSUME NEW T, NEW q \in SomeGroups(T), NEW x \in T
  PROVE  /\ SplitAt(q, x) \in SomeGroups(T)
         /\ ~IsSeparator(x) => /\ Len(SplitAt(q, x)) = Len(q)
                               /\ \A g \in 1..(Len(q) - 1) : SplitAt(q, x)[g] = q[g]
                               /\ SplitAt(q, x)[Len(q)] = Append(q[Len(q)], x)
         /\ IsSeparator(x) /\ q[Len(q)] = <<>> => SplitAt(q, x) = q
         /\ IsSeparator(x) /\ q[Len(q)] # <<>> => SplitAt(q, x) = Append(q, <<>>)
<1>0. q \in Seq(Seq(T)) /\ Len(q) \in Nat \ {0} /\ Len(q) \in 1..Len(q) /\ q[Len(q)] \in Seq(T)
  BY DEF SomeGroups
<1>1. CASE ~IsSeparator(x)
  <2>. DEFINE r == [q EXCEPT ![Len(q)] = Append(@, x)]
  <2>1. SplitAt(q, x) = r
    BY <1>1 DEF SplitAt
  <2>2. Append(q[Len(q)], x) \in Seq(T)
    BY <1>0
  <2>3. r \in Seq(Seq(T)) /\ Len(r) = Len(q)
    BY <1>0, <2>2
  <2>4. r[Len(q)] = Append(q[Len(q)], x) /\ \A g \in 1..(Len(q) - 1) : r[g] = q[g]
    BY <1>0
  <2>. HIDE DEF r
  <2>5. r # <<>>
    BY <1>0, <2>3
  <2>. QED  BY <1>1, <2>1, <2>3, <2>4, <2>5 DEF SomeGroups
<1>2. CASE IsSeparator(x)
  <2>1. SplitAt(q, x) = IF q[Len(q)] # <<>> THEN Append(q, <<>>) ELSE q
    BY <1>2 DEF SplitAt, Last
  <2>2. <<>> \in Seq(T) /\ Append(q, <<>>) \in Seq(Seq(T)) /\ Append(q, <<>>) # <<>>
    BY <1>0
  <2>. QED  BY <1>2, <2>1, <2>2 DEF SomeGroups
<1>. QED  BY <1>1, <1>2

\* SplitArray takes the items one by one.
LEMMA SplitRuns ==
  ASSUME NEW T, NEW s \in Seq(T)
  PROVE  \E multi : /\ SplitSteps(multi, T, s)
                    /\ SplitArray(s) = IF Last(multi[Len(s)]) = <<>> THEN Front(multi[Len(s)])
                                       ELSE multi[Len(s)]
<1>. DEFINE Runs(f) == [n \in 0..Len(s) |-> IF n = 0 THEN << <<>> >> ELSE SplitAt(f[n - 1], s[n])]
            multi == CHOOSE f : f = Runs(f)
            step == [n \in 1..Len(s) |-> [q \in SomeGroups(T) |-> SplitAt(q, s[n])]]
<1>0. /\ Len(s) \in Nat /\ \A n \in 1..Len(s) : n - 1 \in 0..Len(s) /\ n \in 0..Len(s) /\ n # 0
      /\ 0 \in 0..Len(s) /\ \A n \in 0..Len(s) : n = 0 \/ n \in 1..Len(s)
      /\ \A n \in 1..Len(s) : s[n] \in T
  OBVIOUS
<1>1. CanRecur(SomeGroups(T), Len(s), << <<>> >>, step)
  <2>1. << <<>> >> \in SomeGroups(T)
    BY DEF SomeGroups
  <2>2. \A n \in 1..Len(s), q \in SomeGroups(T) : SplitAt(q, s[n]) \in SomeGroups(T)
    BY <1>0, SplitAtKinds
  <2>3. step \in [1..Len(s) -> [SomeGroups(T) -> SomeGroups(T)]]
    BY <2>2
  <2>. QED  BY <1>0, <2>1, <2>3 DEF CanRecur
<1>2. \A n \in 1..Len(s), q \in SomeGroups(T) : step[n][q] = SplitAt(q, s[n])
  OBVIOUS
<1>3. SplitArray(s) = IF Last(multi[Len(s)]) = <<>> THEN Front(multi[Len(s)]) ELSE multi[Len(s)]
  BY DEF SplitArray
<1>. HIDE DEF step, multi, Runs
<1>4. PICK f : Recurs(f, SomeGroups(T), Len(s), << <<>> >>, step)
  BY <1>1, Recursion
<1>5. /\ f \in [0..Len(s) -> SomeGroups(T)] /\ f[0] = << <<>> >>
      /\ \A n \in 1..Len(s) : f[n] = step[n][f[n - 1]]
  BY <1>4 DEF Recurs
<1>6. f = Runs(f)
  <2>1. \A n \in 1..Len(s) : f[n - 1] \in SomeGroups(T)
    BY <1>0, <1>5
  <2>2. \A n \in 0..Len(s) : f[n] = Runs(f)[n]
    BY <1>0, <1>2, <1>5, <2>1 DEF Runs
  <2>3. f = [n \in 0..Len(s) |-> f[n]] /\ Runs(f) = [n \in 0..Len(s) |-> Runs(f)[n]]
    BY <1>5 DEF Runs
  <2>. QED  BY <2>2, <2>3
<1>7. multi = Runs(multi)
  BY <1>6 DEF multi
<1>8. /\ multi[0] = << <<>> >> /\ multi = [n \in 0..Len(s) |-> multi[n]]
      /\ \A n \in 1..Len(s) : multi[n] = SplitAt(multi[n - 1], s[n])
  BY <1>0, <1>7 DEF Runs
<1>9. multi = f
  <2>1. \A n \in 1..Len(s) : multi[n - 1] \in SomeGroups(T) => multi[n] = step[n][multi[n - 1]]
    BY <1>2, <1>8
  <2>2. Follows(multi, SomeGroups(T), Len(s), << <<>> >>, step)
    BY <1>8, <2>1 DEF Follows
  <2>. QED  BY <1>1, <1>4, <2>2, OneRecursion
<1>. QED  BY <1>3, <1>5, <1>8, <1>9 DEF SplitSteps

(* Where the items of s at the places K stand in a list of groups: item k  *)
(* is number pos[k] of group grp[k], and there is nothing else.            *)
Stands(gs, T, s, K, grp, pos) ==
  /\ gs \in Seq(Seq(T)) /\ grp \in [K -> 1..Len(gs)] /\ pos \in [K -> Nat]
  /\ \A k \in K : pos[k] \in 1..Len(gs[grp[k]]) /\ gs[grp[k]][pos[k]] = s[k]
  /\ \A g \in 1..Len(gs) : \A n \in 1..Len(gs[g]) : \E k \in K : grp[k] = g /\ pos[k] = n
  /\ \A k, l \in K : grp[k] = grp[l] /\ pos[k] = pos[l] => k = l

\* The groups after n items: the last one takes the next item of its segment.
EntriesUpto(s, n) == {k \in Entries(s) : k <= n}
SplitSoFar(q, T, s, n, grp, pos) ==
  /\ Stands(q, T, s, EntriesUpto(s, n), grp, pos)
  /\ \A g \in 1..(Len(q) - 1) : q[g] # <<>>
  /\ \A k, l \in EntriesUpto(s, n) : grp[k] = grp[l] <=> SameSegment(s, k, l)
  /\ \A k \in EntriesUpto(s, n) :
       grp[k] = Len(q) <=> \A j \in DOMAIN s : k < j /\ j <= n => ~IsSeparator(s[j])

\* An item goes to the last group,
LEMMA SplitAnEntry ==
  ASSUME NEW T, NEW s \in Seq(T), NEW n \in 1..Len(s), NEW q \in SomeGroups(T), NEW grp, NEW pos,
         SplitSoFar(q, T, s, n - 1, grp, pos), ~IsSeparator(s[n])
  PROVE  \E grp1, pos1 : SplitSoFar(SplitAt(q, s[n]), T, s, n, grp1, pos1)
<1>. DEFINE K == EntriesUpto(s, n - 1)
            K1 == EntriesUpto(s, n)
            L == Len(q)
            q1 == SplitAt(q, s[n])
            M == Len(q[L])
            grp1 == [k \in K1 |-> IF k = n THEN L ELSE grp[k]]
            pos1 == [k \in K1 |-> IF k = n THEN M + 1 ELSE pos[k]]
<1>0. /\ Len(s) \in Nat /\ DOMAIN s = 1..Len(s) /\ s[n] \in T /\ n \in Nat /\ n \in DOMAIN s
      /\ q \in Seq(Seq(T)) /\ L \in Nat /\ L \in 1..L /\ q[L] \in Seq(T) /\ M \in Nat
  BY DEF SomeGroups
<1>1. n \in K1 /\ K1 = K \cup {n} /\ n \notin K /\ K \subseteq 1..Len(s) /\ \A k \in K : k < n
  BY <1>0 DEF EntriesUpto, Entries
<1>2. /\ q1 \in Seq(Seq(T)) /\ Len(q1) = L /\ \A g \in 1..(L - 1) : q1[g] = q[g]
      /\ q1[L] = Append(q[L], s[n])
  <2>1. q1 \in SomeGroups(T) /\ Len(q1) = L
    BY <1>0, SplitAtKinds
  <2>2. \A g \in 1..(L - 1) : q1[g] = q[g]
    BY <1>0, SplitAtKinds
  <2>3. q1[L] = Append(q[L], s[n])
    BY <1>0, SplitAtKinds
  <2>. HIDE DEF q1
  <2>. QED  BY <2>1, <2>2, <2>3 DEF SomeGroups
<1>3. /\ Len(q1[L]) = M + 1 /\ q1[L][M + 1] = s[n] /\ \A j \in 1..M : q1[L][j] = q[L][j]
  BY <1>0, <1>2
<1>4. Stands(q, T, s, K, grp, pos)
  BY DEF SplitSoFar
<1>5. /\ grp \in [K -> 1..L] /\ pos \in [K -> Nat]
      /\ \A k \in K : pos[k] \in 1..Len(q[grp[k]]) /\ q[grp[k]][pos[k]] = s[k]
      /\ \A g \in 1..L : \A m \in 1..Len(q[g]) : \E k \in K : grp[k] = g /\ pos[k] = m
      /\ \A k, l \in K : grp[k] = grp[l] /\ pos[k] = pos[l] => k = l
  BY <1>4 DEF Stands
<1>6. /\ \A g \in 1..(L - 1) : q[g] # <<>>
      /\ \A k, l \in K : grp[k] = grp[l] <=> SameSegment(s, k, l)
      /\ \A k \in K : grp[k] = L <=> \A j \in DOMAIN s : k < j /\ j <= n - 1 => ~IsSeparator(s[j])
  BY DEF SplitSoFar
<1>7. \A k \in K : grp1[k] = grp[k] /\ pos1[k] = pos[k] /\ k # n
  BY <1>1
<1>8. grp1[n] = L /\ pos1[n] = M + 1
  BY <1>1
<1>9. grp1 \in [K1 -> 1..L] /\ pos1 \in [K1 -> Nat]
  BY <1>0, <1>1, <1>5
<1>10. \A g \in 1..L : g = L \/ g \in 1..(L - 1)
  BY <1>0
<1>. HIDE DEF grp1, pos1, q1, L, M, K, K1
<1>11. ASSUME NEW k \in K1  PROVE pos1[k] \in 1..Len(q1[grp1[k]]) /\ q1[grp1[k]][pos1[k]] = s[k]
  <2>1. CASE k = n
    <3>1. M + 1 \in 1..(M + 1)
      BY <1>0
    <3>. QED  BY <1>3, <1>8, <2>1, <3>1
  <2>2. CASE k \in K /\ grp[k] = L
    <3>1. pos[k] \in 1..M /\ q[L][pos[k]] = s[k]
      BY <1>5, <2>2 DEF M
    <3>2. pos[k] \in 1..(M + 1)
      BY <1>0, <3>1
    <3>. QED  BY <1>3, <1>7, <2>2, <3>1, <3>2
  <2>3. CASE k \in K /\ grp[k] # L
    <3>1. grp[k] \in 1..(L - 1)
      BY <1>5, <1>10, <2>3
    <3>2. q1[grp1[k]] = q[grp[k]] /\ pos1[k] = pos[k]
      BY <1>2, <1>7, <2>3, <3>1
    <3>. QED  BY <1>5, <2>3, <3>2
  <2>. QED  BY <1>1, <2>1, <2>2, <2>3
<1>12. ASSUME NEW g \in 1..L, NEW m \in 1..Len(q1[g])  PROVE \E k \in K1 : grp1[k] = g /\ pos1[k] = m
  <2>1. CASE g = L /\ m = M + 1
    BY <1>1, <1>8, <2>1
  <2>2. CASE g = L /\ m # M + 1
    <3>1. m \in 1..M
      BY <1>0, <1>3, <2>2
    <3>. QED  BY <1>1, <1>5, <1>7, <2>2, <3>1 DEF M
  <2>3. CASE g # L
    <3>1. g \in 1..(L - 1) /\ m \in 1..Len(q[g])
      BY <1>2, <1>10, <2>3
    <3>2. PICK k \in K : grp[k] = g /\ pos[k] = m
      BY <1>5, <3>1
    <3>. QED  BY <1>1, <1>7, <3>2
  <2>. QED  BY <2>1, <2>2, <2>3
<1>13. ASSUME NEW k \in K1, NEW l \in K1, grp1[k] = grp1[l], pos1[k] = pos1[l]  PROVE k = l
  <2>1. ASSUME NEW j \in K, grp[j] = L  PROVE pos[j] # M + 1
    <3>1. pos[j] \in 1..M
      BY <1>5, <2>1 DEF M
    <3>. QED  BY <1>0, <3>1
  <2>. QED  BY <1>1, <1>5, <1>7, <1>8, <1>13, <2>1
<1>14. Stands(q1, T, s, K1, grp1, pos1)
  BY <1>2, <1>9, <1>11, <1>12, <1>13 DEF Stands
<1>15. ASSUME NEW k \in K  PROVE grp[k] = L <=> SameSegment(s, k, n)
  <2>1. k < n /\ k \in Nat
    BY <1>0, <1>1
  <2>2. \A j \in DOMAIN s : (k < j /\ j <= n - 1) <=> (k < j /\ j < n) \/ (n < j /\ j < k)
    BY <1>0, <2>1
  <2>. QED  BY <1>6, <2>2 DEF SameSegment
<1>16. \A k, l \in DOMAIN s : SameSegment(s, k, l) <=> SameSegment(s, l, k)
  BY DEF SameSegment
<1>17. \A k \in DOMAIN s : SameSegment(s, k, k)
  BY <1>0 DEF SameSegment
<1>18. ASSUME NEW k \in K1, NEW l \in K1  PROVE grp1[k] = grp1[l] <=> SameSegment(s, k, l)
  <2>1. CASE k = n /\ l = n
    BY <1>0, <1>17, <2>1
  <2>2. CASE k = n /\ l # n
    <3>1. l \in K /\ l \in DOMAIN s
      BY <1>0, <1>1, <2>2
    <3>. QED  BY <1>0, <1>7, <1>8, <1>15, <1>16, <2>2, <3>1
  <2>3. CASE k # n /\ l = n
    <3>1. k \in K
      BY <1>1, <2>3
    <3>. QED  BY <1>7, <1>8, <1>15, <2>3, <3>1
  <2>4. CASE k # n /\ l # n
    BY <1>1, <1>6, <1>7, <2>4
  <2>. QED  BY <2>1, <2>2, <2>3, <2>4
<1>19. ASSUME NEW k \in K1
       PROVE  grp1[k] = L <=> \A j \in DOMAIN s : k < j /\ j <= n => ~IsSeparator(s[j])
  <2>1. CASE k = n
    <3>1. \A j \in DOMAIN s : ~(k < j /\ j <= n)
      BY <1>0, <2>1
    <3>. QED  BY <1>8, <2>1, <3>1
  <2>2. CASE k # n
    <3>1. k \in K
      BY <1>1, <2>2
    <3>2. \A j \in DOMAIN s : k < j /\ j <= n => (k < j /\ j <= n - 1) \/ j = n
      BY <1>0
    <3>3. \A j \in DOMAIN s : k < j /\ j <= n - 1 => k < j /\ j <= n
      BY <1>0
    <3>. QED  BY <1>6, <1>7, <3>1, <3>2, <3>3
  <2>. QED  BY <2>1, <2>2
<1>20. \A g \in 1..(Len(q1) - 1) : q1[g] # <<>>
  BY <1>2, <1>6
<1>21. SplitSoFar(q1, T, s, n, grp1, pos1)
  BY <1>2, <1>14, <1>18, <1>19, <1>20 DEF SplitSoFar, K1
<1>. QED  BY <1>21 DEF q1

\* and a separator ends it.
LEMMA SplitASeparator ==
  ASSUME NEW T, NEW s \in Seq(T), NEW n \in 1..Len(s), NEW q \in SomeGroups(T), NEW grp, NEW pos,
         SplitSoFar(q, T, s, n - 1, grp, pos), IsSeparator(s[n])
  PROVE  SplitSoFar(SplitAt(q, s[n]), T, s, n, grp, pos)
<1>. DEFINE K == EntriesUpto(s, n)
            L == Len(q)
            q1 == SplitAt(q, s[n])
<1>0. /\ Len(s) \in Nat /\ DOMAIN s = 1..Len(s) /\ s[n] \in T /\ n \in Nat /\ n \in DOMAIN s
      /\ q \in Seq(Seq(T)) /\ L \in Nat /\ L \in 1..L /\ q[L] \in Seq(T)
  BY DEF SomeGroups
<1>1. K = EntriesUpto(s, n - 1) /\ \A k \in K : k < n
  BY <1>0 DEF EntriesUpto, Entries
<1>9. ASSUME NEW k \in K, \A j \in DOMAIN s : k < j /\ j <= n => ~IsSeparator(s[j])  PROVE FALSE
  <2>1. k < n /\ n <= n
    BY <1>0, <1>1
  <2>2. ~IsSeparator(s[n])
    BY <1>0, <1>9, <2>1
  <2>. QED  BY <2>2
<1>2. CASE q[L] = <<>>
  <2>1. q1 = q
    BY <1>0, <1>2, SplitAtKinds
  <2>2. ASSUME NEW k \in K
        PROVE  grp[k] # L /\ ~\A j \in DOMAIN s : k < j /\ j <= n => ~IsSeparator(s[j])
    <3>1. pos[k] \in 1..Len(q[grp[k]])
      BY <1>1 DEF SplitSoFar, Stands
    <3>2. grp[k] = L => pos[k] \in 1..0
      BY <1>2, <3>1
    <3>. QED  BY <1>9, <3>2
  <2>. QED  BY <1>1, <2>1, <2>2 DEF SplitSoFar
<1>3. CASE q[L] # <<>>
  <2>1. q1 = Append(q, <<>>)
    BY <1>0, <1>3, SplitAtKinds
  <2>2. <<>> \in Seq(T)
    OBVIOUS
  <2>3. /\ q1 \in Seq(Seq(T)) /\ Len(q1) = L + 1 /\ q1[L + 1] = <<>>
        /\ \A g \in 1..L : q1[g] = q[g]
    BY <1>0, <2>1, <2>2
  <2>. HIDE DEF q1
  <2>4. Stands(q, T, s, K, grp, pos)
    BY <1>1 DEF SplitSoFar
  <2>5. /\ grp \in [K -> 1..L] /\ pos \in [K -> Nat]
        /\ \A k \in K : pos[k] \in 1..Len(q[grp[k]]) /\ q[grp[k]][pos[k]] = s[k]
        /\ \A g \in 1..L : \A m \in 1..Len(q[g]) : \E k \in K : grp[k] = g /\ pos[k] = m
        /\ \A k, l \in K : grp[k] = grp[l] /\ pos[k] = pos[l] => k = l
    BY <2>4 DEF Stands
  <2>6. grp \in [K -> 1..(L + 1)] /\ \A k \in K : grp[k] # L + 1
    <3>1. 1..L \subseteq 1..(L + 1) /\ L + 1 \notin 1..L
      BY <1>0
    <3>. QED  BY <2>5, <3>1
  <2>7. ASSUME NEW g \in 1..(L + 1), NEW m \in 1..Len(q1[g])  PROVE g \in 1..L /\ m \in 1..Len(q[g])
    <3>1. g # L + 1
      <4>1. SUFFICES ASSUME g = L + 1  PROVE FALSE
        OBVIOUS
      <4>2. m \in 1..0
        BY <2>3, <4>1
      <4>. QED  BY <4>2
    <3>2. g \in 1..L
      BY <1>0, <3>1
    <3>. QED  BY <2>3, <3>2
  <2>8. \A k \in K : pos[k] \in 1..Len(q1[grp[k]]) /\ q1[grp[k]][pos[k]] = s[k]
    BY <2>3, <2>5, ZenonT(40)
  <2>9. Stands(q1, T, s, K, grp, pos)
    BY <2>3, <2>5, <2>6, <2>7, <2>8 DEF Stands
  <2>10. \A k \in K : ~\A j \in DOMAIN s : k < j /\ j <= n => ~IsSeparator(s[j])
    BY <1>9
  <2>11. \A g \in 1..(Len(q1) - 1) : q1[g] # <<>>
    <3>1. \A g \in 1..(L - 1) : q[g] # <<>>
      BY DEF SplitSoFar
    <3>2. \A g \in 1..L : g = L \/ g \in 1..(L - 1)
      BY <1>0
    <3>3. Len(q1) - 1 = L
      BY <1>0, <2>3
    <3>. QED  BY <1>3, <2>3, <3>1, <3>2, <3>3
  <2>12. \A k, l \in K : grp[k] = grp[l] <=> SameSegment(s, k, l)
    BY <1>1 DEF SplitSoFar
  <2>13. SplitSoFar(q1, T, s, n, grp, pos)
    BY <2>3, <2>6, <2>9, <2>10, <2>11, <2>12 DEF SplitSoFar
  <2>. QED  BY <2>13 DEF q1
<1>. QED  BY <1>2, <1>3

(* Every item of s but its separators stands in one of the groups, none of *)
(* which is empty; with those of its segment, and apart from those to      *)
(* which no requests lead.                                                 *)
IsClosed(s, C) ==
  \A k \in C, l \in Entries(s) \ C :
    ~SameSegment(s, k, l) /\ {<<k, l>>, <<l, k>>} \cap AskedOrder(s) = {}
IsArranged(gs, T, s, grp, pos) ==
  /\ Stands(gs, T, s, Entries(s), grp, pos)
  /\ \A g \in 1..Len(gs) : gs[g] # <<>>
  /\ \A k, l \in Entries(s) : SameSegment(s, k, l) => grp[k] = grp[l]
  /\ \A C \in SUBSET Entries(s) :
       IsClosed(s, C) => \A k \in C, l \in Entries(s) \ C : grp[k] # grp[l]

\* A sequence without its last element.
LEMMA FrontOf ==
  ASSUME NEW S, NEW q \in Seq(S), Len(q) # 0
  PROVE  /\ SubSeq(q, 1, Len(q) - 1) \in Seq(S) /\ Len(SubSeq(q, 1, Len(q) - 1)) = Len(q) - 1
         /\ \A g \in 1..(Len(q) - 1) : SubSeq(q, 1, Len(q) - 1)[g] = q[g]
<1>. DEFINE m == Len(q) - 1
<1>1. m \in Nat /\ m \in Int /\ Len(q) \in Nat /\ m - 1 + 1 = m
  OBVIOUS
<1>2. \A i \in 1..m : q[i] \in S /\ 1 + i - 1 = i
  OBVIOUS
<1>. HIDE DEF m
<1>3. /\ SubSeq(q, 1, m) \in Seq(S)
      /\ Len(SubSeq(q, 1, m)) = IF 1 <= m THEN m - 1 + 1 ELSE 0
      /\ \A i \in 1..(m - 1 + 1) : SubSeq(q, 1, m)[i] = q[1 + i - 1]
  BY <1>1, <1>2, SubSeqProperties
<1>4. Len(SubSeq(q, 1, m)) = m
  BY <1>1, <1>3
<1>. QED  BY <1>1, <1>2, <1>3, <1>4 DEF m

\* splitArray: every item but the separators is in the group of its segment.
LEMMA SplitIsArranged ==
  ASSUME NEW T, NEW s \in Seq(T)
  PROVE  \E grp, pos : IsArranged(SplitArray(s), T, s, grp, pos)
<1>1. PICK multi : /\ SplitSteps(multi, T, s)
                   /\ SplitArray(s) = IF Last(multi[Len(s)]) = <<>> THEN Front(multi[Len(s)])
                                      ELSE multi[Len(s)]
  BY SplitRuns
<1>2. /\ multi \in [0..Len(s) -> SomeGroups(T)] /\ multi[0] = << <<>> >>
      /\ \A n \in 1..Len(s) : multi[n] = SplitAt(multi[n - 1], s[n])
  BY <1>1 DEF SplitSteps
<1>0. /\ Len(s) \in Nat /\ Len(s) \in 0..Len(s) /\ 0 \in 0..Len(s)
      /\ \A n \in 1..Len(s) : n - 1 \in 0..Len(s) /\ n \in 0..Len(s)
  OBVIOUS
<1>. DEFINE Good == {n \in 0..Len(s) : \E grp, pos : SplitSoFar(multi[n], T, s, n, grp, pos)}
<1>3. 0 \in Good
  <2>1. EntriesUpto(s, 0) = {}
    BY DEF EntriesUpto, Entries
  <2>. DEFINE q == << <<>> >>
  <2>2. q \in Seq(Seq(T)) /\ Len(q) = 1 /\ q[1] = <<>>
    OBVIOUS
  <2>. HIDE DEF q
  <2>3. \A g \in 1..Len(q) : \A n \in 1..Len(q[g]) : FALSE
    BY <2>2
  <2>4. <<>> \in [{} -> 1..Len(q)] /\ <<>> \in [{} -> Nat]
    OBVIOUS
  <2>5. Stands(q, T, s, {}, <<>>, <<>>)
    BY <2>2, <2>3, <2>4 DEF Stands
  <2>6. SplitSoFar(q, T, s, 0, <<>>, <<>>)
    <3>1. \A g \in 1..(Len(q) - 1) : FALSE
      BY <2>2
    <3>. QED  BY <2>1, <2>5, <3>1 DEF SplitSoFar
  <2>. QED  BY <1>0, <1>2, <2>6 DEF q
<1>4. ASSUME NEW n \in 1..Len(s), n - 1 \in Good  PROVE n \in Good
  <2>1. PICK grp, pos : SplitSoFar(multi[n - 1], T, s, n - 1, grp, pos)
    BY <1>4
  <2>2. multi[n] = SplitAt(multi[n - 1], s[n]) /\ multi[n - 1] \in SomeGroups(T)
    BY <1>0, <1>2
  <2>3. \E grp1, pos1 : SplitSoFar(multi[n], T, s, n, grp1, pos1)
    <3>1. CASE IsSeparator(s[n])
      BY <2>1, <2>2, <3>1, SplitASeparator
    <3>2. CASE ~IsSeparator(s[n])
      BY <2>1, <2>2, <3>2, SplitAnEntry
    <3>. QED  BY <3>1, <3>2
  <2>. QED  BY <1>0, <2>3
<1>5. Len(s) \in Good
  <2>. HIDE DEF Good
  <2>. QED  BY <1>0, <1>3, <1>4, Upwards
<1>. DEFINE q == multi[Len(s)]
            gs == SplitArray(s)
            K == Entries(s)
<1>6. PICK grp, pos : SplitSoFar(q, T, s, Len(s), grp, pos)
  BY <1>5
<1>7. /\ q \in Seq(Seq(T)) /\ Len(q) \in Nat /\ Len(q) # 0
      /\ gs = IF Last(q) = <<>> THEN Front(q) ELSE q
  BY <1>0, <1>1, <1>2 DEF SomeGroups
<1>8. EntriesUpto(s, Len(s)) = K
  BY DEF EntriesUpto, Entries
<1>. HIDE DEF q, gs, K
<1>9. /\ grp \in [K -> 1..Len(q)] /\ pos \in [K -> Nat]
      /\ \A k \in K : pos[k] \in 1..Len(q[grp[k]]) /\ q[grp[k]][pos[k]] = s[k]
      /\ \A g \in 1..Len(q) : \A n \in 1..Len(q[g]) : \E k \in K : grp[k] = g /\ pos[k] = n
      /\ \A k, l \in K : grp[k] = grp[l] /\ pos[k] = pos[l] => k = l
  BY <1>6, <1>8 DEF SplitSoFar, Stands
<1>10. /\ \A g \in 1..(Len(q) - 1) : q[g] # <<>>
       /\ \A k, l \in K : grp[k] = grp[l] <=> SameSegment(s, k, l)
  BY <1>6, <1>8 DEF SplitSoFar
<1>11. Stands(gs, T, s, K, grp, pos) /\ \A g \in 1..Len(gs) : gs[g] # <<>>
  <2>1. CASE q[Len(q)] # <<>>
    <3>1. gs = q
      BY <1>7, <2>1 DEF Last
    <3>2. \A g \in 1..Len(q) : g = Len(q) \/ g \in 1..(Len(q) - 1)
      BY <1>7
    <3>. QED  BY <1>6, <1>8, <1>10, <2>1, <3>1, <3>2 DEF SplitSoFar
  <2>2. CASE q[Len(q)] = <<>>
    <3>1. gs = SubSeq(q, 1, Len(q) - 1)
      BY <1>7, <2>2 DEF Last, Front
    <3>2. /\ gs \in Seq(Seq(T)) /\ Len(gs) = Len(q) - 1
          /\ \A g \in 1..(Len(q) - 1) : gs[g] = q[g]
      <4>. DEFINE U == Seq(T)
      <4>1. q \in Seq(U) /\ Len(q) # 0
        BY <1>7
      <4>. HIDE DEF U
      <4>2. /\ gs \in Seq(U) /\ Len(gs) = Len(q) - 1
            /\ \A g \in 1..(Len(q) - 1) : gs[g] = q[g]
        BY <3>1, <4>1, FrontOf
      <4>. QED  BY <4>2 DEF U
    <3>3. \A k \in K : grp[k] \in 1..(Len(q) - 1)
      <4>. SUFFICES ASSUME NEW k \in K  PROVE grp[k] \in 1..(Len(q) - 1)
        OBVIOUS
      <4>1. grp[k] # Len(q)
        <5>1. SUFFICES ASSUME grp[k] = Len(q)  PROVE FALSE
          OBVIOUS
        <5>2. pos[k] \in 1..0
          BY <1>9, <2>2, <5>1
        <5>. QED  BY <5>2
      <4>2. grp[k] \in 1..Len(q)
        BY <1>9
      <4>. QED  BY <1>7, <4>1, <4>2
    <3>4. grp \in [K -> 1..Len(gs)] /\ 1..Len(gs) \subseteq 1..Len(q)
      BY <1>7, <1>9, <3>2, <3>3
    <3>5. \A k \in K : pos[k] \in 1..Len(gs[grp[k]]) /\ gs[grp[k]][pos[k]] = s[k]
      BY <1>9, <3>2, <3>3, ZenonT(40)
    <3>6. \A g \in 1..Len(gs) : gs[g] = q[g] /\ g \in 1..Len(q)
      BY <3>2, <3>4
    <3>7. Stands(gs, T, s, K, grp, pos)
      BY <1>9, <3>2, <3>4, <3>5, <3>6 DEF Stands
    <3>. QED  BY <1>10, <3>2, <3>7
  <2>. QED  BY <2>1, <2>2
<1>12. \A C \in SUBSET K : IsClosed(s, C) => \A k \in C, l \in K \ C : grp[k] # grp[l]
  BY <1>10 DEF IsClosed, K
<1>. QED  BY <1>10, <1>11, <1>12 DEF IsArranged, K, gs

-----------------------------------------------------------------------------
(* mergeGroups.                                                            *)
\* FirstOf finds the least place, if there is one.
LEMMA FirstPlace ==
  ASSUME NEW P \in SUBSET (Nat \ {0})
  PROVE  /\ P = {} => FirstOf(P) = 0
         /\ P # {} => FirstOf(P) \in P /\ FirstOf(P) # 0 /\ \A l \in P : FirstOf(P) <= l
<1>1. P # {} => \E k \in P : \A l \in P : k <= l
  BY LeastNumber
<1>. QED  BY <1>1 DEF FirstOf

\* indexOfGroupContainingID finds a group that has the item, if another one has.
LEMMA GroupFound ==
  ASSUME NEW T, NEW s, NEW K, NEW gs, NEW grp, NEW pos, Stands(gs, T, s, K, grp, pos),
         NEW id, NEW ignored, NEW g, g = GroupWith(gs, id, ignored)
  PROVE  /\ g # 0 => /\ g \in 1..Len(gs) /\ g # ignored /\ id # "none"
                     /\ \E l \in K : grp[l] = g /\ s[l].id = id
         /\ g = 0 => \A l \in K : s[l].id = id /\ id # "none" => grp[l] = ignored
<1>. DEFINE P == {k \in DOMAIN gs \ {ignored} :
                    id # "none" /\ \E x \in ToSet(gs[k]) : x.id = id}
<1>1. g = FirstOf(P)
  BY DEF GroupWith
<1>2. /\ gs \in Seq(Seq(T)) /\ DOMAIN gs = 1..Len(gs) /\ Len(gs) \in Nat
      /\ \A h \in 1..Len(gs) : gs[h] \in Seq(T) /\ DOMAIN gs[h] = 1..Len(gs[h])
      /\ grp \in [K -> 1..Len(gs)]
      /\ \A k \in K : pos[k] \in 1..Len(gs[grp[k]]) /\ gs[grp[k]][pos[k]] = s[k]
      /\ \A h \in 1..Len(gs) : \A n \in 1..Len(gs[h]) : \E k \in K : grp[k] = h /\ pos[k] = n
  BY DEF Stands
<1>3. P \in SUBSET (Nat \ {0})
  BY <1>2
<1>4. ASSUME NEW h \in P  PROVE /\ h \in 1..Len(gs) /\ h # ignored /\ id # "none"
                                /\ \E l \in K : grp[l] = h /\ s[l].id = id
  <2>1. PICK x \in ToSet(gs[h]) : x.id = id
    BY <1>4
  <2>2. h \in 1..Len(gs)
    BY <1>2, <1>4
  <2>3. PICK n \in 1..Len(gs[h]) : gs[h][n].id = id
    BY <1>2, <2>1, <2>2 DEF ToSet
  <2>4. PICK l \in K : grp[l] = h /\ pos[l] = n
    BY <1>2, <2>2
  <2>5. s[l].id = id
    BY <1>2, <2>3, <2>4
  <2>. QED  BY <1>4, <2>2, <2>4, <2>5
<1>5. ASSUME NEW l \in K, s[l].id = id, id # "none", grp[l] # ignored  PROVE grp[l] \in P
  <2>1. s[l] \in ToSet(gs[grp[l]])
    BY <1>2 DEF ToSet
  <2>. QED  BY <1>2, <1>5, <2>1
<1>. HIDE DEF P
<1>6. P # {} => g \in P /\ g # 0
  BY <1>1, <1>3, FirstPlace
<1>7. P = {} => g = 0
  BY <1>1, <1>3, FirstPlace
<1>. QED  BY <1>4, <1>5, <1>6, <1>7

\* The item at place k of the template asks to be beside the one at place l.
AsksFor(s, k, l) == s[l].id # "none" /\ (s[k].before = s[l].id \/ s[k].after = s[l].id)

\* The group an item is merged into has one that it asks for; without one, its own has them all.
LEMMA TargetFound ==
  ASSUME NEW T, NEW s, NEW K, NEW gs, NEW grp, NEW pos, Stands(gs, T, s, K, grp, pos),
         NEW k \in K, NEW t, t = MergeTarget(gs, grp[k], pos[k])
  PROVE  /\ t # 0 => t \in 1..Len(gs) /\ t # grp[k] /\ \E l \in K : grp[l] = t /\ AsksFor(s, k, l)
         /\ t = 0 => \A l \in K : AsksFor(s, k, l) => grp[l] = grp[k]
<1>1. gs[grp[k]][pos[k]] = s[k]
  BY DEF Stands
<1>. DEFINE b == GroupWith(gs, s[k].before, grp[k])
            a == GroupWith(gs, s[k].after, grp[k])
<1>2. t = IF b # 0 THEN b ELSE a
  BY <1>1 DEF MergeTarget
<1>3. /\ b # 0 => /\ b \in 1..Len(gs) /\ b # grp[k] /\ s[k].before # "none"
                  /\ \E l \in K : grp[l] = b /\ s[l].id = s[k].before
      /\ b = 0 => \A l \in K : s[l].id = s[k].before /\ s[k].before # "none" => grp[l] = grp[k]
  BY GroupFound
<1>4. /\ a # 0 => /\ a \in 1..Len(gs) /\ a # grp[k] /\ s[k].after # "none"
                  /\ \E l \in K : grp[l] = a /\ s[l].id = s[k].after
      /\ a = 0 => \A l \in K : s[l].id = s[k].after /\ s[k].after # "none" => grp[l] = grp[k]
  BY GroupFound
<1>. HIDE DEF a, b
<1>. QED  BY <1>2, <1>3, <1>4 DEF AsksFor

\* No item asks for one of another group.
NoneAsks(gs) == \A k \in DOMAIN gs : \A n \in DOMAIN gs[k] : MergeTarget(gs, k, n) = 0
\* Group i is appended to group t.
MergedInto(gs, t, i) == RemoveAt([gs EXCEPT ![t] = @ \o gs[i]], i)

\* attemptToMergeAGroup merges one group into another, or nobody asks.
LEMMA MergeChoice ==
  ASSUME NEW T, NEW gs \in Seq(Seq(T))
  PROVE  \/ AttemptToMergeAGroup(gs) = gs /\ NoneAsks(gs)
         \/ \E i \in DOMAIN gs : \E n \in DOMAIN gs[i] :
              /\ MergeTarget(gs, i, n) # 0
              /\ AttemptToMergeAGroup(gs) = MergedInto(gs, MergeTarget(gs, i, n), i)
<1>. DEFINE asking(k) == {n \in DOMAIN gs[k] : MergeTarget(gs, k, n) # 0}
            P == {k \in DOMAIN gs : asking(k) # {}}
            i == FirstOf(P)
            n == FirstOf(asking(i))
<1>1. AttemptToMergeAGroup(gs) = IF i = 0 THEN gs ELSE MergedInto(gs, MergeTarget(gs, i, n), i)
  BY DEF AttemptToMergeAGroup, MergedInto
<1>2. P \in SUBSET (Nat \ {0})
  OBVIOUS
<1>3. ASSUME P = {}  PROVE i = 0 /\ NoneAsks(gs)
  <2>1. NoneAsks(gs)
    BY <1>3 DEF NoneAsks
  <2>. HIDE DEF P
  <2>. QED  BY <1>2, <1>3, <2>1, FirstPlace
<1>4. ASSUME P # {}  PROVE i # 0 /\ i \in DOMAIN gs /\ asking(i) # {}
  <2>1. i # 0 /\ i \in P
    <3>. HIDE DEF P
    <3>. QED  BY <1>2, <1>4, FirstPlace
  <2>. HIDE DEF asking, i
  <2>. QED  BY <2>1
<1>5. ASSUME i \in DOMAIN gs, asking(i) # {}  PROVE n \in asking(i)
  <2>. HIDE DEF i
  <2>1. gs[i] \in Seq(T)
    BY <1>5
  <2>2. asking(i) \in SUBSET (Nat \ {0})
    BY <2>1
  <2>. HIDE DEF asking
  <2>. QED  BY <1>5, <2>2, FirstPlace
<1>6. P # {} => n \in DOMAIN gs[i] /\ MergeTarget(gs, i, n) # 0
  <2>. HIDE DEF i, n, P
  <2>. QED  BY <1>4, <1>5
<1>. HIDE DEF i, n, P, asking
<1>. QED  BY <1>1, <1>3, <1>4, <1>6

\* The groups but number i, in their order: where group h is then.
ClosesUp(sh, N, i) ==
  /\ \A h \in 1..N : h # i => sh[h] \in 1..(N - 1)
  /\ \A h, j \in 1..N : h # i /\ j # i /\ sh[h] = sh[j] => h = j
  /\ \A g \in 1..(N - 1) : \E h \in 1..N : h # i /\ sh[h] = g

Closed(sh, q, i, r) ==
  ClosesUp(sh, Len(q), i) /\ \A h \in 1..Len(q) : h # i => r[sh[h]] = q[h]

\* Where the groups are when one of them has been removed.
LEMMA GroupRemoved ==
  ASSUME NEW S, NEW q \in Seq(S), NEW i \in 1..Len(q), NEW r, r = RemoveAt(q, i)
  PROVE  /\ r \in Seq(S) /\ Len(r) = Len(q) - 1
         /\ \E sh : Closed(sh, q, i, r)
<1>0. Len(q) \in Nat /\ i \in Nat
  OBVIOUS
<1>1. /\ r \in Seq(S) /\ Len(r) = Len(q) - 1
      /\ \A k \in 1..(i - 1) : r[k] = q[k]
      /\ \A k \in i..(Len(q) - 1) : r[k] = q[k + 1]
  BY RemovedAt
<1>. DEFINE N == Len(q)
            sh == [h \in 1..N |-> IF h > i THEN h - 1 ELSE h]
<1>2. ClosesUp(sh, N, i)
  <2>1. \A h \in 1..N : h # i => sh[h] \in 1..(N - 1)
    BY <1>0
  <2>2. \A h, j \in 1..N : h # i /\ j # i /\ sh[h] = sh[j] => h = j
    BY <1>0
  <2>3. ASSUME NEW g \in 1..(N - 1)  PROVE \E h \in 1..N : h # i /\ sh[h] = g
    <3>1. CASE g < i
      <4>1. g \in 1..N /\ g # i /\ ~(g > i)
        BY <1>0, <3>1
      <4>. QED  BY <4>1
    <3>2. CASE ~(g < i)
      <4>1. g + 1 \in 1..N /\ g + 1 # i /\ g + 1 > i /\ (g + 1) - 1 = g
        BY <1>0, <3>2
      <4>2. sh[g + 1] = g
        BY <4>1
      <4>. QED  BY <4>1, <4>2
    <3>. QED  BY <3>1, <3>2
  <2>. HIDE DEF sh, N
  <2>. QED  BY <2>1, <2>2, <2>3 DEF ClosesUp
<1>3. ASSUME NEW h \in 1..N, h # i  PROVE r[sh[h]] = q[h]
  <2>1. CASE h > i
    <3>1. h - 1 \in i..(N - 1) /\ (h - 1) + 1 = h
      BY <1>0, <2>1
    <3>2. r[h - 1] = q[(h - 1) + 1]
      BY <1>1, <3>1
    <3>. QED  BY <2>1, <3>1, <3>2
  <2>2. CASE ~(h > i)
    <3>1. h \in 1..(i - 1)
      BY <1>0, <1>3, <2>2
    <3>. QED  BY <1>1, <2>2, <3>1
  <2>. QED  BY <2>1, <2>2
<1>4. Closed(sh, q, i, r)
  BY <1>2, <1>3 DEF Closed
<1>. QED  BY <1>1, <1>4

\* Merging a group into one that an item of it asks for keeps the arrangement.
LEMMA Merged ==
  ASSUME NEW T, NEW s, NEW gs, NEW grp, NEW pos, IsArranged(gs, T, s, grp, pos),
         NEW i \in 1..Len(gs), NEW t \in 1..Len(gs), i # t,
         NEW a \in Entries(s), NEW b \in Entries(s), grp[a] = i, grp[b] = t, AsksFor(s, a, b),
         NEW gs1, gs1 = MergedInto(gs, t, i)
  PROVE  Len(gs1) = Len(gs) - 1 /\ \E grp1, pos1 : IsArranged(gs1, T, s, grp1, pos1)
<1>. DEFINE K == Entries(s)
            N == Len(gs)
            M == Len(gs[t])
            up == [gs EXCEPT ![t] = @ \o gs[i]]
<1>1. Stands(gs, T, s, K, grp, pos)
  BY DEF IsArranged
<1>2. /\ gs \in Seq(Seq(T)) /\ grp \in [K -> 1..N] /\ pos \in [K -> Nat]
      /\ \A k \in K : pos[k] \in 1..Len(gs[grp[k]]) /\ gs[grp[k]][pos[k]] = s[k]
      /\ \A g \in 1..N : \A n \in 1..Len(gs[g]) : \E k \in K : grp[k] = g /\ pos[k] = n
      /\ \A k, l \in K : grp[k] = grp[l] /\ pos[k] = pos[l] => k = l
  BY <1>1 DEF Stands
<1>3. /\ \A g \in 1..N : gs[g] # <<>>
      /\ \A k, l \in K : SameSegment(s, k, l) => grp[k] = grp[l]
      /\ \A C \in SUBSET K : IsClosed(s, C) => \A k \in C, l \in K \ C : grp[k] # grp[l]
  BY DEF IsArranged
<1>4. gs[t] \in Seq(T) /\ gs[i] \in Seq(T) /\ M \in Nat /\ Len(gs[i]) \in Nat /\ N \in Nat
  BY <1>2
<1>5. gs[t] \o gs[i] \in Seq(T) /\ IsJoined(gs[t] \o gs[i], gs[t], gs[i])
  BY <1>4, Joined
<1>6. /\ up \in Seq(Seq(T)) /\ Len(up) = N /\ up[t] = gs[t] \o gs[i]
      /\ \A h \in 1..N : h # t => up[h] = gs[h]
  <2>1. up \in Seq(Seq(T)) /\ Len(up) = N
    BY <1>2, <1>5
  <2>0. t \in DOMAIN gs
    BY <1>2
  <2>2. up[t] = gs[t] \o gs[i]
    BY ONLY <2>0
  <2>3. \A h \in 1..N : h # t => up[h] = gs[h]
    BY <1>2
  <2>. QED  BY <2>1, <2>2, <2>3
<1>7. gs1 = RemoveAt(up, i)
  BY DEF MergedInto
<1>. HIDE DEF up, K, N, M
<1>8. gs1 \in Seq(Seq(T)) /\ Len(gs1) = N - 1
  <2>. DEFINE U == Seq(T)
  <2>1. up \in Seq(U) /\ i \in 1..Len(up)
    BY <1>6 DEF N
  <2>. HIDE DEF U
  <2>2. gs1 \in Seq(U) /\ Len(gs1) = Len(up) - 1
    BY <1>7, <2>1, GroupRemoved
  <2>. QED  BY <1>6, <2>2 DEF U
<1>9. PICK sh : ClosesUp(sh, N, i) /\ \A h \in 1..N : h # i => gs1[sh[h]] = up[h]
  <2>. DEFINE U == Seq(T)
  <2>1. up \in Seq(U) /\ i \in 1..Len(up)
    BY <1>6 DEF N
  <2>. HIDE DEF U
  <2>2. PICK sh : Closed(sh, up, i, gs1)
    BY <1>7, <2>1, GroupRemoved
  <2>. QED  BY <1>6, <2>2 DEF Closed
<1>10. /\ \A h \in 1..N : h # i => sh[h] \in 1..(N - 1)
       /\ \A h, j \in 1..N : h # i /\ j # i /\ sh[h] = sh[j] => h = j
       /\ \A g \in 1..(N - 1) : \E h \in 1..N : h # i /\ sh[h] = g
  BY <1>9 DEF ClosesUp
<1>. DEFINE into(k) == IF grp[k] = i THEN t ELSE grp[k]
            grp1 == [k \in K |-> sh[into(k)]]
            pos1 == [k \in K |-> IF grp[k] = i THEN M + pos[k] ELSE pos[k]]
<1>11. \A k \in K : /\ into(k) \in 1..N /\ into(k) # i
                   /\ grp1[k] = sh[into(k)] /\ gs1[grp1[k]] = up[into(k)]
  BY <1>2, <1>9 DEF N
<1>12. grp1 \in [K -> 1..Len(gs1)] /\ pos1 \in [K -> Nat]
  <2>1. \A k \in K : grp1[k] \in 1..Len(gs1)
    BY <1>8, <1>10, <1>11
  <2>2. \A k \in K : pos1[k] \in Nat
    BY <1>2, <1>4
  <2>. QED  BY <2>1, <2>2
<1>13. /\ \A k \in K : grp[k] = i => pos1[k] = M + pos[k] /\ into(k) = t
       /\ \A k \in K : grp[k] # i => pos1[k] = pos[k] /\ into(k) = grp[k]
  OBVIOUS
<1>14. /\ Len(up[t]) = M + Len(gs[i])
       /\ \A n \in 1..M : up[t][n] = gs[t][n]
       /\ \A n \in 1..Len(gs[i]) : up[t][M + n] = gs[i][n]
  BY <1>5, <1>6 DEF IsJoined, M
<1>. HIDE DEF into, grp1, pos1
<1>15. ASSUME NEW k \in K  PROVE pos1[k] \in 1..Len(up[into(k)]) /\ up[into(k)][pos1[k]] = s[k]
  <2>1. CASE grp[k] = i
    <3>1. pos[k] \in 1..Len(gs[i]) /\ gs[i][pos[k]] = s[k]
      BY <1>2, <2>1
    <3>2. M + pos[k] \in 1..(M + Len(gs[i]))
      BY <1>4, <3>1
    <3>. QED  BY <1>13, <1>14, <2>1, <3>1, <3>2
  <2>2. CASE grp[k] = t /\ grp[k] # i
    <3>1. pos[k] \in 1..M /\ gs[t][pos[k]] = s[k]
      BY <1>2, <2>2 DEF M
    <3>2. pos[k] \in 1..(M + Len(gs[i]))
      BY <1>4, <3>1
    <3>. QED  BY <1>13, <1>14, <2>2, <3>1, <3>2
  <2>3. CASE grp[k] # t /\ grp[k] # i
    <3>1. up[into(k)] = gs[grp[k]] /\ pos1[k] = pos[k]
      BY <1>2, <1>6, <1>13, <2>3 DEF N
    <3>. QED  BY <1>2, <3>1
  <2>. QED  BY <2>1, <2>2, <2>3
<1>16. ASSUME NEW h \in 1..N, h # i, NEW n \in 1..Len(up[h])
       PROVE  \E k \in K : into(k) = h /\ pos1[k] = n
  <2>1. CASE h # t
    <3>1. PICK k \in K : grp[k] = h /\ pos[k] = n
      BY <1>2, <1>6, <2>1
    <3>. QED  BY <1>13, <1>16, <3>1
  <2>2. CASE h = t /\ n \in 1..M
    <3>1. PICK k \in K : grp[k] = t /\ pos[k] = n
      BY <1>2, <2>2 DEF M, N
    <3>. QED  BY <1>13, <1>16, <2>2, <3>1
  <2>3. CASE h = t /\ n \notin 1..M
    <3>1. n - M \in 1..Len(gs[i]) /\ M + (n - M) = n
      BY <1>4, <1>14, <2>3
    <3>2. PICK k \in K : grp[k] = i /\ pos[k] = n - M
      BY <1>2, <3>1 DEF N
    <3>. QED  BY <1>13, <2>3, <3>1, <3>2
  <2>. QED  BY <2>1, <2>2, <2>3
<1>17. ASSUME NEW k \in K, NEW l \in K, into(k) = into(l), pos1[k] = pos1[l]  PROVE k = l
  <2>1. \A j \in K : grp[j] = t => pos[j] <= M
    BY <1>2, <1>4 DEF M
  <2>2. \A j \in K : pos[j] \in Nat /\ 1 <= pos[j]
    BY <1>2
  <2>3. CASE grp[k] = i /\ grp[l] = i
    <3>1. M + pos[k] = M + pos[l]
      BY <1>13, <1>17, <2>3
    <3>2. pos[k] = pos[l]
      BY <1>4, <2>2, <3>1
    <3>. QED  BY <1>2, <2>3, <3>2
  <2>4. CASE grp[k] # i /\ grp[l] # i
    BY <1>2, <1>13, <1>17, <2>4
  <2>5. CASE grp[k] = i /\ grp[l] # i
    <3>1. grp[l] = t /\ M + pos[k] = pos[l]
      BY <1>13, <1>17, <2>5
    <3>2. M + pos[k] <= M
      BY <2>1, <3>1
    <3>. QED  BY <1>4, <2>2, <3>2
  <2>6. CASE grp[k] # i /\ grp[l] = i
    <3>1. grp[k] = t /\ M + pos[l] = pos[k]
      BY <1>13, <1>17, <2>6
    <3>2. M + pos[l] <= M
      BY <2>1, <3>1
    <3>. QED  BY <1>4, <2>2, <3>2
  <2>. QED  BY <2>3, <2>4, <2>5, <2>6
<1>18. \A k, l \in K : grp1[k] = grp1[l] => into(k) = into(l)
  BY <1>10, <1>11
<1>19. Stands(gs1, T, s, K, grp1, pos1)
  <2>1. \A k \in K : pos1[k] \in 1..Len(gs1[grp1[k]]) /\ gs1[grp1[k]][pos1[k]] = s[k]
    BY <1>11, <1>15
  <2>2. ASSUME NEW g \in 1..Len(gs1), NEW n \in 1..Len(gs1[g])
        PROVE  \E k \in K : grp1[k] = g /\ pos1[k] = n
    <3>1. PICK h \in 1..N : h # i /\ sh[h] = g
      BY <1>8, <1>10
    <3>2. gs1[g] = up[h]
      BY <1>9, <3>1
    <3>3. PICK k \in K : into(k) = h /\ pos1[k] = n
      BY <1>16, <3>1, <3>2
    <3>. QED  BY <1>11, <3>1, <3>3
  <2>3. \A k, l \in K : grp1[k] = grp1[l] /\ pos1[k] = pos1[l] => k = l
    BY <1>17, <1>18
  <2>. QED  BY <1>8, <1>12, <2>1, <2>2, <2>3 DEF Stands
<1>20. ASSUME NEW g \in 1..Len(gs1)  PROVE gs1[g] # <<>>
  <2>1. PICK h \in 1..N : h # i /\ sh[h] = g
    BY <1>8, <1>10
  <2>2. gs1[g] = up[h]
    BY <1>9, <2>1
  <2>3. CASE h # t
    BY <1>3, <1>6, <2>2, <2>3
  <2>4. CASE h = t
    <3>1. gs[t] # <<>>
      BY <1>3 DEF N
    <3>2. M # 0
      BY <1>4, <3>1 DEF M
    <3>3. Len(up[t]) # 0
      BY <1>4, <1>14, <3>2
    <3>. QED  BY <2>2, <2>4, <3>3
  <2>. QED  BY <2>3, <2>4
<1>21. ASSUME NEW k \in K, NEW l \in K, SameSegment(s, k, l)  PROVE grp1[k] = grp1[l]
  <2>1. grp[k] = grp[l]
    BY <1>3, <1>21
  <2>. QED  BY <1>11, <1>13, <2>1
<1>22. ASSUME NEW C \in SUBSET K, IsClosed(s, C), NEW k \in C, NEW l \in K \ C  PROVE grp1[k] # grp1[l]
  <2>1. SUFFICES ASSUME grp1[k] = grp1[l]  PROVE FALSE
    OBVIOUS
  <2>2. into(k) = into(l) /\ k \in K /\ l \in K
    BY <1>18, <2>1
  <2>3. \A x \in C, y \in K \ C : grp[x] # grp[y]
    BY <1>3, <1>22
  <2>4. (grp[k] = i /\ grp[l] = t) \/ (grp[k] = t /\ grp[l] = i)
    BY <1>13, <2>2, <2>3
  <2>5. a \in K /\ b \in K /\ grp[a] = i /\ grp[b] = t
    BY DEF K
  <2>6. (a \in C /\ b \in K \ C) \/ (b \in C /\ a \in K \ C)
    BY <2>2, <2>3, <2>4, <2>5
  <2>7. <<a, b>> \in AskedOrder(s) \/ <<b, a>> \in AskedOrder(s)
    <3>1. \/ s[b].id # "none" /\ s[a].before = s[b].id
          \/ s[b].id # "none" /\ s[a].after = s[b].id
      BY DEF AsksFor
    <3>. QED  BY <3>1 DEF AskedOrder
  <2>8. \A x \in C, y \in K \ C : <<x, y>> \notin AskedOrder(s) /\ <<y, x>> \notin AskedOrder(s)
    BY <1>22 DEF IsClosed, K
  <2>. QED  BY <2>6, <2>7, <2>8
<1>23. IsArranged(gs1, T, s, grp1, pos1)
  BY <1>19, <1>20, <1>21, <1>22 DEF IsArranged, K
<1>. QED  BY <1>8, <1>23 DEF N

\* The groupings of s that IsArranged allows.
Arrangements(T, s) == {gs \in Seq(Seq(T)) : \E grp, pos : IsArranged(gs, T, s, grp, pos)}

\* Each attempt keeps the arrangement and leaves one group less, unless nobody asks;
LEMMA MergeStep ==
  ASSUME NEW T, NEW s, NEW gs \in Arrangements(T, s), NEW gs1, gs1 = AttemptToMergeAGroup(gs)
  PROVE  /\ gs1 \in Arrangements(T, s)
         /\ (gs1 = gs /\ NoneAsks(gs)) \/ Len(gs1) = Len(gs) - 1
<1>1. gs \in Seq(Seq(T)) /\ DOMAIN gs = 1..Len(gs)
  BY DEF Arrangements
<1>2. PICK grp, pos : IsArranged(gs, T, s, grp, pos)
  BY DEF Arrangements
<1>3. Stands(gs, T, s, Entries(s), grp, pos)
  BY <1>2 DEF IsArranged
<1>4. CASE gs1 = gs /\ NoneAsks(gs)
  BY <1>4
<1>5. ASSUME NEW i \in DOMAIN gs, NEW n \in DOMAIN gs[i], NEW t, t = MergeTarget(gs, i, n), t # 0,
             gs1 = MergedInto(gs, t, i)
      PROVE  Len(gs1) = Len(gs) - 1 /\ gs1 \in Arrangements(T, s)
  <2>1. i \in 1..Len(gs) /\ n \in 1..Len(gs[i])
    BY <1>1, <1>5
  <2>2. PICK a \in Entries(s) : grp[a] = i /\ pos[a] = n
    BY <1>3, <2>1 DEF Stands
  <2>3. t \in 1..Len(gs) /\ t # i /\ \E l \in Entries(s) : grp[l] = t /\ AsksFor(s, a, l)
    BY <1>3, <1>5, <2>2, TargetFound
  <2>4. PICK b \in Entries(s) : grp[b] = t /\ AsksFor(s, a, b)
    BY <2>3
  <2>5. Len(gs1) = Len(gs) - 1 /\ \E grp1, pos1 : IsArranged(gs1, T, s, grp1, pos1)
    BY <1>2, <1>5, <2>1, <2>2, <2>3, <2>4, Merged
  <2>6. gs1 \in Seq(Seq(T))
    BY <2>5 DEF IsArranged, Stands
  <2>. QED  BY <2>5, <2>6 DEF Arrangements
<1>. QED  BY <1>1, <1>4, <1>5, MergeChoice

\* When no item asks for another group, it leaves them as they are.
LEMMA MergedOut ==
  ASSUME NEW T, NEW gs \in Seq(Seq(T)), NoneAsks(gs)
  PROVE  AttemptToMergeAGroup(gs) = gs
  BY MergeChoice DEF NoneAsks

\* mergeGroups: in the end no item asks for one of another group.
LEMMA MergeRuns ==
  ASSUME NEW T, NEW s, NEW gs \in Arrangements(T, s)
  PROVE  MergeGroups(gs) \in Arrangements(T, s) /\ NoneAsks(MergeGroups(gs))
<1>. DEFINE S == Arrangements(T, s)
            N == Len(gs)
            Runs(f) == [n \in 0..N |-> IF n = 0 THEN gs ELSE AttemptToMergeAGroup(f[n - 1])]
            merged == CHOOSE f : f = Runs(f)
            step == [n \in 1..N |-> [q \in S |-> AttemptToMergeAGroup(q)]]
<1>0. /\ N \in Nat /\ \A n \in 1..N : n - 1 \in 0..N /\ n \in 0..N /\ n # 0
      /\ 0 \in 0..N /\ N \in 0..N /\ \A n \in 0..N : n = 0 \/ n \in 1..N
  <2>1. N \in Nat
    BY DEF Arrangements
  <2>. HIDE DEF N
  <2>. QED  BY <2>1
<1>1. CanRecur(S, N, gs, step)
  <2>1. \A q \in S : AttemptToMergeAGroup(q) \in S
    BY MergeStep
  <2>. HIDE DEF S
  <2>2. gs \in S /\ step \in [1..N -> [S -> S]]
    BY <2>1 DEF S
  <2>. QED  BY <1>0, <2>2 DEF CanRecur
<1>2. \A n \in 1..N, q \in S : step[n][q] = AttemptToMergeAGroup(q)
  OBVIOUS
<1>3. MergeGroups(gs) = merged[N]
  BY DEF MergeGroups
<1>. HIDE DEF step, merged, Runs, S, N
<1>4. PICK f : Recurs(f, S, N, gs, step)
  BY <1>1, Recursion
<1>5. f \in [0..N -> S] /\ f[0] = gs /\ \A n \in 1..N : f[n] = step[n][f[n - 1]]
  BY <1>4 DEF Recurs
<1>6. f = Runs(f)
  <2>1. \A n \in 1..N : f[n - 1] \in S
    BY <1>0, <1>5
  <2>2. \A n \in 0..N : f[n] = Runs(f)[n]
    BY <1>0, <1>2, <1>5, <2>1 DEF Runs
  <2>3. f = [n \in 0..N |-> f[n]] /\ Runs(f) = [n \in 0..N |-> Runs(f)[n]]
    BY <1>5 DEF Runs
  <2>. QED  BY <2>2, <2>3
<1>7. merged = Runs(merged)
  BY <1>6 DEF merged
<1>8. /\ merged[0] = gs /\ merged = [n \in 0..N |-> merged[n]]
      /\ \A n \in 1..N : merged[n] = AttemptToMergeAGroup(merged[n - 1])
  BY <1>0, <1>7 DEF Runs
<1>9. merged = f
  <2>1. \A n \in 1..N : merged[n - 1] \in S => merged[n] = step[n][merged[n - 1]]
    BY <1>2, <1>8
  <2>2. Follows(merged, S, N, gs, step)
    BY <1>8, <2>1 DEF Follows
  <2>. QED  BY <1>1, <1>4, <2>2, OneRecursion
<1>10. /\ \A n \in 0..N : merged[n] \in S
       /\ \A n \in 1..N : \/ merged[n] = merged[n - 1] /\ NoneAsks(merged[n])
                          \/ Len(merged[n]) = Len(merged[n - 1]) - 1
  <2>1. \A n \in 0..N : merged[n] \in S
    BY <1>5, <1>9
  <2>2. ASSUME NEW n \in 1..N
        PROVE  \/ merged[n] = merged[n - 1] /\ NoneAsks(merged[n])
               \/ Len(merged[n]) = Len(merged[n - 1]) - 1
    <3>1. merged[n - 1] \in Arrangements(T, s) /\ merged[n] = AttemptToMergeAGroup(merged[n - 1])
      BY <1>0, <1>8, <2>1 DEF S
    <3>. QED  BY <3>1, MergeStep
  <2>. QED  BY <2>1, <2>2
<1>. DEFINE a(n) == Len(merged[n])
<1>11. \A n \in 0..N : a(n) \in Nat
  BY <1>10 DEF S, Arrangements
<1>12. a(0) = N
  BY <1>8 DEF N
<1>13. \A n \in 1..N : (merged[n] = merged[n - 1] /\ NoneAsks(merged[n])) \/ a(n) = a(n - 1) - 1
  BY <1>10
<1>. HIDE DEF a
<1>. DEFINE Good == {n \in 0..N : NoneAsks(merged[n]) \/ a(n) + n = N}
<1>14. 0 \in Good
  BY <1>0, <1>12
<1>15. ASSUME NEW n \in 1..N, n - 1 \in Good  PROVE n \in Good
  <2>1. AttemptToMergeAGroup(merged[n - 1]) = merged[n]
    BY <1>8
  <2>2. NoneAsks(merged[n - 1]) => merged[n] = merged[n - 1] \/ a(n) = a(n - 1) - 1
    BY <1>13
  <2>3. CASE merged[n] = merged[n - 1] /\ NoneAsks(merged[n])
    BY <1>0, <2>3
  <2>4. CASE a(n) = a(n - 1) - 1 /\ a(n - 1) + (n - 1) = N
    <3>1. a(n) \in Nat /\ a(n - 1) \in Nat /\ n \in Nat
      BY <1>0, <1>11
    <3>2. a(n) + n = N
      BY <2>4, <3>1
    <3>. QED  BY <1>0, <3>2
  <2>5. CASE NoneAsks(merged[n - 1])
    <3>1. merged[n] = merged[n - 1]
      <4>1. merged[n - 1] \in Arrangements(T, s)
        BY <1>0, <1>10 DEF S
      <4>. QED  BY <2>1, <2>5, <4>1, MergedOut DEF Arrangements
    <3>. QED  BY <1>0, <2>5, <3>1
  <2>. QED  BY <1>13, <1>15, <2>3, <2>4, <2>5
<1>16. N \in Good
  <2>. HIDE DEF Good
  <2>. QED  BY <1>0, <1>14, <1>15, Upwards
<1>17. CASE NoneAsks(merged[N])
  BY <1>0, <1>3, <1>10, <1>17 DEF S
<1>18. CASE a(N) + N = N
  <2>1. a(N) = 0
    BY <1>0, <1>11, <1>18
  <2>2. merged[N] \in Seq(Seq(T)) /\ merged[N] \in S
    BY <1>0, <1>10 DEF S, Arrangements
  <2>3. DOMAIN merged[N] = {}
    BY <2>1, <2>2 DEF a
  <2>4. NoneAsks(merged[N])
    BY <2>3 DEF NoneAsks
  <2>. QED  BY <1>3, <2>2, <2>4 DEF S
<1>. QED  BY <1>16, <1>17, <1>18

(***************************************************************************)
(* sortTopologically.  How the agenda of visits changes.                   *)
(***************************************************************************)
Calls(n) == [mark : 1..n, push : BOOLEAN]
Visiting(n) == [agenda : Seq(Calls(n)), marked : SUBSET (1..n), sorted : Seq(1..n)]

\* What becomes of an agenda a: the first call is dropped, or opened.
Dropped(b, a) == Len(b) = Len(a) - 1 /\ \A p \in 1..Len(b) : b[p] = a[p + 1]
Opened(b, a, ks, k) ==
  /\ Len(b) = Len(ks) + Len(a)
  /\ \A p \in 1..Len(ks) : b[p] = [mark |-> ks[p], push |-> FALSE]
  /\ b[Len(ks) + 1] = [mark |-> k, push |-> TRUE]
  /\ \A p \in 2..Len(a) : b[Len(ks) + p] = a[p]

\* The three kinds of steps from d to e.
Pushes(d, e) ==
  /\ d.agenda # <<>> /\ d.agenda[1].push /\ Dropped(e.agenda, d.agenda)
  /\ e.marked = d.marked /\ e.sorted = Append(d.sorted, d.agenda[1].mark)
Skips(d, e) ==
  /\ d.agenda # <<>> /\ ~d.agenda[1].push /\ d.agenda[1].mark \in d.marked
  /\ Dropped(e.agenda, d.agenda) /\ e.marked = d.marked /\ e.sorted = d.sorted
Opens(edges, d, e) ==
  /\ d.agenda # <<>> /\ ~d.agenda[1].push /\ d.agenda[1].mark \notin d.marked
  /\ Opened(e.agenda, d.agenda, edges[d.agenda[1].mark], d.agenda[1].mark)
  /\ e.marked = d.marked \cup {d.agenda[1].mark} /\ e.sorted = d.sorted

\* What the next step of sortTopologically does: push, skip or open a place.
LEMMA VisitKinds ==
  ASSUME NEW n \in Nat, NEW edges \in [1..n -> Seq(1..n)], NEW d \in Visiting(n),
         NEW e, e = VisitNext(edges, d)
  PROVE  /\ e \in Visiting(n)
         /\ \/ d.agenda = <<>> /\ e = d
            \/ Pushes(d, e) \/ Skips(d, e) \/ Opens(edges, d, e)
<1>. DEFINE a == d.agenda
            c == a[1]
<1>1. /\ a \in Seq(Calls(n)) /\ d.marked \in SUBSET (1..n) /\ d.sorted \in Seq(1..n)
      /\ d = [agenda |-> a, marked |-> d.marked, sorted |-> d.sorted]
  BY DEF Visiting
<1>2. CASE a = <<>>
  BY <1>2 DEF VisitNext
<1>3. CASE a # <<>>
  <2>1. Head(a) = c /\ c \in Calls(n) /\ Tail(a) \in Seq(Calls(n)) /\ Dropped(Tail(a), a)
    BY <1>1, <1>3 DEF Dropped
  <2>2. c.mark \in 1..n /\ c.push \in BOOLEAN /\ c = [mark |-> c.mark, push |-> c.push]
    BY <2>1 DEF Calls
  <2>3. CASE c.push
    <3>1. e = [d EXCEPT !.agenda = Tail(a), !.sorted = Append(@, c.mark)]
      BY <1>3, <2>1, <2>3 DEF VisitNext
    <3>2. e = [agenda |-> Tail(a), marked |-> d.marked, sorted |-> Append(d.sorted, c.mark)]
      BY <1>1, <3>1
    <3>3. Append(d.sorted, c.mark) \in Seq(1..n)
      BY <1>1, <2>2
    <3>4. e \in Visiting(n)
      BY <1>1, <2>1, <3>2, <3>3 DEF Visiting
    <3>. QED  BY <1>3, <2>1, <2>3, <3>2, <3>4 DEF Pushes
  <2>4. CASE ~c.push /\ c.mark \in d.marked
    <3>1. e = [d EXCEPT !.agenda = Tail(a)]
      BY <1>3, <2>1, <2>4 DEF VisitNext
    <3>2. e = [agenda |-> Tail(a), marked |-> d.marked, sorted |-> d.sorted]
      BY <1>1, <3>1
    <3>3. e \in Visiting(n)
      BY <1>1, <2>1, <3>2 DEF Visiting
    <3>. QED  BY <1>3, <2>1, <2>4, <3>2, <3>3 DEF Skips
  <2>5. CASE ~c.push /\ c.mark \notin d.marked
    <3>. DEFINE ks == edges[c.mark]
                v == Visits(ks)
                one == <<[mark |-> c.mark, push |-> TRUE]>>
                b == v \o one \o Tail(a)
    <3>1. e = [d EXCEPT !.marked = @ \cup {c.mark}, !.agenda = b]
      BY <1>3, <2>1, <2>5 DEF VisitNext
    <3>2. e = [agenda |-> b, marked |-> d.marked \cup {c.mark}, sorted |-> d.sorted]
      BY <1>1, <3>1
    <3>3. ks \in Seq(1..n) /\ Len(ks) \in Nat
      BY <2>2
    <3>4. /\ v \in Seq(Calls(n)) /\ Len(v) = Len(ks)
          /\ \A p \in 1..Len(ks) : v[p] = [mark |-> ks[p], push |-> FALSE]
      <4>. HIDE DEF ks
      <4>1. v = [p \in 1..Len(ks) |-> [mark |-> ks[p], push |-> FALSE]]
        BY <3>3 DEF Visits
      <4>2. \A p \in 1..Len(ks) : [mark |-> ks[p], push |-> FALSE] \in Calls(n)
        BY <3>3 DEF Calls
      <4>. QED  BY <3>3, <4>1, <4>2
    <3>6. /\ one \in Seq(Calls(n)) /\ Len(one) = 1 /\ one[1] = [mark |-> c.mark, push |-> TRUE]
      <4>1. [mark |-> c.mark, push |-> TRUE] \in Calls(n)
        BY <2>2 DEF Calls
      <4>. QED  BY <4>1
    <3>. HIDE DEF v, one, ks
    <3>7. /\ v \o one \in Seq(Calls(n)) /\ Len(v \o one) = Len(ks) + 1
          /\ \A p \in 1..Len(ks) : (v \o one)[p] = v[p]
          /\ (v \o one)[Len(ks) + 1] = one[1]
      <4>1. v \o one \in Seq(Calls(n)) /\ IsJoined(v \o one, v, one)
        BY <3>4, <3>6, Joined
      <4>2. 1 \in 1..1
        OBVIOUS
      <4>. HIDE DEF b
      <4>. QED  BY <3>3, <3>4, <3>6, <4>1, <4>2 DEF IsJoined
    <3>8. b \in Seq(Calls(n)) /\ IsJoined(b, v \o one, Tail(a))
      BY <2>1, <3>7, Joined
    <3>9. Opened(b, a, ks, c.mark)
      <4>1. /\ Len(Tail(a)) = Len(a) - 1 /\ Len(a) \in Nat
            /\ \A p \in 1..(Len(a) - 1) : Tail(a)[p] = a[p + 1]
        BY <1>1, <1>3, <2>1 DEF Dropped
      <4>. HIDE DEF b, a, c
      <4>2. Len(b) = Len(ks) + Len(a)
        <5>1. Len(b) = Len(v \o one) + Len(Tail(a))
          BY <3>8 DEF IsJoined
        <5>2. Len(b) = (Len(ks) + 1) + (Len(a) - 1)
          BY <3>7, <4>1, <5>1
        <5>3. Len(ks) \in Nat /\ Len(a) \in Nat
          BY <3>3, <4>1
        <5>. QED  BY <5>2, <5>3
      <4>3. \A p \in 1..(Len(ks) + 1) : b[p] = (v \o one)[p]
        BY <3>7, <3>8 DEF IsJoined
      <4>4. \A p \in 1..Len(ks) : b[p] = [mark |-> ks[p], push |-> FALSE]
        <5>1. 1..Len(ks) \subseteq 1..(Len(ks) + 1)
          BY <3>3
        <5>. QED  BY <3>4, <3>7, <4>3, <5>1
      <4>5. b[Len(ks) + 1] = [mark |-> c.mark, push |-> TRUE]
        <5>1. Len(ks) + 1 \in 1..(Len(ks) + 1)
          BY <3>3
        <5>. QED  BY <3>6, <3>7, <4>3, <5>1
      <4>6. ASSUME NEW p \in 2..Len(a)  PROVE b[Len(ks) + p] = a[p]
        <5>1. p - 1 \in 1..Len(Tail(a)) /\ (p - 1) + 1 = p /\ (Len(ks) + 1) + (p - 1) = Len(ks) + p
          BY <3>3, <4>1
        <5>2. b[(Len(ks) + 1) + (p - 1)] = Tail(a)[p - 1]
          BY <3>7, <3>8, <5>1 DEF IsJoined
        <5>. QED  BY <4>1, <5>1, <5>2
      <4>. QED  BY <4>2, <4>4, <4>5, <4>6 DEF Opened
    <3>10. e \in Visiting(n)
      <4>. HIDE DEF b
      <4>. QED  BY <1>1, <2>2, <3>2, <3>8 DEF Visiting
    <3>11. Opens(edges, d, e)
      <4>. HIDE DEF b
      <4>. QED  BY <1>3, <2>5, <3>2, <3>9 DEF Opens, ks
    <3>. QED  BY <3>10, <3>11
  <2>. QED  BY <2>2, <2>3, <2>4, <2>5
<1>. QED  BY <1>2, <1>3

\* Where the elements of an agenda are in the next one, and where they come from.
LEMMA DroppedPlaces ==
  ASSUME NEW T, NEW a \in Seq(T), NEW b \in Seq(T), Dropped(b, a), a # <<>>
  PROVE  /\ \A p \in 1..Len(b) : p + 1 \in 2..Len(a) /\ b[p] = a[p + 1]
         /\ \A p \in 1..Len(a) : p = 1 \/ (p - 1 \in 1..Len(b) /\ b[p - 1] = a[p])
<1>1. Len(a) \in Nat /\ Len(b) = Len(a) - 1 /\ \A p \in 1..Len(b) : b[p] = a[p + 1]
  BY DEF Dropped
<1>2. \A p \in 1..Len(b) : p + 1 \in 2..Len(a)
  BY <1>1
<1>3. \A p \in 1..Len(a) : p # 1 => p - 1 \in 1..Len(b) /\ (p - 1) + 1 = p
  BY <1>1
<1>. QED  BY <1>1, <1>2, <1>3

\* Where the calls of an agenda are after an opening.
LEMMA OpenedPlaces ==
  ASSUME NEW T, NEW S, NEW a \in Seq(T), NEW b \in Seq(T), NEW ks \in Seq(S), NEW k,
         Opened(b, a, ks, k), a # <<>>
  PROVE  /\ Len(ks) \in Nat /\ Len(a) \in Nat /\ Len(ks) + 1 \in 1..Len(b)
         /\ \A p \in 1..Len(ks) : p \in 1..Len(b)
         /\ \A p \in 2..Len(a) : Len(ks) + p \in 1..Len(b) /\ p \in 1..Len(a)
         /\ \A p \in 1..Len(a) : p = 1 \/ p \in 2..Len(a)
         /\ \A p \in 1..Len(b) : \/ p \in 1..Len(ks) \/ p = Len(ks) + 1
                                 \/ p - Len(ks) \in 2..Len(a) /\ Len(ks) + (p - Len(ks)) = p
<1>1. Len(a) \in Nat /\ Len(a) # 0 /\ Len(ks) \in Nat
  OBVIOUS
<1>2. Len(b) = Len(ks) + Len(a)
  BY DEF Opened
<1>. QED  BY <1>1, <1>2

(* A place is put on the sorted list once, and none is forgotten.          *)
VisitsAll(n, d) ==
  /\ d \in Visiting(n)
  /\ \A p, q \in 1..Len(d.sorted) : d.sorted[p] = d.sorted[q] => p = q
  /\ \A p \in 1..Len(d.sorted) : d.sorted[p] \in d.marked
  /\ \A p \in 1..Len(d.agenda) : d.agenda[p].push =>
       /\ d.agenda[p].mark \in d.marked
       /\ \A q \in 1..Len(d.sorted) : d.sorted[q] # d.agenda[p].mark
  /\ \A p, q \in 1..Len(d.agenda) :
       d.agenda[p].push /\ d.agenda[q].push /\ d.agenda[p].mark = d.agenda[q].mark => p = q
  /\ \A k \in d.marked :
       \/ \E p \in 1..Len(d.sorted) : d.sorted[p] = k
       \/ \E p \in 1..Len(d.agenda) : d.agenda[p].push /\ d.agenda[p].mark = k
  /\ \A k \in 1..n : k \in d.marked \/ \E p \in 1..Len(d.agenda) : d.agenda[p].mark = k

\* No place is lost or visited twice.
LEMMA VisitKeeps ==
  ASSUME NEW n \in Nat, NEW edges \in [1..n -> Seq(1..n)], NEW d, VisitsAll(n, d),
         NEW e, e = VisitNext(edges, d)
  PROVE  VisitsAll(n, e)
<1>. DEFINE A == d.agenda
            B == e.agenda
            S == d.sorted
            S1 == e.sorted
            k == A[1].mark
<1>1. d \in Visiting(n)
  BY DEF VisitsAll
<1>2. e \in Visiting(n)
  BY <1>1, VisitKinds
<1>3. A \in Seq(Calls(n)) /\ B \in Seq(Calls(n)) /\ S \in Seq(1..n) /\ S1 \in Seq(1..n)
  BY <1>1, <1>2 DEF Visiting
<1>4. Len(A) \in Nat /\ Len(B) \in Nat /\ Len(S) \in Nat /\ (A # <<>> => 1 \in 1..Len(A))
  BY <1>3
<1>. HIDE DEF A, B, S, S1
<1>5. /\ \A p, q \in 1..Len(S) : S[p] = S[q] => p = q
      /\ \A p \in 1..Len(S) : S[p] \in d.marked
      /\ \A p \in 1..Len(A) : A[p].push =>
           A[p].mark \in d.marked /\ \A q \in 1..Len(S) : S[q] # A[p].mark
      /\ \A p, q \in 1..Len(A) : A[p].push /\ A[q].push /\ A[p].mark = A[q].mark => p = q
      /\ \A j \in d.marked : \/ \E p \in 1..Len(S) : S[p] = j
                             \/ \E p \in 1..Len(A) : A[p].push /\ A[p].mark = j
      /\ \A j \in 1..n : j \in d.marked \/ \E p \in 1..Len(A) : A[p].mark = j
  BY DEF VisitsAll, A, S
<1>. DEFINE Goal ==
        /\ \A p, q \in 1..Len(S1) : S1[p] = S1[q] => p = q
        /\ \A p \in 1..Len(S1) : S1[p] \in e.marked
        /\ \A p \in 1..Len(B) : B[p].push =>
             B[p].mark \in e.marked /\ \A q \in 1..Len(S1) : S1[q] # B[p].mark
        /\ \A p, q \in 1..Len(B) : B[p].push /\ B[q].push /\ B[p].mark = B[q].mark => p = q
        /\ \A j \in e.marked : \/ \E p \in 1..Len(S1) : S1[p] = j
                               \/ \E p \in 1..Len(B) : B[p].push /\ B[p].mark = j
        /\ \A j \in 1..n : j \in e.marked \/ \E p \in 1..Len(B) : B[p].mark = j
<1>6. SUFFICES Goal
  BY <1>2 DEF VisitsAll, B, S1
<1>7. CASE A = <<>> /\ e = d
  BY <1>5, <1>7 DEF A, B, S, S1
<1>8. CASE Pushes(d, e)
  <2>1. A # <<>> /\ A[1].push /\ Dropped(B, A) /\ e.marked = d.marked /\ S1 = Append(S, k)
    BY <1>8 DEF Pushes, A, B, S, S1
  <2>2. /\ \A p \in 1..Len(B) : p + 1 \in 2..Len(A) /\ B[p] = A[p + 1]
        /\ \A p \in 1..Len(A) : p = 1 \/ (p - 1 \in 1..Len(B) /\ B[p - 1] = A[p])
    BY <1>3, <2>1, DroppedPlaces
  <2>3. \A p \in 1..Len(B) : p + 1 \in 1..Len(A) /\ p + 1 # 1
    BY <1>4, <2>2
  <2>4. k \in d.marked /\ \A q \in 1..Len(S) : S[q] # k
    BY <1>4, <1>5, <2>1
  <2>5. /\ Len(S1) = Len(S) + 1 /\ S1[Len(S) + 1] = k /\ \A p \in 1..Len(S) : S1[p] = S[p]
        /\ \A p \in 1..Len(S1) : p = Len(S) + 1 \/ p \in 1..Len(S)
        /\ \A p \in 1..Len(S) : p \in 1..Len(S1)
        /\ Len(S) + 1 \in 1..Len(S1)
    <3>1. k \in 1..n
      BY <1>3, <1>4, <2>1 DEF Calls
    <3>2. Len(S1) = Len(S) + 1 /\ S1[Len(S) + 1] = k /\ \A p \in 1..Len(S) : S1[p] = S[p]
      BY <1>3, <2>1, <3>1
    <3>. QED  BY <1>4, <3>2
  <2>6. \A p, q \in 1..Len(S1) : S1[p] = S1[q] => p = q
    <3>1. ASSUME NEW p \in 1..Len(S1), NEW q \in 1..Len(S1), S1[p] = S1[q]  PROVE p = q
      <4>1. CASE p \in 1..Len(S) /\ q \in 1..Len(S)
        <5>1. S[p] = S[q]
          BY <2>5, <3>1, <4>1
        <5>. QED  BY <1>5, <4>1, <5>1
      <4>2. CASE p = Len(S) + 1 /\ q \in 1..Len(S)
        BY <2>4, <2>5, <3>1, <4>2
      <4>3. CASE q = Len(S) + 1 /\ p \in 1..Len(S)
        BY <2>4, <2>5, <3>1, <4>3
      <4>. QED  BY <2>5, <4>1, <4>2, <4>3
    <3>. QED  BY <3>1
  <2>7. \A p \in 1..Len(S1) : S1[p] \in e.marked
    BY <1>5, <2>1, <2>4, <2>5
  <2>8. ASSUME NEW p \in 1..Len(B), B[p].push
        PROVE  B[p].mark \in e.marked /\ \A q \in 1..Len(S1) : S1[q] # B[p].mark
    <3>1. A[p + 1].push /\ p + 1 \in 1..Len(A) /\ B[p] = A[p + 1]
      BY <2>2, <2>3, <2>8
    <3>2. A[p + 1].mark # k
      BY <1>4, <1>5, <2>1, <2>3, <3>1
    <3>. QED  BY <1>5, <2>1, <2>5, <3>1, <3>2
  <2>9. ASSUME NEW p \in 1..Len(B), NEW q \in 1..Len(B), B[p].push, B[q].push, B[p].mark = B[q].mark
        PROVE  p = q
    <3>1. p + 1 \in 1..Len(A) /\ A[p + 1].push /\ A[p + 1].mark = B[p].mark
      BY <2>2, <2>3, <2>9
    <3>2. q + 1 \in 1..Len(A) /\ A[q + 1].push /\ A[q + 1].mark = B[p].mark
      BY <2>2, <2>3, <2>9
    <3>3. p + 1 = q + 1
      BY <1>5, <3>1, <3>2
    <3>. QED  BY <3>3
  <2>10. ASSUME NEW j \in e.marked
         PROVE  \/ \E p \in 1..Len(S1) : S1[p] = j
                \/ \E p \in 1..Len(B) : B[p].push /\ B[p].mark = j
    <3>1. CASE \E p \in 1..Len(S) : S[p] = j
      BY <2>5, <3>1
    <3>2. CASE \E p \in 1..Len(A) : A[p].push /\ A[p].mark = j
      <4>1. PICK p \in 1..Len(A) : A[p].push /\ A[p].mark = j
        BY <3>2
      <4>. QED  BY <2>2, <2>5, <4>1
    <3>. QED  BY <1>5, <2>1, <3>1, <3>2
  <2>11. ASSUME NEW j \in 1..n, j \notin e.marked  PROVE \E p \in 1..Len(B) : B[p].mark = j
    <3>1. PICK p \in 1..Len(A) : A[p].mark = j
      BY <1>5, <2>1, <2>11
    <3>. QED  BY <2>1, <2>2, <2>4, <2>11, <3>1
  <2>. QED  BY <2>6, <2>7, <2>8, <2>9, <2>10, <2>11
<1>9. CASE Skips(d, e)
  <2>1. /\ A # <<>> /\ ~A[1].push /\ k \in d.marked /\ Dropped(B, A)
        /\ e.marked = d.marked /\ S1 = S
    BY <1>9 DEF Skips, A, B, S, S1
  <2>2. /\ \A p \in 1..Len(B) : p + 1 \in 2..Len(A) /\ B[p] = A[p + 1]
        /\ \A p \in 1..Len(A) : p = 1 \/ (p - 1 \in 1..Len(B) /\ B[p - 1] = A[p])
    BY <1>3, <2>1, DroppedPlaces
  <2>3. \A p \in 1..Len(B) : p + 1 \in 1..Len(A)
    BY <1>4, <2>2
  <2>4. ASSUME NEW p \in 1..Len(B), NEW q \in 1..Len(B), B[p].push, B[q].push, B[p].mark = B[q].mark
        PROVE  p = q
    <3>1. p + 1 \in 1..Len(A) /\ A[p + 1].push /\ A[p + 1].mark = B[p].mark
      BY <2>2, <2>3, <2>4
    <3>2. q + 1 \in 1..Len(A) /\ A[q + 1].push /\ A[q + 1].mark = B[p].mark
      BY <2>2, <2>3, <2>4
    <3>3. p + 1 = q + 1
      BY <1>5, <3>1, <3>2
    <3>. QED  BY <3>3
  <2>5. ASSUME NEW p \in 1..Len(B), B[p].push
        PROVE  B[p].mark \in e.marked /\ \A q \in 1..Len(S1) : S1[q] # B[p].mark
    <3>1. A[p + 1].push /\ p + 1 \in 1..Len(A) /\ B[p] = A[p + 1]
      BY <2>2, <2>3, <2>5
    <3>. QED  BY <1>5, <2>1, <3>1
  <2>6. ASSUME NEW j \in e.marked
        PROVE  \/ \E p \in 1..Len(S1) : S1[p] = j
               \/ \E p \in 1..Len(B) : B[p].push /\ B[p].mark = j
    <3>1. CASE \E p \in 1..Len(A) : A[p].push /\ A[p].mark = j
      <4>1. PICK p \in 1..Len(A) : A[p].push /\ A[p].mark = j
        BY <3>1
      <4>. QED  BY <2>1, <2>2, <4>1
    <3>. QED  BY <1>5, <2>1, <3>1
  <2>7. ASSUME NEW j \in 1..n, j \notin e.marked  PROVE \E p \in 1..Len(B) : B[p].mark = j
    <3>1. PICK p \in 1..Len(A) : A[p].mark = j
      BY <1>5, <2>1, <2>7
    <3>. QED  BY <2>1, <2>2, <2>7, <3>1
  <2>8. /\ \A p, q \in 1..Len(S1) : S1[p] = S1[q] => p = q
        /\ \A p \in 1..Len(S1) : S1[p] \in e.marked
    BY <1>5, <2>1
  <2>. QED  BY <2>4, <2>5, <2>6, <2>7, <2>8
<1>10. CASE Opens(edges, d, e)
  <2>. DEFINE ks == edges[k]
  <2>1. /\ A # <<>> /\ ~A[1].push /\ k \notin d.marked /\ Opened(B, A, ks, k)
        /\ e.marked = d.marked \cup {k} /\ S1 = S
    BY <1>10 DEF Opens, A, B, S, S1
  <2>2. ks \in Seq(1..n)
    <3>1. A[1] \in Calls(n)
      BY <1>3, <1>4, <2>1
    <3>2. k \in 1..n
      BY <3>1 DEF Calls
    <3>. QED  BY <3>2
  <2>. HIDE DEF ks, k
  <2>3. /\ \A p \in 1..Len(ks) : B[p].mark = ks[p] /\ B[p].push = FALSE
        /\ B[Len(ks) + 1].mark = k /\ B[Len(ks) + 1].push = TRUE
        /\ \A p \in 2..Len(A) : B[Len(ks) + p] = A[p]
    <3>1. /\ \A p \in 1..Len(ks) : B[p] = [mark |-> ks[p], push |-> FALSE]
          /\ B[Len(ks) + 1] = [mark |-> k, push |-> TRUE]
      BY <2>1 DEF Opened
    <3>2. \A p \in 2..Len(A) : B[Len(ks) + p] = A[p]
      BY <2>1 DEF Opened
    <3>3. ASSUME NEW p \in 1..Len(ks)  PROVE B[p].mark = ks[p] /\ B[p].push = FALSE
      <4>1. B[p] = [mark |-> ks[p], push |-> FALSE]
        BY <3>1
      <4>. QED  BY <4>1
    <3>4. B[Len(ks) + 1].mark = k /\ B[Len(ks) + 1].push = TRUE
      <4>1. B[Len(ks) + 1] = [mark |-> k, push |-> TRUE]
        BY <3>1
      <4>. QED  BY <4>1
    <3>. QED  BY <3>2, <3>3, <3>4
  <2>4. /\ Len(ks) \in Nat /\ Len(A) \in Nat /\ Len(ks) + 1 \in 1..Len(B)
        /\ \A p \in 1..Len(ks) : p \in 1..Len(B)
        /\ \A p \in 2..Len(A) : Len(ks) + p \in 1..Len(B) /\ p \in 1..Len(A)
        /\ \A p \in 1..Len(A) : p = 1 \/ p \in 2..Len(A)
        /\ \A p \in 1..Len(B) : \/ p \in 1..Len(ks) \/ p = Len(ks) + 1
                                \/ p - Len(ks) \in 2..Len(A) /\ Len(ks) + (p - Len(ks)) = p
    BY <1>3, <2>1, <2>2, OpenedPlaces
  <2>5. ASSUME NEW p \in 1..Len(B), B[p].push
        PROVE  \/ p = Len(ks) + 1 /\ B[p].mark = k
               \/ /\ p - Len(ks) \in 2..Len(A) /\ p - Len(ks) \in 1..Len(A) /\ B[p] = A[p - Len(ks)]
                  /\ A[p - Len(ks)].mark \in d.marked
    <3>1. p \notin 1..Len(ks)
      BY <2>3, <2>5
    <3>2. CASE p = Len(ks) + 1
      BY <2>3, <3>2
    <3>3. CASE p - Len(ks) \in 2..Len(A) /\ Len(ks) + (p - Len(ks)) = p
      <4>1. B[p] = A[p - Len(ks)] /\ p - Len(ks) \in 1..Len(A)
        BY <2>3, <2>4, <3>3
      <4>2. A[p - Len(ks)].push
        BY <2>5, <4>1
      <4>. QED  BY <1>5, <3>3, <4>1, <4>2
    <3>. QED  BY <2>4, <3>1, <3>2, <3>3
  <2>6. ASSUME NEW p \in 1..Len(B), B[p].push
        PROVE  B[p].mark \in e.marked /\ \A q \in 1..Len(S1) : S1[q] # B[p].mark
    <3>1. CASE B[p].mark = k
      BY <1>5, <2>1, <3>1
    <3>2. CASE B[p].mark # k
      <4>. DEFINE m == p - Len(ks)
      <4>1. m \in 1..Len(A) /\ B[p] = A[m] /\ A[m].push
        BY <2>5, <2>6, <3>2
      <4>. HIDE DEF m
      <4>. QED  BY <1>5, <2>1, <4>1
    <3>. QED  BY <3>1, <3>2
  <2>7. ASSUME NEW p \in 1..Len(B), NEW q \in 1..Len(B), B[p].push, B[q].push, B[p].mark = B[q].mark
        PROVE  p = q
    <3>1. CASE B[p].mark = k
      <4>1. B[q].mark = k
        BY <2>7, <3>1
      <4>2. p = Len(ks) + 1
        BY <2>1, <2>5, <2>7, <3>1
      <4>3. q = Len(ks) + 1
        BY <2>1, <2>5, <2>7, <4>1
      <4>. QED  BY <4>2, <4>3
    <3>2. CASE B[p].mark # k
      <4>. DEFINE m == p - Len(ks)
                  l == q - Len(ks)
      <4>1. m \in 1..Len(A) /\ B[p] = A[m]
        BY <2>5, <2>7, <3>2
      <4>2. l \in 1..Len(A) /\ B[q] = A[l]
        BY <2>5, <2>7, <3>2
      <4>3. m = l => p = q
        BY <2>4
      <4>. HIDE DEF m, l
      <4>. QED  BY <1>5, <2>7, <4>1, <4>2, <4>3, SMTT(30)
    <3>. QED  BY <3>1, <3>2
  <2>8. ASSUME NEW j \in e.marked
        PROVE  \/ \E p \in 1..Len(S1) : S1[p] = j
               \/ \E p \in 1..Len(B) : B[p].push /\ B[p].mark = j
    <3>1. CASE j = k
      BY <2>3, <2>4, <3>1
    <3>2. CASE j # k /\ \E p \in 1..Len(S) : S[p] = j
      BY <2>1, <3>2
    <3>3. CASE j # k /\ \E p \in 1..Len(A) : A[p].push /\ A[p].mark = j
      <4>1. PICK p \in 1..Len(A) : A[p].push /\ A[p].mark = j
        BY <3>3
      <4>2. p \in 2..Len(A)
        BY <2>1, <2>4, <4>1
      <4>. QED  BY <2>3, <2>4, <4>1, <4>2
    <3>. QED  BY <1>5, <2>1, <3>1, <3>2, <3>3
  <2>9. ASSUME NEW j \in 1..n, j \notin e.marked  PROVE \E p \in 1..Len(B) : B[p].mark = j
    <3>1. PICK p \in 1..Len(A) : A[p].mark = j
      BY <1>5, <2>1, <2>9
    <3>2. p \in 2..Len(A)
      BY <2>1, <2>4, <2>9, <3>1 DEF k
    <3>. QED  BY <2>3, <2>4, <3>1, <3>2
  <2>10. \A p \in 1..Len(S1) : S1[p] \in e.marked
    BY <1>5, <2>1
  <2>. QED  BY <1>5, <2>1, <2>6, <2>7, <2>8, <2>9, <2>10
<1>. QED  BY <1>1, <1>7, <1>8, <1>9, <1>10, VisitKinds DEF A

(* Where a rank has the edges of every place come before it, they do.      *)
Ranked(n, edges, r) ==
  /\ r \in [1..n -> Nat]
  /\ \A k \in 1..n : \A m \in ToSet(edges[k]) : m \in 1..n /\ r[m] < r[k]
\* What is done and what is to be done have the order of the edges.
VisitsInOrder(edges, r, d) ==
  /\ \A p \in 1..Len(d.agenda) : d.agenda[p].push => \A m \in ToSet(edges[d.agenda[p].mark]) :
       \/ \E q \in 1..Len(d.sorted) : d.sorted[q] = m
       \/ \E q \in 1..(p - 1) : d.agenda[q].mark = m
  /\ \A p \in 1..Len(d.agenda) : d.agenda[p].push =>
       \A q \in 1..(p - 1) : r[d.agenda[q].mark] < r[d.agenda[p].mark]
  /\ \A p \in 1..Len(d.sorted) : \A m \in ToSet(edges[d.sorted[p]]) :
       \E q \in 1..(p - 1) : d.sorted[q] = m

\* A place is pushed after those before it, if they can be put in an order.
LEMMA VisitKeepsOrder ==
  ASSUME NEW n \in Nat, NEW edges \in [1..n -> Seq(1..n)], NEW r, Ranked(n, edges, r),
         NEW d, VisitsAll(n, d), VisitsInOrder(edges, r, d), NEW e, e = VisitNext(edges, d)
  PROVE  VisitsInOrder(edges, r, e)
<1>. DEFINE A == d.agenda
            B == e.agenda
            S == d.sorted
            S1 == e.sorted
            k == A[1].mark
            E(j) == ToSet(edges[j])
<1>1. d \in Visiting(n)
  BY DEF VisitsAll
<1>2. e \in Visiting(n)
  BY <1>1, VisitKinds
<1>3. A \in Seq(Calls(n)) /\ B \in Seq(Calls(n)) /\ S \in Seq(1..n) /\ S1 \in Seq(1..n)
  BY <1>1, <1>2 DEF Visiting
<1>4. Len(A) \in Nat /\ Len(B) \in Nat /\ Len(S) \in Nat /\ (A # <<>> => 1 \in 1..Len(A))
  BY <1>3, SMTT(30)
<1>. HIDE DEF A, B, S, S1
<1>5. \A p \in 1..Len(A) : A[p].mark \in 1..n
  <2>1. \A p \in 1..Len(A) : A[p] \in Calls(n)
    BY <1>3
  <2>. QED  BY <2>1 DEF Calls
<1>6. /\ r \in [1..n -> Nat]
      /\ \A j \in 1..n : \A m \in E(j) : m \in 1..n /\ r[m] < r[j]
  BY DEF Ranked
<1>. HIDE DEF E
<1>7. /\ \A p \in 1..Len(A) : A[p].push => \A m \in E(A[p].mark) :
           \/ \E q \in 1..Len(S) : S[q] = m
           \/ \E q \in 1..(p - 1) : A[q].mark = m
      /\ \A p \in 1..Len(A) : A[p].push => \A q \in 1..(p - 1) : r[A[q].mark] < r[A[p].mark]
      /\ \A p \in 1..Len(S) : \A m \in E(S[p]) : \E q \in 1..(p - 1) : S[q] = m
  BY DEF VisitsInOrder, A, S, E
<1>8. /\ \A p, q \in 1..Len(A) : A[p].push /\ A[q].push /\ A[p].mark = A[q].mark => p = q
      /\ \A j \in d.marked : \/ \E p \in 1..Len(S) : S[p] = j
                             \/ \E p \in 1..Len(A) : A[p].push /\ A[p].mark = j
  BY DEF VisitsAll, A, S
<1>. DEFINE Ahead == \A p \in 1..Len(B) : B[p].push => \A m \in E(B[p].mark) :
                       \/ \E q \in 1..Len(S1) : S1[q] = m
                       \/ \E q \in 1..(p - 1) : B[q].mark = m
            Lower == \A p \in 1..Len(B) : B[p].push => \A q \in 1..(p - 1) : r[B[q].mark] < r[B[p].mark]
            Sorts == \A p \in 1..Len(S1) : \A m \in E(S1[p]) : \E q \in 1..(p - 1) : S1[q] = m
<1>9. SUFFICES Ahead /\ Lower /\ Sorts
  BY DEF VisitsInOrder, B, S1, E
<1>14. ASSUME S1 = S  PROVE Sorts
  <2>. SUFFICES ASSUME NEW p \in 1..Len(S), NEW m \in E(S[p])  PROVE \E q \in 1..(p - 1) : S[q] = m
    BY <1>14
  <2>. QED  BY <1>7
<1>10. CASE A = <<>> /\ e = d
  <2>1. A = B /\ S1 = S
    BY <1>10 DEF A, B, S, S1
  <2>2. Ahead
    <3>. SUFFICES ASSUME NEW p \in 1..Len(B), B[p].push, NEW m \in E(B[p].mark)
                  PROVE  \/ \E q \in 1..Len(S1) : S1[q] = m
                         \/ \E q \in 1..(p - 1) : B[q].mark = m
      OBVIOUS
    <3>1. p \in 1..Len(A) /\ A[p].push /\ m \in E(A[p].mark)
      BY <2>1
    <3>2. \/ \E q \in 1..Len(S) : S[q] = m
          \/ \E q \in 1..(p - 1) : A[q].mark = m
      BY <1>7, <3>1
    <3>. QED  BY <2>1, <3>2
  <2>3. Lower
    BY <1>7, <2>1
  <2>. QED  BY <1>14, <2>1, <2>2, <2>3
<1>11. CASE Pushes(d, e)
  <2>1. A # <<>> /\ A[1].push /\ Dropped(B, A) /\ S1 = Append(S, k)
    BY <1>11 DEF Pushes, A, B, S, S1
  <2>2. /\ \A p \in 1..Len(B) : p + 1 \in 2..Len(A) /\ B[p] = A[p + 1]
        /\ \A p \in 1..Len(A) : p = 1 \/ (p - 1 \in 1..Len(B) /\ B[p - 1] = A[p])
    BY <1>3, <2>1, DroppedPlaces
  <2>3. /\ Len(S1) = Len(S) + 1 /\ S1[Len(S) + 1] = k /\ \A p \in 1..Len(S) : S1[p] = S[p]
        /\ \A p \in 1..Len(S1) : p = Len(S) + 1 \/ p \in 1..Len(S)
        /\ \A p \in 1..Len(S) : p \in 1..Len(S1)
        /\ Len(S) + 1 \in 1..Len(S1)
    <3>1. k \in 1..n
      BY <1>4, <1>5, <2>1
    <3>. HIDE DEF k
    <3>2. Len(S1) = Len(S) + 1 /\ S1[Len(S) + 1] = k /\ \A p \in 1..Len(S) : S1[p] = S[p]
      BY <1>3, <2>1, <3>1
    <3>. QED  BY <1>4, <3>2
  <2>4. Ahead
    <3>. SUFFICES ASSUME NEW p \in 1..Len(B), B[p].push, NEW m \in E(B[p].mark)
                  PROVE  \/ \E q \in 1..Len(S1) : S1[q] = m
                         \/ \E q \in 1..(p - 1) : B[q].mark = m
      OBVIOUS
    <3>1. p + 1 \in 1..Len(A) /\ A[p + 1] = B[p] /\ (p + 1) - 1 = p
      BY <1>4, <2>2
    <3>2. CASE \E q \in 1..Len(S) : S[q] = m
      BY <2>3, <3>2
    <3>3. CASE \E q \in 1..p : A[q].mark = m
      <4>1. PICK q \in 1..p : A[q].mark = m
        BY <3>3
      <4>2. CASE q = 1
        BY <2>3, <4>1, <4>2
      <4>3. CASE q # 1
        <5>1. q \in 1..Len(A) /\ q - 1 \in 1..(p - 1)
          BY <1>4, <3>1, <4>3
        <5>. QED  BY <2>2, <4>1, <4>3, <5>1
      <4>. QED  BY <4>2, <4>3
    <3>4. \/ \E q \in 1..Len(S) : S[q] = m
          \/ \E q \in 1..((p + 1) - 1) : A[q].mark = m
      BY <1>7, <3>1
    <3>. QED  BY <3>1, <3>2, <3>3, <3>4
  <2>5. Lower
    <3>. SUFFICES ASSUME NEW p \in 1..Len(B), B[p].push, NEW q \in 1..(p - 1)
                  PROVE  r[B[q].mark] < r[B[p].mark]
      OBVIOUS
    <3>1. p + 1 \in 1..Len(A) /\ A[p + 1] = B[p] /\ q + 1 \in 1..((p + 1) - 1)
      BY <1>4, <2>2
    <3>2. A[q + 1] = B[q]
      <4>1. q \in 1..Len(B)
        BY <1>4
      <4>. QED  BY <2>2, <4>1
    <3>. QED  BY <1>7, <3>1, <3>2
  <2>6. Sorts
    <3>. SUFFICES ASSUME NEW p \in 1..Len(S1), NEW m \in E(S1[p])
                  PROVE  \E q \in 1..(p - 1) : S1[q] = m
      OBVIOUS
    <3>1. CASE p \in 1..Len(S)
      <4>1. PICK q \in 1..(p - 1) : S[q] = m
        BY <1>7, <2>3, <3>1
      <4>2. q \in 1..Len(S)
        BY <1>4, <3>1
      <4>. QED  BY <2>3, <4>1, <4>2
    <3>2. CASE p = Len(S) + 1
      <4>1. \/ \E q \in 1..Len(S) : S[q] = m
            \/ \E q \in 1..(1 - 1) : A[q].mark = m
        <5>1. A[1].push /\ 1 \in 1..Len(A) /\ m \in E(A[1].mark)
          BY <1>4, <2>1, <2>3, <3>2
        <5>. QED  BY <1>7, <5>1
      <4>2. \A q \in 1..(1 - 1) : FALSE
        OBVIOUS
      <4>3. PICK q \in 1..Len(S) : S[q] = m
        BY <4>1, <4>2
      <4>4. p - 1 = Len(S)
        BY <1>4, <3>2
      <4>. QED  BY <2>3, <4>3, <4>4
    <3>. QED  BY <2>3, <3>1, <3>2
  <2>. QED  BY <2>4, <2>5, <2>6
<1>12. CASE Skips(d, e)
  <2>1. A # <<>> /\ ~A[1].push /\ k \in d.marked /\ Dropped(B, A) /\ S1 = S
    BY <1>12 DEF Skips, A, B, S, S1
  <2>2. /\ \A p \in 1..Len(B) : p + 1 \in 2..Len(A) /\ B[p] = A[p + 1]
        /\ \A p \in 1..Len(A) : p = 1 \/ (p - 1 \in 1..Len(B) /\ B[p - 1] = A[p])
    BY <1>3, <2>1, DroppedPlaces
  <2>3. Ahead
    <3>. SUFFICES ASSUME NEW p \in 1..Len(B), B[p].push, NEW m \in E(B[p].mark)
                  PROVE  \/ \E q \in 1..Len(S1) : S1[q] = m
                         \/ \E q \in 1..(p - 1) : B[q].mark = m
      OBVIOUS
    <3>1. p + 1 \in 1..Len(A) /\ A[p + 1] = B[p] /\ (p + 1) - 1 = p
      BY <1>4, <2>2
    <3>2. ASSUME NEW q \in 1..p, A[q].mark = m, q # 1  PROVE \E l \in 1..(p - 1) : B[l].mark = m
      <4>1. q \in 1..Len(A) /\ q - 1 \in 1..(p - 1)
        BY <1>4, <3>1, <3>2
      <4>. QED  BY <2>2, <3>2, <4>1
    <3>3. CASE \E q \in 1..Len(S) : S[q] = m
      BY <2>1, <3>3
    <3>4. CASE \E q \in 1..p : A[q].mark = m
      <4>1. PICK q \in 1..p : A[q].mark = m
        BY <3>4
      <4>2. CASE q # 1
        BY <3>2, <4>1, <4>2
      <4>3. CASE q = 1 /\ ~\E l \in 1..Len(S) : S[l] = m
        <5>1. m = k
          BY <4>1, <4>3
        <5>2. PICK l \in 1..Len(A) : A[l].push /\ A[l].mark = m
          BY <1>8, <2>1, <4>3, <5>1
        <5>3. l # 1
          BY <2>1, <5>2
        <5>4. r[m] < r[A[p + 1].mark] /\ m \in 1..n /\ A[p + 1].mark \in 1..n
          BY <1>5, <1>6, <3>1
        <5>5. r[m] \in Nat /\ r[A[p + 1].mark] \in Nat
          BY <1>6, <5>4
        <5>6. ~(p + 1 \in 1..(l - 1))
          <6>1. p + 1 \in 1..(l - 1) => r[A[p + 1].mark] < r[m]
            BY <1>7, <5>2
          <6>. QED  BY <5>4, <5>5, <6>1
        <5>7. l # p + 1
          <6>1. l = p + 1 => r[m] < r[m]
            BY <5>2, <5>4
          <6>. QED  BY <5>5, <6>1
        <5>8. l \in 1..p
          BY <1>4, <3>1, <5>6, <5>7
        <5>. QED  BY <3>2, <5>2, <5>3, <5>8
      <4>. QED  BY <3>3, <4>2, <4>3
    <3>5. \/ \E q \in 1..Len(S) : S[q] = m
          \/ \E q \in 1..((p + 1) - 1) : A[q].mark = m
      BY <1>7, <3>1
    <3>. QED  BY <3>1, <3>3, <3>4, <3>5
  <2>4. Lower
    <3>. SUFFICES ASSUME NEW p \in 1..Len(B), B[p].push, NEW q \in 1..(p - 1)
                  PROVE  r[B[q].mark] < r[B[p].mark]
      OBVIOUS
    <3>1. p + 1 \in 1..Len(A) /\ A[p + 1] = B[p] /\ q + 1 \in 1..((p + 1) - 1)
      BY <1>4, <2>2
    <3>2. A[q + 1] = B[q]
      <4>1. q \in 1..Len(B)
        BY <1>4
      <4>. QED  BY <2>2, <4>1
    <3>. QED  BY <1>7, <3>1, <3>2
  <2>5. Sorts
    BY <1>14, <2>1
  <2>. QED  BY <2>3, <2>4, <2>5
<1>13. CASE Opens(edges, d, e)
  <2>. DEFINE ks == edges[k]
              L == Len(ks)
  <2>1. A # <<>> /\ ~A[1].push /\ Opened(B, A, ks, k) /\ S1 = S
    BY <1>13 DEF Opens, A, B, S, S1
  <2>2. k \in 1..n /\ ks \in Seq(1..n)
    BY <1>4, <1>5, <2>1
  <2>3. /\ \A p \in 1..L : ks[p] \in E(k)
        /\ \A m \in E(k) : \E p \in 1..L : ks[p] = m
    BY <2>2 DEF E, ToSet
  <2>4. A[1].mark = k
    OBVIOUS
  <2>. HIDE DEF ks, k
  <2>5. /\ \A p \in 1..L : B[p].mark = ks[p] /\ B[p].push = FALSE
        /\ B[L + 1].mark = k
        /\ \A p \in 2..Len(A) : B[L + p] = A[p]
    <3>1. /\ \A p \in 1..Len(ks) : B[p] = [mark |-> ks[p], push |-> FALSE]
          /\ B[Len(ks) + 1] = [mark |-> k, push |-> TRUE]
      BY <2>1 DEF Opened
    <3>2. \A p \in 2..Len(A) : B[Len(ks) + p] = A[p]
      BY <2>1 DEF Opened
    <3>3. ASSUME NEW p \in 1..Len(ks)  PROVE B[p].mark = ks[p] /\ B[p].push = FALSE
      <4>1. B[p] = [mark |-> ks[p], push |-> FALSE]
        BY <3>1
      <4>. QED  BY <4>1
    <3>4. B[Len(ks) + 1].mark = k
      <4>1. B[Len(ks) + 1] = [mark |-> k, push |-> TRUE]
        BY <3>1
      <4>. QED  BY <4>1
    <3>. QED  BY <3>2, <3>3, <3>4
  <2>6. /\ L \in Nat /\ Len(A) \in Nat
        /\ \A p \in 1..Len(A) : p = 1 \/ p \in 2..Len(A)
        /\ \A p \in 1..Len(B) : \/ p \in 1..L \/ p = L + 1
                                \/ p - L \in 2..Len(A) /\ L + (p - L) = p
    BY <1>3, <2>1, <2>2, OpenedPlaces
  <2>. HIDE DEF L
  <2>7. ASSUME NEW p \in 1..Len(B), B[p].push, p # L + 1, NEW h, h = p - L
        PROVE  h \in 2..Len(A) /\ h \in 1..Len(A) /\ L + h = p /\ B[p] = A[h] /\ A[h].push
    <3>1. p \notin 1..L
      BY <2>5, <2>7
    <3>2. h \in 2..Len(A) /\ L + h = p
      BY <2>6, <2>7, <3>1
    <3>3. B[p] = A[h] /\ h \in 1..Len(A)
      BY <2>5, <2>6, <3>2
    <3>. QED  BY <2>7, <3>2, <3>3
  <2>8. Ahead
    <3>. SUFFICES ASSUME NEW p \in 1..Len(B), B[p].push, NEW m \in E(B[p].mark)
                  PROVE  \/ \E q \in 1..Len(S1) : S1[q] = m
                         \/ \E q \in 1..(p - 1) : B[q].mark = m
      OBVIOUS
    <3>1. CASE p = L + 1
      <4>1. PICK q \in 1..L : ks[q] = m
        BY <2>3, <2>5, <3>1
      <4>2. q \in 1..(p - 1)
        BY <2>6, <3>1
      <4>. QED  BY <2>5, <4>1, <4>2
    <3>2. CASE p # L + 1
      <4>. DEFINE h == p - L
      <4>1. h \in 2..Len(A) /\ h \in 1..Len(A) /\ L + h = p /\ B[p] = A[h] /\ A[h].push
        BY <2>7, <3>2
      <4>. HIDE DEF h
      <4>2. \/ \E q \in 1..Len(S) : S[q] = m
            \/ \E q \in 1..(h - 1) : A[q].mark = m
        BY <1>7, <4>1
      <4>3. ASSUME NEW q \in 1..(h - 1), A[q].mark = m  PROVE \E j \in 1..(p - 1) : B[j].mark = m
        <5>1. CASE q = 1
          <6>1. L + 1 \in 1..(p - 1)
            BY <2>6, <4>1
          <6>. QED  BY <2>4, <2>5, <4>3, <5>1, <6>1
        <5>2. CASE q # 1
          <6>1. q \in 2..Len(A) /\ L + q \in 1..(p - 1)
            BY <2>6, <4>1, <5>2
          <6>. QED  BY <2>5, <4>3, <6>1
        <5>. QED  BY <5>1, <5>2
      <4>. QED  BY <2>1, <4>2, <4>3
    <3>. QED  BY <3>1, <3>2
  <2>9. Lower
    <3>. SUFFICES ASSUME NEW p \in 1..Len(B), B[p].push, NEW q \in 1..(p - 1)
                  PROVE  r[B[q].mark] < r[B[p].mark]
      OBVIOUS
    <3>1. \A j \in 1..L : r[ks[j]] < r[k] /\ ks[j] \in 1..n
      BY <1>6, <2>2, <2>3
    <3>2. CASE p = L + 1
      <4>1. q \in 1..L
        BY <2>6, <3>2
      <4>. QED  BY <2>5, <3>1, <3>2, <4>1
    <3>3. CASE p # L + 1
      <4>. DEFINE h == p - L
      <4>1. h \in 2..Len(A) /\ h \in 1..Len(A) /\ L + h = p /\ B[p] = A[h] /\ A[h].push
        BY <2>7, <3>3
      <4>. HIDE DEF h
      <4>2. \A j \in 1..(h - 1) : r[A[j].mark] < r[A[h].mark]
        BY <1>7, <4>1
      <4>3. r[k] < r[A[h].mark] /\ r[k] \in Nat /\ r[A[h].mark] \in Nat
        <5>1. 1 \in 1..(h - 1)
          BY <2>6, <4>1
        <5>2. r[k] \in Nat /\ r[A[h].mark] \in Nat
          BY <1>5, <1>6, <2>2, <4>1
        <5>. QED  BY <2>4, <4>2, <5>1, <5>2
      <4>4. CASE q \in 1..L
        <5>1. r[ks[q]] < r[k] /\ r[ks[q]] \in Nat
          BY <1>6, <3>1, <4>4
        <5>2. r[ks[q]] < r[A[h].mark]
          BY <4>3, <5>1
        <5>. QED  BY <2>5, <4>1, <4>4, <5>2
      <4>5. CASE q = L + 1
        BY <2>5, <4>1, <4>3, <4>5
      <4>6. CASE q \notin 1..L /\ q # L + 1
        <5>. DEFINE j == q - L
        <5>1. j \in 2..Len(A) /\ j \in 1..(h - 1) /\ L + j = q
          BY <2>6, <4>1, <4>6
        <5>. HIDE DEF j
        <5>. QED  BY <2>5, <4>1, <4>2, <5>1
      <4>. QED  BY <4>4, <4>5, <4>6
    <3>. QED  BY <3>2, <3>3
  <2>10. Sorts
    BY <1>14, <2>1
  <2>. QED  BY <2>8, <2>9, <2>10
<1>. QED  BY <1>1, <1>10, <1>11, <1>12, <1>13, VisitKinds DEF A

(* Each step spends one of those that are left: opening a place, of which  *)
(* there are n, adds at most 2 * n visits.                                 *)
Bound(n) == n * (2 * n + 1) + n
Left(n, d, i) ==
  \/ d.agenda = <<>>
  \/ \E u \in Nat : /\ u + Cardinality(d.marked) = n
                    /\ u * (2 * n + 1) + Len(d.agenda) + i <= Bound(n)

\* A finite set without one of its elements.
LEMMA OneLess ==
  ASSUME NEW u \in Nat, NEW w \in Nat, u # 0
  PROVE  u - 1 \in Nat /\ (u - 1) * w + w = u * w /\ u * w \in Nat /\ (u - 1) * w \in Nat
  OBVIOUS

\* Each step spends some of the bound.
LEMMA VisitSpends ==
  ASSUME NEW n \in Nat, NEW edges \in [1..n -> Seq(1..n)], \A k \in 1..n : Len(edges[k]) <= 2 * n,
         NEW d \in Visiting(n), NEW i \in Nat, Left(n, d, i), NEW e, e = VisitNext(edges, d)
  PROVE  Left(n, e, i + 1)
<1>. DEFINE A == d.agenda
            B == e.agenda
            k == A[1].mark
            w == 2 * n + 1
<1>1. e \in Visiting(n)
  BY VisitKinds
<1>2. /\ A \in Seq(Calls(n)) /\ B \in Seq(Calls(n))
      /\ d.marked \in SUBSET (1..n) /\ e.marked \in SUBSET (1..n)
  BY <1>1 DEF Visiting
<1>3. Len(A) \in Nat /\ Len(B) \in Nat /\ (A # <<>> => 1 \in 1..Len(A)) /\ w \in Nat /\ Bound(n) \in Nat
  BY <1>2 DEF Bound
<1>4. CASE A = <<>> /\ e = d
  BY <1>4 DEF Left
<1>5. ASSUME A # <<>>
      PROVE  \E u \in Nat : u + Cardinality(d.marked) = n /\ u * w + Len(A) + i <= Bound(n)
  BY <1>5 DEF Left
<1>. HIDE DEF A, B, w
<1>6. ASSUME A # <<>>, Dropped(B, A), e.marked = d.marked  PROVE Left(n, e, i + 1)
  <2>1. PICK u \in Nat : u + Cardinality(d.marked) = n /\ u * w + Len(A) + i <= Bound(n)
    BY <1>5, <1>6
  <2>. DEFINE x == u * w
  <2>2. x \in Nat /\ x + Len(A) + i <= Bound(n) /\ Len(B) = Len(A) - 1
    BY <1>3, <1>6, <2>1 DEF Dropped
  <2>. HIDE DEF x
  <2>3. x + Len(B) + (i + 1) <= Bound(n)
    BY <1>3, <2>2
  <2>. QED  BY <1>6, <2>1, <2>3 DEF Left, B, w, x
<1>7. CASE Pushes(d, e)
  BY <1>6, <1>7 DEF Pushes, A, B
<1>8. CASE Skips(d, e)
  BY <1>6, <1>8 DEF Skips, A, B
<1>9. CASE Opens(edges, d, e)
  <2>1. A # <<>> /\ k \notin d.marked /\ e.marked = d.marked \cup {k} /\ Len(B) = Len(edges[k]) + Len(A)
    BY <1>9 DEF Opens, Opened, A, B
  <2>2. PICK u \in Nat : u + Cardinality(d.marked) = n /\ u * w + Len(A) + i <= Bound(n)
    BY <1>5, <2>1
  <2>3. k \in 1..n
    <3>1. A[1] \in Calls(n)
      BY <1>2, <1>3, <2>1
    <3>. QED  BY <3>1 DEF Calls
  <2>4. edges[k] \in Seq(1..n) /\ Len(edges[k]) \in Nat /\ Len(edges[k]) <= 2 * n
    BY <2>3
  <2>. HIDE DEF k
  <2>5. /\ IsFiniteSet(1..n) /\ Cardinality(1..n) = n
        /\ IsFiniteSet(d.marked) /\ Cardinality(d.marked) \in Nat
        /\ Cardinality(e.marked) = Cardinality(d.marked) + 1
        /\ Cardinality(e.marked) \in Nat /\ Cardinality(e.marked) <= n
    <3>1. IsFiniteSet(1..n) /\ Cardinality(1..n) = n
      BY FS_Interval
    <3>2. IsFiniteSet(d.marked) /\ IsFiniteSet(e.marked) /\ Cardinality(e.marked) <= n
      BY <1>2, <3>1, FS_Subset
    <3>3. Cardinality(d.marked) \in Nat /\ Cardinality(e.marked) \in Nat
      BY <3>2, FS_CardinalityType
    <3>4. Cardinality(e.marked) = Cardinality(d.marked) + 1
      BY <2>1, <3>2, FS_AddElement
    <3>. QED  BY <3>1, <3>2, <3>3, <3>4
  <2>6. u # 0 /\ (u - 1) + Cardinality(e.marked) = n
    <3>. DEFINE c == Cardinality(d.marked)
                c1 == Cardinality(e.marked)
    <3>1. c \in Nat /\ c1 = c + 1 /\ c1 <= n /\ u + c = n
      BY <2>2, <2>5
    <3>. HIDE DEF c, c1
    <3>2. u # 0 /\ (u - 1) + c1 = n
      BY <3>1
    <3>. QED  BY <3>2 DEF c1
  <2>. DEFINE x == u * w
              y == (u - 1) * w
  <2>7. u - 1 \in Nat /\ x \in Nat /\ y \in Nat /\ y + w = x
    BY <1>3, <2>6, OneLess
  <2>8. x + Len(A) + i <= Bound(n)
    BY <2>2
  <2>. HIDE DEF x, y
  <2>9. y + Len(B) + (i + 1) <= Bound(n)
    <3>. DEFINE a == Len(A)
                b == Len(B)
                l == Len(edges[k])
    <3>1. a \in Nat /\ l \in Nat /\ l <= 2 * n /\ b = l + a /\ x + a + i <= Bound(n) /\ w = 2 * n + 1
      BY <1>3, <2>1, <2>4, <2>8 DEF w
    <3>. HIDE DEF a, b, l
    <3>2. y + b + (i + 1) <= Bound(n)
      BY <1>3, <2>7, <3>1
    <3>. QED  BY <3>2 DEF b
  <2>. QED  BY <2>6, <2>7, <2>9 DEF Left, B, w, y
<1>. QED  BY <1>4, <1>7, <1>8, <1>9, VisitKinds DEF A

\* The recursion of SortTopologically.
FirstVisit(n) == [agenda |-> Visits([k \in 1..n |-> k]), marked |-> {}, sorted |-> <<>>]
VisitSteps(f, n, edges) ==
  /\ f \in [0..Bound(n) -> Visiting(n)] /\ f[0] = FirstVisit(n)
  /\ \A i \in 1..Bound(n) : f[i] = VisitNext(edges, f[i - 1])

\* How the visits begin,
LEMMA FirstVisitIs ==
  ASSUME NEW n \in Nat
  PROVE  /\ FirstVisit(n) \in Visiting(n) /\ FirstVisit(n).marked = {} /\ FirstVisit(n).sorted = <<>>
         /\ Len(FirstVisit(n).agenda) = n
         /\ \A p \in 1..n : FirstVisit(n).agenda[p] = [mark |-> p, push |-> FALSE]
<1>. DEFINE ks == [k \in 1..n |-> k]
            v == Visits(ks)
<1>1. FirstVisit(n) = [agenda |-> v, marked |-> {}, sorted |-> <<>>]
  BY DEF FirstVisit
<1>2. v = [p \in 1..n |-> [mark |-> p, push |-> FALSE]]
  BY DEF Visits
<1>3. \A p \in 1..n : [mark |-> p, push |-> FALSE] \in Calls(n)
  BY DEF Calls
<1>4. v \in Seq(Calls(n)) /\ Len(v) = n /\ \A p \in 1..n : v[p] = [mark |-> p, push |-> FALSE]
  <2>1. v \in [1..n -> Calls(n)]
    BY <1>2, <1>3
  <2>2. \A p \in 1..n : v[p] = [mark |-> p, push |-> FALSE]
    BY <1>2
  <2>. HIDE DEF v
  <2>3. v \in Seq(Calls(n)) /\ Len(v) = n
    BY <2>1
  <2>. QED  BY <2>2, <2>3
<1>. HIDE DEF v
<1>5. <<>> \in Seq(1..n) /\ {} \in SUBSET (1..n)
  OBVIOUS
<1>. QED  BY <1>1, <1>4, <1>5 DEF Visiting

\* and that they go on step by step.
LEMMA VisitRuns ==
  ASSUME NEW n \in Nat, NEW edges \in [1..n -> Seq(1..n)]
  PROVE  \E f : VisitSteps(f, n, edges) /\ SortTopologically(n, edges) = f[Bound(n)].sorted
<1>. DEFINE S == Visiting(n)
            N == Bound(n)
            first == FirstVisit(n)
            Runs(f) == [i \in 0..N |-> IF i = 0 THEN first ELSE VisitNext(edges, f[i - 1])]
            visited == CHOOSE f : f = Runs(f)
            step == [i \in 1..N |-> [d \in S |-> VisitNext(edges, d)]]
<1>0. /\ N \in Nat /\ \A i \in 1..N : i - 1 \in 0..N /\ i \in 0..N /\ i # 0
      /\ 0 \in 0..N /\ N \in 0..N /\ \A i \in 0..N : i = 0 \/ i \in 1..N
  <2>1. N \in Nat
    BY DEF Bound
  <2>. HIDE DEF N
  <2>. QED  BY <2>1
<1>1. CanRecur(S, N, first, step)
  <2>1. \A d \in S : VisitNext(edges, d) \in S
    BY VisitKinds
  <2>2. first \in S
    BY FirstVisitIs
  <2>. HIDE DEF S, first, N
  <2>3. step \in [1..N -> [S -> S]]
    BY <2>1
  <2>. QED  BY <1>0, <2>2, <2>3 DEF CanRecur
<1>2. \A i \in 1..N, d \in S : step[i][d] = VisitNext(edges, d)
  OBVIOUS
<1>3. SortTopologically(n, edges) = visited[N].sorted
  BY DEF SortTopologically, Bound, FirstVisit
<1>. HIDE DEF step, visited, Runs, S, N, first
<1>4. PICK f : Recurs(f, S, N, first, step)
  BY <1>1, Recursion
<1>5. f \in [0..N -> S] /\ f[0] = first /\ \A i \in 1..N : f[i] = step[i][f[i - 1]]
  BY <1>4 DEF Recurs
<1>6. f = Runs(f)
  <2>1. \A i \in 1..N : f[i - 1] \in S
    BY <1>0, <1>5
  <2>2. \A i \in 0..N : f[i] = Runs(f)[i]
    BY <1>0, <1>2, <1>5, <2>1 DEF Runs
  <2>3. f = [i \in 0..N |-> f[i]] /\ Runs(f) = [i \in 0..N |-> Runs(f)[i]]
    BY <1>5 DEF Runs
  <2>. QED  BY <2>2, <2>3
<1>7. visited = Runs(visited)
  BY <1>6 DEF visited
<1>8. /\ visited[0] = first /\ visited = [i \in 0..N |-> visited[i]]
      /\ \A i \in 1..N : visited[i] = VisitNext(edges, visited[i - 1])
  BY <1>0, <1>7 DEF Runs
<1>9. visited = f
  <2>1. \A i \in 1..N : visited[i - 1] \in S => visited[i] = step[i][visited[i - 1]]
    BY <1>2, <1>8
  <2>2. Follows(visited, S, N, first, step)
    BY <1>8, <2>1 DEF Follows
  <2>. QED  BY <1>1, <1>4, <2>2, OneRecursion
<1>10. VisitSteps(f, n, edges)
  BY <1>5, <1>8, <1>9 DEF VisitSteps, S, N, first
<1>. QED  BY <1>3, <1>9, <1>10 DEF N

(* The order of the places: each of them once; after those of its edges,   *)
(* if there is such an order.                                              *)
IsOrder(order, n, edges) ==
  /\ order \in Seq(1..n)
  /\ \A p, q \in 1..Len(order) : order[p] = order[q] => p = q
  /\ \A k \in 1..n : \E p \in 1..Len(order) : order[p] = k
  /\ \A r : Ranked(n, edges, r) =>
       \A p \in 1..Len(order) : \A m \in ToSet(edges[order[p]]) : \E q \in 1..(p - 1) : order[q] = m

\* sortTopologically: each place once, and after those that come before it if that can be had.
LEMMA Topological ==
  ASSUME NEW n \in Nat, NEW edges \in [1..n -> Seq(1..n)], \A k \in 1..n : Len(edges[k]) <= 2 * n
  PROVE  IsOrder(SortTopologically(n, edges), n, edges)
<1>1. PICK f : VisitSteps(f, n, edges) /\ SortTopologically(n, edges) = f[Bound(n)].sorted
  BY VisitRuns
<1>. DEFINE N == Bound(n)
<1>0. /\ N \in Nat /\ \A i \in 1..N : i - 1 \in 0..N /\ i - 1 \in Nat /\ (i - 1) + 1 = i /\ i \in 0..N
      /\ 0 \in 0..N /\ N \in 0..N
  <2>1. N \in Nat
    BY DEF Bound
  <2>. HIDE DEF N
  <2>. QED  BY <2>1
<1>2. /\ f \in [0..N -> Visiting(n)] /\ f[0] = FirstVisit(n)
      /\ \A i \in 1..N : f[i] = VisitNext(edges, f[i - 1])
  BY <1>1 DEF VisitSteps
<1>. HIDE DEF N
<1>3. /\ f[0] \in Visiting(n) /\ f[0].marked = {} /\ f[0].sorted = <<>> /\ Len(f[0].agenda) = n
      /\ \A p \in 1..n : f[0].agenda[p].mark = p /\ f[0].agenda[p].push = FALSE
  <2>1. \A p \in 1..n : f[0].agenda[p] = [mark |-> p, push |-> FALSE]
    BY <1>2, FirstVisitIs
  <2>2. ASSUME NEW p \in 1..n  PROVE f[0].agenda[p].mark = p /\ f[0].agenda[p].push = FALSE
    <3>1. f[0].agenda[p] = [mark |-> p, push |-> FALSE]
      BY <2>1
    <3>. QED  BY <3>1
  <2>. QED  BY <1>2, <2>2, FirstVisitIs
<1>4. VisitsAll(n, f[0])
  <2>1. Len(f[0].sorted) = 0 /\ \A p \in 1..Len(f[0].sorted) : FALSE
    BY <1>3
  <2>. QED  BY <1>3, <2>1 DEF VisitsAll
<1>5. Left(n, f[0], 0)
  <2>1. Cardinality(f[0].marked) = 0
    BY <1>3, FS_EmptySet
  <2>2. n + Cardinality(f[0].marked) = n /\ n * (2 * n + 1) + Len(f[0].agenda) + 0 <= Bound(n)
    BY <1>3, <2>1 DEF Bound
  <2>. QED  BY <2>2 DEF Left
<1>. DEFINE All == {i \in 0..N : VisitsAll(n, f[i]) /\ Left(n, f[i], i)}
<1>6. \A i \in 0..N : VisitsAll(n, f[i]) /\ Left(n, f[i], i)
  <2>1. 0 \in All
    BY <1>0, <1>4, <1>5
  <2>2. ASSUME NEW i \in 1..N, i - 1 \in All  PROVE i \in All
    <3>1. VisitsAll(n, f[i - 1]) /\ Left(n, f[i - 1], i - 1) /\ f[i] = VisitNext(edges, f[i - 1])
      BY <1>2, <2>2
    <3>2. VisitsAll(n, f[i])
      BY <3>1, VisitKeeps
    <3>3. f[i - 1] \in Visiting(n) /\ i - 1 \in Nat
      BY <1>0, <1>2
    <3>4. Left(n, f[i], (i - 1) + 1)
      BY <3>1, <3>3, VisitSpends
    <3>5. Left(n, f[i], i)
      BY <1>0, <3>4
    <3>. QED  BY <1>0, <3>2, <3>5
  <2>3. \A i \in 0..N : i \in All
    <3>. HIDE DEF All
    <3>. QED  BY <1>0, <2>1, <2>2, Upwards
  <2>. QED  BY <2>3
<1>. DEFINE d == f[N]
            order == d.sorted
<1>7. VisitsAll(n, d) /\ Left(n, d, N)
  BY <1>0, <1>6
<1>8. d \in Visiting(n) /\ d.agenda \in Seq(Calls(n)) /\ order \in Seq(1..n)
  BY <1>7 DEF VisitsAll, Visiting
<1>9. d.agenda = <<>>
  <2>1. SUFFICES ASSUME d.agenda # <<>>  PROVE FALSE
    OBVIOUS
  <2>2. PICK u \in Nat : u * (2 * n + 1) + Len(d.agenda) + N <= N
    BY <1>7, <2>1 DEF Left, N
  <2>. DEFINE x == u * (2 * n + 1)
              a == Len(d.agenda)
  <2>3. x \in Nat /\ a \in Nat /\ a # 0 /\ x + a + N <= N
    BY <1>8, <2>1, <2>2
  <2>. HIDE DEF x, a, d
  <2>. QED  BY <1>0, <2>3
<1>10. /\ \A p, q \in 1..Len(order) : order[p] = order[q] => p = q
       /\ \A k \in 1..n : \E p \in 1..Len(order) : order[p] = k
  <2>1. \A p \in 1..Len(d.agenda) : FALSE
    BY <1>9
  <2>. HIDE DEF d
  <2>2. \A k \in 1..n : k \in d.marked
    BY <1>7, <2>1 DEF VisitsAll
  <2>3. \A k \in d.marked : \E p \in 1..Len(order) : order[p] = k
    BY <1>7, <2>1 DEF VisitsAll
  <2>4. \A p, q \in 1..Len(order) : order[p] = order[q] => p = q
    BY <1>7 DEF VisitsAll
  <2>. QED  BY <2>2, <2>3, <2>4
<1>11. ASSUME NEW r, Ranked(n, edges, r)
       PROVE  \A p \in 1..Len(order) : \A m \in ToSet(edges[order[p]]) :
                \E q \in 1..(p - 1) : order[q] = m
  <2>. DEFINE Ordered == {i \in 0..N : VisitsInOrder(edges, r, f[i])}
  <2>1. VisitsInOrder(edges, r, f[0])
    <3>1. /\ \A p \in 1..Len(f[0].sorted) : FALSE
          /\ \A p \in 1..Len(f[0].agenda) : f[0].agenda[p].push = FALSE
      BY <1>3
    <3>. QED  BY <3>1 DEF VisitsInOrder
  <2>2. 0 \in Ordered
    BY <1>0, <2>1
  <2>3. ASSUME NEW i \in 1..N, i - 1 \in Ordered  PROVE i \in Ordered
    <3>1. /\ VisitsAll(n, f[i - 1]) /\ VisitsInOrder(edges, r, f[i - 1])
          /\ f[i] = VisitNext(edges, f[i - 1])
      BY <1>0, <1>2, <1>6, <2>3
    <3>2. VisitsInOrder(edges, r, f[i])
      BY <1>11, <3>1, VisitKeepsOrder
    <3>. QED  BY <1>0, <3>2
  <2>4. N \in Ordered
    <3>. HIDE DEF Ordered
    <3>. QED  BY <1>0, <2>2, <2>3, Upwards
  <2>. QED  BY <2>4 DEF VisitsInOrder
<1>12. SortTopologically(n, edges) = order
  BY <1>1 DEF N
<1>. HIDE DEF order, d
<1>. QED  BY <1>8, <1>10, <1>11, <1>12 DEF IsOrder

-----------------------------------------------------------------------------
(* sortItemsInGroup.                                                       *)
\* The length of sequences of at most two, joined.
LEMMA FlatLength ==
  ASSUME NEW T, NEW ss \in Seq(Seq(T)), \A g \in 1..Len(ss) : Len(ss[g]) <= 2
  PROVE  Len(FlattenSeq(ss)) <= 2 * Len(ss)
<1>1. PICK off : IsFlat(FlattenSeq(ss), ss, off)
  BY Flattened
<1>. DEFINE N == Len(ss)
<1>2. /\ off \in [1..(N + 1) -> Nat] /\ off[1] = 0 /\ Len(FlattenSeq(ss)) = off[N + 1]
      /\ \A g \in 1..N : off[g + 1] = off[g] + Len(ss[g])
  BY <1>1 DEF IsFlat
<1>0. /\ N \in Nat /\ N \in 0..N /\ 0 \in 0..N /\ \A g \in 1..N : Len(ss[g]) \in Nat
      /\ \A g \in 1..N : (g - 1) + 1 = g /\ g \in 0..N
  OBVIOUS
<1>. HIDE DEF N
<1>. DEFINE Good == {g \in 0..N : off[g + 1] <= 2 * g}
<1>3. 0 \in Good
  BY <1>0, <1>2
<1>4. ASSUME NEW g \in 1..N, g - 1 \in Good  PROVE g \in Good
  <2>. DEFINE a == off[g]
              b == off[g + 1]
              l == Len(ss[g])
  <2>1. a \in Nat /\ b \in Nat /\ l \in Nat /\ b = a + l /\ l <= 2
    <3>1. g \in 1..(N + 1) /\ g + 1 \in 1..(N + 1)
      BY <1>0
    <3>. QED  BY <1>0, <1>2, <3>1 DEF N
  <2>2. off[(g - 1) + 1] <= 2 * (g - 1)
    BY <1>4
  <2>3. a <= 2 * (g - 1)
    BY <1>0, <2>2
  <2>. HIDE DEF a, l
  <2>4. b <= 2 * g
    BY <1>0, <2>1, <2>3
  <2>. QED  BY <1>0, <2>4
<1>5. N \in Good
  <2>. HIDE DEF Good
  <2>. QED  BY <1>0, <1>3, <1>4, Upwards
<1>. QED  BY <1>2, <1>5 DEF N

\* No two of s have the same id.
HaveIds(s) ==
  \A k, l \in 1..Len(s) : s[k].id = s[l].id /\ s[k].id # "none" => k = l

\* IndexOf finds the item with an id.
LEMMA IndexFound ==
  ASSUME NEW T, NEW s \in Seq(T), HaveIds(s), NEW id, NEW i, i = IndexOf(s, id)
  PROVE  /\ i \in 0..Len(s)
         /\ \A k \in 1..Len(s) : i = k <=> id # "none" /\ s[k].id = id
<1>. DEFINE P == {k \in DOMAIN s : id # "none" /\ s[k].id = id}
<1>1. i = FirstOf(P) /\ DOMAIN s = 1..Len(s) /\ Len(s) \in Nat
  BY DEF IndexOf
<1>2. P \in SUBSET (Nat \ {0}) /\ P \subseteq 1..Len(s)
  BY <1>1
<1>3. \A k \in P, l \in P : k = l
  BY <1>1 DEF HaveIds
<1>4. \A k \in 1..Len(s) : k \in P <=> id # "none" /\ s[k].id = id
  BY <1>1
<1>. HIDE DEF P
<1>5. P = {} => i = 0
  BY <1>1, <1>2, FirstPlace
<1>6. P # {} => i \in P
  BY <1>1, <1>2, FirstPlace
<1>7. CASE P = {}
  <2>1. i = 0 /\ \A k \in 1..Len(s) : i # k
    BY <1>5, <1>7
  <2>2. \A k \in 1..Len(s) : k \notin P
    BY <1>7
  <2>3. i \in 0..Len(s)
    BY <1>1, <2>1
  <2>. QED  BY ONLY <1>4, <2>1, <2>2, <2>3
<1>8. CASE P # {}
  <2>1. i \in P
    BY <1>6, <1>8
  <2>2. i \in 1..Len(s)
    BY <1>2, <2>1
  <2>3. i \in 0..Len(s)
    BY <1>1, <2>2
  <2>. QED  BY ONLY <1>3, <1>4, <2>1, <2>3
<1>. QED  BY <1>7, <1>8

\* Item m of a group is to come before item k of it.
GroupAsks(s, m, k) ==
  \/ s[k].id # "none" /\ s[m].before = s[k].id
  \/ s[m].id # "none" /\ s[k].after = s[m].id

\* What an item adds to the edges of a place.
LEMMA ItemEdgesAre ==
  ASSUME NEW T, NEW s \in Seq(T), HaveIds(s), NEW k \in 1..Len(s), NEW i \in 1..Len(s),
         NEW es, es = ItemEdges(s, k, i)
  PROVE  /\ es \in Seq(1..Len(s)) /\ Len(es) <= 2
         /\ \A m : m \in ToSet(es) <=>
              \/ m = i /\ s[k].id # "none" /\ s[i].before = s[k].id
              \/ i = k /\ m \in 1..Len(s) /\ s[m].id # "none" /\ s[k].after = s[m].id
<1>. DEFINE b == IndexOf(s, s[i].before)
            a == IndexOf(s, s[i].after)
            x == IF b = k THEN <<i>> ELSE <<>>
            y == IF i = k /\ a # 0 THEN <<a>> ELSE <<>>
<1>1. es = x \o y
  BY DEF ItemEdges
<1>2. b = k <=> s[i].before # "none" /\ s[k].id = s[i].before
  BY IndexFound
<1>3. a \in 0..Len(s) /\ \A m \in 1..Len(s) : a = m <=> s[i].after # "none" /\ s[m].id = s[i].after
  BY IndexFound
<1>4. Len(s) \in Nat
  OBVIOUS
<1>. HIDE DEF a, b
<1>5. /\ x \in Seq(1..Len(s)) /\ y \in Seq(1..Len(s))
      /\ Len(x) <= 1 /\ Len(y) <= 1 /\ Len(x) \in Nat /\ Len(y) \in Nat
  <2>0. \A u \in 1..Len(s) : <<u>> \in Seq(1..Len(s)) /\ Len(<<u>>) = 1
    OBVIOUS
  <2>4. <<>> \in Seq(1..Len(s)) /\ Len(<<>>) = 0
    OBVIOUS
  <2>1. x \in Seq(1..Len(s)) /\ Len(x) \in Nat /\ Len(x) <= 1
    <3>1. x = <<i>> \/ x = <<>>
      OBVIOUS
    <3>. HIDE DEF x
    <3>2. CASE x = <<i>>
      BY <2>0, <3>2
    <3>3. CASE x = <<>>
      BY <2>4, <3>3
    <3>. QED  BY <3>1, <3>2, <3>3
  <2>2. i = k /\ a # 0 => a \in 1..Len(s)
    BY <1>3, <1>4
  <2>3. y \in Seq(1..Len(s)) /\ Len(y) \in Nat /\ Len(y) <= 1
    <3>1. (y = <<a>> /\ a \in 1..Len(s)) \/ y = <<>>
      BY <2>2
    <3>. HIDE DEF y
    <3>2. CASE y = <<a>> /\ a \in 1..Len(s)
      BY <2>0, <3>2
    <3>3. CASE y = <<>>
      BY <2>4, <3>3
    <3>. QED  BY <3>1, <3>2, <3>3
  <2>. QED  BY <2>1, <2>3
<1>6. es \in Seq(1..Len(s)) /\ IsJoined(es, x, y)
  BY <1>1, <1>5, Joined
<1>7. Len(es) <= 2
  BY <1>5, <1>6 DEF IsJoined
<1>8. /\ \A m : m \in ToSet(x) <=> b = k /\ m = i
      /\ \A m : m \in ToSet(y) <=> i = k /\ a # 0 /\ m = a
  BY DEF ToSet
<1>9. \A m : m \in ToSet(es) <=> m \in ToSet(x) \/ m \in ToSet(y)
  <2>. HIDE DEF x, y
  <2>1. /\ DOMAIN es = 1..Len(es) /\ DOMAIN x = 1..Len(x) /\ DOMAIN y = 1..Len(y)
        /\ Len(es) = Len(x) + Len(y)
        /\ \A j \in 1..Len(x) : es[j] = x[j]
        /\ \A j \in 1..Len(y) : es[Len(x) + j] = y[j]
    BY <1>5, <1>6 DEF IsJoined
  <2>2. /\ \A j \in 1..Len(x) : j \in 1..Len(es)
        /\ \A j \in 1..Len(y) : Len(x) + j \in 1..Len(es)
        /\ \A j \in 1..Len(es) : \/ j \in 1..Len(x)
                                 \/ j - Len(x) \in 1..Len(y) /\ Len(x) + (j - Len(x)) = j
    BY <1>5, <2>1
  <2>3. ASSUME NEW m, m \in ToSet(es)  PROVE m \in ToSet(x) \/ m \in ToSet(y)
    <3>1. PICK j \in 1..Len(es) : m = es[j]
      BY <2>1, <2>3 DEF ToSet
    <3>2. CASE j \in 1..Len(x)
      BY <2>1, <3>1, <3>2 DEF ToSet
    <3>3. CASE j - Len(x) \in 1..Len(y) /\ Len(x) + (j - Len(x)) = j
      <4>1. m = y[j - Len(x)]
        BY <2>1, <3>1, <3>3
      <4>. QED  BY <2>1, <3>3, <4>1 DEF ToSet
    <3>. QED  BY <2>2, <3>2, <3>3
  <2>4. \A m \in ToSet(x) : m \in ToSet(es)
    <3>1. \A m \in ToSet(x) : \E j \in 1..Len(x) : m = x[j]
      BY <2>1 DEF ToSet
    <3>. QED  BY <2>1, <2>2, <3>1 DEF ToSet
  <2>5. \A m \in ToSet(y) : m \in ToSet(es)
    <3>1. \A m \in ToSet(y) : \E j \in 1..Len(y) : m = y[j]
      BY <2>1 DEF ToSet
    <3>. QED  BY <2>1, <2>2, <3>1 DEF ToSet
  <2>. QED  BY <2>3, <2>4, <2>5
<1>. HIDE DEF x, y
<1>10. ASSUME NEW m
       PROVE  m \in ToSet(es) <=>
                \/ m = i /\ s[k].id # "none" /\ s[i].before = s[k].id
                \/ i = k /\ m \in 1..Len(s) /\ s[m].id # "none" /\ s[k].after = s[m].id
  <2>1. m \in ToSet(es) <=> (b = k /\ m = i) \/ (i = k /\ a # 0 /\ m = a)
    BY <1>8, <1>9
  <2>2. (a # 0 /\ m = a) <=> m \in 1..Len(s) /\ s[i].after # "none" /\ s[m].id = s[i].after
    BY <1>3, <1>4
  <2>. QED  BY <1>2, <2>1, <2>2
<1>. QED  BY <1>6, <1>7, <1>10

(* t holds the elements of s in another order: number p is order[p] there. *)
Reordered(t, s, order) ==
  /\ order \in Seq(1..Len(s))
  /\ \A p, q \in 1..Len(order) : order[p] = order[q] => p = q
  /\ \A k \in 1..Len(s) : \E p \in 1..Len(order) : order[p] = k
  /\ Len(t) = Len(order) /\ \A p \in 1..Len(t) : t[p] = s[order[p]]

\* If a ranking meets all requests of the items, the order does.
ObeysItems(s, order) ==
  \A r \in [1..Len(s) -> Nat] :
    (\A m, k \in 1..Len(s) : GroupAsks(s, m, k) => r[m] < r[k]) =>
      \A p, q \in 1..Len(order) : GroupAsks(s, order[q], order[p]) => q < p

\* What sortItemsInGroup sorts by.
EdgesOfItems(s) ==
  [k \in DOMAIN s |-> FlattenSeq([i \in DOMAIN s |-> ItemEdges(s, k, i)])]

\* The edges of a place are the items that are to come before it.
LEMMA EdgesOfItemsAre ==
  ASSUME NEW T, NEW s \in Seq(T), HaveIds(s)
  PROVE  /\ EdgesOfItems(s) \in [1..Len(s) -> Seq(1..Len(s))]
         /\ \A k \in 1..Len(s) : Len(EdgesOfItems(s)[k]) <= 2 * Len(s)
         /\ \A k \in 1..Len(s) : \A m :
              m \in ToSet(EdgesOfItems(s)[k]) <=> m \in 1..Len(s) /\ GroupAsks(s, m, k)
<1>. DEFINE n == Len(s)
            edges == EdgesOfItems(s)
<1>0. n \in Nat /\ DOMAIN s = 1..n
  OBVIOUS
<1>1. edges = [k \in 1..n |-> FlattenSeq([i \in 1..n |-> ItemEdges(s, k, i)])]
  BY <1>0 DEF EdgesOfItems
<1>2. ASSUME NEW k \in 1..n
      PROVE  /\ edges[k] \in Seq(1..n) /\ Len(edges[k]) <= 2 * n
             /\ \A m : m \in ToSet(edges[k]) <=> m \in 1..n /\ GroupAsks(s, m, k)
  <2>. DEFINE ss == [i \in 1..n |-> ItemEdges(s, k, i)]
  <2>1. edges[k] = FlattenSeq(ss)
    BY <1>1
  <2>2. \A i \in 1..n :
          /\ ItemEdges(s, k, i) \in Seq(1..n) /\ Len(ItemEdges(s, k, i)) <= 2
          /\ \A m : m \in ToSet(ItemEdges(s, k, i)) <=>
               \/ m = i /\ s[k].id # "none" /\ s[i].before = s[k].id
               \/ i = k /\ m \in 1..n /\ s[m].id # "none" /\ s[k].after = s[m].id
    BY ItemEdgesAre
  <2>3. /\ \A i \in 1..n : ss[i] = ItemEdges(s, k, i)
        /\ ss \in Seq(Seq(1..n)) /\ Len(ss) = n /\ DOMAIN ss = 1..n
    BY <1>0, <2>2
  <2>. HIDE DEF ss, edges, n
  <2>4. FlattenSeq(ss) \in Seq(1..n)
    BY <2>3, FlatElements
  <2>5. \A m : m \in ToSet(FlattenSeq(ss)) <=> \E i \in 1..n : m \in ToSet(ss[i])
    BY <2>3, FlatElements
  <2>6. Len(FlattenSeq(ss)) <= 2 * n
    <3>1. \A i \in 1..Len(ss) : Len(ss[i]) <= 2
      BY <2>2, <2>3
    <3>. QED  BY <2>3, <3>1, FlatLength
  <2>7. ASSUME NEW m, m \in ToSet(edges[k])  PROVE m \in 1..n /\ GroupAsks(s, m, k)
    <3>1. PICK i \in 1..n : m \in ToSet(ItemEdges(s, k, i))
      BY <2>1, <2>3, <2>5, <2>7
    <3>2. \/ m = i /\ s[k].id # "none" /\ s[i].before = s[k].id
          \/ i = k /\ m \in 1..n /\ s[m].id # "none" /\ s[k].after = s[m].id
      BY <2>2, <3>1
    <3>. QED  BY <3>2 DEF GroupAsks
  <2>8. ASSUME NEW m \in 1..n, GroupAsks(s, m, k)  PROVE m \in ToSet(edges[k])
    <3>1. CASE s[k].id # "none" /\ s[m].before = s[k].id
      <4>1. m \in ToSet(ss[m])
        BY <2>2, <2>3, <3>1
      <4>. QED  BY <2>1, <2>5, <4>1
    <3>2. CASE s[m].id # "none" /\ s[k].after = s[m].id
      <4>1. m \in ToSet(ss[k])
        BY <2>2, <2>3, <3>2
      <4>. QED  BY <2>1, <2>5, <4>1
    <3>. QED  BY <2>8, <3>1, <3>2 DEF GroupAsks
  <2>. QED  BY <2>1, <2>4, <2>6, <2>7, <2>8
<1>3. edges \in [1..n -> Seq(1..n)]
  <2>1. \A k \in 1..n : edges[k] \in Seq(1..n)
    BY <1>2
  <2>2. edges = [k \in 1..n |-> edges[k]]
    BY <1>1
  <2>. HIDE DEF edges
  <2>. QED  BY <2>1, <2>2
<1>. QED  BY <1>2, <1>3

\* sortItemsInGroup: a permutation that obeys the requests, if all of them can be met.
LEMMA ItemsSorted ==
  ASSUME NEW T, NEW s \in Seq(T), HaveIds(s)
  PROVE  /\ SortItemsInGroup(s) \in Seq(T)
         /\ \E order : Reordered(SortItemsInGroup(s), s, order) /\ ObeysItems(s, order)
<1>. DEFINE n == Len(s)
            edges == EdgesOfItems(s)
            order == SortTopologically(n, edges)
            t == SortItemsInGroup(s)
<1>0. n \in Nat
  OBVIOUS
<1>1. /\ edges \in [1..n -> Seq(1..n)]
      /\ \A k \in 1..n : Len(edges[k]) <= 2 * n
      /\ \A k \in 1..n : \A m : m \in ToSet(edges[k]) <=> m \in 1..n /\ GroupAsks(s, m, k)
  BY EdgesOfItemsAre
<1>2. t = [p \in DOMAIN order |-> s[order[p]]]
  BY DEF SortItemsInGroup, EdgesOfItems
<1>3. \A i \in 1..n : s[i] \in T
  OBVIOUS
<1>. HIDE DEF n, edges
<1>4. IsOrder(order, n, edges)
  BY <1>0, <1>1, Topological
<1>. HIDE DEF order, t
<1>5. /\ order \in Seq(1..n)
      /\ \A p, q \in 1..Len(order) : order[p] = order[q] => p = q
      /\ \A k \in 1..n : \E p \in 1..Len(order) : order[p] = k
  BY <1>4 DEF IsOrder
<1>10. Len(order) \in Nat /\ DOMAIN order = 1..Len(order) /\ \A p \in 1..Len(order) : order[p] \in 1..n
  <2>1. order \in Seq(1..n)
    BY <1>5
  <2>. QED  BY <1>0, <2>1
<1>6. /\ t \in Seq(T) /\ Len(t) = Len(order) /\ \A p \in 1..Len(t) : t[p] = s[order[p]]
  <2>1. t = [p \in 1..Len(order) |-> s[order[p]]] /\ \A p \in 1..Len(order) : s[order[p]] \in T
    BY <1>2, <1>3, <1>10
  <2>. QED  BY <1>10, <2>1
<1>7. Reordered(t, s, order)
  BY <1>5, <1>6 DEF Reordered, n
<1>8. ASSUME NEW r \in [1..n -> Nat], \A m, k \in 1..n : GroupAsks(s, m, k) => r[m] < r[k],
             NEW p \in 1..Len(order), NEW q \in 1..Len(order), GroupAsks(s, order[q], order[p])
      PROVE  q < p
  <2>1. Ranked(n, edges, r)
    BY <1>1, <1>8 DEF Ranked
  <2>2. order[p] \in 1..n /\ order[q] \in 1..n /\ Len(order) \in Nat
    BY <1>10
  <2>3. order[q] \in ToSet(edges[order[p]])
    BY <1>1, <1>8, <2>2
  <2>4. PICK l \in 1..(p - 1) : order[l] = order[q]
    BY <1>4, <2>1, <2>3 DEF IsOrder
  <2>5. l \in 1..Len(order)
    BY <2>2
  <2>6. l = q
    BY <1>5, <2>4, <2>5
  <2>. QED  BY <2>2, <2>6
<1>9. ObeysItems(s, order)
  BY <1>8 DEF ObeysItems, n
<1>. QED  BY <1>6, <1>7, <1>9 DEF t

-----------------------------------------------------------------------------
(* sortGroups.                                                             *)
\* No two items have the same id.
EntriesHaveIds(s) ==
  \A k, l \in Entries(s) : s[k].id = s[l].id /\ s[k].id # "none" => k = l

(* The items of s stand in the groups segment by segment, in their order.  *)
InSegments(gs, T, s, grp, pos) ==
  /\ Stands(gs, T, s, Entries(s), grp, pos) /\ EntriesHaveIds(s)
  /\ \A k, l \in Entries(s) : SameSegment(s, k, l) <=> grp[k] = grp[l]
  /\ \A k, l \in Entries(s) : grp[k] = grp[l] => (k < l <=> pos[k] < pos[l])

\* The group that has a named item has all of those that Named has.
LEMMA NamedGroup ==
  ASSUME NEW T, NEW s, NEW gs, NEW grp, NEW pos, InSegments(gs, T, s, grp, pos),
         NEW k \in Entries(s), NEW id, NEW g, g = GroupWith(gs, id, grp[k])
  PROVE  /\ g = 0 <=> Named(s, k, id) = {}
         /\ \A l \in Named(s, k, id) : grp[l] = g
         /\ g # 0 => g \in 1..Len(gs)
<1>1. Stands(gs, T, s, Entries(s), grp, pos) /\ EntriesHaveIds(s)
  BY DEF InSegments
<1>2. \A l \in Entries(s) : SameSegment(s, k, l) <=> grp[k] = grp[l]
  BY DEF InSegments
<1>3. /\ g # 0 => /\ g \in 1..Len(gs) /\ g # grp[k] /\ id # "none"
                  /\ \E l \in Entries(s) : grp[l] = g /\ s[l].id = id
      /\ g = 0 => \A l \in Entries(s) : s[l].id = id /\ id # "none" => grp[l] = grp[k]
  BY <1>1, GroupFound
<1>4. \A l : l \in Named(s, k, id) <=> /\ l \in Entries(s) /\ id # "none" /\ s[l].id = id
                                       /\ grp[l] # grp[k]
  BY <1>2 DEF Named
<1>5. CASE g = 0
  BY <1>3, <1>4, <1>5
<1>6. CASE g # 0
  <2>1. PICK l \in Entries(s) : grp[l] = g /\ s[l].id = id
    BY <1>3, <1>6
  <2>2. l \in Named(s, k, id)
    BY <1>3, <1>4, <1>6, <2>1
  <2>3. \A j \in Named(s, k, id) : j = l
    BY <1>1, <1>4, <2>1 DEF EntriesHaveIds
  <2>. QED  BY <1>3, <1>6, <2>1, <2>2, <2>3
<1>. QED  BY <1>5, <1>6

\* The edge of an item is what AskedByItem says of the groups.
LEMMA EdgeOfEntry ==
  ASSUME NEW T, NEW s, NEW gs, NEW grp, NEW pos, InSegments(gs, T, s, grp, pos),
         NEW k \in Entries(s), NEW e, e = EdgeOfItem(gs, grp[k], pos[k])
  PROVE  /\ e = <<0, 0>> <=> AskedByItem(s, k) = {}
         /\ \A p \in AskedByItem(s, k) : e = <<grp[p[2]], grp[p[1]]>>
         /\ e # <<0, 0>> => e \in (1..Len(gs)) \X (1..Len(gs))
<1>1. gs[grp[k]][pos[k]] = s[k] /\ grp[k] \in 1..Len(gs)
  BY DEF InSegments, Stands
<1>. DEFINE b == GroupWith(gs, s[k].beforeGroup, grp[k])
            a == GroupWith(gs, s[k].afterGroup, grp[k])
            B == Named(s, k, s[k].beforeGroup)
            A == Named(s, k, s[k].afterGroup)
<1>2. e = IF b # 0 THEN <<b, grp[k]>> ELSE IF a # 0 THEN <<grp[k], a>> ELSE <<0, 0>>
  BY <1>1 DEF EdgeOfItem
<1>3. (b = 0 <=> B = {}) /\ (\A l \in B : grp[l] = b) /\ (b # 0 => b \in 1..Len(gs))
  <2>. DEFINE id == s[k].beforeGroup
  <2>1. b = GroupWith(gs, id, grp[k]) /\ B = Named(s, k, id)
    OBVIOUS
  <2>. HIDE DEF id, b, B
  <2>. QED  BY <2>1, NamedGroup
<1>4. (a = 0 <=> A = {}) /\ (\A l \in A : grp[l] = a) /\ (a # 0 => a \in 1..Len(gs))
  <2>. DEFINE id == s[k].afterGroup
  <2>1. a = GroupWith(gs, id, grp[k]) /\ A = Named(s, k, id)
    OBVIOUS
  <2>. HIDE DEF id, a, A
  <2>. QED  BY <2>1, NamedGroup
<1>5. AskedByItem(s, k) = IF B # {} THEN {k} \X B ELSE A \X {k}
  BY DEF AskedByItem
<1>6. 0 \notin 1..Len(gs) /\ grp[k] # 0
  BY <1>1
<1>. HIDE DEF a, b, A, B
<1>7. CASE b # 0
  <2>1. e = <<b, grp[k]>> /\ AskedByItem(s, k) = {k} \X B /\ B # {}
    BY <1>2, <1>3, <1>5, <1>7
  <2>2. \A p \in {k} \X B : p[1] = k /\ p[2] \in B
    OBVIOUS
  <2>3. {k} \X B # {} /\ e # <<0, 0>>
    <3>1. PICK l \in B : TRUE
      BY <2>1
    <3>2. <<k, l>> \in {k} \X B
      OBVIOUS
    <3>. QED  BY <1>7, <2>1, <3>2
  <2>. QED  BY <1>1, <1>3, <1>7, <2>1, <2>2, <2>3
<1>8. CASE b = 0 /\ a # 0
  <2>1. e = <<grp[k], a>> /\ AskedByItem(s, k) = A \X {k} /\ A # {}
    BY <1>2, <1>3, <1>4, <1>5, <1>8
  <2>2. \A p \in A \X {k} : p[1] \in A /\ p[2] = k
    OBVIOUS
  <2>3. A \X {k} # {} /\ e # <<0, 0>>
    <3>1. PICK l \in A : TRUE
      BY <2>1
    <3>2. <<l, k>> \in A \X {k}
      OBVIOUS
    <3>. QED  BY <1>8, <2>1, <3>2
  <2>. QED  BY <1>1, <1>4, <1>8, <2>1, <2>2, <2>3
<1>9. CASE b = 0 /\ a = 0
  <2>1. e = <<0, 0>> /\ AskedByItem(s, k) = A \X {k} /\ A = {}
    BY <1>2, <1>3, <1>4, <1>5, <1>9
  <2>. QED  BY <2>1
<1>. QED  BY <1>7, <1>8, <1>9

\* findEdgesInGroup: the edges of the groups are what AskedGroups says.
LEMMA GroupEdgeAsked ==
  ASSUME NEW T, NEW s, NEW gs, NEW grp, NEW pos, InSegments(gs, T, s, grp, pos)
  PROVE  /\ \A i \in 1..Len(gs) : GroupEdge(gs, i) # <<0, 0>> =>
              /\ GroupEdge(gs, i) \in (1..Len(gs)) \X (1..Len(gs))
              /\ \E p \in AskedGroups(s) : GroupEdge(gs, i) = <<grp[p[2]], grp[p[1]]>>
         /\ \A p \in AskedGroups(s) : \E i \in 1..Len(gs) : GroupEdge(gs, i) = <<grp[p[2]], grp[p[1]]>>
<1>1. /\ gs \in Seq(Seq(T)) /\ grp \in [Entries(s) -> 1..Len(gs)]
      /\ \A k \in Entries(s) : pos[k] \in 1..Len(gs[grp[k]])
      /\ \A g \in 1..Len(gs) : \A n \in 1..Len(gs[g]) : \E k \in Entries(s) : grp[k] = g /\ pos[k] = n
  BY DEF InSegments, Stands
<1>2. /\ \A k, l \in Entries(s) : SameSegment(s, k, l) <=> grp[k] = grp[l]
      /\ \A k, l \in Entries(s) : grp[k] = grp[l] => (k < l <=> pos[k] < pos[l])
  BY DEF InSegments
<1>. DEFINE Asking(i) == {m \in DOMAIN gs[i] : EdgeOfItem(gs, i, m) # <<0, 0>>}
            Decides(n) == \A m \in Entries(s) : m < n /\ SameSegment(s, m, n) => AskedByItem(s, m) = {}
<1>3. ASSUME NEW i \in 1..Len(gs)
      PROVE  /\ Asking(i) \in SUBSET (Nat \ {0}) /\ DOMAIN gs[i] = 1..Len(gs[i])
             /\ GroupEdge(gs, i) = IF FirstOf(Asking(i)) = 0 THEN <<0, 0>>
                                   ELSE EdgeOfItem(gs, i, FirstOf(Asking(i)))
  <2>1. gs[i] \in Seq(T)
    BY <1>1
  <2>2. DOMAIN gs[i] = 1..Len(gs[i]) /\ Asking(i) \in SUBSET (Nat \ {0})
    BY <2>1
  <2>. QED  BY <2>2 DEF GroupEdge
<1>4. AskedGroups(s) = UNION {AskedByItem(s, k) : k \in {n \in Entries(s) : Decides(n)}}
  BY DEF AskedGroups
<1>5. \A m : \A i : m \in Asking(i) <=> m \in DOMAIN gs[i] /\ EdgeOfItem(gs, i, m) # <<0, 0>>
  OBVIOUS
<1>. HIDE DEF Asking
<1>6. ASSUME NEW i \in 1..Len(gs), GroupEdge(gs, i) # <<0, 0>>
      PROVE  /\ GroupEdge(gs, i) \in (1..Len(gs)) \X (1..Len(gs))
             /\ \E p \in AskedGroups(s) : GroupEdge(gs, i) = <<grp[p[2]], grp[p[1]]>>
  <2>. DEFINE n == FirstOf(Asking(i))
  <2>1. n # 0 /\ GroupEdge(gs, i) = EdgeOfItem(gs, i, n) /\ Asking(i) # {}
    BY <1>3, <1>6, FirstPlace
  <2>2. n \in Asking(i) /\ \A m \in Asking(i) : n <= m
    BY <1>3, <2>1, FirstPlace
  <2>. HIDE DEF n
  <2>3. n \in 1..Len(gs[i])
    BY <1>3, <1>5, <2>2
  <2>4. PICK k \in Entries(s) : grp[k] = i /\ pos[k] = n
    BY <1>1, <2>3
  <2>5. Decides(k)
    <3>. SUFFICES ASSUME NEW m \in Entries(s), m < k, SameSegment(s, m, k)
                  PROVE  AskedByItem(s, m) = {}
      OBVIOUS
    <3>1. grp[m] = i /\ pos[m] < n
      BY <1>2, <2>4
    <3>2. pos[m] \in 1..Len(gs[i])
      BY <1>1, <3>1
    <3>3. pos[m] \notin Asking(i)
      BY <2>2, <2>3, <3>1, <3>2
    <3>4. EdgeOfItem(gs, grp[m], pos[m]) = <<0, 0>>
      BY <1>3, <1>5, <3>1, <3>2, <3>3
    <3>. QED  BY <3>4, EdgeOfEntry
  <2>. HIDE DEF Decides
  <2>6. EdgeOfItem(gs, grp[k], pos[k]) = GroupEdge(gs, i)
    BY <2>1, <2>4
  <2>7. /\ AskedByItem(s, k) # {}
        /\ \A p \in AskedByItem(s, k) : GroupEdge(gs, i) = <<grp[p[2]], grp[p[1]]>>
        /\ GroupEdge(gs, i) \in (1..Len(gs)) \X (1..Len(gs))
    BY <1>6, <2>6, EdgeOfEntry
  <2>8. PICK p \in AskedByItem(s, k) : TRUE
    BY <2>7
  <2>9. p \in AskedGroups(s)
    BY <1>4, <2>5
  <2>. QED  BY <2>7, <2>9
<1>7. ASSUME NEW p \in AskedGroups(s)
      PROVE  \E i \in 1..Len(gs) : GroupEdge(gs, i) = <<grp[p[2]], grp[p[1]]>>
  <2>1. PICK k \in Entries(s) : Decides(k) /\ p \in AskedByItem(s, k)
    BY <1>4
  <2>. DEFINE i == grp[k]
              n == FirstOf(Asking(i))
  <2>2. i \in 1..Len(gs) /\ pos[k] \in 1..Len(gs[i])
    BY <1>1
  <2>3. EdgeOfItem(gs, i, pos[k]) # <<0, 0>> /\ EdgeOfItem(gs, i, pos[k]) = <<grp[p[2]], grp[p[1]]>>
    BY <2>1, EdgeOfEntry
  <2>4. pos[k] \in Asking(i) /\ Asking(i) # {}
    BY <1>3, <1>5, <2>2, <2>3
  <2>5. n \in Asking(i) /\ n # 0 /\ n <= pos[k]
    BY <1>3, <2>2, <2>4, FirstPlace
  <2>6. GroupEdge(gs, i) = EdgeOfItem(gs, i, n)
    BY <1>3, <2>2, <2>5
  <2>. HIDE DEF n, i
  <2>7. n \in 1..Len(gs[i]) /\ EdgeOfItem(gs, i, n) # <<0, 0>>
    BY <1>3, <1>5, <2>2, <2>5
  <2>8. PICK m \in Entries(s) : grp[m] = i /\ pos[m] = n
    BY <1>1, <2>2, <2>7
  <2>9. AskedByItem(s, m) # {}
    BY <2>7, <2>8, EdgeOfEntry
  <2>10. ~(m < k)
    BY <1>2, <2>1, <2>8, <2>9 DEF i
  <2>11. ~(n < pos[k])
    BY <1>2, <2>8, <2>10 DEF i
  <2>12. n = pos[k]
    BY <2>2, <2>5, <2>7, <2>11
  <2>. QED  BY <2>2, <2>3, <2>6, <2>12
<1>. QED  BY <1>6, <1>7

\* The edges of the groups name groups.
EdgesAreIn(gs) ==
  \A i \in 1..Len(gs) :
    GroupEdge(gs, i) # <<0, 0>> => GroupEdge(gs, i) \in (1..Len(gs)) \X (1..Len(gs))

\* If a ranking meets all edges of the groups, the order does.
ObeysGroups(gs, order) ==
  \A r \in [1..Len(gs) -> Nat] :
    (\A i \in 1..Len(gs) :
       GroupEdge(gs, i) # <<0, 0>> => r[GroupEdge(gs, i)[2]] < r[GroupEdge(gs, i)[1]]) =>
      \A i \in 1..Len(gs), p, q \in 1..Len(order) :
        GroupEdge(gs, i) = <<order[p], order[q]>> => q < p

\* What sortGroups sorts by.
EdgesOfGroups(gs) ==
  LET asks(k, i) == IF GroupEdge(gs, i)[1] = k THEN <<GroupEdge(gs, i)[2]>> ELSE <<>>
  IN  [k \in DOMAIN gs |-> FlattenSeq([i \in DOMAIN gs |-> asks(k, i)])]

\* The edges of a place are the groups that are to come before it.
LEMMA EdgesOfGroupsAre ==
  ASSUME NEW U, NEW gs \in Seq(U), EdgesAreIn(gs)
  PROVE  /\ EdgesOfGroups(gs) \in [1..Len(gs) -> Seq(1..Len(gs))]
         /\ \A k \in 1..Len(gs) : Len(EdgesOfGroups(gs)[k]) <= 2 * Len(gs)
         /\ \A k \in 1..Len(gs) : \A m :
              m \in ToSet(EdgesOfGroups(gs)[k]) <=>
                \E i \in 1..Len(gs) : GroupEdge(gs, i) # <<0, 0>> /\ GroupEdge(gs, i) = <<k, m>>
<1>. DEFINE n == Len(gs)
            edges == EdgesOfGroups(gs)
            asks(k, i) == IF GroupEdge(gs, i)[1] = k THEN <<GroupEdge(gs, i)[2]>> ELSE <<>>
<1>0. n \in Nat /\ DOMAIN gs = 1..n
  OBVIOUS
<1>1. edges = [k \in 1..n |-> FlattenSeq([i \in 1..n |-> asks(k, i)])]
  BY <1>0 DEF EdgesOfGroups
<1>2. ASSUME NEW k \in 1..n
      PROVE  /\ edges[k] \in Seq(1..n) /\ Len(edges[k]) <= 2 * n
             /\ \A m : m \in ToSet(edges[k]) <=>
                  \E i \in 1..n : GroupEdge(gs, i) # <<0, 0>> /\ GroupEdge(gs, i) = <<k, m>>
  <2>. DEFINE ss == [i \in 1..n |-> asks(k, i)]
  <2>1. edges[k] = FlattenSeq(ss)
    BY <1>1
  <2>2. ASSUME NEW i \in 1..n
        PROVE  /\ asks(k, i) \in Seq(1..n) /\ Len(asks(k, i)) <= 2
               /\ \A m : m \in ToSet(asks(k, i)) <=>
                    GroupEdge(gs, i) # <<0, 0>> /\ GroupEdge(gs, i) = <<k, m>>
    <3>. DEFINE e == GroupEdge(gs, i)
                a == asks(k, i)
    <3>1. e = <<0, 0>> \/ e \in (1..n) \X (1..n)
      BY DEF EdgesAreIn
    <3>2. a = IF e[1] = k THEN <<e[2]>> ELSE <<>>
      OBVIOUS
    <3>3. k # 0 /\ k \in 1..n
      BY <1>0
    <3>. HIDE DEF e, a
    <3>4. CASE e = <<0, 0>>
      <4>1. a = <<>>
        BY <3>2, <3>3, <3>4
      <4>3. a \in Seq(1..n) /\ Len(a) = 0 /\ ToSet(a) = {}
        BY <4>1 DEF ToSet
      <4>. QED  BY <3>4, <4>3 DEF a, e
    <3>5. CASE e \in (1..n) \X (1..n) /\ e[1] # k
      <4>1. a = <<>> /\ \A m : e # <<k, m>>
        BY <3>2, <3>5
      <4>2. a \in Seq(1..n) /\ Len(a) = 0 /\ ToSet(a) = {}
        BY <4>1 DEF ToSet
      <4>. QED  BY <4>1, <4>2 DEF a, e
    <3>6. CASE e \in (1..n) \X (1..n) /\ e[1] = k
      <4>1. a = <<e[2]>> /\ e[2] \in 1..n /\ e # <<0, 0>> /\ \A m : e = <<k, m>> <=> m = e[2]
        BY <3>2, <3>3, <3>6
      <4>2. a \in Seq(1..n) /\ Len(a) = 1 /\ ToSet(a) = {e[2]}
        BY <4>1 DEF ToSet
      <4>. QED  BY <4>1, <4>2 DEF a, e
    <3>. QED  BY <3>1, <3>4, <3>5, <3>6
  <2>. HIDE DEF asks
  <2>3. /\ \A i \in 1..n : ss[i] = asks(k, i)
        /\ ss \in Seq(Seq(1..n)) /\ Len(ss) = n /\ DOMAIN ss = 1..n
    BY <1>0, <2>2
  <2>. HIDE DEF ss, edges, n
  <2>4. FlattenSeq(ss) \in Seq(1..n)
    BY <2>3, FlatElements
  <2>5. \A m : m \in ToSet(FlattenSeq(ss)) <=> \E i \in 1..n : m \in ToSet(ss[i])
    BY <2>3, FlatElements
  <2>6. Len(FlattenSeq(ss)) <= 2 * n
    <3>1. \A i \in 1..Len(ss) : Len(ss[i]) <= 2
      BY <2>2, <2>3
    <3>. QED  BY <2>3, <3>1, FlatLength
  <2>7. \A m : m \in ToSet(edges[k]) <=>
                  \E i \in 1..n : GroupEdge(gs, i) # <<0, 0>> /\ GroupEdge(gs, i) = <<k, m>>
    BY <2>1, <2>2, <2>3, <2>5
  <2>. QED  BY <2>1, <2>4, <2>6, <2>7
<1>3. edges \in [1..n -> Seq(1..n)]
  <2>1. \A k \in 1..n : edges[k] \in Seq(1..n)
    BY <1>2
  <2>2. edges = [k \in 1..n |-> edges[k]]
    BY <1>1
  <2>. HIDE DEF edges
  <2>. QED  BY <2>1, <2>2
<1>. QED  BY <1>2, <1>3

\* sortGroups: a permutation that obeys the edges, if all of them can be met.
LEMMA GroupsSorted ==
  ASSUME NEW U, NEW gs \in Seq(U), EdgesAreIn(gs)
  PROVE  /\ SortGroups(gs) \in Seq(U)
         /\ \E order : Reordered(SortGroups(gs), gs, order) /\ ObeysGroups(gs, order)
<1>. DEFINE n == Len(gs)
            edges == EdgesOfGroups(gs)
            order == SortTopologically(n, edges)
            t == SortGroups(gs)
<1>0. n \in Nat
  OBVIOUS
<1>1. /\ edges \in [1..n -> Seq(1..n)]
      /\ \A k \in 1..n : Len(edges[k]) <= 2 * n
      /\ \A k \in 1..n : \A m : m \in ToSet(edges[k]) <=>
           \E i \in 1..n : GroupEdge(gs, i) # <<0, 0>> /\ GroupEdge(gs, i) = <<k, m>>
  BY EdgesOfGroupsAre
<1>2. t = [p \in DOMAIN order |-> gs[order[p]]]
  BY DEF SortGroups, EdgesOfGroups
<1>3. \A i \in 1..n : gs[i] \in U
  OBVIOUS
<1>. HIDE DEF n, edges
<1>4. IsOrder(order, n, edges)
  BY <1>0, <1>1, Topological
<1>. HIDE DEF order, t
<1>5. /\ order \in Seq(1..n)
      /\ \A p, q \in 1..Len(order) : order[p] = order[q] => p = q
      /\ \A k \in 1..n : \E p \in 1..Len(order) : order[p] = k
  BY <1>4 DEF IsOrder
<1>10. Len(order) \in Nat /\ DOMAIN order = 1..Len(order) /\ \A p \in 1..Len(order) : order[p] \in 1..n
  <2>1. order \in Seq(1..n)
    BY <1>5
  <2>. QED  BY <1>0, <2>1
<1>6. /\ t \in Seq(U) /\ Len(t) = Len(order) /\ \A p \in 1..Len(t) : t[p] = gs[order[p]]
  <2>1. t = [p \in 1..Len(order) |-> gs[order[p]]] /\ \A p \in 1..Len(order) : gs[order[p]] \in U
    BY <1>2, <1>3, <1>10
  <2>. QED  BY <1>10, <2>1
<1>7. Reordered(t, gs, order)
  BY <1>5, <1>6 DEF Reordered, n
<1>8. ASSUME NEW r \in [1..n -> Nat],
             \A i \in 1..n : GroupEdge(gs, i) # <<0, 0>> =>
               r[GroupEdge(gs, i)[2]] < r[GroupEdge(gs, i)[1]],
             NEW i \in 1..n, NEW p \in 1..Len(order), NEW q \in 1..Len(order),
             GroupEdge(gs, i) = <<order[p], order[q]>>
      PROVE  q < p
  <2>1. Ranked(n, edges, r)
    <3>1. ASSUME NEW k \in 1..n, NEW m \in ToSet(edges[k])  PROVE r[m] < r[k]
      <4>1. PICK j \in 1..n : GroupEdge(gs, j) # <<0, 0>> /\ GroupEdge(gs, j) = <<k, m>>
        BY <1>1, <3>1
      <4>2. GroupEdge(gs, j)[1] = k /\ GroupEdge(gs, j)[2] = m
        BY <4>1
      <4>. QED  BY <1>8, <4>1, <4>2
    <3>2. ASSUME NEW k \in 1..n, NEW m \in ToSet(edges[k])  PROVE m \in 1..n
      <4>. DEFINE e == edges[k]
      <4>1. e \in Seq(1..n) /\ m \in ToSet(e)
        BY <1>1
      <4>. HIDE DEF e
      <4>2. \A j \in DOMAIN e : e[j] \in 1..n
        BY <1>0, <4>1
      <4>. QED  BY <4>1, <4>2 DEF ToSet
    <3>. QED  BY <1>8, <3>1, <3>2 DEF Ranked
  <2>2. order[p] \in 1..n /\ order[q] \in 1..n /\ Len(order) \in Nat
    BY <1>10
  <2>3. order[q] \in ToSet(edges[order[p]])
    <3>1. GroupEdge(gs, i) # <<0, 0>>
      BY <1>0, <1>8, <2>2
    <3>. QED  BY <1>1, <1>8, <2>2, <3>1
  <2>4. PICK l \in 1..(p - 1) : order[l] = order[q]
    BY <1>4, <2>1, <2>3 DEF IsOrder
  <2>5. l \in 1..Len(order)
    BY <2>2
  <2>6. l = q
    BY <1>5, <2>4, <2>5
  <2>. QED  BY <2>2, <2>6
<1>9. ObeysGroups(gs, order)
  BY <1>8 DEF ObeysGroups, n
<1>. QED  BY <1>6, <1>7, <1>9 DEF t

-----------------------------------------------------------------------------
(* joinArrays.                                                             *)
(* The groups stand in sf one after the other, group g after place base[g] *)
(* where, but for the first, a separator is.                               *)
IsInRow(sf, gs, base) ==
  /\ base \in [1..Len(gs) -> Nat]
  /\ \A g \in 1..Len(gs) : \A n \in 1..Len(gs[g]) :
       base[g] + n \in DOMAIN sf /\ sf[base[g] + n] = gs[g][n]
  /\ \A p \in Entries(sf) : \E g \in 1..Len(gs) : \E n \in 1..Len(gs[g]) : p = base[g] + n
  /\ \A g, h \in 1..Len(gs) : g < h => /\ base[g] + Len(gs[g]) < base[h]
                                       /\ base[h] \in DOMAIN sf /\ IsSeparator(sf[base[h]])

\* The groups with the separators in front of them.
JointsOf(gs, seps) ==
  LET joint(k) == IF k <= Len(seps) THEN seps[k] ELSE Separator
  IN  [k \in DOMAIN gs |-> IF k = 1 THEN gs[k] ELSE <<joint(k - 1)>> \o gs[k]]

\* joinArrays: the groups one after the other, with separators between them.
LEMMA JoinedInRow ==
  ASSUME NEW T, Separator \in T, NEW gs \in Seq(Seq(T)), NEW seps \in Seq(T),
         \A k \in 1..Len(seps) : IsSeparator(seps[k])
  PROVE  JoinArrays(gs, seps) \in Seq(T) /\ \E base : IsInRow(JoinArrays(gs, seps), gs, base)
<1>. DEFINE N == Len(gs)
            ss == JointsOf(gs, seps)
            sf == JoinArrays(gs, seps)
            lead(g) == IF g = 1 THEN 0 ELSE 1
            joint(k) == IF k <= Len(seps) THEN seps[k] ELSE Separator
<1>0. N \in Nat /\ DOMAIN gs = 1..N /\ \A g \in 1..N : gs[g] \in Seq(T) /\ Len(gs[g]) \in Nat
  OBVIOUS
<1>1. \A k \in Nat \ {0} : joint(k) \in T /\ IsSeparator(joint(k))
  <2>1. IsSeparator(Separator)
    BY DEF IsSeparator, Separator
  <2>2. \A k \in 1..Len(seps) : seps[k] \in T
    OBVIOUS
  <2>3. ASSUME NEW k \in Nat \ {0}
        PROVE joint(k) = Separator \/ (joint(k) = seps[k] /\ k \in 1..Len(seps))
    OBVIOUS
  <2>. HIDE DEF joint
  <2>. QED  BY <2>1, <2>2, <2>3
<1>2. ss = [g \in 1..N |-> IF g = 1 THEN gs[g] ELSE <<joint(g - 1)>> \o gs[g]]
  BY <1>0 DEF JointsOf
<1>3. sf = FlattenSeq(ss)
  BY DEF JoinArrays, JointsOf
<1>. HIDE DEF N, ss, sf, joint
<1>4. ASSUME NEW g \in 1..N
      PROVE  /\ ss[g] \in Seq(T) /\ Len(ss[g]) = lead(g) + Len(gs[g])
             /\ \A n \in 1..Len(gs[g]) : ss[g][lead(g) + n] = gs[g][n]
             /\ g # 1 => IsSeparator(ss[g][1])
  <2>1. CASE g = 1
    BY <1>0, <1>2, <2>1
  <2>2. CASE g # 1
    <3>. DEFINE x == joint(g - 1)
                c == ss[g]
                d == gs[g]
                a == <<x>>
    <3>1. g - 1 \in Nat \ {0}
      BY <1>0, <2>2
    <3>2. x \in T /\ IsSeparator(x) /\ c = a \o d /\ d \in Seq(T)
      BY <1>0, <1>1, <1>2, <2>2, <3>1
    <3>. HIDE DEF x, c, d
    <3>3. a \in Seq(T) /\ Len(a) = 1 /\ a[1] = x
      BY <3>2
    <3>. HIDE DEF a
    <3>4. c \in Seq(T) /\ IsJoined(c, a, d)
      BY <3>2, <3>3, Joined
    <3>5. /\ Len(c) = 1 + Len(d) /\ \A n \in 1..Len(d) : c[1 + n] = d[n]
          /\ c[1] = x
      <4>1. 1 \in 1..Len(a)
        BY <3>3
      <4>. QED  BY <3>3, <3>4, <4>1 DEF IsJoined
    <3>. QED  BY <2>2, <3>2, <3>4, <3>5 DEF c, d
  <2>. QED  BY <2>1, <2>2
<1>5. ss \in Seq(Seq(T)) /\ Len(ss) = N
  <2>1. \A g \in 1..N : ss[g] \in Seq(T)
    BY <1>4
  <2>2. ss = [g \in 1..N |-> ss[g]]
    BY <1>2
  <2>3. ss \in [1..N -> Seq(T)]
    BY <2>1, <2>2
  <2>. QED  BY <1>0, <2>3
<1>6. sf \in Seq(T) /\ \E off : IsFlat(sf, ss, off)
  BY <1>3, <1>5, Flattened
<1>7. PICK off : IsFlat(sf, ss, off)
  BY <1>6
<1>8. /\ off \in [1..(N + 1) -> Nat] /\ Len(sf) = off[N + 1]
      /\ \A g \in 1..N : off[g + 1] = off[g] + Len(ss[g])
      /\ \A g \in 1..N : \A n \in 1..Len(ss[g]) : sf[off[g] + n] = ss[g][n]
  BY <1>5, <1>7 DEF IsFlat
<1>9. /\ \A g, h \in 1..(N + 1) : g < h => off[g + 1] <= off[h]
      /\ \A g, h \in 1..(N + 1) : g <= h => off[g] <= off[h]
  BY <1>5, <1>7, FlatOrder
<1>. DEFINE base == [g \in 1..N |-> off[g] + lead(g)]
<1>10. ASSUME NEW g \in 1..N
       PROVE  /\ g \in 1..(N + 1) /\ g + 1 \in 1..(N + 1) /\ N + 1 \in 1..(N + 1)
              /\ off[g] \in Nat /\ lead(g) \in {0, 1} /\ Len(gs[g]) \in Nat
              /\ base[g] = off[g] + lead(g) /\ base[g] \in Nat
              /\ off[g + 1] = base[g] + Len(gs[g]) /\ base[g] + Len(gs[g]) <= Len(sf)
  <2>1. g \in 1..(N + 1) /\ g + 1 \in 1..(N + 1) /\ N + 1 \in 1..(N + 1) /\ g + 1 <= N + 1
    BY <1>0
  <2>2. off[g] \in Nat /\ lead(g) \in {0, 1} /\ base[g] = off[g] + lead(g) /\ Len(gs[g]) \in Nat
    BY <1>0, <1>8, <2>1
  <2>3. off[g + 1] = off[g] + (lead(g) + Len(gs[g]))
    BY <1>4, <1>8
  <2>4. off[g + 1] <= Len(sf)
    BY <1>8, <1>9, <2>1
  <2>. DEFINE o == off[g]
              l == lead(g)
              m == Len(gs[g])
  <2>6. o \in Nat /\ l \in {0, 1} /\ m \in Nat
    BY <2>2
  <2>. HIDE DEF o, l, m
  <2>5. o + l + m = o + (l + m) /\ o + l \in Nat
    BY <2>6
  <2>. QED  BY <2>1, <2>2, <2>3, <2>4, <2>5 DEF o, l, m
<1>. HIDE DEF lead
<1>11. base \in [1..N -> Nat]
  BY <1>10
<1>. HIDE DEF base
<1>12. Len(sf) \in Nat /\ DOMAIN sf = 1..Len(sf)
  BY <1>6
<1>13. ASSUME NEW g \in 1..N, NEW n \in 1..Len(gs[g])
       PROVE  base[g] + n \in DOMAIN sf /\ sf[base[g] + n] = gs[g][n]
  <2>1. base[g] + n \in 1..Len(sf)
    BY <1>10, <1>12, SMTT(30)
  <2>2. lead(g) + n \in 1..Len(ss[g]) /\ base[g] + n = off[g] + (lead(g) + n)
    <3>. DEFINE o == off[g]
                l == lead(g)
                m == Len(gs[g])
    <3>0. o \in Nat /\ l \in {0, 1} /\ m \in Nat /\ base[g] = o + l
      BY <1>10
    <3>1. o \in Nat /\ l \in Nat /\ m \in Nat /\ base[g] = o + l /\ Len(ss[g]) = l + m /\ n \in 1..m
      BY <1>4, <3>0
    <3>. HIDE DEF o, l, m
    <3>2. l + n \in 1..Len(ss[g]) /\ base[g] + n = o + (l + n)
      BY <3>1
    <3>. QED  BY <3>2 DEF o, l
  <2>. QED  BY <1>4, <1>8, <1>12, <2>1, <2>2, ZenonT(40)
<1>14. ASSUME NEW g \in 1..N, NEW h \in 1..N, g < h
       PROVE  /\ base[g] + Len(gs[g]) < base[h]
              /\ base[h] \in DOMAIN sf /\ IsSeparator(sf[base[h]])
  <2>1. h # 1 /\ lead(h) = 1
    BY <1>0, <1>14 DEF lead
  <2>2. off[g + 1] <= off[h]
    BY <1>9, <1>10, <1>14
  <2>. DEFINE b == off[h]
              m == Len(gs[h])
  <2>3. b \in Nat /\ m \in Nat /\ base[h] = b + 1 /\ base[h] + m <= Len(sf) /\ off[g + 1] <= b
    BY <1>10, <2>1, <2>2
  <2>. HIDE DEF b, m
  <2>4. base[h] \in 1..Len(sf) /\ off[g + 1] < base[h]
    <3>. DEFINE x == off[g + 1]
    <3>1. x \in Nat
      BY <1>8, <1>10
    <3>. HIDE DEF x
    <3>2. base[h] \in 1..Len(sf) /\ x < base[h]
      BY <1>12, <2>3, <3>1 DEF x
    <3>. QED  BY <3>2 DEF x
  <2>5. 1 \in 1..Len(ss[h]) /\ sf[off[h] + 1] = ss[h][1]
    <3>1. Len(ss[h]) = 1 + m
      BY <1>4, <2>1 DEF m
    <3>2. 1 \in 1..Len(ss[h])
      BY <2>3, <3>1
    <3>. QED  BY <1>8, <3>2
  <2>. QED  BY <1>4, <1>10, <1>12, <2>1, <2>3, <2>4, <2>5 DEF b
<1>15. ASSUME NEW p \in Entries(sf)
       PROVE  \E g \in 1..N : \E n \in 1..Len(gs[g]) : p = base[g] + n
  <2>1. p \in 1..Len(sf) /\ ~IsSeparator(sf[p])
    BY <1>12 DEF Entries
  <2>2. StandsIn(p, sf, ss, off)
    BY <1>5, <1>6, <1>7, <2>1, FlatPlaces
  <2>3. PICK g \in 1..N : \E n \in 1..Len(ss[g]) : p = off[g] + n /\ sf[p] = ss[g][n]
    BY <1>5, <2>2 DEF StandsIn
  <2>4. PICK n \in 1..Len(ss[g]) : p = off[g] + n /\ sf[p] = ss[g][n]
    BY <2>3
  <2>5. CASE g = 1
    <3>1. lead(g) = 0 /\ Len(ss[g]) = Len(gs[g]) /\ base[g] = off[g]
      <4>1. lead(g) = 0
        BY <2>5 DEF lead
      <4>. QED  BY <1>4, <1>10, <4>1
    <3>. QED  BY <2>4, <3>1
  <2>6. CASE g # 1
    <3>. DEFINE o == off[g]
                m == Len(gs[g])
    <3>1. lead(g) = 1
      BY <2>6 DEF lead
    <3>2. o \in Nat /\ m \in Nat /\ base[g] = o + 1 /\ Len(ss[g]) = 1 + m /\ p = o + n
      BY <1>4, <1>10, <2>4, <3>1
    <3>3. n # 1
      BY <1>4, <2>1, <2>4, <2>6
    <3>. HIDE DEF o
    <3>4. n - 1 \in 1..m /\ p = base[g] + (n - 1)
      <4>. HIDE DEF m
      <4>1. n \in 1..(1 + m)
        BY <3>2
      <4>. QED  BY <3>2, <3>3, <4>1
    <3>. QED  BY <3>4
  <2>. QED  BY <2>5, <2>6
<1>16. IsInRow(sf, gs, base)
  BY <1>11, <1>13, <1>14, <1>15 DEF IsInRow, N
<1>. QED  BY <1>6, <1>16 DEF sf

\* Two items of a row: the order of their places, and whether they share a segment.
InRowOrder(sf, gs, base, g, n, h, m) ==
  /\ base[g] + n \in Entries(sf)
  /\ SameSegment(sf, base[g] + n, base[h] + m) <=> g = h
  /\ base[g] + n < base[h] + m <=> g < h \/ (g = h /\ n < m)

\* What that says of the order and of the segments of the items,
LEMMA RowOrder ==
  ASSUME NEW T, NEW gs \in Seq(Seq(T)), NEW sf \in Seq(T), NEW base, IsInRow(sf, gs, base),
         \A g \in 1..Len(gs) : \A n \in 1..Len(gs[g]) : ~IsSeparator(gs[g][n]),
         NEW g \in 1..Len(gs), NEW n \in 1..Len(gs[g]), NEW h \in 1..Len(gs), NEW m \in 1..Len(gs[h])
  PROVE  InRowOrder(sf, gs, base, g, n, h, m)
<1>. DEFINE M(x) == Len(gs[x])
            a == base[g] + n
            b == base[h] + m
<1>0. /\ base \in [1..Len(gs) -> Nat] /\ DOMAIN sf = 1..Len(sf) /\ Len(sf) \in Nat /\ Len(gs) \in Nat
      /\ \A x \in 1..Len(gs) : M(x) \in Nat
  BY SMTT(30) DEF IsInRow
<1>1. /\ \A x \in 1..Len(gs) : \A y \in 1..M(x) :
           base[x] + y \in DOMAIN sf /\ sf[base[x] + y] = gs[x][y]
      /\ \A x, y \in 1..Len(gs) : x < y => /\ base[x] + M(x) < base[y]
                                           /\ base[y] \in DOMAIN sf /\ IsSeparator(sf[base[y]])
  BY DEF IsInRow
<1>2. a \in Entries(sf) /\ b \in Entries(sf)
  BY <1>1 DEF Entries
<1>3. ASSUME NEW x \in 1..Len(gs), NEW u \in 1..M(x), NEW y \in 1..Len(gs), NEW v \in 1..M(y), x < y
      PROVE  /\ base[x] + u < base[y] + v /\ ~SameSegment(sf, base[x] + u, base[y] + v)
             /\ ~SameSegment(sf, base[y] + v, base[x] + u)
  <2>. DEFINE i == base[x]
              j == base[y]
  <2>1. /\ i \in Nat /\ j \in Nat /\ M(x) \in Nat /\ i + M(x) < j /\ u \in Nat /\ v \in Nat
        /\ u <= M(x) /\ 1 <= v /\ j \in DOMAIN sf /\ IsSeparator(sf[j])
    <3>1. u \in Nat /\ v \in Nat /\ u <= M(x) /\ 1 <= v /\ M(x) \in Nat /\ M(y) \in Nat
      BY <1>0
    <3>. QED  BY <1>0, <1>1, <1>3, <3>1
  <2>. HIDE DEF i, j, M
  <2>2. i + u < j /\ j < j + v
    BY <2>1
  <2>3. i + u < j + v
    BY <2>1, <2>2
  <2>. QED  BY <2>1, <2>2, <2>3 DEF SameSegment, i, j
<1>4. CASE g < h
  <2>1. ~(g = h) /\ a < b /\ ~SameSegment(sf, a, b)
    BY <1>3, <1>4
  <2>. QED  BY <1>2, <1>4, <2>1 DEF InRowOrder
<1>5. CASE h < g
  <2>0. ~(g = h) /\ ~(g < h)
    BY <1>5
  <2>1. ~(g = h) /\ ~(g < h) /\ b < a /\ ~SameSegment(sf, a, b)
    BY <1>3, <1>5, <2>0
  <2>2. a \in Nat /\ b \in Nat
    BY <1>0, <1>2, SMTT(30) DEF Entries
  <2>. HIDE DEF a, b
  <2>3. ~(a < b)
    BY <2>1, <2>2
  <2>. QED  BY <1>2, <2>1, <2>3 DEF InRowOrder, a, b
<1>6. CASE g = h
  <2>1. a < b <=> n < m
    <3>. DEFINE i == base[g]
    <3>1. i \in Nat /\ n \in Nat /\ m \in Nat /\ a = i + n /\ b = i + m
      BY <1>0, <1>6
    <3>. HIDE DEF i, a, b
    <3>. QED  BY <3>1
  <2>2. SameSegment(sf, a, b)
    <3>. SUFFICES ASSUME NEW j \in DOMAIN sf, (a < j /\ j < b) \/ (b < j /\ j < a)
                  PROVE  ~IsSeparator(sf[j])
      BY DEF SameSegment
    <3>. DEFINE i == base[g]
                z == M(g)
    <3>1. i \in Nat /\ n \in 1..z /\ m \in 1..z /\ a = i + n /\ b = i + m /\ j \in Nat
          /\ z \in Nat
      BY <1>0, <1>6
    <3>2. j - i \in 1..z /\ i + (j - i) = j
      <4>. HIDE DEF i, z
      <4>1. (i + n < j /\ j < i + m) \/ (i + m < j /\ j < i + n)
        BY <3>1
      <4>. QED  BY <3>1, <4>1, SMTT(30)
    <3>3. sf[j] = gs[g][j - i]
      BY <1>1, <3>2, SMTT(30)
    <3>. QED  BY <3>2, <3>3
  <2>3. ~(g < h)
    BY <1>6
  <2>. QED  BY <1>2, <1>6, <2>1, <2>2, <2>3 DEF InRowOrder
<1>7. g < h \/ h < g \/ g = h
  OBVIOUS
<1>. QED  BY <1>4, <1>5, <1>6, <1>7

\* The items of s stand at their places in sf, which has them group by group.
IsPlaced(place, sf, s, grp, pos) ==
  /\ place \in Bijection(Entries(s), Entries(sf))
  /\ \A k \in Entries(s) : sf[place[k]] = s[k]
  /\ \A k, l \in Entries(s) : SameSegment(sf, place[k], place[l]) <=> grp[k] = grp[l]
  /\ \A k, l \in Entries(s) :
       place[k] < place[l] <=> grp[k] < grp[l] \/ (grp[k] = grp[l] /\ pos[k] < pos[l])

\* and of the items of a template that stand in those groups.
LEMMA RowPlaces ==
  ASSUME NEW T, NEW s, NEW gs, NEW grp, NEW pos, Stands(gs, T, s, Entries(s), grp, pos),
         NEW sf \in Seq(T), NEW base, IsInRow(sf, gs, base)
  PROVE  \E place : IsPlaced(place, sf, s, grp, pos)
<1>. DEFINE place == [k \in Entries(s) |-> base[grp[k]] + pos[k]]
<1>1. /\ gs \in Seq(Seq(T)) /\ grp \in [Entries(s) -> 1..Len(gs)] /\ pos \in [Entries(s) -> Nat]
      /\ \A k \in Entries(s) : pos[k] \in 1..Len(gs[grp[k]]) /\ gs[grp[k]][pos[k]] = s[k]
      /\ \A g \in 1..Len(gs) : \A n \in 1..Len(gs[g]) : \E k \in Entries(s) : grp[k] = g /\ pos[k] = n
      /\ \A k, l \in Entries(s) : grp[k] = grp[l] /\ pos[k] = pos[l] => k = l
  BY DEF Stands
<1>2. \A g \in 1..Len(gs) : \A n \in 1..Len(gs[g]) : ~IsSeparator(gs[g][n])
  <2>1. \A k \in Entries(s) : ~IsSeparator(s[k])
    BY DEF Entries
  <2>2. ASSUME NEW g \in 1..Len(gs), NEW n \in 1..Len(gs[g])  PROVE ~IsSeparator(gs[g][n])
    <3>1. PICK k \in Entries(s) : grp[k] = g /\ pos[k] = n
      BY <1>1
    <3>2. gs[g][n] = s[k]
      BY <1>1, <3>1
    <3>. QED  BY <2>1, <3>2
  <2>. QED  BY <2>2
<1>3. ASSUME NEW k \in Entries(s), NEW l \in Entries(s)
      PROVE  /\ place[k] \in Entries(sf)
             /\ SameSegment(sf, place[k], place[l]) <=> grp[k] = grp[l]
             /\ place[k] < place[l] <=> grp[k] < grp[l] \/ (grp[k] = grp[l] /\ pos[k] < pos[l])
  <2>1. InRowOrder(sf, gs, base, grp[k], pos[k], grp[l], pos[l])
    <3>. DEFINE g == grp[k]
                n == pos[k]
                h == grp[l]
                m == pos[l]
    <3>1. g \in 1..Len(gs) /\ n \in 1..Len(gs[g]) /\ h \in 1..Len(gs) /\ m \in 1..Len(gs[h])
      BY <1>1
    <3>. HIDE DEF g, n, h, m
    <3>2. InRowOrder(sf, gs, base, g, n, h, m)
      BY <1>1, <1>2, <3>1, RowOrder
    <3>. QED  BY <3>2 DEF g, n, h, m
  <2>2. place[k] = base[grp[k]] + pos[k] /\ place[l] = base[grp[l]] + pos[l]
    OBVIOUS
  <2>. HIDE DEF place
  <2>. QED  BY <2>1, <2>2 DEF InRowOrder
<1>4. \A k \in Entries(s) : sf[place[k]] = s[k]
  <2>1. \A g \in 1..Len(gs) : \A n \in 1..Len(gs[g]) : sf[base[g] + n] = gs[g][n]
    BY DEF IsInRow
  <2>. SUFFICES ASSUME NEW k \in Entries(s)  PROVE sf[place[k]] = s[k]
    OBVIOUS
  <2>2. /\ grp[k] \in 1..Len(gs) /\ pos[k] \in 1..Len(gs[grp[k]])
        /\ gs[grp[k]][pos[k]] = s[k] /\ place[k] = base[grp[k]] + pos[k]
    BY <1>1
  <2>. HIDE DEF place
  <2>. QED  BY <2>1, <2>2
<1>5. ASSUME NEW p \in Entries(sf)  PROVE \E k \in Entries(s) : place[k] = p
  <2>1. PICK g \in 1..Len(gs) : \E n \in 1..Len(gs[g]) : p = base[g] + n
    BY DEF IsInRow
  <2>2. PICK n \in 1..Len(gs[g]) : p = base[g] + n
    BY <2>1
  <2>3. PICK k \in Entries(s) : grp[k] = g /\ pos[k] = n
    BY <1>1
  <2>. QED  BY <2>2, <2>3
<1>6. place = [k \in Entries(s) |-> place[k]]
  OBVIOUS
<1>7. \A k \in Entries(s) : grp[k] \in Nat /\ pos[k] \in Nat
  BY <1>1
<1>8. \A p \in Entries(sf) : p \in Nat
  BY DEF Entries
<1>. HIDE DEF place
<1>9. ASSUME NEW k \in Entries(s), NEW l \in Entries(s), place[k] = place[l]  PROVE k = l
  <2>. DEFINE x == place[k]
  <2>1. x \in Nat
    BY <1>3, <1>8
  <2>. HIDE DEF x
  <2>2. ~(x < x)
    BY <2>1
  <2>3. ~(place[k] < place[l]) /\ ~(place[l] < place[k])
    BY <1>9, <2>2 DEF x
  <2>4. /\ ~(grp[k] < grp[l]) /\ ~(grp[l] < grp[k])
        /\ grp[k] = grp[l] => ~(pos[k] < pos[l]) /\ ~(pos[l] < pos[k])
    BY <1>3, <2>3
  <2>5. grp[k] = grp[l] /\ pos[k] = pos[l]
    BY <1>7, <2>4
  <2>. QED  BY <1>1, <2>5
<1>10. place \in Bijection(Entries(s), Entries(sf))
  <2>1. place \in [Entries(s) -> Entries(sf)]
    BY <1>3, <1>6
  <2>. QED  BY <1>5, <1>9, <2>1 DEF Bijection, Injection, Surjection, IsInjective
<1>11. IsPlaced(place, sf, s, grp, pos)
  BY <1>3, <1>4, <1>10 DEF IsPlaced
<1>. QED  BY <1>11

-----------------------------------------------------------------------------
(* The whole sort.                                                         *)
\* What the requests of the items that stand in group g make of its order.
GroupInOrder(order, s, grp, pos, g) ==
  \A r \in [Entries(s) -> Nat] :
    (\A p \in AskedOrder(s) : r[p[1]] < r[p[2]]) =>
      \A k, l \in Entries(s) :
        <<k, l>> \in AskedOrder(s) /\ grp[k] = g /\ grp[l] = g =>
          \A p, q \in 1..Len(order) : order[p] = pos[k] /\ order[q] = pos[l] => p < q

\* The same for all groups.
ItemsInOrder(s, grp, pos) ==
  \A r \in [Entries(s) -> Nat] :
    (\A p \in AskedOrder(s) : r[p[1]] < r[p[2]]) =>
      \A k, l \in Entries(s) :
        <<k, l>> \in AskedOrder(s) /\ grp[k] = grp[l] => pos[k] < pos[l]

\* Sorting the items of one group,
LEMMA OneGroupSorted ==
  ASSUME NEW T, NEW s, NEW gs, NEW grp, NEW pos, Stands(gs, T, s, Entries(s), grp, pos),
         EntriesHaveIds(s), NEW g \in 1..Len(gs)
  PROVE  /\ SortItemsInGroup(gs[g]) \in Seq(T)
         /\ \E order : /\ Reordered(SortItemsInGroup(gs[g]), gs[g], order)
                       /\ GroupInOrder(order, s, grp, pos, g)
<1>. DEFINE K == Entries(s)
            t == gs[g]
<1>1. /\ gs \in Seq(Seq(T)) /\ grp \in [K -> 1..Len(gs)] /\ pos \in [K -> Nat]
      /\ \A k \in K : pos[k] \in 1..Len(gs[grp[k]]) /\ gs[grp[k]][pos[k]] = s[k]
      /\ \A h \in 1..Len(gs) : \A n \in 1..Len(gs[h]) : \E k \in K : grp[k] = h /\ pos[k] = n
      /\ \A k, l \in K : grp[k] = grp[l] /\ pos[k] = pos[l] => k = l
  BY DEF Stands
<1>2. t \in Seq(T)
  BY <1>1
<1>. DEFINE who == [n \in 1..Len(t) |-> CHOOSE k \in K : grp[k] = g /\ pos[k] = n]
<1>3. ASSUME NEW n \in 1..Len(t)
      PROVE  /\ who[n] \in K /\ grp[who[n]] = g /\ pos[who[n]] = n /\ s[who[n]] = t[n]
             /\ \A k \in K : grp[k] = g /\ pos[k] = n => k = who[n]
  <2>1. \E k \in K : grp[k] = g /\ pos[k] = n
    BY <1>1
  <2>2. who[n] \in K /\ grp[who[n]] = g /\ pos[who[n]] = n
    BY <2>1
  <2>. HIDE DEF who
  <2>. QED  BY <1>1, <2>2
<1>. HIDE DEF who
<1>4. HaveIds(t)
  <2>. SUFFICES ASSUME NEW n \in 1..Len(t), NEW m \in 1..Len(t), t[n].id = t[m].id, t[n].id # "none"
                PROVE  n = m
    BY DEF HaveIds
  <2>1. s[who[n]].id = s[who[m]].id /\ s[who[n]].id # "none"
    BY <1>3
  <2>2. who[n] = who[m]
    BY <1>3, <2>1 DEF EntriesHaveIds
  <2>. QED  BY <1>3, <2>2
<1>. HIDE DEF t
<1>5. SortItemsInGroup(t) \in Seq(T) /\
      \E order : Reordered(SortItemsInGroup(t), t, order) /\ ObeysItems(t, order)
  BY <1>2, <1>4, ItemsSorted
<1>6. PICK order : Reordered(SortItemsInGroup(t), t, order) /\ ObeysItems(t, order)
  BY <1>5
<1>7. ASSUME NEW m \in 1..Len(t), NEW n \in 1..Len(t)
      PROVE  GroupAsks(t, m, n) <=> <<who[m], who[n]>> \in AskedOrder(s)
  <2>. DEFINE k == who[m]
              l == who[n]
  <2>1. k \in K /\ l \in K /\ s[k] = t[m] /\ s[l] = t[n]
    BY <1>3
  <2>. HIDE DEF k, l
  <2>2. <<k, l>> \in AskedOrder(s) <=> \/ s[l].id # "none" /\ s[k].before = s[l].id
                                       \/ s[k].id # "none" /\ s[l].after = s[k].id
    BY <2>1 DEF AskedOrder
  <2>3. <<k, l>> \in AskedOrder(s) <=> GroupAsks(t, m, n)
    BY <2>1, <2>2 DEF GroupAsks
  <2>. QED  BY <2>3 DEF k, l
<1>8. ASSUME NEW r \in [K -> Nat], \A p \in AskedOrder(s) : r[p[1]] < r[p[2]],
             NEW k \in K, NEW l \in K, <<k, l>> \in AskedOrder(s), grp[k] = g, grp[l] = g,
             NEW p \in 1..Len(order), NEW q \in 1..Len(order), order[p] = pos[k], order[q] = pos[l]
      PROVE  p < q
  <2>. DEFINE r1 == [n \in 1..Len(t) |-> r[who[n]]]
  <2>1. r1 \in [1..Len(t) -> Nat]
    BY <1>3
  <2>2. ASSUME NEW m \in 1..Len(t), NEW n \in 1..Len(t), GroupAsks(t, m, n)
        PROVE  r1[m] < r1[n]
    <3>1. <<who[m], who[n]>> \in AskedOrder(s)
      BY <1>7, <2>2
    <3>2. r[who[m]] < r[who[n]]
      BY <1>8, <3>1
    <3>. QED  BY <3>2
  <2>. HIDE DEF r1
  <2>3. pos[k] \in 1..Len(t) /\ pos[l] \in 1..Len(t)
    BY <1>1, <1>8 DEF t
  <2>4. k = who[pos[k]] /\ l = who[pos[l]]
    BY <1>3, <1>8, <2>3
  <2>5. GroupAsks(t, order[p], order[q])
    BY <1>7, <1>8, <2>3, <2>4
  <2>. QED  BY <1>6, <2>1, <2>2, <2>5 DEF ObeysItems
<1>9. GroupInOrder(order, s, grp, pos, g)
  BY <1>8 DEF GroupInOrder
<1>. QED  BY <1>5, <1>6, <1>9 DEF t

\* and of all of them.
LEMMA AllItemsSorted ==
  ASSUME NEW T, NEW s, NEW gs, NEW grp, NEW pos, Stands(gs, T, s, Entries(s), grp, pos),
         EntriesHaveIds(s), NEW gs1, gs1 = [k \in DOMAIN gs |-> SortItemsInGroup(gs[k])]
  PROVE  \E pos1 : Stands(gs1, T, s, Entries(s), grp, pos1) /\ ItemsInOrder(s, grp, pos1)
<1>. DEFINE K == Entries(s)
            N == Len(gs)
            Sorts(g, o) == Reordered(gs1[g], gs[g], o) /\ GroupInOrder(o, s, grp, pos, g)
            ord == [g \in 1..N |-> CHOOSE o : Sorts(g, o)]
<1>1. /\ gs \in Seq(Seq(T)) /\ grp \in [K -> 1..N] /\ pos \in [K -> Nat]
      /\ \A k \in K : pos[k] \in 1..Len(gs[grp[k]]) /\ gs[grp[k]][pos[k]] = s[k]
      /\ \A h \in 1..N : \A n \in 1..Len(gs[h]) : \E k \in K : grp[k] = h /\ pos[k] = n
      /\ \A k, l \in K : grp[k] = grp[l] /\ pos[k] = pos[l] => k = l
  BY DEF Stands
<1>2. N \in Nat /\ DOMAIN gs = 1..N
  BY <1>1
<1>3. ASSUME NEW g \in 1..N
      PROVE  gs1[g] \in Seq(T) /\ Sorts(g, ord[g])
  <2>1. gs1[g] = SortItemsInGroup(gs[g])
    BY <1>2
  <2>2. gs1[g] \in Seq(T) /\ \E o : Sorts(g, o)
    BY <2>1, OneGroupSorted
  <2>3. \E o : Sorts(g, o)
    BY <2>2
  <2>. HIDE DEF Sorts
  <2>. QED  BY <2>2, <2>3
<1>4. gs1 \in Seq(Seq(T)) /\ Len(gs1) = N
  <2>1. gs1 \in [1..N -> Seq(T)]
    BY <1>2, <1>3
  <2>. QED  BY <1>2, <2>1
<1>. HIDE DEF ord
<1>5. ASSUME NEW g \in 1..N
      PROVE  /\ Len(ord[g]) = Len(gs1[g]) /\ Len(gs1[g]) \in Nat
             /\ \A p \in 1..Len(gs1[g]) : ord[g][p] \in 1..Len(gs[g]) /\ gs1[g][p] = gs[g][ord[g][p]]
             /\ \A p, q \in 1..Len(gs1[g]) : ord[g][p] = ord[g][q] => p = q
             /\ \A n \in 1..Len(gs[g]) : \E p \in 1..Len(gs1[g]) : ord[g][p] = n
             /\ GroupInOrder(ord[g], s, grp, pos, g)
  <2>. DEFINE o == ord[g]
              t == gs1[g]
              u == gs[g]
  <2>6. Sorts(g, o) /\ t \in Seq(T)
    BY <1>3
  <2>7. u \in Seq(T)
    BY <1>1
  <2>1. Reordered(t, u, o) /\ GroupInOrder(o, s, grp, pos, g) /\ u \in Seq(T) /\ t \in Seq(T)
    BY ONLY <2>6, <2>7
  <2>. HIDE DEF o, t, u
  <2>2. o \in Seq(1..Len(u)) /\ Len(u) \in Nat
    BY <2>1 DEF Reordered
  <2>3. \A p \in 1..Len(o) : o[p] \in 1..Len(u)
    BY <2>2
  <2>4. Len(o) = Len(t) /\ Len(t) \in Nat
    BY <2>1 DEF Reordered
  <2>5. /\ \A p \in 1..Len(t) : o[p] \in 1..Len(u) /\ t[p] = u[o[p]]
        /\ \A p, q \in 1..Len(t) : o[p] = o[q] => p = q
        /\ \A n \in 1..Len(u) : \E p \in 1..Len(t) : o[p] = n
    BY <2>1, <2>3, <2>4 DEF Reordered
  <2>. QED  BY <2>1, <2>4, <2>5 DEF o, t, u
<1>. DEFINE pos1 == [k \in K |-> CHOOSE p \in 1..Len(gs1[grp[k]]) : ord[grp[k]][p] = pos[k]]
<1>6. ASSUME NEW k \in K
      PROVE  /\ grp[k] \in 1..N /\ pos1[k] \in 1..Len(gs1[grp[k]]) /\ ord[grp[k]][pos1[k]] = pos[k]
             /\ pos1[k] \in Nat /\ gs1[grp[k]][pos1[k]] = s[k]
  <2>3. grp[k] \in 1..N /\ pos[k] \in 1..Len(gs[grp[k]]) /\ gs[grp[k]][pos[k]] = s[k]
    BY <1>1
  <2>. HIDE DEF N
  <2>1. \E p \in 1..Len(gs1[grp[k]]) : ord[grp[k]][p] = pos[k]
    BY <1>5, <2>3
  <2>2. pos1[k] \in 1..Len(gs1[grp[k]]) /\ ord[grp[k]][pos1[k]] = pos[k]
    BY <2>1
  <2>. HIDE DEF pos1
  <2>4. Len(gs1[grp[k]]) \in Nat /\ gs1[grp[k]][pos1[k]] = gs[grp[k]][ord[grp[k]][pos1[k]]]
    BY <1>5, <2>2, <2>3
  <2>5. pos1[k] \in Nat
    BY <2>2, <2>4
  <2>. QED  BY <2>2, <2>3, <2>4, <2>5
<1>7. pos1 \in [K -> Nat]
  BY <1>6
<1>. HIDE DEF pos1
<1>8. ASSUME NEW g \in 1..N, NEW p \in 1..Len(gs1[g])  PROVE \E k \in K : grp[k] = g /\ pos1[k] = p
  <2>1. ord[g][p] \in 1..Len(gs[g])
    BY <1>5
  <2>2. PICK k \in K : grp[k] = g /\ pos[k] = ord[g][p]
    BY <1>1, <2>1
  <2>3. pos1[k] \in 1..Len(gs1[g]) /\ ord[g][pos1[k]] = ord[g][p]
    BY <1>6, <2>2
  <2>4. pos1[k] = p
    BY <1>5, <2>3
  <2>. QED  BY <2>2, <2>4
<1>9. \A k, l \in K : grp[k] = grp[l] /\ pos1[k] = pos1[l] => k = l
  <2>. SUFFICES ASSUME NEW k \in K, NEW l \in K, grp[k] = grp[l], pos1[k] = pos1[l]  PROVE k = l
    OBVIOUS
  <2>1. pos[k] = pos[l]
    BY <1>6
  <2>. QED  BY <1>1, <2>1
<1>10. Stands(gs1, T, s, Entries(s), grp, pos1)
  <2>1. grp \in [K -> 1..Len(gs1)] /\ 1..Len(gs1) = 1..N
    BY <1>1, <1>4
  <2>. HIDE DEF N
  <2>. QED  BY <1>4, <1>6, <1>7, <1>8, <1>9, <2>1 DEF Stands
<1>11. ASSUME NEW r \in [K -> Nat], \A p \in AskedOrder(s) : r[p[1]] < r[p[2]],
              NEW k \in K, NEW l \in K, <<k, l>> \in AskedOrder(s), grp[k] = grp[l]
       PROVE  pos1[k] < pos1[l]
  <2>. DEFINE g == grp[k]
              o == ord[g]
  <2>1. /\ g \in 1..N /\ GroupInOrder(o, s, grp, pos, g) /\ grp[l] = g
        /\ pos1[k] \in 1..Len(o) /\ pos1[l] \in 1..Len(o)
        /\ o[pos1[k]] = pos[k] /\ o[pos1[l]] = pos[l]
    <3>1. g \in 1..N /\ grp[l] = g /\ Len(o) = Len(gs1[g]) /\ GroupInOrder(o, s, grp, pos, g)
      BY <1>5, <1>6, <1>11
    <3>2. pos1[k] \in 1..Len(gs1[g]) /\ o[pos1[k]] = pos[k]
      BY <1>6
    <3>3. pos1[l] \in 1..Len(gs1[g]) /\ o[pos1[l]] = pos[l]
      BY <1>6, <1>11
    <3>. QED  BY <3>1, <3>2, <3>3
  <2>. HIDE DEF o, g
  <2>2. grp[k] = g
    BY DEF g
  <2>. QED  BY <1>11, <2>1, <2>2 DEF GroupInOrder
<1>12. ItemsInOrder(s, grp, pos1)
  BY <1>11 DEF ItemsInOrder
<1>. QED  BY <1>10, <1>12

\* An edge names two groups.
LEMMA EdgesOfStanding ==
  ASSUME NEW T, NEW s, NEW K, NEW gs, NEW grp, NEW pos, Stands(gs, T, s, K, grp, pos)
  PROVE  EdgesAreIn(gs)
<1>1. ASSUME NEW id, NEW i  PROVE GroupWith(gs, id, i) # 0 => GroupWith(gs, id, i) \in 1..Len(gs)
  BY GroupFound
<1>2. ASSUME NEW i \in 1..Len(gs), NEW n
      PROVE  \/ EdgeOfItem(gs, i, n) = <<0, 0>>
             \/ EdgeOfItem(gs, i, n) \in (1..Len(gs)) \X (1..Len(gs))
  BY <1>1 DEF EdgeOfItem
<1>3. ASSUME NEW i \in 1..Len(gs)
      PROVE  GroupEdge(gs, i) = <<0, 0>> \/ \E n : GroupEdge(gs, i) = EdgeOfItem(gs, i, n)
  BY DEF GroupEdge
<1>. QED  BY <1>2, <1>3 DEF EdgesAreIn

\* Items that stand in groups stand in them in any order of the groups.
LEMMA Regrouped ==
  ASSUME NEW T, NEW s, NEW K, NEW gs, NEW grp, NEW pos, Stands(gs, T, s, K, grp, pos),
         NEW gs2 \in Seq(Seq(T)), NEW order, Reordered(gs2, gs, order)
  PROVE  \E grp2 : /\ Stands(gs2, T, s, K, grp2, pos)
                   /\ grp2 \in [K -> 1..Len(order)]
                   /\ \A k \in K : order[grp2[k]] = grp[k]
<1>1. /\ gs \in Seq(Seq(T)) /\ grp \in [K -> 1..Len(gs)] /\ pos \in [K -> Nat]
      /\ \A k \in K : pos[k] \in 1..Len(gs[grp[k]]) /\ gs[grp[k]][pos[k]] = s[k]
      /\ \A g \in 1..Len(gs) : \A n \in 1..Len(gs[g]) : \E k \in K : grp[k] = g /\ pos[k] = n
      /\ \A k, l \in K : grp[k] = grp[l] /\ pos[k] = pos[l] => k = l
  BY DEF Stands
<1>2. /\ Len(gs2) = Len(order) /\ Len(order) \in Nat /\ Len(gs) \in Nat
      /\ \A p \in 1..Len(order) : order[p] \in 1..Len(gs) /\ gs2[p] = gs[order[p]]
      /\ \A p, q \in 1..Len(order) : order[p] = order[q] => p = q
      /\ \A g \in 1..Len(gs) : \E p \in 1..Len(order) : order[p] = g
  <2>1. order \in Seq(1..Len(gs)) /\ Len(gs) \in Nat
    BY <1>1 DEF Reordered
  <2>2. Len(order) \in Nat /\ \A p \in 1..Len(order) : order[p] \in 1..Len(gs)
    BY <2>1
  <2>. QED  BY <2>1, <2>2 DEF Reordered
<1>. DEFINE grp2 == [k \in K |-> CHOOSE p \in 1..Len(order) : order[p] = grp[k]]
<1>3. ASSUME NEW k \in K
      PROVE  grp2[k] \in 1..Len(order) /\ order[grp2[k]] = grp[k] /\ gs2[grp2[k]] = gs[grp[k]]
  <2>1. \E p \in 1..Len(order) : order[p] = grp[k]
    BY <1>1, <1>2
  <2>2. grp2[k] \in 1..Len(order) /\ order[grp2[k]] = grp[k]
    BY <2>1
  <2>. HIDE DEF grp2
  <2>. QED  BY <1>2, <2>2
<1>4. grp2 \in [K -> 1..Len(order)]
  BY <1>3
<1>. HIDE DEF grp2
<1>5. ASSUME NEW g \in 1..Len(gs2), NEW n \in 1..Len(gs2[g])
      PROVE  \E k \in K : grp2[k] = g /\ pos[k] = n
  <2>1. g \in 1..Len(order) /\ n \in 1..Len(gs[order[g]]) /\ order[g] \in 1..Len(gs)
    BY <1>2
  <2>2. PICK k \in K : grp[k] = order[g] /\ pos[k] = n
    BY <1>1, <2>1
  <2>3. grp2[k] = g
    BY <1>2, <1>3, <2>1, <2>2
  <2>. QED  BY <2>2, <2>3
<1>6. ASSUME NEW k \in K, NEW l \in K, grp2[k] = grp2[l], pos[k] = pos[l]  PROVE k = l
  <2>1. grp[k] = grp[l]
    BY <1>3, <1>6
  <2>. QED  BY <1>1, <1>6, <2>1
<1>7. \A k \in K : pos[k] \in 1..Len(gs2[grp2[k]]) /\ gs2[grp2[k]][pos[k]] = s[k]
  BY <1>1, <1>3
<1>8. grp2 \in [K -> 1..Len(gs2)]
  BY <1>2, <1>4
<1>9. Stands(gs2, T, s, K, grp2, pos)
  BY <1>1, <1>5, <1>6, <1>7, <1>8 DEF Stands
<1>. QED  BY <1>3, <1>4, <1>9

(* Where the items of s are in the sorted sequence sf: by group and place  *)
(* in it, with the groups in the given order.                              *)
SortedInto(sf, T, s, gs, grp, pos, order, place) ==
  /\ Stands(gs, T, s, Entries(s), grp, pos)
  /\ \A k, l \in Entries(s) : SameSegment(s, k, l) => grp[k] = grp[l]
  /\ \A C \in SUBSET Entries(s) :
       IsClosed(s, C) => \A k \in C, l \in Entries(s) \ C : grp[k] # grp[l]
  /\ \A k, l \in Entries(s) : AsksFor(s, k, l) => grp[k] = grp[l]
  /\ ItemsInOrder(s, grp, pos) /\ ObeysGroups(gs, order)
  /\ \E grp2 \in [Entries(s) -> 1..Len(order)] :
       (\A k \in Entries(s) : order[grp2[k]] = grp[k]) /\ IsPlaced(place, sf, s, grp2, pos)
  /\ \A p, q \in 1..Len(order) : order[p] = order[q] => p = q

\* sortMenuItems puts the items of a template where SortedInto says.
LEMMA SortedPlaces ==
  ASSUME NEW T, Separator \in T, NEW s \in Seq(T), EntriesHaveIds(s)
  PROVE  /\ SortMenuItems(s) \in Seq(T)
         /\ \E gs, grp, pos, order, place :
              SortedInto(SortMenuItems(s), T, s, gs, grp, pos, order, place)
<1>. DEFINE gs0 == SplitArray(s)
            merged == MergeGroups(gs0)
            gs1 == [k \in DOMAIN merged |-> SortItemsInGroup(merged[k])]
            gs2 == SortGroups(gs1)
            separators == {k \in DOMAIN s : IsSeparator(s[k])}
            seps == Filter(s, separators)
            sf == SortMenuItems(s)
            K == Entries(s)
            U == Seq(T)
<1>1. sf = JoinArrays(gs2, seps)
  BY DEF SortMenuItems
<1>2. gs0 \in Arrangements(T, s)
  <2>1. PICK grp, pos : IsArranged(gs0, T, s, grp, pos)
    BY SplitIsArranged
  <2>. HIDE DEF gs0
  <2>2. gs0 \in Seq(Seq(T))
    BY <2>1 DEF IsArranged, Stands
  <2>. QED  BY <2>1, <2>2 DEF Arrangements
<1>. HIDE DEF gs0
<1>3. merged \in Arrangements(T, s) /\ NoneAsks(merged)
  BY <1>2, MergeRuns
<1>. HIDE DEF merged
<1>4. PICK grp, pos0 : IsArranged(merged, T, s, grp, pos0)
  BY <1>3 DEF Arrangements
<1>5. /\ Stands(merged, T, s, K, grp, pos0)
      /\ \A k, l \in K : SameSegment(s, k, l) => grp[k] = grp[l]
      /\ \A C \in SUBSET K : IsClosed(s, C) => \A k \in C, l \in K \ C : grp[k] # grp[l]
  BY <1>4 DEF IsArranged
<1>6. ASSUME NEW k \in K, NEW l \in K, AsksFor(s, k, l)  PROVE grp[k] = grp[l]
  <2>. DEFINE t == MergeTarget(merged, grp[k], pos0[k])
  <2>1. grp[k] \in DOMAIN merged /\ pos0[k] \in DOMAIN merged[grp[k]]
    <3>1. /\ merged \in Seq(Seq(T)) /\ grp[k] \in 1..Len(merged)
          /\ pos0[k] \in 1..Len(merged[grp[k]])
      BY <1>5 DEF Stands
    <3>2. merged[grp[k]] \in Seq(T)
      BY <3>1
    <3>. QED  BY <3>1, <3>2
  <2>2. t = 0
    BY <1>3, <2>1 DEF NoneAsks
  <2>. HIDE DEF t
  <2>3. t = MergeTarget(merged, grp[k], pos0[k])
    BY DEF t
  <2>4. \A j \in K : AsksFor(s, k, j) => grp[j] = grp[k]
    <3>. HIDE DEF K
    <3>. QED  BY <1>5, <2>2, <2>3, TargetFound
  <2>. QED  BY <1>6, <2>4
<1>7. PICK pos : Stands(gs1, T, s, K, grp, pos) /\ ItemsInOrder(s, grp, pos)
  <2>1. Stands(merged, T, s, Entries(s), grp, pos0)
    BY <1>5
  <2>. HIDE DEF gs1
  <2>2. gs1 = [k \in DOMAIN merged |-> SortItemsInGroup(merged[k])]
    BY DEF gs1
  <2>3. \E pos1 : Stands(gs1, T, s, Entries(s), grp, pos1) /\ ItemsInOrder(s, grp, pos1)
    BY <2>1, <2>2, AllItemsSorted
  <2>. QED  BY <2>3
<1>. HIDE DEF gs1
<1>8. gs1 \in Seq(U) /\ EdgesAreIn(gs1)
  <2>1. EdgesAreIn(gs1)
    <3>. HIDE DEF K
    <3>. QED  BY <1>7, EdgesOfStanding
  <2>. QED  BY <1>7, <2>1 DEF Stands
<1>. HIDE DEF U
<1>9. gs2 \in Seq(U) /\ \E order : Reordered(gs2, gs1, order) /\ ObeysGroups(gs1, order)
  BY <1>8, GroupsSorted
<1>. HIDE DEF gs2
<1>10. PICK order : Reordered(gs2, gs1, order) /\ ObeysGroups(gs1, order)
  BY <1>9
<1>11. gs2 \in Seq(Seq(T))
  BY <1>9 DEF U
<1>12. PICK grp2 : /\ Stands(gs2, T, s, K, grp2, pos)
                   /\ grp2 \in [K -> 1..Len(order)]
                   /\ \A k \in K : order[grp2[k]] = grp[k]
  <2>. HIDE DEF K
  <2>1. \E grp2 : /\ Stands(gs2, T, s, K, grp2, pos)
                  /\ grp2 \in [K -> 1..Len(order)]
                  /\ \A k \in K : order[grp2[k]] = grp[k]
    BY <1>7, <1>10, <1>11, Regrouped, SMTT(30)
  <2>. QED  BY <2>1
<1>13. seps \in Seq(T) /\ \A k \in 1..Len(seps) : IsSeparator(seps[k])
  <2>1. seps \in Seq(T) /\ \E from : IsFiltered(seps, s, separators, from)
    <3>. HIDE DEF separators
    <3>. QED  BY Filtered
  <2>2. PICK from : IsFiltered(seps, s, separators, from)
    BY <2>1
  <2>. HIDE DEF seps
  <2>3. \A k \in 1..Len(seps) : from[k] \in separators /\ seps[k] = s[from[k]]
    BY <2>2 DEF IsFiltered
  <2>. QED  BY <2>1, <2>3
<1>. HIDE DEF seps
<1>14. sf \in Seq(T) /\ \E base : IsInRow(sf, gs2, base)
  BY <1>1, <1>11, <1>13, JoinedInRow
<1>. HIDE DEF sf
<1>15. PICK base : IsInRow(sf, gs2, base)
  BY <1>14
<1>16. PICK place : IsPlaced(place, sf, s, grp2, pos)
  BY <1>12, <1>14, <1>15, RowPlaces
<1>17. \A p, q \in 1..Len(order) : order[p] = order[q] => p = q
  BY <1>10 DEF Reordered
<1>18. SortedInto(sf, T, s, gs1, grp, pos, order, place)
  BY <1>5, <1>6, <1>7, <1>10, <1>12, <1>16, <1>17 DEF SortedInto
<1>. QED  BY <1>14, <1>18 DEF sf

\* That keeps the items,
LEMMA SortedKeepsItems ==
  ASSUME NEW T, NEW sf, NEW gs, NEW grp, NEW pos, NEW order, NEW place,
         SortedInto(sf, T, template, gs, grp, pos, order, place)
  PROVE  SortKeepsItems(sf)
<1>. DEFINE K == Entries(template)
<1>1. PICK grp2 \in [K -> 1..Len(order)] :
        (\A k \in K : order[grp2[k]] = grp[k]) /\ IsPlaced(place, sf, template, grp2, pos)
  BY DEF SortedInto
<1>2. /\ place \in Bijection(K, Entries(sf)) /\ \A k \in K : sf[place[k]] = template[k]
      /\ \A k, l \in K : SameSegment(sf, place[k], place[l]) <=> grp2[k] = grp2[l]
  BY <1>1 DEF IsPlaced
<1>3. ASSUME NEW k \in K, NEW l \in K  PROVE grp2[k] = grp2[l] <=> grp[k] = grp[l]
  BY <1>1 DEF SortedInto
<1>4. \A k, l \in K : SameSegment(template, k, l) => SameSegment(sf, place[k], place[l])
  BY <1>2, <1>3 DEF SortedInto
<1>5. ASSUME NEW C \in SUBSET K, IsClosed(template, C), NEW k \in C, NEW l \in K \ C
      PROVE  ~SameSegment(sf, place[k], place[l])
  <2>1. grp[k] # grp[l]
    BY <1>5 DEF SortedInto
  <2>. QED  BY <1>2, <1>3, <2>1
<1>6. \A C \in SUBSET K :
        (\A k \in C, l \in K \ C :
           ~SameSegment(template, k, l) /\ {<<k, l>>, <<l, k>>} \cap AskedOrder(template) = {}) =>
          \A k \in C, l \in K \ C : ~SameSegment(sf, place[k], place[l])
  BY <1>5 DEF IsClosed
<1>. QED  BY <1>2, <1>4, <1>6 DEF SortKeepsItems

\* moves their requests with them,
LEMMA AskedThere ==
  ASSUME NEW s, NEW sf, NEW place \in Bijection(Entries(s), Entries(sf)),
         \A k \in Entries(s) : sf[place[k]] = s[k],
         NEW k \in Entries(s), NEW l \in Entries(s)
  PROVE  <<k, l>> \in AskedOrder(s) <=> <<place[k], place[l]>> \in AskedOrder(sf)
<1>1. place \in [Entries(s) -> Entries(sf)]
  BY DEF Bijection, Injection
<1>. DEFINE u == place[k]
            v == place[l]
<1>2. u \in Entries(sf) /\ v \in Entries(sf) /\ sf[u] = s[k] /\ sf[v] = s[l]
  BY <1>1
<1>. HIDE DEF u, v
<1>3. <<k, l>> \in AskedOrder(s) <=> \/ s[l].id # "none" /\ s[k].before = s[l].id
                                     \/ s[k].id # "none" /\ s[l].after = s[k].id
  BY DEF AskedOrder
<1>4. <<u, v>> \in AskedOrder(sf) <=> \/ sf[v].id # "none" /\ sf[u].before = sf[v].id
                                      \/ sf[u].id # "none" /\ sf[v].after = sf[u].id
  BY <1>2 DEF AskedOrder
<1>. QED  BY <1>2, <1>3, <1>4 DEF u, v

\* and obeys them,
LEMMA SortedItemsObey ==
  ASSUME NEW T, NEW s, NEW sf \in Seq(T), NEW gs, NEW grp, NEW pos, NEW order, NEW place,
         SortedInto(sf, T, s, gs, grp, pos, order, place)
  PROVE  ItemsObey(sf)
<1>. DEFINE K == Entries(s)
            L == Entries(sf)
<1>1. PICK grp2 \in [K -> 1..Len(order)] :
        (\A k \in K : order[grp2[k]] = grp[k]) /\ IsPlaced(place, sf, s, grp2, pos)
  BY DEF SortedInto
<1>2. /\ place \in Bijection(K, L) /\ \A k \in K : sf[place[k]] = s[k]
      /\ \A k, l \in K : SameSegment(sf, place[k], place[l]) <=> grp2[k] = grp2[l]
      /\ \A k, l \in K :
           place[k] < place[l] <=> grp2[k] < grp2[l] \/ (grp2[k] = grp2[l] /\ pos[k] < pos[l])
  BY <1>1 DEF IsPlaced
<1>3. ASSUME NEW k \in K, NEW l \in K  PROVE grp2[k] = grp2[l] <=> grp[k] = grp[l]
  BY <1>1 DEF SortedInto
<1>4. place \in [K -> L] /\ \A e \in L : \E k \in K : place[k] = e
  BY <1>2 DEF Bijection, Injection, Surjection
<1>5. ASSUME NEW k \in K, NEW l \in K
      PROVE  <<k, l>> \in AskedOrder(s) <=> <<place[k], place[l]>> \in AskedOrder(sf)
  BY <1>2, AskedThere
<1>6. ASSUME NEW k \in K, NEW l \in K, <<k, l>> \in AskedOrder(s)  PROVE grp[k] = grp[l]
  <2>1. \/ s[l].id # "none" /\ s[k].before = s[l].id
        \/ s[k].id # "none" /\ s[l].after = s[k].id
    BY <1>6 DEF AskedOrder
  <2>2. AsksFor(s, k, l) \/ AsksFor(s, l, k)
    BY <2>1 DEF AsksFor
  <2>. QED  BY <2>2 DEF SortedInto
<1>7. ASSUME NEW p \in AskedOrder(sf)
      PROVE  \E k, l \in K : /\ place[k] = p[1] /\ place[l] = p[2] /\ <<k, l>> \in AskedOrder(s)
                             /\ grp[k] = grp[l]
  <2>1. p[1] \in L /\ p[2] \in L /\ p = <<p[1], p[2]>>
    BY DEF AskedOrder
  <2>2. PICK k \in K : place[k] = p[1]
    BY <1>4, <2>1
  <2>3. PICK l \in K : place[l] = p[2]
    BY <1>4, <2>1
  <2>4. <<k, l>> \in AskedOrder(s)
    BY <1>5, <2>1, <2>2, <2>3
  <2>. QED  BY <1>6, <2>2, <2>3, <2>4
<1>8. \A p \in AskedOrder(sf) : SameSegment(sf, p[1], p[2])
  <2>. SUFFICES ASSUME NEW p \in AskedOrder(sf)  PROVE SameSegment(sf, p[1], p[2])
    OBVIOUS
  <2>1. PICK k \in K, l \in K : /\ place[k] = p[1] /\ place[l] = p[2] /\ grp[k] = grp[l]
    BY <1>7
  <2>. QED  BY <1>2, <1>3, <2>1
<1>9. ASSUME NEW there \in [L -> DOMAIN sf], \A p \in AskedOrder(sf) : there[p[1]] < there[p[2]],
             NEW p \in AskedOrder(sf)
      PROVE  p[1] < p[2]
  <2>. DEFINE r == [k \in K |-> there[place[k]]]
  <2>1. r \in [K -> Nat]
    <3>1. \A k \in K : there[place[k]] \in DOMAIN sf
      BY <1>4
    <3>2. DOMAIN sf \subseteq Nat
      OBVIOUS
    <3>. QED  BY <3>1, <3>2
  <2>2. ASSUME NEW q \in AskedOrder(s)  PROVE r[q[1]] < r[q[2]]
    <3>. DEFINE k == q[1]
                l == q[2]
    <3>1. k \in K /\ l \in K /\ <<k, l>> \in AskedOrder(s)
      BY DEF AskedOrder
    <3>. HIDE DEF k, l
    <3>. DEFINE e == <<place[k], place[l]>>
    <3>2. e \in AskedOrder(sf) /\ e[1] = place[k] /\ e[2] = place[l]
      BY <1>5, <3>1
    <3>3. there[e[1]] < there[e[2]]
      BY <1>9, <3>2
    <3>. QED  BY <3>1, <3>2, <3>3 DEF k, l
  <2>3. PICK k \in K, l \in K : /\ place[k] = p[1] /\ place[l] = p[2] /\ <<k, l>> \in AskedOrder(s)
                                /\ grp[k] = grp[l]
    BY <1>7
  <2>. HIDE DEF r
  <2>4. pos[k] < pos[l]
    <3>1. ItemsInOrder(s, grp, pos)
      BY DEF SortedInto
    <3>. QED  BY <2>1, <2>2, <2>3, <3>1 DEF ItemsInOrder
  <2>5. grp2[k] = grp2[l]
    BY <1>3, <2>3
  <2>. QED  BY <1>2, <2>3, <2>4, <2>5
<1>10. Possible(sf, AskedOrder(sf), FALSE) => \A p \in AskedOrder(sf) : p[1] < p[2]
  <2>. SUFFICES ASSUME Possible(sf, AskedOrder(sf), FALSE), NEW p \in AskedOrder(sf)
                PROVE  p[1] < p[2]
    OBVIOUS
  <2>1. PICK there \in [L -> DOMAIN sf] : \A q \in AskedOrder(sf) : there[q[1]] < there[q[2]]
    BY DEF Possible
  <2>. QED  BY <1>9, <2>1
<1>. QED  BY <1>8, <1>10 DEF ItemsObey

\* The requests of groups are pairs of items.
LEMMA AskedGroupsAre ==
  ASSUME NEW s, NEW p \in AskedGroups(s)
  PROVE  p[1] \in Entries(s) /\ p[2] \in Entries(s)
<1>1. PICK k \in Entries(s) : p \in AskedByItem(s, k)
  BY DEF AskedGroups
<1>2. \A id : Named(s, k, id) \subseteq Entries(s)
  BY DEF Named
<1>. QED  BY <1>1, <1>2 DEF AskedByItem

\* The sorted items stand in the groups of before they were put in order,
LEMMA SortedInSegments ==
  ASSUME NEW T, NEW s, NEW sf, NEW gs, NEW grp, NEW pos, NEW order, NEW place,
         EntriesHaveIds(s), SortedInto(sf, T, s, gs, grp, pos, order, place)
  PROVE  \E grp1, pos1 : /\ InSegments(gs, T, sf, grp1, pos1)
                         /\ \A k \in Entries(s) : grp1[place[k]] = grp[k]
<1>. DEFINE K == Entries(s)
            L == Entries(sf)
            who == [e \in L |-> CHOOSE k \in K : place[k] = e]
            grp1 == [e \in L |-> grp[who[e]]]
            pos1 == [e \in L |-> pos[who[e]]]
<1>1. PICK grp2 \in [K -> 1..Len(order)] :
        (\A k \in K : order[grp2[k]] = grp[k]) /\ IsPlaced(place, sf, s, grp2, pos)
  BY DEF SortedInto
<1>2. /\ place \in Bijection(K, L) /\ \A k \in K : sf[place[k]] = s[k]
      /\ \A k, l \in K : SameSegment(sf, place[k], place[l]) <=> grp2[k] = grp2[l]
      /\ \A k, l \in K :
           place[k] < place[l] <=> grp2[k] < grp2[l] \/ (grp2[k] = grp2[l] /\ pos[k] < pos[l])
  BY <1>1 DEF IsPlaced
<1>3. ASSUME NEW k \in K, NEW l \in K  PROVE grp2[k] = grp2[l] <=> grp[k] = grp[l]
  BY <1>1 DEF SortedInto
<1>4. /\ place \in [K -> L] /\ \A e \in L : \E k \in K : place[k] = e
      /\ \A k, l \in K : place[k] = place[l] => k = l
  BY <1>2 DEF Bijection, Injection, Surjection, IsInjective
<1>5. Stands(gs, T, s, K, grp, pos)
  BY DEF SortedInto
<1>6. /\ gs \in Seq(Seq(T)) /\ grp \in [K -> 1..Len(gs)] /\ pos \in [K -> Nat]
      /\ \A k \in K : pos[k] \in 1..Len(gs[grp[k]]) /\ gs[grp[k]][pos[k]] = s[k]
      /\ \A g \in 1..Len(gs) : \A n \in 1..Len(gs[g]) : \E k \in K : grp[k] = g /\ pos[k] = n
      /\ \A k, l \in K : grp[k] = grp[l] /\ pos[k] = pos[l] => k = l
  BY <1>5 DEF Stands
<1>7. ASSUME NEW e \in L
      PROVE  who[e] \in K /\ place[who[e]] = e /\ grp1[e] = grp[who[e]] /\ pos1[e] = pos[who[e]]
  <2>1. \E k \in K : place[k] = e
    BY <1>4
  <2>. QED  BY <2>1
<1>8. grp1 \in [L -> 1..Len(gs)] /\ pos1 \in [L -> Nat]
  BY <1>6, <1>7
<1>. HIDE DEF who, grp1, pos1
<1>9. ASSUME NEW k \in K  PROVE place[k] \in L /\ who[place[k]] = k
  BY <1>4, <1>7
<1>10. Stands(gs, T, sf, L, grp1, pos1)
  <2>1. \A e \in L : pos1[e] \in 1..Len(gs[grp1[e]]) /\ gs[grp1[e]][pos1[e]] = sf[e]
    <3>. SUFFICES ASSUME NEW e \in L
                  PROVE  pos1[e] \in 1..Len(gs[grp1[e]]) /\ gs[grp1[e]][pos1[e]] = sf[e]
      OBVIOUS
    <3>. DEFINE k == who[e]
    <3>1. k \in K /\ place[k] = e /\ grp1[e] = grp[k] /\ pos1[e] = pos[k]
      BY <1>7
    <3>. HIDE DEF k
    <3>2. sf[e] = s[k]
      BY <1>2, <3>1
    <3>3. pos[k] \in 1..Len(gs[grp[k]]) /\ gs[grp[k]][pos[k]] = s[k]
      BY <1>6, <3>1
    <3>. QED  BY ONLY <3>1, <3>2, <3>3
  <2>2. ASSUME NEW g \in 1..Len(gs), NEW n \in 1..Len(gs[g])
        PROVE  \E e \in L : grp1[e] = g /\ pos1[e] = n
    <3>1. PICK k \in K : grp[k] = g /\ pos[k] = n
      BY <1>6
    <3>. QED  BY <1>7, <1>9, <3>1
  <2>3. \A e, f \in L : grp1[e] = grp1[f] /\ pos1[e] = pos1[f] => e = f
    <3>. SUFFICES ASSUME NEW e \in L, NEW f \in L, grp1[e] = grp1[f], pos1[e] = pos1[f]
                  PROVE  e = f
      OBVIOUS
    <3>1. grp[who[e]] = grp[who[f]] /\ pos[who[e]] = pos[who[f]] /\ who[e] \in K /\ who[f] \in K
      BY <1>7
    <3>2. who[e] = who[f]
      BY <1>6, <3>1
    <3>. QED  BY <1>7, <3>2
  <2>. QED  BY <1>6, <1>8, <2>1, <2>2, <2>3 DEF Stands
<1>11. EntriesHaveIds(sf)
  <2>. SUFFICES ASSUME NEW e \in L, NEW f \in L, sf[e].id = sf[f].id, sf[e].id # "none"
                PROVE  e = f
    BY DEF EntriesHaveIds
  <2>1. sf[e] = s[who[e]] /\ sf[f] = s[who[f]]
    BY <1>2, <1>7
  <2>2. who[e] = who[f]
    BY <1>7, <2>1 DEF EntriesHaveIds
  <2>. QED  BY <1>7, <2>2
<1>12. ASSUME NEW e \in L, NEW f \in L
       PROVE  /\ SameSegment(sf, e, f) <=> grp1[e] = grp1[f]
              /\ grp1[e] = grp1[f] => (e < f <=> pos1[e] < pos1[f])
  <2>. DEFINE k == who[e]
              l == who[f]
  <2>1. /\ k \in K /\ l \in K /\ place[k] = e /\ place[l] = f
        /\ grp1[e] = grp[k] /\ grp1[f] = grp[l] /\ pos1[e] = pos[k] /\ pos1[f] = pos[l]
    BY <1>7
  <2>. HIDE DEF k, l
  <2>2. grp2[k] = grp2[l] <=> grp[k] = grp[l]
    BY <1>3, <2>1
  <2>3. SameSegment(sf, e, f) <=> grp2[k] = grp2[l]
    BY <1>2, <2>1
  <2>4. e < f <=> grp2[k] < grp2[l] \/ (grp2[k] = grp2[l] /\ pos[k] < pos[l])
    BY <1>2, <2>1
  <2>5. grp2[k] = grp2[l] => ~(grp2[k] < grp2[l])
    <3>1. grp2[k] \in Nat
      BY <1>1, <2>1
    <3>. QED  BY <3>1
  <2>. QED  BY <2>1, <2>2, <2>3, <2>4, <2>5
<1>13. InSegments(gs, T, sf, grp1, pos1)
  BY <1>10, <1>11, <1>12 DEF InSegments
<1>14. \A k \in K : grp1[place[k]] = grp[k]
  BY <1>7, <1>9
<1>. QED  BY <1>13, <1>14

\* and their order is what the groups ask for.
LEMMA SortedGroupsObey ==
  ASSUME NEW T, NEW s, NEW sf \in Seq(T), NEW gs, NEW grp, NEW pos, NEW order, NEW place,
         EntriesHaveIds(s), SortedInto(sf, T, s, gs, grp, pos, order, place)
  PROVE  GroupsObey(sf)
<1>. DEFINE K == Entries(s)
            L == Entries(sf)
            N == Len(gs)
            A == AskedGroups(sf)
<1>1. PICK grp2 \in [K -> 1..Len(order)] :
        (\A k \in K : order[grp2[k]] = grp[k]) /\ IsPlaced(place, sf, s, grp2, pos)
  BY DEF SortedInto
<1>2. /\ place \in Bijection(K, L)
      /\ \A k, l \in K :
           place[k] < place[l] <=> grp2[k] < grp2[l] \/ (grp2[k] = grp2[l] /\ pos[k] < pos[l])
  BY <1>1 DEF IsPlaced
<1>3. place \in [K -> L] /\ \A e \in L : \E k \in K : place[k] = e
  BY <1>2 DEF Bijection, Injection, Surjection
<1>4. PICK grp1, pos1 : InSegments(gs, T, sf, grp1, pos1) /\ \A k \in K : grp1[place[k]] = grp[k]
  BY SortedInSegments
<1>5. /\ grp1 \in [L -> 1..N]
      /\ \A e, f \in L : SameSegment(sf, e, f) <=> grp1[e] = grp1[f]
  BY <1>4 DEF InSegments, Stands
<1>6. /\ \A i \in 1..N : GroupEdge(gs, i) # <<0, 0>> =>
           /\ GroupEdge(gs, i) \in (1..N) \X (1..N)
           /\ \E p \in A : GroupEdge(gs, i) = <<grp1[p[2]], grp1[p[1]]>>
      /\ \A p \in A : \E i \in 1..N : GroupEdge(gs, i) = <<grp1[p[2]], grp1[p[1]]>>
  BY <1>4, GroupEdgeAsked
<1>7. \A p \in A : p[1] \in L /\ p[2] \in L
  BY AskedGroupsAre
<1>8. ASSUME NEW there \in [L -> DOMAIN sf], \A q \in A : there[q[1]] < there[q[2]],
             \A e, f \in L : SameSegment(sf, e, f) => there[e] = there[f],
             NEW p \in A
      PROVE  p[1] < p[2]
  <2>. DEFINE In(g) == {e \in L : grp1[e] = g}
              r == [g \in 1..N |-> IF In(g) = {} THEN 0 ELSE there[CHOOSE e \in In(g) : TRUE]]
  <2>0. \A e \in L : there[e] \in Nat
    BY <1>8
  <2>1. r \in [1..N -> Nat]
    <3>1. \A g \in 1..N : In(g) # {} => (CHOOSE e \in In(g) : TRUE) \in L
      OBVIOUS
    <3>. QED  BY <2>0, <3>1
  <2>2. ASSUME NEW e \in L  PROVE r[grp1[e]] = there[e]
    <3>. DEFINE f == CHOOSE f \in In(grp1[e]) : TRUE
    <3>1. e \in In(grp1[e])
      OBVIOUS
    <3>2. f \in L /\ grp1[f] = grp1[e]
      BY <3>1
    <3>3. r[grp1[e]] = there[f]
      BY <1>5, <3>1
    <3>. HIDE DEF f
    <3>. QED  BY <1>5, <1>8, <3>2, <3>3
  <2>. HIDE DEF r
  <2>3. ASSUME NEW i \in 1..N, GroupEdge(gs, i) # <<0, 0>>
        PROVE  r[GroupEdge(gs, i)[2]] < r[GroupEdge(gs, i)[1]]
    <3>1. PICK q \in A : GroupEdge(gs, i) = <<grp1[q[2]], grp1[q[1]]>>
      BY <1>6, <2>3
    <3>2. r[grp1[q[1]]] < r[grp1[q[2]]]
      BY <1>7, <1>8, <2>2
    <3>. QED  BY <3>1, <3>2
  <2>4. p[1] \in L /\ p[2] \in L
    BY <1>7
  <2>5. PICK i \in 1..N : GroupEdge(gs, i) = <<grp1[p[2]], grp1[p[1]]>>
    BY <1>6
  <2>6. PICK k \in K : place[k] = p[1]
    BY <1>3, <2>4
  <2>7. PICK l \in K : place[l] = p[2]
    BY <1>3, <2>4
  <2>8. /\ grp2[k] \in 1..Len(order) /\ grp2[l] \in 1..Len(order)
        /\ grp1[p[1]] = order[grp2[k]] /\ grp1[p[2]] = order[grp2[l]]
    BY <1>1, <1>4, <2>6, <2>7
  <2>9. ObeysGroups(gs, order)
    BY DEF SortedInto
  <2>10. grp2[k] < grp2[l]
    <3>1. GroupEdge(gs, i) = <<order[grp2[l]], order[grp2[k]]>>
      BY <2>5, <2>8
    <3>. QED  BY <2>1, <2>3, <2>8, <2>9, <3>1 DEF ObeysGroups
  <2>. QED  BY <1>2, <2>6, <2>7, <2>10
<1>9. Possible(sf, A, TRUE) => \A p \in A : p[1] < p[2]
  <2>. SUFFICES ASSUME Possible(sf, A, TRUE), NEW p \in A  PROVE p[1] < p[2]
    OBVIOUS
  <2>1. PICK there \in [L -> DOMAIN sf] :
          /\ \A q \in A : there[q[1]] < there[q[2]]
          /\ \A e, f \in L : SameSegment(sf, e, f) => there[e] = there[f]
    <3>. HIDE DEF A
    <3>. QED  BY DEF Possible
  <2>. HIDE DEF A
  <2>. QED  BY <1>8, <2>1
<1>. QED  BY <1>9 DEF GroupsObey

-----------------------------------------------------------------------------
(* removeExtraSeparators, and the theorem.                                 *)
\* Neighbours that both stay are neighbours still.
LEMMA FilteredNext ==
  ASSUME NEW T, NEW s \in Seq(T), NEW t \in Seq(T), NEW places, NEW from,
         IsFiltered(t, s, places, from),
         NEW n \in 1..Len(t), NEW j \in 1..Len(t), from[j] = from[n] + 1
  PROVE  j = n + 1
<1>1. /\ Len(t) \in Nat /\ \A i \in 1..Len(t) : from[i] \in Nat
      /\ \A i, k \in 1..Len(t) : i < k => from[i] < from[k]
  <2>1. DOMAIN s \subseteq Nat
    OBVIOUS
  <2>. QED  BY <2>1 DEF IsFiltered
<1>2. n < j
  <2>1. SUFFICES ASSUME ~(n < j)  PROVE FALSE
    OBVIOUS
  <2>2. j < n \/ j = n
    BY <2>1
  <2>3. from[n] < from[j] /\ ~(from[j] < from[n]) /\ from[j] # from[n]
    BY <1>1
  <2>. QED  BY <1>1, <2>2, <2>3
<1>3. ~(n + 1 < j)
  <2>1. SUFFICES ASSUME n + 1 < j  PROVE FALSE
    OBVIOUS
  <2>2. n + 1 \in 1..Len(t) /\ n < n + 1
    BY <1>1, <2>1
  <2>3. from[n] < from[n + 1] /\ from[n + 1] < from[j]
    BY <1>1, <2>1, <2>2
  <2>4. from[n] \in Nat /\ from[n + 1] \in Nat
    BY <1>1, <2>2
  <2>. QED  BY <2>3, <2>4
<1>. QED  BY <1>1, <1>2, <1>3

\* No separator is at the start or end, or beside another.
NoneTogether(s) ==
  \A k \in DOMAIN s : s[k].sep => /\ k \notin {1, Len(s)}
                                  /\ ~s[k - 1].sep /\ ~s[k + 1].sep

\* removeExtraSeparators leaves none too many where all items are visible.
LEMMA ExtraSeparatorsRemoved ==
  ASSUME NEW T, \A x \in T : x.visible, NEW s \in Seq(T)
  PROVE  NoneTogether(RemoveExtraSeparators(s))
<1>. DEFINE stays(t) == {k \in DOMAIN t : ~t[k].visible \/ ~t[k].sep}
            P == stays(s) \cup {k \in DOMAIN s : k = 1 \/ ~s[k - 1].sep}
            ret == Filter(s, P)
            Q == stays(ret) \cup (DOMAIN ret \ {1, Len(ret)})
            menu == Filter(ret, Q)
<1>1. menu = RemoveExtraSeparators(s)
  BY DEF RemoveExtraSeparators
<1>2. ASSUME NEW t \in Seq(T), NEW k  PROVE k \in stays(t) <=> k \in 1..Len(t) /\ ~t[k].sep
  <2>1. k \in DOMAIN t => t[k].visible
    OBVIOUS
  <2>. QED  BY <2>1
<1>3. \A k : k \in P <=> k \in 1..Len(s) /\ (~s[k].sep \/ k = 1 \/ ~s[k - 1].sep)
  <2>1. DOMAIN s = 1..Len(s)
    OBVIOUS
  <2>2. \A k : k \in stays(s) <=> k \in 1..Len(s) /\ ~s[k].sep
    BY <1>2
  <2>. HIDE DEF stays
  <2>. QED  BY <2>1, <2>2
<1>. HIDE DEF P
<1>4. ret \in Seq(T) /\ \E from : IsFiltered(ret, s, P, from)
  BY Filtered
<1>5. PICK from : IsFiltered(ret, s, P, from)
  BY <1>4
<1>. HIDE DEF ret
<1>6. Len(ret) \in Nat /\ DOMAIN ret = 1..Len(ret) /\ Len(s) \in Nat /\ DOMAIN s = 1..Len(s)
  BY <1>4
<1>7. /\ \A n \in 1..Len(ret) : from[n] \in 1..Len(s) /\ from[n] \in P /\ ret[n] = s[from[n]]
      /\ \A m, n \in 1..Len(ret) : m < n => from[m] < from[n]
      /\ \A k \in 1..Len(s) : k \in P => \E n \in 1..Len(ret) : from[n] = k
  BY <1>5, <1>6 DEF IsFiltered
<1>8. ASSUME NEW j \in 1..Len(ret), j + 1 \in 1..Len(ret), ret[j + 1].sep  PROVE ~ret[j].sep
  <2>. DEFINE q == from[j + 1]
              p == from[j]
  <2>1. q \in 1..Len(s) /\ p \in 1..Len(s) /\ p < q /\ q \in P /\ s[q].sep
    <3>1. j < j + 1
      BY <1>6
    <3>. QED  BY <1>7, <1>8, <3>1
  <2>2. q # 1 /\ q - 1 \in 1..Len(s) /\ (q - 1) + 1 = q
    <3>. HIDE DEF q, p
    <3>. QED  BY <1>6, <2>1
  <2>3. ~s[q - 1].sep /\ q - 1 \in P
    BY <1>3, <2>1, <2>2
  <2>4. PICK n \in 1..Len(ret) : from[n] = q - 1
    BY <1>7, <2>2, <2>3
  <2>5. from[j + 1] = from[n] + 1
    BY <2>2, <2>4
  <2>. DEFINE i == j + 1
  <2>6. i \in 1..Len(ret) /\ from[i] = from[n] + 1
    BY <1>8, <2>5
  <2>. HIDE DEF i, q
  <2>7. i = n + 1
    BY <1>4, <1>5, <2>6, FilteredNext
  <2>8. j = n
    BY <1>6, <2>7 DEF i
  <2>. QED  BY <1>7, <2>3, <2>4, <2>8
<1>9. \A k : k \in Q <=> k \in 1..Len(ret) /\ (~ret[k].sep \/ k \notin {1, Len(ret)})
  <2>1. \A k : k \in stays(ret) <=> k \in 1..Len(ret) /\ ~ret[k].sep
    BY <1>2, <1>4
  <2>. HIDE DEF stays
  <2>. QED  BY <1>6, <2>1
<1>. HIDE DEF Q
<1>10. menu \in Seq(T) /\ \E f : IsFiltered(menu, ret, Q, f)
  BY <1>4, Filtered
<1>11. PICK f : IsFiltered(menu, ret, Q, f)
  BY <1>10
<1>. HIDE DEF menu
<1>12. Len(menu) \in Nat /\ DOMAIN menu = 1..Len(menu)
  BY <1>10
<1>13. /\ \A n \in 1..Len(menu) : f[n] \in 1..Len(ret) /\ f[n] \in Q /\ menu[n] = ret[f[n]]
       /\ \A k \in 1..Len(ret) : k \in Q => \E n \in 1..Len(menu) : f[n] = k
  BY <1>6, <1>11, <1>12 DEF IsFiltered
<1>14. ASSUME NEW k \in 1..Len(menu), menu[k].sep
       PROVE  k \notin {1, Len(menu)} /\ ~menu[k - 1].sep /\ ~menu[k + 1].sep
  <2>. DEFINE p == f[k]
  <2>1. p \in 1..Len(ret) /\ p \in Q /\ ret[p].sep /\ p \notin {1, Len(ret)}
    BY <1>9, <1>13, <1>14
  <2>2. p - 1 \in 1..Len(ret) /\ p + 1 \in 1..Len(ret) /\ (p - 1) + 1 = p
    <3>. DEFINE z == Len(ret)
    <3>1. p \in 1..z /\ p # 1 /\ p # z /\ z \in Nat
      BY <1>6, <2>1
    <3>. HIDE DEF p, z
    <3>2. p - 1 \in 1..z /\ p + 1 \in 1..z /\ (p - 1) + 1 = p
      BY <3>1
    <3>. QED  BY <3>2 DEF z
  <2>3. ~ret[p - 1].sep
    BY <1>8, <2>1, <2>2
  <2>4. ~ret[p + 1].sep
    BY <1>8, <2>1, <2>2
  <2>5. p - 1 \in Q /\ p + 1 \in Q
    BY <1>9, <2>2, <2>3, <2>4
  <2>6. PICK a \in 1..Len(menu) : f[a] = p - 1
    BY <1>13, <2>2, <2>5
  <2>7. PICK b \in 1..Len(menu) : f[b] = p + 1
    BY <1>13, <2>2, <2>5
  <2>8. f[k] = f[a] + 1 /\ f[b] = f[k] + 1
    BY <2>2, <2>6, <2>7
  <2>9. k = a + 1 /\ b = k + 1
    <3>1. k = a + 1
      BY <1>4, <1>10, <1>11, <2>8, FilteredNext
    <3>2. b = k + 1
      BY <1>4, <1>10, <1>11, <2>8, FilteredNext
    <3>. QED  BY <3>1, <3>2
  <2>10. k \notin {1, Len(menu)} /\ k - 1 = a /\ k + 1 = b
    <3>. DEFINE z == Len(menu)
    <3>1. a \in 1..z /\ b \in 1..z /\ k \in 1..z /\ z \in Nat /\ k = a + 1 /\ b = k + 1
      BY <1>12, <2>9
    <3>. HIDE DEF z
    <3>2. k # 1 /\ k # z /\ k - 1 = a /\ k + 1 = b
      BY <3>1
    <3>. QED  BY <3>2 DEF z
  <2>. QED  BY <1>13, <2>3, <2>4, <2>6, <2>7, <2>10
<1>15. NoneTogether(menu)
  BY <1>12, <1>14 DEF NoneTogether
<1>. QED  BY <1>1, <1>15

\* What a template is: items with different ids.
IsTemplate(s) ==
  /\ s \in Seq(TemplateItems)
  /\ \A k, l \in 1..Len(s) : s[k].id = s[l].id /\ s[k].id # "none" => k = l

\* What is sorted of any template is right.
LEMMA TemplatesSorted ==
  ASSUME IsTemplate(template)
  PROVE  SortIsRight
<1>. DEFINE s == template
            sf == SortMenuItems(template)
            T == TemplateItems \cup {Separator}
            V == {x \in T : x.visible}
<1>1. s \in Seq(T) /\ Separator \in T /\ Separator.visible
  BY DEF IsTemplate, Separator
<1>2. EntriesHaveIds(s)
  BY DEF IsTemplate, EntriesHaveIds, Entries
<1>3. sf \in Seq(T) /\ \E gs, grp, pos, order, place : SortedInto(sf, T, s, gs, grp, pos, order, place)
  <2>. HIDE DEF T
  <2>. QED  BY <1>1, <1>2, SortedPlaces
<1>4. PICK gs, grp, pos, order, place : SortedInto(sf, T, s, gs, grp, pos, order, place)
  BY <1>3
<1>5. SortKeepsItems(sf)
  <2>. HIDE DEF T, sf
  <2>. QED  BY <1>4, SortedKeepsItems
<1>6. ItemsObey(sf)
  <2>. HIDE DEF T, sf
  <2>. QED  BY <1>3, <1>4, SortedItemsObey
<1>7. GroupsObey(sf)
  <2>. HIDE DEF T, sf
  <2>. QED  BY <1>2, <1>3, <1>4, SortedGroupsObey
<1>8. ASSUME \A k \in DOMAIN s : s[k].visible
      PROVE  NoneTogether(RemoveExtraSeparators(sf))
  <2>1. s \in Seq(V) /\ Separator \in V
    <3>1. \A k \in 1..Len(s) : s[k] \in V
      BY <1>1, <1>8
    <3>. HIDE DEF V
    <3>2. s \in [1..Len(s) -> V] /\ Len(s) \in Nat
      BY <1>1, <3>1
    <3>. QED  BY <1>1, <3>2 DEF V
  <2>2. \A x \in V : x.visible
    OBVIOUS
  <2>. HIDE DEF V
  <2>3. sf \in Seq(V)
    BY <1>2, <2>1, SortedPlaces
  <2>. HIDE DEF sf
  <2>. QED  BY <2>2, <2>3, ExtraSeparatorsRemoved
<1>9. NoExtraSeparators(sf)
  BY <1>8 DEF NoExtraSeparators, NoneTogether
<1>. QED  BY <1>5, <1>6, <1>7, <1>9 DEF SortIsRight

(* SortIsRight of every template that Menu.buildFromTemplate is given.     *)
THEOREM SortIsAlwaysRight == SortSpec => []SortIsRight
<1>1. SortInit => IsTemplate(template)
  BY DEF SortInit, IsTemplate
<1>2. IsTemplate(template) /\ [SortNext]_template => IsTemplate(template)'
  <2>. SUFFICES ASSUME IsTemplate(template), [SortNext]_template  PROVE IsTemplate(template)'
    OBVIOUS
  <2>1. CASE UNCHANGED template
    BY <2>1 DEF IsTemplate
  <2>2. ASSUME NEW x \in TemplateItems, AddToTemplate(x)  PROVE IsTemplate(template)'
    <3>1. /\ template' = Append(template, x) /\ template \in Seq(TemplateItems)
          /\ x.id # "none" => \A y \in ToSet(template) : y.id # x.id
      BY <2>2 DEF AddToTemplate, IsTemplate
    <3>2. /\ template' \in Seq(TemplateItems) /\ Len(template') = Len(template) + 1
          /\ Len(template) \in Nat
          /\ \A k \in 1..Len(template) : template'[k] = template[k]
          /\ template'[Len(template) + 1] = x
      BY <3>1
    <3>3. \A k \in 1..Len(template) : x.id # "none" => template[k].id # x.id
      BY <3>1 DEF ToSet
    <3>4. ASSUME NEW k \in 1..Len(template'), NEW l \in 1..Len(template'),
                 template'[k].id = template'[l].id, template'[k].id # "none"
          PROVE  k = l
      <4>1. /\ k = Len(template) + 1 \/ k \in 1..Len(template)
            /\ l = Len(template) + 1 \/ l \in 1..Len(template)
        BY <3>2
      <4>2. k \in 1..Len(template) /\ l \in 1..Len(template) => k = l
        BY <3>2, <3>4 DEF IsTemplate
      <4>. QED  BY <3>2, <3>3, <3>4, <4>1, <4>2
    <3>. QED  BY <3>2, <3>4 DEF IsTemplate
  <2>. QED  BY <2>1, <2>2 DEF SortNext
<1>3. IsTemplate(template) => SortIsRight
  BY TemplatesSorted
<1>. QED  BY <1>1, <1>2, <1>3, PTL DEF SortSpec
=============================================================================
