------------------------ MODULE HostAnimationProofs ------------------------
(***************************************************************************)
(* Proofs about AnimationDispatcher and HostAnimation, for any number of   *)
(* hosts, subscriptions and presentation revisions.                        *)
(*                                                                         *)
(* The dispatcher filters its lists (Active), which is a recursion over    *)
(* the list.  The library's induction theorems take an operator, which the *)
(* provers cannot instantiate; SetInduction states induction for a set of  *)
(* numbers, and needs no more than that a finite set does not fit into a   *)
(* smaller one.                                                            *)
(***************************************************************************)
EXTENDS HostAnimation, FiniteSetTheorems, SequenceTheorems, TLAPS

-----------------------------------------------------------------------------
(* Induction, and what the filter returns.                                 *)

LEMMA SetInduction ==
  ASSUME NEW S, 0 \in S, \A n \in Nat : n \in S => n + 1 \in S
  PROVE  \A n \in Nat : n \in S
<1>1. SUFFICES ASSUME NEW n \in Nat, n \notin S PROVE FALSE
  OBVIOUS
<1> DEFINE A == (0 .. n) \cap S
           f == [x \in A |-> x + 1]
<1>2. IsFiniteSet(0 .. n)
  BY FS_Interval
<1>3. IsFiniteSet(A) /\ 0 \in A
  BY <1>2, FS_Subset
<1>4. \A x \in A : x + 1 \in A \ {0}
  BY <1>1
<1>5. f \in [A -> A \ {0}] /\ \A x, y \in A : f[x] = f[y] => x = y
  BY <1>4
<1> HIDE DEF A, f
<1>6. IsFiniteSet(A \ {0}) /\ Cardinality(A \ {0}) = Cardinality(A) - 1 /\ Cardinality(A) \in Nat
  BY <1>3, FS_RemoveElement, FS_CardinalityType
<1>7. Cardinality(A \ {0}) < Cardinality(A)
  BY <1>6
<1> QED BY <1>3, <1>5, <1>6, <1>7, FS_PigeonHole

\* Whose entries of l the entries of k are: one each of those that are not marked.
Picks(k, l, r) ==
  /\ k \in Seq(Subscription)
  /\ r \in [1 .. Len(k) -> 1 .. Len(l)]
  /\ \A i \in 1 .. Len(k) : k[i] = l[r[i]] /\ ~k[i].pendingRemove
  /\ \A i, j \in 1 .. Len(k) : r[i] = r[j] => i = j
  /\ \A j \in 1 .. Len(l) : ~l[j].pendingRemove => \E i \in 1 .. Len(k) : r[i] = j

\* The filter's recursion.
KeptStep(l, f, i) ==
  IF i = 0 THEN <<>> ELSE IF l[i].pendingRemove THEN f[i - 1] ELSE Append(f[i - 1], l[i])
KeptUpTo(l, n, f) == f = [i \in 0 .. n |-> KeptStep(l, f, i)]

LEMMA KeptExists ==
  ASSUME NEW l, NEW m \in Nat
  PROVE  \E f : KeptUpTo(l, m, f)
<1> DEFINE S == {n \in Nat : \E f : KeptUpTo(l, n, f)}
<1>1. 0 \in S
  <2> DEFINE f == [i \in 0 .. 0 |-> <<>>]
  <2>1. f = [i \in 0 .. 0 |-> KeptStep(l, f, i)]
    BY DEF KeptStep
  <2> QED BY <2>1 DEF KeptUpTo
<1>2. ASSUME NEW n \in Nat, n \in S PROVE n + 1 \in S
  <2>1. PICK f : KeptUpTo(l, n, f)
    BY <1>2
  <2> DEFINE g == [i \in 0 .. n + 1 |-> IF i \in 0 .. n THEN f[i] ELSE KeptStep(l, f, n + 1)]
  <2>2. DOMAIN f = 0 .. n /\ \A i \in 0 .. n : f[i] = KeptStep(l, f, i)
    BY <2>1 DEF KeptUpTo
  <2>3. \A i \in 0 .. n : g[i] = f[i]
    OBVIOUS
  <2>4. g[n + 1] = KeptStep(l, f, n + 1)
    OBVIOUS
  <2>5. \A i \in 0 .. n + 1 : KeptStep(l, g, i) = KeptStep(l, f, i)
    BY <2>3 DEF KeptStep
  <2>6. \A i \in 0 .. n + 1 : g[i] = KeptStep(l, g, i)
    BY <2>2, <2>3, <2>4, <2>5
  <2> HIDE DEF g
  <2>7. g = [i \in 0 .. n + 1 |-> KeptStep(l, g, i)]
    BY <2>6 DEF g
  <2> QED BY <2>7 DEF KeptUpTo
<1> HIDE DEF S
<1>3. m \in S
  BY <1>1, <1>2, SetInduction
<1> QED BY <1>3 DEF S

LEMMA ActivePicks ==
  ASSUME NEW l \in Seq(Subscription)
  PROVE  \E r : Picks(Active(l), l, r)
<1> DEFINE n == Len(l)
           F == CHOOSE f : KeptUpTo(l, n, f)
<1>1. KeptUpTo(l, n, F)
  BY KeptExists
<1>2. Active(l) = F[n]
  BY DEF Active, KeptUpTo, KeptStep
<1> HIDE DEF F
<1>3. \A i \in 0 .. n : F[i] = KeptStep(l, F, i)
  BY <1>1 DEF KeptUpTo
<1>4. F[0] = <<>> /\ \A i \in 1 .. n : F[i] = IF l[i].pendingRemove THEN F[i - 1] ELSE Append(F[i - 1], l[i])
  BY <1>3 DEF KeptStep
<1> DEFINE
     G(i, r) == /\ F[i] \in Seq(Subscription)
                /\ r \in [1 .. Len(F[i]) -> 1 .. i]
                /\ \A k \in 1 .. Len(F[i]) : F[i][k] = l[r[k]] /\ ~F[i][k].pendingRemove
                /\ \A k, j \in 1 .. Len(F[i]) : r[k] = r[j] => k = j
                /\ \A j \in 1 .. i : ~l[j].pendingRemove => \E k \in 1 .. Len(F[i]) : r[k] = j
     S == {i \in Nat : i <= n => \E r : G(i, r)}
<1>5. 0 \in S
  <2>1. G(0, <<>>)
    BY <1>4
  <2> QED BY <2>1
<1>6. ASSUME NEW i \in Nat, i \in S PROVE i + 1 \in S
  <2> SUFFICES ASSUME i + 1 <= n PROVE \E r : G(i + 1, r)
    OBVIOUS
  <2>1. PICK r : G(i, r)
    BY <1>6
  <2> HIDE DEF G
  <2>2. i + 1 \in 1 .. n /\ l[i + 1] \in Subscription
    OBVIOUS
  <2>3. F[i + 1] = IF l[i + 1].pendingRemove THEN F[i] ELSE Append(F[i], l[i + 1])
    BY <1>4, <2>2
  <2>4. CASE l[i + 1].pendingRemove
    <3>1. G(i + 1, r)
      BY <2>1, <2>2, <2>3, <2>4 DEF G
    <3> QED BY <3>1
  <2>5. CASE ~l[i + 1].pendingRemove
    <3> DEFINE c == Len(F[i])
               q == [k \in 1 .. c + 1 |-> IF k = c + 1 THEN i + 1 ELSE r[k]]
    <3>1. F[i] \in Seq(Subscription) /\ c \in Nat
      BY <2>1 DEF G
    <3>2. F[i + 1] = Append(F[i], l[i + 1])
      BY <2>3, <2>5
    <3>3. /\ F[i + 1] \in Seq(Subscription) /\ Len(F[i + 1]) = c + 1
          /\ \A k \in 1 .. c : F[i + 1][k] = F[i][k]
          /\ F[i + 1][c + 1] = l[i + 1]
      BY <3>1, <3>2, <2>2
    <3>4. /\ r \in [1 .. c -> 1 .. i]
          /\ \A k \in 1 .. c : F[i][k] = l[r[k]] /\ ~F[i][k].pendingRemove
          /\ \A k, j \in 1 .. c : r[k] = r[j] => k = j
          /\ \A j \in 1 .. i : ~l[j].pendingRemove => \E k \in 1 .. c : r[k] = j
      BY <2>1 DEF G
    <3> HIDE DEF c
    <3>5. q[c + 1] = i + 1 /\ \A k \in 1 .. c : q[k] = r[k]
      BY <3>1
    <3>6. \A k \in 1 .. c + 1 : k \in 1 .. c \/ k = c + 1
      BY <3>1
    <3>7. q \in [1 .. c + 1 -> 1 .. i + 1]
      BY <3>1, <3>4
    <3> HIDE DEF q
    <3>8. \A k \in 1 .. c + 1 : F[i + 1][k] = l[q[k]] /\ ~F[i + 1][k].pendingRemove
      BY <3>3, <3>4, <3>5, <3>6, <2>5
    <3>9. \A k, j \in 1 .. c + 1 : q[k] = q[j] => k = j
      <4>1. \A k \in 1 .. c : r[k] \in 1 .. i
        BY <3>4
      <4>2. \A k \in 1 .. c : q[k] # i + 1
        BY <4>1, <3>5
      <4> QED BY <3>4, <3>5, <3>6, <4>2
    <3>10. \A j \in 1 .. i + 1 : ~l[j].pendingRemove => \E k \in 1 .. c + 1 : q[k] = j
      <4> TAKE j \in 1 .. i + 1
      <4>1. CASE j = i + 1
        BY <4>1, <3>1, <3>5
      <4>2. ASSUME j \in 1 .. i, ~l[j].pendingRemove PROVE \E k \in 1 .. c + 1 : q[k] = j
        <5>1. PICK k \in 1 .. c : r[k] = j
          BY <4>2, <3>4
        <5>2. k \in 1 .. c + 1 /\ q[k] = j
          BY <5>1, <3>1, <3>5
        <5> QED BY <5>2
      <4> QED BY <4>1, <4>2
    <3>11. G(i + 1, q)
      BY <3>3, <3>7, <3>8, <3>9, <3>10 DEF G
    <3> QED BY <3>11
  <2> QED BY <2>4, <2>5
<1> HIDE DEF S
<1>7. n \in Nat /\ n \in S
  BY <1>5, <1>6, SetInduction
<1>8. PICK r : G(n, r)
  BY <1>7 DEF S
<1>9. Picks(F[n], l, r)
  BY <1>8 DEF Picks
<1> QED BY <1>2, <1>9

LEMMA ActiveEmpty == Active(<<>>) = <<>>
<1> DEFINE k == Active(<<>>)
<1> DEFINE e == <<>>
<1>1. e \in Seq(Subscription) /\ Len(e) = 0 /\ 1 .. Len(e) = {}
  OBVIOUS
<1> HIDE DEF e
<1>2. PICK r : Picks(Active(e), e, r)
  BY <1>1, ActivePicks
<1>3. r \in [1 .. Len(k) -> {}] /\ k \in Seq(Subscription)
  BY <1>1, <1>2 DEF Picks, e
<1> HIDE DEF k
<1>4. Len(k) = 0
  <2>1. 1 \notin 1 .. Len(k)
    BY <1>3
  <2> QED BY <2>1, <1>3
<1>5. k = <<>>
  BY <1>3, <1>4
<1> QED BY <1>5 DEF k

\* What is filtered of two lists, one behind the other.
LEMMA ActivePicksOfTwo ==
  ASSUME NEW a \in Seq(Subscription), NEW b \in Seq(Subscription)
  PROVE  \E r : Picks(Active(a) \o Active(b), a \o b, r)
<1> DEFINE ka == Active(a)
           kb == Active(b)
<1>1. PICK p : Picks(ka, a, p)
  BY ActivePicks
<1>2. PICK q : Picks(kb, b, q)
  BY ActivePicks
<1> HIDE DEF ka, kb
<1> DEFINE la == Len(a)
           lb == Len(b)
           ma == Len(ka)
           mb == Len(kb)
           k  == ka \o kb
           l  == a \o b
           r  == [i \in 1 .. ma + mb |-> IF i \in 1 .. ma THEN p[i] ELSE la + q[i - ma]]
<1>3. /\ la \in Nat /\ lb \in Nat /\ ma \in Nat /\ mb \in Nat
      /\ ka \in Seq(Subscription) /\ kb \in Seq(Subscription)
  BY <1>1, <1>2 DEF Picks
<1>4. /\ k \in Seq(Subscription) /\ Len(k) = ma + mb
      /\ \A i \in 1 .. ma : k[i] = ka[i]
      /\ \A i \in 1 .. mb : k[ma + i] = kb[i]
  BY <1>3
<1>5. /\ Len(l) = la + lb
      /\ \A i \in 1 .. la : l[i] = a[i]
      /\ \A i \in 1 .. lb : l[la + i] = b[i]
  OBVIOUS
<1>6. /\ \A i \in 1 .. ma : p[i] \in 1 .. la /\ ka[i] = a[p[i]] /\ ~ka[i].pendingRemove
      /\ \A i, j \in 1 .. ma : p[i] = p[j] => i = j
      /\ \A j \in 1 .. la : ~a[j].pendingRemove => \E i \in 1 .. ma : p[i] = j
  BY <1>1 DEF Picks
<1>7. /\ \A i \in 1 .. mb : q[i] \in 1 .. lb /\ kb[i] = b[q[i]] /\ ~kb[i].pendingRemove
      /\ \A i, j \in 1 .. mb : q[i] = q[j] => i = j
      /\ \A j \in 1 .. lb : ~b[j].pendingRemove => \E i \in 1 .. mb : q[i] = j
  BY <1>2 DEF Picks
<1>8. /\ \A i \in 1 .. ma : i \in 1 .. ma + mb /\ r[i] = p[i]
      /\ \A i \in 1 .. mb : ma + i \in 1 .. ma + mb /\ r[ma + i] = la + q[i]
  BY <1>3
<1>9. \A i \in 1 .. ma + mb : i \in 1 .. ma \/ \E j \in 1 .. mb : i = ma + j
  <2> TAKE i \in 1 .. ma + mb
  <2>1. ASSUME i \notin 1 .. ma PROVE i - ma \in 1 .. mb /\ i = ma + (i - ma)
    BY <2>1, <1>3
  <2> QED BY <2>1
<1>10. /\ \A u \in 1 .. lb : la + u \in 1 .. la + lb
       /\ \A u, v \in 1 .. lb : la + u = la + v => u = v
  BY <1>3
<1>11. DOMAIN r = 1 .. ma + mb /\ r = [i \in 1 .. ma + mb |-> r[i]]
  OBVIOUS
<1> HIDE DEF la, lb, ma, mb, k, l, r
<1>12. \A i \in 1 .. ma + mb : r[i] \in 1 .. la + lb /\ k[i] = l[r[i]] /\ ~k[i].pendingRemove
  <2> TAKE i \in 1 .. ma + mb
  <2>1. CASE i \in 1 .. ma
    <3>1. p[i] \in 1 .. la /\ k[i] = ka[i] /\ ka[i] = a[p[i]] /\ ~ka[i].pendingRemove
      BY <2>1, <1>4, <1>6
    <3>2. r[i] = p[i] /\ l[p[i]] = a[p[i]] /\ r[i] \in 1 .. la + lb
      BY <2>1, <3>1, <1>3, <1>5, <1>8
    <3> QED BY <3>1, <3>2
  <2>2. ASSUME NEW j \in 1 .. mb, i = ma + j PROVE r[i] \in 1 .. la + lb /\ k[i] = l[r[i]] /\ ~k[i].pendingRemove
    <3>1. q[j] \in 1 .. lb /\ k[i] = kb[j] /\ kb[j] = b[q[j]] /\ ~kb[j].pendingRemove
      BY <2>2, <1>4, <1>7
    <3>2. r[i] = la + q[j] /\ l[la + q[j]] = b[q[j]] /\ r[i] \in 1 .. la + lb
      <4>1. r[ma + j] = la + q[j]
        BY <1>8
      <4>2. la + q[j] \in 1 .. la + lb
        BY <3>1, <1>10
      <4> QED BY <2>2, <3>1, <4>1, <4>2, <1>5
    <3> QED BY <3>1, <3>2
  <2> QED BY <2>1, <2>2, <1>9
<1>13. \A i, j \in 1 .. ma + mb : r[i] = r[j] => i = j
  <2> SUFFICES ASSUME NEW i \in 1 .. ma + mb, NEW j \in 1 .. ma + mb, r[i] = r[j] PROVE i = j
    OBVIOUS
  <2>1. CASE i \in 1 .. ma /\ j \in 1 .. ma
    BY <2>1, <1>6, <1>8
  <2>2. ASSUME NEW x \in 1 .. mb, NEW y \in 1 .. mb, i = ma + x, j = ma + y PROVE i = j
    <3>1. q[x] \in 1 .. lb /\ q[y] \in 1 .. lb /\ la + q[x] = la + q[y]
      BY <2>2, <1>7, <1>8
    <3>2. q[x] = q[y]
      BY <3>1, <1>10
    <3>3. x = y
      BY <3>2, <1>7
    <3> QED BY <3>3, <2>2
  <2>3. ASSUME NEW x \in 1 .. ma, NEW y \in 1 .. mb PROVE r[x] # r[ma + y]
    <3>1. p[x] \in 1 .. la /\ q[y] \in 1 .. lb /\ r[x] = p[x] /\ r[ma + y] = la + q[y]
      BY <1>6, <1>7, <1>8
    <3> QED BY <3>1, <1>3
  <2> QED BY <2>1, <2>2, <2>3, <1>9
<1>14. \A j \in 1 .. la + lb : ~l[j].pendingRemove => \E i \in 1 .. ma + mb : r[i] = j
  <2> SUFFICES ASSUME NEW j \in 1 .. la + lb, ~l[j].pendingRemove PROVE \E i \in 1 .. ma + mb : r[i] = j
    OBVIOUS
  <2>1. CASE j \in 1 .. la
    <3>1. PICK i \in 1 .. ma : p[i] = j
      BY <2>1, <1>5, <1>6
    <3> QED BY <3>1, <1>8
  <2>2. CASE j \notin 1 .. la
    <3>1. j - la \in 1 .. lb /\ j = la + (j - la)
      BY <2>2, <1>3
    <3>2. PICK i \in 1 .. mb : q[i] = j - la
      BY <3>1, <1>5, <1>7
    <3>3. ma + i \in 1 .. ma + mb /\ r[ma + i] = j
      BY <3>1, <3>2, <1>3, <1>8
    <3> QED BY <3>3
  <2> QED BY <2>1, <2>2
<1>15. r \in [1 .. ma + mb -> 1 .. la + lb]
  BY <1>11, <1>12
<1>16. Picks(k, l, r)
  BY <1>4, <1>5, <1>12, <1>13, <1>14, <1>15 DEF Picks
<1> QED BY <1>16 DEF k, l, ka, kb

-----------------------------------------------------------------------------
(* The invariant.                                                          *)

\* What the hosts hold that the dispatcher knows.
Held == [h \in Host |-> IF refused[h] THEN 0 ELSE sub[h]]

\* The lists l agree with what the hosts hold (u) below the next id n: no id comes twice, what is
\* not marked is held under its id, and what is held is there.
Agree(l, u, n) ==
  /\ l \in Seq(Subscription)
  /\ \A i \in 1 .. Len(l) : l[i].id < n
  /\ \A i, j \in 1 .. Len(l) : l[i].id = l[j].id => i = j
  /\ \A i \in 1 .. Len(l) : ~l[i].pendingRemove => u[l[i].context] = l[i].id
  /\ \A h \in Host : u[h] # 0 =>
       \E i \in 1 .. Len(l) : l[i].id = u[h] /\ l[i].context = h /\ ~l[i].pendingRemove

\* An id that a host keeps was given out, and an entry of l under it is the host's.
Owns(l, u, n) ==
  \A h \in Host : u[h] # 0 => u[h] < n /\ \A i \in 1 .. Len(l) : l[i].id = u[h] => l[i].context = h

\* The loop stands in the list while it calls, and at an entry that nobody has marked before it has
\* called the host.
LoopFits ==
  /\ inTick = (pos # 0)
  /\ pos = 0 => pendingAdds = <<>> /\ ~calling
  /\ calling => pos \in 1 .. Len(subscriptions)
  /\ frame # NoFrame => calling
  /\ calling /\ frame = NoFrame => ~subscriptions[pos].pendingRemove

\* A frame is of the entry it was called for; while its host still holds that entry the
\* presentation is the one of the frame.
FrameFits ==
  frame # NoFrame =>
    /\ frame.sub = subscriptions[pos].id
    /\ sub[Ticked] = frame.sub => revision[Ticked] = frame.revision /\ ~refused[Ticked]

\* The hosts' part of TypeOK.
HostTypes ==
  /\ attached \in [Host -> BOOLEAN] /\ detaching \in Seq(Host)
  /\ sub \in [Host -> 0 .. MaxId] /\ refused \in [Host -> BOOLEAN]
  /\ visible \in [Host -> BOOLEAN] /\ revision \in [Host -> 0 .. MaxRevision]
  /\ resume \in [Host -> BOOLEAN] /\ suspended \in [Host -> BOOLEAN]
  /\ shown \in [Host -> BOOLEAN] /\ wanted \in [Host -> BOOLEAN]
  /\ frame \in [revision : 0 .. MaxRevision, sub : Id] \cup {NoFrame}

\* A presentation that is shown again resumes at once.
ResumeIsHidden == \A h \in Host : resume[h] => ~visible[h]

HiddenHoldsNone == \A h \in Host : ~visible[h] => sub[h] = 0

RefusedHoldsOne == \A h \in Host : refused[h] => sub[h] # 0

\* A request leads to a subscription, which a tick may refuse, or to a flag.
WantedIsKept == \A h \in Host : wanted[h] => sub[h] # 0 \/ resume[h] \/ suspended[h]

\* The inductive invariant.
AnimationInv ==
  /\ TypeOK /\ Agree(Entries, Held, nextId) /\ Owns(Entries, sub, nextId)
  /\ LoopFits /\ FrameFits
  /\ HiddenHoldsNone /\ RefusedHoldsOne /\ ResumeIsHidden /\ TimerMatchesSubscriptions /\ WantedIsKept

LEMMA HeldFacts ==
  ASSUME sub \in [Host -> 0 .. MaxId], refused \in [Host -> BOOLEAN]
  PROVE  /\ Held \in [Host -> 0 .. MaxId]
         /\ \A h \in Host : Held[h] = IF refused[h] THEN 0 ELSE sub[h]
  BY DispatcherAssumption DEF Held

-----------------------------------------------------------------------------
(* What changes a list.                                                    *)

LEMMA AgreeAppend ==
  ASSUME NEW l, NEW u \in [Host -> 0 .. MaxId], NEW n \in Id, NEW h \in Host,
         Agree(l, u, n), u[h] = 0
  PROVE  Agree(Append(l, [id |-> n, context |-> h, pendingRemove |-> FALSE]), [u EXCEPT ![h] = n], n + 1)
<1> DEFINE e == [id |-> n, context |-> h, pendingRemove |-> FALSE]
           k == Append(l, e)
           v == [u EXCEPT ![h] = n]
           c == Len(l)
<1>1. e \in Subscription /\ e.id = n /\ e.context = h /\ ~e.pendingRemove
  BY DEF Subscription, Host
<1>2. l \in Seq(Subscription) /\ c \in Nat
  BY DEF Agree
<1>3. k \in Seq(Subscription) /\ Len(k) = c + 1 /\ k[c + 1] = e /\ \A i \in 1 .. c : k[i] = l[i]
  BY <1>1, <1>2
<1>4. v[h] = n /\ \A x \in Host \ {h} : v[x] = u[x]
  OBVIOUS
<1>5. \A i \in 1 .. c : l[i] \in Subscription
  BY <1>2
<1>6. /\ n \in Nat /\ \A i \in 1 .. c : l[i].id \in Nat \ {0} /\ l[i].id < n /\ l[i].context \in Host
      /\ \A i \in 1 .. c : ~l[i].pendingRemove => u[l[i].context] = l[i].id
      /\ \A i, j \in 1 .. c : l[i].id = l[j].id => i = j
  BY <1>5, DispatcherAssumption DEF Agree, Subscription, Host, Id
<1>7. \A x \in Host : u[x] # 0 =>
        \E i \in 1 .. c : l[i].id = u[x] /\ l[i].context = x /\ ~l[i].pendingRemove
  BY DEF Agree
<1>8. \A i \in 1 .. c + 1 : i \in 1 .. c \/ i = c + 1
  BY <1>2
<1>9. \A i \in 1 .. c : i \in 1 .. c + 1
  BY <1>2
<1> HIDE DEF e, k, v, c
<1>10. \A i \in 1 .. c + 1 : k[i].id < n + 1
  <2> TAKE i \in 1 .. c + 1
  <2>1. CASE i \in 1 .. c
    BY <2>1, <1>3, <1>6
  <2>2. CASE i = c + 1
    BY <2>2, <1>1, <1>3, <1>6
  <2> QED BY <2>1, <2>2, <1>8
<1>11. \A i, j \in 1 .. c + 1 : k[i].id = k[j].id => i = j
  <2>1. \A i \in 1 .. c : l[i].id # n
    BY <1>6
  <2> QED BY <1>1, <1>3, <1>6, <1>8, <2>1
<1>12. \A i \in 1 .. c + 1 : ~k[i].pendingRemove => v[k[i].context] = k[i].id
  <2>1. \A i \in 1 .. c : ~l[i].pendingRemove => l[i].context # h
    BY <1>6
  <2>2. \A i \in 1 .. c : ~l[i].pendingRemove => v[l[i].context] = l[i].id
    BY <2>1, <1>4, <1>6
  <2> QED BY <1>1, <1>3, <1>4, <1>8, <2>2
<1>13. ASSUME NEW x \in Host, v[x] # 0
       PROVE  \E i \in 1 .. c + 1 : k[i].id = v[x] /\ k[i].context = x /\ ~k[i].pendingRemove
  <2>1. CASE x = h
    <3>1. c + 1 \in 1 .. c + 1
      BY <1>2 DEF c
    <3> QED BY <2>1, <3>1, <1>1, <1>3, <1>4
  <2>2. CASE x # h
    <3>1. PICK i \in 1 .. c : l[i].id = u[x] /\ l[i].context = x /\ ~l[i].pendingRemove
      BY <1>4, <1>7, <1>13, <2>2
    <3> QED BY <2>2, <3>1, <1>3, <1>4, <1>9
  <2> QED BY <2>1, <2>2
<1>14. Agree(k, v, n + 1)
  BY <1>3, <1>10, <1>11, <1>12, <1>13 DEF Agree
<1> QED BY <1>14 DEF k, e, v

\* The list k is l with the entry of x marked, which then holds none.
LEMMA AgreeMark ==
  ASSUME NEW l, NEW k \in Seq(Subscription), NEW u \in [Host -> 0 .. MaxId], NEW n, NEW x \in Host,
         Agree(l, u, n), u[x] # 0, Len(k) = Len(l),
         \A i \in 1 .. Len(l) : /\ k[i].id = l[i].id /\ k[i].context = l[i].context
                               /\ k[i].pendingRemove = (l[i].id = u[x] \/ l[i].pendingRemove)
  PROVE  Agree(k, [u EXCEPT ![x] = 0], n)
<1> DEFINE v == [u EXCEPT ![x] = 0]
<1>1. v[x] = 0 /\ \A h \in Host \ {x} : v[h] = u[h]
  OBVIOUS
<1>2. \A i \in 1 .. Len(l) : l[i] \in Subscription
  BY DEF Agree
<1>3. \A i \in 1 .. Len(l) : l[i].context \in Host
  BY <1>2 DEF Subscription, Host
<1> HIDE DEF v
<1>4. \A i \in 1 .. Len(k) : ~k[i].pendingRemove => v[k[i].context] = k[i].id
  <2> SUFFICES ASSUME NEW i \in 1 .. Len(l), ~k[i].pendingRemove PROVE v[k[i].context] = k[i].id
    OBVIOUS
  <2>1. l[i].id # u[x] /\ u[l[i].context] = l[i].id /\ k[i].id = l[i].id /\ k[i].context = l[i].context
    BY DEF Agree
  <2> QED BY <2>1, <1>1, <1>3
<1>5. ASSUME NEW h \in Host, v[h] # 0
      PROVE  \E i \in 1 .. Len(k) : k[i].id = v[h] /\ k[i].context = h /\ ~k[i].pendingRemove
  <2>1. h # x /\ v[h] = u[h]
    BY <1>1, <1>5
  <2>2. PICK i \in 1 .. Len(l) : l[i].id = u[h] /\ l[i].context = h /\ ~l[i].pendingRemove
    BY <1>5, <2>1 DEF Agree
  <2>3. PICK j \in 1 .. Len(l) : l[j].id = u[x] /\ l[j].context = x
    BY DEF Agree
  <2>4. l[i].id # u[x]
    BY <2>1, <2>2, <2>3 DEF Agree
  <2> QED BY <2>1, <2>2, <2>4
<1>6. Agree(k, v, n)
  BY <1>4, <1>5 DEF Agree
<1> QED BY <1>6 DEF v

LEMMA AgreeSame ==
  ASSUME NEW l, NEW k \in Seq(Subscription), NEW u, NEW n, Agree(l, u, n), Len(k) = Len(l),
         \A i \in 1 .. Len(l) : /\ k[i].id = l[i].id /\ k[i].context = l[i].context
                               /\ k[i].pendingRemove = l[i].pendingRemove
  PROVE  Agree(k, u, n)
  BY DEF Agree

LEMMA AgreePicks ==
  ASSUME NEW l, NEW k, NEW r, NEW u, NEW n, Agree(l, u, n), Picks(k, l, r)
  PROVE  Agree(k, u, n)
<1>1. \A i \in 1 .. Len(k) : r[i] \in 1 .. Len(l) /\ k[i] = l[r[i]]
  BY DEF Picks
<1>2. \A i \in 1 .. Len(k) : k[i].id < n
  BY <1>1 DEF Agree
<1>3. \A i, j \in 1 .. Len(k) : k[i].id = k[j].id => i = j
  <2> SUFFICES ASSUME NEW i \in 1 .. Len(k), NEW j \in 1 .. Len(k), k[i].id = k[j].id PROVE i = j
    OBVIOUS
  <2>1. r[i] = r[j]
    BY <1>1 DEF Agree
  <2> QED BY <2>1 DEF Picks
<1>4. \A i \in 1 .. Len(k) : ~k[i].pendingRemove => u[k[i].context] = k[i].id
  BY <1>1 DEF Agree
<1>5. ASSUME NEW h \in Host, u[h] # 0
      PROVE  \E i \in 1 .. Len(k) : k[i].id = u[h] /\ k[i].context = h /\ ~k[i].pendingRemove
  <2>1. PICK j \in 1 .. Len(l) : l[j].id = u[h] /\ l[j].context = h /\ ~l[j].pendingRemove
    BY <1>5 DEF Agree
  <2>2. PICK i \in 1 .. Len(k) : r[i] = j
    BY <2>1 DEF Picks
  <2> QED BY <1>1, <2>1, <2>2
<1>6. k \in Seq(Subscription)
  BY DEF Picks
<1> QED BY <1>2, <1>3, <1>4, <1>5, <1>6 DEF Agree

LEMMA OwnsAppend ==
  ASSUME NEW l, NEW u \in [Host -> 0 .. MaxId], NEW v, NEW n \in Id, NEW h \in Host,
         Agree(l, v, n), Owns(l, u, n)
  PROVE  Owns(Append(l, [id |-> n, context |-> h, pendingRemove |-> FALSE]), [u EXCEPT ![h] = n], n + 1)
<1> DEFINE e == [id |-> n, context |-> h, pendingRemove |-> FALSE]
           k == Append(l, e)
           w == [u EXCEPT ![h] = n]
           c == Len(l)
<1>1. e.id = n /\ e.context = h
  OBVIOUS
<1>2. l \in Seq(Subscription) /\ c \in Nat /\ \A i \in 1 .. c : l[i].id # n
  BY DispatcherAssumption DEF Agree, Id
<1>3. Len(k) = c + 1 /\ k[c + 1] = e /\ \A i \in 1 .. c : k[i] = l[i]
  BY <1>2
<1>4. w[h] = n /\ \A x \in Host \ {h} : w[x] = u[x]
  OBVIOUS
<1>5. \A x \in Host : u[x] \in Nat /\ n \in Nat
  BY DispatcherAssumption DEF Id
<1>6. \A i \in 1 .. c + 1 : i \in 1 .. c \/ i = c + 1
  BY <1>2
<1>7. \A x \in Host : u[x] # 0 => u[x] < n /\ \A i \in 1 .. c : l[i].id = u[x] => l[i].context = x
  BY DEF Owns
<1> HIDE DEF e, k, w, c
<1>8. ASSUME NEW x \in Host, w[x] # 0
      PROVE  w[x] < n + 1 /\ \A i \in 1 .. c + 1 : k[i].id = w[x] => k[i].context = x
  <2>1. CASE x = h
    BY <2>1, <1>1, <1>2, <1>3, <1>4, <1>5, <1>6
  <2>2. CASE x # h
    <3>1. w[x] = u[x] /\ u[x] < n
      BY <2>2, <1>4, <1>7, <1>8
    <3>2. u[x] # n /\ u[x] < n + 1
      BY <3>1, <1>5
    <3>3. \A i \in 1 .. c : k[i].id = u[x] => k[i].context = x
      BY <3>1, <1>3, <1>7, <1>8
    <3> QED BY <3>1, <3>2, <3>3, <1>1, <1>3, <1>6
  <2> QED BY <2>1, <2>2
<1>9. Owns(k, w, n + 1)
  BY <1>3, <1>8 DEF Owns
<1> QED BY <1>9 DEF k, e, w

\* A list with no entries of its own, for hosts that keep their ids or give them up.
LEMMA OwnsKept ==
  ASSUME NEW l, NEW k, NEW u, NEW v, NEW n, Owns(l, u, n),
         \A h \in Host : v[h] = u[h] \/ v[h] = 0,
         \A i \in 1 .. Len(k) : \E j \in 1 .. Len(l) : k[i].id = l[j].id /\ k[i].context = l[j].context
  PROVE  Owns(k, v, n)
<1> SUFFICES ASSUME NEW h \in Host, v[h] # 0
             PROVE  v[h] < n /\ \A i \in 1 .. Len(k) : k[i].id = v[h] => k[i].context = h
  BY DEF Owns
<1>1. v[h] = u[h] /\ u[h] < n /\ \A j \in 1 .. Len(l) : l[j].id = u[h] => l[j].context = h
  BY DEF Owns
<1> QED BY <1>1

LEMMA PicksImages ==
  ASSUME NEW l, NEW k, NEW r, Picks(k, l, r)
  PROVE  \A i \in 1 .. Len(k) : \E j \in 1 .. Len(l) : k[i].id = l[j].id /\ k[i].context = l[j].context
  BY DEF Picks

LEMMA MarkedFacts ==
  ASSUME NEW l \in Seq(Subscription), NEW x
  PROVE  /\ Marked(l, x) \in Seq(Subscription) /\ Len(Marked(l, x)) = Len(l)
         /\ \A i \in 1 .. Len(l) : /\ Marked(l, x)[i].id = l[i].id /\ Marked(l, x)[i].context = l[i].context
                                  /\ Marked(l, x)[i].pendingRemove = (l[i].id = x \/ l[i].pendingRemove)
<1> DEFINE k == Marked(l, x)
           m(i) == IF l[i].id = x THEN [l[i] EXCEPT !.pendingRemove = TRUE] ELSE l[i]
<1>1. k = [i \in 1 .. Len(l) |-> m(i)]
  BY DEF Marked
<1>2. ASSUME NEW i \in 1 .. Len(l)
      PROVE  /\ m(i) \in Subscription /\ m(i).id = l[i].id /\ m(i).context = l[i].context
             /\ m(i).pendingRemove = (l[i].id = x \/ l[i].pendingRemove)
  <2>1. l[i] \in Subscription
    OBVIOUS
  <2> QED BY <2>1 DEF Subscription
<1> HIDE DEF m, k
<1>3. k \in Seq(Subscription) /\ Len(k) = Len(l) /\ \A i \in 1 .. Len(l) : k[i] = m(i)
  BY <1>1, <1>2
<1> QED BY <1>2, <1>3 DEF k

LEMMA TwoLists ==
  ASSUME NEW a \in Seq(Subscription), NEW b \in Seq(Subscription)
  PROVE  /\ a \o b \in Seq(Subscription) /\ Len(a \o b) = Len(a) + Len(b)
         /\ DOMAIN (a \o b) = 1 .. Len(a \o b)
         /\ \A i \in 1 .. Len(a) : (a \o b)[i] = a[i] /\ i \in 1 .. Len(a \o b)
         /\ \A i \in 1 .. Len(b) : (a \o b)[Len(a) + i] = b[i]
         /\ \A i \in 1 .. Len(a \o b) : i \in 1 .. Len(a) \/ \E j \in 1 .. Len(b) : i = Len(a) + j
<1>1. a \o b \in Seq(Subscription) /\ Len(a \o b) = Len(a) + Len(b) /\ DOMAIN (a \o b) = 1 .. Len(a \o b)
  OBVIOUS
<1>2. \A i \in 1 .. Len(a) : (a \o b)[i] = a[i] /\ i \in 1 .. Len(a \o b)
  OBVIOUS
<1>3. \A i \in 1 .. Len(b) : (a \o b)[Len(a) + i] = b[i]
  OBVIOUS
<1>4. \A i \in 1 .. Len(a \o b) : i \in 1 .. Len(a) \/ \E j \in 1 .. Len(b) : i = Len(a) + j
  <2> SUFFICES ASSUME NEW i \in 1 .. Len(a \o b), i \notin 1 .. Len(a)
               PROVE  \E j \in 1 .. Len(b) : i = Len(a) + j
    OBVIOUS
  <2>1. i - Len(a) \in 1 .. Len(b) /\ i = Len(a) + (i - Len(a))
    BY <1>1
  <2> QED BY <2>1
<1> QED BY <1>1, <1>2, <1>3, <1>4

LEMMA NoSecondList ==
  ASSUME NEW a \in Seq(Subscription)
  PROVE  a \o <<>> = a
  OBVIOUS

\* An entry of the loop's list is one of both lists.
LEMMA EntryFacts ==
  ASSUME TypeOK, NEW i \in 1 .. Len(subscriptions)
  PROVE  /\ Entries \in Seq(Subscription) /\ i \in 1 .. Len(Entries) /\ Entries[i] = subscriptions[i]
         /\ subscriptions[i].id \in Id /\ subscriptions[i].context \in Host
<1>1. subscriptions \in Seq(Subscription) /\ pendingAdds \in Seq(Subscription)
  BY DEF TypeOK, DispatcherTypeOK
<1>2. subscriptions[i] \in Subscription
  BY <1>1
<1> QED BY <1>1, <1>2, TwoLists DEF Entries, Subscription, Host

-----------------------------------------------------------------------------
(* The dispatcher's operations.                                            *)

\* What holds of a step that subscribes or unsubscribes, between ticks or inside one.
Moves ==
  /\ DispatcherTypeOK' /\ Agree(Entries', Held', nextId') /\ Owns(Entries', sub', nextId')
  /\ sub' \in [Host -> 0 .. MaxId] /\ refused' \in [Host -> BOOLEAN]
  /\ UNCHANGED tick
  /\ pos = 0 => pendingAdds' = <<>> /\ (timerRunning' <=> subscriptions' # <<>>)
  /\ pos # 0 => /\ Len(subscriptions') = Len(subscriptions)
                /\ \A i \in 1 .. Len(subscriptions) :
                     subscriptions'[i].id = subscriptions[i].id /\ subscriptions'[i].context = subscriptions[i].context

LEMMA SubscribeMoves ==
  ASSUME AnimationInv, NEW h \in Host, sub[h] = 0, Subscribe(h), sub' = [sub EXCEPT ![h] = nextId],
         refused' = refused
  PROVE  Moves /\ nextId \in Id
<1> DEFINE s == [id |-> nextId, context |-> h, pendingRemove |-> FALSE]
<1>1. nextId \in Id /\ nextId' = nextId + 1 /\ nextId' \in 1 .. MaxId + 1
  BY DispatcherAssumption DEF AnimationInv, TypeOK, DispatcherTypeOK, Subscribe, Id
<1>2. s \in Subscription
  BY <1>1 DEF Subscription, Host
<1>3. subscriptions \in Seq(Subscription) /\ pendingAdds \in Seq(Subscription) /\ pos \in 0 .. Len(subscriptions) + 1
  BY DEF AnimationInv, TypeOK, DispatcherTypeOK
<1>4. /\ sub \in [Host -> 0 .. MaxId] /\ refused \in [Host -> BOOLEAN] /\ Agree(Entries, Held, nextId)
      /\ ~refused[h]
  BY DEF AnimationInv, TypeOK, RefusedHoldsOne
<1>5. sub' \in [Host -> 0 .. MaxId] /\ refused' \in [Host -> BOOLEAN]
  BY <1>1, <1>4, DispatcherAssumption DEF Id
<1>6. Agree(Append(Entries, s), Held', nextId')
  <2>1. Held \in [Host -> 0 .. MaxId] /\ Held[h] = 0
    BY <1>4, HeldFacts
  <2>2. Held' = [Held EXCEPT ![h] = nextId]
    BY <1>4 DEF Held
  <2> QED BY <1>1, <1>4, <2>1, <2>2, AgreeAppend
<1>7. Owns(Append(Entries, s), sub', nextId')
  <2>1. Owns(Entries, sub, nextId)
    BY DEF AnimationInv
  <2> QED BY <1>1, <1>4, <2>1, OwnsAppend
<1>8. timerRunning' = TRUE /\ UNCHANGED tick
  BY DEF Subscribe
<1>9. inTick = (pos # 0) /\ (pos = 0 => pendingAdds = <<>>)
  BY DEF AnimationInv, LoopFits
<1>10. CASE inTick
  <2>1. subscriptions' = subscriptions /\ pendingAdds' = Append(pendingAdds, s)
    BY <1>10 DEF Subscribe
  <2>2. pendingAdds' \in Seq(Subscription)
    BY <2>1, <1>2, <1>3
  <2>3. subscriptions \o Append(pendingAdds, s) = Append(subscriptions \o pendingAdds, s)
    BY <1>2, <1>3
  <2>4. Entries' = Append(Entries, s)
    BY <2>1, <2>3 DEF Entries
  <2>5. DispatcherTypeOK'
    BY <2>1, <2>2, <1>1, <1>3, <1>8 DEF DispatcherTypeOK, AnimationInv, TypeOK, tick
  <2> HIDE DEF s
  <2> QED BY <2>1, <2>4, <2>5, <1>1, <1>5, <1>6, <1>8, <1>9, <1>10, <1>7 DEF Moves
<1>11. CASE ~inTick
  <2>1. subscriptions' = Append(subscriptions, s) /\ pendingAdds' = <<>> /\ pendingAdds = <<>> /\ pos = 0
    BY <1>9, <1>11 DEF Subscribe
  <2>2. subscriptions' \in Seq(Subscription) /\ subscriptions' # <<>>
    BY <2>1, <1>2, <1>3
  <2>3. Entries' = Append(Entries, s)
    BY <2>1, <2>2, <1>3, NoSecondList DEF Entries
  <2>4. DispatcherTypeOK'
    BY <2>1, <2>2, <1>1, <1>8 DEF DispatcherTypeOK, AnimationInv, TypeOK, tick
  <2> HIDE DEF s
  <2> QED BY <2>1, <2>2, <2>3, <2>4, <1>1, <1>5, <1>6, <1>8, <1>9, <1>11, <1>7 DEF Moves
<1> QED BY <1>10, <1>11

LEMMA ReleaseMoves ==
  ASSUME AnimationInv, NEW h \in Host, Release(h)
  PROVE  Moves /\ sub' = [sub EXCEPT ![h] = 0]
<1>1. subscriptions \in Seq(Subscription) /\ pendingAdds \in Seq(Subscription) /\ pos \in 0 .. Len(subscriptions) + 1
  BY DEF AnimationInv, TypeOK, DispatcherTypeOK
<1>2. /\ sub \in [Host -> 0 .. MaxId] /\ refused \in [Host -> BOOLEAN] /\ Agree(Entries, Held, nextId)
      /\ Owns(Entries, sub, nextId)
  BY DEF AnimationInv, TypeOK
<1>3. /\ sub' = [sub EXCEPT ![h] = 0] /\ sub' \in [Host -> 0 .. MaxId]
      /\ refused' = [refused EXCEPT ![h] = FALSE] /\ refused' \in [Host -> BOOLEAN]
  BY <1>2, DispatcherAssumption DEF Release
<1> DEFINE held == [Held EXCEPT ![h] = 0]
<1>4. Held' = held /\ Held \in [Host -> 0 .. MaxId] /\ Held[h] = IF refused[h] THEN 0 ELSE sub[h]
  BY <1>2, <1>3, DispatcherAssumption DEF Held
<1> HIDE DEF held
<1>5. inTick = (pos # 0) /\ (pos = 0 => pendingAdds = <<>>) /\ (pos = 0 => (timerRunning <=> subscriptions # <<>>))
  BY DEF AnimationInv, LoopFits, TimerMatchesSubscriptions
<1>6. CASE sub[h] = 0
  <2>1. UNCHANGED dispatcher /\ sub' = sub
    BY <1>2, <1>3, <1>6 DEF Release
  <2>2. DispatcherTypeOK' /\ Entries' = Entries
    BY <2>1 DEF AnimationInv, TypeOK, DispatcherTypeOK, Entries, dispatcher, lists, tick
  <2>3. Held' = Held
    BY <1>2, <1>6, <1>4 DEF held
  <2> QED BY <2>1, <2>2, <2>3, <1>2, <1>3, <1>5 DEF Moves, dispatcher, lists, tick
<1>7. CASE sub[h] # 0
  <2> DEFINE a == Marked(subscriptions, sub[h])
             b == Marked(pendingAdds, sub[h])
             n == Len(subscriptions)
             m == Len(pendingAdds)
  <2>1. Unsubscribe(sub[h])
    BY <1>7 DEF Release
  <2>2. /\ a \in Seq(Subscription) /\ Len(a) = n /\ b \in Seq(Subscription) /\ Len(b) = m
        /\ \A i \in 1 .. n : /\ a[i].id = subscriptions[i].id /\ a[i].context = subscriptions[i].context
                             /\ a[i].pendingRemove = (subscriptions[i].id = sub[h] \/ subscriptions[i].pendingRemove)
        /\ \A i \in 1 .. m : /\ b[i].id = pendingAdds[i].id /\ b[i].context = pendingAdds[i].context
                             /\ b[i].pendingRemove = (pendingAdds[i].id = sub[h] \/ pendingAdds[i].pendingRemove)
    BY <1>1, MarkedFacts
  <2>3. inTick => subscriptions' = a /\ pendingAdds' = b
    BY <2>1 DEF Unsubscribe
  <2>4. ~inTick => /\ subscriptions' = Active(a) /\ pendingAdds' = Active(b)
                   /\ timerRunning' = (Active(a) # <<>> \/ Active(b) # <<>>)
    BY <2>1 DEF Unsubscribe, TimerFollows
  <2>5. UNCHANGED <<tick, nextId>> /\ timerRunning' \in BOOLEAN
    BY <2>1, <2>4 DEF Unsubscribe, AnimationInv, TypeOK, DispatcherTypeOK
  <2> HIDE DEF a, b
  <2>6. ~inTick => b = <<>>
    <3>1. ASSUME ~inTick PROVE Len(b) = 0
      BY <3>1, <1>5, <2>2
    <3>2. b \in Seq(Subscription)
      BY <2>2
    <3> QED BY <3>1, <3>2, EmptySeq
  <2>7. /\ Len(a \o b) = n + m /\ a \o b \in Seq(Subscription)
         /\ \A i \in 1 .. m : (a \o b)[n + i] = b[i]
    <3>1. a \in Seq(Subscription) /\ b \in Seq(Subscription) /\ Len(a) = n /\ Len(b) = m
      BY <2>2
    <3>2. /\ Len(a \o b) = Len(a) + Len(b) /\ a \o b \in Seq(Subscription)
          /\ \A i \in 1 .. Len(b) : (a \o b)[Len(a) + i] = b[i]
      BY <3>1, TwoLists
    <3> QED BY <3>1, <3>2
  <2>8. Len(Entries) = n + m /\ \A i \in 1 .. m : Entries[n + i] = pendingAdds[i]
    BY <1>1, TwoLists DEF Entries
  <2>9. \A i \in 1 .. Len(Entries) :
          /\ (a \o b)[i].id = Entries[i].id /\ (a \o b)[i].context = Entries[i].context
          /\ (a \o b)[i].pendingRemove = (Entries[i].id = sub[h] \/ Entries[i].pendingRemove)
    <3> TAKE i \in 1 .. Len(Entries)
    <3>1. CASE i \in 1 .. n
      <4>1. Entries[i] = subscriptions[i] /\ (a \o b)[i] = a[i]
        BY <3>1, <1>1, <2>2, TwoLists DEF Entries
      <4> QED BY <4>1, <3>1, <2>2
    <3>2. ASSUME NEW j \in 1 .. m, i = n + j
          PROVE  /\ (a \o b)[i].id = Entries[i].id /\ (a \o b)[i].context = Entries[i].context
                 /\ (a \o b)[i].pendingRemove = (Entries[i].id = sub[h] \/ Entries[i].pendingRemove)
      <4>1. Entries[i] = pendingAdds[j] /\ (a \o b)[i] = b[j]
        BY <3>2, <2>7, <2>8
      <4> QED BY <4>1, <3>2, <2>2
    <3>3. i \in 1 .. n \/ \E j \in 1 .. m : i = n + j
      BY <1>1, TwoLists DEF Entries
    <3> QED BY <3>1, <3>2, <3>3
  <2>10. a \o b \in Seq(Subscription) /\ Len(a \o b) = Len(Entries)
    BY <2>7, <2>8
  <2>11. Agree(a \o b, Held', nextId)
    <3>1. CASE ~refused[h]
      <4>1. Held[h] = sub[h] /\ Held[h] # 0
        BY <1>7, <1>4, <3>1
      <4> QED BY <1>2, <1>4, <2>9, <2>10, <4>1, AgreeMark DEF held
    <3>2. CASE refused[h]
      <4>1. Held' = Held
        BY <1>4, <3>2 DEF held
      <4>2. ASSUME NEW i \in 1 .. Len(Entries), Entries[i].id = sub[h] PROVE Entries[i].pendingRemove
        <5>1. Entries[i].context = h
          BY <1>2, <1>7, <4>2 DEF Owns
        <5> QED BY <1>2, <1>7, <1>4, <3>2, <4>2, <5>1 DEF Agree
      <4>3. \A i \in 1 .. Len(Entries) : Entries[i].pendingRemove \in BOOLEAN
        <5>1. \A i \in 1 .. Len(Entries) : Entries[i] \in Subscription
          BY <1>2 DEF Agree
        <5> QED BY <5>1 DEF Subscription
      <4>4. \A i \in 1 .. Len(Entries) :
              (Entries[i].id = sub[h] \/ Entries[i].pendingRemove) = Entries[i].pendingRemove
        BY <4>2, <4>3
      <4>5. \A i \in 1 .. Len(Entries) :
              /\ (a \o b)[i].id = Entries[i].id /\ (a \o b)[i].context = Entries[i].context
              /\ (a \o b)[i].pendingRemove = Entries[i].pendingRemove
        BY <2>9, <4>4
      <4> QED BY <1>2, <2>10, <4>1, <4>5, AgreeSame
    <3> QED BY <3>1, <3>2
  <2>12. Owns(a \o b, sub', nextId)
    <3>1. \A x \in Host : sub'[x] = sub[x] \/ sub'[x] = 0
      BY <1>2, <1>3
    <3>2. \A i \in 1 .. Len(a \o b) :
            i \in 1 .. Len(Entries) /\ (a \o b)[i].id = Entries[i].id /\ (a \o b)[i].context = Entries[i].context
      BY <2>9, <2>10
    <3> QED BY <1>2, <3>1, <3>2, OwnsKept
  <2>13. CASE inTick
    <3>1. Entries' = a \o b
      BY <2>3, <2>13 DEF Entries
    <3>2. DispatcherTypeOK'
      BY <2>2, <2>3, <2>5, <2>13, <1>1 DEF AnimationInv, TypeOK, DispatcherTypeOK, tick
    <3> QED BY <3>1, <3>2, <2>2, <2>3, <2>5, <2>11, <2>13, <2>12, <1>3, <1>5 DEF Moves
  <2>14. CASE ~inTick
    <3>1. PICK r : Picks(Active(a) \o Active(b), a \o b, r)
      BY <2>2, ActivePicksOfTwo
    <3>2. Entries' = Active(a) \o Active(b)
      BY <2>4, <2>14 DEF Entries
    <3>3. Agree(Entries', Held', nextId')
      BY <2>5, <2>11, <3>1, <3>2, AgreePicks
    <3>4. Owns(Entries', sub', nextId')
      <4>1. \A x \in Host : sub'[x] = sub'[x] \/ sub'[x] = 0
        OBVIOUS
      <4> QED BY <2>5, <2>12, <3>1, <3>2, <4>1, PicksImages, OwnsKept
    <3>5. PICK p : Picks(Active(a), a, p)
      BY <2>2, ActivePicks
    <3>6. Active(a) \in Seq(Subscription) /\ Active(b) = <<>>
      BY <2>6, <2>14, <3>5, ActiveEmpty DEF Picks
    <3>7. pos = 0 /\ pos' = 0 /\ subscriptions' \in Seq(Subscription) /\ pendingAdds' = <<>>
      BY <2>4, <2>5, <2>14, <3>6, <1>5 DEF tick
    <3>8. DispatcherTypeOK'
      BY <2>5, <3>7 DEF AnimationInv, TypeOK, DispatcherTypeOK, tick
    <3> QED BY <3>3, <3>6, <3>7, <3>8, <3>4, <2>4, <2>5, <2>14, <1>3 DEF Moves
  <2> QED BY <2>13, <2>14
<1> QED BY <1>3, <1>6, <1>7

\* What a step leaves to a host holds no subscription or a new one, if it is not what it held.
Renews(h) ==
  /\ sub'[h] \in {sub[h], 0, nextId}
  /\ refused'[h] => refused[h] /\ sub'[h] # 0

LEMMA SameMoves ==
  ASSUME AnimationInv, UNCHANGED <<dispatcher, sub, refused>>
  PROVE  Moves /\ \A h \in Host : Renews(h)
<1>1. Entries' = Entries /\ Held' = Held /\ DispatcherTypeOK'
  BY DEF Entries, Held, dispatcher, lists, tick, AnimationInv, TypeOK, DispatcherTypeOK
<1>2. UNCHANGED <<subscriptions, pendingAdds, timerRunning, nextId, tick>>
  BY DEF dispatcher, lists
<1>3. pos = 0 => pendingAdds = <<>> /\ (timerRunning <=> subscriptions # <<>>)
  BY DEF AnimationInv, LoopFits, TimerMatchesSubscriptions
<1>4. /\ Agree(Entries, Held, nextId) /\ Owns(Entries, sub, nextId) /\ sub \in [Host -> 0 .. MaxId] /\ refused \in [Host -> BOOLEAN]
      /\ RefusedHoldsOne
  BY DEF AnimationInv, TypeOK
<1> QED BY <1>1, <1>2, <1>3, <1>4 DEF Moves, Renews, RefusedHoldsOne

LEMMA ReleaseRenews ==
  ASSUME AnimationInv, NEW h \in Host, Release(h)
  PROVE  sub'[h] = 0 /\ \A x \in Host : Renews(x) /\ (x # h => sub'[x] = sub[x])
<1>1. /\ sub' = [sub EXCEPT ![h] = 0] /\ sub \in [Host -> 0 .. MaxId]
      /\ refused' = [refused EXCEPT ![h] = FALSE] /\ refused \in [Host -> BOOLEAN]
      /\ RefusedHoldsOne
  BY DEF Release, AnimationInv, TypeOK
<1> QED BY <1>1 DEF Renews, RefusedHoldsOne

LEMMA RequestMoves ==
  ASSUME AnimationInv, NEW h \in Host, NEW vis \in BOOLEAN, NEW resumes \in BOOLEAN, Request(h, vis, resumes),
         refused' = refused
  PROVE  /\ Moves
         /\ \A x \in Host : Renews(x) /\ (x # h => sub'[x] = sub[x])
         /\ vis => sub'[h] # 0
         /\ ~vis => sub'[h] = sub[h]
<1>1. sub \in [Host -> 0 .. MaxId] /\ RefusedHoldsOne
  BY DEF AnimationInv, TypeOK
<1>2. CASE vis /\ sub[h] = 0
  <2>1. Subscribe(h) /\ sub' = [sub EXCEPT ![h] = nextId]
    BY <1>2 DEF Request
  <2>2. Moves /\ nextId \in Id
    BY <1>2, <2>1, SubscribeMoves
  <2> QED BY <1>1, <1>2, <2>1, <2>2 DEF Renews, RefusedHoldsOne, Id
<1>3. CASE ~(vis /\ sub[h] = 0)
  <2>1. UNCHANGED <<dispatcher, sub>>
    BY <1>3 DEF Request
  <2> QED BY <1>3, <2>1, SameMoves
<1> QED BY <1>2, <1>3

\* A step of the application keeps the invariant if it keeps what the hosts know.
LEMMA AppKeeps ==
  ASSUME AnimationInv, AppRuns, Moves, UNCHANGED frame,
         \A h \in Host : Renews(h) /\ (revision'[h] # revision[h] => sub'[h] # sub[h] \/ sub'[h] = 0),
         attached' \in [Host -> BOOLEAN], detaching' \in Seq(Host), visible' \in [Host -> BOOLEAN], revision' \in [Host -> 0 .. MaxRevision],
         resume' \in [Host -> BOOLEAN], suspended' \in [Host -> BOOLEAN], shown' \in [Host -> BOOLEAN],
         wanted' \in [Host -> BOOLEAN],
         HiddenHoldsNone', ResumeIsHidden', WantedIsKept'
  PROVE  AnimationInv'
<1>1. pos' = pos /\ inTick' = inTick /\ calling' = calling
  BY DEF Moves, tick
<1>2. TypeOK'
  BY DEF Moves, TypeOK, AnimationInv
<1>3. LoopFits /\ TypeOK /\ FrameFits /\ Agree(Entries, Held, nextId)
  BY DEF AnimationInv
<1>4. calling => frame # NoFrame /\ pos # 0
  BY <1>3 DEF AppRuns, LoopFits
<1>5. LoopFits'
  BY <1>1, <1>3, <1>4 DEF LoopFits, Moves
<1>6. ASSUME frame # NoFrame
      PROVE  frame'.sub = subscriptions'[pos].id /\ Ticked' = Ticked
             /\ (sub'[Ticked] = frame.sub => revision'[Ticked] = frame.revision /\ ~refused'[Ticked])
  <2>1. pos # 0 /\ pos \in 1 .. Len(subscriptions)
    BY <1>3, <1>4, <1>6 DEF LoopFits
  <2>2. subscriptions'[pos].id = subscriptions[pos].id /\ subscriptions'[pos].context = subscriptions[pos].context
    BY <2>1 DEF Moves
  <2>3. Ticked' = Ticked
    BY <1>1, <2>2 DEF Ticked
  <2>4. /\ pos \in 1 .. Len(Entries) /\ Entries[pos] = subscriptions[pos]
        /\ subscriptions[pos].id \in Id /\ Ticked \in Host
    BY <1>3, <2>1, EntryFacts DEF Ticked
  <2>5. /\ frame.sub = subscriptions[pos].id
        /\ sub[Ticked] = frame.sub => revision[Ticked] = frame.revision /\ ~refused[Ticked]
    BY <1>3, <1>6 DEF FrameFits
  <2>6. frame.sub \in Id /\ frame.sub < nextId
    BY <1>3, <2>4, <2>5 DEF Agree
  <2>7. frame.sub # 0 /\ frame.sub # nextId
    BY <2>6, <1>3, DispatcherAssumption DEF Id, TypeOK, DispatcherTypeOK
  <2>8. ASSUME sub'[Ticked] = frame.sub PROVE revision'[Ticked] = frame.revision /\ ~refused'[Ticked]
    <3>1. sub'[Ticked] = sub[Ticked] /\ sub'[Ticked] # 0
      BY <2>4, <2>7, <2>8 DEF Renews
    <3>2. revision'[Ticked] = revision[Ticked]
      BY <2>4, <3>1
    <3>3. refused'[Ticked] => refused[Ticked]
      BY <2>4 DEF Renews
    <3> QED BY <2>5, <2>8, <3>1, <3>2, <3>3
  <2> QED BY <2>2, <2>3, <2>5, <2>8
<1>7. FrameFits'
  BY <1>1, <1>6 DEF FrameFits
<1>8. TimerMatchesSubscriptions'
  BY <1>1 DEF Moves, TimerMatchesSubscriptions
<1>9. RefusedHoldsOne'
  BY DEF RefusedHoldsOne, Renews
<1> QED BY <1>2, <1>5, <1>7, <1>8, <1>9 DEF AnimationInv, Moves

-----------------------------------------------------------------------------
(* The application's steps.                                                *)

LEMMA AppStepKeeps ==
  ASSUME AnimationInv, NEW h \in Host, AppStep(h)
  PROVE  AnimationInv'
<1> DEFINE Typed(d, a, v, r, e, s, o, w) ==
             /\ d \in Seq(Host) /\ a \in [Host -> BOOLEAN] /\ v \in [Host -> BOOLEAN] /\ r \in [Host -> 0 .. MaxRevision]
             /\ e \in [Host -> BOOLEAN] /\ s \in [Host -> BOOLEAN] /\ o \in [Host -> BOOLEAN]
             /\ w \in [Host -> BOOLEAN]
<1>1. Typed(detaching, attached, visible, revision, resume, suspended, shown, wanted) /\ sub \in [Host -> 0 .. MaxId]
  BY DEF AnimationInv, TypeOK
<1>2. HiddenHoldsNone /\ ResumeIsHidden /\ WantedIsKept
  BY DEF AnimationInv
<1> USE DEF HiddenHoldsNone, ResumeIsHidden, WantedIsKept, presentation, deferred
<1>3. CASE AttachHost(h)
  <2> USE <1>3 DEF AttachHost
  <2>1. Moves /\ \A x \in Host : Renews(x)
    BY SameMoves
  <2>2. PICK s \in BOOLEAN : shown' = [shown EXCEPT ![h] = s]
    OBVIOUS
  <2>3. Typed(detaching', attached', visible', revision', resume', suspended', shown', wanted')
    BY <1>1, <2>2
  <2>4. HiddenHoldsNone' /\ ResumeIsHidden' /\ WantedIsKept'
    BY <1>1, <1>2
  <2> QED BY <2>1, <2>3, <2>4, AppKeeps
<1>4. CASE BeginDetach(h)
  <2> USE <1>4 DEF BeginDetach
  <2>1. Moves
    BY ReleaseMoves
  <2>2. sub'[h] = 0 /\ \A x \in Host : Renews(x) /\ (x # h => sub'[x] = sub[x])
    BY ReleaseRenews
  <2>3. Typed(detaching, attached', visible', revision', resume', suspended', shown', wanted')
    BY <1>1
  <2>4. HiddenHoldsNone' /\ ResumeIsHidden' /\ WantedIsKept'
    BY <1>1, <1>2, <2>2
  <2>5. detaching' \in Seq(Host)
    <3>1. <<h>> \in Seq(Host)
      OBVIOUS
    <3> QED BY <1>1, <3>1, ConcatProperties
  <2> QED BY <2>1, <2>2, <2>3, <2>4, <2>5, AppKeeps
<1>5. CASE RequestAnimation(h)
  <2> USE <1>5 DEF RequestAnimation
  <2>1. visible[h] \in BOOLEAN /\ resume[h] \in BOOLEAN
    BY <1>1
  <2>2. /\ Moves /\ \A x \in Host : Renews(x) /\ (x # h => sub'[x] = sub[x])
        /\ visible[h] => sub'[h] # 0
        /\ ~visible[h] => sub'[h] = sub[h]
    BY <2>1, RequestMoves
  <2>3. /\ wanted' = [wanted EXCEPT ![h] = TRUE]
        /\ resume' = [resume EXCEPT ![h] = IF visible[h] THEN resume[h] ELSE TRUE]
    BY DEF Request
  <2>4. Typed(detaching', attached', visible', revision', resume', suspended', shown', wanted')
    BY <1>1, <2>1, <2>3
  <2>5. HiddenHoldsNone' /\ ResumeIsHidden' /\ WantedIsKept'
    BY <1>1, <1>2, <2>2, <2>3
  <2> QED BY <2>2, <2>4, <2>5, AppKeeps
<1>6. CASE HidePresentation(h)
  <2> USE <1>6 DEF HidePresentation
  <2>1. Moves
    BY ReleaseMoves
  <2>2. sub'[h] = 0 /\ \A x \in Host : Renews(x) /\ (x # h => sub'[x] = sub[x])
    BY ReleaseRenews
  <2>3. revision' \in [Host -> 0 .. MaxRevision] /\ \A x \in Host \ {h} : revision'[x] = revision[x]
    BY <1>1, HostAssumption
  <2>4. Typed(detaching', attached', visible', revision', resume', suspended', shown', wanted')
    BY <1>1, <2>3
  <2>5. HiddenHoldsNone' /\ ResumeIsHidden' /\ WantedIsKept'
    BY <1>1, <1>2, <2>2
  <2> QED BY <2>1, <2>2, <2>3, <2>4, <2>5, AppKeeps
<1>7. CASE ShowPresentation(h)
  <2> USE <1>7 DEF ShowPresentation
  <2>1. sub[h] = 0
    BY <1>2
  <2>2. revision' \in [Host -> 0 .. MaxRevision] /\ \A x \in Host \ {h} : revision'[x] = revision[x]
    BY <1>1, HostAssumption
  <2>3. CASE resume[h]
    <3>1. /\ Moves /\ \A x \in Host : Renews(x) /\ (x # h => sub'[x] = sub[x])
          /\ sub'[h] # 0
      BY <2>3, RequestMoves
    <3>2. wanted' = [wanted EXCEPT ![h] = TRUE] /\ resume' = [resume EXCEPT ![h] = FALSE]
      BY <2>3 DEF Request
    <3>3. Typed(detaching', attached', visible', revision', resume', suspended', shown', wanted')
      BY <1>1, <2>2, <3>2
    <3>4. HiddenHoldsNone' /\ ResumeIsHidden' /\ WantedIsKept'
      BY <1>1, <1>2, <3>1, <3>2
    <3> QED BY <2>1, <2>2, <3>1, <3>3, <3>4, AppKeeps
  <2>4. CASE ~resume[h]
    <3>1. UNCHANGED <<dispatcher, sub, refused, resume, wanted>>
      BY <2>4
    <3>2. Moves /\ \A x \in Host : Renews(x)
      BY <3>1, SameMoves
    <3>3. Typed(detaching', attached', visible', revision', resume', suspended', shown', wanted')
      BY <1>1, <2>2, <3>1
    <3>4. HiddenHoldsNone' /\ ResumeIsHidden' /\ WantedIsKept'
      BY <1>1, <1>2, <2>1, <2>4, <3>1
    <3> QED BY <2>1, <2>2, <3>1, <3>2, <3>3, <3>4, AppKeeps
  <2> QED BY <2>3, <2>4
<1>8. CASE HideWindow(h)
  <2> USE <1>8 DEF HideWindow
  <2>1. Moves /\ \A x \in Host : Renews(x)
    BY SameMoves
  <2>2. Typed(detaching', attached', visible', revision', resume', suspended', shown', wanted')
    BY <1>1
  <2>3. HiddenHoldsNone' /\ ResumeIsHidden' /\ WantedIsKept'
    BY <1>1, <1>2
  <2> QED BY <2>1, <2>2, <2>3, AppKeeps
<1>9. CASE ShowWindow(h)
  <2> USE <1>9 DEF ShowWindow
  <2>1. PICK s \in BOOLEAN : shown' = [shown EXCEPT ![h] = s]
    BY <1>1
  <2>2. visible[h] \in BOOLEAN /\ resume[h] \in BOOLEAN
    BY <1>1
  <2>3. CASE suspended[h]
    <3>1. /\ Moves /\ \A x \in Host : Renews(x) /\ (x # h => sub'[x] = sub[x])
          /\ visible[h] => sub'[h] # 0
          /\ ~visible[h] => sub'[h] = sub[h]
      BY <2>2, <2>3, RequestMoves
    <3>2. /\ wanted' = [wanted EXCEPT ![h] = TRUE]
          /\ resume' = [resume EXCEPT ![h] = IF visible[h] THEN resume[h] ELSE TRUE]
      BY <2>3 DEF Request
    <3>3. Typed(detaching', attached', visible', revision', resume', suspended', shown', wanted')
      BY <1>1, <2>1, <2>2, <3>2
    <3>4. HiddenHoldsNone' /\ ResumeIsHidden' /\ WantedIsKept'
      BY <1>1, <1>2, <3>1, <3>2
    <3> QED BY <3>1, <3>3, <3>4, AppKeeps
  <2>4. CASE ~suspended[h]
    <3>1. UNCHANGED <<dispatcher, sub, refused, resume, wanted>>
      BY <2>4
    <3>2. Moves /\ \A x \in Host : Renews(x)
      BY <3>1, SameMoves
    <3>3. Typed(detaching', attached', visible', revision', resume', suspended', shown', wanted')
      BY <1>1, <2>1, <3>1
    <3>4. HiddenHoldsNone' /\ ResumeIsHidden' /\ WantedIsKept'
      BY <1>1, <1>2, <2>4, <3>1
    <3> QED BY <3>1, <3>2, <3>3, <3>4, AppKeeps
  <2> QED BY <2>3, <2>4
<1>10. CASE ShowAncestor(h)
  <2> USE <1>10 DEF ShowAncestor
  <2>1. Moves /\ \A x \in Host : Renews(x)
    BY SameMoves
  <2>2. Typed(detaching', attached', visible', revision', resume', suspended', shown', wanted')
    BY <1>1
  <2>3. HiddenHoldsNone' /\ ResumeIsHidden' /\ WantedIsKept'
    BY <1>1, <1>2
  <2> QED BY <2>1, <2>2, <2>3, AppKeeps
<1> QED BY <1>3, <1>4, <1>5, <1>6, <1>7, <1>8, <1>9, <1>10 DEF AppStep

\* The tree that Detach drops wants nothing more.
LEMMA EndDetachKeeps ==
  ASSUME AnimationInv, EndDetach
  PROVE  AnimationInv'
<1>1. /\ TypeOK /\ detaching \in Seq(Host) /\ detaching # <<>>
      /\ wanted' = [wanted EXCEPT ![Head(detaching)] = FALSE] /\ detaching' = Tail(detaching)
  BY DEF AnimationInv, TypeOK, EndDetach
<1>2. /\ UNCHANGED <<subscriptions, pendingAdds, inTick, pos, calling, timerRunning, nextId>>
      /\ UNCHANGED <<attached, sub, visible, revision, resume, suspended, shown, frame, refused>>
  BY DEF EndDetach, dispatcher, lists, tick, presentation, deferred
<1>3. Entries' = Entries /\ Ticked' = Ticked /\ Held' = Held
  BY <1>2 DEF Entries, Ticked, Held
<1>4. wanted \in [Host -> BOOLEAN]
  BY <1>1 DEF TypeOK
<1>5. wanted' \in [Host -> BOOLEAN] /\ \A h \in Host : wanted'[h] => wanted[h]
  BY <1>1, <1>4
<1>6. detaching' \in Seq(Host)
  BY <1>1, HeadTailProperties
<1>7. TypeOK'
  BY <1>1, <1>2, <1>5, <1>6 DEF TypeOK, DispatcherTypeOK
<1>8. LoopFits' /\ FrameFits' /\ HiddenHoldsNone' /\ RefusedHoldsOne' /\ ResumeIsHidden' /\ TimerMatchesSubscriptions'
  BY <1>2, <1>3 DEF AnimationInv, LoopFits, FrameFits, HiddenHoldsNone, RefusedHoldsOne, ResumeIsHidden,
                    TimerMatchesSubscriptions
<1>9. WantedIsKept'
  BY <1>2, <1>5 DEF AnimationInv, WantedIsKept
<1>10. Agree(Entries', Held', nextId') /\ Owns(Entries', sub', nextId')
  BY <1>2, <1>3 DEF AnimationInv
<1> QED BY <1>7, <1>8, <1>9, <1>10 DEF AnimationInv

-----------------------------------------------------------------------------
(* The loop and the ticks.                                                 *)

LEMMA DispatcherStepKeeps ==
  ASSUME AnimationInv, DispatcherStep
  PROVE  AnimationInv'
<1>1. /\ TypeOK /\ LoopFits /\ Agree(Entries, Held, nextId) /\ Owns(Entries, sub, nextId)
      /\ subscriptions \in Seq(Subscription) /\ pendingAdds \in Seq(Subscription)
      /\ pos \in 0 .. Len(subscriptions) + 1
  BY DEF AnimationInv, TypeOK, DispatcherTypeOK
<1>2. /\ UNCHANGED <<attached, detaching, sub, visible, revision, resume, suspended, shown, wanted, frame, refused>>
      /\ HiddenHoldsNone' /\ RefusedHoldsOne' /\ ResumeIsHidden' /\ WantedIsKept' /\ HostTypes' /\ Held' = Held
  BY DEF DispatcherStep, AnimationInv, HiddenHoldsNone, RefusedHoldsOne, ResumeIsHidden, WantedIsKept, Held,
         presentation, deferred, TypeOK, HostTypes
<1>3. DispatcherTypeOK' => TypeOK'
  BY <1>2 DEF TypeOK, HostTypes
<1>4. nextId \in 1 .. MaxId + 1 /\ timerRunning \in BOOLEAN /\ inTick \in BOOLEAN /\ calling \in BOOLEAN
  BY <1>1 DEF TypeOK, DispatcherTypeOK
<1>5. CASE BeginTick
  <2>1. pendingAdds = <<>> /\ calling = FALSE /\ frame = NoFrame /\ pos = 0 /\ inTick = FALSE /\ nextId' = nextId
    BY <1>1, <1>5, <1>4 DEF BeginTick, LoopFits
  <2>2. CASE subscriptions = <<>>
    <3>1. /\ subscriptions' = <<>> /\ pendingAdds' = <<>> /\ timerRunning' = FALSE
          /\ inTick' = inTick /\ pos' = 0 /\ calling' = calling
      BY <1>5, <2>1, <2>2, ActiveEmpty DEF BeginTick, TimerFollows, tick
    <3>2. Entries' = Entries
      BY <2>1, <2>2, <3>1 DEF Entries
    <3>3. TypeOK'
      BY <1>1, <1>3, <1>4, <2>1, <2>2, <3>1 DEF DispatcherTypeOK
    <3>4. LoopFits' /\ FrameFits' /\ TimerMatchesSubscriptions'
      BY <1>2, <2>1, <3>1 DEF LoopFits, FrameFits, TimerMatchesSubscriptions
    <3> QED BY <1>1, <1>2, <2>1, <3>2, <3>3, <3>4 DEF AnimationInv
  <2>3. CASE subscriptions # <<>>
    <3>1. inTick' = TRUE /\ pos' = 1 /\ UNCHANGED <<subscriptions, pendingAdds, timerRunning, calling>>
      BY <1>5, <2>3 DEF BeginTick, lists
    <3>2. Entries' = Entries
      BY <3>1 DEF Entries
    <3>3. TypeOK'
      BY <1>1, <1>3, <1>4, <2>1, <3>1 DEF DispatcherTypeOK
    <3>4. LoopFits'
      <4>1. inTick' = TRUE /\ pos' # 0 /\ calling' = FALSE /\ frame' = NoFrame
        BY <1>2, <2>1, <3>1
      <4> QED BY <4>1 DEF LoopFits
    <3>5. FrameFits' /\ TimerMatchesSubscriptions'
      BY <1>2, <2>1, <3>1 DEF FrameFits, TimerMatchesSubscriptions
    <3> QED BY <1>1, <1>2, <2>1, <3>2, <3>3, <3>4, <3>5 DEF AnimationInv
  <2> QED BY <2>2, <2>3
<1>6. CASE Skip
  <2>1. /\ pos \in 1 .. Len(subscriptions) /\ calling = FALSE /\ frame = NoFrame
        /\ pos' = pos + 1 /\ UNCHANGED <<subscriptions, pendingAdds, inTick, calling, timerRunning, nextId>>
    BY <1>1, <1>6, <1>4 DEF Skip, LoopFits, lists
  <2>2. Entries' = Entries
    BY <2>1 DEF Entries
  <2>3. TypeOK'
    BY <1>1, <1>3, <1>4, <2>1 DEF DispatcherTypeOK
  <2>4. LoopFits' /\ FrameFits' /\ TimerMatchesSubscriptions'
    BY <1>1, <1>2, <2>1 DEF LoopFits, FrameFits, TimerMatchesSubscriptions
  <2> QED BY <1>1, <1>2, <2>1, <2>2, <2>3, <2>4 DEF AnimationInv
<1>7. CASE BeginCallback
  <2>1. /\ pos \in 1 .. Len(subscriptions) /\ ~calling /\ frame = NoFrame /\ ~subscriptions[pos].pendingRemove
        /\ calling' = TRUE /\ UNCHANGED <<subscriptions, pendingAdds, inTick, pos, timerRunning, nextId>>
    BY <1>1, <1>7 DEF BeginCallback, LoopFits, lists
  <2>2. Entries' = Entries
    BY <2>1 DEF Entries
  <2>3. TypeOK'
    BY <1>1, <1>3, <1>4, <2>1 DEF DispatcherTypeOK
  <2>4. LoopFits' /\ FrameFits' /\ TimerMatchesSubscriptions'
    BY <1>1, <1>2, <2>1 DEF LoopFits, FrameFits, TimerMatchesSubscriptions
  <2> QED BY <1>1, <1>2, <2>1, <2>2, <2>3, <2>4 DEF AnimationInv
<1>8. CASE EndTick
  <2> DEFINE k == Active(subscriptions) \o Active(pendingAdds)
  <2>1. /\ pos > Len(subscriptions) /\ inTick' = FALSE /\ pos' = 0
        /\ subscriptions' = k /\ pendingAdds' = <<>>
        /\ timerRunning' = (k # <<>>) /\ UNCHANGED <<calling, nextId>>
    BY <1>8 DEF EndTick, TimerFollows
  <2>2. PICK r : Picks(k, Entries, r)
    BY <1>1, ActivePicksOfTwo DEF Entries
  <2> HIDE DEF k
  <2>3. k \in Seq(Subscription)
    BY <2>2 DEF Picks
  <2>4. Agree(k, Held, nextId) /\ Owns(k, sub, nextId)
    <3>1. \A x \in Host : sub[x] = sub[x] \/ sub[x] = 0
      OBVIOUS
    <3> QED BY <1>1, <2>2, <3>1, AgreePicks, PicksImages, OwnsKept
  <2>5. Entries' = k
    BY <2>1, <2>3, NoSecondList DEF Entries
  <2>6. calling = FALSE /\ frame = NoFrame
    BY <1>1, <1>4, <2>1 DEF LoopFits
  <2>7. TypeOK'
    <3>1. subscriptions' \in Seq(Subscription) /\ pendingAdds' \in Seq(Subscription) /\ timerRunning' \in BOOLEAN
      BY <2>1, <2>3
    <3>2. pos' \in 0 .. Len(subscriptions') + 1
      BY <2>1, <2>3
    <3>3. inTick' \in BOOLEAN /\ calling' \in BOOLEAN /\ nextId' \in 1 .. MaxId + 1
      BY <1>4, <2>1, <2>6
    <3> QED BY <1>3, <3>1, <3>2, <3>3 DEF DispatcherTypeOK
  <2>8. LoopFits' /\ FrameFits' /\ TimerMatchesSubscriptions'
    BY <1>2, <2>1, <2>6 DEF LoopFits, FrameFits, TimerMatchesSubscriptions
  <2> QED BY <1>2, <2>1, <2>4, <2>5, <2>7, <2>8 DEF AnimationInv
<1> QED BY <1>5, <1>6, <1>7, <1>8 DEF DispatcherStep

\* A callback that wants no further tick marks its entry, or finds it marked.
LEMMA DropAgrees ==
  ASSUME AnimationInv, calling, EndCallback(FALSE),
         \/ Held[Ticked] = subscriptions[pos].id /\ Held' = [Held EXCEPT ![Ticked] = 0]
         \/ Held[Ticked] # subscriptions[pos].id /\ Held' = Held
  PROVE  /\ subscriptions' \in Seq(Subscription) /\ Len(subscriptions') = Len(subscriptions)
         /\ Agree(Entries', Held', nextId')
         /\ \A i \in 1 .. Len(Entries') : /\ i \in 1 .. Len(Entries)
                                         /\ Entries'[i].id = Entries[i].id
                                         /\ Entries'[i].context = Entries[i].context
<1> DEFINE n == Len(subscriptions)
           m == Len(pendingAdds)
<1>1. /\ TypeOK /\ pos \in 1 .. n /\ Agree(Entries, Held, nextId)
      /\ subscriptions \in Seq(Subscription) /\ pendingAdds \in Seq(Subscription) /\ Held \in [Host -> 0 .. MaxId]
  BY HeldFacts DEF AnimationInv, LoopFits, TypeOK, DispatcherTypeOK
<1>2. subscriptions' = [subscriptions EXCEPT ![pos].pendingRemove = TRUE] /\ UNCHANGED <<pendingAdds, nextId>>
  BY DEF EndCallback
<1>3. /\ pos \in 1 .. Len(Entries) /\ Entries[pos] = subscriptions[pos]
      /\ subscriptions[pos].id \in Id /\ Ticked \in Host
  BY <1>1, EntryFacts DEF Ticked
<1>4. \A i \in 1 .. n : subscriptions[i] \in Subscription
  BY <1>1
<1> DEFINE e == [subscriptions[pos] EXCEPT !.pendingRemove = TRUE]
<1>5. subscriptions' = [subscriptions EXCEPT ![pos] = e]
  BY <1>2
<1>6. /\ e \in Subscription /\ e.id = subscriptions[pos].id /\ e.context = subscriptions[pos].context
       /\ e.pendingRemove = TRUE
  BY <1>1, <1>4 DEF Subscription
<1> HIDE DEF e
<1>7. ASSUME NEW i \in 1 .. n
      PROVE  /\ subscriptions'[i] \in Subscription
             /\ subscriptions'[i].id = subscriptions[i].id /\ subscriptions'[i].context = subscriptions[i].context
             /\ subscriptions'[i].pendingRemove = (i = pos \/ subscriptions[i].pendingRemove)
  <2>1. CASE i = pos
    <3>1. subscriptions'[i] = e
      BY <1>1, <1>5, <2>1
    <3> QED BY <1>6, <2>1, <3>1
  <2>2. CASE i # pos
    <3>1. subscriptions'[i] = subscriptions[i]
      BY <1>1, <1>5, <2>2
    <3>2. subscriptions[i].pendingRemove \in BOOLEAN
      BY <1>4 DEF Subscription
    <3> QED BY <1>4, <2>2, <3>1, <3>2
  <2> QED BY <2>1, <2>2
<1>8. subscriptions' \in Seq(Subscription) /\ Len(subscriptions') = n
  BY <1>1, <1>5, <1>6
<1>9. Entries' \in Seq(Subscription) /\ Len(Entries') = Len(Entries) /\ Len(Entries) = n + m
  BY <1>1, <1>2, <1>8, TwoLists DEF Entries
<1>10. \A i \in 1 .. Len(Entries) : Entries[i] \in Subscription /\ Entries[i].pendingRemove \in BOOLEAN
  <2>1. Entries \in Seq(Subscription)
    BY <1>1 DEF Agree
  <2>2. \A i \in 1 .. Len(Entries) : Entries[i] \in Subscription
    BY <2>1
  <2> QED BY <2>2 DEF Subscription
<1>11. ASSUME NEW i \in 1 .. Len(Entries)
      PROVE  /\ Entries'[i].id = Entries[i].id /\ Entries'[i].context = Entries[i].context
             /\ Entries'[i].pendingRemove = (i = pos \/ Entries[i].pendingRemove)
  <2>1. CASE i \in 1 .. n
    <3>1. Entries[i] = subscriptions[i]
      BY <1>1, <2>1, TwoLists DEF Entries
    <3>2. Entries'[i] = subscriptions'[i]
      BY <1>1, <1>2, <1>8, <2>1, TwoLists DEF Entries
    <3> QED BY <1>7, <2>1, <3>1, <3>2
  <2>2. ASSUME NEW j \in 1 .. m, i = n + j
        PROVE  /\ Entries'[i].id = Entries[i].id /\ Entries'[i].context = Entries[i].context
               /\ Entries'[i].pendingRemove = (i = pos \/ Entries[i].pendingRemove)
    <3>1. Entries[n + j] = pendingAdds[j]
      BY <1>1, TwoLists DEF Entries
    <3>2. Entries'[n + j] = pendingAdds[j]
      BY <1>1, <1>2, <1>8, TwoLists DEF Entries
    <3>3. i # pos
      BY <1>1, <2>2
    <3>4. Entries'[i] = Entries[i]
      BY <2>2, <3>1, <3>2
    <3> QED BY <3>3, <3>4, <1>10
  <2>3. i \in 1 .. n \/ \E j \in 1 .. m : i = n + j
    BY <1>1, TwoLists DEF Entries
  <2> QED BY <2>1, <2>2, <2>3
<1>12. CASE Held[Ticked] = subscriptions[pos].id /\ Held' = [Held EXCEPT ![Ticked] = 0]
  <2>1. Held[Ticked] # 0
    BY <1>3, <1>12 DEF Id
  <2>2. \A i \in 1 .. Len(Entries) : Entries[i].id = Held[Ticked] <=> i = pos
    BY <1>1, <1>3, <1>12 DEF Agree
  <2>3. \A i \in 1 .. Len(Entries) :
          /\ Entries'[i].id = Entries[i].id /\ Entries'[i].context = Entries[i].context
          /\ Entries'[i].pendingRemove = (Entries[i].id = Held[Ticked] \/ Entries[i].pendingRemove)
    BY <1>11, <2>2
  <2>4. Agree(Entries', [Held EXCEPT ![Ticked] = 0], nextId)
    BY <1>1, <1>3, <1>9, <2>1, <2>3, AgreeMark
  <2> QED BY <1>2, <1>8, <1>9, <1>11, <1>12, <2>4
<1>13. CASE Held[Ticked] # subscriptions[pos].id /\ Held' = Held
  <2>1. Entries[pos].pendingRemove
    BY <1>1, <1>3, <1>13 DEF Agree, Ticked
  <2>2. \A i \in 1 .. Len(Entries) :
          /\ Entries'[i].id = Entries[i].id /\ Entries'[i].context = Entries[i].context
          /\ Entries'[i].pendingRemove = Entries[i].pendingRemove
    <3> TAKE i \in 1 .. Len(Entries)
    <3>1. Entries'[i].id = Entries[i].id /\ Entries'[i].context = Entries[i].context
      BY <1>11
    <3>2. Entries'[i].pendingRemove = (i = pos \/ Entries[i].pendingRemove)
      BY <1>11
    <3>3. (i = pos \/ Entries[i].pendingRemove) = Entries[i].pendingRemove
      BY <1>10, <2>1
    <3> QED BY <3>1, <3>2, <3>3
  <2>3. Agree(Entries', Held, nextId)
    BY <1>1, <1>9, <2>2, AgreeSame
  <2> QED BY <1>2, <1>8, <1>9, <1>11, <1>13, <2>3
<1> QED BY <1>12, <1>13

\* The end of a callback, whatever it wants.
LEMMA EndKeeps ==
  ASSUME AnimationInv, calling, NEW keep \in BOOLEAN, EndCallback(keep), frame' = NoFrame,
         keep => Held' = Held,
         ~keep => \/ Held[Ticked] = subscriptions[pos].id /\ Held' = [Held EXCEPT ![Ticked] = 0]
                  \/ Held[Ticked] # subscriptions[pos].id /\ Held' = Held,
         sub' = sub \/ sub' = [sub EXCEPT ![Ticked] = 0],
         UNCHANGED <<attached, detaching, visible, revision, resume, shown>>,
         suspended' \in [Host -> BOOLEAN], wanted' \in [Host -> BOOLEAN], refused' \in [Host -> BOOLEAN],
         RefusedHoldsOne', WantedIsKept'
  PROVE  AnimationInv'
<1>1. /\ TypeOK /\ pos \in 1 .. Len(subscriptions) /\ inTick /\ Agree(Entries, Held, nextId)
      /\ Owns(Entries, sub, nextId)
      /\ subscriptions \in Seq(Subscription) /\ sub \in [Host -> 0 .. MaxId] /\ Ticked \in Host
  BY EntryFacts DEF AnimationInv, LoopFits, TypeOK, DispatcherTypeOK, Ticked
<1>2. calling' = FALSE /\ pos' = pos + 1 /\ UNCHANGED <<pendingAdds, inTick, timerRunning, nextId>>
  BY DEF EndCallback
<1>3. /\ subscriptions' \in Seq(Subscription) /\ Len(subscriptions') = Len(subscriptions)
      /\ Agree(Entries', Held', nextId')
      /\ \A i \in 1 .. Len(Entries') : /\ i \in 1 .. Len(Entries)
                                      /\ Entries'[i].id = Entries[i].id
                                      /\ Entries'[i].context = Entries[i].context
  <2>1. CASE keep
    <3>1. subscriptions' = subscriptions
      BY <2>1 DEF EndCallback
    <3>2. Entries' = Entries
      BY <1>2, <3>1 DEF Entries
    <3> QED BY <1>1, <1>2, <2>1, <3>1, <3>2
  <2>2. CASE ~keep
    <3>1. EndCallback(FALSE)
      BY <2>2
    <3> QED BY <2>2, <3>1, DropAgrees
  <2> QED BY <2>1, <2>2
<1>4. sub' \in [Host -> 0 .. MaxId] /\ \A h \in Host : sub'[h] = sub[h] \/ sub'[h] = 0
  <2>1. sub' = sub \/ sub' = [sub EXCEPT ![Ticked] = 0]
    OBVIOUS
  <2> QED BY <1>1, <2>1, DispatcherAssumption
<1>5. TypeOK'
  <2>1. DispatcherTypeOK'
    <3>1. pendingAdds \in Seq(Subscription) /\ inTick \in BOOLEAN
          /\ timerRunning \in BOOLEAN /\ nextId \in 1 .. MaxId + 1
      BY <1>1 DEF TypeOK, DispatcherTypeOK
    <3>2. pos' \in 0 .. Len(subscriptions') + 1
      BY <1>1, <1>2, <1>3
    <3> QED BY <1>2, <1>3, <3>1, <3>2 DEF DispatcherTypeOK
  <2>2. HostTypes'
    BY <1>1, <1>4 DEF TypeOK, HostTypes
  <2> QED BY <2>1, <2>2 DEF TypeOK, HostTypes
<1>6. LoopFits' /\ FrameFits' /\ TimerMatchesSubscriptions'
  <2>1. pos # 0 /\ pos' # 0 /\ inTick' = TRUE
    BY <1>1, <1>2 DEF TypeOK, DispatcherTypeOK
  <2> QED BY <1>2, <2>1 DEF LoopFits, FrameFits, TimerMatchesSubscriptions
<1>7. HiddenHoldsNone' /\ ResumeIsHidden'
  BY <1>4 DEF AnimationInv, HiddenHoldsNone, ResumeIsHidden
<1>8. Owns(Entries', sub', nextId')
  BY <1>1, <1>2, <1>3, <1>4, OwnsKept
<1> QED BY <1>3, <1>5, <1>6, <1>7, <1>8 DEF AnimationInv

LEMMA HostTickKeeps ==
  ASSUME AnimationInv, NEW h \in Host, HostTick(h)
  PROVE  AnimationInv'
<1>1. /\ TypeOK /\ LoopFits /\ FrameFits /\ HiddenHoldsNone /\ RefusedHoldsOne /\ WantedIsKept
      /\ Agree(Entries, Held, nextId) /\ Owns(Entries, sub, nextId)
      /\ sub \in [Host -> 0 .. MaxId] /\ wanted \in [Host -> BOOLEAN] /\ refused \in [Host -> BOOLEAN]
      /\ resume \in [Host -> BOOLEAN] /\ suspended \in [Host -> BOOLEAN]
  BY DEF AnimationInv, TypeOK
<1>2. /\ calling /\ h = Ticked /\ pos \in 1 .. Len(subscriptions)
  BY <1>1 DEF HostTick, RefuseTick, StartTick, AbandonTick, FinishTick, Refusing, Returned, LoopFits
<1>3. /\ pos \in 1 .. Len(Entries) /\ Entries[pos] = subscriptions[pos]
      /\ subscriptions[pos].id \in Id /\ subscriptions[pos].context = h
  BY <1>1, <1>2, EntryFacts DEF Ticked
<1>4. Held \in [Host -> 0 .. MaxId] /\ Held[h] = IF refused[h] THEN 0 ELSE sub[h]
  BY <1>1, <1>3, HeldFacts DEF Host, Ticked
<1>5. frame = NoFrame => Held[h] = subscriptions[pos].id /\ sub[h] = Held[h] /\ ~refused[h] /\ visible[h]
  <2>1. ASSUME frame = NoFrame PROVE Held[h] = subscriptions[pos].id
    BY <1>1, <1>2, <1>3, <2>1 DEF LoopFits, Agree
  <2> QED BY <1>1, <1>3, <1>4, <2>1 DEF HiddenHoldsNone, Id
<1>6. CASE RefuseTick(h)
  <2>1. /\ frame = NoFrame /\ EndCallback(FALSE)
        /\ UNCHANGED <<attached, detaching, visible, revision, shown, frame, wanted>>
        /\ suspended' = [suspended EXCEPT ![h] = @ \/ (attached[h] /\ visible[h])]
        /\ resume' = [resume EXCEPT ![h] = @ \/ (attached[h] /\ ~visible[h])]
        /\ sub' = IF attached[h] THEN [sub EXCEPT ![h] = 0] ELSE sub
        /\ refused' = [refused EXCEPT ![h] = @ \/ ~attached[h]]
    BY <1>6 DEF RefuseTick, Refusing, presentation
  <2>2. Held[h] = subscriptions[pos].id /\ sub[h] # 0 /\ ~refused[h] /\ visible[h]
    BY <1>3, <1>5, <2>1 DEF Id
  <2>3. resume' = resume /\ suspended' = [suspended EXCEPT ![h] = @ \/ attached[h]]
    BY <1>1, <2>1, <2>2
  <2>4. Held' = [Held EXCEPT ![h] = 0]
    <3>1. CASE attached[h]
      <4>1. refused' = refused /\ sub' = [sub EXCEPT ![h] = 0]
        BY <1>1, <2>1, <2>2, <3>1
      <4> QED BY <1>1, <4>1 DEF Held
    <3>2. CASE ~attached[h]
      <4>1. refused' = [refused EXCEPT ![h] = TRUE] /\ sub' = sub
        BY <1>1, <2>1, <2>2, <3>2
      <4> QED BY <1>1, <4>1 DEF Held
    <3> QED BY <3>1, <3>2
  <2>5. suspended' \in [Host -> BOOLEAN] /\ refused' \in [Host -> BOOLEAN]
    <3>1. attached \in [Host -> BOOLEAN]
      BY <1>1 DEF TypeOK
    <3> QED BY <1>1, <2>1, <2>3, <3>1
  <2>6. WantedIsKept' /\ RefusedHoldsOne'
    BY <1>1, <2>1, <2>2, <2>3 DEF WantedIsKept, RefusedHoldsOne
  <2>7. wanted' \in [Host -> BOOLEAN] /\ frame' = NoFrame
    BY <1>1, <2>1
  <2> QED BY <1>2, <2>1, <2>2, <2>3, <2>4, <2>5, <2>6, <2>7, EndKeeps
<1>7. CASE StartTick(h)
  <2>1. /\ frame = NoFrame /\ frame' = [revision |-> revision[h], sub |-> sub[h]]
        /\ UNCHANGED <<dispatcher, attached, detaching, sub, visible, revision, resume, suspended, shown, refused, wanted>>
    BY <1>7 DEF StartTick, Refusing, presentation, deferred
  <2>2. sub[h] = subscriptions[pos].id /\ sub[h] \in Id /\ revision[h] \in 0 .. MaxRevision /\ ~refused[h]
    BY <1>1, <1>3, <1>5, <2>1 DEF TypeOK
  <2>3. frame' \in [revision : 0 .. MaxRevision, sub : Id]
    BY <2>1, <2>2
  <2>4. frame' # NoFrame
    BY <2>3, HostAssumption, DispatcherAssumption DEF Id
  <2>5. UNCHANGED <<subscriptions, pendingAdds, inTick, pos, calling, timerRunning, nextId>>
        /\ Entries' = Entries /\ Ticked' = Ticked /\ Held' = Held
    BY <2>1 DEF dispatcher, lists, tick, Entries, Ticked, Held
  <2>6. TypeOK'
    BY <1>1, <2>1, <2>3, <2>5 DEF TypeOK, DispatcherTypeOK
  <2>7. FrameFits'
    BY <1>2, <2>1, <2>2, <2>5 DEF FrameFits
  <2>8. LoopFits'
    BY <1>1, <1>2, <2>4, <2>5 DEF LoopFits
  <2>9. HiddenHoldsNone' /\ RefusedHoldsOne' /\ ResumeIsHidden' /\ WantedIsKept' /\ TimerMatchesSubscriptions'
    BY <2>1, <2>5 DEF AnimationInv, HiddenHoldsNone, RefusedHoldsOne, ResumeIsHidden, WantedIsKept,
                      TimerMatchesSubscriptions
  <2> QED BY <1>1, <2>1, <2>5, <2>6, <2>7, <2>8, <2>9 DEF AnimationInv
<1>8. frame # NoFrame => /\ frame.sub = subscriptions[pos].id
                         /\ sub[h] = frame.sub => visible[h] /\ revision[h] = frame.revision /\ ~refused[h]
  BY <1>1, <1>2, <1>3 DEF FrameFits, HiddenHoldsNone, Id
<1>9. CASE AbandonTick(h)
  <2>1. /\ frame # NoFrame /\ ~TickCurrent(h) /\ EndCallback(FALSE) /\ frame' = NoFrame
        /\ UNCHANGED <<attached, detaching, sub, visible, revision, resume, suspended, shown, refused, wanted>>
    BY <1>9 DEF AbandonTick, presentation, deferred
  <2>2. Held[h] # subscriptions[pos].id /\ Held' = Held
    <3>1. sub[h] # subscriptions[pos].id
      BY <1>8, <2>1 DEF TickCurrent
    <3> QED BY <1>3, <1>4, <2>1, <3>1 DEF Id, Held
  <2>3. WantedIsKept' /\ RefusedHoldsOne'
    BY <1>1, <2>1 DEF WantedIsKept, RefusedHoldsOne
  <2> QED BY <1>1, <1>2, <2>1, <2>2, <2>3, EndKeeps
<1>10. ASSUME NEW keep \in BOOLEAN, FinishTick(h, keep) PROVE AnimationInv'
  <2>1. /\ frame # NoFrame /\ TickCurrent(h) /\ EndCallback(keep) /\ frame' = NoFrame
        /\ sub' = IF keep THEN sub ELSE [sub EXCEPT ![h] = 0]
        /\ wanted' = [wanted EXCEPT ![h] = keep]
        /\ UNCHANGED <<attached, detaching, visible, revision, resume, suspended, shown, refused>>
    BY <1>10 DEF FinishTick, presentation, deferred
  <2>2. sub[h] = subscriptions[pos].id /\ sub[h] # 0 /\ ~refused[h] /\ Held[h] = sub[h]
    BY <1>3, <1>8, <1>4, <2>1 DEF TickCurrent, Id
  <2>3. wanted' \in [Host -> BOOLEAN] /\ WantedIsKept' /\ RefusedHoldsOne'
    BY <1>1, <2>1, <2>2 DEF WantedIsKept, RefusedHoldsOne
  <2>4. Held' = IF keep THEN Held ELSE [Held EXCEPT ![h] = 0]
    BY <1>1, <2>1, <2>2 DEF Held
  <2> QED BY <1>1, <1>2, <2>1, <2>2, <2>3, <2>4, EndKeeps
<1> QED BY <1>6, <1>7, <1>9, <1>10 DEF HostTick

-----------------------------------------------------------------------------
(* The theorems.                                                           *)

LEMMA AnimationInit == Init => AnimationInv
<1> SUFFICES ASSUME Init PROVE AnimationInv
  OBVIOUS
<1> USE DEF Init, DispatcherInit
<1>1. TypeOK
  <2>1. subscriptions \in Seq(Subscription) /\ pendingAdds \in Seq(Subscription) /\ Len(subscriptions) = 0
    OBVIOUS
  <2>2. DispatcherTypeOK
    <3>1. nextId \in 1 .. MaxId + 1 /\ pos \in 0 .. Len(subscriptions) + 1
      BY <2>1, DispatcherAssumption
    <3> QED BY <2>1, <3>1 DEF DispatcherTypeOK
  <2>3. HostTypes
    BY DispatcherAssumption, HostAssumption DEF HostTypes
  <2> QED BY <2>3, <2>2 DEF TypeOK, HostTypes
<1>2. Entries = <<>>
  BY DEF Entries
<1>3. Agree(Entries, Held, nextId) /\ Owns(Entries, sub, nextId)
  BY <1>2 DEF Agree, Owns, Held, Subscription, Host
<1>4. /\ LoopFits /\ FrameFits /\ HiddenHoldsNone /\ RefusedHoldsOne /\ ResumeIsHidden
      /\ TimerMatchesSubscriptions /\ WantedIsKept
  BY DEF LoopFits, FrameFits, HiddenHoldsNone, RefusedHoldsOne, ResumeIsHidden, TimerMatchesSubscriptions, WantedIsKept
<1> QED BY <1>1, <1>3, <1>4 DEF AnimationInv

LEMMA AnimationStep == AnimationInv /\ [Next]_vars => AnimationInv'
<1> SUFFICES ASSUME AnimationInv, [Next]_vars PROVE AnimationInv'
  OBVIOUS
<1>1. CASE DispatcherStep
  BY <1>1, DispatcherStepKeeps
<1>2. ASSUME NEW h \in Host, HostTick(h) PROVE AnimationInv'
  BY <1>2, HostTickKeeps
<1>3. ASSUME NEW h \in Host, AppStep(h) PROVE AnimationInv'
  BY <1>3, AppStepKeeps
<1>4. CASE EndDetach
  BY <1>4, EndDetachKeeps
<1>5. CASE UNCHANGED vars
  <2>1. /\ UNCHANGED <<subscriptions, pendingAdds, inTick, pos, calling, timerRunning, nextId>>
        /\ UNCHANGED <<attached, detaching, sub, visible, revision, resume, suspended, shown, frame, refused, wanted>>
    BY <1>5 DEF vars, dispatcher, lists, tick, presentation, deferred
  <2>2. Entries' = Entries /\ Ticked' = Ticked /\ Held' = Held
    BY <2>1 DEF Entries, Ticked, Held
  <2>3. TypeOK' /\ Agree(Entries', Held', nextId') /\ Owns(Entries', sub', nextId')
    BY <2>1, <2>2 DEF AnimationInv, TypeOK, DispatcherTypeOK
  <2>4. /\ LoopFits' /\ FrameFits' /\ HiddenHoldsNone' /\ RefusedHoldsOne' /\ ResumeIsHidden'
        /\ TimerMatchesSubscriptions' /\ WantedIsKept'
    BY <2>1, <2>2 DEF AnimationInv, LoopFits, FrameFits, HiddenHoldsNone, RefusedHoldsOne, ResumeIsHidden,
                      TimerMatchesSubscriptions, WantedIsKept
  <2> QED BY <2>3, <2>4 DEF AnimationInv
<1> QED BY <1>1, <1>2, <1>3, <1>5, <1>4 DEF Next

\* The invariant from which the other theorems follow.
THEOREM AnimationInvariant == Spec => []AnimationInv
  BY AnimationInit, AnimationStep, PTL DEF Spec

\* The lists, the loop's place in them and the hosts' state keep their types, whatever callbacks
\* subscribe and unsubscribe (AnimationDispatcher.h:362-485).
THEOREM AnimationTypes == Spec => []TypeOK
<1>1. AnimationInv => TypeOK
  BY DEF AnimationInv
<1> QED BY <1>1, AnimationInvariant, PTL

\* An entry that is not marked is the one its host holds, and one is there if the host holds it.
LEMMA EntriesOfHost ==
  ASSUME AnimationInv, NEW h \in Host
  PROVE  IF sub[h] = 0 \/ refused[h] THEN EntriesOf(h) = {}
         ELSE \E i \in DOMAIN Entries : EntriesOf(h) = {i} /\ Entries[i].id = sub[h]
<1>1. Agree(Entries, Held, nextId) /\ Entries \in Seq(Subscription)
  BY DEF AnimationInv, Agree
<1>2. DOMAIN Entries = 1 .. Len(Entries) /\ \A i \in 1 .. Len(Entries) : Entries[i] \in Subscription
  BY <1>1
<1>3. Held[h] = IF refused[h] THEN 0 ELSE sub[h]
  BY DEF Held
<1>4. \A i \in EntriesOf(h) : i \in 1 .. Len(Entries) /\ Entries[i].id = Held[h] /\ Held[h] # 0
  BY <1>1, <1>2 DEF EntriesOf, Agree, Subscription, Id
<1>5. ASSUME Held[h] # 0
      PROVE  \E i \in DOMAIN Entries : EntriesOf(h) = {i} /\ Entries[i].id = Held[h]
  <2>1. PICK i \in 1 .. Len(Entries) : Entries[i].id = Held[h] /\ Entries[i].context = h /\ ~Entries[i].pendingRemove
    BY <1>1, <1>5 DEF Agree
  <2>2. i \in EntriesOf(h)
    BY <1>2, <2>1 DEF EntriesOf
  <2>3. \A j \in EntriesOf(h) : j = i
    BY <1>1, <1>4, <2>1 DEF Agree
  <2> QED BY <1>2, <2>1, <2>2, <2>3
<1> QED BY <1>3, <1>4, <1>5

\* A host is in the dispatcher's lists once, under the id it holds, if it holds a subscription that no
\* tick refused, and else not at all: no callback, also of a tree that Detach drops, leaves an entry
\* that nobody can remove.
THEOREM HostsOwnEntries == Spec => []HostsOwnTheirEntries
<1>1. AnimationInv => HostsOwnTheirEntries
  BY EntriesOfHost DEF HostsOwnTheirEntries
<1> QED BY <1>1, AnimationInvariant, PTL

\* A host that is hidden holds no subscription and has no entry in the lists that the loop could call,
\* not even in the tick that hid it.
THEOREM HiddenHostsAreLeftAlone == Spec => []HiddenIsNeverCalled
<1>1. AnimationInv /\ HostsOwnTheirEntries => HiddenIsNeverCalled
  BY DEF AnimationInv, HiddenHoldsNone, HostsOwnTheirEntries, HiddenIsNeverCalled
<1> QED BY <1>1, AnimationInvariant, HostsOwnEntries, PTL

\* Between ticks the timer runs exactly while somebody is subscribed, whatever a tick added, marked
\* and collected (AnimationDispatcher.h:362-485).
THEOREM TimerIsRight == Spec => []TimerMatchesSubscriptions
<1>1. AnimationInv => TimerMatchesSubscriptions
  BY DEF AnimationInv
<1> QED BY <1>1, AnimationInvariant, PTL

\* Animation that was asked for and not ended is in the dispatcher's lists, or a flag remembers it for
\* the next time that the host is shown (WindowHost.cpp:1863-1877, 3387-3412, 6016-6027), unless a
\* tick refused the host when it had no window.
THEOREM AnimationIsRemembered == Spec => []WantedIsNotLost
<1>1. AnimationInv => WantedIsNotLost
  BY EntriesOfHost DEF AnimationInv, WantedIsKept, WantedIsNotLost
<1> QED BY <1>1, AnimationInvariant, PTL

=============================================================================
