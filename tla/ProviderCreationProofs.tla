----------------------- MODULE ProviderCreationProofs ----------------------
(***************************************************************************)
(* Proofs about ProviderCreation, for every number of calls, windows,      *)
(* targets and providers.  RefsAreHeld says of each object that its count  *)
(* is the number of its owners.  That is kept by a step only if the        *)
(* pointers that it overwrites are null and the ones that it follows are   *)
(* not: CreationInv says which pointers a call has at each of its stages   *)
(* (CallKnows), a retirement at each of its steps (WindowKnows), and which *)
(* targets have a host and a cached root (HostsKnow, RootsKnow).  Each     *)
(* step is then an equation between the references that it takes and gives *)
(* back and the pointers that it sets and clears.                          *)
(***************************************************************************)
EXTENDS ProviderCreation, PostedPayloadProofs

-----------------------------------------------------------------------------
(* Counting: how many of S have the value x in f, which target each        *)
(* provider that lives owns, and how many references to t are not theirs.  *)

Count(S, f, x) == Cardinality({i \in S : f[i] = x})
One(x, y)      == IF x = y THEN 1 ELSE 0
Owned(r, of)   == [q \in Provider |-> IF r[q] > 0 THEN of[q] ELSE None]
Owners(r, of, t) == Count(Provider, Owned(r, of), t)
Spare(r, of, t)  == r[t] - Owners(r, of, t)

(* A count is a number. *)
LEMMA CountType ==
  ASSUME NEW S, NEW f, NEW x, IsFiniteSet(S)
  PROVE  Count(S, f, x) \in Nat
<1>1. IsFiniteSet({i \in S : f[i] = x})
  BY FS_Subset
<1> QED BY <1>1, FS_CardinalityType DEF Count

(* It depends on the values alone. *)
LEMMA CountKept ==
  ASSUME NEW S, NEW f, NEW g, NEW x, \A i \in S : g[i] = f[i]
  PROVE  Count(S, g, x) = Count(S, f, x)
<1>1. {i \in S : g[i] = x} = {i \in S : f[i] = x}
  OBVIOUS
<1> QED BY <1>1 DEF Count

(* A change of one value moves it by one. *)
LEMMA CountMoves ==
  ASSUME NEW S, NEW f, NEW g, NEW x, NEW i \in S, IsFiniteSet(S),
         \A j \in S : j # i => g[j] = f[j]
  PROVE  Count(S, g, x) = Count(S, f, x) - One(f[i], x) + One(g[i], x)
<1> DEFINE Rest == {j \in S \ {i} : f[j] = x}
<1>1. IsFiniteSet(Rest) /\ i \notin Rest
  BY FS_Subset
<1>2. Cardinality(Rest) \in Nat /\ Cardinality(Rest \cup {i}) = Cardinality(Rest) + 1
  BY <1>1, FS_CardinalityType, FS_AddElement
<1>3. Count(S, f, x) = Cardinality(Rest) + One(f[i], x)
  <2>1. CASE f[i] = x
    <3>1. {j \in S : f[j] = x} = Rest \cup {i}
      BY <2>1
    <3> QED BY <2>1, <3>1, <1>2 DEF Count, One
  <2>2. CASE f[i] # x
    <3>1. {j \in S : f[j] = x} = Rest
      BY <2>2
    <3> QED BY <2>2, <3>1, <1>2 DEF Count, One
  <2> QED BY <2>1, <2>2
<1>4. Count(S, g, x) = Cardinality(Rest) + One(g[i], x)
  <2>1. CASE g[i] = x
    <3>1. {j \in S : g[j] = x} = Rest \cup {i}
      BY <2>1
    <3> QED BY <2>1, <3>1, <1>2 DEF Count, One
  <2>2. CASE g[i] # x
    <3>1. {j \in S : g[j] = x} = Rest
      BY <2>2
    <3> QED BY <2>2, <3>1, <1>2 DEF Count, One
  <2> QED BY <2>1, <2>2
<1> QED BY <1>2, <1>3, <1>4 DEF One

(* What has the value is counted. *)
LEMMA CountPositive ==
  ASSUME NEW S, NEW f, NEW i \in S, IsFiniteSet(S)
  PROVE  Count(S, f, f[i]) >= 1
<1>1. IsFiniteSet({j \in S : f[j] = f[i]}) /\ {j \in S : f[j] = f[i]} # {}
  BY FS_Subset
<1>2. Cardinality({j \in S : f[j] = f[i]}) \in Nat \ {0}
  BY <1>1, FS_CardinalityType, FS_EmptySet
<1> QED BY <1>2 DEF Count

(* If it is not counted, nothing has it. *)
LEMMA CountZero ==
  ASSUME NEW S, NEW f, NEW x, \A i \in S : f[i] # x
  PROVE  Count(S, f, x) = 0
<1>1. {i \in S : f[i] = x} = {}
  OBVIOUS
<1> QED BY <1>1, FS_EmptySet DEF Count

-----------------------------------------------------------------------------
(* The invariant.                                                          *)

(* The payloads that are in handlers are the ones that were taken, each once. *)
HandlersKnow ==
  /\ \A w \in Window : \A i \in DOMAIN handling[w] : place[handling[w][i]] = "taken"
  /\ \A p \in Payload : place[p] = "taken" => InHandler(p)
  /\ \A v, w \in Window : \A i \in DOMAIN handling[v], j \in DOMAIN handling[w] :
       handling[v][i] = handling[w][j] => v = w /\ i = j

(* What a call has at each of its stages, in a handler or at its client. *)
CallKnows(p) ==
  /\ p \in returned => sender[p] \in {"true", "false"}
  /\ held[p] # None => p \in returned
  /\ place[p] = "taken" => stage[p] # "idle"
  /\ place[p] # "taken" => stage[p] \in {"idle", "look", "make", "made"}
  /\ place[p] # "taken" /\ stage[p] # "idle" => p \in returned
  /\ place[p] # "taken" /\ stage[p] \in {"look", "make"} => held[p] # None
  /\ at[p] # None <=> place[p] = "taken" /\ stage[p] \in {"flush", "look", "make", "made"}
  /\ seen[p] # None => stage[p] = "make"
  /\ root[p] # None => stage[p] = "made"
  /\ result[p] # None => place[p] = "gone" \/ (place[p] = "taken" /\ stage[p] = "drop")
  /\ p \in returned /\ place[p] = "gone" => result[p] = None

(* What a retirement has at each of its steps. *)
WindowKnows(w) ==
  /\ retire[w].step = "none" => retire[w] = NotRetiring
  /\ retire[w].step \in {"found", "hidden", "uncached"} => retire[w].target = property[w] /\ property[w] # None
  /\ retire[w].step \in {"found", "hidden"} => retire[w].root = None
  /\ retire[w].step = "forgotten" => retire[w].target = None

(* Only a registered target that is not retired yet has a host, or a root in its cache. *)
HostsKnow ==
  /\ \A t \in host : \E w \in Window : property[w] = t /\ retire[w].step \in {"none", "found"}
  /\ \A t \in Target : cache[t] # None =>
       \E w \in Window : property[w] = t /\ retire[w].step \in {"none", "found", "hidden"}

(* Whose roots are cached, and where a root is that is neither superseded nor disconnected. *)
RootsKnow ==
  /\ \A t \in Target : cache[t] # None => targetOf[cache[t]] = t
  /\ \A q \in Provider : refs[q] > 0 => targetOf[q] \in Target
  /\ \A q \in Provider \ (superseded \cup disconnected) :
       refs[q] > 0 => cache[targetOf[q]] = q \/ \E w \in Window : retire[w].root = q

CallsKnow   == \A p \in Payload : CallKnows(p)
WindowsKnow == \A w \in Window : WindowKnows(w)

(* The types, in the parts that different steps change. *)
CallTypes ==
  /\ stage \in [Payload -> Stage]
  /\ at \in [Payload -> Target \cup {None}]
  /\ seen \in [Payload -> Provider \cup {None}]
  /\ root \in [Payload -> Provider \cup {None}]
  /\ result \in [Payload -> Provider \cup {None}]
  /\ held \in [Payload -> Provider \cup {None}]
  /\ returned \subseteq Payload

HandlerTypes == handling \in [Window -> Seq(Payload)]

HostTypes ==
  /\ property \in [Window -> Target \cup {None}]
  /\ host \subseteq Target
  /\ cache \in [Target -> Provider \cup {None}]
  /\ targetOf \in [Provider -> Target \cup {None}]
  /\ superseded \subseteq Provider /\ disconnected \subseteq Provider
  /\ retire \in [Window -> Retire]

(* Every pointer that owns a provider, and every pointer of a window or a handler that owns a target. *)
Roots == [w \in Window |-> retire[w].root]

Pointers(q) == Count(Target, cache, q) + Count(Window, Roots, q) + Count(Payload, seen, q)
               + Count(Payload, root, q) + Count(Payload, result, q) + Count(Payload, held, q)

Uses(t) == Count(Window, property, t) + Count(Payload, at, t)

(* A provider's count is the number of its pointers, a target's what its providers leave. *)
Balance ==
  /\ refs \in [Target \cup Provider -> Nat]
  /\ \A q \in Provider : refs[q] = Pointers(q)
  /\ \A t \in Target : Spare(refs, targetOf, t) = Uses(t)

(* The inductive invariant. *)
CreationInv ==
  /\ Ownership /\ HandlerTypes /\ CallTypes /\ HostTypes
  /\ HandlersKnow /\ CallsKnow /\ WindowsKnow /\ HostsKnow /\ RootsKnow /\ Balance

-----------------------------------------------------------------------------
(* References that are taken and given back.                               *)

(* Reference counts that are high enough for the providers' targets. *)
Sound(r) ==
  /\ r \in [Target \cup Provider -> Nat]
  /\ \A q \in Provider : r[q] > 0 => targetOf[q] \in Target
  /\ \A t \in Target : r[t] >= Owners(r, targetOf, t)

(* Release gives one reference back, and a provider that goes its target's. *)
LEMMA ReleaseCounts ==
  ASSUME NEW r, NEW x \in Target \cup Provider \cup {None}, Sound(r),
         x # None => r[x] > 0, x \in Target => r[x] > Owners(r, targetOf, x)
  PROVE  /\ Sound(Release(r, x))
         /\ \A q \in Provider : Release(r, x)[q] = r[q] - One(x, q)
         /\ \A t \in Target : Spare(Release(r, x), targetOf, t) = Spare(r, targetOf, t) - One(x, t)
<1> USE CreationAssumption
<1> DEFINE s == Release(r, x)
<1>1. /\ r \in [Target \cup Provider -> Nat]
      /\ \A q \in Provider : r[q] > 0 => targetOf[q] \in Target
      /\ \A t \in Target : r[t] >= Owners(r, targetOf, t) /\ Owners(r, targetOf, t) \in Nat
  BY CountType DEF Sound, Owners
<1>2. CASE x = None
  BY <1>1, <1>2 DEF Sound, Release, One, Spare
<1>3. CASE x \in Provider /\ r[x] = 1
  <2> DEFINE u == targetOf[x]
  <2>1. u \in Target /\ x # None
    BY <1>1, <1>3
  <2>2. s = [r EXCEPT ![x] = 0, ![u] = @ - 1]
    BY <1>3, <2>1 DEF Release
  <2>3. Owned(r, targetOf)[x] = u /\ Owned(s, targetOf)[x] = None
    BY <1>1, <1>3, <2>1, <2>2 DEF Owned
  <2>4. \A q \in Provider : q # x => s[q] = r[q]
    BY <1>1, <2>1, <2>2
  <2>5. \A q \in Provider : q # x => Owned(s, targetOf)[q] = Owned(r, targetOf)[q]
    BY <2>4 DEF Owned
  <2>6. \A t \in Target : Owners(s, targetOf, t) = Owners(r, targetOf, t) - One(u, t)
    <3> SUFFICES ASSUME NEW t \in Target PROVE Owners(s, targetOf, t) = Owners(r, targetOf, t) - One(u, t)
      OBVIOUS
    <3> DEFINE f == Owned(r, targetOf)
               g == Owned(s, targetOf)
    <3>1. /\ x \in Provider /\ IsFiniteSet(Provider)
          /\ (\A q \in Provider : q # x => g[q] = f[q]) /\ f[x] = u /\ g[x] = None
      BY <1>3, <2>3, <2>5
    <3> HIDE DEF f, g, u
    <3>2. Count(Provider, g, t) = Count(Provider, f, t) - One(f[x], t) + One(g[x], t)
      BY <3>1, CountMoves
    <3>3. Owners(s, targetOf, t) = Owners(r, targetOf, t) - One(u, t) + One(None, t)
      BY <3>1, <3>2 DEF Owners, f, g
    <3>4. One(None, t) = 0 /\ One(u, t) \in Nat
      BY DEF One
    <3> QED BY <1>1, <3>3, <3>4
  <2>7. Owners(r, targetOf, u) >= 1
    BY <1>3, <2>3, CountPositive DEF Owners
  <2>8. \A t \in Target : s[t] = r[t] - One(u, t) /\ One(x, t) = 0 /\ One(u, t) \in Nat
    BY <1>1, <1>3, <2>1, <2>2 DEF One
  <2>9. s \in [Target \cup Provider -> Nat]
    <3>1. r[u] - 1 \in Nat
      BY <1>1, <2>1, <2>7
    <3> QED BY <1>1, <2>1, <2>2, <3>1
  <2>10. \A q \in Provider : s[q] = r[q] - One(x, q)
    BY <1>1, <1>3, <2>1, <2>2 DEF One
  <2>11. \A t \in Target : Spare(s, targetOf, t) = Spare(r, targetOf, t) - One(x, t)
    BY <1>1, <2>6, <2>8 DEF Spare
  <2>12. \A q \in Provider : s[q] > 0 => targetOf[q] \in Target
    BY <1>1, <1>3, <2>2, <2>4, <2>9, <2>1
  <2>13. \A t \in Target : s[t] >= Owners(s, targetOf, t)
    BY <1>1, <2>6, <2>8
  <2> QED BY <2>9, <2>10, <2>11, <2>12, <2>13 DEF Sound
<1>4. CASE x # None /\ ~(x \in Provider /\ r[x] = 1)
  <2>1. s = [r EXCEPT ![x] = @ - 1] /\ x \in Target \cup Provider /\ r[x] \in Nat /\ r[x] > 0
    BY <1>1, <1>4 DEF Release
  <2>2. s \in [Target \cup Provider -> Nat]
    BY <1>1, <2>1
  <2>3. \A q \in Provider : s[q] = r[q] - One(x, q) /\ (s[q] > 0 <=> r[q] > 0)
    BY <1>1, <1>4, <2>1 DEF One
  <2>4. \A t \in Target : s[t] = r[t] - One(x, t)
    BY <1>1, <2>1 DEF One
  <2>5. \A q \in Provider : Owned(s, targetOf)[q] = Owned(r, targetOf)[q]
    BY <2>3 DEF Owned
  <2>6. \A t \in Target : Owners(s, targetOf, t) = Owners(r, targetOf, t)
    BY <2>5, CountKept DEF Owners
  <2>7. ASSUME NEW t \in Target PROVE s[t] >= Owners(s, targetOf, t)
    <3>1. s[t] = r[t] - One(x, t) /\ Owners(s, targetOf, t) = Owners(r, targetOf, t)
      BY <2>4, <2>6
    <3>2. r[t] \in Nat /\ Owners(r, targetOf, t) \in Nat /\ r[t] >= Owners(r, targetOf, t)
      BY <1>1
    <3>3. x = t => r[t] > Owners(r, targetOf, t)
      OBVIOUS
    <3> QED BY ONLY <3>1, <3>2, <3>3 DEF One
  <2>8. \A t \in Target : Spare(s, targetOf, t) = Spare(r, targetOf, t) - One(x, t)
    BY <1>1, <2>4, <2>6 DEF Spare, One
  <2>9. \A q \in Provider : s[q] > 0 => targetOf[q] \in Target
    BY <1>1, <2>3
  <2> QED BY <2>2, <2>3, <2>7, <2>8, <2>9 DEF Sound
<1> QED BY <1>2, <1>3, <1>4

(* AddRef takes one more of an object that lives. *)
LEMMA AddRefCounts ==
  ASSUME NEW r, NEW x \in Target \cup Provider \cup {None}, Sound(r), x \in Provider => r[x] > 0
  PROVE  /\ Sound(AddRef(r, x))
         /\ \A q \in Provider : AddRef(r, x)[q] = r[q] + One(x, q)
         /\ \A t \in Target : Spare(AddRef(r, x), targetOf, t) = Spare(r, targetOf, t) + One(x, t)
<1> USE CreationAssumption
<1> DEFINE s == AddRef(r, x)
<1>1. /\ r \in [Target \cup Provider -> Nat]
      /\ \A q \in Provider : r[q] > 0 => targetOf[q] \in Target
      /\ \A t \in Target : r[t] >= Owners(r, targetOf, t) /\ Owners(r, targetOf, t) \in Nat
  BY CountType DEF Sound, Owners
<1>2. CASE x = None
  BY <1>1, <1>2 DEF Sound, AddRef, One, Spare
<1>3. CASE x # None
  <2>1. s = [r EXCEPT ![x] = @ + 1] /\ x \in Target \cup Provider /\ r[x] \in Nat /\ (x \in Provider => r[x] > 0)
    BY <1>1, <1>3 DEF AddRef
  <2>2. s \in [Target \cup Provider -> Nat]
    BY <1>1, <2>1
  <2>3. \A q \in Provider : s[q] = r[q] + One(x, q) /\ (s[q] > 0 <=> r[q] > 0)
    BY <1>1, <2>1 DEF One
  <2>4. \A t \in Target : s[t] = r[t] + One(x, t)
    BY <1>1, <2>1 DEF One
  <2>5. \A q \in Provider : Owned(s, targetOf)[q] = Owned(r, targetOf)[q]
    BY <2>3 DEF Owned
  <2>6. \A t \in Target : Owners(s, targetOf, t) = Owners(r, targetOf, t)
    BY <2>5, CountKept DEF Owners
  <2>7. \A t \in Target : s[t] >= Owners(s, targetOf, t)
    BY <1>1, <2>4, <2>6 DEF One
  <2>8. \A t \in Target : Spare(s, targetOf, t) = Spare(r, targetOf, t) + One(x, t)
    BY <1>1, <2>4, <2>6 DEF Spare, One
  <2>9. \A q \in Provider : s[q] > 0 => targetOf[q] \in Target
    BY <1>1, <2>3
  <2> QED BY <2>2, <2>3, <2>7, <2>8, <2>9 DEF Sound
<1> QED BY <1>2, <1>3

(* The counts of the invariant are numbers. *)
LEMMA CountsType ==
  ASSUME NEW x
  PROVE  /\ Count(Target, cache, x) \in Nat /\ Count(Window, Roots, x) \in Nat
         /\ Count(Payload, seen, x) \in Nat /\ Count(Payload, root, x) \in Nat
         /\ Count(Payload, result, x) \in Nat /\ Count(Payload, held, x) \in Nat
         /\ Count(Window, property, x) \in Nat /\ Count(Payload, at, x) \in Nat
         /\ \A r, of : Owners(r, of, x) \in Nat
  BY CountType, CreationAssumption, RegistryAssumption DEF Owners

(* What is pointed at is allocated. *)
LEMMA PointedLive ==
  ASSUME CreationInv
  PROVE  /\ \A t \in Target : cache[t] # None => cache[t] \in Provider /\ refs[cache[t]] > 0
         /\ \A w \in Window : retire[w].root # None => retire[w].root \in Provider /\ refs[retire[w].root] > 0
         /\ \A p \in Payload : seen[p] # None => seen[p] \in Provider /\ refs[seen[p]] > 0
         /\ \A p \in Payload : root[p] # None => root[p] \in Provider /\ refs[root[p]] > 0
         /\ \A p \in Payload : result[p] # None => result[p] \in Provider /\ refs[result[p]] > 0
         /\ \A p \in Payload : held[p] # None => held[p] \in Provider /\ refs[held[p]] > 0
         /\ \A w \in Window : property[w] # None =>
              property[w] \in Target /\ refs[property[w]] > Owners(refs, targetOf, property[w])
         /\ \A p \in Payload : at[p] # None => at[p] \in Target /\ refs[at[p]] > Owners(refs, targetOf, at[p])
<1> USE CreationAssumption, RegistryAssumption
<1>1. CallTypes /\ HostTypes /\ Balance
  BY DEF CreationInv
<1>2. \A q \in Provider : refs[q] = Pointers(q) /\ refs[q] \in Nat
  BY <1>1 DEF Balance
<1>3. \A t \in Target : refs[t] - Owners(refs, targetOf, t) = Uses(t) /\ refs[t] \in Nat
  BY <1>1 DEF Balance, Spare
<1>4. ASSUME NEW t \in Target, cache[t] # None PROVE cache[t] \in Provider /\ refs[cache[t]] > 0
  <2>1. cache[t] \in Provider /\ Count(Target, cache, cache[t]) >= 1
    BY <1>1, <1>4, CountPositive DEF HostTypes
  <2> QED BY <2>1, <1>2, CountsType DEF Pointers
<1>5. ASSUME NEW w \in Window, retire[w].root # None PROVE retire[w].root \in Provider /\ refs[retire[w].root] > 0
  <2>1. retire[w].root \in Provider /\ Roots[w] = retire[w].root
    BY <1>1, <1>5 DEF HostTypes, Retire, Roots
  <2>2. Count(Window, Roots, Roots[w]) >= 1
    BY CountPositive
  <2> QED BY <2>1, <2>2, <1>2, CountsType DEF Pointers
<1>6. ASSUME NEW p \in Payload, seen[p] # None PROVE seen[p] \in Provider /\ refs[seen[p]] > 0
  <2>1. seen[p] \in Provider /\ Count(Payload, seen, seen[p]) >= 1
    BY <1>1, <1>6, CountPositive DEF CallTypes
  <2> QED BY <2>1, <1>2, CountsType DEF Pointers
<1>7. ASSUME NEW p \in Payload, root[p] # None PROVE root[p] \in Provider /\ refs[root[p]] > 0
  <2>1. root[p] \in Provider /\ Count(Payload, root, root[p]) >= 1
    BY <1>1, <1>7, CountPositive DEF CallTypes
  <2> QED BY <2>1, <1>2, CountsType DEF Pointers
<1>8. ASSUME NEW p \in Payload, result[p] # None PROVE result[p] \in Provider /\ refs[result[p]] > 0
  <2>1. result[p] \in Provider /\ Count(Payload, result, result[p]) >= 1
    BY <1>1, <1>8, CountPositive DEF CallTypes
  <2> QED BY <2>1, <1>2, CountsType DEF Pointers
<1>9. ASSUME NEW p \in Payload, held[p] # None PROVE held[p] \in Provider /\ refs[held[p]] > 0
  <2>1. held[p] \in Provider /\ Count(Payload, held, held[p]) >= 1
    BY <1>1, <1>9, CountPositive DEF CallTypes
  <2> QED BY <2>1, <1>2, CountsType DEF Pointers
<1>10. ASSUME NEW w \in Window, property[w] # None
       PROVE  property[w] \in Target /\ refs[property[w]] > Owners(refs, targetOf, property[w])
  <2>1. property[w] \in Target /\ Count(Window, property, property[w]) >= 1
    BY <1>1, <1>10, CountPositive DEF HostTypes
  <2> QED BY <2>1, <1>3, CountsType DEF Uses
<1>11. ASSUME NEW p \in Payload, at[p] # None
       PROVE  at[p] \in Target /\ refs[at[p]] > Owners(refs, targetOf, at[p])
  <2>1. at[p] \in Target /\ Count(Payload, at, at[p]) >= 1
    BY <1>1, <1>11, CountPositive DEF CallTypes
  <2> QED BY <2>1, <1>3, CountsType DEF Uses
<1> QED BY <1>4, <1>5, <1>6, <1>7, <1>8, <1>9, <1>10, <1>11

(* The counts of the invariant are high enough for Release. *)
LEMMA RefsSound == CreationInv => Sound(refs)
<1> SUFFICES ASSUME CreationInv PROVE Sound(refs)
  OBVIOUS
<1>1. \A t \in Target : refs[t] \in Nat /\ refs[t] - Owners(refs, targetOf, t) = Uses(t)
  BY DEF CreationInv, Balance, Spare
<1>2. \A t \in Target : Uses(t) \in Nat /\ Owners(refs, targetOf, t) \in Nat
  BY CountsType DEF Uses
<1> QED BY <1>1, <1>2 DEF CreationInv, Balance, RootsKnow, Sound

(* A payload is in a handler exactly when it was taken. *)
LEMMA InHandlerIsTaken ==
  ASSUME HandlersKnow, NEW p \in Payload
  PROVE  InHandler(p) <=> place[p] = "taken"
  BY DEF HandlersKnow, InHandler

(* A call that looks for a root has a target that is allocated. *)
LEMMA CallHasTarget ==
  ASSUME CreationInv, NEW p \in Payload, stage[p] \in {"look", "make"}
  PROVE  /\ TargetOfCall(p) \in Target /\ refs[TargetOfCall(p)] > 0
         /\ Owners(refs, targetOf, TargetOfCall(p)) \in Nat
<1>1. CallKnows(p) /\ HandlersKnow
  BY DEF CreationInv, CallsKnow
<1>2. CASE place[p] = "taken"
  <2>1. TargetOfCall(p) = at[p] /\ at[p] # None
    BY <1>1, <1>2, InHandlerIsTaken DEF TargetOfCall, CallKnows
  <2>2. at[p] \in Target /\ refs[at[p]] > Owners(refs, targetOf, at[p])
    BY <2>1, PointedLive
  <2>3. refs[at[p]] \in Nat /\ Owners(refs, targetOf, at[p]) \in Nat
    BY <2>2, CountsType DEF CreationInv, Balance
  <2> QED BY <2>1, <2>2, <2>3
<1>3. CASE place[p] # "taken"
  <2>1. TargetOfCall(p) = targetOf[held[p]] /\ held[p] # None
    BY <1>1, <1>3, InHandlerIsTaken DEF TargetOfCall, CallKnows
  <2> DEFINE q == held[p]
             t == targetOf[q]
  <2>2. q \in Provider /\ refs[q] > 0 /\ t \in Target
    BY <2>1, PointedLive DEF CreationInv, RootsKnow
  <2>3. Owned(refs, targetOf)[q] = t
    BY <2>2 DEF Owned
  <2>4. Owners(refs, targetOf, t) >= 1
    BY <2>2, <2>3, CountPositive, CreationAssumption DEF Owners
  <2>5. refs[t] \in Nat /\ refs[t] >= Owners(refs, targetOf, t) /\ Owners(refs, targetOf, t) \in Nat
    BY <2>2, RefsSound, CountsType DEF Sound
  <2> QED BY <2>1, <2>2, <2>4, <2>5
<1> QED BY <1>2, <1>3

-----------------------------------------------------------------------------
(* The registry under the handlers.                                        *)

(* A handler that takes a message keeps the registry's invariant, as Receive does. *)
LEMMA TakesOwnership ==
  ASSUME NEW w \in Window, NEW m \in inbox, HandlerTakes(w, m), Ownership
  PROVE  Ownership'
<1> USE DEF Ownership, TypeOK, UniqueEntries, PlaceIsTrue, SendersKnow, NoEntryOutlivesItsWindow, Place, Sender
<1> DEFINE found == {e \in entries : Matches(e, m)}
<1>1. /\ inbox' = inbox \ {m} /\ entries' = entries \ found
      /\ place' = [p \in Payload |-> IF \E e \in found : e.payload = p THEN "taken" ELSE place[p]]
      /\ \/ sender' = [p \in Payload |-> IF call[p] = m /\ sender[p] = "sending" THEN "answered" ELSE sender[p]]
         \/ sender' = sender
      /\ UNCHANGED <<windows, next, open, life, call>>
  BY DEF HandlerTakes, TakeMessagePayload
<1>2. TypeOK' /\ UniqueEntries' /\ (NoEntryOutlivesItsWindow /\ windows \subseteq open)'
  BY <1>1
<1>3. PlaceIsTrue'
  BY <1>1 DEF Entry
<1>4. ASSUME NEW e \in entries, call[e.payload] = m PROVE e \in found
  <2>1. m = [window |-> e.window, kind |-> e.kind, token |-> e.token, forged |-> FALSE]
    BY <1>4
  <2>2. m.window = e.window /\ m.kind = e.kind /\ m.token = e.token
    BY ONLY <2>1
  <2> QED BY <2>2 DEF Matches
<1>5. \A p \in Payload : call[p] = m => place'[p] # "table"
  BY <1>1, <1>3, <1>4
<1>6. SendersKnow'
  BY <1>1, <1>5 DEF Entry
<1> QED BY <1>2, <1>3, <1>6

(* So does one that returns and lets its payload go. *)
LEMMA ReturnsOwnership ==
  ASSUME NEW w \in Window, NEW p \in Payload, HandlerReturns(w, p), Ownership, place[p] = "taken"
  PROVE  Ownership'
<1> USE DEF Ownership, TypeOK, UniqueEntries, PlaceIsTrue, SendersKnow, NoEntryOutlivesItsWindow, Place, Sender
<1>1. /\ place' = [place EXCEPT ![p] = "gone"]
      /\ \/ sender[p] = "sending" /\ sender' = [sender EXCEPT ![p] = "answered"]
         \/ sender' = sender
      /\ UNCHANGED <<entries, windows, next, open, life, inbox, call>>
  BY DEF HandlerReturns, Move, Advance, system
<1> QED BY <1>1 DEF Entry

(* A handler's payload has been taken. *)
LEMMA HandledIsTaken ==
  ASSUME NEW w \in Window, NEW p, Handles(w, p), handling \in [Window -> Seq(Payload)], HandlersKnow
  PROVE  p \in Payload /\ place[p] = "taken"
<1>1. /\ handling[w] \in Seq(Payload) /\ handling[w] # <<>>
      /\ handling[w][Len(handling[w])] = p
  BY DEF Handles
<1>2. Len(handling[w]) \in DOMAIN handling[w] /\ handling[w][Len(handling[w])] \in Payload
  BY <1>1
<1> QED BY <1>1, <1>2 DEF HandlersKnow

(* Every other step is one of the registry's, or none. *)
LEMMA OwnershipKept ==
  ASSUME Ownership, handling \in [Window -> Seq(Payload)], HandlersKnow, [CreationNext]_cvars
  PROVE  Ownership'
<1>1. ASSUME NEW w \in Window, NEW m \in inbox, HandlerTakes(w, m) PROVE Ownership'
  BY <1>1, TakesOwnership
<1>2. ASSUME NEW w \in Window, NEW p \in Payload, HandlerReturns(w, p) PROVE Ownership'
  BY <1>2, ReturnsOwnership, HandledIsTaken DEF HandlerReturns
<1>3. ASSUME [Next]_vars PROVE Ownership'
  BY <1>3, OwnershipStep
<1>4. ASSUME NEW w \in Window, AttachHost(w) \/ DetachHost(w) \/ OpenHostWindow(w) \/ CloseHostWindow(w) PROVE Next
  BY <1>4 DEF AttachHost, DetachHost, OpenHostWindow, CloseHostWindow, Next
<1>5. ASSUME NEW w \in Window,
             \/ ClearHost(w) \/ DetachRoot(w) \/ ForgetTarget(w) \/ DisconnectRoot(w)
             \/ \E t \in Target : RegisterWindowHostAccessibilityTarget(w, t)
      PROVE  UNCHANGED vars
  BY <1>5 DEF ClearHost, DetachRoot, ForgetTarget, DisconnectRoot, RegisterWindowHostAccessibilityTarget
<1>6. ASSUME NEW w \in Window, NEW p \in Payload,
             \/ AcquireWindowHostAccessibilityTarget(w, p) \/ FlushReturns(w, p) \/ HandlerDelivers(w, p)
      PROVE  UNCHANGED vars
  BY <1>6 DEF AcquireWindowHostAccessibilityTarget, FlushReturns, HandlerDelivers
<1>7. ASSUME NEW p \in Payload, CallerSends(p) PROVE Next
  BY <1>7 DEF CallerSends, Next
<1>8. ASSUME NEW p \in Payload,
             \/ LookAtCache(p) \/ AcquireNothing(p) \/ AcquireCached(p) \/ AcquireFails(p)
             \/ \E q \in Provider : AcquireNew(p, q)
             \/ CallerReturns(p) \/ ClientAsks(p) \/ ClientReleasesRoot(p) \/ ClientReleasesProvider(p)
      PROVE  UNCHANGED vars
  BY <1>8 DEF LookAtCache, AcquireNothing, AcquireCached, AcquireFails, AcquireNew, CallerReturns, ClientAsks,
              ClientReleasesRoot, ClientReleasesProvider
<1>9. UNCHANGED cvars => UNCHANGED vars
  BY DEF cvars
<1> QED
  BY <1>1, <1>2, <1>3, <1>4, <1>5, <1>6, <1>7, <1>8, <1>9 DEF CreationNext

-----------------------------------------------------------------------------
(* The calls and the handlers.                                             *)

(* What the registry does to the payloads outside of the handlers. *)
Steady ==
  \A p \in Payload :
    /\ sender[p] \in {"true", "false"} => sender'[p] = sender[p]
    /\ place'[p] = "taken" <=> place[p] = "taken"
    /\ place[p] = "gone" => place'[p] = "gone"

(* A step that leaves the registry alone is steady. *)
LEMMA UnchangedSteady == UNCHANGED <<place, sender>> => Steady
  BY DEF Steady

(* The callers, the hosts and the window manager neither take a payload nor bring one back. *)
LEMMA RegistrySteady ==
  ASSUME Ownership,
         \/ \E w \in Window : AttachHost(w) \/ DetachHost(w) \/ OpenHostWindow(w) \/ CloseHostWindow(w)
         \/ \E p \in Payload : CallerSends(p)
  PROVE  Steady
<1> USE DEF Ownership, TypeOK, Steady, Place, Sender
<1>1. ASSUME NEW w \in Window, AttachHost(w) \/ OpenHostWindow(w) PROVE Steady
  BY <1>1, UnchangedSteady DEF AttachHost, OpenHostWindow, Attach, InitPostedPayloadWindow, OpenWindow, registry, senders
<1>2. ASSUME NEW w \in Window, DetachHost(w) PROVE Steady
  <2>1. /\ sender' = sender
        /\ place' = [p \in Payload |-> IF \E e \in {f \in entries : f.window = w} : e.payload = p THEN "removed" ELSE place[p]]
    BY <1>2 DEF DetachHost, Detach, DrainPostedPayloadsForWindow, senders
  <2>2. \A e \in entries : place[e.payload] = "table"
    BY DEF PlaceIsTrue, Entry
  <2> QED BY <2>1, <2>2
<1>3. ASSUME NEW w \in Window, CloseHostWindow(w) PROVE Steady
  BY <1>3 DEF CloseHostWindow, CloseWindow, registry
<1>4. ASSUME NEW p \in Payload, CallerSends(p) PROVE Steady
  <2>1. ASSUME NEW w \in Window, Refused(p, w) PROVE Steady
    BY <2>1 DEF Refused, PostFails, Advance, registry
  <2>2. ASSUME NEW w \in Window, NEW k \in Kind, SendRegisters(p, w, k) PROVE Steady
    BY <2>2 DEF SendRegisters, Register, Move, Advance, SendersKnow
  <2>3. ASSUME Send(p) \/ SendReturns(p) \/ SendTimesOut(p) PROVE Steady
    BY <2>3 DEF Send, SendReturns, SendTimesOut, Advance, registry
  <2>4. ASSUME SendReclaims(p) PROVE Steady
    <3>1. \A e \in entries : place[e.payload] = "table"
      BY DEF PlaceIsTrue, Entry
    <3> QED BY <2>4, <3>1 DEF SendReclaims, ReclaimMessagePayload, EntriesOf, Move, Advance
  <2>5. ASSUME place[p] # "taken", Delete(p) PROVE Steady
    BY <2>5 DEF Delete, Destroy, Move, senders
  <2> QED BY <1>4, <2>1, <2>2, <2>3, <2>4, <2>5 DEF CallerSends
<1> QED BY <1>1, <1>2, <1>3, <1>4

(* Such a step leaves the calls and the handlers as they are. *)
LEMMA SteadyCalls ==
  ASSUME CallTypes, HandlerTypes, CallsKnow, HandlersKnow, Ownership, Steady,
         UNCHANGED <<handling, stage, at, seen, root, result, held, returned>>
  PROVE  CallTypes' /\ HandlerTypes' /\ CallsKnow' /\ HandlersKnow'
<1>1. CallTypes' /\ HandlerTypes'
  BY DEF CallTypes, HandlerTypes
<1>2. CallsKnow'
  <2> SUFFICES ASSUME NEW p \in Payload PROVE CallKnows(p)'
    BY DEF CallsKnow
  <2>1. CallKnows(p)
    BY DEF CallsKnow
  <2>2. /\ sender[p] \in {"true", "false"} => sender'[p] = sender[p]
        /\ place'[p] = "taken" <=> place[p] = "taken"
        /\ place[p] = "gone" => place'[p] = "gone"
    BY DEF Steady
  <2>3. UNCHANGED <<stage[p], at[p], seen[p], root[p], result[p], held[p]>> /\ returned' = returned
    OBVIOUS
  <2> QED BY ONLY <2>1, <2>2, <2>3 DEF CallKnows
<1>3. HandlersKnow'
  <2>1. \A w \in Window : \A i \in DOMAIN handling[w] : handling[w][i] \in Payload
    BY DEF HandlerTypes
  <2>2. \A p \in Payload : InHandler(p)' <=> InHandler(p)
    BY DEF InHandler
  <2> QED BY <2>1, <2>2 DEF HandlersKnow, Steady
<1> QED BY <1>1, <1>2, <1>3

(* One call goes on and leaves the registry and the handlers alone. *)
LEMMA OneCallGoesOn ==
  ASSUME NEW p \in Payload, CallsKnow, HandlersKnow, HandlerTypes,
         UNCHANGED <<place, sender, handling>>,
         \A r \in Payload : r # p =>
           /\ UNCHANGED <<stage[r], at[r], seen[r], root[r], result[r], held[r]>>
           /\ r \in returned' <=> r \in returned,
         CallKnows(p)'
  PROVE  CallsKnow' /\ HandlersKnow' /\ HandlerTypes'
<1>1. HandlersKnow' /\ HandlerTypes'
  BY DEF HandlersKnow, HandlerTypes, InHandler
<1>2. ASSUME NEW r \in Payload, r # p PROVE CallKnows(r)'
  <2>1. CallKnows(r) /\ UNCHANGED <<sender[r], place[r]>>
    BY DEF CallsKnow
  <2>2. UNCHANGED <<stage[r], at[r], seen[r], root[r], result[r], held[r]>> /\ (r \in returned' <=> r \in returned)
    BY <1>2
  <2> QED BY ONLY <2>1, <2>2 DEF CallKnows
<1> QED BY <1>1, <1>2 DEF CallsKnow

(* The calls and the handlers after a step. *)
CallsGoOn == CallTypes' /\ HandlerTypes' /\ CallsKnow' /\ HandlersKnow'

(* The steps of AcquireCanonicalRootProvider. *)
LEMMA AcquireCalls ==
  ASSUME CreationInv, NEW p \in Payload,
         \/ LookAtCache(p) \/ AcquireNothing(p) \/ AcquireCached(p) \/ AcquireFails(p)
         \/ \E q \in Provider : AcquireNew(p, q)
  PROVE  CallsGoOn
<1>1. CallTypes /\ HandlerTypes /\ CallsKnow /\ HandlersKnow /\ CallKnows(p)
  BY DEF CreationInv, CallsKnow
<1>2. stage[p] \in {"look", "make"} /\ TargetOfCall(p) \in Target /\ cache[TargetOfCall(p)] \in Provider \cup {None}
  <2>1. stage[p] \in {"look", "make"}
    BY DEF LookAtCache, AcquireNothing, AcquireCached, AcquireFails, AcquireNew
  <2> QED BY <2>1, CallHasTarget DEF CreationInv, HostTypes
<1> DEFINE Goes ==
             /\ UNCHANGED <<place, sender, handling, at, result, held, returned>>
             /\ \/ /\ stage[p] = "look" /\ stage' = [stage EXCEPT ![p] = "make"]
                   /\ seen' = [seen EXCEPT ![p] = cache[TargetOfCall(p)]] /\ root' = root
                \/ /\ stage[p] = "make" /\ stage' = [stage EXCEPT ![p] = "made"]
                   /\ seen' = [seen EXCEPT ![p] = None]
                   /\ root' = root \/ \E q \in Provider : root' = [root EXCEPT ![p] = q]
<1>3. Goes
  <2>1. ASSUME LookAtCache(p) PROVE Goes
    BY <2>1 DEF LookAtCache, ToStage, vars, registry, senders, callers
  <2>2. ASSUME AcquireNothing(p) PROVE Goes
    BY <2>2 DEF AcquireNothing, ToStage, vars, registry, senders, callers
  <2>3. ASSUME AcquireCached(p) PROVE Goes
    BY <1>2, <2>3 DEF AcquireCached, ToStage, vars, registry, senders, callers
  <2>4. ASSUME AcquireFails(p) PROVE Goes
    BY <2>4 DEF AcquireFails, ToStage, vars, registry, senders, callers
  <2>5. ASSUME NEW q \in Provider, AcquireNew(p, q) PROVE Goes
    BY <2>5 DEF AcquireNew, ToStage, vars, registry, senders, callers
  <2> QED BY <2>1, <2>2, <2>3, <2>4, <2>5
<1> HIDE DEF CallsGoOn
<1>4. CallTypes'
  BY <1>1, <1>2, <1>3 DEF CallTypes, Stage
<1>5. CallKnows(p)'
  BY <1>1, <1>3 DEF CallTypes, CallKnows
<1>6. \A r \in Payload : r # p =>
           /\ UNCHANGED <<stage[r], at[r], seen[r], root[r], result[r], held[r]>>
           /\ r \in returned' <=> r \in returned
  BY <1>1, <1>3 DEF CallTypes
<1> QED BY <1>1, <1>3, <1>4, <1>5, <1>6, OneCallGoesOn DEF CallsGoOn

(* The handler's steps that keep its payload. *)
LEMMA HandlerCalls ==
  ASSUME CreationInv, NEW p \in Payload, NEW w \in Window,
         AcquireWindowHostAccessibilityTarget(w, p) \/ FlushReturns(w, p) \/ HandlerDelivers(w, p)
  PROVE  CallsGoOn
<1>1. CallTypes /\ HandlerTypes /\ CallsKnow /\ HandlersKnow /\ CallKnows(p) /\ property[w] \in Target \cup {None}
  BY DEF CreationInv, CallsKnow, HostTypes
<1>2. place[p] = "taken"
  <2>1. Handles(w, p)
    BY DEF AcquireWindowHostAccessibilityTarget, FlushReturns, HandlerDelivers
  <2> QED BY <1>1, <2>1, HandledIsTaken DEF HandlerTypes
<1>3. /\ UNCHANGED <<place, sender, handling, seen, held, returned>>
      /\ \/ /\ stage[p] = "took" /\ stage' = [stage EXCEPT ![p] = IF property[w] = None THEN "drop" ELSE "flush"]
            /\ at' = [at EXCEPT ![p] = property[w]] /\ UNCHANGED <<root, result>>
         \/ /\ stage[p] = "flush" /\ stage' = [stage EXCEPT ![p] = "look"]
            /\ UNCHANGED <<at, root, result>>
         \/ /\ stage[p] = "made" /\ stage' = [stage EXCEPT ![p] = "drop"]
            /\ at' = [at EXCEPT ![p] = None] /\ root' = [root EXCEPT ![p] = None]
            /\ result' = [result EXCEPT ![p] = root[p]]
  BY DEF AcquireWindowHostAccessibilityTarget, FlushReturns, HandlerDelivers, ToStage, vars, registry, senders,
         acquiring, callers
<1> HIDE DEF CallsGoOn
<1>4. CallTypes'
  BY <1>1, <1>3 DEF CallTypes, Stage
<1>5. CallKnows(p)'
  BY <1>1, <1>2, <1>3 DEF CallTypes, CallKnows
<1>6. \A r \in Payload : r # p =>
           /\ UNCHANGED <<stage[r], at[r], seen[r], root[r], result[r], held[r]>>
           /\ r \in returned' <=> r \in returned
  BY <1>1, <1>3 DEF CallTypes
<1> QED BY <1>1, <1>3, <1>4, <1>5, <1>6, OneCallGoesOn DEF CallsGoOn

(* The steps of the caller that returns and of the client. *)
LEMMA ClientCalls ==
  ASSUME CreationInv, NEW p \in Payload,
         CallerReturns(p) \/ ClientAsks(p) \/ ClientReleasesRoot(p) \/ ClientReleasesProvider(p)
  PROVE  CallsGoOn
<1>1. CallTypes /\ HandlerTypes /\ CallsKnow /\ HandlersKnow /\ CallKnows(p)
  BY DEF CreationInv, CallsKnow
<1>2. /\ UNCHANGED <<place, sender, handling, at, seen>>
      /\ \/ /\ sender[p] \in {"true", "false"} /\ p \notin returned /\ returned' = returned \cup {p}
            /\ held' = IF sender[p] = "true" THEN [held EXCEPT ![p] = result[p]] ELSE held
            /\ result' = IF sender[p] = "true" \/ (sender[p] = "false" /\ place[p] = "gone")
                         THEN [result EXCEPT ![p] = None] ELSE result
            /\ UNCHANGED <<stage, root>>
         \/ /\ held[p] # None /\ stage[p] = "idle" /\ stage' = [stage EXCEPT ![p] = "look"]
            /\ UNCHANGED <<root, result, held, returned>>
         \/ /\ ~InHandler(p) /\ stage[p] = "made" /\ stage' = [stage EXCEPT ![p] = "idle"]
            /\ root' = [root EXCEPT ![p] = None] /\ UNCHANGED <<result, held, returned>>
         \/ /\ stage[p] \in {"idle", "made"} /\ held' = [held EXCEPT ![p] = None]
            /\ UNCHANGED <<stage, root, result, returned>>
  BY DEF CallerReturns, ClientAsks, ClientReleasesRoot, ClientReleasesProvider, ToStage, vars, registry, senders,
         acquiring, callers
<1>3. InHandler(p) <=> place[p] = "taken"
  BY <1>1, InHandlerIsTaken
<1> HIDE DEF CallsGoOn
<1>4. CallTypes'
  BY <1>1, <1>2 DEF CallTypes, Stage
<1>5. CallKnows(p)'
  BY <1>1, <1>2, <1>3 DEF CallTypes, CallKnows
<1>6. \A r \in Payload : r # p =>
           /\ UNCHANGED <<stage[r], at[r], seen[r], root[r], result[r], held[r]>>
           /\ r \in returned' <=> r \in returned
  BY <1>1, <1>2 DEF CallTypes
<1> QED BY <1>1, <1>2, <1>4, <1>5, <1>6, OneCallGoesOn DEF CallsGoOn

(* A handler begins: the payload it takes was in the table, with nothing done for it yet. *)
LEMMA TakesCalls ==
  ASSUME CreationInv, NEW w \in Window, NEW m \in inbox, HandlerTakes(w, m)
  PROVE  CallsGoOn
<1> DEFINE found == {e \in entries : Matches(e, m)}
<1>1. CallTypes /\ HandlerTypes /\ CallsKnow /\ HandlersKnow /\ Ownership
  BY DEF CreationInv
<1>2. /\ place' = [p \in Payload |-> IF \E e \in found : e.payload = p THEN "taken" ELSE place[p]]
      /\ UNCHANGED <<at, seen, root, result, held, returned>>
      /\ \/ /\ found = {} /\ UNCHANGED <<handling, stage>>
            /\ sender' = [p \in Payload |-> IF call[p] = m /\ sender[p] = "sending" THEN "answered" ELSE sender[p]]
         \/ /\ UNCHANGED sender
            /\ \E e \in found : /\ handling' = [handling EXCEPT ![w] = Append(@, e.payload)]
                                /\ stage' = [stage EXCEPT ![e.payload] = "took"]
  BY DEF HandlerTakes, TakeMessagePayload, ToStage, acquiring, callers
<1>3. CASE found = {}
  <2>1. UNCHANGED <<place, stage, handling>>
    BY <1>1, <1>2, <1>3 DEF Ownership, TypeOK
  <2>2. Steady
    BY <1>1, <1>2, <1>3, <2>1 DEF Steady, Ownership, TypeOK, Sender
  <2> QED BY <1>1, <1>2, <2>1, <2>2, SteadyCalls DEF CallsGoOn
<1>4. CASE found # {}
  <2>1. PICK e \in found : /\ handling' = [handling EXCEPT ![w] = Append(@, e.payload)]
                           /\ stage' = [stage EXCEPT ![e.payload] = "took"]
    BY <1>2, <1>4
  <2> DEFINE p == e.payload
  <2>2. p \in Payload /\ place[p] = "table" /\ found = {e} /\ sender[p] \notin {"true", "false"}
    BY <1>1, <2>1 DEF Ownership, TypeOK, Entry, PlaceIsTrue, SendersKnow, UniqueEntries, Matches
  <2>3. place' = [place EXCEPT ![p] = "taken"] /\ sender' = sender
    BY <1>1, <1>2, <1>4, <2>2 DEF Ownership, TypeOK
  <2> HIDE DEF p, found
  <2>4. /\ handling' = [handling EXCEPT ![w] = Append(@, p)]
        /\ stage' = [stage EXCEPT ![p] = "took"]
    BY <2>1 DEF p
  <2>5. place \in [Payload -> Place]
    BY <1>1 DEF Ownership, TypeOK
  <2>6. CallTypes' /\ HandlerTypes'
    BY <1>1, <1>2, <2>2, <2>4 DEF CallTypes, HandlerTypes, Stage
  <2>7. CallsKnow'
    <3>1. CallKnows(p)'
      BY <1>1, <1>2, <2>2, <2>3, <2>4, <2>5 DEF CallTypes, CallsKnow, CallKnows
    <3>2. ASSUME NEW r \in Payload, r # p PROVE CallKnows(r)'
      <4>1. /\ CallKnows(r) /\ returned' = returned
            /\ UNCHANGED <<sender[r], place[r], stage[r], at[r], seen[r], root[r], result[r], held[r]>>
        BY <1>1, <1>2, <2>3, <2>4, <2>5, <3>2 DEF CallTypes, CallsKnow
      <4> QED BY ONLY <4>1 DEF CallKnows
    <3> QED BY <3>1, <3>2 DEF CallsKnow
  <2>8. HandlersKnow'
    <3> DEFINE n == Len(handling[w])
    <3>1. handling[w] \in Seq(Payload) /\ n \in Nat /\ DOMAIN handling[w] = 1 .. n
      BY <1>1 DEF HandlerTypes
    <3>2. /\ DOMAIN handling'[w] = 1 .. n + 1 /\ handling'[w][n + 1] = p
          /\ \A i \in 1 .. n : handling'[w][i] = handling[w][i]
          /\ \A v \in Window : v # w => handling'[v] = handling[v]
      BY <1>1, <2>2, <2>4, <3>1 DEF HandlerTypes
    <3>3. \A v \in Window : \A i \in DOMAIN handling[v] : handling[v][i] # p /\ handling[v][i] \in Payload
      BY <1>1, <2>2 DEF HandlersKnow, HandlerTypes
    <3>4. \A v \in Window : \A i \in DOMAIN handling'[v] :
            \/ i \in DOMAIN handling[v] /\ handling'[v][i] = handling[v][i]
            \/ v = w /\ i = n + 1 /\ handling'[v][i] = p
      BY <3>1, <3>2
    <3>5. \A r \in Payload : InHandler(r)' <=> InHandler(r) \/ r = p
      <4>1. ASSUME NEW r \in Payload, InHandler(r)' PROVE InHandler(r) \/ r = p
        <5>1. PICK v \in Window : \E i \in 1 .. Len(handling'[v]) : handling'[v][i] = r
          BY <4>1 DEF InHandler
        <5>2. PICK i \in 1 .. Len(handling'[v]) : handling'[v][i] = r
          BY <5>1
        <5>3. i \in DOMAIN handling'[v] /\ handling[v] \in Seq(Payload)
          BY <2>6, <1>1, <5>2 DEF HandlerTypes
        <5> QED BY <3>4, <5>2, <5>3 DEF InHandler
      <4>2. ASSUME NEW r \in Payload, InHandler(r) PROVE InHandler(r)'
        <5>1. PICK v \in Window : \E i \in 1 .. Len(handling[v]) : handling[v][i] = r
          BY <4>2 DEF InHandler
        <5>2. PICK i \in 1 .. Len(handling[v]) : handling[v][i] = r
          BY <5>1
        <5>3. handling[v] \in Seq(Payload) /\ handling'[v] \in Seq(Payload)
          BY <2>6, <1>1 DEF HandlerTypes
        <5>4. i \in DOMAIN handling'[v] /\ handling'[v][i] = r
          BY <3>1, <3>2, <5>2, <5>3
        <5> QED BY <5>3, <5>4 DEF InHandler
      <4>3. InHandler(p)'
        <5>1. n + 1 \in 1 .. Len(handling'[w])
          BY <2>6, <3>1, <3>2 DEF HandlerTypes
        <5> QED BY <3>2, <5>1 DEF InHandler
      <4> QED BY <4>1, <4>2, <4>3
    <3>6. \A v \in Window : \A i \in DOMAIN handling'[v] : place'[handling'[v][i]] = "taken"
      BY <1>1, <2>2, <2>3, <2>5, <3>3, <3>4 DEF HandlersKnow
    <3>7. \A r \in Payload : place'[r] = "taken" => InHandler(r)'
      BY <1>1, <2>3, <2>5, <3>5 DEF HandlersKnow
    <3>8. \A v, u \in Window : \A i \in DOMAIN handling'[v], j \in DOMAIN handling'[u] :
            handling'[v][i] = handling'[u][j] => v = u /\ i = j
      BY <1>1, <3>3, <3>4 DEF HandlersKnow
    <3> QED BY <3>6, <3>7, <3>8 DEF HandlersKnow
  <2> QED BY <2>6, <2>7, <2>8 DEF CallsGoOn
<1> QED BY <1>3, <1>4

(* A handler returns: its payload was the last one there. *)
LEMMA ReturnsCalls ==
  ASSUME CreationInv, NEW w \in Window, NEW p \in Payload, HandlerReturns(w, p)
  PROVE  CallsGoOn
<1>1. CallTypes /\ HandlerTypes /\ CallsKnow /\ HandlersKnow /\ Ownership /\ CallKnows(p)
  BY DEF CreationInv, CallsKnow
<1>2. place \in [Payload -> Place] /\ sender \in [Payload -> Sender]
  BY <1>1 DEF Ownership, TypeOK
<1>3. Handles(w, p) /\ place[p] = "taken" /\ stage[p] = "drop"
  BY <1>1, HandledIsTaken DEF HandlerReturns, HandlerTypes
<1>4. /\ place' = [place EXCEPT ![p] = "gone"]
      /\ result' = IF p \in returned THEN [result EXCEPT ![p] = None] ELSE result
      /\ handling' = [handling EXCEPT ![w] = SubSeq(@, 1, Len(@) - 1)]
      /\ stage' = [stage EXCEPT ![p] = "idle"]
      /\ sender' = sender \/ (sender[p] = "sending" /\ sender' = [sender EXCEPT ![p] = "answered"])
      /\ UNCHANGED <<at, seen, root, held, returned>>
  BY DEF HandlerReturns, Move, Advance, ToStage, acquiring
<1> DEFINE n == Len(handling[w])
<1>5. /\ handling[w] \in Seq(Payload) /\ n \in Nat \ {0} /\ DOMAIN handling[w] = 1 .. n
      /\ handling[w][n] = p
  BY <1>1, <1>3 DEF HandlerTypes, Handles
<1>6. /\ handling'[w] = SubSeq(handling[w], 1, n - 1)
      /\ \A v \in Window : v # w => handling'[v] = handling[v]
  BY <1>1, <1>4 DEF HandlerTypes
<1>7. /\ SubSeq(handling[w], 1, n - 1) \in Seq(Payload)
      /\ DOMAIN SubSeq(handling[w], 1, n - 1) = 1 .. n - 1
      /\ \A i \in 1 .. n - 1 : SubSeq(handling[w], 1, n - 1)[i] = handling[w][i]
  BY <1>5
<1>8. CallTypes' /\ HandlerTypes'
  BY <1>1, <1>4, <1>7 DEF CallTypes, HandlerTypes, Stage
<1>9. CallsKnow'
  <2>1. CallKnows(p)'
    BY <1>1, <1>2, <1>3, <1>4 DEF CallTypes, CallKnows
  <2>2. ASSUME NEW r \in Payload, r # p PROVE CallKnows(r)'
    <3>1. /\ CallKnows(r) /\ returned' = returned
          /\ UNCHANGED <<sender[r], place[r], stage[r], at[r], seen[r], root[r], result[r], held[r]>>
      BY <1>1, <1>2, <1>4, <2>2 DEF CallTypes, CallsKnow
    <3> QED BY ONLY <3>1 DEF CallKnows
  <2> QED BY <2>1, <2>2 DEF CallsKnow
<1>10. HandlersKnow'
  <2>1. \A v \in Window : \A i \in DOMAIN handling'[v] :
          i \in DOMAIN handling[v] /\ handling'[v][i] = handling[v][i] /\ ~(v = w /\ i = n)
    <3>1. ASSUME NEW i \in DOMAIN handling'[w] PROVE i \in DOMAIN handling[w] /\ handling'[w][i] = handling[w][i] /\ i # n
      BY <1>5, <1>6, <1>7
    <3> QED BY <1>6, <3>1
  <2>2. \A v \in Window : \A i \in DOMAIN handling[v] :
          \/ v = w /\ i = n
          \/ i \in DOMAIN handling'[v] /\ handling'[v][i] = handling[v][i]
    <3>1. ASSUME NEW i \in DOMAIN handling[w], i # n
          PROVE  i \in DOMAIN handling'[w] /\ handling'[w][i] = handling[w][i]
      <4>1. i \in 1 .. n - 1
        BY <1>5, <3>1
      <4> QED BY <1>6, <1>7, <4>1
    <3>2. ASSUME NEW v \in Window, v # w PROVE handling'[v] = handling[v]
      BY <1>6, <3>2
    <3> QED BY <3>1, <3>2
  <2>3. \A v \in Window : \A i \in DOMAIN handling'[v] : handling'[v][i] # p /\ handling'[v][i] \in Payload
    <3>1. w \in Window /\ n \in DOMAIN handling[w] /\ handling[w][n] = p
      BY <1>5
    <3>2. \A v \in Window : \A i \in DOMAIN handling[v] : handling[v][i] = p => v = w /\ i = n
      BY <1>1, <3>1 DEF HandlersKnow
    <3>3. \A v \in Window : \A i \in DOMAIN handling[v] : handling[v][i] \in Payload
      BY <1>1 DEF HandlerTypes
    <3> QED BY <2>1, <3>2, <3>3
  <2>4. \A v \in Window : \A i \in DOMAIN handling'[v] : place'[handling'[v][i]] = "taken"
    BY <1>1, <1>2, <1>4, <2>1, <2>3 DEF HandlersKnow
  <2>5. ASSUME NEW r \in Payload, place'[r] = "taken" PROVE InHandler(r)'
    <3>1. r # p /\ place[r] = "taken"
      BY <1>2, <1>4, <2>5
    <3>2. PICK v \in Window : \E i \in 1 .. Len(handling[v]) : handling[v][i] = r
      BY <1>1, <3>1 DEF HandlersKnow, InHandler
    <3>3. PICK i \in 1 .. Len(handling[v]) : handling[v][i] = r
      BY <3>2
    <3>4. i \in DOMAIN handling[v] /\ handling'[v] \in Seq(Payload)
      BY <1>1, <1>8, <3>3 DEF HandlerTypes
    <3>5. i \in DOMAIN handling'[v] /\ handling'[v][i] = r
      BY <1>5, <2>2, <3>1, <3>3, <3>4
    <3> QED BY <3>4, <3>5 DEF InHandler
  <2>6. \A v, u \in Window : \A i \in DOMAIN handling'[v], j \in DOMAIN handling'[u] :
          handling'[v][i] = handling'[u][j] => v = u /\ i = j
    BY <1>1, <2>1 DEF HandlersKnow
  <2> QED BY <2>4, <2>5, <2>6 DEF HandlersKnow
<1> QED BY <1>8, <1>9, <1>10 DEF CallsGoOn

-----------------------------------------------------------------------------
(* The hosts and their retirement.                                         *)

(* The hosts after a step. *)
HostsGoOn == HostTypes' /\ WindowsKnow' /\ HostsKnow'

(* Most steps leave the hosts alone. *)
LEMMA HostsKept ==
  ASSUME HostTypes, WindowsKnow, HostsKnow, UNCHANGED <<targets, providers, retire>>
  PROVE  HostsGoOn
  BY DEF HostsGoOn, HostTypes, WindowsKnow, WindowKnows, HostsKnow, targets, providers

(* A window goes on: what the others know stays. *)
LEMMA OneWindowGoesOn ==
  ASSUME NEW w \in Window, WindowsKnow, WindowKnows(w)',
         \A v \in Window : v # w => UNCHANGED <<retire[v], property[v]>>
  PROVE  WindowsKnow'
<1>1. ASSUME NEW v \in Window, v # w PROVE WindowKnows(v)'
  <2>1. WindowKnows(v) /\ UNCHANGED <<retire[v], property[v]>>
    BY <1>1 DEF WindowsKnow
  <2> QED BY ONLY <2>1 DEF WindowKnows
<1> QED BY <1>1 DEF WindowsKnow

(* A registered target is new: nobody has it, and nothing is in its cache. *)
LEMMA FreeTarget ==
  ASSUME CreationInv, NEW t \in Target, refs[t] = 0
  PROVE  cache[t] = None /\ \A w \in Window : property[w] # t
<1>1. ASSUME cache[t] # None PROVE FALSE
  <2> DEFINE q == cache[t]
  <2>1. q \in Provider /\ refs[q] > 0 /\ targetOf[q] = t
    BY <1>1, PointedLive DEF CreationInv, RootsKnow
  <2>2. Owned(refs, targetOf)[q] = t
    BY <2>1 DEF Owned
  <2>3. Owners(refs, targetOf, t) >= 1
    BY <2>1, <2>2, CountPositive, CreationAssumption DEF Owners
  <2>4. refs[t] >= Owners(refs, targetOf, t) /\ Owners(refs, targetOf, t) \in Nat
    BY RefsSound, CountsType DEF Sound
  <2> QED BY <2>3, <2>4
<1>2. ASSUME NEW w \in Window, property[w] = t PROVE FALSE
  <2>1. t # None
    BY CreationAssumption
  <2>2. refs[t] > Owners(refs, targetOf, t) /\ Owners(refs, targetOf, t) \in Nat
    BY <1>2, <2>1, PointedLive, CountsType
  <2> QED BY <2>2
<1> QED BY <1>1, <1>2

(* RegisterWindowHostAccessibilityTarget gives a window that has none a target that is new. *)
LEMMA RegisterHosts ==
  ASSUME CreationInv, NEW w \in Window, NEW t \in Target, RegisterWindowHostAccessibilityTarget(w, t)
  PROVE  HostsGoOn
<1>1. HostTypes /\ WindowsKnow /\ HostsKnow /\ WindowKnows(w)
  BY DEF CreationInv, WindowsKnow
<1>2. /\ retire[w].step = "none" /\ property[w] = None
      /\ property' = [property EXCEPT ![w] = t] /\ host' = host \cup {t}
      /\ cache' = [cache EXCEPT ![t] = None]
      /\ UNCHANGED <<targetOf, superseded, disconnected, retire>>
  BY DEF RegisterWindowHostAccessibilityTarget, Runs, providers
<1>3. cache[t] = None
  BY FreeTarget DEF RegisterWindowHostAccessibilityTarget
<1>4. HostTypes'
  BY <1>1, <1>2 DEF HostTypes
<1>5. WindowsKnow'
  <2>1. WindowKnows(w)'
    BY <1>1, <1>2 DEF WindowKnows, HostTypes
  <2> QED BY <1>1, <1>2, <2>1, OneWindowGoesOn DEF HostTypes
<1>6. HostsKnow'
  BY <1>1, <1>2, <1>3, CreationAssumption DEF HostTypes, HostsKnow
<1> QED BY <1>4, <1>5, <1>6 DEF HostsGoOn

(* UnregisterWindowHostAccessibilityTarget: each step leaves what the next one needs. *)
LEMMA RetireHosts ==
  ASSUME CreationInv, NEW w \in Window,
         DetachHost(w) \/ ClearHost(w) \/ DetachRoot(w) \/ ForgetTarget(w) \/ DisconnectRoot(w)
  PROVE  HostsGoOn
<1>1. HostTypes /\ WindowsKnow /\ HostsKnow /\ WindowKnows(w)
  BY DEF CreationInv, WindowsKnow
<1>2. /\ retire[w] \in Retire /\ property[w] \in Target \cup {None}
      /\ \A v \in Window : retire[v] \in Retire
  BY <1>1 DEF HostTypes
<1>3. CASE DetachHost(w)
  <2>1. /\ retire[w].step = "none"
        /\ retire' = [retire EXCEPT ![w] = IF property[w] = None THEN @
                                     ELSE [@ EXCEPT !.step = "found", !.target = property[w]]]
        /\ UNCHANGED <<property, host, cache, targetOf, superseded, disconnected>>
    BY <1>3 DEF DetachHost, Runs, targets, providers
  <2>2. CASE property[w] = None
    <3>1. retire' = retire
      BY <1>1, <2>1, <2>2 DEF HostTypes
    <3> QED BY <1>1, <2>1, <3>1, HostsKept DEF targets, providers
  <2>3. CASE property[w] # None
    <3> DEFINE r == [retire[w] EXCEPT !.step = "found", !.target = property[w]]
    <3>1. r \in Retire /\ r.step = "found" /\ r.target = property[w] /\ r.root = retire[w].root
      BY <1>2, <2>3 DEF Retire
    <3>2. retire' = [retire EXCEPT ![w] = r]
      BY <2>1, <2>3
    <3> HIDE DEF r
    <3>3. retire[w].root = None
      BY <1>1, <2>1 DEF WindowKnows, NotRetiring
    <3>4. retire'[w] = r /\ \A v \in Window : v # w => retire'[v] = retire[v]
      BY <1>1, <3>2 DEF HostTypes
    <3>5. HostTypes'
      BY <1>1, <2>1, <3>1, <3>2 DEF HostTypes
    <3>6. WindowKnows(w)'
      BY <2>1, <2>3, <3>1, <3>3, <3>4 DEF WindowKnows
    <3>7. WindowsKnow'
      BY <1>1, <2>1, <3>4, <3>6, OneWindowGoesOn
    <3>8. HostsKnow'
      BY <1>1, <2>1, <3>1, <3>4 DEF HostsKnow
    <3> QED BY <3>5, <3>7, <3>8 DEF HostsGoOn
  <2> QED BY <2>2, <2>3
<1>4. CASE ClearHost(w)
  <2> DEFINE r == [retire[w] EXCEPT !.step = "hidden"]
  <2>1. /\ retire[w].step = "found" /\ host' = host \ {retire[w].target}
        /\ retire' = [retire EXCEPT ![w] = r]
        /\ UNCHANGED <<property, cache, targetOf, superseded, disconnected>>
    BY <1>4 DEF ClearHost, providers
  <2>2. r \in Retire /\ r.step = "hidden" /\ r.target = retire[w].target /\ r.root = retire[w].root
    BY <1>2 DEF Retire
  <2> HIDE DEF r
  <2>3. retire'[w] = r /\ \A v \in Window : v # w => retire'[v] = retire[v]
    BY <1>1, <2>1 DEF HostTypes
  <2>4. HostTypes'
    BY <1>1, <2>1, <2>2 DEF HostTypes
  <2>5. WindowKnows(w)'
    BY <1>1, <2>1, <2>2, <2>3 DEF WindowKnows
  <2>6. WindowsKnow'
    BY <1>1, <2>1, <2>3, <2>5, OneWindowGoesOn
  <2>7. retire[w].target = property[w]
    BY <1>1, <2>1 DEF WindowKnows
  <2>8. HostsKnow'
    BY <1>1, <2>1, <2>2, <2>3, <2>7 DEF HostsKnow
  <2> QED BY <2>4, <2>6, <2>8 DEF HostsGoOn
<1>5. CASE DetachRoot(w)
  <2> DEFINE t == retire[w].target
             r == [retire[w] EXCEPT !.step = "uncached", !.root = cache[t]]
  <2>1. /\ retire[w].step = "hidden" /\ cache' = [cache EXCEPT ![t] = None]
        /\ retire' = [retire EXCEPT ![w] = r]
        /\ UNCHANGED <<property, host, targetOf, superseded, disconnected>>
    BY <1>5 DEF DetachRoot, providers
  <2>2. t = property[w] /\ t \in Target
    BY <1>1, <1>2, <2>1 DEF WindowKnows
  <2>3. r \in Retire /\ r.step = "uncached" /\ r.target = t
    BY <1>1, <1>2, <2>2 DEF Retire, HostTypes
  <2> HIDE DEF r, t
  <2>4. retire'[w] = r /\ \A v \in Window : v # w => retire'[v] = retire[v]
    BY <1>1, <2>1 DEF HostTypes
  <2>5. HostTypes'
    BY <1>1, <2>1, <2>3 DEF HostTypes
  <2>6. WindowKnows(w)'
    BY <2>1, <2>2, <2>3, <2>4, CreationAssumption DEF WindowKnows
  <2>7. WindowsKnow'
    BY <1>1, <2>1, <2>4, <2>6, OneWindowGoesOn
  <2>8. HostsKnow'
    BY <1>1, <2>1, <2>2, <2>3, <2>4 DEF HostsKnow, HostTypes
  <2> QED BY <2>5, <2>7, <2>8 DEF HostsGoOn
<1>6. CASE ForgetTarget(w)
  <2> DEFINE r == [retire[w] EXCEPT !.step = "forgotten", !.target = None]
  <2>1. /\ retire[w].step = "uncached" /\ property' = [property EXCEPT ![w] = None]
        /\ retire' = [retire EXCEPT ![w] = r]
        /\ UNCHANGED <<cache, host, targetOf, superseded, disconnected>>
    BY <1>6 DEF ForgetTarget, providers
  <2>2. r \in Retire /\ r.step = "forgotten" /\ r.target = None
    BY <1>2 DEF Retire
  <2> HIDE DEF r
  <2>3. /\ retire'[w] = r /\ \A v \in Window : v # w => retire'[v] = retire[v] /\ property'[v] = property[v]
    BY <1>1, <2>1 DEF HostTypes
  <2>4. HostTypes'
    BY <1>1, <2>1, <2>2 DEF HostTypes
  <2>5. WindowKnows(w)'
    BY <2>2, <2>3 DEF WindowKnows
  <2>6. WindowsKnow'
    BY <1>1, <2>3, <2>5, OneWindowGoesOn
  <2>7. HostsKnow'
    BY <1>1, <2>1, <2>3 DEF HostsKnow
  <2> QED BY <2>4, <2>6, <2>7 DEF HostsGoOn
<1>7. CASE DisconnectRoot(w)
  <2>1. /\ retire[w].step = "forgotten" /\ disconnected' = disconnected \cup ({retire[w].root} \ {None})
        /\ retire' = [retire EXCEPT ![w] = NotRetiring]
        /\ UNCHANGED <<property, host, cache, targetOf, superseded>>
    BY <1>7 DEF DisconnectRoot, targets
  <2>2. NotRetiring \in Retire /\ NotRetiring.step = "none"
    BY DEF NotRetiring, Retire
  <2>3. retire'[w] = NotRetiring /\ \A v \in Window : v # w => retire'[v] = retire[v]
    BY <1>1, <2>1 DEF HostTypes
  <2>4. retire[w].root \in Provider \cup {None}
    BY <1>2 DEF Retire
  <2>5. HostTypes'
    BY <1>1, <2>1, <2>2, <2>4 DEF HostTypes
  <2>6. WindowKnows(w)'
    BY <2>2, <2>3 DEF WindowKnows
  <2>7. WindowsKnow'
    BY <1>1, <2>1, <2>3, <2>6, OneWindowGoesOn
  <2>8. HostsKnow'
    BY <1>1, <2>1, <2>2, <2>3 DEF HostsKnow
  <2> QED BY <2>5, <2>7, <2>8 DEF HostsGoOn
<1> QED BY <1>3, <1>4, <1>5, <1>6, <1>7

(* A root is only cached for a target that has its host. *)
LEMMA AcquireHosts ==
  ASSUME CreationInv, NEW p \in Payload, AcquireFails(p) \/ \E q \in Provider : AcquireNew(p, q)
  PROVE  HostsGoOn
<1> DEFINE t == TargetOfCall(p)
<1>1. HostTypes /\ WindowsKnow /\ HostsKnow /\ seen[p] \in Provider \cup {None}
  BY DEF CreationInv, CallTypes
<1>2. t \in Target
  BY CallHasTarget DEF AcquireFails, AcquireNew
<1>3. /\ t \in host /\ UNCHANGED <<property, host, retire>>
      /\ superseded' \subseteq superseded \cup ({seen[p]} \ {None}) /\ disconnected' \subseteq disconnected
      /\ \/ cache' = [cache EXCEPT ![t] = None] /\ targetOf' = targetOf
         \/ \E q \in Provider : cache' = [cache EXCEPT ![t] = q] /\ targetOf' = [targetOf EXCEPT ![q] = t]
  BY DEF AcquireFails, AcquireNew, NeedsRoot, HasHost
<1> HIDE DEF t
<1>4. HostTypes'
  BY <1>1, <1>2, <1>3 DEF HostTypes
<1>5. WindowsKnow'
  BY <1>1, <1>3 DEF WindowsKnow, WindowKnows
<1>6. HostsKnow'
  BY <1>1, <1>2, <1>3 DEF HostsKnow, HostTypes
<1> QED BY <1>4, <1>5, <1>6 DEF HostsGoOn

-----------------------------------------------------------------------------
(* The references.                                                         *)

(* One value of a function is set, the others stay. *)
Sets(S, f, g, i, v) == g[i] = v /\ \A j \in S : j # i => g[j] = f[j]

(* Then one value is counted less and one more. *)
LEMMA SetCount ==
  ASSUME NEW S, NEW f, NEW g, NEW i \in S, NEW v, NEW x, IsFiniteSet(S), Sets(S, f, g, i, v)
  PROVE  Count(S, g, x) = Count(S, f, x) - One(f[i], x) + One(v, x)
<1>1. g[i] = v /\ \A j \in S : j # i => g[j] = f[j]
  BY DEF Sets
<1> QED BY <1>1, CountMoves

(* A null pointer counts for nobody. *)
LEMMA NoneIsNobody ==
  ASSUME NEW x \in Target \cup Provider
  PROVE  One(None, x) = 0
  BY CreationAssumption DEF One

(* One pointer counts for at most one. *)
LEMMA OneType == ASSUME NEW x, NEW y PROVE One(x, y) \in 0 .. 1
  BY DEF One

(* The references after a step. *)
RefsGoOn == Balance' /\ RootsKnow'

(* The pointers of providers stay when no pointer to a provider is set. *)
LEMMA PointersKept ==
  ASSUME NEW q, UNCHANGED <<cache, Roots, seen, root, result, held>>
  PROVE  Pointers(q)' = Pointers(q)
  BY DEF Pointers

(* The uses of targets stay when no pointer to a target is set. *)
LEMMA UsesKept ==
  ASSUME NEW t, UNCHANGED <<property, at>>
  PROVE  Uses(t)' = Uses(t)
  BY DEF Uses

(* Both are numbers. *)
LEMMA PointersType ==
  ASSUME NEW x
  PROVE  Pointers(x) \in Nat /\ Uses(x) \in Nat
  BY CountsType DEF Pointers, Uses

(* Steps that move no reference. *)
LEMMA RefsKept ==
  ASSUME CreationInv,
         UNCHANGED <<refs, targetOf, superseded, disconnected, property, cache, seen, root, result, held, at, Roots>>,
         retire' = retire \/ \A w \in Window : retire'[w].root = retire[w].root
  PROVE  RefsGoOn
<1>1. Balance /\ RootsKnow
  BY DEF CreationInv
<1>2. Balance'
  <2>1. \A x : Pointers(x)' = Pointers(x) /\ Uses(x)' = Uses(x)
    BY PointersKept, UsesKept
  <2> QED BY <1>1, <2>1 DEF Balance
<1>3. RootsKnow'
  BY <1>1 DEF RootsKnow
<1> QED BY <1>2, <1>3 DEF RefsGoOn

(* A step that moves references keeps the balance if it moves the pointers with them. *)
LEMMA BalanceGoesOn ==
  ASSUME CreationInv, Sound(refs'), UNCHANGED targetOf,
         \A q \in Provider : refs'[q] - refs[q] = Pointers(q)' - Pointers(q),
         \A t \in Target : Spare(refs', targetOf, t) - Spare(refs, targetOf, t) = Uses(t)' - Uses(t)
  PROVE  Balance'
<1>1. /\ \A q \in Provider : refs[q] = Pointers(q) /\ refs[q] \in Nat /\ refs'[q] \in Nat
      /\ \A t \in Target : Spare(refs, targetOf, t) = Uses(t)
      /\ refs' \in [Target \cup Provider -> Nat]
  BY DEF CreationInv, Balance, Sound
<1>2. /\ \A x : Pointers(x)' \in Nat /\ Pointers(x) \in Nat /\ Uses(x) \in Nat /\ Uses(x)' \in Nat
      /\ \A t \in Target : Spare(refs', targetOf, t) \in Int
  <2>1. \A x : Pointers(x) \in Nat /\ Uses(x) \in Nat
    BY PointersType
  <2>2. (\A x : Pointers(x) \in Nat /\ Uses(x) \in Nat)'
    <3>1. \A x : Count(Target, cache', x) \in Nat /\ Count(Window, Roots', x) \in Nat
            /\ Count(Payload, seen', x) \in Nat /\ Count(Payload, root', x) \in Nat
            /\ Count(Payload, result', x) \in Nat /\ Count(Payload, held', x) \in Nat
            /\ Count(Window, property', x) \in Nat /\ Count(Payload, at', x) \in Nat
      BY CountType, CreationAssumption, RegistryAssumption
    <3> QED BY <3>1 DEF Pointers, Uses
  <2>3. ASSUME NEW t \in Target PROVE Spare(refs', targetOf, t) \in Int
    <3>1. refs'[t] \in Nat /\ Owners(refs', targetOf, t) \in Nat
      BY <1>1, CountType, CreationAssumption DEF Owners
    <3> QED BY <3>1 DEF Spare
  <2> QED BY <2>1, <2>2, <2>3
<1>3. \A q \in Provider : refs'[q] = Pointers(q)'
  BY <1>1, <1>2
<1>4. \A t \in Target : Spare(refs', targetOf, t) = Uses(t)'
  BY <1>1, <1>2
<1>5. \A t \in Target : Spare(refs, targetOf, t)' = Spare(refs', targetOf, t)
  OBVIOUS
<1> QED BY <1>1, <1>3, <1>4, <1>5 DEF Balance

(* One reference is given back. *)
LEMMA ReleasesOne ==
  ASSUME CreationInv, NEW x \in Target \cup Provider \cup {None}, refs' = Release(refs, x), UNCHANGED targetOf,
         x # None => refs[x] > 0, x \in Target => refs[x] > Owners(refs, targetOf, x),
         \A q \in Provider : Pointers(q)' = Pointers(q) - One(x, q),
         \A t \in Target : Uses(t)' = Uses(t) - One(x, t)
  PROVE  Balance' /\ \A q \in Provider : refs'[q] > 0 => refs[q] > 0
<1>1. /\ Sound(refs')
      /\ \A q \in Provider : refs'[q] = refs[q] - One(x, q)
      /\ \A t \in Target : Spare(refs', targetOf, t) = Spare(refs, targetOf, t) - One(x, t)
  BY RefsSound, ReleaseCounts
<1>2. /\ \A q \in Provider : refs[q] \in Nat /\ One(x, q) \in 0 .. 1 /\ Pointers(q) \in Nat
      /\ \A t \in Target : Uses(t) \in Nat /\ One(x, t) \in 0 .. 1 /\ Spare(refs, targetOf, t) = Uses(t)
  BY PointersType, OneType DEF CreationInv, Balance
<1>3. \A q \in Provider : refs'[q] - refs[q] = Pointers(q)' - Pointers(q)
  BY <1>1, <1>2
<1>4. \A t \in Target : Spare(refs', targetOf, t) - Spare(refs, targetOf, t) = Uses(t)' - Uses(t)
  BY <1>1, <1>2
<1>5. Balance'
  BY <1>1, <1>3, <1>4, BalanceGoesOn
<1> QED BY <1>1, <1>2, <1>5

(* One more reference is taken. *)
LEMMA TakesOne ==
  ASSUME CreationInv, NEW x \in Target \cup Provider \cup {None}, refs' = AddRef(refs, x), UNCHANGED targetOf,
         x \in Provider => refs[x] > 0,
         \A q \in Provider : Pointers(q)' = Pointers(q) + One(x, q),
         \A t \in Target : Uses(t)' = Uses(t) + One(x, t)
  PROVE  Balance' /\ \A q \in Provider : refs'[q] > 0 => refs[q] > 0
<1>1. /\ Sound(refs')
      /\ \A q \in Provider : refs'[q] = refs[q] + One(x, q)
      /\ \A t \in Target : Spare(refs', targetOf, t) = Spare(refs, targetOf, t) + One(x, t)
  BY RefsSound, AddRefCounts
<1>2. /\ \A q \in Provider : refs[q] \in Nat /\ One(x, q) \in 0 .. 1 /\ Pointers(q) \in Nat
      /\ \A t \in Target : Uses(t) \in Nat /\ One(x, t) \in 0 .. 1 /\ Spare(refs, targetOf, t) = Uses(t)
  BY PointersType, OneType DEF CreationInv, Balance
<1>3. \A q \in Provider : refs'[q] - refs[q] = Pointers(q)' - Pointers(q)
  BY <1>1, <1>2
<1>4. \A t \in Target : Spare(refs', targetOf, t) - Spare(refs, targetOf, t) = Uses(t)' - Uses(t)
  BY <1>1, <1>2
<1>5. Balance'
  BY <1>1, <1>3, <1>4, BalanceGoesOn
<1>6. ASSUME NEW q \in Provider, refs'[q] > 0 PROVE refs[q] > 0
  <2>1. CASE x = q
    BY <2>1
  <2>2. CASE x # q
    <3>1. One(x, q) = 0
      BY <2>2 DEF One
    <3> QED BY <1>1, <1>2, <1>6, <3>1
  <2> QED BY <2>1, <2>2
<1> QED BY <1>5, <1>6

(* A provider's reference is given back. *)
LEMMA ReleasesProvider ==
  ASSUME CreationInv, NEW x \in Provider \cup {None}, x # None => refs[x] > 0,
         refs' = Release(refs, x), UNCHANGED <<targetOf, property, at>>,
         \A q \in Provider : Pointers(q)' = Pointers(q) - One(x, q)
  PROVE  Balance' /\ \A q \in Provider : refs'[q] > 0 => refs[q] > 0
<1>1. x \notin Target
  BY CreationAssumption
<1>2. ASSUME NEW t \in Target PROVE Uses(t)' = Uses(t) - One(x, t)
  <2>1. Uses(t)' = Uses(t) /\ Uses(t) \in Nat /\ One(x, t) = 0
    BY <1>1, UsesKept, PointersType DEF One
  <2> QED BY <2>1
<1> QED BY <1>1, <1>2, ReleasesOne

(* Roots stay known when nothing of the hosts moves and no provider comes to life. *)
LEMMA RootsKept ==
  ASSUME RootsKnow, UNCHANGED <<targetOf, cache, Roots>>, superseded \subseteq superseded', disconnected \subseteq disconnected',
         \A w \in Window : retire'[w].root = retire[w].root,
         \A q \in Provider : refs'[q] > 0 => refs[q] > 0
  PROVE  RootsKnow'
  BY DEF RootsKnow

(* The handler takes its target. *)
LEMMA AcquireTargetRefs ==
  ASSUME CreationInv, NEW w \in Window, NEW p \in Payload, AcquireWindowHostAccessibilityTarget(w, p)
  PROVE  RefsGoOn
<1> DEFINE x == property[w]
<1>1. CallTypes /\ HostTypes /\ RootsKnow /\ CallKnows(p)
  BY DEF CreationInv, CallsKnow
<1>2. x \in Target \cup {None} /\ at \in [Payload -> Target \cup {None}]
  BY <1>1 DEF CallTypes, HostTypes
<1>3. /\ refs' = AddRef(refs, x) /\ at' = [at EXCEPT ![p] = x] /\ stage[p] = "took"
      /\ UNCHANGED <<property, cache, retire, seen, root, result, held, targetOf, superseded, disconnected>>
  BY DEF AcquireWindowHostAccessibilityTarget, targets, providers, callers
<1>4. x \notin Provider
  BY <1>2, CreationAssumption
<1> HIDE DEF x
<1>5. Roots' = Roots
  BY <1>3 DEF Roots
<1>6. \A q \in Provider : Pointers(q)' = Pointers(q) + One(x, q)
  <2>1. \A q \in Provider : Pointers(q)' = Pointers(q) /\ Pointers(q) \in Nat
    BY <1>3, <1>5, PointersKept, PointersType
  <2>2. \A q \in Provider : One(x, q) = 0
    BY <1>2, CreationAssumption DEF One
  <2> QED BY <2>1, <2>2
<1>7. at[p] = None
  BY <1>1, <1>3 DEF CallKnows
<1>8. ASSUME NEW t \in Target PROVE Uses(t)' = Uses(t) + One(x, t)
  <2>1a. Sets(Payload, at, at', p, x)
    BY <1>2, <1>3 DEF Sets
  <2>1. Count(Payload, at', t) = Count(Payload, at, t) - One(None, t) + One(x, t)
    BY <2>1a, <1>7, SetCount, RegistryAssumption
  <2>2. One(None, t) = 0 /\ One(x, t) \in 0 .. 1 /\ Count(Payload, at, t) \in Nat /\ Count(Window, property, t) \in Nat
    BY NoneIsNobody, OneType, CountsType
  <2>3. Uses(t)' = Count(Window, property, t) + Count(Payload, at', t)
    BY <1>3 DEF Uses
  <2> QED BY <2>1, <2>2, <2>3 DEF Uses
<1>9. Balance' /\ \A q \in Provider : refs'[q] > 0 => refs[q] > 0
  BY <1>2, <1>3, <1>4, <1>6, <1>8, TakesOne
<1>10. RootsKnow'
  BY <1>1, <1>3, <1>5, <1>9, RootsKept
<1> QED BY <1>9, <1>10 DEF RefsGoOn

(* The handler gives its target back and passes the root on to the result. *)
LEMMA DeliversRefs ==
  ASSUME CreationInv, NEW w \in Window, NEW p \in Payload, HandlerDelivers(w, p)
  PROVE  RefsGoOn
<1> DEFINE x == at[p]
           y == root[p]
<1>1. CallTypes /\ HostTypes /\ RootsKnow /\ CallKnows(p)
  BY DEF CreationInv, CallsKnow
<1>2. /\ x \in Target \cup {None} /\ at \in [Payload -> Target \cup {None}]
      /\ result \in [Payload -> Provider \cup {None}] /\ root \in [Payload -> Provider \cup {None}]
  BY <1>1 DEF CallTypes
<1>3. /\ refs' = Release(refs, x) /\ at' = [at EXCEPT ![p] = None] /\ stage[p] = "made"
      /\ result' = [result EXCEPT ![p] = y] /\ root' = [root EXCEPT ![p] = None]
      /\ UNCHANGED <<property, cache, retire, seen, held, targetOf, superseded, disconnected>>
  BY DEF HandlerDelivers, targets, providers
<1>4. (x # None => refs[x] > 0) /\ (x \in Target => refs[x] > Owners(refs, targetOf, x))
  <2>1. x # None => x \in Target /\ refs[x] > Owners(refs, targetOf, x)
    BY PointedLive
  <2> QED BY <2>1, CountsType, CreationAssumption DEF CreationInv, Balance
<1>5. Roots' = Roots
  BY <1>3 DEF Roots
<1>6. result[p] = None
  BY <1>1, <1>3 DEF CallKnows
<1>7. ASSUME NEW q \in Provider PROVE Pointers(q)' = Pointers(q) - One(x, q)
  <2>1a. Sets(Payload, root, root', p, None)
    BY <1>2, <1>3 DEF Sets
  <2>1. Count(Payload, root', q) = Count(Payload, root, q) - One(y, q) + One(None, q)
    BY <2>1a, SetCount, RegistryAssumption
  <2>2a. Sets(Payload, result, result', p, y)
    BY <1>2, <1>3 DEF Sets
  <2>2. Count(Payload, result', q) = Count(Payload, result, q) - One(None, q) + One(y, q)
    BY <2>2a, <1>6, SetCount, RegistryAssumption
  <2>3. One(None, q) = 0 /\ One(y, q) \in 0 .. 1
    BY NoneIsNobody, OneType
  <2>4. One(x, q) = 0
    BY <1>2, CreationAssumption DEF One
  <2>5. Pointers(q)' = Count(Target, cache, q) + Count(Window, Roots, q) + Count(Payload, seen, q)
                       + Count(Payload, root', q) + Count(Payload, result', q) + Count(Payload, held, q)
    BY <1>3, <1>5 DEF Pointers
  <2> HIDE DEF x, y
  <2> QED BY <2>1, <2>2, <2>3, <2>4, <2>5, CountsType DEF Pointers
<1> HIDE DEF x, y
<1>8. ASSUME NEW t \in Target PROVE Uses(t)' = Uses(t) - One(x, t)
  <2>1a. Sets(Payload, at, at', p, None)
    BY <1>2, <1>3 DEF Sets
  <2>1. Count(Payload, at', t) = Count(Payload, at, t) - One(x, t) + One(None, t)
    BY <2>1a, SetCount, RegistryAssumption DEF x
  <2>2. One(None, t) = 0 /\ One(x, t) \in 0 .. 1 /\ Count(Payload, at, t) \in Nat /\ Count(Window, property, t) \in Nat
    BY NoneIsNobody, OneType, CountsType
  <2>3. Uses(t)' = Count(Window, property, t) + Count(Payload, at', t)
    BY <1>3 DEF Uses
  <2> QED BY <2>1, <2>2, <2>3 DEF Uses
<1>9. Balance' /\ \A q \in Provider : refs'[q] > 0 => refs[q] > 0
  BY <1>2, <1>3, <1>4, <1>7, <1>8, ReleasesOne
<1>10. RootsKnow'
  BY <1>1, <1>3, <1>5, <1>9, RootsKept
<1> QED BY <1>9, <1>10 DEF RefsGoOn

(* A client releases its provider. *)
LEMMA ReleasesProviderRefs ==
  ASSUME CreationInv, NEW p \in Payload, ClientReleasesProvider(p)
  PROVE  RefsGoOn
<1> DEFINE x == held[p]
<1>1. CallTypes /\ RootsKnow
  BY DEF CreationInv
<1>2. x \in Provider \cup {None} /\ held \in [Payload -> Provider \cup {None}] /\ (x # None => refs[x] > 0)
  BY <1>1, PointedLive DEF CallTypes
<1>3. /\ refs' = Release(refs, x) /\ held' = [held EXCEPT ![p] = None]
      /\ UNCHANGED <<property, cache, retire, at, seen, root, result, targetOf, superseded, disconnected>>
  BY DEF ClientReleasesProvider, targets, providers, acquiring
<1>4. Roots' = Roots
  BY <1>3 DEF Roots
<1>5. ASSUME NEW q \in Provider PROVE Pointers(q)' = Pointers(q) - One(x, q)
  <2>1. Sets(Payload, held, held', p, None)
    BY <1>2, <1>3 DEF Sets
  <2>2. Count(Payload, held', q) = Count(Payload, held, q) - One(x, q) + One(None, q)
    BY <2>1, SetCount, RegistryAssumption
  <2>3. One(None, q) = 0 /\ One(x, q) \in 0 .. 1
    BY NoneIsNobody, OneType
  <2>4. Pointers(q)' = Count(Target, cache, q) + Count(Window, Roots, q) + Count(Payload, seen, q)
                       + Count(Payload, root, q) + Count(Payload, result, q) + Count(Payload, held', q)
    BY <1>3, <1>4 DEF Pointers
  <2> HIDE DEF x
  <2> QED BY <2>2, <2>3, <2>4, CountsType DEF Pointers
<1>6. Balance' /\ \A q \in Provider : refs'[q] > 0 => refs[q] > 0
  BY <1>2, <1>3, <1>5, ReleasesProvider
<1>7. RootsKnow'
  BY <1>1, <1>3, <1>4, <1>6, RootsKept
<1> QED BY <1>6, <1>7 DEF RefsGoOn

(* A client releases the root that it was returned. *)
LEMMA ReleasesRootRefs ==
  ASSUME CreationInv, NEW p \in Payload, ClientReleasesRoot(p)
  PROVE  RefsGoOn
<1> DEFINE x == root[p]
<1>1. CallTypes /\ RootsKnow
  BY DEF CreationInv
<1>2. x \in Provider \cup {None} /\ root \in [Payload -> Provider \cup {None}] /\ (x # None => refs[x] > 0)
  BY <1>1, PointedLive DEF CallTypes
<1>3. /\ refs' = Release(refs, x) /\ root' = [root EXCEPT ![p] = None]
      /\ UNCHANGED <<property, cache, retire, at, seen, result, held, targetOf, superseded, disconnected>>
  BY DEF ClientReleasesRoot, targets, providers, callers
<1>4. Roots' = Roots
  BY <1>3 DEF Roots
<1>5. ASSUME NEW q \in Provider PROVE Pointers(q)' = Pointers(q) - One(x, q)
  <2>1. Sets(Payload, root, root', p, None)
    BY <1>2, <1>3 DEF Sets
  <2>2. Count(Payload, root', q) = Count(Payload, root, q) - One(x, q) + One(None, q)
    BY <2>1, SetCount, RegistryAssumption
  <2>3. One(None, q) = 0 /\ One(x, q) \in 0 .. 1
    BY NoneIsNobody, OneType
  <2>4. Pointers(q)' = Count(Target, cache, q) + Count(Window, Roots, q) + Count(Payload, seen, q)
                       + Count(Payload, root', q) + Count(Payload, result, q) + Count(Payload, held, q)
    BY <1>3, <1>4 DEF Pointers
  <2> HIDE DEF x
  <2> QED BY <2>2, <2>3, <2>4, CountsType DEF Pointers
<1>6. Balance' /\ \A q \in Provider : refs'[q] > 0 => refs[q] > 0
  BY <1>2, <1>3, <1>5, ReleasesProvider
<1>7. RootsKnow'
  BY <1>1, <1>3, <1>4, <1>6, RootsKept
<1> QED BY <1>6, <1>7 DEF RefsGoOn

(* AcquireCanonicalRootProvider looks at the cache. *)
LEMMA LookRefs ==
  ASSUME CreationInv, NEW p \in Payload, LookAtCache(p)
  PROVE  RefsGoOn
<1> DEFINE t == TargetOfCall(p)
           x == cache[t]
<1>1. CallTypes /\ RootsKnow /\ CallKnows(p) /\ cache \in [Target -> Provider \cup {None}]
  BY DEF CreationInv, CallsKnow, HostTypes
<1>2. /\ t \in Target /\ x \in Provider \cup {None} /\ seen \in [Payload -> Provider \cup {None}]
      /\ x \in Provider => refs[x] > 0
  <2>1. t \in Target
    BY CallHasTarget DEF LookAtCache
  <2> QED BY <1>1, <2>1, PointedLive, CreationAssumption DEF CallTypes
<1>3. /\ refs' = AddRef(refs, x) /\ seen' = [seen EXCEPT ![p] = x] /\ stage[p] = "look"
      /\ UNCHANGED <<property, cache, retire, at, root, result, held, targetOf, superseded, disconnected>>
  BY DEF LookAtCache, targets, providers, callers
<1>4. Roots' = Roots
  BY <1>3 DEF Roots
<1>5. seen[p] = None
  BY <1>1, <1>3 DEF CallKnows
<1> HIDE DEF x, t
<1>6. ASSUME NEW q \in Provider PROVE Pointers(q)' = Pointers(q) + One(x, q)
  <2>1. Sets(Payload, seen, seen', p, x)
    BY <1>2, <1>3 DEF Sets
  <2>2. Count(Payload, seen', q) = Count(Payload, seen, q) - One(None, q) + One(x, q)
    BY <2>1, <1>5, SetCount, RegistryAssumption
  <2>3. One(None, q) = 0 /\ One(x, q) \in 0 .. 1
    BY NoneIsNobody, OneType
  <2>4. Pointers(q)' = Count(Target, cache, q) + Count(Window, Roots, q)
                       + Count(Payload, seen', q) + Count(Payload, root, q) + Count(Payload, result, q) + Count(Payload, held, q)
    BY <1>3, <1>4 DEF Pointers
  <2> QED BY <2>2, <2>3, <2>4, CountsType DEF Pointers
<1>7. ASSUME NEW u \in Target PROVE Uses(u)' = Uses(u) + One(x, u)
  <2>1. Uses(u)' = Uses(u) /\ Uses(u) \in Nat
    BY <1>3, UsesKept, PointersType
  <2>2. One(x, u) = 0
    BY <1>2, CreationAssumption DEF One
  <2> QED BY <2>1, <2>2
<1>8. Balance' /\ \A q \in Provider : refs'[q] > 0 => refs[q] > 0
  BY <1>2, <1>3, <1>6, <1>7, TakesOne
<1>9. RootsKnow'
  BY <1>1, <1>3, <1>4, <1>8, RootsKept
<1> QED BY <1>8, <1>9 DEF RefsGoOn

(* It returns nothing, and drops what it looked at. *)
LEMMA NothingRefs ==
  ASSUME CreationInv, NEW p \in Payload, AcquireNothing(p)
  PROVE  RefsGoOn
<1> DEFINE x == seen[p]
<1>1. CallTypes /\ RootsKnow
  BY DEF CreationInv
<1>2. x \in Provider \cup {None} /\ seen \in [Payload -> Provider \cup {None}] /\ (x # None => refs[x] > 0)
  BY <1>1, PointedLive DEF CallTypes
<1>3. /\ refs' = Release(refs, x) /\ seen' = [seen EXCEPT ![p] = None]
      /\ UNCHANGED <<property, cache, retire, at, root, result, held, targetOf, superseded, disconnected>>
  BY DEF AcquireNothing, targets, providers, callers
<1>4. Roots' = Roots
  BY <1>3 DEF Roots
<1>5. ASSUME NEW q \in Provider PROVE Pointers(q)' = Pointers(q) - One(x, q)
  <2>1. Sets(Payload, seen, seen', p, None)
    BY <1>2, <1>3 DEF Sets
  <2>2. Count(Payload, seen', q) = Count(Payload, seen, q) - One(x, q) + One(None, q)
    BY <2>1, SetCount, RegistryAssumption
  <2>3. One(None, q) = 0 /\ One(x, q) \in 0 .. 1
    BY NoneIsNobody, OneType
  <2>4. Pointers(q)' = Count(Target, cache, q) + Count(Window, Roots, q)
                       + Count(Payload, seen', q) + Count(Payload, root, q) + Count(Payload, result, q) + Count(Payload, held, q)
    BY <1>3, <1>4 DEF Pointers
  <2> HIDE DEF x
  <2> QED BY <2>2, <2>3, <2>4, CountsType DEF Pointers
<1>6. Balance' /\ \A q \in Provider : refs'[q] > 0 => refs[q] > 0
  BY <1>2, <1>3, <1>5, ReleasesProvider
<1>7. RootsKnow'
  BY <1>1, <1>3, <1>4, <1>6, RootsKept
<1> QED BY <1>6, <1>7 DEF RefsGoOn

(* It returns the cached root, and drops what it looked at. *)
LEMMA CachedRefs ==
  ASSUME CreationInv, NEW p \in Payload, AcquireCached(p)
  PROVE  RefsGoOn
<1> DEFINE t == TargetOfCall(p)
           y == cache[t]
           z == seen[p]
           s == AddRef(refs, y)
<1>1. CallTypes /\ RootsKnow /\ CallKnows(p) /\ HostTypes
  BY DEF CreationInv, CallsKnow
<1>2. /\ y \in Provider /\ refs[y] > 0 /\ z \in Provider \cup {None} /\ (z # None => refs[z] > 0)
      /\ seen \in [Payload -> Provider \cup {None}] /\ root \in [Payload -> Provider \cup {None}]
  <2>1. t \in Target /\ y # None
    BY CallHasTarget DEF AcquireCached
  <2> QED BY <1>1, <2>1, PointedLive DEF CallTypes
<1>3. /\ refs' = Release(s, z) /\ seen' = [seen EXCEPT ![p] = None] /\ root' = [root EXCEPT ![p] = y]
      /\ stage[p] = "make"
      /\ UNCHANGED <<property, cache, retire, at, result, held, targetOf, superseded, disconnected>>
  BY DEF AcquireCached, targets, providers, callers
<1>4. Roots' = Roots
  BY <1>3 DEF Roots
<1>5. root[p] = None
  BY <1>1, <1>3 DEF CallKnows
<1>6. /\ Sound(s) /\ \A q \in Provider : s[q] = refs[q] + One(y, q)
      /\ \A u \in Target : Spare(s, targetOf, u) = Spare(refs, targetOf, u) + One(y, u)
  BY <1>2, RefsSound, AddRefCounts
<1>7. \A q \in Provider : refs[q] \in Nat /\ One(y, q) \in 0 .. 1 /\ One(z, q) \in 0 .. 1 /\ Pointers(q) \in Nat
  BY OneType, PointersType DEF CreationInv, Balance
<1>8. (z # None => s[z] > 0) /\ z \notin Target /\ y \notin Target
  BY <1>2, <1>6, <1>7, CreationAssumption
<1> HIDE DEF s, y, z, t
<1>9. /\ Sound(refs') /\ \A q \in Provider : refs'[q] = s[q] - One(z, q)
      /\ \A u \in Target : Spare(refs', targetOf, u) = Spare(s, targetOf, u) - One(z, u)
  BY <1>2, <1>3, <1>6, <1>8, ReleaseCounts
<1>10. ASSUME NEW q \in Provider PROVE Pointers(q)' = Pointers(q) + One(y, q) - One(z, q)
  <2>1. Sets(Payload, seen, seen', p, None) /\ Sets(Payload, root, root', p, y)
    BY <1>2, <1>3 DEF Sets
  <2>2. Count(Payload, seen', q) = Count(Payload, seen, q) - One(z, q) + One(None, q)
    BY <2>1, SetCount, RegistryAssumption DEF z
  <2>3. Count(Payload, root', q) = Count(Payload, root, q) - One(None, q) + One(y, q)
    BY <2>1, <1>5, SetCount, RegistryAssumption
  <2>4. One(None, q) = 0 /\ One(y, q) \in 0 .. 1 /\ One(z, q) \in 0 .. 1
    BY NoneIsNobody, OneType
  <2>5. Pointers(q)' = Count(Target, cache, q) + Count(Window, Roots, q)
                       + Count(Payload, seen', q) + Count(Payload, root', q) + Count(Payload, result, q) + Count(Payload, held, q)
    BY <1>3, <1>4 DEF Pointers
  <2> QED BY <2>2, <2>3, <2>4, <2>5, CountsType DEF Pointers
<1>11. \A q \in Provider : refs'[q] - refs[q] = Pointers(q)' - Pointers(q)
  BY <1>6, <1>7, <1>9, <1>10
<1>12. ASSUME NEW u \in Target PROVE Spare(refs', targetOf, u) - Spare(refs, targetOf, u) = Uses(u)' - Uses(u)
  <2>1. Uses(u)' = Uses(u) /\ Uses(u) \in Nat /\ Spare(refs, targetOf, u) = Uses(u)
    BY <1>3, UsesKept, PointersType DEF CreationInv, Balance
  <2>2. One(y, u) = 0 /\ One(z, u) = 0
    BY <1>8 DEF One
  <2> QED BY <1>6, <1>9, <2>1, <2>2
<1>13. Balance'
  BY <1>3, <1>9, <1>11, <1>12, BalanceGoesOn
<1>14. ASSUME NEW q \in Provider, refs'[q] > 0 PROVE refs[q] > 0
  <2>1. CASE q = y
    BY <1>2, <2>1
  <2>2. CASE q # y
    BY <1>6, <1>7, <1>9, <1>14, <2>2 DEF One
  <2> QED BY <2>1, <2>2
<1>15. RootsKnow'
  BY <1>1, <1>3, <1>4, <1>14, RootsKept
<1> QED BY <1>13, <1>15 DEF RefsGoOn

(* What is left when the cached root and the look's reference are dropped. *)
LEMMA OldRootGoes ==
  ASSUME CreationInv, NEW p \in Payload, stage[p] = "make", NeedsRoot(p, TargetOfCall(p)),
         NEW t, t = TargetOfCall(p), NEW y, y = cache[t], NEW z, z = seen[p]
  PROVE  /\ t \in Target /\ y \in Provider \cup {None} /\ z \in Provider \cup {None}
         /\ y # None => y = z /\ refs[y] > 0
         /\ z # None => refs[z] > 0
         /\ Sound(WithoutOldRoot(p, t))
         /\ \A q \in Provider : WithoutOldRoot(p, t)[q] = refs[q] - One(y, q) - One(z, q)
         /\ \A u \in Target : Spare(WithoutOldRoot(p, t), targetOf, u) = Spare(refs, targetOf, u)
<1> DEFINE s == Release(refs, y)
<1>1. CallTypes /\ HostTypes /\ Balance
  BY DEF CreationInv
<1>2. /\ t \in Target /\ y \in Provider \cup {None} /\ z \in Provider \cup {None}
      /\ (y # None => y = z /\ refs[y] > 0) /\ (z # None => refs[z] > 0)
  <2>1. t \in Target
    BY CallHasTarget
  <2> QED BY <1>1, <2>1, PointedLive DEF NeedsRoot, CallTypes
<1>3. y \notin Target /\ z \notin Target
  BY <1>2, CreationAssumption
<1>4. /\ Sound(s) /\ \A q \in Provider : s[q] = refs[q] - One(y, q)
      /\ \A u \in Target : Spare(s, targetOf, u) = Spare(refs, targetOf, u) - One(y, u)
  BY <1>2, <1>3, RefsSound, ReleaseCounts
<1>5. \A q \in Provider : refs[q] \in Nat /\ One(y, q) \in 0 .. 1 /\ One(z, q) \in 0 .. 1
  BY <1>1, OneType DEF Balance
<1>6. ASSUME z # None PROVE s[z] > 0
  <2>1. z \in Provider /\ refs[z] \in Nat /\ refs[z] > 0 /\ s[z] = refs[z] - One(y, z)
    BY <1>2, <1>4, <1>5, <1>6
  <2>2. CASE y = None
    BY <1>6, <2>1, <2>2 DEF One
  <2>3. CASE y # None
    <3>1. y = z
      BY <1>2, <2>3
    <3>2. Count(Target, cache, z) >= 1 /\ Count(Payload, seen, z) >= 1
      BY <1>2, <3>1, CountPositive, CreationAssumption, RegistryAssumption
    <3>3. refs[z] >= 2
      BY <1>1, <2>1, <3>2, CountsType DEF Balance, Pointers
    <3>4. One(y, z) = 1
      BY <3>1 DEF One
    <3> QED BY <2>1, <3>3, <3>4
  <2> QED BY <2>2, <2>3
<1>7. WithoutOldRoot(p, t) = Release(s, z)
  BY DEF WithoutOldRoot
<1> HIDE DEF s
<1>8. /\ Sound(Release(s, z)) /\ \A q \in Provider : Release(s, z)[q] = s[q] - One(z, q)
      /\ \A u \in Target : Spare(Release(s, z), targetOf, u) = Spare(s, targetOf, u) - One(z, u)
  BY <1>2, <1>3, <1>4, <1>6, ReleaseCounts
<1>9. \A q \in Provider : Release(s, z)[q] = refs[q] - One(y, q) - One(z, q)
  BY <1>4, <1>8
<1>10. ASSUME NEW u \in Target PROVE Spare(Release(s, z), targetOf, u) = Spare(refs, targetOf, u)
  <2>1. One(y, u) = 0 /\ One(z, u) = 0 /\ Spare(refs, targetOf, u) \in Nat
    <3>1. Spare(refs, targetOf, u) = Uses(u) /\ Uses(u) \in Nat
      BY <1>1, PointersType DEF Balance
    <3> QED BY <1>3, <3>1 DEF One
  <2> QED BY <1>4, <1>8, <2>1
<1> QED BY <1>2, <1>7, <1>8, <1>9, <1>10

(* A root that cannot be made leaves the cache empty. *)
LEMMA FailsRefs ==
  ASSUME CreationInv, NEW p \in Payload, AcquireFails(p)
  PROVE  RefsGoOn
<1> DEFINE t == TargetOfCall(p)
           y == cache[t]
           z == seen[p]
<1>1. CallTypes /\ RootsKnow /\ HostTypes /\ Balance
  BY DEF CreationInv
<1>2. /\ stage[p] = "make" /\ NeedsRoot(p, t) /\ refs' = WithoutOldRoot(p, t)
      /\ superseded' = (superseded \cup {z}) \ {None} /\ cache' = [cache EXCEPT ![t] = None]
      /\ seen' = [seen EXCEPT ![p] = None]
      /\ UNCHANGED <<property, retire, at, root, result, held, targetOf, disconnected>>
  BY DEF AcquireFails, callers
<1>3. /\ t \in Target /\ y \in Provider \cup {None} /\ z \in Provider \cup {None}
      /\ (y # None => y = z /\ refs[y] > 0) /\ (z # None => refs[z] > 0)
      /\ Sound(refs') /\ \A q \in Provider : refs'[q] = refs[q] - One(y, q) - One(z, q)
      /\ \A u \in Target : Spare(refs', targetOf, u) = Spare(refs, targetOf, u)
  BY <1>2, OldRootGoes
<1>4. Roots' = Roots
  BY <1>2 DEF Roots
<1>5. /\ cache \in [Target -> Provider \cup {None}] /\ seen \in [Payload -> Provider \cup {None}]
  BY <1>1 DEF CallTypes, HostTypes
<1>6. \A q \in Provider : refs[q] \in Nat /\ One(y, q) \in 0 .. 1 /\ One(z, q) \in 0 .. 1 /\ Pointers(q) \in Nat
  BY <1>1, OneType, PointersType DEF Balance
<1>7. y = cache[t] /\ z = seen[p]
  OBVIOUS
<1> HIDE DEF t, y, z
<1>8. ASSUME NEW q \in Provider PROVE Pointers(q)' = Pointers(q) - One(y, q) - One(z, q)
  <2>1. Sets(Payload, seen, seen', p, None) /\ Sets(Target, cache, cache', t, None)
    BY <1>2, <1>3, <1>5 DEF Sets
  <2>2. Count(Payload, seen', q) = Count(Payload, seen, q) - One(z, q) + One(None, q)
    BY <2>1, <1>7, SetCount, RegistryAssumption
  <2>3. Count(Target, cache', q) = Count(Target, cache, q) - One(y, q) + One(None, q)
    BY <2>1, <1>3, <1>7, SetCount, CreationAssumption
  <2>4. One(None, q) = 0 /\ One(y, q) \in 0 .. 1 /\ One(z, q) \in 0 .. 1
    BY NoneIsNobody, OneType
  <2>5. Pointers(q)' = Count(Target, cache', q) + Count(Window, Roots, q)
                       + Count(Payload, seen', q) + Count(Payload, root, q) + Count(Payload, result, q) + Count(Payload, held, q)
    BY <1>2, <1>4 DEF Pointers
  <2> QED BY <2>2, <2>3, <2>4, <2>5, CountsType DEF Pointers
<1>9. \A q \in Provider : refs'[q] - refs[q] = Pointers(q)' - Pointers(q)
  BY <1>3, <1>6, <1>8
<1>10. ASSUME NEW u \in Target PROVE Spare(refs', targetOf, u) - Spare(refs, targetOf, u) = Uses(u)' - Uses(u)
  <2>1. Uses(u)' = Uses(u) /\ Uses(u) \in Nat /\ Spare(refs, targetOf, u) = Uses(u)
    BY <1>1, <1>2, UsesKept, PointersType DEF Balance
  <2> QED BY <1>3, <2>1
<1>11. Balance'
  BY <1>2, <1>3, <1>9, <1>10, BalanceGoesOn
<1>12. \A q \in Provider : refs'[q] > 0 => refs[q] > 0
  BY <1>3, <1>6
<1>13. RootsKnow'
  <2>1. \A u \in Target : u # t => cache'[u] = cache[u]
    BY <1>2, <1>5
  <2>2. cache'[t] = None
    BY <1>2, <1>3, <1>5
  <2>3. ASSUME NEW q \in Provider, q \notin superseded' \cup disconnected', refs'[q] > 0
        PROVE  cache'[targetOf'[q]] = q \/ \E w \in Window : retire'[w].root = q
    <3>1. q # None /\ q # z /\ q \notin superseded \cup disconnected /\ refs[q] > 0 /\ targetOf[q] \in Target
      BY <1>1, <1>2, <1>12, <2>3, CreationAssumption DEF RootsKnow
    <3>2. cache[targetOf[q]] = q \/ \E w \in Window : retire[w].root = q
      BY <1>1, <3>1 DEF RootsKnow
    <3>3. cache[t] # q
      BY <1>3, <1>7, <3>1
    <3> QED BY <1>2, <2>1, <3>1, <3>2, <3>3
  <2>4. \A u \in Target : cache'[u] # None => targetOf'[cache'[u]] = u
    BY <1>1, <1>2, <2>1, <2>2 DEF RootsKnow
  <2>5. \A q \in Provider : refs'[q] > 0 => targetOf'[q] \in Target
    BY <1>1, <1>2, <1>12 DEF RootsKnow
  <2> QED BY <2>3, <2>4, <2>5 DEF RootsKnow
<1> QED BY <1>11, <1>13 DEF RefsGoOn

(* A new root takes the place of the old one and holds the target. *)
LEMMA NewRefs ==
  ASSUME CreationInv, NEW p \in Payload, NEW new \in Provider, AcquireNew(p, new)
  PROVE  RefsGoOn
<1> DEFINE t == TargetOfCall(p)
           y == cache[t]
           z == seen[p]
           s == AddRef(WithoutOldRoot(p, t), t)
<1>1. CallTypes /\ RootsKnow /\ HostTypes /\ Balance /\ CallKnows(p)
  BY DEF CreationInv, CallsKnow
<1>2. /\ stage[p] = "make" /\ NeedsRoot(p, t) /\ refs[new] = 0 /\ refs' = [s EXCEPT ![new] = 2]
      /\ superseded' = (superseded \cup {z}) \ {new, None} /\ disconnected' = disconnected \ {new}
      /\ targetOf' = [targetOf EXCEPT ![new] = t] /\ cache' = [cache EXCEPT ![t] = new]
      /\ seen' = [seen EXCEPT ![p] = None] /\ root' = [root EXCEPT ![p] = new]
      /\ UNCHANGED <<property, retire, at, result, held>>
  BY DEF AcquireNew, callers
<1>3. /\ t \in Target /\ y \in Provider \cup {None} /\ z \in Provider \cup {None}
      /\ (y # None => y = z /\ refs[y] > 0) /\ (z # None => refs[z] > 0)
      /\ Sound(WithoutOldRoot(p, t))
      /\ \A q \in Provider : WithoutOldRoot(p, t)[q] = refs[q] - One(y, q) - One(z, q)
      /\ \A u \in Target : Spare(WithoutOldRoot(p, t), targetOf, u) = Spare(refs, targetOf, u)
  BY <1>2, OldRootGoes
<1>4. t \notin Provider
  BY <1>3, CreationAssumption
<1>5. /\ Sound(s) /\ \A q \in Provider : s[q] = refs[q] - One(y, q) - One(z, q) + One(t, q)
      /\ \A u \in Target : Spare(s, targetOf, u) = Spare(refs, targetOf, u) + One(t, u)
  BY <1>3, <1>4, AddRefCounts
<1>6. Roots' = Roots
  BY <1>2 DEF Roots
<1>7. /\ cache \in [Target -> Provider \cup {None}] /\ seen \in [Payload -> Provider \cup {None}]
      /\ root \in [Payload -> Provider \cup {None}] /\ targetOf \in [Provider -> Target \cup {None}]
  BY <1>1 DEF CallTypes, HostTypes
<1>8. \A q \in Provider : /\ refs[q] \in Nat /\ One(y, q) \in 0 .. 1 /\ One(z, q) \in 0 .. 1 /\ One(t, q) = 0
                           /\ Pointers(q) \in Nat /\ refs[q] = Pointers(q)
  BY <1>1, <1>4, OneType, PointersType DEF Balance, One
<1>9. y = cache[t] /\ z = seen[p]
  OBVIOUS
<1>10. root[p] = None
  BY <1>1, <1>2 DEF CallKnows
<1> HIDE DEF t, y, z, s
<1>11. new # y /\ new # z /\ new # t /\ s[new] = 0
  <2>1. new # y /\ new # z /\ new # t
    BY <1>2, <1>3, <1>4, CreationAssumption
  <2>2. One(y, new) = 0 /\ One(z, new) = 0
    BY <2>1 DEF One
  <2> QED BY <1>2, <1>5, <1>8, <2>1, <2>2
<1>12. /\ s \in [Target \cup Provider -> Nat] /\ refs' \in [Target \cup Provider -> Nat] /\ refs'[new] = 2
       /\ \A x \in Target \cup Provider : x # new => refs'[x] = s[x]
  BY <1>2, <1>5 DEF Sound
<1>13. ASSUME NEW q \in Provider PROVE Pointers(q)' = Pointers(q) - One(y, q) - One(z, q) + One(new, q) + One(new, q)
  <2>1. Sets(Payload, seen, seen', p, None) /\ Sets(Target, cache, cache', t, new) /\ Sets(Payload, root, root', p, new)
    BY <1>2, <1>3, <1>7 DEF Sets
  <2>2. Count(Payload, seen', q) = Count(Payload, seen, q) - One(z, q) + One(None, q)
    BY <2>1, <1>9, SetCount, RegistryAssumption
  <2>3. Count(Target, cache', q) = Count(Target, cache, q) - One(y, q) + One(new, q)
    BY <2>1, <1>3, <1>9, SetCount, CreationAssumption
  <2>4. Count(Payload, root', q) = Count(Payload, root, q) - One(None, q) + One(new, q)
    BY <2>1, <1>10, SetCount, RegistryAssumption
  <2>5. One(None, q) = 0 /\ One(y, q) \in 0 .. 1 /\ One(z, q) \in 0 .. 1 /\ One(new, q) \in 0 .. 1
    BY NoneIsNobody, OneType
  <2>6. Pointers(q)' = Count(Target, cache', q) + Count(Window, Roots, q)
                       + Count(Payload, seen', q) + Count(Payload, root', q) + Count(Payload, result, q) + Count(Payload, held, q)
    BY <1>2, <1>6 DEF Pointers
  <2> QED BY <2>2, <2>3, <2>4, <2>5, <2>6, CountsType DEF Pointers
<1>14. ASSUME NEW q \in Provider PROVE refs'[q] = Pointers(q)'
  <2>1. CASE q = new
    <3>1. One(new, q) = 1 /\ One(y, q) = 0 /\ One(z, q) = 0 /\ Pointers(q) = 0
      BY <1>2, <1>8, <1>11, <2>1 DEF One
    <3> QED BY <1>12, <1>13, <2>1, <3>1
  <2>2. CASE q # new
    <3>1. One(new, q) = 0
      BY <2>2 DEF One
    <3> QED BY <1>5, <1>8, <1>12, <1>13, <2>2, <3>1
  <2> QED BY <2>1, <2>2
<1>15. ASSUME NEW u \in Target PROVE Spare(refs', targetOf', u) = Uses(u)'
  <2> DEFINE f == Owned(s, targetOf)
             g == Owned(refs', targetOf')
  <2>1. g[new] = t /\ f[new] = None /\ \A q \in Provider : q # new => g[q] = f[q]
    BY <1>2, <1>3, <1>7, <1>11, <1>12 DEF Owned
  <2>2. Owners(refs', targetOf', u) = Count(Provider, g, u) /\ Owners(s, targetOf, u) = Count(Provider, f, u)
    BY DEF Owners
  <2> HIDE DEF f, g
  <2>3. Sets(Provider, f, g, new, t)
    BY <2>1 DEF Sets
  <2>4. Count(Provider, g, u) = Count(Provider, f, u) - One(None, u) + One(t, u)
    BY <2>1, <2>3, SetCount, CreationAssumption
  <2>5. One(None, u) = 0 /\ One(t, u) \in 0 .. 1
    BY NoneIsNobody, OneType
  <2>6. refs'[u] = s[u] /\ s[u] \in Nat /\ Count(Provider, f, u) \in Nat
    <3>1. u # new
      BY CreationAssumption
    <3> QED BY <1>12, <3>1, CountType, CreationAssumption
  <2>7. Uses(u)' = Uses(u) /\ Spare(refs, targetOf, u) = Uses(u) /\ Uses(u) \in Nat
    BY <1>1, <1>2, UsesKept, PointersType DEF Balance
  <2>8. s[u] - Count(Provider, f, u) = Uses(u) + One(t, u)
    BY <1>5, <2>2, <2>7 DEF Spare
  <2>9. Spare(refs', targetOf', u) = s[u] - (Count(Provider, f, u) + One(t, u))
    BY <2>2, <2>4, <2>5, <2>6 DEF Spare
  <2> QED BY <2>5, <2>6, <2>7, <2>8, <2>9
<1>16. Balance'
  BY <1>12, <1>14, <1>15 DEF Balance
<1>17. \A q \in Provider : q # new /\ refs'[q] > 0 => refs[q] > 0
  BY <1>5, <1>8, <1>12
<1>18. RootsKnow'
  <2>1. cache'[t] = new /\ \A u \in Target : u # t => cache'[u] = cache[u]
    BY <1>2, <1>3, <1>7
  <2>2. targetOf'[new] = t /\ \A q \in Provider : q # new => targetOf'[q] = targetOf[q]
    BY <1>2, <1>7
  <2>3. ASSUME NEW q \in Provider, q \notin superseded' \cup disconnected', refs'[q] > 0
        PROVE  cache'[targetOf'[q]] = q \/ \E w \in Window : retire'[w].root = q
    <3>1. CASE q = new
      BY <2>1, <2>2, <3>1
    <3>2. CASE q # new
      <4>1. q # None /\ q # z /\ q \notin superseded \cup disconnected /\ refs[q] > 0 /\ targetOf[q] \in Target
        BY <1>1, <1>2, <1>17, <2>3, <3>2, CreationAssumption DEF RootsKnow
      <4>2. cache[targetOf[q]] = q \/ \E w \in Window : retire[w].root = q
        BY <1>1, <4>1 DEF RootsKnow
      <4>3. cache[t] # q
        BY <1>3, <1>9, <4>1
      <4> QED BY <1>2, <2>1, <2>2, <3>2, <4>1, <4>2, <4>3
    <3> QED BY <3>1, <3>2
  <2>4. ASSUME NEW u \in Target, cache'[u] # None PROVE targetOf'[cache'[u]] = u
    <3>1. CASE u = t
      BY <2>1, <2>2, <3>1
    <3>2. CASE u # t
      <4>1. cache'[u] = cache[u] /\ cache[u] \in Provider /\ refs[cache[u]] > 0 /\ targetOf[cache[u]] = u
        BY <1>1, <2>1, <2>4, <3>2, PointedLive DEF RootsKnow
      <4> QED BY <1>2, <2>2, <4>1
    <3> QED BY <3>1, <3>2
  <2>5. ASSUME NEW q \in Provider, refs'[q] > 0 PROVE targetOf'[q] \in Target
    BY <1>1, <1>3, <1>17, <2>2, <2>5 DEF RootsKnow
  <2> QED BY <2>3, <2>4, <2>5 DEF RootsKnow
<1> QED BY <1>16, <1>18 DEF RefsGoOn

(* The result goes with the payload or with its caller. *)
LEMMA ResultGoes ==
  ASSUME CreationInv, NEW p \in Payload, refs' = Release(refs, result[p]), result' = [result EXCEPT ![p] = None],
         UNCHANGED <<property, cache, retire, at, seen, root, held, targetOf, superseded, disconnected>>
  PROVE  RefsGoOn
<1> DEFINE x == result[p]
<1>1. CallTypes /\ RootsKnow
  BY DEF CreationInv
<1>2. x \in Provider \cup {None} /\ result \in [Payload -> Provider \cup {None}] /\ (x # None => refs[x] > 0)
  BY <1>1, PointedLive DEF CallTypes
<1>3. Roots' = Roots
  BY DEF Roots
<1>4. ASSUME NEW q \in Provider PROVE Pointers(q)' = Pointers(q) - One(x, q)
  <2>1. Sets(Payload, result, result', p, None)
    BY <1>2 DEF Sets
  <2>2. Count(Payload, result', q) = Count(Payload, result, q) - One(x, q) + One(None, q)
    BY <2>1, SetCount, RegistryAssumption
  <2>3. One(None, q) = 0 /\ One(x, q) \in 0 .. 1
    BY NoneIsNobody, OneType
  <2>4. Pointers(q)' = Count(Target, cache, q) + Count(Window, Roots, q)
                       + Count(Payload, seen, q) + Count(Payload, root, q) + Count(Payload, result', q) + Count(Payload, held, q)
    BY <1>3 DEF Pointers
  <2> HIDE DEF x
  <2> QED BY <2>2, <2>3, <2>4, CountsType DEF Pointers
<1>5. Balance' /\ \A q \in Provider : refs'[q] > 0 => refs[q] > 0
  BY <1>2, <1>4, ReleasesProvider
<1>6. RootsKnow'
  BY <1>1, <1>3, <1>5, RootsKept
<1> QED BY <1>5, <1>6 DEF RefsGoOn

(* A handler returns. *)
LEMMA ReturnsRefs ==
  ASSUME CreationInv, NEW w \in Window, NEW p \in Payload, HandlerReturns(w, p)
  PROVE  RefsGoOn
<1>1. UNCHANGED <<property, cache, retire, at, seen, root, held, targetOf, superseded, disconnected>>
  BY DEF HandlerReturns, targets, providers, acquiring
<1>2. CASE p \in returned
  BY <1>1, <1>2, ResultGoes DEF HandlerReturns
<1>3. CASE p \notin returned
  <2>1. UNCHANGED <<refs, result>>
    BY <1>3 DEF HandlerReturns
  <2>2. Roots' = Roots
    BY <1>1 DEF Roots
  <2> QED BY <1>1, <2>1, <2>2, RefsKept
<1> QED BY <1>2, <1>3

(* A caller returns with the provider, without one, or leaves it to the payload. *)
LEMMA CallerRefs ==
  ASSUME CreationInv, NEW p \in Payload, CallerReturns(p)
  PROVE  RefsGoOn
<1>1. CallTypes /\ RootsKnow /\ Balance /\ CallKnows(p)
  BY DEF CreationInv, CallsKnow
<1>2. /\ sender[p] \in {"true", "false"} /\ p \notin returned
      /\ UNCHANGED <<property, cache, retire, at, seen, root, targetOf, superseded, disconnected>>
  BY DEF CallerReturns, targets, providers, acquiring
<1>3. Roots' = Roots
  BY <1>2 DEF Roots
<1>4. CASE sender[p] = "false" /\ place[p] = "gone"
  <2>1. held' = held /\ refs' = Release(refs, result[p]) /\ result' = [result EXCEPT ![p] = None]
    BY <1>4 DEF CallerReturns
  <2> QED BY <1>2, <2>1, ResultGoes
<1>5. CASE sender[p] = "false" /\ place[p] # "gone"
  <2>1. UNCHANGED <<held, refs, result>>
    BY <1>5 DEF CallerReturns
  <2> QED BY <1>2, <1>3, <2>1, RefsKept
<1>6. CASE sender[p] = "true"
  <2> DEFINE x == result[p]
  <2>1. held' = [held EXCEPT ![p] = x] /\ result' = [result EXCEPT ![p] = None] /\ refs' = refs
    BY <1>6 DEF CallerReturns
  <2>2. held[p] = None
    BY <1>1, <1>2 DEF CallKnows
  <2>3. held \in [Payload -> Provider \cup {None}] /\ result \in [Payload -> Provider \cup {None}]
    BY <1>1 DEF CallTypes
  <2>4. ASSUME NEW q \in Provider PROVE Pointers(q)' = Pointers(q)
    <3>1. Sets(Payload, held, held', p, x) /\ Sets(Payload, result, result', p, None)
      BY <2>1, <2>3 DEF Sets
    <3>2. Count(Payload, result', q) = Count(Payload, result, q) - One(x, q) + One(None, q)
      BY <3>1, SetCount, RegistryAssumption
    <3>3. Count(Payload, held', q) = Count(Payload, held, q) - One(None, q) + One(x, q)
      BY <3>1, <2>2, SetCount, RegistryAssumption
    <3>4. One(None, q) = 0 /\ One(x, q) \in 0 .. 1
      BY NoneIsNobody, OneType
    <3>5. Pointers(q)' = Count(Target, cache, q) + Count(Window, Roots, q)
                       + Count(Payload, seen, q) + Count(Payload, root, q) + Count(Payload, result', q) + Count(Payload, held', q)
      BY <1>2, <1>3 DEF Pointers
    <3> HIDE DEF x
    <3> QED BY <3>2, <3>3, <3>4, <3>5, CountsType DEF Pointers
  <2>5. \A t \in Target : Uses(t)' = Uses(t) /\ Spare(refs, targetOf, t)' = Spare(refs, targetOf, t)
    BY <1>2, <2>1, UsesKept
  <2>6. Balance'
    BY <1>1, <2>1, <2>4, <2>5 DEF Balance
  <2>7. RootsKnow'
    BY <1>1, <1>2, <1>3, <2>1, RootsKept
  <2> QED BY <2>6, <2>7 DEF RefsGoOn
<1> QED BY <1>2, <1>4, <1>5, <1>6

(* A target is registered for a window, which counts for it. *)
LEMMA RegisterRefs ==
  ASSUME CreationInv, NEW w \in Window, NEW t \in Target, RegisterWindowHostAccessibilityTarget(w, t)
  PROVE  RefsGoOn
<1>1. HostTypes /\ RootsKnow /\ Balance
  BY DEF CreationInv
<1>2. /\ property[w] = None /\ refs[t] = 0 /\ refs' = [refs EXCEPT ![t] = 1]
      /\ property' = [property EXCEPT ![w] = t] /\ cache' = [cache EXCEPT ![t] = None]
      /\ UNCHANGED <<retire, at, seen, root, result, held, targetOf, superseded, disconnected>>
  BY DEF RegisterWindowHostAccessibilityTarget, providers, acquiring, callers
<1>3. t \notin Provider /\ t # None
  BY CreationAssumption
<1>4. refs' = AddRef(refs, t)
  BY <1>1, <1>2, <1>3 DEF AddRef, Balance
<1>5. cache' = cache /\ Roots' = Roots
  <2>1. cache[t] = None
    BY <1>2, FreeTarget
  <2> QED BY <1>1, <1>2, <2>1 DEF HostTypes, Roots
<1>6. \A q \in Provider : Pointers(q)' = Pointers(q) + One(t, q)
  <2>1. \A q \in Provider : Pointers(q)' = Pointers(q) /\ Pointers(q) \in Nat
    BY <1>2, <1>5, PointersKept, PointersType
  <2>2. \A q \in Provider : One(t, q) = 0
    BY <1>3 DEF One
  <2> QED BY <2>1, <2>2
<1>7. ASSUME NEW u \in Target PROVE Uses(u)' = Uses(u) + One(t, u)
  <2>1. Sets(Window, property, property', w, t)
    BY <1>1, <1>2 DEF Sets, HostTypes
  <2>2. Count(Window, property', u) = Count(Window, property, u) - One(None, u) + One(t, u)
    BY <2>1, <1>2, SetCount, RegistryAssumption
  <2>3. One(None, u) = 0 /\ One(t, u) \in 0 .. 1
    BY NoneIsNobody, OneType
  <2>4. Uses(u)' = Count(Window, property', u) + Count(Payload, at, u)
    BY <1>2 DEF Uses
  <2> QED BY <2>2, <2>3, <2>4, CountsType DEF Uses
<1>8. Balance' /\ \A q \in Provider : refs'[q] > 0 => refs[q] > 0
  BY <1>2, <1>3, <1>4, <1>6, <1>7, TakesOne
<1>9. RootsKnow'
  BY <1>1, <1>2, <1>5, <1>8, RootsKept
<1> QED BY <1>8, <1>9 DEF RefsGoOn

(* The window forgets its target. *)
LEMMA ForgetRefs ==
  ASSUME CreationInv, NEW w \in Window, ForgetTarget(w)
  PROVE  RefsGoOn
<1> DEFINE x == property[w]
<1>1. HostTypes /\ RootsKnow /\ WindowKnows(w)
  BY DEF CreationInv, WindowsKnow
<1>2. /\ retire[w].step = "uncached" /\ property' = [property EXCEPT ![w] = None]
      /\ refs' = Release(refs, retire[w].target)
      /\ retire' = [retire EXCEPT ![w] = [@ EXCEPT !.step = "forgotten", !.target = None]]
      /\ UNCHANGED <<cache, at, seen, root, result, held, targetOf, superseded, disconnected>>
  BY DEF ForgetTarget, providers, acquiring, callers
<1>3. retire[w].target = x /\ x \in Target /\ refs[x] > Owners(refs, targetOf, x)
  <2>1. retire[w].target = x /\ x # None
    BY <1>1, <1>2 DEF WindowKnows
  <2> QED BY <2>1, PointedLive
<1>4. refs[x] > 0
  BY <1>3, CountsType DEF CreationInv, Balance
<1>5. (\A v \in Window : retire'[v].root = retire[v].root) /\ Roots' = Roots
  <2>1. \A v \in Window : retire'[v].root = retire[v].root
    <3>1. ASSUME NEW v \in Window, v # w PROVE retire'[v].root = retire[v].root
      BY <1>1, <1>2, <3>1 DEF HostTypes
    <3>2. retire'[w] = [retire[w] EXCEPT !.step = "forgotten", !.target = None] /\ retire[w] \in Retire
      BY <1>1, <1>2 DEF HostTypes
    <3>3. retire'[w].root = retire[w].root
      BY <3>2 DEF Retire
    <3> QED BY <3>1, <3>3
  <2> QED BY <2>1 DEF Roots
<1>6. property \in [Window -> Target \cup {None}]
  BY <1>1 DEF HostTypes
<1> HIDE DEF x
<1>7. \A q \in Provider : Pointers(q)' = Pointers(q) - One(x, q)
  <2>1. \A q \in Provider : Pointers(q)' = Pointers(q) /\ Pointers(q) \in Nat
    BY <1>2, <1>5, PointersKept, PointersType
  <2>2. \A q \in Provider : One(x, q) = 0
    BY <1>3, CreationAssumption DEF One
  <2> QED BY <2>1, <2>2
<1>8. ASSUME NEW u \in Target PROVE Uses(u)' = Uses(u) - One(x, u)
  <2>1. Sets(Window, property, property', w, None)
    BY <1>2, <1>6 DEF Sets
  <2>2. Count(Window, property', u) = Count(Window, property, u) - One(x, u) + One(None, u)
    BY <2>1, SetCount, RegistryAssumption DEF x
  <2>3. One(None, u) = 0 /\ One(x, u) \in 0 .. 1
    BY NoneIsNobody, OneType
  <2>4. Uses(u)' = Count(Window, property', u) + Count(Payload, at, u)
    BY <1>2 DEF Uses
  <2> QED BY <2>2, <2>3, <2>4, CountsType DEF Uses
<1>9. Balance' /\ \A q \in Provider : refs'[q] > 0 => refs[q] > 0
  BY <1>2, <1>3, <1>4, <1>7, <1>8, ReleasesOne
<1>10. RootsKnow'
  BY <1>1, <1>2, <1>5, <1>9, RootsKept
<1> QED BY <1>9, <1>10 DEF RefsGoOn

(* The retirement takes the root out of the cache. *)
LEMMA DetachRootRefs ==
  ASSUME CreationInv, NEW w \in Window, DetachRoot(w)
  PROVE  RefsGoOn
<1> DEFINE t == retire[w].target
           x == cache[t]
<1>1. HostTypes /\ RootsKnow /\ Balance /\ WindowKnows(w)
  BY DEF CreationInv, WindowsKnow
<1>2. /\ retire[w].step = "hidden" /\ cache' = [cache EXCEPT ![t] = None]
      /\ retire' = [retire EXCEPT ![w] = [@ EXCEPT !.step = "uncached", !.root = x]]
      /\ UNCHANGED <<refs, property, at, seen, root, result, held, targetOf, superseded, disconnected>>
  BY DEF DetachRoot, providers, acquiring, callers
<1>3. t \in Target /\ retire[w].root = None
  BY <1>1, <1>2 DEF WindowKnows, HostTypes
<1>4. retire'[w].root = x /\ \A v \in Window : v # w => retire'[v].root = retire[v].root
  <2>1. ASSUME NEW v \in Window, v # w PROVE retire'[v].root = retire[v].root
    BY <1>1, <1>2, <2>1 DEF HostTypes
  <2>2. retire'[w] = [retire[w] EXCEPT !.step = "uncached", !.root = x] /\ retire[w] \in Retire
    BY <1>1, <1>2 DEF HostTypes
  <2>3. retire'[w].root = x
    BY <2>2 DEF Retire
  <2> QED BY <2>1, <2>3
<1>5. Roots[w] = None /\ cache \in [Target -> Provider \cup {None}] /\ x = cache[t]
  BY <1>1, <1>3 DEF Roots, HostTypes
<1> HIDE DEF t, x
<1>6. ASSUME NEW q \in Provider PROVE Pointers(q)' = Pointers(q)
  <2>1. Sets(Target, cache, cache', t, None) /\ Sets(Window, Roots, Roots', w, x)
    BY <1>2, <1>3, <1>4, <1>5 DEF Sets, Roots
  <2>2. Count(Target, cache', q) = Count(Target, cache, q) - One(x, q) + One(None, q)
    BY <2>1, <1>3, <1>5, SetCount, CreationAssumption
  <2>3. Count(Window, Roots', q) = Count(Window, Roots, q) - One(None, q) + One(x, q)
    BY <2>1, <1>5, SetCount, RegistryAssumption
  <2>4. One(None, q) = 0 /\ One(x, q) \in 0 .. 1
    BY NoneIsNobody, OneType
  <2>5. Pointers(q)' = Count(Target, cache', q) + Count(Window, Roots', q)
                       + Count(Payload, seen, q) + Count(Payload, root, q) + Count(Payload, result, q) + Count(Payload, held, q)
    BY <1>2 DEF Pointers
  <2> QED BY <2>2, <2>3, <2>4, <2>5, CountsType DEF Pointers
<1>7. \A u \in Target : Uses(u)' = Uses(u) /\ Spare(refs, targetOf, u)' = Spare(refs, targetOf, u)
  BY <1>2, UsesKept
<1>8. Balance'
  BY <1>1, <1>2, <1>6, <1>7 DEF Balance
<1>9. RootsKnow'
  <2>1. cache'[t] = None /\ \A u \in Target : u # t => cache'[u] = cache[u]
    BY <1>2, <1>3, <1>5
  <2>2. ASSUME NEW q \in Provider, q \notin superseded' \cup disconnected', refs'[q] > 0
        PROVE  cache'[targetOf'[q]] = q \/ \E v \in Window : retire'[v].root = q
    <3>1. q # None /\ refs[q] > 0 /\ q \notin superseded \cup disconnected
      BY <1>2, <2>2, CreationAssumption
    <3>2. targetOf[q] \in Target /\ (cache[targetOf[q]] = q \/ \E v \in Window : retire[v].root = q)
      BY <1>1, <3>1 DEF RootsKnow
    <3>3. \A v \in Window : retire[v].root = q => retire'[v].root = q
      BY <1>3, <1>4, <3>1
    <3>4. cache[targetOf[q]] = q => cache'[targetOf[q]] = q \/ retire'[w].root = q
      BY <1>4, <1>5, <2>1, <3>2
    <3> QED BY <1>2, <3>2, <3>3, <3>4
  <2> QED BY <1>1, <1>2, <2>1, <2>2 DEF RootsKnow
<1> QED BY <1>8, <1>9 DEF RefsGoOn

(* The retired root is disconnected and released. *)
LEMMA DisconnectRefs ==
  ASSUME CreationInv, NEW w \in Window, DisconnectRoot(w)
  PROVE  RefsGoOn
<1> DEFINE x == retire[w].root
<1>1. HostTypes /\ RootsKnow
  BY DEF CreationInv
<1>2. /\ disconnected' = disconnected \cup ({x} \ {None}) /\ refs' = Release(refs, x)
      /\ retire' = [retire EXCEPT ![w] = NotRetiring]
      /\ UNCHANGED <<property, cache, at, seen, root, result, held, targetOf, superseded>>
  BY DEF DisconnectRoot, targets, acquiring, callers
<1>3. x \in Provider \cup {None} /\ (x # None => refs[x] > 0)
  BY <1>1, PointedLive DEF HostTypes, Retire
<1>4. retire'[w].root = None /\ \A v \in Window : v # w => retire'[v].root = retire[v].root
  BY <1>1, <1>2 DEF HostTypes, NotRetiring
<1>5. Roots[w] = x
  BY DEF Roots
<1> HIDE DEF x
<1>6. ASSUME NEW q \in Provider PROVE Pointers(q)' = Pointers(q) - One(x, q)
  <2>1. Sets(Window, Roots, Roots', w, None)
    BY <1>4 DEF Sets, Roots
  <2>2. Count(Window, Roots', q) = Count(Window, Roots, q) - One(x, q) + One(None, q)
    BY <2>1, <1>5, SetCount, RegistryAssumption
  <2>3. One(None, q) = 0 /\ One(x, q) \in 0 .. 1
    BY NoneIsNobody, OneType
  <2>4. Pointers(q)' = Count(Target, cache, q) + Count(Window, Roots', q)
                       + Count(Payload, seen, q) + Count(Payload, root, q) + Count(Payload, result, q) + Count(Payload, held, q)
    BY <1>2 DEF Pointers
  <2> QED BY <2>2, <2>3, <2>4, CountsType DEF Pointers
<1>7. Balance' /\ \A q \in Provider : refs'[q] > 0 => refs[q] > 0
  BY <1>2, <1>3, <1>6, ReleasesProvider
<1>8. RootsKnow'
  <2>1. ASSUME NEW q \in Provider, q \notin superseded' \cup disconnected', refs'[q] > 0
        PROVE  cache'[targetOf'[q]] = q \/ \E v \in Window : retire'[v].root = q
    <3>1. q # x /\ refs[q] > 0 /\ q \notin superseded \cup disconnected
      BY <1>2, <1>7, <2>1, CreationAssumption
    <3>2. cache[targetOf[q]] = q \/ \E v \in Window : retire[v].root = q
      BY <1>1, <3>1 DEF RootsKnow
    <3>3. \A v \in Window : retire[v].root = q => retire'[v].root = q
      BY <1>4, <3>1 DEF x
    <3> QED BY <1>2, <3>2, <3>3
  <2> QED BY <1>1, <1>2, <1>7, <2>1 DEF RootsKnow
<1> QED BY <1>7, <1>8 DEF RefsGoOn

(* The other steps move no reference. *)
LEMMA OthersRefs ==
  ASSUME CreationInv,
         \/ \E w \in Window : AttachHost(w) \/ DetachHost(w) \/ OpenHostWindow(w) \/ CloseHostWindow(w) \/ ClearHost(w)
         \/ \E w \in Window : \E m \in inbox : HandlerTakes(w, m)
         \/ \E w \in Window, p \in Payload : FlushReturns(w, p)
         \/ \E p \in Payload : CallerSends(p) \/ ClientAsks(p)
         \/ UNCHANGED cvars
  PROVE  RefsGoOn
<1>1. HostTypes
  BY DEF CreationInv
<1>2. UNCHANGED <<refs, targetOf, superseded, disconnected, property, cache, seen, root, result, held, at>>
  BY DEF AttachHost, DetachHost, OpenHostWindow, CloseHostWindow, ClearHost, HandlerTakes, FlushReturns, CallerSends,
         ClientAsks, cvars, targets, providers, acquiring, callers
<1>3. \/ retire' = retire
      \/ \E w \in Window : \E r : retire' = [retire EXCEPT ![w] = r] /\ r.root = retire[w].root
  <2>1. ASSUME NEW w \in Window, ClearHost(w) PROVE \E r : retire' = [retire EXCEPT ![w] = r] /\ r.root = retire[w].root
    <3>1. retire' = [retire EXCEPT ![w] = [retire[w] EXCEPT !.step = "hidden"]]
      BY <2>1 DEF ClearHost
    <3>2. retire[w] \in Retire
      BY <1>1 DEF HostTypes
    <3>3. [retire[w] EXCEPT !.step = "hidden"].root = retire[w].root
      BY <3>2 DEF Retire
    <3> QED BY <3>1, <3>3
  <2>2. ASSUME NEW w \in Window, DetachHost(w)
        PROVE  retire' = retire \/ \E r : retire' = [retire EXCEPT ![w] = r] /\ r.root = retire[w].root
    <3>1. CASE property[w] = None
      BY <1>1, <2>2, <3>1 DEF DetachHost, HostTypes
    <3>2. CASE property[w] # None
      <4> DEFINE r == [retire[w] EXCEPT !.step = "found", !.target = property[w]]
      <4>1. retire' = [retire EXCEPT ![w] = r]
        BY <2>2, <3>2 DEF DetachHost
      <4>2. retire[w] \in Retire
        BY <1>1 DEF HostTypes
      <4>3. r.root = retire[w].root
        BY <4>2 DEF Retire
      <4> QED BY <4>1, <4>3
    <3> QED BY <3>1, <3>2
  <2>3. \/ retire' = retire
        \/ \E w \in Window : ClearHost(w) \/ DetachHost(w)
    BY DEF AttachHost, OpenHostWindow, CloseHostWindow, HandlerTakes, FlushReturns, CallerSends, ClientAsks, cvars
  <2> QED BY <2>1, <2>2, <2>3
<1>4. \A v \in Window : retire'[v].root = retire[v].root
  BY <1>1, <1>3 DEF HostTypes
<1>5. Roots' = Roots
  BY <1>4 DEF Roots
<1> QED BY <1>2, <1>4, <1>5, RefsKept

-----------------------------------------------------------------------------
(* The theorems.                                                           *)

(* The invariant holds in the initial states. *)
LEMMA CreationInvInit == CreationInit => CreationInv
<1> SUFFICES ASSUME CreationInit PROVE CreationInv
  OBVIOUS
<1> USE CreationAssumption, RegistryAssumption
<1>1. Ownership
  BY OwnershipInit DEF CreationInit
<1>2. HandlerTypes /\ CallTypes /\ HostTypes
  BY DEF CreationInit, HandlerTypes, CallTypes, HostTypes, Retire, NotRetiring, Stage
<1>3. HandlersKnow
  BY DEF CreationInit, Init, HandlersKnow
<1>4. CallsKnow
  BY DEF CreationInit, Init, CallsKnow, CallKnows
<1>5. WindowsKnow
  BY DEF CreationInit, WindowsKnow, WindowKnows, NotRetiring
<1>6. HostsKnow
  BY DEF CreationInit, HostsKnow
<1>7. RootsKnow
  BY DEF CreationInit, RootsKnow
<1>8. Balance
  <2>1. refs \in [Target \cup Provider -> Nat] /\ \A x \in Target \cup Provider : refs[x] = 0
    BY DEF CreationInit
  <2>2. ASSUME NEW q \in Provider PROVE Pointers(q) = 0
    <3>1. /\ \A t \in Target : cache[t] # q
          /\ \A w \in Window : Roots[w] # q
          /\ \A p \in Payload : seen[p] # q /\ root[p] # q /\ result[p] # q /\ held[p] # q
      BY DEF CreationInit, Roots, NotRetiring
    <3>2. /\ Count(Target, cache, q) = 0 /\ Count(Window, Roots, q) = 0 /\ Count(Payload, seen, q) = 0
          /\ Count(Payload, root, q) = 0 /\ Count(Payload, result, q) = 0 /\ Count(Payload, held, q) = 0
      BY <3>1, CountZero
    <3> QED BY <3>2 DEF Pointers
  <2>3. ASSUME NEW t \in Target PROVE Spare(refs, targetOf, t) = Uses(t)
    <3>1. /\ \A w \in Window : property[w] # t
          /\ \A p \in Payload : at[p] # t
          /\ \A q \in Provider : Owned(refs, targetOf)[q] # t
      BY <2>1 DEF CreationInit, Owned
    <3>2. Count(Window, property, t) = 0 /\ Count(Payload, at, t) = 0 /\ Owners(refs, targetOf, t) = 0
      BY <3>1, CountZero DEF Owners
    <3> QED BY <2>1, <3>2 DEF Spare, Uses
  <2> QED BY <2>1, <2>2, <2>3 DEF Balance
<1> QED BY <1>1, <1>2, <1>3, <1>4, <1>5, <1>6, <1>7, <1>8 DEF CreationInv

(* Each step keeps the invariant. *)
LEMMA CreationInvStep == CreationInv /\ [CreationNext]_cvars => CreationInv'
<1> SUFFICES ASSUME CreationInv, [CreationNext]_cvars PROVE CreationInv'
  OBVIOUS
<1>1. /\ Ownership /\ HandlerTypes /\ CallTypes /\ HostTypes
      /\ HandlersKnow /\ CallsKnow /\ WindowsKnow /\ HostsKnow /\ RootsKnow /\ Balance
  BY DEF CreationInv
<1>2. Ownership'
  BY <1>1, OwnershipKept DEF HandlerTypes
<1>3. ASSUME UNCHANGED vars PROVE Steady
  BY <1>3, UnchangedSteady DEF vars, registry, senders
<1>4. CallsGoOn
  <2>1. ASSUME NEW w \in Window, AttachHost(w) \/ DetachHost(w) \/ OpenHostWindow(w) \/ CloseHostWindow(w)
        PROVE  CallsGoOn
    <3>1. UNCHANGED <<handling, stage, at, seen, root, result, held, returned>>
      BY <2>1 DEF AttachHost, DetachHost, OpenHostWindow, CloseHostWindow, acquiring, callers
    <3> QED BY <1>1, <2>1, <3>1, RegistrySteady, SteadyCalls DEF CallsGoOn
  <2>2. ASSUME NEW p \in Payload, CallerSends(p) PROVE CallsGoOn
    <3>1. UNCHANGED <<handling, stage, at, seen, root, result, held, returned>>
      BY <2>2 DEF CallerSends, acquiring, callers
    <3> QED BY <1>1, <2>2, <3>1, RegistrySteady, SteadyCalls DEF CallsGoOn
  <2>3. ASSUME UNCHANGED vars, UNCHANGED <<handling, stage, acquiring, callers>> PROVE CallsGoOn
    <3>1. UNCHANGED <<handling, stage, at, seen, root, result, held, returned>>
      BY <2>3 DEF acquiring, callers
    <3> QED BY <1>1, <1>3, <2>3, <3>1, SteadyCalls DEF CallsGoOn
  <2>4. ASSUME NEW w \in Window,
               \/ ClearHost(w) \/ DetachRoot(w) \/ ForgetTarget(w) \/ DisconnectRoot(w)
               \/ \E t \in Target : RegisterWindowHostAccessibilityTarget(w, t)
        PROVE  CallsGoOn
    <3>1. UNCHANGED vars /\ UNCHANGED <<handling, stage, acquiring, callers>>
      BY <2>4 DEF ClearHost, DetachRoot, ForgetTarget, DisconnectRoot, RegisterWindowHostAccessibilityTarget
    <3> QED BY <2>3, <3>1
  <2>5. UNCHANGED cvars => CallsGoOn
    BY <2>3 DEF cvars
  <2> QED
    BY <2>1, <2>2, <2>4, <2>5, TakesCalls, ReturnsCalls, HandlerCalls, AcquireCalls, ClientCalls DEF CreationNext
<1>5. HostsGoOn
  <2>1. ASSUME UNCHANGED <<targets, providers, retire>> PROVE HostsGoOn
    BY <1>1, <2>1, HostsKept
  <2>2. ASSUME NEW w \in Window, AttachHost(w) \/ OpenHostWindow(w) \/ CloseHostWindow(w) \/ \E m \in inbox : HandlerTakes(w, m)
        PROVE  UNCHANGED <<targets, providers, retire>>
    BY <2>2 DEF AttachHost, OpenHostWindow, CloseHostWindow, HandlerTakes
  <2>3. ASSUME NEW w \in Window, NEW p \in Payload,
               \/ AcquireWindowHostAccessibilityTarget(w, p) \/ FlushReturns(w, p)
               \/ HandlerDelivers(w, p) \/ HandlerReturns(w, p)
        PROVE  UNCHANGED <<targets, providers, retire>>
    BY <2>3 DEF AcquireWindowHostAccessibilityTarget, FlushReturns, HandlerDelivers, HandlerReturns
  <2>4. ASSUME NEW p \in Payload,
               \/ LookAtCache(p) \/ AcquireNothing(p) \/ AcquireCached(p) \/ CallerSends(p) \/ CallerReturns(p)
               \/ ClientAsks(p) \/ ClientReleasesRoot(p) \/ ClientReleasesProvider(p)
        PROVE  UNCHANGED <<targets, providers, retire>>
    BY <2>4 DEF LookAtCache, AcquireNothing, AcquireCached, CallerSends, CallerReturns, ClientAsks,
                ClientReleasesRoot, ClientReleasesProvider
  <2>5. UNCHANGED cvars => UNCHANGED <<targets, providers, retire>>
    BY DEF cvars
  <2> QED
    BY <2>1, <2>2, <2>3, <2>4, <2>5, RegisterHosts, RetireHosts, AcquireHosts DEF CreationNext
<1>6. RefsGoOn
  BY OthersRefs, RegisterRefs, ForgetRefs, DetachRootRefs, DisconnectRefs, AcquireTargetRefs, DeliversRefs, ReturnsRefs,
     LookRefs, NothingRefs, CachedRefs, FailsRefs, NewRefs, CallerRefs, ReleasesRootRefs, ReleasesProviderRefs DEF CreationNext
<1> QED BY <1>2, <1>4, <1>5, <1>6 DEF CallsGoOn, HostsGoOn, RefsGoOn, CreationInv

(* The invariant holds in every reachable state. *)
LEMMA CreationInvHolds == CreationSpec => []CreationInv
  BY CreationInvInit, CreationInvStep, PTL DEF CreationSpec

\* Every variable keeps its type, however many calls, windows and objects there are: no count runs
\* below zero (DxUi.Accessibility.cpp:6368-6418, 13713-13754, 15014-15046).
THEOREM CreationTypesHold == CreationSpec => []CreationTypeOK
<1>1. CreationInv => CreationTypeOK
  BY DEF CreationInv, Ownership, HandlerTypes, CallTypes, HostTypes, Balance, CreationTypeOK
<1> QED BY <1>1, CreationInvHolds, PTL

(* The balance of the invariant is RefsAreHeld. *)
LEMMA BalanceIsExact == CreationInv => RefsAreHeld
<1> SUFFICES ASSUME CreationInv PROVE RefsAreHeld
  OBVIOUS
<1>1. Balance
  BY DEF CreationInv
<1>2. ASSUME NEW q \in Provider
      PROVE  refs[q] = Cardinality({t \in Target : cache[t] = q}) + Cardinality({w \in Window : retire[w].root = q})
                 + Cardinality({p \in Payload : seen[p] = q}) + Cardinality({p \in Payload : root[p] = q})
                 + Cardinality({p \in Payload : result[p] = q}) + Cardinality({p \in Payload : held[p] = q})
  <2>1. {w \in Window : Roots[w] = q} = {w \in Window : retire[w].root = q}
    BY DEF Roots
  <2> QED BY <1>1, <2>1 DEF Balance, Pointers, Count
<1>3. ASSUME NEW t \in Target
      PROVE  refs[t] = Cardinality({w \in Window : property[w] = t}) + Cardinality({p \in Payload : at[p] = t})
                 + Cardinality({q \in Provider : refs[q] > 0 /\ targetOf[q] = t})
  <2>1. {q \in Provider : Owned(refs, targetOf)[q] = t} = {q \in Provider : refs[q] > 0 /\ targetOf[q] = t}
    BY CreationAssumption DEF Owned
  <2>2. refs[t] \in Nat /\ refs[t] - Owners(refs, targetOf, t) = Uses(t)
    BY <1>1 DEF Balance, Spare
  <2>3. Uses(t) \in Nat /\ Owners(refs, targetOf, t) \in Nat
    BY CountsType, PointersType
  <2>4. refs[t] = Uses(t) + Owners(refs, targetOf, t)
    BY <2>2, <2>3
  <2> QED BY <2>1, <2>4 DEF Uses, Owners, Count
<1> QED BY <1>2, <1>3 DEF RefsAreHeld

\* Every reference count of a target and of a provider is the number of its owners, whatever becomes of
\* a call that times out, a root that cannot be made and a host that goes meanwhile: none is used after
\* it was freed, none is leaked (DxUi.Accessibility.cpp:6368-6418, 13713-13754, 15014-15046).
THEOREM CountsAreExact == CreationSpec => []RefsAreHeld
  BY BalanceIsExact, CreationInvHolds, PTL

\* When the hosts have detached, the calls have ended and the clients have released what they got, no
\* target and no provider is left (DxUi.Accessibility.cpp:6393-6396, 15014-15046).
THEOREM NothingIsLeft == CreationSpec => []RestIsEmpty
<1>1. CreationInv => RestIsEmpty
  <2> SUFFICES ASSUME CreationInv,
                      \A w \in Window : property[w] = None /\ retire[w].step = "none" /\ handling[w] = <<>>,
                      \A p \in Payload : p \in returned /\ place[p] = "gone" /\ stage[p] = "idle" /\ held[p] = None
               PROVE  \A x \in Target \cup Provider : refs[x] = 0
    BY DEF RestIsEmpty
  <2> USE CreationAssumption
  <2>1. HostsKnow /\ Balance /\ \A w \in Window : WindowKnows(w)
    BY DEF CreationInv, WindowsKnow
  <2>2. \A p \in Payload : at[p] = None /\ seen[p] = None /\ root[p] = None /\ result[p] = None
    BY DEF CreationInv, CallsKnow, CallKnows
  <2>3. \A t \in Target : cache[t] = None
    BY <2>1 DEF HostsKnow
  <2>4. \A w \in Window : retire[w].root = None
    BY <2>1 DEF WindowKnows, NotRetiring
  <2>5. ASSUME NEW q \in Provider PROVE refs[q] = 0
    <3>1. /\ \A t \in Target : cache[t] # q
          /\ \A w \in Window : Roots[w] # q
          /\ \A p \in Payload : seen[p] # q /\ root[p] # q /\ result[p] # q /\ held[p] # q
      BY <2>2, <2>3, <2>4 DEF Roots
    <3>2. /\ Count(Target, cache, q) = 0 /\ Count(Window, Roots, q) = 0 /\ Count(Payload, seen, q) = 0
          /\ Count(Payload, root, q) = 0 /\ Count(Payload, result, q) = 0 /\ Count(Payload, held, q) = 0
      BY <3>1, CountZero
    <3> QED BY <2>1, <3>2 DEF Balance, Pointers
  <2>6. ASSUME NEW t \in Target PROVE refs[t] = 0
    <3>1. /\ \A w \in Window : property[w] # t
          /\ \A p \in Payload : at[p] # t
          /\ \A q \in Provider : Owned(refs, targetOf)[q] # t
      BY <2>2, <2>5 DEF Owned
    <3>2. Count(Window, property, t) = 0 /\ Count(Payload, at, t) = 0 /\ Owners(refs, targetOf, t) = 0
      BY <3>1, CountZero DEF Owners
    <3>3. refs[t] \in Nat /\ refs[t] - Owners(refs, targetOf, t) = Uses(t)
      BY <2>1 DEF Balance, Spare
    <3> QED BY <3>2, <3>3 DEF Uses
  <2> QED BY <2>5, <2>6
<1> QED BY <1>1, CreationInvHolds, PTL

\* A root that outlives its host was disconnected or had been replaced: UI Automation keeps none that is
\* neither for the next user of the HWND (DxUi.Accessibility.cpp:13747-13753).
THEOREM NoRootIsRetained == CreationSpec => []RetiredRootsAreDisconnected
<1>1. CreationInv => RetiredRootsAreDisconnected
  <2> SUFFICES ASSUME CreationInv, NEW q \in Provider \ (superseded \cup disconnected), refs[q] > 0
               PROVE  \E w \in Window : targetOf[q] = property[w] \/ q = retire[w].root
    BY DEF RetiredRootsAreDisconnected
  <2>1. targetOf[q] \in Target /\ (cache[targetOf[q]] = q \/ \E w \in Window : retire[w].root = q)
    BY DEF CreationInv, RootsKnow
  <2>2. cache[targetOf[q]] = q => \E w \in Window : property[w] = targetOf[q]
    BY <2>1, CreationAssumption DEF CreationInv, HostsKnow
  <2> QED BY <2>1, <2>2
<1> QED BY <1>1, CreationInvHolds, PTL

=============================================================================
