-------------------------- MODULE TextStoreProofs --------------------------
(***************************************************************************)
(* Proofs about TextStore, for callbacks that nest to any depth.           *)
(*                                                                         *)
(* Only the last of the calls in progress can be a lock, so a list of them *)
(* is a sequence of notifications (Seq(Notifying)), with or without a lock *)
(* at its end.  Every operation pushes a call on such a sequence, takes    *)
(* one off, or exchanges the last; the lemmas about the list say what this *)
(* does to the lock that runs (TopLock) and to the turns under way         *)
(* (Turning), and the operations are proved from those.                    *)
(***************************************************************************)
EXTENDS TextStore, SequenceTheorems, TLAPS

-----------------------------------------------------------------------------
(* The invariant.                                                          *)

Notifying == {n \in Notification : n.calls # <<>>}

\* Of the calls in progress only the last may be a lock.
Shape(s) == /\ s \in Seq(Lock \cup Notifying)
            /\ \A i \in 1 .. Len(s) - 1 : s[i] \in Notifying

\* The access of the lock that runs; a notification that has the rest of the message's turn to do.
TopLock(s) == IF s # <<>> /\ Last(s).op = "lock" THEN Last(s).access ELSE "none"
Turning(s) == \E i \in 1 .. Len(s) : s[i] \in Notifying /\ s[i].turn # "none"

\* The state's values, and that the lock which is held is the one that runs.  A store that is
\* disconnected has neither lock nor sink, so that what is still in progress comes to an end.
Typed ==
  /\ session \in {"active", "retired", "disconnected"}
  /\ session = "active" => document \in Document /\ observed # NoDocument
  /\ session # "active" => document = NoDocument /\ posted = FALSE
  /\ staged \in Document \cup {NoDocument} /\ observed \in Document \cup {NoDocument}
  /\ lock \in Access /\ pendingLock \in Access
  /\ pendingExternal \in BOOLEAN /\ pendingLayout \in BOOLEAN /\ selfEdit \in BOOLEAN
  /\ advised \in BOOLEAN /\ posted \in BOOLEAN /\ starved \in BOOLEAN
  /\ posted = TRUE => starved = FALSE
  /\ known \in 0 .. 1
  /\ session # "disconnected" => lock = TopLock(frames)
  /\ session = "disconnected" => lock = "none" /\ advised = FALSE

\* What is pending and is not left to the end of a lock is left to the message, or to the turn of one
\* that is under way.
Promised ==
  session = "active" /\ lock = "none" =>
    /\ pendingLock # "none" => posted \/ starved \/ Turning(frames)
    /\ pendingLayout => posted \/ starved
    /\ pendingExternal /\ advised => posted \/ starved

\* What the lock f knows at each of its stages: whether there is a staged edit, that one which was not
\* seen to change anything shows the text that was last observed, and that what is not pending is known.
LockKnows(f) ==
  /\ f.at \in {"start", "end"} => staged = NoDocument
  /\ f.at = "start" => selfEdit = FALSE
  /\ f.at = "granted" /\ staged = NoDocument => selfEdit = FALSE
  /\ staged # NoDocument => (f.wrote = TRUE /\ selfEdit = TRUE) \/ staged.text = observed.text
  /\ f.at = "apply" => staged # NoDocument /\ (pendingExternal = TRUE \/ document.text = staged.text)
  /\ f.at # "apply" /\ advised = TRUE /\ pendingExternal = FALSE => document.text = observed.text

\* TSF believes what the store observed, and what it has not observed is pending.
Truthful ==
  session = "active" =>
    /\ advised = TRUE => known = observed.text
    /\ IF lock = "none"
         THEN /\ staged = NoDocument
              /\ advised = TRUE /\ pendingExternal = FALSE => document.text = observed.text
         ELSE LockKnows(Running)

StoreInv == Typed /\ Shape(frames) /\ changes \in 0 .. MaxChanges /\ Promised

-----------------------------------------------------------------------------
(* The calls in progress.                                                  *)

LEMMA Kinds ==
  ASSUME NEW f
  PROVE  /\ f \in Lock => f.op = "lock" /\ f \notin Notifying /\ f.access \in {"read", "write"} /\ f.wrote \in BOOLEAN
         /\ f \in Notifying => /\ f.op = "notify" /\ f \notin Lock /\ f.same \in BOOLEAN /\ f.what \in Document
                               /\ f.calls \in Seq({"text", "selection", "layout"}) /\ f.calls # <<>>
                               /\ f.turn \in {"none", "lock", "layout"}
  BY DEF Lock, Notifying, Notification

\* The frames below the last one are notifications.
LEMMA TopFacts ==
  ASSUME NEW s, Shape(s), s # <<>>
  PROVE  /\ Front(s) \in Seq(Notifying) /\ Last(s) \in Lock \cup Notifying
         /\ Len(Front(s)) = Len(s) - 1
         /\ s = Append(Front(s), Last(s))
<1>1. s \in Seq(Lock \cup Notifying) /\ Len(s) \in Nat /\ Len(s) # 0
  BY EmptySeq, LenProperties DEF Shape
<1>2. Last(s) \in Lock \cup Notifying
  BY <1>1, ElementOfSeq DEF Last
<1>3. Front(s) = [i \in 1 .. Len(s) - 1 |-> s[i]]
  BY <1>1 DEF Front
<1>4. Front(s) \in Seq(Notifying) /\ Len(Front(s)) = Len(s) - 1
  <2>1. Len(s) - 1 \in Nat
    BY <1>1
  <2>2. \A i \in 1 .. Len(s) - 1 : s[i] \in Notifying
    BY DEF Shape
  <2>3. Front(s) \in [1 .. Len(s) - 1 -> Notifying]
    BY <1>3, <2>2
  <2> QED BY <2>1, <2>3, <1>3, IsASeq, LenProperties
<1>5. s = Append(Front(s), Last(s))
  <2> DEFINE t == Append(Front(s), Last(s))
  <2>1. Front(s) \in Seq(Lock \cup Notifying)
    BY <1>4, SeqMonotonic
  <2>2. t \in Seq(Lock \cup Notifying) /\ Len(t) = Len(s)
    BY <2>1, <1>1, <1>2, <1>4, AppendProperties
  <2>3. \A i \in 1 .. Len(s) : t[i] = s[i]
    <3> TAKE i \in 1 .. Len(s)
    <3>1. CASE i = Len(s)
      BY <3>1, <1>1, <1>2, <1>4, <2>1, AppendProperties DEF Last
    <3>2. CASE i # Len(s)
      <4>1. i \in 1 .. Len(s) - 1 /\ i \in 1 .. Len(Front(s))
        BY <3>2, <1>1, <1>4
      <4> QED BY <4>1, <1>2, <1>3, <2>1, AppendProperties
    <3> QED BY <3>1, <3>2
  <2> HIDE DEF t
  <2>4. s = t
    BY <2>2, <2>3, <1>1, SeqEqual
  <2> QED BY <2>4 DEF t
<1> QED BY <1>2, <1>4, <1>5

LEMMA CalmFacts ==
  ASSUME NEW b \in Seq(Notifying)
  PROVE  Shape(b) /\ TopLock(b) = "none" /\ Len(b) \in Nat
<1>1. Len(b) \in Nat /\ \A i \in 1 .. Len(b) : b[i] \in Notifying
  BY LenProperties, ElementOfSeq
<1>2. Shape(b)
  <2>1. b \in Seq(Lock \cup Notifying)
    BY SeqMonotonic
  <2> QED BY <2>1, <1>1 DEF Shape
<1>3. TopLock(b) = "none"
  <2>1. ASSUME b # <<>> PROVE Last(b) \in Notifying
    BY <2>1, <1>1, EmptySeq DEF Last
  <2> QED BY <2>1, Kinds DEF TopLock
<1> QED BY <1>1, <1>2, <1>3

LEMMA PushFacts ==
  ASSUME NEW b \in Seq(Notifying), NEW f \in Lock \cup Notifying
  PROVE  /\ Shape(Append(b, f))
         /\ Append(b, f) # <<>> /\ Last(Append(b, f)) = f /\ Front(Append(b, f)) = b
         /\ Len(Append(b, f)) = Len(b) + 1
         /\ TopLock(Append(b, f)) = IF f \in Lock THEN f.access ELSE "none"
         /\ Turning(Append(b, f)) <=> Turning(b) \/ (f \in Notifying /\ f.turn # "none")
<1> DEFINE t == Append(b, f)
<1>1. Len(b) \in Nat /\ \A i \in 1 .. Len(b) : b[i] \in Notifying
  BY LenProperties, ElementOfSeq
<1>2. b \in Seq(Lock \cup Notifying)
  BY SeqMonotonic
<1>3. /\ t \in Seq(Lock \cup Notifying) /\ Len(t) = Len(b) + 1
      /\ \A i \in 1 .. Len(b) : t[i] = b[i]
      /\ t[Len(b) + 1] = f
  BY <1>2, AppendProperties
<1> HIDE DEF t
<1>4. Shape(t)
  BY <1>1, <1>3 DEF Shape
<1>5. t # <<>> /\ Last(t) = f
  BY <1>1, <1>3, EmptySeq DEF Last
<1>6. Front(t) = b
  <2>1. Len(t) - 1 = Len(b)
    BY <1>1, <1>3
  <2>2. Front(t) = [i \in 1 .. Len(b) |-> t[i]]
    BY <2>1, <1>1, <1>3 DEF Front
  <2>3. Front(t) = [i \in 1 .. Len(b) |-> b[i]]
    BY <2>2, <1>3
  <2>4. b = [i \in 1 .. Len(b) |-> b[i]]
    BY LenProperties
  <2> QED BY <2>3, <2>4
<1>7. TopLock(t) = IF f \in Lock THEN f.access ELSE "none"
  BY <1>5, Kinds DEF TopLock
<1>8. Turning(t) <=> Turning(b) \/ (f \in Notifying /\ f.turn # "none")
  <2>1. ASSUME Turning(t) PROVE Turning(b) \/ (f \in Notifying /\ f.turn # "none")
    <3>1. PICK i \in 1 .. Len(b) + 1 : t[i] \in Notifying /\ t[i].turn # "none"
      BY <2>1, <1>3 DEF Turning
    <3>2. CASE i \in 1 .. Len(b)
      BY <3>1, <3>2, <1>3 DEF Turning
    <3>3. CASE i = Len(b) + 1
      BY <3>1, <3>3, <1>3
    <3> QED BY <3>2, <3>3, <1>1
  <2>2. ASSUME Turning(b) PROVE Turning(t)
    <3>1. PICK i \in 1 .. Len(b) : b[i] \in Notifying /\ b[i].turn # "none"
      BY <2>2 DEF Turning
    <3>2. i \in 1 .. Len(t) /\ t[i] = b[i]
      BY <1>1, <1>3
    <3> QED BY <3>1, <3>2 DEF Turning
  <2>3. ASSUME f \in Notifying, f.turn # "none" PROVE Turning(t)
    <3>1. Len(b) + 1 \in 1 .. Len(t) /\ t[Len(b) + 1] = f
      BY <1>1, <1>3
    <3> QED BY <3>1, <2>3 DEF Turning
  <2> QED BY <2>1, <2>2, <2>3
<1> QED BY <1>3, <1>4, <1>5, <1>6, <1>7, <1>8 DEF t

\* No lock is in progress.
LEMMA NoLockFacts ==
  ASSUME NEW s, Shape(s), TopLock(s) = "none"
  PROVE  s \in Seq(Notifying)
<1>1. CASE s = <<>>
  BY <1>1, EmptySeq
<1>2. CASE s # <<>>
  <2>1. Last(s) \in Notifying
    BY <1>2, TopFacts, Kinds DEF TopLock
  <2> QED BY <1>2, <2>1, TopFacts, AppendProperties
<1> QED BY <1>1, <1>2

\* A lock is.
LEMMA LockFacts ==
  ASSUME NEW s, Shape(s), TopLock(s) # "none"
  PROVE  /\ s # <<>> /\ Last(s) \in Lock /\ Last(s).op = "lock" /\ Last(s).access = TopLock(s)
         /\ Front(s) \in Seq(Notifying) /\ s = Append(Front(s), Last(s))
<1>1. s # <<>> /\ Last(s).op = "lock" /\ Last(s).access = TopLock(s)
  BY DEF TopLock
<1> QED BY <1>1, TopFacts, Kinds

\* A new connection of the sink.
LEMMA ReconnectFacts ==
  ASSUME NEW s, Shape(s), NEW t,
         t = [i \in DOMAIN s |-> IF s[i].op = "notify" THEN [s[i] EXCEPT !.same = FALSE] ELSE s[i]]
  PROVE  /\ Shape(t) /\ TopLock(t) = TopLock(s) /\ (Turning(t) <=> Turning(s))
         /\ TopLock(s) # "none" => Last(t) = Last(s)
         /\ Len(t) = Len(s) /\ (t # <<>> => Last(t).calls = Last(s).calls \/ Last(t).op = "lock")
<1>1. s \in Seq(Lock \cup Notifying) /\ Len(s) \in Nat /\ DOMAIN s = 1 .. Len(s)
  BY LenProperties DEF Shape
<1>2. \A i \in 1 .. Len(s) : s[i] \in Lock \cup Notifying
  BY <1>1, ElementOfSeq
<1>3. ASSUME NEW f \in Notifying
      PROVE  /\ [f EXCEPT !.same = FALSE] \in Notifying
             /\ [f EXCEPT !.same = FALSE].turn = f.turn
             /\ [f EXCEPT !.same = FALSE].calls = f.calls
  BY DEF Notifying, Notification
<1>4. ASSUME NEW i \in 1 .. Len(s)
      PROVE  /\ s[i] \in Lock => t[i] = s[i]
             /\ s[i] \in Notifying => t[i] \in Notifying /\ t[i].turn = s[i].turn /\ t[i].calls = s[i].calls
             /\ t[i] \in Lock \cup Notifying
  <2>1. t[i] = IF s[i].op = "notify" THEN [s[i] EXCEPT !.same = FALSE] ELSE s[i]
    BY <1>1
  <2>2. CASE s[i] \in Lock
    BY <2>1, <2>2, Kinds
  <2>3. CASE s[i] \in Notifying
    BY <2>1, <2>3, <1>3, Kinds
  <2> QED BY <2>2, <2>3, <1>2
<1>5. t \in Seq(Lock \cup Notifying) /\ Len(t) = Len(s)
  <2>1. t \in [1 .. Len(s) -> Lock \cup Notifying]
    BY <1>1, <1>4
  <2> QED BY <2>1, <1>1, IsASeq, LenProperties
<1>6. Shape(t)
  <2>1. \A i \in 1 .. Len(s) - 1 : t[i] \in Notifying
    BY <1>1, <1>4 DEF Shape
  <2> QED BY <2>1, <1>5 DEF Shape
<1>7. Turning(t) <=> Turning(s)
  <2>1. \A i \in 1 .. Len(s) : /\ t[i] \in Notifying <=> s[i] \in Notifying
                              /\ (s[i] \in Notifying => t[i].turn = s[i].turn)
    BY <1>2, <1>4, Kinds
  <2> QED BY <2>1, <1>5 DEF Turning
<1>8. s = <<>> <=> t = <<>>
  BY <1>1, <1>5, EmptySeq
<1>9. ASSUME s # <<>>
      PROVE  /\ Last(s) \in Lock => Last(t) = Last(s)
             /\ Last(s) \in Notifying => Last(t) \in Notifying /\ Last(t).calls = Last(s).calls
             /\ Last(s) \in Lock \cup Notifying
  <2>1. Len(s) \in 1 .. Len(s)
    BY <1>9, <1>1, EmptySeq
  <2> QED BY <2>1, <1>2, <1>4, <1>5 DEF Last
<1>10. TopLock(t) = TopLock(s)
  BY <1>8, <1>9, Kinds DEF TopLock
<1> QED BY <1>5, <1>6, <1>7, <1>8, <1>9, <1>10, Kinds DEF TopLock

-----------------------------------------------------------------------------
(* What the operations share.                                              *)

LEMMA DocumentFacts ==
  /\ NoDocument \notin Document /\ NoDocument.text = 2
  /\ \A d \in Document : d.text \in 0 .. 1 /\ d.text # 2
  /\ \A d \in Document : \A v \in 0 .. 1 :
       /\ [d EXCEPT !.text = v] \in Document /\ [d EXCEPT !.selection = v] \in Document
       /\ [d EXCEPT !.view = v] \in Document /\ [d EXCEPT !.selection = v].text = d.text
  BY DEF Document, NoDocument

LEMMA TextAndSelection ==
  ASSUME NEW d \in Document, NEW v \in 0 .. 1, NEW w \in 0 .. 1
  PROVE  [d EXCEPT !.text = v, !.selection = w] \in Document
<1> DEFINE e == [d EXCEPT !.text = v]
<1>1. e \in Document
  BY DEF Document
<1> HIDE DEF e
<1>2. [e EXCEPT !.selection = w] \in Document
  BY <1>1 DEF Document
<1>3. [d EXCEPT !.text = v, !.selection = w] = [e EXCEPT !.selection = w]
  BY DEF e
<1> QED BY <1>2, <1>3

LEMMA ScheduleFacts ==
  ASSUME Typed, Schedule
  PROVE  /\ session' = session /\ starved' \in BOOLEAN /\ posted' \in BOOLEAN
         /\ posted' = TRUE => starved' = FALSE
         /\ session = "active" => posted' = TRUE \/ starved' = TRUE
         /\ session # "active" => posted' = FALSE
  BY DEF Typed, Schedule

LEMMA ReleaseFacts ==
  ASSUME Typed, NEW external \in BOOLEAN, Release(external)
  PROVE  /\ lock' = "none"
         /\ session' = session /\ starved' \in BOOLEAN /\ posted' \in BOOLEAN
         /\ posted' = TRUE => starved' = FALSE
         /\ session = "active" /\ (pendingLock # "none" \/ external = TRUE \/ pendingLayout = TRUE) =>
              posted' = TRUE \/ starved' = TRUE
         /\ session # "active" => posted' = FALSE
<1>1. CASE pendingLock # "none" \/ external \/ pendingLayout
  BY <1>1, ScheduleFacts DEF Release, ScheduleIf
<1>2. CASE ~(pendingLock # "none" \/ external \/ pendingLayout)
  BY <1>2 DEF Release, ScheduleIf, host, Typed
<1> QED BY <1>1, <1>2

\* Nothing is held and nothing runs but notifications, or the lock that is held runs.
LEMMA Idle ==
  ASSUME Typed, Shape(frames), lock = "none", session # "disconnected"
  PROVE  frames \in Seq(Notifying)
  BY NoLockFacts DEF Typed

LEMMA Held ==
  ASSUME Typed, Shape(frames), lock # "none"
  PROVE  /\ session # "disconnected" /\ frames # <<>>
         /\ Running \in Lock /\ Running.op = "lock" /\ Running.access = lock
         /\ Below \in Seq(Notifying) /\ frames = Append(Below, Running)
  BY LockFacts DEF Typed, Running, Below

\* The last call of the list t is told something, which that of s was not.
Says(s, t) == /\ t # <<>> /\ Last(t).op = "notify"
              /\ Len(t) > Len(s) \/ (Len(t) = Len(s) /\ Last(t).calls # Last(s).calls)
Told == /\ advised' /\ Last(frames').same
        /\ lock' = "none"
        /\ document' = Last(frames').what /\ session' = "active"
Announced == Says(frames, frames') => Told

LEMMA SaysNothing ==
  ASSUME NEW s, Shape(s), NEW t, t = s \/ (s # <<>> /\ t = Front(s)) \/ (t # <<>> /\ Last(t).op = "lock")
  PROVE  ~Says(s, t)
<1>1. Len(s) \in Nat
  BY LenProperties DEF Shape
<1>2. CASE t = s
  BY <1>1, <1>2 DEF Says
<1>3. CASE s # <<>> /\ t = Front(s)
  <2>1. Len(t) = Len(s) - 1
    BY <1>3, TopFacts
  <2> QED BY <1>1, <2>1 DEF Says
<1>4. CASE t # <<>> /\ Last(t).op = "lock"
  BY <1>4 DEF Says
<1> QED BY <1>2, <1>3, <1>4

LEMMA StartLockFacts ==
  ASSUME Typed, Shape(frames), NEW access \in {"read", "write"}, NEW below \in Seq(Notifying), advised,
         StartLock(access, below), below = frames \/ (frames # <<>> /\ below = Below)
  PROVE  /\ selfEdit' = FALSE
         /\ Shape(frames') /\ lock' = TopLock(frames') /\ lock' \in Access
         /\ session # "active" => lock' = "none" /\ frames' = below
         /\ session = "active" =>
              /\ lock' # "none"
              /\ Last(frames') \in Lock /\ Last(frames').at \in {"start", "granted"}
         /\ ~Says(frames, frames')
<1>1. CASE session = "active"
  <2> DEFINE f == [op |-> "lock", access |-> access, wrote |-> FALSE,
                   at |-> IF access = "write" THEN "start" ELSE "granted"]
  <2>1. f \in Lock /\ f.access = access /\ f.at \in {"start", "granted"} /\ f.op = "lock"
    BY DEF Lock
  <2>2. lock' = access /\ frames' = Append(below, f) /\ selfEdit' = FALSE
    BY <1>1 DEF StartLock
  <2> HIDE DEF f
  <2>3. /\ Shape(frames') /\ TopLock(frames') = access /\ frames' # <<>> /\ Last(frames') = f
    BY <2>1, <2>2, PushFacts
  <2>4. ~Says(frames, frames')
    BY <2>1, <2>3, SaysNothing
  <2> QED BY <1>1, <2>1, <2>2, <2>3, <2>4 DEF Access
<1>2. CASE session # "active"
  <2>1. lock' = "none" /\ frames' = below /\ selfEdit' = FALSE
    BY <1>2 DEF StartLock
  <2>2. ~Says(frames, frames')
    BY <2>1, SaysNothing DEF Below
  <2> QED BY <1>2, <2>1, <2>2, CalmFacts DEF Access
<1> QED BY <1>1, <1>2

-----------------------------------------------------------------------------
(* The operations, one by one.                                             *)

Kept == Typed' /\ Shape(frames') /\ Promised' /\ Announced

LEMMA RequestLockKeeps ==
  ASSUME Typed, Shape(frames), NEW access \in {"read", "write"}, RequestLock(access)
  PROVE  Kept
<1>1. advised /\ lock = "none" /\ session # "disconnected" /\ StartLock(access, frames)
  BY DEF RequestLock, Typed
<1>2. frames \in Seq(Notifying)
  BY <1>1, Idle
<1>3. /\ Shape(frames') /\ lock' = TopLock(frames') /\ lock' \in Access /\ selfEdit' = FALSE
      /\ session = "active" => lock' # "none"
      /\ ~Says(frames, frames')
  BY <1>1, <1>2, StartLockFacts
<1>4. /\ session' = session /\ starved' \in BOOLEAN /\ posted' \in BOOLEAN
      /\ posted' = TRUE => starved' = FALSE
      /\ session # "active" => posted' = FALSE
  <2>1. CASE pendingLock # "none"
    BY <2>1, ScheduleFacts DEF RequestLock, ScheduleIf
  <2>2. CASE pendingLock = "none"
    BY <2>2 DEF RequestLock, ScheduleIf, host, Typed
  <2> QED BY <2>1, <2>2
<1>5. UNCHANGED <<document, staged, pending, observed, advised, known>>
  BY DEF RequestLock
<1>6. Typed'
  BY <1>1, <1>3, <1>4, <1>5 DEF Typed, pending
<1>7. Promised'
  BY <1>3, <1>4 DEF Promised
<1> QED BY <1>3, <1>6, <1>7 DEF Kept, Announced

LEMMA QueueLockKeeps ==
  ASSUME Typed, Shape(frames), NEW access \in {"read", "write"}, QueueLock(access)
  PROVE  Kept
<1>1. /\ session' = session /\ starved' \in BOOLEAN /\ posted' \in BOOLEAN
      /\ posted' = TRUE => starved' = FALSE
      /\ session # "active" => posted' = FALSE
  BY ScheduleFacts DEF QueueLock
<1>2. pendingLock' \in Access
  BY DEF QueueLock, Stronger, Access, Typed
<1>3. UNCHANGED <<document, staged, lock, pendingExternal, pendingLayout, selfEdit, observed, advised, frames, known>>
  BY DEF QueueLock
<1>4. Typed' /\ lock' # "none"
  BY <1>1, <1>2, <1>3 DEF Typed, QueueLock
<1> QED BY <1>3, <1>4, SaysNothing DEF Kept, Announced, Promised

LEMMA EditKeeps ==
  ASSUME Typed, Shape(frames), NEW edit \in Document, NEW base, NEW writes \in BOOLEAN, Edit(edit, base, writes)
  PROVE  Kept
<1> DEFINE f == [Running EXCEPT !.wrote = @ \/ writes]
<1>1. /\ lock = "write" /\ staged' = edit /\ frames' = Append(Below, f) /\ selfEdit' = (selfEdit \/ edit # base)
      /\ UNCHANGED <<document, lock, pending, observed, advised, host, known>>
  BY DEF Edit
<1>2. Running \in Lock /\ Running.access = lock /\ Below \in Seq(Notifying) /\ session # "disconnected"
  BY <1>1, Held
<1>3. f \in Lock /\ f.access = Running.access /\ f.op = "lock"
  BY <1>2 DEF Lock
<1> HIDE DEF f
<1>4. Shape(frames') /\ frames' # <<>> /\ TopLock(frames') = lock /\ Last(frames') = f
  BY <1>1, <1>2, <1>3, PushFacts
<1>5. ~Says(frames, frames')
  BY <1>3, <1>4, SaysNothing
<1>6. Typed' /\ lock' # "none"
  BY <1>1, <1>2, <1>4 DEF Typed, pending, host
<1> QED BY <1>4, <1>5, <1>6 DEF Kept, Announced, Promised

LEMMA BaseFacts ==
  ASSUME Typed, document # NoDocument
  PROVE  Base \in Document /\ session = "active"
  BY DEF Typed, Base

LEMMA SetTextKeeps ==
  ASSUME Typed, Shape(frames), NEW text \in 0 .. 1, SetText(text)
  PROVE  Kept
<1>1. document # NoDocument
  BY DEF SetText, Edit
<1>2. [Base EXCEPT !.text = text, !.selection = 0] \in Document
  <2>1. Base \in Document /\ 0 \in 0 .. 1
    BY <1>1, BaseFacts
  <2> QED BY <2>1, TextAndSelection
<1> QED BY <1>2, EditKeeps DEF SetText

LEMMA SetSelectionKeeps ==
  ASSUME Typed, Shape(frames), NEW selection \in 0 .. 1, SetSelection(selection)
  PROVE  Kept
<1>1. document # NoDocument
  BY DEF SetSelection, Edit
<1>2. [Base EXCEPT !.selection = selection] \in Document
  BY <1>1, BaseFacts DEF Document
<1> QED BY <1>2, EditKeeps DEF SetSelection

\* A lock goes to its next stage, or comes to its end.
LEMMA LockMoves ==
  ASSUME Shape(frames), frames # <<>>, Running \in Lock,
         NEW stage \in {"start", "granted", "apply", "end"}, frames' = Append(Below, [Running EXCEPT !.at = stage])
  PROVE  /\ Shape(frames') /\ TopLock(frames') = TopLock(frames) /\ ~Says(frames, frames')
         /\ Last(frames') \in Lock /\ Last(frames') = [Running EXCEPT !.at = stage]
<1> DEFINE f == [Running EXCEPT !.at = stage]
<1>1. f \in Lock /\ f.access = Running.access /\ f.op = "lock"
  BY DEF Lock
<1> HIDE DEF f
<1>2. Below \in Seq(Notifying) /\ TopLock(frames) = Running.access
  BY TopFacts, Kinds DEF TopLock, Running, Below
<1>3. Shape(frames') /\ frames' # <<>> /\ TopLock(frames') = Running.access /\ Last(frames') = f
  BY <1>1, <1>2, PushFacts DEF f
<1>4. ~Says(frames, frames')
  BY <1>1, <1>3, SaysNothing
<1> QED BY <1>1, <1>2, <1>3, <1>4 DEF f

LEMMA LockEnds ==
  ASSUME Shape(frames), frames # <<>>, Running \in Lock, frames' = Below
  PROVE  /\ Shape(frames') /\ TopLock(frames') = "none" /\ ~Says(frames, frames')
         /\ (Turning(frames') <=> Turning(frames))
<1>1. Below \in Seq(Notifying) /\ frames = Append(Below, Running)
  BY TopFacts DEF Running, Below
<1>2. ~Says(frames, frames')
  BY SaysNothing DEF Below
<1>3. Turning(frames') <=> Turning(frames)
  BY <1>1, PushFacts, Kinds
<1> QED BY <1>1, <1>2, <1>3, CalmFacts

LEMMA CaptureFacts ==
  ASSUME Typed, Capture
  PROVE  /\ observed' = document /\ observed' \in Document \cup {NoDocument} /\ pendingExternal' \in BOOLEAN
         /\ session = "active" => observed' # NoDocument /\ pendingExternal' = FALSE
<1>1. document \in Document \cup {NoDocument} /\ (session = "active" => document # NoDocument)
  BY DocumentFacts DEF Typed
<1> QED BY <1>1 DEF Capture, Typed

\* Who runs in LockReturns.
LEMMA LockRuns ==
  ASSUME Typed, Shape(frames), frames # <<>>, Running.op = "lock"
  PROVE  /\ Running \in Lock /\ Below \in Seq(Notifying) /\ TopLock(frames) = Running.access
         /\ session # "disconnected" => lock = Running.access /\ lock # "none"
<1>1. Running \in Lock /\ Below \in Seq(Notifying)
  BY TopFacts, Kinds DEF Running, Below
<1>2. TopLock(frames) = Running.access
  BY DEF TopLock, Running
<1> QED BY <1>1, <1>2, Kinds DEF Typed

\* A step to the next stage keeps the lock; what it writes is of its type.
LEMMA MovedKeeps ==
  ASSUME Typed, Shape(frames), frames # <<>>, Running.op = "lock",
         NEW stage \in {"start", "granted", "apply", "end"}, frames' = Append(Below, [Running EXCEPT !.at = stage]),
         UNCHANGED <<lock, session, advised, pendingLock, pendingLayout, selfEdit>>,
         session = "active" => document' \in Document /\ observed' # NoDocument,
         session # "active" => document' = NoDocument /\ posted' = FALSE,
         staged' \in Document \cup {NoDocument}, observed' \in Document \cup {NoDocument},
         pendingExternal' \in BOOLEAN, posted' \in BOOLEAN, starved' \in BOOLEAN, posted' = TRUE => starved' = FALSE,
         known' \in 0 .. 1
  PROVE  Kept /\ Last(frames') = [Running EXCEPT !.at = stage]
<1>1. /\ Running \in Lock /\ TopLock(frames) = Running.access
      /\ session # "disconnected" => lock = Running.access /\ lock # "none"
  BY LockRuns
<1>2. Shape(frames') /\ TopLock(frames') = TopLock(frames) /\ ~Says(frames, frames')
      /\ Last(frames') = [Running EXCEPT !.at = stage]
  BY <1>1, LockMoves
<1>3. Typed'
  BY <1>1, <1>2 DEF Typed
<1>4. Promised'
  BY <1>1 DEF Promised
<1> QED BY <1>2, <1>3, <1>4 DEF Kept, Announced

\* A lock that ends is released, and what became pending is scheduled.
LEMMA ReleasedKeeps ==
  ASSUME Typed, Shape(frames), frames # <<>>, Running.op = "lock", frames' = Below,
         Release(pendingExternal'), pendingExternal' \in BOOLEAN,
         UNCHANGED <<document, advised, pendingLock, pendingLayout, selfEdit>>,
         session = "active" => observed' # NoDocument,
         staged' \in Document \cup {NoDocument}, observed' \in Document \cup {NoDocument},
         known' \in 0 .. 1
  PROVE  Kept
<1>1. Running \in Lock
  BY LockRuns
<1>2. Shape(frames') /\ TopLock(frames') = "none" /\ ~Says(frames, frames')
  BY <1>1, LockEnds
<1>3. /\ lock' = "none"
      /\ session' = session /\ starved' \in BOOLEAN /\ posted' \in BOOLEAN
      /\ posted' = TRUE => starved' = FALSE
      /\ session = "active" /\ (pendingLock # "none" \/ pendingExternal' = TRUE \/ pendingLayout = TRUE) =>
           posted' = TRUE \/ starved' = TRUE
      /\ session # "active" => posted' = FALSE
  BY ReleaseFacts
<1>4. Typed'
  BY <1>2, <1>3 DEF Typed, Access
<1>5. Promised'
  <2>1. pendingLayout \in BOOLEAN
    BY DEF Typed
  <2> QED BY <1>3, <2>1 DEF Promised
<1> QED BY <1>2, <1>4, <1>5 DEF Kept, Announced

LEMMA TransactionStartedKeeps ==
  ASSUME Typed, Shape(frames), frames # <<>>, Running.op = "lock", NEW ok \in BOOLEAN, TransactionStarted(ok)
  PROVE  Kept
<1>1. UNCHANGED <<document, pending, selfEdit, observed, advised, known>>
  BY DEF TransactionStarted
<1>2. CASE ok
  <2>1. frames' = Append(Below, [Running EXCEPT !.at = "granted"]) /\ UNCHANGED <<staged, lock, host>>
    BY <1>2 DEF TransactionStarted
  <2> QED BY <1>1, <2>1, MovedKeeps DEF Typed, pending, host
<1>3. CASE ~ok
  <2>1. staged' = NoDocument /\ frames' = Below /\ Release(pendingExternal)
    BY <1>3 DEF TransactionStarted
  <2> QED BY <1>1, <2>1, ReleasedKeeps DEF Typed, pending
<1> QED BY <1>2, <1>3

LEMMA FinishLockKeeps ==
  ASSUME Typed, Shape(frames), frames # <<>>, Running.op = "lock", NEW ok \in BOOLEAN, FinishLock(ok),
         staged' = NoDocument, UNCHANGED <<document, pendingLock, pendingLayout, selfEdit, advised, known>>
  PROVE  Kept
<1>1. /\ observed' \in Document \cup {NoDocument} /\ pendingExternal' \in BOOLEAN
      /\ session = "active" => observed' # NoDocument
  <2>1. CASE ok /\ (~pendingExternal \/ selfEdit)
    BY <2>1, CaptureFacts DEF FinishLock
  <2>2. CASE ~(ok /\ (~pendingExternal \/ selfEdit))
    BY <2>2 DEF FinishLock, Typed
  <2> QED BY <2>1, <2>2
<1>2. CASE Running.access = "write"
  <2>1. frames' = Append(Below, [Running EXCEPT !.at = "end"]) /\ UNCHANGED <<lock, host>>
    BY <1>2 DEF FinishLock
  <2> QED BY <1>1, <2>1, MovedKeeps DEF Typed, host
<1>3. CASE Running.access # "write"
  <2>1. frames' = Below /\ Release(pendingExternal')
    BY <1>3 DEF FinishLock
  <2> QED BY <1>1, <2>1, ReleasedKeeps DEF Typed
<1> QED BY <1>2, <1>3

LEMMA GrantEndsKeeps ==
  ASSUME Typed, Shape(frames), frames # <<>>, Running.op = "lock", NEW ok \in BOOLEAN, GrantEnds(ok)
  PROVE  Kept
  BY FinishLockKeeps DEF GrantEnds

LEMMA GrantAppliesKeeps ==
  ASSUME Typed, Shape(frames), frames # <<>>, Running.op = "lock", GrantApplies
  PROVE  Kept
<1>1. /\ staged \in Document /\ session = "active" /\ document \in Document
      /\ document' = [staged EXCEPT !.view = document.view]
      /\ frames' = Append(Below, [Running EXCEPT !.at = "apply"])
      /\ UNCHANGED <<staged, lock, pending, selfEdit, observed, advised, host, known>>
  BY DEF GrantApplies, Typed
<1>2. document' \in Document
  BY <1>1 DEF Document
<1> QED BY <1>1, <1>2, MovedKeeps DEF Typed, pending, host

LEMMA ApplyEndsKeeps ==
  ASSUME Typed, Shape(frames), frames # <<>>, Running.op = "lock", ApplyEnds
  PROVE  Kept
<1>1. staged' = NoDocument /\ UNCHANGED <<document, pendingLock, pendingLayout, selfEdit, advised>>
  BY DEF ApplyEnds
<1>2. CASE document # NoDocument /\ document.text = staged.text
  <2>1. /\ known' = IF advised /\ Running.wrote THEN staged.text ELSE known
        /\ IF selfEdit THEN Capture ELSE pendingExternal' = TRUE /\ UNCHANGED observed
        /\ frames' = Append(Below, [Running EXCEPT !.at = "end"])
        /\ Schedule
        /\ UNCHANGED lock
    BY <1>2 DEF ApplyEnds
  <2>2. session = "active" /\ staged \in Document
    BY <1>2, DocumentFacts DEF Typed
  <2>3. known' \in 0 .. 1
    BY <2>1, <2>2, DocumentFacts DEF Typed
  <2>4. observed' \in Document \cup {NoDocument} /\ pendingExternal' \in BOOLEAN /\ observed' # NoDocument
    <3>1. CASE selfEdit
      BY <3>1, <2>1, <2>2, CaptureFacts
    <3>2. CASE ~selfEdit
      BY <3>2, <2>1, <2>2 DEF Typed
    <3> QED BY <3>1, <3>2
  <2>5. /\ session' = session /\ starved' \in BOOLEAN /\ posted' \in BOOLEAN
        /\ posted' = TRUE => starved' = FALSE
    BY <2>1, ScheduleFacts
  <2> QED BY <1>1, <2>1, <2>2, <2>3, <2>4, <2>5, MovedKeeps DEF Typed
<1>3. CASE ~(document # NoDocument /\ document.text = staged.text)
  BY <1>1, <1>3, FinishLockKeeps DEF ApplyEnds
<1> QED BY <1>2, <1>3

LEMMA TransactionEndedKeeps ==
  ASSUME Typed, Shape(frames), frames # <<>>, Running.op = "lock", TransactionEnded
  PROVE  Kept
  BY ReleasedKeeps DEF TransactionEnded, Typed, pending

LEMMA LockReturnsKeeps ==
  ASSUME Typed, Shape(frames), LockReturns
  PROVE  Kept
<1>1. frames # <<>> /\ Running.op = "lock"
  BY DEF LockReturns
<1> QED BY <1>1, TransactionStartedKeeps, GrantEndsKeeps, GrantAppliesKeeps, ApplyEndsKeeps, TransactionEndedKeeps
           DEF LockReturns

-----------------------------------------------------------------------------
(* Notifications.                                                          *)

Kind == {"text", "selection", "layout"}

LEMMA ChangesFacts ==
  ASSUME NEW seen
  PROVE  /\ Changes(seen) \in Seq(Kind)
         /\ document' # seen => Changes(seen) # <<>>
         /\ document'.text # seen.text => Head(Changes(seen)) = "text"
         /\ document'.text = seen.text /\ Changes(seen) # <<>> => Head(Changes(seen)) # "text"
<1> DEFINE a == IF document'.text # seen.text THEN <<"text">> ELSE <<>>
           b == IF document'.selection # seen.selection THEN <<"selection">> ELSE <<>>
           c == IF document' # seen THEN <<"layout">> ELSE <<>>
           r == (a \o b) \o c
<1>1. a \in Seq(Kind) /\ b \in Seq(Kind) /\ c \in Seq(Kind)
  <2>1. <<>> \in Seq(Kind)
    BY EmptySeq
  <2>2. \A k \in Kind : <<k>> \in Seq(Kind)
    OBVIOUS
  <2>3. <<"text">> \in Seq(Kind) /\ <<"selection">> \in Seq(Kind) /\ <<"layout">> \in Seq(Kind)
    BY <2>2 DEF Kind
  <2> QED BY <2>1, <2>3
<1>2. Changes(seen) = r
  BY DEF Changes
<1>3. /\ a = <<>> \/ (a = <<"text">> /\ Len(a) = 1 /\ a[1] = "text")
      /\ b = <<>> \/ (b = <<"selection">> /\ Len(b) = 1 /\ b[1] = "selection")
      /\ c = <<>> \/ (c = <<"layout">> /\ Len(c) = 1 /\ c[1] = "layout")
  OBVIOUS
<1>4. /\ document' # seen => Len(c) = 1
      /\ document'.text # seen.text => Len(a) = 1
      /\ document'.text = seen.text => a = <<>>
  OBVIOUS
<1>5. Len(<<>>) = 0
  OBVIOUS
<1> HIDE DEF a, b, c
<1>6. /\ a \o b \in Seq(Kind) /\ Len(a \o b) = Len(a) + Len(b)
      /\ \A i \in 1 .. Len(a) : (a \o b)[i] = a[i]
      /\ \A i \in 1 .. Len(b) : (a \o b)[Len(a) + i] = b[i]
  BY <1>1
<1>7. /\ r \in Seq(Kind) /\ Len(r) = Len(a) + Len(b) + Len(c)
      /\ \A i \in 1 .. Len(a) + Len(b) : r[i] = (a \o b)[i]
      /\ \A i \in 1 .. Len(c) : r[Len(a) + Len(b) + i] = c[i]
  BY <1>1, <1>6
<1> HIDE DEF r
<1>8. Len(a) \in Nat /\ Len(b) \in Nat /\ Len(c) \in Nat
  BY <1>1
<1>9. document' # seen => r # <<>>
  <2>1. Len(r) = Len(a) + Len(b) + Len(c)
    BY <1>7
  <2>2. document' # seen => Len(r) # 0
    BY <2>1, <1>4, <1>8
  <2> QED BY <2>2, <1>5
<1>10. document'.text # seen.text => Head(r) = "text"
  <2> SUFFICES ASSUME document'.text # seen.text PROVE Head(r) = "text"
    OBVIOUS
  <2>1. Len(a) = 1 /\ a[1] = "text"
    BY <1>3, <1>4, <1>5
  <2>2. r[1] = "text" /\ r # <<>>
    BY <2>1, <1>5, <1>6, <1>7, <1>8
  <2> QED BY <2>2, <1>7
<1>11. document'.text = seen.text /\ r # <<>> => Head(r) # "text"
  <2> SUFFICES ASSUME document'.text = seen.text, r # <<>> PROVE Head(r) # "text"
    OBVIOUS
  <2>1. a = <<>> /\ Len(a) = 0
    BY <1>4, <1>5
  <2>2. CASE b # <<>>
    <3>1. Len(b) = 1 /\ b[1] = "selection"
      BY <2>2, <1>3
    <3>2. r[1] = "selection"
      BY <3>1, <2>1, <1>6, <1>7, <1>8
    <3> QED BY <3>2, <1>7
  <2>3. CASE b = <<>>
    <3>1. Len(b) = 0 /\ c # <<>>
      BY <2>1, <2>3, <1>5, <1>7, <1>8, EmptySeq
    <3>2. Len(c) = 1 /\ c[1] = "layout"
      BY <3>1, <1>3
    <3>3. r[1] = "layout"
      BY <3>1, <3>2, <2>1, <1>7
    <3> QED BY <3>3, <1>7
  <2> QED BY <2>2, <2>3
<1> QED BY <1>2, <1>7, <1>9, <1>10, <1>11

LEMMA TellFacts ==
  ASSUME Typed, NEW below \in Seq(Notifying), NEW calls \in Seq(Kind), calls # <<>>, NEW what \in Document,
         NEW turn \in {"none", "lock", "layout"}, NEW same \in BOOLEAN, Tell(below, calls, what, turn, same)
  PROVE  /\ Shape(frames') /\ TopLock(frames') = "none" /\ frames' # <<>>
         /\ Turning(frames') <=> Turning(below) \/ turn # "none"
         /\ Last(frames').same = same /\ Last(frames').what = what
         /\ known' \in 0 .. 1 /\ known' = IF Head(calls) = "text" THEN what.text ELSE known
<1> DEFINE f == [op |-> "notify", calls |-> calls, what |-> what, same |-> same, turn |-> turn]
<1>1. f \in Notifying
  BY DEF Notifying, Notification, Kind
<1>2. f.same = same /\ f.what = what /\ f.turn = turn
  OBVIOUS
<1>3. frames' = Append(below, f) /\ known' = IF Head(calls) = "text" THEN what.text ELSE known
  BY DEF Tell
<1> HIDE DEF f
<1>4. /\ Shape(frames') /\ frames' # <<>> /\ Last(frames') = f
      /\ TopLock(frames') = IF f \in Lock THEN f.access ELSE "none"
      /\ Turning(frames') <=> Turning(below) \/ (f \in Notifying /\ f.turn # "none")
  BY <1>1, <1>3, PushFacts
<1>5. f \notin Lock
  BY <1>1, Kinds
<1>6. known' \in 0 .. 1
  BY <1>3, DocumentFacts DEF Typed
<1> QED BY <1>1, <1>2, <1>3, <1>4, <1>5, <1>6

\* Everything that tells the sink something is of this form.
LEMMA ToldKeeps ==
  ASSUME Typed, NEW below \in Seq(Notifying), NEW calls \in Seq(Kind), calls # <<>>,
         NEW turn \in {"none", "lock", "layout"},
         Tell(below, calls, document', turn, TRUE), document' \in Document, session = "active", advised,
         UNCHANGED <<staged, lock, pendingLock, selfEdit, advised, session, starved>>, lock = "none",
         observed' \in Document, pendingExternal' \in BOOLEAN, pendingLayout' \in BOOLEAN, posted' \in BOOLEAN,
         posted' = TRUE => posted = TRUE
  PROVE  Typed' /\ Shape(frames') /\ Announced
<1>1. /\ Shape(frames') /\ TopLock(frames') = "none"
      /\ Last(frames').same = TRUE /\ Last(frames').what = document'
      /\ known' \in 0 .. 1
  BY TellFacts
<1>2. Typed'
  BY <1>1, DocumentFacts DEF Typed
<1>3. Told
  BY <1>1 DEF Told
<1> QED BY <1>1, <1>2, <1>3 DEF Announced

LEMMA ApplicationEditsKeeps ==
  ASSUME Typed, Shape(frames), Promised, NEW text \in 0 .. 1, NEW selection \in 0 .. 1,
         ApplicationEdits(text, selection)
  PROVE  Kept
<1>1. /\ session = "active" /\ document' = [document EXCEPT !.text = text, !.selection = selection]
      /\ UNCHANGED <<staged, lock, pendingLock, pendingLayout, selfEdit, advised>>
  BY DEF ApplicationEdits
<1>2. document' \in Document /\ document' # NoDocument
  <2>1. document \in Document
    BY <1>1 DEF Typed
  <2> QED BY <1>1, <2>1, DocumentFacts, TextAndSelection
<1>3. CASE lock # "none"
  <2>1. pendingExternal' = TRUE /\ Schedule /\ UNCHANGED <<observed, frames, known>>
    BY <1>3 DEF ApplicationEdits
  <2>2. /\ session' = session /\ starved' \in BOOLEAN /\ posted' \in BOOLEAN
        /\ posted' = TRUE => starved' = FALSE
    BY <2>1, ScheduleFacts
  <2>3. Typed'
    BY <1>1, <1>2, <2>1, <2>2 DEF Typed
  <2> QED BY <1>1, <1>3, <2>1, <2>3, SaysNothing DEF Kept, Announced, Promised
<1>4. CASE lock = "none" /\ ~advised
  <2>1. UNCHANGED <<observed, pendingExternal, host, frames, known>>
    BY <1>4 DEF ApplicationEdits
  <2>2. Typed'
    BY <1>1, <1>2, <2>1 DEF Typed, host
  <2>3. Promised'
    BY <1>1, <2>1 DEF Promised, host
  <2> QED BY <2>1, <2>2, <2>3, SaysNothing DEF Kept, Announced
<1>5. CASE lock = "none" /\ advised /\ Changes(observed) # <<>>
  <2>1. Report(frames, "none") /\ UNCHANGED host
    BY <1>5 DEF ApplicationEdits
  <2>2. frames \in Seq(Notifying)
    BY <1>1, <1>5, Idle
  <2>3. Changes(observed) \in Seq(Kind)
    BY ChangesFacts
  <2>4. observed' = document' /\ pendingExternal' = FALSE /\ Tell(frames, Changes(observed), document', "none", TRUE)
    BY <2>1 DEF Report
  <2>5. pendingLayout' \in BOOLEAN /\ UNCHANGED <<session, posted, starved>> /\ posted' \in BOOLEAN
    BY <1>1, <2>1 DEF Typed, host
  <2>6. Typed' /\ Shape(frames') /\ Announced
    BY <1>1, <1>2, <1>5, <2>2, <2>3, <2>4, <2>5, ToldKeeps
  <2>7. Turning(frames') <=> Turning(frames)
    BY <1>2, <1>5, <2>2, <2>3, <2>4, TellFacts
  <2>8. Promised'
    BY <1>1, <2>4, <2>5, <2>7 DEF Promised
  <2> QED BY <2>6, <2>8 DEF Kept
<1>6. CASE lock = "none" /\ advised /\ Changes(observed) = <<>>
  <2>1. pendingExternal' = FALSE /\ UNCHANGED <<observed, frames, known, host>>
    BY <1>6 DEF ApplicationEdits
  <2>2. Typed'
    BY <1>1, <1>2, <2>1 DEF Typed, host
  <2>3. Promised'
    BY <1>1, <2>1 DEF Promised, host
  <2> QED BY <2>1, <2>2, <2>3, SaysNothing DEF Kept, Announced
<1> QED BY <1>3, <1>4, <1>5, <1>6

LEMMA ViewMovesKeeps ==
  ASSUME Typed, Shape(frames), Promised, ViewMoves
  PROVE  Kept
<1>1. /\ session = "active" /\ document \in Document /\ document' = [document EXCEPT !.view = 1 - @]
      /\ UNCHANGED <<staged, lock, pending, selfEdit, observed, advised, host, frames, known>>
  BY DEF ViewMoves, Typed
<1>2. document.view \in 0 .. 1
  BY <1>1 DEF Document
<1>3. 1 - document.view \in 0 .. 1
  BY <1>2
<1>4. document' = [document EXCEPT !.view = 1 - document.view] /\ document' \in Document
  BY <1>1, <1>3, DocumentFacts
<1>5. Typed'
  BY <1>1, <1>4 DEF Typed, pending, host
<1>6. Promised'
  BY <1>1 DEF Promised, pending, host
<1> QED BY <1>1, <1>5, <1>6, SaysNothing DEF Kept, Announced

LEMMA NotifyPreparedLayoutKeeps ==
  ASSUME Typed, Shape(frames), Promised, NotifyPreparedLayout
  PROVE  Kept
<1>1. /\ session = "active" /\ document \in Document
      /\ UNCHANGED <<document, staged, lock, pendingLock, pendingExternal, selfEdit, observed, advised>>
  BY DEF NotifyPreparedLayout, Typed
<1>2. CASE lock # "none"
  <2>1. pendingLayout' = TRUE /\ Schedule /\ UNCHANGED <<frames, known>>
    BY <1>2 DEF NotifyPreparedLayout
  <2>2. /\ session' = session /\ starved' \in BOOLEAN /\ posted' \in BOOLEAN
        /\ posted' = TRUE => starved' = FALSE
    BY <2>1, ScheduleFacts
  <2>3. Typed'
    BY <1>1, <2>1, <2>2 DEF Typed
  <2> QED BY <1>1, <1>2, <2>1, <2>3, SaysNothing DEF Kept, Announced, Promised
<1>3. CASE lock = "none"
  <2>1. advised /\ Tell(frames, <<"layout">>, document, "none", TRUE) /\ UNCHANGED <<pendingLayout, host>>
    BY <1>3 DEF NotifyPreparedLayout
  <2>2. frames \in Seq(Notifying)
    BY <1>1, <1>3, Idle
  <2>3. <<"layout">> \in Seq(Kind) /\ <<"layout">> # <<>>
    BY DEF Kind
  <2>4. /\ document' = document /\ observed' \in Document /\ pendingExternal' \in BOOLEAN
        /\ pendingLayout' \in BOOLEAN /\ UNCHANGED <<session, posted, starved>> /\ posted' \in BOOLEAN
    BY <1>1, <2>1 DEF Typed, host
  <2>5. Typed' /\ Shape(frames') /\ Announced
    BY <1>1, <1>3, <2>1, <2>2, <2>3, <2>4, ToldKeeps
  <2>6. Turning(frames') <=> Turning(frames)
    BY <1>1, <2>1, <2>2, <2>3, TellFacts
  <2>7. Promised'
    BY <1>1, <2>1, <2>4, <2>6 DEF Promised
  <2> QED BY <2>5, <2>7 DEF Kept
<1> QED BY <1>2, <1>3

\* The end of the message's turn: the layout, or a lock that was queued.
LEMMA FinishTurnKeeps ==
  ASSUME Typed, Shape(frames), NEW below \in Seq(Notifying), NEW turn \in {"lock", "layout"}, NEW same \in BOOLEAN,
         FinishTurn(below, turn, same), below = frames \/ (frames # <<>> /\ below = Below), lock = "none",
         UNCHANGED <<document, staged, observed, advised, session, starved>>,
         pendingExternal' \in BOOLEAN, pendingLayout' \in BOOLEAN, posted' \in BOOLEAN,
         posted' = TRUE => posted = TRUE
  PROVE  /\ Typed' /\ Shape(frames') /\ Announced
         /\ session = "active" /\ lock' = "none" => pendingLock' = "none" \/ Turning(frames')
<1>1. CASE turn = "layout" /\ TurnIsCurrent(same)
  <2>1. Tell(below, <<"layout">>, document, "lock", same) /\ UNCHANGED <<lock, pendingLock, selfEdit>>
    BY <1>1 DEF FinishTurn
  <2>2. advised /\ same = TRUE /\ observed = document /\ document # NoDocument
    BY <1>1 DEF TurnIsCurrent
  <2>3. session = "active" /\ document \in Document
    BY <2>2 DEF Typed
  <2>4. <<"layout">> \in Seq(Kind) /\ <<"layout">> # <<>>
    BY DEF Kind
  <2>5. Typed' /\ Shape(frames') /\ Announced
    BY <2>1, <2>2, <2>3, <2>4, ToldKeeps
  <2>6. Turning(frames')
    BY <2>1, <2>3, <2>4, TellFacts
  <2> QED BY <2>5, <2>6
<1>2. CASE ~(turn = "layout" /\ TurnIsCurrent(same))
  <2>1. DispatchPendingLock(below) /\ UNCHANGED known
    BY <1>2 DEF FinishTurn
  <2>2. CASE pendingLock # "none" /\ advised
    <3>1. StartLock(pendingLock, below) /\ pendingLock' = "none" /\ pendingLock \in {"read", "write"}
      BY <2>1, <2>2 DEF DispatchPendingLock, Typed, Access
    <3>2. /\ selfEdit' = FALSE /\ Shape(frames') /\ lock' = TopLock(frames') /\ lock' \in Access
          /\ ~Says(frames, frames')
      BY <2>2, <3>1, StartLockFacts
    <3>3. Typed'
      BY <2>1, <2>2, <3>1, <3>2 DEF Typed, Access
    <3> QED BY <3>1, <3>2, <3>3 DEF Announced
  <2>3. CASE ~(pendingLock # "none" /\ advised)
    <3>1. pendingLock' = "none" /\ frames' = below /\ UNCHANGED <<lock, selfEdit>>
      BY <2>1, <2>3 DEF DispatchPendingLock
    <3>2. Shape(frames') /\ TopLock(frames') = "none"
      BY <3>1, CalmFacts
    <3>3. ~Says(frames, frames')
      BY <3>1, SaysNothing DEF Below
    <3>4. Typed'
      BY <2>1, <3>1, <3>2 DEF Typed, Access
    <3> QED BY <3>1, <3>2, <3>3, <3>4 DEF Announced
  <2> QED BY <2>2, <2>3
<1> QED BY <1>1, <1>2

LEMMA NotificationReturnsKeeps ==
  ASSUME Typed, Shape(frames), Promised, NotificationReturns
  PROVE  Kept
<1>1. /\ frames # <<>> /\ Running.op = "notify"
      /\ UNCHANGED <<document, staged, pendingExternal, pendingLayout, observed, advised, host>>
  BY DEF NotificationReturns
<1>2. Running \in Notifying /\ Below \in Seq(Notifying) /\ frames = Append(Below, Running)
  BY <1>1, TopFacts, Kinds DEF Running, Below
<1>3. lock = "none"
  BY <1>1 DEF Typed, TopLock, Running
<1>4. /\ UNCHANGED <<session, posted, starved>> /\ pendingExternal' \in BOOLEAN /\ pendingLayout' \in BOOLEAN
      /\ posted' \in BOOLEAN
  BY <1>1 DEF Typed, host
<1>5. CASE Tail(Running.calls) # <<>> /\ ContinuationIsCurrent
  <2>1. Tell(Below, Tail(Running.calls), Running.what, Running.turn, TRUE) /\ UNCHANGED <<lock, pendingLock, selfEdit>>
    <3>1. Running.same = TRUE
      BY <1>2, <1>5, Kinds DEF ContinuationIsCurrent
    <3> QED BY <1>5, <3>1 DEF NotificationReturns
  <2>2. document = Running.what /\ observed = Running.what /\ advised
    BY <1>5 DEF ContinuationIsCurrent
  <2>3. /\ Running.what \in Document /\ Running.turn \in {"none", "lock", "layout"}
        /\ Running.calls \in Seq(Kind) /\ Running.calls # <<>>
    BY <1>2, Kinds DEF Kind
  <2>4. session = "active"
    BY <2>2, <2>3, DocumentFacts DEF Typed
  <2>5. Tail(Running.calls) \in Seq(Kind)
    BY <2>3
  <2>6. Typed' /\ Shape(frames') /\ Announced
    BY <1>1, <1>2, <1>3, <1>4, <1>5, <2>1, <2>2, <2>3, <2>4, <2>5, ToldKeeps
  <2>7. Turning(frames') <=> Turning(frames)
    <3>1. Turning(frames') <=> Turning(Below) \/ Running.turn # "none"
      BY <1>2, <1>5, <2>1, <2>3, <2>5, TellFacts
    <3>2. Turning(frames) <=> Turning(Below) \/ Running.turn # "none"
      BY <1>2, PushFacts
    <3> QED BY <3>1, <3>2
  <2>8. Promised'
    BY <1>1, <1>4, <2>1, <2>7 DEF Promised
  <2> QED BY <2>6, <2>8 DEF Kept
<1>6. CASE ~(Tail(Running.calls) # <<>> /\ ContinuationIsCurrent) /\ Running.turn = "none"
  <2>1. frames' = Below /\ UNCHANGED <<lock, pendingLock, selfEdit, known>>
    BY <1>6 DEF NotificationReturns
  <2>2. Shape(frames') /\ TopLock(frames') = "none"
    BY <1>2, <2>1, CalmFacts
  <2>3. ~Says(frames, frames')
    BY <1>1, <2>1, SaysNothing DEF Below
  <2>4. Turning(frames') <=> Turning(frames)
    BY <1>2, <1>6, <2>1, PushFacts
  <2>5. Typed'
    BY <1>1, <1>3, <1>4, <2>1, <2>2 DEF Typed
  <2>6. Promised'
    BY <1>1, <1>4, <2>1, <2>4 DEF Promised
  <2> QED BY <2>2, <2>3, <2>5, <2>6 DEF Kept, Announced
<1>7. CASE ~(Tail(Running.calls) # <<>> /\ ContinuationIsCurrent) /\ Running.turn # "none"
  <2>1. PICK turn \in {"lock", "layout"} : FinishTurn(Below, turn, Running.same)
    <3>1. FinishTurn(Below, IF Head(Running.calls) = "layout" THEN "lock" ELSE Running.turn, Running.same)
      BY <1>7 DEF NotificationReturns
    <3>2. Running.turn \in {"lock", "layout"}
      BY <1>2, <1>7, Kinds
    <3> QED BY <3>1, <3>2
  <2>2. Running.same \in BOOLEAN
    BY <1>2, Kinds
  <2>3. /\ Typed' /\ Shape(frames') /\ Announced
        /\ session = "active" /\ lock' = "none" => pendingLock' = "none" \/ Turning(frames')
    BY <1>1, <1>2, <1>3, <1>4, <2>1, <2>2, FinishTurnKeeps
  <2>4. Promised'
    BY <1>1, <1>3, <1>4, <2>3 DEF Promised
  <2> QED BY <2>3, <2>4 DEF Kept
<1> QED BY <1>5, <1>6, <1>7

LEMMA DeliverKeeps ==
  ASSUME Typed, Shape(frames), Promised, Deliver
  PROVE  Kept
<1>1. /\ posted = TRUE /\ session = "active" /\ document \in Document /\ observed \in Document /\ posted' = FALSE
      /\ UNCHANGED <<document, staged, advised, session, starved>>
  BY DEF Deliver, Typed
<1>2. CASE lock # "none"
  <2>1. UNCHANGED <<lock, pending, selfEdit, observed, frames, known>>
    BY <1>2 DEF Deliver
  <2>2. Typed'
    BY <1>1, <2>1 DEF Typed, pending
  <2> QED BY <1>2, <2>1, <2>2, SaysNothing DEF Kept, Announced, Promised
<1>3. CASE lock = "none"
  <2> DEFINE turn == IF pendingLayout THEN "layout" ELSE "lock"
  <2>1. frames \in Seq(Notifying)
    BY <1>1, <1>3, Idle
  <2>2. turn \in {"lock", "layout"}
    OBVIOUS
  <2>3. pendingLayout' = FALSE
    BY <1>3 DEF Deliver
  <2>4. CASE pendingExternal /\ advised /\ document # observed
    <3>1. Report(frames, turn) /\ UNCHANGED <<lock, pendingLock, selfEdit>>
      BY <1>3, <2>4 DEF Deliver
    <3> HIDE DEF turn
    <3>2. /\ observed' = document' /\ pendingExternal' = FALSE
          /\ Tell(frames, Changes(observed), document', turn, TRUE)
      BY <3>1 DEF Report
    <3>3. Changes(observed) \in Seq(Kind) /\ Changes(observed) # <<>>
      BY <1>1, <2>4, ChangesFacts
    <3>4. turn \in {"none", "lock", "layout"} /\ turn # "none" /\ document' \in Document
      BY <1>1, <2>2
    <3>5. observed' \in Document /\ pendingExternal' \in BOOLEAN /\ pendingLayout' \in BOOLEAN /\ posted' \in BOOLEAN
      BY <1>1, <2>3, <3>2, <3>4
    <3>6. Typed' /\ Shape(frames') /\ Announced
      BY <1>1, <1>3, <2>1, <2>4, <3>1, <3>2, <3>3, <3>4, <3>5, ToldKeeps
    <3>7. Turning(frames')
      BY <2>1, <3>2, <3>3, <3>4, TellFacts
    <3>8. Promised'
      BY <2>3, <3>2, <3>7 DEF Promised
    <3> QED BY <3>6, <3>8 DEF Kept
  <2>5. CASE ~(pendingExternal /\ advised /\ document # observed)
    <3>1. /\ pendingExternal' = (pendingExternal /\ ~advised) /\ FinishTurn(frames, turn, TRUE)
          /\ UNCHANGED observed
      BY <1>3, <2>5 DEF Deliver
    <3> HIDE DEF turn
    <3>2. /\ pendingExternal' \in BOOLEAN /\ pendingLayout' \in BOOLEAN /\ posted' \in BOOLEAN
      BY <1>1, <2>3, <3>1
    <3>3. /\ Typed' /\ Shape(frames') /\ Announced
          /\ session = "active" /\ lock' = "none" => pendingLock' = "none" \/ Turning(frames')
      BY <1>1, <1>3, <2>1, <2>2, <3>1, <3>2, FinishTurnKeeps
    <3>4. Promised'
      BY <1>1, <2>3, <3>1, <3>3 DEF Promised
    <3> QED BY <3>3, <3>4 DEF Kept
  <2> QED BY <2>4, <2>5
<1> QED BY <1>2, <1>3

LEMMA ReconnectKeeps ==
  ASSUME Shape(frames), Reconnect
  PROVE  /\ Shape(frames') /\ TopLock(frames') = TopLock(frames) /\ (Turning(frames') <=> Turning(frames))
         /\ TopLock(frames) # "none" => Last(frames') = Running
         /\ ~Says(frames, frames')
<1>1. /\ Shape(frames') /\ TopLock(frames') = TopLock(frames) /\ (Turning(frames') <=> Turning(frames))
      /\ TopLock(frames) # "none" => Last(frames') = Last(frames)
      /\ Len(frames') = Len(frames)
      /\ frames' # <<>> => Last(frames').calls = Last(frames).calls \/ Last(frames').op = "lock"
  BY ReconnectFacts DEF Reconnect
<1>2. Len(frames) \in Nat
  BY LenProperties DEF Shape
<1> QED BY <1>1, <1>2 DEF Says, Running

LEMMA AdviseSinkKeeps ==
  ASSUME Typed, Shape(frames), Promised, AdviseSink
  PROVE  Kept
<1>1. /\ session # "disconnected" /\ lock = "none" /\ advised' = TRUE /\ Reconnect /\ Capture
      /\ known' = IF session = "active" THEN document.text ELSE known
      /\ UNCHANGED <<document, staged, lock, pendingLock, pendingLayout, selfEdit, host>>
  BY DEF AdviseSink
<1>2. /\ Shape(frames') /\ TopLock(frames') = TopLock(frames) /\ (Turning(frames') <=> Turning(frames))
      /\ ~Says(frames, frames')
  BY <1>1, ReconnectKeeps
<1>3. /\ observed' \in Document \cup {NoDocument} /\ pendingExternal' \in BOOLEAN
      /\ session = "active" => observed' # NoDocument /\ pendingExternal' = FALSE
  BY <1>1, CaptureFacts
<1>4. known' \in 0 .. 1
  BY <1>1, DocumentFacts DEF Typed
<1>5. Typed'
  BY <1>1, <1>2, <1>3, <1>4 DEF Typed, host
<1>6. Promised'
  BY <1>1, <1>2, <1>3 DEF Promised, host
<1> QED BY <1>2, <1>5, <1>6 DEF Kept, Announced

LEMMA UnadviseSinkKeeps ==
  ASSUME Typed, Shape(frames), Promised, UnadviseSink
  PROVE  Kept
<1>1. /\ advised' = FALSE /\ Reconnect /\ pendingLayout' = FALSE /\ known' = 0
      /\ UNCHANGED <<document, staged, lock, pendingLock, pendingExternal, selfEdit, observed, host>>
  BY DEF UnadviseSink
<1>2. /\ Shape(frames') /\ TopLock(frames') = TopLock(frames) /\ (Turning(frames') <=> Turning(frames))
      /\ ~Says(frames, frames')
  BY <1>1, ReconnectKeeps
<1>3. Typed'
  <2>1. 0 \in 0 .. 1
    OBVIOUS
  <2>2. known' \in 0 .. 1 /\ advised' \in BOOLEAN /\ pendingLayout' \in BOOLEAN
    BY <1>1, <2>1
  <2> QED BY <1>1, <1>2, <2>2 DEF Typed, host
<1>4. Promised'
  BY <1>1, <1>2 DEF Promised, host
<1> QED BY <1>2, <1>3, <1>4 DEF Kept, Announced

LEMMA DeactivateKeeps ==
  ASSUME Typed, Shape(frames), Deactivate
  PROVE  Kept
<1>1. /\ session = "active" /\ session' = "retired" /\ posted' = FALSE /\ starved' = FALSE
      /\ document' = NoDocument /\ known' = 0
      /\ UNCHANGED <<staged, lock, pending, selfEdit, observed, advised, frames>>
  BY DEF Deactivate
<1>2. known' \in 0 .. 1 /\ starved' \in BOOLEAN /\ posted' \in BOOLEAN
  <2>1. 0 \in 0 .. 1
    OBVIOUS
  <2> QED BY <1>1, <2>1
<1>3. session # "disconnected" /\ session' \in {"active", "retired", "disconnected"} /\ session' # "active"
      /\ session' # "disconnected"
  BY <1>1
<1>4. Typed'
  BY <1>1, <1>2, <1>3 DEF Typed, pending
<1> QED BY <1>1, <1>4, <1>3, SaysNothing DEF Kept, Announced, Promised

LEMMA DisconnectKeeps ==
  ASSUME Typed, Shape(frames), Disconnect
  PROVE  Kept
<1>1. /\ session = "retired" /\ session' = "disconnected" /\ advised' = FALSE /\ Reconnect
      /\ staged' = NoDocument /\ observed' = NoDocument /\ lock' = "none" /\ pendingLock' = "none"
      /\ pendingExternal' = FALSE /\ pendingLayout' = FALSE
      /\ UNCHANGED <<document, selfEdit, posted, starved, known>>
  BY DEF Disconnect
<1>2. Shape(frames') /\ ~Says(frames, frames')
  BY <1>1, ReconnectKeeps
<1>3. /\ lock' \in Access /\ pendingLock' \in Access /\ session' \in {"active", "retired", "disconnected"}
      /\ session' # "active" /\ pendingExternal' \in BOOLEAN /\ pendingLayout' \in BOOLEAN /\ advised' \in BOOLEAN
      /\ document' = NoDocument /\ posted' = FALSE
  BY <1>1 DEF Typed, Access
<1>4. Typed'
  BY <1>1, <1>3 DEF Typed
<1> QED BY <1>1, <1>2, <1>4 DEF Kept, Announced, Promised

-----------------------------------------------------------------------------
(* The invariant holds.                                                    *)

LEMMA StoreInit == Init => StoreInv
<1> SUFFICES ASSUME Init PROVE StoreInv
  OBVIOUS
<1>1. /\ document \in Document /\ observed \in Document /\ observed.text = 0
  BY BoundsAssumption DEF Init, Document
<1>2. frames = <<>> /\ frames \in Seq(Notifying)
  BY EmptySeq DEF Init
<1>3. Shape(frames) /\ TopLock(frames) = "none"
  BY <1>2, CalmFacts
<1>4. Typed
  BY <1>1, <1>3, DocumentFacts, BoundsAssumption DEF Init, Typed, Access
<1>5. Promised
  BY BoundsAssumption DEF Init, Promised
<1>6. changes \in 0 .. MaxChanges
  BY BoundsAssumption DEF Init
<1> QED BY <1>3, <1>4, <1>5, <1>6 DEF StoreInv

LEMMA ChangeKeeps ==
  ASSUME Typed, Shape(frames), Promised, Change
  PROVE  Kept
  BY SetTextKeeps, SetSelectionKeeps, ApplicationEditsKeeps, ViewMovesKeeps DEF Change

LEMMA CallKeeps ==
  ASSUME Typed, Shape(frames), Promised, Call
  PROVE  Kept
  BY RequestLockKeeps, QueueLockKeeps, NotifyPreparedLayoutKeeps, AdviseSinkKeeps, UnadviseSinkKeeps,
     DeactivateKeeps, DisconnectKeeps, DeliverKeeps DEF Call

LEMMA StoreStep ==
  ASSUME StoreInv, [Next]_vars
  PROVE  StoreInv' /\ Announced
<1>1. CASE Change /\ changes < MaxChanges /\ changes' = changes + 1
  <2>1. Kept
    BY <1>1, ChangeKeeps DEF StoreInv
  <2>2. changes' \in 0 .. MaxChanges
    BY <1>1, BoundsAssumption DEF StoreInv
  <2> QED BY <2>1, <2>2 DEF StoreInv, Kept
<1>2. CASE Call /\ UNCHANGED changes
  BY <1>2, CallKeeps DEF StoreInv, Kept
<1>3. CASE Return /\ UNCHANGED changes
  BY <1>3, LockReturnsKeeps, NotificationReturnsKeeps DEF StoreInv, Kept, Return
<1>4. CASE UNCHANGED vars
  <2>1. frames' = frames /\ Typed' /\ Promised' /\ changes' = changes
    BY <1>4 DEF vars, pending, host, StoreInv, Typed, Promised
  <2> QED BY <2>1, SaysNothing DEF StoreInv, Announced
<1> QED BY <1>1, <1>2, <1>3, <1>4 DEF Next

\* The invariant from which the other theorems follow, whatever TSF edits.
THEOREM StoreInvariant == Spec => []StoreInv
  BY StoreInit, StoreStep, PTL DEF Spec

\* The state keeps its types, and a lock is the last of the calls in progress and the only lock, for
\* any depth: none is granted inside another (RequestLock, DispatchPendingLock).
THEOREM StoreTypes == Spec => []TextStoreTypeOK
<1>1. ASSUME StoreInv PROVE TextStoreTypeOK
  <2>1. Typed /\ Shape(frames) /\ changes \in 0 .. MaxChanges
    BY <1>1 DEF StoreInv
  <2>2. \A i \in DOMAIN frames : frames[i].op = "lock" => i = Len(frames)
    <3>1. DOMAIN frames = 1 .. Len(frames) /\ Len(frames) \in Nat
      BY <2>1, LenProperties DEF Shape
    <3>2. \A i \in 1 .. Len(frames) - 1 : frames[i].op = "notify"
      BY <2>1, Kinds DEF Shape
    <3> QED BY <3>1, <3>2
  <2>3. lock = TopLock(frames) <=> lock = IF frames # <<>> /\ Running.op = "lock" THEN Running.access ELSE "none"
    BY DEF TopLock, Running
  <2> QED BY <2>1, <2>2, <2>3 DEF TextStoreTypeOK, Typed
<1> QED BY <1>1, StoreInvariant, PTL

\* Whatever a sink is told, it is advised and the sequence began with it, no lock is held, and what it is
\* told of is the document as it is, however deep the callbacks go and whatever sinks they advise
\* (continuationIsCurrent 1951, notificationTurnIsCurrent 1332).
THEOREM OnlyCurrentIsAnnounced == Spec => AnnouncedIsCurrent
<1>1. Announced => (Announces => /\ advised' /\ Last(frames').same
                                 /\ lock' = "none"
                                 /\ document' = Last(frames').what /\ session' = "active")
  BY DEF Announced, Announces, Says, Told, Running
<1>2. StoreInv /\ [Next]_vars =>
        [Announces => /\ advised' /\ Last(frames').same
                      /\ lock' = "none"
                      /\ document' = Last(frames').what /\ session' = "active"]_vars
  BY <1>1, StoreStep
<1> QED BY <1>2, StoreInvariant, PTL DEF Spec, AnnouncedIsCurrent

-----------------------------------------------------------------------------
(* What TSF was told, when TSF's edits wait for what is unreported.        *)

LEMMA RequestLockTells ==
  ASSUME Typed, Shape(frames), Truthful, NEW access \in {"read", "write"}, RequestLock(access)
  PROVE  Truthful'
<1>1. advised /\ lock = "none" /\ session # "disconnected" /\ StartLock(access, frames)
  BY DEF RequestLock, Typed
<1>2. frames \in Seq(Notifying)
  BY <1>1, Idle
<1>3. /\ selfEdit' = FALSE
      /\ session = "active" => lock' # "none" /\ Running' \in Lock /\ Running'.at \in {"start", "granted"}
  BY <1>1, <1>2, StartLockFacts DEF Running
<1>4. UNCHANGED <<document, staged, pending, observed, advised, known>> /\ session' = session
  BY ScheduleFacts DEF RequestLock, ScheduleIf, host
<1> QED BY <1>1, <1>3, <1>4 DEF Truthful, LockKnows, pending

LEMMA QueueLockTells ==
  ASSUME Typed, Shape(frames), Truthful, NEW access \in {"read", "write"}, QueueLock(access)
  PROVE  Truthful'
<1>1. UNCHANGED <<document, staged, lock, pendingExternal, pendingLayout, selfEdit, observed, advised, frames, known>>
  BY DEF QueueLock
<1>2. session' = session
  BY ScheduleFacts DEF QueueLock
<1> QED BY <1>1, <1>2 DEF Truthful, LockKnows, Running

\* An edit is staged over the text that TSF knows; it is not one that changes nothing.
LEMMA EditTells ==
  ASSUME Typed, Shape(frames), Truthful, ~EditsOverUnreported, document # NoDocument,
         NEW edit \in Document, NEW writes \in BOOLEAN, Edit(edit, Base, writes),
         writes = FALSE => edit.text = Base.text
  PROVE  Truthful'
<1>1. /\ lock = "write" /\ Running.at = "granted" /\ pendingExternal = FALSE /\ document.text = observed.text
      /\ staged' = edit /\ frames' = Append(Below, [Running EXCEPT !.wrote = @ \/ writes])
      /\ selfEdit' = (selfEdit \/ edit # Base)
      /\ UNCHANGED <<document, lock, pending, observed, advised, host, known>>
  BY DEF Edit, Typed
<1>2. Running \in Lock /\ Below \in Seq(Notifying) /\ session = "active"
  BY <1>1, Held, DocumentFacts DEF Typed
<1> DEFINE f == [Running EXCEPT !.wrote = @ \/ writes]
<1>3. f \in Lock /\ f.at = "granted" /\ f.wrote = (Running.wrote \/ writes) /\ Running.wrote \in BOOLEAN
  BY <1>1, <1>2 DEF Lock
<1>4. frames' = Append(Below, f)
  BY <1>1
<1> HIDE DEF f
<1>5. Running' = f
  BY <1>2, <1>3, <1>4, PushFacts DEF Running
<1>6. staged' # NoDocument
  BY <1>1, DocumentFacts
<1>7. LockKnows(Running)
  BY <1>1, <1>2 DEF Truthful
<1>8. Base.text = observed.text \/ (Running.wrote = TRUE /\ selfEdit = TRUE)
  BY <1>1, <1>7 DEF Base, LockKnows
<1>9. (f.wrote = TRUE /\ selfEdit' = TRUE) \/ edit.text = observed.text
  <2>1. CASE edit = Base
    <3>1. CASE Running.wrote = TRUE /\ selfEdit = TRUE
      BY <3>1, <1>1, <1>3
    <3>2. CASE Base.text = observed.text
      BY <2>1, <3>2
    <3> QED BY <1>8, <3>1, <3>2
  <2>2. CASE edit # Base
    <3>1. selfEdit' = TRUE
      BY <2>2, <1>1
    <3>2. CASE writes = TRUE
      BY <3>1, <3>2, <1>3
    <3>3. CASE writes = FALSE
      <4>1. edit.text = Base.text
        BY <3>3
      <4> QED BY <3>1, <4>1, <1>3, <1>8
    <3> QED BY <3>2, <3>3
  <2> QED BY <2>1, <2>2
<1>10. LockKnows(Running)'
  BY <1>1, <1>3, <1>5, <1>6, <1>9 DEF LockKnows, pending
<1> QED BY <1>1, <1>2, <1>10 DEF Truthful, host

LEMMA SetTextTells ==
  ASSUME Typed, Shape(frames), Truthful, ~EditsOverUnreported, NEW text \in 0 .. 1, SetText(text)
  PROVE  Truthful'
<1>1. document # NoDocument
  BY DEF SetText, Edit
<1>2. [Base EXCEPT !.text = text, !.selection = 0] \in Document
  <2>1. Base \in Document /\ 0 \in 0 .. 1
    BY <1>1, BaseFacts
  <2> QED BY <2>1, TextAndSelection
<1> QED BY <1>1, <1>2, EditTells DEF SetText

LEMMA SetSelectionTells ==
  ASSUME Typed, Shape(frames), Truthful, ~EditsOverUnreported, NEW selection \in 0 .. 1, SetSelection(selection)
  PROVE  Truthful'
<1>1. document # NoDocument
  BY DEF SetSelection, Edit
<1>2. Base \in Document
  BY <1>1, BaseFacts
<1>3. [Base EXCEPT !.selection = selection] \in Document /\ [Base EXCEPT !.selection = selection].text = Base.text
  BY <1>2, DocumentFacts
<1> QED BY <1>1, <1>3, EditTells DEF SetSelection

LEMMA TransactionStartedTells ==
  ASSUME Typed, Shape(frames), Truthful, frames # <<>>, Running.op = "lock",
         NEW ok \in BOOLEAN, TransactionStarted(ok)
  PROVE  Truthful'
<1> SUFFICES ASSUME session' = "active" PROVE Truthful'
  BY DEF Truthful
<1>1. Running.at = "start" /\ UNCHANGED <<document, pending, selfEdit, observed, advised, known>>
  BY DEF TransactionStarted
<1>2. CASE ok
  <2>1. frames' = Append(Below, [Running EXCEPT !.at = "granted"]) /\ UNCHANGED <<staged, lock, host>>
    BY <1>2 DEF TransactionStarted
  <2>2. Running \in Lock /\ lock # "none" /\ session = "active"
    BY <2>1, LockRuns DEF host
  <2>3. Running'.at = "granted" /\ Running'.wrote = Running.wrote
    BY <2>1, <2>2, LockMoves DEF Lock, Running
  <2> QED BY <1>1, <2>1, <2>2, <2>3 DEF Truthful, LockKnows, pending
<1>3. CASE ~ok
  <2>1. staged' = NoDocument /\ Release(pendingExternal)
    BY <1>3 DEF TransactionStarted
  <2>2. lock' = "none" /\ session = "active"
    BY <2>1, ReleaseFacts DEF Typed
  <2>3. LockKnows(Running)
    BY <2>2, LockRuns DEF Truthful
  <2> QED BY <1>1, <2>1, <2>2, <2>3 DEF Truthful, LockKnows, pending
<1> QED BY <1>2, <1>3

\* The end of a lock whose edit is over.
LEMMA FinishLockTells ==
  ASSUME Typed, Shape(frames), Truthful, frames # <<>>, Running.op = "lock", NEW ok \in BOOLEAN, FinishLock(ok),
         staged' = NoDocument, UNCHANGED <<document, pendingLock, pendingLayout, selfEdit, advised, known>>,
         session = "active" /\ ok => staged = NoDocument /\ Running.at = "granted",
         session = "active" => pendingExternal = TRUE \/ advised = FALSE \/ document.text = observed.text
  PROVE  Truthful'
<1>1. CASE session = "active"
  <2>1. LockKnows(Running) /\ Running \in Lock /\ lock # "none"
    BY <1>1, LockRuns DEF Truthful
  <2>2. /\ session = "active" /\ (advised = TRUE => observed'.text = observed.text)
        /\ advised = TRUE /\ pendingExternal' = FALSE => document.text = observed'.text
    <3>1. CASE ok /\ (~pendingExternal \/ selfEdit)
      <4>1. observed' = document /\ Capture
        BY <3>1 DEF FinishLock, Capture
      <4>2. selfEdit = FALSE
        BY <1>1, <2>1, <3>1 DEF LockKnows
      <4>3. pendingExternal = FALSE
        BY <3>1, <4>2 DEF Typed
      <4> QED BY <1>1, <4>1, <4>3
    <3>2. CASE ~(ok /\ (~pendingExternal \/ selfEdit))
      <4>1. UNCHANGED <<observed, pendingExternal>>
        BY <3>2 DEF FinishLock
      <4> QED BY <1>1, <4>1
    <3> QED BY <3>1, <3>2
  <2>3. CASE Running.access = "write"
    <3>1. frames' = Append(Below, [Running EXCEPT !.at = "end"]) /\ UNCHANGED <<lock, host>>
      BY <2>3 DEF FinishLock
    <3>2. Running'.at = "end"
      BY <2>1, <3>1, LockMoves DEF Lock, Running
    <3> QED BY <1>1, <2>1, <2>2, <3>1, <3>2 DEF Truthful, LockKnows, host
  <2>4. CASE Running.access # "write"
    <3>1. lock' = "none"
      BY <2>4 DEF FinishLock, Release
    <3> QED BY <1>1, <2>2, <3>1 DEF Truthful
  <2> QED BY <2>3, <2>4
<1>2. CASE session # "active"
  <2>1. session' = session
    BY ScheduleFacts DEF FinishLock, Release, ScheduleIf, host
  <2> QED BY <1>2, <2>1 DEF Truthful
<1> QED BY <1>1, <1>2

LEMMA GrantEndsTells ==
  ASSUME Typed, Shape(frames), Truthful, frames # <<>>, Running.op = "lock", NEW ok \in BOOLEAN, GrantEnds(ok)
  PROVE  Truthful'
<1>1. /\ Running.at = "granted" /\ (session = "active" /\ ok => staged = NoDocument)
      /\ staged' = NoDocument /\ FinishLock(ok)
      /\ UNCHANGED <<document, pendingLock, pendingLayout, selfEdit, advised, known>>
  BY DEF GrantEnds
<1>2. session = "active" => pendingExternal = TRUE \/ advised = FALSE \/ document.text = observed.text
  BY <1>1, LockRuns DEF Truthful, LockKnows, Typed
<1> QED BY <1>1, <1>2, FinishLockTells

LEMMA GrantAppliesTells ==
  ASSUME Typed, Shape(frames), Truthful, frames # <<>>, Running.op = "lock", GrantApplies
  PROVE  Truthful'
<1>1. /\ Running.at = "granted" /\ staged \in Document /\ staged # NoDocument /\ session = "active"
      /\ document' = [staged EXCEPT !.view = document.view]
      /\ frames' = Append(Below, [Running EXCEPT !.at = "apply"])
      /\ UNCHANGED <<staged, lock, pending, selfEdit, observed, advised, host, known>>
  BY DEF GrantApplies, Typed
<1>2. document'.text = staged.text
  BY <1>1 DEF Document
<1>3. LockKnows(Running) /\ Running \in Lock /\ lock # "none"
  BY <1>1, LockRuns DEF Truthful
<1>4. Running'.at = "apply" /\ Running'.wrote = Running.wrote
  BY <1>1, <1>3, LockMoves DEF Lock, Running
<1> QED BY <1>1, <1>2, <1>3, <1>4 DEF Truthful, LockKnows, pending, host

LEMMA ApplyEndsTells ==
  ASSUME Typed, Shape(frames), Truthful, frames # <<>>, Running.op = "lock", ApplyEnds
  PROVE  Truthful'
<1>1. /\ Running.at = "apply" /\ staged' = NoDocument
      /\ UNCHANGED <<document, pendingLock, pendingLayout, selfEdit, advised>>
  BY DEF ApplyEnds
<1>2. CASE document # NoDocument /\ document.text = staged.text
  <2>1. /\ known' = IF advised /\ Running.wrote THEN staged.text ELSE known
        /\ IF selfEdit THEN Capture ELSE pendingExternal' = TRUE /\ UNCHANGED observed
        /\ frames' = Append(Below, [Running EXCEPT !.at = "end"])
        /\ Schedule
        /\ UNCHANGED lock
    BY <1>2 DEF ApplyEnds
  <2>2. session = "active" /\ session' = session
    BY <1>2, <2>1, ScheduleFacts DEF Typed
  <2>3. LockKnows(Running) /\ Running \in Lock /\ lock # "none" /\ Running.wrote \in BOOLEAN
    BY <2>2, LockRuns, Kinds DEF Truthful
  <2>4. Running'.at = "end"
    BY <2>1, <2>3, LockMoves DEF Lock, Running
  <2>5. advised = TRUE => known = observed.text
    BY <2>2 DEF Truthful
  <2>6. staged # NoDocument /\ ((Running.wrote = TRUE /\ selfEdit = TRUE) \/ staged.text = observed.text)
    BY <1>1, <2>3 DEF LockKnows
  <2>7. advised = TRUE => known' = staged.text
    BY <2>1, <2>3, <2>5, <2>6
  <2>8. /\ advised = TRUE => known' = observed'.text
        /\ advised = TRUE /\ pendingExternal' = FALSE => document.text = observed'.text
    <3>1. CASE selfEdit
      <4>1. observed' = document
        BY <2>1, <3>1 DEF Capture
      <4> QED BY <1>2, <2>7, <4>1
    <3>2. CASE ~selfEdit
      BY <2>1, <2>6, <2>7, <3>2
    <3> QED BY <3>1, <3>2
  <2> QED BY <1>1, <2>1, <2>2, <2>3, <2>4, <2>8 DEF Truthful, LockKnows
<1>3. CASE ~(document # NoDocument /\ document.text = staged.text)
  <2>1. FinishLock(FALSE) /\ UNCHANGED known
    BY <1>3 DEF ApplyEnds
  <2>2. session = "active" => pendingExternal = TRUE \/ advised = FALSE \/ document.text = observed.text
    <3>1. ASSUME session = "active" PROVE pendingExternal = TRUE
      <4>1. document # NoDocument
        BY <3>1, DocumentFacts DEF Typed
      <4>2. LockKnows(Running)
        BY <3>1, LockRuns DEF Truthful
      <4> QED BY <1>1, <1>3, <4>1, <4>2 DEF LockKnows
    <3> QED BY <3>1
  <2> QED BY <1>1, <2>1, <2>2, FinishLockTells
<1> QED BY <1>2, <1>3

LEMMA TransactionEndedTells ==
  ASSUME Typed, Shape(frames), Truthful, frames # <<>>, Running.op = "lock", TransactionEnded
  PROVE  Truthful'
<1>1. /\ Running.at = "end" /\ Release(pendingExternal)
      /\ UNCHANGED <<document, staged, pending, selfEdit, observed, advised, known>>
  BY DEF TransactionEnded
<1>2. lock' = "none" /\ session' = session
  BY <1>1, ReleaseFacts DEF Typed
<1>3. session = "active" => LockKnows(Running)
  BY LockRuns DEF Truthful
<1> QED BY <1>1, <1>2, <1>3 DEF Truthful, LockKnows, pending

LEMMA LockReturnsTells ==
  ASSUME Typed, Shape(frames), Truthful, LockReturns
  PROVE  Truthful'
<1>1. frames # <<>> /\ Running.op = "lock"
  BY DEF LockReturns
<1> QED BY <1>1, TransactionStartedTells, GrantEndsTells, GrantAppliesTells, ApplyEndsTells, TransactionEndedTells
           DEF LockReturns

\* A report is of all that changed since the last one, the text first.
LEMMA ReportTells ==
  ASSUME Typed, Truthful, advised = TRUE, session = "active", session' = session, lock = "none", lock' = lock,
         UNCHANGED <<staged, advised>>, document' \in Document,
         NEW below, NEW turn, Report(below, turn), Changes(observed) # <<>>
  PROVE  Truthful'
<1>1. observed' = document' /\ known' = IF Head(Changes(observed)) = "text" THEN document'.text ELSE known
  BY DEF Report, Tell
<1>2. known = observed.text /\ staged = NoDocument
  BY DEF Truthful
<1>3. known' = document'.text
  BY <1>1, <1>2, ChangesFacts
<1> QED BY <1>1, <1>2, <1>3 DEF Truthful

LEMMA ApplicationEditsTells ==
  ASSUME Typed, Shape(frames), Truthful, NEW text \in 0 .. 1, NEW selection \in 0 .. 1,
         ApplicationEdits(text, selection)
  PROVE  Truthful'
<1>1. /\ session = "active" /\ document' = [document EXCEPT !.text = text, !.selection = selection]
      /\ UNCHANGED <<staged, lock, pendingLock, pendingLayout, selfEdit, advised>>
  BY DEF ApplicationEdits
<1>2. document' \in Document
  <2>1. document \in Document
    BY <1>1 DEF Typed
  <2> QED BY <1>1, <2>1, TextAndSelection
<1>3. CASE lock # "none"
  <2>1. pendingExternal' = TRUE /\ Schedule /\ UNCHANGED <<observed, frames, known>>
    BY <1>3 DEF ApplicationEdits
  <2>2. session' = session
    BY <2>1, ScheduleFacts
  <2> QED BY <1>1, <1>3, <2>1, <2>2 DEF Truthful, LockKnows, Running
<1>4. CASE lock = "none" /\ ~advised
  BY <1>1, <1>4 DEF ApplicationEdits, Truthful, host
<1>5. CASE lock = "none" /\ advised /\ Changes(observed) # <<>>
  <2>1. Report(frames, "none") /\ UNCHANGED host
    BY <1>5 DEF ApplicationEdits
  <2>2. advised = TRUE /\ session' = session
    BY <1>5, <2>1 DEF Typed, host
  <2> QED BY <1>1, <1>2, <1>5, <2>1, <2>2, ReportTells
<1>6. CASE lock = "none" /\ advised /\ Changes(observed) = <<>>
  <2>1. UNCHANGED <<observed, known, host>>
    BY <1>6 DEF ApplicationEdits
  <2>2. document' = observed
    BY <1>6, ChangesFacts
  <2> QED BY <1>1, <1>6, <2>1, <2>2 DEF Truthful, host
<1> QED BY <1>3, <1>4, <1>5, <1>6

LEMMA ViewMovesTells ==
  ASSUME Typed, Truthful, ViewMoves
  PROVE  Truthful'
<1>1. /\ document \in Document /\ document' = [document EXCEPT !.view = 1 - @]
      /\ UNCHANGED <<staged, lock, pending, selfEdit, observed, advised, host, frames, known>>
  BY DEF ViewMoves, Typed
<1>2. document'.text = document.text
  BY <1>1 DEF Document
<1> QED BY <1>1, <1>2 DEF Truthful, LockKnows, Running, pending, host

LEMMA NotifyPreparedLayoutTells ==
  ASSUME Typed, Truthful, NotifyPreparedLayout
  PROVE  Truthful'
<1>1. UNCHANGED <<document, staged, lock, pendingLock, pendingExternal, selfEdit, observed, advised>>
  BY DEF NotifyPreparedLayout
<1>2. CASE lock # "none"
  <2>1. Schedule /\ UNCHANGED <<frames, known>>
    BY <1>2 DEF NotifyPreparedLayout
  <2>2. session' = session
    BY <2>1, ScheduleFacts
  <2> QED BY <1>1, <2>1, <2>2 DEF Truthful, LockKnows, Running
<1>3. CASE lock = "none"
  <2>1. Tell(frames, <<"layout">>, document, "none", TRUE) /\ UNCHANGED host
    BY <1>3 DEF NotifyPreparedLayout
  <2>2. known' = known /\ session' = session
    BY <2>1 DEF Tell, host
  <2> QED BY <1>1, <1>3, <2>2 DEF Truthful
<1> QED BY <1>2, <1>3

LEMMA FinishTurnTells ==
  ASSUME Typed, Shape(frames), Truthful, NEW below \in Seq(Notifying), NEW turn, NEW same,
         FinishTurn(below, turn, same), below = frames \/ (frames # <<>> /\ below = Below), lock = "none",
         UNCHANGED <<document, staged, observed, advised, session>>,
         pendingExternal' = pendingExternal \/ advised = FALSE \/ document = observed
  PROVE  Truthful'
<1>1. CASE turn = "layout" /\ TurnIsCurrent(same)
  <2>1. Tell(below, <<"layout">>, document, "lock", same) /\ UNCHANGED <<lock, pendingLock, selfEdit>>
    BY <1>1 DEF FinishTurn
  <2>2. known' = known
    BY <2>1 DEF Tell
  <2> QED BY <2>1, <2>2 DEF Truthful
<1>2. CASE ~(turn = "layout" /\ TurnIsCurrent(same))
  <2>1. DispatchPendingLock(below) /\ UNCHANGED known
    BY <1>2 DEF FinishTurn
  <2>2. CASE pendingLock # "none" /\ advised
    <3>1. StartLock(pendingLock, below) /\ pendingLock \in {"read", "write"}
      BY <2>1, <2>2 DEF DispatchPendingLock, Typed, Access
    <3>2. /\ selfEdit' = FALSE
          /\ session = "active" => lock' # "none" /\ Running' \in Lock /\ Running'.at \in {"start", "granted"}
      BY <2>2, <3>1, StartLockFacts DEF Running
    <3> QED BY <2>1, <3>2 DEF Truthful, LockKnows
  <2>3. CASE ~(pendingLock # "none" /\ advised)
    <3>1. lock' = lock
      BY <2>1, <2>3 DEF DispatchPendingLock
    <3> QED BY <2>1, <3>1 DEF Truthful
  <2> QED BY <2>2, <2>3
<1> QED BY <1>1, <1>2

LEMMA NotificationReturnsTells ==
  ASSUME Typed, Shape(frames), Truthful, NotificationReturns
  PROVE  Truthful'
<1>1. /\ frames # <<>> /\ Running.op = "notify"
      /\ UNCHANGED <<document, staged, pendingExternal, pendingLayout, observed, advised, host>>
  BY DEF NotificationReturns
<1>2. Running \in Notifying /\ Below \in Seq(Notifying)
  BY <1>1, TopFacts, Kinds DEF Running, Below
<1>3. lock = "none" /\ session' = session
  BY <1>1 DEF Typed, TopLock, Running, host
<1>4. CASE Tail(Running.calls) # <<>> /\ ContinuationIsCurrent
  <2>1. Tell(Below, Tail(Running.calls), Running.what, Running.turn, Running.same) /\ UNCHANGED lock
    BY <1>4 DEF NotificationReturns
  <2>2. observed = Running.what
    BY <1>4 DEF ContinuationIsCurrent
  <2>3. known' = known \/ known' = observed.text
    BY <2>1, <2>2 DEF Tell
  <2> QED BY <1>1, <1>3, <2>1, <2>3 DEF Truthful
<1>5. CASE ~(Tail(Running.calls) # <<>> /\ ContinuationIsCurrent) /\ Running.turn = "none"
  <2>1. UNCHANGED <<lock, known>>
    BY <1>5 DEF NotificationReturns
  <2> QED BY <1>1, <1>3, <2>1 DEF Truthful
<1>6. CASE ~(Tail(Running.calls) # <<>> /\ ContinuationIsCurrent) /\ Running.turn # "none"
  <2>1. FinishTurn(Below, IF Head(Running.calls) = "layout" THEN "lock" ELSE Running.turn, Running.same)
    BY <1>6 DEF NotificationReturns
  <2> QED BY <1>1, <1>2, <1>3, <2>1, FinishTurnTells
<1> QED BY <1>4, <1>5, <1>6

LEMMA DeliverTells ==
  ASSUME Typed, Shape(frames), Truthful, Deliver
  PROVE  Truthful'
<1>1. /\ session = "active" /\ document \in Document
      /\ UNCHANGED <<document, staged, advised, session, starved>>
  BY DEF Deliver, Typed
<1>2. CASE lock # "none"
  <2>1. UNCHANGED <<lock, pending, selfEdit, observed, frames, known>>
    BY <1>2 DEF Deliver
  <2> QED BY <1>1, <1>2, <2>1 DEF Truthful, LockKnows, Running, pending
<1>3. CASE lock = "none"
  <2> DEFINE turn == IF pendingLayout THEN "layout" ELSE "lock"
  <2>1. frames \in Seq(Notifying)
    BY <1>1, <1>3, Idle
  <2>2. CASE pendingExternal /\ advised /\ document # observed
    <3>1. Report(frames, turn) /\ UNCHANGED lock
      BY <1>3, <2>2 DEF Deliver
    <3> HIDE DEF turn
    <3>2. Changes(observed) # <<>> /\ advised = TRUE /\ document' \in Document /\ session' = session
      BY <1>1, <2>2, ChangesFacts DEF Typed
    <3> QED BY <1>1, <1>3, <3>1, <3>2, ReportTells
  <2>3. CASE ~(pendingExternal /\ advised /\ document # observed)
    <3>1. /\ pendingExternal' = (pendingExternal /\ ~advised) /\ FinishTurn(frames, turn, TRUE)
          /\ UNCHANGED observed
      BY <1>3, <2>3 DEF Deliver
    <3> HIDE DEF turn
    <3>2. pendingExternal' = pendingExternal \/ advised = FALSE \/ document = observed
      BY <2>3, <3>1 DEF Typed
    <3> QED BY <1>1, <1>3, <2>1, <3>1, <3>2, FinishTurnTells
  <2> QED BY <2>2, <2>3
<1> QED BY <1>2, <1>3

LEMMA AdviseSinkTells ==
  ASSUME Typed, Truthful, AdviseSink
  PROVE  Truthful'
  BY DEF AdviseSink, Capture, Truthful, host

LEMMA UnadviseSinkTells ==
  ASSUME Typed, Shape(frames), Truthful, UnadviseSink
  PROVE  Truthful'
<1>1. /\ advised' = FALSE /\ Reconnect
      /\ UNCHANGED <<document, staged, lock, pendingLock, pendingExternal, selfEdit, observed, host>>
  BY DEF UnadviseSink
<1>2. TopLock(frames) # "none" => Running' = Running
  BY <1>1, ReconnectKeeps DEF Running
<1>3. session = "active" /\ lock # "none" => TopLock(frames) # "none"
  BY DEF Typed
<1> QED BY <1>1, <1>2, <1>3 DEF Truthful, LockKnows, host

LEMMA TruthInit == Init => Truthful
<1>1. Init => /\ lock = "none" /\ staged = NoDocument /\ known = observed.text
              /\ pendingExternal = TRUE \/ document = observed
  BY BoundsAssumption DEF Init
<1> QED BY <1>1 DEF Truthful

LEMMA TruthStep ==
  ASSUME ~EditsOverUnreported, StoreInv, Truthful, [Next]_vars
  PROVE  Truthful'
<1>1. Typed /\ Shape(frames)
  BY DEF StoreInv
<1>2. CASE Change
  BY <1>1, <1>2, SetTextTells, SetSelectionTells, ApplicationEditsTells, ViewMovesTells DEF Change
<1>3. CASE Deactivate \/ Disconnect
  BY <1>3 DEF Deactivate, Disconnect, Truthful
<1>4. CASE Call
  BY <1>1, <1>3, <1>4, RequestLockTells, QueueLockTells, NotifyPreparedLayoutTells, AdviseSinkTells,
     UnadviseSinkTells, DeliverTells DEF Call
<1>5. CASE Return
  BY <1>1, <1>5, LockReturnsTells, NotificationReturnsTells DEF Return
<1>6. CASE UNCHANGED vars
  BY <1>6 DEF vars, pending, host, Truthful, LockKnows, Running
<1> QED BY <1>2, <1>4, <1>5, <1>6 DEF Next

\* When nothing is in progress, what is pending will be done by the message in the queue unless it could
\* not be posted (ReleaseLockAndSchedulePending 2020), whatever TSF edits meanwhile.
THEOREM PendingIsScheduled ==
  Spec => [](frames = <<>> /\ session = "active" /\ advised =>
               (pendingLock # "none" \/ pendingExternal \/ pendingLayout => posted \/ starved))
<1>1. ASSUME StoreInv, frames = <<>>, session = "active", advised,
             pendingLock # "none" \/ pendingExternal \/ pendingLayout
      PROVE  posted \/ starved
  <2>1. lock = "none"
    BY <1>1 DEF StoreInv, Typed, TopLock
  <2>2. ~Turning(frames)
    BY <1>1 DEF Turning
  <2> QED BY <1>1, <2>1, <2>2 DEF StoreInv, Promised
<1>2. StoreInv => (frames = <<>> /\ session = "active" /\ advised =>
                     (pendingLock # "none" \/ pendingExternal \/ pendingLayout => posted \/ starved))
  BY <1>1
<1> QED BY <1>2, StoreInvariant, PTL

\* If TSF does not edit while a change of the application's waits to be reported, what is not pending
\* is done: at rest the text that TSF believes is the document's (CaptureObservedState 1882,
\* NotifyExternalChangesIfNeeded 1897).
THEOREM StoreSettles ==
  ASSUME ~EditsOverUnreported
  PROVE  Spec => []RestIsSettled
<1>1. StoreInv /\ Truthful /\ [Next]_vars => Truthful'
  BY TruthStep
<1>2. Spec => []Truthful
  BY <1>1, TruthInit, StoreInvariant, PTL DEF Spec
<1>3. ASSUME StoreInv, Truthful, frames = <<>>, session = "active", advised
      PROVE  /\ pendingLock # "none" \/ pendingExternal \/ pendingLayout => posted \/ starved
             /\ ~pendingExternal => known = document.text
  <2>1. lock = "none" /\ advised = TRUE
    BY <1>3 DEF StoreInv, Typed, TopLock
  <2>2. ~Turning(frames)
    BY <1>3 DEF Turning
  <2>3. pendingExternal \in BOOLEAN
    BY <1>3 DEF StoreInv, Typed
  <2>4. ~pendingExternal => known = document.text
    BY <1>3, <2>1, <2>3 DEF Truthful
  <2> QED BY <1>3, <2>1, <2>2, <2>4 DEF StoreInv, Promised
<1>4. StoreInv /\ Truthful => RestIsSettled
  BY <1>3 DEF RestIsSettled
<1> QED BY <1>2, <1>4, StoreInvariant, PTL

=============================================================================
