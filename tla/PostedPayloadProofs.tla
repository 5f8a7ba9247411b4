------------------------- MODULE PostedPayloadProofs ------------------------
(***************************************************************************)
(* Proofs about PostedPayload, for every number of payloads, windows,      *)
(* messages and slots.  The properties the runs check are not inductive:   *)
(* OneOwner needs that tokens are fresh and that a payload is in the table *)
(* exactly when its place says so, NoOrphanedSlot that a sender which has  *)
(* its answer no longer has an entry.  Ownership collects what is missing. *)
(***************************************************************************)
EXTENDS PostedPayload, FiniteSetTheorems, TLAPS

\* The table's keys: a payload or a token has at most one entry, and no token is issued twice.
UniqueEntries ==
  /\ \A e, f \in entries : e.token = f.token \/ e.payload = f.payload => e = f
  /\ \A e \in entries : e.token < next

\* A payload is in the table exactly when its place says so.
PlaceIsTrue == \A p \in Payload : place[p] = "table" <=> \E e \in entries : e.payload = p

\* The senders that can still have an entry, and the message that goes with it.
SendersKnow ==
  /\ \A p \in Payload : sender[p] \in {"new", "answered", "true", "false"} => place[p] # "table"
  /\ \A p \in Payload : sender[p] = "new" => place[p] = "own"
  /\ \A p \in Payload : place[p] = "own" => sender[p] \in {"new", "false"}
  /\ \A p \in Payload : sender[p] = "posted" /\ place[p] = "table" => call[p] \in inbox
  /\ \A p \in Payload : sender[p] \in {"registered", "sending"} => call[p] \in Message
  /\ \A e \in entries : call[e.payload] =
       [window |-> e.window, kind |-> e.kind, token |-> e.token, forged |-> FALSE]

Ownership ==
  /\ TypeOK
  /\ UniqueEntries
  /\ PlaceIsTrue
  /\ SendersKnow
  /\ NoEntryOutlivesItsWindow
  /\ windows \subseteq open


USE RegistryAssumption DEF Token, Place, Sender

(* Registering puts a fresh entry in the table, for a payload that had none. *)
LEMMA RegisterEntry ==
  ASSUME Ownership, NEW p \in Payload, NEW w \in Window, NEW k \in Kind,
         sender[p] = "new", Accepts(w), Register(p, w, k)
  PROVE  /\ NewEntry(p, w, k) \in Entry /\ NewMessage(w, k) \in Message
         /\ entries' \subseteq Entry /\ next' \in 1 .. MaxToken
         /\ place' \in [Payload -> Place] /\ call' \in [Payload -> Message \cup {None}]
         /\ UniqueEntries'
         /\ PlaceIsTrue'
         /\ \A e \in entries' : call'[e.payload] =
              [window |-> e.window, kind |-> e.kind, token |-> e.token, forged |-> FALSE]
<1> DEFINE new == NewEntry(p, w, k)
<1>1. next \in Token /\ place[p] = "own" /\ \A e \in entries : e.payload # p
  BY DEF Ownership, TypeOK, Accepts, SendersKnow, PlaceIsTrue
<1>2. new \in Entry /\ NewMessage(w, k) \in Message
  BY <1>1 DEF Ownership, TypeOK, NewEntry, NewMessage, Entry, Message
<1>3. new.token = next /\ new.payload = p /\ new.window = w /\ new.kind = k
  BY DEF NewEntry
<1>4. entries' = entries \cup {new} /\ next' = next + 1
  BY DEF Register
<1>5. place' = [place EXCEPT ![p] = "table"] /\ call' = [call EXCEPT ![p] = NewMessage(w, k)]
  BY DEF Register, Move
<1> HIDE DEF new
<1>6. UniqueEntries'
  BY <1>1, <1>3, <1>4 DEF Ownership, TypeOK, UniqueEntries, Entry
<1>7. PlaceIsTrue'
  BY <1>1, <1>3, <1>4, <1>5 DEF Ownership, TypeOK, PlaceIsTrue, Entry
<1>8. ASSUME NEW e \in entries'
      PROVE call'[e.payload] = [window |-> e.window, kind |-> e.kind, token |-> e.token, forged |-> FALSE]
  <2>1. CASE e = new
    BY <1>3, <1>5, <2>1 DEF Ownership, TypeOK, NewMessage
  <2>2. CASE e \in entries
    BY <1>1, <1>5, <2>2 DEF Ownership, TypeOK, SendersKnow, Entry
  <2> QED BY <1>4, <2>1, <2>2
<1> QED BY <1>1, <1>2, <1>4, <1>5, <1>6, <1>7, <1>8 DEF Ownership, TypeOK, new


(* Every step keeps the invariant.                                         *)
LEMMA OwnershipStep == Ownership /\ [Next]_vars => Ownership'
<1> SUFFICES ASSUME Ownership, [Next]_vars PROVE Ownership'
  OBVIOUS
<1> USE DEF Ownership, TypeOK, UniqueEntries, PlaceIsTrue, SendersKnow, NoEntryOutlivesItsWindow
<1>1. ASSUME NEW p \in Payload, NEW w \in Window, NEW k \in Kind, Post(p, w, k) PROVE Ownership'
  <2>1. Accepts(w) /\ w \in open /\ Register(p, w, k) /\ sender[p] = "new"
    BY <1>1 DEF Post, PostMessagePayload
  <2>2. /\ sender' = [sender EXCEPT ![p] = "posted"]
        /\ inbox' = inbox \cup {NewMessage(w, k)} /\ UNCHANGED <<windows, open, life>>
    BY <1>1 DEF Post, PostMessagePayload, Register, Advance
  <2>3. TypeOK' /\ UniqueEntries' /\ PlaceIsTrue'
    BY <2>1, <2>2, RegisterEntry
  <2>4. SendersKnow'
    <3>1. /\ place' = [place EXCEPT ![p] = "table"] /\ call' = [call EXCEPT ![p] = NewMessage(w, k)]
          /\ NewMessage(w, k) \in Message
      <4>1. NewMessage(w, k) \in Message
        BY <2>1, RegisterEntry
      <4> QED BY <2>1, <4>1 DEF Register, Move
    <3>2. \A e \in entries' : call'[e.payload] =
            [window |-> e.window, kind |-> e.kind, token |-> e.token, forged |-> FALSE]
      BY <2>1, RegisterEntry
    <3>3. ASSUME NEW q \in Payload
          PROVE  /\ sender'[q] \in {"new", "answered", "true", "false"} => place'[q] # "table"
                 /\ sender'[q] = "new" => place'[q] = "own"
                 /\ place'[q] = "own" => sender'[q] \in {"new", "false"}
                 /\ sender'[q] = "posted" /\ place'[q] = "table" => call'[q] \in inbox'
                 /\ sender'[q] \in {"registered", "sending"} => call'[q] \in Message
      BY <2>2, <3>1
    <3> QED BY <3>2, <3>3
  <2>5. (NoEntryOutlivesItsWindow /\ windows \subseteq open)'
    BY <2>1, <2>2 DEF Register, Accepts, NewEntry
  <2> QED BY <2>3, <2>4, <2>5
<1>2. ASSUME NEW p \in Payload, NEW w \in Window, NEW k \in Kind, SendRegisters(p, w, k) PROVE Ownership'
  <2>1. Accepts(w) /\ Register(p, w, k) /\ sender[p] = "new"
    BY <1>2 DEF SendRegisters
  <2>2. sender' = [sender EXCEPT ![p] = "registered"] /\ UNCHANGED <<windows, open, life, inbox>>
    BY <1>2 DEF SendRegisters, Register, Advance, system
  <2>3. TypeOK' /\ UniqueEntries' /\ PlaceIsTrue'
    BY <2>1, <2>2, RegisterEntry
  <2>4. SendersKnow'
    <3>1. /\ place' = [place EXCEPT ![p] = "table"] /\ call' = [call EXCEPT ![p] = NewMessage(w, k)]
          /\ NewMessage(w, k) \in Message
      <4>1. NewMessage(w, k) \in Message
        BY <2>1, RegisterEntry
      <4> QED BY <2>1, <4>1 DEF Register, Move
    <3>2. \A e \in entries' : call'[e.payload] =
            [window |-> e.window, kind |-> e.kind, token |-> e.token, forged |-> FALSE]
      BY <2>1, RegisterEntry
    <3>3. ASSUME NEW q \in Payload
          PROVE  /\ sender'[q] \in {"new", "answered", "true", "false"} => place'[q] # "table"
                 /\ sender'[q] = "new" => place'[q] = "own"
                 /\ place'[q] = "own" => sender'[q] \in {"new", "false"}
                 /\ sender'[q] = "posted" /\ place'[q] = "table" => call'[q] \in inbox'
                 /\ sender'[q] \in {"registered", "sending"} => call'[q] \in Message
      BY <2>2, <3>1
    <3> QED BY <3>2, <3>3
  <2>5. (NoEntryOutlivesItsWindow /\ windows \subseteq open)'
    BY <2>1, <2>2 DEF Register, Accepts, NewEntry
  <2> QED BY <2>3, <2>4, <2>5
<1>3. ASSUME NEW p \in Payload, NEW w \in Window, Refused(p, w) PROVE Ownership'
  BY <1>3 DEF Refused, PostFails, Accepts, Advance, registry, system, Entry
<1>4. ASSUME NEW p \in Payload, Send(p) PROVE Ownership'
  BY <1>4 DEF Send, Advance, registry
<1>5. ASSUME NEW p \in Payload, SendReturns(p) PROVE Ownership'
  BY <1>5 DEF SendReturns, Advance, registry, system
<1>6. ASSUME NEW p \in Payload, SendTimesOut(p) PROVE Ownership'
  BY <1>6 DEF SendTimesOut, Advance, registry, system
<1>7. ASSUME NEW p \in Payload, SendReclaims(p) PROVE Ownership'
  BY <1>7 DEF SendReclaims, ReclaimMessagePayload, EntriesOf, Move, Advance, system, Entry
<1>8. ASSUME NEW p \in Payload, Delete(p) PROVE Ownership'
  BY <1>8 DEF Delete, Destroy, Move, system, senders, Entry
<1>9. ASSUME NEW m \in inbox, Receive(m) PROVE Ownership'
  <2> DEFINE found == {e \in entries : Matches(e, m)}
  <2>1. /\ inbox' = inbox \ {m} /\ entries' = entries \ found
        /\ place' = [p \in Payload |-> IF \E e \in found : e.payload = p THEN "taken" ELSE place[p]]
        /\ sender' = [p \in Payload |-> IF call[p] = m /\ sender[p] = "sending" THEN "answered" ELSE sender[p]]
        /\ UNCHANGED <<windows, next, open, life, call>>
    BY <1>9 DEF Receive, TakeMessagePayload
  <2>2. TypeOK' /\ UniqueEntries' /\ (NoEntryOutlivesItsWindow /\ windows \subseteq open)'
    BY <2>1
  <2>3. PlaceIsTrue'
    BY <2>1 DEF Entry
  <2>4. ASSUME NEW e \in entries, call[e.payload] = m PROVE e \in found
    <3>1. m = [window |-> e.window, kind |-> e.kind, token |-> e.token, forged |-> FALSE]
      BY <2>4
    <3>2. m.window = e.window /\ m.kind = e.kind /\ m.token = e.token
      BY ONLY <3>1
    <3> QED BY <3>2 DEF Matches
  <2>5. \A p \in Payload : call[p] = m => place'[p] # "table"
    BY <2>1, <2>3, <2>4
  <2>6. SendersKnow'
    BY <2>1, <2>5 DEF Entry
  <2> QED BY <2>2, <2>3, <2>6
<1>10. ASSUME NEW w \in Window, Attach(w) PROVE Ownership'
  BY <1>10 DEF Attach, InitPostedPayloadWindow, system, senders
<1>11. ASSUME NEW w \in Window, Detach(w) PROVE Ownership'
  BY <1>11 DEF Detach, DrainPostedPayloadsForWindow, system, senders, Entry
<1>12. ASSUME NEW w \in Window, OpenWindow(w) PROVE Ownership'
  BY <1>12 DEF OpenWindow, registry, senders
<1>13. ASSUME NEW w \in Window, CloseWindow(w) PROVE Ownership'
  <2>1. /\ w \in open /\ w \notin windows /\ open' = open \ {w}
        /\ life' = [life EXCEPT ![w] = @ + 1]
        /\ inbox' = {m \in inbox : m.window # w}
        /\ sender' = [p \in Payload |-> IF sender[p] = "sending" /\ call[p] \in inbox /\ call[p].window = w THEN "failed" ELSE sender[p]]
        /\ UNCHANGED <<entries, windows, next, place, call>>
    BY <1>13 DEF CloseWindow, registry
  <2>2. TypeOK' /\ UniqueEntries' /\ PlaceIsTrue' /\ (NoEntryOutlivesItsWindow /\ windows \subseteq open)'
    BY <2>1 DEF Entry
  <2>3. ASSUME NEW p \in Payload, place[p] = "table" PROVE call[p].window # w
    <3>1. PICK e \in entries : e.payload = p
      BY <2>3
    <3>2. call[p] = [window |-> e.window, kind |-> e.kind, token |-> e.token, forged |-> FALSE]
      BY <3>1
    <3>3. call[p].window = e.window
      BY ONLY <3>2
    <3> QED BY <2>1, <3>1, <3>3
  <2>4. SendersKnow'
    BY <2>1, <2>3
  <2> QED BY <2>2, <2>4
<1>14. ASSUME NEW w \in Window, NEW k \in Kind, NEW n \in Token, Forge(w, k, n) PROVE Ownership'
  <2>1. [window |-> w, kind |-> k, token |-> n, forged |-> TRUE] \in Message
    BY DEF Message
  <2>2. UNCHANGED <<entries, windows, next, place, open, life, sender, call>> /\ inbox \subseteq inbox' /\ inbox' \subseteq Message
    BY <1>14, <2>1 DEF Forge, registry, senders
  <2> QED BY <2>2
<1>15. CASE UNCHANGED vars
  BY <1>15 DEF vars, registry, system, senders
<1> QED
  BY <1>1, <1>2, <1>3, <1>4, <1>5, <1>6, <1>7, <1>8, <1>9, <1>10, <1>11, <1>12, <1>13, <1>14, <1>15 DEF Next


-----------------------------------------------------------------------------
(* The theorems.                                                           *)

\* The invariant holds in the initial states.
LEMMA OwnershipInit == Init => Ownership
  BY DEF Init, Ownership, TypeOK, UniqueEntries, PlaceIsTrue, SendersKnow, NoEntryOutlivesItsWindow

\* The invariant holds in every reachable state.
LEMMA OwnershipHolds == Spec => []Ownership
  BY OwnershipInit, OwnershipStep, PTL DEF Spec

\* Every variable keeps its type, however many payloads, windows and slots there are.
THEOREM TypeCorrect == Spec => []TypeOK
  BY OwnershipHolds, PTL DEF Ownership

\* A payload is owned once: no interleaving of posts, sends that time out, deliveries, forged
\* messages and drains frees it twice or loses it (PostedPayload.h:77-208).
THEOREM PayloadHasOneOwner == Spec => []OneOwner
<1>1. Ownership => OneOwner
  <2> SUFFICES ASSUME Ownership PROVE OneOwner
    OBVIOUS
  <2>1. ASSUME NEW p \in Payload
        PROVE  Cardinality(EntriesOf(p)) = IF place[p] = "table" THEN 1 ELSE 0
    <3>1. CASE place[p] = "table"
      <4>1. PICK e \in entries : e.payload = p
        BY <3>1 DEF Ownership, PlaceIsTrue
      <4>2. EntriesOf(p) = {e}
        BY <4>1 DEF Ownership, UniqueEntries, EntriesOf
      <4> QED BY <3>1, <4>2, FS_Singleton
    <3>2. CASE place[p] # "table"
      <4>1. EntriesOf(p) = {}
        BY <3>2 DEF Ownership, PlaceIsTrue, EntriesOf
      <4> QED BY <3>2, <4>1, FS_EmptySet
    <3> QED BY <3>1, <3>2
  <2> QED BY <2>1 DEF OneOwner, Ownership, UniqueEntries
<1> QED BY <1>1, OwnershipHolds, PTL

\* No payload of a destroyed window is left in the table, so that a reused HWND value gets none of
\* its predecessor's (PostedPayload.h:77-97).
THEOREM WindowLeavesNothing == Spec => []NoEntryOutlivesItsWindow
  BY OwnershipHolds, PTL DEF Ownership

\* A slot is held only while a message or a sender can still free it (PostedPayload.h:99-193).
THEOREM SlotsAreReturned == Spec => []NoOrphanedSlot
<1>1. Ownership => NoOrphanedSlot
  <2> SUFFICES ASSUME Ownership, NEW e \in entries,
                      sender[e.payload] \notin {"registered", "sending", "answered", "failed"}
               PROVE  \E m \in inbox : ~m.forged /\ Matches(e, m)
    BY DEF NoOrphanedSlot
  <2>1. e.payload \in Payload /\ place[e.payload] = "table"
    BY DEF Ownership, TypeOK, Entry, PlaceIsTrue
  <2>2. sender[e.payload] = "posted"
    BY <2>1 DEF Ownership, TypeOK, SendersKnow
  <2>3. call[e.payload] \in inbox
    BY <2>1, <2>2 DEF Ownership, SendersKnow
  <2>4. call[e.payload] = [window |-> e.window, kind |-> e.kind, token |-> e.token, forged |-> FALSE]
    BY DEF Ownership, SendersKnow
  <2>5. ~call[e.payload].forged /\ Matches(e, call[e.payload])
    BY ONLY <2>4 DEF Matches
  <2> QED BY <2>3, <2>5
<1> QED BY <1>1, OwnershipHolds, PTL

\* A payload whose sender was told FALSE is never handed to the receiver afterwards
\* (PostedPayload.h:154-193).
THEOREM RefusedStaysRefused == Spec => GivenUpIsNeverTaken
<1>1. Ownership /\ [Next]_vars =>
        [\A p \in Payload : sender[p] = "false" => ~(place[p] # "taken" /\ place'[p] = "taken")]_vars
  <2> SUFFICES ASSUME Ownership, Next, NEW p \in Payload,
                      sender[p] = "false", place[p] # "taken", place'[p] = "taken"
               PROVE  FALSE
    OBVIOUS
  <2>1. place[p] # "table" /\ \A e \in entries : e.payload # p
    BY DEF Ownership, SendersKnow, PlaceIsTrue
  <2>2. place \in [Payload -> Place]
    BY DEF Ownership, TypeOK
  <2>3. ASSUME NEW q \in Payload, NEW w \in Window, NEW k \in Kind, Post(q, w, k) \/ SendRegisters(q, w, k)
        PROVE  FALSE
    BY <2>2, <2>3 DEF Post, PostMessagePayload, SendRegisters, Register, Move
  <2>4. ASSUME NEW q \in Payload, SendReclaims(q) \/ Delete(q) PROVE FALSE
    BY <2>2, <2>4 DEF SendReclaims, ReclaimMessagePayload, Delete, Destroy, Move
  <2>5. ASSUME NEW m \in inbox, Receive(m) PROVE FALSE
    BY <2>1, <2>2, <2>5 DEF Receive, TakeMessagePayload
  <2>6. ASSUME NEW w \in Window, Detach(w) PROVE FALSE
    BY <2>2, <2>6 DEF Detach, DrainPostedPayloadsForWindow
  <2>7. UNCHANGED place => FALSE
    OBVIOUS
  <2> QED
    BY <2>3, <2>4, <2>5, <2>6, <2>7 DEF Next, Refused, PostFails, Send, SendReturns, SendTimesOut,
      Attach, InitPostedPayloadWindow, OpenWindow, CloseWindow, Forge, registry
<1> QED BY <1>1, OwnershipHolds, PTL DEF Spec, GivenUpIsNeverTaken

-----------------------------------------------------------------------------
(* The refinement.                                                         *)

\* Where a step leaves place and sender as they are, the abstract specification stutters.
LEMMA Stutters ==
  ASSUME UNCHANGED <<place, sender>>
  PROVE  UNCHANGED Transfer!vars
  BY DEF Transfer!vars, Holder, Answer

\* Each step is one of PayloadTransfer's or a stutter.
LEMMA TransferStep == Ownership /\ [Next]_vars => [Transfer!Next]_(Transfer!vars)
<1> SUFFICES ASSUME Ownership, [Next]_vars PROVE [Transfer!Next]_(Transfer!vars)
  OBVIOUS
<1> USE DEF Ownership, TypeOK, Holder, Answer
<1>1. ASSUME NEW p \in Payload, NEW w \in Window, NEW k \in Kind, Post(p, w, k)
      PROVE  Transfer!Entrust(p, "true")
  BY <1>1 DEF Transfer!Entrust, Post, PostMessagePayload, Register, Move, Advance, SendersKnow
<1>2. ASSUME NEW p \in Payload, NEW w \in Window, NEW k \in Kind, SendRegisters(p, w, k)
      PROVE  Transfer!Entrust(p, "none")
  BY <1>2 DEF Transfer!Entrust, SendRegisters, Register, Move, Advance, SendersKnow
<1>3. ASSUME NEW p \in Payload, NEW w \in Window, Refused(p, w) PROVE Transfer!Tell(p, "false")
  BY <1>3 DEF Transfer!Tell, Refused, PostFails, registry, Advance, SendersKnow
<1>4. ASSUME NEW p \in Payload, Send(p) \/ SendTimesOut(p) PROVE UNCHANGED Transfer!vars
  BY <1>4 DEF Transfer!vars, Send, SendTimesOut, Advance, registry
<1>5. ASSUME NEW p \in Payload, SendReturns(p) PROVE Transfer!Tell(p, "true")
  BY <1>5 DEF Transfer!Tell, SendReturns, Advance, registry, SendersKnow
<1>6. ASSUME NEW p \in Payload, SendReclaims(p) PROVE Transfer!Withdraw(p) \/ Transfer!Tell(p, "false")
  <2>1. sender[p] = "failed" /\ sender' = [sender EXCEPT ![p] = "false"]
    BY <1>6 DEF SendReclaims, Advance
  <2>2. CASE place[p] = "table"
    <3>1. place' = [place EXCEPT ![p] = "removed"]
      BY <1>6, <2>2 DEF SendReclaims, ReclaimMessagePayload, EntriesOf, Move, PlaceIsTrue
    <3> QED BY <2>1, <2>2, <3>1 DEF Transfer!Withdraw
  <2>3. CASE place[p] # "table"
    <3>1. UNCHANGED place
      BY <1>6, <2>3 DEF SendReclaims, ReclaimMessagePayload, EntriesOf, Move, PlaceIsTrue
    <3> QED BY <2>1, <2>3, <3>1 DEF Transfer!Tell
  <2> QED BY <2>2, <2>3
<1>7. ASSUME NEW p \in Payload, Delete(p) PROVE Transfer!Discard(p) \/ UNCHANGED Transfer!vars
  BY <1>7 DEF Transfer!Discard, Transfer!vars, Delete, Destroy, Move, senders
<1>8. ASSUME NEW m \in inbox, Receive(m)
      PROVE  UNCHANGED Transfer!vars \/ \E p \in Payload : Transfer!Hand(p)
  <2> DEFINE found == {e \in entries : Matches(e, m)}
  <2>1. /\ place' = [p \in Payload |-> IF \E e \in found : e.payload = p THEN "taken" ELSE place[p]]
        /\ sender' = [p \in Payload |-> IF call[p] = m /\ sender[p] = "sending" THEN "answered" ELSE sender[p]]
    BY <1>8 DEF Receive, TakeMessagePayload
  <2>2. \A p \in Payload : Answer(p)' = Answer(p)
    BY <2>1
  <2>3. CASE found = {}
    <3>1. \A p \in Payload : Holder(p)' = Holder(p)
      BY <2>1, <2>3
    <3> QED BY <2>2, <3>1 DEF Transfer!vars
  <2>4. CASE found # {}
    <3>1. PICK e \in found : TRUE
      BY <2>4
    <3>2. e.payload \in Payload /\ place[e.payload] = "table" /\ sender[e.payload] # "false"
      BY <3>1 DEF Entry, PlaceIsTrue, SendersKnow
    <3>3. found = {e}
      BY <3>1 DEF Matches, UniqueEntries
    <3>4. place' = [place EXCEPT ![e.payload] = "taken"]
      BY <2>1, <3>2, <3>3
    <3>5. Transfer!Hand(e.payload)
      BY <2>2, <3>2, <3>4 DEF Transfer!Hand
    <3> QED BY <3>2, <3>5
  <2> QED BY <2>3, <2>4
<1>9. ASSUME NEW w \in Window, Detach(w) PROVE \E P \in SUBSET Payload : Transfer!Forget(P)
  <2>1. PICK P \in SUBSET Payload : P = {p \in Payload : \E e \in entries : e.window = w /\ e.payload = p}
    OBVIOUS
  <2>2. place' = [p \in Payload |-> IF p \in P THEN "removed" ELSE place[p]] /\ UNCHANGED sender
    BY <1>9, <2>1 DEF Detach, DrainPostedPayloadsForWindow, senders
  <2>3. \A p \in P : place[p] = "table"
    BY <2>1 DEF PlaceIsTrue
  <2>4. Transfer!Forget(P)
    BY <2>2, <2>3 DEF Transfer!Forget
  <2> QED BY <2>4
<1>10. ASSUME NEW w \in Window, Attach(w) \/ OpenWindow(w) PROVE UNCHANGED Transfer!vars
  BY <1>10, Stutters DEF Attach, InitPostedPayloadWindow, OpenWindow, senders, registry
<1>11. ASSUME NEW w \in Window, CloseWindow(w) PROVE UNCHANGED Transfer!vars
  BY <1>11 DEF Transfer!vars, CloseWindow, registry
<1>12. ASSUME NEW w \in Window, NEW k \in Kind, NEW n \in Token, Forge(w, k, n) PROVE UNCHANGED Transfer!vars
  BY <1>12, Stutters DEF Forge, registry, senders
<1>13. CASE UNCHANGED vars
  BY <1>13, Stutters DEF vars, registry, senders
<1>14. {"true", "false", "none"} = Transfer!Answer
  BY DEF Transfer!Answer
<1> QED
  BY <1>1, <1>2, <1>3, <1>4, <1>5, <1>6, <1>7, <1>8, <1>9, <1>10, <1>11, <1>12, <1>13, <1>14 DEF Next, Transfer!Next

\* The registry implements what PayloadTransfer promises, whatever the numbers of payloads, windows
\* and slots (PostedPayload.h:50-209).
THEOREM RegistryImplementsTransfer == Spec => TransferSpec
<1>1. Init => Transfer!Init
  BY DEF Init, Transfer!Init, Holder, Answer
<1> QED BY <1>1, TransferStep, OwnershipHolds, PTL DEF Spec, TransferSpec, Transfer!Spec

=============================================================================
