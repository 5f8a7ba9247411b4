--------------------------- MODULE UiActionProofs ---------------------------
(***************************************************************************)
(* Theorems of UiActionDispatch: what a client is told of its action, for  *)
(* any number of calls and windows.                                        *)
(*                                                                         *)
(* Two threads and a destructor on either of them write one dispatch.      *)
(* Where the payload is tells who may write next (Handled): the window's   *)
(* thread while it has taken the payload, the destructor after that, and   *)
(* nobody once the event is set.  What the caller has seen of the state    *)
(* tells what it may still find (Answered).                                *)
(***************************************************************************)
EXTENDS UiActionDispatch, TLAPS

\* An entry is found by its token, and a payload is in the table exactly when
\* its place says so.
Keyed ==
  /\ inbox \subseteq Message /\ life \in [Window -> Nat]
  /\ \A e, f \in entries : e.token = f.token \/ e.payload = f.payload => e = f
  /\ \A e \in entries : e.token < next
  /\ \A p \in Payload : place[p] = "table" <=> \E e \in entries : e.payload = p

Unwritten(p) == runs[p] = 0 /\ result[p] = "notRun"
HasRun(p)    == state[p] = "Taken" /\ runs[p] = 1 /\ result[p] = "ran"
Undecided(p) == state[p] # "Taken" /\ Unwritten(p)
NeverRuns(p) == state[p] = "Abandoned" /\ runs[p] = 0 /\ result[p] # "ran"

\* What has been written, by where the payload is and how far its handler is.
Handled ==
  \A p \in Payload :
    /\ stage[p] = "idle" <=> place[p] # "taken"
    /\ place[p] \in {"own", "table"} \/ stage[p] = "took" => Undecided(p)
    /\ stage[p] = "running" => state[p] = "Taken" /\ Unwritten(p)
    /\ stage[p] = "drop" => HasRun(p) \/ (state[p] = "Abandoned" /\ Unwritten(p))
    /\ place[p] = "removed" => HasRun(p) \/ Undecided(p)
    /\ place[p] = "cancelling" => state[p] = "Abandoned" /\ Unwritten(p)
    /\ place[p] \in {"signalling", "gone"} => HasRun(p) \/ NeverRuns(p)
    /\ event[p] = (place[p] = "gone")

\* What the caller knows: an action that is abandoned was abandoned by the
\* caller, who does not look at the result again, or by the destructor.
Answered ==
  \A p \in Payload :
    /\ sender[p] = "new" => place[p] = "own"
    /\ place[p] = "own" => sender[p] \in {"new", "done"}
    /\ state[p] = "Abandoned" /\ sender[p] \notin {"abandoning", "done"} =>
         place[p] = "cancelling" \/ (place[p] \in {"signalling", "gone"} /\ result[p] = "cancelled")
    /\ sender[p] = "lastLook" => state[p] = "Taken"
    /\ sender[p] = "done" => place[p] # "table"
    /\ returned[p] = None <=> sender[p] # "done"
    /\ returned[p] = "ran" => HasRun(p)
    /\ returned[p] = "cancelled" => state[p] = "Abandoned"
    /\ returned[p] # "notRun"

ActionInv == DTypeOK /\ Keyed /\ Handled /\ Answered

-----------------------------------------------------------------------------
(* Functions of which one value is set.                                    *)

\* A function of which at most one value is set keeps its type.
LEMMA KeptOrSet ==
  ASSUME NEW S, NEW T, NEW f \in [S -> T], NEW p, NEW v \in T, NEW g, g = f \/ g = [f EXCEPT ![p] = v]
  PROVE  g \in [S -> T]
  OBVIOUS

LEMMA EventSet ==
  ASSUME NEW p \in Payload, event \in [Payload -> BOOLEAN], event' = [event EXCEPT ![p] = TRUE]
  PROVE  event'[p] = TRUE /\ \A q \in Payload \ {p} : event'[q] = event[q]
  OBVIOUS

-----------------------------------------------------------------------------
(* Every step keeps the invariant: the types, the keys, what is written    *)
(* and what the caller knows.                                              *)

LEMMA StepTypes ==
  ASSUME ActionInv, [DNext]_dvars
  PROVE  DTypeOK'
  <1> USE RegistryAssumption, DispatchAssumption DEF ActionInv, DTypeOK, Keyed,
      Move, Advance, At, Place, Caller, Result, registry, system, senders,
      vars, dispatches, handlers
  <1>1. ASSUME NEW p \in Payload, NEW w \in Window, NEW k \in Kind, CallPosts(p, w, k) PROVE DTypeOK'
    BY <1>1 DEF CallPosts, PostMessagePayload, Register, Accepts, NewEntry, NewMessage, Entry, Message, Token
  <1>2. ASSUME NEW p \in Payload, NEW w \in Window, CallRefused(p, w) PROVE DTypeOK'
    BY <1>2 DEF CallRefused, Accepts, Return
  <1>3. ASSUME NEW p \in Payload, CallFindsNoWindow(p) PROVE DTypeOK'
    BY <1>3 DEF CallFindsNoWindow, Return
  <1>4. ASSUME NEW p \in Payload, CallAnswered(p) PROVE DTypeOK'
    BY <1>4 DEF CallAnswered, Return
  <1>5. ASSUME NEW p \in Payload, CallTimesOut(p) PROVE DTypeOK'
    BY <1>5 DEF CallTimesOut
  <1>6. ASSUME NEW p \in Payload, Abandon(p) PROVE DTypeOK'
    <2>1. CASE state[p] = "Pending"
      <3>1. UNCHANGED <<entries, windows, next, open, place, event, result, runs, returned, handlers>>
        BY <1>6, <2>1 DEF Abandon
      <3>2. state' = [state EXCEPT ![p] = "Abandoned"] /\ sender' = [sender EXCEPT ![p] = "abandoning"]
        BY <1>6, <2>1 DEF Abandon
      <3> QED
        BY <3>1, <3>2
    <2>2. CASE state[p] # "Pending"
      <3>1. UNCHANGED <<entries, windows, next, open, place, dispatches, handlers>>
        BY <1>6, <2>2 DEF Abandon
      <3>2. PICK c \in {"lastLook", "done"} : sender' = [sender EXCEPT ![p] = c]
        BY <1>6, <2>2 DEF Abandon, Return
      <3>3. returned' = returned \/ returned' = [returned EXCEPT ![p] = "timeout"]
        BY <1>6, <2>2 DEF Abandon, Return
      <3>4. sender' \in [Payload -> Caller]
        BY <3>2, KeptOrSet
      <3>5. returned' \in [Payload -> Result \cup {"timeout", "unavailable", None}]
        BY <3>3, KeptOrSet
      <3> QED
        BY <3>1, <3>4, <3>5
    <2> QED
      BY <2>1, <2>2
  <1>7. ASSUME NEW p \in Payload, ReclaimAbandoned(p) PROVE DTypeOK'
    BY <1>7 DEF ReclaimAbandoned, ReclaimMessagePayload, EntriesOf, Return
  <1>8. ASSUME NEW p \in Payload, LastLook(p) PROVE DTypeOK'
    BY <1>8 DEF LastLook, Return
  <1>9. ASSUME NEW p \in Payload, BeginDelete(p) PROVE DTypeOK'
    <2>1. CASE state[p] = "Pending"
      <3>1. UNCHANGED <<entries, windows, next, open, sender, event, result, runs, returned, handlers>>
        BY <1>9, <2>1 DEF BeginDelete
      <3>2. place' = [place EXCEPT ![p] = "cancelling"] /\ state' = [state EXCEPT ![p] = "Abandoned"]
        BY <1>9, <2>1 DEF BeginDelete
      <3> QED
        BY <3>1, <3>2
    <2>2. CASE state[p] # "Pending"
      BY <1>9, <2>2 DEF BeginDelete
    <2> QED
      BY <2>1, <2>2
  <1>10. ASSUME NEW p \in Payload, EndDelete(p) PROVE DTypeOK'
    BY <1>10 DEF EndDelete
  <1>11. ASSUME NEW p \in Payload, ClaimAction(p) PROVE DTypeOK'
    <2>1. UNCHANGED <<entries, windows, next, open, place, sender, event, result, runs, returned, handling>>
      BY <1>11 DEF ClaimAction
    <2>2. state' = [state EXCEPT ![p] = "Taken"] \/ state' = state
      BY <1>11 DEF ClaimAction
    <2>3. PICK h \in {"running", "drop"} : stage' = [stage EXCEPT ![p] = h]
      BY <1>11 DEF ClaimAction
    <2>4. state' \in [Payload -> {"Pending", "Taken", "Abandoned"}]
      BY <2>2, KeptOrSet
    <2>5. stage' \in [Payload -> {"idle", "took", "running", "drop"}]
      BY <2>3, KeptOrSet
    <2> QED
      BY <2>1, <2>4, <2>5
  <1>12. ASSUME NEW p \in Payload, RunAction(p) PROVE DTypeOK'
    BY <1>12 DEF RunAction
  <1>13. ASSUME NEW m \in inbox, HandleMessage(m) PROVE DTypeOK'
    <2>1. entries' \subseteq Entry /\ place' \in [Payload -> Place \cup {"cancelling", "signalling"}]
      BY <1>13 DEF HandleMessage, TakeMessagePayload
    <2>2. UNCHANGED <<windows, open, next, sender, state, event, result, returned, runs>>
      BY <1>13 DEF HandleMessage, TakeMessagePayload
    <2>3. CASE UNCHANGED handlers
      BY <2>1, <2>2, <2>3
    <2>4. ASSUME NEW e \in entries, handling' = [handling EXCEPT ![m.window] = Append(@, e.payload)],
                 At(e.payload, "idle", "took")
          PROVE  DTypeOK'
      <3>1. m.window \in Window /\ e.payload \in Payload
        BY <1>13 DEF Entry, Message
      <3>2. handling[m.window] \in Seq(Payload)
        BY <3>1
      <3>3. Append(handling[m.window], e.payload) \in Seq(Payload)
        BY <3>1, <3>2
      <3>4. handling' \in [Window -> Seq(Payload)]
        BY <2>4, <3>3, KeptOrSet
      <3>5. stage' \in [Payload -> {"idle", "took", "running", "drop"}]
        BY <2>4, KeptOrSet
      <3> QED
        BY <2>1, <2>2, <3>4, <3>5
    <2> QED
      BY <1>13, <2>3, <2>4 DEF HandleMessage
  <1>14. ASSUME NEW w \in Window, LeaveHandler(w) PROVE DTypeOK'
    BY <1>14 DEF LeaveHandler
  <1>15. ASSUME NEW w \in Window, HostAttaches(w) PROVE DTypeOK'
    BY <1>15 DEF HostAttaches, InitPostedPayloadWindow
  <1>16. ASSUME NEW w \in Window, HostDetaches(w) PROVE DTypeOK'
    BY <1>16 DEF HostDetaches, DrainPostedPayloadsForWindow, Entry
  <1>17. ASSUME NEW w \in Window, WindowOpens(w) PROVE DTypeOK'
    BY <1>17 DEF WindowOpens, OpenWindow
  <1>18. ASSUME NEW w \in Window, WindowCloses(w) PROVE DTypeOK'
    BY <1>18 DEF WindowCloses
  <1>19. CASE UNCHANGED dvars
    BY <1>19 DEF dvars
  <1>20. ASSUME NEW p \in Payload, CancelResult(p) PROVE DTypeOK'
    BY <1>20 DEF CancelResult
  <1> HIDE DEF DTypeOK
  <1> QED
    BY <1>1, <1>2, <1>3, <1>4, <1>5, <1>6, <1>7, <1>8, <1>9, <1>10, <1>11, <1>12, <1>13, <1>14,
       <1>15, <1>16, <1>17, <1>18, <1>19, <1>20 DEF DNext, CallerStep

LEMMA StepKeys ==
  ASSUME ActionInv, [DNext]_dvars
  PROVE  Keyed'
  <1> USE RegistryAssumption DEF Move, Advance, registry, system, senders, vars, dispatches, handlers
  <1>0. /\ Keyed /\ entries \subseteq Entry /\ next \in 1 .. MaxToken
        /\ place \in [Payload -> Place \cup {"cancelling", "signalling"}] /\ handling \in [Window -> Seq(Payload)]
    BY DEF ActionInv, DTypeOK
  <1>a. ASSUME NEW p \in Payload
        PROVE  /\ sender[p] = "new" => place[p] = "own"
               /\ stage[p] # "idle" => place[p] = "taken"
    BY DEF ActionInv, Handled, Answered
  <1>1. ASSUME NEW p \in Payload, NEW w \in Window, NEW k \in Kind, CallPosts(p, w, k) PROVE Keyed'
    <2> DEFINE e == NewEntry(p, w, k)
    <2>1. /\ next < MaxToken /\ next' = next + 1 /\ place[p] = "own" /\ UNCHANGED life
          /\ entries' = entries \cup {e} /\ place' = [place EXCEPT ![p] = "table"]
          /\ inbox' = inbox \cup {NewMessage(w, k)}
      BY <1>a, <1>1 DEF CallPosts, PostMessagePayload, Register, Accepts
    <2>2. e.token = next /\ e.payload = p
      BY DEF NewEntry
    <2>3. NewMessage(w, k) \in Message
      BY <1>0, <2>1 DEF NewMessage, Message, Token
    <2>4. \A f \in entries : f.payload # p /\ f.token < next /\ f.token \in Nat
      BY <1>0, <2>1, SMTT(30) DEF Keyed, Entry, Token
    <2> HIDE DEF e
    <2>5. \A f, g \in entries' : f.token = g.token \/ f.payload = g.payload => f = g
      BY <1>0, <2>1, <2>2, <2>4 DEF Keyed
    <2>6. \A f \in entries' : f.token < next'
      BY <1>0, <2>1, <2>2, <2>4 DEF Keyed
    <2>7. ASSUME NEW q \in Payload PROVE place'[q] = "table" <=> \E f \in entries' : f.payload = q
      BY <1>0, <2>1, <2>2, <2>4 DEF Keyed
    <2> QED
      BY <1>0, <2>1, <2>3, <2>5, <2>6, <2>7 DEF Keyed
  <1>2. ASSUME NEW p \in Payload, NEW w \in Window, CallRefused(p, w) PROVE Keyed'
    <2>1. UNCHANGED <<entries, inbox, life>> /\ place[p] = "own" /\ place' = [place EXCEPT ![p] = "removed"]
      BY <1>a, <1>2 DEF CallRefused
    <2>2. next' \in {next, next + 1}
      BY <1>a, <1>2 DEF CallRefused
    <2>3. \A e \in entries' : e.token < next'
      BY <1>0, <2>1, <2>2 DEF Keyed, Entry, Token
    <2> QED
      BY <1>0, <2>1, <2>3 DEF Keyed
  <1>3. ASSUME NEW p \in Payload, CallFindsNoWindow(p) PROVE Keyed'
    BY <1>0, <1>3 DEF Keyed, CallFindsNoWindow, Return
  <1>4. ASSUME NEW p \in Payload, CallAnswered(p) PROVE Keyed'
    BY <1>0, <1>4 DEF Keyed, CallAnswered, Return
  <1>5. ASSUME NEW p \in Payload, CallTimesOut(p) PROVE Keyed'
    BY <1>0, <1>5 DEF Keyed, CallTimesOut
  <1>6. ASSUME NEW p \in Payload, Abandon(p) PROVE Keyed'
    BY <1>0, <1>6 DEF Keyed, Abandon, Return
  <1>7. ASSUME NEW p \in Payload, ReclaimAbandoned(p) PROVE Keyed'
    <2>1. entries' = entries \ EntriesOf(p) /\ UNCHANGED <<inbox, life, next>>
      BY <1>0, <1>7 DEF Keyed, ReclaimAbandoned, ReclaimMessagePayload
    <2>2. place' = IF EntriesOf(p) # {} THEN [place EXCEPT ![p] = "removed"] ELSE place
      BY <1>0, <1>7 DEF Keyed, ReclaimAbandoned, ReclaimMessagePayload
    <2>3. EntriesOf(p) # {} <=> place[p] = "table"
      BY <1>0 DEF Keyed, EntriesOf
    <2>4. ASSUME NEW q \in Payload PROVE place'[q] = "table" <=> \E e \in entries' : e.payload = q
      BY <1>0, <2>1, <2>2, <2>3 DEF Keyed, EntriesOf
    <2> QED
      BY <1>0, <2>1, <2>4 DEF Keyed
  <1>8. ASSUME NEW p \in Payload, LastLook(p) PROVE Keyed'
    BY <1>0, <1>8 DEF Keyed, LastLook, Return
  <1>9. ASSUME NEW p \in Payload, BeginDelete(p) PROVE Keyed'
    BY <1>0, <1>9 DEF Keyed, BeginDelete
  <1>10. ASSUME NEW p \in Payload, EndDelete(p) PROVE Keyed'
    BY <1>0, <1>10 DEF Keyed, EndDelete
  <1>11. ASSUME NEW p \in Payload, ClaimAction(p) PROVE Keyed'
    BY <1>0, <1>11 DEF Keyed, ClaimAction
  <1>12. ASSUME NEW p \in Payload, RunAction(p) PROVE Keyed'
    BY <1>0, <1>12 DEF Keyed, RunAction
  <1>13. ASSUME NEW m \in inbox, HandleMessage(m) PROVE Keyed'
    BY <1>0, <1>13 DEF Keyed, HandleMessage, TakeMessagePayload, Matches, Entry
  <1>14. ASSUME NEW w \in Window, LeaveHandler(w) PROVE Keyed'
    <2> DEFINE p == handling[w][Len(handling[w])]
    <2>1. /\ p \in Payload /\ stage[p] = "drop" /\ place' = [place EXCEPT ![p] = "removed"]
          /\ UNCHANGED <<entries, next, inbox, life>>
      BY <1>0, <1>14 DEF LeaveHandler, At
    <2>2. place[p] = "taken"
      BY <1>a, <2>1
    <2> HIDE DEF p
    <2> QED
      BY <1>0, <2>1, <2>2 DEF Keyed
  <1>15. ASSUME NEW w \in Window, HostAttaches(w) PROVE Keyed'
    BY <1>0, <1>15 DEF Keyed, HostAttaches, InitPostedPayloadWindow
  <1>16. ASSUME NEW w \in Window, HostDetaches(w) PROVE Keyed'
    <2>1. /\ entries' = entries \ {e \in entries : e.window = w} /\ UNCHANGED <<inbox, life, next>>
          /\ place' = [q \in Payload |-> IF \E e \in entries : e.window = w /\ e.payload = q
                                      THEN "removed" ELSE place[q]]
      BY <1>0, <1>16 DEF Keyed, HostDetaches, DrainPostedPayloadsForWindow
    <2>2. ASSUME NEW q \in Payload PROVE place'[q] = "table" <=> \E e \in entries' : e.payload = q
      BY <1>0, <2>1 DEF Keyed
    <2> QED
      BY <1>0, <2>1, <2>2 DEF Keyed
  <1>17. ASSUME NEW w \in Window, WindowOpens(w) PROVE Keyed'
    BY <1>0, <1>17 DEF Keyed, WindowOpens, OpenWindow
  <1>18. ASSUME NEW w \in Window, WindowCloses(w) PROVE Keyed'
    BY <1>0, <1>18 DEF Keyed, WindowCloses
  <1>19. CASE UNCHANGED dvars
    BY <1>0, <1>19 DEF Keyed, dvars
  <1>20. ASSUME NEW p \in Payload, CancelResult(p) PROVE Keyed'
    BY <1>0, <1>20 DEF Keyed, CancelResult
  <1> HIDE DEF Keyed
  <1> QED
    BY <1>1, <1>2, <1>3, <1>4, <1>5, <1>6, <1>7, <1>8, <1>9, <1>10, <1>11, <1>12, <1>13, <1>14,
       <1>15, <1>16, <1>17, <1>18, <1>19, <1>20 DEF DNext, CallerStep

LEMMA StepHandles ==
  ASSUME ActionInv, [DNext]_dvars
  PROVE  Handled'
  <1> USE RegistryAssumption, DispatchAssumption DEF ActionInv, DTypeOK, Keyed, Handled, Answered,
      Unwritten, HasRun, Undecided, NeverRuns, Move, Advance, At, Place, Caller, Result, registry, system, senders,
      vars, dispatches, handlers
  <1>1. ASSUME NEW p \in Payload, NEW w \in Window, NEW k \in Kind, CallPosts(p, w, k) PROVE Handled'
    BY <1>1 DEF CallPosts, PostMessagePayload, Register, Accepts, NewEntry, NewMessage, Entry, Message, Token
  <1>2. ASSUME NEW p \in Payload, NEW w \in Window, CallRefused(p, w) PROVE Handled'
    BY <1>2 DEF CallRefused, Accepts, Return
  <1>3. ASSUME NEW p \in Payload, CallFindsNoWindow(p) PROVE Handled'
    BY <1>3 DEF CallFindsNoWindow, Return
  <1>4. ASSUME NEW p \in Payload, CallAnswered(p) PROVE Handled'
    BY <1>4 DEF CallAnswered, Return
  <1>5. ASSUME NEW p \in Payload, CallTimesOut(p) PROVE Handled'
    BY <1>5 DEF CallTimesOut
  <1>6. ASSUME NEW p \in Payload, Abandon(p) PROVE Handled'
    BY <1>6 DEF Abandon, Return
  <1>7. ASSUME NEW p \in Payload, ReclaimAbandoned(p) PROVE Handled'
    BY <1>7 DEF ReclaimAbandoned, ReclaimMessagePayload, EntriesOf, Return
  <1>8. ASSUME NEW p \in Payload, LastLook(p) PROVE Handled'
    BY <1>8 DEF LastLook, Return
  <1>9. ASSUME NEW p \in Payload, BeginDelete(p) PROVE Handled'
    BY <1>9 DEF BeginDelete
  <1>10. ASSUME NEW p \in Payload, EndDelete(p) PROVE Handled'
    <2>1. /\ place[p] = "signalling" /\ place' = [place EXCEPT ![p] = "gone"]
          /\ event' = [event EXCEPT ![p] = TRUE] /\ UNCHANGED <<state, result, runs, stage>>
      BY <1>10 DEF EndDelete
    <2>2. event'[p] = TRUE /\ \A q \in Payload \ {p} : event'[q] = event[q]
      BY <2>1, EventSet
    <2>3. ASSUME NEW q \in Payload PROVE event'[q] = (place'[q] = "gone")
      <3>1. CASE q = p
        <4>1. place'[p] = "gone"
          BY <2>1
        <4> QED
          BY <2>2, <3>1, <4>1, Zenon
      <3>2. CASE q # p
        <4>1. event'[q] = event[q] /\ place'[q] = place[q]
          BY <2>1, <2>2, <3>2
        <4> QED
          BY <4>1
      <3> QED
        BY <3>1, <3>2
    <2>4. ASSUME NEW q \in Payload
          PROVE  /\ stage'[q] = "idle" <=> place'[q] # "taken"
                 /\ place'[q] \in {"own", "table"} \/ stage'[q] = "took" => Undecided(q)'
                 /\ stage'[q] = "running" => state'[q] = "Taken" /\ Unwritten(q)'
                 /\ stage'[q] = "drop" => HasRun(q)' \/ (state'[q] = "Abandoned" /\ Unwritten(q)')
                 /\ place'[q] = "removed" => HasRun(q)' \/ Undecided(q)'
                 /\ place'[q] = "cancelling" => state'[q] = "Abandoned" /\ Unwritten(q)'
                 /\ place'[q] \in {"signalling", "gone"} => HasRun(q)' \/ NeverRuns(q)'
      BY <2>1
    <2> QED
      BY <2>3, <2>4
  <1>11. ASSUME NEW p \in Payload, ClaimAction(p) PROVE Handled'
    BY <1>11 DEF ClaimAction
  <1>12. ASSUME NEW p \in Payload, RunAction(p) PROVE Handled'
    BY <1>12 DEF RunAction
  <1>13. ASSUME NEW m \in inbox, HandleMessage(m) PROVE Handled'
    BY <1>13 DEF HandleMessage, TakeMessagePayload, Matches, Entry
  <1>14. ASSUME NEW w \in Window, LeaveHandler(w) PROVE Handled'
    BY <1>14 DEF LeaveHandler
  <1>15. ASSUME NEW w \in Window, HostAttaches(w) PROVE Handled'
    BY <1>15 DEF HostAttaches, InitPostedPayloadWindow
  <1>16. ASSUME NEW w \in Window, HostDetaches(w) PROVE Handled'
    BY <1>16 DEF HostDetaches, DrainPostedPayloadsForWindow, Entry
  <1>17. ASSUME NEW w \in Window, WindowOpens(w) PROVE Handled'
    BY <1>17 DEF WindowOpens, OpenWindow
  <1>18. ASSUME NEW w \in Window, WindowCloses(w) PROVE Handled'
    BY <1>18 DEF WindowCloses
  <1>19. CASE UNCHANGED dvars
    BY <1>19 DEF dvars
  <1>20. ASSUME NEW p \in Payload, CancelResult(p) PROVE Handled'
    BY <1>20 DEF CancelResult
  <1> HIDE DEF Handled
  <1> QED
    BY <1>1, <1>2, <1>3, <1>4, <1>5, <1>6, <1>7, <1>8, <1>9, <1>10, <1>11, <1>12, <1>13, <1>14,
       <1>15, <1>16, <1>17, <1>18, <1>19, <1>20 DEF DNext, CallerStep

LEMMA StepAnswers ==
  ASSUME ActionInv, [DNext]_dvars
  PROVE  Answered'
  <1> USE RegistryAssumption, DispatchAssumption DEF ActionInv, DTypeOK, Keyed, Handled, Answered,
      Unwritten, HasRun, Undecided, NeverRuns, Move, Advance, At, Place, Caller, Result, registry, system, senders,
      vars, dispatches, handlers
  <1>1. ASSUME NEW p \in Payload, NEW w \in Window, NEW k \in Kind, CallPosts(p, w, k) PROVE Answered'
    BY <1>1 DEF CallPosts, PostMessagePayload, Register, Accepts, NewEntry, NewMessage, Entry, Message, Token
  <1>2. ASSUME NEW p \in Payload, NEW w \in Window, CallRefused(p, w) PROVE Answered'
    BY <1>2 DEF CallRefused, Accepts, Return
  <1>3. ASSUME NEW p \in Payload, CallFindsNoWindow(p) PROVE Answered'
    BY <1>3 DEF CallFindsNoWindow, Return
  <1>4. ASSUME NEW p \in Payload, CallAnswered(p) PROVE Answered'
    BY <1>4 DEF CallAnswered, Return
  <1>5. ASSUME NEW p \in Payload, CallTimesOut(p) PROVE Answered'
    BY <1>5 DEF CallTimesOut
  <1>6. ASSUME NEW p \in Payload, Abandon(p) PROVE Answered'
    BY <1>6 DEF Abandon, Return
  <1>7. ASSUME NEW p \in Payload, ReclaimAbandoned(p) PROVE Answered'
    BY <1>7 DEF ReclaimAbandoned, ReclaimMessagePayload, EntriesOf, Return
  <1>8. ASSUME NEW p \in Payload, LastLook(p) PROVE Answered'
    BY <1>8 DEF LastLook, Return
  <1>9. ASSUME NEW p \in Payload, BeginDelete(p) PROVE Answered'
    BY <1>9 DEF BeginDelete
  <1>10. ASSUME NEW p \in Payload, EndDelete(p) PROVE Answered'
    BY <1>10 DEF EndDelete
  <1>11. ASSUME NEW p \in Payload, ClaimAction(p) PROVE Answered'
    BY <1>11 DEF ClaimAction
  <1>12. ASSUME NEW p \in Payload, RunAction(p) PROVE Answered'
    BY <1>12 DEF RunAction
  <1>13. ASSUME NEW m \in inbox, HandleMessage(m) PROVE Answered'
    BY <1>13 DEF HandleMessage, TakeMessagePayload, Matches, Entry
  <1>14. ASSUME NEW w \in Window, LeaveHandler(w) PROVE Answered'
    BY <1>14 DEF LeaveHandler
  <1>15. ASSUME NEW w \in Window, HostAttaches(w) PROVE Answered'
    BY <1>15 DEF HostAttaches, InitPostedPayloadWindow
  <1>16. ASSUME NEW w \in Window, HostDetaches(w) PROVE Answered'
    BY <1>16 DEF HostDetaches, DrainPostedPayloadsForWindow, Entry
  <1>17. ASSUME NEW w \in Window, WindowOpens(w) PROVE Answered'
    BY <1>17 DEF WindowOpens, OpenWindow
  <1>18. ASSUME NEW w \in Window, WindowCloses(w) PROVE Answered'
    BY <1>18 DEF WindowCloses
  <1>19. CASE UNCHANGED dvars
    BY <1>19 DEF dvars
  <1>20. ASSUME NEW p \in Payload, CancelResult(p) PROVE Answered'
    BY <1>20 DEF CancelResult
  <1> HIDE DEF Answered
  <1> QED
    BY <1>1, <1>2, <1>3, <1>4, <1>5, <1>6, <1>7, <1>8, <1>9, <1>10, <1>11, <1>12, <1>13, <1>14,
       <1>15, <1>16, <1>17, <1>18, <1>19, <1>20 DEF DNext, CallerStep

-----------------------------------------------------------------------------
(* The theorems.                                                           *)

LEMMA ActionInit == DInit => ActionInv
  <1> SUFFICES ASSUME DInit PROVE ActionInv
    OBVIOUS
  <1> USE RegistryAssumption, DispatchAssumption DEF DInit, Init
  <1>1. DTypeOK
    <2>1. handling \in [Window -> Seq(Payload)]
      OBVIOUS
    <2>2. event \in [Payload -> BOOLEAN] /\ next \in 1 .. MaxToken
      OBVIOUS
    <2>3. /\ place \in [Payload -> Place \cup {"cancelling", "signalling"}] /\ sender \in [Payload -> Caller]
          /\ state \in [Payload -> {"Pending", "Taken", "Abandoned"}] /\ result \in [Payload -> Result]
          /\ stage \in [Payload -> {"idle", "took", "running", "drop"}] /\ runs \in [Payload -> Nat]
          /\ returned \in [Payload -> Result \cup {"timeout", "unavailable", None}]
      BY DEF Place, Caller, Result
    <2> QED
      BY <2>1, <2>2, <2>3 DEF DTypeOK
  <1>2. Keyed
    BY DEF Keyed
  <1>3. Handled
    BY DEF Handled, Undecided, Unwritten
  <1>4. Answered
    BY DEF Answered, Result
  <1> QED
    BY <1>1, <1>2, <1>3, <1>4 DEF ActionInv

LEMMA ActionStep == ActionInv /\ [DNext]_dvars => ActionInv'
  BY StepTypes, StepKeys, StepHandles, StepAnswers DEF ActionInv

\* The invariant from which the other theorems follow.
THEOREM ActionInvariant == DSpec => []ActionInv
  BY ActionInit, ActionStep, PTL DEF DSpec

\* The dispatch, its payload and its handlers keep their types for any number
\* of calls and windows (DxUi.Accessibility.cpp:220-275, 8052-8110).
THEOREM ActionTypes == DSpec => []DTypeOK
  BY ActionInvariant, PTL DEF ActionInv

\* An action whose caller gave up, or whose window went, never runs, and none
\* runs twice (DxUi.Accessibility.cpp:8085-8092, 13994-13998), however many
\* calls, windows and nested message loops there are.
THEOREM AbandonedStaysUnrun == DSpec => []AbandonedNeverRuns
  <1>1. ActionInv => AbandonedNeverRuns
    BY DEF ActionInv, DTypeOK, Handled, AbandonedNeverRuns, Undecided, Unwritten, HasRun, NeverRuns, Place
  <1> QED
    BY <1>1, ActionInvariant, PTL

\* What a call returns is what happened to its action, also where the caller
\* times out while the window's thread takes, runs or deletes the payload
\* (8094-8107, 261-271).
THEOREM ClientsAreToldTheTruth == DSpec => []AnswerIsTrue
  <1>1. ActionInv => AnswerIsTrue
    <2> SUFFICES ASSUME ActionInv, NEW p \in Payload
                 PROVE  /\ returned[p] = "ran" => runs[p] = 1
                        /\ returned[p] = "cancelled" => state[p] = "Abandoned" /\ runs[p] = 0
                        /\ returned[p] # "notRun"
      BY DEF AnswerIsTrue
    <2>1. state[p] = "Abandoned" => runs[p] = 0
      BY DEF ActionInv, DTypeOK, Handled, Undecided, Unwritten, HasRun, NeverRuns, Place
    <2> QED
      BY <2>1 DEF ActionInv, Answered, HasRun
  <1> QED
    BY <1>1, ActionInvariant, PTL

\* A call that has returned has no entry in the payload table (8089-8090).
THEOREM SlotsAreGivenBack == DSpec => []NoSlotAfterReturn
  <1>1. ActionInv => NoSlotAfterReturn
    BY DEF ActionInv, Keyed, Answered, NoSlotAfterReturn, EntriesOf
  <1> QED
    BY <1>1, ActionInvariant, PTL

\* A caller reads the shared request only when nobody will write it any more: the
\* handler has answered, or the destructor has cancelled (13982-14028, 254-271).
THEOREM ResultIsComplete == DSpec => ReadsAfterLastWrite
  <1> DEFINE Read(p) == returned[p] = None /\ returned'[p] \in Result
  <1>1. ASSUME ActionInv, [DNext]_dvars, NEW p \in Payload, Read(p)
        PROVE  ~WriteToCome(p)
    <2> USE DispatchAssumption DEF Return
    <2>1. returned[p] = None /\ returned'[p] # returned[p] /\ returned'[p] \notin {"timeout", "unavailable"}
      BY <1>1 DEF Result
    <2>2. returned \in [Payload -> Result \cup {"timeout", "unavailable", None}]
      BY <1>1 DEF ActionInv, DTypeOK
    <2>3. PICK q \in Payload : CallAnswered(q) \/ LastLook(q)
      <3>1. ASSUME NEW q \in Payload,
                   CallTimesOut(q) \/ Abandon(q) \/ ReclaimAbandoned(q) \/ CallFindsNoWindow(q)
                     \/ BeginDelete(q) \/ CancelResult(q) \/ EndDelete(q) \/ ClaimAction(q) \/ RunAction(q)
                     \/ \E w \in Window : CallRefused(q, w) \/ \E k \in Kind : CallPosts(q, w, k)
            PROVE  FALSE
        BY <2>1, <2>2, <3>1 DEF CallTimesOut, Abandon, ReclaimAbandoned, CallFindsNoWindow,
           BeginDelete, CancelResult, EndDelete, ClaimAction, RunAction, CallRefused, CallPosts
      <3>2. ASSUME (\E m \in inbox : HandleMessage(m))
                     \/ \E w \in Window : \/ LeaveHandler(w) \/ HostAttaches(w) \/ HostDetaches(w)
                                          \/ WindowOpens(w) \/ WindowCloses(w)
            PROVE  FALSE
        BY <2>1, <3>2 DEF HandleMessage, LeaveHandler, HostAttaches, HostDetaches, WindowOpens, WindowCloses
      <3> QED
        BY <1>1, <2>1, <3>1, <3>2 DEF DNext, CallerStep, dvars
    <2>4. q = p /\ event[p]
      BY <2>1, <2>2, <2>3 DEF CallAnswered, LastLook
    <2>5. place[p] = "gone"
      BY <1>1, <2>4 DEF ActionInv, Handled
    <2> QED
      BY <1>1, <2>5 DEF ActionInv, Handled, WriteToCome, HasRun, NeverRuns, Place
  <1>2. ActionInv /\ [DNext]_dvars =>
          [\A p \in Payload : returned[p] = None /\ returned'[p] \in Result => ~WriteToCome(p)]_dvars
    BY <1>1
  <1> QED
    BY <1>2, ActionInvariant, PTL DEF DSpec, ReadsAfterLastWrite

=============================================================================
