-------------------------- MODULE UiActionDispatch --------------------------
(***************************************************************************)
(* How an automation client's thread runs an action on a window's thread   *)
(* (DispatchAccessibilityUiActionToWindowThread, its handler, and          *)
(* ~AccessibilityUiActionPayload, src/src/Controls/DxUi.Accessibility.cpp).*)
(*                                                                         *)
(* The caller posts a payload and waits a bounded time for its event.  The *)
(* window's thread may be busy, hung, detaching its host or running the    *)
(* action when the time is over: an atomic state (Pending, Taken,          *)
(* Abandoned) decides whether the action runs, and the payload registry    *)
(* decides who frees the payload.  A payload identifies one call.          *)
(***************************************************************************)
EXTENDS PostedPayload, Sequences

VARIABLES
  state,     \* AccessibilityUiActionDispatch::state of each call
  event,     \* is completedEvent set?
  result,    \* request.result in the shared dispatch
  returned,  \* what each call returned to its client
  runs,      \* how often each action ran (history)
  handling,  \* the payloads in each window thread's handlers, the outer first
  stage      \* how far the handler of each payload is

dispatches == <<state, event, result, runs>>
handlers   == <<handling, stage>>
dvars      == <<vars, dispatches, returned, handlers>>

Caller == {"new", "waiting", "timedOut", "abandoning", "lastLook", "done"}
Result == {"notRun", "cancelled", "ran"}

ASSUME DispatchAssumption == None \notin Result \cup {"timeout", "unavailable"}

DTypeOK ==
  /\ entries \subseteq Entry /\ windows \subseteq Window /\ open \subseteq Window
  /\ next \in 1 .. MaxToken
  /\ place \in [Payload -> Place \cup {"cancelling", "signalling"}]
  /\ sender \in [Payload -> Caller]
  /\ state \in [Payload -> {"Pending", "Taken", "Abandoned"}]
  /\ event \in [Payload -> BOOLEAN]
  /\ result \in [Payload -> Result]
  /\ returned \in [Payload -> Result \cup {"timeout", "unavailable", None}]
  /\ runs \in [Payload -> Nat]
  /\ handling \in [Window -> Seq(Payload)]
  /\ stage \in [Payload -> {"idle", "took", "running", "drop"}]

DInit ==
  /\ Init
  /\ state = [p \in Payload |-> "Pending"]
  /\ event = [p \in Payload |-> FALSE]
  /\ result = [p \in Payload |-> "notRun"]
  /\ returned = [p \in Payload |-> None]
  /\ runs = [p \in Payload |-> 0]
  /\ handling = [w \in Window |-> <<>>]
  /\ stage = [p \in Payload |-> "idle"]

-----------------------------------------------------------------------------
(* The caller.                                                             *)

Return(p, r) ==
  /\ Advance(p, "done")
  /\ returned' = [returned EXCEPT ![p] = r]

CallPosts(p, w, k) ==
  /\ sender[p] = "new"
  /\ PostMessagePayload(p, w, k)
  /\ Advance(p, "waiting")
  /\ UNCHANGED <<dispatches, returned, handlers>>

CallFindsNoWindow(p) ==
  /\ sender[p] = "new" /\ open # Window
  /\ Return(p, "unavailable")
  /\ UNCHANGED <<registry, system, call, dispatches, handlers>>

\* An unregistered window, a full table or a failed post frees the payload.
CallRefused(p, w) ==
  /\ sender[p] = "new"
  /\ next' = IF Accepts(w) THEN next + 1 ELSE next
  /\ Move(p, "removed")
  /\ Return(p, "unavailable")
  /\ UNCHANGED <<entries, windows, system, call, dispatches, handlers>>

CallAnswered(p) ==
  /\ sender[p] = "waiting" /\ event[p]
  /\ Return(p, result[p])
  /\ UNCHANGED <<registry, system, call, dispatches, handlers>>

CallTimesOut(p) ==
  /\ sender[p] = "waiting" /\ ~event[p]
  /\ Advance(p, "timedOut")
  /\ UNCHANGED <<registry, system, call, dispatches, returned, handlers>>

\* Mutant of Abandon: waits again for an action that was taken.
AbandonWaitsOn(p) ==
  /\ sender[p] = "timedOut"
  /\ \/ /\ state[p] = "Pending"
        /\ state' = [state EXCEPT ![p] = "Abandoned"]
        /\ Advance(p, "abandoning") /\ UNCHANGED returned
     \/ /\ state[p] = "Taken"
        /\ Advance(p, "waiting") /\ UNCHANGED <<state, returned>>
     \/ /\ state[p] = "Abandoned"
        /\ Return(p, "timeout") /\ UNCHANGED state
  /\ UNCHANGED <<registry, system, call, event, result, runs, handlers>>

\* The compare-and-swap from Pending decides against the window's thread.
Abandon(p) ==
  /\ sender[p] = "timedOut"
  /\ \/ /\ state[p] = "Pending"
        /\ state' = [state EXCEPT ![p] = "Abandoned"]
        /\ Advance(p, "abandoning") /\ UNCHANGED returned
     \/ /\ state[p] = "Taken"
        /\ Advance(p, "lastLook") /\ UNCHANGED <<state, returned>>
     \/ /\ state[p] = "Abandoned"
        /\ Return(p, "timeout") /\ UNCHANGED state
  /\ UNCHANGED <<registry, system, call, event, result, runs, handlers>>

\* Mutant of ReclaimAbandoned: leaves the payload in its slot.
AbandonKeepsSlot(p) ==
  /\ sender[p] = "abandoning"
  /\ Return(p, "timeout")
  /\ UNCHANGED <<registry, system, call, dispatches, handlers>>

ReclaimAbandoned(p) ==
  /\ sender[p] = "abandoning"
  /\ ReclaimMessagePayload(p)
  /\ Return(p, "timeout")
  /\ UNCHANGED <<system, call, dispatches, handlers>>

\* Mutant of LastLook: does not ask whether the answer is complete.
LastLookEarly(p) ==
  /\ sender[p] = "lastLook"
  /\ Return(p, result[p])
  /\ UNCHANGED <<registry, system, call, dispatches, handlers>>

\* Taken: the answer counts only if it is complete.
LastLook(p) ==
  /\ sender[p] = "lastLook"
  /\ Return(p, IF event[p] THEN result[p] ELSE "timeout")
  /\ UNCHANGED <<registry, system, call, dispatches, handlers>>

-----------------------------------------------------------------------------
(* ~AccessibilityUiActionPayload, on whichever thread deletes it: cancel   *)
(* an action nobody took, and set the event last.                          *)

\* Mutant of BeginDelete: sets the event before it cancels.
SignalsFirst(p) ==
  /\ place[p] = "removed"
  /\ IF state[p] = "Pending"
     THEN /\ state' = [state EXCEPT ![p] = "Abandoned"] /\ event' = [event EXCEPT ![p] = TRUE]
          /\ Move(p, "cancelling")
     ELSE UNCHANGED <<state, event>> /\ Move(p, "signalling")
  /\ UNCHANGED <<entries, windows, next, system, senders, result, runs, returned, handlers>>

\* The compare-and-swap from Pending decides against the caller's time-out.
BeginDelete(p) ==
  /\ place[p] = "removed"
  /\ IF state[p] = "Pending"
     THEN state' = [state EXCEPT ![p] = "Abandoned"] /\ Move(p, "cancelling")
     ELSE UNCHANGED state /\ Move(p, "signalling")
  /\ UNCHANGED <<entries, windows, next, system, senders, event, result, runs, returned, handlers>>

CancelResult(p) ==
  /\ place[p] = "cancelling"
  /\ Move(p, "signalling")
  /\ result' = [result EXCEPT ![p] = "cancelled"]
  /\ UNCHANGED <<entries, windows, next, system, senders, state, event, runs, returned, handlers>>

EndDelete(p) ==
  /\ place[p] = "signalling"
  /\ Move(p, "gone")
  /\ event' = [event EXCEPT ![p] = TRUE]
  /\ UNCHANGED <<entries, windows, next, system, senders, state, result, runs, returned, handlers>>

-----------------------------------------------------------------------------
(* The window's thread.                                                    *)

At(p, from, to) == stage[p] = from /\ stage' = [stage EXCEPT ![p] = to]

\* Window w's thread retrieves messages between two handlers, and inside an
\* action that runs a message loop of its own.
Retrieves(w) == handling[w] # <<>> => stage[handling[w][Len(handling[w])]] = "running"
Innermost(p) == \E w \in Window : handling[w] # <<>> /\ handling[w][Len(handling[w])] = p

\* Mutant of HandleMessage: goes on without the payload.
HandleUnchecked(m) ==
  LET w == m.window
      found == {e \in entries : Matches(e, m)} IN
  /\ m \in inbox /\ Retrieves(w)
  /\ inbox' = inbox \ {m}
  /\ TakeMessagePayload(m)
  /\ \/ /\ found = {} /\ handling' = [handling EXCEPT ![w] = Append(@, None)]
        /\ UNCHANGED stage
     \/ \E e \in found : /\ handling' = [handling EXCEPT ![w] = Append(@, e.payload)]
                         /\ At(e.payload, "idle", "took")
  /\ UNCHANGED <<open, life, senders, dispatches, returned>>

\* A message whose payload is gone is ignored.
HandleMessage(m) ==
  LET w == m.window
      found == {e \in entries : Matches(e, m)} IN
  /\ m \in inbox /\ Retrieves(w)
  /\ inbox' = inbox \ {m}
  /\ TakeMessagePayload(m)
  /\ \/ found = {} /\ UNCHANGED handlers
     \/ \E e \in found : /\ handling' = [handling EXCEPT ![w] = Append(@, e.payload)]
                         /\ At(e.payload, "idle", "took")
  /\ UNCHANGED <<open, life, senders, dispatches, returned>>

\* Mutant of ClaimAction: a store in the place of the compare-and-swap.
ClaimAnyAction(p) ==
  /\ state' = [state EXCEPT ![p] = IF @ = "Pending" THEN "Taken" ELSE @]
  /\ At(p, "took", "running")
  /\ UNCHANGED <<vars, event, result, runs, returned, handling>>

\* Only a pending action is taken; an abandoned one is dropped unseen.
ClaimAction(p) ==
  /\ IF state[p] = "Pending"
     THEN state' = [state EXCEPT ![p] = "Taken"] /\ At(p, "took", "running")
     ELSE UNCHANGED state /\ At(p, "took", "drop")
  /\ UNCHANGED <<vars, event, result, runs, returned, handling>>

RunAction(p) ==
  /\ Innermost(p)
  /\ At(p, "running", "drop")
  /\ runs' = [runs EXCEPT ![p] = @ + 1]
  /\ result' = [result EXCEPT ![p] = "ran"]
  /\ UNCHANGED <<vars, state, event, returned, handling>>

\* The handler returns, and its unique_ptr deletes the payload.
LeaveHandler(w) ==
  LET n == Len(handling[w]) IN
  /\ n > 0
  /\ At(handling[w][n], "drop", "idle")
  /\ Move(handling[w][n], "removed")
  /\ handling' = [handling EXCEPT ![w] = SubSeq(@, 1, n - 1)]
  /\ UNCHANGED <<entries, windows, next, system, senders, dispatches, returned>>

\* The host may attach or detach between two messages, or inside an action.
HostAttaches(w) ==
  /\ InitPostedPayloadWindow(w)
  /\ UNCHANGED <<system, senders, dispatches, returned, handlers>>

HostDetaches(w) ==
  /\ w \in windows
  /\ DrainPostedPayloadsForWindow(w)
  /\ UNCHANGED <<system, senders, dispatches, returned, handlers>>

WindowOpens(w) == OpenWindow(w) /\ UNCHANGED <<dispatches, returned, handlers>>

\* A window destroyed inside an action leaves its handler running.
WindowCloses(w) ==
  /\ w \in open /\ w \notin windows
  /\ open' = open \ {w}
  /\ life' = [life EXCEPT ![w] = @ + 1]
  /\ inbox' = {m \in inbox : m.window # w}
  /\ UNCHANGED <<registry, senders, dispatches, returned, handlers>>

CallerStep(p) ==
  \/ CallAnswered(p) \/ CallTimesOut(p) \/ Abandon(p) \/ ReclaimAbandoned(p) \/ LastLook(p)

DNext ==
  \/ \E p \in Payload, w \in Window, k \in Kind : CallPosts(p, w, k)
  \/ \E p \in Payload, w \in Window : CallRefused(p, w)
  \/ \E p \in Payload : \/ CallFindsNoWindow(p) \/ CallerStep(p)
                        \/ BeginDelete(p) \/ CancelResult(p) \/ EndDelete(p)
                        \/ ClaimAction(p) \/ RunAction(p)
  \/ \E m \in inbox : HandleMessage(m)
  \/ \E w \in Window : \/ LeaveHandler(w) \/ HostAttaches(w) \/ HostDetaches(w)
                       \/ WindowOpens(w) \/ WindowCloses(w)

\* The callers' threads run and time passes.  Nothing is assumed of the
\* window's thread: it may hang for good.
Fairness == \A p \in Payload : WF_dvars(CallerStep(p))

DSpec == DInit /\ [][DNext]_dvars /\ Fairness

-----------------------------------------------------------------------------
(* Properties.                                                             *)

\* An action whose caller gave up, or whose window went, never runs, and no
\* action runs twice (DxUi.Accessibility.cpp:8085-8092, 13994-13998).
AbandonedNeverRuns ==
  \A p \in Payload :
    /\ runs[p] <= 1
    /\ state[p] = "Abandoned" => runs[p] = 0

\* A client is told what happened to its action: "ran" only after it ran,
\* "cancelled" only if it never will, and never the shared request's initial
\* value, which nobody has written yet (8094-8107, 261-271).
AnswerIsTrue ==
  \A p \in Payload :
    /\ returned[p] = "ran" => runs[p] = 1
    /\ returned[p] = "cancelled" => state[p] = "Abandoned" /\ runs[p] = 0
    /\ returned[p] # "notRun"

\* A call that has returned keeps none of the 128 slots ("its payload slot,
\* and the provider references it holds, are given back", 8089-8090).
NoSlotAfterReturn == \A p \in Payload : sender[p] = "done" => EntriesOf(p) = {}

\* The writes still to come: of whoever decides a pending action, of the handler
\* that runs it, and of the destructor that has decided to cancel it.
WriteToCome(p) == state[p] = "Pending" \/ stage[p] = "running" \/ place[p] = "cancelling"

\* When a caller reads the shared request, the handler has written its answer and
\* the destructor, on whichever thread, its cancellation: nobody writes it any
\* more (13982-14028, 254-271).
ReadsAfterLastWrite ==
  [][\A p \in Payload : returned[p] = None /\ returned'[p] \in Result => ~WriteToCome(p)]_dvars

\* No call waits for ever on a window's thread that hangs (8080-8100).
EveryCallReturns == \A p \in Payload : sender[p] = "waiting" ~> sender[p] = "done"

=============================================================================
