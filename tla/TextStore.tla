----------------------------- MODULE TextStore -----------------------------
(***************************************************************************)
(* The text store that a native host gives to the Text Services Framework  *)
(* (src/src/Controls/DxUi.TextStoreACP.cpp): document locks, edits staged  *)
(* for one lock, notifications of the application's changes, and the one   *)
(* posted message that carries what cannot be done at once.                *)
(*                                                                         *)
(* Everything runs on the window's thread.  Whenever the store calls out,  *)
(* to the advised sink or to the application's change callback, the code   *)
(* it calls may edit, ask for locks, pump messages, unadvise or end the    *)
(* session.  The calls in progress are the "frames", the last one running; *)
(* only what a frame still has to do after its callback is kept in it.     *)
(*                                                                         *)
(* The document is what the host's cache shows of the control: its text,   *)
(* its selection and its view (first visible line, viewport).  Read-only   *)
(* and masked controls, compositions and the loss of focus without the     *)
(* end of the session are left out.                                        *)
(***************************************************************************)
EXTENDS Naturals, Sequences, SequencesExt

CONSTANTS
  MaxDepth,       \* bound on calls in progress
  MaxChanges,     \* bound on edits of either side and moves of the view
  PostsFail,      \* may PostMessage fail?
  JustInstalled,  \* does a run begin before the reconciliation that the activation schedules?
  EditsOverUnreported  \* may TSF edit while an external change is unreported?

ASSUME BoundsAssumption == /\ MaxDepth \in Nat \ {0}
                           /\ MaxChanges \in Nat
                           /\ PostsFail \in BOOLEAN
                           /\ JustInstalled \in BOOLEAN
                           /\ EditsOverUnreported \in BOOLEAN

Access == {"none", "read", "write"}
Document == [text : 0..1, selection : 0..1, view : 0..1]
NoDocument == [text |-> 2, selection |-> 2, view |-> 2]

VARIABLES
  document,        \* what ReadState returns outside an edit; nothing once the session is over
  staged,          \* the target's _stagedState
  lock,            \* _lockFlags
  pendingLock,     \* _pendingLockFlags
  pendingExternal, \* _pendingExternalNotification
  pendingLayout,   \* _pendingLayoutNotification
  selfEdit,        \* _hasSelfEditInLock
  observed,        \* _observedState and _observedViewport, if _hasObservedState
  advised,         \* _sink
  session,         \* active, retired (its cookie is stale), disconnected
  posted,          \* _nativeTextStoreNotificationPosted: the message is queued
  frames,          \* the calls in progress
  changes,         \* counts edits and moves of the view
  known,           \* the text that an advised sink believes the document has
  starved          \* did the last attempt to post fail, in this session?

pending == <<pendingLock, pendingExternal, pendingLayout>>
host == <<session, posted, starved>>
vars == <<document, staged, lock, pending, selfEdit, observed, advised, host, frames, known, changes>>

Running == Last(frames)
Below == Front(frames)

\* A lock in progress, waiting at one of the calls it makes; "wrote" when TSF
\* has replaced the text in it.
Lock == [op : {"lock"}, at : {"start", "granted", "apply", "end"},
         access : {"read", "write"}, wrote : BOOLEAN]
\* Notifications still to be made, the first one running, of "what"; the code
\* compares _sinkConnectionRevision with the one it captured when the sequence
\* began, and all it learns is in "same".  "turn" is what the posted message has still to do.
Notification == [op : {"notify"}, calls : Seq({"text", "selection", "layout"}),
                 what : Document, same : BOOLEAN, turn : {"none", "lock", "layout"}]
-----------------------------------------------------------------------------
(***************************************************************************)
(* The posted message.                                                     *)
(***************************************************************************)

\* ScheduleLock: at most one message, and none once the cookie is stale.
Schedule == /\ starved' \in IF session # "active" THEN {starved}
                            ELSE IF posted \/ ~PostsFail THEN {FALSE} ELSE BOOLEAN
            /\ posted' = (session = "active" /\ ~starved')
            /\ UNCHANGED session

ScheduleIf(needed) == IF needed THEN Schedule ELSE UNCHANGED host

\* Mutant of Release: a lock queued meanwhile is forgotten.
ReleaseForgetsLock(external) == lock' = "none" /\ ScheduleIf(external \/ pendingLayout)

\* _lockFlags falls to zero, and what became pending meanwhile is scheduled.
Release(external) == /\ lock' = "none"
                     /\ ScheduleIf(pendingLock # "none" \/ external \/ pendingLayout)

Stronger(a, b) == IF "write" \in {a, b} THEN "write" ELSE IF "read" \in {a, b} THEN "read" ELSE "none"

\* CaptureObservedState: nothing external is left to report.
Capture == /\ observed' = document
           /\ pendingExternal' = (pendingExternal /\ document = NoDocument)
-----------------------------------------------------------------------------
(***************************************************************************)
(* Locks.                                                                  *)
(***************************************************************************)

\* RequestLock when no lock is held, up to the sink's first callback; BeginEdit
\* fails once the session is over.
StartLock(access, below) ==
  /\ selfEdit' = FALSE
  /\ lock' = IF session = "active" THEN access ELSE "none"
  /\ frames' = IF session = "active"
                 THEN Append(below, [op |-> "lock", access |-> access, wrote |-> FALSE,
                                     at |-> IF access = "write" THEN "start" ELSE "granted"])
                 ELSE below

\* Mutant of RequestLock: grants a lock inside another.
RequestLockNested(access) ==
  /\ advised
  /\ Len(frames) < MaxDepth
  /\ StartLock(access, frames)
  /\ ScheduleIf(pendingLock # "none")
  /\ UNCHANGED <<document, staged, pending, observed, advised, known>>

RequestLock(access) ==
  /\ advised
  /\ lock = "none"
  /\ Len(frames) < MaxDepth
  /\ StartLock(access, frames)
  /\ ScheduleIf(pendingLock # "none")
  /\ UNCHANGED <<document, staged, pending, observed, advised, known>>

\* Inside a lock an asynchronous request is queued, if the message can be posted.
QueueLock(access) ==
  /\ lock # "none"
  /\ Schedule
  /\ pendingLock' = IF posted' THEN Stronger(pendingLock, access) ELSE pendingLock
  /\ UNCHANGED <<document, staged, lock, pendingExternal, pendingLayout, selfEdit, observed,
                 advised, frames, known>>

\* SetText and SetSelection stage their edit: all the document, or its selection.
Edit(edit, base, writes) ==
  /\ lock = "write" /\ Running.at = "granted"
  /\ EditsOverUnreported \/ (~pendingExternal /\ document.text = observed.text)
  /\ document # NoDocument
  /\ staged' = edit
  /\ selfEdit' = (selfEdit \/ edit # base)
  /\ frames' = Append(Below, [Running EXCEPT !.wrote = @ \/ writes])
  /\ UNCHANGED <<document, lock, pending, observed, advised, host, known>>

Base == IF staged = NoDocument THEN document ELSE staged
SetText(text) == Edit([Base EXCEPT !.text = text, !.selection = 0], Base, TRUE)
SetSelection(selection) == Edit([Base EXCEPT !.selection = selection], Base, FALSE)

\* Mutant of FinishLock: captures without asking what is still to be reported.
FinishLockCaptures(ok) ==
  /\ IF ok THEN Capture ELSE UNCHANGED <<observed, pendingExternal>>
  /\ IF Running.access = "write"
       THEN /\ frames' = Append(Below, [Running EXCEPT !.at = "end"])
            /\ UNCHANGED <<lock, host>>
       ELSE frames' = Below /\ Release(pendingExternal')

\* The end of RequestLock after EndEdit: the edit "applied" or not, "ok" is the session's result.
FinishLock(ok) ==
  /\ IF ok /\ (~pendingExternal \/ selfEdit) THEN Capture ELSE UNCHANGED <<observed, pendingExternal>>
  /\ IF Running.access = "write"
       THEN /\ frames' = Append(Below, [Running EXCEPT !.at = "end"])
            /\ UNCHANGED <<lock, host>>
       ELSE frames' = Below /\ Release(pendingExternal')

\* OnStartEditTransaction returns.
TransactionStarted(ok) ==
  /\ Running.at = "start"
  /\ IF ok
       THEN /\ frames' = Append(Below, [Running EXCEPT !.at = "granted"])
            /\ UNCHANGED <<staged, lock, host>>
       ELSE /\ staged' = NoDocument
            /\ frames' = Below
            /\ Release(pendingExternal)
  /\ UNCHANGED <<document, pending, selfEdit, observed, advised, known>>

\* OnLockGranted returns and EndEdit finds nothing that it must apply.
GrantEnds(ok) ==
  /\ Running.at = "granted"
  /\ ~ok \/ staged = NoDocument \/ session # "active"
  /\ staged' = NoDocument
  /\ FinishLock(ok)
  /\ UNCHANGED <<document, pendingLock, pendingLayout, selfEdit, advised, known>>

\* EndEdit imports the staged edit into the control, which tells the application.
GrantApplies ==
  /\ Running.at = "granted"
  /\ staged # NoDocument /\ session = "active"
  /\ document' = [staged EXCEPT !.view = document.view]
  /\ frames' = Append(Below, [Running EXCEPT !.at = "apply"])
  /\ UNCHANGED <<staged, lock, pending, selfEdit, observed, advised, host, known>>

\* The application's callback returns: if it left the text alone, the host
\* synchronizes its cache, and hears of the change from inside the lock; RequestLock
\* then finds it pending, and captures it with TSF's own edit (1268).
ApplyEnds ==
  /\ Running.at = "apply"
  /\ staged' = NoDocument
  /\ IF document # NoDocument /\ document.text = staged.text
       THEN /\ known' = IF advised /\ Running.wrote THEN staged.text ELSE known
            /\ IF selfEdit THEN Capture ELSE pendingExternal' = TRUE /\ UNCHANGED observed
            /\ frames' = Append(Below, [Running EXCEPT !.at = "end"])
            /\ Schedule
            /\ UNCHANGED lock
       ELSE FinishLock(FALSE) /\ UNCHANGED known
  /\ UNCHANGED <<document, pendingLock, pendingLayout, selfEdit, advised>>

\* OnEndEditTransaction returns.
TransactionEnded ==
  /\ Running.at = "end"
  /\ frames' = Below
  /\ Release(pendingExternal)
  /\ UNCHANGED <<document, staged, pending, selfEdit, observed, advised, known>>

LockReturns == /\ frames # <<>> /\ Running.op = "lock"
               /\ \/ \E ok \in BOOLEAN : TransactionStarted(ok) \/ GrantEnds(ok)
                  \/ GrantApplies
                  \/ ApplyEnds
                  \/ TransactionEnded
-----------------------------------------------------------------------------
(***************************************************************************)
(* Notifications.                                                          *)
(***************************************************************************)

\* The sink captured by the sequence, the "same" one or not, hears the first of the calls.
Tell(below, calls, what, turn, same) ==
  /\ frames' = Append(below, [op |-> "notify", calls |-> calls, what |-> what,
                              same |-> same, turn |-> turn])
  /\ known' = IF Head(calls) = "text" THEN what.text ELSE known

\* DispatchPendingLock, at the end of the posted message's turn.
DispatchPendingLock(below) ==
  IF lock = "none" /\ pendingLock # "none" /\ advised
    THEN StartLock(pendingLock, below) /\ pendingLock' = "none"
    ELSE /\ pendingLock' = IF lock = "none" THEN "none" ELSE pendingLock
         /\ frames' = below
         /\ UNCHANGED <<lock, selfEdit>>

\* The layout that was pending when the turn began is reported if the external
\* changes did not report it and nothing has moved since.
TurnIsCurrent(same) == /\ advised /\ same
                       /\ lock = "none"
                       /\ observed # NoDocument /\ observed = document

FinishTurn(below, turn, same) ==
  IF turn = "layout" /\ TurnIsCurrent(same)
    THEN /\ Tell(below, <<"layout">>, document, "lock", same)
         /\ UNCHANGED <<lock, pendingLock, selfEdit>>
    ELSE DispatchPendingLock(below) /\ UNCHANGED known

\* What changed since the store last looked, in the order in which it is reported.
Changes(seen) ==
  (IF document'.text # seen.text THEN <<"text">> ELSE <<>>)
    \o (IF document'.selection # seen.selection THEN <<"selection">> ELSE <<>>)
    \o (IF document' # seen THEN <<"layout">> ELSE <<>>)

\* NotifyExternalChangesIfNeeded outside a lock, when the store has to report.
Report(below, turn) == /\ observed' = document'
                       /\ pendingExternal' = FALSE
                       /\ Tell(below, Changes(observed), document', turn, TRUE)

\* The application changes the document; the host synchronizes and notifies.
ApplicationEdits(text, selection) ==
  /\ session = "active"
  /\ document' = [document EXCEPT !.text = text, !.selection = selection]
  /\ document' # document
  /\ \/ /\ lock # "none"
        /\ pendingExternal' = TRUE
        /\ Schedule
        /\ UNCHANGED <<observed, frames, known>>
     \/ /\ lock = "none" /\ ~advised
        /\ UNCHANGED <<observed, pendingExternal, host, frames, known>>
     \/ /\ lock = "none" /\ advised
        /\ Len(frames) < MaxDepth
        /\ IF Changes(observed) # <<>>
             THEN Report(frames, "none")
             ELSE pendingExternal' = FALSE /\ UNCHANGED <<observed, frames, known>>
        /\ UNCHANGED host
  /\ UNCHANGED <<staged, lock, pendingLock, pendingLayout, selfEdit, advised>>

\* The view moves; the host will say so when it has prepared the layout.
ViewMoves ==
  /\ session = "active"
  /\ document' = [document EXCEPT !.view = 1 - @]
  /\ UNCHANGED <<staged, lock, pending, selfEdit, observed, advised, host, frames, known>>

NotifyPreparedLayout ==
  /\ session = "active"
  /\ \/ /\ lock # "none"
        /\ pendingLayout' = TRUE
        /\ Schedule
        /\ UNCHANGED <<frames, known>>
     \/ /\ lock = "none" /\ advised
        /\ Len(frames) < MaxDepth
        /\ Tell(frames, <<"layout">>, document, "none", TRUE)
        /\ UNCHANGED <<pendingLayout, host>>
  /\ UNCHANGED <<document, staged, lock, pendingLock, pendingExternal, selfEdit, observed, advised>>

\* Mutant of ContinuationIsCurrent: does not ask whether the sink has been advised again.
DocumentIsCurrent == /\ advised
                     /\ lock = "none"
                     /\ observed = Running.what
                     /\ document = Running.what

\* continuationIsCurrent: the same sink, no lock, and the state that is being reported.
ContinuationIsCurrent == /\ advised /\ Running.same
                         /\ lock = "none"
                         /\ observed = Running.what
                         /\ document = Running.what

\* The sink returns from a notification.
NotificationReturns ==
  /\ frames # <<>> /\ Running.op = "notify"
  /\ IF Tail(Running.calls) # <<>> /\ ContinuationIsCurrent
       THEN /\ Tell(Below, Tail(Running.calls), Running.what, Running.turn, Running.same)
            /\ UNCHANGED <<lock, pendingLock, selfEdit>>
       ELSE IF Running.turn = "none"
         THEN frames' = Below /\ UNCHANGED <<lock, pendingLock, selfEdit, known>>
         ELSE FinishTurn(Below, IF Head(Running.calls) = "layout" THEN "lock" ELSE Running.turn,
                         Running.same)
  /\ UNCHANGED <<document, staged, pendingExternal, pendingLayout, observed, advised, host>>

\* The posted message is handled by the window's loop or by a nested one.
Deliver ==
  /\ posted
  /\ posted' = FALSE
  /\ UNCHANGED <<document, staged, advised, session, starved>>
  /\ \/ /\ lock # "none"  \* too early: the release schedules again
        /\ UNCHANGED <<lock, pending, selfEdit, observed, frames, known>>
     \/ /\ lock = "none"
        /\ Len(frames) < MaxDepth
        /\ pendingLayout' = FALSE
        /\ LET turn == IF pendingLayout THEN "layout" ELSE "lock"
           IN  IF pendingExternal /\ advised /\ document # observed
                 THEN /\ Report(frames, turn)
                      /\ UNCHANGED <<lock, pendingLock, selfEdit>>
                 ELSE /\ pendingExternal' = (pendingExternal /\ ~advised)
                      /\ FinishTurn(frames, turn, TRUE)
                      /\ UNCHANGED observed
-----------------------------------------------------------------------------
(***************************************************************************)
(* The sink and the session.                                               *)
(***************************************************************************)

\* ++_sinkConnectionRevision: every notification in progress is an old one's.
Reconnect == frames' = [i \in DOMAIN frames |-> IF frames[i].op = "notify" THEN [frames[i] EXCEPT !.same = FALSE]
                                                ELSE frames[i]]

\* Pending locks and changes stay; a new sink reads the document for itself.
\* TSF gives the store a sink only while it holds no lock.
AdviseSink ==
  /\ ~advised /\ session # "disconnected"
  /\ lock = "none"
  /\ advised' = TRUE /\ Reconnect
  /\ Capture
  /\ known' = IF session = "active" THEN document.text ELSE known
  /\ UNCHANGED <<document, staged, lock, pendingLock, pendingLayout, selfEdit, host>>

UnadviseSink ==
  /\ advised
  /\ advised' = FALSE /\ Reconnect
  /\ pendingLayout' = FALSE
  /\ known' = 0
  /\ UNCHANGED <<document, staged, lock, pendingLock, pendingExternal, selfEdit, observed, host>>

\* DeactivateNativeTextInputTsf: the cookie is invalidated before TSF is called...
Deactivate ==
  /\ session = "active"
  /\ session' = "retired" /\ posted' = FALSE /\ starved' = FALSE
  /\ document' = NoDocument /\ known' = 0
  /\ UNCHANGED <<staged, lock, pending, selfEdit, observed, advised, frames>>

\* ... and the store is disconnected after, whatever its frames are doing.
Disconnect ==
  /\ session = "retired"
  /\ session' = "disconnected"
  /\ advised' = FALSE /\ Reconnect
  /\ staged' = NoDocument /\ observed' = NoDocument
  /\ lock' = "none" /\ pendingLock' = "none"
  /\ pendingExternal' = FALSE /\ pendingLayout' = FALSE
  /\ UNCHANGED <<document, selfEdit, posted, starved, known>>
-----------------------------------------------------------------------------
\* TSF advised its sink while the store was being installed; the document may
\* have changed since, which is why the activation schedules a reconciliation.
\* A run that does not begin there begins when that has found nothing to report.
Init ==
  /\ document \in [text : IF JustInstalled THEN 0..1 ELSE {0}, selection : {0}, view : {0}]
  /\ observed = [text |-> 0, selection |-> 0, view |-> 0]
  /\ staged = NoDocument
  /\ lock = "none" /\ pendingLock = "none"
  /\ pendingExternal = JustInstalled /\ pendingLayout = FALSE
  /\ selfEdit = FALSE
  /\ advised = TRUE
  /\ session = "active"
  /\ posted \in BOOLEAN /\ (posted => JustInstalled)
  /\ starved = (JustInstalled /\ ~posted) /\ (starved => PostsFail)
  /\ frames = <<>>
  /\ known = observed.text
  /\ changes = 0

\* What code that runs in a callback, or from the window's loop, may do.
Change == \/ \E value \in 0..1 : SetText(value) \/ SetSelection(value)
          \/ \E text, selection \in 0..1 : ApplicationEdits(text, selection)
          \/ ViewMoves
Call == \/ \E access \in {"read", "write"} : RequestLock(access) \/ QueueLock(access)
        \/ NotifyPreparedLayout
        \/ AdviseSink
        \/ UnadviseSink
        \/ Deactivate
        \/ Disconnect
        \/ Deliver
Return == LockReturns \/ NotificationReturns

Next == \/ Change /\ changes < MaxChanges /\ changes' = changes + 1
        \/ (Call \/ Return) /\ UNCHANGED changes

Returns(depth) == Len(frames) = depth /\ Return /\ UNCHANGED changes
Turn == frames = <<>> /\ Deliver /\ UNCHANGED changes

\* Callbacks return, and the window's loop dispatches the message that is queued.
Fairness == /\ \A depth \in 1..MaxDepth : SF_vars(Returns(depth))
            /\ SF_vars(Turn)

Spec == Init /\ [][Next]_vars /\ Fairness
-----------------------------------------------------------------------------
(***************************************************************************)
(* What has to hold.                                                       *)
(***************************************************************************)

\* The values of the state, and the shape of the calls in progress: a lock is
\* the last of them and the only lock, so no lock is granted inside another,
\* and no notification is made inside one (RequestLock 1231-1244,
\* DispatchPendingLock 1296).
TextStoreTypeOK ==
  /\ document \in IF session = "active" THEN Document ELSE {NoDocument}
  /\ staged \in Document \cup {NoDocument} /\ observed \in Document \cup {NoDocument}
  /\ lock \in Access /\ pendingLock \in Access
  /\ pendingExternal \in BOOLEAN /\ pendingLayout \in BOOLEAN /\ selfEdit \in BOOLEAN
  /\ advised \in BOOLEAN
  /\ session \in {"active", "retired", "disconnected"}
  /\ posted \in BOOLEAN /\ (posted => session = "active") /\ starved \in BOOLEAN
  /\ known \in 0..1 /\ changes \in 0..MaxChanges
  /\ session = "active" => observed # NoDocument
  /\ \A i \in DOMAIN frames : frames[i].op = "lock" => i = Len(frames)
  /\ session # "disconnected" =>
       lock = IF frames # <<>> /\ Running.op = "lock" THEN Running.access ELSE "none"

\* Whatever a sink is told, it is advised and its sequence of notifications began
\* with it, no lock is held, and what it is told of is the document as it is, also
\* when an earlier callback of the sequence edited, locked, ended the session, or
\* unadvised and advised again (continuationIsCurrent 1951, notificationTurnIsCurrent 1332).
Announces == /\ frames' # <<>> /\ Last(frames').op = "notify"
             /\ \/ Len(frames') > Len(frames)
                \/ Len(frames') = Len(frames) /\ Last(frames').calls # Running.calls
AnnouncedIsCurrent ==
  [][Announces => /\ advised' /\ Last(frames').same
                  /\ lock' = "none"
                  /\ document' = Last(frames').what /\ session' = "active"]_vars

\* When nothing is in progress, what is pending will be done by the message in
\* the queue unless it could not be posted, and what is not pending is done:
\* the text TSF believes is the document's (NotifyExternalChangesIfNeeded 1897,
\* CaptureObservedState, ReleaseLockAndSchedulePending 2010).
RestIsSettled ==
  frames = <<>> /\ session = "active" /\ advised =>
    /\ pendingLock # "none" \/ pendingExternal \/ pendingLayout => posted \/ starved
    /\ ~pendingExternal => known = document.text

\* The text alone of that, for TSF's edits over unreported changes.
ChangesAreReported ==
  frames = <<>> /\ session = "active" /\ advised /\ ~pendingExternal => known = document.text

\* A queued lock request is taken up, or the session ends, or no message could be posted.
QueuedLocksAreTaken == pendingLock # "none" ~> (pendingLock = "none" \/ starved \/ session # "active")
=============================================================================
