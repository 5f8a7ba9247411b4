--------------------------- MODULE HostAnimation ---------------------------
(***************************************************************************)
(* Native hosts animating through the dispatcher                           *)
(* (src/src/Controls/DxUi.WindowHost.cpp).  A host holds at most one       *)
(* subscription; it gives it up when the application hides its             *)
(* presentation, when its window is not visible and when its tree has      *)
(* nothing left to animate, and remembers in a flag that it must take a    *)
(* new one.                                                                *)
(*                                                                         *)
(* A tick calls application code between its tests: there the application  *)
(* hides and shows, detaches and requests animation on any host, the one   *)
(* being ticked included.  A tick keeps the revision and the subscription  *)
(* it started with ("frame") and gives way when they are no longer the     *)
(* host's.                                                                 *)
(*                                                                         *)
(* Detach calls the controls of the tree it drops after it has given up    *)
(* the subscription (1534-1546), and a request asks for no window: a host  *)
(* without one may subscribe.  The next tick refuses it and leaves it the  *)
(* id (6008-6012), which then names nothing.  "refused" remembers that; no *)
(* action reads it.                                                        *)
(***************************************************************************)
EXTENDS AnimationDispatcher

CONSTANTS
  MaxRevision,  \* bound on the presentation revisions of a host
  NoFrame

Host == Context

ASSUME HostAssumption == MaxRevision \in Nat /\ NoFrame \notin [revision : Nat, sub : Nat]

VARIABLES
  attached,    \* _hwnd is set
  detaching,   \* the calls of Detach whose controls are being called back, the innermost first
  sub,         \* _animationSubscriptionId, 0 for none
  visible,     \* _nativePresentationVisible
  revision,    \* _nativePresentationRevision
  resume,      \* _nativePresentationResumeAnimation
  suspended,   \* _animationSuspendedWhileHidden
  shown,       \* the window is effectively visible
  frame,       \* what the running tick captured
  refused,     \* did a tick refuse the host's subscription when it had no window?
  wanted       \* has the tree asked for animation and not been told to stop?

presentation == <<visible, revision>>
deferred == <<resume, suspended>>
vars == <<dispatcher, attached, detaching, sub, presentation, deferred, shown, frame, refused, wanted>>

TypeOK ==
  /\ DispatcherTypeOK
  /\ attached \in [Host -> BOOLEAN] /\ detaching \in Seq(Host)
  /\ sub \in [Host -> 0 .. MaxId] /\ refused \in [Host -> BOOLEAN]
  /\ visible \in [Host -> BOOLEAN] /\ revision \in [Host -> 0 .. MaxRevision]
  /\ resume \in [Host -> BOOLEAN] /\ suspended \in [Host -> BOOLEAN]
  /\ shown \in [Host -> BOOLEAN] /\ wanted \in [Host -> BOOLEAN]
  /\ frame \in [revision : 0 .. MaxRevision, sub : Id] \cup {NoFrame}

Init ==
  /\ DispatcherInit
  /\ attached = [h \in Host |-> FALSE] /\ detaching = <<>>
  /\ sub = [h \in Host |-> 0] /\ refused = [h \in Host |-> FALSE]
  /\ visible = [h \in Host |-> TRUE] /\ revision = [h \in Host |-> 0]
  /\ resume = [h \in Host |-> FALSE] /\ suspended = [h \in Host |-> FALSE]
  /\ shown = [h \in Host |-> FALSE] /\ wanted = [h \in Host |-> FALSE]
  /\ frame = NoFrame

-----------------------------------------------------------------------------
\* The UI thread runs application code between ticks and inside a tick that started.
AppRuns == pos = 0 \/ (calling /\ frame # NoFrame)

InDetach(h) == \E i \in DOMAIN detaching : detaching[i] = h

\* Gives up h's subscription, if it has one.
Release(h) ==
  /\ sub' = [sub EXCEPT ![h] = 0]
  /\ refused' = [refused EXCEPT ![h] = FALSE]
  /\ IF sub[h] = 0 THEN UNCHANGED dispatcher ELSE Unsubscribe(sub[h])

\* RequestAnimation: a hidden presentation only remembers it; vis is the visibility it reads.
Request(h, vis, resumes) ==
  /\ wanted' = [wanted EXCEPT ![h] = TRUE]
  /\ resume' = [resume EXCEPT ![h] = IF vis THEN resumes ELSE TRUE]
  /\ IF vis /\ sub[h] = 0
     THEN Subscribe(h) /\ sub' = [sub EXCEPT ![h] = nextId]
     ELSE UNCHANGED <<dispatcher, sub>>

-----------------------------------------------------------------------------
(* What the application and the system do to a host.                       *)

\* A host whose Detach is not over is registered still, and Attach refuses it.
AttachHost(h) ==
  /\ AppRuns /\ ~attached[h] /\ ~InDetach(h)
  /\ attached' = [attached EXCEPT ![h] = TRUE]
  /\ \E s \in BOOLEAN : shown' = [shown EXCEPT ![h] = s]
  /\ UNCHANGED <<dispatcher, detaching, sub, presentation, deferred, frame, refused, wanted>>

\* Detach, of a host with a window or without, up to the controls it calls back.
BeginDetach(h) ==
  /\ AppRuns /\ ~InDetach(h)
  /\ detaching' = <<h>> \o detaching
  /\ attached' = [attached EXCEPT ![h] = FALSE]
  /\ Release(h)
  /\ visible' = [visible EXCEPT ![h] = TRUE]
  /\ resume' = [resume EXCEPT ![h] = FALSE]
  /\ suspended' = [suspended EXCEPT ![h] = FALSE]
  /\ shown' = [shown EXCEPT ![h] = FALSE]
  /\ wanted' = [wanted EXCEPT ![h] = FALSE]
  /\ UNCHANGED <<revision, frame>>

\* The tree is dropped, and what its controls asked for meanwhile with it.
EndDetach ==
  /\ detaching # <<>>
  /\ detaching' = Tail(detaching)
  /\ wanted' = [wanted EXCEPT ![Head(detaching)] = FALSE]
  /\ UNCHANGED <<dispatcher, attached, sub, presentation, deferred, shown, frame, refused>>

RequestAnimation(h) ==
  /\ AppRuns
  /\ Request(h, visible[h], resume[h])
  /\ UNCHANGED <<attached, detaching, presentation, suspended, shown, frame, refused>>

\* Mutant of HidePresentation: leaves its subscription to the next tick.
HideSubscribed(h) ==
  /\ AppRuns /\ attached[h] /\ visible[h]
  /\ revision[h] < MaxRevision
  /\ visible' = [visible EXCEPT ![h] = FALSE]
  /\ revision' = [revision EXCEPT ![h] = @ + 1]
  /\ resume' = [resume EXCEPT ![h] = sub[h] # 0]
  /\ UNCHANGED <<dispatcher, attached, detaching, sub, suspended, shown, frame, refused, wanted>>

HidePresentation(h) ==
  /\ AppRuns /\ attached[h] /\ visible[h]
  /\ revision[h] < MaxRevision
  /\ visible' = [visible EXCEPT ![h] = FALSE]
  /\ revision' = [revision EXCEPT ![h] = @ + 1]
  /\ resume' = [resume EXCEPT ![h] = sub[h] # 0]
  /\ Release(h)
  /\ UNCHANGED <<attached, detaching, suspended, shown, frame, wanted>>

ShowPresentation(h) ==
  /\ AppRuns /\ attached[h] /\ ~visible[h]
  /\ revision[h] < MaxRevision
  /\ visible' = [visible EXCEPT ![h] = TRUE]
  /\ revision' = [revision EXCEPT ![h] = @ + 1]
  /\ IF resume[h]
     THEN Request(h, TRUE, FALSE)
     ELSE UNCHANGED <<dispatcher, sub, resume, wanted>>
  /\ UNCHANGED <<attached, detaching, suspended, shown, frame, refused>>

\* The window, an ancestor of it or its root is hidden or minimized.
HideWindow(h) ==
  /\ AppRuns /\ attached[h] /\ shown[h]
  /\ shown' = [shown EXCEPT ![h] = FALSE]
  /\ UNCHANGED <<dispatcher, attached, detaching, sub, presentation, deferred, frame, refused, wanted>>

\* WM_SHOWWINDOW or WM_SIZE says that the window is back; WM_SHOWWINDOW does so under a parent
\* that is still hidden, too.
ShowWindow(h) ==
  /\ AppRuns /\ attached[h]
  /\ \E s \in {shown[h], TRUE} : shown' = [shown EXCEPT ![h] = s]
  /\ suspended' = [suspended EXCEPT ![h] = FALSE]
  /\ IF suspended[h]
     THEN Request(h, visible[h], resume[h])
     ELSE UNCHANGED <<dispatcher, sub, resume, wanted>>
  /\ UNCHANGED <<attached, detaching, presentation, frame, refused>>

\* A parent is shown again: its children get no message.
ShowAncestor(h) ==
  /\ AppRuns /\ attached[h] /\ ~shown[h]
  /\ shown' = [shown EXCEPT ![h] = TRUE]
  /\ UNCHANGED <<dispatcher, attached, detaching, sub, presentation, deferred, frame, refused, wanted>>

-----------------------------------------------------------------------------
(* The tick of the host whose callback runs.                               *)

Ticked == subscriptions[pos].context
Returned == calling /\ detaching = <<>>
Refusing(h) == Returned /\ frame = NoFrame /\ h = Ticked

\* Mutant of RefuseTick: a hidden window is not remembered.
RefuseTickForGood(h) ==
  /\ Refusing(h) /\ ~(attached[h] /\ visible[h] /\ shown[h])
  /\ sub' = IF attached[h] THEN [sub EXCEPT ![h] = 0] ELSE sub
  /\ refused' = [refused EXCEPT ![h] = @ \/ ~attached[h]]
  /\ EndCallback(FALSE)
  /\ UNCHANGED <<attached, detaching, presentation, deferred, shown, frame, wanted>>

\* AnimationTickThunk refuses a host that is not attached and leaves it its id; the first tests of
\* OnAnimationTick refuse one that is not visible.
RefuseTick(h) ==
  /\ Refusing(h) /\ ~(attached[h] /\ visible[h] /\ shown[h])
  /\ resume' = [resume EXCEPT ![h] = @ \/ (attached[h] /\ ~visible[h])]
  /\ suspended' = [suspended EXCEPT ![h] = @ \/ (attached[h] /\ visible[h])]
  /\ sub' = IF attached[h] THEN [sub EXCEPT ![h] = 0] ELSE sub
  /\ refused' = [refused EXCEPT ![h] = @ \/ ~attached[h]]
  /\ EndCallback(FALSE)
  /\ UNCHANGED <<attached, detaching, presentation, shown, frame, wanted>>

StartTick(h) ==
  /\ Refusing(h) /\ attached[h] /\ visible[h] /\ shown[h]
  /\ frame' = [revision |-> revision[h], sub |-> sub[h]]
  /\ UNCHANGED <<dispatcher, attached, detaching, sub, presentation, deferred, shown, refused, wanted>>

\* tickCurrent: nothing the application did replaced the presentation this tick began with.
TickCurrent(h) == visible[h] /\ revision[h] = frame.revision /\ sub[h] = frame.sub

AbandonTick(h) ==
  /\ Returned /\ frame # NoFrame /\ h = Ticked
  /\ ~TickCurrent(h)
  /\ EndCallback(FALSE)
  /\ frame' = NoFrame
  /\ UNCHANGED <<attached, detaching, sub, presentation, deferred, shown, refused, wanted>>

\* Mutant of FinishTick: keeps the id of a subscription that ends.
FinishTickKeepsId(h, keep) ==
  /\ Returned /\ frame # NoFrame /\ h = Ticked
  /\ TickCurrent(h)
  /\ wanted' = [wanted EXCEPT ![h] = keep]
  /\ EndCallback(keep)
  /\ frame' = NoFrame
  /\ UNCHANGED <<attached, detaching, sub, presentation, deferred, shown, refused>>

\* The tree and the tooltip say whether they want another tick.
FinishTick(h, keep) ==
  /\ Returned /\ frame # NoFrame /\ h = Ticked
  /\ TickCurrent(h)
  /\ sub' = IF keep THEN sub ELSE [sub EXCEPT ![h] = 0]
  /\ wanted' = [wanted EXCEPT ![h] = keep]
  /\ EndCallback(keep)
  /\ frame' = NoFrame
  /\ UNCHANGED <<attached, detaching, presentation, deferred, shown, refused>>

DispatcherStep ==
  /\ detaching = <<>>
  /\ BeginTick \/ Skip \/ BeginCallback \/ EndTick
  /\ UNCHANGED <<attached, detaching, sub, presentation, deferred, shown, frame, refused, wanted>>

HostTick(h) ==
  \/ RefuseTick(h) \/ StartTick(h) \/ AbandonTick(h)
  \/ \E keep \in BOOLEAN : FinishTick(h, keep)

AppStep(h) ==
  \/ AttachHost(h) \/ BeginDetach(h) \/ RequestAnimation(h)
  \/ HidePresentation(h) \/ ShowPresentation(h)
  \/ HideWindow(h) \/ ShowWindow(h) \/ ShowAncestor(h)

Next == DispatcherStep \/ EndDetach \/ \E h \in Host : HostTick(h) \/ AppStep(h)

\* The system posts WM_TIMER while the timer runs, the application's callbacks return, also those
\* of nested calls of Detach, and a tick that began goes on.  Strong fairness, because a Detach in
\* progress suspends the ticks.
Fairness ==
  /\ SF_vars(DispatcherStep /\ (timerRunning \/ pos > 0))
  /\ SF_vars(\E h \in Host : HostTick(h))
  /\ \A h \in Host : SF_vars(detaching # <<>> /\ Head(detaching) = h /\ EndDetach)

Spec == Init /\ [][Next]_vars /\ Fairness

-----------------------------------------------------------------------------
Entries == subscriptions \o pendingAdds
EntriesOf(h) == {i \in DOMAIN Entries : Entries[i].context = h /\ ~Entries[i].pendingRemove}

\* Inside a tick and between ticks the dispatcher and the hosts agree: a host that holds a
\* subscription is in the lists once and under that id, and one that holds none, or whose
\* subscription a tick refused when it had no window, is not in them.  No entry is left behind that
\* nobody can remove, also when a tree that Detach drops asks for animation again.
HostsOwnTheirEntries ==
  \A h \in Host : IF sub[h] = 0 \/ refused[h] THEN EntriesOf(h) = {}
                  ELSE \E i \in DOMAIN Entries : EntriesOf(h) = {i} /\ Entries[i].id = sub[h]

\* A host whose presentation is hidden holds no subscription and is called no more, not even by the
\* rest of the tick, its own or another host's, that hid it, and whatever asks for animation while
\* it is hidden.
HiddenIsNeverCalled == \A h \in Host : ~visible[h] => sub[h] = 0 /\ EntriesOf(h) = {}

\* Outside a tick the timer runs exactly while somebody is subscribed.
TimerMatchesSubscriptions == pos = 0 => (timerRunning <=> subscriptions # <<>>)

\* Animation that was asked for and not ended is never forgotten: the dispatcher has the host in its
\* lists, or one of the two flags will make the next show message, or the application's next show,
\* subscribe it again, in whichever order it was hidden (WindowHost.cpp:1863-1877, 3387-3412,
\* 6016-6027).  Only a host that a tick refused when it had no window loses what is asked for.
WantedIsNotLost ==
  \A h \in Host : wanted[h] => EntriesOf(h) # {} \/ resume[h] \/ suspended[h] \/ refused[h]

\* Every host whose subscription the dispatcher has is ticked with it, gives it up or is refused: a
\* tick comes to its end though callbacks subscribe again during it, and what they subscribed is
\* ticked by the next.
EverySubscriberIsTicked ==
  \A h \in Host : sub[h] # 0 /\ ~refused[h] ~> (sub[h] = 0 \/ refused[h] \/ (frame # NoFrame /\ Ticked = h))

=============================================================================
