------------------------ MODULE AnimationDispatcher ------------------------
(***************************************************************************)
(* The UI thread's animation dispatcher                                    *)
(* (src/src/Support/AnimationDispatcher.h): a list of subscriptions, a     *)
(* timer that runs while there are any, and a tick that calls them one by  *)
(* one while the callbacks subscribe and unsubscribe.                      *)
(*                                                                         *)
(* Everything runs on one thread; what makes it hard is that a tick is not *)
(* one step.  "pos" is the loop's position in the list, and any operation  *)
(* may come between two positions, from inside a callback.  A callback     *)
(* that dispatches the timer's messages itself is not modelled: no tick of *)
(* the library does, and the loop is not written for it.                   *)
(***************************************************************************)
EXTENDS Naturals, Sequences

CONSTANTS
  Context,   \* the subscribers
  MaxId      \* bound on the subscription ids a run hands out

ASSUME DispatcherAssumption == MaxId \in Nat

VARIABLES
  subscriptions,  \* _subscriptions
  pendingAdds,    \* _pendingAdds
  inTick,         \* _inTick
  timerRunning,   \* _timerRunning
  nextId,         \* _nextSubscriptionId
  pos,            \* the loop's position in a tick, 0 outside
  calling         \* is the callback at pos running?

lists == <<subscriptions, pendingAdds>>
tick  == <<inTick, pos, calling>>
dispatcher == <<lists, tick, timerRunning, nextId>>

Id == 1 .. MaxId
Subscription == [id : Id, context : Context, pendingRemove : BOOLEAN]

DispatcherTypeOK ==
  /\ subscriptions \in Seq(Subscription)
  /\ pendingAdds \in Seq(Subscription)
  /\ inTick \in BOOLEAN /\ timerRunning \in BOOLEAN /\ calling \in BOOLEAN
  /\ nextId \in 1 .. MaxId + 1
  /\ pos \in 0 .. Len(subscriptions) + 1

DispatcherInit ==
  /\ subscriptions = <<>> /\ pendingAdds = <<>>
  /\ inTick = FALSE /\ timerRunning = FALSE /\ calling = FALSE
  /\ nextId = 1
  /\ pos = 0

\* The entries that are not marked, in their order (SelectSeq, which the prover cannot expand).
Active(list) ==
  LET kept[i \in 0 .. Len(list)] ==
        IF i = 0 THEN <<>>
        ELSE IF list[i].pendingRemove THEN kept[i - 1] ELSE Append(kept[i - 1], list[i])
  IN kept[Len(list)]

Marked(list, id) ==
  [i \in DOMAIN list |-> IF list[i].id = id THEN [list[i] EXCEPT !.pendingRemove = TRUE] ELSE list[i]]

\* EnsureTimerState: the timer runs exactly while something is subscribed.
TimerFollows(subs, adds) == timerRunning' = (subs # <<>> \/ adds # <<>>)

\* A subscription made during a tick waits until the loop is over.
Subscribe(c) ==
  LET s == [id |-> nextId, context |-> c, pendingRemove |-> FALSE] IN
  /\ nextId <= MaxId
  /\ nextId' = nextId + 1
  /\ subscriptions' = IF inTick THEN subscriptions ELSE Append(subscriptions, s)
  /\ pendingAdds' = IF inTick THEN Append(pendingAdds, s) ELSE pendingAdds
  /\ timerRunning' = TRUE
  /\ UNCHANGED tick

\* During a tick a removal only marks the entry: the loop holds the list.
Unsubscribe(id) ==
  LET subs == Marked(subscriptions, id)
      adds == Marked(pendingAdds, id) IN
  /\ IF inTick
     THEN subscriptions' = subs /\ pendingAdds' = adds /\ UNCHANGED timerRunning
     ELSE /\ subscriptions' = Active(subs) /\ pendingAdds' = Active(adds)
          /\ TimerFollows(Active(subs), Active(adds))
  /\ UNCHANGED <<tick, nextId>>

\* WM_TIMER.  A timer that was just killed may still have a message queued.
BeginTick ==
  /\ pos = 0
  /\ IF subscriptions = <<>>
     THEN /\ subscriptions' = Active(pendingAdds) /\ pendingAdds' = <<>>
          /\ TimerFollows(Active(pendingAdds), <<>>)
          /\ UNCHANGED tick
     ELSE inTick' = TRUE /\ pos' = 1 /\ UNCHANGED <<lists, timerRunning, calling>>
  /\ UNCHANGED nextId

Skip ==
  /\ pos \in DOMAIN subscriptions /\ ~calling
  /\ subscriptions[pos].pendingRemove
  /\ pos' = pos + 1
  /\ UNCHANGED <<lists, inTick, calling, timerRunning, nextId>>

BeginCallback ==
  /\ pos \in DOMAIN subscriptions /\ ~calling
  /\ ~subscriptions[pos].pendingRemove
  /\ calling' = TRUE
  /\ UNCHANGED <<lists, inTick, pos, timerRunning, nextId>>

\* The callback returns whether it wants further ticks.
EndCallback(keep) ==
  /\ calling
  /\ subscriptions' = IF keep THEN subscriptions ELSE [subscriptions EXCEPT ![pos].pendingRemove = TRUE]
  /\ calling' = FALSE
  /\ pos' = pos + 1
  /\ UNCHANGED <<pendingAdds, inTick, timerRunning, nextId>>

\* Mutants of EndTick: leaves the loop open, drops what was added, or leaves
\* the timer as it is.
EndTickKeepsPlace ==
  LET subs == Active(subscriptions) \o Active(pendingAdds) IN
  /\ pos > Len(subscriptions)
  /\ inTick' = FALSE
  /\ subscriptions' = subs /\ pendingAdds' = <<>>
  /\ TimerFollows(subs, <<>>)
  /\ UNCHANGED <<pos, calling, nextId>>

EndTickDropsAdds ==
  /\ pos > Len(subscriptions)
  /\ inTick' = FALSE /\ pos' = 0
  /\ subscriptions' = Active(subscriptions) /\ pendingAdds' = <<>>
  /\ TimerFollows(Active(subscriptions), <<>>)
  /\ UNCHANGED <<calling, nextId>>

EndTickKeepsTimer ==
  /\ pos > Len(subscriptions)
  /\ inTick' = FALSE /\ pos' = 0
  /\ subscriptions' = Active(subscriptions) \o Active(pendingAdds) /\ pendingAdds' = <<>>
  /\ UNCHANGED <<calling, nextId, timerRunning>>

\* Collect what was removed, then append what was added.
EndTick ==
  LET subs == Active(subscriptions) \o Active(pendingAdds) IN
  /\ pos > Len(subscriptions)
  /\ inTick' = FALSE /\ pos' = 0
  /\ subscriptions' = subs /\ pendingAdds' = <<>>
  /\ TimerFollows(subs, <<>>)
  /\ UNCHANGED <<calling, nextId>>

=============================================================================
