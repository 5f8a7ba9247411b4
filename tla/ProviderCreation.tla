-------------------------- MODULE ProviderCreation -------------------------
(***************************************************************************)
(* How an automation client's thread obtains the root provider of a        *)
(* window, and how the window takes it back                                *)
(* (CreateWindowHostAccessibilityProvider, AcquireCanonicalRootProvider,   *)
(* RegisterWindowHostAccessibilityTarget and Unregister... in              *)
(* src/src/Controls/DxUi.Accessibility.cpp).                               *)
(*                                                                         *)
(* The client sends a payload to the window's thread, which makes the      *)
(* provider.  A result object shared by the payload and the caller owns    *)
(* the provider, so that an answer that comes too late owns itself.  A     *)
(* target stands for an attached host: it caches its root provider, which  *)
(* holds the target, a cycle that only the retirement of the host breaks.  *)
(* Clients that hold a provider use the cache from their own threads.      *)
(*                                                                         *)
(* A payload identifies one call and the client that makes it.             *)
(***************************************************************************)
EXTENDS PostedPayload, Sequences

CONSTANTS
  Target,    \* the addresses of WindowHostAccessibilityTarget objects
  Provider,  \* the addresses of root AccessibilityProvider objects
  MaxNested  \* bound on the handlers inside one another on a window's thread

ASSUME CreationAssumption ==
  /\ IsFiniteSet(Target) /\ IsFiniteSet(Provider)
  /\ Target \cap Provider = {} /\ None \notin Target \cup Provider

VARIABLES
  refs,          \* the reference count of each object, 0 when it is free
  property,      \* the target registered for each window
  host,          \* the targets whose host pointer is not null
  cache,         \* target->rootProvider
  targetOf,      \* provider->_target
  superseded,    \* providers dropped from the cache because their control is gone (history)
  disconnected,  \* providers given to UiaDisconnectProvider (history)
  retire,        \* how far each window's UnregisterWindowHostAccessibilityTarget is
  handling,      \* the payloads in each window thread's handlers, the outer first
  stage,         \* how far each call is in making or finding a root
  at,            \* the target that a handler has acquired
  seen,          \* the cached root that a call looked at
  root,          \* the root that AcquireCanonicalRootProvider returned
  result,        \* result->provider
  held,          \* the provider that each client owns
  returned       \* the callers that have returned

targets   == <<property, host, cache>>
providers == <<targetOf, superseded, disconnected>>
acquiring == <<at, seen, root>>
callers   == <<result, held, returned>>
cvars     == <<vars, refs, targets, providers, retire, handling, stage, acquiring, callers>>

Stage  == {"idle", "took", "flush", "look", "make", "made", "drop"}
Retire == [step : {"none", "found", "hidden", "uncached", "forgotten"},
           target : Target \cup {None}, root : Provider \cup {None}]

NotRetiring == [step |-> "none", target |-> None, root |-> None]

CreationTypeOK ==
  /\ TypeOK
  /\ refs \in [Target \cup Provider -> Nat]
  /\ property \in [Window -> Target \cup {None}]
  /\ host \subseteq Target
  /\ cache \in [Target -> Provider \cup {None}]
  /\ targetOf \in [Provider -> Target \cup {None}]
  /\ superseded \subseteq Provider /\ disconnected \subseteq Provider
  /\ retire \in [Window -> Retire]
  /\ handling \in [Window -> Seq(Payload)]
  /\ stage \in [Payload -> Stage]
  /\ at \in [Payload -> Target \cup {None}]
  /\ seen \in [Payload -> Provider \cup {None}]
  /\ root \in [Payload -> Provider \cup {None}]
  /\ result \in [Payload -> Provider \cup {None}]
  /\ held \in [Payload -> Provider \cup {None}]
  /\ returned \subseteq Payload

CreationInit ==
  /\ Init
  /\ refs = [x \in Target \cup Provider |-> 0]
  /\ property = [w \in Window |-> None]
  /\ host = {}
  /\ cache = [t \in Target |-> None]
  /\ targetOf = [q \in Provider |-> None]
  /\ superseded = {} /\ disconnected = {}
  /\ retire = [w \in Window |-> NotRetiring]
  /\ handling = [w \in Window |-> <<>>]
  /\ stage = [p \in Payload |-> "idle"]
  /\ at = [p \in Payload |-> None]
  /\ seen = [p \in Payload |-> None] /\ root = [p \in Payload |-> None]
  /\ result = [p \in Payload |-> None] /\ held = [p \in Payload |-> None]
  /\ returned = {}

-----------------------------------------------------------------------------
(* Reference counts.  A provider that goes releases its target.            *)

AddRef(r, x) == IF x = None THEN r ELSE [r EXCEPT ![x] = @ + 1]

Release(r, x) ==
  IF x = None THEN r
  ELSE IF x \in Provider /\ r[x] = 1
       THEN [r EXCEPT ![x] = 0, ![targetOf[x]] = @ - 1]
       ELSE [r EXCEPT ![x] = @ - 1]

\* The window's thread runs application code or its message loop: it is in no
\* handler, or in one that reads the application's models for a snapshot.
Runs(w) ==
  /\ retire[w].step = "none"
  /\ handling[w] # <<>> => stage[handling[w][Len(handling[w])]] = "flush"

Handles(w, p) == handling[w] # <<>> /\ handling[w][Len(handling[w])] = p
InHandler(p)  == \E w \in Window : \E i \in 1 .. Len(handling[w]) : handling[w][i] = p

ToStage(p, s) == stage' = [stage EXCEPT ![p] = s]

-----------------------------------------------------------------------------
(* A host attaches to its window and detaches from it.                     *)

AttachHost(w) ==
  /\ Runs(w) /\ Attach(w)
  /\ UNCHANGED <<refs, targets, providers, retire, handling, stage, acquiring, callers>>

\* If the target cannot be made or registered the host detaches at once.
RegisterWindowHostAccessibilityTarget(w, t) ==
  /\ Runs(w) /\ w \in windows /\ property[w] = None
  /\ refs[t] = 0
  /\ refs' = [refs EXCEPT ![t] = 1]
  /\ property' = [property EXCEPT ![w] = t]
  /\ host' = host \cup {t}
  /\ cache' = [cache EXCEPT ![t] = None]
  /\ UNCHANGED <<vars, providers, retire, handling, stage, acquiring, callers>>

DetachHost(w) ==
  /\ Runs(w) /\ Detach(w)
  /\ retire' = [retire EXCEPT ![w] = IF property[w] = None THEN @
                                     ELSE [@ EXCEPT !.step = "found", !.target = property[w]]]
  /\ UNCHANGED <<refs, targets, providers, handling, stage, acquiring, callers>>

\* Mutant of ClearHost: leaves the host pointer.
ClearNoHost(w) ==
  /\ retire[w].step = "found"
  /\ retire' = [retire EXCEPT ![w].step = "hidden"]
  /\ UNCHANGED <<vars, refs, targets, providers, handling, stage, acquiring, callers>>

ClearHost(w) ==
  /\ retire[w].step = "found"
  /\ host' = host \ {retire[w].target}
  /\ retire' = [retire EXCEPT ![w].step = "hidden"]
  /\ UNCHANGED <<vars, refs, property, cache, providers, handling, stage, acquiring, callers>>

\* One critical section of the target's providerMutex.
DetachRoot(w) ==
  /\ retire[w].step = "hidden"
  /\ retire' = [retire EXCEPT ![w].step = "uncached", ![w].root = cache[retire[w].target]]
  /\ cache' = [cache EXCEPT ![retire[w].target] = None]
  /\ UNCHANGED <<vars, refs, property, host, providers, handling, stage, acquiring, callers>>

ForgetTarget(w) ==
  /\ retire[w].step = "uncached"
  /\ property' = [property EXCEPT ![w] = None]
  /\ refs' = Release(refs, retire[w].target)
  /\ retire' = [retire EXCEPT ![w].step = "forgotten", ![w].target = None]
  /\ UNCHANGED <<vars, host, cache, providers, handling, stage, acquiring, callers>>

DisconnectRoot(w) ==
  /\ retire[w].step = "forgotten"
  /\ disconnected' = disconnected \cup ({retire[w].root} \ {None})
  /\ refs' = Release(refs, retire[w].root)
  /\ retire' = [retire EXCEPT ![w] = NotRetiring]
  /\ UNCHANGED <<vars, targets, targetOf, superseded, handling, stage, acquiring, callers>>

OpenHostWindow(w) ==
  /\ handling[w] = <<>> /\ OpenWindow(w)
  /\ UNCHANGED <<refs, targets, providers, retire, handling, stage, acquiring, callers>>

CloseHostWindow(w) ==
  /\ Runs(w) /\ property[w] = None /\ CloseWindow(w)
  /\ UNCHANGED <<refs, targets, providers, retire, handling, stage, acquiring, callers>>

-----------------------------------------------------------------------------
(* AcquireCanonicalRootProvider, on the window's thread or a client's.     *)

\* A handler holds its target; a client's provider holds the client's.
TargetOfCall(p) == IF InHandler(p) THEN at[p] ELSE targetOf[held[p]]

\* Mutant of HasHost: does not look.
HasHostOnce(t) == t \in Target

\* "Retirement clears host before taking this cache lock."
HasHost(t) == t \in host

\* The first critical section takes a reference of the cached root.
LookAtCache(p) ==
  /\ stage[p] = "look"
  /\ seen' = [seen EXCEPT ![p] = cache[TargetOfCall(p)]]
  /\ refs' = AddRef(refs, cache[TargetOfCall(p)])
  /\ ToStage(p, "make")
  /\ UNCHANGED <<vars, targets, providers, retire, handling, at, root, callers>>

AcquireNothing(p) ==
  /\ stage[p] = "make" /\ ~HasHost(TargetOfCall(p))
  /\ refs' = Release(refs, seen[p])
  /\ seen' = [seen EXCEPT ![p] = None]
  /\ ToStage(p, "made")
  /\ UNCHANGED <<vars, targets, providers, retire, handling, at, root, callers>>

AcquireCached(p) ==
  LET t == TargetOfCall(p) IN
  /\ stage[p] = "make" /\ HasHost(t) /\ cache[t] # None
  /\ refs' = Release(AddRef(refs, cache[t]), seen[p])
  /\ seen' = [seen EXCEPT ![p] = None]
  /\ root' = [root EXCEPT ![p] = cache[t]]
  /\ ToStage(p, "made")
  /\ UNCHANGED <<vars, targets, providers, retire, handling, at, callers>>

\* Is there no root to return?  One that was found gone, and still is the
\* cached one, is dropped; whether it was gone depends on what the window shows.
NeedsRoot(p, t) == HasHost(t) /\ (cache[t] = None \/ cache[t] = seen[p])

\* Drops the cached root and the reference that the look took of it.
WithoutOldRoot(p, t) == Release(Release(refs, cache[t]), seen[p])

AcquireNew(p, q) ==
  LET t == TargetOfCall(p) IN
  /\ stage[p] = "make" /\ NeedsRoot(p, t)
  /\ refs[q] = 0
  /\ refs' = [AddRef(WithoutOldRoot(p, t), t) EXCEPT ![q] = 2]
  /\ superseded' = (superseded \cup {seen[p]}) \ {q, None}
  /\ disconnected' = disconnected \ {q}
  /\ targetOf' = [targetOf EXCEPT ![q] = t]
  /\ cache' = [cache EXCEPT ![t] = q]
  /\ seen' = [seen EXCEPT ![p] = None]
  /\ root' = [root EXCEPT ![p] = q]
  /\ ToStage(p, "made")
  /\ UNCHANGED <<vars, property, host, retire, handling, at, callers>>

\* No memory: the reference taken for the new provider is released again.
AcquireFails(p) ==
  LET t == TargetOfCall(p) IN
  /\ stage[p] = "make" /\ NeedsRoot(p, t)
  /\ refs' = WithoutOldRoot(p, t)
  /\ superseded' = (superseded \cup {seen[p]}) \ {None}
  /\ cache' = [cache EXCEPT ![t] = None]
  /\ seen' = [seen EXCEPT ![p] = None]
  /\ ToStage(p, "made")
  /\ UNCHANGED <<vars, property, host, targetOf, disconnected, retire, handling, at, root, callers>>

-----------------------------------------------------------------------------
(* The handler of the message, on the window's thread.                     *)

\* A message whose payload was drained is answered at once.
HandlerTakes(w, m) ==
  LET found == {e \in entries : Matches(e, m)} IN
  /\ Runs(w) /\ Len(handling[w]) < MaxNested
  /\ m \in inbox /\ m.window = w
  /\ inbox' = inbox \ {m}
  /\ TakeMessagePayload(m)
  /\ IF found = {}
     THEN /\ sender' = [p \in Payload |-> IF call[p] = m /\ sender[p] = "sending" THEN "answered" ELSE sender[p]]
          /\ UNCHANGED <<handling, stage>>
     ELSE /\ \E e \in found : /\ handling' = [handling EXCEPT ![w] = Append(@, e.payload)]
                              /\ ToStage(e.payload, "took")
          /\ UNCHANGED sender
  /\ UNCHANGED <<open, life, call, refs, targets, providers, retire, acquiring, callers>>

AcquireWindowHostAccessibilityTarget(w, p) ==
  /\ Handles(w, p) /\ stage[p] = "took"
  /\ at' = [at EXCEPT ![p] = property[w]]
  /\ refs' = AddRef(refs, property[w])
  /\ ToStage(p, IF property[w] = None THEN "drop" ELSE "flush")
  /\ UNCHANGED <<vars, targets, providers, retire, handling, seen, root, callers>>

FlushReturns(w, p) ==
  /\ Handles(w, p) /\ stage[p] = "flush" /\ retire[w].step = "none"
  /\ ToStage(p, "look")
  /\ UNCHANGED <<vars, refs, targets, providers, retire, handling, acquiring, callers>>

\* Mutant of HandlerDelivers: keeps the target when there is no root.
DeliversOrKeeps(w, p) ==
  /\ Handles(w, p) /\ stage[p] = "made"
  /\ refs' = IF root[p] = None THEN refs ELSE Release(refs, at[p])
  /\ at' = [at EXCEPT ![p] = None]
  /\ result' = [result EXCEPT ![p] = root[p]]
  /\ root' = [root EXCEPT ![p] = None]
  /\ ToStage(p, "drop")
  /\ UNCHANGED <<vars, targets, providers, retire, handling, seen, held, returned>>

HandlerDelivers(w, p) ==
  /\ Handles(w, p) /\ stage[p] = "made"
  /\ refs' = Release(refs, at[p])
  /\ at' = [at EXCEPT ![p] = None]
  /\ result' = [result EXCEPT ![p] = root[p]]
  /\ root' = [root EXCEPT ![p] = None]
  /\ ToStage(p, "drop")
  /\ UNCHANGED <<vars, targets, providers, retire, handling, seen, held, returned>>

\* The payload goes; the result goes with it if the caller has returned.
HandlerReturns(w, p) ==
  LET late == p \in returned IN
  /\ Handles(w, p) /\ stage[p] = "drop"
  /\ Move(p, "gone")
  /\ refs' = IF late THEN Release(refs, result[p]) ELSE refs
  /\ result' = IF late THEN [result EXCEPT ![p] = None] ELSE result
  /\ handling' = [handling EXCEPT ![w] = SubSeq(@, 1, Len(@) - 1)]
  /\ ToStage(p, "idle")
  /\ IF sender[p] = "sending" THEN Advance(p, "answered") ELSE UNCHANGED sender
  /\ UNCHANGED <<entries, windows, next, system, call, targets, providers, retire, acquiring, held, returned>>

-----------------------------------------------------------------------------
(* The caller and client.                                                  *)

CallerSends(p) ==
  /\ \/ \E w \in Window : Refused(p, w) \/ \E k \in Kind : SendRegisters(p, w, k)
     \/ Send(p) \/ SendReturns(p) \/ SendTimesOut(p) \/ SendReclaims(p)
     \/ place[p] # "taken" /\ Delete(p)
  /\ UNCHANGED <<refs, targets, providers, retire, handling, stage, acquiring, callers>>

\* After TRUE the caller takes the provider out of the result.  After FALSE it
\* leaves the result to the payload, if that is not gone.
CallerReturns(p) ==
  LET lets == sender[p] = "false" /\ place[p] = "gone" IN
  /\ sender[p] \in {"true", "false"} /\ p \notin returned
  /\ returned' = returned \cup {p}
  /\ held' = IF sender[p] = "true" THEN [held EXCEPT ![p] = result[p]] ELSE held
  /\ result' = IF sender[p] = "true" \/ lets THEN [result EXCEPT ![p] = None] ELSE result
  /\ refs' = IF lets THEN Release(refs, result[p]) ELSE refs
  /\ UNCHANGED <<vars, targets, providers, retire, handling, stage, acquiring>>

\* A client asks its provider for the window's root, on its own thread.
ClientAsks(p) ==
  /\ held[p] # None /\ stage[p] = "idle"
  /\ ToStage(p, "look")
  /\ UNCHANGED <<vars, refs, targets, providers, retire, handling, acquiring, callers>>

ClientReleasesRoot(p) ==
  /\ ~InHandler(p) /\ stage[p] = "made"
  /\ refs' = Release(refs, root[p])
  /\ root' = [root EXCEPT ![p] = None]
  /\ ToStage(p, "idle")
  /\ UNCHANGED <<vars, targets, providers, retire, handling, at, seen, callers>>

ClientReleasesProvider(p) ==
  /\ held[p] # None /\ stage[p] \in {"idle", "made"}
  /\ refs' = Release(refs, held[p])
  /\ held' = [held EXCEPT ![p] = None]
  /\ UNCHANGED <<vars, targets, providers, retire, handling, stage, acquiring, result, returned>>

-----------------------------------------------------------------------------
CreationNext ==
  \/ \E w \in Window :
       \/ AttachHost(w) \/ DetachHost(w) \/ OpenHostWindow(w) \/ CloseHostWindow(w)
       \/ ClearHost(w) \/ DetachRoot(w) \/ ForgetTarget(w) \/ DisconnectRoot(w)
       \/ \E t \in Target : RegisterWindowHostAccessibilityTarget(w, t)
       \/ \E m \in inbox : HandlerTakes(w, m)
  \/ \E w \in Window, p \in Payload :
       \/ AcquireWindowHostAccessibilityTarget(w, p) \/ FlushReturns(w, p)
       \/ HandlerDelivers(w, p) \/ HandlerReturns(w, p)
  \/ \E p \in Payload :
       \/ LookAtCache(p) \/ AcquireNothing(p) \/ AcquireCached(p) \/ AcquireFails(p)
       \/ \E q \in Provider : AcquireNew(p, q)
       \/ CallerSends(p) \/ CallerReturns(p)
       \/ ClientAsks(p) \/ ClientReleasesRoot(p) \/ ClientReleasesProvider(p)

CreationSpec == CreationInit /\ [][CreationNext]_cvars

-----------------------------------------------------------------------------
(* Properties.                                                             *)

\* Every count is the number of owners: an object whose count is too low is used after it was
\* freed, one whose count is too high is never freed, whichever of the paths through a late answer,
\* a failed allocation and a retirement was taken (6368-6418, 13713-13754, 15014-15046).
RefsAreHeld ==
  /\ \A q \in Provider :
       refs[q] = Cardinality({t \in Target : cache[t] = q}) + Cardinality({w \in Window : retire[w].root = q})
                 + Cardinality({p \in Payload : seen[p] = q}) + Cardinality({p \in Payload : root[p] = q})
                 + Cardinality({p \in Payload : result[p] = q}) + Cardinality({p \in Payload : held[p] = q})
  /\ \A t \in Target :
       refs[t] = Cardinality({w \in Window : property[w] = t}) + Cardinality({p \in Payload : at[p] = t})
                 + Cardinality({q \in Provider : refs[q] > 0 /\ targetOf[q] = t})

\* Nothing is left when the hosts have detached, the callers have returned, the payloads are gone
\* and the clients have released what they got: no late answer is stranded, and no query that
\* began before a retirement has made the cycle of target and root again (6393-6396).
RestIsEmpty ==
  (/\ \A w \in Window : property[w] = None /\ retire[w].step = "none" /\ handling[w] = <<>>
   /\ \A p \in Payload : p \in returned /\ place[p] = "gone" /\ stage[p] = "idle" /\ held[p] = None)
  => \A x \in Target \cup Provider : refs[x] = 0

\* A root that outlives its host was disconnected, or had been replaced because it was gone: UI
\* Automation may not retain one that is neither when the HWND is used again (13747-13753).
RetiredRootsAreDisconnected ==
  \A q \in Provider \ (superseded \cup disconnected) :
    refs[q] > 0 => \E w \in Window : targetOf[q] = property[w] \/ q = retire[w].root

=============================================================================
