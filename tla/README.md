# Formal models of DxUi

DxUi is a retained-mode UI library for Windows: C++ controls drawn with Direct2D, hosted either in a native
window (`ControlHost`) or in an application's own Direct3D 11 frame (`EmbeddedHost`). Most of its 148 000 lines are
sequential: layout, painting, text, parsing. What is hard to get right and hard to test is narrower:

- five small concurrent protocols (the failure service's lifetime gates, its fatal dispatch, the payload registry,
  automation actions, provider creation), each with atomics or one mutex and several threads;
- callbacks: nearly every operation of a host calls controls and through them the application, which may call the
  host again, detach it, hide it or replace its device before the first call resumes;
- scheduling without a scheduler: an animation timer and a "please prepare me" notification that must not be lost.

The models take these first. Paths below are relative to `src/`.

## Inventory

| Component | State | Operations | Interacts with | What makes it correct |
|---|---|---|---|---|
| Failure service, `src/Foundation/Failure.cpp` | `processOwner`, `processReaders`, per module `moduleGate`, `moduleServices`, `moduleUpdate`, per owner `registrations`, per thread scope depth | Install, Uninstall, Attach, Detach, Scope, ObjectLifetime, CRT handlers | every public entry point opens a Scope | nothing in use is freed; refusals leave nothing half closed |
| Fatal dispatch, same file, and the reporter of `src/Samples/Shared/FailureHost.cpp` | `fatalState`, `reportComplete`, `firstFailure`; of the sample host `reporting_`, three events and a dump thread | Fail, Dispatch by any thread; Report, Stop and the dump thread's loop | reporter of the application | the first failure is reported once, is not cut short, and the process ends with it |
| Payload registry, `src/Support/PostedPayload.h` | 128 entries, 128 windows, next token, one mutex | Init, Post, Send, Take, Reclaim, Drain | window queues; hosts; accessibility | one owner per payload; no slot lost; nothing delivered to the wrong window |
| Automation actions, `src/Controls/DxUi.Accessibility.cpp` | atomic state, event and request shared by two threads | dispatch, handler, payload destructor | registry; window thread | clients are told the truth, abandoned actions never run, no client waits for ever |
| Provider creation, same file | reference counts of results, targets and providers; the target's cached root; the window's property | create and query across threads, register and retire a target | registry, automation clients | counts are owners; a late answer leaks nothing; a retired root is disconnected |
| Animation dispatcher, `src/Support/AnimationDispatcher.h` | subscriptions, pending adds, timer, tick flag | Subscribe, Unsubscribe, tick | hosts | lists stable under callbacks; the timer runs when needed |
| Native host animation, `src/Controls/DxUi.WindowHost.cpp` | subscription id, visibility, revision, two deferral flags | RequestAnimation, hide, show, tick | dispatcher; window messages | animation is not forgotten; hidden hosts are not called, those without a window not ticked |
| Embedded host, `src/Rendering/Embedded.cpp` | `State`, revisions, detach and replace flags | Attach, Detach, ReplaceDevice, SetVisible, Prepare, PrepareInteraction, input, Composite | application callbacks; controls | no lost wake-up; no use of a retired attachment, device or surface |
| Window host, the rest | focus, capture, swap chain, tooltips | window procedure | everything above | focus and capture survive removal of controls |
| Text store, `src/Controls/DxUi.TextStoreACP.cpp` | `_lockFlags`, `_pendingLockFlags`, two pending notifications, the observed state, the edit staged by the native target, the posted message | RequestLock, SetText and SetSelection of TSF, NotifyExternalChanges, NotifyPreparedLayout, AdviseSink, UnadviseSink, end of a session | TSF's sink, the application's change callback, the window's queue | no lock inside another; what the sink is told is true; nothing pending is forgotten |
| Text input services, `NativeTextInput.cpp` | sessions, the focused document | activation, focus, replacement of a session | TSF, window manager, the text store | sessions match focus |
| Rich text | document revisions, undo, asynchronous images and content | edits, prepare, publish, cancel | hosts | undo restores; stale results are dropped |
| Menus, controls, grid, tree, combo box | selection, caches, popups | input, model changes | hosts | virtualised state matches the model |
| Parsers (Markdown, mathematics, flowchart), typography, shaders, diagnostics | none that outlives a call | pure | - | tested by corpus in the repository |

`PROJECT.json` has one entry for each of these with its status, and under `hazards` the places where this code is
hard to test, each at its line.

## Modules

| Module | Models | State and actions |
|---|---|---|
| `FailureGate` | the lifetime of the failure service | one action per atomic operation; `pc[t]` and `job[t]` say where a thread stands in Install, Uninstall, Attach, Detach, Scope or a handler. A counter with its Closed bit is one number, closed from `Closed` upwards |
| `FailureGateProofs` | - | the theorems about `FailureGate`: its counters, and the storage they protect |
| `FatalDispatch` | what a fatal dispatch promises with any reporter and no clocks | one action per atomic operation of `Dispatch`, `HardFail` and `HostFatal`; `pc[t]` is where a failing thread stands, `ended` by whom and with which failure the process was ended |
| `FatalReport` | the dispatch with its time-outs and the sample host's reporter; EXTENDS `FatalDispatch` and implements it | `left[t]` are the ticks of a wait, `lag` the ticks by which threads run late; events and dump thread as in the host |
| `FatalDispatchProofs` | - | the theorems about both |
| `PostedPayload` | the registry, its senders, the windows' queues | one action per critical section; `place[p]` says who owns a payload, `sender[p]` where its call stands; messages may be forged and windows closed and reused |
| `PayloadTransfer` | what sending or posting promises | the abstract specification: a payload goes from its sender to one receiver or nowhere, and a sender told FALSE is told the truth |
| `PostedPayloadProofs` | - | the theorems about `PostedPayload` |
| `UiActionDispatch` | automation actions; EXTENDS `PostedPayload` | the caller's steps, the window thread's steps (`handling` is the stack of its handlers), the payload's destructor in three steps: it takes the action, writes that it was cancelled, sets the event |
| `UiActionProofs` | - | the theorems about `UiActionDispatch` |
| `ProviderCreation` | creation, caching, lookup and retirement of a window's root provider; EXTENDS `PostedPayload` | `refs` is every reference count; `stage[p]` is how far a call or a lookup is, `retire[w]` how far a retirement; objects are addresses, reused when freed |
| `ProviderCreationProofs` | - | the theorems about `ProviderCreation` |
| `AnimationDispatcher` | the dispatcher, without a specification of its own | the tick is a loop with a position, so that other operations come between two positions |
| `HostAnimation` | native hosts; EXTENDS `AnimationDispatcher` | the application's calls and the window's messages, between ticks and inside a callback of a tick or of a Detach; `frame` is what a running tick captured, `detaching` the calls of Detach in progress |
| `EmbeddedHost` | the embedded host | `stack` is the stack of calls in progress; a frame at a callout stage lets any further operation be pushed on it, and resumes with what is left. Revisions are compared in the code only for "has it moved", and a frame keeps just that |
| `EmbeddedHostProofs` | - | the theorems about `EmbeddedHost` |
| `HostAnimationProofs` | - | the theorems about `AnimationDispatcher` and `HostAnimation` |
| `TextStoreProofs` | - | the theorems about `TextStore` |
| `TextStore` | the TSF text store of a native host | `frames` are the calls in progress, the last one running; each keeps what it still has to do after its callback, a sequence of notifications also whether the sink advised now is the `same` it captured. The document is a text, a selection and a view |
| `MC*` | small instances for TLC | |

Each definition is mapped to its lines in `PROJECT.json`. An operator whose comment begins with "Mutant of" is no
part of a specification: it is a plausible bug with which a definition is replaced to see that a property notices.

### Decisions a reader should know

- *Failure gates.* A load followed by a compare-and-swap loop is one action (it linearizes at the exchange). Memory is
  sequentially consistent. `Attach` of a plugin happens while its host's owner is installed and not being
  uninstalled, and `Uninstall` begins when no registration of its owner is under way: this is the contract of
  `Failure.h` ("unregister/quiesce those modules before removing the process owner"). `Observe`
  runs inside a scope of the host and is covered by its pin, so `AllocationFailed` is the reader that is modelled. A read owner
  is dispatched to, and one that finds none fails hard; neither returns, so a reader is never released and the runs may
  deadlock. Other threads may run on until the process ends.
- *Fatal dispatch.* `FatalDispatch` lets a reporter do anything: fail, take for ever, return. `FatalReport` fixes the
  reporter and the clocks. A wait is a number of ticks; a tick may pass while a thread is able to run only `MaxLag`
  times. `ReportAssumption` asks the contenders' 16 s to exceed the reporter's 15 s by more than that lag: the code
  has 1 s for it, and without the assumption a contender that merely ran late would end the process during the dump.
  Left out: what a record contains, the first-chance filter `Observe`, and that MiniDumpWriteDump suspends threads.
- *Payloads.* Two constants make the bad weather explicit: forged messages, and reused HWND values (`life` counts
  how often a value has been destroyed). A window is destroyed only after its host has left it, as in WM_NCDESTROY; closing it fails the
  senders whose message is still in its queue, while a handler that has begun answers.
- *Actions.* The destructor decides, writes and signals in steps of its own, on whichever thread deletes the payload, so
  that a caller may look between them; `WriteToCome` says who may still write the shared request. An action may run a message loop, detach its host and close its window. Nothing is assumed of the
  window's thread.
- *Providers.* A call ends with a provider that its client owns, or with nothing. Whether a cached root is found to
  be gone is a choice of the model, since the contents of a snapshot are left out; so are WM_GETOBJECT (the handler
  without its transport), providers other than the root, and embedded targets. A
  root that was dropped because its control had collapsed can come back into the cache while a newer canonical root
  exists (`DxUi.Accessibility.cpp:8292`, 8297-8301, 6399-6413), so "one canonical root" is no property of this
  model; that counts are exact and that retirement disconnects is.
- *Text store.* Whenever the store calls out, whoever is called may edit, ask for locks, pump messages, unadvise or
  end the session, up to the bound on the depth. TSF advises a sink only while no lock is held, as its manager does. `SetText`
  replaces the whole document; read-only and masked controls, compositions, loss of focus without the end of a
  session, replacement sessions, sink masks and the embedded client's target are left out. A sequence of notifications keeps the sink it began with and the code compares a
  revision (`_sinkConnectionRevision`) after each callback; the frame's `same` is that comparison, and whoever unadvises or
  advises below a frame clears it (`Reconnect`). `JustInstalled` lets a run begin right after the activation, with the
  reconciliation it schedules still pending, or settled. `known`, `changes`,
  `starved` and the `wrote` of a frame are of the model, not of the code. `EditsOverUnreported` is FALSE in the
  passing run because of the finding below. Things seen in the code that no document speaks about: a layout prepared
  inside a lock session that fails is dropped; UnadviseSink keeps `_pendingLockFlags`, so that a new sink may be granted a lock it
  never asked for; a change of the selection is not reported when the text callback before it changes the state
  again; EndEdit of the native target overwrites what the application wrote after the edit was staged.
- *Animation.* The application acts between ticks and at any callback of a running tick, on any host. Detach is two
  steps: it gives up window, flags and subscription, and then calls the controls of the tree it drops
  (`DxUi.WindowHost.cpp:1534-1546`), from where the application acts as well. A request asks for no window (1908-1932), so a host
  without one may subscribe, before its Attach or in a callback of its own Detach, as `Button` does when the Detach ends its
  hover. A tick refuses such a host and leaves it its id (6008-6012), which then names no entry; `refused` remembers that. A
  host attached again with such an id counts as subscribed, and its requests come to nothing until it is hidden and shown
  or detached: `WantedIsNotLost` excepts it, and so does `HostsOwnTheirEntries`, which asks that it have no entry at all.
  "Hidden/detached content has no animation wake-up", says a plan
  (`Specs/Plans/Done/ConsumerUiImprovements_S3_S7_2026-10-11.md:417`). Of hidden content that is `HiddenIsNeverCalled`; a host
  without a window that subscribes is woken once and refused.
  A window that is
  hidden directly gets a message when it is shown; a window under a hidden parent does not (`ShowAncestor`).
  A host that stopped ticking for that reason keeps its flag and animates again only when a later message or request
  comes. The model says so; the repository's documents make no promise about it. Left out: a host destroyed while an entry of
  its is left, a subscription that fails, an Attach to another window inside a Detach.
- *Embedded host.* `Preparers` are the operations whose callbacks may prepare the view. A preparation inside a
  callback is what an application's modal loop does when it renders frames. Passing runs allow it under input, hide
  and prepare; the place where the code does not survive it is a run of its own (below). A zero-sized view is
  no longer asked about: the callback of a zero-sized preparation may hide the view and the callback of that hide
  show it again; each release then finds a newer operation and leaves the surface to it (`Embedded.cpp:340-349`), although
  `docs/hosting.md:75` says that a zero-sized view holds none. The next Prepare repairs it;
  `SurfaceIsAsShown` speaks of composited and of hidden views only. Notifications do not
  re-enter the host, as `Specs/Rendering/Rendering_EmbeddedD3D11.md:153` demands, but may change controls.
  Two ways of changing the tree differ in what they tell. `ChangeTree` marks the view dirty and asks for a preparation;
  SetClipboardPreference (`DxUi.WindowHost.cpp:2847-2854`) moves the revision that a preparation is compared with and
  says nothing. A clean view then is incoherent to the next input, NeedsPreparation stays false and Prepare answers S_FALSE
  without arranging; a preparation in which a callback sets the preference returns E_ABORT, although nobody asked for
  another as `Embedded.h:155-156` and `docs/hosting.md:63` say. `owed` and `adrift` are of the model, not of the code: whether
  the application was told, and whether the revision moved last without a word. `StaleIsAnnounced` promises the first
  or admits the second. A setter that calls out between moving the revision and its request (`DxUi.cpp:371-394`) is
  SetClipboardPreference followed by `ChangeTree`.

## Runs

| Run | Question | Bounds |
|---|---|---|
| `gate` | Do the gates keep what is used allocated, also when Install fails half way? | 2 threads that may both install, host and plugin module, 2 addresses, 2 nested scopes, 1 object per module begun at a time; saturation at 3 |
| `fatal` | Is the first failure reported, alone, to its end, and does the process end with it? | 3 threads of the host, 1 without a scope of it, the dump thread; a report of 2 ticks, contenders of 4, 1 tick late |
| `gate_late_handler` | The same for threads that enter a handler after it was replaced, when nothing makes Install roll back | 3 threads, 1 installs, host and plugin, 2 addresses, no nesting and no objects; no call of the system fails |
| `gate_rollback` | The same when Install may roll back: **violated** | as above, 2 of the threads install; no call of the system fails |
| `payload` | One owner, no orphaned slot, no late delivery, refinement of `PayloadTransfer` | 2 payloads, 2 windows used twice, 2 kinds, 2 slots, 1 window slot, 3 tokens, 1 forged message |
| `provider` | Is every count the number of owners, does nothing leak, is a retired root disconnected? | 3 calls for 1 slot, 3 tokens, 1 window that is closed once, 2 targets, 3 providers, 2 nested handlers |
| `ui_action` | Are clients told the truth, and does every call return? | 2 calls on 1 window used twice, 4 tokens |
| `animation` | Do lists, flags and timer agree, and is every subscriber ticked? | 2 hosts, 3 subscriptions, 2 presentation revisions, a Detach in progress on each |
| `embedded` | Wake-ups, retired frames, surfaces | 3 operations deep, any number in sequence |
| `embedded_nested_prepare` | A preparation from inside PrepareInteraction: **violated** | 2 deep |
| `text_store` | Is what the sink is told true, is nothing pending forgotten, are queued locks taken? | 2 calls deep, 2 changes of either side, posts may fail |
| `text_store_edits` | TSF edits while an external change is unreported: **violated** | from a settled store, 2 deep, 2 changes |

The bounds are small but each limit is hit: the payload table and the window table fill up, tokens run out, the
gates saturate, a contender waits as long as it may, an HWND value and a freed address are reused, a subscription list changes under the loop, a callback of a callback replaces the operation
two frames below. Operation sequences are unbounded everywhere except where an id or a revision counts them. `embedded`
has no counters at all: its state space is that of every sequence of calls of depth three.
Its VIEW (`Behaviour` of `MCEmbeddedHost`) leaves out the fields of a frame that the rest of its operation does not read, such as
what a retired frame knew of the tree; without it TLC visits 3.9 million states instead of 330 thousand, with the same result.

Symmetry is used for owners, and for payloads, windows and kinds, only in runs without liveness.

### Fairness

`ui_action` assumes weak fairness of each caller's own steps: its thread runs, and its wait ends by the event or the
timeout. Nothing is assumed of the window's thread, which may hang. `fatal` assumes weak fairness of every failing
thread and of time, and nothing of the dump thread, which may hang in MiniDumpWriteDump. `text_store` assumes that callbacks return and that the window's loop takes
its next message. Both are strong: a return is disabled while the callback makes calls of its own, and the loop's turn while a
call is in progress, and they come again and again because what a callback may do is bounded. `QueuedLocksAreTaken` leaves out requests whose message could not be posted, for which the
code has no retry, and sessions that end. `animation` assumes that WM_TIMER arrives while the timer runs,
that a tick that has begun goes on (a callback returns) and that a Detach returns from its callbacks. All are strong, as a Detach
in progress on the UI's thread suspends ticks. The other runs check safety only.

### What the violations show

- `gate_rollback`. The comment on `processReaders` (`src/Foundation/Failure.cpp:178`) says closing it prevents
  reclamation while a callback has the owner. Uninstall does that; the rollback of Install (575-582) stores Closed and
  frees the state whatever the count is. It takes a thread that fetched `AllocationFailed` from the runtime before an
  Uninstall and enters it while a new Install has opened the gate and then fails. No call of the system need fail: in
  the run the Uninstall is not back yet and still holds moduleUpdate, so that `RegisterModule` of the Install on another thread
  answers BUSY. `OwnersAreLive` proves that it takes both, a handler entered late and a second installer or a failing call.
- `embedded_nested_prepare`. PrepareInteraction cancels a pointer capture, the callback prepares the view with a zero
  extent, which releases the surface and moves no revision; PrepareInteraction resumes, finds nothing changed and declares the view
  coherent. Composite then draws without a surface. `Specs/Rendering/Rendering_EmbeddedD3D11.md:252` excludes it.
- `text_store_edits`. The store is settled. TSF is granted a lock to write; its first edit calls the application
  (`OnStartEditTransaction`), which changes the text there. The change is left to be reported when the lock ends. TSF goes on in
  the same lock, and once it has edited, what is in the document when the lock ends is taken for its own: the end of the
  lock records the document as observed and clears the pending notification (`DxUi.TextStoreACP.cpp:1268`, 1894), so the
  sink is never told (`OnTextChange`) of the application's change, which `Specs/UI/UI_InputAndAccessibility.md:991` promises.

## Proofs

`PostedPayloadProofs` proves, for any finite sets of payloads and windows and any sizes of the tables:
`TypeCorrect`, `PayloadHasOneOwner`, `WindowLeavesNothing`, `SlotsAreReturned` (invariants), `RefusedStaysRefused`
(an action property) and `RegistryImplementsTransfer` (the refinement of `PayloadTransfer`). The only assumption is
`RegistryAssumption` of `PostedPayload`, which TLC evaluates on the `payload`, `provider` and `ui_action` runs.

None of the invariants is inductive alone. `Ownership` is: it adds to the types that entries are unique per token and
per payload and older than `next`, that a payload's place says whether an entry holds it, that a sender's stage and
its payload's place agree (a payload that has not been registered is its sender's; one whose sender was told FALSE is not in
the table, ...), that entries belong to registered, open windows of the current life, and that an entry is backed by
its message or by its sender. `OwnershipStep` goes through the actions one by one; `RegisterEntry` is what posting and
sending share. The refinement maps `place` and `sender` to the abstract `holder` and `answer`; `TransferStep` shows
that each action is one abstract step or a stutter: a drain is one abstract `Forget` of several
payloads.

`FailureGateProofs` proves, for any finite sets of threads and modules, any owners and any `Closed` above 1, `GateTypes` and
`PinsAreCounted`, from `GateAssumption` alone (evaluated on the `gate` runs). `GateCountsPins` says that an open gate counts its pins and a closed
one is exactly Closed without any, so that nothing is counted into the Closed bit or out of it. It is not inductive: a gate that opens
must find no pins. `GateInv` adds that a thread which has found or made the gate closed still finds it so when it opens it again
(`GateStaysShut`); and for that, that moduleUpdate admits one thread per module, that Uninstall works on the host's
module, and that an outermost scope finds its thread's depth at zero (`Control`). The steps fall into three kinds: those
that touch no pin (`Still`), those that take, move or give back one (`AcquireExact`, `MovedPin`, `DroppedPin`), and
those that turn a whole gate under the lock (`TurnedGate`).

The same module goes on to what the gates are for. `PinnedAndAttachedLive` says that what is pinned or attached is allocated, from
`GateAssumption` alone. The invariant is `LifeInv`, on top of `GateInv`. An owner has one holder, the thread that installs or has installed it, and no other frees it
(`Ownership`). `registrations` counts the modules registered with the owner, where a module is registered from its Retain to
its release, published or not; while an Uninstall is under way it has Closed on top (`Counted`). An Uninstall therefore goes on
from exactly one registration; an installed owner is its host's (`Installed`), so that one is the host's, and none is left when the
storage goes (`Kept`). A pin holds its gate open, an open gate serves its module (`Serving`), and a module is only served by an
owner it is registered with. A scope keeps its services since they change at closed gates only (`Scopes`). Steps are
again of two kinds: those that leave every registration and every expectation about them alone (`Steady`), and the eight that do not
(`Turns`), which are treated one by one.

Its last part proves `ReadersAreLive`, `OwnersAreLive` (all of it) and `GatesAgreeAtRest`, under `Orderly`: either no
thread enters a handler that was replaced, or all installing is one thread's and AddVectoredExceptionHandler does not
fail it. The hypothesis is not for convenience: without it `gate_rollback` finds the violation. `RestInv` adds to `LifeInv` what
is always true and says who is responsible: what is allocated has a holder, the handler is in place exactly while somebody has
installed (`Tenure`), a taken moduleUpdate is some thread's, and a module served behind a closed gate is on its way in or out
(`Access`). At rest nobody is on the way anywhere, so these leave only the two states that `RestIsConsistent` allows. The
rest is about readers: `processReaders` is their number, with Closed on top while no owner is published or while its
thread keeps readers out, and then there are none (`ReadersCounted`). The one step that breaks it is the rollback, which
stores Closed over any count; so there must be no reader then, because a reader needs the handler in place (`Prompt`), or
no rollback (`NoRollback`). `GateAssumption` asks `Closed > 1`, since no reader at all could be counted below 1; it is 2^63.

`EmbeddedHostProofs` proves every property of `EmbeddedHost`, for callbacks that nest to any depth and for any set of
operations whose callbacks prepare: `EmbeddedTypes`, `EmbeddedRests`, `EmbeddedAnnounces` (of changes that are announced), `NoPreparationIsReentered`, the
action property `RetiredFramesTouchNothing`, and `EmbeddedShows`, which alone asks that nothing prepares from a callback of
PrepareInteraction (`embedded_nested_prepare` is what happens otherwise). A wake-up is not lost because some call in
progress still owes it, and what a call does when it resumes depends on what it checked before its callback. `EmbeddedInv` is
therefore about every frame of the stack: its stage fits its operation (`FramesFit`); a frame interrupted by a detach,
a replacement or a hide is not current (`HostKnows`); the flags of a preparation or an input entry have exactly one
frame that clears them (`FlagsKnow`); a frame that is still current finds the view as it left it (`FramesKnow`,
`DrawnKnows`, `HiddenKnows`); and a request that nobody was told of, or a preparation that was interrupted, has a frame that will
say so (`WakesKnow`). On top of that, stale visible pixels are known, held back by an input entry, or being prepared
(`StaleKnown`). `TreeInv` goes beside it, about the revision that may move without a word: pixels of another arrangement are dirty
or `adrift`, and a preparation whose tree has changed under it ends unclean, told or adrift (`TreesKnow`). Its parts are operators of values rather than of the variables: most operations end in
RequestPreparation, and are proved in two steps, a state that is sound and the notification that makes it known
(`RequestKeeps`; `FinishKeeps` and `PopSound` for the ends of preparations and of other calls).

`UiActionProofs` proves every safety property of `UiActionDispatch` for any number of calls and windows, from
`RegistryAssumption` and `DispatchAssumption`. `ActionInv` says who may still write the shared dispatch from where the payload is
and how far its handler is (`Handled`), and what the caller may still find from what it has seen of the state
(`Answered`): an action found Abandoned by a caller that did not abandon it was cancelled by the destructor, so its
result is written or is what the destructor writes next, before it sets the event; an event that is set means a payload that is gone, so nobody is left to write.

`ProviderCreationProofs` proves all four safety properties of `ProviderCreation` for any number of calls, windows,
targets and providers, from `RegistryAssumption` and `CreationAssumption` (targets and providers are finite, disjoint
and none of them is null; TLC evaluates it on `provider`): `CreationTypesHold`, `CountsAreExact`, `NothingIsLeft` and
`NoRootIsRetained`. A count stays the number of its owners only if the pointers that a step overwrites are null and
the ones it follows are not. `CreationInv` therefore says which pointers a call has at each of its stages (`CallKnows`), a
retirement at each of its steps (`WindowKnows`), and that only a registered target that is not retired yet has a host or
a cached root (`HostsKnow`, `RootsKnow`). Each step is then an equation between the references that it takes and gives back
and the pointers that it sets and clears (`Balance`; `CountMoves` is the arithmetic of one pointer). A provider that is
freed gives back its target: `Spare` is what a target's count has beyond its providers. The registry's part is taken
over from `PostedPayloadProofs`. The other two conclusions follow from the invariant alone.

`FatalDispatchProofs` proves, for any sets of threads and of unhosted threads, `OneThreadReports`,
`RecursionIsReportedFirst` (of `FatalDispatch`: any reporter, no clocks), `ReportImplementsDispatch` (each step of
`FatalReport` is a step of it or a stutter), and, for any time-outs that satisfy `ReportAssumption`, `ReportTypes`,
`DumpIsNotCutShort` and `TheFirstFailureWins`. `DispatchInv` says that `fatalState` tells who has
claimed the report (`Claimed`) and that a failure inside a report is its own thread's, and has lost (`Nested`). `ReportInv` is about time:
while the reporter waits, each contender of the host has as many ticks left as the reporter, plus the difference of the
time-outs, less the lag there has been (`Deadlines`); hence a contender's wait cannot end first, and the process can
end only through the reporter (`Through`, `Endings`).

`HostAnimationProofs` proves every safety property of `HostAnimation`, for any finite or infinite set of hosts and any number
of subscriptions and presentation revisions, from `DispatcherAssumption` and `HostAssumption` (the marker for "no frame"
is not a frame): `AnimationTypes`, `HostsOwnEntries`, `HiddenHostsAreLeftAlone`, `TimerIsRight` and
`AnimationIsRemembered`. In `AnimationInv` the lists agree with what the hosts hold (`Agree` of `Held`, which leaves out the id of a
host that was refused: it holds one, `RefusedHoldsOne`, that no entry has and no later entry gets, `Owns`), a
hidden host holds none (`HiddenHoldsNone`), and what is wanted is subscribed or flagged (`WantedIsKept`): ids are older than the next
one and come once, an entry that is not marked is its host's subscription, and every subscription is there. The loop stands
inside its list while it calls, and at an entry that nobody has marked before its host is called (`LoopFits`): an added entry
goes to `pendingAdds` and a removed one is marked, so no callback moves the list under it. A frame is of the entry it was
called for, and as long as the host holds that entry its presentation is the frame's (`FrameFits`); that is why a stale
frame may let go of its own subscription and nothing else. A host that is to resume when its presentation is shown is
hidden (`ResumeIsHidden`), or the flag could outlive the show that should consume it. At the end of a tick the marked
entries are filtered out. `ActivePicks` says what the filter returns: each unmarked entry once, and no other (`Picks`); it is
proved by induction over the list. The library's induction theorems take an operator, which the provers cannot
instantiate; `SetInduction` says the same of a set of numbers and follows from the pigeonhole principle: the numbers up to
the first exception, each moved one up, would fit into the same set without zero.

`TextStoreProofs` proves every safety property of `TextStore`, for callbacks that nest to any depth, from `BoundsAssumption`.
`StoreTypes`, `OnlyCurrentIsAnnounced` and `PendingIsScheduled` hold whatever TSF edits. A lock is always the last of the
calls in progress (`Shape`) and is the lock that is held until the session is disconnected (`Typed`), so nothing is
announced inside one. What is pending while no lock is held has its message in the queue, or is a queued lock that a turn
of the message, somewhere below in the stack, has still to take up (`Promised`). `StoreSettles` asks that TSF does not edit over
an unreported change (`EditsOverUnreported` is FALSE; `text_store_edits` is what happens otherwise). `Truthful` says that TSF
always believes the text that the store observed last, that the document differs from it only where that is pending, and
what a lock knows at each of its stages (`LockKnows`): an edit that is staged either changes the text of which TSF is the author, or
shows the text that was observed, so that whichever way EndEdit and the application's callback end, recording the
document as observed tells no lie.

Only model-checked: liveness. Liveness under fairness and ENABLED are outside of what the prover does, so
`EveryCallReturns`, `EverySubscriberIsTicked`, `EveryFailureEnds` and `QueuedLocksAreTaken` stay with TLC.

## Not modelled, and why

- Focus and capture, menus, drag and drop, rich-text preparation: real protocols that may come later (below).
- The dispatcher's `Shutdown`, failures of `SetTimer` and `CreateWindow`, and animation clock arithmetic. A WM_TIMER
  dispatched inside a tick is not modelled either: the range-for of the outer tick then runs over a vector that the
  inner tick has erased from (`AnimationDispatcher.h:453`), which is undefined, and a model could say no more than that. A
  request made inside a tick by a control that was already ticked is answered by the value the tick returns
  (`DxUi.WindowHost.cpp:6052-6068`), so in `HostAnimation` it is the end of `wanted`.
- Embedded animation. `AdvanceAnimation` (`Embedded.cpp:438`) writes the request after ticking controls that may have
  hidden or detached the host; its request and clock in every frame multiply the states of `embedded`.
  Key receipts, text-input revisions and accessibility publication of the embedded host likewise.
- Activation, focus and replacement of text-input sessions: TSF and the window manager call back from most steps,
  and what they call depends on system components outside of the repository.
- Layout, painting, parsing and text shaping: sequential and data-heavy, tested by the repository's corpora. They
  are most of the repository's lines; the models cover the protocols, which are few of them.

## Plan

1. `FailureGate`, `PostedPayload`, `UiActionDispatch`, `HostAnimation`, `EmbeddedHost` with their runs (done).
2. `FatalDispatch` and `FatalReport`, `ProviderCreation`, `TextStore` (done).
3. Proofs of the registry, of the gates' pins and of the storage behind them, of the fatal dispatch and of the automation
   actions, of the providers' counts, of the embedded host, of the animation of hosts and of the text store (done): every
   safety property that a passing run checks.
4. `ControlFocus`: focus, capture and hover while callbacks remove controls; sessions of native text input.
5. `EmbeddedHost`: the animation request and its clock, key receipts, text-input revisions, in a module with a
   shallower stack.
6. `RichContent` (revisions, asynchronous images, cancellation), `FileDropSession`.
7. `FrameArithmetic`: the fixed-width conversions of the frame clock against a reference definition.
