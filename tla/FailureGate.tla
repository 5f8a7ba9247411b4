---------------------------- MODULE FailureGate ----------------------------
(***************************************************************************)
(* The lock-free lifetime gates of src/src/Foundation/Failure.cpp.         *)
(*                                                                         *)
(* One application-owned failure service (a ProcessState, an "owner" here) *)
(* is installed by ProcessHooks::Install, handed to every module that      *)
(* links DxUi (RegisterModule), pinned by the scopes and objects of those  *)
(* modules, read by the CRT handlers (ProcessReader), and freed by         *)
(* ProcessHooks::Uninstall.  Nothing takes a lock: three counters with a   *)
(* Closed bit decide who may still touch the owner.                        *)
(*                                                                         *)
(* One action is one atomic operation on shared memory (with the           *)
(* thread-local work that follows it).  A load followed by a compare-and-  *)
(* swap loop is one action, which is where the loop linearizes: the        *)
(* closed and saturated checks are re-made on the value the CAS expects.   *)
(***************************************************************************)
EXTENDS Naturals, FiniteSets

CONSTANTS
  Thread,       \* the threads of the process
  Installer,    \* the threads that own a ProcessHooks (installerThread)
  Module,       \* the binaries that link the library, each with its own gate
  HostModule,   \* the one that holds the ProcessHooks
  Owner,        \* the addresses of the ProcessStates the run may allocate
  None,         \* the null pointer
  Closed,       \* the Closed bit: 2^63 in the code, any number above 1 here
  MaxDepth,     \* bound on nested scopes of one thread in one module
  MaxObject,    \* an ObjectLifetime is begun only while fewer are alive in the module
  LateHandler,  \* may a fetched CRT handler be entered after it was replaced?
  ObserverFails \* may AddVectoredExceptionHandler fail?

ASSUME GateAssumption ==
  /\ IsFiniteSet(Thread) /\ Installer \subseteq Thread
  /\ IsFiniteSet(Module) /\ HostModule \in Module
  /\ None \notin Owner
  /\ Closed \in Nat \ {0, 1}
  /\ MaxDepth \in Nat \ {0} /\ MaxObject \in Nat
  /\ LateHandler \in BOOLEAN /\ ObserverFails \in BOOLEAN

VARIABLES
  services,        \* moduleServices of each module
  gate,            \* moduleGate of each module
  update,          \* moduleUpdate of each module
  registrations,   \* ProcessState.registrations of each owner
  processOwner,    \* processOwner
  processReaders,  \* processReaders
  live,            \* the owners whose storage is allocated
  hooks,           \* ProcessHooks._state of each thread's object
  handler,         \* is AllocationFailed the current new handler?
  pc,              \* where each thread stands
  job,             \* the module, owner and caller of the thread's operation
  depth,           \* moduleThread.depth of each thread in each module
  scope,           \* moduleThread.services of each thread in each module
  objects,         \* the number of live ObjectLifetimes of each module
  attached,        \* ModuleRegistration._services of each thread's object
  reader           \* ProcessReader.state of each thread

gates   == <<services, gate, update, registrations, processOwner, processReaders>>
owners  == <<live, hooks, handler>>
locals  == <<depth, scope, objects, attached, reader>>
vars    == <<gates, owners, pc, job, locals>>

Pointer == Owner \cup {None}
Counter == 0 .. 2 * Closed - 1        \* the values of the 64-bit counters
NoJob   == [module |-> HostModule, owner |-> None, install |-> FALSE]

ScopePC      == {"scope", "unpin", "object"}
ReaderPC     == {"late", "reader", "dispatch", "failed"}
RegisterPC   == {"rUpdate", "rCheck", "rRetain", "rServices", "rGate", "rClear", "rRefuse"}
UnregisterPC == {"dUpdate", "dCheck", "dGate", "dServices", "dRelease", "dClear", "dRefuse"}
InstallPC    == {"iReaders", "iObserve", "iHandlers", "iCloseReaders", "iClearOwner", "iFree"}
UninstallPC  == {"uUpdate", "uGate", "uReaders", "uServices", "uRelease", "uHandlers",
                 "uOwner", "uFree", "uClear",
                 "uReopenReaders", "uReopenGate", "uReopen", "uReopenUnlocked"}

TypeOK ==
  /\ services \in [Module -> Pointer]
  /\ gate \in [Module -> Counter]
  /\ update \in [Module -> BOOLEAN]
  /\ registrations \in [Owner -> Counter]
  /\ processOwner \in Pointer
  /\ processReaders \in Counter
  /\ live \subseteq Owner
  /\ hooks \in [Thread -> Pointer]
  /\ handler \in BOOLEAN
  /\ pc \in [Thread -> {"idle"} \cup ScopePC \cup ReaderPC \cup RegisterPC
                        \cup UnregisterPC \cup InstallPC \cup UninstallPC]
  /\ job \in [Thread -> [module : Module, owner : Pointer, install : BOOLEAN]]
  /\ depth \in [Thread -> [Module -> 0 .. MaxDepth]]
  /\ scope \in [Thread -> [Module -> Pointer]]
  /\ objects \in [Module -> Nat]
  /\ attached \in [Thread -> [Module -> Pointer]]
  /\ reader \in [Thread -> Pointer]

Init ==
  /\ services = [m \in Module |-> None]
  /\ gate = [m \in Module |-> Closed]
  /\ update = [m \in Module |-> FALSE]
  /\ registrations = [o \in Owner |-> 0]
  /\ processOwner = None
  /\ processReaders = Closed
  /\ live = {}
  /\ hooks = [t \in Thread |-> None]
  /\ handler = FALSE
  /\ pc = [t \in Thread |-> "idle"]
  /\ job = [t \in Thread |-> NoJob]
  /\ depth = [t \in Thread |-> [m \in Module |-> 0]]
  /\ scope = [t \in Thread |-> [m \in Module |-> None]]
  /\ objects = [m \in Module |-> 0]
  /\ attached = [t \in Thread |-> [m \in Module |-> None]]
  /\ reader = [t \in Thread |-> None]

-----------------------------------------------------------------------------
(* The 64-bit counters with their Closed bit.                              *)

\* Mutant of IsOpen: looks for the saturated count only.
IsOpenUnmasked(v) == v # Closed - 1

IsOpen(v)  == v < Closed - 1            \* neither closed nor saturated
Shut(v)    == IF v < Closed THEN v + Closed ELSE v               \* fetch_or(Closed)
Reopen(v)  == IF v < Closed THEN v ELSE v - Closed               \* fetch_and(~Closed)
Drop(v)    == IF v = 0 THEN 2 * Closed - 1 ELSE v - 1            \* fetch_sub(1), with its wrap

\* Thread t begins an operation of module m on owner o (for Install, or not) ...
Start(t, to, m, o, i) ==
  /\ pc[t] = "idle"
  /\ pc' = [pc EXCEPT ![t] = to]
  /\ job' = [job EXCEPT ![t] = [module |-> m, owner |-> o, install |-> i]]

\* ... and goes on with it, or returns to its caller.
Goto(t, from, to) ==
  /\ pc[t] = from
  /\ pc' = [pc EXCEPT ![t] = to]
  /\ job' = IF to = "idle" THEN [job EXCEPT ![t] = NoJob] ELSE job

MyModule(t)       == job[t].module
MyOwner(t)        == job[t].owner
ForInstall(t)     == job[t].install

-----------------------------------------------------------------------------
(* Scope and ObjectLifetime: AcquireModule, then the services table.       *)

\* AcquireModule adds a pin to an open gate; the services are loaded next.
AcquireModule(t, m, next) ==
  /\ IsOpen(gate[m])
  /\ gate' = [gate EXCEPT ![m] = @ + 1]
  /\ Start(t, next, m, None, FALSE)
  /\ UNCHANGED <<services, update, registrations, processOwner, processReaders, owners, locals>>

\* An outermost Scope acquires the module; a nested one reuses its services.
OuterScope(t, m) == depth[t][m] = 0 /\ AcquireModule(t, m, "scope")

EnterScope(t) ==
  LET m == MyModule(t) IN
  /\ Goto(t, "scope", "idle")
  /\ scope' = [scope EXCEPT ![t][m] = services[m]]
  /\ depth' = [depth EXCEPT ![t][m] = 1]
  /\ UNCHANGED <<gates, owners, objects, attached, reader>>

NestedScope(t, m) ==
  /\ pc[t] = "idle"
  /\ depth[t][m] \in 1 .. MaxDepth - 1
  /\ depth' = [depth EXCEPT ![t][m] = @ + 1]
  /\ UNCHANGED <<gates, owners, pc, job, scope, objects, attached, reader>>

\* ~Scope calls leave, clears the thread's services and only then unpins.
LeaveInner(t, m) ==
  /\ pc[t] = "idle"
  /\ depth[t][m] > 1
  /\ depth' = [depth EXCEPT ![t][m] = @ - 1]
  /\ UNCHANGED <<gates, owners, pc, job, scope, objects, attached, reader>>

LeaveOuter(t, m) ==
  /\ depth[t][m] = 1
  /\ Start(t, "unpin", m, None, FALSE)
  /\ depth' = [depth EXCEPT ![t][m] = 0]
  /\ scope' = [scope EXCEPT ![t][m] = None]
  /\ UNCHANGED <<gates, owners, objects, attached, reader>>

Unpin(t) ==
  /\ Goto(t, "unpin", "idle")
  /\ gate' = [gate EXCEPT ![MyModule(t)] = Drop(@)]
  /\ UNCHANGED <<services, update, registrations, processOwner, processReaders, owners, locals>>

\* ObjectLifetime pins like a scope, and any thread may destroy it.
BeginObject(t, m) == objects[m] < MaxObject /\ AcquireModule(t, m, "object")

MakeObject(t) ==
  /\ Goto(t, "object", "idle")
  /\ objects' = [objects EXCEPT ![MyModule(t)] = @ + 1]
  /\ UNCHANGED <<gates, owners, depth, scope, attached, reader>>

DestroyObject(t, m) ==
  /\ pc[t] = "idle"
  /\ objects[m] > 0
  /\ objects' = [objects EXCEPT ![m] = @ - 1]
  /\ gate' = [gate EXCEPT ![m] = Drop(@)]
  /\ UNCHANGED <<services, update, registrations, processOwner, processReaders, owners,
                 pc, job, depth, scope, attached, reader>>

-----------------------------------------------------------------------------
(* ProcessReader, as AllocationFailed uses it: it dispatches to the owner  *)
(* it reads, or fails hard when there is none.  Neither returns, so the    *)
(* reader is never released; other threads may run on until the process    *)
(* ends.                                                                   *)

\* operator new fetches the handler; a late thread may enter it after that.
FetchHandler(t) ==
  /\ handler /\ LateHandler
  /\ Goto(t, "idle", "late")
  /\ UNCHANGED <<gates, owners, locals>>

AcquireReader(t) ==
  /\ \/ pc[t] = "late"
     \/ pc[t] = "idle" /\ handler
  /\ IsOpen(processReaders)
  /\ processReaders' = processReaders + 1
  /\ pc' = [pc EXCEPT ![t] = "reader"]
  /\ UNCHANGED <<services, gate, update, registrations, processOwner, owners, job, locals>>

ReadOwner(t) ==
  /\ Goto(t, "reader", IF processOwner = None THEN "failed" ELSE "dispatch")
  /\ reader' = [reader EXCEPT ![t] = processOwner]
  /\ UNCHANGED <<gates, owners, depth, scope, objects, attached>>

-----------------------------------------------------------------------------
(* RegisterModule, called by ModuleRegistration::Attach and by Install.    *)

\* The caller keeps the owner installed for the duration of the call
\* ("Unregister/quiesce those modules before removing the process owner").
Attach(t, m, i) ==
  /\ hooks[i] # None /\ pc[i] \notin UninstallPC
  /\ attached[t][m] = None
  /\ Start(t, "rUpdate", m, hooks[i], FALSE)
  /\ UNCHANGED <<gates, owners, locals>>

\* A failed test_and_set is BUSY: Attach returns, Install rolls back.
RegisterLock(t) ==
  LET m == MyModule(t) IN
  /\ Goto(t, "rUpdate", IF ~update[m] THEN "rCheck"
                        ELSE IF ForInstall(t) THEN "iCloseReaders" ELSE "idle")
  /\ update' = [update EXCEPT ![m] = TRUE]
  /\ UNCHANGED <<services, gate, registrations, processOwner, processReaders, owners, locals>>

RegisterCheck(t) ==
  LET m == MyModule(t) IN
  /\ Goto(t, "rCheck", IF services[m] = None /\ gate[m] = Closed THEN "rRetain" ELSE "rRefuse")
  /\ UNCHANGED <<gates, owners, locals>>

\* Retain adds a registration to an owner whose registrations are open.
RegisterRetain(t) ==
  LET o == MyOwner(t) IN
  /\ Goto(t, "rRetain", IF IsOpen(registrations[o]) THEN "rServices" ELSE "rRefuse")
  /\ registrations' = [registrations EXCEPT ![o] = IF IsOpen(@) THEN @ + 1 ELSE @]
  /\ UNCHANGED <<services, gate, update, processOwner, processReaders, owners, locals>>

RegisterServices(t) ==
  /\ Goto(t, "rServices", "rGate")
  /\ services' = [services EXCEPT ![MyModule(t)] = MyOwner(t)]
  /\ UNCHANGED <<gate, update, registrations, processOwner, processReaders, owners, locals>>

RegisterOpen(t) ==
  /\ Goto(t, "rGate", "rClear")
  /\ gate' = [gate EXCEPT ![MyModule(t)] = 0]
  /\ UNCHANGED <<services, update, registrations, processOwner, processReaders, owners, locals>>

RegisterDone(t) ==
  LET m == MyModule(t) IN
  /\ Goto(t, "rClear", IF ForInstall(t) THEN "iHandlers" ELSE "idle")
  /\ update' = [update EXCEPT ![m] = FALSE]
  /\ attached' = IF ForInstall(t) THEN attached ELSE [attached EXCEPT ![t][m] = MyOwner(t)]
  /\ UNCHANGED <<services, gate, registrations, processOwner, processReaders, owners, depth, scope, objects, reader>>

RegisterRefused(t) ==
  /\ Goto(t, "rRefuse", IF ForInstall(t) THEN "iCloseReaders" ELSE "idle")
  /\ update' = [update EXCEPT ![MyModule(t)] = FALSE]
  /\ UNCHANGED <<services, gate, registrations, processOwner, processReaders, owners, locals>>

-----------------------------------------------------------------------------
(* UnregisterModule, called by ModuleRegistration::Detach.                 *)

Detach(t, m) ==
  /\ attached[t][m] # None
  /\ Start(t, "dUpdate", m, attached[t][m], FALSE)
  /\ UNCHANGED <<gates, owners, locals>>

UnregisterLock(t) ==
  LET m == MyModule(t) IN
  /\ Goto(t, "dUpdate", IF update[m] THEN "idle" ELSE "dCheck")
  /\ update' = [update EXCEPT ![m] = TRUE]
  /\ UNCHANGED <<services, gate, registrations, processOwner, processReaders, owners, locals>>

UnregisterCheck(t) ==
  /\ Goto(t, "dCheck", IF services[MyModule(t)] = MyOwner(t) THEN "dGate" ELSE "dRefuse")
  /\ UNCHANGED <<gates, owners, locals>>

\* Mutant of UnregisterClose: closes a gate that has pins.
UnregisterCloseAnyway(t) ==
  /\ Goto(t, "dGate", "dServices")
  /\ gate' = [gate EXCEPT ![MyModule(t)] = Closed]
  /\ UNCHANGED <<services, update, registrations, processOwner, processReaders, owners, locals>>

\* The gate closes only from zero: any pin is BUSY.
UnregisterClose(t) ==
  LET m == MyModule(t) IN
  /\ Goto(t, "dGate", IF gate[m] = 0 THEN "dServices" ELSE "dRefuse")
  /\ gate' = [gate EXCEPT ![m] = IF @ = 0 THEN Closed ELSE @]
  /\ UNCHANGED <<services, update, registrations, processOwner, processReaders, owners, locals>>

UnregisterServices(t) ==
  /\ Goto(t, "dServices", "dRelease")
  /\ services' = [services EXCEPT ![MyModule(t)] = None]
  /\ UNCHANGED <<gate, update, registrations, processOwner, processReaders, owners, locals>>

UnregisterRelease(t) ==
  /\ Goto(t, "dRelease", "dClear")
  /\ registrations' = [registrations EXCEPT ![MyOwner(t)] = Drop(@)]
  /\ UNCHANGED <<services, gate, update, processOwner, processReaders, owners, locals>>

UnregisterDone(t) ==
  LET m == MyModule(t) IN
  /\ Goto(t, "dClear", "idle")
  /\ update' = [update EXCEPT ![m] = FALSE]
  /\ attached' = [attached EXCEPT ![t][m] = None]
  /\ UNCHANGED <<services, gate, registrations, processOwner, processReaders, owners, depth, scope, objects, reader>>

UnregisterRefused(t) ==
  /\ Goto(t, "dRefuse", "idle")
  /\ update' = [update EXCEPT ![MyModule(t)] = FALSE]
  /\ UNCHANGED <<services, gate, registrations, processOwner, processReaders, owners, locals>>

-----------------------------------------------------------------------------
(* ProcessHooks::Install.                                                  *)

\* Allocate a ProcessState at o and claim the process for it; the loser of
\* the compare-and-swap frees its own and reports ALREADY_EXISTS.
Install(t, o) ==
  /\ t \in Installer /\ hooks[t] = None
  /\ o \notin live
  /\ Start(t, IF processOwner = None THEN "iReaders" ELSE "iFree", HostModule, o, TRUE)
  /\ live' = live \cup {o}
  /\ registrations' = [registrations EXCEPT ![o] = 0]
  /\ processOwner' = IF processOwner = None THEN o ELSE processOwner
  /\ UNCHANGED <<services, gate, update, processReaders, hooks, handler, locals>>

InstallReaders(t) ==
  /\ Goto(t, "iReaders", "iObserve")
  /\ processReaders' = 0
  /\ UNCHANGED <<services, gate, update, registrations, processOwner, owners, locals>>

\* AddVectoredExceptionHandler fails when the system has no memory for it.
InstallObserver(t) ==
  /\ \E fails \in {FALSE, ObserverFails} : Goto(t, "iObserve", IF fails THEN "iCloseReaders" ELSE "rUpdate")
  /\ UNCHANGED <<gates, owners, locals>>

InstallHandlers(t) ==
  /\ Goto(t, "iHandlers", "idle")
  /\ handler' = TRUE
  /\ hooks' = [hooks EXCEPT ![t] = MyOwner(t)]
  /\ UNCHANGED <<gates, live, locals>>

\* The rollback closes the readers and gives the process back, whoever reads.
RollbackReaders(t) ==
  /\ Goto(t, "iCloseReaders", "iClearOwner")
  /\ processReaders' = Closed
  /\ UNCHANGED <<services, gate, update, registrations, processOwner, owners, locals>>

RollbackOwner(t) ==
  /\ Goto(t, "iClearOwner", "iFree")
  /\ processOwner' = None
  /\ UNCHANGED <<services, gate, update, registrations, processReaders, owners, locals>>

FreeStaged(t) ==
  /\ Goto(t, "iFree", "idle")
  /\ live' = live \ {MyOwner(t)}
  /\ UNCHANGED <<gates, hooks, handler, locals>>

-----------------------------------------------------------------------------
(* ProcessHooks::Uninstall, on the thread that installed.                  *)

\* Mutant of Uninstall: content with any number of registrations.
UninstallRegistered(t) ==
  LET o == hooks[t] IN
  /\ o # None
  /\ \A u \in Thread : pc[u] \in RegisterPC => MyOwner(u) # o
  /\ Start(t, IF registrations[o] > 0 THEN "uUpdate" ELSE "uReopenUnlocked", HostModule, o, FALSE)
  /\ registrations' = [registrations EXCEPT ![o] = Shut(@)]
  /\ UNCHANGED <<services, gate, update, processOwner, processReaders, owners, locals>>

\* Only the host's own registration may be left, or the call is BUSY.
Uninstall(t) ==
  LET o == hooks[t] IN
  /\ o # None
  /\ \A u \in Thread : pc[u] \in RegisterPC => MyOwner(u) # o
  /\ Start(t, IF registrations[o] = 1 THEN "uUpdate" ELSE "uReopenUnlocked", HostModule, o, FALSE)
  /\ registrations' = [registrations EXCEPT ![o] = Shut(@)]
  /\ UNCHANGED <<services, gate, update, processOwner, processReaders, owners, locals>>

UninstallLock(t) ==
  /\ Goto(t, "uUpdate", IF update[HostModule] THEN "uReopenUnlocked" ELSE "uGate")
  /\ update' = [update EXCEPT ![HostModule] = TRUE]
  /\ UNCHANGED <<services, gate, registrations, processOwner, processReaders, owners, locals>>

\* Mutant of UninstallGate: does not look at the pins.
UninstallPinned(t) ==
  LET free == services[HostModule] = MyOwner(t) IN
  /\ Goto(t, "uGate", IF free THEN "uReaders" ELSE "uReopen")
  /\ gate' = [gate EXCEPT ![HostModule] = IF free THEN Closed ELSE @]
  /\ UNCHANGED <<services, update, registrations, processOwner, processReaders, owners, locals>>

UninstallGate(t) ==
  LET free == services[HostModule] = MyOwner(t) /\ gate[HostModule] = 0 IN
  /\ Goto(t, "uGate", IF free THEN "uReaders" ELSE "uReopen")
  /\ gate' = [gate EXCEPT ![HostModule] = IF free THEN Closed ELSE @]
  /\ UNCHANGED <<services, update, registrations, processOwner, processReaders, owners, locals>>

\* Mutants of UninstallReaders: ignores the readers, or forgets to reopen their gate.
UninstallRead(t) ==
  /\ Goto(t, "uReaders", "uServices")
  /\ processReaders' = Shut(processReaders)
  /\ UNCHANGED <<services, gate, update, registrations, processOwner, owners, locals>>

UninstallShutsReaders(t) ==
  /\ Goto(t, "uReaders", IF processReaders = 0 THEN "uServices" ELSE "uReopenGate")
  /\ processReaders' = Shut(processReaders)
  /\ UNCHANGED <<services, gate, update, registrations, processOwner, owners, locals>>

UninstallReaders(t) ==
  /\ Goto(t, "uReaders", IF processReaders = 0 THEN "uServices" ELSE "uReopenReaders")
  /\ processReaders' = Shut(processReaders)
  /\ UNCHANGED <<services, gate, update, registrations, processOwner, owners, locals>>

UninstallServices(t) ==
  /\ Goto(t, "uServices", "uRelease")
  /\ services' = [services EXCEPT ![HostModule] = None]
  /\ UNCHANGED <<gate, update, registrations, processOwner, processReaders, owners, locals>>

UninstallRelease(t) ==
  /\ Goto(t, "uRelease", "uHandlers")
  /\ registrations' = [registrations EXCEPT ![MyOwner(t)] = Drop(@)]
  /\ UNCHANGED <<services, gate, update, processOwner, processReaders, owners, locals>>

UninstallHandlers(t) ==
  /\ Goto(t, "uHandlers", "uOwner")
  /\ handler' = FALSE
  /\ UNCHANGED <<gates, live, hooks, locals>>

UninstallOwner(t) ==
  /\ Goto(t, "uOwner", "uFree")
  /\ processOwner' = None
  /\ UNCHANGED <<services, gate, update, registrations, processReaders, owners, locals>>

UninstallFree(t) ==
  /\ Goto(t, "uFree", "uClear")
  /\ live' = live \ {MyOwner(t)}
  /\ hooks' = [hooks EXCEPT ![t] = None]
  /\ UNCHANGED <<gates, handler, locals>>

UninstallDone(t) ==
  /\ Goto(t, "uClear", "idle")
  /\ update' = [update EXCEPT ![HostModule] = FALSE]
  /\ UNCHANGED <<services, gate, registrations, processOwner, processReaders, owners, locals>>

\* The refusals reopen what was closed, in the reverse order.
ReopenReaders(t) ==
  /\ Goto(t, "uReopenReaders", "uReopenGate")
  /\ processReaders' = Reopen(processReaders)
  /\ UNCHANGED <<services, gate, update, registrations, processOwner, owners, locals>>

ReopenGate(t) ==
  /\ Goto(t, "uReopenGate", "uReopen")
  /\ gate' = [gate EXCEPT ![HostModule] = 0]
  /\ UNCHANGED <<services, update, registrations, processOwner, processReaders, owners, locals>>

ReopenRegistrations(t) ==
  /\ \/ Goto(t, "uReopen", "uClear")
     \/ Goto(t, "uReopenUnlocked", "idle")
  /\ registrations' = [registrations EXCEPT ![MyOwner(t)] = Reopen(@)]
  /\ UNCHANGED <<services, gate, update, processOwner, processReaders, owners, locals>>

-----------------------------------------------------------------------------

ScopeStep(t) ==
  \/ EnterScope(t) \/ Unpin(t) \/ MakeObject(t)
  \/ \E m \in Module : \/ OuterScope(t, m) \/ NestedScope(t, m)
                        \/ LeaveInner(t, m) \/ LeaveOuter(t, m)
                        \/ BeginObject(t, m) \/ DestroyObject(t, m)

ReaderStep(t) ==
  \/ FetchHandler(t) \/ AcquireReader(t) \/ ReadOwner(t)

RegisterStep(t) ==
  \/ \E m \in Module, i \in Installer : Attach(t, m, i)
  \/ RegisterLock(t) \/ RegisterCheck(t) \/ RegisterRetain(t) \/ RegisterServices(t)
  \/ RegisterOpen(t) \/ RegisterDone(t) \/ RegisterRefused(t)

UnregisterStep(t) ==
  \/ \E m \in Module : Detach(t, m)
  \/ UnregisterLock(t) \/ UnregisterCheck(t) \/ UnregisterClose(t)
  \/ UnregisterServices(t) \/ UnregisterRelease(t) \/ UnregisterDone(t)
  \/ UnregisterRefused(t)

InstallStep(t) ==
  \/ \E o \in Owner : Install(t, o)
  \/ InstallReaders(t) \/ InstallObserver(t) \/ InstallHandlers(t)
  \/ RollbackReaders(t) \/ RollbackOwner(t) \/ FreeStaged(t)

UninstallStep(t) ==
  \/ Uninstall(t) \/ UninstallLock(t) \/ UninstallGate(t) \/ UninstallReaders(t)
  \/ UninstallServices(t) \/ UninstallRelease(t) \/ UninstallHandlers(t)
  \/ UninstallOwner(t) \/ UninstallFree(t) \/ UninstallDone(t)
  \/ ReopenReaders(t) \/ ReopenGate(t) \/ ReopenRegistrations(t)

Next ==
  \E t \in Thread : \/ ScopeStep(t) \/ ReaderStep(t) \/ RegisterStep(t)
                    \/ UnregisterStep(t) \/ InstallStep(t) \/ UninstallStep(t)

Spec == Init /\ [][Next]_vars

-----------------------------------------------------------------------------
(* Properties.                                                             *)

\* The threads inside a scope of m, and those holding one more pin of m while
\* they begin or end a scope or an object.
ScopePins(m)   == {t \in Thread : depth[t][m] > 0}
TransitPins(m) == {t \in Thread : pc[t] \in ScopePC /\ MyModule(t) = m}

\* Every open gate counts exactly the pins of its module, and a closed one is
\* exactly Closed with no pin: no interleaving of Scope, ObjectLifetime,
\* RegisterModule, UnregisterModule and a refused Uninstall loses or invents one,
\* and none counts into the Closed bit, not at the saturated count, or back
\* through it (Failure.cpp:97-107, 449-462, 488-522, 613-627).
GateCountsPins ==
  \A m \in Module :
    LET pins == Cardinality(ScopePins(m)) + Cardinality(TransitPins(m)) + objects[m] IN
    IF gate[m] < Closed THEN gate[m] = pins ELSE gate[m] = Closed /\ pins = 0

\* Code that runs inside a scope, begins one or owns a pinning object finds its
\* module's services table allocated, and a scope keeps the table it entered
\* with (Failure.cpp:474-501): neither Uninstall nor a Detach overtakes a pin.
PinnedOwnerLive ==
  \A m \in Module :
    /\ \A t \in Thread :
         /\ depth[t][m] > 0 => scope[t][m] = services[m]
         /\ t \in ScopePins(m) \cup TransitPins(m) => services[m] \in live
    /\ objects[m] > 0 => services[m] \in live

\* A module that is attached finds its host allocated until its Detach has
\* released it (Failure.cpp:595-637, 645-669), however the host's Uninstall
\* and the module's Attach and Detach interleave.
AttachedOwnerLive ==
  \A t \in Thread, m \in Module :
    attached[t][m] # None /\ pc[t] # "dClear" => attached[t][m] \in live

\* "Closing it prevents reclamation while a CRT callback has already obtained
\* the owner" (Failure.cpp:178-179): the state a handler dispatches to is
\* still allocated.
ReaderOwnerLive ==
  \A t \in Thread : pc[t] = "dispatch" => reader[t] \in live

\* Nothing that is pinned, attached or obtained by a handler is freed under its user.
OwnersInUseLive == PinnedOwnerLive /\ AttachedOwnerLive /\ ReaderOwnerLive

\* Whatever was refused on the way, when no operation is under way the gates
\* agree with each other: an owner is installed, registered, readable and
\* counted, or there is none and everything is shut. A failed Install and a
\* BUSY Uninstall leave nothing half closed (Failure.cpp:575-588, 601-627).
RestIsConsistent ==
  (\A t \in Thread : pc[t] \in {"idle", "dispatch"}) =>
    /\ live = {hooks[t] : t \in Thread} \ {None}
    /\ live = {processOwner} \ {None}
    /\ handler = (processOwner # None)
    /\ services[HostModule] = processOwner
    /\ processReaders = IF processOwner = None THEN Closed
                        ELSE Cardinality({t \in Thread : pc[t] = "dispatch"})
    /\ \A m \in Module :
         /\ ~update[m]
         /\ (services[m] = None) = (gate[m] = Closed)
         /\ services[m] # None => services[m] \in live
    /\ \A o \in live : registrations[o] = Cardinality({m \in Module : services[m] = o})

=============================================================================
