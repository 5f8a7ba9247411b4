------------------------- MODULE FailureGateProofs -------------------------
(***************************************************************************)
(* Theorems of FailureGate, for any finite sets of threads and modules,    *)
(* any owners, any capacity of the counters and any depth of scopes.       *)
(*                                                                         *)
(* First, the counters keep their types and every open gate counts its     *)
(* pins; then the storage that this protects, the readers, and rest.       *)
(*                                                                         *)
(* GateCountsPins (GateIsExact below) is not inductive.  The proof adds    *)
(* that a thread that relies on a closed gate still finds it closed        *)
(* (GateStaysShut), and, for that, that one thread at a time is inside     *)
(* moduleUpdate of a module (Control).                                     *)
(***************************************************************************)
EXTENDS FailureGate, FiniteSetTheorems, TLAPS

-----------------------------------------------------------------------------
(* The inductive invariant behind GateCountsPins.                          *)

\* Where a thread holds its module's moduleUpdate, and where it has found or
\* made the gate closed and relies on that.
LockedPC == {"rCheck", "rRetain", "rServices", "rGate", "rClear", "rRefuse",
             "dCheck", "dGate", "dServices", "dRelease", "dClear", "dRefuse",
             "uGate", "uReaders", "uServices", "uRelease", "uHandlers", "uOwner", "uFree",
             "uClear", "uReopenReaders", "uReopenGate", "uReopen"}
ShutPC   == {"rRetain", "rServices", "rGate", "uReaders", "uReopenReaders", "uReopenGate"}

Pins(m) == Cardinality(ScopePins(m)) + Cardinality(TransitPins(m)) + objects[m]

\* Uninstall works on the host's own gate.
UninstallsHost == \A t \in Thread : pc[t] \in UninstallPC => MyModule(t) = HostModule

\* Two threads are never inside moduleUpdate of one module.
LockIsExclusive ==
  \A t \in Thread : pc[t] \in LockedPC =>
    /\ update[MyModule(t)]
    /\ \A u \in Thread : pc[u] \in LockedPC /\ MyModule(u) = MyModule(t) => u = t

\* A scope that is being entered is the thread's first in the module.
ScopeIsFresh == \A t \in Thread : pc[t] = "scope" => depth[t][MyModule(t)] = 0

Control == UninstallsHost /\ LockIsExclusive /\ ScopeIsFresh

\* Nobody opens a gate behind the back of the thread that relies on it.
GateStaysShut == \A t \in Thread : pc[t] \in ShutPC => gate[MyModule(t)] = Closed

\* An open gate counts its pins; a closed one is exactly Closed, and has none.
GateIsExact ==
  \A m \in Module : IF gate[m] < Closed THEN gate[m] = Pins(m) ELSE gate[m] = Closed /\ Pins(m) = 0

GateInv == TypeOK /\ Control /\ GateStaysShut /\ GateIsExact

-----------------------------------------------------------------------------
(* Types.                                                                  *)

LEMMA ScopeTypes ==
  ASSUME TypeOK, NEW t \in Thread, ScopeStep(t)
  PROVE  TypeOK'
  <1> USE GateAssumption DEF TypeOK, gates, owners, locals, Pointer, NoJob, Goto, Start,
      MyModule, MyOwner, ForInstall, Counter, IsOpen, Shut, Reopen, Drop,
      ScopePC, ReaderPC, RegisterPC, UnregisterPC, InstallPC, UninstallPC
  <1>1. CASE EnterScope(t)
    BY <1>1 DEF EnterScope
  <1>2. CASE Unpin(t)
    <2>1. ASSUME NEW x \in Module PROVE Drop(gate[x]) \in Counter
      <3>1. gate[x] \in Counter
        BY DEF TypeOK
      <3> HIDE DEF TypeOK
      <3> QED BY <3>1
    <2> HIDE DEF Counter, Drop, Reopen, IsOpen
    <2>2. gate' \in [Module -> Counter]
      BY <1>2, <2>1 DEF Unpin
    <2> QED BY <1>2, <2>2 DEF Unpin
  <1>3. CASE MakeObject(t)
    BY <1>3 DEF MakeObject
  <1>4. ASSUME NEW m \in Module, OuterScope(t, m) PROVE TypeOK'
    BY <1>4 DEF OuterScope, AcquireModule
  <1>5. ASSUME NEW m \in Module, NestedScope(t, m) PROVE TypeOK'
    BY <1>5 DEF NestedScope
  <1>6. ASSUME NEW m \in Module, LeaveInner(t, m) PROVE TypeOK'
    BY <1>6 DEF LeaveInner
  <1>7. ASSUME NEW m \in Module, LeaveOuter(t, m) PROVE TypeOK'
    BY <1>7 DEF LeaveOuter
  <1>8. ASSUME NEW m \in Module, BeginObject(t, m) PROVE TypeOK'
    BY <1>8 DEF BeginObject, AcquireModule
  <1>9. ASSUME NEW m \in Module, DestroyObject(t, m) PROVE TypeOK'
    BY <1>9 DEF DestroyObject
  <1> HIDE DEF TypeOK
  <1> QED
    BY <1>1, <1>2, <1>3, <1>4, <1>5, <1>6, <1>7, <1>8, <1>9 DEF ScopeStep

LEMMA ReaderTypes ==
  ASSUME TypeOK, NEW t \in Thread, ReaderStep(t)
  PROVE  TypeOK'
  <1> USE GateAssumption DEF TypeOK, gates, owners, locals, Pointer, NoJob, Goto, Start,
      MyModule, MyOwner, ForInstall, Counter, IsOpen, Shut, Reopen, Drop,
      ScopePC, ReaderPC, RegisterPC, UnregisterPC, InstallPC, UninstallPC
  <1>1. CASE FetchHandler(t)
    BY <1>1 DEF FetchHandler
  <1>2. CASE AcquireReader(t)
    BY <1>2 DEF AcquireReader
  <1>3. CASE ReadOwner(t)
    BY <1>3 DEF ReadOwner
  <1> HIDE DEF TypeOK
  <1> QED
    BY <1>1, <1>2, <1>3 DEF ReaderStep

LEMMA RegisterTypes ==
  ASSUME TypeOK, NEW t \in Thread, RegisterStep(t)
  PROVE  TypeOK'
  <1> USE GateAssumption DEF TypeOK, gates, owners, locals, Pointer, NoJob, Goto, Start,
      MyModule, MyOwner, ForInstall, Counter, IsOpen, Shut, Reopen, Drop,
      ScopePC, ReaderPC, RegisterPC, UnregisterPC, InstallPC, UninstallPC
  <1>1. ASSUME NEW m \in Module, NEW i \in Installer, Attach(t, m, i) PROVE TypeOK'
    BY <1>1 DEF Attach
  <1>2. CASE RegisterLock(t)
    BY <1>2 DEF RegisterLock
  <1>3. CASE RegisterCheck(t)
    BY <1>3 DEF RegisterCheck
  <1>4. CASE RegisterRetain(t)
    <2>1. ASSUME NEW x \in Owner PROVE IsOpen(registrations[x]) => registrations[x] + 1 \in Counter
      <3>1. registrations[x] \in Counter
        BY DEF TypeOK
      <3> HIDE DEF TypeOK
      <3> QED BY <3>1
    <2> HIDE DEF Counter, Drop, Reopen, IsOpen
    <2>2. registrations' \in [Owner -> Counter]
      BY <1>4, <2>1 DEF RegisterRetain
    <2> QED BY <1>4, <2>2 DEF RegisterRetain
  <1>5. CASE RegisterServices(t)
    BY <1>5 DEF RegisterServices
  <1>6. CASE RegisterOpen(t)
    BY <1>6 DEF RegisterOpen
  <1>7. CASE RegisterDone(t)
    BY <1>7 DEF RegisterDone
  <1>8. CASE RegisterRefused(t)
    BY <1>8 DEF RegisterRefused
  <1> HIDE DEF TypeOK
  <1> QED
    BY <1>1, <1>2, <1>3, <1>4, <1>5, <1>6, <1>7, <1>8 DEF RegisterStep

LEMMA UnregisterTypes ==
  ASSUME TypeOK, NEW t \in Thread, UnregisterStep(t)
  PROVE  TypeOK'
  <1> USE GateAssumption DEF TypeOK, gates, owners, locals, Pointer, NoJob, Goto, Start,
      MyModule, MyOwner, ForInstall, Counter, IsOpen, Shut, Reopen, Drop,
      ScopePC, ReaderPC, RegisterPC, UnregisterPC, InstallPC, UninstallPC
  <1>1. ASSUME NEW m \in Module, Detach(t, m) PROVE TypeOK'
    BY <1>1 DEF Detach
  <1>2. CASE UnregisterLock(t)
    BY <1>2 DEF UnregisterLock
  <1>3. CASE UnregisterCheck(t)
    BY <1>3 DEF UnregisterCheck
  <1>4. CASE UnregisterClose(t)
    BY <1>4 DEF UnregisterClose
  <1>5. CASE UnregisterServices(t)
    BY <1>5 DEF UnregisterServices
  <1>6. CASE UnregisterRelease(t)
    <2>1. ASSUME NEW x \in Owner PROVE Drop(registrations[x]) \in Counter
      <3>1. registrations[x] \in Counter
        BY DEF TypeOK
      <3> HIDE DEF TypeOK
      <3> QED BY <3>1
    <2> HIDE DEF Counter, Drop, Reopen, IsOpen
    <2>2. registrations' \in [Owner -> Counter]
      BY <1>6, <2>1 DEF UnregisterRelease
    <2> QED BY <1>6, <2>2 DEF UnregisterRelease
  <1>7. CASE UnregisterDone(t)
    BY <1>7 DEF UnregisterDone
  <1>8. CASE UnregisterRefused(t)
    BY <1>8 DEF UnregisterRefused
  <1> HIDE DEF TypeOK
  <1> QED
    BY <1>1, <1>2, <1>3, <1>4, <1>5, <1>6, <1>7, <1>8 DEF UnregisterStep

LEMMA InstallTypes ==
  ASSUME TypeOK, NEW t \in Thread, InstallStep(t)
  PROVE  TypeOK'
  <1> USE GateAssumption DEF TypeOK, gates, owners, locals, Pointer, NoJob, Goto, Start,
      MyModule, MyOwner, ForInstall, Counter, IsOpen, Shut, Reopen, Drop,
      ScopePC, ReaderPC, RegisterPC, UnregisterPC, InstallPC, UninstallPC
  <1>1. ASSUME NEW o \in Owner, Install(t, o) PROVE TypeOK'
    BY <1>1 DEF Install
  <1>2. CASE InstallReaders(t)
    BY <1>2 DEF InstallReaders
  <1>3. CASE InstallObserver(t)
    BY <1>3 DEF InstallObserver
  <1>4. CASE InstallHandlers(t)
    BY <1>4 DEF InstallHandlers
  <1>5. CASE RollbackReaders(t)
    BY <1>5 DEF RollbackReaders
  <1>6. CASE RollbackOwner(t)
    BY <1>6 DEF RollbackOwner
  <1>7. CASE FreeStaged(t)
    BY <1>7 DEF FreeStaged
  <1> HIDE DEF TypeOK
  <1> QED
    BY <1>1, <1>2, <1>3, <1>4, <1>5, <1>6, <1>7 DEF InstallStep

LEMMA UninstallTypes ==
  ASSUME TypeOK, NEW t \in Thread, UninstallStep(t)
  PROVE  TypeOK'
  <1> USE GateAssumption DEF TypeOK, gates, owners, locals, Pointer, NoJob, Goto, Start,
      MyModule, MyOwner, ForInstall, Counter, IsOpen, Shut, Reopen, Drop,
      ScopePC, ReaderPC, RegisterPC, UnregisterPC, InstallPC, UninstallPC
  <1>1. CASE Uninstall(t)
    BY <1>1 DEF Uninstall
  <1>2. CASE UninstallLock(t)
    BY <1>2 DEF UninstallLock
  <1>3. CASE UninstallGate(t)
    BY <1>3 DEF UninstallGate
  <1>4. CASE UninstallReaders(t)
    BY <1>4 DEF UninstallReaders
  <1>5. CASE UninstallServices(t)
    BY <1>5 DEF UninstallServices
  <1>6. CASE UninstallRelease(t)
    <2>1. ASSUME NEW x \in Owner PROVE Drop(registrations[x]) \in Counter
      <3>1. registrations[x] \in Counter
        BY DEF TypeOK
      <3> HIDE DEF TypeOK
      <3> QED BY <3>1
    <2> HIDE DEF Counter, Drop, Reopen, IsOpen
    <2>2. registrations' \in [Owner -> Counter]
      BY <1>6, <2>1 DEF UninstallRelease
    <2> QED BY <1>6, <2>2 DEF UninstallRelease
  <1>7. CASE UninstallHandlers(t)
    BY <1>7 DEF UninstallHandlers
  <1>8. CASE UninstallOwner(t)
    BY <1>8 DEF UninstallOwner
  <1>9. CASE UninstallFree(t)
    BY <1>9 DEF UninstallFree
  <1>10. CASE UninstallDone(t)
    BY <1>10 DEF UninstallDone
  <1>11. CASE ReopenReaders(t)
    BY <1>11 DEF ReopenReaders
  <1>12. CASE ReopenGate(t)
    BY <1>12 DEF ReopenGate
  <1>13. CASE ReopenRegistrations(t)
    <2>1. ASSUME NEW x \in Owner PROVE Reopen(registrations[x]) \in Counter
      <3>1. registrations[x] \in Counter
        BY DEF TypeOK
      <3> HIDE DEF TypeOK
      <3> QED BY <3>1
    <2> HIDE DEF Counter, Drop, Reopen, IsOpen
    <2>2. registrations' \in [Owner -> Counter]
      BY <1>13, <2>1 DEF ReopenRegistrations
    <2>3. CASE Goto(t, "uReopen", "uClear")
      BY <1>13, <2>2, <2>3 DEF ReopenRegistrations
    <2>4. CASE Goto(t, "uReopenUnlocked", "idle")
      BY <1>13, <2>2, <2>4 DEF ReopenRegistrations
    <2> QED
      BY <1>13, <2>3, <2>4 DEF ReopenRegistrations
  <1> HIDE DEF TypeOK
  <1> QED
    BY <1>1, <1>2, <1>3, <1>4, <1>5, <1>6, <1>7, <1>8, <1>9, <1>10, <1>11, <1>12, <1>13 DEF UninstallStep

-----------------------------------------------------------------------------
(* Who holds moduleUpdate.                                                 *)

LEMMA ScopeControls ==
  ASSUME TypeOK, Control, NEW t \in Thread, ScopeStep(t)
  PROVE  Control'
  <1> USE GateAssumption DEF TypeOK, Control, UninstallsHost, LockIsExclusive, ScopeIsFresh,
      gates, owners, locals, NoJob, Goto, Start, MyModule, MyOwner, ForInstall,
      LockedPC, UninstallPC
  <1>1. CASE EnterScope(t)
    BY <1>1 DEF EnterScope
  <1>2. CASE Unpin(t)
    BY <1>2 DEF Unpin
  <1>3. CASE MakeObject(t)
    BY <1>3 DEF MakeObject
  <1>4. ASSUME NEW m \in Module, OuterScope(t, m) PROVE Control'
    BY <1>4 DEF OuterScope, AcquireModule
  <1>5. ASSUME NEW m \in Module, NestedScope(t, m) PROVE Control'
    BY <1>5 DEF NestedScope
  <1>6. ASSUME NEW m \in Module, LeaveInner(t, m) PROVE Control'
    BY <1>6 DEF LeaveInner
  <1>7. ASSUME NEW m \in Module, LeaveOuter(t, m) PROVE Control'
    BY <1>7 DEF LeaveOuter
  <1>8. ASSUME NEW m \in Module, BeginObject(t, m) PROVE Control'
    BY <1>8 DEF BeginObject, AcquireModule
  <1>9. ASSUME NEW m \in Module, DestroyObject(t, m) PROVE Control'
    BY <1>9 DEF DestroyObject
  <1> HIDE DEF Control
  <1> QED
    BY <1>1, <1>2, <1>3, <1>4, <1>5, <1>6, <1>7, <1>8, <1>9 DEF ScopeStep

LEMMA ReaderControls ==
  ASSUME TypeOK, Control, NEW t \in Thread, ReaderStep(t)
  PROVE  Control'
  <1> USE GateAssumption DEF TypeOK, Control, UninstallsHost, LockIsExclusive, ScopeIsFresh,
      gates, owners, locals, NoJob, Goto, Start, MyModule, MyOwner, ForInstall,
      LockedPC, UninstallPC
  <1>1. CASE FetchHandler(t)
    BY <1>1 DEF FetchHandler
  <1>2. CASE AcquireReader(t)
    BY <1>2 DEF AcquireReader
  <1>3. CASE ReadOwner(t)
    BY <1>3 DEF ReadOwner
  <1> HIDE DEF Control
  <1> QED
    BY <1>1, <1>2, <1>3 DEF ReaderStep

LEMMA RegisterControls ==
  ASSUME TypeOK, Control, NEW t \in Thread, RegisterStep(t)
  PROVE  Control'
  <1> USE GateAssumption DEF TypeOK, Control, UninstallsHost, LockIsExclusive, ScopeIsFresh,
      gates, owners, locals, NoJob, Goto, Start, MyModule, MyOwner, ForInstall,
      LockedPC, UninstallPC
  <1>1. ASSUME NEW m \in Module, NEW i \in Installer, Attach(t, m, i) PROVE Control'
    BY <1>1 DEF Attach
  <1>2. CASE RegisterLock(t)
    BY <1>2 DEF RegisterLock
  <1>3. CASE RegisterCheck(t)
    BY <1>3 DEF RegisterCheck
  <1>4. CASE RegisterRetain(t)
    BY <1>4 DEF RegisterRetain
  <1>5. CASE RegisterServices(t)
    BY <1>5 DEF RegisterServices
  <1>6. CASE RegisterOpen(t)
    BY <1>6 DEF RegisterOpen
  <1>7. CASE RegisterDone(t)
    BY <1>7 DEF RegisterDone
  <1>8. CASE RegisterRefused(t)
    BY <1>8 DEF RegisterRefused
  <1> HIDE DEF Control
  <1> QED
    BY <1>1, <1>2, <1>3, <1>4, <1>5, <1>6, <1>7, <1>8 DEF RegisterStep

LEMMA UnregisterControls ==
  ASSUME TypeOK, Control, NEW t \in Thread, UnregisterStep(t)
  PROVE  Control'
  <1> USE GateAssumption DEF TypeOK, Control, UninstallsHost, LockIsExclusive, ScopeIsFresh,
      gates, owners, locals, NoJob, Goto, Start, MyModule, MyOwner, ForInstall,
      LockedPC, UninstallPC
  <1>1. ASSUME NEW m \in Module, Detach(t, m) PROVE Control'
    BY <1>1 DEF Detach
  <1>2. CASE UnregisterLock(t)
    BY <1>2 DEF UnregisterLock
  <1>3. CASE UnregisterCheck(t)
    BY <1>3 DEF UnregisterCheck
  <1>4. CASE UnregisterClose(t)
    BY <1>4 DEF UnregisterClose
  <1>5. CASE UnregisterServices(t)
    BY <1>5 DEF UnregisterServices
  <1>6. CASE UnregisterRelease(t)
    BY <1>6 DEF UnregisterRelease
  <1>7. CASE UnregisterDone(t)
    BY <1>7 DEF UnregisterDone
  <1>8. CASE UnregisterRefused(t)
    BY <1>8 DEF UnregisterRefused
  <1> HIDE DEF Control
  <1> QED
    BY <1>1, <1>2, <1>3, <1>4, <1>5, <1>6, <1>7, <1>8 DEF UnregisterStep

LEMMA InstallControls ==
  ASSUME TypeOK, Control, NEW t \in Thread, InstallStep(t)
  PROVE  Control'
  <1> USE GateAssumption DEF TypeOK, Control, UninstallsHost, LockIsExclusive, ScopeIsFresh,
      gates, owners, locals, NoJob, Goto, Start, MyModule, MyOwner, ForInstall,
      LockedPC, UninstallPC
  <1>1. ASSUME NEW o \in Owner, Install(t, o) PROVE Control'
    BY <1>1 DEF Install
  <1>2. CASE InstallReaders(t)
    BY <1>2 DEF InstallReaders
  <1>3. CASE InstallObserver(t)
    BY <1>3 DEF InstallObserver
  <1>4. CASE InstallHandlers(t)
    BY <1>4 DEF InstallHandlers
  <1>5. CASE RollbackReaders(t)
    BY <1>5 DEF RollbackReaders
  <1>6. CASE RollbackOwner(t)
    BY <1>6 DEF RollbackOwner
  <1>7. CASE FreeStaged(t)
    BY <1>7 DEF FreeStaged
  <1> HIDE DEF Control
  <1> QED
    BY <1>1, <1>2, <1>3, <1>4, <1>5, <1>6, <1>7 DEF InstallStep

LEMMA UninstallControls ==
  ASSUME TypeOK, Control, NEW t \in Thread, UninstallStep(t)
  PROVE  Control'
  <1> USE GateAssumption DEF TypeOK, Control, UninstallsHost, LockIsExclusive, ScopeIsFresh,
      gates, owners, locals, NoJob, Goto, Start, MyModule, MyOwner, ForInstall,
      LockedPC, UninstallPC
  <1>1. CASE Uninstall(t)
    BY <1>1 DEF Uninstall
  <1>2. CASE UninstallLock(t)
    BY <1>2 DEF UninstallLock
  <1>3. CASE UninstallGate(t)
    BY <1>3 DEF UninstallGate
  <1>4. CASE UninstallReaders(t)
    BY <1>4 DEF UninstallReaders
  <1>5. CASE UninstallServices(t)
    BY <1>5 DEF UninstallServices
  <1>6. CASE UninstallRelease(t)
    BY <1>6 DEF UninstallRelease
  <1>7. CASE UninstallHandlers(t)
    BY <1>7 DEF UninstallHandlers
  <1>8. CASE UninstallOwner(t)
    BY <1>8 DEF UninstallOwner
  <1>9. CASE UninstallFree(t)
    BY <1>9 DEF UninstallFree
  <1>10. CASE UninstallDone(t)
    BY <1>10 DEF UninstallDone
  <1>11. CASE ReopenReaders(t)
    BY <1>11 DEF ReopenReaders
  <1>12. CASE ReopenGate(t)
    BY <1>12 DEF ReopenGate
  <1>13. CASE ReopenRegistrations(t)
    <2>1. CASE Goto(t, "uReopen", "uClear")
      BY <1>13, <2>1 DEF ReopenRegistrations
    <2>2. CASE Goto(t, "uReopenUnlocked", "idle")
      BY <1>13, <2>2 DEF ReopenRegistrations
    <2> QED
      BY <1>13, <2>1, <2>2 DEF ReopenRegistrations
  <1> HIDE DEF Control
  <1> QED
    BY <1>1, <1>2, <1>3, <1>4, <1>5, <1>6, <1>7, <1>8, <1>9, <1>10, <1>11, <1>12, <1>13 DEF UninstallStep

-----------------------------------------------------------------------------
(* Steps that touch no pin.                                                *)

LEMMA PinSets ==
  ASSUME TypeOK, NEW m \in Module
  PROVE  /\ IsFiniteSet(ScopePins(m)) /\ IsFiniteSet(TransitPins(m))
         /\ Cardinality(ScopePins(m)) \in Nat /\ Cardinality(TransitPins(m)) \in Nat
         /\ objects[m] \in Nat /\ Pins(m) \in Nat
  <1>1. ScopePins(m) \subseteq Thread /\ TransitPins(m) \subseteq Thread
    BY DEF ScopePins, TransitPins
  <1>2. IsFiniteSet(ScopePins(m)) /\ IsFiniteSet(TransitPins(m))
    BY <1>1, FS_Subset, GateAssumption DEF GateAssumption
  <1>3. Cardinality(ScopePins(m)) \in Nat /\ Cardinality(TransitPins(m)) \in Nat
    BY <1>2, FS_CardinalityType
  <1>4. objects[m] \in Nat
    BY DEF TypeOK
  <1> QED
    BY <1>2, <1>3, <1>4 DEF Pins

\* How many elements one more or one fewer makes.
LEMMA OneMore ==
  ASSUME NEW S, IsFiniteSet(S), NEW x, x \notin S
  PROVE  Cardinality(S \cup {x}) = Cardinality(S) + 1
  BY FS_AddElement

LEMMA OneFewer ==
  ASSUME NEW S, IsFiniteSet(S), NEW x \in S
  PROVE  Cardinality(S \ {x}) = Cardinality(S) - 1 /\ Cardinality(S) >= 1
  <1>1. Cardinality(S \ {x}) = Cardinality(S) - 1
    BY FS_RemoveElement
  <1>2. Cardinality(S) \in Nat /\ Cardinality(S \ {x}) \in Nat
    BY FS_RemoveElement, FS_CardinalityType
  <1> QED
    BY <1>1, <1>2

\* Thread t neither takes nor gives back a pin, and the gates stay.
Still(t) ==
  /\ UNCHANGED <<gate, depth, objects>>
  /\ pc[t] \notin ScopePC /\ pc'[t] \notin ScopePC
  /\ \A u \in Thread \ {t} : pc'[u] = pc[u] /\ job'[u] = job[u]

LEMMA SamePins ==
  ASSUME NEW t \in Thread, Still(t), NEW m \in Module
  PROVE  Pins(m)' = Pins(m)
  <1>1. ScopePins(m)' = ScopePins(m)
    BY DEF Still, ScopePins
  <1>2. TransitPins(m)' = TransitPins(m)
    BY DEF Still, TransitPins, MyModule
  <1> QED
    BY <1>1, <1>2 DEF Pins, Still

LEMMA StillIsExact ==
  ASSUME GateIsExact, NEW t \in Thread, Still(t)
  PROVE  GateIsExact'
  BY SamePins DEF GateIsExact, Still

LEMMA ReaderStill ==
  ASSUME TypeOK, Control, GateStaysShut, NEW t \in Thread, ReaderStep(t)
  PROVE  Still(t) /\ GateStaysShut'
  <1> USE GateAssumption DEF TypeOK, Control, UninstallsHost, GateStaysShut, Still,
      gates, owners, locals, NoJob, Goto, Start, MyModule, MyOwner, ForInstall,
      ShutPC, ScopePC, UninstallPC
  <1>1. CASE FetchHandler(t)
    BY <1>1 DEF FetchHandler
  <1>2. CASE AcquireReader(t)
    BY <1>2 DEF AcquireReader
  <1>3. CASE ReadOwner(t)
    BY <1>3 DEF ReadOwner
  <1> HIDE DEF Still, GateStaysShut
  <1> QED
    BY <1>1, <1>2, <1>3 DEF ReaderStep

LEMMA RegisterStill ==
  ASSUME TypeOK, Control, GateStaysShut, NEW t \in Thread, RegisterStep(t),
         ~RegisterOpen(t)
  PROVE  Still(t) /\ GateStaysShut'
  <1> USE GateAssumption DEF TypeOK, Control, UninstallsHost, GateStaysShut, Still,
      gates, owners, locals, NoJob, Goto, Start, MyModule, MyOwner, ForInstall,
      ShutPC, ScopePC, UninstallPC
  <1>1. ASSUME NEW m \in Module, NEW i \in Installer, Attach(t, m, i) PROVE Still(t) /\ GateStaysShut'
    BY <1>1 DEF Attach
  <1>2. CASE RegisterLock(t)
    BY <1>2 DEF RegisterLock
  <1>3. CASE RegisterCheck(t)
    BY <1>3 DEF RegisterCheck
  <1>4. CASE RegisterRetain(t)
    BY <1>4 DEF RegisterRetain
  <1>5. CASE RegisterServices(t)
    BY <1>5 DEF RegisterServices
  <1>6. CASE RegisterDone(t)
    BY <1>6 DEF RegisterDone
  <1>7. CASE RegisterRefused(t)
    BY <1>7 DEF RegisterRefused
  <1> HIDE DEF Still, GateStaysShut
  <1> QED
    BY <1>1, <1>2, <1>3, <1>4, <1>5, <1>6, <1>7 DEF RegisterStep

LEMMA UnregisterStill ==
  ASSUME TypeOK, Control, GateStaysShut, NEW t \in Thread, UnregisterStep(t),
         ~UnregisterClose(t)
  PROVE  Still(t) /\ GateStaysShut'
  <1> USE GateAssumption DEF TypeOK, Control, UninstallsHost, GateStaysShut, Still,
      gates, owners, locals, NoJob, Goto, Start, MyModule, MyOwner, ForInstall,
      ShutPC, ScopePC, UninstallPC
  <1>1. ASSUME NEW m \in Module, Detach(t, m) PROVE Still(t) /\ GateStaysShut'
    BY <1>1 DEF Detach
  <1>2. CASE UnregisterLock(t)
    BY <1>2 DEF UnregisterLock
  <1>3. CASE UnregisterCheck(t)
    BY <1>3 DEF UnregisterCheck
  <1>4. CASE UnregisterServices(t)
    BY <1>4 DEF UnregisterServices
  <1>5. CASE UnregisterRelease(t)
    BY <1>5 DEF UnregisterRelease
  <1>6. CASE UnregisterDone(t)
    BY <1>6 DEF UnregisterDone
  <1>7. CASE UnregisterRefused(t)
    BY <1>7 DEF UnregisterRefused
  <1> HIDE DEF Still, GateStaysShut
  <1> QED
    BY <1>1, <1>2, <1>3, <1>4, <1>5, <1>6, <1>7 DEF UnregisterStep

LEMMA InstallStill ==
  ASSUME TypeOK, Control, GateStaysShut, NEW t \in Thread, InstallStep(t)
  PROVE  Still(t) /\ GateStaysShut'
  <1> USE GateAssumption DEF TypeOK, Control, UninstallsHost, GateStaysShut, Still,
      gates, owners, locals, NoJob, Goto, Start, MyModule, MyOwner, ForInstall,
      ShutPC, ScopePC, UninstallPC
  <1>1. ASSUME NEW o \in Owner, Install(t, o) PROVE Still(t) /\ GateStaysShut'
    BY <1>1 DEF Install
  <1>2. CASE InstallReaders(t)
    BY <1>2 DEF InstallReaders
  <1>3. CASE InstallObserver(t)
    BY <1>3 DEF InstallObserver
  <1>4. CASE InstallHandlers(t)
    BY <1>4 DEF InstallHandlers
  <1>5. CASE RollbackReaders(t)
    BY <1>5 DEF RollbackReaders
  <1>6. CASE RollbackOwner(t)
    BY <1>6 DEF RollbackOwner
  <1>7. CASE FreeStaged(t)
    BY <1>7 DEF FreeStaged
  <1> HIDE DEF Still, GateStaysShut
  <1> QED
    BY <1>1, <1>2, <1>3, <1>4, <1>5, <1>6, <1>7 DEF InstallStep

LEMMA UninstallStill ==
  ASSUME TypeOK, Control, GateStaysShut, NEW t \in Thread, UninstallStep(t),
         ~UninstallGate(t), ~ReopenGate(t)
  PROVE  Still(t) /\ GateStaysShut'
  <1> USE GateAssumption DEF TypeOK, Control, UninstallsHost, GateStaysShut, Still,
      gates, owners, locals, NoJob, Goto, Start, MyModule, MyOwner, ForInstall,
      ShutPC, ScopePC, UninstallPC
  <1>1. CASE Uninstall(t)
    BY <1>1 DEF Uninstall
  <1>2. CASE UninstallLock(t)
    BY <1>2 DEF UninstallLock
  <1>3. CASE UninstallReaders(t)
    BY <1>3 DEF UninstallReaders
  <1>4. CASE UninstallServices(t)
    BY <1>4 DEF UninstallServices
  <1>5. CASE UninstallRelease(t)
    BY <1>5 DEF UninstallRelease
  <1>6. CASE UninstallHandlers(t)
    BY <1>6 DEF UninstallHandlers
  <1>7. CASE UninstallOwner(t)
    BY <1>7 DEF UninstallOwner
  <1>8. CASE UninstallFree(t)
    BY <1>8 DEF UninstallFree
  <1>9. CASE UninstallDone(t)
    BY <1>9 DEF UninstallDone
  <1>10. CASE ReopenReaders(t)
    BY <1>10 DEF ReopenReaders
  <1>11. CASE ReopenRegistrations(t)
    BY <1>11 DEF ReopenRegistrations
  <1> HIDE DEF Still, GateStaysShut
  <1> QED
    BY <1>1, <1>2, <1>3, <1>4, <1>5, <1>6, <1>7, <1>8, <1>9, <1>10, <1>11 DEF UninstallStep

-----------------------------------------------------------------------------
(* Steps that take, move or give back a pin, or turn a gate.               *)

LEMMA AcquireExact ==
  ASSUME TypeOK, GateStaysShut, GateIsExact,
         NEW t \in Thread, NEW m \in Module, NEW next \in ScopePC, AcquireModule(t, m, next)
  PROVE  GateStaysShut' /\ GateIsExact'
  <1> USE GateAssumption
  <1>1. gate[m] \in Nat /\ gate[m] < Closed - 1 /\ gate' = [gate EXCEPT ![m] = @ + 1]
    BY DEF AcquireModule, IsOpen, TypeOK, Counter
  <1>2. pc[t] = "idle" /\ pc'[t] = next /\ job'[t].module = m
    BY DEF AcquireModule, Start, TypeOK
  <1>3. \A u \in Thread \ {t} : pc'[u] = pc[u] /\ job'[u] = job[u]
    BY DEF AcquireModule, Start, TypeOK
  <1>4. GateStaysShut'
    <2> SUFFICES ASSUME NEW u \in Thread, pc'[u] \in ShutPC
                 PROVE  gate'[job'[u].module] = Closed
      BY DEF GateStaysShut, MyModule
    <2>1. u # t
      BY <1>2 DEF ShutPC, ScopePC
    <2>2. job'[u].module = MyModule(u) /\ gate[MyModule(u)] = Closed /\ MyModule(u) \in Module
      BY <2>1, <1>3 DEF GateStaysShut, MyModule, TypeOK
    <2>3. MyModule(u) # m
      BY <2>2, <1>1
    <2> QED
      BY <2>2, <2>3, <1>1 DEF TypeOK
  <1>5. UNCHANGED <<depth, objects>>
    BY DEF AcquireModule, locals
  <1>6. TransitPins(m)' = TransitPins(m) \cup {t} /\ t \notin TransitPins(m)
    BY <1>2, <1>3 DEF TransitPins, MyModule, ScopePC
  <1>7. \A n \in Module \ {m} : TransitPins(n)' = TransitPins(n)
    BY <1>2, <1>3 DEF TransitPins, MyModule, ScopePC
  <1>8. \A n \in Module : ScopePins(n)' = ScopePins(n)
    BY <1>5 DEF ScopePins
  <1>9. Pins(m)' = Pins(m) + 1
    <2>1. Cardinality(TransitPins(m)') = Cardinality(TransitPins(m)) + 1
      BY <1>6, PinSets, OneMore
    <2> QED
      BY <2>1, <1>5, <1>8, PinSets DEF Pins
  <1>10. \A n \in Module \ {m} : Pins(n)' = Pins(n)
    BY <1>5, <1>7, <1>8 DEF Pins
  <1>11. GateIsExact'
    <2> SUFFICES ASSUME NEW n \in Module
                 PROVE  IF gate'[n] < Closed THEN gate'[n] = Pins(n)' ELSE gate'[n] = Closed /\ Pins(n)' = 0
      BY DEF GateIsExact
    <2>1. CASE n = m
      BY <2>1, <1>1, <1>9 DEF GateIsExact, TypeOK
    <2>2. CASE n # m
      BY <2>2, <1>1, <1>10 DEF GateIsExact, TypeOK
    <2> QED
      BY <2>1, <2>2
  <1> QED
    BY <1>4, <1>11

\* An operation that turns one kind of pin into another leaves the gates alone.
LEMMA MovedPin ==
  ASSUME TypeOK, GateStaysShut, GateIsExact,
         UNCHANGED gate, \A m \in Module : Pins(m)' = Pins(m),
         NEW t \in Thread, pc'[t] \notin ShutPC,
         \A u \in Thread \ {t} : pc'[u] = pc[u] /\ job'[u] = job[u]
  PROVE  GateStaysShut' /\ GateIsExact'
  BY DEF GateStaysShut, GateIsExact, MyModule

LEMMA EnterExact ==
  ASSUME TypeOK, Control, GateStaysShut, GateIsExact, NEW t \in Thread, EnterScope(t)
  PROVE  GateStaysShut' /\ GateIsExact'
  <1> USE GateAssumption
  <1> PICK m \in Module : m = MyModule(t)
    BY DEF TypeOK, MyModule
  <1>1. pc[t] = "scope" /\ pc'[t] = "idle" /\ UNCHANGED <<gate, objects>>
    BY DEF EnterScope, Goto, TypeOK, gates, MyModule
  <1>2. \A u \in Thread \ {t} : pc'[u] = pc[u] /\ job'[u] = job[u]
    BY DEF EnterScope, Goto, TypeOK
  <1>3. depth[t][m] = 0 /\ depth' = [depth EXCEPT ![t][m] = 1]
    BY <1>1 DEF EnterScope, Control, ScopeIsFresh
  <1>4. TransitPins(m)' = TransitPins(m) \ {t} /\ t \in TransitPins(m)
    BY <1>1, <1>2 DEF TransitPins, MyModule, ScopePC
  <1>5. ScopePins(m)' = ScopePins(m) \cup {t} /\ t \notin ScopePins(m)
    BY <1>1, <1>3 DEF ScopePins, TypeOK
  <1>6. \A n \in Module \ {m} : TransitPins(n)' = TransitPins(n) /\ ScopePins(n)' = ScopePins(n)
    <2> SUFFICES ASSUME NEW n \in Module \ {m}
                 PROVE  TransitPins(n)' = TransitPins(n) /\ ScopePins(n)' = ScopePins(n)
      OBVIOUS
    <2>1. TransitPins(n)' = TransitPins(n)
      BY <1>1, <1>2 DEF TransitPins, MyModule, ScopePC
    <2>2. ScopePins(n)' = ScopePins(n)
      BY <1>1, <1>3 DEF ScopePins, TypeOK
    <2> QED
      BY <2>1, <2>2
  <1>7. Pins(m)' = Pins(m)
    <2>1. Cardinality(TransitPins(m)') = Cardinality(TransitPins(m)) - 1
      BY <1>1, <1>4, PinSets, OneFewer
    <2>2. Cardinality(ScopePins(m)') = Cardinality(ScopePins(m)) + 1
      BY <1>1, <1>5, PinSets, OneMore
    <2> QED
      BY <2>1, <2>2, <1>1, PinSets DEF Pins
  <1>8. \A n \in Module : Pins(n)' = Pins(n)
    BY <1>1, <1>6, <1>7 DEF Pins
  <1> QED
    BY <1>1, <1>2, <1>8, MovedPin DEF ShutPC

LEMMA LeaveExact ==
  ASSUME TypeOK, GateStaysShut, GateIsExact, NEW t \in Thread, NEW m \in Module, LeaveOuter(t, m)
  PROVE  GateStaysShut' /\ GateIsExact'
  <1> USE GateAssumption
  <1>1. pc[t] = "idle" /\ pc'[t] = "unpin" /\ job'[t].module = m /\ UNCHANGED <<gate, objects>>
    BY DEF LeaveOuter, Start, TypeOK, gates
  <1>2. \A u \in Thread \ {t} : pc'[u] = pc[u] /\ job'[u] = job[u]
    BY DEF LeaveOuter, Start, TypeOK
  <1>3. depth[t][m] = 1 /\ depth' = [depth EXCEPT ![t][m] = 0]
    BY DEF LeaveOuter
  <1>4. TransitPins(m)' = TransitPins(m) \cup {t} /\ t \notin TransitPins(m)
    BY <1>1, <1>2 DEF TransitPins, MyModule, ScopePC
  <1>5. ScopePins(m)' = ScopePins(m) \ {t} /\ t \in ScopePins(m)
    BY <1>3 DEF ScopePins, TypeOK
  <1>6. \A n \in Module \ {m} : TransitPins(n)' = TransitPins(n) /\ ScopePins(n)' = ScopePins(n)
    <2> SUFFICES ASSUME NEW n \in Module \ {m}
                 PROVE  TransitPins(n)' = TransitPins(n) /\ ScopePins(n)' = ScopePins(n)
      OBVIOUS
    <2>1. TransitPins(n)' = TransitPins(n)
      BY <1>1, <1>2 DEF TransitPins, MyModule, ScopePC
    <2>2. ScopePins(n)' = ScopePins(n)
      BY <1>3 DEF ScopePins, TypeOK
    <2> QED
      BY <2>1, <2>2
  <1>7. Pins(m)' = Pins(m)
    <2>1. Cardinality(TransitPins(m)') = Cardinality(TransitPins(m)) + 1
      BY <1>4, PinSets, OneMore
    <2>2. Cardinality(ScopePins(m)') = Cardinality(ScopePins(m)) - 1
      BY <1>5, PinSets, OneFewer
    <2> QED
      BY <2>1, <2>2, <1>1, PinSets DEF Pins
  <1>8. \A n \in Module : Pins(n)' = Pins(n)
    BY <1>1, <1>6, <1>7 DEF Pins
  <1> QED
    BY <1>1, <1>2, <1>8, MovedPin DEF ShutPC

LEMMA MakeExact ==
  ASSUME TypeOK, GateStaysShut, GateIsExact, NEW t \in Thread, MakeObject(t)
  PROVE  GateStaysShut' /\ GateIsExact'
  <1> USE GateAssumption
  <1> PICK m \in Module : m = MyModule(t)
    BY DEF TypeOK, MyModule
  <1>1. pc[t] = "object" /\ pc'[t] = "idle" /\ UNCHANGED <<gate, depth>>
    BY DEF MakeObject, Goto, TypeOK, gates
  <1>2. \A u \in Thread \ {t} : pc'[u] = pc[u] /\ job'[u] = job[u]
    BY DEF MakeObject, Goto, TypeOK
  <1>3. objects' = [objects EXCEPT ![m] = @ + 1]
    BY DEF MakeObject
  <1>4. TransitPins(m)' = TransitPins(m) \ {t} /\ t \in TransitPins(m)
    BY <1>1, <1>2 DEF TransitPins, MyModule, ScopePC
  <1>5. \A n \in Module : ScopePins(n)' = ScopePins(n)
    BY <1>1 DEF ScopePins
  <1>6. \A n \in Module \ {m} : TransitPins(n)' = TransitPins(n)
    BY <1>1, <1>2 DEF TransitPins, MyModule, ScopePC
  <1>7. Pins(m)' = Pins(m)
    <2>1. Cardinality(TransitPins(m)') = Cardinality(TransitPins(m)) - 1
      BY <1>4, PinSets, OneFewer
    <2>2. objects'[m] = objects[m] + 1
      BY <1>3 DEF TypeOK
    <2> QED
      BY <2>1, <2>2, <1>5, PinSets DEF Pins
  <1>8. \A n \in Module \ {m} : Pins(n)' = Pins(n)
    BY <1>3, <1>5, <1>6 DEF Pins, TypeOK
  <1> QED
    BY <1>1, <1>2, <1>7, <1>8, MovedPin DEF ShutPC

\* What gives one pin of m back finds the gate open, and leaves it exact.
LEMMA DroppedPin ==
  ASSUME TypeOK, GateStaysShut, GateIsExact, NEW m \in Module,
         gate' = [gate EXCEPT ![m] = Drop(@)],
         Pins(m)' = Pins(m) - 1, Pins(m) >= 1,
         \A n \in Module \ {m} : Pins(n)' = Pins(n),
         \A u \in Thread : pc'[u] \in ShutPC => pc'[u] = pc[u] /\ job'[u] = job[u]
  PROVE  GateStaysShut' /\ GateIsExact'
  <1> USE GateAssumption DEF GateAssumption
  <1>1. gate[m] \in Nat /\ gate[m] < Closed /\ gate[m] = Pins(m) /\ gate[m] # 0
    BY DEF GateIsExact, TypeOK, Counter
  <1>2. gate' = [gate EXCEPT ![m] = @ - 1]
    BY <1>1 DEF Drop, TypeOK
  <1>3. GateStaysShut'
    <2> SUFFICES ASSUME NEW u \in Thread, pc'[u] \in ShutPC
                 PROVE  gate'[job'[u].module] = Closed
      BY DEF GateStaysShut, MyModule
    <2>1. job'[u].module = MyModule(u) /\ gate[MyModule(u)] = Closed /\ MyModule(u) \in Module
      BY DEF GateStaysShut, MyModule, TypeOK
    <2>2. MyModule(u) # m
      BY <2>1, <1>1
    <2> QED
      BY <2>1, <2>2, <1>2 DEF TypeOK
  <1>4. ASSUME NEW n \in Module
        PROVE  IF gate'[n] < Closed THEN gate'[n] = Pins(n)' ELSE gate'[n] = Closed /\ Pins(n)' = 0
    <2>1. CASE n = m
      BY <2>1, <1>1, <1>2 DEF TypeOK
    <2>2. CASE n # m
      BY <2>2, <1>2 DEF GateIsExact, TypeOK
    <2> QED
      BY <2>1, <2>2
  <1> QED
    BY <1>3, <1>4 DEF GateIsExact

LEMMA UnpinExact ==
  ASSUME TypeOK, GateStaysShut, GateIsExact, NEW t \in Thread, Unpin(t)
  PROVE  GateStaysShut' /\ GateIsExact'
  <1> USE GateAssumption
  <1> PICK m \in Module : m = MyModule(t)
    BY DEF TypeOK, MyModule
  <1>1. pc[t] = "unpin" /\ pc'[t] = "idle" /\ UNCHANGED <<depth, objects>>
    BY DEF Unpin, Goto, TypeOK, locals
  <1>2. \A u \in Thread \ {t} : pc'[u] = pc[u] /\ job'[u] = job[u]
    BY DEF Unpin, Goto, TypeOK
  <1>3. gate' = [gate EXCEPT ![m] = Drop(@)]
    BY DEF Unpin
  <1>4. TransitPins(m)' = TransitPins(m) \ {t} /\ t \in TransitPins(m)
    BY <1>1, <1>2 DEF TransitPins, MyModule, ScopePC
  <1>5. \A n \in Module : ScopePins(n)' = ScopePins(n)
    BY <1>1 DEF ScopePins
  <1>6. \A n \in Module \ {m} : TransitPins(n)' = TransitPins(n)
    BY <1>1, <1>2 DEF TransitPins, MyModule, ScopePC
  <1>7. Pins(m)' = Pins(m) - 1 /\ Pins(m) >= 1
    <2>1. Cardinality(TransitPins(m)') = Cardinality(TransitPins(m)) - 1 /\ Cardinality(TransitPins(m)) >= 1
      BY <1>4, PinSets, OneFewer
    <2> QED
      BY <2>1, <1>1, <1>5, PinSets DEF Pins
  <1>8. \A n \in Module \ {m} : Pins(n)' = Pins(n)
    BY <1>1, <1>5, <1>6 DEF Pins
  <1>9. \A u \in Thread : pc'[u] \in ShutPC => pc'[u] = pc[u] /\ job'[u] = job[u]
    BY <1>1, <1>2 DEF ShutPC
  <1> QED
    BY <1>3, <1>7, <1>8, <1>9, DroppedPin

LEMMA DestroyExact ==
  ASSUME TypeOK, GateStaysShut, GateIsExact, NEW t \in Thread, NEW m \in Module, DestroyObject(t, m)
  PROVE  GateStaysShut' /\ GateIsExact'
  <1>1. UNCHANGED <<pc, job, depth>> /\ gate' = [gate EXCEPT ![m] = Drop(@)]
    BY DEF DestroyObject
  <1>2. objects[m] > 0 /\ objects' = [objects EXCEPT ![m] = @ - 1]
    BY DEF DestroyObject
  <1>3. \A n \in Module : ScopePins(n)' = ScopePins(n) /\ TransitPins(n)' = TransitPins(n)
    BY <1>1 DEF ScopePins, TransitPins, MyModule
  <1>4. Pins(m)' = Pins(m) - 1 /\ Pins(m) >= 1
    BY <1>2, <1>3, PinSets DEF Pins, TypeOK
  <1>5. \A n \in Module \ {m} : Pins(n)' = Pins(n)
    BY <1>2, <1>3 DEF Pins, TypeOK
  <1> QED
    BY <1>1, <1>4, <1>5, DroppedPin

\* A gate without pins is closed, or a closed one opened, by the thread that
\* holds its module's lock.
LEMMA TurnedGate ==
  ASSUME TypeOK, Control, Control', GateStaysShut, GateIsExact,
         NEW t \in Thread, NEW m \in Module, NEW v \in {0, Closed},
         pc[t] \in LockedPC, pc'[t] \in LockedPC, job' = job, MyModule(t) = m,
         gate[m] \in {0, Closed}, gate' = [gate EXCEPT ![m] = v],
         pc'[t] \in ShutPC => v = Closed,
         UNCHANGED <<depth, objects>>,
         \A u \in Thread \ {t} : pc'[u] = pc[u]
  PROVE  GateStaysShut' /\ GateIsExact'
  <1> USE GateAssumption DEF GateAssumption
  <1>1. \A n \in Module : ScopePins(n)' = ScopePins(n)
    BY DEF ScopePins
  <1>2. \A n \in Module : TransitPins(n)' = TransitPins(n)
    BY DEF TransitPins, MyModule, LockedPC, ScopePC
  <1>3. \A n \in Module : Pins(n)' = Pins(n)
    BY <1>1, <1>2 DEF Pins
  <1>4. Pins(m) = 0
    BY DEF GateIsExact
  <1>5. ASSUME NEW n \in Module
        PROVE  IF gate'[n] < Closed THEN gate'[n] = Pins(n)' ELSE gate'[n] = Closed /\ Pins(n)' = 0
    <2>1. CASE n = m
      BY <2>1, <1>3, <1>4 DEF TypeOK
    <2>2. CASE n # m
      BY <2>2, <1>3 DEF GateIsExact, TypeOK
    <2> QED
      BY <2>1, <2>2
  <1>6. ASSUME NEW u \in Thread, pc'[u] \in ShutPC PROVE gate'[job'[u].module] = Closed
    <2>1. CASE u = t
      BY <2>1, <1>6 DEF TypeOK, MyModule
    <2>2. CASE u # t
      <3>1. pc[u] \in ShutPC /\ pc[u] \in LockedPC
        BY <2>2, <1>6 DEF ShutPC, LockedPC
      <3>2. MyModule(u) # m /\ MyModule(u) \in Module /\ gate[MyModule(u)] = Closed
        BY <2>2, <3>1 DEF Control, LockIsExclusive, GateStaysShut, TypeOK, MyModule
      <3> QED
        BY <3>2 DEF MyModule, TypeOK
    <2> QED
      BY <2>1, <2>2
  <1> QED
    BY <1>5, <1>6 DEF GateIsExact, GateStaysShut, MyModule

LEMMA ScopeExact ==
  ASSUME TypeOK, Control, GateStaysShut, GateIsExact, NEW t \in Thread, ScopeStep(t)
  PROVE  GateStaysShut' /\ GateIsExact'
  <1>1. CASE EnterScope(t)
    BY <1>1, EnterExact
  <1>2. CASE Unpin(t)
    BY <1>2, UnpinExact
  <1>3. CASE MakeObject(t)
    BY <1>3, MakeExact
  <1>4. ASSUME NEW m \in Module, OuterScope(t, m) PROVE GateStaysShut' /\ GateIsExact'
    BY <1>4, AcquireExact DEF OuterScope, ScopePC
  <1>5. ASSUME NEW m \in Module, NestedScope(t, m) \/ LeaveInner(t, m) PROVE GateStaysShut' /\ GateIsExact'
    <2>1. pc[t] = "idle" /\ UNCHANGED <<gate, pc, job, objects>>
      BY <1>5 DEF NestedScope, LeaveInner, gates
    <2>2. ASSUME NEW n \in Module, NEW u \in Thread PROVE (depth'[u][n] > 0) = (depth[u][n] > 0)
      <3>1. depth[u][n] \in Nat /\ depth[t][m] \in Nat
        BY GateAssumption DEF TypeOK, GateAssumption
      <3>2. PICK d \in Nat : d > 0 /\ depth' = [depth EXCEPT ![t][m] = d] /\ depth[t][m] > 0
        BY <1>5, <3>1, GateAssumption DEF NestedScope, LeaveInner, GateAssumption
      <3> QED
        BY <3>1, <3>2 DEF TypeOK
    <2>3. \A n \in Module : ScopePins(n)' = ScopePins(n) /\ TransitPins(n)' = TransitPins(n)
      BY <2>1, <2>2 DEF ScopePins, TransitPins, MyModule
    <2>4. \A n \in Module : Pins(n)' = Pins(n)
      BY <2>1, <2>3 DEF Pins
    <2> QED
      BY <2>1, <2>4, MovedPin DEF ShutPC
  <1>6. ASSUME NEW m \in Module, LeaveOuter(t, m) PROVE GateStaysShut' /\ GateIsExact'
    BY <1>6, LeaveExact
  <1>7. ASSUME NEW m \in Module, BeginObject(t, m) PROVE GateStaysShut' /\ GateIsExact'
    BY <1>7, AcquireExact DEF BeginObject, ScopePC
  <1>8. ASSUME NEW m \in Module, DestroyObject(t, m) PROVE GateStaysShut' /\ GateIsExact'
    BY <1>8, DestroyExact
  <1> QED
    BY <1>1, <1>2, <1>3, <1>4, <1>5, <1>6, <1>7, <1>8 DEF ScopeStep

\* The four steps that turn a whole gate.
LEMMA TurnExact ==
  ASSUME TypeOK, Control, Control', GateStaysShut, GateIsExact, NEW t \in Thread,
         RegisterOpen(t) \/ UnregisterClose(t) \/ UninstallGate(t) \/ ReopenGate(t)
  PROVE  GateStaysShut' /\ GateIsExact'
  <1> USE GateAssumption DEF GateAssumption, TypeOK, Goto, MyModule, locals
  <1> PICK m \in Module : m = MyModule(t)
    OBVIOUS
  <1>1. CASE RegisterOpen(t)
    <2>1. gate[m] = Closed
      BY <1>1 DEF RegisterOpen, GateStaysShut, ShutPC
    <2> QED
      BY <1>1, <2>1, TurnedGate DEF RegisterOpen, LockedPC, ShutPC
  <1>2. CASE UnregisterClose(t)
    <2>1. CASE gate[m] = 0
      BY <1>2, <2>1, TurnedGate DEF UnregisterClose, LockedPC
    <2>2. CASE gate[m] # 0
      <3>1. Still(t) /\ pc'[t] \notin ShutPC
        BY <1>2, <2>2 DEF UnregisterClose, Still, ShutPC, ScopePC
      <3> QED
        BY <3>1, StillIsExact DEF GateStaysShut, Still
    <2> QED
      BY <2>1, <2>2
  <1>3. CASE UninstallGate(t)
    <2>1. m = HostModule
      BY <1>3 DEF UninstallGate, Control, UninstallsHost, UninstallPC
    <2>2. CASE gate[m] = 0 /\ services[m] = MyOwner(t)
      BY <1>3, <2>1, <2>2, TurnedGate DEF UninstallGate, LockedPC
    <2>3. CASE ~(gate[m] = 0 /\ services[m] = MyOwner(t))
      <3>1. Still(t) /\ pc'[t] \notin ShutPC
        BY <1>3, <2>1, <2>3 DEF UninstallGate, Still, ShutPC, ScopePC
      <3> QED
        BY <3>1, StillIsExact DEF GateStaysShut, Still
    <2> QED
      BY <2>2, <2>3
  <1>4. CASE ReopenGate(t)
    <2>1. m = HostModule /\ gate[m] = Closed
      BY <1>4 DEF ReopenGate, Control, UninstallsHost, UninstallPC, GateStaysShut, ShutPC
    <2> QED
      BY <1>4, <2>1, TurnedGate DEF ReopenGate, LockedPC, ShutPC
  <1> QED
    BY <1>1, <1>2, <1>3, <1>4

-----------------------------------------------------------------------------
(* The invariant and the theorems.                                         *)

LEMMA GateInit == Init => GateInv
  <1> SUFFICES ASSUME Init PROVE GateInv
    OBVIOUS
  <1> USE GateAssumption DEF GateAssumption, Init
  <1>1. TypeOK
    <2>1. 0 \in Counter /\ Closed \in Counter /\ 0 \in 0 .. MaxDepth
      BY DEF Counter
    <2>2. pc \in [Thread -> {"idle"}]
      OBVIOUS
    <2>3. NoJob \in [module : Module, owner : Pointer, install : BOOLEAN]
      BY DEF NoJob, Pointer
    <2>4. job \in [Thread -> [module : Module, owner : Pointer, install : BOOLEAN]]
      BY <2>3
    <2>5. depth \in [Thread -> [Module -> 0 .. MaxDepth]] /\ objects \in [Module -> Nat]
      BY <2>1
    <2> QED
      BY <2>1, <2>2, <2>4, <2>5 DEF TypeOK, Pointer
  <1>2. Control /\ GateStaysShut
    BY DEF Control, UninstallsHost, LockIsExclusive, ScopeIsFresh, GateStaysShut,
           UninstallPC, LockedPC, ShutPC
  <1>3. ASSUME NEW m \in Module PROVE gate[m] = Closed /\ Pins(m) = 0
    <2>1. ScopePins(m) = {} /\ TransitPins(m) = {}
      BY DEF ScopePins, TransitPins, ScopePC
    <2>2. objects[m] = 0 /\ gate[m] = Closed
      OBVIOUS
    <2> QED
      BY <2>1, <2>2, FS_EmptySet DEF Pins
  <1>4. GateIsExact
    BY <1>3 DEF GateIsExact
  <1> QED
    BY <1>1, <1>2, <1>4 DEF GateInv

LEMMA GateStep == GateInv /\ [Next]_vars => GateInv'
  <1> SUFFICES ASSUME GateInv, [Next]_vars PROVE GateInv'
    OBVIOUS
  <1> USE DEF GateInv
  <1>1. ASSUME NEW t \in Thread, ScopeStep(t) PROVE GateInv'
    BY <1>1, ScopeTypes, ScopeControls, ScopeExact
  <1>2. ASSUME NEW t \in Thread, ReaderStep(t) PROVE GateInv'
    BY <1>2, ReaderTypes, ReaderControls, ReaderStill, StillIsExact
  <1>3. ASSUME NEW t \in Thread, RegisterStep(t) PROVE GateInv'
    <2>1. TypeOK' /\ Control'
      BY <1>3, RegisterTypes, RegisterControls
    <2>2. CASE RegisterOpen(t)
      BY <2>1, <2>2, TurnExact
    <2>3. CASE ~RegisterOpen(t)
      BY <1>3, <2>1, <2>3, RegisterStill, StillIsExact
    <2> QED
      BY <2>2, <2>3
  <1>4. ASSUME NEW t \in Thread, UnregisterStep(t) PROVE GateInv'
    <2>1. TypeOK' /\ Control'
      BY <1>4, UnregisterTypes, UnregisterControls
    <2>2. CASE UnregisterClose(t)
      BY <2>1, <2>2, TurnExact
    <2>3. CASE ~UnregisterClose(t)
      BY <1>4, <2>1, <2>3, UnregisterStill, StillIsExact
    <2> QED
      BY <2>2, <2>3
  <1>5. ASSUME NEW t \in Thread, InstallStep(t) PROVE GateInv'
    BY <1>5, InstallTypes, InstallControls, InstallStill, StillIsExact
  <1>6. ASSUME NEW t \in Thread, UninstallStep(t) PROVE GateInv'
    <2>1. TypeOK' /\ Control'
      BY <1>6, UninstallTypes, UninstallControls
    <2>2. CASE UninstallGate(t) \/ ReopenGate(t)
      BY <2>1, <2>2, TurnExact
    <2>3. CASE ~(UninstallGate(t) \/ ReopenGate(t))
      BY <1>6, <2>1, <2>3, UninstallStill, StillIsExact
    <2> QED
      BY <2>2, <2>3
  <1>7. CASE UNCHANGED vars
    <2> USE <1>7 DEF vars, gates, owners, locals, MyModule
    <2>1. TypeOK'
      BY DEF TypeOK
    <2>2. Control' /\ GateStaysShut'
      BY DEF Control, UninstallsHost, LockIsExclusive, ScopeIsFresh, GateStaysShut
    <2>3. \A m \in Module : Pins(m)' = Pins(m)
      BY DEF Pins, ScopePins, TransitPins
    <2>4. GateIsExact'
      BY <2>3 DEF GateIsExact
    <2> QED
      BY <2>1, <2>2, <2>4
  <1> QED
    BY <1>1, <1>2, <1>3, <1>4, <1>5, <1>6, <1>7 DEF Next

\* The invariant from which the other theorems follow.
THEOREM GateInvariant == Spec => []GateInv
  BY GateInit, GateStep, PTL DEF Spec

\* The gates, the counters and the threads keep their types (Failure.cpp:40-95).
THEOREM GateTypes == Spec => []TypeOK
  <1>1. GateInv => TypeOK
    BY DEF GateInv
  <1> QED
    BY <1>1, GateInvariant, PTL

\* Every open gate counts exactly the scopes and objects of its module, for any
\* number of threads and modules, and a closed one has none: no pin is counted
\* into the Closed bit or back through it (Failure.cpp:97-107, 449-522, 613-627).
THEOREM PinsAreCounted == Spec => []GateCountsPins
  <1>1. GateInv => GateCountsPins
    BY DEF GateInv, GateIsExact, GateCountsPins, Pins
  <1> QED
    BY <1>1, GateInvariant, PTL

-----------------------------------------------------------------------------
(***************************************************************************)
(* The storage of the failure service: what is pinned, attached or         *)
(* obtained by a handler is never freed under its user (OwnersInUseLive).  *)
(*                                                                         *)
(* An owner is freed by the one thread that holds it, after its Install    *)
(* was rolled back or after an Uninstall (Ownership).  Its registrations   *)
(* count the modules registered with it, and Closed on top while an        *)
(* Uninstall of it is under way (Counted); so that Uninstall goes on from  *)
(* one registration only, which is the host's, for an owner that is        *)
(* installed stays the host's services (Installed), and when the storage   *)
(* is freed no module is registered with it (Kept).  A pin holds a gate    *)
(* open, an open gate serves its module (Serving), and a module is served  *)
(* by an owner it is registered with: whatever is pinned is allocated.  A  *)
(* scope keeps its services because they change at closed gates only       *)
(* (Scopes).                                                               *)
(*                                                                         *)
(* The second half is about the readers and about rest (RestIsConsistent). *)
(* processReaders counts the handlers that read, with Closed on top where  *)
(* it is shut (ReadersCounted); but the rollback of a failed Install       *)
(* stores Closed whatever the count is.  So either no thread enters a      *)
(* handler that was replaced (~LateHandler), or Install is never rolled    *)
(* back, which takes one installer only (OneInstaller): Orderly.           *)
(***************************************************************************)

(* The inductive invariant behind OwnersInUseLive.                         *)

\* Which operation a thread is in, and for whom.
Jobs ==
  \A t \in Thread :
    /\ pc[t] \in InstallPC => ForInstall(t)
    /\ ForInstall(t) => /\ pc[t] \in InstallPC \cup RegisterPC
                        /\ MyModule(t) = HostModule
                        /\ MyOwner(t) \in Owner
                        /\ hooks[t] = None
    /\ pc[t] \in RegisterPC => MyOwner(t) \in Owner
    /\ pc[t] \in UnregisterPC => /\ attached[t][MyModule(t)] # None
                                 /\ MyOwner(t) = attached[t][MyModule(t)]
    /\ pc[t] \in UninstallPC \ {"uClear"} => hooks[t] # None /\ MyOwner(t) = hooks[t]

\* The owner that a thread has installed, is installing or has failed to install.
Holds(t) == IF ForInstall(t) THEN MyOwner(t) ELSE hooks[t]

\* An owner has one thread that will free it, and processOwner is such an owner.
Ownership ==
  /\ \A t \in Thread : Holds(t) # None => /\ Holds(t) \in live
                                          /\ processOwner = Holds(t) <=> pc[t] \notin {"iFree", "uFree"}
  /\ \A t, u \in Thread : Holds(t) # None /\ Holds(t) = Holds(u) => t = u
  /\ processOwner # None => processOwner \in live

\* What each stage knows of its module's services: they are published under
\* moduleUpdate, and taken back from a closed gate only.
Serving ==
  /\ \A t \in Thread :
       /\ pc[t] \in {"rRetain", "rServices"} => services[MyModule(t)] = None
       /\ pc[t] \in {"rGate", "rClear"} => services[MyModule(t)] = MyOwner(t)
       /\ pc[t] \in {"dGate", "dServices"} => services[MyModule(t)] = MyOwner(t)
       /\ pc[t] \in {"dRelease", "dClear"} => services[MyModule(t)] = None
       /\ pc[t] \in {"uReaders", "uServices", "uReopenReaders", "uReopenGate"} => services[HostModule] = MyOwner(t)
       /\ pc[t] \in {"uRelease", "uHandlers", "uOwner", "uFree"} => services[HostModule] = None
       /\ pc[t] \in {"dServices", "uServices"} => gate[MyModule(t)] = Closed
  /\ \A m \in Module : gate[m] < Closed => services[m] # None

\* The host's services are those of the owner that is installed.
Installed ==
  \A t \in Thread :
    /\ hooks[t] # None /\ pc[t] \notin {"uRelease", "uHandlers", "uOwner", "uFree"} => services[HostModule] = hooks[t]
    /\ pc[t] = "iHandlers" => services[HostModule] = MyOwner(t)

\* A module is attached by one thread, the host's by none, and what is
\* attached is served until its Detach takes it back.
Attachments ==
  /\ \A t \in Thread : attached[t][HostModule] = None
  /\ \A t, u \in Thread, m \in Module : attached[t][m] # None /\ attached[u][m] # None => t = u
  /\ \A t \in Thread, m \in Module :
       attached[t][m] # None => \/ services[m] = attached[t][m]
                                \/ pc[t] \in {"dRelease", "dClear"} /\ MyModule(t) = m
  /\ \A t \in Thread : pc[t] \in {"rRetain", "rServices", "rGate", "rClear"} =>
       /\ ForInstall(t) \/ MyModule(t) # HostModule
       /\ \A u \in Thread : attached[u][MyModule(t)] = None

\* A module is registered with an owner that is installed and stays so.
Registering ==
  \A t \in Thread : pc[t] \in RegisterPC /\ ~ForInstall(t) =>
    \E i \in Thread : hooks[i] = MyOwner(t) /\ pc[i] \notin UninstallPC

\* A scope keeps the services it entered with.
Scopes == \A t \in Thread, m \in Module : depth[t][m] > 0 => scope[t][m] = services[m]

\* A module is registered with an owner from RegisterModule's Retain until the
\* release of UnregisterModule or Uninstall; in between it is served, except
\* while one of them has retained and not yet published, or taken back and not
\* yet released.
Registers(t, o, m) ==
  pc[t] \in {"rServices", "dRelease", "uRelease"} /\ MyModule(t) = m /\ MyOwner(t) = o
RegisteredWith(o) == {m \in Module : services[m] = o \/ \E t \in Thread : Registers(t, o, m)}

\* An Uninstall has shut the registrations of o and not reopened them.
Uninstalling(t) == pc[t] \in UninstallPC \ {"uClear"}
Leaving(o) == \E t \in Thread : hooks[t] = o /\ Uninstalling(t)

\* ProcessState.registrations is what its name says.
Counted ==
  \A o \in live :
    /\ Cardinality(RegisteredWith(o)) < Closed
    /\ registrations[o] = Cardinality(RegisteredWith(o)) + IF Leaving(o) THEN Closed ELSE 0

\* An Install whose owner no module serves yet (or any more), an Uninstall that
\* has not been refused, and one that has released the host's registration.
Unserved(t) == ForInstall(t) /\ pc[t] \notin {"rServices", "rGate", "rClear", "iHandlers"}
HostOnly(t) == pc[t] \in {"uUpdate", "uGate", "uReaders", "uServices", "uRelease"}
Released(t) == pc[t] \in {"uHandlers", "uOwner", "uFree"}

\* Nothing is registered with what is freed or about to be freed.
Kept ==
  \A o \in Owner :
    /\ o \notin live => RegisteredWith(o) = {}
    /\ \A t \in Thread : MyOwner(t) = o =>
         /\ Unserved(t) => RegisteredWith(o) = {}
         /\ HostOnly(t) => RegisteredWith(o) = {HostModule}
         /\ Released(t) => RegisteredWith(o) = {}

\* A handler that has acquired processReaders.
Reads(t) == pc[t] \in {"reader", "dispatch", "failed"}

GateSteps == RegisterPC \cup UnregisterPC \cup InstallPC \cup UninstallPC

\* What scopes, objects and readers leave alone.
Aside(t) ==
  /\ UNCHANGED <<services, update, registrations, processOwner, live, hooks, handler, attached>>
  /\ pc[t] \notin GateSteps /\ pc'[t] \notin GateSteps
  /\ \A u \in Thread \ {t} : pc'[u] = pc[u] /\ job'[u] = job[u]
  /\ job'[t].install => job'[t] = job[t]

\* No gate is opened or closed.
GatesStay == \A m \in Module : IF gate[m] < Closed THEN gate'[m] < Closed ELSE gate'[m] = gate[m]

-----------------------------------------------------------------------------
(* Scopes, objects and readers.                                            *)

\* A gate that has a pin is open.
LEMMA CountedIsOpen ==
  ASSUME GateInv, NEW m \in Module, ScopePins(m) # {} \/ TransitPins(m) # {} \/ objects[m] > 0
  PROVE  gate[m] < Closed /\ gate[m] > 0
  <1>1. /\ IsFiniteSet(ScopePins(m)) /\ Cardinality(ScopePins(m)) \in Nat
        /\ IsFiniteSet(TransitPins(m)) /\ Cardinality(TransitPins(m)) \in Nat
    BY PinSets DEF GateInv
  <1>2. objects[m] \in Nat /\ gate[m] \in Nat
    BY GateAssumption DEF GateInv, TypeOK, Counter
  <1>3. Pins(m) > 0
    BY <1>1, <1>2, FS_EmptySet DEF Pins
  <1> QED
    BY <1>2, <1>3 DEF GateInv, GateIsExact

LEMMA PinnedIsOpen ==
  ASSUME GateInv, NEW m \in Module, NEW t \in Thread,
         depth[t][m] > 0 \/ (pc[t] \in ScopePC /\ MyModule(t) = m) \/ objects[m] > 0
  PROVE  gate[m] < Closed /\ gate[m] > 0
  <1>1. ScopePins(m) # {} \/ TransitPins(m) # {} \/ objects[m] > 0
    BY DEF ScopePins, TransitPins
  <1> QED
    BY <1>1, CountedIsOpen

LEMMA ScopeAside ==
  ASSUME GateInv, NEW t \in Thread, ScopeStep(t)
  PROVE  /\ Aside(t) /\ GatesStay
         /\ UNCHANGED <<processReaders, reader>> /\ pc[t] \notin ReaderPC /\ pc'[t] \notin ReaderPC
  <1> USE GateAssumption DEF GateInv
  <1>1. ASSUME NEW m \in Module PROVE IF gate[m] < Closed THEN gate'[m] < Closed ELSE gate'[m] = gate[m]
    <2>1. /\ gate[m] \in Nat /\ \A x \in Module : gate[x] \in Nat
          /\ gate \in [Module -> Counter] /\ MyModule(t) \in Module
      BY DEF TypeOK, Counter, MyModule
    <2>2. CASE Unpin(t)
      BY <2>1, <2>2, PinnedIsOpen DEF Unpin, Goto, ScopePC, Drop, gates
    <2>3. ASSUME NEW x \in Module, DestroyObject(t, x) PROVE IF gate[m] < Closed THEN gate'[m] < Closed ELSE gate'[m] = gate[m]
      BY <2>1, <2>3, PinnedIsOpen DEF DestroyObject, Drop
    <2>4. ASSUME NEW x \in Module, AcquireModule(t, x, "scope") \/ AcquireModule(t, x, "object")
          PROVE  IF gate[m] < Closed THEN gate'[m] < Closed ELSE gate'[m] = gate[m]
      <3>1. gate[x] \in Nat /\ Closed \in Nat
        BY <2>1
      <3>2. gate[x] < Closed - 1 /\ gate' = [gate EXCEPT ![x] = gate[x] + 1]
        BY <2>4 DEF AcquireModule, IsOpen
      <3> HIDE DEF GateInv
      <3> QED
        BY <2>1, <3>1, <3>2
    <2>5. CASE UNCHANGED gate
      BY <2>5
    <2> QED
      BY <2>2, <2>3, <2>4, <2>5 DEF ScopeStep, EnterScope, MakeObject, OuterScope, NestedScope, LeaveInner,
         LeaveOuter, BeginObject, gates
  <1>2. /\ UNCHANGED <<services, update, registrations, processOwner, live, hooks, handler, attached>>
        /\ pc[t] \notin GateSteps /\ pc'[t] \notin GateSteps
        /\ \A u \in Thread \ {t} : pc'[u] = pc[u] /\ job'[u] = job[u]
        /\ job'[t].install => job'[t] = job[t]
        /\ UNCHANGED <<processReaders, reader>> /\ pc[t] \notin ReaderPC /\ pc'[t] \notin ReaderPC
    BY DEF TypeOK, ScopeStep, EnterScope, Unpin, MakeObject, OuterScope, NestedScope, LeaveInner, LeaveOuter,
       BeginObject, DestroyObject, AcquireModule, Start, Goto, NoJob, gates, owners, locals, GateSteps,
       ScopePC, ReaderPC, RegisterPC, UnregisterPC, InstallPC, UninstallPC
  <1> QED
    BY <1>1, <1>2 DEF Aside, GatesStay

LEMMA ReaderAside ==
  ASSUME TypeOK, NEW t \in Thread, ReaderStep(t)
  PROVE  Aside(t) /\ GatesStay /\ UNCHANGED <<gate, depth, scope>>
BY DEF Aside, GatesStay, TypeOK, ReaderStep, FetchHandler, AcquireReader, ReadOwner, Goto, NoJob, gates, owners, locals, GateSteps,
       ScopePC, ReaderPC, RegisterPC, UnregisterPC, InstallPC, UninstallPC

-----------------------------------------------------------------------------
(* Jobs: what each step leaves true of the threads' operations.            *)

LEMMA AsideJobs ==
  ASSUME TypeOK, Control, Jobs, NEW t \in Thread, Aside(t)
  PROVE  Jobs'
BY GateAssumption DEF Aside, GateSteps, Jobs, Control, UninstallsHost, TypeOK, gates, owners,
       locals, Pointer, NoJob, Goto, Start, MyModule, MyOwner, ForInstall, RegisterPC,
       UnregisterPC, InstallPC, UninstallPC

LEMMA RegisterJobs ==
  ASSUME TypeOK, Control, Jobs, NEW t \in Thread, RegisterStep(t)
  PROVE  Jobs'
  <1> USE GateAssumption DEF Jobs, Control, UninstallsHost, TypeOK, gates, owners, locals,
      Pointer, NoJob, Goto, Start, MyModule, MyOwner, ForInstall, RegisterPC, UnregisterPC,
      InstallPC, UninstallPC
  <1>1. ASSUME NEW m \in Module, NEW i \in Installer, Attach(t, m, i) PROVE Jobs'
    BY <1>1 DEF Attach
  <1>2. CASE RegisterLock(t)
    BY <1>2 DEF RegisterLock
  <1>3. CASE RegisterCheck(t)
    BY <1>3 DEF RegisterCheck
  <1>4. CASE RegisterRetain(t)
    BY <1>4 DEF RegisterRetain
  <1>5. CASE RegisterServices(t)
    BY <1>5 DEF RegisterServices
  <1>6. CASE RegisterOpen(t)
    BY <1>6 DEF RegisterOpen
  <1>7. CASE RegisterDone(t)
    BY <1>7 DEF RegisterDone
  <1>8. CASE RegisterRefused(t)
    BY <1>8 DEF RegisterRefused
  <1> HIDE DEF Jobs
  <1> QED
    BY <1>1, <1>2, <1>3, <1>4, <1>5, <1>6, <1>7, <1>8 DEF RegisterStep

LEMMA UnregisterJobs ==
  ASSUME TypeOK, Control, Jobs, NEW t \in Thread, UnregisterStep(t)
  PROVE  Jobs'
  <1> USE GateAssumption DEF Jobs, Control, UninstallsHost, TypeOK, gates, owners, locals,
      Pointer, NoJob, Goto, Start, MyModule, MyOwner, ForInstall, RegisterPC, UnregisterPC,
      InstallPC, UninstallPC
  <1>1. ASSUME NEW m \in Module, Detach(t, m) PROVE Jobs'
    BY <1>1 DEF Detach
  <1>2. CASE UnregisterLock(t)
    BY <1>2 DEF UnregisterLock
  <1>3. CASE UnregisterCheck(t)
    BY <1>3 DEF UnregisterCheck
  <1>4. CASE UnregisterClose(t)
    BY <1>4 DEF UnregisterClose
  <1>5. CASE UnregisterServices(t)
    BY <1>5 DEF UnregisterServices
  <1>6. CASE UnregisterRelease(t)
    BY <1>6 DEF UnregisterRelease
  <1>7. CASE UnregisterDone(t)
    BY <1>7 DEF UnregisterDone
  <1>8. CASE UnregisterRefused(t)
    BY <1>8 DEF UnregisterRefused
  <1> HIDE DEF Jobs
  <1> QED
    BY <1>1, <1>2, <1>3, <1>4, <1>5, <1>6, <1>7, <1>8 DEF UnregisterStep

LEMMA InstallJobs ==
  ASSUME TypeOK, Control, Jobs, NEW t \in Thread, InstallStep(t)
  PROVE  Jobs'
  <1> USE GateAssumption DEF Jobs, Control, UninstallsHost, TypeOK, gates, owners, locals,
      Pointer, NoJob, Goto, Start, MyModule, MyOwner, ForInstall, RegisterPC, UnregisterPC,
      InstallPC, UninstallPC
  <1>1. ASSUME NEW o \in Owner, Install(t, o) PROVE Jobs'
    BY <1>1 DEF Install
  <1>2. CASE InstallReaders(t)
    BY <1>2 DEF InstallReaders
  <1>3. CASE InstallObserver(t)
    BY <1>3 DEF InstallObserver
  <1>4. CASE InstallHandlers(t)
    BY <1>4 DEF InstallHandlers
  <1>5. CASE RollbackReaders(t)
    BY <1>5 DEF RollbackReaders
  <1>6. CASE RollbackOwner(t)
    BY <1>6 DEF RollbackOwner
  <1>7. CASE FreeStaged(t)
    BY <1>7 DEF FreeStaged
  <1> HIDE DEF Jobs
  <1> QED
    BY <1>1, <1>2, <1>3, <1>4, <1>5, <1>6, <1>7 DEF InstallStep

LEMMA UninstallJobs ==
  ASSUME TypeOK, Control, Jobs, NEW t \in Thread, UninstallStep(t)
  PROVE  Jobs'
  <1> USE GateAssumption DEF Jobs, Control, UninstallsHost, TypeOK, gates, owners, locals,
      Pointer, NoJob, Goto, Start, MyModule, MyOwner, ForInstall, RegisterPC, UnregisterPC,
      InstallPC, UninstallPC
  <1>1. CASE Uninstall(t)
    BY <1>1 DEF Uninstall
  <1>2. CASE UninstallLock(t)
    BY <1>2 DEF UninstallLock
  <1>3. CASE UninstallGate(t)
    BY <1>3 DEF UninstallGate
  <1>4. CASE UninstallReaders(t)
    BY <1>4 DEF UninstallReaders
  <1>5. CASE UninstallServices(t)
    BY <1>5 DEF UninstallServices
  <1>6. CASE UninstallRelease(t)
    BY <1>6 DEF UninstallRelease
  <1>7. CASE UninstallHandlers(t)
    BY <1>7 DEF UninstallHandlers
  <1>8. CASE UninstallOwner(t)
    BY <1>8 DEF UninstallOwner
  <1>9. CASE UninstallFree(t)
    BY <1>9 DEF UninstallFree
  <1>10. CASE UninstallDone(t)
    BY <1>10 DEF UninstallDone
  <1>11. CASE ReopenReaders(t)
    BY <1>11 DEF ReopenReaders
  <1>12. CASE ReopenGate(t)
    BY <1>12 DEF ReopenGate
  <1>13. CASE ReopenRegistrations(t)
    <2>1. CASE Goto(t, "uReopen", "uClear")
      BY <1>13, <2>1 DEF ReopenRegistrations
    <2>2. CASE Goto(t, "uReopenUnlocked", "idle")
      BY <1>13, <2>2 DEF ReopenRegistrations
    <2> QED
      BY <1>13, <2>1, <2>2 DEF ReopenRegistrations
  <1> HIDE DEF Jobs
  <1> QED
    BY <1>1, <1>2, <1>3, <1>4, <1>5, <1>6, <1>7, <1>8, <1>9, <1>10, <1>11, <1>12, <1>13 DEF UninstallStep

LEMMA SameHolders ==
  ASSUME TypeOK, Jobs, NEW t \in Thread, Aside(t)
  PROVE  \A u \in Thread : /\ Holds(u)' = Holds(u)
                           /\ pc'[u] \in {"iFree", "uFree"} <=> pc[u] \in {"iFree", "uFree"}
BY DEF Aside, GateSteps, Jobs, Holds, TypeOK, MyOwner, ForInstall, MyModule, RegisterPC, InstallPC, UninstallPC

-----------------------------------------------------------------------------
(* Ownership: one thread holds an owner, and processOwner is held.         *)

LEMMA AsideOwns ==
  ASSUME TypeOK, Jobs, Ownership, NEW t \in Thread, Aside(t)
  PROVE  Ownership'
BY SameHolders DEF Ownership, Aside

LEMMA RegisterOwns ==
  ASSUME TypeOK, Jobs, Ownership, NEW t \in Thread, RegisterStep(t)
  PROVE  Ownership'
  <1> USE GateAssumption DEF Jobs, Ownership, Holds, TypeOK, gates, owners, locals, Pointer,
      NoJob, Goto, Start, MyModule, MyOwner, ForInstall, RegisterPC, UnregisterPC, InstallPC,
      UninstallPC
  <1>1. ASSUME NEW m \in Module, NEW i \in Installer, Attach(t, m, i) PROVE Ownership'
    BY <1>1 DEF Attach
  <1>2. CASE RegisterLock(t)
    BY <1>2 DEF RegisterLock
  <1>3. CASE RegisterCheck(t)
    BY <1>3 DEF RegisterCheck
  <1>4. CASE RegisterRetain(t)
    BY <1>4 DEF RegisterRetain
  <1>5. CASE RegisterServices(t)
    BY <1>5 DEF RegisterServices
  <1>6. CASE RegisterOpen(t)
    BY <1>6 DEF RegisterOpen
  <1>7. CASE RegisterDone(t)
    BY <1>7 DEF RegisterDone
  <1>8. CASE RegisterRefused(t)
    BY <1>8 DEF RegisterRefused
  <1> HIDE DEF Ownership
  <1> QED
    BY <1>1, <1>2, <1>3, <1>4, <1>5, <1>6, <1>7, <1>8 DEF RegisterStep

LEMMA UnregisterOwns ==
  ASSUME TypeOK, Jobs, Ownership, NEW t \in Thread, UnregisterStep(t)
  PROVE  Ownership'
  <1> USE GateAssumption DEF Jobs, Ownership, Holds, TypeOK, gates, owners, locals, Pointer,
      NoJob, Goto, Start, MyModule, MyOwner, ForInstall, RegisterPC, UnregisterPC, InstallPC,
      UninstallPC
  <1>1. ASSUME NEW m \in Module, Detach(t, m) PROVE Ownership'
    BY <1>1 DEF Detach
  <1>2. CASE UnregisterLock(t)
    BY <1>2 DEF UnregisterLock
  <1>3. CASE UnregisterCheck(t)
    BY <1>3 DEF UnregisterCheck
  <1>4. CASE UnregisterClose(t)
    BY <1>4 DEF UnregisterClose
  <1>5. CASE UnregisterServices(t)
    BY <1>5 DEF UnregisterServices
  <1>6. CASE UnregisterRelease(t)
    BY <1>6 DEF UnregisterRelease
  <1>7. CASE UnregisterDone(t)
    BY <1>7 DEF UnregisterDone
  <1>8. CASE UnregisterRefused(t)
    BY <1>8 DEF UnregisterRefused
  <1> HIDE DEF Ownership
  <1> QED
    BY <1>1, <1>2, <1>3, <1>4, <1>5, <1>6, <1>7, <1>8 DEF UnregisterStep

LEMMA InstallOwns ==
  ASSUME TypeOK, Jobs, Ownership, NEW t \in Thread, InstallStep(t)
  PROVE  Ownership'
  <1> USE GateAssumption DEF Jobs, Ownership, Holds, TypeOK, gates, owners, locals, Pointer,
      NoJob, Goto, Start, MyModule, MyOwner, ForInstall, RegisterPC, UnregisterPC, InstallPC,
      UninstallPC
  <1>1. ASSUME NEW o \in Owner, Install(t, o) PROVE Ownership'
    BY <1>1 DEF Install
  <1>2. CASE InstallReaders(t)
    BY <1>2 DEF InstallReaders
  <1>3. CASE InstallObserver(t)
    BY <1>3 DEF InstallObserver
  <1>4. CASE InstallHandlers(t)
    BY <1>4 DEF InstallHandlers
  <1>5. CASE RollbackReaders(t)
    BY <1>5 DEF RollbackReaders
  <1>6. CASE RollbackOwner(t)
    BY <1>6 DEF RollbackOwner
  <1>7. CASE FreeStaged(t)
    BY <1>7 DEF FreeStaged
  <1> HIDE DEF Ownership
  <1> QED
    BY <1>1, <1>2, <1>3, <1>4, <1>5, <1>6, <1>7 DEF InstallStep

LEMMA UninstallOwns ==
  ASSUME TypeOK, Jobs, Ownership, NEW t \in Thread, UninstallStep(t)
  PROVE  Ownership'
  <1> USE GateAssumption DEF Jobs, Ownership, Holds, TypeOK, gates, owners, locals, Pointer,
      NoJob, Goto, Start, MyModule, MyOwner, ForInstall, RegisterPC, UnregisterPC, InstallPC,
      UninstallPC
  <1>1. CASE Uninstall(t)
    BY <1>1 DEF Uninstall
  <1>2. CASE UninstallLock(t)
    BY <1>2 DEF UninstallLock
  <1>3. CASE UninstallGate(t)
    BY <1>3 DEF UninstallGate
  <1>4. CASE UninstallReaders(t)
    BY <1>4 DEF UninstallReaders
  <1>5. CASE UninstallServices(t)
    BY <1>5 DEF UninstallServices
  <1>6. CASE UninstallRelease(t)
    BY <1>6 DEF UninstallRelease
  <1>7. CASE UninstallHandlers(t)
    BY <1>7 DEF UninstallHandlers
  <1>8. CASE UninstallOwner(t)
    BY <1>8 DEF UninstallOwner
  <1>9. CASE UninstallFree(t)
    BY <1>9 DEF UninstallFree
  <1>10. CASE UninstallDone(t)
    BY <1>10 DEF UninstallDone
  <1>11. CASE ReopenReaders(t)
    BY <1>11 DEF ReopenReaders
  <1>12. CASE ReopenGate(t)
    BY <1>12 DEF ReopenGate
  <1>13. CASE ReopenRegistrations(t)
    <2>1. CASE Goto(t, "uReopen", "uClear")
      BY <1>13, <2>1 DEF ReopenRegistrations
    <2>2. CASE Goto(t, "uReopenUnlocked", "idle")
      BY <1>13, <2>2 DEF ReopenRegistrations
    <2> QED
      BY <1>13, <2>1, <2>2 DEF ReopenRegistrations
  <1> HIDE DEF Ownership
  <1> QED
    BY <1>1, <1>2, <1>3, <1>4, <1>5, <1>6, <1>7, <1>8, <1>9, <1>10, <1>11, <1>12, <1>13 DEF UninstallStep

-----------------------------------------------------------------------------
(* Serving: services are published and taken back at closed gates.         *)

LEMMA AsideServes ==
  ASSUME GateInv, Jobs, Serving, NEW t \in Thread, Aside(t), GatesStay
  PROVE  Serving'
  <1> USE GateAssumption DEF Aside, GateSteps, Serving, MyModule, MyOwner
  <1>1. ASSUME NEW u \in Thread, pc'[u] \in GateSteps PROVE pc'[u] = pc[u] /\ job'[u] = job[u] /\ MyModule(u) \in Module
    BY <1>1 DEF GateInv, TypeOK
  <1>2. ASSUME NEW m \in Module PROVE /\ gate'[m] < Closed => gate[m] < Closed
                                      /\ gate[m] = Closed => gate'[m] = Closed
    BY DEF GatesStay, GateInv, GateIsExact
  <1> QED
    BY <1>1, <1>2 DEF RegisterPC, UnregisterPC, UninstallPC

LEMMA RegisterServes ==
  ASSUME GateInv, Jobs, Serving, NEW t \in Thread, RegisterStep(t)
  PROVE  Serving'
  <1> USE GateAssumption DEF Jobs, Serving, GateInv, Control, LockIsExclusive,
      UninstallsHost, LockedPC, GateStaysShut, ShutPC, TypeOK, gates, owners, locals,
      Pointer, NoJob, Goto, Start, MyModule, MyOwner, ForInstall, RegisterPC, UnregisterPC,
      InstallPC, UninstallPC
  <1>1. ASSUME NEW m \in Module, NEW i \in Installer, Attach(t, m, i) PROVE Serving'
    BY <1>1 DEF Attach
  <1>2. CASE RegisterLock(t)
    BY <1>2 DEF RegisterLock
  <1>3. CASE RegisterCheck(t)
    BY <1>3 DEF RegisterCheck
  <1>4. CASE RegisterRetain(t)
    BY <1>4 DEF RegisterRetain
  <1>5. CASE RegisterServices(t)
    BY <1>5 DEF RegisterServices
  <1>6. CASE RegisterOpen(t)
    BY <1>6 DEF RegisterOpen
  <1>7. CASE RegisterDone(t)
    BY <1>7 DEF RegisterDone
  <1>8. CASE RegisterRefused(t)
    BY <1>8 DEF RegisterRefused
  <1> HIDE DEF Serving
  <1> QED
    BY <1>1, <1>2, <1>3, <1>4, <1>5, <1>6, <1>7, <1>8 DEF RegisterStep

LEMMA UnregisterServes ==
  ASSUME GateInv, Jobs, Serving, NEW t \in Thread, UnregisterStep(t)
  PROVE  Serving'
  <1> USE GateAssumption DEF Jobs, Serving, GateInv, Control, LockIsExclusive,
      UninstallsHost, LockedPC, GateStaysShut, ShutPC, TypeOK, gates, owners, locals,
      Pointer, NoJob, Goto, Start, MyModule, MyOwner, ForInstall, RegisterPC, UnregisterPC,
      InstallPC, UninstallPC
  <1>1. ASSUME NEW m \in Module, Detach(t, m) PROVE Serving'
    BY <1>1 DEF Detach
  <1>2. CASE UnregisterLock(t)
    BY <1>2 DEF UnregisterLock
  <1>3. CASE UnregisterCheck(t)
    BY <1>3 DEF UnregisterCheck
  <1>4. CASE UnregisterClose(t)
    BY <1>4 DEF UnregisterClose
  <1>5. CASE UnregisterServices(t)
    BY <1>5 DEF UnregisterServices
  <1>6. CASE UnregisterRelease(t)
    BY <1>6 DEF UnregisterRelease
  <1>7. CASE UnregisterDone(t)
    BY <1>7 DEF UnregisterDone
  <1>8. CASE UnregisterRefused(t)
    BY <1>8 DEF UnregisterRefused
  <1> HIDE DEF Serving
  <1> QED
    BY <1>1, <1>2, <1>3, <1>4, <1>5, <1>6, <1>7, <1>8 DEF UnregisterStep

LEMMA InstallServes ==
  ASSUME GateInv, Jobs, Serving, NEW t \in Thread, InstallStep(t)
  PROVE  Serving'
  <1> USE GateAssumption DEF Jobs, Serving, GateInv, Control, LockIsExclusive,
      UninstallsHost, LockedPC, GateStaysShut, ShutPC, TypeOK, gates, owners, locals,
      Pointer, NoJob, Goto, Start, MyModule, MyOwner, ForInstall, RegisterPC, UnregisterPC,
      InstallPC, UninstallPC
  <1>1. ASSUME NEW o \in Owner, Install(t, o) PROVE Serving'
    BY <1>1 DEF Install
  <1>2. CASE InstallReaders(t)
    BY <1>2 DEF InstallReaders
  <1>3. CASE InstallObserver(t)
    BY <1>3 DEF InstallObserver
  <1>4. CASE InstallHandlers(t)
    BY <1>4 DEF InstallHandlers
  <1>5. CASE RollbackReaders(t)
    BY <1>5 DEF RollbackReaders
  <1>6. CASE RollbackOwner(t)
    BY <1>6 DEF RollbackOwner
  <1>7. CASE FreeStaged(t)
    BY <1>7 DEF FreeStaged
  <1> HIDE DEF Serving
  <1> QED
    BY <1>1, <1>2, <1>3, <1>4, <1>5, <1>6, <1>7 DEF InstallStep

LEMMA UninstallServes ==
  ASSUME GateInv, Jobs, Serving, NEW t \in Thread, UninstallStep(t)
  PROVE  Serving'
  <1> USE GateAssumption DEF Jobs, Serving, GateInv, Control, LockIsExclusive,
      UninstallsHost, LockedPC, GateStaysShut, ShutPC, TypeOK, gates, owners, locals,
      Pointer, NoJob, Goto, Start, MyModule, MyOwner, ForInstall, RegisterPC, UnregisterPC,
      InstallPC, UninstallPC
  <1>1. CASE Uninstall(t)
    BY <1>1 DEF Uninstall
  <1>2. CASE UninstallLock(t)
    BY <1>2 DEF UninstallLock
  <1>3. CASE UninstallGate(t)
    BY <1>3 DEF UninstallGate
  <1>4. CASE UninstallReaders(t)
    BY <1>4 DEF UninstallReaders
  <1>5. CASE UninstallServices(t)
    BY <1>5 DEF UninstallServices
  <1>6. CASE UninstallRelease(t)
    BY <1>6 DEF UninstallRelease
  <1>7. CASE UninstallHandlers(t)
    BY <1>7 DEF UninstallHandlers
  <1>8. CASE UninstallOwner(t)
    BY <1>8 DEF UninstallOwner
  <1>9. CASE UninstallFree(t)
    BY <1>9 DEF UninstallFree
  <1>10. CASE UninstallDone(t)
    BY <1>10 DEF UninstallDone
  <1>11. CASE ReopenReaders(t)
    BY <1>11 DEF ReopenReaders
  <1>12. CASE ReopenGate(t)
    BY <1>12, SMTT(20) DEF ReopenGate
  <1>13. CASE ReopenRegistrations(t)
    <2>1. CASE Goto(t, "uReopen", "uClear")
      BY <1>13, <2>1 DEF ReopenRegistrations
    <2>2. CASE Goto(t, "uReopenUnlocked", "idle")
      BY <1>13, <2>2 DEF ReopenRegistrations
    <2> QED
      BY <1>13, <2>1, <2>2 DEF ReopenRegistrations
  <1> HIDE DEF Serving
  <1> QED
    BY <1>1, <1>2, <1>3, <1>4, <1>5, <1>6, <1>7, <1>8, <1>9, <1>10, <1>11, <1>12, <1>13 DEF UninstallStep

LEMMA RegisteringStays ==
  ASSUME Registering, NEW t \in Thread,
         \A u \in Thread \ {t} : pc'[u] = pc[u] /\ job'[u] = job[u],
         pc'[t] \in RegisterPC /\ ~job'[t].install => pc[t] \in RegisterPC /\ job'[t] = job[t],
         \A i \in Thread : hooks[i] # None /\ pc[i] \notin UninstallPC =>
                             hooks'[i] = hooks[i] /\ pc'[i] \notin UninstallPC,
         Jobs
  PROVE  Registering'
  <1>1. ASSUME NEW u \in Thread, pc'[u] \in RegisterPC, ~job'[u].install
        PROVE  \E i \in Thread : hooks'[i] = job'[u].owner /\ pc'[i] \notin UninstallPC
    <2>1. pc[u] \in RegisterPC /\ job'[u] = job[u]
      BY <1>1
    <2>2. MyOwner(u) # None
      BY <2>1, GateAssumption DEF Jobs
    <2>3. PICK i \in Thread : hooks[i] = MyOwner(u) /\ pc[i] \notin UninstallPC
      BY <1>1, <2>1 DEF Registering, ForInstall
    <2> QED
      BY <2>1, <2>2, <2>3 DEF MyOwner
  <1> QED
    BY <1>1 DEF Registering, MyOwner, ForInstall

\* An owner that is installed or being installed is so by one thread.
LEMMA OneHolder ==
  ASSUME Jobs, Ownership, NEW t \in Thread, NEW u \in Thread, hooks[t] # None,
         hooks[u] = hooks[t] \/ (ForInstall(u) /\ MyOwner(u) = hooks[t])
  PROVE  u = t
BY DEF Jobs, Ownership, Holds

-----------------------------------------------------------------------------
(* Registering: the caller of Attach keeps the owner installed.            *)

LEMMA AsideRegisters ==
  ASSUME TypeOK, Control, Jobs, Ownership, Registering, NEW t \in Thread, Aside(t)
  PROVE  Registering'
BY RegisteringStays DEF Aside, GateSteps

LEMMA RegisterRegisters ==
  ASSUME TypeOK, Control, Jobs, Ownership, Registering, NEW t \in Thread, RegisterStep(t)
  PROVE  Registering'
  <1> USE GateAssumption DEF Jobs, Ownership, Holds, Control, UninstallsHost, Registering,
      TypeOK, gates, owners, locals, Pointer, NoJob, Goto, Start, MyModule, MyOwner,
      ForInstall, RegisterPC, UnregisterPC, InstallPC, UninstallPC
  <1>1. ASSUME NEW m \in Module, NEW i \in Installer, Attach(t, m, i) PROVE Registering'
    BY <1>1 DEF Attach
  <1>2. CASE RegisterLock(t)
    BY <1>2 DEF RegisterLock
  <1>3. CASE RegisterCheck(t)
    BY <1>3 DEF RegisterCheck
  <1>4. CASE RegisterRetain(t)
    BY <1>4 DEF RegisterRetain
  <1>5. CASE RegisterServices(t)
    BY <1>5 DEF RegisterServices
  <1>6. CASE RegisterOpen(t)
    BY <1>6 DEF RegisterOpen
  <1>7. CASE RegisterDone(t)
    BY <1>7 DEF RegisterDone
  <1>8. CASE RegisterRefused(t)
    BY <1>8 DEF RegisterRefused
  <1> HIDE DEF Registering
  <1> QED
    BY <1>1, <1>2, <1>3, <1>4, <1>5, <1>6, <1>7, <1>8 DEF RegisterStep

LEMMA UnregisterRegisters ==
  ASSUME TypeOK, Control, Jobs, Ownership, Registering, NEW t \in Thread, UnregisterStep(t)
  PROVE  Registering'
  <1> USE GateAssumption DEF Jobs, Ownership, Holds, Control, UninstallsHost, Registering,
      TypeOK, gates, owners, locals, Pointer, NoJob, Goto, Start, MyModule, MyOwner,
      ForInstall, RegisterPC, UnregisterPC, InstallPC, UninstallPC
  <1>1. ASSUME NEW m \in Module, Detach(t, m) PROVE Registering'
    BY <1>1 DEF Detach
  <1>2. CASE UnregisterLock(t)
    BY <1>2 DEF UnregisterLock
  <1>3. CASE UnregisterCheck(t)
    BY <1>3 DEF UnregisterCheck
  <1>4. CASE UnregisterClose(t)
    BY <1>4 DEF UnregisterClose
  <1>5. CASE UnregisterServices(t)
    BY <1>5 DEF UnregisterServices
  <1>6. CASE UnregisterRelease(t)
    BY <1>6 DEF UnregisterRelease
  <1>7. CASE UnregisterDone(t)
    BY <1>7 DEF UnregisterDone
  <1>8. CASE UnregisterRefused(t)
    BY <1>8 DEF UnregisterRefused
  <1> HIDE DEF Registering
  <1> QED
    BY <1>1, <1>2, <1>3, <1>4, <1>5, <1>6, <1>7, <1>8 DEF UnregisterStep

LEMMA InstallRegisters ==
  ASSUME TypeOK, Control, Jobs, Ownership, Registering, NEW t \in Thread, InstallStep(t)
  PROVE  Registering'
  <1> USE GateAssumption DEF Jobs, Ownership, Holds, Control, UninstallsHost, Registering,
      TypeOK, gates, owners, locals, Pointer, NoJob, Goto, Start, MyModule, MyOwner,
      ForInstall, RegisterPC, UnregisterPC, InstallPC, UninstallPC
  <1>1. ASSUME NEW o \in Owner, Install(t, o) PROVE Registering'
    BY <1>1 DEF Install
  <1>2. CASE InstallReaders(t)
    BY <1>2 DEF InstallReaders
  <1>3. CASE InstallObserver(t)
    BY <1>3 DEF InstallObserver
  <1>4. CASE InstallHandlers(t)
    BY <1>4 DEF InstallHandlers
  <1>5. CASE RollbackReaders(t)
    BY <1>5 DEF RollbackReaders
  <1>6. CASE RollbackOwner(t)
    BY <1>6 DEF RollbackOwner
  <1>7. CASE FreeStaged(t)
    BY <1>7 DEF FreeStaged
  <1> HIDE DEF Registering
  <1> QED
    BY <1>1, <1>2, <1>3, <1>4, <1>5, <1>6, <1>7 DEF InstallStep

LEMMA UninstallRegisters ==
  ASSUME TypeOK, Control, Jobs, Ownership, Registering, NEW t \in Thread, UninstallStep(t)
  PROVE  Registering'
  <1> USE GateAssumption DEF Jobs, Ownership, Holds, Control, UninstallsHost, Registering,
      TypeOK, gates, owners, locals, Pointer, NoJob, Goto, Start, MyModule, MyOwner,
      ForInstall, RegisterPC, UnregisterPC, InstallPC, UninstallPC
  <1>1. CASE Uninstall(t)
    BY <1>1 DEF Uninstall
  <1>2. CASE UninstallLock(t)
    <2>1. /\ pc[t] \in UninstallPC /\ pc'[t] \notin RegisterPC
          /\ \A u \in Thread \ {t} : pc'[u] = pc[u] /\ job'[u] = job[u]
          /\ \A u \in Thread \ {t} : hooks'[u] = hooks[u]
      BY <1>2 DEF UninstallLock
    <2> HIDE DEF Jobs, Registering, Ownership
    <2> QED
      BY <2>1, RegisteringStays
  <1>3. CASE UninstallGate(t)
    <2>1. /\ pc[t] \in UninstallPC /\ pc'[t] \notin RegisterPC
          /\ \A u \in Thread \ {t} : pc'[u] = pc[u] /\ job'[u] = job[u]
          /\ \A u \in Thread \ {t} : hooks'[u] = hooks[u]
      BY <1>3 DEF UninstallGate
    <2> HIDE DEF Jobs, Registering, Ownership
    <2> QED
      BY <2>1, RegisteringStays
  <1>4. CASE UninstallReaders(t)
    <2>1. /\ pc[t] \in UninstallPC /\ pc'[t] \notin RegisterPC
          /\ \A u \in Thread \ {t} : pc'[u] = pc[u] /\ job'[u] = job[u]
          /\ \A u \in Thread \ {t} : hooks'[u] = hooks[u]
      BY <1>4 DEF UninstallReaders
    <2> HIDE DEF Jobs, Registering, Ownership
    <2> QED
      BY <2>1, RegisteringStays
  <1>5. CASE UninstallServices(t)
    <2>1. /\ pc[t] \in UninstallPC /\ pc'[t] \notin RegisterPC
          /\ \A u \in Thread \ {t} : pc'[u] = pc[u] /\ job'[u] = job[u]
          /\ \A u \in Thread \ {t} : hooks'[u] = hooks[u]
      BY <1>5 DEF UninstallServices
    <2> HIDE DEF Jobs, Registering, Ownership
    <2> QED
      BY <2>1, RegisteringStays
  <1>6. CASE UninstallRelease(t)
    <2>1. /\ pc[t] \in UninstallPC /\ pc'[t] \notin RegisterPC
          /\ \A u \in Thread \ {t} : pc'[u] = pc[u] /\ job'[u] = job[u]
          /\ \A u \in Thread \ {t} : hooks'[u] = hooks[u]
      BY <1>6 DEF UninstallRelease
    <2> HIDE DEF Jobs, Registering, Ownership
    <2> QED
      BY <2>1, RegisteringStays
  <1>7. CASE UninstallHandlers(t)
    <2>1. /\ pc[t] \in UninstallPC /\ pc'[t] \notin RegisterPC
          /\ \A u \in Thread \ {t} : pc'[u] = pc[u] /\ job'[u] = job[u]
          /\ \A u \in Thread \ {t} : hooks'[u] = hooks[u]
      BY <1>7 DEF UninstallHandlers
    <2> HIDE DEF Jobs, Registering, Ownership
    <2> QED
      BY <2>1, RegisteringStays
  <1>8. CASE UninstallOwner(t)
    <2>1. /\ pc[t] \in UninstallPC /\ pc'[t] \notin RegisterPC
          /\ \A u \in Thread \ {t} : pc'[u] = pc[u] /\ job'[u] = job[u]
          /\ \A u \in Thread \ {t} : hooks'[u] = hooks[u]
      BY <1>8 DEF UninstallOwner
    <2> HIDE DEF Jobs, Registering, Ownership
    <2> QED
      BY <2>1, RegisteringStays
  <1>9. CASE UninstallFree(t)
    <2>1. /\ pc[t] \in UninstallPC /\ pc'[t] \notin RegisterPC
          /\ \A u \in Thread \ {t} : pc'[u] = pc[u] /\ job'[u] = job[u]
          /\ \A u \in Thread \ {t} : hooks'[u] = hooks[u]
      BY <1>9 DEF UninstallFree
    <2> HIDE DEF Jobs, Registering, Ownership
    <2> QED
      BY <2>1, RegisteringStays
  <1>10. CASE UninstallDone(t)
    BY <1>10 DEF UninstallDone
  <1>11. CASE ReopenReaders(t)
    <2>1. /\ pc[t] \in UninstallPC /\ pc'[t] \notin RegisterPC
          /\ \A u \in Thread \ {t} : pc'[u] = pc[u] /\ job'[u] = job[u]
          /\ \A u \in Thread \ {t} : hooks'[u] = hooks[u]
      BY <1>11 DEF ReopenReaders
    <2> HIDE DEF Jobs, Registering, Ownership
    <2> QED
      BY <2>1, RegisteringStays
  <1>12. CASE ReopenGate(t)
    <2>1. /\ pc[t] \in UninstallPC /\ pc'[t] \notin RegisterPC
          /\ \A u \in Thread \ {t} : pc'[u] = pc[u] /\ job'[u] = job[u]
          /\ \A u \in Thread \ {t} : hooks'[u] = hooks[u]
      BY <1>12 DEF ReopenGate
    <2> HIDE DEF Jobs, Registering, Ownership
    <2> QED
      BY <2>1, RegisteringStays
  <1>13. CASE ReopenRegistrations(t)
    <2>1. /\ pc[t] \in UninstallPC /\ pc'[t] \notin RegisterPC
          /\ \A u \in Thread \ {t} : pc'[u] = pc[u] /\ job'[u] = job[u]
          /\ \A u \in Thread \ {t} : hooks'[u] = hooks[u]
      BY <1>13 DEF ReopenRegistrations
    <2> HIDE DEF Jobs, Registering, Ownership
    <2> QED
      BY <2>1, RegisteringStays
  <1> HIDE DEF Registering
  <1> QED
    BY <1>1, <1>2, <1>3, <1>4, <1>5, <1>6, <1>7, <1>8, <1>9, <1>10, <1>11, <1>12, <1>13 DEF UninstallStep

-----------------------------------------------------------------------------
(* Attachments: one thread attaches a module, and the host is none's.      *)

LEMMA AsideAttached ==
  ASSUME GateInv, Jobs, Ownership, Serving, Installed, Registering, Attachments, NEW t \in Thread, Aside(t)
  PROVE  Attachments'
  <1> USE DEF Aside, GateSteps, Attachments
  <1>1. ASSUME NEW u \in Thread, pc'[u] \in GateSteps \/ pc[u] \in GateSteps PROVE pc'[u] = pc[u] /\ job'[u] = job[u]
    BY <1>1
  <1> QED
    BY <1>1 DEF RegisterPC, UnregisterPC, MyModule, ForInstall

LEMMA RegisterAttached ==
  ASSUME GateInv, Jobs, Ownership, Serving, Installed, Registering, Attachments,
         NEW t \in Thread, RegisterStep(t)
  PROVE  Attachments'
  <1> USE GateAssumption DEF Jobs, Ownership, Holds, Serving, Installed, Attachments,
      GateInv, Control, LockIsExclusive, UninstallsHost, LockedPC, GateStaysShut, ShutPC,
      TypeOK, gates, owners, locals, Pointer, NoJob, Goto, Start, MyModule, MyOwner,
      ForInstall, RegisterPC, UnregisterPC, InstallPC, UninstallPC
  <1>1. ASSUME NEW m \in Module, NEW i \in Installer, Attach(t, m, i) PROVE Attachments'
    <2> HIDE DEF Ownership, Serving, Installed, Jobs
    <2> QED
      BY <1>1 DEF Attach
  <1>2. CASE RegisterLock(t)
    BY <1>2 DEF RegisterLock
  <1>3. CASE RegisterCheck(t)
    <2>1. CASE services[MyModule(t)] = None
      <3>1. ForInstall(t) \/ MyModule(t) # HostModule
        <4>1. CASE ~ForInstall(t)
          <5>1. PICK i \in Thread : hooks[i] = MyOwner(t) /\ pc[i] \notin UninstallPC
            BY <1>3, <4>1 DEF RegisterCheck, Registering
          <5>2. services[HostModule] = hooks[i] /\ hooks[i] # None
            BY <1>3, <5>1 DEF RegisterCheck
          <5> QED
            BY <2>1, <5>2
        <4> QED
          BY <4>1
      <3>2. \A u \in Thread : attached[u][MyModule(t)] = None
        <4>1. ASSUME NEW u \in Thread, attached[u][MyModule(t)] # None PROVE FALSE
          <5>1. pc[u] \in {"dRelease", "dClear"} /\ MyModule(u) = MyModule(t)
            BY <1>3, <2>1, <4>1 DEF RegisterCheck
          <5>2. u = t
            BY <1>3, <5>1 DEF RegisterCheck
          <5> QED
            BY <1>3, <5>1, <5>2 DEF RegisterCheck
        <4> QED
          BY <4>1
      <3> HIDE DEF Ownership, Serving, Installed, Jobs
      <3> QED
        BY <1>3, <2>1, <3>1, <3>2 DEF RegisterCheck
    <2>2. CASE services[MyModule(t)] # None
      <3> HIDE DEF Ownership, Serving, Installed, Jobs
      <3> QED
        BY <1>3, <2>2 DEF RegisterCheck
    <2> QED
      BY <2>1, <2>2
  <1>4. CASE RegisterRetain(t)
    BY <1>4 DEF RegisterRetain
  <1>5. CASE RegisterServices(t)
    BY <1>5 DEF RegisterServices
  <1>6. CASE RegisterOpen(t)
    BY <1>6 DEF RegisterOpen
  <1>7. CASE RegisterDone(t)
    BY <1>7 DEF RegisterDone
  <1>8. CASE RegisterRefused(t)
    BY <1>8 DEF RegisterRefused
  <1> HIDE DEF Attachments
  <1> QED
    BY <1>1, <1>2, <1>3, <1>4, <1>5, <1>6, <1>7, <1>8 DEF RegisterStep

LEMMA UnregisterAttached ==
  ASSUME GateInv, Jobs, Ownership, Serving, Installed, Registering, Attachments,
         NEW t \in Thread, UnregisterStep(t)
  PROVE  Attachments'
  <1> USE GateAssumption DEF Jobs, Ownership, Holds, Serving, Installed, Attachments,
      GateInv, Control, LockIsExclusive, UninstallsHost, LockedPC, GateStaysShut, ShutPC,
      TypeOK, gates, owners, locals, Pointer, NoJob, Goto, Start, MyModule, MyOwner,
      ForInstall, RegisterPC, UnregisterPC, InstallPC, UninstallPC
  <1>1. ASSUME NEW m \in Module, Detach(t, m) PROVE Attachments'
    BY <1>1 DEF Detach
  <1>2. CASE UnregisterLock(t)
    BY <1>2 DEF UnregisterLock
  <1>3. CASE UnregisterCheck(t)
    BY <1>3 DEF UnregisterCheck
  <1>4. CASE UnregisterClose(t)
    BY <1>4 DEF UnregisterClose
  <1>5. CASE UnregisterServices(t)
    BY <1>5 DEF UnregisterServices
  <1>6. CASE UnregisterRelease(t)
    BY <1>6 DEF UnregisterRelease
  <1>7. CASE UnregisterDone(t)
    BY <1>7 DEF UnregisterDone
  <1>8. CASE UnregisterRefused(t)
    BY <1>8 DEF UnregisterRefused
  <1> HIDE DEF Attachments
  <1> QED
    BY <1>1, <1>2, <1>3, <1>4, <1>5, <1>6, <1>7, <1>8 DEF UnregisterStep

LEMMA InstallAttached ==
  ASSUME GateInv, Jobs, Ownership, Serving, Installed, Registering, Attachments,
         NEW t \in Thread, InstallStep(t)
  PROVE  Attachments'
  <1> USE GateAssumption DEF Jobs, Ownership, Holds, Serving, Installed, Attachments,
      GateInv, Control, LockIsExclusive, UninstallsHost, LockedPC, GateStaysShut, ShutPC,
      TypeOK, gates, owners, locals, Pointer, NoJob, Goto, Start, MyModule, MyOwner,
      ForInstall, RegisterPC, UnregisterPC, InstallPC, UninstallPC
  <1>1. ASSUME NEW o \in Owner, Install(t, o) PROVE Attachments'
    BY <1>1 DEF Install
  <1>2. CASE InstallReaders(t)
    BY <1>2 DEF InstallReaders
  <1>3. CASE InstallObserver(t)
    BY <1>3 DEF InstallObserver
  <1>4. CASE InstallHandlers(t)
    BY <1>4 DEF InstallHandlers
  <1>5. CASE RollbackReaders(t)
    BY <1>5 DEF RollbackReaders
  <1>6. CASE RollbackOwner(t)
    BY <1>6 DEF RollbackOwner
  <1>7. CASE FreeStaged(t)
    BY <1>7 DEF FreeStaged
  <1> HIDE DEF Attachments
  <1> QED
    BY <1>1, <1>2, <1>3, <1>4, <1>5, <1>6, <1>7 DEF InstallStep

LEMMA UninstallAttached ==
  ASSUME GateInv, Jobs, Ownership, Serving, Installed, Registering, Attachments,
         NEW t \in Thread, UninstallStep(t)
  PROVE  Attachments'
  <1> USE GateAssumption DEF Jobs, Ownership, Holds, Serving, Installed, Attachments,
      GateInv, Control, LockIsExclusive, UninstallsHost, LockedPC, GateStaysShut, ShutPC,
      TypeOK, gates, owners, locals, Pointer, NoJob, Goto, Start, MyModule, MyOwner,
      ForInstall, RegisterPC, UnregisterPC, InstallPC, UninstallPC
  <1>1. CASE Uninstall(t)
    BY <1>1 DEF Uninstall
  <1>2. CASE UninstallLock(t)
    BY <1>2 DEF UninstallLock
  <1>3. CASE UninstallGate(t)
    BY <1>3 DEF UninstallGate
  <1>4. CASE UninstallReaders(t)
    BY <1>4 DEF UninstallReaders
  <1>5. CASE UninstallServices(t)
    BY <1>5 DEF UninstallServices
  <1>6. CASE UninstallRelease(t)
    BY <1>6 DEF UninstallRelease
  <1>7. CASE UninstallHandlers(t)
    BY <1>7 DEF UninstallHandlers
  <1>8. CASE UninstallOwner(t)
    BY <1>8 DEF UninstallOwner
  <1>9. CASE UninstallFree(t)
    BY <1>9 DEF UninstallFree
  <1>10. CASE UninstallDone(t)
    BY <1>10 DEF UninstallDone
  <1>11. CASE ReopenReaders(t)
    BY <1>11 DEF ReopenReaders
  <1>12. CASE ReopenGate(t)
    BY <1>12 DEF ReopenGate
  <1>13. CASE ReopenRegistrations(t)
    <2>1. CASE Goto(t, "uReopen", "uClear")
      BY <1>13, <2>1 DEF ReopenRegistrations
    <2>2. CASE Goto(t, "uReopenUnlocked", "idle")
      BY <1>13, <2>2 DEF ReopenRegistrations
    <2> QED
      BY <1>13, <2>1, <2>2 DEF ReopenRegistrations
  <1> HIDE DEF Attachments
  <1> QED
    BY <1>1, <1>2, <1>3, <1>4, <1>5, <1>6, <1>7, <1>8, <1>9, <1>10, <1>11, <1>12, <1>13 DEF UninstallStep

-----------------------------------------------------------------------------
(* Installed: the host's services are those of the installed owner.        *)

LEMMA AsideInstalls ==
  ASSUME GateInv, Jobs, Ownership, Serving, Attachments, Installed, NEW t \in Thread, Aside(t)
  PROVE  Installed'
BY GateAssumption DEF Aside, GateSteps, Jobs, Ownership, Holds, Serving, Installed,
       Attachments, GateInv, Control, LockIsExclusive, UninstallsHost, LockedPC,
       GateStaysShut, ShutPC, TypeOK, gates, owners, locals, Pointer, NoJob, Goto, Start,
       MyModule, MyOwner, ForInstall, RegisterPC, UnregisterPC, InstallPC, UninstallPC

LEMMA RegisterInstalls ==
  ASSUME GateInv, Jobs, Ownership, Serving, Attachments, Installed, NEW t \in Thread,
         RegisterStep(t)
  PROVE  Installed'
  <1> USE GateAssumption DEF Jobs, Ownership, Holds, Serving, Installed, Attachments,
      GateInv, Control, LockIsExclusive, UninstallsHost, LockedPC, GateStaysShut, ShutPC,
      TypeOK, gates, owners, locals, Pointer, NoJob, Goto, Start, MyModule, MyOwner,
      ForInstall, RegisterPC, UnregisterPC, InstallPC, UninstallPC
  <1>1. ASSUME NEW m \in Module, NEW i \in Installer, Attach(t, m, i) PROVE Installed'
    BY <1>1 DEF Attach
  <1>2. CASE RegisterLock(t)
    BY <1>2 DEF RegisterLock
  <1>3. CASE RegisterCheck(t)
    BY <1>3 DEF RegisterCheck
  <1>4. CASE RegisterRetain(t)
    BY <1>4 DEF RegisterRetain
  <1>5. CASE RegisterServices(t)
    BY <1>5 DEF RegisterServices
  <1>6. CASE RegisterOpen(t)
    BY <1>6 DEF RegisterOpen
  <1>7. CASE RegisterDone(t)
    BY <1>7 DEF RegisterDone
  <1>8. CASE RegisterRefused(t)
    BY <1>8 DEF RegisterRefused
  <1> HIDE DEF Installed
  <1> QED
    BY <1>1, <1>2, <1>3, <1>4, <1>5, <1>6, <1>7, <1>8 DEF RegisterStep

LEMMA UnregisterInstalls ==
  ASSUME GateInv, Jobs, Ownership, Serving, Attachments, Installed, NEW t \in Thread,
         UnregisterStep(t)
  PROVE  Installed'
  <1> USE GateAssumption DEF Jobs, Ownership, Holds, Serving, Installed, Attachments,
      GateInv, Control, LockIsExclusive, UninstallsHost, LockedPC, GateStaysShut, ShutPC,
      TypeOK, gates, owners, locals, Pointer, NoJob, Goto, Start, MyModule, MyOwner,
      ForInstall, RegisterPC, UnregisterPC, InstallPC, UninstallPC
  <1>1. ASSUME NEW m \in Module, Detach(t, m) PROVE Installed'
    BY <1>1 DEF Detach
  <1>2. CASE UnregisterLock(t)
    BY <1>2 DEF UnregisterLock
  <1>3. CASE UnregisterCheck(t)
    BY <1>3 DEF UnregisterCheck
  <1>4. CASE UnregisterClose(t)
    BY <1>4 DEF UnregisterClose
  <1>5. CASE UnregisterServices(t)
    BY <1>5 DEF UnregisterServices
  <1>6. CASE UnregisterRelease(t)
    BY <1>6 DEF UnregisterRelease
  <1>7. CASE UnregisterDone(t)
    BY <1>7 DEF UnregisterDone
  <1>8. CASE UnregisterRefused(t)
    BY <1>8 DEF UnregisterRefused
  <1> HIDE DEF Installed
  <1> QED
    BY <1>1, <1>2, <1>3, <1>4, <1>5, <1>6, <1>7, <1>8 DEF UnregisterStep

LEMMA InstallInstalls ==
  ASSUME GateInv, Jobs, Ownership, Serving, Attachments, Installed, NEW t \in Thread,
         InstallStep(t)
  PROVE  Installed'
  <1> USE GateAssumption DEF Jobs, Ownership, Holds, Serving, Installed, Attachments,
      GateInv, Control, LockIsExclusive, UninstallsHost, LockedPC, GateStaysShut, ShutPC,
      TypeOK, gates, owners, locals, Pointer, NoJob, Goto, Start, MyModule, MyOwner,
      ForInstall, RegisterPC, UnregisterPC, InstallPC, UninstallPC
  <1>1. ASSUME NEW o \in Owner, Install(t, o) PROVE Installed'
    BY <1>1 DEF Install
  <1>2. CASE InstallReaders(t)
    BY <1>2 DEF InstallReaders
  <1>3. CASE InstallObserver(t)
    BY <1>3 DEF InstallObserver
  <1>4. CASE InstallHandlers(t)
    BY <1>4 DEF InstallHandlers
  <1>5. CASE RollbackReaders(t)
    BY <1>5 DEF RollbackReaders
  <1>6. CASE RollbackOwner(t)
    BY <1>6 DEF RollbackOwner
  <1>7. CASE FreeStaged(t)
    BY <1>7 DEF FreeStaged
  <1> HIDE DEF Installed
  <1> QED
    BY <1>1, <1>2, <1>3, <1>4, <1>5, <1>6, <1>7 DEF InstallStep

LEMMA UninstallInstalls ==
  ASSUME GateInv, Jobs, Ownership, Serving, Attachments, Installed, NEW t \in Thread,
         UninstallStep(t)
  PROVE  Installed'
  <1> USE GateAssumption DEF Jobs, Ownership, Holds, Serving, Installed, Attachments,
      GateInv, Control, LockIsExclusive, UninstallsHost, LockedPC, GateStaysShut, ShutPC,
      TypeOK, gates, owners, locals, Pointer, NoJob, Goto, Start, MyModule, MyOwner,
      ForInstall, RegisterPC, UnregisterPC, InstallPC, UninstallPC
  <1>1. CASE Uninstall(t)
    BY <1>1 DEF Uninstall
  <1>2. CASE UninstallLock(t)
    BY <1>2 DEF UninstallLock
  <1>3. CASE UninstallGate(t)
    BY <1>3 DEF UninstallGate
  <1>4. CASE UninstallReaders(t)
    BY <1>4 DEF UninstallReaders
  <1>5. CASE UninstallServices(t)
    <2>1. services[HostModule] = hooks[t] /\ hooks[t] # None /\ ~ForInstall(t)
      BY <1>5 DEF UninstallServices
    <2>2. ASSUME NEW u \in Thread, u # t
          PROVE  /\ hooks[u] # None => pc[u] \in {"uRelease", "uHandlers", "uOwner", "uFree"}
                 /\ pc[u] # "iHandlers"
      <3>1. hooks[u] = hooks[t] \/ (ForInstall(u) /\ MyOwner(u) = hooks[t]) => u = t
        BY <2>1, OneHolder
      <3> QED
        BY <2>1, <2>2, <3>1
    <2> HIDE DEF Jobs, Ownership, Serving, Installed, Attachments, GateInv, Control, LockIsExclusive, GateStaysShut
    <2> QED
      BY <1>5, <2>2 DEF UninstallServices, Installed, GateInv
  <1>6. CASE UninstallRelease(t)
    BY <1>6 DEF UninstallRelease
  <1>7. CASE UninstallHandlers(t)
    BY <1>7 DEF UninstallHandlers
  <1>8. CASE UninstallOwner(t)
    BY <1>8 DEF UninstallOwner
  <1>9. CASE UninstallFree(t)
    BY <1>9 DEF UninstallFree
  <1>10. CASE UninstallDone(t)
    BY <1>10 DEF UninstallDone
  <1>11. CASE ReopenReaders(t)
    BY <1>11 DEF ReopenReaders
  <1>12. CASE ReopenGate(t)
    BY <1>12 DEF ReopenGate
  <1>13. CASE ReopenRegistrations(t)
    <2>1. CASE Goto(t, "uReopen", "uClear")
      BY <1>13, <2>1 DEF ReopenRegistrations
    <2>2. CASE Goto(t, "uReopenUnlocked", "idle")
      BY <1>13, <2>2 DEF ReopenRegistrations
    <2> QED
      BY <1>13, <2>1, <2>2 DEF ReopenRegistrations
  <1> HIDE DEF Installed
  <1> QED
    BY <1>1, <1>2, <1>3, <1>4, <1>5, <1>6, <1>7, <1>8, <1>9, <1>10, <1>11, <1>12, <1>13 DEF UninstallStep

-----------------------------------------------------------------------------
(* Scopes: no step changes the services of an open gate.                   *)

LEMMA ScopesStay ==
  ASSUME GateInv, Scopes, UNCHANGED <<depth, scope>>,
         \A m \in Module : services'[m] = services[m] \/ gate[m] = Closed
  PROVE  Scopes'
  <1>1. ASSUME NEW t \in Thread, NEW m \in Module, depth[t][m] > 0
        PROVE  services'[m] = services[m]
    <2>1. gate[m] < Closed
      BY <1>1, PinnedIsOpen
    <2>2. gate[m] # Closed
      BY <2>1, GateAssumption
    <2> QED
      BY <2>2
  <1> QED
    BY <1>1 DEF Scopes

LEMMA ScopeScopes ==
  ASSUME TypeOK, Scopes, NEW t \in Thread, ScopeStep(t)
  PROVE  Scopes'
  <1> USE GateAssumption DEF TypeOK, Scopes, gates, owners, locals, Goto, Start, MyModule
  <1>1. CASE EnterScope(t)
    BY <1>1 DEF EnterScope
  <1>2. CASE Unpin(t)
    BY <1>2 DEF Unpin
  <1>3. CASE MakeObject(t)
    BY <1>3 DEF MakeObject
  <1>4. ASSUME NEW m \in Module, OuterScope(t, m) PROVE Scopes'
    BY <1>4 DEF OuterScope, AcquireModule
  <1>5. ASSUME NEW m \in Module, NestedScope(t, m) PROVE Scopes'
    BY <1>5 DEF NestedScope
  <1>6. ASSUME NEW m \in Module, LeaveInner(t, m) PROVE Scopes'
    BY <1>6 DEF LeaveInner
  <1>7. ASSUME NEW m \in Module, LeaveOuter(t, m) PROVE Scopes'
    BY <1>7 DEF LeaveOuter
  <1>8. ASSUME NEW m \in Module, BeginObject(t, m) PROVE Scopes'
    BY <1>8 DEF BeginObject, AcquireModule
  <1>9. ASSUME NEW m \in Module, DestroyObject(t, m) PROVE Scopes'
    BY <1>9 DEF DestroyObject
  <1> HIDE DEF Scopes
  <1> QED
    BY <1>1, <1>2, <1>3, <1>4, <1>5, <1>6, <1>7, <1>8, <1>9 DEF ScopeStep

\* Services change at closed gates only.
LEMMA GateStepScopes ==
  ASSUME GateInv, Serving, Scopes, NEW t \in Thread,
         RegisterStep(t) \/ UnregisterStep(t) \/ InstallStep(t) \/ UninstallStep(t)
  PROVE  Scopes'
  <1>1. UNCHANGED <<depth, scope>>
    BY DEF RegisterStep, Attach, RegisterLock, RegisterCheck, RegisterRetain, RegisterServices, RegisterOpen,
       RegisterDone, RegisterRefused, UnregisterStep, Detach, UnregisterLock, UnregisterCheck, UnregisterClose,
       UnregisterServices, UnregisterRelease, UnregisterDone, UnregisterRefused, InstallStep, Install,
       InstallReaders, InstallObserver, InstallHandlers, RollbackReaders, RollbackOwner, FreeStaged,
       UninstallStep, Uninstall, UninstallLock, UninstallGate, UninstallReaders, UninstallServices,
       UninstallRelease, UninstallHandlers, UninstallOwner, UninstallFree, UninstallDone, ReopenReaders,
       ReopenGate, ReopenRegistrations, locals
  <1>2. services' = services \/ RegisterServices(t) \/ UnregisterServices(t) \/ UninstallServices(t)
    BY DEF RegisterStep, Attach, RegisterLock, RegisterCheck, RegisterRetain, RegisterOpen,
       RegisterDone, RegisterRefused, UnregisterStep, Detach, UnregisterLock, UnregisterCheck, UnregisterClose,
       UnregisterRelease, UnregisterDone, UnregisterRefused, InstallStep, Install,
       InstallReaders, InstallObserver, InstallHandlers, RollbackReaders, RollbackOwner, FreeStaged,
       UninstallStep, Uninstall, UninstallLock, UninstallGate, UninstallReaders,
       UninstallRelease, UninstallHandlers, UninstallOwner, UninstallFree, UninstallDone, ReopenReaders,
       ReopenGate, ReopenRegistrations, gates
  <1> USE DEF GateInv, TypeOK, Goto, MyModule
  <1>3. CASE RegisterServices(t)
    BY <1>1, <1>3, ScopesStay DEF RegisterServices, GateStaysShut, ShutPC
  <1>4. CASE UnregisterServices(t)
    BY <1>1, <1>4, ScopesStay DEF UnregisterServices, Serving
  <1>5. CASE UninstallServices(t)
    BY <1>1, <1>5, ScopesStay DEF UninstallServices, Serving, Control, UninstallsHost, UninstallPC
  <1>6. CASE services' = services
    BY <1>1, <1>6, ScopesStay
  <1> QED
    BY <1>2, <1>3, <1>4, <1>5, <1>6

-----------------------------------------------------------------------------
(* What is registered with an owner, before and after a step.              *)

LEMMA RegisteredFinite ==
  ASSUME NEW o
  PROVE  IsFiniteSet(RegisteredWith(o)) /\ Cardinality(RegisteredWith(o)) \in Nat
  <1>1. RegisteredWith(o) \subseteq Module
    BY DEF RegisteredWith
  <1> QED
    BY <1>1, FS_Subset, FS_CardinalityType, GateAssumption

\* Only thread t takes a step.
Alone(t) == \A u \in Thread \ {t} : pc'[u] = pc[u] /\ job'[u] = job[u]

RegistersPC == {"rServices", "dRelease", "uRelease"}

\* What the other threads contribute to a registration stays.
OthersRegister(t, o, m) == \E u \in Thread \ {t} : Registers(u, o, m)

LEMMA RegisteredThen ==
  ASSUME NEW t \in Thread, Alone(t), NEW o \in Owner, NEW m \in Module
  PROVE  /\ m \in RegisteredWith(o)  <=> services[m] = o  \/ OthersRegister(t, o, m) \/ Registers(t, o, m)
         /\ m \in RegisteredWith(o)' <=> services'[m] = o \/ OthersRegister(t, o, m) \/ Registers(t, o, m)'
  <1>1. OthersRegister(t, o, m)' <=> OthersRegister(t, o, m)
    BY DEF Alone, OthersRegister, Registers, MyModule, MyOwner
  <1>2. m \in RegisteredWith(o)' <=> services'[m] = o \/ OthersRegister(t, o, m)' \/ Registers(t, o, m)'
    BY DEF RegisteredWith, OthersRegister
  <1>3. m \in RegisteredWith(o) <=> services[m] = o \/ OthersRegister(t, o, m) \/ Registers(t, o, m)
    BY DEF RegisteredWith, OthersRegister
  <1> QED
    BY <1>1, <1>2, <1>3

\* The steps that leave every registration alone ...
LEMMA RegisteredStays ==
  ASSUME NEW t \in Thread, Alone(t), UNCHANGED services, pc[t] \notin RegistersPC, pc'[t] \notin RegistersPC
  PROVE  \A o \in Owner : RegisteredWith(o)' = RegisteredWith(o)
  <1>1. ASSUME NEW o \in Owner, NEW m \in Module PROVE m \in RegisteredWith(o)' <=> m \in RegisteredWith(o)
    BY RegisteredThen DEF Registers, RegistersPC
  <1> QED
    BY <1>1 DEF RegisteredWith

\* ... or carry one from the thread's hands to the module's services ...
LEMMA RegisteredPublished ==
  ASSUME GateInv, Serving, NEW t \in Thread, RegisterServices(t)
  PROVE  \A o \in Owner : RegisteredWith(o)' = RegisteredWith(o)
  <1>1. /\ Alone(t) /\ pc[t] = "rServices" /\ pc'[t] = "rGate" /\ MyModule(t) \in Module
        /\ services[MyModule(t)] = None /\ services' = [services EXCEPT ![MyModule(t)] = MyOwner(t)]
    BY DEF RegisterServices, Goto, Alone, Serving, GateInv, TypeOK, MyModule
  <1>2. ASSUME NEW o \in Owner, NEW m \in Module PROVE m \in RegisteredWith(o)' <=> m \in RegisteredWith(o)
    <2>1. services'[m] = o <=> IF m = MyModule(t) THEN o = MyOwner(t) ELSE services[m] = o
      BY <1>1 DEF GateInv, TypeOK
    <2>2. services[MyModule(t)] # o
      BY <1>1, GateAssumption
    <2>3. Registers(t, o, m) <=> m = MyModule(t) /\ o = MyOwner(t)
      BY <1>1 DEF Registers
    <2>4. ~Registers(t, o, m)'
      BY <1>1 DEF Registers
    <2> QED
      BY <1>1, <2>1, <2>2, <2>3, <2>4, RegisteredThen
  <1> QED
    BY <1>2 DEF RegisteredWith

\* ... or back ...
LEMMA RegisteredTaken ==
  ASSUME GateInv, Serving, NEW t \in Thread, UnregisterServices(t) \/ UninstallServices(t)
  PROVE  \A o \in Owner : RegisteredWith(o)' = RegisteredWith(o)
  <1>1. /\ Alone(t) /\ pc[t] \notin RegistersPC /\ pc'[t] \in RegistersPC
        /\ job' = job /\ MyModule(t) \in Module
        /\ services[MyModule(t)] = MyOwner(t) /\ services' = [services EXCEPT ![MyModule(t)] = None]
    BY DEF UnregisterServices, UninstallServices, Goto, Alone, RegistersPC, Serving, GateInv, TypeOK, MyModule,
           Control, UninstallsHost, UninstallPC
  <1>2. ASSUME NEW o \in Owner, NEW m \in Module PROVE m \in RegisteredWith(o)' <=> m \in RegisteredWith(o)
    <2>1. services'[m] = o <=> m # MyModule(t) /\ services[m] = o
      BY <1>1, GateAssumption DEF GateInv, TypeOK
    <2>2. ~Registers(t, o, m)
      BY <1>1 DEF Registers, RegistersPC
    <2>3. Registers(t, o, m)' <=> m = MyModule(t) /\ o = MyOwner(t)
      BY <1>1 DEF Registers, RegistersPC, MyModule, MyOwner
    <2> QED
      BY <1>1, <2>1, <2>2, <2>3, RegisteredThen
  <1> QED
    BY <1>2 DEF RegisteredWith

\* ... RegisterModule's Retain adds one ...
LEMMA RegisteredGrows ==
  ASSUME GateInv, Jobs, Serving, NEW t \in Thread, RegisterRetain(t), pc'[t] = "rServices"
  PROVE  /\ MyModule(t) \notin RegisteredWith(MyOwner(t))
         /\ \A o \in Owner : RegisteredWith(o)' = IF o = MyOwner(t) THEN RegisteredWith(o) \cup {MyModule(t)}
                                                                    ELSE RegisteredWith(o)
  <1>1. /\ Alone(t) /\ pc[t] = "rRetain" /\ job' = job /\ services' = services
        /\ MyModule(t) \in Module /\ services[MyModule(t)] = None
    BY DEF RegisterRetain, Goto, Alone, Serving, GateInv, TypeOK, MyModule
  <1>2. \A o \in Owner : ~OthersRegister(t, o, MyModule(t))
    BY <1>1 DEF GateInv, Control, LockIsExclusive, LockedPC, OthersRegister, Registers
  <1>3. ASSUME NEW o \in Owner, NEW m \in Module
        PROVE  m \in RegisteredWith(o)' <=> m \in RegisteredWith(o) \/ (o = MyOwner(t) /\ m = MyModule(t))
    <2>1. ~Registers(t, o, m)
      BY <1>1 DEF Registers
    <2>2. Registers(t, o, m)' <=> m = MyModule(t) /\ o = MyOwner(t)
      BY <1>1 DEF Registers, MyModule, MyOwner
    <2> QED
      BY <1>1, <2>1, <2>2, RegisteredThen
  <1>4. \A o \in Owner : MyModule(t) \notin RegisteredWith(o)
    BY <1>1, <1>2, RegisteredThen, GateAssumption DEF Registers
  <1>5. MyOwner(t) \in Owner
    BY <1>1 DEF Jobs, RegisterPC
  <1> QED
    BY <1>1, <1>3, <1>4, <1>5 DEF RegisteredWith

\* ... and the two releases take one away.
LEMMA RegisteredShrinks ==
  ASSUME GateInv, Jobs, Serving, NEW t \in Thread, UnregisterRelease(t) \/ UninstallRelease(t)
  PROVE  /\ MyOwner(t) \in Owner /\ MyModule(t) \in RegisteredWith(MyOwner(t))
         /\ \A o \in Owner : RegisteredWith(o)' = IF o = MyOwner(t) THEN RegisteredWith(o) \ {MyModule(t)}
                                                                    ELSE RegisteredWith(o)
  <1>1. /\ Alone(t) /\ pc[t] \in {"dRelease", "uRelease"} /\ pc'[t] \notin RegistersPC
        /\ job' = job /\ services' = services
        /\ MyModule(t) \in Module /\ services[MyModule(t)] = None
    BY DEF UnregisterRelease, UninstallRelease, Goto, Alone, RegistersPC, Serving, GateInv, TypeOK, MyModule,
           Control, UninstallsHost, UninstallPC
  <1>2. \A o \in Owner : ~OthersRegister(t, o, MyModule(t))
    BY <1>1 DEF GateInv, Control, LockIsExclusive, LockedPC, OthersRegister, Registers
  <1>3. MyOwner(t) \in Owner
    <2>1. MyOwner(t) \in Pointer
      BY DEF GateInv, TypeOK, MyOwner
    <2>2. pc[t] = "uRelease" => MyOwner(t) # None
      BY DEF Jobs, UninstallPC
    <2>3. pc[t] = "dRelease" => MyOwner(t) # None
      BY DEF Jobs, UnregisterPC
    <2> QED
      BY <1>1, <2>1, <2>2, <2>3 DEF Pointer
  <1>4. ASSUME NEW o \in Owner, NEW m \in Module
        PROVE  m \in RegisteredWith(o)' <=> m \in RegisteredWith(o) /\ ~(o = MyOwner(t) /\ m = MyModule(t))
    <2>1. Registers(t, o, m) <=> m = MyModule(t) /\ o = MyOwner(t)
      BY <1>1 DEF Registers
    <2>2. ~Registers(t, o, m)'
      BY <1>1 DEF Registers, RegistersPC
    <2> QED
      BY <1>1, <1>2, <2>1, <2>2, RegisteredThen, GateAssumption
  <1>5. MyModule(t) \in RegisteredWith(MyOwner(t))
    BY <1>1, <1>3, RegisteredThen DEF Registers
  <1> QED
    BY <1>3, <1>4, <1>5 DEF RegisteredWith

-----------------------------------------------------------------------------
(* Counted and Kept, where a step leaves the registrations alone.          *)

\* A step of t after which t expects nothing new of its owner's registrations ...
NoNewClaim(t) ==
  /\ Unserved(t)' \/ HostOnly(t)' \/ Released(t)' => job'[t] = job[t]
  /\ Unserved(t)' => Unserved(t)
  /\ HostOnly(t)' => HostOnly(t)
  /\ Released(t)' => Released(t)

\* ... and which neither begins nor ends an Uninstall, ...
SameLeaving(t) ==
  /\ \A u \in Thread \ {t} : hooks'[u] = hooks[u]
  /\ Uninstalling(t)' <=> Uninstalling(t)
  /\ Uninstalling(t) => hooks'[t] = hooks[t]

\* ... nor registers, releases, allocates or frees anything.
Steady(t) ==
  /\ Alone(t) /\ NoNewClaim(t) /\ SameLeaving(t)
  /\ UNCHANGED <<registrations, live>>
  /\ \A o \in Owner : RegisteredWith(o)' = RegisteredWith(o)

LEMMA LeavingStays ==
  ASSUME NEW t \in Thread, Alone(t), SameLeaving(t), NEW o \in Owner
  PROVE  Leaving(o)' <=> Leaving(o)
BY DEF Alone, SameLeaving, Leaving, Uninstalling

\* What threads other than t expect.
LEMMA OthersExpect ==
  ASSUME Kept, NEW t \in Thread, Alone(t), NEW o \in Owner, RegisteredWith(o)' = RegisteredWith(o),
         NEW u \in Thread \ {t}, MyOwner(u)' = o
  PROVE  /\ Unserved(u)' => RegisteredWith(o)' = {}
         /\ HostOnly(u)' => RegisteredWith(o)' = {HostModule}
         /\ Released(u)' => RegisteredWith(o)' = {}
BY DEF Kept, Alone, Unserved, HostOnly, Released, MyOwner, ForInstall

LEMMA SteadyKept ==
  ASSUME Kept, NEW t \in Thread, Steady(t)
  PROVE  Kept'
  <1>1. ASSUME NEW o \in Owner PROVE o \notin live' => RegisteredWith(o)' = {}
    BY DEF Kept, Steady
  <1>2. ASSUME NEW o \in Owner, MyOwner(t)' = o
        PROVE  /\ Unserved(t)' => RegisteredWith(o)' = {}
               /\ HostOnly(t)' => RegisteredWith(o)' = {HostModule}
               /\ Released(t)' => RegisteredWith(o)' = {}
    <2>1. RegisteredWith(o)' = RegisteredWith(o)
      BY DEF Steady
    <2>2. Unserved(t)' \/ HostOnly(t)' \/ Released(t)' => MyOwner(t) = o
      BY <1>2 DEF Steady, NoNewClaim, MyOwner
    <2>3. MyOwner(t) = o => /\ Unserved(t) => RegisteredWith(o) = {}
                            /\ HostOnly(t) => RegisteredWith(o) = {HostModule}
                            /\ Released(t) => RegisteredWith(o) = {}
      BY DEF Kept, Unserved, HostOnly, Released
    <2> QED
      BY <2>1, <2>2, <2>3 DEF Steady, NoNewClaim
  <1>3. ASSUME NEW o \in Owner, NEW u \in Thread, MyOwner(u)' = o
        PROVE  /\ Unserved(u)' => RegisteredWith(o)' = {}
               /\ HostOnly(u)' => RegisteredWith(o)' = {HostModule}
               /\ Released(u)' => RegisteredWith(o)' = {}
    BY <1>2, <1>3, OthersExpect DEF Steady
  <1> QED
    BY <1>1, <1>3 DEF Kept, Unserved, HostOnly, Released

LEMMA SteadyCounted ==
  ASSUME TypeOK, Counted, NEW t \in Thread, Steady(t)
  PROVE  Counted'
  <1>1. ASSUME NEW o \in live
        PROVE  RegisteredWith(o)' = RegisteredWith(o) /\ (Leaving(o)' <=> Leaving(o))
    BY LeavingStays DEF Steady, TypeOK
  <1> QED
    BY <1>1 DEF Counted, Steady

LEMMA AsideSteady ==
  ASSUME TypeOK, Jobs, NEW t \in Thread, Aside(t)
  PROVE  Steady(t)
  <1>1. /\ Alone(t) /\ UNCHANGED <<services, registrations, live, hooks>>
        /\ pc[t] \notin RegistersPC /\ pc'[t] \notin RegistersPC
    BY DEF Aside, Alone, GateSteps, RegistersPC, RegisterPC, UnregisterPC, UninstallPC
  <1>2. NoNewClaim(t)
    BY DEF Aside, GateSteps, NoNewClaim, Unserved, HostOnly, Released, ForInstall, UninstallPC, Jobs
  <1>3. SameLeaving(t)
    BY DEF Aside, GateSteps, SameLeaving, Uninstalling, UninstallPC
  <1> QED
    BY <1>1, <1>2, <1>3, RegisteredStays DEF Steady

\* The steps that are not steady.
Turns(t) ==
  \/ RegisterRetain(t) /\ pc'[t] = "rServices"
  \/ UnregisterRelease(t) \/ UninstallRelease(t)
  \/ \E o \in Owner : Install(t, o)
  \/ FreeStaged(t) \/ UninstallFree(t)
  \/ Uninstall(t) \/ ReopenRegistrations(t)

\* The rest is.
Keeps(t) ==
  /\ Alone(t) /\ NoNewClaim(t) /\ SameLeaving(t)
  /\ UNCHANGED <<registrations, live>>
  /\ \/ UNCHANGED services /\ pc[t] \notin RegistersPC /\ pc'[t] \notin RegistersPC
     \/ RegisterServices(t) \/ UnregisterServices(t) \/ UninstallServices(t)

LEMMA KeepsSteady ==
  ASSUME GateInv, Jobs, Serving, NEW t \in Thread, Keeps(t)
  PROVE  Steady(t)
BY RegisteredStays, RegisteredPublished, RegisteredTaken DEF Steady, Keeps

LEMMA RegisterKeeps ==
  ASSUME TypeOK, Jobs, NEW t \in Thread, RegisterStep(t), ~Turns(t)
  PROVE  Keeps(t)
  <1> USE GateAssumption DEF Jobs, Keeps, Alone, NoNewClaim, SameLeaving, Unserved, HostOnly,
      Released, Uninstalling, RegistersPC, Turns, TypeOK, gates, owners, locals, Pointer,
      NoJob, Goto, Start, MyModule, MyOwner, ForInstall, RegisterPC, UnregisterPC, InstallPC,
      UninstallPC
  <1>1. ASSUME NEW m \in Module, NEW i \in Installer, Attach(t, m, i) PROVE Keeps(t)
    BY <1>1 DEF Attach
  <1>2. CASE RegisterLock(t)
    BY <1>2 DEF RegisterLock
  <1>3. CASE RegisterCheck(t)
    BY <1>3 DEF RegisterCheck
  <1>4. CASE RegisterRetain(t)
    BY <1>4 DEF RegisterRetain
  <1>5. CASE RegisterServices(t)
    BY <1>5 DEF RegisterServices
  <1>6. CASE RegisterOpen(t)
    BY <1>6 DEF RegisterOpen
  <1>7. CASE RegisterDone(t)
    BY <1>7 DEF RegisterDone
  <1>8. CASE RegisterRefused(t)
    BY <1>8 DEF RegisterRefused
  <1> HIDE DEF Keeps, Turns
  <1> QED
    BY <1>1, <1>2, <1>3, <1>4, <1>5, <1>6, <1>7, <1>8 DEF RegisterStep

LEMMA UnregisterKeeps ==
  ASSUME TypeOK, Jobs, NEW t \in Thread, UnregisterStep(t), ~Turns(t)
  PROVE  Keeps(t)
  <1> USE GateAssumption DEF Jobs, Keeps, Alone, NoNewClaim, SameLeaving, Unserved, HostOnly,
      Released, Uninstalling, RegistersPC, Turns, TypeOK, gates, owners, locals, Pointer,
      NoJob, Goto, Start, MyModule, MyOwner, ForInstall, RegisterPC, UnregisterPC, InstallPC,
      UninstallPC
  <1>1. ASSUME NEW m \in Module, Detach(t, m) PROVE Keeps(t)
    BY <1>1 DEF Detach
  <1>2. CASE UnregisterLock(t)
    BY <1>2 DEF UnregisterLock
  <1>3. CASE UnregisterCheck(t)
    BY <1>3 DEF UnregisterCheck
  <1>4. CASE UnregisterClose(t)
    BY <1>4 DEF UnregisterClose
  <1>5. CASE UnregisterServices(t)
    BY <1>5 DEF UnregisterServices
  <1>6. CASE UnregisterRelease(t)
    BY <1>6 DEF Turns
  <1>7. CASE UnregisterDone(t)
    BY <1>7 DEF UnregisterDone
  <1>8. CASE UnregisterRefused(t)
    BY <1>8 DEF UnregisterRefused
  <1> HIDE DEF Keeps, Turns
  <1> QED
    BY <1>1, <1>2, <1>3, <1>4, <1>5, <1>6, <1>7, <1>8 DEF UnregisterStep

LEMMA InstallKeeps ==
  ASSUME TypeOK, Jobs, NEW t \in Thread, InstallStep(t), ~Turns(t)
  PROVE  Keeps(t)
  <1> USE GateAssumption DEF Jobs, Keeps, Alone, NoNewClaim, SameLeaving, Unserved, HostOnly,
      Released, Uninstalling, RegistersPC, Turns, TypeOK, gates, owners, locals, Pointer,
      NoJob, Goto, Start, MyModule, MyOwner, ForInstall, RegisterPC, UnregisterPC, InstallPC,
      UninstallPC
  <1>1. ASSUME NEW o \in Owner, Install(t, o) PROVE Keeps(t)
    BY <1>1 DEF Turns
  <1>2. CASE InstallReaders(t)
    BY <1>2 DEF InstallReaders
  <1>3. CASE InstallObserver(t)
    BY <1>3 DEF InstallObserver
  <1>4. CASE InstallHandlers(t)
    BY <1>4 DEF InstallHandlers
  <1>5. CASE RollbackReaders(t)
    BY <1>5 DEF RollbackReaders
  <1>6. CASE RollbackOwner(t)
    BY <1>6 DEF RollbackOwner
  <1>7. CASE FreeStaged(t)
    BY <1>7 DEF Turns
  <1> HIDE DEF Keeps, Turns
  <1> QED
    BY <1>1, <1>2, <1>3, <1>4, <1>5, <1>6, <1>7 DEF InstallStep

LEMMA UninstallKeeps ==
  ASSUME TypeOK, Jobs, NEW t \in Thread, UninstallStep(t), ~Turns(t)
  PROVE  Keeps(t)
  <1> USE GateAssumption DEF Jobs, Keeps, Alone, NoNewClaim, SameLeaving, Unserved, HostOnly,
      Released, Uninstalling, RegistersPC, Turns, TypeOK, gates, owners, locals, Pointer,
      NoJob, Goto, Start, MyModule, MyOwner, ForInstall, RegisterPC, UnregisterPC, InstallPC,
      UninstallPC
  <1>1. CASE Uninstall(t)
    BY <1>1 DEF Turns
  <1>2. CASE UninstallLock(t)
    BY <1>2 DEF UninstallLock
  <1>3. CASE UninstallGate(t)
    BY <1>3 DEF UninstallGate
  <1>4. CASE UninstallReaders(t)
    BY <1>4 DEF UninstallReaders
  <1>5. CASE UninstallServices(t)
    BY <1>5 DEF UninstallServices
  <1>6. CASE UninstallRelease(t)
    BY <1>6 DEF Turns
  <1>7. CASE UninstallHandlers(t)
    BY <1>7 DEF UninstallHandlers
  <1>8. CASE UninstallOwner(t)
    BY <1>8 DEF UninstallOwner
  <1>9. CASE UninstallFree(t)
    BY <1>9 DEF Turns
  <1>10. CASE UninstallDone(t)
    BY <1>10 DEF UninstallDone
  <1>11. CASE ReopenReaders(t)
    BY <1>11 DEF ReopenReaders
  <1>12. CASE ReopenGate(t)
    BY <1>12 DEF ReopenGate
  <1>13. CASE ReopenRegistrations(t)
    BY <1>13 DEF Turns
  <1> HIDE DEF Keeps, Turns
  <1> QED
    BY <1>1, <1>2, <1>3, <1>4, <1>5, <1>6, <1>7, <1>8, <1>9, <1>10, <1>11, <1>12, <1>13 DEF UninstallStep

-----------------------------------------------------------------------------
(* Counted and Kept, where a step registers, releases, allocates, frees,   *)
(* or begins or ends an Uninstall.                                         *)

\* Kept, for a step of t that is not steady.
LEMMA KeptAfter ==
  ASSUME NEW t \in Thread,
         \A o \in Owner : o \notin live' => RegisteredWith(o)' = {},
         \A o \in Owner, u \in Thread : MyOwner(u)' = o =>
            /\ Unserved(u)' => RegisteredWith(o)' = {}
            /\ HostOnly(u)' => RegisteredWith(o)' = {HostModule}
            /\ Released(u)' => RegisteredWith(o)' = {}
  PROVE  Kept'
BY DEF Kept, Unserved, HostOnly, Released

LEMMA KeptNow ==
  ASSUME Kept, NEW o \in Owner, NEW u \in Thread, MyOwner(u) = o
  PROVE  /\ Unserved(u) => RegisteredWith(o) = {}
         /\ HostOnly(u) => RegisteredWith(o) = {HostModule}
         /\ Released(u) => RegisteredWith(o) = {}
BY DEF Kept, Unserved, HostOnly, Released

\* Who expects something of o, while t works for it.
LEMMA Expecting ==
  ASSUME Jobs, NEW u \in Thread
  PROVE  /\ HostOnly(u) \/ Released(u) => Uninstalling(u) /\ hooks[u] = MyOwner(u) /\ hooks[u] # None
         /\ Unserved(u) => ForInstall(u) /\ hooks[u] = None
BY DEF Jobs, HostOnly, Released, Unserved, Uninstalling, UninstallPC

LEMMA InstalledLives ==
  ASSUME Jobs, Ownership, NEW u \in Thread
  PROVE  /\ hooks[u] # None => Holds(u) = hooks[u] /\ hooks[u] \in live /\ ~ForInstall(u)
         /\ ForInstall(u) => Holds(u) = MyOwner(u) /\ MyOwner(u) \in live
BY GateAssumption DEF Jobs, Ownership, Holds

LEMMA RetainTurns ==
  ASSUME GateInv, Jobs, Ownership, Serving, Registering, Kept, Counted,
         NEW t \in Thread, RegisterRetain(t), pc'[t] = "rServices"
  PROVE  Kept' /\ Counted'
  <1> DEFINE o == MyOwner(t)
             m == MyModule(t)
  <1>1. /\ Alone(t) /\ pc[t] = "rRetain" /\ job' = job /\ UNCHANGED <<live, hooks>>
        /\ IsOpen(registrations[o]) /\ registrations' = [registrations EXCEPT ![o] = @ + 1]
    BY DEF RegisterRetain, Goto, Alone, owners, GateInv, TypeOK
  <1>2. o \in Owner
    BY <1>1 DEF Jobs, RegisterPC
  <1>3. /\ m \notin RegisteredWith(o)
        /\ \A p \in Owner : RegisteredWith(p)' = IF p = o THEN RegisteredWith(p) \cup {m} ELSE RegisteredWith(p)
    BY RegisteredGrows
  <1>4. ForInstall(t) \/ \E i \in Thread : hooks[i] = o
    BY <1>1 DEF Registering, RegisterPC
  <1>5. o \in live
    BY <1>2, <1>4, InstalledLives, GateAssumption
  <1>6. registrations[o] \in Nat /\ Closed \in Nat /\ Cardinality(RegisteredWith(o)) \in Nat
    BY <1>2, RegisteredFinite, GateAssumption DEF GateInv, TypeOK, Counter
  <1>7. ~Leaving(o) /\ registrations[o] = Cardinality(RegisteredWith(o)) /\ registrations[o] < Closed - 1
    <2>1. registrations[o] < Closed - 1
      BY <1>1 DEF IsOpen
    <2>2. registrations[o] = Cardinality(RegisteredWith(o)) + IF Leaving(o) THEN Closed ELSE 0
      BY <1>5 DEF Counted
    <2> HIDE DEF o
    <2> QED
      BY <1>6, <2>1, <2>2
  <1>8. ASSUME NEW u \in Thread, u # t, MyOwner(u) = o PROVE ~Unserved(u) /\ ~HostOnly(u) /\ ~Released(u)
    <2>1. ~HostOnly(u) /\ ~Released(u)
      BY <1>7, <1>8, Expecting DEF Leaving, Uninstalling
    <2>2. ASSUME Unserved(u) PROVE FALSE
      <3>1. CASE ForInstall(t)
        BY <1>2, <1>8, <2>2, <3>1, Expecting, InstalledLives, GateAssumption DEF Ownership
      <3>2. ASSUME NEW i \in Thread, hooks[i] = o PROVE FALSE
        BY <1>2, <1>8, <2>2, <3>2, Expecting, OneHolder, GateAssumption
      <3> QED
        BY <1>4, <3>1, <3>2
    <2> QED
      BY <2>1, <2>2
  <1>9. ~Unserved(t)' /\ ~HostOnly(t)' /\ ~Released(t)'
    BY DEF Unserved, HostOnly, Released
  <1>10. ASSUME NEW p \in Owner, NEW u \in Thread, MyOwner(u)' = p
         PROVE  /\ Unserved(u)' => RegisteredWith(p)' = {}
                /\ HostOnly(u)' => RegisteredWith(p)' = {HostModule}
                /\ Released(u)' => RegisteredWith(p)' = {}
    <2>1. CASE u = t
      BY <1>9, <2>1
    <2>2. CASE u # t /\ p = o
      <3>1. ~Unserved(u) /\ ~HostOnly(u) /\ ~Released(u)
        BY <1>1, <1>8, <1>10, <2>2 DEF MyOwner
      <3> QED
        BY <1>1, <2>2, <3>1 DEF Alone, Unserved, HostOnly, Released, ForInstall
    <2>3. CASE u # t /\ p # o
      BY <1>1, <1>3, <1>10, <2>3, OthersExpect
    <2> QED
      BY <2>1, <2>2, <2>3
  <1>11. Kept'
    <2>1. ASSUME NEW p \in Owner, p \notin live' PROVE RegisteredWith(p)' = {}
      BY <1>1, <1>3, <1>5, <2>1 DEF Kept
    <2> HIDE DEF o, m
    <2> QED
      BY <1>10, <2>1, KeptAfter
  <1>12. ASSUME NEW p \in live'
         PROVE  /\ Cardinality(RegisteredWith(p))' < Closed
                /\ registrations'[p] = Cardinality(RegisteredWith(p))' + IF Leaving(p)' THEN Closed ELSE 0
    <2>1. p \in live /\ p \in Owner
      BY <1>1 DEF GateInv, TypeOK
    <2>2. Leaving(p)' <=> Leaving(p)
      BY <1>1, <2>1, LeavingStays DEF SameLeaving, Uninstalling, UninstallPC
    <2>3. CASE p = o
      <3>1. Cardinality(RegisteredWith(p) \cup {m}) = Cardinality(RegisteredWith(p)) + 1
        BY <1>3, <2>3, OneMore, RegisteredFinite
      <3>2. registrations'[p] = registrations[p] + 1
        BY <1>1, <2>1, <2>3 DEF GateInv, TypeOK
      <3>3. RegisteredWith(p)' = RegisteredWith(p) \cup {m}
        BY <1>3, <2>1, <2>3
      <3>4. Cardinality(RegisteredWith(p))' = Cardinality(RegisteredWith(p)) + 1
        BY <3>1, <3>3
      <3> HIDE DEF o, m
      <3> QED
        BY <1>6, <1>7, <2>2, <2>3, <3>2, <3>4
    <2>4. CASE p # o
      <3>1. registrations'[p] = registrations[p] /\ RegisteredWith(p)' = RegisteredWith(p)
        BY <1>1, <1>3, <2>1, <2>4 DEF GateInv, TypeOK
      <3> QED
        BY <2>1, <2>2, <3>1 DEF Counted
    <2> QED
      BY <2>3, <2>4
  <1>13. Counted'
    BY <1>12 DEF Counted
  <1> QED
    BY <1>11, <1>13

LEMMA ReleaseTurns ==
  ASSUME GateInv, Jobs, Ownership, Serving, Attachments, Kept, Counted,
         NEW t \in Thread, UnregisterRelease(t) \/ UninstallRelease(t)
  PROVE  Kept' /\ Counted'
  <1> DEFINE o == MyOwner(t)
             m == MyModule(t)
  <1>1. /\ Alone(t) /\ job' = job /\ UNCHANGED <<live, hooks>>
        /\ registrations' = [registrations EXCEPT ![o] = Drop(@)]
    BY DEF UnregisterRelease, UninstallRelease, Goto, Alone, owners, GateInv, TypeOK
  <1>2. /\ o \in Owner /\ m \in RegisteredWith(o)
        /\ \A p \in Owner : RegisteredWith(p)' = IF p = o THEN RegisteredWith(p) \ {m} ELSE RegisteredWith(p)
    BY RegisteredShrinks
  <1>3. o \in live
    BY <1>2 DEF Kept
  <1>4. ASSUME NEW u \in Thread, u # t, MyOwner(u) = o PROVE ~Unserved(u) /\ ~HostOnly(u) /\ ~Released(u)
    <2>1. ~Unserved(u) /\ ~Released(u)
      BY <1>2, <1>4, KeptNow
    <2>2. ASSUME HostOnly(u) PROVE FALSE
      <3>1. m = HostModule
        BY <1>2, <1>4, <2>2, KeptNow
      <3>2. CASE UnregisterRelease(t)
        <4>1. attached[t][m] # None
          BY <3>2 DEF UnregisterRelease, Goto, Jobs, UnregisterPC
        <4> QED
          BY <3>1, <4>1 DEF Attachments
      <3>3. CASE UninstallRelease(t)
        <4>1. hooks[t] = o /\ hooks[t] # None
          BY <3>3 DEF UninstallRelease, Goto, Jobs, UninstallPC
        <4> QED
          BY <1>4, <2>2, <4>1, Expecting, OneHolder
      <3> QED
        BY <3>2, <3>3
    <2> QED
      BY <2>1, <2>2
  <1>5. MyOwner(t)' = o /\ ~Unserved(t)' /\ ~HostOnly(t)' /\ (Released(t)' => RegisteredWith(o)' = {})
    <2>1. CASE UnregisterRelease(t)
      BY <2>1 DEF UnregisterRelease, Goto, Unserved, HostOnly, Released, MyOwner, ForInstall, Jobs, UnregisterPC,
         InstallPC, RegisterPC, GateInv, TypeOK
    <2>2. CASE UninstallRelease(t)
      <3>1. ~Unserved(t)' /\ ~HostOnly(t)' /\ HostOnly(t) /\ MyOwner(t)' = o
        BY <2>2 DEF UninstallRelease, Goto, Unserved, HostOnly, MyOwner, ForInstall, Jobs, UninstallPC,
           InstallPC, RegisterPC, GateInv, TypeOK
      <3>2. RegisteredWith(o) = {HostModule}
        BY <1>2, <3>1, KeptNow
      <3> QED
        BY <1>2, <3>1, <3>2
    <2> QED
      BY <2>1, <2>2
  <1>6. ASSUME NEW p \in Owner, NEW u \in Thread, MyOwner(u)' = p
        PROVE  /\ Unserved(u)' => RegisteredWith(p)' = {}
               /\ HostOnly(u)' => RegisteredWith(p)' = {HostModule}
               /\ Released(u)' => RegisteredWith(p)' = {}
    <2>1. CASE u = t
      BY <1>5, <1>6, <2>1
    <2>2. CASE u # t /\ p = o
      <3>1. ~Unserved(u) /\ ~HostOnly(u) /\ ~Released(u)
        BY <1>1, <1>4, <1>6, <2>2 DEF MyOwner
      <3> QED
        BY <1>1, <2>2, <3>1 DEF Alone, Unserved, HostOnly, Released, ForInstall
    <2>3. CASE u # t /\ p # o
      BY <1>1, <1>2, <1>6, <2>3, OthersExpect
    <2> QED
      BY <2>1, <2>2, <2>3
  <1>7. Kept'
    <2>1. ASSUME NEW p \in Owner, p \notin live' PROVE RegisteredWith(p)' = {}
      BY <1>1, <1>2, <1>3, <2>1 DEF Kept
    <2> HIDE DEF o, m
    <2> QED
      BY <1>6, <2>1, KeptAfter
  <1>8. ASSUME NEW p \in live'
        PROVE  /\ Cardinality(RegisteredWith(p))' < Closed
               /\ registrations'[p] = Cardinality(RegisteredWith(p))' + IF Leaving(p)' THEN Closed ELSE 0
    <2>1. p \in live /\ p \in Owner
      BY <1>1 DEF GateInv, TypeOK
    <2>2. Leaving(p)' <=> Leaving(p)
      <3>1. SameLeaving(t)
        BY <1>1 DEF SameLeaving, Uninstalling, UninstallPC, UnregisterRelease, UninstallRelease, Goto, GateInv, TypeOK
      <3> QED
        BY <1>1, <2>1, <3>1, LeavingStays
    <2>3. /\ Cardinality(RegisteredWith(p)) < Closed
          /\ registrations[p] = Cardinality(RegisteredWith(p)) + IF Leaving(p) THEN Closed ELSE 0
      BY <2>1 DEF Counted
    <2>4. CASE p = o
      <3>1. /\ Cardinality(RegisteredWith(p) \ {m}) = Cardinality(RegisteredWith(p)) - 1
            /\ Cardinality(RegisteredWith(p)) >= 1
        BY <1>2, <2>4, OneFewer, RegisteredFinite
      <3>2. registrations'[p] = Drop(registrations[p])
        BY <1>1, <2>1, <2>4 DEF GateInv, TypeOK
      <3>3. RegisteredWith(p)' = RegisteredWith(p) \ {m}
        BY <1>2, <2>1, <2>4
      <3>4. Cardinality(RegisteredWith(p))' = Cardinality(RegisteredWith(p)) - 1
        BY <3>1, <3>3
      <3>5. Cardinality(RegisteredWith(p)) \in Nat /\ Closed \in Nat
        BY RegisteredFinite, GateAssumption
      <3> HIDE DEF o, m
      <3> QED
        BY <2>2, <2>3, <3>1, <3>2, <3>4, <3>5 DEF Drop
    <2>5. CASE p # o
      <3>1. registrations'[p] = registrations[p] /\ RegisteredWith(p)' = RegisteredWith(p)
        BY <1>1, <1>2, <2>1, <2>5 DEF GateInv, TypeOK
      <3> QED
        BY <2>2, <2>3, <3>1
    <2> QED
      BY <2>4, <2>5
  <1>9. Counted'
    BY <1>8 DEF Counted
  <1> QED
    BY <1>7, <1>9

LEMMA InstallTurns ==
  ASSUME GateInv, Jobs, Ownership, Kept, Counted, NEW t \in Thread, NEW o \in Owner, Install(t, o)
  PROVE  Kept' /\ Counted'
  <1>1. /\ Alone(t) /\ UNCHANGED <<services, hooks>> /\ pc[t] \notin RegistersPC /\ pc'[t] \notin RegistersPC
        /\ pc[t] \notin UninstallPC /\ pc'[t] \notin UninstallPC
        /\ o \notin live /\ live' = live \cup {o} /\ registrations' = [registrations EXCEPT ![o] = 0]
        /\ job'[t].owner = o
    BY DEF Install, Start, Alone, RegistersPC, UninstallPC, GateInv, TypeOK
  <1>2. \A p \in Owner : RegisteredWith(p)' = RegisteredWith(p)
    BY <1>1, RegisteredStays
  <1>3. RegisteredWith(o) = {} /\ RegisteredWith(o)' = {}
    BY <1>1, <1>2 DEF Kept
  <1>4. ASSUME NEW p \in Owner, NEW u \in Thread, MyOwner(u)' = p
        PROVE  /\ Unserved(u)' => RegisteredWith(p)' = {}
               /\ HostOnly(u)' => RegisteredWith(p)' = {HostModule}
               /\ Released(u)' => RegisteredWith(p)' = {}
    <2>1. CASE u = t
      BY <1>1, <1>3, <1>4, <2>1 DEF MyOwner, HostOnly, Released, UninstallPC
    <2>2. CASE u # t
      BY <1>1, <1>2, <1>4, <2>2, OthersExpect
    <2> QED
      BY <2>1, <2>2
  <1>5. Kept'
    <2>1. ASSUME NEW p \in Owner, p \notin live' PROVE RegisteredWith(p)' = {}
      BY <1>1, <1>2, <2>1 DEF Kept
    <2> QED
      BY <1>4, <2>1, KeptAfter
  <1>6. ASSUME NEW p \in live'
        PROVE  /\ Cardinality(RegisteredWith(p))' < Closed
               /\ registrations'[p] = Cardinality(RegisteredWith(p))' + IF Leaving(p)' THEN Closed ELSE 0
    <2>1. p \in Owner /\ (p = o \/ p \in live)
      BY <1>1 DEF GateInv, TypeOK
    <2>2. Leaving(p)' <=> Leaving(p)
      BY <1>1, <2>1, LeavingStays DEF SameLeaving, Uninstalling
    <2>3. CASE p = o
      <3>1. ~Leaving(o)
        BY <1>1, InstalledLives, GateAssumption DEF Leaving
      <3>2. registrations'[o] = 0
        BY <1>1 DEF GateInv, TypeOK
      <3>3. Cardinality(RegisteredWith(o))' = 0
        BY <1>3, FS_EmptySet
      <3> QED
        BY <2>2, <2>3, <3>1, <3>2, <3>3, GateAssumption
    <2>4. CASE p # o
      <3>1. registrations'[p] = registrations[p] /\ RegisteredWith(p)' = RegisteredWith(p) /\ p \in live
        BY <1>1, <1>2, <2>1, <2>4 DEF GateInv, TypeOK
      <3> QED
        BY <2>2, <3>1 DEF Counted
    <2> QED
      BY <2>3, <2>4
  <1>7. Counted'
    BY <1>6 DEF Counted
  <1> QED
    BY <1>5, <1>7

LEMMA FreeTurns ==
  ASSUME GateInv, Jobs, Ownership, Kept, Counted, NEW t \in Thread, FreeStaged(t) \/ UninstallFree(t)
  PROVE  Kept' /\ Counted'
  <1>1. PICK o \in Owner : o = MyOwner(t) /\ (Unserved(t) \/ Released(t))
    <2>1. CASE FreeStaged(t)
      BY <2>1 DEF FreeStaged, Goto, Jobs, InstallPC, Unserved
    <2>2. CASE UninstallFree(t)
      BY <2>2 DEF UninstallFree, Goto, Jobs, UninstallPC, Released, GateInv, TypeOK, Pointer
    <2> QED
      BY <2>1, <2>2
  <1>2. /\ Alone(t) /\ UNCHANGED <<services, registrations>>
        /\ pc[t] \notin RegistersPC /\ pc'[t] \notin RegistersPC
        /\ live' = live \ {o}
    BY <1>1 DEF FreeStaged, UninstallFree, Goto, Alone, RegistersPC, gates, GateInv, TypeOK
  <1>3. \A p \in Owner : RegisteredWith(p)' = RegisteredWith(p)
    BY <1>2, RegisteredStays
  <1>4. RegisteredWith(o) = {}
    BY <1>1, KeptNow
  <1>5. ~Unserved(t)' /\ ~HostOnly(t)' /\ ~Released(t)'
    <2>1. CASE FreeStaged(t)
      BY <2>1 DEF FreeStaged, Goto, NoJob, Unserved, HostOnly, Released, ForInstall, GateInv, TypeOK
    <2>2. CASE UninstallFree(t)
      BY <2>2 DEF UninstallFree, Goto, Unserved, HostOnly, Released, ForInstall, GateInv, TypeOK, Jobs,
         InstallPC, RegisterPC
    <2> QED
      BY <2>1, <2>2
  <1>6. Kept'
    <2>1. ASSUME NEW p \in Owner, p \notin live' PROVE RegisteredWith(p)' = {}
      BY <1>2, <1>3, <1>4, <2>1 DEF Kept
    <2>2. ASSUME NEW p \in Owner, NEW u \in Thread, MyOwner(u)' = p
          PROVE  /\ Unserved(u)' => RegisteredWith(p)' = {}
                 /\ HostOnly(u)' => RegisteredWith(p)' = {HostModule}
                 /\ Released(u)' => RegisteredWith(p)' = {}
      BY <1>2, <1>3, <1>5, <2>2, OthersExpect
    <2> QED
      BY <2>1, <2>2, KeptAfter
  <1>7. ASSUME NEW p \in live' PROVE Leaving(p)' <=> Leaving(p)
    <2>1. CASE FreeStaged(t)
      BY <1>2, <2>1, LeavingStays DEF FreeStaged, Goto, SameLeaving, Uninstalling, UninstallPC, GateInv, TypeOK
    <2>2. CASE UninstallFree(t)
      <3>1. /\ hooks[t] = o /\ hooks'[t] = None /\ \A u \in Thread \ {t} : hooks'[u] = hooks[u]
            /\ p # o /\ p # None
        BY <1>1, <1>2, <2>2, GateAssumption DEF UninstallFree, Goto, Jobs, UninstallPC, GateInv, TypeOK
      <3> QED
        BY <1>2, <3>1 DEF Leaving, Uninstalling, Alone
    <2> QED
      BY <2>1, <2>2
  <1>8. Counted'
    BY <1>2, <1>3, <1>7 DEF Counted, GateInv, TypeOK
  <1> QED
    BY <1>6, <1>8

\* An Uninstall that finds one registration finds the host's.
LEMMA BeginTurns ==
  ASSUME GateInv, Jobs, Ownership, Installed, Kept, Counted, NEW t \in Thread, Uninstall(t)
  PROVE  Kept' /\ Counted'
  <1>1. PICK o \in Owner : o = hooks[t]
    BY DEF Uninstall, GateInv, TypeOK, Pointer
  <1>2. /\ Alone(t) /\ UNCHANGED <<services, live, hooks>> /\ pc[t] = "idle"
        /\ pc'[t] = (IF registrations[o] = 1 THEN "uUpdate" ELSE "uReopenUnlocked")
        /\ job'[t].owner = o /\ ~job'[t].install
        /\ registrations' = [registrations EXCEPT ![o] = Shut(@)]
    BY <1>1 DEF Uninstall, Start, Alone, owners, GateInv, TypeOK
  <1>3. \A p \in Owner : RegisteredWith(p)' = RegisteredWith(p)
    BY <1>2, RegisteredStays DEF RegistersPC
  <1>4. o \in live /\ ~Leaving(o)
    <2>1. o \in live
      BY <1>1, InstalledLives, GateAssumption
    <2>2. hooks[t] # None
      BY DEF Uninstall
    <2>3. ASSUME NEW u \in Thread, hooks[u] = o PROVE u = t
      <3>1. hooks[u] = hooks[t]
        BY <1>1, <2>3
      <3> QED
        BY <2>2, <3>1, OneHolder
    <2> QED
      BY <1>2, <2>1, <2>3 DEF Leaving, Uninstalling, UninstallPC
  <1>5. /\ registrations[o] = Cardinality(RegisteredWith(o)) /\ Cardinality(RegisteredWith(o)) < Closed
        /\ Cardinality(RegisteredWith(o)) \in Nat /\ Closed \in Nat
    BY <1>4, RegisteredFinite, GateAssumption DEF Counted
  <1>6. ASSUME registrations[o] = 1 PROVE RegisteredWith(o) = {HostModule}
    <2>1. HostModule \in RegisteredWith(o)
      BY <1>1, <1>2, GateAssumption DEF Installed, RegisteredWith
    <2>2. IsFiniteSet(RegisteredWith(o)) /\ Cardinality(RegisteredWith(o)) = 1
      BY <1>5, <1>6, RegisteredFinite
    <2>3. IsFiniteSet(RegisteredWith(o) \ {HostModule}) /\ Cardinality(RegisteredWith(o) \ {HostModule}) = 0
      BY <2>1, <2>2, FS_RemoveElement
    <2>4. RegisteredWith(o) \ {HostModule} = {}
      BY <2>3, FS_EmptySet
    <2> QED
      BY <2>1, <2>4
  <1>7. Kept'
    <2>1. ASSUME NEW p \in Owner, p \notin live' PROVE RegisteredWith(p)' = {}
      BY <1>2, <1>3, <2>1 DEF Kept
    <2>2. ASSUME NEW p \in Owner, NEW u \in Thread, MyOwner(u)' = p
          PROVE  /\ Unserved(u)' => RegisteredWith(p)' = {}
                 /\ HostOnly(u)' => RegisteredWith(p)' = {HostModule}
                 /\ Released(u)' => RegisteredWith(p)' = {}
      <3>1. CASE u = t
        BY <1>2, <1>3, <1>6, <2>2, <3>1 DEF MyOwner, ForInstall, Unserved, HostOnly, Released
      <3>2. CASE u # t
        BY <1>2, <1>3, <2>2, <3>2, OthersExpect
      <3> QED
        BY <3>1, <3>2
    <2> QED
      BY <2>1, <2>2, KeptAfter
  <1>8. ASSUME NEW p \in live'
        PROVE  /\ Cardinality(RegisteredWith(p))' < Closed
               /\ registrations'[p] = Cardinality(RegisteredWith(p))' + IF Leaving(p)' THEN Closed ELSE 0
    <2>1. p \in live /\ p \in Owner /\ RegisteredWith(p)' = RegisteredWith(p)
      BY <1>2, <1>3 DEF GateInv, TypeOK
    <2>2. CASE p = o
      <3>1. Leaving(p)'
        BY <1>1, <1>2, <2>2 DEF Leaving, Uninstalling, UninstallPC
      <3>2. registrations'[p] = registrations[o] + Closed
        BY <1>2, <1>5, <2>2 DEF Shut, GateInv, TypeOK
      <3> QED
        BY <1>5, <2>1, <2>2, <3>1, <3>2
    <2>3. CASE p # o
      <3>1. Leaving(p)' <=> Leaving(p)
        BY <1>1, <1>2, <2>3 DEF Leaving, Uninstalling, Alone
      <3>2. registrations'[p] = registrations[p]
        BY <1>2, <2>1, <2>3 DEF GateInv, TypeOK
      <3> QED
        BY <2>1, <3>1, <3>2 DEF Counted
    <2> QED
      BY <2>2, <2>3
  <1>9. Counted'
    BY <1>8 DEF Counted
  <1> QED
    BY <1>7, <1>9

LEMMA ReopenTurns ==
  ASSUME GateInv, Jobs, Ownership, Kept, Counted, NEW t \in Thread, ReopenRegistrations(t)
  PROVE  Kept' /\ Counted'
  <1>1. pc[t] \in {"uReopen", "uReopenUnlocked"} /\ pc'[t] \in {"uClear", "idle"} /\ Alone(t)
    BY DEF ReopenRegistrations, Goto, Alone, GateInv, TypeOK
  <1>2. hooks[t] # None /\ hooks[t] = MyOwner(t)
    BY <1>1 DEF Jobs, UninstallPC
  <1>3. PICK o \in Owner : o = hooks[t]
    BY <1>2 DEF GateInv, TypeOK, Pointer
  <1>4. /\ UNCHANGED <<services, live, hooks>>
        /\ registrations' = [registrations EXCEPT ![o] = Reopen(@)]
    BY <1>2, <1>3 DEF ReopenRegistrations, owners
  <1>5. \A p \in Owner : RegisteredWith(p)' = RegisteredWith(p)
    BY <1>1, <1>4, RegisteredStays DEF RegistersPC
  <1>6. ~Unserved(t)' /\ ~HostOnly(t)' /\ ~Released(t)'
    <2>1. ~ForInstall(t)' \/ job' = job
      BY DEF ReopenRegistrations, Goto, ForInstall, NoJob, GateInv, TypeOK
    <2>2. ~ForInstall(t)
      BY <1>2 DEF Jobs
    <2> QED
      BY <1>1, <2>1, <2>2 DEF Unserved, HostOnly, Released, ForInstall
  <1>7. Kept'
    <2>1. ASSUME NEW p \in Owner, p \notin live' PROVE RegisteredWith(p)' = {}
      BY <1>4, <1>5, <2>1 DEF Kept
    <2>2. ASSUME NEW p \in Owner, NEW u \in Thread, MyOwner(u)' = p
          PROVE  /\ Unserved(u)' => RegisteredWith(p)' = {}
                 /\ HostOnly(u)' => RegisteredWith(p)' = {HostModule}
                 /\ Released(u)' => RegisteredWith(p)' = {}
      BY <1>1, <1>5, <1>6, <2>2, OthersExpect
    <2> QED
      BY <2>1, <2>2, KeptAfter
  <1>8. ASSUME NEW p \in live'
        PROVE  /\ Cardinality(RegisteredWith(p))' < Closed
               /\ registrations'[p] = Cardinality(RegisteredWith(p))' + IF Leaving(p)' THEN Closed ELSE 0
    <2>1. p \in live /\ p \in Owner /\ RegisteredWith(p)' = RegisteredWith(p)
      BY <1>4, <1>5 DEF GateInv, TypeOK
    <2>2. CASE p = o
      <3>1. Leaving(p)
        BY <1>1, <1>3, <2>2 DEF Leaving, Uninstalling, UninstallPC
      <3>2. \A u \in Thread : hooks[u] = o => u = t
        BY <1>2, <1>3, OneHolder
      <3>3. ~Leaving(p)'
        BY <1>1, <1>4, <2>2, <3>2 DEF Leaving, Uninstalling, UninstallPC
      <3>4. /\ Cardinality(RegisteredWith(p)) < Closed /\ registrations[p] = Cardinality(RegisteredWith(p)) + Closed
            /\ Cardinality(RegisteredWith(p)) \in Nat /\ Closed \in Nat
        BY <2>1, <3>1, RegisteredFinite, GateAssumption DEF Counted
      <3>5. registrations'[p] = Cardinality(RegisteredWith(p))
        BY <1>4, <2>1, <2>2, <3>4 DEF Reopen, GateInv, TypeOK
      <3> QED
        BY <2>1, <3>3, <3>4, <3>5
    <2>3. CASE p # o
      <3>1. Leaving(p)' <=> Leaving(p)
        BY <1>1, <1>3, <1>4, <2>3 DEF Leaving, Uninstalling, Alone
      <3>2. registrations'[p] = registrations[p]
        BY <1>4, <2>1, <2>3 DEF GateInv, TypeOK
      <3> QED
        BY <2>1, <3>1, <3>2 DEF Counted
    <2> QED
      BY <2>2, <2>3
  <1>9. Counted'
    BY <1>8 DEF Counted
  <1> QED
    BY <1>7, <1>9

-----------------------------------------------------------------------------
(* The invariant and the theorems.                                         *)

LifeInv ==
  /\ GateInv /\ Jobs /\ Ownership /\ Serving /\ Installed /\ Attachments
  /\ Registering /\ Counted /\ Kept /\ Scopes

LEMMA LifeInit == Init => LifeInv
  <1> SUFFICES ASSUME Init PROVE LifeInv
    OBVIOUS
  <1> USE GateAssumption DEF Init
  <1>1. GateInv
    BY GateInit
  <1>2. Jobs /\ Ownership /\ Registering
    BY DEF Jobs, Ownership, Holds, Registering, ForInstall, MyModule, MyOwner, NoJob,
           InstallPC, RegisterPC, UnregisterPC, UninstallPC
  <1>3. Serving /\ Installed /\ Attachments /\ Scopes
    BY DEF Serving, Installed, Attachments, Scopes
  <1>4. Counted
    BY DEF Counted
  <1>5. \A o \in Owner : RegisteredWith(o) = {}
    BY DEF RegisteredWith, Registers
  <1>6. Kept
    BY <1>5 DEF Kept, Unserved, HostOnly, Released, ForInstall, NoJob
  <1> QED
    BY <1>1, <1>2, <1>3, <1>4, <1>6 DEF LifeInv

LEMMA AsideKeeps ==
  ASSUME LifeInv, NEW t \in Thread, Aside(t), GatesStay, GateInv', Scopes'
  PROVE  LifeInv'
  <1> USE DEF LifeInv
  <1>1. TypeOK /\ Control
    BY DEF GateInv
  <1>2. Jobs' /\ Ownership' /\ Registering'
    BY <1>1, AsideJobs, AsideOwns, AsideRegisters
  <1>3. Serving' /\ Installed' /\ Attachments'
    BY <1>1, AsideServes, AsideInstalls, AsideAttached
  <1>4. Steady(t)
    BY <1>1, AsideSteady
  <1>5. Counted' /\ Kept'
    BY <1>1, <1>4, SteadyCounted, SteadyKept
  <1> QED
    BY <1>2, <1>3, <1>5

LEMMA GateStepKeeps ==
  ASSUME LifeInv, NEW t \in Thread, GateInv',
         RegisterStep(t) \/ UnregisterStep(t) \/ InstallStep(t) \/ UninstallStep(t)
  PROVE  LifeInv'
  <1> USE DEF LifeInv
  <1>1. TypeOK /\ Control
    BY DEF GateInv
  <1>2. Jobs'
    BY <1>1, RegisterJobs, UnregisterJobs, InstallJobs, UninstallJobs
  <1>3. Ownership'
    BY <1>1, RegisterOwns, UnregisterOwns, InstallOwns, UninstallOwns
  <1>4. Registering'
    BY <1>1, RegisterRegisters, UnregisterRegisters, InstallRegisters, UninstallRegisters
  <1>5. Serving'
    BY RegisterServes, UnregisterServes, InstallServes, UninstallServes
  <1>6. Attachments'
    BY RegisterAttached, UnregisterAttached, InstallAttached, UninstallAttached
  <1>7. Installed'
    BY RegisterInstalls, UnregisterInstalls, InstallInstalls, UninstallInstalls
  <1>8. Scopes'
    BY GateStepScopes
  <1>9. Counted' /\ Kept'
    <2>1. CASE ~Turns(t)
      <3>1. Keeps(t)
        BY <1>1, <2>1, RegisterKeeps, UnregisterKeeps, InstallKeeps, UninstallKeeps
      <3>2. Steady(t)
        BY <3>1, KeepsSteady
      <3> QED
        BY <1>1, <3>2, SteadyCounted, SteadyKept
    <2>2. CASE Turns(t)
      BY <2>2, RetainTurns, ReleaseTurns, InstallTurns, FreeTurns, BeginTurns, ReopenTurns DEF Turns
    <2> QED
      BY <2>1, <2>2
  <1> QED
    BY <1>2, <1>3, <1>4, <1>5, <1>6, <1>7, <1>8, <1>9

LEMMA LifeStep == LifeInv /\ [Next]_vars => LifeInv'
  <1> SUFFICES ASSUME LifeInv, [Next]_vars PROVE LifeInv'
    OBVIOUS
  <1>1. GateInv'
    BY GateStep DEF LifeInv
  <1>2. TypeOK
    BY DEF LifeInv, GateInv
  <1>3. ASSUME NEW t \in Thread, ScopeStep(t) PROVE LifeInv'
    <2>1. Scopes'
      BY <1>2, <1>3, ScopeScopes DEF LifeInv
    <2> QED
      BY <1>1, <1>3, <2>1, ScopeAside, AsideKeeps DEF LifeInv
  <1>4. ASSUME NEW t \in Thread, ReaderStep(t) PROVE LifeInv'
    <2>1. Aside(t) /\ GatesStay /\ UNCHANGED <<gate, depth, scope>>
      BY <1>2, <1>4, ReaderAside
    <2>2. Scopes'
      BY <2>1, ScopesStay DEF LifeInv, Aside
    <2> QED
      BY <1>1, <2>1, <2>2, AsideKeeps
  <1>5. ASSUME NEW t \in Thread, RegisterStep(t) \/ UnregisterStep(t) \/ InstallStep(t) \/ UninstallStep(t)
        PROVE  LifeInv'
    BY <1>1, <1>5, GateStepKeeps
  <1>6. CASE UNCHANGED vars
    <2> USE <1>6 DEF LifeInv, vars, gates, owners, locals, MyModule, MyOwner, ForInstall
    <2>1. Jobs' /\ Ownership' /\ Registering'
      BY DEF Jobs, Ownership, Holds, Registering
    <2>2. Serving' /\ Installed' /\ Attachments' /\ Scopes'
      BY DEF Serving, Installed, Attachments, Scopes
    <2>3. \A o \in Owner : RegisteredWith(o)' = RegisteredWith(o) /\ (Leaving(o)' <=> Leaving(o))
      BY DEF RegisteredWith, Registers, Leaving, Uninstalling
    <2>4. Counted'
      BY <1>2, <2>3 DEF Counted, TypeOK
    <2>5. Kept'
      BY <2>3 DEF Kept, Unserved, HostOnly, Released
    <2> QED
      BY <1>1, <2>1, <2>2, <2>4, <2>5
  <1> QED
    BY <1>3, <1>4, <1>5, <1>6 DEF Next

\* What is served is allocated.
LEMMA ServedLives ==
  ASSUME LifeInv, NEW m \in Module, services[m] # None
  PROVE  services[m] \in live
  <1>1. services[m] \in Owner
    BY DEF LifeInv, GateInv, TypeOK, Pointer
  <1>2. m \in RegisteredWith(services[m])
    BY DEF RegisteredWith
  <1> QED
    BY <1>1, <1>2 DEF LifeInv, Kept

LEMMA LifeIsPinned == LifeInv => PinnedOwnerLive
  <1> SUFFICES ASSUME LifeInv PROVE PinnedOwnerLive
    OBVIOUS
  <1>1. ASSUME NEW m \in Module, gate[m] < Closed PROVE services[m] \in live
    BY <1>1, ServedLives DEF LifeInv, Serving
  <1>2. ASSUME NEW m \in Module, NEW t \in Thread
        PROVE  /\ depth[t][m] > 0 => scope[t][m] = services[m]
               /\ t \in ScopePins(m) \cup TransitPins(m) => services[m] \in live
    BY <1>1, PinnedIsOpen DEF LifeInv, Scopes, ScopePins, TransitPins
  <1>3. ASSUME NEW m \in Module, objects[m] > 0 PROVE services[m] \in live
    <2>1. gate[m] < Closed
      BY <1>3, CountedIsOpen DEF LifeInv
    <2> QED
      BY <1>1, <2>1
  <1> QED
    BY <1>2, <1>3 DEF PinnedOwnerLive

LEMMA LifeIsAttached == LifeInv => AttachedOwnerLive
  <1> SUFFICES ASSUME LifeInv, NEW t \in Thread, NEW m \in Module, attached[t][m] # None, pc[t] # "dClear"
               PROVE  attached[t][m] \in live
    BY DEF AttachedOwnerLive
  <1>1. CASE services[m] = attached[t][m]
    BY <1>1, ServedLives
  <1>2. CASE pc[t] = "dRelease" /\ MyModule(t) = m
    <2>1. MyOwner(t) = attached[t][m] /\ attached[t][m] \in Owner
      BY <1>2 DEF LifeInv, Jobs, UnregisterPC, GateInv, TypeOK, Pointer
    <2>2. m \in RegisteredWith(attached[t][m])
      BY <1>2, <2>1 DEF RegisteredWith, Registers
    <2> QED
      BY <2>1, <2>2 DEF LifeInv, Kept
  <1> QED
    BY <1>1, <1>2 DEF LifeInv, Attachments

\* The invariant from which the other theorems follow.
THEOREM LifeInvariant == Spec => []LifeInv
  BY LifeInit, LifeStep, PTL DEF Spec

\* A scope or an object that is being entered or alive, in any module, finds
\* the services table it entered with allocated, and so does an attached module
\* until its Detach has released it (Failure.cpp:474-522, 595-637), also when
\* handlers are entered late.
THEOREM PinnedAndAttachedLive == Spec => [](PinnedOwnerLive /\ AttachedOwnerLive)
  BY LifeInvariant, LifeIsPinned, LifeIsAttached, PTL

-----------------------------------------------------------------------------
(* The inductive invariant behind RestIsConsistent and ReaderOwnerLive.    *)

\* Only installers hold an owner.
InstallersHold == \A t \in Thread : ForInstall(t) \/ hooks[t] # None \/ pc[t] \in UninstallPC => t \in Installer

\* What is allocated has a thread that will free it.
Held == \A o \in live : \E t \in Thread : Holds(t) = o

\* The handler is in place while an owner is installed.
Handled ==
  /\ handler => \E t \in Thread : hooks[t] # None /\ pc[t] \notin {"uOwner", "uFree"}
  /\ \A t \in Thread : hooks[t] # None /\ pc[t] \notin {"uOwner", "uFree"} => handler

\* A moduleUpdate that is taken is some thread's.
Locked == \A m \in Module : update[m] => \E t \in Thread : pc[t] \in LockedPC /\ MyModule(t) = m

\* A module is served behind a closed gate only on the way in or out.
ClosedPC == {"rGate", "dServices", "uReaders", "uServices", "uReopenReaders", "uReopenGate"}
ServedOpenly ==
  \A m \in Module : services[m] # None /\ gate[m] = Closed =>
    \E t \in Thread : pc[t] \in ClosedPC /\ MyModule(t) = m

Tenure  == InstallersHold /\ Held /\ Handled
Access  == Locked /\ ServedOpenly
Settled == Tenure /\ Access

-----------------------------------------------------------------------------
(* The readers.                                                            *)

\* processReaders counts the readers, with Closed on top where it is shut:
\* while no owner is published, and while its thread has it shut.
Readers     == {t \in Thread : Reads(t)}
NoReader    == {"iReaders", "iClearOwner", "uServices", "uRelease", "uHandlers", "uOwner"}
ReadersShut == processOwner = None \/ \E t \in Thread : pc[t] \in NoReader \cup {"uReopenReaders"}

ReadersCounted ==
  /\ Cardinality(Readers) < Closed
  /\ processReaders = Cardinality(Readers) + IF ReadersShut THEN Closed ELSE 0
  /\ processOwner = None \/ (\E t \in Thread : pc[t] \in NoReader) => Readers = {}
  /\ \A t \in Thread : pc[t] = "dispatch" => reader[t] = processOwner /\ processOwner # None

\* The rollback of a failed Install stores Closed whatever the count is, so there must be no reader.
\* Either handlers are entered before they are replaced, and then only while an owner is installed,
Prompt == \A t \in Thread : pc[t] # "late" /\ (Reads(t) => handler)

\* or there is no rollback: nobody else installs, and no call of the system fails.
OneInstaller == ~ObserverFails /\ \A t, u \in Installer : t = u
NoRollback ==
  \A t \in Thread : /\ pc[t] \notin {"iCloseReaders", "iClearOwner", "iFree"}
                    /\ ForInstall(t) => pc[t] # "rRefuse"

Orderly   == ~LateHandler \/ OneInstaller

-----------------------------------------------------------------------------
(* Tenure: who has installed, and what is allocated or handled for it.     *)

\* A step after which everybody holds what he held.
SameTenure ==
  /\ UNCHANGED <<live, handler, hooks>>
  /\ \A u \in Thread : /\ Holds(u)' = Holds(u)
                       /\ pc'[u] \in {"uOwner", "uFree"} <=> pc[u] \in {"uOwner", "uFree"}
                       /\ ForInstall(u)' => ForInstall(u)
                       /\ pc'[u] \in UninstallPC => pc[u] \in UninstallPC \/ hooks[u] # None

LEMMA TenureStays ==
  ASSUME Tenure, SameTenure
  PROVE  Tenure'
BY DEF SameTenure, Tenure, InstallersHold, Held, Handled

LEMMA AsideTenure ==
  ASSUME TypeOK, Jobs, Tenure, NEW t \in Thread, Aside(t)
  PROVE  Tenure'
  <1>1. \A u \in Thread : /\ pc'[u] \in UninstallPC <=> pc[u] \in UninstallPC
                          /\ pc'[u] \in {"uOwner", "uFree"} <=> pc[u] \in {"uOwner", "uFree"}
                          /\ ForInstall(u)' <=> ForInstall(u)
    BY DEF Aside, GateSteps, Jobs, TypeOK, MyOwner, ForInstall, MyModule, RegisterPC, InstallPC, UninstallPC
  <1> QED
    BY <1>1, SameHolders, TenureStays DEF Aside, SameTenure

LEMMA RegisterTenure ==
  ASSUME TypeOK, Jobs, NEW t \in Thread, RegisterStep(t)
  PROVE  SameTenure
  <1> USE GateAssumption DEF Jobs, SameTenure, Holds, TypeOK, gates, owners, locals, Pointer, NoJob, Goto,
      Start, MyModule, MyOwner, ForInstall, RegisterPC, UnregisterPC, InstallPC, UninstallPC
  <1>1. ASSUME NEW m \in Module, NEW i \in Installer, Attach(t, m, i) PROVE SameTenure
    <2>0. pc[t] = "idle" /\ pc'[t] = "rUpdate"
      BY <1>1 DEF Attach
    <2>1. ~ForInstall(t) /\ pc[t] \notin {"uOwner", "uFree"} /\ pc'[t] \notin UninstallPC
      BY <2>0
    <2>2. /\ \A u \in Thread \ {t} : pc'[u] = pc[u] /\ job'[u] = job[u]
          /\ UNCHANGED <<live, handler, hooks>> /\ ~ForInstall(t)'
      BY <1>1, <2>1 DEF Attach
    <2> HIDE DEF Jobs, TypeOK
    <2> QED
      BY <2>1, <2>2 DEF SameTenure
  <1>2. CASE RegisterLock(t)
    BY <1>2 DEF RegisterLock
  <1>3. CASE RegisterCheck(t)
    BY <1>3 DEF RegisterCheck
  <1>4. CASE RegisterRetain(t)
    BY <1>4 DEF RegisterRetain
  <1>5. CASE RegisterServices(t)
    BY <1>5 DEF RegisterServices
  <1>6. CASE RegisterOpen(t)
    BY <1>6 DEF RegisterOpen
  <1>7. CASE RegisterDone(t)
    BY <1>7 DEF RegisterDone
  <1>8. CASE RegisterRefused(t)
    BY <1>8 DEF RegisterRefused
  <1> HIDE DEF SameTenure
  <1> QED BY <1>1, <1>2, <1>3, <1>4, <1>5, <1>6, <1>7, <1>8 DEF RegisterStep

LEMMA UnregisterTenure ==
  ASSUME TypeOK, Jobs, NEW t \in Thread, UnregisterStep(t)
  PROVE  SameTenure
  <1> USE GateAssumption DEF Jobs, SameTenure, Holds, TypeOK, gates, owners, locals, Pointer, NoJob, Goto,
      Start, MyModule, MyOwner, ForInstall, RegisterPC, UnregisterPC, InstallPC, UninstallPC
  <1>1. ASSUME NEW m \in Module, Detach(t, m) PROVE SameTenure
    <2>1. ~ForInstall(t) /\ pc[t] \notin {"uOwner", "uFree"} /\ pc'[t] \notin UninstallPC
      BY <1>1 DEF Detach
    <2>2. /\ \A u \in Thread \ {t} : pc'[u] = pc[u] /\ job'[u] = job[u]
          /\ UNCHANGED <<live, handler, hooks>> /\ ~ForInstall(t)'
      BY <1>1, <2>1 DEF Detach
    <2> HIDE DEF Jobs, TypeOK
    <2> QED
      BY <2>1, <2>2 DEF SameTenure
  <1>2. CASE UnregisterLock(t)
    <2>0. pc[t] = "dUpdate" /\ pc'[t] \in {"idle", "dCheck"}
      BY <1>2 DEF UnregisterLock
    <2>1. ~ForInstall(t) /\ pc[t] \notin {"uOwner", "uFree"} /\ pc'[t] \notin UninstallPC
      BY <2>0
    <2>2. /\ \A u \in Thread \ {t} : pc'[u] = pc[u] /\ job'[u] = job[u]
          /\ UNCHANGED <<live, handler, hooks>> /\ ~ForInstall(t)'
      BY <1>2, <2>1 DEF UnregisterLock
    <2> HIDE DEF Jobs, TypeOK
    <2> QED
      BY <2>1, <2>2 DEF SameTenure
  <1>3. CASE UnregisterCheck(t)
    BY <1>3 DEF UnregisterCheck
  <1>4. CASE UnregisterClose(t)
    BY <1>4 DEF UnregisterClose
  <1>5. CASE UnregisterServices(t)
    BY <1>5 DEF UnregisterServices
  <1>6. CASE UnregisterRelease(t)
    BY <1>6 DEF UnregisterRelease
  <1>7. CASE UnregisterDone(t)
    <2>0. pc[t] = "dClear" /\ pc'[t] = "idle"
      BY <1>7 DEF UnregisterDone
    <2>1. ~ForInstall(t) /\ pc[t] \notin {"uOwner", "uFree"} /\ pc'[t] \notin UninstallPC
      BY <2>0
    <2>2. /\ \A u \in Thread \ {t} : pc'[u] = pc[u] /\ job'[u] = job[u]
          /\ UNCHANGED <<live, handler, hooks>> /\ ~ForInstall(t)'
      BY <1>7, <2>1 DEF UnregisterDone
    <2> HIDE DEF Jobs, TypeOK
    <2> QED
      BY <2>1, <2>2 DEF SameTenure
  <1>8. CASE UnregisterRefused(t)
    <2>0. pc[t] = "dRefuse" /\ pc'[t] = "idle"
      BY <1>8 DEF UnregisterRefused
    <2>1. ~ForInstall(t) /\ pc[t] \notin {"uOwner", "uFree"} /\ pc'[t] \notin UninstallPC
      BY <2>0
    <2>2. /\ \A u \in Thread \ {t} : pc'[u] = pc[u] /\ job'[u] = job[u]
          /\ UNCHANGED <<live, handler, hooks>> /\ ~ForInstall(t)'
      BY <1>8, <2>1 DEF UnregisterRefused
    <2> HIDE DEF Jobs, TypeOK
    <2> QED
      BY <2>1, <2>2 DEF SameTenure
  <1> HIDE DEF SameTenure
  <1> QED BY <1>1, <1>2, <1>3, <1>4, <1>5, <1>6, <1>7, <1>8 DEF UnregisterStep

LEMMA InstallTenure ==
  ASSUME TypeOK, Jobs, NEW t \in Thread,
         InstallReaders(t) \/ InstallObserver(t) \/ RollbackReaders(t) \/ RollbackOwner(t)
  PROVE  SameTenure
  <1> USE GateAssumption DEF Jobs, SameTenure, Holds, TypeOK, gates, owners, locals, Pointer, NoJob, Goto,
      Start, MyModule, MyOwner, ForInstall, RegisterPC, UnregisterPC, InstallPC, UninstallPC
  <1>1. CASE InstallReaders(t)
    BY <1>1 DEF InstallReaders
  <1>2. CASE InstallObserver(t)
    BY <1>2 DEF InstallObserver
  <1>3. CASE RollbackReaders(t)
    BY <1>3 DEF RollbackReaders
  <1>4. CASE RollbackOwner(t)
    BY <1>4 DEF RollbackOwner
  <1> HIDE DEF SameTenure
  <1> QED BY <1>1, <1>2, <1>3, <1>4

LEMMA UninstallTenure ==
  ASSUME TypeOK, Jobs, NEW t \in Thread,
         Uninstall(t) \/ UninstallLock(t) \/ UninstallGate(t) \/ UninstallReaders(t) \/ UninstallServices(t) \/
         UninstallRelease(t) \/ UninstallOwner(t) \/ UninstallDone(t) \/ ReopenReaders(t) \/ ReopenGate(t) \/
         ReopenRegistrations(t)
  PROVE  SameTenure
  <1> USE GateAssumption DEF Jobs, SameTenure, Holds, TypeOK, gates, owners, locals, Pointer, NoJob, Goto,
      Start, MyModule, MyOwner, ForInstall, RegisterPC, UnregisterPC, InstallPC, UninstallPC
  <1>1. CASE Uninstall(t)
    BY <1>1 DEF Uninstall
  <1>2. CASE UninstallLock(t)
    BY <1>2 DEF UninstallLock
  <1>3. CASE UninstallGate(t)
    BY <1>3 DEF UninstallGate
  <1>4. CASE UninstallReaders(t)
    BY <1>4 DEF UninstallReaders
  <1>5. CASE UninstallServices(t)
    BY <1>5 DEF UninstallServices
  <1>6. CASE UninstallRelease(t)
    BY <1>6 DEF UninstallRelease
  <1>7. CASE UninstallOwner(t)
    BY <1>7 DEF UninstallOwner
  <1>8. CASE UninstallDone(t)
    <2>0. pc[t] = "uClear" /\ pc'[t] = "idle"
      BY <1>8 DEF UninstallDone
    <2>1. ~ForInstall(t) /\ pc[t] \notin {"uOwner", "uFree"} /\ pc'[t] \notin UninstallPC
      BY <2>0
    <2>2. /\ \A u \in Thread \ {t} : pc'[u] = pc[u] /\ job'[u] = job[u]
          /\ UNCHANGED <<live, handler, hooks>> /\ ~ForInstall(t)'
      BY <1>8, <2>1 DEF UninstallDone
    <2> HIDE DEF Jobs, TypeOK
    <2> QED
      BY <2>1, <2>2 DEF SameTenure
  <1>9. CASE ReopenReaders(t)
    BY <1>9 DEF ReopenReaders
  <1>10. CASE ReopenGate(t)
    BY <1>10 DEF ReopenGate
  <1>11. CASE ReopenRegistrations(t)
    <2>1. CASE Goto(t, "uReopen", "uClear")
      BY <1>11, <2>1 DEF ReopenRegistrations
    <2>2. CASE Goto(t, "uReopenUnlocked", "idle")
      BY <1>11, <2>2 DEF ReopenRegistrations
    <2> QED
      BY <1>11, <2>1, <2>2 DEF ReopenRegistrations
  <1> HIDE DEF SameTenure
  <1> QED BY <1>1, <1>2, <1>3, <1>4, <1>5, <1>6, <1>7, <1>8, <1>9, <1>10, <1>11

LEMMA TenureTurns ==
  ASSUME TypeOK, Jobs, Ownership, Tenure, NEW t \in Thread,
         \/ \E o \in Owner : Install(t, o)
         \/ InstallHandlers(t) \/ FreeStaged(t) \/ UninstallHandlers(t) \/ UninstallFree(t)
  PROVE  Tenure'
  <1>1. ASSUME NEW o \in Owner, Install(t, o) PROVE Tenure'
    <2>1. /\ t \in Installer /\ live' = live \cup {o} /\ UNCHANGED <<handler, hooks>> /\ hooks[t] = None
          /\ pc[t] = "idle" /\ pc'[t] \notin UninstallPC /\ ForInstall(t)' /\ Holds(t)' = o
      BY <1>1 DEF Install, Start, TypeOK, UninstallPC, ForInstall, MyOwner, Holds
    <2>2. \A u \in Thread \ {t} : /\ Holds(u)' = Holds(u) /\ pc'[u] = pc[u]
                                  /\ ForInstall(u)' <=> ForInstall(u)
      BY <1>1 DEF Install, Start, TypeOK, ForInstall, MyOwner, Holds
    <2>3. Holds(t) = None
      BY <2>1 DEF Jobs, Holds, InstallPC, RegisterPC
    <2>4. Held'
      <3> SUFFICES ASSUME NEW x \in live, x # o PROVE \E u \in Thread : Holds(u)' = x
        BY <2>1 DEF Held
      <3>1. PICK u \in Thread : Holds(u) = x
        BY DEF Tenure, Held
      <3>2. x # None
        BY GateAssumption DEF TypeOK
      <3> QED BY <2>2, <2>3, <3>1, <3>2
    <2>5. InstallersHold'
      BY <2>1, <2>2 DEF Tenure, InstallersHold
    <2>6. Handled'
      BY <2>1, <2>2 DEF Tenure, Handled
    <2> QED BY <2>4, <2>5, <2>6 DEF Tenure
  <1>2. CASE InstallHandlers(t)
    <2>1. /\ hooks' = [hooks EXCEPT ![t] = MyOwner(t)] /\ handler' /\ live' = live /\ ForInstall(t)
          /\ pc'[t] = "idle" /\ ~ForInstall(t)' /\ Holds(t)' = Holds(t) /\ MyOwner(t) # None
          /\ t \in Installer
      BY <1>2, GateAssumption DEF InstallHandlers, Goto, NoJob, TypeOK, Jobs, Holds, ForInstall, MyOwner, InstallPC, locals,
         Tenure, InstallersHold
    <2>2. \A u \in Thread \ {t} : /\ Holds(u)' = Holds(u) /\ pc'[u] = pc[u] /\ hooks'[u] = hooks[u]
                                  /\ ForInstall(u)' <=> ForInstall(u)
      BY <1>2 DEF InstallHandlers, Goto, NoJob, TypeOK, ForInstall, MyOwner, Holds
    <2>3. hooks'[t] # None
      BY <2>1 DEF TypeOK
    <2>4. Held'
      BY <2>1, <2>2 DEF Tenure, Held
    <2>5. InstallersHold'
      BY <2>1, <2>2 DEF Tenure, InstallersHold
    <2>6. Handled'
      BY <2>1, <2>2, <2>3 DEF Handled
    <2> QED BY <2>4, <2>5, <2>6 DEF Tenure
  <1>3. CASE FreeStaged(t)
    <2>1. /\ live' = live \ {MyOwner(t)} /\ UNCHANGED <<handler, hooks>> /\ ForInstall(t) /\ hooks[t] = None
          /\ pc[t] = "iFree" /\ pc'[t] = "idle" /\ ~ForInstall(t)' /\ Holds(t) = MyOwner(t)
      BY <1>3 DEF FreeStaged, Goto, NoJob, TypeOK, Jobs, Holds, ForInstall, MyOwner, InstallPC
    <2>2. \A u \in Thread \ {t} : /\ Holds(u)' = Holds(u) /\ pc'[u] = pc[u]
                                  /\ ForInstall(u)' <=> ForInstall(u)
      BY <1>3 DEF FreeStaged, Goto, NoJob, TypeOK, ForInstall, MyOwner, Holds
    <2>4. Held'
      BY <2>1, <2>2 DEF Tenure, Held
    <2>5. InstallersHold'
      BY <2>1, <2>2 DEF Tenure, InstallersHold, UninstallPC
    <2>6. Handled'
      BY <2>1, <2>2 DEF Tenure, Handled
    <2> QED BY <2>4, <2>5, <2>6 DEF Tenure
  <1>4. CASE UninstallHandlers(t)
    <2>1. /\ ~handler' /\ live' = live /\ hooks' = hooks /\ hooks[t] # None /\ ~ForInstall(t)
          /\ pc[t] = "uHandlers" /\ pc'[t] = "uOwner" /\ job' = job
      BY <1>4 DEF UninstallHandlers, Goto, TypeOK, Jobs, locals, RegisterPC, InstallPC, UninstallPC
    <2>2. \A u \in Thread \ {t} : pc'[u] = pc[u]
      BY <1>4 DEF UninstallHandlers, Goto, TypeOK
    <2>3. \A u \in Thread : Holds(u)' = Holds(u) /\ (ForInstall(u)' <=> ForInstall(u))
      BY <2>1 DEF Holds, ForInstall, MyOwner
    <2>4. Held' /\ InstallersHold'
      BY <2>1, <2>2, <2>3 DEF Tenure, Held, InstallersHold
    <2>5. ASSUME NEW u \in Thread, u # t, hooks[u] # None, pc[u] \notin {"uOwner", "uFree"} PROVE FALSE
      <3>1. /\ ~ForInstall(u) /\ Holds(u) = hooks[u] /\ pc[u] \notin {"iFree", "uFree"}
            /\ Holds(t) = hooks[t] /\ pc[t] \notin {"iFree", "uFree"}
        BY <2>1, <2>5 DEF Jobs, Holds, InstallPC
      <3> QED BY <2>1, <2>5, <3>1 DEF Ownership
    <2>6. Handled'
      BY <2>1, <2>2, <2>5 DEF Handled
    <2> QED BY <2>4, <2>6 DEF Tenure
  <1>5. CASE UninstallFree(t)
    <2>1. /\ live' = live \ {hooks[t]} /\ hooks' = [hooks EXCEPT ![t] = None] /\ handler' = handler
          /\ hooks[t] # None /\ ~ForInstall(t) /\ t \in Installer
          /\ pc[t] = "uFree" /\ pc'[t] = "uClear" /\ job' = job
      BY <1>5 DEF UninstallFree, Goto, TypeOK, Jobs, locals, RegisterPC, InstallPC, UninstallPC, Tenure, InstallersHold
    <2>2. \A u \in Thread \ {t} : pc'[u] = pc[u] /\ hooks'[u] = hooks[u]
      BY <1>5 DEF UninstallFree, Goto, TypeOK
    <2>3. /\ \A u \in Thread : ForInstall(u)' <=> ForInstall(u)
          /\ \A u \in Thread \ {t} : Holds(u)' = Holds(u)
          /\ Holds(t) = hooks[t] /\ hooks'[t] = None
      BY <2>1, <2>2 DEF Holds, ForInstall, MyOwner, TypeOK
    <2>4. Held'
      BY <2>1, <2>3 DEF Tenure, Held
    <2>5. InstallersHold'
      BY <2>1, <2>2, <2>3 DEF Tenure, InstallersHold
    <2>6. Handled'
      BY <2>1, <2>2, <2>3 DEF Tenure, Handled
    <2> QED BY <2>4, <2>5, <2>6 DEF Tenure
  <1> QED
    BY <1>1, <1>2, <1>3, <1>4, <1>5

-----------------------------------------------------------------------------
(* Access: whose moduleUpdate, and whose closed gate.                      *)

\* What a step does to moduleUpdate and to closed gates is accounted for by its thread.
Accounts(t) ==
  /\ \A u \in Thread \ {t} : pc'[u] = pc[u] /\ job'[u] = job[u]
  /\ \A m \in Module :
       /\ update'[m] => \/ update[m] /\ ~(pc[t] \in LockedPC /\ MyModule(t) = m)
                        \/ pc'[t] \in LockedPC /\ MyModule(t)' = m
       /\ services'[m] # None /\ gate'[m] = Closed =>
            \/ services[m] # None /\ gate[m] = Closed /\ ~(pc[t] \in ClosedPC /\ MyModule(t) = m)
            \/ pc'[t] \in ClosedPC /\ MyModule(t)' = m

LEMMA AccessMoves ==
  ASSUME Access, NEW t \in Thread, Accounts(t)
  PROVE  Access'
  <1>1. ASSUME NEW m \in Module, update'[m] PROVE \E u \in Thread : pc'[u] \in LockedPC /\ MyModule(u)' = m
    <2>1. CASE pc'[t] \in LockedPC /\ MyModule(t)' = m
      BY <2>1
    <2>2. CASE update[m] /\ ~(pc[t] \in LockedPC /\ MyModule(t) = m)
      <3>1. PICK u \in Thread : pc[u] \in LockedPC /\ MyModule(u) = m
        BY <2>2 DEF Access, Locked
      <3>2. pc'[u] = pc[u] /\ MyModule(u)' = MyModule(u)
        BY <2>2, <3>1 DEF Accounts, MyModule
      <3> QED BY <3>1, <3>2
    <2> QED BY <1>1, <2>1, <2>2 DEF Accounts
  <1>2. ASSUME NEW m \in Module, services'[m] # None, gate'[m] = Closed
        PROVE  \E u \in Thread : pc'[u] \in ClosedPC /\ MyModule(u)' = m
    <2>1. CASE pc'[t] \in ClosedPC /\ MyModule(t)' = m
      BY <2>1
    <2>2. CASE services[m] # None /\ gate[m] = Closed /\ ~(pc[t] \in ClosedPC /\ MyModule(t) = m)
      <3>1. PICK u \in Thread : pc[u] \in ClosedPC /\ MyModule(u) = m
        BY <2>2 DEF Access, ServedOpenly
      <3>2. pc'[u] = pc[u] /\ MyModule(u)' = MyModule(u)
        BY <2>2, <3>1 DEF Accounts, MyModule
      <3> QED BY <3>1, <3>2
    <2> QED BY <1>2, <2>1, <2>2 DEF Accounts
  <1> QED BY <1>1, <1>2 DEF Access, Locked, ServedOpenly

LEMMA AsideAccess ==
  ASSUME TypeOK, Access, NEW t \in Thread, Aside(t), GatesStay
  PROVE  Access'
  <1>1. pc[t] \notin LockedPC /\ pc[t] \notin ClosedPC
    BY DEF Aside, GateSteps, LockedPC, ClosedPC, RegisterPC, UnregisterPC, UninstallPC
  <1>2. \A m \in Module : gate'[m] = Closed => gate[m] = Closed
    BY GateAssumption DEF GatesStay, TypeOK, Counter
  <1>3. Accounts(t)
    BY <1>1, <1>2 DEF Accounts, Aside
  <1> QED
    BY <1>3, AccessMoves

LEMMA RegisterAccounts ==
  ASSUME TypeOK, UninstallsHost, GateStaysShut, Serving, NEW t \in Thread, RegisterStep(t)
  PROVE  Accounts(t)
  <1> USE GateAssumption DEF Accounts, Serving, LockedPC, ClosedPC, UninstallsHost, TypeOK, Counter, gates,
      owners, locals, Pointer, NoJob, Goto, Start, MyModule, MyOwner, ForInstall, RegisterPC, UnregisterPC,
      InstallPC, UninstallPC
  <1>1. ASSUME NEW m \in Module, NEW i \in Installer, Attach(t, m, i) PROVE Accounts(t)
    BY <1>1 DEF Attach
  <1>2. CASE RegisterLock(t)
    BY <1>2 DEF RegisterLock
  <1>3. CASE RegisterCheck(t)
    BY <1>3 DEF RegisterCheck
  <1>4. CASE RegisterRetain(t)
    BY <1>4 DEF RegisterRetain
  <1>5. CASE RegisterServices(t)
    BY <1>5 DEF RegisterServices
  <1>6. CASE RegisterOpen(t)
    BY <1>6 DEF RegisterOpen
  <1>7. CASE RegisterDone(t)
    BY <1>7 DEF RegisterDone
  <1>8. CASE RegisterRefused(t)
    BY <1>8 DEF RegisterRefused
  <1> HIDE DEF Accounts
  <1> QED BY <1>1, <1>2, <1>3, <1>4, <1>5, <1>6, <1>7, <1>8 DEF RegisterStep

LEMMA UnregisterAccounts ==
  ASSUME TypeOK, UninstallsHost, GateStaysShut, Serving, NEW t \in Thread, UnregisterStep(t)
  PROVE  Accounts(t)
  <1> USE GateAssumption DEF Accounts, Serving, LockedPC, ClosedPC, UninstallsHost, TypeOK, Counter, gates,
      owners, locals, Pointer, NoJob, Goto, Start, MyModule, MyOwner, ForInstall, RegisterPC, UnregisterPC,
      InstallPC, UninstallPC
  <1>1. ASSUME NEW m \in Module, Detach(t, m) PROVE Accounts(t)
    BY <1>1 DEF Detach
  <1>2. CASE UnregisterLock(t)
    BY <1>2 DEF UnregisterLock
  <1>3. CASE UnregisterCheck(t)
    BY <1>3 DEF UnregisterCheck
  <1>4. CASE UnregisterClose(t)
    BY <1>4 DEF UnregisterClose
  <1>5. CASE UnregisterServices(t)
    BY <1>5 DEF UnregisterServices
  <1>6. CASE UnregisterRelease(t)
    BY <1>6 DEF UnregisterRelease
  <1>7. CASE UnregisterDone(t)
    BY <1>7 DEF UnregisterDone
  <1>8. CASE UnregisterRefused(t)
    BY <1>8 DEF UnregisterRefused
  <1> HIDE DEF Accounts
  <1> QED BY <1>1, <1>2, <1>3, <1>4, <1>5, <1>6, <1>7, <1>8 DEF UnregisterStep

LEMMA InstallAccounts ==
  ASSUME TypeOK, UninstallsHost, GateStaysShut, Serving, NEW t \in Thread, InstallStep(t)
  PROVE  Accounts(t)
  <1> USE GateAssumption DEF Accounts, Serving, LockedPC, ClosedPC, UninstallsHost, TypeOK, Counter, gates,
      owners, locals, Pointer, NoJob, Goto, Start, MyModule, MyOwner, ForInstall, RegisterPC, UnregisterPC,
      InstallPC, UninstallPC
  <1>1. ASSUME NEW o \in Owner, Install(t, o) PROVE Accounts(t)
    BY <1>1 DEF Install
  <1>2. CASE InstallReaders(t)
    BY <1>2 DEF InstallReaders
  <1>3. CASE InstallObserver(t)
    BY <1>3 DEF InstallObserver
  <1>4. CASE InstallHandlers(t)
    BY <1>4 DEF InstallHandlers
  <1>5. CASE RollbackReaders(t)
    BY <1>5 DEF RollbackReaders
  <1>6. CASE RollbackOwner(t)
    BY <1>6 DEF RollbackOwner
  <1>7. CASE FreeStaged(t)
    BY <1>7 DEF FreeStaged
  <1> HIDE DEF Accounts
  <1> QED BY <1>1, <1>2, <1>3, <1>4, <1>5, <1>6, <1>7 DEF InstallStep

LEMMA UninstallAccounts ==
  ASSUME TypeOK, UninstallsHost, GateStaysShut, Serving, NEW t \in Thread, UninstallStep(t)
  PROVE  Accounts(t)
  <1> USE GateAssumption DEF Accounts, Serving, LockedPC, ClosedPC, UninstallsHost, TypeOK, Counter, gates,
      owners, locals, Pointer, NoJob, Goto, Start, MyModule, MyOwner, ForInstall, RegisterPC, UnregisterPC,
      InstallPC, UninstallPC
  <1>1. CASE Uninstall(t)
    BY <1>1 DEF Uninstall
  <1>2. CASE UninstallLock(t)
    BY <1>2 DEF UninstallLock
  <1>3. CASE UninstallGate(t)
    BY <1>3 DEF UninstallGate
  <1>4. CASE UninstallReaders(t)
    BY <1>4 DEF UninstallReaders
  <1>5. CASE UninstallServices(t)
    BY <1>5 DEF UninstallServices
  <1>6. CASE UninstallRelease(t)
    BY <1>6 DEF UninstallRelease
  <1>7. CASE UninstallHandlers(t)
    BY <1>7 DEF UninstallHandlers
  <1>8. CASE UninstallOwner(t)
    BY <1>8 DEF UninstallOwner
  <1>9. CASE UninstallFree(t)
    BY <1>9 DEF UninstallFree
  <1>10. CASE UninstallDone(t)
    BY <1>10 DEF UninstallDone
  <1>11. CASE ReopenReaders(t)
    BY <1>11 DEF ReopenReaders
  <1>12. CASE ReopenGate(t)
    BY <1>12 DEF ReopenGate
  <1>13. CASE ReopenRegistrations(t)
    <2>1. CASE Goto(t, "uReopen", "uClear")
      BY <1>13, <2>1 DEF ReopenRegistrations
    <2>2. CASE Goto(t, "uReopenUnlocked", "idle")
      BY <1>13, <2>2 DEF ReopenRegistrations
    <2> QED
      BY <1>13, <2>1, <2>2 DEF ReopenRegistrations
  <1> HIDE DEF Accounts
  <1> QED BY <1>1, <1>2, <1>3, <1>4, <1>5, <1>6, <1>7, <1>8, <1>9, <1>10, <1>11, <1>12, <1>13 DEF
      UninstallStep

-----------------------------------------------------------------------------
(* Readers: who shuts processReaders finds none, or opens it again.        *)

LEMMA ReadersFinite ==
  ASSUME TypeOK
  PROVE  /\ IsFiniteSet(Readers) /\ Cardinality(Readers) \in Nat
         /\ Cardinality(Readers) = 0 <=> Readers = {}
  <1>1. Readers \subseteq Thread /\ IsFiniteSet(Thread)
    BY GateAssumption DEF Readers
  <1> QED BY <1>1, FS_Subset, FS_CardinalityType, FS_EmptySet

\* Of the threads that hold the published owner there is one.
LEMMA OnePublishes ==
  ASSUME Jobs, Ownership, NEW t \in Thread, Holds(t) # None, pc[t] \notin {"iFree", "uFree"}
  PROVE  /\ processOwner = Holds(t) /\ processOwner # None
         /\ \A u \in Thread : pc[u] \in NoReader \cup {"uReopenReaders", "iCloseReaders", "uReaders"} => u = t
  <1>1. ASSUME NEW u \in Thread, pc[u] \in NoReader \cup {"uReopenReaders", "iCloseReaders", "uReaders"}
        PROVE  Holds(u) # None /\ pc[u] \notin {"iFree", "uFree"}
    BY <1>1, GateAssumption DEF Jobs, Holds, NoReader, InstallPC, UninstallPC, RegisterPC
  <1> QED BY <1>1 DEF Ownership

LEMMA PublisherHolds ==
  ASSUME Jobs, NEW t \in Thread, pc[t] \in NoReader \cup {"uReopenReaders", "iCloseReaders", "uReaders"}
  PROVE  Holds(t) # None /\ pc[t] \notin {"iFree", "uFree"}
BY GateAssumption DEF Jobs, Holds, NoReader, InstallPC, UninstallPC, RegisterPC

\* A step that leaves the readers and their gate alone.
SameReaders ==
  /\ UNCHANGED <<processReaders, processOwner>>
  /\ \A u \in Thread :
       /\ pc'[u] \in {"reader", "dispatch", "failed"} <=> pc[u] \in {"reader", "dispatch", "failed"}
       /\ pc'[u] = "dispatch" => pc[u] = "dispatch" /\ reader'[u] = reader[u]
       /\ pc'[u] \in NoReader <=> pc[u] \in NoReader
       /\ pc'[u] = "uReopenReaders" <=> pc[u] = "uReopenReaders"

LEMMA ReadersStay ==
  ASSUME ReadersCounted, SameReaders
  PROVE  ReadersCounted'
  <1>1. Readers' = Readers
    BY DEF SameReaders, Readers, Reads
  <1>2. ReadersShut' <=> ReadersShut
    BY DEF SameReaders, ReadersShut
  <1>3. processReaders' = Cardinality(Readers') + IF ReadersShut' THEN Closed ELSE 0
    BY <1>1, <1>2 DEF SameReaders, ReadersCounted
  <1> QED BY <1>1, <1>3 DEF SameReaders, ReadersCounted

LEMMA RegisterSameReaders ==
  ASSUME TypeOK, NEW t \in Thread, RegisterStep(t)
  PROVE  SameReaders
  <1> USE DEF NoReader, SameReaders, TypeOK, gates, owners, locals, Pointer, NoJob, Goto, Start, MyModule,
      MyOwner, ForInstall, RegisterPC, UnregisterPC, InstallPC, UninstallPC
  <1>1. ASSUME NEW m \in Module, NEW i \in Installer, Attach(t, m, i) PROVE SameReaders
    BY <1>1 DEF Attach
  <1>2. CASE RegisterLock(t)
    BY <1>2 DEF RegisterLock
  <1>3. CASE RegisterCheck(t)
    BY <1>3 DEF RegisterCheck
  <1>4. CASE RegisterRetain(t)
    BY <1>4 DEF RegisterRetain
  <1>5. CASE RegisterServices(t)
    BY <1>5 DEF RegisterServices
  <1>6. CASE RegisterOpen(t)
    BY <1>6 DEF RegisterOpen
  <1>7. CASE RegisterDone(t)
    BY <1>7 DEF RegisterDone
  <1>8. CASE RegisterRefused(t)
    BY <1>8 DEF RegisterRefused
  <1> HIDE DEF SameReaders
  <1> QED BY <1>1, <1>2, <1>3, <1>4, <1>5, <1>6, <1>7, <1>8 DEF RegisterStep

LEMMA UnregisterSameReaders ==
  ASSUME TypeOK, NEW t \in Thread, UnregisterStep(t)
  PROVE  SameReaders
  <1> USE DEF NoReader, SameReaders, TypeOK, gates, owners, locals, Pointer, NoJob, Goto, Start, MyModule,
      MyOwner, ForInstall, RegisterPC, UnregisterPC, InstallPC, UninstallPC
  <1>1. ASSUME NEW m \in Module, Detach(t, m) PROVE SameReaders
    BY <1>1 DEF Detach
  <1>2. CASE UnregisterLock(t)
    BY <1>2 DEF UnregisterLock
  <1>3. CASE UnregisterCheck(t)
    BY <1>3 DEF UnregisterCheck
  <1>4. CASE UnregisterClose(t)
    BY <1>4 DEF UnregisterClose
  <1>5. CASE UnregisterServices(t)
    BY <1>5 DEF UnregisterServices
  <1>6. CASE UnregisterRelease(t)
    BY <1>6 DEF UnregisterRelease
  <1>7. CASE UnregisterDone(t)
    BY <1>7 DEF UnregisterDone
  <1>8. CASE UnregisterRefused(t)
    BY <1>8 DEF UnregisterRefused
  <1> HIDE DEF SameReaders
  <1> QED BY <1>1, <1>2, <1>3, <1>4, <1>5, <1>6, <1>7, <1>8 DEF UnregisterStep

LEMMA InstallSameReaders ==
  ASSUME TypeOK, NEW t \in Thread,
         InstallObserver(t) \/ InstallHandlers(t) \/ FreeStaged(t)
  PROVE  SameReaders
  <1> USE DEF NoReader, SameReaders, TypeOK, gates, owners, locals, Pointer, NoJob, Goto, Start, MyModule,
      MyOwner, ForInstall, RegisterPC, UnregisterPC, InstallPC, UninstallPC
  <1>1. CASE InstallObserver(t)
    BY <1>1 DEF InstallObserver
  <1>2. CASE InstallHandlers(t)
    BY <1>2 DEF InstallHandlers
  <1>3. CASE FreeStaged(t)
    BY <1>3 DEF FreeStaged
  <1> HIDE DEF SameReaders
  <1> QED BY <1>1, <1>2, <1>3

LEMMA UninstallSameReaders ==
  ASSUME TypeOK, NEW t \in Thread,
         Uninstall(t) \/ UninstallLock(t) \/ UninstallGate(t) \/ UninstallServices(t) \/ UninstallRelease(t) \/
         UninstallHandlers(t) \/ UninstallFree(t) \/ UninstallDone(t) \/ ReopenGate(t) \/
         ReopenRegistrations(t)
  PROVE  SameReaders
  <1> USE DEF NoReader, SameReaders, TypeOK, gates, owners, locals, Pointer, NoJob, Goto, Start, MyModule,
      MyOwner, ForInstall, RegisterPC, UnregisterPC, InstallPC, UninstallPC
  <1>1. CASE Uninstall(t)
    BY <1>1 DEF Uninstall
  <1>2. CASE UninstallLock(t)
    BY <1>2 DEF UninstallLock
  <1>3. CASE UninstallGate(t)
    BY <1>3 DEF UninstallGate
  <1>4. CASE UninstallServices(t)
    BY <1>4 DEF UninstallServices
  <1>5. CASE UninstallRelease(t)
    BY <1>5 DEF UninstallRelease
  <1>6. CASE UninstallHandlers(t)
    BY <1>6 DEF UninstallHandlers
  <1>7. CASE UninstallFree(t)
    BY <1>7 DEF UninstallFree
  <1>8. CASE UninstallDone(t)
    BY <1>8 DEF UninstallDone
  <1>9. CASE ReopenGate(t)
    BY <1>9 DEF ReopenGate
  <1>10. CASE ReopenRegistrations(t)
    <2>1. CASE Goto(t, "uReopen", "uClear")
      BY <1>10, <2>1 DEF ReopenRegistrations
    <2>2. CASE Goto(t, "uReopenUnlocked", "idle")
      BY <1>10, <2>2 DEF ReopenRegistrations
    <2> QED
      BY <1>10, <2>1, <2>2 DEF ReopenRegistrations
  <1> HIDE DEF SameReaders
  <1> QED BY <1>1, <1>2, <1>3, <1>4, <1>5, <1>6, <1>7, <1>8, <1>9, <1>10

\* The steps that turn the gate of the readers, or move a reader.
LEMMA InstallTurnsReaders ==
  ASSUME TypeOK, Jobs, Ownership, ReadersCounted, NEW t \in Thread,
         \/ \E o \in Owner : Install(t, o)
         \/ InstallReaders(t) \/ RollbackOwner(t)
         \/ RollbackReaders(t) /\ Readers = {}
  PROVE  ReadersCounted'
  <1> USE GateAssumption
  <1>0. Cardinality(Readers) \in Nat /\ (Cardinality(Readers) = 0 <=> Readers = {}) /\ Closed \in Nat /\ Closed > 0
    BY ReadersFinite
  <1>1. CASE \E o \in Owner : Install(t, o)
    <2>1. PICK o \in Owner : Install(t, o)
      BY <1>1
    <2>2. /\ pc[t] = "idle" /\ UNCHANGED <<processReaders, reader>>
          /\ pc' = [pc EXCEPT ![t] = IF processOwner = None THEN "iReaders" ELSE "iFree"]
          /\ processOwner' = IF processOwner = None THEN o ELSE processOwner
      BY <2>1 DEF Install, Start, locals
    <2>3. Readers' = Readers
      BY <2>2 DEF Readers, Reads, TypeOK
    <2>4. CASE processOwner # None
      <3>1. SameReaders
        BY <2>2, <2>4 DEF SameReaders, TypeOK, NoReader
      <3> QED BY <3>1, ReadersStay
    <2>5. CASE processOwner = None
      <3>1. ReadersShut /\ Readers = {} /\ pc'[t] = "iReaders"
        BY <2>2, <2>5 DEF ReadersShut, ReadersCounted, TypeOK
      <3>2. ReadersShut' /\ Readers' = {}
        BY <2>3, <3>1 DEF ReadersShut, NoReader
      <3>3. \A u \in Thread : pc'[u] # "dispatch"
        BY <3>2 DEF Readers, Reads
      <3>4. processReaders' = Cardinality(Readers) + Closed
        BY <2>2, <3>1 DEF ReadersCounted
      <3> QED BY <1>0, <2>3, <3>1, <3>2, <3>3, <3>4 DEF ReadersCounted
    <2> QED BY <2>4, <2>5
  <1>2. CASE InstallReaders(t)
    <2>1. /\ pc[t] = "iReaders" /\ pc' = [pc EXCEPT ![t] = "iObserve"] /\ processReaders' = 0
          /\ UNCHANGED <<processOwner, reader>>
      BY <1>2 DEF InstallReaders, Goto, locals
    <2>2. Readers = {}
      BY <2>1 DEF ReadersCounted, NoReader
    <2>3. Readers' = {}
      BY <2>1, <2>2 DEF Readers, Reads, TypeOK
    <2>4. processOwner # None /\ \A u \in Thread : pc[u] \in NoReader \cup {"uReopenReaders"} => u = t
      BY <2>1, PublisherHolds, OnePublishes DEF NoReader
    <2>5. \A u \in Thread : pc'[u] \notin NoReader \cup {"uReopenReaders"}
      BY <2>1, <2>4 DEF TypeOK, NoReader
    <2>6. ~ReadersShut'
      BY <2>1, <2>4, <2>5 DEF ReadersShut
    <2>7. \A u \in Thread : pc'[u] # "dispatch"
      BY <2>3 DEF Readers, Reads
    <2> QED BY <1>0, <2>1, <2>2, <2>3, <2>6, <2>7 DEF ReadersCounted
  <1>3. CASE RollbackOwner(t) \/ (RollbackReaders(t) /\ Readers = {})
    <2>1. /\ pc[t] \in {"iCloseReaders", "iClearOwner"} /\ reader' = reader
          /\ pc' = [pc EXCEPT ![t] = IF pc[t] = "iCloseReaders" THEN "iClearOwner" ELSE "iFree"]
          /\ processOwner' = IF pc[t] = "iCloseReaders" THEN processOwner ELSE None
          /\ processReaders' = IF pc[t] = "iCloseReaders" THEN Closed ELSE processReaders
      BY <1>3 DEF RollbackOwner, RollbackReaders, Goto, locals
    <2>2. Readers = {}
      BY <1>3, <2>1 DEF ReadersCounted, NoReader, RollbackOwner, Goto
    <2>3. Readers' = {}
      BY <2>1, <2>2 DEF Readers, Reads, TypeOK
    <2>4. ReadersShut'
      BY <2>1 DEF ReadersShut, NoReader, TypeOK
    <2>5. processReaders' = Closed
      <3>1. CASE pc[t] = "iClearOwner"
        <4>1. ReadersShut
          BY <3>1 DEF ReadersShut, NoReader
        <4> QED BY <1>0, <2>1, <2>2, <3>1, <4>1 DEF ReadersCounted
      <3> QED BY <2>1, <3>1
    <2>7. \A u \in Thread : pc'[u] # "dispatch"
      BY <2>3 DEF Readers, Reads
    <2> QED BY <1>0, <2>2, <2>3, <2>4, <2>5, <2>7 DEF ReadersCounted
  <1> QED BY <1>1, <1>2, <1>3

LEMMA UninstallTurnsReaders ==
  ASSUME TypeOK, Jobs, Ownership, ReadersCounted, NEW t \in Thread,
         UninstallReaders(t) \/ UninstallOwner(t) \/ ReopenReaders(t)
  PROVE  ReadersCounted'
  <1> USE GateAssumption
  <1>0. Cardinality(Readers) \in Nat /\ (Cardinality(Readers) = 0 <=> Readers = {}) /\ Closed \in Nat /\ Closed > 0
    BY ReadersFinite
  <1>p. /\ processOwner # None
        /\ \A u \in Thread : pc[u] \in NoReader \cup {"uReopenReaders", "iCloseReaders", "uReaders"} => u = t
    BY PublisherHolds, OnePublishes DEF UninstallReaders, UninstallOwner, ReopenReaders, Goto, NoReader
  <1>1. CASE UninstallReaders(t)
    <2>1. /\ pc[t] = "uReaders" /\ processReaders' = Shut(processReaders) /\ UNCHANGED <<processOwner, reader>>
          /\ pc' = [pc EXCEPT ![t] = IF processReaders = 0 THEN "uServices" ELSE "uReopenReaders"]
      BY <1>1 DEF UninstallReaders, Goto, locals
    <2>2. Readers' = Readers
      BY <2>1 DEF Readers, Reads, TypeOK
    <2>3. \A u \in Thread : pc[u] \notin NoReader \cup {"uReopenReaders"}
      BY <1>p, <2>1 DEF NoReader
    <2>4. ~ReadersShut
      BY <1>p, <2>3 DEF ReadersShut
    <2>5. processReaders = Cardinality(Readers) /\ Cardinality(Readers) < Closed
      BY <1>0, <2>4 DEF ReadersCounted
    <2>6. processReaders' = Cardinality(Readers) + Closed
      BY <1>0, <2>1, <2>5 DEF Shut
    <2>7. ReadersShut'
      BY <2>1 DEF ReadersShut, NoReader, TypeOK
    <2>8. (\E u \in Thread : pc'[u] \in NoReader) => Readers = {}
      BY <1>0, <2>1, <2>3, <2>5 DEF TypeOK, NoReader
    <2>9. \A u \in Thread : pc'[u] = "dispatch" => reader'[u] = processOwner'
      BY <2>1 DEF ReadersCounted, TypeOK
    <2> QED BY <1>p, <2>1, <2>2, <2>5, <2>6, <2>7, <2>8, <2>9 DEF ReadersCounted
  <1>2. CASE UninstallOwner(t)
    <2>1. /\ pc[t] = "uOwner" /\ pc' = [pc EXCEPT ![t] = "uFree"] /\ processOwner' = None
          /\ UNCHANGED <<processReaders, reader>>
      BY <1>2 DEF UninstallOwner, Goto, locals
    <2>2. Readers = {} /\ ReadersShut
      BY <2>1 DEF ReadersCounted, ReadersShut, NoReader
    <2>3. Readers' = {}
      BY <2>1, <2>2 DEF Readers, Reads, TypeOK
    <2>4. ReadersShut'
      BY <2>1 DEF ReadersShut
    <2>5. processReaders' = Cardinality(Readers) + Closed
      BY <2>1, <2>2 DEF ReadersCounted
    <2>7. \A u \in Thread : pc'[u] # "dispatch"
      BY <2>3 DEF Readers, Reads
    <2> QED BY <1>0, <2>2, <2>3, <2>4, <2>5, <2>7 DEF ReadersCounted
  <1>3. CASE ReopenReaders(t)
    <2>1. /\ pc[t] = "uReopenReaders" /\ pc' = [pc EXCEPT ![t] = "uReopenGate"]
          /\ processReaders' = Reopen(processReaders) /\ UNCHANGED <<processOwner, reader>>
      BY <1>3 DEF ReopenReaders, Goto, locals
    <2>2. Readers' = Readers
      BY <2>1 DEF Readers, Reads, TypeOK
    <2>3. processReaders = Cardinality(Readers) + Closed /\ Cardinality(Readers) < Closed
      BY <2>1 DEF ReadersCounted, ReadersShut
    <2>4. processReaders' = Cardinality(Readers)
      BY <1>0, <2>1, <2>3 DEF Reopen
    <2>5. \A u \in Thread : pc'[u] \notin NoReader \cup {"uReopenReaders"}
      BY <1>p, <2>1 DEF TypeOK, NoReader
    <2>6. ~ReadersShut'
      BY <1>p, <2>1, <2>5 DEF ReadersShut
    <2>7. \A u \in Thread : pc'[u] = "dispatch" => reader'[u] = processOwner'
      BY <2>1 DEF ReadersCounted, TypeOK
    <2> QED BY <1>0, <1>p, <2>1, <2>2, <2>3, <2>4, <2>5, <2>6, <2>7 DEF ReadersCounted
  <1> QED BY <1>1, <1>2, <1>3

LEMMA ReadersMove ==
  ASSUME TypeOK, Jobs, Ownership, ReadersCounted, NEW t \in Thread, ReaderStep(t)
  PROVE  ReadersCounted'
  <1> USE GateAssumption
  <1>0. /\ IsFiniteSet(Readers) /\ Cardinality(Readers) \in Nat /\ Closed \in Nat /\ Closed > 0
        /\ Cardinality(Readers) = 0 <=> Readers = {}
    BY ReadersFinite
  <1>1. CASE FetchHandler(t)
    <2>1. SameReaders
      BY <1>1 DEF FetchHandler, Goto, SameReaders, TypeOK, NoReader, gates, locals
    <2> QED BY <2>1, ReadersStay
  <1>2. CASE AcquireReader(t)
    <2>1. /\ pc[t] \in {"late", "idle"} /\ pc' = [pc EXCEPT ![t] = "reader"]
          /\ processReaders < Closed - 1 /\ processReaders' = processReaders + 1
          /\ UNCHANGED <<processOwner, reader>>
      BY <1>2 DEF AcquireReader, IsOpen, locals
    <2>2. ~ReadersShut /\ processReaders = Cardinality(Readers)
      BY <1>0, <2>1 DEF ReadersCounted
    <2>3. t \notin Readers /\ Readers' = Readers \cup {t}
      BY <2>1 DEF Readers, Reads, TypeOK
    <2>4. Cardinality(Readers') = Cardinality(Readers) + 1
      BY <1>0, <2>3, FS_AddElement
    <2>5. /\ processOwner' # None
          /\ \A u \in Thread : pc'[u] \notin NoReader \cup {"uReopenReaders"}
      BY <2>1, <2>2 DEF ReadersShut, TypeOK, NoReader
    <2>6. ~ReadersShut'
      BY <2>5 DEF ReadersShut
    <2>7. \A u \in Thread : pc'[u] = "dispatch" => reader'[u] = processOwner'
      BY <2>1 DEF ReadersCounted, TypeOK
    <2> QED BY <1>0, <2>1, <2>2, <2>4, <2>5, <2>6, <2>7 DEF ReadersCounted
  <1>3. CASE ReadOwner(t)
    <2>1. /\ pc[t] = "reader" /\ pc' = [pc EXCEPT ![t] = IF processOwner = None THEN "failed" ELSE "dispatch"]
          /\ reader' = [reader EXCEPT ![t] = processOwner] /\ UNCHANGED <<processReaders, processOwner>>
      BY <1>3 DEF ReadOwner, Goto, gates
    <2>2. Readers' = Readers /\ t \in Readers
      BY <2>1 DEF Readers, Reads, TypeOK
    <2>3. processOwner # None /\ pc'[t] = "dispatch" /\ reader'[t] = processOwner
      BY <2>1, <2>2 DEF ReadersCounted, TypeOK
    <2>4. \A u \in Thread \ {t} : pc'[u] = pc[u] /\ reader'[u] = reader[u]
      BY <2>1 DEF TypeOK
    <2>5. \A u \in Thread : pc'[u] \in NoReader \cup {"uReopenReaders"} <=> pc[u] \in NoReader \cup {"uReopenReaders"}
      BY <2>1, <2>3, <2>4 DEF NoReader
    <2>6. \A u \in Thread : pc'[u] \notin NoReader
      BY <2>2, <2>3, <2>4 DEF ReadersCounted, NoReader
    <2>7. ReadersShut' <=> ReadersShut
      BY <2>1, <2>5 DEF ReadersShut
    <2>8. processReaders' = Cardinality(Readers') + IF ReadersShut' THEN Closed ELSE 0
      BY <2>1, <2>2, <2>7 DEF ReadersCounted
    <2>9. \A u \in Thread : pc'[u] = "dispatch" => reader'[u] = processOwner'
      BY <2>1, <2>3, <2>4 DEF ReadersCounted
    <2> QED BY <2>1, <2>2, <2>3, <2>6, <2>8, <2>9 DEF ReadersCounted
  <1> QED BY <1>1, <1>2, <1>3 DEF ReaderStep

\* Everything else leaves the readers alone.
LEMMA ReadersStep ==
  ASSUME LifeInv, ReadersCounted, [Next]_vars,
         \A t \in Thread : pc[t] = "iCloseReaders" => Readers = {}
  PROVE  ReadersCounted'
  <1>1. TypeOK /\ GateInv /\ Jobs /\ Ownership
    BY DEF LifeInv, GateInv
  <1>2. ASSUME NEW t \in Thread, ScopeStep(t) PROVE ReadersCounted'
    <2>1. SameReaders
      BY <1>1, <1>2, ScopeAside DEF SameReaders, Aside, GateSteps, ReaderPC, NoReader, InstallPC, UninstallPC
    <2> QED BY <2>1, ReadersStay
  <1>3. ASSUME NEW t \in Thread, ReaderStep(t) PROVE ReadersCounted'
    BY <1>1, <1>3, ReadersMove
  <1>4. ASSUME NEW t \in Thread, RegisterStep(t) \/ UnregisterStep(t) PROVE ReadersCounted'
    BY <1>1, <1>4, RegisterSameReaders, UnregisterSameReaders, ReadersStay
  <1>5. ASSUME NEW t \in Thread, InstallStep(t) PROVE ReadersCounted'
    <2>1. RollbackReaders(t) => Readers = {}
      BY DEF RollbackReaders, Goto
    <2> QED BY <1>1, <1>5, <2>1, InstallSameReaders, InstallTurnsReaders, ReadersStay DEF InstallStep
  <1>6. ASSUME NEW t \in Thread, UninstallStep(t) PROVE ReadersCounted'
    BY <1>1, <1>6, UninstallSameReaders, UninstallTurnsReaders, ReadersStay DEF UninstallStep
  <1>7. CASE UNCHANGED vars
    <2>1. SameReaders
      BY <1>7 DEF SameReaders, vars, gates, owners, locals
    <2> QED BY <2>1, ReadersStay
  <1> QED BY <1>2, <1>3, <1>4, <1>5, <1>6, <1>7 DEF Next

-----------------------------------------------------------------------------
(* A rollback finds no reader.                                             *)

\* While an owner is being installed none is, so there is no handler.
LEMMA NotYetHandled ==
  ASSUME Jobs, Ownership, Tenure, NEW t \in Thread, pc[t] = "iCloseReaders"
  PROVE  ~handler
  <1>1. Holds(t) # None /\ pc[t] \notin {"iFree", "uFree"} /\ Holds(t) = MyOwner(t) /\ hooks[t] = None
    BY PublisherHolds DEF Jobs, Holds, InstallPC
  <1>2. ASSUME NEW i \in Thread, hooks[i] # None, pc[i] \notin {"uOwner", "uFree"} PROVE FALSE
    <2>1. Holds(i) = hooks[i] /\ pc[i] \notin {"iFree", "uFree"}
      BY <1>2 DEF Jobs, Holds, InstallPC
    <2> QED BY <1>1, <1>2, <2>1 DEF Ownership
  <1> QED BY <1>2 DEF Tenure, Handled

LEMMA HandlerStays ==
  ASSUME NEW t \in Thread, RegisterStep(t) \/ UnregisterStep(t) \/ InstallStep(t) \/ UninstallStep(t),
         ~UninstallHandlers(t)
  PROVE  handler => handler'
BY DEF RegisterStep, Attach, RegisterLock, RegisterCheck, RegisterRetain, RegisterServices, RegisterOpen, RegisterDone,
   RegisterRefused, UnregisterStep, Detach, UnregisterLock, UnregisterCheck, UnregisterClose, UnregisterServices,
   UnregisterRelease, UnregisterDone, UnregisterRefused, InstallStep, Install, InstallReaders, InstallObserver,
   InstallHandlers, RollbackReaders, RollbackOwner, FreeStaged, UninstallStep, Uninstall, UninstallLock, UninstallGate,
   UninstallReaders, UninstallServices, UninstallRelease, UninstallOwner, UninstallFree, UninstallDone, ReopenReaders,
   ReopenGate, ReopenRegistrations, owners

\* None of these operations enters a handler.
LEMMA GateStepReads ==
  ASSUME TypeOK, Control, GateStaysShut, Serving, NEW t \in Thread,
         RegisterStep(t) \/ UnregisterStep(t) \/ InstallStep(t) \/ UninstallStep(t)
  PROVE  \A u \in Thread : (pc'[u] = "late" => pc[u] = "late") /\ (Reads(u)' => Reads(u))
  <1>1. \A u \in Thread \ {t} : pc'[u] = pc[u]
    BY RegisterAccounts, UnregisterAccounts, InstallAccounts, UninstallAccounts DEF Accounts, Control
  <1>2. pc'[t] \notin {"late", "reader", "dispatch", "failed"}
    <2>1. CASE RegisterStep(t)
      BY <2>1 DEF TypeOK, Goto, Start, RegisterStep, Attach, RegisterLock, RegisterCheck, RegisterRetain,
         RegisterServices, RegisterOpen, RegisterDone, RegisterRefused
    <2>2. CASE UnregisterStep(t)
      BY <2>2 DEF TypeOK, Goto, Start, UnregisterStep, Detach, UnregisterLock, UnregisterCheck,
         UnregisterClose, UnregisterServices, UnregisterRelease, UnregisterDone, UnregisterRefused
    <2>3. CASE InstallStep(t)
      BY <2>3 DEF TypeOK, Goto, Start, InstallStep, Install, InstallReaders, InstallObserver, InstallHandlers,
         RollbackReaders, RollbackOwner, FreeStaged
    <2>4. CASE UninstallStep(t)
      BY <2>4 DEF TypeOK, Goto, Start, UninstallStep, Uninstall, UninstallLock, UninstallGate,
         UninstallReaders, UninstallServices, UninstallRelease, UninstallHandlers, UninstallOwner,
         UninstallFree, UninstallDone, ReopenReaders, ReopenGate, ReopenRegistrations
    <2> QED BY <2>1, <2>2, <2>3, <2>4
  <1> QED BY <1>1, <1>2 DEF Reads

LEMMA PromptStep ==
  ASSUME LifeInv, ReadersCounted, Prompt, ~LateHandler, [Next]_vars
  PROVE  Prompt'
  <1>1. TypeOK /\ GateInv
    BY DEF LifeInv, GateInv
  <1>2. ASSUME NEW t \in Thread, ScopeStep(t) PROVE Prompt'
    BY <1>1, <1>2, ScopeAside DEF Prompt, Reads, Aside, ReaderPC
  <1>3. ASSUME NEW t \in Thread, ReaderStep(t) PROVE Prompt'
    <2>1. CASE AcquireReader(t)
      <3>1. pc[t] = "idle" /\ handler /\ handler' = handler /\ pc' = [pc EXCEPT ![t] = "reader"]
        BY <2>1 DEF AcquireReader, Prompt, owners
      <3> QED BY <1>1, <3>1 DEF Prompt, Reads, TypeOK
    <2>2. CASE ReadOwner(t)
      <3>1. /\ pc[t] = "reader" /\ handler' = handler
            /\ pc' = [pc EXCEPT ![t] = IF processOwner = None THEN "failed" ELSE "dispatch"]
        BY <2>2 DEF ReadOwner, Goto, owners
      <3> QED BY <1>1, <3>1 DEF Prompt, Reads, TypeOK
    <2> QED BY <1>3, <2>1, <2>2 DEF ReaderStep, FetchHandler
  <1>4. ASSUME NEW t \in Thread, RegisterStep(t) \/ UnregisterStep(t) \/ InstallStep(t) \/ UninstallStep(t)
        PROVE  Prompt'
    <2>1. \A u \in Thread : pc'[u] # "late" /\ (Reads(u)' => Reads(u))
      BY <1>1, <1>4, GateStepReads DEF Prompt, LifeInv, GateInv
    <2>2. CASE UninstallHandlers(t)
      <3>1. Readers = {}
        BY <2>2 DEF UninstallHandlers, Goto, ReadersCounted, NoReader
      <3> QED BY <2>1, <3>1 DEF Prompt, Readers
    <2>3. CASE ~UninstallHandlers(t)
      <3>1. handler => handler'
        BY <1>4, <2>3, HandlerStays
      <3> QED BY <2>1, <3>1 DEF Prompt
    <2> QED BY <2>2, <2>3
  <1>5. CASE UNCHANGED vars
    BY <1>5 DEF vars, owners, Prompt, Reads
  <1> QED BY <1>2, <1>3, <1>4, <1>5 DEF Next

-----------------------------------------------------------------------------
(* One installer is never rolled back.                                     *)

\* What another thread holds was installed by an installer, so by this one.
LEMMA OnlyOneHolds ==
  ASSUME TypeOK, Tenure, OneInstaller, NEW t \in Installer, NEW o \in live
  PROVE  Holds(t) = o
  <1>1. PICK u \in Thread : Holds(u) = o
    BY DEF Tenure, Held
  <1>2. o # None
    BY GateAssumption DEF TypeOK
  <1>3. u \in Installer
    BY <1>1, <1>2 DEF Holds, Tenure, InstallersHold
  <1> QED BY <1>1, <1>3 DEF OneInstaller

\* An Install finds the process and the host's gate free, and registers.
LEMMA InstallGoesOn ==
  ASSUME LifeInv, Tenure, Access, OneInstaller, NEW t \in Thread, ForInstall(t)
  PROVE  /\ pc[t] = "rUpdate" => ~update[HostModule]
         /\ pc[t] = "rCheck" => services[HostModule] = None /\ gate[HostModule] = Closed
         /\ pc[t] = "rRetain" => IsOpen(registrations[MyOwner(t)])
  <1>1. /\ TypeOK /\ Control /\ Jobs /\ Ownership /\ Serving /\ Attachments /\ Registering /\ Counted /\ Kept /\ GateIsExact
        /\ hooks[t] = None /\ MyOwner(t) \in Owner /\ Holds(t) = MyOwner(t) /\ t \in Installer /\ t \in Thread
    BY DEF LifeInv, GateInv, Jobs, Holds, Tenure, InstallersHold
  <1>2. ASSUME NEW u \in Thread, hooks[u] # None PROVE FALSE
    <2>1. u \in Installer
      BY <1>2 DEF Tenure, InstallersHold
    <2> QED BY <1>1, <1>2, <2>1 DEF OneInstaller
  <1>3. ASSUME pc[t] = "rUpdate", update[HostModule] PROVE FALSE
    <2>1. PICK u \in Thread : pc[u] \in LockedPC /\ MyModule(u) = HostModule
      BY <1>3, GateAssumption DEF Access, Locked
    <2>2. CASE pc[u] \in RegisterPC /\ ForInstall(u)
      <3>1. u = t
        BY <1>1, <2>2 DEF Tenure, InstallersHold, OneInstaller
      <3> QED BY <1>3, <2>1, <3>1 DEF LockedPC
    <2>3. CASE pc[u] \in RegisterPC /\ ~ForInstall(u)
      <3>1. PICK i \in Thread : hooks[i] = MyOwner(u)
        BY <1>1, <2>3 DEF Registering
      <3>2. MyOwner(u) \in Owner
        BY <1>1, <2>3 DEF Jobs
      <3> QED BY <1>2, <3>1, <3>2, GateAssumption
    <2>4. CASE pc[u] \in UnregisterPC
      BY <1>1, <2>1, <2>4 DEF Jobs, Attachments
    <2>5. CASE pc[u] \in UninstallPC
      <3>1. u \in Installer
        BY <2>5 DEF Tenure, InstallersHold
      <3>2. u = t
        BY <1>1, <3>1 DEF OneInstaller
      <3> QED BY <1>3, <2>5, <3>2 DEF UninstallPC
    <2> QED BY <2>1, <2>2, <2>3, <2>4, <2>5 DEF LockedPC, RegisterPC, UnregisterPC, UninstallPC
  <1>4. ASSUME pc[t] \in {"rCheck", "rRetain"} PROVE RegisteredWith(MyOwner(t)) = {}
    BY <1>1, <1>4 DEF Kept, Unserved
  <1>5. ASSUME pc[t] = "rCheck" PROVE services[HostModule] = None /\ gate[HostModule] = Closed
    <2>1. services[HostModule] = None
      <3> SUFFICES ASSUME services[HostModule] # None PROVE FALSE
        OBVIOUS
      <3>1. services[HostModule] \in live
        BY ServedLives, GateAssumption
      <3>2. services[HostModule] = MyOwner(t)
        BY <1>1, <3>1, OnlyOneHolds
      <3>3. HostModule \in RegisteredWith(MyOwner(t))
        BY <3>2, GateAssumption DEF RegisteredWith
      <3> QED BY <1>4, <1>5, <3>3
    <2>2. ~(gate[HostModule] < Closed)
      BY <1>1, <2>1, GateAssumption DEF Serving
    <2> QED BY <1>1, <2>1, <2>2, GateAssumption DEF GateIsExact
  <1>6. ASSUME pc[t] = "rRetain" PROVE IsOpen(registrations[MyOwner(t)])
    <2>1. MyOwner(t) \in live
      BY <1>1, GateAssumption DEF Ownership
    <2>2. ~Leaving(MyOwner(t))
      BY <1>1, <1>2, GateAssumption DEF Leaving
    <2>3. Cardinality(RegisteredWith(MyOwner(t))) = 0
      BY <1>4, <1>6, FS_EmptySet
    <2>4. registrations[MyOwner(t)] = 0
      BY <1>1, <2>1, <2>2, <2>3 DEF Counted
    <2> QED BY <2>4, GateAssumption DEF IsOpen
  <1> QED BY <1>3, <1>5, <1>6

LEMMA NoRollbackStep ==
  ASSUME LifeInv, Tenure, Access, OneInstaller, NoRollback, [Next]_vars
  PROVE  NoRollback'
  <1>0. TypeOK /\ GateInv /\ Jobs /\ Control /\ GateStaysShut /\ Serving /\ Ownership
    BY DEF LifeInv, GateInv
  <1>1. ASSUME NEW t \in Thread, \A u \in Thread \ {t} : pc'[u] = pc[u] /\ job'[u] = job[u],
               pc'[t] \notin {"iCloseReaders", "iClearOwner", "iFree"}, ForInstall(t)' => pc'[t] # "rRefuse"
        PROVE  NoRollback'
    BY <1>1 DEF NoRollback, ForInstall
  <1>2. ASSUME NEW t \in Thread, ScopeStep(t) \/ ReaderStep(t) PROVE NoRollback'
    <2>1. Aside(t)
      BY <1>0, <1>2, ScopeAside, ReaderAside
    <2> QED BY <1>1, <2>1 DEF Aside, GateSteps, RegisterPC, InstallPC
  <1>3. ASSUME NEW t \in Thread, RegisterStep(t) PROVE NoRollback'
    <2>1. \A u \in Thread \ {t} : pc'[u] = pc[u] /\ job'[u] = job[u]
      BY <1>0, <1>3, RegisterAccounts DEF Accounts, Control
    <2>2. ForInstall(t) => MyModule(t) = HostModule /\ pc[t] # "rRefuse"
      BY <1>0 DEF Jobs, NoRollback
    <2>3. ASSUME NEW m \in Module, NEW i \in Installer, Attach(t, m, i)
          PROVE  pc'[t] = "rUpdate"
      BY <1>0, <2>3 DEF Attach, Start, TypeOK
    <2>4. CASE RegisterLock(t)
      <3>1. pc'[t] \notin {"iCloseReaders", "iClearOwner", "iFree", "rRefuse"}
        BY <1>0, <2>2, <2>4, InstallGoesOn DEF RegisterLock, Goto, TypeOK
      <3> QED BY <1>1, <2>1, <3>1
    <2>5. CASE RegisterCheck(t)
      <3>1. /\ pc'[t] \notin {"iCloseReaders", "iClearOwner", "iFree"} /\ job' = job
            /\ ForInstall(t) => pc'[t] # "rRefuse"
        BY <1>0, <2>2, <2>5, InstallGoesOn DEF RegisterCheck, Goto, TypeOK
      <3> QED BY <1>1, <2>1, <3>1 DEF ForInstall
    <2>6. CASE RegisterRetain(t)
      <3>1. /\ pc'[t] \notin {"iCloseReaders", "iClearOwner", "iFree"} /\ job' = job
            /\ ForInstall(t) => pc'[t] # "rRefuse"
        BY <1>0, <2>6, InstallGoesOn DEF RegisterRetain, Goto, TypeOK
      <3> QED BY <1>1, <2>1, <3>1 DEF ForInstall
    <2>7. CASE RegisterServices(t) \/ RegisterOpen(t) \/ RegisterDone(t) \/ RegisterRefused(t)
      <3>1. pc'[t] \notin {"iCloseReaders", "iClearOwner", "iFree", "rRefuse"}
        BY <1>0, <2>2, <2>7 DEF RegisterServices, RegisterOpen, RegisterDone, RegisterRefused, Goto, TypeOK
      <3> QED BY <1>1, <2>1, <3>1
    <2> QED BY <1>1, <1>3, <2>1, <2>3, <2>4, <2>5, <2>6, <2>7 DEF RegisterStep
  <1>4. ASSUME NEW t \in Thread, UnregisterStep(t) PROVE NoRollback'
    <2>1. \A u \in Thread \ {t} : pc'[u] = pc[u] /\ job'[u] = job[u]
      BY <1>0, <1>4, UnregisterAccounts DEF Accounts, Control
    <2>2. pc'[t] \notin {"iCloseReaders", "iClearOwner", "iFree", "rRefuse"}
      BY <1>0, <1>4 DEF TypeOK, Goto, Start, UnregisterStep, Detach, UnregisterLock, UnregisterCheck, UnregisterClose,
         UnregisterServices, UnregisterRelease, UnregisterDone, UnregisterRefused
    <2> QED BY <1>1, <2>1, <2>2
  <1>5. ASSUME NEW t \in Thread, InstallStep(t) PROVE NoRollback'
    <2>1. \A u \in Thread \ {t} : pc'[u] = pc[u] /\ job'[u] = job[u]
      BY <1>0, <1>5, InstallAccounts DEF Accounts, Control
    <2>2. ASSUME NEW o \in Owner, Install(t, o) PROVE pc'[t] = "iReaders"
      <3>1. /\ t \in Installer /\ hooks[t] = None /\ pc[t] = "idle"
            /\ pc' = [pc EXCEPT ![t] = IF processOwner = None THEN "iReaders" ELSE "iFree"]
        BY <2>2 DEF Install, Start
      <3>2. Holds(t) = None
        BY <1>0, <3>1 DEF Jobs, Holds, InstallPC, RegisterPC
      <3>3. processOwner = None
        BY <1>0, <3>1, <3>2, OnlyOneHolds, GateAssumption DEF Ownership, TypeOK
      <3> QED BY <1>0, <3>1, <3>3 DEF TypeOK
    <2>3. ASSUME InstallReaders(t) \/ InstallObserver(t) \/ InstallHandlers(t)
          PROVE  pc'[t] \in {"iObserve", "rUpdate", "idle"}
      BY <1>0, <2>3 DEF InstallReaders, InstallObserver, InstallHandlers, Goto, OneInstaller, TypeOK
    <2>4. ~RollbackReaders(t) /\ ~RollbackOwner(t) /\ ~FreeStaged(t)
      BY DEF RollbackReaders, RollbackOwner, FreeStaged, Goto, NoRollback
    <2> QED BY <1>1, <1>5, <2>1, <2>2, <2>3, <2>4 DEF InstallStep
  <1>6. ASSUME NEW t \in Thread, UninstallStep(t) PROVE NoRollback'
    <2>1. \A u \in Thread \ {t} : pc'[u] = pc[u] /\ job'[u] = job[u]
      BY <1>0, <1>6, UninstallAccounts DEF Accounts, Control
    <2>2. pc'[t] \notin {"iCloseReaders", "iClearOwner", "iFree", "rRefuse"}
      BY <1>0, <1>6 DEF TypeOK, Goto, Start, UninstallStep, Uninstall, UninstallLock, UninstallGate, UninstallReaders,
         UninstallServices, UninstallRelease, UninstallHandlers, UninstallOwner, UninstallFree, UninstallDone,
         ReopenReaders, ReopenGate, ReopenRegistrations
    <2> QED BY <1>1, <2>1, <2>2
  <1>7. CASE UNCHANGED vars
    BY <1>7 DEF vars, NoRollback, ForInstall
  <1> QED BY <1>2, <1>3, <1>4, <1>5, <1>6, <1>7 DEF Next

-----------------------------------------------------------------------------
(* The gates at rest.                                                      *)

RestInv ==
  /\ LifeInv /\ Tenure /\ Access
  /\ Orderly => ReadersCounted
  /\ ~LateHandler => Prompt
  /\ OneInstaller => NoRollback

LEMMA RestInit == Init => RestInv
  <1> SUFFICES ASSUME Init PROVE RestInv
    OBVIOUS
  <1>1. Tenure /\ Access
    BY DEF Init, Tenure, InstallersHold, Held, Handled, Access, Locked, ServedOpenly, ForInstall, NoJob, UninstallPC
  <1>2. Readers = {} /\ ReadersShut
    BY DEF Init, Readers, Reads, ReadersShut
  <1>3. Cardinality(Readers) = 0
    BY <1>2, FS_EmptySet
  <1>4. ReadersCounted
    BY <1>2, <1>3, GateAssumption DEF Init, ReadersCounted
  <1>5. Prompt /\ NoRollback
    BY DEF Init, Prompt, Reads, NoRollback, ForInstall, NoJob
  <1> QED BY <1>1, <1>4, <1>5, LifeInit DEF RestInv

LEMMA TenureStep ==
  ASSUME LifeInv, Tenure, [Next]_vars
  PROVE  Tenure'
  <1>1. TypeOK /\ GateInv /\ Jobs /\ Ownership
    BY DEF LifeInv, GateInv
  <1>2. ASSUME NEW t \in Thread, ScopeStep(t) \/ ReaderStep(t) PROVE Tenure'
    BY <1>1, <1>2, ScopeAside, ReaderAside, AsideTenure
  <1>3. ASSUME NEW t \in Thread, RegisterStep(t) \/ UnregisterStep(t) PROVE Tenure'
    BY <1>1, <1>3, RegisterTenure, UnregisterTenure, TenureStays
  <1>4. ASSUME NEW t \in Thread, InstallStep(t) \/ UninstallStep(t) PROVE Tenure'
    BY <1>1, <1>4, InstallTenure, UninstallTenure, TenureTurns, TenureStays DEF InstallStep, UninstallStep
  <1>5. CASE UNCHANGED vars
    <2>1. SameTenure
      BY <1>5 DEF SameTenure, vars, owners, Holds, ForInstall, MyOwner
    <2> QED BY <2>1, TenureStays
  <1> QED BY <1>2, <1>3, <1>4, <1>5 DEF Next

LEMMA AccessStep ==
  ASSUME LifeInv, Access, [Next]_vars
  PROVE  Access'
  <1>1. TypeOK /\ GateInv /\ UninstallsHost /\ GateStaysShut /\ Serving
    BY DEF LifeInv, GateInv, Control
  <1>2. ASSUME NEW t \in Thread, ScopeStep(t) \/ ReaderStep(t) PROVE Access'
    BY <1>1, <1>2, ScopeAside, ReaderAside, AsideAccess
  <1>3. ASSUME NEW t \in Thread, RegisterStep(t) \/ UnregisterStep(t) \/ InstallStep(t) \/ UninstallStep(t)
        PROVE  Access'
    BY <1>1, <1>3, RegisterAccounts, UnregisterAccounts, InstallAccounts, UninstallAccounts, AccessMoves
  <1>4. CASE UNCHANGED vars
    BY <1>4 DEF vars, gates, Access, Locked, ServedOpenly, MyModule
  <1> QED BY <1>2, <1>3, <1>4 DEF Next

LEMMA RestStep == RestInv /\ [Next]_vars => RestInv'
  <1> SUFFICES ASSUME RestInv, [Next]_vars PROVE RestInv'
    OBVIOUS
  <1>1. LifeInv' /\ Tenure' /\ Access'
    BY LifeStep, TenureStep, AccessStep DEF RestInv
  <1>2. ASSUME Orderly PROVE ReadersCounted'
    <2>1. ASSUME NEW t \in Thread, pc[t] = "iCloseReaders" PROVE Readers = {}
      <3>1. CASE ~LateHandler
        <4>1. ~handler
          BY <2>1, NotYetHandled DEF RestInv, LifeInv
        <4> QED BY <3>1, <4>1 DEF RestInv, Prompt, Readers
      <3>2. CASE OneInstaller
        BY <2>1, <3>2 DEF RestInv, NoRollback
      <3> QED BY <1>2, <3>1, <3>2 DEF Orderly
    <2> QED BY <1>2, <2>1, ReadersStep DEF RestInv
  <1>3. ASSUME ~LateHandler PROVE Prompt'
    BY <1>3, PromptStep DEF RestInv, Orderly
  <1>4. ASSUME OneInstaller PROVE NoRollback'
    BY <1>4, NoRollbackStep DEF RestInv
  <1>5. (Orderly' <=> Orderly) /\ (OneInstaller' <=> OneInstaller)
    BY DEF Orderly, OneInstaller
  <1> QED BY <1>1, <1>2, <1>3, <1>4, <1>5 DEF RestInv

\* The invariant from which the last three theorems follow. It holds of every
\* instance; what it says of readers is conditional on Orderly.
THEOREM RestInvariant == Spec => []RestInv
  BY RestInit, RestStep, PTL DEF Spec

\* Where no thread enters a handler that Uninstall has replaced, or one thread
\* installs and the system lets it, the state that a handler dispatches to is
\* allocated (Failure.cpp:178-179, 575-588): for any threads, modules and owners.
THEOREM ReadersAreLive == Orderly => (Spec => []ReaderOwnerLive)
  <1> SUFFICES ASSUME Orderly PROVE Spec => []ReaderOwnerLive
    OBVIOUS
  <1>1. RestInv => ReaderOwnerLive
    BY DEF RestInv, LifeInv, Ownership, ReadersCounted, ReaderOwnerLive
  <1> QED
    BY <1>1, RestInvariant, PTL

\* Under the same condition nothing that is pinned, attached or obtained by a
\* handler is freed under its user (Failure.cpp:178-179, 575-588, 613-627).
THEOREM OwnersAreLive == Orderly => (Spec => []OwnersInUseLive)
  <1> SUFFICES ASSUME Orderly PROVE Spec => []OwnersInUseLive
    OBVIOUS
  <1>1. RestInv /\ ReaderOwnerLive => OwnersInUseLive
    BY LifeIsPinned, LifeIsAttached DEF OwnersInUseLive, RestInv
  <1> QED
    BY <1>1, ReadersAreLive, RestInvariant, PTL

\* Rest is consistent under the same condition: whatever was refused, rolled
\* back or reopened on the way, when no operation is under way an owner is
\* installed, handled, registered, readable and counted, or there is none and
\* everything is shut (Failure.cpp:575-588, 601-627).
THEOREM GatesAgreeAtRest == Orderly => (Spec => []RestIsConsistent)
  <1> SUFFICES ASSUME Orderly PROVE Spec => []RestIsConsistent
    OBVIOUS
  <1>1. RestInv => RestIsConsistent
    <2> SUFFICES ASSUME RestInv, \A t \in Thread : pc[t] \in {"idle", "dispatch"} PROVE RestIsConsistent
      BY DEF RestIsConsistent
    <2> USE GateAssumption
    <2>0. /\ TypeOK /\ GateInv /\ Jobs /\ Ownership /\ Serving /\ Installed /\ Counted /\ Kept /\ GateIsExact
          /\ Tenure /\ Access /\ ReadersCounted
      BY DEF RestInv, LifeInv, GateInv
    <2>1. /\ \A t \in Thread : ~ForInstall(t) /\ Holds(t) = hooks[t]
          /\ \A t \in Thread : pc[t] \notin UninstallPC
      BY <2>0 DEF Jobs, Holds, InstallPC, RegisterPC, UninstallPC
    <2>2. \A t \in Thread : hooks[t] # None => hooks[t] \in live /\ processOwner = hooks[t]
      BY <2>0, <2>1 DEF Ownership
    <2>3. \A o \in live : o # None /\ \E t \in Thread : hooks[t] = o
      BY <2>0, <2>1 DEF Tenure, Held, TypeOK
    <2>4. live = {hooks[t] : t \in Thread} \ {None}
      BY <2>2, <2>3
    <2>5. live = {processOwner} \ {None}
      BY <2>0, <2>2, <2>3 DEF Ownership
    <2>6. handler <=> processOwner # None
      <3>1. ASSUME handler PROVE processOwner # None
        BY <2>0, <2>2, <3>1 DEF Tenure, Handled
      <3>2. ASSUME processOwner # None PROVE handler
        <4>1. PICK t \in Thread : hooks[t] = processOwner
          BY <2>3, <2>5, <3>2
        <4> QED BY <2>0, <2>1, <3>2, <4>1 DEF Tenure, Handled, UninstallPC
      <3> QED BY <3>1, <3>2
    <2>7. \A m \in Module : services[m] # None => services[m] \in live
      BY ServedLives DEF RestInv
    <2>8. services[HostModule] = processOwner
      <3>1. CASE processOwner = None
        BY <2>5, <2>7, <3>1
      <3>2. CASE processOwner # None
        <4>1. PICK t \in Thread : hooks[t] = processOwner
          BY <2>3, <2>5, <3>2
        <4> QED BY <2>0, <2>1, <3>2, <4>1 DEF Installed, UninstallPC
      <3> QED BY <3>1, <3>2
    <2>9. processReaders = IF processOwner = None THEN Closed ELSE Cardinality({t \in Thread : pc[t] = "dispatch"})
      <3>1. Readers = {t \in Thread : pc[t] = "dispatch"}
        BY DEF Readers, Reads
      <3>2. ReadersShut <=> processOwner = None
        BY DEF ReadersShut, NoReader
      <3>3. processOwner = None => Cardinality(Readers) = 0
        BY <2>0, FS_EmptySet DEF ReadersCounted
      <3>4. Cardinality(Readers) \in Nat
        BY <2>0, ReadersFinite
      <3> QED BY <2>0, <3>1, <3>2, <3>3, <3>4 DEF ReadersCounted
    <2>10. \A m \in Module : ~update[m]
      BY <2>0 DEF Access, Locked, LockedPC
    <2>11. ASSUME NEW m \in Module PROVE services[m] = None <=> gate[m] = Closed
      <3>1. services[m] = None => gate[m] = Closed
        BY <2>0 DEF Serving, GateIsExact
      <3>2. gate[m] = Closed => services[m] = None
        BY <2>0 DEF Access, ServedOpenly, ClosedPC
      <3> QED BY <3>1, <3>2
    <2>12. ASSUME NEW o \in live PROVE registrations[o] = Cardinality({m \in Module : services[m] = o})
      <3>1. RegisteredWith(o) = {m \in Module : services[m] = o}
        BY DEF RegisteredWith, Registers
      <3>2. ~Leaving(o)
        BY <2>1 DEF Leaving, Uninstalling
      <3>3. Cardinality(RegisteredWith(o)) \in Nat
        BY RegisteredFinite
      <3> QED BY <2>0, <3>1, <3>2, <3>3 DEF Counted
    <2>13. handler = (processOwner # None) /\ \A m \in Module : (services[m] = None) = (gate[m] = Closed)
      BY <2>0, <2>6, <2>11 DEF TypeOK
    <2> QED BY <2>4, <2>5, <2>7, <2>8, <2>9, <2>10, <2>12, <2>13 DEF RestIsConsistent
  <1> QED
    BY <1>1, RestInvariant, PTL

=============================================================================
