--------------------------- MODULE FatalDispatch ---------------------------
(***************************************************************************)
(* The fatal dispatch of src/src/Foundation/Failure.cpp.                   *)
(*                                                                         *)
(* A thread that fails captures a record and enters Dispatch of the        *)
(* installed ProcessState: the first one keeps its record, publishes it,   *)
(* calls the application's reporter and ends the process; the others wait  *)
(* for that and end it with the first record.  Nothing here ever returns.  *)
(*                                                                         *)
(* This module has no clock and takes the reporter for a call that returns *)
(* or fails itself; FatalReport adds the time-outs and the reporter of the *)
(* sample host.  FailureGate shows that a state which threads are inside   *)
(* stays allocated and cannot be uninstalled.                              *)
(***************************************************************************)
EXTENDS Naturals

CONSTANTS
  Thread,    \* the threads that may fail
  Unhosted,  \* those that run a module without a registered host
  Nobody     \* no thread

ASSUME DispatchAssumption ==
  /\ Unhosted \subseteq Thread
  /\ Nobody \notin Thread

VARIABLES
  installed,       \* is the ProcessState installed?
  fatalState,      \* ProcessState.fatalState: 0, 1 claimed, 2 published
  fatalThread,     \* ProcessState.fatalThread
  firstFailure,    \* ProcessState.firstFailure
  reportComplete,  \* is the event reportComplete set?
  pc,              \* where each thread stands
  record,          \* the Record each thread will end the process with
  ended            \* which thread has ended the process, and with which record

vars == <<installed, fatalState, fatalThread, firstFailure, reportComplete, pc, record, ended>>
publication == <<fatalState, fatalThread, firstFailure, reportComplete>>

\* A record is told by its thread, and by whether the reporter itself failed.
Record   == [thread : Thread, nested : BOOLEAN]
NoRecord == [thread |-> Nobody, nested |-> FALSE]
Running  == ended.by = Nobody

\* The places of a thread inside Dispatch; "exit" is the way into HardFail.
DispatchPC == {"claim", "lost", "wait", "woken", "won", "kept", "report", "signal"}

TypeOK ==
  /\ installed \in BOOLEAN
  /\ fatalState \in 0 .. 2
  /\ fatalThread \in Thread \cup {Nobody}
  /\ firstFailure \in Record \cup {NoRecord}
  /\ reportComplete \in BOOLEAN
  /\ pc \in [Thread -> {"run", "exit"} \cup DispatchPC]
  /\ record \in [Thread -> Record \cup {NoRecord}]
  /\ ended \in [by : Thread \cup {Nobody}, record : Record \cup {NoRecord}]

Init ==
  /\ installed = TRUE
  /\ fatalState = 0 /\ fatalThread = Nobody /\ firstFailure = NoRecord
  /\ reportComplete = FALSE
  /\ pc = [t \in Thread |-> "run"]
  /\ record = [t \in Thread |-> NoRecord]
  /\ ended = [by |-> Nobody, record |-> NoRecord]

-----------------------------------------------------------------------------

Goto(t, from, to) ==
  /\ Running
  /\ pc[t] = from
  /\ pc' = [pc EXCEPT ![t] = to]

\* Fail, AllocationFailed and Terminated capture a record and look for the
\* host: a thread that finds none ends the process with it at once.
Fail(t) ==
  /\ Goto(t, "run", IF installed /\ t \notin Unhosted THEN "claim" ELSE "exit")
  /\ record' = [record EXCEPT ![t] = [thread |-> t, nested |-> FALSE]]
  /\ UNCHANGED <<installed, publication, ended>>

\* Mutants of Claim: counts the claims with an atomic increment, or lets
\* whoever comes before the publication report.
ClaimCounts(t) ==
  /\ \/ fatalState = 0 /\ Goto(t, "claim", "won")
     \/ fatalState # 0 /\ Goto(t, "claim", "lost")
  /\ fatalState' = fatalState + 1
  /\ UNCHANGED <<installed, fatalThread, firstFailure, reportComplete, record, ended>>

ClaimUnpublished(t) ==
  /\ \/ fatalState < 2 /\ Goto(t, "claim", "won")
     \/ fatalState = 2 /\ Goto(t, "claim", "lost")
  /\ fatalState' = IF fatalState = 0 THEN 1 ELSE fatalState
  /\ UNCHANGED <<installed, fatalThread, firstFailure, reportComplete, record, ended>>

\* The compare-and-swap of fatalState decides who reports.
Claim(t) ==
  /\ \/ fatalState = 0 /\ Goto(t, "claim", "won")
     \/ fatalState # 0 /\ Goto(t, "claim", "lost")
  /\ fatalState' = IF fatalState = 0 THEN 1 ELSE fatalState
  /\ UNCHANGED <<installed, fatalThread, firstFailure, reportComplete, record, ended>>

\* Mutant of Lost: a failure of the reporter ends the process with its own record.
LostNested(t) ==
  LET mine == fatalState = 2 /\ fatalThread = t IN
  /\ Goto(t, "lost", IF mine THEN "exit" ELSE "wait")
  /\ UNCHANGED <<installed, publication, record, ended>>

\* The loser ends the process if the published failure is its own: its
\* reporter has failed.  Otherwise it waits for the report.
Lost(t) ==
  LET mine == fatalState = 2 /\ fatalThread = t IN
  /\ Goto(t, "lost", IF mine THEN "exit" ELSE "wait")
  /\ record' = IF mine THEN [record EXCEPT ![t] = firstFailure] ELSE record
  /\ UNCHANGED <<installed, publication, ended>>

\* The report is complete, or the wait has timed out.
Wake(t) ==
  /\ Goto(t, "wait", "woken")
  /\ UNCHANGED <<installed, publication, record, ended>>

Woken(t) ==
  /\ Goto(t, "woken", "exit")
  /\ record' = IF fatalState = 2 THEN [record EXCEPT ![t] = firstFailure] ELSE record
  /\ UNCHANGED <<installed, publication, ended>>

\* The winner writes its identity and record, and then publishes both.
Keep(t) ==
  /\ Goto(t, "won", "kept")
  /\ fatalThread' = t
  /\ firstFailure' = record[t]
  /\ UNCHANGED <<installed, fatalState, reportComplete, record, ended>>

Publish(t) ==
  /\ Goto(t, "kept", "report")
  /\ fatalState' = 2
  /\ UNCHANGED <<installed, fatalThread, firstFailure, reportComplete, record, ended>>

ReporterReturns(t) ==
  /\ Goto(t, "report", "signal")
  /\ UNCHANGED <<installed, publication, record, ended>>

\* The reporter fails: it enters Fail again, on the same thread.
ReporterFails(t) ==
  /\ Goto(t, "report", "claim")
  /\ record' = [record EXCEPT ![t] = [thread |-> t, nested |-> TRUE]]
  /\ UNCHANGED <<installed, publication, ended>>

Signal(t) ==
  /\ Goto(t, "signal", "exit")
  /\ reportComplete' = TRUE
  /\ UNCHANGED <<installed, fatalState, fatalThread, firstFailure, record, ended>>

\* RaiseFailFastException: the process is over.
HardFail(t) ==
  /\ Running /\ pc[t] = "exit"
  /\ ended' = [by |-> t, record |-> record[t]]
  /\ UNCHANGED <<installed, publication, pc, record>>

\* ProcessHooks::Uninstall is refused while a thread is inside (FailureGate).
Uninstall ==
  /\ Running /\ installed
  /\ \A t \in Thread \ Unhosted : pc[t] = "run"
  /\ installed' = FALSE
  /\ UNCHANGED <<publication, pc, record, ended>>

DispatchStep(t) ==
  \/ Claim(t) \/ Lost(t) \/ Wake(t) \/ Woken(t)
  \/ Keep(t) \/ Publish(t) \/ ReporterReturns(t) \/ ReporterFails(t) \/ Signal(t)
  \/ HardFail(t)

Next == Uninstall \/ \E t \in Thread : Fail(t) \/ DispatchStep(t)

Spec == Init /\ [][Next]_vars

-----------------------------------------------------------------------------
(* Properties.                                                             *)

\* Dispatch (Failure.cpp 231-257): at most one thread is past the claim, it
\* is the one the publication names, and what it publishes is its own first
\* record; nobody can see the publication before it is complete.
OneReporter ==
  /\ \A t, u \in Thread :
       pc[t] \in {"won", "kept", "report", "signal"} /\ pc[u] \in {"won", "kept", "report", "signal"}
         => t = u
  /\ fatalState = 2 => firstFailure = [thread |-> fatalThread, nested |-> FALSE]
  /\ \A t \in Thread : pc[t] \in {"report", "signal"} => fatalState = 2 /\ fatalThread = t

\* A reporter that fails (Core_FailureHandling.md 200) neither waits for
\* itself nor ends the process with the record of its own failure.
RecursionReportsFirst ==
  /\ \A t \in Thread : record[t].nested => pc[t] \in {"claim", "lost"}
  /\ ~ended.record.nested

=============================================================================
