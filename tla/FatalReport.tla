---------------------------- MODULE FatalReport ----------------------------
(***************************************************************************)
(* FatalDispatch with its two time-outs and with the reporter of           *)
(* src/Samples/Shared/FailureHost.cpp: the failing thread hands its record *)
(* to a dump thread that was started before, and waits for it.             *)
(*                                                                         *)
(* Time passes in ticks.  A wait is a number of ticks left; a tick may     *)
(* pass while a thread is able to take a step only MaxLag times, which     *)
(* bounds how late the system runs the threads of a failing process.       *)
(***************************************************************************)
EXTENDS FatalDispatch

CONSTANTS
  Dumper,           \* the dump thread of the host
  ReportTimeout,    \* ReportTimeoutMs, in ticks
  ContenderTimeout, \* the 16000 ms of Dispatch, in ticks
  MaxLag            \* how many ticks may pass while a thread could run

ASSUME ReportAssumption ==
  /\ Dumper \in Thread \ Unhosted
  /\ ReportTimeout \in Nat \ {0} /\ ContenderTimeout \in Nat /\ MaxLag \in Nat
  /\ ReportTimeout + MaxLag < ContenderTimeout

VARIABLES
  left,       \* ticks left of each thread's wait
  lag,        \* ticks that have passed while a thread could run
  reporting,  \* Host.reporting_
  waiting,    \* does the reporter wait for the dump thread?
  request,    \* is the event request_ set?
  done,       \* is the event done_ set?
  stop,       \* is the event stop_ set?
  dumper      \* what the dump thread does

time     == <<left, lag>>
hostVars == <<reporting, waiting, request, done, stop, dumper>>
allVars  == <<vars, time, hostVars>>

ReportTypeOK ==
  /\ TypeOK
  /\ left \in [Thread -> 0 .. ContenderTimeout] /\ lag \in 0 .. MaxLag
  /\ reporting \in BOOLEAN /\ waiting \in BOOLEAN
  /\ request \in BOOLEAN /\ done \in BOOLEAN /\ stop \in BOOLEAN
  /\ dumper \in {"waits", "writes", "gone"}

\* Host::Start has created the events and the dump thread, Host::Install the hooks.
ReportInit ==
  /\ Init
  /\ left = [t \in Thread |-> 0] /\ lag = 0
  /\ reporting = FALSE /\ waiting = FALSE
  /\ request = FALSE /\ done = FALSE /\ stop = FALSE
  /\ dumper = "waits"

-----------------------------------------------------------------------------
(* Dispatch, with the wait of the contenders.                              *)

\* The dump thread can fail only while it writes; it never goes back.
FailTimed(t) ==
  /\ Fail(t)
  /\ t = Dumper => dumper = "writes"
  /\ dumper' = IF t = Dumper THEN "gone" ELSE dumper
  /\ UNCHANGED <<time, reporting, waiting, request, done, stop>>

\* Mutant of LostTimed: the contender waits no longer than the reporter.
LostImpatient(t) ==
  /\ Lost(t)
  /\ left' = [left EXCEPT ![t] = ReportTimeout]
  /\ UNCHANGED <<lag, hostVars>>

LostTimed(t) ==
  /\ Lost(t)
  /\ left' = [left EXCEPT ![t] = ContenderTimeout]
  /\ UNCHANGED <<lag, hostVars>>

WakeTimed(t) ==
  /\ Wake(t)
  /\ reportComplete \/ left[t] = 0
  /\ UNCHANGED <<time, hostVars>>

\* Mutant of WokenTimed: does not look at the published failure.
WokenForItself(t) ==
  /\ Goto(t, "woken", "exit")
  /\ UNCHANGED <<installed, publication, record, ended, time, hostVars>>

WokenTimed(t) == Woken(t) /\ UNCHANGED <<time, hostVars>>

OtherStep(t) ==
  /\ \/ Claim(t) \/ Keep(t) \/ Publish(t) \/ Signal(t) \/ HardFail(t)
     \/ ReporterFails(t) /\ ~waiting
  /\ UNCHANGED <<time, hostVars>>

-----------------------------------------------------------------------------
(* Host::Report and the dump thread.                                       *)

\* The second report is refused; arming the events may fail.
Refused(t) ==
  /\ ~waiting
  /\ ReporterReturns(t)
  /\ reporting' = TRUE
  /\ UNCHANGED <<time, waiting, request, done, stop, dumper>>

Hand(t) ==
  /\ Running /\ pc[t] = "report"
  /\ ~reporting
  /\ reporting' = TRUE /\ waiting' = TRUE
  /\ request' = TRUE /\ done' = FALSE
  /\ left' = [left EXCEPT ![t] = ReportTimeout]
  /\ UNCHANGED <<vars, lag, stop, dumper>>

\* Mutant of Answered: waits for the dump thread for ever.
AnsweredOnly(t) ==
  /\ waiting /\ done
  /\ ReporterReturns(t)
  /\ waiting' = FALSE
  /\ UNCHANGED <<time, reporting, request, done, stop, dumper>>

\* The dump is written, or it takes too long.
Answered(t) ==
  /\ waiting
  /\ done \/ left[t] = 0
  /\ ReporterReturns(t)
  /\ waiting' = FALSE
  /\ UNCHANGED <<time, reporting, request, done, stop, dumper>>

\* The dump thread waits for stop_ before request_, and request_ resets itself.
TakeRequest ==
  /\ Running /\ dumper = "waits" /\ request /\ ~stop
  /\ dumper' = "writes" /\ request' = FALSE
  /\ UNCHANGED <<vars, time, reporting, waiting, done, stop>>

WriteEvidence ==
  /\ Running /\ dumper = "writes"
  /\ dumper' = "waits" /\ done' = TRUE
  /\ UNCHANGED <<vars, time, reporting, waiting, request, stop>>

Stopped ==
  /\ Running /\ dumper = "waits" /\ stop
  /\ dumper' = "gone"
  /\ UNCHANGED <<vars, time, reporting, waiting, request, done, stop>>

\* Host::~Host: uninstall the hooks first, then stop the dump thread.
TearDown ==
  /\ Uninstall
  /\ stop' = TRUE
  /\ UNCHANGED <<time, reporting, waiting, request, done, dumper>>

-----------------------------------------------------------------------------
(* Time.                                                                   *)

Waits(t) ==
  \/ pc[t] = "wait" /\ ~reportComplete /\ left[t] > 0
  \/ pc[t] = "report" /\ waiting /\ ~done /\ left[t] > 0

MayRun(t) == pc[t] # "run" /\ ~Waits(t)

Tick ==
  /\ Running
  /\ \E t \in Thread : Waits(t)
  /\ (\E t \in Thread : MayRun(t)) => lag < MaxLag
  /\ lag' = IF \E t \in Thread : MayRun(t) THEN lag + 1 ELSE lag
  /\ left' = [t \in Thread |-> IF Waits(t) THEN left[t] - 1 ELSE left[t]]
  /\ UNCHANGED <<vars, hostVars>>

-----------------------------------------------------------------------------

ThreadStep(t) ==
  \/ LostTimed(t) \/ WakeTimed(t) \/ WokenTimed(t) \/ OtherStep(t)
  \/ Refused(t) \/ Hand(t) \/ Answered(t)

DumperStep == TakeRequest \/ WriteEvidence \/ Stopped

ReportNext ==
  \/ \E t \in Thread : FailTimed(t) \/ ThreadStep(t)
  \/ DumperStep \/ TearDown \/ Tick

\* The system runs the failing threads and time passes.  Nothing is promised
\* of the dump thread, which may hang in MiniDumpWriteDump.
ReportSpec ==
  /\ ReportInit /\ [][ReportNext]_allVars
  /\ WF_allVars(Tick)
  /\ \A t \in Thread : WF_allVars(ThreadStep(t))

-----------------------------------------------------------------------------
(* Properties.                                                             *)

\* Failure.cpp 243-248: "A contender waits without spinning so it cannot cut
\* that dump short".  As long as the threads run within MaxLag, only a
\* thread without a host ends the process while the dump is being written.
DumpNotCutShort ==
  ~Running /\ ended.by \notin Unhosted => ~waiting

\* Whoever ends the process from inside Dispatch, however it got there, ends
\* it with the first failure (Failure.cpp 236-248, 252-256).
FirstFailureWins ==
  ~Running /\ ended.by \notin Unhosted /\ installed => ended.record = firstFailure

\* Core_FailureHandling.md 199-201: a missing, returning, recursively failing
\* or hung reporter is bounded; every failure ends the process.
EveryFailureEnds ==
  \A t \in Thread : pc[t] # "run" ~> ~Running

=============================================================================
