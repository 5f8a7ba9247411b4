------------------------ MODULE FatalDispatchProofs ------------------------
(* Proofs about FatalDispatch and FatalReport, for any set of threads and  *)
(* any time-outs that differ by more than the lag.                         *)
EXTENDS FatalReport, TLAPS

Reporting == {"won", "kept", "report", "signal"}

\* Who has claimed what, and what has been published of it.
Claimed ==
  /\ \A t, u \in Thread : pc[t] \in Reporting /\ pc[u] \in Reporting => t = u
  /\ fatalState = 0 => \A t \in Thread : pc[t] \in {"run", "claim", "exit"}
  /\ fatalState = 1 => \E t \in Thread : pc[t] \in {"won", "kept"}
  /\ \A t \in Thread :
       /\ pc[t] \in Reporting => record[t] = [thread |-> t, nested |-> FALSE]
       /\ pc[t] \in {"won", "kept"} => fatalState = 1
       /\ pc[t] = "kept" => fatalThread = t /\ firstFailure = record[t]
       /\ pc[t] \in {"report", "signal"} => fatalState = 2 /\ fatalThread = t
       /\ t \in Unhosted \/ ~installed => pc[t] \in {"run", "exit"}
  /\ fatalState = 2 => fatalThread \in Thread /\ firstFailure = [thread |-> fatalThread, nested |-> FALSE]
  /\ reportComplete => fatalState = 2 /\ \A t \in Thread : pc[t] \notin Reporting

\* A nested record belongs to the reporting thread, on its way to HardFail.
Nested ==
  /\ \A t \in Thread :
       /\ record[t].nested => pc[t] \in {"claim", "lost"} /\ fatalState = 2 /\ fatalThread = t
       /\ pc[t] = "claim" /\ ~record[t].nested => record[t] = [thread |-> t, nested |-> FALSE]
  /\ ~ended.record.nested

DispatchInv == TypeOK /\ Claimed /\ Nested

\* Nobody leaves the wait before the reporter is through.
Through == fatalState = 2 /\ \A u \in Thread : pc[u] \notin {"won", "kept", "report"}

\* While the first failure is not yet with the dump thread, a contender has
\* its whole time left but for the lag; while the dump thread has it, more
\* than the reporter.
Deadlines ==
  /\ waiting => fatalState = 2 /\ fatalThread \in Thread /\ pc[fatalThread] = "report"
  /\ waiting => reporting /\ left[fatalThread] <= ReportTimeout
  /\ \A t \in Thread : pc[t] = "wait" =>
       /\ fatalState # 0
       /\ (\E u \in Thread : pc[u] \in {"won", "kept", "report"}) /\ ~waiting
            => left[t] + lag >= ContenderTimeout
       /\ waiting => left[t] + lag >= ContenderTimeout - ReportTimeout + left[fatalThread]

\* Who is past its wait ends with the first failure, and after the report.
Endings ==
  /\ \A t \in Thread : pc[t] = "woken" => Through
  /\ \A t \in Thread : pc[t] = "exit" /\ t \notin Unhosted /\ installed
       => Through /\ record[t] = firstFailure
  /\ ~Running /\ ended.by \notin Unhosted /\ installed
       => Through /\ ended.record = firstFailure
  /\ ~Running /\ ~installed => ~waiting

ReportInv == ReportTypeOK /\ DispatchInv /\ Deadlines /\ Endings

-----------------------------------------------------------------------------
(* Dispatch.                                                               *)

LEMMA RecordTypes ==
  /\ NoRecord \notin Record /\ ~NoRecord.nested
  /\ \A t \in Thread, b \in BOOLEAN : [thread |-> t, nested |-> b] \in Record
BY DispatchAssumption DEF Record, NoRecord

LEMMA DispatchInitially == Init => DispatchInv
<1> SUFFICES ASSUME Init PROVE DispatchInv
  OBVIOUS
<1>1. TypeOK
  <2>1. ended \in [by : Thread \cup {Nobody}, record : Record \cup {NoRecord}]
    BY DEF Init
  <2>2. pc \in [Thread -> {"run", "exit"} \cup DispatchPC]
    BY DEF Init
  <2>3. record \in [Thread -> Record \cup {NoRecord}]
    BY DEF Init
  <2>4. installed \in BOOLEAN /\ reportComplete \in BOOLEAN
    BY Zenon DEF Init
  <2>6. fatalState \in 0 .. 2
    BY DEF Init
  <2>5. fatalThread \in Thread \cup {Nobody} /\ firstFailure \in Record \cup {NoRecord}
    BY DEF Init
  <2> QED
    BY <2>1, <2>2, <2>3, <2>4, <2>5, <2>6 DEF TypeOK
<1>2. Claimed
  BY DEF Init, Claimed, Reporting
<1>3. \A t \in Thread : record[t] = NoRecord /\ pc[t] = "run"
  BY DEF Init
<1>4. ended.record = NoRecord
  BY DEF Init
<1>5. Nested
  BY <1>3, <1>4, RecordTypes DEF Nested
<1> QED
  BY <1>1, <1>2, <1>5 DEF DispatchInv

LEMMA DispatchPreserved == DispatchInv /\ [Next]_vars => DispatchInv'
<1> SUFFICES ASSUME DispatchInv, [Next]_vars
             PROVE  DispatchInv'
  OBVIOUS
<1> USE RecordTypes, DispatchAssumption
        DEF DispatchInv, TypeOK, Claimed, Nested, Reporting, Goto, Running, DispatchPC, publication
<1>1. ASSUME NEW t \in Thread, Fail(t)
      PROVE  DispatchInv'
  <2>1. TypeOK'
    BY <1>1 DEF Fail
  <2>2. Claimed'
    BY <1>1 DEF Fail
  <2>3. Nested'
    <3>1. /\ \E l \in {"claim", "exit"} : pc' = [pc EXCEPT ![t] = l]
          /\ record' = [record EXCEPT ![t] = [thread |-> t, nested |-> FALSE]]
          /\ fatalState' = fatalState /\ fatalThread' = fatalThread /\ ended' = ended
      BY <1>1 DEF Fail
    <3>2. ASSUME NEW u \in Thread
          PROVE  /\ record'[u].nested => pc'[u] \in {"claim", "lost"} /\ fatalState = 2 /\ fatalThread = u
                 /\ pc'[u] = "claim" /\ ~record'[u].nested => record'[u] = [thread |-> u, nested |-> FALSE]
      <4>1. CASE u = t
        <5>1. record'[t] = [thread |-> t, nested |-> FALSE]
          BY <3>1
        <5> QED BY <4>1, <5>1
      <4>2. CASE u # t
        <5>1. pc'[u] = pc[u] /\ record'[u] = record[u]
          BY <3>1, <4>2
        <5> QED BY <5>1
      <4> QED BY <4>1, <4>2
    <3> QED BY <3>1, <3>2
  <2> QED
    BY <2>1, <2>2, <2>3
<1>2. ASSUME NEW t \in Thread, Claim(t)
      PROVE  DispatchInv'
  <2>1. TypeOK'
    BY <1>2 DEF Claim
  <2>2. Claimed'
    BY <1>2 DEF Claim
  <2>3. Nested'
    BY <1>2 DEF Claim
  <2> QED
    BY <2>1, <2>2, <2>3
<1>3. ASSUME NEW t \in Thread, Lost(t)
      PROVE  DispatchInv'
  <2>1. TypeOK'
    BY <1>3 DEF Lost
  <2>2. Claimed'
    BY <1>3 DEF Lost
  <2>3. Nested'
    <3>1. fatalState = 2 => ~firstFailure.nested
      OBVIOUS
    <3>2. CASE fatalState = 2 /\ fatalThread = t
      BY <1>3, <3>1, <3>2 DEF Lost
    <3>3. CASE ~(fatalState = 2 /\ fatalThread = t)
      <4>1. /\ pc' = [pc EXCEPT ![t] = "wait"]
            /\ record' = record /\ fatalState' = fatalState /\ fatalThread' = fatalThread /\ ended' = ended
        BY <1>3, <3>3 DEF Lost
      <4>2. ~record[t].nested
        BY <3>3
      <4>3. ASSUME NEW u \in Thread
            PROVE  /\ record[u].nested => pc'[u] \in {"claim", "lost"} /\ fatalState = 2 /\ fatalThread = u
                   /\ pc'[u] = "claim" /\ ~record[u].nested => record[u] = [thread |-> u, nested |-> FALSE]
        <5>1. CASE u = t
          BY <4>1, <4>2, <5>1
        <5>2. CASE u # t
          <6>1. pc'[u] = pc[u]
            BY <4>1, <5>2
          <6> QED BY <6>1
        <5> QED BY <5>1, <5>2
      <4> QED BY <4>1, <4>3
    <3> QED
      BY <3>2, <3>3
  <2> QED
    BY <2>1, <2>2, <2>3
<1>4. ASSUME NEW t \in Thread, Wake(t)
      PROVE  DispatchInv'
  <2>1. TypeOK'
    BY <1>4 DEF Wake
  <2>2. Claimed'
    BY <1>4 DEF Wake
  <2>3. Nested'
    BY <1>4 DEF Wake
  <2> QED
    BY <2>1, <2>2, <2>3
<1>5. ASSUME NEW t \in Thread, Woken(t)
      PROVE  DispatchInv'
  <2>1. TypeOK'
    BY <1>5 DEF Woken
  <2>2. Claimed'
    BY <1>5 DEF Woken
  <2>3. Nested'
    <3>1. fatalState = 2 => ~firstFailure.nested
      OBVIOUS
    <3>2. CASE fatalState = 2
      BY <1>5, <3>1, <3>2 DEF Woken
    <3>3. CASE fatalState # 2
      BY <1>5, <3>3 DEF Woken
    <3> QED
      BY <3>2, <3>3
  <2> QED
    BY <2>1, <2>2, <2>3
<1>6. ASSUME NEW t \in Thread, Keep(t)
      PROVE  DispatchInv'
  <2>1. TypeOK'
    BY <1>6 DEF Keep
  <2>2. Claimed'
    BY <1>6 DEF Keep
  <2>3. Nested'
    BY <1>6 DEF Keep
  <2> QED
    BY <2>1, <2>2, <2>3
<1>7. ASSUME NEW t \in Thread, Publish(t)
      PROVE  DispatchInv'
  <2>1. TypeOK'
    BY <1>7 DEF Publish
  <2>2. Claimed'
    BY <1>7 DEF Publish
  <2>3. Nested'
    BY <1>7 DEF Publish
  <2> QED
    BY <2>1, <2>2, <2>3
<1>8. ASSUME NEW t \in Thread, ReporterReturns(t)
      PROVE  DispatchInv'
  <2>1. TypeOK'
    BY <1>8 DEF ReporterReturns
  <2>2. Claimed'
    BY <1>8 DEF ReporterReturns
  <2>3. Nested'
    BY <1>8 DEF ReporterReturns
  <2> QED
    BY <2>1, <2>2, <2>3
<1>9. ASSUME NEW t \in Thread, ReporterFails(t)
      PROVE  DispatchInv'
  <2>1. TypeOK'
    BY <1>9 DEF ReporterFails
  <2>2. Claimed'
    BY <1>9 DEF ReporterFails
  <2>3. Nested'
    BY <1>9 DEF ReporterFails
  <2> QED
    BY <2>1, <2>2, <2>3
<1>10. ASSUME NEW t \in Thread, Signal(t)
      PROVE  DispatchInv'
  <2>1. TypeOK'
    BY <1>10 DEF Signal
  <2>2. Claimed'
    BY <1>10 DEF Signal
  <2>3. Nested'
    BY <1>10 DEF Signal
  <2> QED
    BY <2>1, <2>2, <2>3
<1>11. ASSUME NEW t \in Thread, HardFail(t)
      PROVE  DispatchInv'
  <2>1. TypeOK'
    BY <1>11 DEF HardFail
  <2>2. Claimed'
    BY <1>11 DEF HardFail
  <2>3. Nested'
    BY <1>11 DEF HardFail
  <2> QED
    BY <2>1, <2>2, <2>3
<1>12. CASE Uninstall
  BY <1>12 DEF Uninstall
<1>13. CASE UNCHANGED vars
  BY <1>13 DEF vars
<1> QED
  BY <1>1, <1>2, <1>3, <1>4, <1>5, <1>6, <1>7, <1>8, <1>9, <1>10, <1>11, <1>12, <1>13 DEF Next, DispatchStep

THEOREM DispatchAlways == Spec => []DispatchInv
<1>1. Init => DispatchInv
  BY DispatchInitially
<1>2. DispatchInv /\ [Next]_vars => DispatchInv'
  BY DispatchPreserved
<1> QED
  BY <1>1, <1>2, PTL DEF Spec

\* Dispatch, 231-257: whatever the reporter does, one thread reports, and what
\* it publishes is complete and its own.
THEOREM OneThreadReports == Spec => []OneReporter
<1>1. DispatchInv => OneReporter
  BY DEF DispatchInv, Claimed, Reporting, OneReporter
<1> QED
  BY <1>1, DispatchAlways, PTL

\* Dispatch, 236-237: a failure of the reporter is never what the process
\* ends with, nor what a thread waits with.
THEOREM RecursionIsReportedFirst == Spec => []RecursionReportsFirst
<1>1. DispatchInv => RecursionReportsFirst
  BY DEF DispatchInv, Nested, RecursionReportsFirst
<1> QED
  BY <1>1, DispatchAlways, PTL

-----------------------------------------------------------------------------
(* The timed dispatch.                                                     *)

\* Every step of FatalReport is one of FatalDispatch, or leaves it alone.
LEMMA TimedStep == [ReportNext]_allVars => [Next]_vars
<1> SUFFICES ASSUME [ReportNext]_allVars PROVE [Next]_vars
  OBVIOUS
<1>1. CASE \E t \in Thread : FailTimed(t)
  BY <1>1 DEF FailTimed, Next
<1>2. ASSUME NEW t \in Thread, ThreadStep(t) PROVE [Next]_vars
  BY <1>2 DEF ThreadStep, LostTimed, WakeTimed, WokenTimed, OtherStep, Refused, Hand, Answered,
     Next, DispatchStep
<1>3. CASE DumperStep
  BY <1>3 DEF DumperStep, TakeRequest, WriteEvidence, Stopped
<1>4. CASE TearDown
  BY <1>4 DEF TearDown, Next
<1>5. CASE Tick
  BY <1>5 DEF Tick
<1>6. CASE UNCHANGED allVars
  BY <1>6 DEF allVars
<1> QED
  BY <1>1, <1>2, <1>3, <1>4, <1>5, <1>6 DEF ReportNext

LEMMA Timeouts ==
  /\ ContenderTimeout \in Nat /\ MaxLag \in Nat
  /\ ReportTimeout \in 0 .. ContenderTimeout
  /\ ContenderTimeout - ReportTimeout > MaxLag
  /\ 0 \in 0 .. ContenderTimeout /\ 0 \in 0 .. MaxLag
BY ReportAssumption

LEMMA ReportInitially == ReportInit => ReportInv
<1> SUFFICES ASSUME ReportInit PROVE ReportInv
  OBVIOUS
<1>1. DispatchInv
  BY DispatchInitially DEF ReportInit
<1>2. ReportTypeOK
  BY <1>1, Timeouts DEF ReportInit, ReportTypeOK, DispatchInv
<1>3. \A t \in Thread : pc[t] = "run"
  BY DEF ReportInit, Init
<1>4. ~waiting /\ Running
  BY DEF ReportInit, Init, Running
<1>5. Deadlines /\ Endings
  BY <1>3, <1>4 DEF Deadlines, Endings
<1> QED
  BY <1>1, <1>2, <1>5 DEF ReportInv

LEMMA ReportPreserved == ReportInv /\ [ReportNext]_allVars => ReportInv'
<1> SUFFICES ASSUME ReportInv, [ReportNext]_allVars
             PROVE  ReportInv'
  OBVIOUS
<1>0. DispatchInv /\ DispatchInv'
  BY TimedStep, DispatchPreserved DEF ReportInv
<1>a. TypeOK'
  BY <1>0 DEF DispatchInv
<1> USE <1>0, <1>a, Timeouts, DispatchAssumption
        DEF ReportInv, ReportTypeOK, Deadlines, DispatchInv, TypeOK, Claimed, Nested, Endings, Through,
            Reporting, Goto, Running, publication, time, hostVars, vars
<1>1. ASSUME NEW t \in Thread, FailTimed(t)
      PROVE  ReportInv'
  <2>1. ReportTypeOK'
    BY <1>1 DEF FailTimed, Fail
  <2>2. Deadlines'
    BY <1>1 DEF FailTimed, Fail
  <2>3. Endings'
    BY <1>1 DEF FailTimed, Fail
  <2> QED
    BY <2>1, <2>2, <2>3
<1>2. ASSUME NEW t \in Thread, LostTimed(t)
      PROVE  ReportInv'
  <2>1. ReportTypeOK'
    BY <1>2 DEF LostTimed, Lost
  <2>2. Deadlines'
    BY <1>2 DEF LostTimed, Lost
  <2>3. Endings'
    BY <1>2 DEF LostTimed, Lost
  <2> QED
    BY <2>1, <2>2, <2>3
<1>3. ASSUME NEW t \in Thread, WakeTimed(t)
      PROVE  ReportInv'
  <2>1. ReportTypeOK'
    BY <1>3 DEF WakeTimed, Wake
  <2>2. Deadlines'
    BY <1>3 DEF WakeTimed, Wake
  <2>3. Endings'
    BY <1>3 DEF WakeTimed, Wake
  <2> QED
    BY <2>1, <2>2, <2>3
<1>4. ASSUME NEW t \in Thread, WokenTimed(t)
      PROVE  ReportInv'
  <2>1. ReportTypeOK'
    BY <1>4 DEF WokenTimed, Woken
  <2>2. Deadlines'
    BY <1>4 DEF WokenTimed, Woken
  <2>3. Endings'
    BY <1>4 DEF WokenTimed, Woken
  <2> QED
    BY <2>1, <2>2, <2>3
<1>5. ASSUME NEW t \in Thread, Claim(t), UNCHANGED <<time, hostVars>>
      PROVE  ReportInv'
  <2>1. ReportTypeOK'
    BY <1>5 DEF Claim
  <2>2. Deadlines'
    BY <1>5 DEF Claim
  <2>3. Endings'
    BY <1>5 DEF Claim
  <2> QED
    BY <2>1, <2>2, <2>3
<1>6. ASSUME NEW t \in Thread, Keep(t), UNCHANGED <<time, hostVars>>
      PROVE  ReportInv'
  <2>1. ReportTypeOK'
    BY <1>6 DEF Keep
  <2>2. Deadlines'
    BY <1>6 DEF Keep
  <2>3. Endings'
    BY <1>6 DEF Keep
  <2> QED
    BY <2>1, <2>2, <2>3
<1>7. ASSUME NEW t \in Thread, Publish(t), UNCHANGED <<time, hostVars>>
      PROVE  ReportInv'
  <2>1. ReportTypeOK'
    BY <1>7 DEF Publish
  <2>2. Deadlines'
    BY <1>7 DEF Publish
  <2>3. Endings'
    BY <1>7 DEF Publish
  <2> QED
    BY <2>1, <2>2, <2>3
<1>8. ASSUME NEW t \in Thread, Signal(t), UNCHANGED <<time, hostVars>>
      PROVE  ReportInv'
  <2>1. ReportTypeOK'
    BY <1>8 DEF Signal
  <2>2. Deadlines'
    BY <1>8 DEF Signal
  <2>3. Endings'
    <3>0. pc[t] = "signal"
      BY <1>8 DEF Signal
    <3>1. fatalState = 2 /\ record[t] = firstFailure
      <4>1. fatalState = 2 /\ fatalThread = t
        BY <3>0
      <4>2. record[t] = [thread |-> t, nested |-> FALSE]
        BY <3>0
      <4>3. firstFailure = [thread |-> t, nested |-> FALSE]
        BY <4>1
      <4> QED BY <4>1, <4>2, <4>3
    <3>2. \A u \in Thread : pc[u] \notin {"won", "kept", "report"}
      BY <3>0
    <3>4. /\ pc' = [pc EXCEPT ![t] = "exit"] /\ record' = record /\ firstFailure' = firstFailure
          /\ ended' = ended /\ installed' = installed /\ waiting' = waiting
      BY <1>8 DEF Signal
    <3>3. Through'
      <4>1. fatalState' = 2
        BY <1>8, <3>1 DEF Signal
      <4>2. ASSUME NEW u \in Thread
            PROVE  pc'[u] \notin {"won", "kept", "report"}
        <5>1. pc'[u] \in {pc[u], "exit"}
          BY <3>4
        <5> QED BY <3>2, <5>1
      <4> QED BY <4>1, <4>2
    <3>5. ASSUME NEW u \in Thread, pc'[u] = "exit", u \notin Unhosted, installed
          PROVE  record'[u] = firstFailure'
      <4>1. CASE u = t
        BY <3>1, <3>4, <4>1
      <4>2. CASE u # t
        <5>1. pc[u] = "exit"
          BY <3>4, <3>5, <4>2
        <5> QED BY <3>4, <3>5, <5>1
      <4> QED BY <4>1, <4>2
    <3>6. Running'
      BY <1>8, <3>4 DEF Signal
    <3> QED
      BY <3>3, <3>4, <3>5, <3>6
  <2> QED
    BY <2>1, <2>2, <2>3
<1>9. ASSUME NEW t \in Thread, HardFail(t), UNCHANGED <<time, hostVars>>
      PROVE  ReportInv'
  <2>1. ReportTypeOK'
    BY <1>9 DEF HardFail
  <2>2. Deadlines'
    BY <1>9 DEF HardFail
  <2>3. Endings'
    BY <1>9 DEF HardFail
  <2> QED
    BY <2>1, <2>2, <2>3
<1>10. ASSUME NEW t \in Thread, ReporterFails(t), ~waiting, UNCHANGED <<time, hostVars>>
      PROVE  ReportInv'
  <2>1. ReportTypeOK'
    BY <1>10 DEF ReporterFails
  <2>2. Deadlines'
    BY <1>10 DEF ReporterFails
  <2>3. Endings'
    BY <1>10 DEF ReporterFails
  <2> QED
    BY <2>1, <2>2, <2>3
<1>11. ASSUME NEW t \in Thread, Refused(t)
      PROVE  ReportInv'
  <2>1. ReportTypeOK'
    BY <1>11 DEF Refused, ReporterReturns
  <2>2. Deadlines'
    BY <1>11 DEF Refused, ReporterReturns
  <2>3. Endings'
    BY <1>11 DEF Refused, ReporterReturns
  <2> QED
    BY <2>1, <2>2, <2>3
<1>12. ASSUME NEW t \in Thread, Hand(t)
      PROVE  ReportInv'
  <2>1. ReportTypeOK'
    BY <1>12 DEF Hand
  <2>2. Deadlines'
    BY <1>12 DEF Hand
  <2>3. Endings'
    BY <1>12 DEF Hand
  <2> QED
    BY <2>1, <2>2, <2>3
<1>13. ASSUME NEW t \in Thread, Answered(t)
      PROVE  ReportInv'
  <2>1. ReportTypeOK'
    BY <1>13 DEF Answered, ReporterReturns
  <2>2. Deadlines'
    BY <1>13 DEF Answered, ReporterReturns
  <2>3. Endings'
    BY <1>13 DEF Answered, ReporterReturns
  <2> QED
    BY <2>1, <2>2, <2>3
<1>14. CASE TakeRequest
  <2>1. ReportTypeOK'
    BY <1>14 DEF TakeRequest
  <2>2. Deadlines'
    BY <1>14 DEF TakeRequest
  <2>3. Endings'
    BY <1>14 DEF TakeRequest
  <2> QED
    BY <2>1, <2>2, <2>3
<1>15. CASE WriteEvidence
  <2>1. ReportTypeOK'
    BY <1>15 DEF WriteEvidence
  <2>2. Deadlines'
    BY <1>15 DEF WriteEvidence
  <2>3. Endings'
    BY <1>15 DEF WriteEvidence
  <2> QED
    BY <2>1, <2>2, <2>3
<1>16. CASE Stopped
  <2>1. ReportTypeOK'
    BY <1>16 DEF Stopped
  <2>2. Deadlines'
    BY <1>16 DEF Stopped
  <2>3. Endings'
    BY <1>16 DEF Stopped
  <2> QED
    BY <2>1, <2>2, <2>3
<1>17. CASE TearDown
  <2>1. ReportTypeOK'
    BY <1>17 DEF TearDown, Uninstall
  <2>2. Deadlines'
    BY <1>17 DEF TearDown, Uninstall
  <2>3. Endings'
    BY <1>17 DEF TearDown, Uninstall
  <2> QED
    BY <2>1, <2>2, <2>3
<1>18. CASE Tick
  <2>1. ReportTypeOK'
    BY <1>18 DEF Tick, Waits, MayRun
  <2>2. Deadlines'
    BY <1>18 DEF Tick, Waits, MayRun
  <2>3. Endings'
    BY <1>18 DEF Tick, Waits, MayRun
  <2> QED
    BY <2>1, <2>2, <2>3
<1>19. CASE UNCHANGED allVars
  BY <1>19 DEF allVars
<1> QED
  BY <1>1, <1>2, <1>3, <1>4, <1>5, <1>6, <1>7, <1>8, <1>9, <1>10, <1>11, <1>12, <1>13, <1>14, <1>15, <1>16, <1>17, <1>18, <1>19 DEF ReportNext, ThreadStep, OtherStep, DumperStep

LEMMA Untimed == ReportSpec => ReportInit /\ [][ReportNext]_allVars
BY PTL DEF ReportSpec

\* The timed dispatch with the sample host's reporter implements the dispatch
\* with any reporter: what is proved of FatalDispatch holds of it.
THEOREM ReportImplementsDispatch == ReportSpec => Spec
<1>1. ReportInit => Init
  BY DEF ReportInit
<1> QED
  BY <1>1, TimedStep, Untimed, PTL DEF Spec

THEOREM ReportAlways == ReportSpec => []ReportInv
<1>1. ReportInit => ReportInv
  BY ReportInitially
<1>2. ReportInv /\ [ReportNext]_allVars => ReportInv'
  BY ReportPreserved
<1> QED
  BY <1>1, <1>2, Untimed, PTL

\* The dispatch, its host and its clocks keep their types; no wait runs below
\* zero and the threads are never later than MaxLag.
THEOREM ReportTypes == ReportSpec => []ReportTypeOK
<1>1. ReportInv => ReportTypeOK
  BY DEF ReportInv
<1> QED
  BY <1>1, ReportAlways, PTL

\* Failure.cpp 243-248: as long as the contender's time-out exceeds the
\* reporter's by more than the threads run late, no contender cuts a dump short.
THEOREM DumpIsNotCutShort == ReportSpec => []DumpNotCutShort
<1>1. ReportInv => DumpNotCutShort
  BY DEF ReportInv, Endings, Deadlines, Through, DumpNotCutShort
<1> QED
  BY <1>1, ReportAlways, PTL

\* Dispatch, 236-256: under the same condition every thread of the host ends
\* the process with the first failure.
THEOREM TheFirstFailureWins == ReportSpec => []FirstFailureWins
<1>1. ReportInv => FirstFailureWins
  BY DEF ReportInv, Endings, FirstFailureWins
<1> QED
  BY <1>1, ReportAlways, PTL

=============================================================================
