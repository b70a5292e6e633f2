----------------------- MODULE CustomChecksWait_proofs -----------------------
(***************************************************************************)
(* The safety properties of CustomChecksWait, for every timeout, interval  *)
(* and latency.                                                            *)
(***************************************************************************)
EXTENDS CustomChecksWait, TLAPS

Past == {"resolve", "fetch", "register", "base"}

\* What an answer that has been read tells of a backend that has gone on.
AnswerTells ==
  call = "served" =>
    /\ phase = "poll" => answer.kind \in {"error", "run"}
    /\ phase = "poll" /\ answer.status \in Terminal => head = answer.status
    /\ phase = "resolve" =>
         /\ answer.kind \in {"error", "absent", "patching"}
         /\ answer.kind = "absent" => answer.id = "head" /\ ~supported
         /\ answer.kind = "patching" /\ ~answer.busy =>
              Settled /\ answer.id = ShownRun
    /\ phase = "fetch" /\ answer.kind = "run" =>
         /\ answer.id = "merged" /\ answer.status # "noop"
         /\ answer.status = "done" \/ TimedOut
    /\ phase = "base" =>
         /\ answer.kind \in {"error", "denied", "run"}
         /\ answer.kind = "denied" => ~readable
         /\ answer.status \in Terminal => base = "done"

\* What each phase knows.
PhaseKnows ==
  /\ phase \in Past => head = "done"
  /\ phase = "returned" => head \in Terminal
  /\ phase \in {"resolve", "fetch"} =>
       result = [id |-> "head", status |-> "done"]
  /\ phase = "fetch" =>
       effective = "merged" /\ (patching = "settled" \/ TimedOut)
  /\ phase \in {"register", "base"} => result.status # "noop"
  /\ phase \in {"lookup", "poll", "resolve", "fetch"} => registered = {}

Inv == /\ TypeOK /\ AnswerTells /\ PhaseKnows
       /\ ReportsAgainstTheShownRun /\ ComparesACompleteBase

-----------------------------------------------------------------------------
(* Types.                                                                  *)

AnswerType == [kind : Kinds, id : Runs, status : Status, busy : BOOLEAN]

LEMMA AdvanceTyped ==
    ASSUME TypeOK, NEW d \in Nat, Advance(d)
    PROVE  now' \in 0..Horizon /\ now' >= now /\ now' <= now + d
  BY ConstantsAssumption DEF Advance, TypeOK, Horizon

\* What a request is answered with is an answer, whatever the phase.
LEMMA AnswersTyped == TypeOK => Answers \subseteq AnswerType
  <1> SUFFICES ASSUME TypeOK, NEW a \in Answers PROVE a \in AnswerType
    OBVIOUS
  <1>1. /\ Failed \in AnswerType /\ Absent \in AnswerType
        /\ Denied \in AnswerType /\ GetPatchingResult \in AnswerType
        /\ Answer("run", "head", base, FALSE) \in AnswerType
    BY DEF Failed, Absent, Denied, GetPatchingResult, EffectiveId, Answer,
           AnswerType, Kinds, Runs, Status, Terminal, TypeOK
  <1>2. \A r \in Runs : GetTestRun(r) \in AnswerType
    BY DEF GetTestRun, StatusOf, Answer, AnswerType, Kinds, Runs, Status,
           Terminal, TypeOK
  <1>3. effective \in Runs /\ "head" \in Runs
    BY DEF TypeOK, Runs
  <1> QED  BY <1>1, <1>2, <1>3 DEF Answers

LEMMA InitTyped == Init => TypeOK
  BY ConstantsAssumption
  DEF Init, TypeOK, Runs, Status, Terminal, Phases, Kinds, NoAnswer, Answer,
      Horizon

LEMMA StepTyped == TypeOK /\ [Next]_vars => TypeOK'
  <1> SUFFICES ASSUME TypeOK, [Next]_vars PROVE TypeOK'
    OBVIOUS
  <1> USE DEF backend, config
  <1>1. CASE HeadCompletes
    BY <1>1 DEF HeadCompletes, TypeOK, Phases, Runs, Status, Terminal
  <1>2. CASE PatchingMoves
    BY <1>2 DEF PatchingMoves, TypeOK, Phases
  <1>3. CASE BaseCompletes
    BY <1>3 DEF BaseCompletes, TypeOK, Phases
  <1>4. CASE Serve
    <2>1. answer' \in AnswerType
      BY <1>4, AnswersTyped DEF Serve
    <2>2. now' \in 0..Horizon
      BY <1>4, AdvanceTyped, ConstantsAssumption DEF Serve, TypeOK
    <2> QED  BY <1>4, <2>1, <2>2 DEF Serve, TypeOK, AnswerType
  <1>5. CASE ServeRegistration
    <2>1. answer' \in AnswerType
      <3>1. Failed \in AnswerType /\ Absent \in AnswerType
        BY DEF AnswerType, Failed, Absent, Answer, Kinds, Runs, Status
      <3> QED  BY <1>5, <3>1 DEF ServeRegistration
    <2>2. now' \in 0..Horizon
      BY <1>5, AdvanceTyped, ConstantsAssumption DEF ServeRegistration
    <2> QED  BY <1>5, <2>1, <2>2 DEF ServeRegistration, TypeOK, AnswerType
  <1>6. CASE Wake
    BY <1>6, AdvanceTyped, ConstantsAssumption DEF Wake, TypeOK
  <1>7. CASE Lookup
    BY <1>7 DEF Lookup, TypeOK, Phases, Goto
  <1>8. CASE PollFails
    BY <1>8 DEF PollFails, TypeOK, Phases, Goto
  <1>9. CASE PollSeesTerminal
    BY <1>9 DEF PollSeesTerminal, TypeOK, Phases, Goto, Runs, Status, Terminal
  <1>10. CASE PollWaits
    BY <1>10 DEF PollWaits, TypeOK, Phases, SleepThenRetry, Goto
  <1>11. CASE ResolveAnswered
    BY <1>11
    DEF ResolveAnswered, TypeOK, Phases, Resolved, Goto, SleepThenRetry
  <1>12. CASE ResolveFails
    <2>1. CASE TimedOut
      BY <1>12, <2>1 DEF ResolveFails, TypeOK, Phases, Resolved, Goto, Runs
    <2>2. CASE ~TimedOut
      BY <1>12, <2>2 DEF ResolveFails, TypeOK, SleepThenRetry
    <2> QED  BY <2>1, <2>2
  <1>13. CASE FetchAnswered
    BY <1>13 DEF FetchAnswered, TypeOK, Phases, Goto, Runs, Status, Terminal
  <1>14. CASE FetchFails
    BY <1>14 DEF FetchFails, TypeOK, Phases, Goto, SleepThenRetry
  <1>15. CASE SkipRegistering
    BY <1>15 DEF SkipRegistering, TypeOK, Phases, EnterBaseWait, Goto
  <1>16. CASE RegisterAnswered
    BY <1>16 DEF RegisterAnswered, TypeOK, Phases, EnterBaseWait, Goto
  <1>17. CASE BaseAnswered
    BY <1>17 DEF BaseAnswered, TypeOK, Phases, Goto, SleepThenRetry
  <1>18. CASE BaseFails
    BY <1>18 DEF BaseFails, TypeOK, Phases, Goto, SleepThenRetry
  <1>19. CASE UNCHANGED vars
    BY <1>19 DEF vars, TypeOK
  <1> QED  BY <1>1, <1>2, <1>3, <1>4, <1>5, <1>6, <1>7, <1>8, <1>9, <1>10,
              <1>11, <1>12, <1>13, <1>14, <1>15, <1>16, <1>17, <1>18, <1>19
           DEF Next, Answering, Client

(* Every reachable state is typed.                                         *)
THEOREM TypeCorrect == Spec => []TypeOK
  BY InitTyped, StepTyped, PTL DEF Spec

-----------------------------------------------------------------------------
(* The wait is bounded.  A request is sent within one sleep of the         *)
(* deadline, later only by the requests of the phases before.              *)

ClockInv ==
  /\ phase = "lookup" => now = 0 /\ call # "sleeping"
  /\ call = "sent" => now <= Bound(phase) - Latency
  /\ call = "sleeping" => now <= Timeout
  /\ now <= Bound(phase)

LEMMA StepClock == TypeOK /\ ClockInv /\ [Next]_vars => ClockInv'
  <1> SUFFICES ASSUME TypeOK, ClockInv, [Next]_vars PROVE ClockInv'
    OBVIOUS
  <1> USE ConstantsAssumption DEF backend, config, ClockInv, Bound, Requests
  <1>0. now \in Nat /\ phase \in Phases
    BY DEF TypeOK, Horizon
  <1>1. CASE HeadCompletes
    BY <1>1, <1>0 DEF HeadCompletes, TimedOut, Phases
  <1>2. CASE PatchingMoves
    BY <1>2, <1>0 DEF PatchingMoves, TimedOut, Phases
  <1>3. CASE BaseCompletes
    BY <1>3, <1>0 DEF BaseCompletes, TimedOut, Phases
  <1>4. CASE Serve
    <2>0. /\ phase' = phase /\ call = "sent" /\ call' = "served"
          /\ phase = "lookup" => now' = now
      BY <1>4 DEF Serve
    <2>1. now' <= now + Latency
      <3>1. CASE phase = "lookup"
        BY <1>0, <2>0, <3>1
      <3>2. CASE phase # "lookup"
        <4> PICK d \in 0..Latency : Advance(d)
          BY <1>4, <3>2 DEF Serve
        <4> QED  BY <1>0, AdvanceTyped, d \in Nat, d <= Latency
      <3> QED  BY <3>1, <3>2
    <2>2. now' \in Nat
      BY <1>4, <1>0, AdvanceTyped DEF Serve, Horizon
    <2> QED  BY <1>0, <2>0, <2>1, <2>2 DEF Phases
  <1>5. CASE ServeRegistration
    <2>0. /\ phase' = phase /\ call = "sent" /\ call' = "served"
          /\ phase = "lookup" => now' = now
      BY <1>5 DEF ServeRegistration
    <2>1. now' <= now + Latency
      <3>1. CASE phase = "lookup"
        BY <1>0, <2>0, <3>1
      <3>2. CASE phase # "lookup"
        <4> PICK d \in 0..Latency : Advance(d)
          BY <1>5, <3>2 DEF ServeRegistration
        <4> QED  BY <1>0, AdvanceTyped, d \in Nat, d <= Latency
      <3> QED  BY <3>1, <3>2
    <2>2. now' \in Nat
      BY <1>5, <1>0, AdvanceTyped DEF ServeRegistration, Horizon
    <2> QED  BY <1>0, <2>0, <2>1, <2>2 DEF Phases
  <1>6. CASE Wake
    <2>1. phase' = phase /\ call' = "sent" /\ now <= Timeout
      BY <1>6 DEF Wake
    <2>2. now' \in Nat /\ now' <= now + Interval
      BY <1>6, AdvanceTyped DEF Wake, Horizon
    <2> QED  BY <1>0, <1>6, <2>1, <2>2 DEF Wake
  <1>7. CASE Lookup
    BY <1>7, <1>0 DEF Lookup, Answered, Goto, TimedOut, Phases
  <1>8. CASE PollFails
    BY <1>8, <1>0 DEF PollFails, Answered, Goto, TimedOut, Phases
  <1>9. CASE PollSeesTerminal
    BY <1>9, <1>0 DEF PollSeesTerminal, Answered, Goto, TimedOut, Phases
  <1>10. CASE PollWaits
    BY <1>10, <1>0
    DEF PollWaits, Answered, SleepThenRetry, Goto, TimedOut, Phases
  <1>11. CASE ResolveAnswered
    BY <1>11, <1>0
    DEF ResolveAnswered, Answered, Resolved, Goto, SleepThenRetry, TimedOut,
        Phases
  <1>12. CASE ResolveFails
    BY <1>12, <1>0
    DEF ResolveFails, Answered, Resolved, Goto, SleepThenRetry, TimedOut, Phases
  <1>13. CASE FetchAnswered
    BY <1>13, <1>0 DEF FetchAnswered, Answered, Goto, TimedOut, Phases
  <1>14. CASE FetchFails
    BY <1>14, <1>0
    DEF FetchFails, Answered, Goto, SleepThenRetry, TimedOut, Phases
  <1>15. CASE SkipRegistering
    BY <1>15, <1>0 DEF SkipRegistering, EnterBaseWait, Goto, TimedOut, Phases
  <1>16. CASE RegisterAnswered
    BY <1>16, <1>0
    DEF RegisterAnswered, Answered, EnterBaseWait, Goto, TimedOut, Phases
  <1>17. CASE BaseAnswered
    BY <1>17, <1>0
    DEF BaseAnswered, Answered, Goto, SleepThenRetry, TimedOut, Phases
  <1>18. CASE BaseFails
    BY <1>18, <1>0
    DEF BaseFails, Answered, Goto, SleepThenRetry, TimedOut, Phases
  <1>19. CASE UNCHANGED vars
    BY <1>19 DEF vars
  <1> QED  BY <1>1, <1>2, <1>3, <1>4, <1>5, <1>6, <1>7, <1>8, <1>9, <1>10,
              <1>11, <1>12, <1>13, <1>14, <1>15, <1>16, <1>17, <1>18, <1>19
           DEF Next, Answering, Client

(* The whole wait, whatever the backend answers and however long its runs  *)
(* take, overruns the timeout by at most one sleep and one request per     *)
(* phase: the phases share the start time (startTime of the phase options).*)
THEOREM WaitBounded == Spec => []WaitIsBounded
  <1>1. Init => ClockInv
    BY ConstantsAssumption DEF Init, ClockInv, Bound, Requests
  <1>2. ClockInv => WaitIsBounded
    BY DEF ClockInv, WaitIsBounded
  <1> QED  BY <1>1, <1>2, StepClock, TypeCorrect, PTL DEF Spec

-----------------------------------------------------------------------------
(* What is reported against and what is compared with.                     *)

LEMMA StepInv == Inv /\ [Next]_vars => Inv'
  <1> SUFFICES ASSUME Inv, [Next]_vars
      PROVE  /\ AnswerTells' /\ PhaseKnows'
             /\ ReportsAgainstTheShownRun' /\ ComparesACompleteBase'
    BY StepTyped DEF Inv
  <1> USE DEF backend, config, Goto, SleepThenRetry, TimedOut, Settled,
              ShownRun, Past, Terminal, TypeOK, Inv, AnswerTells, PhaseKnows,
              ReportsAgainstTheShownRun, ComparesACompleteBase
  <1>0. TypeOK /\ now' \in Nat /\ now \in Nat /\ Timeout \in Nat
    BY StepTyped, ConstantsAssumption DEF Inv, TypeOK, Horizon
  <1>1. CASE HeadCompletes
    BY <1>0, <1>1 DEF HeadCompletes
  <1>2. CASE PatchingMoves
    BY <1>0, <1>2 DEF PatchingMoves
  <1>3. CASE BaseCompletes
    BY <1>0, <1>3 DEF BaseCompletes
  <1>4. CASE Serve
    <2>1. now' >= now
      BY <1>4, AdvanceTyped, ConstantsAssumption DEF Serve, TypeOK, Inv
    <2>2. AnswerTells'
      <3>0. /\ UNCHANGED <<head, patching, base, supported, readable, phase>>
            /\ answer' \in Answers
        BY <1>4 DEF Serve
      <3> USE DEF Failed, Denied, Absent, GetTestRun, Answer
      <3>1. phase = "poll" =>
              /\ answer'.kind \in {"error", "run"}
              /\ answer'.status \in Terminal => head = answer'.status
        BY <3>0 DEF Answers, StatusOf, Terminal
      <3>2. phase = "resolve" =>
              /\ answer'.kind \in {"error", "absent", "patching"}
              /\ answer'.kind = "absent" => answer'.id = "head" /\ ~supported
              /\ answer'.kind = "patching" /\ ~answer'.busy =>
                   Settled /\ answer'.id = ShownRun
        <4>1. GetPatchingResult.kind \in {"absent", "patching"}
          BY DEF GetPatchingResult
        <4>2. phase = "resolve" => answer' \in {Failed, GetPatchingResult}
          BY <3>0 DEF Answers
        <4> QED  BY <1>0, <4>1, <4>2
                 DEF GetPatchingResult, EffectiveId, Settled, ShownRun, TypeOK
      <3>3. phase = "fetch" /\ answer'.kind = "run" =>
              /\ answer'.id = "merged" /\ answer'.status # "noop"
              /\ answer'.status = "done" \/ TimedOut
        <4>1. phase = "fetch" => effective = "merged"
                                 /\ answer' \in {Failed, GetTestRun(effective)}
          BY <3>0 DEF Answers, Inv, PhaseKnows
        <4> QED  BY <4>1 DEF StatusOf, Inv, PhaseKnows
      <3>4. phase = "base" =>
              /\ answer'.kind \in {"error", "denied", "run"}
              /\ answer'.kind = "denied" => ~readable
              /\ answer'.status \in Terminal => base = "done"
        BY <1>0, <3>0 DEF Answers, Terminal, TypeOK
      <3>5. TimedOut => TimedOut'
        BY <1>0, <2>1 DEF TimedOut
      <3>6. Settled' = Settled /\ ShownRun' = ShownRun
        BY <3>0 DEF Settled, ShownRun
      <3> QED  BY <3>0, <3>1, <3>2, <3>3, <3>4, <3>5, <3>6 DEF AnswerTells
    <2>3. PhaseKnows' /\ ReportsAgainstTheShownRun' /\ ComparesACompleteBase'
      BY <1>0, <1>4, <2>1 DEF Serve
    <2> QED  BY <2>2, <2>3
  <1>5. CASE ServeRegistration
    <2>1. now' >= now
      BY <1>5, AdvanceTyped, ConstantsAssumption DEF ServeRegistration, Inv
    <2> QED  BY <1>0, <1>5, <2>1 DEF ServeRegistration
  <1>6. CASE Wake
    <2>1. now' >= now
      BY <1>6, AdvanceTyped, ConstantsAssumption DEF Wake, Inv
    <2> QED  BY <1>0, <1>6, <2>1 DEF Wake
  <1>7. CASE Lookup
    BY <1>0, <1>7 DEF Lookup, Answered
  <1>8. CASE PollFails
    BY <1>0, <1>8 DEF PollFails, Answered
  <1>9. CASE PollSeesTerminal
    BY <1>0, <1>9 DEF PollSeesTerminal, Answered
  <1>10. CASE PollWaits
    BY <1>0, <1>10 DEF PollWaits, Answered
  <1>11. CASE ResolveAnswered
    <2>1. phase = "resolve" /\ call = "served" /\ call' # "served"
      BY <1>11 DEF ResolveAnswered, Answered, Resolved
    <2>2. CASE answer.busy /\ ~TimedOut
      BY <1>0, <1>11, <2>1, <2>2 DEF ResolveAnswered
    <2>3. CASE (~answer.busy \/ TimedOut) /\ answer.id = "head"
      BY <1>0, <1>11, <2>1, <2>3 DEF ResolveAnswered, Resolved
    <2>4. CASE (~answer.busy \/ TimedOut) /\ answer.id # "head"
      BY <1>0, <1>11, <2>1, <2>4 DEF ResolveAnswered, Resolved, Runs
    <2> QED  BY <2>2, <2>3, <2>4
  <1>12. CASE ResolveFails
    BY <1>0, <1>12 DEF ResolveFails, Answered, Resolved
  <1>13. CASE FetchAnswered
    BY <1>0, <1>13 DEF FetchAnswered, Answered
  <1>14. CASE FetchFails
    BY <1>0, <1>14 DEF FetchFails, Answered
  <1>15. CASE SkipRegistering
    BY <1>0, <1>15 DEF SkipRegistering, EnterBaseWait
  <1>16. CASE RegisterAnswered
    BY <1>0, <1>16 DEF RegisterAnswered, Answered, EnterBaseWait
  <1>17. CASE BaseAnswered
    BY <1>0, <1>17 DEF BaseAnswered, Answered
  <1>18. CASE BaseFails
    BY <1>0, <1>18 DEF BaseFails, Answered
  <1>19. CASE UNCHANGED vars
    BY <1>19 DEF vars
  <1> QED  BY <1>1, <1>2, <1>3, <1>4, <1>5, <1>6, <1>7, <1>8, <1>9, <1>10,
              <1>11, <1>12, <1>13, <1>14, <1>15, <1>16, <1>17, <1>18, <1>19
           DEF Next, Answering, Client

LEMMA InitInv == Init => Inv
  BY InitTyped
  DEF Init, Past, Terminal, Inv, AnswerTells, PhaseKnows,
      ReportsAgainstTheShownRun, ComparesACompleteBase

(* Results are reported against the run the user sees, completed, unless   *)
(* the backend cannot resolve it or the deadline has passed; no other run  *)
(* is registered.                                                          *)
THEOREM ReportsAgainstShown == Spec => []ReportsAgainstTheShownRun
  <1>1. Inv => ReportsAgainstTheShownRun
    BY DEF Inv
  <1> QED  BY <1>1, InitInv, StepInv, PTL DEF Spec

(* The base the snapshots are compared with has completed, unless there is *)
(* none to read or the deadline has passed.                                *)
THEOREM BaseComplete == Spec => []ComparesACompleteBase
  <1>1. Inv => ComparesACompleteBase
    BY DEF Inv
  <1> QED  BY <1>1, InitInv, StepInv, PTL DEF Spec
=============================================================================
