-------------------------- MODULE Launcher_proofs --------------------------
(***************************************************************************)
(* Safety of the two components of packages/remote-replay-launcher that    *)
(* make a test run: DeploymentTrigger, for every number of retries, window *)
(* and duration of a request, and RemoteTestRun, for every number of       *)
(* workers and all times that satisfy its assumption.  The two share no    *)
(* name, so one module holds the proofs of both.                           *)
(***************************************************************************)
EXTENDS DeploymentTrigger, RemoteTestRun, TLAPS

\* Once a request that needs no base can have been made, the poll is over
\* and has lasted its window.
LastResort ==
  /\ phase \in {"fallback", "returned", "threw"}
  /\ elapsed > Window + extra /\ ~lookups

Foundations ==
  /\ phase \in {"prepare", "diff"} => run = "none" /\ orphans = {}
  /\ (run # "none" \/ orphans # {} \/ phase \in Calling) /\ hasDiff => diff
  /\ waitForBase /\ (\/ FALSE \in orphans \/ run = "baseless"
                     \/ phase = "fallback") => LastResort

\* What an answer that has been read tells of the backend.
AnswersTell ==
  /\ phase = "poll" => waitForBase
  /\ phase \in {"prepare", "diff"} => ~testRun
  /\ phase \in {"prepare", "diff", "returned", "threw"} => call = "none"
  /\ call = "asleep" => phase = "poll"
  /\ testRun => run # "none"
  /\ call = "served" /\ answer.kind = "ok" =>
       /\ answer.testRun => run # "none"
       /\ answer.testRun \/ declines \/ answer.baseNotFound
       /\ phase = "complete" /\ answer.baseNotFound => waitForBase
       /\ phase = "fallback" => answer.testRun \/ declines

\* How far the clock is when the poll sleeps, asks and is answered.
ClockInv ==
  /\ phase \in {"prepare", "diff", "complete"} => elapsed = 0
  /\ phase = "poll" =>
       CASE call = "sent" -> elapsed <= Window + Extra + Interval
                                        + inner * CallTime
         [] call = "served" -> elapsed <= Window + Extra + Interval
                                          + (inner + 1) * CallTime
         [] OTHER -> elapsed <= Window + Extra /\ inner = 0
  /\ elapsed <= PollBound

Inv == TypeOK /\ Foundations /\ AnswersTell /\ NoRunIsLost /\ ClockInv

-----------------------------------------------------------------------------
(* Types.                                                                  *)

LEMMA CommitTyped ==
    ASSUME TypeOK, NEW m \in BOOLEAN
    PROVE  AfterCommit(m) \in {"none", "based", "baseless"}
  BY DEF AfterCommit, TypeOK

LEMMA LaterTyped ==
    ASSUME TypeOK, NEW d \in Nat
    PROVE  /\ Later(d) \in 0..Horizon
           /\ Later(d) >= elapsed /\ Later(d) <= elapsed + d
  BY ConstantsAssumption DEF Later, TypeOK, Horizon, PollBound, CallsTime

LEMMA AnswerTyped == TypeOK /\ Serve => answer' \in Answers
  <1> SUFFICES ASSUME TypeOK, Serve PROVE answer' \in Answers
    OBVIOUS
  <1>1. CASE \E k \in {"gateway", "transient", "fatal"} : answer' = Failure(k)
    BY <1>1 DEF Failure, Answers
  <1>2. CASE \E x \in {0, Extra} : answer' =
               [kind |-> "ok", testRun |-> run' # "none",
                baseNotFound |-> run' = "none" /\ ~declines, extra |-> x]
    BY <1>2 DEF Answers
  <1> QED  BY <1>1, <1>2 DEF Serve

LEMMA StepTyped == TypeOK /\ [Next]_vars => TypeOK'
  <1> SUFFICES ASSUME TypeOK, [Next]_vars PROVE TypeOK'
    OBVIOUS
  <1> USE ConstantsAssumption DEF TypeOK, config, server, result, Phases, Calling
  <1>1. CASE BaseAppears
    BY <1>1 DEF BaseAppears
  <1>2. CASE OrphanCommits
    BY <1>2, CommitTyped DEF OrphanCommits
  <1>3. CASE Serve
    <2>1. answer' \in Answers
      BY <1>3, AnswerTyped
    <2>2. elapsed' \in 0..Horizon
      BY <1>3, LaterTyped DEF Serve
    <2>3. MustHaveBase \in BOOLEAN
      BY DEF MustHaveBase
    <2>4. run' \in {"none", "based", "baseless"} /\ orphans' \subseteq BOOLEAN
      BY <1>3, <2>3, CommitTyped DEF Serve
    <2> QED  BY <1>3, <2>1, <2>2, <2>4 DEF Serve
  <1>4. CASE Prepare
    BY <1>4 DEF Prepare, Prepared, StartComplete, Throw
  <1>5. CASE UploadDiff
    <2>1. CASE diff' = TRUE /\ StartComplete
      BY <1>5, <2>1 DEF UploadDiff, StartComplete
    <2>2. CASE diff' \in BOOLEAN /\ Throw
      BY <1>5, <2>2 DEF UploadDiff, Throw
    <2> QED  BY <1>5, <2>1, <2>2 DEF UploadDiff
  <1>6. CASE GiveUp
    BY <1>6 DEF GiveUp, Throw, Calling, RetryInner, RetryOuter
  <1>7. CASE Retry
    BY <1>7 DEF Retry, RetryInner, RetryOuter, Calling
  <1>8. CASE Settled
    BY <1>8 DEF Settled, Answered, Return, Answers
  <1>9. CASE WaitForBase
    BY <1>9 DEF WaitForBase, Answered, Answers
  <1>10. CASE FallBack
    BY <1>10 DEF FallBack, Answered, Return, Answers
  <1>11. CASE WakeUp
    BY <1>11, LaterTyped DEF WakeUp
  <1>12. CASE FallbackAnswered
    BY <1>12 DEF FallbackAnswered, Return, Answers
  <1>13. CASE UNCHANGED vars
    BY <1>13 DEF vars
  <1> QED  BY <1>1, <1>2, <1>3, <1>4, <1>5, <1>6, <1>7,
              <1>8, <1>9, <1>10, <1>11, <1>12, <1>13
           DEF Next, Client

LEMMA HorizonTyped == CallsTime \in Nat /\ PollBound \in Nat /\ Horizon \in Nat
  <1>1. InnerRetries \in Nat /\ CallTime \in Nat
    BY ConstantsAssumption
  <1>2. CallsTime \in Nat
    BY <1>1, SMTT(30) DEF CallsTime
  <1> QED  BY <1>2, ConstantsAssumption DEF PollBound, Horizon

LEMMA InitTyped == Init => TypeOK
  <1> SUFFICES ASSUME Init PROVE TypeOK
    OBVIOUS
  <1>1. Failure("ok") \in Answers
    BY DEF Failure, Answers
  <1>2. elapsed \in 0..Horizon /\ inner \in 0..InnerRetries
        /\ outer \in 0..OuterRetries
    BY HorizonTyped, ConstantsAssumption DEF Init
  <1> QED  BY <1>1, <1>2 DEF Init, TypeOK, Phases

(* Every reachable state is typed; no request is made more often than      *)
(* executeWithRetry allows, inside or outside.                             *)
THEOREM TypeCorrect == Spec => []TypeOK
  BY InitTyped, StepTyped, PTL DEF Spec

-----------------------------------------------------------------------------
(* The run is as asked for.                                                *)

LEMMA StepFoundations ==
    TypeOK /\ AnswersTell /\ Foundations /\ [Next]_vars
      => Foundations'
  <1> SUFFICES ASSUME TypeOK /\ AnswersTell /\ Foundations,
                      [Next]_vars
               PROVE  Foundations'
    OBVIOUS
  <1> USE DEF Foundations, LastResort, config, server, result, Calling
  <1>1. CASE BaseAppears
    BY <1>1 DEF BaseAppears
  <1>2. CASE OrphanCommits
    <2>1. run' = "baseless" /\ waitForBase =>
            run = "baseless" \/ FALSE \in orphans
      BY <1>2 DEF OrphanCommits, AfterCommit, TypeOK
    <2>2. run' # "none" => run # "none" \/ orphans # {}
      BY <1>2 DEF OrphanCommits, AfterCommit
    <2> QED  BY <1>2, <2>1, <2>2 DEF OrphanCommits
  <1>3. CASE Serve
    <2>1. phase # "fallback" /\ waitForBase => MustHaveBase = TRUE
      BY DEF MustHaveBase
    <2>2. phase \in Calling
      BY <1>3 DEF Serve, TypeOK, Phases, AnswersTell, Calling
    <2>3. CASE phase = "fallback"
      BY <1>3, <2>2, <2>3 DEF Serve
    <2>4. CASE phase # "fallback" /\ waitForBase
      <3>1. /\ run' = "baseless" => run = "baseless"
            /\ FALSE \in orphans' => FALSE \in orphans
        BY <1>3, <2>1, <2>4 DEF Serve, AfterCommit
      <3> QED  BY <1>3, <2>2, <2>4, <3>1 DEF Serve
    <2>5. CASE phase # "fallback" /\ ~waitForBase
      BY <1>3, <2>2, <2>5 DEF Serve
    <2> QED  BY <2>3, <2>4, <2>5
  <1>4. CASE Prepare
    <2>1. UNCHANGED <<run, diff, orphans, config>> /\ phase = "prepare"
      BY <1>4 DEF Prepare, Prepared, StartComplete, Throw
    <2>2. (phase' \in Calling => ~hasDiff) /\ phase' # "fallback"
      BY <1>4 DEF Prepare, Prepared, StartComplete, Throw
    <2> QED  BY <2>1, <2>2
  <1>5. CASE UploadDiff
    <2>1. CASE diff' = TRUE /\ StartComplete
      BY <1>5, <2>1 DEF UploadDiff, StartComplete, TypeOK
    <2>2. CASE diff' \in BOOLEAN /\ Throw
      BY <1>5, <2>2 DEF UploadDiff, Throw, TypeOK
    <2> QED  BY <1>5, <2>1, <2>2 DEF UploadDiff
  <1>6. CASE GiveUp
    BY <1>6 DEF GiveUp, Throw, Calling, RetryInner, RetryOuter
  <1>7. CASE Retry
    BY <1>7 DEF Retry, RetryInner, RetryOuter, Calling
  <1>8. CASE Settled
    BY <1>8 DEF Settled, Answered, Return
  <1>9. CASE WaitForBase
    BY <1>9 DEF WaitForBase, Answered
  <1>10. CASE FallBack
    <2>1. CASE lookups /\ Return
      BY <1>10, <2>1 DEF FallBack, Answered, Return, TimedOut
    <2>2. CASE ~lookups /\ phase' = "fallback"
      BY <1>10, <2>2 DEF FallBack, Answered, TimedOut
    <2> QED  BY <1>10, <2>1, <2>2 DEF FallBack
  <1>11. CASE WakeUp
    BY <1>11 DEF WakeUp, AnswersTell
  <1>12. CASE FallbackAnswered
    BY <1>12 DEF FallbackAnswered, Return
  <1>13. CASE UNCHANGED vars
    BY <1>13 DEF vars
  <1> QED  BY <1>1, <1>2, <1>3, <1>4, <1>5, <1>6, <1>7,
              <1>8, <1>9, <1>10, <1>11, <1>12, <1>13
           DEF Next, Client

-----------------------------------------------------------------------------
(* No run is lost.                                                         *)

LEMMA StepTell ==
    TypeOK /\ AnswersTell /\ NoRunIsLost /\ [Next]_vars
      => (AnswersTell /\ NoRunIsLost)'
  <1> SUFFICES ASSUME TypeOK /\ AnswersTell /\ NoRunIsLost,
                      [Next]_vars
               PROVE  (AnswersTell /\ NoRunIsLost)'
    OBVIOUS
  <1> USE DEF AnswersTell, NoRunIsLost, config, server, result, Calling
  <1>1. CASE BaseAppears
    BY <1>1 DEF BaseAppears
  <1>2. CASE OrphanCommits
    <2>1. run # "none" => run' # "none"
      BY <1>2 DEF OrphanCommits, AfterCommit
    <2> QED  BY <1>2, <2>1 DEF OrphanCommits
  <1>3. CASE Serve
    <2>1. run # "none" => run' # "none"
      BY <1>3 DEF Serve, AfterCommit
    <2>2. answer'.kind = "ok" =>
            /\ run' = AfterCommit(MustHaveBase)
            /\ answer'.testRun <=> run' # "none"
            /\ answer'.baseNotFound <=> run' = "none" /\ ~declines
      <3>1. CASE \E k \in {"gateway", "transient", "fatal"} : answer' = Failure(k)
        BY <3>1 DEF Failure
      <3>2. CASE /\ run' = AfterCommit(MustHaveBase)
                 /\ \E x \in {0, Extra} : answer' =
                      [kind |-> "ok", testRun |-> run' # "none",
                       baseNotFound |-> run' = "none" /\ ~declines, extra |-> x]
        <4>1. PICK x \in {0, Extra} : answer' =
                      [kind |-> "ok", testRun |-> run' # "none",
                       baseNotFound |-> run' = "none" /\ ~declines, extra |-> x]
          BY <3>2
        <4>2. /\ answer'.testRun = (run' # "none")
              /\ answer'.baseNotFound = (run' = "none" /\ ~declines)
          BY <4>1, Zenon
        <4> QED  BY <3>2, <4>2
      <3> QED  BY <1>3, <3>1, <3>2 DEF Serve
    <2>3. /\ phase = "complete" => MustHaveBase = waitForBase
          /\ phase = "fallback" => MustHaveBase = FALSE
      BY DEF MustHaveBase
    <2>4. phase \notin {"prepare", "diff", "returned", "threw"}
      BY <1>3 DEF Serve
    <2> QED  BY <1>3, <2>1, <2>2, <2>3, <2>4 DEF Serve, AfterCommit, TypeOK
  <1>4. CASE Prepare
    BY <1>4 DEF Prepare, Prepared, StartComplete, Throw
  <1>5. CASE UploadDiff
    BY <1>5 DEF UploadDiff, StartComplete, Throw
  <1>6. CASE GiveUp
    BY <1>6 DEF GiveUp, Throw, Calling, RetryInner, RetryOuter
  <1>7. CASE Retry
    BY <1>7 DEF Retry, RetryInner, RetryOuter, Calling
  <1>8. CASE Settled
    BY <1>8 DEF Settled, Answered, Return, BaseMissing, TypeOK
  <1>9. CASE WaitForBase
    BY <1>9 DEF WaitForBase, Answered, BaseMissing, TypeOK
  <1>10. CASE FallBack
    BY <1>10 DEF FallBack, Answered, Return, BaseMissing, TypeOK
  <1>11. CASE WakeUp
    BY <1>11 DEF WakeUp
  <1>12. CASE FallbackAnswered
    BY <1>12 DEF FallbackAnswered, Return
  <1>13. CASE UNCHANGED vars
    BY <1>13 DEF vars
  <1> QED  BY <1>1, <1>2, <1>3, <1>4, <1>5, <1>6, <1>7,
              <1>8, <1>9, <1>10, <1>11, <1>12, <1>13
           DEF Next, Client

-----------------------------------------------------------------------------
(* The poll is bounded.                                                    *)

LEMMA AttemptsTime ==
    ASSUME TypeOK
    PROVE  /\ inner * CallTime \in Nat
           /\ (inner + 1) * CallTime = inner * CallTime + CallTime
           /\ (inner + 1) * CallTime <= CallsTime
  BY ConstantsAssumption, SMTT(60) DEF TypeOK, CallsTime

LEMMA StepClock ==
    TypeOK /\ AnswersTell /\ ClockInv /\ [Next]_vars
      => ClockInv'
  <1> SUFFICES ASSUME TypeOK /\ AnswersTell /\ ClockInv,
                      [Next]_vars
               PROVE  ClockInv'
    OBVIOUS
  <1> USE ConstantsAssumption, AttemptsTime DEF ClockInv, config, server, result, PollBound
  <1>1. CASE BaseAppears
    BY <1>1 DEF BaseAppears
  <1>2. CASE OrphanCommits
    BY <1>2 DEF OrphanCommits
  <1>3. CASE Serve
    <2>1. CASE phase = "poll"
      <3>1. PICK d \in 0..CallTime : elapsed' = Later(d)
        BY <1>3, <2>1 DEF Serve
      <3>2. elapsed' \in Nat /\ elapsed' <= elapsed + CallTime
        BY <3>1, LaterTyped DEF TypeOK, Horizon, Later
      <3> QED  BY <1>3, <2>1, <3>2, HorizonTyped DEF Serve, TypeOK
    <2>2. CASE phase # "poll"
      BY <1>3, <2>2 DEF Serve
    <2> QED  BY <2>1, <2>2
  <1>4. CASE Prepare
    BY <1>4 DEF Prepare, Prepared, StartComplete, Throw
  <1>5. CASE UploadDiff
    BY <1>5 DEF UploadDiff, StartComplete, Throw
  <1>6. CASE GiveUp
    BY <1>6 DEF GiveUp, Throw, Calling, RetryInner, RetryOuter
  <1>7. CASE Retry
    <2>1. CASE RetryInner
      <3>1. inner' = inner + 1
        BY <1>7, <2>1 DEF Retry, RetryOuter
      <3> QED  BY <1>7, <3>1 DEF Retry, Calling, TypeOK, Horizon
    <2>2. CASE RetryOuter
      BY <1>7, <2>2 DEF Retry, RetryOuter, Calling
    <2> QED  BY <1>7, <2>1, <2>2 DEF Retry
  <1>8. CASE Settled
    BY <1>8 DEF Settled, Answered, Return
  <1>9. CASE WaitForBase
    BY <1>9 DEF WaitForBase, Answered, TimedOut, TypeOK, Answers, Horizon
  <1>10. CASE FallBack
    BY <1>10 DEF FallBack, Answered, Return
  <1>11. CASE WakeUp
    <2>1. elapsed' <= elapsed + Interval
      BY <1>11, LaterTyped DEF WakeUp
    <2>2. phase = "poll" /\ elapsed <= Window + Extra /\ inner = 0
      BY <1>11 DEF WakeUp, AnswersTell
    <2>3. elapsed' \in Nat /\ elapsed \in Nat
      BY <1>11, LaterTyped, HorizonTyped DEF WakeUp, TypeOK, Later
    <2> QED  BY <1>11, <2>1, <2>2, <2>3, HorizonTyped DEF WakeUp
  <1>12. CASE FallbackAnswered
    BY <1>12 DEF FallbackAnswered, Return
  <1>13. CASE UNCHANGED vars
    BY <1>13 DEF vars
  <1> QED  BY <1>1, <1>2, <1>3, <1>4, <1>5, <1>6, <1>7,
              <1>8, <1>9, <1>10, <1>11, <1>12, <1>13
           DEF Next, Client

-----------------------------------------------------------------------------

LEMMA InitInv == Init => Inv
  <1> SUFFICES ASSUME Init PROVE Inv
    OBVIOUS
  <1>1. TypeOK
    BY InitTyped
  <1>2. Foundations /\ AnswersTell /\ NoRunIsLost
    BY DEF Init, Foundations, LastResort, AnswersTell, NoRunIsLost, Calling
  <1>3. ClockInv
    BY <1>1, ConstantsAssumption, AttemptsTime
    DEF Init, ClockInv, PollBound, CallsTime
  <1> QED  BY <1>1, <1>2, <1>3 DEF Inv

LEMMA StepInv == Inv /\ [Next]_vars => Inv'
  BY StepTyped, StepFoundations, StepTell, StepClock DEF Inv

LEMMA Invariance == Spec => []Inv
  BY InitInv, StepInv, PTL DEF Spec

(* A run has its diff in place, and lacks a base only when the caller did  *)
(* not wait for one or the whole extended window has passed.               *)
THEOREM RunAsAskedFor == Spec => []RunIsAsAskedFor
  <1>1. Inv => RunIsAsAskedFor
    BY DEF Inv, Foundations, LastResort, RunIsAsAskedFor
  <1> QED  BY <1>1, Invariance, PTL

(* The client returns a run exactly when the server has one for it, except *)
(* where the server makes none or a versionLookup manifest found no base.  *)
THEOREM RunNotLost == Spec => []NoRunIsLost
  <1>1. Inv => NoRunIsLost
    BY DEF Inv
  <1> QED  BY <1>1, Invariance, PTL

(* The poll for the base lasts at most its longest window, one sleep and   *)
(* one call with its retries, however often the server moves the window.   *)
THEOREM PollBounded == Spec => []PollIsBounded
  <1>1. Inv => PollIsBounded
    BY DEF Inv, ClockInv, PollIsBounded
  <1> QED  BY <1>1, Invariance, PTL

-----------------------------------------------------------------------------
(***************************************************************************)
(* RemoteTestRun.  The polls do not wait for each other, so an answer may  *)
(* be old when it arrives.  The invariant bounds how old (AnswerInv) and   *)
(* says that a run which was retried while the launcher waits is seen      *)
(* active before it can end again (WaitInv): an execution error that is    *)
(* accepted is therefore one that no retry can follow.                     *)
(***************************************************************************)

\* The run has ended for good.
Dead == \/ runStatus = "final"
        \/ runStatus = "error" /\ runAge > RetryWithin

Accepted == {"firstLock", "locked", "keeping", "returned"}

\* What belongs to each stage; no status request takes another's place.
StageInv ==
  /\ runStatus = "none" => ~armed /\ polls = NoPolls /\ waiting = NotWaiting
  /\ stage \in {"opening", "creating"} => runStatus = "none"
  /\ stage = "running" => runStatus # "none" /\ armed
  /\ stage \in Accepted => Dead /\ ~armed
  /\ lockArmed => stage \in {"locked", "threw", "crashed"}
  /\ armed /\ polls[0] # "none" => due > 0
  /\ tunnel = "closed" <=> stage = "returned"
  /\ stage = "returned" => \A w \in Workers : worker[w] = "gone"

\* An answer on its way tells what the run was no longer ago than it was
\* asked.
AnswerInv ==
  \A a \in Ages :
    /\ polls[a] = "final" => runStatus = "final"
    /\ polls[a] = "error" =>
         \/ runStatus \in Ended
         \/ runStatus = "running" /\ runAge <= a

\* While it waits, the run has not run for longer than since the first error
\* that it waits for; or it runs again, and polling is about to see that.
SeenSoon ==
  \/ runAge <= Latency + PollEvery - due
  \/ \E a \in Ages : /\ polls[a] \in {"asked", "running", "failed"}
                     /\ runAge <= Latency + PollEvery + a

WaitInv ==
  stage = "running" /\ waiting # NotWaiting =>
    /\ runStatus = "error" => waiting <= runAge \/ runAge = AgeCap
    /\ runStatus = "running" => waiting <= RetryWithin + runAge /\ SeenSoon

RunInv == RunTypeOK /\ StageInv /\ AnswerInv /\ WaitInv

-----------------------------------------------------------------------------
LEMMA TimingFacts ==
    /\ PollEvery \in Nat /\ Latency \in Nat /\ RetryWindow \in Nat
    /\ PollEvery > 0 /\ RetryWindow > RetryWithin + Latency
    /\ RetryWithin \in Nat /\ MinRun \in Nat /\ AgeCap \in Nat
    /\ MinRun > PollEvery + 2 * Latency
    /\ AgeCap > RetryWithin /\ AgeCap >= MinRun
  BY TimingAssumption DEF AgeCap

LEMMA RunInitInv == RunInit => RunInv
  <1> SUFFICES ASSUME RunInit PROVE RunInv
    OBVIOUS
  <1>1. NotWaiting \in NotWaiting..RetryWindow
    BY TimingFacts DEF NotWaiting
  <1>2. RunTypeOK
    <2>1. polls \in [Ages -> {"none", "asked"} \cup Replies]
      BY DEF RunInit, NoPolls
    <2>2. /\ runAge \in 0..AgeCap /\ due \in 0..PollEvery
          /\ waiting \in NotWaiting..RetryWindow
      BY <1>1, TimingFacts DEF RunInit
    <2> QED  BY <2>1, <2>2 DEF RunInit, RunTypeOK, Stages
  <1>3. StageInv /\ AnswerInv /\ WaitInv
    BY DEF RunInit, StageInv, AnswerInv, WaitInv, Accepted, NoPolls, Ages,
           NotWaiting
  <1> QED  BY <1>2, <1>3 DEF RunInv

\* What the answer to a poll does to the launcher.
LEMMA PollAnsweredShape ==
    ASSUME RunTypeOK, NEW a \in Ages, PollAnswered(a)
    PROVE  /\ stage # "crashed"
           /\ polls' = [polls EXCEPT ![a] = "none"]
           /\ polls[a] \in Replies
           /\ polls[a] = "failed" => SeesFailure
           /\ polls[a] = "running" => SeesActive
           /\ polls[a] = "error" => SeesExecutionError
           /\ polls[a] = "final" => Complete
           /\ UNCHANGED <<tunnel, worker, backend, due, lockArmed, released>>
  BY DEF PollAnswered, Replies, Active, Ended

LEMMA RunStepTyped == RunTypeOK /\ [RunNext]_runVars => RunTypeOK'
  <1> SUFFICES ASSUME RunTypeOK, [RunNext]_runVars PROVE RunTypeOK'
    OBVIOUS
  <1> USE TimingFacts
      DEF RunTypeOK, Stages, Active, Ended, Replies, Ages, NotWaiting,
          backend, timer, locks
  <1>1. CASE RunEnds
    BY <1>1 DEF RunEnds
  <1>2. CASE RunRetried
    BY <1>2 DEF RunRetried
  <1>3. CASE LockFlips
    BY <1>3 DEF LockFlips
  <1>4. CASE Release
    BY <1>4 DEF Release
  <1>5. CASE OpenTunnel
    BY <1>5 DEF OpenTunnel
  <1>6. CASE CreateRun
    <2>1. stage' = "threw" /\ UNCHANGED <<runStatus, runAge, timer>> => RunTypeOK'
      BY <1>6 DEF CreateRun
    <2>2. runAge' = AgeCap /\ due' = PollEvery =>
            runAge' \in 0..AgeCap /\ due' \in 0..PollEvery
      BY TimingFacts
    <2> QED  BY <2>1, <2>2, <1>6 DEF CreateRun
  <1>7. CASE Fire
    BY <1>7 DEF Fire
  <1>8. CASE LockFires
    BY <1>8 DEF LockFires
  <1>9. CASE ServeLock
    BY <1>9 DEF ServeLock
  <1>10. CASE CloseAndReturn
    BY <1>10 DEF CloseAndReturn, CloseTunnel
  <1>11. CASE Tick
    <2>1. polls' \in [Ages -> {"none", "asked"} \cup Replies]
      BY <1>11 DEF Tick
    <2> QED  BY <2>1, <1>11 DEF Tick
  <1>12. ASSUME NEW w \in Workers, WorkerListens(w) PROVE RunTypeOK'
    BY <1>12 DEF WorkerListens
  <1>13. ASSUME NEW w \in Workers, WorkerExits(w) PROVE RunTypeOK'
    BY <1>13 DEF WorkerExits
  <1>14. ASSUME NEW a \in Ages, ServePoll(a) PROVE RunTypeOK'
    <2>1. PICK s \in {runStatus, "failed"} : polls' = [polls EXCEPT ![a] = s]
      BY <1>14 DEF ServePoll
    <2>2. s \in {"none", "asked"} \cup Replies
      BY <2>1
    <2> QED  BY <2>1, <2>2, <1>14 DEF ServePoll
  <1>15. ASSUME NEW a \in Ages, PollAnswered(a) PROVE RunTypeOK'
    <2>1. polls' \in [Ages -> {"none", "asked"} \cup Replies]
      BY <1>15, PollAnsweredShape
    <2>2. /\ stage' \in Stages /\ armed' \in BOOLEAN
          /\ waiting' \in NotWaiting..RetryWindow
          /\ lockPolls' \subseteq {"asked", "locked", "unlocked", "failed"}
      <3>1. /\ stage \in Stages /\ armed \in BOOLEAN
            /\ waiting \in NotWaiting..RetryWindow
            /\ lockPolls \subseteq {"asked", "locked", "unlocked", "failed"}
            /\ NotWaiting \in NotWaiting..RetryWindow
            /\ 0 \in NotWaiting..RetryWindow
        BY TimingFacts
      <3>2. SeesFailure \/ SeesActive \/ SeesExecutionError \/ Complete
        BY <1>15, PollAnsweredShape
      <3> QED
        BY <3>1, <3>2 DEF SeesFailure, SeesActive, SeesExecutionError, Complete
    <2> QED  BY <2>1, <2>2, <1>15, PollAnsweredShape
  <1>16. ASSUME NEW a \in {"locked", "unlocked", "failed"}, LockAnswered(a)
         PROVE  RunTypeOK'
    <2>1. stage' \in Stages /\ lockArmed' \in BOOLEAN
      BY <1>16 DEF LockAnswered
    <2>2. /\ lockPolls' = lockPolls \ {a}
          /\ UNCHANGED <<tunnel, worker, backend, polls, timer, released>>
      BY <1>16 DEF LockAnswered
    <2> QED  BY <2>1, <2>2
  <1>17. CASE UNCHANGED runVars
    BY <1>17 DEF runVars
  <1> QED
    BY <1>1, <1>2, <1>3, <1>4, <1>5, <1>6, <1>7, <1>8, <1>9, <1>10, <1>11,
       <1>12, <1>13, <1>14, <1>15, <1>16, <1>17
    DEF RunNext

\* An execution error is accepted only when no retry can follow.
LEMMA AcceptedIsDead ==
    ASSUME RunInv, NEW a \in Ages, polls[a] = "error", stage = "running",
           ~RetryHoped
    PROVE  Dead
  <1>1. waiting = RetryWindow /\ waiting # NotWaiting
    BY TimingFacts DEF RunInv, RunTypeOK, RetryHoped, NotWaiting
  <1>2. CASE runStatus = "running"
    <2>1. runAge <= a /\ a <= Latency /\ waiting <= RetryWithin + runAge
      BY <1>1, <1>2, TimingFacts
      DEF RunInv, AnswerInv, WaitInv, Ended, Ages, NotWaiting
    <2> QED  BY <1>1, <2>1, TimingFacts DEF RunInv, RunTypeOK, Ages
  <1>3. CASE runStatus = "error"
    BY <1>1, <1>3, TimingFacts DEF RunInv, RunTypeOK, WaitInv, Dead, NotWaiting
  <1>4. CASE runStatus = "final"
    BY <1>4 DEF Dead
  <1> QED
    BY <1>2, <1>3, <1>4 DEF RunInv, StageInv, RunTypeOK, Active, Ended

\* A run that has been retried was seen active before it can end again.
LEMMA SeenBeforeItEnds ==
    ASSUME RunInv, stage = "running", runStatus = "running", waiting # NotWaiting
    PROVE  runAge < MinRun
  <1>1. SeenSoon
    BY DEF RunInv, WaitInv
  <1>2. runAge \in Nat /\ due \in Nat
    BY TimingFacts DEF RunInv, RunTypeOK
  <1> QED  BY <1>1, <1>2, TimingFacts DEF SeenSoon, Ages

LEMMA StepStage == RunInv /\ [RunNext]_runVars => StageInv'
  <1> SUFFICES ASSUME RunInv, [RunNext]_runVars PROVE StageInv'
    OBVIOUS
  <1>0. RunTypeOK /\ StageInv /\ due \in Nat /\ 0 \in Ages
    BY TimingFacts DEF RunInv, RunTypeOK, Ages
  <1> USE <1>0 DEF StageInv, Accepted, Dead, backend, timer, locks
  <1>1. CASE RunEnds
    <2>1. ~Dead
      BY <1>1 DEF RunEnds, Active
    <2> QED  BY <1>1, <2>1 DEF RunEnds, Active, Ended
  <1>2. CASE RunRetried
    <2>1. ~Dead
      BY <1>2, TimingFacts DEF RunRetried, RunTypeOK
    <2> QED  BY <1>2, <2>1 DEF RunRetried
  <1>3. CASE LockFlips
    BY <1>3 DEF LockFlips
  <1>4. CASE Release
    BY <1>4 DEF Release
  <1>5. CASE OpenTunnel
    BY <1>5 DEF OpenTunnel
  <1>6. CASE CreateRun
    BY <1>6, TimingFacts DEF CreateRun
  <1>7. CASE Fire
    <2>1. polls' # NoPolls => runStatus # "none"
      BY <1>7 DEF Fire
    <2>2. due' > 0
      BY <1>7, TimingFacts DEF Fire
    <2>3. runStatus # "none"
      BY <1>7 DEF Fire
    <2> QED  BY <1>7, <2>2, <2>3 DEF Fire
  <1>8. CASE LockFires
    BY <1>8 DEF LockFires
  <1>9. CASE ServeLock
    BY <1>9 DEF ServeLock
  <1>10. CASE CloseAndReturn
    BY <1>10 DEF CloseAndReturn, CloseTunnel
  <1>11. CASE Tick
    <2>1. Dead => Dead'
      BY <1>11, TimingFacts DEF Tick, RunTypeOK
    <2>2. runStatus = "none" => polls' = NoPolls
      <3>1. \A a \in Ages : a # 0 => a - 1 \in Ages
        BY TimingFacts DEF Ages
      <3>2. runStatus = "none" => \A a \in Ages : a # 0 => polls[a - 1] = "none"
        BY <3>1 DEF NoPolls
      <3> QED  BY <1>11, <3>2 DEF Tick, NoPolls
    <2>3. polls'[0] = "none"
      BY <1>11 DEF Tick
    <2>4. runStatus = "none" => waiting' = NotWaiting
      BY <1>11 DEF Tick
    <2> QED  BY <1>11, <2>1, <2>2, <2>3, <2>4 DEF Tick
  <1>12. ASSUME NEW w \in Workers, WorkerListens(w)
         PROVE  StageInv'
    BY <1>12 DEF WorkerListens
  <1>13. ASSUME NEW w \in Workers, WorkerExits(w)
         PROVE  StageInv'
    BY <1>13 DEF WorkerExits
  <1>14. ASSUME NEW a \in Ages, ServePoll(a)
         PROVE  StageInv'
    <2>1. runStatus # "none" /\ polls' = [polls EXCEPT ![a] = polls'[a]]
      BY <1>14 DEF ServePoll, NoPolls, RunTypeOK
    <2>2. polls'[0] # "none" => polls[0] # "none"
      BY <1>14, <2>1 DEF ServePoll, RunTypeOK
    <2> QED  BY <1>14, <2>1, <2>2 DEF ServePoll
  <1>15. ASSUME NEW a \in Ages, PollAnswered(a)
         PROVE  StageInv'
    <2>1. runStatus # "none"
      BY <1>15 DEF PollAnswered, NoPolls, Replies, Active, Ended
    <2>2. polls'[0] # "none" => polls[0] # "none"
      BY <1>15 DEF PollAnswered, RunTypeOK
    <2>3. /\ stage' # stage => \/ stage = "running" /\ stage' = "threw"
                              \/ /\ stage = "running" /\ stage' = "firstLock"
                                 /\ Dead /\ ~armed'
          /\ armed' # armed => ~armed' /\ stage' # "running"
      <3>1. CASE polls[a] = "failed"
        BY <1>15, <3>1, PollAnsweredShape DEF SeesFailure
      <3>2. CASE polls[a] = "running"
        BY <1>15, <3>2, PollAnsweredShape DEF SeesActive
      <3>3. CASE polls[a] = "error"
        BY <1>15, <3>3, PollAnsweredShape, AcceptedIsDead
        DEF SeesExecutionError, Complete
      <3>4. CASE polls[a] = "final"
        BY <1>15, <3>4, PollAnsweredShape DEF Complete, RunInv, AnswerInv
      <3> QED  BY <3>1, <3>2, <3>3, <3>4, <1>15, PollAnsweredShape
                  DEF Replies, Active, Ended
    <2> QED  BY <1>15, <2>1, <2>2, <2>3, PollAnsweredShape DEF RunTypeOK, Stages
  <1>16. ASSUME NEW a \in {"locked", "unlocked", "failed"}, LockAnswered(a)
         PROVE  StageInv'
    BY <1>16 DEF LockAnswered
  <1>17. CASE UNCHANGED runVars
    BY <1>17 DEF runVars
  <1> QED
    BY <1>1, <1>2, <1>3, <1>4, <1>5, <1>6, <1>7, <1>8, <1>9, <1>10,
       <1>11, <1>12, <1>13, <1>14, <1>15, <1>16, <1>17
    DEF RunNext

LEMMA StepAnswer == RunInv /\ [RunNext]_runVars => AnswerInv'
  <1> SUFFICES ASSUME RunInv, [RunNext]_runVars PROVE AnswerInv'
    OBVIOUS
  <1>0. RunTypeOK /\ AnswerInv /\ runAge \in Nat
    BY TimingFacts DEF RunInv, RunTypeOK
  <1> USE <1>0 DEF AnswerInv, Ended, Active, backend, timer, locks
  <1>1. CASE RunEnds
    BY <1>1 DEF RunEnds
  <1>2. CASE RunRetried
    BY <1>2 DEF RunRetried, Ages
  <1>3. CASE LockFlips
    BY <1>3 DEF LockFlips
  <1>4. CASE Release
    BY <1>4 DEF Release
  <1>5. CASE OpenTunnel
    BY <1>5 DEF OpenTunnel
  <1>6. CASE CreateRun
    BY <1>6 DEF CreateRun, RunInv, StageInv, NoPolls
  <1>7. CASE Fire
    BY <1>7 DEF Fire, RunTypeOK
  <1>8. CASE LockFires
    BY <1>8 DEF LockFires
  <1>9. CASE ServeLock
    BY <1>9 DEF ServeLock
  <1>10. CASE CloseAndReturn
    BY <1>10 DEF CloseAndReturn
  <1>11. CASE Tick
    <2> SUFFICES ASSUME NEW a \in Ages
                 PROVE  /\ polls'[a] = "final" => runStatus' = "final"
                        /\ polls'[a] = "error" =>
                             \/ runStatus' \in Ended
                             \/ runStatus' = "running" /\ runAge' <= a
      OBVIOUS
    <2>1. CASE a = 0
      BY <1>11, <2>1 DEF Tick
    <2>2. CASE a # 0
      <3>1. a - 1 \in Ages /\ polls'[a] = polls[a - 1]
        BY <1>11, <2>2, TimingFacts DEF Tick, Ages
      <3>2. runStatus' = runStatus /\ runAge' <= runAge + 1
        BY <1>11 DEF Tick
      <3>3. a \in Nat /\ runAge' \in Nat
        BY <1>11, TimingFacts DEF Tick, Ages
      <3> QED  BY <3>1, <3>2, <3>3
    <2> QED  BY <2>1, <2>2
  <1>12. ASSUME NEW w \in Workers, WorkerListens(w)
         PROVE  AnswerInv'
    BY <1>12 DEF WorkerListens
  <1>13. ASSUME NEW w \in Workers, WorkerExits(w)
         PROVE  AnswerInv'
    BY <1>13 DEF WorkerExits
  <1>14. ASSUME NEW a \in Ages, ServePoll(a)
         PROVE  AnswerInv'
    <2>1. PICK s \in {runStatus, "failed"} : polls' = [polls EXCEPT ![a] = s]
      BY <1>14 DEF ServePoll
    <2> QED  BY <1>14, <2>1 DEF ServePoll, RunTypeOK
  <1>15. ASSUME NEW a \in Ages, PollAnswered(a)
         PROVE  AnswerInv'
    BY <1>15, PollAnsweredShape DEF RunTypeOK
  <1>16. ASSUME NEW a \in {"locked", "unlocked", "failed"}, LockAnswered(a)
         PROVE  AnswerInv'
    BY <1>16 DEF LockAnswered
  <1>17. CASE UNCHANGED runVars
    BY <1>17 DEF runVars
  <1> QED
    BY <1>1, <1>2, <1>3, <1>4, <1>5, <1>6, <1>7, <1>8, <1>9, <1>10,
       <1>11, <1>12, <1>13, <1>14, <1>15, <1>16, <1>17
    DEF RunNext

LEMMA StepWait == RunInv /\ [RunNext]_runVars => WaitInv'
  <1> SUFFICES ASSUME RunInv, [RunNext]_runVars,
                      stage' = "running", waiting' # NotWaiting
               PROVE  /\ runStatus' = "error" =>
                           waiting' <= runAge' \/ runAge' = AgeCap
                      /\ runStatus' = "running" =>
                           waiting' <= RetryWithin + runAge' /\ SeenSoon'
    BY DEF WaitInv
  <1> DEFINE Goal == /\ runStatus' = "error" =>
                          waiting' <= runAge' \/ runAge' = AgeCap
                     /\ runStatus' = "running" =>
                          waiting' <= RetryWithin + runAge' /\ SeenSoon'
  <1>0. /\ RunTypeOK /\ StageInv /\ AnswerInv /\ WaitInv
        /\ runAge \in Nat /\ due \in Nat /\ waiting \in Int
        /\ due <= PollEvery /\ runAge <= AgeCap
        /\ Ages \subseteq Nat /\ \A a \in Ages : a <= Latency
    BY TimingFacts DEF RunInv, RunTypeOK, Ages, NotWaiting
  <1>a. stage = "running" /\ waiting # NotWaiting =>
          /\ runStatus = "error" => waiting <= runAge \/ runAge = AgeCap
          /\ runStatus = "running" =>
               waiting <= RetryWithin + runAge /\ SeenSoon
    BY <1>0 DEF WaitInv
  <1>b. SeenSoon /\ UNCHANGED <<runAge, due, polls>> => SeenSoon'
    BY DEF SeenSoon
  <1> USE DEF backend, timer, locks
  <1>1. CASE RunEnds
    <2>1. waiting = NotWaiting
      BY <1>1, SeenBeforeItEnds, <1>0, TimingFacts DEF RunEnds, Active
    <2> QED  BY <1>1, <2>1 DEF RunEnds
  <1>2. CASE RunRetried
    <2>1. /\ runStatus = "error" /\ runAge <= RetryWithin
          /\ runStatus' = "running" /\ runAge' = 0
          /\ UNCHANGED <<stage, due, waiting>>
      BY <1>2 DEF RunRetried
    <2>2. waiting <= runAge
      BY <1>a, <2>1, TimingFacts
    <2>3. SeenSoon'
      BY <1>0, <2>1, TimingFacts DEF SeenSoon
    <2> QED  BY <1>0, <2>1, <2>2, <2>3, TimingFacts
  <1>3. CASE LockFlips
    BY <1>3, <1>a, <1>b DEF LockFlips
  <1>4. CASE Release
    BY <1>4, <1>a, <1>b DEF Release
  <1>5. CASE OpenTunnel
    BY <1>5 DEF OpenTunnel
  <1>6. CASE CreateRun
    <2>1. waiting = NotWaiting
      BY <1>0, <1>6 DEF CreateRun, StageInv
    <2> QED  BY <1>6, <2>1 DEF CreateRun
  <1>7. CASE Fire
    <2>1. /\ due = 0 /\ due' = PollEvery
          /\ polls' = [polls EXCEPT ![0] = "asked"]
          /\ UNCHANGED <<stage, waiting, runStatus, runAge>>
      BY <1>7 DEF Fire
    <2>2. ASSUME SeenSoon PROVE SeenSoon'
      <3>1. CASE runAge <= Latency + PollEvery - due
        <4>1. 0 \in Ages /\ polls'[0] = "asked"
          BY <1>0, <2>1, TimingFacts DEF Ages, RunTypeOK
        <4>2. runAge' <= Latency + PollEvery + 0
          BY <1>0, <2>1, <3>1, TimingFacts
        <4> QED  BY <4>1, <4>2 DEF SeenSoon
      <3>2. ASSUME NEW a \in Ages, polls[a] \in {"asked", "running", "failed"},
                   runAge <= Latency + PollEvery + a
            PROVE  SeenSoon'
        BY <1>0, <2>1, <3>2 DEF SeenSoon, RunTypeOK
      <3> QED  BY <2>2, <3>1, <3>2 DEF SeenSoon
    <2> QED  BY <1>a, <2>1, <2>2
  <1>8. CASE LockFires
    BY <1>8, <1>a, <1>b DEF LockFires
  <1>9. CASE ServeLock
    BY <1>9, <1>a, <1>b DEF ServeLock
  <1>10. CASE CloseAndReturn
    BY <1>10 DEF CloseAndReturn
  <1>11. CASE Tick
    <2>1. /\ armed /\ due > 0 /\ due' = due - 1 /\ polls[Latency] = "none"
          /\ UNCHANGED <<stage, runStatus>>
          /\ runAge' = IF runAge < AgeCap THEN runAge + 1 ELSE runAge
          /\ waiting # NotWaiting /\ waiting' <= waiting + 1
      BY <1>0, <1>11 DEF Tick, StageInv
    <2>2. waiting' \in Int
      BY <1>0, <1>11 DEF Tick
    <2>3. CASE runStatus = "error"
      BY <1>0, <1>a, <2>1, <2>2, <2>3, TimingFacts
    <2>4. CASE runStatus = "running"
      <3>1. runAge' = runAge + 1
        BY <1>0, <2>1, <2>4, SeenBeforeItEnds, TimingFacts
      <3>2. ASSUME NEW a \in Ages, polls[a] \in {"asked", "running", "failed"},
                   runAge <= Latency + PollEvery + a
            PROVE  SeenSoon'
        <4>1. a < Latency
          BY <1>0, <2>1, <3>2, TimingFacts
        <4>2. a + 1 \in Ages /\ (a + 1) - 1 = a /\ a + 1 # 0
          BY <1>0, <4>1, TimingFacts DEF Ages
        <4>3. polls'[a + 1] = polls[a]
          BY <1>11, <4>2 DEF Tick
        <4>4. runAge' <= Latency + PollEvery + (a + 1)
          BY <1>0, <3>1, <3>2, TimingFacts
        <4> QED  BY <3>2, <4>2, <4>3, <4>4 DEF SeenSoon
      <3>3. ASSUME runAge <= Latency + PollEvery - due PROVE SeenSoon'
        <4>1. runAge' <= Latency + PollEvery - due'
          BY <1>0, <2>1, <3>1, <3>3, TimingFacts
        <4> QED  BY <4>1 DEF SeenSoon
      <3>4. SeenSoon'
        BY <1>a, <2>1, <2>4, <3>2, <3>3 DEF SeenSoon
      <3> QED  BY <1>0, <1>a, <2>1, <2>2, <2>4, <3>1, <3>4, TimingFacts
    <2> QED  BY <2>1, <2>3, <2>4
  <1>12. ASSUME NEW w \in Workers, WorkerListens(w)
         PROVE  Goal
    BY <1>12, <1>a, <1>b DEF WorkerListens
  <1>13. ASSUME NEW w \in Workers, WorkerExits(w)
         PROVE  Goal
    BY <1>13 DEF WorkerExits
  <1>14. ASSUME NEW a \in Ages, ServePoll(a)
         PROVE  Goal
    <2>1. /\ polls[a] = "asked" /\ polls' = [polls EXCEPT ![a] = polls'[a]]
          /\ polls'[a] \in {runStatus, "failed"}
          /\ UNCHANGED <<stage, waiting, runStatus, runAge, due>>
      BY <1>0, <1>14 DEF ServePoll, RunTypeOK
    <2>2. runStatus = "running" /\ SeenSoon => SeenSoon'
      BY <1>0, <2>1 DEF SeenSoon, RunTypeOK
    <2> QED  BY <1>a, <2>1, <2>2
  <1>15. ASSUME NEW a \in Ages, PollAnswered(a)
         PROVE  Goal
    <2>1. /\ polls' = [polls EXCEPT ![a] = "none"]
          /\ UNCHANGED <<runStatus, runAge, due>>
      BY <1>0, <1>15, PollAnsweredShape
    <2>2. polls[a] = "error"
      <3>1. polls[a] # "failed"
        BY <1>0, <1>15, PollAnsweredShape DEF SeesFailure
      <3>2. polls[a] # "running"
        BY <1>0, <1>15, PollAnsweredShape DEF SeesActive
      <3>3. polls[a] # "final"
        BY <1>0, <1>15, PollAnsweredShape DEF Complete
      <3> QED  BY <1>0, <1>15, PollAnsweredShape, <3>1, <3>2, <3>3
               DEF Replies, Active, Ended
    <2>3. /\ stage = "running"
          /\ waiting' = IF waiting = NotWaiting THEN 0 ELSE waiting
      BY <1>0, <1>15, <2>2, PollAnsweredShape DEF SeesExecutionError, Complete
    <2>4. SeenSoon => SeenSoon'
      BY <1>0, <2>1, <2>2 DEF SeenSoon, RunTypeOK
    <2>5. CASE waiting = NotWaiting
      <3>1. waiting' = 0
        BY <2>3, <2>5
      <3>2. runStatus = "running" => runAge <= Latency
        BY <1>0, <2>2, TimingFacts DEF AnswerInv, Ended
      <3>3. runStatus = "running" => SeenSoon'
        BY <1>0, <2>1, <3>2, TimingFacts DEF SeenSoon
      <3> QED  BY <1>0, <2>1, <3>1, <3>3, TimingFacts
    <2>6. CASE waiting # NotWaiting
      BY <1>a, <2>1, <2>3, <2>4, <2>6
    <2> QED  BY <2>5, <2>6
  <1>16. ASSUME NEW a \in {"locked", "unlocked", "failed"}, LockAnswered(a)
         PROVE  Goal
    BY <1>16, <1>a, <1>b DEF LockAnswered
  <1>17. CASE UNCHANGED runVars
    BY <1>17, <1>a, <1>b DEF runVars
  <1> QED
    BY <1>1, <1>2, <1>3, <1>4, <1>5, <1>6, <1>7, <1>8, <1>9, <1>10,
       <1>11, <1>12, <1>13, <1>14, <1>15, <1>16, <1>17
    DEF RunNext

LEMMA RunInvHolds == RunSpec => []RunInv
  <1>1. RunInv /\ [RunNext]_runVars => RunInv'
    BY RunStepTyped, StepStage, StepAnswer, StepWait DEF RunInv
  <1> QED  BY RunInitInv, <1>1, PTL DEF RunSpec

\* Every variable of a test run through a tunnel keeps its type.
THEOREM RunTypeCorrect == RunSpec => []RunTypeOK
  <1>1. RunInv => RunTypeOK
    BY DEF RunInv
  <1> QED  BY RunInvHolds, <1>1, PTL

\* The tunnel is never closed under a run that is active or is retried, for
\* every number of workers and all times that satisfy TimingAssumption.
THEOREM TunnelServes == RunSpec => []TunnelServesTheRun
  <1>1. RunInv => TunnelServesTheRun
    BY DEF RunInv, StageInv, Accepted, Dead, TunnelServesTheRun, Active
  <1> QED  BY RunInvHolds, <1>1, PTL

\* A return leaves no interval, no worker and no open tunnel behind.
THEOREM QuietReturn == RunSpec => []QuietAfterReturn
  <1>1. RunInv => QuietAfterReturn
    BY DEF RunInv, StageInv, Accepted, QuietAfterReturn
  <1> QED  BY RunInvHolds, <1>1, PTL

\* From the moment the launcher has accepted a result, while it waits for the
\* lock and for its caller and after its return, the run has ended for good.
THEOREM AcceptedStaysDead ==
    RunSpec => [](stage \in Accepted => Dead)
  <1>1. RunInv => (stage \in Accepted => Dead)
    BY DEF RunInv, StageInv
  <1> QED  BY RunInvHolds, <1>1, PTL
=============================================================================
