------------------------- MODULE DeploymentTrigger -------------------------
(***************************************************************************)
(* From an uploaded build to its test run: the end of asset-upload-utils   *)
(* .ts, upload-container.ts and run-with-uploaded-asset-chunks.ts of       *)
(* packages/remote-replay-launcher/src, their common poll-for-base-test-   *)
(* run.ts, and the retries of packages/common/src/http-retry.utils.ts,     *)
(* which each request goes through in client.ts and the completion of      *)
(* assets goes through once more.                                          *)
(*                                                                         *)
(* A gateway may give up on a request that the backend still executes and  *)
(* commits later: such a request is an orphan, beside the retries, the     *)
(* polls and the fallback that follow it.  Ticks are counted from the      *)
(* start of the poll for the base.                                         *)
(***************************************************************************)
EXTENDS Integers

CONSTANTS InnerRetries,  \* DEFAULT_MAX_RETRIES of a request
          OuterRetries,  \* maxRetries of the asset completion
          Window,        \* POLL_FOR_BASE_TEST_RUN_MAX_TIMEOUT_MS
          Extra,         \* extraBasePollTimeoutMs when the server grants it
          Interval,      \* POLL_FOR_BASE_TEST_RUN_INTERVAL_MS
          CallTime       \* the longest a request takes, its back-off included

ASSUME ConstantsAssumption ==
  /\ {InnerRetries, OuterRetries, Window, Extra, CallTime} \subseteq Nat
  /\ Interval \in Nat \ {0}

VARIABLES
  flow,         \* which function runs
  hasDiff,      \* gitDiffOutput is given
  waitForBase,  \* mustHaveBase of the first request
  lookups,      \* chunks: manifestHasVersionLookups
  declines,     \* backend: it makes no run for this deployment, and says so
  base,         \* backend: a test run of the base commit exists
  run,          \* backend: the test run of the deployment
  diff,         \* S3: the git diff is stored under the upload id
  orphans,      \* backend: mustHaveBase of the requests it was given up on
  phase,        \* where the flow is
  call,         \* what it is suspended on
  inner,        \* attempt of executeWithRetry in the client
  outer,        \* attempt of executeWithRetry around it
  answer,       \* what the last request was answered
  testRun,      \* pollWhileBaseNotFound: a test run was answered
  extra,        \* and: the extension of the window last answered
  elapsed       \* Date.now() - startTime of the poll

config == <<flow, hasDiff, waitForBase, lookups, declines>>
server == <<base, run, diff, orphans>>
result == <<testRun, extra>>
vars   == <<config, server, phase, call, inner, outer, answer, result, elapsed>>

Flows   == {"assets", "container", "chunks"}
Calling == {"complete", "poll", "fallback"}
Phases  == {"prepare", "diff"} \cup Calling \cup {"returned", "threw"}
Answers == [kind : {"ok", "gateway", "transient", "fatal"},
            testRun : BOOLEAN, baseNotFound : BOOLEAN, extra : {0, Extra}]
Failure(k) ==
  [kind |-> k, testRun |-> FALSE, baseNotFound |-> FALSE, extra |-> 0]

\* The poll never gets past its bound; the clock of the model stops there.
CallsTime == (InnerRetries + 1) * CallTime
PollBound == Window + Extra + Interval + CallsTime
Horizon   == PollBound + 1
Later(d)  == IF elapsed + d > Horizon THEN Horizon ELSE elapsed + d

TypeOK ==
  /\ flow \in Flows /\ hasDiff \in BOOLEAN /\ waitForBase \in BOOLEAN
  /\ lookups \in BOOLEAN /\ (lookups => flow = "chunks")
  /\ declines \in BOOLEAN /\ base \in BOOLEAN /\ diff \in BOOLEAN
  /\ run \in {"none", "based", "baseless"}
  /\ orphans \subseteq BOOLEAN
  /\ phase \in Phases /\ call \in {"none", "sent", "served", "asleep"}
  /\ inner \in 0..InnerRetries /\ outer \in 0..OuterRetries
  /\ answer \in Answers
  /\ testRun \in BOOLEAN /\ extra \in {0, Extra}
  /\ elapsed \in 0..Horizon

Init ==
  /\ flow \in Flows /\ hasDiff \in BOOLEAN /\ waitForBase \in BOOLEAN
  /\ lookups \in BOOLEAN /\ (lookups => flow = "chunks")
  /\ declines \in BOOLEAN /\ base \in BOOLEAN
  /\ run = "none" /\ diff = FALSE /\ orphans = {}
  /\ phase = "prepare" /\ call = "none" /\ inner = 0 /\ outer = 0
  /\ answer = Failure("ok")
  /\ testRun = FALSE /\ extra = 0 /\ elapsed = 0

-----------------------------------------------------------------------------
(* The backend.  The request is idempotent for the deployment: a run that  *)
(* exists is answered, whichever request made it.                          *)

AfterCommit(mustHaveBase) ==
  IF run # "none" \/ declines THEN run
  ELSE IF base THEN "based"
  ELSE IF mustHaveBase THEN "none" ELSE "baseless"

BaseAppears ==
  /\ ~base /\ base' = TRUE
  /\ UNCHANGED <<config, run, diff, orphans, phase, call, inner, outer, answer,
                 result, elapsed>>

OrphanCommits ==
  /\ \E m \in orphans : run' = AfterCommit(m) /\ orphans' = orphans \ {m}
  /\ UNCHANGED <<config, base, diff, phase, call, inner, outer, answer, result,
                 elapsed>>

\* mustHaveBase of the request in flight.
MustHaveBase ==
  CASE phase = "fallback" -> FALSE
    [] phase = "poll" /\ flow = "container" -> TRUE
    [] OTHER -> waitForBase

Serve ==
  /\ call = "sent" /\ call' = "served"
  /\ \/ /\ run' = AfterCommit(MustHaveBase)
        /\ \E x \in {0, Extra} : answer' =
             [kind |-> "ok", testRun |-> run' # "none",
              baseNotFound |-> run' = "none" /\ ~declines, extra |-> x]
        /\ UNCHANGED orphans
     \/ /\ \E k \in {"gateway", "transient", "fatal"} : answer' = Failure(k)
        /\ orphans' \in {orphans} \cup
             (IF answer'.kind = "fatal" THEN {}
              ELSE {orphans \cup {MustHaveBase}})
        /\ UNCHANGED run
  /\ IF phase = "poll" THEN \E d \in 0..CallTime : elapsed' = Later(d)
                       ELSE UNCHANGED elapsed
  /\ UNCHANGED <<config, base, diff, phase, inner, outer, result>>

-----------------------------------------------------------------------------
(* Before the first request: the bytes, the image or the row of the        *)
(* deployment, then the git diff, keyed by its id.                         *)

Throw ==
  /\ phase' = "threw" /\ call' = "none"
  /\ UNCHANGED <<config, base, run, orphans, inner, outer, answer, result,
                 elapsed>>

StartComplete ==
  /\ phase' = "complete" /\ call' = "sent"
  /\ UNCHANGED <<config, base, run, orphans, inner, outer, answer, result,
                 elapsed>>

\* The build is in place.
Prepared ==
  IF hasDiff
  THEN /\ phase' = "diff"
       /\ UNCHANGED <<config, server, call, inner, outer, answer, result,
                      elapsed>>
  ELSE StartComplete /\ UNCHANGED diff

\* createDeployment: false of the chunks flow is a dry run.
Prepare ==
  /\ phase = "prepare"
  /\ \/ Prepared
     \/ Throw /\ UNCHANGED diff
     \/ /\ flow = "chunks" /\ declines
        /\ phase' = "returned"
        /\ UNCHANGED <<config, server, call, inner, outer, answer, result,
                       elapsed>>

UploadDiff ==
  /\ phase = "diff"
  /\ \/ diff' = TRUE /\ StartComplete
     \/ diff' \in BOOLEAN /\ Throw

-----------------------------------------------------------------------------
(* executeWithRetry: the client retries what is transient, gateway errors  *)
(* among it; the completion of assets retries gateway errors alone.        *)

RetryInner == answer.kind \in {"gateway", "transient"} /\ inner < InnerRetries
RetryOuter == /\ ~RetryInner
              /\ phase = "complete" /\ flow = "assets"
              /\ answer.kind = "gateway" /\ outer < OuterRetries

\* Mutated form of GiveUp: the last error is swallowed.
GiveUp_Swallowed ==
  /\ phase \in Calling /\ call = "served" /\ answer.kind # "ok"
  /\ ~RetryInner /\ ~RetryOuter
  /\ phase' = "returned" /\ call' = "none"
  /\ UNCHANGED <<config, server, inner, outer, answer, result, elapsed>>

GiveUp ==
  /\ phase \in Calling /\ call = "served" /\ answer.kind # "ok"
  /\ ~RetryInner /\ ~RetryOuter
  /\ Throw /\ UNCHANGED diff

\* The back-off is part of CallTime.
Retry ==
  /\ phase \in Calling /\ call = "served" /\ answer.kind # "ok"
  /\ \/ RetryInner /\ inner' = inner + 1 /\ UNCHANGED outer
     \/ RetryOuter /\ inner' = 0 /\ outer' = outer + 1
  /\ call' = "sent"
  /\ UNCHANGED <<config, server, phase, answer, result, elapsed>>

-----------------------------------------------------------------------------
(* pollWhileBaseNotFound.                                                  *)

\* Nothing but the base is missing.  The container's first answer counts as
\* that only if the caller waits for a base.
BaseMissing ==
  /\ ~answer.testRun /\ answer.baseNotFound
  /\ flow = "container" /\ phase = "complete" => waitForBase

\* Mutated form of TimedOut: the extension is that of the answer before.
TimedOut_OldExtra == elapsed > Window + extra

\* The window moves with the server's last answer.
TimedOut == elapsed > Window + answer.extra

\* An answer of the completion or of a poll.
Answered ==
  /\ phase \in {"complete", "poll"} /\ call = "served" /\ answer.kind = "ok"
  /\ testRun' = answer.testRun /\ extra' = answer.extra
  /\ inner' = 0

Return ==
  /\ phase' = "returned" /\ call' = "none"
  /\ UNCHANGED <<config, server, outer, answer, elapsed>>

Settled == Answered /\ ~BaseMissing /\ Return

\* Mutated form of WaitForBase: the loop has no deadline.
WaitForBase_Always ==
  /\ Answered /\ BaseMissing
  /\ phase' = "poll" /\ call' = "asleep"
  /\ UNCHANGED <<config, server, outer, answer, elapsed>>

WaitForBase ==
  /\ Answered /\ BaseMissing /\ ~TimedOut
  /\ phase' = "poll" /\ call' = "asleep"
  /\ UNCHANGED <<config, server, outer, answer, elapsed>>

\* Chunks that look versions up in the base cannot do without it: their
\* fallback makes no request and answers that there is no run.
FallBack ==
  /\ Answered /\ BaseMissing /\ TimedOut
  /\ \/ lookups /\ Return
     \/ /\ ~lookups
        /\ phase' = "fallback" /\ call' = "sent"
        /\ UNCHANGED <<config, server, outer, answer, elapsed>>

WakeUp ==
  /\ call = "asleep" /\ call' = "sent"
  /\ elapsed' = Later(Interval)
  /\ UNCHANGED <<config, server, phase, inner, outer, answer, testRun, extra>>

FallbackAnswered ==
  /\ phase = "fallback" /\ call = "served" /\ answer.kind = "ok"
  /\ testRun' = answer.testRun
  /\ UNCHANGED <<inner, extra>>
  /\ Return

Client ==
  \/ Prepare \/ UploadDiff \/ GiveUp \/ Retry
  \/ Settled \/ WaitForBase \/ FallBack \/ WakeUp \/ FallbackAnswered

Next == BaseAppears \/ OrphanCommits \/ Serve \/ Client

Spec == Init /\ [][Next]_vars

\* Requests are answered, if only by their failure; bases may never appear
\* and orphans never commit.
FairSpec == Spec /\ WF_vars(Serve) /\ WF_vars(Client)

-----------------------------------------------------------------------------
(* Properties.                                                             *)

\* A run exists only with its diff in place, and without a base only when
\* the caller did not ask to wait for one or the whole window, as last
\* extended by the server, has passed; a manifest with versionLookup entries
\* that waits for a base never makes one.
RunIsAsAskedFor ==
  /\ run # "none" => (hasDiff => diff)
  /\ run = "baseless" /\ waitForBase => elapsed > Window + extra /\ ~lookups

\* The client returns a run exactly when the server has one for it, although
\* requests it was told had failed may have made it: without one only when
\* the server makes none, or a versionLookup manifest found no base.
NoRunIsLost ==
  phase = "returned" =>
    IF testRun THEN run # "none" ELSE declines \/ lookups

\* The poll ends within its longest window, one sleep and one call, however
\* often the server moves the window.
PollIsBounded == elapsed <= PollBound

\* The whole flow comes to an end although no base ever appears.
TriggerEnds == <>(phase \in {"returned", "threw"})
=============================================================================
