-------------------------- MODULE CustomChecksWait --------------------------
(***************************************************************************)
(* The wait a custom check script makes before it compares snapshots:      *)
(* packages/custom-checks/src/wait-for-test-run.ts on top of the calls of  *)
(* packages/client/src/api/test-run.api.ts.                                *)
(*                                                                         *)
(* One client (findTestRunForCustomChecks) goes through its phases, each a *)
(* polling loop against the backend; the phases share one start time.  The *)
(* backend goes on while a request is on its way, while its answer is on   *)
(* its way back, and while the client sleeps, so what a phase acts on may  *)
(* be out of date.  Time is counted in ticks since the start time.         *)
(***************************************************************************)
EXTENDS Integers

CONSTANTS Timeout,    \* timeoutMs, in ticks
          Interval,   \* pollIntervalMs
          Latency     \* the longest a request takes

ASSUME ConstantsAssumption ==
  /\ Timeout \in Nat
  /\ Interval \in Nat \ {0}
  /\ Latency \in Nat

VARIABLES
  head,        \* backend: status of the requested run
  patching,    \* backend: network patching of that run
  base,        \* backend: status of the base run
  baseOf,      \* backend: which base the configData of a run names
  supported,   \* backend: it has the network-patching-result endpoint
  readable,    \* backend: the token may read the base run
  registered,  \* backend: runs marked as expecting custom checks
  skip,        \* skipRegisteringExpectedCustomChecks
  phase,       \* where findTestRunForCustomChecks is
  call,        \* what the loop of the phase is suspended on
  answer,      \* the answer of the last request served
  effective,   \* effectiveTestRunId
  result,      \* the result so far: the run and the status it was read with
  now          \* clock.now() - startTime

backend == <<head, patching, base>>
config  == <<baseOf, supported, readable, skip>>
vars    == <<backend, config, registered, phase, call, answer, effective,
             result, now>>

Runs     == {"head", "merged"}
Terminal == {"done", "noop"}
Status   == {"running"} \cup Terminal
Phases   == {"lookup", "poll", "resolve", "fetch", "register", "base",
             "returned", "threw"}

Kinds    == {"none", "error", "denied", "absent", "run", "patching"}
Answer(kind, id, status, busy) ==
  [kind |-> kind, id |-> id, status |-> status, busy |-> busy]
NoAnswer == Answer("none", "head", "running", FALSE)
Failed   == Answer("error", "head", "running", FALSE)
Denied   == Answer("denied", "head", "running", FALSE)
Absent   == Answer("absent", "head", "running", FALSE)

\* The bound of the wait at each phase: the deadline is looked at after an
\* answer, so a loop may start a last sleep at the deadline, and each phase
\* still makes one request when the deadline has passed.
Requests(p) == CASE p \in {"lookup", "poll", "threw"} -> 1
                 [] p = "resolve"  -> 2
                 [] p = "fetch"    -> 3
                 [] p = "register" -> 4
                 [] OTHER          -> 5
Bound(p)    == Timeout + Interval + Requests(p) * Latency

\* The clock of the model stops beyond every bound.
Horizon    == Timeout + Interval + 5 * Latency + 1
Advance(d) == now' = IF now + d > Horizon THEN Horizon ELSE now + d

TypeOK ==
  /\ head \in Status /\ base \in {"running", "done"}
  /\ patching \in {"none", "repairing", "merging", "settled"}
  /\ baseOf \in [Runs -> {"none", "self", "base"}]
  /\ supported \in BOOLEAN /\ readable \in BOOLEAN /\ skip \in BOOLEAN
  /\ registered \in SUBSET Runs
  /\ phase \in Phases /\ call \in {"sent", "served", "sleeping", "none"}
  /\ answer \in [kind : Kinds, id : Runs, status : Status, busy : BOOLEAN]
  /\ effective \in Runs
  /\ result \in [id : Runs, status : Status]
  /\ now \in 0..Horizon

Init ==
  /\ head \in Status /\ base \in {"running", "done"} /\ patching = "none"
  /\ baseOf \in [Runs -> {"none", "self", "base"}]
  /\ supported \in BOOLEAN /\ readable \in BOOLEAN /\ skip \in BOOLEAN
  /\ registered = {}
  /\ phase \in {"lookup", "poll"} /\ call = "sent" /\ answer = NoAnswer
  /\ effective = "head" /\ result = [id |-> "head", status |-> "running"]
  /\ now = 0

-----------------------------------------------------------------------------
(* The backend.  Patching is decided as the head run completes; the merged *)
(* run is the effective one from its creation on, and patching stays in    *)
(* progress until it has completed.                                        *)

HeadCompletes ==
  /\ head = "running"
  /\ \/ head' = "done" /\ patching' \in {"none", "repairing"}
     \/ head' = "noop" /\ patching' = "none"
  /\ UNCHANGED <<base, config, registered, phase, call, answer, effective,
                 result, now>>

PatchingMoves ==
  /\ \/ patching = "repairing" /\ patching' \in {"none", "merging"}
     \/ patching = "merging" /\ patching' = "settled"
  /\ UNCHANGED <<head, base, config, registered, phase, call, answer,
                 effective, result, now>>

BaseCompletes ==
  /\ base = "running"
  /\ base' = "done"
  /\ UNCHANGED <<head, patching, config, registered, phase, call, answer,
                 effective, result, now>>

StatusOf(r) == IF r = "head" THEN head
               ELSE IF patching = "settled" THEN "done" ELSE "running"

EffectiveId == IF patching \in {"merging", "settled"} THEN "merged" ELSE "head"

GetTestRun(r) == Answer("run", r, StatusOf(r), FALSE)

GetPatchingResult ==
  IF supported
  THEN Answer("patching", EffectiveId, "running",
              patching \in {"repairing", "merging"})
  ELSE Absent

\* What the request of the current phase may be answered with.
Answers ==
  {Failed} \cup
  CASE phase = "lookup"  -> {Absent, GetTestRun("head")}
    [] phase = "poll"    -> {GetTestRun("head")}
    [] phase = "resolve" -> {GetPatchingResult}
    [] phase = "fetch"   -> {GetTestRun(effective)}
    [] phase = "base"    -> {IF readable THEN Answer("run", "head", base, FALSE)
                                         ELSE Denied}
    [] OTHER             -> {Absent}

\* The registration may be lost before or after the backend has applied it.
Serve ==
  /\ call = "sent" /\ phase # "register"
  /\ answer' \in Answers
  /\ call' = "served"
  /\ IF phase = "lookup" THEN now' = now ELSE \E d \in 0..Latency : Advance(d)
  /\ UNCHANGED <<backend, config, registered, phase, effective, result>>

ServeRegistration ==
  /\ call = "sent" /\ phase = "register" /\ ~skip
  /\ answer' \in {Failed, Absent}
  /\ registered' \in {registered, registered \cup {result.id}}
  /\ call' = "served"
  /\ \E d \in 0..Latency : Advance(d)
  /\ UNCHANGED <<backend, config, phase, effective, result>>

-----------------------------------------------------------------------------
(* The client.                                                             *)

Answered(p) == phase = p /\ call = "served"
TimedOut    == now > Timeout

\* Every loop sleeps the interval and asks again.
SleepThenRetry ==
  /\ call' = "sleeping"
  /\ UNCHANGED <<backend, config, registered, phase, answer, effective,
                 result, now>>

Wake ==
  /\ call = "sleeping"
  /\ call' = "sent"
  /\ Advance(Interval)
  /\ UNCHANGED <<backend, config, registered, phase, answer, effective,
                 result>>

Goto(p) ==
  /\ phase' = p
  /\ call' = IF p \in {"returned", "threw"} THEN "none" ELSE "sent"
  /\ UNCHANGED <<backend, config, registered, answer, now>>

Lookup ==
  /\ Answered("lookup")
  /\ \/ answer.kind = "run" /\ Goto("poll")
     \/ answer.kind \in {"absent", "error"} /\ Goto("threw")
  /\ UNCHANGED <<effective, result>>

\* getTestRun is not caught in this phase: an error ends the wait.
PollFails ==
  /\ Answered("poll") /\ answer.kind = "error"
  /\ Goto("threw")
  /\ UNCHANGED <<effective, result>>

PollSeesTerminal ==
  /\ Answered("poll") /\ answer.kind = "run" /\ answer.status \in Terminal
  /\ result' = [id |-> "head", status |-> answer.status]
  /\ Goto(IF answer.status = "noop" THEN "returned" ELSE "resolve")
  /\ UNCHANGED effective

\* Mutated form of PollWaits: only the base wait looks at the deadline.
PollWaits_NoDeadline ==
  /\ Answered("poll") /\ answer.kind = "run" /\ answer.status = "running"
  /\ SleepThenRetry

PollWaits ==
  /\ Answered("poll") /\ answer.kind = "run" /\ answer.status = "running"
  /\ \/ TimedOut /\ Goto("threw") /\ UNCHANGED <<effective, result>>
     \/ ~TimedOut /\ SleepThenRetry

\* resolveEffectiveTestRunId returns id: phase 3 only for another run.
Resolved(id) ==
  /\ effective' = id
  /\ Goto(IF id = "head" THEN "register" ELSE "fetch")
  /\ UNCHANGED result

\* Mutated form of ResolveAnswered: patching that is still in progress is
\* not waited for.
ResolveAnswered_NoWait ==
  /\ Answered("resolve") /\ answer.kind \in {"absent", "patching"}
  /\ Resolved(IF answer.kind = "absent" THEN "head" ELSE answer.id)

\* answer.id is "head" when the endpoint is absent (Older backends).
ResolveAnswered ==
  /\ Answered("resolve") /\ answer.kind \in {"absent", "patching"}
  /\ IF answer.busy /\ ~TimedOut THEN SleepThenRetry ELSE Resolved(answer.id)

ResolveFails ==
  /\ Answered("resolve") /\ answer.kind = "error"
  /\ IF TimedOut THEN Resolved("head") ELSE SleepThenRetry

FetchAnswered ==
  /\ Answered("fetch") /\ answer.kind = "run"
  /\ result' = [id |-> answer.id, status |-> answer.status]
  /\ Goto("register")
  /\ UNCHANGED effective

\* Mutated form of FetchFails: the fetch is retried for ever.
FetchFails_Forever ==
  /\ Answered("fetch") /\ answer.kind = "error"
  /\ SleepThenRetry

\* The original run, already in result, is the fallback.
FetchFails ==
  /\ Answered("fetch") /\ answer.kind = "error"
  /\ \/ TimedOut /\ Goto("register") /\ UNCHANGED <<effective, result>>
     \/ ~TimedOut /\ SleepThenRetry

\* waitForBaseTestRunCompletion returns at once when there is no other run.
EnterBaseWait ==
  /\ Goto(IF baseOf[result.id] = "base" THEN "base" ELSE "returned")
  /\ UNCHANGED <<effective, result>>

SkipRegistering == phase = "register" /\ skip /\ EnterBaseWait

RegisterAnswered == Answered("register") /\ EnterBaseWait

BaseAnswered ==
  /\ Answered("base") /\ answer.kind = "run"
  /\ \/ /\ answer.status \in Terminal \/ TimedOut
        /\ Goto("returned") /\ UNCHANGED <<effective, result>>
     \/ answer.status = "running" /\ ~TimedOut /\ SleepThenRetry

\* Mutated form of BaseFails: any failed read ends the wait.
BaseFails_AtOnce ==
  /\ Answered("base") /\ answer.kind \in {"denied", "error"}
  /\ Goto("returned") /\ UNCHANGED <<effective, result>>

\* A 403 or a 404 ends the wait, another error is retried to the deadline.
BaseFails ==
  /\ Answered("base")
  /\ \/ /\ answer.kind = "denied" \/ (answer.kind = "error" /\ TimedOut)
        /\ Goto("returned") /\ UNCHANGED <<effective, result>>
     \/ answer.kind = "error" /\ ~TimedOut /\ SleepThenRetry

Client ==
  \/ Wake \/ Lookup
  \/ PollFails \/ PollSeesTerminal \/ PollWaits
  \/ ResolveAnswered \/ ResolveFails
  \/ FetchAnswered \/ FetchFails
  \/ SkipRegistering \/ RegisterAnswered
  \/ BaseAnswered \/ BaseFails

Answering == Serve \/ ServeRegistration

Next == HeadCompletes \/ PatchingMoves \/ BaseCompletes \/ Answering \/ Client

Spec == Init /\ [][Next]_vars

\* Every request is answered, if only by its own failure, and the event loop
\* runs the client.  Nothing is assumed of the backend's runs: they may stay
\* in progress for ever.
FairSpec == Spec /\ WF_vars(Answering) /\ WF_vars(Client)

-----------------------------------------------------------------------------
(* Properties.                                                             *)

\* "each bounded by the timeout": the loops share one start time, so the
\* whole wait overruns it by one sleep and one request per phase, whatever
\* the backend answers and however long its runs take.
WaitIsBounded == now <= Bound(phase)

\* The run the UI shows, once patching has settled.
Settled  == patching \in {"none", "settled"}
ShownRun == IF patching = "settled" THEN "merged" ELSE "head"

\* Results are reported against the run the user sees, and that run has
\* completed, unless the backend cannot resolve it or the deadline has
\* passed.  Only that run is registered as expecting results, and a skipped,
\* aborted or failed head run never is.
ReportsAgainstTheShownRun ==
  /\ phase \in {"register", "base", "returned"} =>
       \/ result.status = "noop" /\ registered = {}
       \/ Settled /\ result = [id |-> ShownRun, status |-> "done"]
       \/ ~supported \/ TimedOut
  /\ registered \subseteq {result.id} /\ (skip => registered = {})

\* The snapshots are compared against a base run that has completed, unless
\* the run has no other base, the token cannot read it, or the deadline has
\* passed ("bounded staleness beats never reporting").
ComparesACompleteBase ==
  phase = "returned" /\ result.status # "noop" =>
    base = "done" \/ baseOf[result.id] # "base" \/ ~readable \/ TimedOut

\* The wait ends although every run may stay in progress for ever.
WaitEnds == <>(phase \in {"returned", "threw"})
=============================================================================
