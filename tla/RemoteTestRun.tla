--------------------------- MODULE RemoteTestRun ---------------------------
(***************************************************************************)
(* A test run against an app on this machine, served through a tunnel:     *)
(* packages/remote-replay-launcher/src/execute-remote-test-run.ts over     *)
(* packages/tunnel-client/src (lib/tunnel.ts, lib/tunnel-worker.entrypoint *)
(* .ts, utils/open-socket.ts).                                             *)
(*                                                                         *)
(* The launcher opens the tunnel, creates the run and polls its status on  *)
(* an interval that does not wait for the previous poll, so several polls  *)
(* are in flight and their answers may arrive in any order.  An execution  *)
(* error is accepted only after a window in which the backend may retry    *)
(* the run; each answer that shows the run active again resets the window. *)
(* Then the launcher waits for the deployment's lock and for its caller,   *)
(* and closes the tunnel.  Time passes in ticks; timers are punctual.      *)
(***************************************************************************)
EXTENDS Integers

CONSTANTS Workers,      \* the cluster workers of the tunnel
          PollEvery,    \* PROGRESS_UPDATE_INTERVAL_MS, in ticks
          Latency,      \* the longest a status request takes
          RetryWindow,  \* MS_TO_WAIT_FOR_RETRY
          RetryWithin,  \* backend: a failed run is retried by then, or never
          MinRun        \* backend: the shortest time a retried run is active

\* The window outlasts a retry and the answer that was on its way, and a
\* retry is active for long enough that polling sees it.
ASSUME TimingAssumption ==
  /\ {PollEvery, Latency, RetryWindow} \subseteq Nat \ {0}
  /\ RetryWithin \in Nat /\ MinRun \in Nat
  /\ RetryWindow > RetryWithin + Latency
  /\ MinRun > PollEvery + 2 * Latency

VARIABLES
  stage,      \* where executeRemoteTestRun is
  tunnel,     \* "none", "open" or "closed" (Tunnel.closed)
  worker,     \* state of each cluster worker
  runStatus,  \* backend: status of the test run
  runAge,     \* backend: ticks since it changed, up to AgeCap
  locked,     \* backend: the deployment is locked
  polls,      \* the status requests in flight, by their ticks since sent
  armed,      \* progressUpdateInterval runs
  due,        \* ticks until it fires
  waiting,    \* ticks since startedWaitingForRetryAt, or NotWaiting
  lockPolls,  \* the lock requests in flight, by how far they are
  lockArmed,  \* tunnelCheckInterval runs
  released    \* keepTunnelOpenPromise is absent or resolved

backend == <<runStatus, runAge, locked>>
timer   == <<armed, due, waiting>>
locks   == <<lockPolls, lockArmed>>
runVars == <<stage, tunnel, worker, backend, polls, timer, locks, released>>

Active     == {"running"}
Ended      == {"final", "error"}
NotWaiting == -1
AgeCap     == IF MinRun > RetryWithin THEN MinRun ELSE RetryWithin + 1

\* A status request is not there, on its way, or answered: with a status, or
\* by its failure.  No two are sent in one tick, and none takes longer than
\* Latency.
Ages    == 0..Latency
NoPolls == [a \in Ages |-> "none"]
Replies == {"failed"} \cup Active \cup Ended

Stages == {"opening", "creating", "running", "firstLock", "locked", "keeping",
           "returned", "threw", "crashed"}

RunTypeOK ==
  /\ stage \in Stages
  /\ tunnel \in {"none", "open", "closed"}
  /\ worker \in [Workers -> {"none", "starting", "listening", "gone"}]
  /\ runStatus \in {"none"} \cup Active \cup Ended
  /\ runAge \in 0..AgeCap
  /\ locked \in BOOLEAN
  /\ polls \in [Ages -> {"none", "asked"} \cup Replies]
  /\ armed \in BOOLEAN /\ due \in 0..PollEvery
  /\ waiting \in NotWaiting..RetryWindow
  /\ lockPolls \subseteq {"asked", "locked", "unlocked", "failed"}
  /\ lockArmed \in BOOLEAN /\ released \in BOOLEAN

RunInit ==
  /\ stage = "opening" /\ tunnel = "none"
  /\ worker = [w \in Workers |-> "none"]
  /\ runStatus = "none" /\ runAge = 0 /\ locked = FALSE
  /\ polls = NoPolls
  /\ armed = FALSE /\ due = 0 /\ waiting = NotWaiting
  /\ lockPolls = {} /\ lockArmed = FALSE
  /\ released \in BOOLEAN

-----------------------------------------------------------------------------
(* The backend: a failed run may be retried for a while, the lock is a     *)
(* person's.                                                               *)

RunEnds ==
  /\ runStatus \in Active /\ runAge >= MinRun
  /\ runStatus' \in Ended /\ runAge' = 0
  /\ UNCHANGED <<stage, tunnel, worker, locked, polls, timer, locks, released>>

RunRetried ==
  /\ runStatus = "error" /\ runAge <= RetryWithin
  /\ runStatus' = "running" /\ runAge' = 0
  /\ UNCHANGED <<stage, tunnel, worker, locked, polls, timer, locks, released>>

LockFlips ==
  /\ runStatus # "none"
  /\ locked' = ~locked
  /\ UNCHANGED <<stage, tunnel, worker, runStatus, runAge, polls, timer, locks,
                 released>>

Release ==
  /\ ~released /\ released' = TRUE
  /\ UNCHANGED <<stage, tunnel, worker, backend, polls, timer, locks>>

-----------------------------------------------------------------------------
(* The tunnel.  Nobody listens to its "error" event here, so a worker that *)
(* exits while the tunnel is open ends the process.                        *)

OpenTunnel ==
  /\ stage = "opening"
  /\ \/ /\ stage' = "creating" /\ tunnel' = "open"
        /\ worker' = [w \in Workers |-> "starting"]
     \/ stage' = "threw" /\ UNCHANGED <<tunnel, worker>>
  /\ UNCHANGED <<backend, polls, timer, locks, released>>

WorkerListens(w) ==
  /\ worker[w] = "starting" /\ stage # "crashed"
  /\ worker' = [worker EXCEPT ![w] = "listening"]
  /\ UNCHANGED <<stage, tunnel, backend, polls, timer, locks, released>>

WorkerExits(w) ==
  /\ worker[w] \in {"starting", "listening"} /\ stage # "crashed"
  /\ worker' = [worker EXCEPT ![w] = "gone"]
  /\ stage' = "crashed"
  /\ UNCHANGED <<tunnel, backend, polls, timer, locks, released>>

\* Mutated form of CloseTunnel: the workers are left alone.
CloseTunnel_Alone == tunnel' = "closed" /\ UNCHANGED worker

\* _terminateWorkers kills every worker and forgets it.
CloseTunnel ==
  /\ tunnel' = "closed"
  /\ worker' = [w \in Workers |-> "gone"]

-----------------------------------------------------------------------------
(* The run and its progress.                                               *)

\* The first execution may end at once.
CreateRun ==
  /\ stage = "creating"
  /\ \/ /\ stage' = "running" /\ runStatus' = "running" /\ runAge' = AgeCap
        /\ armed' = TRUE /\ due' = PollEvery /\ UNCHANGED waiting
     \/ stage' = "threw" /\ UNCHANGED <<runStatus, runAge, timer>>
  /\ UNCHANGED <<tunnel, worker, locked, polls, locks, released>>

Fire ==
  /\ stage # "crashed" /\ armed /\ due = 0
  /\ due' = PollEvery
  /\ polls' = [polls EXCEPT ![0] = "asked"]
  /\ UNCHANGED <<stage, tunnel, worker, backend, armed, waiting, locks,
                 released>>

ServePoll(a) ==
  /\ stage # "crashed" /\ polls[a] = "asked"
  /\ \E s \in {runStatus, "failed"} : polls' = [polls EXCEPT ![a] = s]
  /\ UNCHANGED <<stage, tunnel, worker, backend, timer, locks, released>>

\* An execution error is not accepted yet: the window has not run out.
RetryHoped == waiting < RetryWindow

\* onTestRunCompleted, once an execution error is accepted or for any other
\* status: the promise is settled once, by the first who comes.
Complete ==
  /\ armed' = FALSE
  /\ IF stage = "running"
     THEN stage' = "firstLock" /\ lockPolls' = {"asked"}
     ELSE UNCHANGED <<stage, lockPolls>>
  /\ UNCHANGED waiting

SeesFailure ==
  /\ stage' = IF stage = "running" THEN "threw" ELSE stage
  /\ UNCHANGED <<armed, waiting, lockPolls>>

\* Mutated form of SeesActive: a window once started goes on.
SeesActive_KeepsWindow == UNCHANGED <<stage, armed, waiting, lockPolls>>

SeesActive ==
  /\ waiting' = NotWaiting
  /\ UNCHANGED <<stage, armed, lockPolls>>

\* Mutated form of SeesExecutionError: each failed answer restarts the window.
SeesExecutionError_Anew ==
  IF RetryHoped
  THEN waiting' = 0 /\ UNCHANGED <<stage, armed, lockPolls>>
  ELSE Complete

SeesExecutionError ==
  IF RetryHoped
  THEN /\ waiting' = IF waiting = NotWaiting THEN 0 ELSE waiting
       /\ UNCHANGED <<stage, armed, lockPolls>>
  ELSE Complete

PollAnswered(a) ==
  /\ stage # "crashed" /\ polls[a] \in Replies
  /\ polls' = [polls EXCEPT ![a] = "none"]
  /\ CASE polls[a] = "failed"  -> SeesFailure
       [] polls[a] \in Active -> SeesActive
       [] polls[a] = "error"   -> SeesExecutionError
       [] polls[a] = "final"   -> Complete
  /\ UNCHANGED <<tunnel, worker, backend, due, lockArmed, released>>

-----------------------------------------------------------------------------
(* The lock and the end.                                                   *)

\* A poll of the lock may find an earlier one still in flight.
LockFires ==
  /\ stage # "crashed" /\ lockArmed
  /\ lockPolls' = lockPolls \cup {"asked"}
  /\ UNCHANGED <<stage, tunnel, worker, backend, polls, timer, lockArmed,
                 released>>

ServeLock ==
  /\ stage # "crashed" /\ "asked" \in lockPolls
  /\ \E a \in {IF locked THEN "locked" ELSE "unlocked", "failed"} :
       lockPolls' = (lockPolls \ {"asked"}) \cup {a}
  /\ UNCHANGED <<stage, tunnel, worker, backend, polls, timer, lockArmed,
                 released>>

\* The first check is awaited; later ones settle tunnelUnlocked.
LockAnswered(a) ==
  /\ stage # "crashed" /\ a \in lockPolls \ {"asked"}
  /\ lockPolls' = lockPolls \ {a}
  /\ CASE stage \in {"firstLock", "locked"} /\ a = "unlocked" ->
            stage' = "keeping" /\ lockArmed' = FALSE
       [] stage = "firstLock" /\ a = "locked" ->
            stage' = "locked" /\ lockArmed' = TRUE
       [] stage \in {"firstLock", "locked"} /\ a = "failed" ->
            stage' = "threw" /\ UNCHANGED lockArmed
       [] OTHER -> UNCHANGED <<stage, lockArmed>>
  /\ UNCHANGED <<tunnel, worker, backend, polls, timer, released>>

CloseAndReturn ==
  /\ stage = "keeping" /\ released
  /\ CloseTunnel
  /\ stage' = "returned"
  /\ UNCHANGED <<backend, polls, timer, locks, released>>

-----------------------------------------------------------------------------

\* No timer is late and no request takes longer than Latency.
Tick ==
  /\ stage # "crashed"
  /\ armed => due > 0
  /\ polls[Latency] = "none"
  /\ runAge' = IF runAge < AgeCap THEN runAge + 1 ELSE runAge
  /\ due' = IF armed THEN due - 1 ELSE due
  /\ waiting' = IF waiting \in {NotWaiting, RetryWindow} THEN waiting
                                                    ELSE waiting + 1
  /\ polls' = [a \in Ages |-> IF a = 0 THEN "none" ELSE polls[a - 1]]
  /\ UNCHANGED <<stage, tunnel, worker, runStatus, locked, armed, locks,
                 released>>

RunNext ==
  \/ RunEnds \/ RunRetried \/ LockFlips \/ Release
  \/ OpenTunnel \/ CreateRun \/ Fire \/ LockFires \/ ServeLock \/ CloseAndReturn
  \/ Tick
  \/ \E w \in Workers : WorkerListens(w) \/ WorkerExits(w)
  \/ \E i \in Ages : ServePoll(i) \/ PollAnswered(i)
  \/ \E a \in {"locked", "unlocked", "failed"} : LockAnswered(a)

RunSpec == RunInit /\ [][RunNext]_runVars

\* Requests are answered, timers fire and time passes; runs, locks and the
\* caller's promise owe nothing.
RunFairSpec ==
  /\ RunSpec
  /\ WF_runVars(OpenTunnel) /\ WF_runVars(CreateRun)
  /\ WF_runVars(CloseAndReturn) /\ WF_runVars(Tick) /\ WF_runVars(Fire)
  /\ WF_runVars(LockFires) /\ WF_runVars(ServeLock)
  /\ \A i \in Ages : WF_runVars(ServePoll(i)) /\ WF_runVars(PollAnswered(i))
  /\ \A a \in {"locked", "unlocked", "failed"} : WF_runVars(LockAnswered(a))

-----------------------------------------------------------------------------
(* Properties.                                                             *)

\* The tunnel is never closed under a run that is active, or becomes active
\* again: an execution error is accepted only when no retry can follow,
\* although stale answers start, reset and end the window.
TunnelServesTheRun == runStatus \in Active => tunnel # "closed"

\* A return leaves nothing behind that would keep the process alive: no
\* interval, no worker, no open tunnel.
QuietAfterReturn ==
  stage = "returned" =>
    /\ ~armed /\ ~lockArmed /\ tunnel = "closed"
    /\ \A w \in Workers : worker[w] = "gone"

\* When the run has ended for good, nobody locks the deployment any more and
\* the caller lets go, the launcher comes to an end, whatever the order in
\* which answers arrived.
ComesToAnEnd ==
  (/\ <>[](runStatus \notin Active)
   /\ <>[]~locked
   /\ <>released) => <>(stage \in {"returned", "threw", "crashed"})
=============================================================================
