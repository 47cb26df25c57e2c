-------------------------- MODULE ServiceLifecycle --------------------------
(***************************************************************************)
(* dds-gamepad-service: ServiceMain on its own thread, the control handler *)
(* that the Service Control Manager (SCM) calls on the dispatcher's        *)
(* thread, and the worker thread that runs AppRunner::Run.                 *)
(*                                                                         *)
(* Both threads report through SetServiceState, which fills the global     *)
(* gStatus without a lock and hands it to SetServiceStatus.  The writes of *)
(* one call are plain stores that the compiler may order as it likes, and  *)
(* those of the other thread may fall between any two of them.  Wait hint  *)
(* and check point, which only pace the SCM, and the event log are left    *)
(* out.                                                                    *)
(***************************************************************************)
EXTENDS Naturals

VARIABLES
  main,      \* where ServiceMain is
  handler,   \* where the control handler is
  worker,    \* the worker thread, with gWorkerExitCode once it is over
  stop,      \* gStopSource's flag
  gStatus,   \* the global status
  call,      \* for each thread, the status its SetServiceState call sets
  todo,      \* for each thread, the fields that call has still to store
  reported   \* what the SCM was last told

vars == <<main, handler, worker, stop, gStatus, call, todo, reported>>

Threads == {"main", "handler"}
Fields == {"state", "accepts", "win32", "specific"}

States == {"none", "START_PENDING", "RUNNING", "STOP_PENDING", "STOPPED"}
Status == [state : States, accepts : BOOLEAN,
           win32 : {"NO_ERROR", "SERVICE_SPECIFIC_ERROR"}, specific : 0..2]

\* What a call of SetServiceState sets: controls are accepted only while
\* RUNNING, and a specific exit code replaces the general one.
StatusOf(state, specific) ==
  [state |-> state, accepts |-> state = "RUNNING",
   win32 |-> IF specific # 0 THEN "SERVICE_SPECIFIC_ERROR" ELSE "NO_ERROR",
   specific |-> specific]

-----------------------------------------------------------------------------

Init ==
  /\ main = "register"
  /\ handler = "idle"
  /\ worker = "none"
  /\ stop = FALSE
  /\ gStatus = StatusOf("none", 0)
  /\ call = [t \in Threads |-> gStatus]
  /\ todo = [t \in Threads |-> {}]
  /\ reported = gStatus

-----------------------------------------------------------------------------
(* SetServiceState.                                                        *)

SetServiceState(t, state, specific) ==
  /\ call' = [call EXCEPT ![t] = StatusOf(state, specific)]
  /\ todo' = [todo EXCEPT ![t] = Fields]
  /\ UNCHANGED <<gStatus, reported>>

Store(t, f) ==
  /\ f \in todo[t]
  /\ gStatus' = [gStatus EXCEPT ![f] = call[t][f]]
  /\ todo' = [todo EXCEPT ![t] = @ \ {f}]
  /\ UNCHANGED <<main, handler, worker, stop, call, reported>>

\* A slip: the status is handed over half filled.
ReportEarly(t) ==
  /\ reported' = gStatus
  /\ UNCHANGED <<gStatus, call, todo>>

\* SetServiceStatus(gStatusHandle, &gStatus)
Report(t) ==
  /\ todo[t] = {}
  /\ reported' = gStatus
  /\ UNCHANGED <<gStatus, call, todo>>

Silent == UNCHANGED <<gStatus, call, todo, reported>>

-----------------------------------------------------------------------------
(* ServiceMain.                                                            *)

RegisterHandler ==
  /\ main = "register"
  /\ \/ main' = "starting" /\ SetServiceState("main", "START_PENDING", 0)
     \/ main' = "done" /\ Silent
  /\ UNCHANGED <<handler, worker, stop>>

ReportStarting ==
  /\ main = "starting"
  /\ Report("main")
  /\ main' = "arguments"
  /\ UNCHANGED <<handler, worker, stop>>

ParseArguments ==
  /\ main = "arguments"
  /\ \/ main' = "spawn" /\ Silent
     \/ main' = "stopping" /\ SetServiceState("main", "STOPPED", 1)
  /\ UNCHANGED <<handler, worker, stop>>

Spawn ==
  /\ main = "spawn"
  /\ \/ /\ worker' = "running"
        /\ main' = "running"
        /\ SetServiceState("main", "RUNNING", 0)
     \/ /\ main' = "stopping"
        /\ SetServiceState("main", "STOPPED", 2)
        /\ UNCHANGED worker
  /\ UNCHANGED <<handler, stop>>

ReportRunning ==
  /\ main = "running"
  /\ Report("main")
  /\ main' = "join"
  /\ UNCHANGED <<handler, worker, stop>>

\* A slip: the worker is not waited for.
JoinDetaches ==
  /\ main = "join"
  /\ main' = "stopping"
  /\ SetServiceState("main", "STOPPED", IF worker = "failed" THEN 1 ELSE 0)
  /\ UNCHANGED <<handler, worker, stop>>

\* A slip: the exit code of the worker is not looked at.
JoinForgetsCode ==
  /\ main = "join"
  /\ worker \in {"succeeded", "failed"}
  /\ main' = "stopping"
  /\ SetServiceState("main", "STOPPED", 0)
  /\ UNCHANGED <<handler, worker, stop>>

Join ==
  /\ main = "join"
  /\ worker \in {"succeeded", "failed"}
  /\ main' = "stopping"
  /\ SetServiceState("main", "STOPPED", IF worker = "succeeded" THEN 0 ELSE 1)
  /\ UNCHANGED <<handler, worker, stop>>

ReportStopped ==
  /\ main = "stopping"
  /\ Report("main")
  /\ main' = "done"
  /\ UNCHANGED <<handler, worker, stop>>

ServiceMain ==
  \/ RegisterHandler \/ ReportStarting \/ ParseArguments \/ Spawn
  \/ ReportRunning \/ Join \/ ReportStopped
  \/ \E f \in Fields : Store("main", f)

-----------------------------------------------------------------------------
(* The control handler.                                                    *)

\* The SCM sends a STOP or SHUTDOWN to a service that says it accepts them.
\* The dispatcher's thread gets to it later.
SendStop ==
  /\ handler = "idle"
  /\ reported.accepts
  /\ handler' = "called"
  /\ UNCHANGED <<main, worker, stop, gStatus, call, todo, reported>>

\* A slip: the worker is told to stop before the status says so.
StopThenReport ==
  /\ handler = "called"
  /\ handler' = "pending"
  /\ stop' = TRUE
  /\ SetServiceState("handler", "STOP_PENDING", 0)
  /\ UNCHANGED <<main, worker>>

BeginStop ==
  /\ handler = "called"
  /\ handler' = "pending"
  /\ SetServiceState("handler", "STOP_PENDING", 0)
  /\ UNCHANGED <<main, worker, stop>>

ReportStopPending ==
  /\ handler = "pending"
  /\ Report("handler")
  /\ handler' = "request"
  /\ UNCHANGED <<main, worker, stop>>

\* A slip: the handler returns and leaves the worker alone.
ForgetRequest ==
  /\ handler = "request"
  /\ handler' = "idle"
  /\ UNCHANGED <<main, worker, stop, gStatus, call, todo, reported>>

RequestStop ==
  /\ handler = "request"
  /\ stop' = TRUE
  /\ handler' = "idle"
  /\ UNCHANGED <<main, worker, gStatus, call, todo, reported>>

ServiceCtrlHandlerEx ==
  \/ BeginStop \/ ReportStopPending \/ RequestStop
  \/ \E f \in Fields : Store("handler", f)

-----------------------------------------------------------------------------
(* The worker: AppRunner::Run ends well only when a stop was requested, and *)
(* then does (ReadLoop's ExitsAreClean and StopEndsRun).                    *)

WorkerSucceeds ==
  /\ worker = "running"
  /\ stop
  /\ worker' = "succeeded"
  /\ UNCHANGED <<main, handler, stop, gStatus, call, todo, reported>>

WorkerFails ==
  /\ worker = "running"
  /\ worker' = "failed"
  /\ UNCHANGED <<main, handler, stop, gStatus, call, todo, reported>>

Next ==
  \/ ServiceMain \/ SendStop \/ ServiceCtrlHandlerEx
  \/ WorkerSucceeds \/ WorkerFails

Spec ==
  /\ Init /\ [][Next]_vars
  /\ WF_vars(ServiceMain)
  /\ WF_vars(ServiceCtrlHandlerEx)
  /\ WF_vars(WorkerSucceeds)

-----------------------------------------------------------------------------
(* Properties.                                                             *)

\* Type invariant: no call has stores left once its status is reported.
TypeOK ==
  /\ main \in {"register", "starting", "arguments", "spawn", "running", "join",
               "stopping", "done"}
  /\ handler \in {"idle", "called", "pending", "request"}
  /\ worker \in {"none", "running", "succeeded", "failed"}
  /\ stop \in BOOLEAN
  /\ gStatus \in Status
  /\ call \in [Threads -> Status]
  /\ todo \in [Threads -> SUBSET Fields]
  /\ todo["main"] # {} => main \in {"starting", "running", "stopping"}
  /\ todo["handler"] # {} => handler = "pending"
  /\ reported \in Status

\* However the two threads' stores to gStatus mix, the SCM, which may end the
\* process of a STOPPED service, never hears STOPPED while the worker runs,
\* nor RUNNING or STOP_PENDING before there was one.
StatusMatchesWorker ==
  /\ reported.state = "STOPPED" => worker # "running"
  /\ reported.state \in {"RUNNING", "STOP_PENDING"} => worker # "none"

\* A stop that the worker obeys is reported as one: the handler is through
\* with gStatus before the worker can know of the request, so the last status
\* the SCM hears is STOPPED without an error.
CleanStopReported ==
  main = "done" /\ worker = "succeeded" =>
    reported = StatusOf("STOPPED", 0)

\* Nobody asked the service to stop, and the last word is what went wrong.
FailureReported ==
  main = "done" /\ worker = "failed" /\ handler = "idle" /\ ~stop =>
    reported = StatusOf("STOPPED", 1)

\* The documented transitions, "START_PENDING -> RUNNING -> STOP_PENDING ->
\* STOPPED": the SCM hears nothing else after STOPPED.
StoppedIsFinal ==
  [][reported.state = "STOPPED" => reported'.state = "STOPPED"]_vars
=============================================================================
