-------------------------- MODULE ServiceRecovery --------------------------
(***************************************************************************)
(* The service as it is installed: processes of ServiceLifecycle, one      *)
(* after the other, each started by the Service Control Manager (SCM) with *)
(* the command line that Arguments reads, and what the recovery actions of *)
(* install_service.ps1 do with one that fails.                             *)
(*                                                                         *)
(* The SCM is external.  A service fails when its process ends without     *)
(* STOPPED, and with failureflag also when it ends with an error.  The SCM *)
(* counts failures, takes the action of the count, the last one again when *)
(* there are no more, and forgets the count after a time without failures. *)
(***************************************************************************)
EXTENDS ServiceLifecycle, Arguments

CONSTANTS
  Installed,   \* the ids and files install_service.ps1 is called with
  OtherLines   \* command lines it did not write

\* The script takes the ids as integers and a path that it makes absolute and
\* that must exist.
ASSUME InstalledAssumption ==
  \A i \in Installed :
    /\ \A word \in {i.domain, i.yoke, i.file} : word.option = "none"
    /\ i.domain.number # NoNumber /\ i.yoke.number # NoNumber
    /\ i.file # Absent

VARIABLES
  scm,       \* the service: "stopped", "running" or "waiting" for a restart
  binPath,   \* its command line
  options,   \* what ServiceMain of the current process made of it
  count,     \* the SCM's failure count, up to the length of Actions
  asked,     \* history: whether the current, or last, process was sent a stop
  retries    \* history: the SCM's restarts since its count last began again,
             \* up to one more than the script lists

scmVars == <<scm, binPath, options, count, asked, retries>>
serviceVars == <<vars, scmVars>>

-----------------------------------------------------------------------------
(* The script: sc failure actions= restart/20000 three times; sc           *)
(* failureflag 1.                                                          *)

Actions == <<"restart", "restart", "restart">>

\* A slip: without the flag only a crash is a failure.
OnErrorExitUnset == FALSE

OnErrorExit == TRUE

-----------------------------------------------------------------------------

RecoveryInit ==
  /\ Init
  /\ scm = "stopped"
  /\ binPath \in
       OtherLines \cup {BinPath(i.domain, i.yoke, i.file) : i \in Installed}
  /\ options = Unstarted
  /\ count = 0
  /\ asked = TRUE
  /\ retries = 0

\* A new process.
Launch ==
  /\ main' = "register" /\ handler' = "idle" /\ worker' = "none"
  /\ stop' = FALSE
  /\ gStatus' = StatusOf("none", 0) /\ reported' = StatusOf("none", 0)
  /\ call' = [t \in Threads |-> StatusOf("none", 0)]
  /\ todo' = [t \in Threads |-> {}]
  /\ scm' = "running"
  /\ options' = Unstarted
  /\ asked' = FALSE
  /\ UNCHANGED <<binPath, count>>

\* The operator, or the system at boot.
Start == scm \in {"stopped", "waiting"} /\ Launch /\ UNCHANGED retries

\* The delay of a restart action is over.
Restart ==
  /\ scm = "waiting"
  /\ Launch
  /\ retries' = IF retries <= Len(Actions) THEN retries + 1 ELSE retries

\* ServiceMain, which starts only with the ids it finds on its command line.
ServiceStep ==
  /\ scm = "running"
  /\ ServiceMain
  /\ IF main = "arguments"
     THEN options' = ReadService(binPath) /\ (main' = "spawn" <=> options'.starts)
     ELSE UNCHANGED options
  /\ UNCHANGED <<scm, binPath, count, asked, retries>>

StopSent ==
  /\ scm = "running"
  /\ SendStop
  /\ asked' = TRUE
  /\ UNCHANGED <<scm, binPath, options, count, retries>>

HandlerStep ==
  scm = "running" /\ ServiceCtrlHandlerEx /\ UNCHANGED scmVars

WorkerEnds ==
  scm = "running" /\ (WorkerSucceeds \/ WorkerFails) /\ UNCHANGED scmVars

\* The SCM's count goes up, or starts again after the reset period.
Failed ==
  /\ \E c \in {0, count} :
       /\ count' = IF c < Len(Actions) THEN c + 1 ELSE c
       /\ retries' = IF c = 0 THEN 0 ELSE retries
  /\ scm' = IF Actions[count'] = "restart" THEN "waiting" ELSE "stopped"

\* The SCM hears STOPPED and ends the process.
Ended ==
  /\ scm = "running"
  /\ reported.state = "STOPPED"
  /\ IF reported.win32 # "NO_ERROR" /\ OnErrorExit
     THEN Failed ELSE scm' = "stopped" /\ UNCHANGED <<count, retries>>
  /\ UNCHANGED <<vars, binPath, options, asked>>

Crash ==
  /\ scm = "running"
  /\ Failed
  /\ UNCHANGED <<vars, binPath, options, asked>>

RecoveryNext ==
  \/ Start \/ Restart \/ ServiceStep \/ StopSent \/ HandlerStep \/ WorkerEnds
  \/ Ended \/ Crash

\* As in ServiceLifecycle; and the SCM's clock runs, and it keeps its promise.
RecoverySpec ==
  /\ RecoveryInit /\ [][RecoveryNext]_serviceVars
  /\ WF_serviceVars(ServiceStep) /\ WF_serviceVars(HandlerStep)
  /\ WF_serviceVars(stop /\ WorkerEnds)
  /\ WF_serviceVars(Restart)

-----------------------------------------------------------------------------
(* Properties.                                                             *)

\* A process that ends although nobody asked it to, by a crash or because its
\* command line, its worker thread or its run failed, is followed by another,
\* as long as the SCM has not restarted the service as often as it should.
FailureIsRestarted ==
  ~asked /\ scm # "running" /\ retries < Len(Actions) ~> scm = "running"

\* The retry policy of the documentation: "restart up to 3 times", and "if
\* failures continue beyond the retry limit, stop retrying".
RetriesAreLimited == retries <= Len(Actions)

\* A process that was sent a stop returns from ServiceMain, unless it crashes.
StopEndsProcess ==
  scm = "running" /\ handler = "called" ~> main = "done" \/ scm # "running"

\* The service that the script installed starts with what the script was given,
\* in every process of it: no value is taken for an option, and none is left
\* for a default.
ServiceAsInstalled ==
  \A i \in Installed :
    /\ binPath = BinPath(i.domain, i.yoke, i.file)
    /\ main \in {"spawn", "running", "join", "stopping"}
    => options = [starts |-> TRUE, domainId |-> i.domain.number,
                  yokeId |-> i.yoke.number, configFile |-> i.file.text]
=============================================================================
