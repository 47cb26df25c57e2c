----------------------------- MODULE AppRunner -----------------------------
(***************************************************************************)
(* Both Run overloads of one AppRunner around the read loop: the choice of *)
(* the backend, its set-up, the second load of the configuration, the      *)
(* objects on the stack, and every way out.  The convenience overload owns *)
(* the VigemClient it constructs; the injected one is given a client that  *)
(* its caller set up and keeps.  Any number of runs follow one another.    *)
(*                                                                         *)
(* ReadLoop models the loop itself: here one iteration is at most one      *)
(* submission or a take() that throws.  Between any two steps the file may *)
(* be edited and a stop requested.                                         *)
(***************************************************************************)
EXTENDS VigemClient

VARIABLES
  file,        \* what the configuration file holds: an output.type, or junk
  pc,          \* where the runner is
  overload, tableMode,
  backend,     \* the device of this run: "vigem_x360" or "udp_protobuf"
  inForce,     \* output.type of the configuration the loop runs with
  stop,
  frame,       \* the listeners that live on Run's stack
  exitCode, lastError,
  dangling     \* history: the overloads during which a listener was called
               \* that is no longer there

clientVars == vars
runVars == <<overload, tableMode, backend, inForce>>
exitVars == <<exitCode, lastError>>
runnerVars == <<clientVars, file, pc, runVars, stop, frame, exitVars, dangling>>

Overloads == {"convenience", "injected"}
Backends == {"vigem_x360", "udp_protobuf"}
Files == Backends \cup {"another type", "junk"}

RunnerInit ==
  /\ Init
  /\ file \in Files
  /\ pc = "idle"
  /\ overload \in Overloads /\ tableMode \in BOOLEAN
  /\ backend = "vigem_x360" /\ inForce = "vigem_x360"
  /\ stop = FALSE
  /\ frame = {}
  /\ exitCode = "none" /\ lastError = ""
  /\ dangling = {}

-----------------------------------------------------------------------------
(* The environment.                                                        *)

Edit ==
  /\ file' \in Files
  /\ UNCHANGED <<clientVars, pc, runVars, stop, frame, exitVars, dangling>>

RequestStop ==
  /\ stop' = TRUE
  /\ UNCHANGED <<clientVars, file, pc, runVars, frame, exitVars, dangling>>

\* The caller of the injected overload makes a client, sets it up, and may use
\* it between two runs.
CallersClient ==
  /\ pc = "idle"
  /\ \/ Construct /\ overload' = "injected"
     \/ /\ overload = "injected"
        /\ Connect \/ AddX360Controller \/ UpdateRightTrigger \/ Destroy
        /\ UNCHANGED overload
  /\ UNCHANGED <<file, pc, tableMode, backend, inForce, stop, frame, exitVars,
                 dangling>>

\* A run begins, with a stop source of its own.
Call ==
  /\ pc = "idle"
  /\ overload' \in Overloads /\ tableMode' \in BOOLEAN
  /\ \/ overload' = "convenience" /\ ~alive /\ pc' = "select"
     \/ overload' = "injected" /\ controller_added_ /\ pc' = "enter"
  /\ backend' = "vigem_x360"
  /\ stop' = FALSE
  /\ exitCode' = "none"
  /\ UNCHANGED <<clientVars, file, inForce, frame, lastError, dangling>>

-----------------------------------------------------------------------------
(* Ways out.                                                               *)

Exit(code, error) == exitCode' = code /\ lastError' = error

\* The client of the convenience overload is destroyed on every way out.
OwnsClient == overload = "convenience" /\ backend = "vigem_x360"

\* Leaves the inner overload: its frame goes.
Leave(code, error) ==
  /\ Exit(code, error)
  /\ frame' = {}
  /\ pc' = IF OwnsClient THEN "unwind" ELSE "idle"

Unwind ==
  /\ pc = "unwind"
  /\ Destroy
  /\ pc' = "idle"
  /\ UNCHANGED <<file, runVars, stop, frame, exitVars, dangling>>

-----------------------------------------------------------------------------
(* The convenience overload.                                               *)

SelectBackend ==
  /\ pc = "select"
  /\ \/ \* options.configFile is empty
        pc' = "idle" /\ Exit("FAILURE", "missing") /\ UNCHANGED backend
     \/ file = "junk" /\ pc' = "idle" /\ Exit("FAILURE", "load") /\ UNCHANGED backend
     \/ /\ file = "vigem_x360" /\ pc' = "connect" /\ backend' = file
        /\ UNCHANGED exitVars
     \/ /\ file = "udp_protobuf" /\ pc' = "enter" /\ backend' = file
        /\ UNCHANGED exitVars
     \/ /\ file = "another type" /\ pc' = "idle" /\ Exit("FAILURE", "backend")
        /\ UNCHANGED backend
  /\ IF pc' = "connect" THEN Construct ELSE UNCHANGED clientVars
  /\ UNCHANGED <<file, overload, tableMode, inForce, stop, frame, dangling>>

\* What follows a step of the set-up: the next one, or the catch clause, which
\* the client's destructor precedes.
Proceed(next) ==
  \/ ~threw' /\ pc' = next /\ UNCHANGED exitVars
  \/ threw' /\ pc' = "unwind" /\ Exit("FAILURE", "setup")

ConnectClient ==
  /\ pc = "connect"
  /\ Connect
  /\ Proceed("add")
  /\ UNCHANGED <<file, runVars, stop, frame, dangling>>

AddController ==
  /\ pc = "add"
  /\ AddX360Controller
  /\ Proceed("enter")
  /\ UNCHANGED <<file, runVars, stop, frame, dangling>>

-----------------------------------------------------------------------------
(* The core overload.                                                      *)

\* A slip: the error of the run before is kept.
LoadKeepsError ==
  /\ pc = "enter"
  /\ \/ file = "junk" /\ Leave("FAILURE", "load") /\ UNCHANGED inForce
     \/ /\ file # "junk" /\ inForce' = file
        /\ pc' = "participant" /\ UNCHANGED <<lastError, exitCode, frame>>
  /\ UNCHANGED <<clientVars, file, overload, tableMode, backend, stop, dangling>>

\* _lastError.clear(), and the second load.
Load ==
  /\ pc = "enter"
  /\ \/ \* options.configFile is empty
        /\ overload = "injected" /\ Leave("FAILURE", "missing") /\ UNCHANGED inForce
     \/ file = "junk" /\ Leave("FAILURE", "load") /\ UNCHANGED inForce
     \/ /\ file # "junk" /\ inForce' = file
        /\ pc' = "participant" /\ lastError' = "" /\ UNCHANGED <<exitCode, frame>>
  /\ UNCHANGED <<clientVars, file, overload, tableMode, backend, stop, dangling>>

\* The participant, the topics, the readers and their engines.
Subscribe ==
  /\ pc = "participant"
  /\ \/ Leave("FAILURE", "unhandled")
     \/ pc' = "table" /\ UNCHANGED <<exitVars, frame>>
  /\ UNCHANGED <<clientVars, file, runVars, stop, dangling>>

\* A slip: the listener is registered before it is built.
BeginUnbuilt ==
  /\ pc = "table" /\ tableMode
  /\ pc' = "loop"
  /\ IF backend = "vigem_x360"
     THEN \E l \in Listeners : SetTxStateListener(l) ELSE UNCHANGED clientVars
  /\ UNCHANGED <<file, runVars, stop, exitVars, frame, dangling>>

\* In table mode the table begins, or the run ends without an error text; the
\* listener is built on the stack and registered.
BeginTable ==
  /\ pc = "table"
  /\ \/ /\ ~tableMode /\ pc' = "loop"
        /\ UNCHANGED <<clientVars, exitVars, frame>>
     \/ /\ tableMode /\ Leave("FAILURE", lastError)
        /\ UNCHANGED clientVars
     \/ /\ tableMode /\ pc' = "loop"
        /\ \E l \in Listeners :
             /\ frame' = {l}
             /\ IF backend = "vigem_x360" THEN SetTxStateListener(l)
                ELSE UNCHANGED clientVars
        /\ UNCHANGED exitVars
  /\ UNCHANGED <<file, runVars, stop, dangling>>

\* One submission of an iteration; the UDP stub accepts everything.
SubmitState ==
  /\ pc = "loop"
  /\ backend = "vigem_x360"
  /\ UpdateState
  /\ dangling' = IF notified' \in frame \cup {Null} THEN dangling
                 ELSE dangling \cup {overload}
  /\ \/ answer' = "true" /\ UNCHANGED <<pc, exitVars, frame>>
     \/ answer' = "false" /\ Leave("FAILURE", "runtime")
  /\ UNCHANGED <<file, runVars, stop>>

\* take(), or anything else in the iteration, throws.
IterationThrows ==
  /\ pc = "loop"
  /\ Leave("FAILURE", "unhandled")
  /\ UNCHANGED <<clientVars, file, runVars, stop, dangling>>

\* A slip: only a run without a table looks at the stop flag.
FinishUnlessTable ==
  /\ pc = "loop" /\ stop /\ ~tableMode
  /\ Leave("SUCCESS", lastError)
  /\ UNCHANGED <<clientVars, file, runVars, stop, dangling>>

Finish ==
  /\ pc = "loop" /\ stop
  /\ Leave("SUCCESS", lastError)
  /\ UNCHANGED <<clientVars, file, runVars, stop, dangling>>

SetUp ==
  \/ SelectBackend \/ ConnectClient \/ AddController \/ Load \/ Subscribe \/ BeginTable

Run ==
  \/ SetUp \/ SubmitState \/ IterationThrows \/ Finish \/ Unwind

RunnerNext == Edit \/ RequestStop \/ CallersClient \/ Call \/ Run

\* The calls of the straight-line code return, and the loop looks at the stop
\* flag after each pass; that an iteration throws or fails is never owed.
RunnerSpec ==
  /\ RunnerInit /\ [][RunnerNext]_runnerVars
  /\ WF_runnerVars(SetUp) /\ WF_runnerVars(Finish) /\ WF_runnerVars(Unwind)

-----------------------------------------------------------------------------
(* Properties.                                                             *)

\* Type invariant.
RunnerTypeOK ==
  /\ TypeOK
  /\ file \in Files
  /\ pc \in {"idle", "select", "connect", "add", "enter", "participant", "table",
             "loop", "unwind"}
  /\ overload \in Overloads /\ tableMode \in BOOLEAN
  /\ backend \in Backends /\ inForce \in Files \ {"junk"}
  /\ stop \in BOOLEAN /\ dangling \subseteq Overloads
  /\ frame \in SUBSET Listeners
  /\ exitCode \in {"none", "SUCCESS", "FAILURE"}
  /\ lastError \in {"", "missing", "load", "backend", "setup", "unhandled",
                    "runtime"}

\* LastError: "a description of the failure, or an empty string if the last
\* run completed successfully", whatever runs went before and wherever the run
\* failed.  A table that cannot begin leaves none: only a run without a table
\* is held to it.
LastErrorIsOfLastRun ==
  /\ exitCode = "SUCCESS" => lastError = ""
  /\ exitCode = "FAILURE" /\ ~tableMode => lastError # ""

\* Once the convenience overload has returned, whichever step of the set-up, of
\* the run or of the clean-up failed, every handle is given back, the
\* connection closed and the pad unplugged.  The pad itself is gone unless the
\* library refused to remove it, in this run or in one before.
GivenBackAfterRun ==
  pc = "idle" /\ overload = "convenience" /\ exitCode # "none" =>
    ~alive /\ GivenBack

\* The client that a run owns never calls a listener of a run that is over.
\* (One that the caller keeps between two runs can.)
ListenerAlive == "convenience" \notin dangling

\* A run that is asked to stop ends, from the set-up as from the loop.
StopEndsRun == stop /\ pc # "idle" ~> pc = "idle"
=============================================================================
