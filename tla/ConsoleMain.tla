---------------------------- MODULE ConsoleMain ----------------------------
(***************************************************************************)
(* The console program's main and its console control handler, from the    *)
(* StopSource on main's stack to the exit of the process.  The system runs *)
(* the handler in a new thread for each Ctrl-C, and does not wait for it   *)
(* when the handler is removed.  How the arguments are read is in module   *)
(* Arguments, and what Run does in AppRunner and ReadLoop: here it ends    *)
(* by itself or once a stop is requested.                                  *)
(***************************************************************************)
EXTENDS Arguments, FiniteSets

CONSTANTS
  ArgumentSet,    \* the arguments that are tried
  MaxArguments,   \* bound on their number
  Events          \* the Ctrl-C, Ctrl-Break, close and shutdown events

\* To main an option with a joined value is one more that it does not have.
ASSUME ArgumentSetAssumption == \A a \in ArgumentSet : ~a.joined
ASSUME MaxArgumentsAssumption == MaxArguments \in Nat

VARIABLES
  args,          \* argv without the program's name
  console,       \* what main makes of it
  pc,            \* where main is
  stopSource,    \* the object: "none", "alive" or "destroyed"
  gStopSource,   \* whether the global points to it
  registered,    \* whether ConsoleCtrlHandler is installed
  stop,          \* the StopSource's flag
  handler,       \* where the handler thread of each event is
  process,       \* "running", "exited", or "killed" by the default handler
  misused        \* whether RequestStop was called without a StopSource

readVars == <<args, console>>
vars == <<readVars, pc, stopSource, gStopSource, registered, stop, handler, process,
          misused>>

Init ==
  /\ args \in UNION {[1 .. n -> ArgumentSet] : n \in 0 .. MaxArguments}
  /\ console = Unread
  /\ pc = "arguments"
  /\ stopSource = "none"
  /\ gStopSource = FALSE
  /\ registered = FALSE
  /\ stop = FALSE
  /\ handler = [e \in Events |-> "none"]
  /\ process = "running"
  /\ misused = FALSE

-----------------------------------------------------------------------------
(* main.                                                                   *)

Step(from, to) ==
  /\ process = "running"
  /\ pc = from
  /\ pc' = to

\* main returns; the process exits and its handler threads with it.
Exits == process' = "exited"

ReadArguments ==
  /\ Step("arguments", "read")
  /\ console' = ReadConsole(args)
  /\ UNCHANGED <<args, stopSource, gStopSource, registered, stop, handler, process,
                 misused>>

\* --help, --version or arguments that cannot be run with.
ReturnEarly ==
  /\ Step("read", "done")
  /\ console.exit # Empty
  /\ Exits
  /\ UNCHANGED <<readVars, stopSource, gStopSource, registered, stop, handler, misused>>

\* A slip: the handler is installed before it has something to stop.
ConstructRegistered ==
  /\ Step("read", "publish")
  /\ console.exit = Empty
  /\ stopSource' = "alive"
  /\ registered' = TRUE
  /\ UNCHANGED <<readVars, gStopSource, stop, handler, process, misused>>

Construct ==
  /\ Step("read", "publish")
  /\ console.exit = Empty
  /\ stopSource' = "alive"
  /\ UNCHANGED <<readVars, gStopSource, registered, stop, handler, process, misused>>

Publish ==
  /\ Step("publish", "register")
  /\ gStopSource' = TRUE
  /\ UNCHANGED <<readVars, stopSource, registered, stop, handler, process, misused>>

Register ==
  /\ Step("register", "run")
  /\ registered' = TRUE
  /\ UNCHANGED <<readVars, stopSource, gStopSource, stop, handler, process, misused>>

\* Run returns: with the stop, or earlier because it failed.
RunReturns ==
  /\ Step("run", "unregister")
  /\ UNCHANGED <<readVars, stopSource, gStopSource, registered, stop, handler,
                 process, misused>>

Unregister ==
  /\ Step("unregister", "reset")
  /\ registered' = FALSE
  /\ UNCHANGED <<readVars, stopSource, gStopSource, stop, handler, process, misused>>

Reset ==
  /\ Step("reset", "destroy")
  /\ gStopSource' = FALSE
  /\ UNCHANGED <<readVars, stopSource, registered, stop, handler, process, misused>>

\* The end of main's block.
Destroy ==
  /\ Step("destroy", "return")
  /\ stopSource' = "destroyed"
  /\ UNCHANGED <<readVars, gStopSource, registered, stop, handler, process, misused>>

Return ==
  /\ Step("return", "done")
  /\ Exits
  /\ UNCHANGED <<readVars, stopSource, gStopSource, registered, stop, handler, misused>>

Main ==
  \/ ReadArguments \/ ReturnEarly \/ Construct \/ Publish \/ Register
  \/ RunReturns \/ Unregister \/ Reset \/ Destroy \/ Return

-----------------------------------------------------------------------------
(* The console control events.                                             *)

\* External: an event without a handler of ours ends the process.
Event(e) ==
  /\ process = "running"
  /\ handler[e] = "none"
  /\ IF registered
     THEN /\ handler' = [handler EXCEPT ![e] = "check"]
          /\ UNCHANGED process
     ELSE /\ handler' = [handler EXCEPT ![e] = "done"]
          /\ process' = "killed"
  /\ UNCHANGED <<readVars, pc, stopSource, gStopSource, registered, stop, misused>>

\* if (gStopSource != nullptr); returning FALSE leaves it to the default
\* handler.
Check(e) ==
  /\ process = "running"
  /\ handler[e] = "check"
  /\ IF gStopSource
     THEN /\ handler' = [handler EXCEPT ![e] = "call"]
          /\ UNCHANGED process
     ELSE /\ handler' = [handler EXCEPT ![e] = "done"]
          /\ process' = "killed"
  /\ UNCHANGED <<readVars, pc, stopSource, gStopSource, registered, stop, misused>>

\* A slip: the event is swallowed.
CallSwallowed(e) ==
  /\ process = "running"
  /\ handler[e] = "call"
  /\ handler' = [handler EXCEPT ![e] = "done"]
  /\ UNCHANGED <<readVars, pc, stopSource, gStopSource, registered, stop, process, misused>>

\* gStopSource->RequestStop(), through the pointer just tested or through
\* the global read again: a plain variable that another thread writes.
Call(e) ==
  /\ process = "running"
  /\ handler[e] = "call"
  /\ handler' = [handler EXCEPT ![e] = "done"]
  /\ \E pointer \in {TRUE, gStopSource} :
       IF pointer /\ stopSource = "alive"
       THEN stop' = TRUE /\ UNCHANGED misused
       ELSE misused' = TRUE /\ UNCHANGED stop
  /\ UNCHANGED <<readVars, pc, stopSource, gStopSource, registered, process>>

Handle(e) == Check(e) \/ Call(e)

-----------------------------------------------------------------------------

Stopped == process # "running" /\ UNCHANGED vars

Next == Main \/ (\E e \in Events : Event(e) \/ Handle(e)) \/ Stopped

\* main runs; Run returns once the stop is requested, which module ReadLoop
\* shows, and otherwise need not return; the system runs the handlers.
Fairness ==
  /\ WF_vars(Construct \/ Publish \/ Register \/ Unregister \/ Reset \/ Destroy
             \/ Return)
  /\ WF_vars(stop /\ RunReturns)
  /\ \A e \in Events : WF_vars(Handle(e))

Spec == Init /\ [][Next]_vars /\ Fairness

-----------------------------------------------------------------------------
(* Properties.                                                             *)

\* While Run works no event ends the process in the middle, with the pad
\* plugged in: the handler is there before Run starts, and for as long as it
\* is installed it finds the StopSource, alive.
RunIsNeverCut ==
  pc = "run" \/ registered =>
    /\ registered /\ gStopSource /\ stopSource = "alive"
    /\ process = "running" /\ ~misused

\* An event that reaches our handler ends the process, one way or the other,
\* and it is never lost between the check and the flag.
EventEndsProcess ==
  \A e \in Events : handler[e] = "check" ~> process # "running"

-----------------------------------------------------------------------------
(* The usage text, for the property.                                       *)

Ends(i) == args[i].option \in {"--version", "--help"}

\* The words among the first n arguments, from the first that is not empty,
\* which names the file; and which of them the i-th argument is.
Words(n) ==
  {i \in 1 .. n :
     /\ args[i].option = "none"
     /\ \E j \in 1 .. i : args[j].option = "none" /\ args[j].text # Empty}
Place(i) == Cardinality(Words(i))

\* Nothing among the first n arguments is wrong.
Sound(n) ==
  /\ \A i \in 1 .. n :
       args[i].option \in {"none", "--debug", "--table", "--version", "--help"}
  /\ \A i \in Words(n) : Place(i) = 1 \/ (Place(i) <= 3 /\ args[i].number # NoNumber)

Given(option) == \E i \in DOMAIN args : args[i].option = option

Runnable ==
  /\ \A i \in DOMAIN args : ~Ends(i)
  /\ Sound(Len(args)) /\ Place(Len(args)) = 3
  /\ ~(Given("--debug") /\ Given("--table"))

\* Asked for its version or for help, with nothing wrong before that.
AskedToEnd ==
  \E i \in DOMAIN args : Ends(i) /\ Sound(i - 1) /\ \A j \in 1 .. i - 1 : ~Ends(j)

\* In whatever order options and words are mixed, main constructs what a run
\* needs exactly with the three words that the usage names and not both
\* options; --help or --version succeeds exactly when nothing before it is
\* wrong, and every other command line ends without a run.
UsageIsKept ==
  /\ pc = "publish" =>
       /\ Runnable
       /\ \A i \in Words(Len(args)) :
            /\ Place(i) = 1 => console.config_path = args[i].text
            /\ Place(i) = 2 => console.domain_id = args[i].number
            /\ Place(i) = 3 => console.yoke_id = args[i].number
  /\ pc = "done" /\ stopSource = "none" =>
       /\ ~Runnable
       /\ console.exit = "EXIT_SUCCESS" <=> AskedToEnd
=============================================================================
