----------------------- MODULE ServiceRecoveryProofs -----------------------
(***************************************************************************)
(* Proofs about ServiceLifecycle and ServiceRecovery.  What the SCM hears  *)
(* of the worker is true whatever order the two threads store and report   *)
(* in; a stop that the worker obeys is reported as STOPPED without an      *)
(* error, a failure with one.  Both hold of every process that the SCM     *)
(* starts, for any command lines: a new process begins as Init does, and   *)
(* whatever the SCM does besides leaves the process alone.  The service    *)
(* that the script installed runs with what the script was given.          *)
(***************************************************************************)
EXTENDS ServiceRecovery, TLAPS

-----------------------------------------------------------------------------
(* Types.                                                                  *)

LEMMA StatusOfType ==
  ASSUME NEW state \in States, NEW specific \in 0..2
  PROVE  StatusOf(state, specific) \in Status
  BY DEF StatusOf, Status

LEMMA CallType ==
  ASSUME TypeOK, NEW t \in Threads, NEW state \in States, NEW specific \in 0..2,
         SetServiceState(t, state, specific)
  PROVE  /\ gStatus' \in Status /\ reported' \in Status
         /\ call' \in [Threads -> Status]
         /\ todo' \in [Threads -> SUBSET Fields]
         /\ todo'[t] = Fields /\ call'[t] = StatusOf(state, specific)
         /\ \A u \in Threads \ {t} : todo'[u] = todo[u] /\ call'[u] = call[u]
  <1>1. StatusOf(state, specific) \in Status
    BY StatusOfType
  <1> QED BY <1>1 DEF TypeOK, SetServiceState

LEMMA StoreType ==
  ASSUME TypeOK, NEW t \in Threads, NEW f \in Fields, Store(t, f)
  PROVE  TypeOK'
  <1>1. call[t] \in Status
    BY DEF TypeOK
  <1>2. gStatus' \in Status
    BY <1>1 DEF TypeOK, Store, Status, Fields
  <1>3. /\ todo' \in [Threads -> SUBSET Fields]
        /\ \A u \in Threads : todo'[u] \subseteq todo[u]
    BY DEF TypeOK, Store
  <1>4. UNCHANGED <<main, handler, worker, stop, call, reported>>
    BY DEF Store
  <1> QED BY <1>2, <1>3, <1>4 DEF TypeOK, Threads

LEMMA InitTypeOK == Init => TypeOK
  <1> SUFFICES ASSUME Init PROVE TypeOK
    OBVIOUS
  <1>1. gStatus \in Status
    BY StatusOfType DEF Init, States
  <1> QED BY <1>1 DEF Init, TypeOK, Threads

\* The steps of ServiceMain that call SetServiceState.
LEMMA MainCallTypeOK ==
  ASSUME TypeOK, NEW state \in States, NEW specific \in 0..2,
         SetServiceState("main", state, specific),
         main' \in {"starting", "running", "stopping"},
         worker' \in {"none", "running", "succeeded", "failed"},
         UNCHANGED <<handler, stop>>
  PROVE  TypeOK'
  <1>1. "main" \in Threads /\ "handler" \in Threads \ {"main"}
    BY DEF Threads
  <1> QED BY <1>1, CallType DEF TypeOK

LEMMA NextTypeOK == TypeOK /\ [Next]_vars => TypeOK'
  <1> SUFFICES ASSUME TypeOK, [Next]_vars PROVE TypeOK'
    OBVIOUS
  <1> USE DEF States
  <1>1. CASE RegisterHandler
    BY <1>1, MainCallTypeOK DEF RegisterHandler, Silent, TypeOK
  <1>2. CASE ReportStarting \/ ReportRunning \/ ReportStopped
    BY <1>2 DEF ReportStarting, ReportRunning, ReportStopped, Report, TypeOK
  <1>3. CASE ParseArguments
    BY <1>3, MainCallTypeOK DEF ParseArguments, Silent, TypeOK
  <1>4. CASE Spawn
    BY <1>4, MainCallTypeOK DEF Spawn, TypeOK
  <1>5. CASE Join
    BY <1>5, MainCallTypeOK DEF Join, TypeOK
  <1>6. ASSUME NEW t \in Threads, NEW f \in Fields, Store(t, f)
        PROVE  TypeOK'
    BY <1>6, StoreType
  <1>7. CASE SendStop \/ RequestStop \/ WorkerSucceeds \/ WorkerFails
    BY <1>7 DEF SendStop, RequestStop, WorkerSucceeds, WorkerFails, TypeOK
  <1>8. CASE BeginStop
    <2>1. "handler" \in Threads /\ "main" \in Threads \ {"handler"}
      BY DEF Threads
    <2>2. SetServiceState("handler", "STOP_PENDING", 0)
      BY <1>8 DEF BeginStop
    <2> QED BY <1>8, <2>1, <2>2, CallType DEF BeginStop, TypeOK
  <1>9. CASE ReportStopPending
    BY <1>9 DEF ReportStopPending, Report, TypeOK
  <1>10. CASE UNCHANGED vars
    BY <1>10 DEF vars, TypeOK
  <1> QED BY <1>1, <1>2, <1>3, <1>4, <1>5, <1>6, <1>7, <1>8, <1>9, <1>10
          DEF Next, ServiceMain, ServiceCtrlHandlerEx, Threads

-----------------------------------------------------------------------------
(* What the SCM hears of the worker.                                       *)

\* ServiceMain has not tried to start the worker yet.
Early == main \in {"register", "starting", "arguments", "spawn"}

\* ServiceMain has seen the worker end, or never started one.
Late == main \in {"stopping", "done"}

\* What a status may say, given where the threads are.
Truthful(status) ==
  /\ status.state = "STOPPED" => worker # "running" /\ Late
  /\ status.state \in {"RUNNING", "STOP_PENDING"} => worker # "none"
  /\ status.accepts => worker # "none"

\* The handler runs only after RUNNING was reported.
HandlerAfterWorker == handler # "idle" => worker # "none"

\* Where the worker is, given where ServiceMain is.
Positions ==
  /\ Early => worker = "none"
  /\ main \in {"running", "join"} => worker # "none"
  /\ Late => worker # "running"

\* Every status that is stored, or about to be, is a truthful one.
Honest ==
  /\ Truthful(gStatus) /\ Truthful(reported)
  /\ \A t \in Threads :
       todo[t] # {} => Truthful(call[t])

SInv == TypeOK /\ Positions /\ HandlerAfterWorker /\ Honest


LEMMA InitSInv == Init => SInv
  <1> SUFFICES ASSUME Init PROVE SInv
    OBVIOUS
  <1>1. Truthful(gStatus)
    BY DEF Init, Truthful, StatusOf
  <1>2. Honest
    BY <1>1 DEF Init, Honest
  <1> QED BY <1>2, InitTypeOK DEF Init, SInv, Positions, HandlerAfterWorker,
                                  Early, Late

\* Steps that leave the statuses alone.
LEMMA QuietSInv ==
  ASSUME SInv, TypeOK', UNCHANGED <<gStatus, call, todo, reported>>,
         Late => Late', worker # "none" => worker' # "none",
         Late /\ worker # "running" => worker' # "running",
         Positions', HandlerAfterWorker'
  PROVE  SInv'
  BY DEF SInv, Honest, Truthful

\* A step of ServiceMain that calls SetServiceState with a truthful status.
LEMMA MainCallSInv ==
  ASSUME SInv, TypeOK', NEW state \in States, NEW specific \in 0..2,
         SetServiceState("main", state, specific),
         Truthful(StatusOf(state, specific))',
         Late => Late', worker # "none" => worker' # "none",
         Late /\ worker # "running" => worker' # "running",
         Positions', HandlerAfterWorker'
  PROVE  SInv'
  <1>1. /\ call'["main"] = StatusOf(state, specific)
        /\ todo'["handler"] = todo["handler"]
        /\ call'["handler"] = call["handler"]
    BY CallType DEF SInv, Threads
  <1>2. Truthful(gStatus)' /\ Truthful(reported)'
    BY DEF SInv, Honest, Truthful, SetServiceState
  <1>3. todo["handler"] # {} => Truthful(call["handler"])'
    BY <1>1 DEF SInv, Honest, Truthful, Threads
  <1>4. Truthful(call["main"])'
    BY <1>1 DEF Truthful
  <1> QED BY <1>1, <1>2, <1>3, <1>4 DEF SInv, Honest, Threads

\* A report hands over what gStatus truthfully says.
LEMMA ReportSInv ==
  ASSUME SInv, TypeOK', NEW t \in Threads, Report(t), UNCHANGED worker,
         Late => Late', Positions', HandlerAfterWorker'
  PROVE  SInv'
  <1>1. Truthful(gStatus)'
    BY DEF SInv, Honest, Truthful, Report
  <1>2. Truthful(reported)'
    BY <1>1 DEF Truthful, Report
  <1>3. \A u \in Threads : todo'[u] # {} => Truthful(call[u])'
    BY DEF SInv, Honest, Truthful, Report
  <1> QED BY <1>1, <1>2, <1>3 DEF SInv, Honest

\* One store of a truthful status into another truthful one leaves a truthful
\* one, although it may be neither of the two.
LEMMA StoreSInv ==
  ASSUME SInv, TypeOK', NEW t \in Threads, NEW f \in Fields, Store(t, f)
  PROVE  SInv'
  <1>1. UNCHANGED <<main, handler, worker, call, reported>>
    BY DEF Store
  <1>2. Truthful(gStatus) /\ Truthful(call[t]) /\ gStatus \in Status
    BY DEF SInv, Honest, Store, TypeOK
  <1>3. gStatus' = [gStatus EXCEPT ![f] = call[t][f]]
    BY DEF Store
  <1>4. /\ gStatus'.state \in {gStatus.state, call[t].state}
        /\ gStatus'.accepts => gStatus.accepts \/ call[t].accepts
    BY <1>2, <1>3 DEF Status, Fields
  <1>5. Truthful(gStatus)'
    BY <1>1, <1>2, <1>4 DEF Truthful, Late
  <1>6. \A u \in Threads : todo'[u] \subseteq todo[u]
    BY DEF Store, SInv, TypeOK
  <1>7. \A u \in Threads : todo'[u] # {} => Truthful(call[u])'
    BY <1>1, <1>6 DEF SInv, Honest, Truthful, Late
  <1>8. Truthful(reported)' /\ Positions' /\ HandlerAfterWorker'
    BY <1>1 DEF SInv, Honest, Truthful, Positions, HandlerAfterWorker, Early, Late
  <1> QED BY <1>5, <1>7, <1>8 DEF SInv, Honest

LEMMA NextSInv == SInv /\ [Next]_vars => SInv'
  <1> SUFFICES ASSUME SInv, [Next]_vars PROVE SInv'
    OBVIOUS
  <1> USE DEF States, Positions, HandlerAfterWorker, Early, Late
  <1>0. TypeOK'
    BY NextTypeOK DEF SInv
  <1>1. CASE RegisterHandler
    <2>1. Truthful(StatusOf("START_PENDING", 0))'
      BY DEF Truthful, StatusOf
    <2> QED BY <1>0, <1>1, <2>1, MainCallSInv, QuietSInv
            DEF RegisterHandler, Silent, SInv
  <1>2. CASE ReportStarting \/ ReportRunning \/ ReportStopped
    BY <1>0, <1>2, ReportSInv
       DEF ReportStarting, ReportRunning, ReportStopped, SInv, Threads
  <1>3. CASE ParseArguments
    <2>1. CASE main' = "spawn" /\ Silent
      BY <1>0, <1>3, <2>1, QuietSInv DEF ParseArguments, Silent, SInv
    <2>2. CASE main' = "stopping" /\ SetServiceState("main", "STOPPED", 1)
      <3>1. Truthful(StatusOf("STOPPED", 1))'
        BY <1>3, <2>2 DEF Truthful, StatusOf, ParseArguments, SInv
      <3> QED BY <1>0, <1>3, <2>2, <3>1, MainCallSInv DEF ParseArguments, SInv
    <2> QED BY <1>3, <2>1, <2>2 DEF ParseArguments
  <1>4. CASE Spawn
    <2>1. CASE worker' = "running"
      <3>1. Truthful(StatusOf("RUNNING", 0))'
        BY <2>1 DEF Truthful, StatusOf
      <3> QED BY <1>0, <1>4, <2>1, <3>1, MainCallSInv DEF Spawn, SInv
    <2>2. CASE worker' # "running"
      <3>1. Truthful(StatusOf("STOPPED", 2))'
        BY <1>4, <2>2 DEF Truthful, StatusOf, Spawn
      <3> QED BY <1>0, <1>4, <2>2, <3>1, MainCallSInv DEF Spawn, SInv
    <2> QED BY <2>1, <2>2
  <1>5. CASE Join
    <2> DEFINE code == IF worker = "succeeded" THEN 0 ELSE 1
    <2>1. Truthful(StatusOf("STOPPED", code))'
      BY <1>5 DEF Truthful, StatusOf, Join
    <2> QED BY <1>0, <1>5, <2>1, MainCallSInv DEF Join, SInv
  <1>6. ASSUME NEW t \in Threads, NEW f \in Fields, Store(t, f)
        PROVE  SInv'
    BY <1>0, <1>6, StoreSInv
  <1>7. CASE SendStop
    <2>1. worker # "none"
      BY <1>7 DEF SendStop, SInv, Honest, Truthful
    <2> QED BY <1>0, <1>7, <2>1, QuietSInv DEF SendStop, SInv
  <1>8. CASE RequestStop \/ WorkerSucceeds \/ WorkerFails
    BY <1>0, <1>8, QuietSInv DEF RequestStop, WorkerSucceeds, WorkerFails, SInv
  <1>9. CASE BeginStop
    <2>1. /\ call'["handler"] = StatusOf("STOP_PENDING", 0)
          /\ todo'["main"] = todo["main"] /\ call'["main"] = call["main"]
          /\ UNCHANGED <<main, worker, gStatus, reported>>
      BY <1>9, CallType DEF BeginStop, SetServiceState, SInv, Threads
    <2>2. worker # "none"
      BY <1>9 DEF BeginStop, SInv
    <2>3. Truthful(call["handler"])'
      BY <2>1, <2>2 DEF Truthful, StatusOf
    <2> QED BY <1>0, <1>9, <2>1, <2>2, <2>3
            DEF BeginStop, SInv, Honest, Truthful, Threads
  <1>10. CASE ReportStopPending
    BY <1>0, <1>10, ReportSInv DEF ReportStopPending, SInv, Threads
  <1>11. CASE UNCHANGED vars
    BY <1>11 DEF vars, SInv, TypeOK, Honest, Truthful
  <1> QED BY <1>1, <1>2, <1>3, <1>4, <1>5, <1>6, <1>7, <1>8, <1>9, <1>10, <1>11
          DEF Next, ServiceMain, ServiceCtrlHandlerEx, Threads

\* STOPPED is reported only when no worker runs, RUNNING and STOP_PENDING only
\* when there was one, however the stores of the two threads mix.
THEOREM StatusStaysRight == Spec => []StatusMatchesWorker
  <1>1. SInv => StatusMatchesWorker
    BY DEF SInv, Honest, Truthful, StatusMatchesWorker
  <1> QED BY <1>1, InitSInv, NextSInv, PTL DEF Spec

-----------------------------------------------------------------------------
(* Clean stops.                                                            *)

\* ServiceMain has reported RUNNING.
Started == main \in {"join", "stopping", "done"}

\* The SCM, which believes that nothing is accepted, calls the handler no more.
NoMoreControls == ~reported.accepts /\ ~gStatus.accepts

\* What ServiceMain and the handler are storing.
Calls ==
  /\ handler = "pending" => call["handler"] = StatusOf("STOP_PENDING", 0)
  /\ main = "starting" => ~call["main"].accepts
  /\ main = "stopping" => ~call["main"].accepts

\* Controls are accepted once RUNNING is reported, and none after the stop is:
\* the handler is through with gStatus when the worker can know of the stop.
Controls ==
  /\ gStatus.accepts => main = "running" \/ Started
  /\ reported.accepts => Started
  /\ handler # "idle" \/ stop => Started
  /\ stop => handler = "idle"
  /\ handler = "pending" /\ "accepts" \notin todo["handler"] => ~gStatus.accepts
  /\ handler = "request" \/ stop => NoMoreControls

\* ServiceMain's last report, from the worker's end on.
Ending ==
  worker = "succeeded" =>
    /\ stop
    /\ main = "stopping" =>
         /\ call["main"] = StatusOf("STOPPED", 0)
         /\ \A f \in Fields \ todo["main"] : gStatus[f] = call["main"][f]
    /\ main = "done" => reported = StatusOf("STOPPED", 0)

\* The inductive invariant of clean stops.
CInv == SInv /\ Calls /\ Controls /\ Ending

LEMMA InitCInv == Init => CInv
  <1> SUFFICES ASSUME Init PROVE CInv
    OBVIOUS
  <1>1. ~gStatus.accepts /\ ~reported.accepts
    BY DEF Init, StatusOf
  <1> QED BY <1>1, InitSInv DEF Init, CInv, Calls, Controls, Ending

\* A step of ServiceMain that calls SetServiceState and keeps the worker's end.
LEMMA MainCallCInv ==
  ASSUME CInv, SInv', NEW state \in States, NEW specific \in 0..2,
         SetServiceState("main", state, specific), UNCHANGED <<handler, stop>>,
         Started => Started', main # "running",
         main' \in {"starting", "running", "stopping"},
         main' # "running" => state # "RUNNING",
         worker' = "succeeded" =>
           stop /\ main' = "stopping" /\ state = "STOPPED" /\ specific = 0
  PROVE  CInv'
  <1>1. /\ call'["main"] = StatusOf(state, specific)
        /\ todo'["main"] = Fields
        /\ todo'["handler"] = todo["handler"]
        /\ call'["handler"] = call["handler"]
        /\ UNCHANGED <<gStatus, reported>>
    BY CallType DEF CInv, SInv, Threads, SetServiceState
  <1>2. call'["main"].accepts = (state = "RUNNING")
    BY <1>1 DEF StatusOf
  <1>3. Calls'
    BY <1>1, <1>2 DEF CInv, Calls
  <1>4. Controls'
    BY <1>1 DEF CInv, Controls, Started, NoMoreControls
  <1>5. Ending'
    BY <1>1 DEF CInv, Ending
  <1> QED BY <1>3, <1>4, <1>5 DEF CInv

\* The two reports that do not end the service.
LEMMA MainReportCInv ==
  ASSUME CInv, SInv', ReportStarting \/ ReportRunning
  PROVE  CInv'
  <1>1. UNCHANGED <<handler, worker, stop, gStatus, call, todo>>
    BY DEF ReportStarting, ReportRunning, Report
  <1>2. reported' = gStatus /\ main \in {"starting", "running"}
    BY DEF ReportStarting, ReportRunning, Report
  <1>3. main' \in {"arguments", "join"} /\ (main = "running" => main' = "join")
    BY DEF ReportStarting, ReportRunning
  <1>4. ~stop /\ handler = "idle"
    BY <1>2 DEF CInv, Controls, Started
  <1>5. Calls'
    BY <1>1, <1>3 DEF CInv, Calls
  <1>6. Controls'
    BY <1>1, <1>2, <1>3, <1>4 DEF CInv, Controls, Started, NoMoreControls
  <1>7. Ending'
    BY <1>1, <1>3 DEF CInv, Ending
  <1> QED BY <1>5, <1>6, <1>7 DEF CInv

\* The last report: with the worker's success the four fields are all stored.
LEMMA ReportStoppedCInv ==
  ASSUME CInv, SInv', ReportStopped
  PROVE  CInv'
  <1>1. /\ UNCHANGED <<handler, worker, stop, gStatus, call, todo>>
        /\ main = "stopping" /\ main' = "done"
        /\ reported' = gStatus /\ todo["main"] = {}
    BY DEF ReportStopped, Report
  <1>2. Calls'
    BY <1>1 DEF CInv, Calls
  <1>3. Controls'
    BY <1>1 DEF CInv, Controls, Started, NoMoreControls
  <1>4. ASSUME worker = "succeeded"
        PROVE  gStatus = StatusOf("STOPPED", 0)
    <2>1. call["main"] = StatusOf("STOPPED", 0) /\ \A f \in Fields : gStatus[f] = call["main"][f]
      BY <1>1, <1>4 DEF CInv, Ending
    <2>2. gStatus \in Status /\ call["main"] \in Status
      BY DEF CInv, SInv, TypeOK, Threads
    <2>3. /\ gStatus.state = call["main"].state
          /\ gStatus.accepts = call["main"].accepts
          /\ gStatus.win32 = call["main"].win32
          /\ gStatus.specific = call["main"].specific
      BY <2>1 DEF Fields
    <2>4. gStatus = call["main"]
      BY <2>2, <2>3 DEF Status
    <2> QED BY <2>1, <2>4
  <1>5. Ending'
    BY <1>1, <1>4 DEF CInv, Ending
  <1> QED BY <1>2, <1>3, <1>5 DEF CInv

LEMMA StoreEnding ==
  ASSUME CInv, NEW t \in Threads, NEW f \in Fields, Store(t, f)
  PROVE  Ending'
  <1>1. /\ UNCHANGED <<main, handler, worker, stop, call, reported>>
        /\ f \in todo[t]
        /\ gStatus' = [gStatus EXCEPT ![f] = call[t][f]]
        /\ todo' = [todo EXCEPT ![t] = @ \ {f}]
    BY DEF Store
  <1>2. SUFFICES ASSUME worker = "succeeded", main = "stopping",
                        NEW g \in Fields \ todo'["main"]
                 PROVE  gStatus'[g] = call["main"][g]
    BY <1>1 DEF CInv, Ending
  <1>3. t = "main"
    BY <1>1, <1>2 DEF CInv, Controls, Ending, SInv, TypeOK, Threads
  <1>4. todo'["main"] = todo["main"] \ {f}
    BY <1>1, <1>3 DEF CInv, SInv, TypeOK, Threads
  <1>5. DOMAIN gStatus = Fields
    BY DEF CInv, SInv, TypeOK, Status, Fields
  <1>6. CASE g = f
    BY <1>1, <1>3, <1>5, <1>6
  <1>7. CASE g # f
    BY <1>1, <1>2, <1>4, <1>5, <1>7 DEF CInv, Ending
  <1> QED BY <1>6, <1>7

\* A store of ServiceMain cannot bring the controls back, and one of the handler
\* does not fall into ServiceMain's last report of a clean stop.
LEMMA StoreCInv ==
  ASSUME CInv, SInv', NEW t \in Threads, NEW f \in Fields, Store(t, f)
  PROVE  CInv'
  <1>1. /\ UNCHANGED <<main, handler, worker, stop, call, reported>>
        /\ f \in todo[t]
        /\ gStatus' = [gStatus EXCEPT ![f] = call[t][f]]
        /\ todo' = [todo EXCEPT ![t] = @ \ {f}]
    BY DEF Store
  <1>2. gStatus \in Status /\ todo \in [Threads -> SUBSET Fields]
    BY DEF CInv, SInv, TypeOK
  <1>3. Calls'
    BY <1>1 DEF CInv, Calls
  <1>4. CASE t = "main"
    <2>1. main \in {"starting", "running", "stopping"}
      BY <1>1, <1>4 DEF CInv, SInv, TypeOK
    <2>2. main # "running" => ~call["main"].accepts
      BY <2>1 DEF CInv, Calls
    <2>3. CASE f = "accepts"
      <3>1. gStatus'.accepts = call["main"].accepts
        BY <1>1, <1>2, <1>4, <2>3 DEF Status
      <3>2. todo'["handler"] = todo["handler"]
        BY <1>1, <1>2, <1>4 DEF Threads
      <3> QED BY <1>1, <1>3, <2>1, <2>2, <3>1, <3>2, StoreEnding, <1>4
              DEF CInv, Controls, Started, NoMoreControls
    <2>4. CASE f # "accepts"
      <3>1. gStatus'.accepts = gStatus.accepts
        BY <1>1, <1>2, <2>4 DEF Status
      <3>2. todo'["handler"] = todo["handler"]
        BY <1>1, <1>2, <1>4 DEF Threads
      <3> QED BY <1>1, <1>3, <3>1, <3>2, StoreEnding, <1>4
              DEF CInv, Controls, Started, NoMoreControls
    <2> QED BY <2>3, <2>4
  <1>5. CASE t = "handler"
    <2>1. handler = "pending" /\ ~stop
      BY <1>1, <1>5 DEF CInv, SInv, TypeOK, Controls
    <2>2. ~call["handler"].accepts
      <3>1. call["handler"] = StatusOf("STOP_PENDING", 0)
        BY <2>1 DEF CInv, Calls
      <3>2. ~StatusOf("STOP_PENDING", 0).accepts
        BY DEF StatusOf
      <3> QED BY <3>1, <3>2
    <2>3. CASE f = "accepts"
      <3>1. gStatus'.accepts = call["handler"].accepts
        BY <1>1, <1>2, <1>5, <2>3 DEF Status
      <3> QED BY <1>1, <1>3, <2>1, <2>2, <3>1, StoreEnding, <1>5
              DEF CInv, Controls, Started, NoMoreControls
    <2>4. CASE f # "accepts"
      <3>1. gStatus'.accepts = gStatus.accepts
        BY <1>1, <1>2, <2>4 DEF Status
      <3>2. "accepts" \in todo'["handler"] <=> "accepts" \in todo["handler"]
        BY <1>1, <1>2, <1>5, <2>4 DEF Threads
      <3> QED BY <1>1, <1>3, <2>1, <3>1, <3>2, StoreEnding, <1>5
              DEF CInv, Controls, Started, NoMoreControls
    <2> QED BY <2>3, <2>4
  <1> QED BY <1>4, <1>5 DEF Threads

LEMMA NextCInv == CInv /\ [Next]_vars => CInv'
  <1> SUFFICES ASSUME CInv, [Next]_vars PROVE CInv'
    OBVIOUS
  <1> USE DEF States
  <1>0. SInv'
    BY NextSInv DEF CInv
  <1>1. CASE RegisterHandler
    <2>1. worker = "none"
      BY <1>1 DEF RegisterHandler, CInv, SInv, Positions, Early
    <2>2. CASE SetServiceState("main", "START_PENDING", 0) /\ main' = "starting"
      BY <1>0, <1>1, <2>1, <2>2, MainCallCInv DEF RegisterHandler, Started
    <2>3. CASE main' = "done" /\ Silent
      BY <1>0, <1>1, <2>1, <2>3
         DEF RegisterHandler, Silent, CInv, Calls, Controls, Ending, Started,
             NoMoreControls
    <2> QED BY <1>1, <2>2, <2>3 DEF RegisterHandler
  <1>2. CASE ReportStarting \/ ReportRunning
    BY <1>0, <1>2, MainReportCInv
  <1>3. CASE ReportStopped
    BY <1>0, <1>3, ReportStoppedCInv
  <1>4. CASE ParseArguments
    <2>1. worker = "none" /\ worker' = "none"
      BY <1>4 DEF ParseArguments, CInv, SInv, Positions, Early
    <2>2. CASE SetServiceState("main", "STOPPED", 1) /\ main' = "stopping"
      BY <1>0, <1>4, <2>1, <2>2, MainCallCInv DEF ParseArguments, Started
    <2>3. CASE main' = "spawn" /\ Silent
      BY <1>0, <1>4, <2>1, <2>3
         DEF ParseArguments, Silent, CInv, Calls, Controls, Ending, Started,
             NoMoreControls
    <2> QED BY <1>4, <2>2, <2>3 DEF ParseArguments
  <1>5. CASE Spawn
    <2>1. worker = "none" /\ worker' \in {"none", "running"}
      BY <1>5 DEF Spawn, CInv, SInv, Positions, Early
    <2> QED BY <1>0, <1>5, <2>1, MainCallCInv DEF Spawn, Started
  <1>6. CASE Join
    <2>1. worker = "succeeded" => stop
      BY DEF CInv, Ending
    <2>2. SetServiceState("main", "STOPPED", IF worker = "succeeded" THEN 0 ELSE 1)
      BY <1>6 DEF Join
    <2> QED BY <1>0, <1>6, <2>1, <2>2, MainCallCInv DEF Join, Started
  <1>7. ASSUME NEW t \in Threads, NEW f \in Fields, Store(t, f)
        PROVE  CInv'
    BY <1>0, <1>7, StoreCInv
  <1>8. CASE SendStop
    BY <1>0, <1>8 DEF SendStop, CInv, Calls, Controls, Ending, Started,
                      NoMoreControls
  <1>9. CASE BeginStop
    <2>1. /\ call'["handler"] = StatusOf("STOP_PENDING", 0)
          /\ todo'["handler"] = Fields
          /\ todo'["main"] = todo["main"] /\ call'["main"] = call["main"]
          /\ UNCHANGED <<main, worker, stop, gStatus, reported>>
          /\ handler = "called" /\ handler' = "pending"
      BY <1>9, CallType DEF BeginStop, SetServiceState, CInv, SInv, Threads
    <2>2. "accepts" \in todo'["handler"]
      BY <2>1 DEF Fields
    <2>3. Calls' /\ Ending'
      BY <2>1 DEF CInv, Calls, Ending
    <2>4. Controls'
      BY <2>1, <2>2 DEF CInv, Controls, Started, NoMoreControls
    <2> QED BY <1>0, <2>3, <2>4 DEF CInv
  <1>10. CASE ReportStopPending
    <2>1. /\ UNCHANGED <<main, worker, stop, gStatus, call, todo>>
          /\ handler = "pending" /\ handler' = "request"
          /\ reported' = gStatus /\ todo["handler"] = {}
      BY <1>10 DEF ReportStopPending, Report
    <2>2. ~stop /\ ~gStatus.accepts /\ worker # "succeeded"
      BY <2>1 DEF CInv, Controls, Ending
    <2> QED BY <1>0, <2>1, <2>2 DEF CInv, Calls, Controls, Ending, Started,
                                    NoMoreControls
  <1>11. CASE RequestStop
    BY <1>0, <1>11 DEF RequestStop, CInv, Calls, Controls, Ending, Started,
                       NoMoreControls
  <1>12. CASE WorkerSucceeds \/ WorkerFails
    <2>1. worker = "running" /\ (worker' = "succeeded" => stop)
      BY <1>12 DEF WorkerSucceeds, WorkerFails
    <2>2. main \notin {"stopping", "done"}
      BY <2>1 DEF CInv, SInv, Positions, Late
    <2> QED BY <1>0, <1>12, <2>1, <2>2
            DEF WorkerSucceeds, WorkerFails, CInv, Calls, Controls, Ending,
                Started, NoMoreControls
  <1>13. CASE UNCHANGED vars
    BY <1>0, <1>13 DEF vars, CInv, Calls, Controls, Ending, Started,
                       NoMoreControls
  <1> QED BY <1>1, <1>2, <1>3, <1>4, <1>5, <1>6, <1>7, <1>8, <1>9, <1>10,
             <1>11, <1>12, <1>13
          DEF Next, ServiceMain, ServiceCtrlHandlerEx, Threads

\* A stop that the worker obeys ends in STOPPED without an error: the handler
\* has reported before it lets the worker know.
THEOREM CleanStopsAreReported == Spec => []CleanStopReported
  <1>1. CInv => CleanStopReported
    BY DEF CInv, Ending, CleanStopReported
  <1> QED BY <1>1, InitCInv, NextCInv, PTL DEF Spec

-----------------------------------------------------------------------------
(* Failures that nobody asked for.                                         *)

\* From the worker's end on, ServiceMain's last report is of the failure.
FailureStored ==
  worker = "failed" /\ ~stop /\ handler = "idle" =>
    /\ main = "stopping" =>
         /\ call["main"] = StatusOf("STOPPED", 1)
         /\ \A f \in Fields \ todo["main"] : gStatus[f] = call["main"][f]
    /\ main = "done" => reported = StatusOf("STOPPED", 1)

\* Nothing can overwrite it: an idle handler stores nothing.
LEMMA StoreFailure ==
  ASSUME CInv, FailureStored, NEW t \in Threads, NEW f \in Fields, Store(t, f)
  PROVE  FailureStored'
  <1>1. /\ UNCHANGED <<main, handler, worker, stop, call, reported>>
        /\ f \in todo[t]
        /\ gStatus' = [gStatus EXCEPT ![f] = call[t][f]]
        /\ todo' = [todo EXCEPT ![t] = @ \ {f}]
    BY DEF Store
  <1>2. SUFFICES ASSUME worker = "failed", ~stop, handler = "idle", main = "stopping",
                        NEW g \in Fields \ todo'["main"]
                 PROVE  gStatus'[g] = call["main"][g]
    BY <1>1 DEF FailureStored
  <1>3. t = "main"
    BY <1>1, <1>2 DEF CInv, SInv, TypeOK, Threads
  <1>4. todo'["main"] = todo["main"] \ {f}
    BY <1>1, <1>3 DEF CInv, SInv, TypeOK, Threads
  <1>5. DOMAIN gStatus = Fields
    BY DEF CInv, SInv, TypeOK, Status, Fields
  <1>6. CASE g = f
    BY <1>1, <1>3, <1>5, <1>6
  <1>7. CASE g # f
    BY <1>1, <1>2, <1>4, <1>5, <1>7 DEF FailureStored
  <1> QED BY <1>6, <1>7

LEMMA ReportStoppedFailure ==
  ASSUME CInv, FailureStored, ReportStopped
  PROVE  FailureStored'
  <1>1. /\ UNCHANGED <<handler, worker, stop, gStatus, call, todo>>
        /\ main = "stopping" /\ main' = "done"
        /\ reported' = gStatus /\ todo["main"] = {}
    BY DEF ReportStopped, Report
  <1>2. SUFFICES ASSUME worker = "failed", ~stop, handler = "idle"
                 PROVE  gStatus = StatusOf("STOPPED", 1)
    BY <1>1 DEF FailureStored
  <1>3. call["main"] = StatusOf("STOPPED", 1) /\ \A f \in Fields : gStatus[f] = call["main"][f]
    BY <1>1, <1>2 DEF FailureStored
  <1>4. gStatus \in Status /\ call["main"] \in Status
    BY DEF CInv, SInv, TypeOK, Threads
  <1>5. /\ gStatus.state = call["main"].state
        /\ gStatus.accepts = call["main"].accepts
        /\ gStatus.win32 = call["main"].win32
        /\ gStatus.specific = call["main"].specific
    BY <1>3 DEF Fields
  <1>6. gStatus = call["main"]
    BY <1>4, <1>5 DEF Status
  <1> QED BY <1>3, <1>6

LEMMA NextFailureStored == CInv /\ FailureStored /\ [Next]_vars => FailureStored'
  <1> SUFFICES ASSUME CInv, FailureStored, [Next]_vars PROVE FailureStored'
    OBVIOUS
  <1> USE DEF FailureStored
  <1>1. CASE RegisterHandler \/ ParseArguments \/ Spawn
    <2>1. worker = "none"
      BY <1>1 DEF RegisterHandler, ParseArguments, Spawn, CInv, SInv, Positions, Early
    <2>2. worker' # "failed"
      BY <1>1, <2>1 DEF RegisterHandler, ParseArguments, Spawn
    <2> QED BY <2>2
  <1>2. CASE ReportStarting \/ ReportRunning
    <2>1. main' \notin {"stopping", "done"}
      BY <1>2 DEF ReportStarting, ReportRunning
    <2> QED BY <2>1
  <1>3. CASE Join
    <2>1. worker = "failed" => /\ call'["main"] = StatusOf("STOPPED", 1)
                               /\ todo'["main"] = Fields
      BY <1>3 DEF Join, SetServiceState, CInv, SInv, TypeOK, Threads
    <2> QED BY <1>3, <2>1 DEF Join
  <1>4. CASE ReportStopped
    BY <1>4, ReportStoppedFailure
  <1>5. ASSUME NEW t \in Threads, NEW f \in Fields, Store(t, f)
        PROVE  FailureStored'
    BY <1>5, StoreFailure
  <1>6. CASE SendStop \/ BeginStop \/ ReportStopPending
    <2>1. handler' # "idle"
      BY <1>6 DEF SendStop, BeginStop, ReportStopPending
    <2> QED BY <2>1
  <1>7. CASE RequestStop
    BY <1>7 DEF RequestStop
  <1>8. CASE WorkerSucceeds \/ WorkerFails
    <2>1. main \notin {"stopping", "done"} /\ main' = main
      BY <1>8 DEF WorkerSucceeds, WorkerFails, CInv, SInv, Positions, Late
    <2> QED BY <2>1
  <1>9. CASE UNCHANGED vars
    BY <1>9 DEF vars
  <1> QED BY <1>1, <1>2, <1>3, <1>4, <1>5, <1>6, <1>7, <1>8, <1>9
          DEF Next, ServiceMain, ServiceCtrlHandlerEx, Threads

LEMMA InitFailureStored == Init => FailureStored
  BY DEF Init, FailureStored

\* A failure that no stop accompanies is the last thing the SCM hears.
THEOREM FailuresAreReported == Spec => []FailureReported
  <1>1. FailureStored => FailureReported
    BY DEF FailureStored, FailureReported
  <1> QED BY <1>1, InitCInv, NextCInv, InitFailureStored, NextFailureStored, PTL DEF Spec

-----------------------------------------------------------------------------
(* Steps of the SCM.                                                       *)

LEMMA LaunchInit == Launch => Init'
  BY DEF Launch, Init

LEMMA RecoverySteps == RecoveryNext => [Next]_vars \/ Launch
  <1> SUFFICES ASSUME RecoveryNext PROVE [Next]_vars \/ Launch
    OBVIOUS
  <1>1. CASE Start \/ Restart
    BY <1>1 DEF Start, Restart
  <1>2. CASE ServiceStep
    BY <1>2 DEF ServiceStep, Next
  <1>3. CASE StopSent
    BY <1>3 DEF StopSent, Next
  <1>4. CASE HandlerStep
    BY <1>4 DEF HandlerStep, Next
  <1>5. CASE WorkerEnds
    BY <1>5 DEF WorkerEnds, Next
  <1>6. CASE Ended \/ Crash
    BY <1>6 DEF Ended, Crash
  <1> QED
    BY <1>1, <1>2, <1>3, <1>4, <1>5, <1>6 DEF RecoveryNext

\* What is known of one process.
ProcessInv == CInv /\ FailureStored

LEMMA InitProcessInv == Init => ProcessInv
  BY InitCInv, InitFailureStored DEF ProcessInv

LEMMA LaunchProcessInv == Launch => ProcessInv'
  <1>1. Init' => ProcessInv'
    BY InitProcessInv, PTL
  <1> QED
    BY <1>1, LaunchInit

LEMMA StepProcessInv == ProcessInv /\ [RecoveryNext]_serviceVars => ProcessInv'
  <1> SUFFICES ASSUME ProcessInv, [RecoveryNext]_serviceVars PROVE ProcessInv'
    OBVIOUS
  <1>1. CASE [Next]_vars
    BY <1>1, NextCInv, NextFailureStored DEF ProcessInv
  <1>2. CASE Launch
    BY <1>2, LaunchProcessInv
  <1>3. CASE UNCHANGED serviceVars
    BY <1>1, <1>3 DEF serviceVars
  <1> QED
    BY <1>1, <1>2, <1>3, RecoverySteps

LEMMA RecoveryProcessInv == RecoverySpec => []ProcessInv
  <1>1. RecoveryInit => ProcessInv
    BY InitProcessInv DEF RecoveryInit
  <1> QED
    BY <1>1, StepProcessInv, PTL DEF RecoverySpec

\* In every process of the service, the SCM hears STOPPED only when no worker
\* runs, and RUNNING or STOP_PENDING only once there was one.
THEOREM EveryProcessIsTruthful == RecoverySpec => []StatusMatchesWorker
  <1>1. ProcessInv => StatusMatchesWorker
    BY DEF ProcessInv, CInv, SInv, Honest, Truthful, StatusMatchesWorker
  <1> QED
    BY <1>1, RecoveryProcessInv, PTL

\* In every process, a stop that the worker obeys is reported without an
\* error, so that the SCM does not take it for a failure.
THEOREM EveryCleanStopIsReported == RecoverySpec => []CleanStopReported
  <1>1. ProcessInv => CleanStopReported
    BY DEF ProcessInv, CInv, Ending, CleanStopReported
  <1> QED
    BY <1>1, RecoveryProcessInv, PTL

\* In every process, a failure that no stop accompanies is reported as one:
\* with failureflag set, the SCM takes its recovery action.
THEOREM EveryFailureIsReported == RecoverySpec => []FailureReported
  <1>1. ProcessInv => FailureReported
    BY DEF ProcessInv, FailureStored, FailureReported
  <1> QED
    BY <1>1, RecoveryProcessInv, PTL

-----------------------------------------------------------------------------
(* The command line of the script.                                         *)

LEMMA LeastOf ==
  ASSUME NEW S \in SUBSET Int, NEW n \in S, \A m \in S : n <= m
  PROVE  Min(S) = n
  <1>1. \E x \in S : \A y \in S : x =< y
    OBVIOUS
  <1>2. Min(S) \in S /\ \A y \in S : Min(S) =< y
    BY <1>1, Zenon DEF Min
  <1>3. Min(S) \in Int /\ n \in Int /\ Min(S) <= n /\ n <= Min(S)
    BY <1>2
  <1> QED BY <1>3

\* The argument at  at  is the first that is the option, and has another after
\* it, which is its value.
FirstOption(arguments, option, alias, at) ==
  /\ Len(arguments) \in Nat /\ at \in 1 .. Len(arguments) - 1
  /\ arguments[at].option = option /\ ~arguments[at].joined
  /\ \A i \in 1 .. at - 1 : arguments[i].option \notin {option, alias}

LEMMA ValueFound ==
  ASSUME NEW arguments, NEW option, NEW alias, NEW at,
         FirstOption(arguments, option, alias, at)
  PROVE  ValueOf(arguments, option, alias) = arguments[at + 1]
  <1> USE DEF FirstOption
  <1> DEFINE Is(a) == a.option = option \/ (a.option = alias /\ ~a.joined)
             I == {i \in 1 .. Len(arguments) : Is(arguments[i])}
  <1>1. at \in I /\ I \in SUBSET Int /\ \A i \in I : at <= i
    OBVIOUS
  <1>2. I # {} /\ Min(I) = at
    <2> HIDE DEF I
    <2> QED BY <1>1, LeastOf
  <1>3. SelectInSeq(arguments, Is) = at
    BY <1>2 DEF SelectInSeq
  <1>4. ValueOf(arguments, option, alias) = ValueAt(arguments, at)
    BY <1>3 DEF ValueOf
  <1> QED BY <1>4 DEF ValueAt

\* None of its values is taken for an option.
LEMMA ReadLine ==
  ASSUME NEW domain, NEW yoke, NEW file, domain.option = "none", yoke.option = "none",
         NEW line, line = BinPath(domain, yoke, file)
  PROVE  /\ ValueOf(line, "--domain-id", "--domainid") = domain
         /\ ValueOf(line, "--yoke-id", "--yokeid") = yoke
         /\ ValueOf(line, "--config-file", "--config") = file
  <1>1. /\ Len(line) = 6
        /\ line[1] = Option("--domain-id") /\ line[2] = domain
        /\ line[3] = Option("--yoke-id") /\ line[4] = yoke
        /\ line[5] = Option("--config-file") /\ line[6] = file
    BY DEF BinPath
  <1>2. /\ line[1].option = "--domain-id" /\ ~line[1].joined /\ line[2].option = "none"
        /\ line[3].option = "--yoke-id" /\ ~line[3].joined /\ line[4].option = "none"
        /\ line[5].option = "--config-file" /\ ~line[5].joined
    BY <1>1 DEF Option
  <1>3. ValueOf(line, "--domain-id", "--domainid") = line[1 + 1]
    <2>1. Len(line) \in Nat /\ 1 \in 1 .. Len(line) - 1
      BY <1>1
    <2>2. \A k \in 1 .. 1 - 1 : line[k].option \notin {"--domain-id", "--domainid"}
      OBVIOUS
    <2>3. FirstOption(line, "--domain-id", "--domainid", 1)
      BY <1>2, <2>1, <2>2 DEF FirstOption
    <2> QED BY <2>3, ValueFound
  <1>4. ValueOf(line, "--yoke-id", "--yokeid") = line[3 + 1]
    <2>1. Len(line) \in Nat /\ 3 \in 1 .. Len(line) - 1
      BY <1>1
    <2>2. \A k \in 1 .. 3 - 1 : line[k].option \notin {"--yoke-id", "--yokeid"}
      BY <1>2
    <2>3. FirstOption(line, "--yoke-id", "--yokeid", 3)
      BY <1>2, <2>1, <2>2 DEF FirstOption
    <2> QED BY <2>3, ValueFound
  <1>5. ValueOf(line, "--config-file", "--config") = line[5 + 1]
    <2>1. Len(line) \in Nat /\ 5 \in 1 .. Len(line) - 1
      BY <1>1
    <2>2. \A k \in 1 .. 5 - 1 : line[k].option \notin {"--config-file", "--config"}
      BY <1>2
    <2>3. FirstOption(line, "--config-file", "--config", 5)
      BY <1>2, <2>1, <2>2 DEF FirstOption
    <2> QED BY <2>3, ValueFound
  <1> QED BY <1>1, <1>3, <1>4, <1>5

LEMMA ReadInstalled ==
  ASSUME NEW i \in Installed
  PROVE  ReadService(BinPath(i.domain, i.yoke, i.file)) =
           [starts |-> TRUE, domainId |-> i.domain.number,
            yokeId |-> i.yoke.number, configFile |-> i.file.text]
  <1> DEFINE line == BinPath(i.domain, i.yoke, i.file)
  <1>1. /\ ValueOf(line, "--domain-id", "--domainid") = i.domain
        /\ ValueOf(line, "--yoke-id", "--yokeid") = i.yoke
        /\ ValueOf(line, "--config-file", "--config") = i.file
    BY ReadLine, InstalledAssumption
  <1>2. i.domain.number # NoNumber /\ i.yoke.number # NoNumber /\ i.file # Absent
    BY InstalledAssumption
  <1> QED BY <1>1, <1>2, Zenon DEF ReadService

\* What a process goes by once it has read its command line: from then on, or
\* not at all.
Read ==
  main \in {"spawn", "running", "join", "stopping"} =>
    options = ReadService(binPath)

LEMMA StepRead == Read /\ [RecoveryNext]_serviceVars => Read'
  <1> SUFFICES ASSUME Read, [RecoveryNext]_serviceVars PROVE Read'
    OBVIOUS
  <1>1. CASE Start \/ Restart
    <2>1. main' = "register"
      BY <1>1 DEF Start, Restart, Launch
    <2> QED BY <2>1 DEF Read
  <1>2. CASE ServiceStep
    <2>1. binPath' = binPath
      BY <1>2 DEF ServiceStep
    <2>2. CASE main = "arguments"
      BY <1>2, <2>1, <2>2 DEF ServiceStep, Read
    <2>3. CASE main # "arguments"
      <3>1. options' = options
        BY <1>2, <2>3 DEF ServiceStep
      <3>2. main' \in {"spawn", "running", "join", "stopping"} =>
              main \in {"spawn", "running", "join", "stopping"}
        BY <1>2, <2>3 DEF ServiceStep, ServiceMain, RegisterHandler, ReportStarting,
               ParseArguments, Spawn, ReportRunning, Join, ReportStopped, Store
      <3> QED BY <2>1, <3>1, <3>2 DEF Read
    <2> QED BY <2>2, <2>3
  <1>3. CASE StopSent \/ HandlerStep \/ WorkerEnds \/ Ended \/ Crash
            \/ UNCHANGED serviceVars
    <2>1. UNCHANGED <<main, options, binPath>>
      BY <1>3 DEF StopSent, SendStop, HandlerStep, ServiceCtrlHandlerEx, BeginStop,
             ReportStopPending, RequestStop, Store, WorkerEnds, WorkerSucceeds,
             WorkerFails, Ended, Crash, scmVars, serviceVars, vars
    <2> QED BY <2>1 DEF Read
  <1> QED BY <1>1, <1>2, <1>3 DEF RecoveryNext

\* The service that the script installed runs with what the script was given,
\* in every process of it.
THEOREM ServiceStaysAsInstalled == RecoverySpec => []ServiceAsInstalled
  <1>1. RecoveryInit => Read
    BY DEF RecoveryInit, Init, Read
  <1>2. Read => ServiceAsInstalled
    BY ReadInstalled DEF Read, ServiceAsInstalled
  <1> QED BY <1>1, <1>2, StepRead, PTL DEF RecoverySpec

\* Every process of the service is type-correct: no call has stores left once
\* its status is reported.
THEOREM EveryProcessIsTyped == RecoverySpec => []TypeOK
  <1>1. ProcessInv => TypeOK
    BY DEF ProcessInv, CInv, SInv
  <1> QED BY <1>1, RecoveryProcessInv, PTL
=============================================================================
