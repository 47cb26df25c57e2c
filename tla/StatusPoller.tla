---------------------------- MODULE StatusPoller ----------------------------
(***************************************************************************)
(* StatusPoller: the status line of each topic in the --table dashboard,   *)
(* from the counters ProcessSamples keeps.  Time is counted from the last  *)
(* update and in units of which Period makes 500 ms.                       *)
(***************************************************************************)
EXTENDS Integers, FiniteSets

CONSTANTS
  Topics,     \* the sources: one for each subscription
  Ours,       \* the bus ids of our yoke
  Foreign,    \* the bus ids of other yokes
  Period,     \* 500 ms
  HeadStart,  \* how long before its construction lastUpdate_ lies: 10 s
  MaxAgo,     \* bound on the time that passes without an update
  MaxTotal    \* bound on a topic's samples

ASSUME TimesAssumption ==
  /\ Period \in Nat \ {0} /\ HeadStart \in Nat /\ MaxAgo \in Nat
  /\ Period <= HeadStart /\ MaxTotal \in Nat
ASSUME IdsAssumption == Ours \cap Foreign = {}

VARIABLES
  ago,                \* now - lastUpdate_
  totalValidSamples,  \* of each topic's handler
  seenIds,            \* of each topic's handler
  lastTotal,          \* lastTotalValidSamples of each source
  hasLastTotal,       \* of each source
  status,             \* what SetTopicStatus last showed of each topic
  since,              \* history: the samples and the time since the last update
  window              \* history: the same of the time before it

pollerVars == <<ago, lastTotal, hasLastTotal, status, window>>
vars == <<pollerVars, totalValidSamples, seenIds, since>>

Samples == [Topics -> 0 .. MaxTotal]
None == [t \in Topics |-> 0]
Opening == [opening |-> TRUE, samples |-> None, time |-> 0]

NoStatus == [kind |-> "none", samples |-> 0, time |-> 0, ids |-> 0]

Init ==
  /\ ago = HeadStart
  /\ totalValidSamples = None
  /\ seenIds = [t \in Topics |-> {}]
  /\ lastTotal = None
  /\ hasLastTotal = [t \in Topics |-> FALSE]
  /\ status = [t \in Topics |-> NoStatus]
  /\ since = Opening
  /\ window = Opening

\* ProcessSamples counts every valid sample, but notes only our yoke's ids.
Sample(t, id) ==
  /\ totalValidSamples[t] < MaxTotal
  /\ totalValidSamples' = [totalValidSamples EXCEPT ![t] = @ + 1]
  /\ seenIds' = [seenIds EXCEPT ![t] = @ \cup ({id} \cap Ours)]
  /\ since' = [since EXCEPT !.samples[t] = @ + 1]
  /\ UNCHANGED pollerVars

\* Time passes, mostly in the WaitSet's wait.
Tick ==
  /\ ago < MaxAgo
  /\ ago' = ago + 1
  /\ since' = [since EXCEPT !.time = @ + 1]
  /\ UNCHANGED <<lastTotal, hasLastTotal, status, window, totalValidSamples,
                 seenIds>>

\* A slip: a source that throws is left before its total is noted.
SourcesNotedUnthrown(throwing) == Topics \ throwing

\* The sources whose lastTotalValidSamples is set: the total is noted
\* before the reader's status is asked for, which may throw.
SourcesNoted(throwing) == Topics

\* The rate is delta / dt, divided by the number of ids, at least 1; the
\* first total has nothing to be compared with.
Rate(t) ==
  [kind |-> "rate",
   samples |-> IF hasLastTotal[t] THEN totalValidSamples[t] - lastTotal[t] ELSE 0,
   time |-> ago,
   ids |-> Cardinality(seenIds[t])]

Failure == [NoStatus EXCEPT !.kind = "status_error"]

\* Poll, when 500 ms have passed: one status for each source, those of the
\* throwing ones an error; lastUpdate_ = now, whatever the sources did.
Poll(throwing) ==
  /\ ago >= Period
  /\ ago' = 0
  /\ status' = [t \in Topics |-> IF t \in throwing THEN Failure ELSE Rate(t)]
  /\ lastTotal' = [t \in Topics |->
       IF t \in SourcesNoted(throwing) THEN totalValidSamples[t] ELSE lastTotal[t]]
  /\ hasLastTotal' = [t \in Topics |->
       t \in SourcesNoted(throwing) \/ hasLastTotal[t]]
  /\ window' = since
  /\ since' = [opening |-> FALSE, samples |-> None, time |-> 0]
  /\ UNCHANGED <<totalValidSamples, seenIds>>

Next ==
  \/ \E t \in Topics, id \in Ours \cup Foreign : Sample(t, id)
  \/ Tick
  \/ \E throwing \in SUBSET Topics : Poll(throwing)

Spec == Init /\ [][Next]_vars

-----------------------------------------------------------------------------
(* Properties.                                                             *)

\* A rate that is shown is the number of valid samples between the last two
\* updates over the time between them, also when a source, this one or
\* another, threw at the update before: a failed query of the reader loses
\* no samples, counts none twice and stretches no time.  The first update,
\* which has nothing to compare with, shows 0.
RateOfWindow ==
  \A t \in Topics :
    status[t].kind = "rate" =>
      IF window.opening THEN status[t].samples = 0
      ELSE /\ status[t].samples = window.samples[t]
           /\ status[t].time = window.time
=============================================================================
