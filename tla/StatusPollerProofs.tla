------------------------- MODULE StatusPollerProofs -------------------------
(***************************************************************************)
(* The rates --table shows are right, for any topics, any ids and any      *)
(* bounds: whichever sources throw, at whichever updates.                  *)
(***************************************************************************)
EXTENDS StatusPoller, TLAPS

Numbers == [Topics -> Int]
Window == [opening : BOOLEAN, samples : Numbers, time : Int]

\* The types the rates depend on.
Types ==
  /\ ago \in Int
  /\ totalValidSamples \in Numbers /\ lastTotal \in Numbers
  /\ since \in Window

\* After the first update the poller's own two counts, of samples and of
\* time, are those since that update, for every source alike.
Counts ==
  ~since.opening =>
    /\ ago = since.time
    /\ \A t \in Topics :
         /\ hasLastTotal[t]
         /\ totalValidSamples[t] - lastTotal[t] = since.samples[t]

\* Before it no source has a last total.
Fresh == since.opening => \A t \in Topics : ~hasLastTotal[t]

IInv == Types /\ Counts /\ Fresh /\ RateOfWindow

LEMMA InitRates == Init => IInv
  <1> SUFFICES ASSUME Init PROVE IInv
    OBVIOUS
  <1>1. Types
    BY TimesAssumption DEF Init, Types, Numbers, Window, None, Opening
  <1>2. Counts /\ Fresh
    BY DEF Init, Counts, Fresh, Opening
  <1>3. RateOfWindow
    BY DEF Init, RateOfWindow, NoStatus
  <1> QED
    BY <1>1, <1>2, <1>3 DEF IInv

\* A sample is counted by its handler and in the window alike.
LEMMA SampleRates ==
  ASSUME IInv, NEW t \in Topics, NEW id, Sample(t, id)
  PROVE  IInv'
  <1>1. /\ totalValidSamples' = [totalValidSamples EXCEPT ![t] = @ + 1]
        /\ since' = [since EXCEPT !.samples[t] = @ + 1]
        /\ UNCHANGED <<ago, lastTotal, hasLastTotal, status, window>>
    BY DEF Sample, pollerVars
  <1>2. Types
    BY DEF IInv
  <1>3. /\ since'.opening = since.opening /\ since'.time = since.time
        /\ since'.samples = [since.samples EXCEPT ![t] = @ + 1]
        /\ since' \in Window
    BY <1>1, <1>2 DEF Types, Window, Numbers
  <1>4. Types'
    BY <1>1, <1>2, <1>3 DEF Types, Numbers
  <1>5. Counts'
    <2>1. /\ totalValidSamples \in [Topics -> Int] /\ lastTotal \in [Topics -> Int]
          /\ since.samples \in [Topics -> Int]
      BY <1>2 DEF Types, Numbers, Window
    <2> QED
      BY <1>1, <1>3, <2>1 DEF IInv, Counts
  <1>6. Fresh' /\ RateOfWindow'
    BY <1>1, <1>3 DEF IInv, Fresh, RateOfWindow
  <1> QED
    BY <1>4, <1>5, <1>6 DEF IInv

\* Time passes for the poller and for the window alike.
LEMMA TickRates ==
  ASSUME IInv, Tick
  PROVE  IInv'
  <1>1. /\ ago' = ago + 1
        /\ since' = [since EXCEPT !.time = @ + 1]
        /\ UNCHANGED <<totalValidSamples, lastTotal, hasLastTotal, status, window>>
    BY DEF Tick
  <1>2. Types
    BY DEF IInv
  <1>3. /\ since'.opening = since.opening /\ since'.time = since.time + 1
        /\ since'.samples = since.samples
        /\ since' \in Window
    BY <1>1, <1>2 DEF Types, Window
  <1>4. Types'
    BY <1>1, <1>2, <1>3 DEF Types
  <1>5. Counts' /\ Fresh' /\ RateOfWindow'
    BY <1>1, <1>3 DEF IInv, Counts, Fresh, RateOfWindow
  <1> QED
    BY <1>4, <1>5 DEF IInv

\* An update shows the counts since the one before and starts them anew for
\* every source, the throwing ones included.
LEMMA PollRates ==
  ASSUME IInv, NEW throwing, Poll(throwing)
  PROVE  IInv'
  <1>1. /\ ago' = 0
        /\ status' = [t \in Topics |-> IF t \in throwing THEN Failure ELSE Rate(t)]
        /\ window' = since
        /\ UNCHANGED totalValidSamples
    BY DEF Poll
  <1>2. /\ lastTotal' = [t \in Topics |-> totalValidSamples[t]]
        /\ \A t \in Topics : hasLastTotal'[t]
    BY DEF Poll, SourcesNoted
  <1>3. /\ since'.opening = FALSE /\ since'.samples = None /\ since'.time = 0
        /\ since' = [opening |-> FALSE, samples |-> None, time |-> 0]
    BY DEF Poll
  <1>4. Types
    BY DEF IInv
  <1>5. Types'
    BY <1>1, <1>2, <1>3, <1>4 DEF Types, Numbers, Window, None
  <1>6. Counts' /\ Fresh'
    BY <1>1, <1>2, <1>3, <1>4 DEF Counts, Fresh, None, Types, Numbers
  <1>7. RateOfWindow'
    <2> SUFFICES ASSUME NEW t \in Topics, status'[t].kind = "rate"
                 PROVE  IF window'.opening THEN status'[t].samples = 0
                        ELSE /\ status'[t].samples = window'.samples[t]
                             /\ status'[t].time = window'.time
      BY DEF RateOfWindow
    <2>1. Failure.kind = "status_error"
      BY DEF Failure, NoStatus
    <2>2. status'[t] = Rate(t)
      BY <1>1, <2>1
    <2>3. CASE since.opening
      BY <1>1, <2>2, <2>3 DEF IInv, Fresh, Rate
    <2>4. CASE ~since.opening
      BY <1>1, <2>2, <2>4 DEF IInv, Counts, Rate
    <2> QED
      BY <2>3, <2>4
  <1> QED
    BY <1>5, <1>6, <1>7 DEF IInv

LEMMA StepRates == IInv /\ [Next]_vars => IInv'
  <1> SUFFICES ASSUME IInv, [Next]_vars PROVE IInv'
    OBVIOUS
  <1>1. CASE \E t \in Topics, id \in Ours \cup Foreign : Sample(t, id)
    BY <1>1, SampleRates
  <1>2. CASE Tick
    BY <1>2, TickRates
  <1>3. CASE \E throwing \in SUBSET Topics : Poll(throwing)
    BY <1>3, PollRates
  <1>4. CASE UNCHANGED vars
    BY <1>4 DEF vars, pollerVars, IInv, Types, Counts, Fresh, RateOfWindow
  <1> QED
    BY <1>1, <1>2, <1>3, <1>4 DEF Next

\* Every rate that is shown is the samples between the last two updates over
\* the time between them, whichever readers threw at either.
THEOREM RatesRight == Spec => []RateOfWindow
  <1>1. IInv => RateOfWindow
    BY DEF IInv
  <1> QED
    BY InitRates, StepRates, <1>1, PTL DEF Spec
=============================================================================
