----------------------------- MODULE XusbReport -----------------------------
(***************************************************************************)
(* BuildReport of VigemClient: the XUSB_REPORT that the OutputState of an  *)
(* engine becomes.  The loop visits the channels in the order of an        *)
(* unordered_map, which is any order.  wButtons is the set of its bits.  A *)
(* product is rounded as lround does, without the rounding of the float    *)
(* product before it.                                                      *)
(***************************************************************************)
EXTENDS MappingEngine, SequencesExt

-----------------------------------------------------------------------------
(* Conversions.                                                            *)

\* std::lround(n / d): to the nearest integer, halves away from zero.
LRound(n, d) ==
  IF n < 0 THEN -((d - 2 * n) \div (2 * d)) ELSE (2 * n + d) \div (2 * d)

Int16Min == -32768
Int16Max == 32767

AxisFromNormalized(v) ==
  CASE v <= -Unit -> Int16Min
    [] v >= Unit  -> Int16Max
    [] OTHER      -> LRound(v * Int16Max, Unit)

TriggerFromNormalized(v) == LRound(Clamp(v, 0, Unit) * 255, Unit)

-----------------------------------------------------------------------------
(* The channels of the vigem_x360 backend; any other key is unknown.       *)

AxisField ==
  [key \in {"axis:left_x", "axis:left_y", "axis:right_x", "axis:right_y"} |->
     CASE key = "axis:left_x"  -> "sThumbLX"
       [] key = "axis:left_y"  -> "sThumbLY"
       [] key = "axis:right_x" -> "sThumbRX"
       [] key = "axis:right_y" -> "sThumbRY"]

TriggerField ==
  [key \in {"axis:left_trigger", "axis:right_trigger"} |->
     IF key = "axis:left_trigger" THEN "bLeftTrigger" ELSE "bRightTrigger"]

Mask ==
  [key \in {"dpad:up", "dpad:down", "dpad:left", "dpad:right",
            "button:a", "button:b", "button:x", "button:y"} |->
     CASE key = "dpad:up"    -> 1
       [] key = "dpad:down"  -> 2
       [] key = "dpad:left"  -> 4
       [] key = "dpad:right" -> 8
       [] key = "button:a"   -> 4096
       [] key = "button:b"   -> 8192
       [] key = "button:x"   -> 16384
       [] key = "button:y"   -> 32768]

Pressed(v) == 2 * v > Unit

\* XUSB_REPORT_INIT
AtRest ==
  [wButtons |-> {}, bLeftTrigger |-> 0, bRightTrigger |-> 0,
   sThumbLX |-> 0, sThumbLY |-> 0, sThumbRX |-> 0, sThumbRY |-> 0]

\* A slip: a button that is up takes every bit with it.
ShownAlone(r, key, v) ==
  CASE key \in DOMAIN TriggerField ->
         [r EXCEPT ![TriggerField[key]] = TriggerFromNormalized(v)]
    [] key \in DOMAIN AxisField ->
         [r EXCEPT ![AxisField[key]] = AxisFromNormalized(v)]
    [] key \in DOMAIN Mask ->
         [r EXCEPT !.wButtons = IF Pressed(v) THEN @ \cup {Mask[key]} ELSE {}]
    [] OTHER -> r

\* One iteration of the loop.
Shown(r, key, v) ==
  CASE key \in DOMAIN TriggerField ->
         [r EXCEPT ![TriggerField[key]] = TriggerFromNormalized(v)]
    [] key \in DOMAIN AxisField ->
         [r EXCEPT ![AxisField[key]] = AxisFromNormalized(v)]
    [] key \in DOMAIN Mask ->
         [r EXCEPT !.wButtons =
            IF Pressed(v) THEN @ \cup {Mask[key]} ELSE @ \ {Mask[key]}]
    [] OTHER -> r

\* The report when the map is visited in the order of the sequence  keys.
BuildReport(state, keys) ==
  LET after[n \in 0 .. Len(keys)] ==
        IF n = 0 THEN AtRest ELSE Shown(after[n - 1], keys[n], state[keys[n]])
  IN  after[Len(keys)]

-----------------------------------------------------------------------------
(* The property.                                                           *)

\* The wire value v is the channel value c, to the nearest of its steps; a
\* full negative deflection is one step further out.
Shows(v, c, steps) ==
  LET off == v * Unit - c * steps
  IN  2 * off \in -Unit..Unit \/ (c = -Unit /\ off = -Unit)

\* Whatever the order of the map and whatever other channels there are, each
\* control of the pad shows its own channel to the nearest step, a button its
\* own bit, and a control without a channel is at rest.
ReportShowsState ==
  Idle =>
    \A keys \in SetToSeqs(DOMAIN channels) :
      LET r == BuildReport(channels, keys)
          Value(key) == IF key \in DOMAIN channels THEN channels[key] ELSE 0
      IN  /\ \A key \in DOMAIN AxisField :
               Shows(r[AxisField[key]], Value(key), Int16Max)
          /\ \A key \in DOMAIN TriggerField :
               Shows(r[TriggerField[key]], Value(key), 255)
          /\ r.wButtons =
               {Mask[key] : key \in {k \in DOMAIN Mask : Pressed(Value(k))}}
=============================================================================
