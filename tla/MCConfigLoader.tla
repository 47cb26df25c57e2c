--------------------------- MODULE MCConfigLoader ---------------------------
(* Role files of up to three entries on two topics, one of them under two  *)
(* spellings of its type.  Between them the entries fail every check of    *)
(* the loader, and pass each of them.                                      *)
EXTENDS ConfigLoader, TLC

MCUnit == 10

Dds(topic, type, id, field) ==
  [topic |-> topic, type |-> type, idl_file |-> "idl/Gamepad.idl", id |-> id,
   field |-> field, input_min |-> Absent, input_max |-> Absent]
To(target) ==
  [to |-> target, type |-> Absent, scale |-> Absent,
   deadzone |-> Absent, invert |-> Absent, additive |-> Absent]
Entry(name, dds, node) ==
  [name |-> name, dds |-> dds, output |-> node, gamepad |-> Absent]

MCPrefix ==
  [t \in {"axis:left_x", "axis:left_y", "axis:left_trigger"} |-> "axis"]
  @@ ("button:a" :> "button") @@ ("dpad:up" :> "dpad")
  @@ [t \in {"steering", "throttle"} |-> ""]

Turret == Dds("Stick", "Gamepad::Stick_TwoAxis", 1, <<"x">>)
Fire == Dds("Fire", "Gamepad::Button", 6, <<"Button", "btnState">>)
Gas == Dds("Gas", "Gamepad_Analog", 2, <<"value">>)
LeftX == To("axis:left_x")
ButtonA == To("button:a")

Good ==
  {Entry("x", Turret, [LeftX EXCEPT !.additive = TRUE, !.deadzone = 2]),
   Entry("y", [Turret EXCEPT !.field = <<"y">>], To("axis:left_y")),
   Entry("short", [Turret EXCEPT !.type = "Stick_TwoAxis"], LeftX),
   Entry("fire", Fire, [ButtonA EXCEPT !.deadzone = 20]),
   [Entry("old", Fire, Absent) EXCEPT !.gamepad = To("dpad:up")],
   Entry("gas", [Gas EXCEPT !.input_min = 0, !.input_max = 5], To("axis:left_trigger")),
   Entry("steer", [Gas EXCEPT !.input_min = 3],
         [To("steering") EXCEPT !.scale = -10, !.invert = TRUE]),
   Entry("half", [Gas EXCEPT !.input_max = Bad], To("steering")),
   Entry("throttle", Gas, [To("throttle") EXCEPT !.type = "trigger"])}

Broken ==
  {Bad, Entry("no dds", Bad, LeftX), Entry("no output", Gas, Absent),
   Entry(Absent, Gas, LeftX), Entry("to", Gas, [LeftX EXCEPT !.to = Bad]),
   Entry("scale", Gas, [LeftX EXCEPT !.scale = Bad]),
   Entry("range", [Gas EXCEPT !.input_min = 0, !.input_max = Bad], LeftX),
   Entry("kind", Gas, [LeftX EXCEPT !.type = "stick"]),
   Entry("deadzone", Gas, [LeftX EXCEPT !.deadzone = 11]),
   Entry("field", [Turret EXCEPT !.field = <<"value">>], LeftX),
   Entry("channel", Turret, ButtonA), Entry("trigger", Fire, LeftX),
   Entry("type", [Gas EXCEPT !.type = "Analog"], LeftX)}

Section(type, host, port) == [type |-> type, host |-> host, port |-> port]
Plain == Section(Absent, Absent, Absent)
Header(h, section) == [header |-> h, output |-> section]
Headers ==
  {Header("ok", s) :
     s \in {Absent, Bad, Plain, Section("udp_protobuf", "10.0.0.2", 5000),
            Section("xbox", Absent, 65536), [Plain EXCEPT !.type = Bad],
            [Plain EXCEPT !.host = Bad], [Plain EXCEPT !.port = Bad],
            [Plain EXCEPT !.port = NoInt]}}
    \cup {Header(h, Plain) : h \in {Absent, Bad}}

Lists == UNION {[1..n -> Good] : n \in 0..3}
         \cup UNION {[1..n -> Good \cup Broken] : n \in 1..2}
MCDocuments ==
  {[mappings |-> l] @@ Header("ok", Absent) : l \in Lists}
    \cup {[mappings |-> <<e>>] @@ h : e \in Good, h \in Headers}
=============================================================================
