------------------------- MODULE MCServiceRecovery -------------------------
(***************************************************************************)
(* The script's command line, also with a file that is named like an       *)
(* option, and two that somebody typed: one with joined values and no      *)
(* file, one without a yoke id.                                            *)
(***************************************************************************)
EXTENDS ServiceRecovery

Domain0 == Word("0", 0)
Yoke7 == Word("7", 7)
File == Word("C:/dds-gamepad/driver.yaml", NoNumber)
OddFile == Word("C:/dds-gamepad/--yoke-id=9.yaml", NoNumber)

MCInstalled == [domain : {Domain0}, yoke : {Yoke7}, file : {File, OddFile}]

Joined(option, value) == [value EXCEPT !.option = option, !.joined = TRUE]

MCOtherLines ==
  {<<Joined("--yoke-id", Yoke7), Option("--domainid"), Domain0>>,
   <<Option("--domain-id"), Domain0, Option("--config-file"), File>>}
=============================================================================
