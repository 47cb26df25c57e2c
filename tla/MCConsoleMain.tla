--------------------------- MODULE MCConsoleMain ---------------------------
(***************************************************************************)
(* Arguments of every kind main tells apart: its options, one it does not  *)
(* have, an empty word, words that are numbers, that start like one and    *)
(* that are none.                                                          *)
(***************************************************************************)
EXTENDS ConsoleMain

MCArguments ==
  {Word("", NoNumber), Word("driver.yaml", NoNumber),
   Word("7", 7), Word("8x", 8)}
  \cup {Option("--help"), Option("--debug"), Option("--table"), Option("-x")}
=============================================================================
