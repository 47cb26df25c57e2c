----------------------------- MODULE Arguments -----------------------------
(***************************************************************************)
(* How the console program and the service read their command lines.       *)
(*                                                                         *)
(* An argument is an option or a word, whose option is "none".  An option  *)
(* may be joined to its value (--yoke-id=7); text is the word, the joined  *)
(* value, or the option as it is written, and number is what std::stoi     *)
(* makes of it: the number its first characters spell, or NoNumber when it *)
(* throws.                                                                 *)
(***************************************************************************)
EXTENDS Integers, SequencesExt

CONSTANT NoNumber   \* what std::stoi throws for

Word(text, number) ==
  [option |-> "none", joined |-> FALSE, text |-> text, number |-> number]
Option(name) ==
  [option |-> name, joined |-> FALSE, text |-> name, number |-> NoNumber]

-----------------------------------------------------------------------------
(* main.                                                                   *)

\* What config_path is until a word was read, and the exit of a run.
Empty == ""

Unread ==
  [exit |-> Empty, config_path |-> Empty, domain_id |-> NoNumber,
   yoke_id |-> NoNumber, log_rx_raw |-> FALSE, table_mode |-> FALSE]

Exit(read, code) == [read EXCEPT !.exit = code]

\* std::stoi, or the exit when it throws.
Number(read, field, a) ==
  IF a.number = NoNumber THEN Exit(read, "EXIT_FAILURE")
  ELSE [read EXCEPT ![field] = a.number]

\* A slip: an exit is overruled by a later argument.
ReadArgumentAnyway(read, a) ==
  CASE a.option \in {"--version", "--help"} -> Exit(read, "EXIT_SUCCESS")
    [] a.option = "--debug" -> [read EXCEPT !.log_rx_raw = TRUE]
    [] a.option = "--table" -> [read EXCEPT !.table_mode = TRUE]
    [] a.option = "none" /\ read.config_path = Empty -> [read EXCEPT !.config_path = a.text]
    [] a.option = "none" /\ read.domain_id = NoNumber -> Number(read, "domain_id", a)
    [] a.option = "none" /\ read.yoke_id = NoNumber -> Number(read, "yoke_id", a)
    [] OTHER -> Exit(read, "EXIT_FAILURE")

\* One argument; after an exit none is read.  OTHER: an option main does not
\* have, or a fourth word.
ReadArgument(read, a) ==
  CASE read.exit # Empty -> read
    [] read.exit = Empty /\ a.option \in {"--version", "--help"} ->
         Exit(read, "EXIT_SUCCESS")
    [] read.exit = Empty /\ a.option = "--debug" -> [read EXCEPT !.log_rx_raw = TRUE]
    [] read.exit = Empty /\ a.option = "--table" -> [read EXCEPT !.table_mode = TRUE]
    [] read.exit = Empty /\ a.option = "none" /\ read.config_path = Empty ->
         [read EXCEPT !.config_path = a.text]
    [] read.exit = Empty /\ a.option = "none" /\ read.config_path # Empty
       /\ read.domain_id = NoNumber -> Number(read, "domain_id", a)
    [] read.exit = Empty /\ a.option = "none" /\ read.config_path # Empty
       /\ read.domain_id # NoNumber /\ read.yoke_id = NoNumber ->
         Number(read, "yoke_id", a)
    [] OTHER -> Exit(read, "EXIT_FAILURE")

\* The loop of main over its arguments.
ReadAll(arguments) ==
  LET after[n \in 0 .. Len(arguments)] ==
        IF n = 0 THEN Unread ELSE ReadArgument(after[n - 1], arguments[n])
  IN  after[Len(arguments)]

\* What the arguments have to give for a run.
Complete(read) ==
  /\ read.config_path # Empty /\ read.domain_id # NoNumber
  /\ read.yoke_id # NoNumber
  /\ ~(read.table_mode /\ read.log_rx_raw)

\* main up to the run.
ReadConsole(arguments) ==
  LET read == ReadAll(arguments)
  IN  IF read.exit # Empty \/ (arguments # <<>> /\ Complete(read))
      THEN read ELSE Exit(read, "EXIT_FAILURE")

-----------------------------------------------------------------------------
(* ServiceMain.                                                            *)

Absent == Word("absent", NoNumber)

\* A slip: off by one.
ValueAtSelf(arguments, i) == arguments[i]

\* The value of the option at i: its own, or the next argument, whatever
\* that is, or none.
ValueAt(arguments, i) ==
  CASE arguments[i].joined -> arguments[i]
    [] ~arguments[i].joined /\ i < Len(arguments) -> arguments[i + 1]
    [] OTHER -> Absent

\* Parse...FromArgs: the first argument that is the option decides; its
\* other spelling, alias, takes no joined value.
ValueOf(arguments, option, alias) ==
  LET Is(a) == a.option = option \/ (a.option = alias /\ ~a.joined)
      at == SelectInSeq(arguments, Is)
  IN  IF at = 0 THEN Absent ELSE ValueAt(arguments, at)

Unstarted ==
  [starts |-> FALSE, domainId |-> NoNumber, yokeId |-> NoNumber, configFile |-> ""]

\* ServiceMain up to the worker: no id, no start; no file, driver.yaml.
ReadService(arguments) ==
  LET domain == ValueOf(arguments, "--domain-id", "--domainid").number
      yoke == ValueOf(arguments, "--yoke-id", "--yokeid").number
      file == ValueOf(arguments, "--config-file", "--config")
  IN  [starts |-> domain # NoNumber /\ yoke # NoNumber,
       domainId |-> domain, yokeId |-> yoke,
       configFile |-> IF file = Absent THEN "config/driver.yaml" ELSE file.text]

-----------------------------------------------------------------------------

\* The command line that install_service.ps1 writes.
BinPath(domain, yoke, file) ==
  <<Option("--domain-id"), domain, Option("--yoke-id"), yoke,
    Option("--config-file"), file>>
=============================================================================
