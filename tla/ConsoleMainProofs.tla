-------------------------- MODULE ConsoleMainProofs --------------------------
(***************************************************************************)
(* Proofs about ConsoleMain, for any arguments and any number of events:   *)
(* no event cuts a run, the handler uses the StopSource only while it may, *)
(* or after the run is over, and a run is given what the usage text asks   *)
(* for, with every other command line refused.                             *)
(***************************************************************************)
EXTENDS ConsoleMain, TLAPS, WellFoundedInduction, FiniteSetTheorems

-----------------------------------------------------------------------------
(* The invariant.  RunIsNeverCut looks at a run only; what the handler     *)
(* threads of earlier moments are doing decides whether it is kept.        *)

\* Where main is says what it has installed, published and constructed.
MainOwns ==
  /\ registered <=> pc \in {"run", "unregister"}
  /\ gStopSource <=> pc \in {"register", "run", "unregister", "reset"}
  /\ stopSource = "alive"
       <=> pc \in {"publish", "register", "run", "unregister", "reset", "destroy"}

\* Where main is before it has installed the handler.
Unhandled == {"arguments", "read", "publish", "register"}

\* A handler thread exists only once the handler was installed.
HandlersFollow ==
  \A e \in Events : handler[e] \in {"check", "call"} => pc \notin Unhandled

\* The process ends by an event only where no handler is installed, or where
\* the one that was has nothing to stop; and only then is the stop misused.
EndsOutsideRun ==
  /\ pc \in {"run", "unregister"} => process = "running"
  /\ misused => pc \in {"destroy", "return", "done"}

\* Where main and the handler threads can be.
Positions ==
  /\ pc \in {"arguments", "read", "publish", "register", "run", "unregister",
             "reset", "destroy", "return", "done"}
  /\ handler \in [Events -> {"none", "check", "call", "done"}]

RunInv == Positions /\ MainOwns /\ HandlersFollow /\ EndsOutsideRun

LEMMA InitRunInv == Init => RunInv
  BY DEF Init, RunInv, Positions, MainOwns, HandlersFollow, EndsOutsideRun,
         Unhandled

\* main moves on: what it owns changes with where it is.
LEMMA MainKeeps == RunInv /\ Main => RunInv'
  <1> SUFFICES ASSUME RunInv, Main PROVE RunInv'
    OBVIOUS
  <1> USE DEF RunInv, Positions, MainOwns, HandlersFollow, EndsOutsideRun,
              Unhandled, Step
  <1>1. CASE ReadArguments
    BY <1>1 DEF ReadArguments
  <1>2. CASE ReturnEarly
    BY <1>2 DEF ReturnEarly, Exits
  <1>3. CASE Construct
    BY <1>3 DEF Construct
  <1>4. CASE Publish
    BY <1>4 DEF Publish
  <1>5. CASE Register
    BY <1>5 DEF Register
  <1>6. CASE RunReturns
    BY <1>6 DEF RunReturns
  <1>7. CASE Unregister
    BY <1>7 DEF Unregister
  <1>8. CASE Reset
    BY <1>8 DEF Reset
  <1>9. CASE Destroy
    BY <1>9 DEF Destroy
  <1>10. CASE Return
    BY <1>10 DEF Return, Exits
  <1> QED
    BY <1>1, <1>2, <1>3, <1>4, <1>5, <1>6, <1>7, <1>8, <1>9, <1>10 DEF Main

\* An event, or a step of its handler: it ends the process only when no run
\* is on, and misses the StopSource only when main is past taking it away.
LEMMA EventKeeps ==
  ASSUME RunInv, NEW e \in Events, Event(e) \/ Handle(e)
  PROVE  RunInv'
  <1> USE DEF RunInv, Positions, HandlersFollow, Unhandled
  <1>1. CASE Event(e)
    <2>1. UNCHANGED <<pc, stopSource, gStopSource, registered, misused>>
      BY <1>1 DEF Event
    <2>2. CASE registered
      <3>1. handler' = [handler EXCEPT ![e] = "check"] /\ process' = process
        BY <1>1, <2>2 DEF Event
      <3>2. pc \in {"run", "unregister"}
        BY <2>2 DEF MainOwns
      <3> QED
        BY <2>1, <3>1, <3>2 DEF MainOwns, EndsOutsideRun
    <2>3. CASE ~registered
      <3>1. handler' = [handler EXCEPT ![e] = "done"]
        BY <1>1, <2>3 DEF Event
      <3>2. pc \notin {"run", "unregister"}
        BY <2>3 DEF MainOwns
      <3> QED
        BY <2>1, <3>1, <3>2 DEF MainOwns, EndsOutsideRun
    <2> QED
      BY <2>2, <2>3
  <1>2. CASE Check(e)
    <2>1. UNCHANGED <<pc, stopSource, gStopSource, registered, misused>>
          /\ handler[e] = "check"
      BY <1>2 DEF Check
    <2>2. CASE gStopSource
      BY <1>2, <2>1, <2>2 DEF Check, MainOwns, EndsOutsideRun
    <2>3. CASE ~gStopSource
      <3>1. pc \notin {"run", "unregister"}
        BY <2>3 DEF MainOwns
      <3>2. handler' = [handler EXCEPT ![e] = "done"]
        BY <1>2, <2>3 DEF Check
      <3> QED
        BY <2>1, <3>1, <3>2 DEF MainOwns, EndsOutsideRun
    <2> QED
      BY <2>2, <2>3
  <1>3. CASE Call(e)
    <2>1. /\ UNCHANGED <<pc, stopSource, gStopSource, registered, process>>
          /\ handler[e] = "call"
          /\ handler' = [handler EXCEPT ![e] = "done"]
      BY <1>3 DEF Call
    <2>2. PICK pointer \in {TRUE, gStopSource} :
            IF pointer /\ stopSource = "alive"
            THEN stop' = TRUE /\ UNCHANGED misused
            ELSE misused' = TRUE /\ UNCHANGED stop
      BY <1>3 DEF Call
    <2>3. CASE pointer /\ stopSource = "alive"
      BY <2>1, <2>2, <2>3 DEF MainOwns, EndsOutsideRun
    <2>4. CASE ~(pointer /\ stopSource = "alive")
      <3>1. ~gStopSource \/ stopSource # "alive"
        BY <2>2, <2>4
      <3>2. pc \in {"destroy", "return", "done"}
        BY <2>1, <3>1 DEF MainOwns
      <3> QED
        BY <2>1, <3>2 DEF MainOwns, EndsOutsideRun
    <2> QED
      BY <2>3, <2>4
  <1> QED
    BY <1>1, <1>2, <1>3 DEF Handle

\* While Run works no event ends the process in the middle, with the pad
\* plugged in, whatever the order of main's steps and the handlers'.
THEOREM NoEventCutsRun == Spec => []RunIsNeverCut
  <1>1. RunInv /\ [Next]_vars => RunInv'
    <2> SUFFICES ASSUME RunInv, [Next]_vars PROVE RunInv'
      OBVIOUS
    <2>1. CASE Main
      BY <2>1, MainKeeps
    <2>2. ASSUME NEW e \in Events, Event(e) \/ Handle(e) PROVE RunInv'
      BY <2>2, EventKeeps
    <2>3. CASE UNCHANGED vars
      BY <2>3 DEF vars, RunInv, Positions, MainOwns, HandlersFollow, EndsOutsideRun
    <2> QED
      BY <2>1, <2>2, <2>3 DEF Next, Stopped
  <1>2. RunInv => RunIsNeverCut
    BY DEF RunInv, MainOwns, EndsOutsideRun, RunIsNeverCut
  <1> QED
    BY <1>1, <1>2, InitRunInv, PTL DEF Spec

-----------------------------------------------------------------------------
(* The arguments.  The loop of main is a recursive function over them.     *)
(* Understood relates what it has read after n arguments to the usage text *)
(* for those n: Meant says whether it has ended and how, and Kept, while   *)
(* it has not, what the fields hold.                                       *)

Field == {"exit", "config_path", "domain_id", "yoke_id", "log_rx_raw", "table_mode"}

\* It ends as the first n arguments say.
Meant(r, n) ==
  /\ r = [f \in Field |-> r[f]]
  /\ r.exit \in {Empty, "EXIT_SUCCESS", "EXIT_FAILURE"}
  /\ r.exit = Empty <=> Sound(n) /\ \A i \in 1 .. n : ~Ends(i)
  /\ r.exit = "EXIT_SUCCESS"
       <=> \E i \in 1 .. n : Ends(i) /\ Sound(i - 1) /\ \A j \in 1 .. i - 1 : ~Ends(j)

\* The fields hold the words by their places, and the options.
Kept(r, n) ==
  /\ Place(n) \in 0 .. 3
  /\ r.config_path = Empty <=> Place(n) = 0
  /\ r.domain_id = NoNumber <=> Place(n) <= 1
  /\ r.yoke_id = NoNumber <=> Place(n) <= 2
  /\ r.log_rx_raw <=> \E i \in 1 .. n : args[i].option = "--debug"
  /\ r.table_mode <=> \E i \in 1 .. n : args[i].option = "--table"
  /\ \A i \in Words(n) :
       /\ Place(i) = 1 => r.config_path = args[i].text
       /\ Place(i) = 2 => r.domain_id = args[i].number
       /\ Place(i) = 3 => r.yoke_id = args[i].number

Flags(r) == r.log_rx_raw \in BOOLEAN /\ r.table_mode \in BOOLEAN

Understood(r, n) == Meant(r, n) /\ Flags(r) /\ (r.exit = Empty => Kept(r, n))

LEMMA Codes == Empty # "EXIT_SUCCESS" /\ Empty # "EXIT_FAILURE"
  BY Zenon DEF Empty

\* The words among n + 1 arguments are those among n, and the last if it is
\* one.
LEMMA WordsGrow ==
  ASSUME NEW n \in Nat
  PROVE  /\ Words(n) \subseteq 1 .. n
         /\ n + 1 \notin Words(n)
         /\ Words(n + 1) = IF n + 1 \in Words(n + 1) THEN Words(n) \cup {n + 1}
                           ELSE Words(n)
         /\ \A i \in 1 .. n : Words(i) \subseteq Words(n) /\ (i \in Words(n) <=> i \in Words(i))
  BY DEF Words

LEMMA PlaceGrows ==
  ASSUME NEW n \in Nat
  PROVE  /\ IsFiniteSet(Words(n))
         /\ Place(n) \in Nat
         /\ Place(n + 1) = IF n + 1 \in Words(n + 1) THEN Place(n) + 1 ELSE Place(n)
         /\ Place(n) = 0 <=> Words(n) = {}
  <1>1. IsFiniteSet(1 .. n)
    BY FS_Interval
  <1>2. IsFiniteSet(Words(n)) /\ n + 1 \notin Words(n)
    BY <1>1, WordsGrow, FS_Subset
  <1>3. Cardinality(Words(n)) \in Nat /\ (Cardinality(Words(n)) = 0 <=> Words(n) = {})
    BY <1>2, FS_CardinalityType, FS_EmptySet
  <1>4. Cardinality(Words(n) \cup {n + 1}) = Cardinality(Words(n)) + 1
    BY <1>2, FS_AddElement
  <1>5. CASE n + 1 \in Words(n + 1)
    <2>1. Words(n + 1) = Words(n) \cup {n + 1}
      BY <1>5, WordsGrow
    <2> QED BY <1>2, <1>3, <1>4, <1>5, <2>1 DEF Place
  <1>6. CASE n + 1 \notin Words(n + 1)
    <2>1. Words(n + 1) = Words(n)
      BY <1>6, WordsGrow
    <2> QED BY <1>2, <1>3, <1>6, <2>1 DEF Place
  <1> QED BY <1>5, <1>6

\* Before any argument nothing is read.
LEMMA NothingMeant == Understood(Unread, 0)
  <1>1. Words(0) = {} /\ Place(0) = 0
    <2>1. Words(0) = {}
      BY DEF Words
    <2> QED BY <2>1, PlaceGrows
  <1>2. Unread = [f \in Field |-> Unread[f]]
    BY DEF Unread, Field
  <1>3. /\ Unread.exit = Empty /\ Unread.config_path = Empty
        /\ Unread.domain_id = NoNumber /\ Unread.yoke_id = NoNumber
        /\ Unread.log_rx_raw = FALSE /\ Unread.table_mode = FALSE
    BY DEF Unread
  <1>4. Sound(0)
    BY <1>1 DEF Sound
  <1>5. 1 .. 0 = {}
    OBVIOUS
  <1>6. Meant(Unread, 0)
    BY <1>2, <1>3, <1>4, <1>5, Codes, Zenon DEF Meant
  <1>7. Kept(Unread, 0)
    BY <1>1, <1>3, <1>5 DEF Kept
  <1> QED BY <1>3, <1>6, <1>7 DEF Understood, Flags

\* What is sound grows with the arguments.
LEMMA SoundGrows ==
  ASSUME NEW n \in Nat
  PROVE  Sound(n + 1) <=>
           /\ Sound(n)
           /\ args[n + 1].option \in {"none", "--debug", "--table", "--version", "--help"}
           /\ n + 1 \in Words(n + 1) =>
                Place(n + 1) = 1 \/ (Place(n + 1) <= 3 /\ args[n + 1].number # NoNumber)
  <1>1. 1 .. n + 1 = (1 .. n) \cup {n + 1}
    OBVIOUS
  <1>2. \A i : i \in Words(n + 1) <=> i \in Words(n) \/ (i = n + 1 /\ n + 1 \in Words(n + 1))
    BY WordsGrow
  <1> QED BY <1>1, <1>2 DEF Sound

\* An argument after an exit changes nothing.
LEMMA EndedStays ==
  ASSUME NEW n \in Nat, NEW r, Understood(r, n), r.exit # Empty
  PROVE  Understood(r, n + 1)
  <1>1. 1 .. n + 1 = (1 .. n) \cup {n + 1} /\ n + 1 - 1 = n
    OBVIOUS
  <1>2. ~(Sound(n) /\ \A i \in 1 .. n : ~Ends(i))
    BY DEF Understood, Meant
  <1>3. ~(Sound(n + 1) /\ \A i \in 1 .. n + 1 : ~Ends(i))
    BY <1>1, <1>2, SoundGrows
  <1>4. (\E i \in 1 .. n + 1 : Ends(i) /\ Sound(i - 1) /\ \A j \in 1 .. i - 1 : ~Ends(j))
        <=> \E i \in 1 .. n : Ends(i) /\ Sound(i - 1) /\ \A j \in 1 .. i - 1 : ~Ends(j)
    BY <1>1, <1>2
  <1> QED BY <1>3, <1>4 DEF Understood, Meant

\* An exit: with success for --version and --help, and otherwise because
\* the argument is wrong.
LEMMA ExitIsMeant ==
  ASSUME NEW n \in Nat, NEW r, Understood(r, n), r.exit = Empty,
         NEW code \in {"EXIT_SUCCESS", "EXIT_FAILURE"},
         code = "EXIT_SUCCESS" <=> Ends(n + 1),
         Ends(n + 1) \/ ~Sound(n + 1)
  PROVE  Understood(Exit(r, code), n + 1)
  <1>1. 1 .. n + 1 = (1 .. n) \cup {n + 1} /\ n + 1 - 1 = n
    OBVIOUS
  <1>2. Sound(n) /\ \A i \in 1 .. n : ~Ends(i)
    BY DEF Understood, Meant
  <1> DEFINE e == Exit(r, code)
  <1>3. /\ e = [f \in Field |-> e[f]] /\ e.exit = code
        /\ \A f \in Field : f # "exit" => e[f] = r[f]
    BY DEF Understood, Meant, Field, Exit
  <1>4. e.log_rx_raw = r.log_rx_raw /\ e.table_mode = r.table_mode
    BY <1>3 DEF Field
  <1> HIDE DEF e
  <1>5. (\E i \in 1 .. n + 1 : Ends(i) /\ Sound(i - 1) /\ \A j \in 1 .. i - 1 : ~Ends(j))
        <=> Ends(n + 1)
    BY <1>1, <1>2
  <1>6. ~(Sound(n + 1) /\ \A i \in 1 .. n + 1 : ~Ends(i))
    BY <1>1
  <1>7. Understood(e, n + 1)
    BY <1>3, <1>4, <1>5, <1>6, Codes DEF Understood, Meant, Flags
  <1> QED BY <1>7 DEF e

\* An argument that is right and does not end: what is read goes on.
LEMMA GoesOn ==
  ASSUME NEW n \in Nat, NEW r, Understood(r, n), r.exit = Empty,
         NEW s, s = [f \in Field |-> s[f]], s.exit = Empty, Flags(s),
         Sound(n + 1), ~Ends(n + 1), Kept(s, n + 1)
  PROVE  Understood(s, n + 1)
  <1>1. 1 .. n + 1 = (1 .. n) \cup {n + 1} /\ n + 1 - 1 = n
    OBVIOUS
  <1>2. Sound(n) /\ \A i \in 1 .. n : ~Ends(i)
    BY DEF Understood, Meant
  <1>3. Sound(n + 1) /\ \A i \in 1 .. n + 1 : ~Ends(i)
    BY <1>1, <1>2
  <1> QED BY <1>3, Codes DEF Understood, Meant

-----------------------------------------------------------------------------
(* One argument.                                                           *)

\* No word: the words and their places are as they were.
LEMMA NotAWord ==
  ASSUME NEW n \in Nat, n + 1 \notin Words(n + 1)
  PROVE  Words(n + 1) = Words(n) /\ Place(n + 1) = Place(n)
  BY WordsGrow, PlaceGrows

\* --debug or --table.
LEMMA FlagIsMeant ==
  ASSUME NEW n \in Nat, NEW r, Understood(r, n), r.exit = Empty,
         args[n + 1].option \in {"--debug", "--table"}
  PROVE  Understood(ReadArgument(r, args[n + 1]), n + 1)
  <1> DEFINE s == ReadArgument(r, args[n + 1])
  <1>1. 1 .. n + 1 = (1 .. n) \cup {n + 1}
    OBVIOUS
  <1>2. n + 1 \notin Words(n + 1)
    BY DEF Words
  <1>3. Words(n + 1) = Words(n) /\ Place(n + 1) = Place(n)
    BY <1>2, NotAWord
  <1>4. ~Ends(n + 1) /\ Sound(n + 1)
    BY <1>2, SoundGrows DEF Ends, Understood, Meant
  <1>5. s = IF args[n + 1].option = "--debug" THEN [r EXCEPT !.log_rx_raw = TRUE]
            ELSE [r EXCEPT !.table_mode = TRUE]
    BY DEF ReadArgument
  <1>6. /\ s = [f \in Field |-> s[f]]
        /\ \A f \in Field \ {"log_rx_raw", "table_mode"} : s[f] = r[f]
        /\ s.log_rx_raw = (r.log_rx_raw \/ args[n + 1].option = "--debug")
        /\ s.table_mode = (r.table_mode \/ args[n + 1].option = "--table")
    BY <1>5 DEF Understood, Meant, Flags, Field
  <1>7. /\ s.exit = Empty /\ s.config_path = r.config_path
        /\ s.domain_id = r.domain_id /\ s.yoke_id = r.yoke_id
    BY <1>6 DEF Field
  <1> HIDE DEF s
  <1>8. Kept(r, n)
    BY DEF Understood
  <1>9. /\ s.log_rx_raw <=> \E i \in 1 .. n + 1 : args[i].option = "--debug"
        /\ s.table_mode <=> \E i \in 1 .. n + 1 : args[i].option = "--table"
    BY <1>1, <1>6, <1>8 DEF Kept
  <1>10. Kept(s, n + 1)
    BY <1>3, <1>7, <1>8, <1>9 DEF Kept
  <1>11. Flags(s)
    BY <1>6 DEF Flags
  <1>12. Understood(s, n + 1)
    BY <1>4, <1>6, <1>7, <1>10, <1>11, GoesOn
  <1> QED BY <1>12 DEF s

\* An empty word before any that is not is passed over.
LEMMA EmptyIsPassed ==
  ASSUME NEW n \in Nat, NEW r, Understood(r, n), r.exit = Empty,
         args[n + 1].option = "none", args[n + 1].text = Empty, Place(n) = 0
  PROVE  Understood(ReadArgument(r, args[n + 1]), n + 1)
  <1> DEFINE s == ReadArgument(r, args[n + 1])
  <1>1. 1 .. n + 1 = (1 .. n) \cup {n + 1}
    OBVIOUS
  <1>2. Words(n) = {}
    BY PlaceGrows
  <1>3. n + 1 \notin Words(n + 1)
    BY <1>1, <1>2 DEF Words
  <1>4. Words(n + 1) = Words(n) /\ Place(n + 1) = Place(n)
    BY <1>3, NotAWord
  <1>5. ~Ends(n + 1) /\ Sound(n + 1)
    BY <1>3, SoundGrows DEF Ends, Understood, Meant
  <1>6. Kept(r, n) /\ r.config_path = Empty
    BY DEF Understood, Kept
  <1>7. s = [r EXCEPT !.config_path = Empty]
    BY <1>6 DEF ReadArgument
  <1>8. s = r
    BY <1>6, <1>7 DEF Understood, Meant, Field
  <1> HIDE DEF s
  <1>9. Kept(s, n + 1)
    BY <1>1, <1>4, <1>6, <1>8 DEF Kept
  <1>10. Understood(s, n + 1)
    BY <1>5, <1>8, <1>9, GoesOn DEF Understood, Meant
  <1> QED BY <1>10 DEF s

\* A word that is one of the three.
LEMMA WordIsMeant ==
  ASSUME NEW n \in Nat, NEW r, Understood(r, n), r.exit = Empty,
         args[n + 1].option = "none", args[n + 1].text # Empty \/ Place(n) # 0
  PROVE  Understood(ReadArgument(r, args[n + 1]), n + 1)
  <1> DEFINE a == args[n + 1]
             s == ReadArgument(r, a)
  <1>1. 1 .. n + 1 = (1 .. n) \cup {n + 1}
    OBVIOUS
  <1>2. n + 1 \in Words(n + 1)
    <2>1. CASE a.text # Empty
      BY <2>1 DEF Words
    <2>2. CASE Place(n) # 0
      <3>1. PICK i : i \in Words(n)
        BY <2>2, PlaceGrows
      <3> QED BY <1>1, <3>1 DEF Words
    <2> QED BY <2>1, <2>2
  <1>3. Words(n + 1) = Words(n) \cup {n + 1} /\ Place(n + 1) = Place(n) + 1
    BY <1>2, WordsGrow, PlaceGrows
  <1>4. Kept(r, n) /\ ~Ends(n + 1) /\ Sound(n)
    BY DEF Understood, Ends, Meant
  <1>5. \A i \in Words(n) : Place(i) \in Nat /\ Place(i) >= 1 /\ Place(i) <= Place(n)
    <2> SUFFICES ASSUME NEW i \in Words(n)
                 PROVE  Place(i) \in Nat /\ Place(i) >= 1 /\ Place(i) <= Place(n)
      OBVIOUS
    <2>1. i \in 1 .. n /\ i \in Words(i) /\ Words(i) \subseteq Words(n)
      BY WordsGrow
    <2>2. Place(i) \in Nat /\ (Place(i) = 0 <=> Words(i) = {})
      BY <2>1, PlaceGrows
    <2>3. Place(i) <= Place(n)
      BY <2>1, PlaceGrows, FS_Subset DEF Place
    <2> QED BY <2>1, <2>2, <2>3
  <1>6. Place(n) \in 0 .. 3
    BY <1>4 DEF Kept
  <1>7. \A f \in Field : \A v : LET t == [r EXCEPT ![f] = v]
                               IN  /\ t = [g \in Field |-> t[g]] /\ t[f] = v
                                   /\ \A g \in Field \ {f} : t[g] = r[g]
    BY DEF Understood, Meant
  <1>8. (\E i \in 1 .. n + 1 : args[i].option = "--debug")
          <=> \E i \in 1 .. n : args[i].option = "--debug"
    BY <1>1
  <1>9. (\E i \in 1 .. n + 1 : args[i].option = "--table")
          <=> \E i \in 1 .. n : args[i].option = "--table"
    BY <1>1
  <1>10. CASE Place(n) = 0
    <2>1. r.config_path = Empty /\ s = [r EXCEPT !.config_path = a.text]
      BY <1>4, <1>10 DEF Kept, ReadArgument
    <2>2. Words(n) = {} /\ a.text # Empty
      BY <1>10, PlaceGrows
    <2> HIDE DEF s
    <2>3. /\ s = [f \in Field |-> s[f]] /\ s.exit = Empty /\ s.config_path = a.text
          /\ s.domain_id = r.domain_id /\ s.yoke_id = r.yoke_id
          /\ s.log_rx_raw = r.log_rx_raw /\ s.table_mode = r.table_mode
      BY <1>4, <2>1 DEF Field, Understood, Meant
    <2>4. Kept(s, n + 1)
      BY <1>3, <1>4, <1>8, <1>9, <1>10, <2>2, <2>3 DEF Kept
    <2>5. Sound(n + 1)
      BY <1>3, <1>4, <1>10, SoundGrows
    <2>6. Flags(s)
      BY <2>3 DEF Flags, Understood
    <2>7. Understood(s, n + 1)
      BY <1>4, <2>3, <2>4, <2>5, <2>6, GoesOn
    <2> QED BY <2>7 DEF s
  <1>11. CASE Place(n) = 1
    <2>1. r.config_path # Empty /\ r.domain_id = NoNumber
      BY <1>4, <1>11 DEF Kept
    <2>2. s = Number(r, "domain_id", a)
      BY <2>1 DEF ReadArgument
    <2>3. CASE a.number = NoNumber
      <3>1. s = Exit(r, "EXIT_FAILURE")
        BY <2>2, <2>3 DEF Number
      <3>2. ~Sound(n + 1)
        BY <1>2, <1>3, <1>11, <2>3, SoundGrows
      <3>3. Understood(Exit(r, "EXIT_FAILURE"), n + 1)
        BY <1>4, <3>2, ExitIsMeant
      <3> QED BY <3>1, <3>3
    <2>4. CASE a.number # NoNumber
      <3>1. s = [r EXCEPT !["domain_id"] = a.number]
        BY <2>2, <2>4 DEF Number
      <3>2. /\ s = [f \in Field |-> s[f]] /\ s.exit = Empty /\ s.domain_id = a.number
            /\ s.config_path = r.config_path /\ s.yoke_id = r.yoke_id
            /\ s.log_rx_raw = r.log_rx_raw /\ s.table_mode = r.table_mode
        BY <3>1, <1>7 DEF Field
      <3> HIDE DEF s
      <3>3. Kept(s, n + 1)
        BY <1>3, <1>4, <1>5, <1>8, <1>9, <1>11, <2>4, <3>2 DEF Kept
      <3>4. Sound(n + 1)
        BY <1>3, <1>4, <1>11, <2>4, SoundGrows
      <3>5. Flags(s)
        BY <3>2 DEF Flags, Understood
      <3>6. Understood(s, n + 1)
        BY <1>4, <3>2, <3>3, <3>4, <3>5, GoesOn
      <3> QED BY <3>6 DEF s
    <2> QED BY <2>3, <2>4
  <1>12. CASE Place(n) = 2
    <2>1. r.config_path # Empty /\ r.domain_id # NoNumber /\ r.yoke_id = NoNumber
      BY <1>4, <1>12 DEF Kept
    <2>2. s = Number(r, "yoke_id", a)
      BY <2>1 DEF ReadArgument
    <2>3. CASE a.number = NoNumber
      <3>1. s = Exit(r, "EXIT_FAILURE")
        BY <2>2, <2>3 DEF Number
      <3>2. ~Sound(n + 1)
        BY <1>2, <1>3, <1>12, <2>3, SoundGrows
      <3>3. Understood(Exit(r, "EXIT_FAILURE"), n + 1)
        BY <1>4, <3>2, ExitIsMeant
      <3> QED BY <3>1, <3>3
    <2>4. CASE a.number # NoNumber
      <3>1. s = [r EXCEPT !["yoke_id"] = a.number]
        BY <2>2, <2>4 DEF Number
      <3>2. /\ s = [f \in Field |-> s[f]] /\ s.exit = Empty /\ s.yoke_id = a.number
            /\ s.config_path = r.config_path /\ s.domain_id = r.domain_id
            /\ s.log_rx_raw = r.log_rx_raw /\ s.table_mode = r.table_mode
        BY <3>1, <1>7 DEF Field
      <3> HIDE DEF s
      <3>3. Kept(s, n + 1)
        BY <1>3, <1>4, <1>5, <1>8, <1>9, <1>12, <2>4, <3>2 DEF Kept
      <3>4. Sound(n + 1)
        BY <1>3, <1>4, <1>12, <2>4, SoundGrows
      <3>5. Flags(s)
        BY <3>2 DEF Flags, Understood
      <3>6. Understood(s, n + 1)
        BY <1>4, <3>2, <3>3, <3>4, <3>5, GoesOn
      <3> QED BY <3>6 DEF s
    <2> QED BY <2>3, <2>4
  <1>13. CASE Place(n) = 3
    <2>1. r.config_path # Empty /\ r.domain_id # NoNumber /\ r.yoke_id # NoNumber
      BY <1>4, <1>13 DEF Kept
    <2>2. s = Exit(r, "EXIT_FAILURE")
      BY <2>1 DEF ReadArgument
    <2>3. ~Sound(n + 1)
      BY <1>2, <1>3, <1>13, SoundGrows
    <2>4. Understood(Exit(r, "EXIT_FAILURE"), n + 1)
      BY <1>4, <2>3, ExitIsMeant
    <2> QED BY <2>2, <2>4
  <1> QED BY <1>6, <1>10, <1>11, <1>12, <1>13

\* One turn of the loop.
LEMMA ArgumentIsMeant ==
  ASSUME NEW n \in Nat, NEW r, Understood(r, n)
  PROVE  Understood(ReadArgument(r, args[n + 1]), n + 1)
  <1> DEFINE a == args[n + 1]
  <1>1. CASE r.exit # Empty
    <2>1. ReadArgument(r, a) = r
      BY <1>1 DEF ReadArgument
    <2> QED BY <1>1, <2>1, EndedStays
  <1>2. CASE r.exit = Empty /\ a.option \in {"--version", "--help"}
    <2>1. ReadArgument(r, a) = Exit(r, "EXIT_SUCCESS") /\ Ends(n + 1)
      BY <1>2 DEF ReadArgument, Ends
    <2>2. Understood(Exit(r, "EXIT_SUCCESS"), n + 1)
      BY <1>2, <2>1, ExitIsMeant
    <2> QED BY <2>1, <2>2
  <1>3. CASE r.exit = Empty /\ a.option \in {"--debug", "--table"}
    BY <1>3, FlagIsMeant
  <1>4. CASE r.exit = Empty /\ a.option = "none"
    BY <1>4, EmptyIsPassed, WordIsMeant
  <1>5. CASE /\ r.exit = Empty
             /\ a.option \notin {"none", "--debug", "--table", "--version", "--help"}
    <2>1. ReadArgument(r, a) = Exit(r, "EXIT_FAILURE") /\ ~Ends(n + 1)
      BY <1>5 DEF ReadArgument, Ends
    <2>2. ~Sound(n + 1)
      BY <1>5, SoundGrows
    <2>3. Understood(Exit(r, "EXIT_FAILURE"), n + 1)
      BY <1>5, <2>1, <2>2, ExitIsMeant
    <2> QED BY <2>1, <2>3
  <1> QED BY <1>1, <1>2, <1>3, <1>4, <1>5

-----------------------------------------------------------------------------
(* The loop, and what a run is given.                                      *)

\* A set of numbers that is not empty has a least one.
LEMMA LeastNatural ==
  ASSUME NEW S \in SUBSET Nat, S # {}
  PROVE  \E x \in S : \A y \in S : x <= y
  <1> DEFINE less == OpToRel(<, Nat)
  <1>1. IsWellFoundedOn(less, Nat)
    BY NatLessThanWellFounded, Zenon
  <1>2. \A x, y \in Nat : y < x => <<y, x>> \in less
    BY Zenon DEF OpToRel
  <1> HIDE DEF less
  <1>3. PICK x \in S : \A y \in S : ~(<<y, x>> \in less)
    BY <1>1, WFMin
  <1>4. \A y \in S : ~(y < x)
    BY <1>2, <1>3
  <1>5. x \in Nat /\ \A y \in S : y \in Nat
    OBVIOUS
  <1> QED BY <1>4, <1>5

\* What the loop has read after each of n arguments.
Loop(f, n) ==
  f = [m \in 0 .. n |-> IF m = 0 THEN Unread ELSE ReadArgument(f[m - 1], args[m])]

LEMMA LoopExists == \A n \in Nat : \E f : Loop(f, n)
  <1> DEFINE Wrong == {m \in Nat : ~ \E f : Loop(f, m)}
  <1>1. SUFFICES ASSUME Wrong # {} PROVE FALSE
    OBVIOUS
  <1>2. PICK x \in Wrong : \A y \in Wrong : x <= y
    <2>1. Wrong \in SUBSET Nat
      OBVIOUS
    <2> HIDE DEF Wrong
    <2> QED BY <1>1, <2>1, LeastNatural
  <1>3. x \in Nat /\ ~ \E f : Loop(f, x)
    BY <1>2
  <1>4. CASE x = 0
    <2> DEFINE g == [m \in 0 .. 0 |-> Unread]
    <2>1. g = [m \in 0 .. 0 |-> IF m = 0 THEN Unread ELSE ReadArgument(g[m - 1], args[m])]
      OBVIOUS
    <2> HIDE DEF g
    <2>2. Loop(g, 0)
      BY <2>1 DEF Loop
    <2> QED BY <1>3, <1>4, <2>2
  <1>5. CASE x # 0
    <2>1. x - 1 \in Nat /\ x - 1 \notin Wrong
      BY <1>2, <1>3, <1>5
    <2>2. PICK f : Loop(f, x - 1)
      BY <2>1
    <2> DEFINE g == [m \in 0 .. x |-> IF m = x THEN ReadArgument(f[x - 1], args[x]) ELSE f[m]]
    <2>3. \A m \in 0 .. x - 1 :
            f[m] = IF m = 0 THEN Unread ELSE ReadArgument(f[m - 1], args[m])
      BY <2>2, Zenon DEF Loop
    <2>4. g[x] = ReadArgument(f[x - 1], args[x]) /\ \A m \in 0 .. x - 1 : g[m] = f[m]
      BY <1>3
    <2>5. \A m \in 0 .. x : /\ m = x \/ m \in 0 .. x - 1
                            /\ m # 0 => m - 1 \in 0 .. x - 1
      BY <1>3
    <2>6. g = [m \in 0 .. x |-> g[m]]
      OBVIOUS
    <2> HIDE DEF g
    <2>7. \A m \in 0 .. x :
            g[m] = IF m = 0 THEN Unread ELSE ReadArgument(g[m - 1], args[m])
      BY <1>5, <2>3, <2>4, <2>5
    <2>8. Loop(g, x)
      BY <2>6, <2>7 DEF Loop
    <2> QED BY <1>3, <2>8
  <1> QED BY <1>4, <1>5

\* After each argument the loop has read what the arguments so far say.
LEMMA LoopIsMeant ==
  ASSUME NEW N \in Nat, NEW f, Loop(f, N)
  PROVE  \A n \in 0 .. N : Understood(f[n], n)
  <1> DEFINE Wrong == {n \in 0 .. N : ~Understood(f[n], n)}
  <1>1. SUFFICES ASSUME Wrong # {} PROVE FALSE
    OBVIOUS
  <1>2. PICK x \in Wrong : \A y \in Wrong : x <= y
    <2>1. Wrong \in SUBSET Nat
      OBVIOUS
    <2> HIDE DEF Wrong
    <2> QED BY <1>1, <2>1, LeastNatural
  <1>3. x \in 0 .. N /\ ~Understood(f[x], x)
    BY <1>2
  <1>4. \A m \in 0 .. N : f[m] = IF m = 0 THEN Unread ELSE ReadArgument(f[m - 1], args[m])
    BY Zenon DEF Loop
  <1>5. CASE x = 0
    <2>1. f[0] = Unread
      BY <1>3, <1>4, <1>5
    <2> QED BY <1>3, <1>5, <2>1, NothingMeant
  <1>6. CASE x # 0
    <2>1. PICK n : n = x - 1
      OBVIOUS
    <2>2. n \in Nat /\ n \in 0 .. N /\ n + 1 = x /\ n \notin Wrong
      BY <1>2, <1>3, <1>6, <2>1
    <2>3. Understood(f[n], n)
      BY <2>2
    <2>4. f[x] = ReadArgument(f[n], args[x])
      BY <1>3, <1>4, <1>6, <2>1
    <2>5. Understood(ReadArgument(f[n], args[n + 1]), n + 1)
      BY <2>2, <2>3, ArgumentIsMeant
    <2> QED BY <1>3, <2>2, <2>4, <2>5
  <1> QED BY <1>5, <1>6

\* The loop of main reads what its arguments say.
LEMMA AllIsMeant ==
  ASSUME Len(args) \in Nat
  PROVE  Understood(ReadAll(args), Len(args))
  <1>1. PICK N : N = Len(args)
    OBVIOUS
  <1> DEFINE f == CHOOSE g : Loop(g, N)
  <1>2. Loop(f, N)
    BY <1>1, LoopExists, Zenon
  <1>3. ReadAll(args) = f[N]
    BY <1>1, Zenon DEF ReadAll, Loop
  <1> HIDE DEF f
  <1>4. N \in 0 .. N /\ N \in Nat
    BY <1>1
  <1> QED BY <1>1, <1>2, <1>3, <1>4, LoopIsMeant

\* Where main is says what it makes of the arguments.
Consulted ==
  /\ args \in Seq(ArgumentSet)
  /\ pc # "arguments" => console = ReadConsole(args)
  /\ pc \notin {"arguments", "read", "done"} => console.exit = Empty
  /\ pc \notin {"arguments", "read", "done"} => stopSource # "none"
  /\ pc = "done" /\ stopSource = "none" => console.exit # Empty

LEMMA ConsultedKept == Consulted /\ [Next]_vars => Consulted'
  <1> SUFFICES ASSUME Consulted, [Next]_vars PROVE Consulted'
    OBVIOUS
  <1> USE DEF Consulted, Step
  <1>1. CASE ReadArguments
    BY <1>1 DEF ReadArguments
  <1>2. CASE ReturnEarly
    BY <1>2 DEF ReturnEarly, Exits, readVars
  <1>3. CASE Construct
    BY <1>3 DEF Construct, readVars
  <1>4. CASE Publish
    BY <1>4 DEF Publish, readVars
  <1>5. CASE Register
    BY <1>5 DEF Register, readVars
  <1>6. CASE RunReturns
    BY <1>6 DEF RunReturns, readVars
  <1>7. CASE Unregister
    BY <1>7 DEF Unregister, readVars
  <1>8. CASE Reset
    BY <1>8 DEF Reset, readVars
  <1>9. CASE Destroy
    BY <1>9 DEF Destroy, readVars
  <1>10. CASE Return
    BY <1>10 DEF Return, Exits, readVars
  <1>11. ASSUME NEW e \in Events, Event(e) \/ Handle(e) PROVE Consulted'
    <2>1. UNCHANGED <<args, console, pc, stopSource>>
      BY <1>11 DEF Event, Handle, Check, Call, readVars
    <2> QED BY <2>1
  <1>12. CASE UNCHANGED vars
    BY <1>12 DEF vars, readVars
  <1> QED
    BY <1>1, <1>2, <1>3, <1>4, <1>5, <1>6, <1>7, <1>8, <1>9, <1>10, <1>11, <1>12
    DEF Next, Main, Stopped

\* What main makes of its arguments is what the usage text says.
LEMMA ConsultedKeepsUsage == Consulted => UsageIsKept
  <1> SUFFICES ASSUME Consulted PROVE UsageIsKept
    OBVIOUS
  <1> DEFINE N == Len(args)
  <1>1. PICK r : r = ReadAll(args)
    OBVIOUS
  <1>2. N \in Nat /\ DOMAIN args = 1 .. N /\ (args = <<>> => N = 0)
    BY DEF Consulted
  <1>3. Meant(r, N) /\ Flags(r) /\ (r.exit = Empty => Kept(r, N))
    BY <1>1, <1>2, AllIsMeant DEF Understood
  <1> HIDE DEF N
  <1>4. ReadConsole(args) = IF r.exit # Empty \/ (args # <<>> /\ Complete(r))
                            THEN r ELSE Exit(r, "EXIT_FAILURE")
    BY <1>1, Zenon DEF ReadConsole
  <1>5. Exit(r, "EXIT_FAILURE").exit = "EXIT_FAILURE"
    BY <1>3 DEF Exit, Meant, Field
  <1>6. r.exit = Empty => (Complete(r) <=> Place(N) = 3 /\ ~(Given("--debug") /\ Given("--table")))
    BY <1>2, <1>3 DEF Kept, Complete, Given
  <1>7. args = <<>> => Place(N) = 0
    <2> SUFFICES ASSUME N = 0 PROVE Place(N) = 0
      BY <1>2
    <2>1. Words(0) = {}
      BY DEF Words
    <2> QED BY <2>1, PlaceGrows
  <1>8. ReadConsole(args).exit = Empty <=> r.exit = Empty /\ args # <<>> /\ Complete(r)
    BY <1>4, <1>5, Codes
  <1>9. r.exit = Empty <=> Sound(N) /\ \A i \in DOMAIN args : ~Ends(i)
    BY <1>2, <1>3 DEF Meant
  <1>10. ReadConsole(args).exit = Empty <=> Runnable
    <2>1. Runnable <=> /\ \A i \in DOMAIN args : ~Ends(i)
                       /\ Sound(N) /\ Place(N) = 3
                       /\ ~(Given("--debug") /\ Given("--table"))
      BY DEF Runnable, N
    <2> QED BY <1>6, <1>7, <1>8, <1>9, <2>1
  <1>11. ReadConsole(args).exit = "EXIT_SUCCESS" <=> AskedToEnd
    <2>1. ReadConsole(args).exit = "EXIT_SUCCESS" <=> r.exit = "EXIT_SUCCESS"
      BY <1>4, <1>5, Codes
    <2> QED BY <1>2, <1>3, <2>1 DEF Meant, AskedToEnd
  <1>12. CASE pc = "publish"
    <2>1. console = ReadConsole(args) /\ console.exit = Empty
      BY <1>12 DEF Consulted
    <2>2. r.exit = Empty /\ console = r
      BY <1>4, <1>8, <2>1
    <2>3. Kept(console, N)
      BY <1>3, <2>2
    <2> QED BY <1>10, <1>12, <2>1, <2>3 DEF UsageIsKept, Kept, N
  <1>13. CASE pc = "done" /\ stopSource = "none"
    <2>1. console = ReadConsole(args) /\ console.exit # Empty
      BY <1>13 DEF Consulted
    <2> QED BY <1>10, <1>11, <1>13, <2>1 DEF UsageIsKept
  <1> QED BY <1>12, <1>13 DEF UsageIsKept

\* However options and words are mixed on a command line, main constructs
\* what a run needs exactly with what the usage text asks for, and every
\* other command line ends without a run, with success only for --version
\* or --help.
THEOREM ArgumentsAreTheUsage == Spec => []UsageIsKept
  <1>1. Init => Consulted
    BY DEF Init, Consulted
  <1> QED
    BY <1>1, ConsultedKept, ConsultedKeepsUsage, PTL DEF Spec
=============================================================================
