--------------------------- MODULE ClientOptions ---------------------------
(***************************************************************************)
(* How the settings of the simulator get into the clients: every client is *)
(* started with the same arguments (RunSimulation(), my-simulator.cc) and  *)
(* takes from them, option by option in a getopt() loop, what its protocol *)
(* has a use for.  An option is its letter; the address is left out.       *)
(***************************************************************************)
EXTENDS Integers, Sequences

(* The options a client's switch has a case for, with the values that its  *)
(* variables are initialised with.  num_sockets has none.                  *)
Unset == -1
TcpOptions  == [d |-> 0, s |-> Unset, n |-> 1, b |-> 0]
UdpOptions  == [d |-> 0, s |-> Unset, n |-> 1, b |-> 0, p |-> 1024]
DccpOptions == [d |-> 0, s |-> Unset, n |-> 1, b |-> 0, r |-> 1024]
SctpOptions == [d |-> 0, t |-> 0, u |-> 0, s |-> 1, n |-> 1, b |-> 0]

Options == [tcp |-> TcpOptions, udp |-> UdpOptions, dccp |-> DccpOptions, sctp |-> SctpOptions]

(* Mistake: the optstring without the colon behind "s". *)
TakesArgumentButS(o) == o \in {"r", "p", "n", "b", "a", "d", "t"}

(* The optstring: "u" is not followed by a colon. *)
TakesArgument(o) == o \in {"r", "p", "n", "b", "a", "d", "t", "s"}

(* AddArguments(), in its order: the options, each with a word behind it,  *)
(* which is the setting that goes by the option.                           *)
Letters == <<"d", "t", "u", "s", "b", "n", "p", "r">>
Word(option, v) == [option |-> option, v |-> v]

(* One turn of the getopt() loop and of its switch: `conf' are the         *)
(* variables of the client, `awaits' is the option that the next word is   *)
(* the argument of.  An option without an argument sets its flag (flags |= *)
(* SCTP_UNORDERED); a word that is no argument is passed over.             *)
Take(was, word) ==
    LET Set(o, v) == IF o \in DOMAIN was.conf THEN [was.conf EXCEPT ![o] = v] ELSE was.conf
    IN  IF ~ word.option
        THEN [conf |-> Set(was.awaits, word.v), awaits |-> "none"]
        ELSE IF TakesArgument(word.v)
        THEN [conf |-> was.conf, awaits |-> word.v]
        ELSE [conf |-> Set(word.v, 1), awaits |-> "none"]

(* The words of one AddArguments(). *)
TakePair(was, o, v) == Take(Take(was, Word(TRUE, o)), Word(FALSE, v))

(* What a client of a protocol works with: `after[k]' is where it is when  *)
(* it has taken the first k options.                                       *)
Configured(protocol, settings) ==
    LET after[k \in 0..Len(Letters)] ==
            IF k = 0 THEN [conf |-> Options[protocol], awaits |-> "none"]
            ELSE TakePair(after[k - 1], Letters[k], settings[Letters[k]])
    IN  after[Len(Letters)].conf
=============================================================================
