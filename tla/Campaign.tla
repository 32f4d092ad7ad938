------------------------------ MODULE Campaign ------------------------------
(***************************************************************************)
(* my-simulator.cc: for growing amounts of data, a test over each of the   *)
(* protocols.  A test leaves files behind; start_data_parser() makes a row *)
(* of the protocol's results of them, and after each round the big files   *)
(* are removed.  The clients of a test are told by their arguments what to *)
(* do (ClientOptions).  The program may be interrupted at any time, ends   *)
(* when a trace cannot be read, passes over results it cannot write and    *)
(* files it cannot remove, and is started again by its user.               *)
(***************************************************************************)
EXTENDS ClientOptions, FiniteSets

CONSTANTS
    number_of_clients,
    Settings,                \* the other sim_settings, by the letter of their option
    MinBytes, IncBytes, MaxBytes,  \* min, inc, max of transfer_data_bytes
    remove_output_dir,       \* what it may be, start by start
    Removed,                 \* the kinds of files that are removed after a round
    IntMax,                  \* the largest int
    MaxStarts,               \* bound: times the program is started
    MaxTrouble               \* bound: commands and files that fail

ASSUME SpanAssumption ==
    {MinBytes, IncBytes, MaxBytes, number_of_clients} \subseteq Nat \ {0} /\ MinBytes <= MaxBytes
ASSUME SettingsAssumption ==
    Settings \subseteq [{"t", "u", "s", "b", "n", "p", "r"} -> Nat]
ASSUME IntMaxAssumption == IntMax \in Nat \ {0} /\ MaxBytes + IncBytes <= IntMax
ASSUME ModesAssumption == remove_output_dir \subseteq BOOLEAN
ASSUME BoundsAssumption == MaxStarts \in Nat /\ MaxTrouble \in Nat

Order == <<"dccp", "udp", "tcp", "sctp">>
Protocols == {Order[k] : k \in DOMAIN Order}

(* The files of a test, by kind: those of DCE are outside the output       *)
(* directory.                                                              *)
Kinds == <<"files", "pcap", "txt", "netanim">>
ASSUME RemovedAssumption == Removed \subseteq {Kinds[k] : k \in DOMAIN Kinds}

VARIABLES
    settings,
    process,    \* where the program is; "off" when it does not run
    turn,       \* the protocol of the round, or the kind that is removed next
    var,        \* *var: transfer_data_bytes
    conf,       \* what the clients of the last test worked with
    made,       \* is there an output directory?
    disk,       \* the files: for each round, the kinds there are any of
    rows,       \* per protocol, the rows of its _simtotal.dat
    starts,
    trouble,    \* how often a command or a file has failed
    before,     \* history: rows there were when the program was started
    unwritten,  \* history: amounts of this start whose row was not written
    missed      \* history: the kinds whose last rm did not do its work

results == <<rows, before, unwritten>>
vars == <<settings, process, turn, var, conf, made, disk, results, starts, trouble, missed>>

Init ==
    /\ settings \in Settings
    /\ process = "off" /\ turn = 1 /\ var = MinBytes
    /\ conf = << >>
    /\ made \in BOOLEAN /\ disk = {}
    /\ rows = [p \in Protocols |-> << >>]
    /\ before = [p \in Protocols |-> 0]
    /\ unwritten = [p \in Protocols |-> {}]
    /\ starts = 0 /\ trouble = 0 /\ missed = {}

-----------------------------------------------------------------------------
InOutputDir(f) == f.kind # "files"

(* A command or a file fails, or a signal ends a command of system():      *)
(* while it runs the program itself ignores SIGINT.                        *)
Trouble == trouble < MaxTrouble /\ trouble' = trouble + 1

(* "rm -rf" and mkdir(), whose results are not looked at: all is cleared   *)
(* or, when rm does not do its work, some of it.                           *)
ClearOutput ==
    \/ /\ disk' = {f \in disk : ~ InOutputDir(f)}
       /\ rows' = [p \in Protocols |-> << >>]
       /\ \/ made' = TRUE /\ UNCHANGED trouble
          \/ made' = FALSE /\ Trouble
    \/ /\ \E gone \in SUBSET {f \in disk : InOutputDir(f)} : disk' = disk \ gone
       /\ \E gone \in SUBSET Protocols :
            rows' = [p \in Protocols |-> IF p \in gone THEN << >> ELSE rows[p]]
       /\ Trouble /\ UNCHANGED made

(* main() up to the loop. *)
Start ==
    /\ process = "off" /\ starts < MaxStarts
    /\ \/ TRUE \in remove_output_dir /\ ClearOutput
       \/ FALSE \in remove_output_dir /\ UNCHANGED <<made, disk, rows, trouble>>
    /\ process' = "simulate" /\ turn' = 1 /\ var' = MinBytes
    /\ before' = [p \in Protocols |-> Len(rows'[p])]
    /\ unwritten' = [p \in Protocols |-> {}]
    /\ starts' = starts + 1
    /\ UNCHANGED <<settings, conf, missed>>

This(kind) == [kind |-> kind, bytes |-> var, start |-> starts]

(* What a simulation writes; without an output directory, what DCE does.   *)
TestFiles == {This("files")} \cup (IF made THEN {This("pcap"), This("netanim")} ELSE {})

(* The settings with the amount of data of the test. *)
WithData == [o \in DOMAIN settings \cup {"d"} |-> IF o = "d" THEN var ELSE settings[o]]

(* RunSimulation() up to the end of the simulation.  That ns-3 may abort,  *)
(* as without an output directory, is a case of Interrupt.                 *)
Simulate ==
    /\ process = "simulate"
    /\ disk' = disk \cup TestFiles
    /\ conf' = Configured(Order[turn], WithData)
    /\ process' = "tshark"
    /\ UNCHANGED <<settings, turn, var, made, results, starts, trouble, missed>>

(* tshark, whose result is not looked at: there is a trace, whole or cut   *)
(* off, or none; without an output directory there is none.                *)
Tshark ==
    /\ process = "tshark"
    /\ \/ /\ made /\ process' = "parse"
          /\ disk' = disk \cup {This("txt")}
          /\ UNCHANGED trouble
       \/ /\ process' = "no trace"
          /\ IF made THEN Trouble ELSE UNCHANGED trouble
          /\ UNCHANGED disk
    /\ UNCHANGED <<settings, turn, var, conf, made, results, starts, missed>>

(* An int. *)
Int32(n) == ((n + IntMax + 1) % (2 * (IntMax + 1))) - (IntMax + 1)

(* What the parser is told to expect. *)
Expected == Int32(number_of_clients * Int32(var * settings["n"]))

(* The row, with what the clients of the test were told to send. *)
Row == [bytes |-> var, start |-> starts, expected |-> Expected,
        told |-> number_of_clients * (conf["d"] * conf["n"])]

(* The next test, or the end of the round. *)
NextTest ==
    /\ process' = IF turn < Len(Order) THEN "simulate" ELSE "clean"
    /\ turn' = (turn % Len(Order)) + 1
    /\ UNCHANGED <<settings, var, conf, made, disk, before, starts, missed>>

(* Mistake: a test without a trace passed over. *)
PassOver == process = "no trace" /\ NextTest /\ UNCHANGED <<rows, unwritten, trouble>>

(* The trace cannot be opened: exit(1), out of the whole program. *)
ParserExits ==
    /\ process = "no trace"
    /\ process' = "off"
    /\ UNCHANGED <<settings, turn, var, conf, made, disk, results, starts, trouble, missed>>

(* The row of the test is appended; when the results cannot be opened it   *)
(* is left out without a word, and the campaign goes on.                   *)
Parse ==
    /\ process = "parse"
    /\ \/ /\ rows' = [rows EXCEPT ![Order[turn]] = Append(@, Row)]
          /\ UNCHANGED <<unwritten, trouble>>
       \/ /\ unwritten' = [unwritten EXCEPT ![Order[turn]] = @ \cup {var}]
          /\ Trouble /\ UNCHANGED rows
    /\ NextTest

(* Mistake: only the files of this round matched. *)
MatchingOwn(kind) == {f \in disk : f.kind = kind /\ f.bytes = var /\ f.start = starts}

(* The files a rm command is told to remove: those of all rounds. *)
Matching(kind) == {f \in disk : f.kind = kind}

(* Its result is not looked at: when it fails or a signal ends it, some of *)
(* the files stay.                                                         *)
Remove(kind) ==
    \/ /\ disk' = disk \ Matching(kind)
       /\ missed' = missed \ {kind}
       /\ UNCHANGED trouble
    \/ /\ \E gone \in SUBSET Matching(kind) : disk' = disk \ gone
       /\ missed' = missed \cup {kind}
       /\ Trouble

(* One of the four commands; behind them the next round or the end. *)
Clean ==
    /\ process = "clean"
    /\ IF Kinds[turn] \in Removed
       THEN Remove(Kinds[turn]) ELSE UNCHANGED <<disk, missed, trouble>>
    /\ IF turn < Len(Kinds)
       THEN turn' = turn + 1 /\ UNCHANGED <<process, var>>
       ELSE /\ turn' = 1 /\ var' = var + IncBytes
            /\ process' = IF var + IncBytes <= MaxBytes THEN "simulate" ELSE "off"
    /\ UNCHANGED <<settings, conf, made, results, starts>>

(* sigint_handler(), between two commands or during a simulation, which    *)
(* may have written any of its files: the program is killed where it is.   *)
Interrupt ==
    /\ process # "off"
    /\ process' = "off"
    /\ \/ UNCHANGED disk
       \/ process = "simulate" /\ \E some \in SUBSET TestFiles : disk' = disk \cup some
    /\ UNCHANGED <<settings, turn, var, conf, made, results, starts, trouble, missed>>

Run == Simulate \/ Tshark \/ Parse \/ ParserExits \/ Clean
Finished == process = "off" /\ starts = MaxStarts /\ UNCHANGED vars
Next == Start \/ Run \/ Interrupt \/ Finished

Spec == Init /\ [][Next]_vars

-----------------------------------------------------------------------------
(* The clients of a test work with the settings of the simulator, although *)
(* all protocols share one list of arguments and the word behind -u is no  *)
(* argument of it.                                                         *)
SettingsArrive ==
    process = "tshark" =>
        \A o \in DOMAIN conf \ {"u"} : conf[o] = WithData[o]

(* "sctp_unordered = 0; // Unordered packet delivery" (my-simulator.cc):   *)
(* messages are sent unordered when the setting says so.                   *)
UnorderedAsSet ==
    process = "tshark" /\ Order[turn] = "sctp" => (conf["u"] # 0 <=> settings["u"] # 0)

(* The rows of a start of the program, whenever it ended, are in the order *)
(* of the amounts and none is there twice; none is left out but when the   *)
(* results could not be opened; every protocol has been through the same   *)
(* amounts, but for the last one that the later ones do not have yet.  And *)
(* the expected data is what the clients of the test were told to send, as *)
(* long as that is an int.                                                 *)
NewRows(p) == before[p] + 1 .. Len(rows[p])
Tested(p) == {rows[p][k].bytes : k \in NewRows(p)} \cup unwritten[p]

RowsAreTrue ==
    \A p \in Protocols : \A k \in NewRows(p) :
        /\ rows[p][k].start = starts
        /\ rows[p][k].told <= IntMax => rows[p][k].expected = rows[p][k].told
        /\ rows[p][k].bytes \notin unwritten[p]
        /\ k - 1 \in NewRows(p) => rows[p][k - 1].bytes < rows[p][k].bytes
NoneLeftOut ==
    \A p \in Protocols : \A a \in Tested(p) : a = MinBytes \/ a - IncBytes \in Tested(p)
ProtocolsInStep ==
    \A j, k \in DOMAIN Order : j < k =>
        /\ Tested(Order[k]) \subseteq Tested(Order[j])
        /\ Tested(Order[j]) \subseteq Tested(Order[k]) \cup {var}

RowsInStep == RowsAreTrue /\ NoneLeftOut /\ ProtocolsInStep

(* "Remove or keep large output files in order to save space on hard       *)
(* drive": once a round of a start is over, no file of an earlier round is *)
(* left of the kinds that are to be removed, not even of a start that was  *)
(* interrupted, unless the last rm of its kind did not do its work: what   *)
(* an earlier one has missed is removed by the next.                       *)
SpaceIsSaved ==
    process # "off" /\ var > MinBytes =>
        \A f \in disk : f.kind \in Removed \ missed => f.start = starts /\ f.bytes = var

-----------------------------------------------------------------------------
(* The inductive invariant. *)
Testing == process \in {"tshark", "parse"}

RowSet == [bytes : Nat, start : Nat, expected : Int, told : Nat]
CampaignTypeOK ==
    /\ settings \in Settings
    /\ process \in {"off", "simulate", "tshark", "no trace", "parse", "clean"}
    /\ turn \in 1..4
    /\ var \in Nat
    /\ process # "off" => var <= MaxBytes
    /\ starts \in Nat
    /\ before \in [Protocols -> Nat]
    /\ rows \in [Protocols -> Seq(RowSet)]
    /\ unwritten \in [Protocols -> SUBSET Nat]
    /\ \A p \in Protocols : before[p] <= Len(rows[p])

(* Until its row is written, a test is of the settings and of the amount   *)
(* its clients were given.                                                 *)
ConfInv ==
    Testing =>
        /\ {"d", "n"} \subseteq DOMAIN conf
        /\ \A o \in DOMAIN conf \ {"u"} : conf[o] = WithData[o]

(* In round r + 1 a protocol has been through the first r amounts, and     *)
(* through another one when its test of the round is over.                 *)
Amounts(n) == {MinBytes + i * IncBytes : i \in 0 .. n - 1}
InRound(r) ==
    /\ var = MinBytes + r * IncBytes
    /\ \A j \in DOMAIN Order :
        Tested(Order[j]) = Amounts(IF process = "clean" \/ j < turn THEN r + 1 ELSE r)
RoundInv == process # "off" => \E r \in Nat : InRound(r)

(* The files of the kinds that were passed in the clean-up are gone. *)
SpaceInv ==
    /\ SpaceIsSaved
    /\ process = "clean" =>
        \A f \in disk : \A k \in DOMAIN Kinds :
            k < turn /\ f.kind = Kinds[k] => f.kind \notin Removed \ missed

IInv == CampaignTypeOK /\ ConfInv /\ RowsInStep /\ RoundInv /\ SpaceInv
=============================================================================
