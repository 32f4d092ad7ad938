# TLA+ models of the ns-3/DCE protocol tests

The repository measures how DCCP, UDP, TCP and SCTP behave over a simulated
wireless network.  `my-simulator` builds the network, starts one server and
several clients of a protocol as DCE processes, lets them transfer a fixed amount
of data, and has `DataParser` compute totals from the server's packet trace.  The
models check that the programs under test count what they are meant to count, and
that no interleaving of the processes makes them lose, repeat or wait for ever.

All paths below are relative to `src/myscripts/my-simulator/`.

## The system

| Part | State | Operations | Hard about it |
| --- | --- | --- | --- |
| `SenderContent` (text generator) | `len`, `i`, the caller's buffer | constructor, `fill()` | three unrelated periods (payload, alphabet, text length), a buffer that is never cleared |
| `dce-client-tcp.cc` | sockets, `current_socket`, `current_cycle`, a generator per cycle | connect all, send round robin, close all | every call blocks; results of `send()` ignored; SIGPIPE |
| `dce-server-tcp.cc` | `client_socket[]`, `client_reads[]`, `readfds`, descriptor table | `select()` loop: accept one, scan the table, read once per ready entry | answer of `select()` used after accept, close and reuse; entry reuse; limits of table, descriptors and queue; `read() < 0` |
| `dce-server-sctp.cc`, `dce-client-sctp.cc` | the same server state; one association with streams per client | the same loop, which goes on after every failure; messages round robin over the streams | a failed `select()` or `accept()` leaves wrong data behind; streams the association does not have; messages that overtake each other |
| `dce-server-dccp.cc`, `dce-client-dccp.cc` | the same server state; paced sender | the same loop, which exits on failure; one packet per timer tick, after `select()` for writing | lost and reordered packets, the end of a connection before its packets, signals that interrupt every call |
| `dce-server-udp.cc`, `dce-client-udp.cc` | a socket; an interval timer, the sockets and the cycle of the sender | receive loop; one datagram per tick, pauses | lost datagrams, ticks that meet any call of the client, interval arithmetic |
| `DataParser` | running totals, the frame being read, the words of the last line | one step per line of the trace, a row of the results at the end | words kept from line to line, flags tested one line late, a trace cut off anywhere, `int` arithmetic |
| `my-simulator.cc` | settings, files of the round, result files | runs the four tests for growing transfers, parses, cleans up; passes the settings as arguments | a failure ends it anywhere, what an interrupted start leaves behind, one argument list for four option parsers |
| `NSplot.cc`, `GraphCreator.cc` | the columns and files of a plot | picks columns, checks files, plots | agrees with the parser by column number only; `GraphCreator` is not built |
| `wscript`, `pcap-convert.sh`, `config`, `../../compiler-gcc5.h` | none | build and conversion | nothing to model |

The client and server of a test interact through the kernel only: the listen
queue and the byte streams (or packets) of their connections.  The simulator starts
the server at 4.0 s and the clients at 4.5 s of simulated time (my-simulator.cc,
lines 181 to 204) and passes the same arguments to every client.  The parser sees
none of the programs' own output: it reads the server's packet trace after the
simulation has ended.

## Modules

| Module | Models |
| --- | --- |
| `SenderContent` | `SenderContent.cc` and the loop of the clients around it, byte by byte |
| `TcpConnections` | external: listen queue, byte streams, breaking connections |
| `TcpServer`, `TcpClient` | `dce-server-tcp.cc`, `dce-client-tcp.cc` |
| `TcpTransfer` | one server, the clients and the network together; the properties |
| `ByteCount` | abstract: what a test over a reliable protocol promises |
| `MessagePlan` | what each socket or stream should carry, from the arguments alone |
| `PacedSender` | `dce-client-udp.cc` up to `sendto()`; the DCCP client shares it |
| `UdpTransfer` | the paced senders, a lossy network and `dce-server-udp.cc` |
| `PacketConnections` | external: listen queue and connections that carry messages, for SCTP and DCCP |
| `PacketServer` | the `select()` loop that `dce-server-sctp.cc` and `dce-server-dccp.cc` share |
| `SctpTransfer` | `dce-client-sctp.cc`, the SCTP server's own error policy, and the whole test |
| `DccpTransfer` | `dce-client-dccp.cc` on top of `PacedSender`, the DCCP server's policy, and the whole test |
| `FrameCount` | abstract: frames are counted or skipped as a whole |
| `FrameParser` | `DataParser.cc`, line by line |
| `ClientOptions` | the arguments of the clients and their `getopt()` loops, as functions |
| `Campaign` | `main()` of `my-simulator.cc` with the files it makes and removes |
| `Plotting` | `NSplot.cc` |
| `SenderContentProofs`, `TcpTransferProofs`, `UdpTransferProofs`, `SctpTransferProofs`, `DccpTransferProofs` | theorems about the generator and the four tests |
| `PacketServerProofs` | lemmas about the server that the SCTP and DCCP tests share |
| `ResultsProofs` | theorems about the options, the campaign, the parser and the plots |
| `FiniteSums` | lemmas about sums over finite sets, and about messages in turn |
| `MC...` | instances for TLC |

`PacketServer` is extended by `SctpTransfer` and instantiated by `DccpTransfer` with pairs
of client and socket as connections.  `PacedSender` is extended by `UdpTransfer` and
`DccpTransfer`, `ClientOptions` by `Campaign`.

Operators whose comment begins with "Mistake" belong to no specification: each
is a definition of the model with one plausible mistake, and is there to show that
the property that guards against it can fail.

### SenderContent

A byte is its rank in the alphabet, 0 is NUL.  `len`, `i` and `buffer` are the
variables of the code; `pc` tells the client's loop from the loop in `fill()`, and
`taken` counts the bytes the client has sent of the current text.  A step is one
iteration of `fill()` (`CopyByte`, `CopyLastByte`), its `return 0` (`Exhausted`), the
client's body (`SendAndRefill`) or the construction for a new cycle (`Construct`).
The buffer starts with arbitrary content, as the client's local array does.

### TcpTransfer

`TcpServer` has one action per system call of the server and per branch on its
result.  `srv` is where the server is, `at` is the `i` of the scan, `fdConn` is the
process's descriptor table (descriptors start at 4, after the standard streams and
the master socket, and the kernel gives out the lowest free one), and `total` records
what a "Disconnected" line prints.  The rebuild of the set and the `select()` after it
are one action, because only the server changes `client_socket`.  `read()` takes
what is there up to the buffer, meets the end of the stream, or fails; the failure
takes the branch of the data, as in the code.  The addresses that `accept()` and
`getpeername()` store are used for log lines only and are left out.

`TcpClient` has one action per blocking call; the message of a `send()` has the size
`SenderContent` proves it to have (full, or the rest of the text).  A client that
exits or is killed closes its sockets.  `usleep()` between the cycles only delays.

`TcpConnections` is what the two programs rely on: a connection enters the queue
when `connect()` returns and `connect()` waits while the queue is full, `send()`
waits for room in a window, bytes arrive in order and in portions of any size,
the end of the stream behind the last byte.  With `Faults`, a connection may break
(bytes on their way are lost, and the server's next `read()` behind the received bytes
fails) and system calls of the server fail.

### UdpTransfer

`PacedSender` has the client's calls as states: a client in state "sigwait" is inside
`sigwait()`, in state "sendto" about to call it.  The rate and the pause are chosen at
the start from sets and are the same for all clients, as the simulator passes them;
`wait_time_us` is computed from the real frame size, with 976.5625 as 15625 / 16 (the
quotient is never close enough to an integer for the double arithmetic of the code to
truncate differently).  `Tick` is the expiry of the timer, with one alternative
for each place that SIGALRM can find the client.  The signal is not blocked, so only
`sigwait()` takes it; elsewhere `missed_alarm` runs, `usleep()` is interrupted (POSIX;
its result is not looked at), and between `setitimer()` and `signal()` the default
action kills the process.  No time is modelled but the order of ticks and calls: a
client may be arbitrarily late, and a pause that is not shorter than the interval
always meets a tick.  `gap` counts the ticks since the last message.

A datagram is in `air` from `sendto()` on until `recvfrom()` takes it or `Lose` drops
it, in any order; a `sendto()` that fails is a lost datagram.  The network does not
duplicate.  The server keeps no totals: `read` is what it has taken out of its socket, `lost`
what the network or its receive buffer dropped.  What the parser counts is neither: it
reads the trace of the server's interface, where a datagram that finds the receive buffer
full is still to be seen.

### SctpTransfer and DccpTransfer

The two servers have the loop of the TCP server, with messages instead of bytes: an
iteration answers `select()`, accepts at most one connection, and receives one message
for each entry that was in the set.  `PacketServer` names connections instead of
descriptor numbers (`open` is the set of open ones, `MaxOpen` the room for them).  An
entry of `client_socket` is a connection, `Free` (the 0) or `Bad` (the -1 of a failed
`accept()`).  What a server does when `select()` or `accept()` fails is in the module of
its test: DCCP exits (`ServerExit`), SCTP logs and goes on, so `SelectFails` leaves the
set as it was asked for and the next call may wait for a connection or a message that is
not there (`Misled`), and `AcceptFails` stores -1 in a free entry.  The message is received as a whole up to the buffer's size.

`PacketConnections` holds the messages of a connection as bags of sizes, on the way and
in the receive buffer: any of them may be next.  `Lossy` lets them vanish (DCCP, and SCTP
with a time to live).  The end of a connection waits for its messages with SCTP and may
overtake them with DCCP (`EndWaits`); what is behind it is lost.  With `Faults`,
connections break and calls fail.

The SCTP client has one action per call that can fail or wait; the result of
`sctp_sendmsg()` is ignored, so `SendFails` skips the message.  The DCCP client is
`PacedSender` with connections: `select()` stands before `sigwait()`, and `DccpTick` adds
to the alternatives of a tick that it restarts `connect()` and `select()` (the handler is
installed with `signal()`, and `select()` is repeated on `EINTR`).  A `write()` that is refused is a lost message.

### FrameParser

A trace is a sequence of frames, and `TextLine` is what `tshark -V` prints in a line of a
frame: what its first words make of it, and the number or the protocols behind them.
`reader` is the place of the line that is read next, as the frame and the line of it;
`After` is where `getline()` leaves it, and `missing` says how many lines of the last frame
the text ends before.  `Scan` is an iteration of `packetExtractor()`: a blank line
leaves `words` as they were.  `Extract`, `GiveUp` and `EndFrame` are the iterations of
`dataExtractor()`: the flags are tested before the line is, so the line after the one that
set them is read and dropped, and the rest of the frame is scanned by `packetExtractor()`.
A "Data" line takes the next line with it.  Local variables without initialiser hold any
value of `Garbage`.  A trace that is `cut` ends behind any line of the last frame; a line is
not cut in two.  `InsertTotalData` writes the row, unless the file cannot be opened.

`FrameCount` is the abstract machine with one step per frame.  `FrameParser` implements it
with `judged` as `current_frame - 1` and everything else by name; only the frame that a cut
damages may be counted with other numbers than its own.

### Campaign and ClientOptions

`ClientOptions` translates the argument list of `RunSimulation()` and the `getopt()` loops:
`Take` is one turn of the loop, and `Configured` applies it to the words of all options.  A word that is no argument is
passed over, as GNU `getopt()` does.  An option without a case in the client's switch
is dropped.  The initial value of `num_sockets`, which has none, is `Unset`.

`Campaign` has one action for each part of a round that can fail by itself: the
simulation, `tshark`, the parser, and each of the four `rm` commands.  `disk` is the set of
files, by kind, round and start; `rows` has the result files.  Of what the code does when
something fails there are four kinds:

- A trace that the parser cannot open ends the program (`ParserExits`).
- A results file that cannot be opened costs a row, without a word, and the campaign goes
  on (the second case of `Parse`; `FrameParser` has it too).
- The results of `system()` and `mkdir()` are not looked at.  A `rm` that fails leaves any of
  its files (`Remove`, `ClearOutput`), `tshark` may leave no text (`Tshark`; a text that is cut off is
  `FrameParser`'s), and without an output directory the test has no trace.  While a command
  runs the program ignores SIGINT and only the command dies, so an interrupt in `rm` is a `rm`
  that does not do its work.
- `Interrupt` is `sigint_handler()` at any other point, during a simulation with any of its
  files written; the program is then started again, with or without removing the output
  directory.  Only a start that removes it makes a new one (`made`).

`trouble` counts failures up to the bound `MaxTrouble`; the history variables `before`,
`unwritten` and `missed` say which rows are of an earlier start, which were not written, and
which kinds the last `rm` has missed.  A row that is written in part, on a full disk, is not
modelled, nor is a command of a start that outlives the program.  `Int32` wraps at `IntMax`.  The names of the traces contain the process's `clock()` and are
taken to differ between starts and tests.

### Plotting

`SelectColumns` covers the constructor, the menu and `setLabel()`; the numbers the user types
are those of the menu.  `SetAction` is one file argument, `Draw` the end of `main()`.

## Properties and runs

| Run | Instance | Shows |
| --- | --- | --- |
| `sender_content` | payload 3, alphabet of 2, lengths -1..8 | `ChunkIsNextPiece`, `FullUntilLast`, `WholeLengthSent`, `CycleEnds` (every cycle of the client's loop ends), and the inductive invariant `IInv` |
| `tcp_transfer` | 2 clients, 1 socket, queue of 1 | the server's safety properties, exact totals, the refinement of `ByteCount`, and `EveryTotalPrinted` |
| `tcp_sockets` | 2 clients with 2 sockets and 2 cycles each, safety only, clients symmetric | four connections in the server's scan; `RoundRobin` and `TotalsAddUp` across cycles |
| `tcp_faults` | 2 clients, faults | `TotalIsWhatWasSent` when connections break, `ClientsStop`, and the inductive invariant `IInv` |
| `udp_transfer` | 1 client, 2 sockets, 2 cycles of 3 messages, 3 rates, 3 pauses, a server that may fail | the pacing properties, `SendsAllOrNothing`, `RoundRobin`, `LossIsWhatIsMissing`, `TestEnds`, and the inductive invariant |
| `udp_pause` | the simulator's rate and pause | violated: `PauseKept`, the comment in my-simulator.cc on the pause |
| `sctp_transfer` | 2 associations, one descriptor, 2 streams of which 1 exists, 2 cycles, loss and faults | `TotalIsWhatArrived`, `StreamsInTurn`, `ServedToTheEnd` |
| `dccp_transfer` | 1 client, 2 connections, 2 cycles of 2 messages, 3 rates, 2 pauses, loss and faults | `TotalsFallShort`, `OneMessagePerTick`, `ClientsStop` |
| `frame_parser` | every trace of up to 3 frames of 6 kinds, whole and cut | `CountsFrames` (the refinement of `FrameCount`), `RowIsTrue`, `CutCostsOneFrame` |
| `campaign` | 3 rounds, 2 starts, 2 settings, up to 2 failing commands or files | `RowsInStep`, `SpaceIsSaved`, `SettingsArrive` |
| `campaign_unordered` | the same without faults | violated: `UnorderedAsSet`, the comment in my-simulator.cc on the setting |
| `plotting` | 3 names, 2 files | `ShowsWhatItSays` |

- `NoBlockingRead`: the scan reads only from open descriptors that are readable
  at that moment, although `select()` answered earlier.
- `OneEntryEach`: every accepted connection is in exactly one entry of
  `client_socket`, unless the table can overflow.
- `TotalIsWhatWasSent`: a printed total is what the client's `send()` calls took;
  of a broken connection it is less, because the -1 of `read()` is added too.
- `RoundRobin`: what each socket carries, computed from the arguments alone.
- `TotalsAddUp`: the totals sum up to what `RunSimulation()` tells the parser to
  expect.
- `CountSpec`: the test implements `ByteCount` when nothing fails.
- `EveryTotalPrinted`, `ClientsStop`: nobody waits for ever.
- `SendsAllOrNothing`: a client that its timer fails (refused by `setitimer()`, an interval
  of 0, or a tick before `signal()`) has sent nothing; its data is never missing in part.
- `OneMessagePerTick`: wherever the ticks find the client, two messages have a tick
  between them; of the DCCP client also with the ticks that `select()` and `connect()`
  swallow.
- `PauseShows`: a pause of an interval or more leaves at least one tick without a
  message (and, by `PauseKept`, not more than that is certain).
- `LossIsWhatIsMissing`: the bytes the UDP server has read fall short of what the clients
  were told to send by the datagrams that were dropped, and by nothing else.
- `TotalsFallShort`: the totals the DCCP server prints fall short of what the clients were
  told to send by what was dropped, refused or overtaken, and by one byte more for each
  connection that broke, the -1 of `recv()`.  The parser does not see these totals.
- `TestEnds`: unless the interval is 0, every client ends and what it sent is read
  or lost.  With an interval of 0 the timer is off and the clients wait for ever, the
  "undefined behaviour" that my-simulator.cc warns of.
- `TotalIsWhatArrived`: the same for SCTP: counted and lost bytes are what was sent,
  whatever the server did after failing calls.
- `StreamsInTurn`: the shares of the streams that exist; the others carry nothing.
- `ServedToTheEnd`: a connection in the table is served to its end, although the
  server may fail to accept in every iteration, unless a failed `select()` leaves the
  server waiting in a call.
- `CountsFrames`, `RowIsTrue`, `CutCostsOneFrame`: the parser skips and counts whole
  frames, in order; the row has their sums; a cut costs the frame it falls in.
- `RowsInStep`: wherever the program ends, the new rows of a protocol are in the order of
  the amounts, none twice, and left out only where the results could not be opened; all
  protocols have been through the same amounts, but for one; and the expected data is what
  the clients were told to send as long as that is an `int`.
- `SpaceIsSaved`: after the first round no big file of an earlier round is on the disk, not
  even of an interrupted start, unless the last `rm` of its kind did not do its work: what
  one has missed the next removes.
- `SettingsArrive`: the clients work with the simulator's settings.  All but one do:
  `UnorderedAsSet` fails, because `getopt()` takes no argument for `-u`.
- `ShowsWhatItSays`: labels and columns of a graph agree with what the parser wrote.

Bounds.  Two clients are enough for every race the server has (one connection in
the scan, one in the queue) and for the reuse of an entry and of a descriptor.
Messages of two bytes and a text of three give a full and a
short message; a window of two or three bytes makes `send()` wait and lets `read()`
return partial, single and joined messages.  The senders of UDP and DCCP share nothing
among each other, so one of them with two sockets has every case of the pacing; the
frame sizes in the configurations give the simulator's intervals.  The rates are
one that `setitimer()` refuses (1), the simulator's (250) and one with interval 0; the
pauses are none, one shorter (UDP) and one longer than the interval.  `gap` stops at
`MaxGap`, and no property tells larger numbers apart.  SCTP has messages of one size and a
window for one of them: the server's table, not the sizes, is what is at stake, with a
descriptor less than it needs and a stream less than the client uses.  Three frames of six
kinds put each kind before and behind each other one; longer traces repeat these.  In the
campaign two failures are a row that is missing or a file that stays, and one more behind it;
`IntMax` = 255 lies between the expected data of the instance's tests, so that
some of them wrap.  The text generator's periods 3 and 2
are out of step as 1024 and 26 are, and the lengths cover every remainder.

Deadlock is checked in all runs: `Finished` is the stuttering step of a test that is over,
and any other state without a successor would be reported.

Fairness.  DCE schedules every process that can run and the simulated network
delivers: `FairSpec` has weak fairness for the server's calls, for each client and for
the delivery on each connection (`ServerProgress`, `ClientProgress` and their like).  For UDP
it is each client, each timer, and that a datagram is read or dropped in the end; for DCCP
each client, each timer, the server and the network of each connection.  No fairness is
assumed for faults: `accept()` has to fail only when there is no descriptor, and
`connect()` only when the server has exited or, with packets, its queue is full, where they
cannot do anything else; `select()`, `setsockopt()` and a timeout of `connect()` may fail and
connections may break, but need not.  A client that waits in `connect()` is released by the
server that accepts or exits.  The generator is
sequential code: weak fairness of its next step.  Parser, campaign and plots have
safety properties only, and no fairness.

Two comments of the repository do not say what the code does and are of no consequence
for a test: SenderContent.h, line 31, has `fill()` return 1 while characters remain, but it
returns 1 for the last string too; and GraphCreator.cc, lines 79 to 85, describes columns of
an older format of the results.

## What is proved

TLAPS checks the theorems below for every value of the constants.

`SenderContentProofs`: `IInvHolds`, then `ChunkIsNextPieceHolds`, `FullUntilLastHolds`
and `WholeLengthSentHolds`.  The invariant is needed because the properties speak of
the moments at which `fill()` has returned: in between, `taken` is a multiple of the
payload and the first `i - taken` bytes of the buffer are the piece of the text.

`TypeCorrect` follows from the same invariant.

`TcpTransferProofs`: `IInvHolds`, then `TypeCorrect`, `ServerNeverBlocksInRead`,
`TotalsAreExact` and `NoConnectionForgotten`, all with faults allowed.  `IInv` says that
table, descriptors and connections are in step (`TableInv`), that a connection passes
through the queue once (`QueueInv`), that `select()`'s answer stays true for the entries
the scan has not reached (`SelectInv`: what is freshly accepted was closed when
`select()` answered, so it is not in the set), and that bytes are conserved (`CountInv`).
`NoConnectionForgotten` adds the pigeonhole principle: if all entries were taken, the
entries would use up the descriptors or the connections.  `SocketsInTurn` needs to
know where a client is in its plan while it sends: `PlanInv` numbers its messages over all
cycles and gives each socket its share of the messages so far.  `TotalsAreComplete` adds
`SumInv`: the kernel has all bytes that the clients are done with.  `CountIsExact` is the
refinement: without faults and with descriptors for all connections, every step of the
test is a step of `ByteCount` on one connection or a stutter.  Accepting, scanning and
delivering stutter; the client's `send()` and `close()` are `Offer` and `End`, the server's
`read()` is `Account` or, at the end of the stream, `Report`.

`UdpTransferProofs`: `IInvHolds`, then `TypeCorrect`, `PacedByTimer` and `PausesShow`.  The properties speak of the moment of `sendto()`; the invariant
carries the tick to it: a client about to send has met a tick of a running timer, and
behind a long pause the tick that ended the pause is counted before the client
enters `sigwait()`.  `TimerSilencesAll` needs `SilentInv`, which also says of a client that is
not past `signal()` that it has sent nothing, and that `sendto()` has a running timer.
`SocketsInTurn` rests on a `PlanInv` like that of TCP.  `LossIsTrue` rests on `LossInv`:
what is read, lost and in the air adds up to what the clients are done with, and every
datagram in the air is older than the next one of its client, so that no two are the same.

`PacketServerProofs` shows that each step of the shared server and of the kernel preserves
`ServerInv`: of every connection the bytes sent are those that were dropped, are on their
way, wait in the receive buffer or are counted (`Books`), less the -1 of a failed receive
(`Debt`); a connection is in the queue, then in one entry of the table, then has its total
(`PlaceInv`); nothing is on its way on a connection whose end the server can see
(`EndInv`).  The total alone is not inductive, because it says nothing until the entry is
freed.  `SctpTransferProofs` uses these lemmas for `TotalsAreTrue` and adds
the client's plan for `StreamsAreServedInTurn`.  `DccpTransferProofs` uses them through the
instance with pairs as connections and proves `TotalsAreTrue`, `TotalsAccountForAll` (with the
sum over all connections of what the clients are done with) and `PacedByTimer`.

`ResultsProofs`:

- The options: `PairTaken` says what one option and its word do to a client's settings,
  whatever the settings are, and `ConfiguredAsGiven` what all of them do.
- The campaign, for every span of amounts, any set of kinds to remove and any number of
  starts and failures: `CampaignInvariant` knows which amounts each protocol has been through at
  each point of a round, with a row or with one that could not be written, in which order the
  rows were made, and, of the kinds whose last `rm` has worked, which files may be there.  From
  it follow `ClientsGetTheirSettings`, `DiskIsCleaned` and `RowsStayInStep`.
- The parser, for every trace of every length and every cut: `ParserInvariant` keeps the place in
  the text (behind a frame that was given up its rest is still to be read), the words
  that may be judged again (never those of the frame to come), what is known of a frame when
  its kth line is next, and the totals over the frames that were judged.
  `RowTellsTheTrace`, `CutIsOneFrame` and the refinement `FramesAreCounted` follow: `EndFrame` is
  a step `Count` of `FrameCount`, `GiveUp` a step `Skip`, and all others are stutters.
- The plots: `PlotsAreAsked`.

`FiniteSums` proves what the library defines by folding: a sum over a set grows by the
value of the element that is added, wherever the fold begins.  Sums of the models are
written with `SumFunction` and `SumFunctionOnSet` for that reason.

All theorems assume the named assumptions of the constants only.  Every inductive invariant
was checked by TLC on the instances of the runs before it was proved; the invariants of
generator, TCP and UDP are properties of runs.

Model-checked only:

- The liveness properties `CycleEnds`, `EveryTotalPrinted`, `ClientsStop`, `TestEnds` and
  `ServedToTheEnd`: they rest on weak fairness, and the proof system cannot reason about
  `ENABLED`.
- `PauseKept` and `UnorderedAsSet`, which are violated.

## Plan

Done: the text generator, the four tests, the parser, the campaign with the options, the
plots, and proofs of every safety property that a run checks and of both refinements.
What may come next:

1. For SCTP and DCCP an abstract specification like `ByteCount`, in which bytes may be dropped,
   and the two tests shown to implement it.
2. The safety half of the liveness properties: when a TCP test without faults has stopped,
   every total is printed.
3. Type correctness of the remaining modules as theorems of their own (it is part of the
   invariants already).

## Not modelled

Log wording and addresses in log lines, name lookup (the simulator passes addresses),
mobility, wireless and animation settings, and ns-3 itself: `RunSimulation()` up to the end
of the simulation is one step of the campaign.  The derived columns of a row (percentages,
averages, speed) are formatting of the sums that are modelled, and the time to live and
addresses of a frame are printed only.  `GraphCreator.cc` is an older `NSplot` that `wscript`
does not build.  The build files, the kernel's compiler header and the conversion script
have no state.  Counts of bytes are unbounded: a connection's `int` total wraps
only after 2 GB, and the simulator sends at most 96 MB per client.
