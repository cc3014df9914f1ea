# A verification model of OFLmotes

OFLmotes is a small 802.15.4 sensor network: motes (RIOT-OS firmware in C) that
measure and transmit, a gateway board that prints the packets it receives on a
serial line, and a Linux server (Go) that stores them in InfluxDB. This
directory holds TLA+ models of its parts, the TLC runs that check them on small
instances, and proofs checked by TLAPS.

Paths below are relative to the repository; `teleinfo.c` and `main.c` are those
of `mote-devboard/apps/node-teleinfo`.

## 1. Inventory

### Teleinfo mote (`mote-devboard/apps/node-teleinfo`) -- modelled

Electricity meters print their readings forever, one line per field, at 1200
baud. Adapters, one per meter, are powered by a GPIO each and share one UART.

- *State.* `rx_teleinfo` (the meter listened to), the GPIOs, the UART's ring
  buffer, the message queue of the teleinfo thread, `results[]`, the reports on
  the heap, main's message queue, the radio's state and settings, the low-power
  lock.
- *Operations.* `teleinfo_rx_cb` (interrupt), `teleinfo_run` (thread: parse a
  line, compose a report, post it, sleep), `teleinfo_enable_rx` and
  `teleinfo_disable_rx`, `radio_on`, `radio_off`, `net_config`, `data_tx`, and
  main's cycle.
- *Interaction.* Interrupt to thread: ring buffer and a message per newline.
  Thread to main: a message with a pointer to a buffer. Main to thread:
  `rx_teleinfo`, `thread_wakeup`.
- *Hard.* Unprotected sharing of the ring buffer and of `rx_teleinfo`; queues of
  fixed size, one of which drops and one of which blocks; a thread that puts
  itself to sleep and may miss its wake-up; a modem that loses its settings.
- *Correct when.* One adapter drives the UART; a report carries the number of
  its meter and holds nothing else; at most one report per meter and cycle; no
  buffer leaks; the radio is configured when it transmits; nothing is on while
  the mote hibernates; the mote never stops.

### Gateway server (`mote-gateway/soft`) -- modelled

- *State.* `buftotal` (read and not yet cut into packets), the packet on the
  channel, the list `ps`, the database, the serial line.
- *Operations.* `serialworker` (configure the board, read, cut out a packet,
  send it), `main` (receive, decode, append, push), `push_influx`.
- *Interaction.* Two goroutines meet on a channel without a buffer; the server
  drives the board with shell commands it does not check.
- *Hard.* Reads cut the line anywhere; a slow database stops the reading; writes
  whose outcome is unknown are repeated; crashes lose what is in memory; the
  board restarts in the middle of a packet; points are told apart by mote and
  second only.
- *Correct when.* A packet becomes one point, in order, unless something was
  lost, and what was stored is replaced only by a later packet of the same mote
  and second; packets are never joined; a backlog is written.

### Gateway firmware (`mote-gateway/hard`) -- modelled

- *State.* The interface's channel, PAN, address and promiscuous mode; the
  pktdump thread, its message queue and the packet in its hands; the packet
  buffer; the serial line.
- *Operations.* A shell (`net chan|pan|addr|promisc|pktdump|info`, `help`,
  `reboot`, `about`), reception by the network stack, `_dump`, and the dump
  helpers of `myutils.c`. A third thread only blinks.
- *Interaction.* The server drives the shell; shell and pktdump thread share the
  serial line, and the server reads what they print.
- *Hard.* Numbers parsed by `atoi` into 16 bits; counters of one byte against
  lengths of more; a bounded queue in front of a shared packet buffer;
  initialisation that must happen once; two writers of one line.
- *Correct when.* The motes are heard after the server's commands; a packet is
  printed in one piece, to its end; its buffer is given back once.

### First Teleinfo mote (`mote-sensors/mote-teleinfo`) -- modelled

- *State.* `results` with sentinel values, `cur_pitinfo`, the ring buffer, the
  queues of two threads, the UART, the radio, `loop_cntr`.
- *Operations.* `rx_cb` (interrupt), `processor_thread` (parse a line, transmit
  a report itself, tell the blinker, switch the UART off), `blinker_thread` (two
  seconds per message), main's cycle of two windows and a pause.
- *Interaction.* `results` and `cur_pitinfo` are shared without a lock; the
  processor blocks when the blinker's queue is full.
- *Hard.* `results` are reset to 0, which counts as received, so that more
  reports follow the first; each of them occupies the blinker for two seconds,
  and a processor held up there would wake in another window, zero its results
  and switch its UART off.
- *Correct when.* The processor is done with a window when main turns to the
  next; the first report of a window is real and of one meter; nothing is on
  during the pause; the battery is reported in time.

### Weather mote (`node-bme280`) -- modelled

- *State.* The readings in the widths of C, the snips in the packet buffer.
- *Operations.* `net_config`, `sensors_config`, then a loop: `sensor_measure`,
  `sprintf`, `data_tx`, a look at the buttons, a pause.
- *Interaction.* The text it sends is read by `decode_packet` of the server.
- *Hard.* Every step may fail and none stops the loop; the sign of the
  temperature; the text of a silent sensor; what `data_tx` releases.
- *Correct when.* The server stores what was measured; nothing leaks; the loop
  goes on.

### Not modelled

- `radio_on` and `radio_off` of the weather mote: their flag is 0 and nothing
  sets it.
- The `GUARD` code of `board_init`, compiled only on request, and the other
  functions and tables of `boards/oflmote-dev`: pins, clocks, straight-line
  initialisation. Only `modem_clock_init` waits for something; it is a step of
  `BmeNode`.
- LoRa mote (`node-sx1276`): joins once, then blinks.
- Test applications (`apps/tests`): manual hardware tests.
- Schematics, Makefiles, debugger configuration.
- The digits of the meters' values, LEDs, the battery's voltage at the Teleinfo
  motes, and the wording of messages. The unterminated `buffer[]` of a full ring
  buffer (`teleinfo.c:125`) needs a model of bytes; in `TeleinfoNode` what such
  a line yields is `Corrupt`.

## 2. Modules

| module | what it is |
| --- | --- |
| `ReportCycle` | what the Teleinfo mote promises: windows in order, at most one report each, transmitted in order |
| `TeleinfoNode` | the Teleinfo mote in detail; implements `ReportCycle` |
| `TeleinfoNode_proofs` | TLAPS proofs about `TeleinfoNode` |
| `MCTeleinfoNode` | its instances for TLC |
| `InfluxDB` | the database as far as the server depends on it: points, and what a point replaces |
| `StoreAndForward` | what the gateway server promises: points stored once, in order, lost only by a crash; extends `InfluxDB` |
| `GatewayServer` | the gateway server in detail; extends `InfluxDB`, implements `StoreAndForward` |
| `GatewayServer_proofs` | TLAPS proofs about `GatewayServer` |
| `PacketsConserved_proofs` | those about a line that lost nothing |
| `MCGatewayServer` | its instances for TLC |
| `PacketPrinter` | what a reader of the board's serial line may rely on, and what `GatewayServer` assumes |
| `HexDump` | the loops over bytes in `myutils.c` and `pktdump.c` |
| `GatewayFirmware` | the gateway board; extends `HexDump`, implements `PacketPrinter` |
| `GatewayFirmware_proofs`, `MCGatewayFirmware` | its proofs and instances |
| `PitInfoMote` | the first Teleinfo mote, with time in seconds |
| `PitInfoMote_proofs`, `MCPitInfoMote` | its proofs and instances |
| `BmeNode` | the weather mote and what the server reads of its packets |
| `BmeNode_proofs`, `MCBmeNode` | its proofs and instances |
| `SetInduction` | lemmas: induction and recursion on numbers, for the proofs of loops and recursive functions |

Operators named as "faulty variant" in their comment are mutations of the
definition that follows; no specification uses them. Each shows, put in place of
the definition it mutates, that a property is sensitive to that code.

### TeleinfoNode

| code | model |
| --- | --- |
| `teleinfo_rx_cb`, `teleinfo.c:56` | `RxHead`, `RxTail`, `RxOther` (characters), `RxNewline` |
| `ringbuffer_add_one` (RIOT) | `Stored`; `Received` adds the race with `ringbuffer_get` |
| `teleinfo_run`, `teleinfo.c:109` | `MsgReceive`, `LineParsed` or `ReportReady`, `SendReport`, `StopAndSleep` |
| `teleinfo_enable_rx`, `:79` | `EnableRx`, `PowerAdapter`, `WakeTeleinfo`: its three effects, since interrupts and the thread may come between them |
| `teleinfo_disable_rx`, `:95` | `DisableRx`, `UnpowerAdapters` |
| `teleinfo_init`, `:206`; `net_config` at boot | `Init`: there may be no thread and no interface |
| main's cycle, `main.c:273` | `StartCycle`, the windows, `RadioOn`, `RadioInit`, `SendMetrics`, `TakeReport`, `ForwardReport`, `Hibernate` |
| `radio_on`, `radio_off`, `main.c:203` | `RadioOn`, `RadioInit`, `RadioOff`; `ModemBoots` is the modem's interrupt line |
| `net_config`, `:126` | `NetConfig`, in `Init` and in `RadioInit` |
| `TELEINFO_PRIO` | `TeleReady`: main runs only while the thread cannot |

*Text.* A line is a head (label and all digits but the last) and a tail (last
digit and checksum), so that a truncated line is too short for the parser's
`strlen` tests and a head followed by anything else is not. A value is the meter
it came from, `Missing`, or `Corrupt` when it is put together from two lines.
`results[f]` is `Missing` when the field's bit in `state` is clear.

*The race* of `ringbuffer_add_one` with `ringbuffer_get` (which RIOT leaves to
the caller to protect, and the code does not) is a choice: the character is
stored, lost, or turns into junk.

*Queues.* The thread's queue drops the interrupt's message when it is full
(`msg_send` in an interrupt does not block). Main's queue blocks the thread
until `msg_try_receive` makes room; the message of the blocked sender is then
queued and the sender released.

*External.* RIOT's ring buffer, scheduler, messages and `thread_wakeup`, the
modem and the meters are modelled from how the code uses them. The driver
starts with acknowledgements and returns to that default when the modem is
reset. `gnrc_netapi_get` and `_set` fail without an interface, and `radio_on`
then tests an uninitialised variable: both branches are possible. `net_config`
reports a setting that the driver refuses, or an address that cannot be parsed,
and goes on with the next: all settings are made, or only some (`"partly"`).

### GatewayServer

| code | model |
| --- | --- |
| `_dump`, `pktdump.c:51` | `PrintOpen`, `PrintClose`: a packet is printed in two pieces; `PrintText` is the line before it (`:121`) |
| text that is no packet and no prompt | the flag `text`: all it does is make a `Read` return |
| the kernel's serial buffer | `tty`, `Arrives`: what arrives at a full buffer, or before `serialworker` has opened the port (`PortOpen`), is lost |
| `serialworker`, `mote-gateway.go:180` | `OpenPort`, `OpenPortFails`, `Configure`, `ConfigureFails`, `ReadSerial` |
| the regular expression, `:210` | `Matches`, `Found` (leftmost), `NoMatch` |
| `main`, `:251` | `Handover`: the channel, `decode_packet` and `PushBack` |
| `decode_packet`, `:66` | `Cut`: the mote and the names of the fields; of text put together from several packets, any |
| `push_influx`, `:123` | `CreateClient`, `CreateClientFails`, `WriteSucceeds`, `WriteFails`, `ListEmpty`; `Written` is the point of lines 144-172 |
| InfluxDB | `Merged` of `InfluxDB` |
| panic, `log.Fatal`, kill | `Dies` (in `Killed` and the three failures), `Start` |
| the board's restart | `BoardResets`: it prints a prompt and dumps nothing any more |

A `Write` that fails is one of three: the database was unreachable and nothing
was stored; the point was stored and the answer lost or late; or the point is
refused whatever happens (`Refused`: NaN fields, a field whose type changed).
The model assumes that a request that timed out is applied, if at all, before
the next attempt of the same packet.

*The database.* A point has one tag, `ID`, which is the mote's address, and a time
in seconds, which `serialworker` takes once, when it cuts the packet out. For
InfluxDB that is all its identity: a point whose mote and second are there already
adds its fields to that row, and replaces the values of those that both have.
So `db` is a function of cells (mote, second, field), each with the packet whose
value it holds, and `Merged` is a write. A packet of the same mote and second
thus takes the place of an earlier one, in `RSSI` and `LQI` at least, while the
retry of a write changes nothing. `written` is a history of the points in the
order of their first write: what a packet loses to a later one can be told from
what is lost in any other way.

### GatewayFirmware

| code | model |
| --- | --- |
| `cmd_net`, `main.c:153` | `NetChan`, `NetPan`, `NetAddr`, `NetPromisc`, `NetPktdump`; `info`, the other commands and unknown ones are `OtherCommand` |
| what a command prints | `Reply`, after the command and only while the pktdump thread is not ready |
| `gnrc_pktdump_init`, `pktdump.c:138` | `NetPktdump`: the thread is created once |
| reception (gnrc) | `FrameArrives`: handed over, queued, or not kept |
| `_eventloop`, `_dump` | `MsgReceive`, `DumpOpen`, `DumpByte`, `DumpClose` |
| `dump_hex`, `myutils.c:34` | `HexStart`, `HexStep`, `HexRun` of `HexDump` |

`Script` is what the server writes when it starts; the history `step` tells
whether exactly that was typed since the board started. The order of commands is
otherwise free, as are their arguments (`Numerals`, `Addresses`). The driver's
checks of a channel and of an address's length, and its address filter
(`Accepts`), are external. A packet that the stack cannot keep is released at
once, so it changes nothing. `Next` resets the board at any moment. The cases of
`_eventloop` for packets to be sent, for options and for other messages
(`pktdump.c:120-130`) are left out: nothing in this firmware sends the thread such
messages. Nor has it a caller of `dump_hex` and `dump_hex_compact`; their loops are
modelled because they share the counter of one byte with `_dump`.

### PitInfoMote

| code | model |
| --- | --- |
| `rx_cb`, `main.c:231` | `RxText`, `RxNewline` |
| `processor_thread`, `:160` | `MsgReceive`, `Process` (to the call of `data_tx`), `Notify` (`msg_send` to the blinker), `Stop` |
| `blinker_thread`, `:134` | `Blink`: LED on for a second, off for a second, next message |
| `xtimer_sleep` | `Tick`: a second passes only when no thread is ready |
| `prepare_all`, `:268` | `Booted`: UART and interface may be missing |
| main, `:347` | `Greet`, `StartCycle`, `SelectMeter`, `ResetResults`, `OpenWindow`, `CloseWindow`, `Hibernate`, `WakeUp` |

Text is in the chunks of `TeleinfoNode`. A result is the meter it came from,
`Zero`, `Missing` (-1) or `Corrupt`. `fresh` is a history variable: no report
since main reset the results; `clean` says that the ring buffer was empty then;
`age` counts the cycles since the last battery message.

### BmeNode

| code | model |
| --- | --- |
| `modem_clock_init`, `board.c:27` | `ModemStarts` |
| `net_config`, `sensors_config` | `NetConfig`, `SensorsConfig`, which may fail |
| `sensor_measure`, `main.c:81` | `Measure`, with `Magnitude` for lines 86-89 |
| `sprintf`, `:315` | `Decimal`: sign, whole part and hundredths, with C's `/` and `%` |
| `data_tx`, `:104` | `AddPayload`, `AddHeader`, `Send`: each may fail |
| the buttons and the pause | `ReadButtons`, `WakeUp`, `Stay` |
| `decode_packet`, `mote-gateway.go:66` | `Decoded`, with `ParseFloat` |

## 3. Runs

| run | checks | instance |
| --- | --- | --- |
| `teleinfo_cycle` | invariants, `ImplementsCycle` | 2 meters, 2 fields, 3 chunks of ring buffer, queues of 1 and 2 |
| `teleinfo_full_queue` | liveness, `HeapAccounted`, `ImplementsCycle` | main's queue of 1, fewer than the meters |
| `teleinfo_meter_purity` | `MeterPurity`, violated | as the first, thread's queue of 2 |
| `teleinfo_first_acks` | `NoAcks`, violated | small |
| `gateway_server` | invariants, `ImplementsStore` | 3 packets of one mote, one of them refused and one with fewer fields, and a second mote; 3 pieces in the kernel, times 0 and 1 |
| `gateway_server_live` | liveness | 2 packets, none refused, 4 pieces in the kernel, a clock that stands |
| `pitinfo_delays` | invariants | the code's meters, queues of 8, windows of 10 s and pause of 60 s; 2 fields, 2 chunks of ring buffer |
| `pitinfo_live` | `BatteryRegular`, `RestsForever` | queues of 2, windows of 6 s, pause of 12 s, a counter of 6 values and a period of 5 |
| `gateway_firmware` | invariants, `ImplementsPrinter`, `DumpsEnd` | 3 frames, 5 numerals, 3 addresses, a queue of 2, 3 buffers, bytes of 32 values and rows of 8 |
| `gateway_firmware_pan` | `PanAsDocumented`, violated | the same |
| `bme_node` | invariants, `ReadingsStored`, `MeasuresForever` | temperatures from -40 to 85 degrees with both sides of 0, and 3 or 4 values of the others |
| `bme_sign` | `TemperatureStored`, violated | the same |

*Bounds.* Two meters are the code's number. Two fields are enough for a report
that is complete, half complete or mixed; the third is treated like the others.
A line is two chunks, so a ring buffer of three holds a line and a half: it
overflows in the middle of a line, keeps the remainder of one for the next
window, and joins two. The thread's queue of 1 fills and drops; the code's 8
differs only in how long that takes. Main's queue of 2 is what the cycle needs;
1 makes the thread block. Nothing bounds the number of cycles or of lines: the
state space is finite by itself. Three packets allow a reordering around a
retry, a backlog of two and a refused one in the middle; all are of one mote, so
that the two that are stored, of which one has `RSSI` only, replace each other's
values when they are of one second; the second mote is what text put together
from two packets may name. The live run has no refused packet, for behind one
there is no progress to check. A packet is two pieces, so a buffer of three pieces
loses either half of a packet; two values of the clock tell the time of reading
from that of writing.

`pitinfo_delays` has the code's own delays, because the property is about
them; to make up for its size it leaves out `loop_cntr` (a counter of one value),
which `pitinfo_live` has: 6 is to 5 as 256 is to 5, one more than a multiple.
A ring buffer of two chunks holds one line and overflows on the second. In
`gateway_firmware` a queue of 2 and 3 buffers reach every combination of a packet
in hand, queued and refused; a byte of 32 values stands for 256, and 4 rows of 8
for 16 rows of 16: what matters is that the limit of the counter is a multiple of
the row. The frames have no payload, the longest one, and another PAN. The
numerals are those of the script, one out of range for a channel, one of more
than 16 bits and one in hexadecimal. The readings of `bme_node` include -0.05,
9 hundredths, whole degrees and the sensor's INT16_MIN.

*Symmetry.* The fields of the meters are interchangeable; symmetry is used only in
runs without liveness.

*Fairness.* Teleinfo: the thread runs when it is ready, main when the thread is
not, for the thread needs microseconds per line and a line takes tens of
milliseconds (`TeleCatchesUp` says that the thread is idle again and again); a
modem out of reset signals its start. Meters owe nothing: they may be silent.
Server: goroutines run and calls return (`ReadTimeout`, the client's `Timeout`),
opening the port included; the board finishes the packet it prints, and other text follows (motes report
every minute). Nothing is assumed of the database or of the packets.
Board: the pktdump thread runs when it is ready, being above the shell; no
command and no frame need ever come. First mote: as for the Teleinfo mote, the
processor catches up with 1200 baud (`ProcCatchesUp`), main runs and seconds pass
then (strong fairness, because lines may interrupt them again and again). Weather
mote: its only thread runs, and the modem starts.

*What the runs show.*

- `SharedUart`, `ListensAwake`, `HibernatesQuietly`, `RadioReady`: the switching
  of adapters, thread, low power and radio is right in every interleaving.
- `ReportLabelled`, `OneReportPerMeter`: main resets `rx_teleinfo` while a
  report may be half parsed. Labels are right only because the thread has the
  higher priority (its mutant drops `TELEINFO_PRIO`).
- `HeapAccounted`, `NeverBlocked`: the unchecked `malloc` and the blocking
  `msg_send` are harmless with main's queue of 8.
- `PureFromClean`: in a window that began with nothing left over, races,
  overflows and dropped messages lose fields or corrupt them, but never bring
  in another meter's value.
- `CyclesForever`, `ReportsFreed`, `ThreadWakes`: the mote never stops, even
  when the thread blocks, is missing, or there is no interface.
- `PacketsConserved`, `StoredOnceInOrder`, `IntactPackets`: with resets,
  crashes, overflows and unknown outcomes of writes, packets are lost but never
  duplicated, reordered or (short of an overflow) joined, and a stored value is
  replaced only by a later packet of its mote and second.
- `PrintedAccepted`, `BacklogWritten`: one packet per read and a list that is
  written when a packet comes are enough as long as there is traffic, nothing is
  lost and no refused packet is at the head of the list.
- `HandoverQuiet`, `FirstReportReal`: the reports of zeros that follow a report
  stay in its window. This rests on the blinker's queue, the windows and the
  pause together, and on the processor's priority over main (its mutant).
- `PauseQuiet`, `RestsForever`: a blocked processor is released during the pause
  at the latest, and switches nothing on or off that matters then.
- `BatteryRegular`: the wrap of `loop_cntr` makes one period shorter, none
  longer.
- `BufferAccounted`, `ImplementsPrinter`, `DumpsEnd`, `HexDumpExact`: packets are
  printed in one piece, to the end, and given back once, for sizes below 256. A
  frame of 802.15.4 has 127 bytes at most.
- `MotesHeard`: the decimal PAN of the server survives an `int16_t`.
- `SnipsReturned`, `ReadingsStored`, `MeasuresForever`: no failure leaks or stops
  the weather mote, and what it sends is read back to the hundredth, but for the
  sign. The text of a silent sensor, `-327.-68`, is no number: `decode_packet`
  drops `ParseFloat`'s error and stores 0 degrees.

*Findings.*

- `MeterPurity`: nothing resets `results[]` or the ring buffer between two
  windows. A window too short for every field leaves values that are reported
  under the other meter's number.
- `NoAcks`: acknowledgements are disabled only by a `radio_on` that finds the
  radio off, which the first one after boot does not.
- `PanAsDocumented`: the shell's help offers `net pan 0xXXXX`, and `atoi` makes 0
  of it.
- `TemperatureStored`: the sign of a temperature is lost between
  `sensor_measure` and `sprintf`; -0.05 degrees are stored as 0.05.

The models also show what the code does not promise, and no property claims:
packets of one mote that are cut out in the same second replace each other's
values (the first mote's report of zeros follows its report within milliseconds,
with the same keys, and may overwrite it); a refused packet blocks the list for
good; an overflow of the kernel's buffer loses packets, or joins two; packets stay in memory until the next
one comes; a board that restarts alone is not configured again; a thread that
completes a report between `rx_teleinfo=c` and `thread_wakeup` is woken up with
`rx_teleinfo` at 0 and misses that window; the first mote sends a report of zeros
for every line that follows a report in its window, until the message of the
last newline is processed; a packet of 256 bytes would be printed forever.

## 4. Proofs

`TeleinfoNode_proofs` proves for every number of meters, set of fields (at least
two) and size of ring buffer and queues:

| theorem | statement |
| --- | --- |
| `TypeCorrect`, `SharedUartHolds` | from `Inv1` |
| `ListensAwakeHolds`, `ReportLabelledHolds`, `HeapBoundedHolds`, `HibernatesQuietlyHolds`, `RadioReadyHolds` | from `Inv1 /\ Inv2` |
| `NeverBlockedHolds` | the same, if main's queue has a place per meter |
| `OneReportPerMeterHolds` | from `Inv1 /\ Inv2 /\ OrderShape` |
| `HeapAccountedHolds` | from `Inv1` |
| `WaitsJustifiedHolds` | from `Inv1 /\ Inv2`: who waits waits for something that can come |
| `PureFromCleanHolds` | from `CleanShape` and `NeverBlockedHolds`, if main's queue has a place per meter |
| `Refinement` | `Spec => ImplementsCycle`, a step of the mote is a step of `ReportCycle` or a stutter |

*Assumptions:* `MeterAssumption`, `FieldAssumption` and `SizeAssumption` of
`TeleinfoNode`, which TLC evaluates on every run.

*The argument.* `Inv1` has the types, the adapters as a function of main's place
in the window (`MainShape`), and the number of buffers on the heap (`HeapCount`).
It is inductive but says nothing of the thread. `Inv2` adds why a label is never
0: when main is at a place where `rx_teleinfo` may be 0, the results are
incomplete or the thread sleeps (`ThreadShape`, `LabelShape`); what is over when
the mote hibernates (`QuietShape`, `RadioShape`); and a count of the reports the
rest of the cycle may still bring (`Credit`), which bounds the heap. The order of
the reports needs `OrderShape`: every outgoing label is at most the current
window, and equal to it only if the thread no longer listens. The refinement then
goes action by action over `Window` and `Labels`. `CleanShape` follows the
content of the ring buffer and of `results` through a window that began with
nothing left over; the condition on main's queue is needed, for a report that
stays blocked could otherwise outlast the window it was made in.

`GatewayServer_proofs` proves for every set of packets, refused or not, of any
motes and with any fields, every size of the kernel's buffer and any clock:

| theorem | statement |
| --- | --- |
| `TypeCorrect` | from `Typed` (the types, and that a whole packet is on the channel) |
| `StoredOnceInOrderHolds` | from `StoredInv`, which is `OrderInv /\ Latest` |
| `Refinement` | `Spec => ImplementsStore` |
| `IntactPacketsHolds` | from `OrderInv /\ IntactInv` |
| `PacketsConservedHolds` | from `ConservedInv` and `StoredInv`, in `PacketsConserved_proofs` |
| `RestReadableHolds` | from `ConservedInv`, there too |
| `FoundOnce` | of any text with a match exactly one is the leftmost |

*Assumptions:* `PacketAssumption`, `ContentAssumption` and `TtyAssumption`.

*The argument.* A packet goes from `Feed` (what was printed and not cut out) to
`Cuts` (the list, then the channel) and to `written`. `OrderInv` says that along this
way packets are in the order of printing, whatever is missing, and that what is
in the list and was written is the list's head alone, as the last point written
(`StoredThenCut`): this is what makes the repeated write of a packet harmless. A
few lemmas say that this `Ordered` survives an arrival, a cut, a write, the
removal of a written head and the loss of everything; each action is then one of
these. The refinement removes such a head from the list, so that a write whose
answer is lost is the step that stores. `Latest` ties the database to `written`:
each cell holds the last packet written that has a value for it (`HoldsLast`).
Because a point that is written again is the last one of `written`, merging it
again changes nothing (`RewrittenSame`), and a write that was done twice is one
step of the store and a stutter (`WrittenRefines`). `IntactInv` says of a line
that did not overflow while the port was open that the piece after the beginning of a packet is its end or a prompt
(`WholeFeed`), so that whatever the regular expression matches is one packet.

`ConservedInv` adds `NothingMissing` to `OrderInv`: unless something was lost,
what was cut out is the beginning of what was printed (`CutsPrinted`), and the
line, read or not, is made of the packets that follow, one open and one close
piece each, and of half a packet at its end (`LineWhole`). An arrival extends that
line (`LineOpens`, `LineCloses`). Wherever a read ends, the leftmost match, if
there is one, is the first two pieces (`FirstMatch`), so that a cut takes the next
packet and leaves a line of the same form (`LineCut`). A handover moves the packet
along, and storing moves the head of the list to the end of `written`, where
the refinement's `Pending` makes a repeated write a stutter (`WrittenMoves`). That a
written value is replaced by later ones only (`ReplacedByLaterHolds`) is `Latest`.
`PacketsConserved` itself speaks of the close pieces on the line, selected by the
recursive function `Closes`, which `ClosesRun` unrolls by `BoundedInduction`.

`PitInfoMote_proofs` proves for every set of fields, size of the ring buffer,
width of `loop_cntr` and period, and for all queues and delays that satisfy
`TimingAssumption`:

| theorem | statement |
| --- | --- |
| `TypeCorrect`, `PauseQuietHolds` | from `Inv1` (types, what is powered when, who may be blocked) |
| `HandoverQuietHolds` | from `WorkInv` |
| `FirstReportRealHolds` | from `WorkInv /\ FreshInv` |
| `PureFromCleanHolds` | from `WorkInv /\ CleanInv` |
| `BatteryRegularHolds` | from `AgeInv` |
| `NoCircularWaitHolds` | from `Inv1`: who blocks the processor is only waiting for time |

*Assumptions:* `ConstantAssumption`, `FieldAssumption`, and `TimingAssumption`:
two meters, a processor's queue no longer than the blinker's, windows of 6 s or
more, and a pause of at least four seconds per message of the processor's queue
and one more. The code has 8, 8, 10 s and 60 s.

*The argument.* `Load` is the number of seconds the blinker still needs for what
it has, `ToCome` the messages that the processor may still send with the lines it
holds; `Load + 2 * ToCome` is the work. A step of the processor does not increase
it, a second takes one off it, and a window adds at most `Burst`, two seconds for
each line that can be queued after the UART is off and for the one in hand,
because the first report of a window switches the UART off. `WorkInv` bounds the
work by main's place and its timer: a first window ends with at most one `Burst`
of it, two windows leave at most two, and the pause is long enough for them.
A blocked processor stands for more than one `Burst` (a full queue at the
blinker, a message being blinked and its own), so at the end of the first window
and of the pause it is not blocked, and main only runs when it is not ready:
there it is quiet. `BatteryRegular` follows from a lemma on
remainders: between two multiples of the period, or from the last one to the
wrap, there are fewer cycles than the period.

`GatewayFirmware_proofs` proves for every set of frames, numerals and addresses,
sizes of the queue and the packet buffer, width of a byte and of a row:
`TypeCorrect`, `BufferAccountedHolds`, `MotesHeardHolds` and `PrinterRefinement`.
The inductive invariant says what the thread holds (`HeldInv`), that the line is
open only while it prints (`LineInv`), that it has a queue only when it exists
(`QueueInv`), and which settings each prefix of the server's script leaves
(`ScriptInv`). `DumpAdvances` says that the byte counter of `_dump` does not wrap,
and `DumpLimit` that the sizes `FrameAssumption` admits are all that end.
`HexDumpExactHolds` proves the two nested loops of `dump_hex`: before its k-th step
it has read the first k bytes and stands at row k div `PerRow` (`HexLoop`,
preserved by `HexLoopStep` since neither counter can wrap below `ByteSize`), from
which `HexDumpReads` follows by induction on the steps. `BmeNode_proofs` proves `TypeCorrect`, `SnipsReturnedHolds` and
`ReadingsStoredHolds` for every reading that fits its type; the latter needs
arithmetic of `/` and `%` only.
*Assumptions:* those of the modules (`FrameAssumption`, `NumeralAssumption`,
`QueueAssumption`, `HexAssumption`; `ReadingAssumption`), all evaluated by TLC.

*Induction.* The library's induction theorems take an operator as a parameter,
which the provers cannot instantiate. `SetInduction` states induction with a set
instead: a set of numbers that lacks one lacks a least one, by the library's
`WFMin`. From it follow induction up to a bound (`BoundedInduction`) and, by an
induction on the length of an approximation, that a function defined by
recursion exists (`RecursionExists`), which is what must be known before a
recursive definition can be unfolded.

*Only model-checked:* liveness, which is outside the prover's reach:
`CyclesForever`, `ReportsFreed`, `ThreadWakes`, `PrintedAccepted`,
`BacklogWritten`, `RestsForever`, `DumpsEnd`, `MeasuresForever`. Every other
property of the passing runs is a theorem. Of four of the liveness properties
the safety half is proved too: nobody waits for something that cannot come
(`WaitsJustifiedHolds`, `NoCircularWaitHolds`), a loop only goes forward
(`DumpAdvances`), and what was read can be cut out (`RestReadableHolds`).

## 5. What is left

The plan's modules are written: mote, board and server, the first mote and the
weather mote. Board and server are connected by `PacketPrinter`, which the board
implements and whose packets and text are the events of the server's line; mote
and server by `BmeNode`'s `Decoded`; mote and board by `MotesHeard`. One
specification of all three running together would add the radio's losses and
nothing that these interfaces do not have. A model of the parser's bytes would
cover `teleinfo.c:125` and the width of `papp`.
