---------------------------- MODULE TeleinfoNode ----------------------------
(***************************************************************************)
(* The Teleinfo mote: mote-devboard/apps/node-teleinfo (teleinfo.c and     *)
(* main.c).  Electricity meters continuously print their readings, one     *)
(* line per field, on one UART that they share.  Three actors run:         *)
(*                                                                         *)
(*   - the UART interrupt (teleinfo_rx_cb) stores characters in a ring     *)
(*     buffer and sends a message to the teleinfo thread on every newline; *)
(*   - the teleinfo thread (teleinfo_run) parses a line per message and,   *)
(*     once it has every field, posts a report to main and goes to sleep;  *)
(*   - main powers the meters' adapters one after the other, then switches *)
(*     the radio on, transmits the reports and hibernates.                 *)
(*                                                                         *)
(* The teleinfo thread has the higher priority, so main only runs while    *)
(* that thread cannot (TeleReady); interrupts come between any two steps.  *)
(*                                                                         *)
(* Characters are grouped in chunks: the "head" of a line is its label and *)
(* every digit but the last, its "tail" the last digit and the checksum,   *)
(* so that a head alone is too short for the strlen tests of the parser    *)
(* and a head followed by any other chunk is not.  Junk is every other     *)
(* text: lines of fields that are not collected, and garbled characters.   *)
(***************************************************************************)
EXTENDS Integers, Sequences, FiniteSets

CONSTANTS
    NumMeters,      \* power meters that share the UART (2 in main.c:280)
    Fields,         \* fields of a report (BASE, PAPP and IINST)
    RingSize,       \* capacity of the ring buffer, in chunks
    TeleQueueSize,  \* message queue of the teleinfo thread (8)
    MainQueueSize   \* message queue of main (8)

Meters  == 1 .. NumMeters
Missing == 0        \* a field not received since the last report
Corrupt == -1       \* a value put together from the text of two lines

Sources == Meters \cup {Missing, Corrupt}
Results == [Fields -> Sources]
Empty   == [f \in Fields |-> Missing]

LineHead(f, m) == [part |-> "head", field |-> f, meter |-> m]
LineTail(f, m) == [part |-> "tail", field |-> f, meter |-> m]
Junk        == [part |-> "junk"]
Chunks      == [part : {"head", "tail"}, field : Fields, meter : Meters]
               \cup {Junk}

Reports  == [label : Meters \cup {0}, values : Results]
NoReport == [label |-> 0, values |-> Empty]

ASSUME MeterAssumption == NumMeters \in Nat \ {0}
ASSUME FieldAssumption ==
    /\ \E f, g \in Fields : f # g
    /\ \A f \in Fields : f \notin {"label", "newline"}
ASSUME SizeAssumption ==
    /\ RingSize \in Nat \ {0, 1}
    /\ TeleQueueSize \in Nat \ {0}
    /\ MainQueueSize \in Nat \ {0}

VARIABLES
    rx,         \* rx_teleinfo: the meter listened to, 0 when none
    powered,    \* adapters whose power GPIO is set
    line,       \* what a powered meter prints next
    ring,       \* content of the UART's ring buffer
    teleQ,      \* newline messages queued at the teleinfo thread
    telePc,     \* where the teleinfo thread is
    results,    \* results[]: for each field, where its value comes from
    tbuf,       \* the report in the hands of the teleinfo thread
    mainQ,      \* reports queued at main
    mainPc,     \* where main is
    meter,      \* c, the meter of the current window
    held,       \* the report main is transmitting
    heap,       \* buffers allocated and not freed
    radio,      \* transceiver, and the driver's settings for it
    pmBlocks,   \* PM_BLOCK(KINETIS_PM_STOP) not yet undone
    clean       \* history: the window began with nothing left over

teleVars == <<teleQ, telePc, results, tbuf>>
uartVars == <<powered, line, ring>>
mainVars == <<mainPc, meter, held, radio, pmBlocks, clean>>
vars == <<rx, uartVars, teleVars, mainQ, mainVars, heap>>
-----------------------------------------------------------------------------
(***************************************************************************)
(* The UART: a powered meter prints forever, from wherever it is when the  *)
(* adapter is switched on.  line is "label" before a line, f between the   *)
(* head and the tail of a line of field f, and "newline" before its end.   *)
(***************************************************************************)
LinePositions == {"label", "newline"} \cup Fields

\* Faulty variant: the capacity is not tested.
StoredUnchecked(r, chunk) == {Append(r, chunk)}

\* ringbuffer_add_one: a full buffer drops its oldest characters, which may
\* leave a piece of a chunk in front.
Stored(r, chunk) ==
    IF Len(r) < RingSize
    THEN {Append(r, chunk)}
    ELSE LET shifted == Append(Tail(r), chunk)
         IN  {shifted, [shifted EXCEPT ![1] = Junk]}

\* The interrupt may come in the middle of the thread's ringbuffer_get, which
\* is not protected: the character is then lost or lands out of place.
Received(chunk) ==
    \/ ring' \in Stored(ring, chunk)
    \/ /\ telePc = "drain"
       /\ \/ ring' \in Stored(ring, Junk)
          \/ UNCHANGED ring

\* teleinfo_rx_cb for the characters of a chunk: ignored unless rx_teleinfo.
RxCharacters(chunk) ==
    /\ IF rx # 0 /\ telePc # "absent" THEN Received(chunk) ELSE UNCHANGED ring
    /\ UNCHANGED <<rx, powered, teleVars, mainQ, mainVars, heap>>

RxHead(m, f) ==
    /\ m \in powered /\ line = "label"
    /\ line' = f
    /\ RxCharacters(LineHead(f, m))

RxTail(m, f) ==
    /\ m \in powered /\ line = f
    /\ line' = "newline"
    /\ RxCharacters(LineTail(f, m))

\* A line of a field that is not collected (ADCO, OPTARIF, PTEC...).
RxOther(m) ==
    /\ m \in powered /\ line = "label"
    /\ line' = "newline"
    /\ RxCharacters(Junk)

\* teleinfo_rx_cb for a newline: the message is handed to a waiting thread,
\* or queued, or dropped when the queue is full (msg_send in an interrupt
\* never blocks).
NewlineMessage ==
    IF rx = 0 \/ telePc = "absent"
    THEN UNCHANGED <<teleQ, telePc>>
    ELSE IF telePc = "receive" /\ teleQ = 0
         THEN telePc' = "drain" /\ UNCHANGED teleQ
         ELSE /\ teleQ' = IF teleQ < TeleQueueSize THEN teleQ + 1 ELSE teleQ
              /\ UNCHANGED telePc

RxNewline(m) ==
    /\ m \in powered /\ line = "newline"
    /\ line' = "label"
    /\ NewlineMessage
    /\ UNCHANGED <<rx, powered, ring, results, tbuf, mainQ, mainVars, heap>>
-----------------------------------------------------------------------------
(***************************************************************************)
(* The teleinfo thread.                                                    *)
(***************************************************************************)
\* Faulty variant: the thread has no priority over main.
TeleReadyNoPriority == FALSE

TeleReady ==
    \/ telePc \in {"drain", "send", "stop"}
    \/ telePc = "receive" /\ teleQ > 0

MsgReceive ==
    /\ telePc = "receive" /\ teleQ > 0
    /\ telePc' = "drain"
    /\ teleQ' = teleQ - 1
    /\ UNCHANGED <<rx, uartVars, results, tbuf, mainQ, mainVars, heap>>

\* The whole content of the ring buffer is taken for one line: a field is
\* recognised when its label comes first and enough characters follow.
Parse(text, res) ==
    IF Len(text) >= 2 /\ text[1].part = "head"
    THEN LET f == text[1].field
             m == text[1].meter
         IN  [res EXCEPT ![f] = IF text[2] = LineTail(f, m) THEN m ELSE Corrupt]
    ELSE res

Complete(res) == \A f \in Fields : res[f] # Missing

LineParsed ==
    /\ telePc = "drain"
    /\ ring' = <<>>
    /\ results' = Parse(ring, results)
    /\ ~Complete(results')
    /\ telePc' = "receive"
    /\ UNCHANGED <<rx, powered, line, teleQ, tbuf, mainQ, mainVars, heap>>

\* Every field is there: the report is formatted with the current
\* rx_teleinfo as its label, and the results start from nothing again.
ReportReady ==
    /\ telePc = "drain"
    /\ ring' = <<>>
    /\ Complete(Parse(ring, results))
    /\ tbuf' = [label |-> rx, values |-> Parse(ring, results)]
    /\ heap' = heap + 1
    /\ results' = Empty
    /\ telePc' = "send"
    /\ UNCHANGED <<rx, powered, line, teleQ, mainQ, mainVars>>

\* msg_send to main, which is never waiting for a message: it is queued, or
\* the thread blocks until main makes room.
SendReport ==
    /\ telePc = "send"
    /\ IF Len(mainQ) < MainQueueSize
       THEN /\ mainQ' = Append(mainQ, tbuf)
            /\ tbuf' = NoReport
            /\ telePc' = "stop"
       ELSE /\ telePc' = "blocked"
            /\ UNCHANGED <<mainQ, tbuf>>
    /\ UNCHANGED <<rx, uartVars, teleQ, results, mainVars, heap>>

\* Faulty variant: the thread goes on receiving after a report.
StopWithoutSleep ==
    /\ telePc = "stop"
    /\ telePc' = "receive"
    /\ UNCHANGED <<rx, uartVars, teleQ, results, tbuf, mainQ, mainVars, heap>>

StopAndSleep ==
    /\ telePc = "stop"
    /\ rx' = 0
    /\ telePc' = "sleeping"
    /\ UNCHANGED <<uartVars, teleQ, results, tbuf, mainQ, mainVars, heap>>

TeleNext ==
    \/ MsgReceive \/ LineParsed \/ ReportReady \/ SendReport \/ StopAndSleep
-----------------------------------------------------------------------------
(***************************************************************************)
(* main: listening windows.                                                *)
(***************************************************************************)
MainAt(pc) == mainPc = pc /\ ~TeleReady

StartCycle ==
    /\ MainAt("boot") \/ MainAt("hibernate")
    /\ pmBlocks' = pmBlocks + 1
    /\ meter' = 1
    /\ mainPc' = "enable"
    /\ UNCHANGED <<rx, uartVars, teleVars, mainQ, held, radio, clean, heap>>

\* teleinfo_enable_rx, in the order of its three effects.
EnableRx ==
    /\ MainAt("enable")
    /\ rx' = meter
    /\ clean' = (ring = <<>> /\ teleQ = 0 /\ results = Empty)
    /\ mainPc' = "power"
    /\ UNCHANGED <<uartVars, teleVars, mainQ, meter, held, radio, pmBlocks,
                   heap>>

PowerAdapter ==
    /\ MainAt("power")
    /\ powered' = (powered \ (Meters \ {meter})) \cup {meter}
    /\ line' \in LinePositions
    /\ mainPc' = "wake"
    /\ UNCHANGED <<rx, ring, teleVars, mainQ, meter, held, radio, pmBlocks,
                   clean, heap>>

\* Faulty variant: the thread is not woken up.
WakeForgotten ==
    /\ MainAt("wake")
    /\ mainPc' = "listen"
    /\ UNCHANGED <<rx, uartVars, teleVars, mainQ, meter, held, radio, pmBlocks,
                   clean, heap>>

\* thread_wakeup only acts on a thread that sleeps.
WakeTeleinfo ==
    /\ MainAt("wake")
    /\ telePc' = IF telePc = "sleeping" THEN "receive" ELSE telePc
    /\ mainPc' = "listen"
    /\ UNCHANGED <<rx, uartVars, teleQ, results, tbuf, mainQ, meter, held,
                   radio, pmBlocks, clean, heap>>

\* teleinfo_disable_rx after TELEINFO_LISTEN_SEC.
DisableRx ==
    /\ MainAt("listen")
    /\ rx' = 0
    /\ mainPc' = "unpower"
    /\ UNCHANGED <<uartVars, teleVars, mainQ, meter, held, radio, pmBlocks,
                   clean, heap>>

\* Faulty variant: teleinfo_disable_rx does not clear the GPIOs.
UnpowerForgotten ==
    /\ MainAt("unpower")
    /\ IF meter < NumMeters
       THEN meter' = meter + 1 /\ mainPc' = "enable"
       ELSE UNCHANGED meter /\ mainPc' = "radioOn"
    /\ UNCHANGED <<rx, uartVars, teleVars, mainQ, held, radio, pmBlocks, clean,
                   heap>>

UnpowerAdapters ==
    /\ MainAt("unpower")
    /\ powered' = {}
    /\ line' = "label"
    /\ IF meter < NumMeters
       THEN meter' = meter + 1 /\ mainPc' = "enable"
       ELSE UNCHANGED meter /\ mainPc' = "radioOn"
    /\ UNCHANGED <<rx, ring, teleVars, mainQ, held, radio, pmBlocks, clean,
                   heap>>
-----------------------------------------------------------------------------
(***************************************************************************)
(* main: transmission.  radio.state is "none" when net_config found no     *)
(* interface at boot: ifpid is 0 and every request to the driver fails.    *)
(***************************************************************************)
NetOutcomes == {"made", "partly"}

RadioStates == [state : {"idle", "off", "none"},
                inReset : BOOLEAN,      \* RST_PIN low
                irq : BOOLEAN,          \* the modem has signalled its start
                acks : BOOLEAN,         \* AUTOACK and ACK_REQ
                net : {"lost"} \cup NetOutcomes]    \* settings since a reset

\* net_config: channel, PAN, address and power.  A setting that the driver
\* refuses, or an address that cannot be parsed, is reported and the next one is
\* tried: all of them are made, or only some.
NetConfig(r) ==
    IF r.state = "none" THEN {r}
    ELSE {[r EXCEPT !.net = outcome] : outcome \in NetOutcomes}

\* Without an interface radio_on tests a state nobody wrote.
ReadsOff    == radio.state \in {"off", "none"}
ReadsNotOff == radio.state \in {"idle", "none"}

\* Faulty variant: the modem is not taken out of reset.
RadioOnInReset ==
    /\ MainAt("radioOn")
    /\ \/ /\ ReadsNotOff
          /\ mainPc' = "metrics"
       \/ /\ ReadsOff
          /\ mainPc' = "waitModem"
    /\ UNCHANGED <<rx, uartVars, teleVars, mainQ, meter, held, radio, pmBlocks,
                   clean, heap>>

\* radio_on: a radio that is not off is left as it is.
RadioOn ==
    /\ MainAt("radioOn")
    /\ \/ /\ ReadsNotOff
          /\ mainPc' = "metrics"
          /\ UNCHANGED radio
       \/ /\ ReadsOff
          /\ radio' = [radio EXCEPT !.inReset = FALSE]
          /\ mainPc' = "waitModem"
    /\ UNCHANGED <<rx, uartVars, teleVars, mainQ, meter, held, pmBlocks, clean,
                   heap>>

\* The modem, out of reset, pulls its interrupt line.
ModemBoots ==
    /\ ~radio.inReset /\ ~radio.irq
    /\ radio' = [radio EXCEPT !.irq = TRUE]
    /\ UNCHANGED <<rx, uartVars, teleVars, mainQ, mainPc, meter, held, pmBlocks,
                   clean, heap>>

\* Faulty variant: net_config is not called again after the reset.
RadioInitUnconfigured ==
    /\ MainAt("waitModem") /\ radio.irq
    /\ radio' = IF radio.state = "none" THEN radio
                ELSE [radio EXCEPT !.state = "idle", !.acks = FALSE]
    /\ mainPc' = "metrics"
    /\ UNCHANGED <<rx, uartVars, teleVars, mainQ, meter, held, pmBlocks, clean,
                   heap>>

\* The rest of radio_on: driver reset, IDLE, no acknowledgements, net_config.
RadioInit ==
    /\ MainAt("waitModem") /\ radio.irq
    /\ radio' \in NetConfig(IF radio.state = "none" THEN radio
                           ELSE [radio EXCEPT !.state = "idle", !.acks = FALSE])
    /\ mainPc' = "metrics"
    /\ UNCHANGED <<rx, uartVars, teleVars, mainQ, meter, held, pmBlocks, clean,
                   heap>>

\* The common metrics are sent first, then xtimer_sleep(1).
SendMetrics ==
    /\ MainAt("metrics")
    /\ mainPc' = "poll"
    /\ UNCHANGED <<rx, uartVars, teleVars, mainQ, meter, held, radio, pmBlocks,
                   clean, heap>>

\* Faulty variant: a blocked sender is left blocked.
TakeAndLeaveBlocked ==
    /\ MainAt("poll") /\ mainQ # <<>>
    /\ held' = Head(mainQ)
    /\ mainQ' = Tail(mainQ)
    /\ mainPc' = "forward"
    /\ UNCHANGED <<rx, uartVars, teleVars, meter, radio, pmBlocks, clean, heap>>

\* Faulty variant: a blocked sender is released without its message.
TakeAndLoseBlocked ==
    /\ MainAt("poll") /\ mainQ # <<>>
    /\ held' = Head(mainQ)
    /\ mainQ' = Tail(mainQ)
    /\ tbuf' = NoReport
    /\ telePc' = IF telePc = "blocked" THEN "stop" ELSE telePc
    /\ mainPc' = "forward"
    /\ UNCHANGED <<rx, uartVars, teleQ, results, meter, radio, pmBlocks, clean,
                   heap>>

\* msg_try_receive with a message: room is made for a blocked sender.
TakeReport ==
    /\ MainAt("poll") /\ mainQ # <<>>
    /\ held' = Head(mainQ)
    /\ IF telePc = "blocked"
       THEN /\ mainQ' = Append(Tail(mainQ), tbuf)
            /\ tbuf' = NoReport
            /\ telePc' = "stop"
       ELSE /\ mainQ' = Tail(mainQ)
            /\ UNCHANGED <<tbuf, telePc>>
    /\ mainPc' = "forward"
    /\ UNCHANGED <<rx, uartVars, teleQ, results, meter, radio, pmBlocks, clean,
                   heap>>

\* Faulty variant: the buffer is not freed.
ForwardWithoutFree ==
    /\ MainAt("forward")
    /\ held' = NoReport
    /\ mainPc' = "poll"
    /\ UNCHANGED <<rx, uartVars, teleVars, mainQ, meter, radio, pmBlocks, clean,
                   heap>>

\* data_tx, whose result is not looked at, then free.
ForwardReport ==
    /\ MainAt("forward")
    /\ held' = NoReport
    /\ heap' = heap - 1
    /\ mainPc' = "poll"
    /\ UNCHANGED <<rx, uartVars, teleVars, mainQ, meter, radio, pmBlocks, clean>>

\* radio_off: the modem, held in reset, loses its settings.
RadioOff ==
    radio' = [state |-> IF radio.state = "none" THEN "none" ELSE "off",
              inReset |-> TRUE, irq |-> FALSE, acks |-> TRUE, net |-> "lost"]

\* Faulty variant: one report per cycle is taken (an if for the while).
HibernateEarly ==
    /\ MainAt("poll")
    /\ RadioOff
    /\ pmBlocks' = pmBlocks - 1
    /\ mainPc' = "hibernate"
    /\ UNCHANGED <<rx, uartVars, teleVars, mainQ, meter, held, clean, heap>>

\* Faulty variant: PM_UNBLOCK is forgotten.
HibernateBlocked ==
    /\ MainAt("poll") /\ mainQ = <<>>
    /\ RadioOff
    /\ mainPc' = "hibernate"
    /\ UNCHANGED <<rx, uartVars, teleVars, mainQ, meter, held, pmBlocks, clean,
                   heap>>

\* msg_try_receive without a message ends the cycle: radio_off, PM_UNBLOCK and
\* xtimer_sleep(CYCLE_PAUSE_SEC).
Hibernate ==
    /\ MainAt("poll") /\ mainQ = <<>>
    /\ RadioOff
    /\ pmBlocks' = pmBlocks - 1
    /\ mainPc' = "hibernate"
    /\ UNCHANGED <<rx, uartVars, teleVars, mainQ, meter, held, clean, heap>>

MainNext ==
    \/ StartCycle \/ EnableRx \/ PowerAdapter \/ WakeTeleinfo
    \/ DisableRx \/ UnpowerAdapters
    \/ RadioOn \/ RadioInit \/ SendMetrics
    \/ TakeReport \/ ForwardReport \/ Hibernate
-----------------------------------------------------------------------------
\* net_config and teleinfo_init: the interface may be missing, and the
\* thread is not created when the UART cannot be initialised.
Init ==
    /\ rx = 0 /\ powered = {} /\ line = "label"
    /\ ring = <<>> /\ teleQ = 0
    /\ telePc \in {"receive", "absent"}
    /\ results = Empty /\ tbuf = NoReport
    /\ mainQ = <<>> /\ mainPc = "boot" /\ meter = 1 /\ held = NoReport
    /\ heap = 0
    /\ \E state \in {"idle", "none"} :
        radio \in NetConfig([state |-> state, inReset |-> FALSE, irq |-> TRUE,
                            acks |-> TRUE, net |-> "lost"])
    /\ pmBlocks = 0 /\ clean = TRUE

UartNext ==
    \E m \in Meters :
        \/ \E f \in Fields : RxHead(m, f) \/ RxTail(m, f)
        \/ RxOther(m)
        \/ RxNewline(m)

Next == UartNext \/ TeleNext \/ MainNext \/ ModemBoots

Spec == Init /\ [][Next]_vars

(***************************************************************************)
(* Fairness.  The thread runs whenever it is ready.  A line takes tens of  *)
(* milliseconds at 1200 baud and its processing microseconds, so the       *)
(* thread is idle again and again and main gets the processor then (its    *)
(* timers expire).  A modem out of reset starts.  Meters owe nothing.      *)
(***************************************************************************)
TeleCatchesUp == []<>~TeleReady

FairSpec ==
    /\ Spec
    /\ TeleCatchesUp
    /\ WF_vars(TeleNext)
    /\ SF_vars(MainNext)
    /\ WF_vars(ModemBoots)
-----------------------------------------------------------------------------
(***************************************************************************)
(* Properties.                                                             *)
(***************************************************************************)
\* Every variable has its type.
TypeOK ==
    /\ rx \in Meters \cup {0}
    /\ powered \subseteq Meters
    /\ line \in LinePositions
    /\ ring \in Seq(Chunks) /\ Len(ring) <= RingSize
    /\ teleQ \in 0 .. TeleQueueSize
    /\ telePc \in {"absent", "receive", "drain", "send", "blocked", "stop",
                   "sleeping"}
    /\ results \in Results
    /\ tbuf \in Reports
    /\ mainQ \in Seq(Reports) /\ Len(mainQ) <= MainQueueSize
    /\ mainPc \in {"boot", "enable", "power", "wake", "listen", "unpower",
                   "radioOn", "waitModem", "metrics", "poll", "forward",
                   "hibernate"}
    /\ meter \in Meters
    /\ held \in Reports
    /\ heap \in Nat
    /\ radio \in RadioStates
    /\ pmBlocks \in Nat
    /\ clean \in BOOLEAN

\* Two adapters never drive the shared UART at once, and what is received is
\* received from the meter that rx_teleinfo, the label of the next report,
\* names (teleinfo_enable_rx, teleinfo_disable_rx).
SharedUart ==
    \A m \in powered : powered = {m} /\ rx \in {0, m}

\* While main listens to a meter, the thread is there to take its lines: its
\* wake-up was not lost, and the processor may not enter the mode that stops
\* the UART (teleinfo_enable_rx, thread_sleep in teleinfo_run, PM_BLOCK).
ListensAwake ==
    /\ rx # 0 => pmBlocks > 0
    /\ mainPc = "listen" /\ rx # 0 => telePc # "sleeping"

\* The reports on their way to the radio: main transmits one, some wait in
\* its queue, and the thread may hold one.
Outgoing ==
    (IF mainPc = "forward" THEN <<held>> ELSE <<>>)
    \o mainQ
    \o (IF telePc \in {"send", "blocked"} THEN <<tbuf>> ELSE <<>>)

\* A report names a meter: the label is read from rx_teleinfo, which main
\* resets, but never between the last line of a report and its formatting
\* (teleinfo.c:166, main.c:288).
ReportLabelled ==
    \A i \in 1 .. Len(Outgoing) : Outgoing[i].label \in Meters

\* In a cycle a meter has at most one report, and reports are in the order
\* of the windows, whatever text the ring buffer and the queue still held.
OneReportPerMeter ==
    \A i, j \in 1 .. Len(Outgoing) :
        i < j => Outgoing[i].label < Outgoing[j].label

\* Each allocated report is still on its way to main's free: no buffer leaks
\* and none is freed twice (malloc at teleinfo.c:164, free at main.c:308).
HeapAccounted == heap = Len(Outgoing)

\* The unchecked malloc is asked for one buffer per meter at most.
HeapBounded == heap <= NumMeters

\* The thread never blocks on main's queue, where it would stay until the end
\* of the windows and then switch rx_teleinfo off late (teleinfo.c:179-185).
NeverBlocked == telePc # "blocked"

\* While the mote hibernates nothing draws current or waits: no adapter is
\* powered, the radio is in reset, low power is allowed, the thread has
\* nothing to do, and every report was transmitted and freed.
HibernatesQuietly ==
    mainPc = "hibernate" =>
        /\ rx = 0 /\ powered = {} /\ pmBlocks = 0
        /\ radio.inReset /\ radio.state # "idle"
        /\ ~TeleReady /\ telePc # "blocked"
        /\ mainQ = <<>> /\ heap = 0

Transmitting == mainPc \in {"metrics", "poll", "forward"}

\* What is transmitted goes through a radio out of reset whose channel, PAN,
\* address and power were set again since: radio_off loses them every cycle
\* (main.c:225).  A setting that the driver refuses is only reported (145-183).
RadioReady ==
    Transmitting /\ radio.state # "none" =>
        radio.state = "idle" /\ ~radio.inReset /\ radio.net # "lost"

\* A report of a window that began with nothing left over holds no value of
\* another meter, whatever is dropped, overwritten or misplaced on the way.
PureFromClean ==
    clean /\ telePc \in {"send", "blocked"} =>
        \A f \in Fields : tbuf.values[f] \in {tbuf.label, Corrupt}

\* "collect the two power meters datas" (README.md:17): a report labelled
\* with a meter holds that meter's values.  The code does not ensure it: see
\* the README.
MeterPurity ==
    telePc = "send" =>
        \A f \in Fields : tbuf.values[f] \in {tbuf.label, Corrupt}

\* "DISABLE ACKs" (main.c:220): the mote transmits without acknowledgements.
\* The code does not ensure it in the first cycle: see the README.
NoAcks == Transmitting /\ radio.state = "idle" => ~radio.acks

\* The abstract specification, where the labels of the outgoing reports are
\* the outbox, and a window is open from the assignment of rx_teleinfo in
\* teleinfo_enable_rx to the end of teleinfo_disable_rx.
Window ==
    IF mainPc = "enable" THEN meter - 1
    ELSE IF mainPc \in {"power", "wake", "listen", "unpower"} THEN meter
    ELSE 0

Labels == [i \in 1 .. Len(Outgoing) |-> Outgoing[i].label]

Cycle == INSTANCE ReportCycle WITH window <- Window, outbox <- Labels

\* The mote implements ReportCycle.
ImplementsCycle == Cycle!CycleSpec

\* The mote goes on forever: every cycle ends, whatever the meters print and
\* whether there is a thread or an interface.
CyclesForever == []<>(mainPc = "hibernate")

\* A report is transmitted and its buffer freed.
ReportsFreed == (heap > 0) ~> (heap = 0)

\* A thread that went to sleep after its report takes lines again.
ThreadWakes == (telePc = "sleeping") ~> (telePc = "receive")
=============================================================================
