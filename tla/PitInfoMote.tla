------------------------------ MODULE PitInfoMote ------------------------------
(***************************************************************************)
(* The first Teleinfo mote: mote-sensors/mote-teleinfo/main.c.  It reads   *)
(* two meters in turn on one UART, with three threads under RIOT's         *)
(* preemptive priorities, blinker_thread above processor_thread above      *)
(* main, and the UART's interrupt above all.  Unlike its successor         *)
(* (TeleinfoNode) the processor thread transmits the reports itself, in    *)
(* the listening window, and then blocks on the blinker, which takes two   *)
(* seconds per message.                                                    *)
(*                                                                         *)
(* Time is counted in seconds.  What the threads do between two sleeps     *)
(* takes milliseconds, so a second only passes when all of them wait.      *)
(* Text comes in the same chunks as in TeleinfoNode.                       *)
(***************************************************************************)
EXTENDS Integers, Sequences

CONSTANTS
    NumMeters,       \* PitInfo adapters on the UART (2)
    Fields,          \* fields of a report (PAPP, BASE, IINST)
    RingSize,        \* UART_BUFSIZE, in chunks
    ProcQueueSize,   \* message queue of the processor thread (8)
    BlinkQueueSize,  \* message queue of the blinker thread (8)
    ReadDelay,       \* READ_DELAY, the window of a meter (10 s)
    CyclePause,      \* CYCLE_PAUSE_SEC (60 s)
    CounterSize,     \* values of the uint8_t loop_cntr (256)
    BatteryPeriod    \* cycles between two battery messages (5)

Meters  == 1 .. NumMeters
Zero    == 0        \* what the results are set to after a report
Missing == -1       \* what main sets them to before a window
Corrupt == -2       \* a value put together from the text of two lines
Results == [Fields -> Meters \cup {Zero, Missing, Corrupt}]
All(v)  == [f \in Fields |-> v]

LineHead(f, m) == [part |-> "head", field |-> f, meter |-> m]
LineTail(f, m) == [part |-> "tail", field |-> f, meter |-> m]
Junk           == [part |-> "junk"]
Chunks         == [part : {"head", "tail"}, field : Fields, meter : Meters]
                  \cup {Junk}
LinePositions  == {"label", "newline"} \cup Fields

ASSUME ConstantAssumption ==
    /\ NumMeters \in Nat \ {0} /\ RingSize \in Nat \ {0, 1}
    /\ ProcQueueSize \in Nat /\ BlinkQueueSize \in Nat \ {0, 1}
    /\ ReadDelay \in Nat \ {0} /\ CyclePause \in Nat \ {0}
    /\ CounterSize \in Nat \ {0} /\ BatteryPeriod \in Nat \ {0}
\* What the timing relies on: the greeting, of three messages, is blinked within
\* a window, and the messages of two windows within the pause.
ASSUME TimingAssumption ==
    /\ NumMeters = 2 /\ ProcQueueSize <= BlinkQueueSize
    /\ ReadDelay >= 6 /\ CyclePause >= 4 * (ProcQueueSize + 1)
ASSUME FieldAssumption == Fields # {} /\ {"label", "newline"} \cap Fields = {}

VARIABLES
    uart,     \* "on", "off", or "none" when uart_init failed
    powered,  \* adapters whose GPIO is set
    line,     \* what a powered meter prints next
    ring,     \* ctx[1].rx_buf
    proc,     \* where the processor thread is
    procQ,    \* newline messages queued for it
    results,  \* results: for each field, where its value comes from
    led,      \* the blinker waits, or its LED is on or off for a second
    blinkQ,   \* messages queued at the blinker
    main,     \* where main is
    timer,    \* seconds main still sleeps
    label,    \* cur_pitinfo
    radio,    \* state of the transceiver, "none" without an interface
    cycle,    \* loop_cntr
    age,      \* history: cycles since the last battery message
    fresh,    \* history: no report since main reset the results
    clean     \* history: no text was left when main reset them

uartVars == <<uart, powered, line, ring>>
procVars == <<proc, procQ, results, fresh>>
ledVars  == <<led, blinkQ>>
mainVars == <<main, timer, label, radio, cycle, age, clean>>
vars     == <<uartVars, procVars, ledVars, mainVars>>

\* Faulty variant: the processor thread has no priority over main.
ProcReadyNoPriority == FALSE

ProcReady ==
    \/ proc \in {"parse", "notify", "stop"}
    \/ proc = "receive" /\ procQ > 0
-----------------------------------------------------------------------------
(***************************************************************************)
(* The UART's interrupt.                                                   *)
(***************************************************************************)
\* ringbuffer_add_one: a full buffer drops its oldest characters, which may
\* leave a piece of a chunk in front.
Stored(r, chunk) ==
    IF Len(r) < RingSize
    THEN {Append(r, chunk)}
    ELSE LET shifted == Append(Tail(r), chunk)
         IN  {shifted, [shifted EXCEPT ![1] = Junk]}

\* rx_cb for characters: stored, or lost or misplaced when the interrupt hits
\* the processor's unprotected ringbuffer_get.
Received(chunk) ==
    IF uart # "on" THEN UNCHANGED ring
    ELSE \/ ring' \in Stored(ring, chunk)
         \/ proc = "parse" /\ ring' \in Stored(ring, Junk) \cup {ring}

\* A meter prints lines of the fields collected and others, from wherever it
\* is when it is powered.
RxText ==
    /\ \E m \in powered, f \in Fields :
          \/ line = "label" /\ line' = f /\ Received(LineHead(f, m))
          \/ line = f /\ line' = "newline" /\ Received(LineTail(f, m))
          \/ line = "label" /\ line' = "newline" /\ Received(Junk)
    /\ UNCHANGED <<uart, powered, procVars, ledVars, mainVars>>

\* Faulty variant: the interrupt's message is queued without limit.
NewlineUnbounded ==
    /\ powered # {} /\ line = "newline" /\ line' = "label"
    /\ procQ' = IF uart = "on" THEN procQ + 1 ELSE procQ
    /\ UNCHANGED <<uart, powered, ring, proc, results, fresh, ledVars,
                   mainVars>>

\* rx_cb for '\n': msg_send never blocks in an interrupt and drops the message
\* when the queue is full.
RxNewline ==
    /\ powered # {} /\ line = "newline" /\ line' = "label"
    /\ IF uart = "on" /\ proc = "receive" /\ procQ = 0
       THEN proc' = "parse" /\ UNCHANGED procQ
       ELSE /\ procQ' = IF uart = "on" /\ procQ < ProcQueueSize
                        THEN procQ + 1 ELSE procQ
            /\ UNCHANGED proc
    /\ UNCHANGED <<uart, powered, ring, results, fresh, ledVars, mainVars>>
-----------------------------------------------------------------------------
(***************************************************************************)
(* The processor thread.                                                   *)
(***************************************************************************)
MsgReceive ==
    /\ proc = "receive" /\ procQ > 0
    /\ proc' = "parse" /\ procQ' = procQ - 1
    /\ UNCHANGED <<uartVars, results, fresh, ledVars, mainVars>>

\* A field is recognised when its label comes first and enough characters
\* follow; the whole buffer is taken for one line.
Parse(text, res) ==
    IF Len(text) >= 2 /\ text[1].part = "head"
    THEN LET f == text[1].field
             m == text[1].meter
         IN  [res EXCEPT ![f] = IF text[2] = LineTail(f, m) THEN m ELSE Corrupt]
    ELSE res

\* papp >= 0 && iinst >= 0 && base >= 0
Complete(res) == \A f \in Fields : res[f] # Missing

\* A complete set goes to data_tx at once, labelled with cur_pitinfo and
\* through whatever state main has left the radio in.
Process ==
    /\ proc = "parse"
    /\ ring' = <<>>
    /\ results' = Parse(ring, results)
    /\ proc' = IF Complete(results') THEN "notify" ELSE "receive"
    /\ UNCHANGED <<uart, powered, line, procQ, fresh, ledVars, mainVars>>

\* msg_send to the blinker, which starts at once when it waits; otherwise the
\* message is queued, or the sender blocks.
Notify ==
    /\ proc = "notify"
    /\ led' = IF led = "idle" THEN "on" ELSE led
    /\ blinkQ' = IF led # "idle" /\ blinkQ < BlinkQueueSize
                 THEN blinkQ + 1 ELSE blinkQ
    /\ proc' = IF led # "idle" /\ blinkQ = BlinkQueueSize
               THEN "blocked" ELSE "stop"
    /\ fresh' = FALSE
    /\ UNCHANGED <<uartVars, procQ, results, mainVars>>

UartOff == uart' = IF uart = "none" THEN "none" ELSE "off"
UartOn  == uart' = IF uart = "none" THEN "none" ELSE "on"

\* The results start from zero, which Complete takes for received.
Stop ==
    /\ proc = "stop" /\ proc' = "receive"
    /\ results' = All(Zero)
    /\ UartOff
    /\ UNCHANGED <<powered, line, ring, procQ, fresh, ledVars, mainVars>>
-----------------------------------------------------------------------------
(***************************************************************************)
(* main, which runs when the processor thread cannot.                      *)
(***************************************************************************)
MainAt(pc) == main = pc /\ timer = 0 /\ ~ProcReady

SetRadio(state) == radio' = IF radio = "none" THEN "none" ELSE state

\* Three messages greet the user: the first reaches the blinker, the others
\* its queue.
Greet ==
    /\ MainAt("boot") /\ main' = "cycle"
    /\ led' = "on" /\ blinkQ' = 2
    /\ UNCHANGED <<uartVars, procVars, timer, label, radio, cycle, age, clean>>

\* Faulty variant: the remainder is compared with its largest value.
BatteryDueLast(c) == c % BatteryPeriod = BatteryPeriod - 1

BatteryDue(c) == c % BatteryPeriod = 0

StartCycle ==
    /\ MainAt("cycle") /\ main' = "select"
    /\ SetRadio("tx")
    /\ age' = IF BatteryDue(cycle) THEN 0 ELSE age + 1
    /\ UNCHANGED <<uartVars, procVars, ledVars, timer, label, cycle, clean>>

\* cur_pitinfo is changed first, then the results.
SelectMeter ==
    /\ MainAt("select") /\ main' = "reset"
    /\ label' = IF label = NumMeters THEN 1 ELSE label + 1
    /\ UNCHANGED <<uartVars, procVars, ledVars, timer, radio, cycle, age, clean>>

\* Faulty variant: the results of the last window stay.
ResetForgotten ==
    /\ MainAt("reset") /\ main' = "open"
    /\ fresh' = TRUE
    /\ clean' = (ring = <<>> /\ proc = "receive")
    /\ UNCHANGED <<uartVars, proc, procQ, results, ledVars, timer, label,
                   radio, cycle, age>>

ResetResults ==
    /\ MainAt("reset") /\ main' = "open"
    /\ results' = All(Missing)
    /\ fresh' = TRUE
    /\ clean' = (ring = <<>> /\ proc = "receive")
    /\ UNCHANGED <<uartVars, proc, procQ, ledVars, timer, label, radio,
                   cycle, age>>

OpenWindow ==
    /\ MainAt("open") /\ main' = "window"
    /\ powered' = powered \cup {label} /\ line' \in LinePositions
    /\ UartOn
    /\ timer' = ReadDelay
    /\ UNCHANGED <<ring, procVars, ledVars, label, radio, cycle, age, clean>>

\* Faulty variant: the adapter stays powered and the UART on.
CloseLeavesUart ==
    /\ MainAt("window")
    /\ main' = IF label < NumMeters THEN "select" ELSE "sleep"
    /\ UNCHANGED <<uartVars, procVars, ledVars, timer, label, radio, cycle, age,
                   clean>>

CloseWindow ==
    /\ MainAt("window")
    /\ UartOff
    /\ powered' = powered \ {label} /\ line' = "label"
    /\ main' = IF label < NumMeters THEN "select" ELSE "sleep"
    /\ UNCHANGED <<ring, procVars, ledVars, timer, label, radio, cycle,
                   age, clean>>

Hibernate ==
    /\ MainAt("sleep") /\ main' = "hibernate"
    /\ SetRadio("off")
    /\ timer' = CyclePause
    /\ UNCHANGED <<uartVars, procVars, ledVars, label, cycle, age, clean>>

WakeUp ==
    /\ MainAt("hibernate") /\ main' = "cycle"
    /\ cycle' = (cycle + 1) % CounterSize
    /\ UNCHANGED <<uartVars, procVars, ledVars, timer, label, radio, age, clean>>

MainNext ==
    \/ Greet \/ StartCycle \/ SelectMeter \/ ResetResults \/ OpenWindow
    \/ CloseWindow \/ Hibernate \/ WakeUp
-----------------------------------------------------------------------------
\* Faulty variant: the place of a message taken is given to nobody.
BlinkLeavesBlocked ==
    /\ led' = IF led = "on" THEN "off" ELSE IF blinkQ > 0 THEN "on" ELSE "idle"
    /\ blinkQ' = IF led # "on" /\ blinkQ > 0 THEN blinkQ - 1 ELSE blinkQ
    /\ UNCHANGED proc

\* A second of blinker_thread: LED on, LED off, then the next message, whose
\* place in the queue a blocked sender fills.
Blink ==
    CASE led = "on"  -> led' = "off" /\ UNCHANGED <<blinkQ, proc>>
      [] led = "off" /\ blinkQ > 0 ->
             /\ led' = "on"
             /\ blinkQ' = IF proc = "blocked" THEN blinkQ ELSE blinkQ - 1
             /\ proc' = IF proc = "blocked" THEN "stop" ELSE proc
      [] OTHER       -> led' = "idle" /\ UNCHANGED <<blinkQ, proc>>

Tick ==
    /\ timer > 0 /\ ~ProcReady
    /\ timer' = timer - 1
    /\ Blink
    /\ UNCHANGED <<uartVars, procQ, results, fresh, main, label, radio,
                   cycle, age, clean>>

\* prepare_all: the network is not configured when uart_init fails, and the
\* interface may be missing.  The UART is left on.
Booted ==
    \/ uart = "on" /\ radio \in {"idle", "none"}
    \/ uart = "none" /\ radio = "none"

Init ==
    /\ Booted
    /\ powered = {} /\ line = "label" /\ ring = <<>>
    /\ proc = "receive" /\ procQ = 0 /\ results = All(Zero)
    /\ led = "idle" /\ blinkQ = 0
    /\ main = "boot" /\ timer = 0 /\ label = 0 /\ cycle = 0 /\ age = 0
    /\ fresh = FALSE /\ clean = TRUE

ProcNext == MsgReceive \/ Process \/ Notify \/ Stop

Next == RxText \/ RxNewline \/ ProcNext \/ MainNext \/ Tick

Spec == Init /\ [][Next]_vars

(***************************************************************************)
(* Fairness.  The threads run when nothing above them does.  At 1200 baud  *)
(* a line takes longer than its processing, so the processor catches up    *)
(* with the interrupts again and again, and time passes then.              *)
(***************************************************************************)
ProcCatchesUp == []<>~ProcReady

FairSpec ==
    /\ Spec
    /\ ProcCatchesUp
    /\ WF_vars(ProcNext)
    /\ SF_vars(MainNext)
    /\ SF_vars(Tick)
-----------------------------------------------------------------------------
(***************************************************************************)
(* Properties.                                                             *)
(***************************************************************************)
\* Every variable has its type.
TypeOK ==
    /\ uart \in {"on", "off", "none"} /\ powered \subseteq Meters
    /\ line \in LinePositions
    /\ ring \in Seq(Chunks) /\ Len(ring) <= RingSize
    /\ proc \in {"receive", "parse", "notify", "blocked", "stop"}
    /\ procQ \in 0 .. ProcQueueSize
    /\ results \in Results
    /\ led \in {"idle", "on", "off"} /\ blinkQ \in 0 .. BlinkQueueSize
    /\ main \in {"boot", "cycle", "select", "reset", "open", "window", "sleep",
                 "hibernate"}
    /\ timer \in Nat
    /\ label \in Meters \cup {0}
    /\ radio \in {"idle", "tx", "off", "none"}
    /\ cycle \in 0 .. CounterSize - 1 /\ age \in Nat
    /\ fresh \in BOOLEAN /\ clean \in BOOLEAN

\* When main turns to the next meter, the processor is done with the last
\* one: it neither holds lines of it nor is stuck in the blinker's queue, from
\* where it would set main's fresh results to zero (main.c:209-214, 399-403).
HandoverQuiet ==
    main \in {"select", "reset"} => proc = "receive" /\ procQ = 0

Reporting == proc = "notify"    \* data_tx has just been called

\* The first report of a window is made of lines received in it, not of the
\* zeros left by the last report, and is sent while the radio is not off.
FirstReportReal ==
    Reporting /\ fresh => radio # "off" /\ \A f \in Fields : results[f] # Zero

\* A first report of a window that began with an empty ring buffer holds no
\* value of another meter, whatever is lost or misplaced on the way.
PureFromClean ==
    Reporting /\ fresh /\ clean =>
        \A f \in Fields : results[f] \in {label, Corrupt}

\* While the mote hibernates the radio and the UART are off and no adapter is
\* powered, whatever the processor still does.
PauseQuiet ==
    main = "hibernate" => radio # "tx" /\ uart # "on" /\ powered = {}

\* At most BatteryPeriod cycles lie between two battery messages, although
\* 256, where loop_cntr wraps, is no multiple of 5 (main.c:393, 429).
BatteryRegular == age < BatteryPeriod

\* Again and again the mote is at rest: main hibernates, the processor waits
\* for lines, even when it had blocked, and every message has been blinked.
RestsForever ==
    []<>(main = "hibernate" /\ proc = "receive" /\ led = "idle")
=============================================================================
