-------------------------------- MODULE BmeNode --------------------------------
(***************************************************************************)
(* The weather mote: mote-devboard/apps/node-bme280/main.c on its board    *)
(* (boards/oflmote-dev/board.c), and what mote-gateway.go makes of its     *)
(* readings.  One thread measures, transmits and hibernates; each step may *)
(* fail, and every failure but a missing modem is only printed.  Numbers   *)
(* have the width they have in C; text is the numbers it is made of.       *)
(* radio_on and radio_off are not modelled: cnf_enable_pm_radiosleep is 0  *)
(* and nothing changes it.                                                 *)
(***************************************************************************)
EXTENDS Integers

CONSTANTS
    Temperatures,   \* what the sensor may measure, in centi degrees
    Pressures,      \* in Pa
    Humidities,     \* in centi percent
    Samples         \* of the ADC for the bandgap reference

Half     == 32768
AdcMax   == 1023    \* ADC_RES_10BIT
Int16Min == -Half   \* bmx280_read_temperature when the sensor is silent

ASSUME ReadingAssumption ==
    /\ Temperatures \subseteq Int16Min + 1 .. Half - 1
    /\ Pressures \subseteq Nat /\ Humidities \subseteq 0 .. 2 * Half - 1
    /\ Samples \subseteq 1 .. AdcMax

VARIABLES
    pc,       \* where the mote is
    net,      \* net_config found an interface
    sensor,   \* bmx280_init succeeded
    raw,      \* what the sensor and the ADC returned
    temperature, pressure, humidity,    \* the globals of these names
    snips,    \* snips of data_tx in the packet buffer
    stored    \* what the server stores of this cycle's packet

measured == <<raw, temperature, pressure, humidity>>
vars     == <<pc, net, sensor, measured, snips, stored>>
-----------------------------------------------------------------------------
(***************************************************************************)
(* C's arithmetic and printf, and the parsers of decode_packet.            *)
(***************************************************************************)
Int16(v)   == ((v + Half) % (2 * Half)) - Half
Quot(a, b) == IF a < 0 THEN -((-a) \div b) ELSE a \div b
Rem(a, b)  == a - b * Quot(a, b)

\* sensor_measure drops the sign, which INT16_MIN keeps.
Magnitude(t) == IF t < 0 THEN Int16(-t) ELSE t

\* Faulty variant: the fraction is printed with %d, so that 5 reads as 50.
DecimalUnpadded(negative, v) ==
    [negative |-> negative, whole |-> Quot(v, 100),
     hundredths |-> IF Rem(v, 100) < 10 THEN 10 * Rem(v, 100) ELSE Rem(v, 100)]

\* %c%02d.%02d of a number in hundredths.
Decimal(negative, v) ==
    [negative |-> negative, whole |-> Quot(v, 100), hundredths |-> Rem(v, 100)]

\* ParseFloat, in hundredths: a minus sign inside is an error, which
\* decode_packet ignores.
ParseFloat(text) ==
    IF text.whole < 0 \/ text.hundredths < 0 THEN 0
    ELSE (IF text.negative THEN -1 ELSE 1) * (100 * text.whole + text.hundredths)

\* sprintf at main.c:315, getBat and decode_packet.
Decoded ==
    [TEMP |-> ParseFloat(Decimal(temperature < 0, temperature)),
     HUMI |-> ParseFloat(Decimal(FALSE, humidity)),
     PRES |-> pressure \div 100,
     BATLEV |-> Quot(1024 * 1000, raw.sample),
     DEVICE |-> 0]                              \* "DEV" is no number
-----------------------------------------------------------------------------
Nothing == [TEMP |-> 0, HUMI |-> 0, PRES |-> 0, BATLEV |-> 0, DEVICE |-> 0]

At(from, to) == pc = from /\ pc' = to

\* Faulty variant: the modem is left in reset.
ModemInReset ==
    /\ pc = "modem"
    /\ UNCHANGED vars

\* board_init: the modem, released from reset, signals that it runs.
ModemStarts ==
    /\ At("modem", "net")
    /\ UNCHANGED <<net, sensor, measured, snips, stored>>

NetConfig ==
    /\ At("net", "sensors")
    /\ net' \in BOOLEAN
    /\ UNCHANGED <<sensor, measured, snips, stored>>

SensorsConfig ==
    /\ At("sensors", "measure")
    /\ sensor' \in BOOLEAN
    /\ UNCHANGED <<net, measured, snips, stored>>

\* A sensor that failed, or fails now, returns INT16_MIN for a temperature.
Measure ==
    /\ At("measure", "payload")
    /\ raw' \in [temp : IF sensor THEN Temperatures \cup {Int16Min}
                        ELSE {Int16Min},
                 pres : Pressures, humi : Humidities, sample : Samples]
    /\ temperature' = Magnitude(raw'.temp)
    /\ pressure' = raw'.pres
    /\ humidity' = raw'.humi
    /\ stored' = Nothing
    /\ UNCHANGED <<net, sensor, snips>>

\* data_tx: the packet's snip, unless the buffer is full.
AddPayload ==
    /\ \/ At("payload", "header") /\ snips' = snips + 1
       \/ At("payload", "blink") /\ UNCHANGED snips
    /\ UNCHANGED <<net, sensor, measured, stored>>

\* Faulty variant: a header that does not fit leaves the payload behind.
AddHeaderLeaking ==
    /\ \/ At("header", "send") /\ snips' = snips + 1
       \/ At("header", "blink") /\ UNCHANGED snips
    /\ UNCHANGED <<net, sensor, measured, stored>>

\* Faulty variant: what Send releases is released here too, without a header.
AddHeaderTwice ==
    /\ \/ At("header", "send") /\ snips' = snips + 1
       \/ At("header", "blink") /\ snips' = snips - 2
    /\ UNCHANGED <<net, sensor, measured, stored>>

\* A header that does not fit: the payload is released.
AddHeader ==
    /\ \/ At("header", "send") /\ snips' = snips + 1
       \/ At("header", "blink") /\ snips' = snips - 1
    /\ UNCHANGED <<net, sensor, measured, stored>>

\* The interface's thread transmits and releases both snips at once; without
\* an interface, or with its queue full, data_tx releases them.
Send ==
    /\ At("send", "blink")
    /\ snips' = snips - 2
    /\ \/ net /\ stored' = Decoded
       \/ UNCHANGED stored
    /\ UNCHANGED <<net, sensor, measured>>

\* After the blink the buttons are read, whose pins only a GUARD build sets up.
ReadButtons ==
    /\ At("blink", "sleep") \/ At("blink", "locked")
    /\ UNCHANGED <<net, sensor, measured, snips, stored>>

WakeUp ==
    /\ At("sleep", "measure")
    /\ UNCHANGED <<net, sensor, measured, snips, stored>>

Stay == pc = "locked" /\ UNCHANGED vars

NoReading == [temp |-> 0, pres |-> 0, humi |-> 0, sample |-> 1]

Init ==
    /\ pc = "modem" /\ net = FALSE /\ sensor = FALSE
    /\ raw = NoReading /\ temperature = 0 /\ pressure = 0 /\ humidity = 0
    /\ snips = 0 /\ stored = Nothing

Next ==
    \/ ModemStarts \/ NetConfig \/ SensorsConfig \/ Measure
    \/ AddPayload \/ AddHeader \/ Send \/ ReadButtons \/ WakeUp \/ Stay

\* The modem starts, and the only thread runs.
Spec == Init /\ [][Next]_vars /\ WF_vars(Next)
-----------------------------------------------------------------------------
(***************************************************************************)
(* Properties.                                                             *)
(***************************************************************************)
\* Every variable has its type and width.
TypeOK ==
    /\ pc \in {"modem", "net", "sensors", "measure", "payload", "header",
               "send", "blink", "sleep", "locked"}
    /\ net \in BOOLEAN /\ sensor \in BOOLEAN
    /\ raw.temp \in Int16Min .. Half - 1 /\ raw.pres \in Nat
    /\ raw.humi \in 0 .. 2 * Half - 1 /\ raw.sample \in 1 .. AdcMax
    /\ temperature \in Int16Min .. Half - 1
    /\ pressure \in Nat /\ humidity \in 0 .. 2 * Half - 1
    /\ snips \in 0 .. 2
    /\ DOMAIN stored = {"TEMP", "HUMI", "PRES", "BATLEV", "DEVICE"}

\* Whatever fails in data_tx, the packet buffer gets back what it gave: a mote
\* that cannot send can still do so later (main.c:104-137).
SnipsReturned == pc \in {"blink", "sleep", "measure", "locked"} => snips = 0

\* What the server stores of a packet is what was measured, to the hundredth,
\* but for the sign of a temperature, which sensor_measure drops (main.c:86-89):
\* the code keeps the magnitude only.  A silent sensor is stored as 0 degrees.
ReadingsStored ==
    [][Send /\ stored' # stored =>
          /\ stored'.TEMP = IF raw.temp = Int16Min THEN 0
                            ELSE IF raw.temp < 0 THEN -raw.temp ELSE raw.temp
          /\ stored'.HUMI = raw.humi
          /\ stored'.PRES = raw.pres \div 100]_vars

\* "Get temperature in centi degrees Celsius" (main.c:84), with a '-' in the
\* format of line 315 for those below zero: what a working sensor measured is
\* what the server stores.  The code does not do so: see the README.
TemperatureStored ==
    [][Send /\ stored' # stored /\ raw.temp # Int16Min =>
          stored'.TEMP = raw.temp]_vars

\* The mote goes on measuring, whatever fails, until a button is pressed.
MeasuresForever == []<>(pc = "measure") \/ <>[](pc = "locked")
=============================================================================
