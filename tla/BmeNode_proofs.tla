----------------------------- MODULE BmeNode_proofs -----------------------------
(***************************************************************************)
(* Proofs about BmeNode, for every reading the sensor may deliver.         *)
(***************************************************************************)
EXTENDS BmeNode, TLAPS

(***************************************************************************)
(* Division.                                                               *)
(***************************************************************************)
LEMMA Division ==
    ASSUME NEW c \in Int, NEW d \in Int, d > 0
    PROVE  c = d * (c \div d) + (c % d)
BY Z3

LEMMA RemainderType ==
    ASSUME NEW c \in Int, NEW d \in Nat \ {0}
    PROVE  c \div d \in Int /\ c % d \in 0 .. d - 1
OBVIOUS

LEMMA UniqueRemainder ==
    ASSUME NEW c \in Nat, NEW q \in Nat, NEW r \in Nat, NEW d \in Nat \ {0},
           c = d * q + r, r < d
    PROVE  c % d = r
OBVIOUS

\* What printf prints of a number, in two parts.
LEMMA Parts ==
    ASSUME NEW v \in Nat, NEW d \in Nat \ {0}
    PROVE  /\ Quot(v, d) \in Nat /\ Rem(v, d) \in Nat
           /\ d * Quot(v, d) + Rem(v, d) = v
<1>1. v \div d \in Int /\ v % d \in Nat /\ v % d < d
    BY RemainderType
<1>2. v = d * (v \div d) + (v % d)
    BY Division
<1>3. ASSUME NEW q \in Int, NEW r \in Nat, r < d, v = d * q + r
      PROVE  q \in Nat /\ v - d * q \in Nat /\ d * q + (v - d * q) = v
    <2>1. CASE q <= -1
        <3>1. d * q <= -d
            BY <2>1
        <3> QED BY <1>3, <3>1
    <2> QED BY <1>3, <2>1
<1>4. Quot(v, d) = v \div d
    BY DEF Quot
<1>5. Rem(v, d) = v - d * (v \div d)
    BY <1>4, Zenon DEF Rem
<1> QED BY <1>1, <1>2, <1>3, <1>4, <1>5, Zenon
-----------------------------------------------------------------------------
(***************************************************************************)
(* The conversions.                                                        *)
(***************************************************************************)
LEMMA HalfType == Half \in Nat \ {0}
BY DEF Half

\* A number in hundredths survives its way through text.
LEMMA DecimalKept ==
    ASSUME NEW v \in Nat
    PROVE  ParseFloat(Decimal(FALSE, v)) = v
<1>1. /\ Quot(v, 100) \in Nat /\ Rem(v, 100) \in Nat
      /\ 100 * Quot(v, 100) + Rem(v, 100) = v
    BY Parts
<1>2. \A w \in Nat, h \in Nat :
        ParseFloat([negative |-> FALSE, whole |-> w, hundredths |-> h])
            = 100 * w + h
    BY DEF ParseFloat
<1> QED BY <1>1, <1>2, Zenon DEF Decimal

\* Only the sign of a temperature is lost, unless the sensor is silent.
LEMMA MagnitudeIs ==
    ASSUME NEW t \in Int16Min .. Half - 1
    PROVE  /\ t = Int16Min => Magnitude(t) = Int16Min
           /\ t # Int16Min => /\ Magnitude(t) = IF t < 0 THEN -t ELSE t
                              /\ Magnitude(t) \in 0 .. Half - 1
<1> USE HalfType
<1>1. CASE t = Int16Min
    <2>1. t < 0 /\ -t = Half
        BY <1>1 DEF Int16Min
    <2>2. (Half + Half) % (2 * Half) = 0
        <3>1. Half + Half = (2 * Half) * 1 + 0 /\ 2 * Half \in Nat \ {0}
            BY HalfType
        <3> QED BY <3>1, UniqueRemainder
    <2>3. Int16(-t) = -Half
        BY <2>1, <2>2 DEF Int16
    <2> QED BY <1>1, <2>1, <2>3 DEF Magnitude, Int16Min
<1>2. CASE t # Int16Min /\ t < 0
    <2>1. -t \in 0 .. Half - 1
        BY <1>2 DEF Int16Min
    <2>2. (-t + Half) % (2 * Half) = -t + Half
        <3>1. /\ -t + Half = (2 * Half) * 0 + (-t + Half)
              /\ -t + Half \in Nat /\ -t + Half < 2 * Half
              /\ 2 * Half \in Nat \ {0}
            BY <2>1
        <3> QED BY <3>1, UniqueRemainder
    <2>3. Int16(-t) = -t
        BY <2>1, <2>2 DEF Int16
    <2> QED BY <1>2, <2>1, <2>3 DEF Magnitude
<1>3. CASE t # Int16Min /\ ~(t < 0)
    <2>1. t \in 0 .. Half - 1
        BY <1>3 DEF Int16Min
    <2> QED BY <1>3, <2>1 DEF Magnitude
<1> QED BY <1>1, <1>2, <1>3

\* INT16_MIN prints as "--327.-68", which is no number.
LEMMA SilentIsZero == ParseFloat(Decimal(TRUE, Int16Min)) = 0
<1>1. Quot(Int16Min, 100) = -327
    BY SMT DEF Quot, Int16Min, Half
<1> QED BY <1>1 DEF ParseFloat, Decimal
-----------------------------------------------------------------------------
(***************************************************************************)
(* The inductive invariant: types, the snips that data_tx has at each of   *)
(* its steps, and the globals, which hold what was measured last.          *)
(***************************************************************************)
SnipInv ==
    snips = IF pc = "header" THEN 1 ELSE IF pc = "send" THEN 2 ELSE 0

MeasureInv ==
    temperature = Magnitude(raw.temp) /\ pressure = raw.pres /\ humidity = raw.humi

Inv == TypeOK /\ SnipInv /\ MeasureInv

LEMMA MagnitudeType ==
    ASSUME NEW t \in Int16Min .. Half - 1
    PROVE  Magnitude(t) \in Int16Min .. Half - 1
<1>1. Magnitude(t) = Int16Min \/ Magnitude(t) \in 0 .. Half - 1
    BY MagnitudeIs
<1> QED BY <1>1, HalfType DEF Int16Min

LEMMA InvInit == Init => Inv
<1> SUFFICES ASSUME Init PROVE Inv
    OBVIOUS
<1>1. 0 \in Int16Min .. Half - 1 /\ 0 # Int16Min /\ 0 \in 0 .. 2 * Half - 1
    BY HalfType DEF Int16Min
<1>2. Magnitude(0) = 0
    BY DEF Magnitude
<1>3. DOMAIN Nothing = {"TEMP", "HUMI", "PRES", "BATLEV", "DEVICE"}
    BY DEF Nothing
<1>4. TypeOK
    <2>1. /\ raw.temp = 0 /\ raw.pres = 0 /\ raw.humi = 0 /\ raw.sample = 1
          /\ temperature = 0 /\ pressure = 0 /\ humidity = 0 /\ snips = 0
          /\ pc = "modem" /\ net = FALSE /\ sensor = FALSE /\ stored = Nothing
        BY DEF Init, NoReading
    <2>2. /\ raw.temp \in Int16Min .. Half - 1 /\ raw.humi \in 0 .. 2 * Half - 1
          /\ temperature \in Int16Min .. Half - 1
          /\ humidity \in 0 .. 2 * Half - 1
        BY <1>1, <2>1, Zenon
    <2>3. raw.pres \in Nat /\ pressure \in Nat /\ snips \in 0 .. 2
        BY <2>1
    <2>4. raw.sample \in 1 .. AdcMax
        BY <2>1 DEF AdcMax
    <2> QED BY <1>3, <2>1, <2>2, <2>3, <2>4 DEF TypeOK
<1> QED BY <1>2, <1>4 DEF Init, Inv, SnipInv, MeasureInv, NoReading

\* A step that measures nothing.
LEMMA SameMeasured ==
    ASSUME Inv, UNCHANGED <<net, sensor, measured>>,
           pc' \in {"modem", "net", "sensors", "measure", "payload", "header",
                    "send", "blink", "sleep", "locked"},
           stored' = stored \/ stored' = Decoded,
           SnipInv'
    PROVE  Inv'
<1>1. DOMAIN Decoded = {"TEMP", "HUMI", "PRES", "BATLEV", "DEVICE"}
    BY DEF Decoded
<1>2. snips' \in 0 .. 2
    BY DEF SnipInv
<1> QED BY <1>1, <1>2 DEF Inv, TypeOK, MeasureInv, measured

LEMMA InvStep == Inv /\ [Next]_vars => Inv'
<1> SUFFICES ASSUME Inv, [Next]_vars
             PROVE  Inv'
    OBVIOUS
<1> USE DEF At
<1>1. CASE ModemStarts
    BY <1>1, SameMeasured DEF ModemStarts, Inv, SnipInv
<1>2. CASE NetConfig
    BY <1>2 DEF NetConfig, Inv, TypeOK, SnipInv, MeasureInv, measured
<1>3. CASE SensorsConfig
    BY <1>3 DEF SensorsConfig, Inv, TypeOK, SnipInv, MeasureInv, measured
<1>4. CASE Measure
    <2>1. /\ raw'.temp \in Temperatures \cup {Int16Min}
          /\ raw'.pres \in Pressures /\ raw'.humi \in Humidities
          /\ raw'.sample \in Samples
        BY <1>4 DEF Measure
    <2>2. /\ raw'.temp \in Int16Min .. Half - 1 /\ raw'.pres \in Nat
          /\ raw'.humi \in 0 .. 2 * Half - 1 /\ raw'.sample \in 1 .. AdcMax
        <3>1. Int16Min \in Int16Min .. Half - 1
            BY HalfType DEF Int16Min
        <3>2. \A t \in Temperatures : t \in Int16Min .. Half - 1
            BY ReadingAssumption, HalfType DEF Int16Min
        <3>3. raw'.temp \in Int16Min .. Half - 1
            BY <2>1, <3>1, <3>2, Zenon
        <3>4. /\ \A v \in Pressures : v \in Nat
              /\ \A v \in Humidities : v \in 0 .. 2 * Half - 1
              /\ \A v \in Samples : v \in 1 .. AdcMax
            BY ReadingAssumption
        <3> QED BY <2>1, <3>3, <3>4, Zenon
    <2>3. temperature' \in Int16Min .. Half - 1
        BY <1>4, <2>2, MagnitudeType DEF Measure
    <2>4. DOMAIN stored' = {"TEMP", "HUMI", "PRES", "BATLEV", "DEVICE"}
        BY <1>4 DEF Measure, Nothing
    <2>5. TypeOK'
        BY <1>4, <2>2, <2>3, <2>4 DEF Measure, Inv, TypeOK
    <2>6. SnipInv' /\ MeasureInv'
        BY <1>4 DEF Measure, Inv, SnipInv, MeasureInv
    <2> QED BY <2>5, <2>6 DEF Inv
<1>5. CASE AddPayload
    BY <1>5, SameMeasured DEF AddPayload, Inv, SnipInv
<1>6. CASE AddHeader
    BY <1>6, SameMeasured DEF AddHeader, Inv, SnipInv
<1>7. CASE Send
    BY <1>7, SameMeasured DEF Send, Inv, SnipInv
<1>8. CASE ReadButtons
    BY <1>8, SameMeasured DEF ReadButtons, Inv, SnipInv
<1>9. CASE WakeUp
    BY <1>9, SameMeasured DEF WakeUp, Inv, SnipInv
<1>10. CASE Stay \/ UNCHANGED vars
    BY <1>10 DEF Stay, vars, Inv, TypeOK, SnipInv, MeasureInv, measured
<1> QED BY <1>1, <1>2, <1>3, <1>4, <1>5, <1>6, <1>7, <1>8, <1>9, <1>10 DEF Next

LEMMA InvAlways == Spec => []Inv
BY InvInit, InvStep, PTL DEF Spec
-----------------------------------------------------------------------------
\* The types and widths of the mote's state.
THEOREM TypeCorrect == Spec => []TypeOK
<1>1. Inv => TypeOK
    BY DEF Inv
<1> QED BY <1>1, InvAlways, PTL

\* data_tx returns every snip, whichever of its steps fails (main.c:104-137).
THEOREM SnipsReturnedHolds == Spec => []SnipsReturned
<1>1. Inv => SnipsReturned
    BY DEF Inv, SnipInv, SnipsReturned
<1> QED BY <1>1, InvAlways, PTL

\* The server stores the magnitude of every temperature to the hundredth, the
\* humidity and the pressure, and 0 for a silent sensor.
THEOREM ReadingsStoredHolds == Spec => ReadingsStored
<1> DEFINE A == Send /\ stored' # stored =>
          /\ stored'.TEMP = IF raw.temp = Int16Min THEN 0
                            ELSE IF raw.temp < 0 THEN -raw.temp ELSE raw.temp
          /\ stored'.HUMI = raw.humi
          /\ stored'.PRES = raw.pres \div 100
<1>1. Inv /\ [Next]_vars => [A]_vars
    <2> SUFFICES ASSUME Inv, Send, stored' # stored
                 PROVE  A
        OBVIOUS
    <2>1. stored' = Decoded
        BY DEF Send
    <2>2. /\ stored'.TEMP = ParseFloat(Decimal(temperature < 0, temperature))
          /\ stored'.HUMI = ParseFloat(Decimal(FALSE, humidity))
          /\ stored'.PRES = pressure \div 100
        BY <2>1 DEF Decoded
    <2>3. stored'.HUMI = raw.humi
        <3>1. humidity \in Nat /\ humidity = raw.humi
            BY HalfType DEF Inv, MeasureInv, TypeOK
        <3> QED BY <2>2, <3>1, DecimalKept, Zenon
    <2>4. raw.temp \in Int16Min .. Half - 1
        BY DEF Inv, TypeOK
    <2>5. CASE raw.temp = Int16Min
        <3>1. temperature = Int16Min
            BY <2>4, <2>5, MagnitudeIs DEF Inv, MeasureInv
        <3>2. (temperature < 0) = TRUE
            BY <3>1, HalfType DEF Int16Min
        <3>3. stored'.TEMP = 0
            BY <2>2, <3>1, <3>2, SilentIsZero, Zenon
        <3> QED BY <2>2, <2>3, <2>5, <3>3 DEF Inv, MeasureInv
    <2>6. CASE raw.temp # Int16Min
        <3>1. /\ temperature = IF raw.temp < 0 THEN -raw.temp ELSE raw.temp
              /\ temperature \in 0 .. Half - 1
            BY <2>4, <2>6, MagnitudeIs DEF Inv, MeasureInv
        <3>2. temperature \in Nat /\ (temperature < 0) = FALSE
            BY <3>1, HalfType
        <3>3. stored'.TEMP = temperature
            BY <2>2, <3>2, DecimalKept, Zenon
        <3> QED BY <2>2, <2>3, <2>6, <3>1, <3>3 DEF Inv, MeasureInv
    <2> QED BY <2>5, <2>6
<1>2. Spec => [][A]_vars
    BY <1>1, InvAlways, PTL DEF Spec
<1> QED BY <1>2 DEF ReadingsStored
=============================================================================
