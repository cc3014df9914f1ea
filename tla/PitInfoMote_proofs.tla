-------------------------- MODULE PitInfoMote_proofs --------------------------
(***************************************************************************)
(* Proofs about PitInfoMote, for any set of fields, any size of the        *)
(* buffers and any delays within TimingAssumption.                         *)
(***************************************************************************)
EXTENDS PitInfoMote, TLAPS, SequenceTheorems

(***************************************************************************)
(* The operators on text.                                                  *)
(***************************************************************************)
\* What is stored fits, and every chunk of it is the new one, an old one or
\* what is left of one.
LEMMA StoredType ==
    ASSUME NEW r \in Seq(Chunks), Len(r) <= RingSize, NEW c \in Chunks,
           NEW s \in Stored(r, c)
    PROVE  /\ s \in Seq(Chunks) /\ Len(s) <= RingSize
           /\ \A i \in 1 .. Len(s) :
                 s[i] \in {Junk, c} \/ \E j \in 1 .. Len(r) : s[i] = r[j]
<1>1. CASE Len(r) < RingSize
    <2>1. s = Append(r, c)
        BY <1>1 DEF Stored
    <2>2. s \in Seq(Chunks) /\ Len(s) = Len(r) + 1
        BY <2>1
    <2>3. \A i \in 1 .. Len(s) : s[i] = IF i <= Len(r) THEN r[i] ELSE c
        BY <2>1
    <2> QED BY <1>1, <2>2, <2>3, ConstantAssumption
<1>2. CASE Len(r) = RingSize
    <2> DEFINE shifted == Append(Tail(r), c)
    <2>1. r # <<>>
        BY <1>2, ConstantAssumption
    <2>2. /\ Tail(r) \in Seq(Chunks) /\ Len(Tail(r)) = Len(r) - 1
          /\ \A i \in 1 .. Len(r) - 1 : Tail(r)[i] = r[i + 1]
        BY <2>1, HeadTailProperties
    <2>3. /\ shifted \in Seq(Chunks) /\ Len(shifted) = RingSize
          /\ \A i \in 1 .. RingSize :
                shifted[i] = IF i < RingSize THEN r[i + 1] ELSE c
        BY <1>2, <2>2, ConstantAssumption
    <2>4. Junk \in Chunks
        BY DEF Chunks
    <2>5. s = shifted \/ s = [shifted EXCEPT ![1] = Junk]
        BY <1>2, ConstantAssumption DEF Stored
    <2> HIDE DEF shifted
    <2>6. /\ [shifted EXCEPT ![1] = Junk] \in Seq(Chunks)
          /\ Len([shifted EXCEPT ![1] = Junk]) = RingSize
          /\ \A i \in 1 .. RingSize :
                [shifted EXCEPT ![1] = Junk][i] = IF i = 1 THEN Junk ELSE shifted[i]
        BY <2>3, <2>4, ConstantAssumption, ExceptSeq, 1 \in 1 .. Len(shifted)
    <2>7. s \in Seq(Chunks) /\ Len(s) = RingSize
        BY <2>3, <2>5, <2>6
    <2>8. \A i \in 1 .. RingSize : s[i] = Junk \/ s[i] = shifted[i]
        BY <2>5, <2>6
    <2>9. ASSUME NEW i \in 1 .. RingSize
          PROVE  shifted[i] = c \/ \E j \in 1 .. Len(r) : shifted[i] = r[j]
        <3>1. CASE i < RingSize
            <4>1. i + 1 \in 1 .. Len(r)
                BY <1>2, <3>1, ConstantAssumption
            <4> QED BY <2>3, <3>1, <4>1
        <3>2. CASE ~(i < RingSize)
            BY <2>3, <3>2
        <3> QED BY <3>1, <3>2
    <2> QED BY <2>7, <2>8, <2>9, ConstantAssumption
<1> QED BY <1>1, <1>2, ConstantAssumption

\* A line gives at most one field a value, which is that of its first chunk's
\* meter or corrupt.
LEMMA ParseType ==
    ASSUME NEW text \in Seq(Chunks), NEW res \in Results
    PROVE  /\ Parse(text, res) \in Results
           /\ \A f \in Fields :
                 \/ Parse(text, res)[f] = res[f]
                 \/ Parse(text, res)[f] = Corrupt
                 \/ /\ 1 \in 1 .. Len(text) /\ text[1] # Junk
                    /\ Parse(text, res)[f] = text[1].meter
                    /\ text[1].meter \in Meters
<1>1. CASE Len(text) >= 2 /\ text[1].part = "head"
    <2> DEFINE g == text[1].field
               m == text[1].meter
               v == IF text[2] = LineTail(g, m) THEN m ELSE Corrupt
    <2>1. 1 \in 1 .. Len(text) /\ text[1] \in Chunks
        BY <1>1
    <2>2. g \in Fields /\ m \in Meters /\ text[1] # Junk
        BY <1>1, <2>1 DEF Chunks, Junk
    <2>3. Parse(text, res) = [res EXCEPT ![g] = v]
        BY <1>1 DEF Parse
    <2>4. v \in {m, Corrupt} /\ v \in Meters \cup {Zero, Missing, Corrupt}
        BY <2>2
    <2> HIDE DEF g, v
    <2> QED BY <2>1, <2>2, <2>3, <2>4 DEF Results
<1>2. CASE ~(Len(text) >= 2 /\ text[1].part = "head")
    BY <1>2 DEF Parse
<1> QED BY <1>1, <1>2

LEMMA AllType == \A v \in {Zero, Missing} : All(v) \in Results
BY DEF All, Results

LEMMA ChunkTypes ==
    /\ Junk \in Chunks
    /\ \A f \in Fields, m \in Meters :
          LineHead(f, m) \in Chunks /\ LineTail(f, m) \in Chunks
BY DEF Chunks, LineHead, LineTail

\* What an interrupt may do to the ring buffer.
LEMMA ReceivedType ==
    ASSUME TypeOK, NEW c \in Chunks, Received(c)
    PROVE  /\ ring' \in Seq(Chunks) /\ Len(ring') <= RingSize
           /\ \A i \in 1 .. Len(ring') :
                 ring'[i] \in {Junk, c} \/ \E j \in 1 .. Len(ring) : ring'[i] = ring[j]
<1>1. ring' = ring \/ (\E d \in {c, Junk} : ring' \in Stored(ring, d))
    BY DEF Received
<1>2. ring \in Seq(Chunks) /\ Len(ring) <= RingSize /\ Junk \in Chunks
    BY ChunkTypes DEF TypeOK
<1> QED BY <1>1, <1>2, StoredType

\* RxText as one received chunk.
LEMMA RxTextIs ==
    ASSUME TypeOK, RxText
    PROVE  /\ \E m \in powered, c \in Chunks :
                 Received(c) /\ (c = Junk \/ c.meter = m)
           /\ line' \in LinePositions
           /\ UNCHANGED <<uart, powered, procVars, ledVars, mainVars>>
<1>1. PICK m \in powered, f \in Fields :
          \/ line = "label" /\ line' = f /\ Received(LineHead(f, m))
          \/ line = f /\ line' = "newline" /\ Received(LineTail(f, m))
          \/ line = "label" /\ line' = "newline" /\ Received(Junk)
    BY DEF RxText
<1>2. m \in Meters
    BY DEF TypeOK
<1>3. LineHead(f, m).meter = m /\ LineTail(f, m).meter = m
    BY DEF LineHead, LineTail
<1>4. \E c \in Chunks : Received(c) /\ (c = Junk \/ c.meter = m)
    BY <1>1, <1>2, <1>3, ChunkTypes
<1>5. line' \in LinePositions
    BY <1>1 DEF LinePositions
<1> QED BY <1>4, <1>5 DEF RxText

\* A second of the blinker, by cases.
LEMMA BlinkCases ==
    ASSUME Blink
    PROVE  \/ led = "on" /\ led' = "off" /\ UNCHANGED <<blinkQ, proc>>
           \/ /\ led = "off" /\ blinkQ > 0 /\ led' = "on"
              /\ proc = "blocked" /\ proc' = "stop" /\ UNCHANGED blinkQ
           \/ /\ led = "off" /\ blinkQ > 0 /\ led' = "on"
              /\ proc # "blocked" /\ UNCHANGED proc /\ blinkQ' = blinkQ - 1
           \/ /\ led # "on" /\ ~(led = "off" /\ blinkQ > 0) /\ led' = "idle"
              /\ UNCHANGED <<blinkQ, proc>>
BY DEF Blink
-----------------------------------------------------------------------------
(***************************************************************************)
(* Types, and what main holds at each of its steps: the adapter, the UART  *)
(* and the radio, the label of the window, and its timer.                  *)
(***************************************************************************)
PowerInv ==
    /\ main # "window" => powered = {}
    /\ main = "window" => powered = {label}
    /\ main \in {"sleep", "hibernate"} => uart # "on"
    /\ main = "hibernate" => radio # "tx"
    /\ radio = "off" => main \in {"hibernate", "cycle"}

LabelInv ==
    /\ main = "boot" => label = 0
    /\ main = "cycle" => label \in {0, NumMeters}
    /\ main \in {"reset", "open", "window"} => label # 0
    /\ main \in {"sleep", "hibernate"} => label = NumMeters
    /\ main \notin {"window", "hibernate"} => timer = 0

\* The blinker rests only when nothing waits for it, and a sender blocks only
\* on a full queue.
BlinkInv ==
    /\ led = "idle" => blinkQ = 0 /\ proc # "blocked"
    /\ proc = "blocked" => blinkQ = BlinkQueueSize
    /\ main = "boot" => led = "idle" /\ proc = "receive" /\ procQ = 0

Inv1 == TypeOK /\ PowerInv /\ LabelInv /\ BlinkInv

LEMMA TypeInit == Init => TypeOK
<1> SUFFICES ASSUME Init PROVE TypeOK
    OBVIOUS
<1>1. ring \in Seq(Chunks) /\ Len(ring) <= RingSize
    BY ConstantAssumption DEF Init
<1>2. results \in Results
    BY AllType DEF Init
<1>3. /\ procQ \in 0 .. ProcQueueSize /\ blinkQ \in 0 .. BlinkQueueSize
      /\ timer \in Nat /\ cycle \in 0 .. CounterSize - 1 /\ age \in Nat
    BY ConstantAssumption DEF Init
<1>4. line \in LinePositions /\ powered \subseteq Meters
    BY DEF Init, LinePositions
<1>5. /\ uart \in {"on", "off", "none"}
      /\ radio \in {"idle", "tx", "off", "none"}
    BY DEF Init, Booted
<1> QED BY <1>1, <1>2, <1>3, <1>4, <1>5 DEF Init, TypeOK

LEMMA TypeUart == ASSUME Inv1, RxText \/ RxNewline PROVE TypeOK'
<1> USE DEF Inv1
<1>1. CASE RxText
    <2>1. ring' \in Seq(Chunks) /\ Len(ring') <= RingSize
        BY <1>1, RxTextIs, ReceivedType
    <2> QED BY <1>1, <2>1, RxTextIs DEF TypeOK, procVars, ledVars, mainVars
<1>2. CASE RxNewline
    <2>1. procQ' \in 0 .. ProcQueueSize /\ proc' \in {proc, "parse"}
        BY <1>2, ConstantAssumption DEF RxNewline, TypeOK
    <2> QED BY <1>2, <2>1 DEF RxNewline, TypeOK, LinePositions, ledVars, mainVars
<1> QED BY <1>1, <1>2

LEMMA TypeProc == ASSUME Inv1, ProcNext PROVE TypeOK'
<1> USE DEF Inv1, TypeOK, uartVars, ledVars, mainVars
<1>1. CASE MsgReceive
    BY <1>1, ConstantAssumption DEF MsgReceive
<1>2. CASE Process
    <2>1. ring' \in Seq(Chunks) /\ Len(ring') <= RingSize
        BY <1>2, ConstantAssumption DEF Process
    <2>2. results' \in Results
        BY <1>2, ParseType DEF Process
    <2>3. proc' \in {"notify", "receive"}
        BY <1>2 DEF Process
    <2> QED BY <1>2, <2>1, <2>2, <2>3 DEF Process
<1>3. CASE Notify
    <2>1. blinkQ' \in 0 .. BlinkQueueSize
        BY <1>3, ConstantAssumption DEF Notify
    <2> QED BY <1>3, <2>1 DEF Notify
<1>4. CASE Stop
    BY <1>4, AllType DEF Stop, UartOff
<1> QED BY <1>1, <1>2, <1>3, <1>4 DEF ProcNext

LEMMA TypeMain == ASSUME Inv1, MainNext PROVE TypeOK'
<1> USE DEF Inv1, TypeOK, uartVars, procVars, ledVars
<1>1. CASE Greet
    BY <1>1, ConstantAssumption DEF Greet
<1>2. CASE StartCycle
    BY <1>2 DEF StartCycle, SetRadio
<1>3. CASE SelectMeter
    <2>1. label' \in Meters \cup {0}
        BY <1>3, ConstantAssumption DEF SelectMeter, Meters
    <2> QED BY <1>3, <2>1 DEF SelectMeter
<1>4. CASE ResetResults
    BY <1>4, AllType DEF ResetResults
<1>5. CASE OpenWindow
    <2>1. label # 0 => powered' \subseteq Meters
        BY <1>5 DEF OpenWindow
    <2>2. label # 0
        BY <1>5 DEF OpenWindow, MainAt, LabelInv
    <2> QED BY <1>5, <2>1, <2>2, ConstantAssumption DEF OpenWindow, UartOn
<1>6. CASE CloseWindow
    BY <1>6 DEF CloseWindow, UartOff, LinePositions
<1>7. CASE Hibernate
    BY <1>7, ConstantAssumption DEF Hibernate, SetRadio
<1>8. CASE WakeUp
    <2>1. cycle' \in 0 .. CounterSize - 1
        BY <1>8, ConstantAssumption DEF WakeUp
    <2> QED BY <1>8, <2>1 DEF WakeUp
<1> QED BY <1>1, <1>2, <1>3, <1>4, <1>5, <1>6, <1>7, <1>8 DEF MainNext

LEMMA TypeTick == ASSUME Inv1, Tick PROVE TypeOK'
<1>1. Blink /\ timer > 0 /\ timer' = timer - 1
    BY DEF Tick
<1>2. /\ led' \in {"idle", "on", "off"} /\ blinkQ' \in 0 .. BlinkQueueSize
      /\ proc' \in {proc, "stop"}
    BY <1>1, BlinkCases, ConstantAssumption DEF Inv1, TypeOK
<1> QED BY <1>1, <1>2 DEF Tick, Inv1, TypeOK, uartVars

LEMMA ShapeInit == Init => PowerInv /\ LabelInv /\ BlinkInv
BY DEF Init, Booted, PowerInv, LabelInv, BlinkInv

LEMMA ShapeUart ==
    ASSUME Inv1, RxText \/ RxNewline
    PROVE  PowerInv' /\ LabelInv' /\ BlinkInv'
<1> USE DEF Inv1, PowerInv, LabelInv, BlinkInv
<1>1. CASE RxText
    BY <1>1, RxTextIs DEF procVars, ledVars, mainVars
<1>2. CASE RxNewline
    <2>1. /\ UNCHANGED <<uart, powered, ledVars, mainVars>>
          /\ proc' = proc \/ proc' = "parse"
          /\ main # "boot"
        BY <1>2 DEF RxNewline
    <2> QED BY <1>2, <2>1 DEF ledVars, mainVars
<1> QED BY <1>1, <1>2

LEMMA ShapeProc ==
    ASSUME Inv1, ProcNext
    PROVE  PowerInv' /\ LabelInv' /\ BlinkInv'
<1> USE DEF Inv1, PowerInv, LabelInv, BlinkInv, uartVars, ledVars, mainVars
<1>1. CASE MsgReceive
    BY <1>1 DEF MsgReceive, TypeOK
<1>2. CASE Process
    BY <1>2 DEF Process
<1>3. CASE Notify
    <2>1. proc' = "blocked" => blinkQ' = BlinkQueueSize
        BY <1>3 DEF Notify, TypeOK
    <2>2. led' # "idle" /\ main # "boot"
        BY <1>3 DEF Notify
    <2> QED BY <1>3, <2>1, <2>2 DEF Notify
<1>4. CASE Stop
    BY <1>4 DEF Stop, UartOff
<1> QED BY <1>1, <1>2, <1>3, <1>4 DEF ProcNext

LEMMA ShapeMain ==
    ASSUME Inv1, MainNext
    PROVE  PowerInv' /\ LabelInv' /\ BlinkInv'
<1> USE DEF Inv1, MainAt, PowerInv, LabelInv, BlinkInv, uartVars, procVars,
            ledVars
<1>1. CASE Greet
    BY <1>1 DEF Greet
<1>2. CASE StartCycle
    BY <1>2 DEF StartCycle, SetRadio
<1>3. CASE SelectMeter
    <2>1. label' # 0
        BY <1>3, ConstantAssumption DEF SelectMeter, TypeOK, Meters
    <2> QED BY <1>3, <2>1 DEF SelectMeter
<1>4. CASE ResetResults
    BY <1>4 DEF ResetResults
<1>5. CASE OpenWindow
    BY <1>5 DEF OpenWindow
<1>6. CASE CloseWindow
    <2>1. label \in 1 .. NumMeters
        BY <1>6 DEF CloseWindow, TypeOK, Meters
    <2>2. powered' = {} /\ uart' # "on" /\ timer' = 0
        BY <1>6 DEF CloseWindow, UartOff
    <2>3. main' = "sleep" => label = NumMeters
        BY <1>6, <2>1, ConstantAssumption DEF CloseWindow
    <2>4. main' \in {"select", "sleep"} /\ UNCHANGED <<procVars, ledVars, label, radio>>
        BY <1>6 DEF CloseWindow
    <2>5. radio # "off"
        BY <1>6 DEF CloseWindow
    <2> QED BY <2>2, <2>3, <2>4, <2>5
<1>7. CASE Hibernate
    BY <1>7 DEF Hibernate, SetRadio
<1>8. CASE WakeUp
    BY <1>8 DEF WakeUp
<1> QED BY <1>1, <1>2, <1>3, <1>4, <1>5, <1>6, <1>7, <1>8 DEF MainNext

LEMMA ShapeTick ==
    ASSUME Inv1, Tick
    PROVE  PowerInv' /\ LabelInv' /\ BlinkInv'
<1>1. Blink /\ UNCHANGED <<uartVars, main, label, radio>> /\ timer > 0
    BY DEF Tick
<1>2. main \in {"window", "hibernate"}
    BY <1>1 DEF Inv1, LabelInv
<1>3. PowerInv' /\ LabelInv'
    BY <1>1, <1>2 DEF Inv1, PowerInv, LabelInv, uartVars
<1>4. BlinkInv'
    BY <1>1, <1>2, BlinkCases, ConstantAssumption DEF Inv1, BlinkInv, TypeOK
<1> QED BY <1>3, <1>4

LEMMA Inv1Always == Spec => []Inv1
<1>1. Init => Inv1
    BY TypeInit, ShapeInit DEF Inv1
<1>2. Inv1 /\ [Next]_vars => Inv1'
    <2> SUFFICES ASSUME Inv1, [Next]_vars
                 PROVE  Inv1'
        OBVIOUS
    <2>1. CASE RxText \/ RxNewline
        BY <2>1, TypeUart, ShapeUart DEF Inv1
    <2>2. CASE ProcNext
        BY <2>2, TypeProc, ShapeProc DEF Inv1
    <2>3. CASE MainNext
        BY <2>3, TypeMain, ShapeMain DEF Inv1
    <2>4. CASE Tick
        BY <2>4, TypeTick, ShapeTick DEF Inv1
    <2>5. CASE UNCHANGED vars
        BY <2>5 DEF vars, uartVars, procVars, ledVars, mainVars, Inv1, TypeOK,
           PowerInv, LabelInv, BlinkInv
    <2> QED BY <2>1, <2>2, <2>3, <2>4, <2>5 DEF Next
<1> QED BY <1>1, <1>2, PTL DEF Spec

\* The types of the mote's state, with the bounds of its queues and buffers.
THEOREM TypeCorrect == Spec => []TypeOK
<1>1. Inv1 => TypeOK
    BY DEF Inv1
<1> QED BY <1>1, Inv1Always, PTL

\* The processor never waits for a thread that waits: when its msg_send blocks
\* (main.c:209) the blinker's queue is full and the blinker is at a message,
\* and the blinker itself waits for nothing but time (main.c:134-158).
NoCircularWait ==
    proc = "blocked" => led # "idle" /\ blinkQ = BlinkQueueSize

\* The safety half of the blinker's and the processor's coming to rest, for
\* every size of the queues.
THEOREM NoCircularWaitHolds == Spec => []NoCircularWait
<1>1. Inv1 => NoCircularWait
    BY DEF Inv1, BlinkInv, NoCircularWait
<1> QED BY <1>1, Inv1Always, PTL

\* In the pause nothing is on (main.c:424-428), whatever the processor does.
THEOREM PauseQuietHolds == Spec => []PauseQuiet
<1>1. Inv1 => PauseQuiet
    BY DEF Inv1, PowerInv, PauseQuiet
<1> QED BY <1>1, Inv1Always, PTL
-----------------------------------------------------------------------------
(***************************************************************************)
(* The timing argument.  Load is how many seconds the blinker still needs, *)
(* ToCome bounds the messages the processor may yet send it: once a report *)
(* has switched the UART off, only those of the lines already queued.      *)
(* Their sum Work shrinks by one every second and grows only when a window *)
(* opens, by at most a Burst.                                              *)
(***************************************************************************)
Quiet == proc = "receive" /\ procQ = 0

Load ==
    (IF led = "on" THEN 2 ELSE IF led = "off" THEN 1 ELSE 0)
    + 2 * blinkQ + (IF proc = "blocked" THEN 2 ELSE 0)

ToCome ==
    IF uart = "on"
    THEN ProcQueueSize + (IF proc \in {"stop", "blocked"} THEN 0 ELSE 1)
    ELSE procQ + (IF proc \in {"parse", "notify"} THEN 1 ELSE 0)

Work  == Load + 2 * ToCome
Burst == 2 * (ProcQueueSize + 1)

WorkInv ==
    /\ main \in {"boot", "cycle", "select", "reset", "open"} => Quiet
    /\ main = "cycle" => Load <= 6
    /\ main = "select" => Load <= IF label = 1 THEN Burst ELSE 6
    /\ main \in {"reset", "open"} => Load <= IF label = 1 THEN 6 ELSE Burst
    /\ main = "window" /\ label = 1 =>
          Work <= Burst \/ Work <= Burst + 6 - ReadDelay + timer
    /\ main = "window" /\ label = 2 => Work <= 2 * Burst
    /\ main = "sleep" => Work <= 2 * Burst
    /\ main = "hibernate" => Work = 0 \/ Work <= 2 * Burst - CyclePause + timer

LEMMA WorkTypes ==
    ASSUME Inv1
    PROVE  /\ Load \in Nat /\ ToCome \in Nat /\ Work \in Nat /\ Burst \in Nat
           /\ Work = Load + 2 * ToCome /\ Load <= Work
           /\ timer \in Nat /\ procQ \in Nat /\ blinkQ \in Nat
           /\ procQ <= ProcQueueSize /\ 2 * ToCome <= Burst
<1>1. /\ procQ \in Nat /\ procQ <= ProcQueueSize /\ ProcQueueSize \in Nat
      /\ blinkQ \in Nat /\ timer \in Nat
    BY ConstantAssumption DEF Inv1, TypeOK
<1>2. Load \in Nat
    BY <1>1 DEF Load
<1>3. ToCome \in Nat /\ ToCome <= ProcQueueSize + 1
    BY <1>1 DEF ToCome
<1> QED BY <1>1, <1>2, <1>3 DEF Work, Burst

LEMMA WorkNat == Inv1 => Load \in Nat /\ ToCome \in Nat /\ Work \in Nat
BY WorkTypes

LEMMA WorkNatNext ==
    Inv1' => (Load \in Nat /\ ToCome \in Nat /\ Work \in Nat)'
BY WorkNat, PTL

\* A step that leaves main alone and brings no more work preserves WorkInv.
LEMMA WorkSame ==
    ASSUME Inv1, WorkInv, Inv1', UNCHANGED <<main, label, timer>>,
           Work' <= Work, main \in {"window", "sleep", "hibernate"}
    PROVE  WorkInv'
<1>1. Work \in Nat /\ Work' \in Nat /\ Burst' = Burst
    BY WorkNat, WorkNatNext DEF Burst
<1> QED BY <1>1, WorkTypes, ConstantAssumption DEF WorkInv

LEMMA WorkUart ==
    ASSUME Inv1, WorkInv, Inv1', RxText \/ RxNewline
    PROVE  WorkInv'
<1>1. main = "window"
    BY DEF Inv1, PowerInv, RxText, RxNewline
<1>2. CASE RxText
    <2>1. UNCHANGED <<uart, procVars, ledVars, mainVars>>
        BY <1>2, RxTextIs DEF Inv1
    <2>2. Work' = Work
        BY <2>1 DEF Work, Load, ToCome, procVars, ledVars
    <2> QED BY <1>1, <2>1, <2>2, WorkSame, WorkNat DEF mainVars
<1>3. CASE RxNewline
    <2>1. /\ UNCHANGED <<uart, ledVars, mainVars>>
          /\ uart # "on" => UNCHANGED <<proc, procQ>>
          /\ proc' = proc \/ (proc = "receive" /\ proc' = "parse")
        BY <1>3 DEF RxNewline
    <2>2. Load' = Load /\ ToCome' = ToCome
        BY <2>1 DEF Load, ToCome, ledVars
    <2>3. Work' <= Work
        BY <2>2, WorkNat DEF Work
    <2> QED BY <1>1, <2>1, <2>3, WorkSame DEF mainVars
<1> QED BY <1>2, <1>3

LEMMA WorkProc ==
    ASSUME Inv1, WorkInv, Inv1', ProcNext
    PROVE  WorkInv'
<1> USE DEF uartVars, ledVars, mainVars
<1>1. proc # "receive" \/ procQ # 0
    BY DEF ProcNext, MsgReceive, Process, Notify, Stop, Inv1, TypeOK
<1>2. main \in {"window", "sleep", "hibernate"}
    BY <1>1 DEF WorkInv, Quiet, Inv1, TypeOK
<1>3. UNCHANGED <<main, label, timer>>
    BY DEF ProcNext, MsgReceive, Process, Notify, Stop
<1>4. procQ \in Nat /\ procQ <= ProcQueueSize /\ ProcQueueSize \in Nat /\ blinkQ \in Nat
    BY WorkTypes, ConstantAssumption
<1>5. CASE MsgReceive
    <2>1. Load' = Load /\ ToCome' = ToCome
        BY <1>4, <1>5 DEF MsgReceive, Load, ToCome
    <2> QED BY <1>2, <1>3, <2>1, WorkSame, WorkNat DEF Work
<1>6. CASE Process
    <2>1. Load' = Load /\ ToCome' <= ToCome
        BY <1>4, <1>6 DEF Process, Load, ToCome
    <2>2. Work' <= Work
        BY <2>1, WorkNat, WorkNatNext DEF Work
    <2> QED BY <1>2, <1>3, <2>2, WorkSame
<1>7. CASE Notify
    <2>1. Load' = Load + 2
        <3>2. CASE led = "idle"
            <4>1. led' = "on" /\ blinkQ' = blinkQ /\ proc' = "stop" /\ blinkQ = 0
                BY <1>7, <3>2 DEF Notify, Inv1, BlinkInv
            <4> QED BY <1>7, <3>2, <4>1 DEF Notify, Load
        <3>3. CASE led # "idle" /\ blinkQ < BlinkQueueSize
            <4>1. led' = led /\ blinkQ' = blinkQ + 1 /\ proc' = "stop"
                BY <1>4, <1>7, <3>3 DEF Notify
            <4> QED BY <1>4, <1>7, <3>3, <4>1 DEF Notify, Load
        <3>4. CASE led # "idle" /\ ~(blinkQ < BlinkQueueSize)
            <4>1. blinkQ = BlinkQueueSize
                BY <3>4, ConstantAssumption DEF Inv1, TypeOK
            <4>2. led' = led /\ blinkQ' = blinkQ /\ proc' = "blocked"
                BY <1>7, <3>4, <4>1 DEF Notify
            <4> QED BY <1>4, <1>7, <3>4, <4>2 DEF Notify, Load
        <3> QED BY <3>2, <3>3, <3>4
    <2>2. ToCome' = ToCome - 1
        BY <1>4, <1>7 DEF Notify, ToCome
    <2>3. Work' <= Work
        BY <2>1, <2>2, WorkNat DEF Work
    <2> QED BY <1>2, <1>3, <2>3, WorkSame
<1>8. CASE Stop
    <2>1. Load' = Load /\ ToCome' <= ToCome
        BY <1>4, <1>8 DEF Stop, UartOff, Load, ToCome
    <2>2. Work' <= Work
        BY <2>1, WorkNat, WorkNatNext DEF Work
    <2> QED BY <1>2, <1>3, <2>2, WorkSame
<1> QED BY <1>5, <1>6, <1>7, <1>8 DEF ProcNext

LEMMA WorkTick ==
    ASSUME Inv1, WorkInv, Inv1', Tick
    PROVE  WorkInv'
<1>1. /\ Blink /\ ~ProcReady /\ UNCHANGED <<uart, procQ, main, label>>
      /\ timer' = timer - 1 /\ timer > 0
    BY DEF Tick, uartVars
<1>2. main \in {"window", "hibernate"} /\ label \in {1, 2}
    BY <1>1, TimingAssumption DEF Inv1, LabelInv, TypeOK, Meters
<1>3. /\ procQ \in Nat /\ blinkQ \in Nat /\ timer \in Nat
      /\ Burst \in Nat /\ Burst' = Burst
      /\ ReadDelay \in Nat /\ CyclePause \in Nat
    BY WorkTypes, ConstantAssumption DEF Burst
<1>4. ToCome' = ToCome
    BY <1>1, BlinkCases DEF ToCome, ProcReady
<1>5. Load' = IF Load = 0 THEN 0 ELSE Load - 1
    <2>1. CASE led = "on" /\ led' = "off" /\ UNCHANGED <<blinkQ, proc>>
        BY <1>3, <2>1 DEF Load
    <2>2. CASE /\ led = "off" /\ blinkQ > 0 /\ led' = "on"
               /\ proc = "blocked" /\ proc' = "stop" /\ UNCHANGED blinkQ
        BY <1>3, <2>2 DEF Load
    <2>3. CASE /\ led = "off" /\ blinkQ > 0 /\ led' = "on"
               /\ proc # "blocked" /\ UNCHANGED proc /\ blinkQ' = blinkQ - 1
        BY <1>3, <2>3 DEF Load
    <2>4. CASE /\ led # "on" /\ ~(led = "off" /\ blinkQ > 0) /\ led' = "idle"
               /\ UNCHANGED <<blinkQ, proc>>
        <3>1. blinkQ = 0 /\ proc # "blocked" /\ led \in {"idle", "off"}
            BY <1>3, <2>4, ConstantAssumption DEF Inv1, BlinkInv, TypeOK
        <3> QED BY <2>4, <3>1 DEF Load
    <2> QED BY <1>1, <2>1, <2>2, <2>3, <2>4, BlinkCases
<1>6. Load = 0 /\ uart # "on" => ToCome = 0
    BY <1>1, <1>3 DEF Load, ToCome, ProcReady, Inv1, TypeOK
<1>7. Load \in Nat /\ ToCome \in Nat /\ 2 * ToCome <= Burst
    BY WorkTypes
<1>8. Work = Load + 2 * ToCome /\ Work' = Load' + 2 * ToCome'
    BY DEF Work
<1>9. CASE main = "window"
    <2>1. Work' <= Work /\ (Load = 0 => Work' <= Burst)
          /\ (Load # 0 => Work' = Work - 1)
        BY <1>4, <1>5, <1>7, <1>8
    <2>2. Work \in Nat /\ Work' \in Nat
        BY WorkNat, WorkNatNext
    <2> QED BY <1>1, <1>2, <1>3, <1>9, <2>1, <2>2 DEF WorkInv
<1>10. CASE main = "hibernate"
    <2>1. uart # "on"
        BY <1>10 DEF Inv1, PowerInv
    <2>2. Work' = 0 \/ (Work' = Work - 1 /\ Work # 0)
        BY <1>4, <1>5, <1>6, <1>7, <1>8, <2>1
    <2>3. Work \in Nat /\ Work' \in Nat
        BY WorkNat, WorkNatNext
    <2> QED BY <1>1, <1>2, <1>3, <1>10, <2>2, <2>3 DEF WorkInv
<1> QED BY <1>2, <1>9, <1>10

LEMMA BoundedSum ==
    ASSUME NEW l \in Nat, NEW t \in Nat, NEW k \in Nat, NEW b \in Nat,
           l <= k, 2 * t <= b
    PROVE  l + 2 * t <= k + b
OBVIOUS

LEMMA WorkMain ==
    ASSUME Inv1, WorkInv, Inv1', MainNext
    PROVE  WorkInv'
<1> USE DEF MainAt, uartVars, procVars, ledVars
<1>0. /\ Burst \in Nat /\ Burst' = Burst /\ Load \in Nat /\ Work \in Nat
      /\ label \in {0, 1, 2} /\ timer \in Nat
      /\ ReadDelay \in Nat /\ CyclePause \in Nat /\ ProcQueueSize \in Nat
      /\ BlinkQueueSize \in Nat
    BY WorkTypes, ConstantAssumption, TimingAssumption
       DEF Burst, Inv1, TypeOK, Meters
<1>1. CASE Greet
    <2>1. Quiet' /\ main' = "cycle"
        BY <1>1 DEF Greet, WorkInv, Quiet
    <2>2. Load' = 6
        BY <1>1, <2>1 DEF Greet, Load, Quiet
    <2> QED BY <2>1, <2>2 DEF WorkInv
<1>2. CASE StartCycle
    <2>1. Quiet' /\ Load' = Load /\ main' = "select" /\ label' = label
        BY <1>2 DEF StartCycle, WorkInv, Quiet, Load
    <2>2. label # 1 /\ Load <= 6
        BY <1>2, TimingAssumption DEF StartCycle, WorkInv, Inv1, LabelInv
    <2> QED BY <1>0, <2>1, <2>2 DEF WorkInv
<1>3. CASE SelectMeter
    <2>1. Quiet' /\ Load' = Load /\ main' = "reset"
        BY <1>3 DEF SelectMeter, WorkInv, Quiet, Load
    <2>2. label' = IF label = 2 THEN 1 ELSE label + 1
        BY <1>3, TimingAssumption DEF SelectMeter
    <2>3. Load <= IF label = 1 THEN Burst ELSE 6
        BY <1>3 DEF SelectMeter, WorkInv
    <2> QED BY <1>0, <2>1, <2>2, <2>3 DEF WorkInv
<1>4. CASE ResetResults
    <2>1. Quiet' /\ Load' = Load /\ main' = "open" /\ label' = label
        BY <1>4 DEF ResetResults, WorkInv, Quiet, Load
    <2> QED BY <1>0, <1>4, <2>1 DEF WorkInv, ResetResults
<1>5. CASE OpenWindow
    <2>1. /\ main = "open" /\ main' = "window" /\ label' = label
          /\ timer' = ReadDelay
          /\ Load' = Load
        BY <1>5 DEF OpenWindow, Load
    <2>2. 2 * ToCome' <= Burst
        <3>1. Quiet'
            BY <1>5 DEF OpenWindow, WorkInv, Quiet
        <3> QED BY <1>0, <3>1 DEF Quiet, ToCome, Burst
    <2>3. (label = 1 => Load <= 6) /\ (label = 2 => Load <= Burst)
        BY <2>1 DEF WorkInv
    <2>4. Work' = Load + 2 * ToCome' /\ ToCome' \in Nat /\ Work' \in Nat
        BY <2>1, WorkNatNext DEF Work
    <2>5. label = 1 => Work' <= Burst + 6 - ReadDelay + timer'
        <3>1. label = 1 => Load + 2 * ToCome' <= 6 + Burst
            BY <1>0, <2>2, <2>3, <2>4, BoundedSum
        <3>2. label = 1 => Work' <= 6 + Burst
            BY <2>4, <3>1, Zenon
        <3>3. Burst + 6 - ReadDelay + timer' = 6 + Burst
            BY <1>0, <2>1
        <3> QED BY <3>2, <3>3, Zenon
    <2>6. label = 2 => Work' <= 2 * Burst
        <3>1. label = 2 => Load + 2 * ToCome' <= Burst + Burst
            BY <1>0, <2>2, <2>3, <2>4, BoundedSum
        <3>2. Burst + Burst = 2 * Burst
            BY <1>0
        <3> QED BY <2>4, <3>1, <3>2, Zenon
    <2> QED BY <1>0, <2>1, <2>5, <2>6 DEF WorkInv
<1>6. CASE CloseWindow
    <2>1. /\ main = "window" /\ timer = 0 /\ ~ProcReady /\ timer' = timer
          /\ UNCHANGED <<procVars, ledVars, label>>
          /\ main' = IF label < 2 THEN "select" ELSE "sleep"
          /\ uart' # "on"
        BY <1>6, TimingAssumption DEF CloseWindow, UartOff
    <2>2. label \in {1, 2}
        BY <1>0, <2>1 DEF Inv1, LabelInv
    <2>3. Load' = Load
        BY <2>1 DEF Load
    <2>4. CASE label = 1
        <3>1. Work <= Burst
            BY <1>0, <2>1, <2>4, TimingAssumption DEF WorkInv
        <3>2. Load <= Burst
            BY <1>0, <3>1, WorkTypes
        <3>3. proc # "blocked"
            <4> SUFFICES ASSUME proc = "blocked" PROVE FALSE
                OBVIOUS
            <4>1. blinkQ = BlinkQueueSize /\ led # "idle"
                BY DEF Inv1, BlinkInv
            <4>2. Load >= 2 * BlinkQueueSize + 3
                BY <1>0, <4>1 DEF Load, Inv1, TypeOK
            <4> QED BY <1>0, <3>2, <4>2, TimingAssumption DEF Burst
        <3>4. Quiet'
            BY <2>1, <3>3, WorkTypes DEF ProcReady, Quiet, Inv1, TypeOK
        <3> QED BY <1>0, <2>1, <2>3, <2>4, <3>2, <3>4 DEF WorkInv
    <2>5. CASE label = 2
        <3>1. ToCome' <= ToCome
            BY <1>0, <2>1, WorkTypes DEF ToCome, ProcReady
        <3>2. Work' <= Work
            BY <2>3, <3>1, WorkNat, WorkNatNext DEF Work
        <3>3. Work <= 2 * Burst /\ main' = "sleep"
            BY <2>1, <2>5 DEF WorkInv
        <3>4. Work' <= 2 * Burst
            BY <1>0, <3>2, <3>3, WorkNatNext
        <3> QED BY <1>0, <3>3, <3>4 DEF WorkInv
    <2> QED BY <2>2, <2>4, <2>5
<1>7. CASE Hibernate
    <2>1. main = "sleep" /\ main' = "hibernate" /\ timer' = CyclePause
        BY <1>7 DEF Hibernate
    <2>2. Work' = Work
        BY <1>7 DEF Hibernate, Work, Load, ToCome
    <2> QED BY <1>0, <2>1, <2>2 DEF WorkInv
<1>8. CASE WakeUp
    <2>1. /\ main = "hibernate" /\ main' = "cycle" /\ timer = 0 /\ ~ProcReady
          /\ UNCHANGED <<uart, procVars, ledVars>>
        BY <1>8 DEF WakeUp
    <2>2. Work = 0
        <3>1. 2 * Burst <= CyclePause
            BY <1>0, TimingAssumption DEF Burst
        <3> QED BY <1>0, <2>1, <3>1 DEF WorkInv
    <2>3. Load = 0 /\ ToCome = 0
        BY <2>2, WorkTypes
    <2>4. Quiet
        BY <2>1, <2>3, WorkTypes, ConstantAssumption
           DEF Load, ToCome, Quiet, ProcReady, Inv1, TypeOK, PowerInv
    <2>5. Quiet' /\ Load' = 0
        BY <2>1, <2>3, <2>4 DEF Quiet, Load
    <2> QED BY <2>1, <2>5 DEF WorkInv
<1> QED BY <1>1, <1>2, <1>3, <1>4, <1>5, <1>6, <1>7, <1>8 DEF MainNext

LEMMA WorkAlways == Spec => []WorkInv
<1>1. Init => WorkInv
    BY DEF Init, WorkInv, Quiet
<1>2. Inv1 /\ Inv1' /\ WorkInv /\ [Next]_vars => WorkInv'
    <2> SUFFICES ASSUME Inv1, Inv1', WorkInv, [Next]_vars
                 PROVE  WorkInv'
        OBVIOUS
    <2>1. CASE UNCHANGED vars
        BY <2>1 DEF vars, uartVars, procVars, ledVars, mainVars, WorkInv,
           Quiet, Work, Load, ToCome, Burst
    <2> QED BY <2>1, WorkUart, WorkProc, WorkMain, WorkTick DEF Next
<1> QED BY <1>1, <1>2, Inv1Always, PTL DEF Spec

\* When main turns to the next meter the processor is done with the last one:
\* of the messages of a window, those that may block are blinked in time.
THEOREM HandoverQuietHolds == Spec => []HandoverQuiet
<1>1. WorkInv => HandoverQuiet
    BY DEF WorkInv, Quiet, HandoverQuiet
<1> QED BY <1>1, WorkAlways, PTL
-----------------------------------------------------------------------------
(***************************************************************************)
(* What the first report of a window is made of.                           *)
(***************************************************************************)
FreshInv ==
    /\ fresh => \A f \in Fields : results[f] # Zero
    /\ proc \in {"stop", "blocked"} => ~fresh
    /\ main \in {"sleep", "hibernate"} /\ fresh => Quiet

LEMMA FreshUart ==
    ASSUME Inv1, WorkInv, FreshInv, RxText \/ RxNewline
    PROVE  FreshInv'
<1>1. main = "window"
    BY DEF Inv1, PowerInv, RxText, RxNewline
<1>2. UNCHANGED <<main, results, fresh>>
    BY RxTextIs DEF RxNewline, Inv1, procVars, mainVars
<1>3. proc' = proc \/ proc' = "parse"
    BY RxTextIs DEF RxNewline, Inv1, procVars
<1> QED BY <1>1, <1>2, <1>3 DEF FreshInv

LEMMA FreshProc ==
    ASSUME Inv1, WorkInv, FreshInv, ProcNext
    PROVE  FreshInv'
<1> USE DEF FreshInv, uartVars, ledVars, mainVars
<1>1. CASE MsgReceive
    BY <1>1 DEF MsgReceive, Quiet, Inv1, TypeOK
<1>2. CASE Process
    <2>1. \A f \in Fields : results'[f] = Zero => results[f] = Zero
        <3>1. results \in Results /\ ring \in Seq(Chunks)
            BY DEF Inv1, TypeOK
        <3>2. \A f \in Fields : \/ results'[f] = results[f]
                                \/ results'[f] = Corrupt
                                \/ results'[f] \in Meters
            BY <1>2, <3>1, ParseType DEF Process
        <3>3. Corrupt # Zero /\ \A m \in Meters : m # Zero
            BY DEF Corrupt, Zero, Meters
        <3> QED BY <3>2, <3>3
    <2>2. /\ UNCHANGED <<fresh, main, procQ>>
          /\ proc = "parse" /\ proc' \in {"notify", "receive"}
        BY <1>2 DEF Process
    <2> QED BY <2>1, <2>2 DEF Quiet
<1>3. CASE Notify
    BY <1>3 DEF Notify
<1>4. CASE Stop
    BY <1>4 DEF Stop
<1> QED BY <1>1, <1>2, <1>3, <1>4 DEF ProcNext

LEMMA FreshMain ==
    ASSUME Inv1, WorkInv, FreshInv, MainNext
    PROVE  FreshInv'
<1> USE DEF FreshInv, MainAt, uartVars, procVars, ledVars
<1>1. CASE ResetResults
    <2>1. Quiet
        BY <1>1 DEF ResetResults, WorkInv
    <2>2. \A f \in Fields : results'[f] # Zero
        BY <1>1 DEF ResetResults, All, Missing, Zero
    <2> QED BY <1>1, <2>1, <2>2 DEF ResetResults, Quiet
<1>2. CASE CloseWindow
    <2>1. /\ ~ProcReady /\ UNCHANGED procVars
          /\ main' \in {"select", "sleep"}
        BY <1>2 DEF CloseWindow
    <2>2. fresh => Quiet
        BY <2>1 DEF ProcReady, Quiet, Inv1, TypeOK
    <2> QED BY <2>1, <2>2 DEF Quiet
<1>3. CASE \/ Greet \/ StartCycle \/ SelectMeter \/ OpenWindow \/ Hibernate
           \/ WakeUp
    <2>1. UNCHANGED procVars \/ Greet
        BY <1>3 DEF StartCycle, SelectMeter, OpenWindow, Hibernate, WakeUp
    <2>2. UNCHANGED <<proc, procQ, results, fresh>>
        BY <2>1 DEF Greet
    <2>3. main' \in {"cycle", "select", "reset", "window"}
          \/ (main = "sleep" /\ main' = "hibernate")
        BY <1>3 DEF Greet, StartCycle, SelectMeter, OpenWindow, Hibernate, WakeUp
    <2> QED BY <2>2, <2>3 DEF Quiet
<1> QED BY <1>1, <1>2, <1>3 DEF MainNext

LEMMA FreshTick ==
    ASSUME Inv1, WorkInv, FreshInv, Tick
    PROVE  FreshInv'
<1>1. Blink /\ UNCHANGED <<main, procQ, results, fresh>>
    BY DEF Tick
<1>2. proc' = proc \/ (proc = "blocked" /\ proc' = "stop")
    BY <1>1, BlinkCases
<1> QED BY <1>1, <1>2 DEF FreshInv, Quiet

LEMMA FreshAlways == Spec => []FreshInv
<1>1. Init => FreshInv
    BY DEF Init, FreshInv
<1>2. Inv1 /\ WorkInv /\ FreshInv /\ [Next]_vars => FreshInv'
    <2> SUFFICES ASSUME Inv1, WorkInv, FreshInv, [Next]_vars
                 PROVE  FreshInv'
        OBVIOUS
    <2>1. CASE UNCHANGED vars
        BY <2>1 DEF vars, procVars, mainVars, FreshInv, Quiet
    <2> QED BY <2>1, FreshUart, FreshProc, FreshMain, FreshTick DEF Next
<1> QED BY <1>1, <1>2, Inv1Always, WorkAlways, PTL DEF Spec

\* The first report of a window is made of what was received, and the radio is
\* not off: main's fresh results meet no processor that would set them to zero.
THEOREM FirstReportRealHolds == Spec => []FirstReportReal
<1>1. Inv1 /\ WorkInv /\ FreshInv => FirstReportReal
    <2> SUFFICES ASSUME Inv1, WorkInv, FreshInv, Reporting, fresh
                 PROVE  radio # "off" /\ \A f \in Fields : results[f] # Zero
        BY DEF FirstReportReal
    <2>1. ~Quiet
        BY DEF Reporting, Quiet
    <2>2. main \notin {"cycle", "hibernate"}
        BY <2>1 DEF WorkInv, FreshInv
    <2> QED BY <2>2 DEF Inv1, PowerInv, FreshInv
<1> QED BY <1>1, Inv1Always, WorkAlways, FreshAlways, PTL
-----------------------------------------------------------------------------
(***************************************************************************)
(* A window that began with an empty ring buffer keeps to its meter.       *)
(***************************************************************************)
CleanInv ==
    /\ main # "reset" /\ fresh /\ clean =>
          /\ \A f \in Fields : results[f] \in {label, Corrupt, Missing}
          /\ \A i \in 1 .. Len(ring) : ring[i] # Junk => ring[i].meter = label
    /\ proc = "notify" => Complete(results)

LEMMA CleanUart ==
    ASSUME Inv1, CleanInv, RxText \/ RxNewline
    PROVE  CleanInv'
<1>1. CASE RxText
    <2>1. PICK m \in powered, c \in Chunks :
            Received(c) /\ (c = Junk \/ c.meter = m)
        BY <1>1, RxTextIs DEF Inv1
    <2>2. UNCHANGED <<main, proc, results, fresh, clean, label>>
        BY <1>1, RxTextIs DEF Inv1, procVars, mainVars
    <2>3. m = label
        BY <2>1 DEF Inv1, PowerInv
    <2>4. \A i \in 1 .. Len(ring') :
            ring'[i] \in {Junk, c} \/ \E j \in 1 .. Len(ring) : ring'[i] = ring[j]
        BY <2>1, ReceivedType DEF Inv1
    <2> QED BY <2>1, <2>2, <2>3, <2>4 DEF CleanInv, Complete
<1>2. CASE RxNewline
    BY <1>2 DEF RxNewline, mainVars, CleanInv, Complete
<1> QED BY <1>1, <1>2

LEMMA CleanProc ==
    ASSUME Inv1, FreshInv, CleanInv, ProcNext
    PROVE  CleanInv'
<1> USE DEF CleanInv, Complete, uartVars, mainVars
<1>1. CASE MsgReceive
    BY <1>1 DEF MsgReceive
<1>2. CASE Process
    <2>1. results \in Results /\ ring \in Seq(Chunks)
        BY DEF Inv1, TypeOK
    <2>2. \A f \in Fields :
            \/ results'[f] = results[f]
            \/ results'[f] = Corrupt
            \/ /\ 1 \in 1 .. Len(ring) /\ ring[1] # Junk
               /\ results'[f] = ring[1].meter
        BY <1>2, <2>1, ParseType DEF Process
    <2>3. /\ UNCHANGED <<main, fresh, clean, label>> /\ ring' = <<>>
          /\ proc' = "notify" => \A f \in Fields : results'[f] # Missing
        BY <1>2 DEF Process
    <2> QED BY <2>2, <2>3
<1>3. CASE Notify
    BY <1>3 DEF Notify
<1>4. CASE Stop
    BY <1>4 DEF Stop, FreshInv
<1> QED BY <1>1, <1>2, <1>3, <1>4 DEF ProcNext

LEMMA CleanMain ==
    ASSUME Inv1, CleanInv, MainNext
    PROVE  CleanInv'
<1> USE DEF CleanInv, Complete, MainAt, uartVars, procVars
<1>1. CASE ResetResults
    <2>1. \A f \in Fields : results'[f] = Missing
        BY <1>1 DEF ResetResults, All
    <2>2. (clean' => ring' = <<>>) /\ proc' # "notify"
        BY <1>1 DEF ResetResults, ProcReady
    <2> QED BY <2>1, <2>2
<1>2. CASE SelectMeter
    BY <1>2 DEF SelectMeter
<1>3. CASE \/ Greet \/ StartCycle \/ OpenWindow \/ CloseWindow \/ Hibernate
           \/ WakeUp
    <2>1. /\ UNCHANGED <<proc, ring, results, fresh, clean, label>>
          /\ main # "reset"
        BY <1>3 DEF Greet, StartCycle, OpenWindow, CloseWindow, Hibernate, WakeUp
    <2> QED BY <2>1
<1> QED BY <1>1, <1>2, <1>3 DEF MainNext

LEMMA CleanAlways == Spec => []CleanInv
<1>1. Init => CleanInv
    BY DEF Init, CleanInv
<1>2. Inv1 /\ FreshInv /\ CleanInv /\ [Next]_vars => CleanInv'
    <2> SUFFICES ASSUME Inv1, FreshInv, CleanInv, [Next]_vars
                 PROVE  CleanInv'
        OBVIOUS
    <2>1. CASE UNCHANGED vars
        BY <2>1 DEF vars, uartVars, procVars, mainVars, CleanInv, Complete
    <2>2. CASE Tick
        BY <2>2, BlinkCases DEF Tick, uartVars, CleanInv, Complete
    <2> QED BY <2>1, <2>2, CleanUart, CleanProc, CleanMain DEF Next
<1> QED BY <1>1, <1>2, Inv1Always, FreshAlways, PTL DEF Spec

\* Such a report holds no value of the other meter, whatever is lost of the
\* text or misplaced by the interrupt.
THEOREM PureFromCleanHolds == Spec => []PureFromClean
<1>1. WorkInv /\ CleanInv => PureFromClean
    <2> SUFFICES ASSUME WorkInv, CleanInv, Reporting, fresh, clean,
                        NEW f \in Fields
                 PROVE  results[f] \in {label, Corrupt}
        BY DEF PureFromClean
    <2>1. main # "reset"
        BY DEF Reporting, WorkInv, Quiet
    <2> QED BY <2>1 DEF CleanInv, Complete, Reporting
<1> QED BY <1>1, WorkAlways, CleanAlways, PTL
-----------------------------------------------------------------------------
(***************************************************************************)
(* The battery message.  Between two of them the age is the remainder of   *)
(* the counter, which starts again with it when it wraps.                  *)
(***************************************************************************)
LEMMA Division ==
    ASSUME NEW c \in Int, NEW d \in Int, d > 0
    PROVE  c = d * (c \div d) + (c % d)
BY Z3

LEMMA RemainderType ==
    ASSUME NEW c \in Nat, NEW d \in Nat \ {0}
    PROVE  c \div d \in Int /\ c % d \in 0 .. d - 1
OBVIOUS

LEMMA UniqueRemainder ==
    ASSUME NEW d \in Nat \ {0}, NEW q1 \in Int, NEW q2 \in Int,
           NEW r1 \in 0 .. d - 1, NEW r2 \in 0 .. d - 1,
           d * q1 + r1 = d * q2 + r2 + 1
    PROVE  r1 = 0 \/ r1 = r2 + 1
<1>1. q1 - q2 \in Int /\ d * (q1 - q2) = r2 + 1 - r1
    OBVIOUS
<1>2. CASE q1 - q2 <= -1
    <2>1. d * (q1 - q2) <= -d
        BY <1>1, <1>2
    <2> QED BY <1>1, <2>1
<1>3. CASE q1 - q2 >= 1
    <2>1. d * (q1 - q2) >= d
        BY <1>1, <1>3
    <2> QED BY <1>1, <2>1
<1>4. CASE q1 - q2 = 0
    BY <1>4
<1> QED BY <1>2, <1>3, <1>4

LEMMA NextRemainder ==
    ASSUME NEW c \in Nat, NEW d \in Nat \ {0}
    PROVE  (c + 1) % d = 0 \/ (c + 1) % d = (c % d) + 1
<1>1. c = d * (c \div d) + (c % d)
    BY Division
<1>2. c + 1 = d * ((c + 1) \div d) + ((c + 1) % d)
    BY Division
<1>3. /\ c \div d \in Int /\ c % d \in 0 .. d - 1
      /\ (c + 1) \div d \in Int /\ (c + 1) % d \in 0 .. d - 1
    BY RemainderType
<1> DEFINE q1 == (c + 1) \div d
           q2 == c \div d
           r1 == (c + 1) % d
           r2 == c % d
<1>4. c = d * q2 + r2 /\ c + 1 = d * q1 + r1
    BY <1>1, <1>2
<1>5. q1 \in Int /\ q2 \in Int /\ r1 \in 0 .. d - 1 /\ r2 \in 0 .. d - 1
    BY <1>3
<1> HIDE DEF q1, q2, r1, r2
<1>6. d * q1 + r1 = d * q2 + r2 + 1
    BY <1>4, <1>5
<1>7. r1 = 0 \/ r1 = r2 + 1
    BY <1>5, <1>6, UniqueRemainder
<1> QED BY <1>7 DEF r1, r2

AgeInv ==
    IF main \in {"boot", "cycle"}
    THEN cycle = 0 \/ (age = (cycle - 1) % BatteryPeriod)
    ELSE age = cycle % BatteryPeriod

AgeBound == age < BatteryPeriod

LEMMA AgeMain ==
    ASSUME Inv1, AgeInv, AgeBound, MainNext
    PROVE  AgeInv' /\ AgeBound'
<1> USE DEF MainAt
<1>0. /\ cycle \in Nat /\ cycle < CounterSize /\ CounterSize \in Nat
      /\ BatteryPeriod \in Nat \ {0}
    BY ConstantAssumption DEF Inv1, TypeOK
<1>1. CASE StartCycle
    <2>1. /\ age' = IF cycle % BatteryPeriod = 0 THEN 0 ELSE age + 1
          /\ cycle' = cycle /\ main = "cycle" /\ main' = "select"
        BY <1>1 DEF StartCycle, BatteryDue
    <2>2. CASE cycle % BatteryPeriod = 0
        BY <1>0, <2>1, <2>2 DEF AgeInv, AgeBound
    <2>3. CASE cycle % BatteryPeriod # 0
        <3>1. cycle # 0
            <4>1. 0 % BatteryPeriod = 0
                BY <1>0
            <4> QED BY <2>3, <4>1
        <3> DEFINE c == cycle - 1
        <3>2. c \in Nat /\ cycle = c + 1
            BY <1>0, <3>1
        <3>3. age = c % BatteryPeriod
            BY <2>1, <3>1 DEF AgeInv
        <3> HIDE DEF c
        <3>4. cycle % BatteryPeriod = (c % BatteryPeriod) + 1
            BY <1>0, <2>3, <3>2, NextRemainder
        <3>5. age' = cycle % BatteryPeriod
            BY <2>1, <2>3, <3>3, <3>4
        <3>6. cycle % BatteryPeriod \in 0 .. BatteryPeriod - 1
            BY <1>0, RemainderType
        <3>7. age' < BatteryPeriod
            BY <1>0, <3>5, <3>6
        <3> QED BY <2>1, <3>5, <3>7 DEF AgeInv, AgeBound
    <2> QED BY <2>2, <2>3
<1>2. CASE WakeUp
    <2>1. /\ main = "hibernate" /\ main' = "cycle" /\ age' = age
          /\ cycle' = (cycle + 1) % CounterSize
        BY <1>2 DEF WakeUp
    <2>2. cycle' = 0 \/ cycle' = cycle + 1
        <3>1. CASE cycle + 1 = CounterSize
            BY <1>0, <2>1, <3>1
        <3>2. CASE cycle + 1 < CounterSize
            BY <1>0, <2>1, <3>2
        <3> QED BY <1>0, <3>1, <3>2
    <2>3. cycle' = cycle + 1 => cycle' - 1 = cycle
        BY <1>0
    <2> QED BY <2>1, <2>2, <2>3 DEF AgeInv, AgeBound
<1>3. CASE Greet
    <2>1. main = "boot" /\ main' = "cycle" /\ UNCHANGED <<age, cycle>>
        BY <1>3 DEF Greet
    <2> QED BY <2>1 DEF AgeInv, AgeBound
<1>4. CASE \/ SelectMeter \/ ResetResults \/ OpenWindow \/ CloseWindow
           \/ Hibernate
    <2>1. /\ UNCHANGED <<age, cycle>> /\ main \notin {"boot", "cycle"}
          /\ main' \notin {"boot", "cycle"}
        BY <1>4 DEF SelectMeter, ResetResults, OpenWindow, CloseWindow, Hibernate
    <2> QED BY <2>1 DEF AgeInv, AgeBound
<1> QED BY <1>1, <1>2, <1>3, <1>4 DEF MainNext

LEMMA AgeAlways == Spec => [](AgeInv /\ AgeBound)
<1>1. Init => AgeInv /\ AgeBound
    BY ConstantAssumption DEF Init, AgeInv, AgeBound
<1>2. Inv1 /\ (AgeInv /\ AgeBound) /\ [Next]_vars => (AgeInv /\ AgeBound)'
    <2> SUFFICES ASSUME Inv1, AgeInv, AgeBound, [Next]_vars
                 PROVE  AgeInv' /\ AgeBound'
        OBVIOUS
    <2>1. CASE \/ RxText \/ RxNewline \/ ProcNext \/ Tick
               \/ UNCHANGED vars
        <3>1. UNCHANGED <<main, age, cycle>>
            BY <2>1 DEF RxText, RxNewline, ProcNext, MsgReceive, Process, Notify,
               Stop, Tick, vars, mainVars
        <3> QED BY <3>1 DEF AgeInv, AgeBound
    <2> QED BY <2>1, AgeMain DEF Next
<1> QED BY <1>1, <1>2, Inv1Always, PTL DEF Spec

\* The battery is reported at least every BatteryPeriod cycles, also where the
\* counter wraps (main.c:393, 429).
THEOREM BatteryRegularHolds == Spec => []BatteryRegular
<1>1. AgeInv /\ AgeBound => BatteryRegular
    BY DEF AgeBound, BatteryRegular
<1> QED BY <1>1, AgeAlways, PTL
=============================================================================
