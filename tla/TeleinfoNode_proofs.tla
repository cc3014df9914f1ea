------------------------ MODULE TeleinfoNode_proofs -------------------------
(***************************************************************************)
(* Proofs about TeleinfoNode, for any number of meters, any set of fields  *)
(* and any size of the buffers.                                            *)
(***************************************************************************)
EXTENDS TeleinfoNode, TLAPS, SequenceTheorems

(***************************************************************************)
(* The operators on text.                                                  *)
(***************************************************************************)
\* The head and the tail of a queue.
LEMMA HeadTailType ==
    ASSUME NEW S, NEW q \in Seq(S), q # <<>>,
           NEW n \in Nat, Len(q) <= n
    PROVE  /\ Head(q) \in S
           /\ Tail(q) \in Seq(S) /\ Len(Tail(q)) = Len(q) - 1
           /\ Len(Tail(q)) <= n
BY HeadTailProperties

\* What is stored fits, and every chunk of it is the new one, an old one or
\* what is left of one.
LEMMA StoredType ==
    ASSUME NEW r \in Seq(Chunks), Len(r) <= RingSize, NEW c \in Chunks,
           NEW s \in Stored(r, c)
    PROVE  /\ s \in Seq(Chunks) /\ Len(s) <= RingSize
           /\ \A i \in 1 .. Len(s) :
                 s[i] \in {Junk, c} \/ \E j \in 1 .. Len(r) : s[i] = r[j]
<1>1. CASE Len(r) < RingSize
    <2>1. s = Append(r, c)
        BY <1>1 DEF Stored
    <2>2. s \in Seq(Chunks) /\ Len(s) = Len(r) + 1
        BY <2>1
    <2>3. \A i \in 1 .. Len(s) : s[i] = IF i <= Len(r) THEN r[i] ELSE c
        BY <2>1
    <2> QED BY <1>1, <2>2, <2>3, SizeAssumption
<1>2. CASE Len(r) = RingSize
    <2> DEFINE shifted == Append(Tail(r), c)
    <2>1. r # <<>>
        BY <1>2, SizeAssumption
    <2>2. /\ Tail(r) \in Seq(Chunks) /\ Len(Tail(r)) = Len(r) - 1
          /\ \A i \in 1 .. Len(r) - 1 : Tail(r)[i] = r[i + 1]
        BY <2>1, HeadTailProperties
    <2>3. /\ shifted \in Seq(Chunks) /\ Len(shifted) = RingSize
          /\ \A i \in 1 .. RingSize :
                shifted[i] = IF i < RingSize THEN r[i + 1] ELSE c
        BY <1>2, <2>2, SizeAssumption
    <2>4. Junk \in Chunks
        BY DEF Chunks
    <2>5. s = shifted \/ s = [shifted EXCEPT ![1] = Junk]
        BY <1>2, SizeAssumption DEF Stored
    <2> HIDE DEF shifted
    <2>6. /\ [shifted EXCEPT ![1] = Junk] \in Seq(Chunks)
          /\ Len([shifted EXCEPT ![1] = Junk]) = RingSize
          /\ \A i \in 1 .. RingSize :
                [shifted EXCEPT ![1] = Junk][i] = IF i = 1 THEN Junk ELSE shifted[i]
        BY <2>3, <2>4, SizeAssumption, ExceptSeq, 1 \in 1 .. Len(shifted)
    <2>7. s \in Seq(Chunks) /\ Len(s) = RingSize
        BY <2>3, <2>5, <2>6
    <2>8. \A i \in 1 .. RingSize : s[i] = Junk \/ s[i] = shifted[i]
        BY <2>5, <2>6
    <2>9. ASSUME NEW i \in 1 .. RingSize
          PROVE  shifted[i] = c \/ \E j \in 1 .. Len(r) : shifted[i] = r[j]
        <3>1. CASE i < RingSize
            <4>1. i + 1 \in 1 .. Len(r)
                BY <1>2, <3>1, SizeAssumption
            <4> QED BY <2>3, <3>1, <4>1
        <3>2. CASE ~(i < RingSize)
            BY <2>3, <3>2
        <3> QED BY <3>1, <3>2
    <2> QED BY <2>7, <2>8, <2>9, SizeAssumption
<1> QED BY <1>1, <1>2, SizeAssumption

\* A line gives a value to at most one field.
LEMMA ParseType ==
    ASSUME NEW text \in Seq(Chunks), NEW res \in Results
    PROVE  /\ Parse(text, res) \in Results
           /\ text = <<>> => Parse(text, res) = res
           /\ \E f \in Fields : \A g \in Fields \ {f} :
                    Parse(text, res)[g] = res[g]
<1>1. PICK f0 \in Fields : TRUE
    BY FieldAssumption
<1>2. CASE Len(text) >= 2 /\ text[1].part = "head"
    <2> DEFINE f == text[1].field
               m == text[1].meter
               v == IF text[2] = LineTail(f, m) THEN m ELSE Corrupt
    <2>1. text[1] \in Chunks
        BY <1>2
    <2>2. f \in Fields /\ m \in Meters
        BY <1>2, <2>1 DEF Chunks, Junk
    <2>3. Parse(text, res) = [res EXCEPT ![f] = v]
        BY <1>2 DEF Parse
    <2>4. v \in Sources
        BY <2>2 DEF Sources
    <2>5. text # <<>>
        BY <1>2
    <2> HIDE DEF f, m, v
    <2> QED BY <2>2, <2>3, <2>4, <2>5 DEF Results
<1>3. CASE ~(Len(text) >= 2 /\ text[1].part = "head")
    BY <1>1, <1>3 DEF Parse
<1> QED BY <1>2, <1>3

\* The value is that of the first chunk's meter, or corrupt.
LEMMA ParseFrom ==
    ASSUME NEW text \in Seq(Chunks), NEW res \in Results, NEW f \in Fields
    PROVE  \/ Parse(text, res)[f] = res[f]
           \/ Parse(text, res)[f] = Corrupt
           \/ /\ 1 \in 1 .. Len(text) /\ text[1] # Junk
              /\ Parse(text, res)[f] = text[1].meter
<1>1. CASE Len(text) >= 2 /\ text[1].part = "head"
    <2> DEFINE g == text[1].field
               m == text[1].meter
               v == IF text[2] = LineTail(g, m) THEN m ELSE Corrupt
    <2>1. 1 \in 1 .. Len(text) /\ text[1] \in Chunks
        BY <1>1
    <2>2. g \in Fields /\ text[1] # Junk
        BY <1>1, <2>1 DEF Chunks, Junk
    <2>3. Parse(text, res) = [res EXCEPT ![g] = v]
        BY <1>1 DEF Parse
    <2>4. v \in {m, Corrupt}
        OBVIOUS
    <2> HIDE DEF g, v
    <2> QED BY <2>1, <2>2, <2>3, <2>4 DEF Results
<1>2. CASE ~(Len(text) >= 2 /\ text[1].part = "head")
    BY <1>2 DEF Parse
<1> QED BY <1>1, <1>2
-----------------------------------------------------------------------------
(***************************************************************************)
(* Types, and what main holds at each of its steps: the adapter and        *)
(* rx_teleinfo of the current window, its power-management block, and the  *)
(* buffers on their way to free.                                           *)
(***************************************************************************)
MainShape ==
    /\ powered \subseteq {meter}
    /\ powered # {} => mainPc \in {"wake", "listen", "unpower"}
    /\ rx \in {0, meter}
    /\ rx # 0 => mainPc \in {"power", "wake", "listen"}
    /\ pmBlocks = IF mainPc \in {"boot", "hibernate"} THEN 0 ELSE 1

HeapCount ==
    heap = Len(mainQ)
           + (IF mainPc = "forward" THEN 1 ELSE 0)
           + (IF telePc \in {"send", "blocked"} THEN 1 ELSE 0)

Inv1 == TypeOK /\ MainShape /\ HeapCount

LEMMA EmptyType == Empty \in Results /\ NoReport \in Reports
BY DEF Empty, Results, Sources, NoReport, Reports

\* net_config changes nothing but the settings, and makes some if it can.
LEMMA NetConfigured ==
    ASSUME NEW r \in RadioStates, NEW s \in NetConfig(r)
    PROVE  /\ s \in RadioStates
           /\ s.state = r.state /\ s.inReset = r.inReset
           /\ s.state # "none" => s.net # "lost"
<1>1. CASE r.state = "none"
    BY <1>1 DEF NetConfig
<1>2. CASE r.state # "none"
    <2>1. PICK outcome \in NetOutcomes : s = [r EXCEPT !.net = outcome]
        BY <1>2 DEF NetConfig
    <2> QED BY <2>1 DEF RadioStates, NetOutcomes
<1> QED BY <1>1, <1>2

\* The radio after net_config at boot.
LEMMA RadioAtBoot ==
    ASSUME Init
    PROVE  /\ radio \in RadioStates /\ radio.state # "off" /\ ~radio.inReset
           /\ radio.state # "none" => radio.net # "lost"
<1>1. PICK state \in {"idle", "none"} :
        radio \in NetConfig([state |-> state, inReset |-> FALSE, irq |-> TRUE,
                            acks |-> TRUE, net |-> "lost"])
    BY DEF Init
<1> DEFINE r == [state |-> state, inReset |-> FALSE, irq |-> TRUE,
                 acks |-> TRUE, net |-> "lost"]
<1>2. r \in RadioStates /\ r.state # "off" /\ ~r.inReset
    BY DEF RadioStates
<1> HIDE DEF r
<1>3. radio \in NetConfig(r)
    BY <1>1 DEF r
<1> QED BY <1>2, <1>3, NetConfigured

LEMMA Inv1Init == Init => Inv1
<1> SUFFICES ASSUME Init PROVE Inv1
    OBVIOUS
<1> USE EmptyType, MeterAssumption, SizeAssumption
<1>1. TypeOK
    <2>1. /\ rx \in Meters \cup {0} /\ meter \in Meters
          /\ teleQ \in 0 .. TeleQueueSize /\ heap \in Nat /\ pmBlocks \in Nat
        BY DEF Init, Meters
    <2>2. /\ ring \in Seq(Chunks) /\ Len(ring) <= RingSize
          /\ mainQ \in Seq(Reports) /\ Len(mainQ) <= MainQueueSize
        BY EmptySeq DEF Init
    <2>3. powered \subseteq Meters /\ line \in LinePositions
        BY DEF Init, LinePositions
    <2>4. radio \in RadioStates
        BY RadioAtBoot
    <2> QED BY <2>1, <2>2, <2>3, <2>4 DEF Init, TypeOK
<1>2. MainShape
    BY DEF Init, MainShape
<1>3. HeapCount
    BY DEF Init, HeapCount
<1> QED BY <1>1, <1>2, <1>3 DEF Inv1

\* What an interrupt may do to the ring buffer.
LEMMA ReceivedType ==
    ASSUME TypeOK, NEW c \in Chunks, RxCharacters(c)
    PROVE  /\ ring' \in Seq(Chunks) /\ Len(ring') <= RingSize
           /\ \A i \in 1 .. Len(ring') :
                 ring'[i] \in {Junk, c} \/ \E j \in 1 .. Len(ring) : ring'[i] = ring[j]
<1>1. Junk \in Chunks
    BY DEF Chunks
<1>2. ring \in Seq(Chunks) /\ Len(ring) <= RingSize
    BY DEF TypeOK
<1>3. \/ ring' = ring
      \/ \E d \in {c, Junk} : ring' \in Stored(ring, d)
    BY DEF RxCharacters, Received
<1> QED BY <1>1, <1>2, <1>3, StoredType

LEMMA Inv1Uart == ASSUME Inv1, UartNext PROVE Inv1'
<1> USE DEF Inv1
<1>1. ASSUME NEW m \in Meters, NEW f \in Fields, RxHead(m, f)
      PROVE  Inv1'
    <2>1. LineHead(f, m) \in Chunks /\ RxCharacters(LineHead(f, m))
        BY <1>1 DEF LineHead, Chunks, RxHead
    <2>2. ring' \in Seq(Chunks) /\ Len(ring') <= RingSize
        BY <2>1, ReceivedType
    <2> QED BY <1>1, <2>1, <2>2 DEF RxHead, RxCharacters, TypeOK, MainShape,
               HeapCount, teleVars, mainVars, LinePositions
<1>2. ASSUME NEW m \in Meters, NEW f \in Fields, RxTail(m, f)
      PROVE  Inv1'
    <2>1. LineTail(f, m) \in Chunks /\ RxCharacters(LineTail(f, m))
        BY <1>2 DEF LineTail, Chunks, RxTail
    <2>2. ring' \in Seq(Chunks) /\ Len(ring') <= RingSize
        BY <2>1, ReceivedType
    <2> QED BY <1>2, <2>1, <2>2 DEF RxTail, RxCharacters, TypeOK, MainShape,
               HeapCount, teleVars, mainVars, LinePositions
<1>3. ASSUME NEW m \in Meters, RxOther(m)
      PROVE  Inv1'
    <2>1. Junk \in Chunks /\ RxCharacters(Junk)
        BY <1>3 DEF Chunks, RxOther
    <2>2. ring' \in Seq(Chunks) /\ Len(ring') <= RingSize
        BY <2>1, ReceivedType
    <2> QED BY <1>3, <2>1, <2>2 DEF RxOther, RxCharacters, TypeOK, MainShape,
               HeapCount, teleVars, mainVars, LinePositions
<1>4. ASSUME NEW m \in Meters, RxNewline(m)
      PROVE  Inv1'
    <2>1. /\ teleQ' \in 0 .. TeleQueueSize
          /\ \/ telePc' = telePc
             \/ telePc = "receive" /\ telePc' = "drain"
        <3>1. teleQ \in 0 .. TeleQueueSize /\ NewlineMessage
            BY <1>4 DEF RxNewline, TypeOK
        <3>2. \/ UNCHANGED <<teleQ, telePc>>
              \/ telePc = "receive" /\ telePc' = "drain" /\ UNCHANGED teleQ
              \/ teleQ < TeleQueueSize /\ teleQ' = teleQ + 1 /\ UNCHANGED telePc
            BY <3>1 DEF NewlineMessage
        <3> QED BY <3>1, <3>2, SizeAssumption
    <2>2. TypeOK'
        BY <1>4, <2>1 DEF RxNewline, TypeOK, mainVars, LinePositions
    <2>3. MainShape' /\ HeapCount'
        BY <1>4, <2>1 DEF RxNewline, MainShape, HeapCount, mainVars
    <2> QED BY <2>2, <2>3
<1> QED BY <1>1, <1>2, <1>3, <1>4 DEF UartNext

LEMMA Inv1Tele == ASSUME Inv1, TeleNext PROVE Inv1'
<1> USE DEF Inv1, TypeOK, MainShape, HeapCount, uartVars, mainVars
<1>1. CASE MsgReceive
    <2>1. teleQ' \in 0 .. TeleQueueSize
        BY <1>1, SizeAssumption DEF MsgReceive
    <2> QED BY <1>1, <2>1 DEF MsgReceive
<1>2. CASE LineParsed
    BY <1>2, ParseType, SizeAssumption DEF LineParsed
<1>3. CASE ReportReady
    <2>1. tbuf' \in Reports
        BY <1>3, ParseType DEF ReportReady, Reports
    <2> QED BY <1>3, <2>1, EmptyType, SizeAssumption DEF ReportReady
<1>4. CASE SendReport
    <2>1. CASE Len(mainQ) < MainQueueSize
        <3>1. /\ mainQ' \in Seq(Reports)
              /\ Len(mainQ') = Len(mainQ) + 1 /\ Len(mainQ') <= MainQueueSize
            BY <1>4, <2>1, SizeAssumption DEF SendReport
        <3>2. TypeOK'
            BY <1>4, <2>1, <3>1, EmptyType DEF SendReport
        <3> QED BY <1>4, <2>1, <3>1, <3>2 DEF SendReport
    <2>2. CASE ~(Len(mainQ) < MainQueueSize)
        BY <1>4, <2>2 DEF SendReport
    <2> QED BY <2>1, <2>2
<1>5. CASE StopAndSleep
    BY <1>5 DEF StopAndSleep
<1> QED BY <1>1, <1>2, <1>3, <1>4, <1>5 DEF TeleNext

LEMMA Inv1Main == ASSUME Inv1, MainNext PROVE Inv1'
<1> USE DEF Inv1, TypeOK, MainShape, HeapCount, uartVars, teleVars, MainAt,
            TeleReady
<1>1. CASE StartCycle
    <2>1. 1 \in Meters
        BY MeterAssumption DEF Meters
    <2>2. mainPc \in {"boot", "hibernate"} /\ mainPc' = "enable"
        BY <1>1 DEF StartCycle
    <2>3. rx = 0 /\ powered = {} /\ pmBlocks' = 1
        BY <1>1, <2>2 DEF StartCycle
    <2>4. UNCHANGED <<rx, powered, line, ring, teleQ, telePc, results, tbuf,
                      mainQ, held, radio, clean, heap>> /\ meter' = 1
        BY <1>1 DEF StartCycle
    <2>5. TypeOK'
        BY <2>1, <2>2, <2>3, <2>4
    <2> QED BY <2>2, <2>3, <2>4, <2>5
<1>2. CASE EnableRx
    BY <1>2 DEF EnableRx
<1>3. CASE PowerAdapter
    BY <1>3 DEF PowerAdapter
<1>4. CASE WakeTeleinfo
    BY <1>4 DEF WakeTeleinfo
<1>5. CASE DisableRx
    BY <1>5 DEF DisableRx
<1>6. CASE UnpowerAdapters
    <2>1. meter' \in Meters /\ line' \in LinePositions
        BY <1>6, MeterAssumption DEF UnpowerAdapters, Meters, LinePositions
    <2>2. TypeOK'
        BY <1>6, <2>1 DEF UnpowerAdapters
    <2>3. MainShape' /\ HeapCount'
        BY <1>6 DEF UnpowerAdapters
    <2> QED BY <2>2, <2>3
<1>7. CASE RadioOn
    BY <1>7 DEF RadioOn, RadioStates
<1>8. CASE RadioInit
    <2> DEFINE r == IF radio.state = "none" THEN radio
                    ELSE [radio EXCEPT !.state = "idle", !.acks = FALSE]
    <2>1. r \in RadioStates
        BY DEF RadioStates
    <2>2. radio' \in NetConfig(r) /\ mainPc' = "metrics"
        BY <1>8 DEF RadioInit
    <2> HIDE DEF r
    <2>3. radio' \in RadioStates
        BY <2>1, <2>2, NetConfigured
    <2> QED BY <1>8, <2>2, <2>3 DEF RadioInit
<1>9. CASE SendMetrics
    BY <1>9 DEF SendMetrics
<1>10. CASE TakeReport
    <2>1. /\ Head(mainQ) \in Reports
          /\ Tail(mainQ) \in Seq(Reports) /\ Len(Tail(mainQ)) = Len(mainQ) - 1
          /\ Len(Tail(mainQ)) <= MainQueueSize
        BY <1>10, HeadTailType, SizeAssumption DEF TakeReport
    <2>2. CASE telePc = "blocked"
        <3>1. mainQ' \in Seq(Reports) /\ Len(mainQ') = Len(mainQ)
            BY <1>10, <2>1, <2>2 DEF TakeReport
        <3>2. TypeOK'
            BY <1>10, <2>1, <2>2, <3>1, EmptyType DEF TakeReport
        <3> QED BY <1>10, <2>2, <3>1, <3>2 DEF TakeReport
    <2>3. CASE telePc # "blocked"
        <3>1. /\ mainQ' \in Seq(Reports) /\ Len(mainQ') = Len(mainQ) - 1
              /\ Len(mainQ') <= MainQueueSize
            BY <1>10, <2>1, <2>3 DEF TakeReport
        <3>2. TypeOK'
            BY <1>10, <2>1, <2>3, <3>1 DEF TakeReport
        <3> QED BY <1>10, <2>3, <3>1, <3>2 DEF TakeReport
    <2> QED BY <2>2, <2>3
<1>11. CASE ForwardReport
    BY <1>11, EmptyType DEF ForwardReport
<1>12. CASE Hibernate
    BY <1>12 DEF Hibernate, RadioOff, RadioStates
<1> QED BY <1>1, <1>2, <1>3, <1>4, <1>5, <1>6, <1>7, <1>8, <1>9, <1>10,
           <1>11, <1>12 DEF MainNext

LEMMA Inv1Next == Inv1 /\ [Next]_vars => Inv1'
<1> SUFFICES ASSUME Inv1, [Next]_vars PROVE Inv1'
    OBVIOUS
<1>1. CASE ModemBoots
    BY <1>1 DEF ModemBoots, Inv1, TypeOK, MainShape, HeapCount, uartVars,
       teleVars, RadioStates
<1>2. CASE UNCHANGED vars
    BY <1>2 DEF vars, uartVars, teleVars, mainVars, Inv1, TypeOK, MainShape,
       HeapCount
<1> QED BY <1>1, <1>2, Inv1Uart, Inv1Tele, Inv1Main DEF Next

\* Every variable has its type: among others, the ring buffer and the queues
\* stay within their sizes and no buffer is freed twice.
THEOREM TypeCorrect == Spec => []TypeOK
<1>1. Spec => []Inv1
    BY Inv1Init, Inv1Next, PTL DEF Spec
<1>2. Inv1 => TypeOK
    BY DEF Inv1
<1> QED BY <1>1, <1>2, PTL

\* The adapters take turns on the UART, and rx_teleinfo follows them.
THEOREM SharedUartHolds == Spec => []SharedUart
<1>1. Spec => []Inv1
    BY Inv1Init, Inv1Next, PTL DEF Spec
<1>2. Inv1 => SharedUart
    BY DEF Inv1, MainShape, SharedUart
<1> QED BY <1>1, <1>2, PTL
-----------------------------------------------------------------------------
(***************************************************************************)
(* What main resetting rx_teleinfo leaves to the thread.  Main only runs   *)
(* when the thread is not ready, so it never resets the label under a line *)
(* that is being parsed.  A thread woken up after it has already sent the  *)
(* report of the window (its meter was heard before thread_wakeup) runs    *)
(* with no label: but its results start from nothing and the interrupt no  *)
(* longer stores characters, so it has one field at most, never a report.  *)
(***************************************************************************)
OneSet(res) == \E f \in Fields : \A g \in Fields \ {f} : res[g] = Missing

ThreadShape ==
    /\ telePc \in {"send", "blocked", "stop", "sleeping"} => results = Empty
    /\ rx = 0 =>
        \/ telePc \in {"absent", "sleeping", "stop", "blocked"}
        \/ telePc = "receive" /\ teleQ = 0
        \/ telePc \in {"receive", "drain"} /\ results = Empty
        \/ telePc \in {"receive", "drain"} /\ ring = <<>> /\ OneSet(results)
    /\ mainPc = "listen" /\ rx # 0 => telePc # "sleeping"

LabelShape ==
    /\ \A i \in 1 .. Len(mainQ) : mainQ[i].label \in Meters
    /\ mainPc = "forward" => held.label \in Meters
    /\ telePc \in {"send", "blocked"} => tbuf.label \in Meters

QuietShape ==
    /\ telePc = "blocked" => mainQ # <<>>
    /\ mainPc = "hibernate" => ~TeleReady /\ telePc # "blocked" /\ mainQ = <<>>

RadioShape ==
    /\ radio.state = "idle" => ~radio.inReset /\ radio.net # "lost"
    /\ mainPc = "waitModem" => ~radio.inReset
    /\ Transmitting /\ radio.state # "none" => radio.state = "idle"
    /\ mainPc = "hibernate" => radio.inReset /\ radio.state # "idle"

(***************************************************************************)
(* At most one report per window so far: those allocated, and the one that *)
(* the open window may still give.                                         *)
(***************************************************************************)
MayReport == rx # 0 /\ telePc \notin {"send", "blocked", "stop"}

Credit ==
    heap + (IF MayReport THEN 1 ELSE 0)
    <= IF mainPc \in {"boot", "hibernate"} THEN 0
       ELSE IF mainPc = "enable" THEN meter - 1
       ELSE IF mainPc \in {"power", "wake", "listen", "unpower"} THEN meter
       ELSE NumMeters

Inv2 == ThreadShape /\ LabelShape /\ QuietShape /\ RadioShape /\ Credit

LEMMA Inv2Init == Init => Inv2
<1> SUFFICES ASSUME Init PROVE Inv2
    OBVIOUS
<1>1. ThreadShape
    BY DEF Init, ThreadShape
<1>2. LabelShape
    BY EmptySeq DEF Init, LabelShape
<1>3. QuietShape
    BY DEF Init, QuietShape
<1>4. RadioShape
    <2>1. /\ radio.state # "off" /\ ~radio.inReset
          /\ radio.state = "idle" => radio.net # "lost"
        BY RadioAtBoot
    <2> QED BY <2>1 DEF Init, RadioShape, Transmitting
<1>5. Credit
    BY DEF Init, Credit, MayReport
<1> QED BY <1>1, <1>2, <1>3, <1>4, <1>5 DEF Inv2

\* One line cannot complete a report that has no field yet: there are two
\* fields at least.
LEMMA OneLineIsNotEnough ==
    ASSUME NEW text \in Seq(Chunks), NEW res \in Results,
           res = Empty \/ (text = <<>> /\ OneSet(res))
    PROVE  OneSet(Parse(text, res)) /\ ~Complete(Parse(text, res))
<1>1. OneSet(Parse(text, res))
    <2>1. CASE res = Empty
        BY <2>1, ParseType DEF OneSet, Empty
    <2>2. CASE text = <<>> /\ OneSet(res)
        BY <2>2, ParseType
    <2> QED BY <2>1, <2>2
<1>2. PICK f \in Fields : \A g \in Fields \ {f} : Parse(text, res)[g] = Missing
    BY <1>1 DEF OneSet
<1>3. PICK g \in Fields : g # f
    BY FieldAssumption
<1> QED BY <1>1, <1>2, <1>3 DEF Complete

LEMMA ThreadShapeUart ==
    ASSUME ThreadShape, UartNext
    PROVE  ThreadShape'
<1> USE DEF ThreadShape, teleVars, mainVars, OneSet
<1>1. ASSUME NEW c, RxCharacters(c)
      PROVE  ThreadShape'
    <2>1. UNCHANGED <<rx, teleQ, telePc, results, mainPc>>
        BY <1>1 DEF RxCharacters
    <2>2. rx = 0 => UNCHANGED ring
        BY <1>1 DEF RxCharacters
    <2> QED BY <2>1, <2>2
<1>2. ASSUME NEW m \in Meters, RxNewline(m)
      PROVE  ThreadShape'
    <2>1. UNCHANGED <<rx, ring, results, mainPc>>
        BY <1>2 DEF RxNewline
    <2>2. rx = 0 => UNCHANGED <<teleQ, telePc>>
        BY <1>2 DEF RxNewline, NewlineMessage
    <2>3. UNCHANGED telePc \/ (telePc = "receive" /\ telePc' = "drain")
        BY <1>2 DEF RxNewline, NewlineMessage
    <2> QED BY <2>1, <2>2, <2>3
<1> QED BY <1>1, <1>2 DEF UartNext, RxHead, RxTail, RxOther

\* Hence a report is only formatted while rx_teleinfo names a meter.
LEMMA LabelIsSet ==
    ASSUME Inv1, ThreadShape, ReportReady
    PROVE  rx # 0
<1> SUFFICES ASSUME rx = 0 PROVE FALSE
    OBVIOUS
<1>1. ring \in Seq(Chunks) /\ results \in Results
    BY DEF Inv1, TypeOK
<1>2. results = Empty \/ (ring = <<>> /\ OneSet(results))
    BY DEF ReportReady, ThreadShape
<1> QED BY <1>1, <1>2, OneLineIsNotEnough DEF ReportReady

LEMMA ThreadShapeTele ==
    ASSUME Inv1, ThreadShape, TeleNext
    PROVE  ThreadShape'
<1>0. /\ ring \in Seq(Chunks) /\ results \in Results
      /\ teleQ \in 0 .. TeleQueueSize
    BY DEF Inv1, TypeOK
<1> USE DEF ThreadShape, uartVars, mainVars
<1>1. CASE MsgReceive
    BY <1>1, <1>0, SizeAssumption DEF MsgReceive
<1>2. CASE LineParsed
    <2>1. CASE rx = 0
        <3>1. results = Empty \/ (ring = <<>> /\ OneSet(results))
            BY <1>2, <2>1 DEF LineParsed
        <3>2. OneSet(Parse(ring, results))
            BY <3>1, <1>0, OneLineIsNotEnough
        <3> QED BY <1>2, <2>1, <3>2 DEF LineParsed
    <2>2. CASE rx # 0
        BY <1>2, <2>2 DEF LineParsed
    <2> QED BY <2>1, <2>2
<1>3. CASE ReportReady
    <2>1. rx # 0
        BY <1>3, LabelIsSet
    <2> QED BY <1>3, <2>1 DEF ReportReady
<1>4. CASE SendReport
    BY <1>4 DEF SendReport
<1>5. CASE StopAndSleep
    BY <1>5 DEF StopAndSleep
<1> QED BY <1>1, <1>2, <1>3, <1>4, <1>5 DEF TeleNext

LEMMA ThreadShapeMain ==
    ASSUME Inv1, ThreadShape, MainNext
    PROVE  ThreadShape'
<1>0. /\ rx \in {0, meter} /\ meter \in Meters
      /\ rx # 0 => mainPc \in {"power", "wake", "listen"}
      /\ teleQ \in 0 .. TeleQueueSize
      /\ telePc \in {"absent", "receive", "drain", "send", "blocked", "stop",
                     "sleeping"}
    BY DEF Inv1, TypeOK, MainShape
<1> USE DEF ThreadShape, uartVars, teleVars, MainAt, TeleReady
<1>1. CASE StartCycle
    BY <1>1, <1>0 DEF StartCycle
<1>2. CASE EnableRx
    BY <1>2, <1>0, MeterAssumption DEF EnableRx, Meters
<1>3. CASE PowerAdapter
    BY <1>3 DEF PowerAdapter
<1>4. CASE WakeTeleinfo
    BY <1>4 DEF WakeTeleinfo
<1>5. CASE DisableRx
    BY <1>5, <1>0 DEF DisableRx
<1>6. CASE UnpowerAdapters
    BY <1>6 DEF UnpowerAdapters
<1>7. CASE TakeReport
    BY <1>7, <1>0 DEF TakeReport
<1>8. CASE RadioOn \/ RadioInit \/ SendMetrics \/ ForwardReport \/ Hibernate
    <2>1. UNCHANGED <<rx, ring, teleQ, telePc, results>> /\ mainPc' # "listen"
        BY <1>8 DEF RadioOn, RadioInit, SendMetrics, ForwardReport, Hibernate
    <2> QED BY <2>1 DEF OneSet
<1> QED BY <1>1, <1>2, <1>3, <1>4, <1>5, <1>6, <1>7, <1>8 DEF MainNext

LEMMA ThreadShapeNext ==
    ASSUME Inv1, ThreadShape, [Next]_vars
    PROVE  ThreadShape'
<1>1. CASE ModemBoots \/ UNCHANGED vars
    <2>1. UNCHANGED <<rx, ring, teleQ, telePc, results, mainPc>>
        BY <1>1 DEF ModemBoots, vars, uartVars, teleVars, mainVars
    <2> QED BY <2>1 DEF ThreadShape, OneSet
<1> QED BY <1>1, ThreadShapeUart, ThreadShapeTele, ThreadShapeMain DEF Next

LEMMA LabelShapeNext ==
    ASSUME Inv1, ThreadShape, LabelShape, [Next]_vars
    PROVE  LabelShape'
<1>0. /\ rx \in Meters \cup {0}
      /\ mainQ \in Seq(Reports)
    BY DEF Inv1, TypeOK
<1> USE DEF LabelShape, uartVars, teleVars, mainVars
<1>1. CASE ReportReady
    BY <1>1, <1>0, LabelIsSet DEF ReportReady
<1>2. CASE SendReport
    <2>1. tbuf.label \in Meters
        BY <1>2 DEF SendReport
    <2>2. CASE Len(mainQ) < MainQueueSize
        <3>1. tbuf \in Reports
            BY DEF Inv1, TypeOK
        <3>2. \A i \in 1 .. Len(mainQ') : mainQ'[i].label \in Meters
            BY <1>0, <1>2, <2>1, <2>2, <3>1 DEF SendReport
        <3> QED BY <1>2, <2>2, <3>2 DEF SendReport
    <2>3. CASE ~(Len(mainQ) < MainQueueSize)
        BY <1>2, <2>1, <2>3 DEF SendReport
    <2> QED BY <2>2, <2>3
<1>3. CASE TakeReport
    <2>1. mainQ # <<>> /\ held' = Head(mainQ) /\ mainPc' = "forward"
        BY <1>3 DEF TakeReport
    <2>2. held'.label \in Meters
        BY <1>0, <2>1
    <2>3. /\ Tail(mainQ) \in Seq(Reports)
          /\ \A i \in 1 .. Len(Tail(mainQ)) : Tail(mainQ)[i].label \in Meters
        BY <1>0, <2>1, HeadTailProperties
    <2>4. CASE telePc = "blocked"
        <3>1. tbuf \in Reports /\ tbuf.label \in Meters
            BY <2>4 DEF Inv1, TypeOK
        <3>2. mainQ' = Append(Tail(mainQ), tbuf) /\ telePc' = "stop"
            BY <1>3, <2>4 DEF TakeReport
        <3>3. \A i \in 1 .. Len(mainQ') : mainQ'[i].label \in Meters
            BY <2>3, <3>1, <3>2
        <3> QED BY <2>2, <3>2, <3>3
    <2>5. CASE telePc # "blocked"
        BY <1>3, <2>1, <2>2, <2>3, <2>5 DEF TakeReport
    <2> QED BY <2>4, <2>5
<1>4. CASE UartNext
    <2>1. UNCHANGED <<mainQ, mainPc, held, tbuf>>
        BY <1>4 DEF UartNext, RxHead, RxTail, RxOther, RxNewline, RxCharacters
    <2>2. telePc' = telePc \/ telePc' = "drain"
        BY <1>4 DEF UartNext, RxHead, RxTail, RxOther, RxNewline, RxCharacters,
           NewlineMessage
    <2> QED BY <2>1, <2>2
<1>5. CASE MsgReceive \/ LineParsed \/ StopAndSleep
    <2>1. UNCHANGED <<mainQ, mainPc, held>>
          /\ telePc' \in {"drain", "receive", "sleeping"}
        BY <1>5 DEF MsgReceive, LineParsed, StopAndSleep
    <2> QED BY <2>1
<1>6. CASE \/ StartCycle \/ EnableRx \/ PowerAdapter \/ DisableRx
           \/ UnpowerAdapters \/ RadioOn \/ RadioInit \/ SendMetrics
           \/ ForwardReport \/ Hibernate
    <2>1. UNCHANGED <<mainQ, telePc, tbuf>> /\ mainPc' # "forward"
        BY <1>6 DEF StartCycle, EnableRx, PowerAdapter, DisableRx,
           UnpowerAdapters, RadioOn, RadioInit, SendMetrics, ForwardReport,
           Hibernate
    <2> QED BY <2>1
<1>7. CASE WakeTeleinfo
    BY <1>7 DEF WakeTeleinfo
<1>8. CASE ModemBoots \/ UNCHANGED vars
    <2>1. UNCHANGED <<mainQ, mainPc, held, telePc, tbuf>>
        BY <1>8 DEF ModemBoots, vars
    <2> QED BY <2>1
<1> QED BY <1>1, <1>2, <1>3, <1>4, <1>5, <1>6, <1>7, <1>8
        DEF Next, TeleNext, MainNext

LEMMA QuietShapeNext ==
    ASSUME Inv1, QuietShape, [Next]_vars
    PROVE  QuietShape'
<1>0. /\ powered # {} => mainPc # "hibernate"
      /\ mainQ \in Seq(Reports) /\ tbuf \in Reports
    BY DEF Inv1, TypeOK, MainShape
<1> USE DEF QuietShape, uartVars, teleVars, mainVars
<1>1. CASE UartNext
    <2>1. UNCHANGED <<mainQ, mainPc>> /\ mainPc # "hibernate"
        BY <1>0, <1>1 DEF UartNext, RxHead, RxTail, RxOther, RxNewline,
           RxCharacters
    <2>2. telePc' = telePc \/ telePc' = "drain"
        BY <1>1 DEF UartNext, RxHead, RxTail, RxOther, RxNewline, RxCharacters,
           NewlineMessage
    <2> QED BY <2>1, <2>2
<1>2. CASE TeleNext
    <2>1. TeleReady
        BY <1>2 DEF TeleNext, MsgReceive, LineParsed, ReportReady, SendReport,
           StopAndSleep, TeleReady
    <2>2. mainPc' # "hibernate"
        BY <1>2, <2>1 DEF TeleNext, MsgReceive, LineParsed, ReportReady,
           SendReport, StopAndSleep
    <2>3. CASE SendReport
        <3>1. telePc' = "blocked" => mainQ' # <<>>
            BY <2>3, <1>0, SizeAssumption DEF SendReport
        <3> QED BY <2>2, <3>1
    <2>4. CASE ~SendReport
        BY <1>2, <2>2, <2>4 DEF TeleNext, MsgReceive, LineParsed, ReportReady,
           StopAndSleep
    <2> QED BY <2>3, <2>4
<1>3. CASE TakeReport
    BY <1>3 DEF TakeReport
<1>4. CASE Hibernate
    BY <1>4 DEF Hibernate, MainAt, TeleReady
<1>5. CASE \/ StartCycle \/ EnableRx \/ PowerAdapter \/ DisableRx
           \/ UnpowerAdapters \/ RadioOn \/ RadioInit \/ SendMetrics
           \/ ForwardReport
    <2>1. UNCHANGED <<mainQ, telePc>> /\ mainPc' # "hibernate"
        BY <1>5 DEF StartCycle, EnableRx, PowerAdapter, DisableRx,
           UnpowerAdapters, RadioOn, RadioInit, SendMetrics, ForwardReport
    <2> QED BY <2>1
<1>6. CASE WakeTeleinfo
    BY <1>6 DEF WakeTeleinfo
<1>7. CASE ModemBoots \/ UNCHANGED vars
    <2>1. UNCHANGED <<mainQ, mainPc, telePc, teleQ>>
        BY <1>7 DEF ModemBoots, vars
    <2> QED BY <2>1 DEF TeleReady
<1> QED BY <1>1, <1>2, <1>3, <1>4, <1>5, <1>6, <1>7 DEF Next, MainNext

LEMMA RadioShapeNext ==
    ASSUME Inv1, RadioShape, [Next]_vars
    PROVE  RadioShape'
<1>0. radio \in RadioStates
    BY DEF Inv1, TypeOK
<1> USE DEF RadioShape, Transmitting, RadioStates, uartVars, teleVars, mainVars
<1>1. CASE RadioOn
    <2>1. CASE ReadsNotOff /\ mainPc' = "metrics" /\ UNCHANGED radio
        BY <2>1, <1>0 DEF ReadsNotOff
    <2>2. CASE /\ ReadsOff /\ mainPc' = "waitModem"
               /\ radio' = [radio EXCEPT !.inReset = FALSE]
        BY <2>2, <1>0 DEF ReadsOff
    <2> QED BY <1>1, <2>1, <2>2 DEF RadioOn
<1>2. CASE RadioInit
    <2> DEFINE r == IF radio.state = "none" THEN radio
                    ELSE [radio EXCEPT !.state = "idle", !.acks = FALSE]
    <2>1. /\ r \in RadioStates /\ r.state \in {"idle", "none"}
          /\ r.inReset = radio.inReset
        BY <1>0
    <2>2. radio' \in NetConfig(r) /\ mainPc' = "metrics" /\ mainPc = "waitModem"
        BY <1>2 DEF RadioInit, MainAt
    <2> HIDE DEF r
    <2> QED BY <2>1, <2>2, NetConfigured
<1>3. CASE Hibernate
    BY <1>3 DEF Hibernate, RadioOff
<1>4. CASE ModemBoots
    BY <1>4, <1>0 DEF ModemBoots
<1>5. CASE SendMetrics \/ TakeReport \/ ForwardReport
    <2>1. UNCHANGED radio /\ mainPc' \in {"poll", "forward"} /\ Transmitting
        BY <1>5 DEF SendMetrics, TakeReport, ForwardReport, MainAt
    <2> QED BY <2>1
<1>6. CASE \/ StartCycle \/ EnableRx \/ PowerAdapter \/ WakeTeleinfo
           \/ DisableRx \/ UnpowerAdapters
    <2>1. UNCHANGED radio
          /\ mainPc' \in {"enable", "power", "wake", "listen", "unpower",
                          "radioOn"}
        BY <1>6 DEF StartCycle, EnableRx, PowerAdapter, WakeTeleinfo, DisableRx,
           UnpowerAdapters
    <2> QED BY <2>1
<1>7. CASE UartNext \/ TeleNext \/ UNCHANGED vars
    <2>1. UNCHANGED <<radio, mainPc>>
        BY <1>7 DEF UartNext, RxHead, RxTail, RxOther, RxNewline, RxCharacters,
           TeleNext, MsgReceive, LineParsed, ReportReady, SendReport,
           StopAndSleep, vars
    <2> QED BY <2>1
<1> QED BY <1>1, <1>2, <1>3, <1>4, <1>5, <1>6, <1>7 DEF Next, MainNext

LEMMA CreditNext ==
    ASSUME Inv1, ThreadShape, QuietShape, Credit, [Next]_vars
    PROVE  Credit'
<1>0. /\ heap \in Nat /\ rx \in {0, meter} /\ meter \in Nat \ {0}
      /\ meter <= NumMeters /\ NumMeters \in Nat
      /\ rx # 0 => mainPc \in {"power", "wake", "listen"}
    BY MeterAssumption DEF Inv1, TypeOK, MainShape, Meters
<1> USE DEF Credit, MayReport, MainAt, TeleReady, uartVars, teleVars, mainVars
<1>1. CASE UartNext
    <2>1. UNCHANGED <<heap, rx, mainPc, meter>>
        BY <1>1 DEF UartNext, RxHead, RxTail, RxOther, RxNewline, RxCharacters
    <2>2. telePc' = telePc \/ (telePc = "receive" /\ telePc' = "drain")
        BY <1>1 DEF UartNext, RxHead, RxTail, RxOther, RxNewline, RxCharacters,
           NewlineMessage
    <2> QED BY <2>1, <2>2
<1>2. CASE MsgReceive \/ LineParsed
    <2>1. UNCHANGED <<heap, rx, mainPc, meter>>
          /\ {telePc, telePc'} \subseteq {"receive", "drain"}
        BY <1>2 DEF MsgReceive, LineParsed
    <2> QED BY <2>1
<1>3. CASE ReportReady
    <2>1. /\ rx # 0 /\ telePc = "drain" /\ telePc' = "send"
          /\ heap' = heap + 1 /\ UNCHANGED <<rx, mainPc, meter>>
        BY <1>3, LabelIsSet DEF ReportReady
    <2> QED BY <2>1, <1>0
<1>4. CASE SendReport
    <2>1. /\ telePc = "send" /\ telePc' \in {"stop", "blocked"}
          /\ UNCHANGED <<heap, rx, mainPc, meter>>
        BY <1>4 DEF SendReport
    <2> QED BY <2>1
<1>5. CASE StopAndSleep
    <2>1. telePc = "stop" /\ rx' = 0 /\ UNCHANGED <<heap, mainPc, meter>>
        BY <1>5 DEF StopAndSleep
    <2> QED BY <2>1, <1>0
<1>6. CASE StartCycle
    <2>1. /\ mainPc \in {"boot", "hibernate"} /\ mainPc' = "enable"
          /\ meter' = 1 /\ UNCHANGED <<heap, rx, telePc>>
        BY <1>6 DEF StartCycle
    <2> QED BY <2>1, <1>0
<1>7. CASE EnableRx
    <2>1. /\ mainPc = "enable" /\ mainPc' = "power" /\ rx = 0 /\ rx' = meter
          /\ UNCHANGED <<heap, meter, telePc>>
        BY <1>7, <1>0 DEF EnableRx
    <2> QED BY <2>1, <1>0
<1>8. CASE PowerAdapter \/ WakeTeleinfo \/ DisableRx
    <2>1. /\ {mainPc, mainPc'} \subseteq {"power", "wake", "listen", "unpower"}
          /\ rx' \in {0, rx} /\ UNCHANGED <<heap, meter>>
          /\ telePc' = telePc \/ telePc = "sleeping"
        BY <1>8 DEF PowerAdapter, WakeTeleinfo, DisableRx
    <2> QED BY <2>1, <1>0
<1>9. CASE UnpowerAdapters
    <2>1. mainPc = "unpower" /\ UNCHANGED <<heap, rx, telePc>> /\ rx = 0
        BY <1>9, <1>0 DEF UnpowerAdapters
    <2>2. CASE meter < NumMeters
        BY <1>9, <2>1, <2>2, <1>0 DEF UnpowerAdapters
    <2>3. CASE ~(meter < NumMeters)
        BY <1>9, <2>1, <2>3, <1>0 DEF UnpowerAdapters
    <2> QED BY <2>2, <2>3
<1>10. CASE \/ RadioOn \/ RadioInit \/ SendMetrics \/ TakeReport
            \/ ForwardReport
    <2>1. /\ mainPc \in {"radioOn", "waitModem", "metrics", "poll", "forward"}
          /\ mainPc' \in {"waitModem", "metrics", "poll", "forward"}
          /\ UNCHANGED rx /\ (heap' = heap \/ heap' = heap - 1)
        BY <1>10 DEF RadioOn, RadioInit, SendMetrics, TakeReport, ForwardReport
    <2> QED BY <2>1, <1>0
<1>11. CASE Hibernate
    <2>1. /\ mainPc = "poll" /\ mainQ = <<>> /\ mainPc' = "hibernate"
          /\ telePc \notin {"send", "blocked"} /\ UNCHANGED <<rx, heap>>
        BY <1>11 DEF Hibernate, QuietShape
    <2>2. heap = 0
        BY <2>1, EmptySeq DEF Inv1, HeapCount
    <2> QED BY <2>1, <2>2, <1>0
<1>12. CASE ModemBoots \/ UNCHANGED vars
    <2>1. UNCHANGED <<heap, rx, telePc, mainPc, meter>>
        BY <1>12 DEF ModemBoots, vars
    <2> QED BY <2>1
<1> QED BY <1>1, <1>2, <1>3, <1>4, <1>5, <1>6, <1>7, <1>8, <1>9, <1>10,
           <1>11, <1>12 DEF Next, TeleNext, MainNext

\* The inductive invariant.
THEOREM Invariant == Spec => [](Inv1 /\ Inv2)
<1>1. Init => Inv1 /\ Inv2
    BY Inv1Init, Inv2Init
<1>2. Inv1 /\ Inv2 /\ [Next]_vars => (Inv1 /\ Inv2)'
    BY Inv1Next, ThreadShapeNext, LabelShapeNext, QuietShapeNext,
       RadioShapeNext, CreditNext DEF Inv2
<1> QED BY <1>1, <1>2, PTL DEF Spec
-----------------------------------------------------------------------------
\* No wake-up of the thread is lost, and the UART has its clock.
THEOREM ListensAwakeHolds == Spec => []ListensAwake
<1>1. Inv1 /\ Inv2 => ListensAwake
    BY DEF Inv1, Inv2, TypeOK, MainShape, ThreadShape, ListensAwake
<1> QED BY <1>1, Invariant, PTL

LEMMA LabelsOfReports ==
    ASSUME Inv1, LabelShape
    PROVE  ReportLabelled
<1> DEFINE first == IF mainPc = "forward" THEN <<held>> ELSE <<>>
           last  == IF telePc \in {"send", "blocked"} THEN <<tbuf>> ELSE <<>>
           Labelled(q) == \A i \in 1 .. Len(q) : q[i].label \in Meters
<1>1. first \in Seq(Reports) /\ mainQ \in Seq(Reports) /\ last \in Seq(Reports)
    BY DEF Inv1, TypeOK
<1>2. Labelled(first) /\ Labelled(mainQ) /\ Labelled(last)
    BY DEF LabelShape
<1>3. ASSUME NEW s \in Seq(Reports), NEW t \in Seq(Reports),
             Labelled(s), Labelled(t)
      PROVE  s \o t \in Seq(Reports) /\ Labelled(s \o t)
    <2> SUFFICES ASSUME NEW i \in 1 .. Len(s \o t)
                 PROVE  (s \o t)[i].label \in Meters
        BY <1>3, ConcatProperties
    <2>1. CASE i <= Len(s)
        BY <1>3, <2>1, ConcatProperties
    <2>2. CASE i > Len(s)
        <3>1. i - Len(s) \in 1 .. Len(t) /\ (s \o t)[i] = t[i - Len(s)]
            BY <1>3, <2>2, ConcatProperties
        <3> QED BY <1>3, <3>1
    <2> QED BY <2>1, <2>2
<1>4. Outgoing = (first \o mainQ) \o last
    BY DEF Outgoing
<1> HIDE DEF first, last
<1>5. Labelled((first \o mainQ) \o last)
    BY <1>1, <1>2, <1>3
<1> QED BY <1>4, <1>5 DEF ReportLabelled

\* Every report on its way carries the number of a meter.
THEOREM ReportLabelledHolds == Spec => []ReportLabelled
<1>1. Inv1 /\ Inv2 => ReportLabelled
    BY LabelsOfReports DEF Inv2
<1> QED BY <1>1, Invariant, PTL

\* The mote never asks malloc for more than one buffer per meter.
THEOREM HeapBoundedHolds == Spec => []HeapBounded
<1>1. Inv1 /\ Inv2 => HeapBounded
    <2> SUFFICES ASSUME Inv1, Inv2 PROVE HeapBounded
        OBVIOUS
    <2>1. heap \in Nat /\ meter \in Meters
        BY DEF Inv1, TypeOK
    <2> QED BY <2>1, MeterAssumption
            DEF Inv2, Credit, MayReport, HeapBounded, Meters
<1> QED BY <1>1, Invariant, PTL

\* Whoever waits in the mote waits for something that can still come: a sender
\* that blocked (teleinfo.c:179) waits on a queue that main has messages to
\* take from in the same cycle, and main waits for nobody but the modem
\* (main.c:212), which is out of reset then.
WaitsJustified ==
    /\ telePc = "blocked" => mainQ # <<>> /\ mainPc # "hibernate"
    /\ mainPc = "waitModem" => ~radio.inReset

\* The safety half of the mote never stopping, for every size of its queues:
\* no cycle of waiting between main, the thread and the modem.
THEOREM WaitsJustifiedHolds == Spec => []WaitsJustified
<1>1. Inv1 /\ Inv2 => WaitsJustified
    BY DEF Inv1, TypeOK, Inv2, QuietShape, RadioShape, WaitsJustified
<1> QED BY <1>1, Invariant, PTL

\* If main's queue has room for a report of each meter (8 for 2 in main.c:269),
\* the teleinfo thread never blocks on it.
THEOREM NeverBlockedHolds ==
    ASSUME NumMeters <= MainQueueSize
    PROVE  Spec => []NeverBlocked
<1>1. Init => NeverBlocked
    BY DEF Init, NeverBlocked
<1>2. Inv1 /\ Inv2 /\ NeverBlocked /\ [Next]_vars => NeverBlocked'
    <2> SUFFICES ASSUME Inv1, Inv2, NeverBlocked, [Next]_vars
                 PROVE  NeverBlocked'
        OBVIOUS
    <2>1. CASE SendReport
        <3>1. heap >= Len(mainQ) + 1 /\ heap <= NumMeters
              /\ Len(mainQ) \in Nat /\ heap \in Nat
            <4>1. /\ telePc = "send" /\ mainQ \in Seq(Reports)
                  /\ meter \in Meters /\ heap \in Nat
                BY <2>1 DEF SendReport, Inv1, TypeOK
            <4>2. heap >= Len(mainQ) + 1
                BY <4>1 DEF Inv1, HeapCount
            <4>3. heap <= NumMeters
                BY <4>1, MeterAssumption
                   DEF Inv2, Credit, MayReport, Meters
            <4> QED BY <4>1, <4>2, <4>3
        <3>2. Len(mainQ) < MainQueueSize
            BY <3>1, MeterAssumption, SizeAssumption
        <3> QED BY <2>1, <3>2 DEF SendReport, NeverBlocked
    <2>2. CASE ~SendReport
        BY <2>2 DEF NeverBlocked, Next, UartNext, RxHead, RxTail, RxOther,
           RxNewline, RxCharacters, NewlineMessage, TeleNext, MsgReceive,
           LineParsed, ReportReady, StopAndSleep, MainNext, StartCycle,
           EnableRx, PowerAdapter, WakeTeleinfo, DisableRx, UnpowerAdapters,
           RadioOn, RadioInit, SendMetrics, TakeReport, ForwardReport,
           Hibernate, ModemBoots, vars, teleVars
    <2> QED BY <2>1, <2>2
<1> QED BY <1>1, <1>2, Invariant, PTL DEF Spec

\* A hibernating mote has nothing powered, nothing pending, nothing allocated.
THEOREM HibernatesQuietlyHolds == Spec => []HibernatesQuietly
<1>1. Inv1 /\ Inv2 => HibernatesQuietly
    <2> SUFFICES ASSUME Inv1, Inv2, mainPc = "hibernate"
                 PROVE  /\ rx = 0 /\ powered = {} /\ pmBlocks = 0
                        /\ radio.inReset /\ radio.state # "idle"
                        /\ ~TeleReady /\ telePc # "blocked"
                        /\ mainQ = <<>> /\ heap = 0
        BY DEF HibernatesQuietly
    <2>1. rx = 0 /\ powered = {} /\ pmBlocks = 0
        BY DEF Inv1, MainShape
    <2>2. /\ radio.inReset /\ radio.state # "idle"
          /\ ~TeleReady /\ telePc # "blocked" /\ mainQ = <<>>
        BY DEF Inv2, RadioShape, QuietShape
    <2>3. heap = 0
        BY <2>2, EmptySeq DEF Inv1, HeapCount, TeleReady
    <2> QED BY <2>1, <2>2, <2>3
<1> QED BY <1>1, Invariant, PTL

\* Whatever is transmitted goes through a radio that was configured again.
THEOREM RadioReadyHolds == Spec => []RadioReady
<1>1. Inv1 /\ Inv2 => RadioReady
    BY DEF Inv2, RadioShape, RadioReady
<1> QED BY <1>1, Invariant, PTL
-----------------------------------------------------------------------------
(***************************************************************************)
(* A window that began with nothing left over keeps to its meter: what is  *)
(* stored comes from the only powered adapter.  Between two windows, where *)
(* meter has already changed and clean has not, the thread has nothing to  *)
(* do, so no report is composed there.                                     *)
(***************************************************************************)
Pure == \A f \in Fields : tbuf.values[f] \in {tbuf.label, Corrupt}

CleanShape ==
    /\ mainPc = "enable" => ~TeleReady
    /\ clean /\ mainPc # "enable" =>
          /\ \A f \in Fields : results[f] \in {meter, Corrupt, Missing}
          /\ \A i \in 1 .. Len(ring) : ring[i] # Junk => ring[i].meter = meter
    /\ clean /\ telePc = "send" => Pure

LEMMA CleanUart ==
    ASSUME Inv1, CleanShape, UartNext
    PROVE  CleanShape'
<1> USE DEF CleanShape, Pure, TeleReady
<1>1. ASSUME NEW m \in powered, NEW c \in Chunks, RxCharacters(c),
             c = Junk \/ c.meter = m
      PROVE  CleanShape'
    <2>1. /\ UNCHANGED <<telePc, teleQ, mainPc, results, tbuf, clean, meter>>
          /\ m = meter
        BY <1>1 DEF RxCharacters, teleVars, mainVars, Inv1, MainShape
    <2>2. \A i \in 1 .. Len(ring') :
            ring'[i] \in {Junk, c} \/ \E j \in 1 .. Len(ring) : ring'[i] = ring[j]
        BY <1>1, ReceivedType DEF Inv1
    <2> QED BY <1>1, <2>1, <2>2
<1>2. ASSUME NEW m \in Meters, RxNewline(m)
      PROVE  CleanShape'
    <2>1. UNCHANGED <<mainPc, ring, results, tbuf, clean, meter>>
          /\ mainPc # "enable"
        BY <1>2 DEF RxNewline, mainVars, Inv1, MainShape
    <2>2. telePc' = telePc \/ telePc' = "drain"
        BY <1>2 DEF RxNewline, NewlineMessage
    <2> QED BY <2>1, <2>2
<1>3. \A f \in Fields, m \in Meters :
        /\ LineHead(f, m) \in Chunks /\ LineHead(f, m).meter = m
        /\ LineTail(f, m) \in Chunks /\ LineTail(f, m).meter = m
    BY DEF LineHead, LineTail, Chunks
<1>4. Junk \in Chunks
    BY DEF Chunks
<1> QED BY <1>1, <1>2, <1>3, <1>4 DEF UartNext, RxHead, RxTail, RxOther

LEMMA CleanTele ==
    ASSUME Inv1, ThreadShape, CleanShape, TeleNext
    PROVE  CleanShape'
<1>0. TeleReady /\ mainPc # "enable"
    BY DEF TeleNext, MsgReceive, LineParsed, ReportReady, SendReport,
       StopAndSleep, TeleReady, CleanShape
<1> USE <1>0 DEF CleanShape, Pure, uartVars, mainVars
<1>1. CASE MsgReceive
    BY <1>1 DEF MsgReceive
<1>2. ASSUME NEW f \in Fields, clean, telePc = "drain"
      PROVE  Parse(ring, results)[f] \in {meter, Corrupt, Missing}
    <2>1. results \in Results /\ ring \in Seq(Chunks)
        BY DEF Inv1, TypeOK
    <2> QED BY <2>1, <1>2, ParseFrom
<1>3. CASE LineParsed
    BY <1>2, <1>3 DEF LineParsed
<1>4. CASE ReportReady
    <2>1. rx = meter
        BY <1>4, LabelIsSet DEF Inv1, MainShape
    <2>2. /\ tbuf'.label = meter /\ tbuf'.values = Parse(ring, results)
          /\ \A f \in Fields : Parse(ring, results)[f] # Missing
          /\ UNCHANGED <<mainPc, clean, meter>> /\ telePc = "drain"
        BY <1>4, <2>1 DEF ReportReady, Complete
    <2>3. ring' = <<>> /\ results' = Empty
        BY <1>4 DEF ReportReady
    <2> QED BY <1>2, <2>2, <2>3 DEF Empty
<1>5. CASE SendReport
    BY <1>5 DEF SendReport
<1>6. CASE StopAndSleep
    BY <1>6 DEF StopAndSleep
<1> QED BY <1>1, <1>3, <1>4, <1>5, <1>6 DEF TeleNext

LEMMA CleanMain ==
    ASSUME Inv1, CleanShape, MainNext
    PROVE  CleanShape'
<1> USE DEF CleanShape, Pure, MainAt, TeleReady, uartVars, teleVars
<1>1. CASE StartCycle \/ UnpowerAdapters
    <2>1. /\ UNCHANGED <<telePc, teleQ, ring, results, tbuf, clean>>
          /\ telePc # "send" /\ ~TeleReady
          /\ mainPc' # "enable" => UNCHANGED meter /\ mainPc # "enable"
        BY <1>1 DEF StartCycle, UnpowerAdapters
    <2> QED BY <2>1
<1>2. CASE EnableRx
    <2>1. /\ clean' => ring' = <<>> /\ results' = Empty
          /\ telePc' # "send" /\ mainPc' # "enable"
        BY <1>2 DEF EnableRx
    <2> QED BY <2>1 DEF Empty
<1>3. CASE \/ PowerAdapter \/ WakeTeleinfo \/ DisableRx \/ RadioOn \/ RadioInit
           \/ SendMetrics \/ TakeReport \/ ForwardReport \/ Hibernate
    <2>1. /\ UNCHANGED <<ring, results, clean, meter>>
          /\ telePc' # "send" /\ mainPc # "enable" /\ mainPc' # "enable"
        BY <1>3 DEF PowerAdapter, WakeTeleinfo, DisableRx, RadioOn, RadioInit,
           SendMetrics, TakeReport, ForwardReport, Hibernate
    <2> QED BY <2>1
<1> QED BY <1>1, <1>2, <1>3 DEF MainNext

LEMMA CleanAlways == Spec => []CleanShape
<1>1. Init => CleanShape
    BY DEF Init, CleanShape, TeleReady, Empty
<1>2. Inv1 /\ Inv2 /\ CleanShape /\ [Next]_vars => CleanShape'
    <2> SUFFICES ASSUME Inv1, ThreadShape, CleanShape, [Next]_vars
                 PROVE  CleanShape'
        BY DEF Inv2
    <2>1. CASE ModemBoots \/ UNCHANGED vars
        <3>1. UNCHANGED <<telePc, teleQ, mainPc, ring, results, tbuf, clean,
                          meter>>
            BY <2>1 DEF ModemBoots, vars, uartVars, teleVars, mainVars
        <3> QED BY <3>1 DEF CleanShape, Pure, TeleReady
    <2> QED BY <2>1, CleanUart, CleanTele, CleanMain DEF Next
<1> QED BY <1>1, <1>2, Invariant, PTL DEF Spec

\* As long as the thread never blocks, where its report could outlast the
\* window, a report of such a window holds no value of another meter.
THEOREM PureFromCleanHolds ==
    ASSUME NumMeters <= MainQueueSize
    PROVE  Spec => []PureFromClean
<1>1. CleanShape /\ NeverBlocked => PureFromClean
    BY DEF CleanShape, Pure, NeverBlocked, PureFromClean
<1> QED BY <1>1, CleanAlways, NeverBlockedHolds, PTL
-----------------------------------------------------------------------------
(***************************************************************************)
(* Outgoing, the reports between malloc and free: only ReportReady adds a  *)
(* report, at the end, and only ForwardReport removes one, at the front.   *)
(* Queueing a report, taking it, and releasing a blocked sender move it.   *)
(***************************************************************************)
First == IF mainPc = "forward" THEN <<held>> ELSE <<>>
Last  == IF telePc \in {"send", "blocked"} THEN <<tbuf>> ELSE <<>>

LEMMA OutgoingType ==
    ASSUME Inv1
    PROVE  /\ First \in Seq(Reports) /\ Last \in Seq(Reports)
           /\ mainQ \in Seq(Reports)
           /\ Outgoing = (First \o mainQ) \o Last
           /\ Outgoing \in Seq(Reports)
           /\ Len(Outgoing) = Len(First) + Len(mainQ) + Len(Last)
<1>1. First \in Seq(Reports) /\ Last \in Seq(Reports) /\ mainQ \in Seq(Reports)
    BY DEF Inv1, TypeOK, First, Last
<1>2. Outgoing = (First \o mainQ) \o Last
    BY DEF Outgoing, First, Last
<1>3. First \o mainQ \in Seq(Reports)
      /\ Len(First \o mainQ) = Len(First) + Len(mainQ)
    BY <1>1, ConcatProperties
<1>4. Outgoing \in Seq(Reports)
      /\ Len(Outgoing) = Len(First \o mainQ) + Len(Last)
    BY <1>1, <1>2, <1>3, ConcatProperties
<1> QED BY <1>1, <1>2, <1>3, <1>4

\* Each allocated report is on its way to main's free, and no other.
THEOREM HeapAccountedHolds == Spec => []HeapAccounted
<1>1. Inv1 => HeapAccounted
    <2> SUFFICES ASSUME Inv1 PROVE HeapAccounted
        OBVIOUS
    <2>1. Len(Outgoing) = Len(First) + Len(mainQ) + Len(Last)
        BY OutgoingType
    <2>2. /\ Len(First) = (IF mainPc = "forward" THEN 1 ELSE 0)
          /\ Len(Last) = (IF telePc \in {"send", "blocked"} THEN 1 ELSE 0)
        BY DEF First, Last
    <2>3. heap = Len(mainQ) + Len(First) + Len(Last)
        BY <2>2 DEF Inv1, HeapCount
    <2>4. Len(mainQ) \in Nat /\ Len(First) \in Nat /\ Len(Last) \in Nat
        BY OutgoingType, LenProperties
    <2> QED BY <2>1, <2>3, <2>4 DEF HeapAccounted
<1> QED BY <1>1, Invariant, PTL

LEMMA ReportIsAdded ==
    ASSUME Inv1, ReportReady
    PROVE  Outgoing' = Append(Outgoing, tbuf') /\ tbuf' \in Reports
<1>1. tbuf' \in Reports
    BY ParseType DEF ReportReady, Reports, Inv1, TypeOK
<1>2. First' = First /\ mainQ' = mainQ /\ Last = <<>> /\ Last' = <<tbuf'>>
    BY DEF ReportReady, First, Last, mainVars
<1>3. Outgoing = First \o mainQ
    BY <1>2, OutgoingType, ConcatProperties, ConcatEmptySeq
<1>4. Outgoing' = Outgoing \o <<tbuf'>>
    BY <1>2, <1>3 DEF Outgoing, First, Last
<1>5. Outgoing \o <<tbuf'>> = Append(Outgoing, tbuf')
    BY <1>1, OutgoingType
<1> QED BY <1>1, <1>4, <1>5

LEMMA QueueingMoves ==
    ASSUME Inv1, SendReport
    PROVE  Outgoing' = Outgoing
<1>1. tbuf \in Reports /\ First' = First
    BY DEF SendReport, First, mainVars, Inv1, TypeOK
<1>2. CASE Len(mainQ) < MainQueueSize
    <2>1. mainQ' = Append(mainQ, tbuf) /\ Last = <<tbuf>> /\ Last' = <<>>
        BY <1>2 DEF SendReport, Last
    <2>2. mainQ' = mainQ \o <<tbuf>>
        BY <1>1, <2>1, OutgoingType
    <2>3. /\ Outgoing = (First \o mainQ) \o <<tbuf>>
          /\ Outgoing' = (First \o (mainQ \o <<tbuf>>)) \o <<>>
        BY <1>1, <2>1, <2>2, OutgoingType DEF Outgoing, First, Last
    <2>4. <<tbuf>> \in Seq(Reports) /\ mainQ \o <<tbuf>> \in Seq(Reports)
        BY <1>1, OutgoingType, ConcatProperties
    <2>5. First \o (mainQ \o <<tbuf>>) \in Seq(Reports)
        BY <2>4, OutgoingType, ConcatProperties
    <2> QED BY <2>3, <2>4, <2>5, OutgoingType, ConcatEmptySeq, ConcatAssociative
<1>3. CASE ~(Len(mainQ) < MainQueueSize)
    BY <1>1, <1>3 DEF SendReport, Outgoing, mainVars
<1> QED BY <1>2, <1>3

LEMMA TakingMoves ==
    ASSUME Inv1, TakeReport
    PROVE  Outgoing' = Outgoing
<1>1. /\ mainQ # <<>> /\ First = <<>> /\ First' = <<Head(mainQ)>>
      /\ Head(mainQ) \in Reports /\ Tail(mainQ) \in Seq(Reports)
    BY OutgoingType, HeadTailProperties DEF TakeReport, MainAt, First
<1>2. mainQ = <<Head(mainQ)>> \o Tail(mainQ)
    <2>1. /\ <<Head(mainQ)>> \o Tail(mainQ) \in Seq(Reports)
          /\ Len(<<Head(mainQ)>> \o Tail(mainQ)) = Len(mainQ)
        BY <1>1, OutgoingType, ConcatProperties, HeadTailProperties
    <2>2. ASSUME NEW i \in 1 .. Len(mainQ)
          PROVE  mainQ[i] = (<<Head(mainQ)>> \o Tail(mainQ))[i]
        BY <1>1, OutgoingType, ConcatProperties, HeadTailProperties
    <2> QED BY <2>1, <2>2, OutgoingType, SeqEqual
<1>3. Outgoing = mainQ \o Last
    BY <1>1, OutgoingType, ConcatEmptySeq
<1>4. CASE telePc = "blocked"
    <2>1. /\ tbuf \in Reports /\ Last = <<tbuf>> /\ Last' = <<>>
          /\ mainQ' = Append(Tail(mainQ), tbuf)
        BY <1>4 DEF TakeReport, Last, Inv1, TypeOK
    <2>2. mainQ' = Tail(mainQ) \o <<tbuf>>
        BY <1>1, <2>1
    <2>3. Outgoing' = (<<Head(mainQ)>> \o (Tail(mainQ) \o <<tbuf>>)) \o <<>>
        BY <1>1, <2>1, <2>2 DEF Outgoing, First, Last
    <2>4. <<tbuf>> \in Seq(Reports) /\ <<Head(mainQ)>> \in Seq(Reports)
          /\ Tail(mainQ) \o <<tbuf>> \in Seq(Reports)
        BY <1>1, <2>1, ConcatProperties
    <2>5. <<Head(mainQ)>> \o (Tail(mainQ) \o <<tbuf>>) \in Seq(Reports)
        BY <2>4, ConcatProperties
    <2>6. Outgoing' = (<<Head(mainQ)>> \o Tail(mainQ)) \o <<tbuf>>
        BY <1>1, <2>3, <2>4, <2>5, ConcatEmptySeq, ConcatAssociative
    <2> QED BY <1>2, <1>3, <2>1, <2>6
<1>5. CASE telePc # "blocked"
    <2>1. Last' = Last /\ mainQ' = Tail(mainQ)
        BY <1>5 DEF TakeReport, Last, MainAt, TeleReady
    <2>2. Outgoing' = (<<Head(mainQ)>> \o Tail(mainQ)) \o Last
        BY <1>1, <2>1 DEF Outgoing, First, Last
    <2> QED BY <1>2, <1>3, <2>2
<1> QED BY <1>4, <1>5

LEMMA ReportIsRemoved ==
    ASSUME Inv1, ForwardReport
    PROVE  Outgoing # <<>> /\ Outgoing' = Tail(Outgoing)
<1>1. /\ First = <<held>> /\ First' = <<>> /\ mainQ' = mainQ /\ Last' = Last
      /\ held \in Reports
    BY DEF ForwardReport, MainAt, First, Last, teleVars, Inv1, TypeOK
<1>2. Outgoing' = mainQ \o Last /\ mainQ \o Last \in Seq(Reports)
    BY <1>1, OutgoingType, ConcatEmptySeq, ConcatProperties
       DEF Outgoing, First, Last
<1>3. Outgoing = <<held>> \o (mainQ \o Last)
    <2>1. /\ First \in Seq(Reports) /\ mainQ \in Seq(Reports)
          /\ Last \in Seq(Reports)
        BY OutgoingType
    <2>2. (First \o mainQ) \o Last = First \o (mainQ \o Last)
        BY <2>1, ConcatAssociative
    <2>3. Outgoing = (First \o mainQ) \o Last
        BY OutgoingType
    <2> QED BY <1>1, <2>2, <2>3
<1> DEFINE rest == mainQ \o Last
<1> HIDE DEF rest
<1>4. rest \in Seq(Reports) /\ Outgoing = <<held>> \o rest /\ Outgoing' = rest
    BY <1>2, <1>3 DEF rest
<1>5. /\ Outgoing \in Seq(Reports) /\ Len(Outgoing) = 1 + Len(rest)
      /\ \A i \in 1 .. Len(rest) : Outgoing[i + 1] = rest[i]
    BY <1>1, <1>4, ConcatProperties
<1>6. Outgoing # <<>>
    BY <1>4, <1>5
<1>7. Tail(Outgoing) = rest
    BY <1>4, <1>5, <1>6, HeadTailProperties, SeqEqual
<1> QED BY <1>4, <1>6, <1>7

\* No other step touches a report on its way.
LEMMA OutgoingKept ==
    ASSUME [Next]_vars, ~ReportReady, ~SendReport, ~TakeReport, ~ForwardReport
    PROVE  Outgoing' = Outgoing
<1>1. /\ UNCHANGED <<mainQ, held, tbuf>>
      /\ (mainPc = "forward") <=> (mainPc' = "forward")
      /\ (telePc \in {"send", "blocked"}) <=> (telePc' \in {"send", "blocked"})
    <2>1. CASE UartNext
        BY <2>1 DEF UartNext, RxHead, RxTail, RxOther, RxNewline, RxCharacters,
           NewlineMessage, teleVars, mainVars
    <2>2. CASE MsgReceive \/ LineParsed \/ StopAndSleep
        BY <2>2 DEF MsgReceive, LineParsed, StopAndSleep, mainVars
    <2>3. CASE \/ StartCycle \/ EnableRx \/ PowerAdapter \/ WakeTeleinfo
               \/ DisableRx \/ UnpowerAdapters
        BY <2>3 DEF StartCycle, EnableRx, PowerAdapter, WakeTeleinfo,
           DisableRx, UnpowerAdapters, MainAt, teleVars
    <2>4. CASE RadioOn \/ RadioInit \/ SendMetrics \/ Hibernate
        BY <2>4 DEF RadioOn, RadioInit, SendMetrics, Hibernate, MainAt, teleVars
    <2>5. CASE ModemBoots \/ UNCHANGED vars
        BY <2>5 DEF ModemBoots, vars, teleVars, mainVars
    <2> QED BY <2>1, <2>2, <2>3, <2>4, <2>5 DEF Next, TeleNext, MainNext
<1> QED BY <1>1 DEF Outgoing
-----------------------------------------------------------------------------
(***************************************************************************)
(* Order.  A report is labelled with the open window, and once per window: *)
(* while the window may still give a report, every label is below it.      *)
(***************************************************************************)
WindowsSoFar ==
    IF mainPc \in {"boot", "hibernate"} THEN 0
    ELSE IF mainPc = "enable" THEN meter - 1
    ELSE IF mainPc \in {"power", "wake", "listen", "unpower"} THEN meter
    ELSE NumMeters

OrderShape ==
    /\ OneReportPerMeter
    /\ \A i \in 1 .. Len(Outgoing) : Outgoing[i].label <= WindowsSoFar
    /\ MayReport => \A i \in 1 .. Len(Outgoing) : Outgoing[i].label < rx

LEMMA OrderInit == Init => OrderShape
<1> SUFFICES ASSUME Init PROVE OrderShape
    OBVIOUS
<1>1. Inv1 /\ First = <<>> /\ mainQ = <<>> /\ Last = <<>>
    BY Inv1Init DEF Init, First, Last
<1>2. Outgoing \in Seq(Reports) /\ Len(Outgoing) = 0
    BY <1>1, OutgoingType, EmptySeq
<1> QED BY <1>2 DEF OrderShape, OneReportPerMeter

\* A thread that may report after a step might already before it, unless the
\* step opens a window; and windows only grow within a cycle.
LEMMA WindowSteps ==
    ASSUME Inv1, Inv2, [Next]_vars, ~ReportReady, ~EnableRx, ~StartCycle,
           ~Hibernate
    PROVE  /\ MayReport' => MayReport /\ rx' = rx
           /\ WindowsSoFar' \in Int /\ WindowsSoFar <= WindowsSoFar'
<1>0. /\ rx \in {0, meter} /\ meter \in Nat \ {0} /\ meter <= NumMeters
      /\ NumMeters \in Nat
      /\ rx # 0 => mainPc \in {"power", "wake", "listen"}
    BY MeterAssumption DEF Inv1, TypeOK, MainShape, Meters
<1> USE DEF MayReport, WindowsSoFar, MainAt, TeleReady
<1>1. CASE UartNext
    <2>1. UNCHANGED <<rx, mainPc, meter>>
        BY <1>1 DEF UartNext, RxHead, RxTail, RxOther, RxNewline, RxCharacters,
           mainVars
    <2>2. telePc' = telePc \/ (telePc = "receive" /\ telePc' = "drain")
        BY <1>1 DEF UartNext, RxHead, RxTail, RxOther, RxNewline, RxCharacters,
           NewlineMessage, teleVars
    <2> QED BY <2>1, <2>2, <1>0
<1>2. CASE MsgReceive \/ LineParsed \/ SendReport
    <2>1. /\ UNCHANGED <<rx, mainPc, meter>>
          /\ telePc' \in {"receive", "drain"} => telePc \in {"receive", "drain"}
          /\ telePc' \in {"receive", "drain", "stop", "blocked"}
        BY <1>2 DEF MsgReceive, LineParsed, SendReport, mainVars
    <2> QED BY <2>1, <1>0
<1>3. CASE StopAndSleep
    BY <1>3, <1>0 DEF StopAndSleep, mainVars
<1>4. CASE PowerAdapter \/ WakeTeleinfo \/ DisableRx
    <2>1. /\ {mainPc, mainPc'} \subseteq {"power", "wake", "listen", "unpower"}
          /\ rx' \in {0, rx} /\ UNCHANGED meter
          /\ telePc' = telePc \/ telePc = "sleeping"
        BY <1>4 DEF PowerAdapter, WakeTeleinfo, DisableRx, teleVars
    <2> QED BY <2>1, <1>0
<1>5. CASE UnpowerAdapters
    <2>1. mainPc = "unpower" /\ rx = 0 /\ rx' = 0
        BY <1>5, <1>0 DEF UnpowerAdapters
    <2>2. CASE meter < NumMeters
        BY <1>5, <2>1, <2>2, <1>0 DEF UnpowerAdapters
    <2>3. CASE ~(meter < NumMeters)
        BY <1>5, <2>1, <2>3, <1>0 DEF UnpowerAdapters
    <2> QED BY <2>2, <2>3
<1>6. CASE RadioOn \/ RadioInit \/ SendMetrics \/ TakeReport \/ ForwardReport
    <2>1. /\ mainPc \in {"radioOn", "waitModem", "metrics", "poll", "forward"}
          /\ mainPc' \in {"waitModem", "metrics", "poll", "forward"}
          /\ UNCHANGED rx
        BY <1>6 DEF RadioOn, RadioInit, SendMetrics, TakeReport, ForwardReport
    <2> QED BY <2>1, <1>0
<1>7. CASE ModemBoots \/ UNCHANGED vars
    <2>1. UNCHANGED <<rx, telePc, mainPc, meter>>
        BY <1>7 DEF ModemBoots, vars, teleVars, mainVars
    <2> QED BY <2>1, <1>0
<1> QED BY <1>1, <1>2, <1>3, <1>4, <1>5, <1>6, <1>7 DEF Next, TeleNext, MainNext

LEMMA OrderNext ==
    ASSUME Inv1, Inv2, OrderShape, [Next]_vars
    PROVE  OrderShape'
<1>0. /\ rx \in {0, meter} /\ meter \in Nat \ {0} /\ meter <= NumMeters
      /\ NumMeters \in Nat
      /\ rx # 0 => mainPc \in {"power", "wake", "listen"}
      /\ WindowsSoFar \in Int
    BY MeterAssumption DEF Inv1, TypeOK, MainShape, Meters, WindowsSoFar
<1>1. /\ Outgoing \in Seq(Reports)
      /\ \A i \in 1 .. Len(Outgoing) : Outgoing[i].label \in Int
    <2>1. Outgoing \in Seq(Reports)
        BY OutgoingType
    <2>2. ASSUME NEW i \in 1 .. Len(Outgoing)
          PROVE  Outgoing[i].label \in Int
        <3>1. Outgoing[i] \in Reports
            BY <2>1, ElementOfSeq
        <3> QED BY <3>1, MeterAssumption DEF Reports, Meters
    <2> QED BY <2>1, <2>2
<1> USE DEF OrderShape, OneReportPerMeter
<1>2. CASE ReportReady
    <2>1. rx # 0 /\ MayReport /\ ~MayReport'
          /\ WindowsSoFar = rx /\ WindowsSoFar' = rx
        BY <1>0, <1>2, LabelIsSet
           DEF ReportReady, MayReport, WindowsSoFar, Inv2, mainVars
    <2>2. Outgoing' = Append(Outgoing, tbuf') /\ tbuf'.label = rx
          /\ tbuf' \in Reports
        BY <1>2, ReportIsAdded DEF ReportReady
    <2>3. /\ Len(Outgoing') = Len(Outgoing) + 1
          /\ Outgoing'[Len(Outgoing) + 1].label = rx
          /\ \A i \in 1 .. Len(Outgoing) : Outgoing'[i] = Outgoing[i]
        BY <2>2, <1>1
    <2>4. \A i, j \in 1 .. Len(Outgoing') :
              i < j => Outgoing'[i].label < Outgoing'[j].label
        <3> SUFFICES ASSUME NEW i \in 1 .. Len(Outgoing'),
                            NEW j \in 1 .. Len(Outgoing'), i < j
                     PROVE  Outgoing'[i].label < Outgoing'[j].label
            OBVIOUS
        <3>1. Len(Outgoing) \in Nat /\ i \in 1 .. Len(Outgoing)
            BY <2>3, <1>1
        <3>2. CASE j = Len(Outgoing) + 1
            BY <2>1, <2>3, <3>1, <3>2
        <3>3. CASE j # Len(Outgoing) + 1
            <4>1. j \in 1 .. Len(Outgoing)
                BY <2>3, <3>1, <3>3
            <4> QED BY <2>3, <3>1, <4>1
        <3> QED BY <3>2, <3>3
    <2>5. \A i \in 1 .. Len(Outgoing') : Outgoing'[i].label <= rx
        BY <2>1, <2>3, <1>0, <1>1
    <2> QED BY <2>1, <2>4, <2>5
<1>3. CASE ForwardReport
    <2>1. Outgoing # <<>> /\ Outgoing' = Tail(Outgoing)
        BY <1>3, ReportIsRemoved
    <2>2. /\ Len(Outgoing') = Len(Outgoing) - 1
          /\ \A i \in 1 .. Len(Outgoing') : Outgoing'[i] = Outgoing[i + 1]
        BY <2>1, <1>1, HeadTailProperties
    <2>3. WindowsSoFar' = WindowsSoFar /\ MayReport' = MayReport /\ rx' = rx
        BY <1>3 DEF ForwardReport, MainAt, WindowsSoFar, MayReport, teleVars
    <2>4. \A i \in 1 .. Len(Outgoing') : i + 1 \in 1 .. Len(Outgoing)
        BY <2>2, <1>1
    <2>5. \A i, j \in 1 .. Len(Outgoing') :
              i < j => Outgoing'[i].label < Outgoing'[j].label
        BY <2>2, <2>4
    <2>6. \A i \in 1 .. Len(Outgoing') : Outgoing'[i].label <= WindowsSoFar
        BY <2>2, <2>4
    <2>7. MayReport => \A i \in 1 .. Len(Outgoing') : Outgoing'[i].label < rx
        BY <2>2, <2>4
    <2> QED BY <2>3, <2>5, <2>6, <2>7
<1>4. CASE EnableRx
    <2>1. UNCHANGED Outgoing
        BY <1>4, OutgoingKept DEF EnableRx, ReportReady, SendReport, TakeReport,
           ForwardReport, MainAt, TeleReady
    <2>2. /\ WindowsSoFar = meter - 1 /\ WindowsSoFar' = meter /\ rx' = meter
        BY <1>4 DEF EnableRx, MainAt, WindowsSoFar
    <2>3. \A i \in 1 .. Len(Outgoing) : Outgoing[i].label < meter
        BY <2>2, <1>0, <1>1
    <2> QED BY <2>1, <2>2, <2>3, <1>0, <1>1
<1>5. CASE StartCycle \/ Hibernate
    <2>1. UNCHANGED Outgoing
        BY <1>5, OutgoingKept DEF StartCycle, Hibernate, ReportReady,
           SendReport, TakeReport, ForwardReport, MainAt, TeleReady
    <2>2. WindowsSoFar' = 0 /\ ~MayReport'
        BY <1>5, <1>0 DEF StartCycle, Hibernate, MainAt, WindowsSoFar, MayReport
    <2>3. CASE StartCycle
        <3>1. WindowsSoFar = 0
            BY <2>3 DEF StartCycle, MainAt, WindowsSoFar
        <3> QED BY <2>1, <2>2, <3>1
    <2>4. CASE Hibernate
        <3>1. First = <<>> /\ mainQ = <<>> /\ Last = <<>>
            BY <2>4 DEF Hibernate, MainAt, TeleReady, First, Last, Inv2,
               QuietShape
        <3>2. Len(Outgoing) = 0
            BY <3>1, OutgoingType, EmptySeq
        <3> QED BY <2>1, <2>2, <3>2
    <2> QED BY <1>5, <2>3, <2>4
<1>6. CASE /\ ~ReportReady /\ ~ForwardReport /\ ~EnableRx
           /\ ~StartCycle /\ ~Hibernate
    <2>1. UNCHANGED Outgoing
        BY <1>6, OutgoingKept, QueueingMoves, TakingMoves
    <2>2. /\ MayReport' => MayReport /\ rx' = rx
          /\ WindowsSoFar' \in Int /\ WindowsSoFar <= WindowsSoFar'
        BY <1>6, WindowSteps
    <2> QED BY <2>1, <2>2, <1>0, <1>1
<1> QED BY <1>2, <1>3, <1>4, <1>5, <1>6

THEOREM Invariant3 == Spec => [](Inv1 /\ Inv2 /\ OrderShape)
<1>1. Spec => []OrderShape
    <2>1. Inv1 /\ Inv2 /\ OrderShape /\ [Next]_vars => OrderShape'
        BY OrderNext
    <2> QED BY <2>1, OrderInit, Invariant, PTL DEF Spec
<1> QED BY <1>1, Invariant, PTL

\* A meter has one report per cycle at most, and reports are in the order of
\* the windows, whether or not main's queue has room for them all.
THEOREM OneReportPerMeterHolds == Spec => []OneReportPerMeter
<1>1. OrderShape => OneReportPerMeter
    BY DEF OrderShape
<1> QED BY <1>1, Invariant3, PTL
-----------------------------------------------------------------------------
(***************************************************************************)
(* Refinement.  EnableRx opens a window, ReportReady composes, the last    *)
(* UnpowerAdapters closes the windows, ForwardReport transmits; every      *)
(* other step changes neither the window nor the labels.                   *)
(***************************************************************************)
LEMMA CycleInitRefined == Init => Cycle!CycleInit
<1> SUFFICES ASSUME Init PROVE Cycle!CycleInit
    OBVIOUS
<1>1. Inv1 /\ First = <<>> /\ mainQ = <<>> /\ Last = <<>>
    BY Inv1Init DEF Init, First, Last
<1>2. Outgoing \in Seq(Reports) /\ Len(Outgoing) = 0
    BY <1>1, OutgoingType, EmptySeq
<1>3. Labels = <<>>
    BY <1>2 DEF Labels
<1> QED BY <1>3 DEF Cycle!CycleInit, Init, Window

\* Labels is the sequence of the labels, and follows Outgoing.
LEMMA LabelsType ==
    ASSUME Inv1
    PROVE  /\ Labels \in Seq(Int) /\ Len(Labels) = Len(Outgoing)
           /\ \A i \in 1 .. Len(Outgoing) : Labels[i] = Outgoing[i].label
<1>1. Outgoing \in Seq(Reports)
    BY OutgoingType
<1>2. ASSUME NEW i \in 1 .. Len(Outgoing)
      PROVE  Outgoing[i].label \in Int
    <2>1. Outgoing[i] \in Reports
        BY <1>1, ElementOfSeq
    <2> QED BY <2>1, MeterAssumption DEF Reports, Meters
<1> QED BY <1>1, <1>2 DEF Labels

\* Two ways to write a sequence.
LEMMA AppendAsFunction ==
    ASSUME NEW s \in Seq(Int), NEW e \in Int, NEW n \in Nat, n = Len(s)
    PROVE  Append(s, e)
           = [i \in 1 .. n + 1 |-> IF i = n + 1 THEN e ELSE s[i]]
<1> DEFINE t == [i \in 1 .. n + 1 |-> IF i = n + 1 THEN e ELSE s[i]]
<1>1. ASSUME NEW i \in 1 .. n + 1
      PROVE  (IF i = n + 1 THEN e ELSE s[i]) \in Int
    <2>1. CASE i = n + 1
        BY <2>1
    <2>2. CASE i # n + 1
        BY <2>2, i \in 1 .. n
    <2> QED BY <2>1, <2>2
<1>2. t \in Seq(Int) /\ Len(t) = n + 1
    BY <1>1
<1>3. Append(s, e) \in Seq(Int) /\ Len(Append(s, e)) = n + 1
    OBVIOUS
<1>4. ASSUME NEW i \in 1 .. n + 1
      PROVE  Append(s, e)[i] = t[i]
    OBVIOUS
<1> HIDE DEF t
<1>5. Append(s, e) = t
    BY <1>2, <1>3, <1>4, SeqEqual
<1> QED BY <1>5 DEF t

LEMMA TailAsFunction ==
    ASSUME NEW s \in Seq(Int), s # <<>>
    PROVE  Tail(s) = [i \in 1 .. Len(s) - 1 |-> s[i + 1]]
<1> DEFINE t == [i \in 1 .. Len(s) - 1 |-> s[i + 1]]
<1>1. Len(s) - 1 \in Nat /\ \A i \in 1 .. Len(s) - 1 : s[i + 1] \in Int
    BY EmptySeq
<1>2. t \in Seq(Int) /\ Len(t) = Len(s) - 1
    BY <1>1
<1>3. /\ Tail(s) \in Seq(Int) /\ Len(Tail(s)) = Len(s) - 1
      /\ \A i \in 1 .. Len(s) - 1 : Tail(s)[i] = s[i + 1]
    BY HeadTailProperties
<1>4. \A i \in 1 .. Len(s) - 1 : t[i] = s[i + 1]
    OBVIOUS
<1> HIDE DEF t
<1>5. Tail(s) = t
    BY <1>2, <1>3, <1>4, SeqEqual
<1> QED BY <1>5 DEF t

LEMMA CycleNextRefined ==
    ASSUME Inv1, Inv2, OrderShape, [Next]_vars
    PROVE  [Cycle!CycleNext]_<<Window, Labels>>
<1>0. /\ rx \in {0, meter} /\ meter \in Nat \ {0} /\ meter <= NumMeters
      /\ NumMeters \in Nat
      /\ rx # 0 => mainPc \in {"power", "wake", "listen"}
    BY MeterAssumption DEF Inv1, TypeOK, MainShape, Meters
<1>1. /\ Outgoing \in Seq(Reports) /\ Labels \in Seq(Int)
      /\ Len(Labels) = Len(Outgoing)
      /\ \A i \in 1 .. Len(Outgoing) : Labels[i] = Outgoing[i].label
    BY OutgoingType, LabelsType
<1> USE DEF Window, MainAt, TeleReady
<1>2. CASE ReportReady
    <2>1. rx # 0 /\ MayReport /\ Window = rx /\ Window' = rx
        BY <1>0, <1>2, LabelIsSet DEF ReportReady, MayReport, Inv2, mainVars
    <2>2. Outgoing' = Append(Outgoing, tbuf') /\ tbuf'.label = rx
          /\ tbuf' \in Reports
        BY <1>2, ReportIsAdded DEF ReportReady
    <2>3. /\ Outgoing' \in Seq(Reports) /\ Len(Outgoing') = Len(Outgoing) + 1
          /\ Outgoing'[Len(Outgoing) + 1].label = rx
          /\ \A i \in 1 .. Len(Outgoing) : Outgoing'[i] = Outgoing[i]
        BY <2>2, <1>1
    <2>4. Labels' = [i \in 1 .. Len(Outgoing') |-> Outgoing'[i].label]
        BY DEF Labels
    <2>5. Labels' = Append(Labels, rx)
        <3> DEFINE n == Len(Outgoing)
        <3>1. n \in Nat /\ rx \in Int /\ Len(Outgoing') = n + 1
            BY <1>0, <1>1, <2>3
        <3>2. /\ \A i \in 1 .. n : Outgoing'[i].label = Labels[i]
              /\ Outgoing'[n + 1].label = rx
            BY <2>3, <1>1
        <3>3. Labels' = [i \in 1 .. n + 1 |-> IF i = n + 1 THEN rx ELSE Labels[i]]
            BY <2>4, <3>1, <3>2
        <3> QED BY <3>1, <3>3, <1>1, AppendAsFunction
    <2>6. \A i \in 1 .. Len(Labels) : Labels[i] < rx
        BY <2>1, <1>1 DEF OrderShape
    <2>7. rx > 0
        BY <2>1, <1>0
    <2> QED BY <2>1, <2>5, <2>6, <2>7 DEF Cycle!CycleNext, Cycle!Compose
<1>3. CASE ForwardReport
    <2>1. Outgoing # <<>> /\ Outgoing' = Tail(Outgoing)
        BY <1>3, ReportIsRemoved
    <2>2. /\ Len(Outgoing') = Len(Outgoing) - 1
          /\ \A i \in 1 .. Len(Outgoing') : Outgoing'[i] = Outgoing[i + 1]
        BY <2>1, <1>1, HeadTailProperties
    <2>3. Labels' = [i \in 1 .. Len(Outgoing') |-> Outgoing'[i].label]
        BY DEF Labels
    <2>4. Labels # <<>>
        BY <2>1, <1>1
    <2>5. Labels' = Tail(Labels)
        <3>1. /\ Tail(Labels) = [i \in 1 .. Len(Labels) - 1 |-> Labels[i + 1]]
              /\ Len(Outgoing') = Len(Labels) - 1 /\ Len(Labels) \in Nat
            BY <1>1, <2>2, <2>4, TailAsFunction
        <3>2. \A i \in 1 .. Len(Labels) - 1 :
                  Outgoing'[i].label = Labels[i + 1]
            BY <1>1, <2>2, <3>1
        <3> QED BY <2>3, <3>1, <3>2
    <2>6. Window = 0 /\ Window' = 0
        BY <1>3 DEF ForwardReport
    <2> QED BY <2>4, <2>5, <2>6 DEF Cycle!CycleNext, Cycle!Transmit
<1>4. CASE ~ReportReady /\ ~ForwardReport
    <2>1. UNCHANGED Outgoing
        BY <1>4, OutgoingKept, QueueingMoves, TakingMoves
    <2>2. UNCHANGED Labels
        BY <2>1 DEF Labels
    <2>3. CASE EnableRx
        <3>1. Window = meter - 1 /\ Window' = meter
            BY <2>3 DEF EnableRx
        <3>2. Window < NumMeters /\ Window' = Window + 1
            BY <3>1, <1>0
        <3>3. Window = 0 => Labels = <<>>
            <4> SUFFICES ASSUME Window = 0 PROVE Labels = <<>>
                OBVIOUS
            <4>1. WindowsSoFar = 0
                BY <3>1, <2>3 DEF EnableRx, WindowsSoFar
            <4>2. ASSUME NEW i \in 1 .. Len(Outgoing) PROVE FALSE
                <5>1. Outgoing[i].label <= 0
                    BY <4>1 DEF OrderShape
                <5>2. Outgoing[i].label \in Meters
                    BY LabelsOfReports DEF Inv2, ReportLabelled
                <5> QED BY <5>1, <5>2, MeterAssumption DEF Meters
            <4>3. Len(Outgoing) = 0
                BY <4>2, <1>1
            <4> QED BY <4>3, <1>1, EmptySeq
        <3> QED BY <3>2, <3>3, <2>2 DEF Cycle!CycleNext, Cycle!OpenWindow
    <2>4. CASE UnpowerAdapters
        <3>1. mainPc = "unpower" /\ Window = meter
            BY <2>4 DEF UnpowerAdapters
        <3>2. CASE meter < NumMeters
            <4>1. Window' = meter
                BY <2>4, <3>2, <1>0 DEF UnpowerAdapters
            <4> QED BY <3>1, <4>1, <2>2
        <3>3. CASE ~(meter < NumMeters)
            <4>1. Window' = 0 /\ meter = NumMeters
                BY <2>4, <3>3, <1>0 DEF UnpowerAdapters
            <4> QED BY <3>1, <4>1, <2>2
                    DEF Cycle!CycleNext, Cycle!CloseWindows
        <3> QED BY <3>2, <3>3
    <2>5. CASE ~EnableRx /\ ~UnpowerAdapters
        <3>1. UNCHANGED Window
            <4>1. CASE UartNext \/ TeleNext \/ ModemBoots \/ UNCHANGED vars
                <5>1. UNCHANGED <<mainPc, meter>>
                    BY <4>1 DEF UartNext, RxHead, RxTail, RxOther, RxNewline,
                       RxCharacters, TeleNext, MsgReceive, LineParsed,
                       ReportReady, SendReport, StopAndSleep, ModemBoots, vars,
                       mainVars
                <5> QED BY <5>1
            <4>2. CASE StartCycle
                BY <4>2 DEF StartCycle
            <4>3. CASE PowerAdapter \/ WakeTeleinfo \/ DisableRx
                BY <4>3 DEF PowerAdapter, WakeTeleinfo, DisableRx
            <4>4. CASE RadioOn \/ RadioInit \/ SendMetrics \/ TakeReport
                       \/ Hibernate
                BY <4>4 DEF RadioOn, RadioInit, SendMetrics, TakeReport,
                   Hibernate
            <4> QED BY <4>1, <4>2, <4>3, <4>4, <1>4, <2>5 DEF Next, MainNext
        <3> QED BY <3>1, <2>2
    <2> QED BY <2>3, <2>4, <2>5
<1> QED BY <1>2, <1>3, <1>4

\* The mote, with its interrupts, its two threads and their queues, implements
\* ReportCycle: a window per meter, at most one report per window, and nothing
\* left from one cycle to the next.
THEOREM Refinement == Spec => ImplementsCycle
<1>1. Inv1 /\ Inv2 /\ OrderShape /\ [Next]_vars
      => [Cycle!CycleNext]_(Cycle!cycleVars)
    BY CycleNextRefined DEF Cycle!cycleVars
<1> QED BY <1>1, CycleInitRefined, Invariant3, PTL
        DEF Spec, ImplementsCycle, Cycle!CycleSpec
=============================================================================
