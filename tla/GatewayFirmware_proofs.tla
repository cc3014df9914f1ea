------------------------ MODULE GatewayFirmware_proofs ------------------------
(***************************************************************************)
(* Proofs about GatewayFirmware, for any frames, numbers and addresses and *)
(* any size of the queue and of the packet buffer.                         *)
(***************************************************************************)
EXTENDS GatewayFirmware, TLAPS, SequenceTheorems, SetInduction

(***************************************************************************)
(* The shell's numbers.                                                    *)
(***************************************************************************)
\* Remainders, for any modulus: the solver is slow when it is a large number.
LEMMA ModRange ==
    ASSUME NEW m \in Nat \ {0}, NEW v \in Int
    PROVE  v % m \in 0 .. m - 1
BY SMT

\* A number on the command line ends up as 16 bits, which are a PAN.
LEMMA NumberTypes ==
    ASSUME NEW n \in Numerals
    PROVE  /\ Int16(Atoi(n)) \in Int
           /\ Unsigned16(Int16(Atoi(n))) \in Pans
<1>1. Atoi(n) \in Int
    BY NumeralAssumption DEF Atoi
<1>2. ASSUME NEW v \in Int
      PROVE  Int16(v) \in Int /\ Int16(v) >= -32768 /\ Int16(v) < 32768
    <2>1. v + 32768 \in Int /\ Width \in Nat \ {0}
        BY SMT DEF Width
    <2>2. (v + 32768) % Width \in 0 .. Width - 1
        BY <2>1, ModRange
    <2>3. ASSUME NEW r \in 0 .. Width - 1
          PROVE  r - 32768 \in Int /\ r - 32768 >= -32768 /\ r - 32768 < 32768
        BY SMT DEF Width
    <2> QED BY <2>2, <2>3 DEF Int16
<1>3. ASSUME NEW v \in Int, v >= -32768, v < 32768
      PROVE  Unsigned16(v) \in Pans
    <2>1. Width \in Nat /\ Width - 32768 \in Nat
        BY SMT DEF Width
    <2> QED BY <1>3, <2>1, SMT DEF Unsigned16, Pans
<1> QED BY <1>1, <1>2, <1>3

\* The PAN of the motes survives the shell's conversions.
LEMMA MotePanKept ==
    /\ MotePan \in Pans
    /\ Unsigned16(Int16(MotePan)) = MotePan
<1>1. MotePan \in Pans
    BY SMT DEF MotePan, Pans, Width
<1>2. Int16(MotePan) = -4083
    BY SMT DEF Int16, MotePan, Width
<1>3. Unsigned16(-4083) = MotePan
    BY SMT DEF Unsigned16, MotePan, Width
<1> QED BY <1>1, <1>2, <1>3

LEMMA SmallNumber == Int16(11) = 11
BY SMT DEF Int16, Width

\* The script's commands and the interface's settings.
LEMMA ScriptLength == Len(Script) = 4
BY DEF Script

LEMMA FactoryType ==
    Factory \in [chan : Channels, pan : Pans,
                 addr : {0} \cup {a.value : a \in Addresses}, promisc : BOOLEAN]
BY SMT DEF Factory, Channels, Pans, Width

\* The counter of _dump stays a byte.
LEMMA ByteType == ASSUME NEW q \in 0 .. ByteSize - 1
                  PROVE  NextByte(q) \in 0 .. ByteSize - 1
BY HexAssumption DEF NextByte
-----------------------------------------------------------------------------
(***************************************************************************)
(* The inductive invariant: types, the packets in the buffer, the serial   *)
(* line that only the pktdump thread leaves open, and what the commands of *)
(* the script have left in the interface.                                  *)
(***************************************************************************)
Busy == dump \in {"woken", "payload"}

HeldInv == Busy => held \in Frames

LineInv == line = "open" <=> dump = "payload"

QueueInv == dump = "none" => queue = <<>>

\* After each command of the script what it and those before it have set.
ScriptInv ==
    iface =>
        /\ step >= 1 => conf.chan = 11
        /\ step >= 2 => conf.pan = MotePan
        /\ step >= 3 => conf.addr = 1
        /\ step >= 4 => dump # "none"

Inv == TypeOK /\ BufferAccounted /\ HeldInv /\ LineInv /\ QueueInv /\ ScriptInv

LEMMA InvInit == Init => Inv
<1> SUFFICES ASSUME Init PROVE Inv
    OBVIOUS
<1>1. queue \in Seq(Frames) /\ Len(queue) = 0
    BY DEF Init
<1>2. conf \in [chan : Channels, pan : Pans,
                addr : {0} \cup {a.value : a \in Addresses}, promisc : BOOLEAN]
    BY FactoryType DEF Init
<1>3. TypeOK
    <2>1. p \in 0 .. ByteSize - 1 /\ used \in 0 .. PacketBuffers
        BY HexAssumption, QueueAssumption DEF Init
    <2>2. step \in 0 .. Len(Script) /\ Len(queue) <= DumpQueueSize
        <3>1. step = 0 /\ 0 \in 0 .. 4
            BY DEF Init
        <3>2. 0 <= DumpQueueSize
            BY QueueAssumption
        <3> QED BY <1>1, <3>1, <3>2, ScriptLength
    <2> QED BY <1>1, <1>2, <2>1, <2>2 DEF Init, TypeOK
<1> QED BY <1>1, <1>3 DEF Init, Inv, BufferAccounted, HeldInv, Busy, LineInv,
        QueueInv, ScriptInv

\* What a command leaves alone, and its place in the script.
LEMMA FollowsType ==
    ASSUME NEW cmd, Inv, Follows(cmd)
    PROVE  /\ step' \in 0 .. Len(Script)
           /\ \/ step' = 0
              \/ step' = 1 /\ cmd = Script[1]
              \/ step' = step + 1 /\ step < 4 /\ cmd = Script[step']
BY ScriptLength DEF Inv, TypeOK, Follows

\* A command that only changes the interface's settings.
LEMMA CommandStep ==
    ASSUME Inv, NetCommand, UNCHANGED <<dumpVars, line>>,
           step' \in 0 .. Len(Script),
           conf' \in [chan : Channels, pan : Pans,
                      addr : {0} \cup {a.value : a \in Addresses},
                      promisc : BOOLEAN],
           ScriptInv'
    PROVE  Inv'
BY DEF Inv, NetCommand, dumpVars, TypeOK, BufferAccounted, HeldInv, Busy,
       LineInv, QueueInv

LEMMA InvShell == ASSUME Inv, ShellNext PROVE Inv'
<1>0. step \in 0 .. 4
    BY ScriptLength DEF Inv, TypeOK
<1>1. ASSUME NEW n \in Numerals, NetChan(n)
      PROVE  Inv'
    <2> DEFINE cmd == [name |-> "chan", arg |-> n]
               c   == Int16(Atoi(n)) % 256
    <2>1. NetCommand /\ Follows(cmd) /\ UNCHANGED <<dumpVars, line>>
        BY <1>1 DEF NetChan
    <2>2. conf' = IF iface /\ c \in Channels
                  THEN [conf EXCEPT !.chan = c] ELSE conf
        BY <1>1 DEF NetChan
    <2>3. cmd # Script[2] /\ cmd # Script[3] /\ cmd # Script[4]
        BY DEF Script
    <2>4. step' = 0 \/ (step' = 1 /\ cmd = Script[1])
        BY <1>0, <2>1, <2>3, FollowsType
    <2>5. cmd = Script[1] => c = 11
        <3>1. cmd = Script[1] => n = [form |-> "dec", value |-> 11]
            BY DEF Script
        <3> QED BY <3>1, SmallNumber DEF Atoi
    <2>6. conf' \in [chan : Channels, pan : Pans,
                     addr : {0} \cup {a.value : a \in Addresses},
                     promisc : BOOLEAN]
        <3> HIDE DEF c
        <3> QED BY <2>2 DEF Inv, TypeOK
    <2>7. ScriptInv'
        <3>1. iface /\ step' = 1 => conf'.chan = 11
            <4>1. 11 \in Channels
                BY DEF Channels
            <4> HIDE DEF c
            <4> QED BY <2>2, <2>4, <2>5, <4>1 DEF Inv, TypeOK
        <3> QED BY <2>1, <2>4, <3>1 DEF ScriptInv, NetCommand
    <2>8. step' \in 0 .. Len(Script)
        BY <2>1, FollowsType
    <2> QED BY <2>1, <2>6, <2>7, <2>8, CommandStep
<1>2. ASSUME NEW n \in Numerals, NetPan(n)
      PROVE  Inv'
    <2> DEFINE cmd == [name |-> "pan", arg |-> n]
               w   == Unsigned16(Int16(Atoi(n)))
    <2>1. NetCommand /\ Follows(cmd) /\ UNCHANGED <<dumpVars, line>>
        BY <1>2 DEF NetPan
    <2>2. conf' = IF iface THEN [conf EXCEPT !.pan = w] ELSE conf
        BY <1>2 DEF NetPan
    <2>3. cmd # Script[1] /\ cmd # Script[3] /\ cmd # Script[4]
        BY DEF Script
    <2>4. step' = 0 \/ (step' = 2 /\ step = 1 /\ cmd = Script[2])
        BY <1>0, <2>1, <2>3, FollowsType
    <2>5. cmd = Script[2] => w = MotePan
        <3>1. cmd = Script[2] => n = [form |-> "dec", value |-> MotePan]
            BY DEF Script
        <3> QED BY <3>1, MotePanKept DEF Atoi
    <2>6. w \in Pans
        BY NumberTypes
    <2> HIDE DEF w
    <2>7. conf' \in [chan : Channels, pan : Pans,
                     addr : {0} \cup {a.value : a \in Addresses},
                     promisc : BOOLEAN]
        BY <2>2, <2>6 DEF Inv, TypeOK
    <2>8. ScriptInv'
        <3>1. iface /\ step' = 2 => conf'.pan = MotePan /\ conf'.chan = 11
            BY <2>2, <2>4, <2>5 DEF Inv, TypeOK, ScriptInv
        <3> QED BY <2>1, <2>4, <3>1 DEF ScriptInv, NetCommand
    <2>9. step' \in 0 .. Len(Script)
        BY <2>1, FollowsType
    <2> QED BY <2>1, <2>7, <2>8, <2>9, CommandStep
<1>3. ASSUME NEW a \in Addresses, NetAddr(a)
      PROVE  Inv'
    <2> DEFINE cmd == [name |-> "addr", arg |-> a]
    <2>1. NetCommand /\ Follows(cmd) /\ UNCHANGED <<dumpVars, line>>
        BY <1>3 DEF NetAddr
    <2>2. conf' = IF iface /\ a.len = 8
                  THEN [conf EXCEPT !.addr = a.value] ELSE conf
        BY <1>3 DEF NetAddr
    <2>3. cmd # Script[1] /\ cmd # Script[2] /\ cmd # Script[4]
        BY DEF Script
    <2>4. step' = 0 \/ (step' = 3 /\ step = 2 /\ cmd = Script[3])
        BY <1>0, <2>1, <2>3, FollowsType
    <2>5. cmd = Script[3] => a.len = 8 /\ a.value = 1
        BY DEF Script
    <2>6. conf' \in [chan : Channels, pan : Pans,
                     addr : {0} \cup {b.value : b \in Addresses},
                     promisc : BOOLEAN]
        BY <1>3, <2>2 DEF Inv, TypeOK
    <2>7. ScriptInv'
        <3>1. iface /\ step' = 3 =>
                  conf'.addr = 1 /\ conf'.pan = MotePan /\ conf'.chan = 11
            BY <2>2, <2>4, <2>5 DEF Inv, TypeOK, ScriptInv
        <3> QED BY <2>1, <2>4, <3>1 DEF ScriptInv, NetCommand
    <2>8. step' \in 0 .. Len(Script)
        BY <2>1, FollowsType
    <2> QED BY <2>1, <2>6, <2>7, <2>8, CommandStep
<1>4. CASE NetPromisc
    <2>1. /\ NetCommand /\ UNCHANGED <<dumpVars, line>>
          /\ conf' = IF iface THEN [conf EXCEPT !.promisc = TRUE] ELSE conf
          /\ Follows([name |-> "promisc"])
        BY <1>4 DEF NetPromisc
    <2>2. \A i \in 1 .. 4 : [name |-> "promisc"] # Script[i]
        BY DEF Script
    <2>3. step' = 0
        BY <1>0, <2>1, <2>2, FollowsType
    <2>4. conf' \in [chan : Channels, pan : Pans,
                     addr : {0} \cup {a.value : a \in Addresses},
                     promisc : BOOLEAN]
        BY <2>1 DEF Inv, TypeOK
    <2> QED BY <2>1, <2>3, <2>4, CommandStep DEF ScriptInv, Script
<1>5. CASE NetPktdump
    <2>1. /\ NetCommand /\ Follows([name |-> "pktdump"])
          /\ UNCHANGED <<conf, queue, held, p, used>>
          /\ IF iface /\ dump = "none"
             THEN dump' = "receive" /\ line' = "text"
             ELSE UNCHANGED <<dump, line>>
        BY <1>5 DEF NetPktdump
    <2>2. \A i \in 1 .. 3 : [name |-> "pktdump"] # Script[i]
        BY DEF Script
    <2>3. step' = 0 \/ (step' = 4 /\ step = 3)
        BY <1>0, <2>1, <2>2, FollowsType
    <2>4. ScriptInv'
        BY <2>1, <2>3 DEF Inv, ScriptInv, NetCommand
    <2> QED BY <2>1, <2>3, <2>4 DEF Inv, NetCommand, TypeOK, BufferAccounted,
            HeldInv, Busy, LineInv, QueueInv, Script
<1>6. CASE OtherCommand
    <2>1. /\ NetCommand /\ UNCHANGED <<conf, dumpVars, line>>
          /\ Follows([name |-> "other"])
        BY <1>6 DEF OtherCommand
    <2>2. \A i \in 1 .. 4 : [name |-> "other"] # Script[i]
        BY DEF Script
    <2>3. step' = 0
        BY <1>0, <2>1, <2>2, FollowsType
    <2> QED BY <2>1, <2>3, CommandStep DEF Inv, TypeOK, ScriptInv, Script
<1>7. CASE Reply
    BY <1>7 DEF Reply, DumpReady, dumpVars, Inv, TypeOK, BufferAccounted,
       HeldInv, Busy, LineInv, QueueInv, ScriptInv
<1> QED BY <1>1, <1>2, <1>3, <1>4, <1>5, <1>6, <1>7 DEF ShellNext

LEMMA InvArrives ==
    ASSUME Inv, NEW f \in Frames, FrameArrives(f)
    PROVE  Inv'
<1> USE DEF Inv, FrameArrives
<1>1. /\ queue' \in Seq(Frames) /\ Len(queue') <= DumpQueueSize
      /\ used \in Int /\ used' = used + 1 /\ used' \in 0 .. PacketBuffers
    <2>1. queue \in Seq(Frames) /\ Len(queue) <= DumpQueueSize
        BY DEF TypeOK
    <2>2. queue' = queue \/ (Len(queue) < DumpQueueSize /\ queue' = Append(queue, f))
        OBVIOUS
    <2>3. queue' \in Seq(Frames) /\ Len(queue') <= DumpQueueSize
        BY <2>1, <2>2, QueueAssumption
    <2>4. used \in 0 .. PacketBuffers /\ used < PacketBuffers /\ used' = used + 1
        BY DEF TypeOK
    <2> QED BY <2>3, <2>4, QueueAssumption
<1>2. CASE dump = "receive" /\ queue = <<>> /\ dump' = "woken" /\ held' = f
           /\ UNCHANGED queue
    BY <1>1, <1>2 DEF TypeOK, BufferAccounted, HeldInv, Busy, LineInv,
       QueueInv, ScriptInv
<1>3. CASE queue' = Append(queue, f) /\ UNCHANGED <<dump, held>>
    <2>1. Len(queue') = Len(queue) + 1 /\ Len(queue) \in Nat
        <3>1. queue \in Seq(Frames)
            BY DEF TypeOK
        <3> QED BY <1>3, <3>1
    <2> QED BY <1>1, <1>3, <2>1 DEF TypeOK, BufferAccounted, HeldInv, Busy,
            LineInv, QueueInv, ScriptInv
<1> QED BY <1>2, <1>3

LEMMA InvDump == ASSUME Inv, DumpNext PROVE Inv'
<1> USE DEF Inv, TypeOK, BufferAccounted, HeldInv, Busy, LineInv, QueueInv,
            ScriptInv
<1>1. CASE MsgReceive
    <2>1. /\ Head(queue) \in Frames /\ Tail(queue) \in Seq(Frames)
          /\ Len(Tail(queue)) = Len(queue) - 1 /\ Len(queue) \in Nat
        BY <1>1, HeadTailProperties DEF MsgReceive
    <2> QED BY <1>1, <2>1, QueueAssumption DEF MsgReceive
<1>2. CASE DumpOpen
    BY <1>2, HexAssumption DEF DumpOpen
<1>3. CASE DumpByte
    BY <1>3, ByteType DEF DumpByte
<1>4. CASE DumpClose
    <2>1. Len(queue) \in Nat
        OBVIOUS
    <2> QED BY <1>4, <2>1, HexAssumption, QueueAssumption
            DEF DumpClose, DumpReleasing
<1> QED BY <1>1, <1>2, <1>3, <1>4 DEF DumpNext

LEMMA InvStep == Inv /\ [Next]_vars => Inv'
<1> SUFFICES ASSUME Inv, [Next]_vars
             PROVE  Inv'
    OBVIOUS
<1>1. CASE BoardResets
    <2>1. conf' \in [chan : Channels, pan : Pans,
                     addr : {0} \cup {a.value : a \in Addresses},
                     promisc : BOOLEAN]
        BY <1>1, FactoryType DEF BoardResets
    <2>2. queue' \in Seq(Frames) /\ Len(queue') = 0
        BY <1>1 DEF BoardResets
    <2> QED BY <1>1, <2>1, <2>2, HexAssumption, QueueAssumption
            DEF BoardResets, Inv, TypeOK, BufferAccounted, HeldInv, Busy,
                LineInv, QueueInv, ScriptInv, Script
<1>2. CASE UNCHANGED vars
    BY <1>2 DEF vars, dumpVars, Inv, TypeOK, BufferAccounted, HeldInv, Busy,
       LineInv, QueueInv, ScriptInv
<1> QED BY <1>1, <1>2, InvShell, InvArrives, InvDump DEF Next

LEMMA InvAlways == Spec => []Inv
BY InvInit, InvStep, PTL DEF Spec
-----------------------------------------------------------------------------
\* The types of the board's state, with the bound of its queue.
THEOREM TypeCorrect == Spec => []TypeOK
<1>1. Inv => TypeOK
    BY DEF Inv
<1> QED BY <1>1, InvAlways, PTL

\* No packet is leaked or released twice (pktdump.c:86).
THEOREM BufferAccountedHolds == Spec => []BufferAccounted
<1>1. Inv => BufferAccounted
    BY DEF Inv
<1> QED BY <1>1, InvAlways, PTL

\* After the commands of mote-gateway.go the board hears the motes.
THEOREM MotesHeardHolds == Spec => []MotesHeard
<1>1. Inv => MotesHeard
    BY DEF Inv, ScriptInv, MotesHeard, Script, FromMote, Accepts
<1> QED BY <1>1, InvAlways, PTL

\* The board prints each packet in one piece: it implements PacketPrinter.
THEOREM PrinterRefinement == Spec => ImplementsPrinter
<1> USE DEF Printer!PrinterInit, Printer!PrinterNext, Printer!printerVars,
            Printer!StartDumping, Printer!PrintText, Printer!OpenPacket,
            Printer!ClosePacket, Printer!Restart
<1>1. Init => Printer!PrinterInit
    BY DEF Init
<1>2. Inv /\ [Next]_vars => [Printer!PrinterNext]_Printer!printerVars
    <2> SUFFICES ASSUME Inv, [Next]_vars
                 PROVE  [Printer!PrinterNext]_Printer!printerVars
        OBVIOUS
    <2>1. CASE ShellNext
        <3>1. CASE NetPktdump
            BY <3>1 DEF NetPktdump, Inv, LineInv
        <3>2. CASE Reply
            BY <3>2 DEF Reply, DumpReady, dumpVars, Inv, LineInv
        <3>3. CASE UNCHANGED <<dumpVars, line>>
            BY <3>3 DEF dumpVars
        <3> QED BY <2>1, <3>1, <3>2, <3>3
                DEF ShellNext, NetChan, NetPan, NetAddr, NetPromisc, OtherCommand
    <2>2. ASSUME NEW f \in Frames, FrameArrives(f)
          PROVE  [Printer!PrinterNext]_Printer!printerVars
        BY <2>2 DEF FrameArrives
    <2>3. CASE DumpNext
        BY <2>3 DEF DumpNext, MsgReceive, DumpOpen, DumpByte, DumpClose,
           DumpReleasing, Inv, LineInv
    <2>4. CASE BoardResets
        BY <2>4 DEF BoardResets
    <2>5. CASE UNCHANGED vars
        BY <2>5 DEF vars, dumpVars
    <2> QED BY <2>1, <2>2, <2>3, <2>4, <2>5 DEF Next
<1> QED BY <1>1, <1>2, InvAlways, PTL DEF Spec, ImplementsPrinter,
        Printer!PrinterSpec
-----------------------------------------------------------------------------
(***************************************************************************)
(* dump_hex.  HexRun is a recursive function: it exists by RecursionExists *)
(* and what it computes follows by induction on its steps.                 *)
(***************************************************************************)
HexStates ==
    [row : Nat, col : Nat, offset : Nat, read : Seq(Nat), done : BOOLEAN]

\* Remainders and quotients by the width of a row, which is not a number here.
LEMMA NextRemainder ==
    ASSUME NEW m \in Nat \ {0}, NEW c \in 0 .. m - 1
    PROVE  (c + 1) % m = IF c = m - 1 THEN 0 ELSE c + 1
<1>1. CASE c = m - 1
    <2>1. m % m = 0
        BY SMT
    <2> QED BY <1>1, <2>1
<1>2. CASE c # m - 1
    <2>1. c + 1 \in 0 .. m - 1
        BY <1>2
    <2>2. ASSUME NEW r \in 0 .. m - 1
          PROVE  r % m = r
        BY SMT
    <2> QED BY <1>2, <2>1, <2>2
<1> QED BY <1>1, <1>2

LEMMA RowsBelow ==
    ASSUME NEW m \in Nat \ {0}, NEW n \in Nat, NEW r \in Nat, r * m <= n
    PROVE  r <= n \div m
<1> DEFINE q == n \div m
<1>1. q \in Nat /\ n < q * m + m
    BY SMT
<1> HIDE DEF q
<1>2. SUFFICES ASSUME r >= q + 1
      PROVE  FALSE
    BY <1>1 DEF q
<1>3. (q + 1) * m <= r * m
    BY <1>1, <1>2, SMT
<1>4. (q + 1) * m = q * m + m
    BY <1>1, SMT
<1> QED BY <1>1, <1>3, <1>4, SMT

LEMMA HexStartType == HexStart \in HexStates
BY EmptySeq DEF HexStart, HexStates

LEMMA IndexType ==
    ASSUME NEW r \in Nat, NEW m \in Nat, NEW c \in Nat
    PROVE  r * m + c \in Nat
<1>1. r * m \in Nat
    BY SMT
<1> QED BY <1>1

LEMMA HexStepType ==
    ASSUME NEW s \in HexStates, NEW size \in Nat
    PROVE  HexStep(s, size) \in HexStates
<1>1. CASE s.done \/ s.offset >= size \/ s.row > size \div PerRow
    BY <1>1 DEF HexStep, HexStates
<1>2. CASE ~(s.done \/ s.offset >= size \/ s.row > size \div PerRow)
    <2>1. s.row \in Nat /\ s.col \in Nat /\ s.offset \in Nat /\ s.read \in Seq(Nat)
        BY DEF HexStates
    <2>2. ASSUME NEW q \in Nat
          PROVE  NextByte(q) \in Nat /\ (q + 1) % PerRow \in Nat
        BY HexAssumption DEF NextByte
    <2>3. s.row * PerRow + s.col \in Nat
        BY <2>1, HexAssumption, IndexType
    <2>4. Append(s.read, s.row * PerRow + s.col) \in Seq(Nat)
        BY <2>1, <2>3, AppendProperties
    <2> QED BY <1>2, <2>1, <2>2, <2>4 DEF HexStep, HexStates
<1> QED BY <1>1, <1>2

LEMMA HexRunIs ==
    ASSUME NEW size \in Nat, NEW n \in Nat
    PROVE  \E run \in [0 .. n -> HexStates] :
                /\ HexRun(size, n) = run[n]
                /\ run[0] = HexStart
                /\ \A k \in 0 .. n - 1 : run[k + 1] = HexStep(run[k], size)
<1> DEFINE Fits(run) ==
        run = [k \in 0 .. n |->
                  IF k = 0 THEN HexStart ELSE HexStep(run[k - 1], size)]
           next == [ks \in Nat \X HexStates |-> HexStep(ks[2], size)]
<1>1. next \in Steps(HexStates)
    BY HexStepType DEF Steps
<1>2. PICK f : Iterates(f, HexStates, HexStart, next, n)
    <2> HIDE DEF next
    <2> QED BY <1>1, HexStartType, RecursionExists
<1>3. Fits(f)
    <2>1. ASSUME NEW k \in 0 .. n
          PROVE  f[k] = IF k = 0 THEN HexStart ELSE HexStep(f[k - 1], size)
        <3>1. CASE k = 0
            BY <1>2, <3>1 DEF Iterates
        <3>2. CASE k \in 1 .. n
            <4>1. <<k, f[k - 1]>> \in Nat \X HexStates
                BY <1>2, <3>2 DEF Iterates
            <4>2. f[k] = next[<<k, f[k - 1]>>]
                BY <1>2, <3>2 DEF Iterates
            <4> QED BY <3>2, <4>1, <4>2
        <3> QED BY <3>1, <3>2
    <2>2. f = [k \in 0 .. n |-> f[k]]
        BY <1>2 DEF Iterates
    <2> QED BY <2>1, <2>2
<1> DEFINE run == CHOOSE r : Fits(r)
<1>4. Fits(run)
    BY <1>3, Zenon
<1>5. HexRun(size, n) = run[n]
    BY DEF HexRun
<1> HIDE DEF run
<1>6. \A k \in 0 .. n :
        run[k] = IF k = 0 THEN HexStart ELSE HexStep(run[k - 1], size)
    BY <1>4
<1>7. run[0] = HexStart /\ DOMAIN run = 0 .. n
    BY <1>4
<1>8. ASSUME NEW k \in 0 .. n - 1
      PROVE  run[k + 1] = HexStep(run[k], size)
    <2>1. k + 1 \in 0 .. n /\ k + 1 # 0 /\ (k + 1) - 1 = k
        OBVIOUS
    <2> QED BY <1>6, <2>1
<1>9. 0 .. n \subseteq {k \in 0 .. n : run[k] \in HexStates}
    <2> DEFINE T == {k \in 0 .. n : run[k] \in HexStates}
    <2>1. 0 \in T
        BY <1>7, HexStartType
    <2>2. ASSUME NEW k \in 0 .. n - 1, k \in T
          PROVE  k + 1 \in T
        BY <1>8, <2>2, HexStepType
    <2> HIDE DEF T
    <2>3. 0 .. n \subseteq T
        BY <2>1, <2>2, BoundedInduction
    <2> QED BY <2>3 DEF T
<1>10. run = [k \in 0 .. n |-> run[k]]
    BY <1>4
<1> QED BY <1>5, <1>7, <1>8, <1>9, <1>10

\* Before its k-th step dump_hex has read the first k bytes, and none of its
\* counters has wrapped.
HexLoop(s, k) ==
    /\ s.offset = k /\ s.row * PerRow + s.col = k
    /\ s.col \in 0 .. PerRow - 1
    /\ s.done = FALSE
    /\ Len(s.read) = k
    /\ \A i \in 1 .. k : s.read[i] = i - 1

LEMMA HexLoopStart == HexLoop(HexStart, 0)
BY HexAssumption DEF HexLoop, HexStart

\* The byte's increment does not wrap below ByteSize.
LEMMA NextByteBelow ==
    ASSUME NEW q \in Nat, q + 1 < ByteSize
    PROVE  NextByte(q) = q + 1
<1>1. ByteSize \in Nat \ {0} /\ q \in 0 .. ByteSize - 1 /\ q # ByteSize - 1
    BY HexAssumption
<1> QED BY <1>1, NextRemainder DEF NextByte

\* Where a position is in its row.
LEMMA RowFacts ==
    ASSUME NEW r \in Nat, NEW m \in Nat \ {0}, NEW c \in 0 .. m - 1
    PROVE  /\ r * m \in Nat /\ r <= r * m + c
           /\ (r + 1) * m + 0 = (r * m + (m - 1)) + 1
<1>1. r * m \in Nat
    BY SMT
<1>2. r <= r * m
    <2>1. r * 1 <= r * m
        BY SMT
    <2> QED BY <2>1, SMT
<1>3. (r + 1) * m = r * m + m
    BY SMT
<1> QED BY <1>1, <1>2, <1>3, SMT

LEMMA HexLoopStep ==
    ASSUME NEW size \in 0 .. ByteSize - 1, NEW s \in HexStates,
           NEW k \in 0 .. size - 1, HexLoop(s, k)
    PROVE  HexLoop(HexStep(s, size), k + 1)
<1> DEFINE t == HexStep(s, size)
<1>1. /\ s.row \in Nat /\ s.col \in Nat /\ s.offset \in Nat
      /\ s.read \in Seq(Nat) /\ s.done = FALSE
      /\ PerRow \in Nat \ {0} /\ ByteSize \in Nat \ {0}
      /\ size \in Nat /\ k \in Nat /\ k + 1 <= size
    BY HexAssumption DEF HexStates, HexLoop
<1>2. /\ s.offset = k /\ s.row * PerRow + s.col = k
      /\ s.col \in 0 .. PerRow - 1 /\ Len(s.read) = k
      /\ \A i \in 1 .. k : s.read[i] = i - 1
    BY DEF HexLoop
<1>3. /\ s.row * PerRow \in Nat /\ s.row <= k /\ s.row * PerRow <= size
      /\ (s.row + 1) * PerRow + 0 = (s.row * PerRow + (PerRow - 1)) + 1
    <2> DEFINE x == s.row * PerRow
    <2>1. /\ x \in Nat /\ s.row <= x + s.col
          /\ (s.row + 1) * PerRow + 0 = (x + (PerRow - 1)) + 1
        BY <1>1, <1>2, RowFacts
    <2>2. x + s.col = k
        BY <1>2
    <2> HIDE DEF x
    <2>3. s.row <= k /\ x <= size
        BY <1>1, <1>2, <2>1, <2>2
    <2> QED BY <2>1, <2>3 DEF x
<1>4. ~(s.done \/ s.offset >= size \/ s.row > size \div PerRow)
    <2>1. s.row <= size \div PerRow
        BY <1>1, <1>3, RowsBelow
    <2>2. size \div PerRow \in Int
        BY <1>1, SMT
    <2> QED BY <1>1, <1>2, <2>1, <2>2
<1>5. NextByte(s.row) = s.row + 1 /\ NextByte(s.offset) = k + 1
    <2>1. s.row + 1 < ByteSize /\ s.offset + 1 < ByteSize
        BY <1>1, <1>2, <1>3
    <2> QED BY <1>1, <1>2, <2>1, NextByteBelow
<1>6. (s.col + 1) % PerRow = IF s.col = PerRow - 1 THEN 0 ELSE s.col + 1
    BY <1>1, <1>2, NextRemainder
<1>7. t = [s EXCEPT !.read = Append(s.read, k),
                    !.col = IF s.col = PerRow - 1 THEN 0 ELSE s.col + 1,
                    !.row = IF s.col = PerRow - 1 THEN s.row + 1 ELSE s.row,
                    !.offset = k + 1]
    BY <1>2, <1>4, <1>5, <1>6, Zenon DEF HexStep
<1>8. /\ t.read = Append(s.read, k) /\ t.offset = k + 1 /\ t.done = FALSE
      /\ t.col = IF s.col = PerRow - 1 THEN 0 ELSE s.col + 1
      /\ t.row = IF s.col = PerRow - 1 THEN s.row + 1 ELSE s.row
    BY <1>1, <1>7 DEF HexStates
<1> HIDE DEF t
<1>9. t.row * PerRow + t.col = k + 1 /\ t.col \in 0 .. PerRow - 1
    <2>1. CASE s.col = PerRow - 1
        <3>1. t.row = s.row + 1 /\ t.col = 0
            BY <1>8, <2>1
        <3> DEFINE x == s.row * PerRow
                   y == t.row * PerRow
        <3>2. x \in Nat /\ x + (PerRow - 1) = k
            BY <1>2, <1>3, <2>1
        <3>3. y + 0 = (x + (PerRow - 1)) + 1 /\ y \in Int
            BY <1>1, <1>3, <3>1
        <3> HIDE DEF x, y
        <3>4. y + t.col = k + 1
            BY <1>1, <3>1, <3>2, <3>3
        <3> QED BY <1>1, <3>1, <3>4 DEF y
    <2>2. CASE s.col # PerRow - 1
        <3>1. t.row = s.row /\ t.col = s.col + 1
            BY <1>8, <2>2
        <3> DEFINE x == s.row * PerRow
                   y == t.row * PerRow
        <3>2. x \in Nat /\ x + s.col = k /\ y = x
            BY <1>2, <1>3, <3>1
        <3> HIDE DEF x, y
        <3>3. y + t.col = k + 1
            BY <1>1, <3>1, <3>2
        <3>4. t.col \in 0 .. PerRow - 1
            <4>1. s.col \in 0 .. PerRow - 1 /\ PerRow \in Nat
                BY <1>1, <1>2
            <4> QED BY <2>2, <3>1, <4>1
        <3> QED BY <3>3, <3>4 DEF y
    <2> QED BY <2>1, <2>2
<1>10. Len(t.read) = k + 1 /\ \A i \in 1 .. k + 1 : t.read[i] = i - 1
    <2>1. /\ Len(t.read) = k + 1 /\ t.read[k + 1] = k
          /\ \A i \in 1 .. k : t.read[i] = s.read[i]
        <3>1. /\ Len(Append(s.read, k)) = Len(s.read) + 1
              /\ \A i \in 1 .. Len(s.read) : Append(s.read, k)[i] = s.read[i]
              /\ Append(s.read, k)[Len(s.read) + 1] = k
            BY <1>1, AppendProperties
        <3> QED BY <1>2, <1>8, <3>1
    <2>2. \A i \in 1 .. k + 1 : i \in 1 .. k \/ i = k + 1
        BY <1>1
    <2> QED BY <1>1, <1>2, <2>1, <2>2
<1> QED BY <1>8, <1>9, <1>10 DEF HexLoop, t

\* dump_hex reads every byte of a buffer once and in order.
LEMMA HexDumpReads ==
    ASSUME NEW size \in 0 .. ByteSize - 1
    PROVE  LET s == HexRun(size, size + 1)
           IN  s.done /\ s.read = [i \in 1 .. size |-> i - 1]
<1>1. size \in Nat /\ size + 1 \in Nat
    BY HexAssumption
<1>2. PICK run \in [0 .. size + 1 -> HexStates] :
        /\ HexRun(size, size + 1) = run[size + 1]
        /\ run[0] = HexStart
        /\ \A k \in 0 .. (size + 1) - 1 : run[k + 1] = HexStep(run[k], size)
    BY <1>1, HexRunIs
<1>3. HexLoop(run[size], size)
    <2> DEFINE T == {k \in 0 .. size : HexLoop(run[k], k)}
    <2>1. 0 \in T
        BY <1>1, <1>2, HexLoopStart
    <2>2. ASSUME NEW k \in 0 .. size - 1, k \in T
          PROVE  k + 1 \in T
        <3>1. run[k] \in HexStates /\ run[k + 1] = HexStep(run[k], size)
            BY <1>1, <1>2
        <3>2. HexLoop(run[k], k) /\ k + 1 \in 0 .. size
            BY <1>1, <2>2
        <3>3. HexLoop(run[k + 1], k + 1)
            BY <3>1, <3>2, HexLoopStep
        <3> QED BY <3>2, <3>3
    <2> HIDE DEF T
    <2>3. 0 .. size \subseteq T
        BY <1>1, <2>1, <2>2, BoundedInduction
    <2>4. size \in T
        BY <1>1, <2>3
    <2> QED BY <2>4 DEF T
<1> DEFINE s == run[size]
           t == run[size + 1]
<1>4. /\ s \in HexStates /\ t = HexStep(s, size)
      /\ s.offset = size /\ Len(s.read) = size
      /\ \A i \in 1 .. size : s.read[i] = i - 1
    BY <1>1, <1>2, <1>3 DEF HexLoop
<1> HIDE DEF s, t
<1>5. t = [s EXCEPT !.done = TRUE]
    BY <1>1, <1>4 DEF HexStep
<1>6. t.done /\ t.read = s.read /\ s.read \in Seq(Nat)
    BY <1>4, <1>5 DEF HexStates
<1>7. s.read = [i \in 1 .. size |-> i - 1]
    <2>1. s.read \in [1 .. size -> Nat]
        BY <1>4, <1>6, LenProperties
    <2> QED BY <1>4, <2>1
<1> QED BY <1>2, <1>6, <1>7 DEF t

\* dump_hex reads each byte of a buffer that is shorter than ByteSize once, in
\* order, and no other, for any width of a byte and of a row (myutils.c:36-60).
THEOREM HexDumpExactHolds == Spec => []HexDumpExact
<1>1. HexDumpExact
    BY HexDumpReads DEF HexDumpExact
<1> QED BY <1>1, PTL
-----------------------------------------------------------------------------
(***************************************************************************)
(* The loop of _dump, whose counter is a byte too.                         *)
(***************************************************************************)
\* The loop's counter takes every value of a byte without ever failing its
\* test exactly for the sizes from ByteSize on: the sizes that FrameAssumption
\* admits are all those whose dump ends (pktdump.c:64-66).
THEOREM DumpLimit ==
    ASSUME NEW size \in Nat
    PROVE  (\A q \in 0 .. ByteSize - 1 : MoreBytes(q, size)) <=> size >= ByteSize
<1>1. ByteSize \in Nat /\ ByteSize - 1 \in 0 .. ByteSize - 1
    BY HexAssumption
<1> QED BY <1>1 DEF MoreBytes

\* Every byte that is printed moves the counter of _dump one on and never past
\* the packet's size: it does not wrap, so the bytes left to print bound the
\* steps to the end of the packet (pktdump.c:64-66).
THEOREM DumpAdvances ==
    Spec => [][DumpByte => p' = p + 1 /\ p' <= held.size]_vars
<1>1. ASSUME Inv, DumpByte
      PROVE  p' = p + 1 /\ p' <= held.size
    <2>1. /\ p \in Nat /\ p < held.size /\ p' = NextByte(p)
          /\ ByteSize \in Nat \ {0}
        BY <1>1, HexAssumption DEF DumpByte, MoreBytes, Inv, TypeOK
    <2>2. held.size \in Nat /\ held.size <= ByteSize - 1
        BY <1>1, <2>1, FrameAssumption DEF Inv, TypeOK, NoFrame
    <2>3. p + 1 < ByteSize
        BY <2>1, <2>2
    <2>4. p' = p + 1
        BY <2>1, <2>3, NextByteBelow
    <2> QED BY <2>1, <2>2, <2>4
<1>2. Inv /\ [Next]_vars => [DumpByte => p' = p + 1 /\ p' <= held.size]_vars
    BY <1>1
<1> QED BY <1>2, InvAlways, PTL DEF Spec
=============================================================================
