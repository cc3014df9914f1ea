---------------------------- MODULE GatewayFirmware ----------------------------
(***************************************************************************)
(* The gateway board: mote-gateway/hard (main.c, pktdump.c).  A shell      *)
(* takes commands from the serial line and sets up the radio; a pktdump    *)
(* thread prints the packets that the radio receives on the same line.     *)
(* The network stack (above both) receives frames at any time; the         *)
(* pktdump thread has priority over the shell, which runs in main.  The    *)
(* blinking thread neither prints nor shares anything.                     *)
(***************************************************************************)
EXTENDS Integers, Sequences, HexDump

CONSTANTS
    Frames,         \* frames on the air: channel, PAN, destination and size
    Numerals,       \* numbers a command may be given, and how they are written
    Addresses,      \* addresses likewise: length (0 if malformed) and value
    DumpQueueSize,  \* GNRC_PKTDUMP_MSG_QUEUE_SIZE (8)
    PacketBuffers   \* packets that fit GNRC_PKTBUF_SIZE

ASSUME FrameAssumption ==
    \A f \in Frames : f.size \in 0 .. ByteSize - 1
ASSUME NumeralAssumption == \A n \in Numerals : n.value \in Nat
ASSUME QueueAssumption == DumpQueueSize \in Nat /\ PacketBuffers \in Nat

VARIABLES
    iface,    \* gnrc_netif_iter finds an interface
    conf,     \* the interface's channel, PAN, address and promiscuous mode
    shell,    \* the shell waits for a line or prints a reply
    step,     \* history: commands of the script run since the board started
    dump,     \* where the pktdump thread is, "none" before it is created
    queue,    \* packets queued for it
    held,     \* the packet it has in its hands
    p,        \* the loop counter of _dump
    used,     \* packets in the packet buffer
    line      \* the serial line: "open" inside a packet, else what ended last

dumpVars == <<dump, queue, held, p, used>>
vars     == <<iface, conf, shell, step, dumpVars, line>>

NoFrame == [size |-> 0]
Factory == [chan |-> 26, pan |-> 35, addr |-> 0, promisc |-> FALSE]

\* Faulty variant: the shell does not yield to the pktdump thread.
DumpReadyNoPriority == FALSE

DumpReady ==
    \/ dump \in {"woken", "payload"}
    \/ dump = "receive" /\ queue # <<>>
-----------------------------------------------------------------------------
(***************************************************************************)
(* The shell.                                                              *)
(***************************************************************************)
\* atoi stops at the x of a hexadecimal number; an int16_t takes 16 bits of
\* what it returns, and the driver takes them for the PAN, and the lowest 8
\* for a channel if they are one.
Atoi(n)    == IF n.form = "hex" THEN 0 ELSE n.value
Width      == 65536     \* values of 16 bits
Int16(v)   == ((v + 32768) % Width) - 32768
Unsigned16(v) == IF v < 0 THEN v + Width ELSE v
Channels   == 11 .. 26
Pans       == 0 .. Width - 1
MotePan    == 61453     \* 0xF00D, which net_config of the motes sets

NetCommand == shell = "idle" /\ ~DumpReady /\ shell' = "reply" /\ UNCHANGED iface

\* What mote-gateway.go writes when it starts, and hard/README.md advises.
Script == << [name |-> "chan", arg |-> [form |-> "dec", value |-> 11]],
             [name |-> "pan", arg |-> [form |-> "dec", value |-> MotePan]],
             [name |-> "addr", arg |-> [len |-> 8, value |-> 1]],
             [name |-> "pktdump"] >>

Follows(cmd) ==
    step' = IF step < Len(Script) /\ Script[step + 1] = cmd THEN step + 1
            ELSE IF cmd = Script[1] THEN 1 ELSE 0

NetChan(n) ==
    /\ NetCommand /\ Follows([name |-> "chan", arg |-> n])
    /\ LET c == Int16(Atoi(n)) % 256
       IN  conf' = IF iface /\ c \in Channels
                   THEN [conf EXCEPT !.chan = c] ELSE conf
    /\ UNCHANGED <<dumpVars, line>>

\* Faulty variant: the PAN goes through a signed byte more than it should.
NetPanByte(n) ==
    /\ NetCommand /\ Follows([name |-> "pan", arg |-> n])
    /\ conf' = IF iface THEN [conf EXCEPT !.pan = Atoi(n) % 256] ELSE conf
    /\ UNCHANGED <<dumpVars, line>>

NetPan(n) ==
    /\ NetCommand /\ Follows([name |-> "pan", arg |-> n])
    /\ conf' = IF iface
               THEN [conf EXCEPT !.pan = Unsigned16(Int16(Atoi(n)))] ELSE conf
    /\ UNCHANGED <<dumpVars, line>>

\* The driver refuses an address that is not a long one.
NetAddr(a) ==
    /\ NetCommand /\ Follows([name |-> "addr", arg |-> a])
    /\ conf' = IF iface /\ a.len = 8 THEN [conf EXCEPT !.addr = a.value] ELSE conf
    /\ UNCHANGED <<dumpVars, line>>

NetPromisc ==
    /\ NetCommand /\ Follows([name |-> "promisc"])
    /\ conf' = IF iface THEN [conf EXCEPT !.promisc = TRUE] ELSE conf
    /\ UNCHANGED <<dumpVars, line>>

\* gnrc_pktdump_init creates the thread once; it runs at once, registers for
\* packets and greets.
NetPktdump ==
    /\ NetCommand /\ Follows([name |-> "pktdump"])
    /\ IF iface /\ dump = "none"
       THEN dump' = "receive" /\ line' = "text"
       ELSE UNCHANGED <<dump, line>>
    /\ UNCHANGED <<conf, queue, held, p, used>>

\* net info, help, about, reboot (which does nothing) and unknown commands.
OtherCommand ==
    /\ NetCommand /\ Follows([name |-> "other"])
    /\ UNCHANGED <<conf, dumpVars, line>>

Reply ==
    /\ shell = "reply" /\ ~DumpReady
    /\ shell' = "idle" /\ line' = "text"
    /\ UNCHANGED <<iface, conf, step, dumpVars>>

ShellNext ==
    \/ \E n \in Numerals : NetChan(n) \/ NetPan(n)
    \/ \E a \in Addresses : NetAddr(a)
    \/ NetPromisc \/ NetPktdump \/ OtherCommand \/ Reply
-----------------------------------------------------------------------------
(***************************************************************************)
(* Reception by the network stack, which hands a packet to a registered    *)
(* thread that waits, queues it, or releases it when it cannot.            *)
(***************************************************************************)
Accepts(f) ==
    /\ f.chan = conf.chan
    /\ conf.promisc \/ (f.pan = conf.pan /\ f.dst = conf.addr)

FrameArrives(f) ==
    /\ iface /\ Accepts(f)
    /\ dump # "none" /\ used < PacketBuffers
    /\ \/ /\ dump = "receive" /\ queue = <<>>
          /\ dump' = "woken" /\ held' = f /\ UNCHANGED queue
       \/ /\ dump # "receive" \/ queue # <<>>
          /\ Len(queue) < DumpQueueSize
          /\ queue' = Append(queue, f) /\ UNCHANGED <<dump, held>>
    /\ used' = used + 1
    /\ UNCHANGED <<iface, conf, shell, step, p, line>>
-----------------------------------------------------------------------------
(***************************************************************************)
(* The pktdump thread.                                                     *)
(***************************************************************************)
MsgReceive ==
    /\ dump = "receive" /\ queue # <<>>
    /\ dump' = "woken" /\ held' = Head(queue) /\ queue' = Tail(queue)
    /\ UNCHANGED <<iface, conf, shell, step, p, used, line>>

\* _dump: <PAYLOAD= and the bytes of the payload, then the rest and >.
DumpOpen ==
    /\ dump = "woken" /\ dump' = "payload"
    /\ p' = 0 /\ line' = "open"
    /\ UNCHANGED <<iface, conf, shell, step, queue, held, used>>

DumpByte ==
    /\ dump = "payload" /\ MoreBytes(p, held.size)
    /\ p' = NextByte(p)
    /\ UNCHANGED <<iface, conf, shell, step, dump, queue, held, used, line>>

\* The end of _dump, with a number of calls of gnrc_pktbuf_release.
DumpReleasing(releases) ==
    /\ dump = "payload" /\ ~MoreBytes(p, held.size)
    /\ dump' = "receive" /\ held' = NoFrame /\ p' = 0
    /\ line' = "packet"
    /\ used' = used - releases
    /\ UNCHANGED <<iface, conf, shell, step, queue>>

\* Faulty variants: the packet is not released, or once per snip.
DumpCloseLeaking == DumpReleasing(0)
DumpCloseTwice   == DumpReleasing(2)

DumpClose == DumpReleasing(1)

\* _eventloop has cases for packets to be sent, for options (GET and SET) and for
\* other messages (pktdump.c:120-130).  Nothing in this firmware sends the thread
\* any: it registers for received packets only, and no command talks to it.
DumpNext == MsgReceive \/ DumpOpen \/ DumpByte \/ DumpClose
-----------------------------------------------------------------------------
Init ==
    /\ iface \in BOOLEAN /\ conf = Factory
    /\ shell = "idle" /\ step = 0
    /\ dump = "none" /\ queue = <<>> /\ held = NoFrame /\ p = 0 /\ used = 0
    /\ line = "text"

\* A reset by its button or its supply.
BoardResets ==
    /\ conf' = Factory /\ shell' = "idle" /\ step' = 0
    /\ dump' = "none" /\ queue' = <<>> /\ held' = NoFrame /\ p' = 0 /\ used' = 0
    /\ line' = "text"
    /\ UNCHANGED iface

Next ==
    \/ ShellNext \/ DumpNext \/ BoardResets
    \/ \E f \in Frames : FrameArrives(f)

Spec == Init /\ [][Next]_vars

\* The pktdump thread has the processor whenever it is ready.
FairSpec == Spec /\ WF_vars(DumpNext)
-----------------------------------------------------------------------------
(***************************************************************************)
(* Properties.                                                             *)
(***************************************************************************)
\* Every variable has its type.
TypeOK ==
    /\ iface \in BOOLEAN
    /\ conf \in [chan : Channels, pan : Pans,
                 addr : {0} \cup {a.value : a \in Addresses}, promisc : BOOLEAN]
    /\ shell \in {"idle", "reply"} /\ step \in 0 .. Len(Script)
    /\ dump \in {"none", "receive", "woken", "payload"}
    /\ queue \in Seq(Frames) /\ Len(queue) <= DumpQueueSize
    /\ held \in Frames \cup {NoFrame}
    /\ p \in 0 .. ByteSize - 1
    /\ used \in 0 .. PacketBuffers
    /\ line \in {"text", "packet", "open"}

\* Every packet in the packet buffer is queued or in the thread's hands: what
\* is printed is released once, and what is not accepted never stays
\* (gnrc_pktbuf_release at pktdump.c:86).
BufferAccounted ==
    used = Len(queue) + (IF dump \in {"woken", "payload"} THEN 1 ELSE 0)

\* A frame as the motes send them (net_config and data_tx of the motes).
FromMote(f) == f.chan = 11 /\ f.pan = MotePan /\ f.dst = 1

\* Once the commands of mote-gateway.go have run, undisturbed since the board
\* started, the board receives and prints what the motes send: the PAN's
\* decimal survives atoi and an int16_t (main.c:201).
MotesHeard ==
    iface /\ step = Len(Script) =>
        dump # "none" /\ \A f \in Frames : FromMote(f) => Accepts(f)

Printer == INSTANCE PacketPrinter WITH dumping <- dump # "none"

\* The board implements PacketPrinter: no output of the shell comes between
\* the two ends of a packet, which the server's regular expression relies on.
ImplementsPrinter == Printer!PrinterSpec

\* A packet that is printed gets to its end, up to the longest one that a
\* counter of one byte can count (pktdump.c:64-66).
DumpsEnd == (dump = "payload") ~> (dump # "payload")

\* dump_hex reads each byte of a buffer once, in order and no other, although
\* its counters are bytes; from ByteSize on it would not (myutils.c:36-60).
HexDumpExact ==
    \A size \in 0 .. ByteSize - 1 :
        LET s == HexRun(size, size + 1)
        IN  s.done /\ s.read = [i \in 1 .. size |-> i - 1]

\* "net pan 0xXXXX  Set pan id to 0xXXXX" (main.c:238).  The code does not do
\* so: see the README.
PanAsDocumented ==
    [][\A n \in Numerals :
          n.form = "hex" /\ iface /\ NetPan(n) => conf'.pan = n.value]_vars
=============================================================================
