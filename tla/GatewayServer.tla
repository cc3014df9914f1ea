---------------------------- MODULE GatewayServer ---------------------------
(***************************************************************************)
(* The Linux side of the gateway: mote-gateway/soft/mote-gateway.go.       *)
(*                                                                         *)
(*   - the gateway board prints every radio packet it receives on a serial *)
(*     line, as <PAYLOAD=...>, once it was told to (net pktdump);          *)
(*   - the serialworker goroutine configures the board, reads the line,    *)
(*     cuts packets out of what it has read and sends them on a channel    *)
(*     without a buffer;                                                   *)
(*   - the main goroutine receives a packet, decodes it, appends it to a   *)
(*     list and writes the list to InfluxDB, oldest first, until a write   *)
(*     fails.                                                              *)
(*                                                                         *)
(* The serial line is a sequence of pieces.  A packet is an "open" piece   *)
(* (from <PAYLOAD= to the middle of the packet) and a "close" piece (the   *)
(* rest, with > and a newline).  A "prompt" is text with a > that does not *)
(* end its line (the board's shell).  Other text between packets is not a  *)
(* piece, for it has no > and no packet depends on where it comes: it only *)
(* makes a read return.                                                    *)
(***************************************************************************)
EXTENDS InfluxDB, Sequences, SequencesExt

CONSTANTS
    Sender,     \* SMAC of each packet
    FieldsOf,   \* fields of each packet: the names in its payload, RSSI, LQI
    LinkFields, \* RSSI and LQI, which main adds to every packet
    Refused,    \* packets InfluxDB never takes: NewPoint or Write always fails
    TtySize     \* pieces the kernel keeps for a reader that is busy

ASSUME PacketAssumption == Refused \subseteq Packets /\ None \notin Packets
ASSUME ContentAssumption ==
    /\ Sender \in [Packets -> Motes]
    /\ FieldsOf \in [Packets -> SUBSET Fields]
    /\ LinkFields \subseteq Fields
ASSUME TtyAssumption == TtySize \in Nat \ {0} /\ MaxClock \in Nat

Open(p)  == [kind |-> "open", pkt |-> p]
Close(p) == [kind |-> "close", pkt |-> p]
Prompt   == [kind |-> "prompt", pkt |-> None]
Pieces   == [kind : {"open", "close"}, pkt : Packets] \cup {Prompt}

NoPoint == [pkt |-> None]

VARIABLES
    dumping,    \* the board prints the packets it receives
    printing,   \* the packet the board is in the middle of, or None
    printed,    \* history: the packets printed to the end, in order
    tty,        \* pieces on the serial line that were not read
    text,       \* other text on the line was not read
    up,         \* the server runs
    urlValid,   \* influx_url is one that NewHTTPClient takes
    workerPc,   \* where serialworker is
    buftotal,   \* what it has read and not cut
    pkt,        \* the packet it sends on the channel
    mainPc,     \* where main is
    ps,         \* the list of packets to write
    influxUp,   \* InfluxDB answers
    db,         \* what InfluxDB holds
    written,    \* history: points written, in the order of their first write
    clock,      \* time.Now(), in seconds
    overflowed, \* history: the kernel's buffer lost pieces so far
    lossy       \* history: pieces or packets were lost so far, by any cause

boardVars  == <<dumping, printing, printed>>
workerVars == <<workerPc, buftotal, pkt>>
mainVars   == <<mainPc, ps>>
envVars    == <<urlValid, influxUp, clock>>
losses     == <<overflowed, lossy>>
lineVars   == <<tty, text>>
dbVars     == <<db, written>>
vars == <<boardVars, lineVars, up, workerVars, mainVars, envVars, dbVars,
          losses>>
-----------------------------------------------------------------------------
(***************************************************************************)
(* The board and the kernel's serial buffer, outside the program.          *)
(***************************************************************************)
PortOpen == up /\ workerPc # "open"

\* Nobody reads a port that is not open; a full buffer loses what arrives.
Arrives(piece) ==
    IF PortOpen /\ Len(tty) < TtySize
    THEN tty' = Append(tty, piece) /\ UNCHANGED losses
    ELSE /\ UNCHANGED tty
         /\ overflowed' = (overflowed \/ PortOpen)
         /\ lossy' = TRUE

PrintOpen(p) ==
    /\ dumping /\ printing = None
    /\ p \notin ToSet(printed)
    /\ Arrives(Open(p))
    /\ printing' = p
    /\ UNCHANGED <<dumping, printed, text, up, workerVars, mainVars, envVars,
                   dbVars>>

PrintClose ==
    /\ printing # None
    /\ Arrives(Close(printing))
    /\ printed' = Append(printed, printing)
    /\ printing' = None
    /\ UNCHANGED <<dumping, text, up, workerVars, mainVars, envVars, dbVars>>

PrintText ==
    /\ PortOpen /\ printing = None
    /\ text' = TRUE
    /\ UNCHANGED <<boardVars, tty, up, workerVars, mainVars, envVars, dbVars,
                   losses>>

\* The board restarts, possibly inside a packet: it greets with a prompt and
\* no longer dumps packets until it is told to.
BoardResets ==
    /\ dumping
    /\ dumping' = FALSE /\ printing' = None
    /\ tty' = IF PortOpen /\ Len(tty) < TtySize
              THEN Append(tty, Prompt) ELSE tty
    /\ overflowed' = (overflowed \/ (PortOpen /\ Len(tty) = TtySize))
    /\ lossy' = TRUE
    /\ UNCHANGED <<printed, text, up, workerVars, mainVars, envVars, dbVars>>

InfluxChanges ==
    /\ influxUp' = ~influxUp
    /\ UNCHANGED <<boardVars, lineVars, up, workerVars, mainVars, urlValid,
                   clock, dbVars, losses>>

Tick ==
    /\ clock < MaxClock
    /\ clock' = clock + 1
    /\ UNCHANGED <<boardVars, lineVars, up, workerVars, mainVars, urlValid,
                   influxUp, dbVars, losses>>
-----------------------------------------------------------------------------
(***************************************************************************)
(* The process.  A panic, log.Fatal or a kill loses all that is in memory, *)
(* and closing the port what the kernel kept for it.                       *)
(***************************************************************************)
Dies ==
    /\ up' = FALSE
    /\ workerPc' = "open" /\ buftotal' = <<>> /\ pkt' = NoPoint
    /\ mainPc' = "recv" /\ ps' = <<>>
    /\ tty' = <<>> /\ text' = FALSE
    /\ lossy' = TRUE /\ UNCHANGED overflowed

Killed ==
    /\ up /\ Dies
    /\ UNCHANGED <<boardVars, envVars, dbVars>>

Start ==
    /\ ~up /\ up' = TRUE
    /\ UNCHANGED <<boardVars, lineVars, workerVars, mainVars, envVars, dbVars,
                   losses>>
-----------------------------------------------------------------------------
(***************************************************************************)
(* serialworker.                                                           *)
(***************************************************************************)
\* What is printed before the port is open reaches nobody.
OpenPort ==
    /\ up /\ workerPc = "open"
    /\ workerPc' = "config"
    /\ UNCHANGED <<boardVars, lineVars, up, buftotal, pkt, mainVars, envVars,
                   dbVars, losses>>

\* log.Fatal when the port cannot be opened.
OpenPortFails ==
    /\ up /\ workerPc = "open" /\ Dies
    /\ UNCHANGED <<boardVars, envVars, dbVars>>

\* The four commands are written without waiting for an answer: a board that
\* is starting misses them.
Configure ==
    /\ up /\ workerPc = "config"
    /\ dumping' \in {dumping, TRUE}
    /\ workerPc' = "read"
    /\ UNCHANGED <<printing, printed, lineVars, up, buftotal, pkt, mainVars,
                   envVars, dbVars, losses>>

\* log.Fatal when a command cannot be written: those before it were.
ConfigureFails ==
    /\ up /\ workerPc = "config" /\ Dies
    /\ UNCHANGED <<boardVars, envVars, dbVars>>

\* Faulty variant: <PAYLOAD=.+>\n, which runs over a prompt.
MatchesPastPrompt(buf, i, j) ==
    /\ buf[i].kind = "open" /\ buf[j].kind = "close" /\ i < j
    /\ \A k \in i + 1 .. j - 1 : buf[k].kind \in {"open", "prompt"}

\* <PAYLOAD=[^>]+>\n matches buf[i..j]: from an open piece to the next piece
\* with a >, if that ends its line.
Matches(buf, i, j) ==
    /\ buf[i].kind = "open" /\ buf[j].kind = "close" /\ i < j
    /\ \A k \in i + 1 .. j - 1 : buf[k].kind = "open"

\* FindIndex: the leftmost match.
Found(buf, i, j) ==
    /\ Matches(buf, i, j)
    /\ \A k \in 1 .. i - 1 : \A l \in 1 .. Len(buf) : ~Matches(buf, k, l)

NoMatch(buf) == \A i, j \in 1 .. Len(buf) : ~Matches(buf, i, j)

\* Faulty variant: the time is not set, and is the zero time.
CutWithoutTime(buf, i, j) ==
    LET p == buf[j].pkt
    IN  [pkt : {p}, smac : {Sender[p]}, fields : {FieldsOf[p]},
         intact : {j = i + 1 /\ buf[i].pkt = p}, timestamp : {0 - 1}]

\* What buf[i..j] decodes to: the packet it ends with, or, if it was put
\* together from the pieces of several, anything that their texts hold.
Cut(buf, i, j) ==
    LET p == buf[j].pkt
    IN  IF j = i + 1 /\ buf[i].pkt = p
        THEN {[pkt |-> p, smac |-> Sender[p], fields |-> FieldsOf[p],
               intact |-> TRUE, timestamp |-> clock]}
        ELSE [pkt : {p}, smac : Motes,
              fields : {LinkFields \cup fs : fs \in SUBSET Fields},
              intact : {FALSE}, timestamp : {clock}]

\* Pieces a Read may return; it returns none only for other text.
Readable ==
    {n \in 0 .. Len(tty) : n = 0 => tty = <<>> /\ text}

\* Faulty variant: only what was just read is searched.
ReadSearchingNew ==
    /\ up /\ workerPc = "read"
    /\ text' = FALSE
    /\ \E n \in Readable :
        LET buf == SubSeq(tty, 1, n)
        IN  /\ tty' = SubSeq(tty, n + 1, Len(tty))
            /\ \/ /\ NoMatch(buf)
                  /\ buftotal' = buftotal \o buf
                  /\ UNCHANGED <<workerPc, pkt>>
               \/ \E i, j \in 1 .. Len(buf) :
                    /\ Found(buf, i, j)
                    /\ buftotal' = SubSeq(buf, j + 1, Len(buf))
                    /\ pkt' \in Cut(buf, i, j)
                    /\ workerPc' = "send"
    /\ UNCHANGED <<boardVars, up, mainVars, envVars, dbVars, losses>>

\* Faulty variant: buftotal is emptied when a packet is cut out.
ReadForgettingRest ==
    /\ up /\ workerPc = "read"
    /\ text' = FALSE
    /\ \E n \in Readable :
        LET buf == buftotal \o SubSeq(tty, 1, n)
        IN  /\ tty' = SubSeq(tty, n + 1, Len(tty))
            /\ \/ /\ NoMatch(buf)
                  /\ buftotal' = buf
                  /\ UNCHANGED <<workerPc, pkt>>
               \/ \E i, j \in 1 .. Len(buf) :
                    /\ Found(buf, i, j)
                    /\ buftotal' = <<>>
                    /\ pkt' \in Cut(buf, i, j)
                    /\ workerPc' = "send"
    /\ UNCHANGED <<boardVars, up, mainVars, envVars, dbVars, losses>>

\* One Read and one search: at most one packet is cut out of what was read,
\* even if it holds several, and what comes before the packet is dropped.
ReadSerial ==
    /\ up /\ workerPc = "read"
    /\ text' = FALSE
    /\ \E n \in Readable :
        LET buf == buftotal \o SubSeq(tty, 1, n)
        IN  /\ tty' = SubSeq(tty, n + 1, Len(tty))
            /\ \/ /\ NoMatch(buf)
                  /\ buftotal' = buf
                  /\ UNCHANGED <<workerPc, pkt>>
               \/ \E i, j \in 1 .. Len(buf) :
                    /\ Found(buf, i, j)
                    /\ buftotal' = SubSeq(buf, j + 1, Len(buf))
                    /\ pkt' \in Cut(buf, i, j)
                    /\ workerPc' = "send"
    /\ UNCHANGED <<boardVars, up, mainVars, envVars, dbVars, losses>>
-----------------------------------------------------------------------------
(***************************************************************************)
(* main.                                                                   *)
(***************************************************************************)
\* Both goroutines meet on the channel; decode_packet and PushBack follow.
Handover ==
    /\ up /\ workerPc = "send" /\ mainPc = "recv"
    /\ workerPc' = "read" /\ pkt' = NoPoint
    /\ ps' = Append(ps, pkt)
    /\ mainPc' = "client"
    /\ UNCHANGED <<boardVars, lineVars, up, buftotal, envVars, dbVars, losses>>

\* push_influx.
CreateClient ==
    /\ up /\ mainPc = "client" /\ urlValid
    /\ mainPc' = "push"
    /\ UNCHANGED <<boardVars, lineVars, up, workerVars, ps, envVars, dbVars,
                   losses>>

\* The error of NewHTTPClient is only logged: c.Close on a nil client panics.
CreateClientFails ==
    /\ up /\ mainPc = "client" /\ ~urlValid /\ Dies
    /\ UNCHANGED <<boardVars, envVars, dbVars>>

\* Faulty variant: the point has the time of the write.
WrittenNow(p) ==
    LET now == [p EXCEPT !.timestamp = clock]
    IN  /\ db' = Merged(db, now)
        /\ written' = IF now \in ToSet(written) THEN written
                      ELSE Append(written, now)

\* The point of a packet, with its mote for a tag, its fields and its time, is
\* written: what it replaces may be of another packet.  Writing it again after
\* an error changes nothing.
Written(p) ==
    /\ db' = Merged(db, p)
    /\ written' = IF p \in ToSet(written) THEN written ELSE Append(written, p)

\* Faulty variant: one packet per call (an if for the for).
WriteOnlyOne ==
    /\ up /\ mainPc = "push" /\ ps # <<>>
    /\ influxUp /\ Head(ps).pkt \notin Refused
    /\ Written(Head(ps))
    /\ ps' = Tail(ps)
    /\ mainPc' = "recv"
    /\ UNCHANGED <<boardVars, lineVars, up, workerVars, envVars, losses>>

WriteSucceeds ==
    /\ up /\ mainPc = "push" /\ ps # <<>>
    /\ influxUp /\ Head(ps).pkt \notin Refused
    /\ Written(Head(ps))
    /\ ps' = Tail(ps)
    /\ UNCHANGED <<boardVars, lineVars, up, workerVars, mainPc, envVars,
                   losses>>

\* Faulty variant: the packet is removed before it is written.
WriteFailsRemoved ==
    /\ up /\ mainPc = "push" /\ ps # <<>>
    /\ \/ ~influxUp /\ UNCHANGED dbVars
       \/ ~influxUp /\ Head(ps).pkt \notin Refused /\ Written(Head(ps))
       \/ Head(ps).pkt \in Refused /\ UNCHANGED dbVars
    /\ ps' = Tail(ps)
    /\ mainPc' = "recv"
    /\ UNCHANGED <<boardVars, lineVars, up, workerVars, envVars, losses>>

\* Write returns an error: refused, unreachable, or an answer that was lost
\* or came after the timeout, when the point may have been stored.
WriteFails ==
    /\ up /\ mainPc = "push" /\ ps # <<>>
    /\ \/ ~influxUp /\ UNCHANGED dbVars
       \/ ~influxUp /\ Head(ps).pkt \notin Refused /\ Written(Head(ps))
       \/ Head(ps).pkt \in Refused /\ UNCHANGED dbVars
    /\ mainPc' = "recv"
    /\ UNCHANGED <<boardVars, lineVars, up, workerVars, ps, envVars, losses>>

ListEmpty ==
    /\ up /\ mainPc = "push" /\ ps = <<>>
    /\ mainPc' = "recv"
    /\ UNCHANGED <<boardVars, lineVars, up, workerVars, ps, envVars, dbVars,
                   losses>>
-----------------------------------------------------------------------------
Init ==
    /\ dumping \in BOOLEAN /\ printing = None /\ printed = <<>>
    /\ tty = <<>> /\ text = FALSE /\ up = TRUE /\ overflowed = FALSE
    /\ urlValid \in BOOLEAN /\ influxUp \in BOOLEAN
    /\ workerPc = "open" /\ buftotal = <<>> /\ pkt = NoPoint
    /\ mainPc = "recv" /\ ps = <<>>
    /\ db = EmptyTables /\ written = <<>> /\ clock = 0 /\ lossy = FALSE

BoardNext == (\E p \in Packets : PrintOpen(p)) \/ PrintClose \/ PrintText
             \/ BoardResets

WorkerNext == OpenPort \/ OpenPortFails \/ Configure \/ ConfigureFails
              \/ ReadSerial

MainNext == Handover \/ CreateClient \/ CreateClientFails
            \/ WriteSucceeds \/ WriteFails \/ ListEmpty

Next == BoardNext \/ WorkerNext \/ MainNext
        \/ InfluxChanges \/ Tick \/ Killed \/ Start

Spec == Init /\ [][Next]_vars

(***************************************************************************)
(* Fairness.  Goroutines that can run do, reads and writes return (within  *)
(* ReadTimeout and the client's Timeout), the board prints a packet to its *)
(* end, and there is always some traffic after a packet: motes report      *)
(* again and again.                                                        *)
(***************************************************************************)
FairSpec ==
    /\ Spec
    /\ WF_vars(OpenPort) /\ WF_vars(Configure) /\ WF_vars(ReadSerial)
    /\ WF_vars(MainNext)
    /\ WF_vars(PrintClose) /\ WF_vars(PrintText)
-----------------------------------------------------------------------------
(***************************************************************************)
(* Properties.                                                             *)
(***************************************************************************)
\* Every variable has its type.
TypeOK ==
    /\ dumping \in BOOLEAN
    /\ printing \in Packets \cup {None}
    /\ printed \in Seq(Packets)
    /\ tty \in Seq(Pieces) /\ Len(tty) <= TtySize /\ text \in BOOLEAN
    /\ up \in BOOLEAN /\ urlValid \in BOOLEAN /\ influxUp \in BOOLEAN
    /\ workerPc \in {"open", "config", "read", "send"}
    /\ buftotal \in Seq(Pieces)
    /\ pkt \in Points \cup {NoPoint}
    /\ mainPc \in {"recv", "client", "push"}
    /\ ps \in Seq(Points)
    /\ db \in Databases /\ written \in Seq(Points)
    /\ clock \in 0 .. MaxClock
    /\ overflowed \in BOOLEAN /\ lossy \in BOOLEAN

\* The list without the packet that InfluxDB stored although Write failed.
Pending ==
    IF ps # <<>> /\ Head(ps) \in ToSet(written) THEN Tail(ps) ELSE ps

\* What was cut out of the line, oldest first.
CutOut == written \o Pending \o (IF workerPc = "send" THEN <<pkt>> ELSE <<>>)

\* The close pieces of a line, in order.
Closes(line) ==
    LET upTo[n \in 0 .. Len(line)] ==
            IF n = 0 THEN <<>>
            ELSE IF line[n].kind = "close" THEN Append(upTo[n - 1], line[n])
            ELSE upTo[n - 1]
    IN  upTo[Len(line)]

\* The packets that were printed to the end and not cut out.
Uncut == Closes(buftotal \o tty)

Ids(s) == [i \in 1 .. Len(s) |-> s[i].pkt]

\* A value that was written is in the database until a packet that was written
\* later, from the same mote and cut out in the same second, replaces it.
ReplacedByLater ==
    \A i \in 1 .. Len(written), c \in Cells :
        Gives(written[i], c) =>
            \E j \in i .. Len(written) :
                Gives(written[j], c) /\ db[c] = written[j].pkt

\* As long as nothing is lost, every packet is somewhere, once, and in order:
\* on the line, in buftotal, on the channel, in the list or written, however
\* reads cut the line and however often writes fail (serialworker,
\* push_influx).  What is written stays, but for the values that a later packet
\* of the mote in the same second replaces (mote-gateway.go:146, 154).
PacketsConserved ==
    ~lossy => Ids(CutOut) \o Ids(Uncut) = printed /\ ReplacedByLater

PrintedAt(p) == CHOOSE i \in 1 .. Len(printed) : printed[i] = p

\* A packet becomes one point at most, in the order of the packets, whatever is
\* lost, and though a write that failed may have been done: the retry has the
\* time of the first attempt (mote-gateway.go:146, 224), so that no packet is
\* in two rows of the database.
StoredOnceInOrder ==
    /\ \A i, j \in 1 .. Len(CutOut) :
        i < j => PrintedAt(CutOut[i].pkt) < PrintedAt(CutOut[j].pkt)
    /\ \A c, e \in Cells :
        db[c] # None /\ db[c] = db[e]
            => c.smac = e.smac /\ c.timestamp = e.timestamp

\* A packet that a reset or a crash cut short is never joined to the next one:
\* the prompt's > stops the regular expression (mote-gateway.go:210).  Only a
\* buffer that overflows can join two packets.
IntactPackets ==
    ~overflowed => \A i \in 1 .. Len(CutOut) : CutOut[i].intact

Store == INSTANCE StoreAndForward
    WITH running <- up, pending <- Pending, stored <- db

\* The server implements StoreAndForward.
ImplementsStore == Store!StoreSpec

\* A packet that is printed is cut out and accepted, unless something is lost:
\* one that was read with others waits for the next read, and one that is cut
\* out for the end of the writes in progress (mote-gateway.go:212-233).
PrintedAccepted ==
    \A p \in Packets :
        p \in ToSet(printed) ~> (lossy \/ p \in ToSet(Ids(written \o Pending)))

\* Once writing has begun, the whole list is written, unless InfluxDB refuses
\* or does not answer: a backlog is not written one packet per packet received
\* (mote-gateway.go:137).
BacklogWritten ==
    (mainPc = "push" /\ ps # <<>>)
        ~> (ps = <<>> \/ ~up \/ ~influxUp \/ Head(ps).pkt \in Refused)
=============================================================================
