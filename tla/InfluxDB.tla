------------------------------- MODULE InfluxDB ------------------------------
(***************************************************************************)
(* The database, as far as mote-gateway.go depends on it.  A point has one *)
(* tag, ID, the address of the mote, and a time in seconds                 *)
(* (mote-gateway.go:146, 154).  InfluxDB keeps one row for a tag and a     *)
(* time: a point written to a row that is there adds its fields to the row *)
(* and replaces the values of the fields that both have, whichever packet  *)
(* they come from.                                                         *)
(***************************************************************************)
EXTENDS Naturals

CONSTANTS
    Packets,    \* packets that become points
    Motes,      \* addresses packets are sent from
    Fields,     \* field names
    MaxClock    \* bound of the clock, in seconds

None == "none"

\* A Packet of mote-gateway.go: the packet its text ends with, the mote and the
\* fields it decodes to, whether it is that packet as it was printed, and the
\* time at which it was cut out.
Points == [pkt : Packets, smac : Motes, fields : SUBSET Fields,
           intact : BOOLEAN, timestamp : 0 .. MaxClock]

Cells == [smac : Motes, timestamp : 0 .. MaxClock, field : Fields]

\* The point p has a value for the cell c.
Gives(p, c) ==
    /\ c.smac = p.smac
    /\ c.timestamp = p.timestamp
    /\ c.field \in p.fields

\* Of each cell, the packet whose value it holds.
Databases   == [Cells -> Packets \cup {None}]
EmptyTables == [c \in Cells |-> None]

\* The database after a point was written.
Merged(d, p) == [c \in Cells |-> IF Gives(p, c) THEN p.pkt ELSE d[c]]
=============================================================================
