------------------------ MODULE GatewayServer_proofs ------------------------
(***************************************************************************)
(* Proofs about GatewayServer, for any set of packets, refused or not, any *)
(* size of the kernel's buffer and any clock.                              *)
(***************************************************************************)
EXTENDS GatewayServer, TLAPS, SequenceTheorems

(***************************************************************************)
(* The order of packets.  Along the way of a packet there are three        *)
(* sequences: the points d that were written, the points c that were cut   *)
(* out, and the pieces f that were not.  n is the length of the list, a    *)
(* prefix of c, whose head alone may have been written too.                *)
(***************************************************************************)
Before(pr, p, q) ==
    \E i, j \in 1 .. Len(pr) : i < j /\ pr[i] = p /\ pr[j] = q

Occurs(pr, p) == \E i \in 1 .. Len(pr) : pr[i] = p

IsClose(piece) == piece.kind = "close"

SortedPoints(pr, s) ==
    /\ \A i \in 1 .. Len(s) : Occurs(pr, s[i].pkt)
    /\ \A i, j \in 1 .. Len(s) : i < j => Before(pr, s[i].pkt, s[j].pkt)

SortedPieces(pr, f) ==
    /\ \A i \in 1 .. Len(f) : IsClose(f[i]) => Occurs(pr, f[i].pkt)
    /\ \A i, j \in 1 .. Len(f) :
        i < j /\ IsClose(f[i]) /\ IsClose(f[j])
            => Before(pr, f[i].pkt, f[j].pkt)

PointsThenPieces(pr, s, f) ==
    \A i \in 1 .. Len(s), j \in 1 .. Len(f) :
        IsClose(f[j]) => Before(pr, s[i].pkt, f[j].pkt)

StoredThenCut(pr, d, c, n) ==
    \A i \in 1 .. Len(d), j \in 1 .. Len(c) :
        \/ Before(pr, d[i].pkt, c[j].pkt)
        \/ n > 0 /\ i = Len(d) /\ j = 1 /\ d[i] = c[j]

Ordered(pr, d, c, f, n) ==
    /\ SortedPoints(pr, d) /\ SortedPoints(pr, c) /\ SortedPieces(pr, f)
    /\ PointsThenPieces(pr, d, f) /\ PointsThenPieces(pr, c, f)
    /\ StoredThenCut(pr, d, c, n)

\* What appending does.
LEMMA Appended ==
    ASSUME NEW S, NEW s \in Seq(S), NEW e \in S
    PROVE  /\ Append(s, e) \in Seq(S)
           /\ Len(Append(s, e)) = Len(s) + 1
           /\ \A i \in 1 .. Len(s) : Append(s, e)[i] = s[i]
           /\ Append(s, e)[Len(s) + 1] = e
BY AppendProperties

\* The elements of a sequence by their indices.
LEMMA ToSetIndex ==
    ASSUME NEW S, NEW s \in Seq(S)
    PROVE  ToSet(s) = {s[i] : i \in 1 .. Len(s)}
BY LenProperties DEF ToSet

\* Printing a packet to its end keeps the order of those before it.
LEMMA PrintedMore ==
    ASSUME NEW pr \in Seq(Packets), NEW p \in Packets
    PROVE  LET more == Append(pr, p)
           IN  /\ \A q : Occurs(pr, q) => Occurs(more, q) /\ Before(more, q, p)
               /\ Occurs(more, p)
               /\ \A q, r : Before(pr, q, r) => Before(more, q, r)
<1> DEFINE more == Append(pr, p)
<1>1. /\ Len(more) = Len(pr) + 1 /\ Len(pr) \in Nat
      /\ \A i \in 1 .. Len(pr) : more[i] = pr[i]
      /\ more[Len(pr) + 1] = p
    BY Appended, LenProperties
<1> HIDE DEF more
<1>2. Occurs(more, p)
    BY <1>1 DEF Occurs
<1>3. ASSUME NEW q, Occurs(pr, q)
      PROVE  Occurs(more, q) /\ Before(more, q, p)
    <2>1. PICK i \in 1 .. Len(pr) : pr[i] = q
        BY <1>3 DEF Occurs
    <2>2. i \in 1 .. Len(more) /\ Len(pr) + 1 \in 1 .. Len(more)
        BY <1>1
    <2> QED BY <1>1, <2>1, <2>2 DEF Occurs, Before
<1>4. ASSUME NEW q, NEW r, Before(pr, q, r)
      PROVE  Before(more, q, r)
    <2>1. PICK i, j \in 1 .. Len(pr) : i < j /\ pr[i] = q /\ pr[j] = r
        BY <1>4 DEF Before
    <2>2. i \in 1 .. Len(more) /\ j \in 1 .. Len(more)
        BY <1>1
    <2> QED BY <1>1, <2>1, <2>2 DEF Before
<1> QED BY <1>2, <1>3, <1>4 DEF more

LEMMA OrderedPrintedMore ==
    ASSUME NEW pr \in Seq(Packets), NEW p \in Packets,
           NEW d, NEW c, NEW f, NEW n, Ordered(pr, d, c, f, n)
    PROVE  Ordered(Append(pr, p), d, c, f, n)
<1> DEFINE more == Append(pr, p)
<1>1. /\ \A q : Occurs(pr, q) => Occurs(more, q)
      /\ \A q, r : Before(pr, q, r) => Before(more, q, r)
    BY PrintedMore
<1> HIDE DEF more
<1>2. Ordered(more, d, c, f, n)
    BY <1>1 DEF Ordered, SortedPoints, SortedPieces, PointsThenPieces,
        StoredThenCut
<1> QED BY <1>2 DEF more

\* A piece that ends no packet, or the end of a packet after all others.
LEMMA OrderedArrival ==
    ASSUME NEW pr, NEW d, NEW c, NEW n, NEW f \in Seq(Pieces),
           NEW e \in Pieces, Ordered(pr, d, c, f, n),
           IsClose(e) =>
               /\ Occurs(pr, e.pkt)
               /\ \A i \in 1 .. Len(d) : Before(pr, d[i].pkt, e.pkt)
               /\ \A i \in 1 .. Len(c) : Before(pr, c[i].pkt, e.pkt)
               /\ \A i \in 1 .. Len(f) :
                    IsClose(f[i]) => Before(pr, f[i].pkt, e.pkt)
    PROVE  Ordered(pr, d, c, Append(f, e), n)
<1> DEFINE g == Append(f, e)
<1>1. /\ Len(g) = Len(f) + 1 /\ Len(f) \in Nat
      /\ \A i \in 1 .. Len(f) : g[i] = f[i]
      /\ g[Len(f) + 1] = e
    BY Appended, LenProperties
<1> HIDE DEF g
<1>2. \A i \in 1 .. Len(g) : i \in 1 .. Len(f) \/ i = Len(f) + 1
    BY <1>1
<1>3. SortedPieces(pr, g)
    <2>1. \A i \in 1 .. Len(g) : IsClose(g[i]) => Occurs(pr, g[i].pkt)
        BY <1>1, <1>2 DEF Ordered, SortedPieces
    <2>2. ASSUME NEW i \in 1 .. Len(g), NEW j \in 1 .. Len(g), i < j,
                 IsClose(g[i]), IsClose(g[j])
          PROVE  Before(pr, g[i].pkt, g[j].pkt)
        <3>1. i \in 1 .. Len(f)
            BY <1>1, <2>2
        <3>2. CASE j \in 1 .. Len(f)
            BY <1>1, <2>2, <3>1, <3>2 DEF Ordered, SortedPieces
        <3>3. CASE j = Len(f) + 1
            BY <1>1, <2>2, <3>1, <3>3
        <3> QED BY <1>2, <3>2, <3>3
    <2> QED BY <2>1, <2>2 DEF SortedPieces
<1>4. PointsThenPieces(pr, d, g) /\ PointsThenPieces(pr, c, g)
    BY <1>1, <1>2 DEF Ordered, PointsThenPieces
<1> QED BY <1>3, <1>4 DEF Ordered, g

\* Cutting a packet out of the pieces.
LEMMA OrderedCut ==
    ASSUME NEW pr, NEW d, NEW n \in Nat, NEW c \in Seq(Points),
           NEW f \in Seq(Pieces), Ordered(pr, d, c, f, n),
           NEW k \in 1 .. Len(f), IsClose(f[k]),
           NEW x \in Points, x.pkt = f[k].pkt, n <= Len(c)
    PROVE  Ordered(pr, d, Append(c, x), SubSeq(f, k + 1, Len(f)), n)
<1> DEFINE g == SubSeq(f, k + 1, Len(f))
           b == Append(c, x)
<1>1. /\ Len(g) = Len(f) - k /\ Len(f) \in Nat
      /\ \A i \in 1 .. Len(g) : g[i] = f[k + i] /\ k + i \in 1 .. Len(f)
    <2>1. Len(f) \in Nat /\ k + 1 \in Nat
        BY LenProperties
    <2>2. k + 1 \in 1 .. Len(f) + 1
        BY <2>1
    <2>3. /\ Len(g) = IF k + 1 <= Len(f) THEN Len(f) - (k + 1) + 1 ELSE 0
          /\ \A i \in 1 .. Len(f) - (k + 1) + 1 : g[i] = f[k + 1 + i - 1]
        BY <2>2, SubSeqProperties
    <2> HIDE DEF g
    <2> QED BY <2>1, <2>3
<1>2. /\ Len(b) = Len(c) + 1 /\ Len(c) \in Nat
      /\ \A i \in 1 .. Len(c) : b[i] = c[i]
      /\ b[Len(c) + 1] = x
    BY Appended, LenProperties
<1> HIDE DEF g, b
<1>3. \A i \in 1 .. Len(b) : i \in 1 .. Len(c) \/ i = Len(c) + 1
    BY <1>2
<1>4. SortedPieces(pr, g)
    <2>1. \A i \in 1 .. Len(g) : IsClose(g[i]) => Occurs(pr, g[i].pkt)
        BY <1>1 DEF Ordered, SortedPieces
    <2>2. ASSUME NEW i \in 1 .. Len(g), NEW j \in 1 .. Len(g), i < j,
                 IsClose(g[i]), IsClose(g[j])
          PROVE  Before(pr, g[i].pkt, g[j].pkt)
        <3>1. /\ g[i] = f[k + i] /\ g[j] = f[k + j] /\ k + i < k + j
              /\ k + i \in 1 .. Len(f) /\ k + j \in 1 .. Len(f)
            BY <1>1, <2>2
        <3> QED BY <2>2, <3>1 DEF Ordered, SortedPieces
    <2> QED BY <2>1, <2>2 DEF SortedPieces
<1>5. PointsThenPieces(pr, d, g)
    BY <1>1 DEF Ordered, PointsThenPieces
<1>6. PointsThenPieces(pr, b, g)
    <2> SUFFICES ASSUME NEW i \in 1 .. Len(b), NEW j \in 1 .. Len(g),
                        IsClose(g[j])
                 PROVE  Before(pr, b[i].pkt, g[j].pkt)
        BY DEF PointsThenPieces
    <2>1. g[j] = f[k + j] /\ k + j \in 1 .. Len(f) /\ k < k + j
        BY <1>1
    <2>2. CASE i \in 1 .. Len(c)
        BY <1>2, <2>1, <2>2 DEF Ordered, PointsThenPieces
    <2>3. CASE i = Len(c) + 1
        BY <1>2, <2>1, <2>3 DEF Ordered, SortedPieces
    <2> QED BY <1>3, <2>2, <2>3
<1>7. SortedPoints(pr, b)
    <2>1. \A i \in 1 .. Len(b) : Occurs(pr, b[i].pkt)
        BY <1>2, <1>3 DEF Ordered, SortedPoints, SortedPieces
    <2>2. ASSUME NEW i \in 1 .. Len(b), NEW j \in 1 .. Len(b), i < j
          PROVE  Before(pr, b[i].pkt, b[j].pkt)
        <3>1. i \in 1 .. Len(c)
            BY <1>2, <2>2
        <3>2. CASE j \in 1 .. Len(c)
            BY <1>2, <2>2, <3>1, <3>2 DEF Ordered, SortedPoints
        <3>3. CASE j = Len(c) + 1
            BY <1>2, <3>1, <3>3 DEF Ordered, PointsThenPieces
        <3> QED BY <1>3, <3>2, <3>3
    <2> QED BY <2>1, <2>2 DEF SortedPoints
<1>8. StoredThenCut(pr, d, b, n)
    <2> SUFFICES ASSUME NEW i \in 1 .. Len(d), NEW j \in 1 .. Len(b)
                 PROVE  \/ Before(pr, d[i].pkt, b[j].pkt)
                        \/ n > 0 /\ i = Len(d) /\ j = 1 /\ d[i] = b[j]
        BY DEF StoredThenCut
    <2>1. CASE j \in 1 .. Len(c)
        BY <1>2, <2>1 DEF Ordered, StoredThenCut
    <2>2. CASE j = Len(c) + 1
        BY <1>2, <2>2 DEF Ordered, PointsThenPieces
    <2> QED BY <1>3, <2>1, <2>2
<1> QED BY <1>4, <1>5, <1>6, <1>7, <1>8 DEF Ordered, g, b

\* The head of the list that was stored is removed from it.
LEMMA OrderedRemoved ==
    ASSUME NEW pr, NEW d, NEW f, NEW n \in Nat, NEW c \in Seq(Points),
           Ordered(pr, d, c, f, n), c # <<>>, NEW m
    PROVE  Ordered(pr, d, Tail(c), f, m)
<1> DEFINE b == Tail(c)
<1>1. /\ Len(c) \in Nat /\ Len(b) = Len(c) - 1
      /\ \A i \in 1 .. Len(b) : b[i] = c[i + 1] /\ i + 1 \in 1 .. Len(c)
    <2>1. Len(c) \in Nat \ {0}
        BY EmptySeq, LenProperties
    <2>2. Len(b) = Len(c) - 1 /\ \A i \in 1 .. Len(b) : b[i] = c[i + 1]
        BY HeadTailProperties
    <2> HIDE DEF b
    <2> QED BY <2>1, <2>2
<1> HIDE DEF b
<1>2. SortedPoints(pr, b)
    <2>1. \A i \in 1 .. Len(b) : Occurs(pr, b[i].pkt)
        BY <1>1 DEF Ordered, SortedPoints
    <2>2. ASSUME NEW i \in 1 .. Len(b), NEW j \in 1 .. Len(b), i < j
          PROVE  Before(pr, b[i].pkt, b[j].pkt)
        <3>1. i + 1 < j + 1
            BY <2>2
        <3> QED BY <1>1, <3>1 DEF Ordered, SortedPoints
    <2> QED BY <2>1, <2>2 DEF SortedPoints
<1>3. PointsThenPieces(pr, b, f)
    BY <1>1 DEF Ordered, PointsThenPieces
<1>4. StoredThenCut(pr, d, b, m)
    <2> SUFFICES ASSUME NEW i \in 1 .. Len(d), NEW j \in 1 .. Len(b)
                 PROVE  Before(pr, d[i].pkt, b[j].pkt)
        BY DEF StoredThenCut
    <2>1. b[j] = c[j + 1] /\ j + 1 \in 1 .. Len(c) /\ j + 1 # 1
        BY <1>1
    <2> QED BY <2>1 DEF Ordered, StoredThenCut
<1> QED BY <1>2, <1>3, <1>4 DEF Ordered, b

\* The head of the list is stored, and stays in the list for now.
LEMMA OrderedWritten ==
    ASSUME NEW pr, NEW f, NEW n \in Nat, NEW c \in Seq(Points),
           NEW d \in Seq(Points), Ordered(pr, d, c, f, n),
           c # <<>>, n > 0
    PROVE  LET e == IF c[1] \in ToSet(d) THEN d ELSE Append(d, c[1])
           IN  e \in Seq(Points) /\ Ordered(pr, e, c, f, n)
<1>1. CASE c[1] \in ToSet(d)
    BY <1>1
<1>2. CASE c[1] \notin ToSet(d)
    <2> DEFINE e == Append(d, c[1])
    <2>0. Len(c) \in Nat \ {0} /\ c[1] \in Points /\ 1 \in 1 .. Len(c)
        BY EmptySeq, LenProperties, ElementOfSeq
    <2>1. /\ Len(e) = Len(d) + 1 /\ Len(d) \in Nat
          /\ \A i \in 1 .. Len(d) : e[i] = d[i]
          /\ e[Len(d) + 1] = c[1]
          /\ e \in Seq(Points)
        BY <2>0, Appended, LenProperties
    <2>2. \A i \in 1 .. Len(d) : d[i] # c[1]
        BY <1>2, ToSetIndex
    <2> HIDE DEF e
    <2>3. \A i \in 1 .. Len(e) : i \in 1 .. Len(d) \/ i = Len(d) + 1
        BY <2>1
    <2>4. \A i \in 1 .. Len(d) : Before(pr, d[i].pkt, c[1].pkt)
        BY <2>0, <2>2 DEF Ordered, StoredThenCut
    <2>5. SortedPoints(pr, e)
        <3>1. \A i \in 1 .. Len(e) : Occurs(pr, e[i].pkt)
            BY <2>0, <2>1, <2>3 DEF Ordered, SortedPoints
        <3>2. ASSUME NEW i \in 1 .. Len(e), NEW j \in 1 .. Len(e), i < j
              PROVE  Before(pr, e[i].pkt, e[j].pkt)
            <4>1. i \in 1 .. Len(d)
                BY <2>1, <3>2
            <4>2. CASE j \in 1 .. Len(d)
                BY <2>1, <3>2, <4>1, <4>2 DEF Ordered, SortedPoints
            <4>3. CASE j = Len(d) + 1
                BY <2>1, <2>4, <4>1, <4>3
            <4> QED BY <2>3, <4>2, <4>3
        <3> QED BY <3>1, <3>2 DEF SortedPoints
    <2>6. PointsThenPieces(pr, e, f)
        <3> SUFFICES ASSUME NEW i \in 1 .. Len(e), NEW j \in 1 .. Len(f),
                            IsClose(f[j])
                     PROVE  Before(pr, e[i].pkt, f[j].pkt)
            BY DEF PointsThenPieces
        <3>1. CASE i \in 1 .. Len(d)
            BY <2>1, <3>1 DEF Ordered, PointsThenPieces
        <3>2. CASE i = Len(d) + 1
            BY <2>0, <2>1, <3>2 DEF Ordered, PointsThenPieces
        <3> QED BY <2>3, <3>1, <3>2
    <2>7. StoredThenCut(pr, e, c, n)
        <3> SUFFICES ASSUME NEW i \in 1 .. Len(e), NEW j \in 1 .. Len(c)
                     PROVE  \/ Before(pr, e[i].pkt, c[j].pkt)
                            \/ n > 0 /\ i = Len(e) /\ j = 1 /\ e[i] = c[j]
            BY DEF StoredThenCut
        <3>1. CASE i \in 1 .. Len(d)
            <4>1. Before(pr, d[i].pkt, c[j].pkt) \/ (j = 1 /\ d[i] = c[j])
                BY <3>1 DEF Ordered, StoredThenCut
            <4> QED BY <2>1, <2>2, <3>1, <4>1
        <3>2. CASE i = Len(d) + 1 /\ j = 1
            BY <2>1, <3>2
        <3>3. CASE i = Len(d) + 1 /\ j # 1
            <4>1. 1 < j
                BY <3>3
            <4> QED BY <2>0, <2>1, <3>3, <4>1 DEF Ordered, SortedPoints
        <3> QED BY <2>3, <3>1, <3>2, <3>3
    <2>8. Ordered(pr, e, c, f, n)
        BY <2>5, <2>6, <2>7 DEF Ordered
    <2> QED BY <1>2, <2>1, <2>8 DEF e
<1> QED BY <1>1, <1>2

\* What is lost at the end of the process.
LEMMA OrderedNothing ==
    ASSUME NEW pr, NEW d, NEW c, NEW f, NEW n, Ordered(pr, d, c, f, n), NEW m
    PROVE  Ordered(pr, d, <<>>, <<>>, m)
BY DEF Ordered, SortedPoints, SortedPieces, PointsThenPieces, StoredThenCut

\* The packet on the channel joins the list.
LEMMA OrderedLonger ==
    ASSUME NEW pr, NEW d, NEW c, NEW f, NEW n \in Nat, NEW m \in Nat, n <= m,
           Ordered(pr, d, c, f, n)
    PROVE  Ordered(pr, d, c, f, m)
BY DEF Ordered, StoredThenCut
-----------------------------------------------------------------------------
(***************************************************************************)
(* Types.                                                                  *)
(***************************************************************************)
\* A suffix of a sequence, possibly empty.
LEMMA Suffix ==
    ASSUME NEW S, NEW s \in Seq(S), NEW k \in 0 .. Len(s)
    PROVE  /\ SubSeq(s, k + 1, Len(s)) \in Seq(S)
           /\ Len(SubSeq(s, k + 1, Len(s))) = Len(s) - k
           /\ \A i \in 1 .. Len(s) - k : SubSeq(s, k + 1, Len(s))[i] = s[k + i]
<1> DEFINE g == SubSeq(s, k + 1, Len(s))
<1>1. /\ Len(s) \in Nat /\ k + 1 \in Int /\ Len(s) \in Int
      /\ k \in Nat /\ k <= Len(s)
    BY LenProperties
<1>2. \A i \in k + 1 .. Len(s) : s[i] \in S
    BY <1>1, ElementOfSeq
<1>3. /\ g \in Seq(S)
      /\ Len(g) = IF k + 1 <= Len(s) THEN Len(s) - (k + 1) + 1 ELSE 0
      /\ \A i \in 1 .. Len(s) - (k + 1) + 1 : g[i] = s[k + 1 + i - 1]
    BY <1>1, <1>2, SubSeqProperties
<1> HIDE DEF g
<1>4. Len(g) = Len(s) - k
    BY <1>1, <1>3
<1>5. ASSUME NEW i \in 1 .. Len(s) - k
      PROVE  g[i] = s[k + i]
    <2>1. i \in 1 .. Len(s) - (k + 1) + 1 /\ k + 1 + i - 1 = k + i
        BY <1>1
    <2> QED BY <1>3, <2>1
<1> QED BY <1>3, <1>4, <1>5 DEF g

LEMMA Prefix ==
    ASSUME NEW S, NEW s \in Seq(S), NEW k \in 0 .. Len(s)
    PROVE  SubSeq(s, 1, k) \in Seq(S)
<1>1. Len(s) \in Nat /\ k \in Int
    BY LenProperties
<1>2. \A i \in 1 .. k : s[i] \in S
    BY <1>1, ElementOfSeq
<1> QED BY <1>1, <1>2, SubSeqProperties

\* What arrives, or is lost, leaves the line a sequence of pieces.
LEMMA ArrivesType ==
    ASSUME TypeOK, NEW e \in Pieces, Arrives(e)
    PROVE  /\ tty' \in Seq(Pieces) /\ Len(tty') <= TtySize
           /\ overflowed' \in BOOLEAN /\ lossy' \in BOOLEAN
<1>1. CASE PortOpen /\ Len(tty) < TtySize
    <2>1. /\ Append(tty, e) \in Seq(Pieces)
          /\ Len(Append(tty, e)) = Len(tty) + 1 /\ Len(tty) \in Nat
        BY Appended, LenProperties DEF TypeOK
    <2>2. tty' = Append(tty, e) /\ UNCHANGED losses
        BY <1>1 DEF Arrives
    <2>3. Len(tty) + 1 <= TtySize
        BY <1>1, <2>1, TtyAssumption
    <2> QED BY <2>1, <2>2, <2>3 DEF TypeOK, losses
<1>2. CASE ~(PortOpen /\ Len(tty) < TtySize)
    BY <1>2 DEF Arrives, TypeOK, PortOpen
<1> QED BY <1>1, <1>2

LEMMA DiesType ==
    ASSUME TypeOK, Dies
    PROVE  /\ up' = FALSE /\ workerPc' = "open" /\ mainPc' = "recv"
           /\ buftotal' \in Seq(Pieces) /\ ps' \in Seq(Points)
           /\ tty' \in Seq(Pieces) /\ Len(tty') <= TtySize
           /\ pkt' = NoPoint /\ text' = FALSE
           /\ overflowed' \in BOOLEAN /\ lossy' = TRUE
<1>1. <<>> \in Seq(Pieces) /\ <<>> \in Seq(Points) /\ Len(<<>>) = 0
    BY EmptySeq
<1> QED BY <1>1, TtyAssumption DEF Dies, TypeOK

\* What a read leaves on the line and in buftotal; k is where it cut, if it did.
ReadStep(n, k) ==
    LET buf == buftotal \o SubSeq(tty, 1, n)
    IN  /\ n \in 0 .. Len(tty)
        /\ tty' = SubSeq(tty, n + 1, Len(tty))
        /\ \/ /\ k = 0 /\ buftotal' = buf
              /\ UNCHANGED <<workerPc, pkt>>
           \/ /\ k \in 1 .. Len(buf)
              /\ buf[k].kind = "close"
              /\ buftotal' = SubSeq(buf, k + 1, Len(buf))
              /\ \E i \in 1 .. Len(buf) :
                    Matches(buf, i, k) /\ pkt' \in Cut(buf, i, k)
              /\ workerPc' = "send"

LEMMA ReadSteps ==
    ASSUME ReadSerial
    PROVE  \E n, k : ReadStep(n, k)
<1>1. PICK n \in Readable :
        LET buf == buftotal \o SubSeq(tty, 1, n)
        IN  /\ tty' = SubSeq(tty, n + 1, Len(tty))
            /\ \/ /\ NoMatch(buf)
                  /\ buftotal' = buf
                  /\ UNCHANGED <<workerPc, pkt>>
               \/ \E i, j \in 1 .. Len(buf) :
                    /\ Found(buf, i, j)
                    /\ buftotal' = SubSeq(buf, j + 1, Len(buf))
                    /\ pkt' \in Cut(buf, i, j)
                    /\ workerPc' = "send"
    BY DEF ReadSerial
<1> DEFINE buf == buftotal \o SubSeq(tty, 1, n)
<1>2. n \in 0 .. Len(tty)
    BY DEF Readable
<1>3. CASE NoMatch(buf) /\ buftotal' = buf /\ UNCHANGED <<workerPc, pkt>>
    <2>1. ReadStep(n, 0)
        BY <1>1, <1>2, <1>3 DEF ReadStep
    <2> QED BY <2>1
<1>4. CASE \E i, j \in 1 .. Len(buf) :
                    /\ Found(buf, i, j)
                    /\ buftotal' = SubSeq(buf, j + 1, Len(buf))
                    /\ pkt' \in Cut(buf, i, j)
                    /\ workerPc' = "send"
    <2>1. PICK i, j \in 1 .. Len(buf) :
                    /\ Found(buf, i, j)
                    /\ buftotal' = SubSeq(buf, j + 1, Len(buf))
                    /\ pkt' \in Cut(buf, i, j)
                    /\ workerPc' = "send"
        BY <1>4
    <2>2. buf[j].kind = "close"
        BY <2>1 DEF Found, Matches
    <2>3. ReadStep(n, j)
        BY <1>1, <1>2, <2>1, <2>2 DEF ReadStep, Found
    <2> QED BY <2>3
<1> QED BY <1>1, <1>3, <1>4

LEMMA BufferType ==
    ASSUME TypeOK, NEW n \in 0 .. Len(tty)
    PROVE  buftotal \o SubSeq(tty, 1, n) \in Seq(Pieces)
BY Prefix, ConcatProperties DEF TypeOK

LEMMA CloseHasPacket ==
    ASSUME NEW e \in Pieces, IsClose(e)
    PROVE  e.pkt \in Packets /\ e.kind = "close"
BY DEF Pieces, Prompt, IsClose

LEMMA CutType ==
    ASSUME TypeOK, NEW buf \in Seq(Pieces), NEW i, NEW j \in 1 .. Len(buf),
           buf[j].kind = "close", NEW x \in Cut(buf, i, j)
    PROVE  x \in Points /\ x.pkt = buf[j].pkt
<1>1. buf[j] \in Pieces
    BY ElementOfSeq
<1> DEFINE p == buf[j].pkt
<1>2. p \in Packets
    BY <1>1, CloseHasPacket DEF IsClose
<1>3. CASE j = i + 1 /\ buf[i].pkt = p
    <2>1. x = [pkt |-> p, smac |-> Sender[p], fields |-> FieldsOf[p],
               intact |-> TRUE, timestamp |-> clock]
        BY <1>3 DEF Cut
    <2>2. Sender[p] \in Motes /\ FieldsOf[p] \in SUBSET Fields
        BY <1>2, ContentAssumption
    <2> QED BY <1>2, <2>1, <2>2 DEF Points, TypeOK
<1>4. CASE ~(j = i + 1 /\ buf[i].pkt = p)
    <2>1. x \in [pkt : {p}, smac : Motes,
                 fields : {LinkFields \cup fs : fs \in SUBSET Fields},
                 intact : {FALSE}, timestamp : {clock}]
        BY <1>4 DEF Cut
    <2>2. {LinkFields \cup fs : fs \in SUBSET Fields} \subseteq SUBSET Fields
        BY ContentAssumption
    <2> QED BY <1>2, <2>1, <2>2 DEF Points, TypeOK
<1> QED BY <1>3, <1>4

LEMMA ReadType ==
    ASSUME TypeOK, NEW n, NEW k, ReadStep(n, k)
    PROVE  /\ tty' \in Seq(Pieces) /\ Len(tty') <= TtySize
           /\ buftotal' \in Seq(Pieces) /\ pkt' \in Points \cup {NoPoint}
           /\ workerPc' \in {"open", "config", "read", "send"}
<1> DEFINE buf == buftotal \o SubSeq(tty, 1, n)
<1>1. n \in 0 .. Len(tty) /\ tty' = SubSeq(tty, n + 1, Len(tty))
    BY DEF ReadStep
<1>2. buf \in Seq(Pieces)
    BY <1>1, BufferType
<1>3. /\ tty' \in Seq(Pieces) /\ Len(tty') = Len(tty) - n
      /\ Len(tty) \in Nat /\ Len(tty) <= TtySize
    BY <1>1, Suffix, LenProperties DEF TypeOK
<1>4. tty' \in Seq(Pieces) /\ Len(tty') <= TtySize
    BY <1>1, <1>3, TtyAssumption
<1>5. CASE k = 0 /\ buftotal' = buf /\ UNCHANGED <<workerPc, pkt>>
    BY <1>2, <1>4, <1>5 DEF TypeOK
<1>6. CASE /\ k \in 1 .. Len(buf)
           /\ buf[k].kind = "close"
           /\ buftotal' = SubSeq(buf, k + 1, Len(buf))
           /\ \E i \in 1 .. Len(buf) : pkt' \in Cut(buf, i, k)
           /\ workerPc' = "send"
    <2> HIDE DEF buf
    <2>1. k \in 0 .. Len(buf) /\ Len(buf) \in Nat
        BY <1>2, <1>6, LenProperties
    <2>2. SubSeq(buf, k + 1, Len(buf)) \in Seq(Pieces)
        BY <1>2, <2>1, Suffix
    <2>3. pkt' \in Points
        BY <1>2, <1>6, CutType
    <2> QED BY <1>4, <1>6, <2>2, <2>3
<1> QED BY <1>5, <1>6 DEF ReadStep

\* The points written so far and p.
Added(p) == IF p \in ToSet(written) THEN written ELSE Append(written, p)

LEMMA WrittenType ==
    ASSUME TypeOK, NEW p \in Points, Written(p)
    PROVE  written' \in Seq(Points) /\ db' \in Databases
<1>1. written' \in Seq(Points)
    BY AppendProperties DEF Written, TypeOK
<1>2. p.pkt \in Packets
    BY DEF Points
<1>3. db' = [c \in Cells |-> IF Gives(p, c) THEN p.pkt ELSE db[c]]
    BY DEF Written, Merged
<1>4. db \in [Cells -> Packets \cup {None}]
    BY DEF TypeOK, Databases
<1> QED BY <1>1, <1>2, <1>3, <1>4 DEF Databases

LEMMA HeadType ==
    ASSUME TypeOK, ps # <<>>
    PROVE  /\ Head(ps) \in Points /\ Tail(ps) \in Seq(Points)
           /\ Head(ps) = ps[1] /\ Len(ps) \in Nat \ {0}
<1>1. Head(ps) \in Points /\ Tail(ps) \in Seq(Points)
    BY HeadTailProperties DEF TypeOK
<1>2. Len(ps) \in Nat \ {0}
    BY EmptySeq DEF TypeOK
<1> QED BY <1>1, <1>2

\* What is on the channel is a packet.
ChannelShape == workerPc = "send" => pkt \in Points

Typed == TypeOK /\ ChannelShape

\* After a read that cut nothing there is nothing on the channel.
LEMMA ReadChannel ==
    ASSUME TypeOK, ChannelShape, NEW n, NEW k, ReadStep(n, k)
    PROVE  workerPc' = "send" => pkt' \in Points
<1> DEFINE buf == buftotal \o SubSeq(tty, 1, n)
<1>1. buf \in Seq(Pieces)
    BY BufferType DEF ReadStep
<1>2. CASE UNCHANGED <<workerPc, pkt>>
    BY <1>2 DEF ChannelShape
<1>3. CASE /\ k \in 1 .. Len(buf) /\ buf[k].kind = "close"
           /\ \E i \in 1 .. Len(buf) : pkt' \in Cut(buf, i, k)
    BY <1>1, <1>3, CutType
<1> QED BY <1>2, <1>3 DEF ReadStep

\* Types are inductive, action by action.
LEMMA TypeStep == Typed /\ [Next]_vars => Typed'
<1> SUFFICES ASSUME TypeOK, ChannelShape, [Next]_vars
             PROVE  TypeOK' /\ ChannelShape'
    BY DEF Typed
<1> USE DEF boardVars, workerVars, mainVars, envVars, losses, lineVars, dbVars
<1>1. CASE UNCHANGED vars
    BY <1>1 DEF TypeOK, ChannelShape, vars
<1>2. ASSUME NEW p \in Packets, PrintOpen(p)
      PROVE  TypeOK' /\ ChannelShape'
    <2>1. Open(p) \in Pieces
        BY DEF Open, Pieces
    <2>2. Arrives(Open(p))
        BY <1>2 DEF PrintOpen
    <2> QED BY <1>2, <2>1, <2>2, ArrivesType DEF PrintOpen, TypeOK, ChannelShape
<1>3. CASE PrintClose
    <2>1. printing \in Packets
        BY <1>3 DEF PrintClose, TypeOK
    <2>2. /\ Close(printing) \in Pieces
          /\ Append(printed, printing) \in Seq(Packets)
        BY <2>1, AppendProperties DEF Close, Pieces, TypeOK
    <2>3. Arrives(Close(printing))
        BY <1>3 DEF PrintClose
    <2> QED BY <1>3, <2>2, <2>3, ArrivesType
        DEF PrintClose, TypeOK, ChannelShape
<1>4. CASE PrintText
    BY <1>4 DEF PrintText, TypeOK, ChannelShape
<1>5. CASE BoardResets
    <2>1. Prompt \in Pieces
        BY DEF Pieces
    <2>2. CASE PortOpen /\ Len(tty) < TtySize
        <3>1. /\ Append(tty, Prompt) \in Seq(Pieces)
              /\ Len(Append(tty, Prompt)) = Len(tty) + 1 /\ Len(tty) \in Nat
            BY <2>1, Appended, LenProperties DEF TypeOK
        <3>2. Len(tty) + 1 <= TtySize
            BY <2>2, <3>1, TtyAssumption
        <3>3. tty' = Append(tty, Prompt)
            BY <1>5, <2>2 DEF BoardResets
        <3> QED BY <1>5, <3>1, <3>2, <3>3
            DEF BoardResets, TypeOK, ChannelShape, PortOpen
    <2>3. CASE ~(PortOpen /\ Len(tty) < TtySize)
        BY <1>5, <2>3 DEF BoardResets, TypeOK, ChannelShape, PortOpen
    <2> QED BY <2>2, <2>3
<1>6. CASE InfluxChanges
    BY <1>6 DEF InfluxChanges, TypeOK, ChannelShape
<1>7. CASE Tick
    <2>1. clock' \in 0 .. MaxClock
        BY <1>7, TtyAssumption DEF Tick, TypeOK
    <2>2. Points' = Points
        BY DEF Points
    <2> QED BY <1>7, <2>1, <2>2 DEF Tick, TypeOK, ChannelShape
<1>8. CASE Killed
    BY <1>8, DiesType DEF Killed, TypeOK, ChannelShape
<1>9. CASE Start
    BY <1>9 DEF Start, TypeOK, ChannelShape
<1>10. CASE Configure
    BY <1>10 DEF Configure, TypeOK, ChannelShape
<1>11. CASE ConfigureFails
    BY <1>11, DiesType DEF ConfigureFails, TypeOK, ChannelShape
<1>12. CASE ReadSerial
    <2>1. PICK n, k : ReadStep(n, k)
        BY <1>12, ReadSteps
    <2>2. /\ UNCHANGED <<boardVars, up, mainVars, envVars, dbVars, losses>>
          /\ text' = FALSE
        BY <1>12 DEF ReadSerial
    <2>3. (workerPc' = "send") => (pkt' \in Points)
        BY <2>1, ReadChannel
    <2> QED BY <2>1, <2>2, <2>3, ReadType DEF TypeOK, ChannelShape
<1>13. CASE Handover
    <2>1. pkt \in Points
        BY <1>13 DEF Handover, ChannelShape
    <2>2. Append(ps, pkt) \in Seq(Points)
        BY <2>1, AppendProperties DEF TypeOK
    <2> QED BY <1>13, <2>2 DEF Handover, TypeOK, ChannelShape
<1>14. CASE CreateClient
    BY <1>14 DEF CreateClient, TypeOK, ChannelShape
<1>15. CASE CreateClientFails
    BY <1>15, DiesType DEF CreateClientFails, TypeOK, ChannelShape
<1>16. CASE WriteSucceeds
    <2>1. /\ Tail(ps) \in Seq(Points)
          /\ written' \in Seq(Points) /\ db' \in Databases
        BY <1>16, HeadType, WrittenType DEF WriteSucceeds
    <2> QED BY <1>16, <2>1 DEF WriteSucceeds, TypeOK, ChannelShape
<1>17. CASE WriteFails
    <2>1. written' \in Seq(Points) /\ db' \in Databases
        BY <1>17, HeadType, WrittenType DEF WriteFails, TypeOK
    <2> QED BY <1>17, <2>1 DEF WriteFails, TypeOK, ChannelShape
<1>18. CASE ListEmpty
    BY <1>18 DEF ListEmpty, TypeOK, ChannelShape
<1>19. CASE OpenPort
    BY <1>19 DEF OpenPort, TypeOK, ChannelShape
<1>20. CASE OpenPortFails
    BY <1>20, DiesType DEF OpenPortFails, TypeOK, ChannelShape
<1> QED BY <1>1, <1>2, <1>3, <1>4, <1>5, <1>6, <1>7, <1>8, <1>9, <1>10, <1>11,
    <1>12, <1>13, <1>14, <1>15, <1>16, <1>17, <1>18,
    <1>19, <1>20
    DEF Next, BoardNext, WorkerNext, MainNext

LEMMA TypeInit == Init => Typed
<1>1. /\ <<>> \in Seq(Packets) /\ <<>> \in Seq(Pieces) /\ <<>> \in Seq(Points)
      /\ Len(<<>>) = 0
    BY EmptySeq
<1>2. 0 <= TtySize /\ 0 \in 0 .. MaxClock
    BY TtyAssumption
<1> SUFFICES ASSUME Init
             PROVE  Typed
    OBVIOUS
<1>3. tty \in Seq(Pieces) /\ Len(tty) <= TtySize
    BY <1>1, <1>2 DEF Init
<1>4. ChannelShape
    BY DEF Init, ChannelShape
<1>6. db \in Databases
    BY DEF Init, EmptyTables, Databases
<1>7. workerPc \in {"open", "config", "read", "send"}
    BY DEF Init
<1>5. TypeOK
    BY <1>1, <1>2, <1>3, <1>6, <1>7 DEF Init, TypeOK
<1> QED BY <1>4, <1>5 DEF Typed

LEMMA TypedAlways == Spec => []Typed
<1> QED BY TypeInit, TypeStep, PTL DEF Spec

\* Every variable keeps its type: nothing but whole packets reaches the list
\* and the database (serialworker, push_influx).
THEOREM TypeCorrect == Spec => []TypeOK
<1>1. Typed => TypeOK
    BY DEF Typed
<1> QED BY <1>1, TypedAlways, PTL
-----------------------------------------------------------------------------
(***************************************************************************)
(* The way of a packet: printed on the line, then in Feed, then in Cuts,   *)
(* then in the database.                                                   *)
(***************************************************************************)
Feed    == buftotal \o tty
Channel == IF workerPc = "send" THEN <<pkt>> ELSE <<>>
Cuts    == ps \o Channel

\* A packet is printed once.
PrintShape ==
    /\ \A i, j \in 1 .. Len(printed) : printed[i] = printed[j] => i = j
    /\ \A i \in 1 .. Len(printed) : printed[i] # printing

OrderShape == Ordered(printed, written, Cuts, Feed, Len(ps))

\* The inductive invariant for the order of packets.
OrderInv == Typed /\ PrintShape /\ OrderShape

LEMMA WayTypes ==
    ASSUME Typed
    PROVE  /\ Feed \in Seq(Pieces) /\ Channel \in Seq(Points)
           /\ Cuts \in Seq(Points)
           /\ Len(ps) \in Nat /\ Len(Cuts) \in Nat /\ Len(ps) <= Len(Cuts)
<1>1. Feed \in Seq(Pieces)
    BY ConcatProperties DEF Feed, Typed, TypeOK
<1>2. Channel \in Seq(Points)
    <2>1. <<>> \in Seq(Points)
        BY EmptySeq
    <2> QED BY <2>1 DEF Channel, Typed, ChannelShape
<1>3. ps \in Seq(Points) /\ Len(ps) \in Nat /\ Len(Channel) \in Nat
    BY <1>2, LenProperties DEF Typed, TypeOK
<1>4. Cuts \in Seq(Points) /\ Len(Cuts) = Len(ps) + Len(Channel)
    BY <1>2, <1>3, ConcatProperties DEF Cuts
<1> QED BY <1>1, <1>2, <1>3, <1>4

\* What arrives is the last of what is not cut out.
LEMMA FeedAppend ==
    ASSUME TypeOK, NEW e \in Pieces, UNCHANGED buftotal,
           tty' = Append(tty, e)
    PROVE  Feed' = Append(Feed, e)
<1>1. buftotal \in Seq(Pieces) /\ tty \in Seq(Pieces)
    BY DEF TypeOK
<1>2. Append(tty, e) = tty \o <<e>>
    BY <1>1, AppendIsConcat
<1>3. Append(buftotal \o tty, e) = (buftotal \o tty) \o <<e>>
    BY <1>1, ConcatProperties, AppendIsConcat
<1>4. <<e>> \in Seq(Pieces)
    OBVIOUS
<1>5. (buftotal \o tty) \o <<e>> = buftotal \o (tty \o <<e>>)
    BY <1>1, <1>4, ConcatAssociative
<1> QED BY <1>2, <1>3, <1>5 DEF Feed

LEMMA FeedArrives ==
    ASSUME TypeOK, NEW e \in Pieces, UNCHANGED buftotal,
           tty' = Append(tty, e) \/ UNCHANGED tty
    PROVE  Feed' = Append(Feed, e) \/ Feed' = Feed
<1>1. CASE UNCHANGED tty
    BY <1>1 DEF Feed
<1>2. CASE tty' = Append(tty, e)
    BY <1>2, FeedAppend
<1> QED BY <1>1, <1>2

\* Cutting the first of two sequences that follow each other.
LEMMA CutConcat ==
    ASSUME NEW S, NEW s \in Seq(S), NEW t \in Seq(S), NEW k \in 0 .. Len(s)
    PROVE  SubSeq(s, k + 1, Len(s)) \o t = SubSeq(s \o t, k + 1, Len(s \o t))
<1> DEFINE a == SubSeq(s, k + 1, Len(s))
           st == s \o t
           b == SubSeq(st, k + 1, Len(st))
           at == a \o t
<1>1. Len(s) \in Nat /\ Len(t) \in Nat /\ k \in Nat /\ k <= Len(s)
    BY LenProperties
<1>2. /\ st \in Seq(S) /\ Len(st) = Len(s) + Len(t)
      /\ \A i \in 1 .. Len(s) + Len(t) :
            st[i] = IF i <= Len(s) THEN s[i] ELSE t[i - Len(s)]
    BY ConcatProperties
<1>3. /\ a \in Seq(S) /\ Len(a) = Len(s) - k
      /\ \A i \in 1 .. Len(s) - k : a[i] = s[k + i]
    BY Suffix
<1>4. k \in 0 .. Len(st)
    BY <1>1, <1>2
<1> HIDE DEF st, a
<1>5. /\ b \in Seq(S) /\ Len(b) = Len(st) - k
      /\ \A i \in 1 .. Len(st) - k : b[i] = st[k + i]
    BY <1>2, <1>4, Suffix
<1>6. /\ at \in Seq(S) /\ Len(at) = Len(a) + Len(t)
      /\ \A i \in 1 .. Len(a) + Len(t) :
            at[i] = IF i <= Len(a) THEN a[i] ELSE t[i - Len(a)]
    BY <1>3, ConcatProperties
<1> HIDE DEF b, at
<1>7. Len(at) = Len(b)
    BY <1>1, <1>2, <1>3, <1>5, <1>6
<1>8. ASSUME NEW i \in 1 .. Len(at)
      PROVE  at[i] = b[i]
    <2>1. /\ i \in 1 .. Len(a) + Len(t) /\ i \in 1 .. Len(st) - k
          /\ k + i \in 1 .. Len(s) + Len(t)
        BY <1>1, <1>2, <1>3, <1>5, <1>6, <1>7
    <2>2. CASE i <= Len(a)
        <3>1. i \in 1 .. Len(s) - k /\ k + i <= Len(s)
            BY <1>1, <1>3, <2>1, <2>2
        <3> QED BY <1>2, <1>3, <1>5, <1>6, <2>1, <2>2, <3>1
    <2>3. CASE ~(i <= Len(a))
        <3>1. ~(k + i <= Len(s)) /\ i - Len(a) = (k + i) - Len(s)
            BY <1>1, <1>3, <2>1, <2>3
        <3> QED BY <1>2, <1>5, <1>6, <2>1, <2>3, <3>1
    <2> QED BY <2>2, <2>3
<1>9. at = b
    BY <1>5, <1>6, <1>7, <1>8, SeqEqual
<1> QED BY <1>9 DEF at, b, st, a

\* What is read of the line and what is not.
LEMMA FeedSplit ==
    ASSUME Typed, NEW n \in 0 .. Len(tty)
    PROVE  LET buf  == buftotal \o SubSeq(tty, 1, n)
               rest == SubSeq(tty, n + 1, Len(tty))
           IN  buf \in Seq(Pieces) /\ rest \in Seq(Pieces) /\ Feed = buf \o rest
<1> DEFINE read == SubSeq(tty, 1, n)
           rest == SubSeq(tty, n + 1, Len(tty))
<1>1. buftotal \in Seq(Pieces) /\ tty \in Seq(Pieces) /\ Len(tty) \in Nat
    BY LenProperties DEF Typed, TypeOK
<1>2. read \in Seq(Pieces) /\ rest \in Seq(Pieces)
    BY <1>1, Prefix, Suffix
<1>3. read \o rest = tty
    <2>1. /\ 1 \in 1 .. Len(tty) + 1 /\ n \in 1 - 1 .. Len(tty)
          /\ Len(tty) \in n .. Len(tty)
        BY <1>1
    <2>2. read \o rest = SubSeq(tty, 1, Len(tty))
        BY <1>1, <2>1, ConcatAdjacentSubSeq
    <2> QED BY <1>1, <2>2, SubSeqFull
<1> HIDE DEF read, rest
<1>4. (buftotal \o read) \o rest = buftotal \o (read \o rest)
    BY <1>1, <1>2, ConcatAssociative
<1>5. buftotal \o read \in Seq(Pieces)
    BY <1>1, <1>2, ConcatProperties
<1> QED BY <1>2, <1>3, <1>4, <1>5 DEF Feed, read, rest

\* A read moves pieces from the line to buftotal, and may cut a packet out.
LEMMA FeedRead ==
    ASSUME Typed, NEW n, NEW k, ReadStep(n, k)
    PROVE  \/ /\ Feed' = Feed
              /\ UNCHANGED <<workerPc, pkt>>
           \/ /\ k \in 1 .. Len(Feed) /\ IsClose(Feed[k])
              /\ Feed' = SubSeq(Feed, k + 1, Len(Feed))
              /\ workerPc' = "send" /\ pkt' \in Points
              /\ pkt'.pkt = Feed[k].pkt
<1> DEFINE rest == SubSeq(tty, n + 1, Len(tty))
           buf == buftotal \o SubSeq(tty, 1, n)
<1>1. /\ n \in 0 .. Len(tty) /\ tty' = rest
      /\ \/ /\ k = 0 /\ buftotal' = buf
            /\ UNCHANGED <<workerPc, pkt>>
         \/ /\ k \in 1 .. Len(buf)
            /\ buf[k].kind = "close"
            /\ buftotal' = SubSeq(buf, k + 1, Len(buf))
            /\ \E i \in 1 .. Len(buf) : pkt' \in Cut(buf, i, k)
            /\ workerPc' = "send"
    BY DEF ReadStep
<1>4. buf \in Seq(Pieces) /\ rest \in Seq(Pieces) /\ Feed = buf \o rest
    BY <1>1, FeedSplit
<1>5. Feed' = buftotal' \o rest
    BY <1>1 DEF Feed
<1> HIDE DEF rest, buf
<1>6. CASE k = 0 /\ buftotal' = buf /\ UNCHANGED <<workerPc, pkt>>
    BY <1>4, <1>5, <1>6
<1>7. CASE /\ k \in 1 .. Len(buf)
           /\ buf[k].kind = "close"
           /\ buftotal' = SubSeq(buf, k + 1, Len(buf))
           /\ \E i \in 1 .. Len(buf) : pkt' \in Cut(buf, i, k)
           /\ workerPc' = "send"
    <2>1. Len(buf) \in Nat /\ Len(rest) \in Nat /\ k \in 0 .. Len(buf)
        BY <1>4, <1>7, LenProperties
    <2>2. Feed' = SubSeq(Feed, k + 1, Len(Feed))
        BY <1>4, <1>5, <1>7, <2>1, CutConcat
    <2>3. Len(Feed) = Len(buf) + Len(rest) /\ Feed[k] = buf[k]
        <3>1. k \in 1 .. Len(buf) + Len(rest) /\ k <= Len(buf)
            BY <1>7, <2>1
        <3> QED BY <1>4, <3>1, ConcatProperties
    <2>4. k \in 1 .. Len(Feed)
        BY <1>7, <2>1, <2>3
    <2>5. pkt' \in Points /\ pkt'.pkt = buf[k].pkt
        BY <1>4, <1>7, CutType DEF Typed
    <2> QED BY <1>7, <2>2, <2>3, <2>4, <2>5 DEF IsClose
<1> QED BY <1>1, <1>6, <1>7

\* A printed packet comes before the one that is printed after it.
LEMMA PrintedFirst ==
    ASSUME NEW pr \in Seq(Packets), NEW p \in Packets,
           NEW d, NEW c, NEW f, NEW n, Ordered(pr, d, c, f, n)
    PROVE  LET more == Append(pr, p)
           IN  /\ Occurs(more, p)
               /\ \A i \in 1 .. Len(d) : Before(more, d[i].pkt, p)
               /\ \A i \in 1 .. Len(c) : Before(more, c[i].pkt, p)
               /\ \A i \in 1 .. Len(f) :
                    IsClose(f[i]) => Before(more, f[i].pkt, p)
BY PrintedMore DEF Ordered, SortedPoints, SortedPieces

\* The head of the list is the first of what was cut out.
LEMMA CutsHead ==
    ASSUME Typed, ps # <<>>
    PROVE  /\ Cuts # <<>> /\ Cuts[1] = Head(ps) /\ Head(ps) \in Points
           /\ Tail(ps) \in Seq(Points) /\ Len(Tail(ps)) = Len(ps) - 1
           /\ Tail(Cuts) = Tail(ps) \o Channel
           /\ Len(ps) \in Nat \ {0}
<1>1. /\ Head(ps) = ps[1] /\ Len(ps) \in Nat \ {0} /\ Head(ps) \in Points
      /\ Tail(ps) \in Seq(Points) /\ ps \in Seq(Points)
    BY HeadType DEF Typed, TypeOK
<1>2. Channel \in Seq(Points) /\ Cuts \in Seq(Points) /\ Len(Channel) \in Nat
    BY WayTypes, LenProperties
<1>3. /\ Len(Cuts) = Len(ps) + Len(Channel)
      /\ \A i \in 1 .. Len(ps) + Len(Channel) :
            Cuts[i] = IF i <= Len(ps) THEN ps[i] ELSE Channel[i - Len(ps)]
    BY <1>1, <1>2, ConcatProperties DEF Cuts
<1>4. Cuts # <<>> /\ Cuts[1] = ps[1]
    <2>1. Len(Cuts) > 0
        BY <1>1, <1>2, <1>3
    <2> QED BY <1>1, <1>2, <1>3, <2>1, EmptySeq
<1> DEFINE a == Tail(ps)
           b == Tail(Cuts)
           ab == a \o Channel
<1>5. /\ Len(a) = Len(ps) - 1
      /\ \A i \in 1 .. Len(a) : a[i] = ps[i + 1]
      /\ b \in Seq(Points) /\ Len(b) = Len(Cuts) - 1
      /\ \A i \in 1 .. Len(b) : b[i] = Cuts[i + 1]
    BY <1>1, <1>2, <1>4, HeadTailProperties
<1>6. /\ ab \in Seq(Points) /\ Len(ab) = Len(a) + Len(Channel)
      /\ \A i \in 1 .. Len(a) + Len(Channel) :
            ab[i] = IF i <= Len(a) THEN a[i] ELSE Channel[i - Len(a)]
    BY <1>1, <1>2, ConcatProperties
<1>7. ab = b
    <2> HIDE DEF a, b, ab
    <2>1. Len(ab) = Len(b)
        BY <1>1, <1>2, <1>3, <1>5, <1>6
    <2>2. ASSUME NEW i \in 1 .. Len(ab)
          PROVE  ab[i] = b[i]
        <3>1. /\ i \in 1 .. Len(a) + Len(Channel) /\ i \in 1 .. Len(b)
              /\ i + 1 \in 1 .. Len(ps) + Len(Channel)
            BY <1>1, <1>2, <1>3, <1>5, <1>6, <2>1
        <3>2. CASE i <= Len(a)
            <4>1. i \in 1 .. Len(a) /\ i + 1 <= Len(ps)
                BY <1>1, <1>5, <3>1, <3>2
            <4> QED BY <1>3, <1>5, <1>6, <3>1, <3>2, <4>1
        <3>3. CASE ~(i <= Len(a))
            <4>1. ~(i + 1 <= Len(ps)) /\ i - Len(a) = (i + 1) - Len(ps)
                BY <1>1, <1>5, <3>1, <3>3
            <4> QED BY <1>3, <1>5, <1>6, <3>1, <3>3, <4>1
        <3> QED BY <3>2, <3>3
    <2> QED BY <1>5, <1>6, <2>1, <2>2, SeqEqual
<1> QED BY <1>1, <1>4, <1>5, <1>7

\* A step that leaves the way of packets alone.
LEMMA SameWay ==
    ASSUME OrderInv,
           UNCHANGED <<printed, printing, written, buftotal, tty, workerPc, pkt, ps>>
    PROVE  PrintShape' /\ OrderShape'
BY DEF OrderInv, PrintShape, OrderShape, Feed, Cuts, Channel

\* The end of the process forgets what was cut out and what was not.
LEMMA DiesWay ==
    ASSUME OrderInv, Dies, UNCHANGED <<boardVars, written>>
    PROVE  PrintShape' /\ OrderShape'
<1>1. PrintShape'
    BY DEF OrderInv, PrintShape, boardVars
<1>2. Feed' = <<>> /\ Cuts' = <<>>
    BY DEF Dies, Feed, Cuts, Channel
<1>3. Ordered(printed, written, <<>>, <<>>, Len(ps'))
    BY OrderedNothing DEF OrderInv, OrderShape
<1> QED BY <1>1, <1>2, <1>3 DEF OrderShape, boardVars

\* A piece that does not end a packet arrives.
LEMMA PieceWay ==
    ASSUME OrderInv, NEW e \in Pieces, ~IsClose(e),
           tty' = Append(tty, e) \/ UNCHANGED tty,
           UNCHANGED <<printed, written, buftotal, workerPc, pkt, ps>>
    PROVE  OrderShape'
<1>1. Feed' = Append(Feed, e) \/ Feed' = Feed
    BY FeedArrives DEF OrderInv, Typed
<1>2. Feed \in Seq(Pieces)
    BY WayTypes DEF OrderInv
<1>3. Ordered(printed, written, Cuts, Append(Feed, e), Len(ps))
    BY <1>2, OrderedArrival DEF OrderInv, OrderShape
<1>4. Cuts' = Cuts
    BY DEF Cuts, Channel
<1> QED BY <1>1, <1>3, <1>4 DEF OrderInv, OrderShape

LEMMA PrintCloseWay ==
    ASSUME OrderInv, PrintClose
    PROVE  PrintShape' /\ OrderShape'
<1> DEFINE more == Append(printed, printing)
           e == Close(printing)
<1>1. printing \in Packets /\ printed \in Seq(Packets)
    BY DEF PrintClose, OrderInv, Typed, TypeOK
<1>2. /\ printed' = more /\ printing' = None /\ UNCHANGED <<written, buftotal>>
      /\ UNCHANGED <<workerPc, pkt, ps>>
      /\ tty' = Append(tty, e) \/ UNCHANGED tty
    BY DEF PrintClose, Arrives, workerVars, mainVars, dbVars
<1>3. e \in Pieces /\ IsClose(e) /\ e.pkt = printing
    BY <1>1 DEF Close, Pieces, IsClose
<1>4. Feed' = Append(Feed, e) \/ Feed' = Feed
    BY <1>2, <1>3, FeedArrives DEF OrderInv, Typed
<1>5. Feed \in Seq(Pieces) /\ Cuts' = Cuts
    BY <1>2, WayTypes DEF OrderInv, Cuts, Channel
<1>6. Ordered(more, written, Cuts, Feed, Len(ps))
    BY <1>1, OrderedPrintedMore DEF OrderInv, OrderShape
<1>7. Ordered(more, written, Cuts, Append(Feed, e), Len(ps))
    <2>1. /\ Occurs(more, printing)
          /\ \A i \in 1 .. Len(written) : Before(more, written[i].pkt, printing)
          /\ \A i \in 1 .. Len(Cuts) : Before(more, Cuts[i].pkt, printing)
          /\ \A i \in 1 .. Len(Feed) :
                IsClose(Feed[i]) => Before(more, Feed[i].pkt, printing)
        BY <1>1, PrintedFirst DEF OrderInv, OrderShape
    <2> HIDE DEF more, e
    <2> QED BY <1>3, <1>5, <1>6, <2>1, OrderedArrival
<1>8. OrderShape'
    BY <1>2, <1>4, <1>5, <1>6, <1>7 DEF OrderShape
<1>9. PrintShape'
    <2>1. /\ Len(more) = Len(printed) + 1 /\ Len(printed) \in Nat
          /\ \A i \in 1 .. Len(printed) : more[i] = printed[i]
          /\ more[Len(printed) + 1] = printing
          /\ more \in Seq(Packets)
        BY <1>1, Appended, LenProperties
    <2> HIDE DEF more
    <2>2. \A i \in 1 .. Len(more) :
            i \in 1 .. Len(printed) \/ i = Len(printed) + 1
        BY <2>1
    <2>3. \A i, j \in 1 .. Len(more) : more[i] = more[j] => i = j
        BY <2>1, <2>2 DEF OrderInv, PrintShape
    <2>4. \A i \in 1 .. Len(more) : more[i] # None
        BY <2>1, ElementOfSeq, PacketAssumption
    <2> QED BY <1>2, <2>3, <2>4 DEF PrintShape
<1> QED BY <1>8, <1>9

LEMMA ReadWay ==
    ASSUME OrderInv, ReadSerial
    PROVE  PrintShape' /\ OrderShape'
<1>1. /\ UNCHANGED <<printed, printing, written, ps>> /\ workerPc = "read"
      /\ Typed
    BY DEF ReadSerial, boardVars, mainVars, dbVars, OrderInv
<1>2. PICK n, k : ReadStep(n, k)
    BY ReadSteps
<1>3. PrintShape'
    BY <1>1 DEF OrderInv, PrintShape
<1>4. CASE Feed' = Feed /\ UNCHANGED <<workerPc, pkt>>
    BY <1>1, <1>3, <1>4 DEF OrderInv, OrderShape, Cuts, Channel
<1>5. CASE /\ k \in 1 .. Len(Feed) /\ IsClose(Feed[k])
           /\ Feed' = SubSeq(Feed, k + 1, Len(Feed))
           /\ workerPc' = "send" /\ pkt' \in Points
           /\ pkt'.pkt = Feed[k].pkt
    <2>1. ps \in Seq(Points)
        BY <1>1 DEF Typed, TypeOK
    <2>2. Cuts = ps
        BY <1>1, <2>1, ConcatEmptySeq DEF Cuts, Channel
    <2>3. Cuts' = Append(Cuts, pkt')
        <3>1. Append(ps, pkt') = ps \o <<pkt'>>
            BY <1>5, <2>1, AppendIsConcat
        <3> QED BY <1>1, <1>5, <2>2, <3>1 DEF Cuts, Channel
    <2>4. Ordered(printed, written, Append(Cuts, pkt'),
                  SubSeq(Feed, k + 1, Len(Feed)), Len(ps))
        BY <1>1, <1>5, WayTypes, OrderedCut DEF OrderInv, OrderShape
    <2> QED BY <1>1, <1>3, <1>5, <2>3, <2>4 DEF OrderShape
<1> QED BY <1>1, <1>2, <1>4, <1>5, FeedRead

\* What is handed over was the last of what is cut out, and remains it.
LEMMA HandoverCuts ==
    ASSUME Typed, Handover
    PROVE  Cuts' = Cuts
<1>1. workerPc = "send" /\ workerPc' = "read" /\ ps' = Append(ps, pkt)
    BY DEF Handover
<1>2. pkt \in Points /\ ps \in Seq(Points)
    BY <1>1 DEF Typed, TypeOK, ChannelShape
<1>3. Append(ps, pkt) = ps \o <<pkt>> /\ Append(ps, pkt) \in Seq(Points)
    BY <1>2, AppendIsConcat, AppendProperties
<1> QED BY <1>1, <1>3, ConcatEmptySeq DEF Cuts, Channel

LEMMA HandoverWay ==
    ASSUME OrderInv, Handover
    PROVE  PrintShape' /\ OrderShape'
<1>1. /\ UNCHANGED <<printed, printing, written, buftotal, tty>> /\ Typed
      /\ workerPc = "send" /\ ps' = Append(ps, pkt)
    BY DEF Handover, boardVars, lineVars, dbVars, OrderInv
<1>2. pkt \in Points /\ ps \in Seq(Points) /\ Len(ps) \in Nat
    BY <1>1, LenProperties DEF Typed, TypeOK, ChannelShape
<1>3. Len(Append(ps, pkt)) = Len(ps) + 1
    BY <1>2, AppendProperties
<1>4. Cuts' = Cuts
    BY <1>1, HandoverCuts
<1>5. Ordered(printed, written, Cuts, Feed, Len(ps) + 1)
    <2>1. Len(ps) + 1 \in Nat /\ Len(ps) <= Len(ps) + 1
        BY <1>2
    <2> QED BY <1>2, <2>1, OrderedLonger DEF OrderInv, OrderShape
<1>6. Feed' = Feed
    BY <1>1 DEF Feed
<1>7. OrderShape'
    BY <1>1, <1>3, <1>4, <1>5, <1>6 DEF OrderShape
<1> QED BY <1>1, <1>7 DEF OrderInv, PrintShape

\* Writing the head of the list, whether or not it was there, keeps the order.
LEMMA WrittenWay ==
    ASSUME OrderInv, ps # <<>>
    PROVE  /\ Added(Head(ps)) \in Seq(Points)
           /\ Ordered(printed, Added(Head(ps)), Cuts, Feed, Len(ps))
<1>1. /\ Cuts # <<>> /\ Cuts[1] = Head(ps) /\ Len(ps) \in Nat /\ Len(ps) > 0
      /\ Cuts \in Seq(Points) /\ written \in Seq(Points)
    BY CutsHead, WayTypes DEF OrderInv, Typed, TypeOK
<1>2. Ordered(printed, written, Cuts, Feed, Len(ps))
    BY DEF OrderInv, OrderShape
<1> HIDE DEF Cuts
<1> QED BY <1>1, <1>2, OrderedWritten DEF Added

LEMMA WriteSucceedsWay ==
    ASSUME OrderInv, WriteSucceeds
    PROVE  /\ PrintShape' /\ OrderShape'
           /\ Ordered(printed', written', Cuts', Feed', 0)
<1>1. /\ UNCHANGED <<printed, printing, buftotal, tty, workerPc, pkt>>
      /\ ps # <<>> /\ ps' = Tail(ps) /\ written' = Added(Head(ps)) /\ Typed
    BY DEF WriteSucceeds, Written, Added, boardVars, lineVars, workerVars,
        OrderInv
<1>2. Feed' = Feed /\ Cuts' = Tail(Cuts) /\ Cuts # <<>>
    BY <1>1, CutsHead DEF Feed, Cuts, Channel
<1>3. /\ Ordered(printed, written', Cuts, Feed, Len(ps))
      /\ Cuts \in Seq(Points) /\ Len(ps) \in Nat
    BY <1>1, WrittenWay, WayTypes
<1>4. \A m : Ordered(printed, written', Tail(Cuts), Feed, m)
    BY <1>2, <1>3, OrderedRemoved
<1> QED BY <1>1, <1>2, <1>4 DEF OrderInv, OrderShape, PrintShape

LEMMA WriteFailsWay ==
    ASSUME OrderInv, WriteFails
    PROVE  PrintShape' /\ OrderShape'
<1>1. /\ UNCHANGED <<printed, printing, buftotal, tty, workerPc, pkt, ps>>
      /\ ps # <<>> /\ (written' = written \/ written' = Added(Head(ps)))
    BY DEF WriteFails, Written, Added, boardVars, lineVars, workerVars, dbVars
<1>2. Feed' = Feed /\ Cuts' = Cuts
    BY <1>1 DEF Feed, Cuts, Channel
<1>3. Ordered(printed, written', Cuts, Feed, Len(ps))
    BY <1>1, WrittenWay DEF OrderInv, OrderShape
<1> QED BY <1>1, <1>2, <1>3 DEF OrderInv, OrderShape, PrintShape

LEMMA OrderStep == OrderInv /\ [Next]_vars => OrderInv'
<1> SUFFICES ASSUME OrderInv, [Next]_vars
             PROVE  PrintShape' /\ OrderShape'
    BY TypeStep DEF OrderInv
<1> USE DEF boardVars, workerVars, mainVars, envVars, losses, lineVars, dbVars
<1>1. CASE UNCHANGED vars
    BY <1>1, SameWay DEF vars
<1>2. ASSUME NEW p \in Packets, PrintOpen(p)
      PROVE  PrintShape' /\ OrderShape'
    <2>1. Open(p) \in Pieces /\ ~IsClose(Open(p))
        BY DEF Open, Pieces, IsClose
    <2>2. tty' = Append(tty, Open(p)) \/ UNCHANGED tty
        BY <1>2 DEF PrintOpen, Arrives
    <2>3. OrderShape'
        BY <1>2, <2>1, <2>2, PieceWay DEF PrintOpen
    <2>4. ToSet(printed) = {printed[i] : i \in 1 .. Len(printed)}
        BY ToSetIndex DEF OrderInv, Typed, TypeOK
    <2>5. PrintShape'
        BY <1>2, <2>4 DEF OrderInv, PrintShape, PrintOpen
    <2> QED BY <2>3, <2>5
<1>3. CASE PrintClose
    BY <1>3, PrintCloseWay
<1>4. CASE PrintText
    BY <1>4, SameWay DEF PrintText
<1>5. CASE BoardResets
    <2>1. Prompt \in Pieces /\ ~IsClose(Prompt)
        BY DEF Prompt, Pieces, IsClose
    <2>2. tty' = Append(tty, Prompt) \/ UNCHANGED tty
        BY <1>5 DEF BoardResets
    <2>3. OrderShape'
        BY <1>5, <2>1, <2>2, PieceWay DEF BoardResets
    <2>4. printed \in Seq(Packets)
        BY DEF OrderInv, Typed, TypeOK
    <2>5. \A i \in 1 .. Len(printed) : printed[i] # None
        BY <2>4, ElementOfSeq, PacketAssumption
    <2>6. PrintShape'
        BY <1>5, <2>5 DEF OrderInv, PrintShape, BoardResets
    <2> QED BY <2>3, <2>6
<1>6. CASE InfluxChanges
    BY <1>6, SameWay DEF InfluxChanges
<1>7. CASE Tick
    BY <1>7, SameWay DEF Tick
<1>8. CASE Killed
    BY <1>8, DiesWay DEF Killed
<1>9. CASE Start
    BY <1>9, SameWay DEF Start
<1>10. CASE Configure
    <2>1. UNCHANGED <<printed, printing, written, buftotal, tty, pkt, ps>>
          /\ workerPc = "config" /\ workerPc' = "read"
        BY <1>10 DEF Configure
    <2>2. Feed' = Feed /\ Cuts' = Cuts
        BY <2>1 DEF Feed, Cuts, Channel
    <2> QED BY <2>1, <2>2 DEF OrderInv, PrintShape, OrderShape
<1>11. CASE ConfigureFails
    BY <1>11, DiesWay DEF ConfigureFails
<1>12. CASE ReadSerial
    BY <1>12, ReadWay
<1>13. CASE Handover
    BY <1>13, HandoverWay
<1>14. CASE CreateClient
    BY <1>14, SameWay DEF CreateClient
<1>15. CASE CreateClientFails
    BY <1>15, DiesWay DEF CreateClientFails
<1>16. CASE WriteSucceeds
    BY <1>16, WriteSucceedsWay
<1>17. CASE WriteFails
    BY <1>17, WriteFailsWay
<1>18. CASE ListEmpty
    BY <1>18, SameWay DEF ListEmpty
<1>19. CASE OpenPort
    <2>1. UNCHANGED <<printed, printing, written, buftotal, tty, pkt, ps>>
          /\ workerPc = "open" /\ workerPc' = "config"
        BY <1>19 DEF OpenPort
    <2>2. Feed' = Feed /\ Cuts' = Cuts
        BY <2>1 DEF Feed, Cuts, Channel
    <2> QED BY <2>1, <2>2 DEF OrderInv, PrintShape, OrderShape
<1>20. CASE OpenPortFails
    BY <1>20, DiesWay DEF OpenPortFails
<1> QED BY <1>1, <1>2, <1>3, <1>4, <1>5, <1>6, <1>7, <1>8, <1>9, <1>10, <1>11,
    <1>12, <1>13, <1>14, <1>15, <1>16, <1>17, <1>18,
    <1>19, <1>20
    DEF Next, BoardNext, WorkerNext, MainNext

LEMMA OrderInit == Init => OrderInv
<1> SUFFICES ASSUME Init
             PROVE  OrderInv
    OBVIOUS
<1>1. Typed
    BY TypeInit
<1>2. PrintShape
    BY DEF Init, PrintShape
<1>3. written = <<>> /\ Cuts = <<>> /\ Feed = <<>>
    BY DEF Init, Cuts, Channel, Feed
<1>4. OrderShape
    BY <1>3 DEF OrderShape, Ordered, SortedPoints, SortedPieces,
        PointsThenPieces, StoredThenCut
<1> QED BY <1>1, <1>2, <1>4 DEF OrderInv

LEMMA OrderAlways == Spec => []OrderInv
<1> QED BY OrderInit, OrderStep, PTL DEF Spec
-----------------------------------------------------------------------------
(***************************************************************************)
(* What follows: the order of the points, and the refinement.              *)
(***************************************************************************)
\* A packet is not before itself, for it is printed once.
LEMMA NotBeforeItself ==
    ASSUME PrintShape, NEW p
    PROVE  ~Before(printed, p, p)
BY DEF PrintShape, Before

-----------------------------------------------------------------------------
(***************************************************************************)
(* The database.  A cell holds the value of the last point that gave it    *)
(* one, and none if there was no such point.                               *)
(***************************************************************************)
LastGiver(w, c, j) ==
    /\ j \in 1 .. Len(w) /\ Gives(w[j], c)
    /\ \A i \in 1 .. Len(w) : i > j => ~Gives(w[i], c)

HoldsLast(d, w, c) ==
    \/ d[c] = None /\ \A i \in 1 .. Len(w) : ~Gives(w[i], c)
    \/ \E j : LastGiver(w, c, j) /\ d[c] = w[j].pkt

Latest == \A c \in Cells : HoldsLast(db, written, c)

\* The inductive invariant for what is stored.
StoredInv == OrderInv /\ Latest

\* Only the point that was written last can be written again.
LEMMA RewrittenIsLast ==
    ASSUME OrderInv, ps # <<>>, Head(ps) \in ToSet(written)
    PROVE  Len(written) \in Nat \ {0} /\ written[Len(written)] = Head(ps)
<1>1. /\ Cuts # <<>> /\ Cuts[1] = Head(ps) /\ Cuts \in Seq(Points)
      /\ written \in Seq(Points) /\ Len(written) \in Nat
      /\ StoredThenCut(printed, written, Cuts, Len(ps))
    BY CutsHead, WayTypes, LenProperties
    DEF OrderInv, OrderShape, Ordered, Typed, TypeOK
<1>2. PICK i \in 1 .. Len(written) : written[i] = Head(ps)
    BY <1>1, ToSetIndex
<1>3. 1 \in 1 .. Len(Cuts)
    BY <1>1, EmptySeq, LenProperties
<1>4. ~Before(printed, written[i].pkt, Cuts[1].pkt)
    BY <1>1, <1>2, NotBeforeItself DEF OrderInv
<1>5. i = Len(written)
    BY <1>1, <1>3, <1>4 DEF StoredThenCut
<1> QED BY <1>1, <1>2, <1>5

\* So writing a point again changes nothing.
LEMMA RewrittenSame ==
    ASSUME StoredInv, ps # <<>>, Head(ps) \in ToSet(written)
    PROVE  Merged(db, Head(ps)) = db
<1> DEFINE p == Head(ps)
           n == Len(written)
<1>1. n \in Nat \ {0} /\ written[n] = p
    BY RewrittenIsLast DEF StoredInv
<1>2. db \in [Cells -> Packets \cup {None}]
    BY DEF StoredInv, OrderInv, Typed, TypeOK, Databases
<1> HIDE DEF p
<1>3. ASSUME NEW c \in Cells, Gives(p, c)
      PROVE  db[c] = p.pkt
    <2>1. HoldsLast(db, written, c)
        BY DEF StoredInv, Latest
    <2>2. n \in 1 .. n /\ Gives(written[n], c)
        BY <1>1, <1>3
    <2>3. PICK j : LastGiver(written, c, j) /\ db[c] = written[j].pkt
        BY <2>1, <2>2 DEF HoldsLast
    <2>4. j = n
        BY <1>1, <2>2, <2>3 DEF LastGiver
    <2> QED BY <1>1, <2>3, <2>4
<1>4. [c \in Cells |-> IF Gives(p, c) THEN p.pkt ELSE db[c]] = db
    BY <1>2, <1>3
<1> QED BY <1>4 DEF Merged, p

\* A new point replaces the values of the cells it gives one.
LEMMA LatestNew ==
    ASSUME Latest, NEW p \in Points, written \in Seq(Points),
           written' = Append(written, p), db' = Merged(db, p)
    PROVE  Latest'
<1> DEFINE w == Append(written, p)
           n == Len(written)
<1>1. /\ Len(w) = n + 1 /\ n \in Nat
      /\ \A i \in 1 .. n : w[i] = written[i]
      /\ w[n + 1] = p
    BY Appended, LenProperties
<1> HIDE DEF w
<1>2. \A i \in 1 .. Len(w) : i \in 1 .. n \/ i = n + 1
    BY <1>1
<1> SUFFICES ASSUME NEW c \in Cells
             PROVE  HoldsLast(db', w, c)
    BY DEF Latest, w
<1>3. db'[c] = IF Gives(p, c) THEN p.pkt ELSE db[c]
    BY DEF Merged
<1>4. CASE Gives(p, c)
    <2>1. LastGiver(w, c, n + 1)
        BY <1>1, <1>2, <1>4 DEF LastGiver
    <2> QED BY <1>1, <1>3, <1>4, <2>1 DEF HoldsLast
<1>5. CASE ~Gives(p, c)
    <2>1. db'[c] = db[c] /\ HoldsLast(db, written, c)
        BY <1>3, <1>5 DEF Latest
    <2>2. CASE db[c] = None /\ \A i \in 1 .. n : ~Gives(written[i], c)
        <3>1. \A i \in 1 .. Len(w) : ~Gives(w[i], c)
            BY <1>1, <1>2, <1>5, <2>2
        <3> QED BY <2>1, <2>2, <3>1 DEF HoldsLast
    <2>3. CASE \E j : LastGiver(written, c, j) /\ db[c] = written[j].pkt
        <3>1. PICK j : LastGiver(written, c, j) /\ db[c] = written[j].pkt
            BY <2>3
        <3>2. j \in 1 .. n /\ j \in 1 .. Len(w) /\ w[j] = written[j]
            BY <1>1, <3>1 DEF LastGiver
        <3>3. LastGiver(w, c, j)
            BY <1>1, <1>2, <1>5, <3>1, <3>2 DEF LastGiver
        <3> QED BY <2>1, <3>1, <3>2, <3>3 DEF HoldsLast
    <2> QED BY <2>1, <2>2, <2>3 DEF HoldsLast
<1> QED BY <1>4, <1>5

LEMMA LatestWritten ==
    ASSUME StoredInv, ps # <<>>, Written(Head(ps))
    PROVE  Latest'
<1>1. Head(ps) \in Points /\ written \in Seq(Points)
    BY HeadType DEF StoredInv, OrderInv, Typed, TypeOK
<1>2. CASE Head(ps) \in ToSet(written)
    BY <1>2, RewrittenSame DEF StoredInv, Latest, Written
<1>3. CASE Head(ps) \notin ToSet(written)
    BY <1>1, <1>3, LatestNew DEF StoredInv, Written
<1> QED BY <1>2, <1>3

LEMMA StoredStep == StoredInv /\ [Next]_vars => StoredInv'
<1> SUFFICES ASSUME StoredInv, [Next]_vars
             PROVE  Latest'
    BY OrderStep DEF StoredInv
<1>1. ASSUME UNCHANGED dbVars
      PROVE  Latest'
    BY <1>1 DEF StoredInv, Latest, dbVars
<1>2. CASE UNCHANGED vars
    BY <1>1, <1>2 DEF vars
<1>3. CASE BoardNext
    BY <1>1, <1>3
    DEF BoardNext, PrintOpen, PrintClose, PrintText, BoardResets
<1>4. CASE WorkerNext
    BY <1>1, <1>4
    DEF WorkerNext, OpenPort, OpenPortFails, Configure, ConfigureFails,
        ReadSerial
<1>5. CASE InfluxChanges \/ Tick \/ Killed \/ Start
    BY <1>1, <1>5 DEF InfluxChanges, Tick, Killed, Start
<1>6. CASE Handover \/ CreateClient \/ CreateClientFails \/ ListEmpty
    BY <1>1, <1>6 DEF Handover, CreateClient, CreateClientFails, ListEmpty
<1>7. CASE WriteSucceeds
    BY <1>7, LatestWritten DEF WriteSucceeds
<1>8. CASE WriteFails
    BY <1>1, <1>8, LatestWritten DEF WriteFails
<1> QED BY <1>2, <1>3, <1>4, <1>5, <1>6, <1>7, <1>8 DEF Next, MainNext

LEMMA StoredInit == Init => StoredInv
<1> SUFFICES ASSUME Init
             PROVE  Latest
    BY OrderInit DEF StoredInv
<1>1. written = <<>> /\ db = EmptyTables
    BY DEF Init
<1>2. \A c \in Cells : db[c] = None
    BY <1>1 DEF EmptyTables
<1> QED BY <1>1, <1>2 DEF Latest, HoldsLast

LEMMA StoredAlways == Spec => []StoredInv
<1> QED BY StoredInit, StoredStep, PTL DEF Spec

\* A cell that is not empty holds the value of a point with its mote and time.
LEMMA HeldIsWritten ==
    ASSUME StoredInv, NEW c \in Cells, db[c] # None
    PROVE  \E j \in 1 .. Len(written) :
                /\ db[c] = written[j].pkt
                /\ written[j].smac = c.smac
                /\ written[j].timestamp = c.timestamp
BY DEF StoredInv, Latest, HoldsLast, LastGiver, Gives

\* No two points that were written are of one packet.
LEMMA WrittenOnce ==
    ASSUME OrderInv, NEW i \in 1 .. Len(written), NEW j \in 1 .. Len(written),
           written[i].pkt = written[j].pkt
    PROVE  i = j
<1>1. \A k, l \in 1 .. Len(written) :
        k < l => Before(printed, written[k].pkt, written[l].pkt)
    BY DEF OrderInv, OrderShape, Ordered, SortedPoints
<1>2. ~Before(printed, written[i].pkt, written[j].pkt)
      /\ ~Before(printed, written[j].pkt, written[i].pkt)
    BY NotBeforeItself DEF OrderInv
<1>3. ~(i < j) /\ ~(j < i)
    BY <1>1, <1>2
<1> QED BY <1>3

\* A list that shares nothing with the database follows it.
LEMMA SortedTogether ==
    ASSUME NEW pr, NEW f, NEW d \in Seq(Points), NEW c \in Seq(Points),
           Ordered(pr, d, c, f, 0)
    PROVE  SortedPoints(pr, d \o c)
<1> DEFINE s == d \o c
<1>1. /\ Len(s) = Len(d) + Len(c) /\ Len(d) \in Nat /\ Len(c) \in Nat
      /\ \A i \in 1 .. Len(d) + Len(c) :
            s[i] = IF i <= Len(d) THEN d[i] ELSE c[i - Len(d)]
    BY ConcatProperties, LenProperties
<1> HIDE DEF s
<1>2. \A i \in 1 .. Len(s) :
        \/ i \in 1 .. Len(d) /\ s[i] = d[i]
        \/ i > Len(d) /\ i - Len(d) \in 1 .. Len(c) /\ s[i] = c[i - Len(d)]
    BY <1>1
<1>3. \A i \in 1 .. Len(s) : Occurs(pr, s[i].pkt)
    BY <1>2 DEF Ordered, SortedPoints
<1>4. ASSUME NEW i \in 1 .. Len(s), NEW j \in 1 .. Len(s), i < j
      PROVE  Before(pr, s[i].pkt, s[j].pkt)
    <2>1. CASE j \in 1 .. Len(d) /\ s[j] = d[j]
        <3>1. i \in 1 .. Len(d) /\ s[i] = d[i]
            BY <1>1, <1>2, <1>4, <2>1
        <3> QED BY <1>4, <2>1, <3>1 DEF Ordered, SortedPoints
    <2>2. CASE j - Len(d) \in 1 .. Len(c) /\ s[j] = c[j - Len(d)]
        <3>1. CASE i \in 1 .. Len(d) /\ s[i] = d[i]
            BY <2>2, <3>1 DEF Ordered, StoredThenCut
        <3>2. CASE i - Len(d) \in 1 .. Len(c) /\ s[i] = c[i - Len(d)]
            <4>1. i - Len(d) < j - Len(d)
                BY <1>1, <1>4
            <4> QED BY <2>2, <3>2, <4>1 DEF Ordered, SortedPoints
        <3> QED BY <1>2, <3>1, <3>2
    <2> QED BY <1>2, <2>1, <2>2
<1> QED BY <1>3, <1>4 DEF SortedPoints, s

\* Only the head of the list may be in the database.
LEMMA OthersNotStored ==
    ASSUME OrderInv, ps # <<>>
    PROVE  /\ Ordered(printed, written, Tail(Cuts), Feed, 0)
           /\ Head(ps) \notin ToSet(written) => Ordered(printed, written, Cuts, Feed, 0)
<1>1. /\ Cuts # <<>> /\ Cuts \in Seq(Points) /\ Cuts[1] = Head(ps)
      /\ written \in Seq(Points) /\ Len(ps) \in Nat
      /\ Ordered(printed, written, Cuts, Feed, Len(ps))
    BY CutsHead, WayTypes DEF OrderInv, OrderShape, Typed, TypeOK
<1>2. ToSet(written) = {written[i] : i \in 1 .. Len(written)}
    BY <1>1, ToSetIndex
<1> HIDE DEF Cuts
<1>3. Ordered(printed, written, Tail(Cuts), Feed, 0)
    BY <1>1, OrderedRemoved
<1>4. ASSUME Head(ps) \notin ToSet(written)
      PROVE  Ordered(printed, written, Cuts, Feed, 0)
    BY <1>1, <1>2, <1>4 DEF Ordered, StoredThenCut
<1> QED BY <1>3, <1>4

\* CutOut without its case distinction.
LEMMA CutOutIs ==
    ASSUME OrderInv
    PROVE  \E c \in Seq(Points) :
                /\ CutOut = written \o c
                /\ c = Cuts \/ (Cuts # <<>> /\ c = Tail(Cuts))
                /\ Ordered(printed, written, c, Feed, 0)
<1>1. /\ Channel \in Seq(Points) /\ Cuts \in Seq(Points)
      /\ written \in Seq(Points) /\ ps \in Seq(Points)
    BY WayTypes DEF OrderInv, Typed, TypeOK
<1>2. Pending \in Seq(Points)
    BY <1>1, HeadTailProperties DEF Pending
<1>3. CutOut = written \o (Pending \o Channel)
    <2>1. CutOut = (written \o Pending) \o Channel
        BY <1>1, <1>2, ConcatAssociative DEF CutOut, Channel
    <2> QED BY <1>1, <1>2, <2>1, ConcatAssociative
<1>4. CASE ps # <<>> /\ Head(ps) \in ToSet(written)
    <2>1. Pending \o Channel = Tail(Cuts)
        BY <1>4, CutsHead DEF Pending, OrderInv
    <2>2. Tail(Cuts) \in Seq(Points)
        BY <1>1, <1>4, CutsHead, HeadTailProperties DEF OrderInv
    <2>3. Cuts # <<>>
        BY <1>4, CutsHead DEF OrderInv
    <2> QED BY <1>3, <1>4, <2>1, <2>2, <2>3, OthersNotStored
<1>5. CASE ~(ps # <<>> /\ Head(ps) \in ToSet(written))
    <2>1. Pending = ps
        BY <1>5 DEF Pending
    <2>2. Pending \o Channel = Cuts
        BY <2>1 DEF Cuts
    <2>3. Ordered(printed, written, Cuts, Feed, 0)
        <3>1. CASE ps # <<>>
            BY <1>5, <3>1, OthersNotStored
        <3>2. CASE ps = <<>>
            <4>1. Len(ps) = 0
                BY <3>2
            <4> QED BY <4>1 DEF OrderInv, OrderShape
        <3> QED BY <3>1, <3>2
    <2> QED BY <1>1, <1>3, <2>2, <2>3
<1> QED BY <1>4, <1>5

LEMMA PrintedAtBefore ==
    ASSUME PrintShape, NEW p, NEW q, Before(printed, p, q),
           printed \in Seq(Packets)
    PROVE  PrintedAt(p) < PrintedAt(q)
<1>1. PICK i, j \in 1 .. Len(printed) :
        i < j /\ printed[i] = p /\ printed[j] = q
    BY DEF Before
<1>2. PrintedAt(p) = i
    BY <1>1 DEF PrintedAt, PrintShape
<1>3. PrintedAt(q) = j
    BY <1>1 DEF PrintedAt, PrintShape
<1> QED BY <1>1, <1>2, <1>3

\* A packet becomes one point at most and in the order of the packets, with
\* any number of crashes, resets of the board, losses on the line and writes
\* that failed although they were done (push_influx, serialworker).
THEOREM StoredOnceInOrderHolds == Spec => []StoredOnceInOrder
<1>1. ASSUME OrderInv, NEW i \in 1 .. Len(CutOut), NEW j \in 1 .. Len(CutOut),
             i < j
      PROVE  PrintedAt(CutOut[i].pkt) < PrintedAt(CutOut[j].pkt)
    <2>1. PICK c \in Seq(Points) :
            CutOut = written \o c /\ Ordered(printed, written, c, Feed, 0)
        BY <1>1, CutOutIs
    <2>2. SortedPoints(printed, CutOut)
        BY <1>1, <2>1, SortedTogether DEF OrderInv, Typed, TypeOK
    <2>3. Before(printed, CutOut[i].pkt, CutOut[j].pkt)
        BY <1>1, <2>2 DEF SortedPoints
    <2> QED BY <1>1, <2>3, PrintedAtBefore DEF OrderInv, Typed, TypeOK
<1>2. ASSUME StoredInv, NEW c \in Cells, NEW e \in Cells,
             db[c] # None, db[c] = db[e]
      PROVE  c.smac = e.smac /\ c.timestamp = e.timestamp
    <2>1. PICK i \in 1 .. Len(written) :
            /\ db[c] = written[i].pkt
            /\ written[i].smac = c.smac /\ written[i].timestamp = c.timestamp
        BY <1>2, HeldIsWritten
    <2>2. PICK j \in 1 .. Len(written) :
            /\ db[e] = written[j].pkt
            /\ written[j].smac = e.smac /\ written[j].timestamp = e.timestamp
        BY <1>2, HeldIsWritten
    <2>3. i = j
        BY <1>2, <2>1, <2>2, WrittenOnce DEF StoredInv
    <2> QED BY <2>1, <2>2, <2>3
<1>3. StoredInv => StoredOnceInOrder
    BY <1>1, <1>2 DEF StoredInv, StoredOnceInOrder
<1> QED BY <1>3, StoredAlways, PTL

\* A list that follows what was written shares no packet with it.
LEMMA NotStored ==
    ASSUME PrintShape, NEW d \in Seq(Points), NEW c \in Seq(Points), NEW f,
           Ordered(printed, d, c, f, 0), NEW i \in 1 .. Len(c)
    PROVE  c[i] \notin ToSet(d)
<1>1. ToSet(d) = {d[k] : k \in 1 .. Len(d)}
    BY ToSetIndex
<1>2. SUFFICES ASSUME NEW k \in 1 .. Len(d), d[k] = c[i]
               PROVE  FALSE
    BY <1>1
<1>3. Before(printed, d[k].pkt, c[i].pkt)
    BY DEF Ordered, StoredThenCut
<1> QED BY <1>2, <1>3, NotBeforeItself

\* A packet that is handed over is the last of those that wait.
LEMMA HandoverPending ==
    ASSUME OrderInv, Handover
    PROVE  Pending' = Append(Pending, pkt)
<1>1. written' = written /\ ps' = Append(ps, pkt) /\ workerPc = "send"
    BY DEF Handover, dbVars
<1>2. pkt \in Points /\ ps \in Seq(Points) /\ written \in Seq(Points)
    BY <1>1 DEF OrderInv, Typed, TypeOK, ChannelShape
<1>3. CASE ps # <<>>
    <2>1. Head(ps') = Head(ps) /\ Tail(ps') = Append(Tail(ps), pkt)
        BY <1>1, <1>2, <1>3, HeadTailAppend
    <2>2. ps' # <<>>
        BY <1>1, <1>2, AppendProperties
    <2> QED BY <1>1, <1>3, <2>1, <2>2 DEF Pending
<1>4. CASE ps = <<>>
    <2>1. Cuts = <<pkt>> /\ Len(ps) = 0
        BY <1>1, <1>2, <1>4, ConcatEmptySeq DEF Cuts, Channel
    <2>2. Ordered(printed, written, <<pkt>>, Feed, 0)
        BY <2>1 DEF OrderInv, OrderShape
    <2>3. pkt \notin ToSet(written)
        <3> DEFINE c == <<pkt>>
        <3>1. c \in Seq(Points) /\ 1 \in 1 .. Len(c) /\ c[1] = pkt
            BY <1>2
        <3>2. PrintShape /\ Ordered(printed, written, c, Feed, 0)
            BY <2>2 DEF OrderInv
        <3> HIDE DEF c
        <3> QED BY <1>2, <3>1, <3>2, NotStored
    <2>4. Head(ps') = pkt
        BY <1>1, <1>4
    <2> QED BY <1>1, <1>4, <2>3, <2>4 DEF Pending
<1> QED BY <1>3, <1>4

\* It is accepted.
LEMMA HandoverRefines ==
    ASSUME OrderInv, Handover
    PROVE  Store!Accept
<1>1. up /\ up' = up /\ db' = db /\ workerPc = "send"
    BY DEF Handover, dbVars
<1>2. pkt \in Points
    BY <1>1 DEF OrderInv, Typed, ChannelShape
<1>3. Pending \in Seq(Points)
    BY HeadTailProperties DEF Pending, OrderInv, Typed, TypeOK
<1>4. Pending' = Append(Pending, pkt)
    BY HandoverPending
<1>5. Pending' # Pending
    <2>1. Len(Pending') = Len(Pending) + 1 /\ Len(Pending) \in Nat
        BY <1>2, <1>3, <1>4, AppendProperties, LenProperties
    <2> QED BY <2>1
<1> QED BY <1>1, <1>2, <1>4, <1>5 DEF Store!Accept, Store!Points, Points

\* The abstract database and this one merge points in one way.
LEMMA StoreMerges ==
    ASSUME NEW d, NEW p
    PROVE  Store!Merged(d, p) = Merged(d, p)
BY DEF Store!Merged, Merged, Store!Cells, Cells, Store!Gives, Gives

\* The head of the list that is written no longer waits; it may be that it did
\* not wait before.
HeadMoves ==
    IF Head(ps) \in ToSet(written)
    THEN written' = written /\ Pending' = Pending
    ELSE /\ Pending = ps /\ Pending' = Tail(ps)
         /\ written' = Append(written, Head(ps))

LEMMA WriteSucceedsMoves ==
    ASSUME OrderInv, OrderInv', WriteSucceeds
    PROVE  HeadMoves
<1>1. ps # <<>> /\ ps' = Tail(ps) /\ Written(Head(ps))
    BY DEF WriteSucceeds
<1>2. Pending' = Tail(ps)
    <2>1. CASE ps' = <<>>
        BY <1>1, <2>1 DEF Pending
    <2>2. CASE ps' # <<>>
        <3>1. Ordered(printed', written', Cuts', Feed', 0)
            BY WriteSucceedsWay
        <3>2. /\ Cuts'[1] = Head(ps') /\ Cuts' \in Seq(Points)
              /\ Cuts' # <<>> /\ written' \in Seq(Points)
            <4>1. (Typed /\ ps # <<>>)' => (Cuts[1] = Head(ps) /\ Cuts # <<>>)'
                BY CutsHead, PTL
            <4>2. Typed' => (Cuts \in Seq(Points))'
                BY WayTypes, PTL
            <4> QED BY <2>2, <4>1, <4>2 DEF OrderInv, Typed, TypeOK
        <3>3. 1 \in 1 .. Len(Cuts')
            BY <3>2, EmptySeq
        <3>4. Head(ps') \notin ToSet(written')
            <4>1. UNCHANGED printed
                BY DEF WriteSucceeds, boardVars
            <4>2. PrintShape /\ Ordered(printed, written', Cuts', Feed', 0)
                BY <3>1, <4>1 DEF OrderInv
            <4> HIDE DEF Cuts, Feed
            <4> QED BY <3>2, <3>3, <4>2, NotStored
        <3> QED BY <1>1, <3>4 DEF Pending
    <2> QED BY <2>1, <2>2
<1> QED BY <1>1, <1>2 DEF HeadMoves, Pending, Written

LEMMA WriteFailsMoves ==
    ASSUME OrderInv, WriteFails
    PROVE  \/ UNCHANGED <<db, written>> /\ Pending' = Pending
           \/ Written(Head(ps)) /\ HeadMoves
<1>1. /\ ps # <<>> /\ ps' = ps
      /\ UNCHANGED <<db, written>> \/ Written(Head(ps))
    BY DEF WriteFails, dbVars
<1>2. CASE UNCHANGED <<db, written>>
    BY <1>1, <1>2 DEF Pending
<1>3. CASE Written(Head(ps)) /\ Head(ps) \in ToSet(written)
    BY <1>1, <1>3 DEF HeadMoves, Pending, Written
<1>4. CASE Written(Head(ps)) /\ Head(ps) \notin ToSet(written)
    <2>1. /\ written' = Append(written, Head(ps))
          /\ written \in Seq(Points) /\ Head(ps) \in Points
        BY <1>1, <1>4, HeadType DEF Written, OrderInv, Typed, TypeOK
    <2> DEFINE w == Append(written, Head(ps))
    <2>2. /\ w \in Seq(Points)
          /\ Len(w) = Len(written) + 1 /\ Len(written) \in Nat
          /\ w[Len(written) + 1] = Head(ps)
        BY <2>1, Appended, LenProperties
    <2> HIDE DEF w
    <2>3. ToSet(w) = {w[k] : k \in 1 .. Len(w)}
        BY <2>2, ToSetIndex
    <2>4. Head(ps) \in ToSet(written')
        BY <2>1, <2>2, <2>3 DEF w
    <2> QED BY <1>1, <1>4, <2>1, <2>4 DEF HeadMoves, Pending
<1> QED BY <1>1, <1>2, <1>3, <1>4

\* A packet that is written is stored, unless it was stored before.
LEMMA WrittenRefines ==
    ASSUME StoredInv, up, UNCHANGED up, ps # <<>>, Written(Head(ps)), HeadMoves
    PROVE  Store!Store \/ UNCHANGED Store!storeVars
<1>1. db' = Merged(db, Head(ps))
    BY DEF Written
<1>2. CASE Head(ps) \in ToSet(written)
    <2>1. db' = db
        BY <1>1, <1>2, RewrittenSame
    <2> QED BY <1>2, <2>1 DEF HeadMoves, Store!storeVars
<1>3. CASE Head(ps) \notin ToSet(written)
    BY <1>1, <1>3, StoreMerges DEF HeadMoves, Store!Store
<1> QED BY <1>2, <1>3

LEMMA StoreStep ==
    StoredInv /\ StoredInv' /\ [Next]_vars
        => [Store!StoreNext]_(Store!storeVars)
<1> SUFFICES ASSUME StoredInv, StoredInv', [Next]_vars
             PROVE  Store!StoreNext \/ UNCHANGED Store!storeVars
    OBVIOUS
<1> USE DEF boardVars, workerVars, mainVars, envVars, losses, lineVars, dbVars
<1>1. ASSUME UNCHANGED <<up, ps, db, written>>
      PROVE  UNCHANGED Store!storeVars
    BY <1>1 DEF Store!storeVars, Pending
<1>2. ASSUME up, Dies, UNCHANGED <<db, written>>
      PROVE  Store!End
    <2>1. Pending' = <<>> /\ up' = FALSE
        BY <1>2 DEF Dies, Pending
    <2> QED BY <1>2, <2>1 DEF Store!End
<1>3. CASE UNCHANGED vars
    BY <1>1, <1>3 DEF vars
<1>4. CASE BoardNext
    BY <1>1, <1>4
    DEF BoardNext, PrintOpen, PrintClose, PrintText, BoardResets
<1>5. CASE InfluxChanges \/ Tick
    BY <1>1, <1>5 DEF InfluxChanges, Tick
<1>6. CASE Killed \/ OpenPortFails \/ ConfigureFails \/ CreateClientFails
    BY <1>2, <1>6
    DEF Killed, OpenPortFails, ConfigureFails, CreateClientFails,
        Store!StoreNext
<1>7. CASE Start
    <2>1. ~up /\ up' = TRUE /\ UNCHANGED <<ps, db, written>>
        BY <1>7 DEF Start
    <2> QED BY <2>1 DEF Store!Restart, Store!StoreNext, Pending
<1>8. CASE OpenPort \/ Configure \/ ReadSerial
    BY <1>1, <1>8 DEF OpenPort, Configure, ReadSerial
<1>9. CASE Handover
    BY <1>9, HandoverRefines DEF StoredInv, Store!StoreNext
<1>10. CASE CreateClient \/ ListEmpty
    BY <1>1, <1>10 DEF CreateClient, ListEmpty
<1>11. CASE WriteSucceeds
    BY <1>11, WriteSucceedsMoves, WrittenRefines
    DEF WriteSucceeds, StoredInv, Store!StoreNext
<1>12. CASE WriteFails
    <2>1. up /\ UNCHANGED up /\ ps # <<>>
        BY <1>12 DEF WriteFails
    <2> QED BY <1>12, <2>1, WriteFailsMoves, WrittenRefines
        DEF StoredInv, Store!StoreNext, Store!storeVars
<1> QED BY <1>3, <1>4, <1>5, <1>6, <1>7, <1>8, <1>9, <1>10, <1>11, <1>12
    DEF Next, WorkerNext, MainNext

\* The server implements StoreAndForward: a step accepts a packet, stores the
\* oldest one, replacing the values of its mote and second, ends or restarts
\* the process, or changes nothing of the three; a write that is repeated is
\* such a step that changes nothing.
THEOREM Refinement == Spec => ImplementsStore
<1>1. Init => Store!StoreInit
    BY DEF Init, Store!StoreInit, Pending, Store!EmptyTables, EmptyTables,
        Store!Cells, Cells, Store!None, None
<1> QED BY <1>1, StoreStep, StoredAlways, PTL
    DEF Spec, ImplementsStore, Store!StoreSpec
-----------------------------------------------------------------------------
(***************************************************************************)
(* Whole packets.  On a line that did not overflow the piece after an open *)
(* one closes the same packet or is a prompt, and an open piece at the end *)
(* belongs to the packet that the board is printing.                       *)
(***************************************************************************)
WholeFeed(f, p) ==
    \A i \in 1 .. Len(f) :
        f[i].kind = "open" =>
            IF i < Len(f)
            THEN f[i + 1] \in {Close(f[i].pkt), Prompt}
            ELSE f[i].pkt = p

AllIntact(s) == \A i \in 1 .. Len(s) : s[i].intact

\* Nothing is read before the port is open.
DownShape == ~PortOpen => tty = <<>> /\ buftotal = <<>>

IntactShape ==
    ~overflowed => /\ PortOpen => WholeFeed(Feed, printing)
                   /\ AllIntact(Cuts) /\ AllIntact(written)

\* The inductive invariant for whole packets.
IntactInv == Typed /\ DownShape /\ IntactShape

\* What may follow: nothing new before an open piece was closed.
LEMMA WholeArrival ==
    ASSUME NEW f \in Seq(Pieces), NEW p, NEW q, NEW e \in Pieces,
           WholeFeed(f, p),
           \/ e = Prompt
           \/ e = Close(p)
           \/ p = None /\ e = Open(q) /\ q \in Packets
    PROVE  WholeFeed(Append(f, e), IF e.kind = "open" THEN q ELSE None)
<1> DEFINE g == Append(f, e)
           r == IF e.kind = "open" THEN q ELSE None
<1>1. /\ Len(g) = Len(f) + 1 /\ Len(f) \in Nat
      /\ \A i \in 1 .. Len(f) : g[i] = f[i]
      /\ g[Len(f) + 1] = e
    BY Appended, LenProperties
<1> HIDE DEF g
<1> SUFFICES ASSUME NEW i \in 1 .. Len(g), g[i].kind = "open"
             PROVE  IF i < Len(g)
                    THEN g[i + 1] \in {Close(g[i].pkt), Prompt}
                    ELSE g[i].pkt = r
    BY DEF WholeFeed, g
<1>2. CASE i = Len(g)
    <2>1. g[i] = e /\ ~(i < Len(g))
        BY <1>1, <1>2
    <2>2. e.pkt = r
        BY <2>1 DEF Open, Close, Prompt
    <2> QED BY <2>1, <2>2
<1>3. CASE i < Len(f)
    <2>1. /\ g[i] = f[i] /\ g[i + 1] = f[i + 1] /\ i < Len(g)
          /\ i \in 1 .. Len(f) /\ i + 1 \in 1 .. Len(f)
        BY <1>1, <1>3
    <2> QED BY <1>3, <2>1 DEF WholeFeed
<1>4. CASE i = Len(f)
    <2>1. /\ g[i] = f[i] /\ g[i + 1] = e /\ i < Len(g) /\ i \in 1 .. Len(f)
          /\ ~(i < Len(f))
        BY <1>1, <1>4
    <2>2. f[i].pkt = p
        BY <2>1 DEF WholeFeed
    <2>3. p \in Packets
        <3>1. f[i] \in Pieces
            BY <2>1, ElementOfSeq
        <3> QED BY <2>1, <2>2, <3>1 DEF Pieces, Prompt
    <2>4. e = Prompt \/ e = Close(p)
        BY <2>3, PacketAssumption
    <2> QED BY <2>1, <2>2, <2>4
<1> QED BY <1>1, <1>2, <1>3, <1>4

\* What is left after a cut is still whole.
LEMMA WholeSuffix ==
    ASSUME NEW f \in Seq(Pieces), NEW p, NEW k \in 0 .. Len(f), WholeFeed(f, p)
    PROVE  WholeFeed(SubSeq(f, k + 1, Len(f)), p)
<1> DEFINE g == SubSeq(f, k + 1, Len(f))
<1>1. /\ Len(g) = Len(f) - k /\ Len(f) \in Nat /\ k \in Nat
      /\ \A i \in 1 .. Len(f) - k : g[i] = f[k + i]
    BY Suffix, LenProperties
<1> HIDE DEF g
<1> SUFFICES ASSUME NEW i \in 1 .. Len(g), g[i].kind = "open"
             PROVE  IF i < Len(g)
                    THEN g[i + 1] \in {Close(g[i].pkt), Prompt}
                    ELSE g[i].pkt = p
    BY DEF WholeFeed, g
<1>2. g[i] = f[k + i] /\ k + i \in 1 .. Len(f)
    BY <1>1
<1>3. CASE i < Len(g)
    <2>1. i + 1 \in 1 .. Len(f) - k /\ k + (i + 1) = (k + i) + 1 /\ k + i < Len(f)
        BY <1>1, <1>3
    <2>2. g[i + 1] = f[(k + i) + 1]
        BY <1>1, <2>1
    <2> QED BY <1>2, <1>3, <2>1, <2>2 DEF WholeFeed
<1>4. CASE ~(i < Len(g))
    <2>1. ~(k + i < Len(f))
        BY <1>1, <1>4
    <2> QED BY <1>2, <1>4, <2>1 DEF WholeFeed
<1> QED BY <1>3, <1>4

\* In what is whole the regular expression matches one packet.
LEMMA WholeMatch ==
    ASSUME NEW f \in Seq(Pieces), NEW rest \in Seq(Pieces), NEW p,
           WholeFeed(f \o rest, p),
           NEW i \in 1 .. Len(f), NEW j \in 1 .. Len(f), Matches(f, i, j)
    PROVE  j = i + 1 /\ f[i].pkt = f[j].pkt
<1> DEFINE g == f \o rest
<1>1. /\ Len(g) = Len(f) + Len(rest) /\ Len(f) \in Nat /\ Len(rest) \in Nat
      /\ \A k \in 1 .. Len(f) + Len(rest) :
            g[k] = IF k <= Len(f) THEN f[k] ELSE rest[k - Len(f)]
    BY ConcatProperties, LenProperties
<1> HIDE DEF g
<1>2. f[i].kind = "open" /\ f[j].kind = "close" /\ i < j
    BY DEF Matches
<1>3. /\ i + 1 \in 1 .. Len(f) /\ i < Len(g) /\ i \in 1 .. Len(g)
      /\ g[i] = f[i] /\ g[i + 1] = f[i + 1]
    BY <1>1, <1>2
<1>4. f[i + 1] \in {Close(f[i].pkt), Prompt}
    BY <1>2, <1>3 DEF WholeFeed, g
<1>5. f[i + 1].kind # "open"
    BY <1>4 DEF Close, Prompt
<1>6. j = i + 1
    <2>1. j # i + 1 => i + 1 \in i + 1 .. j - 1
        BY <1>2
    <2> QED BY <1>5, <2>1 DEF Matches
<1> QED BY <1>2, <1>4, <1>6 DEF Close, Prompt

LEMMA IntactAppended ==
    ASSUME NEW s \in Seq(Points), NEW x \in Points, AllIntact(s), x.intact
    PROVE  AllIntact(Append(s, x))
<1>1. /\ Len(Append(s, x)) = Len(s) + 1 /\ Len(s) \in Nat
      /\ \A i \in 1 .. Len(s) : Append(s, x)[i] = s[i]
      /\ Append(s, x)[Len(s) + 1] = x
    BY Appended, LenProperties
<1>2. \A i \in 1 .. Len(Append(s, x)) : i \in 1 .. Len(s) \/ i = Len(s) + 1
    BY <1>1
<1> QED BY <1>1, <1>2 DEF AllIntact

LEMMA IntactTail ==
    ASSUME NEW s \in Seq(Points), s # <<>>, AllIntact(s)
    PROVE  AllIntact(Tail(s)) /\ s[1].intact
<1>1. /\ Len(s) \in Nat \ {0} /\ Len(Tail(s)) = Len(s) - 1
      /\ \A i \in 1 .. Len(Tail(s)) : Tail(s)[i] = s[i + 1]
    BY HeadTailProperties, EmptySeq
<1>2. \A i \in 1 .. Len(Tail(s)) : i + 1 \in 1 .. Len(s)
    BY <1>1
<1> QED BY <1>1, <1>2 DEF AllIntact

\* A step that leaves pieces and points where they are.
LEMMA SameIntact ==
    ASSUME IntactInv,
           UNCHANGED <<printing, up, written, tty, buftotal, workerPc, pkt, ps,
                       overflowed>>
    PROVE  DownShape' /\ IntactShape'
BY DEF IntactInv, DownShape, IntactShape, PortOpen, Feed, Cuts, Channel

LEMMA DiesIntact ==
    ASSUME IntactInv, Dies, UNCHANGED written
    PROVE  DownShape' /\ IntactShape'
<1>1. /\ Cuts' = <<>> /\ up' = FALSE /\ tty' = <<>> /\ buftotal' = <<>>
      /\ UNCHANGED overflowed
    BY DEF Dies, Cuts, Channel
<1>2. AllIntact(<<>>)
    BY DEF AllIntact
<1> QED BY <1>1, <1>2 DEF IntactInv, DownShape, IntactShape, PortOpen

\* A piece arrives, or is lost at a full buffer or a closed port.
LEMMA PieceIntact ==
    ASSUME IntactInv, NEW e \in Pieces, NEW q,
           \/ e = Prompt
           \/ e = Close(printing)
           \/ printing = None /\ e = Open(q) /\ q \in Packets,
           printing' = (IF e.kind = "open" THEN q ELSE None),
           \/ PortOpen /\ tty' = Append(tty, e)
           \/ UNCHANGED tty /\ (PortOpen => overflowed'),
           overflowed => overflowed',
           UNCHANGED <<up, written, buftotal, workerPc, pkt, ps>>
    PROVE  DownShape' /\ IntactShape'
<1>1. Cuts' = Cuts
    BY DEF Cuts, Channel
<1>2. CASE UNCHANGED tty /\ (PortOpen => overflowed')
    BY <1>1, <1>2 DEF IntactInv, DownShape, IntactShape, PortOpen
<1>3. CASE PortOpen /\ tty' = Append(tty, e)
    <2>1. Feed' = Append(Feed, e)
        BY <1>3, FeedAppend DEF IntactInv, Typed
    <2>2. Feed \in Seq(Pieces)
        BY WayTypes DEF IntactInv
    <2>3. ASSUME ~overflowed'
          PROVE  WholeFeed(Feed', printing')
        <3>1. WholeFeed(Feed, printing)
            BY <1>3, <2>3 DEF IntactInv, IntactShape
        <3> QED BY <2>1, <2>2, <3>1, WholeArrival
    <2> QED BY <1>1, <1>3, <2>3 DEF IntactInv, DownShape, IntactShape, PortOpen
<1> QED BY <1>2, <1>3

\* What the regular expression matches was printed as one packet.
LEMMA ReadIntact ==
    ASSUME IntactInv, ReadSerial
    PROVE  DownShape' /\ IntactShape'
<1>1. /\ UNCHANGED <<printing, written, ps, up, overflowed>> /\ up
      /\ workerPc = "read" /\ Typed
    BY DEF ReadSerial, boardVars, mainVars, dbVars, losses, IntactInv
<1>3. PICK n, k : ReadStep(n, k)
    BY ReadSteps
<1>2. PortOpen /\ PortOpen' /\ DownShape'
    BY <1>1, <1>3 DEF DownShape, PortOpen, ReadStep
<1> SUFFICES ASSUME ~overflowed
             PROVE  WholeFeed(Feed', printing) /\ AllIntact(Cuts')
    BY <1>1, <1>2 DEF IntactInv, IntactShape
<1>4. WholeFeed(Feed, printing) /\ AllIntact(Cuts)
    BY <1>1, <1>2 DEF IntactInv, IntactShape
<1>5. Feed \in Seq(Pieces) /\ Cuts \in Seq(Points) /\ ps \in Seq(Points)
    BY <1>1, WayTypes DEF Typed, TypeOK
<1>6. CASE Feed' = Feed /\ UNCHANGED <<workerPc, pkt>>
    BY <1>1, <1>4, <1>6 DEF Cuts, Channel
<1>7. CASE /\ k \in 1 .. Len(Feed) /\ IsClose(Feed[k])
           /\ Feed' = SubSeq(Feed, k + 1, Len(Feed))
           /\ workerPc' = "send" /\ pkt' \in Points
           /\ pkt'.pkt = Feed[k].pkt
    <2>1. WholeFeed(Feed', printing)
        <3>1. k \in 0 .. Len(Feed)
            BY <1>7
        <3> QED BY <1>4, <1>5, <1>7, <3>1, WholeSuffix
    <2>2. pkt'.intact
        <3> DEFINE buf  == buftotal \o SubSeq(tty, 1, n)
                   rest == SubSeq(tty, n + 1, Len(tty))
        <3>1. /\ n \in 0 .. Len(tty)
              /\ workerPc' # workerPc
              /\ \/ UNCHANGED workerPc
                 \/ /\ k \in 1 .. Len(buf)
                    /\ \E i \in 1 .. Len(buf) :
                            Matches(buf, i, k) /\ pkt' \in Cut(buf, i, k)
            BY <1>1, <1>3, <1>7 DEF ReadStep
        <3>2. buf \in Seq(Pieces) /\ rest \in Seq(Pieces) /\ Feed = buf \o rest
            BY <1>1, <3>1, FeedSplit
        <3> HIDE DEF buf, rest
        <3>3. PICK i \in 1 .. Len(buf) :
                Matches(buf, i, k) /\ pkt' \in Cut(buf, i, k)
            BY <3>1
        <3>4. k = i + 1 /\ buf[i].pkt = buf[k].pkt
            BY <1>4, <3>1, <3>2, <3>3, WholeMatch
        <3> QED BY <3>3, <3>4 DEF Cut
    <2>3. Cuts = ps
        BY <1>1, <1>5, ConcatEmptySeq DEF Cuts, Channel
    <2>4. Cuts' = Append(ps, pkt')
        <3>1. Append(ps, pkt') = ps \o <<pkt'>>
            BY <1>5, <1>7, AppendIsConcat
        <3> QED BY <1>1, <1>7, <3>1 DEF Cuts, Channel
    <2>5. AllIntact(Append(ps, pkt'))
        BY <1>4, <1>5, <1>7, <2>2, <2>3, IntactAppended
    <2> QED BY <2>1, <2>4, <2>5
<1> QED BY <1>1, <1>3, <1>6, <1>7, FeedRead

LEMMA WrittenIntact ==
    ASSUME IntactInv, ps # <<>>, ~overflowed
    PROVE  AllIntact(Added(Head(ps))) /\ AllIntact(Tail(Cuts))
<1>1. /\ Cuts # <<>> /\ Cuts[1] = Head(ps) /\ Cuts \in Seq(Points)
      /\ Head(ps) \in Points /\ written \in Seq(Points)
    BY CutsHead, WayTypes DEF IntactInv, Typed, TypeOK
<1>2. AllIntact(Cuts) /\ AllIntact(written)
    BY DEF IntactInv, IntactShape
<1> HIDE DEF Cuts
<1>3. AllIntact(Tail(Cuts)) /\ Head(ps).intact
    BY <1>1, <1>2, IntactTail
<1>4. AllIntact(Append(written, Head(ps)))
    BY <1>1, <1>2, <1>3, IntactAppended
<1> QED BY <1>2, <1>3, <1>4 DEF Added

LEMMA IntactStep == IntactInv /\ [Next]_vars => IntactInv'
<1> SUFFICES ASSUME IntactInv, [Next]_vars
             PROVE  DownShape' /\ IntactShape'
    BY TypeStep DEF IntactInv
<1> USE DEF boardVars, workerVars, mainVars, envVars, losses, lineVars, dbVars
<1>1. CASE UNCHANGED vars
    BY <1>1, SameIntact DEF vars
<1>2. ASSUME NEW p \in Packets, PrintOpen(p)
      PROVE  DownShape' /\ IntactShape'
    <2> DEFINE e == Open(p)
    <2>1. e \in Pieces /\ e.kind = "open" /\ e = Open(p)
        BY DEF Open, Pieces
    <2>2. /\ \/ PortOpen /\ tty' = Append(tty, e)
             \/ UNCHANGED tty /\ (PortOpen => overflowed')
          /\ overflowed => overflowed'
        BY <1>2 DEF PrintOpen, Arrives
    <2>3. /\ printing = None /\ printing' = p
          /\ UNCHANGED <<up, written, buftotal, workerPc, pkt, ps>>
        BY <1>2 DEF PrintOpen
    <2> HIDE DEF e
    <2> QED BY <2>1, <2>2, <2>3, PieceIntact
<1>3. CASE PrintClose
    <2> DEFINE e == Close(printing)
    <2>1. e \in Pieces /\ e.kind = "close" /\ e = Close(printing)
        BY <1>3 DEF PrintClose, IntactInv, Typed, TypeOK, Close, Pieces
    <2>2. /\ \/ PortOpen /\ tty' = Append(tty, e)
             \/ UNCHANGED tty /\ (PortOpen => overflowed')
          /\ overflowed => overflowed'
        BY <1>3 DEF PrintClose, Arrives
    <2>3. /\ printing' = None
          /\ UNCHANGED <<up, written, buftotal, workerPc, pkt, ps>>
        BY <1>3 DEF PrintClose
    <2> HIDE DEF e
    <2> QED BY <2>1, <2>2, <2>3, PieceIntact
<1>4. CASE PrintText
    BY <1>4, SameIntact DEF PrintText
<1>5. CASE BoardResets
    <2>1. Prompt \in Pieces /\ Prompt.kind # "open"
        BY DEF Prompt, Pieces
    <2>2. Len(tty) \in Nat /\ Len(tty) <= TtySize /\ TtySize \in Nat
        BY LenProperties, TtyAssumption DEF IntactInv, Typed, TypeOK
    <2>3. \/ PortOpen /\ tty' = Append(tty, Prompt)
          \/ UNCHANGED tty /\ (PortOpen => overflowed')
        <3>1. CASE PortOpen /\ Len(tty) < TtySize
            BY <1>5, <3>1 DEF BoardResets
        <3>2. CASE ~PortOpen
            BY <1>5, <3>2 DEF BoardResets
        <3>3. CASE PortOpen /\ ~(Len(tty) < TtySize)
            <4>1. Len(tty) = TtySize
                BY <2>2, <3>3
            <4> QED BY <1>5, <3>3, <4>1 DEF BoardResets
        <3> QED BY <3>1, <3>2, <3>3
    <2>4. /\ printing' = None /\ (overflowed => overflowed')
          /\ UNCHANGED <<up, written, buftotal, workerPc, pkt, ps>>
        BY <1>5 DEF BoardResets
    <2> QED BY <2>1, <2>3, <2>4, PieceIntact
<1>6. CASE InfluxChanges
    BY <1>6, SameIntact DEF InfluxChanges
<1>7. CASE Tick
    BY <1>7, SameIntact DEF Tick
<1>8. CASE Killed
    BY <1>8, DiesIntact DEF Killed
<1>9. CASE Start
    <2>1. /\ ~up
          /\ UNCHANGED <<printing, written, tty, buftotal, workerPc, pkt, ps,
                         overflowed>>
        BY <1>9 DEF Start
    <2>2. Feed' = <<>> /\ Cuts' = Cuts
        BY <2>1 DEF IntactInv, DownShape, PortOpen, Feed, Cuts, Channel
    <2>3. WholeFeed(<<>>, printing')
        BY DEF WholeFeed
    <2>4. tty = <<>> /\ buftotal = <<>>
        BY <2>1 DEF IntactInv, DownShape, PortOpen
    <2> QED BY <2>1, <2>2, <2>3, <2>4
        DEF IntactInv, DownShape, IntactShape, PortOpen
<1>10. CASE Configure
    <2>1. /\ UNCHANGED <<printing, up, written, tty, buftotal, pkt, ps, overflowed>>
          /\ workerPc = "config" /\ workerPc' = "read"
        BY <1>10 DEF Configure
    <2>2. Feed' = Feed /\ Cuts' = Cuts
        BY <2>1 DEF Feed, Cuts, Channel
    <2> QED BY <2>1, <2>2 DEF IntactInv, DownShape, IntactShape, PortOpen
<1>11. CASE ConfigureFails
    BY <1>11, DiesIntact DEF ConfigureFails
<1>12. CASE ReadSerial
    BY <1>12, ReadIntact
<1>13. CASE Handover
    <2>1. /\ Feed' = Feed /\ (PortOpen' <=> PortOpen)
          /\ UNCHANGED <<printing, written, tty, buftotal, overflowed>>
        BY <1>13 DEF Handover, Feed, PortOpen
    <2>2. Cuts' = Cuts
        BY <1>13, HandoverCuts DEF IntactInv
    <2> QED BY <2>1, <2>2 DEF IntactInv, DownShape, IntactShape
<1>14. CASE CreateClient
    BY <1>14, SameIntact DEF CreateClient
<1>15. CASE CreateClientFails
    BY <1>15, DiesIntact DEF CreateClientFails
<1>16. CASE WriteSucceeds
    <2>1. /\ UNCHANGED <<printing, up, tty, buftotal, workerPc, pkt, overflowed>>
          /\ ps # <<>> /\ ps' = Tail(ps) /\ written' = Added(Head(ps))
        BY <1>16 DEF WriteSucceeds, Written, Added
    <2>2. Feed' = Feed /\ Cuts' = Tail(Cuts)
        BY <2>1, CutsHead DEF IntactInv, Feed, Cuts, Channel
    <2> QED BY <2>1, <2>2, WrittenIntact
        DEF IntactInv, DownShape, IntactShape, PortOpen
<1>17. CASE WriteFails
    <2>1. /\ UNCHANGED <<printing, up, tty, buftotal, workerPc, pkt, ps,
                         overflowed>>
          /\ ps # <<>> /\ (written' = written \/ written' = Added(Head(ps)))
        BY <1>17 DEF WriteFails, Written, Added
    <2>2. Feed' = Feed /\ Cuts' = Cuts
        BY <2>1 DEF Feed, Cuts, Channel
    <2> QED BY <2>1, <2>2, WrittenIntact
        DEF IntactInv, DownShape, IntactShape, PortOpen
<1>18. CASE ListEmpty
    BY <1>18, SameIntact DEF ListEmpty
<1>19. CASE OpenPort
    <2>1. /\ workerPc = "open" /\ workerPc' = "config" /\ UNCHANGED up
          /\ UNCHANGED <<printing, written, tty, buftotal, pkt, ps,
                         overflowed>>
        BY <1>19 DEF OpenPort
    <2>2. Feed' = <<>> /\ Cuts' = Cuts
        BY <2>1 DEF IntactInv, DownShape, PortOpen, Feed, Cuts, Channel
    <2>3. WholeFeed(<<>>, printing')
        BY DEF WholeFeed
    <2> QED BY <2>1, <2>2, <2>3
        DEF IntactInv, DownShape, IntactShape, PortOpen
<1>20. CASE OpenPortFails
    BY <1>20, DiesIntact DEF OpenPortFails
<1> QED BY <1>1, <1>2, <1>3, <1>4, <1>5, <1>6, <1>7, <1>8, <1>9, <1>10, <1>11,
    <1>12, <1>13, <1>14, <1>15, <1>16, <1>17, <1>18,
    <1>19, <1>20
    DEF Next, BoardNext, WorkerNext, MainNext

LEMMA IntactInit == Init => IntactInv
<1> SUFFICES ASSUME Init
             PROVE  IntactInv
    OBVIOUS
<1>1. Typed
    BY TypeInit
<1>2. /\ written = <<>> /\ Cuts = <<>> /\ Feed = <<>>
      /\ tty = <<>> /\ buftotal = <<>>
    BY DEF Init, Cuts, Channel, Feed
<1> QED BY <1>1, <1>2 DEF IntactInv, DownShape, IntactShape, WholeFeed,
    AllIntact

\* A packet that a reset of the board or the start of the server cut short is
\* never joined to another, unless the kernel's buffer overflowed (the regular
\* expression, mote-gateway.go:210).
THEOREM IntactPacketsHolds == Spec => []IntactPackets
<1>1. OrderInv /\ IntactInv => IntactPackets
    <2> SUFFICES ASSUME OrderInv, IntactInv, ~overflowed,
                        NEW i \in 1 .. Len(CutOut)
                 PROVE  CutOut[i].intact
        BY DEF IntactPackets
    <2>1. PICK c \in Seq(Points) :
            CutOut = written \o c /\ (c = Cuts \/ (Cuts # <<>> /\ c = Tail(Cuts)))
        BY CutOutIs
    <2>2. AllIntact(Cuts) /\ AllIntact(written)
        BY DEF IntactInv, IntactShape
    <2>3. Cuts \in Seq(Points) /\ written \in Seq(Points)
        BY WayTypes DEF OrderInv, Typed, TypeOK
    <2>4. AllIntact(c)
        <3> HIDE DEF Cuts
        <3> QED BY <2>1, <2>2, <2>3, IntactTail
    <2>5. /\ Len(CutOut) = Len(written) + Len(c) /\ Len(written) \in Nat /\ Len(c) \in Nat
          /\ CutOut[i] = IF i <= Len(written) THEN written[i] ELSE c[i - Len(written)]
        BY <2>1, <2>3, ConcatProperties, LenProperties
    <2>6. i \in 1 .. Len(written) \/ (~(i <= Len(written)) /\ i - Len(written) \in 1 .. Len(c))
        BY <2>5
    <2> QED BY <2>2, <2>4, <2>5, <2>6 DEF AllIntact
<1>2. Spec => []IntactInv
    BY IntactInit, IntactStep, PTL DEF Spec
<1> QED BY <1>1, <1>2, OrderAlways, PTL
=============================================================================
