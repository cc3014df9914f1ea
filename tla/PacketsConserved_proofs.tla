------------------------ MODULE PacketsConserved_proofs -----------------------
(***************************************************************************)
(* PacketsConserved of GatewayServer for any set of packets, any size of   *)
(* the kernel's buffer and any clock: as long as nothing is lost, what was *)
(* printed is what was cut out followed by what is still on the way.       *)
(***************************************************************************)
EXTENDS GatewayServer_proofs, SetInduction

\* The points s are the first packets of pr.
CutsPrinted(pr, s) ==
    /\ Len(s) <= Len(pr)
    /\ \A i \in 1 .. Len(s) : s[i].pkt = pr[i]

\* The line f holds the packets of pr after the n-th, piece by piece, and the
\* first piece of the packet p that is being printed.
LineWhole(pr, p, f, n) ==
    /\ Len(f) = 2 * (Len(pr) - n) + (IF p = None THEN 0 ELSE 1)
    /\ \A i \in 1 .. Len(pr) - n :
            f[2 * i - 1] = Open(pr[n + i]) /\ f[2 * i] = Close(pr[n + i])
    /\ p # None => f[Len(f)] = Open(p)

NothingMissing ==
    ~lossy => /\ CutsPrinted(printed, CutOut)
              /\ LineWhole(printed, printing, Feed, Len(CutOut))

\* The inductive invariant: a line that lost nothing is made of whole packets,
\* so that a match is always its first two pieces.
ConservedInv == OrderInv /\ NothingMissing
-----------------------------------------------------------------------------
(***************************************************************************)
(* The line: what a piece that arrives, or the cut of a packet, leaves.    *)
(***************************************************************************)
LEMMA LineOpens ==
    ASSUME NEW pr \in Seq(Packets), NEW p \in Packets, NEW f \in Seq(Pieces),
           NEW n \in Nat, n <= Len(pr), LineWhole(pr, None, f, n)
    PROVE  LineWhole(pr, p, Append(f, Open(p)), n)
<1> DEFINE e == Open(p)
           g == Append(f, e)
           m == Len(pr) - n
<1>1. e \in Pieces /\ p # None
    BY PacketAssumption DEF Open, Pieces
<1>2. /\ Len(g) = Len(f) + 1 /\ Len(f) \in Nat
      /\ \A i \in 1 .. Len(f) : g[i] = f[i]
      /\ g[Len(f) + 1] = e
    BY <1>1, Appended, LenProperties
<1>3. m \in Nat
    BY LenProperties
<1>4. /\ Len(f) = 2 * m
      /\ \A i \in 1 .. m :
            f[2 * i - 1] = Open(pr[n + i]) /\ f[2 * i] = Close(pr[n + i])
    BY <1>2, <1>3 DEF LineWhole
<1> HIDE DEF g, m, e
<1>5. ASSUME NEW i \in 1 .. m
      PROVE  g[2 * i - 1] = Open(pr[n + i]) /\ g[2 * i] = Close(pr[n + i])
    <2>1. 2 * i - 1 \in 1 .. Len(f) /\ 2 * i \in 1 .. Len(f)
        BY <1>3, <1>4
    <2> QED BY <1>2, <1>4, <2>1
<1>6. Len(g) = 2 * m + 1 /\ g[Len(g)] = e
    BY <1>2, <1>4
<1> QED BY <1>1, <1>5, <1>6 DEF LineWhole, g, m, e

LEMMA LineCloses ==
    ASSUME NEW pr \in Seq(Packets), NEW p \in Packets, NEW f \in Seq(Pieces),
           NEW n \in Nat, n <= Len(pr), LineWhole(pr, p, f, n)
    PROVE  LineWhole(Append(pr, p), None, Append(f, Close(p)), n)
<1> DEFINE e == Close(p)
           g == Append(f, e)
           more == Append(pr, p)
           m == Len(pr) - n
<1>1. e \in Pieces /\ p # None
    BY PacketAssumption DEF Close, Pieces
<1>2. /\ Len(g) = Len(f) + 1 /\ Len(f) \in Nat
      /\ \A i \in 1 .. Len(f) : g[i] = f[i]
      /\ g[Len(f) + 1] = e
    BY <1>1, Appended, LenProperties
<1>3. /\ Len(more) = Len(pr) + 1 /\ Len(pr) \in Nat
      /\ \A i \in 1 .. Len(pr) : more[i] = pr[i]
      /\ more[Len(pr) + 1] = p
    BY Appended, LenProperties
<1>4. m \in Nat /\ Len(more) - n = m + 1 /\ n + (m + 1) = Len(pr) + 1
    BY <1>3
<1>5. /\ Len(f) = 2 * m + 1
      /\ \A i \in 1 .. m :
            f[2 * i - 1] = Open(pr[n + i]) /\ f[2 * i] = Close(pr[n + i])
      /\ f[Len(f)] = Open(p)
    BY <1>1, <1>2, <1>4 DEF LineWhole
<1>6. \A i \in 1 .. m : n + i \in 1 .. Len(pr)
    BY <1>3
<1> HIDE DEF g, m, e, more
<1>7. ASSUME NEW i \in 1 .. m + 1
      PROVE  g[2 * i - 1] = Open(more[n + i]) /\ g[2 * i] = Close(more[n + i])
    <2>1. CASE i \in 1 .. m
        <3>1. 2 * i - 1 \in 1 .. Len(f) /\ 2 * i \in 1 .. Len(f)
            BY <1>4, <1>5, <2>1
        <3> QED BY <1>2, <1>3, <1>5, <1>6, <2>1, <3>1
    <2>2. CASE i = m + 1
        <3>1. 2 * i - 1 = Len(f) /\ 2 * i = Len(f) + 1 /\ Len(f) \in 1 .. Len(f)
            BY <1>2, <1>4, <1>5, <2>2
        <3>2. more[n + i] = p
            BY <1>3, <1>4, <2>2
        <3> QED BY <1>2, <1>5, <3>1, <3>2 DEF e
    <2> QED BY <1>4, <2>1, <2>2
<1>8. Len(g) = 2 * (m + 1)
    BY <1>2, <1>4, <1>5
<1>9. Len(g) = 2 * (m + 1) + 0
    BY <1>4, <1>8
<1>10. LineWhole(more, None, g, n)
    BY <1>4, <1>7, <1>9 DEF LineWhole
<1> QED BY <1>10 DEF g, more, e

\* A line of two pieces or more begins with the packet that is next.
LEMMA LineCut ==
    ASSUME NEW pr \in Seq(Packets), NEW p \in Packets \cup {None},
           NEW f \in Seq(Pieces), NEW n \in Nat, n <= Len(pr),
           LineWhole(pr, p, f, n), Len(f) >= 2
    PROVE  /\ n + 1 <= Len(pr)
           /\ f[1] = Open(pr[n + 1]) /\ f[2] = Close(pr[n + 1])
           /\ LineWhole(pr, p, SubSeq(f, 3, Len(f)), n + 1)
<1> DEFINE g == SubSeq(f, 3, Len(f))
           m == Len(pr) - n
           r == IF p = None THEN 0 ELSE 1
<1>1. m \in Nat /\ Len(f) \in Nat /\ Len(pr) \in Nat /\ r \in {0, 1}
    BY LenProperties
<1>2. /\ Len(f) = 2 * m + r
      /\ \A i \in 1 .. m :
            f[2 * i - 1] = Open(pr[n + i]) /\ f[2 * i] = Close(pr[n + i])
      /\ p # None => f[Len(f)] = Open(p)
    BY DEF LineWhole
<1>3. /\ Len(g) = Len(f) - 2
      /\ \A i \in 1 .. Len(f) - 2 : g[i] = f[2 + i]
    <2>1. 2 \in 0 .. Len(f) /\ 2 + 1 = 3
        BY <1>1
    <2>2. SubSeq(f, 2 + 1, Len(f)) = g
        BY <2>1
    <2> HIDE DEF g
    <2> QED BY <2>1, <2>2, Suffix
<1>4. (p = None => r = 0) /\ (p # None => r = 1)
    OBVIOUS
<1>5. Len(pr) - (n + 1) = m - 1
    BY <1>1
<1> HIDE DEF g, m, r
<1>6. m >= 1
    BY <1>1, <1>2
<1>7. f[1] = Open(pr[n + 1]) /\ f[2] = Close(pr[n + 1])
    <2>1. 1 \in 1 .. m /\ 2 * 1 - 1 = 1 /\ 2 * 1 = 2
        BY <1>1, <1>6
    <2> QED BY <1>2, <2>1
<1>8. ASSUME NEW i \in 1 .. m - 1
      PROVE  /\ g[2 * i - 1] = Open(pr[n + 1 + i])
             /\ g[2 * i] = Close(pr[n + 1 + i])
    <2>1. /\ i + 1 \in 1 .. m /\ n + (i + 1) = n + 1 + i
          /\ 2 * (i + 1) - 1 = 2 + (2 * i - 1) /\ 2 * (i + 1) = 2 + 2 * i
          /\ 2 * i - 1 \in 1 .. Len(f) - 2 /\ 2 * i \in 1 .. Len(f) - 2
        BY <1>1, <1>2
    <2> QED BY <1>2, <1>3, <2>1
<1>9. ASSUME p # None
      PROVE  g[Len(g)] = Open(p)
    <2>1. Len(g) \in 1 .. Len(f) - 2 /\ 2 + Len(g) = Len(f)
        BY <1>1, <1>2, <1>3, <1>4, <1>6, <1>9
    <2> QED BY <1>2, <1>3, <1>9, <2>1
<1>10. Len(g) = 2 * (m - 1) + r
    BY <1>1, <1>2, <1>3
<1>11. LineWhole(pr, p, g, n + 1)
    BY <1>5, <1>8, <1>9, <1>10 DEF LineWhole, r
<1>12. n + 1 <= Len(pr)
    BY <1>1, <1>5, <1>6
<1> QED BY <1>7, <1>11, <1>12 DEF g
-----------------------------------------------------------------------------
(***************************************************************************)
(* The close pieces of such a line.                                        *)
(***************************************************************************)
\* The recursion of Closes does what it says.
LEMMA ClosesRun ==
    ASSUME NEW f \in Seq(Pieces)
    PROVE  \E upTo \in [0 .. Len(f) -> Seq(Pieces)] :
                /\ Closes(f) = upTo[Len(f)]
                /\ upTo[0] = <<>>
                /\ \A k \in 1 .. Len(f) :
                        upTo[k] = IF IsClose(f[k]) THEN Append(upTo[k - 1], f[k])
                                  ELSE upTo[k - 1]
<1> DEFINE N == Len(f)
           Kept(k, s) == IF f[k].kind = "close" THEN Append(s, f[k]) ELSE s
           Fits(upTo) ==
                upTo = [k \in 0 .. N |->
                            IF k = 0 THEN <<>>
                            ELSE IF f[k].kind = "close"
                                 THEN Append(upTo[k - 1], f[k])
                            ELSE upTo[k - 1]]
           next == [ks \in Nat \X Seq(Pieces) |->
                        IF ks[1] \in 1 .. N THEN Kept(ks[1], ks[2]) ELSE ks[2]]
<1>1. N \in Nat /\ <<>> \in Seq(Pieces)
    BY LenProperties, EmptySeq
<1>2. ASSUME NEW k \in 1 .. N, NEW s \in Seq(Pieces)
      PROVE  Kept(k, s) \in Seq(Pieces)
    BY ElementOfSeq, AppendProperties
<1>3. next \in Steps(Seq(Pieces))
    BY <1>2 DEF Steps
<1>4. PICK g : Iterates(g, Seq(Pieces), <<>>, next, N)
    <2> HIDE DEF next, N
    <2> QED BY <1>1, <1>3, RecursionExists
<1>5. ASSUME NEW k \in 1 .. N
      PROVE  g[k] = Kept(k, g[k - 1])
    <2>1. <<k, g[k - 1]>> \in Nat \X Seq(Pieces)
        <3>1. k - 1 \in 0 .. N /\ k \in Nat
            BY <1>1
        <3>2. g[k - 1] \in Seq(Pieces)
            <4> HIDE DEF N
            <4> QED BY <1>4, <3>1 DEF Iterates
        <3> QED BY <3>1, <3>2
    <2>2. g[k] = next[<<k, g[k - 1]>>]
        BY <1>4 DEF Iterates
    <2>3. next[<<k, g[k - 1]>>] = Kept(k, g[k - 1])
        <3> HIDE DEF Kept
        <3> QED BY <2>1
    <2> QED BY <2>2, <2>3
<1>6. Fits(g)
    <2>1. g[0] = <<>> /\ g = [k \in 0 .. N |-> g[k]]
        BY <1>4 DEF Iterates
    <2>2. \A k \in 0 .. N : k = 0 \/ k \in 1 .. N
        BY <1>1
    <2> QED BY <1>5, <2>1, <2>2
<1> DEFINE upTo == CHOOSE r : Fits(r)
<1>7. Fits(upTo)
    BY <1>6, Zenon
<1>8. Closes(f) = upTo[N]
    BY DEF Closes
<1> HIDE DEF upTo
<1>9. upTo[0] = <<>>
    BY <1>1, <1>7
<1>10. ASSUME NEW k \in 1 .. N
       PROVE  upTo[k] = Kept(k, upTo[k - 1])
    <2>1. k \in 0 .. N /\ k # 0
        BY <1>1
    <2> QED BY <1>7, <2>1
<1>11. 0 .. N \subseteq {k \in 0 .. N : upTo[k] \in Seq(Pieces)}
    <2> DEFINE T == {k \in 0 .. N : upTo[k] \in Seq(Pieces)}
    <2>1. 0 \in T
        <3>1. 0 \in 0 .. N
            BY <1>1
        <3> HIDE DEF N
        <3> QED BY <1>1, <1>9, <3>1
    <2>2. ASSUME NEW k \in 0 .. N - 1, k \in T
          PROVE  k + 1 \in T
        <3>1. k + 1 \in 1 .. N /\ (k + 1) - 1 = k /\ k + 1 \in 0 .. N
            BY <1>1
        <3>2. upTo[k + 1] = Kept(k + 1, upTo[k])
            BY <1>10, <3>1
        <3> QED BY <1>2, <2>2, <3>1, <3>2
    <2> HIDE DEF T, N
    <2>3. 0 .. N \subseteq T
        BY <1>1, <2>1, <2>2, BoundedInduction
    <2> QED BY <2>3 DEF T
<1>12. upTo \in [0 .. N -> Seq(Pieces)]
    <2>1. upTo = [k \in 0 .. N |-> upTo[k]]
        BY <1>7
    <2> QED BY <1>11, <2>1
<1> QED BY <1>8, <1>9, <1>10, <1>12 DEF IsClose

\* They end the packets after the n-th, in order.
LEMMA ClosesOfLine ==
    ASSUME NEW pr \in Seq(Packets), NEW p \in Packets \cup {None},
           NEW f \in Seq(Pieces), NEW n \in Nat, n <= Len(pr),
           LineWhole(pr, p, f, n)
    PROVE  /\ Len(Closes(f)) = Len(pr) - n
           /\ \A i \in 1 .. Len(pr) - n : Closes(f)[i] = Close(pr[n + i])
<1> DEFINE m == Len(pr) - n
           r == IF p = None THEN 0 ELSE 1
<1>1. m \in Nat /\ Len(f) \in Nat /\ r \in {0, 1}
    BY LenProperties
<1>2. /\ Len(f) = 2 * m + r
      /\ \A i \in 1 .. m :
            f[2 * i - 1] = Open(pr[n + i]) /\ f[2 * i] = Close(pr[n + i])
      /\ r = 1 => f[Len(f)] = Open(p)
    BY DEF LineWhole
<1> HIDE DEF m, r
<1>3. PICK upTo \in [0 .. Len(f) -> Seq(Pieces)] :
                /\ Closes(f) = upTo[Len(f)]
                /\ upTo[0] = <<>>
                /\ \A k \in 1 .. Len(f) :
                        upTo[k] = IF IsClose(f[k]) THEN Append(upTo[k - 1], f[k])
                                  ELSE upTo[k - 1]
    BY ClosesRun
<1>4. \A q : ~IsClose(Open(q)) /\ IsClose(Close(q))
    BY DEF IsClose, Open, Close
<1> DEFINE Ends(s, i) == /\ Len(s) = i
                         /\ \A j \in 1 .. i : s[j] = Close(pr[n + j])
           T == {i \in 0 .. m : Ends(upTo[2 * i], i)}
<1>5. 0 \in T
    <2>1. 2 * 0 = 0 /\ Len(<<>>) = 0 /\ 0 \in 0 .. m
        BY <1>1
    <2> QED BY <1>3, <2>1
<1>6. ASSUME NEW i \in 0 .. m - 1, i \in T
      PROVE  i + 1 \in T
    <2>1. /\ 2 * i + 1 \in 1 .. Len(f) /\ (2 * i + 1) - 1 = 2 * i
          /\ 2 * (i + 1) \in 1 .. Len(f) /\ 2 * (i + 1) - 1 = 2 * i + 1
          /\ i + 1 \in 1 .. m /\ 2 * i \in 0 .. Len(f) /\ i + 1 \in 0 .. m
          /\ i \in Nat
        BY <1>1, <1>2
    <2>2. f[2 * i + 1] = Open(pr[n + (i + 1)])
        BY <1>2, <2>1
    <2>3. f[2 * (i + 1)] = Close(pr[n + (i + 1)])
        BY <1>2, <2>1
    <2>4. upTo[2 * i + 1] = upTo[2 * i]
        BY <1>3, <1>4, <2>1, <2>2
    <2>5. upTo[2 * (i + 1)] = Append(upTo[2 * i], f[2 * (i + 1)])
        BY <1>3, <1>4, <2>1, <2>3, <2>4
    <2>6. upTo[2 * i] \in Seq(Pieces) /\ f[2 * (i + 1)] \in Pieces
        BY <1>3, <2>1, ElementOfSeq
    <2> DEFINE a == upTo[2 * i]
               b == upTo[2 * (i + 1)]
    <2>7. Ends(a, i)
        BY <1>6
    <2>8. /\ Len(b) = Len(a) + 1
          /\ \A j \in 1 .. Len(a) : b[j] = a[j]
          /\ b[Len(a) + 1] = f[2 * (i + 1)]
        BY <2>5, <2>6, Appended
    <2> HIDE DEF a, b
    <2>9. Ends(b, i + 1)
        <3>1. Len(b) = i + 1 /\ \A j \in 1 .. i : b[j] = Close(pr[n + j])
            BY <2>1, <2>7, <2>8
        <3>2. b[i + 1] = Close(pr[n + (i + 1)])
            BY <2>3, <2>7, <2>8
        <3>3. \A j \in 1 .. i + 1 : j \in 1 .. i \/ j = i + 1
            BY <2>1
        <3> QED BY <3>1, <3>2, <3>3
    <2> QED BY <2>1, <2>9 DEF b
<1>7. m \in T
    <2> HIDE DEF T
    <2>1. 0 .. m \subseteq T
        BY <1>1, <1>5, <1>6, BoundedInduction
    <2> QED BY <1>1, <2>1
<1>8. Closes(f) = upTo[2 * m]
    <2>1. CASE r = 0
        BY <1>1, <1>2, <1>3, <2>1
    <2>2. CASE r = 1
        <3>1. Len(f) \in 1 .. Len(f) /\ Len(f) - 1 = 2 * m
            BY <1>1, <1>2, <2>2
        <3> QED BY <1>2, <1>3, <1>4, <2>2, <3>1
    <2> QED BY <1>1, <2>1, <2>2
<1> QED BY <1>7, <1>8 DEF m
-----------------------------------------------------------------------------
(***************************************************************************)
(* The steps of the system.                                                *)
(***************************************************************************)
\* What main has taken from the channel, stored or not.
Accepted == written \o Pending

LEMMA AcceptedTypes ==
    ASSUME Typed
    PROVE  /\ Pending \in Seq(Points) /\ Accepted \in Seq(Points)
           /\ CutOut = Accepted \o Channel
           /\ CutOut \in Seq(Points) /\ Len(CutOut) \in Nat
<1>1. written \in Seq(Points) /\ ps \in Seq(Points)
    BY DEF Typed, TypeOK
<1>2. Pending \in Seq(Points)
    BY <1>1, HeadTailProperties DEF Pending
<1>3. Accepted \in Seq(Points)
    BY <1>1, <1>2, ConcatProperties DEF Accepted
<1>4. CutOut = Accepted \o Channel
    BY DEF CutOut, Accepted, Channel
<1>5. CutOut \in Seq(Points)
    BY <1>3, <1>4, WayTypes, ConcatProperties
<1> QED BY <1>2, <1>3, <1>4, <1>5, LenProperties

\* The head of a sequence and the rest are the sequence.
LEMMA HeadThenTail ==
    ASSUME NEW S, NEW s \in Seq(S), s # <<>>, NEW d \in Seq(S)
    PROVE  Append(d, Head(s)) \o Tail(s) = d \o s
<1> DEFINE h == <<Head(s)>>
           t == Tail(s)
           ht == h \o t
<1>1. /\ Head(s) \in S /\ t \in Seq(S) /\ Len(t) = Len(s) - 1
      /\ \A i \in 1 .. Len(t) : t[i] = s[i + 1]
      /\ Len(s) \in Nat /\ Head(s) = s[1]
    BY HeadTailProperties, LenProperties
<1>2. h \in Seq(S) /\ Len(h) = 1 /\ h[1] = s[1]
    BY <1>1
<1> HIDE DEF h, t
<1>3. /\ ht \in Seq(S) /\ Len(ht) = Len(h) + Len(t)
      /\ \A i \in 1 .. Len(h) + Len(t) :
            ht[i] = IF i <= Len(h) THEN h[i] ELSE t[i - Len(h)]
    <2>1. h \in Seq(S) /\ t \in Seq(S)
        BY <1>1, <1>2
    <2> QED BY <2>1, ConcatProperties
<1>4. ht = s
    <2> HIDE DEF ht
    <2>1. Len(ht) = Len(s)
        BY <1>1, <1>2, <1>3
    <2>2. ASSUME NEW i \in 1 .. Len(ht)
          PROVE  ht[i] = s[i]
        <3>1. CASE i = 1
            BY <1>1, <1>2, <1>3, <3>1
        <3>2. CASE i # 1
            <4>1. i - 1 \in 1 .. Len(t) /\ (i - 1) + 1 = i /\ ~(i <= 1)
                BY <1>1, <1>2, <1>3, <3>2
            <4> QED BY <1>1, <1>2, <1>3, <4>1
        <3> QED BY <3>1, <3>2
    <2> QED BY <1>3, <2>1, <2>2, SeqEqual
<1>5. Append(d, Head(s)) = d \o h
    BY <1>1, AppendIsConcat DEF h
<1>6. (d \o h) \o t = d \o ht
    <2>1. h \in Seq(S) /\ t \in Seq(S)
        BY <1>1, <1>2
    <2> QED BY <2>1, ConcatAssociative
<1> QED BY <1>4, <1>5, <1>6 DEF t

\* Writing a packet only takes it from those that wait.
LEMMA WrittenMoves ==
    ASSUME Typed, ps # <<>>, HeadMoves
    PROVE  Accepted' = Accepted
<1>1. CASE Head(ps) \in ToSet(written)
    BY <1>1 DEF HeadMoves, Accepted
<1>2. CASE Head(ps) \notin ToSet(written)
    <2>1. /\ written' = Append(written, Head(ps))
          /\ Pending = ps /\ Pending' = Tail(ps)
        BY <1>2 DEF HeadMoves
    <2>2. ps \in Seq(Points) /\ written \in Seq(Points)
        BY DEF Typed, TypeOK
    <2>3. Append(written, Head(ps)) \o Tail(ps) = written \o ps
        BY <2>2, HeadThenTail
    <2> QED BY <2>1, <2>3 DEF Accepted
<1> QED BY <1>1, <1>2

\* A step that moves nothing.
LEMMA SameConserved ==
    ASSUME ConservedInv, Accepted' = Accepted, Channel' = Channel,
           UNCHANGED <<printed, printing, buftotal, tty, lossy>>
    PROVE  NothingMissing'
<1>1. CutOut = Accepted \o Channel /\ CutOut' = Accepted' \o Channel'
    BY DEF CutOut, Accepted, Channel
<1>2. CutOut' = CutOut /\ Feed' = Feed
    BY <1>1 DEF Feed
<1> QED BY <1>2 DEF ConservedInv, NothingMissing

\* A piece arrives, or is lost.
LEMMA ArrivesConserved ==
    ASSUME ConservedInv, NEW e \in Pieces, Arrives(e),
           UNCHANGED <<written, buftotal, workerPc, pkt, ps>>
    PROVE  /\ CutOut' = CutOut
           /\ lossy' \/ (~lossy' /\ ~lossy /\ Feed' = Append(Feed, e))
<1>1. CutOut' = CutOut
    BY DEF CutOut, Pending
<1>2. CASE PortOpen /\ Len(tty) < TtySize
    <2>1. tty' = Append(tty, e) /\ lossy' = lossy
        BY <1>2 DEF Arrives, losses
    <2>2. Feed' = Append(Feed, e)
        BY <2>1, FeedAppend DEF ConservedInv, OrderInv, Typed
    <2> QED BY <1>1, <2>1, <2>2
<1>3. CASE ~(PortOpen /\ Len(tty) < TtySize)
    BY <1>1, <1>3 DEF Arrives
<1> QED BY <1>2, <1>3

LEMMA PrintOpenConserved ==
    ASSUME ConservedInv, NEW p \in Packets, PrintOpen(p)
    PROVE  NothingMissing'
<1> DEFINE e == Open(p)
<1>1. e \in Pieces
    BY DEF Open, Pieces
<1>2. /\ Arrives(e) /\ printing = None /\ printing' = p /\ printed' = printed
      /\ UNCHANGED <<written, buftotal, workerPc, pkt, ps>>
    BY DEF PrintOpen, workerVars, mainVars, dbVars
<1>3. /\ CutOut' = CutOut
      /\ lossy' \/ (~lossy' /\ ~lossy /\ Feed' = Append(Feed, e))
    <2> HIDE DEF e
    <2> QED BY <1>1, <1>2, ArrivesConserved
<1> SUFFICES ASSUME ~lossy'
             PROVE  /\ CutsPrinted(printed', CutOut')
                    /\ LineWhole(printed', printing', Feed', Len(CutOut'))
    BY DEF NothingMissing
<1>4. /\ CutsPrinted(printed, CutOut)
      /\ LineWhole(printed, None, Feed, Len(CutOut))
    BY <1>2, <1>3 DEF ConservedInv, NothingMissing
<1>5. /\ printed \in Seq(Packets) /\ Feed \in Seq(Pieces)
      /\ Len(CutOut) \in Nat /\ Len(CutOut) <= Len(printed)
    BY <1>4, WayTypes, AcceptedTypes
    DEF ConservedInv, OrderInv, Typed, TypeOK, CutsPrinted
<1>6. LineWhole(printed, p, Append(Feed, Open(p)), Len(CutOut))
    BY <1>4, <1>5, LineOpens
<1> QED BY <1>2, <1>3, <1>4, <1>6

LEMMA PrintCloseConserved ==
    ASSUME ConservedInv, PrintClose
    PROVE  NothingMissing'
<1> DEFINE e == Close(printing)
           more == Append(printed, printing)
<1>1. printing \in Packets /\ e \in Pieces
    BY DEF PrintClose, ConservedInv, OrderInv, Typed, TypeOK, Close, Pieces
<1>2. /\ Arrives(e) /\ printing' = None /\ printed' = more
      /\ UNCHANGED <<written, buftotal, workerPc, pkt, ps>>
    BY DEF PrintClose, workerVars, mainVars, dbVars
<1>3. /\ CutOut' = CutOut
      /\ lossy' \/ (~lossy' /\ ~lossy /\ Feed' = Append(Feed, e))
    <2> HIDE DEF e
    <2> QED BY <1>1, <1>2, ArrivesConserved
<1> SUFFICES ASSUME ~lossy'
             PROVE  /\ CutsPrinted(printed', CutOut')
                    /\ LineWhole(printed', printing', Feed', Len(CutOut'))
    BY DEF NothingMissing
<1>4. /\ CutsPrinted(printed, CutOut)
      /\ LineWhole(printed, printing, Feed, Len(CutOut))
    BY <1>3 DEF ConservedInv, NothingMissing
<1>5. /\ printed \in Seq(Packets) /\ Feed \in Seq(Pieces)
      /\ Len(CutOut) \in Nat /\ Len(CutOut) <= Len(printed)
    BY <1>4, WayTypes, AcceptedTypes
    DEF ConservedInv, OrderInv, Typed, TypeOK, CutsPrinted
<1>6. LineWhole(more, None, Append(Feed, Close(printing)), Len(CutOut))
    BY <1>1, <1>4, <1>5, LineCloses
<1>7. /\ Len(more) = Len(printed) + 1 /\ Len(printed) \in Nat
      /\ \A i \in 1 .. Len(printed) : more[i] = printed[i]
    BY <1>1, <1>5, Appended, LenProperties
<1> HIDE DEF more
<1>8. CutsPrinted(more, CutOut)
    BY <1>4, <1>5, <1>7 DEF CutsPrinted
<1> QED BY <1>2, <1>3, <1>6, <1>8

\* In a line that lost nothing the leftmost match is the first two pieces.
LEMMA FirstMatch ==
    ASSUME NEW pr \in Seq(Packets), NEW p \in Packets \cup {None},
           NEW buf \in Seq(Pieces), NEW rest \in Seq(Pieces),
           NEW n \in Nat, n <= Len(pr), LineWhole(pr, p, buf \o rest, n),
           NEW i \in 1 .. Len(buf), NEW j \in 1 .. Len(buf), Found(buf, i, j)
    PROVE  /\ j = 2 /\ n + 1 <= Len(pr)
           /\ buf[2] = Close(pr[n + 1])
           /\ LineWhole(pr, p, SubSeq(buf, 3, Len(buf)) \o rest, n + 1)
<1> DEFINE f == buf \o rest
<1>1. /\ f \in Seq(Pieces) /\ Len(f) = Len(buf) + Len(rest)
      /\ Len(buf) \in Nat /\ Len(rest) \in Nat
      /\ \A k \in 1 .. Len(buf) + Len(rest) :
            f[k] = IF k <= Len(buf) THEN buf[k] ELSE rest[k - Len(buf)]
    BY ConcatProperties, LenProperties
<1>2. i < j /\ Matches(buf, i, j)
    BY DEF Found, Matches
<1> HIDE DEF f
<1>3. Len(buf) >= 2 /\ Len(f) >= 2
    BY <1>1, <1>2
<1>4. buf[1] = f[1] /\ buf[2] = f[2]
    BY <1>1, <1>3
<1>5. /\ n + 1 <= Len(pr)
      /\ f[1] = Open(pr[n + 1]) /\ f[2] = Close(pr[n + 1])
      /\ LineWhole(pr, p, SubSeq(f, 3, Len(f)), n + 1)
    <2>1. LineWhole(pr, p, f, n)
        BY DEF f
    <2> QED BY <1>1, <1>3, <2>1, LineCut
<1>6. buf[1].kind = "open" /\ buf[2].kind = "close"
    BY <1>4, <1>5 DEF Open, Close
<1>7. Matches(buf, 1, 2)
    BY <1>6 DEF Matches
<1>8. i = 1
    <2>1. SUFFICES ASSUME i > 1
                   PROVE  FALSE
        BY <1>1
    <2>2. 1 \in 1 .. i - 1 /\ 2 \in 1 .. Len(buf)
        BY <1>1, <1>3, <2>1
    <2> QED BY <1>7, <2>2 DEF Found
<1>9. j = 2
    <2>1. SUFFICES ASSUME j > 2
                   PROVE  FALSE
        BY <1>1, <1>2, <1>8
    <2>2. 2 \in i + 1 .. j - 1
        BY <1>1, <1>8, <2>1
    <2> QED BY <1>2, <1>6, <2>2 DEF Matches
<1>10. SubSeq(buf, 3, Len(buf)) \o rest = SubSeq(f, 3, Len(f))
    <2>1. 2 \in 0 .. Len(buf) /\ 2 + 1 = 3
        BY <1>1, <1>3
    <2>2. SubSeq(buf, 2 + 1, Len(buf)) \o rest
            = SubSeq(buf \o rest, 2 + 1, Len(buf \o rest))
        BY <2>1, CutConcat
    <2> QED BY <2>1, <2>2 DEF f
<1> QED BY <1>4, <1>5, <1>9, <1>10

\* What a search of the regular expression finds: whenever there is a match,
\* one and only one is the leftmost, so a read and its search have one outcome
\* (mote-gateway.go:220-229).
THEOREM FoundOnce ==
    ASSUME NEW buf \in Seq(Pieces), ~NoMatch(buf)
    PROVE  \E i, j \in 1 .. Len(buf) :
              /\ Found(buf, i, j)
              /\ \A k, l \in 1 .. Len(buf) : Found(buf, k, l) => k = i /\ l = j
<1> DEFINE n == Len(buf)
           Begins(i) == \E j \in 1 .. n : Matches(buf, i, j)
           T == {m \in Nat : \A k \in 1 .. n : k <= m => ~Begins(k)}
<1>1. n \in Nat
    BY LenProperties
<1>2. PICK b \in 1 .. n : Begins(b)
    BY DEF NoMatch
<1>3. \E m \in T : m + 1 \notin T
    <2> SUFFICES ASSUME \A m \in T : m + 1 \in T
                 PROVE  FALSE
        OBVIOUS
    <2>1. 0 \in T
        BY <1>1
    <2>2. T \in SUBSET Nat
        OBVIOUS
    <2>3. T = Nat
        <3> HIDE DEF T
        <3> QED BY <2>1, <2>2, SetInduction
    <2>4. b \in T
        BY <1>1, <2>3
    <2> QED BY <1>1, <1>2, <2>4
<1>4. PICK m \in T : m + 1 \notin T
    BY <1>3
<1> DEFINE i == m + 1
<1>5. i \in 1 .. n /\ Begins(i) /\ \A k \in 1 .. n : k < i => ~Begins(k)
    <2>1. m \in Nat /\ \A k \in 1 .. n : k <= m => ~Begins(k)
        BY <1>4
    <2>2. PICK k \in 1 .. n : k <= m + 1 /\ Begins(k)
        BY <1>4, <2>1
    <2> HIDE DEF Begins
    <2>3. k = m + 1
        BY <1>1, <2>1, <2>2
    <2> QED BY <1>1, <2>1, <2>2, <2>3
<1> HIDE DEF i
<1>6. PICK j \in 1 .. n : Matches(buf, i, j)
    BY <1>5
<1>7. Found(buf, i, j)
    BY <1>1, <1>5, <1>6 DEF Found
<1>8. ASSUME NEW k \in 1 .. n, NEW l \in 1 .. n, Found(buf, k, l)
      PROVE  k = i /\ l = j
    <2>1. Matches(buf, k, l)
        BY <1>8 DEF Found
    <2>2. ~(k < i)
        BY <1>5, <2>1
    <2>3. ~(i < k)
        BY <1>1, <1>5, <1>6, <1>8 DEF Found
    <2>4. k = i
        BY <1>1, <1>5, <2>2, <2>3
    <2>5. /\ i < j /\ i < l
          /\ buf[j].kind = "close" /\ buf[l].kind = "close"
          /\ \A q \in i + 1 .. j - 1 : buf[q].kind = "open"
          /\ \A q \in i + 1 .. l - 1 : buf[q].kind = "open"
        BY <1>6, <2>1, <2>4 DEF Matches
    <2>6. l \notin i + 1 .. j - 1 /\ j \notin i + 1 .. l - 1
        BY <2>5
    <2> QED BY <1>1, <1>5, <2>4, <2>5, <2>6
<1> QED BY <1>5, <1>7, <1>8

LEMMA ReadConserved ==
    ASSUME ConservedInv, ReadSerial
    PROVE  NothingMissing'
<1>1. PICK n \in Readable :
        LET buf == buftotal \o SubSeq(tty, 1, n)
        IN  /\ tty' = SubSeq(tty, n + 1, Len(tty))
            /\ \/ /\ NoMatch(buf)
                  /\ buftotal' = buf
                  /\ UNCHANGED <<workerPc, pkt>>
               \/ \E i, j \in 1 .. Len(buf) :
                    /\ Found(buf, i, j)
                    /\ buftotal' = SubSeq(buf, j + 1, Len(buf))
                    /\ pkt' \in Cut(buf, i, j)
                    /\ workerPc' = "send"
    BY DEF ReadSerial
<1>2. /\ UNCHANGED <<printed, printing, written, ps, lossy>> /\ workerPc = "read"
      /\ Typed /\ printed \in Seq(Packets) /\ printing \in Packets \cup {None}
    BY DEF ReadSerial, boardVars, mainVars, dbVars, losses, ConservedInv, OrderInv,
        Typed, TypeOK
<1>3. Accepted' = Accepted /\ Channel = <<>>
    BY <1>2 DEF Accepted, Pending, Channel
<1> DEFINE buf  == buftotal \o SubSeq(tty, 1, n)
           rest == SubSeq(tty, n + 1, Len(tty))
<1>4. buf \in Seq(Pieces) /\ rest \in Seq(Pieces) /\ Feed = buf \o rest
    <2>1. n \in 0 .. Len(tty)
        BY DEF Readable
    <2> QED BY <1>2, <2>1, FeedSplit
<1>5. Feed' = buftotal' \o rest
    BY <1>1 DEF Feed
<1>6. \/ buftotal' = buf /\ UNCHANGED <<workerPc, pkt>>
      \/ \E i, j \in 1 .. Len(buf) :
            /\ Found(buf, i, j)
            /\ buftotal' = SubSeq(buf, j + 1, Len(buf))
            /\ pkt' \in Cut(buf, i, j)
            /\ workerPc' = "send"
    BY <1>1
<1> HIDE DEF buf, rest
<1>7. CASE buftotal' = buf /\ UNCHANGED <<workerPc, pkt>>
    <2>1. CutOut' = CutOut /\ Feed' = Feed
        BY <1>2, <1>4, <1>5, <1>7 DEF CutOut, Pending
    <2> QED BY <1>2, <2>1 DEF ConservedInv, NothingMissing
<1>8. ASSUME NEW i \in 1 .. Len(buf), NEW j \in 1 .. Len(buf),
             Found(buf, i, j), buftotal' = SubSeq(buf, j + 1, Len(buf)),
             pkt' \in Cut(buf, i, j), workerPc' = "send"
      PROVE  NothingMissing'
    <2> SUFFICES ASSUME ~lossy
                 PROVE  /\ CutsPrinted(printed, CutOut')
                        /\ LineWhole(printed, printing, Feed', Len(CutOut'))
        BY <1>2 DEF NothingMissing
    <2>1. /\ CutsPrinted(printed, CutOut)
          /\ LineWhole(printed, printing, buf \o rest, Len(CutOut))
        BY <1>4 DEF ConservedInv, NothingMissing
    <2>2. /\ CutOut \in Seq(Points) /\ Len(CutOut) \in Nat
          /\ Len(CutOut) <= Len(printed) /\ Accepted \in Seq(Points)
          /\ CutOut = Accepted \o <<>>
        BY <1>2, <1>3, <2>1, AcceptedTypes DEF CutsPrinted
    <2>3. /\ j = 2 /\ Len(CutOut) + 1 <= Len(printed)
          /\ buf[2] = Close(printed[Len(CutOut) + 1])
          /\ LineWhole(printed, printing, SubSeq(buf, 3, Len(buf)) \o rest,
                       Len(CutOut) + 1)
        BY <1>2, <1>4, <1>8, <2>1, <2>2, FirstMatch
    <2>4. pkt' \in Points /\ pkt'.pkt = printed[Len(CutOut) + 1]
        <3>1. buf[j].kind = "close" /\ buf[j].pkt = printed[Len(CutOut) + 1]
            BY <2>3 DEF Close
        <3>2. TypeOK
            BY <1>2 DEF Typed
        <3> QED BY <1>4, <1>8, <3>1, <3>2, CutType
    <2>5. CutOut' = Append(CutOut, pkt')
        <3>1. CutOut' = Accepted' \o <<pkt'>>
            BY <1>8 DEF CutOut, Accepted
        <3>2. CutOut = Accepted
            BY <2>2, ConcatEmptySeq
        <3> QED BY <1>3, <2>2, <2>4, <3>1, <3>2, AppendIsConcat
    <2> DEFINE s == CutOut
               t == CutOut'
               x == pkt'
    <2>6. /\ Len(t) = Len(s) + 1
          /\ \A k \in 1 .. Len(s) : t[k] = s[k]
          /\ t[Len(s) + 1] = x
        BY <2>2, <2>4, <2>5, Appended
    <2>7. CutsPrinted(printed, t)
        <3>1. /\ CutsPrinted(printed, s) /\ Len(s) \in Nat
              /\ Len(s) + 1 <= Len(printed) /\ x.pkt = printed[Len(s) + 1]
            BY <2>1, <2>2, <2>3, <2>4
        <3> HIDE DEF s, t, x
        <3>2. \A k \in 1 .. Len(t) : k \in 1 .. Len(s) \/ k = Len(s) + 1
            BY <2>6, <3>1
        <3> QED BY <2>6, <3>1, <3>2 DEF CutsPrinted
    <2>8. Feed' = SubSeq(buf, 3, Len(buf)) \o rest
        <3>1. j + 1 = 3
            BY <2>3
        <3> QED BY <1>5, <1>8, <3>1
    <2> QED BY <2>3, <2>6, <2>7, <2>8
<1> QED BY <1>6, <1>7, <1>8

LEMMA HandoverConserved ==
    ASSUME ConservedInv, Handover
    PROVE  NothingMissing'
<1>1. /\ UNCHANGED <<printed, printing, written, buftotal, tty, lossy>>
      /\ workerPc = "send" /\ workerPc' = "read"
    BY DEF Handover, boardVars, lineVars, losses, dbVars
<1>2. Pending' = Append(Pending, pkt)
    BY HandoverPending DEF ConservedInv
<1>3. /\ Pending \in Seq(Points) /\ written \in Seq(Points) /\ pkt \in Points
      /\ Accepted \in Seq(Points)
    BY <1>1, AcceptedTypes DEF ConservedInv, OrderInv, Typed, TypeOK, ChannelShape
<1>4. Append(Pending, pkt) = Pending \o <<pkt>> /\ <<pkt>> \in Seq(Points)
    BY <1>3, AppendIsConcat
<1>5. written \o (Pending \o <<pkt>>) = (written \o Pending) \o <<pkt>>
    BY <1>3, <1>4, ConcatAssociative
<1>6. CutOut' = (written \o (Pending \o <<pkt>>)) \o <<>>
    BY <1>1, <1>2, <1>4 DEF CutOut
<1>7. CutOut = (written \o Pending) \o <<pkt>>
    BY <1>1 DEF CutOut
<1>8. CutOut \in Seq(Points)
    BY AcceptedTypes DEF ConservedInv, OrderInv
<1>9. CutOut' = CutOut /\ Feed' = Feed
    BY <1>1, <1>5, <1>6, <1>7, <1>8, ConcatEmptySeq DEF Feed
<1> QED BY <1>1, <1>9 DEF ConservedInv, NothingMissing

LEMMA ConservedStep == ConservedInv /\ [Next]_vars => ConservedInv'
<1> SUFFICES ASSUME ConservedInv, [Next]_vars
             PROVE  NothingMissing'
    BY OrderStep DEF ConservedInv
<1> USE DEF boardVars, workerVars, mainVars, envVars, losses, lineVars, dbVars
<1>1. ASSUME UNCHANGED <<printed, printing, buftotal, tty, lossy, written, ps,
                         workerPc, pkt>>
      PROVE  NothingMissing'
    BY <1>1, SameConserved DEF Accepted, Pending, Channel
<1>2. ASSUME lossy' = TRUE
      PROVE  NothingMissing'
    BY <1>2 DEF NothingMissing
<1>3. CASE UNCHANGED vars
    BY <1>1, <1>3 DEF vars
<1>4. ASSUME NEW p \in Packets, PrintOpen(p)
      PROVE  NothingMissing'
    BY <1>4, PrintOpenConserved
<1>5. CASE PrintClose
    BY <1>5, PrintCloseConserved
<1>6. CASE PrintText \/ InfluxChanges \/ Tick \/ Start
    BY <1>1, <1>6 DEF PrintText, InfluxChanges, Tick, Start
<1>7. CASE \/ BoardResets \/ Killed \/ OpenPortFails \/ ConfigureFails
           \/ CreateClientFails
    BY <1>2, <1>7
    DEF BoardResets, Killed, OpenPortFails, ConfigureFails, CreateClientFails,
        Dies
<1>8. CASE Configure
    <2>1. /\ workerPc = "config" /\ workerPc' = "read"
          /\ UNCHANGED <<printed, printing, buftotal, tty, lossy, written, ps>>
        BY <1>8 DEF Configure
    <2> QED BY <2>1, SameConserved DEF Accepted, Pending, Channel
<1>9. CASE ReadSerial
    BY <1>9, ReadConserved
<1>10. CASE Handover
    BY <1>10, HandoverConserved
<1>11. CASE CreateClient \/ ListEmpty
    BY <1>1, <1>11 DEF CreateClient, ListEmpty
<1>12. CASE WriteSucceeds
    <2>1. /\ UNCHANGED <<printed, printing, buftotal, tty, lossy>>
          /\ Channel' = Channel
        BY <1>12 DEF WriteSucceeds, Channel
    <2>2. Accepted' = Accepted
        <3>1. OrderInv /\ OrderInv'
            BY OrderStep DEF ConservedInv
        <3>2. ps # <<>>
            BY <1>12 DEF WriteSucceeds
        <3> QED BY <1>12, <3>1, <3>2, WriteSucceedsMoves, WrittenMoves
            DEF OrderInv
    <2> QED BY <2>1, <2>2, SameConserved
<1>13. CASE WriteFails
    <2>1. /\ UNCHANGED <<printed, printing, buftotal, tty, lossy>>
          /\ Channel' = Channel
        BY <1>13 DEF WriteFails, Channel
    <2>2. Accepted' = Accepted
        <3>1. ps # <<>>
            BY <1>13 DEF WriteFails
        <3>2. CASE UNCHANGED <<db, written>> /\ Pending' = Pending
            BY <3>2 DEF Accepted
        <3>3. CASE HeadMoves
            BY <3>1, <3>3, WrittenMoves DEF ConservedInv, OrderInv
        <3> QED BY <1>13, <3>2, <3>3, WriteFailsMoves DEF ConservedInv
    <2> QED BY <2>1, <2>2, SameConserved
<1>14. CASE OpenPort
    <2>1. /\ workerPc = "open" /\ workerPc' = "config"
          /\ UNCHANGED <<printed, printing, buftotal, tty, lossy, written, ps>>
        BY <1>14 DEF OpenPort
    <2> QED BY <2>1, SameConserved DEF Accepted, Pending, Channel
<1> QED BY <1>3, <1>4, <1>5, <1>6, <1>7, <1>8, <1>9, <1>10, <1>11, <1>12, <1>13,
    <1>14
    DEF Next, BoardNext, WorkerNext, MainNext

LEMMA ConservedInit == Init => ConservedInv
<1> SUFFICES ASSUME Init
             PROVE  ConservedInv
    OBVIOUS
<1>1. OrderInv
    BY OrderInit
<1>2. /\ CutOut = <<>> /\ Feed = <<>> /\ printed = <<>> /\ printing = None
    BY DEF Init, CutOut, Pending, Feed
<1>3. Len(<<>>) = 0 /\ 0 <= 0 /\ 0 = 2 * (0 - 0) + 0 /\ 1 .. 0 - 0 = {}
      /\ 1 .. 0 = {}
    OBVIOUS
<1>4. CutsPrinted(<<>>, <<>>) /\ LineWhole(<<>>, None, <<>>, Len(<<>>))
    BY <1>3 DEF CutsPrinted, LineWhole
<1> QED BY <1>1, <1>2, <1>4 DEF ConservedInv, NothingMissing

LEMMA ConservedAlways == Spec => []ConservedInv
<1> QED BY ConservedInit, ConservedStep, PTL DEF Spec

\* A cell holds the value of the last point that gave it one.
LEMMA ReplacedByLaterHolds ==
    ASSUME StoredInv
    PROVE  ReplacedByLater
<1> SUFFICES ASSUME NEW i \in 1 .. Len(written), NEW c \in Cells,
                    Gives(written[i], c)
             PROVE  \E j \in i .. Len(written) :
                        Gives(written[j], c) /\ db[c] = written[j].pkt
    BY DEF ReplacedByLater
<1>1. HoldsLast(db, written, c)
    BY DEF StoredInv, Latest
<1>2. PICK j : LastGiver(written, c, j) /\ db[c] = written[j].pkt
    BY <1>1 DEF HoldsLast
<1>3. j \in i .. Len(written)
    <2>1. Len(written) \in Nat
        BY LenProperties DEF StoredInv, OrderInv, Typed, TypeOK
    <2> QED BY <1>2, <2>1 DEF LastGiver
<1> QED BY <1>2, <1>3 DEF LastGiver

\* As long as nothing is lost, every packet is somewhere, once, and in order:
\* on the line, in buftotal, on the channel, in the list or written, however
\* reads cut the line and however often writes fail (serialworker,
\* push_influx); and a value that was written is in the database until a packet
\* of the same mote and second that was written later replaces it.
THEOREM PacketsConservedHolds == Spec => []PacketsConserved
<1>1. ASSUME ConservedInv, ~lossy
      PROVE  Ids(CutOut) \o Ids(Uncut) = printed
    <2> USE <1>1
    <2> DEFINE n == Len(CutOut)
               a == Ids(CutOut)
               b == Ids(Uncut)
               ab == a \o b
    <2>1. /\ CutsPrinted(printed, CutOut)
          /\ LineWhole(printed, printing, Feed, n)
        BY DEF ConservedInv, NothingMissing
    <2>2. /\ printed \in Seq(Packets) /\ printing \in Packets \cup {None}
          /\ Feed \in Seq(Pieces) /\ n \in Nat /\ n <= Len(printed)
          /\ Len(printed) \in Nat
        BY <2>1, WayTypes, AcceptedTypes, LenProperties
        DEF ConservedInv, OrderInv, Typed, TypeOK, CutsPrinted
    <2>3. \A i \in 1 .. Len(printed) : printed[i] \in Packets
        BY <2>2, ElementOfSeq
    <2>4. /\ Len(Uncut) = Len(printed) - n
          /\ \A i \in 1 .. Len(printed) - n : Uncut[i] = Close(printed[n + i])
        BY <2>1, <2>2, ClosesOfLine DEF Uncut, Feed
    <2>5. /\ a \in Seq(Packets) /\ Len(a) = n
          /\ \A i \in 1 .. n : a[i] = printed[i]
        <3>1. \A i \in 1 .. n : CutOut[i].pkt = printed[i] /\ printed[i] \in Packets
            BY <2>1, <2>2, <2>3 DEF CutsPrinted
        <3> QED BY <2>2, <3>1 DEF Ids
    <2>6. /\ b \in Seq(Packets) /\ Len(b) = Len(printed) - n
          /\ \A i \in 1 .. Len(printed) - n : b[i] = printed[n + i]
        <3> DEFINE m == Len(printed) - n
        <3>1. ASSUME NEW i \in 1 .. m
              PROVE  Uncut[i].pkt = printed[n + i] /\ printed[n + i] \in Packets
            <4>1. n + i \in 1 .. Len(printed)
                BY <2>2
            <4>2. Uncut[i] = Close(printed[n + i])
                BY <2>4
            <4>3. printed[n + i] \in Packets
                BY <2>3, <4>1
            <4> HIDE DEF n, m
            <4> QED BY <4>2, <4>3 DEF Close
        <3>2. m \in Nat /\ Len(Uncut) = m
            BY <2>2, <2>4
        <3> HIDE DEF m, n
        <3>3. /\ b \in Seq(Packets) /\ Len(b) = m
              /\ \A i \in 1 .. m : b[i] = printed[n + i]
            BY <3>1, <3>2 DEF Ids
        <3> QED BY <3>3 DEF m
    <2> HIDE DEF n, a, b
    <2>7. /\ ab \in Seq(Packets) /\ Len(ab) = Len(a) + Len(b)
          /\ \A i \in 1 .. Len(a) + Len(b) :
                ab[i] = IF i <= Len(a) THEN a[i] ELSE b[i - Len(a)]
        BY <2>5, <2>6, ConcatProperties
    <2> HIDE DEF ab
    <2>8. ASSUME NEW i \in 1 .. Len(ab)
          PROVE  ab[i] = printed[i]
        <3>1. CASE i <= n
            BY <2>2, <2>5, <2>6, <2>7, <3>1
        <3>2. CASE ~(i <= n)
            <4>1. i - n \in 1 .. Len(printed) - n /\ n + (i - n) = i
                BY <2>2, <2>5, <2>6, <2>7, <3>2
            <4> QED BY <2>2, <2>5, <2>6, <2>7, <3>2, <4>1
        <3> QED BY <3>1, <3>2
    <2>9. Len(ab) = Len(printed)
        BY <2>2, <2>5, <2>6, <2>7
    <2>10. ab = printed
        BY <2>2, <2>7, <2>8, <2>9, SeqEqual
    <2> QED BY <2>10 DEF ab, a, b
<1>2. ConservedInv /\ StoredInv => PacketsConserved
    BY <1>1, ReplacedByLaterHolds DEF PacketsConserved
<1> QED BY <1>2, ConservedAlways, StoredAlways, PTL

\* As long as nothing is lost, a whole packet that was read can be cut out by
\* the next search, and it is the next one of the line: what a read leaves
\* behind for the one after it (mote-gateway.go:220-229) is never unreadable.
\* With FoundOnce this is the safety half of PrintedAccepted.
RestReadable ==
    ~lossy /\ Len(buftotal) >= 2 =>
        /\ Found(buftotal, 1, 2)
        /\ buftotal[1].pkt = buftotal[2].pkt
        /\ buftotal[2].pkt = printed[Len(CutOut) + 1]

THEOREM RestReadableHolds == Spec => []RestReadable
<1>1. ConservedInv => RestReadable
    <2> SUFFICES ASSUME ConservedInv, ~lossy, Len(buftotal) >= 2
                 PROVE  /\ Found(buftotal, 1, 2)
                        /\ buftotal[1].pkt = buftotal[2].pkt
                        /\ buftotal[2].pkt = printed[Len(CutOut) + 1]
        BY DEF RestReadable
    <2> DEFINE n == Len(CutOut)
    <2>1. /\ CutsPrinted(printed, CutOut)
          /\ LineWhole(printed, printing, Feed, n)
        BY DEF ConservedInv, NothingMissing
    <2>2. /\ printed \in Seq(Packets) /\ printing \in Packets \cup {None}
          /\ Feed \in Seq(Pieces) /\ n \in Nat /\ n <= Len(printed)
          /\ buftotal \in Seq(Pieces) /\ tty \in Seq(Pieces)
        BY <2>1, WayTypes, AcceptedTypes
        DEF ConservedInv, OrderInv, Typed, TypeOK, CutsPrinted
    <2>3. /\ Len(buftotal) \in Nat /\ Len(tty) \in Nat
          /\ Len(Feed) = Len(buftotal) + Len(tty)
          /\ \A k \in 1 .. Len(buftotal) : Feed[k] = buftotal[k]
        BY <2>2, ConcatProperties, LenProperties DEF Feed
    <2>4. /\ Feed[1] = Open(printed[n + 1]) /\ Feed[2] = Close(printed[n + 1])
          /\ Feed[1] = buftotal[1] /\ Feed[2] = buftotal[2]
        <3>1. Len(Feed) >= 2 /\ 1 \in 1 .. Len(buftotal) /\ 2 \in 1 .. Len(buftotal)
            BY <2>3
        <3> HIDE DEF n
        <3>2. Feed[1] = Open(printed[n + 1]) /\ Feed[2] = Close(printed[n + 1])
            BY <2>1, <2>2, <3>1, LineCut
        <3> QED BY <2>3, <3>1, <3>2
    <2>5. /\ buftotal[1].kind = "open" /\ buftotal[2].kind = "close"
          /\ buftotal[1].pkt = printed[n + 1]
          /\ buftotal[2].pkt = printed[n + 1]
        BY <2>4 DEF Open, Close
    <2>6. Found(buftotal, 1, 2)
        BY <2>5 DEF Found, Matches
    <2> QED BY <2>5, <2>6
<1> QED BY <1>1, ConservedAlways, PTL
=============================================================================
