----------------------------- MODULE PairingProofs -----------------------------
(***************************************************************************)
(* Proofs about the connection of module SecureLink and about Pairing.     *)
(* Between two ends with the same frame limit no record and no frame is    *)
(* refused, and what ReadFrame returns is what the other session wrote,    *)
(* for any frames, any record size, either way of writing a frame, any     *)
(* number of connections and any end of them.  The steps of Pairing are    *)
(* steps of that connection, so this holds for two machines that pair; and *)
(* a pin that a machine holds is the key of the machine it is talking to,  *)
(* for any number of keys, starts, crashes and deleted key directories.    *)
(***************************************************************************)
EXTENDS Pairing, SequenceTheorems, TLAPS

-----------------------------------------------------------------------------
(* The invariant of the connection.                                        *)

Units == Nat \X Nat

\* How far the two ends are with the handshake.
Stages == {<<0, 0>>, <<1, 0>>, <<1, 2>>, <<3, 2>>, <<3, 3>>}

\* The handshake messages on their way to e: one or none.
Waiting(e) ==
    IF e = "rsp"
    THEN IF <<stage["ini"], stage["rsp"]>> \in {<<1, 0>>, <<3, 2>>} THEN 1 ELSE 0
    ELSE IF <<stage["ini"], stage["rsp"]>> = <<1, 2>> THEN 1 ELSE 0

\* A record, or what is left of one, is part of one frame of s.
Part(s, b) ==
    /\ b \in Seq(Units) /\ Len(b) > 0
    /\ b[1][1] \in DOMAIN Frames[s]
    /\ b[1][2] + Len(b) <= Frames[s][b[1][1]] + 1
    /\ \A i \in 1..Len(b) : b[i] = <<b[1][1], b[1][2] + i - 1>>

\* The unit of s that comes after such a part.
Follows(s, b) ==
    IF b[1][2] + Len(b) = Frames[s][b[1][1]] + 1 THEN <<b[1][1] + 1, 0>>
    ELSE <<b[1][1], b[1][2] + Len(b)>>

\* The unit ReadFrame wants next, the unit the next record begins with, and
\* the unit the peer seals next.
Wanted(e) == <<Len(got[e]) + 1, Len(have[e])>>
Missing(e) == IF rbuf[e] = <<>> THEN Wanted(e) ELSE Follows(Peer(e), rbuf[e])
Coming(e) == <<cur[Peer(e)], off[Peer(e)]>>

\* The unit the token at j begins with.
Begins(e, j) ==
    IF j > Len(wire[e]) THEN Coming(e) ELSE wire[e][j].body[1]

\* The writer is within its frame.
WriterInv(s) == cur[s] \in DOMAIN Frames[s] => off[s] <= Frames[s][cur[s]]

\* The reader has part of a frame and wants the rest of it, or a header.
ReaderInv(e) ==
    /\ \A i \in 1..Len(have[e]) : have[e][i] = <<Len(got[e]) + 1, i - 1>>
    /\ \/ have[e] = <<>> /\ asked[e] = 1
       \/ /\ have[e] # <<>> /\ Len(got[e]) + 1 \in DOMAIN Frames[Peer(e)]
          /\ asked[e] + Len(have[e]) = Frames[Peer(e)][Len(got[e]) + 1] + 1
    /\ rbuf[e] # <<>> => Part(Peer(e), rbuf[e]) /\ rbuf[e][1] = Wanted(e)

\* Handshake messages come first, and only a writer that is through with the
\* handshake sends records.
OrderInv(e) ==
    /\ Len(wire[e]) >= Waiting(e)
    /\ stage[Peer(e)] # 3 => Len(wire[e]) = Waiting(e)
    /\ tx[Peer(e)] + Waiting(e) = rx[e] + Len(wire[e])

\* A record opens when its turn comes, and goes on where the last one ended.
RecordInv(e) ==
    \A j \in (Waiting(e) + 1)..Len(wire[e]) :
        /\ wire[e][j].kind = "rec" /\ wire[e][j].by = ReadCS(e)
        /\ wire[e][j].n + Waiting(e) + 1 = rx[e] + j
        /\ Len(wire[e][j].body) <= MaxRecord
        /\ Part(Peer(e), wire[e][j].body)
        /\ Begins(e, j + 1) = Follows(Peer(e), wire[e][j].body)

StreamInv(e) ==
    /\ WriterInv(Peer(e)) /\ ReaderInv(e) /\ OrderInv(e) /\ RecordInv(e)
    /\ Begins(e, Waiting(e) + 1) = Missing(e)

\* What has been returned is right, whatever has become of the connection.
GotInv(e) ==
    /\ Len(got[e]) <= Len(Frames[Peer(e)])
    /\ \A f \in 1..Len(got[e]) :
          got[e][f] = [i \in 1..(Frames[Peer(e)][f] + 1) |-> <<f, i - 1>>]

LinkInv ==
    /\ LinkTypeOK /\ NothingRefused
    /\ <<stage["ini"], stage["rsp"]>> \in Stages
    /\ \A e \in Ends : GotInv(e) /\ (Up(e) => StreamInv(e))

-----------------------------------------------------------------------------
(* Ends, parts of frames, and the values of the variables.                 *)

LEMMA EndsFacts ==
    \A e \in Ends : /\ Peer(e) \in Ends /\ Peer(Peer(e)) = e /\ Peer(e) # e
                    /\ \A d \in Ends : d = e \/ d = Peer(e)
                    /\ WriteCS(Peer(e)) = ReadCS(e)
  BY DEF Ends, Peer, WriteCS, ReadCS

LEMMA FramesFacts ==
  ASSUME NEW s \in Ends
  PROVE  /\ Frames[s] \in Seq(Nat) /\ MaxFrame[s] \in Nat
         /\ DOMAIN Frames[s] = 1..Len(Frames[s])
         /\ \A f \in DOMAIN Frames[s] : Frames[s][f] \in Nat /\ Frames[s][f] <= MaxFrame[s]
  BY SecureLinkAssumption DEF SecureLinkAssumption

LEMMA EndType ==
  ASSUME LinkTypeOK, NEW e \in Ends
  PROVE  /\ wire[e] \in Seq(Tokens) /\ tx[e] \in Nat /\ rx[e] \in Nat
         /\ cur[e] \in Nat \ {0} /\ off[e] \in Nat
         /\ rbuf[e] \in Seq(Units) /\ have[e] \in Seq(Units)
         /\ asked[e] \in Nat \ {0} /\ got[e] \in Seq(Seq(Units))
         /\ stage[e] \in 0..3
  BY DEF LinkTypeOK, Units

LEMMA WaitingType == \A e \in Ends : Waiting(e) \in {0, 1}
  BY DEF Waiting

LEMMA TokenType ==
  ASSUME LinkTypeOK, NEW e \in Ends, NEW j \in 1..Len(wire[e])
  PROVE  /\ wire[e][j] \in Tokens /\ wire[e][j].n \in Nat
         /\ wire[e][j].body \in Seq(Units)
  <1>1. wire[e] \in Seq(Tokens)
    BY EndType
  <1>2. wire[e][j] \in Tokens
    BY <1>1
  <1>3. CASE wire[e][j] \in [kind : {"hs"}, n : 1..3, by : Keys \cup {None}, body : {<<>>}]
    <2>1. wire[e][j].body = <<>> /\ wire[e][j].n \in 1..3
      BY <1>3
    <2> QED BY <1>2, <2>1
  <1>4. CASE wire[e][j] \in [kind : {"rec"}, n : Nat, by : {"cs0", "cs1"},
                             body : Seq(Nat \X Nat)]
    BY <1>2, <1>4 DEF Units
  <1> QED BY <1>2, <1>3, <1>4 DEF Tokens

LEMMA PartFirst ==
  ASSUME NEW s \in Ends, NEW b, Part(s, b)
  PROVE  /\ b[1] \in Units /\ b[1][1] \in Nat /\ b[1][2] \in Nat /\ b # <<>>
         /\ b[1] = <<b[1][1], b[1][2]>>
         /\ Len(b) \in Nat \ {0} /\ Frames[s][b[1][1]] \in Nat
  BY FramesFacts DEF Part, Units

-----------------------------------------------------------------------------
(* The reader takes a part of a frame.                                     *)

\* What Take changes, and the values it gives.
Received(e) ==
    /\ rbuf' = [rbuf EXCEPT ![e] = rbuf'[e]] /\ rbuf'[e] \in Seq(Units)
    /\ have' = [have EXCEPT ![e] = have'[e]] /\ have'[e] \in Seq(Units)
    /\ asked' = [asked EXCEPT ![e] = asked'[e]] /\ asked'[e] \in Nat \ {0}
    /\ got' = [got EXCEPT ![e] = got'[e]] /\ got'[e] \in Seq(Seq(Units))
    /\ UNCHANGED fate

LEMMA TakeStep ==
  ASSUME LinkTypeOK, NEW e \in Ends, ReaderInv(e), GotInv(e), NEW b,
         MaxFrame["ini"] = MaxFrame["rsp"],
         Part(Peer(e), b), b[1] = Wanted(e), Take(e, b)
  PROVE  Received(e) /\ ReaderInv(e)' /\ GotInv(e)' /\ Missing(e)' = Follows(Peer(e), b)
<1> DEFINE s == Peer(e)
           f == Len(got[e]) + 1
           h == Len(have[e])
           size == Frames[s][f]
           n == IF Len(b) < asked[e] THEN Len(b) ELSE asked[e]
           units == have[e] \o SubSeq(b, 1, n)
           rest == SubSeq(b, n + 1, Len(b))
           whole == [i \in 1..(size + 1) |-> <<f, i - 1>>]
<1>1. /\ s \in Ends /\ f \in DOMAIN Frames[s] /\ f \in Nat \ {0} /\ h \in Nat /\ size \in Nat
      /\ b[1] = <<f, h>> /\ b \in Seq(Units) /\ Len(b) \in Nat \ {0}
      /\ h + Len(b) <= size + 1
      /\ \A i \in 1..Len(b) : b[i] = <<f, h + i - 1>>
  <2>1. /\ s \in Ends /\ b \in Seq(Units) /\ b[1] = <<f, h>> /\ f \in Nat \ {0} /\ h \in Nat
        /\ b[1][1] = f /\ b[1][2] = h
    BY EndType, EndsFacts DEF Part, Wanted
  <2>2. f \in DOMAIN Frames[s] /\ size \in Nat
    BY <2>1, FramesFacts DEF Part
  <2> HIDE DEF s, f, h, size
  <2>3. Len(b) \in Nat \ {0} /\ \A i \in 1..Len(b) : b[i] = <<f, h + i - 1>>
    BY <2>1 DEF Part, s
  <2>4. h + Len(b) <= size + 1
    BY <2>1 DEF Part, s, size
  <2> QED BY <2>1, <2>2, <2>3, <2>4
<1>2. /\ have[e] \in Seq(Units) /\ asked[e] \in Nat \ {0}
      /\ got[e] \in Seq(Seq(Units)) /\ n \in Nat \ {0} /\ n <= Len(b)
      /\ n <= asked[e]
  BY <1>1, EndType
<1>3. /\ h = 0 => asked[e] = 1
      /\ h > 0 => asked[e] + h = size + 1
  BY <1>1, <1>2 DEF ReaderInv
<1>13. /\ h \in Nat /\ size \in Nat /\ n \in Nat /\ n > 0 /\ asked[e] \in Nat
       /\ asked[e] > 0 /\ n <= asked[e]
  <2> HIDE DEF n, h, f, size
  <2> QED BY <1>1, <1>2
<1>4. /\ SubSeq(b, 1, n) \in Seq(Units) /\ Len(SubSeq(b, 1, n)) = n
      /\ \A i \in 1..n : SubSeq(b, 1, n)[i] = b[i]
  BY <1>1, <1>2
<1>5. /\ units \in Seq(Units) /\ Len(units) = h + n
      /\ \A i \in 1..(h + n) : units[i] = <<f, i - 1>>
  <2>1. units \in Seq(Units) /\ Len(units) = h + n
    BY <1>1, <1>2, <1>4
  <2>a. /\ \A i \in 1..h : units[i] = have[e][i]
        /\ \A i \in (h + 1)..(h + n) : units[i] = SubSeq(b, 1, n)[i - h]
    <3> DEFINE piece == SubSeq(b, 1, n)
    <3>1. piece \in Seq(Units) /\ Len(piece) = n
      BY <1>4
    <3> DEFINE first == have[e]
    <3>2. first \in Seq(Units) /\ Len(first) = h /\ units = first \o piece
      BY <1>2
    <3>3. \A i \in 1 .. h + n : units[i] = IF i <= h THEN first[i] ELSE piece[i - h]
      <4> HIDE DEF piece, first, n, h, units
      <4> QED BY <3>1, <3>2, ConcatProperties
    <3> HIDE DEF n, h, units, piece
    <3>4. \A i \in 1..h : units[i] = have[e][i]
      <4> SUFFICES ASSUME NEW i \in 1..h PROVE units[i] = have[e][i]
        OBVIOUS
      <4>1. i \in 1..(h + n) /\ i <= h
        BY <1>13
      <4> QED BY <4>1, <3>3
    <3>5. \A i \in (h + 1)..(h + n) : units[i] = piece[i - h]
      <4> SUFFICES ASSUME NEW i \in (h + 1)..(h + n) PROVE units[i] = piece[i - h]
        OBVIOUS
      <4>1. i \in 1..(h + n) /\ ~(i <= h)
        BY <1>13
      <4> QED BY <4>1, <3>3
    <3> QED BY <3>4, <3>5 DEF piece
  <2>2. \A i \in 1..h : units[i] = <<f, i - 1>>
    <3>1. \A i \in 1..h : have[e][i] = <<f, i - 1>>
      BY DEF ReaderInv
    <3> QED BY <2>a, <3>1
  <2>3. \A i \in (h + 1)..(h + n) : units[i] = <<f, i - 1>>
    <3> SUFFICES ASSUME NEW i \in (h + 1)..(h + n) PROVE units[i] = <<f, i - 1>>
      OBVIOUS
    <3>1. i - h \in 1..n /\ units[i] = SubSeq(b, 1, n)[i - h]
      <4>1. i - h \in 1..n
        <5> HIDE DEF n, h
        <5> QED BY <1>13
      <4> QED BY <4>1, <2>a
    <3>2. units[i] = b[i - h]
      BY <3>1, <1>4
    <3>3. i - h \in 1..Len(b) /\ h + (i - h) - 1 = i - 1
      BY <3>1, <1>1, <1>2
    <3> HIDE DEF units, n, h, f
    <3> QED BY <3>2, <3>3, <1>1
  <2>4. ASSUME NEW i \in 1..(h + n) PROVE i \in 1..h \/ i \in (h + 1)..(h + n)
    <3> HIDE DEF n, h, size
    <3> QED BY <1>13
  <2> HIDE DEF units, n, h, f
  <2> QED BY <2>1, <2>2, <2>3, <2>4
<1>6. /\ rbuf' = [rbuf EXCEPT ![e] = SubSeq(b, n + 1, Len(b))]
      /\ SubSeq(b, n + 1, Len(b)) \in Seq(Units)
      /\ Len(SubSeq(b, n + 1, Len(b))) = Len(b) - n
      /\ \A i \in 1..(Len(b) - n) : SubSeq(b, n + 1, Len(b))[i] = b[i + n]
  <2>1. rbuf' = [rbuf EXCEPT ![e] = SubSeq(b, n + 1, Len(b))]
    BY DEF Take, Put, Kept
  <2> HIDE DEF n
  <2>2. \A i \in (n + 1)..Len(b) : b[i] \in Units
    BY <1>1, <1>2
  <2>3. n + 1 \in Int /\ Len(b) \in Int
    BY <1>1, <1>2
  <2>4. /\ SubSeq(b, n + 1, Len(b)) \in Seq(Units)
        /\ Len(SubSeq(b, n + 1, Len(b)))
              = IF n + 1 <= Len(b) THEN Len(b) - (n + 1) + 1 ELSE 0
        /\ \A i \in 1..(Len(b) - (n + 1) + 1) :
              SubSeq(b, n + 1, Len(b))[i] = b[(n + 1) + i - 1]
    BY <2>2, <2>3, SubSeqProperties
  <2> DEFINE m == Len(b)
             t == SubSeq(b, n + 1, m)
  <2>5. /\ m - (n + 1) + 1 = m - n
        /\ (IF n + 1 <= m THEN m - (n + 1) + 1 ELSE 0) = m - n
    <3>1. n \in Nat /\ m \in Nat /\ n <= m
      BY <1>1, <1>2
    <3> HIDE DEF m
    <3> QED BY <3>1
  <2>6. \A i \in 1..(m - n) : (n + 1) + i - 1 = i + n
    <3>1. n \in Nat /\ m \in Nat
      BY <1>1, <1>2
    <3> HIDE DEF m
    <3> QED BY <3>1
  <2>7. t \in Seq(Units) /\ Len(t) = m - n /\ \A i \in 1..(m - n) : t[i] = b[i + n]
    <3> HIDE DEF m, t
    <3> QED BY <2>4, <2>5, <2>6 DEF m, t
  <2> QED BY <2>1, <2>7
<1>7. /\ DOMAIN rbuf = Ends /\ DOMAIN have = Ends /\ DOMAIN asked = Ends /\ DOMAIN got = Ends
      /\ rbuf \in [Ends -> Seq(Units)] /\ have \in [Ends -> Seq(Units)]
      /\ asked \in [Ends -> Nat \ {0}] /\ got \in [Ends -> Seq(Seq(Units))]
  BY DEF LinkTypeOK, Units
<1>8. rbuf' = [rbuf EXCEPT ![e] = rbuf'[e]] /\ rbuf'[e] = SubSeq(b, n + 1, Len(b))
  BY <1>6, <1>7
<1>14. /\ rest = <<>> <=> Len(b) = n
       /\ Follows(s, b) = IF h + Len(b) = size + 1 THEN <<f + 1, 0>> ELSE <<f, h + Len(b)>>
       /\ rest # <<>> => /\ Part(s, rest) /\ rest[1] = <<f, h + n>>
                         /\ Follows(s, rest) = Follows(s, b)
  <2>1. Follows(s, b) = IF h + Len(b) = size + 1 THEN <<f + 1, 0>> ELSE <<f, h + Len(b)>>
    <3>1. b[1][1] = f /\ b[1][2] = h
      <4> HIDE DEF f, h
      <4> QED BY <1>1
    <3> HIDE DEF h, n
    <3> QED BY <3>1 DEF Follows
  <2>2. rest = <<>> <=> Len(b) = n
    <3> HIDE DEF rest, n, h, f
    <3>1. rest \in Seq(Units) /\ Len(rest) = Len(b) - n
      BY <1>6 DEF rest
    <3> QED BY <3>1, <1>1, <1>13
  <2>3. ASSUME rest # <<>>
        PROVE  Part(s, rest) /\ rest[1] = <<f, h + n>> /\ Follows(s, rest) = Follows(s, b)
    <3>1. /\ rest \in Seq(Units) /\ Len(rest) = Len(b) - n /\ Len(rest) > 0
          /\ \A i \in 1..Len(rest) : rest[i] = b[i + n]
      <4> HIDE DEF n, h, f
      <4>1. rest \in Seq(Units) /\ Len(rest) = Len(b) - n
            /\ \A i \in 1..(Len(b) - n) : rest[i] = b[i + n]
        BY <1>6
      <4> HIDE DEF rest
      <4> QED BY <2>3, <2>2, <4>1, <1>1, <1>13
    <3>2. \A i \in 1..Len(rest) : rest[i] = <<f, h + n + i - 1>>
      <4> SUFFICES ASSUME NEW i \in 1..Len(rest) PROVE rest[i] = <<f, h + n + i - 1>>
        OBVIOUS
      <4> HIDE DEF n, h, f, size, rest
      <4>1. i + n \in 1..Len(b) /\ h + (i + n) - 1 = h + n + i - 1
        <5>1. Len(rest) = Len(b) - n /\ Len(b) \in Nat
          BY <3>1, <1>1
        <5> QED BY <5>1, <1>13
      <4> QED BY <3>1, <4>1, <1>1
    <3>3. rest[1] = <<f, h + n>> /\ rest[1][1] = f /\ rest[1][2] = h + n
      <4> HIDE DEF n, h, f, size, rest
      <4>1. 1 \in 1..Len(rest) /\ h + n + 1 - 1 = h + n
        BY <3>1, <1>13
      <4> QED BY <3>2, <4>1
    <3>4. h + n + Len(rest) = h + Len(b) /\ h + Len(b) <= size + 1
      <4> HIDE DEF n, h, f, size, rest
      <4> QED BY <3>1, <1>13, <1>1
    <3>5. Part(s, rest)
      <4>1. Frames[s][f] = size
        OBVIOUS
      <4> HIDE DEF n, h, f, size, rest, s
      <4> QED BY <4>1, <3>1, <3>2, <3>3, <3>4, <1>1 DEF Part
    <3>6. Follows(s, rest) = Follows(s, b)
      <4>1. Frames[s][f] = size
        OBVIOUS
      <4> HIDE DEF n, h, f, size, rest, s
      <4> QED BY <4>1, <2>1, <3>3, <3>4 DEF Follows
    <3> QED BY <3>3, <3>5, <3>6
  <2> HIDE DEF h, n, f, size
  <2> QED BY <2>1, <2>2, <2>3
<1>9. IF n = asked[e] THEN FrameStep(e, units)
      ELSE /\ asked' = [asked EXCEPT ![e] = asked[e] - n]
           /\ have' = [have EXCEPT ![e] = units]
           /\ UNCHANGED <<got, fate>>
  BY DEF Take, Put
<1>10. /\ units[1] = IF h = 0 THEN <<f, 0>> ELSE have[e][1]
       /\ units[1][1] = f /\ units[1][2] = 0
       /\ size <= MaxFrame[e]
  <2>1. units[1] = <<f, 0>>
    <3> HIDE DEF units, n, h, f
    <3>1. 1 \in 1..(h + n) /\ 1 - 1 = 0
      <4> HIDE DEF n, h
      <4> QED BY <1>13
    <3> HIDE DEF units, n, h, f
    <3> QED BY <3>1, <1>5
  <2>2. h > 0 => have[e][1] = <<f, 0>>
    BY <1>1, <1>2 DEF ReaderInv
  <2>3. size <= MaxFrame[e]
    <3>1. size <= MaxFrame[s] /\ MaxFrame[s] = MaxFrame[e]
      BY <1>1, FramesFacts DEF Peer, Ends
    <3> QED BY <3>1
  <2> HIDE DEF units, n, h, f
  <2> QED BY <2>1, <2>2, <2>3, <1>1
<1>11. FrameStep(e, units) =>
          IF Len(units) = 1 /\ size > 0
          THEN /\ asked' = [asked EXCEPT ![e] = size]
               /\ have' = [have EXCEPT ![e] = units]
               /\ UNCHANGED <<got, fate>>
          ELSE /\ asked' = [asked EXCEPT ![e] = 1]
               /\ have' = [have EXCEPT ![e] = <<>>]
               /\ got' = [got EXCEPT ![e] = Append(got[e], units)]
               /\ UNCHANGED fate
  <2> HIDE DEF units
  <2> QED BY <1>10 DEF FrameStep, HeaderIsGood, Put
\* Part of a frame is taken and part of it is missing.
<1>a. ASSUME asked' = [asked EXCEPT ![e] = size + 1 - (h + n)], h + n < size + 1,
             have' = [have EXCEPT ![e] = units], UNCHANGED <<got, fate>>
      PROVE  /\ have' = [have EXCEPT ![e] = have'[e]] /\ have'[e] \in Seq(Units)
             /\ asked' = [asked EXCEPT ![e] = asked'[e]] /\ asked'[e] \in Nat \ {0}
             /\ got' = [got EXCEPT ![e] = got'[e]] /\ got'[e] \in Seq(Seq(Units))
             /\ UNCHANGED fate
             /\ ReaderInv(e)' /\ GotInv(e)'
             /\ Missing(e)' = Follows(Peer(e), b)
  <2>1. have'[e] = units /\ asked'[e] = size + 1 - (h + n) /\ got'[e] = got[e]
        /\ rbuf'[e] = rest
    <3> HIDE DEF units, n, h, f, size
    <3> QED BY <1>a, <1>7, <1>8
  <2>2. Len(got'[e]) + 1 = f /\ Len(have'[e]) = h + n /\ have'[e] # <<>>
    <3>1. Len(got'[e]) + 1 = f
      BY <2>1
    <3> HIDE DEF units, n, h, f, size
    <3>2. Len(units) = h + n /\ h + n > 0
      BY <1>5, <1>13
    <3> QED BY <2>1, <3>1, <3>2
  <2>3. Wanted(e)' = <<f, h + n>>
    <3> HIDE DEF units, n, h, f, size
    <3> QED BY <2>2 DEF Wanted
  <2>4. ReaderInv(e)'
    <3>1. \A i \in 1..Len(have'[e]) : have'[e][i] = <<Len(got'[e]) + 1, i - 1>>
      <4> HIDE DEF units, n, h, f, size
      <4> QED BY <2>1, <2>2, <1>5
    <3>2. Len(got'[e]) + 1 \in DOMAIN Frames[s]
      <4> HIDE DEF units, n, h, f, size, s
      <4> QED BY <2>2, <1>1
    <3>3. asked'[e] + Len(have'[e]) = Frames[s][Len(got'[e]) + 1] + 1
      <4>1. Frames[s][Len(got'[e]) + 1] = size
        BY <2>2
      <4> HIDE DEF units, n, h, f, size, s
      <4> QED BY <4>1, <2>1, <2>2, <1>13
    <3>4. rbuf'[e] # <<>> => Part(s, rbuf'[e]) /\ rbuf'[e][1] = Wanted(e)'
      <4> HIDE DEF units, n, h, f, size, s, rest
      <4> QED BY <2>1, <2>3, <1>14
    <3> QED BY <2>2, <3>1, <3>2, <3>3, <3>4 DEF ReaderInv
  <2>5. GotInv(e)'
    BY <2>1 DEF GotInv
  <2>6. Missing(e)' = Follows(s, b)
    <3> HIDE DEF units, n, h, f, size, s, rest
    <3>1. CASE rest = <<>>
      <4>1. h + Len(b) = h + n /\ h + Len(b) # size + 1
        <5>1. Len(b) = n
          BY <3>1, <1>14
        <5> QED BY <5>1, <1>13, <1>a
      <4> QED BY <2>1, <2>3, <3>1, <4>1, <1>14 DEF Missing
    <3>2. CASE rest # <<>>
      BY <2>1, <3>2, <1>14 DEF Missing, s
    <3> QED BY <3>1, <3>2
  <2>7. size + 1 - (h + n) \in Nat \ {0}
    <3> HIDE DEF units, n, h, f, size
    <3> QED BY <1>a, <1>13
  <2> HIDE DEF units, n, h, f, size
  <2> QED BY <1>a, <1>2, <1>5, <1>7, <2>1, <2>4, <2>5, <2>6, <2>7 DEF s
\* A frame is complete.
<1>b. ASSUME asked' = [asked EXCEPT ![e] = 1], h + n = size + 1,
             have' = [have EXCEPT ![e] = <<>>],
             got' = [got EXCEPT ![e] = Append(got[e], units)], UNCHANGED fate
      PROVE  /\ have' = [have EXCEPT ![e] = have'[e]] /\ have'[e] \in Seq(Units)
             /\ asked' = [asked EXCEPT ![e] = asked'[e]] /\ asked'[e] \in Nat \ {0}
             /\ got' = [got EXCEPT ![e] = got'[e]] /\ got'[e] \in Seq(Seq(Units))
             /\ UNCHANGED fate
             /\ ReaderInv(e)' /\ GotInv(e)'
             /\ Missing(e)' = Follows(Peer(e), b)
  <2>1. have'[e] = <<>> /\ asked'[e] = 1 /\ got'[e] = Append(got[e], units)
        /\ rbuf'[e] = rest
    <3> HIDE DEF units, n, h, f, size
    <3> QED BY <1>b, <1>7, <1>8
  <2>2. rest = <<>> /\ h + Len(b) = size + 1
    <3> HIDE DEF units, n, h, f, size, rest, s
    <3> QED BY <1>b, <1>14, <1>13, <1>1, <1>2
  <2>3. Len(got'[e]) = f /\ got'[e] \in Seq(Seq(Units))
        /\ got'[e][f] = units
        /\ \A g \in 1..Len(got[e]) : got'[e][g] = got[e][g]
    <3> HIDE DEF units, n, h, size
    <3> QED BY <2>1, <1>2, <1>5, AppendProperties
  <2>4. ReaderInv(e)'
    BY <2>1, <2>2 DEF ReaderInv
  <2>5. GotInv(e)'
    <3>1. units = whole
      <4>1. units \in [1..(size + 1) -> Units]
        <5> HIDE DEF units, n, h, f, size
        <5> QED BY <1>5, <1>b, LenProperties
      <4>2. \A i \in 1..(size + 1) : units[i] = whole[i]
        <5> HIDE DEF units, n, h, f, size
        <5> QED BY <1>5, <1>b
      <4> HIDE DEF units, n, h, f, size
      <4> QED BY <4>1, <4>2
    <3>2. f <= Len(Frames[s])
      BY <1>1, FramesFacts
    <3>3. ASSUME NEW g \in 1..f
          PROVE  got'[e][g] = [i \in 1..(Frames[s][g] + 1) |-> <<g, i - 1>>]
      <4>1. CASE g = f
        BY <2>3, <3>1, <4>1
      <4>2. CASE g # f
        <5>1. g \in 1..Len(got[e])
          BY <4>2, <1>2
        <5> QED BY <5>1, <2>3 DEF GotInv
      <4> QED BY <4>1, <4>2
    <3> HIDE DEF units, f, h, n, size, whole
    <3> QED BY <2>3, <3>2, <3>3 DEF GotInv
  <2>6. Missing(e)' = Follows(s, b)
    <3>1. Wanted(e)' = <<f + 1, 0>>
      BY <2>1, <2>3 DEF Wanted
    <3> HIDE DEF units, n, h, f, size, s, rest
    <3> QED BY <2>1, <2>2, <3>1, <1>14 DEF Missing
  <2> HIDE DEF units, n, h, f, size
  <2> QED BY <1>b, <1>7, <2>1, <2>3, <2>4, <2>5, <2>6 DEF s
<1>12. \/ /\ asked' = [asked EXCEPT ![e] = size + 1 - (h + n)] /\ h + n < size + 1
          /\ have' = [have EXCEPT ![e] = units] /\ UNCHANGED <<got, fate>>
       \/ /\ asked' = [asked EXCEPT ![e] = 1] /\ h + n = size + 1
          /\ have' = [have EXCEPT ![e] = <<>>]
          /\ got' = [got EXCEPT ![e] = Append(got[e], units)] /\ UNCHANGED fate
  <2>1. CASE h = 0
    <3>1. n = 1 /\ asked[e] = 1 /\ Len(units) = 1
      BY <2>1, <1>1, <1>2, <1>3, <1>5
    <3> HIDE DEF units, n, h, f, size
    <3>2. /\ size + 1 - (h + n) = size
          /\ size > 0 => h + n < size + 1
          /\ ~(size > 0) => h + n = size + 1
      BY <2>1, <3>1, <1>13
    <3>3. FrameStep(e, units)
      BY <3>1, <1>9
    <3>4. CASE size > 0
      BY <3>1, <3>2, <3>3, <3>4, <1>11
    <3>5. CASE ~(size > 0)
      BY <3>1, <3>2, <3>3, <3>5, <1>11
    <3> QED BY <3>4, <3>5
  <2>2. CASE h > 0 /\ n = asked[e]
    <3> HIDE DEF units, n, h, f, size
    <3>1. h + n = size + 1 /\ Len(units) # 1
      BY <2>2, <1>13, <1>3, <1>5
    <3> QED BY <2>2, <3>1, <1>9, <1>11
  <2>3. CASE h > 0 /\ n < asked[e]
    <3> HIDE DEF units, n, h, f, size
    <3>1. h + n < size + 1 /\ asked[e] - n = size + 1 - (h + n) /\ n # asked[e]
      BY <2>3, <1>13, <1>3
    <3> QED BY <3>1, <1>9
  <2> HIDE DEF units, n, h, f, size
  <2>4. h = 0 \/ (h > 0 /\ n = asked[e]) \/ (h > 0 /\ n < asked[e])
    BY <1>13
  <2> QED BY <2>1, <2>2, <2>3, <2>4
<1> HIDE DEF units, n, h, f, size
<1> QED BY <1>a, <1>b, <1>12, <1>6, <1>8 DEF Received

-----------------------------------------------------------------------------
(* What a step does to the stream that e reads.                            *)

\* The counts of one token less, and of one record more.
LEMMA OneLess ==
  ASSUME NEW e \in Ends, OrderInv(e), Waiting(e) = 1, Waiting(e)' = 0,
         Len(wire[e]) \in Nat, rx[e] \in Nat, tx[Peer(e)] \in Nat,
         Len(wire'[e]) = Len(wire[e]) - 1, UNCHANGED <<rx[e], tx[Peer(e)]>>,
         stage'[Peer(e)] # 3 => stage[Peer(e)] # 3
  PROVE  OrderInv(e)'
<1>1. /\ Len(wire[e]) >= 1
      /\ stage[Peer(e)] # 3 => Len(wire[e]) = 1
      /\ tx[Peer(e)] + 1 = rx[e] + Len(wire[e])
  BY DEF OrderInv
<1>2. \A t, x, l \in Nat :
         t + 1 = x + l /\ l >= 1 => t + 0 = x + (l - 1) /\ l - 1 >= 0
  OBVIOUS
<1>3. tx[Peer(e)] + 0 = rx[e] + (Len(wire[e]) - 1) /\ Len(wire[e]) - 1 >= 0
  BY <1>1, <1>2
<1>4. /\ Len(wire'[e]) >= 0
      /\ stage'[Peer(e)] # 3 => Len(wire'[e]) = 0
  BY <1>1, <1>3
<1>5. tx'[Peer(e)] + 0 = rx'[e] + Len(wire'[e])
  BY <1>3
<1> QED BY <1>4, <1>5 DEF OrderInv

LEMMA OneMore ==
  ASSUME NEW e \in Ends, OrderInv(e), Waiting(e)' = Waiting(e), Waiting(e) \in Nat,
         stage'[Peer(e)] = 3,
         Len(wire[e]) \in Nat, rx[e] \in Nat, tx[Peer(e)] \in Nat,
         Len(wire'[e]) = Len(wire[e]) + 1, UNCHANGED rx[e],
         tx'[Peer(e)] = tx[Peer(e)] + 1
  PROVE  /\ OrderInv(e)'
         /\ tx[Peer(e)] + Waiting(e) + 1 = rx[e] + (Len(wire[e]) + 1)
<1>1. Len(wire[e]) >= Waiting(e) /\ tx[Peer(e)] + Waiting(e) = rx[e] + Len(wire[e])
  BY DEF OrderInv
<1>2. tx[Peer(e)] + Waiting(e) + 1 = rx[e] + (Len(wire[e]) + 1)
  BY <1>1
<1>3. tx'[Peer(e)] + Waiting(e)' = rx'[e] + Len(wire'[e])
  <2>1. \A t, w \in Nat : (t + 1) + w = t + w + 1
    OBVIOUS
  <2>2. (tx[Peer(e)] + 1) + Waiting(e) = rx[e] + (Len(wire[e]) + 1)
    BY <2>1, <1>2
  <2> QED BY <2>2
<1>4. Len(wire'[e]) >= Waiting(e)'
  BY <1>1
<1> QED BY <1>2, <1>3, <1>4 DEF OrderInv

\* The nonce of a record whose place moves up.
LEMMA MovesUp ==
  ASSUME NEW k \in Nat, NEW r \in Nat, NEW j \in Nat, k + 1 + 1 = r + (j + 1)
  PROVE  k + 0 + 1 = r + j
  OBVIOUS

\* Where the tokens begin when the first one is gone.
LEMMA BeginsMoves ==
  ASSUME NEW e \in Ends, Len(wire[e]) \in Nat \ {0}, Coming(e)' = Coming(e),
         Len(wire'[e]) = Len(wire[e]) - 1,
         \A i \in 1..Len(wire'[e]) : wire'[e][i] = wire[e][i + 1]
  PROVE  \A j \in 1..(Len(wire'[e]) + 1) : Begins(e, j)' = Begins(e, j + 1)
<1> SUFFICES ASSUME NEW j \in 1..(Len(wire'[e]) + 1) PROVE Begins(e, j)' = Begins(e, j + 1)
  OBVIOUS
<1>1. CASE j = Len(wire'[e]) + 1
  BY <1>1 DEF Begins
<1>2. CASE j \in 1..Len(wire'[e])
  <2>1. wire'[e][j] = wire[e][j + 1]
    BY <1>2
  <2> QED BY <1>2, <2>1 DEF Begins
<1> QED BY <1>1, <1>2

\* It leaves it alone.
LEMMA SameStream ==
  ASSUME NEW e \in Ends, StreamInv(e), UNCHANGED wire[e], UNCHANGED Waiting(e),
         UNCHANGED <<cur[Peer(e)], off[Peer(e)], tx[Peer(e)]>>,
         UNCHANGED <<rx[e], rbuf[e], asked[e], have[e], got[e]>>,
         stage'[Peer(e)] # 3 => stage[Peer(e)] # 3
  PROVE  StreamInv(e)'
<1>1. UNCHANGED <<Wanted(e), Coming(e), Missing(e)>>
  BY DEF Wanted, Coming, Missing
<1>2. \A j : Begins(e, j)' = Begins(e, j)
  BY <1>1 DEF Begins
<1>3. WriterInv(Peer(e))' /\ ReaderInv(e)'
  BY <1>1 DEF StreamInv, WriterInv, ReaderInv
<1>4. OrderInv(e)'
  BY DEF StreamInv, OrderInv
<1>5. RecordInv(e)'
  BY <1>2 DEF StreamInv, RecordInv
<1> QED BY <1>1, <1>2, <1>3, <1>4, <1>5 DEF StreamInv

\* A handshake message is put on the empty wire.
LEMMA MessageSent ==
  ASSUME LinkTypeOK, NEW e \in Ends, StreamInv(e), NEW m,
         Waiting(e) = 0, Waiting(e)' = 1, stage[Peer(e)] # 3,
         wire'[e] = Append(wire[e], m),
         UNCHANGED <<cur[Peer(e)], off[Peer(e)], tx[Peer(e)]>>,
         UNCHANGED <<rx[e], rbuf[e], asked[e], have[e], got[e]>>
  PROVE  StreamInv(e)'
<1>0. Len(wire[e]) \in Nat /\ rx[e] \in Nat /\ tx[Peer(e)] \in Nat
  BY EndType, EndsFacts
<1>1. UNCHANGED <<Wanted(e), Coming(e), Missing(e)>>
  BY DEF Wanted, Coming, Missing
<1>2. wire[e] = <<>> /\ wire'[e] = <<m>> /\ Len(wire[e]) = 0 /\ Len(wire'[e]) = 1
  <2>1. wire[e] \in Seq(Tokens) /\ Len(wire[e]) = 0
    BY EndType DEF StreamInv, OrderInv
  <2>2. wire[e] = <<>>
    BY <2>1, EmptySeq
  <2> QED BY <2>1, <2>2
<1>3. WriterInv(Peer(e))' /\ ReaderInv(e)'
  BY <1>1 DEF StreamInv, WriterInv, ReaderInv
<1>4. OrderInv(e)'
  BY <1>0, <1>2 DEF StreamInv, OrderInv
<1>5. RecordInv(e)'
  BY <1>2 DEF RecordInv
<1>6. Begins(e, Waiting(e) + 1)' = Missing(e)'
  BY <1>1, <1>2 DEF StreamInv, Begins
<1> QED BY <1>3, <1>4, <1>5, <1>6 DEF StreamInv

\* A handshake message is read.
LEMMA MessageRead ==
  ASSUME LinkTypeOK, NEW e \in Ends, StreamInv(e),
         Waiting(e) = 1, Waiting(e)' = 0, wire'[e] = Tail(wire[e]),
         UNCHANGED <<cur[Peer(e)], off[Peer(e)], tx[Peer(e)]>>,
         UNCHANGED <<rx[e], rbuf[e], asked[e], have[e], got[e]>>,
         stage'[Peer(e)] # 3 => stage[Peer(e)] # 3
  PROVE  StreamInv(e)'
<1>0. Len(wire[e]) \in Nat /\ rx[e] \in Nat /\ tx[Peer(e)] \in Nat
  BY EndType, EndsFacts
<1>1. UNCHANGED <<Wanted(e), Coming(e), Missing(e)>>
  BY DEF Wanted, Coming, Missing
<1>2. /\ wire[e] \in Seq(Tokens) /\ wire[e] # <<>>
      /\ Len(wire'[e]) = Len(wire[e]) - 1 /\ Len(wire[e]) \in Nat \ {0}
      /\ \A j \in 1..Len(wire'[e]) : wire'[e][j] = wire[e][j + 1]
  <2>1. wire[e] \in Seq(Tokens) /\ Len(wire[e]) >= 1
    BY EndType DEF StreamInv, OrderInv
  <2>2. wire[e] # <<>>
    BY <2>1
  <2> QED BY <2>1, <2>2, HeadTailProperties
<1>3. WriterInv(Peer(e))' /\ ReaderInv(e)'
  BY <1>1 DEF StreamInv, WriterInv, ReaderInv
<1>4. OrderInv(e)'
  BY <1>0, <1>2, OneLess DEF StreamInv
<1>5. ASSUME NEW j \in 1..(Len(wire'[e]) + 1)
      PROVE  Begins(e, j)' = Begins(e, j + 1)
  BY <1>1, <1>2, BeginsMoves
<1>6. RecordInv(e)'
  <2> SUFFICES ASSUME NEW j \in 1..Len(wire'[e])
               PROVE  /\ wire'[e][j].kind = "rec" /\ wire'[e][j].by = ReadCS(e)
                      /\ wire'[e][j].n + 0 + 1 = rx[e] + j
                      /\ Len(wire'[e][j].body) <= MaxRecord
                      /\ Part(Peer(e), wire'[e][j].body)
                      /\ Begins(e, j + 1)' = Follows(Peer(e), wire'[e][j].body)
    BY DEF RecordInv
  <2>1. j \in Nat /\ j + 1 \in 2..Len(wire[e]) /\ wire'[e][j] = wire[e][j + 1]
        /\ j + 1 \in 1..Len(wire[e]) /\ j + 1 \in 1..(Len(wire'[e]) + 1)
    BY <1>2
  <2>2. wire[e][j + 1].n \in Nat
    BY <2>1, TokenType
  <2>3. /\ wire[e][j + 1].kind = "rec" /\ wire[e][j + 1].by = ReadCS(e)
        /\ wire[e][j + 1].n + 1 + 1 = rx[e] + (j + 1)
        /\ Len(wire[e][j + 1].body) <= MaxRecord
        /\ Part(Peer(e), wire[e][j + 1].body)
        /\ Begins(e, j + 1 + 1) = Follows(Peer(e), wire[e][j + 1].body)
    BY <2>1 DEF StreamInv, RecordInv
  <2>4. wire[e][j + 1].n + 0 + 1 = rx[e] + j
    BY <1>0, <2>1, <2>2, <2>3, MovesUp
  <2> QED BY <2>1, <2>3, <2>4, <1>5
<1>7. Begins(e, Waiting(e) + 1)' = Missing(e)'
  <2>1. 1 \in 1..(Len(wire'[e]) + 1)
    BY <1>2
  <2> QED BY <2>1, <1>1, <1>5 DEF StreamInv
<1> QED BY <1>3, <1>4, <1>6, <1>7 DEF StreamInv

\* A record is sealed and put on the wire.
LEMMA RecordSent ==
  ASSUME LinkTypeOK, NEW e \in Ends, StreamInv(e), stage[Peer(e)] = 3,
         NEW r \in Tokens, UNCHANGED Waiting(e), UNCHANGED stage,
         wire'[e] = Append(wire[e], r),
         r.kind = "rec", r.by = ReadCS(e), r.n = tx[Peer(e)],
         Len(r.body) <= MaxRecord, Part(Peer(e), r.body),
         r.body[1] = Coming(e), Coming(e)' = Follows(Peer(e), r.body),
         tx'[Peer(e)] = tx[Peer(e)] + 1, WriterInv(Peer(e))',
         UNCHANGED <<rx[e], rbuf[e], asked[e], have[e], got[e]>>
  PROVE  StreamInv(e)'
<1>0. Len(wire[e]) \in Nat /\ rx[e] \in Nat /\ tx[Peer(e)] \in Nat
  BY EndType, EndsFacts
<1>1. UNCHANGED <<Wanted(e), Missing(e)>>
  BY DEF Wanted, Missing
<1>2. /\ wire[e] \in Seq(Tokens) /\ Len(wire[e]) \in Nat
      /\ Len(wire'[e]) = Len(wire[e]) + 1 /\ wire'[e][Len(wire[e]) + 1] = r
      /\ \A j \in 1..Len(wire[e]) : wire'[e][j] = wire[e][j]
  BY EndType, AppendProperties
<1>3. ReaderInv(e)'
  BY <1>1 DEF StreamInv, ReaderInv
<1>4. /\ OrderInv(e)'
      /\ tx[Peer(e)] + Waiting(e) + 1 = rx[e] + (Len(wire[e]) + 1)
  <2>1. Waiting(e) \in Nat
    BY WaitingType
  <2> QED BY <1>0, <1>2, <2>1, OneMore DEF StreamInv
<1>5. ASSUME NEW j \in 1..(Len(wire[e]) + 1)
      PROVE  Begins(e, j)' = Begins(e, j)
  BY <1>2 DEF Begins
<1>6. RecordInv(e)'
  <2> SUFFICES ASSUME NEW j \in (Waiting(e) + 1)..Len(wire'[e])
               PROVE  /\ wire'[e][j].kind = "rec" /\ wire'[e][j].by = ReadCS(e)
                      /\ wire'[e][j].n + Waiting(e) + 1 = rx[e] + j
                      /\ Len(wire'[e][j].body) <= MaxRecord
                      /\ Part(Peer(e), wire'[e][j].body)
                      /\ Begins(e, j + 1)' = Follows(Peer(e), wire'[e][j].body)
    BY DEF RecordInv
  <2>1. CASE j = Len(wire[e]) + 1
    <3>1. Begins(e, j + 1)' = Coming(e)'
      BY <2>1, <1>2 DEF Begins
    <3>2. tx[Peer(e)] + Waiting(e) + 1 = rx[e] + j
      BY <2>1, <1>4
    <3> QED BY <2>1, <3>1, <3>2, <1>2
  <2>2. CASE j # Len(wire[e]) + 1
    <3>1. /\ j \in (Waiting(e) + 1)..Len(wire[e]) /\ j \in 1..Len(wire[e])
          /\ j + 1 \in 1..(Len(wire[e]) + 1) /\ wire'[e][j] = wire[e][j]
      BY <2>2, <1>2, WaitingType
    <3> QED BY <3>1, <1>5 DEF StreamInv, RecordInv
  <2> QED BY <2>1, <2>2
<1>7. Begins(e, Waiting(e) + 1)' = Missing(e)'
  <2>1. Waiting(e) + 1 \in 1..(Len(wire[e]) + 1)
    BY <1>2, WaitingType DEF StreamInv, OrderInv
  <2> QED BY <2>1, <1>1, <1>5 DEF StreamInv
<1> QED BY <1>3, <1>4, <1>6, <1>7 DEF StreamInv

\* What is left of a record is read.
LEMMA RestRead ==
  ASSUME LinkTypeOK, NEW e \in Ends, StreamInv(e), GotInv(e),
         MaxFrame["ini"] = MaxFrame["rsp"],
         rbuf[e] # <<>>, Take(e, rbuf[e]),
         UNCHANGED <<wire, rx, tx, cur, off, stage>>
  PROVE  Received(e) /\ StreamInv(e)' /\ GotInv(e)'
<1>1. Part(Peer(e), rbuf[e]) /\ rbuf[e][1] = Wanted(e) /\ ReaderInv(e)
  BY DEF StreamInv, ReaderInv
<1>2. /\ Received(e) /\ ReaderInv(e)' /\ GotInv(e)'
      /\ Missing(e)' = Follows(Peer(e), rbuf[e])
  BY <1>1, TakeStep
<1>3. Missing(e)' = Missing(e)
  BY <1>2 DEF Missing
<1>4. Coming(e)' = Coming(e) /\ Waiting(e)' = Waiting(e)
  BY DEF Coming, Waiting
<1>5. \A j : Begins(e, j)' = Begins(e, j)
  BY <1>4 DEF Begins
<1>6. WriterInv(Peer(e))' /\ OrderInv(e)'
  BY <1>4 DEF StreamInv, WriterInv, OrderInv
<1>7. RecordInv(e)'
  BY <1>4, <1>5 DEF StreamInv, RecordInv
<1> QED BY <1>2, <1>3, <1>4, <1>5, <1>6, <1>7 DEF StreamInv

\* The first record on the wire, after the handshake.
LEMMA FirstOpens ==
  ASSUME LinkTypeOK, NEW e \in Ends, StreamInv(e), Waiting(e) = 0,
         rbuf[e] = <<>>, wire[e] # <<>>
  PROVE  /\ wire[e] \in Seq(Tokens) /\ Len(wire[e]) \in Nat \ {0}
         /\ Head(wire[e]) = wire[e][1] /\ Opens(e, wire[e][1])
         /\ Part(Peer(e), wire[e][1].body) /\ wire[e][1].body[1] = Wanted(e)
         /\ Begins(e, 2) = Follows(Peer(e), wire[e][1].body)
<1>1. wire[e] \in Seq(Tokens) /\ Len(wire[e]) \in Nat \ {0} /\ rx[e] \in Nat
      /\ Head(wire[e]) = wire[e][1]
  BY EndType, HeadTailProperties
<1>2. 1 \in 1..Len(wire[e]) /\ 1 \in (Waiting(e) + 1)..Len(wire[e])
  BY <1>1
<1>3. /\ wire[e][1].kind = "rec" /\ wire[e][1].by = ReadCS(e)
      /\ wire[e][1].n + 0 + 1 = rx[e] + 1
      /\ Len(wire[e][1].body) <= MaxRecord
      /\ Part(Peer(e), wire[e][1].body)
      /\ Begins(e, 1 + 1) = Follows(Peer(e), wire[e][1].body)
  BY <1>2 DEF StreamInv, RecordInv
<1>4. wire[e][1].n = rx[e]
  <2>1. wire[e][1].n \in Nat
    BY <1>2, TokenType
  <2> QED BY <2>1, <1>1, <1>3
<1>5. wire[e][1].body[1] = Wanted(e)
  BY <1>1 DEF StreamInv, Begins, Missing
<1> QED BY <1>1, <1>3, <1>4, <1>5 DEF Opens

\* A record is read.
LEMMA RecordRead ==
  ASSUME LinkTypeOK, NEW e \in Ends, StreamInv(e), GotInv(e), Waiting(e) = 0,
         MaxFrame["ini"] = MaxFrame["rsp"],
         rbuf[e] = <<>>, wire[e] # <<>>, wire' = Put(wire, e, Tail(wire[e])),
         rx' = Put(rx, e, rx[e] + 1), Take(e, Head(wire[e]).body),
         UNCHANGED <<tx, cur, off, stage>>
  PROVE  Received(e) /\ StreamInv(e)' /\ GotInv(e)'
<1>1. /\ wire[e] \in Seq(Tokens) /\ Len(wire[e]) \in Nat \ {0}
      /\ Head(wire[e]) = wire[e][1]
      /\ Part(Peer(e), wire[e][1].body) /\ wire[e][1].body[1] = Wanted(e)
      /\ Begins(e, 2) = Follows(Peer(e), wire[e][1].body)
  BY FirstOpens
<1>2. /\ Received(e) /\ ReaderInv(e)' /\ GotInv(e)'
      /\ Missing(e)' = Follows(Peer(e), wire[e][1].body)
  BY <1>1, TakeStep DEF StreamInv
<1>3. Coming(e)' = Coming(e) /\ Waiting(e)' = 0
  BY DEF Coming, Waiting
<1>4. /\ wire'[e] = Tail(wire[e]) /\ Len(wire'[e]) = Len(wire[e]) - 1
      /\ rx'[e] = rx[e] + 1 /\ tx[Peer(e)] \in Nat /\ rx[e] \in Nat
      /\ \A j \in 1..Len(wire'[e]) : wire'[e][j] = wire[e][j + 1]
  <2>1. wire \in [Ends -> Seq(Tokens)] /\ rx \in [Ends -> Nat]
    BY DEF LinkTypeOK
  <2>2. wire'[e] = Tail(wire[e]) /\ rx'[e] = rx[e] + 1
    BY <2>1 DEF Put
  <2>3. tx[Peer(e)] \in Nat /\ rx[e] \in Nat
    BY EndType, EndsFacts
  <2>4. /\ Len(Tail(wire[e])) = Len(wire[e]) - 1
        /\ \A j \in 1..Len(Tail(wire[e])) : Tail(wire[e])[j] = wire[e][j + 1]
    BY <1>1, HeadTailProperties
  <2> QED BY <2>2, <2>3, <2>4
<1>5. WriterInv(Peer(e))'
  BY DEF StreamInv, WriterInv
<1>6. OrderInv(e)'
  <2>1. stage[Peer(e)] = 3
    BY <1>1 DEF StreamInv, OrderInv
  <2>2. tx[Peer(e)] + 0 = rx[e] + Len(wire[e])
    BY DEF StreamInv, OrderInv
  <2>3. tx[Peer(e)] + 0 = (rx[e] + 1) + (Len(wire[e]) - 1) /\ Len(wire[e]) - 1 >= 0
    <3>1. \A t, x \in Nat, l \in Nat \ {0} :
             t + 0 = x + l => t + 0 = (x + 1) + (l - 1) /\ l - 1 >= 0
      OBVIOUS
    <3> QED BY <2>2, <3>1, <1>1, <1>4
  <2> QED BY <2>1, <2>3, <1>3, <1>4 DEF OrderInv
<1>7. ASSUME NEW j \in 1..(Len(wire'[e]) + 1)
      PROVE  Begins(e, j)' = Begins(e, j + 1)
  BY <1>1, <1>3, <1>4, BeginsMoves
<1>8. RecordInv(e)'
  <2> SUFFICES ASSUME NEW j \in 1..Len(wire'[e])
               PROVE  /\ wire'[e][j].kind = "rec" /\ wire'[e][j].by = ReadCS(e)
                      /\ wire'[e][j].n + 0 + 1 = (rx[e] + 1) + j
                      /\ Len(wire'[e][j].body) <= MaxRecord
                      /\ Part(Peer(e), wire'[e][j].body)
                      /\ Begins(e, j + 1)' = Follows(Peer(e), wire'[e][j].body)
    <3>1. (Waiting(e)' + 1)..Len(wire'[e]) = 1..Len(wire'[e])
      BY <1>3
    <3> QED BY <3>1, <1>3, <1>4 DEF RecordInv
  <2>1. j \in Nat /\ j + 1 \in 1..Len(wire[e]) /\ wire'[e][j] = wire[e][j + 1]
        /\ j + 1 \in (Waiting(e) + 1)..Len(wire[e]) /\ j + 1 \in 1..(Len(wire'[e]) + 1)
    BY <1>1, <1>4
  <2>2. /\ wire[e][j + 1].kind = "rec" /\ wire[e][j + 1].by = ReadCS(e)
        /\ wire[e][j + 1].n + 0 + 1 = rx[e] + (j + 1)
        /\ Len(wire[e][j + 1].body) <= MaxRecord
        /\ Part(Peer(e), wire[e][j + 1].body)
        /\ Begins(e, j + 1 + 1) = Follows(Peer(e), wire[e][j + 1].body)
    BY <2>1 DEF StreamInv, RecordInv
  <2>3. rx[e] + (j + 1) = (rx[e] + 1) + j
    <3>1. \A x, y \in Nat : x + (y + 1) = (x + 1) + y
      OBVIOUS
    <3> QED BY <3>1, <2>1, <1>4
  <2> QED BY <2>1, <2>2, <2>3, <1>7
<1>9. Begins(e, Waiting(e) + 1)' = Missing(e)'
  <2>1. 1 \in 1..(Len(wire'[e]) + 1)
    BY <1>1, <1>4
  <2> QED BY <2>1, <1>1, <1>2, <1>3, <1>7
<1> QED BY <1>2, <1>5, <1>6, <1>8, <1>9 DEF StreamInv

-----------------------------------------------------------------------------
(* Every step keeps the invariant.                                         *)

LEMMA LinkStart == LinkInit => LinkInv
<1> SUFFICES ASSUME LinkInit PROVE LinkInv
  OBVIOUS
<1>1. LinkTypeOK
  BY DEF LinkInit, LinkTypeOK, Units
<1>2. NothingRefused /\ <<stage["ini"], stage["rsp"]>> \in Stages
  BY DEF LinkInit, NothingRefused, Stages, Ends
<1>3. ASSUME NEW e \in Ends PROVE GotInv(e) /\ ~Up(e)
  <2>1. Frames[Peer(e)] \in Seq(Nat)
    BY EndsFacts, FramesFacts
  <2> QED BY <2>1 DEF LinkInit, GotInv, Up
<1> QED BY <1>1, <1>2, <1>3 DEF LinkInv

LEMMA ConnectStep ==
  ASSUME LinkInv, Connect
  PROVE  LinkInv'
<1>1. PICK ids \in [Ends -> Keys], pins \in [Ends -> Keys \cup {None}] : ConnectWith(ids, pins)
  BY DEF Connect
<1>2. LinkTypeOK'
  BY <1>1 DEF ConnectWith, LinkTypeOK, Armed, Units
<1>3. NothingRefused' /\ <<stage["ini"], stage["rsp"]>>' \in Stages
  BY <1>1 DEF ConnectWith, NothingRefused, Stages, Ends
<1>4. ASSUME NEW e \in Ends PROVE GotInv(e)' /\ StreamInv(e)'
  <2>1. /\ wire'[e] = <<>> /\ got'[e] = <<>> /\ have'[e] = <<>> /\ asked'[e] = 1
        /\ rbuf'[e] = <<>> /\ rx'[e] = 0
        /\ cur'[Peer(e)] = 1 /\ off'[Peer(e)] = 0 /\ tx'[Peer(e)] = 0
        /\ stage'[Peer(e)] = 0 /\ stage'["ini"] = 0 /\ stage'["rsp"] = 0
    BY <1>1, EndsFacts DEF ConnectWith, Ends
  <2>2. Waiting(e)' = 0
    BY <2>1 DEF Waiting
  <2>3. GotInv(e)'
    <3>1. Frames[Peer(e)] \in Seq(Nat)
      BY EndsFacts, FramesFacts
    <3> QED BY <2>1, <3>1 DEF GotInv
  <2>4. WriterInv(Peer(e))' /\ ReaderInv(e)'
    BY <2>1, EndsFacts, FramesFacts DEF WriterInv, ReaderInv
  <2>5. OrderInv(e)' /\ RecordInv(e)'
    BY <2>1, <2>2 DEF OrderInv, RecordInv
  <2>6. Begins(e, Waiting(e) + 1)' = Missing(e)'
    BY <2>1, <2>2 DEF Begins, Coming, Missing, Wanted
  <2> QED BY <2>3, <2>4, <2>5, <2>6 DEF StreamInv
<1> QED BY <1>2, <1>3, <1>4 DEF LinkInv

\* What an end does that is not about what it reads leaves that alone.
LEMMA GotStays ==
  ASSUME NEW e \in Ends, GotInv(e), UNCHANGED got
  PROVE  GotInv(e)'
  BY DEF GotInv

\* An end of the connection is over.
LEMMA OverStep ==
  ASSUME LinkInv, NEW d \in Ends, NEW how \in {"timeout", "closed", "vanished", "gone"},
         Ended(d, how), timer' \subseteq Ends,
         UNCHANGED <<id, pin, stage, peer, outVars, inVars>>
  PROVE  LinkInv'
<1> USE DEF outVars, inVars
<1>1. LinkTypeOK'
  <2>1. wire' \in [Ends -> Seq(Tokens)]
    <3>1. wire \in [Ends -> Seq(Tokens)] /\ wire' = [wire EXCEPT ![d] = <<>>]
      BY DEF LinkInv, LinkTypeOK, Ended, Put
    <3> QED BY <3>1
  <2>2. fate' \in [Ends -> {"none", "up", "timeout", "mismatch", "refused",
                           "closed", "vanished", "gone"}]
    BY DEF LinkInv, LinkTypeOK, Ended, Put
  <2> QED BY <2>1, <2>2 DEF LinkInv, LinkTypeOK
<1>2. ~Up(d)' /\ NothingRefused'
  BY DEF LinkInv, LinkTypeOK, NothingRefused, Ended, Put, Up
<1>3. ASSUME NEW e \in Ends, Up(e)' PROVE StreamInv(e)'
  <2>1. e # d /\ Up(e) /\ wire'[e] = wire[e]
    BY <1>2, <1>3 DEF LinkInv, LinkTypeOK, Ended, Put, Up
  <2>2. Waiting(e)' = Waiting(e)
    BY DEF Waiting
  <2> QED BY <2>1, <2>2, SameStream DEF LinkInv
<1> QED BY <1>1, <1>2, <1>3, GotStays DEF LinkInv

\* What a message puts on the wire has the type of the wire.
LEMMA SentType ==
  ASSUME NEW e \in Ends, NEW t \in Tokens, NEW w \in [Ends -> Seq(Tokens)],
         wire' = Sent(w, e, t)
  PROVE  /\ wire' \in [Ends -> Seq(Tokens)] /\ wire'[e] = w[e]
         /\ Up(Peer(e)) => wire'[Peer(e)] = Append(w[Peer(e)], t)
<1>1. Peer(e) \in Ends /\ Peer(e) # e
  BY EndsFacts
<1>2. Append(w[Peer(e)], t) \in Seq(Tokens)
  BY <1>1, AppendProperties
<1> QED BY <1>1, <1>2 DEF Sent

\* A message that is first on the wire, and the wire without it.
LEMMA ArrivedType ==
  ASSUME LinkTypeOK, NEW e \in Ends, NEW n, Arrived(e, n)
  PROVE  /\ Head(wire[e]).by \in Keys \cup {None}
         /\ [wire EXCEPT ![e] = Tail(@)] \in [Ends -> Seq(Tokens)]
         /\ [wire EXCEPT ![e] = Tail(@)][e] = Tail(wire[e])
         /\ \A d \in Ends : d # e => [wire EXCEPT ![e] = Tail(@)][d] = wire[d]
<1>1. wire \in [Ends -> Seq(Tokens)] /\ wire[e] # <<>>
  BY DEF LinkTypeOK, Arrived
<1>2. Head(wire[e]) \in Tokens /\ Tail(wire[e]) \in Seq(Tokens)
  BY <1>1, HeadTailProperties
<1>3. Head(wire[e]).kind = "hs"
  BY DEF Arrived
<1>4. Head(wire[e]).by \in Keys \cup {None}
  BY <1>2, <1>3 DEF Tokens
<1> QED BY <1>1, <1>2, <1>4

LEMMA MsgType ==
  ASSUME NEW n \in 1..3, NEW k \in Keys \cup {None}
  PROVE  Msg(n, k) \in Tokens
<1>1. Msg(n, k) \in [kind : {"hs"}, n : 1..3, by : Keys \cup {None}, body : {<<>>}]
  BY DEF Msg
<1> QED BY <1>1 DEF Tokens

LEMMA HelloStep ==
  ASSUME LinkInv, Hello
  PROVE  LinkInv'
<1> USE DEF outVars, inVars
<1>1. /\ LinkTypeOK /\ stage["ini"] = 0 /\ stage["rsp"] = 0 /\ "ini" \in Ends /\ "rsp" \in Ends
      /\ Peer("ini") = "rsp" /\ Peer("rsp") = "ini" /\ stage \in [Ends -> 0..3]
  BY DEF LinkInv, LinkTypeOK, Hello, Stages, Ends, Peer
<1>2. stage'["ini"] = 1 /\ stage'["rsp"] = 0 /\ stage' \in [Ends -> 0..3]
  BY <1>1 DEF Hello, Put
<1> DEFINE m == Msg(1, None)
<1>3. /\ wire' \in [Ends -> Seq(Tokens)] /\ wire'["ini"] = wire["ini"]
      /\ Up("rsp") => wire'["rsp"] = Append(wire["rsp"], m)
  <2>1. m \in Tokens /\ wire' = Sent(wire, "ini", m) /\ wire \in [Ends -> Seq(Tokens)]
    BY <1>1, MsgType DEF Hello, LinkTypeOK
  <2> HIDE DEF m
  <2> QED BY <1>1, <2>1, SentType
<1> HIDE DEF m
<1>4. LinkTypeOK'
  BY <1>1, <1>2, <1>3 DEF Hello, LinkTypeOK
<1>5. NothingRefused' /\ <<stage'["ini"], stage'["rsp"]>> \in Stages
  BY <1>2 DEF LinkInv, Hello, NothingRefused, Stages
<1>6. ASSUME Up("ini") PROVE StreamInv("ini")'
  <2>1. Waiting("ini")' = Waiting("ini")
    BY <1>1, <1>2 DEF Waiting
  <2> QED BY <1>1, <1>2, <1>3, <1>6, <2>1, SameStream DEF LinkInv, Hello
<1>7. ASSUME Up("rsp") PROVE StreamInv("rsp")'
  <2>1. Waiting("rsp") = 0 /\ Waiting("rsp")' = 1
    BY <1>1, <1>2 DEF Waiting
  <2>2. /\ StreamInv("rsp") /\ wire'["rsp"] = Append(wire["rsp"], m)
        /\ stage[Peer("rsp")] # 3
    BY <1>1, <1>3, <1>7 DEF LinkInv
  <2>3. /\ UNCHANGED <<cur[Peer("rsp")], off[Peer("rsp")], tx[Peer("rsp")]>>
        /\ UNCHANGED <<rx["rsp"], rbuf["rsp"], asked["rsp"], have["rsp"], got["rsp"]>>
    BY DEF Hello
  <2> QED BY <1>1, <2>1, <2>2, <2>3, MessageSent
<1>8. \A e \in Ends : Up(e)' = Up(e) /\ (e = "ini" \/ e = "rsp") /\ GotInv(e)'
  BY GotStays DEF LinkInv, Hello, Up, Ends
<1> QED BY <1>4, <1>5, <1>6, <1>7, <1>8 DEF LinkInv

LEMMA ReplyStep ==
  ASSUME LinkInv, Reply
  PROVE  LinkInv'
<1> USE DEF outVars, inVars
<1>1. /\ LinkTypeOK /\ stage["rsp"] = 0 /\ "ini" \in Ends /\ "rsp" \in Ends
      /\ Peer("ini") = "rsp" /\ Peer("rsp") = "ini" /\ stage \in [Ends -> 0..3]
      /\ StreamInv("rsp") /\ stage["ini"] \in {0, 1} /\ Arrived("rsp", 1)
  BY DEF LinkInv, LinkTypeOK, Reply, Stages, Ends, Peer
<1>2. stage["ini"] = 1
  <2>1. wire["rsp"] \in Seq(Tokens) /\ wire["rsp"] # <<>>
    BY <1>1 DEF LinkTypeOK, Arrived
  <2>2. Len(wire["rsp"]) > 0
    BY <2>1, EmptySeq
  <2>3. stage["ini"] = 0 => Len(wire["rsp"]) = 0
    BY <1>1 DEF StreamInv, OrderInv, Waiting
  <2> QED BY <1>1, <2>2, <2>3
<1>3. stage'["ini"] = 1 /\ stage'["rsp"] = 2 /\ stage' \in [Ends -> 0..3]
  BY <1>1, <1>2 DEF Reply, Put
<1> DEFINE m == Msg(2, id["rsp"])
<1>4. /\ wire' \in [Ends -> Seq(Tokens)] /\ wire'["rsp"] = Tail(wire["rsp"])
      /\ Up("ini") => wire'["ini"] = Append(wire["ini"], m)
  <2>1. m \in Tokens
    BY <1>1, MsgType DEF LinkTypeOK
  <2> DEFINE w == [wire EXCEPT !["rsp"] = Tail(@)]
  <2>2. w \in [Ends -> Seq(Tokens)] /\ w["rsp"] = Tail(wire["rsp"]) /\ w["ini"] = wire["ini"]
    BY <1>1, ArrivedType
  <2>3. wire' = Sent(w, "rsp", m)
    BY DEF Reply
  <2> HIDE DEF w, m
  <2>4. wire' \in [Ends -> Seq(Tokens)] /\ wire'["rsp"] = w["rsp"]
        /\ (Up(Peer("rsp")) => wire'[Peer("rsp")] = Append(w[Peer("rsp")], m))
    BY <1>1, <2>1, <2>2, <2>3, SentType
  <2> QED BY <1>1, <2>2, <2>4
<1> HIDE DEF m
<1>5. LinkTypeOK'
  BY <1>1, <1>3, <1>4 DEF Reply, LinkTypeOK
<1>6. NothingRefused' /\ <<stage'["ini"], stage'["rsp"]>> \in Stages
  BY <1>3 DEF LinkInv, Reply, NothingRefused, Stages
<1>7. StreamInv("rsp")'
  <2>1. Waiting("rsp") = 1 /\ Waiting("rsp")' = 0
    BY <1>1, <1>2, <1>3 DEF Waiting
  <2> QED BY <1>1, <1>2, <1>3, <1>4, <2>1, MessageRead DEF Reply
<1>8. ASSUME Up("ini") PROVE StreamInv("ini")'
  <2>1. Waiting("ini") = 0 /\ Waiting("ini")' = 1
    BY <1>1, <1>2, <1>3 DEF Waiting
  <2>2. /\ StreamInv("ini") /\ wire'["ini"] = Append(wire["ini"], m)
        /\ stage[Peer("ini")] # 3
    BY <1>1, <1>4, <1>8 DEF LinkInv
  <2>3. /\ UNCHANGED <<cur[Peer("ini")], off[Peer("ini")], tx[Peer("ini")]>>
        /\ UNCHANGED <<rx["ini"], rbuf["ini"], asked["ini"], have["ini"], got["ini"]>>
    BY DEF Reply
  <2> QED BY <1>1, <2>1, <2>2, <2>3, MessageSent
<1>9. \A e \in Ends : Up(e)' = Up(e) /\ (e = "ini" \/ e = "rsp") /\ GotInv(e)'
  BY GotStays DEF LinkInv, Reply, Up, Ends
<1> QED BY <1>5, <1>6, <1>7, <1>8, <1>9 DEF LinkInv

\* The end of a handshake, for the end that comes to it.
LEMMA SettleStep ==
  ASSUME LinkTypeOK, NothingRefused, NEW d \in Ends,
         NEW k \in Keys \cup {None}, Settle(d, k), Up(d), wire' \in [Ends -> Seq(Tokens)]
  PROVE  /\ LinkTypeOK' /\ NothingRefused'
         /\ stage' = [stage EXCEPT ![d] = 3] /\ stage \in [Ends -> 0..3]
         /\ \A e \in Ends : e # d => Up(e)' = Up(e)
         /\ UNCHANGED <<tx, cur, off, rx, rbuf, asked, have, got>>
<1>1. /\ stage' = [stage EXCEPT ![d] = 3] /\ stage \in [Ends -> 0..3]
      /\ stage' \in [Ends -> 0..3] /\ peer' \in [Ends -> Keys \cup {None}]
      /\ timer' \subseteq Ends
      /\ UNCHANGED <<id, pin, tx, cur, off, rx, rbuf, asked, have, got>>
  BY DEF Settle, LinkTypeOK, Put, Disarmed, outVars, inVars
<1>2. fate' = [fate EXCEPT ![d] = fate'[d]] /\ fate'[d] \in {"up", "mismatch"}
      /\ fate \in [Ends -> {"none", "up", "timeout", "mismatch", "refused",
                            "closed", "vanished", "gone"}]
  BY DEF Settle, LinkTypeOK, Put
<1>3. LinkTypeOK'
  BY <1>1, <1>2 DEF LinkTypeOK
<1>4. NothingRefused' /\ \A e \in Ends : e # d => Up(e)' = Up(e)
  BY <1>2 DEF NothingRefused, Up
<1> QED BY <1>1, <1>3, <1>4

LEMMA FinishStep ==
  ASSUME LinkInv, Finish
  PROVE  LinkInv'
<1>1. /\ LinkTypeOK /\ stage["ini"] = 1 /\ "ini" \in Ends /\ "rsp" \in Ends
      /\ Peer("ini") = "rsp" /\ Peer("rsp") = "ini" /\ Up("ini")
      /\ StreamInv("ini") /\ stage["rsp"] \in {0, 2} /\ Arrived("ini", 2)
  BY DEF LinkInv, Finish, Stages, Ends, Peer
<1>2. stage["rsp"] = 2
  <2>1. wire["ini"] \in Seq(Tokens) /\ wire["ini"] # <<>>
    BY <1>1 DEF LinkTypeOK, Arrived
  <2>2. Len(wire["ini"]) > 0
    BY <2>1, EmptySeq
  <2>3. stage["rsp"] = 0 => Len(wire["ini"]) = 0
    BY <1>1 DEF StreamInv, OrderInv, Waiting
  <2> QED BY <1>1, <2>2, <2>3
<1> DEFINE m == Msg(3, id["ini"])
           k == Head(wire["ini"]).by
<1>3. /\ wire' \in [Ends -> Seq(Tokens)] /\ wire'["ini"] = Tail(wire["ini"])
      /\ Up("rsp") => wire'["rsp"] = Append(wire["rsp"], m)
  <2>1. m \in Tokens
    BY <1>1, MsgType DEF LinkTypeOK
  <2> DEFINE w == [wire EXCEPT !["ini"] = Tail(@)]
  <2>2. w \in [Ends -> Seq(Tokens)] /\ w["ini"] = Tail(wire["ini"]) /\ w["rsp"] = wire["rsp"]
    BY <1>1, ArrivedType
  <2>3. wire' = Sent(w, "ini", m)
    BY DEF Finish
  <2> HIDE DEF w, m
  <2>4. wire' \in [Ends -> Seq(Tokens)] /\ wire'["ini"] = w["ini"]
        /\ (Up(Peer("ini")) => wire'[Peer("ini")] = Append(w[Peer("ini")], m))
    BY <1>1, <2>1, <2>2, <2>3, SentType
  <2> QED BY <1>1, <2>2, <2>4
<1>4. k \in Keys \cup {None} /\ Settle("ini", k)
  BY <1>1, ArrivedType DEF Finish
<1> HIDE DEF m, k
<1>5. /\ LinkTypeOK' /\ NothingRefused'
      /\ stage' = [stage EXCEPT !["ini"] = 3] /\ stage \in [Ends -> 0..3]
      /\ Up("rsp")' = Up("rsp")
      /\ UNCHANGED <<tx, cur, off, rx, rbuf, asked, have, got>>
  BY <1>1, <1>3, <1>4, SettleStep DEF LinkInv
<1>6. stage'["ini"] = 3 /\ stage'["rsp"] = 2
  BY <1>1, <1>2, <1>5
<1>7. StreamInv("ini")'
  <2>1. Waiting("ini") = 1 /\ Waiting("ini")' = 0
    BY <1>1, <1>2, <1>6 DEF Waiting
  <2>2. stage'[Peer("ini")] # 3 => stage[Peer("ini")] # 3
    BY <1>1, <1>2
  <2>3. /\ UNCHANGED <<cur[Peer("ini")], off[Peer("ini")], tx[Peer("ini")]>>
        /\ UNCHANGED <<rx["ini"], rbuf["ini"], asked["ini"], have["ini"], got["ini"]>>
    BY <1>5
  <2> QED BY <1>1, <1>3, <2>1, <2>2, <2>3, MessageRead
<1>8. ASSUME Up("rsp") PROVE StreamInv("rsp")'
  <2>1. Waiting("rsp") = 0 /\ Waiting("rsp")' = 1
    BY <1>1, <1>2, <1>6 DEF Waiting
  <2>2. /\ StreamInv("rsp") /\ wire'["rsp"] = Append(wire["rsp"], m)
        /\ stage[Peer("rsp")] # 3
    BY <1>1, <1>3, <1>8 DEF LinkInv
  <2>3. /\ UNCHANGED <<cur[Peer("rsp")], off[Peer("rsp")], tx[Peer("rsp")]>>
        /\ UNCHANGED <<rx["rsp"], rbuf["rsp"], asked["rsp"], have["rsp"], got["rsp"]>>
    BY <1>5
  <2> QED BY <1>1, <2>1, <2>2, <2>3, MessageSent
<1>9. <<stage'["ini"], stage'["rsp"]>> \in Stages
  BY <1>6 DEF Stages
<1>10. \A e \in Ends : (e = "ini" \/ e = "rsp") /\ GotInv(e)'
  BY <1>5, GotStays DEF LinkInv, Ends
<1> QED BY <1>5, <1>7, <1>8, <1>9, <1>10 DEF LinkInv

LEMMA ConfirmStep ==
  ASSUME LinkInv, Confirm
  PROVE  LinkInv'
<1>1. /\ LinkTypeOK /\ stage["rsp"] = 2 /\ "ini" \in Ends /\ "rsp" \in Ends
      /\ Peer("ini") = "rsp" /\ Peer("rsp") = "ini" /\ Up("rsp")
      /\ StreamInv("rsp") /\ stage["ini"] \in {1, 3} /\ Arrived("rsp", 3)
  BY DEF LinkInv, Confirm, Stages, Ends, Peer
<1>2. stage["ini"] = 3
  <2>1. wire["rsp"] \in Seq(Tokens) /\ wire["rsp"] # <<>>
    BY <1>1 DEF LinkTypeOK, Arrived
  <2>2. Len(wire["rsp"]) > 0
    BY <2>1, EmptySeq
  <2>3. stage["ini"] = 1 => Len(wire["rsp"]) = 0
    BY <1>1 DEF StreamInv, OrderInv, Waiting
  <2> QED BY <1>1, <2>2, <2>3
<1> DEFINE k == Head(wire["rsp"]).by
<1>3. /\ wire' \in [Ends -> Seq(Tokens)] /\ wire'["rsp"] = Tail(wire["rsp"])
      /\ wire'["ini"] = wire["ini"]
  BY <1>1, ArrivedType DEF Confirm
<1>4. k \in Keys \cup {None} /\ Settle("rsp", k)
  BY <1>1, ArrivedType DEF Confirm
<1> HIDE DEF k
<1>5. /\ LinkTypeOK' /\ NothingRefused'
      /\ stage' = [stage EXCEPT !["rsp"] = 3] /\ stage \in [Ends -> 0..3]
      /\ Up("ini")' = Up("ini")
      /\ UNCHANGED <<tx, cur, off, rx, rbuf, asked, have, got>>
  BY <1>1, <1>3, <1>4, SettleStep DEF LinkInv
<1>6. stage'["ini"] = 3 /\ stage'["rsp"] = 3
  BY <1>1, <1>2, <1>5
<1>7. StreamInv("rsp")'
  <2>1. Waiting("rsp") = 1 /\ Waiting("rsp")' = 0
    BY <1>1, <1>2, <1>6 DEF Waiting
  <2>2. stage'[Peer("rsp")] # 3 => stage[Peer("rsp")] # 3
    BY <1>1, <1>6
  <2>3. /\ UNCHANGED <<cur[Peer("rsp")], off[Peer("rsp")], tx[Peer("rsp")]>>
        /\ UNCHANGED <<rx["rsp"], rbuf["rsp"], asked["rsp"], have["rsp"], got["rsp"]>>
    BY <1>5
  <2> QED BY <1>1, <1>3, <2>1, <2>2, <2>3, MessageRead
<1>8. ASSUME Up("ini") PROVE StreamInv("ini")'
  <2>1. UNCHANGED Waiting("ini")
    BY <1>1, <1>2, <1>6 DEF Waiting
  <2>2. StreamInv("ini") /\ stage'[Peer("ini")] = 3
    BY <1>1, <1>6, <1>8 DEF LinkInv
  <2>3. /\ UNCHANGED <<cur[Peer("ini")], off[Peer("ini")], tx[Peer("ini")]>>
        /\ UNCHANGED <<rx["ini"], rbuf["ini"], asked["ini"], have["ini"], got["ini"]>>
        /\ UNCHANGED wire["ini"]
    BY <1>3, <1>5
  <2> QED BY <1>1, <2>1, <2>2, <2>3, SameStream
<1>9. <<stage'["ini"], stage'["rsp"]>> \in Stages
  BY <1>6 DEF Stages
<1>10. \A e \in Ends : (e = "ini" \/ e = "rsp") /\ GotInv(e)'
  BY <1>5, GotStays DEF LinkInv, Ends
<1> QED BY <1>5, <1>7, <1>8, <1>9, <1>10 DEF LinkInv

\* The record that the writer seals next is part of its frame ...
LEMMA RecordSize ==
  ASSUME LinkTypeOK, NEW d \in Ends, WriterInv(d), WriteRecord(d)
  PROVE  /\ cur[d] \in DOMAIN Frames[d] /\ cur[d] \in Nat \ {0} /\ off[d] \in Nat
         /\ Frames[d][cur[d]] \in Nat /\ RecordEnd(d) \in Nat
         /\ RecordEnd(d) <= Frames[d][cur[d]] + 1
         /\ RecordEnd(d) - off[d] \in Nat \ {0} /\ RecordEnd(d) - off[d] <= MaxRecord
<1> DEFINE c == cur[d]
           o == off[d]
           size == Frames[d][c] + 1
           end == RecordEnd(d)
<1>1. /\ c \in DOMAIN Frames[d] /\ c \in Nat \ {0} /\ o \in Nat /\ size \in Nat \ {0}
      /\ o < size /\ MaxRecord \in Nat \ {0} /\ Frames[d][c] \in Nat
  <2>1. c \in Nat \ {0} /\ o \in Nat
    BY DEF LinkTypeOK
  <2>2. c <= Len(Frames[d])
    BY DEF WriteRecord
  <2>3. c \in DOMAIN Frames[d] /\ Frames[d][c] \in Nat
    <3> HIDE DEF c
    <3> QED BY <2>1, <2>2, FramesFacts
  <2>4. o <= Frames[d][c]
    BY <2>3 DEF WriterInv
  <2> QED BY <2>1, <2>3, <2>4, SecureLinkAssumption DEF SecureLinkAssumption
<1>2. end \in Nat /\ end <= size /\ end - o \in Nat \ {0} /\ end - o <= MaxRecord
  <2>1. end = LET want == IF o = 0 /\ d \notin Joined THEN 1 ELSE o + MaxRecord
              IN  IF want < size THEN want ELSE size
    BY DEF RecordEnd
  <2> HIDE DEF c, o, size, end
  <2> QED BY <1>1, <2>1
<1> QED BY <1>1, <1>2

LEMMA FunSeq ==
  ASSUME NEW S, NEW k \in Nat, NEW b \in [1..k -> S]
  PROVE  b \in Seq(S) /\ Len(b) = k
  OBVIOUS

\* The k units of frame c from number o on.
Run(c, o, k) == [i \in 1..k |-> <<c, o + i - 1>>]

LEMMA RunUnits ==
  ASSUME NEW c \in Nat, NEW o \in Nat, NEW k \in Nat \ {0}
  PROVE  /\ Run(c, o, k) \in Seq(Units) /\ Len(Run(c, o, k)) = k
         /\ \A i \in 1..k : Run(c, o, k)[i] = <<c, o + i - 1>>
<1>1. \A i \in 1..k : <<c, o + i - 1>> \in Units
  BY DEF Units
<1>2. Run(c, o, k) \in [1..k -> Units]
  BY <1>1 DEF Run
<1>3. Run(c, o, k) \in Seq(Units) /\ Len(Run(c, o, k)) = k
  BY <1>2, FunSeq
<1> QED BY <1>3 DEF Run

\* ... and ends where the record after it begins.
LEMMA RecordCut ==
  ASSUME LinkTypeOK, NEW d \in Ends, WriterInv(d), WriteRecord(d),
         NEW b \in Seq(Units), Len(b) = RecordEnd(d) - off[d],
         \A i \in 1..Len(b) : b[i] = <<cur[d], off[d] + i - 1>>
  PROVE  /\ Part(d, b) /\ Len(b) <= MaxRecord /\ b[1] = <<cur[d], off[d]>>
         /\ <<cur'[d], off'[d]>> = Follows(d, b)
         /\ WriterInv(d)'
<1> DEFINE c == cur[d]
           o == off[d]
           size == Frames[d][c] + 1
           end == RecordEnd(d)
<1>1. /\ c \in DOMAIN Frames[d] /\ c \in Nat \ {0} /\ o \in Nat /\ Frames[d][c] \in Nat
      /\ size = Frames[d][c] + 1 /\ end \in Nat /\ end <= size
      /\ Len(b) \in Nat \ {0} /\ Len(b) <= MaxRecord /\ o + Len(b) = end
  BY RecordSize
<1>2. \A i \in 1..Len(b) : b[i] = <<c, o + i - 1>>
  OBVIOUS
<1>3. /\ cur'[d] = IF end = size THEN c + 1 ELSE c
      /\ off'[d] = IF end = size THEN 0 ELSE end
  <2>1. cur \in [Ends -> Nat \ {0}] /\ off \in [Ends -> Nat]
    BY DEF LinkTypeOK
  <2>2. /\ cur' = [cur EXCEPT ![d] = IF end = size THEN c + 1 ELSE c]
        /\ off' = [off EXCEPT ![d] = IF end = size THEN 0 ELSE end]
    BY DEF WriteRecord, Put
  <2> HIDE DEF c, o, size, end
  <2> QED BY <2>1, <2>2
<1> HIDE DEF c, o, size, end
<1>4. b[1] = <<c, o>> /\ b[1][1] = c /\ b[1][2] = o
  <2>1. 1 \in 1..Len(b) /\ o + 1 - 1 = o
    BY <1>1
  <2>2. b[1] = <<c, o + 1 - 1>>
    BY <1>2, <2>1
  <2> QED BY <2>1, <2>2
<1>5. Part(d, b)
  <2>1. b[1][2] + Len(b) <= Frames[d][c] + 1 /\ Len(b) > 0
    BY <1>1, <1>4
  <2>2. \A i \in 1..Len(b) : b[i] = <<b[1][1], b[1][2] + i - 1>>
    BY <1>2, <1>4
  <2> QED BY <1>1, <1>4, <2>1, <2>2 DEF Part
<1>6. Follows(d, b) = IF end = size THEN <<c + 1, 0>> ELSE <<c, end>>
  <2>1. b[1][2] + Len(b) = end /\ Frames[d][b[1][1]] + 1 = size
    BY <1>1, <1>4
  <2> QED BY <1>4, <2>1 DEF Follows
<1>7. WriterInv(d)'
  <2>1. ASSUME end = size, cur'[d] \in DOMAIN Frames[d]
        PROVE  off'[d] <= Frames[d][cur'[d]]
    <3>1. off'[d] = 0 /\ Frames[d][cur'[d]] \in Nat
      BY <1>3, <2>1, FramesFacts
    <3> QED BY <3>1
  <2>2. ASSUME end # size PROVE off'[d] <= Frames[d][cur'[d]]
    <3>1. off'[d] = end /\ cur'[d] = c
      BY <1>3, <2>2
    <3> QED BY <1>1, <2>2, <3>1
  <2> QED BY <2>1, <2>2 DEF WriterInv
<1> QED BY <1>1, <1>3, <1>4, <1>5, <1>6, <1>7 DEF c, o, end, size

LEMMA WriteStep ==
  ASSUME LinkInv, NEW d \in Ends, WriteRecord(d)
  PROVE  LinkInv'
<1> DEFINE s == Peer(d)
           body == [i \in 1..(RecordEnd(d) - off[d]) |-> <<cur[d], off[d] + i - 1>>]
           r == [kind |-> "rec", n |-> tx[d], by |-> WriteCS(d), body |-> body]
<1>1. /\ LinkTypeOK /\ s \in Ends /\ Peer(s) = d /\ s # d /\ WriteCS(d) = ReadCS(s)
      /\ tx \in [Ends -> Nat] /\ cur \in [Ends -> Nat \ {0}] /\ off \in [Ends -> Nat]
      /\ wire \in [Ends -> Seq(Tokens)] /\ stage[d] = 3
      /\ \A e \in Ends : e = d \/ e = s
  BY EndsFacts DEF LinkInv, LinkTypeOK, WriteRecord, Ready
<1>2. /\ wire' = Sent(wire, d, r) /\ tx' = [tx EXCEPT ![d] = tx[d] + 1]
      /\ cur' = [cur EXCEPT ![d] = cur'[d]] /\ off' = [off EXCEPT ![d] = off'[d]]
      /\ UNCHANGED <<id, pin, timer, stage, peer, fate>>
      /\ UNCHANGED <<rx, rbuf, asked, have, got>>
  BY <1>1 DEF WriteRecord, Put, hsVars, inVars
<1>3. off'[d] \in Nat /\ cur'[d] \in Nat \ {0}
  <2>1. cur[d] \in Nat \ {0} /\ off[d] \in Nat /\ cur[d] <= Len(Frames[d])
    BY <1>1 DEF WriteRecord
  <2>2. Frames[d][cur[d]] \in Nat /\ MaxRecord \in Nat
    BY <2>1, FramesFacts, SecureLinkAssumption DEF SecureLinkAssumption
  <2>3. RecordEnd(d) \in Nat
    BY <2>1, <2>2 DEF RecordEnd
  <2> QED BY <1>1, <2>1, <2>3 DEF WriteRecord, Put
<1>4. ASSUME Up(s)
      PROVE  wire' \in [Ends -> Seq(Tokens)] /\ wire'[d] = wire[d] /\ StreamInv(s)'
  <2>1. StreamInv(s) /\ WriterInv(d)
    BY <1>1, <1>4 DEF LinkInv, StreamInv
  <2>2. /\ body \in Seq(Units) /\ Len(body) = RecordEnd(d) - off[d]
        /\ \A i \in 1..Len(body) : body[i] = <<cur[d], off[d] + i - 1>>
    <3>1. cur[d] \in Nat /\ off[d] \in Nat /\ RecordEnd(d) - off[d] \in Nat \ {0}
      BY <1>1, <2>1, RecordSize
    <3> DEFINE c == cur[d]
               o == off[d]
               k == RecordEnd(d) - off[d]
    <3>2. body = Run(c, o, k)
      BY DEF Run
    <3>4. c \in Nat /\ o \in Nat /\ k \in Nat \ {0}
      BY <3>1
    <3> HIDE DEF body, r, c, o, k
    <3>3. body \in Seq(Units) /\ Len(body) = k /\ \A i \in 1..k : body[i] = <<c, o + i - 1>>
      BY <3>2, <3>4, RunUnits
    <3> QED BY <3>3 DEF c, o, k
  <2>3. r.n = tx[d] /\ r.kind = "rec" /\ r.by = WriteCS(d) /\ r.body = body
    OBVIOUS
  <2>4. r \in Tokens
    <3> HIDE DEF body
    <3>1. r \in [kind : {"rec"}, n : Nat, by : {"cs0", "cs1"}, body : Seq(Nat \X Nat)]
      BY <1>1, <2>2 DEF WriteCS, Units
    <3> QED BY <3>1 DEF Tokens
  <2> HIDE DEF body, r
  <2>5. /\ wire' \in [Ends -> Seq(Tokens)] /\ wire'[d] = wire[d]
        /\ wire'[s] = Append(wire[s], r)
    <3>1. /\ d \in Ends /\ wire \in [Ends -> Seq(Tokens)] /\ wire' = Sent(wire, d, r)
          /\ Up(Peer(d))
      BY <1>1, <1>2, <1>4
    <3> HIDE DEF s
    <3>2. s = Peer(d)
      BY DEF s
    <3> QED BY <3>1, <3>2, <2>4, SentType
  <2>6. /\ Part(d, body) /\ Len(body) <= MaxRecord /\ body[1] = <<cur[d], off[d]>>
        /\ <<cur'[d], off'[d]>> = Follows(d, body) /\ WriterInv(d)'
    BY <1>1, <2>1, <2>2, RecordCut
  <2>7. body[1] = Coming(s) /\ Coming(s)' = Follows(d, body)
    BY <1>1, <2>6 DEF Coming
  <2>8. UNCHANGED Waiting(s) /\ tx'[d] = tx[d] + 1
    BY <1>1, <1>2 DEF Waiting
  <2>9. UNCHANGED stage /\ UNCHANGED <<rx[s], rbuf[s], asked[s], have[s], got[s]>>
    BY <1>2
  <2> HIDE DEF s
  <2>10. StreamInv(s)'
    BY <1>1, <2>1, <2>3, <2>4, <2>5, <2>6, <2>7, <2>8, <2>9, RecordSent
  <2> QED BY <2>5, <2>10
<1>5. ASSUME ~Up(s)
      PROVE  wire' = wire
  BY <1>2, <1>5 DEF Sent
<1>6. wire' \in [Ends -> Seq(Tokens)] /\ wire'[d] = wire[d]
  BY <1>1, <1>4, <1>5
<1> HIDE DEF r, body
<1>7. ASSUME Up(d) PROVE StreamInv(d)'
  <2>1. StreamInv(d)
    BY <1>7 DEF LinkInv
  <2>2. /\ UNCHANGED <<cur[s], off[s], tx[s]>> /\ UNCHANGED Waiting(d)
        /\ UNCHANGED <<rx[d], rbuf[d], asked[d], have[d], got[d]>>
    <3> HIDE DEF s
    <3> QED BY <1>1, <1>2 DEF Waiting
  <2>3. UNCHANGED wire[d] /\ UNCHANGED stage
    BY <1>2, <1>6
  <2> QED BY <2>1, <2>2, <2>3, SameStream
<1>8. LinkTypeOK'
  <2>1. cur' \in [Ends -> Nat \ {0}] /\ off' \in [Ends -> Nat] /\ tx' \in [Ends -> Nat]
    <3>1. [cur EXCEPT ![d] = cur'[d]] \in [Ends -> Nat \ {0}]
      BY <1>1, <1>3
    <3>2. [off EXCEPT ![d] = off'[d]] \in [Ends -> Nat]
      BY <1>1, <1>3
    <3>3. [tx EXCEPT ![d] = tx[d] + 1] \in [Ends -> Nat]
      BY <1>1
    <3>4. /\ cur' = [cur EXCEPT ![d] = cur'[d]] /\ off' = [off EXCEPT ![d] = off'[d]]
          /\ tx' = [tx EXCEPT ![d] = tx[d] + 1]
      BY <1>2
    <3> HIDE DEF s
    <3> QED BY <3>1, <3>2, <3>3, <3>4
  <2> QED BY <1>1, <1>2, <1>6, <2>1 DEF LinkTypeOK
<1>9. NothingRefused' /\ <<stage["ini"], stage["rsp"]>>' \in Stages
  BY <1>2 DEF LinkInv, NothingRefused
<1>10. \A e \in Ends : Up(e)' = Up(e) /\ GotInv(e)'
  BY <1>2, GotStays DEF LinkInv, Up
<1> HIDE DEF s
<1> QED BY <1>1, <1>4, <1>7, <1>8, <1>9, <1>10 DEF LinkInv

\* What e has taken is typed, and the other end has not noticed.
LEMMA ReceivedStep ==
  ASSUME LinkInv, NEW d \in Ends, Received(d), StreamInv(d)', GotInv(d)',
         wire' \in [Ends -> Seq(Tokens)], rx' \in [Ends -> Nat],
         wire'[Peer(d)] = wire[Peer(d)], rx'[Peer(d)] = rx[Peer(d)],
         UNCHANGED <<hsVars, outVars>>
  PROVE  LinkInv'
<1> DEFINE s == Peer(d)
<1>1. /\ LinkTypeOK /\ s \in Ends /\ s # d /\ \A e \in Ends : e = d \/ e = s
      /\ UNCHANGED <<id, pin, timer, stage, peer, tx, cur, off, fate>>
  BY EndsFacts DEF LinkInv, Received, hsVars, outVars
<1>2. /\ rbuf \in [Ends -> Seq(Units)] /\ have \in [Ends -> Seq(Units)]
      /\ asked \in [Ends -> Nat \ {0}] /\ got \in [Ends -> Seq(Seq(Units))]
  BY <1>1 DEF LinkTypeOK, Units
<1> HIDE DEF s
<1>3. /\ rbuf' \in [Ends -> Seq(Units)] /\ have' \in [Ends -> Seq(Units)]
      /\ asked' \in [Ends -> Nat \ {0}] /\ got' \in [Ends -> Seq(Seq(Units))]
  BY <1>2 DEF Received
<1>4. UNCHANGED <<rbuf[s], have[s], asked[s], got[s]>>
  BY <1>1, <1>2 DEF Received
<1>5. LinkTypeOK'
  BY <1>1, <1>3 DEF LinkTypeOK, Units
<1>6. GotInv(s)'
  BY <1>1, <1>4 DEF LinkInv, GotInv
<1>7. ASSUME Up(s) PROVE StreamInv(s)'
  <2>1. UNCHANGED Waiting(s)
    BY <1>1 DEF Waiting
  <2>2. UNCHANGED <<rx[s], wire[s]>>
    BY DEF s
  <2> QED BY <1>1, <1>4, <1>7, <2>1, <2>2, SameStream DEF LinkInv
<1>8. NothingRefused' /\ <<stage["ini"], stage["rsp"]>>' \in Stages
  BY <1>1 DEF LinkInv, NothingRefused
<1> QED BY <1>1, <1>5, <1>6, <1>7, <1>8 DEF LinkInv, Up

LEMMA ReadRestStep ==
  ASSUME LinkInv, MaxFrame["ini"] = MaxFrame["rsp"], NEW d \in Ends, ReadRest(d)
  PROVE  LinkInv'
<1>1. LinkTypeOK /\ StreamInv(d) /\ GotInv(d) /\ rbuf[d] # <<>> /\ Take(d, rbuf[d])
  BY DEF LinkInv, ReadRest, Ready
<1>2. UNCHANGED <<wire, rx, tx, cur, off, stage>> /\ UNCHANGED <<hsVars, outVars>>
  BY DEF ReadRest, hsVars, outVars
<1>3. Received(d) /\ StreamInv(d)' /\ GotInv(d)'
  BY <1>1, <1>2, RestRead
<1>4. wire' \in [Ends -> Seq(Tokens)] /\ rx' \in [Ends -> Nat]
  BY <1>1, <1>2 DEF LinkTypeOK
<1> QED BY <1>2, <1>3, <1>4, ReceivedStep

LEMMA ReadRecordStep ==
  ASSUME LinkInv, MaxFrame["ini"] = MaxFrame["rsp"], NEW d \in Ends, ReadRecord(d)
  PROVE  LinkInv'
<1>1. /\ LinkTypeOK /\ StreamInv(d) /\ GotInv(d) /\ stage[d] = 3
      /\ rbuf[d] = <<>> /\ wire[d] # <<>> /\ wire' = Put(wire, d, Tail(wire[d]))
  BY DEF LinkInv, ReadRecord, Ready
<1>2. UNCHANGED <<tx, cur, off, stage>> /\ UNCHANGED <<hsVars, outVars>>
  BY DEF ReadRecord, hsVars, outVars
<1>3. Waiting(d) = 0
  BY <1>1 DEF Waiting, Ends
<1>4. rx' = Put(rx, d, rx[d] + 1) /\ Take(d, Head(wire[d]).body)
  <2>1. Opens(d, Head(wire[d]))
    BY <1>1, <1>3, FirstOpens
  <2> QED BY <2>1 DEF ReadRecord
<1>5. Received(d) /\ StreamInv(d)' /\ GotInv(d)'
  BY <1>1, <1>2, <1>3, <1>4, RecordRead
<1>6. /\ wire \in [Ends -> Seq(Tokens)] /\ rx \in [Ends -> Nat]
      /\ Tail(wire[d]) \in Seq(Tokens) /\ Peer(d) # d
  BY <1>1, HeadTailProperties, EndsFacts DEF LinkTypeOK
<1>7. wire' \in [Ends -> Seq(Tokens)] /\ wire'[Peer(d)] = wire[Peer(d)]
  BY <1>1, <1>6, EndsFacts DEF Put
<1>8. rx' \in [Ends -> Nat] /\ rx'[Peer(d)] = rx[Peer(d)]
  BY <1>4, <1>6, EndsFacts DEF Put
<1> QED BY <1>2, <1>5, <1>7, <1>8, ReceivedStep

-----------------------------------------------------------------------------
(* The theorems.                                                           *)

LEMMA LinkStep ==
  ASSUME MaxFrame["ini"] = MaxFrame["rsp"], LinkInv, [LinkNext]_linkVars
  PROVE  LinkInv'
<1>1. CASE Connect
  BY <1>1, ConnectStep
<1>2. CASE Handshake
  BY <1>2, HelloStep, ReplyStep, FinishStep, ConfirmStep DEF Handshake
<1>3. ASSUME NEW e \in Ends, Transfer(e) PROVE LinkInv'
  BY <1>3, WriteStep, ReadRestStep, ReadRecordStep DEF Transfer
<1>4. ASSUME NEW e \in Ends, Deadline(e) PROVE LinkInv'
  <2>1. timer' \subseteq Ends
    BY <1>4 DEF Deadline, LinkInv, LinkTypeOK
  <2> QED BY <1>4, <2>1, OverStep DEF Deadline
<1>5. ASSUME NEW e \in Ends, Leave(e) \/ Vanish(e) \/ Gone(e) PROVE LinkInv'
  <2>1. PICK how \in {"timeout", "closed", "vanished", "gone"} :
           Ended(e, how) /\ UNCHANGED <<hsVars, outVars, inVars>>
    BY <1>5 DEF Leave, Vanish, Gone
  <2>2. timer' \subseteq Ends /\ UNCHANGED <<id, pin, stage, peer, outVars, inVars>>
    BY <2>1 DEF hsVars, LinkInv, LinkTypeOK
  <2> QED BY <2>1, <2>2, OverStep
<1>6. CASE UNCHANGED linkVars
  <2>1. UNCHANGED <<id, pin, timer, stage, peer, wire, fate, tx, cur, off,
                    rx, rbuf, asked, have, got>>
    BY <1>6 DEF linkVars, hsVars, outVars, inVars
  <2>2. \A e \in Ends : UNCHANGED Waiting(e) /\ UNCHANGED Up(e)
    BY <2>1 DEF Waiting, Up
  <2>3. \A e \in Ends : GotInv(e)' /\ (Up(e)' => StreamInv(e)')
    BY <2>1, <2>2, GotStays, SameStream, EndsFacts DEF LinkInv
  <2>4. LinkTypeOK' /\ NothingRefused' /\ <<stage["ini"], stage["rsp"]>>' \in Stages
    BY <2>1 DEF LinkInv, LinkTypeOK, NothingRefused
  <2> QED BY <2>3, <2>4 DEF LinkInv
<1> QED BY <1>1, <1>2, <1>3, <1>4, <1>5, <1>6 DEF LinkNext

\* The variables of the connection hold what SecureConn and Session can put
\* there, whatever the frames and the record size.
THEOREM LinkType ==
  ASSUME MaxFrame["ini"] = MaxFrame["rsp"]
  PROVE  LinkSpec => []LinkTypeOK
<1>1. LinkInv => LinkTypeOK
  BY DEF LinkInv
<1> QED BY <1>1, LinkStart, LinkStep, PTL DEF LinkSpec

\* Two ends that keep to the protocol with the same MaxFramePayload never end
\* a connection by a bad record or a bad frame: SecureConn.Read opens every
\* record it is sent, and ReadFrame finds a header where it looks for one.
THEOREM NeverRefused ==
  ASSUME MaxFrame["ini"] = MaxFrame["rsp"]
  PROVE  LinkSpec => []NothingRefused
<1>1. LinkInv => NothingRefused
  BY DEF LinkInv
<1> QED BY <1>1, LinkStart, LinkStep, PTL DEF LinkSpec

\* ReadFrame returns the frames that the other session handed to WriteFrame,
\* whole, unchanged and in order, however Write cuts them into records and
\* wherever the connection ends.
THEOREM InOrder ==
  ASSUME MaxFrame["ini"] = MaxFrame["rsp"]
  PROVE  LinkSpec => []FramesInOrder
<1>1. LinkInv => FramesInOrder
  BY DEF LinkInv, GotInv, FramesInOrder
<1> QED BY <1>1, LinkStart, LinkStep, PTL DEF LinkSpec
-----------------------------------------------------------------------------
(* The invariant of the pins.                                              *)

\* Handshake messages carry the key of the end that sends them.
Named(e) ==
    \A j \in 1..Len(wire[e]) :
        wire[e][j].kind = "hs" /\ wire[e][j].n # 1 => wire[e][j].by = id[Peer(e)]

\* An end that is through knows its peer, and "mismatch" is the pin's doing.
Met(e) ==
    /\ stage[e] = 3 => peer[e] = id[Peer(e)]
    /\ stage[e] = 3 /\ fate[e] # "mismatch" => pin[e] \in {None, peer[e]}
    /\ fate[e] = "mismatch" => stage[e] = 3 /\ pin[e] \notin {None, peer[e]}
    /\ fate[e] # "none" => id \in [Ends -> Keys]

MetInv == \A e \in Ends : Named(e) /\ Met(e)

Loaded == {"pin", "ready", "link", "pinning", "session"}

\* The command of e has its identity from the file, its connection has what
\* the command has read, and it pins only a peer it has met.
CommandInv(e) ==
    /\ pc[e] = "saving" => self[e] \in Keys /\ idFile[e] = Torn
    /\ pc[e] \in Loaded => self[e] \in Keys /\ idFile[e] = self[e]
    /\ pc[e] \in {"link", "pinning", "session"} => pin[e] = known[e]
    /\ pc[e] \in {"pinning", "session"} => stage[e] = 3 /\ fate[e] # "mismatch"

\* What the other machine is known by is what it has on file, unless a key
\* directory was deleted.
StoreInv(e) ==
    wipes = 0 =>
        /\ id[e] \in Keys => idFile[e] = id[e]
        /\ \A v \in {pinFile[e], known[e], pin[e]} : v \in Keys => v = idFile[Peer(e)]

PairingInv ==
    /\ TypeOK /\ LinkInv /\ MetInv
    /\ wipes \in Nat
    /\ \A e \in Ends : CommandInv(e) /\ StoreInv(e)

-----------------------------------------------------------------------------
(* Every step of the connection keeps what it knows of keys.               *)

\* What is on the wire is taken away, made longer, or stays.
LEMMA NamedTail ==
  ASSUME NEW e \in Ends, NEW S, wire[e] \in Seq(S), wire[e] # <<>>, Named(e),
         wire'[e] = Tail(wire[e]), UNCHANGED id
  PROVE  Named(e)'
<1>1. /\ Len(wire'[e]) = Len(wire[e]) - 1 /\ Len(wire[e]) \in Nat
      /\ \A j \in 1..Len(wire'[e]) : wire'[e][j] = wire[e][j + 1]
  BY HeadTailProperties
<1>2. \A j \in 1..Len(wire'[e]) : j + 1 \in 1..Len(wire[e])
  BY <1>1
<1> QED BY <1>1, <1>2 DEF Named

LEMMA NamedAppend ==
  ASSUME NEW e \in Ends, NEW S, wire[e] \in Seq(S), NEW t \in S, Named(e),
         t.kind = "hs" /\ t.n # 1 => t.by = id[Peer(e)],
         wire'[e] = Append(wire[e], t), UNCHANGED id
  PROVE  Named(e)'
<1>1. /\ Len(wire'[e]) = Len(wire[e]) + 1 /\ Len(wire[e]) \in Nat
      /\ wire'[e][Len(wire[e]) + 1] = t
      /\ \A j \in 1..Len(wire[e]) : wire'[e][j] = wire[e][j]
  BY AppendProperties
<1>2. \A j \in 1..Len(wire'[e]) : j = Len(wire[e]) + 1 \/ j \in 1..Len(wire[e])
  BY <1>1
<1> QED BY <1>1, <1>2 DEF Named

LEMMA NamedSame ==
  ASSUME NEW e \in Ends, Named(e), UNCHANGED <<wire[e], id>>
  PROVE  Named(e)'
  BY DEF Named

LEMMA NamedEmpty ==
  ASSUME NEW e \in Ends, wire'[e] = <<>>
  PROVE  Named(e)'
  BY DEF Named

LEMMA MetSame ==
  ASSUME NEW e \in Ends, Met(e), UNCHANGED <<stage[e], peer[e], fate[e], id, pin>>
  PROVE  Met(e)'
  BY DEF Met

\* A handshake message is written.
LEMMA NamedSent ==
  ASSUME LinkTypeOK, NEW e \in Ends, MetInv, NEW t \in Tokens,
         t.kind = "hs" /\ t.n # 1 => t.by = id[e],
         NEW w \in [Ends -> Seq(Tokens)], w[Peer(e)] = wire[Peer(e)],
         wire' = Sent(w, e, t), UNCHANGED id
  PROVE  Named(Peer(e))'
<1>1. Peer(e) \in Ends /\ Peer(Peer(e)) = e /\ wire[Peer(e)] \in Seq(Tokens)
      /\ Named(Peer(e))
  BY EndsFacts DEF LinkTypeOK, MetInv
<1>2. CASE Up(Peer(e))
  <2>1. wire'[Peer(e)] = Append(wire[Peer(e)], t)
    BY <1>2, SentType
  <2> QED BY <1>1, <2>1, NamedAppend
<1>3. CASE ~Up(Peer(e))
  <2>1. wire'[Peer(e)] = wire[Peer(e)]
    BY <1>3 DEF Sent
  <2> QED BY <1>1, <2>1, NamedSame
<1> QED BY <1>2, <1>3

\* A handshake message that asks for a key brings it.
LEMMA ArrivedKey ==
  ASSUME LinkTypeOK, NEW e \in Ends, Named(e), NEW n \in {2, 3}, Arrived(e, n)
  PROVE  Head(wire[e]).by = id[Peer(e)]
<1>1. wire[e] \in Seq(Tokens) /\ wire[e] # <<>>
  BY DEF LinkTypeOK, Arrived
<1>2. Head(wire[e]) = wire[e][1] /\ 1 \in 1..Len(wire[e])
  BY <1>1, HeadTailProperties
<1> QED BY <1>2 DEF Arrived, Named

LEMMA MetStart == LinkInit => MetInv
  BY DEF LinkInit, MetInv, Met, Named

LEMMA MetConnect ==
  ASSUME Connect
  PROVE  MetInv'
<1>1. PICK ids \in [Ends -> Keys], pins \in [Ends -> Keys \cup {None}] : ConnectWith(ids, pins)
  BY DEF Connect
<1>2. ASSUME NEW e \in Ends PROVE Named(e)' /\ Met(e)'
  <2>1. wire'[e] = <<>> /\ stage'[e] = 0 /\ fate'[e] = "up" /\ id' = ids
    BY <1>1 DEF ConnectWith
  <2> QED BY <2>1, NamedEmpty DEF Met
<1> QED BY <1>2 DEF MetInv

LEMMA MetHello ==
  ASSUME LinkTypeOK, MetInv, Hello
  PROVE  MetInv'
<1>1. /\ "ini" \in Ends /\ "rsp" \in Ends /\ Peer("ini") = "rsp"
      /\ wire \in [Ends -> Seq(Tokens)] /\ stage \in [Ends -> 0..3] /\ None \in Keys \cup {None}
      /\ \A e \in Ends : e = "ini" \/ e = "rsp"
  BY DEF LinkTypeOK, Ends, Peer
<1> DEFINE m == Msg(1, None)
<1>2. m \in Tokens /\ m.n = 1 /\ wire' = Sent(wire, "ini", m)
  BY MsgType DEF Hello, Msg
<1> HIDE DEF m
<1>3. wire'["ini"] = wire["ini"] /\ UNCHANGED <<id, pin, peer, fate>>
  BY <1>1, <1>2, SentType DEF Hello
<1>4. Named("rsp")'
  BY <1>1, <1>2, <1>3, NamedSent
<1>5. Named("ini")'
  BY <1>1, <1>3, NamedSame DEF MetInv
<1>6. Met("ini")'
  BY <1>1, <1>3 DEF MetInv, Met, Hello, Put, Up
<1>7. Met("rsp")'
  BY <1>1, <1>3, MetSame DEF MetInv, Hello, Put
<1> QED BY <1>1, <1>4, <1>5, <1>6, <1>7 DEF MetInv

LEMMA MetReply ==
  ASSUME LinkTypeOK, MetInv, Reply
  PROVE  MetInv'
<1>1. /\ "ini" \in Ends /\ "rsp" \in Ends /\ Peer("rsp") = "ini"
      /\ wire \in [Ends -> Seq(Tokens)] /\ stage \in [Ends -> 0..3]
      /\ id["rsp"] \in Keys \cup {None} /\ Arrived("rsp", 1)
      /\ \A e \in Ends : e = "ini" \/ e = "rsp"
  BY DEF LinkTypeOK, Ends, Peer, Reply
<1> DEFINE m == Msg(2, id["rsp"])
           w == [wire EXCEPT !["rsp"] = Tail(@)]
<1>2. m \in Tokens /\ m.by = id["rsp"] /\ wire' = Sent(w, "rsp", m)
  BY <1>1, MsgType DEF Reply, Msg
<1>3. w \in [Ends -> Seq(Tokens)] /\ w["rsp"] = Tail(wire["rsp"]) /\ w["ini"] = wire["ini"]
  BY <1>1, ArrivedType
<1> HIDE DEF m, w
<1>4. wire'["rsp"] = Tail(wire["rsp"]) /\ UNCHANGED <<id, pin, peer, fate>>
  BY <1>1, <1>2, <1>3, SentType DEF Reply
<1>5. Named("ini")'
  BY <1>1, <1>2, <1>3, <1>4, NamedSent
<1>6. Named("rsp")'
  <2>1. wire["rsp"] \in Seq(Tokens) /\ wire["rsp"] # <<>> /\ Named("rsp")
    BY <1>1 DEF Arrived, MetInv
  <2> QED BY <1>1, <1>4, <2>1, NamedTail
<1>7. Met("rsp")'
  BY <1>1, <1>4 DEF MetInv, Met, Reply, Put, Up
<1>8. Met("ini")'
  BY <1>1, <1>4, MetSame DEF MetInv, Reply, Put
<1> QED BY <1>1, <1>5, <1>6, <1>7, <1>8 DEF MetInv

\* The end of a handshake: the peer is who it says, the pin is looked at.
LEMMA MetSettle ==
  ASSUME LinkTypeOK, MetInv, NEW d \in Ends, Up(d), Settle(d, id[Peer(d)])
  PROVE  Met(d)' /\ Met(Peer(d))' /\ UNCHANGED id
<1>1. /\ stage' = [stage EXCEPT ![d] = 3] /\ peer' = [peer EXCEPT ![d] = id[Peer(d)]]
      /\ fate' = [fate EXCEPT ![d] = IF PinAccepts(d, id[Peer(d)]) THEN "up" ELSE "mismatch"]
      /\ UNCHANGED <<id, pin>>
  BY DEF Settle, Put
<1>2. /\ DOMAIN stage = Ends /\ DOMAIN peer = Ends /\ DOMAIN fate = Ends
      /\ Peer(d) \in Ends /\ Peer(d) # d
  BY EndsFacts DEF LinkTypeOK
<1>3. /\ stage'[d] = 3 /\ peer'[d] = id[Peer(d)]
      /\ fate'[d] = IF PinAccepts(d, id[Peer(d)]) THEN "up" ELSE "mismatch"
  BY <1>1, <1>2
<1>4. id \in [Ends -> Keys]
  BY DEF MetInv, Met, Up
<1>5. Met(d)'
  BY <1>1, <1>3, <1>4 DEF Met, PinAccepts
<1>6. UNCHANGED <<stage[Peer(d)], peer[Peer(d)], fate[Peer(d)]>>
  BY <1>1, <1>2
<1>7. Met(Peer(d))'
  BY <1>1, <1>2, <1>6, MetSame DEF MetInv
<1> QED BY <1>1, <1>5, <1>7

LEMMA MetFinish ==
  ASSUME LinkTypeOK, MetInv, Finish
  PROVE  MetInv'
<1>1. /\ "ini" \in Ends /\ "rsp" \in Ends /\ Peer("ini") = "rsp" /\ Up("ini")
      /\ wire \in [Ends -> Seq(Tokens)] /\ Arrived("ini", 2)
      /\ id["ini"] \in Keys \cup {None}
      /\ \A e \in Ends : e = "ini" \/ e = "rsp"
  BY DEF LinkTypeOK, Ends, Peer, Finish
<1> DEFINE m == Msg(3, id["ini"])
           w == [wire EXCEPT !["ini"] = Tail(@)]
<1>2. m \in Tokens /\ m.by = id["ini"] /\ wire' = Sent(w, "ini", m)
  BY <1>1, MsgType DEF Finish, Msg
<1>3. w \in [Ends -> Seq(Tokens)] /\ w["ini"] = Tail(wire["ini"]) /\ w["rsp"] = wire["rsp"]
  BY <1>1, ArrivedType
<1> HIDE DEF m, w
<1>4. Head(wire["ini"]).by = id[Peer("ini")]
  BY <1>1, ArrivedKey DEF MetInv
<1>5. Met("ini")' /\ Met("rsp")' /\ UNCHANGED id
  <2>1. Settle("ini", id[Peer("ini")])
    BY <1>4 DEF Finish
  <2> QED BY <1>1, <2>1, MetSettle
<1>6. wire'["ini"] = Tail(wire["ini"])
  BY <1>1, <1>2, <1>3, SentType
<1>7. Named("rsp")'
  BY <1>1, <1>2, <1>3, <1>5, NamedSent
<1>8. Named("ini")'
  <2>1. wire["ini"] \in Seq(Tokens) /\ wire["ini"] # <<>> /\ Named("ini")
    BY <1>1 DEF Arrived, MetInv
  <2> QED BY <1>1, <1>5, <1>6, <2>1, NamedTail
<1> QED BY <1>1, <1>5, <1>7, <1>8 DEF MetInv

LEMMA MetConfirm ==
  ASSUME LinkTypeOK, MetInv, Confirm
  PROVE  MetInv'
<1>1. /\ "ini" \in Ends /\ "rsp" \in Ends /\ Peer("rsp") = "ini" /\ Up("rsp")
      /\ wire \in [Ends -> Seq(Tokens)] /\ Arrived("rsp", 3)
      /\ \A e \in Ends : e = "ini" \/ e = "rsp"
  BY DEF LinkTypeOK, Ends, Peer, Confirm
<1>2. wire'["rsp"] = Tail(wire["rsp"]) /\ wire'["ini"] = wire["ini"]
  BY <1>1, ArrivedType DEF Confirm
<1>3. Head(wire["rsp"]).by = id[Peer("rsp")]
  BY <1>1, ArrivedKey DEF MetInv
<1>4. Met("ini")' /\ Met("rsp")' /\ UNCHANGED id
  <2>1. Settle("rsp", id[Peer("rsp")])
    BY <1>3 DEF Confirm
  <2> QED BY <1>1, <2>1, MetSettle
<1>5. Named("ini")'
  BY <1>1, <1>2, <1>4, NamedSame DEF MetInv
<1>6. Named("rsp")'
  <2>1. wire["rsp"] \in Seq(Tokens) /\ wire["rsp"] # <<>> /\ Named("rsp")
    BY <1>1 DEF Arrived, MetInv
  <2> QED BY <1>1, <1>2, <1>4, <2>1, NamedTail
<1> QED BY <1>1, <1>4, <1>5, <1>6 DEF MetInv

\* An end that is up may end, but not in a mismatch.
LEMMA MetFate ==
  ASSUME LinkTypeOK, MetInv, NEW d \in Ends, Up(d),
         fate' = [fate EXCEPT ![d] = fate'[d]], fate'[d] # "mismatch",
         UNCHANGED <<id, pin, stage, peer>>
  PROVE  \A e \in Ends : Met(e)'
<1>1. ASSUME NEW e \in Ends PROVE Met(e)'
  <2>1. CASE e = d
    BY <2>1 DEF MetInv, Met, Up
  <2>2. CASE e # d
    <3>1. fate'[e] = fate[e]
      BY <2>2 DEF LinkTypeOK
    <3> QED BY <3>1, MetSame DEF MetInv
  <2> QED BY <2>1, <2>2
<1> QED BY <1>1

LEMMA MetEnded ==
  ASSUME LinkTypeOK, MetInv, NEW d \in Ends, Up(d),
         NEW how \in {"timeout", "closed", "vanished", "gone"}, Ended(d, how),
         UNCHANGED <<id, pin, stage, peer>>
  PROVE  MetInv'
<1>1. fate' = [fate EXCEPT ![d] = how] /\ wire' = [wire EXCEPT ![d] = <<>>]
      /\ DOMAIN fate = Ends /\ DOMAIN wire = Ends
  BY DEF Ended, Put, LinkTypeOK
<1>2. \A e \in Ends : Met(e)'
  <2>1. fate'[d] = how
    BY <1>1
  <2> QED BY <1>1, <2>1, MetFate
<1>3. ASSUME NEW e \in Ends PROVE Named(e)'
  <2>1. CASE e = d
    BY <1>1, <2>1, NamedEmpty
  <2>2. CASE e # d
    <3>1. wire'[e] = wire[e]
      BY <1>1, <2>2
    <3> QED BY <3>1, NamedSame DEF MetInv
  <2> QED BY <2>1, <2>2
<1> QED BY <1>2, <1>3 DEF MetInv

LEMMA MetWrite ==
  ASSUME LinkTypeOK, MetInv, NEW d \in Ends, WriteRecord(d)
  PROVE  MetInv'
<1>1. PICK t : t.kind = "rec" /\ wire' = Sent(wire, d, t)
  <2> DEFINE body == [i \in 1..(RecordEnd(d) - off[d]) |-> <<cur[d], off[d] + i - 1>>]
             r == [kind |-> "rec", n |-> tx[d], by |-> WriteCS(d), body |-> body]
  <2>1. wire' = Sent(wire, d, r)
    BY DEF WriteRecord
  <2>2. r.kind = "rec"
    OBVIOUS
  <2> HIDE DEF r
  <2> QED BY <2>1, <2>2
<1>2. UNCHANGED <<id, pin, stage, peer, fate>>
  BY DEF WriteRecord, hsVars
<1>3. ASSUME NEW e \in Ends PROVE Named(e)'
  <2>1. wire \in [Ends -> Seq(Tokens)] /\ Peer(d) \in Ends /\ Named(e)
    BY EndsFacts DEF LinkTypeOK, MetInv
  <2>2. CASE Up(Peer(d)) /\ e = Peer(d)
    <3>1. wire'[e] = Append(wire[e], t)
      BY <1>1, <2>1, <2>2 DEF Sent
    <3>2. wire[e] \in Seq(Tokens \cup {t}) /\ t \in Tokens \cup {t}
      BY <2>1
    <3> QED BY <1>1, <1>2, <2>1, <3>1, <3>2, NamedAppend
  <2>3. CASE ~(Up(Peer(d)) /\ e = Peer(d))
    <3>1. wire'[e] = wire[e]
      BY <1>1, <2>1, <2>3 DEF Sent
    <3> QED BY <1>2, <2>1, <3>1, NamedSame
  <2> QED BY <2>2, <2>3
<1> QED BY <1>2, <1>3, MetSame DEF MetInv

\* Reading ends an end at the most.
LEMMA TakeFate ==
  ASSUME LinkTypeOK, NEW d \in Ends, NEW b, Up(d), Take(d, b) \/ Refuse(d)
  PROVE  fate' = [fate EXCEPT ![d] = fate'[d]] /\ fate'[d] # "mismatch"
<1>1. DOMAIN fate = Ends /\ fate = [e \in Ends |-> fate[e]]
  BY DEF LinkTypeOK
<1>2. CASE UNCHANGED fate
  BY <1>1, <1>2 DEF Up
<1>3. CASE Refuse(d)
  BY <1>1, <1>3 DEF Refuse, Put
<1>4. \A u : FrameStep(d, u) => UNCHANGED fate \/ Refuse(d)
  BY DEF FrameStep
<1>5. UNCHANGED fate \/ Refuse(d)
  BY <1>4 DEF Take
<1> QED BY <1>2, <1>3, <1>5

LEMMA MetReadRest ==
  ASSUME LinkTypeOK, MetInv, NEW d \in Ends, ReadRest(d)
  PROVE  MetInv'
<1>1. UNCHANGED <<id, pin, stage, peer, wire>> /\ Up(d) /\ Take(d, rbuf[d])
  BY DEF ReadRest, hsVars, Ready
<1>2. \A e \in Ends : Met(e)'
  BY <1>1, TakeFate, MetFate
<1> QED BY <1>1, <1>2, NamedSame DEF MetInv

LEMMA MetReadRecord ==
  ASSUME LinkTypeOK, MetInv, NEW d \in Ends, ReadRecord(d)
  PROVE  MetInv'
<1>1. /\ UNCHANGED <<id, pin, stage, peer>> /\ Up(d) /\ wire[d] # <<>>
      /\ Take(d, Head(wire[d]).body) \/ Refuse(d)
      /\ wire' = [wire EXCEPT ![d] = Tail(wire[d])] /\ wire \in [Ends -> Seq(Tokens)]
  BY DEF ReadRecord, hsVars, Ready, Put, LinkTypeOK
<1>2. \A e \in Ends : Met(e)'
  BY <1>1, TakeFate, MetFate
<1>3. ASSUME NEW e \in Ends PROVE Named(e)'
  <2>1. CASE e = d
    <3>1. wire'[e] = Tail(wire[e]) /\ wire[e] \in Seq(Tokens) /\ wire[e] # <<>> /\ Named(e)
      BY <1>1, <2>1 DEF MetInv
    <3> QED BY <1>1, <3>1, NamedTail
  <2>2. CASE e # d
    <3>1. wire'[e] = wire[e]
      BY <1>1, <2>2
    <3> QED BY <1>1, <3>1, NamedSame DEF MetInv
  <2> QED BY <2>1, <2>2
<1> QED BY <1>2, <1>3 DEF MetInv

LEMMA MetStep ==
  ASSUME LinkTypeOK, MetInv, [LinkNext]_linkVars
  PROVE  MetInv'
<1>1. CASE Connect
  BY <1>1, MetConnect
<1>2. CASE Handshake
  BY <1>2, MetHello, MetReply, MetFinish, MetConfirm DEF Handshake
<1>3. ASSUME NEW e \in Ends, Transfer(e) PROVE MetInv'
  BY <1>3, MetWrite, MetReadRest, MetReadRecord DEF Transfer
<1>4. ASSUME NEW e \in Ends, Deadline(e) \/ Leave(e) \/ Vanish(e) \/ Gone(e) PROVE MetInv'
  <2>1. PICK how \in {"timeout", "closed", "vanished", "gone"} :
           Up(e) /\ Ended(e, how) /\ UNCHANGED <<id, pin, stage, peer>>
    BY <1>4 DEF Deadline, Leave, Vanish, Gone, hsVars
  <2> QED BY <2>1, MetEnded
<1>5. CASE UNCHANGED linkVars
  <2>1. UNCHANGED <<id, pin, stage, peer, wire, fate>>
    BY <1>5 DEF linkVars, hsVars
  <2> QED BY <2>1, NamedSame, MetSame DEF MetInv
<1> QED BY <1>1, <1>2, <1>3, <1>4, <1>5 DEF LinkNext

-----------------------------------------------------------------------------
(* Every step of the two machines.                                         *)

Where == {"off", "identity", "saving", "pin", "ready", "link", "pinning", "session"}

\* The values of the variables that SecureLink does not have.
StoreType ==
    /\ idFile \in [Ends -> Files] /\ pinFile \in [Ends -> Files]
    /\ pc \in [Ends -> Where]
    /\ self \in [Ends -> Keys \cup {None}] /\ known \in [Ends -> Keys \cup {None}]
    /\ made \subseteq Keys

LEMMA TypeParts == TypeOK <=> LinkTypeOK /\ StoreType
  BY DEF TypeOK, StoreType, Where

\* What there is to show of a step of the machines.
StoreStep == StoreType' /\ wipes' \in Nat /\ \A e \in Ends : CommandInv(e)' /\ StoreInv(e)'

\* The connection goes on, without being made anew.
Goes ==
    \/ Handshake \/ UNCHANGED linkVars
    \/ \E d \in Ends : Transfer(d) \/ Deadline(d) \/ Leave(d) \/ Vanish(d) \/ Gone(d)

\* An end that is through with the handshake stays through.
LEMMA GoesOn ==
  ASSUME LinkTypeOK, Goes
  PROVE  /\ UNCHANGED <<id, pin>>
         /\ \A e \in Ends : stage[e] = 3 /\ fate[e] # "mismatch" =>
                             stage'[e] = 3 /\ fate'[e] # "mismatch"
<1>1. DOMAIN stage = Ends /\ DOMAIN fate = Ends /\ fate = [e \in Ends |-> fate[e]]
  BY DEF LinkTypeOK
<1>2. CASE UNCHANGED linkVars
  BY <1>2 DEF linkVars, hsVars
<1>3. CASE Handshake
  <2>1. CASE Hello \/ Reply
    BY <2>1, <1>1 DEF Hello, Reply, Put
  <2>2. ASSUME NEW d \in Ends, NEW k, stage[d] # 3, Settle(d, k)
        PROVE  /\ UNCHANGED <<id, pin>>
               /\ \A e \in Ends : stage[e] = 3 /\ fate[e] # "mismatch" =>
                                   stage'[e] = 3 /\ fate'[e] # "mismatch"
    BY <2>2, <1>1 DEF Settle, Put
  <2>3. CASE Finish \/ Confirm
    <3>1. PICK d \in Ends, k \in {Head(wire["ini"]).by, Head(wire["rsp"]).by} :
             stage[d] # 3 /\ Settle(d, k)
      BY <2>3 DEF Finish, Confirm, Ends
    <3> QED BY <2>2, <3>1
  <2> QED BY <1>3, <2>1, <2>3 DEF Handshake
<1>4. ASSUME NEW d \in Ends, Transfer(d)
      PROVE  /\ UNCHANGED <<id, pin>>
             /\ \A e \in Ends : stage[e] = 3 /\ fate[e] # "mismatch" =>
                                 stage'[e] = 3 /\ fate'[e] # "mismatch"
  <2>1. UNCHANGED <<id, pin, stage>>
    BY <1>4 DEF Transfer, WriteRecord, ReadRest, ReadRecord, hsVars
  <2>2. CASE WriteRecord(d)
    BY <2>1, <2>2 DEF WriteRecord
  <2>3. CASE ReadRest(d) \/ ReadRecord(d)
    <3>1. fate' = [fate EXCEPT ![d] = fate'[d]] /\ fate'[d] # "mismatch"
      BY <2>3, TakeFate DEF ReadRest, ReadRecord, Ready
    <3> QED BY <2>1, <3>1, <1>1
  <2> QED BY <1>4, <2>2, <2>3 DEF Transfer
<1>5. ASSUME NEW d \in Ends, Deadline(d) \/ Leave(d) \/ Vanish(d) \/ Gone(d)
      PROVE  /\ UNCHANGED <<id, pin>>
             /\ \A e \in Ends : stage[e] = 3 /\ fate[e] # "mismatch" =>
                                 stage'[e] = 3 /\ fate'[e] # "mismatch"
  <2>1. PICK how \in {"timeout", "closed", "vanished", "gone"} :
           Ended(d, how) /\ UNCHANGED <<id, pin, stage>>
    BY <1>5 DEF Deadline, Leave, Vanish, Gone, hsVars
  <2> QED BY <2>1, <1>1 DEF Ended, Put
<1> QED BY <1>2, <1>3, <1>4, <1>5 DEF Goes

\* Commands that go on or end while their connection does.
LEMMA CommandsKept ==
  ASSUME PairingInv, Goes, pc' \in [Ends -> Where],
         \A e \in Ends : pc'[e] = pc[e] \/ pc'[e] = "off",
         UNCHANGED <<idFile, pinFile, made, self, known, wipes>>
  PROVE  StoreStep
<1>1. LinkTypeOK /\ StoreType /\ wipes \in Nat
  BY TypeParts DEF PairingInv
<1>2. /\ UNCHANGED <<id, pin>>
      /\ \A e \in Ends : stage[e] = 3 /\ fate[e] # "mismatch" =>
                          stage'[e] = 3 /\ fate'[e] # "mismatch"
  BY <1>1, GoesOn
<1>3. StoreType' /\ wipes' \in Nat
  BY <1>1 DEF StoreType
<1>4. ASSUME NEW e \in Ends PROVE CommandInv(e)'
  BY <1>2 DEF PairingInv, CommandInv, Loaded
<1>5. ASSUME NEW e \in Ends PROVE StoreInv(e)'
  BY <1>2 DEF PairingInv, StoreInv
<1> QED BY <1>3, <1>4, <1>5 DEF StoreStep

\* A command takes a step of its own.
LEMMA StartStep ==
  ASSUME PairingInv, NEW d \in Ends, Start(d)
  PROVE  StoreStep
<1>1. StoreType /\ wipes \in Nat /\ pc' = [pc EXCEPT ![d] = "identity"]
      /\ UNCHANGED <<id, pin, stage, fate, idFile, pinFile, made, self, known, wipes>>
  BY TypeParts DEF PairingInv, Start, Goto, Put, linkVars, hsVars, storeVars
<1>2. StoreType' /\ wipes' \in Nat
  BY <1>1 DEF StoreType, Where
<1>3. ASSUME NEW e \in Ends PROVE CommandInv(e)' /\ StoreInv(e)'
  <2>1. pc'[e] = IF e = d THEN "identity" ELSE pc[e]
    BY <1>1 DEF StoreType
  <2> QED BY <1>1, <2>1 DEF PairingInv, CommandInv, StoreInv, Loaded
<1> QED BY <1>2, <1>3 DEF StoreStep

LEMMA LoadIdentityStep ==
  ASSUME PairingInv, NEW d \in Ends, LoadIdentity(d)
  PROVE  StoreStep
<1>1. /\ StoreType /\ wipes \in Nat /\ idFile[d] \in Keys \cup {Torn}
      /\ pc' = [pc EXCEPT ![d] = IF idFile[d] = Torn THEN "off" ELSE "pin"]
      /\ self' = [self EXCEPT ![d] = IF idFile[d] = Torn THEN @ ELSE idFile[d]]
      /\ UNCHANGED <<id, pin, stage, fate, idFile, pinFile, made, known, wipes>>
  <2>1. StoreType /\ wipes \in Nat
    BY TypeParts DEF PairingInv
  <2> QED BY <2>1 DEF StoreType, LoadIdentity, Goto, Put, linkVars, hsVars, storeVars, counts, Files
<1>2. StoreType' /\ wipes' \in Nat
  BY <1>1 DEF StoreType, Where
<1>3. ASSUME NEW e \in Ends PROVE CommandInv(e)' /\ StoreInv(e)'
  <2>1. /\ pc'[e] = IF e = d THEN (IF idFile[d] = Torn THEN "off" ELSE "pin") ELSE pc[e]
        /\ self'[e] = IF e = d /\ idFile[d] # Torn THEN idFile[d] ELSE self[e]
    BY <1>1 DEF StoreType
  <2> QED BY <1>1, <2>1 DEF PairingInv, CommandInv, StoreInv, Loaded
<1> QED BY <1>2, <1>3 DEF StoreStep

LEMMA GenerateStep ==
  ASSUME PairingInv, NEW d \in Ends, Generate(d)
  PROVE  StoreStep
<1>1. PICK k \in Keys :
         /\ pc' = [pc EXCEPT ![d] = "saving"] /\ self' = [self EXCEPT ![d] = k]
         /\ idFile' = [idFile EXCEPT ![d] = Torn] /\ made' = made \cup {k}
  BY DEF Generate, Goto, Put
<1>2. /\ StoreType /\ wipes \in Nat /\ idFile[d] = None /\ None \notin Keys /\ Torn \notin Keys
      /\ UNCHANGED <<id, pin, stage, fate, pinFile, known, wipes>>
  BY TypeParts, SecureLinkAssumption, PairingAssumption
     DEF PairingInv, Generate, linkVars, hsVars, counts, SecureLinkAssumption, PairingAssumption
<1>3. StoreType' /\ wipes' \in Nat
  BY <1>1, <1>2 DEF StoreType, Where, Files
<1>4. ASSUME NEW e \in Ends
      PROVE  /\ pc'[e] = IF e = d THEN "saving" ELSE pc[e]
             /\ self'[e] = IF e = d THEN k ELSE self[e]
             /\ idFile'[e] = IF e = d THEN Torn ELSE idFile[e]
  BY <1>1, <1>2 DEF StoreType
<1>5. ASSUME NEW e \in Ends PROVE CommandInv(e)'
  BY <1>1, <1>2, <1>4 DEF PairingInv, CommandInv, Loaded
<1>6. ASSUME NEW e \in Ends PROVE StoreInv(e)'
  BY <1>2, <1>4, EndsFacts DEF PairingInv, StoreInv
<1> QED BY <1>3, <1>5, <1>6 DEF StoreStep

LEMMA SaveIdentityStep ==
  ASSUME PairingInv, NEW d \in Ends, SaveIdentity(d)
  PROVE  StoreStep
<1>1. /\ pc' = [pc EXCEPT ![d] = "pin"] /\ idFile' = [idFile EXCEPT ![d] = self[d]]
      /\ pc[d] = "saving" /\ StoreType /\ wipes \in Nat /\ Torn \notin Keys
      /\ UNCHANGED <<id, pin, stage, fate, pinFile, made, self, known, wipes>>
  BY TypeParts, PairingAssumption
     DEF PairingInv, SaveIdentity, Goto, Put, linkVars, hsVars, counts, PairingAssumption
<1>2. self[d] \in Keys /\ idFile[d] = Torn
  BY <1>1 DEF PairingInv, CommandInv
<1>3. StoreType' /\ wipes' \in Nat
  BY <1>1, <1>2 DEF StoreType, Where, Files
<1>4. ASSUME NEW e \in Ends
      PROVE  /\ pc'[e] = IF e = d THEN "pin" ELSE pc[e]
             /\ idFile'[e] = IF e = d THEN self[d] ELSE idFile[e]
  BY <1>1 DEF StoreType
<1>5. ASSUME NEW e \in Ends PROVE CommandInv(e)'
  BY <1>1, <1>2, <1>4 DEF PairingInv, CommandInv, Loaded
<1>6. ASSUME NEW e \in Ends PROVE StoreInv(e)'
  BY <1>1, <1>2, <1>4, EndsFacts DEF PairingInv, StoreInv
<1> QED BY <1>3, <1>5, <1>6 DEF StoreStep

LEMMA LoadPinStep ==
  ASSUME PairingInv, NEW d \in Ends, LoadPin(d)
  PROVE  StoreStep
<1>1. /\ StoreType /\ wipes \in Nat /\ pc[d] = "pin"
      /\ pc' = [pc EXCEPT ![d] = IF pinFile[d] = Torn THEN "off" ELSE "ready"]
      /\ known' = [known EXCEPT ![d] = IF pinFile[d] = Torn THEN @ ELSE pinFile[d]]
      /\ UNCHANGED <<id, pin, stage, fate, idFile, pinFile, made, self, wipes>>
  <2>1. StoreType /\ wipes \in Nat
    BY TypeParts DEF PairingInv
  <2> QED BY <2>1 DEF StoreType, LoadPin, Goto, Put, linkVars, hsVars, storeVars, counts
<1>2. StoreType' /\ wipes' \in Nat
  BY <1>1 DEF StoreType, Where, Files
<1>3. ASSUME NEW e \in Ends
      PROVE  /\ pc'[e] = IF e = d THEN (IF pinFile[d] = Torn THEN "off" ELSE "ready") ELSE pc[e]
             /\ known'[e] = IF e = d /\ pinFile[d] # Torn THEN pinFile[d] ELSE known[e]
  BY <1>1 DEF StoreType
<1>4. ASSUME NEW e \in Ends PROVE CommandInv(e)'
  BY <1>1, <1>3 DEF PairingInv, CommandInv, Loaded
<1>5. ASSUME NEW e \in Ends PROVE StoreInv(e)'
  BY <1>1, <1>3 DEF PairingInv, StoreInv
<1> QED BY <1>2, <1>4, <1>5 DEF StoreStep

LEMMA OpenStep ==
  ASSUME PairingInv, Open
  PROVE  StoreStep
<1>1. /\ StoreType /\ wipes \in Nat /\ \A e \in Ends : pc[e] = "ready"
      /\ id' = self /\ pin' = known /\ pc' = [e \in Ends |-> "link"]
      /\ UNCHANGED <<idFile, pinFile, made, self, known, wipes>>
  BY TypeParts DEF PairingInv, Open, ConnectWith, storeVars, counts
<1>2. StoreType' /\ wipes' \in Nat
  BY <1>1 DEF StoreType, Where
<1>3. ASSUME NEW e \in Ends PROVE CommandInv(e)'
  BY <1>1 DEF PairingInv, CommandInv, Loaded
<1>4. ASSUME NEW e \in Ends PROVE StoreInv(e)'
  <2>1. idFile[e] = self[e]
    BY <1>1 DEF PairingInv, CommandInv, Loaded
  <2> QED BY <1>1, <2>1 DEF PairingInv, StoreInv
<1> QED BY <1>2, <1>3, <1>4 DEF StoreStep

LEMMA ThroughStep ==
  ASSUME PairingInv, NEW d \in Ends, Through(d)
  PROVE  StoreStep
<1>1. /\ StoreType /\ wipes \in Nat /\ pc[d] = "link" /\ stage[d] = 3 /\ fate[d] # "mismatch"
      /\ pc' = [pc EXCEPT ![d] = IF known[d] = None THEN "pinning" ELSE "session"]
      /\ pinFile' = [pinFile EXCEPT ![d] = IF known[d] = None THEN Torn ELSE @]
      /\ UNCHANGED <<id, pin, stage, fate, idFile, made, self, known, wipes>>
      /\ Torn \notin Keys
  <2>1. StoreType /\ wipes \in Nat /\ Torn \notin Keys
    BY TypeParts, PairingAssumption DEF PairingInv, PairingAssumption
  <2> QED BY <2>1 DEF StoreType, Through, Goto, Put, linkVars, hsVars, counts
<1>2. StoreType' /\ wipes' \in Nat
  BY <1>1 DEF StoreType, Where, Files
<1>3. ASSUME NEW e \in Ends
      PROVE  /\ pc'[e] = IF e = d THEN (IF known[d] = None THEN "pinning" ELSE "session")
                         ELSE pc[e]
             /\ pinFile'[e] = IF e = d /\ known[d] = None THEN Torn ELSE pinFile[e]
  BY <1>1 DEF StoreType
<1>4. ASSUME NEW e \in Ends PROVE CommandInv(e)'
  BY <1>1, <1>3 DEF PairingInv, CommandInv, Loaded
<1>5. ASSUME NEW e \in Ends PROVE StoreInv(e)'
  BY <1>1, <1>3 DEF PairingInv, StoreInv
<1> QED BY <1>2, <1>4, <1>5 DEF StoreStep

LEMMA PinPeerStep ==
  ASSUME PairingInv, NEW d \in Ends, PinPeer(d)
  PROVE  StoreStep
<1>1. PICK what \in {peer[d], Torn} : pinFile' = [pinFile EXCEPT ![d] = what]
  BY DEF PinPeer, Put
<1>2. /\ StoreType /\ wipes \in Nat /\ pc[d] = "pinning" /\ pc' = [pc EXCEPT ![d] = "session"]
      /\ UNCHANGED <<id, pin, stage, fate, idFile, made, self, known, wipes>>
      /\ Torn \notin Keys /\ peer[d] \in Keys \cup {None}
  BY TypeParts, PairingAssumption
     DEF PairingInv, PinPeer, Goto, Put, linkVars, hsVars, counts, PairingAssumption, LinkTypeOK
<1>3. stage[d] = 3 /\ fate[d] # "mismatch" /\ peer[d] = id[Peer(d)] /\ Peer(d) \in Ends
  BY <1>2, EndsFacts DEF PairingInv, CommandInv, MetInv, Met
<1>4. StoreType' /\ wipes' \in Nat
  BY <1>1, <1>2 DEF StoreType, Where, Files
<1>5. ASSUME NEW e \in Ends
      PROVE  /\ pc'[e] = IF e = d THEN "session" ELSE pc[e]
             /\ pinFile'[e] = IF e = d THEN what ELSE pinFile[e]
  BY <1>1, <1>2 DEF StoreType
<1>6. ASSUME NEW e \in Ends PROVE CommandInv(e)'
  BY <1>2, <1>3, <1>5 DEF PairingInv, CommandInv, Loaded
<1>7. ASSUME wipes = 0, what \in Keys PROVE what = idFile[Peer(d)]
  BY <1>1, <1>2, <1>3, <1>7 DEF PairingInv, StoreInv
<1>8. ASSUME NEW e \in Ends PROVE StoreInv(e)'
  BY <1>2, <1>5, <1>7 DEF PairingInv, StoreInv
<1> QED BY <1>4, <1>6, <1>8 DEF StoreStep

LEMMA ReturnStep ==
  ASSUME PairingInv, NEW d \in Ends, Return(d)
  PROVE  StoreStep
<1>1. /\ StoreType /\ wipes \in Nat /\ pc[d] \in {"session", "link"}
      /\ pc' = [pc EXCEPT ![d] = IF d = "rsp" THEN "ready" ELSE "off"]
      /\ UNCHANGED <<id, pin, stage, fate, idFile, pinFile, made, self, known, wipes>>
  BY TypeParts DEF PairingInv, Return, Goto, Put, linkVars, hsVars, storeVars, counts
<1>2. StoreType' /\ wipes' \in Nat
  BY <1>1 DEF StoreType, Where
<1>3. ASSUME NEW e \in Ends
      PROVE  pc'[e] = IF e = d THEN (IF d = "rsp" THEN "ready" ELSE "off") ELSE pc[e]
  BY <1>1 DEF StoreType
<1>4. ASSUME NEW e \in Ends PROVE CommandInv(e)' /\ StoreInv(e)'
  BY <1>1, <1>3 DEF PairingInv, CommandInv, StoreInv, Loaded
<1> QED BY <1>2, <1>4 DEF StoreStep

LEMMA WipeStep ==
  ASSUME PairingInv, NEW d \in Ends, Wipe(d)
  PROVE  StoreStep
<1>1. /\ StoreType /\ wipes \in Nat /\ wipes' = wipes + 1 /\ pc[d] = "off"
      /\ idFile' = [idFile EXCEPT ![d] = None] /\ pinFile' = [pinFile EXCEPT ![d] = None]
      /\ UNCHANGED <<id, pin, stage, fate, pc, made, self, known>>
  BY TypeParts DEF PairingInv, Wipe, Put, linkVars, hsVars, procVars
<1>2. StoreType' /\ wipes' \in Nat /\ wipes' # 0
  BY <1>1 DEF StoreType, Files
<1>3. ASSUME NEW e \in Ends PROVE CommandInv(e)'
  <2>1. idFile'[e] = IF e = d THEN None ELSE idFile[e]
    BY <1>1 DEF StoreType
  <2> QED BY <1>1, <2>1 DEF PairingInv, CommandInv, Loaded
<1>4. ASSUME NEW e \in Ends PROVE StoreInv(e)'
  BY <1>2 DEF StoreInv
<1> QED BY <1>2, <1>3, <1>4 DEF StoreStep

\* Commands that only let their connection go on, or are killed.
LEMMA OtherSteps ==
  ASSUME PairingInv,
         \/ Network \/ HangUp \/ UNCHANGED vars
         \/ \E e \in Ends : Session(e) \/ Crash(e) \/ DropOff(e)
  PROVE  StoreStep
<1>1. StoreType /\ pc \in [Ends -> Where] /\ "ini" \in Ends
  BY TypeParts DEF PairingInv, StoreType, Ends
<1>2. Goes
  <2>1. CASE Network
    BY <2>1 DEF Network, Goes
  <2>2. CASE HangUp
    BY <1>1, <2>2 DEF HangUp, Goes
  <2>3. CASE UNCHANGED vars
    BY <2>3 DEF vars, Goes
  <2>4. ASSUME NEW e \in Ends, Session(e) \/ Crash(e) \/ DropOff(e) PROVE Goes
    BY <2>4 DEF Session, Crash, DropOff, Goes
  <2> QED BY <2>1, <2>2, <2>3, <2>4
<1>3. UNCHANGED <<idFile, pinFile, made, self, known, wipes>>
  BY DEF Network, HangUp, Session, Crash, DropOff, vars, storeVars, procVars, counts
<1>4. UNCHANGED pc \/ \E e \in Ends : pc' = [pc EXCEPT ![e] = "off"]
  BY DEF Network, HangUp, Session, Crash, DropOff, vars, procVars, Goto, Put
<1>5. pc' \in [Ends -> Where] /\ \A e \in Ends : pc'[e] = pc[e] \/ pc'[e] = "off"
  <2>1. CASE UNCHANGED pc
    BY <1>1, <2>1
  <2>2. ASSUME NEW d \in Ends, pc' = [pc EXCEPT ![d] = "off"]
        PROVE  pc' \in [Ends -> Where] /\ \A e \in Ends : pc'[e] = pc[e] \/ pc'[e] = "off"
    BY <1>1, <2>2 DEF Where
  <2> QED BY <1>4, <2>1, <2>2
<1> QED BY <1>2, <1>3, <1>5, CommandsKept

LEMMA StoreNext ==
  ASSUME PairingInv, [Next]_vars
  PROVE  StoreStep
<1>1. CASE Open
  BY <1>1, OpenStep
<1>2. CASE Network \/ HangUp \/ UNCHANGED vars
  BY <1>2, OtherSteps
<1>3. ASSUME NEW e \in Ends, Session(e) \/ Crash(e) \/ DropOff(e) PROVE StoreStep
  BY <1>3, OtherSteps
<1>4. ASSUME NEW e \in Ends, Start(e) \/ Wipe(e) PROVE StoreStep
  BY <1>4, StartStep, WipeStep
<1>5. ASSUME NEW e \in Ends, Command(e) PROVE StoreStep
  BY <1>5, LoadIdentityStep, GenerateStep, SaveIdentityStep, LoadPinStep, ThroughStep,
     PinPeerStep, ReturnStep DEF Command
<1> QED BY <1>1, <1>2, <1>3, <1>4, <1>5 DEF Next

\* A step of the machines is a step of the connection, or none of it.
LEMMA LinkOfStep ==
  ASSUME PairingInv, [Next]_vars
  PROVE  [LinkNext]_linkVars
<1>1. CASE Open
  <2>1. self \in [Ends -> Keys \cup {None}] /\ known \in [Ends -> Keys \cup {None}]
    BY TypeParts DEF PairingInv, StoreType
  <2>2. \A e \in Ends : self[e] \in Keys
    BY <1>1 DEF PairingInv, CommandInv, Loaded, Open
  <2>3. self \in [Ends -> Keys]
    BY <2>1, <2>2
  <2>4. ConnectWith(self, known)
    BY <1>1 DEF Open
  <2> QED BY <2>1, <2>3, <2>4 DEF Connect, LinkNext
<1>2. CASE Network
  BY <1>2 DEF Network, LinkNext
<1>3. CASE HangUp
  BY <1>3 DEF HangUp, LinkNext, Ends
<1>4. ASSUME NEW e \in Ends, Session(e) \/ Crash(e) \/ DropOff(e)
      PROVE  [LinkNext]_linkVars
  BY <1>4 DEF Session, Crash, DropOff, LinkNext
<1>5. ASSUME NEW e \in Ends, Start(e) \/ Wipe(e) \/ Command(e)
      PROVE  UNCHANGED linkVars
  BY <1>5 DEF Start, Wipe, Command, LoadIdentity, Generate, SaveIdentity, LoadPin,
     Through, PinPeer, Return
<1>6. CASE UNCHANGED vars
  BY <1>6 DEF vars
<1> QED BY <1>1, <1>2, <1>3, <1>4, <1>5, <1>6 DEF Next

LEMMA PairingStart == Init => PairingInv
<1> SUFFICES ASSUME Init PROVE PairingInv
  OBVIOUS
<1>1. LinkInv /\ MetInv /\ LinkTypeOK
  BY LinkStart, MetStart DEF Init, LinkInv
<1>2. StoreType /\ wipes \in Nat
  BY DEF Init, StoreType, Where, Files
<1>3. ASSUME NEW e \in Ends PROVE CommandInv(e) /\ StoreInv(e)
  <2>1. None \notin Keys
    BY SecureLinkAssumption DEF SecureLinkAssumption
  <2> QED BY <2>1 DEF Init, LinkInit, CommandInv, StoreInv, Loaded
<1> QED BY <1>1, <1>2, <1>3, TypeParts DEF PairingInv

LEMMA PairingStep ==
  ASSUME MaxFrame["ini"] = MaxFrame["rsp"], PairingInv, [Next]_vars
  PROVE  PairingInv'
<1>1. LinkTypeOK /\ LinkInv /\ MetInv /\ [LinkNext]_linkVars
  BY LinkOfStep DEF PairingInv, LinkInv
<1>2. LinkInv' /\ LinkTypeOK'
  BY <1>1, LinkStep DEF LinkInv
<1>3. MetInv'
  BY <1>1, MetStep
<1>4. StoreStep
  BY StoreNext
<1>5. TypeOK'
  BY <1>2, <1>4 DEF StoreStep, StoreType, TypeOK, Where
<1> QED BY <1>2, <1>3, <1>4, <1>5 DEF PairingInv, StoreStep

-----------------------------------------------------------------------------
(* The theorems.                                                           *)

\* The variables hold what the commands, their files and the connection can
\* put there.
THEOREM PairingType ==
  ASSUME MaxFrame["ini"] = MaxFrame["rsp"]
  PROVE  Spec => []TypeOK
<1>1. PairingInv => TypeOK
  BY DEF PairingInv
<1> QED BY <1>1, PairingStart, PairingStep, PTL DEF Spec

\* What serve and ping do to their connections is what SecureLink allows two
\* ends to do: every connection starts with an identity that was loaded.
THEOREM PairingImplementsLink ==
  ASSUME MaxFrame["ini"] = MaxFrame["rsp"]
  PROVE  Spec => LinkSpec
<1>1. Init => LinkInit
  BY DEF Init
<1> QED BY <1>1, PairingStart, PairingStep, LinkOfStep, PTL DEF Spec, LinkSpec

\* However often the two commands start, end, are killed or meet a torn file,
\* no record and no frame of theirs is refused (SecureConn.Read, ReadFrame).
THEOREM MachinesNeverRefuse ==
  ASSUME MaxFrame["ini"] = MaxFrame["rsp"]
  PROVE  Spec => []NothingRefused
<1> QED BY PairingImplementsLink, NeverRefused, PTL

\* Their sessions read the frames that were written, whole and in order.
THEOREM MachinesReadInOrder ==
  ASSUME MaxFrame["ini"] = MaxFrame["rsp"]
  PROVE  Spec => []FramesInOrder
<1> QED BY PairingImplementsLink, InOrder, PTL

\* A machine that holds a pin has sessions with the owner of that key only,
\* and unless a key directory is deleted nobody is refused for a pin: for any
\* number of keys, starts and crashes, the identity a peer can have pinned is
\* the one on file (Store.Identity, Store.PinPeer, Handshake).
THEOREM PairingIsKept ==
  ASSUME MaxFrame["ini"] = MaxFrame["rsp"]
  PROVE  Spec => []PairingHolds
<1>1. PairingInv => PairingHolds
  <2> SUFFICES ASSUME PairingInv PROVE PairingHolds
    OBVIOUS
  <2>1. ASSUME NEW e \in Ends, pc[e] = "session", known[e] # None
        PROVE  id[Peer(e)] = known[e]
    <3>1. stage[e] = 3 /\ fate[e] # "mismatch" /\ pin[e] = known[e]
      BY <2>1 DEF PairingInv, CommandInv
    <3>2. peer[e] = id[Peer(e)] /\ pin[e] \in {None, peer[e]}
      BY <3>1 DEF PairingInv, MetInv, Met
    <3> QED BY <2>1, <3>1, <3>2
  <2>2. ASSUME wipes = 0, NEW e \in Ends, fate[e] = "mismatch"
        PROVE  FALSE
    <3>1. /\ peer[e] = id[Peer(e)] /\ pin[e] \notin {None, peer[e]}
          /\ id \in [Ends -> Keys] /\ Peer(e) \in Ends
      BY <2>2, EndsFacts DEF PairingInv, MetInv, Met
    <3>2. pin[e] \in Keys
      BY <3>1 DEF PairingInv, LinkInv, LinkTypeOK
    <3>3. pin[e] = idFile[Peer(e)] /\ idFile[Peer(e)] = id[Peer(e)]
      BY <2>2, <3>1, <3>2 DEF PairingInv, StoreInv
    <3> QED BY <3>1, <3>3
  <2> QED BY <2>1, <2>2 DEF PairingHolds
<1> QED BY <1>1, PairingStart, PairingStep, PTL DEF Spec
=============================================================================
