--------------------------- MODULE MuxFlowProofs ---------------------------
(***************************************************************************)
(* Proofs about what the streams of module Mux carry: an id names one      *)
(* stream; the units of a window are never more than the window and, while *)
(* both sessions live, never fewer; the data an io.EOF stands for has all  *)
(* been read; and both directions of stream 1 implement FlowControl.       *)
(***************************************************************************)
EXTENDS MuxFlow, MuxProofs, FiniteSetTheorems

-----------------------------------------------------------------------------
(* The units on a connection.                                              *)

Carries(f, flag, i) == f.flag = flag /\ f.id = i
Load(f, flag, i) == IF Carries(f, flag, i) THEN f.n ELSE 0

\* The units of one frame.
Units(k, f, flag, i) == {k} \X (1 .. Load(f, flag, i))

LEMMA UnitsCount ==
  ASSUME NEW k, NEW f \in Frames, NEW flag, NEW i
  PROVE  /\ IsFiniteSet(Units(k, f, flag, i))
         /\ Cardinality(Units(k, f, flag, i)) = Load(f, flag, i)
<1>1. Load(f, flag, i) \in Nat
  BY FrameFields DEF Load
<1>2. IsFiniteSet(1 .. Load(f, flag, i)) /\ Cardinality(1 .. Load(f, flag, i)) = Load(f, flag, i)
  BY <1>1, FS_Interval
<1>3. IsFiniteSet({k}) /\ Cardinality({k}) = 1
  BY FS_Singleton
<1> DEFINE n == Load(f, flag, i)
           One == {k}
           All == 1 .. n
<1>4. One \X All = Units(k, f, flag, i)
  BY DEF Units
<1> HIDE DEF n, One, All
<1>5. IsFiniteSet(One \X All) /\ Cardinality(One \X All) = Cardinality(One) * Cardinality(All)
  <2>1. IsFiniteSet(One) /\ IsFiniteSet(All)
    BY <1>2, <1>3 DEF One, All, n
  <2> QED BY ONLY <2>1, FS_Product
<1>6. Cardinality(One) = 1 /\ Cardinality(All) = n
  BY <1>2, <1>3 DEF One, All, n
<1>7. n \in Nat
  BY <1>1 DEF n
<1>8. 1 * n = n
  BY ONLY <1>7
<1>9. IsFiniteSet(Units(k, f, flag, i)) /\ Cardinality(Units(k, f, flag, i)) = n
  BY ONLY <1>4, <1>5, <1>6, <1>8
<1> QED BY <1>9 DEF n

LEMMA WireUnits ==
  ASSUME NEW s \in Seq(Frames), NEW flag, NEW i
  PROVE  \A p : p \in OnWire(s, flag, i) <=>
            \E k \in 1 .. Len(s) : p \in Units(k, s[k], flag, i)
<1> SUFFICES ASSUME NEW p
             PROVE  p \in OnWire(s, flag, i) <=>
                      \E k \in 1 .. Len(s) : p \in Units(k, s[k], flag, i)
  OBVIOUS
<1>1. DOMAIN s = 1 .. Len(s)
  OBVIOUS
<1>2. ASSUME NEW k \in 1 .. Len(s)
      PROVE  p \in Units(k, s[k], flag, i)
                <=> s[k].flag = flag /\ s[k].id = i /\ p \in {k} \X (1 .. s[k].n)
  <2>1. CASE Carries(s[k], flag, i)
    BY <2>1 DEF Units, Load, Carries
  <2>2. CASE ~Carries(s[k], flag, i)
    BY <2>2 DEF Units, Load, Carries
  <2> QED BY <2>1, <2>2
<1> QED BY <1>1, <1>2 DEF OnWire

LEMMA WireFinite ==
  ASSUME NEW s \in Seq(Frames), NEW flag, NEW i
  PROVE  IsFiniteSet(OnWire(s, flag, i)) /\ Cardinality(OnWire(s, flag, i)) \in Nat
<1> DEFINE F == [k \in 1 .. Len(s) |-> Units(k, s[k], flag, i)]
           T == {Units(k, s[k], flag, i) : k \in 1 .. Len(s)}
<1>1. IsFiniteSet(1 .. Len(s))
  BY FS_Interval
<1>2. F \in Surjection(1 .. Len(s), T)
  BY DEF Surjection
<1>3. IsFiniteSet(T)
  <2> HIDE DEF F, T
  <2> QED BY <1>1, <1>2, FS_Surjection
<1>4. \A U \in T : IsFiniteSet(U)
  BY UnitsCount
<1>5. IsFiniteSet(UNION T)
  <2> HIDE DEF T
  <2> QED BY <1>3, <1>4, FS_UNION
<1>6. OnWire(s, flag, i) = UNION T
  <2>1. \A p : p \in OnWire(s, flag, i) <=> p \in UNION T
    BY WireUnits
  <2> QED BY <2>1
<1> QED BY <1>5, <1>6, FS_CardinalityType

Count(s, flag, i) == Cardinality(OnWire(s, flag, i))

LEMMA CountEmpty ==
  ASSUME NEW flag, NEW i
  PROVE  Count(<<>>, flag, i) = 0
<1> DEFINE s == <<>>
<1>1. s \in Seq(Frames) /\ 1 .. Len(s) = {}
  OBVIOUS
<1> HIDE DEF s
<1>2. \A p : p \notin OnWire(s, flag, i)
  BY <1>1, WireUnits
<1>3. OnWire(s, flag, i) = {}
  BY <1>2
<1> QED BY <1>3, FS_EmptySet DEF Count, s

LEMMA CountAppend ==
  ASSUME NEW s \in Seq(Frames), NEW f \in Frames, NEW flag, NEW i
  PROVE  Count(Append(s, f), flag, i) = Count(s, flag, i) + Load(f, flag, i)
<1> DEFINE t == Append(s, f)
           n == Len(s) + 1
           A == OnWire(s, flag, i)
           B == Units(n, f, flag, i)
<1>1. /\ t \in Seq(Frames) /\ Len(t) = n /\ t[n] = f /\ Len(s) \in Nat
      /\ \A k \in 1 .. Len(s) : t[k] = s[k]
  OBVIOUS
<1>2. \A k : k \in 1 .. n <=> k \in 1 .. Len(s) \/ k = n
  BY <1>1
<1> HIDE DEF t, n
<1>3. OnWire(t, flag, i) = A \cup B
  <2>1. \A p : p \in OnWire(t, flag, i) <=> p \in A \cup B
    <3> SUFFICES ASSUME NEW p PROVE p \in OnWire(t, flag, i) <=> p \in A \cup B
      OBVIOUS
    <3>1. p \in OnWire(t, flag, i) <=> \E k \in 1 .. n : p \in Units(k, t[k], flag, i)
      BY <1>1, WireUnits
    <3>2. p \in A <=> \E k \in 1 .. Len(s) : p \in Units(k, s[k], flag, i)
      BY WireUnits
    <3> HIDE DEF A
    <3> QED BY <3>1, <3>2, <1>1, <1>2
  <2> HIDE DEF A, B
  <2> QED BY <2>1
<1>4. A \cap B = {}
  <2> SUFFICES ASSUME NEW p, p \in A, p \in B PROVE FALSE
    BY DEF A, B
  <2>1. PICK k \in 1 .. Len(s) : p \in Units(k, s[k], flag, i)
    BY WireUnits
  <2>2. p[1] = k /\ p[1] = n
    BY <2>1 DEF Units
  <2> QED BY <2>1, <2>2, <1>1 DEF n
<1>5. /\ IsFiniteSet(A) /\ Cardinality(A) \in Nat
      /\ IsFiniteSet(B) /\ Cardinality(B) = Load(f, flag, i) /\ Cardinality(B) \in Nat
  <2>1. Load(f, flag, i) \in Nat
    BY FrameFields DEF Load
  <2> QED BY <2>1, WireFinite, UnitsCount
<1>6. Cardinality(A \cup B) = Cardinality(A) + Cardinality(B)
  <2> HIDE DEF A, B
  <2>1. Cardinality(A \cup B) = Cardinality(A) + Cardinality(B) - Cardinality(A \cap B)
    BY <1>5, FS_Union
  <2>2. Cardinality(A \cap B) = 0
    BY <1>4, FS_EmptySet
  <2> QED BY <2>1, <2>2, <1>5
<1> QED BY <1>3, <1>5, <1>6 DEF Count, t

\* The units of the first frame, and those of the rest, one place earlier.
LEMMA CountTail ==
  ASSUME NEW s \in Seq(Frames), s # <<>>, NEW flag, NEW i
  PROVE  Count(s, flag, i) = Count(Tail(s), flag, i) + Load(Head(s), flag, i)
<1> DEFINE t == Tail(s)
           f == Head(s)
           A == OnWire(t, flag, i)
           R == {p \in OnWire(s, flag, i) : p[1] # 1}
           B == Units(1, f, flag, i)
<1>1. /\ t \in Seq(Frames) /\ Len(s) = Len(t) + 1 /\ s[1] = f /\ Len(t) \in Nat
      /\ \A k \in 1 .. Len(t) : t[k] = s[k + 1]
      /\ f \in Frames
  OBVIOUS
<1> HIDE DEF t, f
<1>2. \A p : p \in R <=> \E k \in 1 .. Len(t) : p \in Units(k + 1, t[k], flag, i)
  <2> SUFFICES ASSUME NEW p
               PROVE  p \in R <=> \E k \in 1 .. Len(t) : p \in Units(k + 1, t[k], flag, i)
    OBVIOUS
  <2>1. p \in OnWire(s, flag, i) <=> \E k \in 1 .. Len(s) : p \in Units(k, s[k], flag, i)
    BY WireUnits
  <2>2. ASSUME p \in R PROVE \E k \in 1 .. Len(t) : p \in Units(k + 1, t[k], flag, i)
    <3>1. PICK k \in 1 .. Len(s) : p \in Units(k, s[k], flag, i)
      BY <2>1, <2>2
    <3>2. p[1] = k /\ k # 1
      BY <2>2, <3>1 DEF Units
    <3>3. k - 1 \in 1 .. Len(t) /\ (k - 1) + 1 = k
      BY <3>2, <1>1
    <3>4. t[k - 1] = s[k]
      BY <3>3, <1>1
    <3> QED BY <3>1, <3>3, <3>4
  <2>3. ASSUME NEW k \in 1 .. Len(t), p \in Units(k + 1, t[k], flag, i) PROVE p \in R
    <3>1. k + 1 \in 1 .. Len(s) /\ t[k] = s[k + 1] /\ k + 1 # 1
      BY <1>1
    <3>2. p[1] = k + 1
      BY <2>3 DEF Units
    <3> QED BY <2>1, <2>3, <3>1, <3>2
  <2> HIDE DEF R
  <2> QED BY <2>2, <2>3
<1>3. OnWire(s, flag, i) = R \cup B /\ R \cap B = {}
  <2>1. \A p : p \in B => p \in OnWire(s, flag, i) /\ p[1] = 1
    <3> SUFFICES ASSUME NEW p, p \in B PROVE p \in OnWire(s, flag, i) /\ p[1] = 1
      BY DEF B
    <3>1. p[1] = 1 /\ 1 \in 1 .. Len(s)
      BY <1>1 DEF Units
    <3> QED BY <3>1, <1>1, WireUnits
  <2>2. \A p : p \in OnWire(s, flag, i) => p \in R \/ p \in B
    <3> SUFFICES ASSUME NEW p, p \in OnWire(s, flag, i), p \notin R PROVE p \in B
      BY DEF R, B
    <3>1. PICK k \in 1 .. Len(s) : p \in Units(k, s[k], flag, i)
      BY WireUnits
    <3>2. p[1] = k
      BY <3>1 DEF Units
    <3> QED BY <3>1, <3>2, <1>1
  <2> HIDE DEF B
  <2> QED BY <2>1, <2>2
<1>4. ExistsBijection(A, R)
  <2> DEFINE Shift == [p \in A |-> <<p[1] + 1, p[2]>>]
  <2>1. \A p \in A : \E k \in 1 .. Len(t) : p \in Units(k, t[k], flag, i)
    BY <1>1, WireUnits
  <2>2. ASSUME NEW p \in A PROVE Shift[p] \in R /\ p[1] \in Nat /\ p = <<p[1], p[2]>>
    <3>1. PICK k \in 1 .. Len(t) : p \in Units(k, t[k], flag, i)
      BY <2>1
    <3>4. p \in {k} \X (1 .. Load(t[k], flag, i))
      BY <3>1 DEF Units
    <3>2. p[1] = k /\ p = <<p[1], p[2]>> /\ p[2] \in 1 .. Load(t[k], flag, i)
      BY <3>4
    <3>3. <<k + 1, p[2]>> \in Units(k + 1, t[k], flag, i)
      BY <3>2 DEF Units
    <3>5. Shift[p] = <<p[1] + 1, p[2]>>
      OBVIOUS
    <3>6. Shift[p] = <<k + 1, p[2]>>
      BY <3>2, <3>5
    <3> HIDE DEF R, A, Shift
    <3>7. <<k + 1, p[2]>> \in R
      BY <3>3, <1>2
    <3> QED BY <3>2, <3>6, <3>7
  <2>3. Shift \in [A -> R]
    <3> HIDE DEF R, A
    <3> QED BY <2>2
  <2>4. \A p, r \in A : Shift[p] = Shift[r] => p = r
    <3> SUFFICES ASSUME NEW p \in A, NEW r \in A, Shift[p] = Shift[r] PROVE p = r
      BY DEF Shift
    <3>1. p[1] + 1 = r[1] + 1 /\ p[2] = r[2]
      <4> HIDE DEF A
      <4> QED OBVIOUS
    <3>2. p[1] \in Nat /\ r[1] \in Nat /\ p = <<p[1], p[2]>> /\ r = <<r[1], r[2]>>
      <4> HIDE DEF R, A
      <4> QED BY <2>2
    <3> QED BY <3>1, <3>2
  <2>5. \A r \in R : \E p \in A : Shift[p] = r
    <3> SUFFICES ASSUME NEW r \in R PROVE \E p \in A : Shift[p] = r
      OBVIOUS
    <3>1. PICK k \in 1 .. Len(t) : r \in Units(k + 1, t[k], flag, i)
      <4> HIDE DEF R
      <4> QED BY <1>2
    <3>2. r = <<k + 1, r[2]>> /\ r[2] \in 1 .. Load(t[k], flag, i)
      BY <3>1 DEF Units
    <3>3. <<k, r[2]>> \in Units(k, t[k], flag, i)
      BY <3>2 DEF Units
    <3>4. <<k, r[2]>> \in A
      BY <3>3, <1>1, WireUnits
    <3>5. Shift[<<k, r[2]>>] = <<k + 1, r[2]>>
      <4> HIDE DEF A
      <4> QED BY <3>4
    <3> QED BY <3>2, <3>4, <3>5
  <2> HIDE DEF Shift, A, R
  <2>6. Shift \in Bijection(A, R)
    BY <2>3, <2>4, <2>5 DEF Bijection, Injection, Surjection, IsInjective
  <2> QED BY <2>6 DEF ExistsBijection
<1>5. /\ IsFiniteSet(A) /\ Cardinality(A) \in Nat
      /\ IsFiniteSet(B) /\ Cardinality(B) = Load(f, flag, i) /\ Cardinality(B) \in Nat
  <2>1. Load(f, flag, i) \in Nat
    BY <1>1, FrameFields DEF Load
  <2> QED BY <2>1, <1>1, WireFinite, UnitsCount
<1>6. Cardinality(R \cup B) = Cardinality(A) + Cardinality(B)
  <2> HIDE DEF A, B, R
  <2>1. IsFiniteSet(R) /\ Cardinality(R) = Cardinality(A)
    BY <1>4, <1>5, FS_Bijection
  <2>2. Cardinality(R \cup B) = Cardinality(R) + Cardinality(B) - Cardinality(R \cap B)
    BY <1>5, <2>1, FS_Union
  <2>3. Cardinality(R \cap B) = 0
    BY <1>3, FS_EmptySet
  <2> QED BY <2>1, <2>2, <2>3, <1>5
<1> QED BY <1>3, <1>5, <1>6 DEF Count, t, f

\* What a prefix carries; all there is, if what is cut off carries nothing.
LEMMA CountPrefix ==
  ASSUME NEW s \in Seq(Frames), NEW m \in 0 .. Len(s), NEW flag, NEW i
  PROVE  LET t == SubSeq(s, 1, m)
         IN  /\ Count(t, flag, i) <= Count(s, flag, i)
             /\ (\A k \in 1 .. Len(s) : k > m => ~Carries(s[k], flag, i))
                  => Count(t, flag, i) = Count(s, flag, i)
<1> DEFINE t == SubSeq(s, 1, m)
           A == OnWire(t, flag, i)
           B == OnWire(s, flag, i)
<1>1. /\ t \in Seq(Frames) /\ Len(t) = m /\ m \in Nat /\ m <= Len(s)
      /\ \A k \in 1 .. m : t[k] = s[k] /\ k \in 1 .. Len(s)
  OBVIOUS
<1> HIDE DEF t
<1>2. A \subseteq B
  <2> SUFFICES ASSUME NEW p \in A PROVE p \in B
    OBVIOUS
  <2>1. PICK k \in 1 .. m : p \in Units(k, t[k], flag, i)
    BY <1>1, WireUnits
  <2>2. p \in Units(k, s[k], flag, i) /\ k \in 1 .. Len(s)
    BY <2>1, <1>1
  <2> QED BY <2>2, WireUnits
<1>3. ASSUME \A k \in 1 .. Len(s) : k > m => ~Carries(s[k], flag, i)
      PROVE  B \subseteq A
  <2> SUFFICES ASSUME NEW p \in B PROVE p \in A
    OBVIOUS
  <2>1. PICK k \in 1 .. Len(s) : p \in Units(k, s[k], flag, i)
    BY WireUnits
  <2>2. Carries(s[k], flag, i)
    BY <2>1 DEF Units, Load
  <2>3. k \in 1 .. m
    BY <1>1, <1>3, <2>2
  <2>4. p \in Units(k, t[k], flag, i)
    BY <1>1, <2>1, <2>3
  <2> QED BY <2>3, <2>4, <1>1, WireUnits
<1>4. IsFiniteSet(B)
  BY WireFinite
<1> HIDE DEF A, B
<1>5. Cardinality(A) <= Cardinality(B)
  BY <1>2, <1>4, FS_Subset
<1>6. ASSUME \A k \in 1 .. Len(s) : k > m => ~Carries(s[k], flag, i) PROVE A = B
  BY <1>2, <1>3, <1>6
<1> QED BY <1>5, <1>6 DEF Count, A, B, t

LEMMA CountNothing ==
  ASSUME NEW s \in Seq(Frames), NEW flag, NEW i,
         \A k \in 1 .. Len(s) : ~Carries(s[k], flag, i)
  PROVE  Count(s, flag, i) = 0
<1>1. \A k \in 1 .. Len(s) : Units(k, s[k], flag, i) = {}
  BY DEF Units, Load
<1>2. OnWire(s, flag, i) = {}
  <2>1. \A p : p \notin OnWire(s, flag, i)
    BY <1>1, WireUnits
  <2> QED BY <2>1
<1> QED BY <1>2, FS_EmptySet DEF Count
-----------------------------------------------------------------------------
(* What a step does to one stream, seen from one end.                      *)

\* Nothing is written, read, framed, credited or closed.
Quiet(e, i) ==
    /\ sendWin'[e][i] = sendWin[e][i] /\ buf'[e][i] = buf[e][i]
    /\ wr'[e][i] = wr[e][i] /\ sent'[e][i] = sent[e][i]
    /\ rd'[e][i] = rd[e][i] /\ got'[e][i] = got[e][i]
    /\ rend'[e][i] = rend[e][i] /\ cl'[e][i] = cl[e][i]
    /\ i \in finRecv'[e] <=> i \in finRecv[e]
    /\ i \in finSent'[e] <=> i \in finSent[e]

counters == <<sendWin, buf, writeVars, readVars, cl, finRecv, finSent>>

\* newStream for the stream itself.
Begins(e, i) ==
    /\ \/ OpenRegister(e) /\ i = nextID[e]
       \/ RlRegister(e) /\ i = rl[e].id /\ i \notin live[e]
    /\ NewStream(e, i)
    /\ UNCHANGED <<writeVars, readVars, cl>>

\* A frame for the stream is handled.
Handles(e, i) == Receive(e) /\ Head(link[e]).id = i /\ i \in live[e]

\* g differs from f at e and j only.
Alters(f, g, e, j) == g = f \/ \E v : g = [f EXCEPT ![e][j] = v]

PerStreamTable(f) == \E S : f \in [Ends -> [Ids -> S]]

LEMMA Elsewhere ==
  ASSUME NEW f, PerStreamTable(f), NEW e \in Ends, NEW j \in Ids, NEW g,
         Alters(f, g, e, j),
         NEW d \in Ends, NEW i \in Ids, e # d \/ i # j
  PROVE  g[d][i] = f[d][i]
<1>0. PICK S : f \in [Ends -> [Ids -> S]]
  BY DEF PerStreamTable
<1>1. ASSUME NEW v, g = [f EXCEPT ![e][j] = v] PROVE g[d][i] = f[d][i]
  <2>1. CASE e # d
    BY <1>0, <1>1, <2>1
  <2>2. CASE e = d /\ i # j
    BY <1>0, <1>1, <2>2
  <2> QED BY <2>1, <2>2
<1> QED BY <1>1 DEF Alters

LEMMA Locally ==
  ASSUME TypeOK, [Next]_vars, NEW d \in Ends, NEW i \in Ids
  PROVE  \/ Quiet(d, i) \/ Begins(d, i) \/ Handles(d, i)
         \/ Reading(d, i) \/ Write(d, i) \/ Close(d, i)
<1> DEFINE Goal == \/ Quiet(d, i) \/ Begins(d, i) \/ Handles(d, i)
                   \/ Reading(d, i) \/ Write(d, i) \/ Close(d, i)
<1> SUFFICES Goal
  OBVIOUS
<1>t. /\ PerStreamTable(sendWin) /\ PerStreamTable(buf) /\ PerStreamTable(wr)
      /\ PerStreamTable(sent) /\ PerStreamTable(rd) /\ PerStreamTable(got)
      /\ PerStreamTable(rend) /\ PerStreamTable(cl)
  BY DEF PerStreamTable, TypeOK, StrType, AppType
<1>1. ASSUME UNCHANGED counters PROVE Goal
  BY <1>1 DEF Quiet, counters, writeVars, readVars
<1>2. ASSUME NEW e \in Ends, NEW j, NewStream(e, j), e # d \/ i # j,
             UNCHANGED <<writeVars, readVars, cl>>
      PROVE  Quiet(d, i)
  <2>1. sendWin'[d][i] = sendWin[d][i] /\ buf'[d][i] = buf[d][i]
    BY <1>2 DEF NewStream, TypeOK, StrType
  <2>2. (i \in finRecv'[d] <=> i \in finRecv[d]) /\ (i \in finSent'[d] <=> i \in finSent[d])
    BY <1>2, NewStreamFlags
  <2> QED BY <1>2, <2>1, <2>2 DEF Quiet, writeVars, readVars
<1>3. ASSUME NEW e \in Ends, OpenRegister(e) PROVE Goal
  <2>1. NewStream(e, nextID[e]) /\ UNCHANGED <<writeVars, readVars, cl>>
    BY <1>3 DEF OpenRegister
  <2>2. CASE e = d /\ i = nextID[e]
    BY <1>3, <2>1, <2>2 DEF Begins
  <2> QED BY <1>2, <2>1, <2>2
<1>4. ASSUME NEW e \in Ends, RlRegister(e) PROVE Goal
  <2>1. UNCHANGED <<writeVars, readVars, cl>>
    BY <1>4 DEF RlRegister, appVars
  <2>2. CASE UNCHANGED strVars
    BY <1>1, <2>1, <2>2 DEF counters, strVars, flags
  <2>3. CASE NewStream(e, rl[e].id) /\ rl[e].id \notin live[e]
    <3>1. CASE e = d /\ i = rl[e].id
      BY <1>4, <2>1, <2>3, <3>1 DEF Begins
    <3> QED BY <1>2, <2>1, <2>3, <3>1
  <2> QED BY <1>4, <2>2, <2>3 DEF RlRegister
<1>5. ASSUME NEW e \in Ends, Receive(e) PROVE Goal
  <2> DEFINE f == Head(link[e])
  <2>1. UNCHANGED <<writeVars, readVars, cl>>
    BY <1>5 DEF Receive, appVars
  <2>2. f \in Frames
    BY <1>5, HeadType DEF Receive
  <2>3. \/ UNCHANGED <<sendWin, buf, finRecv, finSent>>
        \/ /\ f.id \in live[e]
           /\ sendWin' = sendWin \/ sendWin' = [sendWin EXCEPT ![e][f.id] = @ + f.n]
           /\ buf' = buf \/ buf' = [buf EXCEPT ![e][f.id] = @ + f.n]
           /\ finRecv' = finRecv \/ finRecv' = Set(finRecv, e, f.id)
           /\ finSent' = finSent
    BY <1>5 DEF Receive, RecvSYN, RecvDATA, RecvFIN, RecvRST, RecvWIN, RecvGOAWAY,
       strVars, flags
  <2> HIDE DEF f
  <2>4. CASE UNCHANGED <<sendWin, buf, finRecv, finSent>>
    BY <1>1, <2>1, <2>4 DEF counters
  <2>5. CASE e # d \/ i # f.id
    <3>1. sendWin'[d][i] = sendWin[d][i]
      BY <2>3, <2>5 DEF TypeOK, StrType
    <3>2. buf'[d][i] = buf[d][i]
      BY <2>3, <2>5 DEF TypeOK, StrType
    <3>3. (i \in finRecv'[d] <=> i \in finRecv[d]) /\ finSent' = finSent
      BY <2>3, <2>5 DEF Set, TypeOK, StrType
    <3> QED BY <2>1, <3>1, <3>2, <3>3 DEF Quiet, writeVars, readVars
  <2>6. CASE e = d /\ i = f.id /\ f.id \in live[e]
    BY <1>5, <2>6 DEF Handles, f
  <2> QED BY <2>3, <2>4, <2>5, <2>6
<1>6. ASSUME NEW e \in Ends, NEW j \in Ids, e # d \/ i # j, Reading(e, j) PROVE Quiet(d, i)
  <2>1. UNCHANGED <<sendWin, finRecv, finSent, wr, sent, cl>>
    BY <1>6, StreamFootprint DEF ReadKeeps, flags, writeVars
  <2>2. /\ Alters(buf, buf', e, j)
        /\ Alters(rd, rd', e, j)
        /\ Alters(got, got', e, j)
        /\ Alters(rend, rend', e, j)
    BY <1>6 DEF Alters, Reading, ReadData, ReadCredit, ReadEnd, strVars, readVars
  <2>3. buf'[d][i] = buf[d][i]
    BY <1>6, <1>t, <2>2, Elsewhere
  <2>4. rd'[d][i] = rd[d][i]
    BY <1>6, <1>t, <2>2, Elsewhere
  <2>5. got'[d][i] = got[d][i]
    BY <1>6, <1>t, <2>2, Elsewhere
  <2>6. rend'[d][i] = rend[d][i]
    BY <1>6, <1>t, <2>2, Elsewhere
  <2> QED BY <2>1, <2>3, <2>4, <2>5, <2>6 DEF Quiet
<1>7. ASSUME NEW e \in Ends, NEW j \in Ids, e # d \/ i # j, Write(e, j) PROVE Quiet(d, i)
  <2>1. UNCHANGED <<buf, finRecv, finSent, rd, got, rend, cl>>
    BY <1>7, StreamFootprint DEF WriteKeeps, flags, readVars
  <2>2. /\ Alters(sendWin, sendWin', e, j)
        /\ Alters(wr, wr', e, j)
        /\ Alters(sent, sent', e, j)
    BY <1>7 DEF Alters, Write, WriteTake, WriteSend, WriteError, strVars
  <2>3. sendWin'[d][i] = sendWin[d][i]
    BY <1>7, <1>t, <2>2, Elsewhere
  <2>4. wr'[d][i] = wr[d][i]
    BY <1>7, <1>t, <2>2, Elsewhere
  <2>5. sent'[d][i] = sent[d][i]
    BY <1>7, <1>t, <2>2, Elsewhere
  <2> QED BY <2>1, <2>3, <2>4, <2>5 DEF Quiet
<1>8. ASSUME NEW e \in Ends, NEW j \in Ids, e # d \/ i # j, Close(e, j) PROVE Quiet(d, i)
  <2>1. UNCHANGED <<sendWin, buf, finRecv, wr, sent, rd, got, rend>>
    BY <1>8, StreamFootprint DEF CloseKeeps, writeVars, readVars
  <2>2. /\ Alters(cl, cl', e, j)
        /\ finSent' = finSent \/ finSent' = Set(finSent, e, j)
    BY <1>8 DEF Alters, Close, StreamClose, StreamCloseRetire, StreamCloseSend, strVars, flags
  <2>3. cl'[d][i] = cl[d][i]
    BY <1>8, <1>t, <2>2, Elsewhere
  <2>4. i \in finSent'[d] <=> i \in finSent[d]
    <3>1. CASE finSent' = finSent
      BY <3>1
    <3>2. CASE finSent' = Set(finSent, e, j)
      <4>1. finSent'[d] = IF d = e THEN finSent[d] \cup {j} ELSE finSent[d]
        BY <3>2 DEF Set, TypeOK, StrType
      <4> QED BY <1>8, <4>1
    <3> QED BY <2>2, <3>1, <3>2
  <2> QED BY <2>1, <2>3, <2>4 DEF Quiet
<1>9. ASSUME NEW e \in Ends, NEW j \in Ids, Reading(e, j) \/ Write(e, j) \/ Close(e, j)
      PROVE  Goal
  BY <1>6, <1>7, <1>8, <1>9
<1>10. ASSUME NEW e \in Ends, ReadLoop(e) \/ TearDown(e) PROVE Goal
  <2>1. ASSUME TearDown(e) PROVE Goal
    BY <1>1, <2>1, TearFootprint DEF TearKeeps, counters, appVars
  <2>2. ASSUME ReceiveFails(e) \/ RlOffer(e) \/ RlReset(e) \/ RlRetire(e) \/ RlAbort(e)
        PROVE  Goal
    BY <1>1, <2>2 DEF ReceiveFails, RlOffer, RlReset, RlRetire, RlAbort, counters, appVars,
       strVars, flags
  <2> HIDE DEF Goal
  <2> QED BY <1>4, <1>5, <1>10, <2>1, <2>2 DEF ReadLoop
<1>11. ASSUME NEW e \in Ends, Accept(e) \/ SessionEnds(e) PROVE Goal
  BY <1>1, <1>11 DEF Accept, SessionEnds, SessionClose, KeepAliveCloses, counters, appVars, strVars, flags
<1>12. ASSUME NEW e \in Ends, NEW j \in Ids, OpenSend(e, j) PROVE Goal
  BY <1>1, <1>12 DEF OpenSend, counters, flags
<1>13. CASE LinkDrop \/ UNCHANGED vars
  BY <1>1, <1>13 DEF LinkDrop, vars, counters, appVars, strVars, flags
<1> HIDE DEF Goal
<1> QED
  BY <1>3, <1>9, <1>10, <1>11, <1>12, <1>13 DEF Next
-----------------------------------------------------------------------------
(* What a step does to the frames on their way to one end.                 *)

\* Who sends a frame.
Origin(e, f) ==
    \/ f.flag = "SYN" /\ OpenSend(e, f.id) /\ f.id \in opening[e]
    \/ f.flag = "WIN" /\ ReadCredit(e, f.id) /\ f.n = rd[e][f.id] /\ f.n > 0
    \/ f.flag = "DATA" /\ WriteSend(e, f.id) /\ f.n = wr[e][f.id] /\ f.n > 0
    \/ f.flag = "FIN" /\ StreamCloseSend(e, f.id) /\ cl[e][f.id] = "fin"
    \/ f.flag = "RST" /\ RlAbort(e) /\ f.id = rl[e].id /\ rl[e].pc = "rst"
    \/ f.flag = "GOAWAY" /\ f.id = 0 /\ TearGoaway(e)

\* A frame is added, the first one is taken, or the tail is lost with the
\* connection.
Added(d, f) == /\ Origin(Peer(d), f) /\ up /\ d \in conn
               /\ link'[d] = Append(link[d], f)
Taken(d) == Receive(d) /\ link[d] # <<>> /\ link'[d] = Tail(link[d])
Cut(d) == /\ LinkDrop \/ TearConn(d)
          /\ \E m \in 0 .. Len(link[d]) : link'[d] = SubSeq(link[d], 1, m)

LEMMA Wire ==
  ASSUME TypeOK, [Next]_vars, NEW d \in Ends
  PROVE  \/ link'[d] = link[d] \/ Taken(d) \/ Cut(d)
         \/ \E f \in Frames : Added(d, f)
<1> DEFINE Goal == \/ link'[d] = link[d] \/ Taken(d) \/ Cut(d)
                   \/ \E f \in Frames : Added(d, f)
<1> SUFFICES Goal
  OBVIOUS
<1>t. link \in [Ends -> Seq(Frames)]
  BY DEF TypeOK, ConType
<1>1. ASSUME NEW e \in Ends, NEW f \in Frames, SendsOrFails(e, f), Origin(e, f) PROVE Goal
  <2>1. CASE SendFails(e)
    BY <2>1 DEF SendFails
  <2>2. CASE Sends(e, f) /\ d = Peer(e)
    <3>1. link' = link \/ (up /\ d \in conn /\ link'[d] = Append(link[d], f))
      BY <1>t, <2>2 DEF Sends
    <3>2. Peer(d) = e
      BY <2>2, EndsFacts
    <3> QED BY <1>1, <3>1, <3>2 DEF Added
  <2>3. CASE Sends(e, f) /\ d # Peer(e)
    BY <1>t, <2>3 DEF Sends
  <2> QED BY <1>1, <2>1, <2>2, <2>3 DEF SendsOrFails
<1>2. ASSUME NEW e \in Ends, NEW i \in Ids, OpenSend(e, i) PROVE Goal
  <2>1. CASE SendFails(e)
    BY <2>1 DEF SendFails
  <2>2. ASSUME NEW t \in Targets, Sends(e, Frame("SYN", i, t)) PROVE Goal
    <3>1. /\ Frame("SYN", i, t) \in Frames /\ Frame("SYN", i, t).flag = "SYN"
          /\ Frame("SYN", i, t).id = i
      BY FrameType, MuxAssumption
      DEF MuxAssumption, StreamFlags, GoodTarget, BadTarget, Frame
    <3>2. i \in opening[e]
      BY <1>2 DEF OpenSend
    <3> HIDE DEF Goal
    <3> QED BY <1>1, <1>2, <2>2, <3>1, <3>2 DEF SendsOrFails, Origin
  <2> HIDE DEF Goal
  <2> QED BY <1>2, <2>1, <2>2 DEF OpenSend
<1>4. ASSUME NEW e \in Ends, NEW i \in Ids, ReadCredit(e, i) PROVE Goal
  <2> DEFINE f == Frame("WIN", i, Credit(e, i))
  <2>1. f \in Frames /\ f.flag = "WIN" /\ f.id = i /\ f.n = rd[e][i]
    BY FrameType DEF TypeOK, AppType, Credit, StreamFlags, Frame
  <2>2. SendsOrFails(e, f) /\ rd[e][i] > 0
    BY <1>4 DEF ReadCredit
  <2> HIDE DEF f, Goal
  <2> QED BY <1>1, <1>4, <2>1, <2>2 DEF Origin
<1>5. ASSUME NEW e \in Ends, NEW i \in Ids, WriteSend(e, i) PROVE Goal
  <2> DEFINE f == Frame("DATA", i, wr[e][i])
  <2>1. f \in Frames /\ f.flag = "DATA" /\ f.id = i /\ f.n = wr[e][i]
    BY FrameType DEF TypeOK, AppType, StreamFlags, Frame
  <2>2. SendsOrFails(e, f) /\ wr[e][i] > 0
    BY <1>5 DEF WriteSend, SendsOrFails
  <2> HIDE DEF f, Goal
  <2> QED BY <1>1, <1>5, <2>1, <2>2 DEF Origin
<1>6. ASSUME NEW e \in Ends, NEW i \in Ids, StreamCloseSend(e, i) PROVE Goal
  <2> DEFINE f == Frame("FIN", i, 0)
  <2>1. f \in Frames /\ f.flag = "FIN" /\ f.id = i
    BY FrameType DEF StreamFlags, Frame
  <2>2. SendsOrFails(e, f) /\ cl[e][i] = "fin"
    BY <1>6 DEF StreamCloseSend
  <2> HIDE DEF f, Goal
  <2> QED BY <1>1, <1>6, <2>1, <2>2 DEF Origin
<1>7. ASSUME NEW e \in Ends, TearGoaway(e) PROVE Goal
  <2> DEFINE f == Frame("GOAWAY", 0, Reason(e))
  <2>1. f \in Frames /\ f.flag = "GOAWAY" /\ f.id = 0
    BY FrameType DEF Reason, ReasonNormal, ReasonProtocol, Frame
  <2>2. SendsOrFails(e, f)
    BY <1>7 DEF TearGoaway
  <2> HIDE DEF f, Goal
  <2> QED BY <1>1, <1>7, <2>1, <2>2 DEF Origin
<1>8. ASSUME NEW e \in Ends, RlAbort(e) PROVE Goal
  <2> DEFINE f == Frame("RST", rl[e].id, ReasonBusy)
  <2>1. rl[e].id \in Ids /\ rl[e].pc = "rst"
    BY <1>8 DEF TypeOK, LoopType, RlAbort
  <2>2. f \in Frames /\ f.flag = "RST" /\ f.id = rl[e].id
    BY <2>1, FrameType DEF ReasonBusy, StreamFlags, Frame
  <2>3. SendsOrFails(e, f)
    BY <1>8 DEF RlAbort
  <2> HIDE DEF f, Goal
  <2> QED BY <1>1, <1>8, <2>1, <2>2, <2>3 DEF Origin
<1>9. ASSUME NEW e \in Ends, Receive(e) PROVE Goal
  <2>1. link[e] # <<>> /\ link' = [link EXCEPT ![e] = Tail(@)]
    BY <1>9 DEF Receive
  <2>2. CASE e = d
    BY <1>9, <1>t, <2>1, <2>2 DEF Taken
  <2>3. CASE e # d
    BY <1>t, <2>1, <2>3
  <2> QED BY <2>2, <2>3
<1>10. ASSUME NEW e \in Ends, TearConn(e) PROVE Goal
  <2>1. CASE e = d
    <3>1. link'[d] = <<>>
      BY <1>10, <1>t, <2>1 DEF TearConn
    <3>2. <<>> = SubSeq(link[d], 1, 0) /\ 0 \in 0 .. Len(link[d])
      BY <1>t
    <3> QED BY <1>10, <2>1, <3>1, <3>2 DEF Cut
  <2>2. CASE e # d
    BY <1>10, <1>t, <2>2 DEF TearConn
  <2> QED BY <2>1, <2>2
<1>11. CASE LinkDrop
  <2>1. \E k \in 0 .. Len(link[d]) : link'[d] = SubSeq(link[d], 1, k)
    BY <1>11 DEF LinkDrop, TypeOK, ConType, Ends
  <2> QED BY <1>11, <2>1 DEF Cut
<1>12. CASE UNCHANGED link
  BY <1>12
<1>13. ASSUME NEW e \in Ends, ReadLoop(e) \/ TearDown(e) PROVE Goal
  <2> HIDE DEF Goal
  <2> QED
    BY <1>7, <1>8, <1>9, <1>10, <1>12, <1>13
    DEF ReadLoop, TearDown, conVars, ReceiveFails, RlRegister, RlOffer, RlReset,
        RlRetire, TearMark, TearSweep
<1>14. ASSUME NEW e \in Ends, NEW i \in Ids, Reading(e, i) \/ Write(e, i) \/ Close(e, i)
       PROVE  Goal
  <2> HIDE DEF Goal
  <2> QED
    BY <1>4, <1>5, <1>6, <1>12, <1>14
    DEF Reading, Write, Close, conVars, ReadData, ReadEnd, WriteTake, WriteError,
        StreamClose, StreamCloseRetire
<1>15. ASSUME NEW e \in Ends, OpenRegister(e) \/ Accept(e) \/ SessionEnds(e) PROVE Goal
  BY <1>12, <1>15 DEF conVars, OpenRegister, Accept, SessionEnds, SessionClose, KeepAliveCloses
<1> HIDE DEF Goal
<1> QED
  BY <1>2, <1>11, <1>12, <1>13, <1>14, <1>15 DEF Next, vars, conVars
-----------------------------------------------------------------------------
(* The order of a stream's frames: its SYN comes first, and before it is   *)
(* handled neither end has anything to do with the stream.                 *)

Unused(e, i) ==
    /\ i \notin held[e] /\ i \notin finRecv[e] /\ i \notin finSent[e]
    /\ sendWin[e][i] = InitialWindow /\ buf[e][i] = 0
    /\ wr[e][i] = 0 /\ sent[e][i] = 0 /\ rd[e][i] = 0 /\ got[e][i] = 0
    /\ rend[e][i] = "open" /\ cl[e][i] = "open"
NoFrame(s, i) == \A k \in 1 .. Len(s) : s[k].id # i
SynFirst(s, i) == \A k \in 1 .. Len(s) : IsSyn(s[k], i) => \A j \in 1 .. k - 1 : s[j].id # i
Registering(e, i) == rl[e] = [pc |-> "register", id |-> i]

\* What a stream is to the end that has not opened it, until handleSYN.
Strange(e, i) == Unsent(e, i) \/ HasSyn(link[e], i) \/ Registering(e, i)

OrderInv(p, i) ==
    LET o == Peer(p)
    IN  /\ Strange(p, i) => /\ Unused(p, i) /\ i \notin live[p]
                            /\ NoFrame(link[o], i) /\ rl[o].id # i
        /\ Unsent(p, i) => Unused(o, i) /\ NoFrame(link[p], i) /\ rl[p].id # i
        /\ HasSyn(link[p], i) => rl[p].id # i /\ SynFirst(link[p], i)

Order == \A p \in Ends : \A i \in Own(Peer(p)) : OrderInv(p, i)

\* The readLoop learns ids from frames only.
LEMMA LoopIdEnters ==
  ASSUME TypeOK, [Next]_vars, NEW d \in Ends, NEW i \in Ids, rl'[d].id = i
  PROVE  rl[d].id = i \/ (Taken(d) /\ Head(link[d]).id = i)
<1> DEFINE Goal == rl[d].id = i \/ (Taken(d) /\ Head(link[d]).id = i)
<1> SUFFICES Goal
  OBVIOUS
<1>0. i # 0
  BY MuxAssumption DEF MuxAssumption, Ids
<1>1. ASSUME NEW e \in Ends, NEW pc, NEW j, RlTo(e, pc, j), j # i \/ e # d PROVE Goal
  BY <1>1 DEF RlTo, TypeOK, LoopType
<1>2. ASSUME UNCHANGED rl PROVE Goal
  BY <1>2
<1>3. ASSUME NEW e \in Ends, Receive(e) PROVE Goal
  <2> DEFINE j == Head(link[e]).id
  <2>1. \/ UNCHANGED rl \/ RlTo(e, "exit", 0) \/ RlTo(e, "rst", j)
        \/ RlTo(e, "register", j) \/ RlTo(e, "reset", j) \/ RlTo(e, "retire", j)
    BY <1>3 DEF Receive, RecvSYN, RecvDATA, RecvFIN, RecvRST, RecvWIN, RecvGOAWAY
  <2>2. CASE e = d /\ j = i
    <3>1. link[d] # <<>> /\ link'[d] = Tail(link[d])
      BY <1>3, <2>2 DEF Receive, TypeOK, ConType
    <3> QED BY <1>3, <2>2, <3>1 DEF Taken
  <2> HIDE DEF Goal
  <2> QED BY <1>0, <1>1, <1>2, <2>1, <2>2
<1>4. ASSUME NEW e \in Ends,
             \/ ReceiveFails(e) \/ RlRegister(e) \/ RlOffer(e) \/ RlReset(e)
             \/ RlRetire(e) \/ RlAbort(e)
      PROVE  Goal
  <2>1. \E pc : RlTo(e, pc, rl[e].id) \/ RlTo(e, pc, 0)
    BY <1>4 DEF ReceiveFails, RlRegister, RlOffer, RlReset, RlRetire, RlAbort
  <2>2. CASE e = d /\ rl[e].id = i
    BY <2>2
  <2> HIDE DEF Goal
  <2> QED BY <1>0, <1>1, <2>1, <2>2
<1>5. ASSUME NEW e \in Ends, ReadLoop(e) \/ TearDown(e) PROVE Goal
  BY <1>2, <1>3, <1>4, <1>5, TearFootprint DEF ReadLoop, TearKeeps, loopVars
<1>6. ASSUME NEW e \in Ends, NEW j \in Ids,
             OpenSend(e, j) \/ Reading(e, j) \/ Write(e, j) \/ Close(e, j)
      PROVE  Goal
  BY <1>2, <1>6, StreamFootprint DEF ReadKeeps, WriteKeeps, CloseKeeps, loopVars, OpenSend
<1>7. ASSUME NEW e \in Ends, OpenRegister(e) \/ Accept(e) \/ SessionEnds(e) PROVE Goal
  BY <1>2, <1>7 DEF OpenRegister, Accept, SessionEnds, SessionClose, KeepAliveCloses, loopVars
<1>8. CASE LinkDrop \/ UNCHANGED vars
  BY <1>2, <1>8 DEF LinkDrop, vars, loopVars
<1> HIDE DEF Goal
<1> QED
  BY <1>5, <1>6, <1>7, <1>8 DEF Next

\* A stream nobody holds stays as newStream makes it, until a frame arrives.
LEMMA UnusedStays ==
  ASSUME TypeOK, [Next]_vars, NEW d \in Ends, NEW i \in Ids,
         Unused(d, i), i \notin held'[d], ~Handles(d, i)
  PROVE  Unused(d, i)'
<1>1. CASE Quiet(d, i)
  BY <1>1 DEF Quiet, Unused
<1>2. CASE Begins(d, i)
  <2>1. UNCHANGED <<wr, sent, rd, got, rend, cl>>
    BY <1>2 DEF Begins, writeVars, readVars
  <2>2. sendWin'[d][i] = InitialWindow /\ buf'[d][i] = 0
    BY <1>2 DEF Begins, NewStream, TypeOK, StrType
  <2>3. i \notin finRecv'[d] /\ i \notin finSent'[d]
    BY <1>2 DEF Begins, NewStream, Clear, TypeOK, StrType
  <2> QED BY <2>1, <2>2, <2>3 DEF Unused
<1>3. ~Reading(d, i)
  BY DEF Unused, Reading, Reads, ReadData, ReadCredit, ReadEnd
<1>4. ~Write(d, i)
  BY DEF Unused, Write, Writes, WriteTake, WriteSend, WriteError
<1>5. ~Close(d, i)
  BY DEF Unused, Close, StreamClose, StreamCloseRetire, StreamCloseSend
<1> QED BY <1>1, <1>2, <1>3, <1>4, <1>5, Locally

\* An unused stream sends nothing but its SYN.
LEMMA UnusedSends ==
  ASSUME NEW d \in Ends, NEW i \in Ids, Unused(d, i), NEW f, Origin(d, f), f.id = i
  PROVE  \/ f.flag = "SYN" /\ OpenSend(d, i) /\ i \in opening[d]
         \/ f.flag = "RST" /\ rl[d].id = i /\ rl[d].pc = "rst"
<1>1. 0 \notin Ids
  BY MuxAssumption DEF MuxAssumption, Ids
<1> QED BY <1>1 DEF Origin, Unused

LEMMA FrameTail ==
  ASSUME NEW s \in Seq(Frames), s # <<>>, NEW i
  PROVE  /\ NoFrame(s, i) => NoFrame(Tail(s), i) /\ Head(s).id # i
         /\ SynFirst(s, i) => SynFirst(Tail(s), i)
         /\ SynFirst(s, i) /\ HasSyn(s, i) /\ Head(s).id = i => IsSyn(Head(s), i)
<1> DEFINE t == Tail(s)
<1>1. /\ Len(t) = Len(s) - 1 /\ Head(s) = s[1] /\ Len(s) \in Nat \ {0}
      /\ \A k \in 1 .. Len(t) : t[k] = s[k + 1]
  OBVIOUS
<1> HIDE DEF t
<1>2. /\ \A k \in 1 .. Len(t) : k + 1 \in 1 .. Len(s)
      /\ \A k \in 1 .. Len(t) : \A j \in 1 .. k - 1 : j + 1 \in 1 .. (k + 1) - 1 /\ j \in 1 .. Len(t)
      /\ 1 \in 1 .. Len(s)
      /\ \A k \in 1 .. Len(s) : k = 1 \/ 1 \in 1 .. k - 1
  BY <1>1
<1>3. NoFrame(s, i) => NoFrame(t, i) /\ Head(s).id # i
  BY <1>1, <1>2 DEF NoFrame
<1>4. SynFirst(s, i) => SynFirst(t, i)
  <2> SUFFICES ASSUME SynFirst(s, i), NEW k \in 1 .. Len(t), IsSyn(t[k], i),
                      NEW j \in 1 .. k - 1
               PROVE  t[j].id # i
    BY DEF SynFirst
  <2>1. IsSyn(s[k + 1], i) /\ s[j + 1].id # i
    BY <1>1, <1>2 DEF SynFirst
  <2> QED BY <1>1, <1>2, <2>1
<1>5. SynFirst(s, i) /\ HasSyn(s, i) /\ Head(s).id = i => IsSyn(Head(s), i)
  BY <1>1, <1>2 DEF SynFirst, HasSyn
<1> QED BY <1>3, <1>4, <1>5 DEF t

LEMMA FramePrefix ==
  ASSUME NEW s \in Seq(Frames), NEW m \in 0 .. Len(s), NEW i
  PROVE  /\ NoFrame(s, i) => NoFrame(SubSeq(s, 1, m), i)
         /\ SynFirst(s, i) => SynFirst(SubSeq(s, 1, m), i)
<1> DEFINE t == SubSeq(s, 1, m)
<1>1. /\ \A k \in 1 .. Len(t) : k \in 1 .. Len(s) /\ t[k] = s[k]
      /\ \A k \in 1 .. Len(t) : \A j \in 1 .. k - 1 : j \in 1 .. Len(t)
  OBVIOUS
<1> HIDE DEF t
<1> QED BY <1>1 DEF t, NoFrame, SynFirst

LEMMA FrameAppend ==
  ASSUME NEW s \in Seq(Frames), NEW f \in Frames, NEW i
  PROVE  /\ NoFrame(s, i) /\ f.id # i => NoFrame(Append(s, f), i)
         /\ SynFirst(s, i) /\ ~IsSyn(f, i) => SynFirst(Append(s, f), i)
         /\ NoFrame(s, i) => SynFirst(Append(s, f), i)
<1> DEFINE t == Append(s, f)
<1>1. /\ Len(t) = Len(s) + 1 /\ t[Len(s) + 1] = f /\ Len(s) \in Nat
      /\ \A k \in 1 .. Len(s) : t[k] = s[k]
  OBVIOUS
<1> HIDE DEF t
<1>2. /\ \A k \in 1 .. Len(t) : k \in 1 .. Len(s) \/ k = Len(s) + 1
      /\ \A k \in 1 .. Len(t) : \A j \in 1 .. k - 1 : j \in 1 .. Len(s)
  BY <1>1
<1>3. NoFrame(s, i) /\ f.id # i => NoFrame(t, i)
  BY <1>1, <1>2 DEF NoFrame
<1>4. SynFirst(s, i) /\ ~IsSyn(f, i) => SynFirst(t, i)
  BY <1>1, <1>2 DEF SynFirst
<1>5. NoFrame(s, i) => SynFirst(t, i)
  BY <1>1, <1>2 DEF SynFirst, NoFrame
<1> QED BY <1>3, <1>4, <1>5 DEF t

\* A stream becomes known once and for all.
LEMMA StrangeShrinks ==
  ASSUME TypeOK, FreshIds, SynOnce, [Next]_vars, NEW p \in Ends, NEW i \in Own(Peer(p)),
         Strange(p, i)'
  PROVE  Strange(p, i)
<1>1. Unsent(p, i)' => Unsent(p, i)
  BY UnsentShrinks
<1>2. HasSyn(link[p], i)' => HasSyn(link[p], i) \/ Unsent(p, i)
  BY SynEnters DEF Unsent
<1>3. ASSUME Registering(p, i)' PROVE Strange(p, i)
  <2>1. rl'[p].pc = "register" /\ InLoop(p, i)'
    BY <1>3 DEF Registering, InLoop
  <2>2. CASE link[p] # <<>> /\ IsSyn(Head(link[p]), i)
    <3>1. link[p] \in Seq(Frames)
      BY DEF TypeOK, ConType
    <3> QED BY <2>2, <3>1, TailSyn DEF Strange
  <2>3. CASE InLoop(p, i) /\ ~RlOffer(p)
    <3>1. rl[p].pc # "offer"
      BY <2>1, <2>3, OfferEnds
    <3>2. rl[p] = [pc |-> "register", id |-> i]
      BY <2>3, <3>1 DEF InLoop, TypeOK, LoopType
    <3> QED BY <3>2 DEF Registering, Strange
  <2> QED BY <2>1, <2>2, <2>3, LoopEnters
<1> QED BY <1>1, <1>2, <1>3 DEF Strange

\* The only frame a strange stream receives is its SYN.
LEMMA StrangeHears ==
  ASSUME TypeOK, NEW p \in Ends, NEW i \in Own(Peer(p)), OrderInv(p, i),
         Strange(p, i), Receive(p), Head(link[p]).id = i
  PROVE  IsSyn(Head(link[p]), i) /\ HasSyn(link[p], i)
<1>1. link[p] \in Seq(Frames) /\ link[p] # <<>> /\ rl[p].pc = "read"
  BY DEF Receive, TypeOK, ConType
<1>2. ~Registering(p, i)
  BY <1>1 DEF Registering
<1>3. ~NoFrame(link[p], i)
  BY <1>1, FrameTail
<1>4. HasSyn(link[p], i) /\ SynFirst(link[p], i)
  BY <1>2, <1>3 DEF Strange, OrderInv
<1> QED BY <1>1, <1>4, FrameTail

LEMMA StrangeKnown ==
  ASSUME SynOnce, NEW p \in Ends, NEW i \in Own(Peer(p)), Strange(p, i)
  PROVE  i \notin held[p] /\ ~Queued(p, i) /\ rl[p] # [pc |-> "offer", id |-> i]
<1>1. Registering(p, i) => InLoop(p, i) /\ rl[p] # [pc |-> "offer", id |-> i]
  BY DEF Registering, InLoop
<1>2. rl[p] = [pc |-> "offer", id |-> i] => InLoop(p, i)
  BY DEF InLoop
<1> QED BY <1>1, <1>2 DEF SynOnce, Known, Strange

\* The first part of OrderInv: the acceptor.
LEMMA OrderAcceptor ==
  ASSUME TypeOK, TypeOK', FreshIds, FreshIds', SynOnce, SynOnce', [Next]_vars,
         NEW p \in Ends, NEW i \in Own(Peer(p)), OrderInv(p, i), Strange(p, i)'
  PROVE  /\ Unused(p, i)' /\ i \notin live'[p]
         /\ NoFrame(link'[Peer(p)], i) /\ rl'[Peer(p)].id # i
<1> DEFINE o == Peer(p)
<1>o. o \in Ends /\ Peer(o) = p /\ i \in Ids /\ i \notin Own(p)
  BY EndsFacts, IdsFacts, OwnDisjoint
<1>1. Strange(p, i)
  BY StrangeShrinks
<1>2. /\ Unused(p, i) /\ i \notin live[p] /\ NoFrame(link[o], i) /\ rl[o].id # i
      /\ i \notin held'[p] /\ rl'[p] # [pc |-> "offer", id |-> i]
  <2>1. i \notin held'[p]
    BY <1>1, StrangeKnown, HeldEnters
  <2>2. Registering(p, i)' => rl'[p] # [pc |-> "offer", id |-> i]
    BY DEF Registering
  <2>3. rl'[p] = [pc |-> "offer", id |-> i] => Known(p, i)'
    BY DEF InLoop, Known
  <2>4. HasSyn(link[p], i)' \/ Unsent(p, i)' => ~Known(p, i)'
    BY DEF SynOnce
  <2> QED BY <1>1, <2>1, <2>2, <2>3, <2>4 DEF OrderInv, Strange
<1>3. link[o] \in Seq(Frames)
  BY <1>o DEF TypeOK, ConType
<1> HIDE DEF o
<1>4. Unused(p, i)'
  BY <1>2, <1>o, UnusedStays DEF Handles
<1>5. i \notin live'[p]
  <2>1. i \notin opening'[p]
    BY <1>o DEF FreshIds
  <2> QED BY <1>2, <2>1, TableEnters
<1>6. NoFrame(link'[o], i)
  <2>1. ASSUME NEW f \in Frames, Added(o, f) PROVE f.id # i
    <3>1. SUFFICES ASSUME f.id = i PROVE FALSE
      OBVIOUS
    <3>2. Origin(p, f)
      BY <1>o, <2>1 DEF Added
    <3>3. i \notin opening[p]
      BY <1>o DEF FreshIds
    <3>4. rl[p].id = i /\ rl[p].pc = "rst"
      BY <1>2, <1>o, <3>1, <3>2, <3>3, UnusedSends
    <3>5. Registering(p, i) => rl[p].pc = "register"
      BY DEF Registering
    <3> QED BY <1>1, <3>4, <3>5 DEF OrderInv, Strange
  <2>2. ASSUME NEW f \in Frames, Added(o, f) PROVE NoFrame(link'[o], i)
    BY <1>2, <1>3, <2>1, <2>2, FrameAppend DEF Added
  <2>3. CASE Taken(o)
    BY <1>2, <1>3, <2>3, FrameTail DEF Taken
  <2>4. CASE Cut(o)
    BY <1>2, <1>3, <2>4, FramePrefix DEF Cut
  <2> QED BY <1>2, <1>o, <2>2, <2>3, <2>4, Wire
<1>7. rl'[o].id # i
  <2>1. Taken(o) => Head(link[o]).id # i
    BY <1>2, <1>3, FrameTail DEF Taken
  <2> QED BY <1>2, <1>o, <2>1, LoopIdEnters
<1> QED BY <1>4, <1>5, <1>6, <1>7 DEF o

\* Open returns a stream when it sends the SYN.
LEMMA OpeningHeld ==
  ASSUME TypeOK, HandOwner, FreshIds, [Next]_vars, NEW o \in Ends, NEW i \in Own(o),
         i \in opening[o], i \in held'[o]
  PROVE  OpenSend(o, i)
<1> DEFINE Goal == OpenSend(o, i)
<1> SUFFICES Goal
  OBVIOUS
<1>0. i \notin held[o]
  BY DEF FreshIds
<1>1. ASSUME NEW e \in Ends, NEW j \in Ids, OpenSend(e, j) PROVE Goal
  <2>1. held' = held \/ held' = Set(held, e, j)
    BY <1>1 DEF OpenSend
  <2>2. CASE held' = Set(held, e, j)
    <3>1. e = o /\ j = i
      BY <1>0, <2>2 DEF Set, TypeOK, AppType
    <3> QED BY <1>1, <3>1
  <2> QED BY <1>0, <2>1, <2>2
<1>2. ASSUME NEW e \in Ends, Accept(e) PROVE Goal
  <2>1. held' = held \/ (acc[e] # <<>> /\ held' = Set(held, e, Head(acc[e])))
    BY <1>2 DEF Accept
  <2>2. e = o /\ acc[e] # <<>> /\ i = Head(acc[e])
    BY <1>0, <2>1 DEF Set, TypeOK, AppType
  <2>3. acc[e] \in Seq(Ids) /\ Head(acc[e]) = acc[e][1] /\ 1 \in 1 .. Len(acc[e])
    BY <2>2 DEF TypeOK, LoopType
  <2> QED BY <2>2, <2>3 DEF HandOwner
<1>3. ASSUME UNCHANGED held PROVE Goal
  BY <1>0, <1>3
<1>4. ASSUME NEW e \in Ends, ReadLoop(e) \/ TearDown(e) PROVE Goal
  BY <1>3, <1>4, LoopFootprint, TearFootprint DEF LoopKeeps, TearKeeps, appVars
<1>5. ASSUME NEW e \in Ends, NEW j \in Ids, Reading(e, j) \/ Write(e, j) \/ Close(e, j)
      PROVE  Goal
  BY <1>3, <1>5, StreamFootprint DEF ReadKeeps, WriteKeeps, CloseKeeps
<1>6. ASSUME NEW e \in Ends, OpenRegister(e) \/ SessionEnds(e) PROVE Goal
  BY <1>3, <1>6 DEF OpenRegister, SessionEnds, SessionClose, KeepAliveCloses, appVars
<1>7. CASE LinkDrop \/ UNCHANGED vars
  BY <1>3, <1>7 DEF LinkDrop, vars, appVars
<1> HIDE DEF Goal
<1> QED
  BY <1>1, <1>2, <1>4, <1>5, <1>6, <1>7 DEF Next

\* The second: the opener, until its SYN is sent.
LEMMA OrderOpener ==
  ASSUME TypeOK, HandOwner, FreshIds, SynOnce, [Next]_vars,
         NEW p \in Ends, NEW i \in Own(Peer(p)), OrderInv(p, i), Unsent(p, i)'
  PROVE  Unused(Peer(p), i)' /\ NoFrame(link'[p], i) /\ rl'[p].id # i
<1> DEFINE o == Peer(p)
<1>o. o \in Ends /\ Peer(o) = p /\ i \in Ids
  BY EndsFacts, IdsFacts
<1>1. Unsent(p, i) /\ ~(OpenSend(o, i) /\ i \in opening[o])
  BY UnsentShrinks
<1>2. /\ Unused(o, i) /\ NoFrame(link[p], i) /\ rl[p].id # i
      /\ NoFrame(link[o], i) /\ rl[o].id # i
  BY <1>1 DEF OrderInv, Strange
<1>3. link[o] \in Seq(Frames) /\ link[p] \in Seq(Frames)
  BY <1>o DEF TypeOK, ConType
<1>h. i \notin held'[o]
  <2>1. i \in held'[o] \cup opening'[o] => i \in held[o] \cup opening[o] \/ OpenRegister(o)
    BY <1>o, OwnEnters
  <2>2. ~(i \in opening[o] /\ i \in held'[o])
    BY <1>1, <1>o, OpeningHeld
  <2>3. OpenRegister(o) => i \notin held'[o]
    BY <1>2, <1>o DEF OpenRegister, Unused
  <2> QED BY <1>2, <2>1, <2>2, <2>3 DEF Unused
<1> HIDE DEF o
<1>4. Unused(o, i)'
  <2>1. ~Handles(o, i)
    BY <1>2, <1>3, FrameTail DEF Handles, Receive
  <2> QED BY <1>2, <1>o, <1>h, <2>1, UnusedStays
<1>5. NoFrame(link'[p], i)
  <2>1. ASSUME NEW f \in Frames, Added(p, f) PROVE f.id # i
    <3>1. Origin(o, f)
      BY <2>1 DEF Added, o
    <3> QED BY <1>1, <1>2, <1>o, <3>1, UnusedSends
  <2>2. ASSUME NEW f \in Frames, Added(p, f) PROVE NoFrame(link'[p], i)
    BY <1>2, <1>3, <2>1, <2>2, FrameAppend DEF Added
  <2>3. CASE Taken(p)
    BY <1>2, <1>3, <2>3, FrameTail DEF Taken
  <2>4. CASE Cut(p)
    BY <1>2, <1>3, <2>4, FramePrefix DEF Cut
  <2> QED BY <1>2, <2>2, <2>3, <2>4, Wire
<1>6. rl'[p].id # i
  <2>1. Taken(p) => Head(link[p]).id # i
    BY <1>2, <1>3, FrameTail DEF Taken
  <2> QED BY <1>2, <1>o, <2>1, LoopIdEnters
<1> QED BY <1>4, <1>5, <1>6 DEF o

\* The third: the SYN on its way.
LEMMA OrderSyn ==
  ASSUME TypeOK, FreshIds, SynOnce, [Next]_vars,
         NEW p \in Ends, NEW i \in Own(Peer(p)), OrderInv(p, i), HasSyn(link'[p], i)
  PROVE  rl'[p].id # i /\ SynFirst(link'[p], i)
<1>o. i \in Ids /\ link[p] \in Seq(Frames) /\ Once(link[p])
  BY EndsFacts, IdsFacts DEF TypeOK, ConType, SynOnce
<1>1. CASE HasSyn(link[p], i)
  <2>1. rl[p].id # i /\ SynFirst(link[p], i)
    BY <1>1 DEF OrderInv
  <2>2. Taken(p) => Head(link[p]).id # i
    <3>1. SUFFICES ASSUME Taken(p), Head(link[p]).id = i PROVE FALSE
      OBVIOUS
    <3>2. IsSyn(Head(link[p]), i)
      BY <1>1, <1>o, <2>1, <3>1, FrameTail DEF Taken
    <3> QED BY <1>o, <3>1, <3>2, TailSyn DEF Taken
  <2>3. ASSUME NEW f \in Frames, Added(p, f) PROVE SynFirst(link'[p], i)
    <3>1. ~IsSyn(f, i)
      <4>1. IsSyn(f, i) => i \in opening[Peer(p)]
        BY <2>3 DEF Added, Origin, IsSyn
      <4> QED BY <1>1, <4>1 DEF SynOnce, Unsent
    <3> QED BY <1>o, <2>1, <2>3, <3>1, FrameAppend DEF Added
  <2>4. Taken(p) => SynFirst(link'[p], i)
    BY <1>o, <2>1, FrameTail DEF Taken
  <2>5. Cut(p) => SynFirst(link'[p], i)
    BY <1>o, <2>1, FramePrefix DEF Cut
  <2>6. SynFirst(link'[p], i)
    BY <2>1, <2>3, <2>4, <2>5, Wire
  <2> QED BY <1>o, <2>1, <2>2, <2>6, LoopIdEnters
<1>2. CASE ~HasSyn(link[p], i)
  <2>1. i \in opening[Peer(p)] /\ OpenSend(Peer(p), i)
    BY <1>2, SynEnters
  <2>2. NoFrame(link[p], i) /\ rl[p].id # i
    BY <2>1 DEF OrderInv, Unsent
  <2>3. rl' = rl
    BY <2>1 DEF OpenSend, loopVars
  <2>4. Taken(p) => Head(link[p]).id # i
    BY <1>o, <2>2, FrameTail DEF Taken
  <2>5. ASSUME NEW f \in Frames, Added(p, f) PROVE SynFirst(link'[p], i)
    BY <1>o, <2>2, <2>5, FrameAppend DEF Added
  <2>6. NoFrame(link[p], i) => SynFirst(link[p], i)
    BY DEF NoFrame, SynFirst, IsSyn
  <2>7. Taken(p) => SynFirst(link'[p], i)
    BY <1>o, <2>2, <2>6, FrameTail DEF Taken
  <2>8. Cut(p) => SynFirst(link'[p], i)
    BY <1>o, <2>2, <2>6, FramePrefix DEF Cut
  <2> QED BY <2>2, <2>3, <2>5, <2>6, <2>7, <2>8, Wire
<1> QED BY <1>1, <1>2

LEMMA OrderStep == TypeOK /\ WakeInv /\ SynOnce /\ Order /\ [Next]_vars => Order'
<1> SUFFICES ASSUME TypeOK, WakeInv, SynOnce, Order, [Next]_vars, NEW p \in Ends,
                    NEW i \in Own(Peer(p))
             PROVE  OrderInv(p, i)'
  BY DEF Order
<1>1. /\ TypeOK' /\ HandOwner /\ FreshIds /\ FreshIds' /\ SynOnce' /\ OrderInv(p, i)
  BY TypeStep, WakeStep, SynOnceStep DEF WakeInv, Order
<1> QED BY <1>1, OrderAcceptor, OrderOpener, OrderSyn DEF OrderInv

LEMMA InitOrder == Init => Order
<1> SUFFICES ASSUME Init, NEW p \in Ends, NEW i \in Own(Peer(p)) PROVE OrderInv(p, i)
  BY DEF Order
<1>o. Peer(p) \in Ends /\ i \in Ids /\ 0 \notin Ids
  BY EndsFacts, IdsFacts, MuxAssumption DEF MuxAssumption, Ids
<1>1. \A e \in Ends : /\ Unused(e, i) /\ i \notin live[e] /\ rl[e].id = 0
                      /\ NoFrame(link[e], i) /\ ~HasSyn(link[e], i)
  <2> SUFFICES ASSUME NEW e \in Ends
               PROVE  /\ Unused(e, i) /\ i \notin live[e] /\ rl[e].id = 0
                      /\ NoFrame(link[e], i) /\ ~HasSyn(link[e], i)
    OBVIOUS
  <2>1. Unused(e, i)
    BY <1>o DEF Init, PerEnd, PerStream, Unused
  <2>2. link[e] = <<>> /\ i \notin live[e] /\ rl[e].id = 0
    BY DEF Init, PerEnd
  <2> QED BY <2>1, <2>2 DEF NoFrame, HasSyn
<1> QED BY <1>o, <1>1 DEF OrderInv
-----------------------------------------------------------------------------
(* How units move.  The direction of stream i that e reads has six         *)
(* counters; what is on its way is counted by InFlight.                    *)

\* newStream changes nothing: the stream was unused.
LEMMA BeginsQuietly ==
  ASSUME TypeOK, WakeInv, SynOnce, Order, NEW d \in Ends, NEW i \in Ids, Begins(d, i)
  PROVE  Unused(d, i) /\ Quiet(d, i)
<1> DEFINE p == Peer(d)
<1>p. p \in Ends /\ Peer(p) = d
  BY EndsFacts
<1>1. Unused(d, i)
  <2>1. CASE OpenRegister(d) /\ i = nextID[d]
    <3>1. i \in Own(d)
      BY <2>1 DEF WakeInv, FreshIds, Own
    <3>2. Unsent(p, i)
      <4>1. i >= nextID[d]
        BY <2>1 DEF TypeOK, SesType
      <4> QED BY <1>p, <4>1 DEF Unsent
    <3> QED BY <1>p, <3>1, <3>2 DEF Order, OrderInv
  <2>2. CASE RlRegister(d) /\ i = rl[d].id
    <3>1. Registering(d, i)
      BY <2>2 DEF RlRegister, Registering, TypeOK, LoopType
    <3>2. i \notin Own(d)
      BY <2>2 DEF RlRegister, WakeInv, HandOwner
    <3>3. i \in Own(p)
      BY <3>2, OwnCovers
    <3> QED BY <3>1, <3>3 DEF Order, OrderInv, Strange
  <2> QED BY <2>1, <2>2 DEF Begins
<1>2. UNCHANGED <<wr, sent, rd, got, rend, cl>>
  BY DEF Begins, writeVars, readVars
<1>3. sendWin'[d][i] = InitialWindow /\ buf'[d][i] = 0
  BY DEF Begins, NewStream, TypeOK, StrType
<1>4. i \notin finRecv'[d] /\ i \notin finSent'[d]
  BY DEF Begins, NewStream, Clear, TypeOK, StrType
<1> QED BY <1>1, <1>2, <1>3, <1>4 DEF Unused, Quiet

ReaderRests(e, i) == /\ buf'[e][i] = buf[e][i] /\ rd'[e][i] = rd[e][i]
                     /\ got'[e][i] = got[e][i]
WriterRests(w, i) == /\ sendWin'[w][i] = sendWin[w][i] /\ wr'[w][i] = wr[w][i]
                     /\ sent'[w][i] = sent[w][i]

LEMMA WhoRests ==
  ASSUME TypeOK, WakeInv, SynOnce, Order, [Next]_vars, NEW d \in Ends, NEW i \in Ids
  PROVE  /\ ReaderRests(d, i) \/ Reading(d, i) \/ Handles(d, i)
         /\ WriterRests(d, i) \/ Write(d, i) \/ Handles(d, i)
<1>1. CASE Quiet(d, i) \/ Begins(d, i)
  BY <1>1, BeginsQuietly DEF Quiet, ReaderRests, WriterRests
<1>2. CASE Reading(d, i)
  BY <1>2, StreamFootprint DEF ReadKeeps, WriterRests, writeVars
<1>3. CASE Write(d, i)
  BY <1>3, StreamFootprint DEF WriteKeeps, ReaderRests, readVars
<1>4. CASE Close(d, i)
  BY <1>4, StreamFootprint DEF CloseKeeps, ReaderRests, WriterRests, readVars, writeVars
<1> QED BY <1>1, <1>2, <1>3, <1>4, Locally

LEMMA CountStep ==
  ASSUME TypeOK, [Next]_vars, NEW d \in Ends, NEW flag, NEW i
  PROVE  /\ InFlight(flag, d, i) \in Nat /\ InFlight(flag, d, i)' \in Nat
         /\ \/ InFlight(flag, d, i)' = InFlight(flag, d, i)
            \/ /\ Taken(d)
               /\ InFlight(flag, d, i) = InFlight(flag, d, i)' + Load(Head(link[d]), flag, i)
            \/ Cut(d) /\ InFlight(flag, d, i)' <= InFlight(flag, d, i)
            \/ \E f \in Frames : /\ Added(d, f)
                                 /\ InFlight(flag, d, i)' = InFlight(flag, d, i) + Load(f, flag, i)
<1> DEFINE s == link[d]
           t == link'[d]
<1>1. s \in Seq(Frames) /\ t \in Seq(Frames)
  BY TypeStep DEF TypeOK, ConType
<1>2. InFlight(flag, d, i) = Count(s, flag, i) /\ InFlight(flag, d, i)' = Count(t, flag, i)
  BY DEF InFlight, Count
<1>3. Count(s, flag, i) \in Nat /\ Count(t, flag, i) \in Nat
  BY <1>1, WireFinite DEF Count
<1>4. CASE t = s
  BY <1>2, <1>3, <1>4
<1>5. CASE Taken(d)
  <2>1. Count(s, flag, i) = Count(t, flag, i) + Load(Head(s), flag, i)
    BY <1>1, <1>5, CountTail DEF Taken
  <2> QED BY <1>2, <1>3, <1>5, <2>1
<1>6. CASE Cut(d)
  <2>1. PICK m \in 0 .. Len(s) : t = SubSeq(s, 1, m)
    BY <1>6 DEF Cut
  <2>2. Count(t, flag, i) <= Count(s, flag, i)
    BY <1>1, <2>1, CountPrefix
  <2> QED BY <1>2, <1>3, <1>6, <2>2
<1>7. ASSUME NEW f \in Frames, Added(d, f)
      PROVE  Count(t, flag, i) = Count(s, flag, i) + Load(f, flag, i)
  BY <1>1, <1>7, CountAppend DEF Added
<1>8. t = s \/ Taken(d) \/ Cut(d) \/ \E f \in Frames : Added(d, f)
  BY Wire
<1> HIDE DEF s, t
<1> QED BY <1>2, <1>3, <1>4, <1>5, <1>6, <1>7, <1>8

\* A frame that is not sent, or that is lost.
Trouble(e) == ~up \/ e \notin conn \/ Peer(e) \notin conn \/ e \in closed

LEMMA SendCounts ==
  ASSUME TypeOK, NEW e \in Ends, NEW f \in Frames, SendsOrFails(e, f), NEW flag, NEW i
  PROVE  /\ InFlight(flag, e, i)' = InFlight(flag, e, i)
         /\ \/ InFlight(flag, Peer(e), i)' = InFlight(flag, Peer(e), i) + Load(f, flag, i)
            \/ InFlight(flag, Peer(e), i)' = InFlight(flag, Peer(e), i) /\ Trouble(e)
<1>1. /\ link[Peer(e)] \in Seq(Frames) /\ link \in [Ends -> Seq(Frames)]
      /\ Peer(e) \in Ends /\ Peer(e) # e
  BY EndsFacts DEF TypeOK, ConType
<1>2. CASE link' = link /\ Trouble(e)
  BY <1>2 DEF InFlight
<1>3. CASE link' = [link EXCEPT ![Peer(e)] = Append(@, f)]
  <2>1. link'[e] = link[e] /\ link'[Peer(e)] = Append(link[Peer(e)], f)
    BY <1>1, <1>3
  <2>2. Count(link'[Peer(e)], flag, i) = Count(link[Peer(e)], flag, i) + Load(f, flag, i)
    BY <1>1, <2>1, CountAppend
  <2> QED BY <2>1, <2>2 DEF InFlight, Count
<1>4. \/ link' = link /\ Trouble(e)
      \/ link' = [link EXCEPT ![Peer(e)] = Append(@, f)]
  BY DEF SendsOrFails, Sends, SendFails, Trouble
<1> QED BY <1>2, <1>3, <1>4

\* What is lost on the connection, or belongs to nobody.
Losing(e, i) ==
    \/ LinkDrop \/ TearConn(e) \/ TearConn(Peer(e))
    \/ /\ Receive(e) /\ Carries(Head(link[e]), "DATA", i)
       /\ i \notin live[e] \/ Overruns(e, Head(link[e]))
    \/ /\ Receive(Peer(e)) /\ Carries(Head(link[Peer(e)]), "WIN", i)
       /\ i \notin live[Peer(e)]

\* The ways the counters of a direction change.
WireRests(e, i) == /\ InFlight("DATA", e, i)' = InFlight("DATA", e, i)
                   /\ InFlight("WIN", Peer(e), i)' = InFlight("WIN", Peer(e), i)

MoveNothing(e, i) ==
    /\ ReaderRests(e, i) /\ WriterRests(Peer(e), i)
    /\ InFlight("DATA", e, i)' <= InFlight("DATA", e, i)
    /\ InFlight("WIN", Peer(e), i)' <= InFlight("WIN", Peer(e), i)
    /\ Losing(e, i) \/ WireRests(e, i)
MoveTake(e, i) ==
    /\ ReaderRests(e, i) /\ WireRests(e, i)
    /\ WriteTake(Peer(e), i)
    /\ wr[Peer(e)][i] = 0 /\ sent'[Peer(e)][i] = sent[Peer(e)][i]
    /\ \E n \in 1 .. sendWin[Peer(e)][i] :
          sendWin'[Peer(e)][i] = sendWin[Peer(e)][i] - n /\ wr'[Peer(e)][i] = n
MoveFrame(e, i) ==
    LET w == Peer(e)
    IN  /\ ReaderRests(e, i)
        /\ wr[w][i] > 0 /\ wr'[w][i] = 0 /\ sendWin'[w][i] = sendWin[w][i]
        /\ InFlight("WIN", w, i)' = InFlight("WIN", w, i)
        /\ \/ /\ InFlight("DATA", e, i)' = InFlight("DATA", e, i) + wr[w][i]
              /\ sent'[w][i] = sent[w][i] + wr[w][i]
           \/ /\ InFlight("DATA", e, i)' = InFlight("DATA", e, i) /\ Trouble(w)
              /\ sent'[w][i] = sent[w][i] \/ ~(up /\ e \in conn)
MoveArrive(e, i) ==
    /\ WriterRests(Peer(e), i)
    /\ rd'[e][i] = rd[e][i] /\ got'[e][i] = got[e][i]
    /\ InFlight("WIN", Peer(e), i)' = InFlight("WIN", Peer(e), i)
    /\ \E n \in Nat : /\ InFlight("DATA", e, i) = InFlight("DATA", e, i)' + n
                      /\ buf'[e][i] = buf[e][i] + n /\ buf'[e][i] <= InitialWindow
MoveRead(e, i) ==
    /\ WriterRests(Peer(e), i) /\ WireRests(e, i)
    /\ \E n \in 1 .. buf[e][i] :
          /\ buf'[e][i] = buf[e][i] - n /\ rd[e][i] = 0 /\ rd'[e][i] = n
          /\ got'[e][i] = got[e][i] + n
MoveCredit(e, i) ==
    /\ WriterRests(Peer(e), i)
    /\ rd'[e][i] = 0 /\ buf'[e][i] = buf[e][i] /\ got'[e][i] = got[e][i]
    /\ InFlight("DATA", e, i)' = InFlight("DATA", e, i)
    /\ \/ InFlight("WIN", Peer(e), i)' = InFlight("WIN", Peer(e), i) + rd[e][i]
       \/ InFlight("WIN", Peer(e), i)' = InFlight("WIN", Peer(e), i) /\ Trouble(e)
MoveRestore(e, i) ==
    LET w == Peer(e)
    IN  /\ ReaderRests(e, i)
        /\ InFlight("DATA", e, i)' = InFlight("DATA", e, i)
        /\ wr'[w][i] = wr[w][i] /\ sent'[w][i] = sent[w][i]
        /\ \E n \in Nat : /\ InFlight("WIN", w, i) = InFlight("WIN", w, i)' + n
                          /\ sendWin'[w][i] = sendWin[w][i] + n

Moves(e, i) == \/ MoveNothing(e, i) \/ MoveTake(e, i) \/ MoveFrame(e, i) \/ MoveArrive(e, i)
               \/ MoveRead(e, i) \/ MoveCredit(e, i) \/ MoveRestore(e, i)

LEMMA FlightType ==
  ASSUME TypeOK
  PROVE  \A flag, i : \A d \in Ends : InFlight(flag, d, i) \in Nat
<1>1. \A d \in Ends : link[d] \in Seq(Frames)
  BY DEF TypeOK, ConType
<1> QED BY <1>1, WireFinite DEF InFlight

LEMMA MovesRead ==
  ASSUME TypeOK, NEW e \in Ends, NEW i \in Ids, Reading(e, i)
  PROVE  Moves(e, i)
<1>w. Peer(e) \in Ends
  BY EndsFacts
<1>1. WriterRests(Peer(e), i)
  BY StreamFootprint DEF ReadKeeps, WriterRests, writeVars
<1>t. /\ buf[e][i] \in Nat /\ rd[e][i] \in Nat /\ got[e][i] \in Nat
      /\ \A d \in Ends : InFlight("DATA", d, i) \in Nat /\ InFlight("WIN", d, i) \in Nat
  BY FlightType DEF TypeOK, StrType, AppType
<1>2. ASSUME UNCHANGED link PROVE WireRests(e, i)
  BY <1>2 DEF WireRests, InFlight
<1>3. CASE ReadData(e, i)
  <2>1. PICK n \in 1 .. buf[e][i] : /\ buf' = [buf EXCEPT ![e][i] = @ - n]
                                    /\ rd' = [rd EXCEPT ![e][i] = n]
                                    /\ got' = [got EXCEPT ![e][i] = @ + n]
    BY <1>3 DEF ReadData
  <2>2. buf'[e][i] = buf[e][i] - n /\ rd'[e][i] = n /\ got'[e][i] = got[e][i] + n
    BY <2>1 DEF TypeOK, StrType, AppType
  <2>3. rd[e][i] = 0 /\ UNCHANGED link
    BY <1>3 DEF ReadData, Reads, conVars
  <2> QED BY <1>1, <1>2, <2>2, <2>3 DEF MoveRead, Moves
<1>4. CASE ReadCredit(e, i)
  <2> DEFINE f == Frame("WIN", i, rd[e][i])
  <2>1. SendsOrFails(e, f) /\ rd' = [rd EXCEPT ![e][i] = 0] /\ UNCHANGED <<buf, got>>
    BY <1>4 DEF ReadCredit, Credit, strVars
  <2>2. f \in Frames
    BY <1>t, FrameType DEF StreamFlags
  <2>3. Load(f, "WIN", i) = rd[e][i] /\ Load(f, "DATA", i) = 0
    BY DEF Load, Carries, Frame
  <2> HIDE DEF f
  <2>4. InFlight("DATA", e, i)' = InFlight("DATA", e, i)
    BY <2>1, <2>2, SendCounts
  <2>5. \/ InFlight("WIN", Peer(e), i)' = InFlight("WIN", Peer(e), i) + rd[e][i]
        \/ InFlight("WIN", Peer(e), i)' = InFlight("WIN", Peer(e), i) /\ Trouble(e)
    BY <2>1, <2>2, <2>3, SendCounts
  <2>6. rd'[e][i] = 0
    BY <2>1 DEF TypeOK, AppType
  <2> QED BY <1>1, <2>1, <2>4, <2>5, <2>6 DEF MoveCredit, Moves
<1>5. CASE ReadEnd(e, i)
  <2>1. UNCHANGED link /\ ReaderRests(e, i)
    BY <1>5 DEF ReadEnd, conVars, strVars, ReaderRests
  <2> QED BY <1>1, <1>2, <1>t, <1>w, <2>1 DEF WireRests, MoveNothing, Moves
<1> QED BY <1>3, <1>4, <1>5 DEF Reading

LEMMA MovesWrite ==
  ASSUME TypeOK, NEW e \in Ends, NEW i \in Ids, Write(Peer(e), i)
  PROVE  Moves(e, i)
<1> DEFINE w == Peer(e)
<1>w. w \in Ends /\ Peer(w) = e
  BY EndsFacts
<1>1. ReaderRests(e, i)
  BY <1>w, StreamFootprint DEF WriteKeeps, ReaderRests, readVars
<1>t. /\ sendWin[w][i] \in Nat /\ wr[w][i] \in Nat /\ sent[w][i] \in Nat
      /\ \A d \in Ends : InFlight("DATA", d, i) \in Nat /\ InFlight("WIN", d, i) \in Nat
  BY <1>w, FlightType DEF TypeOK, StrType, AppType
<1>2. ASSUME UNCHANGED link PROVE WireRests(e, i)
  BY <1>2 DEF WireRests, InFlight
<1> HIDE DEF w
<1>3. CASE WriteTake(w, i)
  <2>1. PICK n \in 1 .. Room(w, i) : /\ sendWin' = [sendWin EXCEPT ![w][i] = @ - n]
                                     /\ wr' = [wr EXCEPT ![w][i] = n]
    BY <1>3 DEF WriteTake
  <2>2. sendWin'[w][i] = sendWin[w][i] - n /\ wr'[w][i] = n
    BY <1>w, <2>1 DEF TypeOK, StrType, AppType
  <2>3. n \in 1 .. sendWin[w][i]
    BY <1>t, MuxAssumption DEF Room, MuxAssumption
  <2>4. wr[w][i] = 0 /\ UNCHANGED <<link, sent>>
    BY <1>3 DEF WriteTake, Writes, conVars
  <2> QED BY <1>1, <1>2, <1>3, <2>2, <2>3, <2>4 DEF MoveTake, Moves, w
<1>4. CASE WriteSend(w, i)
  <2> DEFINE f == Frame("DATA", i, wr[w][i])
  <2>1. /\ wr[w][i] > 0 /\ wr' = [wr EXCEPT ![w][i] = 0] /\ UNCHANGED sendWin
        /\ \/ Sends(w, f) /\ sent' = [sent EXCEPT ![w][i] = @ + wr[w][i]]
           \/ SendFails(w) /\ UNCHANGED sent
    BY <1>4 DEF WriteSend, strVars
  <2>2. f \in Frames
    BY <1>t, FrameType DEF StreamFlags
  <2>3. Load(f, "DATA", i) = wr[w][i] /\ Load(f, "WIN", i) = 0
    BY DEF Load, Carries, Frame
  <2> HIDE DEF f
  <2>4. InFlight("WIN", w, i)' = InFlight("WIN", w, i)
    BY <1>w, <2>1, <2>2, SendCounts DEF SendsOrFails
  <2>5. wr'[w][i] = 0
    BY <1>w, <2>1 DEF TypeOK, AppType
  <2>6. CASE Sends(w, f) /\ sent' = [sent EXCEPT ![w][i] = @ + wr[w][i]]
    <3>1. sent'[w][i] = sent[w][i] + wr[w][i]
      BY <1>w, <2>6 DEF TypeOK, AppType
    <3>2. CASE up /\ e \in conn
      <4>1. link'[e] = Append(link[e], f) /\ link[e] \in Seq(Frames)
        BY <1>w, <2>6, <3>2 DEF Sends, TypeOK, ConType
      <4>2. InFlight("DATA", e, i)' = InFlight("DATA", e, i) + wr[w][i]
        BY <2>2, <2>3, <4>1, CountAppend DEF InFlight, Count
      <4> QED BY <1>1, <2>1, <2>4, <2>5, <3>1, <4>2 DEF MoveFrame, Moves, w
    <3>3. CASE ~(up /\ e \in conn)
      <4>1. link' = link /\ Trouble(w)
        BY <1>w, <2>6, <3>3 DEF Sends, Trouble
      <4> QED BY <1>1, <2>1, <2>4, <2>5, <3>3, <4>1 DEF MoveFrame, Moves, InFlight, w
    <3> QED BY <3>2, <3>3
  <2>7. CASE SendFails(w) /\ UNCHANGED sent
    <3>1. link' = link /\ Trouble(w)
      BY <2>7 DEF SendFails, Trouble
    <3> QED BY <1>1, <2>1, <2>4, <2>5, <2>7, <3>1 DEF MoveFrame, Moves, InFlight, w
  <2> QED BY <2>1, <2>6, <2>7
<1>5. CASE WriteError(w, i)
  <2>1. UNCHANGED link /\ WriterRests(w, i)
    BY <1>5 DEF WriteError, conVars, strVars, WriterRests
  <2> QED BY <1>1, <1>2, <1>t, <1>w, <2>1 DEF WireRests, MoveNothing, Moves, w
<1> QED BY <1>3, <1>4, <1>5 DEF Write, w

\* What handleFrame does to a stream it finds in the table.
LEMMA HandleEffect ==
  ASSUME TypeOK, NEW d \in Ends, NEW i \in Ids, Handles(d, i)
  PROVE  LET f == Head(link[d])
         IN  /\ f \in Frames
             /\ \A flag : /\ InFlight(flag, d, i) = InFlight(flag, d, i)' + Load(f, flag, i)
                          /\ InFlight(flag, d, i)' \in Nat
             /\ \A flag : InFlight(flag, Peer(d), i)' = InFlight(flag, Peer(d), i)
             /\ ReaderRests(Peer(d), i) /\ WriterRests(Peer(d), i)
             /\ wr'[d][i] = wr[d][i] /\ sent'[d][i] = sent[d][i]
             /\ rd'[d][i] = rd[d][i] /\ got'[d][i] = got[d][i]
             /\ \/ /\ f.flag = "DATA" /\ ~Overruns(d, f)
                   /\ buf'[d][i] = buf[d][i] + f.n /\ sendWin'[d][i] = sendWin[d][i]
                \/ /\ f.flag = "WIN"
                   /\ sendWin'[d][i] = sendWin[d][i] + f.n /\ buf'[d][i] = buf[d][i]
                \/ /\ f.flag \notin {"DATA", "WIN"} \/ (f.flag = "DATA" /\ Overruns(d, f))
                   /\ sendWin'[d][i] = sendWin[d][i] /\ buf'[d][i] = buf[d][i]
<1> DEFINE f == Head(link[d])
<1>p. Peer(d) \in Ends /\ Peer(d) # d
  BY EndsFacts
<1>1. /\ link[d] \in Seq(Frames) /\ link[d] # <<>> /\ f \in Frames
      /\ link'[d] = Tail(link[d]) /\ link'[Peer(d)] = link[Peer(d)]
  BY <1>p, HeadType DEF Handles, Receive, TypeOK, ConType
<1>2. UNCHANGED <<wr, sent, rd, got>>
  BY DEF Handles, Receive, appVars, writeVars, readVars
<1>3. /\ f.id = i /\ i \in live[d]
      /\ \/ f.flag = "SYN"    /\ RecvSYN(d, f)
         \/ f.flag = "DATA"   /\ RecvDATA(d, f)
         \/ f.flag = "FIN"    /\ RecvFIN(d, f)
         \/ f.flag = "RST"    /\ RecvRST(d, f)
         \/ f.flag = "WIN"    /\ RecvWIN(d, f)
         \/ f.flag = "GOAWAY" /\ RecvGOAWAY(d, f)
  BY DEF Handles, Receive
<1>4. \A flag : /\ InFlight(flag, d, i) = InFlight(flag, d, i)' + Load(f, flag, i)
                /\ InFlight(flag, d, i)' \in Nat
  <2>1. Tail(link[d]) \in Seq(Frames)
    BY <1>1
  <2>2. \A flag : InFlight(flag, d, i) = InFlight(flag, d, i)' + Load(f, flag, i)
    BY <1>1, CountTail DEF InFlight, Count
  <2>3. \A flag : InFlight(flag, d, i)' \in Nat
    BY <1>1, <2>1, WireFinite DEF InFlight
  <2> QED BY <2>2, <2>3
<1>5. \A flag : InFlight(flag, Peer(d), i)' = InFlight(flag, Peer(d), i)
  BY <1>1 DEF InFlight
<1> HIDE DEF f
<1>6. \/ f.flag = "DATA" /\ ~Overruns(d, f) /\ UNCHANGED sendWin
         /\ buf' = [buf EXCEPT ![d][i] = @ + f.n]
      \/ f.flag = "WIN" /\ UNCHANGED buf /\ sendWin' = [sendWin EXCEPT ![d][i] = @ + f.n]
      \/ /\ f.flag \notin {"DATA", "WIN"} \/ (f.flag = "DATA" /\ Overruns(d, f))
         /\ UNCHANGED <<sendWin, buf>>
  BY <1>3 DEF RecvSYN, RecvDATA, RecvFIN, RecvRST, RecvWIN, RecvGOAWAY, strVars
<1>t. buf \in [Ends -> [Ids -> Nat]] /\ sendWin \in [Ends -> [Ids -> Nat]]
  BY DEF TypeOK, StrType
<1>7. buf'[Peer(d)][i] = buf[Peer(d)][i]
  BY <1>6, <1>t, <1>p
<1>8. sendWin'[Peer(d)][i] = sendWin[Peer(d)][i]
  BY <1>6, <1>t, <1>p
<1>9. ReaderRests(Peer(d), i) /\ WriterRests(Peer(d), i)
  BY <1>2, <1>7, <1>8 DEF ReaderRests, WriterRests
<1>10. \/ /\ f.flag = "DATA" /\ ~Overruns(d, f)
          /\ buf'[d][i] = buf[d][i] + f.n /\ sendWin'[d][i] = sendWin[d][i]
       \/ /\ f.flag = "WIN"
          /\ sendWin'[d][i] = sendWin[d][i] + f.n /\ buf'[d][i] = buf[d][i]
       \/ /\ f.flag \notin {"DATA", "WIN"} \/ (f.flag = "DATA" /\ Overruns(d, f))
          /\ sendWin'[d][i] = sendWin[d][i] /\ buf'[d][i] = buf[d][i]
  BY <1>6, <1>t
<1> QED BY <1>1, <1>2, <1>4, <1>5, <1>9, <1>10 DEF f

LEMMA MovesReceived ==
  ASSUME TypeOK, NEW e \in Ends, NEW i \in Ids, Handles(e, i)
  PROVE  Moves(e, i)
<1> DEFINE f == Head(link[e])
           w == Peer(e)
           D == InFlight("DATA", e, i)
           W == InFlight("WIN", w, i)
<1>w. w \in Ends /\ Peer(w) = e
  BY EndsFacts
<1>0. f.id = i /\ Receive(e) /\ i \in live[e]
  BY DEF Handles
<1>1. /\ f \in Frames /\ f.n \in Nat
      /\ D = D' + Load(f, "DATA", i) /\ D' \in Nat /\ W' = W
      /\ WriterRests(w, i) /\ rd'[e][i] = rd[e][i] /\ got'[e][i] = got[e][i]
  BY HandleEffect, FrameFields
<1>2. \/ f.flag = "DATA" /\ ~Overruns(e, f) /\ buf'[e][i] = buf[e][i] + f.n
      \/ f.flag # "DATA" /\ buf'[e][i] = buf[e][i]
      \/ f.flag = "DATA" /\ Overruns(e, f) /\ buf'[e][i] = buf[e][i]
  BY HandleEffect
<1>t. D \in Nat /\ W \in Nat
  BY <1>w, FlightType
<1>d. Load(f, "DATA", i) = IF f.flag = "DATA" THEN f.n ELSE 0
  BY <1>0 DEF Load, Carries
<1> HIDE DEF f
<1>3. CASE f.flag = "DATA" /\ ~Overruns(e, f) /\ buf'[e][i] = buf[e][i] + f.n
  <2>1. buf'[e][i] <= InitialWindow /\ D = D' + f.n
    BY <1>0, <1>1, <1>3, <1>d, MuxAssumption DEF Overruns, TypeOK, StrType, MuxAssumption
  <2> HIDE DEF D, W
  <2>2. MoveArrive(e, i)
    BY <1>1, <1>3, <2>1 DEF MoveArrive, D, W
  <2> QED BY <2>2 DEF Moves
<1>4. CASE f.flag # "DATA" /\ buf'[e][i] = buf[e][i]
  <2>1. D' = D
    <3> HIDE DEF D
    <3> QED BY <1>1, <1>4, <1>d, <1>t
  <2>2. MoveNothing(e, i)
    BY <1>1, <1>4, <1>t, <2>1 DEF MoveNothing, ReaderRests, WireRests
  <2> QED BY <2>2 DEF Moves
<1>5. CASE f.flag = "DATA" /\ Overruns(e, f) /\ buf'[e][i] = buf[e][i]
  <2>1. D' <= D
    <3> HIDE DEF D
    <3> QED BY <1>1, <1>5, <1>d, <1>t
  <2>2. Losing(e, i)
    BY <1>0, <1>5 DEF Losing, Carries, f
  <2>3. MoveNothing(e, i)
    BY <1>1, <1>5, <1>t, <2>1, <2>2 DEF MoveNothing, ReaderRests
  <2> QED BY <2>3 DEF Moves
<1> QED BY <1>2, <1>3, <1>4, <1>5

LEMMA MovesCredited ==
  ASSUME TypeOK, NEW e \in Ends, NEW i \in Ids, Handles(Peer(e), i)
  PROVE  Moves(e, i)
<1> DEFINE w == Peer(e)
           f == Head(link[w])
           D == InFlight("DATA", e, i)
           W == InFlight("WIN", w, i)
<1>w. w \in Ends /\ Peer(w) = e
  BY EndsFacts
<1>0. f.id = i /\ Receive(w) /\ i \in live[w]
  BY DEF Handles
<1>1. /\ f \in Frames /\ f.n \in Nat
      /\ W = W' + Load(f, "WIN", i) /\ W' \in Nat /\ D' = D
      /\ ReaderRests(e, i) /\ wr'[w][i] = wr[w][i] /\ sent'[w][i] = sent[w][i]
      /\ \/ f.flag = "WIN" /\ sendWin'[w][i] = sendWin[w][i] + f.n
         \/ f.flag # "WIN" /\ sendWin'[w][i] = sendWin[w][i]
  <2> HIDE DEF w
  <2>1. Handles(w, i)
    BY DEF w
  <2> QED BY <1>w, <2>1, HandleEffect, FrameFields
<1>t. D \in Nat /\ W \in Nat
  BY <1>w, FlightType
<1>d. Load(f, "WIN", i) = IF f.flag = "WIN" THEN f.n ELSE 0
  BY <1>0 DEF Load, Carries
<1> HIDE DEF f
<1>2. CASE f.flag = "WIN" /\ sendWin'[w][i] = sendWin[w][i] + f.n
  <2>1. W = W' + f.n
    BY <1>1, <1>2, <1>d
  <2>2. MoveRestore(e, i)
    BY <1>1, <1>2, <2>1 DEF MoveRestore
  <2> QED BY <2>2 DEF Moves
<1>3. CASE f.flag # "WIN" /\ sendWin'[w][i] = sendWin[w][i]
  <2>1. W' = W
    <3> HIDE DEF W
    <3> QED BY <1>1, <1>3, <1>d, <1>t
  <2>2. MoveNothing(e, i)
    BY <1>1, <1>3, <1>t, <2>1 DEF MoveNothing, WriterRests, WireRests
  <2> QED BY <2>2 DEF Moves
<1> QED BY <1>1, <1>2, <1>3

\* Every step of the two sessions is one of those moves, or none.
LEMMA MovesStep ==
  ASSUME TypeOK, WakeInv, SynOnce, Order, [Next]_vars, NEW e \in Ends, NEW i \in Ids
  PROVE  Moves(e, i)
<1> DEFINE w == Peer(e)
           D == InFlight("DATA", e, i)
           W == InFlight("WIN", w, i)
<1>w. w \in Ends /\ Peer(w) = e
  BY EndsFacts
<1>1. CASE Reading(e, i) \/ Write(w, i) \/ Handles(e, i) \/ Handles(w, i)
  BY <1>1, MovesRead, MovesWrite, MovesReceived, MovesCredited
<1>2. CASE ~Reading(e, i) /\ ~Write(w, i) /\ ~Handles(e, i) /\ ~Handles(w, i)
  <2>1. ReaderRests(e, i)
    BY <1>2, WhoRests
  <2>2. WriterRests(w, i)
    <3> HIDE DEF w
    <3> QED BY <1>2, <1>w, WhoRests
  <2>3. /\ D' <= D
        /\ D' = D \/ Losing(e, i)
    <3>1. CASE Taken(e) /\ D = D' + Load(Head(link[e]), "DATA", i)
      <4> DEFINE f == Head(link[e])
      <4>1. f \in Frames /\ Receive(e)
        BY <3>1, HeadType DEF Taken
      <4>2. D \in Nat /\ D' \in Nat /\ f.n \in Nat
        BY <4>1, FlightType, FrameFields, CountStep
      <4>3. CASE Carries(f, "DATA", i)
        <5>1. i \notin live[e]
          BY <1>2, <4>1, <4>3 DEF Handles, Carries
        <5>2. D = D' + f.n
          BY <3>1, <4>3 DEF Load
        <5>3. D' <= D
          <6> HIDE DEF D, f
          <6> QED BY <4>2, <5>2
        <5> QED BY <4>1, <4>3, <5>1, <5>3 DEF Losing
      <4>4. CASE ~Carries(f, "DATA", i)
        <5>1. Load(f, "DATA", i) = 0
          BY <4>4 DEF Load
        <5>2. D' = D
          <6> HIDE DEF D, f
          <6> QED BY <3>1, <4>2, <5>1 DEF f
        <5> HIDE DEF D, f
        <5> QED BY <4>2, <5>2
      <4> QED BY <4>3, <4>4
    <3>2. ASSUME NEW f \in Frames, Added(e, f), D' = D + Load(f, "DATA", i)
          PROVE  D' = D
      <4>1. ~Carries(f, "DATA", i)
        <5>1. Carries(f, "DATA", i) => WriteSend(w, i)
          BY <3>2 DEF Added, Origin, Carries
        <5> QED BY <1>2, <5>1 DEF Write
      <4>2. D \in Nat
        BY FlightType
      <4> QED BY <3>2, <4>1, <4>2 DEF Load
    <3>3. CASE Cut(e) /\ D' <= D
      BY <3>3 DEF Cut, Losing
    <3>4. D \in Nat
      BY FlightType
    <3>5. \/ D' = D
          \/ Taken(e) /\ D = D' + Load(Head(link[e]), "DATA", i)
          \/ Cut(e) /\ D' <= D
          \/ \E f \in Frames : Added(e, f) /\ D' = D + Load(f, "DATA", i)
      BY CountStep
    <3> HIDE DEF D, W
    <3> QED BY <3>1, <3>2, <3>3, <3>4, <3>5
  <2>4. /\ W' <= W
        /\ W' = W \/ Losing(e, i)
    <3>1. CASE Taken(w) /\ W = W' + Load(Head(link[w]), "WIN", i)
      <4> DEFINE f == Head(link[w])
      <4>1. f \in Frames /\ Receive(w)
        BY <1>w, <3>1, HeadType DEF Taken
      <4>2. W \in Nat /\ W' \in Nat /\ f.n \in Nat
        BY <1>w, <4>1, FlightType, FrameFields, CountStep
      <4>3. CASE Carries(f, "WIN", i)
        <5>1. i \notin live[w]
          BY <1>2, <4>1, <4>3 DEF Handles, Carries
        <5>2. W = W' + f.n
          BY <3>1, <4>3 DEF Load
        <5>3. W' <= W
          <6> HIDE DEF W, f
          <6> QED BY <4>2, <5>2
        <5> QED BY <4>1, <4>3, <5>1, <5>3 DEF Losing
      <4>4. CASE ~Carries(f, "WIN", i)
        <5>1. Load(f, "WIN", i) = 0
          BY <4>4 DEF Load
        <5>2. W' = W
          <6> HIDE DEF W, f
          <6> QED BY <3>1, <4>2, <5>1 DEF f
        <5> HIDE DEF W, f
        <5> QED BY <4>2, <5>2
      <4> QED BY <4>3, <4>4
    <3>2. ASSUME NEW f \in Frames, Added(w, f), W' = W + Load(f, "WIN", i)
          PROVE  W' = W
      <4>1. ~Carries(f, "WIN", i)
        <5>1. Carries(f, "WIN", i) => ReadCredit(e, i)
          BY <1>w, <3>2 DEF Added, Origin, Carries
        <5> QED BY <1>2, <5>1 DEF Reading
      <4>2. W \in Nat
        BY <1>w, FlightType
      <4> QED BY <3>2, <4>1, <4>2 DEF Load
    <3>3. CASE Cut(w) /\ W' <= W
      BY <3>3 DEF Cut, Losing
    <3>4. W \in Nat
      BY <1>w, FlightType
    <3>5. \/ W' = W
          \/ Taken(w) /\ W = W' + Load(Head(link[w]), "WIN", i)
          \/ Cut(w) /\ W' <= W
          \/ \E f \in Frames : Added(w, f) /\ W' = W + Load(f, "WIN", i)
      <4> HIDE DEF w
      <4> QED BY <1>w, CountStep
    <3> HIDE DEF D, W
    <3> QED BY <3>1, <3>2, <3>3, <3>4, <3>5
  <2>5. MoveNothing(e, i)
    BY <2>1, <2>2, <2>3, <2>4 DEF MoveNothing, WireRests
  <2> QED BY <2>5 DEF Moves
<1> QED BY <1>1, <1>2
-----------------------------------------------------------------------------
(* No unit is created, so the window is never exceeded.                    *)

Total(e, i) == Credited(e, i) + Flying(e, i) + Buffered(e, i) + Owed(e, i)
Bounded == \A e \in Ends, i \in Ids : Total(e, i) <= InitialWindow

LEMMA PlaceType ==
  ASSUME TypeOK, NEW e \in Ends, NEW i \in Ids
  PROVE  /\ sendWin[Peer(e)][i] \in Nat /\ wr[Peer(e)][i] \in Nat
         /\ sent[Peer(e)][i] \in Nat
         /\ buf[e][i] \in Nat /\ rd[e][i] \in Nat /\ got[e][i] \in Nat
         /\ InFlight("DATA", e, i) \in Nat /\ InFlight("WIN", Peer(e), i) \in Nat
  BY FlightType, EndsFacts DEF TypeOK, StrType, AppType

LEMMA InitTotal ==
  ASSUME Init, NEW e \in Ends, NEW i \in Ids
  PROVE  Total(e, i) = InitialWindow
<1>1. Peer(e) \in Ends
  BY EndsFacts
<1>2. link[e] = <<>> /\ link[Peer(e)] = <<>>
  BY <1>1 DEF Init, PerEnd
<1>3. InFlight("DATA", e, i) = 0 /\ InFlight("WIN", Peer(e), i) = 0
  BY <1>2, CountEmpty DEF InFlight, Count
<1>4. /\ sendWin[Peer(e)][i] = InitialWindow /\ wr[Peer(e)][i] = 0
      /\ buf[e][i] = 0 /\ rd[e][i] = 0
  BY <1>1 DEF Init, PerStream
<1> QED BY <1>3, <1>4, MuxAssumption
     DEF Total, Credited, Flying, Buffered, Owed, MuxAssumption

\* The arithmetic of the moves: credit, taken, DATA on its way, buffer, read, WIN
\* on its way.
Sum(c, x, d, b, r, k) == c + (x + d) + b + (r + k)

LEMMA SumType ==
  ASSUME NEW c \in Nat, NEW x \in Nat, NEW d \in Nat, NEW b \in Nat, NEW r \in Nat, NEW k \in Nat
  PROVE  Sum(c, x, d, b, r, k) \in Nat
  BY DEF Sum

LEMMA SumLoss ==
  ASSUME NEW c \in Nat, NEW x \in Nat, NEW d \in Nat, NEW b \in Nat, NEW r \in Nat, NEW k \in Nat,
         NEW c2 \in Nat, NEW x2 \in Nat, NEW d2 \in Nat, NEW b2 \in Nat, NEW r2 \in Nat,
         NEW k2 \in Nat,
         c2 = c /\ x2 <= x /\ d2 <= d /\ b2 = b /\ r2 <= r /\ k2 <= k
  PROVE  Sum(c2, x2, d2, b2, r2, k2) <= Sum(c, x, d, b, r, k)
  BY DEF Sum

LEMMA SumHolds ==
  ASSUME NEW c \in Nat, NEW x \in Nat, NEW d \in Nat, NEW n \in Nat, NEW b \in Nat,
         NEW r \in Nat, NEW k \in Nat, NEW w \in Nat, Sum(c, x, d + n, b, r, k) <= w
  PROVE  ~(b + n > w)
  BY DEF Sum

\* A move keeps the total, unless something is lost.
Lost(e, i) == Losing(e, i) \/ Trouble(e) \/ Trouble(Peer(e))

LEMMA MoveTotal ==
  ASSUME TypeOK, TypeOK', NEW e \in Ends, NEW i \in Ids, Moves(e, i)
  PROVE  /\ Total(e, i)' <= Total(e, i) /\ Total(e, i)' \in Nat /\ Total(e, i) \in Nat
         /\ Lost(e, i) \/ Total(e, i)' = Total(e, i)
<1> DEFINE w == Peer(e)
           c == sendWin[w][i]
           x == wr[w][i]
           d == InFlight("DATA", e, i)
           b == buf[e][i]
           r == rd[e][i]
           k == InFlight("WIN", w, i)
<1>a. c \in Nat /\ x \in Nat /\ d \in Nat /\ b \in Nat /\ r \in Nat /\ k \in Nat
  BY PlaceType
<1>b. c' \in Nat /\ x' \in Nat /\ b' \in Nat /\ r' \in Nat
  BY EndsFacts DEF TypeOK, StrType, AppType
<1>c. d' \in Nat /\ k' \in Nat
  <2>1. link'[e] \in Seq(Frames) /\ link'[w] \in Seq(Frames)
    BY EndsFacts DEF TypeOK, ConType
  <2> QED BY <2>1, WireFinite DEF InFlight
<1>t. /\ c \in Nat /\ x \in Nat /\ d \in Nat /\ b \in Nat /\ r \in Nat /\ k \in Nat
      /\ c' \in Nat /\ x' \in Nat /\ d' \in Nat /\ b' \in Nat /\ r' \in Nat /\ k' \in Nat
  BY <1>a, <1>b, <1>c
<1> DEFINE L == Lost(e, i)
           T == Sum(c, x, d, b, r, k)
           U == Sum(c', x', d', b', r', k')
           Goal == U <= T /\ (L \/ U = T)
<1>1. Total(e, i) = T /\ Total(e, i)' = U
  BY DEF Total, Credited, Flying, Buffered, Owed, Sum
<1>9. T \in Nat /\ U \in Nat
  <2> HIDE DEF c, x, d, b, r, k
  <2> QED BY <1>t, SumType
<1>e. U = T => U <= T
  <2> HIDE DEF T, U
  <2> QED BY <1>9
<1>2. ASSUME MoveNothing(e, i) PROVE Goal
  <2>1. c' = c /\ x' = x /\ b' = b /\ r' = r /\ d' <= d /\ k' <= k
    BY <1>2 DEF MoveNothing, ReaderRests, WriterRests
  <2>2. L \/ (d' = d /\ k' = k)
    BY <1>2 DEF MoveNothing, WireRests, Lost
  <2> HIDE DEF c, x, d, b, r, k, L
  <2>3. x' <= x /\ r' <= r
    BY <1>t, <2>1
  <2>4. U <= T
    BY <1>t, <2>1, <2>3, SumLoss
  <2>5. CASE d' = d /\ k' = k
    BY <2>1, <2>4, <2>5
  <2> QED BY <2>2, <2>4, <2>5
<1>3. ASSUME MoveTake(e, i) PROVE Goal
  <2>1. PICK n \in 1 .. c : c' = c - n /\ x' = n
    BY <1>3 DEF MoveTake
  <2>2. b' = b /\ r' = r /\ d' = d /\ k' = k /\ x = 0
    BY <1>3 DEF MoveTake, ReaderRests, WireRests
  <2> HIDE DEF c, x, d, b, r, k
  <2>3. U = T
    BY <1>t, <2>1, <2>2 DEF Sum
  <2> QED BY <1>e, <2>3
<1>4. ASSUME MoveFrame(e, i) PROVE Goal
  <2>1. b' = b /\ r' = r /\ c' = c /\ k' = k /\ x' = 0
    BY <1>4 DEF MoveFrame, ReaderRests
  <2>2. d' = d + x \/ (d' = d /\ L)
    BY <1>4 DEF MoveFrame, Lost
  <2> HIDE DEF c, x, d, b, r, k, L
  <2>3. CASE d' = d + x
    <3>1. U = T
      BY <1>t, <2>1, <2>3 DEF Sum
    <3> QED BY <1>e, <3>1
  <2>4. CASE d' = d /\ L
    <3>1. x' <= x /\ r' <= r /\ d' <= d /\ k' <= k
      BY <1>t, <2>1, <2>4
    <3>2. U <= T
      BY <1>t, <2>1, <3>1, SumLoss
    <3> QED BY <2>4, <3>2
  <2> QED BY <2>2, <2>3, <2>4
<1>5. ASSUME MoveArrive(e, i) PROVE Goal
  <2>1. PICK n \in Nat : d = d' + n /\ b' = b + n
    BY <1>5 DEF MoveArrive
  <2>2. c' = c /\ x' = x /\ r' = r /\ k' = k
    BY <1>5 DEF MoveArrive, WriterRests
  <2> HIDE DEF c, x, d, b, r, k
  <2>3. U = T
    BY <1>t, <2>1, <2>2 DEF Sum
  <2> QED BY <1>e, <2>3
<1>6. ASSUME MoveRead(e, i) PROVE Goal
  <2>1. PICK n \in 1 .. b : b' = b - n /\ r = 0 /\ r' = n
    BY <1>6 DEF MoveRead
  <2>2. c' = c /\ x' = x /\ d' = d /\ k' = k
    BY <1>6 DEF MoveRead, WriterRests, WireRests
  <2> HIDE DEF c, x, d, b, r, k
  <2>3. U = T
    BY <1>t, <2>1, <2>2 DEF Sum
  <2> QED BY <1>e, <2>3
<1>7. ASSUME MoveCredit(e, i) PROVE Goal
  <2>1. c' = c /\ x' = x /\ d' = d /\ b' = b /\ r' = 0
    BY <1>7 DEF MoveCredit, WriterRests
  <2>2. k' = k + r \/ (k' = k /\ L)
    BY <1>7 DEF MoveCredit, Lost
  <2> HIDE DEF c, x, d, b, r, k, L
  <2>3. CASE k' = k + r
    <3>1. U = T
      BY <1>t, <2>1, <2>3 DEF Sum
    <3> QED BY <1>e, <3>1
  <2>4. CASE k' = k /\ L
    <3>1. x' <= x /\ r' <= r /\ d' <= d /\ k' <= k
      BY <1>t, <2>1, <2>4
    <3>2. U <= T
      BY <1>t, <2>1, <3>1, SumLoss
    <3> QED BY <2>4, <3>2
  <2> QED BY <2>2, <2>3, <2>4
<1>8. ASSUME MoveRestore(e, i) PROVE Goal
  <2>1. PICK n \in Nat : k = k' + n /\ c' = c + n
    BY <1>8 DEF MoveRestore
  <2>2. x' = x /\ d' = d /\ b' = b /\ r' = r
    BY <1>8 DEF MoveRestore, ReaderRests
  <2> HIDE DEF c, x, d, b, r, k
  <2>3. U = T
    BY <1>t, <2>1, <2>2 DEF Sum
  <2> QED BY <1>e, <2>3
<1>10. Goal
  <2> HIDE DEF Goal
  <2> QED BY <1>2, <1>3, <1>4, <1>5, <1>6, <1>7, <1>8 DEF Moves
<1> HIDE DEF T, U
<1> QED BY <1>1, <1>9, <1>10

LEMMA BoundedStep ==
  TypeOK /\ WakeInv /\ SynOnce /\ Order /\ Bounded /\ [Next]_vars => Bounded'
<1> SUFFICES ASSUME TypeOK, WakeInv, SynOnce, Order, Bounded, [Next]_vars,
                    NEW e \in Ends, NEW i \in Ids
             PROVE  (Total(e, i) <= InitialWindow)'
  BY DEF Bounded
<1>1. TypeOK' /\ Total(e, i) <= InitialWindow
  BY TypeStep DEF Bounded
<1>2. Total(e, i)' <= Total(e, i) /\ Total(e, i)' \in Nat /\ Total(e, i) \in Nat
  BY <1>1, MovesStep, MoveTotal
<1>3. InitialWindow \in Nat
  BY MuxAssumption DEF MuxAssumption
<1> QED BY <1>1, <1>2, <1>3

\* A DATA frame on its way fits into the buffer.
LEMMA Fits ==
  ASSUME TypeOK, Bounded, NEW e \in Ends, link[e] # <<>>, NEW i \in Ids,
         Carries(Head(link[e]), "DATA", i)
  PROVE  ~Overruns(e, Head(link[e]))
<1> DEFINE f == Head(link[e])
           D == InFlight("DATA", e, i)
           n == Count(Tail(link[e]), "DATA", i)
<1>1. link[e] \in Seq(Frames) /\ Tail(link[e]) \in Seq(Frames) /\ f \in Frames
  BY HeadType DEF TypeOK, ConType
<1>2. D = n + Load(f, "DATA", i)
  BY <1>1, CountTail DEF InFlight, Count
<1>3. n \in Nat
  BY <1>1, WireFinite DEF Count
<1>4. Load(f, "DATA", i) = f.n /\ f.n \in Nat /\ f.id = i
  BY <1>1, FrameFields DEF Load, Carries
<1>5. /\ sendWin[Peer(e)][i] \in Nat /\ wr[Peer(e)][i] \in Nat
      /\ D \in Nat /\ buf[e][i] \in Nat /\ rd[e][i] \in Nat
      /\ InFlight("WIN", Peer(e), i) \in Nat /\ InitialWindow \in Nat
  BY PlaceType, MuxAssumption DEF MuxAssumption
<1>6. Sum(sendWin[Peer(e)][i], wr[Peer(e)][i], n + f.n, buf[e][i], rd[e][i],
          InFlight("WIN", Peer(e), i)) <= InitialWindow
  BY <1>2, <1>4 DEF Bounded, Total, Credited, Flying, Buffered, Owed, Sum
<1> DEFINE m  == f.n
           c1 == sendWin[Peer(e)][i]
           c2 == wr[Peer(e)][i]
           c3 == buf[e][i]
           c4 == rd[e][i]
           c5 == InFlight("WIN", Peer(e), i)
<1>8. /\ c1 \in Nat /\ c2 \in Nat /\ n \in Nat /\ m \in Nat /\ c3 \in Nat /\ c4 \in Nat
      /\ c5 \in Nat /\ InitialWindow \in Nat
  BY <1>3, <1>4, <1>5
<1>9. Sum(c1, c2, n + m, c3, c4, c5) <= InitialWindow
  BY <1>6
<1>7. ~(buf[e][i] + f.n > InitialWindow)
  <2> HIDE DEF f, n, m, c1, c2, c3, c4, c5
  <2>1. ~(c3 + m > InitialWindow)
    BY ONLY <1>8, <1>9, SumHolds
  <2> QED BY <2>1 DEF c3, m
<1> HIDE DEF f, n
<1> QED BY <1>4, <1>7 DEF Overruns, f

LEMMA FaultStep ==
  TypeOK /\ Bounded /\ NoOverrun /\ [Next]_vars => NoOverrun'
<1> SUFFICES ASSUME TypeOK, Bounded, NoOverrun, [Next]_vars PROVE UNCHANGED fault
  BY DEF NoOverrun
<1>1. ASSUME NEW e \in Ends, Receive(e) PROVE UNCHANGED fault
  <2> DEFINE f == Head(link[e])
  <2>1. f.flag = "DATA" /\ f.id \in live[e] => ~Overruns(e, f)
    <3>1. f.id \in live[e] => f.id \in Ids
      BY DEF TypeOK, StrType
    <3> QED BY <1>1, <3>1, Fits DEF Receive, Carries
  <2> HIDE DEF f
  <2>2. \/ f.flag = "SYN"    /\ RecvSYN(e, f)
        \/ f.flag = "DATA"   /\ RecvDATA(e, f)
        \/ f.flag = "FIN"    /\ RecvFIN(e, f)
        \/ f.flag = "RST"    /\ RecvRST(e, f)
        \/ f.flag = "WIN"    /\ RecvWIN(e, f)
        \/ f.flag = "GOAWAY" /\ RecvGOAWAY(e, f)
    BY <1>1 DEF Receive, f
  <2> QED
    BY <2>1, <2>2 DEF RecvSYN, RecvDATA, RecvFIN, RecvRST, RecvWIN, RecvGOAWAY
<1>2. ASSUME NEW e \in Ends, ReadLoop(e) PROVE UNCHANGED fault
  BY <1>1, <1>2 DEF ReadLoop, ReceiveFails, RlRegister, RlOffer, RlReset, RlRetire,
     RlAbort, sesVars
<1>3. ASSUME NEW e \in Ends, TearDown(e) PROVE UNCHANGED fault
  BY <1>3, TearFootprint DEF TearKeeps
<1>4. ASSUME NEW e \in Ends, NEW i \in Ids,
             OpenSend(e, i) \/ Reading(e, i) \/ Write(e, i) \/ Close(e, i)
      PROVE  UNCHANGED fault
  BY <1>4, StreamFootprint DEF ReadKeeps, WriteKeeps, CloseKeeps, OpenSend, sesVars
<1>5. ASSUME NEW e \in Ends, OpenRegister(e) \/ Accept(e) \/ SessionEnds(e)
      PROVE  UNCHANGED fault
  BY <1>5 DEF OpenRegister, Accept, SessionEnds, SessionClose, KeepAliveCloses
<1>6. CASE LinkDrop \/ UNCHANGED vars
  BY <1>6 DEF LinkDrop, vars, sesVars
<1> QED BY <1>2, <1>3, <1>4, <1>5, <1>6 DEF Next

FlowInv == TypeOK /\ WakeInv /\ SynOnce /\ Order /\ Bounded /\ NoOverrun

LEMMA InitFlow == Init => FlowInv
<1> SUFFICES ASSUME Init PROVE FlowInv
  OBVIOUS
<1>1. TypeOK /\ WakeInv /\ SynOnce /\ Order
  BY InitType, InitWake, InitTable, InitOrder
<1>2. Bounded
  <2>1. InitialWindow <= InitialWindow
    BY MuxAssumption DEF MuxAssumption
  <2> QED BY <2>1, InitTotal DEF Bounded
<1>3. NoOverrun
  BY DEF Init, NoOverrun
<1> QED BY <1>1, <1>2, <1>3 DEF FlowInv

LEMMA FlowStep == FlowInv /\ [Next]_vars => FlowInv'
  BY TypeStep, WakeStep, SynOnceStep, OrderStep, BoundedStep, FaultStep
  DEF FlowInv, WakeInv

\* stream.go pushData: the buffer never exceeds the window, since what Write
\* takes from sendWin, frames on their way, the buffer and what Read has not
\* returned never hold more than InitialWindow units together.
THEOREM WindowRespected == Spec => []NoOverrun
<1>1. FlowInv => NoOverrun
  BY DEF FlowInv
<1> QED BY InitFlow, FlowStep, <1>1, PTL DEF Spec

\* session.go Open, handleSYN: an id that enters the table of an end has not been
\* used there, and no frame that end sent for it is on its way.
THEOREM IdsAreNew == Spec => IdsComeOnce
<1>1. ASSUME FlowInv, [Next]_vars, NEW d \in Ends, NEW i \in Ids, i \in live'[d] \ live[d]
      PROVE  EntersUnused(d, i)
  <2> DEFINE p == Peer(d)
  <2>p. p \in Ends /\ Peer(p) = d
    BY EndsFacts
  <2>1. \/ OpenRegister(d) /\ i = nextID[d]
        \/ RlRegister(d) /\ i = rl[d].id
    BY <1>1, TableEnters DEF FlowInv
  <2>i. TypeOK /\ WakeInv /\ Order
    BY <1>1 DEF FlowInv
  <2>2. Unused(d, i) /\ NoFrame(link[p], i)
    <3>1. CASE OpenRegister(d) /\ i = nextID[d]
      <4>1. i \in Own(d)
        BY <2>i, <3>1 DEF WakeInv, FreshIds, Own
      <4>2. Unsent(p, i)
        <5>1. i >= nextID[d]
          BY <2>i, <3>1 DEF TypeOK, SesType
        <5> QED BY <2>p, <5>1 DEF Unsent
      <4> QED BY <2>p, <2>i, <4>1, <4>2 DEF Order, OrderInv
    <3>2. CASE RlRegister(d) /\ i = rl[d].id
      <4>1. Registering(d, i)
        BY <2>i, <3>2 DEF RlRegister, Registering, TypeOK, LoopType
      <4>2. i \notin Own(d)
        BY <2>i, <3>2 DEF RlRegister, WakeInv, HandOwner
      <4>3. i \in Own(p)
        BY <4>2, OwnCovers
      <4> QED BY <2>i, <4>1, <4>3 DEF Order, OrderInv, Strange
    <3> QED BY <2>1, <3>1, <3>2
  <2> QED BY <2>2 DEF EntersUnused, Unused, NoFrame
<1>2. FlowInv /\ [Next]_vars
      => [\A e \in Ends, i \in Ids : i \in live'[e] \ live[e] => EntersUnused(e, i)]_vars
  BY <1>1
<1> QED BY InitFlow, FlowStep, <1>2, PTL DEF Spec, IdsComeOnce
-----------------------------------------------------------------------------
(* While both sessions are open, no unit is lost.                          *)

\* closeWithError goes through its steps in order.
PhaseInv ==
    \A d \in Ends :
       /\ d \in closed => phase[d] \in {"conn", "sweep", "closed"}
       /\ d \notin conn => phase[d] \in {"sweep", "closed"}

LEMMA PhaseMoves ==
  ASSUME TypeOK, [Next]_vars, NEW d \in Ends
  PROVE  LET stays == (d \in closed' <=> d \in closed) /\ (d \in conn' <=> d \in conn)
         IN  \/ stays /\ phase'[d] = phase[d]
             \/ stays /\ phase[d] \in {"open", "goaway"} /\ phase'[d] \in {"goaway", "mark"}
             \/ phase[d] = "mark" /\ phase'[d] = "conn" /\ (d \in conn' <=> d \in conn)
             \/ phase[d] = "conn" /\ phase'[d] = "sweep"
             \/ stays /\ phase[d] = "sweep" /\ phase'[d] = "closed"
<1> DEFINE stays == (d \in closed' <=> d \in closed) /\ (d \in conn' <=> d \in conn)
           Goal == \/ stays /\ phase'[d] = phase[d]
                   \/ stays /\ phase[d] \in {"open", "goaway"} /\ phase'[d] \in {"goaway", "mark"}
                   \/ phase[d] = "mark" /\ phase'[d] = "conn" /\ (d \in conn' <=> d \in conn)
                   \/ phase[d] = "conn" /\ phase'[d] = "sweep"
                   \/ stays /\ phase[d] = "sweep" /\ phase'[d] = "closed"
<1> SUFFICES Goal
  OBVIOUS
<1>1. ASSUME NEW e \in Ends, UNCHANGED <<closed, conn>>,
             UNCHANGED phase \/ (phase[e] = "open" /\ phase' = [phase EXCEPT ![e] = "goaway"])
      PROVE  Goal
  BY <1>1 DEF TypeOK, SesType
<1>2. ASSUME NEW e \in Ends, Receive(e) \/ ReceiveFails(e) \/ SessionEnds(e) PROVE Goal
  <2> HIDE DEF Goal
  <2> QED
    BY <1>1, <1>2 DEF Receive, ReceiveFails, SessionEnds, SessionClose, KeepAliveCloses, RecvSYN, RecvDATA, RecvFIN,
       RecvRST, RecvWIN, RecvGOAWAY, Closing
<1>3. ASSUME NEW e \in Ends, NEW from, NEW to, phase[e] = from,
             phase' = [phase EXCEPT ![e] = to]
      PROVE  \/ phase'[d] = phase[d] /\ d # e
             \/ phase[d] = from /\ phase'[d] = to /\ d = e
  BY <1>3 DEF TypeOK, SesType
<1>4. ASSUME NEW e \in Ends, TearGoaway(e) PROVE Goal
  BY <1>3, <1>4 DEF TearGoaway, Advance, After
<1>5. ASSUME NEW e \in Ends, TearMark(e) PROVE Goal
  BY <1>3, <1>5 DEF TearMark, Advance, After
<1>6. ASSUME NEW e \in Ends, TearConn(e) PROVE Goal
  BY <1>3, <1>6 DEF TearConn, Advance, After
<1>7. ASSUME NEW e \in Ends, TearSweep(e) PROVE Goal
  BY <1>3, <1>7 DEF TearSweep, Advance, After
<1>8. ASSUME UNCHANGED <<closed, conn, phase>> PROVE Goal
  BY <1>8
<1>9. ASSUME NEW e \in Ends, ReadLoop(e) \/ TearDown(e) PROVE Goal
  <2> HIDE DEF Goal
  <2> QED
    BY <1>2, <1>4, <1>5, <1>6, <1>7, <1>8, <1>9
    DEF ReadLoop, TearDown, sesVars, RlRegister, RlOffer, RlReset, RlRetire, RlAbort
<1>10. ASSUME NEW e \in Ends, NEW i \in Ids,
              OpenSend(e, i) \/ Reading(e, i) \/ Write(e, i) \/ Close(e, i)
       PROVE  Goal
  <2> HIDE DEF Goal
  <2> QED BY <1>8, <1>10, StreamFootprint DEF ReadKeeps, WriteKeeps, CloseKeeps, OpenSend, sesVars
<1>11. ASSUME NEW e \in Ends, OpenRegister(e) \/ Accept(e) PROVE Goal
  <2> HIDE DEF Goal
  <2> QED BY <1>8, <1>11 DEF OpenRegister, Accept
<1>12. CASE LinkDrop \/ UNCHANGED vars
  BY <1>8, <1>12 DEF LinkDrop, vars, sesVars
<1> HIDE DEF Goal
<1> QED BY <1>2, <1>9, <1>10, <1>11, <1>12 DEF Next

LEMMA PhaseStep == TypeOK /\ PhaseInv /\ [Next]_vars => PhaseInv'
  BY PhaseMoves DEF PhaseInv

LEMMA UpStep ==
  ASSUME TypeOK, [Next]_vars, up'
  PROVE  up /\ ~LinkDrop
<1>1. ~LinkDrop
  BY DEF LinkDrop
<1> DEFINE Goal == up
<1>2. ASSUME UNCHANGED up PROVE Goal
  BY <1>2
<1>3. ASSUME NEW e \in Ends, ReadLoop(e) \/ TearDown(e) PROVE Goal
  BY <1>2, <1>3, LoopFootprint, TearFootprint DEF LoopKeeps, TearKeeps
<1>4. ASSUME NEW e \in Ends, NEW i \in Ids,
             OpenSend(e, i) \/ Reading(e, i) \/ Write(e, i) \/ Close(e, i)
      PROVE  Goal
  BY <1>2, <1>4, StreamFootprint DEF ReadKeeps, WriteKeeps, CloseKeeps, OpenSend
<1>5. ASSUME NEW e \in Ends, OpenRegister(e) \/ Accept(e) \/ SessionEnds(e) PROVE Goal
  BY <1>2, <1>5 DEF OpenRegister, Accept, SessionEnds, SessionClose, KeepAliveCloses, conVars
<1>6. ASSUME UNCHANGED vars PROVE Goal
  BY <1>6 DEF vars, conVars
<1>7. Goal
  <2> HIDE DEF Goal
  <2> QED BY <1>1, <1>3, <1>4, <1>5, <1>6 DEF Next
<1> QED BY <1>1, <1>7

LEMMA ConnShrinks ==
  ASSUME [Next]_vars
  PROVE  conn' \subseteq conn
<1>1. ASSUME UNCHANGED conn PROVE conn' \subseteq conn
  BY <1>1
<1>2. ASSUME NEW e \in Ends, TearDown(e) PROVE conn' \subseteq conn
  BY <1>2 DEF TearDown, TearGoaway, TearMark, TearConn, TearSweep
<1>3. ASSUME NEW e \in Ends, ReadLoop(e) PROVE conn' \subseteq conn
  BY <1>1, <1>3, LoopFootprint DEF LoopKeeps
<1>4. ASSUME NEW e \in Ends, NEW i \in Ids,
             OpenSend(e, i) \/ Reading(e, i) \/ Write(e, i) \/ Close(e, i)
      PROVE  conn' \subseteq conn
  BY <1>1, <1>4, StreamFootprint DEF ReadKeeps, WriteKeeps, CloseKeeps, OpenSend, sesVars
<1>5. ASSUME NEW e \in Ends, OpenRegister(e) \/ Accept(e) \/ SessionEnds(e)
      PROVE  conn' \subseteq conn
  BY <1>1, <1>5 DEF OpenRegister, Accept, SessionEnds, SessionClose, KeepAliveCloses
<1>6. CASE LinkDrop \/ UNCHANGED vars
  BY <1>1, <1>6 DEF LinkDrop, vars, sesVars
<1> QED BY <1>2, <1>3, <1>4, <1>5, <1>6 DEF Next

\* Nothing has begun to end.
Calm == up /\ \A d \in Ends : phase[d] = "open"

LEMMA CalmStep ==
  ASSUME TypeOK, PhaseInv, [Next]_vars, Calm'
  PROVE  Calm /\ ~LinkDrop /\ \A d \in Ends : ~TearConn(d) /\ ~Trouble(d)
<1>1. up /\ ~LinkDrop
  BY UpStep DEF Calm
<1>2. ASSUME NEW d \in Ends PROVE phase[d] = "open"
  BY PhaseMoves DEF Calm
<1>3. ASSUME NEW d \in Ends PROVE ~TearConn(d)
  BY <1>2 DEF TearConn, Advance
<1>4. ASSUME NEW d \in Ends PROVE d \notin closed /\ d \in conn
  BY <1>2 DEF PhaseInv
<1>5. ASSUME NEW d \in Ends PROVE ~Trouble(d)
  BY <1>1, <1>4, EndsFacts DEF Trouble
<1> QED BY <1>1, <1>2, <1>3, <1>5 DEF Calm

\* A stream its opener has registered and its acceptor will, or has.
Joined(p, i) ==
    /\ i \in live[Peer(p)]
    /\ i \in live[p] \/ i \in opening[Peer(p)] \/ HasSyn(link[p], i) \/ Registering(p, i)
Kept ==
    Calm => \A p \in Ends : \A i \in Own(Peer(p)) :
               Joined(p, i) => /\ Total(p, i) = InitialWindow
                               /\ Total(Peer(p), i) = InitialWindow

\* A stream is joined from its OpenRegister on, or never.
LEMMA JoinedBegins ==
  ASSUME TypeOK, WakeInv, FreshIds', SynOnce, [Next]_vars,
         NEW p \in Ends, NEW i \in Own(Peer(p)), Joined(p, i)'
  PROVE  Joined(p, i) \/ Unsent(p, i)
<1> DEFINE o == Peer(p)
<1>o. o \in Ends /\ Peer(o) = p /\ i \in Ids /\ i \in Nat /\ i \notin Own(p)
  BY EndsFacts, IdsFacts, OwnDisjoint
<1>f. HandOwner /\ FreshIds
  BY DEF WakeInv
<1>1. CASE i \notin live[o]
  <2>1. i \in live'[o]
    BY DEF Joined
  <2>2. OpenRegister(o) /\ i = nextID[o]
    <3> HIDE DEF o
    <3>1. i \in Own(o)
      BY <1>o DEF o
    <3> QED BY <1>1, <1>f, <1>o, <2>1, <3>1, OwnEnters
  <2>3. i >= nextID[o]
    BY <2>2, <1>o DEF TypeOK, SesType
  <2> QED BY <2>3 DEF Unsent
<1>2. CASE i \in live[o] /\ ~Unsent(p, i)
  <2>1. i \notin opening[o] /\ ~(i >= nextID[o])
    BY <1>2 DEF Unsent
  <2>2. CASE i \in live'[p] /\ i \notin live[p]
    <3>1. RlRegister(p) /\ i = rl[p].id
      <4>1. \/ i \in opening'[p]
            \/ RlRegister(p) /\ i = rl[p].id
        BY <2>2, TableEnters
      <4>2. i \notin opening'[p]
        BY <1>o DEF FreshIds
      <4> QED BY <4>1, <4>2
    <3>2. Registering(p, i)
      BY <3>1 DEF RlRegister, Registering, TypeOK, LoopType
    <3> QED BY <1>2, <3>2 DEF Joined
  <2>3. CASE i \in opening'[o]
    <3>1. i \in held[o]
      <4> HIDE DEF o
      <4>1. i \in Own(o)
        BY <1>o DEF o
      <4>2. i # nextID[o]
        BY <1>o, <2>1 DEF TypeOK, SesType
      <4> QED BY <1>f, <1>o, <2>1, <2>3, <4>1, <4>2, OwnEnters
    <3>2. i \in held'[o]
      BY <3>1, <1>o, HeldGrows
    <3> QED BY <2>3, <3>2, <1>o DEF FreshIds
  <2>4. CASE HasSyn(link'[p], i) \/ Registering(p, i)'
    <3>1. Strange(p, i)'
      BY <2>4 DEF Strange
    <3>2. Strange(p, i)
      BY <1>f, <3>1, StrangeShrinks
    <3> QED BY <1>2, <3>2 DEF Strange, Joined
  <2>5. CASE i \in live[p]
    BY <1>2, <2>5 DEF Joined
  <2> QED BY <2>2, <2>3, <2>4, <2>5 DEF Joined
<1> QED BY <1>1, <1>2

\* Nothing of a joined stream is lost: what arrives finds it in the table.
LEMMA JoinedKeeps ==
  ASSUME TypeOK, PhaseInv, Order, Bounded, [Next]_vars, Calm',
         NEW p \in Ends, NEW i \in Own(Peer(p)), Joined(p, i) \/ Unsent(p, i)
  PROVE  ~Lost(p, i) /\ ~Lost(Peer(p), i)
<1> DEFINE o == Peer(p)
<1>o. o \in Ends /\ Peer(o) = p /\ i \in Ids
  BY EndsFacts, IdsFacts
<1>1. /\ OrderInv(p, i)
      /\ ~LinkDrop /\ \A d \in Ends : ~TearConn(d) /\ ~Trouble(d)
  BY CalmStep DEF Order
<1>2. ASSUME Receive(p), Head(link[p]).id = i, ~IsSyn(Head(link[p]), i) PROVE i \in live[p]
  <2>1. Strange(p, i) => FALSE
    BY <1>1, <1>2, StrangeHears
  <2> QED BY <2>1 DEF Strange, Joined, Unsent
<1>3. ASSUME Receive(o), Head(link[o]).id = i PROVE i \in live[o]
  <2>1. link[o] \in Seq(Frames) /\ link[o] # <<>>
    BY <1>o, <1>3 DEF TypeOK, ConType, Receive
  <2>2. ~NoFrame(link[o], i)
    BY <1>3, <2>1, FrameTail
  <2>3. ~Unsent(p, i)
    BY <1>1, <2>2 DEF OrderInv, Strange
  <2> QED BY <2>3 DEF Joined
<1>4. ASSUME NEW d \in Ends, Receive(d), Carries(Head(link[d]), "DATA", i)
      PROVE  ~Overruns(d, Head(link[d]))
  BY <1>o, <1>4, Fits DEF Receive
<1>5. ASSUME NEW d \in Ends, Receive(d),
             Carries(Head(link[d]), "DATA", i) \/ Carries(Head(link[d]), "WIN", i)
      PROVE  i \in live[d]
  <2>1. Head(link[d]).id = i /\ ~IsSyn(Head(link[d]), i)
    BY <1>5 DEF Carries, IsSyn
  <2>2. d = p \/ d = o
    BY EndsFacts DEF Ends, Peer
  <2> QED BY <1>2, <1>3, <1>5, <2>1, <2>2
<1>6. ASSUME NEW d \in Ends PROVE ~Losing(d, i)
  BY <1>1, <1>4, <1>5, EndsFacts DEF Losing
<1>7. ~Losing(p, i) /\ ~Losing(o, i) /\ ~Trouble(p) /\ ~Trouble(o)
  BY <1>1, <1>6, <1>o
<1> QED BY <1>7, <1>o DEF Lost

\* Before its SYN is sent, a stream has its whole window.
LEMMA UnsentFull ==
  ASSUME TypeOK, Order, NEW p \in Ends, NEW i \in Own(Peer(p)), Unsent(p, i)
  PROVE  Total(p, i) = InitialWindow /\ Total(Peer(p), i) = InitialWindow
<1> DEFINE o == Peer(p)
<1>o. o \in Ends /\ Peer(o) = p
  BY EndsFacts
<1>1. Unused(p, i) /\ Unused(o, i) /\ NoFrame(link[p], i) /\ NoFrame(link[o], i)
  BY DEF Order, OrderInv, Strange
<1>2. ASSUME NEW d \in Ends, NoFrame(link[d], i), NEW flag PROVE InFlight(flag, d, i) = 0
  <2>1. link[d] \in Seq(Frames)
    BY DEF TypeOK, ConType
  <2>2. \A k \in 1 .. Len(link[d]) : ~Carries(link[d][k], flag, i)
    BY <1>2 DEF NoFrame, Carries
  <2> QED BY <2>1, <2>2, CountNothing DEF InFlight, Count
<1>3. ASSUME NEW e \in Ends, Unused(e, i), Unused(Peer(e), i), NoFrame(link[e], i),
             NoFrame(link[Peer(e)], i)
      PROVE  Total(e, i) = InitialWindow
  <2>1. InFlight("DATA", e, i) = 0 /\ InFlight("WIN", Peer(e), i) = 0
    BY <1>2, <1>3, EndsFacts
  <2>2. /\ sendWin[Peer(e)][i] = InitialWindow /\ wr[Peer(e)][i] = 0
        /\ buf[e][i] = 0 /\ rd[e][i] = 0
    BY <1>3 DEF Unused
  <2> QED BY <2>1, <2>2, MuxAssumption
       DEF Total, Credited, Flying, Buffered, Owed, MuxAssumption
<1> HIDE DEF o
<1>4. Total(p, i) = InitialWindow
  BY <1>1, <1>3 DEF o
<1>5. Total(o, i) = InitialWindow
  BY <1>1, <1>3, <1>o
<1> QED BY <1>4, <1>5 DEF o

LEMMA KeptStep == FlowInv /\ PhaseInv /\ Kept /\ [Next]_vars => Kept'
<1> SUFFICES ASSUME FlowInv, PhaseInv, Kept, [Next]_vars, Calm',
                    NEW p \in Ends, NEW i \in Own(Peer(p)), Joined(p, i)'
             PROVE  (/\ Total(p, i) = InitialWindow
                     /\ Total(Peer(p), i) = InitialWindow)'
  BY DEF Kept
<1>1. /\ TypeOK /\ WakeInv /\ SynOnce /\ Order /\ Bounded /\ TypeOK' /\ FreshIds'
      /\ i \in Ids /\ Peer(p) \in Ends
  BY FlowStep, EndsFacts, IdsFacts DEF FlowInv, WakeInv
<1>2. Joined(p, i) \/ Unsent(p, i)
  BY <1>1, JoinedBegins
<1>3. Total(p, i) = InitialWindow /\ Total(Peer(p), i) = InitialWindow
  BY <1>1, <1>2, CalmStep, UnsentFull DEF Kept
<1>4. ~Lost(p, i) /\ ~Lost(Peer(p), i)
  BY <1>1, <1>2, JoinedKeeps
<1>5. Total(p, i)' = Total(p, i)
  BY <1>1, <1>4, MovesStep, MoveTotal
<1>6. Total(Peer(p), i)' = Total(Peer(p), i)
  BY <1>1, <1>4, MovesStep, MoveTotal
<1> QED BY <1>3, <1>5, <1>6

\* stream.go Read, Write, pushData, addSendWindow: while the connection and
\* the stream live at both ends, what the four places of a window hold adds up
\* to InitialWindow exactly, so a writer without credit has some on its way.
THEOREM WindowKept == Spec => []NoUnitLost
<1>1. Init => PhaseInv /\ Kept
  <2>1. Init => PhaseInv
    BY DEF Init, PhaseInv
  <2>2. Init => Kept
    BY InitTotal, EndsFacts, IdsFacts DEF Kept
  <2> QED BY <2>1, <2>2
<1>2. FlowInv /\ PhaseInv /\ Kept /\ [Next]_vars => PhaseInv' /\ Kept'
  BY PhaseStep, KeptStep DEF FlowInv
<1>3. Kept => NoUnitLost
  <2> SUFFICES ASSUME Kept, NEW e \in Ends, NEW i \in Ids, Calm,
                      i \in live[e], i \in live[Peer(e)]
               PROVE  Total(e, i) = InitialWindow
    BY DEF NoUnitLost, Calm, Total
  <2>1. CASE i \in Own(Peer(e))
    BY <2>1 DEF Kept, Joined
  <2>2. CASE i \in Own(e)
    BY <2>2, EndsFacts DEF Kept, Joined
  <2> QED BY <2>1, <2>2, OwnCovers
<1> QED BY InitFlow, FlowStep, <1>1, <1>2, <1>3, PTL DEF Spec
-----------------------------------------------------------------------------
(* An io.EOF stands for everything the peer has written.                   *)

HasFin(s, i) == \E k \in 1 .. Len(s) : Carries(s[k], "FIN", i)
FinLast(s, i) ==
    \A j, k \in 1 .. Len(s) : j < k /\ Carries(s[j], "FIN", i) => ~Carries(s[k], "DATA", i)

\* A stream that takes DATA frames, or will.
CanTake(e, i) == i \in live[e] \/ (i \in Own(Peer(e)) /\ Strange(e, i))
Arrives(e, i) == (up /\ e \in conn) \/ HasFin(link[e], i)
Balanced(e, i) == got[e][i] + buf[e][i] + InFlight("DATA", e, i) = sent[Peer(e)][i]

\* Close comes after the last Write.
Settled(w, i) ==
    /\ cl[w][i] # "open" => i \in finSent[w]
    /\ i \in finSent[w] => wr[w][i] = 0
Complete(e, i) == InFlight("DATA", e, i) = 0 /\ got[e][i] + buf[e][i] = sent[Peer(e)][i]

FinInv(e, i) ==
    /\ Settled(Peer(e), i)
    /\ HasFin(link[e], i) => cl[Peer(e)][i] = "done"
    /\ FinLast(link[e], i)
    /\ CanTake(e, i) /\ Arrives(e, i) => Balanced(e, i)
    /\ i \in finRecv[e] => i \in finSent[Peer(e)] /\ Complete(e, i)
    /\ rend[e][i] = "eof" => i \in finRecv[e] /\ buf[e][i] = 0
Fins == \A e \in Ends, i \in Ids : FinInv(e, i)

LEMMA FinTail ==
  ASSUME NEW s \in Seq(Frames), s # <<>>, NEW i
  PROVE  /\ HasFin(Tail(s), i) => HasFin(s, i)
         /\ Carries(Head(s), "FIN", i) => HasFin(s, i)
         /\ FinLast(s, i) => FinLast(Tail(s), i)
         /\ FinLast(s, i) /\ Carries(Head(s), "FIN", i) => Count(s, "DATA", i) = 0
<1> DEFINE t == Tail(s)
<1>1. /\ Len(t) = Len(s) - 1 /\ Head(s) = s[1] /\ Len(s) \in Nat \ {0}
      /\ \A k \in 1 .. Len(t) : t[k] = s[k + 1]
  OBVIOUS
<1> HIDE DEF t
<1>2. /\ \A k \in 1 .. Len(t) : k + 1 \in 1 .. Len(s)
      /\ \A j, k \in 1 .. Len(t) : j < k => j + 1 < k + 1
      /\ 1 \in 1 .. Len(s)
      /\ \A k \in 1 .. Len(s) : k = 1 \/ 1 < k
  BY <1>1
<1>3. HasFin(t, i) => HasFin(s, i)
  BY <1>1, <1>2 DEF HasFin
<1>4. Carries(Head(s), "FIN", i) => HasFin(s, i)
  BY <1>1, <1>2 DEF HasFin
<1>5. FinLast(s, i) => FinLast(t, i)
  <2> SUFFICES ASSUME FinLast(s, i), NEW j \in 1 .. Len(t), NEW k \in 1 .. Len(t), j < k,
                      Carries(t[j], "FIN", i)
               PROVE  ~Carries(t[k], "DATA", i)
    BY DEF FinLast
  <2>1. t[j] = s[j + 1] /\ t[k] = s[k + 1] /\ j + 1 < k + 1
    BY <1>1, <1>2
  <2>2. j + 1 \in 1 .. Len(s) /\ k + 1 \in 1 .. Len(s)
    BY <1>2
  <2> QED BY <2>1, <2>2 DEF FinLast
<1>6. ASSUME FinLast(s, i), Carries(Head(s), "FIN", i) PROVE Count(s, "DATA", i) = 0
  <2>1. ASSUME NEW k \in 1 .. Len(s) PROVE ~Carries(s[k], "DATA", i)
    <3>1. CASE k = 1
      BY <1>1, <1>6, <3>1 DEF Carries
    <3>2. CASE 1 < k
      BY <1>1, <1>2, <1>6, <3>2 DEF FinLast
    <3> QED BY <1>2, <3>1, <3>2
  <2> QED BY <2>1, CountNothing
<1> QED BY <1>3, <1>4, <1>5, <1>6 DEF t

\* A prefix that keeps the FIN keeps the data.
LEMMA FinPrefix ==
  ASSUME NEW s \in Seq(Frames), NEW m \in 0 .. Len(s), NEW i
  PROVE  LET t == SubSeq(s, 1, m)
         IN  /\ HasFin(t, i) => HasFin(s, i)
             /\ FinLast(s, i) => FinLast(t, i)
             /\ FinLast(s, i) /\ HasFin(t, i) => Count(t, "DATA", i) = Count(s, "DATA", i)
<1> DEFINE t == SubSeq(s, 1, m)
<1>1. /\ Len(t) = m /\ m \in Nat /\ Len(s) \in Nat
      /\ \A k \in 1 .. Len(t) : k \in 1 .. Len(s) /\ t[k] = s[k] /\ k <= m
  OBVIOUS
<1>2. (\A k \in 1 .. Len(s) : k > m => ~Carries(s[k], "DATA", i))
        => Count(t, "DATA", i) = Count(s, "DATA", i)
  BY CountPrefix
<1> HIDE DEF t
<1>3. HasFin(t, i) => HasFin(s, i)
  BY <1>1 DEF HasFin
<1>4. FinLast(s, i) => FinLast(t, i)
  BY <1>1 DEF FinLast
<1>5. ASSUME FinLast(s, i), HasFin(t, i) PROVE Count(t, "DATA", i) = Count(s, "DATA", i)
  <2>1. PICK j \in 1 .. Len(t) : Carries(t[j], "FIN", i)
    BY <1>5 DEF HasFin
  <2>2. j \in 1 .. Len(s) /\ Carries(s[j], "FIN", i) /\ j <= m
    BY <1>1, <2>1
  <2>3. \A k \in 1 .. Len(s) : k > m => j < k
    BY <1>1, <2>2
  <2> QED BY <1>2, <1>5, <2>2, <2>3 DEF FinLast
<1> QED BY <1>3, <1>4, <1>5 DEF t

LEMMA FinAppend ==
  ASSUME NEW s \in Seq(Frames), NEW f \in Frames, NEW i
  PROVE  /\ HasFin(Append(s, f), i) => HasFin(s, i) \/ Carries(f, "FIN", i)
         /\ FinLast(s, i) /\ ~(Carries(f, "DATA", i) /\ HasFin(s, i))
              => FinLast(Append(s, f), i)
<1> DEFINE t == Append(s, f)
<1>1. /\ Len(t) = Len(s) + 1 /\ t[Len(s) + 1] = f /\ Len(s) \in Nat
      /\ \A k \in 1 .. Len(s) : t[k] = s[k]
  OBVIOUS
<1> HIDE DEF t
<1>2. /\ \A k \in 1 .. Len(t) : k \in 1 .. Len(s) \/ k = Len(s) + 1
      /\ \A j, k \in 1 .. Len(t) : j < k => j \in 1 .. Len(s)
  BY <1>1
<1>3. HasFin(t, i) => HasFin(s, i) \/ Carries(f, "FIN", i)
  BY <1>1, <1>2 DEF HasFin
<1>4. ASSUME FinLast(s, i), ~(Carries(f, "DATA", i) /\ HasFin(s, i)) PROVE FinLast(t, i)
  <2> SUFFICES ASSUME NEW j \in 1 .. Len(t), NEW k \in 1 .. Len(t), j < k,
                      Carries(t[j], "FIN", i)
               PROVE  ~Carries(t[k], "DATA", i)
    BY DEF FinLast
  <2>1. j \in 1 .. Len(s) /\ Carries(s[j], "FIN", i)
    BY <1>1, <1>2
  <2>2. CASE k \in 1 .. Len(s)
    BY <1>1, <1>4, <2>1, <2>2 DEF FinLast
  <2>3. CASE k = Len(s) + 1
    BY <1>1, <1>4, <2>1, <2>3 DEF HasFin
  <2> QED BY <1>2, <2>2, <2>3
<1> QED BY <1>3, <1>4 DEF t

\* Close and Write of one end.
LEMMA SettledStep ==
  ASSUME ~LateWrites, TypeOK, WakeInv, SynOnce, Order, [Next]_vars,
         NEW w \in Ends, NEW i \in Ids, Settled(w, i)
  PROVE  /\ Settled(w, i)'
         /\ i \in finSent[w] => i \in finSent'[w] /\ sent'[w][i] = sent[w][i]
         /\ cl[w][i] = "done" => cl'[w][i] = "done"
<1> DEFINE Goal == /\ Settled(w, i)'
                   /\ i \in finSent[w] => i \in finSent'[w] /\ sent'[w][i] = sent[w][i]
                   /\ cl[w][i] = "done" => cl'[w][i] = "done"
<1> SUFFICES Goal
  OBVIOUS
<1>t. /\ finSent \in [Ends -> SUBSET Ids] /\ wr \in [Ends -> [Ids -> Nat]]
      /\ sent \in [Ends -> [Ids -> Nat]] /\ cl[w] \in [Ids -> {"open", "retire", "fin", "done"}]
      /\ cl \in [Ends -> [Ids -> {"open", "retire", "fin", "done"}]]
  BY DEF TypeOK, StrType, AppType
<1>1. CASE Quiet(w, i) \/ Begins(w, i)
  BY <1>1, BeginsQuietly DEF Quiet, Settled
<1>2. CASE Reading(w, i)
  BY <1>2, StreamFootprint DEF ReadKeeps, flags, writeVars, Settled
<1>3. CASE Handles(w, i)
  <2>1. UNCHANGED <<finSent, wr, sent, cl>>
    BY <1>3 DEF Handles, Receive, RecvSYN, RecvDATA, RecvFIN, RecvRST, RecvWIN, RecvGOAWAY,
       strVars, flags, appVars, writeVars
  <2> QED BY <2>1 DEF Settled
<1>4. CASE Write(w, i)
  <2>1. UNCHANGED <<finSent, cl>>
    BY <1>4, StreamFootprint DEF WriteKeeps, flags
  <2>2. CASE i \notin finSent[w]
    BY <2>1, <2>2 DEF Settled
  <2>3. CASE i \in finSent[w]
    <3>1. wr[w][i] = 0
      BY <2>3 DEF Settled
    <3>2. ~WriteTake(w, i) /\ ~WriteSend(w, i) /\ ~WriteError(w, i)
      BY <2>3, <3>1 DEF WriteTake, WriteSend, WriteError, Writes
    <3> QED BY <1>4, <3>2 DEF Write
  <2> QED BY <2>2, <2>3
<1>5. CASE StreamClose(w, i)
  <2>1. UNCHANGED <<wr, sent>> /\ wr[w][i] = 0 /\ i \in finSent'[w] /\ cl[w][i] = "open"
    BY <1>5, <1>t DEF StreamClose, writeVars, Set
  <2> QED BY <2>1 DEF Settled
<1>6. CASE StreamCloseRetire(w, i) \/ StreamCloseSend(w, i)
  <2>1. UNCHANGED <<wr, sent, finSent>>
    BY <1>6 DEF StreamCloseRetire, StreamCloseSend, writeVars, strVars, flags
  <2>2. cl[w][i] \in {"retire", "fin"}
    BY <1>6 DEF StreamCloseRetire, StreamCloseSend
  <2> QED BY <2>1, <2>2 DEF Settled
<1> HIDE DEF Goal
<1> QED BY <1>1, <1>2, <1>3, <1>4, <1>5, <1>6, Locally DEF Close

\* The FIN follows the last DATA frame.
LEMMA FinWire ==
  ASSUME ~LateWrites, TypeOK, WakeInv, SynOnce, Order, [Next]_vars,
         NEW e \in Ends, NEW i \in Ids, FinInv(e, i)
  PROVE  /\ HasFin(link'[e], i) => cl'[Peer(e)][i] = "done"
         /\ FinLast(link'[e], i)
         /\ HasFin(link'[e], i) => Arrives(e, i)
<1> DEFINE w == Peer(e)
<1>w. w \in Ends /\ link[e] \in Seq(Frames)
  BY EndsFacts DEF TypeOK, ConType
<1>1. /\ Settled(w, i)
      /\ HasFin(link[e], i) => cl[w][i] = "done"
      /\ FinLast(link[e], i)
  BY DEF FinInv
<1> HIDE DEF w
<1>2. cl[w][i] = "done" => cl'[w][i] = "done"
  BY <1>w, <1>1, SettledStep
<1>3. CASE Taken(e)
  BY <1>w, <1>1, <1>2, <1>3, FinTail DEF Taken, Arrives, w
<1>4. CASE Cut(e)
  BY <1>w, <1>1, <1>2, <1>4, FinPrefix DEF Cut, Arrives, w
<1>5. ASSUME NEW f \in Frames, Added(e, f)
      PROVE  /\ HasFin(link'[e], i) => cl'[w][i] = "done"
             /\ FinLast(link'[e], i)
  <2>1. link'[e] = Append(link[e], f) /\ Origin(w, f)
    BY <1>5 DEF Added, w
  <2>2. Carries(f, "FIN", i) => cl'[w][i] = "done"
    <3>1. Carries(f, "FIN", i) => StreamCloseSend(w, i)
      BY <2>1 DEF Origin, Carries
    <3>2. StreamCloseSend(w, i) => cl'[w][i] = "done"
      BY <1>w DEF StreamCloseSend, TypeOK, AppType
    <3> QED BY <3>1, <3>2
  <2>3. Carries(f, "DATA", i) => ~HasFin(link[e], i)
    <3>1. Carries(f, "DATA", i) => WriteSend(w, i)
      BY <2>1 DEF Origin, Carries
    <3>2. WriteSend(w, i) => wr[w][i] # 0
      BY <1>w DEF WriteSend, TypeOK, AppType
    <3> QED BY <1>1, <3>1, <3>2 DEF Settled
  <2> QED BY <1>w, <1>1, <1>2, <2>1, <2>2, <2>3, FinAppend
<1>6. ASSUME NEW f \in Frames, Added(e, f) PROVE Arrives(e, i)
  BY <1>6 DEF Added, Arrives
<1>7. CASE link'[e] = link[e]
  BY <1>1, <1>2, <1>7 DEF Arrives, w
<1> HIDE DEF Arrives
<1> QED BY <1>3, <1>4, <1>5, <1>6, <1>7, Wire DEF w

LEMMA ArrivesShrinks ==
  ASSUME ~LateWrites, TypeOK, WakeInv, SynOnce, Order, [Next]_vars,
         NEW e \in Ends, NEW i \in Ids, FinInv(e, i), Arrives(e, i)'
  PROVE  Arrives(e, i)
<1>1. CASE HasFin(link'[e], i)
  BY <1>1, FinWire
<1>2. CASE up' /\ e \in conn'
  <2>1. up
    BY <1>2, UpStep
  <2>2. conn' \subseteq conn
    BY ConnShrinks
  <2> QED BY <1>2, <2>1, <2>2 DEF Arrives
<1> QED BY <1>1, <1>2 DEF Arrives

\* finRecv is set by a FIN.
LEMMA FinRecvEnters ==
  ASSUME TypeOK, WakeInv, SynOnce, Order, [Next]_vars, NEW e \in Ends, NEW i \in Ids
  PROVE  /\ i \in finRecv[e] => i \in finRecv'[e]
         /\ i \in finRecv'[e] => \/ i \in finRecv[e]
                                 \/ Handles(e, i) /\ Carries(Head(link[e]), "FIN", i)
<1>1. CASE Quiet(e, i) \/ Begins(e, i)
  BY <1>1, BeginsQuietly DEF Quiet
<1>2. CASE Reading(e, i) \/ Write(e, i) \/ Close(e, i)
  BY <1>2, StreamFootprint DEF ReadKeeps, WriteKeeps, CloseKeeps, flags
<1>3. CASE Handles(e, i)
  <2> DEFINE f == Head(link[e])
  <2>1. finRecv' = finRecv \/ (f.flag = "FIN" /\ finRecv' = Set(finRecv, e, f.id))
    BY <1>3 DEF Handles, Receive, RecvSYN, RecvDATA, RecvFIN, RecvRST, RecvWIN, RecvGOAWAY,
       strVars, flags
  <2>2. f.id = i
    BY <1>3 DEF Handles
  <2> HIDE DEF f
  <2>3. CASE f.flag = "FIN" /\ finRecv' = Set(finRecv, e, f.id)
    <3>1. i \in finRecv'[e]
      BY <2>2, <2>3 DEF Set, TypeOK, StrType
    <3> QED BY <1>3, <2>2, <2>3, <3>1 DEF Carries, f
  <2> QED BY <2>1, <2>3
<1> QED BY <1>1, <1>2, <1>3, Locally

\* A stream begins to take data with nothing on its way.
LEMMA TakeEnters ==
  ASSUME TypeOK, WakeInv, SynOnce, Order, [Next]_vars, NEW e \in Ends, NEW i \in Ids,
         CanTake(e, i)'
  PROVE  \/ CanTake(e, i)
         \/ /\ Unused(e, i) /\ Unused(Peer(e), i) /\ NoFrame(link[e], i)
<1> DEFINE w == Peer(e)
<1>w. w \in Ends /\ Peer(w) = e
  BY EndsFacts
<1>1. CASE i \in Own(w) /\ Strange(e, i)'
  <2>1. Strange(e, i)
    BY <1>1, StrangeShrinks DEF WakeInv
  <2> QED BY <1>1, <2>1 DEF CanTake
<1>2. CASE i \in live'[e] /\ i \notin live[e]
  <2>1. \/ OpenRegister(e) /\ i = nextID[e]
        \/ RlRegister(e) /\ i = rl[e].id
    BY <1>2, TableEnters
  <2>2. CASE OpenRegister(e) /\ i = nextID[e]
    <3>1. i \in Own(e)
      BY <2>2 DEF WakeInv, FreshIds, Own
    <3>2. Unsent(w, i)
      <4>1. i >= nextID[e]
        BY <2>2 DEF TypeOK, SesType
      <4> QED BY <1>w, <4>1 DEF Unsent
    <3>3. OrderInv(w, i)
      BY <1>w, <3>1 DEF Order
    <3> HIDE DEF w
    <3> QED BY <1>w, <3>2, <3>3 DEF OrderInv, Strange, w
  <2>3. CASE RlRegister(e) /\ i = rl[e].id
    <3>1. Registering(e, i)
      BY <2>3 DEF RlRegister, Registering, TypeOK, LoopType
    <3>2. i \notin Own(e)
      BY <2>3 DEF RlRegister, WakeInv, HandOwner
    <3> QED BY <3>1, <3>2, OwnCovers DEF CanTake, Strange
  <2> QED BY <2>1, <2>2, <2>3
<1>3. CASE i \in live[e]
  BY <1>3 DEF CanTake
<1> QED BY <1>1, <1>2, <1>3 DEF CanTake

LEMMA UnusedBalanced ==
  ASSUME TypeOK, NEW e \in Ends, NEW i \in Ids,
         Unused(e, i), Unused(Peer(e), i), NoFrame(link[e], i)
  PROVE  Balanced(e, i)
<1>1. link[e] \in Seq(Frames)
  BY DEF TypeOK, ConType
<1>2. \A k \in 1 .. Len(link[e]) : ~Carries(link[e][k], "DATA", i)
  BY DEF NoFrame, Carries
<1>3. InFlight("DATA", e, i) = 0
  BY <1>1, <1>2, CountNothing DEF InFlight, Count
<1>4. got[e][i] = 0 /\ buf[e][i] = 0 /\ sent[Peer(e)][i] = 0
  BY DEF Unused
<1> QED BY <1>3, <1>4 DEF Balanced

\* What is on its way to a stream that takes data is not lost.
LEMMA DataKept ==
  ASSUME ~LateWrites, TypeOK, WakeInv, SynOnce, Order, Bounded, [Next]_vars,
         NEW e \in Ends, NEW i \in Ids, FinInv(e, i), Arrives(e, i)',
         CanTake(e, i) \/ NoFrame(link[e], i), MoveNothing(e, i)
  PROVE  InFlight("DATA", e, i)' = InFlight("DATA", e, i)
<1> DEFINE s == link[e]
           t == link'[e]
           D == InFlight("DATA", e, i)
<1> SUFFICES D' = D
  OBVIOUS
<1>1. s \in Seq(Frames) /\ D \in Nat /\ D' \in Nat /\ D' <= D
  BY CountStep DEF TypeOK, ConType, MoveNothing
<1>2. CASE Taken(e) /\ D = D' + Load(Head(s), "DATA", i)
  <2>1. ~Carries(Head(s), "DATA", i) \/ i \in live[e]
    <3>1. SUFFICES ASSUME Carries(Head(s), "DATA", i), i \notin live[e] PROVE FALSE
      OBVIOUS
    <3>2. Head(s).id = i /\ ~IsSyn(Head(s), i)
      BY <3>1 DEF Carries, IsSyn
    <3>3. ~NoFrame(s, i)
      BY <1>1, <1>2, <3>2, FrameTail DEF Taken
    <3>4. i \in Own(Peer(e)) /\ Strange(e, i)
      BY <3>1, <3>3 DEF CanTake
    <3>5. OrderInv(e, i)
      BY <3>4 DEF Order
    <3> QED BY <1>2, <3>2, <3>4, <3>5, StrangeHears DEF Taken
  <2>2. ASSUME Carries(Head(s), "DATA", i), i \in live[e] PROVE D' = D
    <3> DEFINE f == Head(s)
    <3>1. Handles(e, i) /\ f.flag = "DATA" /\ ~Overruns(e, f)
      BY <1>2, <2>2, Fits DEF Handles, Taken, Carries
    <3>2. buf'[e][i] = buf[e][i] + f.n
      BY <3>1, HandleEffect
    <3>3. buf'[e][i] = buf[e][i] /\ buf[e][i] \in Nat
      BY PlaceType DEF MoveNothing, ReaderRests
    <3>4. f.n \in Nat /\ Load(f, "DATA", i) = f.n
      BY <1>2, <2>2, HeadType, FrameFields DEF Taken, Load
    <3>5. f.n = 0
      <4> HIDE DEF f
      <4> QED BY <3>2, <3>3, <3>4
    <3> HIDE DEF D, f
    <3> QED BY <1>1, <1>2, <3>4, <3>5 DEF f
  <2>3. ASSUME ~Carries(Head(s), "DATA", i) PROVE D' = D
    <3>1. Load(Head(s), "DATA", i) = 0
      BY <2>3 DEF Load
    <3> HIDE DEF D
    <3> QED BY <1>1, <1>2, <3>1
  <2> HIDE DEF D
  <2> QED BY <2>1, <2>2, <2>3
<1>3. CASE Cut(e)
  <2>1. PICK m \in 0 .. Len(s) : t = SubSeq(s, 1, m)
    BY <1>3 DEF Cut
  <2>2. HasFin(t, i)
    <3>1. LinkDrop => ~up'
      BY DEF LinkDrop
    <3>2. TearConn(e) => e \notin conn'
      BY DEF TearConn
    <3> QED BY <1>3, <3>1, <3>2 DEF Cut, Arrives
  <2>3. FinLast(s, i)
    BY DEF FinInv
  <2>4. Count(t, "DATA", i) = Count(s, "DATA", i)
    BY <1>1, <2>1, <2>2, <2>3, FinPrefix
  <2> QED BY <2>4 DEF InFlight, Count
<1>4. ASSUME NEW f \in Frames, Added(e, f), D' = D + Load(f, "DATA", i) PROVE D' = D
  <2>1. Load(f, "DATA", i) \in Nat
    BY FrameFields DEF Load
  <2> HIDE DEF D
  <2> QED BY <1>1, <1>4, <2>1
<1>5. \/ D' = D
      \/ Taken(e) /\ D = D' + Load(Head(s), "DATA", i)
      \/ Cut(e)
      \/ \E f \in Frames : Added(e, f) /\ D' = D + Load(f, "DATA", i)
  BY CountStep
<1> HIDE DEF D
<1> QED BY <1>2, <1>3, <1>4, <1>5

\* Units are neither lost nor made up between the peer's Write and Read.
LEMMA BalanceStep ==
  ASSUME ~LateWrites, TypeOK, WakeInv, SynOnce, Order, Bounded, [Next]_vars,
         NEW e \in Ends, NEW i \in Ids, FinInv(e, i), CanTake(e, i)', Arrives(e, i)'
  PROVE  Balanced(e, i)'
<1> DEFINE w == Peer(e)
           D == InFlight("DATA", e, i)
           g == got[e][i]
           b == buf[e][i]
           x == sent[w][i]
<1>w. w \in Ends
  BY EndsFacts
<1>a. Arrives(e, i)
  BY ArrivesShrinks
<1>b. /\ CanTake(e, i) \/ NoFrame(link[e], i)
      /\ g + b + D = x
  <2>1. \/ CanTake(e, i)
        \/ Unused(e, i) /\ Unused(w, i) /\ NoFrame(link[e], i)
    BY TakeEnters
  <2> QED BY <1>a, <2>1, UnusedBalanced DEF FinInv, Balanced
<1>t. /\ D \in Nat /\ g \in Nat /\ b \in Nat /\ x \in Nat /\ wr[w][i] \in Nat
      /\ D' \in Nat
  BY <1>w, PlaceType, CountStep
<1> DEFINE Goal == g' + b' + D' = x'
<1> SUFFICES Goal
  BY DEF Balanced
<1>1. ASSUME MoveNothing(e, i) PROVE Goal
  <2>1. g' = g /\ b' = b /\ x' = x
    BY <1>1 DEF MoveNothing, ReaderRests, WriterRests
  <2>2. D' = D
    BY <1>1, <1>b, DataKept
  <2> HIDE DEF g, b, x, D
  <2> QED BY <1>b, <2>1, <2>2
<1>2. ASSUME MoveTake(e, i) PROVE Goal
  <2>1. g' = g /\ b' = b /\ x' = x /\ D' = D
    BY <1>2 DEF MoveTake, ReaderRests, WireRests
  <2> HIDE DEF g, b, x, D
  <2> QED BY <1>b, <2>1
<1>3. ASSUME MoveFrame(e, i) PROVE Goal
  <2>1. g' = g /\ b' = b
    BY <1>3 DEF MoveFrame, ReaderRests
  <2>2. \/ D' = D + wr[w][i] /\ x' = x + wr[w][i]
        \/ D' = D /\ x' = x
        \/ ~(up /\ e \in conn)
    BY <1>3 DEF MoveFrame
  <2>3. up /\ e \in conn
    <3>1. ~HasFin(link[e], i)
      <4>1. HasFin(link[e], i) => wr[w][i] = 0
        BY DEF FinInv, Settled
      <4>2. wr[w][i] > 0
        BY <1>3 DEF MoveFrame
      <4> QED BY <4>1, <4>2, <1>t
    <3> QED BY <1>a, <3>1 DEF Arrives
  <2> HIDE DEF g, b, x, D
  <2> QED BY <1>b, <1>t, <2>1, <2>2, <2>3
<1>4. ASSUME MoveArrive(e, i) PROVE Goal
  <2>1. PICK n \in Nat : D = D' + n /\ b' = b + n
    BY <1>4 DEF MoveArrive
  <2>2. g' = g /\ x' = x
    BY <1>4 DEF MoveArrive, WriterRests
  <2> DEFINE c == D'
  <2>3. c \in Nat /\ c = D'
    BY <1>t
  <2> HIDE DEF g, b, x, D, c
  <2>4. g + (b + n) + c = g + b + (c + n)
    BY <1>t, <2>1, <2>3
  <2>5. g + b + (c + n) = x
    BY <1>b, <2>1, <2>3
  <2>6. g' + b' + c = g + (b + n) + c
    BY <2>1, <2>2
  <2> QED BY <2>2, <2>3, <2>4, <2>5, <2>6
<1>5. ASSUME MoveRead(e, i) PROVE Goal
  <2>1. PICK n \in 1 .. b : b' = b - n /\ g' = g + n
    BY <1>5 DEF MoveRead
  <2>2. D' = D /\ x' = x
    BY <1>5 DEF MoveRead, WriterRests, WireRests
  <2>3. (g + n) + (b - n) + D = g + b + D
    <3>1. n \in Int
      BY <2>1
    <3> HIDE DEF g, b, x, D
    <3> QED BY <1>t, <3>1
  <2>4. g' + b' + D' = (g + n) + (b - n) + D
    BY <2>1, <2>2
  <2>5. g + b + D = x'
    BY <1>b, <2>2
  <2> QED BY <2>3, <2>4, <2>5
<1>6. ASSUME MoveCredit(e, i) \/ MoveRestore(e, i) PROVE Goal
  <2>1. g' = g /\ b' = b /\ x' = x /\ D' = D
    BY <1>6 DEF MoveCredit, MoveRestore, ReaderRests, WriterRests
  <2> HIDE DEF g, b, x, D
  <2> QED BY <1>b, <2>1
<1> HIDE DEF Goal
<1> QED BY <1>1, <1>2, <1>3, <1>4, <1>5, <1>6, MovesStep DEF Moves

\* After the FIN nothing more comes.
LEMMA CompleteStep ==
  ASSUME ~LateWrites, TypeOK, WakeInv, SynOnce, Order, [Next]_vars,
         NEW e \in Ends, NEW i \in Ids, FinInv(e, i), i \in finSent[Peer(e)], Complete(e, i)
  PROVE  /\ Complete(e, i)'
         /\ buf[e][i] = 0 => buf'[e][i] = 0
<1> DEFINE w == Peer(e)
           D == InFlight("DATA", e, i)
           g == got[e][i]
           b == buf[e][i]
           x == sent[w][i]
<1>w. w \in Ends
  BY EndsFacts
<1>t. D \in Nat /\ g \in Nat /\ b \in Nat /\ x \in Nat /\ D' \in Nat
  BY <1>w, PlaceType, CountStep
<1>0. D = 0 /\ g + b = x /\ x' = x /\ wr[w][i] = 0
  <2>1. Settled(w, i)
    BY DEF FinInv
  <2>2. sent'[w][i] = sent[w][i]
    <3> HIDE DEF w
    <3>1. i \in finSent[w]
      BY DEF w
    <3> QED BY <1>w, <2>1, <3>1, SettledStep
  <2> QED BY <2>1, <2>2 DEF Complete, Settled
<1> DEFINE Goal == D' = 0 /\ g' + b' = x' /\ (b = 0 => b' = 0)
<1> SUFFICES Goal
  BY DEF Complete
<1>1. ASSUME MoveNothing(e, i) PROVE Goal
  <2>1. g' = g /\ b' = b /\ D' <= D
    BY <1>1 DEF MoveNothing, ReaderRests
  <2> HIDE DEF g, b, x, D
  <2> QED BY <1>0, <1>t, <2>1
<1>2. ASSUME MoveTake(e, i) PROVE Goal
  <2>1. g' = g /\ b' = b /\ D' = D
    BY <1>2 DEF MoveTake, ReaderRests, WireRests
  <2> HIDE DEF g, b, x, D
  <2> QED BY <1>0, <2>1
<1>3. ~MoveFrame(e, i)
  BY <1>0 DEF MoveFrame
<1>4. ASSUME MoveArrive(e, i) PROVE Goal
  <2>1. PICK n \in Nat : D = D' + n /\ b' = b + n
    BY <1>4 DEF MoveArrive
  <2>2. g' = g
    BY <1>4 DEF MoveArrive
  <2> HIDE DEF g, b, x, D
  <2>4. D' + n = 0
    BY <1>0, <2>1
  <2>5. n = 0
    BY <1>t, <2>1, <2>4
  <2>3. n = 0 /\ D' = 0
    BY <1>t, <2>4, <2>5
  <2> QED BY <1>0, <1>t, <2>1, <2>2, <2>3
<1>5. ASSUME MoveRead(e, i) PROVE Goal
  <2>1. PICK n \in 1 .. b : b' = b - n /\ g' = g + n
    BY <1>5 DEF MoveRead
  <2>2. D' = D
    BY <1>5 DEF MoveRead, WireRests
  <2> HIDE DEF g, b, x, D
  <2> QED BY <1>0, <1>t, <2>1, <2>2
<1>6. ASSUME MoveCredit(e, i) \/ MoveRestore(e, i) PROVE Goal
  <2>1. g' = g /\ b' = b /\ D' = D
    BY <1>6 DEF MoveCredit, MoveRestore, ReaderRests
  <2> HIDE DEF g, b, x, D
  <2> QED BY <1>0, <2>1
<1> HIDE DEF Goal
<1> QED BY <1>1, <1>2, <1>3, <1>4, <1>5, <1>6, MovesStep DEF Moves

\* The FIN arrives after all the data.
LEMMA FinCompletes ==
  ASSUME TypeOK, NEW e \in Ends, NEW i \in Ids, FinInv(e, i), Handles(e, i),
         Carries(Head(link[e]), "FIN", i)
  PROVE  i \in finSent'[Peer(e)] /\ Complete(e, i)'
<1> DEFINE w == Peer(e)
           f == Head(link[e])
           D == InFlight("DATA", e, i)
<1>w. w \in Ends /\ w # e
  BY EndsFacts
<1>1. link[e] \in Seq(Frames) /\ link[e] # <<>>
  BY DEF Handles, Receive, TypeOK, ConType
<1>2. HasFin(link[e], i) /\ D = 0
  BY <1>1, FinTail DEF FinInv, InFlight, Count
<1>3. i \in finSent[w] /\ got[e][i] + buf[e][i] = sent[w][i]
  <2>1. i \in finSent[w] /\ Balanced(e, i)
    BY <1>2 DEF FinInv, Settled, Handles, CanTake, Arrives
  <2>2. got[e][i] \in Nat /\ buf[e][i] \in Nat
    BY PlaceType
  <2> QED BY <1>2, <2>1, <2>2 DEF Balanced
<1>4. finSent' = finSent
  BY DEF Handles, Receive, RecvSYN, RecvDATA, RecvFIN, RecvRST, RecvWIN, RecvGOAWAY,
     strVars, flags
<1>5. /\ D = D' + Load(f, "DATA", i) /\ D' \in Nat
      /\ sent'[w][i] = sent[w][i] /\ got'[e][i] = got[e][i]
  BY HandleEffect DEF WriterRests
<1>6. buf'[e][i] = buf[e][i]
  BY HandleEffect DEF Carries
<1>7. Load(f, "DATA", i) = 0
  BY DEF Load, Carries
<1>8. D' = 0
  <2> HIDE DEF D, f
  <2> QED BY <1>2, <1>5, <1>7
<1> QED BY <1>3, <1>4, <1>5, <1>6, <1>8 DEF Complete

\* Read returns io.EOF from an empty buffer, after the FIN.
LEMMA EofEnters ==
  ASSUME TypeOK, WakeInv, SynOnce, Order, [Next]_vars, NEW e \in Ends, NEW i \in Ids,
         rend'[e][i] = "eof"
  PROVE  \/ rend[e][i] = "eof"
         \/ i \in finRecv[e] /\ buf[e][i] = 0 /\ UNCHANGED <<buf, finRecv>>
<1>1. CASE Quiet(e, i) \/ Begins(e, i)
  BY <1>1, BeginsQuietly DEF Quiet
<1>2. CASE Write(e, i) \/ Close(e, i)
  BY <1>2, StreamFootprint DEF WriteKeeps, CloseKeeps, readVars
<1>3. CASE Handles(e, i)
  BY <1>3 DEF Handles, Receive, appVars, readVars
<1>4. CASE ReadData(e, i) \/ ReadCredit(e, i)
  BY <1>4 DEF ReadData, ReadCredit
<1>5. CASE ReadEnd(e, i)
  <2>1. ReadVerdict(e, i) = "eof" /\ UNCHANGED <<buf, finRecv>>
    BY <1>5 DEF ReadEnd, strVars, flags, TypeOK, AppType
  <2>2. buf[e][i] \in Nat
    BY DEF TypeOK, StrType
  <2>3. i \in finRecv[e] /\ ~(buf[e][i] > 0)
    BY <2>1 DEF ReadVerdict
  <2> QED BY <2>1, <2>2, <2>3
<1> QED BY <1>1, <1>2, <1>3, <1>4, <1>5, Locally DEF Reading

LEMMA FinStep ==
  ASSUME ~LateWrites, TypeOK, WakeInv, SynOnce, Order, Bounded, [Next]_vars,
         NEW e \in Ends, NEW i \in Ids, FinInv(e, i)
  PROVE  FinInv(e, i)'
<1> DEFINE w == Peer(e)
<1>w. w \in Ends
  BY EndsFacts
<1>0. Settled(w, i)
  BY DEF FinInv
<1> HIDE DEF w
<1>1. Settled(w, i)' /\ (i \in finSent[w] => i \in finSent'[w])
  BY <1>0, <1>w, SettledStep
<1>2. /\ HasFin(link'[e], i) => cl'[w][i] = "done"
      /\ FinLast(link'[e], i)
  BY FinWire DEF w
<1>3. (CanTake(e, i) /\ Arrives(e, i) => Balanced(e, i))'
  BY BalanceStep
<1>4. i \in finRecv'[e] => i \in finSent'[w] /\ Complete(e, i)'
  <2>1. ASSUME i \in finRecv[e] PROVE i \in finSent'[w] /\ Complete(e, i)'
    <3>1. i \in finSent[w] /\ Complete(e, i)
      BY <2>1 DEF FinInv, w
    <3> QED BY <1>1, <3>1, CompleteStep DEF w
  <2>2. ASSUME Handles(e, i), Carries(Head(link[e]), "FIN", i)
        PROVE  i \in finSent'[w] /\ Complete(e, i)'
    BY <2>2, FinCompletes DEF w
  <2> QED BY <2>1, <2>2, FinRecvEnters
<1>5. rend'[e][i] = "eof" => i \in finRecv'[e] /\ buf'[e][i] = 0
  <2>1. ASSUME rend[e][i] = "eof" PROVE i \in finRecv'[e] /\ buf'[e][i] = 0
    <3>1. /\ i \in finRecv[e] /\ buf[e][i] = 0
          /\ i \in finSent[Peer(e)] /\ Complete(e, i)
      BY <2>1 DEF FinInv
    <3> QED BY <3>1, CompleteStep, FinRecvEnters
  <2> QED BY <2>1, EofEnters
<1> QED BY <1>1, <1>2, <1>3, <1>4, <1>5 DEF FinInv, w

LEMMA InitFins == Init => Fins
<1> SUFFICES ASSUME Init, NEW e \in Ends, NEW i \in Ids PROVE FinInv(e, i)
  BY DEF Fins
<1> DEFINE w == Peer(e)
<1>w. w \in Ends
  BY EndsFacts
<1>1. /\ cl[w][i] = "open" /\ i \notin finSent[w] /\ link[e] = <<>>
      /\ i \notin finRecv[e] /\ rend[e][i] = "open"
      /\ got[e][i] = 0 /\ buf[e][i] = 0 /\ sent[w][i] = 0
  BY <1>w DEF Init, PerEnd, PerStream
<1>2. InFlight("DATA", e, i) = 0
  BY <1>1, CountEmpty DEF InFlight, Count
<1>3. ~HasFin(link[e], i) /\ FinLast(link[e], i)
  BY <1>1 DEF HasFin, FinLast
<1> QED BY <1>1, <1>2, <1>3 DEF FinInv, Settled, Balanced

\* stream.go Read, remoteClosed: an io.EOF comes after everything the peer's
\* Writes have framed, whatever breaks, if the application does not write
\* during or after Close.
THEOREM EofAfterData ==
  ASSUME ~LateWrites
  PROVE  Spec => []EofIsComplete
<1>1. FlowInv /\ Fins /\ [Next]_vars => Fins'
  BY FinStep DEF FlowInv, Fins
<1>2. FlowInv /\ Fins => EofIsComplete
  <2> SUFFICES ASSUME TypeOK, Fins, NEW e \in Ends, NEW i \in Ids, rend[e][i] = "eof"
               PROVE  got[e][i] = sent[Peer(e)][i]
    BY DEF EofIsComplete, FlowInv
  <2>1. got[e][i] + buf[e][i] = sent[Peer(e)][i] /\ buf[e][i] = 0
    BY DEF Fins, FinInv, Complete
  <2>2. got[e][i] \in Nat
    BY PlaceType
  <2> QED BY <2>1, <2>2
<1> QED BY InitFlow, FlowStep, InitFins, <1>1, <1>2, PTL DEF Spec
-----------------------------------------------------------------------------
(* Each direction of stream 1 implements FlowControl.                      *)

\* A step of FlowControl, as a relation of its four counters before and after,
\* without the window being overrun.
FlowMoves(c, f, b, o, c2, f2, b2, o2) ==
    \/ \E n \in 1 .. c : c2 = c - n /\ f2 = f + n /\ b2 = b /\ o2 = o
    \/ \E n \in 1 .. f : /\ f2 = f - n /\ b2 = b + n /\ c2 = c /\ o2 = o
                         /\ ~(b + n > InitialWindow)
    \/ \E n \in 1 .. b : b2 = b - n /\ o2 = o + n /\ c2 = c /\ f2 = f
    \/ \E n \in 1 .. o : o2 = o - n /\ c2 = c + n /\ f2 = f /\ b2 = b
    \/ f2 \in 0 .. f /\ o2 \in 0 .. o /\ c2 = c /\ b2 = b

LEMMA AsLose ==
  ASSUME NEW c, NEW b, NEW f \in Nat, NEW o \in Nat, NEW f2 \in Nat, NEW o2 \in Nat,
         f2 <= f, o2 <= o
  PROVE  FlowMoves(c, f, b, o, c, f2, b, o2)
<1>1. f2 \in 0 .. f /\ o2 \in 0 .. o
  OBVIOUS
<1> QED BY <1>1 DEF FlowMoves

LEMMA AsTake ==
  ASSUME NEW c \in Nat, NEW f, NEW b, NEW o, NEW n \in 1 .. c
  PROVE  FlowMoves(c, f, b, o, c - n, f + n, b, o)
BY DEF FlowMoves

LEMMA AsArrive ==
  ASSUME NEW c, NEW f \in Nat, NEW b \in Nat, NEW o \in Nat, NEW n \in Nat, NEW f2 \in Nat,
         f = f2 + n, b + n <= InitialWindow
  PROVE  FlowMoves(c, f, b, o, c, f2, b + n, o)
<1>1. CASE n = 0
  <2>1. b + n = b /\ f2 <= f /\ o <= o
    BY <1>1
  <2> QED BY <2>1, AsLose
<1>2. CASE n # 0
  <2>1. n \in 1 .. f /\ f2 = f - n
    BY <1>2
  <2>2. ~(b + n > InitialWindow)
    BY MuxAssumption DEF MuxAssumption
  <2> QED BY <2>1, <2>2 DEF FlowMoves
<1> QED BY <1>1, <1>2

LEMMA AsConsume ==
  ASSUME NEW c, NEW f, NEW b \in Nat, NEW o, NEW n \in 1 .. b
  PROVE  FlowMoves(c, f, b, o, c, f, b - n, o + n)
BY DEF FlowMoves

LEMMA AsRestore ==
  ASSUME NEW c \in Nat, NEW f \in Nat, NEW b, NEW o \in Nat, NEW n \in Nat, NEW o2 \in Nat,
         o = o2 + n
  PROVE  FlowMoves(c, f, b, o, c + n, f, b, o2)
<1>1. CASE n = 0
  <2>1. c + n = c /\ o2 <= o /\ f <= f
    BY <1>1
  <2> QED BY <2>1, AsLose
<1>2. CASE n # 0
  <2>1. n \in 1 .. o /\ o2 = o - n
    BY <1>2
  <2> QED BY <2>1 DEF FlowMoves
<1> QED BY <1>1, <1>2

\* What the moves do to a sum of two counters.
LEMMA PairSums ==
  ASSUME NEW x \in Nat, NEW d \in Nat, NEW n \in Nat
  PROVE  /\ x + d \in Nat
         /\ 0 + d + n = n + d /\ 0 + (d + x) = x + d
         /\ x + (d + n) = (x + d) + n
         /\ 0 + d <= x + d
OBVIOUS

LEMMA PairLess ==
  ASSUME NEW x \in Nat, NEW d \in Nat, NEW d2 \in Nat, d2 <= d
  PROVE  x + d2 <= x + d
OBVIOUS

\* Every move of a direction is a step of FlowControl.
LEMMA MovesImplement ==
  ASSUME TypeOK, TypeOK', NEW e \in Ends, NEW i \in Ids, Moves(e, i)
  PROVE  FlowMoves(Credited(e, i), Flying(e, i), Buffered(e, i), Owed(e, i),
                   Credited(e, i)', Flying(e, i)', Buffered(e, i)', Owed(e, i)')
<1> DEFINE w == Peer(e)
           c == sendWin[w][i]
           x == wr[w][i]
           d == InFlight("DATA", e, i)
           b == buf[e][i]
           r == rd[e][i]
           k == InFlight("WIN", w, i)
<1>a. c \in Nat /\ x \in Nat /\ d \in Nat /\ b \in Nat /\ r \in Nat /\ k \in Nat
  BY PlaceType
<1>b. c' \in Nat /\ x' \in Nat /\ b' \in Nat /\ r' \in Nat
  BY EndsFacts DEF TypeOK, StrType, AppType
<1>c. d' \in Nat /\ k' \in Nat
  <2>1. link'[e] \in Seq(Frames) /\ link'[w] \in Seq(Frames)
    BY EndsFacts DEF TypeOK, ConType
  <2> QED BY <2>1, WireFinite DEF InFlight
<1> DEFINE f  == x + d
           o  == r + k
           Goal == FlowMoves(c, f, b, o, c', f', b', o')
<1>d. f \in Nat /\ o \in Nat /\ f' \in Nat /\ o' \in Nat
  <2>1. f \in Nat /\ o \in Nat
    <3> HIDE DEF x, d, r, k
    <3> QED BY <1>a, PairSums
  <2>2. x' + d' \in Nat /\ r' + k' \in Nat
    <3> DEFINE x2 == x'
               d2 == d'
               r2 == r'
               k2 == k'
    <3>1. x2 \in Nat /\ d2 \in Nat /\ r2 \in Nat /\ k2 \in Nat
      BY <1>b, <1>c
    <3> HIDE DEF x2, d2, r2, k2
    <3>2. x2 + d2 \in Nat /\ r2 + k2 \in Nat
      BY <3>1
    <3> QED BY <3>2 DEF x2, d2, r2, k2
  <2>3. f' = x' + d' /\ o' = r' + k'
    OBVIOUS
  <2> HIDE DEF f, o
  <2> QED BY <2>1, <2>2, <2>3
<1> SUFFICES Goal
  BY DEF Credited, Flying, Buffered, Owed
<1>1. ASSUME MoveNothing(e, i) PROVE Goal
  <2>1. c' = c /\ x' = x /\ b' = b /\ r' = r /\ d' <= d /\ k' <= k
    BY <1>1 DEF MoveNothing, ReaderRests, WriterRests
  <2>2. f' <= f /\ o' <= o
    <3> HIDE DEF c, x, d, b, r, k
    <3> QED BY <1>a, <1>c, <2>1, PairLess
  <2> HIDE DEF c, f, b, o
  <2> QED BY <1>d, <2>1, <2>2, AsLose
<1>2. ASSUME MoveTake(e, i) PROVE Goal
  <2>1. PICK n \in 1 .. c : c' = c - n /\ x' = n
    BY <1>2 DEF MoveTake
  <2>2. b' = b /\ r' = r /\ d' = d /\ k' = k /\ x = 0
    BY <1>2 DEF MoveTake, ReaderRests, WireRests
  <2>3. f' = f + n /\ o' = o
    <3>1. n \in Nat
      BY <1>a, <2>1
    <3> HIDE DEF c, x, d, b, r, k
    <3> QED BY <1>a, <2>1, <2>2, <3>1, PairSums
  <2> HIDE DEF c, f, b, o
  <2> QED BY <1>a, <2>1, <2>2, <2>3, AsTake
<1>3. ASSUME MoveFrame(e, i) PROVE Goal
  <2>1. b' = b /\ r' = r /\ c' = c /\ k' = k /\ x' = 0
    BY <1>3 DEF MoveFrame, ReaderRests
  <2>2. d' = d + x \/ d' = d
    BY <1>3 DEF MoveFrame
  <2>3. f' <= f /\ o' <= o
    <3> HIDE DEF c, x, d, b, r, k
    <3>1. f' <= f
      BY <1>a, <2>1, <2>2
    <3> QED BY <1>d, <2>1, <3>1
  <2> HIDE DEF c, f, b, o
  <2> QED BY <1>d, <2>1, <2>3, AsLose
<1>4. ASSUME MoveArrive(e, i) PROVE Goal
  <2>1. PICK n \in Nat : d = d' + n /\ b' = b + n /\ b' <= InitialWindow
    BY <1>4 DEF MoveArrive
  <2>2. c' = c /\ x' = x /\ r' = r /\ k' = k
    BY <1>4 DEF MoveArrive, WriterRests
  <2>3. f = f' + n /\ o' = o /\ b + n <= InitialWindow
    <3> DEFINE d2 == d'
    <3>1. d2 \in Nat /\ d2 = d'
      BY <1>c
    <3> HIDE DEF c, x, d, b, r, k, d2
    <3>2. x + (d2 + n) = (x + d2) + n
      BY <1>a, <2>1, <3>1, PairSums
    <3> QED BY <2>1, <2>2, <3>1, <3>2
  <2> HIDE DEF c, f, b, o
  <2> QED BY <1>a, <1>d, <2>1, <2>2, <2>3, AsArrive
<1>5. ASSUME MoveRead(e, i) PROVE Goal
  <2>1. PICK n \in 1 .. b : b' = b - n /\ r = 0 /\ r' = n
    BY <1>5 DEF MoveRead
  <2>2. c' = c /\ x' = x /\ d' = d /\ k' = k
    BY <1>5 DEF MoveRead, WriterRests, WireRests
  <2>3. o' = o + n /\ f' = f
    <3>1. n \in Nat
      BY <1>a, <2>1
    <3> HIDE DEF c, x, d, b, r, k
    <3> QED BY <1>a, <2>1, <2>2, <3>1, PairSums
  <2> HIDE DEF c, f, b, o
  <2> QED BY <1>a, <2>1, <2>2, <2>3, AsConsume
<1>6. ASSUME MoveCredit(e, i) PROVE Goal
  <2>1. c' = c /\ x' = x /\ d' = d /\ b' = b /\ r' = 0
    BY <1>6 DEF MoveCredit, WriterRests
  <2>2. k' = k + r \/ k' = k
    BY <1>6 DEF MoveCredit
  <2>3. f' <= f /\ o' <= o
    <3> HIDE DEF c, x, d, b, r, k
    <3>1. o' <= o
      BY <1>a, <2>1, <2>2
    <3> QED BY <1>d, <2>1, <3>1
  <2> HIDE DEF c, f, b, o
  <2> QED BY <1>d, <2>1, <2>3, AsLose
<1>7. ASSUME MoveRestore(e, i) PROVE Goal
  <2>1. PICK n \in Nat : k = k' + n /\ c' = c + n
    BY <1>7 DEF MoveRestore
  <2>2. x' = x /\ d' = d /\ b' = b /\ r' = r
    BY <1>7 DEF MoveRestore, ReaderRests
  <2>3. o = o' + n /\ f' = f
    <3> DEFINE k2 == k'
    <3>1. k2 \in Nat /\ k2 = k'
      BY <1>c
    <3> HIDE DEF c, x, d, b, r, k, k2
    <3>2. r + (k2 + n) = (r + k2) + n
      BY <1>a, <2>1, <3>1, PairSums
    <3> QED BY <2>1, <2>2, <3>1, <3>2
  <2> HIDE DEF c, f, b, o
  <2> QED BY <1>a, <1>d, <2>1, <2>2, <2>3, AsRestore
<1> HIDE DEF Goal
<1> QED BY <1>1, <1>2, <1>3, <1>4, <1>5, <1>6, <1>7 DEF Moves

\* Initially every unit is with the writer.
LEMMA InitPlaces ==
  ASSUME Init, NEW e \in Ends, NEW i \in Ids
  PROVE  /\ Credited(e, i) = InitialWindow /\ Flying(e, i) = 0
         /\ Buffered(e, i) = 0 /\ Owed(e, i) = 0
<1>1. Peer(e) \in Ends
  BY EndsFacts
<1>2. link[e] = <<>> /\ link[Peer(e)] = <<>>
  BY <1>1 DEF Init, PerEnd
<1>3. InFlight("DATA", e, i) = 0 /\ InFlight("WIN", Peer(e), i) = 0
  BY <1>2, CountEmpty DEF InFlight, Count
<1>4. /\ sendWin[Peer(e)][i] = InitialWindow /\ wr[Peer(e)][i] = 0
      /\ buf[e][i] = 0 /\ rd[e][i] = 0
  BY <1>1 DEF Init, PerStream
<1> QED BY <1>3, <1>4 DEF Credited, Flying, Buffered, Owed

LEMMA RefinedInit ==
  ASSUME Init, 1 \in Ids
  PROVE  ToRsp!FlowInit /\ ToIni!FlowInit
<1>1. "rsp" \in Ends /\ "ini" \in Ends /\ fault = {}
  BY DEF Init, Ends
<1>2. ToRsp!FlowInit
  BY <1>1, InitPlaces DEF ToRsp!FlowInit
<1>3. ToIni!FlowInit
  BY <1>1, InitPlaces DEF ToIni!FlowInit
<1> QED BY <1>2, <1>3

LEMMA RefinedRsp ==
  ASSUME fault = {}, fault' = {},
         FlowMoves(Credited("rsp", 1), Flying("rsp", 1), Buffered("rsp", 1), Owed("rsp", 1),
                   Credited("rsp", 1)', Flying("rsp", 1)', Buffered("rsp", 1)', Owed("rsp", 1)')
  PROVE  ToRsp!FlowNext
<1> DEFINE c == Credited("rsp", 1)
           f == Flying("rsp", 1)
           b == Buffered("rsp", 1)
           o == Owed("rsp", 1)
           v == "rsp" \in fault
<1>v. v' = v
  OBVIOUS
<1>1. ASSUME NEW n \in 1 .. c, c' = c - n, f' = f + n, b' = b, o' = o
      PROVE  ToRsp!Take
  BY <1>1, <1>v DEF ToRsp!Take
<1>2. ASSUME NEW n \in 1 .. f, f' = f - n, b' = b + n, c' = c, o' = o, ~(b + n > InitialWindow)
      PROVE  ToRsp!Arrive
  BY <1>2, <1>v DEF ToRsp!Arrive
<1>3. ASSUME NEW n \in 1 .. b, b' = b - n, o' = o + n, c' = c, f' = f
      PROVE  ToRsp!Consume
  BY <1>3, <1>v DEF ToRsp!Consume
<1>4. ASSUME NEW n \in 1 .. o, o' = o - n, c' = c + n, f' = f, b' = b
      PROVE  ToRsp!Restore
  BY <1>4, <1>v DEF ToRsp!Restore
<1>5. ASSUME f' \in 0 .. f, o' \in 0 .. o, c' = c, b' = b
      PROVE  ToRsp!Lose
  BY <1>5, <1>v DEF ToRsp!Lose
<1>6. FlowMoves(c, f, b, o, c', f', b', o')
  OBVIOUS
<1> HIDE DEF c, f, b, o
<1> QED BY <1>1, <1>2, <1>3, <1>4, <1>5, <1>6 DEF FlowMoves, ToRsp!FlowNext

LEMMA RefinedIni ==
  ASSUME fault = {}, fault' = {},
         FlowMoves(Credited("ini", 1), Flying("ini", 1), Buffered("ini", 1), Owed("ini", 1),
                   Credited("ini", 1)', Flying("ini", 1)', Buffered("ini", 1)', Owed("ini", 1)')
  PROVE  ToIni!FlowNext
<1> DEFINE c == Credited("ini", 1)
           f == Flying("ini", 1)
           b == Buffered("ini", 1)
           o == Owed("ini", 1)
           v == "ini" \in fault
<1>v. v' = v
  OBVIOUS
<1>1. ASSUME NEW n \in 1 .. c, c' = c - n, f' = f + n, b' = b, o' = o
      PROVE  ToIni!Take
  BY <1>1, <1>v DEF ToIni!Take
<1>2. ASSUME NEW n \in 1 .. f, f' = f - n, b' = b + n, c' = c, o' = o, ~(b + n > InitialWindow)
      PROVE  ToIni!Arrive
  BY <1>2, <1>v DEF ToIni!Arrive
<1>3. ASSUME NEW n \in 1 .. b, b' = b - n, o' = o + n, c' = c, f' = f
      PROVE  ToIni!Consume
  BY <1>3, <1>v DEF ToIni!Consume
<1>4. ASSUME NEW n \in 1 .. o, o' = o - n, c' = c + n, f' = f, b' = b
      PROVE  ToIni!Restore
  BY <1>4, <1>v DEF ToIni!Restore
<1>5. ASSUME f' \in 0 .. f, o' \in 0 .. o, c' = c, b' = b
      PROVE  ToIni!Lose
  BY <1>5, <1>v DEF ToIni!Lose
<1>6. FlowMoves(c, f, b, o, c', f', b', o')
  OBVIOUS
<1> HIDE DEF c, f, b, o
<1> QED BY <1>1, <1>2, <1>3, <1>4, <1>5, <1>6 DEF FlowMoves, ToIni!FlowNext

LEMMA RefinedStep ==
  ASSUME 1 \in Ids, FlowInv, FlowInv', [Next]_vars
  PROVE  ToRsp!FlowNext /\ ToIni!FlowNext
<1>1. "rsp" \in Ends /\ "ini" \in Ends /\ fault = {} /\ fault' = {}
  BY DEF FlowInv, NoOverrun, Ends
<1>2. ASSUME NEW e \in Ends
      PROVE  FlowMoves(Credited(e, 1), Flying(e, 1), Buffered(e, 1), Owed(e, 1),
                       Credited(e, 1)', Flying(e, 1)', Buffered(e, 1)', Owed(e, 1)')
  BY MovesStep, MovesImplement DEF FlowInv
<1> QED BY <1>1, <1>2, RefinedRsp, RefinedIni

\* Wherever stream 1 may exist, both of its directions implement FlowControl
\* (stream.go Write, pushData, Read, addSendWindow): every step of the two
\* sessions moves units the way FlowControl names, or loses them.
THEOREM StreamsImplementFlow == ASSUME 1 \in Ids PROVE Spec => FlowImplemented
<1>1. Init => ToRsp!FlowInit /\ ToIni!FlowInit
  BY RefinedInit
<1>2. FlowInv /\ FlowInv' /\ [Next]_vars
      => [ToRsp!FlowNext]_(ToRsp!flowVars) /\ [ToIni!FlowNext]_(ToIni!flowVars)
  BY RefinedStep
<1>3. Spec => []FlowInv
  BY InitFlow, FlowStep, PTL DEF Spec
<1> QED BY <1>1, <1>2, <1>3, PTL DEF Spec, FlowImplemented, ToRsp!FlowSpec, ToIni!FlowSpec
=============================================================================
