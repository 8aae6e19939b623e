------------------------------ MODULE MuxProofs ------------------------------
(***************************************************************************)
(* Proofs about the sessions and streams of module Mux: every variable has *)
(* its type; an entry of the table is always in somebody's hands, and a    *)
(* stream closed both ways leaves; a SYN is sent and handled once for each *)
(* id; and closeWithError leaves no stream, opened or accepted, waiting,   *)
(* for any number of streams, window, queue depth and choice of who opens, *)
(* writes, closes or fails.                                                *)
(***************************************************************************)
EXTENDS Mux, TLAPS

-----------------------------------------------------------------------------
(* Identifiers, frames and writeFrame.                                     *)

LEMMA EndsFacts ==
    /\ \A e \in Ends : Peer(e) \in Ends /\ Peer(Peer(e)) = e /\ Peer(e) # e
    /\ \A e \in Ends : FirstID(e) \in Nat
  BY DEF Ends, Peer, FirstID

LEMMA IdsFacts ==
    /\ Ids \subseteq Nat
    /\ \A e \in Ends : Own(e) \subseteq Ids
  BY MuxAssumption DEF MuxAssumption, Ids, Own

LEMMA OwnDisjoint == \A e \in Ends : Own(e) \cap Own(Peer(e)) = {}
<1> SUFFICES ASSUME NEW e \in Ends, NEW i \in Own(e), i \in Own(Peer(e))
             PROVE  FALSE
  OBVIOUS
<1>1. CASE e = "ini"
  BY <1>1 DEF Own, Peer, FirstID
<1>2. CASE e = "rsp"
  BY <1>2 DEF Own, Peer, FirstID
<1> QED BY <1>1, <1>2 DEF Ends

LEMMA FrameType ==
    /\ \A flag \in StreamFlags, i \in Ids, n \in Nat : Frame(flag, i, n) \in Frames
    /\ \A n \in Nat : Frame("GOAWAY", 0, n) \in Frames
  BY DEF Frame, Frames

LEMMA FrameFields ==
  ASSUME NEW f \in Frames
  PROVE  /\ f.n \in Nat
         /\ f.flag \in StreamFlags \cup {"GOAWAY"}
         /\ f.flag # "GOAWAY" => f.id \in Ids
  BY DEF Frames, StreamFlags

LEMMA HeadType ==
  ASSUME TypeOK, NEW e \in Ends, link[e] # <<>>
  PROVE  Head(link[e]) \in Frames /\ Tail(link[e]) \in Seq(Frames)
  BY DEF TypeOK, ConType

LEMMA SendsType ==
  ASSUME link \in [Ends -> Seq(Frames)], NEW e \in Ends, NEW f \in Frames,
         SendsOrFails(e, f)
  PROVE  link' \in [Ends -> Seq(Frames)]
<1>1. CASE SendFails(e)
  BY <1>1 DEF SendFails
<1>2. CASE Sends(e, f)
  <2>1. Append(link[Peer(e)], f) \in Seq(Frames)
    BY EndsFacts
  <2> QED BY <1>2, <2>1, EndsFacts DEF Sends
<1> QED BY <1>1, <1>2 DEF SendsOrFails

-----------------------------------------------------------------------------
(* What the actions of each kind leave alone.                              *)

LoopKeeps == UNCHANGED <<up, closed, conn, nextID, accepting, appVars>>
TearKeeps == UNCHANGED <<up, cause, nextID, accepting, fault, sendWin, buf, finRecv,
                         finSent, reset, loopVars, appVars>>
ReadKeeps == UNCHANGED <<up, sesVars, live, sendWin, flags, loopVars, held, opening,
                         writeVars, cl>>
WriteKeeps == UNCHANGED <<up, sesVars, live, buf, flags, loopVars, held, opening,
                          readVars, cl>>
CloseKeeps == UNCHANGED <<up, sesVars, sendWin, buf, finRecv, reset, sclosed, loopVars,
                          held, opening, writeVars, readVars>>

LEMMA LoopFootprint ==
  ASSUME NEW e \in Ends, ReadLoop(e)
  PROVE  LoopKeeps
  BY DEF ReadLoop, LoopKeeps, Receive, ReceiveFails, RlRegister, RlOffer, RlReset,
     RlRetire, RlAbort, conVars, sesVars

LEMMA TearFootprint ==
  ASSUME NEW e \in Ends, TearDown(e)
  PROVE  TearKeeps
  BY DEF TearDown, TearKeeps, TearGoaway, TearMark, TearConn, TearSweep, conVars,
     strVars, flags

LEMMA StreamFootprint ==
  ASSUME NEW e \in Ends, NEW i \in Ids
  PROVE  /\ Reading(e, i) => ReadKeeps
         /\ Write(e, i) => WriteKeeps
         /\ Close(e, i) => CloseKeeps
<1>1. Reading(e, i) => ReadKeeps
  BY DEF Reading, ReadKeeps, ReadData, ReadCredit, ReadEnd, conVars, strVars
<1>2. Write(e, i) => WriteKeeps
  BY DEF Write, WriteKeeps, WriteTake, WriteSend, WriteError, conVars, strVars, readVars
<1>3. Close(e, i) => CloseKeeps
  BY DEF Close, CloseKeeps, StreamClose, StreamCloseRetire, StreamCloseSend, conVars,
     strVars, flags, writeVars, readVars
<1> QED BY <1>1, <1>2, <1>3

-----------------------------------------------------------------------------
(* Types.                                                                  *)

LEMMA SetType ==
  ASSUME NEW f \in [Ends -> SUBSET Ids], NEW e \in Ends, NEW i \in Ids
  PROVE  Set(f, e, i) \in [Ends -> SUBSET Ids] /\ Clear(f, e, i) \in [Ends -> SUBSET Ids]
  BY DEF Set, Clear

LEMMA NewStreamType ==
  ASSUME StrType, NEW e \in Ends, NEW i \in Ids, NewStream(e, i),
         live' \in [Ends -> SUBSET Ids]
  PROVE  StrType'
  BY SetType, MuxAssumption DEF StrType, NewStream, MuxAssumption

ReaderSteps == {"read", "register", "offer", "refuse", "rst", "reset",
                "retire", "exit"}

LEMMA RlToStream ==
  ASSUME LoopType, NEW e \in Ends, NEW i \in Ids, NEW pc \in ReaderSteps,
         RlTo(e, pc, i), UNCHANGED acc
  PROVE  LoopType'
<1>1. 0 \notin Ids
  BY MuxAssumption DEF MuxAssumption, Ids
<1> QED BY <1>1 DEF LoopType, RlTo, ReaderSteps

LEMMA RlToRest ==
  ASSUME LoopType, NEW e \in Ends, NEW pc \in {"read", "exit"},
         RlTo(e, pc, 0), UNCHANGED acc
  PROVE  LoopType'
  BY DEF LoopType, RlTo

LEMMA ClosingType ==
  ASSUME SesType, NEW e \in Ends,
         NEW why \in {"nil", "read", "keepalive"}, Closing(e, why),
         UNCHANGED <<closed, conn, nextID, accepting>>, fault' \subseteq Ends
  PROVE  SesType'
  BY DEF SesType, Closing

LEMMA InitType == Init => TypeOK
  BY MuxAssumption, EndsFacts
  DEF MuxAssumption, Init, TypeOK, ConType, SesType, StrType, LoopType, AppType,
      PerEnd, PerStream
\* The frame handlers, one flag each.
LEMMA ReceiveType ==
  ASSUME TypeOK, NEW e \in Ends, Receive(e)
  PROVE  TypeOK'
<1> DEFINE f == Head(link[e])
<1> USE DEF TypeOK
<1>1. f \in Frames /\ Tail(link[e]) \in Seq(Frames)
  BY HeadType DEF Receive
<1> HIDE DEF f
<1>2. /\ link' = [link EXCEPT ![e] = Tail(@)]
      /\ UNCHANGED <<up, closed, conn, nextID, accepting, acc, appVars>>
      /\ \/ f.flag = "SYN" /\ RecvSYN(e, f)
         \/ f.flag = "DATA" /\ RecvDATA(e, f)
         \/ f.flag = "FIN" /\ RecvFIN(e, f)
         \/ f.flag = "RST" /\ RecvRST(e, f)
         \/ f.flag = "WIN" /\ RecvWIN(e, f)
         \/ f.flag = "GOAWAY" /\ RecvGOAWAY(e, f)
  BY DEF Receive, f
<1>3. ConType' /\ AppType'
  BY <1>1, <1>2 DEF ConType, AppType, appVars, writeVars, readVars
<1>4. f.n \in Nat /\ (f.flag # "GOAWAY" => f.id \in Ids)
  BY <1>1, FrameFields
<1>5. SesType'
  <2>1. fault' \subseteq Ends
    BY <1>2 DEF SesType, RecvSYN, RecvDATA, RecvFIN, RecvRST, RecvWIN, RecvGOAWAY
  <2>2. \/ Closing(e, "read")
        \/ UNCHANGED <<phase, cause>>
    BY <1>2 DEF RecvSYN, RecvDATA, RecvFIN, RecvRST, RecvWIN, RecvGOAWAY
  <2>3. CASE Closing(e, "read")
    BY <1>2, <2>1, <2>3, ClosingType
  <2>4. CASE UNCHANGED <<phase, cause>>
    BY <1>2, <2>1, <2>4 DEF SesType
  <2> QED BY <2>2, <2>3, <2>4
<1>6. LoopType'
  <2>1. CASE UNCHANGED rl
    BY <1>2, <2>1 DEF LoopType
  <2>2. CASE RlTo(e, "exit", 0)
    BY <1>2, <2>2, RlToRest
  <2>3. CASE f.id \in Ids /\ \E pc \in ReaderSteps : RlTo(e, pc, f.id)
    BY <1>2, <2>3, RlToStream
  <2>4. \/ UNCHANGED rl \/ RlTo(e, "exit", 0)
        \/ f.flag # "GOAWAY" /\ \E pc \in ReaderSteps : RlTo(e, pc, f.id)
    BY <1>2 DEF RecvSYN, RecvDATA, RecvFIN, RecvRST, RecvWIN, RecvGOAWAY,
       ReaderSteps, strVars
  <2> QED BY <1>4, <2>1, <2>2, <2>3, <2>4
<1>0. ASSUME UNCHANGED strVars PROVE StrType'
  BY <1>0 DEF StrType, strVars, flags
<1>7. ASSUME f.flag = "SYN", RecvSYN(e, f) PROVE StrType'
  BY <1>0, <1>7 DEF RecvSYN
<1>8. ASSUME f.flag = "DATA", RecvDATA(e, f) PROVE StrType'
  <2>1. UNCHANGED strVars \/ ( /\ buf' = [buf EXCEPT ![e][f.id] = @ + f.n]
                               /\ UNCHANGED <<live, sendWin, flags>>)
    BY <1>8 DEF RecvDATA
  <2>2. f.id \in Ids
    BY <1>4, <1>8
  <2>3. ASSUME buf' = [buf EXCEPT ![e][f.id] = @ + f.n],
               UNCHANGED <<live, sendWin, flags>>
        PROVE  StrType'
    BY <1>4, <2>2, <2>3 DEF StrType, flags
  <2> QED BY <1>0, <2>1, <2>3
<1>9. ASSUME f.flag = "FIN", RecvFIN(e, f) PROVE StrType'
  <2>1. f.id \in Ids
    BY <1>4, <1>9
  <2> QED BY <1>9, <2>1 DEF RecvFIN, StrType, Set
<1>10. ASSUME f.flag = "RST", RecvRST(e, f) PROVE StrType'
  <2>1. f.id \in Ids
    BY <1>4, <1>10
  <2> QED BY <1>10, <2>1 DEF RecvRST, StrType, Clear, flags
<1>11. ASSUME f.flag = "WIN", RecvWIN(e, f) PROVE StrType'
  <2>1. f.id \in Ids
    BY <1>4, <1>11
  <2> QED BY <1>4, <1>11, <2>1 DEF RecvWIN, StrType, flags
<1>12. ASSUME f.flag = "GOAWAY", RecvGOAWAY(e, f) PROVE StrType'
  BY <1>0, <1>12 DEF RecvGOAWAY
<1> QED BY <1>2, <1>3, <1>5, <1>6, <1>7, <1>8, <1>9, <1>10, <1>11, <1>12

LEMMA TypeStep == TypeOK /\ [Next]_vars => TypeOK'
<1> SUFFICES ASSUME TypeOK, [Next]_vars PROVE TypeOK'
  OBVIOUS
<1> USE EndsFacts, IdsFacts
<1>1. ASSUME NEW e \in Ends, OpenRegister(e) PROVE TypeOK'
  <2>1. ConType'
    BY <1>1 DEF TypeOK, ConType, OpenRegister, conVars, sesVars, strVars, flags, loopVars, appVars, writeVars, readVars
  <2>2. SesType'
    BY <1>1 DEF TypeOK, SesType, OpenRegister, AfterID, conVars, sesVars, strVars, flags, loopVars, appVars, writeVars, readVars
  <2>3. live' \in [Ends -> SUBSET Ids] /\ opening' \in [Ends -> SUBSET Ids]
    BY <1>1, SetType DEF TypeOK, StrType, AppType, OpenRegister, conVars, sesVars, strVars, flags, loopVars, appVars, writeVars, readVars
  <2>4. StrType'
    BY <1>1, <2>3, NewStreamType DEF TypeOK, OpenRegister, conVars, sesVars, strVars, flags, loopVars, appVars, writeVars, readVars
  <2>5. LoopType'
    BY <1>1 DEF TypeOK, LoopType, OpenRegister, conVars, sesVars, strVars, flags, loopVars, appVars, writeVars, readVars
  <2>6. AppType'
    BY <1>1, <2>3 DEF TypeOK, AppType, OpenRegister, conVars, sesVars, strVars, flags, loopVars, appVars, writeVars, readVars
  <2> QED BY <2>1, <2>2, <2>3, <2>4, <2>5, <2>6 DEF TypeOK
<1>2. ASSUME NEW e \in Ends, Accept(e) PROVE TypeOK'
  <2>1. ConType'
    BY <1>2 DEF TypeOK, ConType, Accept, conVars, sesVars, strVars, flags, loopVars, appVars, writeVars, readVars
  <2>2. SesType'
    BY <1>2 DEF TypeOK, SesType, Accept, conVars, sesVars, strVars, flags, loopVars, appVars, writeVars, readVars
  <2>3. StrType'
    BY <1>2 DEF TypeOK, StrType, Accept, conVars, sesVars, strVars, flags, loopVars, appVars, writeVars, readVars
  <2>4. acc[e] # <<>> => Head(acc[e]) \in Ids /\ Tail(acc[e]) \in Seq(Ids)
    BY DEF TypeOK, LoopType
  <2>5. LoopType'
    <3>2. acc' \in [Ends -> Seq(Ids)]
      <4>1. acc' = acc \/ (acc[e] # <<>> /\ acc' = [acc EXCEPT ![e] = Tail(@)])
        BY <1>2 DEF Accept
      <4> QED BY <4>1, <2>4 DEF TypeOK, LoopType
    <3>3. UNCHANGED rl
      BY <1>2 DEF Accept
    <3> QED BY <3>2, <3>3 DEF TypeOK, LoopType
  <2>6. AppType'
    <3>1. held' \in [Ends -> SUBSET Ids]
      BY <1>2, <2>4 DEF TypeOK, AppType, Accept, Set
    <3> QED BY <1>2, <3>1 DEF TypeOK, AppType, Accept, conVars, sesVars, strVars, flags, loopVars, appVars, writeVars, readVars
  <2> QED BY <2>1, <2>2, <2>3, <2>4, <2>5, <2>6 DEF TypeOK
<1>3. ASSUME NEW e \in Ends, RlRegister(e) PROVE TypeOK'
  <2>1. rl[e].id \in Ids
    BY <1>3 DEF TypeOK, LoopType, RlRegister, conVars, sesVars, strVars, flags, loopVars, appVars, writeVars, readVars
  <2>2. ConType'
    BY <1>3 DEF TypeOK, ConType, RlRegister, conVars, sesVars, strVars, flags, loopVars, appVars, writeVars, readVars
  <2>3. SesType'
    BY <1>3 DEF TypeOK, SesType, RlRegister, conVars, sesVars, strVars, flags, loopVars, appVars, writeVars, readVars
  <2>4. StrType'
    <3>1. live' \in [Ends -> SUBSET Ids]
      <4>1. live' = Set(live, e, rl[e].id) \/ live' = live
        BY <1>3 DEF RlRegister, strVars
      <4>2. live \in [Ends -> SUBSET Ids]
        BY DEF TypeOK, StrType
      <4> QED BY <4>1, <4>2, <2>1 DEF Set, Clear
    <3>2. CASE UNCHANGED strVars
      BY <3>2 DEF TypeOK, StrType, strVars, flags
    <3>3. CASE NewStream(e, rl[e].id)
      BY <2>1, <3>1, <3>3, NewStreamType DEF TypeOK
    <3> QED BY <1>3, <3>2, <3>3 DEF RlRegister
  <2>5. LoopType'
    BY <1>3, <2>1, RlToStream DEF TypeOK, RlRegister, ReaderSteps
  <2>6. AppType'
    BY <1>3 DEF TypeOK, AppType, RlRegister, conVars, sesVars, strVars, flags, loopVars, appVars, writeVars, readVars
  <2> QED BY <2>1, <2>2, <2>3, <2>4, <2>5, <2>6 DEF TypeOK
<1>4. ASSUME NEW e \in Ends, RlOffer(e) PROVE TypeOK'
  <2>1. rl[e].id \in Ids
    BY <1>4 DEF TypeOK, LoopType, RlOffer, conVars, sesVars, strVars, flags, loopVars, appVars, writeVars, readVars
  <2>2. ConType'
    BY <1>4 DEF TypeOK, ConType, RlOffer, conVars, sesVars, strVars, flags, loopVars, appVars, writeVars, readVars
  <2>3. SesType'
    BY <1>4 DEF TypeOK, SesType, RlOffer, conVars, sesVars, strVars, flags, loopVars, appVars, writeVars, readVars
  <2>4. StrType'
    <3>1. live' \in [Ends -> SUBSET Ids]
      <4>1. live' = Clear(live, e, rl[e].id) \/ live' = live
        BY <1>4 DEF RlOffer, Unregistered
      <4>2. live \in [Ends -> SUBSET Ids]
        BY DEF TypeOK, StrType
      <4> QED BY <4>1, <4>2, <2>1 DEF Set, Clear
    <3> QED BY <1>4, <3>1 DEF TypeOK, StrType, RlOffer, flags
  <2>5. LoopType'
    <3>1. acc' \in [Ends -> Seq(Ids)]
      <4>1. acc' = [acc EXCEPT ![e] = Append(@, rl[e].id)] \/ acc' = acc
        BY <1>4 DEF RlOffer
      <4>2. acc \in [Ends -> Seq(Ids)] /\ Append(acc[e], rl[e].id) \in Seq(Ids)
        BY <2>1 DEF TypeOK, LoopType
      <4> QED BY <4>1, <4>2
    <3>2. RlTo(e, "read", 0) \/ RlTo(e, "refuse", rl[e].id)
      BY <1>4 DEF TypeOK, RlOffer
    <3>3. 0 \notin Ids
      BY MuxAssumption DEF MuxAssumption, Ids
    <3>4. CASE RlTo(e, "read", 0)
      BY <3>1, <3>4 DEF TypeOK, LoopType, RlTo
    <3>5. CASE RlTo(e, "refuse", rl[e].id)
      BY <2>1, <3>1, <3>3, <3>5 DEF TypeOK, LoopType, RlTo
    <3> QED BY <3>2, <3>4, <3>5
  <2>6. AppType'
    BY <1>4 DEF TypeOK, AppType, RlOffer, conVars, sesVars, strVars, flags, loopVars, appVars, writeVars, readVars
  <2> QED BY <2>1, <2>2, <2>3, <2>4, <2>5, <2>6 DEF TypeOK
<1>5. ASSUME NEW e \in Ends, RlReset(e) PROVE TypeOK'
  <2>1. rl[e].id \in Ids
    BY <1>5 DEF TypeOK, LoopType, RlReset, conVars, sesVars, strVars, flags, loopVars, appVars, writeVars, readVars
  <2>2. ConType'
    BY <1>5 DEF TypeOK, ConType, RlReset, conVars, sesVars, strVars, flags, loopVars, appVars, writeVars, readVars
  <2>3. SesType'
    BY <1>5 DEF TypeOK, SesType, RlReset, conVars, sesVars, strVars, flags, loopVars, appVars, writeVars, readVars
  <2>4. StrType'
    BY <1>5, <2>1, SetType DEF TypeOK, StrType, RlReset, conVars, sesVars, strVars, flags, loopVars, appVars, writeVars, readVars
  <2>5. LoopType'
    BY <1>5, <2>1, RlToStream, RlToRest DEF TypeOK, RlReset, ReaderSteps
  <2>6. AppType'
    BY <1>5 DEF TypeOK, AppType, RlReset, conVars, sesVars, strVars, flags, loopVars, appVars, writeVars, readVars
  <2> QED BY <2>1, <2>2, <2>3, <2>4, <2>5, <2>6 DEF TypeOK
<1>6. ASSUME NEW e \in Ends, RlRetire(e) PROVE TypeOK'
  BY <1>6 DEF TypeOK, ConType, SesType, StrType, LoopType, AppType, RlRetire, Clear, RlTo, conVars, sesVars, strVars, flags, loopVars, appVars, writeVars, readVars
<1>7. ASSUME NEW e \in Ends, RlAbort(e) PROVE TypeOK'
  <2>1. rl[e].id \in Ids
    BY <1>7 DEF TypeOK, LoopType, RlAbort, conVars, sesVars, strVars, flags, loopVars, appVars, writeVars, readVars
  <2>2. ConType'
    BY <1>7, <2>1, FrameType, SendsType DEF TypeOK, ConType, RlAbort, StreamFlags, ReasonBusy
  <2>3. SesType'
    BY <1>7 DEF TypeOK, SesType, RlAbort, conVars, sesVars, strVars, flags, loopVars, appVars, writeVars, readVars
  <2>4. StrType'
    BY <1>7 DEF TypeOK, StrType, RlAbort, conVars, sesVars, strVars, flags, loopVars, appVars, writeVars, readVars
  <2>5. LoopType'
    BY <1>7, <2>1, RlToRest DEF TypeOK, RlAbort
  <2>6. AppType'
    BY <1>7 DEF TypeOK, AppType, RlAbort, conVars, sesVars, strVars, flags, loopVars, appVars, writeVars, readVars
  <2> QED BY <2>1, <2>2, <2>3, <2>4, <2>5, <2>6 DEF TypeOK
<1>8. ASSUME NEW e \in Ends, SessionEnds(e) PROVE TypeOK'
  BY <1>8 DEF TypeOK, ConType, SesType, StrType, LoopType, AppType, SessionEnds, SessionClose, KeepAliveCloses, Closing, conVars, sesVars, strVars, flags, loopVars, appVars, writeVars, readVars
<1>9. ASSUME NEW e \in Ends, ReceiveFails(e) PROVE TypeOK'
  BY <1>9 DEF TypeOK, ConType, SesType, StrType, LoopType, AppType, ReceiveFails, Closing, RlTo, conVars, sesVars, strVars, flags, loopVars, appVars, writeVars, readVars
<1>10. ASSUME NEW e \in Ends, TearMark(e) PROVE TypeOK'
  BY <1>10 DEF TypeOK, ConType, SesType, StrType, LoopType, AppType, TearMark, Advance, After, conVars, sesVars, strVars, flags, loopVars, appVars, writeVars, readVars
<1>11. ASSUME NEW e \in Ends, TearConn(e) PROVE TypeOK'
  BY <1>11 DEF TypeOK, ConType, SesType, StrType, LoopType, AppType, TearConn, Advance, After, conVars, sesVars, strVars, flags, loopVars, appVars, writeVars, readVars
<1>12. ASSUME NEW e \in Ends, TearSweep(e) PROVE TypeOK'
  BY <1>12 DEF TypeOK, ConType, SesType, StrType, LoopType, AppType, TearSweep, Advance, After, conVars, sesVars, strVars, flags, loopVars, appVars, writeVars, readVars
<1>13. ASSUME NEW e \in Ends, TearGoaway(e) PROVE TypeOK'
  <2>1. ConType'
    BY <1>13, FrameType, SendsType DEF TypeOK, ConType, SesType, TearGoaway, Reason, ReasonNormal, ReasonProtocol
  <2>2. SesType'
    BY <1>13 DEF TypeOK, SesType, TearGoaway, Advance, After, conVars, sesVars, strVars, flags, loopVars, appVars, writeVars, readVars
  <2>3. StrType'
    BY <1>13 DEF TypeOK, StrType, TearGoaway, conVars, sesVars, strVars, flags, loopVars, appVars, writeVars, readVars
  <2>4. LoopType'
    BY <1>13 DEF TypeOK, LoopType, TearGoaway, conVars, sesVars, strVars, flags, loopVars, appVars, writeVars, readVars
  <2>5. AppType'
    BY <1>13 DEF TypeOK, AppType, TearGoaway, conVars, sesVars, strVars, flags, loopVars, appVars, writeVars, readVars
  <2> QED BY <2>1, <2>2, <2>3, <2>4, <2>5 DEF TypeOK
<1>14. ASSUME NEW e \in Ends, NEW i \in Ids, OpenSend(e, i) PROVE TypeOK'
  <2>1. ConType'
    BY <1>14, MuxAssumption, FrameType, SendsType
    DEF TypeOK, ConType, OpenSend, SendsOrFails, StreamFlags, MuxAssumption, GoodTarget,
        BadTarget
  <2>2. SesType'
    BY <1>14 DEF TypeOK, SesType, OpenSend, conVars, sesVars, strVars, flags, loopVars, appVars, writeVars, readVars
  <2>3. StrType'
    <3>1. live' \in [Ends -> SUBSET Ids]
      BY <1>14 DEF TypeOK, StrType, OpenSend, Clear
    <3> QED BY <1>14, <3>1 DEF TypeOK, StrType, OpenSend, flags
  <2>4. LoopType'
    BY <1>14 DEF TypeOK, LoopType, OpenSend, conVars, sesVars, strVars, flags, loopVars, appVars, writeVars, readVars
  <2>5. AppType'
    <3>1. held' \in [Ends -> SUBSET Ids] /\ opening' \in [Ends -> SUBSET Ids]
      <4>1. /\ held' = Set(held, e, i) \/ held' = held
            /\ opening' = Clear(opening, e, i)
        BY <1>14 DEF OpenSend
      <4>2. held \in [Ends -> SUBSET Ids] /\ opening \in [Ends -> SUBSET Ids]
        BY DEF TypeOK, AppType
      <4> QED BY <4>1, <4>2, SetType
    <3> QED BY <1>14, <3>1 DEF TypeOK, AppType, OpenSend, writeVars, readVars
  <2> QED BY <2>1, <2>2, <2>3, <2>4, <2>5 DEF TypeOK
<1>15. ASSUME NEW e \in Ends, NEW i \in Ids, ReadData(e, i) PROVE TypeOK'
  <2>1. ConType'
    BY <1>15 DEF TypeOK, ConType, ReadData, conVars, sesVars, strVars, flags, loopVars, appVars, writeVars, readVars
  <2>2. SesType'
    BY <1>15 DEF TypeOK, SesType, ReadData, conVars, sesVars, strVars, flags, loopVars, appVars, writeVars, readVars
  <2>3. StrType'
    BY <1>15 DEF TypeOK, StrType, ReadData, conVars, sesVars, strVars, flags, loopVars, appVars, writeVars, readVars
  <2>4. LoopType'
    BY <1>15 DEF TypeOK, LoopType, ReadData, conVars, sesVars, strVars, flags, loopVars, appVars, writeVars, readVars
  <2>5. AppType'
    BY <1>15 DEF TypeOK, AppType, StrType, ReadData, conVars, sesVars, strVars, flags, loopVars, appVars, writeVars, readVars
  <2> QED BY <2>1, <2>2, <2>3, <2>4, <2>5 DEF TypeOK
<1>16. ASSUME NEW e \in Ends, NEW i \in Ids, ReadCredit(e, i) PROVE TypeOK'
  <2>1. ConType'
    BY <1>16, FrameType, SendsType DEF TypeOK, ConType, AppType, ReadCredit, Credit, StreamFlags
  <2>2. SesType'
    BY <1>16 DEF TypeOK, SesType, ReadCredit, conVars, sesVars, strVars, flags, loopVars, appVars, writeVars, readVars
  <2>3. StrType'
    BY <1>16 DEF TypeOK, StrType, ReadCredit, conVars, sesVars, strVars, flags, loopVars, appVars, writeVars, readVars
  <2>4. LoopType'
    BY <1>16 DEF TypeOK, LoopType, ReadCredit, conVars, sesVars, strVars, flags, loopVars, appVars, writeVars, readVars
  <2>5. AppType'
    BY <1>16 DEF TypeOK, AppType, ReadCredit, conVars, sesVars, strVars, flags, loopVars, appVars, writeVars, readVars
  <2> QED BY <2>1, <2>2, <2>3, <2>4, <2>5 DEF TypeOK
<1>17. ASSUME NEW e \in Ends, NEW i \in Ids, ReadEnd(e, i) PROVE TypeOK'
  BY <1>17 DEF TypeOK, ConType, SesType, StrType, LoopType, AppType, ReadEnd, ReadVerdict, conVars, sesVars, strVars, flags, loopVars, appVars, writeVars, readVars
<1>18. ASSUME NEW e \in Ends, NEW i \in Ids, WriteTake(e, i) PROVE TypeOK'
  <2>1. ConType'
    BY <1>18 DEF TypeOK, ConType, WriteTake, conVars, sesVars, strVars, flags, loopVars, appVars, writeVars, readVars
  <2>2. SesType'
    BY <1>18 DEF TypeOK, SesType, WriteTake, conVars, sesVars, strVars, flags, loopVars, appVars, writeVars, readVars
  <2>3. StrType'
    BY <1>18, MuxAssumption DEF TypeOK, StrType, MuxAssumption, WriteTake, Room, conVars, sesVars, strVars, flags, loopVars, appVars, writeVars, readVars
  <2>4. LoopType'
    BY <1>18 DEF TypeOK, LoopType, WriteTake, conVars, sesVars, strVars, flags, loopVars, appVars, writeVars, readVars
  <2>5. AppType'
    BY <1>18, MuxAssumption DEF TypeOK, StrType, AppType, MuxAssumption, WriteTake, Room, conVars, sesVars, strVars, flags, loopVars, appVars, writeVars, readVars
  <2> QED BY <2>1, <2>2, <2>3, <2>4, <2>5 DEF TypeOK
<1>19. ASSUME NEW e \in Ends, NEW i \in Ids, WriteSend(e, i) PROVE TypeOK'
  <2>1. ConType'
    BY <1>19, FrameType, SendsType DEF TypeOK, ConType, AppType, WriteSend, SendsOrFails, StreamFlags
  <2>2. SesType'
    BY <1>19 DEF TypeOK, SesType, WriteSend, conVars, sesVars, strVars, flags, loopVars, appVars, writeVars, readVars
  <2>3. StrType'
    BY <1>19 DEF TypeOK, StrType, WriteSend, conVars, sesVars, strVars, flags, loopVars, appVars, writeVars, readVars
  <2>4. LoopType'
    BY <1>19 DEF TypeOK, LoopType, WriteSend, conVars, sesVars, strVars, flags, loopVars, appVars, writeVars, readVars
  <2>5. AppType'
    <3>1. wend' \in [Ends -> SUBSET Ids]
      <4>1. wend' = Set(wend, e, i) \/ wend' = wend
        BY <1>19 DEF WriteSend
      <4>2. wend \in [Ends -> SUBSET Ids]
        BY DEF TypeOK, AppType
      <4> QED BY <4>1, <4>2, SetType
    <3>2. sent' \in [Ends -> [Ids -> Nat]]
      <4>1. sent' = [sent EXCEPT ![e][i] = @ + wr[e][i]] \/ sent' = sent
        BY <1>19 DEF WriteSend
      <4> QED BY <4>1 DEF TypeOK, AppType
    <3>3. wr' \in [Ends -> [Ids -> Nat]]
      BY <1>19 DEF TypeOK, AppType, WriteSend
    <3> QED BY <1>19, <3>1, <3>2, <3>3 DEF TypeOK, AppType, WriteSend, readVars
  <2> QED BY <2>1, <2>2, <2>3, <2>4, <2>5 DEF TypeOK
<1>20. ASSUME NEW e \in Ends, NEW i \in Ids, WriteError(e, i) PROVE TypeOK'
  <2>1. ConType'
    BY <1>20 DEF TypeOK, ConType, WriteError, conVars, sesVars, strVars, flags, loopVars, appVars, writeVars, readVars
  <2>2. SesType'
    BY <1>20 DEF TypeOK, SesType, WriteError, conVars, sesVars, strVars, flags, loopVars, appVars, writeVars, readVars
  <2>3. StrType'
    BY <1>20 DEF TypeOK, StrType, WriteError, conVars, sesVars, strVars, flags, loopVars, appVars, writeVars, readVars
  <2>4. LoopType'
    BY <1>20 DEF TypeOK, LoopType, WriteError, conVars, sesVars, strVars, flags, loopVars, appVars, writeVars, readVars
  <2>5. AppType'
    BY <1>20, SetType DEF TypeOK, AppType, WriteError, conVars, sesVars, strVars, flags, loopVars, appVars, writeVars, readVars
  <2> QED BY <2>1, <2>2, <2>3, <2>4, <2>5 DEF TypeOK
<1>21. ASSUME NEW e \in Ends, NEW i \in Ids, StreamClose(e, i) PROVE TypeOK'
  <2>1. /\ UNCHANGED <<conVars, sesVars, live, sendWin, buf, finRecv, reset, sclosed,
                        loopVars, held, opening, writeVars, readVars>>
        /\ finSent' = Set(finSent, e, i)
        /\ cl' = [cl EXCEPT ![e][i] = "retire"] \/ cl' = [cl EXCEPT ![e][i] = "fin"]
    BY <1>21 DEF StreamClose
  <2>2. ConType' /\ SesType'
    BY <2>1 DEF TypeOK, ConType, SesType, conVars, sesVars
  <2>3. StrType'
    BY <2>1, SetType DEF TypeOK, StrType
  <2>4. LoopType'
    BY <2>1 DEF TypeOK, LoopType, loopVars
  <2>5. cl' \in [Ends -> [Ids -> {"open", "retire", "fin", "done"}]]
    <3>1. cl \in [Ends -> [Ids -> {"open", "retire", "fin", "done"}]]
      BY DEF TypeOK, AppType
    <3>2. CASE cl' = [cl EXCEPT ![e][i] = "retire"]
      BY <3>1, <3>2
    <3>3. CASE cl' = [cl EXCEPT ![e][i] = "fin"]
      BY <3>1, <3>3
    <3> QED BY <2>1, <3>2, <3>3
  <2>6. AppType'
    BY <2>1, <2>5 DEF TypeOK, AppType, writeVars, readVars
  <2> QED BY <2>2, <2>3, <2>4, <2>6 DEF TypeOK
<1>22. ASSUME NEW e \in Ends, NEW i \in Ids, StreamCloseRetire(e, i) PROVE TypeOK'
  BY <1>22 DEF TypeOK, ConType, SesType, StrType, LoopType, AppType, StreamCloseRetire, Clear, conVars, sesVars, strVars, flags, loopVars, appVars, writeVars, readVars
<1>23. ASSUME NEW e \in Ends, NEW i \in Ids, StreamCloseSend(e, i) PROVE TypeOK'
  <2>1. ConType'
    BY <1>23, FrameType, SendsType DEF TypeOK, ConType, AppType, StreamCloseSend, StreamFlags
  <2>2. SesType'
    BY <1>23 DEF TypeOK, SesType, StreamCloseSend, conVars, sesVars, strVars, flags, loopVars, appVars, writeVars, readVars
  <2>3. StrType'
    BY <1>23 DEF TypeOK, StrType, StreamCloseSend, conVars, sesVars, strVars, flags, loopVars, appVars, writeVars, readVars
  <2>4. LoopType'
    BY <1>23 DEF TypeOK, LoopType, StreamCloseSend, conVars, sesVars, strVars, flags, loopVars, appVars, writeVars, readVars
  <2>5. AppType'
    BY <1>23 DEF TypeOK, AppType, StreamCloseSend, conVars, sesVars, strVars, flags, loopVars, appVars, writeVars, readVars
  <2> QED BY <2>1, <2>2, <2>3, <2>4, <2>5 DEF TypeOK
<1>24. CASE LinkDrop
  <2>1. ConType'
    <3>1. \A e \in Ends : \A k \in 0 .. Len(link[e]) : SubSeq(link[e], 1, k) \in Seq(Frames)
      BY DEF TypeOK, ConType
    <3> QED BY <1>24, <3>1 DEF TypeOK, ConType, LinkDrop, Ends
  <2>2. SesType'
    BY <1>24 DEF TypeOK, SesType, LinkDrop, sesVars
  <2>3. StrType'
    BY <1>24 DEF TypeOK, StrType, LinkDrop, strVars, flags
  <2>4. LoopType'
    BY <1>24 DEF TypeOK, LoopType, LinkDrop, loopVars
  <2>5. AppType'
    BY <1>24 DEF TypeOK, AppType, LinkDrop, appVars, writeVars, readVars
  <2> QED BY <2>1, <2>2, <2>3, <2>4, <2>5 DEF TypeOK
<1>25. ASSUME NEW e \in Ends, Receive(e) PROVE TypeOK'
  BY <1>25, ReceiveType
<1>26. CASE UNCHANGED vars
  BY <1>26 DEF TypeOK, ConType, SesType, StrType, LoopType, AppType, vars,
     conVars, sesVars, strVars, flags, loopVars, appVars, writeVars, readVars
<1> QED
  BY <1>1, <1>2, <1>3, <1>4, <1>5, <1>6, <1>7, <1>8, <1>9, <1>10, <1>11,
     <1>12, <1>13, <1>14, <1>15, <1>16, <1>17, <1>18, <1>19, <1>20, <1>21,
     <1>22, <1>23, <1>24, <1>25, <1>26
  DEF Next, ReadLoop, TearDown, Reading, Write, Close

\* Every variable of a session keeps its type, for all values of the
\* constants (session.go, stream.go).
THEOREM TypeCorrect == Spec => []TypeOK
  BY InitType, TypeStep, PTL DEF Spec

\* What the readLoop is about to do changes in its own steps only.
LEMMA RlChanges ==
  ASSUME [Next]_vars
  PROVE  UNCHANGED rl \/ \E e \in Ends : ReadLoop(e)
<1>1. ASSUME NEW e \in Ends, OpenRegister(e) \/ Accept(e) \/ SessionEnds(e)
      PROVE  UNCHANGED rl
  BY <1>1 DEF OpenRegister, Accept, SessionEnds, SessionClose, KeepAliveCloses, loopVars
<1>2. ASSUME NEW e \in Ends, TearDown(e) PROVE UNCHANGED rl
  BY <1>2 DEF TearDown, TearGoaway, TearMark, TearConn, TearSweep, loopVars
<1>3. ASSUME NEW e \in Ends, NEW i \in Ids, OpenSend(e, i) \/ Reading(e, i)
      PROVE  UNCHANGED rl
  BY <1>3 DEF OpenSend, Reading, ReadData, ReadCredit, ReadEnd, loopVars
<1>4. ASSUME NEW e \in Ends, NEW i \in Ids, Write(e, i) \/ Close(e, i)
      PROVE  UNCHANGED rl
  BY <1>4 DEF Write, WriteTake, WriteSend, WriteError, Close, StreamClose,
     StreamCloseRetire, StreamCloseSend, loopVars
<1>5. CASE LinkDrop \/ UNCHANGED vars
  BY <1>5 DEF LinkDrop, vars, loopVars
<1> QED BY <1>1, <1>2, <1>3, <1>4, <1>5 DEF Next

\* The steps that change the tables: Session.Open, handleSYN, the frames that
\* retire or reset, Stream.Close and the sweep of closeWithError.
LEMMA LiveChanges ==
  ASSUME [Next]_vars
  PROVE  \/ UNCHANGED live
         \/ \E e \in Ends :
              \/ OpenRegister(e) \/ RlRegister(e) \/ Receive(e) \/ RlOffer(e)
              \/ RlRetire(e) \/ TearSweep(e)
              \/ \E i \in Ids : OpenSend(e, i) \/ StreamCloseRetire(e, i)
<1> DEFINE Changes(e) ==
             \/ OpenRegister(e) \/ RlRegister(e) \/ Receive(e) \/ RlOffer(e)
             \/ RlRetire(e) \/ TearSweep(e)
             \/ \E i \in Ids : OpenSend(e, i) \/ StreamCloseRetire(e, i)
<1>1. ASSUME NEW e \in Ends, Accept(e) \/ SessionEnds(e) PROVE UNCHANGED live
  BY <1>1 DEF Accept, SessionEnds, SessionClose, KeepAliveCloses, strVars
<1>2. ASSUME NEW e \in Ends, ReadLoop(e) PROVE UNCHANGED live \/ Changes(e)
  BY <1>2 DEF ReadLoop, ReceiveFails, RlReset, RlAbort, strVars
<1>3. ASSUME NEW e \in Ends, TearDown(e) PROVE UNCHANGED live \/ Changes(e)
  BY <1>3 DEF TearDown, TearGoaway, TearMark, TearConn, strVars
<1>4. ASSUME NEW e \in Ends, NEW i \in Ids, Reading(e, i) \/ Write(e, i)
      PROVE  UNCHANGED live
  BY <1>4 DEF Reading, ReadData, ReadCredit, ReadEnd, Write, WriteTake, WriteSend,
     WriteError, strVars
<1>5. ASSUME NEW e \in Ends, NEW i \in Ids, Close(e, i)
      PROVE  UNCHANGED live \/ Changes(e)
  BY <1>5 DEF Close, StreamClose, StreamCloseSend, strVars
<1>6. CASE LinkDrop \/ UNCHANGED vars
  BY <1>6 DEF LinkDrop, vars, strVars
<1> QED BY <1>1, <1>2, <1>3, <1>4, <1>5, <1>6 DEF Next

-----------------------------------------------------------------------------
(* Who owns the ids that frames, queues and tables name.                   *)

LEMMA InitWake == Init => WakeInv
<1> SUFFICES ASSUME Init PROVE WakeInv
  OBVIOUS
<1> USE DEF Init, PerEnd, PerStream
<1>1. SynOwner /\ HandOwner
  BY DEF SynOwner, HandOwner
<1>2. FreshIds
  BY EndsFacts DEF FreshIds, FirstID
<1>3. RetireInv
  BY IdsFacts DEF RetireInv
<1> QED BY <1>1, <1>2, <1>3 DEF WakeInv

\* What a writeFrame does to the owners of SYN frames in flight.
LEMMA SendsOwner ==
  ASSUME TypeOK, SynOwner, NEW e \in Ends, NEW f \in Frames,
         f.flag = "SYN" => f.id \in Own(e), SendsOrFails(e, f)
  PROVE  SynOwner'
<1>1. CASE link' = link
  BY <1>1 DEF SynOwner
<1>2. CASE link' = [link EXCEPT ![Peer(e)] = Append(@, f)]
  <2> SUFFICES ASSUME NEW d \in Ends, NEW k \in 1 .. Len(link'[d]),
                      link'[d][k].flag = "SYN"
               PROVE  link'[d][k].id \notin Own(d)
    BY DEF SynOwner
  <2>1. link[d] \in Seq(Frames) /\ link \in [Ends -> Seq(Frames)]
    BY DEF TypeOK, ConType
  <2>2. CASE d # Peer(e)
    BY <1>2, <2>1, <2>2, EndsFacts DEF SynOwner
  <2>3. CASE d = Peer(e)
    <3>1. link'[d] = Append(link[d], f)
      BY <1>2, <2>1, <2>3
    <3>2. CASE k <= Len(link[d])
      BY <2>1, <3>1, <3>2 DEF SynOwner
    <3>3. CASE k = Len(link[d]) + 1
      BY <2>1, <2>3, <3>1, <3>3, EndsFacts, OwnDisjoint
    <3> QED BY <2>1, <3>1, <3>2, <3>3
  <2> QED BY <2>2, <2>3
<1> QED BY <1>1, <1>2 DEF SendsOrFails, Sends, SendFails

\* Frames only leave a link, or are lost.
LEMMA ShorterOwner ==
  ASSUME TypeOK, SynOwner,
         \A d \in Ends : \/ link'[d] = link[d] \/ link'[d] = <<>>
                         \/ link[d] # <<>> /\ link'[d] = Tail(link[d])
                         \/ \E k \in 0 .. Len(link[d]) : link'[d] = SubSeq(link[d], 1, k)
  PROVE  SynOwner'
<1> SUFFICES ASSUME NEW d \in Ends, NEW k \in 1 .. Len(link'[d])
             PROVE  link'[d][k].flag = "SYN" => link'[d][k].id \notin Own(d)
  BY DEF SynOwner
<1>1. link[d] \in Seq(Frames)
  BY DEF TypeOK, ConType
<1>2. CASE link'[d] = link[d]
  BY <1>2 DEF SynOwner
<1>3. CASE link'[d] = <<>>
  BY <1>3
<1>4. CASE link[d] # <<>> /\ link'[d] = Tail(link[d])
  <2>1. k + 1 \in 1 .. Len(link[d]) /\ link'[d][k] = link[d][k + 1]
    BY <1>1, <1>4
  <2> QED BY <2>1 DEF SynOwner
<1>5. ASSUME NEW m \in 0 .. Len(link[d]), link'[d] = SubSeq(link[d], 1, m)
      PROVE  link'[d][k].flag = "SYN" => link'[d][k].id \notin Own(d)
  <2>1. k \in 1 .. Len(link[d]) /\ link'[d][k] = link[d][k]
    BY <1>1, <1>5
  <2> QED BY <2>1 DEF SynOwner
<1> QED BY <1>2, <1>3, <1>4, <1>5

LEMMA SynOwnerStep == TypeOK /\ SynOwner /\ FreshIds /\ [Next]_vars => SynOwner'
<1> SUFFICES ASSUME TypeOK, SynOwner, FreshIds, [Next]_vars PROVE SynOwner'
  OBVIOUS
<1>1. ASSUME UNCHANGED link PROVE SynOwner'
  BY <1>1 DEF SynOwner
<1>2. ASSUME NEW e \in Ends, NEW i \in Ids, OpenSend(e, i) PROVE SynOwner'
  <2>1. CASE SendFails(e)
    BY <1>1, <2>1 DEF SendFails
  <2>2. ASSUME NEW t \in Targets, Sends(e, Frame("SYN", i, t)) PROVE SynOwner'
    <3>1. Frame("SYN", i, t) \in Frames
      BY FrameType, MuxAssumption
      DEF MuxAssumption, StreamFlags, GoodTarget, BadTarget
    <3>2. Frame("SYN", i, t).id \in Own(e)
      BY <1>2 DEF OpenSend, FreshIds, Frame
    <3> QED BY <2>2, <3>1, <3>2, SendsOwner DEF SendsOrFails
  <2> QED BY <1>2, <2>1, <2>2 DEF OpenSend
<1>3. ASSUME NEW e \in Ends, NEW f \in Frames, f.flag # "SYN", SendsOrFails(e, f)
      PROVE  SynOwner'
  BY <1>3, SendsOwner
<1>4. ASSUME NEW e \in Ends, NEW i \in Ids, ReadCredit(e, i) PROVE SynOwner'
  <2>1. Frame("WIN", i, Credit(e, i)) \in Frames
    BY FrameType DEF TypeOK, AppType, Credit, StreamFlags
  <2> QED BY <1>3, <1>4, <2>1 DEF ReadCredit, Frame
<1>5. ASSUME NEW e \in Ends, NEW i \in Ids, WriteSend(e, i) PROVE SynOwner'
  <2>1. Frame("DATA", i, wr[e][i]) \in Frames
    BY FrameType DEF TypeOK, AppType, StreamFlags
  <2> QED BY <1>3, <1>5, <2>1 DEF WriteSend, SendsOrFails, Frame
<1>6. ASSUME NEW e \in Ends, NEW i \in Ids, StreamCloseSend(e, i) PROVE SynOwner'
  <2>1. Frame("FIN", i, 0) \in Frames
    BY FrameType DEF StreamFlags
  <2> QED BY <1>3, <1>6, <2>1 DEF StreamCloseSend, Frame
<1>7. ASSUME NEW e \in Ends, TearGoaway(e) PROVE SynOwner'
  <2>1. Frame("GOAWAY", 0, Reason(e)) \in Frames
    BY FrameType DEF Reason, ReasonNormal, ReasonProtocol
  <2> QED BY <1>3, <1>7, <2>1 DEF TearGoaway, Frame
<1>8. ASSUME NEW e \in Ends, RlAbort(e) PROVE SynOwner'
  <2>1. Frame("RST", rl[e].id, ReasonBusy) \in Frames
    BY <1>8, FrameType DEF TypeOK, LoopType, RlAbort, ReasonBusy, StreamFlags
  <2> QED BY <1>3, <1>8, <2>1 DEF RlAbort, Frame
<1>9. ASSUME NEW e \in Ends, Receive(e) PROVE SynOwner'
  <2>1. link[e] # <<>> /\ link' = [link EXCEPT ![e] = Tail(@)]
    BY <1>9 DEF Receive
  <2> QED BY <2>1, ShorterOwner DEF TypeOK, ConType
<1>10. ASSUME NEW e \in Ends, TearConn(e) PROVE SynOwner'
  <2>1. link' = [link EXCEPT ![e] = <<>>]
    BY <1>10 DEF TearConn
  <2> QED BY <2>1, ShorterOwner DEF TypeOK, ConType
<1>11. CASE LinkDrop
  <2>1. \A d \in Ends : \E k \in 0 .. Len(link[d]) : link'[d] = SubSeq(link[d], 1, k)
    BY <1>11 DEF LinkDrop, TypeOK, ConType, Ends
  <2> QED BY <2>1, ShorterOwner
<1> QED
  BY <1>1, <1>2, <1>4, <1>5, <1>6, <1>7, <1>8, <1>9, <1>10, <1>11
  DEF Next, ReadLoop, TearDown, Reading, Write, Close, vars, conVars,
      OpenRegister, Accept, SessionEnds, SessionClose, KeepAliveCloses, ReceiveFails, RlRegister, RlOffer,
      RlReset, RlRetire, TearMark, TearSweep, ReadData, ReadEnd, WriteTake,
      WriteError, StreamClose, StreamCloseRetire

LEMMA HandOwnerStep == TypeOK /\ SynOwner /\ HandOwner /\ [Next]_vars => HandOwner'
<1> SUFFICES ASSUME TypeOK, SynOwner, HandOwner, [Next]_vars PROVE HandOwner'
  OBVIOUS
<1>1. ASSUME UNCHANGED <<acc, rl>> PROVE HandOwner'
  BY <1>1 DEF HandOwner
<1>2. ASSUME UNCHANGED acc, NEW e \in Ends, NEW i, NEW pc \in ReaderSteps, RlTo(e, pc, i),
             pc \in {"register", "offer", "refuse"} => i \notin Own(e)
      PROVE  HandOwner'
  BY <1>2 DEF HandOwner, RlTo, TypeOK, LoopType
<1>3. ASSUME NEW e \in Ends, Accept(e) PROVE HandOwner'
  <2>1. acc[e] \in Seq(Ids)
    BY DEF TypeOK, LoopType
  <2>2. acc' = acc \/ (acc[e] # <<>> /\ acc' = [acc EXCEPT ![e] = Tail(@)])
    BY <1>3 DEF Accept
  <2>3. UNCHANGED rl
    BY <1>3 DEF Accept
  <2>4. CASE acc[e] # <<>> /\ acc' = [acc EXCEPT ![e] = Tail(@)]
    BY <2>1, <2>3, <2>4 DEF HandOwner, TypeOK, LoopType
  <2> QED BY <1>1, <2>2, <2>3, <2>4
<1>4. ASSUME NEW e \in Ends, RlOffer(e) PROVE HandOwner'
  <2>1. rl[e].id \notin Own(e)
    BY <1>4 DEF RlOffer, HandOwner
  <2>2. CASE acc' = acc /\ RlTo(e, "refuse", rl[e].id)
    BY <1>2, <2>1, <2>2 DEF ReaderSteps
  <2>3. CASE acc' = [acc EXCEPT ![e] = Append(@, rl[e].id)] /\ RlTo(e, "read", 0)
    <3>1. acc[e] \in Seq(Ids)
      BY DEF TypeOK, LoopType
    <3>2. \A d \in Ends : \A k \in 1 .. Len(acc'[d]) : acc'[d][k] \notin Own(d)
      BY <2>1, <2>3, <3>1 DEF HandOwner, TypeOK, LoopType
    <3> QED BY <2>3, <3>2 DEF HandOwner, RlTo, TypeOK, LoopType
  <2> QED BY <1>4, <2>2, <2>3 DEF RlOffer
<1>5. ASSUME NEW e \in Ends, Receive(e) PROVE HandOwner'
  <2> DEFINE f == Head(link[e])
  <2>1. f.flag = "SYN" => f.id \notin Own(e)
    BY <1>5 DEF Receive, SynOwner, TypeOK, ConType
  <2>2. UNCHANGED acc
    BY <1>5 DEF Receive
  <2>3. \/ UNCHANGED rl \/ RlTo(e, "exit", 0) \/ RlTo(e, "rst", f.id)
        \/ RlTo(e, "retire", f.id) \/ RlTo(e, "reset", f.id)
        \/ f.flag = "SYN" /\ RlTo(e, "register", f.id)
    BY <1>5 DEF Receive, RecvSYN, RecvDATA, RecvFIN, RecvRST, RecvWIN, RecvGOAWAY,
       ReaderSteps, strVars
  <2> QED BY <1>1, <1>2, <2>1, <2>2, <2>3 DEF ReaderSteps
<1>6. ASSUME NEW e \in Ends, RlRegister(e) PROVE HandOwner'
  <2>1. rl[e].id \notin Own(e)
    BY <1>6 DEF RlRegister, HandOwner
  <2>2. UNCHANGED acc /\ (RlTo(e, "rst", rl[e].id) \/ RlTo(e, "offer", rl[e].id))
    BY <1>6 DEF RlRegister
  <2> QED BY <1>2, <2>1, <2>2 DEF ReaderSteps
<1>7. ASSUME NEW e \in Ends, ReceiveFails(e) \/ RlReset(e) \/ RlRetire(e) \/ RlAbort(e)
      PROVE  HandOwner'
  <2>1. /\ UNCHANGED acc
        /\ RlTo(e, "exit", 0) \/ RlTo(e, "rst", rl[e].id) \/ RlTo(e, "read", 0)
    BY <1>7 DEF ReceiveFails, RlReset, RlRetire, RlAbort
  <2> QED BY <1>2, <2>1 DEF ReaderSteps
<1> QED
  BY <1>1, <1>3, <1>4, <1>5, <1>6, <1>7
  DEF Next, ReadLoop, TearDown, Reading, Write, Close, vars, loopVars, LinkDrop,
      OpenRegister, OpenSend, SessionEnds, SessionClose, KeepAliveCloses, TearGoaway, TearMark, TearConn,
      TearSweep, ReadData, ReadCredit, ReadEnd, WriteTake, WriteSend, WriteError,
      StreamClose, StreamCloseRetire, StreamCloseSend

LEMMA FreshIdsStep == TypeOK /\ HandOwner /\ FreshIds /\ [Next]_vars => FreshIds'
<1> SUFFICES ASSUME TypeOK, HandOwner, FreshIds, [Next]_vars PROVE FreshIds'
  OBVIOUS
<1>1. ASSUME UNCHANGED <<nextID, opening, held>>, \A d \in Ends : live'[d] \cap Own(d) \subseteq live[d]
      PROVE FreshIds'
  BY <1>1 DEF FreshIds
<1>2. ASSUME NEW e \in Ends, OpenRegister(e) PROVE FreshIds'
  <2>1. /\ nextID[e] \in Ids /\ nextID[e] \in Nat
        /\ nextID' = [nextID EXCEPT ![e] = nextID[e] + 2]
        /\ live' = Set(live, e, nextID[e]) /\ opening' = Set(opening, e, nextID[e])
        /\ UNCHANGED held
    BY <1>2 DEF OpenRegister, AfterID, TypeOK, SesType
  <2>2. nextID[e] \in Own(e)
    BY <2>1 DEF FreshIds, Own
  <2>3. (nextID[e] + 2) % 2 = nextID[e] % 2
    BY <2>1
  <2>4. nextID[e] \notin held[e]
    BY <2>1, <2>2, IdsFacts DEF FreshIds
  <2>5. ASSUME NEW d \in Ends
        PROVE  /\ nextID'[d] % 2 = FirstID(d) % 2
               /\ opening'[d] \subseteq Own(d) /\ opening'[d] \cap held[d] = {}
    BY <2>1, <2>2, <2>3, <2>4 DEF FreshIds, TypeOK, SesType, AppType, Set
  <2>6. ASSUME NEW d \in Ends, NEW i \in Own(d) \cap (held[d] \cup opening'[d] \cup live'[d])
        PROVE  i < nextID'[d]
    <3>1. i \in Nat /\ nextID[d] \in Nat
      BY IdsFacts DEF TypeOK, SesType
    <3>2. CASE i \in Own(d) \cap (held[d] \cup opening[d] \cup live[d])
      BY <2>1, <3>1, <3>2 DEF FreshIds, TypeOK, SesType
    <3>3. CASE i = nextID[d] /\ d = e
      BY <2>1, <3>1, <3>3 DEF TypeOK, SesType
    <3> QED BY <2>1, <2>6, <3>2, <3>3 DEF Set, TypeOK, StrType, AppType
  <2> QED BY <2>1, <2>5, <2>6 DEF FreshIds
<1>3. ASSUME NEW e \in Ends, NEW i \in Ids, OpenSend(e, i) PROVE FreshIds'
  <2>1. /\ UNCHANGED nextID /\ opening' = Clear(opening, e, i) /\ i \in opening[e]
        /\ (held' = held \/ held' = Set(held, e, i))
        /\ (live' = live \/ live' = Clear(live, e, i))
    BY <1>3 DEF OpenSend, sesVars
  <2> QED BY <2>1 DEF FreshIds, Set, Clear, TypeOK, AppType, StrType
<1>4. ASSUME NEW e \in Ends, Accept(e) PROVE FreshIds'
  <2>1. acc[e] # <<>> => Head(acc[e]) \notin Own(e)
    BY DEF HandOwner, TypeOK, LoopType
  <2>2. /\ UNCHANGED <<nextID, opening, live>>
        /\ held' = held \/ (acc[e] # <<>> /\ held' = Set(held, e, Head(acc[e])))
    BY <1>4 DEF Accept, strVars
  <2>3. CASE held' = held
    BY <2>2, <2>3 DEF FreshIds
  <2>4. CASE acc[e] # <<>> /\ held' = Set(held, e, Head(acc[e]))
    BY <2>1, <2>2, <2>4 DEF FreshIds, Set, TypeOK, AppType
  <2> QED BY <2>2, <2>3, <2>4
<1>5. ASSUME NEW e \in Ends, NEW i, live' = live \/ live' = Clear(live, e, i),
             UNCHANGED <<nextID, opening, held>>
      PROVE  FreshIds'
  BY <1>1, <1>5 DEF Clear, TypeOK, StrType
<1>6. ASSUME NEW e \in Ends, Receive(e) PROVE FreshIds'
  <2>1. live' = live \/ live' = Clear(live, e, Head(link[e]).id)
    BY <1>6 DEF Receive, RecvSYN, RecvDATA, RecvFIN, RecvRST, RecvWIN, RecvGOAWAY,
       strVars
  <2> QED BY <1>5, <1>6, <2>1 DEF Receive, appVars
<1>7. ASSUME NEW e \in Ends, RlRegister(e) PROVE FreshIds'
  <2>1. rl[e].id \notin Own(e)
    BY <1>7 DEF RlRegister, HandOwner
  <2>2. live' = live \/ live' = Set(live, e, rl[e].id)
    BY <1>7 DEF RlRegister, strVars
  <2>3. \A d \in Ends : live'[d] \cap Own(d) \subseteq live[d]
    <3>1. CASE live' = live
      BY <3>1
    <3>2. CASE live' = Set(live, e, rl[e].id)
      <4>1. \A d \in Ends : live'[d] = IF d = e THEN live[d] \cup {rl[e].id} ELSE live[d]
        BY <3>2 DEF Set, TypeOK, StrType
      <4> QED BY <2>1, <4>1
    <3> QED BY <2>2, <3>1, <3>2
  <2> QED BY <1>1, <1>7, <2>3 DEF RlRegister, sesVars, appVars
<1>8. ASSUME NEW e \in Ends, RlOffer(e) \/ RlRetire(e) PROVE FreshIds'
  BY <1>5, <1>8 DEF RlOffer, RlRetire, Unregistered, sesVars, appVars
<1>9. ASSUME NEW e \in Ends, NEW i \in Ids, StreamCloseRetire(e, i) PROVE FreshIds'
  BY <1>5, <1>9 DEF StreamCloseRetire, sesVars
<1>10. ASSUME NEW e \in Ends, TearSweep(e) PROVE FreshIds'
  <2>1. live' = [live EXCEPT ![e] = {}]
    BY <1>10 DEF TearSweep
  <2> QED BY <1>1, <1>10, <2>1 DEF TearSweep, appVars, TypeOK, StrType
<1>11. ASSUME UNCHANGED <<nextID, opening, held, live>> PROVE FreshIds'
  BY <1>11 DEF FreshIds
<1> QED
  BY <1>2, <1>3, <1>4, <1>6, <1>7, <1>8, <1>9, <1>10, <1>11
  DEF Next, ReadLoop, TearDown, Reading, Write, Close, vars, sesVars, strVars,
      appVars, LinkDrop, SessionEnds, SessionClose, KeepAliveCloses, TearGoaway, TearMark, TearConn,
      ReceiveFails, RlReset, RlAbort, ReadData, ReadCredit, ReadEnd, WriteTake,
      WriteSend, WriteError, StreamClose, StreamCloseSend
-----------------------------------------------------------------------------
(* The flags of a stream are only ever set, except by newStream.           *)

Grows(f, g) == \A d \in Ends : f[d] \subseteq g[d]
FlagsGrow ==
    /\ Grows(finRecv, finRecv') /\ Grows(finSent, finSent')
    /\ Grows(reset, reset') /\ Grows(sclosed, sclosed')

NewSteps == \E e \in Ends : OpenRegister(e) \/ RlRegister(e)

LEMMA FlagsOnlySet == TypeOK /\ [Next]_vars => NewSteps \/ FlagsGrow
<1> SUFFICES ASSUME TypeOK, [Next]_vars, ~NewSteps PROVE FlagsGrow
  OBVIOUS
<1>1. ASSUME UNCHANGED flags PROVE FlagsGrow
  BY <1>1 DEF FlagsGrow, Grows, flags
<1>2. ASSUME NEW e \in Ends, NEW i \in Ids, StreamClose(e, i) PROVE FlagsGrow
  <2>1. finSent' = Set(finSent, e, i) /\ UNCHANGED <<finRecv, reset, sclosed>>
    BY <1>2 DEF StreamClose
  <2> QED BY <2>1 DEF FlagsGrow, Grows, Set, TypeOK, StrType
<1>3. ASSUME NEW e \in Ends, Receive(e) PROVE FlagsGrow
  <2>1. \/ UNCHANGED flags
        \/ /\ finRecv' = Set(finRecv, e, Head(link[e]).id) \/ finRecv' = finRecv
           /\ UNCHANGED <<finSent, reset, sclosed>>
    BY <1>3 DEF Receive, RecvSYN, RecvDATA, RecvFIN, RecvRST, RecvWIN, RecvGOAWAY,
       strVars
  <2> QED BY <1>1, <2>1 DEF FlagsGrow, Grows, Set, TypeOK, StrType
<1>4. ASSUME NEW e \in Ends, RlReset(e) PROVE FlagsGrow
  <2>1. reset' = Set(reset, e, rl[e].id) /\ UNCHANGED <<finRecv, finSent, sclosed>>
    BY <1>4 DEF RlReset
  <2> QED BY <2>1 DEF FlagsGrow, Grows, Set, TypeOK, StrType
<1>5. ASSUME NEW e \in Ends, TearSweep(e) PROVE FlagsGrow
  <2>1. /\ sclosed' = [sclosed EXCEPT ![e] = @ \cup live[e]]
        /\ UNCHANGED <<finRecv, finSent, reset>>
    BY <1>5 DEF TearSweep
  <2> QED BY <2>1 DEF FlagsGrow, Grows, TypeOK, StrType
<1> QED
  BY <1>1, <1>2, <1>3, <1>4, <1>5
  DEF Next, NewSteps, ReadLoop, TearDown, Reading, Write, Close, vars, strVars,
      LinkDrop, OpenSend, Accept, SessionEnds, SessionClose, KeepAliveCloses, ReceiveFails, RlOffer, RlRetire,
      RlAbort, TearGoaway, TearMark, TearConn, ReadData, ReadCredit, ReadEnd,
      WriteTake, WriteSend, WriteError, StreamCloseRetire, StreamCloseSend

\* newStream clears the flags of its own id only.
LEMMA NewStreamFlags ==
  ASSUME TypeOK, NEW e \in Ends, NEW id, NewStream(e, id), NEW d \in Ends,
         NEW i, d # e \/ i # id
  PROVE  /\ i \in finRecv[d] <=> i \in finRecv'[d]
         /\ i \in finSent[d] <=> i \in finSent'[d]
         /\ i \in reset[d] <=> i \in reset'[d]
         /\ i \in sclosed[d] <=> i \in sclosed'[d]
  BY DEF NewStream, Clear, TypeOK, StrType

LEMMA EndedStays ==
  ASSUME TypeOK, HandOwner, FreshIds, [Next]_vars, NEW d \in Ends,
         NEW i \in Own(d), i < nextID[d]
  PROVE  /\ i \in Ended(d) => i \in Ended(d)'
         /\ i \in finSent[d] \cap finRecv[d] => i \in finSent'[d] \cap finRecv'[d]
<1>1. CASE FlagsGrow
  BY <1>1 DEF FlagsGrow, Grows, Ended
<1>2. ASSUME NEW e \in Ends, OpenRegister(e)
      PROVE  /\ i \in Ended(d) => i \in Ended(d)'
             /\ i \in finSent[d] \cap finRecv[d] => i \in finSent'[d] \cap finRecv'[d]
  <2>1. NewStream(e, nextID[e])
    BY <1>2 DEF OpenRegister
  <2>2. d # e \/ i # nextID[e]
    BY IdsFacts DEF TypeOK, SesType
  <2> QED BY <2>1, <2>2, NewStreamFlags DEF Ended
<1>3. ASSUME NEW e \in Ends, RlRegister(e)
      PROVE  /\ i \in Ended(d) => i \in Ended(d)'
             /\ i \in finSent[d] \cap finRecv[d] => i \in finSent'[d] \cap finRecv'[d]
  <2>1. CASE UNCHANGED strVars
    BY <2>1 DEF strVars, flags, Ended
  <2>2. CASE NewStream(e, rl[e].id)
    <3>1. d # e \/ i # rl[e].id
      BY <1>3 DEF RlRegister, HandOwner
    <3> QED BY <2>2, <3>1, NewStreamFlags DEF Ended
  <2> QED BY <1>3, <2>1, <2>2 DEF RlRegister
<1> QED BY <1>1, <1>2, <1>3, FlagsOnlySet DEF NewSteps

\* Streams are never taken back from the application, ids never reused.
LEMMA HeldGrows ==
  ASSUME TypeOK, [Next]_vars
  PROVE  \A d \in Ends : held[d] \subseteq held'[d] /\ nextID[d] <= nextID'[d]
<1> DEFINE Goal == \A d \in Ends : held[d] \subseteq held'[d] /\ nextID[d] <= nextID'[d]
<1> SUFFICES Goal
  OBVIOUS
<1>1. ASSUME NEW e \in Ends, OpenRegister(e) PROVE Goal
  <2>1. nextID' = [nextID EXCEPT ![e] = nextID[e] + 2] /\ UNCHANGED held
    BY <1>1 DEF OpenRegister, AfterID, TypeOK, SesType
  <2> QED BY <2>1 DEF TypeOK, SesType
<1>2. ASSUME NEW e \in Ends, NEW i, held' = held \/ held' = Set(held, e, i), UNCHANGED nextID
      PROVE  Goal
  <2>1. \A d \in Ends : nextID[d] <= nextID'[d]
    BY <1>2 DEF TypeOK, SesType
  <2>2. \A d \in Ends : held[d] \subseteq held'[d]
    <3>1. CASE held' = Set(held, e, i)
      <4>1. held \in [Ends -> SUBSET Ids] /\ held' = [held EXCEPT ![e] = @ \cup {i}]
        BY <3>1 DEF Set, TypeOK, AppType
      <4> QED BY <4>1
    <3>2. CASE held' = held
      BY <3>2
    <3> QED BY <1>2, <3>1, <3>2
  <2> QED BY <2>1, <2>2
<1>3. ASSUME NEW e \in Ends, Accept(e) PROVE Goal
  <2>1. UNCHANGED nextID /\ \E i : held' = held \/ held' = Set(held, e, i)
    BY <1>3 DEF Accept
  <2> HIDE DEF Goal
  <2> QED BY <1>2, <2>1
<1>4. ASSUME NEW e \in Ends, NEW i \in Ids, OpenSend(e, i) PROVE Goal
  <2>1. (held' = held \/ held' = Set(held, e, i)) /\ UNCHANGED nextID
    BY <1>4 DEF OpenSend, sesVars
  <2> HIDE DEF Goal
  <2> QED BY <1>2, <2>1
<1>5. ASSUME UNCHANGED <<held, nextID>> PROVE Goal
  BY <1>5 DEF TypeOK, SesType
<1>6. ASSUME NEW e \in Ends, ReadLoop(e) \/ TearDown(e) PROVE Goal
  BY <1>5, <1>6, LoopFootprint, TearFootprint DEF LoopKeeps, TearKeeps, appVars
<1>7. ASSUME NEW e \in Ends, NEW j \in Ids, Reading(e, j) \/ Write(e, j) \/ Close(e, j)
      PROVE  Goal
  BY <1>5, <1>7, StreamFootprint DEF ReadKeeps, WriteKeeps, CloseKeeps, sesVars
<1>8. ASSUME NEW e \in Ends, SessionEnds(e) PROVE Goal
  BY <1>5, <1>8 DEF SessionEnds, SessionClose, KeepAliveCloses, appVars
<1>9. CASE LinkDrop \/ UNCHANGED vars
  BY <1>5, <1>9 DEF LinkDrop, vars, appVars, sesVars
<1> HIDE DEF Goal
<1> QED
  BY <1>1, <1>3, <1>4, <1>6, <1>7, <1>8, <1>9 DEF Next

\* The progress of Stream.Close.
LEMMA CloseProgress ==
  ASSUME TypeOK, [Next]_vars, NEW d \in Ends, NEW i \in Ids
  PROVE  \/ cl'[d][i] = cl[d][i]
         \/ i \in held[d] /\ cl'[d][i] = "fin"
         \/ /\ i \in held[d] /\ i \in finRecv[d]
            /\ finSent' = Set(finSent, d, i) /\ UNCHANGED finRecv
         \/ cl[d][i] # "open" /\ cl'[d][i] \in {"fin", "done"}
<1> DEFINE Goal == \/ cl'[d][i] = cl[d][i]
                   \/ i \in held[d] /\ cl'[d][i] = "fin"
                   \/ /\ i \in held[d] /\ i \in finRecv[d]
                      /\ finSent' = Set(finSent, d, i) /\ UNCHANGED finRecv
                   \/ cl[d][i] # "open" /\ cl'[d][i] \in {"fin", "done"}
<1> SUFFICES Goal
  OBVIOUS
<1>1. ASSUME NEW e \in Ends, NEW j \in Ids, StreamClose(e, j) PROVE Goal
  <2>1. /\ j \in held[e] /\ finSent' = Set(finSent, e, j) /\ UNCHANGED finRecv
        /\ cl' = [cl EXCEPT ![e][j] = IF j \in finRecv[e] THEN "retire" ELSE "fin"]
    BY <1>1 DEF StreamClose, BothClosed
  <2>2. CASE e = d /\ j = i
    BY <2>1, <2>2 DEF TypeOK, AppType
  <2>3. CASE e # d \/ j # i
    BY <2>1, <2>3 DEF TypeOK, AppType
  <2> QED BY <2>2, <2>3
<1>2. ASSUME NEW e \in Ends, NEW j \in Ids, StreamCloseRetire(e, j) PROVE Goal
  <2>1. cl[e][j] = "retire" /\ cl' = [cl EXCEPT ![e][j] = "fin"]
    BY <1>2 DEF StreamCloseRetire
  <2> QED BY <2>1 DEF TypeOK, AppType
<1>3. ASSUME NEW e \in Ends, NEW j \in Ids, StreamCloseSend(e, j) PROVE Goal
  <2>1. cl[e][j] = "fin" /\ cl' = [cl EXCEPT ![e][j] = "done"]
    BY <1>3 DEF StreamCloseSend
  <2> QED BY <2>1 DEF TypeOK, AppType
<1>4. ASSUME UNCHANGED cl PROVE Goal
  BY <1>4
<1>5. ASSUME NEW e \in Ends, ReadLoop(e) \/ TearDown(e) PROVE Goal
  BY <1>4, <1>5, LoopFootprint, TearFootprint DEF LoopKeeps, TearKeeps, appVars
<1>6. ASSUME NEW e \in Ends, NEW j \in Ids, Reading(e, j) \/ Write(e, j) \/ Close(e, j)
      PROVE  Goal
  BY <1>1, <1>2, <1>3, <1>4, <1>6, StreamFootprint DEF ReadKeeps, WriteKeeps, Close
<1>7. ASSUME NEW e \in Ends, Accept(e) \/ SessionEnds(e) \/ OpenRegister(e) PROVE Goal
  BY <1>4, <1>7 DEF Accept, SessionEnds, SessionClose, KeepAliveCloses, OpenRegister, appVars
<1>8. ASSUME NEW e \in Ends, NEW j \in Ids, OpenSend(e, j) PROVE Goal
  BY <1>4, <1>8 DEF OpenSend
<1>9. CASE LinkDrop \/ UNCHANGED vars
  BY <1>4, <1>9 DEF LinkDrop, vars, appVars
<1> HIDE DEF Goal
<1> QED
  BY <1>5, <1>6, <1>7, <1>8, <1>9 DEF Next

\* Only a FIN for a stream that has sent its own makes the readLoop retire it.
LEMMA RetireCause ==
  ASSUME TypeOK, [Next]_vars, NEW d \in Ends, rl'[d].pc = "retire"
  PROVE  \/ rl'[d] = rl[d]
         \/ /\ rl'[d].id \in live[d] \cap finSent[d]
            /\ finRecv' = Set(finRecv, d, rl'[d].id) /\ UNCHANGED finSent
<1> DEFINE Goal == \/ rl'[d] = rl[d]
                   \/ /\ rl'[d].id \in live[d] \cap finSent[d]
                      /\ finRecv' = Set(finRecv, d, rl'[d].id) /\ UNCHANGED finSent
<1> SUFFICES Goal
  OBVIOUS
<1>1. ASSUME NEW e \in Ends, NEW i, NEW pc, pc # "retire", RlTo(e, pc, i) PROVE Goal
  BY <1>1 DEF RlTo, TypeOK, LoopType
<1>2. ASSUME UNCHANGED rl PROVE Goal
  BY <1>2
<1>3. ASSUME NEW e \in Ends, Receive(e) PROVE Goal
  <2> DEFINE f == Head(link[e])
  <2>1. \/ UNCHANGED rl \/ RlTo(e, "exit", 0) \/ RlTo(e, "rst", f.id)
        \/ RlTo(e, "register", f.id) \/ RlTo(e, "reset", f.id)
        \/ /\ RlTo(e, "retire", f.id) /\ f.id \in live[e] \cap finSent[e]
           /\ finRecv' = Set(finRecv, e, f.id) /\ UNCHANGED finSent
    BY <1>3 DEF Receive, RecvSYN, RecvDATA, RecvFIN, RecvRST, RecvWIN, RecvGOAWAY,
       BothClosed
  <2>2. CASE /\ RlTo(e, "retire", f.id) /\ f.id \in live[e] \cap finSent[e]
             /\ finRecv' = Set(finRecv, e, f.id) /\ UNCHANGED finSent
    BY <2>2 DEF RlTo, TypeOK, LoopType
  <2> QED BY <1>1, <1>2, <2>1, <2>2
<1>4. ASSUME NEW e \in Ends,
             ReceiveFails(e) \/ RlRegister(e) \/ RlOffer(e) \/ RlReset(e) \/ RlRetire(e)
               \/ RlAbort(e)
      PROVE  Goal
  <2>1. \/ RlTo(e, "exit", 0) \/ RlTo(e, "rst", rl[e].id) \/ RlTo(e, "read", 0)
        \/ RlTo(e, "offer", rl[e].id) \/ RlTo(e, "refuse", rl[e].id)
    BY <1>4 DEF ReceiveFails, RlRegister, RlOffer, RlReset, RlRetire, RlAbort
  <2> QED BY <1>1, <2>1
<1> HIDE DEF Goal
<1> QED
  BY <1>2, <1>3, <1>4, RlChanges DEF ReadLoop

LEMMA RetireStep ==
  TypeOK /\ HandOwner /\ FreshIds /\ RetireInv /\ [Next]_vars => RetireInv'
<1> SUFFICES ASSUME TypeOK, HandOwner, FreshIds, RetireInv, [Next]_vars,
                    NEW d \in Ends
             PROVE  /\ \A i \in Ids : cl'[d][i] # "open" => i \in held'[d]
                    /\ \A i \in Own(d) : cl'[d][i] = "retire" => i \in finSent'[d] \cap finRecv'[d]
                    /\ (rl'[d].pc = "retire" /\ rl'[d].id \in Own(d))
                         => rl'[d].id \in finSent'[d] \cap finRecv'[d] /\ rl'[d].id < nextID'[d]
  BY DEF RetireInv
<1>1. nextID[d] \in Nat /\ nextID'[d] \in Nat
  BY TypeStep DEF TypeOK, SesType
<1>2. ASSUME NEW i \in Ids, cl'[d][i] # "open" PROVE i \in held'[d]
  BY <1>2, CloseProgress, HeldGrows DEF RetireInv
<1>3. ASSUME NEW i \in Own(d), cl'[d][i] = "retire" PROVE i \in finSent'[d] \cap finRecv'[d]
  <2>1. i \in Ids
    BY IdsFacts
  <2>2. CASE cl[d][i] = "retire"
    <3>1. i < nextID[d]
      BY <2>1, <2>2 DEF RetireInv, FreshIds
    <3> QED BY <2>2, <3>1, EndedStays DEF RetireInv
  <2>3. CASE i \in finRecv[d] /\ finSent' = Set(finSent, d, i) /\ UNCHANGED finRecv
    BY <2>3 DEF Set, TypeOK, StrType
  <2> QED BY <1>3, <2>1, <2>2, <2>3, CloseProgress
<1>4. ASSUME rl'[d].pc = "retire", rl'[d].id \in Own(d)
      PROVE  rl'[d].id \in finSent'[d] \cap finRecv'[d] /\ rl'[d].id < nextID'[d]
  <2> DEFINE i == rl'[d].id
  <2>1. i \in Nat /\ nextID[d] <= nextID'[d]
    BY <1>4, IdsFacts, HeldGrows
  <2>2. CASE rl'[d] = rl[d]
    BY <1>1, <1>4, <2>1, <2>2, EndedStays DEF RetireInv
  <2>3. CASE i \in live[d] \cap finSent[d] /\ finRecv' = Set(finRecv, d, i) /\ UNCHANGED finSent
    <3>1. i < nextID[d]
      BY <1>4, <2>3 DEF FreshIds
    <3> QED BY <1>1, <2>1, <2>3, <3>1 DEF Set, TypeOK, StrType
  <2> QED BY <1>4, <2>2, <2>3, RetireCause
<1> QED BY <1>2, <1>3, <1>4

-----------------------------------------------------------------------------
(* closeWithError against Open, Close, RST and FIN.                        *)

LEMMA PhaseProgress ==
  ASSUME TypeOK, [Next]_vars, NEW d \in Ends
  PROVE  /\ closed \subseteq closed'
         /\ \/ phase'[d] = phase[d] \/ phase'[d] \in {"goaway", "mark"}
            \/ d \in closed' /\ phase'[d] = "conn"
            \/ phase[d] = "conn" /\ phase'[d] = "sweep"
            \/ phase[d] = "sweep" /\ TearSweep(d)
<1> DEFINE Goal == /\ closed \subseteq closed'
                   /\ \/ phase'[d] = phase[d] \/ phase'[d] \in {"goaway", "mark"}
                      \/ d \in closed' /\ phase'[d] = "conn"
                      \/ phase[d] = "conn" /\ phase'[d] = "sweep"
                      \/ phase[d] = "sweep" /\ TearSweep(d)
<1> SUFFICES Goal
  OBVIOUS
<1>1. ASSUME NEW e \in Ends, UNCHANGED closed,
             UNCHANGED phase \/ phase' = [phase EXCEPT ![e] = "goaway"]
      PROVE  Goal
  BY <1>1 DEF TypeOK, SesType
<1>2. ASSUME NEW e \in Ends, Receive(e) \/ ReceiveFails(e) \/ SessionEnds(e) PROVE Goal
  BY <1>1, <1>2 DEF Receive, ReceiveFails, SessionEnds, SessionClose, KeepAliveCloses, RecvSYN, RecvDATA, RecvFIN,
     RecvRST, RecvWIN, RecvGOAWAY, Closing
<1>3. ASSUME NEW e \in Ends, TearGoaway(e) PROVE Goal
  BY <1>3 DEF TearGoaway, Advance, After, TypeOK, SesType
<1>4. ASSUME NEW e \in Ends, TearMark(e) PROVE Goal
  BY <1>4 DEF TearMark, Advance, After, TypeOK, SesType
<1>5. ASSUME NEW e \in Ends, TearConn(e) PROVE Goal
  BY <1>5 DEF TearConn, Advance, After, TypeOK, SesType
<1>6. ASSUME NEW e \in Ends, TearSweep(e) PROVE Goal
  BY <1>6 DEF TearSweep, Advance, After, TypeOK, SesType
<1>7. ASSUME UNCHANGED <<closed, phase>> PROVE Goal
  BY <1>7
<1> HIDE DEF Goal
<1>8. ASSUME NEW e \in Ends, ReadLoop(e) PROVE Goal
  BY <1>2, <1>7, <1>8
  DEF ReadLoop, sesVars, RlRegister, RlOffer, RlReset, RlRetire, RlAbort
<1>9. ASSUME NEW e \in Ends, NEW i \in Ids,
             OpenSend(e, i) \/ Reading(e, i) \/ Write(e, i) \/ Close(e, i)
      PROVE  Goal
  <2>1. UNCHANGED <<closed, phase>>
    BY <1>9, StreamFootprint DEF ReadKeeps, WriteKeeps, CloseKeeps, OpenSend, sesVars
  <2> QED BY <1>7, <2>1
<1>10. ASSUME NEW e \in Ends, OpenRegister(e) \/ Accept(e) PROVE Goal
  BY <1>7, <1>10 DEF OpenRegister, Accept, sesVars
<1>11. CASE LinkDrop \/ UNCHANGED vars
  BY <1>7, <1>11 DEF LinkDrop, vars, sesVars
<1> QED
  BY <1>2, <1>3, <1>4, <1>5, <1>6, <1>8, <1>9, <1>10, <1>11 DEF Next, TearDown

\* How an own stream enters the table, and the application's hands.
LEMMA OwnEnters ==
  ASSUME TypeOK, HandOwner, [Next]_vars, NEW d \in Ends, NEW i \in Own(d)
  PROVE  \/ /\ i \in live'[d] => i \in live[d]
            /\ i \in held'[d] \cup opening'[d] => i \in held[d] \cup opening[d]
         \/ OpenRegister(d) /\ i = nextID[d]
<1> DEFINE Goal == \/ /\ i \in live'[d] => i \in live[d]
                      /\ i \in held'[d] \cup opening'[d] => i \in held[d] \cup opening[d]
                   \/ OpenRegister(d) /\ i = nextID[d]
<1> SUFFICES Goal
  OBVIOUS
<1>1. ASSUME NEW e \in Ends, OpenRegister(e) PROVE Goal
  <2>1. /\ live' = Set(live, e, nextID[e]) /\ opening' = Set(opening, e, nextID[e])
        /\ UNCHANGED held
    BY <1>1 DEF OpenRegister
  <2>2. CASE d = e /\ i = nextID[e]
    BY <1>1, <2>2
  <2>3. CASE d # e \/ i # nextID[e]
    BY <2>1, <2>3 DEF Set, TypeOK, StrType, AppType
  <2> QED BY <2>2, <2>3
<1>2. ASSUME NEW e \in Ends, NEW j \in Ids, OpenSend(e, j) PROVE Goal
  <2>1. /\ live' = live \/ live' = Clear(live, e, j)
        /\ held' = held \/ held' = Set(held, e, j)
        /\ opening' = Clear(opening, e, j) /\ j \in opening[e]
    BY <1>2 DEF OpenSend
  <2> QED BY <2>1 DEF Set, Clear, TypeOK, StrType, AppType
<1>3. ASSUME NEW e \in Ends, Accept(e) PROVE Goal
  <2>1. acc[e] # <<>> => Head(acc[e]) \notin Own(e)
    BY DEF HandOwner, TypeOK, LoopType
  <2>2. /\ UNCHANGED <<opening, live>>
        /\ held' = held \/ (acc[e] # <<>> /\ held' = Set(held, e, Head(acc[e])))
    BY <1>3 DEF Accept, strVars
  <2>3. CASE held' = held
    BY <2>2, <2>3
  <2>4. CASE acc[e] # <<>> /\ held' = Set(held, e, Head(acc[e]))
    <3>1. d # e \/ i # Head(acc[e])
      BY <2>1, <2>4
    <3>2. i \in held'[d] => i \in held[d]
      BY <2>4, <3>1 DEF Set, TypeOK, AppType
    <3> QED BY <2>2, <3>2
  <2> QED BY <2>2, <2>3, <2>4
<1>4. ASSUME NEW e \in Ends, RlRegister(e) PROVE Goal
  <2>1. rl[e].id \notin Own(e)
    BY <1>4 DEF RlRegister, HandOwner
  <2>2. (live' = live \/ live' = Set(live, e, rl[e].id)) /\ UNCHANGED <<held, opening>>
    BY <1>4 DEF RlRegister, strVars, appVars
  <2>3. CASE live' = live
    BY <2>2, <2>3
  <2>4. CASE live' = Set(live, e, rl[e].id)
    <3>1. d # e \/ i # rl[e].id
      BY <2>1
    <3>2. i \in live'[d] => i \in live[d]
      BY <2>4, <3>1 DEF Set, TypeOK, StrType
    <3> QED BY <2>2, <3>2
  <2> QED BY <2>2, <2>3, <2>4
<1>5. ASSUME NEW e \in Ends, NEW j, live' = live \/ live' = Clear(live, e, j),
             UNCHANGED <<held, opening>>
      PROVE  Goal
  BY <1>5 DEF Clear, TypeOK, StrType
<1>6. ASSUME NEW e \in Ends, Receive(e) PROVE Goal
  <2>1. live' = live \/ live' = Clear(live, e, Head(link[e]).id)
    BY <1>6 DEF Receive, RecvSYN, RecvDATA, RecvFIN, RecvRST, RecvWIN, RecvGOAWAY,
       strVars
  <2> QED BY <1>5, <1>6, <2>1 DEF Receive, appVars
<1>7. ASSUME NEW e \in Ends, RlOffer(e) \/ RlRetire(e) PROVE Goal
  BY <1>5, <1>7 DEF RlOffer, RlRetire, Unregistered, appVars
<1>8. ASSUME NEW e \in Ends, NEW j \in Ids, StreamCloseRetire(e, j) PROVE Goal
  BY <1>5, <1>8 DEF StreamCloseRetire
<1>9. ASSUME NEW e \in Ends, TearSweep(e) PROVE Goal
  BY <1>9 DEF TearSweep, appVars, TypeOK, StrType
<1>10. ASSUME UNCHANGED <<live, held, opening>> PROVE Goal
  BY <1>10
<1> HIDE DEF Goal
<1> QED
  BY <1>1, <1>2, <1>3, <1>4, <1>6, <1>7, <1>8, <1>9, <1>10
  DEF Next, ReadLoop, TearDown, Reading, Write, Close, vars, strVars, appVars,
      LinkDrop, SessionEnds, SessionClose, KeepAliveCloses, TearGoaway, TearMark, TearConn, ReceiveFails,
      RlReset, RlAbort, ReadData, ReadCredit, ReadEnd, WriteTake, WriteSend,
      WriteError, StreamClose, StreamCloseSend

\* How an own stream leaves the table: its users have been woken, are about to
\* be, or its Open is returning an error.
LEMMA OwnLeaves ==
  ASSUME TypeOK, HandOwner, FreshIds, RetireInv, [Next]_vars, NEW d \in Ends,
         NEW i \in Own(d), i \in live[d]
  PROVE  \/ i \in live'[d]
         \/ rl'[d] = [pc |-> "reset", id |-> i]
         \/ i \in sclosed'[d]
         \/ i \in finSent[d] \cap finRecv[d]
         \/ i \notin held'[d] \cup opening'[d]
<1> DEFINE Goal == \/ i \in live'[d]
                   \/ rl'[d] = [pc |-> "reset", id |-> i]
                   \/ i \in sclosed'[d]
                   \/ i \in finSent[d] \cap finRecv[d]
                   \/ i \notin held'[d] \cup opening'[d]
<1> SUFFICES Goal
  OBVIOUS
<1>1. ASSUME NEW e \in Ends, NEW j, live' = Set(live, e, j) \/ UNCHANGED live PROVE Goal
  BY <1>1 DEF Set, TypeOK, StrType
<1>2. ASSUME NEW e \in Ends, NEW j, live' = Clear(live, e, j), d # e \/ i # j PROVE Goal
  BY <1>2 DEF Clear, TypeOK, StrType
<1>3. ASSUME NEW e \in Ends, NEW j \in Ids, OpenSend(e, j) PROVE Goal
  <2>1. CASE UNCHANGED live
    BY <1>1, <2>1
  <2>2. CASE live' = Clear(live, e, j) /\ UNCHANGED held
    <3>1. CASE d = e /\ i = j
      <4>1. opening' = Clear(opening, d, i) /\ i \in opening[d]
        BY <1>3, <3>1 DEF OpenSend
      <4>2. i \notin held'[d]
        BY <2>2, <4>1 DEF FreshIds
      <4> QED BY <4>1, <4>2 DEF Clear, TypeOK, AppType
    <3> QED BY <1>2, <2>2, <3>1
  <2> QED BY <1>3, <2>1, <2>2 DEF OpenSend
<1>4. ASSUME NEW e \in Ends, NEW j \in Ids, StreamCloseRetire(e, j) PROVE Goal
  <2>1. cl[e][j] = "retire" /\ live' = Clear(live, e, j)
    BY <1>4 DEF StreamCloseRetire
  <2>2. d = e /\ i = j => i \in finSent[d] \cap finRecv[d]
    BY <2>1 DEF RetireInv
  <2> QED BY <1>2, <2>1, <2>2
<1>5. ASSUME NEW e \in Ends, TearSweep(e) PROVE Goal
  <2>1. live' = [live EXCEPT ![e] = {}] /\ sclosed' = [sclosed EXCEPT ![e] = @ \cup live[e]]
    BY <1>5 DEF TearSweep
  <2> QED BY <2>1 DEF TypeOK, StrType
<1>6. ASSUME NEW e \in Ends, Receive(e) PROVE Goal
  <2> DEFINE j == Head(link[e]).id
  <2>1. \/ UNCHANGED live
        \/ live' = Clear(live, e, j) /\ (j \in live[e] => RlTo(e, "reset", j))
    BY <1>6 DEF Receive, RecvSYN, RecvDATA, RecvFIN, RecvRST, RecvWIN, RecvGOAWAY,
       strVars
  <2>2. CASE live' = Clear(live, e, j) /\ (j \in live[e] => RlTo(e, "reset", j))
    <3>1. d = e /\ i = j => rl'[d] = [pc |-> "reset", id |-> i]
      BY <2>2 DEF RlTo, TypeOK, LoopType
    <3> QED BY <1>2, <2>2, <3>1
  <2>3. CASE UNCHANGED live
    BY <2>3
  <2> QED BY <2>1, <2>2, <2>3
<1>7. ASSUME NEW e \in Ends, RlOffer(e) PROVE Goal
  <2>1. rl[e].id \notin Own(e)
    BY <1>7 DEF RlOffer, HandOwner
  <2>2. UNCHANGED live \/ live' = Clear(live, e, rl[e].id)
    BY <1>7 DEF RlOffer, Unregistered
  <2>3. CASE UNCHANGED live
    BY <2>3
  <2> QED BY <1>2, <2>1, <2>2, <2>3
<1>8. ASSUME NEW e \in Ends, RlRetire(e) PROVE Goal
  <2>1. rl[e].pc = "retire" /\ live' = Clear(live, e, rl[e].id)
    BY <1>8 DEF RlRetire
  <2>2. d = e /\ i = rl[e].id => i \in finSent[d] \cap finRecv[d]
    BY <2>1 DEF RetireInv
  <2> QED BY <1>2, <2>1, <2>2
<1>9. ASSUME NEW e \in Ends, OpenRegister(e) PROVE Goal
  BY <1>1, <1>9 DEF OpenRegister
<1>10. ASSUME NEW e \in Ends, RlRegister(e) PROVE Goal
  BY <1>1, <1>10 DEF RlRegister, strVars
<1>11. ASSUME UNCHANGED live PROVE Goal
  BY <1>11
<1> HIDE DEF Goal
<1> QED
  BY <1>3, <1>4, <1>5, <1>6, <1>7, <1>8, <1>9, <1>10, <1>11, LiveChanges

\* remoteReset follows the removal of the stream.
LEMMA ResetFollows ==
  ASSUME TypeOK, [Next]_vars, NEW d \in Ends, rl[d].pc = "reset"
  PROVE  rl'[d] = rl[d] \/ rl[d].id \in reset'[d]
<1> DEFINE Goal == rl'[d] = rl[d] \/ rl[d].id \in reset'[d]
<1> SUFFICES Goal
  OBVIOUS
<1>1. ASSUME NEW e \in Ends, NEW pc, NEW i, RlTo(e, pc, i), e # d PROVE Goal
  BY <1>1 DEF RlTo, TypeOK, LoopType
<1>2. ASSUME UNCHANGED rl PROVE Goal
  BY <1>2
<1>3. ASSUME NEW e \in Ends, RlReset(e) PROVE Goal
  <2>1. reset' = Set(reset, e, rl[e].id)
    BY <1>3 DEF RlReset
  <2>2. CASE e = d
    BY <2>1, <2>2 DEF Set, TypeOK, StrType
  <2>3. RlTo(e, "rst", rl[e].id) \/ RlTo(e, "read", 0)
    BY <1>3 DEF RlReset
  <2> QED BY <1>1, <2>2, <2>3
<1>4. ASSUME NEW e \in Ends, Receive(e) PROVE Goal
  <2> DEFINE j == Head(link[e]).id
  <2>1. e # d
    BY <1>4 DEF Receive
  <2>2. \/ UNCHANGED rl \/ RlTo(e, "exit", 0) \/ RlTo(e, "rst", j)
        \/ RlTo(e, "register", j) \/ RlTo(e, "reset", j) \/ RlTo(e, "retire", j)
    BY <1>4 DEF Receive, RecvSYN, RecvDATA, RecvFIN, RecvRST, RecvWIN, RecvGOAWAY
  <2> QED BY <1>1, <1>2, <2>1, <2>2
<1>5. ASSUME NEW e \in Ends,
             ReceiveFails(e) \/ RlRegister(e) \/ RlOffer(e) \/ RlRetire(e) \/ RlAbort(e)
      PROVE  Goal
  <2>1. /\ e # d
        /\ \/ RlTo(e, "exit", 0) \/ RlTo(e, "rst", rl[e].id) \/ RlTo(e, "read", 0)
           \/ RlTo(e, "offer", rl[e].id) \/ RlTo(e, "refuse", rl[e].id)
    BY <1>5 DEF ReceiveFails, RlRegister, RlOffer, RlRetire, RlAbort
  <2> QED BY <1>1, <2>1
<1> HIDE DEF Goal
<1> QED
  BY <1>2, <1>3, <1>4, <1>5, RlChanges DEF ReadLoop

LEMMA TrackedStep ==
  ASSUME TypeOK, WakeInv, [Next]_vars, NEW d \in Ends,
         NEW i \in Own(d) \cap (held'[d] \cup opening'[d])
  PROVE  Tracked(d, i)'
<1> USE DEF WakeInv
<1>1. CASE OpenRegister(d) /\ i = nextID[d]
  BY <1>1 DEF OpenRegister, Set, Tracked, TypeOK, StrType
<1>2. CASE i \in held[d] \cup opening[d]
  <2>1. Tracked(d, i)
    BY <1>2
  <2>2. i < nextID[d]
    BY <1>2 DEF FreshIds
  <2>3. CASE i \in Ended(d)
    BY <2>2, <2>3, EndedStays DEF Tracked
  <2>4. CASE rl[d] = [pc |-> "reset", id |-> i]
    BY <2>4, ResetFollows DEF Tracked, Ended
  <2>5. CASE i \in live[d]
    <3>1. i \in finSent[d] \cap finRecv[d] => i \in finSent'[d] \cap finRecv'[d]
      BY <2>2, EndedStays
    <3> QED BY <2>5, <3>1, OwnLeaves DEF Tracked, Ended
  <2> QED BY <2>1, <2>3, <2>4, <2>5 DEF Tracked
<1> QED BY <1>1, <1>2, OwnEnters

\* Each part of the invariant is preserved.
LEMMA WakeStep == TypeOK /\ WakeInv /\ [Next]_vars => WakeInv'
<1> SUFFICES ASSUME TypeOK, WakeInv, [Next]_vars PROVE WakeInv'
  OBVIOUS
<1>1. SynOwner' /\ HandOwner' /\ FreshIds' /\ RetireInv'
  BY SynOwnerStep, HandOwnerStep, FreshIdsStep, RetireStep DEF WakeInv
<1>2. ASSUME NEW d \in Ends, phase'[d] \in {"conn", "sweep", "closed"}
      PROVE  d \in closed'
  BY <1>2, PhaseProgress DEF WakeInv
<1>3. ASSUME NEW d \in Ends, phase'[d] = "closed" PROVE live'[d] \cap Own(d) = {}
  <2>1. CASE TearSweep(d)
    BY <2>1 DEF TearSweep, TypeOK, StrType
  <2>2. CASE phase[d] = "closed"
    <3>1. live[d] \cap Own(d) = {} /\ ~OpenRegister(d)
      BY <2>2 DEF WakeInv, OpenRegister
    <3> QED BY <3>1, OwnEnters DEF WakeInv
  <2> QED BY <1>3, <2>1, <2>2, PhaseProgress
<1>4. ASSUME NEW d \in Ends, NEW i \in Own(d) \cap (held'[d] \cup opening'[d])
      PROVE  Tracked(d, i)'
  BY <1>4, TrackedStep
<1> QED BY <1>1, <1>2, <1>3, <1>4 DEF WakeInv

\* After closeWithError nobody waits on a stream that Open has returned,
\* whatever Open, Close, RST and FIN were doing when the table was swept
\* (session.go closeWithError, Open, resetStream; stream.go).
THEOREM OpenedWoken == Spec => []OpenedIsWoken
<1>1. WakeInv => OpenedIsWoken
  BY DEF WakeInv, OpenedIsWoken, Tracked
<1> QED BY <1>1, InitType, TypeStep, InitWake, WakeStep, PTL DEF Spec
-----------------------------------------------------------------------------
(* Every entry is in somebody's hands.                                     *)

Occurs(s, i) == \E k \in 1 .. Len(s) : s[k] = i
Queued(e, i) == Occurs(acc[e], i)

LEMMA AppendOccurs ==
  ASSUME NEW S, NEW s \in Seq(S), NEW j \in S, NEW i
  PROVE  Occurs(Append(s, j), i) <=> Occurs(s, i) \/ i = j
<1>1. /\ Len(Append(s, j)) = Len(s) + 1 /\ Append(s, j)[Len(s) + 1] = j
      /\ \A k \in 1 .. Len(s) : Append(s, j)[k] = s[k]
      /\ Len(s) \in Nat
  OBVIOUS
<1>2. CASE Occurs(s, i)
  BY <1>1, <1>2 DEF Occurs
<1>3. CASE i = j
  <2>1. Len(s) + 1 \in 1 .. Len(Append(s, j))
    BY <1>1
  <2> QED BY <1>1, <1>3, <2>1 DEF Occurs
<1>4. ASSUME NEW k \in 1 .. Len(Append(s, j)), Append(s, j)[k] = i
      PROVE  Occurs(s, i) \/ i = j
  <2>1. k \in 1 .. Len(s) \/ k = Len(s) + 1
    BY <1>1
  <2> QED BY <1>1, <1>4, <2>1 DEF Occurs
<1> QED BY <1>2, <1>3, <1>4 DEF Occurs

LEMMA TailOccurs ==
  ASSUME NEW S, NEW s \in Seq(S), s # <<>>, NEW i
  PROVE  Occurs(s, i) <=> Occurs(Tail(s), i) \/ i = Head(s)
<1>1. /\ Len(Tail(s)) = Len(s) - 1 /\ Head(s) = s[1]
      /\ Len(s) \in Nat \ {0}
  OBVIOUS
<1>2. \A k \in 1 .. Len(Tail(s)) : Tail(s)[k] = s[k + 1] /\ k + 1 \in 1 .. Len(s)
  BY <1>1
<1>3. CASE i = Head(s)
  <2>1. 1 \in 1 .. Len(s)
    BY <1>1
  <2> QED BY <1>1, <1>3, <2>1 DEF Occurs
<1>4. CASE Occurs(Tail(s), i)
  BY <1>2, <1>4 DEF Occurs
<1>5. ASSUME NEW k \in 1 .. Len(s), s[k] = i PROVE Occurs(Tail(s), i) \/ i = Head(s)
  <2>1. CASE k = 1
    BY <1>1, <1>5, <2>1
  <2>2. CASE k # 1
    <3>1. k - 1 \in 1 .. Len(Tail(s)) /\ k - 1 + 1 = k
      BY <1>1, <2>2
    <3> QED BY <1>2, <1>5, <3>1 DEF Occurs
  <2> QED BY <2>1, <2>2
<1> QED BY <1>3, <1>4, <1>5 DEF Occurs

Reachable(e, i) ==
    i \in held[e] \cup opening[e] \/ Queued(e, i) \/ rl[e] = [pc |-> "offer", id |-> i]

\* How a stream enters the table.
LEMMA TableEnters ==
  ASSUME TypeOK, [Next]_vars, NEW d \in Ends, NEW i \in live'[d], i \notin live[d]
  PROVE  /\ NewStream(d, i)
         /\ \/ i \in opening'[d] /\ OpenRegister(d) /\ i = nextID[d]
            \/ rl'[d] = [pc |-> "offer", id |-> i] /\ RlRegister(d) /\ i = rl[d].id
<1> DEFINE Goal == /\ NewStream(d, i)
                   /\ \/ i \in opening'[d] /\ OpenRegister(d) /\ i = nextID[d]
                      \/ rl'[d] = [pc |-> "offer", id |-> i] /\ RlRegister(d) /\ i = rl[d].id
<1> SUFFICES Goal
  OBVIOUS
<1>1. ASSUME NEW e \in Ends, OpenRegister(e) PROVE Goal
  <2>1. /\ live' = Set(live, e, nextID[e]) /\ opening' = Set(opening, e, nextID[e])
        /\ NewStream(e, nextID[e])
    BY <1>1 DEF OpenRegister
  <2>2. e = d /\ i = nextID[d]
    BY <2>1 DEF Set, TypeOK, StrType
  <2> QED BY <1>1, <2>1, <2>2 DEF Set, TypeOK, StrType, AppType
<1>2. ASSUME NEW e \in Ends, RlRegister(e) PROVE Goal
  <2>1. CASE live' = live
    BY <2>1
  <2>2. CASE /\ live' = Set(live, e, rl[e].id) /\ NewStream(e, rl[e].id)
             /\ RlTo(e, "offer", rl[e].id)
    <3>1. e = d /\ i = rl[d].id
      BY <2>2 DEF Set, TypeOK, StrType
    <3> QED BY <1>2, <2>2, <3>1 DEF RlTo, TypeOK, LoopType
  <2> QED BY <1>2, <2>1, <2>2 DEF RlRegister, strVars
<1>3. ASSUME NEW e \in Ends, NEW j, live' = live \/ live' = Clear(live, e, j) PROVE Goal
  BY <1>3 DEF Clear, TypeOK, StrType
<1>4. ASSUME NEW e \in Ends, Receive(e) PROVE Goal
  <2>1. live' = live \/ live' = Clear(live, e, Head(link[e]).id)
    BY <1>4 DEF Receive, RecvSYN, RecvDATA, RecvFIN, RecvRST, RecvWIN, RecvGOAWAY,
       strVars
  <2> QED BY <1>3, <2>1
<1>5. ASSUME NEW e \in Ends, RlOffer(e) \/ RlRetire(e) PROVE Goal
  BY <1>3, <1>5 DEF RlOffer, RlRetire, Unregistered
<1>6. ASSUME NEW e \in Ends, NEW j \in Ids, OpenSend(e, j) \/ StreamCloseRetire(e, j)
      PROVE  Goal
  BY <1>3, <1>6 DEF OpenSend, StreamCloseRetire
<1>7. ASSUME NEW e \in Ends, TearSweep(e) PROVE Goal
  BY <1>7 DEF TearSweep, TypeOK, StrType
<1>8. ~UNCHANGED live
  OBVIOUS
<1> HIDE DEF Goal
<1> QED
  BY <1>1, <1>2, <1>4, <1>5, <1>6, <1>7, <1>8, LiveChanges

\* The readLoop leaves a stream it offers to the queue, or takes it out of the
\* table.
LEMMA OfferEnds ==
  ASSUME TypeOK, [Next]_vars, NEW d \in Ends, rl[d].pc = "offer", rl'[d] # rl[d]
  PROVE  RlOffer(d)
<1> DEFINE Goal == RlOffer(d)
<1> SUFFICES Goal
  OBVIOUS
<1>1. ASSUME NEW e \in Ends, NEW pc, NEW i, RlTo(e, pc, i), e # d PROVE Goal
  BY <1>1 DEF RlTo, TypeOK, LoopType
<1>2. ~UNCHANGED rl
  OBVIOUS
<1>3. ASSUME NEW e \in Ends, Receive(e) PROVE Goal
  <2> DEFINE j == Head(link[e]).id
  <2>1. e # d
    BY <1>3 DEF Receive
  <2>2. \/ UNCHANGED rl \/ RlTo(e, "exit", 0) \/ RlTo(e, "rst", j)
        \/ RlTo(e, "register", j) \/ RlTo(e, "reset", j) \/ RlTo(e, "retire", j)
    BY <1>3 DEF Receive, RecvSYN, RecvDATA, RecvFIN, RecvRST, RecvWIN, RecvGOAWAY
  <2> QED BY <1>1, <1>2, <2>1, <2>2
<1>4. ASSUME NEW e \in Ends,
             ReceiveFails(e) \/ RlRegister(e) \/ RlReset(e) \/ RlRetire(e) \/ RlAbort(e)
      PROVE  Goal
  <2>1. /\ e # d
        /\ \/ RlTo(e, "exit", 0) \/ RlTo(e, "rst", rl[e].id) \/ RlTo(e, "read", 0)
           \/ RlTo(e, "offer", rl[e].id)
    BY <1>4 DEF ReceiveFails, RlRegister, RlReset, RlRetire, RlAbort
  <2> QED BY <1>1, <2>1
<1>5. ASSUME NEW e \in Ends, RlOffer(e) PROVE Goal
  <2>1. RlTo(e, "read", 0) \/ RlTo(e, "refuse", rl[e].id)
    BY <1>5 DEF RlOffer
  <2> QED BY <1>1, <1>5, <2>1
<1> HIDE DEF Goal
<1> QED
  BY <1>2, <1>3, <1>4, <1>5, RlChanges DEF ReadLoop

\* The readLoop's end of a stream it offered.
LEMMA Offered ==
  ASSUME TypeOK, NEW d \in Ends, RlOffer(d)
  PROVE  \/ \A i : Queued(d, i)' <=> Queued(d, i) \/ i = rl[d].id
         \/ UNCHANGED acc /\ rl[d].id \notin live'[d]
<1>1. acc[d] \in Seq(Ids) /\ rl[d].id \in Ids
  BY DEF TypeOK, LoopType, RlOffer
<1>2. CASE acc' = [acc EXCEPT ![d] = Append(@, rl[d].id)]
  <2>1. acc'[d] = Append(acc[d], rl[d].id)
    BY <1>2 DEF TypeOK, LoopType
  <2>2. \A i : Queued(d, i)' <=> Queued(d, i) \/ i = rl[d].id
    BY <1>1, <2>1, AppendOccurs DEF Queued
  <2> QED BY <1>2, <2>2
<1>3. CASE UNCHANGED acc /\ live' = Unregistered(d, rl[d].id)
  BY <1>3 DEF Unregistered, Clear, TypeOK, StrType
<1> QED BY <1>2, <1>3 DEF RlOffer

\* Accept takes the first of the queue.
LEMMA Accepted ==
  ASSUME TypeOK, NEW d \in Ends, Accept(d)
  PROVE  \/ /\ acc[d] # <<>> /\ held' = Set(held, d, Head(acc[d]))
            /\ Queued(d, Head(acc[d]))
            /\ \A i : Queued(d, i) => Queued(d, i)' \/ i = Head(acc[d])
            /\ \A i : Queued(d, i)' => Queued(d, i)
         \/ UNCHANGED <<held, acc>>
<1>1. acc[d] \in Seq(Ids)
  BY DEF TypeOK, LoopType
<1>2. CASE acc[d] # <<>> /\ acc' = [acc EXCEPT ![d] = Tail(@)] /\ held' = Set(held, d, Head(acc[d]))
  <2>1. acc'[d] = Tail(acc[d])
    BY <1>2 DEF TypeOK, LoopType
  <2> QED BY <1>1, <1>2, <2>1, TailOccurs DEF Queued
<1> QED BY <1>2 DEF Accept

\* The queue changes only there.
LEMMA QueueChanges ==
  ASSUME TypeOK, [Next]_vars, NEW d \in Ends
  PROVE  acc'[d] = acc[d] \/ RlOffer(d) \/ Accept(d)
<1> DEFINE Goal == acc'[d] = acc[d] \/ RlOffer(d) \/ Accept(d)
<1> SUFFICES Goal
  OBVIOUS
<1>1. ASSUME NEW e \in Ends, RlOffer(e) \/ Accept(e) PROVE Goal
  <2>1. CASE e = d
    BY <1>1, <2>1
  <2>2. UNCHANGED acc \/ \E v : acc' = [acc EXCEPT ![e] = v]
    BY <1>1 DEF RlOffer, Accept
  <2> QED BY <2>1, <2>2 DEF TypeOK, LoopType
<1>2. ASSUME UNCHANGED acc PROVE Goal
  BY <1>2
<1>3. ASSUME NEW e \in Ends, ReadLoop(e) \/ TearDown(e) PROVE Goal
  BY <1>1, <1>2, <1>3, TearFootprint
  DEF TearKeeps, loopVars, ReadLoop, Receive, ReceiveFails, RlRegister, RlReset, RlRetire,
      RlAbort
<1>4. ASSUME NEW e \in Ends, NEW i \in Ids, Reading(e, i) \/ Write(e, i) \/ Close(e, i)
      PROVE  Goal
  BY <1>2, <1>4, StreamFootprint DEF ReadKeeps, WriteKeeps, CloseKeeps, loopVars
<1> HIDE DEF Goal
<1> QED
  BY <1>1, <1>2, <1>3, <1>4
  DEF Next, vars, loopVars, LinkDrop, OpenRegister, OpenSend, SessionEnds, SessionClose, KeepAliveCloses

\* Open hands its stream on, or takes it out of the table.
LEMMA OpeningEnds ==
  ASSUME TypeOK, [Next]_vars, NEW d \in Ends, NEW i \in opening[d]
  PROVE  i \in opening'[d] \cup held'[d] \/ i \notin live'[d]
<1> DEFINE Goal == i \in opening'[d] \cup held'[d] \/ i \notin live'[d]
<1> SUFFICES Goal
  OBVIOUS
<1>1. ASSUME NEW e \in Ends, NEW j \in Ids, OpenSend(e, j) PROVE Goal
  <2>1. /\ opening' = Clear(opening, e, j)
        /\ held' = Set(held, e, j) \/ live' = Clear(live, e, j)
    BY <1>1 DEF OpenSend
  <2> QED BY <2>1 DEF Set, Clear, TypeOK, AppType, StrType
<1>2. ASSUME NEW e \in Ends, OpenRegister(e) PROVE Goal
  BY <1>2 DEF OpenRegister, Set, TypeOK, AppType
<1>3. ASSUME UNCHANGED opening PROVE Goal
  BY <1>3
<1>4. ASSUME NEW e \in Ends, ReadLoop(e) \/ TearDown(e) PROVE Goal
  BY <1>3, <1>4, LoopFootprint, TearFootprint DEF LoopKeeps, TearKeeps, appVars
<1>5. ASSUME NEW e \in Ends, NEW j \in Ids, Reading(e, j) \/ Write(e, j) \/ Close(e, j)
      PROVE  Goal
  BY <1>3, <1>5, StreamFootprint DEF ReadKeeps, WriteKeeps, CloseKeeps
<1>6. ASSUME NEW e \in Ends, Accept(e) \/ SessionEnds(e) PROVE Goal
  BY <1>3, <1>6 DEF Accept, SessionEnds, SessionClose, KeepAliveCloses, appVars
<1>7. CASE LinkDrop \/ UNCHANGED vars
  BY <1>3, <1>7 DEF LinkDrop, vars, appVars
<1> HIDE DEF Goal
<1> QED
  BY <1>1, <1>2, <1>4, <1>5, <1>6, <1>7 DEF Next

LEMMA ReachStep ==
  ASSUME TypeOK, RegisteredIsReachable, [Next]_vars, NEW d \in Ends, NEW i \in live'[d]
  PROVE  Reachable(d, i)'
<1>1. CASE i \notin live[d]
  BY <1>1, TableEnters DEF Reachable
<1>2. CASE i \in held[d]
  BY <1>2, HeldGrows DEF Reachable
<1>3. CASE i \in opening[d]
  BY <1>3, OpeningEnds DEF Reachable
<1>4. CASE Queued(d, i)
  <2>1. CASE acc'[d] = acc[d]
    BY <1>4, <2>1 DEF Reachable, Queued
  <2>2. CASE RlOffer(d)
    BY <1>4, <2>2, Offered DEF Reachable, Queued
  <2>3. CASE Accept(d)
    <3>1. CASE UNCHANGED <<held, acc>>
      BY <1>4, <3>1 DEF Reachable, Queued
    <3>2. CASE held' = Set(held, d, Head(acc[d])) /\ i = Head(acc[d])
      <4>1. i \in held'[d]
        BY <3>2 DEF Set, TypeOK, AppType
      <4> QED BY <4>1 DEF Reachable
    <3>3. CASE Queued(d, i)'
      BY <3>3 DEF Reachable
    <3> QED BY <1>4, <2>3, <3>1, <3>2, <3>3, Accepted
  <2> QED BY <2>1, <2>2, <2>3, QueueChanges
<1>5. CASE rl[d] = [pc |-> "offer", id |-> i]
  <2>1. rl'[d] = rl[d] \/ RlOffer(d)
    BY <1>5, OfferEnds
  <2> QED BY <1>5, <2>1, Offered DEF Reachable
<1>6. i \in live[d] => Reachable(d, i)
  BY DEF RegisteredIsReachable, Reachable, Queued, Occurs
<1> QED BY <1>1, <1>2, <1>3, <1>4, <1>5, <1>6 DEF Reachable

\* Every registered stream is in somebody's hands; in particular a refused SYN
\* leaves no entry behind (session.go Open, Accept, handleSYN).
THEOREM EntriesAreReachable == Spec => []RegisteredIsReachable
<1>1. Init => RegisteredIsReachable
  BY DEF Init, RegisteredIsReachable, PerEnd
<1>2. TypeOK /\ RegisteredIsReachable /\ [Next]_vars => RegisteredIsReachable'
  BY ReachStep DEF RegisteredIsReachable, Reachable, Queued, Occurs
<1> QED BY <1>1, <1>2, TypeCorrect, PTL DEF Spec
-----------------------------------------------------------------------------
(* A stream closed both ways leaves the table.                             *)

Retiring(e, i) == cl[e][i] = "retire" \/ rl[e] = [pc |-> "retire", id |-> i]

\* Whoever is to retire a stream goes on until it has.
LEMMA CloseRetires ==
  ASSUME TypeOK, [Next]_vars, NEW d \in Ends, NEW i \in Ids, cl[d][i] = "retire"
  PROVE  cl'[d][i] = "retire" \/ i \notin live'[d]
<1> DEFINE Goal == cl'[d][i] = "retire" \/ i \notin live'[d]
<1> SUFFICES Goal
  OBVIOUS
<1>1. ASSUME NEW e \in Ends, NEW j \in Ids, StreamCloseRetire(e, j) PROVE Goal
  <2>1. live' = Clear(live, e, j) /\ cl' = [cl EXCEPT ![e][j] = "fin"]
    BY <1>1 DEF StreamCloseRetire
  <2>2. CASE e = d /\ j = i
    BY <2>1, <2>2 DEF Clear, TypeOK, StrType
  <2>3. CASE e # d \/ j # i
    BY <2>1, <2>3 DEF TypeOK, AppType
  <2> QED BY <2>2, <2>3
<1>2. ASSUME NEW e \in Ends, NEW j \in Ids, NEW v, cl' = [cl EXCEPT ![e][j] = v],
             cl[e][j] # "retire"
      PROVE  Goal
  BY <1>2 DEF TypeOK, AppType
<1>3. ASSUME NEW e \in Ends, NEW j \in Ids, StreamClose(e, j) \/ StreamCloseSend(e, j)
      PROVE  Goal
  <2>1. cl[e][j] # "retire" /\ \E v : cl' = [cl EXCEPT ![e][j] = v]
    BY <1>3 DEF StreamClose, StreamCloseSend
  <2> QED BY <1>2, <2>1
<1>4. ASSUME UNCHANGED cl PROVE Goal
  BY <1>4
<1>5. ASSUME NEW e \in Ends, ReadLoop(e) \/ TearDown(e) PROVE Goal
  BY <1>4, <1>5, LoopFootprint, TearFootprint DEF LoopKeeps, TearKeeps, appVars
<1>6. ASSUME NEW e \in Ends, NEW j \in Ids, Reading(e, j) \/ Write(e, j) \/ Close(e, j)
      PROVE  Goal
  BY <1>1, <1>3, <1>4, <1>6, StreamFootprint DEF ReadKeeps, WriteKeeps, Close
<1>7. ASSUME NEW e \in Ends, Accept(e) \/ SessionEnds(e) \/ OpenRegister(e) PROVE Goal
  BY <1>4, <1>7 DEF Accept, SessionEnds, SessionClose, KeepAliveCloses, OpenRegister, appVars
<1>8. ASSUME NEW e \in Ends, NEW j \in Ids, OpenSend(e, j) PROVE Goal
  BY <1>4, <1>8 DEF OpenSend
<1>9. CASE LinkDrop \/ UNCHANGED vars
  BY <1>4, <1>9 DEF LinkDrop, vars, appVars
<1> HIDE DEF Goal
<1> QED
  BY <1>5, <1>6, <1>7, <1>8, <1>9 DEF Next

LEMMA LoopRetires ==
  ASSUME TypeOK, [Next]_vars, NEW d \in Ends, rl[d].pc = "retire"
  PROVE  rl'[d] = rl[d] \/ rl[d].id \notin live'[d]
<1> DEFINE Goal == rl'[d] = rl[d] \/ rl[d].id \notin live'[d]
<1> SUFFICES Goal
  OBVIOUS
<1>1. ASSUME NEW e \in Ends, NEW pc, NEW i, RlTo(e, pc, i), e # d PROVE Goal
  BY <1>1 DEF RlTo, TypeOK, LoopType
<1>2. ASSUME UNCHANGED rl PROVE Goal
  BY <1>2
<1>3. ASSUME NEW e \in Ends, RlRetire(e) PROVE Goal
  <2>1. live' = Clear(live, e, rl[e].id) /\ RlTo(e, "read", 0)
    BY <1>3 DEF RlRetire
  <2>2. CASE e = d
    BY <2>1, <2>2 DEF Clear, TypeOK, StrType
  <2> QED BY <1>1, <2>1, <2>2
<1>4. ASSUME NEW e \in Ends, Receive(e) PROVE Goal
  <2> DEFINE j == Head(link[e]).id
  <2>1. e # d
    BY <1>4 DEF Receive
  <2>2. \/ UNCHANGED rl \/ RlTo(e, "exit", 0) \/ RlTo(e, "rst", j)
        \/ RlTo(e, "register", j) \/ RlTo(e, "reset", j) \/ RlTo(e, "retire", j)
    BY <1>4 DEF Receive, RecvSYN, RecvDATA, RecvFIN, RecvRST, RecvWIN, RecvGOAWAY
  <2> QED BY <1>1, <1>2, <2>1, <2>2
<1>5. ASSUME NEW e \in Ends,
             ReceiveFails(e) \/ RlRegister(e) \/ RlOffer(e) \/ RlReset(e) \/ RlAbort(e)
      PROVE  Goal
  <2>1. /\ e # d
        /\ \/ RlTo(e, "exit", 0) \/ RlTo(e, "rst", rl[e].id) \/ RlTo(e, "read", 0)
           \/ RlTo(e, "offer", rl[e].id) \/ RlTo(e, "refuse", rl[e].id)
    BY <1>5 DEF ReceiveFails, RlRegister, RlOffer, RlReset, RlAbort
  <2> QED BY <1>1, <2>1
<1> HIDE DEF Goal
<1> QED
  BY <1>2, <1>3, <1>4, <1>5, RlChanges DEF ReadLoop

\* Whoever closes the second half sees the first.
LEMMA SecondHalf ==
  ASSUME TypeOK, [Next]_vars, NEW d \in Ends, NEW i \in live[d],
         i \in finSent'[d] \cap finRecv'[d], i \notin finSent[d] \cap finRecv[d]
  PROVE  Retiring(d, i)'
<1> DEFINE Goal == Retiring(d, i)'
<1> SUFFICES Goal
  OBVIOUS
<1>i. i \in Ids
  BY DEF TypeOK, StrType
<1>1. ASSUME NEW e \in Ends, NEW j \in Ids, StreamClose(e, j) PROVE Goal
  <2>1. /\ finSent' = Set(finSent, e, j) /\ UNCHANGED finRecv
        /\ cl' = [cl EXCEPT ![e][j] = IF j \in finRecv[e] THEN "retire" ELSE "fin"]
    BY <1>1 DEF StreamClose, BothClosed
  <2>2. e = d /\ j = i /\ i \in finRecv[d]
    BY <2>1 DEF Set, TypeOK, StrType
  <2> QED BY <1>i, <2>1, <2>2 DEF Retiring, TypeOK, AppType
<1>2. ASSUME NEW e \in Ends, Receive(e) PROVE Goal
  <2> DEFINE j == Head(link[e]).id
  <2>1. \/ UNCHANGED flags
        \/ /\ finRecv' = Set(finRecv, e, j) /\ UNCHANGED finSent
           /\ j \in finSent[e] => RlTo(e, "retire", j)
    BY <1>2 DEF Receive, RecvSYN, RecvDATA, RecvFIN, RecvRST, RecvWIN, RecvGOAWAY,
       strVars, flags, BothClosed
  <2>2. CASE /\ finRecv' = Set(finRecv, e, j) /\ UNCHANGED finSent
             /\ j \in finSent[e] => RlTo(e, "retire", j)
    <3>1. e = d /\ j = i /\ i \in finSent[d]
      BY <2>2 DEF Set, TypeOK, StrType
    <3> QED BY <2>2, <3>1 DEF Retiring, RlTo, TypeOK, LoopType
  <2> QED BY <2>1, <2>2 DEF flags
<1>3. ASSUME NEW e \in Ends, NEW j, NewStream(e, j) PROVE Goal
  BY <1>3 DEF NewStream, Clear, TypeOK, StrType
<1>4. ASSUME NEW e \in Ends, OpenRegister(e) \/ RlRegister(e) PROVE Goal
  BY <1>3, <1>4 DEF OpenRegister, RlRegister, strVars, flags
<1>5. ASSUME UNCHANGED <<finSent, finRecv>> PROVE Goal
  BY <1>5
<1> HIDE DEF Goal
<1>6. ASSUME NEW e \in Ends, ReadLoop(e) PROVE Goal
  BY <1>2, <1>4, <1>5, <1>6
  DEF ReadLoop, strVars, flags, ReceiveFails, RlOffer, RlReset, RlRetire, RlAbort
<1>7. ASSUME NEW e \in Ends, TearDown(e) PROVE Goal
  BY <1>5, <1>7, TearFootprint DEF TearKeeps
<1>8. ASSUME NEW e \in Ends, NEW j \in Ids,
             OpenSend(e, j) \/ Reading(e, j) \/ Write(e, j)
      PROVE  Goal
  <2>1. UNCHANGED <<finSent, finRecv>>
    BY <1>8, StreamFootprint DEF ReadKeeps, WriteKeeps, OpenSend, strVars, flags
  <2> QED BY <1>5, <2>1
<1>9. ASSUME NEW e \in Ends, NEW j \in Ids, Close(e, j) PROVE Goal
  BY <1>1, <1>5, <1>9 DEF Close, strVars, flags, StreamCloseRetire, StreamCloseSend
<1>10. ASSUME NEW e \in Ends, Accept(e) \/ SessionEnds(e) PROVE Goal
  BY <1>5, <1>10 DEF Accept, SessionEnds, SessionClose, KeepAliveCloses, strVars, flags
<1>11. CASE LinkDrop \/ UNCHANGED vars
  BY <1>5, <1>11 DEF LinkDrop, vars, strVars, flags
<1> QED BY <1>4, <1>6, <1>7, <1>8, <1>9, <1>10, <1>11 DEF Next

LEMMA FinishStep ==
  ASSUME TypeOK, FinishedIsRetired, [Next]_vars, NEW d \in Ends, NEW i \in Ids,
         i \in live'[d] \cap finSent'[d] \cap finRecv'[d]
  PROVE  Retiring(d, i)'
<1>1. CASE i \notin live[d]
  <2>1. NewStream(d, i)
    BY <1>1, TableEnters
  <2> QED BY <2>1 DEF NewStream, Clear, TypeOK, StrType
<1>2. CASE i \in live[d] /\ i \notin finSent[d] \cap finRecv[d]
  BY <1>2, SecondHalf
<1>3. CASE i \in live[d] /\ i \in finSent[d] \cap finRecv[d]
  BY <1>3, CloseRetires, LoopRetires DEF FinishedIsRetired, Retiring
<1> QED BY <1>1, <1>2, <1>3

\* A stream whose two halves are closed leaves the table, whichever of Close
\* and remoteClosed sees the other's flag (stream.go Close, remoteClosed;
\* session.go removeStream).
THEOREM FinishedLeave == Spec => []FinishedIsRetired
<1>1. Init => FinishedIsRetired
  BY DEF Init, FinishedIsRetired, PerEnd
<1>2. TypeOK /\ FinishedIsRetired /\ [Next]_vars => FinishedIsRetired'
  BY FinishStep DEF FinishedIsRetired, Retiring
<1> QED BY <1>1, <1>2, TypeCorrect, PTL DEF Spec
-----------------------------------------------------------------------------
(* A SYN is sent and handled once for each id.                             *)

IsSyn(f, i) == f.flag = "SYN" /\ f.id = i
HasSyn(s, i) == \E k \in 1 .. Len(s) : IsSyn(s[k], i)
Once(s) == \A j, k \in 1 .. Len(s) :
    s[j].flag = "SYN" /\ IsSyn(s[k], s[j].id) => j = k

InLoop(e, i) == rl[e].pc \in {"register", "offer"} /\ rl[e].id = i
Known(e, i)  == i \in held[e] \/ Queued(e, i) \/ InLoop(e, i)
Unsent(e, i) == i \in opening[Peer(e)] \/ i >= nextID[Peer(e)]

\* An id the peer allocates is unsent, then on its way, then known to e.
SynOnce ==
    \A e \in Ends :
       /\ Once(link[e])
       /\ \A i \in Own(Peer(e)) :
            /\ HasSyn(link[e], i) => ~Known(e, i)
            /\ Unsent(e, i) => ~HasSyn(link[e], i) /\ ~Known(e, i)
            /\ InLoop(e, i) => i \notin held[e] /\ ~Queued(e, i)

LEMMA OwnCovers == \A e \in Ends, i \in Ids : i \in Own(e) \/ i \in Own(Peer(e))
<1> SUFFICES ASSUME NEW e \in Ends, NEW i \in Ids PROVE i \in Own(e) \/ i \in Own(Peer(e))
  OBVIOUS
<1>1. i \in Nat
  BY IdsFacts
<1>2. CASE e = "ini"
  BY <1>1, <1>2 DEF Own, Peer, FirstID
<1>3. CASE e = "rsp"
  BY <1>1, <1>3 DEF Own, Peer, FirstID
<1> QED BY <1>2, <1>3 DEF Ends

LEMMA AppendSyn ==
  ASSUME NEW s \in Seq(Frames), NEW f \in Frames
  PROVE  /\ \A i : HasSyn(Append(s, f), i) <=> HasSyn(s, i) \/ IsSyn(f, i)
         /\ Once(s) /\ (f.flag = "SYN" => ~HasSyn(s, f.id)) => Once(Append(s, f))
<1> DEFINE t == Append(s, f)
<1>1. /\ Len(t) = Len(s) + 1 /\ t[Len(s) + 1] = f
      /\ \A k \in 1 .. Len(s) : t[k] = s[k]
      /\ Len(s) \in Nat
  OBVIOUS
<1> HIDE DEF t
<1>2. /\ \A k \in 1 .. Len(t) : k \in 1 .. Len(s) \/ k = Len(s) + 1
      /\ \A k \in 1 .. Len(s) : k \in 1 .. Len(t)
      /\ Len(s) + 1 \in 1 .. Len(t)
  BY <1>1
<1>3. \A i : HasSyn(t, i) <=> HasSyn(s, i) \/ IsSyn(f, i)
  BY <1>1, <1>2 DEF HasSyn
<1>4. ASSUME Once(s), f.flag = "SYN" => ~HasSyn(s, f.id) PROVE Once(t)
  <2>1. SUFFICES ASSUME NEW j \in 1 .. Len(t), NEW k \in 1 .. Len(t),
                        t[j].flag = "SYN", IsSyn(t[k], t[j].id)
                 PROVE  j = k
    BY DEF Once
  <2>2. CASE j \in 1 .. Len(s) /\ k \in 1 .. Len(s)
    BY <1>1, <1>4, <2>1, <2>2 DEF Once
  <2>3. CASE j \in 1 .. Len(s) /\ k = Len(s) + 1
    BY <1>1, <1>4, <2>1, <2>3 DEF HasSyn, IsSyn
  <2>4. CASE k \in 1 .. Len(s) /\ j = Len(s) + 1
    BY <1>1, <1>4, <2>1, <2>4 DEF HasSyn, IsSyn
  <2> QED BY <1>2, <2>2, <2>3, <2>4
<1> QED BY <1>3, <1>4 DEF t

LEMMA TailSyn ==
  ASSUME NEW s \in Seq(Frames), s # <<>>
  PROVE  /\ \A i : HasSyn(Tail(s), i) => HasSyn(s, i)
         /\ \A i : IsSyn(Head(s), i) => HasSyn(s, i)
         /\ Once(s) => Once(Tail(s)) /\ \A i : IsSyn(Head(s), i) => ~HasSyn(Tail(s), i)
<1> DEFINE t == Tail(s)
<1>1. /\ Len(t) = Len(s) - 1 /\ Head(s) = s[1]
      /\ \A k \in 1 .. Len(t) : t[k] = s[k + 1]
      /\ Len(s) \in Nat \ {0}
  OBVIOUS
<1> HIDE DEF t
<1>2. /\ \A k \in 1 .. Len(t) : k + 1 \in 1 .. Len(s) /\ k + 1 # 1
      /\ \A j, k \in 1 .. Len(t) : j + 1 = k + 1 => j = k
      /\ 1 \in 1 .. Len(s)
  BY <1>1
<1>3. \A i : HasSyn(t, i) => HasSyn(s, i)
  BY <1>1, <1>2 DEF HasSyn
<1>4. \A i : IsSyn(Head(s), i) => HasSyn(s, i)
  BY <1>1, <1>2 DEF HasSyn
<1>5. Once(s) => Once(t)
  BY <1>1, <1>2 DEF Once
<1>6. ASSUME Once(s), NEW i, IsSyn(Head(s), i), NEW k \in 1 .. Len(t), IsSyn(t[k], i)
      PROVE  FALSE
  <2>1. s[1].flag = "SYN" /\ s[1].id = i /\ IsSyn(s[k + 1], i)
    BY <1>1, <1>6 DEF IsSyn
  <2>2. 1 \in 1 .. Len(s) /\ k + 1 \in 1 .. Len(s) /\ 1 # k + 1
    BY <1>2
  <2> QED BY <1>6, <2>1, <2>2 DEF Once
<1> QED BY <1>3, <1>4, <1>5, <1>6 DEF t, HasSyn

LEMMA PrefixSyn ==
  ASSUME NEW s \in Seq(Frames), NEW m \in 0 .. Len(s)
  PROVE  /\ \A i : HasSyn(SubSeq(s, 1, m), i) => HasSyn(s, i)
         /\ Once(s) => Once(SubSeq(s, 1, m))
<1> DEFINE t == SubSeq(s, 1, m)
<1>1. \A k \in 1 .. Len(t) : k \in 1 .. Len(s) /\ t[k] = s[k]
  OBVIOUS
<1> HIDE DEF t
<1> QED BY <1>1 DEF t, HasSyn, Once

\* What a step does to the frames on their way to d.
LEMMA LinkChanges ==
  ASSUME TypeOK, [Next]_vars, NEW d \in Ends
  PROVE  \/ link'[d] = link[d]
         \/ link[d] # <<>> /\ link'[d] = Tail(link[d])
         \/ \E m \in 0 .. Len(link[d]) : link'[d] = SubSeq(link[d], 1, m)
         \/ \E f \in Frames : f.flag # "SYN" /\ link'[d] = Append(link[d], f)
         \/ \E i \in Ids : \E f \in Frames :
               OpenSend(Peer(d), i) /\ IsSyn(f, i) /\ link'[d] = Append(link[d], f)
<1> DEFINE Sent(f) == link'[d] = link[d] \/ link'[d] = Append(link[d], f)
           Goal == \/ link'[d] = link[d]
                   \/ link[d] # <<>> /\ link'[d] = Tail(link[d])
                   \/ \E m \in 0 .. Len(link[d]) : link'[d] = SubSeq(link[d], 1, m)
                   \/ \E f \in Frames : f.flag # "SYN" /\ link'[d] = Append(link[d], f)
                   \/ \E i \in Ids : \E f \in Frames :
                         /\ OpenSend(Peer(d), i) /\ IsSyn(f, i)
                         /\ link'[d] = Append(link[d], f)
<1> SUFFICES Goal
  OBVIOUS
<1>t. link \in [Ends -> Seq(Frames)]
  BY DEF TypeOK, ConType
<1>1. ASSUME NEW e \in Ends, NEW f \in Frames, SendsOrFails(e, f)
      PROVE  link'[d] = link[d] \/ (d = Peer(e) /\ link'[d] = Append(link[d], f))
  BY <1>1, <1>t, EndsFacts DEF SendsOrFails, Sends, SendFails
<1>2. ASSUME NEW e \in Ends, NEW i \in Ids, OpenSend(e, i) PROVE Goal
  <2>1. CASE SendFails(e)
    BY <2>1 DEF SendFails
  <2>2. ASSUME NEW t \in Targets, Sends(e, Frame("SYN", i, t)) PROVE Goal
    <3>1. Frame("SYN", i, t) \in Frames /\ IsSyn(Frame("SYN", i, t), i)
      BY FrameType, MuxAssumption
      DEF MuxAssumption, StreamFlags, GoodTarget, BadTarget, Frame, IsSyn
    <3>2. \/ link'[d] = link[d]
          \/ d = Peer(e) /\ link'[d] = Append(link[d], Frame("SYN", i, t))
      BY <1>1, <2>2, <3>1 DEF SendsOrFails
    <3>3. d = Peer(e) => e = Peer(d)
      BY EndsFacts
    <3> QED BY <1>2, <3>1, <3>2, <3>3
  <2> QED BY <1>2, <2>1, <2>2 DEF OpenSend
<1>3. ASSUME NEW e \in Ends, NEW f \in Frames, f.flag # "SYN", SendsOrFails(e, f)
      PROVE  Goal
  BY <1>1, <1>3
<1>4. ASSUME NEW e \in Ends, NEW i \in Ids, ReadCredit(e, i) PROVE Goal
  <2>1. Frame("WIN", i, Credit(e, i)) \in Frames /\ Frame("WIN", i, Credit(e, i)).flag # "SYN"
    BY FrameType DEF TypeOK, AppType, Credit, StreamFlags, Frame
  <2> QED BY <1>3, <1>4, <2>1 DEF ReadCredit
<1>5. ASSUME NEW e \in Ends, NEW i \in Ids, WriteSend(e, i) PROVE Goal
  <2>1. Frame("DATA", i, wr[e][i]) \in Frames /\ Frame("DATA", i, wr[e][i]).flag # "SYN"
    BY FrameType DEF TypeOK, AppType, StreamFlags, Frame
  <2>2. SendsOrFails(e, Frame("DATA", i, wr[e][i]))
    BY <1>5 DEF WriteSend, SendsOrFails
  <2> QED BY <1>3, <2>1, <2>2
<1>6. ASSUME NEW e \in Ends, NEW i \in Ids, StreamCloseSend(e, i) PROVE Goal
  <2>1. Frame("FIN", i, 0) \in Frames /\ Frame("FIN", i, 0).flag # "SYN"
    BY FrameType DEF StreamFlags, Frame
  <2> QED BY <1>3, <1>6, <2>1 DEF StreamCloseSend
<1>7. ASSUME NEW e \in Ends, TearGoaway(e) PROVE Goal
  <2>1. Frame("GOAWAY", 0, Reason(e)) \in Frames /\ Frame("GOAWAY", 0, Reason(e)).flag # "SYN"
    BY FrameType DEF Reason, ReasonNormal, ReasonProtocol, Frame
  <2> QED BY <1>3, <1>7, <2>1 DEF TearGoaway
<1>8. ASSUME NEW e \in Ends, RlAbort(e) PROVE Goal
  <2>1. rl[e].id \in Ids
    BY <1>8 DEF TypeOK, LoopType, RlAbort
  <2>2. Frame("RST", rl[e].id, ReasonBusy) \in Frames /\ Frame("RST", rl[e].id, ReasonBusy).flag # "SYN"
    BY <2>1, FrameType DEF ReasonBusy, StreamFlags, Frame
  <2> QED BY <1>3, <1>8, <2>2 DEF RlAbort
<1>9. ASSUME NEW e \in Ends, Receive(e) PROVE Goal
  <2>1. link[e] # <<>> /\ link' = [link EXCEPT ![e] = Tail(@)]
    BY <1>9 DEF Receive
  <2> QED BY <1>t, <2>1
<1>10. ASSUME NEW e \in Ends, TearConn(e) PROVE Goal
  <2>1. link'[d] = link[d] \/ link'[d] = <<>>
    BY <1>10, <1>t DEF TearConn
  <2>2. <<>> = SubSeq(link[d], 1, 0) /\ 0 \in 0 .. Len(link[d])
    BY <1>t
  <2> QED BY <2>1, <2>2
<1>11. CASE LinkDrop
  <2>1. \E k \in 0 .. Len(link[d]) : link'[d] = SubSeq(link[d], 1, k)
    BY <1>11 DEF LinkDrop, TypeOK, ConType, Ends
  <2> QED BY <2>1
<1>12. CASE UNCHANGED link
  BY <1>12
<1>13. ASSUME NEW e \in Ends, ReadLoop(e) \/ TearDown(e) PROVE Goal
  BY <1>7, <1>8, <1>9, <1>10, <1>12, <1>13
  DEF ReadLoop, TearDown, conVars, ReceiveFails, RlRegister, RlOffer, RlReset,
      RlRetire, TearMark, TearSweep
<1>14. ASSUME NEW e \in Ends, NEW i \in Ids, Reading(e, i) \/ Write(e, i) \/ Close(e, i)
       PROVE  Goal
  BY <1>4, <1>5, <1>6, <1>12, <1>14
  DEF Reading, Write, Close, conVars, ReadData, ReadEnd, WriteTake, WriteError,
      StreamClose, StreamCloseRetire
<1>15. ASSUME NEW e \in Ends, OpenRegister(e) \/ Accept(e) \/ SessionEnds(e) PROVE Goal
  BY <1>12, <1>15 DEF conVars, OpenRegister, Accept, SessionEnds, SessionClose, KeepAliveCloses
<1> HIDE DEF Goal
<1> QED
  BY <1>2, <1>11, <1>12, <1>13, <1>14, <1>15 DEF Next, vars, conVars

\* A SYN on its way to d was so before, or is just being sent.
LEMMA SynEnters ==
  ASSUME TypeOK, FreshIds, SynOnce, [Next]_vars, NEW d \in Ends
  PROVE  /\ Once(link'[d])
         /\ \A i : HasSyn(link'[d], i) =>
               HasSyn(link[d], i) \/ (i \in opening[Peer(d)] /\ OpenSend(Peer(d), i))
<1> DEFINE Goal == /\ Once(link'[d])
                   /\ \A i : HasSyn(link'[d], i) =>
                         \/ HasSyn(link[d], i)
                         \/ i \in opening[Peer(d)] /\ OpenSend(Peer(d), i)
<1>t. link[d] \in Seq(Frames) /\ Once(link[d])
  BY DEF TypeOK, ConType, SynOnce
<1>1. CASE link'[d] = link[d]
  BY <1>t, <1>1
<1>2. CASE link[d] # <<>> /\ link'[d] = Tail(link[d])
  BY <1>t, <1>2, TailSyn
<1>3. ASSUME NEW m \in 0 .. Len(link[d]), link'[d] = SubSeq(link[d], 1, m) PROVE Goal
  BY <1>t, <1>3, PrefixSyn
<1>4. ASSUME NEW f \in Frames, f.flag # "SYN", link'[d] = Append(link[d], f) PROVE Goal
  <2>1. \A i : ~IsSyn(f, i)
    BY <1>4 DEF IsSyn
  <2> QED BY <1>t, <1>4, <2>1, AppendSyn
<1>5. ASSUME NEW i \in Ids, NEW f \in Frames, OpenSend(Peer(d), i), IsSyn(f, i),
             link'[d] = Append(link[d], f)
      PROVE  Goal
  <2>1. i \in opening[Peer(d)] /\ f.id = i /\ \A j : IsSyn(f, j) => j = i
    BY <1>5 DEF OpenSend, IsSyn
  <2>2. ~HasSyn(link[d], i)
    BY <2>1, EndsFacts DEF FreshIds, SynOnce, Unsent
  <2> QED BY <1>t, <1>5, <2>1, <2>2, AppendSyn
<1> QED BY <1>1, <1>2, <1>3, <1>4, <1>5, LinkChanges

\* How an id gets into the readLoop's hands.
LEMMA LoopEnters ==
  ASSUME TypeOK, [Next]_vars, NEW d \in Ends, NEW i, InLoop(d, i)'
  PROVE  \/ InLoop(d, i) /\ ~RlOffer(d)
         \/ /\ link[d] # <<>> /\ IsSyn(Head(link[d]), i) /\ link'[d] = Tail(link[d])
            /\ UNCHANGED <<held, acc>>
<1> DEFINE Goal == \/ InLoop(d, i) /\ ~RlOffer(d)
                   \/ /\ link[d] # <<>> /\ IsSyn(Head(link[d]), i) /\ link'[d] = Tail(link[d])
                      /\ UNCHANGED <<held, acc>>
<1> SUFFICES Goal
  OBVIOUS
<1>1. ASSUME NEW e \in Ends, NEW pc, NEW j, RlTo(e, pc, j),
             pc \notin {"register", "offer"}, RlOffer(d) => e = d
      PROVE  Goal
  BY <1>1 DEF RlTo, TypeOK, LoopType, InLoop
<1>2. ASSUME rl' = rl PROVE Goal
  <2>1. ~RlOffer(d)
    BY <1>2 DEF RlOffer, RlTo, TypeOK, LoopType
  <2> QED BY <1>2, <2>1 DEF InLoop
<1>3. ASSUME NEW e \in Ends, RlOffer(e) PROVE Goal
  <2>1. RlTo(e, "read", 0) \/ RlTo(e, "refuse", rl[e].id)
    BY <1>3 DEF RlOffer
  <2>2. CASE e = d
    BY <2>1, <2>2 DEF RlTo, TypeOK, LoopType, InLoop
  <2>3. CASE e # d
    <3>1. ~RlOffer(d)
      BY <2>1, <2>3 DEF RlOffer, RlTo, TypeOK, LoopType
    <3> QED BY <2>1, <2>3, <3>1 DEF RlTo, TypeOK, LoopType, InLoop
  <2> QED BY <2>2, <2>3
<1>4. ASSUME NEW e \in Ends, Receive(e) PROVE Goal
  <2> DEFINE f == Head(link[e])
  <2>1. /\ link[e] # <<>> /\ link' = [link EXCEPT ![e] = Tail(@)]
        /\ UNCHANGED <<acc, held>> /\ rl[e].pc = "read"
    BY <1>4 DEF Receive, appVars
  <2>2. \/ UNCHANGED rl \/ RlTo(e, "exit", 0) \/ RlTo(e, "rst", f.id)
        \/ RlTo(e, "retire", f.id) \/ RlTo(e, "reset", f.id)
        \/ f.flag = "SYN" /\ RlTo(e, "register", f.id)
    BY <1>4 DEF Receive, RecvSYN, RecvDATA, RecvFIN, RecvRST, RecvWIN, RecvGOAWAY
  <2>3. RlOffer(d) => e = d /\ FALSE
    <3>1. RlOffer(d) => rl[d].pc = "offer" /\ (RlTo(d, "read", 0) \/ RlTo(d, "refuse", rl[d].id))
      BY DEF RlOffer
    <3>2. \A pc, j : RlTo(e, pc, j) /\ d # e => rl'[d] = rl[d]
      BY DEF RlTo, TypeOK, LoopType
    <3>3. d # e => rl'[d] = rl[d]
      BY <2>2, <3>2
    <3>4. RlOffer(d) => rl'[d].pc # "offer"
      BY <3>1 DEF RlTo, TypeOK, LoopType
    <3> QED BY <2>1, <3>1, <3>3, <3>4
  <2>4. CASE f.flag = "SYN" /\ RlTo(e, "register", f.id)
    <3>1. CASE e = d
      <4>1. rl'[d].id = f.id
        BY <2>4, <3>1 DEF RlTo, TypeOK, LoopType
      <4>2. link'[d] = Tail(link[d])
        BY <2>1, <3>1 DEF TypeOK, ConType
      <4> QED BY <2>1, <2>4, <3>1, <4>1, <4>2 DEF InLoop, IsSyn
    <3>2. CASE e # d
      BY <2>3, <2>4, <3>2 DEF RlTo, TypeOK, LoopType, InLoop
    <3> QED BY <3>1, <3>2
  <2> QED BY <1>1, <1>2, <2>2, <2>3, <2>4
<1>5. ASSUME NEW e \in Ends, RlRegister(e) PROVE Goal
  <2>1. /\ rl[e].pc = "register"
        /\ RlTo(e, "rst", rl[e].id) \/ RlTo(e, "offer", rl[e].id)
    BY <1>5 DEF RlRegister
  <2>2. CASE e = d
    <3>1. InLoop(d, i) /\ rl[d].pc # "offer"
      BY <2>1, <2>2 DEF RlTo, TypeOK, LoopType, InLoop
    <3> QED BY <3>1 DEF RlOffer
  <2>3. CASE e # d
    <3>1. rl'[d] = rl[d]
      BY <2>1, <2>3 DEF RlTo, TypeOK, LoopType
    <3>2. ~RlOffer(d)
      BY <3>1 DEF RlOffer, RlTo, TypeOK, LoopType
    <3> QED BY <3>1, <3>2 DEF InLoop
  <2> QED BY <2>2, <2>3
<1>6. ASSUME NEW e \in Ends,
             ReceiveFails(e) \/ RlReset(e) \/ RlRetire(e) \/ RlAbort(e)
      PROVE  Goal
  <2>1. /\ rl[e].pc # "offer"
        /\ \/ RlTo(e, "exit", 0) \/ RlTo(e, "rst", rl[e].id) \/ RlTo(e, "read", 0)
    BY <1>6 DEF ReceiveFails, RlReset, RlRetire, RlAbort
  <2>2. CASE e = d
    BY <2>1, <2>2 DEF RlTo, TypeOK, LoopType, InLoop
  <2>3. CASE e # d
    <3>1. rl'[d] = rl[d]
      BY <2>1, <2>3 DEF RlTo, TypeOK, LoopType
    <3>2. ~RlOffer(d)
      BY <3>1 DEF RlOffer, RlTo, TypeOK, LoopType
    <3> QED BY <3>1, <3>2 DEF InLoop
  <2> QED BY <2>2, <2>3
<1> HIDE DEF Goal
<1> QED
  BY <1>2, <1>3, <1>4, <1>5, <1>6, RlChanges DEF ReadLoop

\* Accept takes streams from the queue, Open returns own ones.
LEMMA HeldEnters ==
  ASSUME TypeOK, FreshIds, [Next]_vars, NEW d \in Ends, NEW i \in Own(Peer(d)),
         i \in held'[d]
  PROVE  i \in held[d] \/ Queued(d, i)
<1> DEFINE Goal == i \in held[d] \/ Queued(d, i)
<1> SUFFICES Goal
  OBVIOUS
<1>h. \A e \in Ends : \A j : held' = Set(held, e, j) =>
        i \in held[d] \/ (e = d /\ i = j)
  BY DEF Set, TypeOK, AppType
<1>1. ASSUME NEW e \in Ends, NEW j \in Ids, OpenSend(e, j) PROVE Goal
  <2>1. j \in Own(e) /\ (held' = Set(held, e, j) \/ UNCHANGED held)
    BY <1>1 DEF OpenSend, FreshIds
  <2>2. e # d \/ i # j
    BY <2>1, OwnDisjoint
  <2> QED BY <1>h, <2>1, <2>2
<1>2. ASSUME NEW e \in Ends, Accept(e) PROVE Goal
  <2>1. CASE UNCHANGED held
    BY <2>1
  <2>2. CASE held' = Set(held, e, Head(acc[e])) /\ Queued(e, Head(acc[e]))
    BY <1>h, <2>2
  <2> QED BY <1>2, <2>1, <2>2, Accepted
<1>3. ASSUME UNCHANGED held PROVE Goal
  BY <1>3
<1>4. ASSUME NEW e \in Ends, ReadLoop(e) \/ TearDown(e) PROVE Goal
  BY <1>3, <1>4, LoopFootprint, TearFootprint DEF LoopKeeps, TearKeeps, appVars
<1>5. ASSUME NEW e \in Ends, NEW j \in Ids, Reading(e, j) \/ Write(e, j) \/ Close(e, j)
      PROVE  Goal
  BY <1>3, <1>5, StreamFootprint DEF ReadKeeps, WriteKeeps, CloseKeeps
<1> HIDE DEF Goal
<1> QED
  BY <1>1, <1>2, <1>3, <1>4, <1>5
  DEF Next, vars, appVars, LinkDrop, OpenRegister, SessionEnds, SessionClose, KeepAliveCloses

LEMMA QueueEnters ==
  ASSUME TypeOK, [Next]_vars, NEW d \in Ends, NEW i, Queued(d, i)'
  PROVE  Queued(d, i) \/ (RlOffer(d) /\ InLoop(d, i))
<1>1. CASE acc'[d] = acc[d]
  BY <1>1 DEF Queued
<1>2. CASE RlOffer(d)
  <2>1. rl[d].pc = "offer"
    BY <1>2 DEF RlOffer
  <2>2. Queued(d, i) \/ i = rl[d].id \/ UNCHANGED acc
    BY <1>2, Offered
  <2> QED BY <1>2, <2>1, <2>2 DEF InLoop, Queued
<1>3. CASE Accept(d)
  <2>1. (\A j : Queued(d, j)' => Queued(d, j)) \/ UNCHANGED acc
    BY <1>3, Accepted
  <2> QED BY <2>1 DEF Queued
<1> QED BY <1>1, <1>2, <1>3, QueueChanges

\* Open registers ids from nextID only.
LEMMA OpeningEnters ==
  ASSUME TypeOK, [Next]_vars, NEW p \in Ends, NEW i
  PROVE  i \in opening'[p] => i \in opening[p] \/ i = nextID[p]
<1> DEFINE Goal == i \in opening'[p] => i \in opening[p] \/ i = nextID[p]
<1> SUFFICES Goal
  OBVIOUS
<1>1. ASSUME NEW e \in Ends, NEW j \in Ids, OpenSend(e, j) PROVE Goal
  BY <1>1 DEF OpenSend, Clear, TypeOK, AppType
<1>2. ASSUME NEW e \in Ends, OpenRegister(e) PROVE Goal
  BY <1>2 DEF OpenRegister, Set, TypeOK, AppType
<1>3. ASSUME UNCHANGED opening PROVE Goal
  BY <1>3
<1>4. ASSUME NEW e \in Ends, ReadLoop(e) \/ TearDown(e) PROVE Goal
  BY <1>3, <1>4, LoopFootprint, TearFootprint DEF LoopKeeps, TearKeeps, appVars
<1>5. ASSUME NEW e \in Ends, NEW j \in Ids, Reading(e, j) \/ Write(e, j) \/ Close(e, j)
      PROVE  Goal
  BY <1>3, <1>5, StreamFootprint DEF ReadKeeps, WriteKeeps, CloseKeeps
<1>6. ASSUME NEW e \in Ends, Accept(e) \/ SessionEnds(e) PROVE Goal
  BY <1>3, <1>6 DEF Accept, SessionEnds, SessionClose, KeepAliveCloses, appVars
<1>7. CASE LinkDrop \/ UNCHANGED vars
  BY <1>3, <1>7 DEF LinkDrop, vars, appVars
<1> HIDE DEF Goal
<1> QED
  BY <1>1, <1>2, <1>4, <1>5, <1>6, <1>7 DEF Next

\* Ids leave Open and nextID for good.
LEMMA UnsentShrinks ==
  ASSUME TypeOK, FreshIds, [Next]_vars, NEW d \in Ends, NEW i \in Own(Peer(d)),
         Unsent(d, i)'
  PROVE  Unsent(d, i) /\ ~(OpenSend(Peer(d), i) /\ i \in opening[Peer(d)])
<1> DEFINE p == Peer(d)
           Goal == Unsent(d, i) /\ ~(OpenSend(p, i) /\ i \in opening[p])
<1>p. /\ p \in Ends /\ i \in Nat
      /\ nextID[p] \in Nat /\ nextID'[p] \in Nat /\ nextID[p] <= nextID'[p]
  BY EndsFacts, IdsFacts, HeldGrows, TypeStep DEF TypeOK, SesType
<1> HIDE DEF p
<1>1. i \in opening[p] => i < nextID[p]
  BY <1>p DEF FreshIds, p
<1>2. ASSUME OpenSend(p, i), i \in opening[p] PROVE FALSE
  <2>1. opening' = Clear(opening, p, i) /\ UNCHANGED nextID
    BY <1>2 DEF OpenSend, sesVars
  <2>2. i \notin opening'[p]
    BY <1>p, <2>1 DEF Clear, TypeOK, AppType
  <2> QED BY <1>p, <1>1, <1>2, <2>1, <2>2 DEF Unsent, p
<1>3. i \in opening'[p] => i \in opening[p] \/ i = nextID[p]
  BY <1>p, OpeningEnters
<1>4. i >= nextID'[p] => i >= nextID[p]
  BY <1>p
<1>5. i = nextID[p] => i >= nextID[p]
  BY <1>p
<1> QED BY <1>2, <1>3, <1>4, <1>5 DEF Unsent, p

LEMMA SynOnceStep == TypeOK /\ FreshIds /\ SynOnce /\ [Next]_vars => SynOnce'
<1> SUFFICES ASSUME TypeOK, FreshIds, SynOnce, [Next]_vars, NEW d \in Ends,
                    NEW i \in Own(Peer(d))
             PROVE  /\ HasSyn(link'[d], i) => ~Known(d, i)'
                    /\ Unsent(d, i)' => ~HasSyn(link'[d], i) /\ ~Known(d, i)'
                    /\ InLoop(d, i)' => i \notin held'[d] /\ ~Queued(d, i)'
  BY SynEnters DEF SynOnce
<1> DEFINE Arrives == /\ link[d] # <<>> /\ IsSyn(Head(link[d]), i)
                      /\ link'[d] = Tail(link[d]) /\ UNCHANGED <<held, acc>>
<1>t. link[d] \in Seq(Frames)
  BY DEF TypeOK, ConType
<1>1. /\ Once(link[d])
      /\ HasSyn(link[d], i) => ~Known(d, i)
      /\ Unsent(d, i) => ~HasSyn(link[d], i) /\ ~Known(d, i)
      /\ InLoop(d, i) => i \notin held[d] /\ ~Queued(d, i)
  BY DEF SynOnce
<1>2. Arrives => HasSyn(link[d], i) /\ ~HasSyn(link'[d], i)
  BY <1>t, <1>1, TailSyn
<1>3. Known(d, i)' => Known(d, i) \/ Arrives
  BY HeldEnters, QueueEnters, LoopEnters DEF Known
<1>4. HasSyn(link'[d], i) =>
        HasSyn(link[d], i) \/ (i \in opening[Peer(d)] /\ OpenSend(Peer(d), i))
  BY SynEnters
<1>5. i \in opening[Peer(d)] => Unsent(d, i)
  BY DEF Unsent
<1>6. ASSUME InLoop(d, i)' PROVE i \notin held'[d] /\ ~Queued(d, i)'
  <2>1. CASE InLoop(d, i) /\ ~RlOffer(d)
    BY <1>1, <2>1, HeldEnters, QueueEnters
  <2>2. CASE Arrives
    <3>1. ~Known(d, i)
      BY <1>1, <1>2, <2>2
    <3> QED BY <2>2, <3>1 DEF Known, Queued
  <2> QED BY <1>6, <2>1, <2>2, LoopEnters
<1>7. Unsent(d, i)' => Unsent(d, i) /\ ~(OpenSend(Peer(d), i) /\ i \in opening[Peer(d)])
  BY UnsentShrinks
<1> QED BY <1>1, <1>2, <1>3, <1>4, <1>5, <1>6, <1>7
-----------------------------------------------------------------------------
(* closeWithError and the streams the peer opened.                         *)

\* Accept, its queue or the readLoop holds the stream.
Uses(e, i) == i \in held[e] \/ Queued(e, i) \/ rl[e] = [pc |-> "offer", id |-> i]

BothHalves(e, i) == i \in finSent[e] \cap finRecv[e]

\* A stream of the peer in use is registered, or on its way out, or its users
\* have been woken; it is retired only when both its halves are closed.
PeerInv ==
    \A e \in Ends : \A i \in Own(Peer(e)) :
       /\ Uses(e, i) => Tracked(e, i)
       /\ Retiring(e, i) => BothHalves(e, i)

\* A readLoop that has closed the session has ended, and after the sweep the
\* table stays empty.
GoneInv ==
    \A e \in Ends : cause[e] = "read" =>
       /\ phase[e] # "open" => rl[e].pc = "exit"
       /\ phase[e] = "closed" => live[e] = {}

\* The flags of a stream survive unless its own SYN is being handled.
LEMMA PeerFlagsStay ==
  ASSUME TypeOK, FreshIds, [Next]_vars, NEW d \in Ends, NEW i \in Own(Peer(d)),
         rl[d].pc = "register" => rl[d].id # i
  PROVE  /\ i \in Ended(d) => i \in Ended(d)'
         /\ BothHalves(d, i) => BothHalves(d, i)'
<1> DEFINE Goal == /\ i \in Ended(d) => i \in Ended(d)'
                   /\ BothHalves(d, i) => BothHalves(d, i)'
<1> USE DEF BothHalves
<1>1. CASE FlagsGrow
  BY <1>1 DEF FlagsGrow, Grows, Ended
<1>2. ASSUME NEW e \in Ends, NEW id, NewStream(e, id), d # e \/ i # id PROVE Goal
  BY <1>2, NewStreamFlags DEF Ended
<1>3. ASSUME NEW e \in Ends, OpenRegister(e) PROVE Goal
  <2>1. NewStream(e, nextID[e]) /\ nextID[e] \in Own(e)
    BY <1>3 DEF OpenRegister, FreshIds, Own
  <2>2. d # e \/ i # nextID[e]
    BY <2>1, OwnDisjoint
  <2> QED BY <1>2, <2>1, <2>2
<1>4. ASSUME NEW e \in Ends, RlRegister(e) PROVE Goal
  <2>1. CASE UNCHANGED strVars
    BY <2>1 DEF strVars, flags, Ended
  <2>2. rl[e].pc = "register" /\ (UNCHANGED strVars \/ NewStream(e, rl[e].id))
    BY <1>4 DEF RlRegister
  <2> QED BY <1>2, <2>1, <2>2
<1> QED BY <1>1, <1>3, <1>4, FlagsOnlySet DEF NewSteps

\* How a stream leaves the table.
LEMMA TableLeaves ==
  ASSUME TypeOK, FreshIds, [Next]_vars, NEW d \in Ends, NEW i \in Own(Peer(d)),
         i \in live[d], i \notin live'[d], Retiring(d, i) => BothHalves(d, i)
  PROVE  \/ rl'[d] = [pc |-> "reset", id |-> i]
         \/ i \in sclosed'[d]
         \/ BothHalves(d, i)
         \/ RlOffer(d) /\ rl[d].id = i /\ UNCHANGED <<held, acc>>
<1> DEFINE Goal == \/ rl'[d] = [pc |-> "reset", id |-> i]
                   \/ i \in sclosed'[d]
                   \/ BothHalves(d, i)
                   \/ RlOffer(d) /\ rl[d].id = i /\ UNCHANGED <<held, acc>>
<1> SUFFICES Goal
  OBVIOUS
<1>1. \A e \in Ends : \A j : live' = Clear(live, e, j) => e = d /\ j = i
  BY DEF Clear, TypeOK, StrType
<1>2. \A e \in Ends : \A j : live' # Set(live, e, j)
  BY DEF Set, TypeOK, StrType
<1>3. ~UNCHANGED live
  OBVIOUS
<1>4. ASSUME NEW e \in Ends, NEW j \in Ids, OpenSend(e, j) PROVE Goal
  <2>1. e = d /\ j = i
    BY <1>1, <1>3, <1>4 DEF OpenSend
  <2>2. i \in Own(d)
    BY <1>4, <2>1 DEF OpenSend, FreshIds
  <2> QED BY <2>2, OwnDisjoint
<1>5. ASSUME NEW e \in Ends, NEW j \in Ids, StreamCloseRetire(e, j) PROVE Goal
  BY <1>1, <1>5 DEF StreamCloseRetire, Retiring
<1>6. ASSUME NEW e \in Ends, TearSweep(e) PROVE Goal
  <2>1. live' = [live EXCEPT ![e] = {}] /\ sclosed' = [sclosed EXCEPT ![e] = @ \cup live[e]]
    BY <1>6 DEF TearSweep
  <2> QED BY <2>1 DEF TypeOK, StrType
<1>7. ASSUME NEW e \in Ends, Receive(e) PROVE Goal
  <2> DEFINE j == Head(link[e]).id
  <2>1. \/ UNCHANGED live
        \/ live' = Clear(live, e, j) /\ (j \in live[e] => RlTo(e, "reset", j))
    BY <1>7 DEF Receive, RecvSYN, RecvDATA, RecvFIN, RecvRST, RecvWIN, RecvGOAWAY,
       strVars
  <2>2. e = d /\ j = i /\ RlTo(d, "reset", i)
    BY <1>1, <1>3, <2>1
  <2> QED BY <2>2 DEF RlTo, TypeOK, LoopType
<1>8. ASSUME NEW e \in Ends, RlOffer(e) PROVE Goal
  <2>1. live' = Clear(live, e, rl[e].id) /\ UNCHANGED acc /\ UNCHANGED held
    BY <1>3, <1>8 DEF RlOffer, Unregistered, appVars
  <2>2. e = d /\ rl[e].id = i
    BY <1>1, <2>1
  <2> QED BY <1>8, <2>1, <2>2
<1>9. ASSUME NEW e \in Ends, RlRetire(e) PROVE Goal
  <2>1. rl[e].pc = "retire" /\ live' = Clear(live, e, rl[e].id)
    BY <1>9 DEF RlRetire
  <2>2. e = d /\ rl[e].id = i
    BY <1>1, <2>1
  <2>3. rl[d] = [pc |-> "retire", id |-> i]
    BY <2>1, <2>2 DEF TypeOK, LoopType
  <2> QED BY <2>3 DEF Retiring
<1>10. ASSUME NEW e \in Ends, OpenRegister(e) \/ RlRegister(e) PROVE Goal
  BY <1>2, <1>3, <1>10 DEF OpenRegister, RlRegister, strVars
<1> HIDE DEF Goal
<1> QED
  BY <1>3, <1>4, <1>5, <1>6, <1>7, <1>8, <1>9, <1>10, LiveChanges

\* The readLoop offers what it has just registered.
LEMMA OfferBegins ==
  ASSUME TypeOK, [Next]_vars, NEW d \in Ends, NEW i, rl'[d] = [pc |-> "offer", id |-> i]
  PROVE  rl[d] = rl'[d] \/ i \in live'[d]
<1> DEFINE Goal == rl[d] = rl'[d] \/ i \in live'[d]
<1> SUFFICES Goal
  OBVIOUS
<1>1. ASSUME NEW e \in Ends, NEW pc, NEW j, RlTo(e, pc, j), pc # "offer" PROVE Goal
  BY <1>1 DEF RlTo, TypeOK, LoopType
<1>2. ASSUME UNCHANGED rl PROVE Goal
  BY <1>2
<1>3. ASSUME NEW e \in Ends, Receive(e) PROVE Goal
  <2> DEFINE j == Head(link[e]).id
  <2>1. \/ UNCHANGED rl \/ RlTo(e, "exit", 0) \/ RlTo(e, "rst", j)
        \/ RlTo(e, "register", j) \/ RlTo(e, "reset", j) \/ RlTo(e, "retire", j)
    BY <1>3 DEF Receive, RecvSYN, RecvDATA, RecvFIN, RecvRST, RecvWIN, RecvGOAWAY
  <2> QED BY <1>1, <1>2, <2>1
<1>4. ASSUME NEW e \in Ends, RlRegister(e) PROVE Goal
  <2>1. CASE RlTo(e, "rst", rl[e].id)
    BY <1>1, <2>1
  <2>2. CASE live' = Set(live, e, rl[e].id) /\ RlTo(e, "offer", rl[e].id)
    <3>1. CASE e = d
      <4>1. i = rl[e].id
        BY <2>2, <3>1 DEF RlTo, TypeOK, LoopType
      <4> QED BY <2>2, <3>1, <4>1 DEF Set, TypeOK, StrType
    <3>2. CASE e # d
      BY <2>2, <3>2 DEF RlTo, TypeOK, LoopType
    <3> QED BY <3>1, <3>2
  <2> QED BY <1>4, <2>1, <2>2 DEF RlRegister
<1>5. ASSUME NEW e \in Ends,
             ReceiveFails(e) \/ RlOffer(e) \/ RlReset(e) \/ RlRetire(e) \/ RlAbort(e)
      PROVE  Goal
  <2>1. \/ RlTo(e, "exit", 0) \/ RlTo(e, "rst", rl[e].id) \/ RlTo(e, "read", 0)
        \/ RlTo(e, "refuse", rl[e].id)
    BY <1>5 DEF ReceiveFails, RlOffer, RlReset, RlRetire, RlAbort
  <2> QED BY <1>1, <2>1
<1> HIDE DEF Goal
<1> QED
  BY <1>2, <1>3, <1>4, <1>5, RlChanges DEF ReadLoop

LEMMA PeerStep ==
  TypeOK /\ WakeInv /\ SynOnce /\ PeerInv /\ [Next]_vars => PeerInv'
<1> SUFFICES ASSUME TypeOK, WakeInv, SynOnce, PeerInv, [Next]_vars, NEW d \in Ends,
                    NEW i \in Own(Peer(d))
             PROVE  /\ Uses(d, i)' => Tracked(d, i)'
                    /\ Retiring(d, i)' => BothHalves(d, i)'
  BY DEF PeerInv
<1>i. i \in Ids
  BY IdsFacts, EndsFacts
<1>f. FreshIds /\ RetireInv
  BY DEF WakeInv
<1>o. /\ Uses(d, i) => Tracked(d, i)
      /\ Retiring(d, i) => BothHalves(d, i)
  BY DEF PeerInv
<1>1. InLoop(d, i) => i \notin held[d] /\ ~Queued(d, i)
  BY DEF SynOnce
<1>2. rl[d].pc = "register" /\ rl[d].id = i => i \notin held[d] /\ ~Queued(d, i) /\ ~Uses(d, i)
  BY <1>1 DEF InLoop, Uses
<1>3. ASSUME Retiring(d, i)' PROVE BothHalves(d, i)'
  <2>1. CASE cl'[d][i] = "retire"
    <3>1. CASE cl[d][i] = "retire"
      <4>1. i \in held[d] /\ BothHalves(d, i)
        BY <1>f, <1>i, <1>o, <3>1 DEF RetireInv, Retiring
      <4> QED BY <1>2, <1>f, <4>1, PeerFlagsStay
    <3>2. CASE i \in finRecv[d] /\ finSent' = Set(finSent, d, i) /\ UNCHANGED finRecv
      BY <3>2 DEF Set, TypeOK, StrType, BothHalves
    <3> QED BY <1>i, <2>1, <3>1, <3>2, CloseProgress
  <2>2. CASE rl'[d] = [pc |-> "retire", id |-> i]
    <3>1. CASE rl'[d] = rl[d]
      <4>1. BothHalves(d, i) /\ rl[d].pc # "register"
        BY <1>o, <2>2, <3>1 DEF Retiring
      <4> QED BY <1>f, <4>1, PeerFlagsStay
    <3>2. CASE i \in finSent[d] /\ finRecv' = Set(finRecv, d, i) /\ UNCHANGED finSent
      BY <3>2 DEF Set, TypeOK, StrType, BothHalves
    <3> QED BY <2>2, <3>1, <3>2, RetireCause
  <2> QED BY <1>3, <2>1, <2>2 DEF Retiring
<1>4. ASSUME Uses(d, i)', i \notin live'[d] PROVE Uses(d, i)
  <2>1. i \in held'[d] => Uses(d, i)
    BY <1>f, HeldEnters DEF Uses
  <2>2. ASSUME Queued(d, i)' PROVE Uses(d, i)
    <3>1. RlOffer(d) /\ InLoop(d, i) => rl[d] = [pc |-> "offer", id |-> i]
      BY DEF RlOffer, InLoop, TypeOK, LoopType
    <3> QED BY <2>2, <3>1, QueueEnters DEF Uses
  <2>3. ASSUME rl'[d] = [pc |-> "offer", id |-> i] PROVE Uses(d, i)
    BY <1>4, <2>3, OfferBegins DEF Uses
  <2> QED BY <1>4, <2>1, <2>2, <2>3 DEF Uses
<1>5. ASSUME Uses(d, i)', i \notin live'[d] PROVE Tracked(d, i)'
  <2>1. Uses(d, i) /\ Tracked(d, i) /\ (rl[d].pc = "register" => rl[d].id # i)
    BY <1>2, <1>4, <1>5, <1>o
  <2>2. CASE i \in Ended(d)
    BY <1>f, <2>1, <2>2, PeerFlagsStay DEF Tracked
  <2>3. CASE rl[d] = [pc |-> "reset", id |-> i]
    BY <2>3, ResetFollows DEF Tracked, Ended
  <2>4. CASE i \in live[d]
    <3>1. BothHalves(d, i) => BothHalves(d, i)'
      BY <1>f, <2>1, PeerFlagsStay
    <3>2. ~(RlOffer(d) /\ rl[d].id = i /\ UNCHANGED <<held, acc>>)
      <4>1. SUFFICES ASSUME RlOffer(d), rl[d].id = i, UNCHANGED <<held, acc>> PROVE FALSE
        OBVIOUS
      <4>2. InLoop(d, i)
        BY <4>1 DEF RlOffer, InLoop
      <4>3. i \notin held'[d] /\ ~Queued(d, i)'
        BY <1>1, <4>1, <4>2 DEF Queued
      <4>4. rl'[d].pc # "offer"
        BY <4>1 DEF RlOffer, RlTo, TypeOK, LoopType
      <4> QED BY <1>5, <4>3, <4>4 DEF Uses
    <3>3. \/ rl'[d] = [pc |-> "reset", id |-> i]
          \/ i \in sclosed'[d]
          \/ BothHalves(d, i)
      BY <1>5, <1>f, <1>o, <2>4, <3>2, TableLeaves
    <3> QED BY <3>1, <3>3 DEF Tracked, Ended, BothHalves
  <2> QED BY <2>1, <2>2, <2>3, <2>4 DEF Tracked
<1> QED BY <1>3, <1>5 DEF Tracked

\* A readLoop that has returned does nothing more.
LEMMA ExitStays ==
  ASSUME TypeOK, [Next]_vars, NEW d \in Ends, rl[d].pc = "exit"
  PROVE  rl'[d] = rl[d]
<1> DEFINE Goal == rl'[d] = rl[d]
<1> SUFFICES Goal
  OBVIOUS
<1>1. ASSUME NEW e \in Ends, NEW pc, NEW i, RlTo(e, pc, i), e # d PROVE Goal
  BY <1>1 DEF RlTo, TypeOK, LoopType
<1>2. ASSUME UNCHANGED rl PROVE Goal
  BY <1>2
<1>3. ASSUME NEW e \in Ends, Receive(e) PROVE Goal
  <2> DEFINE j == Head(link[e]).id
  <2>1. e # d
    BY <1>3 DEF Receive
  <2>2. \/ UNCHANGED rl \/ RlTo(e, "exit", 0) \/ RlTo(e, "rst", j)
        \/ RlTo(e, "register", j) \/ RlTo(e, "reset", j) \/ RlTo(e, "retire", j)
    BY <1>3 DEF Receive, RecvSYN, RecvDATA, RecvFIN, RecvRST, RecvWIN, RecvGOAWAY
  <2> QED BY <1>1, <1>2, <2>1, <2>2
<1>4. ASSUME NEW e \in Ends,
             \/ ReceiveFails(e) \/ RlRegister(e) \/ RlOffer(e) \/ RlReset(e)
             \/ RlRetire(e) \/ RlAbort(e)
      PROVE  Goal
  <2>1. /\ e # d
        /\ \/ RlTo(e, "exit", 0) \/ RlTo(e, "rst", rl[e].id) \/ RlTo(e, "read", 0)
           \/ RlTo(e, "offer", rl[e].id) \/ RlTo(e, "refuse", rl[e].id)
    BY <1>4 DEF ReceiveFails, RlRegister, RlOffer, RlReset, RlRetire, RlAbort
  <2> QED BY <1>1, <2>1
<1> HIDE DEF Goal
<1> QED
  BY <1>2, <1>3, <1>4, RlChanges DEF ReadLoop

\* When the readLoop closes the session, it returns.
LEMMA LoopCloses ==
  ASSUME TypeOK, [Next]_vars, NEW d \in Ends,
         phase'[d] # "open", cause'[d] = "read"
  PROVE  (phase[d] # "open" /\ cause[d] = "read") \/ rl'[d].pc = "exit"
<1> DEFINE Goal == (phase[d] # "open" /\ cause[d] = "read") \/ rl'[d].pc = "exit"
<1> SUFFICES Goal
  OBVIOUS
<1>1. ASSUME NEW e \in Ends, Closing(e, "read"), RlTo(e, "exit", 0) PROVE Goal
  BY <1>1 DEF Closing, RlTo, TypeOK, SesType, LoopType
<1>2. ASSUME UNCHANGED <<phase, cause>> PROVE Goal
  BY <1>2
<1>3. ASSUME NEW e \in Ends, Receive(e) PROVE Goal
  <2>1. \/ UNCHANGED <<phase, cause>>
        \/ Closing(e, "read") /\ RlTo(e, "exit", 0)
    BY <1>3 DEF Receive, RecvSYN, RecvDATA, RecvFIN, RecvRST, RecvWIN, RecvGOAWAY
  <2> QED BY <1>1, <1>2, <2>1
<1>4. ASSUME NEW e \in Ends, ReceiveFails(e) PROVE Goal
  BY <1>1, <1>4 DEF ReceiveFails
<1>5. ASSUME NEW e \in Ends, SessionEnds(e) PROVE Goal
  BY <1>5 DEF SessionEnds, SessionClose, KeepAliveCloses, Closing, TypeOK, SesType
<1>6. ASSUME NEW e \in Ends, NEW from \in {"goaway", "mark", "conn", "sweep"},
             Advance(e, from), UNCHANGED cause
      PROVE  Goal
  BY <1>6 DEF Advance, TypeOK, SesType
<1>7. ASSUME NEW e \in Ends, TearDown(e) PROVE Goal
  BY <1>6, <1>7 DEF TearDown, TearGoaway, TearMark, TearConn, TearSweep
<1> HIDE DEF Goal
<1>8. ASSUME NEW e \in Ends, ReadLoop(e) PROVE Goal
  BY <1>2, <1>3, <1>4, <1>8
  DEF ReadLoop, sesVars, RlRegister, RlOffer, RlReset, RlRetire, RlAbort
<1>9. ASSUME NEW e \in Ends, NEW i \in Ids,
             OpenSend(e, i) \/ Reading(e, i) \/ Write(e, i) \/ Close(e, i)
      PROVE  Goal
  <2>1. UNCHANGED <<phase, cause>>
    BY <1>9, StreamFootprint DEF ReadKeeps, WriteKeeps, CloseKeeps, OpenSend, sesVars
  <2> QED BY <1>2, <2>1
<1>10. ASSUME NEW e \in Ends, OpenRegister(e) \/ Accept(e) PROVE Goal
  BY <1>2, <1>10 DEF OpenRegister, Accept, sesVars
<1>11. CASE LinkDrop \/ UNCHANGED vars
  BY <1>2, <1>11 DEF LinkDrop, vars, sesVars
<1> QED BY <1>5, <1>7, <1>8, <1>9, <1>10, <1>11 DEF Next

\* The first cause is the one the session keeps.
LEMMA CauseStays ==
  ASSUME TypeOK, [Next]_vars, NEW d \in Ends, phase[d] # "open"
  PROVE  cause'[d] = cause[d]
<1> DEFINE Goal == cause'[d] = cause[d]
<1> SUFFICES Goal
  OBVIOUS
<1>1. ASSUME NEW e \in Ends, NEW why, Closing(e, why) PROVE Goal
  BY <1>1 DEF Closing, TypeOK, SesType
<1>2. ASSUME UNCHANGED cause PROVE Goal
  BY <1>2
<1>3. ASSUME NEW e \in Ends, Receive(e) PROVE Goal
  <2>1. UNCHANGED cause \/ Closing(e, "read")
    BY <1>3 DEF Receive, RecvSYN, RecvDATA, RecvFIN, RecvRST, RecvWIN, RecvGOAWAY
  <2> QED BY <1>1, <1>2, <2>1
<1>4. ASSUME NEW e \in Ends, ReadLoop(e) \/ TearDown(e) PROVE Goal
  BY <1>1, <1>2, <1>3, <1>4
  DEF ReadLoop, TearDown, sesVars, ReceiveFails, TearGoaway, TearMark, TearConn,
      TearSweep, RlRegister, RlOffer, RlReset, RlRetire, RlAbort
<1>5. ASSUME NEW e \in Ends, NEW i \in Ids, Reading(e, i) \/ Write(e, i) \/ Close(e, i)
      PROVE  Goal
  BY <1>2, <1>5
  DEF Reading, Write, Close, sesVars, ReadData, ReadCredit, ReadEnd, WriteTake,
      WriteSend, WriteError, StreamClose, StreamCloseRetire, StreamCloseSend
<1>6. ASSUME NEW e \in Ends, OpenRegister(e) \/ Accept(e) \/ SessionEnds(e) PROVE Goal
  BY <1>1, <1>2, <1>6 DEF OpenRegister, Accept, SessionEnds, SessionClose, KeepAliveCloses, sesVars
<1>7. ASSUME NEW e \in Ends, NEW i \in Ids, OpenSend(e, i) PROVE Goal
  BY <1>2, <1>7 DEF OpenSend, sesVars
<1>8. CASE LinkDrop \/ UNCHANGED vars
  BY <1>2, <1>8 DEF LinkDrop, vars, sesVars
<1> HIDE DEF Goal
<1> QED
  BY <1>4, <1>5, <1>6, <1>7, <1>8 DEF Next

LEMMA GoneStep == TypeOK /\ WakeInv /\ GoneInv /\ [Next]_vars => GoneInv'
<1> SUFFICES ASSUME TypeOK, WakeInv, GoneInv, [Next]_vars, NEW d \in Ends,
                    cause'[d] = "read"
             PROVE  /\ phase'[d] # "open" => rl'[d].pc = "exit"
                    /\ phase'[d] = "closed" => live'[d] = {}
  BY DEF GoneInv
<1>1. ASSUME phase'[d] # "open" PROVE rl'[d].pc = "exit"
  <2>1. CASE phase[d] # "open" /\ cause[d] = "read"
    <3>1. rl[d].pc = "exit"
      BY <2>1 DEF GoneInv
    <3> QED BY <3>1, ExitStays
  <2> QED BY <1>1, <2>1, LoopCloses
<1>2. ASSUME phase'[d] = "closed" PROVE live'[d] = {}
  <2>1. CASE TearSweep(d)
    BY <2>1 DEF TearSweep, TypeOK, StrType
  <2>2. CASE phase[d] = "closed"
    <3>1. CASE live[d] = {}
      <4>1. SUFFICES ASSUME NEW i \in live'[d] PROVE FALSE
        OBVIOUS
      <4>2. i \in opening'[d]
        <5>1. rl'[d].pc = "exit"
          BY <1>1, <1>2
        <5>2. i \in opening'[d] \/ rl'[d] = [pc |-> "offer", id |-> i]
          BY <3>1, TableEnters
        <5> QED BY <5>1, <5>2
      <4>3. WakeInv'
        BY WakeStep
      <4> QED BY <1>2, <4>2, <4>3 DEF WakeInv, FreshIds
    <3>2. CASE cause[d] = "read"
      BY <2>2, <3>1, <3>2 DEF GoneInv
    <3>3. cause[d] = "read"
      BY <2>2, CauseStays
    <3> QED BY <3>2, <3>3
  <2> QED BY <1>2, <2>1, <2>2, PhaseProgress
<1> QED BY <1>1, <1>2

LEMMA InitTable == Init => SynOnce /\ PeerInv /\ GoneInv
<1> SUFFICES ASSUME Init PROVE SynOnce /\ PeerInv /\ GoneInv
  OBVIOUS
<1>1. \A e \in Ends : /\ link[e] = <<>> /\ acc[e] = <<>> /\ held[e] = {}
                      /\ rl[e] = [pc |-> "read", id |-> 0] /\ cause[e] = "nil"
                      /\ \A i \in Ids : cl[e][i] = "open"
  BY DEF Init, PerEnd, PerStream
<1>2. \A e \in Ends : \A i : ~HasSyn(link[e], i) /\ ~Queued(e, i)
  BY <1>1 DEF HasSyn, Queued, Occurs
<1>3. \A e \in Ends : Once(link[e])
  BY <1>1 DEF Once
<1>4. SynOnce
  BY <1>1, <1>2, <1>3 DEF SynOnce, Known, InLoop
<1>5. PeerInv
  <2> SUFFICES ASSUME NEW e \in Ends, NEW i \in Own(Peer(e))
               PROVE  ~Uses(e, i) /\ ~Retiring(e, i)
    BY DEF PeerInv
  <2>1. i \in Ids
    BY EndsFacts, IdsFacts
  <2>2. rl[e].pc = "read"
    BY <1>1
  <2>3. cl[e][i] = "open" /\ held[e] = {} /\ ~Queued(e, i)
    BY <1>1, <1>2, <2>1
  <2> QED BY <2>2, <2>3 DEF Uses, Retiring
<1>6. GoneInv
  BY <1>1 DEF GoneInv
<1> QED BY <1>4, <1>5, <1>6

\* When the readLoop itself has closed the session, nobody waits on an
\* accepted stream either: no SYN is handled after the sweep (session.go
\* readLoop, handleSYN, closeWithError).
THEOREM AcceptedWoken == Spec => []AcceptedIsWoken
<1>1. TypeOK /\ WakeInv /\ PeerInv /\ GoneInv => AcceptedIsWoken
  <2> SUFFICES ASSUME TypeOK, WakeInv, PeerInv, GoneInv, NEW e \in Ends,
                      NEW i \in held[e], phase[e] = "closed",
                      cause[e] = "read"
               PROVE  i \in Ended(e)
    BY DEF AcceptedIsWoken
  <2>1. i \in Own(e) \/ i \in Own(Peer(e))
    BY OwnCovers DEF TypeOK, AppType
  <2>2. Tracked(e, i)
    BY <2>1 DEF WakeInv, PeerInv, Uses
  <2>3. live[e] = {} /\ rl[e].pc = "exit"
    BY DEF GoneInv
  <2> QED BY <2>2, <2>3 DEF Tracked
<1>2. WakeInv => FreshIds
  BY DEF WakeInv
<1> QED
  BY <1>1, <1>2, InitType, TypeStep, InitWake, WakeStep, InitTable, SynOnceStep,
     PeerStep, GoneStep, PTL DEF Spec
=============================================================================
